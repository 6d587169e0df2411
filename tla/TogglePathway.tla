---------------------------- MODULE TogglePathway ----------------------------
(***************************************************************************)
(* A pathway of TOGGLE messages, as the idle levels and DynFin use it.  A  *)
(* TOGGLE message is a level: one that is written replaces the one that    *)
(* waits, at both ends, and no ready mask holds it back.  Two histories    *)
(* are added to Pathway: the level written last and the level every reader *)
(* read last.  The pathways of levels have one writer, and broadcast.      *)
(***************************************************************************)
EXTENDS Pathway

VARIABLES newest, shown

ToggleVars == <<vars, newest, shown>>

ToggleInit == Init /\ newest = NoMsg /\ shown = [r \in RHS |-> NoMsg]

Write(m) == LHSAssign(Src[m], m) /\ newest' = m /\ UNCHANGED shown

Read(r) ==
  /\ RHSPop(r)
  /\ shown' = [shown EXCEPT ![r] = Head(rq[r])]
  /\ UNCHANGED newest

Clock == (PreClock \/ PostClock) /\ UNCHANGED <<newest, shown>>

ToggleNext == Clock \/ (\E m \in Msgs : Write(m)) \/ (\E r \in RHS : Read(r))

ToggleSpec == ToggleInit /\ [][ToggleNext]_ToggleVars

FairToggleSpec ==
  ToggleSpec /\ WF_ToggleVars(Clock) /\ \A r \in RHS : WF_ToggleVars(Read(r))

-----------------------------------------------------------------------------
\* The last of a sequence of levels, if there is one; what was before, if not.
LastOf(levels, before) == IF levels = <<>> THEN before ELSE levels[Len(levels)]

\* What a reader ends up with if nothing more is written: the last of what it
\* has read, what waits for it, what is on the wire for it, and what is not
\* issued yet.
EndsWith(r) == LastOf(lq[0], LastOf(OnWire(r), LastOf(rq[r], shown[r])))

\* Levels may be skipped but the newest is never lost, wherever it was when
\* another one was written or the reader was slow: the last thing on the way
\* to a reader is the level written last, and nothing is dropped.
NewestLevelKept == ~dropped /\ \A r \in RHS : EndsWith(r) = newest

\* When the writer stops, every reader ends up with the level it wrote last.
LevelSettles ==
  \A m \in Msgs : <>[](newest = m) => \A r \in RHS : <>[](shown[r] = m)
=============================================================================
