------------------------------ MODULE TSimModule ------------------------------
(***************************************************************************)
(* The pipeline every TSim module runs in (lib/tsim/src/Module/Module.cpp). *)
(* In the first half of a cycle PreClock decides whether the module is     *)
(* stalled and assigns the outputs that leave the pipeline.  In the second *)
(* half PostClock peeks the inputs, calls Operation, pops what Operation   *)
(* used and advances the pipeline.  Operation is the derived class: here   *)
(* it uses any of the messages it is shown and writes any of its outputs.  *)
(*                                                                         *)
(* A module with pdepth = 0 (AxonStorage, PseudoStorage) ignores stalls    *)
(* and is not covered.  An output is the number of the Operation that      *)
(* wrote it, an input the number of its arrival.                           *)
(***************************************************************************)
EXTENDS Integers, Sequences, FiniteSets

CONSTANTS
  Outs, OutCap,        \* output ports and the capacity of their LHS endpoints
  Plains, Toggles,     \* input ports, by the type of their message prototype
  InCap,               \* capacity of their RHS endpoints
  PDepth, OMsgIdxMask,
  MaxOps, MaxIn        \* bounds: Operations that write, arrivals per port

None == 0
Ins == Plains \union Toggles
PipeSize == OMsgIdxMask + 1

\* The constructor: `for (pd = pdepth; pd; mask <<= 1, pd >>= 1)'.
PipeSlots[pd \in Nat] == IF pd = 0 THEN 1 ELSE 2 * PipeSlots[pd \div 2]

ASSUME PortAssumption ==
  /\ OutCap \in [Outs -> Nat] /\ InCap \in [Ins -> Nat \ {0}]
  /\ Plains \intersect Toggles = {}

ASSUME PipeAssumption ==
  /\ PDepth \in Nat \ {0} /\ OMsgIdxMask \in Nat /\ PDepth <= OMsgIdxMask
  /\ MaxOps \in Nat /\ MaxIn \in Nat

VARIABLES
  phase, stalled, omsgidx,
  nextinmsgs, nextoutmsgs,
  selected,            \* selected_lhs of the LHS endpoints
  outq, inq,           \* msgque of the LHS and RHS endpoints
  rejected,            \* some Assign was refused
  ops,                 \* Operations that wrote so far
  made, sent,          \* what Operation wrote to a port and what was assigned
  arrived, used        \* arrivals at an input port, the last one used

pipe == <<omsgidx, nextinmsgs, nextoutmsgs>>
history == <<ops, made, sent, arrived, used>>
vars == <<phase, stalled, pipe, selected, outq, inq, rejected, history>>

Slot(i) == (omsgidx + i) % PipeSize

\* Endpoint::Assign, IsFull and IsOverloaded without reservations.
Accepts(p) == Len(outq[p]) < (IF OutCap[p] = 0 THEN 1 ELSE OutCap[p])

\* Mutant of Blocked: the occupancy of a capacity-0 output is not looked at.
BlockedUnlessSelected(p) ==
  IF OutCap[p] = 0 THEN ~selected[p] ELSE Len(outq[p]) >= OutCap[p]

Blocked(p) ==
  IF OutCap[p] = 0 THEN ~selected[p] \/ outq[p] # <<>> ELSE Len(outq[p]) >= OutCap[p]

\* Assign what the given row of the pipeline holds for the given ports.
AssignFrom(row, ports) ==
  LET out == {p \in ports : row[p] # None}
  IN /\ outq' = [p \in Outs |-> IF p \in out /\ Accepts(p) THEN Append(outq[p], row[p])
                                                            ELSE outq[p]]
     /\ sent' = [p \in Outs |-> IF p \in out THEN Append(sent[p], row[p]) ELSE sent[p]]
     /\ rejected' = (rejected \/ \E p \in out : ~Accepts(p))

\* Mutant of Cleared: the pointer is not reset after the assignment.
NotCleared(row, ports) == row

\* The row after the assignment.
Cleared(row, ports) == [p \in Outs |-> IF p \in ports THEN None ELSE row[p]]

-----------------------------------------------------------------------------
Init ==
  /\ phase = "pre" /\ stalled = FALSE /\ omsgidx = 0
  /\ nextinmsgs = [i \in Ins |-> None]
  /\ nextoutmsgs = [s \in 0..OMsgIdxMask |-> [p \in Outs |-> None]]
  /\ selected \in [Outs -> BOOLEAN]
  /\ outq = [p \in Outs |-> <<>>] /\ inq = [i \in Ins |-> <<>>]
  /\ rejected = FALSE
  /\ ops = 0 /\ made = [p \in Outs |-> <<>>] /\ sent = [p \in Outs |-> <<>>]
  /\ arrived = [i \in Ins |-> 0] /\ used = [i \in Ins |-> 0]

PreClock ==
  /\ phase = "pre"
  /\ stalled' = \E p \in Outs : Blocked(p)
  /\ IF stalled'
     THEN UNCHANGED <<nextoutmsgs, outq, sent, rejected>>
     ELSE /\ AssignFrom(nextoutmsgs[omsgidx], Outs)
          /\ nextoutmsgs' = [nextoutmsgs EXCEPT ![omsgidx] = Cleared(@, Outs)]
  /\ phase' = "post"
  /\ UNCHANGED <<omsgidx, nextinmsgs, selected, inq, ops, made, arrived, used>>

\* Mutant of Peeked: a TOGGLE message is treated like a PLAIN one.
PeekedOnce ==
  [i \in Ins |-> IF inq[i] # <<>> /\ nextinmsgs[i] = None /\ ~stalled
                 THEN Head(inq[i]) ELSE nextinmsgs[i]]

\* A PLAIN message is peeked by a module that is not stalled and has none; a
\* TOGGLE message is popped in any case and replaces the previous one.
Peeked ==
  [i \in Ins |->
     IF inq[i] # <<>> /\ (i \in Toggles \/ (nextinmsgs[i] = None /\ ~stalled))
     THEN Head(inq[i]) ELSE nextinmsgs[i]]

\* Mutant of Popped: messages Operation did not use are popped as well.
PoppedUnused(take) ==
  [i \in Ins |-> IF inq[i] # <<>> /\ (i \in Toggles \/ ~stalled) THEN Tail(inq[i])
                                                              ELSE inq[i]]

\* The PLAIN messages Operation used and every TOGGLE message are popped.
Popped(take) ==
  [i \in Ins |-> IF i \in take \/ (i \in Toggles /\ inq[i] # <<>>) THEN Tail(inq[i])
                                                               ELSE inq[i]]

\* Mutant of NextIdx: the pipeline moves only when Operation writes.
NextIdxWritten(out) == IF out = {} THEN omsgidx ELSE Slot(1)

\* The pipeline moves in every cycle in which the module is not stalled.
NextIdx(out) == Slot(1)

\* Mutant of AheadSlot: the slot Operation has just written.
AheadAtOnce == Slot(PDepth)

\* The slot at the end of the pipeline once omsgidx has been incremented.
AheadSlot == Slot(1)

StalledPostClock ==
  /\ phase = "post" /\ stalled
  /\ nextinmsgs' = Peeked
  /\ inq' = Popped({})
  /\ phase' = "pre"
  /\ UNCHANGED <<stalled, omsgidx, nextoutmsgs, selected, outq, rejected, history>>

\* Operation writes the outputs `out' and uses the PLAIN inputs `take'; it
\* sets the pointers of the others to null, which leaves them in the queue.
\* Then a capacity-0 output at the end of the pipeline leaves ahead of time.
ActivePostClock(out, take) ==
  /\ phase = "post" /\ ~stalled
  /\ ops' = IF out = {} THEN ops ELSE ops + 1
  /\ LET filled == [nextoutmsgs EXCEPT ![Slot(PDepth)] =
                      [p \in Outs |-> IF p \in out THEN ops + 1 ELSE @[p]]]
         ahead == {p \in Outs : OutCap[p] = 0}
     IN /\ AssignFrom(filled[AheadSlot], ahead)
        /\ nextoutmsgs' = [filled EXCEPT ![AheadSlot] = Cleared(@, ahead)]
  /\ made' = [p \in Outs |-> IF p \in out THEN Append(made[p], ops + 1) ELSE made[p]]
  /\ used' = [i \in Ins |-> IF i \in take THEN Peeked[i] ELSE used[i]]
  /\ nextinmsgs' = [i \in Ins |-> IF i \in Plains THEN None ELSE Peeked[i]]
  /\ inq' = Popped(take)
  /\ omsgidx' = NextIdx(out)
  /\ phase' = "pre"
  /\ UNCHANGED <<stalled, selected, arrived>>

PostClock ==
  \/ StalledPostClock
  \/ \E out \in SUBSET Outs, take \in SUBSET {i \in Plains : Peeked[i] # None} :
       /\ out = {} \/ ops < MaxOps
       /\ ActivePostClock(out, take)

-----------------------------------------------------------------------------
(* The pathways at the ports *)

Deliver(i) ==
  /\ arrived[i] < MaxIn
  /\ i \in Plains => Len(inq[i]) < InCap[i]
  /\ arrived' = [arrived EXCEPT ![i] = @ + 1]
  /\ inq' = [inq EXCEPT ![i] = IF i \in Toggles THEN <<arrived[i] + 1>>
                                                ELSE Append(@, arrived[i] + 1)]
  /\ UNCHANGED <<phase, stalled, pipe, selected, outq, rejected, ops, made, sent, used>>

Drain(p) ==
  /\ outq[p] # <<>>
  /\ outq' = [outq EXCEPT ![p] = Tail(@)]
  /\ UNCHANGED <<phase, stalled, pipe, selected, inq, rejected, history>>

\* The arbiter of a capacity-0 output may turn to another LHS.
Select(p) ==
  /\ phase = "pre" /\ OutCap[p] = 0
  /\ selected' = [selected EXCEPT ![p] = ~@]
  /\ UNCHANGED <<phase, stalled, pipe, outq, inq, rejected, history>>

Next ==
  \/ PreClock
  \/ PostClock
  \/ \E i \in Ins : Deliver(i)
  \/ \E p \in Outs : Drain(p) \/ Select(p)

Spec == Init /\ [][Next]_vars

\* The simulator keeps calling the module and its pathways keep moving.  An
\* arbiter keeps turning to this LHS, and not only in cycles in which another
\* output stalls the module: a module behind one arbiter needs no more.
Fairness ==
  /\ WF_vars(PreClock) /\ WF_vars(PostClock)
  /\ SF_vars(PreClock /\ ~stalled')
  /\ \A p \in Outs : WF_vars(Drain(p)) /\ SF_vars(Select(p) /\ selected'[p])

FairSpec == Spec /\ Fairness
-----------------------------------------------------------------------------
\* The output of port p that is i moves from the end of the pipeline, and all
\* that are under way.
Places == 0..OMsgIdxMask
At(p, i) == nextoutmsgs[Slot(i)][p]
InPipe(p) == {At(p, i) : i \in Places} \ {None}

\* No Assign is ever refused: the errors "attemped to push to full RHS queue"
\* and "attempted to push to full LHS" of Module.cpp are dead, even for the
\* ahead-of-time assignment, which checks nothing itself.
NoRejection == ~rejected

\* Every output is assigned exactly once and in the order of the Operations:
\* what was assigned is what was written first, the rest is in the pipeline in
\* the order in which it was written.  No pipeline slot is reused, skipped or
\* assigned twice, however the module stalls.
OutputsInOrder ==
  \A p \in Outs :
    /\ Len(sent[p]) <= Len(made[p])
    /\ \A k \in 1..Len(sent[p]) : sent[p][k] = made[p][k]
    /\ {made[p][k] : k \in (Len(sent[p]) + 1)..Len(made[p])} = InPipe(p)
    /\ \A i, j \in Places :
         i < j /\ At(p, i) # None /\ At(p, j) # None => At(p, i) < At(p, j)

\* Outputs written by one Operation leave together, but for a capacity-0
\* output, which may be one Operation ahead of a queued one.
LeaveTogether ==
  \A p, q \in Outs :
    Cardinality({k \in InPipe(q) : \E n \in DOMAIN sent[p] : sent[p][n] = k})
      <= IF OutCap[p] = 0 /\ OutCap[q] # 0 THEN 1 ELSE 0

\* A PLAIN message is used once, in order, and stays in its queue, where the
\* sender counts it, until it has been used.
PlainInputsOnce ==
  \A i \in Plains :
    inq[i] = [k \in 1..(arrived[i] - used[i]) |-> used[i] + k]

\* The newest value of a TOGGLE input is never lost, stalled or not: it waits
\* in the endpoint or is the one the next Operation is shown.
ToggleInputLatest ==
  \A i \in Toggles :
    IF inq[i] = <<>> THEN nextinmsgs[i] = arrived[i] ELSE inq[i] = <<arrived[i]>>

\* A message does not get stuck in the pipeline when the module has nothing
\* more to write.
PipelineDrains == \A p \in Outs : InPipe(p) # {} ~> InPipe(p) = {}
=============================================================================
