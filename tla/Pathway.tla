------------------------------- MODULE Pathway -------------------------------
(***************************************************************************)
(* The TSim pathway (lib/tsim/src/Pathway): the only way two units of a    *)
(* simulated design exchange messages.  A pathway owns the queues at its   *)
(* ends (Endpoint), a delay line between them (Pathway::Connection), the   *)
(* ready mask that holds a sender back, and the arbiter that names the one *)
(* left-hand side (LHS) allowed to drive the wire.  Wire, FanoutWire, Link *)
(* and RRFaninWire are instances of it: NumLHS = 1 for the first three,    *)
(* NumRHS = 1 for the last.                                                *)
(*                                                                         *)
(* The simulator runs a clock cycle in two halves.  In the first, modules  *)
(* write their outputs to LHS endpoints, then PreClock moves the message   *)
(* at the end of the wire to the right-hand side (RHS) queues.  In the     *)
(* second, modules read RHS queues and write capacity-0 LHS endpoints,     *)
(* then PostClock moves the wire one step.  `phase' names the half whose   *)
(* pathway function comes next.  A reader in another clock domain may read *)
(* at any point, so RHSPop is enabled in both halves.                      *)
(***************************************************************************)
EXTENDS Selection

CONSTANTS
  NumLHS, NumRHS,   \* endpts.lhs.size (), endpts.rhs.size ()
  LHSCap, RHSCap,   \* capacities of the endpoints, functions of their ids
  Latency,          \* conn.conattr.latency
  PropIdxMask,      \* conn.PROPIDX_MASK: the delay line has one slot more
  CyclesPerMsg,     \* cycles_per_msg
  MaskBits,         \* bits of the ready mask a 32-bit shift can reach (32)
  MsgType,          \* type of the pathway's message prototype
  Msgs,             \* messages
  Src, Dest,        \* the LHS that produces a message; its DEST_RHS_ID
  GatedRHS          \* right-hand sides that feed a Mux

Broadcast == -1
NoMsg == "no message"

LHS == 0..(NumLHS - 1)
RHS == 0..(NumRHS - 1)
Bits == 0..(MaskBits - 1)
RingSize == PropIdxMask + 1

\* SetConnectionAttr computes the mask of a latency: one less than the
\* smallest power of two above it.
SlotsFor[lat \in Nat] == IF lat = 0 THEN 1 ELSE 2 * SlotsFor[lat \div 2]

ASSUME EndpointAssumption ==
  /\ NumLHS \in Nat \ {0} /\ NumRHS \in Nat \ {0}
  /\ LHSCap \in [LHS -> Nat] /\ RHSCap \in [RHS -> Nat]

\* Pathway::Validate refuses a smaller RHS capacity.
ASSUME CapacityAssumption ==
  \A r \in RHS : RHSCap[r] # 0 => RHSCap[r] > Latency

ASSUME ConnectionAssumption ==
  /\ Latency \in Nat /\ PropIdxMask \in Nat /\ Latency <= PropIdxMask
  /\ CyclesPerMsg \in Nat /\ MaskBits \in Nat \ {0}

ASSUME MessageAssumption ==
  /\ MsgType \in {"PLAIN", "TOGGLE"}
  /\ NoMsg \notin Msgs
  /\ Src \in [Msgs -> LHS] /\ Dest \in [Msgs -> RHS \union {Broadcast}]
  /\ GatedRHS \subseteq RHS

VARIABLES
  phase,            \* which pathway function comes next in the cycle
  lq,               \* msgque of every LHS endpoint
  selected,         \* selected_lhs of every LHS endpoint
  rq,               \* msgque of every RHS endpoint
  msgprop, curidx,  \* the delay line and the slot now at its far end
  rhsreadymask, rhsreadymask_ext,
  lhsid, stabilize_cycle,
  wait_cycles,
  dropped           \* ecount.msgdrop # 0

vars == <<phase, lq, selected, rq, msgprop, curidx, rhsreadymask,
          rhsreadymask_ext, lhsid, stabilize_cycle, wait_cycles, dropped>>

-----------------------------------------------------------------------------
(* Endpoints *)

\* Mutant of Kept: a level that waits is not replaced.
KeptQueued(q) == q

\* A TOGGLE message replaces the one that waits.
Kept(q) == IF MsgType = "TOGGLE" /\ q # <<>> THEN Tail(q) ELSE q

\* Endpoint::Assign accepts; a capacity of 0 leaves room for one message
\* that is consumed within the cycle.
Accepts(q, cap) == Len(Kept(q)) < (IF cap = 0 THEN 1 ELSE cap)

Assigned(q, cap, m) == IF Accepts(q, cap) THEN Append(Kept(q), m) ELSE Kept(q)

Dests(m) ==
  IF m = NoMsg THEN {} ELSE IF Dest[m] = Broadcast THEN RHS ELSE {Dest[m]}

-----------------------------------------------------------------------------
(* The delay line *)

Slot(i) == (curidx + i) % RingSize

Sampled == msgprop[curidx]

-----------------------------------------------------------------------------
(* The ready mask: `1 << rhsid' is a 32-bit shift, so an id of MaskBits or *)
(* more lands on the bit of a smaller one.                                 *)

BitOf(r) == r % MaskBits

\* Mutants of HasRoom: off by one in both directions.
HasRoomLate(r) == RHSCap[r] - Len(rq[r]) >= Latency
HasRoomNever(r) == RHSCap[r] - Len(rq[r]) > Latency + 1

HasRoom(r) == RHSCap[r] - Len(rq[r]) > Latency

\* SetNextReady for every queueing RHS in the order of the loop (the last
\* id that shares a bit decides it), then UpdateReadyState.
NextReadyMask ==
  [b \in Bits |->
     LET ids == {r \in RHS : BitOf(r) = b /\ RHSCap[r] # 0}
     IN IF MsgType = "TOGGLE" \/ ids = {} THEN rhsreadymask[b]
        ELSE HasRoom(CHOOSE r \in ids : \A s \in ids : s <= r)]

IsReady(mask, m) ==
  IF Dest[m] = Broadcast
  THEN \A b \in Bits : mask[b] /\ rhsreadymask_ext[b]
  ELSE mask[BitOf(Dest[m])] /\ rhsreadymask_ext[BitOf(Dest[m])]

-----------------------------------------------------------------------------
(* LHS to connection *)

TargetMsg ==
  IF stabilize_cycle = 0 /\ lq[lhsid] # <<>> THEN Head(lq[lhsid]) ELSE NoMsg

Issued ==
  IF TargetMsg # NoMsg /\ wait_cycles = 0 /\ IsReady(NextReadyMask, TargetMsg)
  THEN TargetMsg ELSE NoMsg

\* Mutant of LHSAfter: the message issued is peeked and not popped.
LHSAfterPeek == lq

LHSAfter == IF Issued = NoMsg THEN lq ELSE [lq EXCEPT ![lhsid] = Tail(@)]

\* Mutant of Flowed: a message enters one slot too far from the far end.
FlowedFar ==
  LET flow == [msgprop EXCEPT ![curidx] = NoMsg]
  IN IF Issued = NoMsg THEN flow
                       ELSE [flow EXCEPT ![Slot(2 + Latency)] = Issued]

\* Flow clears the slot at the far end and steps; the message issued enters
\* Latency slots before the new far end.
Flowed ==
  LET flow == [msgprop EXCEPT ![curidx] = NoMsg]
  IN IF Issued = NoMsg THEN flow
                       ELSE [flow EXCEPT ![Slot(1 + Latency)] = Issued]

-----------------------------------------------------------------------------
(* Arbitration *)

\* Mutant of IsNextTarget: fixed priority.
IsNextTargetFirst(next, q) ==
  LET taken(l) == LHSCap[l] = 0 \/ q[l] # <<>>
  IN IF stabilize_cycle > 0 \/ \A l \in LHS : ~taken(l)
     THEN next = lhsid
     ELSE taken(next) /\ \A l \in LHS : taken(l) => next <= l

\* RRFaninWire: the next LHS that has a message in q, or that has no queue.
IsNextTarget(next, q) ==
  LET nth(k) == (lhsid + k) % NumLHS
      taken(k) == LHSCap[nth(k)] = 0 \/ q[nth(k)] # <<>>
  IN IF stabilize_cycle > 0 \/ \A k \in 1..NumLHS : ~taken(k)
     THEN next = lhsid
     ELSE \E k \in 1..NumLHS :
            next = nth(k) /\ taken(k) /\ \A j \in 1..(k - 1) : ~taken(j)

\* Mutant of Settled: no test for zero.
SettledBelowZero == stabilize_cycle - 1

\* UpdateStabilizeCycle
Settled == IF stabilize_cycle = 0 THEN 0 ELSE stabilize_cycle - 1
Marked == IF Settled = 0 THEN [selected EXCEPT ![lhsid] = TRUE] ELSE selected

\* Mutants of SetTarget: the new LHS drives the wire at once; the flag of the
\* old one is not reset; the early return for the same LHS is missing.
SetTargetAtOnce(next) ==
  /\ lhsid' = next /\ stabilize_cycle' = 0
  /\ selected' = [l \in LHS |-> l = next]
SetTargetKeepsFlag(next) ==
  /\ lhsid' = next
  /\ stabilize_cycle' = IF next = lhsid THEN Settled ELSE Latency
  /\ selected' = Marked
SetTargetRestart(next) ==
  /\ lhsid' = next /\ stabilize_cycle' = Latency
  /\ selected' = [l \in LHS |-> l = next /\ Latency = 0]

\* SetNewTargetLHSID
SetTarget(next) ==
  /\ lhsid' = next
  /\ IF next = lhsid
     THEN stabilize_cycle' = Settled /\ selected' = Marked
     ELSE /\ stabilize_cycle' = Latency
          /\ selected' = [l \in LHS |-> /\ l # lhsid
                                        /\ Marked[l] \/ (l = next /\ Latency = 0)]

-----------------------------------------------------------------------------
(* The clock functions of the pathway *)

Init ==
  /\ phase = "pre"
  /\ lq = [l \in LHS |-> <<>>]
  /\ selected = [l \in LHS |-> l = 0]
  /\ rq = [r \in RHS |-> <<>>]
  /\ msgprop = [i \in 0..PropIdxMask |-> NoMsg]
  /\ curidx = 0
  /\ rhsreadymask = [b \in Bits |-> TRUE]
  /\ rhsreadymask_ext = [b \in Bits |-> TRUE]
  /\ lhsid = 0
  /\ stabilize_cycle = 0
  /\ wait_cycles = CyclesPerMsg
  /\ dropped = FALSE

\* The message at the far end goes to the queueing right-hand sides it is
\* addressed to.  The simulator has run the devices behind the capacity-0
\* right-hand sides before the next cycle starts, which empties those.
PreClock ==
  /\ phase = "pre"
  /\ \A r \in RHS : RHSCap[r] = 0 => rq[r] = <<>>
  /\ LET dests == {r \in Dests(Sampled) : RHSCap[r] # 0}
     IN /\ rq' = [r \in RHS |-> IF r \in dests THEN Assigned(rq[r], RHSCap[r], Sampled)
                                              ELSE rq[r]]
        /\ dropped' = (dropped \/ \E r \in dests : ~Accepts(rq[r], RHSCap[r]))
  /\ phase' = "post"
  /\ UNCHANGED <<lq, selected, msgprop, curidx, rhsreadymask, rhsreadymask_ext,
                 lhsid, stabilize_cycle, wait_cycles>>

\* The test `processed == -1' on the 64 bits of `processed'.  They start as
\* `-1 << w_numrhs' and gain `1 << i' for every RHS served, both shifts of an
\* int: with MaskBits receivers every bit is set from the start.
AllProcessed(served) ==
  \A b \in 0..((NumRHS % MaskBits) - 1) : \E r \in served : BitOf(r) = b

\* PostClock takes m, which it has assigned to the capacity-0 right-hand sides
\* ahead, off the wire: a broadcast if every bit is processed.
Nullified(m, ahead) ==
  /\ ahead # {}
  /\ Dest[m] = Broadcast => AllProcessed({r \in ahead : Accepts(rq[r], 0)})

\* Ready mask, flow, issue, the ahead-of-time delivery to capacity-0
\* right-hand sides, and the choice of the next LHS.
PostClock ==
  /\ phase = "post"
  /\ rhsreadymask' = NextReadyMask
  /\ lq' = LHSAfter
  /\ wait_cycles' = IF TargetMsg = NoMsg THEN wait_cycles
                    ELSE IF wait_cycles = 0 THEN CyclesPerMsg ELSE wait_cycles - 1
  /\ curidx' = Slot(1)
  /\ LET m == Flowed[Slot(1)]
         ahead == {r \in Dests(m) : RHSCap[r] = 0}
     IN /\ msgprop' = IF Nullified(m, ahead) THEN [Flowed EXCEPT ![Slot(1)] = NoMsg]
                                             ELSE Flowed
        /\ rq' = [r \in RHS |-> IF r \in ahead THEN Assigned(rq[r], 0, m) ELSE rq[r]]
        /\ dropped' = (dropped \/ \E r \in ahead : ~Accepts(rq[r], 0))
  /\ \E next \in LHS : IsNextTarget(next, LHSAfter) /\ SetTarget(next)
  /\ phase' = "pre"
  /\ UNCHANGED rhsreadymask_ext

-----------------------------------------------------------------------------
(* What the units at the ends do *)

\* A module writes a PLAIN output: to a queue that is not full (it is stalled
\* otherwise), or ahead of time to an empty capacity-0 endpoint that drives
\* the wire in this cycle.  A TOGGLE output is written whenever it changes.
LHSAssign(l, m) ==
  /\ Src[m] = l
  /\ \/ MsgType = "PLAIN" /\ LHSCap[l] # 0 /\ phase = "pre" /\ Len(lq[l]) < LHSCap[l]
     \/ MsgType = "PLAIN" /\ LHSCap[l] = 0 /\ phase = "post" /\ lq[l] = <<>> /\ selected[l]
     \/ MsgType = "TOGGLE" /\ phase = "post"
  /\ lq' = [lq EXCEPT ![l] = Assigned(@, LHSCap[l], m)]
  /\ UNCHANGED <<phase, selected, rq, msgprop, curidx, rhsreadymask,
                 rhsreadymask_ext, lhsid, stabilize_cycle, wait_cycles, dropped>>

RHSPop(r) ==
  /\ rq[r] # <<>>
  /\ rq' = [rq EXCEPT ![r] = Tail(@)]
  /\ UNCHANGED <<phase, lq, selected, msgprop, curidx, rhsreadymask,
                 rhsreadymask_ext, lhsid, stabilize_cycle, wait_cycles, dropped>>

\* The Mux behind r opens or closes this pathway before its PostClock.
SetExtReadyState(r, state) ==
  /\ phase = "post"
  /\ rhsreadymask_ext' = [rhsreadymask_ext EXCEPT ![BitOf(r)] = state]
  /\ UNCHANGED <<phase, lq, selected, rq, msgprop, curidx, rhsreadymask,
                 lhsid, stabilize_cycle, wait_cycles, dropped>>

Next ==
  \/ PreClock
  \/ PostClock
  \/ \E m \in Msgs : LHSAssign(Src[m], m)
  \/ \E r \in RHS : RHSPop(r)
  \/ \E r \in GatedRHS, state \in BOOLEAN : SetExtReadyState(r, state)

Spec == Init /\ [][Next]_vars

\* The simulator never stops calling the clock functions, and a reader reads
\* what it finds.  A Mux opens the pathway again and again, and not only in
\* cycles in which the message at the LHS is still being transferred.
Fairness ==
  /\ WF_vars(PreClock) /\ WF_vars(PostClock)
  /\ \A r \in RHS : WF_vars(RHSPop(r))
  /\ \A r \in GatedRHS :
       /\ SF_vars(wait_cycles = 0 /\ SetExtReadyState(r, TRUE))
       /\ SF_vars(PostClock /\ rhsreadymask_ext[BitOf(r)] /\ wait_cycles = 0)

FairSpec == Spec /\ Fairness
-----------------------------------------------------------------------------
(* Type invariant *)

TypeOK ==
  /\ phase \in {"pre", "post"}
  /\ lq \in [LHS -> Seq(Msgs)]
  /\ selected \in [LHS -> BOOLEAN]
  /\ rq \in [RHS -> Seq(Msgs)]
  /\ msgprop \in [0..PropIdxMask -> Msgs \union {NoMsg}]
  /\ curidx \in 0..PropIdxMask
  /\ rhsreadymask \in [Bits -> BOOLEAN]
  /\ rhsreadymask_ext \in [Bits -> BOOLEAN]
  /\ lhsid \in LHS
  /\ stabilize_cycle \in 0..Latency
  /\ wait_cycles \in 0..CyclesPerMsg
  /\ dropped \in BOOLEAN

-----------------------------------------------------------------------------
(* Safety *)

\* The slots between the far end and the near end of the wire, and the first
\* of them whose message has not been delivered to the queueing RHS yet.
FirstInFlight == IF phase = "pre" THEN 0 ELSE 1
InFlightIdx == FirstInFlight..Latency

\* No message is ever dropped for lack of room at the receiver (the "message
\* dropped" branches of PreClock and PostClock are dead): the sender looks at
\* the queue Latency + 1 cycles before its message arrives.
NoDrop == ~dropped

\* Why: each queueing RHS has room for every message on the wire that is
\* addressed to it, in whatever order they are delivered and read.
RoomForInFlight ==
  \A r \in RHS : RHSCap[r] # 0 =>
    /\ Len(rq[r]) <= RHSCap[r]
    /\ \A i \in InFlightIdx : r \in Dests(msgprop[Slot(i)]) =>
          Len(rq[r]) + (i - FirstInFlight) + 1 <= RHSCap[r]

\* The ring has no ghosts: a slot outside the wire is empty, so a slot is
\* never reused while its message is under way (PROPIDX_MASK >= latency).
NoGhosts ==
  \A i \in (Latency + 1)..PropIdxMask : msgprop[Slot(i)] = NoMsg

\* A wire has one driver at a time: when the arbiter turns to another LHS,
\* stabilize_cycle holds it back until the wire has drained.
OneDriver ==
  \A i, j \in InFlightIdx :
    LET m == msgprop[Slot(i)]
        n == msgprop[Slot(j)]
    IN m # NoMsg /\ n # NoMsg => Src[m] = Src[n]

\* The flag a module reads to decide whether it is stalled names exactly the
\* LHS whose message the next PostClock will look at.
SelectedDrives ==
  \A l \in LHS : selected[l] <=> (l = lhsid /\ stabilize_cycle = 0)

-----------------------------------------------------------------------------
(* Refinement: a PLAIN pathway is a set of bounded lossless FIFO channels. *)
(* The channel of an RHS is its queue, then the messages on the wire for   *)
(* it, the nearest first.  A capacity-0 RHS gets its message one half      *)
(* cycle earlier than a queueing one.                                      *)

Wire(first) == [i \in 1..(Latency + 1 - first) |-> msgprop[Slot(first + i - 1)]]

OnWire(r) ==
  Selected(Wire(IF RHSCap[r] = 0 THEN 1 ELSE FirstInFlight), {m \in Msgs : r \in Dests(m)})

Chan == INSTANCE Channel WITH
          Sources <- LHS, Sinks <- RHS,
          SrcRoom <- [l \in LHS |-> IF LHSCap[l] = 0 THEN 1 ELSE LHSCap[l]],
          SinkRoom <- [r \in RHS |-> IF RHSCap[r] = 0 THEN Latency + 1 ELSE RHSCap[r]],
          pending <- lq,
          chan <- [r \in RHS |-> rq[r] \o OnWire(r)]

\* Every message written is issued once, reaches every RHS it is addressed to
\* exactly once and in the order of issue, and the channel of an RHS never
\* holds more than its capacity.  Some LHS with a message always gets through,
\* and every RHS gets every message addressed to it.
ImplementsLiveChannel == Chan!FairSpec

\* From some cycle on the readers read what has arrived before the pathway
\* looks at their queues.
EagerReaders == <>[][PostClock => \A r \in RHS : rq[r] = <<>>]_vars

\* Round robin: if the readers keep up, every LHS that has a message gets
\* through.  (With slow readers, or messages of several beats, an LHS can
\* lose every turn.)
NoStarvation == EagerReaders => Chan!NoStarvation
=============================================================================
