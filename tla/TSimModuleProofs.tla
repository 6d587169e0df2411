--------------------------- MODULE TSimModuleProofs ---------------------------
(***************************************************************************)
(* Proofs about TSimModule, for every set of ports, every pipeline and     *)
(* every number of messages.                                               *)
(*                                                                         *)
(* No Assign is refused.  PreClock looks at the outputs before it assigns, *)
(* but PostClock assigns the capacity-0 outputs without looking: it relies *)
(* on what PreClock saw in the same cycle.  What makes that right is Room, *)
(* and Room needs AheadLeft: PreClock itself never assigns a capacity-0    *)
(* output, because it left a cycle ahead.                                  *)
(*                                                                         *)
(* Every input is used as it should be (Inputs), and every output leaves   *)
(* once and in order.  The latter needs to know how the outputs of         *)
(* different ports are ordered in the pipeline (Ordered), and that an      *)
(* Operation finds its slot empty (Depth).                                 *)
(***************************************************************************)
EXTENDS TSimModule, FiniteSetTheorems, TLAPS

Direct == {p \in Outs : OutCap[p] = 0}

\* The part of TypeOK the argument needs, without the bounds.
Typed ==
  /\ stalled \in BOOLEAN
  /\ omsgidx \in 0..OMsgIdxMask
  /\ nextoutmsgs \in [0..OMsgIdxMask -> [Outs -> Nat]]
  /\ selected \in [Outs -> BOOLEAN]
  /\ outq \in [Outs -> Seq(Nat)]
  /\ ops \in Nat

\* The slot that leaves next holds nothing for a capacity-0 output.
AheadLeft == \A p \in Direct : nextoutmsgs[omsgidx][p] = None

\* Between the halves of a cycle that is not stalled, every capacity-0 output
\* is free.
Room == phase = "post" /\ ~stalled => \A p \in Direct : outq[p] = <<>>

Inv == Typed /\ AheadLeft /\ Room /\ NoRejection

-----------------------------------------------------------------------------
LEMMA SlotType ==
  ASSUME omsgidx \in 0..OMsgIdxMask, NEW i \in Nat
  PROVE  Slot(i) \in 0..OMsgIdxMask
BY PipeAssumption DEF Slot, PipeSize

LEMMA PDepthSlot ==
  ASSUME omsgidx \in 0..OMsgIdxMask
  PROVE  Slot(PDepth) \in 0..OMsgIdxMask
BY SlotType, PipeAssumption

\* What AssignFrom does to the queues, whatever the row and the ports.
LEMMA AssignKeepsType ==
  ASSUME outq \in [Outs -> Seq(Nat)], NEW row \in [Outs -> Nat],
         NEW ports \in SUBSET Outs, AssignFrom(row, ports)
  PROVE  outq' \in [Outs -> Seq(Nat)]
<1>1. \A p \in Outs : outq[p] \in Seq(Nat) /\ Append(outq[p], row[p]) \in Seq(Nat)
  OBVIOUS
<1>2. QED
  BY <1>1 DEF AssignFrom

LEMMA AssignAccepted ==
  ASSUME NoRejection, NEW row, NEW ports \in SUBSET Outs, AssignFrom(row, ports),
         \A p \in ports : row[p] # None => Accepts(p)
  PROVE  NoRejection'
BY DEF AssignFrom, NoRejection

LEMMA ClearedType ==
  ASSUME NEW row \in [Outs -> Nat], NEW ports \in SUBSET Outs
  PROVE  /\ Cleared(row, ports) \in [Outs -> Nat]
         /\ \A p \in ports : Cleared(row, ports)[p] = None
BY DEF Cleared, None

-----------------------------------------------------------------------------
LEMMA InitInv == Init => Inv
<1>1. SUFFICES ASSUME Init PROVE Inv
  OBVIOUS
<1>2. selected \in [Outs -> BOOLEAN]
  BY <1>1 DEF Init
<1>3. nextoutmsgs \in [0..OMsgIdxMask -> [Outs -> Nat]]
  BY <1>1 DEF Init, None
<1>4. omsgidx \in 0..OMsgIdxMask
  BY <1>1, PipeAssumption DEF Init
<1>5. outq \in [Outs -> Seq(Nat)] /\ ops \in Nat
  <2>1. outq = [p \in Outs |-> <<>>] /\ <<>> \in Seq(Nat) /\ ops = 0
    BY <1>1 DEF Init
  <2>2. QED
    BY <2>1
<1>5a. stalled \in BOOLEAN
  BY <1>1, Zenon DEF Init
<1>6. AheadLeft
  BY <1>1, <1>4 DEF Init, AheadLeft, Direct
<1>7. Room /\ NoRejection
  BY <1>1 DEF Init, Room, NoRejection
<1>8. QED
  BY <1>2, <1>3, <1>4, <1>5, <1>5a, <1>6, <1>7 DEF Inv, Typed

\* A queued output has room when PreClock is not stalled; a capacity-0 output
\* has nothing to assign, so that it stays free for the second half.
LEMMA PreClockInv ==
  ASSUME Inv, PreClock
  PROVE  Inv'
<1> USE DEF Inv
<1>1. stalled' \in BOOLEAN /\ omsgidx' = omsgidx /\ selected' = selected /\ ops' = ops
  BY Zenon DEF PreClock
<1>2. CASE stalled'
  <2>1. UNCHANGED <<nextoutmsgs, outq, rejected>>
    BY <1>2 DEF PreClock
  <2>2. Typed' /\ AheadLeft' /\ NoRejection'
    BY <1>1, <2>1 DEF Typed, AheadLeft, NoRejection
  <2>3. Room'
    BY <1>2 DEF Room
  <2>4. QED
    BY <2>2, <2>3
<1>3. CASE ~stalled'
  <2> DEFINE row == nextoutmsgs[omsgidx]
  <2>1. /\ AssignFrom(row, Outs)
        /\ nextoutmsgs' = [nextoutmsgs EXCEPT ![omsgidx] = Cleared(row, Outs)]
        /\ \A p \in Outs : ~Blocked(p)
    BY <1>3 DEF PreClock
  <2>2. row \in [Outs -> Nat]
    BY DEF Typed
  <2>3. Cleared(row, Outs) \in [Outs -> Nat] /\ \A p \in Outs : Cleared(row, Outs)[p] = None
    BY <2>2, ClearedType
  <2>4. nextoutmsgs' \in [0..OMsgIdxMask -> [Outs -> Nat]]
    BY <2>1, <2>3 DEF Typed
  <2>5. outq' \in [Outs -> Seq(Nat)]
    BY <2>1, <2>2, AssignKeepsType DEF Typed
  <2>6. Typed'
    BY <1>1, <2>4, <2>5 DEF Typed
  <2>7. AheadLeft'
    BY <1>1, <2>1, <2>3 DEF Typed, AheadLeft, Direct
  <2>8. Room'
    <3>1. SUFFICES ASSUME NEW p \in Direct PROVE outq'[p] = <<>>
      BY DEF Room, Direct
    <3>2. row[p] = None
      BY DEF AheadLeft
    <3>3. outq[p] = <<>>
      BY <2>1 DEF Blocked, Direct
    <3>4. QED
      BY <2>1, <3>2, <3>3 DEF AssignFrom, Direct
  <2>9. NoRejection'
    <3>1. SUFFICES ASSUME NEW p \in Outs, row[p] # None PROVE Accepts(p)
      BY <2>1, AssignAccepted
    <3>2. OutCap[p] # 0
      BY <3>1 DEF AheadLeft, Direct
    <3>3. ~(Len(outq[p]) >= OutCap[p])
      BY <2>1, <3>2 DEF Blocked
    <3>4. Len(outq[p]) \in Nat /\ OutCap[p] \in Nat
      BY PortAssumption DEF Typed
    <3>5. QED
      BY <3>2, <3>3, <3>4 DEF Accepts
  <2>10. QED
    BY <2>6, <2>7, <2>8, <2>9
<1>4. QED
  BY <1>1, <1>2, <1>3

\* The ahead-of-time assignment finds every capacity-0 output free, and empties
\* the slot that becomes the next to leave.
LEMMA ActivePostClockInv ==
  ASSUME Inv, NEW out \in SUBSET Outs, NEW take, ActivePostClock(out, take)
  PROVE  Inv'
<1> USE DEF Inv
<1> DEFINE filled == [nextoutmsgs EXCEPT ![Slot(PDepth)] =
                        [p \in Outs |-> IF p \in out THEN ops + 1 ELSE @[p]]]
<1>1. /\ AssignFrom(filled[AheadSlot], Direct)
      /\ nextoutmsgs' = [filled EXCEPT ![AheadSlot] = Cleared(@, Direct)]
      /\ omsgidx' = Slot(1) /\ phase = "post" /\ ~stalled /\ phase' = "pre"
      /\ UNCHANGED <<stalled, selected>>
      /\ ops' = IF out = {} THEN ops ELSE ops + 1
  BY DEF NextIdx, ActivePostClock, Direct
<1>2. Slot(1) \in 0..OMsgIdxMask /\ AheadSlot = Slot(1)
  BY SlotType DEF Typed, AheadSlot
<1>3. filled \in [0..OMsgIdxMask -> [Outs -> Nat]]
  <2>1. Slot(PDepth) \in 0..OMsgIdxMask /\ ops + 1 \in Nat
    BY PDepthSlot DEF Typed
  <2>2. nextoutmsgs[Slot(PDepth)] \in [Outs -> Nat]
    BY <2>1 DEF Typed
  <2>3. [p \in Outs |-> IF p \in out THEN ops + 1 ELSE nextoutmsgs[Slot(PDepth)][p]]
          \in [Outs -> Nat]
    BY <2>1, <2>2
  <2>4. QED
    BY <2>3 DEF Typed
<1>4. filled[AheadSlot] \in [Outs -> Nat]
  BY <1>2, <1>3
<1>5. Direct \in SUBSET Outs
  BY DEF Direct
<1>6. /\ Cleared(filled[AheadSlot], Direct) \in [Outs -> Nat]
      /\ \A p \in Direct : Cleared(filled[AheadSlot], Direct)[p] = None
  BY <1>4, <1>5, ClearedType
<1>7. nextoutmsgs' \in [0..OMsgIdxMask -> [Outs -> Nat]]
  BY <1>1, <1>3, <1>6
<1>8. outq' \in [Outs -> Seq(Nat)]
  BY <1>1, <1>4, <1>5, AssignKeepsType DEF Typed
<1>9. Typed'
  <2>1. stalled' \in BOOLEAN /\ selected' \in [Outs -> BOOLEAN]
    BY <1>1, Zenon DEF Typed
  <2>2. omsgidx' \in 0..OMsgIdxMask /\ ops' \in Nat
    BY <1>1, <1>2 DEF Typed
  <2>3. QED
    BY <1>7, <1>8, <2>1, <2>2 DEF Typed
<1>10. AheadLeft'
  BY <1>1, <1>2, <1>3, <1>6 DEF AheadLeft, Direct
<1>11. Room'
  BY <1>1 DEF Room
<1>12. \A p \in Direct : Accepts(p)
  BY <1>1 DEF Room, Accepts, Direct
<1>13. NoRejection'
  BY <1>1, <1>5, <1>12, AssignAccepted
<1>14. QED
  BY <1>9, <1>10, <1>11, <1>13

LEMMA StepInv == Inv /\ [Next]_vars => Inv'
<1>1. SUFFICES ASSUME Inv, [Next]_vars PROVE Inv'
  OBVIOUS
<1> USE DEF Inv
<1>2. CASE UNCHANGED vars
  BY <1>1, <1>2 DEF vars, pipe, history, Typed, AheadLeft, Room, NoRejection
<1>3. CASE PreClock
  BY <1>1, <1>3, PreClockInv
<1>4. CASE PostClock
  <2>1. CASE StalledPostClock
    <3>1. phase' = "pre" /\ UNCHANGED <<stalled, omsgidx, nextoutmsgs, selected, outq, rejected, ops>>
      BY <2>1 DEF StalledPostClock, history
    <3>2. QED
      BY <1>1, <3>1 DEF Typed, AheadLeft, Room, NoRejection
  <2>2. ASSUME NEW out \in SUBSET Outs,
               NEW take \in SUBSET {i \in Plains : Peeked[i] # None},
               ActivePostClock(out, take)
        PROVE  Inv'
    BY <1>1, <2>2, ActivePostClockInv
  <2>3. QED
    BY <1>4, <2>1, <2>2 DEF PostClock
<1>5. ASSUME NEW i \in Ins, Deliver(i) PROVE Inv'
  BY <1>1, <1>5 DEF Deliver, pipe, Typed, AheadLeft, Room, NoRejection
<1>6. ASSUME NEW p \in Outs, Drain(p) PROVE Inv'
  <2>1. /\ outq[p] # <<>> /\ outq' = [outq EXCEPT ![p] = Tail(@)]
        /\ UNCHANGED <<phase, stalled, omsgidx, nextoutmsgs, selected, rejected, ops>>
    BY <1>6 DEF Drain, pipe, history
  <2>2. outq' \in [Outs -> Seq(Nat)]
    BY <1>1, <2>1 DEF Typed
  <2>3. Typed' /\ AheadLeft' /\ NoRejection'
    BY <1>1, <2>1, <2>2 DEF Typed, AheadLeft, NoRejection
  <2>4. Room'
    BY <1>1, <2>1 DEF Room, Typed, Direct
  <2>5. QED
    BY <2>3, <2>4
<1>7. ASSUME NEW p \in Outs, Select(p) PROVE Inv'
  <2>1. /\ selected' \in [Outs -> BOOLEAN]
        /\ UNCHANGED <<phase, stalled, omsgidx, nextoutmsgs, outq, rejected, ops>>
    BY <1>1, <1>7, Zenon DEF Select, pipe, history, Typed
  <2>2. QED
    BY <1>1, <2>1 DEF Typed, AheadLeft, Room, NoRejection
<1>8. QED
  BY <1>1, <1>2, <1>3, <1>4, <1>5, <1>6, <1>7 DEF Next

\* The errors "attemped to push to full RHS queue" and "attempted to push to
\* full LHS" of Module.cpp are never reached from Assign.
THEOREM NeverRejected == Spec => []NoRejection
<1>1. Inv => NoRejection
  BY DEF Inv
<1>2. QED
  BY InitInv, StepInv, <1>1, PTL DEF Spec

-----------------------------------------------------------------------------
(* The inputs *)

\* What an input endpoint of each kind holds.  A PLAIN input is pending in its
\* queue, where Operation is shown it, and is never kept over a cycle.
PlainInput(i) ==
  /\ inq[i] \in Seq(Nat) /\ arrived[i] \in Nat /\ used[i] \in Nat
  /\ nextinmsgs[i] = None
  /\ Len(inq[i]) = arrived[i] - used[i]
  /\ \A k \in 1..Len(inq[i]) : inq[i][k] = used[i] + k

ToggleInput(i) ==
  IF inq[i] = <<>> THEN nextinmsgs[i] = arrived[i] ELSE inq[i] = <<arrived[i]>>

Inputs ==
  /\ inq \in [Ins -> Seq(Nat)] /\ arrived \in [Ins -> Nat] /\ used \in [Ins -> Nat]
  /\ \A i \in Plains : PlainInput(i)
  /\ \A i \in Toggles : ToggleInput(i)

LEMMA OneMessage ==
  ASSUME NEW a
  PROVE  Head(<<a>>) = a /\ Tail(<<a>>) = <<>>
OBVIOUS

LEMMA InitInputs == Init => Inputs
<1> SUFFICES ASSUME Init PROVE Inputs
  OBVIOUS
<1>1. <<>> \in Seq(Nat) /\ Len(<<>>) = 0
  OBVIOUS
<1>2. \A i \in Ins : inq[i] = <<>> /\ arrived[i] = 0 /\ used[i] = 0 /\ nextinmsgs[i] = 0
  BY DEF Init, None
<1>3. inq \in [Ins -> Seq(Nat)] /\ arrived \in [Ins -> Nat] /\ used \in [Ins -> Nat]
  BY <1>1 DEF Init
<1>4. QED
  BY <1>1, <1>2, <1>3 DEF Inputs, PlainInput, ToggleInput, Ins, None

\* The message Operation is shown is the oldest it has not used.
LEMMA StepInputs ==
  ASSUME Inputs, [Next]_vars
  PROVE  Inputs'
<1>1. CASE UNCHANGED <<inq, nextinmsgs, arrived, used>>
  BY <1>1 DEF Inputs, PlainInput, ToggleInput
<1>2. CASE StalledPostClock
  <2>1. /\ stalled /\ UNCHANGED <<arrived, used>>
        /\ nextinmsgs' = Peeked /\ inq' = Popped({})
    BY <1>2 DEF StalledPostClock, history
  <2>2. ASSUME NEW i \in Ins PROVE inq'[i] \in Seq(Nat)
    BY <2>1 DEF Popped, Inputs
  <2>3. inq' \in [Ins -> Seq(Nat)]
    BY <2>1, <2>2 DEF Popped
  <2>4. ASSUME NEW i \in Plains PROVE PlainInput(i)'
    <3>1. i \in Ins /\ i \notin Toggles /\ PlainInput(i)
      BY PortAssumption DEF Ins, Inputs
    <3>2. inq'[i] = inq[i] /\ nextinmsgs'[i] = nextinmsgs[i]
      BY <2>1, <3>1 DEF Popped, Peeked
    <3>3. QED
      BY <2>1, <3>1, <3>2 DEF PlainInput
  <2>5. ASSUME NEW i \in Toggles PROVE ToggleInput(i)'
    <3>1. i \in Ins /\ ToggleInput(i) /\ inq[i] \in Seq(Nat)
      BY DEF Ins, Inputs
    <3>2. inq[i] # <<>> => inq'[i] = Tail(inq[i]) /\ nextinmsgs'[i] = Head(inq[i])
      BY <2>1, <3>1 DEF Popped, Peeked
    <3>3. inq[i] = <<>> => inq'[i] = <<>> /\ nextinmsgs'[i] = nextinmsgs[i]
      BY <2>1, <3>1 DEF Popped, Peeked
    <3>4. inq[i] # <<>> => inq'[i] = <<>> /\ nextinmsgs'[i] = arrived[i]
      BY <3>1, <3>2, OneMessage DEF ToggleInput
    <3>5. QED
      BY <2>1, <3>1, <3>3, <3>4 DEF ToggleInput
  <2>6. QED
    BY <2>1, <2>3, <2>4, <2>5 DEF Inputs
<1>3. ASSUME NEW out \in SUBSET Outs,
             NEW take \in SUBSET {i \in Plains : Peeked[i] # None},
             ActivePostClock(out, take)
      PROVE  Inputs'
  <2>1. /\ ~stalled /\ arrived' = arrived
        /\ used' = [i \in Ins |-> IF i \in take THEN Peeked[i] ELSE used[i]]
        /\ nextinmsgs' = [i \in Ins |-> IF i \in Plains THEN None ELSE Peeked[i]]
        /\ inq' = Popped(take)
    BY <1>3 DEF ActivePostClock
  <2>2. ASSUME NEW i \in take
        PROVE  /\ i \in Plains /\ i \in Ins /\ i \notin Toggles /\ PlainInput(i)
               /\ inq[i] # <<>> /\ Peeked[i] = Head(inq[i])
    BY PortAssumption DEF Ins, Inputs, PlainInput, Peeked
  <2>3. ASSUME NEW i \in take
        PROVE  /\ inq'[i] = Tail(inq[i]) /\ used'[i] = used[i] + 1
               /\ used'[i] \in Nat
    <3>1. inq[i] \in Seq(Nat) /\ 1 \in 1..Len(inq[i]) /\ Head(inq[i]) = inq[i][1]
      BY <2>2 DEF PlainInput
    <3>2. Peeked[i] = used[i] + 1
      BY <2>2, <3>1 DEF PlainInput
    <3>3. QED
      BY <2>1, <2>2, <3>2 DEF Popped, PlainInput
  <2>4. ASSUME NEW i \in Ins PROVE inq'[i] \in Seq(Nat)
    BY <2>1, <2>2, <2>3 DEF Popped, Inputs
  <2>5. inq' \in [Ins -> Seq(Nat)]
    BY <2>1, <2>4 DEF Popped
  <2>6. used' \in [Ins -> Nat]
    <3>1. ASSUME NEW i \in Ins PROVE (IF i \in take THEN Peeked[i] ELSE used[i]) \in Nat
      BY <2>1, <2>3 DEF Inputs
    <3>2. QED
      BY <2>1, <3>1
  <2>7. ASSUME NEW i \in Plains PROVE PlainInput(i)'
    <3>1. i \in Ins /\ i \notin Toggles /\ PlainInput(i)
      BY PortAssumption DEF Ins, Inputs
    <3>2. nextinmsgs'[i] = None
      BY <2>1, <3>1
    <3>3. CASE i \in take
      <4>1. inq[i] \in Seq(Nat) /\ Len(inq[i]) \in Nat /\ inq[i] # <<>>
        BY <2>2, <3>3 DEF PlainInput
      <4>2. /\ Tail(inq[i]) \in Seq(Nat) /\ Len(Tail(inq[i])) = Len(inq[i]) - 1
            /\ \A k \in 1..(Len(inq[i]) - 1) : Tail(inq[i])[k] = inq[i][k + 1]
        BY <4>1
      <4>3. \A k \in 1..(Len(inq[i]) - 1) : Tail(inq[i])[k] = (used[i] + 1) + k
        <5> SUFFICES ASSUME NEW k \in 1..(Len(inq[i]) - 1)
                     PROVE  Tail(inq[i])[k] = (used[i] + 1) + k
          OBVIOUS
        <5>0. used[i] \in Nat /\ Len(inq[i]) \in Nat
          BY <3>1, <4>1 DEF PlainInput
        <5>1. k + 1 \in 1..Len(inq[i]) /\ used[i] + (k + 1) = (used[i] + 1) + k
          BY <5>0
        <5>2. inq[i][k + 1] = used[i] + (k + 1)
          BY <3>1, <5>1 DEF PlainInput
        <5>3. Tail(inq[i])[k] = inq[i][k + 1]
          BY <4>2
        <5>4. QED
          BY <5>1, <5>2, <5>3
      <4>4. /\ inq'[i] = Tail(inq[i]) /\ used'[i] = used[i] + 1 /\ arrived'[i] = arrived[i]
            /\ Len(inq[i]) = arrived[i] - used[i]
        BY <2>1, <2>3, <3>1, <3>3 DEF PlainInput
      <4>5. Len(inq'[i]) = arrived'[i] - used'[i]
        BY <3>1, <4>1, <4>2, <4>4 DEF PlainInput
      <4>6. QED
        BY <2>3, <3>1, <3>2, <3>3, <4>2, <4>3, <4>4, <4>5 DEF PlainInput
    <3>4. CASE i \notin take
      <4>1. inq'[i] = inq[i] /\ used'[i] = used[i]
        BY <2>1, <3>1, <3>4 DEF Popped
      <4>2. QED
        BY <2>1, <3>1, <3>2, <4>1 DEF PlainInput
    <3>5. QED
      BY <3>3, <3>4
  <2>8. ASSUME NEW i \in Toggles PROVE ToggleInput(i)'
    <3>1. i \in Ins /\ ToggleInput(i) /\ inq[i] \in Seq(Nat) /\ i \notin take /\ i \notin Plains
      BY <2>2, PortAssumption DEF Ins, Inputs
    <3>2. inq[i] # <<>> => inq'[i] = Tail(inq[i]) /\ nextinmsgs'[i] = Head(inq[i])
      BY <2>1, <3>1 DEF Popped, Peeked
    <3>3. inq[i] = <<>> => inq'[i] = <<>> /\ nextinmsgs'[i] = nextinmsgs[i]
      BY <2>1, <3>1 DEF Popped, Peeked
    <3>4. inq[i] # <<>> => inq'[i] = <<>> /\ nextinmsgs'[i] = arrived[i]
      BY <3>1, <3>2, OneMessage DEF ToggleInput
    <3>5. QED
      BY <2>1, <3>1, <3>3, <3>4 DEF ToggleInput
  <2>9. QED
    BY <2>1, <2>5, <2>6, <2>7, <2>8 DEF Inputs
<1>4. ASSUME NEW d \in Ins, Deliver(d) PROVE Inputs'
  <2> DEFINE n == arrived[d] + 1
  <2>1. /\ UNCHANGED <<nextinmsgs, used>>
        /\ arrived' = [arrived EXCEPT ![d] = n]
        /\ inq' = [inq EXCEPT ![d] = IF d \in Toggles THEN <<n>> ELSE Append(inq[d], n)]
    BY <1>4 DEF Deliver, pipe
  <2>2. n \in Nat /\ inq[d] \in Seq(Nat) /\ <<n>> \in Seq(Nat) /\ Append(inq[d], n) \in Seq(Nat)
    BY DEF Inputs
  <2>3. inq' \in [Ins -> Seq(Nat)] /\ arrived' \in [Ins -> Nat] /\ used' \in [Ins -> Nat]
    BY <2>1, <2>2 DEF Inputs
  <2>4. ASSUME NEW i \in Plains PROVE PlainInput(i)'
    <3>1. i \in Ins /\ i \notin Toggles /\ PlainInput(i)
      BY PortAssumption DEF Ins, Inputs
    <3>2. CASE i = d
      <4>1. inq'[i] = Append(inq[i], n) /\ arrived'[i] = arrived[i] + 1 /\ n = arrived[i] + 1
        BY <2>1, <3>1, <3>2 DEF Inputs
      <4>2. /\ Len(Append(inq[i], n)) = Len(inq[i]) + 1 /\ Append(inq[i], n) \in Seq(Nat)
            /\ \A k \in 1..(Len(inq[i]) + 1) :
                 Append(inq[i], n)[k] = IF k = Len(inq[i]) + 1 THEN n ELSE inq[i][k]
        BY <2>2, <3>2
      <4>3. Len(inq[i]) \in Nat
        BY <2>2, <3>2
      <4>4. \A k \in 1..(Len(inq[i]) + 1) : Append(inq[i], n)[k] = used[i] + k
        BY <3>1, <4>1, <4>2, <4>3 DEF PlainInput
      <4>5. QED
        BY <2>1, <2>2, <3>1, <4>1, <4>2, <4>4 DEF PlainInput
    <3>3. CASE i # d
      <4>1. inq'[i] = inq[i] /\ arrived'[i] = arrived[i]
        BY <2>1, <3>1, <3>3 DEF Inputs
      <4>2. QED
        BY <2>1, <3>1, <4>1 DEF PlainInput
    <3>4. QED
      BY <3>2, <3>3
  <2>5. ASSUME NEW i \in Toggles PROVE ToggleInput(i)'
    <3>1. i \in Ins /\ ToggleInput(i)
      BY DEF Ins, Inputs
    <3>2. CASE i = d
      <4>1. inq'[i] = <<n>> /\ arrived'[i] = n
        BY <2>1, <3>1, <3>2 DEF Inputs
      <4>2. QED
        BY <4>1 DEF ToggleInput
    <3>3. CASE i # d
      <4>1. inq'[i] = inq[i] /\ arrived'[i] = arrived[i]
        BY <2>1, <3>1, <3>3 DEF Inputs
      <4>2. QED
        BY <2>1, <3>1, <4>1 DEF ToggleInput
    <3>4. QED
      BY <3>2, <3>3
  <2>6. QED
    BY <2>3, <2>4, <2>5 DEF Inputs
<1>5. CASE PreClock \/ (\E p \in Outs : Drain(p) \/ Select(p)) \/ UNCHANGED vars
  BY <1>1, <1>5 DEF PreClock, Drain, Select, vars, pipe, history
<1>6. QED
  BY <1>2, <1>3, <1>4, <1>5 DEF Next, PostClock

\* A module uses every PLAIN message once and in the order of arrival, and the
\* message stays in its queue, where the sender counts it, until it is used.
THEOREM PlainUsedOnce == Spec => []PlainInputsOnce
<1>1. Inputs => PlainInputsOnce
  <2> SUFFICES ASSUME Inputs, NEW i \in Plains
               PROVE  inq[i] = [k \in 1..(arrived[i] - used[i]) |-> used[i] + k]
    BY DEF PlainInputsOnce
  <2>1. PlainInput(i)
    BY DEF Inputs
  <2>2. inq[i] = [k \in 1..Len(inq[i]) |-> inq[i][k]]
    BY <2>1 DEF PlainInput
  <2>3. QED
    BY <2>1, <2>2 DEF PlainInput
<1>2. Inputs /\ [Next]_vars => Inputs'
  BY StepInputs
<1>3. QED
  BY InitInputs, <1>1, <1>2, PTL DEF Spec

\* A module, stalled or not, never loses the newest value of a TOGGLE input.
THEOREM NewestLevelShown == Spec => []ToggleInputLatest
<1>1. Inputs => ToggleInputLatest
  BY DEF Inputs, ToggleInput, ToggleInputLatest
<1>2. Inputs /\ [Next]_vars => Inputs'
  BY StepInputs
<1>3. QED
  BY InitInputs, <1>1, <1>2, PTL DEF Spec

-----------------------------------------------------------------------------
(* The outputs.  The order of what a port has sent and of what it has under *)
(* way is a fact about the pipeline as it is seen from its end: the ring    *)
(* and its index only come in when a step is read as one that fills a       *)
(* place, lets a place leave or moves all of them.                          *)

\* at[p][i] is the output of p at place i, md[p] and sn[p] what p has made and
\* sent, n the number of Operations that wrote.

\* What one Operation wrote is in one place, what a later one wrote behind it.
Rows(at) ==
  \A p, q \in Outs : \A i, j \in Places : at[p][i] # None /\ at[q][j] # None =>
    /\ i < j => at[p][i] < at[q][j]
    /\ i = j => at[p][i] = at[q][j]

Numbered(at, md, n) ==
  \A p \in Outs :
    /\ \A i \in Places : at[p][i] <= n
    /\ \A k \in 1..Len(md[p]) :
         /\ md[p][k] # None /\ md[p][k] <= n
         /\ \A j \in 1..Len(md[p]) : j < k => md[p][j] < md[p][k]

\* A port has sent the first outputs it made, the others are under way.
Partition(at, md, sn) ==
  \A p \in Outs :
    /\ Len(sn[p]) <= Len(md[p])
    /\ \A k \in 1..Len(sn[p]) : sn[p][k] = md[p][k]
    /\ \A k \in 1..Len(md[p]) : Len(sn[p]) < k => \E i \in Places : at[p][i] = md[p][k]
    /\ \A i \in Places : at[p][i] # None =>
         \E k \in 1..Len(md[p]) : Len(sn[p]) < k /\ at[p][i] = md[p][k]

\* Whatever any port has sent is older than all that is under way, but for
\* what a capacity-0 output has sent ahead of the queued ones at place f.
Behind(at, sn, f) ==
  \A p, q \in Outs : \A k \in 1..Len(sn[p]) : \A i \in Places : at[q][i] # None =>
    \/ sn[p][k] < at[q][i]
    \/ p \in Direct /\ q \notin Direct /\ i = f /\ sn[p][k] = at[q][i]

Ordered(at, md, sn, n, f) ==
  /\ at \in [Outs -> [Places -> Nat]] /\ n \in Nat
  /\ md \in [Outs -> Seq(Nat)] /\ sn \in [Outs -> Seq(Nat)]
  /\ Rows(at) /\ Numbered(at, md, n) /\ Partition(at, md, sn) /\ Behind(at, sn, f)

LEMMA SentIsMade ==
  ASSUME NEW at, NEW md, NEW sn, NEW n, NEW f, Ordered(at, md, sn, n, f),
         NEW p \in Outs, NEW k \in 1..Len(sn[p])
  PROVE  /\ k \in 1..Len(md[p]) /\ sn[p][k] = md[p][k]
         /\ sn[p][k] \in Nat /\ sn[p][k] <= n
<1> USE DEF Ordered
<1>1. md[p] \in Seq(Nat) /\ sn[p] \in Seq(Nat)
  OBVIOUS
<1>2. Len(md[p]) \in Nat /\ Len(sn[p]) \in Nat
  BY <1>1
<1>3. Len(sn[p]) <= Len(md[p]) /\ sn[p][k] = md[p][k]
  BY DEF Partition
<1>4. k \in 1..Len(md[p])
  BY <1>2, <1>3
<1>5. QED
  BY <1>1, <1>3, <1>4 DEF Numbered

\* An Operation writes the outputs `out' to the place g, behind all others.
Fills(at, bt, md, me, n, m, out, g) ==
  /\ \A p \in Outs : \A i \in Places : g <= i => at[p][i] = None
  /\ bt \in [Outs -> [Places -> Nat]]
  /\ \A p \in Outs : \A i \in Places :
       bt[p][i] = IF p \in out /\ i = g THEN n + 1 ELSE at[p][i]
  /\ me = [p \in Outs |-> IF p \in out THEN Append(md[p], n + 1) ELSE md[p]]
  /\ m \in Nat /\ m = IF out = {} THEN n ELSE n + 1

LEMMA Fill ==
  ASSUME NEW at, NEW md, NEW sn, NEW n, NEW f, Ordered(at, md, sn, n, f),
         NEW out \in SUBSET Outs, NEW g \in Places,
         NEW bt, NEW me, NEW m, Fills(at, bt, md, me, n, m, out, g)
  PROVE  Ordered(bt, me, sn, m, f)
<1>1. ASSUME NEW p \in Outs, NEW k \in 1..Len(sn[p])
      PROVE  sn[p][k] \in Nat /\ sn[p][k] <= n
  BY SentIsMade
<1>2. /\ n \in Nat /\ n + 1 \in Nat /\ m \in Nat /\ n <= m /\ n + 1 # None
      /\ \A p \in out : m = n + 1
  BY DEF Ordered, Fills, None
<1>3. ASSUME NEW p \in Outs, NEW i \in Places
       PROVE  /\ at[p][i] \in Nat /\ at[p][i] <= n
              /\ p \in out /\ i = g => bt[p][i] = n + 1
              /\ p \notin out \/ i # g => bt[p][i] = at[p][i]
  <2>1. at[p][i] \in Nat /\ at[p][i] <= n
    BY DEF Ordered, Numbered
  <2>2. bt[p][i] = IF p \in out /\ i = g THEN n + 1 ELSE at[p][i]
    BY DEF Fills
  <2>3. QED
    BY <2>1, <2>2
<1>4. Rows(at)
  BY DEF Ordered
<1>5. Rows(bt)
  <2> SUFFICES ASSUME NEW p \in Outs, NEW q \in Outs, NEW i \in Places, NEW j \in Places,
                      bt[p][i] # None, bt[q][j] # None
               PROVE  /\ i < j => bt[p][i] < bt[q][j]
                      /\ i = j => bt[p][i] = bt[q][j]
    BY DEF Rows
  <2>0. i \in Nat /\ j \in Nat /\ g \in Nat
    BY PipeAssumption DEF Places
  <2>1. CASE p \in out /\ i = g
    <3>1. ~(i < j)
      <4>1. CASE q \in out /\ j = g
        BY <2>0, <2>1, <4>1
      <4>2. CASE q \notin out \/ j # g
        <5>1. at[q][j] # None
          BY <1>3, <4>2
        <5>2. ~(g <= j)
          BY <5>1 DEF Fills
        <5>3. QED
          BY <2>0, <2>1, <5>2
      <4>3. QED
        BY <4>1, <4>2
    <3>2. i = j => bt[p][i] = bt[q][j]
      <4>1. CASE q \in out
        BY <1>3, <2>1, <4>1
      <4>2. CASE q \notin out
        <5>1. at[q][j] # None
          BY <1>3, <4>2
        <5>2. ~(g <= j)
          BY <5>1 DEF Fills
        <5>3. QED
          BY <2>0, <2>1, <5>2
      <4>3. QED
        BY <4>1, <4>2
    <3>3. QED
      BY <3>1, <3>2
  <2>2. CASE (p \notin out \/ i # g) /\ q \in out /\ j = g
    <3>1. at[p][i] # None /\ bt[p][i] = at[p][i] /\ bt[q][j] = n + 1
      BY <1>3, <2>2
    <3>2. ~(g <= i)
      BY <3>1 DEF Fills
    <3>3. at[p][i] \in Nat /\ at[p][i] <= n
      BY <1>3
    <3>4. bt[p][i] < bt[q][j]
      BY <1>2, <3>1, <3>3
    <3>5. i # j
      BY <2>0, <2>2, <3>2
    <3>6. QED
      BY <3>4, <3>5
  <2>3. CASE (p \notin out \/ i # g) /\ (q \notin out \/ j # g)
    <3>1. bt[p][i] = at[p][i] /\ bt[q][j] = at[q][j]
      BY <1>3, <2>3
    <3>2. QED
      BY <1>4, <3>1 DEF Rows
  <2>4. QED
    BY <2>1, <2>2, <2>3
<1>6. ASSUME NEW p \in Outs, NEW i \in Places PROVE bt[p][i] <= m
  <2>0. at[p][i] \in Nat /\ at[p][i] <= n
    BY <1>3
  <2>1. CASE p \in out /\ i = g
    <3>1. bt[p][i] = n + 1
      BY <1>3, <2>1
    <3>2. m = n + 1
      BY <1>2, <2>1
    <3>3. QED
      BY <1>2, <3>1, <3>2
  <2>2. CASE p \notin out \/ i # g
    <3>1. bt[p][i] = at[p][i]
      BY <1>3, <2>2
    <3>2. QED
      BY <1>2, <2>0, <3>1
  <2>3. QED
    BY <2>1, <2>2
<1> USE DEF Ordered, Fills
<1>7. /\ n \in Nat /\ n + 1 \in Nat /\ n + 1 # None /\ m >= n
      /\ \A i \in Places : i \in Nat
      /\ \A p \in Outs : \A i \in Places : at[p][i] \in Nat
  BY PipeAssumption DEF None, Places
<1>8. /\ \A p \in Outs \ out : me[p] = md[p]
      /\ \A p \in out : me[p] = Append(md[p], n + 1) /\ m = n + 1
  OBVIOUS
<1>9. ASSUME NEW p \in out
      PROVE  /\ me[p] \in Seq(Nat) /\ Len(me[p]) = Len(md[p]) + 1
             /\ \A k \in 1..Len(md[p]) : me[p][k] = md[p][k]
             /\ me[p][Len(md[p]) + 1] = n + 1
  BY <1>7, <1>8
<1>10. me \in [Outs -> Seq(Nat)]
  <2>1. \A p \in Outs : (IF p \in out THEN Append(md[p], n + 1) ELSE md[p]) \in Seq(Nat)
    BY <1>7
  <2>2. QED
    BY <2>1
<1>11. Numbered(bt, me, m)
  <2> SUFFICES ASSUME NEW p \in Outs
               PROVE  /\ \A i \in Places : bt[p][i] <= m
                      /\ \A k \in 1..Len(me[p]) :
                           /\ me[p][k] # None /\ me[p][k] <= m
                           /\ \A j \in 1..Len(me[p]) : j < k => me[p][j] < me[p][k]
    BY DEF Numbered
  <2>1. \A i \in Places : bt[p][i] <= m
    BY <1>6
  <2>2. CASE p \notin out
    <3>1. me[p] = md[p] /\ Len(md[p]) \in Nat /\ md[p] \in Seq(Nat)
      BY <1>8, <2>2
    <3>2. ASSUME NEW k \in 1..Len(md[p])
          PROVE  md[p][k] # None /\ md[p][k] <= m
      <4>1. md[p][k] # None /\ md[p][k] <= n /\ md[p][k] \in Nat
        BY <3>1 DEF Numbered
      <4>2. QED
        BY <1>7, <4>1
    <3>3. \A k, j \in 1..Len(md[p]) : j < k => md[p][j] < md[p][k]
      BY DEF Numbered
    <3>4. QED
      BY <2>1, <3>1, <3>2, <3>3
  <2>3. CASE p \in out
    <3>1. Len(md[p]) \in Nat /\ m = n + 1 /\ md[p] \in Seq(Nat)
      BY <1>8, <2>3
    <3>2. ASSUME NEW k \in 1..Len(me[p]), k # Len(md[p]) + 1
          PROVE  k \in 1..Len(md[p]) /\ me[p][k] = md[p][k] /\ md[p][k] \in Nat
      BY <1>9, <2>3, <3>1, <3>2
    <3>3. ASSUME NEW k \in 1..Len(me[p])
          PROVE  me[p][k] # None /\ me[p][k] <= m
      <4>1. CASE k = Len(md[p]) + 1
        <5>1. me[p][k] = n + 1
          BY <1>9, <2>3, <4>1
        <5>2. n + 1 # None /\ n + 1 <= m
          BY <1>2, <2>3
        <5>3. QED
          BY <5>1, <5>2
      <4>2. CASE k # Len(md[p]) + 1
        <5>1. k \in 1..Len(md[p]) /\ me[p][k] = md[p][k] /\ md[p][k] \in Nat
          BY <3>2, <4>2
        <5>2. md[p][k] # None /\ md[p][k] <= n
          BY <5>1 DEF Numbered
        <5>3. QED
          BY <1>2, <5>1, <5>2
      <4>3. QED
        BY <4>1, <4>2
    <3>4. ASSUME NEW k \in 1..Len(me[p]), NEW j \in 1..Len(me[p]), j < k
          PROVE  me[p][j] < me[p][k]
      <4>1. j # Len(md[p]) + 1 /\ md[p][j] <= n
        BY <1>9, <2>3, <3>1, <3>2, <3>4 DEF Numbered
      <4>2. CASE k = Len(md[p]) + 1
        BY <1>7, <1>9, <2>3, <3>2, <4>1, <4>2
      <4>3. CASE k # Len(md[p]) + 1
        BY <3>2, <3>4, <4>1, <4>3 DEF Numbered
      <4>4. QED
        BY <4>2, <4>3
    <3>5. QED
      BY <2>1, <3>3, <3>4
  <2>4. QED
    BY <2>2, <2>3
<1>12. Partition(bt, me, sn)
  <2> SUFFICES ASSUME NEW p \in Outs
               PROVE  /\ Len(sn[p]) <= Len(me[p])
                      /\ \A k \in 1..Len(sn[p]) : sn[p][k] = me[p][k]
                      /\ \A k \in 1..Len(me[p]) : Len(sn[p]) < k =>
                           \E i \in Places : bt[p][i] = me[p][k]
                      /\ \A i \in Places : bt[p][i] # None =>
                           \E k \in 1..Len(me[p]) : Len(sn[p]) < k /\ bt[p][i] = me[p][k]
    BY DEF Partition
  <2>1. Len(sn[p]) \in Nat /\ Len(md[p]) \in Nat /\ Len(sn[p]) <= Len(md[p])
    BY DEF Partition
  <2>2. CASE p \notin out
    <3>1. me[p] = md[p] /\ \A i \in Places : bt[p][i] = at[p][i]
      BY <1>8, <2>2
    <3>2. QED
      BY <3>1 DEF Partition
  <2>3. CASE p \in out
    <3>1. \A i \in Places : i # g => bt[p][i] = at[p][i]
      OBVIOUS
    <3>2. bt[p][g] = n + 1 /\ at[p][g] = None
      BY <1>7, <2>3
    <3>3. \A k \in 1..Len(sn[p]) : k \in 1..Len(md[p]) /\ sn[p][k] = me[p][k]
      BY <1>9, <2>1, <2>3 DEF Partition
    <3>4. ASSUME NEW k \in 1..Len(me[p]), Len(sn[p]) < k
          PROVE  \E i \in Places : bt[p][i] = me[p][k]
      <4>1. CASE k = Len(md[p]) + 1
        BY <1>9, <2>3, <3>2, <4>1
      <4>2. CASE k # Len(md[p]) + 1
        <5>1. k \in 1..Len(md[p]) /\ me[p][k] = md[p][k]
          BY <1>9, <2>1, <2>3, <4>2
        <5>2. PICK i \in Places : at[p][i] = md[p][k]
          BY <3>4, <5>1 DEF Partition
        <5>3. md[p][k] # None
          BY <5>1 DEF Numbered
        <5>4. QED
          BY <3>1, <3>2, <5>1, <5>2, <5>3
      <4>3. QED
        BY <4>1, <4>2
    <3>5. ASSUME NEW i \in Places, bt[p][i] # None
          PROVE  \E k \in 1..Len(me[p]) : Len(sn[p]) < k /\ bt[p][i] = me[p][k]
      <4>1. CASE i = g
        <5>1. Len(md[p]) + 1 \in 1..Len(me[p]) /\ Len(sn[p]) < Len(md[p]) + 1
          BY <1>9, <2>1, <2>3
        <5>2. QED
          BY <1>9, <2>3, <3>2, <4>1, <5>1
      <4>2. CASE i # g
        <5>1. PICK k \in 1..Len(md[p]) : Len(sn[p]) < k /\ at[p][i] = md[p][k]
          BY <3>1, <3>5, <4>2 DEF Partition
        <5>2. k \in 1..Len(me[p]) /\ me[p][k] = md[p][k]
          BY <1>9, <2>1, <2>3
        <5>3. QED
          BY <3>1, <4>2, <5>1, <5>2
      <4>3. QED
        BY <4>1, <4>2
    <3>6. Len(sn[p]) <= Len(me[p])
      BY <1>9, <2>1, <2>3
    <3>7. QED
      BY <3>3, <3>4, <3>5, <3>6
  <2>4. QED
    BY <2>2, <2>3
<1>13. Behind(bt, sn, f)
  <2> SUFFICES ASSUME NEW p \in Outs, NEW q \in Outs, NEW k \in 1..Len(sn[p]),
                      NEW i \in Places, bt[q][i] # None
               PROVE  \/ sn[p][k] < bt[q][i]
                      \/ p \in Direct /\ q \notin Direct /\ i = f /\ sn[p][k] = bt[q][i]
    BY DEF Behind
  <2>1. CASE q \in out /\ i = g
    <3>1. bt[q][i] = n + 1
      BY <1>7, <2>1
    <3>2. n \in Nat /\ sn[p][k] \in Nat /\ sn[p][k] <= n
      BY <1>1, <1>7
    <3>3. sn[p][k] < n + 1
      BY <3>2
    <3>4. QED
      BY <3>1, <3>3
  <2>2. CASE ~(q \in out /\ i = g)
    <3>1. bt[q][i] = at[q][i]
      BY <1>3, <2>2
    <3>2. QED
      BY <3>1 DEF Behind
  <2>3. QED
    BY <2>1, <2>2
<1>14. QED
  BY <1>10, <1>5, <1>11, <1>12, <1>13

\* The front place f lets the outputs of `ports' leave: each is the oldest its
\* port has under way.
LEMMA Oldest ==
  ASSUME NEW at, NEW md, NEW sn, NEW n, NEW f \in Places, Ordered(at, md, sn, n, f),
         \A p \in Outs : \A i \in Places : i < f => at[p][i] = None,
         NEW p \in Outs, at[p][f] # None
  PROVE  /\ Len(sn[p]) + 1 \in 1..Len(md[p])
         /\ md[p][Len(sn[p]) + 1] = at[p][f]
<1> USE DEF Ordered
<1>1. /\ Len(md[p]) \in Nat /\ Len(sn[p]) \in Nat /\ md[p] \in Seq(Nat)
      /\ f \in Nat /\ \A i \in Places : i \in Nat
  BY PipeAssumption DEF Places
<1>2. PICK k \in 1..Len(md[p]) : Len(sn[p]) < k /\ at[p][f] = md[p][k]
  BY DEF Partition
<1>3. Len(sn[p]) + 1 \in 1..Len(md[p]) /\ Len(sn[p]) < Len(sn[p]) + 1
  BY <1>1, <1>2
<1>4. CASE k = Len(sn[p]) + 1
  BY <1>2, <1>3, <1>4
<1>5. CASE k # Len(sn[p]) + 1
  <2> DEFINE o == Len(sn[p]) + 1
  <2>1. o < k
    BY <1>1, <1>2, <1>5
  <2>2. PICK i \in Places : at[p][i] = md[p][o]
    BY <1>3 DEF Partition
  <2>3. md[p][o] # None /\ md[p][o] < md[p][k] /\ md[p][o] \in Nat /\ md[p][k] \in Nat
    BY <1>1, <1>3, <2>1 DEF Numbered
  <2>4. ~(i < f) /\ i # f
    BY <1>2, <2>2, <2>3
  <2>5. f < i
    BY <1>1, <2>4
  <2>6. at[p][f] < at[p][i]
    BY <2>2, <2>3, <2>5 DEF Rows
  <2>7. QED
    BY <1>2, <2>2, <2>3, <2>6
<1>6. QED
  BY <1>4, <1>5

Leaves(at, bt, sn, so, ports, f) ==
  /\ \A p \in Outs : \A i \in Places : i < f => at[p][i] = None
  /\ ports = Outs \/ ports = Direct
  /\ bt \in [Outs -> [Places -> Nat]]
  /\ \A p \in Outs : \A i \in Places :
       bt[p][i] = IF p \in ports /\ i = f THEN None ELSE at[p][i]
  /\ so = [p \in Outs |-> IF p \in ports /\ at[p][f] # None
                           THEN Append(sn[p], at[p][f]) ELSE sn[p]]

LEMMA OneMore ==
  ASSUME NEW s \in Seq(Nat), NEW k \in Nat
  PROVE  /\ Append(s, k) \in Seq(Nat) /\ Len(Append(s, k)) = Len(s) + 1
         /\ Append(s, k)[Len(s) + 1] = k
         /\ \A j \in 1..Len(s) : Append(s, k)[j] = s[j]
OBVIOUS

LEMMA Leave ==
  ASSUME NEW at, NEW md, NEW sn, NEW n, NEW f \in Places, Ordered(at, md, sn, n, f),
         NEW ports, NEW bt, NEW so, Leaves(at, bt, sn, so, ports, f)
  PROVE  Ordered(bt, md, so, n, f)
<1> DEFINE leaving == {p \in ports : at[p][f] # None}
<1>1. ASSUME NEW p \in leaving
      PROVE  /\ Len(sn[p]) + 1 \in 1..Len(md[p])
             /\ md[p][Len(sn[p]) + 1] = at[p][f]
  <2>1. p \in Outs /\ \A q \in Outs : \A i \in Places : i < f => at[q][i] = None
    BY DEF Leaves, Direct
  <2>2. QED
    BY <2>1, Oldest
<1>2. ASSUME NEW p \in leaving
      PROVE  /\ so[p] \in Seq(Nat) /\ Len(so[p]) = Len(sn[p]) + 1
             /\ so[p][Len(sn[p]) + 1] = at[p][f]
             /\ \A k \in 1..Len(sn[p]) : so[p][k] = sn[p][k]
  <2>1. p \in Outs /\ p \in ports /\ at[p][f] # None
    BY DEF Leaves, Direct
  <2>2. so[p] = Append(sn[p], at[p][f])
    BY <2>1 DEF Leaves
  <2>3. sn[p] \in Seq(Nat) /\ at[p][f] \in Nat
    BY <2>1 DEF Ordered
  <2>4. QED
    BY <2>2, <2>3, OneMore
<1>3. ASSUME NEW p \in leaving, NEW k \in 1..Len(so[p]), k \notin 1..Len(sn[p])
       PROVE  k = Len(sn[p]) + 1 /\ so[p][k] = at[p][f] /\ at[p][f] # None
  <2>1. p \in Outs
    BY DEF Leaves, Direct
  <2>2. Len(sn[p]) \in Nat
    BY <2>1 DEF Ordered
  <2>3. k = Len(sn[p]) + 1
    BY <1>2, <1>3, <2>2
  <2>4. QED
    BY <1>2, <2>3
<1> USE DEF Ordered, Leaves
<1>4. ports \in SUBSET Outs /\ \A p \in ports : \A q \in Outs \ ports : p \in Direct /\ q \notin Direct
  BY DEF Direct
<1>5. ASSUME NEW p \in Outs
      PROVE  /\ md[p] \in Seq(Nat) /\ sn[p] \in Seq(Nat)
             /\ Len(md[p]) \in Nat /\ Len(sn[p]) \in Nat
             /\ f \in Nat /\ \A i \in Places : i \in Nat /\ at[p][i] \in Nat
  BY PipeAssumption DEF Places
<1>6. ASSUME NEW p \in Outs, NEW i \in Places, bt[p][i] # None
      PROVE  bt[p][i] = at[p][i] /\ at[p][i] # None /\ (p \notin ports \/ i # f)
  BY <1>6
<1>7. ASSUME NEW p \in Outs, p \notin leaving
      PROVE  so[p] = sn[p] /\ \A i \in Places : bt[p][i] = at[p][i]
  <2>1. ~(p \in ports /\ at[p][f] # None)
    BY <1>7
  <2>2. so[p] = sn[p]
    BY <2>1
  <2>3. ASSUME NEW i \in Places PROVE bt[p][i] = at[p][i]
    <3>1. bt[p][i] = IF p \in ports /\ i = f THEN None ELSE at[p][i]
      OBVIOUS
    <3>2. CASE p \in ports /\ i = f
      BY <2>1, <3>1, <3>2
    <3>3. CASE ~(p \in ports /\ i = f)
      BY <3>1, <3>3
    <3>4. QED
      BY <3>2, <3>3
  <2>4. QED
    BY <2>2, <2>3
<1>8. so \in [Outs -> Seq(Nat)]
  <2>1. \A p \in Outs : (IF p \in ports /\ at[p][f] # None
                         THEN Append(sn[p], at[p][f]) ELSE sn[p]) \in Seq(Nat)
    BY <1>5
  <2>2. QED
    BY <2>1
<1>9. Rows(bt)
  <2> SUFFICES ASSUME NEW p \in Outs, NEW q \in Outs, NEW i \in Places, NEW j \in Places,
                      bt[p][i] # None, bt[q][j] # None
               PROVE  /\ i < j => bt[p][i] < bt[q][j]
                      /\ i = j => bt[p][i] = bt[q][j]
    BY DEF Rows
  <2>1. bt[p][i] = at[p][i] /\ bt[q][j] = at[q][j] /\ at[p][i] # None /\ at[q][j] # None
    BY <1>6
  <2>2. QED
    BY <2>1 DEF Rows
<1>10. Numbered(bt, md, n)
  <2>1. ASSUME NEW p \in Outs, NEW i \in Places PROVE bt[p][i] <= n
    <3>1. bt[p][i] = None \/ bt[p][i] = at[p][i]
      OBVIOUS
    <3>2. at[p][i] <= n /\ n \in Nat
      BY DEF Numbered
    <3>3. QED
      BY <3>1, <3>2 DEF None
  <2>2. QED
    BY <2>1 DEF Numbered
<1>11. Partition(bt, md, so)
  <2> SUFFICES ASSUME NEW p \in Outs
               PROVE  /\ Len(so[p]) <= Len(md[p])
                      /\ \A k \in 1..Len(so[p]) : so[p][k] = md[p][k]
                      /\ \A k \in 1..Len(md[p]) : Len(so[p]) < k =>
                           \E i \in Places : bt[p][i] = md[p][k]
                      /\ \A i \in Places : bt[p][i] # None =>
                           \E k \in 1..Len(md[p]) : Len(so[p]) < k /\ bt[p][i] = md[p][k]
    BY DEF Partition
  <2>1. CASE p \notin leaving
    BY <1>7, <2>1 DEF Partition
  <2>2. CASE p \in leaving
    <3> DEFINE o == Len(sn[p]) + 1
    <3>1. o \in 1..Len(md[p]) /\ md[p][o] = at[p][f] /\ Len(so[p]) = o
      BY <1>1, <1>2, <2>2
    <3>2. Len(so[p]) <= Len(md[p])
      BY <1>5, <3>1
    <3>3. ASSUME NEW k \in 1..Len(so[p]) PROVE so[p][k] = md[p][k]
      <4>1. CASE k = o
        BY <1>2, <2>2, <3>1, <4>1
      <4>2. CASE k # o
        <5>1. k \in 1..Len(sn[p])
          BY <1>5, <3>1, <4>2
        <5>2. QED
          BY <1>2, <2>2, <5>1 DEF Partition
      <4>3. QED
        BY <4>1, <4>2
    <3>4. ASSUME NEW k \in 1..Len(md[p]), Len(so[p]) < k
          PROVE  \E i \in Places : bt[p][i] = md[p][k]
      <4>1. Len(sn[p]) < k /\ o < k
        BY <1>5, <3>1, <3>4
      <4>2. PICK i \in Places : at[p][i] = md[p][k]
        BY <4>1 DEF Partition
      <4>3. md[p][o] < md[p][k] /\ md[p][o] \in Nat
        BY <1>5, <3>1, <4>1 DEF Numbered
      <4>4. i # f
        BY <3>1, <4>2, <4>3
      <4>5. bt[p][i] = at[p][i]
        BY <4>4
      <4>6. QED
        BY <4>2, <4>5
    <3>5. ASSUME NEW i \in Places, bt[p][i] # None
          PROVE  \E k \in 1..Len(md[p]) : Len(so[p]) < k /\ bt[p][i] = md[p][k]
      <4>1. bt[p][i] = at[p][i] /\ at[p][i] # None /\ i # f
        BY <1>6, <2>2, <3>5
      <4>2. PICK k \in 1..Len(md[p]) : Len(sn[p]) < k /\ at[p][i] = md[p][k]
        BY <4>1 DEF Partition
      <4>3. at[p][i] # at[p][f]
        <5>1. i < f \/ f < i
          BY <1>5, <4>1
        <5>2. at[p][f] # None /\ at[p][f] \in Nat /\ at[p][i] \in Nat
          BY <1>5, <2>2
        <5>3. QED
          BY <4>1, <5>1, <5>2 DEF Rows
      <4>4. k # o
        BY <3>1, <4>2, <4>3
      <4>5. Len(so[p]) < k
        BY <1>5, <3>1, <4>2, <4>4
      <4>6. QED
        BY <4>1, <4>2, <4>5
    <3>6. QED
      BY <3>2, <3>3, <3>4, <3>5
  <2>3. QED
    BY <2>1, <2>2
<1>12. Behind(bt, so, f)
  <2> SUFFICES ASSUME NEW p \in Outs, NEW q \in Outs, NEW k \in 1..Len(so[p]),
                      NEW i \in Places, bt[q][i] # None
               PROVE  \/ so[p][k] < bt[q][i]
                      \/ p \in Direct /\ q \notin Direct /\ i = f /\ so[p][k] = bt[q][i]
    BY DEF Behind
  <2>1. bt[q][i] = at[q][i] /\ at[q][i] # None /\ (q \notin ports \/ i # f)
    BY <1>6
  <2>2. CASE k \in 1..Len(sn[p])
    <3>1. so[p][k] = sn[p][k]
      BY <1>2, <1>7, <2>2
    <3>2. QED
      BY <2>1, <2>2, <3>1 DEF Behind
  <2>3. CASE k \notin 1..Len(sn[p])
    <3>1. p \in leaving
      BY <1>7, <2>3
    <3>2. k = Len(sn[p]) + 1 /\ so[p][k] = at[p][f] /\ at[p][f] # None
      BY <1>3, <2>3, <3>1
    <3>3. ~(i < f)
      BY <2>1
    <3>4. CASE i = f
      <4>1. at[p][f] = at[q][i]
        BY <2>1, <3>2, <3>4 DEF Rows
      <4>2. p \in Direct /\ q \notin Direct
        BY <1>4, <2>1, <3>1, <3>4
      <4>3. QED
        BY <2>1, <3>2, <3>4, <4>1, <4>2
    <3>5. CASE i # f
      <4>1. f < i
        BY <1>5, <3>3, <3>5
      <4>2. QED
        BY <2>1, <3>2, <4>1 DEF Rows
    <3>6. QED
      BY <3>4, <3>5
  <2>4. QED
    BY <2>2, <2>3
<1>13. QED
  BY <1>8, <1>9, <1>10, <1>11, <1>12

\* All places move one nearer the end, which is empty.
Moves(at, bt) ==
  /\ \A p \in Outs : at[p][0] = None
  /\ bt \in [Outs -> [Places -> Nat]]
  /\ \A p \in Outs : \A i \in Places :
       bt[p][i] = IF i = OMsgIdxMask THEN None ELSE at[p][i + 1]

LEMMA Shift ==
  ASSUME NEW at, NEW md, NEW sn, NEW n, Ordered(at, md, sn, n, 1),
         NEW bt, Moves(at, bt)
  PROVE  Ordered(bt, md, sn, n, 0)
<1>1. Rows(at)
  BY DEF Ordered
<1> USE DEF Ordered, Moves
<1>2. \A i \in Places : i \in Nat /\ (i # OMsgIdxMask => i + 1 \in Places)
  BY PipeAssumption DEF Places
<1>3. ASSUME NEW p \in Outs, NEW i \in Places, bt[p][i] # None
      PROVE  i \in Nat /\ i + 1 \in Places /\ bt[p][i] = at[p][i + 1] /\ at[p][i + 1] # None
  BY <1>2, <1>3
<1>4. Rows(bt)
  <2> SUFFICES ASSUME NEW p \in Outs, NEW q \in Outs, NEW i \in Places, NEW j \in Places,
                      bt[p][i] # None, bt[q][j] # None
               PROVE  /\ i < j => bt[p][i] < bt[q][j]
                      /\ i = j => bt[p][i] = bt[q][j]
    BY DEF Rows
  <2>1. /\ i \in Nat /\ j \in Nat /\ i + 1 \in Places /\ j + 1 \in Places
        /\ bt[p][i] = at[p][i + 1] /\ bt[q][j] = at[q][j + 1]
        /\ at[p][i + 1] # None /\ at[q][j + 1] # None
    BY <1>3
  <2>2. (i < j => i + 1 < j + 1) /\ (i = j => i + 1 = j + 1)
    BY <2>1
  <2>3. /\ i + 1 < j + 1 => at[p][i + 1] < at[q][j + 1]
        /\ i + 1 = j + 1 => at[p][i + 1] = at[q][j + 1]
    BY <1>1, <2>1 DEF Rows
  <2>4. QED
    BY <2>1, <2>2, <2>3
<1>5. Numbered(bt, md, n)
  <2>1. ASSUME NEW p \in Outs, NEW i \in Places PROVE bt[p][i] <= n
    <3>1. CASE i = OMsgIdxMask
      BY <3>1 DEF None
    <3>2. CASE i # OMsgIdxMask
      BY <1>2, <3>2 DEF Numbered
    <3>3. QED
      BY <3>1, <3>2
  <2>2. QED
    BY <2>1 DEF Numbered
<1>6. Partition(bt, md, sn)
  <2> SUFFICES ASSUME NEW p \in Outs
               PROVE  /\ \A k \in 1..Len(md[p]) : Len(sn[p]) < k =>
                           \E i \in Places : bt[p][i] = md[p][k]
                      /\ \A i \in Places : bt[p][i] # None =>
                           \E k \in 1..Len(md[p]) : Len(sn[p]) < k /\ bt[p][i] = md[p][k]
    BY DEF Partition
  <2>1. ASSUME NEW k \in 1..Len(md[p]), Len(sn[p]) < k
        PROVE  \E i \in Places : bt[p][i] = md[p][k]
    <3>1. PICK j \in Places : at[p][j] = md[p][k]
      BY <2>1 DEF Partition
    <3>2. md[p][k] # None
      BY DEF Numbered
    <3>3. j # 0
      BY <3>1, <3>2
    <3>4. j - 1 \in Places /\ j - 1 # OMsgIdxMask /\ (j - 1) + 1 = j
      BY <3>3, PipeAssumption DEF Places
    <3>5. bt[p][j - 1] = at[p][j]
      BY <3>4
    <3>6. QED
      BY <3>1, <3>4, <3>5
  <2>2. ASSUME NEW i \in Places, bt[p][i] # None
        PROVE  \E k \in 1..Len(md[p]) : Len(sn[p]) < k /\ bt[p][i] = md[p][k]
    BY <1>3, <2>2 DEF Partition
  <2>3. QED
    BY <2>1, <2>2
<1>7. Behind(bt, sn, 0)
  <2> SUFFICES ASSUME NEW p \in Outs, NEW q \in Outs, NEW k \in 1..Len(sn[p]),
                      NEW i \in Places, bt[q][i] # None
               PROVE  \/ sn[p][k] < bt[q][i]
                      \/ p \in Direct /\ q \notin Direct /\ i = 0 /\ sn[p][k] = bt[q][i]
    BY DEF Behind
  <2>1. i \in Nat /\ i + 1 \in Places /\ bt[q][i] = at[q][i + 1] /\ at[q][i + 1] # None
    BY <1>3
  <2>2. \/ sn[p][k] < at[q][i + 1]
        \/ p \in Direct /\ q \notin Direct /\ i + 1 = 1 /\ sn[p][k] = at[q][i + 1]
    BY <2>1 DEF Behind
  <2>3. i + 1 = 1 => i = 0
    BY <2>1
  <2>4. QED
    BY <2>1, <2>2, <2>3
<1>8. QED
  BY <1>4, <1>5, <1>6, <1>7

\* The ring: places are distinct slots, and a move brings each one nearer.
LEMMA Ring ==
  ASSUME omsgidx \in 0..OMsgIdxMask
  PROVE  /\ Slot(0) = omsgidx /\ Slot(OMsgIdxMask + 1) = omsgidx
         /\ \A i \in Places : Slot(i) \in 0..OMsgIdxMask
         /\ \A i, j \in Places : Slot(i) = Slot(j) => i = j
<1>1. \A i \in Places : Slot(i) \in 0..OMsgIdxMask
  BY PipeAssumption DEF Slot, PipeSize, Places
<1>2. Slot(0) = omsgidx /\ Slot(OMsgIdxMask + 1) = omsgidx
  BY PipeAssumption DEF Slot, PipeSize
<1>3. \A i, j \in Places : Slot(i) = Slot(j) => i = j
  BY PipeAssumption DEF Slot, PipeSize, Places
<1>4. QED
  BY <1>1, <1>2, <1>3

LEMMA RingMoves ==
  ASSUME omsgidx \in 0..OMsgIdxMask, omsgidx' = Slot(1), NEW i \in Places
  PROVE  Slot(i)' = Slot(i + 1)
BY PipeAssumption DEF Slot, PipeSize, Places

Pipeline == [p \in Outs |-> [i \in Places |-> At(p, i)]]

\* What is under way is less than PDepth moves from the end, and what was at
\* the end has left when Operation runs.
Depth ==
  \A p \in Outs : \A i \in Places : At(p, i) # None =>
    i < PDepth /\ (phase = "post" /\ ~stalled => i # 0)

Order == Ordered(Pipeline, made, sent, ops, 0) /\ Depth

LEMMA PipelineType ==
  ASSUME Typed
  PROVE  /\ Pipeline \in [Outs -> [Places -> Nat]]
         /\ \A p \in Outs : \A i \in Places : Pipeline[p][i] = At(p, i)
         /\ 0 \in Places /\ 1 \in Places /\ PDepth \in Places
<1>1. omsgidx \in 0..OMsgIdxMask
  BY DEF Typed
<1>2. ASSUME NEW p \in Outs, NEW i \in Places PROVE At(p, i) \in Nat
  <2>1. Slot(i) \in 0..OMsgIdxMask
    BY <1>1, Ring
  <2>2. QED
    BY <2>1 DEF At, Typed
<1>3. QED
  BY <1>2, PipeAssumption DEF Pipeline, Places

LEMMA InitOrder == Init => Order
<1> SUFFICES ASSUME Init PROVE Order
  OBVIOUS
<1>1. Typed
  BY InitInv DEF Inv
<1>2. ASSUME NEW p \in Outs, NEW i \in Places PROVE At(p, i) = None
  <2>1. Slot(i) \in 0..OMsgIdxMask
    BY <1>1, Ring DEF Typed
  <2>2. QED
    BY <2>1 DEF Init, At
<1>3. Pipeline \in [Outs -> [Places -> Nat]] /\ \A p \in Outs : \A i \in Places : Pipeline[p][i] = None
  BY <1>1, <1>2, PipelineType
<1>4. <<>> \in Seq(Nat) /\ Len(<<>>) = 0
  OBVIOUS
<1>5. \A p \in Outs : made[p] = <<>> /\ sent[p] = <<>>
  BY DEF Init
<1>6. made \in [Outs -> Seq(Nat)] /\ sent \in [Outs -> Seq(Nat)]
  BY <1>4 DEF Init
<1>7. ops = 0
  BY DEF Init
<1>8. Rows(Pipeline) /\ Numbered(Pipeline, made, ops)
  BY <1>3, <1>4, <1>5, <1>7 DEF Rows, Numbered, None
<1>9. Partition(Pipeline, made, sent) /\ Behind(Pipeline, sent, 0)
  BY <1>3, <1>4, <1>5 DEF Partition, Behind
<1>10. Depth
  BY <1>2 DEF Depth
<1>11. QED
  BY <1>3, <1>6, <1>7, <1>8, <1>9, <1>10 DEF Order, Ordered

LEMMA PreClockOrder ==
  ASSUME Inv, Order, PreClock
  PROVE  Order'
<1>1. Typed /\ Typed' /\ omsgidx' = omsgidx /\ ops' = ops /\ made' = made /\ phase' = "post"
  BY PreClockInv DEF Inv, PreClock
<1>2. \A i \in Places : Slot(i)' = Slot(i)
  BY <1>1 DEF Slot
<1>3. CASE stalled'
  <2>1. nextoutmsgs' = nextoutmsgs /\ sent' = sent
    BY <1>3 DEF PreClock
  <2>2. \A p \in Outs : \A i \in Places : At(p, i)' = At(p, i)
    BY <1>2, <2>1 DEF At
  <2>3. Pipeline' = Pipeline
    BY <2>2 DEF Pipeline
  <2>4. Depth'
    BY <1>3, <2>2 DEF Order, Depth
  <2>5. QED
    BY <1>1, <2>1, <2>3, <2>4 DEF Order
<1>4. CASE ~stalled'
  <2> DEFINE row == nextoutmsgs[omsgidx]
  <2>1. /\ AssignFrom(row, Outs)
        /\ nextoutmsgs' = [nextoutmsgs EXCEPT ![omsgidx] = Cleared(row, Outs)]
    BY <1>4 DEF PreClock
  <2>2. omsgidx \in 0..OMsgIdxMask /\ nextoutmsgs \in [0..OMsgIdxMask -> [Outs -> Nat]]
    BY <1>1 DEF Typed
  <2>3. ASSUME NEW p \in Outs, NEW i \in Places
        PROVE  /\ i = 0 => At(p, i)' = None
               /\ i # 0 => At(p, i)' = At(p, i)
    <3>1. Slot(0) = omsgidx /\ Slot(i) \in 0..OMsgIdxMask
      BY <2>2, Ring
    <3>2. i # 0 => Slot(i) # omsgidx
      BY <2>2, <3>1, Ring, PipeAssumption DEF Places
    <3>3. At(p, i)' = nextoutmsgs'[Slot(i)][p]
      BY <1>2 DEF At
    <3>4. QED
      BY <2>1, <2>2, <3>1, <3>2, <3>3 DEF At, Cleared
  <2>4. \A p \in Outs : row[p] = At(p, 0)
    BY <2>2, Ring DEF At
  <2>5. Ordered(Pipeline', made, sent', ops, 0)
    <3>1. Ordered(Pipeline, made, sent, ops, 0)
      BY DEF Order
    <3>3. /\ Pipeline \in [Outs -> [Places -> Nat]]
          /\ \A p \in Outs : \A i \in Places : Pipeline[p][i] = At(p, i)
          /\ 0 \in Places
      BY <1>1, PipelineType
    <3>2. /\ Pipeline' \in [Outs -> [Places -> Nat]]
          /\ \A p \in Outs : \A i \in Places : Pipeline'[p][i] = At(p, i)'
      <4>1. \A p \in Outs : \A i \in Places : At(p, i)' \in Nat
        BY <2>3, <3>3 DEF None
      <4>2. Pipeline' = [p \in Outs |-> [i \in Places |-> At(p, i)']]
        BY DEF Pipeline
      <4>3. QED
        BY <4>1, <4>2
    <3>4. \A p \in Outs : \A i \in Places :
            Pipeline'[p][i] = IF p \in Outs /\ i = 0 THEN None ELSE Pipeline[p][i]
      BY <2>3, <3>2, <3>3
    <3>5. sent' = [p \in Outs |-> IF p \in Outs /\ Pipeline[p][0] # None
                                  THEN Append(sent[p], Pipeline[p][0]) ELSE sent[p]]
      BY <2>1, <2>4, <3>3 DEF AssignFrom
    <3>6. \A p \in Outs : \A i \in Places : i < 0 => Pipeline[p][i] = None
      BY PipeAssumption DEF Places
    <3>7. Leaves(Pipeline, Pipeline', sent, sent', Outs, 0)
      BY <3>2, <3>4, <3>5, <3>6 DEF Leaves
    <3>8. QED
      BY <3>1, <3>3, <3>7, Leave
  <2>6. Depth'
    BY <2>3 DEF Order, Depth
  <2>7. QED
    BY <1>1, <2>5, <2>6 DEF Order
<1>5. QED
  BY <1>3, <1>4

LEMMA ActivePostClockOrder ==
  ASSUME Inv, Order, NEW out \in SUBSET Outs, NEW take, ActivePostClock(out, take)
  PROVE  Order'
<1> DEFINE filled == [nextoutmsgs EXCEPT ![Slot(PDepth)] =
                        [p \in Outs |-> IF p \in out THEN ops + 1 ELSE @[p]]]
           after == [filled EXCEPT ![AheadSlot] = Cleared(@, Direct)]
           at == [p \in Outs |-> [i \in Places |-> filled[Slot(i)][p]]]
           bt == [p \in Outs |-> [i \in Places |-> after[Slot(i)][p]]]
<1>1. /\ AssignFrom(filled[AheadSlot], Direct) /\ nextoutmsgs' = after
      /\ omsgidx' = Slot(1) /\ phase = "post" /\ ~stalled /\ phase' = "pre"
      /\ ops' = IF out = {} THEN ops ELSE ops + 1
      /\ made' = [p \in Outs |-> IF p \in out THEN Append(made[p], ops + 1) ELSE made[p]]
  BY DEF NextIdx, ActivePostClock, Direct
<1>2. Typed /\ Typed'
  BY ActivePostClockInv DEF Inv
<1>3. /\ omsgidx \in 0..OMsgIdxMask /\ ops \in Nat /\ ops' \in Nat
      /\ nextoutmsgs \in [0..OMsgIdxMask -> [Outs -> Nat]]
  BY <1>2 DEF Typed
<1>4. /\ Pipeline \in [Outs -> [Places -> Nat]]
      /\ \A p \in Outs : \A i \in Places : Pipeline[p][i] = At(p, i)
      /\ 0 \in Places /\ 1 \in Places /\ PDepth \in Places
  BY <1>2, PipelineType
<1>5. /\ \A i \in Places : Slot(i) \in 0..OMsgIdxMask
      /\ \A i, j \in Places : Slot(i) = Slot(j) => i = j
      /\ AheadSlot = Slot(1)
  BY <1>3, Ring DEF AheadSlot
<1>6. ASSUME NEW p \in Outs, NEW i \in Places
      PROVE  /\ at[p][i] = IF p \in out /\ i = PDepth THEN ops + 1 ELSE Pipeline[p][i]
             /\ filled[Slot(i)][p] \in Nat
  <2>1. Slot(i) \in 0..OMsgIdxMask /\ Slot(PDepth) \in 0..OMsgIdxMask
    BY <1>4, <1>5
  <2>2. Pipeline[p][i] = nextoutmsgs[Slot(i)][p] /\ nextoutmsgs[Slot(i)][p] \in Nat
    BY <1>3, <1>4, <2>1 DEF At
  <2>3. at[p][i] = filled[Slot(i)][p]
    OBVIOUS
  <2>4. CASE i = PDepth
    <3>1. filled[Slot(i)][p] = IF p \in out THEN ops + 1 ELSE nextoutmsgs[Slot(i)][p]
      BY <1>3, <2>1, <2>4
    <3>2. QED
      BY <1>3, <2>2, <2>3, <2>4, <3>1
  <2>5. CASE i # PDepth
    <3>1. Slot(i) # Slot(PDepth)
      BY <1>4, <1>5, <2>5
    <3>2. filled[Slot(i)][p] = nextoutmsgs[Slot(i)][p]
      BY <1>3, <2>1, <3>1
    <3>3. QED
      BY <2>2, <2>3, <2>5, <3>2
  <2>6. QED
    BY <2>4, <2>5
<1>7. at \in [Outs -> [Places -> Nat]]
  BY <1>6
<1>8. ASSUME NEW p \in Outs, NEW i \in Places
      PROVE  /\ bt[p][i] = IF p \in Direct /\ i = 1 THEN None ELSE at[p][i]
             /\ bt[p][i] \in Nat
  <2>1. Slot(i) \in 0..OMsgIdxMask /\ Slot(1) \in 0..OMsgIdxMask
    BY <1>4, <1>5
  <2>2. bt[p][i] = after[Slot(i)][p] /\ at[p][i] = filled[Slot(i)][p] /\ at[p][i] \in Nat
    BY <1>6
  <2>3. DOMAIN filled = 0..OMsgIdxMask
    BY <1>3
  <2>4. CASE i = 1
    <3>1. after[Slot(i)] = Cleared(filled[Slot(i)], Direct)
      BY <1>5, <2>1, <2>3, <2>4
    <3>2. after[Slot(i)][p] = IF p \in Direct THEN None ELSE filled[Slot(i)][p]
      BY <3>1 DEF Cleared
    <3>3. QED
      BY <2>2, <2>4, <3>2 DEF None
  <2>5. CASE i # 1
    <3>1. Slot(i) # AheadSlot
      BY <1>4, <1>5, <2>5
    <3>2. after[Slot(i)] = filled[Slot(i)]
      BY <2>1, <2>3, <3>1
    <3>3. QED
      BY <2>2, <2>5, <3>2
  <2>6. QED
    BY <2>4, <2>5
<1>9. bt \in [Outs -> [Places -> Nat]]
  BY <1>8
<1>10. ASSUME NEW p \in Outs, NEW i \in Places
       PROVE  /\ Pipeline[p][0] = None
              /\ PDepth <= i => Pipeline[p][i] = None
  BY <1>1, <1>4, PipeAssumption DEF Order, Depth, Places
<1>11. Ordered(Pipeline, made, sent, ops, 1)
  <2>1. Ordered(Pipeline, made, sent, ops, 0)
    BY DEF Order
  <2>2. Behind(Pipeline, sent, 1)
    BY <1>10, <2>1 DEF Ordered, Behind
  <2>3. QED
    BY <2>1, <2>2 DEF Ordered
<1>12. Ordered(at, made', sent, ops', 1)
  <2> HIDE DEF at
  <2>1. \A p \in Outs : \A i \in Places :
          at[p][i] = IF p \in out /\ i = PDepth THEN ops + 1 ELSE Pipeline[p][i]
    BY <1>6
  <2>2. \A p \in Outs : \A i \in Places : PDepth <= i => Pipeline[p][i] = None
    BY <1>10
  <2>3. QED
    <3>1. Fills(Pipeline, at, made, made', ops, ops', out, PDepth)
      BY <1>1, <1>3, <1>7, <2>1, <2>2 DEF Fills
    <3>2. QED
      BY <1>4, <1>11, <3>1, Fill
<1>13. Ordered(bt, made', sent', ops', 1)
  <2>1. ASSUME NEW p \in Outs, NEW i \in Places, i < 1 PROVE at[p][i] = None
    <3>1. i = 0 /\ i # PDepth
      BY <2>1, PipeAssumption DEF Places
    <3>2. QED
      BY <1>6, <1>10, <3>1
  <2>2. filled[AheadSlot] = filled[Slot(1)] /\ \A p \in Outs : at[p][1] = filled[Slot(1)][p]
    BY <1>4, <1>5
  <2>3. Direct \in SUBSET Outs
    BY DEF Direct
  <2>4. sent' = [p \in Outs |-> IF p \in Direct /\ at[p][1] # None
                                THEN Append(sent[p], at[p][1]) ELSE sent[p]]
    <3>1. sent' = [p \in Outs |-> IF p \in {q \in Direct : filled[AheadSlot][q] # None}
                                  THEN Append(sent[p], filled[AheadSlot][p]) ELSE sent[p]]
      BY <1>1 DEF AssignFrom
    <3> HIDE DEF at, filled
    <3>2. QED
      BY <2>2, <3>1
  <2> HIDE DEF at, bt, filled
  <2>5. \A p \in Outs : \A i \in Places :
          bt[p][i] = IF p \in Direct /\ i = 1 THEN None ELSE at[p][i]
    BY <1>8
  <2>6. Leaves(at, bt, sent, sent', Direct, 1)
    BY <1>9, <2>1, <2>4, <2>5 DEF Leaves
  <2>7. QED
    BY <1>4, <1>12, <2>6, Leave
<1>14. ASSUME NEW p \in Outs, NEW i \in Places
       PROVE  /\ At(p, i)' \in Nat
              /\ At(p, i)' = IF i = OMsgIdxMask THEN None ELSE bt[p][i + 1]
              /\ bt[p][0] = None
              /\ At(p, i)' # None => i < PDepth
  <2>2. Slot(i)' = Slot(i + 1)
    BY <1>1, <1>3, RingMoves
  <2>3. At(p, i)' = after[Slot(i + 1)][p]
    BY <1>1, <2>2 DEF At
  <2>4. bt[p][0] = None
    <3>1. PDepth # 0
      BY PipeAssumption
    <3>2. Pipeline[p][0] = None
      BY <1>4, <1>10
    <3>3. at[p][0] = Pipeline[p][0]
      BY <1>4, <1>6, <3>1
    <3>4. bt[p][0] = at[p][0]
      <4>1. bt[p][0] = IF p \in Direct /\ 0 = 1 THEN None ELSE at[p][0]
        BY <1>4, <1>8
      <4> HIDE DEF at, bt
      <4>2. QED
        BY <4>1
    <3>5. QED
      BY <3>2, <3>3, <3>4
  <2>5. CASE i = OMsgIdxMask
    <3>1. Slot(i + 1) = Slot(0)
      BY <1>3, <2>5, Ring
    <3>2. At(p, i)' = bt[p][0]
      BY <1>4, <2>3, <3>1
    <3>3. QED
      BY <2>4, <2>5, <3>2 DEF None
  <2>6. CASE i # OMsgIdxMask
    <3>1. i + 1 \in Places /\ i \in Nat
      BY <2>6, PipeAssumption DEF Places
    <3>2. At(p, i)' = bt[p][i + 1]
      BY <2>3, <3>1
    <3>3. bt[p][i + 1] # None => i + 1 <= PDepth
      <4>1. CASE i + 1 = PDepth
        BY <3>1, <4>1, PipeAssumption
      <4>2. CASE i + 1 # PDepth
        <5>1. bt[p][i + 1] # None => Pipeline[p][i + 1] # None
          BY <1>6, <1>8, <3>1, <4>2
        <5>2. QED
          BY <1>10, <3>1, <5>1, PipeAssumption
      <4>3. QED
        BY <4>1, <4>2
    <3>4. bt[p][i + 1] \in Nat
      BY <1>8, <3>1
    <3>5. QED
      BY <2>4, <2>6, <3>1, <3>2, <3>3, <3>4, PipeAssumption
  <2>7. QED
    BY <2>5, <2>6
<1>15. Ordered(Pipeline', made', sent', ops', 0)
  <2> HIDE DEF at, bt, filled, after
  <2>1. Pipeline' = [p \in Outs |-> [i \in Places |-> At(p, i)']]
    BY DEF Pipeline
  <2>2. Moves(bt, Pipeline')
    BY <1>4, <1>14, <2>1 DEF Moves
  <2>3. QED
    BY <1>13, <2>2, Shift
<1>16. Depth'
  BY <1>1, <1>14 DEF Depth
<1>17. QED
  BY <1>15, <1>16 DEF Order

LEMMA StepOrder ==
  ASSUME Inv, Order, [Next]_vars
  PROVE  Order'
<1>1. CASE PreClock
  BY <1>1, PreClockOrder
<1>2. ASSUME NEW out \in SUBSET Outs,
             NEW take \in SUBSET {i \in Plains : Peeked[i] # None},
             ActivePostClock(out, take)
      PROVE  Order'
  BY <1>2, ActivePostClockOrder
<1>3. CASE \/ StalledPostClock \/ UNCHANGED vars
           \/ (\E i \in Ins : Deliver(i)) \/ \E p \in Outs : Drain(p) \/ Select(p)
  <2>1. /\ UNCHANGED <<omsgidx, nextoutmsgs, made, sent, ops>>
        /\ phase' = "post" /\ ~stalled' => phase = "post" /\ ~stalled
    BY <1>3 DEF StalledPostClock, Deliver, Drain, Select, vars, pipe, history
  <2>2. \A p \in Outs : \A i \in Places : At(p, i)' = At(p, i)
    BY <2>1 DEF At, Slot
  <2>3. Pipeline' = Pipeline
    BY <2>2 DEF Pipeline
  <2>4. Depth'
    BY <2>1, <2>2 DEF Order, Depth
  <2>5. QED
    BY <2>1, <2>3, <2>4 DEF Order
<1>4. QED
  BY <1>1, <1>2, <1>3 DEF Next, PostClock

LEMMA Invariance == Spec => [](Inv /\ Order)
<1>1. Inv /\ Order /\ [Next]_vars => Inv' /\ Order'
  BY StepInv, StepOrder
<1>2. QED
  BY InitInv, InitOrder, <1>1, PTL DEF Spec

LEMMA OrderOutputs == Inv /\ Order => OutputsInOrder
<1> SUFFICES ASSUME Inv, Order, NEW p \in Outs
             PROVE  /\ Len(sent[p]) <= Len(made[p])
                    /\ \A k \in 1..Len(sent[p]) : sent[p][k] = made[p][k]
                    /\ {made[p][k] : k \in (Len(sent[p]) + 1)..Len(made[p])} = InPipe(p)
                    /\ \A i, j \in Places :
                         i < j /\ At(p, i) # None /\ At(p, j) # None => At(p, i) < At(p, j)
  BY DEF OutputsInOrder
<1>1. \A i \in Places : Pipeline[p][i] = At(p, i)
  BY PipelineType DEF Inv
<1>2. /\ Partition(Pipeline, made, sent) /\ Rows(Pipeline) /\ Numbered(Pipeline, made, ops)
      /\ Len(sent[p]) \in Nat /\ Len(made[p]) \in Nat
  BY DEF Order, Ordered
<1>3. \A k : k \in (Len(sent[p]) + 1)..Len(made[p]) <=> k \in 1..Len(made[p]) /\ Len(sent[p]) < k
  BY <1>2
<1>4. ASSUME NEW k \in (Len(sent[p]) + 1)..Len(made[p]) PROVE made[p][k] \in InPipe(p)
  <2>1. k \in 1..Len(made[p]) /\ Len(sent[p]) < k
    BY <1>3
  <2>2. PICK i \in Places : Pipeline[p][i] = made[p][k]
    BY <1>2, <2>1 DEF Partition
  <2>3. made[p][k] # None
    BY <1>2, <2>1 DEF Numbered
  <2>4. QED
    BY <1>1, <2>2, <2>3 DEF InPipe
<1>5. ASSUME NEW o \in InPipe(p)
      PROVE  \E k \in (Len(sent[p]) + 1)..Len(made[p]) : o = made[p][k]
  <2>1. PICK i \in Places : o = At(p, i) /\ At(p, i) # None
    BY DEF InPipe
  <2>2. PICK k \in 1..Len(made[p]) : Len(sent[p]) < k /\ Pipeline[p][i] = made[p][k]
    BY <1>1, <1>2, <2>1 DEF Partition
  <2>3. QED
    BY <1>1, <1>3, <2>1, <2>2
<1>6. {made[p][k] : k \in (Len(sent[p]) + 1)..Len(made[p])} = InPipe(p)
  BY <1>4, <1>5
<1>7. Len(sent[p]) <= Len(made[p]) /\ \A k \in 1..Len(sent[p]) : sent[p][k] = made[p][k]
  BY <1>2 DEF Partition
<1>8. \A i, j \in Places :
        i < j /\ At(p, i) # None /\ At(p, j) # None => At(p, i) < At(p, j)
  BY <1>1, <1>2 DEF Rows
<1>9. QED
  BY <1>6, <1>7, <1>8

LEMMA OrderTogether == Inv /\ Order => LeaveTogether
<1> SUFFICES ASSUME Inv, Order, NEW p \in Outs, NEW q \in Outs
             PROVE  Cardinality({k \in InPipe(q) : \E n \in DOMAIN sent[p] : sent[p][n] = k})
                      <= IF OutCap[p] = 0 /\ OutCap[q] # 0 THEN 1 ELSE 0
  BY DEF LeaveTogether
<1> DEFINE split == {k \in InPipe(q) : \E n \in DOMAIN sent[p] : sent[p][n] = k}
           allowed == p \in Direct /\ q \notin Direct
<1>1. \A i \in Places : Pipeline[q][i] = At(q, i) /\ Pipeline[q][i] \in Nat
  BY PipelineType DEF Inv
<1>2. Behind(Pipeline, sent, 0) /\ sent[p] \in Seq(Nat)
  BY DEF Order, Ordered
<1>3. ASSUME NEW k \in split PROVE allowed /\ k = At(q, 0)
  <2>1. PICK i \in Places : k = At(q, i) /\ At(q, i) # None
    BY DEF InPipe
  <2>2. PICK n \in 1..Len(sent[p]) : sent[p][n] = k
    BY <1>2
  <2>3. ~(sent[p][n] < At(q, i))
    BY <1>1, <2>1, <2>2
  <2>4. QED
    BY <1>1, <1>2, <2>1, <2>2, <2>3 DEF Behind
<1>4. allowed <=> OutCap[p] = 0 /\ OutCap[q] # 0
  BY DEF Direct
<1>5. CASE allowed
  <2>1. split \subseteq {At(q, 0)}
    BY <1>3
  <2>2. IsFiniteSet({At(q, 0)}) /\ Cardinality({At(q, 0)}) = 1
    BY FS_Singleton
  <2>3. Cardinality(split) <= 1
    BY <2>1, <2>2, FS_Subset
  <2>4. QED
    BY <1>4, <1>5, <2>3
<1>6. CASE ~allowed
  <2>1. split = {}
    BY <1>3, <1>6
  <2>2. Cardinality(split) = 0
    BY <2>1, FS_EmptySet
  <2>3. QED
    BY <1>4, <1>6, <2>2
<1>7. QED
  BY <1>5, <1>6

\* What a module has assigned to a port is what its Operations wrote first, in
\* that order and each once, and the rest is on its way in that order, for every
\* depth of the pipeline and every pattern of stalls: no slot of the pipeline is
\* reused before its outputs have left, skipped or assigned twice.
THEOREM OutputsLeaveInOrder == Spec => []OutputsInOrder
BY Invariance, OrderOutputs, PTL

\* The outputs of one Operation leave the pipeline together; only a capacity-0
\* output leaves ahead of the queued ones, by one Operation at the most.
THEOREM OutputsLeaveTogether == Spec => []LeaveTogether
BY Invariance, OrderTogether, PTL
===============================================================================
