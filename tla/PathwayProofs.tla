---------------------------- MODULE PathwayProofs ----------------------------
(***************************************************************************)
(* Proofs about Pathway and TogglePathway, for every number of endpoints,  *)
(* every capacity the validator accepts, every latency and every transfer  *)
(* length.                                                                 *)
(***************************************************************************)
EXTENDS TogglePathway, SequenceTheorems

(* Arithmetic of the ring. *)

LEMMA SlotInRing ==
  ASSUME curidx \in 0..PropIdxMask, NEW i \in 0..(PropIdxMask + 1)
  PROVE  Slot(i) \in 0..PropIdxMask
BY ConnectionAssumption DEF Slot, RingSize

\* Distinct distances from the far end are distinct slots.
LEMMA SlotInjective ==
  ASSUME curidx \in 0..PropIdxMask,
         NEW i \in 0..PropIdxMask, NEW j \in 0..PropIdxMask, Slot(i) = Slot(j)
  PROVE  i = j
BY ConnectionAssumption DEF Slot, RingSize

LEMMA SlotZero ==
  ASSUME curidx \in 0..PropIdxMask
  PROVE  Slot(0) = curidx /\ Slot(PropIdxMask + 1) = curidx
BY ConnectionAssumption DEF Slot, RingSize

\* One step of the wire brings every slot one place nearer the far end.
LEMMA SlotStep ==
  ASSUME curidx \in 0..PropIdxMask, curidx' = Slot(1), NEW i \in 0..PropIdxMask
  PROVE  Slot(i)' = Slot(i + 1)
BY ConnectionAssumption DEF Slot, RingSize

-----------------------------------------------------------------------------
(* Type correctness *)

LEMMA IssuedType ==
  ASSUME TypeOK
  PROVE  /\ TargetMsg \in Msgs \union {NoMsg}
         /\ Issued \in Msgs \union {NoMsg}
         /\ Issued # NoMsg => /\ stabilize_cycle = 0 /\ wait_cycles = 0
                              /\ lq[lhsid] # <<>> /\ Issued = Head(lq[lhsid])
                              /\ IsReady(NextReadyMask, Issued)
         /\ LHSAfter \in [LHS -> Seq(Msgs)]
         /\ Flowed \in [0..PropIdxMask -> Msgs \union {NoMsg}]
<1>1. TargetMsg \in Msgs \union {NoMsg}
  BY DEF TypeOK, TargetMsg
<1>2. Issued \in Msgs \union {NoMsg}
  BY <1>1 DEF Issued
<1>3. Issued # NoMsg => /\ stabilize_cycle = 0 /\ wait_cycles = 0
                        /\ lq[lhsid] # <<>> /\ Issued = Head(lq[lhsid])
                        /\ IsReady(NextReadyMask, Issued)
  BY DEF Issued, TargetMsg
<1>4. LHSAfter \in [LHS -> Seq(Msgs)]
  BY <1>3 DEF LHSAfter, TypeOK
<1>5. Flowed \in [0..PropIdxMask -> Msgs \union {NoMsg}]
  BY <1>2 DEF Flowed, TypeOK
<1>6. QED  BY <1>1, <1>2, <1>3, <1>4, <1>5

LEMMA AssignedType ==
  ASSUME NEW q \in Seq(Msgs), NEW cap \in Nat, NEW m \in Msgs
  PROVE  Assigned(q, cap, m) \in Seq(Msgs)
BY DEF Assigned, Accepts, Kept

LEMMA DestsType ==
  ASSUME NEW m \in Msgs \union {NoMsg}
  PROVE  Dests(m) \subseteq RHS /\ (Dests(m) # {} => m \in Msgs)
BY MessageAssumption DEF Dests

LEMMA SetTargetType ==
  ASSUME TypeOK, NEW next \in LHS, SetTarget(next)
  PROVE  /\ lhsid' \in LHS
         /\ stabilize_cycle' \in 0..Latency
         /\ selected' \in [LHS -> BOOLEAN]
<1>1. Settled \in 0..Latency
  BY ConnectionAssumption DEF Settled, TypeOK
<1>2. Marked \in [LHS -> BOOLEAN]
  BY DEF Marked, TypeOK
<1>3. /\ lhsid' \in LHS
      /\ stabilize_cycle' \in 0..Latency
  BY <1>1, ConnectionAssumption DEF SetTarget
<1>4. selected' \in [LHS -> BOOLEAN]
  <2>1. CASE next = lhsid
    BY <2>1, <1>2 DEF SetTarget
  <2>2. CASE next # lhsid
    <3>1. selected' = [l \in LHS |-> /\ l # lhsid
                                     /\ Marked[l] \/ (l = next /\ Latency = 0)]
      BY <2>2 DEF SetTarget
    <3>2. QED  BY <3>1, Zenon
  <2>3. QED  BY <2>1, <2>2
<1>5. QED  BY <1>3, <1>4

LEMMA InitType == Init => TypeOK
<1> SUFFICES ASSUME Init PROVE TypeOK
  OBVIOUS
<1>1. selected \in [LHS -> BOOLEAN] /\ lq \in [LHS -> Seq(Msgs)]
  BY DEF Init
<1>2. /\ rhsreadymask \in [Bits -> BOOLEAN]
      /\ rhsreadymask_ext \in [Bits -> BOOLEAN]
  BY DEF Init
<1>3. lhsid \in LHS /\ curidx \in 0..PropIdxMask /\ stabilize_cycle \in 0..Latency
  BY EndpointAssumption, ConnectionAssumption DEF Init, LHS
<1>4. msgprop \in [0..PropIdxMask -> Msgs \union {NoMsg}] /\ rq \in [RHS -> Seq(Msgs)]
  BY DEF Init
<1>5. wait_cycles \in 0..CyclesPerMsg /\ phase \in {"pre", "post"}
  BY ConnectionAssumption DEF Init
<1>6. dropped \in BOOLEAN
  BY DEF Init
<1>7. QED  BY <1>1, <1>2, <1>3, <1>4, <1>5, <1>6 DEF TypeOK

LEMMA NextType == TypeOK /\ [Next]_vars => TypeOK'
<1> SUFFICES ASSUME TypeOK, [Next]_vars PROVE TypeOK'
  OBVIOUS
<1>1. CASE PreClock
  <2>1. Sampled \in Msgs \union {NoMsg}
    BY DEF Sampled, TypeOK
  <2>2. rq' \in [RHS -> Seq(Msgs)]
    BY <1>1, <2>1, AssignedType, DestsType, EndpointAssumption DEF PreClock, TypeOK
  <2>3. dropped' \in BOOLEAN
    BY <1>1 DEF PreClock, TypeOK
  <2>4. QED  BY <1>1, <2>2, <2>3 DEF PreClock, TypeOK
<1>2. CASE PostClock
  <2>1. Slot(1) \in 0..PropIdxMask
    BY SlotInRing, ConnectionAssumption DEF TypeOK
  <2>2. Flowed \in [0..PropIdxMask -> Msgs \union {NoMsg}]
    BY IssuedType
  <2>3. Flowed[Slot(1)] \in Msgs \union {NoMsg}
    BY <2>1, <2>2
  <2>4. msgprop' \in [0..PropIdxMask -> Msgs \union {NoMsg}]
    BY <1>2, <2>2 DEF PostClock
  <2>5. rq' \in [RHS -> Seq(Msgs)]
    BY <1>2, <2>3, AssignedType, DestsType DEF PostClock, TypeOK
  <2>6. wait_cycles' \in 0..CyclesPerMsg
    BY <1>2, ConnectionAssumption DEF PostClock, TypeOK
  <2>7. rhsreadymask' \in [Bits -> BOOLEAN]
    <3>1. \A r : HasRoom(r) \in BOOLEAN
      BY DEF HasRoom
    <3>2. \A b \in Bits : rhsreadymask[b] \in BOOLEAN
      BY DEF TypeOK
    <3>3. NextReadyMask \in [Bits -> BOOLEAN]
      BY <3>1, <3>2, Zenon DEF NextReadyMask
    <3>4. QED  BY <1>2, <3>3 DEF PostClock
  <2>8. lhsid' \in LHS /\ stabilize_cycle' \in 0..Latency /\ selected' \in [LHS -> BOOLEAN]
    BY <1>2, SetTargetType DEF PostClock
  <2>9. dropped' \in BOOLEAN /\ lq' \in [LHS -> Seq(Msgs)]
    BY <1>2, IssuedType DEF PostClock, TypeOK
  <2>10. QED  BY <1>2, <2>1, <2>4, <2>5, <2>6, <2>7, <2>8, <2>9 DEF PostClock, TypeOK
<1>3. CASE \E m \in Msgs : LHSAssign(Src[m], m)
  <2> PICK m \in Msgs : LHSAssign(Src[m], m)
    BY <1>3
  <2>1. lq' \in [LHS -> Seq(Msgs)]
    BY AssignedType, EndpointAssumption, MessageAssumption DEF LHSAssign, TypeOK
  <2>2. QED  BY <2>1 DEF LHSAssign, TypeOK
<1>4. CASE \E r \in RHS : RHSPop(r)
  BY <1>4 DEF RHSPop, TypeOK
<1>5. CASE \E r \in GatedRHS, state \in BOOLEAN : SetExtReadyState(r, state)
  BY <1>5 DEF SetExtReadyState, TypeOK
<1>6. CASE UNCHANGED vars
  BY <1>6 DEF vars, TypeOK
<1>7. QED  BY <1>1, <1>2, <1>3, <1>4, <1>5, <1>6 DEF Next

\* Every variable keeps its type.
THEOREM TypeCorrect == Spec => []TypeOK
BY InitType, NextType, PTL DEF Spec
-----------------------------------------------------------------------------
(* No message is dropped *)

\* The devices behind capacity-0 right-hand sides have run since PostClock.
DevicesServed ==
  phase = "post" => \A r \in RHS : RHSCap[r] = 0 => rq[r] = <<>>

RoomInv == TypeOK /\ NoDrop /\ RoomForInFlight /\ NoGhosts /\ DevicesServed

\* A bit of the mask belongs to one RHS as long as no id is beyond the reach
\* of the shift, so a message is issued only if all its readers have room.
LEMMA ReadyMeansRoom ==
  ASSUME TypeOK, MsgType = "PLAIN", NumRHS <= MaskBits,
         NEW m \in Msgs, IsReady(NextReadyMask, m),
         NEW r \in Dests(m), RHSCap[r] # 0
  PROVE  HasRoom(r)
<1>1. r \in RHS
  BY DestsType
<1>2. \A s \in RHS : BitOf(s) = s /\ s \in Bits
  BY EndpointAssumption, ConnectionAssumption DEF BitOf, RHS, Bits
<1>3. NextReadyMask[r]
  <2>1. CASE Dest[m] = Broadcast
    BY <2>1, <1>1, <1>2 DEF IsReady
  <2>2. CASE Dest[m] # Broadcast
    BY <2>2, <1>1, <1>2, MessageAssumption DEF IsReady, Dests
  <2>3. QED  BY <2>1, <2>2
<1>4. {s \in RHS : BitOf(s) = r /\ RHSCap[s] # 0} = {r}
  BY <1>1, <1>2
<1>5. (CHOOSE s \in {r} : \A t \in {r} : t <= s) = r
  BY <1>1 DEF RHS
<1>6. NextReadyMask[r] = HasRoom(r)
  BY <1>1, <1>2, <1>4, <1>5 DEF NextReadyMask
<1>7. QED  BY <1>3, <1>6

\* PostClock takes a message off the wire exactly when all its readers have got
\* it, if `processed' starts with a bit to set for every reader; or if none of
\* them, or all, are served ahead of time.
MaskFits ==
  \/ NumRHS < MaskBits
  \/ NumRHS = MaskBits /\ \A r, s \in RHS : RHSCap[r] = 0 <=> RHSCap[s] = 0

LEMMA MaskReaches == MaskFits => NumRHS <= MaskBits
BY EndpointAssumption, ConnectionAssumption DEF MaskFits

\* The devices take what they are given ahead of time.
AheadAccepted == \A r \in RHS : RHSCap[r] = 0 => Accepts(rq[r], 0)

LEMMA NullifiedIsServed ==
  ASSUME MaskFits, AheadAccepted, NEW m \in Msgs \union {NoMsg}
  PROVE  LET ahead == {r \in Dests(m) : RHSCap[r] = 0}
         IN Nullified(m, ahead) <=> ahead # {} /\ ahead = Dests(m)
<1> DEFINE ahead == {r \in Dests(m) : RHSCap[r] = 0}
<1> SUFFICES Nullified(m, ahead) <=> ahead # {} /\ ahead = Dests(m)
  OBVIOUS
<1>1. Dests(m) \subseteq RHS /\ (Dests(m) # {} => m \in Msgs)
  BY DestsType
<1>2. {r \in ahead : Accepts(rq[r], 0)} = ahead
  BY <1>1 DEF AheadAccepted
<1>3. CASE ahead = {}
  BY <1>3 DEF Nullified
<1>4. CASE ahead # {} /\ Dest[m] # Broadcast
  BY <1>1, <1>4 DEF Nullified, Dests
<1>5. CASE ahead # {} /\ Dest[m] = Broadcast
  <2>1. Dests(m) = RHS
    BY <1>1, <1>5 DEF Dests
  <2>2. Nullified(m, ahead) <=> AllProcessed(ahead)
    BY <1>2, <1>5 DEF Nullified
  <2>3. CASE NumRHS < MaskBits
    <3>1. NumRHS % MaskBits = NumRHS /\ \A r \in RHS : BitOf(r) = r
      BY <2>3, EndpointAssumption, ConnectionAssumption DEF BitOf, RHS
    <3>2. AllProcessed(ahead) <=> \A b \in RHS : \E r \in ahead : r = b
      BY <2>1, <3>1 DEF AllProcessed, RHS
    <3> QED  BY <1>5, <2>1, <2>2, <3>2
  <2>4. CASE NumRHS = MaskBits /\ \A r, s \in RHS : RHSCap[r] = 0 <=> RHSCap[s] = 0
    <3>1. NumRHS % MaskBits = 0
      BY <2>4, EndpointAssumption
    <3>2. AllProcessed(ahead)
      BY <3>1 DEF AllProcessed
    <3>3. ahead = RHS
      BY <1>5, <2>1, <2>4
    <3> QED  BY <1>5, <2>1, <2>2, <3>2, <3>3
  <2> QED  BY <2>3, <2>4 DEF MaskFits
<1> QED  BY <1>3, <1>4, <1>5

\* What the wire holds after one step: the message issued at its near end, and
\* everything else one place further.
LEMMA FlowedAt ==
  ASSUME TypeOK, NEW i \in 0..PropIdxMask
  PROVE  /\ i = Latency /\ Issued # NoMsg => Flowed[Slot(i + 1)] = Issued
         /\ i # Latency \/ Issued = NoMsg =>
              Flowed[Slot(i + 1)] = IF i = PropIdxMask THEN NoMsg
                                                      ELSE msgprop[Slot(i + 1)]
<1>1. curidx \in 0..PropIdxMask /\ msgprop \in [0..PropIdxMask -> Msgs \union {NoMsg}]
  BY DEF TypeOK
<1>2. Slot(i + 1) \in 0..PropIdxMask /\ Slot(Latency + 1) \in 0..PropIdxMask
  BY <1>1, SlotInRing, ConnectionAssumption
<1>3. Slot(0) = curidx /\ Slot(PropIdxMask + 1) = curidx
  BY <1>1, SlotZero
<1>4. i # PropIdxMask => Slot(i + 1) # curidx
  BY <1>1, <1>3, SlotInjective, ConnectionAssumption
<1>5. i # Latency => Slot(i + 1) # Slot(Latency + 1)
  <2>1. CASE i # PropIdxMask /\ Latency # PropIdxMask
    BY <2>1, <1>1, SlotInjective, ConnectionAssumption
  <2>2. CASE i = PropIdxMask /\ Latency # PropIdxMask
    BY <2>2, <1>1, <1>3, SlotInjective, ConnectionAssumption
  <2>3. CASE i # PropIdxMask /\ Latency = PropIdxMask
    BY <2>3, <1>3, <1>4
  <2>4. QED  BY <2>1, <2>2, <2>3
<1>6. Slot(1 + Latency) = Slot(Latency + 1)
  BY ConnectionAssumption DEF Slot
<1>7. QED  BY <1>1, <1>2, <1>3, <1>4, <1>5, <1>6 DEF Flowed

LEMMA GhostInit ==
  ASSUME Init
  PROVE  NoGhosts /\ \A i \in 0..PropIdxMask : msgprop[Slot(i)] = NoMsg
<1>1. \A i \in 0..PropIdxMask : msgprop[Slot(i)] = NoMsg
  BY InitType, SlotInRing, ConnectionAssumption DEF Init, TypeOK
<1>2. QED  BY <1>1, ConnectionAssumption DEF NoGhosts

LEMMA GhostPostClock ==
  ASSUME TypeOK, NoGhosts, PostClock
  PROVE  /\ NoGhosts'
         /\ \A i \in 0..PropIdxMask :
              /\ Slot(i)' = Slot(i + 1)
              /\ \/ msgprop'[Slot(i + 1)] = Flowed[Slot(i + 1)]
                 \/ msgprop'[Slot(i + 1)] = NoMsg
<1>1. curidx \in 0..PropIdxMask
  BY DEF TypeOK
<1>2. \A i \in 0..PropIdxMask : Slot(i)' = Slot(i + 1)
  BY <1>1, SlotStep DEF PostClock
<1>3. \A i \in 0..PropIdxMask :
        msgprop'[Slot(i + 1)] = Flowed[Slot(i + 1)] \/ msgprop'[Slot(i + 1)] = NoMsg
  BY <1>1, SlotInRing, IssuedType, ConnectionAssumption DEF PostClock
<1>4. NoGhosts'
  <2> SUFFICES ASSUME NEW i \in (Latency + 1)..PropIdxMask
               PROVE  msgprop'[Slot(i + 1)] = NoMsg
    BY <1>2, ConnectionAssumption DEF NoGhosts
  <2>1. Flowed[Slot(i + 1)] = IF i = PropIdxMask THEN NoMsg ELSE msgprop[Slot(i + 1)]
    BY FlowedAt, ConnectionAssumption
  <2>2. i # PropIdxMask => msgprop[Slot(i + 1)] = NoMsg
    BY ConnectionAssumption DEF NoGhosts
  <2>3. QED  BY <2>1, <2>2, <1>3, ConnectionAssumption
<1>5. QED  BY <1>2, <1>3, <1>4

LEMMA RoomInit == Init => RoomInv
<1> SUFFICES ASSUME Init PROVE RoomInv
  OBVIOUS
<1>1. TypeOK
  BY InitType
<1>2. NoDrop /\ DevicesServed
  BY DEF Init, NoDrop, DevicesServed
<1>3. NoGhosts /\ \A i \in 0..PropIdxMask : msgprop[Slot(i)] = NoMsg
  BY GhostInit
<1>5. RoomForInFlight
  BY <1>3, EndpointAssumption, ConnectionAssumption
     DEF RoomForInFlight, Init, InFlightIdx, FirstInFlight, Dests
<1>6. QED  BY <1>1, <1>2, <1>3, <1>5 DEF RoomInv
\* The far end delivers: each reader had room for this message and keeps room
\* for those behind it.
LEMMA RoomPreClock ==
  ASSUME MsgType = "PLAIN", RoomInv, PreClock
  PROVE  NoDrop' /\ RoomForInFlight' /\ NoGhosts' /\ DevicesServed'
<1> DEFINE dests == {r \in Dests(Sampled) : RHSCap[r] # 0}
<1>1. TypeOK /\ curidx \in 0..PropIdxMask
  BY DEF RoomInv, TypeOK
<1>2. \A i \in 0..(PropIdxMask + 1) : Slot(i)' = Slot(i)
  BY DEF PreClock, Slot
<1>3. dests \subseteq RHS /\ Sampled = msgprop[Slot(0)]
  BY <1>1, SlotZero, DestsType DEF Sampled, TypeOK
<1>4. \A r \in dests : Len(rq[r]) + 1 <= RHSCap[r]
  BY <1>3, ConnectionAssumption
     DEF RoomInv, RoomForInFlight, InFlightIdx, FirstInFlight, PreClock
<1>5. \A r \in dests : Accepts(rq[r], RHSCap[r]) /\ rq'[r] = Append(rq[r], Sampled)
  BY <1>1, <1>3, <1>4, EndpointAssumption DEF PreClock, Accepts, Assigned, Kept, TypeOK
<1>6. NoDrop'
  BY <1>5 DEF RoomInv, NoDrop, PreClock
<1>7. \A r \in RHS \ dests : rq'[r] = rq[r]
  BY DEF PreClock
<1>8. RoomForInFlight'
  <2> SUFFICES ASSUME NEW r \in RHS, RHSCap[r] # 0
               PROVE  /\ Len(rq'[r]) <= RHSCap[r]
                      /\ \A i \in 1..Latency : r \in Dests(msgprop[Slot(i)]) =>
                            Len(rq'[r]) + (i - 1) + 1 <= RHSCap[r]
    BY <1>2, ConnectionAssumption DEF PreClock, RoomForInFlight, InFlightIdx, FirstInFlight, Dests
  <2>1. /\ Len(rq[r]) <= RHSCap[r]
        /\ \A i \in 0..Latency : r \in Dests(msgprop[Slot(i)]) =>
              Len(rq[r]) + i + 1 <= RHSCap[r]
    BY DEF RoomInv, RoomForInFlight, InFlightIdx, FirstInFlight, PreClock
  <2>2. Len(rq[r]) \in Nat /\ RHSCap[r] \in Nat
    BY <1>1, EndpointAssumption DEF TypeOK
  <2>3. CASE r \in dests
    <3>1. Len(rq'[r]) = Len(rq[r]) + 1
      BY <2>3, <1>1, <1>5, <1>3, DestsType DEF TypeOK
    <3>2. QED  BY <3>1, <2>1, <2>2, <2>3, <1>4, ConnectionAssumption
  <2>4. CASE r \notin dests
    BY <2>4, <1>7, <2>1, <2>2, ConnectionAssumption
  <2>5. QED  BY <2>3, <2>4
<1>9. NoGhosts'
  BY <1>2, ConnectionAssumption DEF RoomInv, NoGhosts, PreClock
<1>10. DevicesServed'
  BY <1>7 DEF DevicesServed, PreClock
<1>11. QED  BY <1>6, <1>8, <1>9, <1>10

\* A message is issued only to readers that have room for it and for all that
\* is on the wire; what was on the wire keeps its claim.
LEMMA RoomPostClock ==
  ASSUME MsgType = "PLAIN", NumRHS <= MaskBits, RoomInv, PostClock
  PROVE  NoDrop' /\ RoomForInFlight' /\ NoGhosts' /\ DevicesServed'
<1>1. TypeOK /\ curidx \in 0..PropIdxMask
  BY DEF RoomInv, TypeOK
<1>2. /\ NoGhosts'
      /\ \A i \in 0..PropIdxMask : Slot(i)' = Slot(i + 1)
  BY GhostPostClock DEF RoomInv
<1>3. \A i \in 0..PropIdxMask :
        msgprop'[Slot(i + 1)] = Flowed[Slot(i + 1)] \/ msgprop'[Slot(i + 1)] = NoMsg
  BY GhostPostClock DEF RoomInv
<1>4. \A r \in RHS : RHSCap[r] # 0 => rq'[r] = rq[r]
  BY DEF PostClock
<1>5. NoDrop'
  <2>1. \A r \in RHS : RHSCap[r] = 0 => Accepts(rq[r], 0)
    BY DEF RoomInv, DevicesServed, PostClock, Accepts, Kept
  <2>2. Dests(Flowed[Slot(1)]) \subseteq RHS
    BY <1>1, SlotInRing, IssuedType, DestsType, ConnectionAssumption
  <2>3. QED  BY <2>1, <2>2 DEF RoomInv, NoDrop, PostClock
<1>6. RoomForInFlight'
  <2> SUFFICES ASSUME NEW r \in RHS, RHSCap[r] # 0
               PROVE  /\ Len(rq[r]) <= RHSCap[r]
                      /\ \A i \in 0..Latency : r \in Dests(msgprop'[Slot(i + 1)]) =>
                            Len(rq[r]) + i + 1 <= RHSCap[r]
    <3>1. RoomForInFlight' <=>
            \A r \in RHS : RHSCap[r] # 0 =>
              /\ Len(rq'[r]) <= RHSCap[r]
              /\ \A i \in 0..Latency : r \in Dests(msgprop'[Slot(i)']) =>
                    Len(rq'[r]) + (i - 0) + 1 <= RHSCap[r]
      BY DEF PostClock, RoomForInFlight, InFlightIdx, FirstInFlight, Dests
    <3>2. \A i \in 0..Latency : i \in 0..PropIdxMask /\ i - 0 = i
      BY ConnectionAssumption
    <3>3. QED  BY <3>1, <3>2, <1>2, <1>4
  <2>1. /\ Len(rq[r]) <= RHSCap[r]
        /\ \A i \in 1..Latency : r \in Dests(msgprop[Slot(i)]) =>
              Len(rq[r]) + (i - 1) + 1 <= RHSCap[r]
    BY DEF RoomInv, RoomForInFlight, InFlightIdx, FirstInFlight, PostClock
  <2>2. Len(rq[r]) \in Nat /\ RHSCap[r] \in Nat
    BY <1>1, EndpointAssumption DEF TypeOK
  <2> SUFFICES ASSUME NEW i \in 0..Latency, r \in Dests(msgprop'[Slot(i + 1)])
               PROVE  Len(rq[r]) + i + 1 <= RHSCap[r]
    BY <2>1
  <2>3. i \in 0..PropIdxMask /\ r \in Dests(Flowed[Slot(i + 1)])
    BY <1>3, ConnectionAssumption DEF Dests
  <2>4. CASE i = Latency /\ Issued # NoMsg
    <3>1. r \in Dests(Issued) /\ Issued \in Msgs /\ IsReady(NextReadyMask, Issued)
      BY <2>3, <2>4, <1>1, FlowedAt, IssuedType
    <3>2. HasRoom(r)
      BY <3>1, <1>1, ReadyMeansRoom
    <3>3. QED  BY <3>2, <2>2, <2>4, ConnectionAssumption DEF HasRoom
  <2>5. CASE i # Latency \/ Issued = NoMsg
    <3>1. i # PropIdxMask /\ r \in Dests(msgprop[Slot(i + 1)])
      BY <2>3, <2>5, <1>1, FlowedAt DEF Dests
    <3>2. i # Latency
      BY <3>1, <2>3, ConnectionAssumption DEF RoomInv, NoGhosts, Dests
    <3>3. QED  BY <3>1, <3>2, <2>1, <2>2, ConnectionAssumption
  <2>6. QED  BY <2>4, <2>5
<1>8. DevicesServed'
  BY DEF DevicesServed, PostClock
<1>9. QED  BY <1>2, <1>5, <1>6, <1>8

LEMMA RoomNext ==
  ASSUME MsgType = "PLAIN", NumRHS <= MaskBits, RoomInv, [Next]_vars
  PROVE  RoomInv'
<1>1. TypeOK'
  BY NextType DEF RoomInv
<1>2. NoDrop' /\ RoomForInFlight' /\ NoGhosts' /\ DevicesServed'
  <2>1. CASE PreClock
    BY <2>1, RoomPreClock
  <2>2. CASE PostClock
    BY <2>2, RoomPostClock
  <2>3. CASE \E m \in Msgs : LHSAssign(Src[m], m)
    <3>1. UNCHANGED <<phase, rq, msgprop, curidx, dropped>>
      BY <2>3 DEF LHSAssign
    <3>2. QED
      BY <3>1 DEF RoomInv, NoDrop, RoomForInFlight, NoGhosts, DevicesServed,
                  InFlightIdx, FirstInFlight, Slot, Dests
  <2>4. CASE \E r \in RHS : RHSPop(r)
    <3> PICK s \in RHS : RHSPop(s)
      BY <2>4
    <3>1. \A r \in RHS : /\ Len(rq'[r]) \in Nat /\ Len(rq[r]) \in Nat
                         /\ Len(rq'[r]) <= Len(rq[r])
                         /\ rq[r] = <<>> => rq'[r] = <<>>
      BY DEF RHSPop, RoomInv, TypeOK
    <3>2. RoomForInFlight'
      <4> SUFFICES ASSUME NEW r \in RHS, RHSCap[r] # 0
                   PROVE  /\ Len(rq'[r]) <= RHSCap[r]
                          /\ \A i \in InFlightIdx : r \in Dests(msgprop[Slot(i)]) =>
                                Len(rq'[r]) + (i - FirstInFlight) + 1 <= RHSCap[r]
        BY DEF RHSPop, RoomForInFlight, InFlightIdx, FirstInFlight, Slot, Dests
      <4>1. RHSCap[r] \in Nat /\ FirstInFlight \in Nat
        BY EndpointAssumption DEF FirstInFlight
      <4>2. QED
        BY <3>1, <4>1, ConnectionAssumption DEF RoomInv, RoomForInFlight, InFlightIdx
    <3>3. QED
      BY <3>1, <3>2 DEF RHSPop, RoomInv, NoDrop, NoGhosts, DevicesServed, Slot
  <2>5. CASE \E r \in GatedRHS, state \in BOOLEAN : SetExtReadyState(r, state)
    BY <2>5 DEF SetExtReadyState, RoomInv, NoDrop, RoomForInFlight, NoGhosts,
                DevicesServed, InFlightIdx, FirstInFlight, Slot, Dests
  <2>6. CASE UNCHANGED vars
    BY <2>6 DEF vars, RoomInv, NoDrop, RoomForInFlight, NoGhosts, DevicesServed,
                InFlightIdx, FirstInFlight, Slot, Dests
  <2>7. QED  BY <2>1, <2>2, <2>3, <2>4, <2>5, <2>6 DEF Next
<1>3. QED  BY <1>1, <1>2 DEF RoomInv

\* A PLAIN pathway with no more right-hand sides than its ready mask has bits
\* never drops a message (the branches of PreClock and PostClock that count
\* one are dead), whatever the units at its ends do.
THEOREM NeverDrops ==
  MsgType = "PLAIN" /\ NumRHS <= MaskBits => (Spec => []NoDrop)
<1> SUFFICES ASSUME MsgType = "PLAIN", NumRHS <= MaskBits PROVE Spec => []NoDrop
  OBVIOUS
<1>1. RoomInv /\ [Next]_vars => RoomInv'
  BY RoomNext
<1>2. RoomInv => NoDrop
  BY DEF RoomInv
<1>3. QED  BY RoomInit, <1>1, <1>2, PTL DEF Spec

\* Under the same hypotheses every queueing RHS has, at all times, room for what
\* is on the wire for it: the reason why the check of the sender, made
\* Latency + 1 cycles before its message arrives, is enough.
THEOREM RoomIsKept ==
  MsgType = "PLAIN" /\ NumRHS <= MaskBits => (Spec => []RoomForInFlight)
<1> SUFFICES ASSUME MsgType = "PLAIN", NumRHS <= MaskBits PROVE Spec => []RoomForInFlight
  OBVIOUS
<1>1. RoomInv /\ [Next]_vars => RoomInv'
  BY RoomNext
<1>2. RoomInv => RoomForInFlight
  BY DEF RoomInv
<1>3. QED  BY RoomInit, <1>1, <1>2, PTL DEF Spec

LEMMA GhostNext ==
  ASSUME TypeOK, NoGhosts, [Next]_vars
  PROVE  TypeOK' /\ NoGhosts'
<1>1. TypeOK'
  BY NextType
<1>2. CASE PostClock
  BY <1>1, <1>2, GhostPostClock
<1>3. CASE ~PostClock
  <2>1. UNCHANGED <<msgprop, curidx>>
    BY <1>3 DEF Next, PreClock, LHSAssign, RHSPop, SetExtReadyState, vars
  <2>2. QED  BY <2>1, <1>1 DEF NoGhosts, Slot
<1>4. QED  BY <1>2, <1>3

\* No slot outside the wire ever holds a message, for PLAIN and TOGGLE pathways
\* of any width: PROPIDX_MASK >= latency is all the ring needs not to reuse a
\* slot whose message is under way.
THEOREM NoGhostInRing == Spec => []NoGhosts
<1>1. Init => TypeOK /\ NoGhosts
  BY InitType, GhostInit
<1>2. TypeOK /\ NoGhosts /\ [Next]_vars => (TypeOK /\ NoGhosts)'
  BY GhostNext
<1>3. QED  BY <1>1, <1>2, PTL DEF Spec
-----------------------------------------------------------------------------
(* The wire has one driver *)

\* A message waits at the LHS that produced it.
AtSource == \A l \in LHS : \A k \in 1..Len(lq[l]) : Src[lq[l][k]] = l

\* What another LHS has left on the wire is gone when the arbiter has settled.
Draining ==
  \A i \in InFlightIdx :
    LET m == msgprop[Slot(i)]
    IN m # NoMsg /\ Src[m] # lhsid => stabilize_cycle >= i

DriverInv ==
  TypeOK /\ NoGhosts /\ AtSource /\ Draining /\ OneDriver /\ SelectedDrives

LEMMA DriverInit == Init => DriverInv
<1> SUFFICES ASSUME Init PROVE DriverInv
  OBVIOUS
<1>1. TypeOK
  BY InitType
<1>2. NoGhosts /\ \A i \in 0..PropIdxMask : msgprop[Slot(i)] = NoMsg
  BY GhostInit
<1>3. Draining /\ OneDriver
  BY <1>2, ConnectionAssumption DEF Draining, OneDriver, InFlightIdx, FirstInFlight
<1>4. AtSource
  BY DEF Init, AtSource
<1>5. SelectedDrives
  BY DEF Init, SelectedDrives
<1>6. QED  BY <1>1, <1>2, <1>3, <1>4, <1>5 DEF DriverInv

\* The message at place i after a step was issued by the target of the arbiter,
\* or was at place i + 1.
LEMMA WireAfterStep ==
  ASSUME TypeOK, NoGhosts, AtSource, PostClock, NEW i \in 0..Latency,
         msgprop'[Slot(i)'] # NoMsg
  PROVE  \/ stabilize_cycle = 0 /\ Src[msgprop'[Slot(i)']] = lhsid
         \/ i + 1 \in 1..Latency /\ msgprop'[Slot(i)'] = msgprop[Slot(i + 1)]
<1>1. i \in 0..PropIdxMask /\ Latency \in Nat
  BY ConnectionAssumption
<1>2. msgprop'[Slot(i)'] = Flowed[Slot(i + 1)]
  BY <1>1, GhostPostClock
<1>3. CASE i = Latency /\ Issued # NoMsg
  <2>1. msgprop'[Slot(i)'] = Head(lq[lhsid]) /\ stabilize_cycle = 0 /\ lq[lhsid] # <<>>
    BY <1>1, <1>2, <1>3, FlowedAt, IssuedType
  <2>2. Head(lq[lhsid]) = lq[lhsid][1] /\ 1 \in 1..Len(lq[lhsid]) /\ lhsid \in LHS
    BY <2>1 DEF TypeOK
  <2>3. QED  BY <2>1, <2>2 DEF AtSource
<1>4. CASE i # Latency \/ Issued = NoMsg
  <2>1. i # PropIdxMask /\ msgprop'[Slot(i)'] = msgprop[Slot(i + 1)]
    BY <1>1, <1>2, <1>4, FlowedAt
  <2>2. i # Latency
    BY <1>1, <2>1, ConnectionAssumption DEF NoGhosts
  <2>3. QED  BY <1>1, <2>1, <2>2
<1>5. QED  BY <1>3, <1>4

LEMMA DriverPostClock ==
  ASSUME DriverInv, PostClock
  PROVE  AtSource' /\ Draining' /\ OneDriver' /\ SelectedDrives'
<1>1. TypeOK /\ NoGhosts /\ AtSource /\ stabilize_cycle \in Nat /\ Latency \in Nat
  BY ConnectionAssumption DEF DriverInv, TypeOK
<1>2. \A i \in 1..Latency :
        /\ msgprop[Slot(i)] # NoMsg /\ Src[msgprop[Slot(i)]] # lhsid => stabilize_cycle >= i
        /\ \A j \in 1..Latency : msgprop[Slot(i)] # NoMsg /\ msgprop[Slot(j)] # NoMsg
                                  => Src[msgprop[Slot(i)]] = Src[msgprop[Slot(j)]]
  BY DEF DriverInv, Draining, OneDriver, InFlightIdx, FirstInFlight, PostClock
<1>3. InFlightIdx' = 0..Latency
  BY DEF InFlightIdx, FirstInFlight, PostClock
<1>4. PICK next \in LHS : IsNextTarget(next, LHSAfter) /\ SetTarget(next)
  BY DEF PostClock
<1>5. stabilize_cycle > 0 => next = lhsid
  BY <1>4 DEF IsNextTarget
<1>6. AtSource'
  <2>1. CASE Issued = NoMsg
    BY <2>1, <1>1 DEF AtSource, PostClock, LHSAfter
  <2>2. CASE Issued # NoMsg
    <3>1. lq' = [lq EXCEPT ![lhsid] = Tail(lq[lhsid])] /\ lq[lhsid] # <<>>
      BY <2>2, <1>1, IssuedType DEF PostClock, LHSAfter
    <3>2. \A k \in 1..Len(Tail(lq[lhsid])) :
            Tail(lq[lhsid])[k] = lq[lhsid][k + 1] /\ k + 1 \in 1..Len(lq[lhsid])
      BY <3>1, <1>1 DEF TypeOK
    <3>3. QED  BY <3>1, <3>2, <1>1 DEF AtSource, TypeOK
  <2>3. QED  BY <2>1, <2>2
<1>7. Draining'
  <2> SUFFICES ASSUME NEW i \in 0..Latency, msgprop'[Slot(i)'] # NoMsg,
                      Src[msgprop'[Slot(i)']] # lhsid'
               PROVE  stabilize_cycle' >= i
    BY <1>3 DEF Draining
  <2>1. CASE next = lhsid
    <3>1. i + 1 \in 1..Latency /\ msgprop'[Slot(i)'] = msgprop[Slot(i + 1)]
      BY <2>1, <1>1, <1>4, WireAfterStep DEF SetTarget
    <3>2. stabilize_cycle >= i + 1
      BY <3>1, <2>1, <1>2, <1>4 DEF SetTarget
    <3>3. QED  BY <3>2, <2>1, <1>1, <1>4 DEF SetTarget, Settled
  <2>2. CASE next # lhsid
    BY <2>2, <1>1, <1>4 DEF SetTarget
  <2>3. QED  BY <2>1, <2>2
<1>8. OneDriver'
  <2> SUFFICES ASSUME NEW i \in 0..Latency, NEW j \in 0..Latency,
                      msgprop'[Slot(i)'] # NoMsg, msgprop'[Slot(j)'] # NoMsg
               PROVE  Src[msgprop'[Slot(i)']] = Src[msgprop'[Slot(j)']]
    BY <1>3 DEF OneDriver
  <2>1. CASE stabilize_cycle = 0
    <3>1. \A k \in 0..Latency : msgprop'[Slot(k)'] # NoMsg => Src[msgprop'[Slot(k)']] = lhsid
      <4> SUFFICES ASSUME NEW k \in 0..Latency, msgprop'[Slot(k)'] # NoMsg
                   PROVE  Src[msgprop'[Slot(k)']] = lhsid
        OBVIOUS
      <4>1. CASE k + 1 \in 1..Latency /\ msgprop'[Slot(k)'] = msgprop[Slot(k + 1)]
        BY <4>1, <2>1, <1>2
      <4>2. QED  BY <4>1, <1>1, WireAfterStep
    <3>2. QED  BY <3>1
  <2>2. CASE stabilize_cycle # 0
    <3>1. /\ i + 1 \in 1..Latency /\ msgprop'[Slot(i)'] = msgprop[Slot(i + 1)]
          /\ j + 1 \in 1..Latency /\ msgprop'[Slot(j)'] = msgprop[Slot(j + 1)]
      BY <2>2, <1>1, WireAfterStep
    <3>2. QED  BY <3>1, <1>2
  <2>3. QED  BY <2>1, <2>2
<1>9. SelectedDrives'
  <2>1. \A l \in LHS : Marked[l] <=> (l = lhsid /\ Settled = 0)
    BY <1>1 DEF DriverInv, SelectedDrives, Marked, Settled, TypeOK
  <2>2. CASE next = lhsid
    BY <2>1, <2>2, <1>4 DEF SetTarget, SelectedDrives
  <2>3. CASE next # lhsid
    BY <2>1, <2>3, <1>4 DEF SetTarget, SelectedDrives
  <2>4. QED  BY <2>2, <2>3
<1>10. QED  BY <1>6, <1>7, <1>8, <1>9

LEMMA DriverNext ==
  ASSUME DriverInv, [Next]_vars
  PROVE  DriverInv'
<1>1. TypeOK'
  BY NextType DEF DriverInv
<1>2. CASE PreClock
  <2>1. /\ UNCHANGED <<lq, selected, lhsid, stabilize_cycle, msgprop>>
        /\ \A i \in 0..PropIdxMask : Slot(i)' = Slot(i)
        /\ InFlightIdx' \subseteq InFlightIdx /\ InFlightIdx' \subseteq 0..PropIdxMask
    BY <1>2, ConnectionAssumption DEF PreClock, Slot, InFlightIdx, FirstInFlight
  <2>2. NoGhosts' /\ AtSource' /\ SelectedDrives'
    BY <2>1, ConnectionAssumption DEF DriverInv, NoGhosts, AtSource, SelectedDrives
  <2>3. Draining' /\ OneDriver'
    BY <2>1 DEF DriverInv, Draining, OneDriver
  <2>4. QED  BY <1>1, <2>2, <2>3 DEF DriverInv
<1>3. CASE PostClock
  <2>1. NoGhosts'
    BY <1>3, GhostPostClock DEF DriverInv
  <2>2. QED  BY <1>1, <1>3, <2>1, DriverPostClock DEF DriverInv
<1>4. CASE \E m \in Msgs : LHSAssign(Src[m], m)
  <2> PICK m \in Msgs : LHSAssign(Src[m], m)
    BY <1>4
  <2>1. UNCHANGED <<phase, selected, lhsid, stabilize_cycle, msgprop, curidx>>
    BY DEF LHSAssign
  <2>2. NoGhosts' /\ Draining' /\ OneDriver' /\ SelectedDrives'
    BY <2>1 DEF DriverInv, NoGhosts, Draining, OneDriver, SelectedDrives, Slot,
                InFlightIdx, FirstInFlight
  <2>3. AtSource'
    <3> DEFINE l == Src[m]  q == Kept(lq[l])
    <3>1. l \in LHS /\ lq \in [LHS -> Seq(Msgs)] /\ AtSource
      BY MessageAssumption DEF DriverInv, TypeOK
    <3>2. q \in Seq(Msgs) /\ \A k \in 1..Len(q) : Src[q[k]] = l
      BY <3>1 DEF Kept, AtSource
    <3>3. \A k \in 1..Len(Append(q, m)) : Src[Append(q, m)[k]] = l
      BY <3>2
    <3>4. \A k \in 1..Len(lq'[l]) : Src[lq'[l][k]] = l
      BY <3>1, <3>2, <3>3 DEF LHSAssign, Assigned
    <3>5. \A s \in LHS : s # l => lq'[s] = lq[s]
      BY <3>1 DEF LHSAssign
    <3>6. QED  BY <3>1, <3>4, <3>5 DEF AtSource
  <2>4. QED  BY <1>1, <2>2, <2>3 DEF DriverInv
<1>5. CASE UNCHANGED <<phase, lq, selected, lhsid, stabilize_cycle, msgprop, curidx>>
  BY <1>1, <1>5 DEF DriverInv, NoGhosts, AtSource, Draining, OneDriver, SelectedDrives,
                    Slot, InFlightIdx, FirstInFlight
<1>6. QED
  BY <1>2, <1>3, <1>4, <1>5 DEF Next, vars, RHSPop, SetExtReadyState

\* At no time do messages of two left-hand sides share the wire, whatever the
\* latency: the arbiter waits for the wire to drain when it changes the target.
THEOREM WireHasOneDriver == Spec => []OneDriver
<1>1. DriverInv => OneDriver
  BY DEF DriverInv
<1>2. DriverInv /\ [Next]_vars => DriverInv'
  BY DriverNext
<1>3. QED  BY DriverInit, <1>1, <1>2, PTL DEF Spec

\* The selection flag a stalled module reads always names the LHS that drives
\* the wire in the next PostClock.
THEOREM SelectionIsExact == Spec => []SelectedDrives
<1>1. DriverInv => SelectedDrives
  BY DEF DriverInv
<1>2. DriverInv /\ [Next]_vars => DriverInv'
  BY DriverNext
<1>3. QED  BY DriverInit, <1>1, <1>2, PTL DEF Spec

-----------------------------------------------------------------------------
(* Refinement: a PLAIN pathway is a set of channels *)

Slots == Msgs \union {NoMsg}

ToRHS(r) == {m \in Msgs : r \in Dests(m)}

LEMMA ToRHSIsDests ==
  ASSUME NEW m \in Slots, NEW r
  PROVE  m \in ToRHS(r) <=> r \in Dests(m)
BY MessageAssumption DEF ToRHS, Slots, Dests

LEMMA SameSeq ==
  ASSUME NEW S, NEW s \in Seq(S), NEW t \in Seq(S), Len(s) = Len(t),
         \A i \in 1..Len(s) : s[i] = t[i]
  PROVE  s = t
OBVIOUS

LEMMA WireTyped ==
  ASSUME TypeOK, NEW a \in 0..1
  PROVE  /\ Wire(a) \in Seq(Slots) /\ Len(Wire(a)) = Latency + 1 - a
         /\ \A i \in 1..(Latency + 1 - a) :
              /\ Wire(a)[i] = msgprop[Slot(a + i - 1)]
              /\ a + i - 1 \in 0..PropIdxMask
<1>1. Latency + 1 - a \in Nat
  BY ConnectionAssumption
<1>2. ASSUME NEW i \in 1..(Latency + 1 - a)
      PROVE  a + i - 1 \in 0..PropIdxMask /\ msgprop[Slot(a + i - 1)] \in Slots
  <2>1. a + i - 1 \in 0..PropIdxMask
    BY ConnectionAssumption
  <2>2. Slot(a + i - 1) \in 0..PropIdxMask
    BY <2>1, SlotInRing, ConnectionAssumption DEF TypeOK
  <2> QED BY <2>1, <2>2 DEF TypeOK, Slots
<1> QED BY <1>1, <1>2 DEF Wire

\* The message sampled is the first on the wire.
LEMMA WireHead ==
  ASSUME TypeOK
  PROVE  Wire(0) # <<>> /\ Head(Wire(0)) = Sampled /\ Tail(Wire(0)) = Wire(1)
<1> DEFINE s == Wire(0)
           t == Wire(1)
<1>1. /\ s \in Seq(Slots) /\ Len(s) = Latency + 1
      /\ \A i \in 1..(Latency + 1) : s[i] = msgprop[Slot(i - 1)]
  <2>1. \A i \in 1..(Latency + 1) : 0 + i - 1 = i - 1
    OBVIOUS
  <2>2. 0 \in 0..1 /\ Latency + 1 - 0 = Latency + 1
    BY ConnectionAssumption
  <2> HIDE DEF s
  <2> QED BY <2>1, <2>2, WireTyped DEF s
<1>2. /\ t \in Seq(Slots) /\ Len(t) = Latency
      /\ \A i \in 1..Latency : t[i] = msgprop[Slot(i)]
  <2>1. \A i \in 1..Latency : 1 + i - 1 = i
    BY ConnectionAssumption
  <2>2. 1 \in 0..1 /\ Latency + 1 - 1 = Latency
    BY ConnectionAssumption
  <2> QED BY <2>1, <2>2, WireTyped
<1>3. Latency \in Nat /\ msgprop[Slot(0)] = Sampled
  BY SlotZero, ConnectionAssumption DEF TypeOK, Sampled
<1> HIDE DEF s, t
<1>4. s # <<>> /\ Head(s) = s[1] /\ Tail(s) \in Seq(Slots) /\ Len(Tail(s)) = Latency
  BY <1>1, <1>3
<1>5. \A i \in 1..Latency : Tail(s)[i] = s[i + 1]
  BY <1>1, <1>3
<1>6. Head(s) = Sampled
  <2>1. 1 \in 1..(Latency + 1) /\ 1 - 1 = 0
    BY <1>3
  <2> QED BY <1>1, <1>3, <1>4, <2>1, Zenon
<1>7. \A i \in 1..Latency : Tail(s)[i] = t[i]
  <2>1. \A i \in 1..Latency : i + 1 \in 1..(Latency + 1) /\ i + 1 - 1 = i
    BY <1>3
  <2> QED BY <1>1, <1>2, <1>5, <2>1
<1>8. Tail(s) = t
  BY <1>2, <1>4, <1>7, SameSeq
<1> QED BY <1>4, <1>6, <1>8 DEF s, t

\* The wire one step later, seen from where it is now: one message further,
\* behind it what was issued.
Stepped == [i \in 1..(Latency + 1) |-> Flowed[Slot(i)]]

LEMMA SteppedIs ==
  ASSUME TypeOK, NoGhosts
  PROVE  Stepped = Append(Wire(1), Issued) /\ Stepped \in Seq(Slots)
<1> DEFINE t == Wire(1)
<1>1. /\ t \in Seq(Slots) /\ Len(t) = Latency
      /\ \A i \in 1..Latency : t[i] = msgprop[Slot(i)]
  <2>1. \A i \in 1..Latency : 1 + i - 1 = i
    BY ConnectionAssumption
  <2>2. 1 \in 0..1 /\ Latency + 1 - 1 = Latency
    BY ConnectionAssumption
  <2> QED BY <2>1, <2>2, WireTyped
<1>2. Latency \in Nat /\ Latency <= PropIdxMask /\ PropIdxMask \in Nat
  BY ConnectionAssumption
<1>3. Issued \in Slots
  BY IssuedType DEF Slots
<1> HIDE DEF t
<1>4. /\ Append(t, Issued) \in Seq(Slots) /\ Len(Append(t, Issued)) = Latency + 1
      /\ \A i \in 1..Latency : Append(t, Issued)[i] = t[i]
      /\ Append(t, Issued)[Latency + 1] = Issued
  BY <1>1, <1>3, OneMore
<1>5. ASSUME NEW i \in 1..Latency PROVE Flowed[Slot(i)] = msgprop[Slot(i)]
  <2>1. i - 1 \in 0..PropIdxMask /\ i - 1 + 1 = i /\ i - 1 # Latency /\ i - 1 # PropIdxMask
    BY <1>2
  <2> QED BY <2>1, FlowedAt
<1>6. Flowed[Slot(Latency + 1)] = Issued
  <2>1. Latency \in 0..PropIdxMask
    BY <1>2
  <2>2. CASE Issued # NoMsg
    BY <2>1, <2>2, FlowedAt
  <2>3. CASE Issued = NoMsg
    <3>1. Flowed[Slot(Latency + 1)] = IF Latency = PropIdxMask THEN NoMsg
                                      ELSE msgprop[Slot(Latency + 1)]
      BY <2>1, <2>3, FlowedAt
    <3>2. Latency # PropIdxMask => msgprop[Slot(Latency + 1)] = NoMsg
      BY <1>2 DEF NoGhosts
    <3> QED BY <2>3, <3>1, <3>2
  <2> QED BY <2>2, <2>3
<1>7. ASSUME NEW i \in 1..(Latency + 1) PROVE Flowed[Slot(i)] = Append(t, Issued)[i]
  <2>0. i \in 1..Latency \/ i = Latency + 1
    BY <1>2
  <2>1. CASE i \in 1..Latency
    BY <1>1, <1>4, <1>5, <2>1
  <2>2. CASE i = Latency + 1
    BY <1>4, <1>6, <2>2
  <2> QED BY <2>0, <2>1, <2>2, Zenon
<1>8. \A i \in 1..(Latency + 1) : Append(t, Issued)[i] \in Slots
  BY <1>4, <1>2
<1>9. Stepped \in Seq(Slots) /\ Len(Stepped) = Latency + 1
      /\ \A i \in 1..(Latency + 1) : Stepped[i] = Append(t, Issued)[i]
  <2> DEFINE u == Append(t, Issued)
  <2>1. \A i \in 1..(Latency + 1) : Flowed[Slot(i)] = u[i] /\ u[i] \in Slots
    BY <1>7, <1>8
  <2> HIDE DEF u
  <2>2. Stepped \in Seq(Slots) /\ Len(Stepped) = Latency + 1
        /\ \A i \in 1..(Latency + 1) : Stepped[i] = u[i]
    BY <1>2, <2>1 DEF Stepped
  <2> QED BY <2>2 DEF u
<1>10. Stepped = Append(t, Issued)
  <2> DEFINE u == Append(t, Issued)
  <2>1. u \in Seq(Slots) /\ Len(u) = Latency + 1
    BY <1>4
  <2>2. \A i \in 1..Len(Stepped) : Stepped[i] = u[i]
    BY <1>9
  <2> HIDE DEF u
  <2>3. Stepped = u
    BY <1>9, <2>1, <2>2, SameSeq
  <2> QED BY <2>3 DEF u
<1> QED BY <1>9, <1>10 DEF t

\* What holds of the wire at any time.
WireFacts ==
  /\ Wire(0) \in Seq(Slots) /\ Wire(0) # <<>>
  /\ Head(Wire(0)) = Sampled /\ Tail(Wire(0)) = Wire(1)
  /\ Wire(1) \in Seq(Slots) /\ Len(Wire(1)) = Latency
  /\ \A i \in 1..Latency : Wire(1)[i] = msgprop[Slot(i)]

LEMMA WireHolds == TypeOK => WireFacts
<1> SUFFICES ASSUME TypeOK PROVE WireFacts
  OBVIOUS
<1>1. 0 \in 0..1 /\ 1 \in 0..1 /\ Latency + 1 - 1 = Latency
      /\ \A i \in 1..Latency : 1 + i - 1 = i
  BY ConnectionAssumption
<1>2. Wire(0) \in Seq(Slots)
  BY <1>1, WireTyped
<1>3. /\ Wire(1) \in Seq(Slots) /\ Len(Wire(1)) = Latency
      /\ \A i \in 1..Latency : Wire(1)[i] = msgprop[Slot(i)]
  BY <1>1, WireTyped
<1> QED BY <1>2, <1>3, WireHead DEF WireFacts

\* After PostClock the wire holds what flowed, and its first message is gone if
\* it was delivered ahead of time to all its readers.
LEMMA WirePostClock ==
  ASSUME TypeOK, NoGhosts, MaskFits, AheadAccepted, PostClock
  PROVE  /\ Wire(0)' \in Seq(Slots) /\ Wire(0)' # <<>>
         /\ Tail(Wire(0)') = Wire(1)' /\ Wire(1)' = Tail(Stepped)
         /\ Stepped # <<>> /\ Head(Stepped) = Flowed[Slot(1)]
         /\ Head(Wire(0)') = IF \A r \in Dests(Head(Stepped)) : RHSCap[r] = 0
                             THEN NoMsg ELSE Head(Stepped)
<1>1. TypeOK'
  BY NextType DEF Next
<1>2. WireFacts'
  <2>1. TypeOK' => WireFacts'
    BY WireHolds, PTL
  <2> QED BY <1>1, <2>1
<1>3. Latency \in Nat /\ Latency <= PropIdxMask /\ PropIdxMask \in Nat
  BY ConnectionAssumption
<1>4. curidx \in 0..PropIdxMask /\ Slot(1) \in 0..PropIdxMask
  BY <1>3, SlotInRing DEF TypeOK
<1>5. /\ Stepped \in Seq(Slots) /\ Len(Stepped) = Latency + 1
      /\ \A i \in 1..(Latency + 1) : Stepped[i] = Flowed[Slot(i)]
  BY <1>3, SteppedIs DEF Stepped
<1>6. Stepped # <<>> /\ Head(Stepped) = Flowed[Slot(1)]
  <2> DEFINE s == Stepped
  <2>1. s \in Seq(Slots) /\ Len(s) = Latency + 1 /\ s[1] = Flowed[Slot(1)]
    BY <1>3, <1>5
  <2> HIDE DEF s
  <2>2. s # <<>> /\ Head(s) = s[1]
    BY <1>3, <2>1
  <2> QED BY <2>1, <2>2 DEF s
<1>7. ASSUME NEW i \in 1..Latency PROVE Wire(1)'[i] = Flowed[Slot(i + 1)]
  <2>1. Wire(1)'[i] = msgprop'[Slot(i)']
    BY <1>2 DEF WireFacts
  <2>2. i \in 0..PropIdxMask /\ Slot(i)' = Slot(i + 1) /\ Slot(i + 1) \in 0..PropIdxMask
    BY <1>3, <1>4, GhostPostClock, SlotInRing
  <2>3. Slot(i + 1) # Slot(1)
    <3>1. CASE i = PropIdxMask
      BY <1>3, <1>4, <3>1, SlotZero, SlotInjective
    <3>2. CASE i # PropIdxMask
      BY <1>3, <1>4, <3>2, SlotInjective
    <3> QED BY <3>1, <3>2
  <2>4. msgprop'[Slot(i + 1)] = Flowed[Slot(i + 1)]
    BY <2>2, <2>3, IssuedType DEF PostClock
  <2> QED BY <2>1, <2>2, <2>4
<1>8. Wire(1)' = Tail(Stepped)
  <2> DEFINE s == Stepped
             t == Wire(1)'
  <2>1. t \in Seq(Slots) /\ Len(t) = Latency /\ \A i \in 1..Latency : t[i] = s[i + 1]
    <3>1. t \in Seq(Slots) /\ Len(t) = Latency
      BY <1>2 DEF WireFacts
    <3>2. \A i \in 1..Latency : i + 1 \in 1..(Latency + 1)
      BY <1>3
    <3> QED BY <1>5, <1>7, <3>1, <3>2
  <2>2. s \in Seq(Slots) /\ Len(s) = Latency + 1
    BY <1>5
  <2> HIDE DEF s, t
  <2>3. Tail(s) \in Seq(Slots) /\ Len(Tail(s)) = Latency
        /\ \A i \in 1..Latency : Tail(s)[i] = s[i + 1]
    BY <1>3, <2>2
  <2>4. t = Tail(s)
    BY <2>1, <2>3, SameSeq
  <2> QED BY <2>4 DEF s, t
<1>9. Sampled' = IF \A r \in Dests(Flowed[Slot(1)]) : RHSCap[r] = 0
                 THEN NoMsg ELSE Flowed[Slot(1)]
  <2>1. Sampled' = msgprop'[Slot(1)]
    BY DEF Sampled, PostClock
  <2> DEFINE h == Flowed[Slot(1)]
             ahead == {r \in Dests(h) : RHSCap[r] = 0}
  <2>2. Flowed \in [0..PropIdxMask -> Msgs \union {NoMsg}] /\ h \in Msgs \union {NoMsg}
    BY <1>4, IssuedType
  <2>3. msgprop' = IF Nullified(h, ahead) THEN [Flowed EXCEPT ![Slot(1)] = NoMsg] ELSE Flowed
    BY DEF PostClock
  <2>4. Sampled' = IF Nullified(h, ahead) THEN NoMsg ELSE h
    <3>1. CASE Nullified(h, ahead)
      BY <1>4, <2>1, <2>2, <2>3, <3>1
    <3>2. CASE ~Nullified(h, ahead)
      BY <2>1, <2>3, <3>2
    <3> QED BY <3>1, <3>2
  <2> HIDE DEF h
  <2>5. Nullified(h, ahead) <=> ahead # {} /\ ahead = Dests(h)
    BY <2>2, NullifiedIsServed
  <2>6. h # NoMsg => Dests(h) # {}
    <3>1. 0 \in RHS
      BY EndpointAssumption DEF RHS
    <3>2. CASE h # NoMsg /\ Dest[h] = Broadcast
      BY <3>1, <3>2 DEF Dests
    <3>3. CASE h # NoMsg /\ Dest[h] # Broadcast
      BY <3>3 DEF Dests
    <3> QED BY <3>2, <3>3
  <2>7. ahead = {} /\ ahead = Dests(h) => h = NoMsg
    BY <2>6
  <2>8. ahead = Dests(h) <=> \A r \in Dests(h) : RHSCap[r] = 0
    OBVIOUS
  <2>9. Sampled' = IF \A r \in Dests(h) : RHSCap[r] = 0 THEN NoMsg ELSE h
    <3> HIDE DEF ahead
    <3> QED BY <2>4, <2>5, <2>7, <2>8
  <2> QED BY <2>9 DEF h
<1> QED BY <1>2, <1>6, <1>8, <1>9, Zenon DEF WireFacts

\* What is on the wire for each RHS, by the half of the cycle.
OnWireFacts ==
  \A r \in RHS :
    OnWire(r) = IF RHSCap[r] = 0 \/ phase # "pre" THEN Selected(Wire(1), ToRHS(r))
                                                  ELSE Selected(Wire(0), ToRHS(r))

LEMMA OnWireHolds == OnWireFacts
<1> SUFFICES ASSUME NEW r \in RHS
             PROVE  OnWire(r) = IF RHSCap[r] = 0 \/ phase # "pre"
                                  THEN Selected(Wire(1), ToRHS(r))
                                  ELSE Selected(Wire(0), ToRHS(r))
  BY DEF OnWireFacts
<1>1. CASE RHSCap[r] = 0 \/ phase # "pre"
  <2>1. (IF RHSCap[r] = 0 THEN 1 ELSE FirstInFlight) = 1
    BY <1>1 DEF FirstInFlight
  <2> QED BY <1>1, <2>1, Zenon DEF OnWire, ToRHS
<1>2. CASE ~(RHSCap[r] = 0 \/ phase # "pre")
  <2>1. (IF RHSCap[r] = 0 THEN 1 ELSE FirstInFlight) = 0
    BY <1>2 DEF FirstInFlight
  <2> QED BY <1>2, <2>1, Zenon DEF OnWire, ToRHS
<1> QED BY <1>1, <1>2

LEMMA QueueTyped ==
  ASSUME NEW q \in Seq(Msgs)
  PROVE  q \in Seq(Slots)
BY DEF Slots

\* The messages selected for an RHS are messages, and not more than the wire holds.
LEMMA SelectedForRHS ==
  ASSUME NEW s \in Seq(Slots), NEW r
  PROVE  Selected(s, ToRHS(r)) \in Seq(Slots) /\ Len(Selected(s, ToRHS(r))) <= Len(s)
BY SelectedTyped, SelectedShorter

\* What is on the wire for r, before and after PreClock: the message that is
\* delivered is the first.
LEMMA OnWirePreClock ==
  ASSUME TypeOK, PreClock, NEW r \in RHS
  PROVE  /\ OnWire(r)' \in Seq(Slots) /\ Sampled \in Slots
         /\ OnWire(r) = (IF RHSCap[r] # 0 /\ r \in Dests(Sampled) THEN <<Sampled>> ELSE <<>>)
                        \o OnWire(r)'
<1>1. phase = "pre" /\ phase' = "post"
  BY DEF PreClock
<1>2. OnWireFacts /\ OnWireFacts'
  BY OnWireHolds, PTL
<1>3. Wire(1)' = Wire(1)
  BY DEF PreClock, Wire, Slot
<1>4. OnWire(r)' = Selected(Wire(1), ToRHS(r))
  BY <1>1, <1>2, <1>3 DEF OnWireFacts, ToRHS, Dests
<1>5. /\ Wire(0) \in Seq(Slots) /\ Wire(0) # <<>> /\ Wire(1) \in Seq(Slots)
      /\ Head(Wire(0)) = Sampled /\ Tail(Wire(0)) = Wire(1)
  BY WireHolds DEF WireFacts
<1> DEFINE w == Selected(Wire(1), ToRHS(r))
           m == Sampled
<1>6. w \in Seq(Slots) /\ m \in Slots
  <2>1. w \in Seq(Slots)
    BY <1>5, SelectedForRHS
  <2>2. msgprop[curidx] \in Slots
    BY DEF TypeOK, Slots
  <2> QED BY <2>1, <2>2 DEF Sampled
<1>7. CASE RHSCap[r] = 0
  <2>1. OnWire(r) = w
    BY <1>2, <1>7 DEF OnWireFacts
  <2>2. OnWire(r)' = w
    BY <1>4
  <2> HIDE DEF w, m
  <2>3. <<>> \o w = w
    BY <1>6
  <2> QED BY <1>6, <1>7, <2>1, <2>2, <2>3 DEF m
<1>8. CASE RHSCap[r] # 0
  <2>1. OnWire(r) = Selected(Wire(0), ToRHS(r))
    BY <1>1, <1>2, <1>8 DEF OnWireFacts
  <2>2. OnWire(r) = (IF m \in ToRHS(r) THEN <<m>> ELSE <<>>) \o w
    BY <1>5, <2>1, SelectedHead
  <2>3. m \in ToRHS(r) <=> r \in Dests(m)
    BY <1>6, ToRHSIsDests
  <2>4. OnWire(r)' = w
    BY <1>4
  <2> HIDE DEF w
  <2> QED BY <1>6, <1>8, <2>2, <2>3, <2>4
<1> QED BY <1>7, <1>8

\* And before and after PostClock: the message issued is the last, and a reader
\* without a queue has got its message.
LEMMA OnWirePostClock ==
  ASSUME TypeOK, NoGhosts, MaskFits, AheadAccepted, PostClock, NEW r \in RHS
  PROVE  /\ OnWire(r) \in Seq(Slots) /\ Len(OnWire(r)) <= Latency
         /\ OnWire(r)' \in Seq(Slots) /\ Flowed[Slot(1)] \in Slots /\ Issued \in Slots
         /\ (IF RHSCap[r] = 0 /\ r \in Dests(Flowed[Slot(1)]) THEN <<Flowed[Slot(1)]>> ELSE <<>>)
            \o OnWire(r)'
            = IF r \in Dests(Issued) THEN Append(OnWire(r), Issued) ELSE OnWire(r)
<1>1. phase = "post" /\ phase' = "pre"
  BY DEF PostClock
<1>2. OnWireFacts /\ OnWireFacts'
  BY OnWireHolds, PTL
<1> DEFINE w == Selected(Wire(1), ToRHS(r))
           v == Selected(Wire(1)', ToRHS(r))
           m == Issued
           h == Flowed[Slot(1)]
           g == Head(Wire(0)')
<1>3. Wire(1) \in Seq(Slots) /\ Len(Wire(1)) = Latency
  BY WireHolds DEF WireFacts
<1>4. /\ Wire(0)' \in Seq(Slots) /\ Wire(0)' # <<>>
      /\ Tail(Wire(0)') = Wire(1)' /\ Wire(1)' = Tail(Stepped)
      /\ Stepped # <<>> /\ Head(Stepped) = h
      /\ g = IF \A s \in Dests(h) : RHSCap[s] = 0 THEN NoMsg ELSE h
  BY WirePostClock, Zenon
<1>5. Stepped \in Seq(Slots) /\ Stepped = Append(Wire(1), Issued)
  BY SteppedIs
<1>6. Wire(1)' \in Seq(Slots) /\ h \in Slots /\ g \in Slots /\ m \in Slots
  <2>1. Tail(Stepped) \in Seq(Slots) /\ Head(Stepped) \in Slots
    <3> DEFINE s == Stepped
    <3>1. s \in Seq(Slots) /\ s # <<>>
      BY <1>4, <1>5
    <3> HIDE DEF s
    <3>2. Tail(s) \in Seq(Slots) /\ Head(s) \in Slots
      BY <3>1
    <3> QED BY <3>2 DEF s
  <2>2. NoMsg \in Slots
    BY DEF Slots
  <2>3. Issued \in Slots
    BY IssuedType DEF Slots
  <2> QED BY <1>4, <2>1, <2>2, <2>3, Zenon
<1>7. w \in Seq(Slots) /\ v \in Seq(Slots) /\ Len(w) <= Latency
  BY <1>3, <1>6, SelectedForRHS
<1>8. /\ m \in ToRHS(r) <=> r \in Dests(m)
      /\ h \in ToRHS(r) <=> r \in Dests(h)
      /\ g \in ToRHS(r) <=> r \in Dests(g)
  BY <1>6, ToRHSIsDests
<1>9. OnWire(r) = w
  BY <1>1, <1>2 DEF OnWireFacts
<1>10. OnWire(r)' = IF RHSCap[r] = 0 THEN v ELSE Selected(Wire(0)', ToRHS(r))
  <2>1. ToRHS(r)' = ToRHS(r)
    BY DEF ToRHS, Dests
  <2>2. OnWire(r)' = IF RHSCap[r] = 0 \/ phase' # "pre" THEN Selected(Wire(1)', ToRHS(r)')
                                                      ELSE Selected(Wire(0)', ToRHS(r)')
    BY <1>2 DEF OnWireFacts
  <2> QED BY <1>1, <2>1, <2>2
<1>11. (IF h \in ToRHS(r) THEN <<h>> ELSE <<>>) \o v = IF m \in ToRHS(r) THEN Append(w, m) ELSE w
  <2>1. Selected(Stepped, ToRHS(r)) = (IF h \in ToRHS(r) THEN <<h>> ELSE <<>>) \o v
    <3>1. Selected(Stepped, ToRHS(r)) =
            (IF Head(Stepped) \in ToRHS(r) THEN <<Head(Stepped)>> ELSE <<>>)
            \o Selected(Tail(Stepped), ToRHS(r))
      BY <1>4, <1>5, SelectedHead
    <3> QED BY <1>4, <3>1, Zenon
  <2>2. Selected(Append(Wire(1), Issued), ToRHS(r)) = IF m \in ToRHS(r) THEN Append(w, m) ELSE w
    BY <1>3, <1>6, SelectedMore
  <2> QED BY <1>5, <2>1, <2>2, Zenon
<1>12. CASE RHSCap[r] = 0
  <2>1. OnWire(r)' = v
    BY <1>10, <1>12
  <2> HIDE DEF v, w, m, h, g
  <2> QED BY <1>6, <1>7, <1>8, <1>9, <1>11, <1>12, <2>1, Zenon DEF m, h
<1>13. CASE RHSCap[r] # 0
  <2>1. OnWire(r)' = (IF g \in ToRHS(r) THEN <<g>> ELSE <<>>) \o v
    <3>1. Selected(Wire(0)', ToRHS(r))
            = (IF g \in ToRHS(r) THEN <<g>> ELSE <<>>) \o Selected(Tail(Wire(0)'), ToRHS(r))
      BY <1>4, SelectedHead
    <3> QED BY <1>4, <1>10, <1>13, <3>1, Zenon
  <2>2. g \in ToRHS(r) <=> h \in ToRHS(r)
    <3>1. r \in Dests(g) <=> r \in Dests(h)
      BY <1>4, <1>13 DEF Dests
    <3> QED BY <1>8, <3>1
  <2>3. g \in ToRHS(r) => g = h
    <3>1. NoMsg \notin ToRHS(r)
      BY MessageAssumption DEF ToRHS
    <3> HIDE DEF h, g
    <3> QED BY <1>4, <3>1, Zenon
  <2> HIDE DEF v, w, m, h, g
  <2>4. OnWire(r)' = IF m \in ToRHS(r) THEN Append(w, m) ELSE w
    BY <1>11, <2>1, <2>2, <2>3, Zenon
  <2>5. OnWire(r)' \in Seq(Slots)
    BY <1>6, <1>7, <2>4
  <2>6. <<>> \o OnWire(r)' = OnWire(r)'
    <3> DEFINE u == OnWire(r)'
    <3>1. u \in Seq(Slots)
      BY <2>5
    <3> HIDE DEF u
    <3>2. <<>> \o u = u
      BY <3>1
    <3> QED BY <3>2 DEF u
  <2> QED BY <1>6, <1>7, <1>8, <1>9, <1>13, <2>4, <2>5, <2>6, Zenon DEF m, h
<1> QED BY <1>12, <1>13

LEMMA ChannelPreClock ==
  ASSUME MsgType = "PLAIN", RoomInv, PreClock, NEW r \in RHS
  PROVE  rq'[r] \o OnWire(r)' = rq[r] \o OnWire(r)
<1> DEFINE w == OnWire(r)'
           q == rq[r]
           m == Sampled
<1>1. TypeOK /\ phase = "pre"
  BY DEF RoomInv, PreClock
<1>2. /\ w \in Seq(Slots) /\ m \in Slots
      /\ OnWire(r) = (IF RHSCap[r] # 0 /\ r \in Dests(m) THEN <<m>> ELSE <<>>) \o w
  BY <1>1, OnWirePreClock
<1>3. q \in Seq(Slots)
  <2>1. rq[r] \in Seq(Msgs)
    BY <1>1 DEF TypeOK
  <2> QED BY <2>1, QueueTyped
<1>4. rq'[r] = IF RHSCap[r] # 0 /\ r \in Dests(m) THEN Append(q, m) ELSE q
  <2>1. CASE RHSCap[r] # 0 /\ r \in Dests(Sampled)
    <3>1. curidx \in 0..PropIdxMask /\ Slot(0) = curidx
      BY <1>1, SlotZero DEF TypeOK
    <3>2. Len(rq[r]) + 1 <= RHSCap[r]
      BY <1>1, <2>1, <3>1, ConnectionAssumption
         DEF RoomInv, RoomForInFlight, InFlightIdx, FirstInFlight, Sampled
    <3>3. Assigned(rq[r], RHSCap[r], Sampled) = Append(rq[r], Sampled)
      BY <1>1, <2>1, <3>2, EndpointAssumption DEF Assigned, Accepts, Kept, TypeOK
    <3> QED BY <2>1, <3>3 DEF PreClock
  <2>2. CASE ~(RHSCap[r] # 0 /\ r \in Dests(Sampled))
    BY <2>2 DEF PreClock
  <2> QED BY <2>1, <2>2
<1> HIDE DEF w, q, m
<1>5. Append(q, m) \o w = q \o (<<m>> \o w) /\ <<>> \o w = w
  <2>1. q \in Seq(Slots) /\ m \in Slots /\ w \in Seq(Slots)
    BY <1>2, <1>3
  <2> QED BY <2>1
<1>6. rq'[r] \o w = q \o OnWire(r)
  BY <1>2, <1>4, <1>5, Zenon
<1> QED BY <1>6 DEF w, q

\* The devices have run since the last PostClock, so they have room.
LEMMA ServedAccept ==
  ASSUME RoomInv, phase = "post"
  PROVE  AheadAccepted
BY DEF RoomInv, DevicesServed, AheadAccepted, Accepts, Kept

LEMMA ChannelPostClock ==
  ASSUME MsgType = "PLAIN", MaskFits, RoomInv, PostClock, NEW r \in RHS
  PROVE  rq'[r] \o OnWire(r)' = IF r \in Dests(Issued)
                                  THEN Append(rq[r] \o OnWire(r), Issued)
                                  ELSE rq[r] \o OnWire(r)
<1> DEFINE w == OnWire(r)
           v == OnWire(r)'
           q == rq[r]
           m == Issued
           h == Flowed[Slot(1)]
<1>1. TypeOK /\ NoGhosts /\ phase = "post" /\ AheadAccepted
  BY ServedAccept DEF RoomInv, PostClock
<1>2. /\ w \in Seq(Slots) /\ v \in Seq(Slots) /\ h \in Slots /\ m \in Slots
      /\ (IF RHSCap[r] = 0 /\ r \in Dests(h) THEN <<h>> ELSE <<>>) \o v
         = IF r \in Dests(m) THEN Append(w, m) ELSE w
  BY <1>1, OnWirePostClock
<1>3. q \in Seq(Slots)
  <2>1. rq[r] \in Seq(Msgs)
    BY <1>1 DEF TypeOK
  <2> QED BY <2>1, QueueTyped
<1>4. rq'[r] = q \o (IF RHSCap[r] = 0 /\ r \in Dests(h) THEN <<h>> ELSE <<>>)
  <2>1. CASE RHSCap[r] = 0 /\ r \in Dests(h)
    <3>1. q = <<>>
      BY <1>1, <2>1 DEF RoomInv, DevicesServed
    <3>2. Assigned(<<>>, 0, h) = Append(<<>>, h)
      BY DEF Assigned, Accepts, Kept
    <3>3. rq'[r] = Assigned(q, 0, h)
      BY <2>1 DEF PostClock
    <3>4. rq'[r] = Append(<<>>, h)
      BY <3>1, <3>2, <3>3, Zenon
    <3> HIDE DEF h, q
    <3>5. Append(<<>>, h) = <<h>> /\ <<>> \o <<h>> = <<h>>
      BY <1>2
    <3> QED BY <2>1, <3>1, <3>4, <3>5, Zenon
  <2>2. CASE ~(RHSCap[r] = 0 /\ r \in Dests(h))
    <3>1. rq'[r] = q
      BY <2>2 DEF PostClock
    <3> HIDE DEF h, q
    <3>2. q \o <<>> = q
      BY <1>3
    <3> QED BY <2>2, <3>1, <3>2, Zenon
  <2> QED BY <2>1, <2>2
<1> DEFINE p == IF RHSCap[r] = 0 /\ r \in Dests(h) THEN <<h>> ELSE <<>>
<1>5. p \in Seq(Slots)
  BY <1>2
<1>6. p \o v = (IF r \in Dests(m) THEN Append(w, m) ELSE w) /\ rq'[r] = q \o p
  BY <1>2, <1>4
<1> HIDE DEF v, h, q, w, m, p
<1>7. (q \o p) \o v = q \o (p \o v) /\ q \o Append(w, m) = Append(q \o w, m)
  <2>1. q \in Seq(Slots) /\ p \in Seq(Slots) /\ v \in Seq(Slots)
        /\ w \in Seq(Slots) /\ m \in Slots
    BY <1>2, <1>3, <1>5
  <2> QED BY <2>1
<1>8. rq'[r] \o v = IF r \in Dests(m) THEN Append(q \o w, m) ELSE q \o w
  BY <1>6, <1>7, Zenon
<1> QED BY <1>8, Zenon DEF q, m, w, v

LEMMA TailOfJoin ==
  ASSUME NEW S, NEW p \in Seq(S), NEW q \in Seq(S), p # <<>>
  PROVE  p \o q # <<>> /\ Tail(p) \o q = Tail(p \o q)
OBVIOUS


LEMMA OnWireInit ==
  ASSUME Init, NEW r \in RHS
  PROVE  OnWire(r) = <<>>
<1>1. TypeOK /\ OnWireFacts
  BY InitType, OnWireHolds
<1>2. ASSUME NEW a \in 0..1
      PROVE  Selected(Wire(a), ToRHS(r)) = <<>>
  <2> DEFINE s == Wire(a)
  <2>1. /\ s \in Seq(Slots) /\ Len(s) = Latency + 1 - a
        /\ \A i \in 1..(Latency + 1 - a) :
             s[i] = msgprop[Slot(a + i - 1)] /\ a + i - 1 \in 0..PropIdxMask
    BY <1>1, WireTyped
  <2>2. \A i \in 0..PropIdxMask : msgprop[Slot(i)] = NoMsg
    BY GhostInit
  <2> HIDE DEF s
  <2>3. \A i \in 1..Len(s) : s[i] = NoMsg
    BY <2>1, <2>2
  <2>4. NoMsg \notin ToRHS(r)
    BY MessageAssumption DEF ToRHS
  <2>5. \A i \in 1..Len(s) : s[i] \notin ToRHS(r)
    BY <2>3, <2>4
  <2>6. Selected(s, ToRHS(r)) = <<>>
    BY <2>1, <2>5, SelectedNothing
  <2> QED BY <2>6 DEF s
<1>3. Selected(Wire(0), ToRHS(r)) = <<>> /\ Selected(Wire(1), ToRHS(r)) = <<>>
  BY <1>2
<1> QED BY <1>1, <1>3 DEF OnWireFacts

LEMMA ChannelInit == Init => Chan!Init
<1> SUFFICES ASSUME Init PROVE Chan!Init
  OBVIOUS
<1>1. ASSUME NEW r \in RHS PROVE rq[r] \o OnWire(r) = <<>>
  <2>1. OnWire(r) = <<>>
    BY OnWireInit
  <2>2. rq[r] = <<>>
    BY DEF Init
  <2>3. <<>> \o <<>> = <<>>
    OBVIOUS
  <2> QED BY <2>1, <2>2, <2>3, Zenon
<1>2. [r \in RHS |-> rq[r] \o OnWire(r)] = [r \in RHS |-> <<>>]
  BY <1>1, Zenon
<1> QED BY <1>2 DEF Init, Chan!Init

\* A message is issued only if the channels of all its readers have room.
LEMMA ChannelHasRoom ==
  ASSUME MsgType = "PLAIN", MaskFits, RoomInv, PostClock,
         Issued # NoMsg, NEW r \in Dests(Issued)
  PROVE  Len(rq[r] \o OnWire(r)) < (IF RHSCap[r] = 0 THEN Latency + 1 ELSE RHSCap[r])
<1>1. TypeOK /\ phase = "post" /\ AheadAccepted
  BY ServedAccept DEF RoomInv, PostClock
<1>2. Issued \in Msgs /\ IsReady(NextReadyMask, Issued)
  BY <1>1, IssuedType
<1>3. r \in RHS
  BY <1>2, DestsType
<1>4. OnWire(r) \in Seq(Slots) /\ Len(OnWire(r)) <= Latency
  BY <1>1, <1>3, OnWirePostClock DEF RoomInv
<1>5. rq[r] \in Seq(Slots)
  <2>1. rq[r] \in Seq(Msgs)
    BY <1>1, <1>3 DEF TypeOK
  <2> QED BY <2>1, QueueTyped
<1> DEFINE q == rq[r]
           w == OnWire(r)
           a == Len(q)
           b == Len(w)
<1>6. a \in Nat /\ b \in Nat /\ Len(q \o w) = a + b /\ b <= Latency
  BY <1>4, <1>5
<1>7. CASE RHSCap[r] = 0
  <2>1. q = <<>>
    BY <1>1, <1>3, <1>7 DEF RoomInv, DevicesServed
  <2>2. a = 0
    BY <2>1
  <2> HIDE DEF a, b
  <2> QED BY <1>6, <1>7, <2>2, ConnectionAssumption
<1>8. CASE RHSCap[r] # 0
  <2>1. RHSCap[r] - a > Latency
    BY <1>1, <1>2, <1>8, MaskReaches, ReadyMeansRoom DEF HasRoom
  <2>2. RHSCap[r] \in Nat
    BY <1>3, EndpointAssumption
  <2> HIDE DEF a, b
  <2> QED BY <1>6, <1>8, <2>1, <2>2, ConnectionAssumption
<1> QED BY <1>7, <1>8

\* Every step of the pathway is a step of the channels, or none.
LEMMA ChannelNext ==
  ASSUME MsgType = "PLAIN", MaskFits, RoomInv, [Next]_vars
  PROVE  [Chan!Next]_(Chan!vars)
<1> DEFINE C == [r \in RHS |-> rq[r] \o OnWire(r)]
<1>1. TypeOK
  BY DEF RoomInv
<1>2. CASE PreClock
  <2>1. \A r \in RHS : rq'[r] \o OnWire(r)' = rq[r] \o OnWire(r)
    BY <1>2, ChannelPreClock
  <2>2. C' = C
    BY <2>1
  <2>3. lq' = lq
    BY <1>2 DEF PreClock
  <2> QED BY <2>2, <2>3 DEF Chan!vars
<1>3. CASE PostClock
  <2>1. \A r \in RHS : rq'[r] \o OnWire(r)' = IF r \in Dests(Issued)
                                                THEN Append(rq[r] \o OnWire(r), Issued)
                                                ELSE rq[r] \o OnWire(r)
    BY <1>3, ChannelPostClock
  <2>2. lq' = LHSAfter
    BY <1>3 DEF PostClock
  <2>3. CASE Issued = NoMsg
    <3>1. lq' = lq /\ \A r : r \notin Dests(Issued)
      BY <2>2, <2>3 DEF LHSAfter, Dests
    <3>2. C' = C
      BY <2>1, <3>1
    <3> QED BY <3>1, <3>2 DEF Chan!vars
  <2>4. CASE Issued # NoMsg
    <3>0. PICK l \in LHS : l = lhsid
      BY <1>1 DEF TypeOK
    <3>1. lq[l] # <<>> /\ Issued = Head(lq[l])
      BY <1>1, <2>4, <3>0, IssuedType
    <3>2. lq' = [lq EXCEPT ![l] = Tail(@)]
      BY <2>2, <2>4, <3>0 DEF LHSAfter
    <3>3. \A r \in Dests(Issued) : r \in RHS
      BY <1>1, IssuedType, DestsType
    <3>4. C' = [r \in RHS |-> IF r \in Dests(Issued) THEN Append(C[r], Issued) ELSE C[r]]
      BY <2>1
    <3>5. \A r \in Dests(Issued) :
            Len(C[r]) < [s \in RHS |-> IF RHSCap[s] = 0 THEN Latency + 1 ELSE RHSCap[s]][r]
      BY <1>3, <2>4, <3>3, ChannelHasRoom
    <3>6. Chan!Send(l)
      <4> HIDE DEF C
      <4> QED BY <3>1, <3>2, <3>4, <3>5 DEF Chan!Send, C
    <3> QED BY <3>6 DEF Chan!Next
  <2> QED BY <2>3, <2>4
<1>4. CASE \E m \in Msgs : LHSAssign(Src[m], m)
  <2> PICK m \in Msgs : LHSAssign(Src[m], m)
    BY <1>4
  <2> DEFINE l == Src[m]
  <2>1. l \in LHS /\ UNCHANGED <<phase, rq, msgprop, curidx>>
    BY MessageAssumption DEF LHSAssign
  <2>2. C' = C
    BY <2>1 DEF OnWire, Wire, Slot, FirstInFlight, Dests
  <2>3. Len(lq[l]) < (IF LHSCap[l] = 0 THEN 1 ELSE LHSCap[l])
    BY <2>1 DEF LHSAssign
  <2>4. Assigned(lq[l], LHSCap[l], m) = Append(lq[l], m)
    BY <2>3 DEF Assigned, Accepts, Kept
  <2>5. lq' = [lq EXCEPT ![l] = Append(@, m)]
    BY <2>4 DEF LHSAssign
  <2>6. Chan!Put(l, m)
    <3> HIDE DEF l
    <3> QED BY <2>1, <2>2, <2>3, <2>5 DEF Chan!Put
  <2> QED BY <2>1, <2>6 DEF Chan!Next
<1>5. CASE \E r \in RHS : RHSPop(r)
  <2> PICK r \in RHS : RHSPop(r)
    BY <1>5
  <2>1. /\ rq[r] # <<>> /\ rq' = [rq EXCEPT ![r] = Tail(rq[r])]
        /\ UNCHANGED <<phase, lq, msgprop, curidx>>
    BY DEF RHSPop
  <2>2. \A s \in RHS : OnWire(s)' = OnWire(s)
    BY <2>1 DEF OnWire, Wire, Slot, FirstInFlight, Dests
  <2>3. rq[r] \in Seq(Slots) /\ OnWire(r) \in Seq(Slots)
    <3>1. rq[r] \in Seq(Msgs)
      BY <1>1 DEF TypeOK
    <3>2. WireFacts /\ OnWireFacts
      BY <1>1, WireHolds, OnWireHolds
    <3>3. OnWire(r) \in Seq(Slots)
      BY <3>2, SelectedForRHS DEF WireFacts, OnWireFacts
    <3> QED BY <3>1, <3>3, QueueTyped
  <2>4. rq[r] \o OnWire(r) # <<>> /\ Tail(rq[r]) \o OnWire(r) = Tail(rq[r] \o OnWire(r))
    BY <2>1, <2>3, TailOfJoin
  <2>5. C' = [C EXCEPT ![r] = Tail(C[r])]
    <3>1. \A s \in RHS : rq'[s] = IF s = r THEN Tail(rq[r]) ELSE rq[s]
      BY <1>1, <2>1 DEF TypeOK
    <3> QED BY <2>2, <2>4, <3>1, Zenon
  <2>6. C[r] # <<>>
    BY <2>4
  <2>7. Chan!Take(r)
    BY <2>1, <2>5, <2>6 DEF Chan!Take
  <2> QED BY <2>7 DEF Chan!Next
<1>6. CASE (\E r \in GatedRHS, state \in BOOLEAN : SetExtReadyState(r, state)) \/ UNCHANGED vars
  <2>1. UNCHANGED <<phase, lq, rq, msgprop, curidx>>
    BY <1>6 DEF SetExtReadyState, vars
  <2>2. C' = C
    BY <2>1 DEF OnWire, Wire, Slot, FirstInFlight, Dests
  <2> QED BY <2>1, <2>2 DEF Chan!vars
<1> QED BY <1>2, <1>3, <1>4, <1>5, <1>6 DEF Next

\* The pathway implements the channels of module Channel, with a wire of any
\* latency between queues of any capacity the validator accepts: every message
\* written is issued once, reaches every RHS it is addressed to exactly once
\* and in the order of issue, and the channel of an RHS never holds more than
\* its capacity.  (The safety half of ImplementsLiveChannel.)
THEOREM PathwayImplementsChannel ==
  MsgType = "PLAIN" /\ MaskFits => (Spec => Chan!Spec)
<1> SUFFICES ASSUME MsgType = "PLAIN", MaskFits PROVE Spec => Chan!Spec
  OBVIOUS
<1>1. RoomInv /\ [Next]_vars => RoomInv'
  BY MaskReaches, RoomNext
<1>2. RoomInv /\ [Next]_vars => [Chan!Next]_(Chan!vars)
  BY ChannelNext
<1>3. QED  BY RoomInit, ChannelInit, <1>1, <1>2, PTL DEF Spec, Chan!Spec

\* Why MaskFits: with as many receivers as the mask has bits (32), one of them
\* of capacity 0, `processed' has every bit set before a receiver is served.
\* A broadcast is off the wire as soon as it comes to its far end, and no
\* queueing reader has got it.
THEOREM BoundaryLosesBroadcast ==
  ASSUME TypeOK, NumRHS = MaskBits, NEW d \in RHS, RHSCap[d] = 0,
         NEW m \in Msgs, Dest[m] = Broadcast, Flowed[Slot(1)] = m, PostClock
  PROVE  Sampled' = NoMsg /\ \A r \in RHS : RHSCap[r] # 0 => rq'[r] = rq[r]
<1>1. Slot(1) \in 0..PropIdxMask /\ Flowed \in [0..PropIdxMask -> Msgs \union {NoMsg}]
  BY SlotInRing, IssuedType, ConnectionAssumption DEF TypeOK
<1>2. d \in Dests(m) /\ NumRHS % MaskBits = 0
  BY MessageAssumption, EndpointAssumption DEF Dests
<1>3. Nullified(m, {r \in Dests(m) : RHSCap[r] = 0})
  BY <1>2 DEF Nullified, AllProcessed
<1>4. msgprop' = [Flowed EXCEPT ![Slot(1)] = NoMsg] /\ curidx' = Slot(1)
  BY <1>3 DEF PostClock
<1> QED  BY <1>1, <1>4 DEF Sampled, PostClock


-----------------------------------------------------------------------------
(* The newest level is kept *)

LEMMA LastOfAppend ==
  ASSUME NEW S, NEW q \in Seq(S), NEW e \in S, NEW before
  PROVE  LastOf(Append(q, e), before) = e
BY OneMore DEF LastOf

LEMMA LastOfPushed ==
  ASSUME NEW S, NEW q \in Seq(S), NEW e \in S, NEW before
  PROVE  LastOf(<<e>> \o q, before) = LastOf(q, e) /\ LastOf(<<>> \o q, before) = LastOf(q, before)
<1>1. <<e>> \o q # <<>> /\ Len(<<e>> \o q) = Len(q) + 1 /\ Len(q) \in Nat /\ <<>> \o q = q
  OBVIOUS
<1>2. CASE q = <<>>
  <2>1. (<<e>> \o q)[1] = e /\ Len(q) + 1 = 1
    BY <1>2
  <2> QED BY <1>1, <1>2, <2>1 DEF LastOf
<1>3. CASE q # <<>>
  <2>1. (<<e>> \o q)[Len(q) + 1] = q[Len(q)]
    BY <1>3
  <2> QED BY <1>1, <1>3, <2>1 DEF LastOf
<1> QED BY <1>2, <1>3

\* No more than one level waits anywhere.
OneWaits ==
  Len(lq[0]) <= 1 /\ \A r \in RHS : Len(rq[r]) <= 1

ShownLevels == shown \in [RHS -> Slots]

ToggleInv == TypeOK /\ NoGhosts /\ ShownLevels /\ OneWaits /\ NewestLevelKept

\* A level that is assigned is all that waits, and there is room for it.
LEMMA LevelAssigned ==
  ASSUME MsgType = "TOGGLE", NEW q \in Seq(Msgs), Len(q) <= 1, NEW cap \in Nat, NEW m
  PROVE  Accepts(q, cap) /\ Assigned(q, cap, m) = Append(<<>>, m)
<1>1. Kept(q) = <<>>
  BY DEF Kept
<1>2. Len(<<>>) = 0
  OBVIOUS
<1>3. Len(Kept(q)) = 0
  BY <1>1, <1>2, Zenon
<1>4. Accepts(q, cap)
  BY <1>3 DEF Accepts
<1> QED BY <1>1, <1>4, Zenon DEF Assigned

LEMMA ToggleInvInit == NumLHS = 1 /\ ToggleInit => ToggleInv
<1> SUFFICES ASSUME NumLHS = 1, ToggleInit PROVE ToggleInv
  OBVIOUS
<1>1. TypeOK /\ NoGhosts
  BY InitType, GhostInit DEF ToggleInit
<1>2. lq[0] = <<>> /\ ~dropped /\ newest = NoMsg
      /\ \A r \in RHS : rq[r] = <<>> /\ shown[r] = NoMsg
  BY DEF ToggleInit, Init, LHS
<1>3. \A r \in RHS : OnWire(r) = <<>>
  BY OnWireInit DEF ToggleInit
<1>4. OneWaits
  BY <1>2 DEF OneWaits
<1>5. NewestLevelKept
  BY <1>2, <1>3 DEF NewestLevelKept, EndsWith, LastOf
<1>6. ShownLevels
  BY DEF ToggleInit, ShownLevels, Slots
<1> QED BY <1>1, <1>4, <1>5, <1>6 DEF ToggleInv

LEMMA TogglePreClock ==
  ASSUME MsgType = "TOGGLE", ToggleInv, PreClock, UNCHANGED <<newest, shown>>
  PROVE  OneWaits' /\ NewestLevelKept'
<1>1. TypeOK /\ OneWaits /\ NewestLevelKept
  BY DEF ToggleInv
<1>2. Sampled \in Msgs \union {NoMsg} /\ Dests(Sampled) \subseteq RHS
      /\ (Dests(Sampled) # {} => Sampled \in Msgs)
  <2>1. Sampled \in Msgs \union {NoMsg}
    BY <1>1 DEF TypeOK, Sampled
  <2> QED BY <2>1, DestsType
<1>3. ASSUME NEW r \in RHS
      PROVE  /\ Accepts(rq[r], RHSCap[r])
             /\ rq'[r] = IF RHSCap[r] # 0 /\ r \in Dests(Sampled)
                           THEN Append(<<>>, Sampled) ELSE rq[r]
  <2>1. rq[r] \in Seq(Msgs) /\ Len(rq[r]) <= 1 /\ RHSCap[r] \in Nat
    BY <1>1, EndpointAssumption DEF TypeOK, OneWaits
  <2>2. Accepts(rq[r], RHSCap[r])
        /\ Assigned(rq[r], RHSCap[r], Sampled) = Append(<<>>, Sampled)
    BY <2>1, LevelAssigned
  <2>3. rq'[r] = IF RHSCap[r] # 0 /\ r \in Dests(Sampled)
                   THEN Assigned(rq[r], RHSCap[r], Sampled) ELSE rq[r]
    BY DEF PreClock
  <2> QED BY <2>2, <2>3, Zenon
<1>4. ~dropped'
  BY <1>1, <1>2, <1>3 DEF NewestLevelKept, PreClock
<1>5. lq' = lq
  BY DEF PreClock
<1>6. OneWaits'
  <2>1. Len(Append(<<>>, Sampled)) = 1
    <3> DEFINE m == Sampled
    <3>1. m \in {m}
      OBVIOUS
    <3> HIDE DEF m
    <3>2. Len(Append(<<>>, m)) = 1
      BY <3>1
    <3> QED BY <3>2 DEF m
  <2>2. ASSUME NEW r \in RHS PROVE Len(rq'[r]) <= 1
    <3>1. CASE RHSCap[r] # 0 /\ r \in Dests(Sampled)
      <4>1. Len(rq'[r]) = 1
        BY <1>3, <2>1, <3>1, Zenon
      <4> QED BY <4>1
    <3>2. CASE ~(RHSCap[r] # 0 /\ r \in Dests(Sampled))
      BY <1>1, <1>3, <3>2 DEF OneWaits
    <3> QED BY <3>1, <3>2
  <2> QED BY <1>1, <1>5, <2>2 DEF OneWaits
<1>7. ASSUME NEW r \in RHS PROVE EndsWith(r)' = newest
  <2> DEFINE v == OnWire(r)'
             w == OnWire(r)
             q == rq[r]
             m == Sampled
             z == shown[r]
             p == rq'[r]
  <2>1. v \in Seq(Slots) /\ m \in Slots
        /\ w = (IF RHSCap[r] # 0 /\ r \in Dests(m) THEN <<m>> ELSE <<>>) \o v
    BY <1>1, OnWirePreClock
  <2>2. p = IF RHSCap[r] # 0 /\ r \in Dests(m) THEN Append(<<>>, m) ELSE q
    BY <1>3
  <2>3. EndsWith(r) = LastOf(lq[0], LastOf(w, LastOf(q, z)))
    BY DEF EndsWith
  <2>4. EndsWith(r)' = LastOf(lq[0], LastOf(v, LastOf(p, z)))
    BY <1>5 DEF EndsWith, LastOf
  <2> HIDE DEF v, w, q, m, z, p
  <2>5. LastOf(v, LastOf(p, z)) = LastOf(w, LastOf(q, z))
    <3>1. <<>> \in Seq(Slots)
      OBVIOUS
    <3>2. LastOf(Append(<<>>, m), z) = m
      BY <2>1, <3>1, LastOfAppend, Zenon
    <3>3. LastOf(<<m>> \o v, LastOf(q, z)) = LastOf(v, m)
          /\ LastOf(<<>> \o v, LastOf(q, z)) = LastOf(v, LastOf(q, z))
      BY <2>1, LastOfPushed
    <3> QED BY <2>1, <2>2, <3>2, <3>3, Zenon
  <2>6. EndsWith(r) = newest
    BY <1>1 DEF NewestLevelKept
  <2> QED BY <2>3, <2>4, <2>5, <2>6, Zenon
<1> QED BY <1>4, <1>6, <1>7 DEF NewestLevelKept

LEMMA LoneLevel ==
  \A q \in Seq(Msgs) : q # <<>> /\ Len(q) <= 1 =>
    Head(q) \in Msgs /\ Tail(q) = <<>> /\ \A before : LastOf(q, before) = Head(q)
<1> SUFFICES ASSUME NEW q \in Seq(Msgs), q # <<>>, Len(q) <= 1
             PROVE  /\ Head(q) \in Msgs /\ Tail(q) = <<>>
                    /\ \A before : LastOf(q, before) = Head(q)
  OBVIOUS
<1>1. Len(q) = 1
  <2>1. Len(q) \in Nat \ {0}
    BY EmptySeq, Zenon
  <2>2. \A n \in Nat \ {0} : n <= 1 => n = 1
    OBVIOUS
  <2> QED BY <2>1, <2>2, Zenon
<1>2. Head(q) = q[1] /\ Head(q) \in Msgs
  BY <1>1
<1>3. Tail(q) = <<>>
  <2>1. Tail(q) \in Seq(Msgs) /\ Len(Tail(q)) = 0
    BY <1>1, HeadTailProperties
  <2>2. Tail(q) # <<>> => Len(Tail(q)) \in Nat \ {0}
    BY <2>1, EmptySeq, Zenon
  <2> QED BY <2>1, <2>2
<1>4. q[Len(q)] = q[1]
  BY <1>1, Zenon
<1>5. \A before : LastOf(q, before) = q[Len(q)]
  BY Zenon DEF LastOf
<1> QED BY <1>2, <1>3, <1>4, <1>5, Zenon

LEMMA TogglePostClock ==
  ASSUME NumLHS = 1, MsgType = "TOGGLE", MaskFits, \A m \in Msgs : Dest[m] = Broadcast,
         ToggleInv, PostClock, UNCHANGED <<newest, shown>>
  PROVE  OneWaits' /\ NewestLevelKept'
<1>1. TypeOK /\ NoGhosts /\ OneWaits /\ NewestLevelKept
  BY DEF ToggleInv
<1> DEFINE h == Flowed[Slot(1)]
           m == Issued
<1>2. h \in Msgs \union {NoMsg} /\ Dests(h) \subseteq RHS
  <2>1. h \in Msgs \union {NoMsg}
    BY <1>1, SlotInRing, IssuedType, ConnectionAssumption DEF TypeOK
  <2> HIDE DEF h
  <2> QED BY <2>1, DestsType
<1>3. ASSUME NEW r \in RHS
      PROVE  /\ Accepts(rq[r], 0)
             /\ rq'[r] = IF RHSCap[r] = 0 /\ r \in Dests(h) THEN Append(<<>>, h) ELSE rq[r]
  <2>1. rq[r] \in Seq(Msgs) /\ Len(rq[r]) <= 1
    BY <1>1 DEF TypeOK, OneWaits
  <2>2. Accepts(rq[r], 0) /\ Assigned(rq[r], 0, h) = Append(<<>>, h)
    <3> HIDE DEF h
    <3> QED BY <2>1, LevelAssigned
  <2>3. rq'[r] = IF RHSCap[r] = 0 /\ r \in Dests(h) THEN Assigned(rq[r], 0, h) ELSE rq[r]
    BY DEF PostClock
  <2> HIDE DEF h
  <2> QED BY <2>2, <2>3, Zenon
<1>4. ~dropped'
  BY <1>1, <1>2, <1>3 DEF NewestLevelKept, PostClock
<1>5. /\ m = NoMsg => lq' = lq
      /\ m # NoMsg => /\ lq[0] # <<>> /\ LastOf(lq[0], NoMsg) = m /\ lq'[0] = <<>>
                      /\ \A r \in RHS : r \in Dests(m)
  <2>1. CASE Issued = NoMsg
    BY <2>1 DEF PostClock, LHSAfter
  <2>2. CASE Issued # NoMsg
    <3>1. lhsid = 0 /\ lq \in [LHS -> Seq(Msgs)] /\ 0 \in LHS
      BY <1>1 DEF TypeOK, LHS
    <3>2. lq[0] # <<>> /\ Issued = Head(lq[0]) /\ Issued \in Msgs
      BY <1>1, <2>2, <3>1, IssuedType
    <3>3. lq'[0] = Tail(lq[0])
      BY <2>2, <3>1 DEF PostClock, LHSAfter
    <3> DEFINE q == lq[0]
    <3>4. q \in Seq(Msgs) /\ q # <<>> /\ Len(q) <= 1
      BY <1>1, <3>1, <3>2 DEF OneWaits
    <3> HIDE DEF q
    <3>5. Tail(q) = <<>> /\ LastOf(q, NoMsg) = Head(q)
      BY <3>4, LoneLevel, Zenon
    <3>6. \A r \in RHS : r \in Dests(Issued)
      BY <2>2, <3>2 DEF Dests
    <3>7. lq[0] # <<>> /\ LastOf(lq[0], NoMsg) = Issued /\ lq'[0] = <<>>
      BY <3>2, <3>3, <3>5, Zenon DEF q
    <3> QED BY <2>2, <3>6, <3>7, Zenon
  <2> QED BY <2>1, <2>2
<1>6. OneWaits'
  <2>1. Len(Append(<<>>, h)) = 1 /\ Len(<<>>) = 0
    <3>1. h \in {h}
      OBVIOUS
    <3> HIDE DEF h
    <3> QED BY <3>1
  <2>2. ASSUME NEW r \in RHS PROVE Len(rq'[r]) <= 1
    <3>1. CASE RHSCap[r] = 0 /\ r \in Dests(h)
      <4>1. Len(rq'[r]) = 1
        BY <1>3, <2>1, <3>1, Zenon
      <4> QED BY <4>1
    <3>2. CASE ~(RHSCap[r] = 0 /\ r \in Dests(h))
      <4>1. rq'[r] = rq[r]
        <5> HIDE DEF h
        <5> QED BY <1>3, <3>2
      <4> QED BY <1>1, <4>1 DEF OneWaits
    <3> QED BY <3>1, <3>2
  <2>3. Len(lq'[0]) <= 1
    <3>1. lq'[0] = lq[0] \/ lq'[0] = <<>>
      BY <1>5, Zenon
    <3>2. CASE lq'[0] = <<>>
      BY <2>1, <3>2
    <3>3. CASE lq'[0] = lq[0]
      BY <1>1, <3>3 DEF OneWaits
    <3> QED BY <3>1, <3>2, <3>3
  <2> QED BY <2>2, <2>3 DEF OneWaits
<1>7. ASSUME NEW r \in RHS PROVE EndsWith(r)' = newest
  <2> DEFINE v == OnWire(r)'
             w == OnWire(r)
             q == rq[r]
             z == shown[r]
             p == rq'[r]
             l == lq[0]
             k == lq'[0]
  <2>1. v \in Seq(Slots) /\ w \in Seq(Slots) /\ h \in Slots /\ m \in Slots
        /\ (IF RHSCap[r] = 0 /\ r \in Dests(h) THEN <<h>> ELSE <<>>) \o v
           = IF r \in Dests(m) THEN Append(w, m) ELSE w
    BY <1>1, <1>3, OnWirePostClock DEF AheadAccepted
  <2>2. p = IF RHSCap[r] = 0 /\ r \in Dests(h) THEN Append(<<>>, h) ELSE q
    BY <1>3
  <2>3. EndsWith(r) = LastOf(l, LastOf(w, LastOf(q, z)))
    BY DEF EndsWith
  <2>4. EndsWith(r)' = LastOf(k, LastOf(v, LastOf(p, z)))
    BY DEF EndsWith, LastOf
  <2>5. /\ m = NoMsg => k = l /\ r \notin Dests(m)
        /\ m # NoMsg => l # <<>> /\ LastOf(l, NoMsg) = m /\ k = <<>> /\ r \in Dests(m)
    BY <1>5 DEF Dests
  <2> HIDE DEF v, w, q, h, m, z, p, l, k
  <2>6. LastOf(v, LastOf(p, z)) = IF r \in Dests(m) THEN m ELSE LastOf(w, LastOf(q, z))
    <3>1. <<>> \in Seq(Slots)
      OBVIOUS
    <3>2. v \in Seq(Slots) /\ w \in Seq(Slots) /\ h \in Slots /\ m \in Slots
      BY <2>1
    <3>3. LastOf(Append(<<>>, h), z) = h
      BY <3>1, <3>2, LastOfAppend
    <3>4. LastOf(Append(w, m), LastOf(q, z)) = m
      BY <3>2, LastOfAppend
    <3>5. LastOf(<<h>> \o v, LastOf(q, z)) = LastOf(v, h)
      BY <3>2, LastOfPushed
    <3>6. LastOf(<<>> \o v, LastOf(q, z)) = LastOf(v, LastOf(q, z))
      BY <3>2, LastOfPushed
    <3> QED BY <2>1, <2>2, <3>3, <3>4, <3>5, <3>6, Zenon
  <2>7. LastOf(k, LastOf(v, LastOf(p, z))) = LastOf(l, LastOf(w, LastOf(q, z)))
    <3>1. CASE m = NoMsg
      BY <2>5, <2>6, <3>1, Zenon
    <3>2. CASE m # NoMsg
      <4>1. LastOf(k, LastOf(v, LastOf(p, z))) = m
        BY <2>5, <2>6, <3>2, Zenon DEF LastOf
      <4>2. LastOf(l, LastOf(w, LastOf(q, z))) = LastOf(l, NoMsg)
        BY <2>5, <3>2, Zenon DEF LastOf
      <4> QED BY <2>5, <3>2, <4>1, <4>2, Zenon
    <3> QED BY <3>1, <3>2
  <2>8. EndsWith(r) = newest
    BY <1>1 DEF NewestLevelKept
  <2> QED BY <2>3, <2>4, <2>7, <2>8, Zenon
<1> QED BY <1>4, <1>6, <1>7 DEF NewestLevelKept

LEMMA ToggleWrite ==
  ASSUME NumLHS = 1, MsgType = "TOGGLE", ToggleInv, NEW m \in Msgs, Write(m)
  PROVE  OneWaits' /\ NewestLevelKept'
<1>1. TypeOK /\ OneWaits /\ NewestLevelKept
  BY DEF ToggleInv
<1>2. Src[m] = 0 /\ 0 \in LHS /\ lq[0] \in Seq(Msgs) /\ LHSCap[0] \in Nat
  BY <1>1, MessageAssumption, EndpointAssumption DEF LHS, TypeOK
<1>3. /\ lq' = [lq EXCEPT ![0] = Assigned(lq[0], LHSCap[0], m)]
      /\ newest' = m /\ UNCHANGED <<phase, rq, msgprop, curidx, dropped, shown>>
  BY <1>2 DEF Write, LHSAssign
<1>4. Assigned(lq[0], LHSCap[0], m) = Append(<<>>, m)
  BY <1>1, <1>2, LevelAssigned DEF OneWaits
<1>5. lq'[0] = Append(<<>>, m)
  BY <1>1, <1>2, <1>3, <1>4 DEF TypeOK
<1>6. Append(<<>>, m) \in Seq(Msgs) /\ Len(Append(<<>>, m)) = 1 /\ <<>> \in Seq(Msgs)
  OBVIOUS
<1>7. OneWaits'
  <2>1. Len(lq'[0]) = 1
    BY <1>5, <1>6, Zenon
  <2> QED BY <1>1, <1>3, <2>1 DEF OneWaits
<1>8. ASSUME NEW r \in RHS PROVE EndsWith(r)' = m
  <2>1. EndsWith(r)' = LastOf(lq'[0], LastOf(OnWire(r)', LastOf(rq'[r], shown'[r])))
    BY DEF EndsWith, LastOf
  <2> DEFINE before == LastOf(OnWire(r)', LastOf(rq'[r], shown'[r]))
  <2>2. EndsWith(r)' = LastOf(lq'[0], before)
    BY <2>1
  <2> HIDE DEF before
  <2>3. LastOf(Append(<<>>, m), before) = m
    BY <1>6, LastOfAppend
  <2> QED BY <1>5, <2>2, <2>3, Zenon
<1> QED BY <1>1, <1>3, <1>7, <1>8 DEF NewestLevelKept

LEMMA ToggleRead ==
  ASSUME ToggleInv, NEW r \in RHS, Read(r)
  PROVE  ShownLevels' /\ OneWaits' /\ NewestLevelKept'
<1>1. TypeOK /\ shown \in [RHS -> Slots] /\ OneWaits /\ NewestLevelKept
  BY DEF ToggleInv, ShownLevels
<1> DEFINE q == rq[r]
<1>2. /\ q # <<>> /\ rq' = [rq EXCEPT ![r] = Tail(q)]
      /\ shown' = [shown EXCEPT ![r] = Head(q)]
      /\ UNCHANGED <<phase, lq, msgprop, curidx, dropped, newest>>
  BY DEF Read, RHSPop
<1>3. q \in Seq(Msgs) /\ Len(q) <= 1
  BY <1>1 DEF TypeOK, OneWaits
<1> HIDE DEF q
<1>4. /\ Head(q) \in Msgs /\ Tail(q) = <<>>
      /\ LastOf(q, shown[r]) = Head(q)
  BY <1>2, <1>3, LoneLevel
<1>5. \A s \in RHS : OnWire(s)' = OnWire(s)
  BY <1>2 DEF OnWire, Wire, Slot, FirstInFlight, Dests
<1>6. /\ rq'[r] = <<>> /\ shown'[r] = Head(q)
      /\ \A s \in RHS \ {r} : rq'[s] = rq[s] /\ shown'[s] = shown[s]
  <2>1. rq \in [RHS -> Seq(Msgs)]
    BY <1>1 DEF TypeOK
  <2>2. rq'[r] = Tail(q) /\ \A s \in RHS \ {r} : rq'[s] = rq[s]
    BY <1>2, <2>1
  <2>3. shown'[r] = Head(q) /\ \A s \in RHS \ {r} : shown'[s] = shown[s]
    BY <1>1, <1>2
  <2> QED BY <1>4, <2>2, <2>3
<1>7. OneWaits'
  <2>1. Len(<<>>) = 0
    OBVIOUS
  <2>2. Len(rq'[r]) = 0
    BY <1>6, <2>1, Zenon
  <2>3. \A s \in RHS \ {r} : Len(rq'[s]) = Len(rq[s])
    BY <1>6, Zenon
  <2>4. \A s \in RHS : Len(rq[s]) <= 1
    BY <1>1 DEF OneWaits
  <2>5. \A s \in RHS : Len(rq'[s]) <= 1
    BY <2>2, <2>3, <2>4
  <2> QED BY <1>1, <1>2, <2>5 DEF OneWaits
<1>8. ASSUME NEW s \in RHS PROVE EndsWith(s)' = newest
  <2>1. EndsWith(s) = newest
    BY <1>1 DEF NewestLevelKept
  <2>2. LastOf(rq'[s], shown'[s]) = LastOf(rq[s], shown[s])
    <3>1. CASE s = r
      <4>1. LastOf(rq[r], shown[r]) = Head(q)
        BY <1>4 DEF q
      <4> QED BY <1>6, <3>1, <4>1, Zenon DEF LastOf
    <3>2. CASE s # r
      BY <1>6, <3>2
    <3> QED BY <3>1, <3>2
  <2>3. EndsWith(s)' = LastOf(lq'[0], LastOf(OnWire(s)', LastOf(rq'[s], shown'[s])))
    BY DEF EndsWith, LastOf
  <2> QED BY <1>2, <1>5, <2>1, <2>2, <2>3 DEF EndsWith
<1>9. ShownLevels'
  BY <1>1, <1>2, <1>4 DEF ShownLevels, Slots
<1> QED BY <1>1, <1>2, <1>7, <1>8, <1>9 DEF NewestLevelKept

LEMMA ToggleInvNext ==
  ASSUME NumLHS = 1, MsgType = "TOGGLE", MaskFits, \A m \in Msgs : Dest[m] = Broadcast,
         ToggleInv, [ToggleNext]_ToggleVars
  PROVE  ToggleInv'
<1>1. [Next]_vars
  BY MessageAssumption DEF ToggleNext, Clock, Write, Read, Next, ToggleVars
<1>2. TypeOK' /\ NoGhosts'
  BY <1>1, GhostNext DEF ToggleInv
<1>3. CASE Clock
  BY <1>2, <1>3, TogglePreClock, TogglePostClock DEF Clock, ToggleInv, ShownLevels
<1>4. CASE \E m \in Msgs : Write(m)
  BY <1>2, <1>4, ToggleWrite DEF ToggleInv, ShownLevels, Write
<1>5. CASE \E r \in RHS : Read(r)
  BY <1>2, <1>5, ToggleRead DEF ToggleInv
<1>6. CASE UNCHANGED ToggleVars
  <2>1. UNCHANGED <<phase, lq, rq, msgprop, curidx, dropped, newest, shown>>
    BY <1>6 DEF ToggleVars, vars
  <2>2. OneWaits' /\ ShownLevels'
    BY <2>1 DEF ToggleInv, OneWaits, ShownLevels
  <2>3. \A r \in RHS : OnWire(r)' = OnWire(r)
    BY <2>1 DEF OnWire, Wire, Slot, FirstInFlight, Dests
  <2>4. \A r \in RHS : EndsWith(r)' = EndsWith(r)
    BY <2>1, <2>3 DEF EndsWith, LastOf
  <2>5. NewestLevelKept'
    BY <2>1, <2>4 DEF ToggleInv, NewestLevelKept
  <2> QED BY <1>2, <2>2, <2>5 DEF ToggleInv
<1> QED BY <1>3, <1>4, <1>5, <1>6 DEF ToggleNext

\* A pathway with one writer that broadcasts levels, over a wire of any latency
\* to readers (MaskFits) with queues of any capacity, never drops a level and
\* never loses the newest: what a slow reader finds last is what was written
\* last, however often it was replaced on the way.
THEOREM NewestLevelIsKept ==
  NumLHS = 1 /\ MsgType = "TOGGLE" /\ MaskFits /\ (\A m \in Msgs : Dest[m] = Broadcast)
    => (ToggleSpec => []NewestLevelKept)
<1> SUFFICES ASSUME NumLHS = 1, MsgType = "TOGGLE", MaskFits, \A m \in Msgs : Dest[m] = Broadcast
             PROVE  ToggleSpec => []NewestLevelKept
  OBVIOUS
<1>1. ToggleInit => ToggleInv
  BY ToggleInvInit
<1>2. ToggleInv /\ [ToggleNext]_ToggleVars => ToggleInv'
  BY ToggleInvNext
<1>3. ToggleInv => NewestLevelKept
  BY DEF ToggleInv
<1>4. QED  BY <1>1, <1>2, <1>3, PTL DEF ToggleSpec
===============================================================================
