----------------------------- MODULE BufferState -----------------------------
(***************************************************************************)
(* What the sender of a BookSim channel knows of the input buffer behind   *)
(* it (buffer_state.cpp): for every VC the flits that were sent and have   *)
(* not been credited, and the packet that has taken the VC; and the        *)
(* policies by which the VCs share the buffer.                             *)
(*                                                                         *)
(* The counts the code keeps of the shared part follow from those of the   *)
(* VCs: a slot is held for every flit that is not credited and for every   *)
(* VC in "reserved"; the shared slots are those above the private sizes.   *)
(***************************************************************************)
EXTENDS Selection, FiniteSetsExt

CONSTANTS
  NumVCs, VCBufSize,
  Configs              \* the configurations, see Default in MCBookSimNetwork

ASSUME BufferAssumption == NumVCs \in Nat \ {0} /\ VCBufSize \in Nat \ {0}

VARIABLE config        \* the Configuration of BookSim; it never changes

VCIds == 0..(NumVCs - 1)
Free == -1

NewBufferState ==
  [occupancy |-> [vc \in VCIds |-> 0], in_use_by |-> [vc \in VCIds |-> Free],
   tail_sent |-> {},   \* of the VCs in use; they stay so with wait_for_tail_credit
   reserved |-> {}]    \* VCs in use that keep a slot though they are empty

IsAvailableFor(buf, vc) == buf.in_use_by[vc] = Free
IsEmptyFor(buf, vc) == buf.occupancy[vc] = 0

-----------------------------------------------------------------------------
(* The policies *)

BufSize == NumVCs * VCBufSize
PrivateBufs == 0..(config.private_bufs - 1)
PrivateVCs(b) ==
  ((b * NumVCs) \div config.private_bufs)..(((b + 1) * NumVCs) \div config.private_bufs - 1)
PrivateBufOf(vc) == CHOOSE b \in PrivateBufs : vc \in PrivateVCs(b)
SharedSize == BufSize - config.private_bufs * config.private_buf_size

HeldBy(buf, b) ==
  MapThenSumSet(LAMBDA vc : buf.occupancy[vc] + IF vc \in buf.reserved THEN 1 ELSE 0,
                PrivateVCs(b))
SharedHeld(buf) ==
  MapThenSumSet(LAMBDA b : Max({0, HeldBy(buf, b) - config.private_buf_size}), PrivateBufs)

\* _active_vcs: taken, and the tail is not sent.
ActiveVCs(buf) == {vc \in VCIds : buf.in_use_by[vc] # Free /\ vc \notin buf.tail_sent}

\* size shifted right once for every bit of n.
ShiftedByBits(size, n) ==
  LET bits == CHOOSE k \in 0..n : 2^k > n /\ \A j \in 0..(k - 1) : 2^j <= n IN size \div 2^bits

\* _max_held_slots.
MaxHeldSlots(buf) ==
  LET active == Max({1, Cardinality(ActiveVCs(buf))})
  IN CASE config.buffer_policy = "shared" -> BufSize
       [] config.buffer_policy = "limited" -> config.max_held_slots
       [] config.buffer_policy = "dynamic" -> BufSize \div active
       [] config.buffer_policy = "shifting" -> ShiftedByBits(BufSize, active - 1)

\* Mutant of IsFullFor: one flit too many.
IsFullForLate(buf, vc) == buf.occupancy[vc] > VCBufSize

IsFullFor(buf, vc) ==
  IF config.buffer_policy = "private" THEN buf.occupancy[vc] >= VCBufSize
  ELSE \/ /\ vc \notin buf.reserved
          /\ HeldBy(buf, PrivateBufOf(vc)) >= config.private_buf_size
          /\ SharedHeld(buf) >= SharedSize
       \/ buf.occupancy[vc] >= MaxHeldSlots(buf)

\* "Buffer overflow", "Buffer overflow for VC", "Shared buffer overflow", and
\* "Buffer occupancy fell below zero".
Overflows(buf) ==
  \/ \E vc \in VCIds : buf.occupancy[vc] < 0
  \/ MapThenSumSet(LAMBDA vc : buf.occupancy[vc], VCIds) > BufSize
  \/ IF config.buffer_policy = "private" THEN \E vc \in VCIds : buf.occupancy[vc] > VCBufSize
     ELSE SharedHeld(buf) > SharedSize

-----------------------------------------------------------------------------
(* The operations; those that change a buffer take all the calls of a cycle
   at once, which are for different VCs. *)

\* tags[vc] takes the VC.
TakeBuffer(buf, tags) ==
  [buf EXCEPT !.in_use_by = Override(tags, @), !.tail_sent = @ \ DOMAIN tags]

\* A flit uses the slot that is reserved; the tail gives it up, and the VC
\* unless it is to be kept until everything is credited.
SendingFlit(buf, flits) ==
  LET sent == {f.vc : f \in flits}
      tails == {f.vc : f \in {g \in flits : g.tail}}
      freed == IF config.wait_for_tail_credit THEN {} ELSE tails
  IN [occupancy |-> Override([vc \in sent |-> buf.occupancy[vc] + 1], buf.occupancy),
      in_use_by |-> Override([vc \in freed |-> Free], buf.in_use_by),
      tail_sent |-> buf.tail_sent \union (tails \ freed),
      reserved |-> buf.reserved \ sent]

\* A credit gives a slot back in each of its VCs; one in use that is empty now
\* reserves it.
ProcessCredit(buf, credit) ==
  LET occupancy == Override([vc \in credit |-> buf.occupancy[vc] - 1], buf.occupancy)
      empty == {vc \in credit : occupancy[vc] = 0}
      done == empty \intersect buf.tail_sent
  IN [occupancy |-> occupancy,
      in_use_by |-> Override([vc \in done |-> Free], buf.in_use_by),
      tail_sent |-> buf.tail_sent \ done,
      reserved |-> IF config.buffer_policy = "private" THEN {}
                   ELSE buf.reserved \union
                        {vc \in empty \ done : buf.in_use_by[vc] # Free}]
=============================================================================
