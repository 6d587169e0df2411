---------------------------- MODULE BookSimRoute ----------------------------
(***************************************************************************)
(* What the routing functions of BookSim (lib/tsim/lib/booksim2) have in   *)
(* common: the header of a packet, ranges of virtual channels (VCs), and   *)
(* the set of outputs a function offers a packet.                          *)
(*                                                                         *)
(* A routing function is an operator of a router, the port the packet came *)
(* in by and the packet's header.  It returns the set of its possible      *)
(* results, one for every outcome of its random draws and every comparison *)
(* of buffer occupancies; a result is the header as the function leaves it *)
(* and the outputs.  The port Inject asks for the VCs a packet may use     *)
(* between its node and the router (the parameter inject of the code).     *)
(* Packets are of type ANY_TYPE, which has all VCs.                        *)
(***************************************************************************)
EXTENDS Integers, Sequences, FiniteSets, FiniteSetsExt, SequencesExt

CONSTANT gNumVCs

Inject == -1

VCs(lo, hi) == [lo |-> lo, hi |-> hi]

AllVCs == VCs(0, gNumVCs - 1)

Width(r) == r.hi - r.lo + 1

\* vcEnd -= a, vcBegin += a.
Below(r, a) == VCs(r.lo, r.hi - a)
Above(r, a) == VCs(r.lo + a, r.hi)

Half(r, upper) ==
  IF upper THEN Above(r, Width(r) \div 2) ELSE Below(r, Width(r) \div 2)

\* The i-th of m equal shares.
Share(r, i, m) ==
  LET size == Width(r) \div m
  IN VCs(r.lo + i * size, r.lo + (i + 1) * size - 1)

Output(port, r, pri) == [port |-> port, lo |-> r.lo, hi |-> r.hi, pri |-> pri]

\* OutputSet is a std::set whose order compares the priorities only: a second
\* range of the same priority is not inserted.
AddRange(outs, out) ==
  IF \E o \in outs : o.pri = out.pri THEN outs ELSE outs \union {out}

\* A result that offers the ranges of a sequence, in that order.
Offer(f, outs) == [f |-> f, outs |-> FoldLeft(AddRange, {}, outs)]

\* A result with one range.
Via(f, port, r) == Offer(f, <<Output(port, r, 0)>>)
=============================================================================
