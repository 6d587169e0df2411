----------------------------- MODULE Allocators -----------------------------
(***************************************************************************)
(* The allocators of BookSim (allocators/) and the arbiters some of them   *)
(* are made of (arbiters/): given requests of inputs for outputs, they     *)
(* choose a matching.  The requests of a cycle are a function from pairs   *)
(* <<input, output>> to their two priorities.  An allocator is a record;   *)
(* its turns are what it remembers from one cycle to the next.             *)
(***************************************************************************)
EXTENDS Selection, FiniteSets, SequencesExt

\* The first element of S from offset on, around a circle of size positions.
FirstFrom(S, offset, size) ==
  CHOOSE x \in S : \A y \in S : (x - offset + size) % size <= (y - offset + size) % size

Highest(pri) == {x \in DOMAIN pri : \A y \in DOMAIN pri : pri[y] <= pri[x]}

\* All ways to choose from the sets of a function; OneOfEach says again what each
\* of them meets, so that no proof needs an induction over the fold.
AllChoices(sets) ==
  FoldSet(LAMBDA x, chosen : {Override([y \in {x} |-> v], d) : d \in chosen, v \in sets[x]},
          {<<>>}, DOMAIN sets)

OneOfEach(sets) == {c \in AllChoices(sets) : \A x \in DOMAIN sets : c[x] \in sets[x]}

-----------------------------------------------------------------------------
(* Arbiters.  pri gives the priority of every request. *)

\* A matrix arbiter remembers which of two wins; a round robin, where to start.
SimpleArbiter(kind, size) ==
  IF kind = "matrix"
  THEN [kind |-> kind, size |-> size,
        over |-> {p \in (0..(size - 1)) \X (0..(size - 1)) : p[1] > p[2]}]
  ELSE [kind |-> kind, size |-> size, pointer |-> 0]

SimpleWinner(arb, pri) ==
  LET best == Highest(pri)
  IN IF arb.kind = "matrix"
     THEN CHOOSE x \in best : \A y \in best \ {x} : <<x, y>> \in arb.over
     ELSE FirstFrom(best, arb.pointer, arb.size)

\* UpdateState: the winner is the last next time.
SimpleUpdated(arb, x) ==
  IF arb.kind = "matrix"
  THEN LET others == 0..(arb.size - 1) \ {x}
       IN [arb EXCEPT !.over = (@ \ ({x} \X others)) \union (others \X {x})]
  ELSE [arb EXCEPT !.pointer = (x + 1) % arb.size]

\* A tree: an arbiter for each group, and one for the groups.  Any other
\* arbiter is a tree with one group.
NewArbiter(type, size) ==
  [global |-> SimpleArbiter(type.kind, type.groups),
   group |-> [g \in 0..(type.groups - 1) |-> SimpleArbiter(type.kind, size \div type.groups)]]

Winner(arb, pri) ==
  LET size == arb.group[0].size
      members(g) == {x \in DOMAIN pri : x \div size = g}
      in_group(g) == [x \in {y % size : y \in members(g)} |-> pri[g * size + x]]
      first(g) == g * size + SimpleWinner(arb.group[g], in_group(g))
      groups == {x \div size : x \in DOMAIN pri}
  IN first(SimpleWinner(arb.global, [g \in groups |-> pri[first(g)]]))

Updated(arb, x) ==
  LET size == arb.group[0].size
  IN [global |-> SimpleUpdated(arb.global, x \div size),
      group |-> [arb.group EXCEPT ![x \div size] = SimpleUpdated(@, x % size)]]

-----------------------------------------------------------------------------
(* Allocators *)

\* The types there are.  The groups of a tree are of one size; SelAlloc is right
\* for one iteration only (see SelectTwiceIsNone); the search of MaxSizeMatch has
\* as many places for outputs as there are inputs.
IsType(type, inputs, outputs) ==
  \/ type.name = "islip" /\ type.iters \in Nat
  \/ type.name = "select" /\ type.iters = 1
  \/ type.name \in {"loa", "wavefront", "rr_wavefront"}
  \/ type.name = "max_size" /\ outputs <= inputs
  \/ /\ type.name \in {"separable_input_first", "separable_output_first"}
     /\ type.arb.groups \in Nat \ {0}
     /\ inputs % type.arb.groups = 0 /\ outputs % type.arb.groups = 0

\* Between cycles inmatch and outmatch are cleared.
NewAllocator(type, inputs, outputs) ==
  [type |-> type, inputs |-> inputs, outputs |-> outputs, inmatch |-> <<>>, outmatch |-> <<>>,
   turns |->
     CASE type.name \in {"islip", "select", "loa"} ->
            [grant |-> [o \in 0..(outputs - 1) |-> 0], accept |-> [i \in 0..(inputs - 1) |-> 0]]
       [] type.name \in {"separable_input_first", "separable_output_first"} ->
            [input |-> [i \in 0..(inputs - 1) |-> NewArbiter(type.arb, outputs)],
             output |-> [o \in 0..(outputs - 1) |-> NewArbiter(type.arb, inputs)]]
       [] OTHER -> [pri |-> 0]]

Cleared(a) == [a EXCEPT !.inmatch = <<>>, !.outmatch = <<>>]

Matched(a, i, o) ==
  [a EXCEPT !.inmatch = Override([j \in {i} |-> o], @),
            !.outmatch = Override([p \in {o} |-> i], @)]

\* The unmatched inputs that ask for an output.
Asking(a, requests, o) ==
  {i \in 0..(a.inputs - 1) \ DOMAIN a.inmatch : <<i, o>> \in DOMAIN requests}

\* The unmatched outputs some unmatched input asks for.
Wanted(a, requests) ==
  {o \in {r[2] : r \in DOMAIN requests} \ DOMAIN a.outmatch : Asking(a, requests, o) # {}}

\* One iteration of SelAlloc::Allocate: every wanted output grants, every input
\* accepts one of the outputs that have granted it, in this iteration or an
\* earlier one.  The turns move on with what is accepted in the first.
GrantAndAccept(s, requests, first) ==
  LET a == s.a
      bids(o) == [i \in Asking(a, requests, o) |-> requests[<<i, o>>].out_pri]
      grants == Override([o \in Wanted(a, requests) |->
                           FirstFrom(Highest(bids(o)), a.turns.grant[o], a.inputs)], s.grants)
      offers(i) == [o \in {p \in DOMAIN grants : grants[p] = i} |-> requests[<<i, o>>].in_pri]
      accepted == Evaluated([i \in {grants[o] : o \in DOMAIN grants} |->
                     FirstFrom(Highest(offers(i)), a.turns.accept[i], a.outputs)])
      taken == [o \in {accepted[i] : i \in DOMAIN accepted} |-> grants[o]]
      next == [grant |-> Override([o \in DOMAIN taken |-> (taken[o] + 1) % a.inputs],
                                  a.turns.grant),
               accept |-> Override([i \in DOMAIN accepted |-> (accepted[i] + 1) % a.outputs],
                                   a.turns.accept)]
  IN [grants |-> grants,
      a |-> [a EXCEPT !.inmatch = Override(accepted, @), !.outmatch = Override(taken, @),
                      !.turns = IF first THEN next ELSE @]]

SelAlloc(a, requests) ==
  LET after[k \in 0..a.type.iters] ==
        IF k = 0 THEN [a |-> a, grants |-> <<>>]
        ELSE GrantAndAccept(after[k - 1], requests, k = 1)
  IN after[a.type.iters].a

\* iSLIP_Sparse::Allocate does the same without priorities, and its grants are
\* those of the iteration.
iSLIP(a, requests) ==
  LET plain == [r \in DOMAIN requests |-> [in_pri |-> 0, out_pri |-> 0]]
      after[k \in 0..a.type.iters] ==
        IF k = 0 THEN a
        ELSE GrantAndAccept([a |-> after[k - 1], grants |-> <<>>], plain, k = 1).a
  IN after[a.type.iters]

\* LOA::Allocate: an input asks for the output fewest ask for.
LOA(a, requests) ==
  LET count(o) == Cardinality(Asking(a, requests, o))
      choices(i) == {o \in 0..(a.outputs - 1) : <<i, o>> \in DOMAIN requests}
      lonely == Evaluated([i \in {r[1] : r \in DOMAIN requests} |->
                  FirstFrom({o \in choices(i) : \A p \in choices(i) : count(o) <= count(p)},
                            a.turns.accept[i], a.outputs)])
      granted == Evaluated([o \in {lonely[i] : i \in DOMAIN lonely} |->
                   FirstFrom({i \in DOMAIN lonely : lonely[i] = o}, a.turns.grant[o], a.inputs)])
      winners == {granted[o] : o \in DOMAIN granted}
  IN [a EXCEPT
       !.outmatch = granted,
       !.inmatch = [i \in winners |-> lonely[i]],
       !.turns =
         [grant |-> Override([o \in DOMAIN granted |-> (@.grant[o] + 1) % a.inputs], @.grant),
          accept |-> Override([i \in winners |-> (@.accept[i] + 1) % a.outputs], @.accept)]]

\* PIM::Allocate: grants and accepts are drawn; so this is a set.
PIMIteration(a, requests) ==
  LET wanted == Wanted(a, requests)
      offers(grants, i) == {o \in wanted : grants[o] = i}
      accepts(grants) == OneOfEach([i \in {grants[o] : o \in wanted} |-> offers(grants, i)])
      taken(grants, acc) == [o \in {acc[i] : i \in DOMAIN acc} |-> grants[o]]
      all(grants) == {[a EXCEPT !.inmatch = Override(acc, @),
                                !.outmatch = Override(taken(grants, acc), @)] :
                      acc \in accepts(grants)}
  IN UNION {all(grants) : grants \in OneOfEach([o \in wanted |-> Asking(a, requests, o)])}

PIM(a, requests) ==
  FoldLeft(LAMBDA as, iter : UNION {PIMIteration(b, requests) : b \in as}, {a},
           [iter \in 1..a.type.iters |-> iter])

-----------------------------------------------------------------------------
(* MaxSizeMatch: augmenting paths, searched breadth first *)

\* The search: from[j] is the input output j was reached from, next the inputs
\* of the next round, end the unmatched output that ends the path.
Visit(a, requests, s, i, j) ==
  IF \/ s.end # -1 \/ <<i, j>> \notin DOMAIN requests \/ j \in DOMAIN s.from
     \/ i \in DOMAIN a.inmatch /\ a.inmatch[i] = j
  THEN s
  ELSE [from |-> Override([k \in {j} |-> i], s.from),
        next |-> IF j \in DOMAIN a.outmatch THEN Append(s.next, a.outmatch[j]) ELSE s.next,
        end |-> IF j \in DOMAIN a.outmatch THEN -1 ELSE j]

\* A round: each of the inputs to go on from tries the outputs in turn.
SearchRound(a, requests, s) ==
  LET tries == Len(s.next) * a.outputs
      after[k \in 0..tries] ==
        IF k = 0 THEN [s EXCEPT !.next = <<>>]
        ELSE Visit(a, requests, after[k - 1], s.next[((k - 1) \div a.outputs) + 1],
                   (k - 1) % a.outputs)
  IN after[tries]

\* What a search finds that starts at the unmatched inputs.
Search(a, requests) ==
  LET inputs == [i \in 1..a.inputs |-> (i - 1 + a.turns.pri) % a.inputs]
      after[k \in 0..a.inputs] ==
        IF k = 0 THEN [from |-> <<>>, end |-> -1,
                       next |-> Selected(inputs, Range(inputs) \ DOMAIN a.inmatch)]
        ELSE SearchRound(a, requests, after[k - 1])
  IN after[a.inputs]

\* Along the path every input takes the output it was reached through.
AugmentFrom(s, from) ==
  IF s.end = -1 THEN s
  ELSE LET i == from[s.end]
       IN [a |-> Matched(s.a, i, s.end),
           end |-> IF i \in DOMAIN s.a.inmatch THEN s.a.inmatch[i] ELSE -1]

Augmented(a, search) ==
  LET after[k \in 0..a.inputs] ==
        IF k = 0 THEN [a |-> a, end |-> search.end] ELSE AugmentFrom(after[k - 1], search.from)
  IN after[a.inputs].a

ShortestAugmenting(a, requests) == Augmented(a, Search(a, requests))

MaxSizeMatch(a, requests) ==
  LET after[k \in 0..a.inputs] ==
        IF k = 0 THEN a ELSE ShortestAugmenting(after[k - 1], requests)
  IN [after[a.inputs] EXCEPT !.turns.pri = (@ + 1) % a.inputs]

-----------------------------------------------------------------------------
\* Wavefront::Allocate: by priority, then diagonal by diagonal; the requests of
\* a diagonal are not in each other's way.
Wavefront(a, requests) ==
  LET square == IF a.inputs > a.outputs THEN a.inputs ELSE a.outputs
      diagonal(r) == (r[1] + r[2] - a.turns.pri + square) % square
      before(r, q) ==
        \/ requests[r].out_pri > requests[q].out_pri
        \/ /\ requests[r].out_pri = requests[q].out_pri
           /\ \/ requests[r].in_pri > requests[q].in_pri
              \/ /\ requests[r].in_pri = requests[q].in_pri
                 /\ \/ diagonal(r) < diagonal(q)
                    \/ diagonal(r) = diagonal(q) /\ r[2] < q[2]
      first(R) == CHOOSE r \in R : \A q \in R : ~before(q, r)
      free(b) == {r \in DOMAIN requests :
                    r[1] \notin DOMAIN b.inmatch /\ r[2] \notin DOMAIN b.outmatch}
      grant(b) == IF free(b) = {} THEN b ELSE LET r == first(free(b)) IN Matched(b, r[1], r[2])
      start == IF a.type.name = "rr_wavefront" THEN LET r == first(free(a)) IN r[1] + r[2]
               ELSE a.turns.pri
      after[n \in 0..square] == IF n = 0 THEN a ELSE grant(after[n - 1])
  IN IF requests = <<>> THEN a ELSE [after[square] EXCEPT !.turns.pri = (start + 1) % square]

\* SeparableInputFirstAllocator::Allocate: the arbiter of an input chooses one
\* of its requests, the arbiter of an output one of those.
SeparableInputFirst(a, requests) ==
  LET wants(i) == [o \in {r[2] : r \in {q \in DOMAIN requests : q[1] = i}} |->
                     requests[<<i, o>>].in_pri]
      chosen == Evaluated([i \in {r[1] : r \in DOMAIN requests} |->
                             Winner(a.turns.input[i], wants(i))])
      bids(o) == [i \in {j \in DOMAIN chosen : chosen[j] = o} |-> requests[<<i, o>>].out_pri]
      granted == Evaluated([o \in {chosen[i] : i \in DOMAIN chosen} |->
                              Winner(a.turns.output[o], bids(o))])
      winners == {granted[o] : o \in DOMAIN granted}
  IN [a EXCEPT
       !.outmatch = granted,
       !.inmatch = [i \in winners |-> chosen[i]],
       !.turns =
         [input |-> Override([i \in winners |-> Updated(@.input[i], chosen[i])], @.input),
          output |-> Override([o \in DOMAIN granted |-> Updated(@.output[o], granted[o])],
                              @.output)]]

\* With inputs and outputs exchanged.
Transposed(a) ==
  [a EXCEPT !.inputs = a.outputs, !.outputs = a.inputs,
            !.inmatch = a.outmatch, !.outmatch = a.inmatch,
            !.turns = [input |-> @.output, output |-> @.input]]

SeparableOutputFirst(a, requests) ==
  Transposed(SeparableInputFirst(Transposed(a),
    [r \in {<<q[2], q[1]>> : q \in DOMAIN requests} |->
       [in_pri |-> requests[<<r[2], r[1]>>].out_pri, out_pri |-> requests[<<r[2], r[1]>>].in_pri]]))

\* The allocator after Clear, the requests and Allocate; for all but PIM.
Allocate(a, requests) ==
  CASE a.type.name = "islip" -> iSLIP(a, requests)
    [] a.type.name = "select" -> SelAlloc(a, requests)
    [] a.type.name = "loa" -> LOA(a, requests)
    [] a.type.name = "max_size" -> MaxSizeMatch(a, requests)
    [] a.type.name \in {"wavefront", "rr_wavefront"} -> Wavefront(a, requests)
    [] a.type.name = "separable_input_first" -> SeparableInputFirst(a, requests)
    [] a.type.name = "separable_output_first" -> SeparableOutputFirst(a, requests)
=============================================================================
