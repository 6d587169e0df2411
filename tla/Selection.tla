------------------------------ MODULE Selection ------------------------------
(***************************************************************************)
(* The members of a set in a sequence, in their order, and functions that  *)
(* are changed at some arguments; with what the proofs need of them.       *)
(* Induction and recursion up to a bound are stated about sets and         *)
(* functions, so that the provers can use them: a loop of the code is a    *)
(* function on 0..n whose value at k is computed from its value at k - 1.  *)
(***************************************************************************)
EXTENDS Integers, Sequences, TLC, WellFoundedInduction, TLAPS

\* Those among the first i elements of s, for every i.
Selecting(s, T) ==
  LET first[i \in 0..Len(s)] ==
        IF i = 0 THEN <<>>
        ELSE IF s[i] \in T THEN Append(first[i - 1], s[i]) ELSE first[i - 1]
  IN first

Selected(s, T) == Selecting(s, T)[Len(s)]

\* A function itself, in the form of which TLC computes every value once.
Evaluated(f) == LET g == <<>> @@ f IN IF g = f THEN g ELSE f

\* A function that is changed where another one is defined.
Override(new, old) ==
  Evaluated([x \in DOMAIN new \union DOMAIN old |-> IF x \in DOMAIN new THEN new[x] ELSE old[x]])

-----------------------------------------------------------------------------
(* Loops *)

Below == {ss \in Nat \X Nat : ss[1] < ss[2]}

\* A set of natural numbers has a least element.
LEMMA LeastNat ==
  ASSUME NEW T \in SUBSET Nat, T # {}
  PROVE  \E n \in T : \A k \in T : n <= k
<1>1. IsWellFoundedOn(OpToRel(<, Nat), Nat)
  BY NatLessThanWellFounded
<1>2. OpToRel(<, Nat) = Below
  BY Zenon DEF OpToRel, Below
<1>3. IsWellFoundedOn(Below, Nat)
  BY <1>1, <1>2, Zenon
<1>4. PICK n \in T : \A k \in T : ~ (<<k, n>> \in Below)
  BY <1>3, WFMin, Zenon
<1>5. ASSUME NEW k \in T PROVE n <= k
  <2>1. k \in Nat /\ n \in Nat /\ ~ (<<k, n>> \in Below)
    BY <1>4
  <2>2. <<k, n>> \in Below <=> k < n
    BY <2>1 DEF Below
  <2> QED BY <2>1, <2>2
<1> QED BY <1>5

\* Induction on the numbers up to n, for the members of a set.
LEMMA UpTo ==
  ASSUME NEW n \in Nat, NEW S, 0 \in S, \A k \in 1..n : k - 1 \in S => k \in S
  PROVE  \A k \in 0..n : k \in S
<1> DEFINE Bad == {k \in 0..n : k \notin S}
<1>1. SUFFICES ASSUME Bad # {} PROVE FALSE
  OBVIOUS
<1>2. Bad \in SUBSET Nat
  OBVIOUS
<1>3. PICK b \in Bad : \A k \in Bad : b <= k
  <2> HIDE DEF Bad
  <2> QED BY <1>1, <1>2, LeastNat
<1>4. b \in 1..n /\ b - 1 \in S
  BY <1>3
<1> QED BY <1>3, <1>4

\* The state, a member of S, after each of the n turns of a loop: a before
\* the first, and G[k] says what turn k does.
IsHistory(g, n, S, a, G) ==
  g \in [0..n -> S] /\ g[0] = a /\ \A k \in 1..n : g[k] = G[k][g[k - 1]]

\* Every loop has a history.
LEMMA History ==
  ASSUME NEW n \in Nat, NEW S, NEW a \in S, NEW G \in [1..n -> [S -> S]]
  PROVE  \E g : IsHistory(g, n, S, a, G)
<1> DEFINE Partial(m, g) == g[0] = a /\ \A k \in 1..m : g[k] = G[k][g[k - 1]]
           Done == {m \in 0..n : \E g \in [0..m -> S] : Partial(m, g)}
<1>1. 0 \in Done
  <2> DEFINE g == [i \in 0..0 |-> a]
  <2>1. g \in [0..0 -> S] /\ Partial(0, g)
    OBVIOUS
  <2>2. \E h \in [0..0 -> S] : Partial(0, h)
    <3> HIDE DEF Partial, g
    <3> QED BY <2>1
  <2> HIDE DEF Partial
  <2> QED BY <2>2
<1>2. ASSUME NEW m \in 1..n, m - 1 \in Done PROVE m \in Done
  <2>1. PICK g \in [0..(m - 1) -> S] : Partial(m - 1, g)
    <3> HIDE DEF Partial
    <3> QED BY <1>2
  <2> DEFINE h == [i \in 0..m |-> IF i = m THEN G[m][g[m - 1]] ELSE g[i]]
  <2>2. h \in [0..m -> S]
    OBVIOUS
  <2>3. Partial(m, h)
    BY <2>1
  <2>4. \E f \in [0..m -> S] : Partial(m, f)
    <3> HIDE DEF Partial, h
    <3> QED BY <2>2, <2>3
  <2> HIDE DEF Partial
  <2> QED BY <2>4
<1>3. n \in Done
  <2> HIDE DEF Done
  <2>1. \A k \in 1..n : k - 1 \in Done => k \in Done
    BY <1>2
  <2>2. \A k \in 0..n : k \in Done
    BY <1>1, <2>1, UpTo, Zenon
  <2> QED BY <2>2
<1> QED BY <1>3 DEF IsHistory

-----------------------------------------------------------------------------
(* Selections *)

LEMMA OneMore ==
  ASSUME NEW S, NEW s \in Seq(S), NEW e \in S
  PROVE  /\ Append(s, e) \in Seq(S) /\ Len(Append(s, e)) = Len(s) + 1
         /\ Append(s, e)[Len(s) + 1] = e
         /\ \A i \in 1..Len(s) : Append(s, e)[i] = s[i]
OBVIOUS

\* How the selection among the first i elements is computed.
LEMMA SelectingSteps ==
  ASSUME NEW S, NEW s \in Seq(S), NEW T
  PROVE  /\ Selecting(s, T) \in [0..Len(s) -> Seq(S)]
         /\ Selecting(s, T)[0] = <<>>
         /\ \A i \in 1..Len(s) :
              Selecting(s, T)[i] = IF s[i] \in T
                                     THEN Append(Selecting(s, T)[i - 1], s[i])
                                     ELSE Selecting(s, T)[i - 1]
<1> DEFINE f == Selecting(s, T)
           G == [k \in 1..Len(s) |-> [q \in Seq(S) |->
                   IF s[k] \in T THEN Append(q, s[k]) ELSE q]]
<1>1. G \in [1..Len(s) -> [Seq(S) -> Seq(S)]]
  OBVIOUS
<1>2. Len(s) \in Nat /\ <<>> \in Seq(S)
  OBVIOUS
<1>3. PICK g : IsHistory(g, Len(s), Seq(S), <<>>, G)
  <2> HIDE DEF G, f
  <2> QED BY <1>1, <1>2, History
<1>4. ASSUME NEW k \in 1..Len(s)
      PROVE  g[k] = IF s[k] \in T THEN Append(g[k - 1], s[k]) ELSE g[k - 1]
  <2>1. g[k - 1] \in Seq(S) /\ g[k] = G[k][g[k - 1]]
    <3> HIDE DEF G, f
    <3> QED BY <1>2, <1>3 DEF IsHistory
  <2> QED BY <2>1
<1> DEFINE H(h) == [i \in 0..Len(s) |->
                      IF i = 0 THEN <<>>
                      ELSE IF s[i] \in T THEN Append(h[i - 1], s[i]) ELSE h[i - 1]]
<1>5. g = H(g)
  <2>0. g[0] = <<>> /\ g \in [0..Len(s) -> Seq(S)]
    BY <1>3 DEF IsHistory
  <2>1. ASSUME NEW i \in 0..Len(s) PROVE g[i] = H(g)[i]
    <3>1. CASE i = 0
      BY <2>0, <3>1
    <3>2. CASE i # 0
      <4>1. i \in 1..Len(s)
        BY <1>2, <3>2
      <4> QED BY <1>4, <4>1, <3>2
    <3> QED BY <3>1, <3>2
  <2> QED BY <2>0, <2>1
<1>6. f = H(f)
  BY <1>5, Zenon DEF Selecting
<1>7. f[0] = <<>> /\ \A i \in 1..Len(s) :
        f[i] = IF s[i] \in T THEN Append(f[i - 1], s[i]) ELSE f[i - 1]
  <2> HIDE DEF f
  <2>1. f[0] = H(f)[0] /\ \A i \in 1..Len(s) : f[i] = H(f)[i]
    <3> HIDE DEF H
    <3> QED BY <1>6, Zenon
  <2>2. H(f)[0] = <<>>
    BY <1>2
  <2>3. \A i \in 1..Len(s) :
          H(f)[i] = IF s[i] \in T THEN Append(f[i - 1], s[i]) ELSE f[i - 1]
    BY <1>2
  <2> QED BY <2>1, <2>2, <2>3
<1>8. \A i \in 0..Len(s) : f[i] \in Seq(S)
  <2> DEFINE Good == {i \in 0..Len(s) : f[i] \in Seq(S)}
  <2> HIDE DEF f
  <2>1. 0 \in Good
    <3>1. f[0] \in Seq(S)
      BY <1>2, <1>7, Zenon
    <3> QED BY <1>2, <3>1
  <2>2. ASSUME NEW k \in 1..Len(s), k - 1 \in Good PROVE k \in Good
    <3>1. f[k - 1] \in Seq(S) /\ s[k] \in S /\ k \in 0..Len(s)
      BY <2>2
    <3>2. Append(f[k - 1], s[k]) \in Seq(S)
      BY <3>1
    <3> QED BY <1>7, <3>1, <3>2
  <2>3. \A k \in 1..Len(s) : k - 1 \in Good => k \in Good
    BY <2>2
  <2>4. \A k \in 0..Len(s) : k \in Good
    <3> HIDE DEF Good
    <3> QED BY <1>2, <2>1, <2>3, UpTo, Zenon
  <2> QED BY <2>4
<1>9. f \in [0..Len(s) -> Seq(S)]
  <2> HIDE DEF f
  <2>1. ASSUME NEW i \in 0..Len(s) PROVE H(f)[i] \in Seq(S)
    <3>1. f[i] = H(f)[i]
      <4> HIDE DEF H
      <4> QED BY <1>6, Zenon
    <3> HIDE DEF H
    <3> QED BY <1>8, <3>1
  <2>2. H(f) = [i \in 0..Len(s) |-> H(f)[i]]
    OBVIOUS
  <2>3. H(f) \in [0..Len(s) -> Seq(S)]
    <3> HIDE DEF H
    <3> QED BY <2>1, <2>2
  <2> HIDE DEF H
  <2> QED BY <1>6, <2>3
<1> QED BY <1>7, <1>9

LEMMA SelectedTyped ==
  ASSUME NEW S, NEW s \in Seq(S), NEW T
  PROVE  Selected(s, T) \in Seq(S)
BY SelectingSteps, Len(s) \in 0..Len(s) DEF Selected

LEMMA SelectedNone ==
  ASSUME NEW T
  PROVE  Selected(<<>>, T) = <<>>
<1>1. <<>> \in Seq({}) /\ Len(<<>>) = 0
  OBVIOUS
<1>2. Selecting(<<>>, T)[0] = <<>>
  <2> DEFINE s == <<>>
  <2>1. s \in Seq({})
    OBVIOUS
  <2> HIDE DEF s
  <2>2. Selecting(s, T)[0] = <<>>
    BY <2>1, SelectingSteps
  <2> QED BY <2>2 DEF s
<1> QED BY <1>1, <1>2, Zenon DEF Selected

\* One more element is appended if it is in the set.
LEMMA SelectedMore ==
  ASSUME NEW S, NEW s \in Seq(S), NEW m \in S, NEW T
  PROVE  Selected(Append(s, m), T) = IF m \in T THEN Append(Selected(s, T), m)
                                      ELSE Selected(s, T)
<1> DEFINE t == Append(s, m)
           f == Selecting(s, T)
           g == Selecting(t, T)
           Same == {i \in 0..Len(s) : g[i] = f[i]}
<1>1. /\ t \in Seq(S) /\ Len(t) = Len(s) + 1 /\ Len(s) \in Nat
      /\ t[Len(s) + 1] = m /\ \A i \in 1..Len(s) : t[i] = s[i]
  BY OneMore
<1> HIDE DEF t
<1>2. /\ f[0] = <<>>
      /\ \A i \in 1..Len(s) :
           f[i] = IF s[i] \in T THEN Append(f[i - 1], s[i]) ELSE f[i - 1]
  BY SelectingSteps
<1>3. /\ g[0] = <<>>
      /\ \A i \in 1..Len(t) :
           g[i] = IF t[i] \in T THEN Append(g[i - 1], t[i]) ELSE g[i - 1]
  BY <1>1, SelectingSteps
<1> HIDE DEF f, g
<1>4. 0 \in Same
  BY <1>1, <1>2, <1>3
<1>5. ASSUME NEW i \in 1..Len(s), i - 1 \in Same PROVE i \in Same
  <2>1. g[i - 1] = f[i - 1] /\ t[i] = s[i] /\ i \in 1..Len(t) /\ i \in 0..Len(s)
    BY <1>1, <1>5
  <2>2. g[i] = f[i]
    BY <1>2, <1>3, <2>1
  <2> QED BY <2>1, <2>2
<1>6. \A i \in 0..Len(s) : i \in Same
  <2> HIDE DEF Same
  <2>1. \A i \in 1..Len(s) : i - 1 \in Same => i \in Same
    BY <1>5
  <2> QED BY <1>1, <1>4, <2>1, UpTo, Zenon
<1>7. g[Len(s)] = f[Len(s)]
  BY <1>1, <1>6
<1>8. Len(t) \in 1..Len(t) /\ Len(t) - 1 = Len(s) /\ t[Len(t)] = m
  BY <1>1
<1>9. g[Len(t)] = IF m \in T THEN Append(f[Len(s)], m) ELSE f[Len(s)]
  BY <1>3, <1>7, <1>8
<1> QED BY <1>9 DEF Selected, f, g, t


LEMMA AppendLast ==
  ASSUME NEW S, NEW p \in Seq(S), NEW q \in Seq(S), NEW e \in S
  PROVE  p \o Append(q, e) = Append(p \o q, e)
OBVIOUS

\* The first element is selected or left out, and then the others.
LEMMA SelectedHead ==
  ASSUME NEW S, NEW s \in Seq(S), s # <<>>, NEW T
  PROVE  Selected(s, T) = (IF Head(s) \in T THEN <<Head(s)>> ELSE <<>>)
                          \o Selected(Tail(s), T)
<1> DEFINE t == Tail(s)
           m == Head(s)
           p == IF m \in T THEN <<m>> ELSE <<>>
           f == Selecting(s, T)
           g == Selecting(t, T)
           n == Len(t)
           Same == {i \in 0..n : f[i + 1] = p \o g[i]}
<1>1. /\ t \in Seq(S) /\ n \in Nat /\ Len(s) = n + 1 /\ m \in S /\ s[1] = m
      /\ \A i \in 1..n : t[i] = s[i + 1] /\ t[i] \in S
  OBVIOUS
<1> HIDE DEF t, m
<1>2. /\ f[0] = <<>>
      /\ \A i \in 1..Len(s) : f[i] = IF s[i] \in T THEN Append(f[i - 1], s[i]) ELSE f[i - 1]
  BY SelectingSteps
<1>3. /\ g \in [0..n -> Seq(S)] /\ g[0] = <<>>
      /\ \A i \in 1..n : g[i] = IF t[i] \in T THEN Append(g[i - 1], t[i]) ELSE g[i - 1]
  BY <1>1, SelectingSteps
<1> HIDE DEF f, g, n
<1>4. p \in Seq(S) /\ Append(<<>>, m) = <<m>> /\ p \o <<>> = p
  <2>1. m \in S
    BY <1>1
  <2> QED BY <2>1
<1>5. f[1] = p \o g[0]
  <2>1. f[1] = IF s[1] \in T THEN Append(f[0], s[1]) ELSE f[0]
    <3>1. 1 \in 1..Len(s) /\ 1 - 1 = 0
      BY <1>1
    <3> QED BY <1>2, <3>1, Zenon
  <2>2. f[1] = p
    BY <1>1, <1>2, <1>4, <2>1, Zenon
  <2> QED BY <1>3, <1>4, <2>2, Zenon
<1> HIDE DEF p
<1>6. 0 \in Same
  BY <1>1, <1>5
<1>7. ASSUME NEW i \in 1..n, i - 1 \in Same PROVE i \in Same
  <2>1. f[i] = p \o g[i - 1] /\ i \in 0..n
    BY <1>1, <1>7
  <2>2. f[i + 1] = IF t[i] \in T THEN Append(f[i], t[i]) ELSE f[i]
    <3> DEFINE k == i + 1
    <3>1. k \in 1..Len(s) /\ k - 1 = i /\ s[k] = t[i]
      BY <1>1
    <3> HIDE DEF k
    <3>2. f[k] = IF s[k] \in T THEN Append(f[k - 1], s[k]) ELSE f[k - 1]
      BY <1>2, <3>1, Zenon
    <3>3. f[k] = IF t[i] \in T THEN Append(f[i], t[i]) ELSE f[i]
      BY <3>1, <3>2, Zenon
    <3> QED BY <3>3 DEF k
  <2>3. g[i] = IF t[i] \in T THEN Append(g[i - 1], t[i]) ELSE g[i - 1]
    BY <1>3
  <2>4. Append(p \o g[i - 1], t[i]) = p \o Append(g[i - 1], t[i])
    <3>1. i - 1 \in 0..n /\ t[i] \in S /\ p \in Seq(S)
      BY <1>1, <1>4
    <3>2. g[i - 1] \in Seq(S)
      BY <1>3, <3>1
    <3> DEFINE q == g[i - 1]
               e == t[i]
    <3>3. q \in Seq(S) /\ e \in S
      BY <3>1, <3>2
    <3> HIDE DEF q, e
    <3>4. Append(p \o q, e) = p \o Append(q, e)
      BY <3>1, <3>3
    <3> QED BY <3>4 DEF q, e
  <2>5. f[i + 1] = p \o g[i]
    <3> QED BY <2>1, <2>2, <2>3, <2>4, Zenon
  <2> QED BY <2>1, <2>5
<1>8. \A i \in 0..n : i \in Same
  <2> HIDE DEF Same
  <2>1. \A i \in 1..n : i - 1 \in Same => i \in Same
    BY <1>7
  <2> QED BY <1>1, <1>6, <2>1, UpTo, Zenon
<1>9. f[n + 1] = p \o g[n]
  BY <1>1, <1>8
<1> QED BY <1>1, <1>9, Zenon DEF Selected, f, g, t, m, n, p

LEMMA SelectedShorter ==
  ASSUME NEW S, NEW s \in Seq(S), NEW T
  PROVE  Len(Selected(s, T)) <= Len(s)
<1> DEFINE f == Selecting(s, T)
           n == Len(s)
           Short == {i \in 0..n : Len(f[i]) <= i}
<1>1. /\ f \in [0..n -> Seq(S)] /\ f[0] = <<>>
      /\ \A i \in 1..n : f[i] = IF s[i] \in T THEN Append(f[i - 1], s[i]) ELSE f[i - 1]
  BY SelectingSteps
<1>2. n \in Nat /\ \A i \in 1..n : s[i] \in S
  OBVIOUS
<1> HIDE DEF f, n
<1>3. 0 \in Short
  <2>1. Len(f[0]) = 0
    BY <1>1, Zenon, Len(<<>>) = 0
  <2> QED BY <1>2, <2>1
<1>4. ASSUME NEW i \in 1..n, i - 1 \in Short PROVE i \in Short
  <2> DEFINE q == f[i - 1]
             e == s[i]
  <2>1. q \in Seq(S) /\ e \in S /\ Len(q) <= i - 1 /\ i \in 0..n
    BY <1>1, <1>2, <1>4
  <2>2. f[i] = IF e \in T THEN Append(q, e) ELSE q
    BY <1>1
  <2> HIDE DEF q, e
  <2>3. Len(Append(q, e)) = Len(q) + 1 /\ Len(q) \in Nat
    BY <2>1
  <2>4. Len(f[i]) <= i
    <3>1. CASE f[i] = Append(q, e)
      <4>1. Len(f[i]) = Len(q) + 1
        BY <2>3, <3>1, Zenon
      <4> QED BY <1>2, <2>1, <2>3, <4>1
    <3>2. CASE f[i] = q
      <4>1. Len(f[i]) = Len(q)
        BY <3>2, Zenon
      <4> QED BY <1>2, <2>1, <2>3, <4>1
    <3> QED BY <2>2, <3>1, <3>2, Zenon
  <2> QED BY <2>1, <2>4
<1>5. \A i \in 0..n : i \in Short
  <2> HIDE DEF Short
  <2>1. \A i \in 1..n : i - 1 \in Short => i \in Short
    BY <1>4
  <2> QED BY <1>2, <1>3, <2>1, UpTo, Zenon
<1>6. Len(f[n]) <= n
  BY <1>2, <1>5
<1> QED BY <1>6, Zenon DEF Selected, f, n

LEMMA SelectedNothing ==
  ASSUME NEW S, NEW s \in Seq(S), NEW T, \A i \in 1..Len(s) : s[i] \notin T
  PROVE  Selected(s, T) = <<>>
<1> DEFINE f == Selecting(s, T)
           n == Len(s)
           None == {i \in 0..n : f[i] = <<>>}
<1>1. /\ f[0] = <<>>
      /\ \A i \in 1..n : f[i] = IF s[i] \in T THEN Append(f[i - 1], s[i]) ELSE f[i - 1]
  BY SelectingSteps
<1>2. n \in Nat /\ \A i \in 1..n : s[i] \notin T
  OBVIOUS
<1> HIDE DEF f, n
<1>3. 0 \in None
  BY <1>1, <1>2
<1>4. ASSUME NEW i \in 1..n, i - 1 \in None PROVE i \in None
  <2>1. f[i] = f[i - 1] /\ i \in 0..n
    BY <1>1, <1>2
  <2> QED BY <1>4, <2>1
<1>5. \A i \in 0..n : i \in None
  <2> HIDE DEF None
  <2>1. \A i \in 1..n : i - 1 \in None => i \in None
    BY <1>4
  <2> QED BY <1>2, <1>3, <2>1, UpTo, Zenon
<1>6. f[n] = <<>>
  BY <1>2, <1>5
<1> QED BY <1>6, Zenon DEF Selected, f, n
=============================================================================
