--------------------------- MODULE IQRouterProofs ---------------------------
(***************************************************************************)
(* Proofs about one BookSim router: its allocators return matchings of     *)
(* what was requested, and a cycle keeps its invariant.  A flit crosses    *)
(* the switch from a VC that is on a list once, to an output that was      *)
(* granted to that VC alone, so at most output_speedup flits cross to an   *)
(* output in a cycle, and _SwitchUpdate finds place for them.              *)
(***************************************************************************)
EXTENDS BookSimNetwork, FiniteSetTheorems

\* Evaluated only makes TLC compute a function: it is the function itself.
LEMMA EvaluatedIs ==
  ASSUME NEW f
  PROVE  Evaluated(f) = f
BY Zenon DEF Evaluated

-----------------------------------------------------------------------------
\* Lists, the values of overridden functions, and the searches of the
\* allocators.

\* A sequence of elements of A, each once: the vectors and deques of input VCs.
IsList(s, A) ==
  /\ s \in Seq(A)
  /\ \A i, j \in DOMAIN s : s[i] = s[j] => i = j

\* The empty list has no elements, and lists each once.
LEMMA EmptyList ==
  ASSUME NEW A
  PROVE  IsList(<<>>, A) /\ Range(<<>>) = {}
BY DEF IsList, Range

\* What is in a queue after an element is put at its back.
LEMMA Grown ==
  ASSUME NEW S, NEW q \in Seq(S), NEW e \in S
  PROVE  Range(Append(q, e)) = Range(q) \union {e}
<1>1. /\ DOMAIN q = 1..Len(q) /\ Len(q) \in Nat /\ DOMAIN Append(q, e) = 1..(Len(q) + 1)
      /\ Append(q, e)[Len(q) + 1] = e /\ \A i \in 1..Len(q) : Append(q, e)[i] = q[i]
  OBVIOUS
<1>2. \A x \in Range(Append(q, e)) : x \in Range(q) \union {e}
  BY <1>1 DEF Range
<1>3. \A x \in Range(q) : x \in Range(Append(q, e))
  BY <1>1 DEF Range
<1>4. e \in Range(Append(q, e))
  <2>1. Len(q) + 1 \in DOMAIN Append(q, e)
    BY <1>1
  <2> QED BY <1>1, <2>1 DEF Range
<1> QED BY <1>2, <1>3, <1>4

\* The members of a selection.
LEMMA SelectedRange ==
  ASSUME NEW S, NEW s \in Seq(S), NEW T
  PROVE  Range(Selected(s, T)) = Range(s) \intersect T
<1> DEFINE f == Selecting(s, T)
           n == Len(s)
           Right == {i \in 0..n : Range(f[i]) = {s[k] : k \in 1..i} \intersect T}
<1>1. /\ f \in [0..n -> Seq(S)] /\ f[0] = <<>>
      /\ \A i \in 1..n : f[i] = IF s[i] \in T THEN Append(f[i - 1], s[i]) ELSE f[i - 1]
  BY SelectingSteps
<1>2. n \in Nat /\ \A i \in 1..n : s[i] \in S
  OBVIOUS
<1> HIDE DEF f, n
<1>3. 0 \in Right
  BY <1>1, <1>2 DEF Range
<1>4. ASSUME NEW k \in 1..n, k - 1 \in Right PROVE k \in Right
  <2> DEFINE q == f[k - 1]
             e == s[k]
  <2>1. q \in Seq(S) /\ e \in S /\ k \in 0..n /\ k - 1 \in 0..n
    BY <1>1, <1>2
  <2>2. f[k] = IF e \in T THEN Append(q, e) ELSE q
    BY <1>1
  <2>3. Range(q) = {s[j] : j \in 1..(k - 1)} \intersect T
    BY <1>4
  <2>4. {s[j] : j \in 1..k} = {s[j] : j \in 1..(k - 1)} \union {e}
    BY <2>1
  <2> HIDE DEF q, e
  <2>5. Range(Append(q, e)) = Range(q) \union {e}
    BY <2>1, Grown
  <2>6. Range(f[k]) = {s[j] : j \in 1..k} \intersect T
    BY <2>2, <2>3, <2>4, <2>5
  <2> QED BY <2>1, <2>6
<1>5. \A k \in 0..n : k \in Right
  <2>1. \A k \in 1..n : k - 1 \in Right => k \in Right
    BY <1>4
  <2> HIDE DEF Right
  <2> QED BY <1>2, <1>3, <2>1, UpTo, Zenon
<1>6. Range(f[n]) = {s[k] : k \in 1..n} \intersect T
  <2>1. n \in 0..n
    BY <1>2
  <2>2. n \in Right
    BY <2>1, <1>5, Zenon
  <2> HIDE DEF n, f
  <2> QED BY <2>2, ZenonT(30)
<1>7. Range(s) = {s[k] : k \in 1..n}
  BY DEF Range, n
<1> QED BY <1>6, <1>7, Zenon DEF Selected, f, n

\* A selection of a list without repetitions has none either.
LEMMA SelectedList ==
  ASSUME NEW A, NEW s, IsList(s, A), NEW T
  PROVE  IsList(Selected(s, T), A)
<1> DEFINE f == Selecting(s, T)
           n == Len(s)
           Right == {i \in 0..n : /\ \A j, k \in DOMAIN f[i] : f[i][j] = f[i][k] => j = k
                                  /\ \A j \in DOMAIN f[i] : \E k \in 1..i : f[i][j] = s[k]}
<1>0. s \in Seq(A)
  BY DEF IsList
<1>1. /\ f \in [0..n -> Seq(A)] /\ f[0] = <<>>
      /\ \A i \in 1..n : f[i] = IF s[i] \in T THEN Append(f[i - 1], s[i]) ELSE f[i - 1]
  BY <1>0, SelectingSteps
<1>2. n \in Nat /\ \A i \in 1..n : s[i] \in A
  BY <1>0
<1> HIDE DEF f, n
<1>3. 0 \in Right
  BY <1>1, <1>2
<1>4. ASSUME NEW k \in 1..n, k - 1 \in Right PROVE k \in Right
  <2> DEFINE q == f[k - 1]
             e == s[k]
  <2>1. q \in Seq(A) /\ e \in A /\ k \in 0..n /\ k - 1 \in 0..n
    BY <1>1, <1>2
  <2>2. f[k] = IF e \in T THEN Append(q, e) ELSE q
    BY <1>1
  <2>3. /\ \A i, j \in DOMAIN q : q[i] = q[j] => i = j
        /\ \A j \in DOMAIN q : \E m \in 1..(k - 1) : q[j] = s[m]
    BY <1>4
  <2>4. \A m \in 1..(k - 1) : s[m] # e
    BY <1>0, <1>2 DEF IsList, n
  <2>5. e = s[k]
    OBVIOUS
  <2> HIDE DEF q, e
  <2>6. CASE e \in T
    <3>1. /\ DOMAIN q = 1..Len(q) /\ Len(q) \in Nat /\ DOMAIN Append(q, e) = 1..(Len(q) + 1)
          /\ Append(q, e)[Len(q) + 1] = e /\ \A i \in 1..Len(q) : Append(q, e)[i] = q[i]
      BY <2>1
    <3>2. \A j \in DOMAIN q : q[j] # e
      BY <2>3, <2>4
    <3>3. \A i, j \in DOMAIN Append(q, e) : Append(q, e)[i] = Append(q, e)[j] => i = j
      BY <3>1, <3>2, <2>3
    <3>4. \A j \in DOMAIN Append(q, e) : \E m \in 1..k : Append(q, e)[j] = s[m]
      BY <3>1, <2>1, <2>3, <2>5
    <3>5. f[k] = Append(q, e)
      BY <2>2, <2>6
    <3> QED BY <2>1, <3>3, <3>4, <3>5
  <2>7. CASE e \notin T
    <3>1. f[k] = q
      BY <2>2, <2>7
    <3>2. \A j \in DOMAIN q : \E m \in 1..k : q[j] = s[m]
      BY <2>1, <2>3
    <3> QED BY <2>1, <2>3, <3>1, <3>2
  <2> QED BY <2>6, <2>7
<1>5. \A k \in 0..n : k \in Right
  <2>1. \A k \in 1..n : k - 1 \in Right => k \in Right
    BY <1>4
  <2> HIDE DEF Right
  <2> QED BY <1>2, <1>3, <2>1, UpTo, Zenon
<1>6. Selected(s, T) = f[n]
  BY Zenon DEF Selected, f, n
<1>7. f[n] \in Seq(A) /\ n \in 0..n
  BY <1>1, <1>2
<1> QED BY <1>5, <1>6, <1>7 DEF IsList

\* A selection is as long as there are places of members.
LEMMA SelectedCount ==
  ASSUME NEW S, NEW s \in Seq(S), NEW T
  PROVE  Len(Selected(s, T)) = Cardinality({i \in 1..Len(s) : s[i] \in T})
<1> DEFINE f == Selecting(s, T)
           n == Len(s)
           Taken(k) == {i \in 1..k : s[i] \in T}
           Right == {k \in 0..n : IsFiniteSet(Taken(k)) /\ Len(f[k]) = Cardinality(Taken(k))}
<1>1. /\ f \in [0..n -> Seq(S)] /\ f[0] = <<>>
      /\ \A i \in 1..n : f[i] = IF s[i] \in T THEN Append(f[i - 1], s[i]) ELSE f[i - 1]
  BY SelectingSteps
<1>2. n \in Nat /\ \A i \in 1..n : s[i] \in S
  OBVIOUS
<1> HIDE DEF f, n
<1>3. 0 \in Right
  <2>1. Taken(0) = {}
    OBVIOUS
  <2> QED BY <2>1, <1>1, <1>2, FS_EmptySet
<1>4. ASSUME NEW k \in 1..n, k - 1 \in Right PROVE k \in Right
  <2> DEFINE q == f[k - 1]
             e == s[k]
  <2>1. q \in Seq(S) /\ e \in S /\ k \in 0..n /\ k - 1 \in 0..n
    BY <1>1, <1>2
  <2>2. f[k] = IF e \in T THEN Append(q, e) ELSE q
    BY <1>1
  <2>3. IsFiniteSet(Taken(k - 1)) /\ Len(q) = Cardinality(Taken(k - 1))
    BY <1>4
  <2>4. k \notin Taken(k - 1) /\ Taken(k) = IF e \in T THEN Taken(k - 1) \union {k} ELSE Taken(k - 1)
    BY <2>1
  <2> HIDE DEF q, e, Taken
  <2>5. IsFiniteSet(Taken(k)) /\ Len(f[k]) = Cardinality(Taken(k))
    <3>1. CASE e \in T
      <4>1. Len(f[k]) = Len(q) + 1
        BY <2>1, <2>2, <3>1
      <4>2. Taken(k) = Taken(k - 1) \union {k}
        BY <2>4, <3>1
      <4>3. /\ IsFiniteSet(Taken(k - 1) \union {k})
            /\ Cardinality(Taken(k - 1) \union {k}) = Cardinality(Taken(k - 1)) + 1
        BY <2>3, <2>4, FS_AddElement
      <4> QED BY <4>1, <4>2, <4>3, <2>3
    <3>2. CASE e \notin T
      BY <2>2, <2>3, <2>4, <3>2
    <3> QED BY <3>1, <3>2
  <2> QED BY <2>1, <2>5
<1>5. \A k \in 0..n : k \in Right
  <2>1. \A k \in 1..n : k - 1 \in Right => k \in Right
    BY <1>4
  <2> HIDE DEF Right
  <2> QED BY <1>2, <1>3, <2>1, UpTo, Zenon
<1>6. Len(f[n]) = Cardinality({i \in 1..n : s[i] \in T})
  <2>1. n \in Right
    BY <1>5, <1>2
  <2> QED BY <2>1, Zenon
<1> QED BY <1>6, Zenon DEF Selected, f, n

\* What is in two sequences, one after the other.
LEMMA JoinedRange ==
  ASSUME NEW A, NEW s \in Seq(A), NEW t \in Seq(A)
  PROVE  Range(s \o t) = Range(s) \union Range(t)
<1> DEFINE n == Len(s)
           m == Len(t)
           c == s \o t
<1>1. /\ n \in Nat /\ m \in Nat /\ DOMAIN s = 1..n /\ DOMAIN t = 1..m /\ DOMAIN c = 1..(n + m)
      /\ \A i \in 1..n : c[i] = s[i]
      /\ \A i \in 1..m : c[n + i] = t[i]
  OBVIOUS
<1> HIDE DEF n, m, c
<1>2. \A i \in 1..n : i \in 1..(n + m)
  BY <1>1
<1>3. \A i \in 1..m : n + i \in 1..(n + m)
  BY <1>1
<1>4. \A k \in 1..(n + m) : k \in 1..n \/ \E i \in 1..m : k = n + i
  <2>1. ASSUME NEW k \in 1..(n + m), k \notin 1..n PROVE k - n \in 1..m /\ k = n + (k - n)
    BY <1>1, <2>1
  <2> QED BY <2>1
<1>5. \A x : x \in Range(c) <=> x \in Range(s) \/ x \in Range(t)
  <2>1. ASSUME NEW x \in Range(c) PROVE x \in Range(s) \/ x \in Range(t)
    <3>1. PICK k \in 1..(n + m) : c[k] = x
      BY <1>1, Zenon DEF Range
    <3>2. CASE k \in 1..n
      BY <1>1, <3>1, <3>2, Zenon DEF Range
    <3>3. CASE \E i \in 1..m : k = n + i
      <4>1. PICK i \in 1..m : k = n + i
        BY <3>3
      <4>2. x = t[i]
        BY <1>1, <3>1, <4>1, Zenon
      <4> QED BY <1>1, <4>2, Zenon DEF Range
    <3> QED BY <1>4, <3>2, <3>3, Zenon
  <2>2. ASSUME NEW x \in Range(s) PROVE x \in Range(c)
    <3>1. PICK i \in 1..n : s[i] = x
      BY <1>1, Zenon DEF Range
    <3>2. i \in DOMAIN c /\ c[i] = x
      BY <1>1, <1>2, <3>1, Zenon
    <3> QED BY <3>2, Zenon DEF Range
  <2>3. ASSUME NEW x \in Range(t) PROVE x \in Range(c)
    <3>1. PICK i \in 1..m : t[i] = x
      BY <1>1, Zenon DEF Range
    <3>2. n + i \in DOMAIN c /\ c[n + i] = x
      BY <1>1, <1>3, <3>1, Zenon
    <3> QED BY <3>2, Zenon DEF Range
  <2> QED BY <2>1, <2>2, <2>3, Zenon
<1> QED BY <1>5 DEF c

\* Two lists with nothing in common make one without repetitions.
LEMMA Joined ==
  ASSUME NEW A, NEW s, NEW t, IsList(s, A), IsList(t, A), Range(s) \intersect Range(t) = {}
  PROVE  IsList(s \o t, A) /\ Range(s \o t) = Range(s) \union Range(t)
<1>1. s \in Seq(A) /\ t \in Seq(A)
  BY DEF IsList
<1>2. /\ Len(s) \in Nat /\ Len(t) \in Nat /\ DOMAIN s = 1..Len(s) /\ DOMAIN t = 1..Len(t)
      /\ s \o t \in Seq(A) /\ Len(s \o t) = Len(s) + Len(t)
      /\ DOMAIN (s \o t) = 1..(Len(s) + Len(t))
      /\ \A i \in 1..Len(s) : (s \o t)[i] = s[i]
      /\ \A i \in 1..Len(t) : (s \o t)[Len(s) + i] = t[i]
  BY <1>1
<1>3. \A i \in 1..(Len(s) + Len(t)) :
        \/ i \in 1..Len(s) /\ (s \o t)[i] = s[i]
        \/ i - Len(s) \in 1..Len(t) /\ (s \o t)[i] = t[i - Len(s)]
  BY <1>2
<1>4. \A i \in 1..Len(s), j \in 1..Len(t) : s[i] # t[j]
  BY <1>2 DEF Range
<1>5. IsList(s \o t, A)
  <2>1. ASSUME NEW i \in 1..(Len(s) + Len(t)), NEW j \in 1..(Len(s) + Len(t)), (s \o t)[i] = (s \o t)[j]
        PROVE i = j
    <3>1. CASE i \in 1..Len(s) /\ (s \o t)[i] = s[i] /\ j \in 1..Len(s) /\ (s \o t)[j] = s[j]
      BY <2>1, <3>1, <1>2 DEF IsList
    <3>2. CASE i - Len(s) \in 1..Len(t) /\ (s \o t)[i] = t[i - Len(s)]
               /\ j - Len(s) \in 1..Len(t) /\ (s \o t)[j] = t[j - Len(s)]
      <4>1. i - Len(s) = j - Len(s)
        BY <2>1, <3>2, <1>2 DEF IsList
      <4> QED BY <4>1, <1>2
    <3> QED BY <2>1, <3>1, <3>2, <1>3, <1>4
  <2> QED BY <2>1, <1>2 DEF IsList
<1>6. Range(s \o t) = Range(s) \union Range(t)
  BY <1>1, JoinedRange, ZenonT(60)
<1> QED BY <1>5, <1>6

\* What was appended to a sequence.
LEMMA Rest ==
  ASSUME NEW A, NEW s \in Seq(A), NEW t \in Seq(A)
  PROVE  SubSeq(s \o t, Len(s) + 1, Len(s \o t)) = t
OBVIOUS

\* A part of a list, and a list that goes on with a part of another one.
LEMMA SelectedAre ==
  ASSUME NEW A, NEW l, IsList(l, A), NEW T \in SUBSET Range(l)
  PROVE  IsList(Selected(l, T), A) /\ Range(Selected(l, T)) = T
<1>1. l \in Seq(A) /\ Range(l) \intersect T = T
  BY DEF IsList
<1> QED BY <1>1, SelectedList, SelectedRange

\* A pipeline list that takes over some of another's input VCs: vecs such as
\* _sw_alloc_vcs grow by what left the earlier stage.
LEMMA GoesOn ==
  ASSUME NEW A, NEW s, IsList(s, A), NEW l, IsList(l, A), NEW T \in SUBSET Range(l),
         Range(s) \intersect T = {}
  PROVE  IsList(s \o Selected(l, T), A) /\ Range(s \o Selected(l, T)) = Range(s) \union T
<1> DEFINE t == Selected(l, T)
<1>1. IsList(t, A) /\ Range(t) = T
  BY SelectedAre
<1> HIDE DEF t
<1>2. Range(s) \intersect Range(t) = {}
  BY <1>1
<1>3. IsList(s \o t, A) /\ Range(s \o t) = Range(s) \union Range(t)
  <2>1. IsList(t, A)
    BY <1>1
  <2>2. IsList(s \o t, A)
    BY <2>1, <1>2, Joined
  <2>3. Range(s \o t) = Range(s) \union Range(t)
    BY <2>1, <1>2, Joined
  <2> QED BY <2>2, <2>3
<1> QED BY <1>1, <1>3 DEF t

\* A finite set has an element nothing comes before.
LEMMA LeastIn ==
  ASSUME NEW S, IsFiniteSet(S), S # {}, NEW B,
         \A x \in S : <<x, x>> \notin B,
         \A x, y, z \in S : <<x, y>> \in B /\ <<y, z>> \in B => <<x, z>> \in B
  PROVE  \E x \in S : \A y \in S : <<y, x>> \notin B
<1> DEFINE Before(x) == {y \in S : <<y, x>> \in B}
           Counts == {Cardinality(Before(x)) : x \in S}
<1>1. ASSUME NEW x \in S
      PROVE  IsFiniteSet(Before(x)) /\ Cardinality(Before(x)) \in Nat
  <2>1. Before(x) \subseteq S
    OBVIOUS
  <2> HIDE DEF Before
  <2>2. IsFiniteSet(Before(x))
    BY <2>1, FS_Subset
  <2> QED BY <2>2, FS_CardinalityType
<1>2. PICK n \in Counts : \A k \in Counts : n <= k
  <2> HIDE DEF Before
  <2>1. Counts \in SUBSET Nat /\ Counts # {}
    BY <1>1
  <2> HIDE DEF Counts
  <2> QED BY <2>1, LeastNat, Zenon
<1>3. PICK x \in S : n = Cardinality(Before(x))
  OBVIOUS
<1>4. ASSUME NEW y \in S, <<y, x>> \in B PROVE FALSE
  <2>1. Before(y) \subseteq Before(x) /\ y \in Before(x) /\ y \notin Before(y)
    BY <1>4
  <2>2. Cardinality(Before(x)) <= Cardinality(Before(y))
    <3> HIDE DEF Before
    <3>1. Cardinality(Before(y)) \in Counts
      OBVIOUS
    <3> QED BY <3>1, <1>2, <1>3
  <2> HIDE DEF Before
  <2>3. /\ Cardinality(Before(y)) <= Cardinality(Before(x))
        /\ Cardinality(Before(y)) = Cardinality(Before(x)) => Before(y) = Before(x)
    BY <2>1, <1>1, FS_Subset
  <2>4. Cardinality(Before(y)) \in Nat /\ Cardinality(Before(x)) \in Nat
    BY <1>1
  <2> QED BY <2>1, <2>2, <2>3, <2>4
<1> QED BY <1>4

\* The first of a set from an offset, round and round, is one of the set.
LEMMA FirstFromIn ==
  ASSUME NEW S \in SUBSET Int, S # {}, NEW offset \in Int, NEW size \in Nat \ {0}
  PROVE  FirstFrom(S, offset, size) \in S
<1> DEFINE at(x) == (x - offset + size) % size
           Ats == {at(x) : x \in S}
<1>1. \A x \in S : at(x) \in Nat
  OBVIOUS
<1>2. PICK n \in Ats : \A k \in Ats : n <= k
  <2>1. Ats \in SUBSET Nat /\ Ats # {}
    BY <1>1
  <2> HIDE DEF Ats
  <2> QED BY <2>1, LeastNat, Zenon
<1>3. PICK x \in S : n = at(x)
  OBVIOUS
<1>4. \A y \in S : at(x) <= at(y)
  BY <1>2, <1>3
<1>5. \E z \in S : \A y \in S : (z - offset + size) % size <= (y - offset + size) % size
  BY <1>4, Zenon
<1> QED BY <1>5, Zenon DEF FirstFrom

\* Among finitely many priorities there are highest ones.
LEMMA HighestSome ==
  ASSUME NEW pri, IsFiniteSet(DOMAIN pri), DOMAIN pri # {}, \A x \in DOMAIN pri : pri[x] \in Int
  PROVE  Highest(pri) # {} /\ Highest(pri) \subseteq DOMAIN pri
<1> DEFINE D == DOMAIN pri
           B == {xy \in D \X D : pri[xy[1]] > pri[xy[2]]}
<1>1. PICK x \in D : \A y \in D : <<y, x>> \notin B
  <2>1. \A x \in D : <<x, x>> \notin B
    OBVIOUS
  <2>2. \A x, y, z \in D : <<x, y>> \in B /\ <<y, z>> \in B => <<x, z>> \in B
    OBVIOUS
  <2> HIDE DEF B
  <2> QED BY <2>1, <2>2, LeastIn, Zenon
<1>2. ASSUME NEW y \in D PROVE pri[y] <= pri[x]
  <2>1. ~(pri[y] > pri[x])
    BY <1>1
  <2> QED BY <2>1
<1> QED BY <1>2 DEF Highest

\* The values of an overridden function.
LEMMA Overridden ==
  ASSUME NEW f, NEW g
  PROVE  /\ DOMAIN Override(f, g) = DOMAIN f \union DOMAIN g
         /\ \A x \in DOMAIN f : Override(f, g)[x] = f[x]
         /\ \A x \in DOMAIN g \ DOMAIN f : Override(f, g)[x] = g[x]
<1> DEFINE h == [x \in DOMAIN f \union DOMAIN g |-> IF x \in DOMAIN f THEN f[x] ELSE g[x]]
<1>1. Override(f, g) = h
  BY Zenon, EvaluatedIs DEF Override
<1>2. /\ DOMAIN h = DOMAIN f \union DOMAIN g
      /\ \A x \in DOMAIN f : h[x] = f[x]
      /\ \A x \in DOMAIN g \ DOMAIN f : h[x] = g[x]
  OBVIOUS
<1> HIDE DEF h
<1> QED BY <1>1, <1>2, Zenon

\* Overriding by the empty function changes nothing a function has.
LEMMA OverEmpty ==
  ASSUME NEW f, f = [x \in DOMAIN f |-> f[x]]
  PROVE  Override(f, <<>>) = f
<1> DEFINE h == [x \in DOMAIN f \union DOMAIN <<>> |-> IF x \in DOMAIN f THEN f[x] ELSE <<>>[x]]
<1>1. Override(f, <<>>) = h
  BY Zenon, EvaluatedIs DEF Override
<1>2. h = f
  OBVIOUS
<1> QED BY <1>1, <1>2

\* Overriding within the domain and the values of a function keeps its type.
LEMMA OverrideTyped ==
  ASSUME NEW D, NEW S, NEW g \in [D -> S], NEW f, DOMAIN f \subseteq D,
         \A x \in DOMAIN f : f[x] \in S
  PROVE  Override(f, g) \in [D -> S]
<1> DEFINE h == [x \in DOMAIN f \union DOMAIN g |-> IF x \in DOMAIN f THEN f[x] ELSE g[x]]
<1>1. Override(f, g) = h
  BY Zenon, EvaluatedIs DEF Override
<1>2. h \in [D -> S]
  OBVIOUS
<1> QED BY <1>1, <1>2

-----------------------------------------------------------------------------
\* Allocators: each returns a matching of what was requested.

\* The fields of an allocator.
AllocatorFields == {"type", "inputs", "outputs", "inmatch", "outmatch", "turns"}

\* What an arbiter remembers: a matrix, an order of the requests.
IsOrder(over, size) ==
  \A x, y, z \in 0..(size - 1) :
    /\ <<x, x>> \notin over
    /\ x = y \/ <<x, y>> \in over \/ <<y, x>> \in over
    /\ <<x, y>> \in over /\ <<y, z>> \in over => <<x, z>> \in over

\* An arbiter without groups: a matrix, or a pointer.
IsSimple(arb, kind, size) ==
  /\ {"kind", "size", "over", "pointer"} \intersect DOMAIN arb =
       {"kind", "size"} \union (IF kind = "matrix" THEN {"over"} ELSE {"pointer"})
  /\ arb.kind = kind /\ arb.size = size
  /\ IF kind = "matrix" THEN IsOrder(arb.over, size) ELSE arb.pointer \in Int

\* A tree arbiter: one for the groups, and one for each of them.
IsArbiter(arb, type, total) ==
  /\ IsSimple(arb.global, type.kind, type.groups)
  /\ DOMAIN arb.group = 0..(type.groups - 1)
  /\ \A g \in 0..(type.groups - 1) : IsSimple(arb.group[g], type.kind, total \div type.groups)

\* What an allocator of a type remembers from one cycle to the next.
AreTurns(turns, type, n, m) ==
  /\ type.name \in {"islip", "select", "loa"} =>
       turns.grant \in [0..(m - 1) -> Int] /\ turns.accept \in [0..(n - 1) -> Int]
  /\ type.name \in {"separable_input_first", "separable_output_first"} =>
       /\ DOMAIN turns.input = 0..(n - 1) /\ DOMAIN turns.output = 0..(m - 1)
       /\ \A i \in 0..(n - 1) : IsArbiter(turns.input[i], type.arb, m)
       /\ \A o \in 0..(m - 1) : IsArbiter(turns.output[o], type.arb, n)
  /\ type.name \in {"max_size", "wavefront", "rr_wavefront"} =>
       turns.pri \in Int /\ "pri" \in DOMAIN turns

\* An allocator of n inputs and m outputs.
IsAllocator(a, type, n, m) ==
  /\ DOMAIN a = AllocatorFields
  /\ a.type = type /\ a.inputs = n /\ a.outputs = m
  /\ AreTurns(a.turns, type, n, m)

\* An input that has an output has it for itself, and has asked for it.
Matching(a, R) ==
  \A i \in DOMAIN a.inmatch :
    /\ <<i, a.inmatch[i]>> \in R
    /\ a.inmatch[i] \in DOMAIN a.outmatch /\ a.outmatch[a.inmatch[i]] = i

\* Requests of inputs for outputs, with their priorities.
AreRequests(requests, n, m) ==
  /\ DOMAIN requests \subseteq (0..(n - 1)) \X (0..(m - 1))
  /\ \A r \in DOMAIN requests : requests[r].in_pri \in Int /\ requests[r].out_pri \in Int

\* An allocator after one of its fields, or all of them, have changed.
Changed(a, in, out, turns) == [a EXCEPT !.inmatch = in, !.outmatch = out, !.turns = turns]

\* An allocator with other matches and other turns of the right shape is one.
LEMMA AllocatorChanged ==
  ASSUME NEW a, NEW type, NEW n, NEW m, IsAllocator(a, type, n, m),
         NEW in, NEW out, NEW turns, AreTurns(turns, type, n, m)
  PROVE  /\ IsAllocator(Changed(a, in, out, turns), type, n, m)
         /\ Changed(a, in, out, turns).inmatch = in /\ Changed(a, in, out, turns).outmatch = out
         /\ Changed(a, in, out, turns).turns = turns
<1> DEFINE b == Changed(a, in, out, turns)
<1>1. DOMAIN a = AllocatorFields /\ a.type = type /\ a.inputs = n /\ a.outputs = m
  BY DEF IsAllocator
<1>2. /\ DOMAIN b = AllocatorFields /\ b.type = type /\ b.inputs = n /\ b.outputs = m
      /\ b.inmatch = in /\ b.outmatch = out /\ b.turns = turns
  BY <1>1 DEF AllocatorFields, Changed
<1>3. IsAllocator(b, type, n, m)
  BY <1>2, Zenon DEF IsAllocator
<1> QED BY <1>2, <1>3

\* A set of numbers up to a bound is finite.
LEMMA Small ==
  ASSUME NEW n \in Nat, NEW S \in SUBSET (0..n)
  PROVE  IsFiniteSet(S)
<1>1. IsFiniteSet(0..n)
  BY FS_Interval, 0 \in Int, n \in Int, Zenon
<1> QED BY <1>1, FS_Subset

\* One iteration adds pairs that are not in the way of those there are.
LEMMA Iteration ==
  ASSUME NEW s, NEW type, NEW n \in Nat \ {0}, NEW m \in Nat \ {0},
         type.name \in {"islip", "select", "loa"}, IsAllocator(s.a, type, n, m), s.grants = <<>>,
         NEW requests, AreRequests(requests, n, m), Matching(s.a, DOMAIN requests), NEW first
  PROVE  /\ IsAllocator(GrantAndAccept(s, requests, first).a, type, n, m)
         /\ Matching(GrantAndAccept(s, requests, first).a, DOMAIN requests)
<1> DEFINE
      a == s.a
      bids(o) == [i \in Asking(a, requests, o) |-> requests[<<i, o>>].out_pri]
      new == [o \in Wanted(a, requests) |->
                FirstFrom(Highest(bids(o)), a.turns.grant[o], a.inputs)]
      grants == Override(new, s.grants)
      offers(i) == [o \in {p \in DOMAIN grants : grants[p] = i} |-> requests[<<i, o>>].in_pri]
      accepting == {grants[o] : o \in DOMAIN grants}
      accepted == Evaluated([i \in accepting |->
                     FirstFrom(Highest(offers(i)), a.turns.accept[i], a.outputs)])
      taking == {accepted[i] : i \in DOMAIN accepted}
      taken == [o \in taking |-> grants[o]]
      next == [grant |-> Override([o \in DOMAIN taken |-> (taken[o] + 1) % a.inputs],
                                  a.turns.grant),
               accept |-> Override([i \in DOMAIN accepted |-> (accepted[i] + 1) % a.outputs],
                                   a.turns.accept)]
      turns == IF first THEN next ELSE a.turns
      b == [a EXCEPT !.inmatch = Override(accepted, @), !.outmatch = Override(taken, @),
                      !.turns = IF first THEN next ELSE @]
      in == Override(accepted, a.inmatch)
      out == Override(taken, a.outmatch)
      c == Changed(a, in, out, turns)
      R == DOMAIN requests
<1>1. GrantAndAccept(s, requests, first).a = b
  BY Zenon DEF GrantAndAccept
<1>2. b = c
  BY DEF Changed
<1>0. /\ IsAllocator(a, type, n, m) /\ Matching(a, R)
  OBVIOUS
<1> HIDE DEF a
<1>3. /\ a.inputs = n /\ a.outputs = m /\ a.turns.grant \in [0..(m - 1) -> Int]
      /\ a.turns.accept \in [0..(n - 1) -> Int]
  BY <1>0 DEF IsAllocator, AreTurns
<1>4. \A i, o : <<i, o>> \in R => /\ i \in 0..(n - 1) /\ o \in 0..(m - 1)
                                  /\ requests[<<i, o>>].in_pri \in Int /\ requests[<<i, o>>].out_pri \in Int
  BY DEF AreRequests
<1>5. grants = new
  <2>1. new = [x \in DOMAIN new |-> new[x]]
    OBVIOUS
  <2> HIDE DEF new
  <2> QED BY <2>1, OverEmpty
<1>6. ASSUME NEW o \in Wanted(a, requests)
      PROVE  grants[o] \in Asking(a, requests, o) /\ o \in 0..(m - 1)
  <2>1. Asking(a, requests, o) # {} /\ Asking(a, requests, o) \subseteq 0..(n - 1)
    BY <1>3, <1>4 DEF Wanted, Asking
  <2>2. o \in 0..(m - 1) /\ \A i \in Asking(a, requests, o) : requests[<<i, o>>].out_pri \in Int
    BY <2>1, <1>4 DEF Asking
  <2>3. IsFiniteSet(DOMAIN bids(o)) /\ DOMAIN bids(o) # {} /\ \A i \in DOMAIN bids(o) : bids(o)[i] \in Int
    BY <2>1, <2>2, Small, n - 1 \in Nat
  <2>4. Highest(bids(o)) # {} /\ Highest(bids(o)) \subseteq Asking(a, requests, o)
    <3> DEFINE p == bids(o)
    <3>1. DOMAIN p = Asking(a, requests, o)
      OBVIOUS
    <3> HIDE DEF p
    <3>2. Highest(p) # {} /\ Highest(p) \subseteq DOMAIN p
      BY <2>3, HighestSome DEF p
    <3> QED BY <3>1, <3>2 DEF p
  <2>5. a.turns.grant[o] \in Int
    BY <1>3, <2>2
  <2> HIDE DEF bids
  <2>6. FirstFrom(Highest(bids(o)), a.turns.grant[o], a.inputs) \in Highest(bids(o))
    BY <2>1, <2>4, <2>5, <1>3, FirstFromIn
  <2> QED BY <2>2, <2>4, <2>6, <1>5
<1>7. DOMAIN grants = Wanted(a, requests)
  BY <1>5
<1> HIDE DEF grants, new
<1>8. DOMAIN accepted = accepting /\ \A i \in accepting :
        accepted[i] = FirstFrom(Highest(offers(i)), a.turns.accept[i], a.outputs)
  <2> HIDE DEF offers, accepting
  <2>1. accepted = [i \in accepting |->
                     FirstFrom(Highest(offers(i)), a.turns.accept[i], a.outputs)]
    BY Zenon, EvaluatedIs
  <2> QED BY <2>1, Zenon
<1>9. ASSUME NEW i \in accepting
      PROVE  /\ accepted[i] \in DOMAIN grants /\ grants[accepted[i]] = i
             /\ i \in 0..(n - 1) \ DOMAIN a.inmatch
  <2> DEFINE D == {p \in DOMAIN grants : grants[p] = i}
  <2>1. PICK o \in Wanted(a, requests) : grants[o] = i
    BY <1>7
  <2>2. i \in Asking(a, requests, o)
    BY <2>1, <1>6
  <2>3. D # {} /\ D \subseteq 0..(m - 1) /\ i \in 0..(n - 1) \ DOMAIN a.inmatch
    BY <2>1, <2>2, <1>3, <1>6, <1>7 DEF Asking
  <2>4. \A p \in D : requests[<<i, p>>].in_pri \in Int
    BY <1>4, <1>6, <1>7 DEF Asking
  <2>5. IsFiniteSet(D)
    BY <2>3, Small, m - 1 \in Nat
  <2> DEFINE p == offers(i)
  <2>6. DOMAIN p = D /\ \A q \in D : p[q] \in Int
    BY <2>4
  <2> HIDE DEF p
  <2>7. Highest(p) # {} /\ Highest(p) \subseteq D
    <3>1. Highest(p) # {} /\ Highest(p) \subseteq DOMAIN p
      BY <2>3, <2>5, <2>6, HighestSome
    <3> QED BY <3>1, <2>6
  <2>8. FirstFrom(Highest(p), a.turns.accept[i], a.outputs) \in Highest(p)
    <3>1. Highest(p) \in SUBSET Int
      BY <2>3, <2>7
    <3>2. a.turns.accept[i] \in Int /\ a.outputs \in Nat \ {0}
      BY <1>3, <2>3
    <3> QED BY <3>1, <3>2, <2>7, FirstFromIn
  <2>9. accepted[i] \in D
    BY <2>7, <2>8, <1>8 DEF p
  <2> QED BY <2>3, <2>9
<1> HIDE DEF accepted
<1>10. DOMAIN taken = taking /\ \A i \in accepting : accepted[i] \in taking /\ taken[accepted[i]] = i
  BY <1>8, <1>9
<1>11. \A o \in taking : /\ o \in DOMAIN grants /\ o \in 0..(m - 1) /\ taken[o] \in 0..(n - 1)
                         /\ o \notin DOMAIN a.outmatch
  <2>1. ASSUME NEW i \in accepting
        PROVE  /\ accepted[i] \in DOMAIN grants /\ accepted[i] \in 0..(m - 1)
               /\ taken[accepted[i]] \in 0..(n - 1) /\ accepted[i] \notin DOMAIN a.outmatch
    BY <1>6, <1>7, <1>9, <1>10 DEF Wanted
  <2> QED BY <2>1, <1>8
<1> HIDE DEF taken
<1>12. AreTurns(turns, type, n, m)
  <2>1. next.grant \in [0..(m - 1) -> Int]
    <3> DEFINE f == [o \in DOMAIN taken |-> (taken[o] + 1) % a.inputs]
    <3>3. \A o \in taking : o \in 0..(m - 1) /\ taken[o] \in Int
      BY <1>11
    <3>1. DOMAIN f \subseteq 0..(m - 1) /\ \A o \in DOMAIN f : f[o] \in Int
      <4> HIDE DEF taking
      <4> QED BY <1>3, <1>10, <3>3
    <3> HIDE DEF f
    <3>2. Override(f, a.turns.grant) \in [0..(m - 1) -> Int]
      BY <3>1, <1>3, OverrideTyped
    <3> QED BY <3>2 DEF f
  <2>2. next.accept \in [0..(n - 1) -> Int]
    <3> DEFINE f == [i \in DOMAIN accepted |-> (accepted[i] + 1) % a.outputs]
    <3>3. \A i \in accepting : i \in 0..(n - 1) /\ accepted[i] \in Int
      BY <1>9, <1>10, <1>11
    <3>1. DOMAIN f \subseteq 0..(n - 1) /\ \A i \in DOMAIN f : f[i] \in Int
      <4> HIDE DEF accepting
      <4> QED BY <1>3, <1>8, <3>3
    <3> HIDE DEF f
    <3>2. Override(f, a.turns.accept) \in [0..(n - 1) -> Int]
      BY <3>1, <1>3, OverrideTyped
    <3> QED BY <3>2 DEF f
  <2> HIDE DEF next
  <2> QED BY <2>1, <2>2, <1>3 DEF AreTurns
<1> HIDE DEF turns
<1> HIDE DEF in, out
<1>16. AreTurns(turns, type, n, m)
  BY <1>12
<1>17. IsAllocator(a, type, n, m)
  BY <1>0
<1>18. IsAllocator(Changed(a, in, out, turns), type, n, m)
  BY <1>16, <1>17, AllocatorChanged, Zenon
<1>19. c.inmatch = in /\ c.outmatch = out
  <2>1. DOMAIN a = AllocatorFields
    BY <1>17 DEF IsAllocator
  <2> QED BY <2>1 DEF Changed, AllocatorFields
<1>13. IsAllocator(c, type, n, m) /\ c.inmatch = in /\ c.outmatch = out
  BY <1>18, <1>19
<1> HIDE DEF c
<1>14. Matching(c, R)
  <2>1. /\ DOMAIN in = accepting \union DOMAIN a.inmatch
        /\ \A i \in accepting : in[i] = accepted[i]
        /\ \A i \in DOMAIN a.inmatch \ accepting : in[i] = a.inmatch[i]
    <3>1. /\ DOMAIN in = DOMAIN accepted \union DOMAIN a.inmatch
          /\ \A i \in DOMAIN accepted : in[i] = accepted[i]
          /\ \A i \in DOMAIN a.inmatch \ DOMAIN accepted : in[i] = a.inmatch[i]
      BY Overridden, Zenon DEF in
    <3> QED BY <3>1, <1>8
  <2>2. /\ DOMAIN out = taking \union DOMAIN a.outmatch
        /\ \A o \in taking : out[o] = taken[o]
        /\ \A o \in DOMAIN a.outmatch \ taking : out[o] = a.outmatch[o]
    <3>1. /\ DOMAIN out = DOMAIN taken \union DOMAIN a.outmatch
          /\ \A o \in DOMAIN taken : out[o] = taken[o]
          /\ \A o \in DOMAIN a.outmatch \ DOMAIN taken : out[o] = a.outmatch[o]
      BY Overridden, Zenon DEF out
    <3> QED BY <3>1, <1>10
  <2>3. ASSUME NEW i \in accepting
        PROVE  <<i, in[i]>> \in R /\ in[i] \in DOMAIN out /\ out[in[i]] = i
    <3>1. in[i] = accepted[i] /\ accepted[i] \in Wanted(a, requests)
      BY <2>1, <1>7, <1>9
    <3>2. <<i, accepted[i]>> \in R
      BY <3>1, <1>6, <1>9 DEF Asking
    <3> QED BY <3>1, <3>2, <2>2, <1>10
  <2>4. ASSUME NEW i \in DOMAIN a.inmatch \ accepting
        PROVE  <<i, in[i]>> \in R /\ in[i] \in DOMAIN out /\ out[in[i]] = i
    <3>1. /\ <<i, a.inmatch[i]>> \in R /\ a.inmatch[i] \in DOMAIN a.outmatch
          /\ a.outmatch[a.inmatch[i]] = i
      BY <1>0 DEF Matching
    <3> QED BY <3>1, <2>1, <2>2, <1>11
  <2> QED BY <2>1, <2>3, <2>4, <1>13 DEF Matching
<1> QED BY <1>1, <1>2, <1>13, <1>14, Zenon DEF c

\* iSLIP: every iteration starts without grants and leaves a matching.
LEMMA iSLIPMatches ==
  ASSUME NEW a, NEW type, NEW n \in Nat \ {0}, NEW m \in Nat \ {0},
         type.name = "islip", type.iters \in Nat, IsAllocator(a, type, n, m), a.inmatch = <<>>,
         NEW requests, AreRequests(requests, n, m)
  PROVE  /\ IsAllocator(iSLIP(a, requests), type, n, m)
         /\ Matching(iSLIP(a, requests), DOMAIN requests)
<1> DEFINE plain == [r \in DOMAIN requests |-> [in_pri |-> 0, out_pri |-> 0]]
           N == a.type.iters
           Step(b, first) == GrantAndAccept([a |-> b, grants |-> <<>>], plain, first).a
           H(h) == [k \in 0..N |-> IF k = 0 THEN a ELSE Step(h[k - 1], k = 1)]
           f == CHOOSE h : h = H(h)
           Good(b) == IsAllocator(b, type, n, m) /\ Matching(b, DOMAIN requests)
<1>1. iSLIP(a, requests) = f[N]
  BY Zenon DEF iSLIP
<1>2. N \in Nat
  BY DEF IsAllocator
<1>3. AreRequests(plain, n, m) /\ DOMAIN plain = DOMAIN requests
  BY DEF AreRequests
<1> HIDE DEF plain, N
<1>4. ASSUME NEW b, NEW first, Good(b) PROVE Good(Step(b, first))
  <2> DEFINE s == [a |-> b, grants |-> <<>>]
  <2>1. s.a = b /\ s.grants = <<>>
    OBVIOUS
  <2>2. type.name \in {"islip", "select", "loa"}
    OBVIOUS
  <2>3. IsAllocator(s.a, type, n, m) /\ Matching(s.a, DOMAIN plain)
    BY <1>3, <1>4, <2>1, Zenon
  <2> HIDE DEF s
  <2>4. /\ IsAllocator(GrantAndAccept(s, plain, first).a, type, n, m)
        /\ Matching(GrantAndAccept(s, plain, first).a, DOMAIN plain)
    BY <1>3, <2>1, <2>2, <2>3, Iteration, Zenon
  <2> QED BY <2>4, <1>3 DEF s
<1> DEFINE Run(g, k) == g[0] = a /\ \A j \in 1..k : g[j] = Step(g[j - 1], j = 1)
           Done == {k \in 0..N : \E g : Run(g, k)}
<1> HIDE DEF Step
<1>5. N \in Done
  <2>1. 0 \in Done
    <3> DEFINE g == [i \in {0} |-> a]
    <3>1. Run(g, 0)
      OBVIOUS
    <3>2. \E h : Run(h, 0)
      <4> HIDE DEF Run, g
      <4> QED BY <3>1
    <3> HIDE DEF Run
    <3> QED BY <3>2, <1>2
  <2>2. ASSUME NEW k \in 1..N, k - 1 \in Done PROVE k \in Done
    <3>1. PICK g : Run(g, k - 1)
      <4> HIDE DEF Run
      <4> QED BY <2>2
    <3> DEFINE h == [i \in 0..k |-> IF i = k THEN Step(g[k - 1], k = 1) ELSE g[i]]
    <3>2. Run(h, k)
      <4>1. h[0] = a
        BY <3>1
      <4>2. ASSUME NEW j \in 1..k PROVE h[j] = Step(h[j - 1], j = 1)
        <5>1. CASE j = k
          BY <5>1
        <5>2. CASE j # k
          <6>1. j \in 1..(k - 1) /\ h[j] = g[j] /\ h[j - 1] = g[j - 1]
            BY <5>2
          <6> QED BY <6>1, <3>1
        <5> QED BY <5>1, <5>2
      <4> QED BY <4>1, <4>2
    <3>3. \E j : Run(j, k)
      <4> HIDE DEF Run, h
      <4> QED BY <3>2
    <3> HIDE DEF Run
    <3> QED BY <3>3
  <2> HIDE DEF Done
  <2>3. \A k \in 1..N : k - 1 \in Done => k \in Done
    BY <2>2
  <2>4. \A k \in 0..N : k \in Done
    BY <1>2, <2>1, <2>3, UpTo, Zenon
  <2> QED BY <2>4, <1>2
<1>6. PICK g : Run(g, N)
  <2> HIDE DEF Run
  <2> QED BY <1>5
<1> DEFINE r == [k \in 0..N |-> g[k]]
<1>7. r = H(r)
  <2>1. ASSUME NEW k \in 0..N PROVE r[k] = H(r)[k]
    <3>1. CASE k = 0
      BY <1>6, <3>1
    <3>2. CASE k # 0
      <4>1. k \in 1..N /\ k - 1 \in 0..N
        BY <1>2, <3>2
      <4>2. r[k] = g[k] /\ r[k - 1] = g[k - 1]
        BY <4>1
      <4>3. H(r)[k] = Step(r[k - 1], k = 1)
        BY <3>2
      <4>4. g[k] = Step(g[k - 1], k = 1)
        BY <1>6, <4>1
      <4> QED BY <4>2, <4>3, <4>4
    <3> QED BY <3>1, <3>2
  <2> HIDE DEF Run
  <2> QED BY <2>1
<1>8. f = H(f)
  <2> HIDE DEF H, r
  <2> QED BY <1>7, Zenon
<1> HIDE DEF f
<1>9. f[0] = a /\ \A k \in 1..N : f[k] = Step(f[k - 1], k = 1)
  <2>1. f[0] = H(f)[0] /\ \A k \in 0..N : f[k] = H(f)[k]
    <3> HIDE DEF H
    <3> QED BY <1>8, Zenon
  <2>2. H(f)[0] = a /\ \A k \in 1..N : H(f)[k] = Step(f[k - 1], k = 1) /\ k \in 0..N
    BY <1>2
  <2> HIDE DEF H
  <2> QED BY <2>1, <2>2
<1> DEFINE Right == {k \in 0..N : Good(f[k])}
<1>10. 0 \in Right
  <2>1. Matching(a, DOMAIN requests)
    BY DEF Matching
  <2> QED BY <2>1, <1>2, <1>9
<1>11. ASSUME NEW k \in 1..N, k - 1 \in Right PROVE k \in Right
  <2>1. Good(f[k - 1]) /\ f[k] = Step(f[k - 1], k = 1)
    BY <1>9, <1>11
  <2> HIDE DEF Good
  <2>2. Good(f[k])
    BY <2>1, <1>4
  <2> QED BY <2>2
<1>12. \A k \in 0..N : k \in Right
  <2> HIDE DEF Right
  <2>1. \A k \in 1..N : k - 1 \in Right => k \in Right
    BY <1>11
  <2> QED BY <1>2, <1>10, <2>1, UpTo, Zenon
<1> QED BY <1>1, <1>2, <1>12

\* SelAlloc with one iteration.
LEMMA SelAllocMatches ==
  ASSUME NEW a, NEW type, NEW n \in Nat \ {0}, NEW m \in Nat \ {0},
         type.name = "select", type.iters = 1, IsAllocator(a, type, n, m), a.inmatch = <<>>,
         NEW requests, AreRequests(requests, n, m)
  PROVE  /\ IsAllocator(SelAlloc(a, requests), type, n, m)
         /\ Matching(SelAlloc(a, requests), DOMAIN requests)
<1> DEFINE N == a.type.iters
           start == [a |-> a, grants |-> <<>>]
           Step(s, first) == GrantAndAccept(s, requests, first)
           H(h) == [k \in 0..N |-> IF k = 0 THEN start ELSE Step(h[k - 1], k = 1)]
           f == CHOOSE h : h = H(h)
           g == [k \in 0..N |-> IF k = 0 THEN start ELSE Step(start, k = 1)]
<1>1. SelAlloc(a, requests) = f[N].a
  BY Zenon DEF SelAlloc
<1>2. N = 1
  BY DEF IsAllocator
<1>3. start.a = a /\ start.grants = <<>>
  OBVIOUS
<1> HIDE DEF N, start, Step
<1>4. g = H(g)
  <2>1. ASSUME NEW k \in 0..N PROVE g[k] = H(g)[k]
    <3>1. CASE k = 0
      BY <3>1
    <3>2. CASE k # 0
      <4>1. k = 1 /\ k - 1 = 0 /\ 0 \in 0..N
        BY <1>2, <3>2
      <4> QED BY <4>1
    <3> QED BY <3>1, <3>2
  <2> QED BY <2>1
<1>5. f = H(f)
  <2> HIDE DEF H, g
  <2> QED BY <1>4, Zenon
<1> HIDE DEF f
<1>6. f[1] = Step(start, 1 = 1)
  <2>1. f[0] = H(f)[0] /\ f[1] = H(f)[1]
    <3> HIDE DEF H
    <3> QED BY <1>5, Zenon
  <2>2. H(f)[0] = start /\ H(f)[1] = Step(f[0], 1 = 1)
    BY <1>2
  <2> HIDE DEF H
  <2> QED BY <2>1, <2>2
<1>7. Matching(start.a, DOMAIN requests) /\ IsAllocator(start.a, type, n, m)
  BY <1>3 DEF Matching
<1>8. type.name \in {"islip", "select", "loa"}
  OBVIOUS
<1>9. /\ IsAllocator(Step(start, 1 = 1).a, type, n, m)
      /\ Matching(Step(start, 1 = 1).a, DOMAIN requests)
  BY <1>3, <1>7, <1>8, Iteration, Zenon DEF Step
<1> QED BY <1>1, <1>2, <1>6, <1>9

\* LOA::Allocate returns a matching of what was requested.
LEMMA LOAMatches ==
  ASSUME NEW a, NEW type, NEW n \in Nat \ {0}, NEW m \in Nat \ {0},
         type.name = "loa", IsAllocator(a, type, n, m),
         NEW requests, AreRequests(requests, n, m)
  PROVE  /\ IsAllocator(LOA(a, requests), type, n, m)
         /\ Matching(LOA(a, requests), DOMAIN requests)
<1> DEFINE
      count(o) == Cardinality(Asking(a, requests, o))
      choices(i) == {o \in 0..(a.outputs - 1) : <<i, o>> \in DOMAIN requests}
      fewest(i) == {o \in choices(i) : \A p \in choices(i) : count(o) <= count(p)}
      asking == {r[1] : r \in DOMAIN requests}
      lonely == Evaluated([i \in asking |-> FirstFrom(fewest(i), a.turns.accept[i], a.outputs)])
      asked == {lonely[i] : i \in DOMAIN lonely}
      by(o) == {i \in DOMAIN lonely : lonely[i] = o}
      granted == Evaluated([o \in asked |-> FirstFrom(by(o), a.turns.grant[o], a.inputs)])
      winners == {granted[o] : o \in DOMAIN granted}
      in == [i \in winners |-> lonely[i]]
      f == [o \in DOMAIN granted |-> (a.turns.grant[o] + 1) % a.inputs]
      g == [i \in winners |-> (a.turns.accept[i] + 1) % a.outputs]
      turns == [grant |-> Override(f, a.turns.grant), accept |-> Override(g, a.turns.accept)]
<1>1. LOA(a, requests) = Changed(a, in, granted, turns)
  BY Zenon DEF LOA, Changed
<1>2. /\ a.inputs = n /\ a.outputs = m /\ a.turns.grant \in [0..(m - 1) -> Int]
      /\ a.turns.accept \in [0..(n - 1) -> Int]
  BY DEF IsAllocator, AreTurns
<1>3. \A r \in DOMAIN requests : r = <<r[1], r[2]>> /\ r[1] \in 0..(n - 1) /\ r[2] \in 0..(m - 1)
  BY DEF AreRequests
<1>4. DOMAIN lonely = asking /\ \A i \in asking :
        lonely[i] = FirstFrom(fewest(i), a.turns.accept[i], a.outputs)
  <2> HIDE DEF fewest, asking
  <2>1. lonely = [i \in asking |-> FirstFrom(fewest(i), a.turns.accept[i], a.outputs)]
    BY Zenon, EvaluatedIs
  <2> QED BY <2>1, Zenon
<1> HIDE DEF lonely
<1>5. ASSUME NEW i \in asking
      PROVE  /\ i \in 0..(n - 1) /\ lonely[i] \in 0..(m - 1) /\ <<i, lonely[i]>> \in DOMAIN requests
  <2>1. PICK r \in DOMAIN requests : r[1] = i
    OBVIOUS
  <2>2. i \in 0..(n - 1) /\ r[2] \in choices(i) /\ choices(i) \subseteq 0..(m - 1)
    BY <1>2, <1>3, <2>1
  <2>3. \A o : count(o) \in Nat
    <3> TAKE o
    <3>1. Asking(a, requests, o) \in SUBSET (0..(n - 1))
      BY <1>2 DEF Asking
    <3> QED BY <3>1, Small, n - 1 \in Nat, FS_CardinalityType
  <2>4. fewest(i) # {}
    <3> DEFINE D == choices(i)
               B == {xy \in D \X D : count(xy[1]) < count(xy[2])}
    <3>1. IsFiniteSet(D) /\ D # {}
      BY <2>2, Small, m - 1 \in Nat
    <3> HIDE DEF D, count
    <3>2. \A x \in D : <<x, x>> \notin B
      BY <2>3
    <3>3. \A x, y, z \in D : <<x, y>> \in B /\ <<y, z>> \in B => <<x, z>> \in B
      BY <2>3
    <3>4. \E x \in D : \A y \in D : <<y, x>> \notin B
      <4> HIDE DEF B
      <4> QED BY <3>1, <3>2, <3>3, LeastIn, Zenon
    <3>5. PICK x \in D : \A y \in D : <<y, x>> \notin B
      BY <3>4
    <3>6. ASSUME NEW y \in D PROVE count(x) <= count(y)
      <4>1. <<y, x>> \in D \X D
        OBVIOUS
      <4>2. ~ (count(y) < count(x))
        BY <3>5, <4>1
      <4> QED BY <4>2, <2>3
    <3> QED BY <3>5, <3>6 DEF D
  <2>5. fewest(i) \in SUBSET Int /\ fewest(i) \subseteq choices(i)
    BY <2>2
  <2>6. a.turns.accept[i] \in Int /\ a.outputs \in Nat \ {0}
    BY <1>2, <2>2
  <2> HIDE DEF fewest
  <2>7. lonely[i] \in fewest(i)
    BY <1>4, <2>4, <2>5, <2>6, FirstFromIn
  <2> QED BY <2>2, <2>5, <2>7
<1>6. DOMAIN granted = asked /\ \A o \in asked :
        granted[o] = FirstFrom(by(o), a.turns.grant[o], a.inputs)
  <2> HIDE DEF by, asked
  <2>1. granted = [o \in asked |-> FirstFrom(by(o), a.turns.grant[o], a.inputs)]
    BY Zenon, EvaluatedIs
  <2> QED BY <2>1, Zenon
<1> HIDE DEF granted
<1>7. ASSUME NEW o \in asked
      PROVE  o \in 0..(m - 1) /\ granted[o] \in asking /\ lonely[granted[o]] = o
  <2>0. PICK i \in asking : lonely[i] = o
    BY <1>4
  <2>1. o \in 0..(m - 1) /\ by(o) # {} /\ by(o) \in SUBSET Int
    <3> HIDE DEF asking
    <3>1. o \in 0..(m - 1) /\ i \in by(o)
      BY <1>4, <1>5, <2>0
    <3>2. \A j \in by(o) : j \in Int
      <4>2. \A j \in asking : j \in 0..(n - 1)
        BY <1>5, Zenon
      <4>1. \A j \in asking : j \in Int
        BY <4>2
      <4> QED BY <1>4, <4>1
    <3> QED BY <3>1, <3>2
  <2>2. a.turns.grant[o] \in Int
    BY <1>2, <2>1
  <2> HIDE DEF by
  <2>3. granted[o] \in by(o)
    BY <1>2, <1>6, <2>1, <2>2, FirstFromIn
  <2> QED BY <1>4, <2>1, <2>3 DEF by
<1> HIDE DEF asking, asked
<1>8. AreTurns(turns, type, n, m)
  <2>1. turns.grant \in [0..(m - 1) -> Int]
    <3>1. DOMAIN f \subseteq 0..(m - 1) /\ \A o \in DOMAIN f : f[o] \in Int
      BY <1>2, <1>6, <1>7
    <3> HIDE DEF f
    <3>2. Override(f, a.turns.grant) \in [0..(m - 1) -> Int]
      BY <3>1, <1>2, OverrideTyped
    <3> QED BY <3>2
  <2>2. turns.accept \in [0..(n - 1) -> Int]
    <3>3. ASSUME NEW i \in winners
          PROVE  i \in 0..(n - 1) /\ (a.turns.accept[i] + 1) % a.outputs \in Int
      <4>1. PICK o \in asked : granted[o] = i
        BY <1>6
      <4>2. i \in 0..(n - 1)
        BY <4>1, <1>5, <1>7
      <4>3. a.turns.accept[i] \in Int
        BY <4>2, <1>2
      <4> HIDE DEF winners
      <4> QED BY <4>2, <4>3, <1>2
    <3>1. DOMAIN g \subseteq 0..(n - 1) /\ \A i \in DOMAIN g : g[i] \in Int
      <4> HIDE DEF winners
      <4> QED BY <3>3
    <3> HIDE DEF g
    <3>2. Override(g, a.turns.accept) \in [0..(n - 1) -> Int]
      BY <3>1, <1>2, OverrideTyped
    <3> QED BY <3>2
  <2> HIDE DEF turns
  <2> QED BY <2>1, <2>2, <1>2 DEF AreTurns
<1> DEFINE c == Changed(a, in, granted, turns)
<1>9. IsAllocator(c, type, n, m)
  <2> HIDE DEF turns, in
  <2> QED BY <1>8, AllocatorChanged, Zenon
<1>10. c.inmatch = in /\ c.outmatch = granted
  <2>1. DOMAIN a = AllocatorFields
    BY DEF IsAllocator
  <2> HIDE DEF turns, in
  <2> QED BY <2>1 DEF Changed, AllocatorFields
<1>11. ASSUME NEW i \in winners
       PROVE  <<i, lonely[i]>> \in DOMAIN requests /\ lonely[i] \in asked /\ granted[lonely[i]] = i
  <2>1. PICK o \in asked : granted[o] = i
    BY <1>6
  <2> QED BY <2>1, <1>5, <1>7
<1> HIDE DEF c, winners
<1>12. Matching(c, DOMAIN requests)
  BY <1>6, <1>10, <1>11 DEF Matching
<1> QED BY <1>1, <1>9, <1>12, Zenon DEF c

\* The place of one of total members in groups of size members each.
LEMMA InGroups ==
  ASSUME NEW total \in Nat \ {0}, NEW groups \in Nat \ {0}, total % groups = 0
  PROVE  /\ total \div groups \in Nat \ {0}
         /\ \A x \in 0..(total - 1) :
              /\ x \div (total \div groups) \in 0..(groups - 1)
              /\ x % (total \div groups) \in 0..((total \div groups) - 1)
              /\ (x \div (total \div groups)) * (total \div groups) + (x % (total \div groups)) = x
<1> DEFINE size == total \div groups
<1>1. total = groups * size /\ size \in Int
  BY SMTT(30)
<1>2. size \in Nat \ {0}
  <2>1. size <= 0 => groups * size <= 0
    BY <1>1, SMTT(30)
  <2> QED BY <1>1, <2>1
<1> HIDE DEF size
<1>3. ASSUME NEW x \in 0..(total - 1)
      PROVE  /\ x \div size \in 0..(groups - 1) /\ x % size \in 0..(size - 1)
             /\ (x \div size) * size + (x % size) = x
  <2> DEFINE q == x \div size
             r == x % size
  <2>1. q \in Int /\ r \in 0..(size - 1) /\ x = size * q + r
    BY <1>2, SMTT(30)
  <2> HIDE DEF q, r
  <2>2. q >= 0
    <3>1. q <= -1 => size * q <= -size
      BY <1>2, <2>1, SMTT(30)
    <3> QED BY <2>1, <3>1, <1>2
  <2>3. q <= groups - 1
    <3>1. q >= groups => size * q >= size * groups
      BY <1>2, <2>1, SMTT(30)
    <3>2. size * groups = total
      BY <1>1, <1>2, SMTT(30)
    <3> QED BY <2>1, <3>1, <3>2, <1>2
  <2>4. q * size = size * q
    BY <1>2, <2>1, SMTT(30)
  <2> QED BY <2>1, <2>2, <2>3, <2>4, <1>2 DEF q, r
<1> QED BY <1>2, <1>3 DEF size

-----------------------------------------------------------------------------
\* Arbiters choose one of those that ask, in one level or two.

\* A round-robin or matrix arbiter chooses one of those that ask.
LEMMA SimpleWins ==
  ASSUME NEW kind, NEW size \in Nat \ {0}, NEW arb, IsSimple(arb, kind, size),
         NEW pri, DOMAIN pri \in SUBSET (0..(size - 1)), DOMAIN pri # {},
         \A x \in DOMAIN pri : pri[x] \in Int
  PROVE  SimpleWinner(arb, pri) \in DOMAIN pri
<1> DEFINE best == Highest(pri)
<1>1. IsFiniteSet(DOMAIN pri)
  BY Small, size - 1 \in Nat
<1>2. best # {} /\ best \subseteq DOMAIN pri
  BY <1>1, HighestSome
<1> HIDE DEF best
<1>3. CASE kind = "matrix"
  <2>1. IsFiniteSet(best) /\ \A x \in best : x \in 0..(size - 1)
    BY <1>1, <1>2, FS_Subset
  <2>2. arb.kind = "matrix" /\ IsOrder(arb.over, size)
    BY <1>3 DEF IsSimple
  <2> DEFINE B == arb.over
  <2>3. \A x \in best : <<x, x>> \notin B
    BY <2>1, <2>2 DEF IsOrder
  <2>4. \A x, y, z \in best : <<x, y>> \in B /\ <<y, z>> \in B => <<x, z>> \in B
    BY <2>1, <2>2 DEF IsOrder
  <2>5. \E x \in best : \A y \in best : <<y, x>> \notin B
    <3> HIDE DEF B
    <3> QED BY <1>2, <2>1, <2>3, <2>4, LeastIn, Zenon
  <2>6. \E x \in best : \A y \in best \ {x} : <<x, y>> \in arb.over
    <3>1. PICK x \in best : \A y \in best : <<y, x>> \notin B
      BY <2>5
    <3>2. \A y \in best \ {x} : <<x, y>> \in arb.over
      BY <3>1, <2>1, <2>2 DEF IsOrder
    <3> QED BY <3>2
  <2>7. SimpleWinner(arb, pri) = CHOOSE x \in best : \A y \in best \ {x} : <<x, y>> \in arb.over
    BY <2>2, Zenon DEF SimpleWinner, best
  <2>8. SimpleWinner(arb, pri) \in best
    BY <2>6, <2>7, Zenon
  <2> QED BY <2>8, <1>2
<1>4. CASE kind # "matrix"
  <2>1. arb.kind # "matrix" /\ arb.size = size /\ arb.pointer \in Int
    BY <1>4 DEF IsSimple
  <2>2. SimpleWinner(arb, pri) = FirstFrom(best, arb.pointer, size)
    BY <2>1 DEF SimpleWinner, best
  <2>3. best \in SUBSET Int
    BY <1>2
  <2>4. FirstFrom(best, arb.pointer, size) \in best
    BY <1>2, <2>1, <2>3, FirstFromIn
  <2> QED BY <2>2, <2>4, <1>2
<1> QED BY <1>3, <1>4

\* UpdateState leaves a round-robin or matrix arbiter one.
LEMMA SimpleKept ==
  ASSUME NEW kind, NEW size \in Nat \ {0}, NEW arb, IsSimple(arb, kind, size),
         NEW x \in 0..(size - 1)
  PROVE  IsSimple(SimpleUpdated(arb, x), kind, size)
<1>1. CASE kind = "matrix"
  <2> DEFINE others == 0..(size - 1) \ {x}
             over == (arb.over \ ({x} \X others)) \union (others \X {x})
  <2>1. arb.kind = "matrix" /\ arb.size = size /\ IsOrder(arb.over, size)
    BY <1>1 DEF IsSimple
  <2>2. SimpleUpdated(arb, x) = [arb EXCEPT !.over = over]
    BY <2>1 DEF SimpleUpdated
  <2>3. IsOrder(over, size)
    <3>1. ASSUME NEW u \in 0..(size - 1), NEW v \in 0..(size - 1)
          PROVE  <<u, v>> \in over <=>
                   \/ v = x /\ u # x
                   \/ u # x /\ v # x /\ <<u, v>> \in arb.over
      <4>1. <<x, x>> \notin arb.over
        BY <2>1 DEF IsOrder
      <4>2. CASE u = x
        BY <4>1, <4>2
      <4>3. CASE u # x
        BY <4>3
      <4> QED BY <4>2, <4>3
    <3> HIDE DEF over
    <3>2. ASSUME NEW u \in 0..(size - 1), NEW v \in 0..(size - 1), NEW w \in 0..(size - 1)
          PROVE  /\ <<u, u>> \notin over
                 /\ u = v \/ <<u, v>> \in over \/ <<v, u>> \in over
                 /\ <<u, v>> \in over /\ <<v, w>> \in over => <<u, w>> \in over
      <4>1. /\ <<u, u>> \notin arb.over
            /\ u = v \/ <<u, v>> \in arb.over \/ <<v, u>> \in arb.over
            /\ <<u, v>> \in arb.over /\ <<v, w>> \in arb.over => <<u, w>> \in arb.over
        BY <2>1, Zenon DEF IsOrder
      <4>2. /\ <<u, u>> \in over <=> u # x /\ <<u, u>> \in arb.over
            /\ <<u, v>> \in over <=> (v = x /\ u # x) \/ (u # x /\ v # x /\ <<u, v>> \in arb.over)
            /\ <<v, u>> \in over <=> (u = x /\ v # x) \/ (u # x /\ v # x /\ <<v, u>> \in arb.over)
            /\ <<v, w>> \in over <=> (w = x /\ v # x) \/ (v # x /\ w # x /\ <<v, w>> \in arb.over)
            /\ <<u, w>> \in over <=> (w = x /\ u # x) \/ (u # x /\ w # x /\ <<u, w>> \in arb.over)
        BY <3>1, Zenon
      <4> QED BY <4>1, <4>2
    <3> QED BY <3>2, Zenon DEF IsOrder
  <2> HIDE DEF over
  <2>4. /\ DOMAIN SimpleUpdated(arb, x) = DOMAIN arb /\ SimpleUpdated(arb, x).kind = arb.kind
        /\ SimpleUpdated(arb, x).size = arb.size
        /\ "over" \in DOMAIN arb => SimpleUpdated(arb, x).over = over
    BY <2>2
  <2>5. "over" \in DOMAIN arb
    BY <1>1 DEF IsSimple
  <2> QED BY <1>1, <2>3, <2>4, <2>5 DEF IsSimple
<1>2. CASE kind # "matrix"
  <2> DEFINE pointer == (x + 1) % size
  <2>1. arb.kind # "matrix" /\ arb.size = size /\ "pointer" \in DOMAIN arb
    BY <1>2 DEF IsSimple
  <2>2. SimpleUpdated(arb, x) = [arb EXCEPT !.pointer = pointer]
    BY <2>1 DEF SimpleUpdated
  <2>3. pointer \in Int
    OBVIOUS
  <2> HIDE DEF pointer
  <2>4. /\ DOMAIN SimpleUpdated(arb, x) = DOMAIN arb /\ SimpleUpdated(arb, x).kind = arb.kind
        /\ SimpleUpdated(arb, x).size = arb.size
        /\ SimpleUpdated(arb, x).pointer = pointer
    BY <2>1, <2>2
  <2> QED BY <1>2, <2>3, <2>4 DEF IsSimple
<1> QED BY <1>1, <1>2

\* A new round-robin or matrix arbiter is one.
LEMMA NewSimple ==
  ASSUME NEW kind, NEW size \in Nat \ {0}
  PROVE  IsSimple(SimpleArbiter(kind, size), kind, size)
<1>1. CASE kind = "matrix"
  <2> DEFINE over == {p \in (0..(size - 1)) \X (0..(size - 1)) : p[1] > p[2]}
             arb == [kind |-> kind, size |-> size, over |-> over]
  <2>1. SimpleArbiter(kind, size) = arb
    BY <1>1 DEF SimpleArbiter
  <2>2. IsOrder(over, size)
    <3>1. \A u, v \in 0..(size - 1) : <<u, v>> \in over <=> u > v
      OBVIOUS
    <3> HIDE DEF over
    <3>2. ASSUME NEW u \in 0..(size - 1), NEW v \in 0..(size - 1), NEW w \in 0..(size - 1)
          PROVE  /\ <<u, u>> \notin over
                 /\ u = v \/ <<u, v>> \in over \/ <<v, u>> \in over
                 /\ <<u, v>> \in over /\ <<v, w>> \in over => <<u, w>> \in over
      BY <3>1
    <3> QED BY <3>2, Zenon DEF IsOrder
  <2> HIDE DEF over
  <2>3. IsSimple(arb, kind, size)
    BY <1>1, <2>2 DEF IsSimple
  <2> QED BY <2>1, <2>3
<1>2. CASE kind # "matrix"
  BY <1>2 DEF SimpleArbiter, IsSimple
<1> QED BY <1>1, <1>2

\* The groups of a tree arbiter have the same size (tree_arb.cpp:43).
IsTree(type, total) == type.groups \in Nat \ {0} /\ total % type.groups = 0

\* A tree arbiter chooses one of those that ask: the group the second level
\* chooses has an element that asks.
LEMMA TreeWins ==
  ASSUME NEW type, NEW total \in Nat \ {0}, IsTree(type, total),
         NEW arb, IsArbiter(arb, type, total),
         NEW pri, DOMAIN pri \in SUBSET (0..(total - 1)), DOMAIN pri # {},
         \A x \in DOMAIN pri : pri[x] \in Int
  PROVE  Winner(arb, pri) \in DOMAIN pri
<1> DEFINE size == arb.group[0].size
           members(g) == {x \in DOMAIN pri : x \div size = g}
           places(g) == {y % size : y \in members(g)}
           in_group(g) == [x \in places(g) |-> pri[g * size + x]]
           first(g) == g * size + SimpleWinner(arb.group[g], in_group(g))
           groups == {x \div size : x \in DOMAIN pri}
           best == [g \in groups |-> pri[first(g)]]
<1>1. Winner(arb, pri) = first(SimpleWinner(arb.global, best))
  BY Zenon DEF Winner
<1> DEFINE n == type.groups
           s == total \div n
<1>2. n \in Nat \ {0} /\ total % n = 0
  BY DEF IsTree
<1>3. /\ s \in Nat \ {0}
      /\ \A x \in 0..(total - 1) : /\ x \div s \in 0..(n - 1) /\ x % s \in 0..(s - 1)
                                   /\ (x \div s) * s + (x % s) = x
  <2> HIDE DEF n
  <2>1. s \in Nat \ {0}
    BY <1>2, InGroups
  <2>2. ASSUME NEW x \in 0..(total - 1)
        PROVE  x \div s \in 0..(n - 1) /\ x % s \in 0..(s - 1) /\ (x \div s) * s + (x % s) = x
    <3>1. x \div s \in 0..(n - 1)
      BY <1>2, InGroups
    <3>2. x % s \in 0..(s - 1)
      BY <1>2, InGroups
    <3>3. (x \div s) * s + (x % s) = x
      <4> DEFINE q == x \div s
                 r == x % s
      <4> HIDE DEF s
      <4>1. q \in Int /\ r \in Int /\ x = s * q + r
        BY <2>1, SMTT(30)
      <4> HIDE DEF q, r
      <4>2. q * s = s * q
        BY <2>1, <4>1, SMTT(30)
      <4> QED BY <4>1, <4>2 DEF q, r
    <3> QED BY <3>1, <3>2, <3>3
  <2> QED BY <2>1, <2>2
<1>4. /\ IsSimple(arb.global, type.kind, n) /\ size = s
      /\ \A g \in 0..(n - 1) : IsSimple(arb.group[g], type.kind, s)
  <2>1. /\ IsSimple(arb.global, type.kind, n)
        /\ \A g \in 0..(n - 1) : IsSimple(arb.group[g], type.kind, s)
    BY DEF IsArbiter
  <2>2. IsSimple(arb.group[0], type.kind, s)
    BY <1>2, <2>1
  <2> QED BY <2>1, <2>2 DEF IsSimple
<1> HIDE DEF size, n, s
<1>5. ASSUME NEW g \in groups
      PROVE  g \in 0..(n - 1) /\ first(g) \in DOMAIN pri
  <2>1. PICK x \in DOMAIN pri : x \div size = g
    OBVIOUS
  <2>2. g \in 0..(n - 1) /\ x \in members(g)
    BY <1>3, <1>4, <2>1
  <2>3. \A y \in members(g) : y % size \in 0..(s - 1) /\ g * size + (y % size) = y
    BY <1>3, <1>4
  <2>4. places(g) \in SUBSET (0..(s - 1)) /\ places(g) # {}
    <3> HIDE DEF members
    <3> QED BY <2>2, <2>3
  <2>5. \A z \in places(g) : g * size + z \in members(g)
    <3> HIDE DEF members
    <3> QED BY <2>3
  <2>6. \A y \in members(g) : y \in DOMAIN pri
    OBVIOUS
  <2> HIDE DEF members, places
  <2>7. DOMAIN in_group(g) = places(g) /\ \A z \in places(g) : in_group(g)[z] \in Int
    BY <2>5, <2>6
  <2> HIDE DEF in_group
  <2>8. IsSimple(arb.group[g], type.kind, s)
    BY <1>4, <2>2
  <2>9. SimpleWinner(arb.group[g], in_group(g)) \in DOMAIN in_group(g)
    <3> DEFINE p == in_group(g)
    <3>1. /\ DOMAIN p \in SUBSET (0..(s - 1)) /\ DOMAIN p # {}
          /\ \A z \in DOMAIN p : p[z] \in Int
      BY <2>4, <2>7
    <3> HIDE DEF p
    <3>2. SimpleWinner(arb.group[g], p) \in DOMAIN p
      BY <1>3, <2>8, <3>1, SimpleWins, Zenon
    <3> QED BY <3>2 DEF p
  <2> QED BY <2>2, <2>5, <2>6, <2>7, <2>9
<1> HIDE DEF first
<1>6. /\ DOMAIN best \in SUBSET (0..(n - 1)) /\ DOMAIN best # {}
      /\ \A g \in DOMAIN best : best[g] \in Int
  <2>1. groups # {}
    OBVIOUS
  <2> HIDE DEF groups
  <2> QED BY <2>1, <1>5
<1>7. DOMAIN best = groups
  OBVIOUS
<1> HIDE DEF best, groups
<1>8. SimpleWinner(arb.global, best) \in DOMAIN best
  BY <1>2, <1>4, <1>6, SimpleWins, Zenon
<1> QED BY <1>1, <1>5, <1>7, <1>8

\* TreeArbiter::UpdateState leaves the arbiter of the groups, and each of them, one.
LEMMA TreeKept ==
  ASSUME NEW type, NEW total \in Nat \ {0}, IsTree(type, total),
         NEW arb, IsArbiter(arb, type, total), NEW x \in 0..(total - 1)
  PROVE  IsArbiter(Updated(arb, x), type, total)
<1> DEFINE n == type.groups
           s == total \div n
           q == x \div s
           r == x % s
           group == [arb.group EXCEPT ![q] = SimpleUpdated(@, r)]
<1>2. n \in Nat \ {0} /\ total % n = 0
  BY DEF IsTree
<1>3. s \in Nat \ {0} /\ q \in 0..(n - 1) /\ r \in 0..(s - 1)
  <2> HIDE DEF n
  <2> QED BY <1>2, InGroups
<1>4. /\ IsSimple(arb.global, type.kind, n) /\ DOMAIN arb.group = 0..(n - 1)
      /\ \A g \in 0..(n - 1) : IsSimple(arb.group[g], type.kind, s)
  BY DEF IsArbiter
<1>5. arb.group[0].size = s
  <2>1. IsSimple(arb.group[0], type.kind, s)
    BY <1>2, <1>4
  <2> QED BY <2>1 DEF IsSimple
<1>6. Updated(arb, x) = [global |-> SimpleUpdated(arb.global, q), group |-> group]
  BY <1>5 DEF Updated
<1> HIDE DEF n, s, q, r
<1>7. IsSimple(SimpleUpdated(arb.global, q), type.kind, n)
  BY <1>2, <1>3, <1>4, SimpleKept
<1>8. /\ DOMAIN group = 0..(n - 1)
      /\ \A g \in 0..(n - 1) : group[g] = IF g = q THEN SimpleUpdated(arb.group[g], r) ELSE arb.group[g]
  BY <1>4
<1> HIDE DEF group
<1>9. ASSUME NEW g \in 0..(n - 1) PROVE IsSimple(group[g], type.kind, s)
  <2>1. CASE g = q
    BY <1>3, <1>4, <1>8, <2>1, SimpleKept
  <2>2. CASE g # q
    BY <1>4, <1>8, <2>2
  <2> QED BY <2>1, <2>2
<1> DEFINE u == [global |-> SimpleUpdated(arb.global, q), group |-> group]
<1>10. u.global = SimpleUpdated(arb.global, q) /\ u.group = group
  OBVIOUS
<1> HIDE DEF u
<1>11. IsArbiter(u, type, total)
  BY <1>7, <1>8, <1>9, <1>10 DEF IsArbiter, n, s
<1> QED BY <1>6, <1>11 DEF u

\* A new arbiter, of any kind, is one.
LEMMA NewTree ==
  ASSUME NEW type, NEW total \in Nat \ {0}, IsTree(type, total)
  PROVE  IsArbiter(NewArbiter(type, total), type, total)
<1> DEFINE n == type.groups
           s == total \div n
           global == SimpleArbiter(type.kind, n)
           one == SimpleArbiter(type.kind, s)
           u == [global |-> global, group |-> [g \in 0..(n - 1) |-> one]]
<1>1. n \in Nat \ {0} /\ total % n = 0
  BY DEF IsTree
<1>2. s \in Nat \ {0}
  <2> HIDE DEF n
  <2> QED BY <1>1, InGroups
<1>3. NewArbiter(type, total) = u
  BY DEF NewArbiter
<1> HIDE DEF n, s
<1>4. IsSimple(global, type.kind, n) /\ IsSimple(one, type.kind, s)
  BY <1>1, <1>2, NewSimple
<1> HIDE DEF global, one
<1>5. /\ u.global = global /\ DOMAIN u.group = 0..(n - 1)
      /\ \A g \in 0..(n - 1) : u.group[g] = one
  OBVIOUS
<1> HIDE DEF u
<1>6. IsArbiter(u, type, total)
  BY <1>4, <1>5 DEF IsArbiter, n, s
<1> QED BY <1>3, <1>6

\* An output that has an input has it for itself.
Backwards(a) ==
  \A o \in DOMAIN a.outmatch : a.outmatch[o] \in DOMAIN a.inmatch /\ a.inmatch[a.outmatch[o]] = o

\* The separable allocators have arbiters of every input and every output.
IsSeparable(type, n, m) ==
  /\ type.name \in {"separable_input_first", "separable_output_first"}
  /\ IsTree(type.arb, n) /\ IsTree(type.arb, m)

\* SeparableInputFirstAllocator::Allocate returns a matching of what was
\* requested.
LEMMA InputFirstMatches ==
  ASSUME NEW a, NEW type, NEW n \in Nat \ {0}, NEW m \in Nat \ {0},
         IsSeparable(type, n, m), IsAllocator(a, type, n, m),
         NEW requests, AreRequests(requests, n, m)
  PROVE  /\ IsAllocator(SeparableInputFirst(a, requests), type, n, m)
         /\ Matching(SeparableInputFirst(a, requests), DOMAIN requests)
         /\ Backwards(SeparableInputFirst(a, requests))
<1> DEFINE
      of(i) == {r[2] : r \in {q \in DOMAIN requests : q[1] = i}}
      wants(i) == [o \in of(i) |-> requests[<<i, o>>].in_pri]
      asking == {r[1] : r \in DOMAIN requests}
      chosen == Evaluated([i \in asking |-> Winner(a.turns.input[i], wants(i))])
      asked == {chosen[i] : i \in DOMAIN chosen}
      by(o) == {j \in DOMAIN chosen : chosen[j] = o}
      bids(o) == [i \in by(o) |-> requests[<<i, o>>].out_pri]
      granted == Evaluated([o \in asked |-> Winner(a.turns.output[o], bids(o))])
      winners == {granted[o] : o \in DOMAIN granted}
      in == [i \in winners |-> chosen[i]]
      f == [i \in winners |-> Updated(a.turns.input[i], chosen[i])]
      g == [o \in DOMAIN granted |-> Updated(a.turns.output[o], granted[o])]
      turns == [input |-> Override(f, a.turns.input), output |-> Override(g, a.turns.output)]
<1>1. SeparableInputFirst(a, requests) = Changed(a, in, granted, turns)
  BY Zenon DEF SeparableInputFirst, Changed
<1>2. /\ a.inputs = n /\ a.outputs = m
      /\ DOMAIN a.turns.input = 0..(n - 1) /\ DOMAIN a.turns.output = 0..(m - 1)
      /\ \A i \in 0..(n - 1) : IsArbiter(a.turns.input[i], type.arb, m)
      /\ \A o \in 0..(m - 1) : IsArbiter(a.turns.output[o], type.arb, n)
  BY DEF IsAllocator, AreTurns, IsSeparable
<1>3. \A r \in DOMAIN requests : r = <<r[1], r[2]>> /\ r[1] \in 0..(n - 1) /\ r[2] \in 0..(m - 1)
  BY DEF AreRequests
<1>4. \A r \in DOMAIN requests : requests[r].in_pri \in Int /\ requests[r].out_pri \in Int
  BY DEF AreRequests
<1>5. IsTree(type.arb, n) /\ IsTree(type.arb, m)
  BY DEF IsSeparable
<1>6. DOMAIN chosen = asking /\ \A i \in asking : chosen[i] = Winner(a.turns.input[i], wants(i))
  <2> HIDE DEF wants, asking
  <2>1. chosen = [i \in asking |-> Winner(a.turns.input[i], wants(i))]
    BY Zenon, EvaluatedIs
  <2> QED BY <2>1, Zenon
<1> HIDE DEF chosen
<1>7. ASSUME NEW i \in asking
      PROVE  i \in 0..(n - 1) /\ chosen[i] \in 0..(m - 1) /\ <<i, chosen[i]>> \in DOMAIN requests
  <2>1. PICK r \in DOMAIN requests : r[1] = i
    OBVIOUS
  <2>2. i \in 0..(n - 1)
    BY <1>3, <2>1
  <2>3. \A o \in of(i) : <<i, o>> \in DOMAIN requests /\ o \in 0..(m - 1)
    BY <1>3
  <2>4. r[2] \in of(i)
    BY <2>1
  <2> HIDE DEF of
  <2> DEFINE p == wants(i)
  <2>5. DOMAIN p = of(i) /\ \A o \in of(i) : p[o] \in Int
    BY <1>4, <2>3
  <2> HIDE DEF p
  <2>6. IsArbiter(a.turns.input[i], type.arb, m)
    BY <1>2, <2>2
  <2>7. DOMAIN p \in SUBSET (0..(m - 1)) /\ DOMAIN p # {} /\ \A o \in DOMAIN p : p[o] \in Int
    BY <2>3, <2>4, <2>5
  <2>8. Winner(a.turns.input[i], p) \in DOMAIN p
    BY <1>5, <2>6, <2>7, TreeWins, Zenon
  <2>9. chosen[i] \in of(i)
    BY <1>6, <2>5, <2>8 DEF p
  <2> QED BY <2>2, <2>3, <2>9
<1>8. DOMAIN granted = asked /\ \A o \in asked : granted[o] = Winner(a.turns.output[o], bids(o))
  <2> HIDE DEF bids, asked
  <2>1. granted = [o \in asked |-> Winner(a.turns.output[o], bids(o))]
    BY Zenon, EvaluatedIs
  <2> QED BY <2>1, Zenon
<1> HIDE DEF granted
<1>9. ASSUME NEW o \in asked
      PROVE  o \in 0..(m - 1) /\ granted[o] \in asking /\ chosen[granted[o]] = o
  <2>1. PICK i \in asking : chosen[i] = o
    BY <1>6
  <2>2. o \in 0..(m - 1) /\ i \in by(o)
    <3> HIDE DEF asking
    <3> QED BY <1>6, <1>7, <2>1
  <2>3. \A j \in by(o) : j \in asking /\ chosen[j] = o
    BY <1>6
  <2>4. \A j \in by(o) : j \in 0..(n - 1) /\ <<j, o>> \in DOMAIN requests
    <3> HIDE DEF asking, by
    <3> QED BY <1>7, <2>3
  <2> HIDE DEF by
  <2> DEFINE p == bids(o)
  <2>5. DOMAIN p = by(o) /\ \A j \in by(o) : p[j] \in Int
    BY <1>4, <2>4
  <2> HIDE DEF p
  <2>6. IsArbiter(a.turns.output[o], type.arb, n)
    BY <1>2, <2>2
  <2>7. DOMAIN p \in SUBSET (0..(n - 1)) /\ DOMAIN p # {} /\ \A j \in DOMAIN p : p[j] \in Int
    BY <2>2, <2>4, <2>5
  <2>8. Winner(a.turns.output[o], p) \in DOMAIN p
    BY <1>5, <2>6, <2>7, TreeWins, Zenon
  <2>9. granted[o] \in by(o)
    BY <1>8, <2>5, <2>8 DEF p
  <2> QED BY <2>2, <2>3, <2>9
<1> HIDE DEF asking, asked
<1>10. ASSUME NEW i \in winners
       PROVE  /\ i \in 0..(n - 1) /\ chosen[i] \in 0..(m - 1) /\ <<i, chosen[i]>> \in DOMAIN requests
              /\ chosen[i] \in asked /\ granted[chosen[i]] = i
  <2>1. PICK o \in asked : granted[o] = i
    BY <1>8
  <2> QED BY <2>1, <1>7, <1>9
<1>11. AreTurns(turns, type, n, m)
  <2>1. \A i \in 0..(n - 1) : i \in winners => IsArbiter(Updated(a.turns.input[i], chosen[i]), type.arb, m)
    <3> HIDE DEF winners
    <3> QED BY <1>2, <1>5, <1>10, TreeKept
  <2>2. ASSUME NEW o \in 0..(m - 1), o \in asked
        PROVE  IsArbiter(Updated(a.turns.output[o], granted[o]), type.arb, n)
    <3>1. granted[o] \in 0..(n - 1)
      BY <1>7, <1>9, <2>2
    <3> QED BY <1>2, <1>5, <3>1, TreeKept
  <2>3. /\ DOMAIN Override(f, a.turns.input) = 0..(n - 1)
        /\ \A i \in 0..(n - 1) : IsArbiter(Override(f, a.turns.input)[i], type.arb, m)
    <3> HIDE DEF winners
    <3>1. DOMAIN f = winners /\ \A i \in winners : f[i] = Updated(a.turns.input[i], chosen[i])
      OBVIOUS
    <3> HIDE DEF f
    <3> DEFINE u == Override(f, a.turns.input)
    <3>2. /\ DOMAIN u = DOMAIN f \union DOMAIN a.turns.input
          /\ \A i \in DOMAIN f : u[i] = f[i]
          /\ \A i \in DOMAIN a.turns.input \ DOMAIN f : u[i] = a.turns.input[i]
      BY Overridden, Zenon
    <3> HIDE DEF u
    <3>3. DOMAIN u = 0..(n - 1)
      BY <1>2, <1>10, <3>1, <3>2
    <3>4. \A i \in 0..(n - 1) : IsArbiter(u[i], type.arb, m)
      BY <1>2, <2>1, <3>1, <3>2
    <3> QED BY <3>3, <3>4 DEF u
  <2>4. /\ DOMAIN Override(g, a.turns.output) = 0..(m - 1)
        /\ \A o \in 0..(m - 1) : IsArbiter(Override(g, a.turns.output)[o], type.arb, n)
    <3>1. DOMAIN g = asked /\ \A o \in asked : g[o] = Updated(a.turns.output[o], granted[o])
      BY <1>8
    <3> HIDE DEF g
    <3> DEFINE u == Override(g, a.turns.output)
    <3>2. /\ DOMAIN u = DOMAIN g \union DOMAIN a.turns.output
          /\ \A o \in DOMAIN g : u[o] = g[o]
          /\ \A o \in DOMAIN a.turns.output \ DOMAIN g : u[o] = a.turns.output[o]
      BY Overridden, Zenon
    <3> HIDE DEF u
    <3>3. DOMAIN u = 0..(m - 1)
      BY <1>2, <1>9, <3>1, <3>2
    <3>4. \A o \in 0..(m - 1) : IsArbiter(u[o], type.arb, n)
      BY <1>2, <2>2, <3>1, <3>2
    <3> QED BY <3>3, <3>4 DEF u
  <2>5. turns.input = Override(f, a.turns.input) /\ turns.output = Override(g, a.turns.output)
    OBVIOUS
  <2>6. type.name \in {"separable_input_first", "separable_output_first"}
    BY DEF IsSeparable
  <2> HIDE DEF turns, f, g
  <2> QED BY <2>3, <2>4, <2>5, <2>6 DEF AreTurns
<1> DEFINE c == Changed(a, in, granted, turns)
<1>12. IsAllocator(c, type, n, m)
  <2> HIDE DEF turns, in
  <2> QED BY <1>11, AllocatorChanged, Zenon
<1>13. c.inmatch = in /\ c.outmatch = granted
  <2>1. DOMAIN a = AllocatorFields
    BY DEF IsAllocator
  <2> HIDE DEF turns, in
  <2> QED BY <2>1 DEF Changed, AllocatorFields
<1> HIDE DEF c
<1>14. Matching(c, DOMAIN requests)
  <2> HIDE DEF winners
  <2> QED BY <1>8, <1>10, <1>13 DEF Matching
<1>15. Backwards(c)
  <2>1. \A o \in asked : granted[o] \in winners
    BY <1>8
  <2> HIDE DEF winners
  <2> QED BY <1>8, <1>9, <1>13, <2>1 DEF Backwards
<1> QED BY <1>1, <1>12, <1>14, <1>15, Zenon DEF c

\* An output-first allocator is an input-first one with the sides exchanged.
LEMMA TransposedIs ==
  ASSUME NEW a, NEW type, NEW n, NEW m, IsSeparable(type, n, m), IsAllocator(a, type, n, m)
  PROVE  /\ IsAllocator(Transposed(a), type, m, n)
         /\ Transposed(a).inmatch = a.outmatch /\ Transposed(a).outmatch = a.inmatch
<1> DEFINE turns == [input |-> a.turns.output, output |-> a.turns.input]
           t == [a EXCEPT !.inputs = a.outputs, !.outputs = a.inputs,
                          !.inmatch = a.outmatch, !.outmatch = a.inmatch, !.turns = turns]
<1>1. DOMAIN a = AllocatorFields /\ a.type = type /\ a.inputs = n /\ a.outputs = m
  BY DEF IsAllocator
<1>2. Transposed(a) = t
  BY Zenon DEF Transposed
<1>3. turns.input = a.turns.output /\ turns.output = a.turns.input
  OBVIOUS
<1> HIDE DEF turns
<1>4. AreTurns(turns, type, m, n)
  BY <1>3 DEF IsSeparable, AreTurns, IsAllocator
<1>5. /\ DOMAIN t = AllocatorFields /\ t.type = type /\ t.inputs = m /\ t.outputs = n
      /\ t.inmatch = a.outmatch /\ t.outmatch = a.inmatch /\ t.turns = turns
  BY <1>1 DEF AllocatorFields
<1> HIDE DEF t
<1>6. IsAllocator(t, type, m, n)
  BY <1>4, <1>5, Zenon DEF IsAllocator
<1> QED BY <1>2, <1>5, <1>6

\* SeparableOutputFirstAllocator::Allocate returns a matching of what was
\* requested.
LEMMA OutputFirstMatches ==
  ASSUME NEW a, NEW type, NEW n \in Nat \ {0}, NEW m \in Nat \ {0},
         IsSeparable(type, n, m), IsAllocator(a, type, n, m),
         NEW requests, AreRequests(requests, n, m)
  PROVE  /\ IsAllocator(SeparableOutputFirst(a, requests), type, n, m)
         /\ Matching(SeparableOutputFirst(a, requests), DOMAIN requests)
<1> DEFINE
      R == {<<q[2], q[1]>> : q \in DOMAIN requests}
      turned == [r \in R |-> [in_pri |-> requests[<<r[2], r[1]>>].out_pri,
                              out_pri |-> requests[<<r[2], r[1]>>].in_pri]]
      t == SeparableInputFirst(Transposed(a), turned)
<1>1. SeparableOutputFirst(a, requests) = Transposed(t)
  BY Zenon DEF SeparableOutputFirst
<1>2. /\ \A r \in DOMAIN requests : r = <<r[1], r[2]>> /\ r[1] \in 0..(n - 1) /\ r[2] \in 0..(m - 1)
      /\ \A r \in DOMAIN requests : requests[r].in_pri \in Int /\ requests[r].out_pri \in Int
  BY DEF AreRequests
<1>3. DOMAIN turned = R /\ \A i, o : <<o, i>> \in R => <<i, o>> \in DOMAIN requests
  <2>1. ASSUME NEW i, NEW o, <<o, i>> \in R PROVE <<i, o>> \in DOMAIN requests
    <3>1. PICK q \in DOMAIN requests : <<o, i>> = <<q[2], q[1]>>
      BY <2>1
    <3>2. q = <<i, o>>
      BY <1>2, <3>1
    <3> QED BY <3>1, <3>2
  <2> QED BY <2>1
<1>4. AreRequests(turned, m, n)
  <2>1. ASSUME NEW r \in R
        PROVE  /\ r \in (0..(m - 1)) \X (0..(n - 1))
               /\ turned[r].in_pri \in Int /\ turned[r].out_pri \in Int
    <3>1. PICK q \in DOMAIN requests : r = <<q[2], q[1]>>
      OBVIOUS
    <3>2. q = <<r[2], r[1]>> /\ r[1] = q[2] /\ r[2] = q[1]
      BY <1>2, <3>1
    <3> QED BY <1>2, <3>1, <3>2
  <2>2. DOMAIN turned = R
    OBVIOUS
  <2> HIDE DEF turned, R
  <2> QED BY <2>1, <2>2 DEF AreRequests
<1>5. IsSeparable(type, m, n)
  BY DEF IsSeparable
<1>6. IsAllocator(Transposed(a), type, m, n)
  BY TransposedIs, Zenon
<1> HIDE DEF turned, R
<1>7. IsAllocator(t, type, m, n) /\ Matching(t, DOMAIN turned) /\ Backwards(t)
  BY <1>4, <1>5, <1>6, InputFirstMatches, Zenon
<1> HIDE DEF t
<1>8. /\ IsAllocator(Transposed(t), type, n, m)
      /\ Transposed(t).inmatch = t.outmatch /\ Transposed(t).outmatch = t.inmatch
  BY <1>5, <1>7, TransposedIs
<1>9. Matching(Transposed(t), DOMAIN requests)
  <2>1. ASSUME NEW i \in DOMAIN t.outmatch
        PROVE  /\ <<i, t.outmatch[i]>> \in DOMAIN requests
               /\ t.outmatch[i] \in DOMAIN t.inmatch /\ t.inmatch[t.outmatch[i]] = i
    <3>1. t.outmatch[i] \in DOMAIN t.inmatch /\ t.inmatch[t.outmatch[i]] = i
      BY <1>7 DEF Backwards
    <3>2. <<t.outmatch[i], i>> \in R
      BY <1>3, <1>7, <3>1 DEF Matching
    <3> QED BY <1>3, <3>1, <3>2
  <2> QED BY <1>8, <2>1 DEF Matching
<1> QED BY <1>1, <1>8, <1>9

\* Matched gives an input an output, and leaves the others as they are.
LEMMA MatchedFields ==
  ASSUME NEW b, NEW type, NEW n, NEW m, IsAllocator(b, type, n, m), NEW i, NEW o
  PROVE  /\ IsAllocator(Matched(b, i, o), type, n, m)
         /\ DOMAIN Matched(b, i, o).inmatch = {i} \union DOMAIN b.inmatch
         /\ Matched(b, i, o).inmatch[i] = o
         /\ \A x \in DOMAIN b.inmatch \ {i} : Matched(b, i, o).inmatch[x] = b.inmatch[x]
         /\ DOMAIN Matched(b, i, o).outmatch = {o} \union DOMAIN b.outmatch
         /\ Matched(b, i, o).outmatch[o] = i
         /\ \A x \in DOMAIN b.outmatch \ {o} : Matched(b, i, o).outmatch[x] = b.outmatch[x]
<1> DEFINE f == [j \in {i} |-> o]
           g == [p \in {o} |-> i]
           in == Override(f, b.inmatch)
           out == Override(g, b.outmatch)
           c == [b EXCEPT !.inmatch = in, !.outmatch = out]
<1>1. Matched(b, i, o) = c
  BY Zenon DEF Matched
<1>2. /\ DOMAIN b = AllocatorFields /\ b.type = type /\ b.inputs = n /\ b.outputs = m
      /\ AreTurns(b.turns, type, n, m)
  BY DEF IsAllocator
<1>3. DOMAIN f = {i} /\ f[i] = o /\ DOMAIN g = {o} /\ g[o] = i
  OBVIOUS
<1> HIDE DEF f, g
<1>4. /\ DOMAIN in = DOMAIN f \union DOMAIN b.inmatch
      /\ \A x \in DOMAIN f : in[x] = f[x]
      /\ \A x \in DOMAIN b.inmatch \ DOMAIN f : in[x] = b.inmatch[x]
  BY Overridden, Zenon
<1>5. /\ DOMAIN out = DOMAIN g \union DOMAIN b.outmatch
      /\ \A x \in DOMAIN g : out[x] = g[x]
      /\ \A x \in DOMAIN b.outmatch \ DOMAIN g : out[x] = b.outmatch[x]
  BY Overridden, Zenon
<1> HIDE DEF in, out
<1>6. /\ DOMAIN c = AllocatorFields /\ c.type = type /\ c.inputs = n /\ c.outputs = m
      /\ c.turns = b.turns /\ c.inmatch = in /\ c.outmatch = out
  BY <1>2 DEF AllocatorFields
<1> HIDE DEF c
<1>7. IsAllocator(c, type, n, m)
  BY <1>2, <1>6, Zenon DEF IsAllocator
<1> QED BY <1>1, <1>3, <1>4, <1>5, <1>6, <1>7

\* A pair that is not in the way of the others.
LEMMA MatchedIs ==
  ASSUME NEW a, NEW type, NEW n, NEW m, IsAllocator(a, type, n, m), NEW R, Matching(a, R),
         NEW i, NEW o, <<i, o>> \in R, i \notin DOMAIN a.inmatch, o \notin DOMAIN a.outmatch
  PROVE  IsAllocator(Matched(a, i, o), type, n, m) /\ Matching(Matched(a, i, o), R)
<1> DEFINE c == Matched(a, i, o)
<1>1. /\ IsAllocator(c, type, n, m)
      /\ DOMAIN c.inmatch = {i} \union DOMAIN a.inmatch /\ c.inmatch[i] = o
      /\ \A x \in DOMAIN a.inmatch \ {i} : c.inmatch[x] = a.inmatch[x]
      /\ DOMAIN c.outmatch = {o} \union DOMAIN a.outmatch /\ c.outmatch[o] = i
      /\ \A x \in DOMAIN a.outmatch \ {o} : c.outmatch[x] = a.outmatch[x]
  BY MatchedFields
<1> HIDE DEF c
<1>2. ASSUME NEW x \in DOMAIN c.inmatch
      PROVE  /\ <<x, c.inmatch[x]>> \in R
             /\ c.inmatch[x] \in DOMAIN c.outmatch /\ c.outmatch[c.inmatch[x]] = x
  <2>1. CASE x = i
    BY <1>1, <2>1
  <2>2. CASE x # i
    <3>1. x \in DOMAIN a.inmatch /\ c.inmatch[x] = a.inmatch[x]
      BY <1>1, <2>2
    <3>2. /\ <<x, a.inmatch[x]>> \in R /\ a.inmatch[x] \in DOMAIN a.outmatch
          /\ a.outmatch[a.inmatch[x]] = x
      BY <3>1 DEF Matching
    <3> QED BY <3>1, <3>2, <1>1
  <2> QED BY <2>1, <2>2
<1>3. Matching(c, R)
  BY <1>2, Zenon DEF Matching
<1> QED BY <1>1, <1>3 DEF c

\* Wavefront::Allocate, with the round-robin start or without, returns a
\* matching of what was requested.
LEMMA WavefrontMatches ==
  ASSUME NEW a, NEW type, NEW n \in Nat \ {0}, NEW m \in Nat \ {0},
         type.name \in {"wavefront", "rr_wavefront"}, IsAllocator(a, type, n, m),
         a.inmatch = <<>>, a.outmatch = <<>>,
         NEW requests, AreRequests(requests, n, m), requests = [r \in DOMAIN requests |-> requests[r]]
  PROVE  /\ IsAllocator(Wavefront(a, requests), type, n, m)
         /\ Matching(Wavefront(a, requests), DOMAIN requests)
<1> DEFINE
      square == IF a.inputs > a.outputs THEN a.inputs ELSE a.outputs
      diagonal(r) == (r[1] + r[2] - a.turns.pri + square) % square
      before(r, q) ==
        \/ requests[r].out_pri > requests[q].out_pri
        \/ /\ requests[r].out_pri = requests[q].out_pri
           /\ \/ requests[r].in_pri > requests[q].in_pri
              \/ /\ requests[r].in_pri = requests[q].in_pri
                 /\ \/ diagonal(r) < diagonal(q)
                    \/ diagonal(r) = diagonal(q) /\ r[2] < q[2]
      best(R) == CHOOSE r \in R : \A q \in R : ~before(q, r)
      free(b) == {r \in DOMAIN requests : r[1] \notin DOMAIN b.inmatch /\ r[2] \notin DOMAIN b.outmatch}
      Step(b) == IF free(b) = {} THEN b ELSE Matched(b, best(free(b))[1], best(free(b))[2])
      start == IF a.type.name = "rr_wavefront" THEN best(free(a))[1] + best(free(a))[2]
               ELSE a.turns.pri
      H(h) == [k \in 0..square |-> IF k = 0 THEN a ELSE Step(h[k - 1])]
      f == CHOOSE h : h = H(h)
      Good(b) == IsAllocator(b, type, n, m) /\ Matching(b, DOMAIN requests)
<1>1. Wavefront(a, requests) =
        IF requests = <<>> THEN a ELSE [f[square] EXCEPT !.turns.pri = (start + 1) % square]
  BY Zenon DEF Wavefront
<1>2. a.inputs = n /\ a.outputs = m /\ a.turns.pri \in Int /\ a.type = type
  BY DEF IsAllocator, AreTurns
<1>3. square \in Nat \ {0}
  BY <1>2
<1>4. \A r \in DOMAIN requests :
        /\ r = <<r[1], r[2]>> /\ r[1] \in Int /\ r[2] \in Int
        /\ requests[r].in_pri \in Int /\ requests[r].out_pri \in Int
  BY DEF AreRequests
<1>5. IsFiniteSet(DOMAIN requests)
  <2>1. IsFiniteSet(0..(n - 1)) /\ IsFiniteSet(0..(m - 1))
    BY Small, n - 1 \in Nat, m - 1 \in Nat
  <2>2. IsFiniteSet((0..(n - 1)) \X (0..(m - 1)))
    BY <2>1, FS_Product, Zenon
  <2>3. DOMAIN requests \in SUBSET ((0..(n - 1)) \X (0..(m - 1)))
    BY DEF AreRequests
  <2> QED BY <2>2, <2>3, FS_Subset
<1> HIDE DEF square
<1>6. \A r \in DOMAIN requests : diagonal(r) \in Int
  BY <1>2, <1>3, <1>4
<1> HIDE DEF diagonal
<1>7. ASSUME NEW R \in SUBSET DOMAIN requests, R # {}
      PROVE  best(R) \in R
  <2> DEFINE B == {xy \in R \X R : before(xy[1], xy[2])}
  <2>1. \A x, y \in R : <<x, y>> \in B <=> before(x, y)
    <3> HIDE DEF before
    <3> QED OBVIOUS
  <2>2. IsFiniteSet(R)
    BY <1>5, FS_Subset
  <2>3. \A r \in R : /\ r[2] \in Int /\ diagonal(r) \in Int
                     /\ requests[r].in_pri \in Int /\ requests[r].out_pri \in Int
    BY <1>4, <1>6
  <2>4. \A x \in R : ~before(x, x)
    BY <2>3
  <2>5. ASSUME NEW x \in R, NEW y \in R, NEW z \in R, before(x, y), before(y, z)
        PROVE  before(x, z)
    <3>1. /\ x[2] \in Int /\ diagonal(x) \in Int /\ requests[x].in_pri \in Int /\ requests[x].out_pri \in Int
          /\ y[2] \in Int /\ diagonal(y) \in Int /\ requests[y].in_pri \in Int /\ requests[y].out_pri \in Int
          /\ z[2] \in Int /\ diagonal(z) \in Int /\ requests[z].in_pri \in Int /\ requests[z].out_pri \in Int
      BY <2>3, Zenon
    <3> QED BY <2>5, <3>1, SMTT(40)
  <2> HIDE DEF before, B
  <2>6. \E x \in R : \A y \in R : <<y, x>> \notin B
    <3>1. \A x \in R : <<x, x>> \notin B
      BY <2>1, <2>4
    <3>2. \A x, y, z \in R : <<x, y>> \in B /\ <<y, z>> \in B => <<x, z>> \in B
      BY <2>1, <2>5
    <3> QED BY <1>7, <2>2, <3>1, <3>2, LeastIn, Zenon
  <2>7. \E x \in R : \A y \in R : ~before(y, x)
    BY <2>1, <2>6
  <2> QED BY <2>7, Zenon
<1> HIDE DEF best
<1>8. ASSUME NEW b, Good(b) PROVE Good(Step(b))
  <2>1. CASE free(b) = {}
    BY <1>8, <2>1
  <2>2. CASE free(b) # {}
    <3> DEFINE r == best(free(b))
    <3>1. free(b) \in SUBSET DOMAIN requests
      OBVIOUS
    <3>2. r \in free(b)
      BY <2>2, <3>1, <1>7
    <3> HIDE DEF r
    <3>3. /\ <<r[1], r[2]>> \in DOMAIN requests
          /\ r[1] \notin DOMAIN b.inmatch /\ r[2] \notin DOMAIN b.outmatch
      BY <1>4, <3>2
    <3>4. Good(Matched(b, r[1], r[2]))
      BY <1>8, <3>3, MatchedIs, Zenon
    <3>5. Step(b) = Matched(b, r[1], r[2])
      BY <2>2 DEF r
    <3> QED BY <3>4, <3>5
  <2> QED BY <2>1, <2>2
<1> DEFINE Run(g, k) == g[0] = a /\ \A j \in 1..k : g[j] = Step(g[j - 1])
           Done == {k \in 0..square : \E g : Run(g, k)}
<1> HIDE DEF Step
<1>9. square \in Done
  <2>1. 0 \in Done
    <3> DEFINE g == [i \in {0} |-> a]
    <3>1. Run(g, 0)
      OBVIOUS
    <3>2. \E h : Run(h, 0)
      <4> HIDE DEF Run, g
      <4> QED BY <3>1
    <3> HIDE DEF Run
    <3> QED BY <3>2, <1>3
  <2>2. ASSUME NEW k \in 1..square, k - 1 \in Done PROVE k \in Done
    <3>1. PICK g : Run(g, k - 1)
      <4> HIDE DEF Run
      <4> QED BY <2>2
    <3> DEFINE h == [i \in 0..k |-> IF i = k THEN Step(g[k - 1]) ELSE g[i]]
    <3>2. Run(h, k)
      <4>1. h[0] = a
        BY <3>1
      <4>2. ASSUME NEW j \in 1..k PROVE h[j] = Step(h[j - 1])
        <5>1. CASE j = k
          BY <5>1
        <5>2. CASE j # k
          <6>1. j \in 1..(k - 1) /\ h[j] = g[j] /\ h[j - 1] = g[j - 1]
            BY <5>2
          <6> QED BY <6>1, <3>1
        <5> QED BY <5>1, <5>2
      <4> QED BY <4>1, <4>2
    <3>3. \E j : Run(j, k)
      <4> HIDE DEF Run, h
      <4> QED BY <3>2
    <3> HIDE DEF Run
    <3> QED BY <3>3
  <2> HIDE DEF Done
  <2>3. \A k \in 1..square : k - 1 \in Done => k \in Done
    BY <2>2
  <2>4. \A k \in 0..square : k \in Done
    BY <1>3, <2>1, <2>3, UpTo, Zenon
  <2> QED BY <2>4, <1>3
<1>10. PICK g : Run(g, square)
  <2> HIDE DEF Run
  <2> QED BY <1>9
<1> DEFINE r == [k \in 0..square |-> g[k]]
<1>11. r = H(r)
  <2>1. ASSUME NEW k \in 0..square PROVE r[k] = H(r)[k]
    <3>1. CASE k = 0
      BY <1>10, <3>1
    <3>2. CASE k # 0
      <4>1. k \in 1..square /\ k - 1 \in 0..square
        BY <1>3, <3>2
      <4>2. r[k] = g[k] /\ r[k - 1] = g[k - 1]
        BY <4>1
      <4>3. H(r)[k] = Step(r[k - 1])
        BY <3>2
      <4>4. g[k] = Step(g[k - 1])
        BY <1>10, <4>1
      <4> QED BY <4>2, <4>3, <4>4
    <3> QED BY <3>1, <3>2
  <2> HIDE DEF Run
  <2> QED BY <2>1
<1>12. f = H(f)
  <2> HIDE DEF H, r
  <2> QED BY <1>11, Zenon
<1> HIDE DEF f
<1>13. f[0] = a /\ \A k \in 1..square : f[k] = Step(f[k - 1])
  <2>1. f[0] = H(f)[0] /\ \A k \in 0..square : f[k] = H(f)[k]
    <3> HIDE DEF H
    <3> QED BY <1>12, Zenon
  <2>2. H(f)[0] = a /\ \A k \in 1..square : H(f)[k] = Step(f[k - 1]) /\ k \in 0..square
    BY <1>3
  <2> HIDE DEF H
  <2> QED BY <2>1, <2>2
<1> DEFINE Right == {k \in 0..square : Good(f[k])}
<1>14. Matching(a, DOMAIN requests)
  BY DEF Matching
<1>15. 0 \in Right
  BY <1>14, <1>3, <1>13
<1>16. ASSUME NEW k \in 1..square, k - 1 \in Right PROVE k \in Right
  <2>1. Good(f[k - 1]) /\ f[k] = Step(f[k - 1])
    BY <1>13, <1>16
  <2> HIDE DEF Good
  <2>2. Good(f[k])
    BY <2>1, <1>8
  <2> QED BY <2>2
<1>17. Good(f[square])
  <2> HIDE DEF Right
  <2>1. \A k \in 1..square : k - 1 \in Right => k \in Right
    BY <1>16
  <2>2. \A k \in 0..square : k \in Right
    BY <1>3, <1>15, <2>1, UpTo, Zenon
  <2> QED BY <2>2, <1>3 DEF Right
<1>18. CASE requests = <<>>
  BY <1>1, <1>14, <1>18
<1>19. CASE requests # <<>>
  <2> DEFINE b == f[square]
             pri == (start + 1) % square
             turns == [b.turns EXCEPT !.pri = pri]
             c == Changed(b, b.inmatch, b.outmatch, turns)
  <2>1. start \in Int
    <3>1. DOMAIN requests # {}
      <4>1. CASE DOMAIN requests = {}
        <5>1. requests = [q \in {} |-> requests[q]] /\ <<>> = [q \in {} |-> requests[q]]
          BY <4>1
        <5> QED BY <5>1, <1>19
      <4> QED BY <4>1
    <3>2. free(a) \in SUBSET DOMAIN requests /\ free(a) # {}
      BY <3>1
    <3> DEFINE q == best(free(a))
    <3>3. q \in DOMAIN requests
      BY <3>2, <1>7
    <3>4. q[1] + q[2] \in Int
      BY <1>4, <3>3
    <3> QED BY <1>2, <3>4
  <2> HIDE DEF start
  <2>2. pri \in Int
    BY <1>3, <2>1
  <2> HIDE DEF pri
  <2>3. /\ DOMAIN b = AllocatorFields /\ b.turns.pri \in Int /\ "pri" \in DOMAIN b.turns
        /\ IsAllocator(b, type, n, m) /\ Matching(b, DOMAIN requests)
    BY <1>17 DEF IsAllocator, AreTurns
  <2> HIDE DEF b
  <2>4. AreTurns(turns, type, n, m)
    <3>1. turns.pri = pri /\ DOMAIN turns = DOMAIN b.turns
      BY <2>3
    <3> HIDE DEF turns
    <3> QED BY <2>2, <2>3, <3>1 DEF AreTurns
  <2>5. Wavefront(a, requests) = c
    <3>1. Wavefront(a, requests) = [b EXCEPT !.turns = turns]
      BY <1>1, <1>19 DEF b, pri
    <3>2. [b EXCEPT !.turns = turns] = c
      BY <2>3 DEF Changed
    <3> QED BY <3>1, <3>2
  <2> HIDE DEF turns
  <2>6. IsAllocator(c, type, n, m)
    BY <2>3, <2>4, AllocatorChanged, Zenon
  <2>7. c.inmatch = b.inmatch /\ c.outmatch = b.outmatch
    BY <2>3 DEF Changed, AllocatorFields
  <2> HIDE DEF c
  <2>8. Matching(c, DOMAIN requests)
    BY <2>3, <2>7 DEF Matching
  <2> QED BY <2>5, <2>6, <2>8
<1> QED BY <1>18, <1>19

-----------------------------------------------------------------------------
\* MaxSizeMatch: a search reaches every output in a round of its own, so that
\* the path back ends where it began.

\* Where a search starts: at the unmatched inputs, in turn.
StartOf(a) ==
  [from |-> <<>>, end |-> -1,
   next |-> Selected([i \in 1..a.inputs |-> (i - 1 + a.turns.pri) % a.inputs],
                     Range([i \in 1..a.inputs |-> (i - 1 + a.turns.pri) % a.inputs])
                       \ DOMAIN a.inmatch)]

\* A round is a sequence of tries.
LEMMA RoundTries ==
  ASSUME NEW a, NEW requests, NEW s, s.next \in Seq(Int), a.outputs \in Nat
  PROVE  \E g : /\ SearchRound(a, requests, s) = g[Len(s.next) * a.outputs] /\ g[0] = [s EXCEPT !.next = <<>>]
               /\ \A k \in 1..(Len(s.next) * a.outputs) : g[k] = Visit(a, requests, g[k - 1], s.next[((k - 1) \div a.outputs) + 1], (k - 1) % a.outputs)
<1> DEFINE N == Len(s.next) * a.outputs
           A == [s EXCEPT !.next = <<>>]
           Step(x, k) == Visit(a, requests, x, s.next[((k - 1) \div a.outputs) + 1], (k - 1) % a.outputs)
           H(h) == [k \in 0..N |-> IF k = 0 THEN A ELSE Step(h[k - 1], k)]
           f == CHOOSE h : h = H(h)
           Run(g, k) == g[0] = A /\ \A j \in 1..k : g[j] = Step(g[j - 1], j)
           Done == {k \in 0..N : \E g : Run(g, k)}
<1>1. SearchRound(a, requests, s) = f[N]
  BY Zenon DEF SearchRound
<1>2. N \in Nat
  BY SMT
<1> HIDE DEF N, A, Step
<1>3. N \in Done
  <2>1. 0 \in Done
    <3> DEFINE g == [i \in {0} |-> A]
    <3>1. Run(g, 0)
      OBVIOUS
    <3>2. \E h : Run(h, 0)
      <4> HIDE DEF Run, g
      <4> QED BY <3>1
    <3> HIDE DEF Run
    <3> QED BY <3>2, <1>2
  <2>2. ASSUME NEW k \in 1..N, k - 1 \in Done PROVE k \in Done
    <3>1. PICK g : Run(g, k - 1)
      <4> HIDE DEF Run
      <4> QED BY <2>2
    <3> DEFINE h == [i \in 0..k |-> IF i = k THEN Step(g[k - 1], k) ELSE g[i]]
    <3>2. Run(h, k)
      <4>1. h[0] = A
        BY <3>1
      <4>2. ASSUME NEW j \in 1..k PROVE h[j] = Step(h[j - 1], j)
        <5>1. CASE j = k
          BY <5>1
        <5>2. CASE j # k
          <6>1. j \in 1..(k - 1) /\ h[j] = g[j] /\ h[j - 1] = g[j - 1]
            BY <5>2
          <6> QED BY <6>1, <3>1
        <5> QED BY <5>1, <5>2
      <4> QED BY <4>1, <4>2
    <3>3. \E j : Run(j, k)
      <4> HIDE DEF Run, h
      <4> QED BY <3>2
    <3> HIDE DEF Run
    <3> QED BY <3>3
  <2> HIDE DEF Done
  <2>3. \A k \in 1..N : k - 1 \in Done => k \in Done
    BY <2>2
  <2>4. \A k \in 0..N : k \in Done
    BY <1>2, <2>1, <2>3, UpTo, Zenon
  <2> QED BY <2>4, <1>2
<1>4. PICK g : Run(g, N)
  <2> HIDE DEF Run
  <2> QED BY <1>3
<1> DEFINE r == [k \in 0..N |-> g[k]]
<1>5. r = H(r)
  <2>1. ASSUME NEW k \in 0..N PROVE r[k] = H(r)[k]
    <3>1. CASE k = 0
      BY <1>4, <3>1
    <3>2. CASE k # 0
      <4>1. k \in 1..N /\ k - 1 \in 0..N
        BY <1>2, <3>2
      <4>2. r[k] = g[k] /\ r[k - 1] = g[k - 1]
        BY <4>1
      <4>3. H(r)[k] = Step(r[k - 1], k)
        BY <3>2
      <4>4. g[k] = Step(g[k - 1], k)
        BY <1>4, <4>1
      <4> QED BY <4>2, <4>3, <4>4
    <3> QED BY <3>1, <3>2
  <2> HIDE DEF Run
  <2> QED BY <2>1
<1>6. f = H(f)
  <2> HIDE DEF H, r
  <2> QED BY <1>5, Zenon
<1> HIDE DEF f
<1>7. f[0] = A /\ \A k \in 1..N : f[k] = Step(f[k - 1], k)
  <2>1. f[0] = H(f)[0] /\ \A k \in 0..N : f[k] = H(f)[k]
    <3> HIDE DEF H
    <3> QED BY <1>6, Zenon
  <2>2. H(f)[0] = A /\ \A k \in 1..N : H(f)[k] = Step(f[k - 1], k) /\ k \in 0..N
    BY <1>2
  <2> HIDE DEF H
  <2> QED BY <2>1, <2>2
<1>8. \E h : SearchRound(a, requests, s) = h[N] /\ h[0] = A /\ \A k \in 1..N : h[k] = Step(h[k - 1], k)
  BY <1>1, <1>7, Zenon
<1> QED BY <1>8, Zenon DEF N, A, Step

\* A search is a sequence of rounds.
LEMMA SearchRounds ==
  ASSUME NEW a, NEW requests, a.inputs \in Nat
  PROVE  \E g : /\ Search(a, requests) = g[a.inputs] /\ g[0] = StartOf(a)
               /\ \A k \in 1..(a.inputs) : g[k] = SearchRound(a, requests, g[k - 1])
<1> DEFINE N == a.inputs
           A == StartOf(a)
           Step(x, k) == SearchRound(a, requests, x)
           H(h) == [k \in 0..N |-> IF k = 0 THEN A ELSE Step(h[k - 1], k)]
           f == CHOOSE h : h = H(h)
           Run(g, k) == g[0] = A /\ \A j \in 1..k : g[j] = Step(g[j - 1], j)
           Done == {k \in 0..N : \E g : Run(g, k)}
<1>1. Search(a, requests) = f[N]
  BY Zenon DEF Search, StartOf
<1>2. N \in Nat
  OBVIOUS
<1> HIDE DEF N, A, Step
<1>3. N \in Done
  <2>1. 0 \in Done
    <3> DEFINE g == [i \in {0} |-> A]
    <3>1. Run(g, 0)
      OBVIOUS
    <3>2. \E h : Run(h, 0)
      <4> HIDE DEF Run, g
      <4> QED BY <3>1
    <3> HIDE DEF Run
    <3> QED BY <3>2, <1>2
  <2>2. ASSUME NEW k \in 1..N, k - 1 \in Done PROVE k \in Done
    <3>1. PICK g : Run(g, k - 1)
      <4> HIDE DEF Run
      <4> QED BY <2>2
    <3> DEFINE h == [i \in 0..k |-> IF i = k THEN Step(g[k - 1], k) ELSE g[i]]
    <3>2. Run(h, k)
      <4>1. h[0] = A
        BY <3>1
      <4>2. ASSUME NEW j \in 1..k PROVE h[j] = Step(h[j - 1], j)
        <5>1. CASE j = k
          BY <5>1
        <5>2. CASE j # k
          <6>1. j \in 1..(k - 1) /\ h[j] = g[j] /\ h[j - 1] = g[j - 1]
            BY <5>2
          <6> QED BY <6>1, <3>1
        <5> QED BY <5>1, <5>2
      <4> QED BY <4>1, <4>2
    <3>3. \E j : Run(j, k)
      <4> HIDE DEF Run, h
      <4> QED BY <3>2
    <3> HIDE DEF Run
    <3> QED BY <3>3
  <2> HIDE DEF Done
  <2>3. \A k \in 1..N : k - 1 \in Done => k \in Done
    BY <2>2
  <2>4. \A k \in 0..N : k \in Done
    BY <1>2, <2>1, <2>3, UpTo, Zenon
  <2> QED BY <2>4, <1>2
<1>4. PICK g : Run(g, N)
  <2> HIDE DEF Run
  <2> QED BY <1>3
<1> DEFINE r == [k \in 0..N |-> g[k]]
<1>5. r = H(r)
  <2>1. ASSUME NEW k \in 0..N PROVE r[k] = H(r)[k]
    <3>1. CASE k = 0
      BY <1>4, <3>1
    <3>2. CASE k # 0
      <4>1. k \in 1..N /\ k - 1 \in 0..N
        BY <1>2, <3>2
      <4>2. r[k] = g[k] /\ r[k - 1] = g[k - 1]
        BY <4>1
      <4>3. H(r)[k] = Step(r[k - 1], k)
        BY <3>2
      <4>4. g[k] = Step(g[k - 1], k)
        BY <1>4, <4>1
      <4> QED BY <4>2, <4>3, <4>4
    <3> QED BY <3>1, <3>2
  <2> HIDE DEF Run
  <2> QED BY <2>1
<1>6. f = H(f)
  <2> HIDE DEF H, r
  <2> QED BY <1>5, Zenon
<1> HIDE DEF f
<1>7. f[0] = A /\ \A k \in 1..N : f[k] = Step(f[k - 1], k)
  <2>1. f[0] = H(f)[0] /\ \A k \in 0..N : f[k] = H(f)[k]
    <3> HIDE DEF H
    <3> QED BY <1>6, Zenon
  <2>2. H(f)[0] = A /\ \A k \in 1..N : H(f)[k] = Step(f[k - 1], k) /\ k \in 0..N
    BY <1>2
  <2> HIDE DEF H
  <2> QED BY <2>1, <2>2
<1>8. \E h : Search(a, requests) = h[N] /\ h[0] = A /\ \A k \in 1..N : h[k] = Step(h[k - 1], k)
  BY <1>1, <1>7, Zenon
<1> QED BY <1>8, Zenon DEF N, A, Step

\* A path is augmented step by step.
LEMMA PathSteps ==
  ASSUME NEW a, NEW search, a.inputs \in Nat
  PROVE  \E g : /\ Augmented(a, search) = g[a.inputs].a /\ g[0] = [a |-> a, end |-> search.end]
               /\ \A k \in 1..(a.inputs) : g[k] = AugmentFrom(g[k - 1], search.from)
<1> DEFINE N == a.inputs
           A == [a |-> a, end |-> search.end]
           Step(x, k) == AugmentFrom(x, search.from)
           H(h) == [k \in 0..N |-> IF k = 0 THEN A ELSE Step(h[k - 1], k)]
           f == CHOOSE h : h = H(h)
           Run(g, k) == g[0] = A /\ \A j \in 1..k : g[j] = Step(g[j - 1], j)
           Done == {k \in 0..N : \E g : Run(g, k)}
<1>1. Augmented(a, search) = f[N].a
  BY Zenon DEF Augmented
<1>2. N \in Nat
  OBVIOUS
<1> HIDE DEF N, A, Step
<1>3. N \in Done
  <2>1. 0 \in Done
    <3> DEFINE g == [i \in {0} |-> A]
    <3>1. Run(g, 0)
      OBVIOUS
    <3>2. \E h : Run(h, 0)
      <4> HIDE DEF Run, g
      <4> QED BY <3>1
    <3> HIDE DEF Run
    <3> QED BY <3>2, <1>2
  <2>2. ASSUME NEW k \in 1..N, k - 1 \in Done PROVE k \in Done
    <3>1. PICK g : Run(g, k - 1)
      <4> HIDE DEF Run
      <4> QED BY <2>2
    <3> DEFINE h == [i \in 0..k |-> IF i = k THEN Step(g[k - 1], k) ELSE g[i]]
    <3>2. Run(h, k)
      <4>1. h[0] = A
        BY <3>1
      <4>2. ASSUME NEW j \in 1..k PROVE h[j] = Step(h[j - 1], j)
        <5>1. CASE j = k
          BY <5>1
        <5>2. CASE j # k
          <6>1. j \in 1..(k - 1) /\ h[j] = g[j] /\ h[j - 1] = g[j - 1]
            BY <5>2
          <6> QED BY <6>1, <3>1
        <5> QED BY <5>1, <5>2
      <4> QED BY <4>1, <4>2
    <3>3. \E j : Run(j, k)
      <4> HIDE DEF Run, h
      <4> QED BY <3>2
    <3> HIDE DEF Run
    <3> QED BY <3>3
  <2> HIDE DEF Done
  <2>3. \A k \in 1..N : k - 1 \in Done => k \in Done
    BY <2>2
  <2>4. \A k \in 0..N : k \in Done
    BY <1>2, <2>1, <2>3, UpTo, Zenon
  <2> QED BY <2>4, <1>2
<1>4. PICK g : Run(g, N)
  <2> HIDE DEF Run
  <2> QED BY <1>3
<1> DEFINE r == [k \in 0..N |-> g[k]]
<1>5. r = H(r)
  <2>1. ASSUME NEW k \in 0..N PROVE r[k] = H(r)[k]
    <3>1. CASE k = 0
      BY <1>4, <3>1
    <3>2. CASE k # 0
      <4>1. k \in 1..N /\ k - 1 \in 0..N
        BY <1>2, <3>2
      <4>2. r[k] = g[k] /\ r[k - 1] = g[k - 1]
        BY <4>1
      <4>3. H(r)[k] = Step(r[k - 1], k)
        BY <3>2
      <4>4. g[k] = Step(g[k - 1], k)
        BY <1>4, <4>1
      <4> QED BY <4>2, <4>3, <4>4
    <3> QED BY <3>1, <3>2
  <2> HIDE DEF Run
  <2> QED BY <2>1
<1>6. f = H(f)
  <2> HIDE DEF H, r
  <2> QED BY <1>5, Zenon
<1> HIDE DEF f
<1>7. f[0] = A /\ \A k \in 1..N : f[k] = Step(f[k - 1], k)
  <2>1. f[0] = H(f)[0] /\ \A k \in 0..N : f[k] = H(f)[k]
    <3> HIDE DEF H
    <3> QED BY <1>6, Zenon
  <2>2. H(f)[0] = A /\ \A k \in 1..N : H(f)[k] = Step(f[k - 1], k) /\ k \in 0..N
    BY <1>2
  <2> HIDE DEF H
  <2> QED BY <2>1, <2>2
<1>8. \E h : Augmented(a, search) = h[N].a /\ h[0] = A /\ \A k \in 1..N : h[k] = Step(h[k - 1], k)
  BY <1>1, <1>7, Zenon
<1> QED BY <1>8, Zenon DEF N, A, Step

\* MaxSizeMatch augments time and again.
LEMMA MaxSizeSteps ==
  ASSUME NEW a, NEW requests, a.inputs \in Nat
  PROVE  \E g : /\ MaxSizeMatch(a, requests) = [g[a.inputs] EXCEPT !.turns.pri = (@ + 1) % a.inputs] /\ g[0] = a
               /\ \A k \in 1..(a.inputs) : g[k] = ShortestAugmenting(g[k - 1], requests)
<1> DEFINE N == a.inputs
           A == a
           Step(x, k) == ShortestAugmenting(x, requests)
           H(h) == [k \in 0..N |-> IF k = 0 THEN A ELSE Step(h[k - 1], k)]
           f == CHOOSE h : h = H(h)
           Run(g, k) == g[0] = A /\ \A j \in 1..k : g[j] = Step(g[j - 1], j)
           Done == {k \in 0..N : \E g : Run(g, k)}
<1>1. MaxSizeMatch(a, requests) = [f[N] EXCEPT !.turns.pri = (@ + 1) % a.inputs]
  BY Zenon DEF MaxSizeMatch
<1>2. N \in Nat
  OBVIOUS
<1> HIDE DEF N, A, Step
<1>3. N \in Done
  <2>1. 0 \in Done
    <3> DEFINE g == [i \in {0} |-> A]
    <3>1. Run(g, 0)
      OBVIOUS
    <3>2. \E h : Run(h, 0)
      <4> HIDE DEF Run, g
      <4> QED BY <3>1
    <3> HIDE DEF Run
    <3> QED BY <3>2, <1>2
  <2>2. ASSUME NEW k \in 1..N, k - 1 \in Done PROVE k \in Done
    <3>1. PICK g : Run(g, k - 1)
      <4> HIDE DEF Run
      <4> QED BY <2>2
    <3> DEFINE h == [i \in 0..k |-> IF i = k THEN Step(g[k - 1], k) ELSE g[i]]
    <3>2. Run(h, k)
      <4>1. h[0] = A
        BY <3>1
      <4>2. ASSUME NEW j \in 1..k PROVE h[j] = Step(h[j - 1], j)
        <5>1. CASE j = k
          BY <5>1
        <5>2. CASE j # k
          <6>1. j \in 1..(k - 1) /\ h[j] = g[j] /\ h[j - 1] = g[j - 1]
            BY <5>2
          <6> QED BY <6>1, <3>1
        <5> QED BY <5>1, <5>2
      <4> QED BY <4>1, <4>2
    <3>3. \E j : Run(j, k)
      <4> HIDE DEF Run, h
      <4> QED BY <3>2
    <3> HIDE DEF Run
    <3> QED BY <3>3
  <2> HIDE DEF Done
  <2>3. \A k \in 1..N : k - 1 \in Done => k \in Done
    BY <2>2
  <2>4. \A k \in 0..N : k \in Done
    BY <1>2, <2>1, <2>3, UpTo, Zenon
  <2> QED BY <2>4, <1>2
<1>4. PICK g : Run(g, N)
  <2> HIDE DEF Run
  <2> QED BY <1>3
<1> DEFINE r == [k \in 0..N |-> g[k]]
<1>5. r = H(r)
  <2>1. ASSUME NEW k \in 0..N PROVE r[k] = H(r)[k]
    <3>1. CASE k = 0
      BY <1>4, <3>1
    <3>2. CASE k # 0
      <4>1. k \in 1..N /\ k - 1 \in 0..N
        BY <1>2, <3>2
      <4>2. r[k] = g[k] /\ r[k - 1] = g[k - 1]
        BY <4>1
      <4>3. H(r)[k] = Step(r[k - 1], k)
        BY <3>2
      <4>4. g[k] = Step(g[k - 1], k)
        BY <1>4, <4>1
      <4> QED BY <4>2, <4>3, <4>4
    <3> QED BY <3>1, <3>2
  <2> HIDE DEF Run
  <2> QED BY <2>1
<1>6. f = H(f)
  <2> HIDE DEF H, r
  <2> QED BY <1>5, Zenon
<1> HIDE DEF f
<1>7. f[0] = A /\ \A k \in 1..N : f[k] = Step(f[k - 1], k)
  <2>1. f[0] = H(f)[0] /\ \A k \in 0..N : f[k] = H(f)[k]
    <3> HIDE DEF H
    <3> QED BY <1>6, Zenon
  <2>2. H(f)[0] = A /\ \A k \in 1..N : H(f)[k] = Step(f[k - 1], k) /\ k \in 0..N
    BY <1>2
  <2> HIDE DEF H
  <2> QED BY <2>1, <2>2
<1>8. \E h : MaxSizeMatch(a, requests) = [h[N] EXCEPT !.turns.pri = (@ + 1) % a.inputs] /\ h[0] = A /\ \A k \in 1..N : h[k] = Step(h[k - 1], k)
  BY <1>1, <1>7, Zenon
<1> QED BY <1>8, Zenon DEF N, A, Step

\* The rank of an output is the round that reached it; an input is behind round
\* k if it has no output, or one that was reached before.
Behind(a, from, rank, i, k) ==
  i \in DOMAIN a.inmatch => a.inmatch[i] \in DOMAIN from /\ rank[a.inmatch[i]] < k

Ranked(a, R, from, rank, k) ==
  \A j \in DOMAIN from :
    /\ <<from[j], j>> \in R /\ rank[j] \in 1..k
    /\ Behind(a, from, rank, from[j], rank[j])

\* The inputs a search goes on from.
Onwards(a, s, rank, k) ==
  \A q \in 1..Len(s.next) : Behind(a, s.from, rank, s.next[q], k)

\* A search after k rounds.
Searched(a, R, s, rank, k) ==
  /\ DOMAIN s = {"from", "next", "end"}
  /\ Ranked(a, R, s.from, rank, k)
  /\ s.end # -1 => s.end \in DOMAIN s.from /\ s.end \notin DOMAIN a.outmatch
  /\ s.next \in Seq(Int)
  /\ Onwards(a, s, rank, k + 1)

\* A search goes on with what it has reached.
WentOn(f, rank, g, r) == \A x \in DOMAIN f : x \in DOMAIN g /\ r[x] = rank[x]

\* What a search has reached stays reached.
LEMMA BehindStays ==
  ASSUME NEW a, NEW f, NEW rank, NEW g, NEW r, WentOn(f, rank, g, r), NEW i, NEW k,
         Behind(a, f, rank, i, k)
  PROVE  Behind(a, g, r, i, k)
BY Zenon DEF Behind, WentOn

\* A try reaches an output from an input that is behind the round.
LEMMA VisitSearches ==
  ASSUME NEW a, NEW requests, NEW n, NEW m, AreRequests(requests, n, m), n \in Nat, m \in Nat,
         Matching(a, DOMAIN requests), Backwards(a),
         NEW s, NEW rank, NEW k \in Nat \ {0}, Searched(a, DOMAIN requests, s, rank, k),
         NEW i, NEW j, Behind(a, s.from, rank, i, k)
  PROVE  \E r : /\ Searched(a, DOMAIN requests, Visit(a, requests, s, i, j), r, k)
                /\ WentOn(s.from, rank, Visit(a, requests, s, i, j).from, r)
<1> DEFINE R == DOMAIN requests
           nop == \/ s.end # -1 \/ <<i, j>> \notin DOMAIN requests \/ j \in DOMAIN s.from
                  \/ i \in DOMAIN a.inmatch /\ a.inmatch[i] = j
           from == Override([q \in {j} |-> i], s.from)
           next == IF j \in DOMAIN a.outmatch THEN Append(s.next, a.outmatch[j]) ELSE s.next
           end == IF j \in DOMAIN a.outmatch THEN -1 ELSE j
           t == [from |-> from, next |-> next, end |-> end]
<1>1. Visit(a, requests, s, i, j) = IF nop THEN s ELSE t
  BY Zenon DEF Visit
<1>2. CASE nop
  <2>1. Visit(a, requests, s, i, j) = s
    BY <1>1, <1>2, Zenon
  <2>2. WentOn(s.from, rank, s.from, rank)
    BY DEF WentOn
  <2> QED BY <2>1, <2>2, Zenon
<1>3. CASE ~nop
  <2>1. Visit(a, requests, s, i, j) = t
    BY <1>1, <1>3, Zenon
  <2>2. <<i, j>> \in R /\ j \notin DOMAIN s.from
    BY <1>3, Zenon
  <2> HIDE DEF nop
  <2>3. DOMAIN t = {"from", "next", "end"} /\ t.from = from /\ t.next = next /\ t.end = end
    OBVIOUS
  <2> HIDE DEF t
  <2>4. /\ DOMAIN from = {j} \union DOMAIN s.from /\ from[j] = i
        /\ \A x \in DOMAIN s.from : from[x] = s.from[x]
    <3> DEFINE f == [q \in {j} |-> i]
    <3>1. DOMAIN f = {j} /\ f[j] = i
      OBVIOUS
    <3> HIDE DEF f
    <3>2. /\ DOMAIN Override(f, s.from) = DOMAIN f \union DOMAIN s.from
          /\ \A x \in DOMAIN f : Override(f, s.from)[x] = f[x]
          /\ \A x \in DOMAIN s.from \ DOMAIN f : Override(f, s.from)[x] = s.from[x]
      BY Overridden, Zenon
    <3>3. from = Override(f, s.from)
      BY DEF f
    <3> HIDE DEF from
    <3> QED BY <2>2, <3>1, <3>2, <3>3
  <2> HIDE DEF from
  <2> DEFINE r == [x \in DOMAIN from |-> IF x = j THEN k ELSE rank[x]]
  <2>5. r[j] = k /\ \A x \in DOMAIN s.from : r[x] = rank[x]
    BY <2>2, <2>4
  <2> HIDE DEF r
  <2>6. WentOn(s.from, rank, from, r)
    BY <2>4, <2>5 DEF WentOn
  <2>7. Ranked(a, R, from, r, k)
    <3>1. ASSUME NEW x \in DOMAIN from
          PROVE  /\ <<from[x], x>> \in R /\ r[x] \in 1..k
                 /\ Behind(a, from, r, from[x], r[x])
      <4>1. CASE x = j
        <5>1. Behind(a, from, r, i, k)
          BY <2>6, BehindStays, Zenon
        <5> QED BY <2>2, <2>4, <2>5, <4>1, <5>1
      <4>2. CASE x # j
        <5>1. x \in DOMAIN s.from /\ from[x] = s.from[x] /\ r[x] = rank[x]
          BY <2>4, <2>5, <4>2
        <5>2. /\ <<s.from[x], x>> \in R /\ rank[x] \in 1..k
              /\ Behind(a, s.from, rank, s.from[x], rank[x])
          BY <5>1 DEF Searched, Ranked
        <5>3. Behind(a, from, r, s.from[x], rank[x])
          BY <5>2, <2>6, BehindStays, Zenon
        <5> QED BY <5>1, <5>2, <5>3
      <4> QED BY <4>1, <4>2
    <3> QED BY <3>1, Zenon DEF Ranked
  <2>8. end # -1 => end \in DOMAIN from /\ end \notin DOMAIN a.outmatch
    BY <2>4
  <2>9. s.next \in Seq(Int) /\ \A q \in 1..Len(s.next) : Behind(a, from, r, s.next[q], k + 1)
    <3>1. s.next \in Seq(Int) /\ \A q \in 1..Len(s.next) : Behind(a, s.from, rank, s.next[q], k + 1)
      BY DEF Searched, Onwards
    <3> QED BY <3>1, <2>6, BehindStays, Zenon
  <2>10. next \in Seq(Int) /\ \A q \in 1..Len(next) : Behind(a, from, r, next[q], k + 1)
    <3>1. CASE j \in DOMAIN a.outmatch
      <4> DEFINE p == a.outmatch[j]
      <4>1. p \in DOMAIN a.inmatch /\ a.inmatch[p] = j
        BY <3>1 DEF Backwards
      <4>2. p \in Int
        <5>1. <<p, a.inmatch[p]>> \in DOMAIN requests
          BY <4>1 DEF Matching
        <5> QED BY <5>1 DEF AreRequests
      <4>3. next = Append(s.next, p)
        BY <3>1
      <4>4. Behind(a, from, r, p, k + 1)
        <5>1. j \in DOMAIN from /\ r[j] < k + 1
          BY <2>4, <2>5
        <5> QED BY <4>1, <5>1, Zenon DEF Behind
      <4> HIDE DEF next, p
      <4>5. /\ next \in Seq(Int) /\ Len(next) = Len(s.next) + 1 /\ next[Len(s.next) + 1] = p
            /\ \A q \in 1..Len(s.next) : next[q] = s.next[q]
        BY <2>9, <4>2, <4>3, OneMore
      <4>6. ASSUME NEW q \in 1..Len(next) PROVE Behind(a, from, r, next[q], k + 1)
        <5>1. q \in 1..Len(s.next) \/ q = Len(s.next) + 1
          BY <4>5, <2>9
        <5>2. CASE q \in 1..Len(s.next)
          BY <2>9, <4>5, <5>2, Zenon
        <5>3. CASE q = Len(s.next) + 1
          BY <4>4, <4>5, <5>3, Zenon
        <5> QED BY <5>1, <5>2, <5>3
      <4> QED BY <4>5, <4>6
    <3>2. CASE j \notin DOMAIN a.outmatch
      BY <2>9, <3>2
    <3> QED BY <3>1, <3>2
  <2> HIDE DEF next, end, R
  <2>11. Searched(a, R, t, r, k)
    BY <2>3, <2>7, <2>8, <2>10, Zenon DEF Searched, Onwards
  <2> QED BY <2>1, <2>3, <2>6, <2>11, Zenon DEF R
<1> QED BY <1>2, <1>3

\* A round goes on from the inputs of the last one.
LEMMA RoundSearches ==
  ASSUME NEW a, NEW requests, NEW n, NEW m, AreRequests(requests, n, m), n \in Nat, m \in Nat \ {0},
         a.outputs = m, Matching(a, DOMAIN requests), Backwards(a),
         NEW s, NEW rank, NEW k \in Nat, Searched(a, DOMAIN requests, s, rank, k)
  PROVE  \E r : Searched(a, DOMAIN requests, SearchRound(a, requests, s), r, k + 1)
<1> DEFINE R == DOMAIN requests
           tries == Len(s.next) * m
           s0 == [s EXCEPT !.next = <<>>]
           at(q) == s.next[((q - 1) \div m) + 1]
<1>1. s.next \in Seq(Int) /\ tries \in Nat
  BY DEF Searched
<1>2. PICK g : /\ SearchRound(a, requests, s) = g[tries] /\ g[0] = s0
               /\ \A q \in 1..tries : g[q] = Visit(a, requests, g[q - 1], at(q), (q - 1) % m)
  <2>1. \E g : /\ SearchRound(a, requests, s) = g[Len(s.next) * a.outputs] /\ g[0] = s0
               /\ \A q \in 1..(Len(s.next) * a.outputs) :
                    g[q] = Visit(a, requests, g[q - 1], s.next[((q - 1) \div a.outputs) + 1],
                                 (q - 1) % a.outputs)
    <3>1. a.outputs \in Nat
      OBVIOUS
    <3> QED BY <1>1, <3>1, RoundTries
  <2> QED BY <2>1, Zenon
<1> DEFINE Right == {q \in 0..tries : \E r : /\ Searched(a, R, g[q], r, k + 1)
                                             /\ WentOn(s.from, rank, g[q].from, r)}
<1>3. 0 \in Right
  <2>1. /\ DOMAIN s = {"from", "next", "end"} /\ Ranked(a, R, s.from, rank, k)
        /\ (s.end # -1 => s.end \in DOMAIN s.from /\ s.end \notin DOMAIN a.outmatch)
    BY DEF Searched
  <2>2. DOMAIN s0 = {"from", "next", "end"} /\ s0.from = s.from /\ s0.end = s.end /\ s0.next = <<>>
    BY <2>1
  <2> HIDE DEF s0
  <2>3. Ranked(a, R, s.from, rank, k + 1)
    <3>1. \A x : x \in 1..k => x \in 1..(k + 1)
      OBVIOUS
    <3> QED BY <2>1, <3>1, Zenon DEF Ranked
  <2>4. s0.next \in Seq(Int) /\ \A q \in 1..Len(s0.next) : FALSE
    BY <2>2
  <2>5. Searched(a, R, s0, rank, k + 1)
    <3>1. Onwards(a, s0, rank, k + 1 + 1)
      BY <2>4, Zenon DEF Onwards
    <3> QED BY <2>1, <2>2, <2>3, <2>4, <3>1 DEF Searched
  <2>6. WentOn(s.from, rank, s0.from, rank)
    BY <2>2 DEF WentOn
  <2>7. 0 \in 0..tries
    BY <1>1
  <2> HIDE DEF tries, R
  <2> QED BY <1>2, <2>5, <2>6, <2>7
<1>4. ASSUME NEW q \in 1..tries, q - 1 \in Right PROVE q \in Right
  <2>1. PICK r : Searched(a, R, g[q - 1], r, k + 1) /\ WentOn(s.from, rank, g[q - 1].from, r)
    BY <1>4
  <2> DEFINE i == at(q)
             l == ((q - 1) \div m) + 1
  <2>2. l \in 1..Len(s.next)
    <3> DEFINE N == Len(s.next)
    <3>1. N \in Nat /\ q \in Int /\ 1 <= q /\ q <= N * m
      BY <1>1
    <3> HIDE DEF N
    <3>2. (q - 1) \div m \in Nat /\ ((q - 1) \div m) * m <= q - 1
      BY <3>1
    <3> DEFINE d == (q - 1) \div m
    <3>3. d \in Nat /\ d * m <= q - 1
      BY <3>2
    <3> HIDE DEF d
    <3>4. d < N
      <4>1. SUFFICES ASSUME N <= d PROVE FALSE
        BY <3>1, <3>3
      <4>2. PICK e \in Nat : d = N + e
        <5>1. d - N \in Nat /\ d = N + (d - N)
          BY <3>1, <3>3, <4>1
        <5> QED BY <5>1
      <4>3. d * m = N * m + e * m
        BY <3>1, <4>2
      <4>4. e * m >= 0
        BY <4>2
      <4>5. e * m \in Int /\ N * m \in Int
        BY <3>1, <4>2
      <4> QED BY <3>1, <3>3, <4>3, <4>4, <4>5
    <3> QED BY <3>1, <3>3, <3>4 DEF N, d
  <2>3. Behind(a, g[q - 1].from, r, i, k + 1)
    <3>1. Behind(a, s.from, rank, i, k + 1)
      BY <2>2, Zenon DEF Searched, Onwards
    <3>2. WentOn(s.from, rank, g[q - 1].from, r)
      BY <2>1
    <3> HIDE DEF i
    <3> QED BY <3>1, <3>2, BehindStays
  <2>4. g[q] = Visit(a, requests, g[q - 1], i, (q - 1) % m)
    BY <1>2
  <2> DEFINE w == g[q - 1]
  <2> HIDE DEF i, w, tries, R
  <2>5. \E z : /\ Searched(a, R, g[q], z, k + 1) /\ WentOn(w.from, r, g[q].from, z)
    <3>1. k + 1 \in Nat \ {0} /\ m \in Nat
      OBVIOUS
    <3>2. Searched(a, DOMAIN requests, w, r, k + 1) /\ Behind(a, w.from, r, i, k + 1)
      BY <2>1, <2>3 DEF w, R
    <3>3. \E z : /\ Searched(a, DOMAIN requests, Visit(a, requests, w, i, (q - 1) % m), z, k + 1)
                 /\ WentOn(w.from, r, Visit(a, requests, w, i, (q - 1) % m).from, z)
      BY <3>1, <3>2, VisitSearches, Zenon
    <3> QED BY <2>4, <3>3, Zenon DEF w, R
  <2>6. PICK z : /\ Searched(a, R, g[q], z, k + 1) /\ WentOn(w.from, r, g[q].from, z)
    BY <2>5
  <2>7. WentOn(s.from, rank, g[q].from, z)
    BY <2>1, <2>6, Zenon DEF WentOn, w
  <2>8. q \in 0..tries
    BY <1>1, <1>4 DEF tries
  <2> QED BY <2>6, <2>7, <2>8
<1>5. tries \in Right
  <2> HIDE DEF Right, tries
  <2>1. \A q \in 1..tries : q - 1 \in Right => q \in Right
    BY <1>4
  <2>2. \A q \in 0..tries : q \in Right
    BY <1>1, <1>3, <2>1, UpTo, Zenon
  <2> QED BY <2>2, <1>1
<1>6. \E r : Searched(a, R, g[tries], r, k + 1)
  BY <1>5
<1> QED BY <1>2, <1>6, Zenon

\* After a search, every output it reached has its rank.
LEMMA SearchRanks ==
  ASSUME NEW a, NEW requests, NEW n \in Nat \ {0}, NEW m \in Nat \ {0}, AreRequests(requests, n, m),
         a.inputs = n, a.outputs = m, a.turns.pri \in Int,
         Matching(a, DOMAIN requests), Backwards(a)
  PROVE  \E rank : Searched(a, DOMAIN requests, Search(a, requests), rank, n)
<1> DEFINE R == DOMAIN requests
<1>1. PICK g : /\ Search(a, requests) = g[n] /\ g[0] = StartOf(a)
               /\ \A q \in 1..n : g[q] = SearchRound(a, requests, g[q - 1])
  <2>1. a.inputs \in Nat
    OBVIOUS
  <2>2. \E g : /\ Search(a, requests) = g[a.inputs] /\ g[0] = StartOf(a)
               /\ \A q \in 1..a.inputs : g[q] = SearchRound(a, requests, g[q - 1])
    BY <2>1, SearchRounds
  <2> QED BY <2>2, Zenon
<1> DEFINE Right == {q \in 0..n : \E r : Searched(a, R, g[q], r, q)}
<1>2. 0 \in Right
  <2> DEFINE inputs == [i \in 1..n |-> (i - 1 + a.turns.pri) % n]
             T == Range(inputs) \ DOMAIN a.inmatch
             next == Selected(inputs, T)
             s == [from |-> <<>>, end |-> -1, next |-> next]
  <2>1. inputs \in Seq(Int)
    <3>1. \A i \in 1..n : (i - 1 + a.turns.pri) % n \in Int
      OBVIOUS
    <3>2. inputs \in [1..n -> Int]
      BY <3>1
    <3> HIDE DEF inputs
    <3> QED BY <3>2
  <2>2. StartOf(a) = s
    BY Zenon DEF StartOf
  <2> HIDE DEF inputs, T
  <2>3. next \in Seq(Int)
    BY <2>1, SelectedTyped
  <2>4. \A q \in 1..Len(next) : next[q] \notin DOMAIN a.inmatch
    <3>1. Range(next) = Range(inputs) \intersect T
      BY <2>1, SelectedRange, Zenon
    <3>2. \A q \in 1..Len(next) : next[q] \in Range(next)
      <4> HIDE DEF next
      <4> QED BY <2>3 DEF Range
    <3> QED BY <3>1, <3>2 DEF T
  <2> HIDE DEF next
  <2>5. /\ DOMAIN s = {"from", "next", "end"} /\ s.from = <<>> /\ s.end = -1 /\ s.next = next
    OBVIOUS
  <2> HIDE DEF s
  <2>6. DOMAIN s.from = {}
    BY <2>5
  <2>7. Ranked(a, R, s.from, <<>>, 0)
    BY <2>6 DEF Ranked
  <2>8. Onwards(a, s, <<>>, 0 + 1)
    BY <2>4, <2>5, Zenon DEF Onwards, Behind
  <2>9. Searched(a, R, s, <<>>, 0)
    BY <2>3, <2>5, <2>7, <2>8 DEF Searched
  <2> HIDE DEF R
  <2> QED BY <1>1, <2>2, <2>9
<1>3. ASSUME NEW q \in 1..n, q - 1 \in Right PROVE q \in Right
  <2> DEFINE k == q - 1
  <2>1. k \in Nat /\ k + 1 = q /\ q \in 0..n /\ n \in Nat
    BY <1>3
  <2>2. PICK r : Searched(a, R, g[k], r, k)
    BY <1>3
  <2>3. g[q] = SearchRound(a, requests, g[k])
    BY <1>1
  <2> HIDE DEF k
  <2> DEFINE w == g[k]
  <2>4. Searched(a, DOMAIN requests, w, r, k)
    BY <2>2
  <2> HIDE DEF w
  <2>5. \E z : Searched(a, DOMAIN requests, SearchRound(a, requests, w), z, k + 1)
    BY <2>1, <2>4, RoundSearches, Zenon
  <2>6. \E z : Searched(a, R, g[q], z, q)
    BY <2>1, <2>3, <2>5, Zenon DEF w
  <2> HIDE DEF R
  <2> QED BY <2>1, <2>6
<1>4. n \in Right
  <2> HIDE DEF Right
  <2>1. \A q \in 1..n : q - 1 \in Right => q \in Right
    BY <1>3
  <2>2. n \in Nat
    OBVIOUS
  <2>3. \A q \in 0..n : q \in Right
    BY <1>2, <2>1, <2>2, UpTo, Zenon
  <2> QED BY <2>3
<1> QED BY <1>1, <1>4

\* After k steps along a path that ends at e: e is no longer anybody's, and the
\* inputs further back on the path have what they had when it was searched.
Agrees(a, b, i) ==
  (i \in DOMAIN b.inmatch <=> i \in DOMAIN a.inmatch)
    /\ (i \in DOMAIN a.inmatch => b.inmatch[i] = a.inmatch[i])

\* Nobody has output e.
NotTaken(b, e) == \A i \in DOMAIN b.inmatch : b.inmatch[i] # e

\* What is known of the end of a path, k rounds from its beginning.
Released(a, from, rank, b, e, k) ==
  e # -1 => /\ e \in DOMAIN from /\ rank[e] <= k
            /\ NotTaken(b, e)
            /\ \A j \in DOMAIN from : rank[j] <= rank[e] => Agrees(a, b, from[j])

\* Backwards, but for the end of a path.
BackOr(b, e) ==
  \A o \in DOMAIN b.outmatch :
    \/ o = e /\ e # -1
    \/ b.outmatch[o] \in DOMAIN b.inmatch /\ b.inmatch[b.outmatch[o]] = o

\* What every step along a path keeps.
OnPath(a, R, from, rank, b, e, k) ==
  /\ Matching(b, R) /\ BackOr(b, e) /\ Released(a, from, rank, b, e, k)

\* A step along the path: the input the output was reached from takes it, and
\* lets go of the one it had.
LEMMA AugmentSteps ==
  ASSUME NEW a, NEW type, NEW n \in Nat \ {0}, NEW m \in Nat \ {0},
         NEW requests, AreRequests(requests, n, m),
         NEW from, NEW rank, Ranked(a, DOMAIN requests, from, rank, n),
         NEW s, IsAllocator(s.a, type, n, m), NEW k \in Int,
         OnPath(a, DOMAIN requests, from, rank, s.a, s.end, k)
  PROVE  /\ IsAllocator(AugmentFrom(s, from).a, type, n, m)
         /\ OnPath(a, DOMAIN requests, from, rank, AugmentFrom(s, from).a,
                   AugmentFrom(s, from).end, k - 1)
<1> DEFINE R == DOMAIN requests
           b == s.a
           e == s.end
           i == from[e]
           end == IF i \in DOMAIN b.inmatch THEN b.inmatch[i] ELSE -1
           c == Matched(b, i, e)
           t == [a |-> c, end |-> end]
<1>1. AugmentFrom(s, from) = IF e = -1 THEN s ELSE t
  BY Zenon DEF AugmentFrom
<1>2. CASE e = -1
  <2>1. AugmentFrom(s, from) = s
    BY <1>1, <1>2, Zenon
  <2>2. OnPath(a, R, from, rank, b, e, k - 1)
    BY <1>2, Zenon DEF OnPath, Released
  <2> QED BY <2>1, <2>2, Zenon
<1>3. CASE e # -1
  <2>1. AugmentFrom(s, from) = t
    BY <1>1, <1>3, Zenon
  <2>2. t.a = c /\ t.end = end
    OBVIOUS
  <2>3. IsAllocator(b, type, n, m) /\ Matching(b, R) /\ BackOr(b, e) /\ Released(a, from, rank, b, e, k)
    BY Zenon DEF OnPath
  <2> HIDE DEF b, e, t
  <2>4. /\ e \in DOMAIN from /\ rank[e] <= k /\ NotTaken(b, e)
        /\ \A j \in DOMAIN from : rank[j] <= rank[e] => Agrees(a, b, from[j])
    BY <1>3, <2>3, Zenon DEF Released
  <2>5. /\ IsAllocator(c, type, n, m)
        /\ DOMAIN c.inmatch = {i} \union DOMAIN b.inmatch /\ c.inmatch[i] = e
        /\ \A x \in DOMAIN b.inmatch \ {i} : c.inmatch[x] = b.inmatch[x]
        /\ DOMAIN c.outmatch = {e} \union DOMAIN b.outmatch /\ c.outmatch[e] = i
        /\ \A x \in DOMAIN b.outmatch \ {e} : c.outmatch[x] = b.outmatch[x]
    <3>1. IsAllocator(b, type, n, m)
      BY <2>3
    <3> HIDE DEF i
    <3> QED BY <3>1, MatchedFields
  <2>6. \A j \in DOMAIN from :
          /\ <<from[j], j>> \in R /\ rank[j] \in 1..n /\ Behind(a, from, rank, from[j], rank[j])
    BY Zenon DEF Ranked
  <2>7. /\ <<i, e>> \in R /\ rank[e] \in 1..n /\ Behind(a, from, rank, i, rank[e])
        /\ Agrees(a, b, i)
    <3>1. rank[e] \in 1..n
      BY <2>4, <2>6
    <3>2. rank[e] <= rank[e]
      BY <3>1
    <3> QED BY <2>4, <2>6, <3>2
  <2> HIDE DEF i, c
  <2>8. \A x \in DOMAIN b.inmatch : /\ <<x, b.inmatch[x]>> \in R /\ b.inmatch[x] \in DOMAIN b.outmatch
                                    /\ b.outmatch[b.inmatch[x]] = x /\ b.inmatch[x] # e
    BY <2>3, <2>4, Zenon DEF Matching, NotTaken
  <2>9. ASSUME NEW x \in DOMAIN c.inmatch
        PROVE  <<x, c.inmatch[x]>> \in R /\ c.inmatch[x] \in DOMAIN c.outmatch
               /\ c.outmatch[c.inmatch[x]] = x
    <3>1. CASE x = i
      BY <2>5, <2>7, <3>1
    <3>2. CASE x # i
      <4>1. x \in DOMAIN b.inmatch /\ c.inmatch[x] = b.inmatch[x]
        BY <2>5, <3>2
      <4>2. /\ <<x, b.inmatch[x]>> \in R /\ b.inmatch[x] \in DOMAIN b.outmatch
            /\ b.outmatch[b.inmatch[x]] = x /\ b.inmatch[x] # e
        BY <2>8, <4>1
      <4>3. b.inmatch[x] \in DOMAIN c.outmatch /\ c.outmatch[b.inmatch[x]] = b.outmatch[b.inmatch[x]]
        BY <2>5, <4>2
      <4> QED BY <4>1, <4>2, <4>3
    <3> QED BY <3>1, <3>2
  <2>10. Matching(c, R)
    BY <2>9, Zenon DEF Matching
  <2>11. ASSUME NEW x \in DOMAIN b.inmatch PROVE b.inmatch[x] # -1
    <3>1. <<x, b.inmatch[x]>> \in DOMAIN requests
      BY <2>8
    <3> QED BY <3>1 DEF AreRequests
  <2>12. ASSUME NEW o \in DOMAIN c.outmatch
         PROVE  \/ o = end /\ end # -1
                \/ c.outmatch[o] \in DOMAIN c.inmatch /\ c.inmatch[c.outmatch[o]] = o
    <3>1. CASE o = e
      BY <2>5, <3>1
    <3>2. CASE o # e
      <4> DEFINE p == b.outmatch[o]
      <4>1. o \in DOMAIN b.outmatch /\ c.outmatch[o] = p
        BY <2>5, <3>2
      <4>2. p \in DOMAIN b.inmatch /\ b.inmatch[p] = o
        BY <2>3, <3>2, <4>1, Zenon DEF BackOr
      <4> HIDE DEF p
      <4>3. CASE p = i
        BY <2>11, <4>2, <4>3
      <4>4. CASE p # i
        <5>1. p \in DOMAIN c.inmatch /\ c.inmatch[p] = b.inmatch[p]
          BY <2>5, <4>2, <4>4
        <5> QED BY <4>1, <4>2, <5>1
      <4> QED BY <4>3, <4>4
    <3> QED BY <3>1, <3>2
  <2>13. BackOr(c, end)
    BY <2>12, Zenon DEF BackOr
  <2>14. ASSUME end # -1
         PROVE  /\ end \in DOMAIN from /\ rank[end] <= k - 1 /\ NotTaken(c, end)
                /\ \A j \in DOMAIN from : rank[j] <= rank[end] => Agrees(a, c, from[j])
    <3>1. i \in DOMAIN b.inmatch /\ end = b.inmatch[i]
      BY <2>14
    <3>2. i \in DOMAIN a.inmatch /\ a.inmatch[i] = end
      BY <2>7, <3>1 DEF Agrees
    <3> HIDE DEF end
    <3>3. end \in DOMAIN from /\ rank[end] < rank[e]
      BY <2>7, <3>2, Zenon DEF Behind
    <3>4. rank[end] \in 1..n
      BY <2>6, <3>3
    <3>5. rank[end] <= k - 1
      BY <2>4, <2>7, <3>3, <3>4
    <3>6. NotTaken(c, end)
      <4>1. ASSUME NEW x \in DOMAIN c.inmatch, c.inmatch[x] = end PROVE FALSE
        <5>1. CASE x = i
          <6>1. end = e
            BY <2>5, <4>1, <5>1
          <6> QED BY <2>8, <3>1, <6>1
        <5>2. CASE x # i
          <6>1. x \in DOMAIN b.inmatch /\ b.inmatch[x] = end
            BY <2>5, <4>1, <5>2
          <6>2. b.outmatch[end] = x /\ b.outmatch[end] = i
            BY <2>8, <3>1, <6>1
          <6> QED BY <5>2, <6>2
        <5> QED BY <5>1, <5>2
      <4> QED BY <4>1, Zenon DEF NotTaken
    <3>7. ASSUME NEW j \in DOMAIN from, rank[j] <= rank[end] PROVE Agrees(a, c, from[j])
      <4>1. rank[j] \in 1..n /\ Behind(a, from, rank, from[j], rank[j])
        BY <2>6
      <4>2. rank[j] <= rank[e]
        BY <2>7, <3>3, <3>4, <3>7, <4>1
      <4>3. Agrees(a, b, from[j])
        BY <2>4, <4>2
      <4>4. from[j] # i
        <5>1. SUFFICES ASSUME from[j] = i PROVE FALSE
          OBVIOUS
        <5>2. rank[end] < rank[j]
          BY <3>2, <4>1, <5>1, Zenon DEF Behind
        <5> QED BY <3>4, <3>7, <4>1, <5>2
      <4> QED BY <2>5, <4>3, <4>4 DEF Agrees
    <3> QED BY <3>3, <3>5, <3>6, <3>7
  <2>15. Released(a, from, rank, c, end, k - 1)
    BY <2>14, Zenon DEF Released
  <2> HIDE DEF end
  <2> QED BY <2>1, <2>2, <2>5, <2>10, <2>13, <2>15, Zenon DEF OnPath
<1> QED BY <1>2, <1>3

\* What a path is searched in, and what augmenting it leaves.
Paired(b, type, n, m, R) == IsAllocator(b, type, n, m) /\ Matching(b, R) /\ Backwards(b)

\* A path is augmented to its beginning, and leaves a matching.
LEMMA Augments ==
  ASSUME NEW a, NEW type, NEW n \in Nat \ {0}, NEW m \in Nat \ {0},
         NEW requests, AreRequests(requests, n, m), type.name = "max_size",
         Paired(a, type, n, m, DOMAIN requests)
  PROVE  Paired(ShortestAugmenting(a, requests), type, n, m, DOMAIN requests)
<1> DEFINE R == DOMAIN requests
           s == Search(a, requests)
<1>1. /\ IsAllocator(a, type, n, m) /\ Matching(a, R) /\ Backwards(a)
      /\ a.inputs = n /\ a.outputs = m /\ a.turns.pri \in Int
  BY DEF Paired, IsAllocator, AreTurns
<1>2. PICK rank : Searched(a, R, s, rank, n)
  BY <1>1, SearchRanks, Zenon
<1>3. PICK g : /\ Augmented(a, s) = g[n].a /\ g[0] = [a |-> a, end |-> s.end]
               /\ \A q \in 1..n : g[q] = AugmentFrom(g[q - 1], s.from)
  <2>1. a.inputs \in Nat
    BY <1>1
  <2>2. \E g : /\ Augmented(a, s) = g[a.inputs].a /\ g[0] = [a |-> a, end |-> s.end]
               /\ \A q \in 1..a.inputs : g[q] = AugmentFrom(g[q - 1], s.from)
    <3> HIDE DEF s
    <3> QED BY <2>1, PathSteps
  <2> HIDE DEF s
  <2> QED BY <1>1, <2>2
<1>4. ShortestAugmenting(a, requests) = g[n].a
  BY <1>3, Zenon DEF ShortestAugmenting
<1> HIDE DEF s
<1> DEFINE On(q) == /\ IsAllocator(g[q].a, type, n, m)
                    /\ OnPath(a, R, s.from, rank, g[q].a, g[q].end, n - q)
           Right == {q \in 0..n : On(q)}
<1>5. Ranked(a, R, s.from, rank, n)
  BY <1>2, Zenon DEF Searched
<1>6. On(0)
  <2> DEFINE e == s.end
  <2>1. g[0].a = a /\ g[0].end = e
    BY <1>3
  <2>2. BackOr(a, e)
    BY <1>1, Zenon DEF Backwards, BackOr
  <2>3. ASSUME e # -1
        PROVE  /\ e \in DOMAIN s.from /\ rank[e] <= n /\ NotTaken(a, e)
               /\ \A j \in DOMAIN s.from : rank[j] <= rank[e] => Agrees(a, a, s.from[j])
    <3>1. e \in DOMAIN s.from /\ e \notin DOMAIN a.outmatch
      BY <1>2, <2>3 DEF Searched
    <3>2. rank[e] <= n
      <4>1. rank[e] \in 1..n
        BY <1>5, <3>1 DEF Ranked
      <4> QED BY <4>1
    <3>3. NotTaken(a, e)
      BY <1>1, <3>1, Zenon DEF NotTaken, Matching
    <3>4. \A i : Agrees(a, a, i)
      BY Zenon DEF Agrees
    <3> QED BY <3>1, <3>2, <3>3, <3>4, Zenon
  <2>4. Released(a, s.from, rank, a, e, n)
    BY <2>3, Zenon DEF Released
  <2>5. n - 0 = n
    OBVIOUS
  <2>6. OnPath(a, R, s.from, rank, a, e, n)
    BY <1>1, <2>2, <2>4, Zenon DEF OnPath
  <2> HIDE DEF e, R
  <2> QED BY <1>1, <2>1, <2>5, <2>6
<1>7. ASSUME NEW q \in 1..n, q - 1 \in Right PROVE q \in Right
  <2> DEFINE w == g[q - 1]
             k == n - (q - 1)
             from == s.from
  <2>1. IsAllocator(w.a, type, n, m) /\ OnPath(a, R, from, rank, w.a, w.end, k)
    BY <1>7
  <2>2. g[q] = AugmentFrom(w, from)
    BY <1>3
  <2>3. k \in Int /\ k - 1 = n - q /\ q \in 0..n
    BY <1>7
  <2> HIDE DEF w, k, from
  <2>4. Ranked(a, DOMAIN requests, from, rank, n)
    BY <1>5 DEF from
  <2>5. /\ IsAllocator(AugmentFrom(w, from).a, type, n, m)
        /\ OnPath(a, DOMAIN requests, from, rank, AugmentFrom(w, from).a,
                  AugmentFrom(w, from).end, k - 1)
    BY <2>1, <2>3, <2>4, AugmentSteps, Zenon
  <2>6. On(q)
    <3>1. /\ IsAllocator(g[q].a, type, n, m)
          /\ OnPath(a, R, from, rank, g[q].a, g[q].end, n - q)
      <4> HIDE DEF R
      <4> QED BY <2>2, <2>3, <2>5 DEF R
    <3> QED BY <3>1 DEF from
  <2> HIDE DEF On
  <2> QED BY <2>3, <2>6
<1>8. On(n)
  <2> HIDE DEF On
  <2>1. n \in Nat /\ 0 \in Right
    BY <1>6
  <2>2. \A q \in 0..n : q \in Right
    <3> HIDE DEF Right
    <3>1. \A q \in 1..n : q - 1 \in Right => q \in Right
      BY <1>7
    <3> QED BY <2>1, <3>1, UpTo, Zenon
  <2> QED BY <2>1, <2>2
<1> DEFINE b == g[n].a
           e == g[n].end
<1>9. /\ IsAllocator(b, type, n, m) /\ Matching(b, R) /\ BackOr(b, e)
      /\ Released(a, s.from, rank, b, e, n - n)
  BY <1>8, Zenon DEF OnPath
<1> HIDE DEF b, e
<1>10. e = -1
  <2>1. SUFFICES ASSUME e # -1 PROVE FALSE
    OBVIOUS
  <2>2. e \in DOMAIN s.from /\ rank[e] <= n - n
    BY <1>9, <2>1, Zenon DEF Released
  <2>3. rank[e] \in 1..n
    BY <1>5, <2>2, Zenon DEF Ranked
  <2> QED BY <2>2, <2>3
<1>11. Backwards(b)
  BY <1>9, <1>10, Zenon DEF BackOr, Backwards
<1> QED BY <1>4, <1>9, <1>11, Zenon DEF Paired, b

\* MaxSizeMatch returns a matching: it is one from path to path.
LEMMA MaxSizeMatches ==
  ASSUME NEW a, NEW type, NEW n \in Nat \ {0}, NEW m \in Nat \ {0},
         type.name = "max_size", IsAllocator(a, type, n, m),
         a.inmatch = <<>>, a.outmatch = <<>>,
         NEW requests, AreRequests(requests, n, m)
  PROVE  /\ IsAllocator(MaxSizeMatch(a, requests), type, n, m)
         /\ Matching(MaxSizeMatch(a, requests), DOMAIN requests)
<1> DEFINE R == DOMAIN requests
<1>1. a.inputs = n /\ n \in Nat
  BY DEF IsAllocator
<1>2. PICK g : /\ MaxSizeMatch(a, requests) = [g[n] EXCEPT !.turns.pri = (@ + 1) % n] /\ g[0] = a
               /\ \A q \in 1..n : g[q] = ShortestAugmenting(g[q - 1], requests)
  <2>1. \E g : /\ MaxSizeMatch(a, requests) = [g[a.inputs] EXCEPT !.turns.pri = (@ + 1) % a.inputs]
               /\ g[0] = a
               /\ \A q \in 1..a.inputs : g[q] = ShortestAugmenting(g[q - 1], requests)
    <3>1. a.inputs \in Nat
      BY <1>1
    <3> QED BY <3>1, MaxSizeSteps
  <2> QED BY <1>1, <2>1
<1> DEFINE Right == {q \in 0..n : Paired(g[q], type, n, m, R)}
<1>3. 0 \in Right
  <2>1. Matching(a, R)
    BY DEF Matching
  <2>2. Backwards(a)
    BY DEF Backwards
  <2>3. Paired(a, type, n, m, R)
    BY <2>1, <2>2, Zenon DEF Paired
  <2> HIDE DEF R
  <2> QED BY <1>1, <1>2, <2>3
<1>4. ASSUME NEW q \in 1..n, q - 1 \in Right PROVE q \in Right
  <2> DEFINE w == g[q - 1]
  <2>1. Paired(w, type, n, m, DOMAIN requests) /\ g[q] = ShortestAugmenting(w, requests)
    BY <1>2, <1>4
  <2> HIDE DEF w
  <2>2. Paired(ShortestAugmenting(w, requests), type, n, m, DOMAIN requests)
    BY <2>1, Augments, Zenon
  <2>3. Paired(g[q], type, n, m, R) /\ q \in 0..n
    BY <1>1, <1>4, <2>1, <2>2
  <2> HIDE DEF R
  <2> QED BY <2>3
<1>5. Paired(g[n], type, n, m, R)
  <2> HIDE DEF Right
  <2>1. \A q \in 1..n : q - 1 \in Right => q \in Right
    BY <1>4
  <2>2. \A q \in 0..n : q \in Right
    BY <1>1, <1>3, <2>1, UpTo, Zenon
  <2> QED BY <1>1, <2>2 DEF Right
<1> DEFINE b == g[n]
           pri == (b.turns.pri + 1) % n
           turns == [b.turns EXCEPT !.pri = pri]
           c == Changed(b, b.inmatch, b.outmatch, turns)
<1>6. /\ DOMAIN b = AllocatorFields /\ b.turns.pri \in Int /\ "pri" \in DOMAIN b.turns
      /\ IsAllocator(b, type, n, m) /\ Matching(b, R)
  BY <1>5 DEF Paired, IsAllocator, AreTurns
<1>7. pri \in Int
  BY <1>6
<1>8. MaxSizeMatch(a, requests) = c
  <2>1. MaxSizeMatch(a, requests) = [b EXCEPT !.turns = turns]
    BY <1>2
  <2>2. [b EXCEPT !.turns = turns] = c
    <3> HIDE DEF b, turns
    <3> QED BY <1>6 DEF Changed
  <2> QED BY <2>1, <2>2
<1> HIDE DEF b, pri
<1>9. AreTurns(turns, type, n, m)
  <2>1. turns.pri = pri /\ DOMAIN turns = DOMAIN b.turns
    BY <1>6
  <2> HIDE DEF turns
  <2> QED BY <1>6, <1>7, <2>1 DEF AreTurns
<1> HIDE DEF turns
<1>10. IsAllocator(c, type, n, m) /\ c.inmatch = b.inmatch /\ c.outmatch = b.outmatch
  <2>1. IsAllocator(c, type, n, m)
    BY <1>6, <1>9, AllocatorChanged, Zenon
  <2>2. c.inmatch = b.inmatch /\ c.outmatch = b.outmatch
    BY <1>6 DEF Changed, AllocatorFields
  <2> QED BY <2>1, <2>2
<1> HIDE DEF c
<1>11. Matching(c, R)
  BY <1>6, <1>10 DEF Matching
<1> QED BY <1>8, <1>10, <1>11

\* Every allocator chooses a matching of the inputs and outputs that ask for
\* each other, whatever its turns are.
THEOREM AllocateMatches ==
  ASSUME NEW type, NEW n \in Nat \ {0}, NEW m \in Nat \ {0}, IsType(type, n, m),
         NEW a, IsAllocator(a, type, n, m), a.inmatch = <<>>, a.outmatch = <<>>,
         NEW requests, AreRequests(requests, n, m), requests = [r \in DOMAIN requests |-> requests[r]]
  PROVE  /\ IsAllocator(Allocate(a, requests), type, n, m)
         /\ Matching(Allocate(a, requests), DOMAIN requests)
<1> DEFINE b == Allocate(a, requests)
           t == type.name
<1>1. a.type.name = t
  BY DEF IsAllocator
<1>2. CASE t = "islip"
  <2>1. /\ t # "select" /\ t # "loa" /\ t # "max_size" /\ t \notin {"wavefront", "rr_wavefront"}
        /\ t # "separable_input_first" /\ t # "separable_output_first"
    BY <1>2
  <2>2. type.iters \in Nat
    BY <1>2 DEF IsType
  <2>3. b = iSLIP(a, requests)
    BY <1>1, <1>2, <2>1, Zenon DEF Allocate
  <2> QED BY <1>2, <2>2, <2>3, iSLIPMatches
<1>3. CASE t = "select"
  <2>1. /\ t # "islip" /\ t # "loa" /\ t # "max_size" /\ t \notin {"wavefront", "rr_wavefront"}
        /\ t # "separable_input_first" /\ t # "separable_output_first"
    BY <1>3
  <2>2. type.iters = 1
    BY <1>3 DEF IsType
  <2>3. b = SelAlloc(a, requests)
    BY <1>1, <1>3, <2>1, Zenon DEF Allocate
  <2> QED BY <1>3, <2>2, <2>3, SelAllocMatches
<1>4. CASE t = "loa"
  <2>1. /\ t # "select" /\ t # "islip" /\ t # "max_size" /\ t \notin {"wavefront", "rr_wavefront"}
        /\ t # "separable_input_first" /\ t # "separable_output_first"
    BY <1>4
  <2>2. b = LOA(a, requests)
    BY <1>1, <1>4, <2>1, Zenon DEF Allocate
  <2> QED BY <1>4, <2>2, LOAMatches
<1>5. CASE t \in {"wavefront", "rr_wavefront"}
  <2>1. /\ t # "select" /\ t # "islip" /\ t # "max_size" /\ t # "loa"
        /\ t # "separable_input_first" /\ t # "separable_output_first"
    BY <1>5
  <2>2. b = Wavefront(a, requests)
    BY <1>1, <1>5, <2>1, Zenon DEF Allocate
  <2> QED BY <1>5, <2>2, WavefrontMatches
<1>6. CASE t \in {"separable_input_first", "separable_output_first"}
  <2>1. /\ t # "select" /\ t # "islip" /\ t # "max_size" /\ t # "loa"
        /\ t \notin {"wavefront", "rr_wavefront"}
    BY <1>6
  <2>2. IsSeparable(type, n, m)
    BY <1>6 DEF IsType, IsSeparable, IsTree
  <2>3. CASE t = "separable_input_first"
    <3>1. t # "separable_output_first"
      BY <2>3
    <3>2. b = SeparableInputFirst(a, requests)
      BY <1>1, <2>1, <2>3, <3>1, Zenon DEF Allocate
    <3> QED BY <2>2, <3>2, InputFirstMatches
  <2>4. CASE t = "separable_output_first"
    <3>1. t # "separable_input_first"
      BY <2>4
    <3>2. b = SeparableOutputFirst(a, requests)
      BY <1>1, <2>1, <2>4, <3>1, Zenon DEF Allocate
    <3> QED BY <2>2, <3>2, OutputFirstMatches
  <2> QED BY <1>6, <2>3, <2>4
<1>7. CASE t = "max_size"
  <2>1. /\ t # "select" /\ t # "islip" /\ t # "loa" /\ t \notin {"wavefront", "rr_wavefront"}
        /\ t # "separable_input_first" /\ t # "separable_output_first"
    BY <1>7
  <2>2. b = MaxSizeMatch(a, requests)
    BY <1>1, <1>7, <2>1, Zenon DEF Allocate
  <2> QED BY <1>7, <2>2, MaxSizeMatches
<1>8. \/ t \in {"islip", "select", "loa", "wavefront", "rr_wavefront", "max_size"}
      \/ t \in {"separable_input_first", "separable_output_first"}
  BY DEF IsType
<1> QED BY <1>2, <1>3, <1>4, <1>5, <1>6, <1>7, <1>8

\* NewAllocator returns an allocator of its type with nothing matched.
LEMMA NewAllocatorIs ==
  ASSUME NEW type, NEW n \in Nat \ {0}, NEW m \in Nat \ {0}, IsType(type, n, m)
  PROVE  /\ IsAllocator(NewAllocator(type, n, m), type, n, m)
         /\ NewAllocator(type, n, m).inmatch = <<>> /\ NewAllocator(type, n, m).outmatch = <<>>
<1> DEFINE
      turns ==
        CASE type.name \in {"islip", "select", "loa"} ->
               [grant |-> [o \in 0..(m - 1) |-> 0], accept |-> [i \in 0..(n - 1) |-> 0]]
          [] type.name \in {"separable_input_first", "separable_output_first"} ->
               [input |-> [i \in 0..(n - 1) |-> NewArbiter(type.arb, m)],
                output |-> [o \in 0..(m - 1) |-> NewArbiter(type.arb, n)]]
          [] OTHER -> [pri |-> 0]
      b == [type |-> type, inputs |-> n, outputs |-> m, inmatch |-> <<>>, outmatch |-> <<>>,
            turns |-> turns]
      t == type.name
<1>1. NewAllocator(type, n, m) = b
  BY Zenon DEF NewAllocator
<1>2. ASSUME t \in {"islip", "select", "loa"} PROVE AreTurns(turns, type, n, m)
  <2>1. t \notin {"separable_input_first", "separable_output_first"}
    BY <1>2
  <2>2. turns = [grant |-> [o \in 0..(m - 1) |-> 0], accept |-> [i \in 0..(n - 1) |-> 0]]
    BY <1>2, <2>1, Zenon
  <2> HIDE DEF turns
  <2> QED BY <1>2, <2>2 DEF AreTurns
<1>3. ASSUME t \in {"separable_input_first", "separable_output_first"} PROVE AreTurns(turns, type, n, m)
  <2>1. t \notin {"islip", "select", "loa"}
    BY <1>3
  <2> DEFINE in == [i \in 0..(n - 1) |-> NewArbiter(type.arb, m)]
             out == [o \in 0..(m - 1) |-> NewArbiter(type.arb, n)]
  <2>2. turns = [input |-> in, output |-> out]
    BY <1>3, <2>1, Zenon
  <2>3. IsTree(type.arb, n) /\ IsTree(type.arb, m)
    BY <1>3 DEF IsType, IsTree
  <2>4. /\ \A i \in 0..(n - 1) : IsArbiter(in[i], type.arb, m)
        /\ \A o \in 0..(m - 1) : IsArbiter(out[o], type.arb, n)
        /\ DOMAIN in = 0..(n - 1) /\ DOMAIN out = 0..(m - 1)
    BY <2>3, NewTree
  <2> HIDE DEF turns, in, out
  <2>5. turns.input = in /\ turns.output = out
    BY <2>2
  <2> QED BY <1>3, <2>4, <2>5 DEF AreTurns
<1>4. ASSUME t \in {"max_size", "wavefront", "rr_wavefront"} PROVE AreTurns(turns, type, n, m)
  <2>1. /\ t \notin {"islip", "select", "loa"}
        /\ t \notin {"separable_input_first", "separable_output_first"}
    BY <1>4
  <2>2. turns = [pri |-> 0]
    BY <1>4, <2>1, Zenon
  <2> HIDE DEF turns
  <2> QED BY <1>4, <2>2 DEF AreTurns
<1>5. AreTurns(turns, type, n, m)
  BY <1>2, <1>3, <1>4 DEF IsType
<1> HIDE DEF turns
<1> QED BY <1>1, <1>5 DEF IsAllocator, AllocatorFields

\* Allocator::Clear leaves an allocator of its type with nothing matched.
LEMMA ClearedIs ==
  ASSUME NEW a, NEW type, NEW n, NEW m, IsAllocator(a, type, n, m)
  PROVE  /\ IsAllocator(Cleared(a), type, n, m)
         /\ Cleared(a).inmatch = <<>> /\ Cleared(a).outmatch = <<>>
<1> DEFINE c == [a EXCEPT !.inmatch = <<>>, !.outmatch = <<>>]
<1>1. Cleared(a) = c
  BY DEF Cleared
<1>2. /\ DOMAIN a = AllocatorFields /\ a.type = type /\ a.inputs = n /\ a.outputs = m
      /\ AreTurns(a.turns, type, n, m)
  BY DEF IsAllocator
<1>3. /\ DOMAIN c = AllocatorFields /\ c.type = type /\ c.inputs = n /\ c.outputs = m
      /\ c.inmatch = <<>> /\ c.outmatch = <<>> /\ c.turns = a.turns
  BY <1>2 DEF AllocatorFields
<1> HIDE DEF c
<1>4. IsAllocator(c, type, n, m)
  BY <1>2, <1>3, Zenon DEF IsAllocator
<1> QED BY <1>1, <1>3, <1>4

-----------------------------------------------------------------------------
(* The inductive invariant *)

-----------------------------------------------------------------------------
\* The state of a router and its invariant.

\* A flit that was given a VC.
SentFlit == {f \in Flit : f.vc \in VCIds}

\* What a routing function may offer.
OutsOf(name, r, in, f) == UNION {res.outs : res \in Route(name, r, in, f)}

\* All a routing function may offer.
Outs ==
  UNION {OutsOf(name, r, in, f) : name \in {c.routing_function : c \in Configs}, r \in RouterIds,
                                  in \in Ports, f \in Flit}

\* What one result of a routing function offers.
OutputSets == {outs \in SUBSET Outs : IsFiniteSet(outs)}

\* An input VC: its flits and its state.
VCRecord ==
  [flits : Seq(Flit), state : {"idle", "routing", "vc_alloc", "active"}, route_set : OutputSets,
   out_port : Ports \union {-1}, out_vc : VCIds \union {-1}]

\* The fields of an IQRouter.
RouterFields ==
  {"buf", "next_buf", "route_vcs", "vc_alloc_vcs", "sw_alloc_vcs", "sw_hold_vcs",
   "crossbar_flits", "vc_allocator", "sw_allocator", "spec_sw_allocator", "sw_rr_offset",
   "vc_rr_offset", "held", "out_queue_credits", "output_buffer", "credit_buffer"}

\* The input VCs that wait to be routed, for an output VC, and for the switch,
\* and those that hold it.
Pipeline(b, R, V, W, H) ==
  /\ b \in [InVCs -> VCRecord]
  /\ R \subseteq InVCs /\ V \subseteq InVCs /\ W \subseteq InVCs /\ H \subseteq InVCs
  /\ \A iv \in InVCs : b[iv].state = "active" => b[iv].out_port \in Ports /\ b[iv].out_vc \in VCIds
  /\ \A iv \in R \union V \union W \union H : b[iv].flits # <<>>
  /\ \A iv \in R : b[iv].state = "routing"
  /\ \A iv \in V : b[iv].state = "vc_alloc"
  /\ \A iv \in InVCs : b[iv].state = "vc_alloc" => Piggyback \/ iv \in V
  /\ \A iv \in W : b[iv].state = "active" \/ (config.speculative /\ b[iv].state = "vc_alloc")
  /\ \A iv \in H : b[iv].state = "active"
  /\ W \intersect H = {}
  /\ Piggyback => V = {}

\* The VCs that hold the switch hold different inputs and different outputs.
Holding(held, b, H) ==
  /\ H # {} => config.hold_switch_for_packet
  /\ DOMAIN held = {ExpandedInput(iv) : iv \in H}
  /\ \A iv \in H : held[ExpandedInput(iv)].output = ExpandedOutput(iv, b[iv].out_port)
  /\ \A iv, jv \in H :
       \/ ExpandedInput(iv) = ExpandedInput(jv)
       \/ ExpandedOutput(iv, b[iv].out_port) = ExpandedOutput(jv, b[jv].out_port)
       => iv = jv

\* At most output_speedup flits in the crossbar are for an output: they have
\* different slots.
Spread(cf) ==
  \E slot \in [DOMAIN cf -> 0..(config.output_speedup - 1)] :
    \A i, j \in DOMAIN cf : cf[i].output = cf[j].output /\ slot[i] = slot[j] => i = j

\* What is in an output buffer, and in the crossbar for it.
Bounded(n) ==
  n <= OutputBufferSize + 2 * config.output_speedup - 2 /\ (config.output_speedup = 1 => n <= 1)

\* How many flits in the crossbar are for an output.
CrossingTo(rt, o) == Len(Selected(rt.crossbar_flits, Toward(rt, o)))

\* An allocator between cycles.
IsReady(a) == DOMAIN a = AllocatorFields /\ a.inmatch = <<>> /\ a.outmatch = <<>>

\* The allocators are of their types, with nothing matched between cycles.
AllocatorsReady(rt) ==
  /\ IsReady(rt.sw_allocator) /\ IsReady(rt.spec_sw_allocator) /\ IsReady(rt.vc_allocator)
  /\ IsAllocator(rt.sw_allocator, config.sw_allocator, NumPorts * config.input_speedup,
                 NumPorts * config.output_speedup)
  /\ SpecAllocator => IsAllocator(rt.spec_sw_allocator, config.spec_sw_allocator,
                                  NumPorts * config.input_speedup, NumPorts * config.output_speedup)
  /\ ~Piggyback => IsAllocator(rt.vc_allocator, config.vc_allocator, NumPorts * NumVCs,
                               NumPorts * NumVCs)

\* The lists of the pipeline hold every VC once.
Lists(rt) ==
  /\ IsList(rt.route_vcs, InVCs) /\ IsList(rt.vc_alloc_vcs, InVCs)
  /\ IsList(rt.sw_alloc_vcs, InVCs) /\ IsList(rt.sw_hold_vcs, InVCs)

\* Every VC is on the lists its state says.
Staged(rt) ==
  /\ Pipeline(rt.buf, Range(rt.route_vcs), Range(rt.vc_alloc_vcs), Range(rt.sw_alloc_vcs),
              Range(rt.sw_hold_vcs))
  /\ Holding(rt.held, rt.buf, Range(rt.sw_hold_vcs))

\* What is in the crossbar and behind it.
Outgoing(rt) ==
  /\ rt.crossbar_flits \in Seq([f : SentFlit, output : Ports]) /\ Spread(rt.crossbar_flits)
  /\ rt.output_buffer \in [Ports -> Seq(SentFlit)]

\* Where the round-robin searches start.
InTurn(rt) ==
  rt.sw_rr_offset \in [ExpandedInputs -> Int] /\ rt.vc_rr_offset \in [Ports -> Int]

\* All but the bound.
RouterCore(rt) ==
  DOMAIN rt = RouterFields /\ Lists(rt) /\ Staged(rt) /\ Outgoing(rt) /\ InTurn(rt) /\ AllocatorsReady(rt)

\* The invariant of an IQRouter.
RouterInv(rt) ==
  RouterCore(rt) /\ \A o \in Ports : Bounded(Len(rt.output_buffer[o]) + CrossingTo(rt, o))

\* What the assumptions say of the configuration.
LEMMA ConfigFacts ==
  ASSUME config \in Configs
  PROVE  /\ config.output_speedup \in Nat \ {0} /\ config.input_speedup \in Nat \ {0}
         /\ config.subnets \in Nat
         /\ config.hold_switch_for_packet => config.output_speedup = 1
         /\ Piggyback => config.output_speedup = 1 /\ config.speculative
         /\ config.speculative /\ ~config.spec_check_elig => config.output_speedup = 1
         /\ ~Piggyback => IsType(config.vc_allocator, NumPorts * NumVCs, NumPorts * NumVCs)
         /\ IsType(config.sw_allocator, NumPorts * config.input_speedup,
                   NumPorts * config.output_speedup)
         /\ SpecAllocator => IsType(config.spec_sw_allocator, NumPorts * config.input_speedup,
                                    NumPorts * config.output_speedup)
BY ConfigAssumption, Zenon DEF Piggyback, SpecAllocator

\* The sizes of a router are positive.
LEMMA Sizes ==
  ASSUME config \in Configs
  PROVE  /\ NumPorts \in Nat \ {0} /\ NumVCs \in Nat \ {0} /\ OutputBufferSize \in Nat \ {0}
         /\ NumPorts * NumVCs \in Nat \ {0} /\ NumPorts * config.input_speedup \in Nat \ {0}
         /\ NumPorts * config.output_speedup \in Nat \ {0}
<1>1. \A x, y \in Nat \ {0} : x * y \in Nat \ {0}
  BY SMTT(30)
<1> QED BY <1>1, ConfigFacts, RouterAssumption, BufferAssumption

\* Numbers with a part that is less than k.
LEMMA Parts ==
  ASSUME NEW n \in Nat \ {0}, NEW k \in Nat \ {0}, NEW p \in 0..(n - 1), NEW r \in 0..(k - 1)
  PROVE  /\ p * k + r \in 0..(n * k - 1)
         /\ (p * k + r) \div k = p /\ (p * k + r) % k = r
<1>1. p * k \in Nat /\ n * k \in Nat
  BY SMTT(30)
<1>2. p * k + k <= n * k
  <2>1. p + 1 <= n => (p + 1) * k <= n * k
    BY SMTT(30)
  <2>2. (p + 1) * k = p * k + k
    BY SMTT(30)
  <2> QED BY <2>1, <2>2
<1>3. (p * k + r) \div k = p /\ (p * k + r) % k = r
  BY <1>1, SMTT(60)
<1> QED BY <1>1, <1>2, <1>3

\* The expanded inputs and outputs.
LEMMA ExpandedInputIs ==
  ASSUME config \in Configs, NEW iv \in InVCs
  PROVE  /\ ExpandedInput(iv) \in 0..(NumPorts * config.input_speedup - 1)
         /\ ExpandedInput(iv) \in ExpandedInputs
         /\ ExpandedInput(iv) \div config.input_speedup = iv[1]
<1> DEFINE k == config.input_speedup
           r == iv[2] % k
           p == iv[1]
<1>1. k \in Nat \ {0} /\ NumPorts \in Nat \ {0}
  BY ConfigFacts, Sizes
<1>2. p \in 0..(NumPorts - 1) /\ iv[2] \in Nat
  BY BufferAssumption DEF InVCs, Ports, VCIds
<1> HIDE DEF k
<1>3. r \in 0..(k - 1)
  BY <1>1, <1>2
<1> HIDE DEF r, p
<1>4. p * k + r \in 0..(NumPorts * k - 1) /\ (p * k + r) \div k = p
  BY <1>1, <1>2, <1>3, Parts
<1> QED BY <1>4 DEF ExpandedInput, ExpandedInputs, k, r, p

\* An expanded output is one of those of its output port.
LEMMA ExpandedOutputIs ==
  ASSUME config \in Configs, NEW iv \in InVCs, NEW o \in Ports
  PROVE  /\ ExpandedOutput(iv, o) \in 0..(NumPorts * config.output_speedup - 1)
         /\ ExpandedOutput(iv, o) \div config.output_speedup = o
         /\ iv[1] % config.output_speedup \in 0..(config.output_speedup - 1)
         /\ config.output_speedup = 1 => ExpandedOutput(iv, o) = o
<1> DEFINE k == config.output_speedup
           r == iv[1] % k
<1>1. k \in Nat \ {0} /\ NumPorts \in Nat \ {0}
  BY ConfigFacts, Sizes
<1>2. iv[1] \in Nat /\ o \in 0..(NumPorts - 1)
  BY RouterAssumption DEF InVCs, Ports, VCIds
<1> HIDE DEF k
<1>3. r \in 0..(k - 1)
  BY <1>1, <1>2
<1>4. k = 1 => r = 0
  BY <1>3
<1> HIDE DEF r
<1>5. o * k + r \in 0..(NumPorts * k - 1) /\ (o * k + r) \div k = o
  BY <1>1, <1>2, <1>3, Parts
<1>6. k = 1 => o * k + r = o
  BY <1>2, <1>4
<1>7. ExpandedOutput(iv, o) = o * k + r
  BY DEF ExpandedOutput, k, r
<1> QED BY <1>3, <1>5, <1>6, <1>7 DEF k, r

\* The row of an input VC in the VC allocator is one of its rows.
LEMMA IndexedIs ==
  ASSUME config \in Configs, NEW iv \in InVCs
  PROVE  Indexed(iv) \in 0..(NumPorts * NumVCs - 1)
<1>1. NumPorts \in Nat \ {0} /\ NumVCs \in Nat \ {0}
  BY Sizes
<1>2. iv[1] \in 0..(NumPorts - 1) /\ iv[2] \in 0..(NumVCs - 1)
  BY DEF InVCs, Ports, VCIds
<1>3. /\ iv[1] * NumVCs + iv[2] \in 0..(NumPorts * NumVCs - 1)
      /\ iv[2] * NumPorts + iv[1] \in 0..(NumVCs * NumPorts - 1)
  BY <1>1, <1>2, Parts
<1>4. NumVCs * NumPorts = NumPorts * NumVCs
  BY <1>1, SMTT(30)
<1> QED BY <1>3, <1>4 DEF Indexed

\* What the routing functions offer at a router.
LEMMA OutsAre ==
  ASSUME NEW out \in Outs
  PROVE  out.port \in Ports /\ out.lo \in VCIds /\ out.hi \in VCIds /\ out.pri \in Int
<1>1. PICK name \in {c.routing_function : c \in Configs}, r \in RouterIds, in \in Ports, f \in Flit :
        out \in OutsOf(name, r, in, f)
  BY DEF Outs
<1>2. PICK res \in Route(name, r, in, f) : out \in res.outs
  BY <1>1 DEF OutsOf
<1> QED BY <1>2, RouteAssumption, Zenon DEF IsOutput
\* A flit just received has no outputs yet.
LEMMA NoOutputs == {} \in OutputSets
BY FS_EmptySet DEF OutputSets

\* The ports with an arrival, in their order, each once.
LEMMA PortsInList ==
  ASSUME NEW S
  PROVE  IsList(PortsIn(S), Ports) /\ (S \in SUBSET Ports => Range(PortsIn(S)) = S)
<1> DEFINE all == [k \in 1..NumPorts |-> k - 1]
<1>1. NumPorts \in Nat
  BY RouterAssumption
<1>2. IsList(all, Ports) /\ all \in Seq(Ports)
  BY <1>1 DEF IsList, Ports
<1>3. Range(all) = Ports
  <2>1. \A p \in Ports : p + 1 \in DOMAIN all /\ all[p + 1] = p
    BY <1>1 DEF Ports
  <2>2. \A k \in DOMAIN all : all[k] \in Ports
    BY <1>1 DEF Ports
  <2> HIDE DEF all
  <2> QED BY <2>1, <2>2 DEF Range
<1>4. PortsIn(S) = Selected(all, S)
  BY DEF PortsIn
<1> HIDE DEF all
<1>5. IsList(Selected(all, S), Ports)
  BY <1>2, SelectedList
<1>6. Range(Selected(all, S)) = Ports \intersect S
  BY <1>2, <1>3, SelectedRange
<1> QED BY <1>4, <1>5, <1>6

-----------------------------------------------------------------------------
\* Arrivals: _InputQueuing.

\* At most one flit arrives at a port.
AreArrivals(arrivals) ==
  DOMAIN arrivals \subseteq Ports /\ \A i \in DOMAIN arrivals : arrivals[i] \in SentFlit

\* The input VCs with an arrival, in the order of the ports, each once: one
\* flit arrives at a port.
LEMMA VCsOfList ==
  ASSUME NEW arrivals, AreArrivals(arrivals)
  PROVE  /\ IsList(VCsOf(arrivals), InVCs)
         /\ Range(VCsOf(arrivals)) = {<<i, arrivals[i].vc>> : i \in DOMAIN arrivals}
<1> DEFINE from == PortsIn(DOMAIN arrivals)
           list == [k \in DOMAIN from |-> <<from[k], arrivals[from[k]].vc>>]
<1>1. IsList(from, Ports) /\ Range(from) = DOMAIN arrivals
  BY PortsInList DEF AreArrivals
<1>2. VCsOf(arrivals) = list
  BY Zenon DEF VCsOf
<1> HIDE DEF from
<1>3. DOMAIN from = 1..Len(from) /\ Len(from) \in Nat
  BY <1>1 DEF IsList
<1>4. \A k \in DOMAIN from : from[k] \in DOMAIN arrivals
  BY <1>1 DEF Range
<1>5. \A i \in DOMAIN arrivals : arrivals[i].vc \in VCIds /\ i \in Ports
  BY DEF AreArrivals, SentFlit
<1>6. list \in Seq(InVCs)
  <2>1. \A k \in 1..Len(from) : <<from[k], arrivals[from[k]].vc>> \in InVCs
    BY <1>3, <1>4, <1>5 DEF InVCs
  <2> QED BY <2>1, <1>3
<1>7. \A j, k \in DOMAIN list : list[j] = list[k] => j = k
  BY <1>1 DEF IsList
<1>8. Range(list) = {<<i, arrivals[i].vc>> : i \in DOMAIN arrivals}
  BY <1>1 DEF Range
<1> QED BY <1>2, <1>6, <1>7, <1>8 DEF IsList

\* A flit put into an input VC: an idle one starts to route.
LEMMA FilledIs ==
  ASSUME NEW v \in VCRecord, NEW f \in Flit
  PROVE  /\ Filled(v, f) \in VCRecord /\ Filled(v, f).flits # <<>>
         /\ Filled(v, f).state = IF v.state = "idle" THEN "routing" ELSE v.state
         /\ Filled(v, f).route_set = v.route_set
         /\ Filled(v, f).out_port = v.out_port /\ Filled(v, f).out_vc = v.out_vc
<1> DEFINE q == Append(v.flits, f)
           st == IF v.state = "idle" THEN "routing" ELSE v.state
           w == [v EXCEPT !.flits = q, !.state = st]
<1>1. Filled(v, f) = w
  BY DEF Filled
<1>2. q \in Seq(Flit) /\ q # <<>>
  <2>1. v.flits \in Seq(Flit)
    BY DEF VCRecord
  <2> HIDE DEF VCRecord
  <2>2. q \in Seq(Flit) /\ Len(q) = Len(v.flits) + 1 /\ Len(v.flits) \in Nat
    BY <2>1
  <2>3. q # <<>>
    BY <2>2
  <2> QED BY <2>2, <2>3
<1>3. st \in {"idle", "routing", "vc_alloc", "active"}
  BY DEF VCRecord
<1> HIDE DEF q, st
<1>4. /\ w \in VCRecord /\ w.flits = q /\ w.state = st /\ w.route_set = v.route_set
      /\ w.out_port = v.out_port /\ w.out_vc = v.out_vc
  BY <1>2, <1>3 DEF VCRecord
<1> QED BY <1>1, <1>2, <1>4 DEF st

\* The input VCs after flits have come in at F, and those of F that are to be
\* routed, and that ask for the switch again.
FilledAt(b, F, new) == [iv \in InVCs |-> IF iv \in F THEN Filled(b[iv], new[iv[1]]) ELSE b[iv]]
\* Of the VCs a flit is put into, those that start to route it, and those that
\* ask for the switch again.
IdleIn(b, F) == {iv \in F : b[iv].state = "idle"}
EmptyIn(b, F) == {iv \in F : b[iv].state = "active" /\ b[iv].flits = <<>>}

\* The pipeline takes in the flits that arrive: an idle VC is put where the
\* routed ones are, an empty active one where those wait that want the switch,
\* and neither was there yet.
LEMMA QueuedPipeline ==
  ASSUME NEW b, NEW R, NEW V, NEW W, NEW H, Pipeline(b, R, V, W, H),
         NEW F \in SUBSET InVCs, NEW new, \A iv \in F : new[iv[1]] \in Flit
  PROVE  /\ Pipeline(FilledAt(b, F, new), R \union IdleIn(b, F), V, W \union EmptyIn(b, F), H)
         /\ R \intersect IdleIn(b, F) = {} /\ W \intersect EmptyIn(b, F) = {}
         /\ \A iv \in InVCs : FilledAt(b, F, new)[iv].out_port = b[iv].out_port
<1> DEFINE b2 == FilledAt(b, F, new)
           I == IdleIn(b, F)
           C == EmptyIn(b, F)
<1>1. /\ b \in [InVCs -> VCRecord]
      /\ R \subseteq InVCs /\ V \subseteq InVCs /\ W \subseteq InVCs /\ H \subseteq InVCs
      /\ \A iv \in InVCs : b[iv].state = "active" => b[iv].out_port \in Ports /\ b[iv].out_vc \in VCIds
      /\ \A iv \in R \union V \union W \union H : b[iv].flits # <<>>
      /\ \A iv \in R : b[iv].state = "routing"
      /\ \A iv \in V : b[iv].state = "vc_alloc"
      /\ \A iv \in InVCs : b[iv].state = "vc_alloc" => Piggyback \/ iv \in V
      /\ \A iv \in W : b[iv].state = "active" \/ (config.speculative /\ b[iv].state = "vc_alloc")
      /\ \A iv \in H : b[iv].state = "active"
      /\ W \intersect H = {}
      /\ Piggyback => V = {}
  BY DEF Pipeline
<1>2. ASSUME NEW iv \in InVCs
      PROVE  /\ b2[iv] \in VCRecord
             /\ b2[iv].out_port = b[iv].out_port /\ b2[iv].out_vc = b[iv].out_vc
             /\ iv \in F => b2[iv].flits # <<>>
             /\ iv \notin F => b2[iv].flits = b[iv].flits
             /\ b2[iv].state = IF iv \in F /\ b[iv].state = "idle" THEN "routing" ELSE b[iv].state
  <2>1. CASE iv \in F
    <3>1. b2[iv] = Filled(b[iv], new[iv[1]]) /\ b[iv] \in VCRecord /\ new[iv[1]] \in Flit
      BY <1>1, <2>1 DEF FilledAt
    <3> QED BY <2>1, <3>1, FilledIs
  <2>2. CASE iv \notin F
    <3>1. b2[iv] = b[iv]
      BY <2>2 DEF FilledAt
    <3> QED BY <1>1, <2>2, <3>1
  <2> QED BY <2>1, <2>2
<1>3. b2 \in [InVCs -> VCRecord]
  BY <1>2 DEF FilledAt
<1>4. /\ I \subseteq InVCs /\ C \subseteq InVCs /\ I \subseteq F /\ C \subseteq F
      /\ \A iv \in F : iv \in I <=> b[iv].state = "idle"
      /\ \A iv \in C : b[iv].state = "active" /\ b[iv].flits = <<>>
  BY DEF IdleIn, EmptyIn
<1> HIDE DEF b2, I, C
<1>5. \A iv \in R \union I \union V \union W \union C \union H : b2[iv].flits # <<>>
  BY <1>1, <1>2, <1>4
<1>6. R \intersect I = {}
  BY <1>1, <1>4
<1>7. W \intersect C = {} /\ C \intersect H = {}
  BY <1>1, <1>2, <1>4
<1>8. /\ \A iv \in R \union I : b2[iv].state = "routing"
      /\ \A iv \in V : b2[iv].state = "vc_alloc"
      /\ \A iv \in H : b2[iv].state = "active"
      /\ \A iv \in InVCs : b2[iv].state = "vc_alloc" => Piggyback \/ iv \in V
      /\ \A iv \in W \union C : b2[iv].state = "active" \/ (config.speculative /\ b2[iv].state = "vc_alloc")
      /\ \A iv \in InVCs : b2[iv].state = "active" => b2[iv].out_port \in Ports /\ b2[iv].out_vc \in VCIds
  BY <1>1, <1>2, <1>4
<1>9. Pipeline(b2, R \union I, V, W \union C, H)
  BY <1>1, <1>3, <1>4, <1>5, <1>7, <1>8 DEF Pipeline
<1> QED BY <1>2, <1>6, <1>7, <1>9 DEF b2, I, C

\* The switch is held as before when the holders keep their output ports.
LEMMA HoldingSame ==
  ASSUME NEW held, NEW b, NEW b2, NEW H, Holding(held, b, H),
         \A iv \in H : b2[iv].out_port = b[iv].out_port
  PROVE  Holding(held, b2, H)
BY DEF Holding

\* What InputQueuing leaves alone.
LEMMA QueuedFields ==
  ASSUME NEW rt, DOMAIN rt = RouterFields, NEW arrivals, NEW returned
  PROVE  LET q == InputQueuing(rt, arrivals, returned)
         IN /\ DOMAIN q = RouterFields
            /\ q.vc_alloc_vcs = rt.vc_alloc_vcs /\ q.sw_hold_vcs = rt.sw_hold_vcs
            /\ q.crossbar_flits = rt.crossbar_flits
            /\ q.vc_allocator = rt.vc_allocator /\ q.sw_allocator = rt.sw_allocator
            /\ q.spec_sw_allocator = rt.spec_sw_allocator
            /\ q.sw_rr_offset = rt.sw_rr_offset /\ q.vc_rr_offset = rt.vc_rr_offset
            /\ q.held = rt.held /\ q.output_buffer = rt.output_buffer
BY DEF InputQueuing, RouterFields

\* What _InputQueuing appends to the lists of the pipeline.
LEMMA QueuedLists ==
  ASSUME NEW rt, DOMAIN rt = RouterFields, NEW arrivals, NEW returned,
         NEW F, F = {<<i, arrivals[i].vc>> : i \in DOMAIN arrivals}
  PROVE  /\ InputQueuing(rt, arrivals, returned).route_vcs =
              rt.route_vcs \o Selected(VCsOf(arrivals), IdleIn(rt.buf, F))
         /\ InputQueuing(rt, arrivals, returned).sw_alloc_vcs =
              rt.sw_alloc_vcs \o Selected(VCsOf(arrivals), EmptyIn(rt.buf, F))
         /\ InputQueuing(rt, arrivals, returned).buf = FilledAt(rt.buf, F, arrivals)
<1> DEFINE filled == {<<i, arrivals[i].vc>> : i \in DOMAIN arrivals}
           buf == [iv \in InVCs |-> IF iv \in filled THEN Filled(rt.buf[iv], arrivals[iv[1]])
                                    ELSE rt.buf[iv]]
           nb == [o \in Ports |->
          IF o \in DOMAIN returned THEN ProcessCredit(rt.next_buf[o], returned[o].vcs) ELSE rt.next_buf[o]]
           list(T) == Selected(VCsOf(arrivals), T)
           idle == {iv \in filled : rt.buf[iv].state = "idle"}
           resumes == {iv \in filled : rt.buf[iv].state = "active" /\ rt.buf[iv].flits = <<>>}
           q == [rt EXCEPT !.buf = Evaluated(buf), !.route_vcs = @ \o list(idle),
                           !.sw_alloc_vcs = @ \o list(resumes), !.next_buf = Evaluated(nb)]
<1>1. InputQueuing(rt, arrivals, returned) = q
  BY Zenon DEF InputQueuing
<1>2. Evaluated(buf) = buf
  BY EvaluatedIs, Zenon
<1>4. F = filled
  OBVIOUS
<1>5. idle = IdleIn(rt.buf, F) /\ resumes = EmptyIn(rt.buf, F) /\ buf = FilledAt(rt.buf, F, arrivals)
  <2> HIDE DEF filled
  <2> QED BY <1>4, Zenon DEF IdleIn, EmptyIn, FilledAt
<1> HIDE DEF buf, nb, list, idle, resumes
<1>3. /\ q.route_vcs = rt.route_vcs \o list(idle) /\ q.buf = buf
      /\ q.sw_alloc_vcs = rt.sw_alloc_vcs \o list(resumes)
  BY <1>2 DEF RouterFields
<1> HIDE DEF q
<1> QED BY <1>1, <1>3, <1>5, Zenon DEF list

\* The flits that cross to an output are those in the crossbar.
LEMMA CrossingSame ==
  ASSUME NEW rt, NEW q, q.crossbar_flits = rt.crossbar_flits, NEW o
  PROVE  CrossingTo(q, o) = CrossingTo(rt, o)
BY Zenon DEF CrossingTo, Toward

\* _InputQueuing keeps the invariant of the router.
LEMMA QueuedKept ==
  ASSUME NEW rt, RouterInv(rt), NEW arrivals, AreArrivals(arrivals), NEW returned
  PROVE  RouterInv(InputQueuing(rt, arrivals, returned))
<1> DEFINE q == InputQueuing(rt, arrivals, returned)
           F == {<<i, arrivals[i].vc>> : i \in DOMAIN arrivals}
           I == IdleIn(rt.buf, F)
           C == EmptyIn(rt.buf, F)
           b2 == FilledAt(rt.buf, F, arrivals)
           R == Range(rt.route_vcs)
           V == Range(rt.vc_alloc_vcs)
           W == Range(rt.sw_alloc_vcs)
           H == Range(rt.sw_hold_vcs)
           list == VCsOf(arrivals)
<1>1. /\ DOMAIN rt = RouterFields /\ Lists(rt) /\ Staged(rt) /\ Outgoing(rt) /\ InTurn(rt)
      /\ AllocatorsReady(rt)
      /\ \A o \in Ports : Bounded(Len(rt.output_buffer[o]) + CrossingTo(rt, o))
  BY DEF RouterInv, RouterCore
<1>2. /\ DOMAIN q = RouterFields
      /\ q.vc_alloc_vcs = rt.vc_alloc_vcs /\ q.sw_hold_vcs = rt.sw_hold_vcs
      /\ q.crossbar_flits = rt.crossbar_flits
      /\ q.vc_allocator = rt.vc_allocator /\ q.sw_allocator = rt.sw_allocator
      /\ q.spec_sw_allocator = rt.spec_sw_allocator
      /\ q.sw_rr_offset = rt.sw_rr_offset /\ q.vc_rr_offset = rt.vc_rr_offset
      /\ q.held = rt.held /\ q.output_buffer = rt.output_buffer
  BY <1>1, QueuedFields, ZenonT(60)
<1>3. /\ q.route_vcs = rt.route_vcs \o Selected(list, I)
      /\ q.sw_alloc_vcs = rt.sw_alloc_vcs \o Selected(list, C)
      /\ q.buf = b2
  BY <1>1, QueuedLists, Zenon
<1> HIDE DEF q
<1>4. IsList(list, InVCs) /\ Range(list) = F
  BY VCsOfList, Zenon
<1>5. F \in SUBSET InVCs /\ \A iv \in F : arrivals[iv[1]] \in Flit
  BY DEF AreArrivals, SentFlit, InVCs
<1> HIDE DEF list, F
<1>6. /\ Pipeline(b2, R \union I, V, W \union C, H)
      /\ R \intersect I = {} /\ W \intersect C = {}
      /\ \A iv \in InVCs : b2[iv].out_port = rt.buf[iv].out_port
  <2>1. Pipeline(rt.buf, R, V, W, H)
    BY <1>1 DEF Staged
  <2> HIDE DEF R, V, W, H
  <2> QED BY <1>5, <2>1, QueuedPipeline
<1>7. I \in SUBSET Range(list) /\ C \in SUBSET Range(list)
  BY <1>4 DEF IdleIn, EmptyIn
<1> HIDE DEF I, C, b2
<1>8. /\ IsList(q.route_vcs, InVCs) /\ Range(q.route_vcs) = R \union I
      /\ IsList(q.sw_alloc_vcs, InVCs) /\ Range(q.sw_alloc_vcs) = W \union C
  <2>1. IsList(rt.route_vcs, InVCs) /\ IsList(rt.sw_alloc_vcs, InVCs)
    BY <1>1 DEF Lists
  <2>2. IsList(q.route_vcs, InVCs)
    BY <1>3, <1>4, <1>6, <1>7, <2>1, GoesOn
  <2>3. Range(q.route_vcs) = R \union I
    BY <1>3, <1>4, <1>6, <1>7, <2>1, GoesOn
  <2>4. IsList(q.sw_alloc_vcs, InVCs)
    BY <1>3, <1>4, <1>6, <1>7, <2>1, GoesOn
  <2>5. Range(q.sw_alloc_vcs) = W \union C
    BY <1>3, <1>4, <1>6, <1>7, <2>1, GoesOn
  <2> QED BY <2>2, <2>3, <2>4, <2>5
<1>9. Lists(q)
  BY <1>1, <1>2, <1>8 DEF Lists
<1>10. Staged(q)
  <2>1. Holding(rt.held, rt.buf, H) /\ H \subseteq InVCs
    BY <1>1 DEF Staged, Pipeline
  <2> HIDE DEF R, V, W, H
  <2>2. Holding(rt.held, b2, H)
    <3>1. \A iv \in H : b2[iv].out_port = rt.buf[iv].out_port
      BY <1>6, <2>1
    <3> QED BY <2>1, <3>1, HoldingSame, Zenon
  <2> QED BY <1>2, <1>3, <1>6, <1>8, <2>2, Zenon DEF Staged, V, H
<1>11. Outgoing(q) /\ InTurn(q) /\ AllocatorsReady(q)
  BY <1>1, <1>2, Zenon DEF Outgoing, InTurn, AllocatorsReady
<1>12. \A o \in Ports : Bounded(Len(q.output_buffer[o]) + CrossingTo(q, o))
  BY <1>1, <1>2, CrossingSame
<1> QED BY <1>2, <1>9, <1>10, <1>11, <1>12, Zenon DEF RouterInv, RouterCore, q

\* SwitchUpdate: only what has left the crossbar, and the crossbar, change.
LEMMA SwitchedFields ==
  ASSUME NEW rt, DOMAIN rt = RouterFields
  PROVE  LET q == SwitchUpdate(rt)
         IN /\ DOMAIN q = RouterFields /\ q.buf = rt.buf /\ q.next_buf = rt.next_buf
            /\ q.route_vcs = rt.route_vcs /\ q.vc_alloc_vcs = rt.vc_alloc_vcs
            /\ q.sw_alloc_vcs = rt.sw_alloc_vcs /\ q.sw_hold_vcs = rt.sw_hold_vcs
            /\ q.crossbar_flits = <<>> /\ q.held = rt.held
            /\ q.sw_rr_offset = rt.sw_rr_offset /\ q.vc_rr_offset = rt.vc_rr_offset
            /\ q.sw_allocator = rt.sw_allocator /\ q.vc_allocator = rt.vc_allocator
            /\ q.spec_sw_allocator = rt.spec_sw_allocator
BY DEF SwitchUpdate, RouterFields

-----------------------------------------------------------------------------
\* _SwitchUpdate and _RouteUpdate.

\* _SwitchUpdate appends to an output buffer the flits that crossed to it.
LEMMA SwitchedBuffers ==
  ASSUME NEW rt, "output_buffer" \in DOMAIN rt, "crossbar_flits" \in DOMAIN rt,
         NEW S, rt.crossbar_flits \in Seq(S), NEW o \in Ports,
         NEW T, rt.output_buffer[o] \in Seq(T), \A x \in S : x.f \in T
  PROVE  /\ DOMAIN SwitchUpdate(rt).output_buffer = Ports
         /\ SwitchUpdate(rt).output_buffer[o] \in Seq(T)
         /\ Len(SwitchUpdate(rt).output_buffer[o]) = Len(rt.output_buffer[o]) + CrossingTo(rt, o)
<1> DEFINE crossed(p) == Selected(rt.crossbar_flits, Toward(rt, p))
           arriving(list) == [i \in DOMAIN list |-> list[i].f]
           buffers == [p \in Ports |-> rt.output_buffer[p] \o arriving(crossed(p))]
           q == [rt EXCEPT !.output_buffer = Evaluated(buffers), !.crossbar_flits = <<>>]
<1>1. SwitchUpdate(rt) = q
  BY Zenon DEF SwitchUpdate
<1>2. Evaluated(buffers) = buffers
  BY EvaluatedIs, Zenon
<1>3. DOMAIN buffers = Ports /\ buffers[o] = rt.output_buffer[o] \o arriving(crossed(o))
  BY Zenon
<1> HIDE DEF buffers
<1>4. q.output_buffer = buffers
  BY <1>2
<1> DEFINE list == crossed(o)
<1>5. list \in Seq(S) /\ Len(list) = CrossingTo(rt, o)
  BY SelectedTyped DEF CrossingTo
<1> HIDE DEF crossed, list, q
<1>6. arriving(list) \in Seq(T) /\ Len(arriving(list)) = Len(list)
  <2>1. DOMAIN list = 1..Len(list) /\ Len(list) \in Nat /\ \A i \in 1..Len(list) : list[i] \in S
    BY <1>5
  <2> QED BY <2>1
<1> HIDE DEF arriving
<1>7. /\ rt.output_buffer[o] \o arriving(list) \in Seq(T)
      /\ Len(rt.output_buffer[o] \o arriving(list)) = Len(rt.output_buffer[o]) + Len(arriving(list))
  <2> DEFINE x == rt.output_buffer[o]
             y == arriving(list)
  <2>1. x \in Seq(T) /\ y \in Seq(T)
    BY <1>6
  <2> HIDE DEF x, y
  <2>2. x \o y \in Seq(T) /\ Len(x \o y) = Len(x) + Len(y)
    BY <2>1
  <2> QED BY <2>2 DEF x, y
<1> QED BY <1>1, <1>3, <1>4, <1>5, <1>6, <1>7 DEF list

-----------------------------------------------------------------------------
\* RouteUpdate: routed heads wait for an output VC.
IsRouted(routed, R) ==
  DOMAIN routed = R /\ \A iv \in R : routed[iv].f \in Flit /\ routed[iv].outs \in OutputSets

\* The input VCs after _RouteUpdate.
RoutedAt(b, routed) ==
  [iv \in InVCs |-> IF iv \in DOMAIN routed THEN WithRoute(b[iv], routed[iv]) ELSE b[iv]]

\* What _RouteUpdate changes.
LEMMA RoutedFields ==
  ASSUME NEW rt, DOMAIN rt = RouterFields, NEW routed
  PROVE  LET q == RouteUpdate(rt, routed)
         IN /\ DOMAIN q = RouterFields /\ q.buf = RoutedAt(rt.buf, routed)
            /\ q.next_buf = rt.next_buf
            /\ q.route_vcs = <<>>
            /\ q.vc_alloc_vcs = IF Piggyback THEN rt.vc_alloc_vcs ELSE rt.vc_alloc_vcs \o rt.route_vcs
            /\ q.sw_alloc_vcs = IF config.speculative THEN rt.sw_alloc_vcs \o rt.route_vcs
                                ELSE rt.sw_alloc_vcs
            /\ q.sw_hold_vcs = rt.sw_hold_vcs
            /\ q.crossbar_flits = rt.crossbar_flits /\ q.held = rt.held
            /\ q.output_buffer = rt.output_buffer
            /\ q.sw_rr_offset = rt.sw_rr_offset /\ q.vc_rr_offset = rt.vc_rr_offset
            /\ q.sw_allocator = rt.sw_allocator /\ q.vc_allocator = rt.vc_allocator
            /\ q.spec_sw_allocator = rt.spec_sw_allocator
<1> DEFINE buf == [iv \in InVCs |->
                       IF iv \in DOMAIN routed THEN WithRoute(rt.buf[iv], routed[iv])
                       ELSE rt.buf[iv]]
           q == [rt EXCEPT
                  !.buf = Evaluated(buf),
                  !.sw_alloc_vcs = IF config.speculative THEN @ \o rt.route_vcs ELSE @,
                  !.vc_alloc_vcs = IF Piggyback THEN @ ELSE @ \o rt.route_vcs,
                  !.route_vcs = <<>>]
<1>1. RouteUpdate(rt, routed) = q
  BY Zenon DEF RouteUpdate
<1>0. buf = RoutedAt(rt.buf, routed)
  BY Zenon DEF RoutedAt
<1>2. Evaluated(buf) = buf
  BY EvaluatedIs, Zenon
<1> HIDE DEF buf
<1>3. /\ DOMAIN q = RouterFields /\ q.buf = buf /\ q.next_buf = rt.next_buf
      /\ q.route_vcs = <<>>
      /\ q.vc_alloc_vcs = IF Piggyback THEN rt.vc_alloc_vcs ELSE rt.vc_alloc_vcs \o rt.route_vcs
      /\ q.sw_alloc_vcs = IF config.speculative THEN rt.sw_alloc_vcs \o rt.route_vcs
                          ELSE rt.sw_alloc_vcs
      /\ q.sw_hold_vcs = rt.sw_hold_vcs
      /\ q.crossbar_flits = rt.crossbar_flits /\ q.held = rt.held
      /\ q.output_buffer = rt.output_buffer
      /\ q.sw_rr_offset = rt.sw_rr_offset /\ q.vc_rr_offset = rt.vc_rr_offset
      /\ q.sw_allocator = rt.sw_allocator /\ q.vc_allocator = rt.vc_allocator
      /\ q.spec_sw_allocator = rt.spec_sw_allocator
  BY <1>2 DEF RouterFields
<1> HIDE DEF q
<1> QED BY <1>0, <1>1, <1>3, Zenon

\* _RouteUpdate moves every routed VC on: to the VC allocation unless it is
\* piggybacked, to the switch allocation too when that speculates.
LEMMA RoutedPipeline ==
  ASSUME NEW b, NEW R, NEW V, NEW W, NEW H, Pipeline(b, R, V, W, H),
         NEW routed, IsRouted(routed, R)
  PROVE  /\ Pipeline(RoutedAt(b, routed), {}, V \union (IF Piggyback THEN {} ELSE R),
                     W \union (IF config.speculative THEN R ELSE {}), H)
         /\ R \intersect V = {} /\ R \intersect W = {} /\ R \intersect H = {}
         /\ \A iv \in InVCs \ R : RoutedAt(b, routed)[iv] = b[iv]
<1> DEFINE c == RoutedAt(b, routed)
           V2 == V \union (IF Piggyback THEN {} ELSE R)
           W2 == W \union (IF config.speculative THEN R ELSE {})
<1>1. /\ b \in [InVCs -> VCRecord]
      /\ R \subseteq InVCs /\ V \subseteq InVCs /\ W \subseteq InVCs /\ H \subseteq InVCs
      /\ \A iv \in InVCs : b[iv].state = "active" => b[iv].out_port \in Ports /\ b[iv].out_vc \in VCIds
      /\ \A iv \in R \union V \union W \union H : b[iv].flits # <<>>
      /\ \A iv \in R : b[iv].state = "routing"
      /\ \A iv \in V : b[iv].state = "vc_alloc"
      /\ \A iv \in InVCs : b[iv].state = "vc_alloc" => Piggyback \/ iv \in V
      /\ \A iv \in W : b[iv].state = "active" \/ (config.speculative /\ b[iv].state = "vc_alloc")
      /\ \A iv \in H : b[iv].state = "active"
      /\ W \intersect H = {}
      /\ Piggyback => V = {}
  BY DEF Pipeline
<1>2. ASSUME NEW iv \in R
      PROVE  c[iv] \in VCRecord /\ c[iv].state = "vc_alloc" /\ c[iv].flits # <<>>
  <2> DEFINE v == b[iv]
             fs == <<routed[iv].f>> \o Tail(v.flits)
             w == [v EXCEPT !.state = "vc_alloc", !.route_set = routed[iv].outs, !.flits = fs]
  <2>1. c[iv] = w
    BY <1>1 DEF RoutedAt, IsRouted, WithRoute
  <2>2. v \in VCRecord /\ v.flits \in Seq(Flit) /\ v.flits # <<>>
    BY <1>1 DEF VCRecord
  <2>3. routed[iv].f \in Flit /\ routed[iv].outs \in OutputSets
    BY DEF IsRouted
  <2> HIDE DEF v
  <2>4. fs \in Seq(Flit) /\ fs # <<>>
    <3> DEFINE t == Tail(v.flits)
               h == routed[iv].f
    <3>1. t \in Seq(Flit)
      BY <2>2
    <3> HIDE DEF t, h
    <3>2. <<h>> \o t \in Seq(Flit) /\ Len(<<h>> \o t) = 1 + Len(t) /\ Len(t) \in Nat
      BY <2>3, <3>1 DEF h
    <3>3. <<h>> \o t # <<>>
      BY <3>2
    <3> QED BY <3>2, <3>3 DEF t, h
  <2> HIDE DEF fs
  <2>5. w \in VCRecord /\ w.state = "vc_alloc" /\ w.flits = fs
    BY <2>2, <2>3, <2>4 DEF VCRecord
  <2> QED BY <2>1, <2>4, <2>5
<1>3. \A iv \in InVCs \ R : c[iv] = b[iv]
  BY DEF RoutedAt, IsRouted
<1>4. c \in [InVCs -> VCRecord]
  <2>1. c = [iv \in InVCs |-> c[iv]]
    BY DEF RoutedAt
  <2> HIDE DEF c
  <2>2. \A iv \in InVCs : c[iv] \in VCRecord
    BY <1>1, <1>2, <1>3
  <2> QED BY <2>1, <2>2
<1> HIDE DEF c
<1>5. R \intersect V = {} /\ R \intersect W = {} /\ R \intersect H = {}
  BY <1>1
<1>6. V2 \subseteq InVCs /\ W2 \subseteq InVCs
  BY <1>1
<1>7. \A iv \in V2 : c[iv].state = "vc_alloc" /\ c[iv].flits # <<>>
  BY <1>1, <1>2, <1>3, <1>5
<1>8. \A iv \in W2 : /\ c[iv].state = "active" \/ (config.speculative /\ c[iv].state = "vc_alloc")
                     /\ c[iv].flits # <<>>
  BY <1>1, <1>2, <1>3, <1>5
<1>9. \A iv \in H : c[iv].state = "active" /\ c[iv].flits # <<>>
  BY <1>1, <1>2, <1>3, <1>5
<1>10. \A iv \in InVCs : c[iv].state = "vc_alloc" => Piggyback \/ iv \in V2
  BY <1>1, <1>2, <1>3
<1>11. \A iv \in InVCs : c[iv].state = "active" => c[iv].out_port \in Ports /\ c[iv].out_vc \in VCIds
  BY <1>1, <1>2, <1>3
<1>12. W2 \intersect H = {} /\ (Piggyback => V2 = {})
  BY <1>1, <1>5
<1> HIDE DEF V2, W2
<1>13. Pipeline(c, {}, V2, W2, H)
  BY <1>1, <1>4, <1>6, <1>7, <1>8, <1>9, <1>10, <1>11, <1>12 DEF Pipeline
<1> QED BY <1>3, <1>5, <1>13 DEF c, V2, W2

\* The input VCs of won with their output VCs.
TakenAt(b, won, port, vc) ==
  [iv \in InVCs |-> IF iv \in won THEN [b[iv] EXCEPT !.state = "active", !.route_set = {},
                                                     !.out_port = port[iv], !.out_vc = vc[iv]]
                    ELSE b[iv]]

\* What taking output VCs changes.
LEMMA TakenFields ==
  ASSUME NEW rt, DOMAIN rt = RouterFields, NEW won, NEW port, NEW vc,
         NEW q, q = TakeOutputs(rt, won, port, vc)
  PROVE     /\ DOMAIN q = RouterFields /\ q.buf = TakenAt(rt.buf, won, port, vc)
            /\ q.route_vcs = rt.route_vcs /\ q.vc_alloc_vcs = rt.vc_alloc_vcs
            /\ q.sw_alloc_vcs = rt.sw_alloc_vcs /\ q.sw_hold_vcs = rt.sw_hold_vcs
            /\ q.crossbar_flits = rt.crossbar_flits /\ q.held = rt.held
            /\ q.output_buffer = rt.output_buffer
            /\ q.sw_rr_offset = rt.sw_rr_offset /\ q.vc_rr_offset = rt.vc_rr_offset
            /\ q.sw_allocator = rt.sw_allocator /\ q.vc_allocator = rt.vc_allocator
            /\ q.spec_sw_allocator = rt.spec_sw_allocator
<1> DEFINE to(o) == {iv \in won : port[iv] = o}
           tags(o) == [v \in {vc[iv] : iv \in to(o)} |->
                         LET iv == CHOOSE jv \in to(o) : vc[jv] = v IN iv[1] * NumVCs + iv[2]]
           buf == [iv \in InVCs |->
                     IF iv \in won THEN [rt.buf[iv] EXCEPT !.state = "active", !.route_set = {},
                                                           !.out_port = port[iv], !.out_vc = vc[iv]]
                     ELSE rt.buf[iv]]
           nb == [o \in Ports |-> IF to(o) = {} THEN rt.next_buf[o] ELSE TakeBuffer(rt.next_buf[o], tags(o))]
           s == [rt EXCEPT !.buf = Evaluated(buf), !.next_buf = Evaluated(nb)]
<1>1. TakeOutputs(rt, won, port, vc) = s
  BY Zenon DEF TakeOutputs
<1>2. Evaluated(buf) = buf
  BY EvaluatedIs, Zenon
<1>3. buf = TakenAt(rt.buf, won, port, vc)
  BY Zenon DEF TakenAt
<1> HIDE DEF buf, nb
<1>4. /\ DOMAIN s = RouterFields /\ s.buf = buf
      /\ s.route_vcs = rt.route_vcs /\ s.vc_alloc_vcs = rt.vc_alloc_vcs
      /\ s.sw_alloc_vcs = rt.sw_alloc_vcs /\ s.sw_hold_vcs = rt.sw_hold_vcs
      /\ s.crossbar_flits = rt.crossbar_flits /\ s.held = rt.held
      /\ s.output_buffer = rt.output_buffer
      /\ s.sw_rr_offset = rt.sw_rr_offset /\ s.vc_rr_offset = rt.vc_rr_offset
      /\ s.sw_allocator = rt.sw_allocator /\ s.vc_allocator = rt.vc_allocator
      /\ s.spec_sw_allocator = rt.spec_sw_allocator
  BY <1>2 DEF RouterFields
<1> HIDE DEF s
<1> QED BY <1>1, <1>3, <1>4, Zenon

\* What is known of the VCs of the pipeline.
LEMMA PipelineIs ==
  ASSUME NEW b, NEW R, NEW V, NEW W, NEW H, Pipeline(b, R, V, W, H)
  PROVE  /\ b \in [InVCs -> VCRecord]
         /\ R \subseteq InVCs /\ V \subseteq InVCs /\ W \subseteq InVCs /\ H \subseteq InVCs
         /\ \A iv \in InVCs : b[iv].state = "active" => b[iv].out_port \in Ports /\ b[iv].out_vc \in VCIds
         /\ \A iv \in R \union V \union W \union H : b[iv].flits # <<>>
         /\ \A iv \in R : b[iv].state = "routing"
         /\ \A iv \in V : b[iv].state = "vc_alloc"
         /\ \A iv \in InVCs : b[iv].state = "vc_alloc" => Piggyback \/ iv \in V
         /\ \A iv \in W : b[iv].state = "active" \/ (config.speculative /\ b[iv].state = "vc_alloc")
         /\ \A iv \in H : b[iv].state = "active"
         /\ W \intersect H = {}
         /\ Piggyback => V = {}
         /\ R \intersect V = {} /\ R \intersect W = {} /\ R \intersect H = {} /\ V \intersect H = {}
<1>1. /\ b \in [InVCs -> VCRecord]
      /\ R \subseteq InVCs /\ V \subseteq InVCs /\ W \subseteq InVCs /\ H \subseteq InVCs
      /\ \A iv \in InVCs : b[iv].state = "active" => b[iv].out_port \in Ports /\ b[iv].out_vc \in VCIds
      /\ \A iv \in R \union V \union W \union H : b[iv].flits # <<>>
      /\ \A iv \in R : b[iv].state = "routing"
      /\ \A iv \in V : b[iv].state = "vc_alloc"
      /\ \A iv \in InVCs : b[iv].state = "vc_alloc" => Piggyback \/ iv \in V
      /\ \A iv \in W : b[iv].state = "active" \/ (config.speculative /\ b[iv].state = "vc_alloc")
      /\ \A iv \in H : b[iv].state = "active"
      /\ W \intersect H = {}
      /\ Piggyback => V = {}
  BY DEF Pipeline
<1>2. R \intersect V = {} /\ R \intersect W = {} /\ R \intersect H = {} /\ V \intersect H = {}
  BY <1>1
<1> QED BY <1>1, <1>2

\* VCs that get their outputs no longer wait for them.
LEMMA TakenPipeline ==
  ASSUME NEW b, NEW R, NEW V, NEW W, NEW H, Pipeline(b, R, V, W, H),
         NEW won \in SUBSET InVCs, NEW port, NEW vc,
         \A iv \in won : /\ b[iv].state = "vc_alloc" /\ b[iv].flits # <<>>
                         /\ port[iv] \in Ports /\ vc[iv] \in VCIds
  PROVE  /\ Pipeline(TakenAt(b, won, port, vc), R, V \ won, W, H)
         /\ \A iv \in InVCs : /\ TakenAt(b, won, port, vc)[iv].flits = b[iv].flits
                              /\ iv \notin won => TakenAt(b, won, port, vc)[iv] = b[iv]
                              /\ iv \in won => /\ TakenAt(b, won, port, vc)[iv].state = "active"
                                               /\ TakenAt(b, won, port, vc)[iv].out_port = port[iv]
<1> DEFINE c == TakenAt(b, won, port, vc)
<1>1. /\ b \in [InVCs -> VCRecord]
      /\ R \subseteq InVCs /\ V \subseteq InVCs /\ W \subseteq InVCs /\ H \subseteq InVCs
      /\ \A iv \in InVCs : b[iv].state = "active" => b[iv].out_port \in Ports /\ b[iv].out_vc \in VCIds
      /\ \A iv \in R \union V \union W \union H : b[iv].flits # <<>>
      /\ \A iv \in R : b[iv].state = "routing"
      /\ \A iv \in V : b[iv].state = "vc_alloc"
      /\ \A iv \in InVCs : b[iv].state = "vc_alloc" => Piggyback \/ iv \in V
      /\ \A iv \in W : b[iv].state = "active" \/ (config.speculative /\ b[iv].state = "vc_alloc")
      /\ \A iv \in H : b[iv].state = "active"
      /\ W \intersect H = {}
      /\ Piggyback => V = {}
      /\ R \intersect V = {} /\ R \intersect W = {} /\ R \intersect H = {} /\ V \intersect H = {}
  BY PipelineIs
<1>2. ASSUME NEW iv \in won
      PROVE  /\ c[iv] \in VCRecord /\ c[iv].state = "active" /\ c[iv].flits = b[iv].flits
             /\ c[iv].out_port = port[iv] /\ c[iv].out_vc = vc[iv]
  <2> DEFINE v == b[iv]
             p == port[iv]
             u == vc[iv]
             w == [v EXCEPT !.state = "active", !.route_set = {}, !.out_port = p, !.out_vc = u]
  <2>1. c[iv] = w
    BY <1>1 DEF TakenAt
  <2>2. v \in VCRecord /\ p \in Ports /\ u \in VCIds
    BY <1>1
  <2> HIDE DEF v, p, u
  <2>3. w \in VCRecord /\ w.state = "active" /\ w.flits = v.flits /\ w.out_port = p /\ w.out_vc = u
    BY <2>2, NoOutputs DEF VCRecord
  <2> QED BY <2>1, <2>3 DEF v, p, u
<1>3. \A iv \in InVCs \ won : c[iv] = b[iv]
  BY DEF TakenAt
<1>4. c \in [InVCs -> VCRecord]
  <2>1. c = [iv \in InVCs |-> c[iv]]
    BY DEF TakenAt
  <2> HIDE DEF c
  <2>2. \A iv \in InVCs : c[iv] \in VCRecord
    BY <1>1, <1>2, <1>3
  <2> QED BY <2>1, <2>2
<1> HIDE DEF c
<1>5. /\ \A iv \in InVCs : c[iv].flits = b[iv].flits
      /\ \A iv \in InVCs : c[iv].state = IF iv \in won THEN "active" ELSE b[iv].state
  BY <1>2, <1>3
<1>6. \A iv \in InVCs : c[iv].state = "active" => c[iv].out_port \in Ports /\ c[iv].out_vc \in VCIds
  BY <1>1, <1>2, <1>3
<1>7. /\ \A iv \in R \union (V \ won) \union W \union H : c[iv].flits # <<>>
      /\ \A iv \in R : c[iv].state = "routing"
      /\ \A iv \in V \ won : c[iv].state = "vc_alloc"
      /\ \A iv \in H : c[iv].state = "active"
      /\ \A iv \in W : c[iv].state = "active" \/ (config.speculative /\ c[iv].state = "vc_alloc")
  BY <1>1, <1>5
<1>8. \A iv \in InVCs : c[iv].state = "vc_alloc" => Piggyback \/ iv \in V \ won
  BY <1>1, <1>5
<1>9. Pipeline(c, R, V \ won, W, H)
  BY <1>1, <1>4, <1>6, <1>7, <1>8 DEF Pipeline
<1> QED BY <1>2, <1>3, <1>5, <1>9 DEF c

\* An input VC that takes an output VC is active, toward that port.
LEMMA TakenAs ==
  ASSUME NEW b, b \in [InVCs -> VCRecord], NEW won \in SUBSET InVCs, NEW port, NEW vc, NEW iv \in InVCs
  PROVE  /\ TakenAt(b, won, port, vc)[iv].flits = b[iv].flits
         /\ iv \notin won => TakenAt(b, won, port, vc)[iv] = b[iv]
         /\ iv \in won => /\ TakenAt(b, won, port, vc)[iv].state = "active"
                          /\ TakenAt(b, won, port, vc)[iv].out_port = port[iv]
<1> DEFINE v == b[iv]
           w == [v EXCEPT !.state = "active", !.route_set = {}, !.out_port = port[iv],
                          !.out_vc = vc[iv]]
<1>1. TakenAt(b, won, port, vc)[iv] = IF iv \in won THEN w ELSE v
  BY DEF TakenAt
<1>2. v \in VCRecord
  OBVIOUS
<1> HIDE DEF v
<1>3. w.flits = v.flits /\ w.state = "active" /\ w.out_port = port[iv]
  BY <1>2 DEF VCRecord
<1> QED BY <1>1, <1>3 DEF v

\* More that wait for the switch, or hold it.
LEMMA PipelineMore ==
  ASSUME NEW b, NEW R, NEW V, NEW W, NEW H, Pipeline(b, R, V, W, H),
         NEW T \in SUBSET InVCs, \A iv \in T : b[iv].state = "active" /\ b[iv].flits # <<>>
  PROVE  /\ T \intersect H = {} => Pipeline(b, R, V, W \union T, H)
         /\ T \intersect W = {} => Pipeline(b, R, V, W, H \union T)
BY DEF Pipeline

\* What VCs of the pipeline ask for: an input, and an output and its VC.
LEMMA VCRequestsAre ==
  ASSUME config \in Configs, NEW rt, RouterCore(rt)
  PROVE  /\ AreRequests(VCRequests(rt), NumPorts * NumVCs, NumPorts * NumVCs)
         /\ VCRequests(rt) = [r \in DOMAIN VCRequests(rt) |-> VCRequests(rt)[r]]
         /\ \A r \in DOMAIN VCRequests(rt) :
              r[2] \div NumVCs \in Ports /\ r[2] % NumVCs \in VCIds
<1> DEFINE
      usable(out) == {vc \in out.lo..out.hi :
                        /\ IsAvailableFor(rt.next_buf[out.port], vc)
                        /\ config.vc_busy_when_full => ~IsFullFor(rt.next_buf[out.port], vc)}
      asked(iv, out) == {Indexed(iv)} \X {out.port * NumVCs + vc : vc \in usable(out)}
      asks == UNION {{[out |-> out, for |-> asked(iv, out)] : out \in rt.buf[iv].route_set} :
                     iv \in Range(rt.vc_alloc_vcs)}
      chosen(r) == CHOOSE ask \in asks : r \in ask.for
      pri(r) == LET out == (CHOOSE ask \in asks : r \in ask.for).out
                IN VCPriority(rt.next_buf[out.port], out, r[2] % NumVCs)
      D == UNION {ask.for : ask \in asks}
      req == [r \in D |-> [in_pri |-> pri(r), out_pri |-> 0]]
<1>1. VCRequests(rt) = Evaluated(req)
  BY Zenon DEF VCRequests
<1>2. Evaluated(req) = req
  BY EvaluatedIs, Zenon
<1>3. \A iv \in Range(rt.vc_alloc_vcs) : iv \in InVCs /\ rt.buf[iv] \in VCRecord
  BY PipelineIs DEF RouterCore, Staged
<1>4. \A iv \in Range(rt.vc_alloc_vcs) : rt.buf[iv].route_set \subseteq Outs
  BY <1>3 DEF VCRecord, OutputSets
<1>5. ASSUME NEW ask \in asks
      PROVE  /\ ask.out \in Outs
             /\ \A r \in ask.for : \E iv \in InVCs, vc \in VCIds :
                  r = <<Indexed(iv), ask.out.port * NumVCs + vc>>
  <2>1. PICK iv \in Range(rt.vc_alloc_vcs) :
          ask \in {[out |-> out, for |-> asked(iv, out)] : out \in rt.buf[iv].route_set}
    BY Zenon
  <2>2. PICK out \in rt.buf[iv].route_set : ask = [out |-> out, for |-> asked(iv, out)]
    BY <2>1, Zenon
  <2>3. iv \in InVCs /\ out \in Outs
    BY <1>3, <1>4
  <2>4. usable(out) \subseteq VCIds
    <3>1. out.lo \in VCIds /\ out.hi \in VCIds
      BY <2>3, OutsAre
    <3>2. \A vc \in out.lo..out.hi : vc \in VCIds
      BY <3>1, BufferAssumption DEF VCIds
    <3>3. usable(out) \subseteq out.lo..out.hi
      BY Zenon
    <3> QED BY <3>2, <3>3, Zenon
  <2>5. ask.out = out /\ ask.for = asked(iv, out)
    BY <2>2, Zenon
  <2> HIDE DEF usable, asks
  <2>6. \A r \in asked(iv, out) : \E vc \in VCIds : r = <<Indexed(iv), out.port * NumVCs + vc>>
    BY <2>4
  <2> QED BY <2>3, <2>5, <2>6
<1> HIDE DEF asks
<1>6. ASSUME NEW r \in D
      PROVE  /\ \E iv \in InVCs, vc \in VCIds, p \in Ports : r = <<Indexed(iv), p * NumVCs + vc>>
             /\ pri(r) \in Int
  <2>1. PICK ask \in asks : r \in ask.for
    BY Zenon
  <2>2. chosen(r) \in asks /\ r \in chosen(r).for
    BY <2>1, Zenon
  <2>3. PICK iv \in InVCs, vc \in VCIds : r = <<Indexed(iv), ask.out.port * NumVCs + vc>>
    BY <1>5, <2>1
  <2>4. ask.out.port \in Ports
    BY <1>5, OutsAre
  <2>5. chosen(r).out.pri \in Int
    BY <1>5, <2>2, OutsAre
  <2>6. pri(r) = VCPriority(rt.next_buf[chosen(r).out.port], chosen(r).out, r[2] % NumVCs)
    BY Zenon
  <2> HIDE DEF chosen, pri
  <2>7. VCPriority(rt.next_buf[chosen(r).out.port], chosen(r).out, r[2] % NumVCs) \in Int
    BY <2>5 DEF VCPriority, Least
  <2> QED BY <2>3, <2>4, <2>6, <2>7
<1>7. req = [r \in DOMAIN req |-> req[r]] /\ DOMAIN req = D
  BY Zenon
<1>8. \A r \in D : req[r].in_pri = pri(r) /\ req[r].out_pri = 0
  OBVIOUS
<1> HIDE DEF D, pri, req
<1>9. ASSUME NEW r \in D
      PROVE  /\ r \in (0..(NumPorts * NumVCs - 1)) \X (0..(NumPorts * NumVCs - 1))
             /\ r[2] \div NumVCs \in Ports /\ r[2] % NumVCs \in VCIds
  <2>1. PICK iv \in InVCs, vc \in VCIds, p \in Ports : r = <<Indexed(iv), p * NumVCs + vc>>
    BY <1>6
  <2>2. Indexed(iv) \in 0..(NumPorts * NumVCs - 1)
    BY IndexedIs
  <2> DEFINE o == p * NumVCs + vc
  <2>3. o \in 0..(NumPorts * NumVCs - 1) /\ o \div NumVCs = p /\ o % NumVCs = vc
    <3>1. NumPorts \in Nat \ {0} /\ NumVCs \in Nat \ {0}
      BY Sizes
    <3>2. p \in 0..(NumPorts - 1) /\ vc \in 0..(NumVCs - 1)
      BY DEF Ports, VCIds
    <3> QED BY <3>1, <3>2, Parts
  <2> HIDE DEF o
  <2>4. r = <<Indexed(iv), o>>
    BY <2>1 DEF o
  <2> QED BY <2>2, <2>3, <2>4
<1>10. AreRequests(req, NumPorts * NumVCs, NumPorts * NumVCs)
  BY <1>6, <1>7, <1>8, <1>9 DEF AreRequests
<1> QED BY <1>1, <1>2, <1>7, <1>9, <1>10

\* The winners have an output VC each of those they asked for.
LEMMA VCAllocated ==
  ASSUME config \in Configs, NEW rt, RouterCore(rt), ~Piggyback
  PROVE  /\ IsAllocator(VCAllocate(rt), config.vc_allocator, NumPorts * NumVCs, NumPorts * NumVCs)
         /\ \A i \in DOMAIN VCAllocate(rt).inmatch :
              /\ VCAllocate(rt).inmatch[i] \div NumVCs \in Ports
              /\ VCAllocate(rt).inmatch[i] % NumVCs \in VCIds
<1> DEFINE a == rt.vc_allocator
           n == NumPorts * NumVCs
           requests == VCRequests(rt)
<1>1. IsReady(a) /\ IsAllocator(a, config.vc_allocator, n, n)
  BY DEF RouterCore, AllocatorsReady
<1>2. IsType(config.vc_allocator, n, n)
  BY ConfigFacts
<1>3. n \in Nat \ {0}
  BY Sizes
<1>4. /\ AreRequests(requests, n, n) /\ requests = [r \in DOMAIN requests |-> requests[r]]
      /\ \A r \in DOMAIN requests : r[2] \div NumVCs \in Ports /\ r[2] % NumVCs \in VCIds
  BY VCRequestsAre
<1> HIDE DEF requests, n, a
<1>5. a.inmatch = <<>> /\ a.outmatch = <<>>
  BY <1>1 DEF IsReady
<1>6. /\ IsAllocator(Allocate(a, requests), config.vc_allocator, n, n)
      /\ Matching(Allocate(a, requests), DOMAIN requests)
  <2>1. IsAllocator(Allocate(a, requests), config.vc_allocator, n, n)
    BY <1>1, <1>2, <1>3, <1>4, <1>5, AllocateMatches, Zenon
  <2>2. Matching(Allocate(a, requests), DOMAIN requests)
    BY <1>1, <1>2, <1>3, <1>4, <1>5, AllocateMatches, Zenon
  <2> QED BY <2>1, <2>2
<1>7. \A i \in DOMAIN Allocate(a, requests).inmatch :
        <<i, Allocate(a, requests).inmatch[i]>> \in DOMAIN requests
  BY <1>6, Zenon DEF Matching
<1>8. \A i \in DOMAIN Allocate(a, requests).inmatch :
        /\ Allocate(a, requests).inmatch[i] \div NumVCs \in Ports
        /\ Allocate(a, requests).inmatch[i] % NumVCs \in VCIds
  BY <1>4, <1>7
<1>9. CASE rt.vc_alloc_vcs = <<>>
  <2>1. VCAllocate(rt) = a
    BY <1>9 DEF VCAllocate, a
  <2>2. DOMAIN a.inmatch = {}
    BY <1>5
  <2> QED BY <1>1, <2>1, <2>2 DEF n
<1>10. CASE rt.vc_alloc_vcs # <<>>
  <2>1. VCAllocate(rt) = Allocate(a, requests)
    BY <1>10 DEF VCAllocate, a, requests
  <2> QED BY <1>6, <1>8, <2>1 DEF n
<1> QED BY <1>9, <1>10

\* A cleared allocator has matched nothing.
LEMMA ReadyIs ==
  ASSUME NEW a, DOMAIN a = AllocatorFields
  PROVE  IsReady(Cleared(a))
BY DEF IsReady, Cleared, AllocatorFields

\* The input VCs that win an output VC.
Winners(waited, alloc) == {iv \in Range(waited) : Indexed(iv) \in DOMAIN alloc.inmatch}

\* What the winners of the VC allocation win.
WonPort(waited, alloc) == [iv \in Winners(waited, alloc) |-> alloc.inmatch[Indexed(iv)] \div NumVCs]
WonVC(waited, alloc) == [iv \in Winners(waited, alloc) |-> alloc.inmatch[Indexed(iv)] % NumVCs]

\* The router after _VCAllocUpdate.
VCUpdated(q, rt, waited, alloc, won) ==
  /\ DOMAIN q = RouterFields
  /\ q.buf = TakenAt(rt.buf, won, WonPort(waited, alloc), WonVC(waited, alloc))
  /\ q.route_vcs = rt.route_vcs
  /\ q.vc_alloc_vcs = SubSeq(rt.vc_alloc_vcs, Len(waited) + 1, Len(rt.vc_alloc_vcs)) \o
                        Selected(waited, Range(waited) \ won)
  /\ q.sw_alloc_vcs = IF config.speculative THEN rt.sw_alloc_vcs
                      ELSE rt.sw_alloc_vcs \o Selected(waited, won)
  /\ q.sw_hold_vcs = rt.sw_hold_vcs
  /\ q.crossbar_flits = rt.crossbar_flits /\ q.held = rt.held
  /\ q.output_buffer = rt.output_buffer
  /\ q.sw_rr_offset = rt.sw_rr_offset /\ q.vc_rr_offset = rt.vc_rr_offset
  /\ q.sw_allocator = rt.sw_allocator /\ q.vc_allocator = Cleared(alloc)
  /\ q.spec_sw_allocator = rt.spec_sw_allocator

\* What _VCAllocUpdate changes.
LEMMA VCUpdateFields ==
  ASSUME NEW rt, DOMAIN rt = RouterFields, NEW waited, NEW alloc
  PROVE  VCUpdated(VCAllocUpdate(rt, waited, alloc), rt, waited, alloc, Winners(waited, alloc))
<1> DEFINE winners == {iv \in Range(waited) : Indexed(iv) \in DOMAIN alloc.inmatch}
           come == SubSeq(rt.vc_alloc_vcs, Len(waited) + 1, Len(rt.vc_alloc_vcs))
           taken == TakeOutputs(rt, winners,
                 [iv \in winners |-> alloc.inmatch[Indexed(iv)] \div NumVCs],
                 [iv \in winners |-> alloc.inmatch[Indexed(iv)] % NumVCs])
           s == [taken EXCEPT
                  !.vc_alloc_vcs = come \o Selected(waited, Range(waited) \ winners),
                  !.sw_alloc_vcs = IF config.speculative THEN @ ELSE @ \o Selected(waited, winners),
                  !.vc_allocator = Cleared(alloc)]
<1>1. VCAllocUpdate(rt, waited, alloc) = s
  BY Zenon DEF VCAllocUpdate
<1>2. winners = Winners(waited, alloc)
  BY Zenon DEF Winners
<1>3. taken = TakeOutputs(rt, winners, WonPort(waited, alloc), WonVC(waited, alloc))
  BY <1>2, Zenon DEF WonPort, WonVC
<1> HIDE DEF winners, come, taken
<1>4. /\ DOMAIN taken = RouterFields
      /\ taken.buf = TakenAt(rt.buf, winners, WonPort(waited, alloc), WonVC(waited, alloc))
      /\ taken.route_vcs = rt.route_vcs
      /\ taken.sw_alloc_vcs = rt.sw_alloc_vcs /\ taken.sw_hold_vcs = rt.sw_hold_vcs
      /\ taken.crossbar_flits = rt.crossbar_flits /\ taken.held = rt.held
      /\ taken.output_buffer = rt.output_buffer
      /\ taken.sw_rr_offset = rt.sw_rr_offset /\ taken.vc_rr_offset = rt.vc_rr_offset
      /\ taken.sw_allocator = rt.sw_allocator
      /\ taken.spec_sw_allocator = rt.spec_sw_allocator
  BY <1>3, TakenFields
<1>5. /\ DOMAIN s = RouterFields
      /\ s.buf = taken.buf
      /\ s.route_vcs = taken.route_vcs
      /\ s.vc_alloc_vcs = come \o Selected(waited, Range(waited) \ winners)
      /\ s.sw_alloc_vcs = IF config.speculative THEN taken.sw_alloc_vcs
                                ELSE taken.sw_alloc_vcs \o Selected(waited, winners)
      /\ s.sw_hold_vcs = taken.sw_hold_vcs
      /\ s.crossbar_flits = taken.crossbar_flits /\ s.held = taken.held
      /\ s.output_buffer = taken.output_buffer
      /\ s.sw_rr_offset = taken.sw_rr_offset /\ s.vc_rr_offset = taken.vc_rr_offset
      /\ s.sw_allocator = taken.sw_allocator /\ s.vc_allocator = Cleared(alloc)
      /\ s.spec_sw_allocator = taken.spec_sw_allocator
  BY <1>4 DEF RouterFields
<1> HIDE DEF s
<1>6. VCUpdated(s, rt, waited, alloc, winners)
  BY <1>4, <1>5, Zenon DEF VCUpdated, come
<1> QED BY <1>1, <1>2, <1>6, Zenon

\* VCAllocUpdate keeps the invariant, when it gives those that waited outputs
\* there are.
LEMMA VCAllocKept ==
  ASSUME config \in Configs, NEW rt, RouterCore(rt),
         NEW waited, IsList(waited, InVCs), NEW come, IsList(come, InVCs),
         Range(waited) \intersect Range(come) = {}, rt.vc_alloc_vcs = waited \o come,
         NEW alloc, DOMAIN alloc = AllocatorFields,
         ~Piggyback => IsAllocator(alloc, config.vc_allocator, NumPorts * NumVCs, NumPorts * NumVCs),
         \A iv \in Winners(waited, alloc) :
           /\ alloc.inmatch[Indexed(iv)] \div NumVCs \in Ports
           /\ alloc.inmatch[Indexed(iv)] % NumVCs \in VCIds
  PROVE  RouterCore(VCAllocUpdate(rt, waited, alloc))
<1> DEFINE q == VCAllocUpdate(rt, waited, alloc)
           won == Winners(waited, alloc)
           port == WonPort(waited, alloc)
           vc == WonVC(waited, alloc)
           c == TakenAt(rt.buf, won, port, vc)
           R == Range(rt.route_vcs)
           V == Range(rt.vc_alloc_vcs)
           W == Range(rt.sw_alloc_vcs)
           H == Range(rt.sw_hold_vcs)
           lost == Range(waited) \ won
<1>1. /\ DOMAIN rt = RouterFields /\ Lists(rt) /\ Staged(rt) /\ Outgoing(rt) /\ InTurn(rt)
      /\ AllocatorsReady(rt)
  BY DEF RouterCore
<1>2. /\ DOMAIN q = RouterFields
      /\ q.buf = c
      /\ q.route_vcs = rt.route_vcs
      /\ q.vc_alloc_vcs = SubSeq(rt.vc_alloc_vcs, Len(waited) + 1, Len(rt.vc_alloc_vcs)) \o
                                  Selected(waited, lost)
      /\ q.sw_alloc_vcs = IF config.speculative THEN rt.sw_alloc_vcs
                                ELSE rt.sw_alloc_vcs \o Selected(waited, won)
      /\ q.sw_hold_vcs = rt.sw_hold_vcs
      /\ q.crossbar_flits = rt.crossbar_flits /\ q.held = rt.held
      /\ q.output_buffer = rt.output_buffer
      /\ q.sw_rr_offset = rt.sw_rr_offset /\ q.vc_rr_offset = rt.vc_rr_offset
      /\ q.sw_allocator = rt.sw_allocator /\ q.vc_allocator = Cleared(alloc)
      /\ q.spec_sw_allocator = rt.spec_sw_allocator
  <2>1. VCUpdated(q, rt, waited, alloc, won)
    BY <1>1, VCUpdateFields, Zenon
  <2> HIDE DEF q, won
  <2> QED BY <2>1, Zenon DEF VCUpdated
<1> HIDE DEF q
<1>3. Pipeline(rt.buf, R, V, W, H)
  BY <1>1 DEF Staged
<1>4. /\ \A iv \in won : port[iv] \in Ports /\ vc[iv] \in VCIds
      /\ won \subseteq Range(waited)
  BY DEF WonPort, WonVC, Winners
<1>5. V = Range(waited) \union Range(come) /\ waited \in Seq(InVCs) /\ come \in Seq(InVCs)
  <2>1. V = Range(waited) \union Range(come)
    BY Joined, ZenonT(60)
  <2> QED BY <2>1 DEF IsList
<1>6. IsList(rt.route_vcs, InVCs) /\ IsList(rt.sw_alloc_vcs, InVCs) /\ IsList(rt.sw_hold_vcs, InVCs)
  BY <1>1 DEF Lists
<1> HIDE DEF won, port, vc, c, R, V, W, H
<1>7. /\ won \in SUBSET InVCs /\ won \subseteq V
      /\ \A iv \in won : rt.buf[iv].state = "vc_alloc" /\ rt.buf[iv].flits # <<>>
  BY <1>3, <1>4, <1>5, PipelineIs
<1>8. /\ Pipeline(c, R, V \ won, W, H)
      /\ \A iv \in InVCs : /\ c[iv].flits = rt.buf[iv].flits
                           /\ iv \notin won => c[iv] = rt.buf[iv]
                           /\ iv \in won => c[iv].state = "active"
  <2>1. /\ won \in SUBSET InVCs
        /\ \A iv \in won : /\ rt.buf[iv].state = "vc_alloc" /\ rt.buf[iv].flits # <<>>
                           /\ port[iv] \in Ports /\ vc[iv] \in VCIds
    BY <1>4, <1>7
  <2>2. Pipeline(TakenAt(rt.buf, won, port, vc), R, V \ won, W, H)
    BY <1>3, <2>1, TakenPipeline
  <2>3. \A iv \in InVCs : /\ TakenAt(rt.buf, won, port, vc)[iv].flits = rt.buf[iv].flits
                          /\ iv \notin won => TakenAt(rt.buf, won, port, vc)[iv] = rt.buf[iv]
                          /\ iv \in won => TakenAt(rt.buf, won, port, vc)[iv].state = "active"
    <3>1. rt.buf \in [InVCs -> VCRecord]
      BY <1>3, PipelineIs
    <3> QED BY <2>1, <3>1, TakenAs
  <2> QED BY <2>2, <2>3, Zenon DEF c
<1>9. SubSeq(rt.vc_alloc_vcs, Len(waited) + 1, Len(rt.vc_alloc_vcs)) = come
  BY <1>5, Rest
<1>10. IsList(q.vc_alloc_vcs, InVCs) /\ Range(q.vc_alloc_vcs) = V \ won
  <2>1. lost \in SUBSET Range(waited) /\ Range(come) \intersect lost = {}
    OBVIOUS
  <2>2. Range(come) \union lost = V \ won
    BY <1>4, <1>5
  <2> HIDE DEF lost
  <2>3. q.vc_alloc_vcs = come \o Selected(waited, lost)
    BY <1>2, <1>9
  <2>4. IsList(q.vc_alloc_vcs, InVCs)
    BY <2>1, <2>3, GoesOn
  <2>5. Range(q.vc_alloc_vcs) = Range(come) \union lost
    BY <2>1, <2>3, GoesOn
  <2> QED BY <2>2, <2>4, <2>5
<1>11. /\ IsList(q.sw_alloc_vcs, InVCs)
       /\ Pipeline(c, R, V \ won, Range(q.sw_alloc_vcs), H)
  <2>1. CASE config.speculative
    <3>1. q.sw_alloc_vcs = rt.sw_alloc_vcs
      BY <1>2, <2>1
    <3> QED BY <1>6, <1>8, <3>1 DEF W
  <2>2. CASE ~config.speculative
    <3>1. q.sw_alloc_vcs = rt.sw_alloc_vcs \o Selected(waited, won)
      BY <1>2, <2>2
    <3>2. W \intersect won = {}
      BY <1>3, <1>7, <2>2, PipelineIs
    <3>3. IsList(q.sw_alloc_vcs, InVCs)
      BY <1>4, <1>6, <3>1, <3>2, GoesOn DEF W
    <3>4. Range(q.sw_alloc_vcs) = W \union won
      BY <1>4, <1>6, <3>1, <3>2, GoesOn DEF W
    <3>5. won \intersect H = {}
      BY <1>3, <1>7, PipelineIs
    <3>6. Pipeline(c, R, V \ won, W \union won, H)
      BY <1>7, <1>8, <3>5, PipelineMore
    <3> QED BY <3>3, <3>4, <3>6
  <2> QED BY <2>1, <2>2
<1>12. Lists(q)
  BY <1>2, <1>6, <1>10, <1>11 DEF Lists
<1>13. Holding(q.held, q.buf, H)
  <2>1. Holding(rt.held, rt.buf, H)
    BY <1>1 DEF Staged, H
  <2>2. \A iv \in H : iv \in InVCs /\ iv \notin won
    BY <1>3, <1>7, PipelineIs
  <2>3. \A iv \in H : c[iv].out_port = rt.buf[iv].out_port
    BY <1>8, <2>2
  <2> QED BY <1>2, <2>1, <2>3, HoldingSame
<1>14. Staged(q)
  BY <1>2, <1>10, <1>11, <1>13, Zenon DEF Staged, R, H
<1>15. Outgoing(q) /\ InTurn(q)
  BY <1>1, <1>2, Zenon DEF Outgoing, InTurn
<1>16. AllocatorsReady(q)
  <2>1. IsReady(Cleared(alloc))
    BY ReadyIs
  <2>2. ~Piggyback => IsAllocator(Cleared(alloc), config.vc_allocator, NumPorts * NumVCs, NumPorts * NumVCs)
    BY ClearedIs
  <2> QED BY <1>1, <1>2, <2>1, <2>2, Zenon DEF AllocatorsReady
<1> QED BY <1>2, <1>12, <1>14, <1>15, <1>16 DEF RouterCore, q

\* An input VC a flit left: active still, or after the tail routing the next
\* packet or idle.
LEMMA DepartedIs ==
  ASSUME NEW v \in VCRecord, v.flits # <<>>, v.state = "active"
  PROVE  /\ Departed(v) \in VCRecord
         /\ Departed(v).state \in {"active", "routing", "idle"}
         /\ Departed(v).state = "active" =>
              Departed(v).out_port = v.out_port /\ Departed(v).out_vc = v.out_vc
         /\ Departed(v).state = "routing" => Departed(v).flits # <<>>
<1> DEFINE rest == Tail(v.flits)
           st == IF rest = <<>> THEN "idle" ELSE "routing"
           x == [v EXCEPT !.flits = rest]
           y == [IdleVC EXCEPT !.flits = rest, !.state = st]
<1>1. Departed(v) = IF ~Head(v.flits).tail THEN x ELSE y
  BY Zenon DEF Departed
<1>2. rest \in Seq(Flit)
  <2>1. v.flits \in Seq(Flit)
    BY DEF VCRecord
  <2> QED BY <2>1
<1> HIDE DEF rest
<1>3. x \in VCRecord /\ x.state = "active" /\ x.out_port = v.out_port /\ x.out_vc = v.out_vc
  BY <1>2 DEF VCRecord
<1>4. /\ y \in VCRecord /\ y.state \in {"routing", "idle"}
      /\ y.state = "routing" => y.flits # <<>>
  BY <1>2, NoOutputs DEF VCRecord, IdleVC
<1> HIDE DEF x, y
<1> QED BY <1>1, <1>3, <1>4

\* The input VCs after the first flits of some have gone, and those of them
\* that are to be routed again.
CrossedAt(b, G) == [iv \in InVCs |-> IF iv \in G THEN Departed(b[iv]) ELSE b[iv]]
-----------------------------------------------------------------------------
\* Flits that cross the switch.

\* The VCs where another packet begins as the tail leaves.
Freed(b, G) == {iv \in G : Departed(b[iv]).state = "routing"}

\* The VCs whose flits cross the switch leave its lists; those with another
\* packet behind the tail start to route it.
LEMMA CrossedPipeline ==
  ASSUME NEW b, NEW R, NEW V, NEW W, NEW H, Pipeline(b, R, V, W, H),
         NEW G \in SUBSET InVCs, \A iv \in G : b[iv].state = "active" /\ b[iv].flits # <<>>
  PROVE  /\ Pipeline(CrossedAt(b, G), R \union Freed(b, G), V, W \ G, H \ G)
         /\ R \intersect Freed(b, G) = {}
         /\ \A iv \in InVCs \ G : CrossedAt(b, G)[iv] = b[iv]
         /\ \A iv \in G : CrossedAt(b, G)[iv].state = "active" =>
                            CrossedAt(b, G)[iv].out_port = b[iv].out_port
<1> DEFINE c == CrossedAt(b, G)
           F == Freed(b, G)
<1>1. /\ b \in [InVCs -> VCRecord]
      /\ R \subseteq InVCs /\ V \subseteq InVCs /\ W \subseteq InVCs /\ H \subseteq InVCs
      /\ \A iv \in InVCs : b[iv].state = "active" => b[iv].out_port \in Ports /\ b[iv].out_vc \in VCIds
      /\ \A iv \in R \union V \union W \union H : b[iv].flits # <<>>
      /\ \A iv \in R : b[iv].state = "routing"
      /\ \A iv \in V : b[iv].state = "vc_alloc"
      /\ \A iv \in InVCs : b[iv].state = "vc_alloc" => Piggyback \/ iv \in V
      /\ \A iv \in W : b[iv].state = "active" \/ (config.speculative /\ b[iv].state = "vc_alloc")
      /\ \A iv \in H : b[iv].state = "active"
      /\ W \intersect H = {}
      /\ Piggyback => V = {}
      /\ R \intersect V = {} /\ R \intersect W = {} /\ R \intersect H = {} /\ V \intersect H = {}
  BY PipelineIs
<1>2. ASSUME NEW iv \in G
      PROVE  /\ c[iv] \in VCRecord
             /\ c[iv].state \in {"active", "routing", "idle"}
             /\ c[iv].state = "active" => c[iv].out_port = b[iv].out_port /\ c[iv].out_vc = b[iv].out_vc
             /\ c[iv].state = "routing" => c[iv].flits # <<>>
             /\ iv \in F <=> c[iv].state = "routing"
  <2>1. c[iv] = Departed(b[iv]) /\ b[iv] \in VCRecord
    BY <1>1 DEF CrossedAt
  <2>2. iv \in F <=> Departed(b[iv]).state = "routing"
    BY DEF Freed
  <2> QED BY <2>1, <2>2, DepartedIs
<1>3. \A iv \in InVCs \ G : c[iv] = b[iv]
  BY DEF CrossedAt
<1>4. c \in [InVCs -> VCRecord]
  <2>1. c = [iv \in InVCs |-> c[iv]]
    BY DEF CrossedAt
  <2> HIDE DEF c
  <2>2. \A iv \in InVCs : c[iv] \in VCRecord
    BY <1>1, <1>2, <1>3
  <2> QED BY <2>1, <2>2
<1>5. F \subseteq G
  BY DEF Freed
<1> HIDE DEF c, F
<1>6. R \intersect G = {} /\ V \intersect G = {}
  BY <1>1
<1>7. \A iv \in InVCs : c[iv].state = "active" => c[iv].out_port \in Ports /\ c[iv].out_vc \in VCIds
  BY <1>1, <1>2, <1>3
<1>8. \A iv \in R \union F : c[iv].state = "routing" /\ c[iv].flits # <<>>
  BY <1>1, <1>2, <1>3, <1>5, <1>6
<1>9. \A iv \in V : c[iv].state = "vc_alloc" /\ c[iv].flits # <<>>
  BY <1>1, <1>3, <1>6
<1>10. \A iv \in (W \ G) \union (H \ G) : c[iv] = b[iv]
  BY <1>1, <1>3
<1>11. \A iv \in InVCs : c[iv].state = "vc_alloc" => Piggyback \/ iv \in V
  BY <1>1, <1>2, <1>3
<1>12. Pipeline(c, R \union F, V, W \ G, H \ G)
  <2>1. R \union F \subseteq InVCs /\ (W \ G) \intersect (H \ G) = {}
    BY <1>1, <1>5
  <2>2. \A iv \in (R \union F) \union V \union (W \ G) \union (H \ G) : c[iv].flits # <<>>
    BY <1>1, <1>8, <1>9, <1>10
  <2> QED BY <1>1, <1>4, <1>7, <1>8, <1>9, <1>10, <1>11, <2>1, <2>2 DEF Pipeline
<1> QED BY <1>2, <1>3, <1>5, <1>6, <1>12 DEF c, F

\* What the first flits of the VCs of a list are in the crossbar.
Sendings(b, list) ==
  [i \in DOMAIN list |-> [f |-> [Head(b[list[i]].flits) EXCEPT !.vc = b[list[i]].out_vc],
                          output |-> b[list[i]].out_port]]

\* The router after the flits of a list crossed the switch.
HasCrossed(q, rt, list) ==
  /\ DOMAIN q = RouterFields
  /\ q.buf = CrossedAt(rt.buf, Range(list))
  /\ \A o \in Ports : (\A iv \in Range(list) : rt.buf[iv].out_port # o) =>
                        q.next_buf[o] = rt.next_buf[o]
  /\ q.crossbar_flits = rt.crossbar_flits \o Sendings(rt.buf, list)
  /\ q.route_vcs = rt.route_vcs \o Selected(list, Freed(rt.buf, Range(list)))
  /\ q.vc_alloc_vcs = rt.vc_alloc_vcs /\ q.sw_alloc_vcs = rt.sw_alloc_vcs
  /\ q.sw_hold_vcs = rt.sw_hold_vcs /\ q.held = rt.held
  /\ q.output_buffer = rt.output_buffer
  /\ q.sw_rr_offset = rt.sw_rr_offset /\ q.vc_rr_offset = rt.vc_rr_offset
  /\ q.sw_allocator = rt.sw_allocator /\ q.vc_allocator = rt.vc_allocator
  /\ q.spec_sw_allocator = rt.spec_sw_allocator

\* What a crossing changes.
LEMMA CrossFields ==
  ASSUME NEW rt, DOMAIN rt = RouterFields, NEW list
  PROVE  HasCrossed(Cross(rt, list), rt, list)
<1> DEFINE
      going == Range(list)
      flit(iv) == [FrontFlit(rt, iv) EXCEPT !.vc = rt.buf[iv].out_vc]
      sent(o) == {flit(iv) : iv \in {jv \in going : rt.buf[jv].out_port = o}}
      next_packet == {iv \in going : Departed(rt.buf[iv]).state = "routing"}
      buf == [iv \in InVCs |-> IF iv \in going THEN Departed(rt.buf[iv]) ELSE rt.buf[iv]]
      nb == [o \in Ports |->
               IF sent(o) = {} THEN rt.next_buf[o] ELSE SendingFlit(rt.next_buf[o], sent(o))]
      new == [i \in DOMAIN list |-> [f |-> flit(list[i]), output |-> rt.buf[list[i]].out_port]]
      ocq == [i \in Ports |->
                rt.out_queue_credits[i] \union {iv[2] : iv \in {jv \in going : jv[1] = i}}]
      q == [rt EXCEPT !.buf = Evaluated(buf), !.next_buf = Evaluated(nb),
                      !.crossbar_flits = @ \o new, !.out_queue_credits = ocq,
                      !.route_vcs = @ \o Selected(list, next_packet)]
<1>1. Cross(rt, list) = q
  BY Zenon DEF Cross
<1>2. Evaluated(buf) = buf /\ Evaluated(nb) = nb
  BY EvaluatedIs, Zenon
<1>3. buf = CrossedAt(rt.buf, going)
  BY Zenon DEF CrossedAt
<1>4. next_packet = Freed(rt.buf, going)
  BY Zenon DEF Freed
<1>5. new = Sendings(rt.buf, list)
  BY Zenon DEF Sendings, FrontFlit
<1>6. ASSUME NEW o \in Ports, \A iv \in going : rt.buf[iv].out_port # o
      PROVE  nb[o] = rt.next_buf[o]
  <2>1. sent(o) = {}
    BY <1>6
  <2> QED BY <2>1
<1> HIDE DEF buf, nb, new, ocq, next_packet, going
<1>7. /\ DOMAIN q = RouterFields
      /\ q.buf = buf /\ q.next_buf = nb
      /\ q.crossbar_flits = rt.crossbar_flits \o new
      /\ q.route_vcs = rt.route_vcs \o Selected(list, next_packet)
      /\ q.vc_alloc_vcs = rt.vc_alloc_vcs /\ q.sw_alloc_vcs = rt.sw_alloc_vcs
      /\ q.sw_hold_vcs = rt.sw_hold_vcs /\ q.held = rt.held
      /\ q.output_buffer = rt.output_buffer
      /\ q.sw_rr_offset = rt.sw_rr_offset /\ q.vc_rr_offset = rt.vc_rr_offset
      /\ q.sw_allocator = rt.sw_allocator /\ q.vc_allocator = rt.vc_allocator
      /\ q.spec_sw_allocator = rt.spec_sw_allocator
  BY <1>2 DEF RouterFields
<1> HIDE DEF q
<1>8. HasCrossed(q, rt, list)
  BY <1>3, <1>4, <1>5, <1>6, <1>7, Zenon DEF HasCrossed, going
<1> QED BY <1>1, <1>8

\* The flits that cross go, in order, to the output ports of their VCs.
LEMMA SendingsTyped ==
  ASSUME NEW b, NEW list, IsList(list, InVCs),
         \A iv \in Range(list) : /\ b[iv] \in VCRecord /\ b[iv].flits # <<>>
                                 /\ b[iv].out_port \in Ports /\ b[iv].out_vc \in VCIds
  PROVE  /\ Sendings(b, list) \in Seq([f : SentFlit, output : Ports])
         /\ Len(Sendings(b, list)) = Len(list)
         /\ DOMAIN Sendings(b, list) = DOMAIN list
         /\ \A i \in DOMAIN list : Sendings(b, list)[i].output = b[list[i]].out_port
<1> DEFINE sending(i) == [f |-> [Head(b[list[i]].flits) EXCEPT !.vc = b[list[i]].out_vc],
                          output |-> b[list[i]].out_port]
           cf == [i \in DOMAIN list |-> sending(i)]
<1>1. Sendings(b, list) = cf
  BY Zenon DEF Sendings
<1>2. Len(list) \in Nat /\ DOMAIN list = 1..Len(list)
  BY DEF IsList
<1>3. ASSUME NEW i \in DOMAIN list
      PROVE  sending(i) \in [f : SentFlit, output : Ports] /\ sending(i).output = b[list[i]].out_port
  <2> DEFINE v == b[list[i]]
             h == Head(v.flits)
  <2>1. /\ v \in VCRecord /\ v.flits # <<>> /\ v.out_port \in Ports /\ v.out_vc \in VCIds
    BY DEF Range
  <2> HIDE DEF v
  <2>2. v.flits \in Seq(Flit)
    BY <2>1 DEF VCRecord
  <2>3. h \in Flit
    BY <2>1, <2>2
  <2> HIDE DEF h
  <2>4. [h EXCEPT !.vc = v.out_vc] \in Flit /\ "vc" \in DOMAIN h
    BY <2>1, <2>3, FlitAssumption, Zenon
  <2>5. [h EXCEPT !.vc = v.out_vc].vc = v.out_vc
    BY <2>4
  <2>6. [h EXCEPT !.vc = v.out_vc] \in SentFlit
    BY <2>1, <2>4, <2>5 DEF SentFlit
  <2>7. sending(i) = [f |-> [h EXCEPT !.vc = v.out_vc], output |-> v.out_port]
    BY DEF h, v
  <2> QED BY <2>1, <2>6, <2>7 DEF v
<1> HIDE DEF sending
<1>4. cf \in Seq([f : SentFlit, output : Ports]) /\ Len(cf) = Len(list) /\ DOMAIN cf = DOMAIN list
  BY <1>2, <1>3
<1> QED BY <1>1, <1>3, <1>4

\* The flits in the crossbar that come from the VCs of a list.
AreFrom(cf, list, port) ==
  DOMAIN cf = DOMAIN list /\ \A i \in DOMAIN list : cf[i].output = port[list[i]]

\* No two VCs with the same expanded output.
Apart(S, port) ==
  \A iv, jv \in S : ExpandedOutput(iv, port[iv]) = ExpandedOutput(jv, port[jv]) => iv = jv

\* Flits sent from VCs that are apart are spread: at most output_speedup of
\* them for an output.
LEMMA SpreadOf ==
  ASSUME config \in Configs, NEW cf, NEW list, IsList(list, InVCs), NEW port,
         AreFrom(cf, list, port), \A iv \in Range(list) : port[iv] \in Ports,
         Apart(Range(list), port)
  PROVE  Spread(cf)
<1> DEFINE s == config.output_speedup
           slot == [i \in DOMAIN cf |-> list[i][1] % s]
<1>1. DOMAIN cf = DOMAIN list /\ \A i \in DOMAIN list : cf[i].output = port[list[i]]
  BY DEF AreFrom
<1>2. \A i \in DOMAIN list : list[i] \in Range(list) /\ list[i] \in InVCs
  BY DEF Range, IsList
<1>3. slot \in [DOMAIN cf -> 0..(s - 1)]
  <2>1. \A i \in DOMAIN cf : list[i][1] % s \in 0..(s - 1)
    BY <1>1, <1>2, ExpandedOutputIs
  <2> HIDE DEF s
  <2> QED BY <2>1
<1>4. ASSUME NEW i \in DOMAIN cf, NEW j \in DOMAIN cf, cf[i].output = cf[j].output, slot[i] = slot[j]
      PROVE  i = j
  <2>1. list[i][1] % s = list[j][1] % s /\ port[list[i]] = port[list[j]]
    BY <1>1, <1>4
  <2>2. ExpandedOutput(list[i], port[list[i]]) = ExpandedOutput(list[j], port[list[j]])
    BY <2>1 DEF ExpandedOutput
  <2>3. list[i] = list[j]
    BY <1>1, <1>2, <2>2 DEF Apart
  <2> QED BY <1>1, <2>3 DEF IsList
<1> HIDE DEF slot
<1> QED BY <1>3, <1>4 DEF Spread, s

\* At most one flit for each of its expanded outputs.
LEMMA SpreadCount ==
  ASSUME config \in Configs, NEW rt, NEW S, rt.crossbar_flits \in Seq(S),
         Spread(rt.crossbar_flits), NEW o
  PROVE  /\ CrossingTo(rt, o) \in 0..config.output_speedup
         /\ CrossingTo(rt, o) # 0 => \E i \in DOMAIN rt.crossbar_flits : rt.crossbar_flits[i].output = o
<1> DEFINE cf == rt.crossbar_flits
           s == config.output_speedup
           at == {i \in 1..Len(cf) : cf[i] \in Toward(rt, o)}
           slots == 0..(s - 1)
<1>1. s \in Nat \ {0}
  BY ConfigFacts
<1>2. CrossingTo(rt, o) = Cardinality(at)
  BY SelectedCount DEF CrossingTo
<1>3. PICK slot \in [DOMAIN cf -> slots] :
        \A i, j \in DOMAIN cf : cf[i].output = cf[j].output /\ slot[i] = slot[j] => i = j
  BY Zenon DEF Spread
<1>4. DOMAIN cf = 1..Len(cf) /\ Len(cf) \in Nat
  OBVIOUS
<1>5. \A i \in at : i \in DOMAIN cf /\ cf[i].output = o
  BY <1>4, Zenon DEF Toward
<1> HIDE DEF cf, at, s
<1> DEFINE g == [i \in at |-> slot[i]]
<1>6. g \in Injection(at, slots)
  <2>1. g \in [at -> slots]
    BY <1>3, <1>5
  <2>2. \A i, j \in at : g[i] = g[j] => i = j
    BY <1>3, <1>5
  <2> HIDE DEF g
  <2> QED BY <2>1, <2>2, Zenon DEF Injection, IsInjective
<1>7. IsFiniteSet(slots) /\ Cardinality(slots) = s
  <2>1. 0 \in Int /\ s - 1 \in Int /\ s - 1 >= 0
    BY <1>1
  <2>2. /\ IsFiniteSet(0..(s - 1))
        /\ Cardinality(0..(s - 1)) = IF 0 > s - 1 THEN 0 ELSE s - 1 - 0 + 1
    BY <2>1, FS_Interval, Zenon
  <2> QED BY <1>1, <2>1, <2>2
<1>8. IsFiniteSet(at) /\ Cardinality(at) <= s
  <2> HIDE DEF g, slots
  <2>1. \E f : f \in Injection(at, slots)
    BY <1>6
  <2>2. IsFiniteSet(at) /\ Cardinality(at) <= Cardinality(slots)
    BY <1>7, <2>1, FS_Injection, Zenon
  <2> QED BY <1>7, <2>2
<1>9. Cardinality(at) \in Nat
  BY <1>8, FS_CardinalityType
<1>10. Cardinality(at) # 0 => at # {}
  BY FS_EmptySet
<1>11. at # {} => \E i \in DOMAIN cf : cf[i].output = o
  BY <1>5
<1> QED BY <1>1, <1>2, <1>8, <1>9, <1>10, <1>11 DEF s, cf

\* The pipeline is one with fewer VCs at the switch too.
LEMMA PipelineLess ==
  ASSUME NEW b, NEW R, NEW V, NEW W, NEW H, Pipeline(b, R, V, W, H),
         NEW W2 \in SUBSET W, NEW H2 \in SUBSET H
  PROVE  Pipeline(b, R, V, W2, H2)
BY DEF Pipeline

\* The VCs with a held switch that send, and those that go on holding it.
Goers(rt, goes) == Selected(rt.sw_hold_vcs, goes)
-----------------------------------------------------------------------------
\* A switch that is held: _SWHoldUpdate.

\* The holders that go and keep the switch.
Keepers(rt, goes) ==
  {iv \in Range(rt.sw_hold_vcs) \intersect goes :
     /\ CrossedAt(rt.buf, Range(Goers(rt, goes)))[iv].state = "active"
     /\ CrossedAt(rt.buf, Range(Goers(rt, goes)))[iv].flits # <<>>}

\* The router after _SWHoldUpdate.
HasHeld(q, rt, goes) ==
  /\ DOMAIN q = RouterFields
  /\ q.buf = CrossedAt(rt.buf, Range(Goers(rt, goes)))
  /\ \A o \in Ports : (\A iv \in Range(Goers(rt, goes)) : rt.buf[iv].out_port # o) =>
                        q.next_buf[o] = rt.next_buf[o]
  /\ q.crossbar_flits = rt.crossbar_flits \o Sendings(rt.buf, Goers(rt, goes))
  /\ q.route_vcs = rt.route_vcs \o
       Selected(Goers(rt, goes), Freed(rt.buf, Range(Goers(rt, goes))))
  /\ q.held = [ei \in {ExpandedInput(iv) : iv \in Keepers(rt, goes)} |-> rt.held[ei]]
  /\ q.sw_hold_vcs = Selected(rt.sw_hold_vcs, Keepers(rt, goes))
  /\ q.sw_alloc_vcs = rt.sw_alloc_vcs \o Selected(rt.sw_hold_vcs, Range(rt.sw_hold_vcs) \ goes)
  /\ q.vc_alloc_vcs = rt.vc_alloc_vcs
  /\ q.output_buffer = rt.output_buffer
  /\ q.sw_rr_offset = rt.sw_rr_offset /\ q.vc_rr_offset = rt.vc_rr_offset
  /\ q.sw_allocator = rt.sw_allocator /\ q.vc_allocator = rt.vc_allocator
  /\ q.spec_sw_allocator = rt.spec_sw_allocator

\* What _SWHoldUpdate changes.
LEMMA HoldFields ==
  ASSUME NEW rt, DOMAIN rt = RouterFields, NEW goes
  PROVE  HasHeld(SWHoldUpdate(rt, goes), rt, goes)
<1> DEFINE
      list == rt.sw_hold_vcs
      crossed == Cross(rt, Selected(list, goes))
      keep == {iv \in Range(list) \intersect goes : Continues(crossed, iv)}
      q == [crossed EXCEPT
             !.held = [ei \in {ExpandedInput(iv) : iv \in keep} |-> @[ei]],
             !.sw_hold_vcs = Selected(list, keep),
             !.sw_alloc_vcs = @ \o Selected(list, Range(list) \ goes)]
<1>1. SWHoldUpdate(rt, goes) = q
  BY Zenon DEF SWHoldUpdate
<1>2. crossed = Cross(rt, Goers(rt, goes))
  BY Zenon DEF Goers
<1> HIDE DEF crossed
<1>3. HasCrossed(crossed, rt, Goers(rt, goes))
  BY <1>2, CrossFields, Zenon
<1>4. crossed.buf = CrossedAt(rt.buf, Range(Goers(rt, goes))) /\ crossed.held = rt.held
  BY <1>3, Zenon DEF HasCrossed
<1>5. keep = Keepers(rt, goes)
  BY <1>4, Zenon DEF Keepers, Continues
<1> DEFINE held == [ei \in {ExpandedInput(iv) : iv \in keep} |-> crossed.held[ei]]
<1>6. held = [ei \in {ExpandedInput(iv) : iv \in Keepers(rt, goes)} |-> rt.held[ei]]
  BY <1>4, <1>5, Zenon
<1>7. DOMAIN crossed = RouterFields
  BY <1>3, Zenon DEF HasCrossed
<1> HIDE DEF keep, held
<1>8. /\ DOMAIN q = RouterFields /\ q.buf = crossed.buf /\ q.next_buf = crossed.next_buf
      /\ q.crossbar_flits = crossed.crossbar_flits /\ q.route_vcs = crossed.route_vcs
      /\ q.held = held /\ q.sw_hold_vcs = Selected(list, keep)
      /\ q.sw_alloc_vcs = crossed.sw_alloc_vcs \o Selected(list, Range(list) \ goes)
      /\ q.vc_alloc_vcs = crossed.vc_alloc_vcs
      /\ q.output_buffer = crossed.output_buffer
      /\ q.sw_rr_offset = crossed.sw_rr_offset /\ q.vc_rr_offset = crossed.vc_rr_offset
      /\ q.sw_allocator = crossed.sw_allocator /\ q.vc_allocator = crossed.vc_allocator
      /\ q.spec_sw_allocator = crossed.spec_sw_allocator
  BY <1>7 DEF RouterFields, held
<1> HIDE DEF q
<1>9. HasHeld(q, rt, goes)
  BY <1>3, <1>5, <1>6, <1>8, Zenon DEF HasHeld, HasCrossed
<1> QED BY <1>1, <1>9

-----------------------------------------------------------------------------
\* Two sets of VCs that cross together.

\* The output ports of the input VCs.
PortsOf(b) == [iv \in InVCs |-> b[iv].out_port]

\* SWHoldUpdate keeps the invariant; the flits in the crossbar come from VCs
\* with a held switch.
LEMMA HoldKept ==
  ASSUME config \in Configs, NEW rt, RouterCore(rt), rt.crossbar_flits = <<>>,
         NEW goes
  PROVE  /\ RouterCore(SWHoldUpdate(rt, goes))
         /\ IsList(Goers(rt, goes), InVCs) /\ Range(Goers(rt, goes)) \subseteq Range(rt.sw_hold_vcs)
         /\ AreFrom(SWHoldUpdate(rt, goes).crossbar_flits, Goers(rt, goes), PortsOf(rt.buf))
         /\ \A iv \in InVCs \ Range(rt.sw_hold_vcs) : SWHoldUpdate(rt, goes).buf[iv] = rt.buf[iv]
<1> DEFINE q == SWHoldUpdate(rt, goes)
           l == Goers(rt, goes)
           keep == Keepers(rt, goes)
           G == Range(l)
           F == Freed(rt.buf, G)
           c == CrossedAt(rt.buf, G)
           R == Range(rt.route_vcs)
           V == Range(rt.vc_alloc_vcs)
           W == Range(rt.sw_alloc_vcs)
           H == Range(rt.sw_hold_vcs)
           stay == H \ goes
<1>1. /\ DOMAIN rt = RouterFields /\ Lists(rt) /\ Staged(rt) /\ Outgoing(rt) /\ InTurn(rt)
      /\ AllocatorsReady(rt)
  BY DEF RouterCore
<1>2. HasHeld(q, rt, goes)
  BY <1>1, HoldFields, Zenon
<1>3. /\ DOMAIN q = RouterFields
      /\ q.buf = c
      /\ q.crossbar_flits = rt.crossbar_flits \o Sendings(rt.buf, l)
      /\ q.route_vcs = rt.route_vcs \o Selected(l, F)
      /\ q.held = [ei \in {ExpandedInput(iv) : iv \in keep} |-> rt.held[ei]]
      /\ q.sw_hold_vcs = Selected(rt.sw_hold_vcs, keep)
      /\ q.sw_alloc_vcs = rt.sw_alloc_vcs \o Selected(rt.sw_hold_vcs, stay)
      /\ q.vc_alloc_vcs = rt.vc_alloc_vcs
      /\ q.output_buffer = rt.output_buffer
      /\ q.sw_rr_offset = rt.sw_rr_offset /\ q.vc_rr_offset = rt.vc_rr_offset
      /\ q.sw_allocator = rt.sw_allocator /\ q.vc_allocator = rt.vc_allocator
      /\ q.spec_sw_allocator = rt.spec_sw_allocator
  <2> HIDE DEF q
  <2> QED BY <1>2, Zenon DEF HasHeld
<1> HIDE DEF q
<1>4. Pipeline(rt.buf, R, V, W, H) /\ Holding(rt.held, rt.buf, H)
  BY <1>1 DEF Staged
<1>5. /\ IsList(rt.route_vcs, InVCs) /\ IsList(rt.vc_alloc_vcs, InVCs)
      /\ IsList(rt.sw_alloc_vcs, InVCs) /\ IsList(rt.sw_hold_vcs, InVCs)
  BY <1>1 DEF Lists
<1>6. IsList(l, InVCs) /\ G = H \intersect goes
  <2>1. IsList(l, InVCs)
    BY <1>5, SelectedList DEF Goers
  <2>2. G = H \intersect goes
    BY <1>5, SelectedRange DEF Goers, IsList
  <2> QED BY <2>1, <2>2
<1>7. keep \subseteq G /\ \A iv \in keep : c[iv].state = "active" /\ c[iv].flits # <<>>
  <2> HIDE DEF c
  <2>1. \A iv \in keep : iv \in H /\ iv \in goes /\ c[iv].state = "active" /\ c[iv].flits # <<>>
    BY DEF Keepers, c
  <2> QED BY <1>6, <2>1
<1> HIDE DEF l, keep, G, F, c, R, V, W, H
<1>8. /\ rt.buf \in [InVCs -> VCRecord]
      /\ R \subseteq InVCs /\ V \subseteq InVCs /\ W \subseteq InVCs /\ H \subseteq InVCs
      /\ W \intersect H = {}
      /\ \A iv \in H : /\ rt.buf[iv].state = "active" /\ rt.buf[iv].flits # <<>>
                       /\ rt.buf[iv].out_port \in Ports /\ rt.buf[iv].out_vc \in VCIds
  <2>1. /\ rt.buf \in [InVCs -> VCRecord]
        /\ R \subseteq InVCs /\ V \subseteq InVCs /\ W \subseteq InVCs /\ H \subseteq InVCs
        /\ W \intersect H = {}
    BY <1>4, PipelineIs
  <2>2. /\ \A iv \in InVCs : rt.buf[iv].state = "active" =>
              rt.buf[iv].out_port \in Ports /\ rt.buf[iv].out_vc \in VCIds
        /\ \A iv \in R \union V \union W \union H : rt.buf[iv].flits # <<>>
        /\ \A iv \in H : rt.buf[iv].state = "active"
    BY <1>4, PipelineIs
  <2> QED BY <2>1, <2>2
<1>9. G \in SUBSET InVCs /\ \A iv \in G : rt.buf[iv].state = "active" /\ rt.buf[iv].flits # <<>>
  BY <1>6, <1>8
<1>10. Pipeline(c, R \union F, V, W \ G, H \ G)
  BY <1>4, <1>9, CrossedPipeline DEF c, F
<1>11. R \intersect F = {} /\ F \in SUBSET G
  BY <1>4, <1>9, CrossedPipeline DEF F, Freed
<1>12. \A iv \in InVCs \ G : c[iv] = rt.buf[iv]
  BY <1>4, <1>9, CrossedPipeline DEF c
<1>13. \A iv \in G : c[iv].state = "active" => c[iv].out_port = rt.buf[iv].out_port
  BY <1>4, <1>9, CrossedPipeline DEF c
<1>14. IsList(q.route_vcs, InVCs) /\ Range(q.route_vcs) = R \union F
  <2>1. F \in SUBSET Range(l)
    BY <1>11 DEF G
  <2>2. IsList(q.route_vcs, InVCs)
    BY <1>3, <1>5, <1>6, <1>11, <2>1, GoesOn DEF R
  <2>3. Range(q.route_vcs) = R \union F
    BY <1>3, <1>5, <1>6, <1>11, <2>1, GoesOn DEF R
  <2> QED BY <2>2, <2>3
<1>15. IsList(q.sw_hold_vcs, InVCs) /\ Range(q.sw_hold_vcs) = keep
  <2>1. keep \in SUBSET Range(rt.sw_hold_vcs)
    BY <1>6, <1>7 DEF H
  <2> QED BY <1>3, <1>5, <2>1, SelectedAre
<1>16. IsList(q.sw_alloc_vcs, InVCs) /\ Range(q.sw_alloc_vcs) = W \union stay
  <2>1. stay \in SUBSET Range(rt.sw_hold_vcs) /\ W \intersect stay = {}
    BY <1>8 DEF H
  <2> HIDE DEF stay
  <2>2. IsList(q.sw_alloc_vcs, InVCs)
    BY <1>3, <1>5, <2>1, GoesOn DEF W
  <2>3. Range(q.sw_alloc_vcs) = W \union stay
    BY <1>3, <1>5, <2>1, GoesOn DEF W
  <2> QED BY <2>2, <2>3
<1>17. Pipeline(c, R \union F, V, W \union stay, keep)
  <2>1. Pipeline(c, R \union F, V, W, {})
    <3>1. W \in SUBSET (W \ G) /\ {} \in SUBSET (H \ G)
      BY <1>6, <1>8
    <3> QED BY <1>10, <3>1, PipelineLess
  <2>2. stay \in SUBSET InVCs /\ \A iv \in stay : c[iv].state = "active" /\ c[iv].flits # <<>>
    BY <1>6, <1>8, <1>12
  <2>3. keep \in SUBSET InVCs /\ keep \intersect (W \union stay) = {}
    BY <1>6, <1>7, <1>8, <1>9
  <2> HIDE DEF stay
  <2>4. stay \intersect {} = {}
    OBVIOUS
  <2>5. Pipeline(c, R \union F, V, W \union stay, {})
    BY <2>1, <2>2, <2>4, PipelineMore
  <2>6. Pipeline(c, R \union F, V, W \union stay, {} \union keep)
    BY <1>7, <2>3, <2>5, PipelineMore
  <2>7. {} \union keep = keep
    OBVIOUS
  <2> QED BY <2>6, <2>7
<1>18. Holding(q.held, c, keep)
  <2>1. keep # {} => config.hold_switch_for_packet
    BY <1>4, <1>6, <1>7 DEF Holding
  <2>2. \A iv \in keep : c[iv].out_port = rt.buf[iv].out_port /\ iv \in H
    BY <1>6, <1>7, <1>13
  <2>3. \A iv \in keep : q.held[ExpandedInput(iv)] = rt.held[ExpandedInput(iv)]
    BY <1>3
  <2>4. DOMAIN q.held = {ExpandedInput(iv) : iv \in keep}
    BY <1>3
  <2>5. \A iv \in keep : q.held[ExpandedInput(iv)].output = ExpandedOutput(iv, c[iv].out_port)
    BY <1>4, <2>2, <2>3 DEF Holding
  <2>6. \A iv, jv \in keep :
          \/ ExpandedInput(iv) = ExpandedInput(jv)
          \/ ExpandedOutput(iv, c[iv].out_port) = ExpandedOutput(jv, c[jv].out_port)
          => iv = jv
    BY <1>4, <2>2 DEF Holding
  <2> QED BY <2>1, <2>4, <2>5, <2>6, Zenon DEF Holding
<1>19. Lists(q) /\ Staged(q)
  <2>1. Range(q.vc_alloc_vcs) = V
    BY <1>3 DEF V
  <2> QED BY <1>3, <1>5, <1>14, <1>15, <1>16, <1>17, <1>18, <2>1 DEF Lists, Staged
<1>20. /\ q.crossbar_flits = Sendings(rt.buf, l)
       /\ q.crossbar_flits \in Seq([f : SentFlit, output : Ports])
       /\ AreFrom(q.crossbar_flits, l, PortsOf(rt.buf))
  <2>1. \A iv \in Range(l) : /\ rt.buf[iv] \in VCRecord /\ rt.buf[iv].flits # <<>>
                             /\ rt.buf[iv].out_port \in Ports /\ rt.buf[iv].out_vc \in VCIds
    BY <1>6, <1>8 DEF G
  <2> DEFINE cf == Sendings(rt.buf, l)
  <2>2. /\ cf \in Seq([f : SentFlit, output : Ports]) /\ DOMAIN cf = DOMAIN l
        /\ \A i \in DOMAIN l : cf[i].output = rt.buf[l[i]].out_port
    BY <1>6, <2>1, SendingsTyped
  <2> HIDE DEF cf
  <2>3. <<>> \o cf = cf
    BY <2>2
  <2>4. \A i \in DOMAIN l : l[i] \in InVCs
    BY <1>6 DEF IsList
  <2>5. AreFrom(cf, l, PortsOf(rt.buf))
    BY <2>2, <2>4 DEF AreFrom, PortsOf
  <2> QED BY <1>3, <2>2, <2>3, <2>5 DEF cf
<1>21. Spread(q.crossbar_flits)
  <2>1. \A iv \in Range(l) : iv \in H /\ iv \in InVCs /\ PortsOf(rt.buf)[iv] = rt.buf[iv].out_port
    BY <1>6, <1>8 DEF G, PortsOf
  <2>2. Apart(Range(l), PortsOf(rt.buf))
    BY <1>4, <2>1 DEF Holding, Apart
  <2>3. \A iv \in Range(l) : PortsOf(rt.buf)[iv] \in Ports
    BY <1>8, <2>1
  <2> QED BY <1>6, <1>20, <2>2, <2>3, SpreadOf
<1>22. Outgoing(q) /\ InTurn(q) /\ AllocatorsReady(q)
  <2>1. Outgoing(q)
    BY <1>1, <1>3, <1>20, <1>21, Zenon DEF Outgoing
  <2>2. InTurn(q) /\ AllocatorsReady(q)
    BY <1>1, <1>3, Zenon DEF InTurn, AllocatorsReady
  <2> QED BY <2>1, <2>2
<1>23. RouterCore(q)
  BY <1>3, <1>19, <1>22 DEF RouterCore
<1>24. \A iv \in InVCs \ H : q.buf[iv] = rt.buf[iv]
  BY <1>3, <1>6, <1>12
<1> QED BY <1>6, <1>20, <1>23, <1>24 DEF q, l, G, H

\* A function of finitely many arguments has finitely many values.
LEMMA ImageFinite ==
  ASSUME NEW f, IsFiniteSet(DOMAIN f)
  PROVE  IsFiniteSet({f[x] : x \in DOMAIN f})
<1> DEFINE T == {f[x] : x \in DOMAIN f}
           g == [x \in DOMAIN f |-> f[x]]
<1>1. g \in Surjection(DOMAIN f, T)
  BY DEF Surjection
<1>2. \E h : h \in Surjection(DOMAIN f, T)
  BY <1>1
<1> HIDE DEF T
<1>3. IsFiniteSet(T)
  BY <1>2, FS_Surjection
<1> QED BY <1>3 DEF T

\* The output VC that comes with a grant is one there is.
LEMMA PiggybackIs ==
  ASSUME NEW rt, NEW iv, rt.buf[iv].route_set \in OutputSets, NEW o \in Ports,
         rt.vc_rr_offset \in [Ports -> Int], PiggybackVCs(rt, iv, o) # {}
  PROVE  PiggybackVC(rt, iv, o) \in VCIds
<1> DEFINE could == PiggybackVCs(rt, iv, o)
           best == {c \in could : \A d \in could : d.pri <= c.pri}
           vcs == {c.vc : c \in best}
           outs == {u \in rt.buf[iv].route_set : u.port = o}
           room(out) == {v \in out.lo..out.hi : /\ IsAvailableFor(rt.next_buf[o], v)
                                               /\ ~IsFullFor(rt.next_buf[o], v)}
           some(out) == {[vc |-> vc, pri |-> VCPriority(rt.next_buf[o], out, vc)] : vc \in room(out)}
           B == {xy \in could \X could : xy[1].pri > xy[2].pri}
<1>1. PiggybackVC(rt, iv, o) = FirstFrom(vcs, rt.vc_rr_offset[o], NumVCs)
  BY Zenon DEF PiggybackVC
<1>2. could = UNION {some(out) : out \in outs}
  BY Zenon DEF PiggybackVCs
<1>3. IsFiniteSet(outs) /\ outs \subseteq Outs
  <2>1. IsFiniteSet(rt.buf[iv].route_set) /\ rt.buf[iv].route_set \subseteq Outs
    BY DEF OutputSets
  <2>2. outs \in SUBSET rt.buf[iv].route_set
    OBVIOUS
  <2> HIDE DEF outs
  <2> QED BY <2>1, <2>2, FS_Subset
<1> HIDE DEF could, best, outs
<1>4. ASSUME NEW out \in outs
      PROVE  /\ IsFiniteSet(some(out))
             /\ \A c \in some(out) : c.vc \in VCIds /\ c.pri \in Int
  <2>1. out.lo \in VCIds /\ out.hi \in VCIds /\ out.pri \in Int
    BY <1>3, OutsAre
  <2>2. room(out) \subseteq VCIds
    <3>1. \A vc \in out.lo..out.hi : vc \in VCIds
      BY <2>1, BufferAssumption DEF VCIds
    <3>2. room(out) \subseteq out.lo..out.hi
      BY Zenon
    <3> QED BY <3>1, <3>2, Zenon
  <2>3. IsFiniteSet(VCIds)
    <3>1. NumVCs - 1 \in Int
      BY BufferAssumption
    <3> QED BY <3>1, FS_Interval, 0 \in Int, Zenon DEF VCIds
  <2>4. IsFiniteSet(room(out))
    <3> HIDE DEF room
    <3> QED BY <2>2, <2>3, FS_Subset
  <2> HIDE DEF room
  <2>5. IsFiniteSet(some(out))
    <3> DEFINE f == [vc \in room(out) |-> [vc |-> vc, pri |-> VCPriority(rt.next_buf[o], out, vc)]]
    <3>1. DOMAIN f = room(out) /\ {f[vc] : vc \in DOMAIN f} = some(out)
      OBVIOUS
    <3> HIDE DEF f
    <3> QED BY <2>4, <3>1, ImageFinite
  <2>6. \A vc \in VCIds : VCPriority(rt.next_buf[o], out, vc) \in Int
    BY <2>1 DEF VCPriority, Least
  <2>7. \A c \in some(out) : c.vc \in VCIds /\ c.pri \in Int
    BY <2>2, <2>6
  <2> QED BY <2>5, <2>7
<1>5. IsFiniteSet(could)
  <2>1. IsFiniteSet({some(out) : out \in outs})
    <3> DEFINE f == [out \in outs |-> some(out)]
    <3> HIDE DEF some
    <3>1. DOMAIN f = outs /\ {f[out] : out \in DOMAIN f} = {some(out) : out \in outs}
      BY Zenon
    <3> HIDE DEF f
    <3>2. IsFiniteSet({f[out] : out \in DOMAIN f})
      BY <1>3, <3>1, ImageFinite
    <3> QED BY <3>1, <3>2, Zenon
  <2>2. \A S \in {some(out) : out \in outs} : IsFiniteSet(S)
    BY <1>4, Zenon
  <2> HIDE DEF some
  <2> QED BY <1>2, <2>1, <2>2, FS_UNION, Zenon
<1>6. \A c \in could : c.vc \in VCIds /\ c.pri \in Int
  BY <1>2, <1>4, Zenon
<1> HIDE DEF some
<1>7. could # {}
  BY DEF could
<1>8. best # {}
  <2>1. \A x \in could : <<x, x>> \notin B
    BY <1>6
  <2>2. \A x, y, z \in could : <<x, y>> \in B /\ <<y, z>> \in B => <<x, z>> \in B
    BY <1>6
  <2>3. \A x, y \in could : <<y, x>> \in B <=> y.pri > x.pri
    OBVIOUS
  <2> HIDE DEF B
  <2>4. \E x \in could : \A y \in could : <<y, x>> \notin B
    BY <1>5, <1>7, <2>1, <2>2, LeastIn, Zenon
  <2>5. PICK x \in could : \A y \in could : <<y, x>> \notin B
    BY <2>4
  <2>6. \A y \in could : y.pri <= x.pri
    <3>1. TAKE y \in could
    <3>2. x \in could /\ y \in could /\ x.pri \in Int /\ y.pri \in Int
      BY <1>6
    <3>3. ~(y.pri > x.pri)
      BY <2>3, <2>5, <3>2
    <3> DEFINE p == x.pri
               r == y.pri
    <3>4. p \in Int /\ r \in Int /\ ~(r > p)
      BY <3>2, <3>3
    <3> HIDE DEF p, r
    <3>5. r <= p
      BY <3>4
    <3> QED BY <3>5 DEF p, r
  <2> QED BY <2>6 DEF best
<1>9. vcs # {} /\ vcs \subseteq VCIds
  BY <1>6, <1>8 DEF best
<1> HIDE DEF vcs
<1>10. vcs \in SUBSET Int /\ rt.vc_rr_offset[o] \in Int /\ NumVCs \in Nat \ {0}
  BY <1>9, BufferAssumption DEF VCIds
<1> QED BY <1>1, <1>9, <1>10, FirstFromIn, Zenon

\* A router of which some VCs that wait have got their outputs, port[iv].
HasTaken(q, rt, port) ==
  /\ RouterCore(q)
  /\ q.route_vcs = rt.route_vcs /\ q.vc_alloc_vcs = rt.vc_alloc_vcs
  /\ q.sw_alloc_vcs = rt.sw_alloc_vcs /\ q.sw_hold_vcs = rt.sw_hold_vcs
  /\ q.crossbar_flits = rt.crossbar_flits /\ q.held = rt.held
  /\ q.output_buffer = rt.output_buffer
  /\ \A iv \in InVCs : /\ q.buf[iv].flits = rt.buf[iv].flits
                       /\ iv \notin DOMAIN port => q.buf[iv] = rt.buf[iv]
                       /\ iv \in DOMAIN port =>
                            q.buf[iv].state = "active" /\ q.buf[iv].out_port = port[iv]

\* A VC that is given an output VC as its flit goes, in the piggybacked VC
\* allocation, is active from then on.
LEMMA PiggybackedKept ==
  ASSUME config \in Configs, NEW rt, RouterCore(rt), Piggyback,
         NEW port, DOMAIN port \subseteq InVCs,
         \A iv \in DOMAIN port :
           /\ rt.buf[iv].state = "vc_alloc" /\ rt.buf[iv].flits # <<>>
           /\ port[iv] \in Ports /\ PiggybackVCs(rt, iv, port[iv]) # {}
  PROVE  HasTaken(TakePiggyback(rt, port), rt, port)
<1> DEFINE
      vc == [iv \in DOMAIN port |-> PiggybackVC(rt, iv, port[iv])]
      won == DOMAIN port
      taken == TakeOutputs(rt, won, port, vc)
      c == TakenAt(rt.buf, won, port, vc)
      turn == [o \in Ports |->
                IF o \in Range(port) THEN (vc[CHOOSE iv \in DOMAIN port : port[iv] = o] + 1) % NumVCs
                ELSE taken.vc_rr_offset[o]]
      q == [taken EXCEPT !.vc_rr_offset = turn]
      R == Range(rt.route_vcs)
      V == Range(rt.vc_alloc_vcs)
      W == Range(rt.sw_alloc_vcs)
      H == Range(rt.sw_hold_vcs)
<1>1. TakePiggyback(rt, port) = q
  BY Zenon DEF TakePiggyback, Piggybacked
<1>2. /\ DOMAIN rt = RouterFields /\ Lists(rt) /\ Staged(rt) /\ Outgoing(rt) /\ InTurn(rt)
      /\ AllocatorsReady(rt)
  BY DEF RouterCore
<1>3. Pipeline(rt.buf, R, V, W, H) /\ Holding(rt.held, rt.buf, H)
  BY <1>2 DEF Staged
<1> HIDE DEF R, V, W, H
<1>4. rt.buf \in [InVCs -> VCRecord]
  BY <1>3, PipelineIs
<1>5. \A iv \in won : vc[iv] \in VCIds
  <2>1. TAKE iv \in won
  <2>2. iv \in InVCs /\ rt.buf[iv] \in VCRecord
    BY <1>4
  <2>3. rt.buf[iv].route_set \in OutputSets
    BY <2>2 DEF VCRecord
  <2>4. rt.vc_rr_offset \in [Ports -> Int]
    BY <1>2 DEF InTurn
  <2>5. PiggybackVC(rt, iv, port[iv]) \in VCIds
    BY <2>3, <2>4, PiggybackIs
  <2> QED BY <2>5
<1> HIDE DEF vc, taken
<1>6. /\ DOMAIN taken = RouterFields /\ taken.buf = c
      /\ taken.route_vcs = rt.route_vcs /\ taken.vc_alloc_vcs = rt.vc_alloc_vcs
      /\ taken.sw_alloc_vcs = rt.sw_alloc_vcs /\ taken.sw_hold_vcs = rt.sw_hold_vcs
      /\ taken.crossbar_flits = rt.crossbar_flits /\ taken.held = rt.held
      /\ taken.output_buffer = rt.output_buffer
      /\ taken.sw_rr_offset = rt.sw_rr_offset /\ taken.vc_rr_offset = rt.vc_rr_offset
      /\ taken.sw_allocator = rt.sw_allocator /\ taken.vc_allocator = rt.vc_allocator
      /\ taken.spec_sw_allocator = rt.spec_sw_allocator
  BY <1>2, TakenFields DEF taken
<1>7. turn \in [Ports -> Int]
  <2>1. ASSUME NEW o \in Ports PROVE turn[o] \in Int
    <3>1. CASE o \in Range(port)
      <4> DEFINE iv == CHOOSE jv \in DOMAIN port : port[jv] = o
      <4>1. \E jv \in DOMAIN port : port[jv] = o
        BY <3>1 DEF Range
      <4>2. iv \in won
        BY <4>1, Zenon
      <4> HIDE DEF iv
      <4>3. vc[iv] \in Int
        BY <1>5, <4>2, BufferAssumption DEF VCIds
      <4>4. (vc[iv] + 1) % NumVCs \in Int
        BY <4>3, BufferAssumption
      <4>5. turn[o] = (vc[iv] + 1) % NumVCs
        BY <3>1, Zenon DEF iv
      <4> QED BY <4>4, <4>5
    <3>2. CASE o \notin Range(port)
      <4>1. turn[o] = rt.vc_rr_offset[o]
        BY <1>6, <3>2, Zenon
      <4> QED BY <1>2, <4>1 DEF InTurn
    <3> QED BY <3>1, <3>2
  <2>2. turn = [o \in Ports |-> turn[o]]
    OBVIOUS
  <2> HIDE DEF turn
  <2> QED BY <2>1, <2>2
<1> HIDE DEF turn, won
<1>8. /\ DOMAIN q = RouterFields /\ q.buf = taken.buf
      /\ q.route_vcs = taken.route_vcs /\ q.vc_alloc_vcs = taken.vc_alloc_vcs
      /\ q.sw_alloc_vcs = taken.sw_alloc_vcs /\ q.sw_hold_vcs = taken.sw_hold_vcs
      /\ q.crossbar_flits = taken.crossbar_flits /\ q.held = taken.held
      /\ q.output_buffer = taken.output_buffer
      /\ q.sw_rr_offset = taken.sw_rr_offset /\ q.vc_rr_offset = turn
      /\ q.sw_allocator = taken.sw_allocator /\ q.vc_allocator = taken.vc_allocator
      /\ q.spec_sw_allocator = taken.spec_sw_allocator
  BY <1>6 DEF RouterFields
<1> HIDE DEF q, c
<1>9. /\ won \in SUBSET InVCs
      /\ \A iv \in won : /\ rt.buf[iv].state = "vc_alloc" /\ rt.buf[iv].flits # <<>>
                         /\ port[iv] \in Ports /\ vc[iv] \in VCIds
  BY <1>5 DEF won
<1>10. Pipeline(c, R, V \ won, W, H)
  BY <1>3, <1>9, TakenPipeline DEF c
<1>11. V \ won = V
  <2>1. V = {}
    BY <1>3, PipelineIs
  <2> QED BY <2>1
<1>12. \A iv \in InVCs : /\ c[iv].flits = rt.buf[iv].flits
                         /\ iv \notin won => c[iv] = rt.buf[iv]
                         /\ iv \in won => c[iv].state = "active" /\ c[iv].out_port = port[iv]
  BY <1>4, <1>9, TakenAs DEF c
<1>13. Holding(rt.held, c, H)
  <2>1. \A iv \in H : iv \in InVCs /\ iv \notin won
    BY <1>3, <1>9, PipelineIs
  <2>2. \A iv \in H : c[iv].out_port = rt.buf[iv].out_port
    BY <1>12, <2>1
  <2> QED BY <1>3, <2>2, HoldingSame
<1>14. Lists(q) /\ Staged(q)
  <2>1. Lists(q)
    BY <1>2, <1>6, <1>8, Zenon DEF Lists
  <2>2. Staged(q)
    BY <1>6, <1>8, <1>10, <1>11, <1>13, Zenon DEF Staged, R, V, W, H
  <2> QED BY <2>1, <2>2
<1>15. Outgoing(q) /\ InTurn(q) /\ AllocatorsReady(q)
  BY <1>2, <1>6, <1>7, <1>8, Zenon DEF Outgoing, InTurn, AllocatorsReady
<1>16. RouterCore(q)
  BY <1>6, <1>8, <1>14, <1>15, Zenon DEF RouterCore
<1>17. HasTaken(q, rt, port)
  <2>1. q.buf = c
    BY <1>6, <1>8, Zenon
  <2>2. \A iv \in InVCs : /\ q.buf[iv].flits = rt.buf[iv].flits
                          /\ iv \notin DOMAIN port => q.buf[iv] = rt.buf[iv]
                          /\ iv \in DOMAIN port =>
                               q.buf[iv].state = "active" /\ q.buf[iv].out_port = port[iv]
    BY <1>12, <2>1, Zenon DEF won
  <2> QED BY <1>6, <1>8, <1>16, <2>2, Zenon DEF HasTaken
<1> QED BY <1>1, <1>17

\* The same whether or not the VC allocation is piggybacked: without it nothing
\* is taken.
LEMMA PiggybackKept ==
  ASSUME config \in Configs, NEW rt, RouterCore(rt),
         NEW port, DOMAIN port \subseteq InVCs, ~Piggyback => DOMAIN port = {},
         Piggyback => \A iv \in DOMAIN port :
           /\ rt.buf[iv].state = "vc_alloc" /\ rt.buf[iv].flits # <<>>
           /\ port[iv] \in Ports /\ PiggybackVCs(rt, iv, port[iv]) # {}
  PROVE  HasTaken(TakePiggyback(rt, port), rt, port)
<1>1. CASE Piggyback
  BY <1>1, PiggybackedKept
<1>2. CASE ~Piggyback
  <2>1. TakePiggyback(rt, port) = rt
    BY <1>2, Zenon DEF TakePiggyback
  <2>2. \A iv \in InVCs : iv \notin DOMAIN port
    BY <1>2
  <2>3. HasTaken(rt, rt, port)
    BY <2>2, Zenon DEF HasTaken
  <2> QED BY <2>1, <2>3
<1> QED BY <1>1, <1>2

\* What a VC may ask the switch for: an expanded output of its own of a port,
\* with room in the output buffer where a port has several.
MayAsk(rt, iv, eo) ==
  /\ eo \in 0..(NumPorts * config.output_speedup - 1)
  /\ eo \div config.output_speedup \in Ports
  /\ eo = ExpandedOutput(iv, eo \div config.output_speedup)
  /\ ~Speculates(rt, iv) => eo \div config.output_speedup = rt.buf[iv].out_port
  /\ ExpandedInput(iv) \notin DOMAIN rt.held
  /\ \A ei \in DOMAIN rt.held : rt.held[ei].output # eo
  /\ config.output_speedup # 1 => BufferedAt(rt, eo \div config.output_speedup) < OutputBufferSize

\* An input VC asks the switch for expanded outputs it may be sent to.
LEMMA SWOutputsAre ==
  ASSUME config \in Configs, NEW rt, RouterCore(rt), NEW iv \in Range(rt.sw_alloc_vcs),
         NEW eo \in SWOutputs(rt, iv)
  PROVE  MayAsk(rt, iv, eo)
<1> DEFINE
      wanted ==
        IF Speculates(rt, iv)
        THEN {out.port : out \in {u \in rt.buf[iv].route_set : MaySpeculate(rt, u)}}
        ELSE {o \in {rt.buf[iv].out_port} : MaySend(rt, iv)}
      free(x) == \A ei \in DOMAIN rt.held : rt.held[ei].output # x
      s == config.output_speedup
      v == rt.buf[iv]
<1>1. SWOutputs(rt, iv) = {x \in {ExpandedOutput(iv, o) : o \in wanted} :
                             ExpandedInput(iv) \notin DOMAIN rt.held /\ free(x)}
  BY Zenon DEF SWOutputs
<1>2. /\ iv \in InVCs /\ v \in VCRecord
      /\ v.state = "active" \/ (config.speculative /\ v.state = "vc_alloc")
      /\ v.state = "active" => v.out_port \in Ports
  <2>1. Pipeline(rt.buf, Range(rt.route_vcs), Range(rt.vc_alloc_vcs), Range(rt.sw_alloc_vcs),
                 Range(rt.sw_hold_vcs))
    BY DEF RouterCore, Staged
  <2>2. /\ rt.buf \in [InVCs -> VCRecord] /\ Range(rt.sw_alloc_vcs) \subseteq InVCs
        /\ \A jv \in InVCs : rt.buf[jv].state = "active" => rt.buf[jv].out_port \in Ports
        /\ \A jv \in Range(rt.sw_alloc_vcs) :
             rt.buf[jv].state = "active" \/ (config.speculative /\ rt.buf[jv].state = "vc_alloc")
    BY <2>1, PipelineIs
  <2> QED BY <2>2
<1>3. PICK o \in wanted : eo = ExpandedOutput(iv, o)
  BY <1>1, Zenon
<1>4. ExpandedInput(iv) \notin DOMAIN rt.held /\ free(eo)
  BY <1>1, Zenon
<1>5. /\ o \in Ports /\ (~Speculates(rt, iv) => o = v.out_port)
      /\ s # 1 => BufferedAt(rt, o) < OutputBufferSize
  <2>1. CASE Speculates(rt, iv)
    <3>1. PICK out \in {u \in v.route_set : MaySpeculate(rt, u)} : o = out.port
      BY <2>1, Zenon
    <3>2. out \in Outs
      BY <1>2 DEF VCRecord, OutputSets
    <3>3. out.port \in Ports
      BY <3>2, OutsAre
    <3>4. config.speculative
      BY <1>2, <2>1 DEF Speculates
    <3>5. s # 1 => config.spec_check_elig
      BY <3>4, ConfigFacts
    <3>6. config.spec_check_elig => BufferedAt(rt, out.port) < OutputBufferSize
      <4>1. MaySpeculate(rt, out)
        OBVIOUS
      <4> QED BY <4>1, Zenon DEF MaySpeculate
    <3> QED BY <2>1, <3>1, <3>3, <3>5, <3>6
  <2>2. CASE ~Speculates(rt, iv)
    <3>1. o = v.out_port /\ MaySend(rt, iv)
      BY <2>2, Zenon
    <3>2. v.out_port \in Ports
      BY <1>2, <2>2 DEF Speculates
    <3> QED BY <2>2, <3>1, <3>2, Zenon DEF MaySend
  <2> QED BY <2>1, <2>2
<1> HIDE DEF wanted
<1>6. eo \in 0..(NumPorts * s - 1) /\ eo \div s = o
  BY <1>2, <1>3, <1>5, ExpandedOutputIs
<1> QED BY <1>3, <1>4, <1>5, <1>6, Zenon DEF MayAsk

\* A pair of a row and a column is in the matrix.
LEMMA PairIn ==
  ASSUME NEW a, NEW S, NEW A, NEW B, a \in A, \A x \in S : x \in B, NEW r \in {a} \X S
  PROVE  r \in A \X B
OBVIOUS

\* A function.
IsMap(f) == f = [x \in DOMAIN f |-> f[x]]

\* Requests of VCs, that are granted to those VCs.
AreAsked(rt, requests, ivs) ==
  /\ AreRequests(requests, NumPorts * config.input_speedup, NumPorts * config.output_speedup)
  /\ IsMap(requests)
  /\ \A r \in DOMAIN requests : \E iv \in ivs :
       ExpandedInput(iv) = r[1] /\ r[2] \in SWOutputs(rt, iv) /\ requests[r].vc = iv[2]

\* The requests of _SWAllocEvaluate are within the allocator and made by VCs
\* that wait for it.
LEMMA SWRequestsAre ==
  ASSUME config \in Configs, NEW rt, RouterCore(rt),
         NEW ivs \in SUBSET Range(rt.sw_alloc_vcs),
         NEW outputs, outputs = [iv \in ivs |-> SWOutputs(rt, iv)]
  PROVE  AreAsked(rt, SWRequests(rt, outputs), ivs)
<1> DEFINE
      asks(r) == {iv \in DOMAIN outputs : ExpandedInput(iv) = r[1] /\ r[2] \in outputs[iv]}
      pri(r) == [vc \in {iv[2] : iv \in asks(r)} |->
                   IF Speculates(rt, <<r[1] \div config.input_speedup, vc>>) THEN Least ELSE 0]
      D == UNION {{ExpandedInput(iv)} \X outputs[iv] : iv \in DOMAIN outputs}
      req == [r \in D |-> Request(rt, r[1], pri(r))]
<1>1. SWRequests(rt, outputs) = Evaluated(req)
  BY Zenon DEF SWRequests
<1>2. Evaluated(req) = req
  BY EvaluatedIs, Zenon
<1>3. DOMAIN outputs = ivs /\ \A iv \in ivs : outputs[iv] = SWOutputs(rt, iv)
  BY Zenon
<1>4. ivs \subseteq InVCs
  <2>1. IsList(rt.sw_alloc_vcs, InVCs)
    BY DEF RouterCore, Lists
  <2>2. Range(rt.sw_alloc_vcs) \subseteq InVCs
    BY <2>1 DEF IsList, Range
  <2> QED BY <2>2
<1>5. ASSUME NEW r \in D
      PROVE  /\ r \in (0..(NumPorts * config.input_speedup - 1)) \X
                        (0..(NumPorts * config.output_speedup - 1))
             /\ Request(rt, r[1], pri(r)).in_pri \in Int /\ Request(rt, r[1], pri(r)).out_pri \in Int
             /\ \E iv \in ivs : /\ ExpandedInput(iv) = r[1] /\ r[2] \in SWOutputs(rt, iv)
                                /\ Request(rt, r[1], pri(r)).vc = iv[2]
  <2>1. PICK jv \in ivs : r \in {ExpandedInput(jv)} \X outputs[jv]
    BY <1>3, Zenon
  <2>2. r[1] = ExpandedInput(jv) /\ r[2] \in SWOutputs(rt, jv)
    BY <1>3, <2>1
  <2>3. jv \in asks(r)
    BY <1>3, <2>2
  <2>4. MayAsk(rt, jv, r[2])
    BY <2>2, SWOutputsAre
  <2>5. r[2] \in 0..(NumPorts * config.output_speedup - 1)
    BY <2>4 DEF MayAsk
  <2>6. r[1] \in 0..(NumPorts * config.input_speedup - 1) /\ r[1] \in ExpandedInputs
    BY <1>4, <2>2, ExpandedInputIs
  <2> DEFINE p == pri(r)
             vcs == {iv[2] : iv \in asks(r)}
             high == Highest(p)
             vc == FirstFrom(high, rt.sw_rr_offset[r[1]], NumVCs)
  <2>7. asks(r) \subseteq ivs
    BY <1>3
  <2>8. vcs \subseteq VCIds /\ vcs # {}
    <3> HIDE DEF asks
    <3> QED BY <1>4, <2>3, <2>7 DEF InVCs
  <2>9. DOMAIN p = vcs /\ \A x \in vcs : p[x] \in Int
    <3> DEFINE of(x) == IF Speculates(rt, <<r[1] \div config.input_speedup, x>>) THEN Least ELSE 0
    <3>1. \A x : of(x) \in Int
      <4>1. Least \in Int /\ 0 \in Int
        BY DEF Least
      <4> QED BY <4>1, Zenon
    <3>2. p = [x \in vcs |-> of(x)]
      BY Zenon
    <3> HIDE DEF p, vcs, of
    <3>3. DOMAIN p = vcs /\ \A x \in vcs : p[x] = of(x)
      BY <3>2, Zenon
    <3> QED BY <3>1, <3>3, Zenon
  <2>10. Request(rt, r[1], p) = [vc |-> vc, in_pri |-> p[vc], out_pri |-> p[vc]]
    BY Zenon DEF Request
  <2> HIDE DEF p, vcs, asks
  <2>11. IsFiniteSet(DOMAIN p)
    <3>1. NumVCs - 1 \in Int
      BY BufferAssumption
    <3>2. IsFiniteSet(VCIds)
      BY <3>1, FS_Interval, 0 \in Int, Zenon DEF VCIds
    <3> QED BY <2>8, <2>9, <3>2, FS_Subset
  <2>12. high # {} /\ high \subseteq vcs
    BY <2>8, <2>9, <2>11, HighestSome
  <2> HIDE DEF high
  <2>13. rt.sw_rr_offset[r[1]] \in Int
    BY <2>6 DEF RouterCore, InTurn
  <2>14. vc \in high
    <3>1. high \in SUBSET Int /\ NumVCs \in Nat \ {0}
      <4>1. VCIds \subseteq Int
        BY BufferAssumption DEF VCIds
      <4> QED BY <2>8, <2>12, <4>1, BufferAssumption
    <3> QED BY <2>12, <2>13, <3>1, FirstFromIn, Zenon
  <2> HIDE DEF vc
  <2>15. p[vc] \in Int /\ vc \in vcs
    BY <2>9, <2>12, <2>14
  <2>16. PICK iv \in asks(r) : vc = iv[2]
    BY <2>15, Zenon DEF vcs
  <2>17. iv \in ivs /\ ExpandedInput(iv) = r[1] /\ r[2] \in SWOutputs(rt, iv)
    BY <1>3, <2>16, Zenon DEF asks
  <2>18. /\ Request(rt, r[1], p).in_pri = p[vc] /\ Request(rt, r[1], p).out_pri = p[vc]
         /\ Request(rt, r[1], p).vc = vc
    BY <2>10
  <2>19. r \in (0..(NumPorts * config.input_speedup - 1)) \X
                        (0..(NumPorts * config.output_speedup - 1))
    <3> DEFINE a == ExpandedInput(jv)
               S == outputs[jv]
               A == 0..(NumPorts * config.input_speedup - 1)
               B == 0..(NumPorts * config.output_speedup - 1)
    <3>1. \A x \in S : x \in B
      <4>1. \A x \in SWOutputs(rt, jv) : MayAsk(rt, jv, x)
        BY SWOutputsAre
      <4> QED BY <1>3, <4>1, Zenon DEF MayAsk
    <3>2. a \in A
      BY <2>2, <2>6
    <3>3. r \in {a} \X S
      BY <2>1
    <3> HIDE DEF a, S, A, B
    <3>4. r \in A \X B
      BY <3>1, <3>2, <3>3, PairIn
    <3> QED BY <3>4 DEF A, B
  <2> QED BY <2>15, <2>16, <2>17, <2>18, <2>19, Zenon DEF p
<1>6. DOMAIN req = D
  BY Zenon
<1>11. IsMap(req)
  BY Zenon DEF IsMap
<1>7. \A r \in D : req[r] = Request(rt, r[1], pri(r))
  BY Zenon
<1> HIDE DEF D, pri, req
<1>8. AreRequests(req, NumPorts * config.input_speedup, NumPorts * config.output_speedup)
  <2>1. D \subseteq (0..(NumPorts * config.input_speedup - 1)) \X
                        (0..(NumPorts * config.output_speedup - 1))
    <3>1. \A r \in D : r \in (0..(NumPorts * config.input_speedup - 1)) \X
                             (0..(NumPorts * config.output_speedup - 1))
      BY <1>5, Zenon
    <3> QED BY <3>1, Zenon
  <2>2. \A r \in D : req[r].in_pri \in Int /\ req[r].out_pri \in Int
    BY <1>5, <1>7, Zenon
  <2> QED BY <1>6, <2>1, <2>2, Zenon DEF AreRequests
<1>9. \A r \in D : \E iv \in ivs :
              /\ ExpandedInput(iv) = r[1] /\ r[2] \in SWOutputs(rt, iv)
              /\ req[r].vc = iv[2]
  BY <1>5, <1>7, Zenon
<1>10. AreAsked(rt, req, ivs)
  <2>1. \A r \in DOMAIN req : \E iv \in ivs :
              /\ ExpandedInput(iv) = r[1] /\ r[2] \in SWOutputs(rt, iv)
              /\ req[r].vc = iv[2]
    BY <1>6, <1>9, Zenon
  <2> QED BY <1>8, <1>11, <2>1, Zenon DEF AreAsked
<1> QED BY <1>1, <1>2, <1>10

\* The grants of the switch, as SWAllocate computes them.
LEMMA SWAllocated ==
  ASSUME config \in Configs, NEW rt, RouterCore(rt)
  PROVE  \E ivs, spec \in SUBSET Range(rt.sw_alloc_vcs) :
           /\ SWAllocate(rt).requests = SWRequests(rt, [iv \in ivs |-> SWOutputs(rt, iv)])
           /\ SWAllocate(rt).spec_requests = SWRequests(rt, [iv \in spec |-> SWOutputs(rt, iv)])
           /\ SWAllocate(rt).sw = IF rt.sw_alloc_vcs # <<>>
                                  THEN Allocate(rt.sw_allocator, SWAllocate(rt).requests)
                                  ELSE rt.sw_allocator
           /\ SWAllocate(rt).spec = IF rt.sw_alloc_vcs # <<>> /\ SpecAllocator
                                    THEN Allocate(rt.spec_sw_allocator, SWAllocate(rt).spec_requests)
                                    ELSE rt.spec_sw_allocator
<1> DEFINE
      apart == {iv \in Range(rt.sw_alloc_vcs) : SpecAllocator /\ Speculates(rt, iv)}
      outputs(ivs) == Evaluated([iv \in ivs |-> SWOutputs(rt, iv)])
      other == Range(rt.sw_alloc_vcs) \ apart
      req == SWRequests(rt, outputs(other))
      sreq == SWRequests(rt, outputs(apart))
      runs == rt.sw_alloc_vcs # <<>>
      sw == IF runs THEN Allocate(rt.sw_allocator, req) ELSE rt.sw_allocator
      sp == IF runs /\ SpecAllocator THEN Allocate(rt.spec_sw_allocator, sreq)
            ELSE rt.spec_sw_allocator
<1>1. SWAllocate(rt) = [requests |-> req, spec_requests |-> sreq, sw |-> sw, spec |-> sp]
  BY Zenon DEF SWAllocate, SWGrants
<1>2. /\ req = SWRequests(rt, [iv \in other |-> SWOutputs(rt, iv)])
      /\ sreq = SWRequests(rt, [iv \in apart |-> SWOutputs(rt, iv)])
  BY EvaluatedIs, Zenon
<1>3. other \in SUBSET Range(rt.sw_alloc_vcs) /\ apart \in SUBSET Range(rt.sw_alloc_vcs)
  OBVIOUS
<1> DEFINE a == SWAllocate(rt)
<1> HIDE DEF req, sreq, other, apart, a
<1>4. a.requests = req /\ a.spec_requests = sreq /\ a.sw = sw /\ a.spec = sp
  BY <1>1 DEF a
<1>5. /\ a.requests = SWRequests(rt, [iv \in other |-> SWOutputs(rt, iv)])
      /\ a.spec_requests = SWRequests(rt, [iv \in apart |-> SWOutputs(rt, iv)])
      /\ a.sw = IF runs THEN Allocate(rt.sw_allocator, a.requests) ELSE rt.sw_allocator
      /\ a.spec = IF runs /\ SpecAllocator THEN Allocate(rt.spec_sw_allocator, a.spec_requests)
                  ELSE rt.spec_sw_allocator
  BY <1>2, <1>4, Zenon
<1> QED BY <1>3, <1>5, Zenon DEF a

\* Both allocators have matched what some VCs asked for.
AreGrants(rt, alloc) ==
  /\ IsAllocator(alloc.sw, config.sw_allocator, NumPorts * config.input_speedup,
                 NumPorts * config.output_speedup)
  /\ SpecAllocator => IsAllocator(alloc.spec, config.spec_sw_allocator,
                                  NumPorts * config.input_speedup, NumPorts * config.output_speedup)
  /\ DOMAIN alloc.spec = AllocatorFields
  /\ Matching(alloc.sw, DOMAIN alloc.requests) /\ Matching(alloc.spec, DOMAIN alloc.spec_requests)
  /\ \A r \in DOMAIN alloc.requests : \E iv \in Range(rt.sw_alloc_vcs) :
       ExpandedInput(iv) = r[1] /\ r[2] \in SWOutputs(rt, iv) /\ alloc.requests[r].vc = iv[2]
  /\ \A r \in DOMAIN alloc.spec_requests : \E iv \in Range(rt.sw_alloc_vcs) :
       ExpandedInput(iv) = r[1] /\ r[2] \in SWOutputs(rt, iv) /\ alloc.spec_requests[r].vc = iv[2]

\* After Clear, Allocate returns a matching of the requests, or there is none
\* when it does not run.
LEMMA Allocated ==
  ASSUME NEW type, NEW n \in Nat \ {0}, NEW m \in Nat \ {0}, IsType(type, n, m),
         NEW a, IsReady(a), IsAllocator(a, type, n, m),
         NEW requests, AreRequests(requests, n, m),
         requests = [r \in DOMAIN requests |-> requests[r]],
         NEW runs \in BOOLEAN, NEW b, b = IF runs THEN Allocate(a, requests) ELSE a
  PROVE  IsAllocator(b, type, n, m) /\ Matching(b, DOMAIN requests)
<1>1. a.inmatch = <<>> /\ a.outmatch = <<>>
  BY DEF IsReady
<1>2. CASE runs
  <2>1. b = Allocate(a, requests)
    BY <1>2
  <2>2. IsAllocator(b, type, n, m)
    BY <1>1, <2>1, AllocateMatches, Zenon
  <2>3. Matching(Allocate(a, requests), DOMAIN requests)
    BY <1>1, AllocateMatches, Zenon
  <2> QED BY <2>1, <2>2, <2>3
<1>3. CASE ~runs
  <2>1. b = a /\ DOMAIN a.inmatch = {}
    BY <1>1, <1>3
  <2>2. Matching(a, DOMAIN requests)
    BY <2>1, Zenon DEF Matching
  <2> QED BY <2>1, <2>2
<1> QED BY <1>2, <1>3

\* What _SWAllocEvaluate grants: a matching of what was asked, where the
\* speculative grants use neither inputs nor outputs of the others.
LEMMA GrantsAre ==
  ASSUME config \in Configs, NEW rt, RouterCore(rt)
  PROVE  AreGrants(rt, SWAllocate(rt))
<1> DEFINE alloc == SWAllocate(rt)
           n == NumPorts * config.input_speedup
           m == NumPorts * config.output_speedup
           runs == rt.sw_alloc_vcs # <<>>
           W == Range(rt.sw_alloc_vcs)
<1>1. PICK ivs \in SUBSET W, spec \in SUBSET W :
        /\ alloc.requests = SWRequests(rt, [iv \in ivs |-> SWOutputs(rt, iv)])
        /\ alloc.spec_requests = SWRequests(rt, [iv \in spec |-> SWOutputs(rt, iv)])
        /\ alloc.sw = IF runs THEN Allocate(rt.sw_allocator, alloc.requests) ELSE rt.sw_allocator
        /\ alloc.spec = IF runs /\ SpecAllocator
                        THEN Allocate(rt.spec_sw_allocator, alloc.spec_requests)
                        ELSE rt.spec_sw_allocator
  BY SWAllocated, Zenon
<1> HIDE DEF alloc
<1>2. /\ AreRequests(alloc.requests, n, m)
      /\ alloc.requests = [r \in DOMAIN alloc.requests |-> alloc.requests[r]]
      /\ \A r \in DOMAIN alloc.requests : \E iv \in ivs :
           ExpandedInput(iv) = r[1] /\ r[2] \in SWOutputs(rt, iv) /\ alloc.requests[r].vc = iv[2]
  <2>1. AreAsked(rt, SWRequests(rt, [iv \in ivs |-> SWOutputs(rt, iv)]), ivs)
    BY SWRequestsAre
  <2>2. AreAsked(rt, alloc.requests, ivs)
    BY <1>1, <2>1
  <2> QED BY <2>2, Zenon DEF AreAsked, IsMap
<1>3. /\ AreRequests(alloc.spec_requests, n, m)
      /\ alloc.spec_requests = [r \in DOMAIN alloc.spec_requests |-> alloc.spec_requests[r]]
      /\ \A r \in DOMAIN alloc.spec_requests : \E iv \in spec :
           ExpandedInput(iv) = r[1] /\ r[2] \in SWOutputs(rt, iv) /\ alloc.spec_requests[r].vc = iv[2]
  <2>1. AreAsked(rt, SWRequests(rt, [iv \in spec |-> SWOutputs(rt, iv)]), spec)
    BY SWRequestsAre
  <2>2. AreAsked(rt, alloc.spec_requests, spec)
    BY <1>1, <2>1
  <2> QED BY <2>2, Zenon DEF AreAsked, IsMap
<1>4. n \in Nat \ {0} /\ m \in Nat \ {0}
  BY Sizes
<1>5. /\ IsType(config.sw_allocator, n, m)
      /\ SpecAllocator => IsType(config.spec_sw_allocator, n, m)
  BY ConfigFacts
<1>6. /\ IsReady(rt.sw_allocator) /\ IsReady(rt.spec_sw_allocator)
      /\ IsAllocator(rt.sw_allocator, config.sw_allocator, n, m)
      /\ SpecAllocator => IsAllocator(rt.spec_sw_allocator, config.spec_sw_allocator, n, m)
  BY Zenon DEF RouterCore, AllocatorsReady
<1> HIDE DEF n, m
<1>7. runs \in BOOLEAN
  OBVIOUS
<1> HIDE DEF runs
<1>8. IsAllocator(alloc.sw, config.sw_allocator, n, m) /\ Matching(alloc.sw, DOMAIN alloc.requests)
  <2> DEFINE b == alloc.sw
             requests == alloc.requests
             a == rt.sw_allocator
             type == config.sw_allocator
  <2>1. /\ b = IF runs THEN Allocate(a, requests) ELSE a
        /\ AreRequests(requests, n, m) /\ requests = [r \in DOMAIN requests |-> requests[r]]
        /\ IsReady(a) /\ IsAllocator(a, type, n, m) /\ IsType(type, n, m)
    BY <1>1, <1>2, <1>5, <1>6, Zenon
  <2> HIDE DEF b, requests, a, type
  <2>2. IsAllocator(b, type, n, m)
    BY <1>4, <1>7, <2>1, Allocated, Zenon
  <2>3. Matching(b, DOMAIN requests)
    BY <1>4, <1>7, <2>1, Allocated, Zenon
  <2> QED BY <2>2, <2>3 DEF b, requests, type
<1>9. /\ SpecAllocator => IsAllocator(alloc.spec, config.spec_sw_allocator, n, m)
      /\ DOMAIN alloc.spec = AllocatorFields
      /\ Matching(alloc.spec, DOMAIN alloc.spec_requests)
  <2> DEFINE b == alloc.spec
             requests == alloc.spec_requests
             a == rt.spec_sw_allocator
             type == config.spec_sw_allocator
  <2>1. CASE SpecAllocator
    <3>1. /\ b = IF runs THEN Allocate(a, requests) ELSE a
          /\ AreRequests(requests, n, m) /\ requests = [r \in DOMAIN requests |-> requests[r]]
          /\ IsReady(a) /\ IsAllocator(a, type, n, m) /\ IsType(type, n, m)
      BY <1>1, <1>3, <1>5, <1>6, <2>1, Zenon
    <3> HIDE DEF b, requests, a, type
    <3>2. IsAllocator(b, type, n, m)
      BY <1>4, <1>7, <3>1, Allocated, Zenon
    <3>3. Matching(b, DOMAIN requests)
      BY <1>4, <1>7, <3>1, Allocated, Zenon
    <3>4. DOMAIN b = AllocatorFields
      BY <3>2, Zenon DEF IsAllocator
    <3> QED BY <3>2, <3>3, <3>4 DEF b, requests, type
  <2>2. CASE ~SpecAllocator
    <3>1. b = a
      BY <1>1, <2>2, Zenon
    <3>2. DOMAIN a = AllocatorFields /\ a.inmatch = <<>>
      BY <1>6, Zenon DEF IsReady
    <3> HIDE DEF a
    <3>3. DOMAIN a.inmatch = {}
      BY <3>2
    <3>4. Matching(b, DOMAIN requests)
      BY <3>1, <3>3, Zenon DEF Matching
    <3> QED BY <2>2, <3>1, <3>2, <3>4
  <2> QED BY <2>1, <2>2
<1>10. /\ \A r \in DOMAIN alloc.requests : \E iv \in W :
            ExpandedInput(iv) = r[1] /\ r[2] \in SWOutputs(rt, iv) /\ alloc.requests[r].vc = iv[2]
       /\ \A r \in DOMAIN alloc.spec_requests : \E iv \in W :
            ExpandedInput(iv) = r[1] /\ r[2] \in SWOutputs(rt, iv) /\ alloc.spec_requests[r].vc = iv[2]
  BY <1>2, <1>3
<1> QED BY <1>8, <1>9, <1>10, Zenon DEF AreGrants, alloc, n, m

\* The VCs that are granted the switch, and the expanded output one has.
GrantedVCs(rt, alloc) == {iv \in Range(rt.sw_alloc_vcs) : Granted(rt, alloc, iv)}

-----------------------------------------------------------------------------
\* What _SWAllocEvaluate grants.

\* The expanded output a VC is granted.
GrantedTo(alloc, iv) ==
  IF ExpandedInput(iv) \in DOMAIN alloc.sw.inmatch THEN alloc.sw.inmatch[ExpandedInput(iv)]
  ELSE alloc.spec.inmatch[ExpandedInput(iv)]

\* A VC is known by its expanded input and its number.
LEMMA SameVC ==
  ASSUME config \in Configs, NEW iv \in InVCs, NEW jv \in InVCs,
         ExpandedInput(iv) = ExpandedInput(jv), iv[2] = jv[2]
  PROVE  iv = jv
<1>1. iv[1] = jv[1]
  BY ExpandedInputIs
<1> QED BY <1>1 DEF InVCs

\* A VC has the switch from its own allocator, or from the speculative one,
\* which did not give it an output of the other.
LEMMA GrantedFrom ==
  ASSUME NEW rt, NEW alloc, NEW iv, Granted(rt, alloc, iv)
  PROVE  LET ei == ExpandedInput(iv)
         IN \/ /\ ei \in DOMAIN alloc.sw.inmatch
               /\ alloc.requests[<<ei, alloc.sw.inmatch[ei]>>].vc = iv[2]
            \/ /\ ei \notin DOMAIN alloc.sw.inmatch /\ ei \in DOMAIN alloc.spec.inmatch
               /\ alloc.spec_requests[<<ei, alloc.spec.inmatch[ei]>>].vc = iv[2]
               /\ \/ ~HasRequests(alloc.requests, alloc.spec.inmatch[ei])
                  \/ alloc.spec.inmatch[ei] \notin DOMAIN alloc.sw.outmatch
BY Zenon DEF Granted

\* What is granted was asked for by the VC that has it.
LEMMA GrantIs ==
  ASSUME config \in Configs, NEW rt, RouterCore(rt),
         NEW alloc, AreGrants(rt, alloc),
         NEW iv \in Range(rt.sw_alloc_vcs), Granted(rt, alloc, iv)
  PROVE  /\ iv \in InVCs
         /\ MayAsk(rt, iv, GrantedTo(alloc, iv))
         /\ GrantedOutput(alloc, iv) = GrantedTo(alloc, iv) \div config.output_speedup
<1> DEFINE ei == ExpandedInput(iv)
<1>1. /\ Matching(alloc.sw, DOMAIN alloc.requests) /\ Matching(alloc.spec, DOMAIN alloc.spec_requests)
      /\ \A r \in DOMAIN alloc.requests : \E jv \in Range(rt.sw_alloc_vcs) :
           ExpandedInput(jv) = r[1] /\ r[2] \in SWOutputs(rt, jv) /\ alloc.requests[r].vc = jv[2]
      /\ \A r \in DOMAIN alloc.spec_requests : \E jv \in Range(rt.sw_alloc_vcs) :
           ExpandedInput(jv) = r[1] /\ r[2] \in SWOutputs(rt, jv) /\ alloc.spec_requests[r].vc = jv[2]
  BY Zenon DEF AreGrants
<1>2. \A jv \in Range(rt.sw_alloc_vcs) : jv \in InVCs
  <2>1. IsList(rt.sw_alloc_vcs, InVCs)
    BY DEF RouterCore, Lists
  <2> QED BY <2>1 DEF IsList, Range
<1>3. \/ /\ ei \in DOMAIN alloc.sw.inmatch
         /\ alloc.requests[<<ei, alloc.sw.inmatch[ei]>>].vc = iv[2]
      \/ /\ ei \notin DOMAIN alloc.sw.inmatch /\ ei \in DOMAIN alloc.spec.inmatch
         /\ alloc.spec_requests[<<ei, alloc.spec.inmatch[ei]>>].vc = iv[2]
  BY GrantedFrom, Zenon
<1>4. GrantedTo(alloc, iv) \in SWOutputs(rt, iv)
  <2>1. CASE ei \in DOMAIN alloc.sw.inmatch
    <3> DEFINE eo == alloc.sw.inmatch[ei]
    <3>1. <<ei, eo>> \in DOMAIN alloc.requests /\ alloc.requests[<<ei, eo>>].vc = iv[2]
      BY <1>1, <1>3, <2>1, Zenon DEF Matching
    <3> HIDE DEF eo
    <3>2. PICK jv \in Range(rt.sw_alloc_vcs) :
            /\ ExpandedInput(jv) = <<ei, eo>>[1] /\ <<ei, eo>>[2] \in SWOutputs(rt, jv)
            /\ alloc.requests[<<ei, eo>>].vc = jv[2]
      BY <1>1, <3>1, Zenon
    <3>3. ExpandedInput(jv) = ei /\ eo \in SWOutputs(rt, jv) /\ iv[2] = jv[2]
      BY <3>1, <3>2
    <3>4. iv = jv
      BY <1>2, <3>3, SameVC
    <3> QED BY <2>1, <3>3, <3>4, Zenon DEF GrantedTo, eo
  <2>2. CASE ei \notin DOMAIN alloc.sw.inmatch
    <3> DEFINE eo == alloc.spec.inmatch[ei]
    <3>1. <<ei, eo>> \in DOMAIN alloc.spec_requests /\ alloc.spec_requests[<<ei, eo>>].vc = iv[2]
      BY <1>1, <1>3, <2>2, Zenon DEF Matching
    <3> HIDE DEF eo
    <3>2. PICK jv \in Range(rt.sw_alloc_vcs) :
            /\ ExpandedInput(jv) = <<ei, eo>>[1] /\ <<ei, eo>>[2] \in SWOutputs(rt, jv)
            /\ alloc.spec_requests[<<ei, eo>>].vc = jv[2]
      BY <1>1, <3>1, Zenon
    <3>3. ExpandedInput(jv) = ei /\ eo \in SWOutputs(rt, jv) /\ iv[2] = jv[2]
      BY <3>1, <3>2
    <3>4. iv = jv
      BY <1>2, <3>3, SameVC
    <3> QED BY <2>2, <3>3, <3>4, Zenon DEF GrantedTo, eo
  <2> QED BY <2>1, <2>2
<1>5. GrantedOutput(alloc, iv) = GrantedTo(alloc, iv) \div config.output_speedup
  BY Zenon DEF GrantedOutput, GrantedTo
<1> QED BY <1>2, <1>4, <1>5, SWOutputsAre

\* No two VCs are granted an expanded input, or an expanded output.
LEMMA GrantsApart ==
  ASSUME config \in Configs, NEW rt, RouterCore(rt),
         NEW alloc, AreGrants(rt, alloc),
         NEW iv \in GrantedVCs(rt, alloc), NEW jv \in GrantedVCs(rt, alloc),
         \/ ExpandedInput(iv) = ExpandedInput(jv)
         \/ GrantedTo(alloc, iv) = GrantedTo(alloc, jv)
  PROVE  iv = jv
<1> DEFINE ei == ExpandedInput(iv)
           ej == ExpandedInput(jv)
           in == alloc.sw.inmatch
           sin == alloc.spec.inmatch
<1>1. /\ iv \in Range(rt.sw_alloc_vcs) /\ Granted(rt, alloc, iv)
      /\ jv \in Range(rt.sw_alloc_vcs) /\ Granted(rt, alloc, jv)
  BY DEF GrantedVCs
<1>2. iv \in InVCs /\ jv \in InVCs
  BY <1>1, GrantIs
<1>3. \/ ei \in DOMAIN in /\ alloc.requests[<<ei, in[ei]>>].vc = iv[2]
      \/ /\ ei \notin DOMAIN in /\ ei \in DOMAIN sin
         /\ alloc.spec_requests[<<ei, sin[ei]>>].vc = iv[2]
         /\ \/ ~HasRequests(alloc.requests, sin[ei])
            \/ sin[ei] \notin DOMAIN alloc.sw.outmatch
  BY <1>1, GrantedFrom, Zenon
<1>4. \/ ej \in DOMAIN in /\ alloc.requests[<<ej, in[ej]>>].vc = jv[2]
      \/ /\ ej \notin DOMAIN in /\ ej \in DOMAIN sin
         /\ alloc.spec_requests[<<ej, sin[ej]>>].vc = jv[2]
         /\ \/ ~HasRequests(alloc.requests, sin[ej])
            \/ sin[ej] \notin DOMAIN alloc.sw.outmatch
  BY <1>1, GrantedFrom, Zenon
<1>5. /\ GrantedTo(alloc, iv) = IF ei \in DOMAIN in THEN in[ei] ELSE sin[ei]
      /\ GrantedTo(alloc, jv) = IF ej \in DOMAIN in THEN in[ej] ELSE sin[ej]
  BY Zenon DEF GrantedTo
<1>6. /\ \A i \in DOMAIN in : /\ <<i, in[i]>> \in DOMAIN alloc.requests
                              /\ in[i] \in DOMAIN alloc.sw.outmatch /\ alloc.sw.outmatch[in[i]] = i
      /\ \A i \in DOMAIN sin : alloc.spec.outmatch[sin[i]] = i
  BY Zenon DEF AreGrants, Matching
<1>7. \A i \in DOMAIN in : HasRequests(alloc.requests, in[i])
  <2>1. TAKE i \in DOMAIN in
  <2>2. <<i, in[i]>> \in DOMAIN alloc.requests /\ <<i, in[i]>>[2] = in[i]
    BY <1>6
  <2> QED BY <2>2, Zenon DEF HasRequests
<1> HIDE DEF ei, ej, in, sin
<1>8. ei = ej
  <2>1. CASE ei = ej
    BY <2>1
  <2>2. CASE GrantedTo(alloc, iv) = GrantedTo(alloc, jv)
    <3>1. CASE ei \in DOMAIN in /\ ej \in DOMAIN in
      BY <1>5, <1>6, <2>2, <3>1, Zenon
    <3>2. CASE ei \notin DOMAIN in /\ ej \notin DOMAIN in
      BY <1>3, <1>4, <1>5, <1>6, <2>2, <3>2, Zenon
    <3>3. CASE ei \in DOMAIN in /\ ej \notin DOMAIN in
      BY <1>4, <1>5, <1>6, <1>7, <2>2, <3>3, Zenon
    <3>4. CASE ei \notin DOMAIN in /\ ej \in DOMAIN in
      BY <1>3, <1>5, <1>6, <1>7, <2>2, <3>4, Zenon
    <3> QED BY <3>1, <3>2, <3>3, <3>4
  <2> QED BY <2>1, <2>2 DEF ei, ej
<1>9. iv[2] = jv[2]
  <2>1. CASE ei \in DOMAIN in
    <3>1. alloc.requests[<<ei, in[ei]>>].vc = iv[2]
      BY <1>3, <2>1, Zenon
    <3>2. ej \in DOMAIN in
      BY <1>8, <2>1, Zenon
    <3>3. alloc.requests[<<ej, in[ej]>>].vc = jv[2]
      BY <1>4, <3>2, Zenon
    <3> QED BY <1>8, <3>1, <3>3
  <2>2. CASE ei \notin DOMAIN in
    <3>1. alloc.spec_requests[<<ei, sin[ei]>>].vc = iv[2]
      BY <1>3, <2>2, Zenon
    <3>2. ej \notin DOMAIN in
      BY <1>8, <2>2, Zenon
    <3>3. alloc.spec_requests[<<ej, sin[ej]>>].vc = jv[2]
      BY <1>4, <3>2, Zenon
    <3> QED BY <1>8, <3>1, <3>3
  <2> QED BY <2>1, <2>2
<1> QED BY <1>2, <1>8, <1>9, SameVC DEF ei, ej

\* SwitchUpdate keeps the invariant.
LEMMA SwitchKept ==
  ASSUME config \in Configs, NEW rt, RouterCore(rt)
  PROVE  RouterCore(SwitchUpdate(rt))
<1> DEFINE q == SwitchUpdate(rt)
<1>1. /\ DOMAIN rt = RouterFields /\ Lists(rt) /\ Staged(rt) /\ Outgoing(rt) /\ InTurn(rt)
      /\ AllocatorsReady(rt)
  BY DEF RouterCore
<1>2. /\ DOMAIN q = RouterFields /\ q.buf = rt.buf
      /\ q.route_vcs = rt.route_vcs /\ q.vc_alloc_vcs = rt.vc_alloc_vcs
      /\ q.sw_alloc_vcs = rt.sw_alloc_vcs /\ q.sw_hold_vcs = rt.sw_hold_vcs
      /\ q.crossbar_flits = <<>> /\ q.held = rt.held
      /\ q.sw_rr_offset = rt.sw_rr_offset /\ q.vc_rr_offset = rt.vc_rr_offset
      /\ q.sw_allocator = rt.sw_allocator /\ q.vc_allocator = rt.vc_allocator
      /\ q.spec_sw_allocator = rt.spec_sw_allocator
  BY <1>1, SwitchedFields, Zenon
<1>3. q.output_buffer \in [Ports -> Seq(SentFlit)]
  <2>1. /\ rt.crossbar_flits \in Seq([f : SentFlit, output : Ports])
        /\ rt.output_buffer \in [Ports -> Seq(SentFlit)]
    BY <1>1, Zenon DEF Outgoing
  <2>2. "output_buffer" \in DOMAIN rt /\ "crossbar_flits" \in DOMAIN rt
    BY <1>1 DEF RouterFields
  <2>3. \A x \in [f : SentFlit, output : Ports] : x.f \in SentFlit
    OBVIOUS
  <2>4. \A o \in Ports : rt.output_buffer[o] \in Seq(SentFlit)
    BY <2>1
  <2> DEFINE S == [f : SentFlit, output : Ports]
  <2> HIDE DEF q, S
  <2>5. \A o \in Ports : DOMAIN SwitchUpdate(rt).output_buffer = Ports
    BY <2>1, <2>2, <2>3, <2>4, SwitchedBuffers, Zenon DEF S
  <2>6. \A o \in Ports : SwitchUpdate(rt).output_buffer[o] \in Seq(SentFlit)
    BY <2>1, <2>2, <2>3, <2>4, SwitchedBuffers, Zenon DEF S
  <2>7. 0 \in Ports
    BY RouterAssumption DEF Ports
  <2>8. DOMAIN q.output_buffer = Ports
    BY <2>5, <2>7 DEF q
  <2>9. q.output_buffer = [o \in Ports |-> q.output_buffer[o]]
    <3>1. SwitchUpdate(rt).output_buffer =
            [o \in Ports |-> rt.output_buffer[o] \o
               [i \in DOMAIN Selected(rt.crossbar_flits, Toward(rt, o)) |->
                  Selected(rt.crossbar_flits, Toward(rt, o))[i].f]]
      <4> DEFINE B == [o \in Ports |-> rt.output_buffer[o] \o
                        [i \in DOMAIN Selected(rt.crossbar_flits, Toward(rt, o)) |->
                          Selected(rt.crossbar_flits, Toward(rt, o))[i].f]]
      <4>1. SwitchUpdate(rt) = [rt EXCEPT !.output_buffer = Evaluated(B), !.crossbar_flits = <<>>]
        BY Zenon DEF SwitchUpdate
      <4>2. Evaluated(B) = B
        BY EvaluatedIs, Zenon
      <4> HIDE DEF B
      <4> QED BY <2>2, <4>1, <4>2 DEF B
    <3> DEFINE g(o) == rt.output_buffer[o] \o
                        [i \in DOMAIN Selected(rt.crossbar_flits, Toward(rt, o)) |->
                          Selected(rt.crossbar_flits, Toward(rt, o))[i].f]
    <3>2. q.output_buffer = [o \in Ports |-> g(o)]
      BY <3>1, Zenon DEF q
    <3> HIDE DEF g
    <3> QED BY <3>2
  <2> QED BY <2>6, <2>9 DEF q
<1> HIDE DEF q
<1>4. Lists(q) /\ Staged(q) /\ InTurn(q) /\ AllocatorsReady(q)
  BY <1>1, <1>2, Zenon DEF Lists, Staged, InTurn, AllocatorsReady
<1>5. Outgoing(q)
  <2>1. q.crossbar_flits \in Seq([f : SentFlit, output : Ports])
    BY <1>2
  <2>2. Spread(q.crossbar_flits)
    <3> DEFINE none == [i \in {} |-> 0]
    <3>1. DOMAIN q.crossbar_flits = {}
      BY <1>2
    <3>2. none \in [{} -> 0..(config.output_speedup - 1)]
      OBVIOUS
    <3> QED BY <3>1, <3>2, Zenon DEF Spread
  <2> QED BY <1>3, <2>1, <2>2 DEF Outgoing
<1> QED BY <1>2, <1>4, <1>5 DEF RouterCore, q

\* A list that begins with another.
Begins(w, l, A) == \E t \in Seq(A) : l = w \o t

\* A list begins with itself.
LEMMA BeginsItself ==
  ASSUME NEW A, NEW w \in Seq(A)
  PROVE  Begins(w, w, A)
<1>1. w = w \o <<>> /\ <<>> \in Seq(A)
  OBVIOUS
<1> QED BY <1>1 DEF Begins

\* A list goes on beginning with what it began with as it grows.
LEMMA BeginsOn ==
  ASSUME NEW A, NEW w \in Seq(A), NEW l, Begins(w, l, A), NEW u \in Seq(A)
  PROVE  Begins(w, l \o u, A)
<1>1. PICK t \in Seq(A) : l = w \o t
  BY DEF Begins
<1>2. (w \o t) \o u = w \o (t \o u) /\ t \o u \in Seq(A)
  BY SMTT(30)
<1> QED BY <1>1, <1>2 DEF Begins

\* The two parts of a list without repetitions have nothing in common.
LEMMA Parted ==
  ASSUME NEW A, NEW s \in Seq(A), NEW t \in Seq(A), IsList(s \o t, A)
  PROVE  IsList(s, A) /\ IsList(t, A) /\ Range(s) \intersect Range(t) = {}
<1> DEFINE l == s \o t
<1>1. /\ l \in Seq(A) /\ DOMAIN l = 1..(Len(s) + Len(t))
      /\ \A i \in 1..Len(s) : l[i] = s[i]
      /\ \A i \in 1..Len(t) : l[Len(s) + i] = t[i]
      /\ \A i, j \in DOMAIN l : l[i] = l[j] => i = j
      /\ Len(s) \in Nat /\ Len(t) \in Nat /\ DOMAIN s = 1..Len(s) /\ DOMAIN t = 1..Len(t)
  BY DEF IsList
<1> HIDE DEF l
<1>2. \A i, j \in DOMAIN s : s[i] = s[j] => i = j
  BY <1>1
<1>3. \A i, j \in DOMAIN t : t[i] = t[j] => i = j
  <2>1. TAKE i, j \in DOMAIN t
  <2>2. Len(s) + i \in DOMAIN l /\ Len(s) + j \in DOMAIN l
    BY <1>1
  <2>3. t[i] = t[j] => Len(s) + i = Len(s) + j
    BY <1>1, <2>2
  <2> QED BY <1>1, <2>3
<1>4. \A i \in DOMAIN s, j \in DOMAIN t : s[i] # t[j]
  <2>1. TAKE i \in DOMAIN s, j \in DOMAIN t
  <2>2. i \in DOMAIN l /\ Len(s) + j \in DOMAIN l /\ i # Len(s) + j
    BY <1>1
  <2>3. l[i] = s[i] /\ l[Len(s) + j] = t[j]
    BY <1>1
  <2> QED BY <1>1, <2>2, <2>3
<1> QED BY <1>2, <1>3, <1>4 DEF IsList, Range

\* A list of some elements holds no others.
LEMMA RangeOf ==
  ASSUME NEW A, NEW s, IsList(s, A)
  PROVE  s \in Seq(A) /\ Range(s) \subseteq A
BY DEF IsList, Range

\* RouteUpdate keeps the invariant.
LEMMA RouteKept ==
  ASSUME config \in Configs, NEW rt, RouterCore(rt),
         NEW routed, IsRouted(routed, Range(rt.route_vcs))
  PROVE  RouterCore(RouteUpdate(rt, routed))
<1> DEFINE q == RouteUpdate(rt, routed)
           c == RoutedAt(rt.buf, routed)
           R == Range(rt.route_vcs)
           V == Range(rt.vc_alloc_vcs)
           W == Range(rt.sw_alloc_vcs)
           H == Range(rt.sw_hold_vcs)
<1>1. /\ DOMAIN rt = RouterFields /\ Lists(rt) /\ Staged(rt) /\ Outgoing(rt) /\ InTurn(rt)
      /\ AllocatorsReady(rt)
  BY DEF RouterCore
<1>2. /\ DOMAIN q = RouterFields /\ q.buf = c
      /\ q.route_vcs = <<>>
      /\ q.vc_alloc_vcs = IF Piggyback THEN rt.vc_alloc_vcs ELSE rt.vc_alloc_vcs \o rt.route_vcs
      /\ q.sw_alloc_vcs = IF config.speculative THEN rt.sw_alloc_vcs \o rt.route_vcs
                          ELSE rt.sw_alloc_vcs
      /\ q.sw_hold_vcs = rt.sw_hold_vcs
      /\ q.crossbar_flits = rt.crossbar_flits /\ q.held = rt.held
      /\ q.output_buffer = rt.output_buffer
      /\ q.sw_rr_offset = rt.sw_rr_offset /\ q.vc_rr_offset = rt.vc_rr_offset
      /\ q.sw_allocator = rt.sw_allocator /\ q.vc_allocator = rt.vc_allocator
      /\ q.spec_sw_allocator = rt.spec_sw_allocator
  BY <1>1, RoutedFields, Zenon
<1> HIDE DEF q
<1>3. Pipeline(rt.buf, R, V, W, H) /\ Holding(rt.held, rt.buf, H)
  BY <1>1, Zenon DEF Staged
<1>4. /\ IsList(rt.route_vcs, InVCs) /\ IsList(rt.vc_alloc_vcs, InVCs)
      /\ IsList(rt.sw_alloc_vcs, InVCs) /\ IsList(rt.sw_hold_vcs, InVCs)
  BY <1>1, Zenon DEF Lists
<1> DEFINE V2 == V \union (IF Piggyback THEN {} ELSE R)
           W2 == W \union (IF config.speculative THEN R ELSE {})
<1>5. /\ Pipeline(c, {}, V2, W2, H)
      /\ R \intersect V = {} /\ R \intersect W = {} /\ R \intersect H = {}
      /\ \A iv \in InVCs \ R : c[iv] = rt.buf[iv]
  <2>1. IsRouted(routed, R)
    OBVIOUS
  <2> HIDE DEF R, V, W, H, c, V2, W2
  <2>2. Pipeline(c, {}, V2, W2, H)
    BY <1>3, <2>1, RoutedPipeline DEF c, V2, W2
  <2>3. R \intersect V = {} /\ R \intersect W = {} /\ R \intersect H = {}
    BY <1>3, PipelineIs
  <2>4. \A iv \in InVCs \ R : c[iv] = rt.buf[iv]
    BY <2>1 DEF c, RoutedAt, IsRouted
  <2> QED BY <2>2, <2>3, <2>4
<1>6. IsList(q.vc_alloc_vcs, InVCs) /\ Range(q.vc_alloc_vcs) = V2
  <2>1. CASE Piggyback
    BY <1>2, <1>4, <2>1
  <2>2. CASE ~Piggyback
    <3>1. V \intersect R = {}
      BY <1>5
    <3>2. IsList(rt.vc_alloc_vcs \o rt.route_vcs, InVCs)
      BY <1>4, <3>1, Joined
    <3>3. Range(rt.vc_alloc_vcs \o rt.route_vcs) = V \union R
      <4>1. rt.vc_alloc_vcs \in Seq(InVCs) /\ rt.route_vcs \in Seq(InVCs)
        BY <1>4, Zenon DEF IsList
      <4> QED BY <4>1, JoinedRange, Zenon
    <3> QED BY <1>2, <2>2, <3>2, <3>3
  <2> QED BY <2>1, <2>2
<1>7. IsList(q.sw_alloc_vcs, InVCs) /\ Range(q.sw_alloc_vcs) = W2
  <2>1. CASE ~config.speculative
    BY <1>2, <1>4, <2>1
  <2>2. CASE config.speculative
    <3>1. W \intersect R = {}
      BY <1>5
    <3>2. IsList(rt.sw_alloc_vcs \o rt.route_vcs, InVCs)
      BY <1>4, <3>1, Joined
    <3>3. Range(rt.sw_alloc_vcs \o rt.route_vcs) = W \union R
      <4>1. rt.sw_alloc_vcs \in Seq(InVCs) /\ rt.route_vcs \in Seq(InVCs)
        BY <1>4, Zenon DEF IsList
      <4> QED BY <4>1, JoinedRange, Zenon
    <3> QED BY <1>2, <2>2, <3>2, <3>3
  <2> QED BY <2>1, <2>2
<1> HIDE DEF V2, W2, c
<1>8. IsList(q.route_vcs, InVCs) /\ Range(q.route_vcs) = {}
  BY <1>2, EmptyList
<1>9. Lists(q)
  BY <1>2, <1>4, <1>6, <1>7, <1>8, Zenon DEF Lists
<1>10. Holding(rt.held, c, H)
  <2>1. H \subseteq InVCs /\ R \intersect H = {}
    BY <1>4, <1>5, RangeOf
  <2>2. \A iv \in H : c[iv].out_port = rt.buf[iv].out_port
    BY <1>5, <2>1
  <2> QED BY <1>3, <2>2, HoldingSame
<1>11. Staged(q)
  BY <1>2, <1>5, <1>6, <1>7, <1>8, <1>10, Zenon DEF Staged, H
<1>12. Outgoing(q) /\ InTurn(q) /\ AllocatorsReady(q)
  BY <1>1, <1>2, Zenon DEF Outgoing, InTurn, AllocatorsReady
<1> QED BY <1>2, <1>9, <1>11, <1>12 DEF RouterCore, q

\* The VCs that wait for the switch and may go through it, with their outputs:
\* no two with the same expanded input or output, or with one that is held.
MayGo(rt, port, goes) ==
  /\ DOMAIN port = goes /\ goes \subseteq Range(rt.sw_alloc_vcs)
  /\ \A iv \in goes :
       /\ port[iv] \in Ports
       /\ \/ rt.buf[iv].state = "active" /\ rt.buf[iv].out_port = port[iv]
          \/ Piggyback /\ rt.buf[iv].state = "vc_alloc" /\ PiggybackVCs(rt, iv, port[iv]) # {}
       /\ ExpandedInput(iv) \notin DOMAIN rt.held
       /\ \A ei \in DOMAIN rt.held : rt.held[ei].output # ExpandedOutput(iv, port[iv])
  /\ \A iv, jv \in goes :
       \/ ExpandedInput(iv) = ExpandedInput(jv)
       \/ ExpandedOutput(iv, port[iv]) = ExpandedOutput(jv, port[jv])
       => iv = jv

\* After the heads that go have got their outputs, all that go have one.
LEMMA HeadsTaken ==
  ASSUME config \in Configs, NEW rt, RouterCore(rt),
         NEW port, NEW goes, MayGo(rt, port, goes),
         NEW heads, heads = {iv \in goes : Speculates(rt, iv)}
  PROVE  /\ HasTaken(TakePiggyback(rt, [iv \in heads |-> port[iv]]), rt, [iv \in heads |-> port[iv]])
         /\ \A iv \in goes :
              /\ TakePiggyback(rt, [jv \in heads |-> port[jv]]).buf[iv].state = "active"
              /\ TakePiggyback(rt, [jv \in heads |-> port[jv]]).buf[iv].out_port = port[iv]
<1> DEFINE p == [iv \in heads |-> port[iv]]
           q == TakePiggyback(rt, p)
<1>1. /\ goes \subseteq Range(rt.sw_alloc_vcs)
      /\ \A iv \in goes :
           /\ port[iv] \in Ports
           /\ \/ rt.buf[iv].state = "active" /\ rt.buf[iv].out_port = port[iv]
              \/ Piggyback /\ rt.buf[iv].state = "vc_alloc" /\ PiggybackVCs(rt, iv, port[iv]) # {}
  BY Zenon DEF MayGo
<1>2. \A iv \in Range(rt.sw_alloc_vcs) : iv \in InVCs /\ rt.buf[iv].flits # <<>>
  <2>1. Pipeline(rt.buf, Range(rt.route_vcs), Range(rt.vc_alloc_vcs), Range(rt.sw_alloc_vcs),
                 Range(rt.sw_hold_vcs))
    BY DEF RouterCore, Staged
  <2>2. /\ Range(rt.sw_alloc_vcs) \subseteq InVCs
        /\ \A iv \in Range(rt.route_vcs) \union Range(rt.vc_alloc_vcs) \union
                     Range(rt.sw_alloc_vcs) \union Range(rt.sw_hold_vcs) : rt.buf[iv].flits # <<>>
    BY <2>1, PipelineIs
  <2> QED BY <2>2
<1>3. \A iv \in heads : iv \in goes /\ rt.buf[iv].state = "vc_alloc"
  BY DEF Speculates
<1>4. \A iv \in goes : iv \notin heads => rt.buf[iv].state # "vc_alloc"
  BY DEF Speculates
<1>5. DOMAIN p = heads /\ \A iv \in heads : p[iv] = port[iv]
  OBVIOUS
<1> HIDE DEF p
<1>6. DOMAIN p \subseteq InVCs /\ (~Piggyback => DOMAIN p = {})
  BY <1>1, <1>2, <1>3, <1>5
<1>7. \A iv \in DOMAIN p : /\ rt.buf[iv].state = "vc_alloc" /\ rt.buf[iv].flits # <<>>
                           /\ p[iv] \in Ports /\ PiggybackVCs(rt, iv, p[iv]) # {}
  <2>1. TAKE iv \in DOMAIN p
  <2>2. iv \in goes /\ iv \in heads /\ p[iv] = port[iv]
    BY <1>3, <1>5
  <2>3. PiggybackVCs(rt, iv, port[iv]) # {} /\ port[iv] \in Ports
    BY <1>1, <1>3, <2>2
  <2> QED BY <1>1, <1>2, <1>3, <2>2, <2>3
<1>8. HasTaken(q, rt, p)
  BY <1>6, <1>7, PiggybackKept
<1> HIDE DEF q
<1>9. ASSUME NEW iv \in goes
      PROVE  q.buf[iv].state = "active" /\ q.buf[iv].out_port = port[iv]
  <2>1. iv \in InVCs
    BY <1>1, <1>2
  <2>2. /\ iv \notin DOMAIN p => q.buf[iv] = rt.buf[iv]
        /\ iv \in DOMAIN p => q.buf[iv].state = "active" /\ q.buf[iv].out_port = p[iv]
    BY <1>8, <2>1, Zenon DEF HasTaken
  <2>3. CASE iv \in heads
    BY <1>5, <2>2, <2>3
  <2>4. CASE iv \notin heads
    BY <1>1, <1>4, <1>5, <2>2, <2>4
  <2> QED BY <2>3, <2>4
<1> QED BY <1>8, <1>9 DEF q, p

\* A router some VCs of which have gone through the switch.
SwitchCrossed(q, rt, list) ==
  /\ DOMAIN q = RouterFields
  /\ IsList(q.route_vcs, InVCs)
  /\ Pipeline(q.buf, Range(q.route_vcs), Range(rt.vc_alloc_vcs),
              Range(rt.sw_alloc_vcs) \ Range(list), Range(rt.sw_hold_vcs))
  /\ Holding(rt.held, q.buf, Range(rt.sw_hold_vcs))
  /\ q.crossbar_flits = rt.crossbar_flits \o Sendings(rt.buf, list)
  /\ \A iv \in Range(list) : q.buf[iv].state = "active" => q.buf[iv].out_port = rt.buf[iv].out_port
  /\ q.vc_alloc_vcs = rt.vc_alloc_vcs /\ q.sw_hold_vcs = rt.sw_hold_vcs /\ q.held = rt.held
  /\ q.output_buffer = rt.output_buffer
  /\ q.sw_rr_offset = rt.sw_rr_offset /\ q.vc_rr_offset = rt.vc_rr_offset
  /\ q.vc_allocator = rt.vc_allocator

\* Flits that cross, from VCs that wait for the switch, leave the rest of the
\* router as the invariant asks.
LEMMA CrossedCore ==
  ASSUME config \in Configs, NEW rt, RouterCore(rt),
         NEW list, IsList(list, InVCs), Range(list) \subseteq Range(rt.sw_alloc_vcs),
         \A iv \in Range(list) : rt.buf[iv].state = "active"
  PROVE  SwitchCrossed(Cross(rt, list), rt, list)
<1> DEFINE q == Cross(rt, list)
           G == Range(list)
           F == Freed(rt.buf, G)
           c == CrossedAt(rt.buf, G)
           R == Range(rt.route_vcs)
           V == Range(rt.vc_alloc_vcs)
           W == Range(rt.sw_alloc_vcs)
           H == Range(rt.sw_hold_vcs)
<1>1. /\ DOMAIN rt = RouterFields /\ Lists(rt) /\ Staged(rt)
  BY DEF RouterCore
<1>2. HasCrossed(q, rt, list)
  BY <1>1, CrossFields, Zenon
<1> HIDE DEF q
<1>3. /\ DOMAIN q = RouterFields /\ q.buf = c
      /\ q.crossbar_flits = rt.crossbar_flits \o Sendings(rt.buf, list)
      /\ q.route_vcs = rt.route_vcs \o Selected(list, F)
      /\ q.vc_alloc_vcs = rt.vc_alloc_vcs
      /\ q.sw_hold_vcs = rt.sw_hold_vcs /\ q.held = rt.held
      /\ q.output_buffer = rt.output_buffer
      /\ q.sw_rr_offset = rt.sw_rr_offset /\ q.vc_rr_offset = rt.vc_rr_offset
      /\ q.vc_allocator = rt.vc_allocator
  BY <1>2, Zenon DEF HasCrossed
<1>4. Pipeline(rt.buf, R, V, W, H) /\ Holding(rt.held, rt.buf, H)
  BY <1>1, Zenon DEF Staged
<1>5. IsList(rt.route_vcs, InVCs)
  BY <1>1, Zenon DEF Lists
<1> HIDE DEF G, F, c, R, V, W, H
<1>6. G \subseteq W /\ \A iv \in G : rt.buf[iv].state = "active"
  BY DEF G, W
<1>7. /\ W \subseteq InVCs /\ H \subseteq InVCs /\ W \intersect H = {}
      /\ \A iv \in W : rt.buf[iv].flits # <<>>
  <2>1. /\ W \subseteq InVCs /\ H \subseteq InVCs /\ W \intersect H = {}
        /\ \A iv \in R \union V \union W \union H : rt.buf[iv].flits # <<>>
    BY <1>4, PipelineIs
  <2> QED BY <2>1
<1>8. G \in SUBSET InVCs /\ \A iv \in G : rt.buf[iv].state = "active" /\ rt.buf[iv].flits # <<>>
  BY <1>6, <1>7
<1>9. Pipeline(c, R \union F, V, W \ G, H \ G)
  BY <1>4, <1>8, CrossedPipeline DEF c, F
<1>10. R \intersect F = {} /\ F \in SUBSET G
  BY <1>4, <1>8, CrossedPipeline DEF F, Freed
<1>11. \A iv \in InVCs \ G : c[iv] = rt.buf[iv]
  BY <1>4, <1>8, CrossedPipeline DEF c
<1>12. \A iv \in G : c[iv].state = "active" => c[iv].out_port = rt.buf[iv].out_port
  BY <1>4, <1>8, CrossedPipeline DEF c
<1>13. H \ G = H
  BY <1>6, <1>7
<1>14. IsList(q.route_vcs, InVCs) /\ Range(q.route_vcs) = R \union F
  <2>1. F \in SUBSET Range(list)
    BY <1>10 DEF G
  <2>2. IsList(q.route_vcs, InVCs)
    BY <1>3, <1>5, <1>10, <2>1, GoesOn DEF R
  <2>3. Range(q.route_vcs) = R \union F
    BY <1>3, <1>5, <1>10, <2>1, GoesOn DEF R
  <2> QED BY <2>2, <2>3
<1>15. Holding(rt.held, c, H)
  <2>1. \A iv \in H : c[iv].out_port = rt.buf[iv].out_port
    BY <1>6, <1>7, <1>11
  <2> QED BY <1>4, <2>1, HoldingSame
<1>16. Pipeline(q.buf, Range(q.route_vcs), V, W \ G, H) /\ Holding(rt.held, q.buf, H)
  BY <1>3, <1>9, <1>13, <1>14, <1>15
<1>17. \A iv \in Range(list) : q.buf[iv].state = "active" => q.buf[iv].out_port = rt.buf[iv].out_port
  BY <1>3, <1>12 DEF G
<1>18. SwitchCrossed(q, rt, list)
  BY <1>3, <1>14, <1>16, <1>17, Zenon DEF SwitchCrossed, G, V, W, H
<1> QED BY <1>18 DEF q

\* Those that have more to send, those of them that keep the switch, and what is
\* held by them.
MoreIn(rt, goes) == {iv \in goes : Continues(rt, iv)}
-----------------------------------------------------------------------------
\* An allocated switch: _SWAllocUpdate.

\* The winners that hold the switch from now on, what they hold, and the turns
\* of the expanded inputs.
HoldersIn(rt, goes) == IF config.hold_switch_for_packet THEN MoreIn(rt, goes) ELSE {}
HolderAt(ivs, ei) == CHOOSE iv \in ivs : ExpandedInput(iv) = ei
HoldsOf(rt, ivs) ==
  [ei \in {ExpandedInput(iv) : iv \in ivs} |->
     [vc |-> HolderAt(ivs, ei)[2],
      output |-> ExpandedOutput(HolderAt(ivs, ei), rt.buf[HolderAt(ivs, ei)].out_port)]]
TurnsAfter(rt, granted) ==
  [ei \in ExpandedInputs |->
     IF \E iv \in granted : ExpandedInput(iv) = ei
     THEN (HolderAt(granted, ei)[2] + config.input_speedup) % NumVCs ELSE rt.sw_rr_offset[ei]]

\* The router after _SWAllocUpdate.
HasGone(q, rt, waited, come, alloc, granted, goes) ==
  /\ DOMAIN q = RouterFields
  /\ q.buf = rt.buf /\ q.route_vcs = rt.route_vcs /\ q.vc_alloc_vcs = rt.vc_alloc_vcs
  /\ q.sw_alloc_vcs = come \o Selected(waited, (Range(waited) \ goes) \union
                                                 (MoreIn(rt, goes) \ HoldersIn(rt, goes)))
  /\ q.sw_hold_vcs = rt.sw_hold_vcs \o Selected(waited, HoldersIn(rt, goes))
  /\ q.held = Override(HoldsOf(rt, HoldersIn(rt, goes)), rt.held)
  /\ q.sw_rr_offset = TurnsAfter(rt, granted)
  /\ q.crossbar_flits = rt.crossbar_flits /\ q.output_buffer = rt.output_buffer
  /\ q.vc_rr_offset = rt.vc_rr_offset /\ q.vc_allocator = rt.vc_allocator
  /\ q.sw_allocator = Cleared(alloc.sw) /\ q.spec_sw_allocator = Cleared(alloc.spec)

\* What _SWAllocUpdate changes after the crossings.
LEMMA AfterFields ==
  ASSUME NEW rt, DOMAIN rt = RouterFields, NEW waited, NEW come, NEW alloc, NEW granted, NEW goes
  PROVE  HasGone(AfterCrossing(rt, waited, come, alloc, granted, goes),
                 rt, waited, come, alloc, granted, goes)
<1> DEFINE
      more == {iv \in goes : Continues(rt, iv)}
      holding == IF config.hold_switch_for_packet THEN more ELSE {}
      of(ivs, ei) == CHOOSE iv \in ivs : ExpandedInput(iv) = ei
      hold(iv) == [vc |-> iv[2], output |-> ExpandedOutput(iv, rt.buf[iv].out_port)]
      held == [ei \in {ExpandedInput(iv) : iv \in holding} |-> hold(of(holding, ei))]
      turns == [ei \in ExpandedInputs |->
                  IF \E iv \in granted : ExpandedInput(iv) = ei
                  THEN (of(granted, ei)[2] + config.input_speedup) % NumVCs ELSE rt.sw_rr_offset[ei]]
      w2 == come \o Selected(waited, (Range(waited) \ goes) \union (more \ holding))
      q == [rt EXCEPT
             !.sw_alloc_vcs = w2,
             !.sw_hold_vcs = @ \o Selected(waited, holding),
             !.held = Override(held, @),
             !.sw_rr_offset = Evaluated(turns),
             !.sw_allocator = Cleared(alloc.sw),
             !.spec_sw_allocator = Cleared(alloc.spec)]
<1>1. AfterCrossing(rt, waited, come, alloc, granted, goes) = q
  BY Zenon DEF AfterCrossing
<1>2. more = MoreIn(rt, goes)
  BY Zenon DEF MoreIn
<1>3. holding = HoldersIn(rt, goes)
  BY <1>2, Zenon DEF HoldersIn
<1>4. held = HoldsOf(rt, HoldersIn(rt, goes))
  BY <1>3, Zenon DEF HoldsOf, HolderAt
<1>5. turns = TurnsAfter(rt, granted) /\ Evaluated(turns) = turns
  BY EvaluatedIs, Zenon DEF TurnsAfter, HolderAt
<1>6. w2 = come \o Selected(waited, (Range(waited) \ goes) \union
                                      (MoreIn(rt, goes) \ HoldersIn(rt, goes)))
  BY <1>2, <1>3, Zenon
<1> HIDE DEF w2, holding, held, turns
<1>7. /\ DOMAIN q = RouterFields
      /\ q.buf = rt.buf /\ q.route_vcs = rt.route_vcs /\ q.vc_alloc_vcs = rt.vc_alloc_vcs
      /\ q.sw_alloc_vcs = w2
      /\ q.sw_hold_vcs = rt.sw_hold_vcs \o Selected(waited, holding)
      /\ q.held = Override(held, rt.held)
      /\ q.sw_rr_offset = turns
      /\ q.crossbar_flits = rt.crossbar_flits /\ q.output_buffer = rt.output_buffer
      /\ q.vc_rr_offset = rt.vc_rr_offset /\ q.vc_allocator = rt.vc_allocator
      /\ q.sw_allocator = Cleared(alloc.sw) /\ q.spec_sw_allocator = Cleared(alloc.spec)
  BY <1>5 DEF RouterFields
<1> HIDE DEF q
<1>8. HasGone(q, rt, waited, come, alloc, granted, goes)
  BY <1>3, <1>4, <1>5, <1>6, <1>7, Zenon DEF HasGone
<1> QED BY <1>1, <1>8

\* The turns stay numbers.
LEMMA TurnsAre ==
  ASSUME config \in Configs, NEW rt, rt.sw_rr_offset \in [ExpandedInputs -> Int],
         NEW granted \in SUBSET InVCs
  PROVE  TurnsAfter(rt, granted) \in [ExpandedInputs -> Int]
<1> DEFINE turn(ei) == IF \E iv \in granted : ExpandedInput(iv) = ei
                       THEN (HolderAt(granted, ei)[2] + config.input_speedup) % NumVCs
                       ELSE rt.sw_rr_offset[ei]
<1>1. TurnsAfter(rt, granted) = [ei \in ExpandedInputs |-> turn(ei)]
  BY Zenon DEF TurnsAfter
<1>2. ASSUME NEW ei \in ExpandedInputs
      PROVE  turn(ei) \in Int
  <2>1. CASE \E iv \in granted : ExpandedInput(iv) = ei
    <3> DEFINE h == HolderAt(granted, ei)
    <3>1. h \in granted
      BY <2>1, Zenon DEF HolderAt
    <3> HIDE DEF h
    <3>2. h[2] \in Int /\ NumVCs \in Nat \ {0}
      BY <3>1, BufferAssumption DEF InVCs, VCIds
    <3>3. config.input_speedup \in Int
      BY ConfigFacts
    <3>4. (h[2] + config.input_speedup) % NumVCs \in Int
      BY <3>2, <3>3
    <3>5. turn(ei) = (h[2] + config.input_speedup) % NumVCs
      BY <2>1, Zenon DEF h
    <3> QED BY <3>4, <3>5
  <2>2. CASE ~\E iv \in granted : ExpandedInput(iv) = ei
    <3>1. turn(ei) = rt.sw_rr_offset[ei]
      BY <2>2, Zenon
    <3> QED BY <3>1
  <2> QED BY <2>1, <2>2
<1> HIDE DEF turn
<1> QED BY <1>1, <1>2

\* The switch is held by those that held it, and by those that now do.
LEMMA HoldsMore ==
  ASSUME NEW held, NEW rt, NEW H, Holding(held, rt.buf, H),
         NEW more \in SUBSET InVCs, more # {} => config.hold_switch_for_packet,
         \A iv \in more : /\ ExpandedInput(iv) \notin DOMAIN held
                          /\ \A ei \in DOMAIN held :
                               held[ei].output # ExpandedOutput(iv, rt.buf[iv].out_port),
         \A iv, jv \in more :
           \/ ExpandedInput(iv) = ExpandedInput(jv)
           \/ ExpandedOutput(iv, rt.buf[iv].out_port) = ExpandedOutput(jv, rt.buf[jv].out_port)
           => iv = jv
  PROVE  Holding(Override(HoldsOf(rt, more), held), rt.buf, H \union more)
<1> DEFINE ei(iv) == ExpandedInput(iv)
           eo(iv) == ExpandedOutput(iv, rt.buf[iv].out_port)
           new == HoldsOf(rt, more)
           both == Override(new, held)
<1>1. /\ H # {} => config.hold_switch_for_packet
      /\ DOMAIN held = {ei(iv) : iv \in H}
      /\ \A iv \in H : held[ei(iv)].output = eo(iv)
      /\ \A iv, jv \in H : ei(iv) = ei(jv) \/ eo(iv) = eo(jv) => iv = jv
  BY Zenon DEF Holding
<1>2. DOMAIN new = {ei(iv) : iv \in more}
  BY Zenon DEF HoldsOf
<1>3. ASSUME NEW iv \in more
      PROVE  new[ei(iv)].output = eo(iv)
  <2> DEFINE h == HolderAt(more, ei(iv))
  <2>1. h \in more /\ ei(h) = ei(iv)
    BY Zenon DEF HolderAt
  <2>2. h = iv
    BY <2>1, Zenon
  <2>3. ei(iv) \in {ExpandedInput(jv) : jv \in more}
    OBVIOUS
  <2>4. new[ei(iv)] = [vc |-> h[2], output |-> ExpandedOutput(h, rt.buf[h].out_port)]
    BY <2>3, Zenon DEF HoldsOf
  <2> HIDE DEF h, new
  <2> QED BY <2>2, <2>4
<1> HIDE DEF new
<1>4. /\ DOMAIN both = DOMAIN new \union DOMAIN held
      /\ \A x \in DOMAIN new : both[x] = new[x]
      /\ \A x \in DOMAIN held \ DOMAIN new : both[x] = held[x]
  <2>1. DOMAIN both = DOMAIN new \union DOMAIN held
    BY Overridden
  <2>2. \A x \in DOMAIN new : both[x] = new[x]
    BY Overridden
  <2>3. \A x \in DOMAIN held \ DOMAIN new : both[x] = held[x]
    <3> DEFINE all == [x \in DOMAIN new \union DOMAIN held |-> IF x \in DOMAIN new THEN new[x] ELSE held[x]]
    <3>1. both = all
      BY EvaluatedIs, Zenon DEF Override
    <3> HIDE DEF both
    <3>2. \A x \in DOMAIN held \ DOMAIN new : all[x] = held[x]
      OBVIOUS
    <3> QED BY <3>1, <3>2
  <2> QED BY <2>1, <2>2, <2>3
<1> HIDE DEF both
<1>5. DOMAIN both = {ExpandedInput(iv) : iv \in H \union more}
  <2>1. {ei(iv) : iv \in H} \union {ei(iv) : iv \in more} = {ei(iv) : iv \in H \union more}
    <3> HIDE DEF ei
    <3> QED OBVIOUS
  <2> QED BY <1>1, <1>2, <1>4, <2>1
<1>6. \A iv \in more, jv \in H : ei(iv) # ei(jv) /\ eo(iv) # eo(jv)
  <2>1. TAKE iv \in more, jv \in H
  <2>2. ei(jv) \in DOMAIN held
    BY <1>1
  <2>3. held[ei(jv)].output # eo(iv) /\ ei(iv) \notin DOMAIN held
    BY <2>2, Zenon
  <2>4. held[ei(jv)].output = eo(jv)
    BY <1>1, Zenon
  <2> HIDE DEF ei, eo
  <2> QED BY <2>2, <2>3, <2>4
<1>7. \A iv \in H \union more : both[ExpandedInput(iv)].output = ExpandedOutput(iv, rt.buf[iv].out_port)
  <2>1. TAKE iv \in H \union more
  <2>2. CASE iv \in more
    <3>1. ei(iv) \in DOMAIN new
      BY <1>2, <2>2
    <3> QED BY <1>3, <1>4, <2>2, <3>1, Zenon
  <2>3. CASE iv \in H
    <3>1. ei(iv) \in DOMAIN held
      BY <1>1, <2>3
    <3>2. ei(iv) \notin DOMAIN new
      BY <1>2, <1>6, <2>3
    <3>3. both[ei(iv)] = held[ei(iv)]
      BY <1>4, <3>1, <3>2
    <3>4. held[ei(iv)].output = eo(iv)
      BY <1>1, <2>3, Zenon
    <3> QED BY <3>3, <3>4
  <2> QED BY <2>2, <2>3
<1>8. \A iv, jv \in H \union more :
        \/ ExpandedInput(iv) = ExpandedInput(jv)
        \/ ExpandedOutput(iv, rt.buf[iv].out_port) = ExpandedOutput(jv, rt.buf[jv].out_port)
        => iv = jv
  <2>1. \A iv, jv \in more : ei(iv) = ei(jv) \/ eo(iv) = eo(jv) => iv = jv
    OBVIOUS
  <2>2. \A iv, jv \in H \union more : ei(iv) = ei(jv) \/ eo(iv) = eo(jv) => iv = jv
    <3> HIDE DEF ei, eo
    <3> QED BY <1>1, <1>6, <2>1
  <2> QED BY <2>2
<1>9. H \union more # {} => config.hold_switch_for_packet
  BY <1>1
<1> QED BY <1>5, <1>7, <1>8, <1>9, Zenon DEF Holding, both, new

\* _SWAllocUpdate keeps the pipeline: what has gone through the switch waits
\* for it again, holds it, or leaves the pipeline.
LEMMA AfterStaged ==
  ASSUME config \in Configs, NEW rt, RouterCore(rt),
         NEW waited, IsList(waited, InVCs), NEW come, IsList(come, InVCs),
         Range(waited) \intersect Range(come) = {}, rt.sw_alloc_vcs = waited \o come,
         NEW port, NEW goes \in SUBSET Range(waited), MayGo(rt, port, goes),
         \A iv \in goes : rt.buf[iv].state = "active",
         NEW q, SwitchCrossed(q, rt, Selected(waited, goes)),
         NEW alloc, NEW granted, NEW q2, HasGone(q2, q, waited, come, alloc, granted, goes)
  PROVE  Lists(q2) /\ Staged(q2)
<1> DEFINE more == MoreIn(q, goes)
           hold == HoldersIn(q, goes)
           stay == (Range(waited) \ goes) \union (more \ hold)
           C == Range(come)
           R == Range(q.route_vcs)
           V == Range(rt.vc_alloc_vcs)
           W == Range(rt.sw_alloc_vcs)
           H == Range(rt.sw_hold_vcs)
           b == q.buf
<1>1. /\ q2.buf = b /\ q2.route_vcs = q.route_vcs /\ q2.vc_alloc_vcs = q.vc_alloc_vcs
      /\ q2.sw_alloc_vcs = come \o Selected(waited, stay)
      /\ q2.sw_hold_vcs = q.sw_hold_vcs \o Selected(waited, hold)
      /\ q2.held = Override(HoldsOf(q, hold), q.held)
  BY Zenon DEF HasGone
<1>2. Range(Selected(waited, goes)) = goes
  BY SelectedAre
<1>3. /\ IsList(q.route_vcs, InVCs)
      /\ Pipeline(b, R, V, W \ goes, H)
      /\ Holding(rt.held, b, H)
      /\ \A iv \in goes : b[iv].state = "active" => b[iv].out_port = rt.buf[iv].out_port
      /\ q.vc_alloc_vcs = rt.vc_alloc_vcs /\ q.sw_hold_vcs = rt.sw_hold_vcs /\ q.held = rt.held
  BY <1>2, Zenon DEF SwitchCrossed
<1>4. W = Range(waited) \union C
  BY Joined, ZenonT(60)
<1>5. /\ IsList(rt.vc_alloc_vcs, InVCs) /\ IsList(rt.sw_hold_vcs, InVCs)
      /\ Pipeline(rt.buf, Range(rt.route_vcs), V, W, H)
  BY Zenon DEF RouterCore, Lists, Staged
<1>6. \A iv \in more : iv \in goes /\ b[iv].state = "active" /\ b[iv].flits # <<>>
  BY Zenon DEF MoreIn, Continues
<1>7. hold \subseteq more /\ (hold # {} => config.hold_switch_for_packet)
  BY DEF HoldersIn
<1>8. /\ \A iv \in goes : /\ rt.buf[iv].out_port = port[iv]
                          /\ ExpandedInput(iv) \notin DOMAIN rt.held
                          /\ \A ei \in DOMAIN rt.held : rt.held[ei].output # ExpandedOutput(iv, port[iv])
      /\ \A iv, jv \in goes :
           \/ ExpandedInput(iv) = ExpandedInput(jv)
           \/ ExpandedOutput(iv, port[iv]) = ExpandedOutput(jv, port[jv])
           => iv = jv
  <2>1. /\ \A iv \in goes :
             /\ \/ rt.buf[iv].state = "active" /\ rt.buf[iv].out_port = port[iv]
                \/ Piggyback /\ rt.buf[iv].state = "vc_alloc" /\ PiggybackVCs(rt, iv, port[iv]) # {}
             /\ ExpandedInput(iv) \notin DOMAIN rt.held
             /\ \A ei \in DOMAIN rt.held : rt.held[ei].output # ExpandedOutput(iv, port[iv])
        /\ \A iv, jv \in goes :
             \/ ExpandedInput(iv) = ExpandedInput(jv)
             \/ ExpandedOutput(iv, port[iv]) = ExpandedOutput(jv, port[jv])
             => iv = jv
    BY Zenon DEF MayGo
  <2>2. \A iv \in goes : rt.buf[iv].out_port = port[iv]
    BY <2>1
  <2> QED BY <2>1, <2>2
<1> HIDE DEF more, hold, C, R, V, W, H, b
<1>9. /\ W \subseteq InVCs /\ H \subseteq InVCs /\ W \intersect H = {}
      /\ goes \subseteq W /\ Range(waited) \subseteq W
  BY <1>4, <1>5, PipelineIs
<1>10. more \subseteq goes /\ hold \subseteq goes
  BY <1>6, <1>7
<1>11. W \ goes = C \union (Range(waited) \ goes)
  <2>1. Range(waited) \intersect C = {}
    BY DEF C
  <2> QED BY <1>4, <2>1
<1>12. Pipeline(b, R, V, C \union stay, H)
  <2> DEFINE T == more \ hold
  <2>1. T \in SUBSET InVCs /\ \A iv \in T : b[iv].state = "active" /\ b[iv].flits # <<>>
    BY <1>6, <1>9, <1>10
  <2>2. T \intersect H = {}
    BY <1>9, <1>10
  <2>3. (W \ goes) \union T = C \union stay
    BY <1>11
  <2> HIDE DEF T, stay
  <2>4. Pipeline(b, R, V, (W \ goes) \union T, H)
    BY <1>3, <2>1, <2>2, PipelineMore
  <2> QED BY <2>3, <2>4
<1>13. Pipeline(b, R, V, C \union stay, H \union hold)
  <2>1. hold \in SUBSET InVCs /\ \A iv \in hold : b[iv].state = "active" /\ b[iv].flits # <<>>
    BY <1>6, <1>7, <1>9, <1>10
  <2>2. hold \intersect (C \union stay) = {}
    BY <1>10, <1>11
  <2> HIDE DEF stay
  <2> QED BY <1>12, <2>1, <2>2, PipelineMore
<1>14. stay \in SUBSET Range(waited) /\ hold \in SUBSET Range(waited)
  BY <1>10
<1> HIDE DEF stay
<1>15. IsList(q2.sw_alloc_vcs, InVCs) /\ Range(q2.sw_alloc_vcs) = C \union stay
  <2>1. C \intersect stay = {}
    BY <1>14 DEF C
  <2>2. IsList(q2.sw_alloc_vcs, InVCs)
    BY <1>1, <1>14, <2>1, GoesOn DEF C
  <2>3. Range(q2.sw_alloc_vcs) = C \union stay
    BY <1>1, <1>14, <2>1, GoesOn DEF C
  <2> QED BY <2>2, <2>3
<1>16. IsList(q2.sw_hold_vcs, InVCs) /\ Range(q2.sw_hold_vcs) = H \union hold
  <2>1. H \intersect hold = {}
    BY <1>9, <1>10
  <2>2. q2.sw_hold_vcs = rt.sw_hold_vcs \o Selected(waited, hold)
    BY <1>1, <1>3
  <2>3. IsList(q2.sw_hold_vcs, InVCs)
    BY <1>5, <1>14, <2>1, <2>2, GoesOn DEF H
  <2>4. Range(q2.sw_hold_vcs) = H \union hold
    BY <1>5, <1>14, <2>1, <2>2, GoesOn DEF H
  <2> QED BY <2>3, <2>4
<1>17. Holding(q2.held, b, H \union hold)
  <2>1. \A iv \in hold : /\ iv \in goes
                         /\ b[iv].out_port = port[iv]
    BY <1>3, <1>6, <1>7, <1>8
  <2>2. \A iv \in hold : /\ ExpandedInput(iv) \notin DOMAIN rt.held
                         /\ \A ei \in DOMAIN rt.held :
                              rt.held[ei].output # ExpandedOutput(iv, b[iv].out_port)
    BY <1>8, <2>1
  <2>3. \A iv, jv \in hold :
          \/ ExpandedInput(iv) = ExpandedInput(jv)
          \/ ExpandedOutput(iv, b[iv].out_port) = ExpandedOutput(jv, b[jv].out_port)
          => iv = jv
    BY <1>8, <2>1
  <2>4. hold \in SUBSET InVCs
    BY <1>9, <1>10
  <2>5. Holding(Override(HoldsOf(q, hold), rt.held), q.buf, H \union hold)
    BY <1>3, <1>7, <2>2, <2>3, <2>4, HoldsMore DEF b
  <2> QED BY <1>1, <1>3, <2>5 DEF b
<1>18. Lists(q2)
  BY <1>1, <1>3, <1>5, <1>15, <1>16, Zenon DEF Lists
<1>19. Staged(q2)
  BY <1>1, <1>3, <1>13, <1>15, <1>16, <1>17, Zenon DEF Staged, R, V
<1> QED BY <1>18, <1>19

\* And the rest of the router.
AreAllocators(alloc) ==
  /\ IsAllocator(alloc.sw, config.sw_allocator, NumPorts * config.input_speedup,
                 NumPorts * config.output_speedup)
  /\ SpecAllocator => IsAllocator(alloc.spec, config.spec_sw_allocator,
                                  NumPorts * config.input_speedup, NumPorts * config.output_speedup)
  /\ DOMAIN alloc.spec = AllocatorFields

\* The steps of _SWAllocUpdate put together: the invariant of the router, but
\* for the output buffers, is kept.
LEMMA AfterKept ==
  ASSUME config \in Configs, NEW rt, RouterCore(rt),
         NEW list, NEW q, SwitchCrossed(q, rt, list),
         q.crossbar_flits \in Seq([f : SentFlit, output : Ports]), Spread(q.crossbar_flits),
         NEW alloc, AreAllocators(alloc), NEW granted \in SUBSET InVCs,
         NEW waited, NEW come, NEW goes,
         NEW q2, HasGone(q2, q, waited, come, alloc, granted, goes), Lists(q2), Staged(q2)
  PROVE  RouterCore(q2)
<1>1. /\ DOMAIN q2 = RouterFields
      /\ q2.sw_rr_offset = TurnsAfter(q, granted)
      /\ q2.crossbar_flits = q.crossbar_flits /\ q2.output_buffer = q.output_buffer
      /\ q2.vc_rr_offset = q.vc_rr_offset /\ q2.vc_allocator = q.vc_allocator
      /\ q2.sw_allocator = Cleared(alloc.sw) /\ q2.spec_sw_allocator = Cleared(alloc.spec)
  BY Zenon DEF HasGone
<1>2. /\ q.output_buffer = rt.output_buffer
      /\ q.sw_rr_offset = rt.sw_rr_offset /\ q.vc_rr_offset = rt.vc_rr_offset
      /\ q.vc_allocator = rt.vc_allocator
  BY Zenon DEF SwitchCrossed
<1>3. Outgoing(rt) /\ InTurn(rt) /\ AllocatorsReady(rt)
  BY DEF RouterCore
<1>4. Outgoing(q2)
  BY <1>1, <1>2, <1>3, Zenon DEF Outgoing
<1>5. InTurn(q2)
  <2>1. q.sw_rr_offset \in [ExpandedInputs -> Int]
    BY <1>2, <1>3, Zenon DEF InTurn
  <2>2. q2.sw_rr_offset \in [ExpandedInputs -> Int]
    BY <1>1, <2>1, TurnsAre
  <2> QED BY <1>1, <1>2, <1>3, <2>2, Zenon DEF InTurn
<1>6. AllocatorsReady(q2)
  <2>1. /\ IsAllocator(alloc.sw, config.sw_allocator, NumPorts * config.input_speedup,
                       NumPorts * config.output_speedup)
        /\ SpecAllocator => IsAllocator(alloc.spec, config.spec_sw_allocator,
                                        NumPorts * config.input_speedup, NumPorts * config.output_speedup)
        /\ DOMAIN alloc.spec = AllocatorFields
    BY Zenon DEF AreAllocators
  <2>2. DOMAIN alloc.sw = AllocatorFields
    BY <2>1, Zenon DEF IsAllocator
  <2>3. IsReady(Cleared(alloc.sw)) /\ IsReady(Cleared(alloc.spec))
    BY <2>1, <2>2, ReadyIs
  <2>4. IsAllocator(Cleared(alloc.sw), config.sw_allocator, NumPorts * config.input_speedup,
                    NumPorts * config.output_speedup)
    BY <2>1, ClearedIs
  <2>5. SpecAllocator => IsAllocator(Cleared(alloc.spec), config.spec_sw_allocator,
                                     NumPorts * config.input_speedup, NumPorts * config.output_speedup)
    BY <2>1, ClearedIs
  <2> QED BY <1>1, <1>2, <1>3, <2>3, <2>4, <2>5, Zenon DEF AllocatorsReady
<1> QED BY <1>1, <1>4, <1>5, <1>6, Zenon DEF RouterCore

\* What is sent after what is in the crossbar.
\* The VCs that already sent to the crossbar, with their outputs, and those of
\* the list, which may send after them.
AllMaySend(before, from, b, list, port) ==
  /\ IsList(before, InVCs) /\ IsList(list, InVCs)
  /\ \A iv \in Range(before) : from[iv] \in Ports
  /\ Apart(Range(before), from)
  /\ Range(before) \intersect Range(list) = {}
  /\ \A iv \in Range(list) : /\ b[iv] \in VCRecord /\ b[iv].flits # <<>>
                             /\ b[iv].out_port \in Ports /\ b[iv].out_vc \in VCIds
                             /\ b[iv].out_port = port[iv]
  /\ Apart(Range(list), port)
  /\ \A iv \in Range(before), jv \in Range(list) :
       ExpandedOutput(iv, from[iv]) # ExpandedOutput(jv, port[jv])

\* Every flit in the crossbar is one of theirs.
AllSent(cf, before, from, goes, port) ==
  /\ cf \in Seq([f : SentFlit, output : Ports]) /\ Spread(cf)
  /\ \A i \in DOMAIN cf : \/ \E iv \in before : cf[i].output = from[iv]
                          \/ \E iv \in goes : cf[i].output = port[iv]

\* What crosses by a held switch and what crosses by an allocated one, together
\* in the crossbar.
LEMMA CrossbarJoined ==
  ASSUME config \in Configs,
         NEW cf, cf \in Seq([f : SentFlit, output : Ports]),
         NEW before, NEW from, AreFrom(cf, before, from),
         NEW b, NEW list, NEW port, AllMaySend(before, from, b, list, port),
         NEW all, all = cf \o Sendings(b, list)
  PROVE  AllSent(all, Range(before), from, Range(list), port)
<1>0. /\ IsList(before, InVCs) /\ IsList(list, InVCs)
      /\ \A iv \in Range(before) : from[iv] \in Ports
      /\ Apart(Range(before), from)
      /\ Range(before) \intersect Range(list) = {}
      /\ \A iv \in Range(list) : /\ b[iv] \in VCRecord /\ b[iv].flits # <<>>
                                 /\ b[iv].out_port \in Ports /\ b[iv].out_vc \in VCIds
                                 /\ b[iv].out_port = port[iv]
      /\ Apart(Range(list), port)
      /\ \A iv \in Range(before), jv \in Range(list) :
           ExpandedOutput(iv, from[iv]) # ExpandedOutput(jv, port[jv])
  BY Zenon DEF AllMaySend
<1> DEFINE S == [f : SentFlit, output : Ports]
           sent == Sendings(b, list)
           vcs == before \o list
           p == [iv \in InVCs |-> IF iv \in Range(before) THEN from[iv] ELSE port[iv]]
           n == Len(before)
<1>1. /\ sent \in Seq(S) /\ Len(sent) = Len(list) /\ DOMAIN sent = DOMAIN list
      /\ \A i \in DOMAIN list : sent[i].output = b[list[i]].out_port
  <2>1. \A iv \in Range(list) : /\ b[iv] \in VCRecord /\ b[iv].flits # <<>>
                                 /\ b[iv].out_port \in Ports /\ b[iv].out_vc \in VCIds
    BY <1>0
  <2>2. sent \in Seq(S)
    BY <1>0, <2>1, SendingsTyped, Zenon
  <2>3. Len(sent) = Len(list)
    BY <1>0, <2>1, SendingsTyped, Zenon
  <2>4. DOMAIN sent = DOMAIN list
    BY <1>0, <2>1, SendingsTyped, Zenon
  <2>5. \A i \in DOMAIN list : sent[i].output = b[list[i]].out_port
    BY DEF Sendings
  <2> HIDE DEF sent, S
  <2> QED BY <2>2, <2>3, <2>4, <2>5
<1> HIDE DEF sent, S
<1>2. /\ DOMAIN before = 1..n /\ n \in Nat /\ DOMAIN list = 1..Len(list) /\ Len(list) \in Nat
      /\ before \in Seq(InVCs) /\ list \in Seq(InVCs)
  BY <1>0 DEF IsList
<1>3. cf \in Seq(S) /\ DOMAIN cf = DOMAIN before /\ \A i \in DOMAIN before : cf[i].output = from[before[i]]
  BY DEF AreFrom, S
<1>4. Len(cf) = n
  BY <1>2, <1>3
<1>5. /\ all \in Seq(S) /\ DOMAIN all = 1..(n + Len(list))
      /\ \A i \in 1..n : all[i] = cf[i]
      /\ \A i \in 1..Len(list) : all[n + i] = sent[i]
  <2>1. all = cf \o sent
    BY DEF sent
  <2> HIDE DEF sent
  <2>2. sent \in Seq(S) /\ cf \in Seq(S) /\ Len(sent) = Len(list) /\ Len(cf) = n
    BY <1>1, <1>3, <1>4
  <2>3. all \in Seq(S) /\ Len(all) = n + Len(list)
    <3>1. \A c, d \in Seq(S) : c \o d \in Seq(S) /\ Len(c \o d) = Len(c) + Len(d)
      OBVIOUS
    <3> QED BY <2>1, <2>2, <3>1
  <2>4. DOMAIN all = 1..(n + Len(list))
    BY <2>3
  <2>5. \A i \in 1..n : all[i] = cf[i]
    BY <2>1, <2>2
  <2>6. \A i \in 1..Len(list) : all[n + i] = sent[i]
    BY <2>1, <2>2
  <2> QED BY <2>3, <2>4, <2>5, <2>6
<1>6. IsList(vcs, InVCs)
  BY <1>0, Joined
<1>7. Range(vcs) = Range(before) \union Range(list)
  <2>1. Range(before \o list) = Range(before) \union Range(list)
    <3>1. before \in Seq(InVCs) /\ list \in Seq(InVCs)
      BY <1>0, Zenon DEF IsList
    <3> QED BY <3>1, JoinedRange, Zenon
  <2> QED BY <2>1
<1>8. /\ DOMAIN vcs = 1..(n + Len(list))
      /\ \A i \in 1..n : vcs[i] = before[i]
      /\ \A i \in 1..Len(list) : vcs[n + i] = list[i]
  BY <1>2
<1> HIDE DEF vcs, n
<1>9. /\ \A iv \in Range(before) : iv \in InVCs /\ p[iv] = from[iv]
      /\ \A iv \in Range(list) : iv \in InVCs /\ p[iv] = port[iv]
  <2>1. Range(before) \subseteq InVCs /\ Range(list) \subseteq InVCs
    BY <1>0, RangeOf
  <2>2. Range(before) \intersect Range(list) = {}
    BY <1>0
  <2> HIDE DEF Range
  <2> QED BY <2>1, <2>2
<1> HIDE DEF p
<1>10. \A i \in 1..n : before[i] \in Range(before) /\ all[i].output = p[before[i]]
  <2>1. TAKE i \in 1..n
  <2>2. before[i] \in Range(before)
    BY <1>2 DEF Range
  <2>3. all[i].output = from[before[i]]
    BY <1>2, <1>3, <1>5
  <2> QED BY <1>9, <2>2, <2>3
<1>11. \A i \in 1..Len(list) : list[i] \in Range(list) /\ all[n + i].output = p[list[i]]
  <2>1. TAKE i \in 1..Len(list)
  <2>2. list[i] \in Range(list)
    BY <1>2 DEF Range
  <2>3. all[n + i].output = b[list[i]].out_port
    BY <1>1, <1>2, <1>5
  <2>4. b[list[i]].out_port = port[list[i]]
    BY <1>0, <2>2
  <2> QED BY <1>9, <2>2, <2>3, <2>4
<1>12. \A i \in 1..(n + Len(list)) : i \in 1..n \/ \E j \in 1..Len(list) : i = n + j
  <2>1. TAKE i \in 1..(n + Len(list))
  <2>2. CASE i <= n
    BY <1>2, <2>2
  <2>3. CASE i > n
    <3>1. i - n \in 1..Len(list) /\ i = n + (i - n)
      BY <1>2, <2>3
    <3> QED BY <3>1
  <2> QED BY <1>2, <2>2, <2>3
<1>13. AreFrom(all, vcs, p)
  <2>1. \A i \in DOMAIN vcs : all[i].output = p[vcs[i]]
    <3>1. TAKE i \in DOMAIN vcs
    <3>2. CASE i \in 1..n
      BY <1>8, <1>10, <3>2
    <3>3. CASE i \notin 1..n
      <4>1. PICK j \in 1..Len(list) : i = n + j
        BY <1>8, <1>12, <3>3
      <4> QED BY <1>8, <1>11, <4>1
    <3> QED BY <3>2, <3>3
  <2> QED BY <1>5, <1>8, <2>1 DEF AreFrom
<1>14. \A iv \in Range(vcs) : p[iv] \in Ports
  BY <1>0, <1>7, <1>9
<1>15. Apart(Range(vcs), p)
  <2> DEFINE e(iv) == ExpandedOutput(iv, p[iv])
  <2>1. \A iv, jv \in Range(before) : e(iv) = e(jv) => iv = jv
    BY <1>0, <1>9 DEF Apart
  <2>2. \A iv, jv \in Range(list) : e(iv) = e(jv) => iv = jv
    BY <1>0, <1>9 DEF Apart
  <2>3. \A iv \in Range(before), jv \in Range(list) : e(iv) # e(jv)
    BY <1>0, <1>9
  <2> HIDE DEF e
  <2>4. \A iv, jv \in Range(vcs) : e(iv) = e(jv) => iv = jv
    BY <1>7, <2>1, <2>2, <2>3
  <2> QED BY <2>4 DEF Apart, e
<1>16. Spread(all)
  BY <1>6, <1>13, <1>14, <1>15, SpreadOf
<1>17. \A i \in DOMAIN all : \/ \E iv \in Range(before) : all[i].output = from[iv]
                             \/ \E iv \in Range(list) : all[i].output = port[iv]
  <2>1. TAKE i \in DOMAIN all
  <2>2. CASE i \in 1..n
    <3>1. before[i] \in Range(before) /\ all[i].output = p[before[i]]
      BY <1>10, <2>2
    <3>2. p[before[i]] = from[before[i]]
      BY <1>9, <3>1
    <3> QED BY <3>1, <3>2
  <2>3. CASE i \notin 1..n
    <3>1. PICK j \in 1..Len(list) : i = n + j
      BY <1>5, <1>12, <2>3
    <3> QED BY <1>9, <1>11, <3>1
  <2> QED BY <2>2, <2>3
<1> QED BY <1>5, <1>16, <1>17, Zenon DEF AllSent, S

\* _SWAllocUpdate keeps the invariant, and only those that go send.
LEMMA SWAllocKept ==
  ASSUME config \in Configs, NEW rt, RouterCore(rt),
         NEW waited, IsList(waited, InVCs), Begins(waited, rt.sw_alloc_vcs, InVCs),
         NEW alloc, AreAllocators(alloc), NEW granted \in SUBSET InVCs,
         NEW goes \in SUBSET Range(waited),
         NEW port, port = [iv \in goes |-> GrantedOutput(alloc, iv)], MayGo(rt, port, goes),
         NEW before, IsList(before, InVCs), NEW from, AreFrom(rt.crossbar_flits, before, from),
         \A iv \in Range(before) : from[iv] \in Ports, Apart(Range(before), from),
         Range(before) \intersect goes = {},
         \A iv \in Range(before), jv \in goes :
           ExpandedOutput(iv, from[iv]) # ExpandedOutput(jv, port[jv]),
         NEW q2, q2 = SWAllocUpdate(rt, waited, alloc, granted, goes)
  PROVE  /\ RouterCore(q2)
         /\ q2.output_buffer = rt.output_buffer
         /\ AllSent(q2.crossbar_flits, Range(before), from, goes, port)
<1> DEFINE
      heads == {iv \in goes : Speculates(rt, iv)}
      come == SubSeq(rt.sw_alloc_vcs, Len(waited) + 1, Len(rt.sw_alloc_vcs))
      list == Selected(waited, goes)
      taking == [iv \in heads |-> port[iv]]
      r5 == TakePiggyback(rt, taking)
      r6 == Cross(r5, list)
<1>1. q2 = AfterCrossing(r6, waited, come, alloc, granted, goes)
  <2>1. [iv \in heads |-> GrantedOutput(alloc, iv)] = taking
    <3>1. \A iv \in heads : port[iv] = GrantedOutput(alloc, iv)
      OBVIOUS
    <3> HIDE DEF heads
    <3> QED BY <3>1
  <2>2. SWAllocUpdate(rt, waited, alloc, granted, goes) =
          AfterCrossing(Cross(TakePiggyback(rt, [iv \in heads |-> GrantedOutput(alloc, iv)]), list),
                        waited, come, alloc, granted, goes)
    BY Zenon DEF SWAllocUpdate
  <2> HIDE DEF taking, heads, come, list
  <2> QED BY <2>1, <2>2
<1>2. waited \in Seq(InVCs)
  BY DEF IsList
<1>3. /\ rt.sw_alloc_vcs = waited \o come /\ IsList(come, InVCs)
      /\ Range(waited) \intersect Range(come) = {}
  <2>1. PICK t \in Seq(InVCs) : rt.sw_alloc_vcs = waited \o t
    BY DEF Begins
  <2>2. come = t
    BY <1>2, <2>1, Rest
  <2>3. IsList(rt.sw_alloc_vcs, InVCs)
    BY DEF RouterCore, Lists
  <2> HIDE DEF come
  <2>4. IsList(t, InVCs) /\ Range(waited) \intersect Range(t) = {}
    BY <1>2, <2>1, <2>3, Parted
  <2> QED BY <2>1, <2>2, <2>4
<1> HIDE DEF come
<1>4. /\ HasTaken(r5, rt, taking)
      /\ \A iv \in goes : r5.buf[iv].state = "active" /\ r5.buf[iv].out_port = port[iv]
  <2>1. HasTaken(r5, rt, taking)
    BY HeadsTaken
  <2>2. \A iv \in goes : r5.buf[iv].state = "active" /\ r5.buf[iv].out_port = port[iv]
    BY HeadsTaken
  <2> QED BY <2>1, <2>2
<1> HIDE DEF r5, r6, taking, heads
<1>5. /\ RouterCore(r5)
      /\ r5.sw_alloc_vcs = rt.sw_alloc_vcs /\ r5.held = rt.held
      /\ r5.crossbar_flits = rt.crossbar_flits /\ r5.output_buffer = rt.output_buffer
  BY <1>4, Zenon DEF HasTaken
<1>6. IsList(list, InVCs) /\ Range(list) = goes
  BY SelectedAre
<1>7. Range(waited) \subseteq Range(rt.sw_alloc_vcs)
  <2>1. Range(waited \o come) = Range(waited) \union Range(come)
    <3>1. come \in Seq(InVCs)
      BY <1>3, Zenon DEF IsList
    <3> QED BY <1>2, <3>1, JoinedRange, ZenonT(60)
  <2> QED BY <1>3, <2>1
<1> HIDE DEF list
<1>8. SwitchCrossed(r6, r5, list)
  BY <1>4, <1>5, <1>6, <1>7, CrossedCore DEF r6
<1>9. MayGo(r5, port, goes)
  <2>1. /\ DOMAIN port = goes /\ goes \subseteq Range(rt.sw_alloc_vcs)
        /\ \A iv \in goes :
             /\ port[iv] \in Ports
             /\ ExpandedInput(iv) \notin DOMAIN rt.held
             /\ \A ei \in DOMAIN rt.held : rt.held[ei].output # ExpandedOutput(iv, port[iv])
        /\ \A iv, jv \in goes :
             \/ ExpandedInput(iv) = ExpandedInput(jv)
             \/ ExpandedOutput(iv, port[iv]) = ExpandedOutput(jv, port[jv])
             => iv = jv
    BY Zenon DEF MayGo
  <2>2. r5.sw_alloc_vcs = rt.sw_alloc_vcs /\ r5.held = rt.held
    BY <1>5
  <2>3. \A iv \in goes :
           /\ port[iv] \in Ports
           /\ \/ r5.buf[iv].state = "active" /\ r5.buf[iv].out_port = port[iv]
              \/ Piggyback /\ r5.buf[iv].state = "vc_alloc" /\ PiggybackVCs(r5, iv, port[iv]) # {}
           /\ ExpandedInput(iv) \notin DOMAIN r5.held
           /\ \A ei \in DOMAIN r5.held : r5.held[ei].output # ExpandedOutput(iv, port[iv])
    BY <1>4, <2>1, <2>2, Zenon
  <2>4. DOMAIN port = goes /\ goes \subseteq Range(r5.sw_alloc_vcs)
    BY <2>1, <2>2, Zenon
  <2> QED BY <2>1, <2>3, <2>4, Zenon DEF MayGo
<1>10. HasGone(q2, r6, waited, come, alloc, granted, goes)
  <2>1. DOMAIN r6 = RouterFields
    BY <1>8, Zenon DEF SwitchCrossed
  <2>2. HasGone(AfterCrossing(r6, waited, come, alloc, granted, goes),
                r6, waited, come, alloc, granted, goes)
    BY <2>1, AfterFields, Zenon
  <2> QED BY <1>1, <2>2
<1>11. r6.crossbar_flits = r5.crossbar_flits \o Sendings(r5.buf, list)
  BY <1>8, Zenon DEF SwitchCrossed
<1>12. \A iv \in Range(list) : /\ r5.buf[iv] \in VCRecord /\ r5.buf[iv].flits # <<>>
                               /\ r5.buf[iv].out_port \in Ports /\ r5.buf[iv].out_vc \in VCIds
                               /\ r5.buf[iv].out_port = port[iv]
  <2>1. Pipeline(r5.buf, Range(r5.route_vcs), Range(r5.vc_alloc_vcs), Range(r5.sw_alloc_vcs),
                 Range(r5.sw_hold_vcs))
    BY <1>5 DEF RouterCore, Staged
  <2>2. /\ r5.buf \in [InVCs -> VCRecord] /\ Range(r5.sw_alloc_vcs) \subseteq InVCs
        /\ \A iv \in InVCs : r5.buf[iv].state = "active" =>
              r5.buf[iv].out_port \in Ports /\ r5.buf[iv].out_vc \in VCIds
        /\ \A iv \in Range(r5.route_vcs) \union Range(r5.vc_alloc_vcs) \union
                     Range(r5.sw_alloc_vcs) \union Range(r5.sw_hold_vcs) : r5.buf[iv].flits # <<>>
    BY <2>1, PipelineIs
  <2>3. goes \subseteq Range(r5.sw_alloc_vcs)
    BY <1>5, <1>7
  <2> HIDE DEF Range
  <2> QED BY <1>4, <1>6, <2>2, <2>3
<1>13. Apart(Range(list), port)
  <2>1. \A iv, jv \in goes :
             \/ ExpandedInput(iv) = ExpandedInput(jv)
             \/ ExpandedOutput(iv, port[iv]) = ExpandedOutput(jv, port[jv])
             => iv = jv
    BY <1>9, Zenon DEF MayGo
  <2> QED BY <1>6, <2>1, Zenon DEF Apart
<1>14. rt.crossbar_flits \in Seq([f : SentFlit, output : Ports])
  BY DEF RouterCore, Outgoing
<1>15. r6.crossbar_flits = rt.crossbar_flits \o Sendings(r5.buf, list)
  BY <1>5, <1>11
<1>16. AllSent(r6.crossbar_flits, Range(before), from, goes, port)
  <2>1. AllMaySend(before, from, r5.buf, list, port)
    BY <1>6, <1>12, <1>13, Zenon DEF AllMaySend
  <2> QED BY <1>6, <1>14, <1>15, <2>1, CrossbarJoined
<1>17. Lists(q2) /\ Staged(q2)
  <2>1. /\ SwitchCrossed(r6, r5, Selected(waited, goes))
        /\ r5.sw_alloc_vcs = waited \o come
        /\ \A iv \in goes : r5.buf[iv].state = "active"
    BY <1>3, <1>4, <1>5, <1>8 DEF list
  <2>2. Lists(q2)
    BY <1>3, <1>5, <1>9, <1>10, <2>1, AfterStaged, Zenon
  <2>3. Staged(q2)
    BY <1>3, <1>5, <1>9, <1>10, <2>1, AfterStaged, Zenon
  <2> QED BY <2>2, <2>3
<1>19. RouterCore(q2)
  <2>1. /\ r6.crossbar_flits \in Seq([f : SentFlit, output : Ports])
        /\ Spread(r6.crossbar_flits)
    BY <1>16, Zenon DEF AllSent
  <2> QED BY <1>5, <1>8, <1>10, <1>17, <2>1, AfterKept, Zenon
<1>20. q2.output_buffer = rt.output_buffer /\ q2.crossbar_flits = r6.crossbar_flits
  BY <1>5, <1>8, <1>10, Zenon DEF HasGone, SwitchCrossed
<1> QED BY <1>6, <1>16, <1>19, <1>20

\* With nothing that waits, VC allocation leaves the output VCs alone.
LEMMA NextBufKept ==
  ASSUME NEW rt, DOMAIN rt = RouterFields, NEW alloc, NEW o \in Ports
  PROVE  VCAllocUpdate(rt, <<>>, alloc).next_buf[o] = rt.next_buf[o]
<1> DEFINE none == <<>>
           winners == {iv \in Range(none) : Indexed(iv) \in DOMAIN alloc.inmatch}
           port == [iv \in winners |-> alloc.inmatch[Indexed(iv)] \div NumVCs]
           vc == [iv \in winners |-> alloc.inmatch[Indexed(iv)] % NumVCs]
           come == SubSeq(rt.vc_alloc_vcs, Len(none) + 1, Len(rt.vc_alloc_vcs))
           to(p) == {iv \in winners : port[iv] = p}
           tags(p) == [v \in {vc[iv] : iv \in to(p)} |->
                         LET iv == CHOOSE jv \in to(p) : vc[jv] = v IN iv[1] * NumVCs + iv[2]]
           buf == [iv \in InVCs |->
                     IF iv \in winners THEN [rt.buf[iv] EXCEPT !.state = "active", !.route_set = {},
                                                           !.out_port = port[iv], !.out_vc = vc[iv]]
                     ELSE rt.buf[iv]]
           nb == [p \in Ports |-> IF to(p) = {} THEN rt.next_buf[p] ELSE TakeBuffer(rt.next_buf[p], tags(p))]
           taken == [rt EXCEPT !.buf = Evaluated(buf), !.next_buf = Evaluated(nb)]
           list == come \o Selected(none, Range(none) \ winners)
           won == Selected(none, winners)
           s == [taken EXCEPT
                  !.vc_alloc_vcs = list,
                  !.sw_alloc_vcs = IF config.speculative THEN @ ELSE @ \o won,
                  !.vc_allocator = Cleared(alloc)]
<1>1. TakeOutputs(rt, winners, port, vc) = taken
  BY Zenon DEF TakeOutputs
<1>2. VCAllocUpdate(rt, <<>>, alloc) = s
  <2>1. VCAllocUpdate(rt, <<>>, alloc) =
          [TakeOutputs(rt, winners, port, vc) EXCEPT
            !.vc_alloc_vcs = list,
            !.sw_alloc_vcs = IF config.speculative THEN @ ELSE @ \o won,
            !.vc_allocator = Cleared(alloc)]
    BY Zenon DEF VCAllocUpdate
  <2> HIDE DEF taken, winners, port, vc, list, won
  <2> QED BY <1>1, <2>1
<1>3. Evaluated(nb) = nb
  BY EvaluatedIs, Zenon
<1>4. winners = {}
  BY DEF Range
<1>5. to(o) = {}
  <2> HIDE DEF winners, port
  <2> QED BY <1>4
<1>6. nb[o] = rt.next_buf[o]
  <2> HIDE DEF to, tags
  <2> QED BY <1>5
<1> HIDE DEF nb, buf, list, won
<1>7. DOMAIN taken = RouterFields /\ taken.next_buf = nb
  BY <1>3 DEF RouterFields
<1> HIDE DEF taken
<1>8. s.next_buf = taken.next_buf
  BY <1>7 DEF RouterFields
<1> HIDE DEF s
<1> QED BY <1>2, <1>6, <1>7, <1>8

\* A list with no elements is empty.
LEMMA NothingIn ==
  ASSUME NEW A, NEW s, IsList(s, A), Range(s) = {}
  PROVE  s = <<>>
<1>1. s \in Seq(A) /\ DOMAIN s = 1..Len(s) /\ Len(s) \in Nat
  BY DEF IsList
<1>2. \A i \in DOMAIN s : s[i] \in Range(s)
  BY DEF Range
<1>3. 1 \notin DOMAIN s
  BY <1>2
<1>4. Len(s) = 0
  BY <1>1, <1>3
<1> QED BY <1>1, <1>4

\* What the phases up to VC allocation leave to the rest of the cycle, in a
\* router that has decided on q.
Allotted(r, q) ==
  /\ RouterCore(r)
  /\ r.crossbar_flits = <<>> /\ r.held = q.held /\ r.sw_hold_vcs = q.sw_hold_vcs
  /\ r.output_buffer = SwitchUpdate(q).output_buffer
  /\ Begins(q.sw_alloc_vcs, r.sw_alloc_vcs, InVCs)
  /\ \A iv \in InVCs : q.buf[iv].state = "active" => r.buf[iv] = q.buf[iv]
  /\ ~Piggyback => \A iv \in Winners(q.vc_alloc_vcs, VCAllocate(q)) :
       /\ r.buf[iv].state = "active"
       /\ r.buf[iv].out_port = VCAllocate(q).inmatch[Indexed(iv)] \div NumVCs
  /\ Piggyback => /\ \A iv \in InVCs : q.buf[iv].state = "vc_alloc" => r.buf[iv] = q.buf[iv]
                  /\ \A o \in Ports : r.next_buf[o] = q.next_buf[o]

\* The allocator that VCAllocUpdate gets.
LEMMA VCAllocatorIs ==
  ASSUME config \in Configs, NEW q, RouterCore(q)
  PROVE  /\ DOMAIN VCAllocate(q) = AllocatorFields
         /\ Piggyback => q.vc_alloc_vcs = <<>>
         /\ ~Piggyback => IsAllocator(VCAllocate(q), config.vc_allocator, NumPorts * NumVCs,
                                      NumPorts * NumVCs)
         /\ \A iv \in Winners(q.vc_alloc_vcs, VCAllocate(q)) :
              /\ VCAllocate(q).inmatch[Indexed(iv)] \div NumVCs \in Ports
              /\ VCAllocate(q).inmatch[Indexed(iv)] % NumVCs \in VCIds
<1> DEFINE alloc == VCAllocate(q)
<1>1. Lists(q) /\ Staged(q) /\ AllocatorsReady(q)
  BY DEF RouterCore
<1>2. CASE Piggyback
  <2>1. Range(q.vc_alloc_vcs) = {}
    BY <1>1, <1>2, PipelineIs DEF Staged
  <2>2. q.vc_alloc_vcs = <<>>
    BY <1>1, <2>1, NothingIn DEF Lists
  <2>3. alloc = q.vc_allocator
    BY <2>2 DEF VCAllocate
  <2>4. DOMAIN alloc = AllocatorFields
    BY <1>1, <2>3 DEF AllocatorsReady, IsReady
  <2>5. Winners(q.vc_alloc_vcs, alloc) = {}
    BY <2>1 DEF Winners
  <2> HIDE DEF alloc
  <2> QED BY <1>2, <2>2, <2>4, <2>5 DEF alloc
<1>3. CASE ~Piggyback
  <2>1. IsAllocator(alloc, config.vc_allocator, NumPorts * NumVCs, NumPorts * NumVCs)
    BY <1>3, VCAllocated, Zenon
  <2>2. \A i \in DOMAIN alloc.inmatch :
          alloc.inmatch[i] \div NumVCs \in Ports /\ alloc.inmatch[i] % NumVCs \in VCIds
    BY <1>3, VCAllocated, Zenon
  <2>3. DOMAIN alloc = AllocatorFields
    BY <2>1, Zenon DEF IsAllocator
  <2> HIDE DEF alloc
  <2>4. \A iv \in Winners(q.vc_alloc_vcs, alloc) :
          alloc.inmatch[Indexed(iv)] \div NumVCs \in Ports /\ alloc.inmatch[Indexed(iv)] % NumVCs \in VCIds
    BY <2>2, Zenon DEF Winners
  <2> QED BY <1>3, <2>1, <2>3, <2>4, Zenon DEF alloc
<1> QED BY <1>2, <1>3

\* The state between _VCAllocUpdate and _SWHoldUpdate: what of the pipeline and
\* of the crossbar is known there.
LEMMA AllottedIs ==
  ASSUME config \in Configs, NEW q, RouterCore(q),
         NEW routed, IsRouted(routed, Range(q.route_vcs)),
         NEW r3, r3 = VCAllocUpdate(RouteUpdate(SwitchUpdate(q), routed), q.vc_alloc_vcs, VCAllocate(q))
  PROVE  Allotted(r3, q)
<1> DEFINE r1 == SwitchUpdate(q)
           r2 == RouteUpdate(r1, routed)
           waited == q.vc_alloc_vcs
           alloc == VCAllocate(q)
           come == IF Piggyback THEN <<>> ELSE q.route_vcs
           won == Winners(waited, alloc)
           R == Range(q.route_vcs)
<1>0. DOMAIN q = RouterFields
  BY DEF RouterCore
<1>1. RouterCore(r1)
  BY SwitchKept
<1>2. /\ r1.buf = q.buf /\ r1.next_buf = q.next_buf
      /\ r1.route_vcs = q.route_vcs /\ r1.vc_alloc_vcs = q.vc_alloc_vcs
      /\ r1.sw_alloc_vcs = q.sw_alloc_vcs /\ r1.sw_hold_vcs = q.sw_hold_vcs
      /\ r1.crossbar_flits = <<>> /\ r1.held = q.held
  BY <1>0, SwitchedFields, Zenon
<1> HIDE DEF r1
<1>3. DOMAIN r1 = RouterFields
  BY <1>1 DEF RouterCore
<1>4. RouterCore(r2)
  BY <1>1, <1>2, RouteKept
<1>5. /\ r2.buf = RoutedAt(r1.buf, routed) /\ r2.next_buf = r1.next_buf
      /\ r2.vc_alloc_vcs = IF Piggyback THEN r1.vc_alloc_vcs ELSE r1.vc_alloc_vcs \o r1.route_vcs
      /\ r2.sw_alloc_vcs = IF config.speculative THEN r1.sw_alloc_vcs \o r1.route_vcs
                           ELSE r1.sw_alloc_vcs
      /\ r2.sw_hold_vcs = r1.sw_hold_vcs
      /\ r2.crossbar_flits = r1.crossbar_flits /\ r2.held = r1.held
      /\ r2.output_buffer = r1.output_buffer
  BY <1>3, RoutedFields, Zenon
<1> HIDE DEF r2
<1>6. DOMAIN r2 = RouterFields
  BY <1>4 DEF RouterCore
<1>7. Lists(q) /\ Staged(q)
  BY DEF RouterCore
<1>8. /\ IsList(q.route_vcs, InVCs) /\ IsList(waited, InVCs) /\ IsList(q.sw_alloc_vcs, InVCs)
      /\ q.route_vcs \in Seq(InVCs) /\ waited \in Seq(InVCs) /\ q.sw_alloc_vcs \in Seq(InVCs)
  BY <1>7 DEF Lists, IsList
<1>9. Pipeline(q.buf, R, Range(waited), Range(q.sw_alloc_vcs), Range(q.sw_hold_vcs))
  BY <1>7 DEF Staged
<1>10. /\ q.buf \in [InVCs -> VCRecord] /\ R \intersect Range(waited) = {}
       /\ \A iv \in R : q.buf[iv].state = "routing"
       /\ \A iv \in Range(waited) : iv \in InVCs /\ q.buf[iv].state = "vc_alloc"
  BY <1>9, PipelineIs
<1>11. /\ DOMAIN alloc = AllocatorFields
       /\ Piggyback => waited = <<>>
       /\ ~Piggyback => IsAllocator(alloc, config.vc_allocator, NumPorts * NumVCs, NumPorts * NumVCs)
       /\ \A iv \in won : /\ alloc.inmatch[Indexed(iv)] \div NumVCs \in Ports
                          /\ alloc.inmatch[Indexed(iv)] % NumVCs \in VCIds
  BY VCAllocatorIs, Zenon
<1>12. won \subseteq Range(waited)
  BY DEF Winners
<1>13. IsList(come, InVCs) /\ Range(waited) \intersect Range(come) = {} /\ r2.vc_alloc_vcs = waited \o come
  <2>1. CASE Piggyback
    BY <1>2, <1>5, <1>8, <1>11, <2>1, EmptyList
  <2>2. CASE ~Piggyback
    BY <1>2, <1>5, <1>8, <1>10, <2>2
  <2> QED BY <2>1, <2>2
<1> HIDE DEF come, alloc, won
<1>14. RouterCore(r3)
  <2>1. r3 = VCAllocUpdate(r2, waited, alloc)
    BY DEF r1, r2, alloc
  <2> HIDE DEF waited
  <2> QED BY <1>4, <1>8, <1>11, <1>13, <2>1, VCAllocKept, Zenon DEF won
<1>15. VCUpdated(r3, r2, waited, alloc, won)
  <2>1. VCUpdated(VCAllocUpdate(r2, waited, alloc), r2, waited, alloc, won)
    BY <1>6, VCUpdateFields, Zenon DEF won
  <2> QED BY <2>1 DEF r1, r2, alloc
<1>16. /\ r3.buf = TakenAt(r2.buf, won, WonPort(waited, alloc), WonVC(waited, alloc))
       /\ r3.sw_alloc_vcs = IF config.speculative THEN r2.sw_alloc_vcs
                            ELSE r2.sw_alloc_vcs \o Selected(waited, won)
       /\ r3.sw_hold_vcs = r2.sw_hold_vcs
       /\ r3.crossbar_flits = r2.crossbar_flits /\ r3.held = r2.held
       /\ r3.output_buffer = r2.output_buffer
  BY <1>15, Zenon DEF VCUpdated
<1>17. Begins(q.sw_alloc_vcs, r3.sw_alloc_vcs, InVCs)
  <2>1. Begins(q.sw_alloc_vcs, q.sw_alloc_vcs, InVCs)
    BY <1>8, BeginsItself
  <2>2. Begins(q.sw_alloc_vcs, q.sw_alloc_vcs \o q.route_vcs, InVCs)
    BY <1>8, <2>1, BeginsOn
  <2>3. Begins(q.sw_alloc_vcs, r2.sw_alloc_vcs, InVCs)
    BY <1>2, <1>5, <2>1, <2>2
  <2>4. Selected(waited, won) \in Seq(InVCs)
    BY <1>8, SelectedList, RangeOf
  <2>5. Begins(q.sw_alloc_vcs, r2.sw_alloc_vcs \o Selected(waited, won), InVCs)
    BY <1>8, <2>3, <2>4, BeginsOn
  <2> QED BY <1>16, <2>3, <2>5
<1>18. \A iv \in InVCs \ R : r2.buf[iv] = q.buf[iv]
  <2>1. DOMAIN routed = R
    BY DEF IsRouted
  <2> HIDE DEF R
  <2> QED BY <1>2, <1>5, <2>1 DEF RoutedAt
<1>19. \A iv \in InVCs : /\ iv \notin won => r3.buf[iv] = r2.buf[iv]
                         /\ iv \in won => /\ r3.buf[iv].state = "active"
                                          /\ r3.buf[iv].out_port = WonPort(waited, alloc)[iv]
  <2>1. r2.buf \in [InVCs -> VCRecord] /\ won \in SUBSET InVCs
    <3>1. r2.buf \in [InVCs -> VCRecord]
      BY <1>4, PipelineIs DEF RouterCore, Staged
    <3> QED BY <1>10, <1>12, <3>1
  <2> HIDE DEF waited
  <2> QED BY <1>16, <2>1, TakenAs
<1>20. \A iv \in InVCs : q.buf[iv].state = "active" => r3.buf[iv] = q.buf[iv]
  BY <1>10, <1>12, <1>18, <1>19
<1>21. \A iv \in won : /\ r3.buf[iv].state = "active"
                       /\ r3.buf[iv].out_port = alloc.inmatch[Indexed(iv)] \div NumVCs
  <2>1. \A iv \in won : WonPort(waited, alloc)[iv] = alloc.inmatch[Indexed(iv)] \div NumVCs
    BY DEF WonPort, won
  <2> QED BY <1>10, <1>12, <1>19, <2>1
<1>22. ASSUME Piggyback
       PROVE  /\ \A iv \in InVCs : q.buf[iv].state = "vc_alloc" => r3.buf[iv] = q.buf[iv]
              /\ \A o \in Ports : r3.next_buf[o] = q.next_buf[o]
  <2>1. waited = <<>>
    BY <1>11, <1>22
  <2>2. won = {}
    BY <1>12, <2>1 DEF Range
  <2>3. \A iv \in InVCs : q.buf[iv].state = "vc_alloc" => r3.buf[iv] = q.buf[iv]
    BY <1>10, <1>18, <1>19, <2>2
  <2>4. r3 = VCAllocUpdate(r2, <<>>, alloc)
    BY <2>1 DEF r1, r2, alloc
  <2>5. \A o \in Ports : r3.next_buf[o] = r2.next_buf[o]
    <3>1. ASSUME NEW o \in Ports
          PROVE  VCAllocUpdate(r2, <<>>, alloc).next_buf[o] = r2.next_buf[o]
      BY <1>6, NextBufKept
    <3> QED BY <2>4, <3>1
  <2> QED BY <1>2, <1>5, <2>3, <2>5
<1>23. /\ r3.crossbar_flits = <<>> /\ r3.held = q.held /\ r3.sw_hold_vcs = q.sw_hold_vcs
       /\ r3.output_buffer = r1.output_buffer
  BY <1>2, <1>5, <1>16
<1> QED BY <1>14, <1>17, <1>20, <1>21, <1>22, <1>23, Zenon DEF Allotted, won, alloc, r1

\* The VCs with a held switch of q were the only ones to send: what else was
\* decided on q still holds of r.
Yielded(r, q, before) ==
  /\ RouterCore(r)
  /\ r.output_buffer = SwitchUpdate(q).output_buffer
  /\ Begins(q.sw_alloc_vcs, r.sw_alloc_vcs, InVCs)
  /\ \A ei \in DOMAIN r.held : ei \in DOMAIN q.held /\ r.held[ei] = q.held[ei]
  /\ \A iv \in InVCs \ Range(q.sw_hold_vcs) : q.buf[iv].state = "active" => r.buf[iv] = q.buf[iv]
  /\ ~Piggyback => \A iv \in Winners(q.vc_alloc_vcs, VCAllocate(q)) :
       /\ r.buf[iv].state = "active"
       /\ r.buf[iv].out_port = VCAllocate(q).inmatch[Indexed(iv)] \div NumVCs
  /\ Piggyback =>
       /\ \A iv \in InVCs : q.buf[iv].state = "vc_alloc" => r.buf[iv] = q.buf[iv]
       /\ \A o \in Ports : (\A iv \in Range(q.sw_hold_vcs) : q.buf[iv].out_port # o) =>
                             r.next_buf[o] = q.next_buf[o]
  /\ IsList(before, InVCs) /\ Range(before) \subseteq Range(q.sw_hold_vcs)
  /\ AreFrom(r.crossbar_flits, before, PortsOf(q.buf))

\* The state between _SWHoldUpdate and _SWAllocUpdate: the crossbar holds the
\* flits of the holders that went.
LEMMA YieldedIs ==
  ASSUME config \in Configs, NEW q, RouterCore(q),
         NEW r3, Allotted(r3, q), NEW goes
  PROVE  Yielded(SWHoldUpdate(r3, goes), q, Goers(r3, goes))
<1> DEFINE r4 == SWHoldUpdate(r3, goes)
           l == Goers(r3, goes)
           H == Range(q.sw_hold_vcs)
           won == Winners(q.vc_alloc_vcs, VCAllocate(q))
<1>1. /\ RouterCore(r3)
      /\ r3.crossbar_flits = <<>> /\ r3.held = q.held /\ r3.sw_hold_vcs = q.sw_hold_vcs
      /\ r3.output_buffer = SwitchUpdate(q).output_buffer
      /\ Begins(q.sw_alloc_vcs, r3.sw_alloc_vcs, InVCs)
      /\ \A iv \in InVCs : q.buf[iv].state = "active" => r3.buf[iv] = q.buf[iv]
      /\ ~Piggyback => \A iv \in won :
           /\ r3.buf[iv].state = "active"
           /\ r3.buf[iv].out_port = VCAllocate(q).inmatch[Indexed(iv)] \div NumVCs
      /\ Piggyback => /\ \A iv \in InVCs : q.buf[iv].state = "vc_alloc" => r3.buf[iv] = q.buf[iv]
                      /\ \A o \in Ports : r3.next_buf[o] = q.next_buf[o]
  BY Zenon DEF Allotted
<1>2. DOMAIN r3 = RouterFields /\ Lists(r3) /\ Staged(r3)
  BY <1>1 DEF RouterCore
<1>3. HasHeld(r4, r3, goes)
  BY <1>2, HoldFields, Zenon
<1>4. RouterCore(r4)
  BY <1>1, HoldKept
<1>5. IsList(l, InVCs) /\ Range(l) \subseteq H
  BY <1>1, HoldKept
<1>6. AreFrom(r4.crossbar_flits, l, PortsOf(r3.buf))
  BY <1>1, HoldKept
<1>7. \A iv \in InVCs \ H : r4.buf[iv] = r3.buf[iv]
  BY <1>1, HoldKept
<1>8. /\ r4.held = [ei \in {ExpandedInput(iv) : iv \in Keepers(r3, goes)} |-> r3.held[ei]]
      /\ r4.sw_alloc_vcs = r3.sw_alloc_vcs \o Selected(r3.sw_hold_vcs, Range(r3.sw_hold_vcs) \ goes)
      /\ r4.output_buffer = r3.output_buffer
      /\ \A o \in Ports : (\A iv \in Range(l) : r3.buf[iv].out_port # o) =>
                            r4.next_buf[o] = r3.next_buf[o]
  <2> HIDE DEF r4
  <2> QED BY <1>3, Zenon DEF HasHeld
<1> HIDE DEF r4, l
<1>9. Lists(q) /\ Staged(q)
  BY DEF RouterCore
<1>10. /\ H \subseteq InVCs
       /\ \A iv \in H : q.buf[iv].state = "active"
       /\ \A iv \in Range(q.vc_alloc_vcs) : iv \in InVCs /\ q.buf[iv].state = "vc_alloc"
  <2>1. Pipeline(q.buf, Range(q.route_vcs), Range(q.vc_alloc_vcs), Range(q.sw_alloc_vcs), H)
    BY <1>9 DEF Staged
  <2> HIDE DEF H
  <2> QED BY <2>1, PipelineIs
<1>11. Begins(q.sw_alloc_vcs, r4.sw_alloc_vcs, InVCs)
  <2>1. IsList(r3.sw_hold_vcs, InVCs) /\ q.sw_alloc_vcs \in Seq(InVCs)
    BY <1>2, <1>9 DEF Lists, IsList
  <2>2. Selected(r3.sw_hold_vcs, Range(r3.sw_hold_vcs) \ goes) \in Seq(InVCs)
    BY <2>1, SelectedList, RangeOf
  <2> QED BY <1>1, <1>8, <2>1, <2>2, BeginsOn
<1>12. \A ei \in DOMAIN r4.held : ei \in DOMAIN q.held /\ r4.held[ei] = q.held[ei]
  <2>1. DOMAIN r3.held = {ExpandedInput(iv) : iv \in H}
    BY <1>1, <1>2 DEF Staged, Holding
  <2>2. Keepers(r3, goes) \subseteq H
    BY <1>1 DEF Keepers
  <2>3. DOMAIN r4.held = {ExpandedInput(iv) : iv \in Keepers(r3, goes)}
    BY <1>8
  <2> HIDE DEF H
  <2>4. DOMAIN r4.held \subseteq DOMAIN q.held
    BY <1>1, <2>1, <2>2, <2>3
  <2> QED BY <1>1, <1>8, <2>3, <2>4
<1>13. \A iv \in InVCs \ H : q.buf[iv].state = "active" => r4.buf[iv] = q.buf[iv]
  BY <1>1, <1>7
<1>14. ~Piggyback => \A iv \in won :
         /\ r4.buf[iv].state = "active"
         /\ r4.buf[iv].out_port = VCAllocate(q).inmatch[Indexed(iv)] \div NumVCs
  <2>1. \A iv \in won : iv \in InVCs \ H
    <3>1. won \subseteq Range(q.vc_alloc_vcs)
      BY DEF Winners
    <3> HIDE DEF won, H
    <3> QED BY <1>10, <3>1
  <2> HIDE DEF won, H
  <2> QED BY <1>1, <1>7, <2>1
<1>15. ASSUME Piggyback
       PROVE  /\ \A iv \in InVCs : q.buf[iv].state = "vc_alloc" => r4.buf[iv] = q.buf[iv]
              /\ \A o \in Ports : (\A iv \in H : q.buf[iv].out_port # o) =>
                                    r4.next_buf[o] = q.next_buf[o]
  <2>1. \A iv \in InVCs : q.buf[iv].state = "vc_alloc" => r4.buf[iv] = q.buf[iv]
    BY <1>1, <1>7, <1>10, <1>15
  <2>2. \A iv \in Range(l) : r3.buf[iv] = q.buf[iv] /\ iv \in H
    BY <1>1, <1>5, <1>10
  <2>3. \A o \in Ports : (\A iv \in H : q.buf[iv].out_port # o) =>
                           r4.next_buf[o] = q.next_buf[o]
    <3> HIDE DEF H
    <3> QED BY <1>1, <1>8, <1>15, <2>2
  <2> QED BY <2>1, <2>3
<1>16. AreFrom(r4.crossbar_flits, l, PortsOf(q.buf))
  <2>1. \A i \in DOMAIN l : l[i] \in InVCs /\ PortsOf(r3.buf)[l[i]] = PortsOf(q.buf)[l[i]]
    <3>1. TAKE i \in DOMAIN l
    <3>2. l[i] \in H
      BY <1>5 DEF Range
    <3>3. l[i] \in InVCs /\ r3.buf[l[i]] = q.buf[l[i]]
      BY <1>1, <1>10, <3>2
    <3> QED BY <3>3 DEF PortsOf
  <2> QED BY <1>6, <2>1, Zenon DEF AreFrom
<1>17. r4.output_buffer = SwitchUpdate(q).output_buffer
  BY <1>1, <1>8
<1> QED BY <1>4, <1>5, <1>11, <1>12, <1>13, <1>14, <1>15, <1>16, <1>17, Zenon DEF Yielded, r4, l

\* The VCs that send, and their outputs.
SendingVCs(q, alloc) ==
  {iv \in GrantedVCs(q, alloc) : Confirmed(q, alloc, VCAllocate(q), iv)}

\* What was granted on q.
LEMMA GrantedIs ==
  ASSUME config \in Configs, NEW q, RouterCore(q),
         NEW alloc, AreGrants(q, alloc), NEW iv \in GrantedVCs(q, alloc)
  PROVE  /\ iv \in InVCs /\ iv \in Range(q.sw_alloc_vcs)
         /\ GrantedOutput(alloc, iv) \in Ports
         /\ ExpandedOutput(iv, GrantedOutput(alloc, iv)) = GrantedTo(alloc, iv)
         /\ ~Speculates(q, iv) => q.buf[iv].out_port = GrantedOutput(alloc, iv)
         /\ ExpandedInput(iv) \notin DOMAIN q.held
         /\ \A ei \in DOMAIN q.held : q.held[ei].output # GrantedTo(alloc, iv)
         /\ config.output_speedup # 1 => BufferedAt(q, GrantedOutput(alloc, iv)) < OutputBufferSize
<1>1. iv \in Range(q.sw_alloc_vcs) /\ Granted(q, alloc, iv)
  BY DEF GrantedVCs
<1>2. iv \in InVCs
  BY <1>1, GrantIs
<1>3. MayAsk(q, iv, GrantedTo(alloc, iv))
  BY <1>1, GrantIs
<1>4. GrantedOutput(alloc, iv) = GrantedTo(alloc, iv) \div config.output_speedup
  BY <1>1, GrantIs
<1> DEFINE eo == GrantedTo(alloc, iv)
           o == GrantedOutput(alloc, iv)
<1> HIDE DEF eo, o
<1>5. MayAsk(q, iv, eo) /\ o = eo \div config.output_speedup
  BY <1>3, <1>4 DEF eo, o
<1>6. /\ o \in Ports /\ ExpandedOutput(iv, o) = eo
      /\ ~Speculates(q, iv) => q.buf[iv].out_port = o
      /\ ExpandedInput(iv) \notin DOMAIN q.held
      /\ \A ei \in DOMAIN q.held : q.held[ei].output # eo
      /\ config.output_speedup # 1 => BufferedAt(q, o) < OutputBufferSize
  BY <1>5, Zenon DEF MayAsk
<1> QED BY <1>1, <1>2, <1>6, Zenon DEF eo, o

\* A held output is the one the VC sends to.
LEMMA HeldIs ==
  ASSUME config \in Configs, NEW q, RouterCore(q), NEW jv \in Range(q.sw_hold_vcs)
  PROVE  /\ jv \in InVCs /\ q.buf[jv].out_port \in Ports
         /\ jv \notin Range(q.sw_alloc_vcs)
         /\ ExpandedInput(jv) \in DOMAIN q.held
         /\ q.held[ExpandedInput(jv)].output = ExpandedOutput(jv, q.buf[jv].out_port)
         /\ config.output_speedup = 1
<1> DEFINE H == Range(q.sw_hold_vcs)
           W == Range(q.sw_alloc_vcs)
<1>1. /\ Pipeline(q.buf, Range(q.route_vcs), Range(q.vc_alloc_vcs), W, H)
      /\ Holding(q.held, q.buf, H)
  BY DEF RouterCore, Staged
<1>2. jv \in H
  OBVIOUS
<1> HIDE DEF H, W
<1>3. jv \in InVCs /\ jv \notin W /\ q.buf[jv].state = "active"
  BY <1>1, <1>2, PipelineIs
<1>4. q.buf[jv].out_port \in Ports
  BY <1>1, <1>3, PipelineIs
<1>5. /\ ExpandedInput(jv) \in DOMAIN q.held
      /\ q.held[ExpandedInput(jv)].output = ExpandedOutput(jv, q.buf[jv].out_port)
      /\ config.hold_switch_for_packet
  BY <1>1, <1>2 DEF Holding
<1> QED BY <1>3, <1>4, <1>5, ConfigFacts DEF W

\* A VC that sends has an output at the end of the cycle, or gets one with it.
LEMMA SenderHas ==
  ASSUME config \in Configs, NEW q, RouterCore(q),
         NEW r, NEW before, Yielded(r, q, before),
         NEW alloc, AreGrants(q, alloc), NEW iv \in SendingVCs(q, alloc)
  PROVE  \/ r.buf[iv].state = "active" /\ r.buf[iv].out_port = GrantedOutput(alloc, iv)
         \/ /\ Piggyback /\ r.buf[iv].state = "vc_alloc"
            /\ PiggybackVCs(r, iv, GrantedOutput(alloc, iv)) # {}
<1> DEFINE o == GrantedOutput(alloc, iv)
           H == Range(q.sw_hold_vcs)
           W == Range(q.sw_alloc_vcs)
           V == Range(q.vc_alloc_vcs)
<1>1. iv \in GrantedVCs(q, alloc) /\ Confirmed(q, alloc, VCAllocate(q), iv)
  BY DEF SendingVCs
<1>2. /\ iv \in InVCs /\ iv \in W /\ o \in Ports
      /\ ExpandedOutput(iv, o) = GrantedTo(alloc, iv)
      /\ ~Speculates(q, iv) => q.buf[iv].out_port = o
      /\ \A ei \in DOMAIN q.held : q.held[ei].output # GrantedTo(alloc, iv)
  BY <1>1, GrantedIs
<1>3. /\ iv \notin H
      /\ q.buf[iv].state = "active" \/ q.buf[iv].state = "vc_alloc"
      /\ q.buf[iv].state = "vc_alloc" => Piggyback \/ iv \in V
  <2>1. Pipeline(q.buf, Range(q.route_vcs), V, W, H)
    BY DEF RouterCore, Staged
  <2> HIDE DEF H, W, V
  <2> QED BY <1>2, <2>1, PipelineIs
<1>4. /\ \A jv \in InVCs \ H : q.buf[jv].state = "active" => r.buf[jv] = q.buf[jv]
      /\ ~Piggyback => \A jv \in Winners(q.vc_alloc_vcs, VCAllocate(q)) :
           /\ r.buf[jv].state = "active"
           /\ r.buf[jv].out_port = VCAllocate(q).inmatch[Indexed(jv)] \div NumVCs
      /\ Piggyback =>
           /\ \A jv \in InVCs : q.buf[jv].state = "vc_alloc" => r.buf[jv] = q.buf[jv]
           /\ \A p \in Ports : (\A jv \in H : q.buf[jv].out_port # p) => r.next_buf[p] = q.next_buf[p]
  BY Zenon DEF Yielded
<1>5. CASE ~Speculates(q, iv)
  <2>1. q.buf[iv].state = "active"
    BY <1>3, <1>5 DEF Speculates
  <2>2. r.buf[iv] = q.buf[iv]
    BY <1>2, <1>3, <1>4, <2>1
  <2> QED BY <1>2, <1>5, <2>1, <2>2
<1>6. CASE Speculates(q, iv) /\ ~Piggyback
  <2>1. iv \in V
    BY <1>3, <1>6 DEF Speculates
  <2>2. /\ Indexed(iv) \in DOMAIN VCAllocate(q).inmatch
        /\ VCAllocate(q).inmatch[Indexed(iv)] \div NumVCs = o
    BY <1>1, <1>6 DEF Confirmed
  <2>3. iv \in Winners(q.vc_alloc_vcs, VCAllocate(q))
    BY <2>1, <2>2 DEF Winners
  <2> QED BY <1>4, <1>6, <2>2, <2>3
<1>7. CASE Speculates(q, iv) /\ Piggyback
  <2>1. PiggybackVCs(q, iv, o) # {}
    BY <1>1, <1>7 DEF Confirmed
  <2>2. q.buf[iv].state = "vc_alloc" /\ r.buf[iv] = q.buf[iv]
    BY <1>2, <1>4, <1>7 DEF Speculates
  <2>3. config.output_speedup = 1
    BY <1>7, ConfigFacts
  <2>4. ASSUME NEW jv \in H
        PROVE  q.buf[jv].out_port # o
    <3>1. /\ jv \in InVCs /\ q.buf[jv].out_port \in Ports
          /\ ExpandedInput(jv) \in DOMAIN q.held
          /\ q.held[ExpandedInput(jv)].output = ExpandedOutput(jv, q.buf[jv].out_port)
      BY HeldIs
    <3>2. ExpandedOutput(jv, q.buf[jv].out_port) = q.buf[jv].out_port
      BY <2>3, <3>1, ExpandedOutputIs
    <3>3. ExpandedOutput(iv, o) = o
      BY <1>2, <2>3, ExpandedOutputIs
    <3> QED BY <1>2, <3>1, <3>2, <3>3
  <2>5. r.next_buf[o] = q.next_buf[o]
    BY <1>2, <1>4, <1>7, <2>4
  <2>6. PiggybackVCs(r, iv, o) = PiggybackVCs(q, iv, o)
    <3> DEFINE could(nb, outs) ==
                 UNION {{[vc |-> vc, pri |-> VCPriority(nb, out, vc)] :
                         vc \in {v \in out.lo..out.hi : /\ IsAvailableFor(nb, v)
                                                        /\ ~IsFullFor(nb, v)}} :
                        out \in {u \in outs : u.port = o}}
    <3>1. PiggybackVCs(q, iv, o) = could(q.next_buf[o], q.buf[iv].route_set)
      BY Zenon DEF PiggybackVCs
    <3>2. PiggybackVCs(r, iv, o) = could(r.next_buf[o], r.buf[iv].route_set)
      BY Zenon DEF PiggybackVCs
    <3> HIDE DEF could
    <3> QED BY <2>2, <2>5, <3>1, <3>2
  <2> QED BY <1>7, <2>1, <2>2, <2>6
<1> QED BY <1>5, <1>6, <1>7

\* The grants are good when they are used.
LEMMA SendersMayGo ==
  ASSUME config \in Configs, NEW q, RouterCore(q),
         NEW r, NEW before, Yielded(r, q, before),
         NEW alloc, AreGrants(q, alloc), NEW goes, goes = SendingVCs(q, alloc),
         NEW port, port = [iv \in goes |-> GrantedOutput(alloc, iv)]
  PROVE  MayGo(r, port, goes)
<1>1. \A iv \in goes : /\ iv \in GrantedVCs(q, alloc) /\ port[iv] = GrantedOutput(alloc, iv)
                       /\ iv \in SendingVCs(q, alloc)
  BY DEF SendingVCs
<1>2. ASSUME NEW iv \in goes
      PROVE  /\ iv \in Range(q.sw_alloc_vcs) /\ port[iv] \in Ports
             /\ ExpandedOutput(iv, port[iv]) = GrantedTo(alloc, iv)
             /\ ExpandedInput(iv) \notin DOMAIN q.held
             /\ \A ei \in DOMAIN q.held : q.held[ei].output # GrantedTo(alloc, iv)
  BY <1>1, GrantedIs
<1>3. \A iv \in goes :
        \/ r.buf[iv].state = "active" /\ r.buf[iv].out_port = port[iv]
        \/ Piggyback /\ r.buf[iv].state = "vc_alloc" /\ PiggybackVCs(r, iv, port[iv]) # {}
  BY <1>1, SenderHas
<1>4. \A iv, jv \in goes :
        \/ ExpandedInput(iv) = ExpandedInput(jv)
        \/ ExpandedOutput(iv, port[iv]) = ExpandedOutput(jv, port[jv])
        => iv = jv
  <2>1. ASSUME NEW iv \in goes, NEW jv \in goes,
               \/ ExpandedInput(iv) = ExpandedInput(jv)
               \/ ExpandedOutput(iv, port[iv]) = ExpandedOutput(jv, port[jv])
        PROVE  iv = jv
    BY <1>1, <1>2, <2>1, GrantsApart
  <2> QED BY <2>1
<1>5. /\ Begins(q.sw_alloc_vcs, r.sw_alloc_vcs, InVCs) /\ RouterCore(r)
      /\ \A ei \in DOMAIN r.held : ei \in DOMAIN q.held /\ r.held[ei] = q.held[ei]
  BY Zenon DEF Yielded
<1>6. goes \subseteq Range(r.sw_alloc_vcs)
  <2>1. PICK t \in Seq(InVCs) : r.sw_alloc_vcs = q.sw_alloc_vcs \o t
    BY <1>5 DEF Begins
  <2>2. q.sw_alloc_vcs \in Seq(InVCs)
    BY DEF RouterCore, Lists, IsList
  <2>3. DOMAIN q.sw_alloc_vcs \subseteq DOMAIN r.sw_alloc_vcs
    BY <2>1, <2>2
  <2>4. \A i \in DOMAIN q.sw_alloc_vcs : r.sw_alloc_vcs[i] = q.sw_alloc_vcs[i]
    BY <2>1, <2>2
  <2>5. Range(q.sw_alloc_vcs) \subseteq Range(r.sw_alloc_vcs)
    BY <2>3, <2>4 DEF Range
  <2> HIDE DEF Range
  <2> QED BY <1>2, <2>5
<1>7. \A iv \in goes :
        /\ ExpandedInput(iv) \notin DOMAIN r.held
        /\ \A ei \in DOMAIN r.held : r.held[ei].output # ExpandedOutput(iv, port[iv])
  BY <1>2, <1>5
<1>8. DOMAIN port = goes
  OBVIOUS
<1>9. \A iv \in goes : port[iv] \in Ports
  BY <1>2
<1> QED BY <1>3, <1>4, <1>6, <1>7, <1>8, <1>9, Zenon DEF MayGo

\* What a held switch let through is apart from what was granted.
AreClear(before, from, goes, port) ==
  /\ \A iv \in Range(before) : from[iv] \in Ports
  /\ Apart(Range(before), from)
  /\ Range(before) \intersect goes = {}
  /\ \A iv \in Range(before), jv \in goes :
       ExpandedOutput(iv, from[iv]) # ExpandedOutput(jv, port[jv])

\* A flit that is granted the switch is sent to no expanded input or output a
\* holder just used.
LEMMA BeforeIs ==
  ASSUME config \in Configs, NEW q, RouterCore(q),
         NEW before, Range(before) \subseteq Range(q.sw_hold_vcs),
         NEW alloc, AreGrants(q, alloc), NEW goes, goes = SendingVCs(q, alloc),
         NEW port, port = [iv \in goes |-> GrantedOutput(alloc, iv)],
         NEW from, from = PortsOf(q.buf)
  PROVE  AreClear(before, from, goes, port)
<1>1. \A jv \in goes : /\ jv \in GrantedVCs(q, alloc) /\ port[jv] = GrantedOutput(alloc, jv)
  BY DEF SendingVCs
<1>2. ASSUME NEW jv \in goes
      PROVE  /\ jv \in Range(q.sw_alloc_vcs)
             /\ ExpandedOutput(jv, port[jv]) = GrantedTo(alloc, jv)
             /\ \A ei \in DOMAIN q.held : q.held[ei].output # GrantedTo(alloc, jv)
  BY <1>1, GrantedIs
<1>3. ASSUME NEW iv \in Range(before)
      PROVE  /\ iv \in Range(q.sw_hold_vcs) /\ from[iv] = q.buf[iv].out_port /\ from[iv] \in Ports
             /\ iv \notin Range(q.sw_alloc_vcs)
             /\ ExpandedInput(iv) \in DOMAIN q.held
             /\ q.held[ExpandedInput(iv)].output = ExpandedOutput(iv, from[iv])
  <2>1. iv \in Range(q.sw_hold_vcs)
    OBVIOUS
  <2>2. /\ iv \in InVCs /\ q.buf[iv].out_port \in Ports
        /\ iv \notin Range(q.sw_alloc_vcs)
        /\ ExpandedInput(iv) \in DOMAIN q.held
        /\ q.held[ExpandedInput(iv)].output = ExpandedOutput(iv, q.buf[iv].out_port)
    BY <2>1, HeldIs
  <2> QED BY <2>1, <2>2 DEF PortsOf
<1> DEFINE H == Range(q.sw_hold_vcs)
           B == Range(before)
<1>4. \A iv, jv \in H : ExpandedOutput(iv, q.buf[iv].out_port) = ExpandedOutput(jv, q.buf[jv].out_port)
                        => iv = jv
  BY DEF RouterCore, Staged, Holding
<1>5. Apart(B, from)
  <2> HIDE DEF H
  <2>1. \A iv \in B : iv \in H /\ from[iv] = q.buf[iv].out_port
    BY <1>3 DEF H
  <2> HIDE DEF B
  <2> QED BY <1>4, <2>1 DEF Apart
<1>6. B \intersect goes = {}
  <2> HIDE DEF B, H
  <2>1. \A iv \in B : iv \notin Range(q.sw_alloc_vcs)
    BY <1>3 DEF B
  <2>2. \A iv \in goes : iv \in Range(q.sw_alloc_vcs)
    BY <1>2
  <2> QED BY <2>1, <2>2
<1>7. \A iv \in Range(before), jv \in goes :
              ExpandedOutput(iv, from[iv]) # ExpandedOutput(jv, port[jv])
  BY <1>2, <1>3
<1>8. \A iv \in Range(before) : from[iv] \in Ports
  BY <1>3
<1> QED BY <1>5, <1>6, <1>7, <1>8, Zenon DEF AreClear

\* OutputQueuing and AfterSending: only the credits, and what leaves the
\* output buffers.
LEMMA OutputQueued ==
  ASSUME NEW rt, RouterCore(rt), NEW q, q = OutputQueuing(rt)
  PROVE  RouterCore(q) /\ q.output_buffer = rt.output_buffer /\ q.crossbar_flits = rt.crossbar_flits
<1> DEFINE cb == [i \in Ports |-> IF rt.out_queue_credits[i] = {} THEN rt.credit_buffer[i]
                                  ELSE Append(rt.credit_buffer[i], PlainCredit(rt.out_queue_credits[i]))]
           none == [i \in Ports |-> {}]
           s == [rt EXCEPT !.credit_buffer = cb, !.out_queue_credits = none]
<1>1. q = s
  BY Zenon DEF OutputQueuing
<1>2. /\ DOMAIN rt = RouterFields /\ Lists(rt) /\ Staged(rt) /\ Outgoing(rt) /\ InTurn(rt)
      /\ AllocatorsReady(rt)
  BY DEF RouterCore
<1> HIDE DEF cb, none
<1>3. /\ DOMAIN s = RouterFields /\ s.buf = rt.buf
      /\ s.route_vcs = rt.route_vcs /\ s.vc_alloc_vcs = rt.vc_alloc_vcs
      /\ s.sw_alloc_vcs = rt.sw_alloc_vcs /\ s.sw_hold_vcs = rt.sw_hold_vcs
      /\ s.crossbar_flits = rt.crossbar_flits /\ s.held = rt.held
      /\ s.sw_rr_offset = rt.sw_rr_offset /\ s.vc_rr_offset = rt.vc_rr_offset
      /\ s.sw_allocator = rt.sw_allocator /\ s.vc_allocator = rt.vc_allocator
      /\ s.spec_sw_allocator = rt.spec_sw_allocator
      /\ s.output_buffer = rt.output_buffer
  BY <1>2 DEF RouterFields
<1> HIDE DEF s
<1>4. Lists(s) /\ Staged(s) /\ Outgoing(s) /\ InTurn(s) /\ AllocatorsReady(s)
  BY <1>2, <1>3, Zenon DEF Lists, Staged, Outgoing, InTurn, AllocatorsReady
<1> QED BY <1>1, <1>3, <1>4 DEF RouterCore

-----------------------------------------------------------------------------
\* The end of a cycle: _SendFlits and _SendCredits.

\* The output buffers after _SendFlits.
SendsFrom(ob) == [o \in Ports |-> IF ob[o] = <<>> THEN ob[o] ELSE Tail(ob[o])]

\* What _SendFlits and _SendCredits change.
LEMMA SentFields ==
  ASSUME NEW rt, NEW q, q = AfterSending(rt)
  PROVE  /\ DOMAIN q = DOMAIN rt
         /\ \A k \in DOMAIN rt : k \notin {"output_buffer", "credit_buffer"} => q[k] = rt[k]
         /\ "output_buffer" \in DOMAIN rt => q.output_buffer = SendsFrom(rt.output_buffer)
<1> DEFINE rest(w) == IF w = <<>> THEN w ELSE Tail(w)
           ob == [o \in Ports |-> rest(rt.output_buffer[o])]
           cb == [i \in Ports |-> rest(rt.credit_buffer[i])]
           s == [rt EXCEPT !.output_buffer = ob, !.credit_buffer = cb]
<1>1. q = s
  BY Zenon DEF AfterSending
<1>2. ob = SendsFrom(rt.output_buffer)
  BY Zenon DEF SendsFrom
<1> HIDE DEF ob, cb
<1>3. /\ DOMAIN s = DOMAIN rt
      /\ \A k \in DOMAIN rt : k \notin {"output_buffer", "credit_buffer"} => s[k] = rt[k]
      /\ "output_buffer" \in DOMAIN rt => s.output_buffer = ob
  OBVIOUS
<1> HIDE DEF s
<1> QED BY <1>1, <1>2, <1>3

\* _SendFlits and _SendCredits change the output buffers and the credits only.
LEMMA SendingCore ==
  ASSUME NEW rt, RouterCore(rt), NEW q, q = AfterSending(rt)
  PROVE  RouterCore(q) /\ q.crossbar_flits = rt.crossbar_flits
         /\ q.output_buffer = SendsFrom(rt.output_buffer)
<1>1. /\ DOMAIN rt = RouterFields /\ Lists(rt) /\ Staged(rt) /\ Outgoing(rt) /\ InTurn(rt)
      /\ AllocatorsReady(rt)
  BY DEF RouterCore
<1>2. /\ DOMAIN q = DOMAIN rt
      /\ \A k \in DOMAIN rt : k \notin {"output_buffer", "credit_buffer"} => q[k] = rt[k]
      /\ "output_buffer" \in DOMAIN rt => q.output_buffer = SendsFrom(rt.output_buffer)
  BY SentFields
<1>3. /\ DOMAIN q = RouterFields /\ q.buf = rt.buf
      /\ q.route_vcs = rt.route_vcs /\ q.vc_alloc_vcs = rt.vc_alloc_vcs
      /\ q.sw_alloc_vcs = rt.sw_alloc_vcs /\ q.sw_hold_vcs = rt.sw_hold_vcs
      /\ q.crossbar_flits = rt.crossbar_flits /\ q.held = rt.held
      /\ q.sw_rr_offset = rt.sw_rr_offset /\ q.vc_rr_offset = rt.vc_rr_offset
      /\ q.sw_allocator = rt.sw_allocator /\ q.vc_allocator = rt.vc_allocator
      /\ q.spec_sw_allocator = rt.spec_sw_allocator
      /\ q.output_buffer = SendsFrom(rt.output_buffer)
  BY <1>1, <1>2 DEF RouterFields
<1>4. q.output_buffer \in [Ports -> Seq(SentFlit)]
  <2> DEFINE ob == rt.output_buffer
  <2>1. ob \in [Ports -> Seq(SentFlit)]
    BY <1>1 DEF Outgoing
  <2> HIDE DEF ob
  <2>2. \A o \in Ports : (IF ob[o] = <<>> THEN ob[o] ELSE Tail(ob[o])) \in Seq(SentFlit)
    BY <2>1
  <2>3. SendsFrom(ob) \in [Ports -> Seq(SentFlit)]
    BY <2>2 DEF SendsFrom
  <2> QED BY <1>3, <2>3 DEF ob
<1>5. Lists(q) /\ Staged(q) /\ InTurn(q) /\ AllocatorsReady(q)
  BY <1>1, <1>3, Zenon DEF Lists, Staged, InTurn, AllocatorsReady
<1>6. Outgoing(q)
  BY <1>1, <1>3, <1>4, Zenon DEF Outgoing
<1> QED BY <1>3, <1>5, <1>6 DEF RouterCore

\* The cycle of a router with inputs or with something on a list, up to its
\* outputs.
LEMMA UpdateIs ==
  ASSUME NEW q, NEW routed
  PROVE  Update(q, routed) =
           OutputQueuing(SWAllocUpdate(
             SWHoldUpdate(VCAllocUpdate(RouteUpdate(SwitchUpdate(q), routed), q.vc_alloc_vcs,
                                        VCAllocate(q)),
                          {iv \in Range(q.sw_hold_vcs) : MaySend(q, iv)}),
             q.sw_alloc_vcs, SWAllocate(q), GrantedVCs(q, SWAllocate(q)),
             SendingVCs(q, SWAllocate(q))))
BY Zenon DEF Update, UpdateWith, GrantedVCs, SendingVCs

\* What is in the crossbar at the end of it was granted on q, or held.
LEMMA UpdateCore ==
  ASSUME config \in Configs, NEW q, RouterCore(q),
         NEW routed, IsRouted(routed, Range(q.route_vcs)),
         NEW r, r = Update(q, routed)
  PROVE  /\ RouterCore(r)
         /\ r.output_buffer = SwitchUpdate(q).output_buffer
         /\ \A i \in DOMAIN r.crossbar_flits :
              \/ Range(q.sw_hold_vcs) # {}
              \/ \E iv \in GrantedVCs(q, SWAllocate(q)) :
                   r.crossbar_flits[i].output = GrantedOutput(SWAllocate(q), iv)
<1> DEFINE alloc == SWAllocate(q)
           granted == GrantedVCs(q, alloc)
           goes == SendingVCs(q, alloc)
           port == [iv \in goes |-> GrantedOutput(alloc, iv)]
           from == PortsOf(q.buf)
           holding == {iv \in Range(q.sw_hold_vcs) : MaySend(q, iv)}
           r3 == VCAllocUpdate(RouteUpdate(SwitchUpdate(q), routed), q.vc_alloc_vcs, VCAllocate(q))
           r4 == SWHoldUpdate(r3, holding)
           before == Goers(r3, holding)
           r5 == SWAllocUpdate(r4, q.sw_alloc_vcs, alloc, granted, goes)
<1>1. r = OutputQueuing(r5)
  BY UpdateIs
<1>2. Allotted(r3, q)
  BY AllottedIs
<1> HIDE DEF r3
<1>3. Yielded(r4, q, before)
  BY <1>2, YieldedIs
<1> HIDE DEF r4, before
<1>4. AreGrants(q, alloc)
  BY GrantsAre
<1> HIDE DEF alloc
<1>5. MayGo(r4, port, goes)
  BY <1>3, <1>4, SendersMayGo
<1>6. /\ RouterCore(r4) /\ r4.output_buffer = SwitchUpdate(q).output_buffer
      /\ Begins(q.sw_alloc_vcs, r4.sw_alloc_vcs, InVCs)
      /\ IsList(before, InVCs) /\ Range(before) \subseteq Range(q.sw_hold_vcs)
      /\ AreFrom(r4.crossbar_flits, before, from)
  BY <1>3, Zenon DEF Yielded
<1> HIDE DEF from
<1>7. /\ \A iv \in Range(before) : from[iv] \in Ports
      /\ Apart(Range(before), from)
      /\ Range(before) \intersect goes = {}
      /\ \A iv \in Range(before), jv \in goes :
           ExpandedOutput(iv, from[iv]) # ExpandedOutput(jv, port[jv])
  <2>1. from = PortsOf(q.buf)
    BY DEF from
  <2>2. goes = SendingVCs(q, alloc)
    OBVIOUS
  <2>3. port = [iv \in goes |-> GrantedOutput(alloc, iv)]
    OBVIOUS
  <2> HIDE DEF goes, port
  <2>4. AreClear(before, from, goes, port)
    BY <1>4, <1>6, <2>1, <2>2, <2>3, BeforeIs
  <2> QED BY <2>4, Zenon DEF AreClear
<1>8. AreAllocators(alloc)
  BY <1>4, Zenon DEF AreGrants, AreAllocators
<1>9. IsList(q.sw_alloc_vcs, InVCs)
  BY DEF RouterCore, Lists
<1>10. /\ granted \in SUBSET Range(q.sw_alloc_vcs) /\ goes \in SUBSET Range(q.sw_alloc_vcs)
       /\ goes \subseteq granted
  BY DEF GrantedVCs, SendingVCs
<1>11. granted \in SUBSET InVCs
  BY <1>9, <1>10, RangeOf
<1>12. port = [iv \in goes |-> GrantedOutput(alloc, iv)]
  OBVIOUS
<1> HIDE DEF granted, goes, port
<1>13. RouterCore(r5) /\ r5.output_buffer = r4.output_buffer
  BY <1>5, <1>6, <1>7, <1>8, <1>9, <1>10, <1>11, <1>12, SWAllocKept
<1>14. AllSent(r5.crossbar_flits, Range(before), from, goes, port)
  BY <1>5, <1>6, <1>7, <1>8, <1>9, <1>10, <1>11, <1>12, SWAllocKept
<1> HIDE DEF r5
<1>15. /\ RouterCore(r) /\ r.output_buffer = r5.output_buffer
       /\ r.crossbar_flits = r5.crossbar_flits
  BY <1>1, <1>13, OutputQueued
<1>16. ASSUME NEW i \in DOMAIN r.crossbar_flits
       PROVE  \/ Range(q.sw_hold_vcs) # {}
              \/ \E iv \in granted : r.crossbar_flits[i].output = GrantedOutput(alloc, iv)
  <2>1. \/ \E iv \in Range(before) : r5.crossbar_flits[i].output = from[iv]
        \/ \E iv \in goes : r5.crossbar_flits[i].output = port[iv]
    BY <1>14, <1>15 DEF AllSent
  <2>2. CASE \E iv \in Range(before) : r5.crossbar_flits[i].output = from[iv]
    <3>1. Range(before) # {}
      BY <2>2
    <3> HIDE DEF Range
    <3> QED BY <1>6, <3>1
  <2>3. CASE \E iv \in goes : r5.crossbar_flits[i].output = port[iv]
    BY <1>10, <1>12, <1>15, <2>3
  <2> QED BY <2>1, <2>2, <2>3
<1> QED BY <1>6, <1>13, <1>15, <1>16 DEF granted, alloc

\* _SendFlits and _SendCredits keep the invariant of the router.
LEMMA SendingKept ==
  ASSUME NEW rt, RouterInv(rt), config \in Configs
  PROVE  RouterInv(AfterSending(rt))
<1> DEFINE q == AfterSending(rt)
<1>1. RouterCore(rt) /\ \A o \in Ports : Bounded(Len(rt.output_buffer[o]) + CrossingTo(rt, o))
  BY DEF RouterInv
<1>2. /\ RouterCore(q) /\ q.crossbar_flits = rt.crossbar_flits
      /\ q.output_buffer = SendsFrom(rt.output_buffer)
  BY <1>1, SendingCore
<1> HIDE DEF q
<1>3. ASSUME NEW o \in Ports
      PROVE  Bounded(Len(q.output_buffer[o]) + CrossingTo(q, o))
  <2> DEFINE b == rt.output_buffer[o]
             x == CrossingTo(rt, o)
  <2>1. b \in Seq(SentFlit)
    BY <1>1 DEF RouterCore, Outgoing
  <2>2. x \in Nat
    <3>1. /\ rt.crossbar_flits \in Seq([f : SentFlit, output : Ports])
          /\ Spread(rt.crossbar_flits)
      BY <1>1 DEF RouterCore, Outgoing
    <3>2. x \in 0..config.output_speedup
      BY <3>1, SpreadCount
    <3> HIDE DEF x
    <3> QED BY <3>2, ConfigFacts
  <2>3. CrossingTo(q, o) = x
    BY <1>2, CrossingSame
  <2>4. q.output_buffer[o] = IF b = <<>> THEN b ELSE Tail(b)
    BY <1>2 DEF SendsFrom
  <2>5. Bounded(Len(b) + x)
    BY <1>1
  <2> HIDE DEF b, x
  <2>6. Len(q.output_buffer[o]) \in Nat /\ Len(q.output_buffer[o]) <= Len(b) /\ Len(b) \in Nat
    BY <2>1, <2>4
  <2>7. config.output_speedup \in Nat /\ OutputBufferSize \in Nat
    BY ConfigFacts, Sizes
  <2> QED BY <2>2, <2>3, <2>5, <2>6, <2>7 DEF Bounded
<1> QED BY <1>2, <1>3 DEF RouterInv, q

\* The numbers: what is in a buffer and in the crossbar for it, in a router
\* that may send s flits to it in a cycle, if the buffer has fewer than most.
LEMMA Steps ==
  ASSUME NEW s \in Nat \ {0}, NEW most \in Nat \ {0}, NEW b \in Nat, NEW x \in 0..s, NEW y \in 0..s,
         b + x <= most + 2 * s - 2, s = 1 => b + x <= 1,
         s # 1 /\ y # 0 => b < most,
         NEW n, n = IF b + x = 0 THEN 0 ELSE (b + x) - 1
  PROVE  n + y <= most + 2 * s - 2 /\ (s = 1 => n + y <= 1)
OBVIOUS

\* A cycle ends with every output buffer, and what crosses to it, within the
\* bound: either a flit was sent from it, or it was empty.
LEMMA UpdateBound ==
  ASSUME config \in Configs, NEW q, RouterInv(q),
         NEW routed, IsRouted(routed, Range(q.route_vcs)),
         NEW r, r = AfterSending(Update(q, routed)), NEW o \in Ports
  PROVE  Bounded(Len(r.output_buffer[o]) + CrossingTo(r, o))
<1> DEFINE u == Update(q, routed)
           alloc == SWAllocate(q)
<1>1. RouterCore(q) /\ Bounded(Len(q.output_buffer[o]) + CrossingTo(q, o))
  BY DEF RouterInv
<1>2. RouterCore(u) /\ u.output_buffer = SwitchUpdate(q).output_buffer
  BY <1>1, UpdateCore
<1>3. \A i \in DOMAIN u.crossbar_flits :
        \/ Range(q.sw_hold_vcs) # {}
        \/ \E iv \in GrantedVCs(q, alloc) :
             u.crossbar_flits[i].output = GrantedOutput(alloc, iv)
  BY <1>1, UpdateCore
<1> HIDE DEF u, alloc
<1>4. /\ RouterCore(r) /\ r.crossbar_flits = u.crossbar_flits
      /\ r.output_buffer = SendsFrom(u.output_buffer)
  BY <1>2, SendingCore DEF u
<1> DEFINE b == Len(q.output_buffer[o])
           x == CrossingTo(q, o)
           y == CrossingTo(r, o)
           s == config.output_speedup
<1>5. /\ q.crossbar_flits \in Seq([f : SentFlit, output : Ports]) /\ Spread(q.crossbar_flits)
      /\ q.output_buffer[o] \in Seq(SentFlit) /\ DOMAIN q = RouterFields
      /\ u.crossbar_flits \in Seq([f : SentFlit, output : Ports]) /\ Spread(u.crossbar_flits)
  BY <1>1, <1>2 DEF RouterCore, Outgoing
<1>6. x \in 0..s /\ y \in 0..s /\ (y # 0 => \E i \in DOMAIN u.crossbar_flits : u.crossbar_flits[i].output = o)
  <2>1. x \in 0..s
    BY <1>5, SpreadCount
  <2>2. r.crossbar_flits \in Seq([f : SentFlit, output : Ports]) /\ Spread(r.crossbar_flits)
    BY <1>4, <1>5
  <2>3. y \in 0..s
    BY <2>2, SpreadCount
  <2>4. y # 0 => \E i \in DOMAIN r.crossbar_flits : r.crossbar_flits[i].output = o
    BY <2>2, SpreadCount
  <2> QED BY <1>4, <2>1, <2>3, <2>4
<1>7. /\ SwitchUpdate(q).output_buffer[o] \in Seq(SentFlit)
      /\ Len(SwitchUpdate(q).output_buffer[o]) = b + x
  <2> DEFINE S == [f : SentFlit, output : Ports]
  <2>1. /\ q.crossbar_flits \in Seq(S) /\ \A z \in S : z.f \in SentFlit
        /\ "output_buffer" \in DOMAIN q /\ "crossbar_flits" \in DOMAIN q
    BY <1>5 DEF RouterFields
  <2> HIDE DEF S
  <2>2. SwitchUpdate(q).output_buffer[o] \in Seq(SentFlit)
    BY <1>5, <2>1, SwitchedBuffers, Zenon
  <2>3. Len(SwitchUpdate(q).output_buffer[o]) = Len(q.output_buffer[o]) + CrossingTo(q, o)
    BY <1>5, <2>1, SwitchedBuffers, Zenon
  <2> QED BY <2>2, <2>3
<1>8. b \in Nat
  BY <1>5
<1>9. s # 1 /\ y # 0 => b < OutputBufferSize
  <2> SUFFICES ASSUME s # 1, y # 0
               PROVE  b < OutputBufferSize
    OBVIOUS
  <2>1. PICK i \in DOMAIN u.crossbar_flits : u.crossbar_flits[i].output = o
    BY <1>6
  <2>2. Range(q.sw_hold_vcs) = {}
    BY <1>1, HeldIs
  <2>3. PICK iv \in GrantedVCs(q, alloc) : o = GrantedOutput(alloc, iv)
    BY <1>3, <2>1, <2>2
  <2>4. AreGrants(q, alloc)
    BY <1>1, GrantsAre DEF alloc
  <2>5. BufferedAt(q, GrantedOutput(alloc, iv)) < OutputBufferSize
    BY <1>1, <2>4, GrantedIs
  <2> QED BY <2>3, <2>5 DEF BufferedAt
<1>10. Len(r.output_buffer[o]) = IF b + x = 0 THEN 0 ELSE (b + x) - 1
  <2> DEFINE w == u.output_buffer[o]
  <2>1. w \in Seq(SentFlit) /\ Len(w) = b + x
    BY <1>2, <1>7
  <2>2. r.output_buffer[o] = IF w = <<>> THEN w ELSE Tail(w)
    BY <1>4 DEF SendsFrom
  <2> HIDE DEF b, x
  <2> DEFINE n == b + x
  <2>3. n = Len(w) /\ w \in Seq(SentFlit)
    BY <2>1
  <2> HIDE DEF w, n
  <2>4. Len(w) = 0 => Len(r.output_buffer[o]) = 0
    BY <2>2, <2>3
  <2>5. Len(w) # 0 => Len(r.output_buffer[o]) = Len(w) - 1
    <3> SUFFICES ASSUME Len(w) # 0
                 PROVE  Len(r.output_buffer[o]) = Len(w) - 1
      OBVIOUS
    <3>1. w # <<>>
      OBVIOUS
    <3>2. r.output_buffer[o] = Tail(w)
      BY <2>2, <3>1
    <3>3. Len(Tail(w)) = Len(w) - 1
      BY <2>3, <3>1
    <3> QED BY <3>2, <3>3
  <2>6. Len(r.output_buffer[o]) = IF n = 0 THEN 0 ELSE n - 1
    BY <2>3, <2>4, <2>5
  <2>7. n = b + x
    BY DEF n
  <2> HIDE DEF n
  <2> QED BY <2>6, <2>7, Zenon
<1> HIDE DEF b, x, y
<1>11. b + x <= OutputBufferSize + 2 * s - 2 /\ (s = 1 => b + x <= 1)
  BY <1>1 DEF Bounded, b, x
<1>12. s \in Nat \ {0} /\ OutputBufferSize \in Nat \ {0}
  BY ConfigFacts, Sizes
<1> HIDE DEF s
<1>13. /\ Len(r.output_buffer[o]) + y <= OutputBufferSize + 2 * s - 2
       /\ s = 1 => Len(r.output_buffer[o]) + y <= 1
  BY <1>6, <1>8, <1>9, <1>10, <1>11, <1>12, Steps
<1> QED BY <1>13 DEF Bounded, y, s

\* A whole cycle of a router that queues what it gets.
LEMMA UpdateKept ==
  ASSUME config \in Configs, NEW q, RouterInv(q),
         NEW routed, IsRouted(routed, Range(q.route_vcs))
  PROVE  RouterInv(AfterSending(Update(q, routed)))
<1>1. RouterCore(Update(q, routed))
  BY UpdateCore DEF RouterInv
<1>2. RouterCore(AfterSending(Update(q, routed)))
  BY <1>1, SendingCore
<1>3. \A o \in Ports : Bounded(Len(AfterSending(Update(q, routed)).output_buffer[o]) +
                               CrossingTo(AfterSending(Update(q, routed)), o))
  BY UpdateBound
<1> QED BY <1>2, <1>3 DEF RouterInv

\* The event router changes only what its steps say.
LEMMA EventQueued ==
  ASSUME NEW rt, NEW arrivals, NEW q, q = EventQueuing(rt, arrivals)
  PROVE  /\ DOMAIN q = DOMAIN rt
         /\ \A k \in DOMAIN rt : k \notin {"buf", "route_vcs"} => q[k] = rt[k]
<1> DEFINE iv_of(i) == <<i, arrivals[i].vc>>
           routed(i) == rt.buf[iv_of(i)].state = "idle"
           next(i) == IF routed(i) # arrivals[i].head THEN "error"
                      ELSE IF routed(i) THEN "routing" ELSE "active"
           heads == PortsIn({i \in DOMAIN arrivals : routed(i)})
           new == [iv \in {iv_of(i) : i \in DOMAIN arrivals} |->
                    [rt.buf[iv] EXCEPT !.flits = Append(@, arrivals[iv[1]]), !.state = next(iv[1])]]
           list == [k \in DOMAIN heads |-> iv_of(heads[k])]
           s == [rt EXCEPT !.buf = Override(new, @), !.route_vcs = list]
<1>1. q = s
  BY Zenon DEF EventQueuing
<1> HIDE DEF new, list
<1>2. /\ DOMAIN s = DOMAIN rt
      /\ \A k \in DOMAIN rt : k \notin {"buf", "route_vcs"} => s[k] = rt[k]
  OBVIOUS
<1> HIDE DEF s
<1> QED BY <1>1, <1>2
=============================================================================
