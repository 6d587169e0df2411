------------------------- MODULE RouterNetworkProofs -------------------------
(***************************************************************************)
(* Proofs about the router between the boards.                             *)
(***************************************************************************)
EXTENDS RouterNetwork, SequenceTheorems

TypeOK ==
  /\ rx \in [Nodes -> Seq(Msgs)] /\ tx \in [Nodes -> Seq(Msgs)]
  /\ msgqueue \in [Nodes -> Seq(Msgs)] /\ arrived_msg_queue \in [Nodes -> Seq(Msgs)]
  /\ msg_arrived \in BOOLEAN /\ injected \subseteq Msgs
  /\ outmsgs \in [Nodes -> Msgs \union {NoMsg}]
  /\ log \in Seq(Msgs) /\ delivered \in [Nodes -> Seq(Msgs)]

-----------------------------------------------------------------------------
(* The operators of the model *)

LEMMA Typing ==
  /\ netsize \in Nat \ {0} /\ Capacity \in Nat \ {0}
  /\ Nodes = 0..(netsize - 1) /\ Nodes # {}
  /\ \A m \in Msgs : Src[m] \in Nodes /\ Dests(m) \subseteq Nodes
  /\ \A m \in Msgs : Dst[m] = Broadcast \/ (Dst[m] \in Nodes /\ Dests(m) = {Dst[m]})
  /\ \A m \in Msgs : m # NoMsg
  /\ Broadcast \notin Nodes
BY NetworkAssumption DEF Nodes, Dests, Broadcast

LEMMA WrittenTyped ==
  ASSUME NEW m \in Msgs \union {NoMsg}
  PROVE  Written(m) \in Seq(Msgs)
BY DEF Written

\* The minimum of the room is a lower bound of it.
LEMMA MinOfRoom ==
  ASSUME NEW f \in [Nodes -> Int]
  PROVE  MinOf(f) \in Int /\ \A y \in Nodes : MinOf(f) <= f[y]
<1> DEFINE S == {k \in 0..(netsize - 1) : \E x \in 0..k : \A y \in 0..k : f[x] <= f[y]}
<1>1. netsize - 1 \in Nat /\ Nodes = 0..(netsize - 1)
  BY Typing
<1>2. 0 \in S
  BY <1>1
<1>3. ASSUME NEW k \in 1..(netsize - 1), k - 1 \in S PROVE k \in S
  <2>1. PICK x \in 0..(k - 1) : \A y \in 0..(k - 1) : f[x] <= f[y]
    BY <1>3
  <2>2. \A y \in 0..k : f[y] \in Int
    BY <1>1
  <2>3. CASE f[x] <= f[k]
    <3>1. \A y \in 0..k : f[x] <= f[y]
      BY <2>1, <2>3
    <3> QED BY <3>1
  <2>4. CASE f[k] <= f[x]
    <3>1. \A y \in 0..k : f[k] <= f[y]
      BY <2>1, <2>2, <2>4
    <3> QED BY <3>1
  <2> QED BY <2>2, <2>3, <2>4
<1>4. netsize - 1 \in S
  <2> HIDE DEF S
  <2>1. \A k \in 1..(netsize - 1) : k - 1 \in S => k \in S
    BY <1>3
  <2>2. \A k \in 0..(netsize - 1) : k \in S
    BY <1>1, <1>2, <2>1, UpTo, Zenon
  <2> QED BY <1>1, <2>2
<1>5. \E x \in Nodes : \A y \in Nodes : f[x] <= f[y]
  BY <1>1, <1>4
<1> QED BY <1>5 DEF MinOf


Addressed(s, x) == Selected(s, {m \in Msgs : x \in Dests(m)})

LEMMA AddressedMore ==
  ASSUME NEW s \in Seq(Msgs), NEW m \in Msgs, NEW x
  PROVE  Addressed(Append(s, m), x) = IF x \in Dests(m) THEN Append(Addressed(s, x), m)
                                      ELSE Addressed(s, x)
<1> DEFINE T == {i \in Msgs : x \in Dests(i)}
<1>1. m \in T <=> x \in Dests(m)
  OBVIOUS
<1> HIDE DEF T
<1>2. Selected(Append(s, m), T) = IF m \in T THEN Append(Selected(s, T), m) ELSE Selected(s, T)
  BY SelectedMore
<1> QED BY <1>1, <1>2, Zenon DEF Addressed, T

-----------------------------------------------------------------------------
(* The loop over the receive ports *)

Turns == [remain : [Nodes -> Int], min : Int, ports : SUBSET Nodes,
          sent : [Nodes -> Seq(Msgs)], log : Seq(Msgs)]

\* What the loop keeps: there is room for every message sent, the minimum is
\* a lower bound of the room, and what has been sent is what the log says.
Room(t, y) ==
  /\ t.remain[y] >= 0 /\ t.min <= t.remain[y]
  /\ Len(t.sent[y]) + t.remain[y] = Len(msgqueue[y]) + Capacity - flight_msg(y)

Ahead(y) == delivered[y] \o (tx[y] \o Written(outmsgs[y]) \o arrived_msg_queue[y])

InOrder(t, y) == Ahead(y) \o t.sent[y] = Addressed(t.log, y)

LEMMA Lengths ==
  ASSUME TypeOK, NEW y \in Nodes
  PROVE  /\ flight_msg(y) \in Nat /\ Assigned(y) \in Seq(Msgs)
         /\ Len(msgqueue[y]) \in Nat /\ Len(arrived_msg_queue[y]) \in Nat
         /\ Len(Assigned(y)) \in Nat
         /\ Written(outmsgs[y]) \in Seq(Msgs) /\ Ahead(y) \in Seq(Msgs)
<1>1. /\ msgqueue[y] \in Seq(Msgs) /\ arrived_msg_queue[y] \in Seq(Msgs)
      /\ tx[y] \in Seq(Msgs) /\ delivered[y] \in Seq(Msgs)
      /\ outmsgs[y] \in Msgs \union {NoMsg}
  BY DEF TypeOK
<1>2. Written(outmsgs[y]) \in Seq(Msgs)
  BY <1>1, WrittenTyped
<1>3. Assigned(y) \in Seq(Msgs)
  BY <1>1, <1>2 DEF Assigned
<1>4. Ahead(y) \in Seq(Msgs)
  BY <1>1, <1>2 DEF Ahead
<1>5. /\ Len(msgqueue[y]) \in Nat /\ Len(arrived_msg_queue[y]) \in Nat
      /\ Len(Assigned(y)) \in Nat
  BY <1>1, <1>3
<1>6. flight_msg(y) \in Nat
  <2> DEFINE a == Len(msgqueue[y])
             b == Len(arrived_msg_queue[y])
             c == Len(Assigned(y))
  <2>1. flight_msg(y) = a + b + c + 1
    BY Zenon DEF flight_msg
  <2> HIDE DEF a, b, c
  <2>2. a \in Nat /\ b \in Nat /\ c \in Nat
    BY <1>5 DEF a, b, c
  <2> QED BY <2>1, <2>2
<1> QED BY <1>2, <1>3, <1>4, <1>5, <1>6

Start == LET remain == [y \in Nodes |-> Capacity - flight_msg(y)]
         IN [remain |-> remain, min |-> MinOf(remain), ports |-> {}, sent |-> msgqueue,
             log |-> log]

LEMMA StartTyped ==
  ASSUME TypeOK
  PROVE  Start \in Turns
<1> DEFINE remain == [y \in Nodes |-> Capacity - flight_msg(y)]
<1>1. remain \in [Nodes -> Int]
  BY Lengths, Typing
<1>2. MinOf(remain) \in Int
  <2> HIDE DEF remain
  <2> QED BY <1>1, MinOfRoom
<1>3. msgqueue \in [Nodes -> Seq(Msgs)] /\ log \in Seq(Msgs)
  BY DEF TypeOK
<1> HIDE DEF remain
<1>4. [remain |-> remain, min |-> MinOf(remain), ports |-> {}, sent |-> msgqueue,
       log |-> log] \in Turns
  BY <1>1, <1>2, <1>3 DEF Turns
<1> QED BY <1>4 DEF Start, remain

\* The turn of a port in which its message m is admitted.
Admits(t, u, x, m) ==
  /\ m \in Msgs
  /\ IF Dst[m] = Broadcast THEN t.min > 0 ELSE t.remain[Dst[m]] > 0
  /\ u = [remain |-> [y \in Nodes |-> t.remain[y] - IF y \in Dests(m) THEN 1 ELSE 0],
          min |-> IF Dst[m] = Broadcast THEN t.min - 1
                  ELSE Minimum(t.min, t.remain[Dst[m]] - 1),
          ports |-> t.ports \union {x},
          sent |-> [y \in Nodes |-> IF y \in Dests(m) THEN Append(t.sent[y], m)
                                   ELSE t.sent[y]],
          log |-> Append(t.log, m)]

LEMMA Turn ==
  ASSUME TypeOK, NEW t \in Turns, NEW x \in Nodes
  PROVE  \/ Admit(t, x) = t
         \/ rx[x] # <<>> /\ Admits(t, Admit(t, x), x, Head(rx[x]))
<1>1. CASE rx[x] = <<>>
  BY <1>1 DEF Admit
<1>2. CASE rx[x] # <<>>
  <2> DEFINE m == Head(rx[x])
  <2>1. m \in Msgs
    BY <1>2 DEF TypeOK
  <2> HIDE DEF m
  <2>2. CASE ~ IF Dst[m] = Broadcast THEN t.min > 0 ELSE t.remain[Dst[m]] > 0
    BY <2>2 DEF Admit, m
  <2>3. CASE IF Dst[m] = Broadcast THEN t.min > 0 ELSE t.remain[Dst[m]] > 0
    <3> DEFINE remain == [y \in Nodes |-> t.remain[y] - IF y \in Dests(m) THEN 1 ELSE 0]
           least == IF Dst[m] = Broadcast THEN t.min - 1
                    ELSE Minimum(t.min, remain[Dst[m]])
           rest == IF Dst[m] = Broadcast THEN t.min - 1
                   ELSE Minimum(t.min, t.remain[Dst[m]] - 1)
    <3>1. Dst[m] # Broadcast => remain[Dst[m]] = t.remain[Dst[m]] - 1
      BY <2>1, Typing
    <3> HIDE DEF remain
    <3>2. least = rest
      BY <3>1
    <3>3. Admit(t, x) =
            [remain |-> remain, min |-> least, ports |-> t.ports \union {x},
             sent |-> [y \in Nodes |-> IF y \in Dests(m) THEN Append(t.sent[y], m)
                                      ELSE t.sent[y]],
             log |-> Append(t.log, m)]
      BY <1>2, <2>3, Zenon DEF Admit, m, remain
    <3> HIDE DEF least, rest
    <3>4. Admits(t, Admit(t, x), x, m)
      BY <2>1, <2>3, <3>2, <3>3, Zenon DEF Admits, remain, rest
    <3> QED BY <1>2, <3>4 DEF m
  <2> QED BY <2>2, <2>3
<1> QED BY <1>1, <1>2

LEMMA AdmitsTyped ==
  ASSUME NEW t \in Turns, NEW x \in Nodes, NEW m, NEW u, Admits(t, u, x, m)
  PROVE  u \in Turns
<1>1. /\ t.remain \in [Nodes -> Int] /\ t.min \in Int /\ t.ports \in SUBSET Nodes
      /\ t.sent \in [Nodes -> Seq(Msgs)] /\ t.log \in Seq(Msgs)
  BY DEF Turns
<1>2. m \in Msgs /\ (Dst[m] = Broadcast \/ Dst[m] \in Nodes)
  BY Typing DEF Admits
<1>3. [y \in Nodes |-> t.remain[y] - IF y \in Dests(m) THEN 1 ELSE 0] \in [Nodes -> Int]
  BY <1>1
<1>4. (IF Dst[m] = Broadcast THEN t.min - 1 ELSE Minimum(t.min, t.remain[Dst[m]] - 1)) \in Int
  BY <1>1, <1>2 DEF Minimum
<1>5. [y \in Nodes |-> IF y \in Dests(m) THEN Append(t.sent[y], m) ELSE t.sent[y]]
      \in [Nodes -> Seq(Msgs)]
  BY <1>1, <1>2, OneMore
<1>6. t.ports \union {x} \in SUBSET Nodes /\ Append(t.log, m) \in Seq(Msgs)
  BY <1>1, <1>2, OneMore
<1> QED BY <1>3, <1>4, <1>5, <1>6, Zenon DEF Admits, Turns

LEMMA TurnTyped ==
  ASSUME TypeOK, NEW t \in Turns, NEW x \in Nodes
  PROVE  Admit(t, x) \in Turns
BY Turn, AdmitsTyped

\* admission is the history of the loop.
LEMMA Loop ==
  ASSUME TypeOK
  PROVE  /\ admission[0] = Start
         /\ \A k \in 1..netsize : admission[k] = Admit(admission[k - 1], k - 1)
         /\ \A k \in 0..netsize : admission[k] \in Turns
<1> DEFINE G == [k \in 1..netsize |-> [t \in Turns |-> Admit(t, k - 1)]]
           H(h) == [i \in 0..netsize |-> IF i = 0 THEN Start ELSE Admit(h[i - 1], i - 1)]
<1>1. netsize \in Nat /\ Start \in Turns /\ \A k \in 1..netsize : k - 1 \in Nodes
  BY StartTyped, Typing
<1>2. G \in [1..netsize -> [Turns -> Turns]]
  BY <1>1, TurnTyped
<1>3. PICK g : IsHistory(g, netsize, Turns, Start, G)
  <2> HIDE DEF G
  <2> QED BY <1>1, <1>2, History
<1>4. g \in [0..netsize -> Turns] /\ g[0] = Start
  BY <1>3 DEF IsHistory
<1>5. ASSUME NEW k \in 1..netsize PROVE g[k] = Admit(g[k - 1], k - 1)
  <2>1. g[k] = G[k][g[k - 1]]
    <3> HIDE DEF G
    <3> QED BY <1>3 DEF IsHistory
  <2>2. g[k - 1] \in Turns
    BY <1>1, <1>4
  <2> QED BY <2>1, <2>2
<1>6. g = H(g)
  <2>1. ASSUME NEW i \in 0..netsize PROVE g[i] = H(g)[i]
    BY <1>1, <1>4, <1>5
  <2> QED BY <1>4, <2>1
<1>7. admission = H(admission)
  BY <1>6, Zenon DEF admission, Start
<1>8. \A i \in 0..netsize : admission[i] = H(admission)[i]
  <2> HIDE DEF H
  <2> QED BY <1>7, Zenon
<1>9. /\ admission[0] = Start
      /\ \A k \in 1..netsize : admission[k] = Admit(admission[k - 1], k - 1)
  BY <1>1, <1>8
<1>10. \A k \in 0..netsize : admission[k] \in Turns
  <2> DEFINE Good == {k \in 0..netsize : admission[k] \in Turns}
  <2>1. 0 \in Good
    BY <1>1, <1>9
  <2>2. ASSUME NEW k \in 1..netsize, k - 1 \in Good PROVE k \in Good
    BY <1>1, <1>9, <2>2, TurnTyped
  <2>3. \A k \in 1..netsize : k - 1 \in Good => k \in Good
    BY <2>2
  <2>4. \A k \in 0..netsize : k \in Good
    <3> HIDE DEF Good
    <3> QED BY <1>1, <2>1, <2>3, UpTo, Zenon
  <2> QED BY <2>4
<1> QED BY <1>9, <1>10

-----------------------------------------------------------------------------
(* Room *)

LEMMA StartRoom ==
  ASSUME TypeOK, QueueNeverExplodes, NEW y \in Nodes
  PROVE  Room(Start, y)
<1> DEFINE remain == [z \in Nodes |-> Capacity - flight_msg(z)]
           a == Len(msgqueue[y])
           b == Len(arrived_msg_queue[y])
           c == Len(Assigned(y))
<1>1. a \in Nat /\ b \in Nat /\ c \in Nat /\ Capacity \in Nat
  BY Lengths, Typing
<1>2. flight_msg(y) = a + b + c + 1
  BY Zenon DEF flight_msg
<1>3. Len(OnTheWay(y)) = c + b + a
  <2>1. /\ tx[y] \in Seq(Msgs) /\ Written(outmsgs[y]) \in Seq(Msgs)
        /\ arrived_msg_queue[y] \in Seq(Msgs) /\ msgqueue[y] \in Seq(Msgs)
    BY Lengths DEF TypeOK
  <2> QED BY <2>1 DEF OnTheWay, Assigned
<1>4. Len(OnTheWay(y)) < Capacity
  BY DEF QueueNeverExplodes
<1>5. remain \in [Nodes -> Int] /\ remain[y] = Capacity - flight_msg(y)
  <2>1. \A z \in Nodes : flight_msg(z) \in Nat
    BY Lengths
  <2> QED BY <1>1, <2>1
<1> HIDE DEF remain
<1>6. MinOf(remain) \in Int /\ MinOf(remain) <= remain[y]
  BY <1>5, MinOfRoom
<1>7. /\ Start.remain[y] = Capacity - flight_msg(y) /\ Start.min = MinOf(remain)
      /\ Start.sent[y] = msgqueue[y]
  BY <1>5 DEF Start, remain
<1>8. Start.remain[y] >= 0 /\ Start.min <= Start.remain[y]
  <2> HIDE DEF a, b, c
  <2> QED BY <1>1, <1>2, <1>3, <1>4, <1>5, <1>6, <1>7
<1>9. Len(Start.sent[y]) + Start.remain[y] = Len(msgqueue[y]) + Capacity - flight_msg(y)
  <2>1. Len(Start.sent[y]) = a
    BY <1>7
  <2> HIDE DEF a, b, c
  <2>2. a + Start.remain[y] = a + Capacity - flight_msg(y)
    BY <1>1, <1>2, <1>7
  <2> QED BY <2>1, <2>2 DEF a
<1> QED BY <1>8, <1>9 DEF Room

LEMMA TurnRoom ==
  ASSUME TypeOK, NEW t \in Turns, NEW x \in Nodes, NEW m, NEW u, Admits(t, u, x, m),
         \A y \in Nodes : Room(t, y), NEW y \in Nodes
  PROVE  Room(u, y)
<1> DEFINE one == IF y \in Dests(m) THEN 1 ELSE 0
           r == t.remain[y]
           l == Len(t.sent[y])
           k == Len(msgqueue[y]) + Capacity - flight_msg(y)
<1>1. /\ t.remain \in [Nodes -> Int] /\ t.min \in Int /\ t.sent[y] \in Seq(Msgs)
  BY DEF Turns
<1>2. m \in Msgs /\ (Dst[m] = Broadcast \/ (Dst[m] \in Nodes /\ Dests(m) = {Dst[m]}))
  BY Typing DEF Admits
<1>3. r \in Int /\ l \in Nat /\ r >= 0 /\ t.min <= r /\ l + r = k /\ one \in {0, 1}
  BY <1>1 DEF Room
<1>4. /\ u.remain[y] = r - one
      /\ u.min = IF Dst[m] = Broadcast THEN t.min - 1
                 ELSE Minimum(t.min, t.remain[Dst[m]] - 1)
      /\ u.sent[y] = IF y \in Dests(m) THEN Append(t.sent[y], m) ELSE t.sent[y]
  BY DEF Admits
<1>5. Len(u.sent[y]) = l + one
  <2> DEFINE q == t.sent[y]
  <2>1. q \in Seq(Msgs) /\ Len(q) \in Nat
    BY <1>1
  <2>2. u.sent[y] = IF y \in Dests(m) THEN Append(q, m) ELSE q
    BY <1>4
  <2> HIDE DEF q
  <2>3. Len(Append(q, m)) = Len(q) + 1
    BY <1>2, <2>1, OneMore
  <2>4. CASE y \in Dests(m)
    <3>1. u.sent[y] = Append(q, m)
      BY <2>2, <2>4, Zenon
    <3>2. Len(u.sent[y]) = Len(q) + 1
      BY <2>3, <3>1, Zenon
    <3> QED BY <2>4, <3>2 DEF q
  <2>5. CASE y \notin Dests(m)
    <3>1. u.sent[y] = q
      BY <2>2, <2>5, Zenon
    <3> QED BY <2>1, <2>5, <3>1 DEF q
  <2> QED BY <2>4, <2>5
<1>6. u.remain[y] >= 0 /\ u.min <= u.remain[y]
  <2>1. CASE Dst[m] = Broadcast
    <3>1. t.min > 0 /\ u.min = t.min - 1
      BY <1>4, <2>1 DEF Admits
    <3> HIDE DEF one, r
    <3> QED BY <1>1, <1>3, <1>4, <3>1
  <2>2. CASE Dst[m] # Broadcast
    <3>1. t.remain[Dst[m]] > 0 /\ Dst[m] \in Nodes /\ Dests(m) = {Dst[m]}
      BY <1>2, <2>2 DEF Admits
    <3>2. u.min = Minimum(t.min, t.remain[Dst[m]] - 1)
      BY <1>4, <2>2
    <3>3. CASE y = Dst[m]
      <4>1. one = 1 /\ t.remain[Dst[m]] = r
        BY <3>1, <3>3
      <4> HIDE DEF one, r
      <4> QED BY <1>1, <1>3, <1>4, <3>1, <3>2, <4>1 DEF Minimum
    <3>4. CASE y # Dst[m]
      <4>1. one = 0 /\ t.remain[Dst[m]] \in Int
        BY <1>1, <3>1, <3>4
      <4> HIDE DEF one, r
      <4> QED BY <1>1, <1>3, <1>4, <3>2, <4>1 DEF Minimum
    <3> QED BY <3>3, <3>4
  <2> QED BY <2>1, <2>2
<1>7. Len(u.sent[y]) + u.remain[y] = k
  <2> HIDE DEF one, r, l, k
  <2> QED BY <1>3, <1>4, <1>5
<1> QED BY <1>6, <1>7 DEF Room

LEMMA LoopRoom ==
  ASSUME TypeOK, QueueNeverExplodes
  PROVE  \A y \in Nodes : Room(admission[netsize], y)
<1> DEFINE Good == {k \in 0..netsize : \A y \in Nodes : Room(admission[k], y)}
<1>1. netsize \in Nat /\ \A k \in 1..netsize : k - 1 \in Nodes /\ k - 1 \in 0..netsize
  BY Typing
<1>2. 0 \in Good
  BY <1>1, Loop, StartRoom
<1>3. ASSUME NEW k \in 1..netsize, k - 1 \in Good PROVE k \in Good
  <2> DEFINE t == admission[k - 1]
             u == admission[k]
  <2>1. t \in Turns /\ u = Admit(t, k - 1) /\ k - 1 \in Nodes /\ k \in 0..netsize
    BY <1>1, Loop
  <2>2. \A y \in Nodes : Room(t, y)
    BY <1>3
  <2> HIDE DEF t, u
  <2>3. u = t \/ Admits(t, u, k - 1, Head(rx[k - 1]))
    BY <2>1, Turn
  <2>4. \A y \in Nodes : Room(u, y)
    BY <2>1, <2>2, <2>3, TurnRoom
  <2> QED BY <2>1, <2>4 DEF u
<1>4. \A k \in 0..netsize : k \in Good
  <2> HIDE DEF Good
  <2>1. \A k \in 1..netsize : k - 1 \in Good => k \in Good
    BY <1>3
  <2> QED BY <1>1, <1>2, <2>1, UpTo, Zenon
<1> QED BY <1>1, <1>4

-----------------------------------------------------------------------------
(* Order *)

LEMMA Assoc ==
  ASSUME NEW S, NEW p \in Seq(S), NEW q \in Seq(S), NEW r \in Seq(S)
  PROVE  (p \o q) \o r = p \o (q \o r) /\ p \o q \in Seq(S)
OBVIOUS

LEMMA Split ==
  ASSUME NEW S, NEW s \in Seq(S), NEW n \in 0..Len(s)
  PROVE  /\ SubSeq(s, 1, n) \in Seq(S) /\ SubSeq(s, n + 1, Len(s)) \in Seq(S)
         /\ SubSeq(s, 1, n) \o SubSeq(s, n + 1, Len(s)) = s
<1>1. Len(s) \in Nat /\ n \in Nat /\ n <= Len(s)
  OBVIOUS
<1>2. SubSeq(s, 1, n) \in Seq(S) /\ SubSeq(s, n + 1, Len(s)) \in Seq(S)
  BY <1>1
<1>3. SubSeq(s, 1, n) \o SubSeq(s, n + 1, Len(s)) = SubSeq(s, 1, Len(s))
  <2>1. 1 \in 1..(Len(s) + 1) /\ n \in (1 - 1)..Len(s) /\ Len(s) \in n..Len(s)
    BY <1>1
  <2> QED BY <2>1, ConcatAdjacentSubSeq, Zenon
<1>4. SubSeq(s, 1, Len(s)) = s
  BY SubSeqFull
<1> QED BY <1>2, <1>3, <1>4, Zenon

LEMMA First ==
  ASSUME NEW S, NEW s \in Seq(S), s # <<>>
  PROVE  /\ Head(s) \in S /\ Tail(s) \in Seq(S) /\ <<Head(s)>> \in Seq(S)
         /\ <<Head(s)>> \o Tail(s) = s
OBVIOUS

LEMMA TurnInOrder ==
  ASSUME TypeOK, NEW t \in Turns, NEW x \in Nodes, NEW m, NEW u, Admits(t, u, x, m),
         NEW y \in Nodes, InOrder(t, y)
  PROVE  InOrder(u, y)
<1> DEFINE a == Ahead(y)
           q == t.sent[y]
           l == t.log
<1>1. a \in Seq(Msgs) /\ q \in Seq(Msgs) /\ l \in Seq(Msgs) /\ m \in Msgs
  BY Lengths DEF Turns, Admits
<1>2. a \o q = Addressed(l, y)
  BY DEF InOrder
<1>3. /\ u.sent[y] = IF y \in Dests(m) THEN Append(q, m) ELSE q
      /\ u.log = Append(l, m)
  BY DEF Admits
<1> HIDE DEF a, q, l
<1>4. Addressed(u.log, y) = IF y \in Dests(m) THEN Append(Addressed(l, y), m)
                            ELSE Addressed(l, y)
  BY <1>1, <1>3, AddressedMore
<1>5. CASE y \in Dests(m)
  <2>1. a \o Append(q, m) = Append(a \o q, m)
    BY <1>1, AppendLast
  <2>2. a \o u.sent[y] = Addressed(u.log, y)
    BY <1>2, <1>3, <1>4, <1>5, <2>1, Zenon
  <2> QED BY <2>2 DEF InOrder, a
<1>6. CASE y \notin Dests(m)
  <2>2. a \o u.sent[y] = Addressed(u.log, y)
    BY <1>2, <1>3, <1>4, <1>6, Zenon
  <2> QED BY <2>2 DEF InOrder, a
<1> QED BY <1>5, <1>6

LEMMA LoopInOrder ==
  ASSUME TypeOK, TotalOrder
  PROVE  \A y \in Nodes : InOrder(admission[netsize], y)
<1> DEFINE Good == {k \in 0..netsize : \A y \in Nodes : InOrder(admission[k], y)}
<1>1. netsize \in Nat /\ \A k \in 1..netsize : k - 1 \in Nodes /\ k - 1 \in 0..netsize
  BY Typing
<1>2. 0 \in Good
  <2>1. ASSUME NEW y \in Nodes PROVE InOrder(Start, y)
    <3> DEFINE d == delivered[y]
               w == tx[y] \o Written(outmsgs[y]) \o arrived_msg_queue[y]
               q == msgqueue[y]
    <3>1. d \in Seq(Msgs) /\ w \in Seq(Msgs) /\ q \in Seq(Msgs)
      BY Lengths DEF TypeOK
    <3>2. d \o (w \o q) = Addressed(log, y)
      BY DEF TotalOrder, OnTheWay, Addressed
    <3>3. Start.sent[y] = q /\ Start.log = log /\ Ahead(y) = d \o w
      BY DEF Start, Ahead
    <3> HIDE DEF d, w, q
    <3>4. (d \o w) \o q = d \o (w \o q)
      BY <3>1, Assoc
    <3> QED BY <3>2, <3>3, <3>4, Zenon DEF InOrder
  <2> QED BY <1>1, <2>1, Loop
<1>3. ASSUME NEW k \in 1..netsize, k - 1 \in Good PROVE k \in Good
  <2> DEFINE t == admission[k - 1]
             u == admission[k]
  <2>1. t \in Turns /\ u = Admit(t, k - 1) /\ k - 1 \in Nodes /\ k \in 0..netsize
    BY <1>1, Loop
  <2>2. \A y \in Nodes : InOrder(t, y)
    BY <1>3
  <2> HIDE DEF t, u
  <2>3. u = t \/ Admits(t, u, k - 1, Head(rx[k - 1]))
    BY <2>1, Turn
  <2>4. \A y \in Nodes : InOrder(u, y)
    BY <2>1, <2>2, <2>3, TurnInOrder
  <2> QED BY <2>1, <2>4 DEF u
<1>4. \A k \in 0..netsize : k \in Good
  <2> HIDE DEF Good
  <2>1. \A k \in 1..netsize : k - 1 \in Good => k \in Good
    BY <1>3
  <2> QED BY <1>1, <1>2, <2>1, UpTo, Zenon
<1> QED BY <1>1, <1>4

-----------------------------------------------------------------------------
(* The steps *)

\* What Operation does at a node after the loop: n packets arrive and w
\* is written.
Moves(sent, arr, w, arr2, q2) ==
  \E n \in 0..Len(sent) :
    \E b \in Seq(Msgs) :
      /\ b = arr \o SubSeq(sent, 1, n) /\ q2 = SubSeq(sent, n + 1, Len(sent))
      /\ \/ w = NoMsg /\ arr2 = b
         \/ b # <<>> /\ w = Head(b) /\ arr2 = Tail(b)

\* Nothing is lost, nothing overtakes.
Kept(sent, arr, w, arr2, q2) ==
  /\ w \in Msgs \union {NoMsg} /\ arr2 \in Seq(Msgs) /\ q2 \in Seq(Msgs)
  /\ \A a \in Seq(Msgs) : a \o Written(w) \o arr2 \o q2 = (a \o arr) \o sent

LEMMA MovesKeep ==
  ASSUME NEW sent \in Seq(Msgs), NEW arr \in Seq(Msgs), NEW w, NEW arr2, NEW q2,
         Moves(sent, arr, w, arr2, q2)
  PROVE  Kept(sent, arr, w, arr2, q2)
<1>1. PICK n \in 0..Len(sent), b \in Seq(Msgs) :
        /\ b = arr \o SubSeq(sent, 1, n) /\ q2 = SubSeq(sent, n + 1, Len(sent))
        /\ \/ w = NoMsg /\ arr2 = b
           \/ b # <<>> /\ w = Head(b) /\ arr2 = Tail(b)
  BY DEF Moves
<1> DEFINE s1 == SubSeq(sent, 1, n)
<1>2. s1 \in Seq(Msgs) /\ q2 \in Seq(Msgs) /\ s1 \o q2 = sent
  BY <1>1, Split
<1>3. b = arr \o s1
  BY <1>1
<1> HIDE DEF s1
<1>4. /\ w \in Msgs \union {NoMsg} /\ arr2 \in Seq(Msgs)
      /\ Written(w) \in Seq(Msgs) /\ Written(w) \o arr2 = b
  <2>1. CASE w = NoMsg /\ arr2 = b
    <3>1. Written(w) = <<>>
      BY <2>1 DEF Written
    <3>2. <<>> \in Seq(Msgs) /\ <<>> \o b = b
      OBVIOUS
    <3> QED BY <2>1, <3>1, <3>2, Zenon
  <2>2. CASE b # <<>> /\ w = Head(b) /\ arr2 = Tail(b)
    <3>1. /\ Head(b) \in Msgs /\ Tail(b) \in Seq(Msgs) /\ <<Head(b)>> \in Seq(Msgs)
          /\ <<Head(b)>> \o Tail(b) = b
      BY <2>2, First
    <3>2. w # NoMsg
      BY <2>2, <3>1, Typing
    <3>3. Written(w) = <<Head(b)>>
      BY <2>2, <3>2 DEF Written
    <3> QED BY <2>2, <3>1, <3>3, Zenon
  <2> QED BY <1>1, <2>1, <2>2
<1>5. ASSUME NEW a \in Seq(Msgs)
      PROVE  a \o Written(w) \o arr2 \o q2 = (a \o arr) \o sent
  <2> DEFINE v == Written(w)
  <2>1. v \in Seq(Msgs) /\ v \o arr2 = b
    BY <1>4
  <2> HIDE DEF v
  <2>2. (a \o v) \o arr2 = a \o (v \o arr2)
    <3>1. a \in Seq(Msgs) /\ v \in Seq(Msgs) /\ arr2 \in Seq(Msgs)
      BY <1>4, <2>1
    <3> QED BY <3>1
  <2>3. a \o (arr \o s1) = (a \o arr) \o s1
    <3>1. a \in Seq(Msgs) /\ arr \in Seq(Msgs) /\ s1 \in Seq(Msgs)
      BY <1>2
    <3> QED BY <3>1
  <2>4. ((a \o arr) \o s1) \o q2 = (a \o arr) \o (s1 \o q2)
    <3>1. a \in Seq(Msgs) /\ arr \in Seq(Msgs) /\ s1 \in Seq(Msgs) /\ q2 \in Seq(Msgs)
      BY <1>2
    <3> QED BY <3>1
  <2>5. a \o v \o arr2 \o q2 = (a \o arr) \o sent
    BY <1>2, <1>3, <2>1, <2>2, <2>3, <2>4, Zenon
  <2> QED BY <2>5 DEF v
<1> QED BY <1>2, <1>4, <1>5, Zenon DEF Kept

LEMMA CycleMoves ==
  ASSUME TypeOK, Cycle, NEW y \in Nodes
  PROVE  /\ tx'[y] = Assigned(y) /\ delivered' = delivered
         /\ log' = admission[netsize].log
         /\ Moves(admission[netsize].sent[y], arrived_msg_queue[y], outmsgs'[y],
                  arrived_msg_queue'[y], msgqueue'[y])
<1> DEFINE sent == admission[netsize].sent
           advances == \E x \in Nodes : msgqueue[x] # <<>>
           most(x) == IF advances THEN Minimum(MaxArrivals, Len(sent[x])) ELSE 0
<1>1. admission[netsize] \in Turns
  BY Loop, Typing
<1>2. sent[y] \in Seq(Msgs) /\ Len(sent[y]) \in Nat
  BY <1>1 DEF Turns
<1>3. PICK n \in [Nodes -> 0..MaxArrivals] :
        LET arrived == [x \in Nodes |-> arrived_msg_queue[x] \o PacketArrivals(sent[x], n[x])]
            leaves(x) == /\ msg_arrived \/ \E z \in Nodes : n[z] > 0
                         /\ arrived[x] # <<>>
        IN /\ \A x \in Nodes : n[x] <= most(x)
           /\ msgqueue' = [x \in Nodes |-> SubSeq(sent[x], n[x] + 1, Len(sent[x]))]
           /\ arrived_msg_queue' =
                [x \in Nodes |-> IF leaves(x) THEN Tail(arrived[x]) ELSE arrived[x]]
           /\ outmsgs' = [x \in Nodes |-> IF leaves(x) THEN Head(arrived[x]) ELSE NoMsg]
  BY Zenon DEF Cycle
<1> HIDE DEF sent
<1>4. n[y] \in 0..Len(sent[y])
  <2>1. n[y] <= most(y) /\ n[y] \in 0..MaxArrivals /\ MaxArrivals \in Nat
    BY <1>3, NetworkAssumption
  <2>2. most(y) <= Len(sent[y]) /\ most(y) \in Int
    BY <1>2, <2>1 DEF Minimum
  <2> HIDE DEF most
  <2> QED BY <1>2, <2>1, <2>2
<1> DEFINE b == arrived_msg_queue[y] \o SubSeq(sent[y], 1, n[y])
           goes == (msg_arrived \/ \E z \in Nodes : n[z] > 0) /\ b # <<>>
<1>5. b \in Seq(Msgs)
  <2>1. SubSeq(sent[y], 1, n[y]) \in Seq(Msgs) /\ arrived_msg_queue[y] \in Seq(Msgs)
    BY <1>2, <1>4, Split DEF TypeOK
  <2> QED BY <2>1, Assoc
<1>6. /\ msgqueue'[y] = SubSeq(sent[y], n[y] + 1, Len(sent[y]))
      /\ arrived_msg_queue'[y] = IF goes THEN Tail(b) ELSE b
      /\ outmsgs'[y] = IF goes THEN Head(b) ELSE NoMsg
  BY <1>3, Zenon DEF PacketArrivals
<1>7. tx'[y] = Assigned(y) /\ delivered' = delivered /\ log' = admission[netsize].log
  BY Zenon DEF Cycle
<1>8. Moves(sent[y], arrived_msg_queue[y], outmsgs'[y], arrived_msg_queue'[y], msgqueue'[y])
  <2>1. goes => b # <<>>
    OBVIOUS
  <2> HIDE DEF goes
  <2>2. \/ outmsgs'[y] = NoMsg /\ arrived_msg_queue'[y] = b
        \/ b # <<>> /\ outmsgs'[y] = Head(b) /\ arrived_msg_queue'[y] = Tail(b)
    BY <1>6, <2>1, Zenon
  <2>3. b = arrived_msg_queue[y] \o SubSeq(sent[y], 1, n[y])
    OBVIOUS
  <2> HIDE DEF b
  <2> QED BY <1>4, <1>5, <1>6, <2>2, <2>3, Zenon DEF Moves
<1> QED BY <1>7, <1>8 DEF sent

LEMMA CycleKeeps ==
  ASSUME TypeOK, Cycle, NEW y \in Nodes
  PROVE  /\ OnTheWay(y)' = (Assigned(y) \o arrived_msg_queue[y]) \o admission[netsize].sent[y]
         /\ outmsgs'[y] \in Msgs \union {NoMsg} /\ arrived_msg_queue'[y] \in Seq(Msgs)
         /\ msgqueue'[y] \in Seq(Msgs) /\ tx'[y] \in Seq(Msgs)
<1> DEFINE sent == admission[netsize].sent[y]
           arr == arrived_msg_queue[y]
<1>1. sent \in Seq(Msgs) /\ arr \in Seq(Msgs) /\ Assigned(y) \in Seq(Msgs)
  <2>1. admission[netsize] \in Turns
    BY Loop, Typing
  <2>2. sent \in Seq(Msgs)
    BY <2>1 DEF Turns
  <2>3. arr \in Seq(Msgs)
    BY DEF TypeOK
  <2> QED BY <2>2, <2>3, Lengths
<1>2. /\ tx'[y] = Assigned(y)
      /\ Moves(sent, arr, outmsgs'[y], arrived_msg_queue'[y], msgqueue'[y])
  BY CycleMoves
<1> HIDE DEF sent, arr
<1>3. /\ outmsgs'[y] \in Msgs \union {NoMsg} /\ arrived_msg_queue'[y] \in Seq(Msgs)
      /\ msgqueue'[y] \in Seq(Msgs)
      /\ \A a \in Seq(Msgs) : a \o Written(outmsgs'[y]) \o arrived_msg_queue'[y] \o msgqueue'[y]
                              = (a \o arr) \o sent
  <2> DEFINE w == outmsgs'[y]
             arr2 == arrived_msg_queue'[y]
             q2 == msgqueue'[y]
  <2>1. Moves(sent, arr, w, arr2, q2)
    BY <1>2
  <2> HIDE DEF w, arr2, q2
  <2>2. Kept(sent, arr, w, arr2, q2)
    BY <1>1, <2>1, MovesKeep
  <2> QED BY <2>2, Zenon DEF Kept, w, arr2, q2
<1>4. OnTheWay(y)' = tx'[y] \o Written(outmsgs'[y]) \o arrived_msg_queue'[y] \o msgqueue'[y]
  BY Zenon DEF OnTheWay, Written
<1>5. OnTheWay(y)' = (Assigned(y) \o arr) \o sent
  BY <1>1, <1>2, <1>3, <1>4, Zenon
<1> QED BY <1>1, <1>2, <1>3, <1>5, Zenon DEF sent, arr

LEMMA InitTyped == Init => TypeOK
<1> SUFFICES ASSUME Init PROVE TypeOK
  OBVIOUS
<1>1. <<>> \in Seq(Msgs)
  OBVIOUS
<1>2. [x \in Nodes |-> <<>>] \in [Nodes -> Seq(Msgs)]
  BY <1>1
<1>3. [x \in Nodes |-> NoMsg] \in [Nodes -> Msgs \union {NoMsg}]
  OBVIOUS
<1> QED BY <1>1, <1>2, <1>3, Zenon DEF Init, TypeOK

\* Only a port with a message is admitted.
LEMMA LoopPorts ==
  ASSUME TypeOK
  PROVE  \A x \in admission[netsize].ports : rx[x] # <<>>
<1> DEFINE Good == {k \in 0..netsize : \A x \in admission[k].ports : rx[x] # <<>>}
<1>1. netsize \in Nat /\ \A k \in 1..netsize : k - 1 \in Nodes /\ k - 1 \in 0..netsize
  BY Typing
<1>2. 0 \in Good
  <2>1. Start.ports = {}
    BY DEF Start
  <2> QED BY <1>1, <2>1, Loop
<1>3. ASSUME NEW k \in 1..netsize, k - 1 \in Good PROVE k \in Good
  <2> DEFINE t == admission[k - 1]
             u == admission[k]
  <2>1. t \in Turns /\ u = Admit(t, k - 1) /\ k - 1 \in Nodes /\ k \in 0..netsize
    BY <1>1, Loop
  <2>2. \A x \in t.ports : rx[x] # <<>>
    BY <1>3
  <2> HIDE DEF t, u
  <2>3. u = t \/ (rx[k - 1] # <<>> /\ u.ports = t.ports \union {k - 1})
    <3>1. u = t \/ (rx[k - 1] # <<>> /\ Admits(t, u, k - 1, Head(rx[k - 1])))
      BY <2>1, Turn
    <3> QED BY <3>1 DEF Admits
  <2>4. \A x \in u.ports : rx[x] # <<>>
    BY <2>2, <2>3
  <2> QED BY <2>1, <2>4 DEF u
<1>4. \A k \in 0..netsize : k \in Good
  <2> HIDE DEF Good
  <2>1. \A k \in 1..netsize : k - 1 \in Good => k \in Good
    BY <1>3
  <2> QED BY <1>1, <1>2, <2>1, UpTo, Zenon
<1> QED BY <1>1, <1>4

LEMMA CycleTyped ==
  ASSUME TypeOK, Cycle
  PROVE  TypeOK'
<1>1. log' \in Seq(Msgs)
  <2>1. admission[netsize] \in Turns
    BY Loop, Typing
  <2>2. admission[netsize].log \in Seq(Msgs)
    BY <2>1 DEF Turns
  <2>3. log' = admission[netsize].log
    BY Zenon DEF Cycle
  <2> QED BY <2>2, <2>3
<1>2. rx' \in [Nodes -> Seq(Msgs)]
  <2> DEFINE ports == admission[netsize].ports
  <2>1. rx' = [x \in Nodes |-> IF x \in ports THEN Tail(rx[x]) ELSE rx[x]]
    BY Zenon DEF Cycle
  <2>2. \A x \in ports : rx[x] # <<>>
    BY LoopPorts
  <2> HIDE DEF ports
  <2>3. ASSUME NEW x \in Nodes
        PROVE  (IF x \in ports THEN Tail(rx[x]) ELSE rx[x]) \in Seq(Msgs)
    <3>1. rx[x] \in Seq(Msgs)
      BY DEF TypeOK
    <3>2. x \in ports => Tail(rx[x]) \in Seq(Msgs)
      BY <2>2, <3>1, First
    <3> QED BY <3>1, <3>2
  <2> QED BY <2>1, <2>3
<1>3. /\ tx' = [x \in Nodes |-> tx'[x]] /\ msgqueue' = [x \in Nodes |-> msgqueue'[x]]
      /\ arrived_msg_queue' = [x \in Nodes |-> arrived_msg_queue'[x]]
      /\ outmsgs' = [x \in Nodes |-> outmsgs'[x]]
  <2>1. PICK f, g, h :
          /\ tx' = [x \in Nodes |-> Assigned(x)] /\ msgqueue' = [x \in Nodes |-> f[x]]
          /\ arrived_msg_queue' = [x \in Nodes |-> g[x]]
          /\ outmsgs' = [x \in Nodes |-> h[x]]
    <3> DEFINE sent == admission[netsize].sent
               arrived(n) ==
                 [x \in Nodes |-> arrived_msg_queue[x] \o PacketArrivals(sent[x], n[x])]
               leaves(n, x) == /\ msg_arrived \/ \E z \in Nodes : n[z] > 0
                               /\ arrived(n)[x] # <<>>
    <3>1. PICK n \in [Nodes -> 0..MaxArrivals] :
            /\ msgqueue' = [x \in Nodes |-> SubSeq(sent[x], n[x] + 1, Len(sent[x]))]
            /\ arrived_msg_queue' = [x \in Nodes |-> IF leaves(n, x) THEN Tail(arrived(n)[x])
                                                     ELSE arrived(n)[x]]
            /\ outmsgs' = [x \in Nodes |-> IF leaves(n, x) THEN Head(arrived(n)[x]) ELSE NoMsg]
      BY Zenon DEF Cycle
    <3> HIDE DEF sent, arrived, leaves
    <3>2. tx' = [x \in Nodes |-> Assigned(x)]
      BY Zenon DEF Cycle
    <3>3. \E f : msgqueue' = [x \in Nodes |-> f[x]]
      <4> DEFINE f == [x \in Nodes |-> SubSeq(sent[x], n[x] + 1, Len(sent[x]))]
      <4>1. f = [x \in Nodes |-> f[x]]
        OBVIOUS
      <4> QED BY <3>1, <4>1, Zenon
    <3>4. \E g : arrived_msg_queue' = [x \in Nodes |-> g[x]]
      <4> DEFINE g == [x \in Nodes |-> IF leaves(n, x) THEN Tail(arrived(n)[x])
                                      ELSE arrived(n)[x]]
      <4>1. g = [x \in Nodes |-> g[x]]
        OBVIOUS
      <4> QED BY <3>1, <4>1, Zenon
    <3>5. \E h : outmsgs' = [x \in Nodes |-> h[x]]
      <4> DEFINE h == [x \in Nodes |-> IF leaves(n, x) THEN Head(arrived(n)[x]) ELSE NoMsg]
      <4>1. h = [x \in Nodes |-> h[x]]
        OBVIOUS
      <4> QED BY <3>1, <4>1, Zenon
    <3> QED BY <3>2, <3>3, <3>4, <3>5, Zenon
  <2> QED BY <2>1
<1>4. /\ tx' \in [Nodes -> Seq(Msgs)] /\ msgqueue' \in [Nodes -> Seq(Msgs)]
      /\ arrived_msg_queue' \in [Nodes -> Seq(Msgs)]
      /\ outmsgs' \in [Nodes -> Msgs \union {NoMsg}]
  BY <1>3, CycleKeeps
<1>5. /\ msg_arrived' \in BOOLEAN /\ injected' \subseteq Msgs
      /\ delivered' \in [Nodes -> Seq(Msgs)]
  BY Zenon DEF Cycle, TypeOK
<1> QED BY <1>1, <1>2, <1>4, <1>5, Zenon DEF TypeOK

LEMMA InjectTyped ==
  ASSUME TypeOK, NEW m \in Msgs, Inject(m)
  PROVE  TypeOK'
<1>1. Src[m] \in Nodes /\ rx[Src[m]] \in Seq(Msgs) /\ rx \in [Nodes -> Seq(Msgs)]
  BY Typing DEF TypeOK
<1>2. Append(rx[Src[m]], m) \in Seq(Msgs)
  BY <1>1, OneMore
<1>3. rx' = [rx EXCEPT ![Src[m]] = Append(rx[Src[m]], m)]
  BY Zenon DEF Inject
<1>4. rx' \in [Nodes -> Seq(Msgs)]
  BY <1>1, <1>2, <1>3
<1> QED BY <1>4, Zenon DEF Inject, TypeOK

\* What the link takes moves from the transmit queue to what was delivered.
LEMMA TransmitKeeps ==
  ASSUME TypeOK, NEW x \in Nodes, Transmit(x)
  PROVE  /\ TypeOK'
         /\ \A y \in Nodes : /\ delivered'[y] \o OnTheWay(y)' = delivered[y] \o OnTheWay(y)
                             /\ Len(OnTheWay(y)) < Capacity => Len(OnTheWay(y)') < Capacity
<1>1. /\ tx \in [Nodes -> Seq(Msgs)] /\ delivered \in [Nodes -> Seq(Msgs)]
      /\ tx[x] # <<>>
      /\ tx' = [tx EXCEPT ![x] = Tail(tx[x])]
      /\ delivered' = [delivered EXCEPT ![x] = Append(delivered[x], Head(tx[x]))]
  BY Zenon DEF TypeOK, Transmit
<1>2. /\ Head(tx[x]) \in Msgs /\ Tail(tx[x]) \in Seq(Msgs)
      /\ <<Head(tx[x])>> \o Tail(tx[x]) = tx[x]
  BY <1>1, First
<1>3. tx' \in [Nodes -> Seq(Msgs)] /\ delivered' \in [Nodes -> Seq(Msgs)]
  BY <1>1, <1>2, OneMore
<1>4. TypeOK'
  BY <1>3, Zenon DEF TypeOK, Transmit
<1>5. ASSUME NEW y \in Nodes
      PROVE  /\ delivered'[y] \o OnTheWay(y)' = delivered[y] \o OnTheWay(y)
             /\ Len(OnTheWay(y)) < Capacity => Len(OnTheWay(y)') < Capacity
  <2> DEFINE w == Written(outmsgs[y])
             a == arrived_msg_queue[y]
             q == msgqueue[y]
  <2>1. /\ w \in Seq(Msgs) /\ a \in Seq(Msgs) /\ q \in Seq(Msgs)
        /\ tx[y] \in Seq(Msgs) /\ delivered[y] \in Seq(Msgs)
    BY Lengths DEF TypeOK
  <2>2. OnTheWay(y) = tx[y] \o w \o a \o q /\ OnTheWay(y)' = tx'[y] \o w \o a \o q
    BY Zenon DEF OnTheWay, Transmit, Written
  <2> HIDE DEF w, a, q
  <2>3. CASE y = x
    <3> DEFINE h == Head(tx[x])
               t == Tail(tx[x])
               d == delivered[x]
    <3>1. /\ h \in Msgs /\ t \in Seq(Msgs) /\ tx[x] = <<h>> \o t /\ d \in Seq(Msgs)
          /\ tx'[x] = t /\ delivered'[x] = Append(d, h)
      BY <1>1, <1>2
    <3> HIDE DEF h, t, d
    <3>2. Append(d, h) \o (t \o w \o a \o q) = d \o ((<<h>> \o t) \o w \o a \o q)
      <4>1. w \o a \in Seq(Msgs) /\ w \o a \o q \in Seq(Msgs) /\ <<h>> \in Seq(Msgs)
        BY <2>1, <3>1
      <4> DEFINE r == w \o a \o q
      <4>2. t \o w \o a \o q = t \o r /\ (<<h>> \o t) \o w \o a \o q = (<<h>> \o t) \o r
        <5>1. /\ t \in Seq(Msgs) /\ <<h>> \o t \in Seq(Msgs)
              /\ w \in Seq(Msgs) /\ a \in Seq(Msgs) /\ q \in Seq(Msgs)
          BY <2>1, <3>1, <4>1
        <5>2. ASSUME NEW p \in Seq(Msgs) PROVE p \o w \o a \o q = p \o r
          BY <2>1
        <5> HIDE DEF r
        <5> QED BY <5>1, <5>2, Zenon
      <4>3. r \in Seq(Msgs)
        BY <4>1
      <4> HIDE DEF r
      <4>4. Append(d, h) = d \o <<h>>
        <5>1. d \in Seq(Msgs) /\ h \in Msgs
          BY <3>1
        <5> QED BY <5>1
      <4>5. (d \o <<h>>) \o (t \o r) = d \o ((<<h>> \o t) \o r)
        <5> DEFINE e == <<h>>
        <5>1. e \in Seq(Msgs) /\ d \in Seq(Msgs) /\ t \in Seq(Msgs) /\ r \in Seq(Msgs)
          BY <3>1, <4>1, <4>3
        <5> HIDE DEF e
        <5>2. (e \o t) \o r = e \o (t \o r) /\ t \o r \in Seq(Msgs)
          BY <5>1
        <5>3. (d \o e) \o (t \o r) = d \o (e \o (t \o r))
          BY <5>1
        <5>4. (d \o e) \o (t \o r) = d \o ((e \o t) \o r)
          BY <5>2, <5>3, Zenon
        <5> QED BY <5>4 DEF e
      <4> QED BY <4>2, <4>4, <4>5, Zenon
    <3>3. /\ Len(t \o w \o a \o q) \in Nat
          /\ Len((<<h>> \o t) \o w \o a \o q) = Len(t \o w \o a \o q) + 1
      BY <2>1, <3>1
    <3>4. /\ OnTheWay(y) = (<<h>> \o t) \o w \o a \o q /\ OnTheWay(y)' = t \o w \o a \o q
          /\ delivered[y] = d /\ delivered'[y] = Append(d, h)
      BY <2>2, <2>3, <3>1, Zenon DEF d
    <3>5. Len(OnTheWay(y)) = Len(OnTheWay(y)') + 1 /\ Len(OnTheWay(y)') \in Nat
      BY <3>3, <3>4, Zenon
    <3>6. Capacity \in Nat
      BY Typing
    <3>7. Len(OnTheWay(y)) < Capacity => Len(OnTheWay(y)') < Capacity
      <4> DEFINE i == Len(OnTheWay(y))
                 j == Len(OnTheWay(y)')
      <4>1. i = j + 1 /\ j \in Nat
        BY <3>5
      <4> HIDE DEF i, j
      <4>2. i < Capacity => j < Capacity
        BY <3>6, <4>1
      <4> QED BY <4>2 DEF i, j
    <3> QED BY <3>2, <3>4, <3>7, Zenon
  <2>4. CASE y # x
    <3>1. tx'[y] = tx[y] /\ delivered'[y] = delivered[y]
      BY <1>1, <2>4
    <3>2. OnTheWay(y)' = OnTheWay(y)
      BY <2>2, <3>1, Zenon
    <3>3. OnTheWay(y) \in Seq(Msgs)
      BY <2>1, <2>2
    <3> QED BY <3>1, <3>2, <3>3
  <2> QED BY <2>3, <2>4
<1> QED BY <1>4, <1>5

-----------------------------------------------------------------------------
(* The invariants *)

\* Inductive: the admission loop needs the room that is left before the call,
\* and the order of what is on the way needs the order of what was.
Inv == TypeOK /\ QueueNeverExplodes /\ TotalOrder

LEMMA Initially == Init => Inv
<1> SUFFICES ASSUME Init PROVE Inv
  OBVIOUS
<1>1. TypeOK
  BY InitTyped
<1>2. ASSUME NEW x \in Nodes PROVE OnTheWay(x) = <<>> /\ delivered[x] = <<>>
  <2>1. /\ tx[x] = <<>> /\ Written(outmsgs[x]) = <<>> /\ arrived_msg_queue[x] = <<>>
        /\ msgqueue[x] = <<>> /\ delivered[x] = <<>>
    BY Zenon DEF Init, Written
  <2> QED BY <2>1 DEF OnTheWay
<1>3. QueueNeverExplodes
  BY <1>2, Typing DEF QueueNeverExplodes
<1>4. TotalOrder
  <2>1. log = <<>>
    BY Zenon DEF Init
  <2>2. <<>> \o <<>> = <<>>
    OBVIOUS
  <2> QED BY <1>2, <2>1, <2>2, SelectedNone, Zenon DEF TotalOrder
<1> QED BY <1>1, <1>3, <1>4 DEF Inv

LEMMA CycleInv ==
  ASSUME Inv, Cycle
  PROVE  Inv'
<1>1. TypeOK /\ QueueNeverExplodes /\ TotalOrder
  BY DEF Inv
<1>2. TypeOK'
  BY <1>1, CycleTyped
<1>3. ASSUME NEW y \in Nodes
      PROVE  /\ Len(OnTheWay(y)') < Capacity
             /\ delivered'[y] \o OnTheWay(y)' = Addressed(log', y)
  <2> DEFINE d == delivered[y]
             e == Assigned(y)
             a == arrived_msg_queue[y]
             q == admission[netsize].sent[y]
             l == admission[netsize].log
  <2>1. /\ d \in Seq(Msgs) /\ e \in Seq(Msgs) /\ a \in Seq(Msgs)
        /\ q \in Seq(Msgs)
    <3>1. admission[netsize] \in Turns
      BY <1>1, Loop, Typing
    <3>2. q \in Seq(Msgs)
      BY <3>1 DEF Turns
    <3>3. d \in Seq(Msgs) /\ a \in Seq(Msgs)
      BY <1>1 DEF TypeOK
    <3> QED BY <1>1, <3>2, <3>3, Lengths
  <2>2. OnTheWay(y)' = (e \o a) \o q
    BY <1>1, CycleKeeps
  <2>3. Room(admission[netsize], y)
    BY <1>1, LoopRoom
  <2>4. Ahead(y) \o q = Addressed(l, y)
    BY <1>1, LoopInOrder DEF InOrder
  <2>5. Ahead(y) = d \o (e \o a)
    BY Zenon DEF Ahead, Assigned
  <2>6. delivered' = delivered /\ log' = l
    BY <1>1, CycleMoves
  <2>7. Len(OnTheWay(y)') < Capacity
    <3> DEFINE r == admission[netsize].remain[y]
               n == Len(q)
               k == Len(msgqueue[y])
               i == Len(a)
               j == Len(e)
    <3>1. n + r = k + Capacity - flight_msg(y) /\ r >= 0
      BY <2>3 DEF Room
    <3>2. flight_msg(y) = k + i + j + 1
      BY Zenon DEF flight_msg
    <3>3. /\ n \in Nat /\ k \in Nat /\ i \in Nat /\ j \in Nat /\ Capacity \in Nat
      <4>1. n \in Nat
        <5> HIDE DEF q
        <5> QED BY <2>1
      <4>2. k \in Nat /\ i \in Nat /\ j \in Nat
        BY <1>1, Lengths
      <4> QED BY <4>1, <4>2, Typing
    <3>4. r \in Int
      <4>1. admission[netsize] \in Turns
        BY <1>1, Loop, Typing
      <4> QED BY <4>1 DEF Turns
    <3>5. Len((e \o a) \o q) = j + i + n
      <4> HIDE DEF e, a, q
      <4> QED BY <2>1
    <3> HIDE DEF r, n, k, i, j
    <3>6. j + i + n < Capacity
      BY <3>1, <3>2, <3>3, <3>4
    <3> QED BY <2>2, <3>5, <3>6, Zenon
  <2>8. delivered'[y] \o OnTheWay(y)' = Addressed(log', y)
    <3>1. delivered'[y] = d
      BY <2>6, Zenon
    <3> HIDE DEF d, e, a, q, l
    <3>2. d \o ((e \o a) \o q) = (d \o (e \o a)) \o q
      BY <2>1
    <3> QED BY <2>2, <2>4, <2>5, <2>6, <3>1, <3>2, Zenon
  <2> QED BY <2>7, <2>8
<1>4. QueueNeverExplodes' /\ TotalOrder'
  BY <1>3, Zenon DEF QueueNeverExplodes, TotalOrder, Addressed, Dests
<1> QED BY <1>2, <1>4 DEF Inv

LEMMA NextInv == Inv /\ [Next]_vars => Inv'
<1> SUFFICES ASSUME Inv, [Next]_vars PROVE Inv'
  OBVIOUS
<1>0. TypeOK /\ QueueNeverExplodes /\ TotalOrder
  BY DEF Inv
<1>1. CASE Cycle
  BY <1>1, CycleInv
<1>2. ASSUME NEW m \in Msgs, Inject(m) PROVE Inv'
  <2>1. TypeOK'
    BY <1>0, <1>2, InjectTyped
  <2>2. \A x : OnTheWay(x)' = OnTheWay(x)
    BY <1>2, Zenon DEF Inject, OnTheWay, Written
  <2>3. delivered' = delivered /\ log' = log
    BY <1>2, Zenon DEF Inject
  <2>4. QueueNeverExplodes' /\ TotalOrder'
    BY <1>0, <2>2, <2>3, Zenon DEF QueueNeverExplodes, TotalOrder
  <2> QED BY <2>1, <2>4 DEF Inv
<1>3. ASSUME NEW x \in Nodes, Transmit(x) PROVE Inv'
  <2>1. /\ TypeOK'
        /\ \A y \in Nodes : /\ delivered'[y] \o OnTheWay(y)' = delivered[y] \o OnTheWay(y)
                            /\ Len(OnTheWay(y)) < Capacity => Len(OnTheWay(y)') < Capacity
    BY <1>0, <1>3, TransmitKeeps
  <2>2. log' = log
    BY <1>3, Zenon DEF Transmit
  <2>3. TotalOrder'
    BY <1>0, <2>1, <2>2, Zenon DEF TotalOrder
  <2>4. QueueNeverExplodes'
    BY <1>0, <2>1, Zenon DEF QueueNeverExplodes
  <2> QED BY <2>1, <2>3, <2>4 DEF Inv
<1>4. CASE UNCHANGED vars
  BY <1>0, <1>4, Zenon DEF vars, Inv, TypeOK, QueueNeverExplodes, TotalOrder, OnTheWay,
     Written
<1> QED BY <1>1, <1>2, <1>3, <1>4 DEF Next

\* Proves: the transmit queue of a port never has to hold more than it can,
\* whatever the number of boards and the capacity of the queues; the error
\* "router output queue exploded" is dead code.
THEOREM RouterQueueNeverExplodes == Spec => []QueueNeverExplodes
<1>1. Inv => QueueNeverExplodes
  BY DEF Inv
<1> QED BY Initially, NextInv, <1>1, PTL DEF Spec

\* Proves: every board gets the messages addressed to it, each once and in the
\* order in which the router admitted them, although packets overtake each
\* other in the network.
THEOREM RouterKeepsTotalOrder == Spec => []TotalOrder
<1>1. Inv => TotalOrder
  BY DEF Inv
<1> QED BY Initially, NextInv, <1>1, PTL DEF Spec
===============================================================================
