------------------------------- MODULE Channel -------------------------------
(***************************************************************************)
(* What a TSim pathway promises to the units at its two ends: a set of     *)
(* bounded, lossless FIFO channels.  A message waits in the queue of its   *)
(* source, is moved once to the channel of every unit it is addressed to,  *)
(* never into a channel that has no room, and is taken there in order.     *)
(* Module Pathway is shown to implement this specification.                *)
(***************************************************************************)
EXTENDS Integers, Sequences

CONSTANTS
  Sources,      \* the units that write
  Sinks,        \* the units that read
  Msgs,         \* messages
  Dests(_),     \* the sinks a message is addressed to
  SrcRoom,      \* [Sources -> Nat]: messages a source may have waiting
  SinkRoom      \* [Sinks -> Nat]: messages a channel may hold

VARIABLES
  pending,      \* [Sources -> Seq(Msgs)]: written, not yet on the way
  chan          \* [Sinks -> Seq(Msgs)]: on the way or arrived, not yet read

vars == <<pending, chan>>

TypeOK ==
  /\ pending \in [Sources -> Seq(Msgs)]
  /\ chan \in [Sinks -> Seq(Msgs)]
  /\ \A s \in Sources : Len(pending[s]) <= SrcRoom[s]
  /\ \A r \in Sinks : Len(chan[r]) <= SinkRoom[r]

Init ==
  /\ pending = [s \in Sources |-> <<>>]
  /\ chan = [r \in Sinks |-> <<>>]

Put(s, m) ==
  /\ Len(pending[s]) < SrcRoom[s]
  /\ pending' = [pending EXCEPT ![s] = Append(@, m)]
  /\ UNCHANGED chan

\* The oldest message of s goes to all its sinks at once, or stays.
Send(s) ==
  /\ pending[s] # <<>>
  /\ LET m == Head(pending[s])
     IN /\ \A r \in Dests(m) : Len(chan[r]) < SinkRoom[r]
        /\ chan' = [r \in Sinks |-> IF r \in Dests(m) THEN Append(chan[r], m)
                                                      ELSE chan[r]]
  /\ pending' = [pending EXCEPT ![s] = Tail(@)]

Take(r) ==
  /\ chan[r] # <<>>
  /\ chan' = [chan EXCEPT ![r] = Tail(@)]
  /\ UNCHANGED pending

Next ==
  \/ \E s \in Sources, m \in Msgs : Put(s, m)
  \/ \E s \in Sources : Send(s)
  \/ \E r \in Sinks : Take(r)

Spec == Init /\ [][Next]_vars

\* Some source always gets through, and a reader that never stops reading
\* gets every message addressed to it.
Progress ==
  /\ WF_vars(\E s \in Sources : Send(s))
  /\ \A r \in Sinks : WF_vars(Take(r))

FairSpec == Spec /\ Progress

\* Every source gets through.
NoStarvation == \A s \in Sources : WF_vars(Send(s))
=============================================================================
