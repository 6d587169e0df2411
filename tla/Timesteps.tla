------------------------------ MODULE Timesteps ------------------------------
(***************************************************************************)
(* What the controllers of the boards promise together: a barrier.  A      *)
(* board enters timestep t + 1 only when every board has finished          *)
(* timestep t.  Module BoardBarrier is shown to implement it.              *)
(***************************************************************************)
EXTENDS Integers

CONSTANT Boards

VARIABLES
  step,     \* [Boards -> Nat]: the timestep a board is in
  done      \* [Boards -> Nat]: the timesteps it has finished

vars == <<step, done>>

Init ==
  /\ step = [b \in Boards |-> 0]
  /\ done = [b \in Boards |-> 0]

Finish(b) ==
  /\ done[b] = step[b]
  /\ done' = [done EXCEPT ![b] = @ + 1]
  /\ UNCHANGED step

Advance(b) ==
  /\ \A c \in Boards : done[c] > step[b]
  /\ step' = [step EXCEPT ![b] = @ + 1]
  /\ UNCHANGED done

\* The last board to finish may enter the next timestep in the same step.
FinishAndAdvance(b) ==
  /\ done[b] = step[b]
  /\ \A c \in Boards \ {b} : done[c] > step[b]
  /\ done' = [done EXCEPT ![b] = @ + 1]
  /\ step' = [step EXCEPT ![b] = @ + 1]

Next == \E b \in Boards : Finish(b) \/ Advance(b) \/ FinishAndAdvance(b)

Spec == Init /\ [][Next]_vars
-----------------------------------------------------------------------------
TypeOK ==
  /\ step \in [Boards -> Nat]
  /\ done \in [Boards -> Nat]

\* No board is in a timestep that some board has not finished the one before.
Barrier == \A b, c \in Boards : step[b] <= done[c] /\ done[c] <= step[c] + 1

\* One parity bit is enough to tell the timesteps of two boards apart.
ParityIsEnough == \A b, c \in Boards : step[b] <= step[c] + 1

\* Barrier is inductive together with the types: a board enters the next
\* timestep only after everyone has finished its own, and nobody finishes a
\* timestep it has not entered.
Inv == TypeOK /\ Barrier
=============================================================================
