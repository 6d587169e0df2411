--------------------------- MODULE MCRouterNetwork ---------------------------
(***************************************************************************)
(* Three nodes and four messages: two broadcasts and two unicasts, two of  *)
(* them from the same node.                                                *)
(***************************************************************************)
EXTENDS RouterNetwork, TLC

CONSTANTS m1, m2, m3, m4

SmallSrc == [m \in Msgs |-> IF m \in {m1, m2} THEN 0 ELSE 1]
SmallDst == [m \in Msgs |-> IF m = m1 THEN 1 ELSE IF m = m4 THEN 2 ELSE Broadcast]
=============================================================================
