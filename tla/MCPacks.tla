------------------------------ MODULE MCPacks -------------------------------
(* Two seeds, one twice as likely as the other, two draws to a pack. *)
EXTENDS PackPlan

CONSTANTS s1, s2

Weights == [s \in Draws |-> IF s = s1 THEN 2 ELSE 1]
Table == <<s1, s2>>
Amounts == {-1, 1, 2, 3}
=============================================================================
