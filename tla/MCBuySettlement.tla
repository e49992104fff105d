--------------------------- MODULE MCBuySettlement ---------------------------
(***************************************************************************)
(* Instances of buy settlement for TLC: two transactions that compete for  *)
(* one asset, through two nodes or through the same one.                   *)
(***************************************************************************)
EXTENDS BuySettlement, TLC

CONSTANTS n1, n2, t1, t2

OneNodeEach == [t \in Txs |-> IF t = t1 THEN n1 ELSE n2]
OneNode == [t \in Txs |-> n1]

\* Both pairs change places together.
PairSymmetry ==
    {[x \in {n1, n2, t1, t2} |-> x],
     (t1 :> t2) @@ (t2 :> t1) @@ (n1 :> n2) @@ (n2 :> n1)}
=============================================================================
