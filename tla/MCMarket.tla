------------------------------ MODULE MCMarket ------------------------------
(***************************************************************************)
(* Instances of the ledger for TLC.  Assets a1 and a2 are instances of one *)
(* ordinary collection; the custody instance adds a soulbound asset and a  *)
(* seed.  Each run narrows the inputs the others explore in full, with the *)
(* bounds Spenders, Borrowers and MaxListings.                             *)
(***************************************************************************)
EXTENDS Market, TLC

CONSTANTS a1, a2, a3, seed, plain, bound

OneCollection == [a \in Assets |-> plain]
TwoCollections == [a \in Assets |-> IF a = a3 THEN bound ELSE plain]

SpenderSymmetry == Permutations(Spenders)
=============================================================================
