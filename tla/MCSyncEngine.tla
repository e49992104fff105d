---------------------------- MODULE MCSyncEngine ----------------------------
(***************************************************************************)
(* Instances of the sync engine for TLC.  The first block always lists the *)
(* asset; every later block is empty or reserves it, buys it, or tries     *)
(* both in an order that only the second pass over the block could accept. *)
(***************************************************************************)
EXTENDS SyncEngine, TLC

Menu == {<<>>, <<"buy_commitment">>, <<"buy">>, <<"buy", "buy_commitment">>}

ProcSymmetry == Permutations(Procs)

AllChains ==
    {ch \in [Blocks -> Menu \cup {<<"list">>}] :
        \A b \in Blocks : ch[b] = <<"list">> <=> b = 1}

\* A chain on which a repeated batch shows: the buy of block 2 comes too soon.
HastyChain ==
    {[b \in Blocks |-> CASE b = 1 -> <<"list">>
                         [] b = 2 -> <<"buy", "buy_commitment">>
                         [] OTHER -> <<>>]}
=============================================================================
