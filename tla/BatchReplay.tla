----------------------------- MODULE BatchReplay -----------------------------
(***************************************************************************)
(* What a reader of the database may see while the chain is indexed: the   *)
(* tables as they are once everything up to some place has been played,    *)
(* and nothing in between.  The tables move on by a whole batch at a time, *)
(* together with the cursor; how a batch comes about, and how often one is *)
(* tried in vain, does not show.                                           *)
(***************************************************************************)
EXTENDS Naturals

CONSTANTS
    Ends(_),        \* Ends(h): the places of h where a batch may end
    After(_, _)     \* After(h, n): the tables once h is played up to place n

VARIABLES
    history,        \* what the chain brings, whatever it is
    upto,           \* the cursor: how far it has been played
    tables          \* the projected tables, as committed

batches == <<history, upto, tables>>

BatchInit ==
    /\ upto = 0
    /\ tables = After(history, 0)

\* A transaction commits what lies between the cursor and place n.
CommitUpTo(n) ==
    /\ n > upto
    /\ upto' = n
    /\ tables' = After(history, n)
    /\ UNCHANGED history

BatchNext == \E n \in Ends(history) : CommitUpTo(n)

BatchSpec == BatchInit /\ [][BatchNext]_batches
=============================================================================
