------------------------------ MODULE MCStartUp ------------------------------
(***************************************************************************)
(* Starts on every kind of database: new, wiped, indexed in part, indexed  *)
(* by a release without a state root, from another genesis, with an old    *)
(* schema.  A monolith has the database to itself; an api and a sync       *)
(* process share it.                                                       *)
(***************************************************************************)
EXTENDS StartUp, TLC

CONSTANTS mono, api, sync

Roles == mono :> "both" @@ api :> "api" @@ sync :> "sync"

Indexed(from, to) ==
    [Installed EXCEPT !.genesis = from, !.cursor = to, !.rows = from..to, !.root = from..to]
Rootless(db) == [db EXCEPT !.root = {}]

SomeStores ==
    {Installed, [Installed EXCEPT !.genesis = Genesis], [Installed EXCEPT !.legacy = TRUE],
     [Installed EXCEPT !.genesis = Genesis, !.cursor = Genesis - 1],
     Indexed(Genesis, Genesis + 1), Rootless(Indexed(Genesis, Genesis + 1)),
     Indexed(1, Genesis + 1), Rootless(Indexed(1, Genesis + 1))}

\* The monolith starts on any of them; api and sync where the root is in place.
Found ==
    IF thread[<<mono, "main">>] # Off THEN \A r \in {api, sync} : thread[<<r, "main">>] = Off
    ELSE thread = [t \in Threads |-> Off] \/ (store.root # {} /\ store.genesis = Genesis)

\* Only api and sync, on a new database.
SplitInit == StartInit /\ store = Installed
SplitSpec == SplitInit /\ [][StartNext /\ thread[<<mono, "main">>]' = Off]_startVars
=============================================================================
