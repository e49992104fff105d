--------------------------------- MODULE StartUp ---------------------------------
(***************************************************************************)
(* The start of an indexer process (bootstrap.ts, db/migration-runner.ts,  *)
(* monolith.ts, sync.ts, api.ts, scanner/sync-worker.ts, scanner/          *)
(* chain-anchors.ts).  Every process, and in the monolith its worker once  *)
(* more, prepares the database: it refuses an old schema, replaces what    *)
(* was indexed from another genesis, and computes a missing state root.    *)
(* The one that indexes then checks the chain it is offered, waits for the *)
(* HA lock and writes.  Reading and acting on it are separate statements,  *)
(* and nothing but the HA lock keeps two processes apart.                  *)
(*                                                                         *)
(* A block brings one asset, which bears the block's number; the root is   *)
(* the set of the assets whose hashes have been added to it.               *)
(***************************************************************************)
EXTENDS Integers, FiniteSets

CONSTANTS
    Replicas,           \* the processes that share the database
    Role,               \* what each runs: "both" (the monolith), "sync" or "api"
    Genesis,            \* the release's genesis block
    Tip,                \* the last irreversible block
    Batch,              \* bound: blocks of a batch
    Stores,             \* the databases a process may find
    Anchors,            \* how many Hive endpoints are configured
    WorkerRestarts,     \* MAX_WORKER_RESTARTS
    MaxMishaps          \* bound: crashes and failures of the database

\* What an earlier start leaves, whenever it was broken off: the replay of the
\* blocks from the genesis it was made for, and the root of that table or none.
Kept(db) ==
    /\ db \in [legacy : BOOLEAN, genesis : Nat, cursor : Nat, rows : SUBSET Nat, root : SUBSET Nat]
    /\ db.rows = db.genesis..db.cursor \ {0}
    /\ db.genesis = 0 => db.cursor = 0
    /\ db.cursor = 0 \/ db.cursor >= db.genesis - 1
    /\ db.root \in {{}, db.rows}

ASSUME StartUpAssumption ==
    /\ Role \in [Replicas -> {"both", "sync", "api"}]
    /\ Genesis \in Nat \ {0} /\ Tip \in Nat /\ {Batch, WorkerRestarts} \subseteq Nat \ {0}
    /\ {Anchors, MaxMishaps} \subseteq Nat
    /\ \A db \in Stores : Kept(db)

VARIABLES
    store,      \* the database: [legacy, genesis, cursor, rows, root]
    thread,     \* what each thread is at, and what it remembers
    leading,    \* the thread with the HA lock, or NoThread
    restarts,   \* each monolith's count of its worker's deaths
    mishaps

startVars == <<store, thread, leading, restarts, mishaps>>

Threads == Replicas \X {"main", "worker"}
NoThread == <<>>
Off == [at |-> "off", stored |-> 0, scanned |-> {}, next |-> 0]

\* A database as schema.sql leaves it.
Installed == [legacy |-> FALSE, genesis |-> 0, cursor |-> 0, rows |-> {}, root |-> {}]

StartInit ==
    /\ store \in Stores
    /\ thread = [t \in Threads |-> Off]
    /\ leading = NoThread
    /\ restarts = [r \in Replicas |-> 0] /\ mishaps = 0

At(t, where) == thread[t].at = where
Goes(t, where) == thread' = [thread EXCEPT ![t].at = where]

\* The thread that indexes: the monolith's worker, the sync process itself.
Indexes(t) == t[2] = IF Role[t[1]] = "both" THEN "worker" ELSE "main"

ReleasedBy(ts) == IF leading \in ts THEN NoThread ELSE leading
-----------------------------------------------------------------------------
(* Ends and restarts. *)

\* main's end is the process's; whoever runs it starts it again.
ProcessEnds(r) ==
    /\ thread' = [t \in Threads |-> IF t[1] = r THEN Off ELSE thread[t]]
    /\ leading' = ReleasedBy({r} \X {"main", "worker"})
    /\ restarts' = [restarts EXCEPT ![r] = 0]

\* The worker is started again, unless it has died too often within a minute.
WorkerEnds(r) ==
    \E counted \in {0, restarts[r]} :
        /\ restarts' = [restarts EXCEPT ![r] = counted + 1]
        /\ thread' = [thread EXCEPT ![<<r, "worker">>] =
                        [Off EXCEPT !.at = IF counted + 1 > WorkerRestarts THEN "given_up" ELSE "off"]]
        /\ leading' = ReleasedBy({<<r, "worker">>})

Ends(t) == IF t[2] = "main" THEN ProcessEnds(t[1]) ELSE WorkerEnds(t[1])

Launch(r) ==
    /\ At(<<r, "main">>, "off") /\ Goes(<<r, "main">>, "connecting")
    /\ UNCHANGED <<store, leading, restarts, mishaps>>

\* Of main's way through main() nothing else changes what is modelled here.
StartWorker(r) ==
    /\ Role[r] = "both" /\ At(<<r, "main">>, "ready")
    /\ At(<<r, "worker">>, "off") /\ Goes(<<r, "worker">>, "connecting")
    /\ UNCHANGED <<store, leading, restarts, mishaps>>

Mishap == mishaps < MaxMishaps /\ mishaps' = mishaps + 1

Perish(t) ==
    /\ Mishap /\ ~At(t, "off") /\ ~At(t, "given_up")
    /\ Ends(t)
    /\ UNCHANGED store
-----------------------------------------------------------------------------
(* connectWithRetry *)

\* An old schema is left as it is, and the process exits.
Migrate(t) ==
    /\ At(t, "connecting")
    /\ IF store.legacy THEN Ends(t) ELSE Goes(t, "migrated") /\ UNCHANGED <<leading, restarts>>
    /\ UNCHANGED <<store, mishaps>>

ReadGenesis(t) ==
    /\ At(t, "migrated")
    /\ thread' = [thread EXCEPT ![t] = [@ EXCEPT !.at = "genesis_read", !.stored = store.genesis]]
    /\ UNCHANGED <<store, leading, restarts, mishaps>>

\* Mutant: the cursor stays where it was.
EmptiedTables == [Installed EXCEPT !.genesis = Genesis, !.cursor = store.cursor]

\* wipeAllProjectedData, in one transaction.
Wiped == [Installed EXCEPT !.genesis = Genesis]

CheckGenesis(t) ==
    /\ At(t, "genesis_read") /\ Goes(t, "prepared")
    /\ store' = CASE thread[t].stored = Genesis -> store
                  [] thread[t].stored = 0 -> [store EXCEPT !.genesis = Genesis]
                  [] OTHER -> Wiped
    /\ UNCHANGED <<leading, restarts, mishaps>>

\* "ready" resets the count of the worker's deaths.
Readied(t) ==
    restarts' = IF t[2] = "worker" THEN [restarts EXCEPT ![t[1]] = 0] ELSE restarts

\* A root that is there is left alone,
ReadRoot(t) ==
    /\ At(t, "prepared")
    /\ IF store.root # {} THEN Goes(t, "ready") /\ Readied(t)
                          ELSE Goes(t, "rootless") /\ UNCHANGED restarts
    /\ UNCHANGED <<store, leading, mishaps>>

\* and so is an empty one over an empty table.
CountAssets(t) ==
    /\ At(t, "rootless")
    /\ IF store.rows = {} THEN Goes(t, "ready") /\ Readied(t)
                          ELSE Goes(t, "counted") /\ UNCHANGED restarts
    /\ UNCHANGED <<store, leading, mishaps>>

\* bootstrapStateRootFromFullScan reads all of the table, then writes.
Scan(t) ==
    /\ At(t, "counted")
    /\ thread' = [thread EXCEPT ![t] = [@ EXCEPT !.at = "scanned", !.scanned = store.rows]]
    /\ UNCHANGED <<store, leading, restarts, mishaps>>

Rebuild(t) ==
    /\ At(t, "scanned") /\ Goes(t, "ready") /\ Readied(t)
    /\ store' = [store EXCEPT !.root = thread[t].scanned]
    /\ UNCHANGED <<leading, mishaps>>

\* Any other error, and all of it is tried again.
Retry(t) ==
    /\ Mishap
    /\ thread[t].at \in {"migrated", "genesis_read", "prepared", "rootless", "counted", "scanned"}
    /\ thread' = [thread EXCEPT ![t] = [Off EXCEPT !.at = "connecting"]]
    /\ UNCHANGED <<store, leading, restarts>>
-----------------------------------------------------------------------------
(* startSync *)

\* What the endpoints answer for the block id of the genesis block, where they do.
BlockId == {"ours", "another", "none"}
Samples == [1..Anchors -> BlockId]

MinAnchorQuorum == 2
Anchored(sample) ==
    /\ Cardinality({e \in DOMAIN sample : sample[e] # "none"}) >= MinAnchorQuorum
    /\ \A e \in DOMAIN sample : sample[e] # "another"

VerifyChainAnchors(t) ==
    /\ Indexes(t) /\ Role[t[1]] # "api" /\ At(t, "ready")
    /\ \E sample \in Samples :
          IF Anchored(sample) THEN Goes(t, "waiting") /\ UNCHANGED <<leading, restarts>>
                              ELSE Ends(t)
    /\ UNCHANGED <<store, mishaps>>

Lead(t) ==
    /\ At(t, "waiting") /\ leading = NoThread
    /\ leading' = t /\ Goes(t, "between_cycles")
    /\ UNCHANGED <<store, restarts, mishaps>>

\* The cursor is read once per cycle.
BeginCycle(t) ==
    /\ At(t, "between_cycles")
    /\ LET last == IF store.cursor = 0 THEN Genesis - 1 ELSE store.cursor
       IN  /\ store' = [store EXCEPT !.cursor = last]
           /\ thread' = [thread EXCEPT ![t] = [@ EXCEPT !.at = "indexing", !.next = last + 1]]
    /\ UNCHANGED <<leading, restarts, mishaps>>

\* The assets of the batch, their hashes and the cursor, in one transaction.
WriteBlocks(t) ==
    /\ At(t, "indexing")
    /\ \E last \in thread[t].next..(thread[t].next + Batch - 1) :
          /\ last <= Tip
          /\ LET new == (thread[t].next..last) \ store.rows
             IN store' = [store EXCEPT !.rows = @ \cup new,
                                       !.root = (@ \ new) \cup (new \ @),
                                       !.cursor = IF last > @ THEN last ELSE @]
          /\ thread' = [thread EXCEPT ![t].next = last + 1]
    /\ UNCHANGED <<leading, restarts, mishaps>>

\* At the tip, or after an error.
EndCycle(t) ==
    /\ At(t, "indexing") /\ Goes(t, "between_cycles")
    /\ UNCHANGED <<store, leading, restarts, mishaps>>

Prepare(t) ==
    \/ Migrate(t) \/ ReadGenesis(t) \/ CheckGenesis(t) \/ ReadRoot(t) \/ CountAssets(t)
    \/ Scan(t) \/ Rebuild(t) \/ Retry(t)

Work(t) == VerifyChainAnchors(t) \/ Lead(t) \/ BeginCycle(t) \/ WriteBlocks(t) \/ EndCycle(t)

StartNext ==
    \/ \E r \in Replicas : Launch(r) \/ StartWorker(r)
    \/ \E t \in Threads : Prepare(t) \/ Work(t) \/ Perish(t)

StartSpec == StartInit /\ [][StartNext]_startVars
-----------------------------------------------------------------------------
Through == {t \in Threads : thread[t].at \in {"ready", "waiting", "between_cycles", "indexing"}}

\* "Safe to run on every boot: when the root is already populated, this no-ops"
\* (bootstrap.ts:142-145): with a process through its preparation, the root is
\* that of the table.
RootSafeOnEveryBoot == Through # {} => store.root = store.rows

\* Whatever database is found, however often processes and workers die on the
\* way and the connection fails between two statements: an old schema is never
\* served, the tables hold the replay from their genesis up to the cursor
\* without a gap, that is the release's genesis once anybody indexes, and the
\* root is the full scan's.  "Truncates all projected data and zeroes the
\* singletons in a single transaction so the sync cursor cannot advance over a
\* half-wiped DB" (bootstrap.ts:85-87).
ProjectionSound ==
    /\ store.legacy => Through = {}
    /\ ~store.legacy => store.rows = store.genesis..store.cursor \ {0}
    /\ leading # NoThread => store.genesis = Genesis
    /\ RootSafeOnEveryBoot
=============================================================================
