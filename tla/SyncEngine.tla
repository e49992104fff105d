----------------------------- MODULE SyncEngine -----------------------------
(***************************************************************************)
(* Indexer processes that share one database and replay the chain into it: *)
(* the sync loop of each, the session-level HA lock that elects a writer,  *)
(* the transaction-level write fence, and the batch transaction.           *)
(*                                                                         *)
(* A step ends where the code awaits something other processes can race    *)
(* with.  The backward reset of syncCycle has no action: the cursor in the *)
(* database never moves back and none is ahead of it                       *)
(* (NeverAheadOfDatabase), so that branch waits for a restored database.   *)
(***************************************************************************)
EXTENDS ChainReplay, Integers

CONSTANTS
    Procs,      \* indexer processes
    NoProc,     \* nobody
    BlockRange, \* blocks per fetched range
    Massive,    \* MASSIVE_THRESHOLD: from here on two ranges per batch
    Regression, \* IRREVERSIBLE_REGRESSION_TOLERANCE
    Tolerance,  \* SYNC_TOLERANCE_BLOCKS
    Lag,        \* bound: how far behind a reported frontier may be
    Faults,     \* what may go wrong: a subset of FaultKinds
    MaxFaults   \* bound: how many crashes, drops and stops happen

FaultKinds == {"crash", "drop", "stop", "fetch", "abort"}

ASSUME EngineAssumption ==
    /\ NoProc \notin Procs
    /\ BlockRange \in Nat \ {0}
    /\ {Massive, Regression, Tolerance, Lag, MaxFaults} \subseteq Nat
    /\ Faults \subseteq FaultKinds

VARIABLES
    lib,        \* the chain's last irreversible block
    tip,        \* sync_state.hive_irreversible_block
    haLock,     \* whose session holds SYNC_HA_LOCK_ID
    fence,      \* whose transaction holds SYNC_WRITE_FENCE_ID
    pc,         \* where the sync loop of each process is
    held,       \* LockState.kind = "held", as the process believes
    running,    \* the loop's running flag
    known,      \* lastKnownIrreversibleBlock
    target,     \* irreversibleBlock of the present cycle
    at,         \* current: first block of the next batch
    massive,    \* isMassive of the present cycle
    upTo,       \* lastBatch.to
    synced,     \* the readiness flag shown to the API
    faults      \* number of faults so far

engine == <<chain, cursor, ledger, roots, lib, tip, haLock, fence, pc, held,
            running, known, target, at, massive, upTo, synced, faults>>
database == <<chain, cursor, ledger, roots>>
cycle == <<target, at, massive, upTo>>

Steps == {"lock", "cursor", "head", "check", "fetch", "verify", "begin", "write"}

Larger(m, n) == IF m > n THEN m ELSE n
Smaller(m, n) == IF m < n THEN m ELSE n
Goto(p, s) == pc' = [pc EXCEPT ![p] = s]

-----------------------------------------------------------------------------
EngineInit ==
    /\ ReplayInit
    /\ lib = 1 /\ tip = 0
    /\ haLock = NoProc /\ fence = NoProc
    /\ pc = [p \in Procs |-> "lock"]
    /\ held = [p \in Procs |-> FALSE]
    /\ running = [p \in Procs |-> TRUE]
    /\ known = [p \in Procs |-> 0]
    /\ target = [p \in Procs |-> 0]
    /\ at = [p \in Procs |-> 1]
    /\ massive = [p \in Procs |-> FALSE]
    /\ upTo = [p \in Procs |-> 0]
    /\ synced = [p \in Procs |-> FALSE]
    /\ faults = 0

\* Hive makes another block irreversible.
Finalize ==
    /\ lib < LastBlock
    /\ lib' = lib + 1
    /\ UNCHANGED <<database, tip, haLock, fence, pc, held, running, known,
                   cycle, synced, faults>>

\* waitForLock: acquireSyncLock answers at once when the process believes it
\* holds the lock; otherwise pg_try_advisory_lock decides.
Acquire(p) ==
    /\ pc[p] = "lock" /\ running[p]
    /\ held[p] \/ haLock = NoProc
    /\ haLock' = IF held[p] THEN haLock ELSE p
    /\ held' = [held EXCEPT ![p] = TRUE]
    /\ Goto(p, "cursor")
    /\ UNCHANGED <<database, lib, tip, fence, running, known, cycle, synced,
                   faults>>

\* The frontier only moves forward, give or take the jitter between endpoints.
Credible(p, irr) == known[p] > 0 => irr + Regression >= known[p]

\* Mutant: the loop resumes from the chain's frontier.
ResumeAtTip == tip + 1

\* Where a cycle resumes.
ResumeAt == cursor + 1

\* syncCycle reads the cursor, and only then asks the endpoints for the head.
ReadCursor(p) ==
    /\ pc[p] = "cursor" /\ running[p]
    /\ at' = [at EXCEPT ![p] = ResumeAt]
    /\ Goto(p, "head")
    /\ UNCHANGED <<database, lib, tip, haLock, fence, held, running, known,
                   target, massive, upTo, synced, faults>>

\* The head of syncCycle, once the endpoints have agreed on frontier irr: a
\* regression beyond the tolerance aborts the cycle without any effect.
Cycle(p, irr) ==
    LET behind == irr - (at[p] - 1) IN
    /\ pc[p] = "head"
    /\ Credible(p, irr)
    /\ known' = [known EXCEPT ![p] = Larger(@, irr)]
    /\ tip' = Larger(tip, irr)
    /\ synced' = [synced EXCEPT ![p] = behind <= Tolerance]
    /\ target' = [target EXCEPT ![p] = irr]
    /\ massive' = [massive EXCEPT ![p] = behind > Massive]
    /\ Goto(p, IF behind > 0 THEN "check" ELSE "cursor")
    /\ UNCHANGED <<database, lib, haLock, fence, held, running, at, upTo, faults>>

\* The endpoints do not agree, or the frontier they report is not credible.
NoHead(p) ==
    /\ "fetch" \in Faults
    /\ pc[p] = "head"
    /\ Goto(p, "cursor")
    /\ UNCHANGED <<database, lib, tip, haLock, fence, held, running, known,
                   cycle, synced, faults>>

\* The continuity assertion at the top of the batch loop, which a stop leaves
\* as well: the cycle goes on, or it is thrown away.
Check(p) ==
    /\ pc[p] = "check"
    /\ Goto(p, IF running[p] /\ cursor < at[p] THEN "fetch" ELSE "cursor")
    /\ UNCHANGED <<database, lib, tip, haLock, fence, held, running, known,
                   cycle, synced, faults>>

\* Mutant: a range may reach past the irreversible block.
RangeEndUncapped(p) == at[p] + BlockRange - 1

RangeEnd(p) == Smaller(at[p] + BlockRange - 1, target[p])

\* The ends a batch may have: the first range, and when far behind the second
\* one too, unless fetching that one failed.
BatchEnds(p) ==
    {RangeEnd(p)} \cup
        IF massive[p]
        THEN {Smaller(RangeEnd(p) + BlockRange, target[p])} ELSE {}

\* fetchBatch and the account lookups.
Fetch(p) ==
    /\ pc[p] = "fetch"
    /\ \E end \in BatchEnds(p) : upTo' = [upTo EXCEPT ![p] = end]
    /\ Goto(p, "verify")
    /\ UNCHANGED <<database, lib, tip, haLock, fence, held, running, known,
                   target, at, massive, synced, faults>>

FetchFails(p) ==
    /\ "fetch" \in Faults
    /\ pc[p] = "fetch"
    /\ Goto(p, "cursor")
    /\ UNCHANGED <<database, lib, tip, haLock, fence, held, running, known,
                   cycle, synced, faults>>

\* verifyLockHeld asks the lock's own connection, and is out of date by the
\* time the transaction begins.
Verify(p) ==
    /\ pc[p] = "verify"
    /\ Goto(p, IF held[p] /\ haLock = p THEN "begin" ELSE "lock")
    /\ UNCHANGED <<database, lib, tip, haLock, fence, held, running, known,
                   cycle, synced, faults>>

\* BEGIN and pg_try_advisory_xact_lock.
Begin(p) ==
    /\ pc[p] = "begin"
    /\ IF fence = NoProc
       THEN fence' = p /\ Goto(p, "write")
       ELSE fence' = fence /\ Goto(p, "lock")
    /\ UNCHANGED <<database, lib, tip, haLock, held, running, known, cycle,
                   synced, faults>>

\* updateLastBlock.
UpdatedCursor(n) == Larger(cursor, n)

\* What the committed batch transaction leaves in the database.
WriteBatch(p) ==
    LET after == PlayBatch(chain, ledger, at[p], upTo[p]) IN
    /\ ledger' = after
    /\ roots' = IF upTo[p] % Every = 0 /\ roots[upTo[p]] = NoRoot
                THEN [roots EXCEPT ![upTo[p]] = after] ELSE roots
    /\ cursor' = UpdatedCursor(upTo[p])
    /\ fence' = NoProc
    /\ UNCHANGED chain

\* The batch commits and the loop moves on to the next one, if any.
Commit(p) ==
    /\ pc[p] = "write"
    /\ WriteBatch(p)
    /\ at' = [at EXCEPT ![p] = upTo[p] + 1]
    /\ IF upTo[p] < target[p]
       THEN Goto(p, "check") /\ UNCHANGED synced
       ELSE Goto(p, "cursor") /\ synced' = [synced EXCEPT ![p] = TRUE]
    /\ UNCHANGED <<lib, tip, haLock, held, running, known, target, massive, upTo,
                   faults>>

\* The batch commits but the answer is lost: to the loop it failed.
CommitUnseen(p) ==
    /\ "abort" \in Faults
    /\ pc[p] = "write"
    /\ WriteBatch(p)
    /\ Goto(p, "cursor")
    /\ UNCHANGED <<lib, tip, haLock, held, running, known, cycle, synced, faults>>

\* An operation is fatal, or the database fails: ROLLBACK.
Abort(p) ==
    /\ "abort" \in Faults
    /\ pc[p] = "write"
    /\ fence' = NoProc
    /\ Goto(p, "cursor")
    /\ UNCHANGED <<database, lib, tip, haLock, held, running, known, cycle,
                   synced, faults>>

-----------------------------------------------------------------------------
Fault(kind) ==
    /\ kind \in Faults
    /\ faults < MaxFaults
    /\ faults' = faults + 1

\* The session of the HA lock ends: PostgreSQL frees the lock ...
LoseLock(p) ==
    /\ Fault("drop")
    /\ haLock = p
    /\ haLock' = NoProc
    /\ UNCHANGED <<database, lib, tip, fence, pc, held, running, known, cycle,
                   synced>>

\* ... and the process hears of it by onclose, sooner or later.
NoticeLoss(p) ==
    /\ held[p] /\ haLock # p
    /\ held' = [held EXCEPT ![p] = FALSE]
    /\ UNCHANGED <<database, lib, tip, haLock, fence, pc, running, known,
                   cycle, synced, faults>>

\* Mutant: the lock outlives the session that held it.
KeepLockOf(p) == haLock' = haLock

\* pg_advisory_unlock, or the end of the session.
FreeLockOf(p) == haLock' = IF haLock = p THEN NoProc ELSE haLock

\* stopSync, on SIGTERM: the lock goes at once, the batch in progress does not.
Stop(p) ==
    /\ running[p]
    /\ Fault("stop")
    /\ running' = [running EXCEPT ![p] = FALSE]
    /\ held' = [held EXCEPT ![p] = FALSE]
    /\ FreeLockOf(p)
    /\ UNCHANGED <<database, lib, tip, fence, pc, known, cycle, synced>>

\* The process starts anew with nothing in memory.
Fresh(p) ==
    /\ Goto(p, "lock")
    /\ held' = [held EXCEPT ![p] = FALSE]
    /\ running' = [running EXCEPT ![p] = TRUE]
    /\ known' = [known EXCEPT ![p] = 0]
    /\ target' = [target EXCEPT ![p] = 0]
    /\ at' = [at EXCEPT ![p] = 1]
    /\ massive' = [massive EXCEPT ![p] = FALSE]
    /\ upTo' = [upTo EXCEPT ![p] = 0]
    /\ synced' = [synced EXCEPT ![p] = FALSE]

\* closePool waits for the open transaction; then the process exits, and its
\* supervisor starts it again.
Exit(p) ==
    /\ ~running[p] /\ pc[p] # "write"
    /\ Fresh(p)
    /\ UNCHANGED <<database, lib, tip, haLock, fence, faults>>

\* The process dies: its sessions end and its open transaction is undone.
Crash(p) ==
    /\ Fault("crash")
    /\ Fresh(p)
    /\ FreeLockOf(p)
    /\ fence' = IF fence = p THEN NoProc ELSE fence
    /\ UNCHANGED <<database, lib, tip>>

Reports == (IF lib > Lag THEN lib - Lag ELSE 1)..lib

Step(p) == Acquire(p) \/ ReadCursor(p) \/ Check(p) \/ Verify(p) \/ Begin(p)

EngineNext ==
    \/ Finalize
    \/ \E p \in Procs :
        \/ Step(p) \/ NoticeLoss(p) \/ Exit(p)
        \/ \E irr \in Reports : Cycle(p, irr)
        \/ NoHead(p)
        \/ Fetch(p) \/ FetchFails(p)
        \/ Commit(p) \/ CommitUnseen(p) \/ Abort(p)
        \/ LoseLock(p) \/ Stop(p) \/ Crash(p)

EngineSpec == EngineInit /\ [][EngineNext]_engine

\* Blocks become final, processes take their steps, and what may fail (the
\* endpoints' answers, the fetch, the transaction) succeeds if it is retried
\* for ever, as syncLoop does.
EngineFairSpec ==
    /\ EngineSpec
    /\ WF_engine(Finalize)
    /\ \A p \in Procs :
        /\ WF_engine(Step(p)) /\ WF_engine(NoticeLoss(p)) /\ WF_engine(Exit(p))
        /\ SF_engine(Cycle(p, lib))
        /\ SF_engine(Fetch(p))
        /\ SF_engine(Commit(p))

-----------------------------------------------------------------------------
EngineTypeOK ==
    /\ chain \in Chains
    /\ cursor \in 0..LastBlock
    /\ lib \in Blocks /\ tip \in 0..LastBlock
    /\ {haLock, fence} \subseteq Procs \cup {NoProc}
    /\ pc \in [Procs -> Steps]
    /\ {held, running, massive, synced} \subseteq [Procs -> BOOLEAN]
    /\ {known, target, upTo} \subseteq [Procs -> 0..LastBlock]
    /\ at \in [Procs -> 1..(LastBlock + 1)]
    /\ faults \in 0..MaxFaults

\* A writer's batch never starts behind a gap: whatever process commits, and
\* however stale its view is, every block up to the cursor has been played.
NeverAheadOfDatabase ==
    \A p \in Procs : pc[p] \in Steps \ {"lock", "cursor"} =>
        at[p] <= cursor + 1

\* At most one transaction at a time writes, and only the one that holds the
\* fence; what it plays is final on the chain.
WritesFencedAndFinal ==
    \A p \in Procs : pc[p] = "write" =>
        /\ fence = p
        /\ at[p] <= upTo[p] /\ upTo[p] <= lib

\* No operation takes effect twice, even when a process that has lost the
\* lock replays blocks another one has committed.
ConfirmedOnce ==
    \A i, j \in DOMAIN ledger.confirmed :
        ledger.confirmed[i] = ledger.confirmed[j] => i = j

\* The database is always the replay of the chain up to its cursor, and
\* recorded roots are those of that replay: no cut into batches, no crash, no
\* retry and no lost answer shows in it.
ImplementsReplay == ReplaySpec

\* What sync-lock.ts says of the fence: it leaves no divergence window.
NoDivergence == ledger = Canon(chain, cursor)

\* Indexing reaches the end of the chain: the two locks, a lost session, a
\* stop and a crash never leave everybody waiting.
CatchesUp == <>(cursor = LastBlock)
=============================================================================
