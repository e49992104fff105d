----------------------------- MODULE IndexerProofs -----------------------------
(***************************************************************************)
(* Theorems about the indexer's processes, from their start on, about the  *)
(* settlement daemon and about the endpoints they read Hive through, for   *)
(* any number of processes, blocks and endpoints, any chain, any batch     *)
(* size and any faults.  The ledger they write and the pages they read are *)
(* values of recursive functions; what is known of them is proved by       *)
(* induction, as the least counterexample.                                 *)
(***************************************************************************)
EXTENDS SyncEngine, SettlementDaemon, StartUp, HiveAccess, InductionLemmas,
        FiniteSetTheorems, SequenceTheorems

(* Where each process stands, and how far what it knows reaches.            *)

InCycle == {"check", "fetch", "verify", "begin", "write"}

EngineShapes ==
    /\ lib \in Nat /\ cursor \in Nat /\ chain \in Chains
    /\ 1 <= lib /\ lib <= LastBlock /\ cursor <= lib
    /\ pc \in [Procs -> Steps] /\ at \in [Procs -> Nat] /\ target \in [Procs -> Nat]
    /\ upTo \in [Procs -> Nat]
    /\ held \in [Procs -> BOOLEAN] /\ running \in [Procs -> BOOLEAN]

\* What the process p believes of the database is true, or harmless: the first
\* block of its next batch follows no gap, a batch in hand lies within the
\* cycle, the cycle within the irreversible chain; only the holder of the fence
\* is in a transaction.
Placed(p) ==
    /\ 1 <= at[p] /\ target[p] <= lib
    /\ pc[p] \in Steps \ {"lock", "cursor"} => at[p] <= cursor + 1
    /\ pc[p] \in InCycle => at[p] <= target[p]
    /\ pc[p] \in {"verify", "begin", "write"} => at[p] <= upTo[p] /\ upTo[p] <= target[p]
    /\ pc[p] = "write" <=> fence = p

EngineControl == EngineShapes /\ \A p \in Procs : Placed(p)

LEMMA EngineInitControl == EngineInit => EngineControl
<1> SUFFICES ASSUME EngineInit PROVE EngineControl
  OBVIOUS
<1>1. EngineShapes
  BY ReplayAssumption DEF EngineInit, ReplayInit, EngineShapes, Steps
<1>2. ASSUME NEW p \in Procs PROVE Placed(p)
  BY EngineAssumption DEF EngineInit, Placed, InCycle
<1> QED
  BY <1>1, <1>2 DEF EngineControl

\* The steps of one process, apart from what it does to the others.
ProcStep(p) ==
    \/ Step(p) \/ NoticeLoss(p) \/ Exit(p)
    \/ \E irr \in Reports : Cycle(p, irr)
    \/ NoHead(p)
    \/ Fetch(p) \/ FetchFails(p)
    \/ Commit(p) \/ CommitUnseen(p) \/ Abort(p)
    \/ LoseLock(p) \/ Stop(p) \/ Crash(p)

LEMMA EngineSteps ==
    ASSUME [EngineNext]_engine
    PROVE  Finalize \/ (\E p \in Procs : ProcStep(p)) \/ UNCHANGED engine
  BY DEF EngineNext, ProcStep

\* A step of p leaves the others where they are.
LEMMA OthersStay ==
    ASSUME EngineShapes, NEW p \in Procs, ProcStep(p), NEW q \in Procs, q # p
    PROVE  /\ pc'[q] = pc[q] /\ at'[q] = at[q] /\ target'[q] = target[q] /\ upTo'[q] = upTo[q]
           /\ held'[q] = held[q] /\ running'[q] = running[q]
<1> USE DEF EngineShapes, database, cycle, Goto
<1>1. CASE Step(p)
  BY <1>1 DEF Step, Acquire, ReadCursor, Check, Verify, Begin
<1>2. CASE NoticeLoss(p) \/ LoseLock(p) \/ Stop(p)
  BY <1>2 DEF NoticeLoss, LoseLock, Stop
<1>3. CASE Exit(p) \/ Crash(p)
  BY <1>3 DEF Exit, Crash, Fresh
<1>4. ASSUME NEW irr \in Reports, Cycle(p, irr)
      PROVE  /\ pc'[q] = pc[q] /\ at'[q] = at[q] /\ target'[q] = target[q] /\ upTo'[q] = upTo[q]
             /\ held'[q] = held[q] /\ running'[q] = running[q]
  BY <1>4 DEF Cycle
<1>5. CASE NoHead(p) \/ FetchFails(p) \/ Abort(p) \/ CommitUnseen(p)
  BY <1>5 DEF NoHead, FetchFails, Abort, CommitUnseen
<1>6. CASE Fetch(p)
  BY <1>6 DEF Fetch
<1>7. CASE Commit(p)
  BY <1>7 DEF Commit
<1> QED
  BY <1>1, <1>2, <1>3, <1>4, <1>5, <1>6, <1>7 DEF ProcStep

\* What p writes moves the cursor on, within the irreversible chain; it takes
\* the fence when nobody has it, and gives back its own.
LEMMA OnDatabase ==
    ASSUME EngineControl, NEW p \in Procs, ProcStep(p)
    PROVE  /\ UNCHANGED <<lib, chain>>
           /\ \/ UNCHANGED <<cursor, ledger, roots>>
              \/ /\ pc[p] = "write" /\ WriteBatch(p)
                 /\ 1 <= at[p] /\ at[p] <= upTo[p] /\ upTo[p] <= lib
           /\ cursor' \in Nat /\ cursor <= cursor' /\ cursor' <= lib
           /\ \/ fence' = fence
              \/ pc[p] = "begin" /\ fence = NoProc /\ fence' = p
              \/ fence = p /\ fence' = NoProc
<1> USE DEF database, cycle
<1>0. /\ Placed(p) /\ cursor \in Nat /\ lib \in Nat /\ cursor <= lib
      /\ at[p] \in Nat /\ upTo[p] \in Nat /\ target[p] \in Nat
  BY DEF EngineControl, EngineShapes
<1>1. CASE Step(p) \/ NoticeLoss(p) \/ NoHead(p) \/ FetchFails(p) \/ Fetch(p) \/ LoseLock(p) \/ Stop(p)
  BY <1>0, <1>1 DEF Step, Acquire, ReadCursor, Check, Verify, Begin, NoticeLoss, NoHead,
                    FetchFails, Fetch, LoseLock, Stop
<1>2. CASE Exit(p) \/ Crash(p) \/ (\E irr \in Reports : Cycle(p, irr))
  BY <1>0, <1>2 DEF Exit, Crash, Cycle
<1>3. CASE Commit(p) \/ CommitUnseen(p)
  <2>1. /\ pc[p] = "write" /\ WriteBatch(p) /\ lib' = lib
    BY <1>3 DEF Commit, CommitUnseen
  <2>2. /\ chain' = chain /\ cursor' = UpdatedCursor(upTo[p]) /\ fence' = NoProc
    BY <2>1 DEF WriteBatch
  <2>3. /\ 1 <= at[p] /\ at[p] <= upTo[p] /\ upTo[p] <= target[p] /\ target[p] <= lib /\ fence = p
    BY <1>0, <2>1 DEF Placed
  <2>4. upTo[p] <= lib
    BY <1>0, <2>3
  <2> QED
    BY <1>0, <2>1, <2>2, <2>3, <2>4 DEF UpdatedCursor, Larger
<1>4. CASE Abort(p)
  BY <1>0, <1>4 DEF Abort, Placed
<1> QED
  BY <1>1, <1>2, <1>3, <1>4 DEF ProcStep

LEMMA EngineShapesStep == EngineControl /\ [EngineNext]_engine => EngineShapes'
<1> SUFFICES ASSUME EngineControl, [EngineNext]_engine PROVE EngineShapes'
  OBVIOUS
<1>0. EngineShapes /\ LastBlock \in Nat
  BY ReplayAssumption DEF EngineControl
<1>1. CASE Finalize
  BY <1>0, <1>1 DEF Finalize, EngineShapes, database, cycle
<1>2. ASSUME NEW p \in Procs, ProcStep(p) PROVE EngineShapes'
  <2>1. /\ UNCHANGED <<lib, chain>> /\ cursor' \in Nat /\ cursor' <= lib
    BY <1>2, OnDatabase
  <2>2. /\ pc' \in [Procs -> Steps] /\ at' \in [Procs -> Nat] /\ target' \in [Procs -> Nat]
        /\ upTo' \in [Procs -> Nat] /\ held' \in [Procs -> BOOLEAN]
        /\ running' \in [Procs -> BOOLEAN]
    <3> USE <1>0 DEF EngineShapes, database, cycle, Goto, Steps
    <3>1. CASE ReadCursor(p) \/ Check(p) \/ Verify(p) \/ Begin(p) \/ NoHead(p) \/ FetchFails(p)
      BY <3>1 DEF ReadCursor, ResumeAt, Check, Verify, Begin, NoHead, FetchFails
    <3>2. CASE Acquire(p) \/ NoticeLoss(p) \/ LoseLock(p) \/ Stop(p)
      BY <3>2 DEF Acquire, NoticeLoss, LoseLock, Stop
    <3>3. CASE Exit(p) \/ Crash(p)
      <4>1. Fresh(p)
        BY <3>3 DEF Exit, Crash
      <4> QED
        BY <4>1 DEF Fresh
    <3>4. ASSUME NEW irr \in Reports, Cycle(p, irr)
          PROVE  /\ pc' \in [Procs -> Steps] /\ target' \in [Procs -> Nat]
                 /\ UNCHANGED <<at, upTo, held, running>>
      <4>1. irr \in Nat
        BY EngineAssumption DEF Reports
      <4>2. /\ target' = [target EXCEPT ![p] = irr] /\ UNCHANGED <<at, upTo, held, running>>
            /\ pc' = [pc EXCEPT ![p] = "check"] \/ pc' = [pc EXCEPT ![p] = "cursor"]
        BY <3>4 DEF Cycle
      <4> QED
        BY <4>1, <4>2
    <3>5. CASE Fetch(p)
      <4>1. PICK e \in BatchEnds(p) : upTo' = [upTo EXCEPT ![p] = e]
        BY <3>5 DEF Fetch
      <4>2. RangeEnd(p) \in Nat
        BY EngineAssumption DEF RangeEnd, Smaller, EngineControl, Placed
      <4>3. e \in Nat
        BY <4>1, <4>2, EngineAssumption DEF BatchEnds, Smaller
      <4> QED
        BY <3>5, <4>1, <4>3 DEF Fetch
    <3>6. CASE Commit(p) \/ CommitUnseen(p) \/ Abort(p)
      BY <3>6 DEF Commit, CommitUnseen, Abort
    <3> QED
      BY <1>2, <3>1, <3>2, <3>3, <3>4, <3>5, <3>6 DEF ProcStep, Step
  <2> QED
    BY <1>0, <2>1, <2>2 DEF EngineShapes
<1>3. CASE UNCHANGED engine
  BY <1>0, <1>3 DEF engine, EngineShapes
<1> QED
  BY <1>1, <1>2, <1>3, EngineSteps

LEMMA OwnPlace ==
    ASSUME EngineControl, EngineShapes', NEW p \in Procs, ProcStep(p)
    PROVE  Placed(p)'
<1>0. /\ Placed(p) /\ cursor \in Nat /\ lib \in Nat /\ 1 <= lib /\ BlockRange \in Nat /\ BlockRange # 0
      /\ at[p] \in Nat /\ upTo[p] \in Nat /\ target[p] \in Nat /\ p # NoProc
      /\ pc \in [Procs -> Steps] /\ at \in [Procs -> Nat] /\ target \in [Procs -> Nat]
      /\ upTo \in [Procs -> Nat]
  BY EngineAssumption DEF EngineControl, EngineShapes
<1>d. /\ UNCHANGED lib /\ cursor' \in Nat /\ cursor <= cursor'
      /\ \/ fence' = fence
         \/ pc[p] = "begin" /\ fence = NoProc /\ fence' = p
         \/ fence = p /\ fence' = NoProc
  BY OnDatabase
<1> USE <1>0, <1>d DEF database, cycle, Goto, Steps, InCycle
<1>1. CASE Acquire(p)
  BY <1>1 DEF Acquire, Placed
<1>2. CASE ReadCursor(p)
  BY <1>2 DEF ReadCursor, ResumeAt, Placed
<1>3. CASE Check(p)
  BY <1>3 DEF Check, Placed
<1>4. CASE Verify(p)
  BY <1>4 DEF Verify, Placed
<1>5. CASE Begin(p)
  BY <1>5 DEF Begin, Placed
<1>6. CASE NoticeLoss(p) \/ LoseLock(p) \/ Stop(p)
  BY <1>6 DEF NoticeLoss, LoseLock, Stop, Placed
<1>7. CASE Exit(p) \/ Crash(p)
  <2>1. /\ pc'[p] = "lock" /\ at'[p] = 1 /\ target'[p] = 0 /\ fence' # p
    BY <1>7 DEF Exit, Crash, Fresh, Placed
  <2> QED
    BY <2>1 DEF Placed
<1>8. ASSUME NEW irr \in Reports, Cycle(p, irr)
      PROVE  Placed(p)'
  <2>1. irr \in Nat /\ irr <= lib
    BY EngineAssumption DEF Reports
  <2>2. /\ target'[p] = irr /\ pc[p] = "head" /\ at' = at /\ UNCHANGED fence
        /\ pc'[p] = IF irr - (at[p] - 1) > 0 THEN "check" ELSE "cursor"
    BY <1>8 DEF Cycle
  <2> QED
    BY <2>1, <2>2 DEF Placed
<1>9. CASE NoHead(p) \/ FetchFails(p) \/ Abort(p)
  BY <1>9 DEF NoHead, FetchFails, Abort, Placed
<1>10. CASE Fetch(p)
  <2>1. PICK e \in BatchEnds(p) : upTo' = [upTo EXCEPT ![p] = e]
    BY <1>10 DEF Fetch
  <2>2. e \in Nat /\ at[p] <= e /\ e <= target[p]
    BY <1>10, <2>1 DEF Fetch, Placed, BatchEnds, RangeEnd, Smaller
  <2>3. pc[p] = "fetch" /\ pc'[p] = "verify" /\ upTo'[p] = e /\ UNCHANGED <<at, target, fence>>
    BY <1>10, <2>1 DEF Fetch
  <2> QED
    BY <2>2, <2>3 DEF Placed
<1>11. CASE Commit(p)
  <2>1. /\ pc[p] = "write" /\ at'[p] = upTo[p] + 1 /\ fence' = NoProc /\ target' = target
        /\ pc'[p] = IF upTo[p] < target[p] THEN "check" ELSE "cursor"
        /\ cursor' = UpdatedCursor(upTo[p])
    BY <1>11 DEF Commit, WriteBatch
  <2>2. upTo[p] <= cursor'
    BY <2>1 DEF UpdatedCursor, Larger
  <2> QED
    BY <2>1, <2>2 DEF Placed
<1>12. CASE CommitUnseen(p)
  BY <1>12 DEF CommitUnseen, WriteBatch, Placed
<1> QED
  BY <1>1, <1>2, <1>3, <1>4, <1>5, <1>6, <1>7, <1>8, <1>9, <1>10, <1>11, <1>12 DEF ProcStep, Step

LEMMA EngineControlStep == EngineControl /\ [EngineNext]_engine => EngineControl'
<1> SUFFICES ASSUME EngineControl, [EngineNext]_engine PROVE EngineControl'
  OBVIOUS
<1>0. EngineShapes /\ EngineShapes'
  BY EngineShapesStep DEF EngineControl
<1>1. CASE Finalize
  <2>1. /\ lib' = lib + 1 /\ UNCHANGED <<cursor, fence, pc, at, target, upTo>>
    BY <1>1 DEF Finalize, database, cycle
  <2> QED
    BY <1>0, <2>1 DEF EngineControl, Placed, EngineShapes
<1>2. ASSUME NEW p \in Procs, ProcStep(p) PROVE EngineControl'
  <2>1. ASSUME NEW q \in Procs, q # p PROVE Placed(q)'
    <3>1. /\ pc'[q] = pc[q] /\ at'[q] = at[q] /\ target'[q] = target[q] /\ upTo'[q] = upTo[q]
      BY <1>0, <1>2, <2>1, OthersStay
    <3>2. /\ UNCHANGED lib /\ cursor' \in Nat /\ cursor <= cursor'
          /\ \/ fence' = fence
             \/ fence = NoProc /\ fence' = p
             \/ fence = p /\ fence' = NoProc
      BY <1>2, OnDatabase
    <3>3. Placed(q) /\ q # NoProc /\ at[q] \in Nat /\ cursor \in Nat
      BY <1>0, EngineAssumption DEF EngineControl, EngineShapes
    <3> QED
      BY <2>1, <3>1, <3>2, <3>3 DEF Placed
  <2>2. Placed(p)'
    BY <1>0, <1>2, OwnPlace
  <2> QED
    BY <1>0, <2>1, <2>2 DEF EngineControl
<1>3. CASE UNCHANGED engine
  BY <1>0, <1>3 DEF engine, EngineControl, Placed
<1> QED
  BY <1>1, <1>2, <1>3, EngineSteps

LEMMA EngineAlwaysControlled == EngineSpec => []EngineControl
  BY EngineInitControl, EngineControlStep, PTL DEF EngineSpec

\* However stale the view of a process is that wants to write, its next batch
\* starts no later than behind the cursor in the database.
THEOREM NoGapAhead == EngineSpec => []NeverAheadOfDatabase
<1>1. EngineControl => NeverAheadOfDatabase
  BY DEF EngineControl, Placed, NeverAheadOfDatabase
<1> QED
  BY <1>1, EngineAlwaysControlled, PTL

\* Whatever happens to the processes and to their locks, one transaction at
\* most is open, its process has the fence, and its blocks are irreversible.
THEOREM WritersFenced == EngineSpec => []WritesFencedAndFinal
<1>1. EngineControl => WritesFencedAndFinal
  BY DEF EngineControl, EngineShapes, Placed, WritesFencedAndFinal
<1> QED
  BY <1>1, EngineAlwaysControlled, PTL

-----------------------------------------------------------------------------
(* What a batch makes of a ledger, for every chain.                         *)

Places == Nat \X Nat
Ledgers == [status : {"active", "listed", "pending_sale"}, until : Nat, confirmed : Seq(Places)]

\* Nothing is confirmed twice.
Single(l) == \A i, j \in DOMAIN l.confirmed : l.confirmed[i] = l.confirmed[j] => i = j
Sound == {l \in Ledgers : Single(l)}

LEMMA SweepSound ==
    ASSUME NEW l \in Sound, NEW b \in Nat
    PROVE  /\ Sweep(l, b) \in Sound
           /\ Sweep(Sweep(l, b), b) = Sweep(l, b)
           /\ Sweep(Sweep(l, b), b + 1) = Sweep(l, b + 1)
<1>1. l \in Ledgers /\ Single(l)
  BY DEF Sound
<1>2. Sweep(l, b) \in Ledgers /\ Sweep(l, b).confirmed = l.confirmed
  BY <1>1 DEF Ledgers, Sweep
<1>3. Single(Sweep(l, b))
  BY <1>1, <1>2 DEF Single
<1>4. Sweep(Sweep(l, b), b) = Sweep(l, b)
  BY <1>1 DEF Ledgers, Sweep
<1>5. Sweep(Sweep(l, b), b + 1) = Sweep(l, b + 1)
  <2>1. CASE l.status = "pending_sale" /\ l.until < b
    <3>1. l.until < b + 1 /\ Sweep(l, b).status = "listed"
      BY <1>1, <2>1 DEF Ledgers, Sweep
    <3>2. Sweep(l, b + 1) = Sweep(l, b)
      BY <2>1, <3>1 DEF Sweep
    <3> QED
      BY <3>1, <3>2 DEF Sweep
  <2>2. CASE ~(l.status = "pending_sale" /\ l.until < b)
    BY <2>2 DEF Sweep
  <2> QED
    BY <2>1, <2>2
<1> QED
  BY <1>2, <1>3, <1>4, <1>5 DEF Sound

\* The gate keeps an operation from being confirmed again.
LEMMA RouteSound ==
    ASSUME NEW l \in Sound, NEW kind \in Kinds, NEW b \in Nat, NEW i \in Nat
    PROVE  Route(l, kind, b, i) \in Sound
<1>1. l \in Ledgers /\ Single(l) /\ l.confirmed \in Seq(Places) /\ <<b, i>> \in Places
  BY DEF Sound, Ledgers, Places
<1>2. CASE ~Confirmed(l, <<b, i>>) /\ Accepted(l, kind, b)
  <2>1. PICK e : e = Effect(l, kind, b)
    OBVIOUS
  <2>2. e \in Ledgers /\ e.confirmed = l.confirmed
    <3>1. b + TTL \in Nat
      BY ReplayAssumption
    <3>2. CASE kind = "list"
      BY <1>1, <2>1, <3>2 DEF Effect, Ledgers
    <3>3. CASE kind = "buy_commitment"
      BY <1>1, <2>1, <3>1, <3>3 DEF Effect, Ledgers
    <3>4. CASE kind = "buy"
      BY <1>1, <2>1, <3>4 DEF Effect, Ledgers
    <3> QED
      BY <3>2, <3>3, <3>4 DEF Kinds
  <2>3. PICK s : s = Append(l.confirmed, <<b, i>>)
    OBVIOUS
  <2>4. /\ s \in Seq(Places) /\ Len(l.confirmed) \in Nat /\ Len(s) = Len(l.confirmed) + 1
        /\ \A j \in 1..Len(l.confirmed) : s[j] = l.confirmed[j]
        /\ s[Len(l.confirmed) + 1] = <<b, i>>
    BY <1>1, <2>3, AppendProperties, LenProperties
  <2>5. PICK r : r = Route(l, kind, b, i)
    OBVIOUS
  <2>6. r = [e EXCEPT !.confirmed = s]
    BY <1>2, <2>1, <2>2, <2>3, <2>5 DEF Route
  <2>7. r \in Ledgers /\ r.confirmed = s
    BY <2>2, <2>4, <2>6 DEF Ledgers
  <2>8. DOMAIN s = 1..Len(s) /\ DOMAIN l.confirmed = 1..Len(l.confirmed)
    BY <1>1, <2>4, LenProperties
  <2>9. \A j \in 1..Len(l.confirmed) : l.confirmed[j] # <<b, i>>
    BY <1>2, <2>8 DEF Confirmed
  <2>10. \A j \in DOMAIN s : j \in 1..Len(l.confirmed) \/ j = Len(l.confirmed) + 1
    BY <2>4, <2>8
  <2>11. Single(r)
    BY <1>1, <2>4, <2>7, <2>8, <2>9, <2>10 DEF Single
  <2> QED
    BY <2>5, <2>7, <2>11 DEF Sound
<1>3. CASE ~(~Confirmed(l, <<b, i>>) /\ Accepted(l, kind, b))
  BY <1>3 DEF Route
<1> QED
  BY <1>2, <1>3

\* The steps of a block's operations.
Routed(ops, b) == [s \in (1..Len(ops)) \X Sound |-> Route(s[2], ops[s[1]], b, s[1])]

LEMMA BlockRuns ==
    ASSUME NEW l \in Sound, NEW ops \in Seq(Kinds), NEW b \in Nat, ops # <<>>
    PROVE  /\ Routed(ops, b) \in [((0 + 1)..Len(ops)) \X Sound -> Sound]
           /\ \E after \in [0..Len(ops) -> Sound] :
                /\ Run(after, 0, Len(ops), Sweep(l, b), Routed(ops, b))
                /\ PlayBlock(l, ops, b) = after[Len(ops)]
<1>0. Len(ops) \in Nat /\ Sweep(l, b) \in Sound /\ \A i \in 1..Len(ops) : ops[i] \in Kinds
  BY SweepSound, LenProperties, ElementOfSeq
<1>1. Routed(ops, b) \in [((0 + 1)..Len(ops)) \X Sound -> Sound]
  <2>1. \A s \in (1..Len(ops)) \X Sound : Route(s[2], ops[s[1]], b, s[1]) \in Sound
    <3> SUFFICES ASSUME NEW i \in 1..Len(ops), NEW x \in Sound
                 PROVE  Route(x, ops[i], b, i) \in Sound
      OBVIOUS
    <3>1. ops[i] \in Kinds /\ i \in Nat
      BY <1>0
    <3> QED
      BY <3>1, RouteSound
  <2> QED
    BY <2>1 DEF Routed
<1> DEFINE Eq(f) == f = [i \in 0..Len(ops) |->
                            IF i = 0 THEN Sweep(l, b) ELSE Route(f[i - 1], ops[i], b, i)]
           A == CHOOSE f : Eq(f)
<1>2. PlayBlock(l, ops, b) = A[Len(ops)]
  BY DEF PlayBlock
<1>3. PICK f \in [0..Len(ops) -> Sound] : Run(f, 0, Len(ops), Sweep(l, b), Routed(ops, b))
  <2>1. PICK g \in [((0 + 1)..Len(ops)) \X Sound -> Sound] : g = Routed(ops, b)
    BY <1>1
  <2>2. PICK z \in Sound : z = Sweep(l, b)
    BY <1>0
  <2>3. \E f \in [0..Len(ops) -> Sound] : Run(f, 0, Len(ops), z, g)
    <3>1. 0 \in Nat /\ 0 <= Len(ops)
      BY <1>0
    <3> QED
      BY <1>0, <3>1, RunExists
  <2> QED
    BY <2>1, <2>2, <2>3
<1>4. Eq(f)
  <2>1. ASSUME NEW i \in 0..Len(ops), i # 0
        PROVE  f[i] = Route(f[i - 1], ops[i], b, i)
    <3>1. i \in (0 + 1)..Len(ops) /\ i \in 1..Len(ops) /\ f[i - 1] \in Sound
      BY <1>0, <2>1
    <3>2. f[i] = Routed(ops, b)[<<i, f[i - 1]>>] /\ <<i, f[i - 1]>> \in (1..Len(ops)) \X Sound
      BY <1>3, <3>1 DEF Run
    <3> QED
      BY <3>2 DEF Routed
  <2>2. f[0] = Sweep(l, b)
    BY <1>3 DEF Run
  <2> QED
    BY <2>1, <2>2
<1>5. Eq(A)
  BY <1>4, Zenon
<1>6. A \in [0..Len(ops) -> Sound] /\ Run(A, 0, Len(ops), Sweep(l, b), Routed(ops, b))
  <2> HIDE DEF A
  <2>1. A = [i \in 0..Len(ops) |-> A[i]] /\ A[0] = Sweep(l, b)
    BY <1>0, <1>5
  <2>2. ASSUME NEW i \in (0 + 1)..Len(ops), A[i - 1] \in Sound
        PROVE  A[i] = Routed(ops, b)[<<i, A[i - 1]>>]
    <3>1. i \in 0..Len(ops) /\ i # 0 /\ <<i, A[i - 1]>> \in (1..Len(ops)) \X Sound
      BY <1>0, <2>2
    <3>2. A[i] = Route(A[i - 1], ops[i], b, i)
      BY <1>5, <3>1
    <3> QED
      BY <3>1, <3>2 DEF Routed
  <2>3. 0 \in Nat /\ 0 <= Len(ops)
    BY <1>0
  <2> QED
    BY <1>0, <1>1, <2>1, <2>2, <2>3, RunOf DEF GoesOn
<1> HIDE DEF A
<1> QED
  BY <1>1, <1>2, <1>6

\* A block's operations begin with the sweep, so that a sweep before them shows
\* only where there are none.
LEMMA BlockSound ==
    ASSUME NEW l \in Sound, NEW ops \in Seq(Kinds), NEW b \in Nat
    PROVE  /\ PlayBlock(l, ops, b) \in Sound
           /\ Sweep(PlayBlock(Sweep(l, b), ops, b), b + 1) = Sweep(PlayBlock(l, ops, b), b + 1)
<1>0. PICK k \in Sound : k = Sweep(l, b)
  BY SweepSound
<1>1. CASE ops = <<>>
  <2>1. PlayBlock(l, ops, b) = l /\ PlayBlock(k, ops, b) = k
    BY <1>1 DEF PlayBlock
  <2> QED
    BY <1>0, <2>1, SweepSound
<1>2. CASE ops # <<>>
  <2>1. Len(ops) \in Nat
    BY LenProperties
  <2>2. PICK f \in [0..Len(ops) -> Sound] :
            /\ Run(f, 0, Len(ops), Sweep(l, b), Routed(ops, b))
            /\ PlayBlock(l, ops, b) = f[Len(ops)]
    BY <1>2, BlockRuns
  <2>3. PICK h \in [0..Len(ops) -> Sound] :
            /\ Run(h, 0, Len(ops), Sweep(k, b), Routed(ops, b))
            /\ PlayBlock(k, ops, b) = h[Len(ops)]
    BY <1>2, BlockRuns
  <2>4. Sweep(k, b) = Sweep(l, b)
    BY <1>0, SweepSound
  <2>5. f[Len(ops)] = h[Len(ops)]
    <3>1. 0 \in Nat /\ 0 <= Len(ops) /\ Len(ops) <= Len(ops)
      BY <2>1
    <3>2. PICK z : z = Sweep(l, b)
      OBVIOUS
    <3>3. PICK g : g = Routed(ops, b)
      OBVIOUS
    <3>4. Run(f, 0, Len(ops), z, g) /\ Run(h, 0, Len(ops), z, g)
      BY <2>2, <2>3, <2>4, <3>2, <3>3
    <3> HIDE <2>2, <2>3
    <3> QED
      BY <2>1, <3>1, <3>4, RunsAgree
  <2> QED
    BY <1>0, <2>1, <2>2, <2>3, <2>5
<1> QED
  BY <1>1, <1>2

\* The steps of a batch's blocks.
Played(ch, lo, hi) == [s \in ((lo + 1)..hi) \X Sound |-> PlayBlock(s[2], ch[s[1]], s[1])]

\* The ledgers after each block of a batch.
IsBatch(after, ch, l, lo, hi) ==
    /\ after \in [lo..hi -> Sound] /\ after[lo] = l
    /\ \A b \in (lo + 1)..hi : after[b] = PlayBlock(after[b - 1], ch[b], b)
    /\ PlayBatch(ch, l, lo + 1, hi) = Sweep(after[hi], hi + 1)

LEMMA BatchRuns ==
    ASSUME NEW ch \in [Blocks -> Seq(Kinds)], NEW lo \in Nat, NEW hi \in Blocks, lo < hi,
           NEW l \in Sound
    PROVE  \E after : IsBatch(after, ch, l, lo, hi)
<1>0. /\ hi \in Nat /\ lo <= hi
      /\ \A b \in (lo + 1)..hi : b \in Nat /\ ch[b] \in Seq(Kinds)
      /\ (lo + 1) - 1 = lo
  BY ReplayAssumption DEF Blocks
<1>1. Played(ch, lo, hi) \in [((lo + 1)..hi) \X Sound -> Sound]
  <2>1. \A s \in ((lo + 1)..hi) \X Sound : PlayBlock(s[2], ch[s[1]], s[1]) \in Sound
    <3> SUFFICES ASSUME NEW b \in (lo + 1)..hi, NEW x \in Sound
                 PROVE  PlayBlock(x, ch[b], b) \in Sound
      OBVIOUS
    <3> QED
      BY <1>0, BlockSound
  <2> QED
    BY <2>1 DEF Played
<1> DEFINE Eq(f) == f = [b \in ((lo + 1) - 1)..hi |->
                            IF b < lo + 1 THEN l ELSE PlayBlock(f[b - 1], ch[b], b)]
           A == CHOOSE f : Eq(f)
<1>2. PlayBatch(ch, l, lo + 1, hi) = Sweep(A[hi], hi + 1)
  BY DEF PlayBatch
<1>3. PICK f \in [lo..hi -> Sound] : Run(f, lo, hi, l, Played(ch, lo, hi))
  <2>1. PICK g \in [((lo + 1)..hi) \X Sound -> Sound] : g = Played(ch, lo, hi)
    BY <1>1
  <2>2. \E f \in [lo..hi -> Sound] : Run(f, lo, hi, l, g)
    BY <1>0, RunExists
  <2> QED
    BY <2>1, <2>2
<1>4. Eq(f)
  <2>1. ASSUME NEW b \in lo..hi, ~(b < lo + 1)
        PROVE  f[b] = PlayBlock(f[b - 1], ch[b], b)
    <3>1. b \in (lo + 1)..hi /\ b - 1 \in lo..hi
      BY <1>0, <2>1
    <3>2. f[b] = Played(ch, lo, hi)[<<b, f[b - 1]>>] /\ <<b, f[b - 1]>> \in ((lo + 1)..hi) \X Sound
      BY <1>3, <3>1 DEF Run
    <3> QED
      BY <3>2 DEF Played
  <2>2. ASSUME NEW b \in lo..hi, b < lo + 1 PROVE f[b] = l
    <3>1. b = lo
      BY <1>0, <2>2
    <3> QED
      BY <1>3, <3>1 DEF Run
  <2>3. f = [b \in lo..hi |-> IF b < lo + 1 THEN l ELSE PlayBlock(f[b - 1], ch[b], b)]
    BY <2>1, <2>2
  <2> QED
    BY <1>0, <2>3
<1>5. Eq(A)
  BY <1>4, Zenon
<1> HIDE DEF A
<1>6. /\ A = [b \in lo..hi |-> A[b]] /\ A[lo] = l
      /\ \A b \in (lo + 1)..hi : A[b] = PlayBlock(A[b - 1], ch[b], b)
  BY <1>0, <1>5
<1>7. A \in [lo..hi -> Sound]
  <2>1. PICK g \in [((lo + 1)..hi) \X Sound -> Sound] : g = Played(ch, lo, hi)
    BY <1>1
  <2>2. ASSUME NEW b \in (lo + 1)..hi, A[b - 1] \in Sound
        PROVE  A[b] = g[<<b, A[b - 1]>>]
    BY <1>6, <2>1, <2>2 DEF Played
  <2>3. A = [b \in lo..hi |-> A[b]] /\ A[lo] = l
    BY <1>6
  <2>4. A \in [lo..hi -> Sound] /\ Run(A, lo, hi, l, g)
    <3>1. PICK k : k = A
      OBVIOUS
    <3>2. hi \in Nat /\ lo <= hi
      BY <1>0
    <3>3. GoesOn(k, lo, hi, l, g, Sound)
      BY <2>2, <2>3, <3>1 DEF GoesOn
    <3>5. k \in [lo..hi -> Sound] /\ Run(k, lo, hi, l, g)
      BY <3>2, <3>3, RunOf
    <3> QED
      BY <3>1, <3>5
  <2> QED
    BY <2>4
<1> QED
  BY <1>2, <1>6, <1>7 DEF IsBatch

LEMMA BatchSound ==
    ASSUME NEW ch \in [Blocks -> Seq(Kinds)], NEW from \in Blocks, NEW to \in Blocks, from <= to,
           NEW l \in Sound
    PROVE  PlayBatch(ch, l, from, to) \in Sound
<1>1. PICK lo \in Nat : from = lo + 1 /\ lo < to
  <2>1. from - 1 \in Nat /\ from = (from - 1) + 1 /\ from - 1 < to
    BY ReplayAssumption DEF Blocks
  <2> QED
    BY <2>1
<1>2. PICK after : IsBatch(after, ch, l, lo, to)
  BY <1>1, BatchRuns
<1>3. after[to] \in Sound /\ to + 1 \in Nat /\ PlayBatch(ch, l, from, to) = Sweep(after[to], to + 1)
  BY <1>1, <1>2, ReplayAssumption DEF Blocks, IsBatch
<1> QED
  BY <1>3, SweepSound


LEMMA EmptySound == EmptyLedger \in Sound
<1>1. EmptyLedger \in Ledgers
  BY EmptySeq DEF EmptyLedger, Ledgers
<1>2. DOMAIN EmptyLedger.confirmed = {}
  BY DEF EmptyLedger
<1> QED
  BY <1>1, <1>2 DEF Sound, Single

\* Whoever writes, and however often a batch is replayed after a lost lock or
\* a lost answer, no operation is confirmed a second time.
THEOREM NothingConfirmedTwice == EngineSpec => []ConfirmedOnce
<1> DEFINE Inv == EngineControl /\ ledger \in Sound
<1>1. EngineInit => Inv
  BY EmptySound, EngineInitControl DEF EngineInit, ReplayInit
<1>2. Inv /\ [EngineNext]_engine => Inv'
  <2> SUFFICES ASSUME EngineControl, ledger \in Sound, [EngineNext]_engine
               PROVE  ledger' \in Sound
    BY EngineControlStep
  <2>1. ASSUME NEW p \in Procs, ProcStep(p) PROVE ledger' \in Sound
    <3>1. CASE UNCHANGED ledger
      BY <3>1
    <3>2. CASE WriteBatch(p) /\ 1 <= at[p] /\ at[p] <= upTo[p] /\ upTo[p] <= lib
      <4>1. ledger' = PlayBatch(chain, ledger, at[p], upTo[p])
        BY <3>2 DEF WriteBatch
      <4>2. /\ chain \in [Blocks -> Seq(Kinds)] /\ at[p] \in Nat /\ upTo[p] \in Nat
            /\ lib \in Nat /\ lib <= LastBlock
        BY ReplayAssumption DEF EngineControl, EngineShapes
      <4>3. at[p] \in Blocks /\ upTo[p] \in Blocks /\ at[p] <= upTo[p]
        BY <3>2, <4>2, ReplayAssumption DEF Blocks
      <4>4. PICK ch \in [Blocks -> Seq(Kinds)], a \in Blocks, u \in Blocks, l \in Sound :
                ch = chain /\ a = at[p] /\ u = upTo[p] /\ l = ledger
        BY <4>2, <4>3
      <4>5. PlayBatch(ch, l, a, u) \in Sound
        BY <4>3, <4>4, BatchSound
      <4> QED
        BY <4>1, <4>4, <4>5
    <3> QED
      BY <2>1, <3>1, <3>2, OnDatabase
  <2>2. CASE Finalize \/ UNCHANGED engine
    BY <2>2 DEF Finalize, database, engine
  <2> QED
    BY <2>1, <2>2, EngineSteps
<1>3. Inv => ConfirmedOnce
  BY DEF Sound, Single, ConfirmedOnce
<1> QED
  BY <1>1, <1>2, <1>3, PTL DEF EngineSpec

-----------------------------------------------------------------------------
(* The chain played in batches is the chain played block by block.          *)

LEMMA OneBlock ==
    ASSUME NEW ch \in [Blocks -> Seq(Kinds)], NEW b \in Blocks, NEW l \in Sound
    PROVE  /\ PlayBatch(ch, l, b, b) = Sweep(PlayBlock(l, ch[b], b), b + 1)
           /\ PlayBatch(ch, l, b, b) \in Sound
<1>1. PICK lo \in Nat : b = lo + 1 /\ lo < b
  <2>1. b - 1 \in Nat /\ b = (b - 1) + 1 /\ b - 1 < b
    BY ReplayAssumption DEF Blocks
  <2> QED
    BY <2>1
<1>2. PICK after : IsBatch(after, ch, l, lo, b)
  BY <1>1, BatchRuns
<1>3. /\ PlayBatch(ch, l, b, b) = Sweep(after[b], b + 1) /\ after[lo] = l
      /\ b \in (lo + 1)..b /\ b - 1 = lo
  BY <1>1, <1>2, ReplayAssumption DEF Blocks, IsBatch
<1>4. after[b] = PlayBlock(after[b - 1], ch[b], b)
  BY <1>2, <1>3 DEF IsBatch
<1>5. b <= b
  BY ReplayAssumption DEF Blocks
<1> QED
  BY <1>3, <1>4, <1>5, BatchSound

\* Each block of the replay starts from the one before it.
LEMMA CanonSteps ==
    ASSUME NEW ch \in [Blocks -> Seq(Kinds)]
    PROVE  /\ Canon(ch, 0) = EmptyLedger
           /\ \A n \in 0..LastBlock : Canon(ch, n) \in Sound
           /\ \A n \in Blocks : Canon(ch, n) = PlayBatch(ch, Canon(ch, n - 1), n, n)
<1> DEFINE G == [s \in Blocks \X Sound |-> PlayBatch(ch, s[2], s[1], s[1])]
<1>0. /\ LastBlock \in Nat /\ 0 <= LastBlock /\ 0 \in Nat /\ Blocks = (0 + 1)..LastBlock
      /\ Blocks \subseteq Nat
  BY ReplayAssumption DEF Blocks
<1>1. G \in [((0 + 1)..LastBlock) \X Sound -> Sound]
  <2>1. \A s \in Blocks \X Sound : PlayBatch(ch, s[2], s[1], s[1]) \in Sound
    <3> SUFFICES ASSUME NEW b \in Blocks, NEW x \in Sound PROVE PlayBatch(ch, x, b, b) \in Sound
      OBVIOUS
    <3> QED
      BY OneBlock
  <2> QED
    BY <1>0, <2>1
<1>2. PICK f \in [0..LastBlock -> Sound] :
          f[0] = EmptyLedger /\ \A n \in Blocks : f[n] = PlayBatch(ch, f[n - 1], n, n)
  <2>1. PICK g \in [((0 + 1)..LastBlock) \X Sound -> Sound] : g = G
    BY <1>1
  <2>2. PICK z \in Sound : z = EmptyLedger
    BY EmptySound
  <2>3. PICK f \in [0..LastBlock -> Sound] : Run(f, 0, LastBlock, z, g)
    BY <1>0, RunExists
  <2>4. ASSUME NEW n \in Blocks PROVE f[n] = PlayBatch(ch, f[n - 1], n, n)
    <3>1. n \in (0 + 1)..LastBlock /\ n - 1 \in 0..LastBlock
      BY <1>0
    <3>2. f[n] = g[<<n, f[n - 1]>>] /\ <<n, f[n - 1]>> \in Blocks \X Sound
      BY <2>3, <3>1 DEF Run
    <3> QED
      BY <2>1, <3>2
  <2>5. f[0] = EmptyLedger
    BY <2>2, <2>3 DEF Run
  <2> QED
    BY <2>4, <2>5
<1>3. ASSUME NEW n \in 0..LastBlock PROVE Canon(ch, n) = f[n]
  <2> DEFINE Eq(h) == h = [b \in 0..n |-> IF b = 0 THEN EmptyLedger ELSE PlayBatch(ch, h[b - 1], b, b)]
             A == CHOOSE h : Eq(h)
             k == [b \in 0..n |-> f[b]]
  <2>0. n \in Nat /\ n <= LastBlock
    BY <1>0
  <2>1. Canon(ch, n) = A[n]
    BY DEF Canon
  <2>2. ASSUME NEW b \in 0..n, b # 0 PROVE k[b] = PlayBatch(ch, k[b - 1], b, b)
    <3>1. b \in Blocks /\ b - 1 \in 0..n
      BY <1>0, <2>0, <2>2
    <3>2. f[b] = PlayBatch(ch, f[b - 1], b, b) /\ k[b] = f[b] /\ k[b - 1] = f[b - 1]
      BY <1>2, <3>1
    <3> QED
      BY <3>2
  <2>3. k[0] = EmptyLedger
    BY <1>2, <2>0
  <2>4. Eq(k)
    <3>1. k = [b \in 0..n |-> k[b]]
      OBVIOUS
    <3> HIDE DEF k
    <3> QED
      BY <2>2, <2>3, <3>1
  <2>5. Eq(A)
    BY <2>4, Zenon
  <2> HIDE DEF A
  <2>6. A[0] = EmptyLedger /\ \A b \in 0..n : b # 0 => A[b] = PlayBatch(ch, A[b - 1], b, b)
    BY <2>0, <2>5
  <2> DEFINE S == {m \in Nat : m <= n => A[m] = f[m]}
  <2>7. 0 \in S
    BY <1>2, <2>6
  <2>8. ASSUME NEW m \in Nat, m \in S PROVE m + 1 \in S
    <3> SUFFICES ASSUME m + 1 <= n PROVE A[m + 1] = f[m + 1]
      OBVIOUS
    <3>1. /\ A[m] = f[m] /\ m + 1 \in 0..n /\ m + 1 # 0 /\ m + 1 \in Blocks
          /\ (m + 1) - 1 = m
      BY <1>0, <2>0, <2>8
    <3>2. A[m + 1] = PlayBatch(ch, A[m], m + 1, m + 1)
      BY <2>6, <3>1
    <3>3. f[m + 1] = PlayBatch(ch, f[m], m + 1, m + 1)
      BY <1>2, <3>1
    <3> QED
      BY <3>1, <3>2, <3>3
  <2> HIDE DEF S
  <2>9. n \in S
    BY <2>0, <2>7, <2>8, SetInduction
  <2> QED
    BY <2>0, <2>1, <2>9 DEF S
<1>4. \A n \in Blocks : n \in 0..LastBlock /\ n - 1 \in 0..LastBlock
  BY <1>0
<1>5. 0 \in 0..LastBlock
  BY <1>0
<1> QED
  BY <1>2, <1>3, <1>4, <1>5

\* The sweep at the end of a block leaves nothing for the next one to sweep.
LEMMA CanonSwept ==
    ASSUME NEW ch \in [Blocks -> Seq(Kinds)], NEW c \in 0..LastBlock
    PROVE  Sweep(Canon(ch, c), c + 1) = Canon(ch, c)
<1>0. c \in Nat /\ LastBlock \in Nat /\ c <= LastBlock
  BY ReplayAssumption
<1>1. CASE c = 0
  BY <1>1, CanonSteps DEF EmptyLedger, Sweep
<1>2. CASE c # 0
  <2>1. c \in Blocks /\ c - 1 \in 0..LastBlock /\ c + 1 \in Nat
    BY <1>0, <1>2 DEF Blocks
  <2>2. PICK k \in Sound : k = Canon(ch, c - 1) /\ Canon(ch, c) = PlayBatch(ch, k, c, c)
    BY <2>1, CanonSteps
  <2>3. Canon(ch, c) = Sweep(PlayBlock(k, ch[c], c), c + 1)
    BY <2>1, <2>2, OneBlock
  <2>4. PICK x \in Sound : x = PlayBlock(k, ch[c], c)
    BY <1>0, <2>1, BlockSound
  <2> QED
    BY <2>1, <2>3, <2>4, SweepSound
<1> QED
  BY <1>1, <1>2

\* A batch takes the replay up to one block to the replay up to another.
LEMMA BatchIsCanon ==
    ASSUME NEW ch \in [Blocks -> Seq(Kinds)], NEW c \in 0..LastBlock, NEW n \in Blocks, c < n
    PROVE  PlayBatch(ch, Canon(ch, c), c + 1, n) = Canon(ch, n)
<1>0. c \in Nat /\ n \in Nat /\ LastBlock \in Nat /\ n <= LastBlock
  BY ReplayAssumption DEF Blocks
<1>1. PICK l \in Sound : l = Canon(ch, c)
  BY CanonSteps
<1>2. PICK after : IsBatch(after, ch, l, c, n)
  BY <1>0, BatchRuns
<1> DEFINE S == {m \in Nat : c + m <= n => Sweep(after[c + m], (c + m) + 1) = Canon(ch, c + m)}
<1>3. 0 \in S
  <2>1. after[c] = l /\ c + 0 = c
    BY <1>0, <1>2 DEF IsBatch
  <2> QED
    BY <1>1, <2>1, CanonSwept
<1>4. ASSUME NEW m \in Nat, m \in S PROVE m + 1 \in S
  <2> SUFFICES ASSUME c + (m + 1) <= n
               PROVE  Sweep(after[c + (m + 1)], (c + (m + 1)) + 1) = Canon(ch, c + (m + 1))
    OBVIOUS
  <2>1. PICK b \in Nat : b = c + m
    BY <1>0
  <2>2. PICK d \in Nat : d = b + 1
    OBVIOUS
  <2>3. /\ d = c + (m + 1) /\ b \in c..n /\ d \in (c + 1)..n /\ d \in Blocks /\ d - 1 = b
        /\ b \in 0..LastBlock
    BY <1>0, <2>1, <2>2 DEF Blocks
  <2>4. after[b] \in Sound /\ after[d] = PlayBlock(after[b], ch[d], d)
    BY <1>2, <2>3 DEF IsBatch
  <2>5. PICK x \in Sound : x = after[b]
    BY <2>4
  <2>6. Sweep(x, d) = Canon(ch, b)
    BY <1>4, <2>1, <2>2, <2>3, <2>5
  <2>7. PICK y \in Sound : y = Canon(ch, b)
    BY <2>3, CanonSteps
  <2>8. Canon(ch, d) = Sweep(PlayBlock(y, ch[d], d), d + 1)
    <3>1. Canon(ch, d) = PlayBatch(ch, y, d, d)
      BY <2>3, <2>7, CanonSteps
    <3> QED
      BY <2>3, <3>1, OneBlock
  <2>9. Sweep(PlayBlock(Sweep(x, d), ch[d], d), d + 1) = Sweep(PlayBlock(x, ch[d], d), d + 1)
    <3>1. ch[d] \in Seq(Kinds)
      BY <2>3
    <3> QED
      BY <3>1, BlockSound
  <2> QED
    BY <2>3, <2>4, <2>5, <2>6, <2>7, <2>8, <2>9
<1> HIDE DEF S
<1>5. n - c \in S /\ c + (n - c) = n
  <2>1. n - c \in Nat /\ c + (n - c) = n
    BY <1>0
  <2> QED
    BY <1>3, <1>4, <2>1, SetInduction
<1>6. Sweep(after[n], n + 1) = Canon(ch, n)
  BY <1>0, <1>5 DEF S
<1> QED
  BY <1>1, <1>2, <1>6 DEF IsBatch

-----------------------------------------------------------------------------
(* The database implements the replay as long as no session of the HA lock  *)
(* ends under a process that goes on: no connection of it is dropped, and   *)
(* no process is stopped in the middle of a batch.  Whoever is past the     *)
(* lock then has it, and what it knows of the cursor is not out of date.    *)

Sole(p) ==
    /\ running[p] /\ (held[p] <=> haLock = p)
    /\ pc[p] # "lock" => haLock = p
    /\ pc[p] \in Steps \ {"lock", "cursor"} => at[p] = cursor + 1

Replayed ==
    /\ ledger = Canon(chain, cursor)
    /\ DOMAIN roots = Blocks
    /\ \A b \in Blocks : b > cursor => roots[b] = NoRoot

Orderly == EngineControl /\ (\A p \in Procs : Sole(p)) /\ Replayed

LEMMA OrderlyInit == EngineInit => Orderly
<1> SUFFICES ASSUME EngineInit PROVE Orderly
  OBVIOUS
<1>1. EngineControl
  BY EngineInitControl
<1>2. ASSUME NEW p \in Procs PROVE Sole(p)
  BY EngineAssumption DEF EngineInit, Sole
<1>3. Replayed
  <2>1. /\ ledger = EmptyLedger /\ cursor = 0 /\ roots = [b \in Blocks |-> NoRoot]
        /\ chain \in [Blocks -> Seq(Kinds)]
    BY ReplayAssumption DEF EngineInit, ReplayInit
  <2> QED
    BY <2>1, CanonSteps DEF Replayed
<1> QED
  BY <1>1, <1>2, <1>3 DEF Orderly

\* A batch written by a process that knows the cursor advances the replay.
LEMMA WritesAdvance ==
    ASSUME Orderly, NEW p \in Procs, pc[p] = "write", WriteBatch(p)
    PROVE  /\ \E to \in (cursor + 1)..LastBlock : Advance(to)
           /\ cursor' = upTo[p]
           /\ Replayed'
<1>1. /\ chain \in [Blocks -> Seq(Kinds)] /\ cursor \in Nat /\ lib \in Nat /\ lib <= LastBlock
      /\ at[p] \in Nat /\ upTo[p] \in Nat /\ target[p] \in Nat /\ Placed(p) /\ LastBlock \in Nat
  BY ReplayAssumption DEF Orderly, EngineControl, EngineShapes
<1>2. at[p] = cursor + 1
  BY DEF Orderly, Sole, Steps
<1>3. PICK to \in Nat : to = upTo[p]
  BY <1>1
<1>4. /\ to \in Blocks /\ cursor < to /\ to \in (cursor + 1)..LastBlock /\ cursor \in 0..LastBlock
  <2>1. /\ at[p] <= upTo[p] /\ upTo[p] <= target[p] /\ target[p] <= lib
    BY <1>1 DEF Placed
  <2>2. cursor + 1 <= to /\ to <= LastBlock
    BY <1>1, <1>2, <1>3, <2>1
  <2> QED
    BY <1>1, <1>3, <2>2 DEF Blocks
<1>5. PlayBatch(chain, ledger, at[p], to) = Canon(chain, to)
  <2>1. PICK ch \in [Blocks -> Seq(Kinds)], c \in 0..LastBlock : ch = chain /\ c = cursor
    BY <1>1, <1>4
  <2>2. PlayBatch(ch, Canon(ch, c), c + 1, to) = Canon(ch, to)
    BY <1>4, <2>1, BatchIsCanon
  <2> QED
    BY <1>2, <2>1, <2>2 DEF Orderly, Replayed
<1>6. DOMAIN roots = Blocks /\ \A b \in Blocks : b > cursor => roots[b] = NoRoot
  BY DEF Orderly, Replayed
<1>7. /\ cursor' = to /\ ledger' = Canon(chain, to) /\ chain' = chain
      /\ roots' = IF to % Every = 0 THEN [roots EXCEPT ![to] = Canon(chain, to)] ELSE roots
  <2>1. roots[to] = NoRoot
    BY <1>1, <1>4, <1>6
  <2>2. UpdatedCursor(to) = to
    BY <1>1, <1>4 DEF UpdatedCursor, Larger
  <2> QED
    BY <1>3, <1>5, <2>1, <2>2 DEF WriteBatch
<1>8. Replayed'
  <2>1. ledger' = Canon(chain', cursor')
    BY <1>7
  <2>2. DOMAIN roots' = Blocks
    BY <1>6, <1>7
  <2>3. ASSUME NEW b \in Blocks, b > to PROVE roots'[b] = NoRoot
    <3>1. b # to /\ b > cursor
      BY <1>1, <1>4, <2>3 DEF Blocks
    <3> QED
      BY <1>6, <1>7, <3>1
  <2> QED
    BY <1>7, <2>1, <2>2, <2>3 DEF Replayed
<1> QED
  BY <1>3, <1>4, <1>7, <1>8 DEF Advance

LEMMA OnReplay ==
    ASSUME Orderly, [EngineNext]_engine
    PROVE  [ReplayNext]_replay /\ Replayed'
<1>1. CASE UNCHANGED <<chain, cursor, ledger, roots>>
  BY <1>1 DEF replay, Orderly, Replayed
<1>2. ASSUME NEW p \in Procs, pc[p] = "write", WriteBatch(p)
      PROVE  [ReplayNext]_replay /\ Replayed'
  BY <1>2, WritesAdvance DEF ReplayNext
<1>3. CASE Finalize \/ UNCHANGED engine
  BY <1>1, <1>3 DEF Finalize, database, engine
<1>4. ASSUME NEW p \in Procs, ProcStep(p)
      PROVE  [ReplayNext]_replay /\ Replayed'
  BY <1>1, <1>2, <1>4, OnDatabase DEF Orderly
<1> QED
  BY <1>3, <1>4, EngineSteps

LEMMA SoleStep ==
    ASSUME Orderly, NEW p \in Procs, ProcStep(p), "stop" \notin Faults, "drop" \notin Faults
    PROVE  \A q \in Procs : Sole(q)'
<1>0. /\ \A q \in Procs : Sole(q) /\ q # NoProc
      /\ EngineShapes /\ cursor \in Nat
      /\ pc \in [Procs -> Steps] /\ at \in [Procs -> Nat] /\ target \in [Procs -> Nat]
      /\ upTo \in [Procs -> Nat] /\ held \in [Procs -> BOOLEAN] /\ running \in [Procs -> BOOLEAN]
      /\ \A q \in Procs \ {p} : /\ pc'[q] = pc[q] /\ at'[q] = at[q]
                                /\ held'[q] = held[q] /\ running'[q] = running[q]
  BY OthersStay, EngineAssumption DEF Orderly, EngineControl, EngineShapes
<1>1. CASE UNCHANGED <<haLock, cursor>>
  <2>1. ASSUME NEW q \in Procs \ {p} PROVE Sole(q)'
    BY <1>0, <1>1 DEF Sole
  <2>2. Sole(p)'
    <3> USE <1>0, <1>1 DEF Sole, Steps, Goto, database, cycle
    <3>1. CASE Step(p)
      BY <3>1 DEF Step, Acquire, ReadCursor, ResumeAt, Check, Verify, Begin
    <3>2. CASE NoticeLoss(p) \/ Exit(p)
      BY <3>2 DEF NoticeLoss, Exit
    <3>3. CASE \E irr \in Reports : Cycle(p, irr)
      <4>1. /\ pc[p] = "head" /\ pc'[p] \in {"check", "cursor"} /\ UNCHANGED <<held, running, at>>
        BY <3>3 DEF Cycle
      <4> QED
        BY <4>1
    <3>4. CASE NoHead(p) \/ FetchFails(p) \/ Abort(p) \/ Fetch(p)
      BY <3>4 DEF NoHead, FetchFails, Abort, Fetch
    <3>5. CASE LoseLock(p) \/ Stop(p)
      BY <3>5 DEF LoseLock, Stop, Fault
    <3>6. CASE Crash(p)
      <4>1. pc'[p] = "lock" /\ held'[p] = FALSE /\ running'[p] = TRUE /\ haLock' # p
        BY <3>6 DEF Crash, Fresh, FreeLockOf
      <4> QED
        BY <4>1
    <3>7. CASE Commit(p) \/ CommitUnseen(p)
      <4>1. pc[p] = "write" /\ WriteBatch(p)
        BY <3>7 DEF Commit, CommitUnseen
      <4>2. cursor' = upTo[p]
        BY <4>1, WritesAdvance
      <4>3. /\ UNCHANGED <<held, running>> /\ pc'[p] \in {"check", "cursor"}
            /\ pc'[p] = "check" => at'[p] = upTo[p] + 1
        BY <3>7 DEF Commit, CommitUnseen
      <4> QED
        BY <4>1, <4>2, <4>3
    <3> QED
      BY <3>1, <3>2, <3>3, <3>4, <3>5, <3>6, <3>7 DEF ProcStep
  <2> QED
    BY <2>1, <2>2
<1>2. CASE Acquire(p) /\ haLock' # haLock
  <2>1. /\ haLock = NoProc /\ haLock' = p /\ held'[p] /\ pc'[p] = "cursor" /\ UNCHANGED <<cursor, running>>
    BY <1>0, <1>2 DEF Acquire, Goto, database
  <2>2. ASSUME NEW q \in Procs \ {p} PROVE Sole(q)'
    BY <1>0, <2>1 DEF Sole
  <2>3. Sole(p)'
    BY <1>0, <2>1 DEF Sole
  <2> QED
    BY <2>2, <2>3
<1>3. CASE Crash(p)
  <2>1. /\ pc'[p] = "lock" /\ held'[p] = FALSE /\ running'[p] = TRUE /\ haLock' # p
        /\ cursor' = cursor /\ haLock' = IF haLock = p THEN NoProc ELSE haLock
    BY <1>0, <1>3 DEF Crash, Fresh, FreeLockOf, Goto, database
  <2>2. ASSUME NEW q \in Procs \ {p} PROVE Sole(q)'
    BY <1>0, <2>1 DEF Sole
  <2>3. Sole(p)'
    BY <2>1 DEF Sole
  <2> QED
    BY <2>2, <2>3
<1>4. CASE Commit(p) \/ CommitUnseen(p)
  <2>1. /\ pc[p] = "write" /\ WriteBatch(p) /\ haLock' = haLock /\ haLock = p
        /\ UNCHANGED <<held, running>> /\ pc'[p] \in {"check", "cursor"}
        /\ pc'[p] = "check" => at'[p] = upTo[p] + 1
    BY <1>0, <1>4 DEF Commit, CommitUnseen, Goto, Sole
  <2>2. cursor' = upTo[p]
    BY <2>1, WritesAdvance
  <2>3. ASSUME NEW q \in Procs \ {p} PROVE Sole(q)'
    BY <1>0, <2>1 DEF Sole
  <2>4. Sole(p)'
    BY <1>0, <2>1, <2>2 DEF Sole
  <2> QED
    BY <2>3, <2>4
<1>5. \/ UNCHANGED <<haLock, cursor>> \/ (Acquire(p) /\ haLock' # haLock) \/ Crash(p)
      \/ Commit(p) \/ CommitUnseen(p)
  <2> USE DEF database, cycle
  <2>1. CASE Step(p)
    BY <2>1 DEF Step, Acquire, ReadCursor, Check, Verify, Begin
  <2>2. CASE NoticeLoss(p) \/ Exit(p) \/ NoHead(p) \/ FetchFails(p) \/ Abort(p) \/ Fetch(p)
    BY <2>2 DEF NoticeLoss, Exit, NoHead, FetchFails, Abort, Fetch
  <2>3. CASE \E irr \in Reports : Cycle(p, irr)
    BY <2>3 DEF Cycle
  <2>4. CASE LoseLock(p) \/ Stop(p)
    BY <2>4 DEF LoseLock, Stop, Fault
  <2> QED
    BY <2>1, <2>2, <2>3, <2>4 DEF ProcStep
<1> QED
  BY <1>1, <1>2, <1>3, <1>4, <1>5

LEMMA OrderlyStep ==
    ASSUME "stop" \notin Faults, "drop" \notin Faults
    PROVE  Orderly /\ [EngineNext]_engine => Orderly'
<1> SUFFICES ASSUME Orderly, [EngineNext]_engine PROVE Orderly'
  OBVIOUS
<1>1. EngineControl' /\ Replayed'
  BY EngineControlStep, OnReplay DEF Orderly
<1>2. \A q \in Procs : Sole(q)'
  <2>1. ASSUME NEW p \in Procs, ProcStep(p) PROVE \A q \in Procs : Sole(q)'
    BY <2>1, SoleStep
  <2>2. CASE Finalize \/ UNCHANGED engine
    <3>1. UNCHANGED <<running, held, haLock, pc, at, cursor>>
      BY <2>2 DEF Finalize, database, cycle, engine
    <3> QED
      BY <3>1 DEF Orderly, Sole
  <2> QED
    BY <2>1, <2>2, EngineSteps
<1> QED
  BY <1>1, <1>2 DEF Orderly

\* Whatever processes crash, fetches fail and answers are lost, and wherever
\* the chain is cut into batches: as long as no lock is lost while its process
\* goes on, the database is the replay of the chain up to its cursor, and the
\* recorded roots are those of that replay.
THEOREM EngineReplaysChain ==
    ASSUME "stop" \notin Faults, "drop" \notin Faults
    PROVE  EngineSpec => ImplementsReplay
<1>1. EngineInit => ReplayInit
  BY DEF EngineInit
<1>2. Orderly /\ [EngineNext]_engine => [ReplayNext]_replay
  BY OnReplay
<1> QED
  BY <1>1, <1>2, OrderlyInit, OrderlyStep, PTL DEF EngineSpec, ImplementsReplay, ReplaySpec

\* What sync-lock.ts says of the write fence, that it leaves no divergence
\* window, is so as long as no lock is lost by a process that goes on and none
\* is told to stop: whatever crashes, fails or is answered in vain, the ledger is
\* the replay of the chain up to the cursor.
THEOREM NoWindowUnlessLockLost ==
    ASSUME "stop" \notin Faults, "drop" \notin Faults
    PROVE  EngineSpec => []NoDivergence
<1>1. Orderly => NoDivergence
  BY DEF Orderly, Replayed, NoDivergence
<1> QED
  BY <1>1, OrderlyInit, OrderlyStep, PTL DEF EngineSpec

LEMMA ReplayMovesByBlock == ReplaySpec => MovesByBlock
<1> DEFINE Inv == cursor \in Nat
<1>1. ReplayInit => Inv /\ ByBlock!BatchInit
  <2> SUFFICES ASSUME ReplayInit PROVE Inv /\ ByBlock!BatchInit
    OBVIOUS
  <2>1. chain \in [Blocks -> Seq(Kinds)]
    BY ReplayAssumption DEF ReplayInit
  <2>2. Canon(chain, 0) = EmptyLedger
    BY <2>1, CanonSteps
  <2> QED
    BY <2>2 DEF ReplayInit, ByBlock!BatchInit
<1>2. Inv /\ [ReplayNext]_replay => Inv' /\ [ByBlock!BatchNext]_(ByBlock!batches)
  <2> SUFFICES ASSUME Inv, [ReplayNext]_replay
               PROVE  Inv' /\ [ByBlock!BatchNext]_(ByBlock!batches)
    OBVIOUS
  <2>1. ASSUME NEW to \in (cursor + 1)..LastBlock, Advance(to)
        PROVE  Inv' /\ ByBlock!BatchNext
    <3>1. to \in Blocks /\ to > cursor /\ to \in Nat
      BY ReplayAssumption DEF Blocks
    <3>2. ByBlock!CommitUpTo(to)
      BY <2>1, <3>1 DEF Advance, ByBlock!CommitUpTo
    <3> QED
      BY <2>1, <3>1, <3>2 DEF Advance, ByBlock!BatchNext, EveryBlock
  <2>2. CASE UNCHANGED replay
    BY <2>2 DEF replay, ByBlock!batches
  <2> QED
    BY <2>1, <2>2 DEF ReplayNext
<1> QED
  BY <1>1, <1>2, PTL DEF ReplaySpec, MovesByBlock, ByBlock!BatchSpec

\* As the router does for the operations of a batch, the engine implements
\* BatchReplay for its blocks: what a reader sees of a chain being indexed by
\* any number of processes goes from the replay of one prefix straight to that
\* of a longer one.
THEOREM EngineMovesByBlock ==
    ASSUME "stop" \notin Faults, "drop" \notin Faults
    PROVE  EngineSpec => MovesByBlock
  BY EngineReplaysChain, ReplayMovesByBlock DEF ImplementsReplay

-----------------------------------------------------------------------------
(* The settlement daemon: what it has broadcast, and where it goes on.      *)

Recorded ==
    /\ indexed \in Nat /\ cursorRow \in Nat
    /\ snapshots \subseteq Nat
    /\ \A b \in snapshots : 0 < b /\ b <= indexed
    /\ sent \in Seq(Nat)

\* The broadcasts so far follow one another as CheckpointsInOrder says.
InOrder ==
    /\ \A i \in 1..Len(sent) : sent[i] \in snapshots
    /\ \A i \in 1..(Len(sent) - 1) :
        /\ sent[i] <= sent[i + 1]
        /\ \A b \in snapshots : ~(sent[i] < b /\ b < sent[i + 1])
    /\ Len(sent) > 0 => \A b \in snapshots : sent[1] <= b

\* The cursor that survives a crash stands at the last broadcast or at the one
\* before it, and memory agrees with it as long as the process is up.
GoesOnAt ==
    /\ alive => emitted = cursorRow
    /\ step = "sent" => alive /\ Len(sent) > 0 /\ cursorRow < sent[Len(sent)]
    /\ Len(sent) = 0 => cursorRow = 0
    /\ Len(sent) > 0 =>
        /\ cursorRow <= sent[Len(sent)]
        /\ \A b \in snapshots : b > cursorRow => b >= sent[Len(sent)]

DaemonControl == Recorded /\ InOrder /\ GoesOnAt

LEMMA DaemonInitControl == DaemonInit => DaemonControl
<1> SUFFICES ASSUME DaemonInit PROVE DaemonControl
  OBVIOUS
<1>1. sent \in Seq(Nat) /\ Len(sent) = 0
  BY EmptySeq DEF DaemonInit
<1> QED
  BY <1>1 DEF DaemonInit, DaemonControl, Recorded, InOrder, GoesOnAt

\* What the next broadcast is: the lowest boundary the cursor has not passed.
LEMMA NextIsLowest ==
    ASSUME DaemonControl, alive, Unpublished # {}
    PROVE  /\ NextPending \in snapshots /\ NextPending \in Nat /\ cursorRow < NextPending
           /\ \A b \in snapshots : b > cursorRow => NextPending <= b
<1>1. Unpublished \in SUBSET Nat /\ Unpublished = {b \in snapshots : b > cursorRow}
  BY DEF Unpublished, DaemonControl, Recorded, GoesOnAt
<1>2. NextPending \in Unpublished /\ \A n \in Unpublished : NextPending <= n
  BY <1>1, LowestOf DEF NextPending
<1> QED
  BY <1>1, <1>2

LEMMA PublishKeepsOrder == DaemonControl /\ Publish => DaemonControl'
<1> SUFFICES ASSUME DaemonControl, Publish PROVE DaemonControl'
  OBVIOUS
<1>1. /\ Recorded /\ InOrder /\ GoesOnAt
  BY DEF DaemonControl
<1>2. /\ alive /\ emitted = cursorRow /\ Unpublished # {} /\ sent' = Append(sent, NextPending)
      /\ step' = "sent" /\ UNCHANGED <<indexed, cursorRow, snapshots, alive, emitted>>
  BY <1>1 DEF Publish, GoesOnAt
<1>3. PICK m \in Nat : m = NextPending /\ m \in snapshots /\ cursorRow < m
                       /\ \A b \in snapshots : b > cursorRow => m <= b
  BY <1>2, NextIsLowest
<1>4. PICK s \in Seq(Nat) : s = sent
  BY <1>1 DEF Recorded
<1>5. PICK n \in Nat : n = Len(s)
  BY LenProperties
<1>6. /\ sent' \in Seq(Nat) /\ Len(sent') = n + 1 /\ sent'[n + 1] = m
      /\ \A i \in 1..n : sent'[i] = s[i]
  BY <1>2, <1>3, <1>4, <1>5, AppendProperties
<1>7. /\ \A i \in 1..n : s[i] \in snapshots /\ s[i] \in Nat
      /\ \A i \in 1..(n - 1) : /\ s[i] <= s[i + 1]
                               /\ \A b \in snapshots : ~(s[i] < b /\ b < s[i + 1])
      /\ n > 0 => \A b \in snapshots : s[1] <= b
      /\ n = 0 => cursorRow = 0
      /\ n > 0 => cursorRow <= s[n] /\ \A b \in snapshots : b > cursorRow => b >= s[n]
  BY <1>1, <1>4, <1>5, ElementOfSeq DEF InOrder, GoesOnAt
<1>8. \A b \in snapshots : b \in Nat /\ 0 < b
  BY <1>1 DEF Recorded
<1>9. cursorRow \in Nat
  BY <1>1 DEF Recorded
<1>10. InOrder'
  <2>1. \A i \in 1..(n + 1) : sent'[i] \in snapshots
    <3>1. \A i \in 1..(n + 1) : i \in 1..n \/ i = n + 1
      OBVIOUS
    <3> QED
      BY <1>3, <1>6, <1>7, <3>1
  <2>2. ASSUME NEW i \in 1..n
        PROVE  /\ sent'[i] <= sent'[i + 1]
               /\ \A b \in snapshots : ~(sent'[i] < b /\ b < sent'[i + 1])
    <3>1. CASE i = n
      <4>1. sent'[i] = s[n] /\ sent'[i + 1] = m /\ n > 0
        BY <1>6, <3>1
      <4>2. s[n] \in Nat /\ cursorRow <= s[n] /\ s[n] <= m
        BY <1>3, <1>7, <4>1
      <4>3. ASSUME NEW b \in snapshots, s[n] < b PROVE ~(b < m)
        BY <1>3, <1>8, <1>9, <4>2, <4>3
      <4> QED
        BY <4>1, <4>2, <4>3
    <3>2. CASE i # n
      <4>1. i \in 1..(n - 1) /\ i + 1 \in 1..n
        BY <3>2
      <4>2. sent'[i] = s[i] /\ sent'[i + 1] = s[i + 1]
        BY <1>6, <4>1
      <4> QED
        BY <1>7, <4>1, <4>2
    <3> QED
      BY <3>1, <3>2
  <2>3. \A b \in snapshots : sent'[1] <= b
    <3>1. CASE n = 0
      BY <1>3, <1>6, <1>7, <1>8, <3>1
    <3>2. CASE n > 0
      <4>1. sent'[1] = s[1]
        BY <1>6, <3>2
      <4> QED
        BY <1>7, <3>2, <4>1
    <3> QED
      BY <3>1, <3>2
  <2>4. (n + 1) - 1 = n
    OBVIOUS
  <2> QED
    BY <1>2, <1>6, <2>1, <2>2, <2>3, <2>4 DEF InOrder
<1>11. GoesOnAt'
  <2>1. Len(sent') > 0 /\ sent'[Len(sent')] = m
    BY <1>6
  <2>2. \A b \in snapshots : b > cursorRow => b >= m
    BY <1>3, <1>8
  <2>3. cursorRow < m /\ cursorRow <= m
    BY <1>3, <1>9
  <2> QED
    BY <1>2, <2>1, <2>2, <2>3 DEF GoesOnAt
<1>12. Recorded'
  BY <1>1, <1>2, <1>6 DEF Recorded
<1> QED
  BY <1>10, <1>11, <1>12 DEF DaemonControl

LEMMA DaemonControlStep == DaemonControl /\ [DaemonNext]_daemonVars => DaemonControl'
<1> SUFFICES ASSUME DaemonControl, [DaemonNext]_daemonVars PROVE DaemonControl'
  OBVIOUS
<1>0. Recorded /\ InOrder /\ GoesOnAt
  BY DEF DaemonControl
<1>1. CASE UNCHANGED <<indexed, snapshots, alive, step, emitted, cursorRow, sent>>
  BY <1>0, <1>1 DEF DaemonControl, Recorded, InOrder, GoesOnAt
<1>2. ASSUME NEW block \in 1..MaxBlock, IndexTo(block) PROVE DaemonControl'
  <2>1. /\ block \in Nat /\ indexed < block /\ indexed' = block
        /\ snapshots' \subseteq snapshots \cup {block} /\ snapshots \subseteq snapshots'
        /\ UNCHANGED <<alive, step, emitted, cursorRow, sent>>
    BY <1>2, DaemonAssumption DEF IndexTo
  <2>2. \A b \in snapshots' : b \in snapshots \/ b = block
    BY <2>1
  <2>3. Recorded'
    BY <1>0, <2>1, <2>2 DEF Recorded
  <2>4. \A i \in 1..Len(sent) : sent[i] \in snapshots /\ sent[i] \in Nat /\ sent[i] < block
    BY <1>0, <2>1, ElementOfSeq DEF Recorded, InOrder
  <2>5. Len(sent) \in Nat
    BY <1>0, LenProperties DEF Recorded
  <2>6. InOrder'
    <3>1. ASSUME NEW i \in 1..(Len(sent) - 1), NEW b \in snapshots'
          PROVE  ~(sent[i] < b /\ b < sent[i + 1])
      <4>1. i + 1 \in 1..Len(sent)
        BY <2>5
      <4>2. sent[i + 1] < block /\ sent[i + 1] \in Nat
        BY <2>4, <4>1
      <4>3. CASE b \in snapshots
        BY <1>0, <4>3 DEF InOrder
      <4>4. CASE b = block
        BY <2>1, <4>2, <4>4
      <4> QED
        BY <2>2, <4>3, <4>4
    <3>2. ASSUME Len(sent) > 0, NEW b \in snapshots' PROVE sent[1] <= b
      <4>1. 1 \in 1..Len(sent)
        BY <2>5, <3>2
      <4>2. sent[1] < block /\ sent[1] \in Nat
        BY <2>4, <4>1
      <4> QED
        BY <1>0, <2>1, <2>2, <3>2, <4>2 DEF InOrder
    <3>3. \A i \in 1..(Len(sent) - 1) : sent[i] <= sent[i + 1]
      BY <1>0 DEF InOrder
    <3>4. \A i \in 1..Len(sent) : sent[i] \in snapshots'
      BY <2>1, <2>4
    <3> QED
      BY <2>1, <3>1, <3>2, <3>3, <3>4 DEF InOrder
  <2>7. GoesOnAt'
    <3>1. ASSUME Len(sent) > 0, NEW b \in snapshots', b > cursorRow PROVE b >= sent[Len(sent)]
      <4>1. Len(sent) \in 1..Len(sent)
        BY <2>5, <3>1
      <4>2. sent[Len(sent)] < block /\ sent[Len(sent)] \in Nat
        BY <2>4, <4>1
      <4>3. CASE b \in snapshots
        BY <1>0, <3>1, <4>3 DEF GoesOnAt
      <4>4. CASE b = block
        BY <2>1, <4>2, <4>4
      <4> QED
        BY <2>2, <4>3, <4>4
    <3> QED
      BY <1>0, <2>1, <3>1 DEF GoesOnAt
  <2> QED
    BY <2>3, <2>6, <2>7 DEF DaemonControl
<1>3. CASE Publish
  BY <1>3, PublishKeepsOrder
<1>4. CASE Persist
  <2>1. /\ alive /\ step = "sent" /\ emitted = cursorRow /\ Len(sent) > 0 /\ Len(sent) \in Nat
        /\ cursorRow < sent[Len(sent)] /\ cursorRow \in Nat
        /\ UNCHANGED <<indexed, snapshots, alive, sent>>
        /\ cursorRow' = NextPending /\ emitted' = NextPending /\ step' = "asleep"
    BY <1>0, <1>4, LenProperties DEF Persist, GoesOnAt, Recorded
  <2>2. PICK k \in Nat : k = sent[Len(sent)] /\ k \in snapshots
    <3>1. Len(sent) \in 1..Len(sent)
      BY <2>1
    <3> QED
      BY <1>0, <3>1, ElementOfSeq DEF InOrder, Recorded
  <2>3. Unpublished # {}
    BY <2>1, <2>2 DEF Unpublished
  <2>4. PICK m \in Nat : /\ m = NextPending /\ m \in snapshots /\ cursorRow < m
                         /\ \A b \in snapshots : b > cursorRow => m <= b
    BY <2>1, <2>3, NextIsLowest
  <2>5. m = k
    <3>1. m <= k
      BY <2>1, <2>2, <2>4
    <3>2. k <= m
      BY <1>0, <2>1, <2>2, <2>4 DEF GoesOnAt
    <3> QED
      BY <3>1, <3>2
  <2>6. Recorded'
    BY <1>0, <2>1, <2>4 DEF Recorded
  <2>7. InOrder'
    BY <1>0, <2>1 DEF InOrder
  <2>8. GoesOnAt'
    <3>1. \A b \in snapshots : b > k => b >= k
      BY <1>0 DEF Recorded
    <3> QED
      BY <2>1, <2>2, <2>4, <2>5, <3>1 DEF GoesOnAt
  <2> QED
    BY <2>6, <2>7, <2>8 DEF DaemonControl
<1>5. CASE NothingToPublish \/ PublishFails \/ PersistFails \/ Tick
  <2>1. UNCHANGED <<indexed, snapshots, alive, emitted, cursorRow, sent>> /\ step' # "sent"
    BY <1>5 DEF NothingToPublish, PublishFails, PersistFails, Tick
  <2> QED
    BY <1>0, <2>1 DEF DaemonControl, Recorded, InOrder, GoesOnAt
<1>6. CASE DaemonCrash
  BY <1>0, <1>6 DEF DaemonCrash, DaemonControl, Recorded, InOrder, GoesOnAt
<1>7. CASE Restart
  BY <1>0, <1>7 DEF Restart, ResumeCursor, DaemonControl, Recorded, InOrder, GoesOnAt
<1>8. CASE NewBlock \/ TickFails \/ (\E tx \in air : Include(tx) \/ Expire(tx))
  BY <1>1, <1>8 DEF NewBlock, TickFails, Include, Expire
<1>9. CASE UNCHANGED daemonVars
  BY <1>1, <1>9 DEF daemonVars
<1> QED
  BY <1>2, <1>3, <1>4, <1>5, <1>6, <1>7, <1>8, <1>9 DEF DaemonNext

\* Whatever crashes between a broadcast and its record, and whatever calls
\* fail: checkpoints go out in the order of their boundaries, none that was
\* recorded is passed over, and only the last one is ever sent again.
THEOREM CheckpointsFollow == DaemonSpec => []CheckpointsInOrder
<1>1. DaemonControl => CheckpointsInOrder
  <2> SUFFICES ASSUME DaemonControl PROVE CheckpointsInOrder
    OBVIOUS
  <2>1. /\ Recorded /\ InOrder /\ GoesOnAt /\ Len(sent) \in Nat
        /\ sent # <<>> => Len(sent) > 0
    <3>1. sent # <<>> => Len(sent) # 0
      BY EmptySeq DEF DaemonControl, Recorded
    <3> QED
      BY <3>1, LenProperties DEF DaemonControl, Recorded
  <2>2. sent # <<>> => \A b \in Unpublished : alive => b >= Last(sent)
    BY <2>1 DEF GoesOnAt, Unpublished, Last
  <2> QED
    BY <2>1, <2>2 DEF InOrder, CheckpointsInOrder
<1> QED
  BY <1>1, DaemonInitControl, DaemonControlStep, PTL DEF DaemonSpec

-----------------------------------------------------------------------------
(* Heartbeats: why a healthy node never counts as silent.                   *)

Latest == LastBeat(head)

\* The heartbeats that were broadcast and are in no block yet.
Aloft == {tx \in air : tx.kind = "beat"}

Spell == Interval + PollEvery

Beat(block) == [kind |-> "beat", block |-> block, sent |-> block]

\* What became of the heartbeat sent last: a block took it; it is on its way, less
\* than a spell after the last one that was taken; it was refused; or it is the one
\* after a refused one, on its way too late to be refused again.
Taken == Aloft = {} /\ beatAt <= Latest /\ Latest <= beatAt + MaxDelay
Coming == Aloft # {} /\ Latest <= beatAt /\ beatAt < Latest + Spell
Refused == missed # 0 /\ Aloft = {} /\ Latest <= beatAt /\ beatAt <= Latest + Interval - 2
Again == /\ missed # 0 /\ Aloft # {}
         /\ Latest + Interval <= beatAt /\ beatAt <= Latest + Interval + Spell - 3

\* While nothing goes wrong: polls do not lag, each sends the heartbeat that is
\* due, and never are two on their way at once.
Beating ==
    /\ alive /\ beatAt \in Nat
    /\ polled <= head /\ head <= polled + PollEvery
    /\ beatAt <= polled /\ polled < beatAt + Interval
    /\ Aloft \subseteq {Beat(beatAt)} /\ (Aloft # {} => head <= beatAt + MaxDelay)
    /\ Taken \/ Coming \/ Refused \/ Again

Timed ==
    /\ head \in Nat /\ polled \in Nat /\ missed \in Nat /\ misfortunes \in Nat
    /\ \A b \in beats : b \in Nat /\ b <= head
    /\ Latest \in Nat /\ Latest \in beats \cup {0} /\ \A b \in beats : b <= Latest

Steady == Timed /\ (misfortunes = 0 => Beating)

\* What counts is which blocks took a heartbeat, as long as none lies ahead.
LEMMA LatestKept ==
    ASSUME Timed, UNCHANGED beats, head' \in Nat, head <= head'
    PROVE  Latest' = Latest
<1>1. head \in Nat /\ \A b \in beats : b \in Nat /\ b <= head
  BY DEF Timed
<1>2. {b \in beats : b <= head} = beats
  BY <1>1
<1>3. {b \in beats' : b <= head'} = beats
  BY <1>1
<1> QED
  BY <1>2, <1>3 DEF Latest, LastBeat

LEMMA LatestIncluded ==
    ASSUME Timed, beats' = beats \cup {head}, UNCHANGED head
    PROVE  Latest' = head
<1>1. head \in Nat /\ \A b \in beats : b \in Nat /\ b <= head
  BY DEF Timed
<1>2. {b \in beats' : b <= head'} \cup {0} = beats \cup {head, 0}
  BY <1>1
<1>3. /\ beats \cup {head, 0} \in SUBSET Nat /\ head \in beats \cup {head, 0}
      /\ \A n \in beats \cup {head, 0} : n <= head
  BY <1>1
<1>4. Max(beats \cup {head, 0}) = head
  BY <1>3, HighestIs
<1> QED
  BY <1>2, <1>4 DEF Latest, LastBeat

\* The handler compares with the same one.
LEMMA LatestOfAny == ASSUME Timed, beats # {} PROVE Max(beats) = Latest
<1>1. beats \in SUBSET Nat
  BY DEF Timed
<1>2. Latest \in beats
  <2>1. PICK b \in beats : b \in Nat /\ b <= Latest
    BY DEF Timed
  <2>2. Latest = 0 => b = 0
    BY <2>1
  <2> QED
    BY <2>1, <2>2 DEF Timed
<1>3. \A n \in beats : n <= Latest
  BY DEF Timed
<1> QED
  BY <1>1, <1>2, <1>3, HighestIs

LEMMA SteadyInit == DaemonInit => Steady
<1> SUFFICES ASSUME DaemonInit PROVE Steady
  OBVIOUS
<1>1. {b \in beats : b <= head} \cup {0} = {0}
  BY DEF DaemonInit
<1>2. Max({0}) = 0
  BY HighestIs
<1>3. Latest = 0
  BY <1>1, <1>2 DEF Latest, LastBeat
<1>4. Aloft = {}
  BY DEF DaemonInit, Aloft
<1> QED
  BY <1>3, <1>4, DaemonAssumption DEF DaemonInit, Steady, Timed, Beating, Taken

\* A step that leaves the polls and the heartbeats alone, unless it is a misfortune.
LEMMA SteadyKept ==
    ASSUME Steady, UNCHANGED <<head, polled, beatAt, beats, alive>>,
           missed' \in Nat, misfortunes' \in Nat,
           misfortunes' = 0 => misfortunes = 0 /\ missed' = missed /\ Aloft' = Aloft
    PROVE  Steady'
<1>1. Latest' = Latest
  BY LatestKept DEF Steady, Timed
<1> QED
  BY <1>1 DEF Steady, Timed, Beating, Taken, Coming, Refused, Again

LEMMA NewBlockSteady == Steady /\ NewBlock => Steady'
<1> SUFFICES ASSUME Steady, NewBlock PROVE Steady'
  OBVIOUS
<1>1. /\ head' = head + 1 /\ UNCHANGED <<alive, polled, beatAt, air, beats, missed, misfortunes>>
      /\ alive => head - polled < PollEvery
      /\ \A tx \in air : head - tx.sent < MaxDelay
  BY DEF NewBlock
<1>2. Timed
  BY DEF Steady
<1>3. Latest' = Latest
  BY <1>1, <1>2, LatestKept DEF Timed
<1>4. Aloft' = Aloft /\ Aloft \subseteq air
  BY <1>1 DEF Aloft
<1>5. Timed'
  BY <1>1, <1>2, <1>3, <1>4 DEF Timed
<1>6. ASSUME Beating PROVE Beating'
  <2>1. ASSUME Aloft # {} PROVE head' <= beatAt' + MaxDelay
    <3>1. Beat(beatAt) \in air /\ Beat(beatAt).sent = beatAt
      BY <1>4, <1>6, <2>1 DEF Beating, Beat
    <3>2. head - beatAt < MaxDelay
      BY <1>1, <3>1
    <3> QED
      BY <1>1, <1>2, <1>6, <3>2, DaemonAssumption DEF Timed, Beating
  <2>2. head' <= polled' + PollEvery
    BY <1>1, <1>2, <1>6, DaemonAssumption DEF Timed, Beating
  <2>3. Taken' \/ Coming' \/ Refused' \/ Again'
    BY <1>1, <1>3, <1>4, <1>6 DEF Beating, Taken, Coming, Refused, Again
  <2> QED
    BY <1>1, <1>2, <1>4, <1>6, <2>1, <2>2, <2>3, DaemonAssumption DEF Timed, Beating
<1> QED
  BY <1>1, <1>5, <1>6 DEF Steady

LEMMA IncludeSteady == ASSUME NEW tx, Steady, Include(tx) PROVE Steady'
<1>1. /\ tx \in air /\ tx.sent < head /\ air' = air \ {tx}
      /\ UNCHANGED <<head, polled, beatAt, alive, misfortunes>>
  BY DEF Include
<1>2. Timed
  BY DEF Steady
<1>3. Aloft' = Aloft \ {tx}
  BY <1>1 DEF Aloft
<1>4. CASE tx.kind # "beat"
  <2>1. UNCHANGED <<beats, missed>> /\ Aloft' = Aloft
    BY <1>1, <1>4 DEF Include, Aloft
  <2> QED
    BY <1>1, <1>2, <2>1, SteadyKept DEF Timed
<1>5. ASSUME Beating, tx.kind = "beat"
      PROVE  Aloft # {} /\ Aloft' = {} /\ beatAt < head /\ head <= beatAt + MaxDelay
  <2>1. tx \in Aloft
    BY <1>1, <1>5 DEF Aloft
  <2>2. tx = Beat(beatAt) /\ Aloft = {tx}
    BY <1>5, <2>1 DEF Beating
  <2> QED
    BY <1>1, <1>3, <1>5, <2>2 DEF Beating, Beat
<1>6. CASE /\ tx.kind = "beat" /\ beats # {} /\ head - Max(beats) < Interval
           /\ missed' = missed + 1 /\ UNCHANGED beats
  <2>1. head - Latest < Interval /\ Latest' = Latest
    BY <1>1, <1>2, <1>6, LatestOfAny, LatestKept DEF Timed
  <2>2. Timed'
    BY <1>1, <1>2, <1>6, <2>1 DEF Timed
  <2>3. ASSUME Beating PROVE Beating'
    <3>1. Aloft # {} /\ Aloft' = {} /\ beatAt < head
      BY <1>5, <1>6, <2>3
    <3>2. Coming
      BY <1>2, <2>1, <2>3, <3>1, DaemonAssumption DEF Timed, Beating, Taken, Refused, Again
    <3>3. Refused'
      BY <1>1, <1>2, <1>6, <2>1, <2>3, <3>1, <3>2, DaemonAssumption
      DEF Timed, Beating, Coming, Refused
    <3> QED
      BY <1>1, <2>3, <3>1, <3>3 DEF Beating
  <2> QED
    BY <1>1, <2>2, <2>3 DEF Steady
<1>7. CASE tx.kind = "beat" /\ beats' = beats \cup {head} /\ UNCHANGED missed
  <2>1. Latest' = head
    BY <1>1, <1>2, <1>7, LatestIncluded
  <2>2. Timed'
    BY <1>1, <1>2, <1>7, <2>1 DEF Timed
  <2>3. ASSUME Beating PROVE Beating'
    <3>1. Aloft' = {} /\ beatAt < head /\ head <= beatAt + MaxDelay
      BY <1>5, <1>7, <2>3
    <3>2. Taken'
      BY <1>1, <1>2, <2>1, <2>3, <3>1 DEF Timed, Beating, Taken
    <3> QED
      BY <1>1, <2>3, <3>1, <3>2 DEF Beating
  <2> QED
    BY <1>1, <2>2, <2>3 DEF Steady
<1> QED
  BY <1>4, <1>6, <1>7 DEF Include

LEMMA ExpireSteady == ASSUME NEW tx, Steady, Expire(tx) PROVE Steady'
<1>1. UNCHANGED <<head, polled, beatAt, beats, alive>>
  BY DEF Expire
<1>2. misfortunes' = misfortunes + 1 /\ (missed' = missed + 1 \/ missed' = missed)
  BY DEF Expire
<1> QED
  BY <1>1, <1>2, SteadyKept DEF Steady, Timed

LEMMA TickSteady == Steady /\ Tick => Steady'
<1> SUFFICES ASSUME Steady, Tick PROVE Steady'
  OBVIOUS
<1>1. polled' = head /\ UNCHANGED <<head, alive, beats, missed, misfortunes>>
  BY DEF Tick
<1>2. Timed
  BY DEF Steady
<1>3. Latest' = Latest
  BY <1>1, <1>2, LatestKept DEF Timed
<1>4. Timed'
  BY <1>1, <1>2, <1>3 DEF Timed
<1>5. ASSUME Due, Beating PROVE Beating'
  <2>1. beatAt' = head /\ air' = air \cup {Beat(head)} /\ head - beatAt >= Interval
    BY <1>5 DEF Tick, Due, Beat
  <2>2. Aloft = {}
    BY <1>2, <1>5, <2>1, DaemonAssumption DEF Timed, Beating
  <2>3. Aloft' = {Beat(head)}
    BY <2>1, <2>2 DEF Aloft, Beat
  <2>4. Coming' \/ Again'
    <3>1. CASE Taken
      BY <1>1, <1>2, <1>3, <1>5, <2>1, <2>3, <3>1, DaemonAssumption
      DEF Timed, Beating, Taken, Coming, Spell
    <3>2. CASE Refused
      BY <1>1, <1>2, <1>3, <1>5, <2>1, <2>3, <3>2, DaemonAssumption
      DEF Timed, Beating, Refused, Again, Spell
    <3> QED
      BY <1>5, <2>2, <3>1, <3>2 DEF Beating, Coming, Again
  <2> QED
    BY <1>1, <1>2, <1>5, <2>1, <2>3, <2>4, DaemonAssumption DEF Timed, Beating
<1>6. ASSUME ~Due, Beating PROVE Beating'
  <2>1. UNCHANGED <<beatAt, air>> /\ ~(head - beatAt >= Interval)
    BY <1>6 DEF Tick, Due
  <2>2. Aloft' = Aloft
    BY <2>1 DEF Aloft
  <2>3. Taken' \/ Coming' \/ Refused' \/ Again'
    BY <1>1, <1>3, <1>6, <2>1, <2>2 DEF Beating, Taken, Coming, Refused, Again
  <2> QED
    BY <1>1, <1>2, <1>6, <2>1, <2>2, <2>3, DaemonAssumption DEF Timed, Beating
<1> QED
  BY <1>1, <1>4, <1>5, <1>6 DEF Steady

LEMMA SteadyStep == Steady /\ [DaemonNext]_daemonVars => Steady'
<1> SUFFICES ASSUME Steady, [DaemonNext]_daemonVars PROVE Steady'
  OBVIOUS
<1>1. Timed
  BY DEF Steady
<1>2. CASE \/ \E block \in 1..MaxBlock : IndexTo(block)
           \/ NothingToPublish \/ Persist \/ UNCHANGED daemonVars
  <2>1. UNCHANGED <<head, polled, beatAt, beats, alive, air, missed, misfortunes>>
    BY <1>2 DEF IndexTo, NothingToPublish, Persist, daemonVars
  <2>2. Aloft' = Aloft
    BY <2>1 DEF Aloft
  <2> QED
    BY <1>1, <2>1, <2>2, SteadyKept DEF Timed
<1>3. CASE Publish
  <2>1. UNCHANGED <<head, polled, beatAt, beats, alive, missed, misfortunes>>
    BY <1>3 DEF Publish
  <2>2. Aloft' = Aloft
    BY <1>3 DEF Publish, Aloft
  <2> QED
    BY <1>1, <2>1, <2>2, SteadyKept DEF Timed
<1>4. CASE TickFails \/ PublishFails \/ PersistFails \/ DaemonCrash
  <2>1. /\ UNCHANGED <<head, beats, missed>> /\ misfortunes' = misfortunes + 1
        /\ polled' \in Nat
    BY <1>1, <1>4 DEF TickFails, PublishFails, PersistFails, DaemonCrash, Timed
  <2>2. Latest' = Latest
    BY <1>1, <2>1, LatestKept DEF Timed
  <2>3. misfortunes' # 0
    BY <1>1, <2>1 DEF Timed
  <2> QED
    BY <1>1, <2>1, <2>2, <2>3 DEF Steady, Timed
<1>5. CASE Restart
  <2>1. UNCHANGED <<head, beats, missed, misfortunes>> /\ ~alive
    BY <1>5 DEF Restart
  <2>2. Latest' = Latest
    BY <1>1, <2>1, LatestKept DEF Timed
  <2>3. misfortunes' # 0
    BY <2>1 DEF Steady, Beating
  <2>4. polled' \in Nat
    BY <1>1, <1>5 DEF Restart, Timed
  <2> QED
    BY <1>1, <2>1, <2>2, <2>3, <2>4 DEF Steady, Timed
<1>6. CASE \E tx \in air : Include(tx) \/ Expire(tx)
  BY <1>6, IncludeSteady, ExpireSteady
<1> QED
  BY <1>2, <1>3, <1>4, <1>5, <1>6, NewBlockSteady, TickSteady DEF DaemonNext

\* While the process stays up and nothing is lost, the node is active in every
\* block as long as no heartbeat was refused: the interval, a late poll and a late
\* inclusion add up to no more than MAX_NODE_HEARTBEAT_STALENESS_BLOCKS.  A refused
\* one costs a second interval, never a third: the next is sent too late to be
\* refused again.
THEOREM HealthyStaysActive == DaemonSpec => []HealthyNodeStaysActive
<1>1. Steady => HealthyNodeStaysActive
  <2> SUFFICES ASSUME Steady, misfortunes = 0
               PROVE  /\ missed = 0 => ActiveAt(head)
                      /\ head - LastBeat(head) <= 2 * Interval + PollEvery + MaxDelay - 3
    BY DEF HealthyNodeStaysActive
  <2>1. Timed /\ Beating
    BY DEF Steady
  <2>2. head <= Latest + 2 * Interval + PollEvery + MaxDelay - 3
    BY <2>1, DaemonAssumption DEF Timed, Beating, Taken, Coming, Refused, Again, Spell
  <2>3. missed = 0 => head <= Latest + Staleness
    BY <2>1, DaemonAssumption DEF Timed, Beating, Taken, Coming, Refused, Again, Spell
  <2> QED
    BY <2>1, <2>2, <2>3, DaemonAssumption DEF ActiveAt, Latest, Timed
<1> QED
  BY <1>1, SteadyInit, SteadyStep, PTL DEF DaemonSpec
-----------------------------------------------------------------------------
(* Starts: a process that has the database to itself, or finds it in place. *)

Alone == \A r, q \in Replicas : r = q

\* Root and genesis are there before anybody starts.
InPlace(db) == ~db.legacy /\ db.genesis = Genesis /\ db.root # {}

OnItsWay == {"connecting", "migrated", "genesis_read", "prepared", "rootless", "counted", "scanned"}
Passed == {"ready", "waiting", "between_cycles", "indexing"}
Ahead == {"between_cycles", "indexing"}
Thread == [at : {"off", "given_up"} \cup OnItsWay \cup Passed, stored : Nat, scanned : SUBSET Nat,
           next : Nat]

StartShapes ==
    /\ thread \in [Threads -> Thread] /\ leading \in Threads \cup {NoThread}
    /\ Kept(store)

\* What a thread relies on, from the statement that showed it to it.
Stands(t) ==
    LET where == thread[t].at
    IN  /\ store.legacy => where \in {"off", "given_up", "connecting"}
        /\ where = "genesis_read" => thread[t].stored = store.genesis
        /\ where \in {"prepared", "rootless", "counted", "scanned"} \cup Passed => store.genesis = Genesis
        /\ where \in {"rootless", "counted", "scanned"} => store.root = {}
        /\ where \in {"counted", "scanned"} => store.rows # {}
        /\ where = "scanned" => thread[t].scanned = store.rows
        /\ where \in Passed => store.root = store.rows
        /\ where \in Ahead <=> leading = t
        /\ where \in Ahead \cup {"waiting"} => Indexes(t)
        /\ where = "indexing" => thread[t].next = store.cursor + 1 /\ store.cursor >= Genesis - 1

\* main waits at "ready" while a worker runs.
InTandem ==
    \A r \in Replicas : thread[<<r, "worker">>].at # "off" =>
        Role[r] = "both" /\ thread[<<r, "main">>].at = "ready"

StartInv ==
    /\ StartShapes /\ InTandem /\ (Alone \/ InPlace(store))
    /\ \A t \in Threads : Stands(t)

LEMMA ThreadIs ==
    /\ NoThread \notin Threads
    /\ \A t \in Threads : t[1] \in Replicas /\ (t = <<t[1], "main">> \/ t = <<t[1], "worker">>)
    /\ \A r \in Replicas : <<r, "main">> \in Threads /\ <<r, "worker">> \in Threads
  BY DEF Threads, NoThread

LEMMA StartInvMeans == StartInv => ProjectionSound
<1> SUFFICES ASSUME StartInv PROVE ProjectionSound
  OBVIOUS
<1>1. Through = {} \/ store.root = store.rows
  BY DEF StartInv, Stands, Through, Passed
<1>2. store.legacy => Through = {}
  BY DEF StartInv, Stands, Through
<1>3. leading # NoThread => store.genesis = Genesis
  BY DEF StartInv, StartShapes, Stands, Ahead, Passed
<1> QED
  BY <1>1, <1>2, <1>3 DEF ProjectionSound, RootSafeOnEveryBoot, StartInv, StartShapes, Kept

LEMMA StartInvInit == ASSUME Alone \/ (\A db \in Stores : InPlace(db)) PROVE StartInit => StartInv
<1> SUFFICES ASSUME StartInit PROVE StartInv
  OBVIOUS
<1>1. Off \in Thread
  BY DEF Off, Thread
<1>2. StartShapes
  BY <1>1, StartUpAssumption DEF StartInit, StartShapes
<1>3. \A t \in Threads : thread[t].at = "off"
  BY DEF StartInit, Off
<1>4. ASSUME NEW t \in Threads PROVE Stands(t)
  BY <1>3, ThreadIs DEF Stands, StartInit, OnItsWay, Passed, Ahead
<1>5. InTandem
  BY <1>3, ThreadIs DEF InTandem
<1> QED
  BY <1>2, <1>4, <1>5 DEF StartInv, StartInit

LEMMA StandsOn ==
    ASSUME NEW u \in Threads, Stands(u), thread'[u] = thread[u], store' = store,
           leading' = u <=> leading = u
    PROVE  Stands(u)'
  BY DEF Stands, Indexes

\* A thread on its way moves, and no worker is left without its main.
LEMMA Marches ==
    ASSUME StartInv, NEW t \in Threads, NEW row \in Thread, thread' = [thread EXCEPT ![t] = row],
           thread[t].at # "off", thread[t].at = "ready" => Indexes(t)
    PROVE  /\ thread' \in [Threads -> Thread] /\ thread'[t] = row
           /\ \A u \in Threads \ {t} : thread'[u] = thread[u]
           /\ InTandem'
<1>1. /\ thread' \in [Threads -> Thread] /\ thread'[t] = row
      /\ \A u \in Threads \ {t} : thread'[u] = thread[u]
  BY DEF StartInv, StartShapes
<1>2. ASSUME NEW r \in Replicas, thread'[<<r, "worker">>].at # "off"
      PROVE  Role[r] = "both" /\ thread'[<<r, "main">>].at = "ready"
  <2>1. <<r, "main">> \in Threads /\ <<r, "worker">> \in Threads
    BY ThreadIs
  <2>2. CASE t = <<r, "worker">>
    <3>1. <<r, "main">> # t
      BY <2>2
    <3> QED
      BY <1>1, <2>1, <2>2, <3>1 DEF StartInv, InTandem
  <2>3. CASE t # <<r, "worker">>
    <3>1. Role[r] = "both" /\ thread[<<r, "main">>].at = "ready"
      BY <1>1, <1>2, <2>1, <2>3 DEF StartInv, InTandem
    <3>2. t # <<r, "main">>
      <4> SUFFICES ASSUME t = <<r, "main">> PROVE FALSE
        OBVIOUS
      <4>1. Indexes(t)
        BY <3>1
      <4>2. t[2] = "main" /\ t[1] = r
        OBVIOUS
      <4> QED
        BY <3>1, <4>1, <4>2 DEF Indexes
    <3> QED
      BY <1>1, <2>1, <3>1, <3>2
  <2> QED
    BY <2>2, <2>3
<1> QED
  BY <1>1, <1>2 DEF InTandem

\* Such a move is sound if the thread stands where it arrives, and neither the
\* database nor another's lock is touched.
LEMMA MovesAlone ==
    ASSUME StartInv, NEW t \in Threads, NEW row \in Thread, thread' = [thread EXCEPT ![t] = row],
           thread[t].at # "off", thread[t].at = "ready" => Indexes(t),
           store' = store, leading' = leading \/ (leading = NoThread /\ leading' = t),
           Stands(t)'
    PROVE  StartInv'
<1>1. /\ thread' \in [Threads -> Thread] /\ InTandem'
      /\ \A u \in Threads \ {t} : thread'[u] = thread[u]
  BY Marches
<1>2. ASSUME NEW u \in Threads PROVE Stands(u)'
  <2>1. CASE u # t
    BY <1>1, <2>1, StandsOn, ThreadIs DEF StartInv
  <2> QED
    BY <2>1
<1>3. StartShapes'
  BY <1>1 DEF StartInv, StartShapes, Kept
<1> QED
  BY <1>1, <1>2, <1>3 DEF StartInv, InPlace, Alone

\* Statements that only look, and the lock.
LEMMA LooksOnly ==
    ASSUME StartInv, NEW t \in Threads,
           \/ Migrate(t) /\ ~store.legacy
           \/ ReadGenesis(t) \/ ReadRoot(t) \/ CountAssets(t) \/ Scan(t) \/ Retry(t) \/ Lead(t) \/ EndCycle(t)
           \/ VerifyChainAnchors(t) /\ Goes(t, "waiting") /\ UNCHANGED leading
    PROVE  StartInv'
<1> DEFINE to(where) == [thread[t] EXCEPT !.at = where]
<1>1. thread[t] \in Thread /\ Stands(t) /\ store.genesis \in Nat /\ store.rows \in SUBSET Nat
  BY DEF StartInv, StartShapes, Kept
<1>2. store' = store
  BY DEF Migrate, ReadGenesis, ReadRoot, CountAssets, Scan, Retry, Lead, EndCycle, VerifyChainAnchors
<1>3. \A where \in OnItsWay \cup Passed : to(where) \in Thread
  BY <1>1 DEF Thread
<1>4. thread \in [Threads -> Thread]
  BY DEF StartInv, StartShapes
<1>5. leading' = leading \/ (leading = NoThread /\ leading' = t)
  BY DEF Migrate, ReadGenesis, ReadRoot, CountAssets, Scan, Retry, Lead, EndCycle
<1>6. thread[t].at # "off" /\ (thread[t].at = "ready" => Indexes(t))
  BY DEF Migrate, ReadGenesis, ReadRoot, CountAssets, Scan, Retry, Lead, EndCycle,
         VerifyChainAnchors, At
<1> DEFINE Kin(row) == /\ row \in Thread /\ thread' = [thread EXCEPT ![t] = row]
                       /\ Stands(t)'
<1>7. SUFFICES \E row : Kin(row)
  <2> SUFFICES ASSUME NEW row, Kin(row) PROVE StartInv'
    OBVIOUS
  <2> QED
    BY <1>2, <1>5, <1>6, MovesAlone
<1> USE DEF At, Goes, Stands, Ahead, Passed, OnItsWay
<1>8. CASE Migrate(t) /\ ~store.legacy
  <2>1. thread' = [thread EXCEPT ![t] = to("migrated")] /\ leading' = leading
    BY <1>8 DEF Migrate
  <2>2. Kin(to("migrated"))
    BY <1>1, <1>2, <1>3, <1>4, <1>8, <2>1 DEF Migrate
  <2> QED BY <2>2
<1>9. CASE ReadGenesis(t)
  <2> DEFINE row == [thread[t] EXCEPT !.at = "genesis_read", !.stored = store.genesis]
  <2>1. thread' = [thread EXCEPT ![t] = row] /\ leading' = leading
    BY <1>1, <1>4, <1>9 DEF ReadGenesis, Thread
  <2>2. row \in Thread
    BY <1>1 DEF Thread
  <2>3. Kin(row)
    BY <1>1, <1>2, <1>4, <1>9, <2>1, <2>2 DEF ReadGenesis
  <2> QED BY <2>3
<1>10. CASE ReadRoot(t)
  <2>1. CASE store.root # {}
    <3>1. thread' = [thread EXCEPT ![t] = to("ready")] /\ leading' = leading
      BY <1>10, <2>1 DEF ReadRoot
    <3>2. store.root = store.rows
      BY <2>1 DEF StartInv, StartShapes, Kept
    <3>3. Kin(to("ready"))
      BY <1>1, <1>2, <1>3, <1>4, <1>10, <3>1, <3>2 DEF ReadRoot
    <3> QED BY <3>3
  <2>2. CASE store.root = {}
    <3>1. thread' = [thread EXCEPT ![t] = to("rootless")] /\ leading' = leading
      BY <1>10, <2>2 DEF ReadRoot
    <3>2. Kin(to("rootless"))
      BY <1>1, <1>2, <1>3, <1>4, <1>10, <3>1, <2>2 DEF ReadRoot
    <3> QED BY <3>2
  <2> QED BY <2>1, <2>2
<1>11. CASE CountAssets(t)
  <2>1. CASE store.rows = {}
    <3>1. thread' = [thread EXCEPT ![t] = to("ready")] /\ leading' = leading
      BY <1>11, <2>1 DEF CountAssets
    <3>3. Kin(to("ready"))
      BY <1>1, <1>2, <1>3, <1>4, <1>11, <3>1, <2>1 DEF CountAssets
    <3> QED BY <3>3
  <2>2. CASE store.rows # {}
    <3>1. thread' = [thread EXCEPT ![t] = to("counted")] /\ leading' = leading
      BY <1>11, <2>2 DEF CountAssets
    <3>2. Kin(to("counted"))
      BY <1>1, <1>2, <1>3, <1>4, <1>11, <3>1, <2>2 DEF CountAssets
    <3> QED BY <3>2
  <2> QED BY <2>1, <2>2
<1>12. CASE Scan(t)
  <2> DEFINE row == [thread[t] EXCEPT !.at = "scanned", !.scanned = store.rows]
  <2>1. thread' = [thread EXCEPT ![t] = row] /\ leading' = leading
    BY <1>1, <1>4, <1>12 DEF Scan, Thread
  <2>2. row \in Thread
    BY <1>1 DEF Thread
  <2>3. Kin(row)
    BY <1>1, <1>2, <1>4, <1>12, <2>1, <2>2 DEF Scan
  <2> QED BY <2>3
<1>13. CASE Retry(t)
  <2> DEFINE row == [Off EXCEPT !.at = "connecting"]
  <2>1. thread' = [thread EXCEPT ![t] = row] /\ leading' = leading
    BY <1>13 DEF Retry
  <2>2. row \in Thread /\ row.at = "connecting"
    BY <1>1 DEF Thread, Off
  <2>3. Kin(row)
    BY <1>1, <1>2, <1>4, <1>13, <2>1, <2>2 DEF Retry
  <2> QED BY <2>3
<1>14. CASE Lead(t)
  <2>1. thread' = [thread EXCEPT ![t] = to("between_cycles")] /\ leading' = t
    BY <1>14 DEF Lead
  <2>2. Kin(to("between_cycles"))
    BY <1>1, <1>2, <1>3, <1>4, <1>14, <2>1 DEF Lead, Indexes
  <2> QED BY <2>2
<1>15. CASE EndCycle(t)
  <2>1. thread' = [thread EXCEPT ![t] = to("between_cycles")] /\ leading' = leading
    BY <1>15 DEF EndCycle
  <2>2. Kin(to("between_cycles"))
    BY <1>1, <1>2, <1>3, <1>4, <1>15, <2>1 DEF EndCycle, Indexes
  <2> QED BY <2>2
<1>16. CASE VerifyChainAnchors(t) /\ Goes(t, "waiting") /\ UNCHANGED leading
  <2>1. thread' = [thread EXCEPT ![t] = to("waiting")] /\ leading' = leading
    BY <1>16
  <2>2. Kin(to("waiting"))
    BY <1>1, <1>2, <1>3, <1>4, <1>16, <2>1 DEF VerifyChainAnchors, Indexes
  <2> QED BY <2>2
<1> QED
  BY <1>8, <1>9, <1>10, <1>11, <1>12, <1>13, <1>14, <1>15, <1>16

\* Where the database was not in place, whoever is at work is alone.
LEMMA ApartOthers ==
    ASSUME StartInv, NEW t \in Threads, NEW u \in Threads, t # u, ~InPlace(store),
           thread[t].at \notin {"off", "ready"}
    PROVE  thread[u].at \in {"off", "ready"}
<1>1. t[1] = u[1]
  BY ThreadIs DEF StartInv, Alone
<1>2. PICK r \in Replicas : r = t[1]
  BY ThreadIs
<1>3. (t = <<r, "main">> \/ t = <<r, "worker">>) /\ (u = <<r, "main">> \/ u = <<r, "worker">>)
  BY <1>1, <1>2, ThreadIs
<1>4. CASE t = <<r, "main">> /\ u = <<r, "worker">>
  BY <1>4 DEF StartInv, InTandem
<1>5. CASE u = <<r, "main">> /\ t = <<r, "worker">>
  BY <1>5 DEF StartInv, InTandem
<1> QED
  BY <1>3, <1>4, <1>5

\* Whatever ends releases the lock, and a process takes its worker along.
LEMMA EndsSoundly ==
    ASSUME StartInv, NEW t \in Threads, thread[t].at # "off", Ends(t), store' = store
    PROVE  StartInv'
<1>1. thread \in [Threads -> Thread] /\ leading \in Threads \cup {NoThread} /\ Kept(store)
  BY DEF StartInv, StartShapes
<1>2. t[1] \in Replicas /\ (t = <<t[1], "main">> \/ t = <<t[1], "worker">>)
  BY ThreadIs
<1>3. (Alone \/ InPlace(store))' /\ Kept(store)'
  BY <1>1 DEF StartInv, Alone, InPlace, Kept
<1>4. CASE t[2] = "main"
  <2>1. PICK r \in Replicas : r = t[1]
    BY <1>2
  <2>2. /\ thread' = [u \in Threads |-> IF u[1] = r THEN Off ELSE thread[u]]
        /\ leading' = IF leading \in {r} \X {"main", "worker"} THEN NoThread ELSE leading
    BY <1>4, <2>1 DEF Ends, ProcessEnds, ReleasedBy
  <2>3. Off \in Thread /\ Off.at = "off"
    BY DEF Off, Thread
  <2>4. thread' \in [Threads -> Thread] /\ leading' \in Threads \cup {NoThread}
    BY <1>1, <2>2, <2>3
  <2>5. ASSUME NEW u \in Threads, u[1] = r PROVE Stands(u)'
    <3>1. thread'[u].at = "off" /\ leading' # u
      <4>1. u \in {r} \X {"main", "worker"}
        BY <2>5, ThreadIs
      <4> QED
        BY <2>2, <2>3, <2>5, <4>1, ThreadIs
    <3> QED
      BY <3>1 DEF Stands, Passed, Ahead
  <2>6. ASSUME NEW u \in Threads, u[1] # r PROVE Stands(u)'
    <3>1. thread'[u] = thread[u]
      BY <2>2, <2>6
    <3>2. leading' = u <=> leading = u
      <4>1. u \notin {r} \X {"main", "worker"} /\ u # NoThread
        BY <2>6, ThreadIs
      <4> QED
        BY <2>2, <4>1
    <3> QED
      BY <3>1, <3>2, StandsOn DEF StartInv
  <2>7. InTandem'
    <3> SUFFICES ASSUME NEW q \in Replicas, thread'[<<q, "worker">>].at # "off"
                 PROVE  Role[q] = "both" /\ thread'[<<q, "main">>].at = "ready"
      BY DEF InTandem
    <3>1. q # r
      BY <2>2, <2>3, ThreadIs
    <3>2. thread'[<<q, "worker">>] = thread[<<q, "worker">>] /\ thread'[<<q, "main">>] = thread[<<q, "main">>]
      BY <2>2, <3>1, ThreadIs
    <3> QED
      BY <3>2 DEF StartInv, InTandem
  <2> QED
    BY <1>3, <2>4, <2>5, <2>6, <2>7 DEF StartInv, StartShapes
<1>5. CASE t[2] # "main"
  <2>1. PICK r \in Replicas : r = t[1]
    BY <1>2
  <2>2. t = <<r, "worker">>
    BY <1>2, <1>5, <2>1
  <2>3. PICK counted \in {0, restarts[r]} :
          /\ thread' = [thread EXCEPT ![<<r, "worker">>] =
                [Off EXCEPT !.at = IF counted + 1 > WorkerRestarts THEN "given_up" ELSE "off"]]
          /\ leading' = ReleasedBy({<<r, "worker">>})
    BY <1>5, <2>1 DEF Ends, WorkerEnds
  <2>4. PICK row : row = [Off EXCEPT !.at = IF counted + 1 > WorkerRestarts THEN "given_up" ELSE "off"]
    OBVIOUS
  <2>5. row \in Thread /\ row.at \in {"off", "given_up"}
    BY <2>4 DEF Off, Thread
  <2>6. thread' = [thread EXCEPT ![t] = row] /\ leading' = IF leading = t THEN NoThread ELSE leading
    BY <2>2, <2>3, <2>4 DEF ReleasedBy
  <2>7. Role[r] = "both" /\ thread[<<r, "main">>].at = "ready"
    BY <2>2 DEF StartInv, InTandem
  <2>8. thread[t].at = "ready" => Indexes(t)
    BY <2>2, <2>7 DEF Indexes
  <2>9. /\ thread' \in [Threads -> Thread] /\ thread'[t] = row /\ InTandem'
        /\ \A u \in Threads \ {t} : thread'[u] = thread[u]
    BY <2>5, <2>6, <2>8, Marches
  <2>10. leading' \in Threads \cup {NoThread} /\ leading' # t
    BY <1>1, <2>6, ThreadIs
  <2>11. Stands(t)'
    BY <2>5, <2>9, <2>10 DEF Stands, Passed, Ahead
  <2>12. ASSUME NEW u \in Threads, u # t PROVE Stands(u)'
    <3>1. leading' = u <=> leading = u
      BY <2>6, <2>12, ThreadIs
    <3> QED
      BY <2>9, <2>12, <3>1, StandsOn DEF StartInv
  <2>13. \A u \in Threads : Stands(u)'
    BY <2>11, <2>12
  <2> QED
    BY <1>3, <2>9, <2>10, <2>13 DEF StartInv, StartShapes
<1> QED
  BY <1>4, <1>5

LEMMA Launches ==
    ASSUME StartInv, NEW r \in Replicas, Launch(r) \/ StartWorker(r)
    PROVE  StartInv'
<1> DEFINE m == <<r, "main">>
           w == <<r, "worker">>
<1>0. m \in Threads /\ w \in Threads /\ m # w
  BY ThreadIs
<1>1. thread \in [Threads -> Thread] /\ leading \in Threads \cup {NoThread} /\ Kept(store)
  BY DEF StartInv, StartShapes
<1>2. /\ store' = store /\ leading' = leading
      /\ (Alone \/ InPlace(store))' /\ Kept(store)'
  BY <1>1 DEF Launch, StartWorker, StartInv, Alone, InPlace, Kept
<1>3. \E t \in {m, w} : /\ thread[t].at = "off"
                        /\ thread' = [thread EXCEPT ![t] = [thread[t] EXCEPT !.at = "connecting"]]
                        /\ t = w => Role[r] = "both" /\ thread[m].at = "ready"
  BY <1>0, <1>1 DEF Launch, StartWorker, Goes, At
<1>4. PICK t \in {m, w} : /\ thread[t].at = "off"
                          /\ thread' = [thread EXCEPT ![t] = [thread[t] EXCEPT !.at = "connecting"]]
                          /\ t = w => Role[r] = "both" /\ thread[m].at = "ready"
  BY <1>3
<1>5. t \in Threads /\ thread[t] \in Thread
  BY <1>0, <1>1
<1>6. /\ thread' \in [Threads -> Thread] /\ thread'[t].at = "connecting"
      /\ \A u \in Threads \ {t} : thread'[u] = thread[u]
  BY <1>1, <1>4, <1>5 DEF Thread, OnItsWay
<1>7. leading # t
  BY <1>4, <1>5 DEF StartInv, Stands, Ahead
<1>8. Stands(t)'
  BY <1>2, <1>6, <1>7 DEF Stands, Passed, Ahead
<1>9. ASSUME NEW u \in Threads, u # t PROVE Stands(u)'
  BY <1>2, <1>6, <1>9, StandsOn DEF StartInv
<1>10. ASSUME NEW q \in Replicas, thread'[<<q, "worker">>].at # "off"
       PROVE  Role[q] = "both" /\ thread'[<<q, "main">>].at = "ready"
  <2>1. <<q, "worker">> \in Threads /\ <<q, "main">> \in Threads
    BY ThreadIs
  <2>2. CASE <<q, "worker">> = t
    <3>1. t = w /\ q = r
      BY <1>4, <2>2
    <3> QED
      BY <1>0, <1>4, <1>6, <3>1
  <2>3. CASE <<q, "worker">> # t
    <3>1. Role[q] = "both" /\ thread[<<q, "main">>].at = "ready"
      BY <1>6, <1>10, <2>1, <2>3 DEF StartInv, InTandem
    <3>2. <<q, "main">> # t
      BY <1>4, <3>1
    <3> QED
      BY <1>6, <2>1, <3>1, <3>2
  <2> QED
    BY <2>2, <2>3
<1>11. InTandem'
  BY <1>10 DEF InTandem
<1>12. \A u \in Threads : Stands(u)'
  BY <1>8, <1>9
<1> QED
  BY <1>1, <1>2, <1>6, <1>11, <1>12 DEF StartInv, StartShapes

LEMMA ChecksGenesis ==
    ASSUME StartInv, NEW t \in Threads, CheckGenesis(t)
    PROVE  StartInv'
<1> DEFINE row == [thread[t] EXCEPT !.at = "prepared"]
<1>1. /\ thread[t] \in Thread /\ thread[t].at = "genesis_read" /\ thread[t].stored = store.genesis
      /\ ~store.legacy /\ leading # t /\ Kept(store) /\ Genesis \in Nat \ {0}
  BY StartUpAssumption DEF StartInv, StartShapes, Stands, Ahead, CheckGenesis, At
<1>2. row \in Thread /\ row.at = "prepared"
  BY <1>1 DEF Thread, OnItsWay
<1>3. thread' = [thread EXCEPT ![t] = row] /\ leading' = leading
  BY DEF CheckGenesis, Goes
<1>4. CASE store.genesis = Genesis
  <2>1. store' = store
    BY <1>1, <1>4 DEF CheckGenesis
  <2>2. thread'[t] = row
    BY <1>2, <1>3 DEF StartInv, StartShapes
  <2>3. Stands(t)'
    BY <1>1, <1>2, <1>3, <1>4, <2>1, <2>2 DEF Stands, Passed, Ahead
  <2> QED
    BY <1>1, <1>2, <1>3, <2>1, <2>3, MovesAlone
<1>5. CASE store.genesis # Genesis
  <2>1. ~InPlace(store) /\ Alone
    BY <1>5 DEF StartInv, InPlace
  <2>2. /\ thread' \in [Threads -> Thread] /\ thread'[t] = row /\ InTandem'
        /\ \A u \in Threads \ {t} : thread'[u] = thread[u]
    BY <1>1, <1>2, <1>3, Marches
  <2>3. /\ ~store'.legacy /\ store'.genesis = Genesis /\ Kept(store')
    <3>1. CASE store.genesis = 0
      <4>1. store' = [store EXCEPT !.genesis = Genesis]
        BY <1>1, <1>5, <3>1 DEF CheckGenesis
      <4>2. store.cursor = 0 /\ store.rows = {} /\ store.root = {}
        BY <1>1, <3>1 DEF Kept
      <4>3. Genesis..0 \ {0} = {}
        BY <1>1
      <4> QED
        BY <1>1, <4>1, <4>2, <4>3 DEF Kept
    <3>2. CASE store.genesis # 0
      <4>1. store' = Wiped
        BY <1>1, <1>5, <3>2 DEF CheckGenesis
      <4>2. Genesis..0 \ {0} = {}
        BY <1>1
      <4> QED
        BY <1>1, <4>1, <4>2 DEF Kept, Wiped, Installed
    <3> QED
      BY <3>1, <3>2
  <2>4. Stands(t)'
    BY <1>1, <1>2, <1>3, <2>2, <2>3 DEF Stands, Passed, Ahead
  <2>5. ASSUME NEW u \in Threads, u # t PROVE Stands(u)'
    <3>1. thread[u].at \in {"off", "ready"}
      BY <1>1, <2>1, <2>5, ApartOthers
    <3>2. thread[u].at = "off" /\ leading # u
      BY <1>5, <3>1 DEF StartInv, Stands, Passed, Ahead
    <3> QED
      BY <1>3, <2>2, <2>5, <3>2 DEF Stands, Passed, Ahead
  <2>6. \A u \in Threads : Stands(u)'
    BY <2>4, <2>5
  <2>7. StartShapes'
    BY <1>3, <2>2, <2>3 DEF StartInv, StartShapes, Kept
  <2> QED
    BY <2>1, <2>2, <2>6, <2>7 DEF StartInv, Alone
<1> QED
  BY <1>4, <1>5

LEMMA Rebuilds ==
    ASSUME StartInv, NEW t \in Threads, Rebuild(t)
    PROVE  StartInv'
<1> DEFINE row == [thread[t] EXCEPT !.at = "ready"]
<1>1. /\ thread[t] \in Thread /\ thread[t].at = "scanned" /\ thread[t].scanned = store.rows
      /\ store.root = {} /\ store.rows # {} /\ store.genesis = Genesis
      /\ ~store.legacy /\ leading # t /\ Kept(store)
  BY DEF StartInv, StartShapes, Stands, Ahead, Rebuild, At
<1>2. row \in Thread /\ row.at = "ready"
  BY <1>1 DEF Thread, Passed
<1>3. thread' = [thread EXCEPT ![t] = row] /\ leading' = leading
  BY DEF Rebuild, Goes
<1>4. store' = [store EXCEPT !.root = store.rows]
  BY <1>1 DEF Rebuild
<1>5. ~InPlace(store) /\ Alone
  BY <1>1 DEF StartInv, InPlace
<1>6. /\ thread' \in [Threads -> Thread] /\ thread'[t] = row /\ InTandem'
      /\ \A u \in Threads \ {t} : thread'[u] = thread[u]
  BY <1>1, <1>2, <1>3, Marches
<1>7. /\ ~store'.legacy /\ store'.genesis = Genesis /\ store'.root = store'.rows /\ Kept(store')
  BY <1>1, <1>4 DEF Kept
<1>8. Stands(t)'
  BY <1>1, <1>2, <1>3, <1>6, <1>7 DEF Stands, Passed, Ahead
<1>9. ASSUME NEW u \in Threads, u # t PROVE Stands(u)'
  <2>1. thread[u].at \in {"off", "ready"}
    BY <1>1, <1>5, <1>9, ApartOthers
  <2>2. thread[u].at = "off" /\ leading # u
    BY <1>1, <2>1 DEF StartInv, Stands, Passed, Ahead
  <2> QED
    BY <1>3, <1>6, <1>9, <2>2 DEF Stands, Passed, Ahead
<1>10. \A u \in Threads : Stands(u)'
  BY <1>8, <1>9
<1>11. StartShapes'
  BY <1>3, <1>6, <1>7 DEF StartInv, StartShapes, Kept
<1> QED
  BY <1>5, <1>6, <1>10, <1>11 DEF StartInv, Alone

\* The indexing thread: what it writes continues the table, and the root with it.
LEMMA Writes ==
    ASSUME StartInv, NEW t \in Threads, BeginCycle(t) \/ WriteBlocks(t)
    PROVE  StartInv'
<1>1. /\ thread \in [Threads -> Thread] /\ thread[t] \in Thread /\ thread[t].at \in Ahead
      /\ leading = t /\ Indexes(t) /\ Kept(store) /\ Genesis \in Nat \ {0} /\ Batch \in Nat \ {0}
      /\ store.genesis = Genesis /\ store.root = store.rows /\ ~store.legacy
  <2>1. thread[t].at \in {"between_cycles", "indexing"}
    <3>1. CASE BeginCycle(t)
      BY <3>1, Zenon DEF BeginCycle, At
    <3>2. CASE WriteBlocks(t)
      BY <3>2, Zenon DEF WriteBlocks, At
    <3> QED
      BY <3>1, <3>2
  <2> QED
    BY <2>1, StartUpAssumption DEF StartInv, StartShapes, Stands, Ahead, Passed
<1> DEFINE Onward(row) ==
      /\ row \in Thread /\ thread' = [thread EXCEPT ![t] = row] /\ row.at = "indexing"
      /\ Kept(store') /\ store'.genesis = Genesis /\ store'.root = store'.rows /\ ~store'.legacy
      /\ store.rows # {} => store'.rows # {}
      /\ row.next = store'.cursor + 1 /\ store'.cursor >= Genesis - 1
<1>2. leading' = leading
  BY Zenon DEF BeginCycle, WriteBlocks
<1>0. SUFFICES \E row : Onward(row)
  <2> SUFFICES ASSUME NEW row, Onward(row) PROVE StartInv'
    OBVIOUS
  <2>0. thread[t].at # "off" /\ thread[t].at # "ready"
    BY <1>1 DEF Ahead
  <2>1. /\ thread' \in [Threads -> Thread] /\ thread'[t] = row /\ InTandem'
        /\ \A u \in Threads \ {t} : thread'[u] = thread[u]
    BY <2>0, Marches
  <2>2. Stands(t)'
    BY <1>1, <1>2, <2>1 DEF Stands, Passed, Ahead, Indexes
  <2>3. InPlace(store) => InPlace(store')
    BY <1>1 DEF InPlace
  <2>4. ASSUME NEW u \in Threads, u # t PROVE Stands(u)'
    <3>1. thread[u].at \notin {"rootless", "counted", "scanned"} \cup Ahead /\ leading # u
      <4>1. thread[u].at \notin Ahead /\ leading # u
        BY <1>1, <2>4 DEF StartInv, Stands
      <4>2. CASE InPlace(store)
        BY <4>1, <4>2 DEF InPlace, StartInv, Stands
      <4>3. CASE ~InPlace(store)
        BY <2>0, <2>4, <4>1, <4>3, ApartOthers
      <4> QED
        BY <4>1, <4>2, <4>3
    <3>2. /\ thread[u].at = "genesis_read" => thread[u].stored = Genesis
          /\ thread[u].at \in Ahead \cup {"waiting"} => Indexes(u)
      BY <1>1 DEF StartInv, Stands
    <3> QED
      BY <1>2, <2>1, <2>4, <3>1, <3>2 DEF Stands, Ahead, Passed, Indexes
  <2>5. \A u \in Threads : Stands(u)'
    BY <2>2, <2>4
  <2>6. StartShapes'
    BY <1>1, <1>2, <2>1 DEF StartInv, StartShapes, Kept
  <2>7. (Alone \/ InPlace(store))'
    BY <2>3 DEF StartInv, Alone, InPlace
  <2> QED
    BY <2>1, <2>5, <2>6, <2>7 DEF StartInv
<1>3. CASE BeginCycle(t)
  <2>1. PICK last : last = IF store.cursor = 0 THEN Genesis - 1 ELSE store.cursor
    OBVIOUS
  <2>2. /\ store' = [store EXCEPT !.cursor = last]
        /\ thread' = [thread EXCEPT ![t] = [thread[t] EXCEPT !.at = "indexing", !.next = last + 1]]
    BY <1>1, <1>3, <2>1 DEF BeginCycle
  <2>3. last \in Nat /\ last >= Genesis - 1
    BY <1>1, <2>1 DEF Kept
  <2>4. store.rows = Genesis..last \ {0}
    <3>1. CASE store.cursor = 0
      <4>1. store.rows = Genesis..0 \ {0}
        BY <1>1, <3>1 DEF Kept
      <4> QED
        BY <1>1, <2>1, <3>1, <4>1
    <3>2. CASE store.cursor # 0
      BY <1>1, <2>1, <3>2 DEF Kept
    <3> QED
      BY <3>1, <3>2
  <2>5. PICK row : row = [thread[t] EXCEPT !.at = "indexing", !.next = last + 1]
    OBVIOUS
  <2>6. row \in Thread /\ row.at = "indexing" /\ row.next = last + 1
    <3>1. last + 1 \in Nat
      BY <2>3
    <3> QED
      BY <1>1, <2>5, <3>1 DEF Thread, Passed
  <2>7. /\ store' \in [legacy : BOOLEAN, genesis : Nat, cursor : Nat, rows : SUBSET Nat, root : SUBSET Nat]
        /\ store'.cursor = last /\ store'.genesis = Genesis /\ store'.rows = store.rows
        /\ store'.root = store.rows /\ ~store'.legacy
    BY <1>1, <2>2, <2>3 DEF Kept
  <2>8. Kept(store')
    BY <1>1, <2>3, <2>4, <2>7 DEF Kept
  <2>9. Onward(row)
    BY <2>2, <2>3, <2>5, <2>6, <2>7, <2>8
  <2> QED
    BY <2>9
<1>4. CASE WriteBlocks(t)
  <2>1. PICK last \in thread[t].next..(thread[t].next + Batch - 1) :
          /\ store' = [store EXCEPT !.rows = @ \cup ((thread[t].next..last) \ store.rows),
                                    !.root = (@ \ ((thread[t].next..last) \ store.rows))
                                             \cup (((thread[t].next..last) \ store.rows) \ @),
                                    !.cursor = IF last > @ THEN last ELSE @]
          /\ thread' = [thread EXCEPT ![t].next = last + 1]
    BY <1>4, Zenon DEF WriteBlocks
  <2>2. /\ thread[t].at = "indexing" /\ thread[t].next = store.cursor + 1
        /\ store.cursor \in Nat /\ store.cursor >= Genesis - 1
    <3>1. thread[t].at = "indexing"
      BY <1>4, Zenon DEF WriteBlocks, At
    <3> QED
      BY <1>1, <3>1 DEF StartInv, Stands, Kept
  <2>3. PICK c \in Nat : c = store.cursor
    BY <2>2
  <2>4. last \in Nat /\ c < last /\ thread[t].next = c + 1 /\ c >= Genesis - 1
    BY <1>1, <2>2, <2>3
  <2>5. store.rows = Genesis..c
    BY <1>1, <2>3 DEF Kept
  <2>6. PICK new : new = (c + 1)..last
    OBVIOUS
  <2>7. new \ store.rows = new /\ store.rows \cup new = Genesis..last
    BY <1>1, <2>4, <2>5, <2>6
  <2>8. (store.rows \ new) \cup (new \ store.rows) = Genesis..last
    BY <1>1, <2>4, <2>5, <2>6
  <2>9. /\ store'.rows = Genesis..last /\ store'.root = Genesis..last /\ store'.cursor = last
        /\ store'.genesis = Genesis /\ ~store'.legacy
        /\ store' \in [legacy : BOOLEAN, genesis : Nat, cursor : Nat, rows : SUBSET Nat, root : SUBSET Nat]
    <3>1. Genesis..last \in SUBSET Nat
      BY <1>1
    <3>2. store' = [store EXCEPT !.rows = Genesis..last, !.root = Genesis..last, !.cursor = last]
      <4>1. (thread[t].next..last) \ store.rows = new
        BY <2>4, <2>6, <2>7
      <4>2. last > store.cursor
        BY <2>3, <2>4
      <4> QED
        BY <1>1, <2>1, <2>7, <2>8, <4>1, <4>2
    <3> QED
      BY <1>1, <2>4, <3>1, <3>2 DEF Kept
  <2>10. Kept(store')
    <3>1. Genesis..last \ {0} = Genesis..last
      BY <1>1
    <3> QED
      BY <2>4, <2>9, <3>1 DEF Kept
  <2>11. PICK row : row = [thread[t] EXCEPT !.next = last + 1]
    OBVIOUS
  <2>12. row \in Thread /\ row.at = "indexing" /\ row.next = last + 1
    BY <1>1, <2>2, <2>4, <2>11 DEF Thread
  <2>13. store'.rows # {}
    <3>1. last \in Genesis..last
      BY <1>1, <2>4
    <3> QED
      BY <2>9, <3>1
  <2>14. thread' = [thread EXCEPT ![t] = row]
    BY <1>1, <2>1, <2>11
  <2>15. Onward(row)
    BY <1>1, <2>4, <2>9, <2>10, <2>12, <2>13, <2>14
  <2> QED
    BY <2>15
<1> QED
  BY <1>3, <1>4

LEMMA StartInvStep == StartInv /\ [StartNext]_startVars => StartInv'
<1> SUFFICES ASSUME StartInv, [StartNext]_startVars PROVE StartInv'
  OBVIOUS
<1>1. CASE \E r \in Replicas : Launch(r) \/ StartWorker(r)
  BY <1>1, Launches
<1>2. ASSUME NEW t \in Threads, Prepare(t) PROVE StartInv'
  <2>1. CASE Migrate(t) /\ store.legacy
    <3>1. thread[t].at # "off" /\ Ends(t) /\ store' = store
      BY <2>1 DEF Migrate, At
    <3> QED
      BY <3>1, EndsSoundly
  <2> QED
    BY <1>2, <2>1, LooksOnly, ChecksGenesis, Rebuilds DEF Prepare
<1>3. ASSUME NEW t \in Threads, Work(t) PROVE StartInv'
  <2>1. CASE VerifyChainAnchors(t)
    <3>1. CASE Ends(t)
      <4>1. thread[t].at # "off" /\ store' = store
        BY <2>1 DEF VerifyChainAnchors, At
      <4> QED
        BY <3>1, <4>1, EndsSoundly
    <3>2. CASE ~Ends(t)
      <4>1. Goes(t, "waiting") /\ UNCHANGED leading
        BY <2>1, <3>2 DEF VerifyChainAnchors
      <4> QED
        BY <2>1, <4>1, LooksOnly
    <3> QED
      BY <3>1, <3>2
  <2> QED
    BY <1>3, <2>1, LooksOnly, Writes DEF Work
<1>4. ASSUME NEW t \in Threads, Perish(t) PROVE StartInv'
  <2>1. thread[t].at # "off" /\ Ends(t) /\ store' = store
    BY <1>4 DEF Perish, At
  <2> QED
    BY <2>1, EndsSoundly
<1>5. CASE UNCHANGED startVars
  <2>1. thread' = thread /\ store' = store /\ leading' = leading
    BY <1>5 DEF startVars
  <2>2. \A t \in Threads : Stands(t)'
    BY <2>1, StandsOn DEF StartInv
  <2> QED
    BY <2>1, <2>2 DEF StartInv, StartShapes, InTandem, InPlace, Alone, Kept
<1> QED
  BY <1>1, <1>2, <1>3, <1>4, <1>5 DEF StartNext

\* A process that has the database to itself, whatever it finds, and any number
\* of processes that find root and genesis in place, keep the tables the
\* replay from the genesis to the cursor, and the root theirs, wherever starts
\* and batches are broken off (bootstrap.ts, sync-worker.ts).
THEOREM StartsSound ==
    ASSUME Alone \/ (\A db \in Stores : InPlace(db))
    PROVE  StartSpec => []ProjectionSound
<1>1. StartInit => StartInv
  BY StartInvInit
<1> QED
  BY <1>1, StartInvStep, StartInvMeans, PTL DEF StartSpec

\* The check that populates the root is safe on every boot, as its comment says,
\* for one process that finds any database, and for many that find the root in
\* place: what spoils it takes two that both find it missing.
THEOREM RootSafeForOne ==
    ASSUME Alone \/ (\A db \in Stores : InPlace(db))
    PROVE  StartSpec => []RootSafeOnEveryBoot
<1>1. ProjectionSound => RootSafeOnEveryBoot
  BY DEF ProjectionSound
<1> QED
  BY <1>1, StartsSound, PTL
-----------------------------------------------------------------------------
(* The pool: the rotation finds an endpoint.                                *)

\* How many of H stand before h.
Below(H, h) == Cardinality({g \in H : g < h})

\* Each place among the hosts of a set is taken.
LEMMA RankExists ==
    ASSUME NEW n \in Nat, NEW H \in SUBSET (1..n), NEW k \in Nat, k < Cardinality(H)
    PROVE  \E h \in H : Below(H, h) = k
<1>0. \A h \in H : h \in Nat /\ h \in 0..n
  OBVIOUS
<1>1. IsFiniteSet(H) /\ Cardinality(H) \in Nat
  <2>1. IsFiniteSet(1..n)
    BY FS_Interval
  <2> QED
    BY <2>1, FS_Subset, FS_CardinalityType
<1>2. ASSUME NEW h \in H PROVE /\ IsFiniteSet({g \in H : g < h}) /\ Below(H, h) \in Nat
  <2>1. {g \in H : g < h} \subseteq H
    OBVIOUS
  <2> QED
    BY <1>1, <2>1, FS_Subset, FS_CardinalityType DEF Below
<1> DEFINE S == {h \in H : Below(H, h) <= k}
<1>3. S \in SUBSET (0..n)
  BY <1>0
<1>4. S # {}
  <2>1. H # {} /\ H \in SUBSET Nat
    BY FS_EmptySet
  <2>2. Min(H) \in H /\ \A g \in H : Min(H) <= g
    BY <2>1, LowestOf
  <2>3. PICK m \in H : m = Min(H)
    BY <2>2
  <2>4. {g \in H : g < m} = {}
    <3> SUFFICES ASSUME NEW g \in H, g < m PROVE FALSE
      OBVIOUS
    <3>1. g \in Nat /\ m \in Nat /\ m <= g
      BY <1>0, <2>2, <2>3
    <3> QED
      BY <3>1
  <2>5. Below(H, m) = 0
    BY <2>4, FS_EmptySet DEF Below
  <2> QED
    BY <2>5
<1> HIDE DEF S
<1>5. Max(S) \in S /\ \A h \in S : h <= Max(S)
  BY <1>3, <1>4, HighestOf
<1>6. PICK m \in H : m \in S /\ Below(H, m) <= k /\ \A h \in S : h <= m
  BY <1>5 DEF S
<1>7. PICK l \in Nat : l = Below(H, m)
  BY <1>2
<1> SUFFICES ASSUME l < k PROVE FALSE
  BY <1>6, <1>7
<1> DEFINE L == {g \in H : g < m}
           U == H \ (L \cup {m})
<1>8. IsFiniteSet(L) /\ Cardinality(L) = l /\ m \notin L
  BY <1>2, <1>7 DEF Below
<1>9. IsFiniteSet(L \cup {m}) /\ Cardinality(L \cup {m}) = l + 1
  BY <1>8, FS_AddElement
<1>10. U # {}
  <2> SUFFICES ASSUME U = {} PROVE FALSE
    OBVIOUS
  <2>1. H = L \cup {m}
    OBVIOUS
  <2>2. Cardinality(H) = l + 1
    BY <1>9, <2>1
  <2> QED
    BY <2>2
<1>11. U \in SUBSET Nat /\ \A u \in U : u > m
  <2> SUFFICES ASSUME NEW u \in H, u \notin L, u # m PROVE u \in Nat /\ u > m
    BY <1>0
  <2>1. u \in Nat /\ m \in Nat /\ ~(u < m)
    BY <1>0
  <2> QED
    BY <2>1
<1> HIDE DEF U
<1>12. Min(U) \in U /\ \A u \in U : Min(U) <= u
  BY <1>10, <1>11, LowestOf
<1>13. PICK q \in U : \A u \in U : q <= u
  BY <1>12
<1>14. q \in H /\ q > m /\ {g \in H : g < q} = L \cup {m}
  <2>1. q \in H /\ q > m /\ q \in Nat /\ m \in Nat
    BY <1>0, <1>11, <1>13 DEF U
  <2>2. ASSUME NEW g \in H, g < q PROVE g \in L \cup {m}
    <3>1. g \in Nat /\ ~(q <= g)
      BY <1>0, <2>1, <2>2
    <3> QED
      BY <1>13, <3>1 DEF U
  <2>3. ASSUME NEW g \in L PROVE g < q
    <3>1. g \in Nat /\ g < m
      BY <1>0
    <3> QED
      BY <2>1, <3>1
  <2> QED
    BY <2>1, <2>2, <2>3
<1>15. Below(H, q) = l + 1
  BY <1>9, <1>14 DEF Below
<1>16. q \in S
  BY <1>14, <1>15 DEF S
<1> QED
  BY <1>6, <1>14, <1>16

LEMMA NthIs ==
    ASSUME NEW H \in SUBSET Hosts, H # {}, NEW n \in Nat
    PROVE  Nth(H, n) \in H
<1>1. Endpoints \in Nat /\ H \in SUBSET (1..Endpoints)
  <2>1. Endpoints \in Nat \ {0}
    BY AccessAssumption
  <2> QED
    BY <2>1 DEF Hosts
<1>2. IsFiniteSet(H)
  <2>1. IsFiniteSet(1..Endpoints)
    BY <1>1, FS_Interval
  <2> QED
    BY <1>1, <2>1, FS_Subset
<1>3. Cardinality(H) \in Nat /\ Cardinality(H) # 0
  BY <1>2, FS_CardinalityType, FS_EmptySet
<1>4. PICK c \in Nat : c = Cardinality(H) /\ c > 0
  BY <1>3
<1>5. n % c \in Nat /\ n % c < c
  BY <1>4
<1>6. PICK k \in Nat : k = n % Cardinality(H) /\ k < Cardinality(H)
  BY <1>4, <1>5
<1>7. \E h \in H : Below(H, h) = k
  BY <1>1, <1>6, RankExists
<1> QED
  BY <1>6, <1>7, Zenon DEF Nth, Below

-----------------------------------------------------------------------------
(* The head: the middle of the answers is one of them.                      *)

Earlier(answers, a) == {h \in DOMAIN answers : Before(answers[h], a)}
UpTo(answers, a) == {h \in DOMAIN answers : ~Before(a, answers[h])}

\* There is an answer at each place: the last of those that stand no higher.
LEMMA RankedIs ==
    ASSUME NEW up, IsFiniteSet(up), NEW answers \in [up -> [head : Nat, lib : Nat]],
           NEW k \in Nat, k < Cardinality(up)
    PROVE  LET a == Ranked(answers, k)
           IN  /\ a \in [head : Nat, lib : Nat]
               /\ Cardinality(Earlier(answers, a)) <= k
               /\ Cardinality(UpTo(answers, a)) > k
<1> DEFINE Answer == [head : Nat, lib : Nat]
           n == Cardinality(up)
           low(a) == Cardinality(Earlier(answers, a))
           high(a) == Cardinality(UpTo(answers, a))
<1>1. n \in Nat
  BY FS_CardinalityType
<1>2. ASSUME NEW a \in Answer
      PROVE  /\ Earlier(answers, a) \in SUBSET up /\ UpTo(answers, a) \in SUBSET up
             /\ IsFiniteSet(Earlier(answers, a)) /\ IsFiniteSet(UpTo(answers, a))
             /\ low(a) \in Nat /\ high(a) \in Nat /\ low(a) \in 0..n /\ high(a) \in 0..n
  <2>1. Earlier(answers, a) \in SUBSET up /\ UpTo(answers, a) \in SUBSET up
    BY DEF Earlier, UpTo
  <2> QED
    BY <1>1, <2>1, FS_Subset, FS_CardinalityType
<1>3. ASSUME NEW a \in Answer, NEW h \in up, Before(a, answers[h])
      PROVE  high(a) < high(answers[h])
  <2>1. answers[h] \in Answer /\ h \in UpTo(answers, answers[h]) /\ h \notin UpTo(answers, a)
    BY <1>3 DEF UpTo, Before
  <2>2. UpTo(answers, a) \subseteq UpTo(answers, answers[h])
    BY <1>3, <2>1 DEF UpTo, Before
  <2>3. high(a) <= high(answers[h]) /\ high(a) # high(answers[h])
    BY <1>2, <2>1, <2>2, FS_Subset
  <2> QED
    BY <1>2, <2>1, <2>3
<1>4. ASSUME NEW g \in up, NEW h \in up, Before(answers[g], answers[h])
      PROVE  low(answers[g]) < low(answers[h])
  <2>1. answers[g] \in Answer /\ answers[h] \in Answer /\ g \in Earlier(answers, answers[h])
        /\ g \notin Earlier(answers, answers[g])
    BY <1>4 DEF Earlier, Before
  <2>2. Earlier(answers, answers[g]) \subseteq Earlier(answers, answers[h])
    BY <1>4, <2>1 DEF Earlier, Before
  <2>3. low(answers[g]) <= low(answers[h]) /\ low(answers[g]) # low(answers[h])
    BY <1>2, <2>1, <2>2, FS_Subset
  <2> QED
    BY <1>2, <2>1, <2>3
<1>5. ASSUME NEW G \in SUBSET up, G # {}
      PROVE  \E h \in G : \A g \in G : ~Before(answers[g], answers[h])
  <2> DEFINE M == {low(answers[h]) : h \in G}
  <2>1. M \in SUBSET Nat /\ M # {}
    BY <1>2, <1>5
  <2> HIDE DEF M
  <2>2. Min(M) \in M /\ \A x \in M : Min(M) <= x
    BY <2>1, LowestOf
  <2>3. PICK x \in M : \A y \in M : x <= y
    BY <2>2
  <2>4. PICK h \in G : x = low(answers[h])
    BY <2>3 DEF M
  <2>5. ASSUME NEW g \in G, Before(answers[g], answers[h]) PROVE FALSE
    <3>1. low(answers[g]) < low(answers[h])
      BY <1>4, <2>5
    <3>2. low(answers[h]) <= low(answers[g])
      BY <2>3, <2>4 DEF M
    <3> QED
      BY <1>2, <3>1, <3>2
  <2> QED
    BY <2>5
<1> DEFINE A == {a \in Range(answers) : low(a) <= k}
<1>6. A # {} /\ A \subseteq Answer
  <2>1. up # {}
    BY FS_EmptySet
  <2>2. PICK h \in up : \A g \in up : ~Before(answers[g], answers[h])
    BY <1>5, <2>1
  <2>3. Earlier(answers, answers[h]) = {}
    BY <2>2 DEF Earlier
  <2>4. low(answers[h]) = 0
    BY <2>3, FS_EmptySet
  <2>5. answers[h] \in A
    BY <2>4 DEF Range
  <2> QED
    BY <2>5 DEF Range
<1>7. PICK a \in A : \A b \in A : high(b) <= high(a)
  <2> DEFINE M == {high(a) : a \in A}
  <2>1. M \in SUBSET (0..n) /\ M # {}
    BY <1>2, <1>6
  <2> HIDE DEF M
  <2>2. Max(M) \in M /\ \A x \in M : x <= Max(M)
    BY <1>1, <2>1, HighestOf
  <2>3. PICK x \in M : \A y \in M : y <= x
    BY <2>2
  <2> QED
    BY <2>3 DEF M
<1>8. a \in Answer /\ a \in Range(answers) /\ low(a) <= k
  BY <1>6
<1>9. high(a) > k
  <2> SUFFICES ASSUME high(a) <= k PROVE FALSE
    BY <1>2, <1>8
  <2> DEFINE G == {h \in up : Before(a, answers[h])}
  <2>1. G # {}
    <3> SUFFICES ASSUME G = {} PROVE FALSE
      OBVIOUS
    <3>1. UpTo(answers, a) = up
      BY DEF UpTo
    <3> QED
      BY <1>1, <3>1
  <2>2. PICK h \in G : \A g \in G : ~Before(answers[g], answers[h])
    BY <1>5, <2>1
  <2>3. Earlier(answers, answers[h]) \subseteq UpTo(answers, a)
    BY <2>2 DEF Earlier, UpTo
  <2>4. low(answers[h]) <= high(a)
    BY <1>2, <1>8, <2>3, FS_Subset
  <2>5. answers[h] \in A
    <3>1. low(answers[h]) <= k
      BY <1>2, <1>8, <2>4
    <3> QED
      BY <3>1 DEF Range
  <2>6. high(a) < high(answers[h])
    BY <1>3, <1>8, <2>2
  <2> QED
    BY <1>2, <1>7, <1>8, <2>5, <2>6
<1>10. LET c == Ranked(answers, k)
       IN  c \in Range(answers) /\ low(c) <= k /\ high(c) > k
  BY <1>8, <1>9, Zenon DEF Ranked, Earlier, UpTo
<1> QED
  BY <1>10 DEF Range

\* The lower of two middles has more than half of the answers at or above it,
\* and at least half at or below it (head-consensus.ts): whatever endpoints
\* answer, and with whatever heads, the agreed one is backed.
THEOREM HeadsBacked == AccessSpec => []HeadIsBacked
<1>1. AccessInit => HeadIsBacked
  <2> SUFFICES ASSUME AccessInit PROVE HeadIsBacked
    OBVIOUS
  <2>1. DOMAIN agreed.of = {}
    BY DEF AccessInit
  <2>2. Cardinality(DOMAIN agreed.of) = 0
    BY <2>1, FS_EmptySet
  <2> QED
    BY <2>2 DEF HeadIsBacked
<1>2. HeadIsBacked /\ [AccessNext]_accessVars => HeadIsBacked'
  <2> SUFFICES ASSUME HeadIsBacked, [AccessNext]_accessVars PROVE HeadIsBacked'
    OBVIOUS
  <2>1. CASE agreed' = agreed
    BY <2>1 DEF HeadIsBacked
  <2>2. ASSUME NEW up \in SUBSET Hosts, NEW reported \in [Hosts -> Heads], AgreeOnHead(up, reported)
        PROVE  HeadIsBacked'
    <3>1. PICK answers : answers = [h \in up |-> reported[h]]
      OBVIOUS
    <3>2. answers \in [up -> [head : Nat, lib : Nat]] /\ DOMAIN answers = up
      BY <3>1, AccessAssumption
    <3>3. PICK a : a = LowerMedian(answers)
      OBVIOUS
    <3>4. agreed' = [head |-> a, of |-> answers] /\ up # {}
      BY <2>2, <3>1, <3>3 DEF AgreeOnHead
    <3>5. IsFiniteSet(up)
      <4>1. Endpoints \in Nat
        BY AccessAssumption
      <4>2. IsFiniteSet(1..Endpoints)
        BY <4>1, FS_Interval
      <4> QED
        BY <4>2, FS_Subset DEF Hosts
    <3>6. PICK n \in Nat : n = Cardinality(up) /\ n > 0
      <4>1. Cardinality(up) \in Nat /\ Cardinality(up) # 0
        BY <3>4, <3>5, FS_CardinalityType, FS_EmptySet
      <4> QED
        BY <4>1
    <3>7. PICK k \in Nat : k = (n - 1) \div 2 /\ k < n /\ 2 * k <= n - 1 /\ n <= 2 * k + 2
      <4>1. n \in Nat /\ n > 0
        BY <3>6
      <4> QED
        BY <4>1
    <3>8. /\ a \in [head : Nat, lib : Nat]
          /\ Cardinality(Earlier(answers, a)) <= k /\ Cardinality(UpTo(answers, a)) > k
      <4>1. a = Ranked(answers, k)
        BY <3>2, <3>3, <3>6, <3>7 DEF LowerMedian
      <4>2. k < Cardinality(up)
        BY <3>6, <3>7
      <4> QED
        BY <3>2, <3>5, <4>1, <4>2, RankedIs
    <3> DEFINE lower == {h \in up : answers[h].lib < a.lib}
               reached == {h \in up : answers[h].lib >= a.lib}
               unpassed == {h \in up : answers[h].lib <= a.lib}
    <3>9. \A h \in up : answers[h].lib \in Nat /\ answers[h].head \in Nat
      BY <3>2
    <3>10. lower \subseteq Earlier(answers, a) /\ UpTo(answers, a) \subseteq unpassed
      BY <3>2, <3>8, <3>9 DEF Earlier, UpTo, Before
    <3>11. /\ Earlier(answers, a) \in SUBSET up /\ lower \in SUBSET up /\ reached \in SUBSET up
           /\ unpassed \in SUBSET up /\ UpTo(answers, a) \in SUBSET up
      BY <3>2 DEF Earlier, UpTo
    <3>12. /\ IsFiniteSet(Earlier(answers, a)) /\ IsFiniteSet(lower) /\ IsFiniteSet(reached)
           /\ IsFiniteSet(unpassed) /\ IsFiniteSet(UpTo(answers, a))
      BY <3>5, <3>11, FS_Subset
    <3>13. lower \cup reached = up /\ lower \cap reached = {}
      BY <3>8, <3>9
    <3> HIDE DEF lower, reached, unpassed
    <3>14. PICK x \in Nat : x = Cardinality(lower)
      BY <3>12, FS_CardinalityType
    <3>15. PICK y \in Nat : y = Cardinality(reached)
      BY <3>12, FS_CardinalityType
    <3>16. PICK z \in Nat : z = Cardinality(unpassed)
      BY <3>12, FS_CardinalityType
    <3>17. PICK e \in Nat : e = Cardinality(Earlier(answers, a))
      BY <3>12, FS_CardinalityType
    <3>18. PICK u \in Nat : u = Cardinality(UpTo(answers, a))
      BY <3>12, FS_CardinalityType
    <3>19. x <= e
      BY <3>10, <3>12, <3>14, <3>17, FS_Subset
    <3>20. u <= z
      BY <3>10, <3>12, <3>16, <3>18, FS_Subset
    <3>21. n = x + y
      <4>1. Cardinality(lower \cup reached) =
              Cardinality(lower) + Cardinality(reached) - Cardinality(lower \cap reached)
        BY <3>12, FS_Union
      <4>2. Cardinality(lower \cap reached) = 0
        BY <3>13, FS_EmptySet
      <4> QED
        BY <3>6, <3>13, <3>14, <3>15, <4>1, <4>2
    <3>22. e <= k /\ u > k
      BY <3>8, <3>17, <3>18
    <3>23. 2 * y > n /\ 2 * z >= n
      BY <3>7, <3>19, <3>20, <3>21, <3>22
    <3>24. 2 * Cardinality(reached) > n /\ 2 * Cardinality(unpassed) >= n
      BY <3>15, <3>16, <3>23
    <3>25. /\ agreed'.head = a /\ agreed'.of = answers /\ DOMAIN agreed'.of = up
      BY <3>2, <3>4
    <3> QED
      BY <3>6, <3>24, <3>25 DEF HeadIsBacked, reached, unpassed
  <2>3. CASE HeadNext
    BY <2>2, <2>3 DEF HeadNext
  <2>4. CASE CallsNext
    <3>1. agreed' = agreed
      <4>1. ASSUME NEW c \in Callers, Ask(c) PROVE agreed' = agreed
        BY <4>1, Zenon DEF Ask
      <4> QED
        BY <2>4, <4>1 DEF CallsNext, Pass, Serve, Refuse
    <3> QED
      BY <2>1, <3>1
  <2>5. CASE UNCHANGED accessVars
    BY <2>1, <2>5 DEF accessVars
  <2> QED
    BY <2>3, <2>4, <2>5 DEF AccessNext
<1> QED
  BY <1>1, <1>2, PTL DEF AccessSpec

-----------------------------------------------------------------------------
(* Ranges: what a call has tried and what it has read.                      *)

BreakerRow == [state : {"closed", "open", "half_open"}, fails : Nat, cooldown : Nat,
               openUntil : Nat, limitedUntil : Nat]

PoolShapes ==
    moment \in Nat /\ turn \in Nat /\ breaker \in [Hosts -> BreakerRow]

\* There are some hosts, and finitely many.
LEMMA HostsAre ==
    /\ Hosts \in SUBSET Nat /\ IsFiniteSet(Hosts) /\ Cardinality(Hosts) = Endpoints
    /\ Hosts # {} /\ Endpoints \in Nat \ {0}
<1>1. Endpoints \in Nat \ {0}
  BY AccessAssumption
<1>2. IsFiniteSet(1..Endpoints) /\ Cardinality(1..Endpoints) = Endpoints
  BY <1>1, FS_Interval
<1>3. 1 \in 1..Endpoints
  BY <1>1
<1> QED
  BY <1>1, <1>2, <1>3 DEF Hosts

\* Whoever is selected is in the pool: an endpoint that was not excluded, as
\* long as there is one.
LEMMA SelectIs ==
    ASSUME PoolShapes, NEW excluded
    PROVE  /\ Select(excluded).host \in Hosts
           /\ ~(Hosts \subseteq excluded) => Select(excluded).host \notin excluded
           /\ Select(excluded).breaker \in [Hosts -> BreakerRow]
<1> DEFINE pool == IF Hosts \subseteq excluded THEN Hosts ELSE Hosts \ excluded
           b == Cooled(pool)
           patient == {h \in pool : b[h].limitedUntil <= moment}
           some == IF patient = {} \/ Cardinality(pool) = 1 THEN pool ELSE patient
           inTurn == Cardinality(pool) > 1 /\ InState(some, b, "closed") # {}
           soonest == {h \in some : \A g \in some : b[h].openUntil <= b[g].openUntil}
           host == CASE inTurn -> Nth(InState(some, b, "closed"), turn)
                     [] ~inTurn /\ InState(some, b, "half_open") # {} -> Min(InState(some, b, "half_open"))
                     [] OTHER -> Min(soonest)
<1>1. Select(excluded) =
        [host |-> host, inTurn |-> inTurn,
         breaker |-> IF b[host].state = "open" THEN [b EXCEPT ![host].state = "half_open"] ELSE b]
  BY Zenon DEF Select
<1>2. pool \in SUBSET Hosts /\ pool # {} /\ (~(Hosts \subseteq excluded) => pool \cap excluded = {})
  BY HostsAre
<1> HIDE DEF pool
<1>3. b \in [Hosts -> BreakerRow]
  BY DEF Cooled, PoolShapes, BreakerRow
<1> HIDE DEF b
<1>4. some \in SUBSET pool /\ some # {}
  BY <1>2
<1> HIDE DEF some
<1>5. soonest # {} /\ soonest \in SUBSET some
  <2> DEFINE M == {b[h].openUntil : h \in some}
  <2>1. M \in SUBSET Nat /\ M # {}
    BY <1>2, <1>3, <1>4 DEF BreakerRow
  <2> HIDE DEF M
  <2>2. Min(M) \in M /\ \A x \in M : Min(M) <= x
    BY <2>1, LowestOf
  <2>3. PICK x \in M : \A y \in M : x <= y
    BY <2>2
  <2> QED
    BY <2>3 DEF M
<1> HIDE DEF soonest
<1>6. InState(some, b, "closed") \in SUBSET some /\ InState(some, b, "half_open") \in SUBSET some
  BY DEF InState
<1>7. ASSUME inTurn PROVE host \in some
  <2>1. host = Nth(InState(some, b, "closed"), turn)
    BY <1>7
  <2>2. InState(some, b, "closed") # {} /\ InState(some, b, "closed") \in SUBSET Hosts
    BY <1>2, <1>4, <1>6, <1>7
  <2>3. Nth(InState(some, b, "closed"), turn) \in InState(some, b, "closed")
    BY <2>2, NthIs DEF PoolShapes
  <2> QED
    BY <1>6, <2>1, <2>3
<1>8. ASSUME ~inTurn, InState(some, b, "half_open") # {} PROVE host \in some
  <2>1. host = Min(InState(some, b, "half_open"))
    BY <1>8
  <2>2. InState(some, b, "half_open") \in SUBSET Nat
    BY <1>2, <1>4, <1>6, HostsAre
  <2>3. Min(InState(some, b, "half_open")) \in InState(some, b, "half_open")
    BY <1>8, <2>2, LowestOf
  <2> QED
    BY <1>6, <2>1, <2>3
<1>9. ASSUME ~inTurn, InState(some, b, "half_open") = {} PROVE host \in some
  <2>1. host = Min(soonest)
    BY <1>9
  <2>2. soonest \in SUBSET Nat
    BY <1>2, <1>4, <1>5, HostsAre
  <2>3. Min(soonest) \in soonest
    BY <1>5, <2>2, LowestOf
  <2> QED
    BY <1>5, <2>1, <2>3
<1>10. host \in some
  BY <1>7, <1>8, <1>9
<1> HIDE DEF host, inTurn
<1>11. host \in pool /\ host \in Hosts
  BY <1>2, <1>4, <1>10
<1>12. [b EXCEPT ![host].state = "half_open"] \in [Hosts -> BreakerRow]
  BY <1>3, <1>11 DEF BreakerRow
<1> DEFINE changed == IF b[host].state = "open" THEN [b EXCEPT ![host].state = "half_open"] ELSE b
<1>13. Select(excluded) = [host |-> host, inTurn |-> inTurn, breaker |-> changed]
  BY <1>1
<1>14. changed \in [Hosts -> BreakerRow]
  BY <1>3, <1>12
<1> HIDE DEF changed
<1>15. ~(Hosts \subseteq excluded) => host \notin excluded
  BY <1>2, <1>11
<1> QED
  BY <1>11, <1>13, <1>14, <1>15

\* What a client has read of a book, page after page.
Pages(book, t, m) == t = [n \in 0..m |-> IF n = 0 THEN Unread ELSE PageTurned(book, t[n - 1])]

LEMMA PagesExist ==
    ASSUME NEW book, NEW m \in Nat
    PROVE  \E t : Pages(book, t, m)
<1> DEFINE S == {k \in Nat : \E t : Pages(book, t, k)}
<1>1. 0 \in S
  <2> DEFINE t == [n \in 0..0 |-> Unread]
  <2>1. t = [n \in 0..0 |-> IF n = 0 THEN Unread ELSE PageTurned(book, t[n - 1])]
    <3>1. \A n \in 0..0 : n = 0
      OBVIOUS
    <3> QED
      BY <3>1
  <2>2. Pages(book, t, 0)
    BY <2>1, Zenon DEF Pages
  <2> QED
    BY <2>2
<1>2. ASSUME NEW k \in Nat, k \in S PROVE k + 1 \in S
  <2>1. PICK t : Pages(book, t, k)
    BY <1>2
  <2> DEFINE h == [n \in 0..(k + 1) |-> IF n = k + 1 THEN PageTurned(book, t[k]) ELSE t[n]]
  <2>2. ASSUME NEW n \in 0..(k + 1)
        PROVE  h[n] = IF n = 0 THEN Unread ELSE PageTurned(book, h[n - 1])
    <3>1. CASE n = 0
      <4>1. n \in 0..k /\ n # k + 1
        BY <3>1
      <4>2. h[n] = t[n] /\ t[n] = Unread
        BY <2>1, <3>1, <4>1 DEF Pages
      <4> QED
        BY <3>1, <4>2
    <3>2. CASE n # 0 /\ n # k + 1
      <4>1. n \in 0..k /\ n - 1 \in 0..(k + 1) /\ n - 1 # k + 1
        BY <3>2
      <4>2. h[n] = t[n] /\ h[n - 1] = t[n - 1]
        BY <3>2, <4>1
      <4>3. t[n] = PageTurned(book, t[n - 1])
        BY <2>1, <3>2, <4>1 DEF Pages
      <4> QED
        BY <3>2, <4>2, <4>3
    <3>3. CASE n = k + 1
      <4>1. n # 0 /\ n - 1 = k /\ k \in 0..(k + 1) /\ k # k + 1
        BY <3>3
      <4>2. h[n] = PageTurned(book, t[k]) /\ h[k] = t[k]
        BY <3>3, <4>1
      <4> QED
        BY <4>1, <4>2
    <3> QED
      BY <3>1, <3>2, <3>3
  <2>3. h = [n \in 0..(k + 1) |-> h[n]]
    OBVIOUS
  <2> HIDE DEF h
  <2>4. h = [n \in 0..(k + 1) |-> IF n = 0 THEN Unread ELSE PageTurned(book, h[n - 1])]
    BY <2>2, <2>3, Zenon
  <2>5. Pages(book, h, k + 1)
    BY <2>4, Zenon DEF Pages
  <2> QED
    BY <2>5
<1> HIDE DEF S
<1>3. m \in S
  BY <1>1, <1>2, SetInduction
<1> QED
  BY <1>3 DEF S

LEMMA ReadingIs ==
    ASSUME NEW book
    PROVE  \E t : /\ Reading(book) = t[MaxPages] /\ t[0] = Unread
                  /\ \A n \in 1..MaxPages : t[n] = PageTurned(book, t[n - 1])
<1>1. MaxPages \in Nat
  BY AccessAssumption
<1> DEFINE t == CHOOSE f : f = [n \in 0..MaxPages |-> IF n = 0 THEN Unread ELSE PageTurned(book, f[n - 1])]
<1>2. Pages(book, t, MaxPages)
  BY <1>1, PagesExist, Zenon DEF Pages
<1>3. Reading(book) = t[MaxPages]
  BY Zenon DEF Reading
<1> HIDE DEF t
<1>4. t[0] = Unread
  <2>1. 0 \in 0..MaxPages
    BY <1>1
  <2> QED
    BY <1>2, <2>1 DEF Pages
<1>5. ASSUME NEW n \in 1..MaxPages PROVE t[n] = PageTurned(book, t[n - 1])
  <2>1. n \in 0..MaxPages /\ n # 0
    BY <1>1
  <2> QED
    BY <1>2, <2>1 DEF Pages
<1> QED
  BY <1>3, <1>4, <1>5

Tally(r) ==
    r = [ops |-> r.ops, ids |-> r.ids, cursor |-> r.cursor, seen |-> r.seen, status |-> r.status]

TakenOn(book, was, now) ==
    /\ Readable(book[was.cursor]) /\ Fitting(book[was.cursor], was.ids)
    /\ now.ops = was.ops \o Ours(book[was.cursor].ops)
    /\ now.ids = was.ids \cup IdsOn(book[was.cursor])
    /\ now.cursor = book[was.cursor].next
    /\ now.status \in {"more", "done"} /\ (now.status = "done" <=> now.cursor = NoCursor)

LEMMA TurnIs ==
    ASSUME NEW book, NEW was, Tally(was), NEW now, now = PageTurned(book, was)
    PROVE  /\ Tally(now)
           /\ was.status # "more" => now = was
           /\ was.status = "more" => now.status = "error" \/ TakenOn(book, was, now)
<1> DEFINE page == book[was.cursor]
           fits == Readable(page) /\ Fitting(page, was.ids)
           status == CASE page.next = NoCursor -> "done"
                       [] page.next # NoCursor /\ page.next \in was.seen \cup {was.cursor} -> "error"
                       [] OTHER -> "more"
           next == [ops |-> was.ops \o Ours(page.ops), ids |-> was.ids \cup IdsOn(page),
                    cursor |-> page.next, seen |-> was.seen \cup {was.cursor}, status |-> status]
<1>1. now = IF was.status # "more" THEN was
            ELSE IF ~fits THEN [was EXCEPT !.status = "error"] ELSE next
  BY Zenon DEF PageTurned
<1>2. status = "error" \/ (status \in {"more", "done"} /\ (status = "done" <=> page.next = NoCursor))
  OBVIOUS
<1>3. CASE was.status # "more"
  BY <1>1, <1>3
<1>4. CASE was.status = "more" /\ ~fits
  <2>1. now = [was EXCEPT !.status = "error"]
    BY <1>1, <1>4
  <2> HIDE DEF fits, status, next, page
  <2>2. now = [ops |-> was.ops, ids |-> was.ids, cursor |-> was.cursor, seen |-> was.seen, status |-> "error"]
    BY <2>1 DEF Tally
  <2> QED
    BY <1>4, <2>2 DEF Tally
<1>5. CASE was.status = "more" /\ fits
  <2>1. now = next
    BY <1>1, <1>5
  <2>2. PICK s : s = status
    OBVIOUS
  <2>3. now = [ops |-> was.ops \o Ours(page.ops), ids |-> was.ids \cup IdsOn(page),
               cursor |-> page.next, seen |-> was.seen \cup {was.cursor}, status |-> s]
    BY <2>1, <2>2, Zenon
  <2>4. s = "error" \/ (s \in {"more", "done"} /\ (s = "done" <=> page.next = NoCursor))
    BY <1>2, <2>2, Zenon
  <2> HIDE DEF status, next
  <2>5. /\ now.ops = was.ops \o Ours(page.ops) /\ now.ids = was.ids \cup IdsOn(page)
        /\ now.cursor = page.next /\ now.status = s /\ Tally(now)
    <3> DEFINE o == was.ops \o Ours(page.ops)
               i == was.ids \cup IdsOn(page)
               e == was.seen \cup {was.cursor}
               c == page.next
    <3>1. now = [ops |-> o, ids |-> i, cursor |-> c, seen |-> e, status |-> s]
      BY <2>3, Zenon
    <3> HIDE DEF o, i, e, c
    <3>2. now.ops = o /\ now.ids = i /\ now.cursor = c /\ now.status = s /\ Tally(now)
      BY <3>1 DEF Tally
    <3> QED
      BY <3>2 DEF o, i, c
  <2>6. now.status = "error" \/ TakenOn(book, was, now)
    BY <1>5, <2>4, <2>5 DEF TakenOn
  <2> QED
    BY <1>5, <2>5, <2>6
<1> QED
  BY <1>3, <1>4, <1>5

LEMMA Joined ==
    ASSUME NEW S, NEW s \in Seq(S), NEW a \in Nat, NEW b \in Nat, a <= b, b <= Len(s)
    PROVE  SubSeq(s, 1, a) \o SubSeq(s, a + 1, b) = SubSeq(s, 1, b)
OBVIOUS

LEMMA FitsFewer ==
    ASSUME NEW page, NEW seen, NEW fewer, fewer \subseteq seen, Fitting(page, seen)
    PROVE  Fitting(page, fewer)
BY Zenon DEF Fitting

LEMMA ReadWhole ==
    ASSUME NEW book \in Books, Reading(book).status = "done"
    PROVE  Reading(book).ops = Wanted
<1>0. MaxPages \in Nat \ {0}
  BY AccessAssumption
<1>1. PICK t : /\ Reading(book) = t[MaxPages] /\ t[0] = Unread
               /\ \A n \in 1..MaxPages : t[n] = PageTurned(book, t[n - 1])
  BY ReadingIs
<1>2. ASSUME NEW n \in 0..MaxPages PROVE Tally(t[n])
  <2> DEFINE S == {m \in Nat : m <= MaxPages => Tally(t[m])}
  <2>1. 0 \in S
    BY <1>1 DEF Tally, Unread
  <2>2. ASSUME NEW m \in Nat, m \in S PROVE m + 1 \in S
    <3> SUFFICES ASSUME m + 1 <= MaxPages PROVE Tally(t[m + 1])
      OBVIOUS
    <3>1. m + 1 \in 1..MaxPages /\ (m + 1) - 1 = m /\ m <= MaxPages
      BY <1>0
    <3> QED
      BY <1>1, <2>2, <3>1, TurnIs
  <2> HIDE DEF S
  <2>3. n \in S
    BY <1>0, <2>1, <2>2, SetInduction
  <2> QED
    BY <1>0, <2>3 DEF S
<1>3. ASSUME NEW n \in 1..MaxPages
      PROVE  /\ t[n - 1].status # "more" => t[n] = t[n - 1]
             /\ t[n - 1].status = "more" => t[n].status = "error" \/ TakenOn(book, t[n - 1], t[n])
  <2>1. n - 1 \in 0..MaxPages
    BY <1>0
  <2> QED
    BY <1>1, <1>2, <2>1, TurnIs
<1> DEFINE Until(n, k) == /\ t[k].status = "done" /\ t[n] = t[k]
                          /\ \A i \in 0..(k - 1) : t[i].status = "more"
           Read(n) == \/ t[n].status = "error" \/ \A i \in 0..n : t[i].status = "more"
                      \/ \E k \in 1..n : Until(n, k)
<1>4. Read(MaxPages)
  <2> DEFINE S == {n \in Nat : n <= MaxPages => Read(n)}
  <2>1. 0 \in S
    BY <1>1 DEF Unread
  <2>2. ASSUME NEW n \in Nat, n \in S PROVE n + 1 \in S
    <3> SUFFICES ASSUME n + 1 <= MaxPages PROVE Read(n + 1)
      OBVIOUS
    <3>1. PICK m \in Nat : m = n + 1
      OBVIOUS
    <3>2. m \in 1..MaxPages /\ m - 1 = n /\ n <= MaxPages
      BY <1>0, <3>1
    <3>3. Read(n)
      BY <2>2, <3>2
    <3>4. CASE t[n].status = "error"
      BY <1>3, <3>1, <3>2, <3>4
    <3>5. ASSUME \A i \in 0..n : t[i].status = "more" PROVE Read(n + 1)
      <4>1. t[n].status = "more"
        BY <3>5
      <4>2. t[m].status = "error" \/ t[m].status \in {"more", "done"}
        BY <1>3, <3>2, <4>1 DEF TakenOn
      <4>3. \A i \in 0..(m - 1) : t[i].status = "more"
        BY <3>2, <3>5
      <4>4. ASSUME t[m].status = "done" PROVE Read(m)
        <5>1. Until(m, m)
          BY <4>3, <4>4
        <5>2. m \in 1..m
          BY <3>2
        <5> QED
          BY <5>1, <5>2
      <4>5. ASSUME t[m].status = "more" PROVE Read(m)
        <5>1. \A i \in 0..m : i = m \/ i \in 0..(m - 1)
          BY <3>2
        <5> QED
          BY <4>3, <4>5, <5>1
      <4> QED
        BY <3>1, <4>2, <4>4, <4>5
    <3>6. ASSUME NEW k \in 1..n, Until(n, k) PROVE Read(n + 1)
      <4>1. t[n].status = "done"
        BY <3>6
      <4>2. t[m] = t[n]
        BY <1>3, <3>2, <4>1
      <4>3. k \in 1..m /\ Until(m, k)
        BY <3>2, <3>6, <4>2
      <4> QED
        BY <3>1, <4>3
    <3> QED
      BY <3>3, <3>4, <3>5, <3>6
  <2> HIDE DEF S
  <2>3. MaxPages \in S
    BY <1>0, <2>1, <2>2, SetInduction
  <2> QED
    BY <1>0, <2>3 DEF S
<1>5. PICK k \in 1..MaxPages : Until(MaxPages, k)
  <2>1. t[MaxPages].status = "done" /\ MaxPages \in 0..MaxPages
    BY <1>0, <1>1
  <2> QED
    BY <1>4, <2>1
<1>6. ASSUME NEW i \in 1..k
      PROVE  /\ TakenOn(book, t[i - 1], t[i])
             /\ t[i].status = (IF i = k THEN "done" ELSE "more")
  <2>1. i \in 1..MaxPages /\ i - 1 \in 0..(k - 1) /\ (i = k \/ i \in 0..(k - 1))
    BY <1>0
  <2>2. t[i - 1].status = "more" /\ t[i].status = (IF i = k THEN "done" ELSE "more")
    BY <1>5, <2>1
  <2> QED
    BY <1>3, <2>1, <2>2
<1> HIDE DEF Until, Read
<1> DEFINE way == [i \in 1..k |-> t[i - 1].cursor]
<1>7. way \in [1..k -> DOMAIN book]
  <2> DEFINE S == {m \in Nat : m < k => t[m].cursor \in DOMAIN book}
  <2>1. 0 \in S
    BY <1>1, BooksAreHonest DEF Unread
  <2>2. ASSUME NEW m \in Nat, m \in S PROVE m + 1 \in S
    <3> SUFFICES ASSUME m + 1 < k PROVE t[m + 1].cursor \in DOMAIN book
      OBVIOUS
    <3>1. PICK i \in 1..k : i = m + 1 /\ i - 1 = m /\ m < k /\ i # k
      OBVIOUS
    <3>2. TakenOn(book, t[m], t[i]) /\ t[i].status = "more"
      BY <1>6, <3>1
    <3>3. t[i].cursor = book[t[m].cursor].next /\ t[i].cursor # NoCursor
      BY <3>2 DEF TakenOn
    <3>4. t[m].cursor \in DOMAIN book
      BY <2>2, <3>1
    <3> QED
      BY <3>1, <3>3, <3>4, BooksAreHonest
  <2> HIDE DEF S
  <2>3. ASSUME NEW i \in 1..k PROVE t[i - 1].cursor \in DOMAIN book
    <3>1. i - 1 \in Nat /\ i - 1 < k
      OBVIOUS
    <3>2. i - 1 \in S
      BY <2>1, <2>2, <3>1, SetInduction
    <3> QED
      BY <3>1, <3>2 DEF S
  <2> QED
    BY <2>3
<1>8. ASSUME NEW i \in 1..k
      PROVE  /\ Readable(book[way[i]]) /\ Fitting(book[way[i]], t[i - 1].ids)
             /\ t[i].ops = t[i - 1].ops \o Ours(book[way[i]].ops)
             /\ t[i].ids = t[i - 1].ids \cup IdsOn(book[way[i]])
             /\ t[i].cursor = book[way[i]].next
             /\ i = k => book[way[i]].next = NoCursor
  <2>1. way[i] = t[i - 1].cursor
    OBVIOUS
  <2> QED
    BY <1>6, <2>1 DEF TakenOn
<1>9. ASSUME NEW i \in 1..(k - 1) PROVE way[i + 1] = book[way[i]].next
  <2>1. i \in 1..k /\ i + 1 \in 1..k /\ (i + 1) - 1 = i
    OBVIOUS
  <2>2. way[i + 1] = t[i].cursor
    BY <2>1
  <2> QED
    BY <1>8, <2>1, <2>2
<1>10. way[1] = 1
  BY <1>1 DEF Unread
<1> HIDE DEF way
<1>11. ASSUME NEW n \in 0..k PROVE \A j \in 1..n : IdsOn(book[way[j]]) \subseteq t[n].ids
  <2> DEFINE S == {m \in Nat : m <= k => \A j \in 1..m : IdsOn(book[way[j]]) \subseteq t[m].ids}
  <2>1. 0 \in S
    OBVIOUS
  <2>2. ASSUME NEW m \in Nat, m \in S PROVE m + 1 \in S
    <3> SUFFICES ASSUME m + 1 <= k, NEW j \in 1..(m + 1) PROVE IdsOn(book[way[j]]) \subseteq t[m + 1].ids
      OBVIOUS
    <3>1. PICK i \in 1..k : i = m + 1 /\ i - 1 = m /\ m <= k /\ (j = i \/ j \in 1..m)
      OBVIOUS
    <3>2. t[i].ids = t[m].ids \cup IdsOn(book[way[i]])
      BY <1>8, <3>1
    <3> QED
      BY <2>2, <3>1, <3>2
  <2> HIDE DEF S
  <2>3. n \in S
    BY <2>1, <2>2, SetInduction
  <2> QED
    BY <2>3 DEF S
<1>12. ReadThrough(book, way)
  <2>1. Len(way) = k /\ DOMAIN way = 1..k
    BY <1>7
  <2>2. ASSUME NEW i \in DOMAIN way
        PROVE  Fitting(book[way[i]], UNION {IdsOn(book[way[j]]) : j \in 1..(i - 1)})
    <3>1. i \in 1..k /\ i - 1 \in 0..k
      BY <2>1
    <3>2. UNION {IdsOn(book[way[j]]) : j \in 1..(i - 1)} \subseteq t[i - 1].ids
      BY <1>11, <3>1
    <3>3. Fitting(book[way[i]], t[i - 1].ids)
      BY <1>8, <3>1
    <3> QED
      BY <3>2, <3>3, FitsFewer
  <2>3. book[way[k]].next = NoCursor
    <3>1. k \in 1..k
      OBVIOUS
    <3> QED
      BY <1>8, <3>1
  <2> QED
    BY <1>8, <1>9, <1>10, <2>1, <2>2, <2>3 DEF ReadThrough
<1>13. PICK cut \in [0..k -> 0..Len(Wanted)] :
         /\ cut[0] = 0 /\ cut[k] = Len(Wanted)
         /\ \A i \in 1..k : /\ cut[i - 1] <= cut[i]
                            /\ Ours(book[way[i]].ops) = SubSeq(Wanted, cut[i - 1] + 1, cut[i])
  <2>1. Len(way) = k /\ DOMAIN way = 1..k
    BY <1>7
  <2>2. CutUp(book, way)
    BY <1>7, <1>12, BooksAreHonest
  <2> QED
    BY <2>1, <2>2 DEF CutUp
<1>14. PICK T : Wanted \in Seq(T) /\ Len(Wanted) \in Nat
  BY BooksAreHonest
<1>15. ASSUME NEW n \in 0..k PROVE t[n].ops = SubSeq(Wanted, 1, cut[n])
  <2> DEFINE S == {m \in Nat : m <= k => t[m].ops = SubSeq(Wanted, 1, cut[m])}
  <2>1. 0 \in S
    <3>1. t[0].ops = <<>> /\ cut[0] = 0
      BY <1>1, <1>13 DEF Unread
    <3>2. SubSeq(Wanted, 1, 0) = <<>>
      BY <1>14
    <3> QED
      BY <3>1, <3>2
  <2>2. ASSUME NEW m \in Nat, m \in S PROVE m + 1 \in S
    <3> SUFFICES ASSUME m + 1 <= k PROVE t[m + 1].ops = SubSeq(Wanted, 1, cut[m + 1])
      OBVIOUS
    <3>1. PICK i \in 1..k : i = m + 1 /\ i - 1 = m /\ m <= k
      OBVIOUS
    <3>2. t[i].ops = t[m].ops \o Ours(book[way[i]].ops) /\ t[m].ops = SubSeq(Wanted, 1, cut[m])
      BY <1>8, <2>2, <3>1
    <3>3. Ours(book[way[i]].ops) = SubSeq(Wanted, cut[m] + 1, cut[i])
      BY <1>13, <3>1
    <3>4. PICK a \in Nat, b \in Nat : a = cut[m] /\ b = cut[i] /\ a <= b /\ b <= Len(Wanted)
      <4>1. m \in 0..k /\ i \in 0..k /\ cut[i - 1] = cut[m]
        BY <3>1
      <4>2. cut[m] \in 0..Len(Wanted) /\ cut[i] \in 0..Len(Wanted)
        BY <1>13, <4>1
      <4>3. cut[m] <= cut[i]
        BY <1>13, <4>1
      <4> QED
        BY <1>14, <4>2, <4>3
    <3>5. SubSeq(Wanted, 1, a) \o SubSeq(Wanted, a + 1, b) = SubSeq(Wanted, 1, b)
      BY <1>14, <3>4, Joined
    <3>6. t[i].ops = SubSeq(Wanted, 1, a) \o SubSeq(Wanted, a + 1, b)
      BY <3>2, <3>3, <3>4, Zenon
    <3> QED
      BY <3>1, <3>4, <3>5, <3>6
  <2> HIDE DEF S
  <2>3. \A m \in Nat : m \in S => m + 1 \in S
    BY <2>2
  <2>4. n \in S
    <3>1. n \in Nat
      OBVIOUS
    <3>2. Nat \subseteq S
      BY <2>1, <2>3, SetInduction
    <3> QED
      BY <3>1, <3>2
  <2> QED
    BY <2>4 DEF S
<1>16. t[k].ops = SubSeq(Wanted, 1, Len(Wanted))
  <2>1. k \in 0..k
    OBVIOUS
  <2> QED
    BY <1>13, <1>15, <2>1
<1>17. SubSeq(Wanted, 1, Len(Wanted)) = Wanted
  BY <1>14
<1> QED
  BY <1>1, <1>5, <1>16, <1>17 DEF Until

CallRow == [phase : {"idle", "asking", "waiting", "done", "failed"}, asking : Nat, attempts : Nat,
            tried : SUBSET Hosts, asked : SUBSET Hosts, got : {<<>>, Wanted}]

\* A range has not come round yet: it tried one endpoint more each time.  Or it asked them all.
Counted(r) ==
    \/ r.asked = Hosts \/ r.phase = "done"
    \/ /\ r.tried = r.asked
       /\ Cardinality(r.tried) = IF r.phase = "asking" THEN r.attempts + 1 ELSE r.attempts

Settled(r) ==
    (r.phase = "failed" => r.asked = Hosts) /\ (r.phase = "done" => r.got = Wanted)

CallInv(c, r) ==
    /\ r \in CallRow /\ (r.phase = "asking" => r.asking \in Hosts)
    /\ c = "range" => Counted(r) /\ Settled(r)

AccessInv == PoolShapes /\ call \in [Callers -> CallRow] /\ \A c \in Callers : CallInv(c, call[c])

LEMMA HostSets ==
    ASSUME NEW A \in SUBSET Hosts
    PROVE  /\ IsFiniteSet(A) /\ Cardinality(A) \in Nat /\ Cardinality(A) <= Endpoints
           /\ Cardinality(A) = Endpoints => A = Hosts
BY HostsAre, FS_Subset, FS_CardinalityType

AskedRow(c, r, excluded, h) ==
    [r EXCEPT !.phase = "asking", !.asking = h,
              !.tried = IF c = "range" THEN excluded \cup {h} ELSE {},
              !.asked = IF c = "range" THEN r.asked \cup {h} ELSE {}]
FailedRow(r, n, p) == [r EXCEPT !.attempts = n, !.asking = 0, !.phase = p]
DoneRow(r, ops) == [r EXCEPT !.phase = "done", !.asking = 0, !.got = ops]

LEMMA RowAsks ==
    ASSUME NEW c, NEW r, CallInv(c, r), r.phase \in {"idle", "waiting"},
           NEW excluded, excluded = (IF c = "range" /\ Cardinality(r.tried) < Endpoints THEN r.tried ELSE {}),
           NEW h \in Hosts, ~(Hosts \subseteq excluded) => h \notin excluded
    PROVE  CallInv(c, AskedRow(c, r, excluded, h))
<1> DEFINE now == AskedRow(c, r, excluded, h)
<1>1. r \in CallRow
  BY DEF CallInv
<1>2. excluded \in SUBSET Hosts
  BY <1>1 DEF CallRow
<1>3. h \in Nat
  BY HostsAre
<1>4. now \in CallRow /\ now.phase = "asking" /\ now.asking = h /\ now.attempts = r.attempts
  BY <1>1, <1>2, <1>3 DEF CallRow, AskedRow
<1>5. c = "range" => now.tried = excluded \cup {h} /\ now.asked = r.asked \cup {h}
  BY <1>1 DEF CallRow, AskedRow
<1> HIDE DEF now
<1>6. ASSUME c = "range" PROVE Counted(now)
  <2>1. Counted(r)
    BY <1>6 DEF CallInv
  <2>2. CASE r.asked = Hosts
    BY <1>5, <1>6, <2>2 DEF Counted
  <2>3. CASE r.tried = r.asked /\ Cardinality(r.tried) = r.attempts
    <3>1. r.tried \in SUBSET Hosts /\ r.attempts \in Nat
      BY <1>1 DEF CallRow
    <3>2. CASE Cardinality(r.tried) < Endpoints
      <4>1. excluded = r.tried
        BY <1>6, <3>2
      <4>2. ~(Hosts \subseteq excluded)
        <5> SUFFICES ASSUME Hosts \subseteq r.tried PROVE FALSE
          BY <4>1
        <5>1. r.tried = Hosts
          BY <3>1
        <5>2. Cardinality(r.tried) = Endpoints /\ Endpoints \in Nat
          BY <5>1, HostsAre
        <5> QED
          BY <3>2, <5>2
      <4>3. h \notin r.tried
        BY <4>1, <4>2
      <4>4. Cardinality(r.tried \cup {h}) = Cardinality(r.tried) + 1
        BY <3>1, <4>3, HostSets, FS_AddElement
      <4> QED
        BY <1>4, <1>5, <1>6, <2>3, <4>1, <4>4 DEF Counted
    <3>3. CASE ~(Cardinality(r.tried) < Endpoints)
      <4>1. Cardinality(r.tried) = Endpoints
        BY <3>1, <3>3, HostSets, HostsAre
      <4>2. r.asked = Hosts
        BY <2>3, <3>1, <4>1, HostSets
      <4> QED
        BY <1>5, <1>6, <4>2 DEF Counted
    <3> QED
      BY <3>2, <3>3
  <2> QED
    BY <2>1, <2>2, <2>3 DEF Counted
<1> QED
  BY <1>4, <1>6 DEF CallInv, Settled, now

LEMMA RowFails ==
    ASSUME NEW c, NEW r, CallInv(c, r), r.phase = "asking",
           NEW n \in Nat, n = r.attempts + 1,
           NEW p \in {"failed", "waiting"}, p = "failed" <=> n = 2 * Endpoints
    PROVE  CallInv(c, FailedRow(r, n, p))
<1> DEFINE now == FailedRow(r, n, p)
<1>1. r \in CallRow
  BY DEF CallInv
<1>2. now \in CallRow /\ now.attempts = n /\ now.tried = r.tried /\ now.asked = r.asked /\ now.phase = p
  BY <1>1 DEF CallRow, FailedRow
<1> HIDE DEF now
<1>3. ASSUME c = "range" PROVE Counted(now) /\ Settled(now)
  <2>1. Counted(r)
    BY <1>3 DEF CallInv
  <2>2. CASE r.asked = Hosts
    BY <1>2, <2>2 DEF Counted, Settled
  <2>3. CASE r.tried = r.asked /\ Cardinality(r.tried) = r.attempts + 1
    <3>1. r.tried \in SUBSET Hosts /\ r.attempts \in Nat
      BY <1>1 DEF CallRow
    <3>2. r.attempts + 1 <= Endpoints /\ Endpoints \in Nat \ {0}
      BY <2>3, <3>1, HostSets, HostsAre
    <3>3. now.phase = "waiting"
      BY <1>2, <3>1, <3>2
    <3> QED
      BY <1>2, <2>3, <3>3 DEF Counted, Settled
  <2> QED
    BY <2>1, <2>2, <2>3 DEF Counted
<1>4. now.phase # "asking"
  BY <1>2
<1> QED
  BY <1>2, <1>3, <1>4 DEF CallInv, now

LEMMA RowSucceeds ==
    ASSUME NEW c, NEW r, CallInv(c, r), NEW ops \in {<<>>, Wanted}, c = "range" => ops = Wanted
    PROVE  CallInv(c, DoneRow(r, ops))
<1> DEFINE now == DoneRow(r, ops)
<1>1. r \in CallRow
  BY DEF CallInv
<1>2. now \in CallRow /\ now.phase = "done" /\ now.got = ops
  BY <1>1 DEF CallRow, DoneRow
<1> QED
  BY <1>2 DEF CallInv, Counted, Settled

LEMMA WellIs ==
    ASSUME NEW row \in BreakerRow
    PROVE  Well(row) \in BreakerRow
<1>1. CooldownBase \in Nat
  BY AccessAssumption
<1>2. PICK s \in {"closed", "open", "half_open"} : s = IF row.state = "half_open" THEN "closed" ELSE row.state
  BY DEF BreakerRow
<1>3. PICK d \in Nat : d = IF row.state = "half_open" THEN CooldownBase ELSE row.cooldown
  BY <1>1 DEF BreakerRow
<1>4. Well(row) = [row EXCEPT !.fails = 0, !.state = s, !.cooldown = d]
  BY <1>2, <1>3 DEF Well, BreakerRow
<1>5. [row EXCEPT !.fails = 0, !.state = s, !.cooldown = d] \in BreakerRow
  BY DEF BreakerRow
<1> QED
  BY <1>4, <1>5

LEMMA OpenedIs ==
    ASSUME PoolShapes, NEW row \in BreakerRow, NEW d \in Nat
    PROVE  Opened(row, d) \in BreakerRow
<1>1. PICK n \in Nat : n = row.fails + 1
  BY DEF BreakerRow
<1>2. PICK u \in Nat : u = moment + d
  BY DEF PoolShapes
<1>3. Opened(row, d) = [row EXCEPT !.fails = n, !.state = "open", !.cooldown = d, !.openUntil = u]
  BY <1>1, <1>2, Zenon DEF Opened
<1>4. [row EXCEPT !.fails = n, !.state = "open", !.cooldown = d, !.openUntil = u] \in BreakerRow
  BY DEF BreakerRow
<1> QED
  BY <1>3, <1>4

LEMMA FailedIs ==
    ASSUME PoolShapes, NEW row \in BreakerRow, NEW category
    PROVE  Failed(row, category) \in BreakerRow
<1>0. OpenAfter \in Nat /\ CooldownMax \in Nat /\ RateLimit \in Nat /\ row.cooldown \in Nat /\ row.fails \in Nat
  BY AccessAssumption DEF BreakerRow
<1>1. [row EXCEPT !.limitedUntil = moment + RateLimit] \in BreakerRow
  BY <1>0 DEF BreakerRow, PoolShapes
<1>2. Opened(row, Min({2 * row.cooldown, CooldownMax})) \in BreakerRow
  <2>1. {2 * row.cooldown, CooldownMax} \in SUBSET Nat
    BY <1>0
  <2>2. Min({2 * row.cooldown, CooldownMax}) \in {2 * row.cooldown, CooldownMax}
    BY <2>1, LowestOf
  <2> QED
    BY <2>1, <2>2, OpenedIs
<1>3. Opened(row, row.cooldown) \in BreakerRow
  BY <1>0, OpenedIs
<1>4. [row EXCEPT !.fails = Min({@ + 1, OpenAfter})] \in BreakerRow
  <2>1. {row.fails + 1, OpenAfter} \in SUBSET Nat
    BY <1>0
  <2>2. Min({row.fails + 1, OpenAfter}) \in {row.fails + 1, OpenAfter}
    BY <2>1, LowestOf
  <2>3. PICK n \in Nat : n = Min({row.fails + 1, OpenAfter})
    BY <2>1, <2>2
  <2>4. [row EXCEPT !.fails = n] \in BreakerRow
    BY DEF BreakerRow
  <2> QED
    BY <2>3, <2>4
<1> DEFINE one == [row EXCEPT !.limitedUntil = moment + RateLimit]
           two == Opened(row, Min({2 * row.cooldown, CooldownMax}))
           three == Opened(row, row.cooldown)
           four == [row EXCEPT !.fails = Min({@ + 1, OpenAfter})]
<1>5. Failed(row, category) =
        CASE category = "rate_limited" -> one
          [] category # "rate_limited" /\ row.state = "half_open" -> two
          [] category # "rate_limited" /\ row.state = "closed" /\ row.fails + 1 >= OpenAfter -> three
          [] OTHER -> four
  BY Zenon DEF Failed
<1> HIDE DEF one, two, three, four
<1>6. Failed(row, category) \in {one, two, three, four}
  BY <1>5
<1> QED
  BY <1>1, <1>2, <1>3, <1>4, <1>6 DEF one, two, three, four

\* A range that fails over (fetchRangeWithFailover) asks every endpoint before it
\* is given up, whatever the breakers say and whoever shares them; and one that is
\* read (fetchRangeFromEndpoint) is the whole of it, from whichever endpoint.
THEOREM RangesSettled == AccessSpec => []RangeSettled
<1>1. AccessInit => AccessInv
  <2> SUFFICES ASSUME AccessInit PROVE AccessInv
    OBVIOUS
  <2>1. PoolShapes
    BY AccessAssumption DEF AccessInit, PoolShapes, BreakerRow
  <2>2. Idle \in CallRow
    BY DEF Idle, CallRow
  <2>3. call = [c \in Callers |-> Idle]
    BY DEF AccessInit
  <2>4. ASSUME NEW c PROVE CallInv(c, Idle)
    <3>1. Idle.phase = "idle" /\ Idle.tried = {} /\ Idle.asked = {} /\ Idle.attempts = 0
      BY DEF Idle
    <3>2. Cardinality(Idle.tried) = 0
      BY <3>1, FS_EmptySet
    <3> QED
      BY <2>2, <3>1, <3>2 DEF CallInv, Counted, Settled
  <2> QED
    BY <2>1, <2>2, <2>3, <2>4 DEF AccessInv
<1>2. ASSUME AccessInv, [AccessNext]_accessVars PROVE AccessInv'
  <2>1. ASSUME NEW c \in Callers, NEW row, CallInv(c, row), call' = [call EXCEPT ![c] = row], PoolShapes'
        PROVE  AccessInv'
    BY <1>2, <2>1 DEF AccessInv, CallInv
  <2>2. ASSUME NEW c \in Callers, Ask(c) PROVE AccessInv'
    <3> DEFINE choice == Select(Excluded(c))
    <3>1. /\ breaker' = choice.breaker /\ turn' = IF choice.inTurn THEN (turn + 1) % Turns ELSE turn
          /\ moment' = moment
          /\ call' = [call EXCEPT ![c] =
                        AskedRow(c, call[c], Excluded(c), choice.host)]
      BY <2>2, Zenon DEF Ask, AskedRow
    <3>2. /\ choice.host \in Hosts /\ (~(Hosts \subseteq Excluded(c)) => choice.host \notin Excluded(c))
          /\ choice.breaker \in [Hosts -> BreakerRow]
      BY <1>2, SelectIs DEF AccessInv
    <3>3. PICK h \in Hosts : h = choice.host
      BY <3>2, Zenon
    <3>4. PICK b \in [Hosts -> BreakerRow] : b = choice.breaker
      BY <3>2
    <3> HIDE DEF choice
    <3>5. turn' \in Nat
      <4>1. Turns \in Nat \ {0} /\ turn \in Nat
        BY <1>2, AccessAssumption DEF AccessInv, PoolShapes
      <4>2. (turn + 1) % Turns \in Nat
        BY <4>1
      <4> QED
        BY <3>1, <4>1, <4>2
    <3>6. PoolShapes'
      BY <1>2, <3>1, <3>4, <3>5 DEF AccessInv, PoolShapes
    <3>7. PICK r : r = call[c]
      OBVIOUS
    <3>8. PICK e : e = Excluded(c)
      OBVIOUS
    <3>9. PICK now : now = AskedRow(c, r, e, h)
      OBVIOUS
    <3>10. call' = [call EXCEPT ![c] = now]
      BY <3>1, <3>3, <3>7, <3>8, <3>9, Zenon
    <3>11. CallInv(c, r) /\ r.phase \in {"idle", "waiting"}
      BY <1>2, <2>2, <3>7, Zenon DEF AccessInv, Ask
    <3>12. e = IF c = "range" /\ Cardinality(r.tried) < Endpoints THEN r.tried ELSE {}
      BY <3>7, <3>8, Zenon DEF Excluded
    <3>13. ~(Hosts \subseteq e) => h \notin e
      BY <3>2, <3>3, <3>8
    <3>14. CallInv(c, now)
      BY <3>9, <3>11, <3>12, <3>13, RowAsks
    <3> QED
      BY <2>1, <3>6, <3>10, <3>14
  <2>3. ASSUME NEW c \in Callers, call[c].phase = "asking",
               NEW row, breaker' = [breaker EXCEPT ![call[c].asking] = row], row \in BreakerRow,
               UNCHANGED <<moment, turn>>
        PROVE  PoolShapes'
    BY <1>2, <2>3 DEF AccessInv, PoolShapes
  <2>4. ASSUME NEW c \in Callers, call[c].phase = "asking"
        PROVE  breaker[call[c].asking] \in BreakerRow /\ PoolShapes /\ CallInv(c, call[c])
    BY <1>2, <2>4 DEF AccessInv, PoolShapes, CallInv
  <2>5. ASSUME NEW c \in Callers, NEW category, call[c].phase = "asking", Fail(c, category),
               UNCHANGED <<moment, turn>>
        PROVE  AccessInv'
    <3>1. PICK row \in BreakerRow : row = Failed(breaker[call[c].asking], category)
      BY <2>4, <2>5, FailedIs
    <3>2. breaker' = [breaker EXCEPT ![call[c].asking] = row]
      BY <2>5, <3>1, Zenon DEF Fail
    <3>3. PoolShapes'
      BY <2>3, <2>5, <3>2
    <3>4. PICK r : r = call[c]
      OBVIOUS
    <3>5. CallInv(c, r) /\ r.phase = "asking"
      BY <2>4, <2>5, <3>4
    <3>6. PICK n \in Nat : n = r.attempts + 1
      BY <3>5 DEF CallInv, CallRow
    <3>7. PICK p \in {"failed", "waiting"} : p = IF n = 2 * Endpoints THEN "failed" ELSE "waiting"
      OBVIOUS
    <3>8. PICK now : now = FailedRow(r, n, p)
      OBVIOUS
    <3>9. call' = [call EXCEPT ![c] = now]
      BY <2>5, <3>4, <3>6, <3>7, <3>8, Zenon DEF Fail, FailedRow
    <3>10. CallInv(c, now)
      BY <3>5, <3>6, <3>7, <3>8, RowFails
    <3> QED
      BY <2>1, <3>3, <3>9, <3>10
  <2>6. ASSUME NEW c \in Callers, NEW ops \in {<<>>, Wanted}, c = "range" => ops = Wanted,
               call[c].phase = "asking", Succeed(c, ops), UNCHANGED <<moment, turn>>
        PROVE  AccessInv'
    <3>1. PICK row \in BreakerRow : row = Well(breaker[call[c].asking])
      BY <2>4, <2>6, WellIs
    <3>2. breaker' = [breaker EXCEPT ![call[c].asking] = row]
      BY <2>6, <3>1, Zenon DEF Succeed
    <3>3. PoolShapes'
      BY <2>3, <2>6, <3>2
    <3>4. PICK r : r = call[c]
      OBVIOUS
    <3>5. CallInv(c, r)
      BY <2>4, <2>6, <3>4
    <3>6. PICK now : now = DoneRow(r, ops)
      OBVIOUS
    <3>7. call' = [call EXCEPT ![c] = now]
      BY <2>6, <3>4, <3>6, Zenon DEF Succeed, DoneRow
    <3>8. CallInv(c, now)
      BY <2>6, <3>5, <3>6, RowSucceeds
    <3> QED
      BY <2>1, <3>3, <3>7, <3>8
  <2>7. ASSUME NEW c \in Callers, NEW book \in Books, Serve(c, book) PROVE AccessInv'
    <3>1. call[c].phase = "asking" /\ UNCHANGED <<moment, turn>>
      BY <2>7 DEF Serve
    <3>2. CASE c # "range"
      <4>1. Succeed(c, <<>>)
        BY <2>7, <3>2, Zenon DEF Serve
      <4> QED
        BY <2>6, <3>1, <3>2, <4>1
    <3>3. CASE c = "range" /\ Reading(book).status = "done"
      <4>1. Succeed(c, Reading(book).ops)
        BY <2>7, <3>3, Zenon DEF Serve
      <4>2. Reading(book).ops = Wanted
        BY <3>3, ReadWhole
      <4> QED
        BY <2>6, <3>1, <4>1, <4>2
    <3>4. CASE c = "range" /\ Reading(book).status # "done"
      <4>1. Fail(c, "unknown")
        BY <2>7, <3>4, Zenon DEF Serve
      <4> QED
        BY <2>5, <3>1, <4>1
    <3> QED
      BY <3>2, <3>3, <3>4
  <2>8. ASSUME NEW c \in Callers, NEW category, Refuse(c, category) PROVE AccessInv'
    BY <2>5, <2>8 DEF Refuse
  <2>9. CASE Pass
    <3>1. moment' \in Nat
      BY <1>2, <2>9 DEF Pass, AccessInv, PoolShapes
    <3> QED
      BY <1>2, <2>9, <3>1 DEF Pass, AccessInv, PoolShapes
  <2>10. CASE HeadNext
    BY <1>2, <2>10 DEF HeadNext, AgreeOnHead, AccessInv, PoolShapes
  <2>11. CASE UNCHANGED accessVars
    BY <1>2, <2>11 DEF accessVars, AccessInv, PoolShapes
  <2>12. CASE CallsNext
    BY <2>2, <2>7, <2>8, <2>9, <2>12 DEF CallsNext
  <2> QED
    BY <1>2, <2>10, <2>11, <2>12 DEF AccessNext
<1>3. AccessInv => RangeSettled
  BY DEF AccessInv, CallInv, Settled, RangeSettled
<1> QED
  BY <1>1, <1>2, <1>3, PTL DEF AccessSpec
=============================================================================
