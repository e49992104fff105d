--------------------------- MODULE OperationRouter ---------------------------
(***************************************************************************)
(* How the operations of a batch are routed: payment checks against the    *)
(* transfers of the same Hive transaction, the handler inside a savepoint, *)
(* the two records kept in memory (the net change of the asset rows, which *)
(* moves the state root at the end, and the transfers already claimed), and*)
(* the tables the outcome is written to.                                   *)
(*                                                                         *)
(* A handler is the payment it claims and the asset rows it writes, one    *)
(* after the other; it may be refused before any of them.  A row is named  *)
(* by the operation that wrote it last, which is what its hash is taken of;*)
(* the root, an XOR of hashes, is a set under symmetric difference.        *)
(* Operations of one Hive transaction are in one block, so in one batch.   *)
(***************************************************************************)
EXTENDS PaymentSplit, Sequences, Functions, SequencesExt

CONSTANTS
    Ids,            \* asset ids
    HiveTxs,        \* Hive transactions
    Streams,        \* bound: the sequences of operations the scanner may deliver
    Bodies,         \* Bodies[t]: the operations of t in order, [type] and, of
                    \* those that are transfers, [memo, about, from, to, amount]
    MaxLosses       \* bound: batches lost to a crash or a fatal error

\* An operation: its Hive transaction; whether parser, account validation and
\* authority let it through; its signer, and whether that is an active node
\* where one is needed; what must be paid: nothing, the collection fee, or the
\* sale that is bought; the asset or collection the memos name; the rows its
\* handler writes, with "insert", "update" or "delete"; and whether the
\* handler's remaining checks hold.
Ops == UNION {Range(ops) : ops \in Streams}
IsBuy(op) == op.pays = "split"

\* getTransfersInTransaction; claims name them by their places among themselves.
Transfers == [t \in HiveTxs |-> SelectSeq(Bodies[t], LAMBDA b : b.type = "transfer")]

ASSUME RouterAssumption ==
    /\ IsFiniteSet(Ids) /\ MaxLosses \in Nat /\ Streams \subseteq Seq(Ops)
    /\ \A op \in Ops :
          /\ op.tx \in HiveTxs
          /\ op.writes \in Seq([id : Ids, does : {"insert", "update", "delete"}])
          /\ IsBuy(op) => op.sale.price \in Nat /\ op.sale.royalty \in Nat
    /\ \A t \in HiveTxs :
          /\ IsFiniteSet(DOMAIN Transfers[t])
          /\ \A i \in DOMAIN Transfers[t] : Transfers[t][i].amount \in Nat
    /\ \A ops \in Streams : \A i, k \in DOMAIN ops : \A j \in i..k :
          ops[i].tx = ops[k].tx => ops[j].tx = ops[i].tx

VARIABLES
    stream,         \* the operations, in the order of the chain
    place,          \* the operation being routed, or the next one
    phase,          \* "idle" between operations, "handling" inside a savepoint
    written,        \* rows the handler has written so far
    claimed,        \* transfers the present operation is paid by
    snap,           \* what the router remembers when it opens the savepoint
    buffer,         \* net changes of the transaction: entries, and their log
    pool,           \* pool[t]: indices of t's transfers that are spoken for
    image,          \* the tables, as the open transaction sees them
    disk,           \* the tables, as last committed
    losses          \* batches lost so far

routerVars == <<stream, place, phase, written, claimed, snap, buffer, pool, image, disk, losses>>

NoEntry == [old |-> -1, new |-> -1]
EmptyBuffer == [entries |-> [id \in Ids |-> NoEntry], log |-> <<>>]
EmptyPool == [t \in HiveTxs |-> {}]

\* rows[id] is the operation that wrote the row last, 0 where there is none;
\* paid holds what each confirmed operation claimed (the sales, for a buy).
EmptyTables == [rows |-> [id \in Ids |-> 0], gone |-> {}, confirmed |-> {}, invalid |-> {},
                orphaned |-> {}, paid |-> {}, root |-> {}, count |-> 0, last |-> 0]

RouterInit ==
    /\ stream \in Streams /\ place = 1 /\ phase = "idle" /\ written = 0 /\ claimed = {}
    /\ snap = [mark |-> 0, pool |-> {}, tables |-> EmptyTables]
    /\ buffer = EmptyBuffer /\ pool = EmptyPool
    /\ image = EmptyTables /\ disk = EmptyTables /\ losses = 0
-----------------------------------------------------------------------------
(* Payment. *)

\* What has to be paid for the operation.
Legs(op) ==
    CASE op.pays = "nothing" -> {}
      [] op.pays = "fixed" -> {Leg("collection", op.signer, CollectionFee)}
      [] op.pays = "split" -> Split(op.sale, op.signer)

\* The fee of a collection is found by addressee and memo, and its amount looked
\* at afterwards; the legs of a purchase are found by all of them.
Candidates(op, leg, used) ==
    {i \in DOMAIN Transfers[op.tx] \ used :
        LET t == Transfers[op.tx][i]
        IN  /\ t.memo = leg.leg /\ t.about = op.about /\ t.to = leg.to
            /\ op.pays = "split" => t.amount = leg.amount}

\* The seller's leg says who buys; the other legs must come from there.
Payers(op, used) ==
    {Transfers[op.tx][i].from : i \in
        UNION {Candidates(op, leg, used) : leg \in {l \in Legs(op) : l.leg = "seller"}}}

Matches(op, leg, used) ==
    {i \in Candidates(op, leg, used) :
        IsBuy(op) => Transfers[op.tx][i].from \in Payers(op, used)}

\* Each leg by exactly one transfer, of exactly its amount.
Payable(op, used) ==
    \A leg \in Legs(op) :
        /\ Cardinality(Matches(op, leg, used)) = 1
        /\ \A i \in Matches(op, leg, used) : Transfers[op.tx][i].amount = leg.amount

Claim(op, used) == UNION {Matches(op, leg, used) : leg \in Legs(op)}
-----------------------------------------------------------------------------
(* The buffer of net changes. *)

\* Mutant: the entry is the last change, not the net one.
QueueLast(b, id, old, new) ==
    [entries |-> [b.entries EXCEPT ![id] = [old |-> old, new |-> new]],
     log |-> Append(b.log, [id |-> id, previous |-> b.entries[id]])]

Queue(b, id, old, new) ==
    [entries |-> [b.entries EXCEPT ![id] =
        [old |-> IF @ = NoEntry THEN old ELSE @.old, new |-> new]],
     log |-> Append(b.log, [id |-> id, previous |-> b.entries[id]])]

\* Mutant: entries the operation changed are dropped, not restored.
DropAfter(b, mark) ==
    [entries |-> [id \in Ids |->
        IF \E n \in (mark + 1)..Len(b.log) : b.log[n].id = id THEN NoEntry ELSE b.entries[id]],
     log |-> SubSeq(b.log, 1, mark)]

\* Undoing the log down to the mark leaves each entry as it was before its
\* first change after the mark.
RollbackTo(b, mark) ==
    LET since(id) == {n \in (mark + 1)..Len(b.log) : b.log[n].id = id}
        First(S) == CHOOSE n \in S : \A k \in S : n <= k
    IN  [entries |-> [id \in Ids |->
            IF since(id) = {} THEN b.entries[id] ELSE b.log[First(since(id))].previous],
         log |-> SubSeq(b.log, 1, mark)]

Xor(A, B) == (A \ B) \cup (B \ A)
Hash(id, row) == IF row <= 0 THEN {} ELSE {<<id, row>>}

\* Old rows are taken out of the root and new ones put in; what was inserted
\* and deleted in the same transaction changes nothing.
Flushed(t, b) ==
    LET Touched == {id \in Ids : b.entries[id] # NoEntry}
        Net(id) == Xor(Hash(id, b.entries[id].old), Hash(id, b.entries[id].new))
        Born == {id \in Touched : b.entries[id].old = 0 /\ b.entries[id].new # 0}
        Died == {id \in Touched : b.entries[id].old # 0 /\ b.entries[id].new = 0}
    IN  [t EXCEPT !.root = Xor(@, UNION {Net(id) : id \in Touched}),
                  !.count = @ + Cardinality(Born) - Cardinality(Died)]
-----------------------------------------------------------------------------
(* Routing. *)

Current == stream[place]

\* What the handler may still refuse: a row that is missing, or one of an id
\* that was burned.
Writable(t, w) == IF w.does = "insert" THEN w.id \notin t.gone ELSE t.rows[w.id] # 0

\* To insert an id that exists has no effect.
Written(t, w, n) ==
    CASE w.does = "insert" -> IF t.rows[w.id] = 0 THEN [t EXCEPT !.rows[w.id] = n] ELSE t
      [] w.does = "update" -> [t EXCEPT !.rows[w.id] = n]
      [] w.does = "delete" -> [t EXCEPT !.rows[w.id] = 0, !.gone = @ \cup {w.id}]

Recorded(t, op, n, failed) ==
    [t EXCEPT !.invalid = @ \cup {n},
              !.orphaned = IF failed /\ IsBuy(op) /\ Transfers[op.tx] # <<>>
                           THEN @ \cup {n} ELSE @]

\* Refused by the parser, by account validation or for its authority.
TurnAway ==
    /\ phase = "idle" /\ place <= Len(stream) /\ ~Current.admitted
    /\ image' = Recorded(image, Current, place, FALSE)
    /\ place' = place + 1
    /\ UNCHANGED <<stream, phase, written, claimed, snap, buffer, pool, disk, losses>>

\* A fee is matched before the handler runs, but marked only after it; a
\* purchase is matched by the handler.
PaidUpFront(op) == ~IsBuy(op)

\* The signer's node is not active, or the fee is not there.
RefuseUnpaid ==
    /\ phase = "idle" /\ place <= Len(stream) /\ Current.admitted
    /\ ~Current.active \/ (PaidUpFront(Current) /\ ~Payable(Current, pool[Current.tx]))
    /\ image' = Recorded(image, Current, place, TRUE)
    /\ place' = place + 1
    /\ UNCHANGED <<stream, phase, written, claimed, snap, buffer, pool, disk, losses>>

OpenSavepoint ==
    /\ phase = "idle" /\ place <= Len(stream) /\ Current.admitted /\ Current.active
    /\ PaidUpFront(Current) => Payable(Current, pool[Current.tx])
    /\ phase' = "handling" /\ written' = 0
    /\ claimed' = IF PaidUpFront(Current) THEN Claim(Current, pool[Current.tx]) ELSE {}
    /\ snap' = [mark |-> Len(buffer.log), pool |-> pool[Current.tx], tables |-> image]
    /\ UNCHANGED <<stream, place, buffer, pool, image, disk, losses>>

\* verifyTransfers, inside handleBuy.
ClaimSplit ==
    /\ phase = "handling" /\ IsBuy(Current) /\ claimed = {} /\ Payable(Current, pool[Current.tx])
    /\ claimed' = Claim(Current, pool[Current.tx])
    /\ pool' = [pool EXCEPT ![Current.tx] = @ \cup claimed']
    /\ UNCHANGED <<stream, place, phase, written, snap, buffer, image, disk, losses>>

Settled == IsBuy(Current) => claimed # {}
NextWrite == Current.writes[written + 1]

WriteRow ==
    /\ phase = "handling" /\ Settled /\ written < Len(Current.writes)
    /\ Writable(image, NextWrite)
    /\ LET after == Written(image, NextWrite, place)
       IN  /\ image' = after
           /\ buffer' = IF after = image THEN buffer
                        ELSE Queue(buffer, NextWrite.id, image.rows[NextWrite.id], after.rows[NextWrite.id])
    /\ written' = written + 1
    /\ UNCHANGED <<stream, place, phase, claimed, snap, pool, disk, losses>>

Fails ==
    \/ IsBuy(Current) /\ claimed = {} /\ ~Payable(Current, pool[Current.tx])
    \/ Settled /\ written < Len(Current.writes) /\ ~Writable(image, NextWrite)
    \/ Settled /\ written = Len(Current.writes) /\ ~Current.sound

\* Mutant: the rejection is recorded, but what the handler wrote stays.
TablesAfterFailure(t) == image

TablesBefore(t) == t

\* Mutant: what the failed handler had claimed stays claimed.
PoolAfterFailure(consumed) == pool[Current.tx]

PoolBefore(consumed) == consumed

\* ROLLBACK TO SAVEPOINT; buffer and pool follow, and the rejection is recorded.
RejectAndRestore ==
    /\ phase = "handling" /\ Fails
    /\ buffer' = RollbackTo(buffer, snap.mark)
    /\ pool' = [pool EXCEPT ![Current.tx] = PoolBefore(snap.pool)]
    /\ image' = Recorded(TablesBefore(snap.tables), Current, place, TRUE)
    /\ phase' = "idle" /\ place' = place + 1 /\ claimed' = {} /\ written' = 0
    /\ UNCHANGED <<stream, snap, disk, losses>>

Confirm ==
    /\ phase = "handling" /\ Settled /\ written = Len(Current.writes) /\ Current.sound
    /\ pool' = [pool EXCEPT ![Current.tx] = @ \cup claimed]
    /\ image' = [image EXCEPT !.confirmed = @ \cup {place}, !.paid = @ \cup {<<place, claimed>>}]
    /\ phase' = "idle" /\ place' = place + 1 /\ claimed' = {} /\ written' = 0
    /\ UNCHANGED <<stream, snap, buffer, disk, losses>>

\* A batch ends anywhere between two blocks; the next has pools of its own.
CommitBatch ==
    /\ phase = "idle" /\ place > disk.last + 1
    /\ place <= Len(stream) => Current.tx # stream[place - 1].tx
    /\ image' = [Flushed(image, buffer) EXCEPT !.last = place - 1]
    /\ disk' = image'
    /\ buffer' = EmptyBuffer /\ pool' = EmptyPool
    /\ snap' = [mark |-> 0, pool |-> {}, tables |-> EmptyTables]
    /\ UNCHANGED <<stream, place, phase, written, claimed, losses>>

\* An error that is no rejection, or a crash: the transaction is rolled back,
\* its memory forgotten, and the range fetched again.
LoseBatch ==
    /\ losses < MaxLosses /\ (place > disk.last + 1 \/ phase = "handling")
    /\ losses' = losses + 1
    /\ image' = disk /\ place' = disk.last + 1 /\ phase' = "idle"
    /\ buffer' = EmptyBuffer /\ pool' = EmptyPool /\ claimed' = {} /\ written' = 0
    /\ snap' = [mark |-> 0, pool |-> {}, tables |-> EmptyTables]
    /\ UNCHANGED <<stream, disk>>

RouterNext ==
    TurnAway \/ RefuseUnpaid \/ OpenSavepoint \/ ClaimSplit \/ WriteRow
    \/ RejectAndRestore \/ Confirm \/ CommitBatch \/ LoseBatch

RouterSpec == RouterInit /\ [][RouterNext]_routerVars
-----------------------------------------------------------------------------
(* What routing promises. *)

\* A reference that knows no savepoint, buffer, batch or crash.  The tables
\* after the first k rows are written:
Rewritten(op, t, n) ==
    LET after[k \in 0..Len(op.writes)] ==
        IF k = 0 THEN t ELSE Written(after[k - 1], op.writes[k], n)
    IN  after

\* An operation is applied whole, or leaves nothing behind but the record of
\* its rejection.
Whole(op, t, n, used) ==
    LET after == Rewritten(op, t, n)
    IN  IF /\ op.admitted /\ op.active /\ op.sound /\ Payable(op, used)
           /\ \A k \in 1..Len(op.writes) : Writable(after[k - 1], op.writes[k])
        THEN [after[Len(op.writes)] EXCEPT
                !.confirmed = @ \cup {n}, !.paid = @ \cup {<<n, Claim(op, used)>>}]
        ELSE Recorded(t, op, n, op.admitted)

SpokenFor(t, ops, hiveTx) == UNION {p[2] : p \in {q \in t.paid : ops[q[1]].tx = hiveTx}}

Reference(ops) ==
    LET after[n \in 0..Len(ops)] ==
        IF n = 0 THEN EmptyTables
        ELSE Whole(ops[n], after[n - 1], n, SpokenFor(after[n - 1], ops, ops[n].tx))
    IN  after

\* Whatever failed on the way, was rolled back or fetched again, and wherever
\* the batches were cut, the committed tables are those of playing the chain
\* operation by operation, each of them applied whole or rejected.
AppliedOrUntouched ==
    LET ref == Reference(stream)[disk.last]
    IN  [disk EXCEPT !.root = {}, !.count = 0] = [ref EXCEPT !.last = disk.last]

\* The root and the count maintained by net changes are those a scan of the
\* committed rows computes, the start-up check of the indexer.
RootIsFullScan ==
    LET live == {id \in Ids : disk.rows[id] # 0}
    IN  /\ disk.root = {<<id, disk.rows[id]>> : id \in live}
        /\ disk.count = Cardinality(live)

\* What transfers bring, thousandth by thousandth.
Brought(t, places) == UNION {{i} \X (1..Transfers[t][i].amount) : i \in places}

\* No transfer pays for two operations, a purchase is paid by its price to the
\* last unit, and between operations exactly the transfers that paid for
\* something in this batch are spoken for.
PoolExact ==
    /\ \A p, q \in image.paid : p # q /\ stream[p[1]].tx = stream[q[1]].tx => p[2] \cap q[2] = {}
    /\ \A p \in image.paid : IsBuy(stream[p[1]]) =>
          Cardinality(Brought(stream[p[1]].tx, p[2])) = stream[p[1]].sale.price
    /\ phase = "idle" => \A t \in HiveTxs :
          pool[t] = UNION {p[2] : p \in {q \in image.paid :
                                    stream[q[1]].tx = t /\ q[1] > disk.last}}
-----------------------------------------------------------------------------
(***************************************************************************)
(* The router implements BatchReplay: savepoints, buffers, pools and lost  *)
(* batches do not show in what is committed.                               *)
(***************************************************************************)

\* The tables after n operations, with root and count as a scan finds them.
Committed(ops, n) ==
    LET t == Reference(ops)[n]
        live == {id \in Ids : t.rows[id] # 0}
    IN  [t EXCEPT !.root = {<<id, t.rows[id]>> : id \in live},
                  !.count = Cardinality(live), !.last = n]

\* Between two Hive transactions.
Cuts(ops) == {n \in 1..Len(ops) : n < Len(ops) => ops[n].tx # ops[n + 1].tx}

ByOperation == INSTANCE BatchReplay WITH
    Ends <- Cuts, After <- Committed,
    history <- stream, upto <- disk.last, tables <- disk

\* Whatever failed on the way, was rolled back or fetched again: all that ever
\* becomes visible is the outcome of playing the chain operation by operation
\* up to the end of a Hive transaction, each operation applied whole or
\* rejected, under the root and the count of a full scan; and it only moves on.
ImplementsBatches == ByOperation!BatchSpec
=============================================================================
