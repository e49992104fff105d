------------------------------ MODULE RouterProofs ------------------------------
(***************************************************************************)
(* Theorems about the routing of operations, for every set of streams, of  *)
(* rows and of Hive transactions and wherever the batches are cut, fail or *)
(* are lost: the root kept by net changes is the one a full scan computes, *)
(* no transfer pays twice, and the committed tables are those of playing   *)
(* the chain operation by operation.                                       *)
(***************************************************************************)
EXTENDS OperationRouter, InductionLemmas, FiniteSetTheorems, SequenceTheorems

(* What the variables hold. *)

Slots == UNION {DOMAIN Transfers[t] : t \in HiveTxs}
Writes == [id : Ids, does : {"insert", "update", "delete"}]
Entry == [old : Int, new : Int]

Tables ==
    [rows : [Ids -> Nat], gone : SUBSET Ids, confirmed : SUBSET Nat, invalid : SUBSET Nat,
     orphaned : SUBSET Nat, paid : SUBSET (Nat \X SUBSET Slots), root : SUBSET (Ids \X Nat),
     count : Int, last : Nat]

Buffers == [entries : [Ids -> Entry], log : Seq([id : Ids, previous : Entry])]

RouterShapes ==
    /\ stream \in Streams /\ place \in Nat /\ 1 <= place /\ place <= Len(stream) + 1
    /\ phase \in {"idle", "handling"} /\ (phase = "handling" => place <= Len(stream))
    /\ written \in Nat /\ claimed \in SUBSET Slots
    /\ snap \in [mark : Nat, pool : SUBSET Slots, tables : Tables]
    /\ phase = "handling" => snap.mark <= Len(buffer.log)
    /\ buffer \in Buffers /\ pool \in [HiveTxs -> SUBSET Slots]
    /\ image \in Tables /\ disk \in Tables /\ disk.last < place

LEMMA OpsTyped ==
    ASSUME NEW ops \in Streams
    PROVE  /\ ops \in Seq(Ops) /\ Len(ops) \in Nat
           /\ \A n \in 1..Len(ops) :
                /\ ops[n] \in Ops /\ ops[n].tx \in HiveTxs /\ ops[n].writes \in Seq(Writes)
                /\ Len(ops[n].writes) \in Nat
                /\ \A k \in 1..Len(ops[n].writes) : ops[n].writes[k] \in Writes
<1>1. ops \in Seq(Ops)
  BY RouterAssumption
<1>2. Len(ops) \in Nat /\ \A n \in 1..Len(ops) : ops[n] \in Ops
  BY <1>1, LenProperties, ElementOfSeq
<1>3. \A op \in Ops : op.tx \in HiveTxs /\ op.writes \in Seq(Writes)
  BY RouterAssumption DEF Writes
<1>4. \A op \in Ops : Len(op.writes) \in Nat /\ \A k \in 1..Len(op.writes) : op.writes[k] \in Writes
  BY <1>3, LenProperties, ElementOfSeq
<1> QED
  BY <1>1, <1>2, <1>3, <1>4

LEMMA CurrentOp ==
    ASSUME RouterShapes, place <= Len(stream)
    PROVE  /\ place \in 1..Len(stream) /\ Current \in Ops
           /\ Current.tx \in HiveTxs /\ Current.writes \in Seq(Writes)
           /\ Len(Current.writes) \in Nat
           /\ \A k \in 1..Len(Current.writes) : Current.writes[k] \in Writes
  BY OpsTyped DEF RouterShapes, Current

LEMMA NextWriteIs ==
    ASSUME RouterShapes, place <= Len(stream), written < Len(Current.writes)
    PROVE  NextWrite \in Writes /\ written + 1 \in 1..Len(Current.writes)
<1>1. written \in Nat /\ Len(Current.writes) \in Nat
  BY CurrentOp DEF RouterShapes
<1>2. written + 1 \in 1..Len(Current.writes)
  BY <1>1
<1> QED
  BY <1>2, CurrentOp DEF NextWrite

LEMMA EmptyTyped == EmptyTables \in Tables /\ EmptyBuffer \in Buffers
<1>1. EmptyTables \in Tables
  BY DEF EmptyTables, Tables
<1>2. NoEntry \in Entry
  BY DEF NoEntry, Entry
<1>3. <<>> \in Seq([id : Ids, previous : Entry])
  OBVIOUS
<1>4. EmptyBuffer \in Buffers
  BY <1>2, <1>3 DEF EmptyBuffer, Buffers
<1> QED
  BY <1>1, <1>4

\* u is t but for its rows, and of them for the row of w; and but for what is
\* recorded of rejected operations.
RowWritten(t, w, u) ==
    /\ u \in Tables /\ u.confirmed = t.confirmed /\ u.invalid = t.invalid
    /\ u.orphaned = t.orphaned /\ u.paid = t.paid
    /\ u.root = t.root /\ u.count = t.count /\ u.last = t.last
    /\ \A id \in Ids \ {w.id} : u.rows[id] = t.rows[id]

Rejected(t, u) ==
    /\ u \in Tables /\ u.rows = t.rows /\ u.gone = t.gone /\ u.confirmed = t.confirmed
    /\ u.paid = t.paid /\ u.root = t.root /\ u.count = t.count /\ u.last = t.last

LEMMA WrittenTyped ==
    ASSUME NEW t \in Tables, NEW w \in Writes, NEW n \in Nat
    PROVE  RowWritten(t, w, Written(t, w, n))
<1> USE DEF RowWritten
<1>1. w.id \in Ids /\ w.does \in {"insert", "update", "delete"}
  BY DEF Writes
<1>2. CASE w.does = "insert"
  <2>1. Written(t, w, n) = IF t.rows[w.id] = 0 THEN [t EXCEPT !.rows[w.id] = n] ELSE t
    BY <1>2 DEF Written
  <2> QED
    BY <1>1, <2>1 DEF Tables
<1>3. CASE w.does = "update"
  <2>1. Written(t, w, n) = [t EXCEPT !.rows[w.id] = n]
    BY <1>3 DEF Written
  <2> QED
    BY <1>1, <2>1 DEF Tables
<1>4. CASE w.does = "delete"
  <2>1. Written(t, w, n) = [t EXCEPT !.rows[w.id] = 0, !.gone = @ \cup {w.id}]
    BY <1>4 DEF Written
  <2>2. PICK r \in [Ids -> Nat] : r = [t.rows EXCEPT ![w.id] = 0]
    BY <1>1 DEF Tables
  <2>3. PICK g \in SUBSET Ids : g = t.gone \cup {w.id}
    BY <1>1 DEF Tables
  <2>4. Written(t, w, n) = [t EXCEPT !.rows = r, !.gone = g]
    BY <2>1, <2>2, <2>3
  <2>5. \A id \in Ids \ {w.id} : r[id] = t.rows[id]
    BY <1>1, <2>2 DEF Tables
  <2> QED
    BY <2>4, <2>5 DEF Tables
<1> QED
  BY <1>1, <1>2, <1>3, <1>4

LEMMA RecordedTyped ==
    ASSUME NEW t \in Tables, NEW op, NEW n \in Nat, NEW failed
    PROVE  Rejected(t, Recorded(t, op, n, failed))
  BY DEF Recorded, Tables, Rejected

LEMMA ClaimTyped ==
    ASSUME NEW op \in Ops, NEW used
    PROVE  Claim(op, used) \subseteq DOMAIN Transfers[op.tx] \ used /\ Claim(op, used) \subseteq Slots
<1>1. op.tx \in HiveTxs
  BY RouterAssumption
<1>2. Claim(op, used) \subseteq DOMAIN Transfers[op.tx] \ used
  BY DEF Claim, Matches, Candidates
<1> QED
  BY <1>1, <1>2 DEF Slots
-----------------------------------------------------------------------------
(* The buffer of net changes. *)

\* The entries of the log that a rollback to the mark undoes.
Since(b, mark, id) == {n \in (mark + 1)..Len(b.log) : b.log[n].id = id}

LEMMA RollbackIs ==
    ASSUME NEW b, NEW mark
    PROVE  RollbackTo(b, mark) =
             [entries |-> [id \in Ids |-> IF Since(b, mark, id) = {} THEN b.entries[id]
                                          ELSE b.log[Min(Since(b, mark, id))].previous],
              log |-> SubSeq(b.log, 1, mark)]
  BY DEF RollbackTo, Since, Min

LEMMA SinceLowest ==
    ASSUME NEW b \in Buffers, NEW mark \in Nat, NEW id, Since(b, mark, id) # {}
    PROVE  \E m \in Since(b, mark, id) :
              Min(Since(b, mark, id)) = m /\ \A n \in Since(b, mark, id) : m <= n
<1>1. Len(b.log) \in Nat
  BY LenProperties DEF Buffers
<1>2. Since(b, mark, id) \in SUBSET Nat
  BY <1>1 DEF Since
<1> QED
  BY <1>2, LowestOf

LEMMA BufferTyped ==
    ASSUME NEW b \in Buffers
    PROVE  /\ b.log \in Seq([id : Ids, previous : Entry]) /\ Len(b.log) \in Nat
           /\ b.entries \in [Ids -> Entry]
           /\ \A n \in 1..Len(b.log) : b.log[n].id \in Ids /\ b.log[n].previous \in Entry
<1>1. b.log \in Seq([id : Ids, previous : Entry]) /\ b.entries \in [Ids -> Entry]
  BY DEF Buffers
<1>2. Len(b.log) \in Nat /\ \A n \in 1..Len(b.log) : b.log[n] \in [id : Ids, previous : Entry]
  BY <1>1, LenProperties, ElementOfSeq
<1> QED
  BY <1>1, <1>2

LEMMA PrefixTyped ==
    ASSUME NEW S, NEW s \in Seq(S), NEW m \in Nat, m <= Len(s)
    PROVE  SubSeq(s, 1, m) \in Seq(S) /\ Len(SubSeq(s, 1, m)) = m
<1>1. \A i \in 1..m : s[i] \in S
  BY LenProperties, ElementOfSeq
<1>2. 1 \in Int /\ m \in Int
  OBVIOUS
<1>3. CASE 1 <= m
  BY <1>1, <1>2, <1>3, SubSeqProperties
<1>4. CASE m = 0
  <2>1. SubSeq(s, 1, 0) = <<>>
    OBVIOUS
  <2> QED
    BY <1>4, <2>1
<1> QED
  BY <1>3, <1>4

LEMMA RollbackTyped ==
    ASSUME NEW b \in Buffers, NEW mark \in Nat, mark <= Len(b.log)
    PROVE  RollbackTo(b, mark) \in Buffers
<1>1. /\ b.log \in Seq([id : Ids, previous : Entry]) /\ Len(b.log) \in Nat
      /\ b.entries \in [Ids -> Entry]
      /\ \A n \in 1..Len(b.log) : b.log[n].id \in Ids /\ b.log[n].previous \in Entry
  BY BufferTyped
<1>2. SubSeq(b.log, 1, mark) \in Seq([id : Ids, previous : Entry])
  BY <1>1, PrefixTyped
<1>3. ASSUME NEW id \in Ids
      PROVE  (IF Since(b, mark, id) = {} THEN b.entries[id]
              ELSE b.log[Min(Since(b, mark, id))].previous) \in Entry
  <2>1. CASE Since(b, mark, id) = {}
    BY <1>1, <2>1
  <2>2. CASE Since(b, mark, id) # {}
    <3>1. PICK m \in Since(b, mark, id) : Min(Since(b, mark, id)) = m
      BY <2>2, SinceLowest
    <3>2. m \in 1..Len(b.log)
      BY <1>1 DEF Since
    <3> QED
      BY <1>1, <2>2, <3>1, <3>2
  <2> QED
    BY <2>1, <2>2
<1>4. RollbackTo(b, mark).entries \in [Ids -> Entry]
  BY <1>3, RollbackIs
<1>5. RollbackTo(b, mark).log \in Seq([id : Ids, previous : Entry])
  BY <1>2, RollbackIs
<1>6. RollbackTo(b, mark) =
        [entries |-> RollbackTo(b, mark).entries, log |-> RollbackTo(b, mark).log]
  BY RollbackIs
<1> QED
  BY <1>4, <1>5, <1>6 DEF Buffers

\* c is b with one more change.
OneMore(b, id, old, new, c) ==
    /\ c \in Buffers /\ Len(c.log) = Len(b.log) + 1
    /\ c.entries[id] =
          [old |-> IF b.entries[id] = NoEntry THEN old ELSE b.entries[id].old, new |-> new]
    /\ \A i \in Ids \ {id} : c.entries[i] = b.entries[i]
    /\ \A n \in 1..Len(b.log) : c.log[n] = b.log[n]
    /\ c.log[Len(b.log) + 1] = [id |-> id, previous |-> b.entries[id]]

LEMMA QueueIs ==
    ASSUME NEW b \in Buffers, NEW id \in Ids, NEW old \in Int, NEW new \in Int
    PROVE  OneMore(b, id, old, new, Queue(b, id, old, new))
<1>1. /\ b.log \in Seq([id : Ids, previous : Entry]) /\ Len(b.log) \in Nat
      /\ b.entries \in [Ids -> Entry]
  BY BufferTyped
<1>2. PICK e : e = [old |-> IF b.entries[id] = NoEntry THEN old ELSE b.entries[id].old, new |-> new]
  OBVIOUS
<1>3. e \in Entry
  BY <1>1, <1>2 DEF Entry
<1>4. PICK l : l = [id |-> id, previous |-> b.entries[id]]
  OBVIOUS
<1>5. l \in [id : Ids, previous : Entry]
  BY <1>1, <1>4
<1>6. PICK log : log = Append(b.log, l)
  OBVIOUS
<1>7. /\ log \in Seq([id : Ids, previous : Entry]) /\ Len(log) = Len(b.log) + 1
      /\ \A n \in 1..Len(b.log) : log[n] = b.log[n]
      /\ log[Len(b.log) + 1] = l
  BY <1>1, <1>5, <1>6, AppendProperties
<1>8. PICK entries \in [Ids -> Entry] : entries = [b.entries EXCEPT ![id] = e]
  BY <1>1, <1>3
<1>9. Queue(b, id, old, new) = [entries |-> entries, log |-> log]
  BY <1>2, <1>4, <1>6, <1>8 DEF Queue
<1>10. entries[id] = e /\ \A i \in Ids \ {id} : entries[i] = b.entries[i]
  BY <1>1, <1>8
<1> QED
  BY <1>2, <1>4, <1>7, <1>9, <1>10 DEF Buffers, OneMore

\* What was queued after the mark is undone with the rest.
LEMMA RollbackForgets ==
    ASSUME NEW b \in Buffers, NEW mark \in Nat, mark <= Len(b.log),
           NEW id \in Ids, NEW old \in Int, NEW new \in Int
    PROVE  RollbackTo(Queue(b, id, old, new), mark).entries = RollbackTo(b, mark).entries
<1> DEFINE c == Queue(b, id, old, new)
<1>1. /\ c \in Buffers /\ Len(c.log) = Len(b.log) + 1
      /\ \A i \in Ids \ {id} : c.entries[i] = b.entries[i]
      /\ \A n \in 1..Len(b.log) : c.log[n] = b.log[n]
      /\ c.log[Len(b.log) + 1] = [id |-> id, previous |-> b.entries[id]]
  <2>1. OneMore(b, id, old, new, c)
    BY QueueIs
  <2> QED
    BY <2>1 DEF OneMore
<1>2. Len(b.log) \in Nat
  BY BufferTyped
<1> HIDE DEF c
<1>3. ASSUME NEW i \in Ids
      PROVE  (IF Since(c, mark, i) = {} THEN c.entries[i] ELSE c.log[Min(Since(c, mark, i))].previous)
           = (IF Since(b, mark, i) = {} THEN b.entries[i] ELSE b.log[Min(Since(b, mark, i))].previous)
  <2>1. /\ Since(b, mark, i) \subseteq (mark + 1)..Len(b.log) /\ Since(b, mark, i) \subseteq 1..Len(b.log)
        /\ Since(c, mark, i) = Since(b, mark, i) \cup (IF i = id THEN {Len(b.log) + 1} ELSE {})
    BY <1>1, <1>2 DEF Since
  <2>2. CASE Since(b, mark, i) # {}
    <3>1. PICK m \in Since(b, mark, i) :
              Min(Since(b, mark, i)) = m /\ \A n \in Since(b, mark, i) : m <= n
      BY <2>2, SinceLowest
    <3>2. PICK k \in Since(c, mark, i) :
              Min(Since(c, mark, i)) = k /\ \A n \in Since(c, mark, i) : k <= n
      BY <1>1, <2>1, <2>2, SinceLowest
    <3>3. m \in 1..Len(b.log) /\ m \in Since(c, mark, i)
      BY <2>1
    <3>4. k <= m /\ (k \in Since(b, mark, i) \/ k = Len(b.log) + 1)
      BY <2>1, <3>2, <3>3
    <3>5. k = m
      BY <1>2, <2>1, <3>1, <3>3, <3>4
    <3> QED
      BY <1>1, <2>2, <3>1, <3>2, <3>3, <3>5
  <2>3. CASE Since(b, mark, i) = {} /\ i = id
    <3>1. Since(c, mark, i) = {Len(b.log) + 1}
      BY <2>1, <2>3
    <3>2. PICK k \in Since(c, mark, i) : Min(Since(c, mark, i)) = k
      BY <1>1, <3>1, SinceLowest
    <3>3. k = Len(b.log) + 1
      BY <3>1
    <3>4. c.log[k].previous = b.entries[id]
      BY <1>1, <3>3
    <3> QED
      BY <2>3, <3>1, <3>2, <3>4
  <2>4. CASE Since(b, mark, i) = {} /\ i # id
    BY <1>1, <2>1, <2>4
  <2> QED
    BY <2>2, <2>3, <2>4
<1> QED
  BY <1>3, RollbackIs DEF c

\* Nothing was queued since the mark was set.
LEMMA RollbackNothing ==
    ASSUME NEW b \in Buffers PROVE RollbackTo(b, Len(b.log)).entries = b.entries
<1>1. Len(b.log) \in Nat /\ b.entries \in [Ids -> Entry]
  BY BufferTyped
<1>2. \A id \in Ids : Since(b, Len(b.log), id) = {}
  BY <1>1 DEF Since
<1> QED
  BY <1>1, <1>2, RollbackIs

LEMMA RollbackShortens ==
    ASSUME NEW b \in Buffers, NEW mark \in Nat, mark <= Len(b.log)
    PROVE  Len(RollbackTo(b, mark).log) = mark
<1>1. b.log \in Seq([id : Ids, previous : Entry]) /\ Len(b.log) \in Nat
  BY BufferTyped
<1> QED
  BY <1>1, PrefixTyped, RollbackIs
-----------------------------------------------------------------------------
(* Every step keeps the shapes. *)

LEMMA ShapesInit == RouterInit => RouterShapes
<1> SUFFICES ASSUME RouterInit PROVE RouterShapes
  OBVIOUS
<1>1. Len(stream) \in Nat
  BY OpsTyped DEF RouterInit
<1>2. EmptyPool \in [HiveTxs -> SUBSET Slots]
  BY DEF EmptyPool
<1>3. EmptyTables.last = 0
  BY DEF EmptyTables
<1> QED
  BY <1>1, <1>2, <1>3, EmptyTyped DEF RouterInit, RouterShapes

\* What a row that is written does to the buffer.
Noted(t, after, id) ==
    IF after = t THEN buffer ELSE Queue(buffer, id, t.rows[id], after.rows[id])

LEMMA NotedIs ==
    ASSUME RouterShapes, place <= Len(stream), written < Len(Current.writes),
           NEW after, after = Written(image, NextWrite, place),
           NEW c, c = Noted(image, after, NextWrite.id)
    PROVE  /\ NextWrite.id \in Ids /\ after \in Tables /\ c \in Buffers
           /\ (after = image /\ c = buffer)
              \/ OneMore(buffer, NextWrite.id, image.rows[NextWrite.id], after.rows[NextWrite.id], c)
           /\ Len(buffer.log) <= Len(c.log) /\ Len(c.log) \in Nat
<1>1. NextWrite \in Writes /\ NextWrite.id \in Ids
  BY NextWriteIs DEF Writes
<1>2. image \in Tables /\ after \in Tables /\ buffer \in Buffers
  BY <1>1, WrittenTyped DEF RouterShapes, RowWritten
<1>3. image.rows[NextWrite.id] \in Int /\ after.rows[NextWrite.id] \in Int
  BY <1>1, <1>2 DEF Tables
<1>4. OneMore(buffer, NextWrite.id, image.rows[NextWrite.id], after.rows[NextWrite.id],
              Queue(buffer, NextWrite.id, image.rows[NextWrite.id], after.rows[NextWrite.id]))
  BY <1>1, <1>2, <1>3, QueueIs
<1>5. Len(buffer.log) \in Nat
  BY <1>2, BufferTyped
<1>6. CASE after = image
  <2>1. c = buffer
    BY <1>6 DEF Noted
  <2> QED
    BY <1>1, <1>2, <1>5, <1>6, <2>1
<1>7. CASE after # image
  <2>1. OneMore(buffer, NextWrite.id, image.rows[NextWrite.id], after.rows[NextWrite.id], c)
    BY <1>4, <1>7 DEF Noted
  <2>2. c \in Buffers /\ Len(c.log) = Len(buffer.log) + 1
    BY <2>1 DEF OneMore
  <2> QED
    BY <1>1, <1>2, <1>5, <2>1, <2>2
<1> QED
  BY <1>6, <1>7

\* The three sets the flush is made of.
Touched(b) == {id \in Ids : b.entries[id] # NoEntry}
NetHashes(b) ==
    UNION {Xor(Hash(id, b.entries[id].old), Hash(id, b.entries[id].new)) : id \in Touched(b)}
Born(b) == {id \in Touched(b) : b.entries[id].old = 0 /\ b.entries[id].new # 0}
Died(b) == {id \in Touched(b) : b.entries[id].old # 0 /\ b.entries[id].new = 0}

LEMMA FlushTyped ==
    ASSUME NEW t \in Tables, NEW b \in Buffers
    PROVE  /\ Flushed(t, b) \in Tables
           /\ Flushed(t, b).root = Xor(t.root, NetHashes(b))
           /\ Flushed(t, b).count = t.count + Cardinality(Born(b)) - Cardinality(Died(b))
           /\ Flushed(t, b).rows = t.rows /\ Flushed(t, b).gone = t.gone
           /\ Flushed(t, b).confirmed = t.confirmed /\ Flushed(t, b).invalid = t.invalid
           /\ Flushed(t, b).orphaned = t.orphaned /\ Flushed(t, b).paid = t.paid
           /\ Flushed(t, b).last = t.last
<1>1. b.entries \in [Ids -> Entry]
  BY BufferTyped
<1>2. NetHashes(b) \subseteq Ids \X Nat
  BY <1>1 DEF NetHashes, Touched, Xor, Hash, Entry
<1>3. PICK r \in SUBSET (Ids \X Nat) : r = Xor(t.root, NetHashes(b))
  BY <1>2 DEF Xor, Tables
<1>4. IsFiniteSet(Ids) /\ Born(b) \in SUBSET Ids /\ Died(b) \in SUBSET Ids
  BY RouterAssumption DEF Born, Died, Touched
<1>5. Cardinality(Born(b)) \in Nat /\ Cardinality(Died(b)) \in Nat
  BY <1>4, FS_Subset, FS_CardinalityType
<1>6. PICK n \in Int : n = t.count + Cardinality(Born(b)) - Cardinality(Died(b))
  BY <1>5 DEF Tables
<1>7. Flushed(t, b) = [t EXCEPT !.root = r, !.count = n]
  <2>1. Flushed(t, b) = [t EXCEPT !.root = Xor(@, NetHashes(b)),
                                  !.count = @ + Cardinality(Born(b)) - Cardinality(Died(b))]
    BY DEF Flushed, NetHashes, Born, Died, Touched
  <2> QED
    BY <1>3, <1>6, <2>1
<1> QED
  BY <1>3, <1>6, <1>7 DEF Tables

LEMMA SnapTyped ==
    RouterShapes =>
        /\ snap.mark \in Nat /\ snap.pool \in SUBSET Slots /\ snap.tables \in Tables
        /\ disk.last \in Nat /\ image.last \in Nat
<1>1. \A t \in Tables : t.last \in Nat
  BY DEF Tables
<1> QED
  BY <1>1 DEF RouterShapes

LEMMA ShapesStep == RouterShapes /\ [RouterNext]_routerVars => RouterShapes'
<1> SUFFICES ASSUME RouterShapes, [RouterNext]_routerVars PROVE RouterShapes'
  OBVIOUS
<1>0. /\ Len(stream) \in Nat /\ EmptyTables \in Tables /\ EmptyBuffer \in Buffers
      /\ disk.last \in Nat
  BY OpsTyped, EmptyTyped, SnapTyped DEF RouterShapes
<1>1. EmptyPool \in [HiveTxs -> SUBSET Slots]
  BY DEF EmptyPool
<1>2. Len(buffer.log) \in Nat
  BY BufferTyped DEF RouterShapes
<1>3. CASE TurnAway
  <2>1. image' \in Tables
    BY <1>3, RecordedTyped DEF TurnAway, RouterShapes, Rejected
  <2> QED
    <3>1. place' \in Nat /\ 1 <= place' /\ place' <= Len(stream') + 1 /\ disk'.last < place'
      BY <1>0, <1>3 DEF TurnAway, RouterShapes
    <3> QED
      BY <1>3, <2>1, <3>1 DEF TurnAway, RouterShapes
<1>4. CASE RefuseUnpaid
  <2>1. image' \in Tables
    BY <1>4, RecordedTyped DEF RefuseUnpaid, RouterShapes, Rejected
  <2> QED
    <3>1. place' \in Nat /\ 1 <= place' /\ place' <= Len(stream') + 1 /\ disk'.last < place'
      BY <1>0, <1>4 DEF RefuseUnpaid, RouterShapes
    <3> QED
      BY <1>4, <2>1, <3>1 DEF RefuseUnpaid, RouterShapes
<1>5. CASE OpenSavepoint
  <2>1. Current \in Ops /\ Current.tx \in HiveTxs
    BY <1>5, CurrentOp DEF OpenSavepoint
  <2>2. claimed' \in SUBSET Slots /\ pool[Current.tx] \in SUBSET Slots
    BY <1>5, <2>1, ClaimTyped DEF OpenSavepoint, RouterShapes
  <2>3. snap' \in [mark : Nat, pool : SUBSET Slots, tables : Tables] /\ snap'.mark = Len(buffer.log)
    BY <1>2, <1>5, <2>2 DEF OpenSavepoint, RouterShapes
  <2> QED
    BY <1>2, <1>5, <2>2, <2>3 DEF OpenSavepoint, RouterShapes
<1>6. CASE ClaimSplit
  <2>1. Current \in Ops /\ Current.tx \in HiveTxs
    BY <1>6, CurrentOp DEF ClaimSplit, RouterShapes
  <2>2. claimed' \in SUBSET Slots
    BY <1>6, <2>1, ClaimTyped DEF ClaimSplit
  <2>3. pool' \in [HiveTxs -> SUBSET Slots]
    BY <1>6, <2>1, <2>2 DEF ClaimSplit, RouterShapes
  <2> QED
    BY <1>6, <2>2, <2>3 DEF ClaimSplit, RouterShapes
<1>7. CASE WriteRow
  <2>1. place <= Len(stream) /\ written < Len(Current.writes)
    BY <1>7 DEF WriteRow, RouterShapes
  <2>2. PICK after : after = Written(image, NextWrite, place)
    OBVIOUS
  <2>3. image' = after /\ buffer' = Noted(image, after, NextWrite.id)
    BY <1>7, <2>2 DEF WriteRow, Noted
  <2>4. image' \in Tables /\ buffer' \in Buffers /\ Len(buffer.log) <= Len(buffer'.log)
        /\ Len(buffer'.log) \in Nat
    BY <2>1, <2>2, <2>3, NotedIs
  <2>5. snap.mark \in Nat
    BY SnapTyped
  <2> QED
    BY <1>2, <1>7, <2>4, <2>5 DEF WriteRow, RouterShapes
<1>8. CASE RejectAndRestore
  <2>1. place <= Len(stream) /\ Current.tx \in HiveTxs
    BY <1>8, CurrentOp DEF RejectAndRestore, RouterShapes
  <2>2. buffer' \in Buffers
    BY <1>8, RollbackTyped, SnapTyped DEF RejectAndRestore, RouterShapes
  <2>3. image' \in Tables
    BY <1>8, SnapTyped, RecordedTyped DEF RejectAndRestore, TablesBefore, RouterShapes, Rejected
  <2>4. pool' \in [HiveTxs -> SUBSET Slots]
    BY <1>8, <2>1, SnapTyped DEF RejectAndRestore, PoolBefore, RouterShapes
  <2> QED
    <3>1. place' \in Nat /\ 1 <= place' /\ place' <= Len(stream') + 1 /\ disk'.last < place'
      BY <1>0, <1>8, <2>1 DEF RejectAndRestore, RouterShapes
    <3> QED
      BY <1>8, <2>2, <2>3, <2>4, <3>1 DEF RejectAndRestore, RouterShapes
<1>9. CASE Confirm
  <2>1. place <= Len(stream) /\ Current.tx \in HiveTxs
    BY <1>9, CurrentOp DEF Confirm, RouterShapes
  <2>2. image' \in Tables
    <3>1. image \in Tables /\ place \in Nat /\ claimed \in SUBSET Slots
      BY DEF RouterShapes
    <3>2. PICK c \in SUBSET Nat : c = image.confirmed \cup {place}
      BY <3>1 DEF Tables
    <3>3. PICK p \in SUBSET (Nat \X SUBSET Slots) : p = image.paid \cup {<<place, claimed>>}
      <4>1. image.paid \in SUBSET (Nat \X SUBSET Slots)
        BY <3>1 DEF Tables
      <4>2. <<place, claimed>> \in Nat \X SUBSET Slots
        BY <3>1
      <4> HIDE DEF Slots
      <4> QED
        BY <4>1, <4>2
    <3>4. image' = [image EXCEPT !.confirmed = @ \cup {place}, !.paid = @ \cup {<<place, claimed>>}]
      BY <1>9 DEF Confirm
    <3>5. image' = [image EXCEPT !.confirmed = c, !.paid = p]
      BY <3>2, <3>3, <3>4
    <3> QED
      BY <3>1, <3>5 DEF Tables
  <2>3. pool' \in [HiveTxs -> SUBSET Slots]
    BY <1>9, <2>1 DEF Confirm, RouterShapes
  <2> QED
    BY <1>0, <1>9, <2>1, <2>2, <2>3 DEF Confirm, RouterShapes
<1>10. CASE CommitBatch
  <2>1. PICK t \in Tables : t = Flushed(image, buffer)
    BY FlushTyped DEF RouterShapes
  <2>2. image' = [t EXCEPT !.last = place - 1] /\ place - 1 \in Nat
    BY <1>10, <2>1 DEF CommitBatch, RouterShapes
  <2>3. image' \in Tables /\ image'.last = place - 1
    BY <2>2 DEF Tables
  <2> QED
    BY <1>0, <1>1, <1>10, <2>3 DEF CommitBatch, RouterShapes
<1>11. CASE LoseBatch
  BY <1>0, <1>1, <1>11 DEF LoseBatch, RouterShapes
<1>12. CASE UNCHANGED routerVars
  BY <1>12 DEF routerVars, RouterShapes
<1> QED
  BY <1>3, <1>4, <1>5, <1>6, <1>7, <1>8, <1>9, <1>10, <1>11, <1>12 DEF RouterNext
-----------------------------------------------------------------------------
(* The root: entries are the net change from the committed rows to those the *)
(* transaction sees, and rolled back, to those the savepoint saw.            *)

Nets(entries, old, new) ==
    \A id \in Ids : IF entries[id] = NoEntry THEN old[id] = new[id]
                    ELSE entries[id].old = old[id] /\ entries[id].new = new[id]

Alive(rows) == {id \in Ids : rows[id] # 0}
Scan(rows) == {<<id, rows[id]>> : id \in Alive(rows)}

NetChanges ==
    /\ image.root = disk.root /\ image.count = disk.count
    /\ Nets(buffer.entries, disk.rows, image.rows)
    /\ phase = "handling" =>
          /\ Nets(RollbackTo(buffer, snap.mark).entries, disk.rows, snap.tables.rows)
          /\ snap.tables.root = disk.root /\ snap.tables.count = disk.count

LEMMA NetsOn ==
    ASSUME NEW b \in Buffers, NEW id \in Ids, NEW d \in [Ids -> Nat], NEW r \in [Ids -> Nat],
           NEW s \in [Ids -> Nat], \A i \in Ids \ {id} : s[i] = r[i],
           NEW c, OneMore(b, id, r[id], s[id], c), Nets(b.entries, d, r)
    PROVE  Nets(c.entries, d, s)
<1>1. /\ d[id] \in Nat /\ r[id] \in Nat /\ s[id] \in Nat
      /\ c.entries[id] =
          [old |-> IF b.entries[id] = NoEntry THEN r[id] ELSE b.entries[id].old, new |-> s[id]]
  BY DEF OneMore
<1>2. c.entries[id].new = s[id] /\ c.entries[id].old = d[id]
  BY <1>1 DEF Nets
<1>3. c.entries[id] # NoEntry
  BY <1>1, <1>2 DEF NoEntry
<1>4. \A i \in Ids \ {id} : c.entries[i] = b.entries[i]
  BY DEF OneMore
<1> QED
  BY <1>2, <1>3, <1>4 DEF Nets

LEMMA FlushScans ==
    ASSUME NEW t \in Tables, NEW b \in Buffers, NEW d \in [Ids -> Nat],
           Nets(b.entries, d, t.rows), t.root = Scan(d), t.count = Cardinality(Alive(d))
    PROVE  /\ Flushed(t, b).root = Scan(t.rows)
           /\ Flushed(t, b).count = Cardinality(Alive(t.rows))
<1>1. PICK r \in [Ids -> Nat] : r = t.rows
  BY DEF Tables
<1>2. \A id \in Ids : d[id] \in Nat /\ r[id] \in Nat
  BY <1>1
<1>3. \A id \in Touched(b) : id \in Ids /\ b.entries[id].old = d[id] /\ b.entries[id].new = r[id]
  BY <1>1 DEF Nets, Touched
<1>4. \A id \in Ids \ Touched(b) : d[id] = r[id]
  BY <1>1 DEF Nets, Touched
<1>5. Born(b) = Alive(r) \ Alive(d) /\ Died(b) = Alive(d) \ Alive(r)
  BY <1>2, <1>3, <1>4 DEF Born, Died, Alive, Touched
<1>6. Xor(Scan(d), NetHashes(b)) = Scan(r)
  <2>1. ASSUME NEW x
        PROVE  x \in NetHashes(b) <=>
                 \E id \in Touched(b) : \/ x = <<id, d[id]>> /\ d[id] # 0 /\ d[id] # r[id]
                                        \/ x = <<id, r[id]>> /\ r[id] # 0 /\ d[id] # r[id]
    <3>1. x \in NetHashes(b) <=>
            \E id \in Touched(b) : x \in Xor(Hash(id, d[id]), Hash(id, r[id]))
      BY <1>3 DEF NetHashes
    <3>2. ASSUME NEW id \in Touched(b)
          PROVE  x \in Xor(Hash(id, d[id]), Hash(id, r[id])) <=>
                   \/ x = <<id, d[id]>> /\ d[id] # 0 /\ d[id] # r[id]
                   \/ x = <<id, r[id]>> /\ r[id] # 0 /\ d[id] # r[id]
      BY <1>2, <1>3 DEF Xor, Hash
    <3> QED
      BY <3>1, <3>2
  <2>2. ASSUME NEW x
        PROVE  x \in Xor(Scan(d), NetHashes(b)) <=> x \in Scan(r)
    <3>1. CASE \E id \in Ids : \E v \in Nat : x = <<id, v>>
      <4>1. PICK id \in Ids, v \in Nat : x = <<id, v>>
        BY <3>1
      <4>2. x \in Scan(d) <=> v = d[id] /\ v # 0
        BY <4>1 DEF Scan, Alive
      <4>3. x \in Scan(r) <=> v = r[id] /\ v # 0
        BY <4>1 DEF Scan, Alive
      <4>4. x \in NetHashes(b) <=>
              id \in Touched(b) /\ v # 0 /\ d[id] # r[id] /\ (v = d[id] \/ v = r[id])
        BY <2>1, <4>1
      <4> QED
        BY <1>4, <4>2, <4>3, <4>4 DEF Xor
    <3>2. CASE ~\E id \in Ids : \E v \in Nat : x = <<id, v>>
      <4>1. x \notin Scan(d) /\ x \notin Scan(r)
        BY <1>2, <3>2 DEF Scan, Alive
      <4>2. x \notin NetHashes(b)
        BY <1>2, <1>3, <2>1, <3>2
      <4> QED
        BY <4>1, <4>2 DEF Xor
    <3> QED
      BY <3>1, <3>2
  <2> QED
    BY <2>2
<1>7. Cardinality(Alive(d)) + Cardinality(Born(b)) - Cardinality(Died(b)) = Cardinality(Alive(r))
  <2>1. PICK A \in SUBSET Ids : A = Alive(d)
    BY DEF Alive
  <2>2. PICK B \in SUBSET Ids : B = Alive(r)
    BY DEF Alive
  <2>3. IsFiniteSet(A) /\ IsFiniteSet(B)
    BY RouterAssumption, FS_Subset
  <2>4. Cardinality(A \ B) = Cardinality(A) - Cardinality(A \cap B)
    BY <2>3, FS_Difference
  <2>5. Cardinality(B \ A) = Cardinality(B) - Cardinality(B \cap A)
    BY <2>3, FS_Difference
  <2>6. IsFiniteSet(A \cap B) /\ A \cap B = B \cap A
    BY <2>3, FS_Intersection
  <2>7. Cardinality(A) \in Nat /\ Cardinality(B) \in Nat /\ Cardinality(A \cap B) \in Nat
    BY <2>3, <2>6, FS_CardinalityType
  <2>8. Cardinality(A) + Cardinality(B \ A) - Cardinality(A \ B) = Cardinality(B)
    <3>1. PICK a \in Nat, b1 \in Nat, c \in Nat :
              Cardinality(A) = a /\ Cardinality(B) = b1 /\ Cardinality(A \cap B) = c
      BY <2>7
    <3>2. Cardinality(A \ B) = a - c /\ Cardinality(B \ A) = b1 - c
      BY <2>4, <2>5, <2>6, <3>1
    <3>3. a + (b1 - c) - (a - c) = b1
      OBVIOUS
    <3> QED
      BY <3>1, <3>2, <3>3
  <2>9. Born(b) = B \ A /\ Died(b) = A \ B
    BY <1>5, <2>1, <2>2
  <2> QED
    BY <2>1, <2>2, <2>8, <2>9
<1> QED
  BY <1>1, <1>6, <1>7, FlushTyped
RootInv == RouterShapes /\ RootIsFullScan /\ NetChanges

LEMMA ScanIs ==
    RootIsFullScan <=> disk.root = Scan(disk.rows) /\ disk.count = Cardinality(Alive(disk.rows))
  BY DEF RootIsFullScan, Scan, Alive

LEMMA NothingNet == ASSUME NEW d PROVE Nets(EmptyBuffer.entries, d, d)
  BY DEF Nets, EmptyBuffer

LEMMA RootInit == RouterInit => RootInv
<1> SUFFICES ASSUME RouterInit PROVE RootInv
  OBVIOUS
<1>1. disk = EmptyTables /\ image = EmptyTables /\ buffer = EmptyBuffer /\ phase = "idle"
  BY DEF RouterInit
<1>2. disk.rows = [id \in Ids |-> 0] /\ disk.root = {} /\ disk.count = 0
  BY <1>1 DEF EmptyTables
<1>3. Alive(disk.rows) = {} /\ Scan(disk.rows) = {}
  BY <1>2 DEF Alive, Scan
<1> QED
  BY <1>1, <1>2, <1>3, ShapesInit, ScanIs, NothingNet, FS_EmptySet DEF RootInv, NetChanges

LEMMA RootStep == RootInv /\ [RouterNext]_routerVars => RootInv'
<1> SUFFICES ASSUME RootInv, [RouterNext]_routerVars PROVE RootInv'
  OBVIOUS
<1>0. RouterShapes /\ RootIsFullScan /\ NetChanges /\ RouterShapes'
  BY ShapesStep DEF RootInv
<1>1. /\ image \in Tables /\ disk \in Tables /\ buffer \in Buffers /\ snap.tables \in Tables
      /\ snap.mark \in Nat /\ Len(buffer.log) \in Nat
  BY <1>0, SnapTyped, BufferTyped DEF RouterShapes
<1>2. \A t \in Tables : t.rows \in [Ids -> Nat]
  BY DEF Tables
<1>3. UNCHANGED disk => RootIsFullScan'
  BY <1>0, ScanIs DEF RootIsFullScan
<1>4. CASE TurnAway \/ RefuseUnpaid
  <2>1. image'.rows = image.rows /\ image'.root = image.root /\ image'.count = image.count
    <3>1. place \in Nat
      BY <1>0 DEF RouterShapes
    <3>2. image' = Recorded(image, Current, place, FALSE)
          \/ image' = Recorded(image, Current, place, TRUE)
      BY <1>4 DEF TurnAway, RefuseUnpaid
    <3>3. Rejected(image, Recorded(image, Current, place, FALSE))
      BY <1>1, <3>1, RecordedTyped
    <3>4. Rejected(image, Recorded(image, Current, place, TRUE))
      BY <1>1, <3>1, RecordedTyped
    <3> QED
      BY <3>2, <3>3, <3>4 DEF Rejected
  <2>2. UNCHANGED <<disk, buffer>> /\ phase' = "idle"
    BY <1>4 DEF TurnAway, RefuseUnpaid
  <2> QED
    BY <1>0, <1>3, <2>1, <2>2 DEF RootInv, NetChanges
<1>5. CASE OpenSavepoint
  <2>1. UNCHANGED <<disk, buffer, image>> /\ snap'.mark = Len(buffer.log) /\ snap'.tables = image
    BY <1>5 DEF OpenSavepoint
  <2>2. RollbackTo(buffer, Len(buffer.log)).entries = buffer.entries
    BY <1>1, RollbackNothing
  <2> QED
    BY <1>0, <1>3, <2>1, <2>2 DEF RootInv, NetChanges
<1>6. CASE ClaimSplit
  BY <1>0, <1>3, <1>6 DEF ClaimSplit, RootInv, NetChanges
<1>7. CASE WriteRow
  <2>1. place <= Len(stream) /\ written < Len(Current.writes) /\ phase = "handling"
    BY <1>0, <1>7 DEF WriteRow, RouterShapes
  <2>2. PICK after : after = Written(image, NextWrite, place)
    OBVIOUS
  <2>3. PICK c : c = Noted(image, after, NextWrite.id)
    OBVIOUS
  <2>4. PICK id : id = NextWrite.id
    OBVIOUS
  <2>5. image' = after /\ buffer' = c
    BY <1>7, <2>2, <2>3 DEF WriteRow, Noted
  <2>6. /\ id \in Ids /\ after \in Tables /\ c \in Buffers
        /\ (after = image /\ c = buffer) \/ OneMore(buffer, id, image.rows[id], after.rows[id], c)
    BY <1>0, <2>1, <2>2, <2>3, <2>4, NotedIs
  <2>7. /\ after.root = image.root /\ after.count = image.count
        /\ \A i \in Ids \ {id} : after.rows[i] = image.rows[i]
    <3>1. place \in Nat /\ NextWrite \in Writes
      BY <1>0, <2>1, NextWriteIs DEF RouterShapes
    <3>2. RowWritten(image, NextWrite, after)
      <4>1. image \in Tables
        BY <1>1
      <4> QED
        BY <2>2, <3>1, <4>1, WrittenTyped
    <3> QED
      BY <2>4, <3>2 DEF RowWritten
  <2>8. Nets(c.entries, disk.rows, after.rows)
    <3>1. CASE after = image /\ c = buffer
      BY <1>0, <3>1 DEF NetChanges
    <3>2. CASE OneMore(buffer, id, image.rows[id], after.rows[id], c)
      BY <1>0, <1>1, <1>2, <2>6, <2>7, <3>2, NetsOn DEF NetChanges
    <3> QED
      BY <2>6, <3>1, <3>2
  <2>9. RollbackTo(c, snap.mark).entries = RollbackTo(buffer, snap.mark).entries
    <3>1. image.rows[id] \in Int /\ after.rows[id] \in Int /\ snap.mark <= Len(buffer.log)
      BY <1>0, <1>1, <1>2, <2>1, <2>6 DEF RouterShapes
    <3>2. c = buffer \/ c = Queue(buffer, id, image.rows[id], after.rows[id])
      BY <2>3, <2>4 DEF Noted
    <3> QED
      BY <1>1, <2>6, <3>1, <3>2, RollbackForgets
  <2>10. UNCHANGED <<disk, snap, phase>>
    BY <1>7 DEF WriteRow
  <2> QED
    BY <1>0, <1>3, <2>1, <2>5, <2>7, <2>8, <2>9, <2>10 DEF RootInv, NetChanges
<1>8. CASE RejectAndRestore
  <2>1. /\ image'.rows = snap.tables.rows /\ image'.root = snap.tables.root
        /\ image'.count = snap.tables.count
    <3>1. place \in Nat
      BY <1>0 DEF RouterShapes
    <3>2. image' = Recorded(snap.tables, Current, place, TRUE)
      BY <1>8 DEF RejectAndRestore, TablesBefore
    <3>3. Rejected(snap.tables, Recorded(snap.tables, Current, place, TRUE))
      BY <1>1, <3>1, RecordedTyped
    <3> QED
      BY <3>2, <3>3 DEF Rejected
  <2>2. /\ UNCHANGED disk /\ phase = "handling" /\ phase' = "idle"
        /\ buffer' = RollbackTo(buffer, snap.mark)
    BY <1>8 DEF RejectAndRestore
  <2> QED
    BY <1>0, <1>3, <2>1, <2>2 DEF RootInv, NetChanges
<1>9. CASE Confirm
  <2>1. image'.rows = image.rows /\ image'.root = image.root /\ image'.count = image.count
    BY <1>1, <1>9 DEF Confirm, Tables
  <2>2. UNCHANGED <<disk, buffer>> /\ phase' = "idle"
    BY <1>9 DEF Confirm
  <2> QED
    BY <1>0, <1>3, <2>1, <2>2 DEF RootInv, NetChanges
<1>10. CASE CommitBatch
  <2>1. PICK t \in Tables : t = Flushed(image, buffer)
    BY <1>1, FlushTyped
  <2>2. t.rows = image.rows
    BY <1>1, <2>1, FlushTyped
  <2>3. t.root = Scan(t.rows) /\ t.count = Cardinality(Alive(t.rows))
    <3>1. disk.rows \in [Ids -> Nat]
      BY <1>1, <1>2
    <3>2. image.root = Scan(disk.rows) /\ image.count = Cardinality(Alive(disk.rows))
      BY <1>0, ScanIs DEF NetChanges
    <3> QED
      BY <1>0, <1>1, <2>1, <2>2, <3>1, <3>2, FlushScans DEF NetChanges
  <2>4. image' = [t EXCEPT !.last = place - 1] /\ disk' = image'
    BY <1>10, <2>1 DEF CommitBatch
  <2>5. disk'.rows = t.rows /\ disk'.root = t.root /\ disk'.count = t.count
    BY <2>4 DEF Tables
  <2>6. RootIsFullScan'
    BY <2>3, <2>5 DEF RootIsFullScan, Scan, Alive
  <2>7. Nets(buffer'.entries, disk'.rows, image'.rows)
    BY <1>10, <2>4, NothingNet DEF CommitBatch
  <2>8. phase' = "idle"
    BY <1>10 DEF CommitBatch
  <2> QED
    BY <1>0, <2>4, <2>6, <2>7, <2>8 DEF RootInv, NetChanges
<1>11. CASE LoseBatch
  <2>1. UNCHANGED disk /\ image' = disk /\ buffer' = EmptyBuffer /\ phase' = "idle"
    BY <1>11 DEF LoseBatch
  <2>2. Nets(buffer'.entries, disk'.rows, image'.rows)
    BY <2>1, NothingNet
  <2> QED
    BY <1>0, <1>3, <2>1, <2>2 DEF RootInv, NetChanges
<1>12. CASE UNCHANGED routerVars
  BY <1>0, <1>3, <1>12 DEF routerVars, RootInv, NetChanges
<1> QED
  BY <1>4, <1>5, <1>6, <1>7, <1>8, <1>9, <1>10, <1>11, <1>12 DEF RouterNext

\* The state root and the count of live rows, which the indexer keeps up by
\* net changes per batch and compares with a full scan when it starts, are
\* those of a full scan after every commit: savepoints that are rolled back,
\* rows that come and go within a batch and batches that are lost leave no
\* trace in them.
THEOREM RootAlwaysFullScan == RouterSpec => []RootIsFullScan
<1>1. RootInv => RootIsFullScan
  BY DEF RootInv
<1> QED
  BY <1>1, RootInit, RootStep, PTL DEF RouterSpec
-----------------------------------------------------------------------------
(* Payment: the legs of a purchase are paid by transfers of their own, each  *)
(* of exactly its amount.                                                    *)

LEMMA ShareIsNatural ==
    ASSUME NEW total \in Nat, NEW points \in Nat
    PROVE  Share(total, points) \in Nat
<1>1. PICK x \in Nat : x = 2 * total * points
  <2>1. \A a, b \in Nat : a * b \in Nat
    OBVIOUS
  <2>2. 2 * total \in Nat
    OBVIOUS
  <2> QED
    BY <2>1, <2>2
<1>2. (x + 10000) \div (2 * 10000) \in Nat
  OBVIOUS
<1> QED
  BY <1>1, <1>2 DEF Share, BasisPoints

LEMMA OneTransferBrings ==
    ASSUME NEW t \in HiveTxs, NEW i \in DOMAIN Transfers[t]
    PROVE  IsFiniteSet(Brought(t, {i})) /\ Cardinality(Brought(t, {i})) = Transfers[t][i].amount
<1>1. PICK n \in Nat : n = Transfers[t][i].amount
  BY RouterAssumption
<1>2. Brought(t, {i}) = {i} \X (1..n)
  BY <1>1 DEF Brought
<1>3. IsFiniteSet(1..n) /\ Cardinality(1..n) = n
  BY FS_Interval
<1>4. IsFiniteSet({i}) /\ Cardinality({i}) = 1
  BY FS_Singleton
<1>5. IsFiniteSet({i} \X (1..n)) /\ Cardinality({i} \X (1..n)) = Cardinality({i}) * Cardinality(1..n)
  BY <1>3, <1>4, FS_Product
<1>6. 1 * n = n
  OBVIOUS
<1>7. Cardinality({i} \X (1..n)) = n
  BY <1>3, <1>4, <1>5, <1>6
<1> QED
  BY <1>1, <1>2, <1>5, <1>7

LEMMA BroughtTogether ==
    ASSUME NEW t, NEW A, NEW B, A \cap B = {},
           IsFiniteSet(Brought(t, A)), IsFiniteSet(Brought(t, B))
    PROVE  /\ IsFiniteSet(Brought(t, A \cup B))
           /\ Cardinality(Brought(t, A \cup B)) =
                Cardinality(Brought(t, A)) + Cardinality(Brought(t, B))
<1>1. Brought(t, A \cup B) = Brought(t, A) \cup Brought(t, B)
  BY DEF Brought
<1>2. Brought(t, A) \cap Brought(t, B) = {}
  BY DEF Brought
<1>3. Cardinality(Brought(t, A)) \in Nat /\ Cardinality(Brought(t, B)) \in Nat
  BY FS_CardinalityType
<1>4. Cardinality(Brought(t, A) \cap Brought(t, B)) = 0
  BY <1>2, FS_EmptySet
<1>5. /\ IsFiniteSet(Brought(t, A) \cup Brought(t, B))
      /\ Cardinality(Brought(t, A) \cup Brought(t, B)) =
           Cardinality(Brought(t, A)) + Cardinality(Brought(t, B))
             - Cardinality(Brought(t, A) \cap Brought(t, B))
  BY FS_Union
<1>6. PICK a \in Nat, b \in Nat :
          Cardinality(Brought(t, A)) = a /\ Cardinality(Brought(t, B)) = b
  BY <1>3
<1>7. Cardinality(Brought(t, A) \cup Brought(t, B)) = a + b - 0
  BY <1>4, <1>5, <1>6
<1>8. a + b - 0 = a + b
  OBVIOUS
<1> QED
  BY <1>1, <1>5, <1>6, <1>7, <1>8

\* What pays for a leg of the operation, if it is one.
PaysFor(op, leg, used) == IF leg \in Legs(op) THEN Matches(op, leg, used) ELSE {}

LEMMA LegPaid ==
    ASSUME NEW op \in Ops, NEW used, Payable(op, used), NEW leg, leg \notin Legs(op) => leg.amount = 0
    PROVE  /\ IsFiniteSet(Brought(op.tx, PaysFor(op, leg, used)))
           /\ Cardinality(Brought(op.tx, PaysFor(op, leg, used))) = leg.amount
<1>1. CASE leg \notin Legs(op)
  <2>1. Brought(op.tx, PaysFor(op, leg, used)) = {}
    BY <1>1 DEF PaysFor, Brought
  <2> QED
    BY <1>1, <2>1, FS_EmptySet
<1>2. CASE leg \in Legs(op)
  <2>1. op.tx \in HiveTxs
    BY RouterAssumption
  <2>2. Matches(op, leg, used) \in SUBSET DOMAIN Transfers[op.tx]
    BY DEF Matches, Candidates
  <2>3. IsFiniteSet(Matches(op, leg, used))
    BY <2>1, <2>2, RouterAssumption, FS_Subset
  <2>4. Cardinality(Matches(op, leg, used)) = 1
    BY <1>2 DEF Payable
  <2>5. PICK i : Matches(op, leg, used) = {i}
    BY <2>3, <2>4, FS_Singleton
  <2>6. i \in DOMAIN Transfers[op.tx] /\ Transfers[op.tx][i].amount = leg.amount
    BY <1>2, <2>2, <2>5 DEF Payable
  <2>7. PaysFor(op, leg, used) = {i}
    BY <1>2, <2>5 DEF PaysFor
  <2> QED
    BY <2>1, <2>6, <2>7, OneTransferBrings
<1> QED
  BY <1>1, <1>2

LEMMA LegsApart ==
    ASSUME NEW op, NEW used, NEW l, NEW m, l.leg # m.leg
    PROVE  PaysFor(op, l, used) \cap PaysFor(op, m, used) = {}
  BY DEF PaysFor, Matches, Candidates

LEMMA BuyPaidInFull ==
    ASSUME NEW op \in Ops, IsBuy(op), NEW used, Payable(op, used)
    PROVE  Cardinality(Brought(op.tx, Claim(op, used))) = op.sale.price
<1>0. op.sale.price \in Nat /\ op.sale.royalty \in Nat
  BY RouterAssumption
<1>1. PICK fee \in Nat :
          fee = IF op.signer = op.sale.seller THEN 0 ELSE Share(op.sale.price, ProtocolFee)
  BY <1>0, ShareIsNatural DEF ProtocolFee
<1>2. PICK royalty \in Nat :
          royalty = IF op.sale.royaltyTo \in {Nobody, op.sale.seller}
                    THEN 0 ELSE Share(op.sale.price, op.sale.royalty)
  BY <1>0, ShareIsNatural
<1> DEFINE rest == op.sale.price - royalty - fee
           S == Leg("seller", op.sale.seller, rest)
           R == Leg("royalty", op.sale.royaltyTo, royalty)
           F == Leg("fee", op.signer, fee)
<1>3. Legs(op) = {S} \cup {l \in {R, F} : l.amount > 0}
  <2>1. Legs(op) = Split(op.sale, op.signer)
    BY DEF Legs, IsBuy
  <2> QED
    BY <1>1, <1>2, <2>1 DEF Split
<1>4. /\ S.leg = "seller" /\ R.leg = "royalty" /\ F.leg = "fee"
      /\ S.amount = rest /\ R.amount = royalty /\ F.amount = fee
  BY DEF Leg
<1> DEFINE s == PaysFor(op, S, used)
           r == PaysFor(op, R, used)
           f == PaysFor(op, F, used)
<1> HIDE DEF S, R, F
<1>5. Claim(op, used) = (s \cup r) \cup f
  BY <1>3, <1>4 DEF Claim, PaysFor
<1>6. /\ S \in Legs(op) /\ (R \notin Legs(op) => R.amount = 0) /\ (F \notin Legs(op) => F.amount = 0)
  BY <1>3, <1>4
<1>7. /\ IsFiniteSet(Brought(op.tx, s)) /\ Cardinality(Brought(op.tx, s)) = rest
      /\ IsFiniteSet(Brought(op.tx, r)) /\ Cardinality(Brought(op.tx, r)) = royalty
      /\ IsFiniteSet(Brought(op.tx, f)) /\ Cardinality(Brought(op.tx, f)) = fee
  BY <1>4, <1>6, LegPaid
<1>8. s \cap r = {} /\ (s \cup r) \cap f = {}
  <2>1. s \cap r = {} /\ s \cap f = {} /\ r \cap f = {}
    BY <1>4, LegsApart
  <2> QED
    BY <2>1
<1> HIDE DEF s, r, f
<1>9. /\ IsFiniteSet(Brought(op.tx, s \cup r))
      /\ Cardinality(Brought(op.tx, s \cup r)) =
           Cardinality(Brought(op.tx, s)) + Cardinality(Brought(op.tx, r))
  BY <1>7, <1>8, BroughtTogether
<1>10. Cardinality(Brought(op.tx, (s \cup r) \cup f)) =
         Cardinality(Brought(op.tx, s \cup r)) + Cardinality(Brought(op.tx, f))
  BY <1>7, <1>8, <1>9, BroughtTogether
<1>11. (rest + royalty) + fee = op.sale.price
  BY <1>0
<1>12. Cardinality(Brought(op.tx, (s \cup r) \cup f)) = (rest + royalty) + fee
  BY <1>7, <1>9, <1>10
<1> QED
  BY <1>5, <1>11, <1>12
-----------------------------------------------------------------------------
(* The pool: what the batch has claimed so far, transaction by transaction.  *)

\* What the confirmed operations of the batch claimed of t.
InBatch(paid, t) == UNION {p[2] : p \in {q \in paid : stream[q[1]].tx = t /\ q[1] > disk.last}}

\* Claims of operations up to n, of no transfer twice, each purchase in full.
ClaimsUpTo(paid, n) ==
    /\ \A p \in paid : p[1] \in 1..n
    /\ \A p, q \in paid : p # q /\ stream[p[1]].tx = stream[q[1]].tx => p[2] \cap q[2] = {}
    /\ \A p \in paid : IsBuy(stream[p[1]]) =>
          Cardinality(Brought(stream[p[1]].tx, p[2])) = stream[p[1]].sale.price

\* Batches are cut between Hive transactions.
CutBetween ==
    1 <= disk.last /\ disk.last < Len(stream) => stream[disk.last].tx # stream[disk.last + 1].tx

\* A purchase is matched by the handler, or not yet; a fee before it.
Matched ==
    /\ claimed = Claim(Current, snap.pool) /\ Payable(Current, snap.pool)
    /\ pool[Current.tx] = IF IsBuy(Current) THEN snap.pool \cup claimed ELSE snap.pool

PoolsKept ==
    /\ ClaimsUpTo(image.paid, place - 1) /\ ClaimsUpTo(disk.paid, disk.last) /\ CutBetween
    /\ phase = "idle" => \A t \in HiveTxs : pool[t] = InBatch(image.paid, t)
    /\ phase = "handling" =>
          /\ snap.tables.paid = image.paid
          /\ snap.pool = InBatch(image.paid, Current.tx)
          /\ \A t \in HiveTxs \ {Current.tx} : pool[t] = InBatch(image.paid, t)
          /\ Matched \/ (IsBuy(Current) /\ claimed = {} /\ pool[Current.tx] = snap.pool)

PoolInv == RouterShapes /\ PoolsKept

\* Nothing of an earlier batch is of the transaction of the present operation.
LEMMA BatchesApart ==
    ASSUME RouterShapes, CutBetween, place <= Len(stream), NEW n \in 1..disk.last
    PROVE  stream[n].tx # Current.tx
<1>1. /\ stream \in Streams /\ Len(stream) \in Nat /\ DOMAIN stream = 1..Len(stream)
      /\ disk.last \in Nat /\ place \in Nat /\ disk.last < place
  <2>1. stream \in Seq(Ops)
    BY OpsTyped DEF RouterShapes
  <2> QED
    BY <2>1, LenProperties, SnapTyped DEF RouterShapes
<1>2. /\ n \in DOMAIN stream /\ place \in DOMAIN stream /\ 1 <= disk.last /\ disk.last < Len(stream)
      /\ disk.last \in n..place /\ disk.last + 1 \in n..place
  BY <1>1
<1>3. \A j \in n..place : stream[n].tx = stream[place].tx => stream[j].tx = stream[n].tx
  BY <1>1, <1>2, RouterAssumption
<1> QED
  BY <1>2, <1>3 DEF CutBetween, Current

LEMMA ClaimNew ==
    ASSUME RouterShapes, PoolsKept, place <= Len(stream), phase = "handling", Matched
    PROVE  /\ ClaimsUpTo(image.paid \cup {<<place, claimed>>}, place)
           /\ \A t \in HiveTxs : [pool EXCEPT ![Current.tx] = @ \cup claimed][t]
                                   = InBatch(image.paid \cup {<<place, claimed>>}, t)
<1> DEFINE new == <<place, claimed>>
           paid == image.paid \cup {new}
<1>0. /\ place \in Nat /\ disk.last \in Nat /\ disk.last < place /\ Current \in Ops
      /\ Current.tx \in HiveTxs /\ Current = stream[place] /\ new[1] = place /\ new[2] = claimed
  BY CurrentOp, SnapTyped DEF RouterShapes, Current
<1>1. \A p \in image.paid : p[1] \in 1..(place - 1)
  BY DEF PoolsKept, ClaimsUpTo
<1>2. claimed = Claim(Current, snap.pool) /\ Payable(Current, snap.pool)
  BY DEF Matched
<1>3. claimed \cap snap.pool = {}
  BY <1>0, <1>2, ClaimTyped
<1>4. ASSUME NEW p \in image.paid, stream[p[1]].tx = Current.tx
      PROVE  p[2] \cap claimed = {}
  <2>1. p[1] > disk.last
    BY <1>0, <1>1, <1>4, BatchesApart DEF PoolsKept
  <2>2. p[2] \subseteq snap.pool
    BY <1>4, <2>1 DEF PoolsKept, InBatch
  <2> QED
    BY <1>3, <2>2
<1>5. ClaimsUpTo(paid, place)
  <2>1. \A p \in paid : p[1] \in 1..place
    BY <1>0, <1>1
  <2>2. ASSUME NEW p \in paid, NEW q \in paid, p # q, stream[p[1]].tx = stream[q[1]].tx
        PROVE  p[2] \cap q[2] = {}
    <3>1. CASE p \in image.paid /\ q \in image.paid
      BY <2>2, <3>1 DEF PoolsKept, ClaimsUpTo
    <3>2. CASE p \in image.paid /\ q = new
      BY <1>0, <1>4, <2>2, <3>2
    <3>3. CASE q \in image.paid /\ p = new
      <4>1. q[2] \cap claimed = {}
        BY <1>0, <1>4, <2>2, <3>3
      <4> QED
        BY <1>0, <3>3, <4>1
    <3> QED
      BY <2>2, <3>1, <3>2, <3>3
  <2>3. ASSUME NEW p \in paid, IsBuy(stream[p[1]])
        PROVE  Cardinality(Brought(stream[p[1]].tx, p[2])) = stream[p[1]].sale.price
    <3>1. CASE p \in image.paid
      BY <2>3, <3>1 DEF PoolsKept, ClaimsUpTo
    <3>2. CASE p = new
      BY <1>0, <1>2, <2>3, <3>2, BuyPaidInFull
    <3> QED
      BY <3>1, <3>2
  <2> HIDE DEF paid
  <2> QED
    BY <2>1, <2>2, <2>3 DEF ClaimsUpTo
<1>6. ASSUME NEW t \in HiveTxs
      PROVE  [pool EXCEPT ![Current.tx] = @ \cup claimed][t] = InBatch(paid, t)
  <2>0. pool \in [HiveTxs -> SUBSET Slots]
    BY DEF RouterShapes
  <2>1. CASE t # Current.tx
    <3>1. InBatch(paid, t) = InBatch(image.paid, t)
      BY <1>0, <2>1 DEF InBatch
    <3> QED
      BY <1>0, <2>0, <2>1, <3>1 DEF PoolsKept
  <2>2. CASE t = Current.tx
    <3>1. InBatch(paid, t) = InBatch(image.paid, t) \cup claimed
      BY <1>0, <2>2 DEF InBatch
    <3>2. pool[t] \cup claimed = snap.pool \cup claimed /\ snap.pool = InBatch(image.paid, t)
      BY <2>2 DEF Matched, PoolsKept
    <3> QED
      BY <1>0, <2>0, <2>2, <3>1, <3>2
  <2> QED
    BY <2>1, <2>2
<1> QED
  BY <1>5, <1>6
LEMMA PoolInit == RouterInit => PoolInv
<1> SUFFICES ASSUME RouterInit PROVE PoolInv
  OBVIOUS
<1>1. disk = EmptyTables /\ image = EmptyTables /\ phase = "idle" /\ pool = EmptyPool
  BY DEF RouterInit
<1>2. disk.paid = {} /\ image.paid = {} /\ disk.last = 0
  BY <1>1 DEF EmptyTables
<1> QED
  BY <1>1, <1>2, ShapesInit DEF PoolInv, PoolsKept, ClaimsUpTo, CutBetween, InBatch, EmptyPool

\* What the pools rest on stays when the operations, the committed tables and
\* the claims do.
LEMMA ClaimsStay ==
    ASSUME UNCHANGED stream
    PROVE  /\ \A paid, n : ClaimsUpTo(paid, n)' <=> ClaimsUpTo(paid, n)
           /\ UNCHANGED disk => /\ \A paid, t : InBatch(paid, t)' = InBatch(paid, t)
                               /\ CutBetween' <=> CutBetween
  BY DEF ClaimsUpTo, InBatch, CutBetween

LEMMA ClaimsGrow ==
    ASSUME NEW paid, NEW m \in Nat, NEW n \in Nat, m <= n, ClaimsUpTo(paid, m)
    PROVE  ClaimsUpTo(paid, n)
  BY DEF ClaimsUpTo
LEMMA NothingInBatch ==
    ASSUME NEW paid, NEW n \in Nat, ClaimsUpTo(paid, n), disk.last = n
    PROVE  \A t : InBatch(paid, t) = {}
  BY DEF ClaimsUpTo, InBatch

LEMMA PoolStep == PoolInv /\ [RouterNext]_routerVars => PoolInv'
<1> SUFFICES ASSUME PoolInv, [RouterNext]_routerVars PROVE PoolInv'
  OBVIOUS
<1>0. RouterShapes /\ PoolsKept /\ RouterShapes'
  BY ShapesStep DEF PoolInv
<1>1. /\ place \in Nat /\ place - 1 \in Nat /\ disk.last \in Nat /\ snap.tables \in Tables
      /\ image \in Tables /\ disk \in Tables /\ pool \in [HiveTxs -> SUBSET Slots]
      /\ disk.last <= place - 1
  BY <1>0, SnapTyped DEF RouterShapes
<1>2. /\ ClaimsUpTo(image.paid, place - 1) /\ ClaimsUpTo(disk.paid, disk.last) /\ CutBetween
      /\ ClaimsUpTo(image.paid, place)
  <2>1. ClaimsUpTo(image.paid, place - 1) /\ ClaimsUpTo(disk.paid, disk.last) /\ CutBetween
    BY <1>0 DEF PoolsKept
  <2> QED
    BY <1>1, <2>1, ClaimsGrow
<1>3. UNCHANGED <<stream, disk>> =>
        /\ \A paid, n : ClaimsUpTo(paid, n)' <=> ClaimsUpTo(paid, n)
        /\ \A paid, t : InBatch(paid, t)' = InBatch(paid, t)
        /\ ClaimsUpTo(disk.paid, disk.last)' /\ CutBetween'
  <2>1. PICK p, n : p = disk.paid /\ n = disk.last
    OBVIOUS
  <2>2. UNCHANGED <<stream, disk>> => ClaimsUpTo(p, n)' /\ CutBetween'
    BY <1>2, <2>1, ClaimsStay
  <2>3. UNCHANGED <<stream, disk>> => \A paid, m : ClaimsUpTo(paid, m)' <=> ClaimsUpTo(paid, m)
    BY ClaimsStay
  <2>4. ASSUME UNCHANGED <<stream, disk>>
        PROVE  \A paid, t : InBatch(paid, t)' = InBatch(paid, t)
    BY <2>4 DEF InBatch
  <2> QED
    BY <2>1, <2>2, <2>3, <2>4
<1>4. CASE TurnAway \/ RefuseUnpaid
  <2>1. image'.paid = image.paid
    <3>1. image' = Recorded(image, Current, place, FALSE)
          \/ image' = Recorded(image, Current, place, TRUE)
      BY <1>4 DEF TurnAway, RefuseUnpaid
    <3>2. Rejected(image, Recorded(image, Current, place, FALSE))
      BY <1>1, RecordedTyped
    <3>3. Rejected(image, Recorded(image, Current, place, TRUE))
      BY <1>1, RecordedTyped
    <3> QED
      BY <3>1, <3>2, <3>3 DEF Rejected
  <2>2. /\ UNCHANGED <<stream, disk, pool>> /\ phase = "idle" /\ phase' = "idle"
        /\ place' = place + 1 /\ place' - 1 = place
    <3>1. /\ UNCHANGED <<stream, disk, pool>> /\ phase = "idle" /\ phase' = "idle"
          /\ place' = place + 1
      BY <1>4 DEF TurnAway, RefuseUnpaid
    <3> QED
      BY <1>1, <3>1
  <2>3. ClaimsUpTo(image.paid, place - 1)'
    BY <1>2, <1>3, <2>1, <2>2
  <2>4. \A t \in HiveTxs : pool'[t] = InBatch(image.paid, t)'
    BY <1>0, <2>1, <2>2, <1>3 DEF PoolsKept
  <2> QED
    BY <1>0, <1>3, <2>2, <2>3, <2>4 DEF PoolInv, PoolsKept
<1>5. CASE OpenSavepoint
  <2>1. /\ UNCHANGED <<stream, disk, pool, image, place>> /\ phase = "idle" /\ phase' = "handling"
        /\ snap'.pool = pool[Current.tx] /\ snap'.tables = image /\ Current' = Current
    BY <1>5 DEF OpenSavepoint, Current
  <2>2. Current.tx \in HiveTxs
    BY <1>0, <1>5, CurrentOp DEF OpenSavepoint
  <2>3. ClaimsUpTo(image.paid, place - 1)'
    BY <1>2, <1>3, <2>1
  <2>4. \A t \in HiveTxs : pool'[t] = InBatch(image.paid, t)'
    BY <1>0, <2>1, <1>3 DEF PoolsKept
  <2>5. Matched' \/ (IsBuy(Current') /\ claimed' = {} /\ pool'[Current'.tx] = snap'.pool)
    BY <1>5, <2>1 DEF OpenSavepoint, PaidUpFront, Matched
  <2> QED
    BY <1>0, <1>3, <2>1, <2>2, <2>3, <2>4, <2>5 DEF PoolInv, PoolsKept
<1>6. CASE ClaimSplit
  <2>1. /\ UNCHANGED <<stream, disk, image, place, snap>> /\ phase = "handling"
        /\ phase' = "handling" /\ Current' = Current /\ IsBuy(Current) /\ claimed = {}
        /\ Payable(Current, pool[Current.tx]) /\ claimed' = Claim(Current, pool[Current.tx])
        /\ pool' = [pool EXCEPT ![Current.tx] = @ \cup claimed']
    BY <1>6 DEF ClaimSplit, Current
  <2>2. Current.tx \in HiveTxs
    BY <1>0, <2>1, CurrentOp DEF RouterShapes
  <2>3. pool[Current.tx] = snap.pool
    BY <1>0, <2>1 DEF PoolsKept, Matched
  <2>4. ClaimsUpTo(image.paid, place - 1)'
    BY <1>2, <1>3, <2>1
  <2>5. Matched'
    BY <1>1, <2>1, <2>2, <2>3 DEF Matched
  <2>6. \A t \in HiveTxs \ {Current'.tx} : pool'[t] = InBatch(image.paid, t)'
    BY <1>0, <1>1, <2>1, <1>3 DEF PoolsKept
  <2>7. snap'.tables.paid = image'.paid /\ snap'.pool = InBatch(image.paid, Current.tx)'
    BY <1>0, <2>1, <1>3 DEF PoolsKept
  <2> QED
    BY <1>0, <1>3, <2>1, <2>4, <2>5, <2>6, <2>7 DEF PoolInv, PoolsKept
<1>7. CASE WriteRow
  <2>1. /\ UNCHANGED <<stream, disk, place, snap, pool, claimed>> /\ phase = "handling"
        /\ phase' = "handling" /\ Current' = Current
        /\ image' = Written(image, NextWrite, place) /\ written < Len(Current.writes)
    BY <1>7 DEF WriteRow, Current
  <2>2. image'.paid = image.paid
    <3>1. NextWrite \in Writes
      BY <1>0, <2>1, NextWriteIs DEF RouterShapes
    <3> QED
      BY <1>1, <2>1, <3>1, WrittenTyped DEF RowWritten
  <2>3. ClaimsUpTo(image.paid, place - 1)'
    BY <1>2, <1>3, <2>1, <2>2
  <2>4. Matched' <=> Matched
    BY <2>1 DEF Matched
  <2>5. \A t \in HiveTxs \ {Current'.tx} : pool'[t] = InBatch(image.paid, t)'
    BY <1>0, <2>1, <2>2, <1>3 DEF PoolsKept
  <2>6. snap'.tables.paid = image'.paid /\ snap'.pool = InBatch(image.paid, Current.tx)'
    BY <1>0, <2>1, <2>2, <1>3 DEF PoolsKept
  <2> QED
    BY <1>0, <1>3, <2>1, <2>3, <2>4, <2>5, <2>6 DEF PoolInv, PoolsKept
<1>8. CASE RejectAndRestore
  <2>1. /\ UNCHANGED <<stream, disk>> /\ phase = "handling" /\ phase' = "idle"
        /\ place' = place + 1 /\ place' - 1 = place
        /\ image' = Recorded(snap.tables, Current, place, TRUE)
        /\ pool' = [pool EXCEPT ![Current.tx] = snap.pool]
    BY <1>1, <1>8 DEF RejectAndRestore, TablesBefore, PoolBefore
  <2>2. image'.paid = image.paid
    <3>1. Rejected(snap.tables, Recorded(snap.tables, Current, place, TRUE))
      BY <1>1, RecordedTyped
    <3> QED
      BY <1>0, <2>1, <3>1 DEF Rejected, PoolsKept
  <2>3. ClaimsUpTo(image.paid, place - 1)'
    BY <1>2, <1>3, <2>1, <2>2
  <2>4. Current.tx \in HiveTxs
    BY <1>0, <2>1, CurrentOp DEF RouterShapes
  <2>5. \A t \in HiveTxs : pool'[t] = InBatch(image.paid, t)'
    <3>1. \A t \in HiveTxs : pool'[t] = InBatch(image.paid, t)
      BY <1>0, <1>1, <2>1, <2>4 DEF PoolsKept
    <3>2. PICK p : p = image.paid
      OBVIOUS
    <3>3. \A t : InBatch(p, t)' = InBatch(p, t)
      BY <1>3, <2>1
    <3> QED
      BY <2>2, <3>1, <3>2, <3>3
  <2> QED
    BY <1>0, <1>3, <2>1, <2>3, <2>5 DEF PoolInv, PoolsKept
<1>9. CASE Confirm
  <2>1. /\ UNCHANGED <<stream, disk>> /\ phase = "handling" /\ phase' = "idle"
        /\ place' = place + 1 /\ place' - 1 = place
        /\ pool' = [pool EXCEPT ![Current.tx] = @ \cup claimed]
        /\ image' = [image EXCEPT !.confirmed = @ \cup {place}, !.paid = @ \cup {<<place, claimed>>}]
        /\ IsBuy(Current) => claimed # {}
    BY <1>1, <1>9 DEF Confirm, Settled
  <2>2. image'.paid = image.paid \cup {<<place, claimed>>}
    BY <1>1, <2>1 DEF Tables
  <2>3. Matched /\ place <= Len(stream)
    BY <1>0, <2>1 DEF PoolsKept, RouterShapes
  <2>4. PICK paid : paid = image.paid \cup {<<place, claimed>>}
    OBVIOUS
  <2>5. ClaimsUpTo(paid, place) /\ \A t \in HiveTxs : pool'[t] = InBatch(paid, t)
    BY <1>0, <2>1, <2>3, <2>4, ClaimNew
  <2>6. ClaimsUpTo(image.paid, place - 1)'
    <3>1. PICK n : n = place
      OBVIOUS
    <3>2. ClaimsUpTo(paid, n)'
      BY <1>3, <2>1, <2>5, <3>1
    <3> QED
      BY <2>1, <2>2, <2>4, <3>1, <3>2
  <2>7. \A t \in HiveTxs : pool'[t] = InBatch(image.paid, t)'
    <3>1. \A t : InBatch(paid, t)' = InBatch(paid, t)
      BY <1>3, <2>1
    <3> QED
      BY <2>1, <2>2, <2>4, <2>5, <3>1
  <2> QED
    BY <1>0, <1>3, <2>1, <2>6, <2>7 DEF PoolInv, PoolsKept
<1>10. CASE CommitBatch
  <2>1. PICK t \in Tables : t = Flushed(image, buffer) /\ t.paid = image.paid
    BY <1>0, <1>1, FlushTyped DEF RouterShapes
  <2>2. /\ image' = [t EXCEPT !.last = place - 1] /\ disk' = image' /\ UNCHANGED <<stream, place>>
        /\ pool' = EmptyPool /\ phase' = "idle"
        /\ place <= Len(stream) => Current.tx # stream[place - 1].tx
    BY <1>10, <2>1 DEF CommitBatch
  <2>3. disk'.paid = image.paid /\ disk'.last = place - 1 /\ image'.paid = image.paid
    BY <2>1, <2>2 DEF Tables
  <2>4. ClaimsUpTo(image.paid, place - 1)' /\ ClaimsUpTo(disk.paid, disk.last)'
    BY <1>2, <2>2, <2>3, ClaimsStay
  <2>5. CutBetween'
    <3>1. Len(stream) \in Nat
      BY <1>0, OpsTyped DEF RouterShapes
    <3>2. (place - 1) + 1 = place /\ (place - 1 < Len(stream) => place <= Len(stream))
      BY <1>1, <3>1
    <3> QED
      BY <2>2, <2>3, <3>2 DEF CutBetween, Current
  <2>6. \A h \in HiveTxs : pool'[h] = InBatch(image.paid, h)'
    <3>1. \A p \in image'.paid : p[1] <= disk'.last /\ p[1] \in Nat /\ disk'.last \in Nat
      BY <1>1, <1>2, <2>3 DEF ClaimsUpTo
    <3>2. \A h \in HiveTxs : InBatch(image.paid, h)' = {}
      BY <3>1 DEF InBatch
    <3> QED
      BY <2>2, <3>2 DEF EmptyPool
  <2> QED
    BY <1>0, <2>2, <2>4, <2>5, <2>6 DEF PoolInv, PoolsKept
<1>11. CASE LoseBatch
  <2>1. /\ UNCHANGED <<stream, disk>> /\ image' = disk /\ place' = disk.last + 1
        /\ place' - 1 = disk.last /\ pool' = EmptyPool /\ phase' = "idle"
    BY <1>1, <1>11 DEF LoseBatch
  <2>2. ClaimsUpTo(image.paid, place - 1)'
    BY <1>2, <1>3, <2>1
  <2>3. \A h \in HiveTxs : pool'[h] = InBatch(image.paid, h)'
    <3>1. PICK p : p = disk.paid
      OBVIOUS
    <3>2. \A h : InBatch(p, h) = {}
      BY <1>1, <1>2, <3>1, NothingInBatch
    <3>3. \A h : InBatch(p, h)' = {}
      BY <1>3, <2>1, <3>2
    <3> QED
      BY <2>1, <3>1, <3>3 DEF EmptyPool
  <2> QED
    BY <1>0, <1>3, <2>1, <2>2, <2>3 DEF PoolInv, PoolsKept
<1>12. CASE UNCHANGED routerVars
  <2>1. UNCHANGED <<stream, disk, image, place, snap, pool, claimed, phase>> /\ Current' = Current
    BY <1>12 DEF routerVars, Current
  <2>2. PoolsKept' <=> PoolsKept
    BY <2>1 DEF PoolsKept, ClaimsUpTo, InBatch, CutBetween, Matched
  <2> QED
    BY <1>0, <2>2 DEF PoolInv
<1> QED
  BY <1>4, <1>5, <1>6, <1>7, <1>8, <1>9, <1>10, <1>11, <1>12 DEF RouterNext

\* In one Hive transaction no transfer pays for two operations, a purchase is
\* paid by transfers that bring its price to the last unit (the fee, the
\* royalty and the seller's rest each by a transfer of its own, whichever of
\* them are due), and what the router remembers as spoken for between two
\* operations is what the confirmed ones of the batch claimed: a claim of a
\* handler that failed is given back, and no batch needs to know the claims of
\* an earlier one.
THEOREM TransfersPayOnce == RouterSpec => []PoolExact
<1>1. PoolInv => PoolExact
  BY DEF PoolInv, PoolsKept, PoolExact, ClaimsUpTo, InBatch
<1> QED
  BY <1>1, PoolInit, PoolStep, PTL DEF RouterSpec
-----------------------------------------------------------------------------
(* The reference: both of its recursive functions are runs of their steps.   *)

Bare == {t \in Tables : t.root = {} /\ t.count = 0}

RewriteStep(op, n) ==
    [s \in ((0 + 1)..Len(op.writes)) \X Bare |-> Written(s[2], op.writes[s[1]], n)]

LEMMA BareWritten ==
    ASSUME NEW t \in Bare, NEW w \in Writes, NEW n \in Nat
    PROVE  Written(t, w, n) \in Bare
  BY WrittenTyped DEF Bare, RowWritten

LEMMA RewrittenRuns ==
    ASSUME NEW op \in Ops, NEW t \in Bare, NEW n \in Nat
    PROVE  /\ Len(op.writes) \in Nat /\ \A k \in 1..Len(op.writes) : op.writes[k] \in Writes
           /\ Rewritten(op, t, n) \in [0..Len(op.writes) -> Bare]
           /\ Rewritten(op, t, n)[0] = t
           /\ \A k \in 1..Len(op.writes) :
                Rewritten(op, t, n)[k] = Written(Rewritten(op, t, n)[k - 1], op.writes[k], n)
<1>0. Len(op.writes) \in Nat /\ \A k \in 1..Len(op.writes) : op.writes[k] \in Writes
  <2>1. op.writes \in Seq(Writes)
    BY RouterAssumption DEF Writes
  <2> QED
    BY <2>1, LenProperties, ElementOfSeq
<1>1. RewriteStep(op, n) \in [((0 + 1)..Len(op.writes)) \X Bare -> Bare]
  <2>1. \A s \in ((0 + 1)..Len(op.writes)) \X Bare : Written(s[2], op.writes[s[1]], n) \in Bare
    BY <1>0, BareWritten
  <2> QED
    BY <2>1 DEF RewriteStep
<1> DEFINE Eq(f) == f = [k \in 0..Len(op.writes) |->
                            IF k = 0 THEN t ELSE Written(f[k - 1], op.writes[k], n)]
           A == CHOOSE f : Eq(f)
<1>2. Rewritten(op, t, n) = A
  BY DEF Rewritten
<1>3. PICK f \in [0..Len(op.writes) -> Bare] : Run(f, 0, Len(op.writes), t, RewriteStep(op, n))
  <2>1. PICK g \in [((0 + 1)..Len(op.writes)) \X Bare -> Bare] : g = RewriteStep(op, n)
    BY <1>1
  <2>2. 0 \in Nat /\ 0 <= Len(op.writes)
    BY <1>0
  <2>3. \E f \in [0..Len(op.writes) -> Bare] : Run(f, 0, Len(op.writes), t, g)
    BY <1>0, <2>2, RunExists
  <2> QED
    BY <2>1, <2>3
<1>4. Eq(f)
  <2>1. ASSUME NEW k \in 0..Len(op.writes), k # 0
        PROVE  f[k] = Written(f[k - 1], op.writes[k], n)
    <3>1. k \in (0 + 1)..Len(op.writes) /\ f[k - 1] \in Bare
      BY <1>0, <2>1
    <3>2. f[k] = RewriteStep(op, n)[<<k, f[k - 1]>>]
      BY <1>3, <3>1 DEF Run
    <3> QED
      BY <3>1, <3>2 DEF RewriteStep
  <2>2. f[0] = t
    BY <1>3 DEF Run
  <2> QED
    BY <2>1, <2>2
<1>5. Eq(A)
  BY <1>4, Zenon
<1>6. A \in [0..Len(op.writes) -> Bare] /\ Run(A, 0, Len(op.writes), t, RewriteStep(op, n))
  <2> HIDE DEF A
  <2>1. A = [k \in 0..Len(op.writes) |-> A[k]] /\ A[0] = t
    BY <1>0, <1>5
  <2>2. ASSUME NEW k \in (0 + 1)..Len(op.writes), A[k - 1] \in Bare
        PROVE  A[k] = RewriteStep(op, n)[<<k, A[k - 1]>>]
    <3>1. k \in 0..Len(op.writes) /\ k # 0
      BY <1>0, <2>2
    <3>2. A[k] = Written(A[k - 1], op.writes[k], n)
      BY <1>5, <3>1
    <3> QED
      BY <2>2, <3>2 DEF RewriteStep
  <2>3. 0 \in Nat /\ 0 <= Len(op.writes)
    BY <1>0
  <2>4. GoesOn(A, 0, Len(op.writes), t, RewriteStep(op, n), Bare)
    BY <2>1, <2>2 DEF GoesOn
  <2>5. PICK g \in [((0 + 1)..Len(op.writes)) \X Bare -> Bare] : g = RewriteStep(op, n)
    BY <1>1
  <2>6. GoesOn(A, 0, Len(op.writes), t, g, Bare)
    BY <2>4, <2>5
  <2>7. A \in [0..Len(op.writes) -> Bare] /\ Run(A, 0, Len(op.writes), t, g)
    BY <1>0, <2>3, <2>6, RunOf
  <2> QED
    BY <2>5, <2>7
<1> HIDE DEF A
<1>7. ASSUME NEW k \in 1..Len(op.writes) PROVE A[k] = Written(A[k - 1], op.writes[k], n)
  <2>1. k \in (0 + 1)..Len(op.writes) /\ k - 1 \in 0..Len(op.writes)
    BY <1>0
  <2>2. A[k] = RewriteStep(op, n)[<<k, A[k - 1]>>] /\ A[k - 1] \in Bare
    BY <1>6, <2>1 DEF Run
  <2> QED
    BY <2>1, <2>2 DEF RewriteStep
<1> QED
  BY <1>0, <1>2, <1>6, <1>7 DEF Run

\* Whether the reference applies the operation, and what it makes of it.
Applies(op, t, n, used) ==
    /\ op.admitted /\ op.active /\ op.sound /\ Payable(op, used)
    /\ \A k \in 1..Len(op.writes) : Writable(Rewritten(op, t, n)[k - 1], op.writes[k])

Confirmed(t, n, claim) ==
    [t EXCEPT !.confirmed = @ \cup {n}, !.paid = @ \cup {<<n, claim>>}]

LEMMA WholeIs ==
    ASSUME NEW op, NEW t, NEW n, NEW used
    PROVE  /\ Applies(op, t, n, used) =>
                Whole(op, t, n, used) =
                  Confirmed(Rewritten(op, t, n)[Len(op.writes)], n, Claim(op, used))
           /\ ~Applies(op, t, n, used) => Whole(op, t, n, used) = Recorded(t, op, n, op.admitted)
  BY DEF Whole, Applies, Confirmed

\* u is t with one more operation confirmed.
OneConfirmed(t, n, claim, u) ==
    /\ u \in Tables /\ u.rows = t.rows /\ u.gone = t.gone /\ u.invalid = t.invalid
    /\ u.orphaned = t.orphaned /\ u.root = t.root /\ u.count = t.count /\ u.last = t.last
    /\ u.confirmed = t.confirmed \cup {n} /\ u.paid = t.paid \cup {<<n, claim>>}

LEMMA ConfirmedTyped ==
    ASSUME NEW t \in Tables, NEW n \in Nat, NEW claim \in SUBSET Slots
    PROVE  OneConfirmed(t, n, claim, Confirmed(t, n, claim))
<1>1. PICK paid \in SUBSET (Nat \X SUBSET Slots) : paid = t.paid \cup {<<n, claim>>}
  <2>1. t.paid \in SUBSET (Nat \X SUBSET Slots)
    BY DEF Tables
  <2>2. <<n, claim>> \in Nat \X SUBSET Slots
    OBVIOUS
  <2> HIDE DEF Slots
  <2> QED
    BY <2>1, <2>2
<1>2. PICK c \in SUBSET Nat : c = t.confirmed \cup {n}
  BY DEF Tables
<1>3. Confirmed(t, n, claim) = [t EXCEPT !.confirmed = c, !.paid = paid]
  BY <1>1, <1>2 DEF Confirmed
<1> QED
  BY <1>1, <1>2, <1>3 DEF Tables, OneConfirmed

LEMMA WholeBare ==
    ASSUME NEW op \in Ops, NEW t \in Bare, NEW n \in Nat, NEW used
    PROVE  Whole(op, t, n, used) \in Bare
<1>1. CASE Applies(op, t, n, used)
  <2>1. PICK u \in Bare : u = Rewritten(op, t, n)[Len(op.writes)]
    BY RewrittenRuns
  <2>2. Claim(op, used) \in SUBSET Slots
    BY ClaimTyped
  <2>3. u \in Tables /\ u.root = {} /\ u.count = 0
    BY DEF Bare
  <2>4. Whole(op, t, n, used) = Confirmed(u, n, Claim(op, used))
    BY <1>1, <2>1, WholeIs
  <2>5. OneConfirmed(u, n, Claim(op, used), Confirmed(u, n, Claim(op, used)))
    BY <2>2, <2>3, ConfirmedTyped
  <2> QED
    BY <2>3, <2>4, <2>5 DEF Bare, OneConfirmed
<1>2. CASE ~Applies(op, t, n, used)
  <2>1. t \in Tables /\ t.root = {} /\ t.count = 0
    BY DEF Bare
  <2>2. Whole(op, t, n, used) = Recorded(t, op, n, op.admitted)
    BY <1>2, WholeIs
  <2>3. Rejected(t, Recorded(t, op, n, op.admitted))
    BY <2>1, RecordedTyped
  <2> QED
    BY <2>1, <2>2, <2>3 DEF Bare, Rejected
<1> QED
  BY <1>1, <1>2
\* The operation at n, played on the tables t.
Played(ops, t, n) == Whole(ops[n], t, n, SpokenFor(t, ops, ops[n].tx))

PlayStep(ops) == [s \in ((0 + 1)..Len(ops)) \X Bare |-> Played(ops, s[2], s[1])]

LEMMA ReferenceRuns ==
    ASSUME NEW ops \in Streams
    PROVE  /\ Reference(ops) \in [0..Len(ops) -> Bare]
           /\ Reference(ops)[0] = EmptyTables
           /\ \A n \in 1..Len(ops) : Reference(ops)[n] = Played(ops, Reference(ops)[n - 1], n)
<1>0. Len(ops) \in Nat /\ \A n \in 1..Len(ops) : ops[n] \in Ops
  BY OpsTyped
<1>1. PlayStep(ops) \in [((0 + 1)..Len(ops)) \X Bare -> Bare]
  <2>1. ASSUME NEW n \in (0 + 1)..Len(ops), NEW t \in Bare PROVE Played(ops, t, n) \in Bare
    <3>1. n \in Nat /\ ops[n] \in Ops
      BY <1>0
    <3> QED
      BY <3>1, WholeBare DEF Played
  <2>2. \A s \in ((0 + 1)..Len(ops)) \X Bare : Played(ops, s[2], s[1]) \in Bare
    BY <2>1
  <2> QED
    BY <2>2 DEF PlayStep
<1>2. PICK z \in Bare : z = EmptyTables
  BY EmptyTyped DEF Bare, EmptyTables
<1> DEFINE Eq(f) == f = [n \in 0..Len(ops) |-> IF n = 0 THEN EmptyTables ELSE Played(ops, f[n - 1], n)]
           A == CHOOSE f : Eq(f)
<1>3. Reference(ops) = A
  BY DEF Reference, Played
<1>4. PICK g \in [((0 + 1)..Len(ops)) \X Bare -> Bare] : g = PlayStep(ops)
  BY <1>1
<1>5. 0 \in Nat /\ 0 <= Len(ops)
  BY <1>0
<1>6. PICK f \in [0..Len(ops) -> Bare] : Run(f, 0, Len(ops), z, g)
  BY <1>0, <1>5, RunExists
<1>7. Eq(f)
  <2>1. ASSUME NEW n \in 0..Len(ops), n # 0 PROVE f[n] = Played(ops, f[n - 1], n)
    <3>1. n \in (0 + 1)..Len(ops) /\ f[n - 1] \in Bare
      BY <1>0, <2>1
    <3>2. f[n] = g[<<n, f[n - 1]>>]
      BY <1>6, <3>1 DEF Run
    <3> QED
      BY <1>4, <3>1, <3>2 DEF PlayStep
  <2>2. f[0] = EmptyTables
    BY <1>2, <1>6 DEF Run
  <2> QED
    BY <2>1, <2>2
<1>8. Eq(A)
  BY <1>7, Zenon
<1>9. A \in [0..Len(ops) -> Bare] /\ Run(A, 0, Len(ops), z, g)
  <2> HIDE DEF A
  <2>1. A = [n \in 0..Len(ops) |-> A[n]] /\ A[0] = z
    BY <1>0, <1>2, <1>8
  <2>2. ASSUME NEW n \in (0 + 1)..Len(ops), A[n - 1] \in Bare
        PROVE  A[n] = g[<<n, A[n - 1]>>]
    <3>1. n \in 0..Len(ops) /\ n # 0
      BY <1>0, <2>2
    <3>2. A[n] = Played(ops, A[n - 1], n)
      BY <1>8, <3>1
    <3> QED
      BY <1>4, <2>2, <3>2 DEF PlayStep
  <2>3. GoesOn(A, 0, Len(ops), z, g, Bare)
    BY <2>1, <2>2 DEF GoesOn
  <2> QED
    BY <1>0, <1>5, <2>3, RunOf
<1> HIDE DEF A
<1>10. ASSUME NEW n \in 1..Len(ops) PROVE A[n] = Played(ops, A[n - 1], n)
  <2>1. n \in (0 + 1)..Len(ops) /\ n - 1 \in 0..Len(ops)
    BY <1>0
  <2>2. A[n] = g[<<n, A[n - 1]>>] /\ A[n - 1] \in Bare
    BY <1>9, <2>1 DEF Run
  <2> QED
    BY <1>4, <2>1, <2>2 DEF PlayStep
<1> QED
  BY <1>2, <1>3, <1>9, <1>10 DEF Run

-----------------------------------------------------------------------------
(* The tables follow the reference: whole operations between operations, and *)
(* inside a savepoint as far as the handler has written.                     *)

Like(t, u) ==
    /\ t.rows = u.rows /\ t.gone = u.gone /\ t.confirmed = u.confirmed
    /\ t.invalid = u.invalid /\ t.orphaned = u.orphaned /\ t.paid = u.paid

Midway(after) ==
    /\ written <= Len(Current.writes) /\ Like(image, after[written])
    /\ \A k \in 1..written : Writable(after[k - 1], Current.writes[k])

Follows(ref) ==
    /\ Like(disk, ref[disk.last])
    /\ phase = "idle" => Like(image, ref[place - 1])
    /\ phase = "handling" =>
          /\ Like(snap.tables, ref[place - 1]) /\ Current.admitted /\ Current.active
          /\ Midway(Rewritten(Current, ref[place - 1], place))

AppliedInv == PoolInv /\ Follows(Reference(stream))

LEMMA LikeWritten ==
    ASSUME NEW t \in Tables, NEW u \in Tables, Like(t, u), NEW w \in Writes, NEW n \in Nat
    PROVE  /\ Like(Written(t, w, n), Written(u, w, n))
           /\ Writable(t, w) <=> Writable(u, w)
<1>0. w.id \in Ids /\ w.does \in {"insert", "update", "delete"}
  BY DEF Writes
<1>1. t.rows = u.rows /\ t.gone = u.gone
  BY DEF Like
<1>2. Writable(t, w) <=> Writable(u, w)
  BY <1>1 DEF Writable
<1>3. Like(Written(t, w, n), Written(u, w, n))
  <2>1. PICK r : r = [t.rows EXCEPT ![w.id] = n]
    OBVIOUS
  <2>2. PICK s : s = [t.rows EXCEPT ![w.id] = 0]
    OBVIOUS
  <2>3. PICK g : g = t.gone \cup {w.id}
    OBVIOUS
  <2>4. CASE w.does = "insert"
    <3>1. /\ Written(t, w, n) = IF t.rows[w.id] = 0 THEN [t EXCEPT !.rows = r] ELSE t
          /\ Written(u, w, n) = IF t.rows[w.id] = 0 THEN [u EXCEPT !.rows = r] ELSE u
      BY <1>1, <2>1, <2>4 DEF Written
    <3> QED
      BY <3>1 DEF Like, Tables
  <2>5. CASE w.does = "update"
    <3>1. Written(t, w, n) = [t EXCEPT !.rows = r] /\ Written(u, w, n) = [u EXCEPT !.rows = r]
      BY <1>1, <2>1, <2>5 DEF Written
    <3> QED
      BY <3>1 DEF Like, Tables
  <2>6. CASE w.does = "delete"
    <3>1. /\ Written(t, w, n) = [t EXCEPT !.rows = s, !.gone = g]
          /\ Written(u, w, n) = [u EXCEPT !.rows = s, !.gone = g]
      BY <1>1, <2>2, <2>3, <2>6 DEF Written
    <3> QED
      BY <3>1 DEF Like, Tables
  <2> QED
    BY <1>0, <2>4, <2>5, <2>6
<1> QED
  BY <1>2, <1>3

LEMMA LikeRecorded ==
    ASSUME NEW t \in Tables, NEW u \in Tables, Like(t, u), NEW op, NEW n \in Nat,
           NEW f, NEW g, f <=> g
    PROVE  Like(Recorded(t, op, n, f), Recorded(u, op, n, g))
  BY DEF Like, Recorded, Tables

LEMMA LikeConfirmed ==
    ASSUME NEW t \in Tables, NEW u \in Tables, Like(t, u), NEW n \in Nat,
           NEW claim \in SUBSET Slots
    PROVE  Like(Confirmed(t, n, claim), Confirmed(u, n, claim))
<1>1. OneConfirmed(t, n, claim, Confirmed(t, n, claim))
  BY ConfirmedTyped
<1>2. OneConfirmed(u, n, claim, Confirmed(u, n, claim))
  BY ConfirmedTyped
<1> QED
  BY <1>1, <1>2 DEF Like, OneConfirmed
\* What the pool of the present operation's transaction holds is what the
\* reference finds among all that was ever paid.
LEMMA AllSpokenFor ==
    ASSUME RouterShapes, PoolsKept, place <= Len(stream), NEW t, t.paid = image.paid
    PROVE  InBatch(image.paid, Current.tx) = SpokenFor(t, stream, Current.tx)
<1>1. ASSUME NEW p \in image.paid, stream[p[1]].tx = Current.tx PROVE p[1] > disk.last
  <2>1. p[1] \in 1..(place - 1) /\ CutBetween
    BY DEF PoolsKept, ClaimsUpTo
  <2>2. place \in Nat /\ disk.last \in Nat
    BY SnapTyped DEF RouterShapes
  <2>3. p[1] \notin 1..disk.last
    BY <1>1, <2>1, BatchesApart
  <2> QED
    BY <2>1, <2>2, <2>3
<1> QED
  BY <1>1 DEF InBatch, SpokenFor

LEMMA AppliedInit == RouterInit => AppliedInv
<1> SUFFICES ASSUME RouterInit PROVE AppliedInv
  OBVIOUS
<1>1. Reference(stream)[0] = EmptyTables
  BY ReferenceRuns DEF RouterInit
<1>2. disk = EmptyTables /\ image = EmptyTables /\ phase = "idle" /\ place = 1
  BY DEF RouterInit
<1>3. disk.last = 0 /\ place - 1 = 0
  BY <1>2 DEF EmptyTables
<1> QED
  BY <1>1, <1>2, <1>3, PoolInit DEF AppliedInv, Follows, Like

\* What every step may use: the reference at the place of the routing, and
\* what it makes of the present operation.
LEMMA Facts ==
    ASSUME AppliedInv, NEW ref, ref = Reference(stream)
    PROVE  /\ RouterShapes /\ PoolsKept /\ Follows(ref)
           /\ place \in Nat /\ place - 1 \in Nat /\ written \in Nat /\ disk.last \in Nat
           /\ image \in Tables /\ disk \in Tables /\ snap.tables \in Tables
           /\ ref[place - 1] \in Bare /\ ref[place - 1] \in Tables
           /\ place <= Len(stream) =>
                /\ Current \in Ops
                /\ ref[place] = Whole(Current, ref[place - 1], place,
                                      SpokenFor(ref[place - 1], stream, Current.tx))
<1>1. RouterShapes /\ PoolsKept /\ Follows(ref)
  BY DEF AppliedInv, PoolInv
<1>2. /\ place \in Nat /\ 1 <= place /\ place <= Len(stream) + 1 /\ written \in Nat
      /\ image \in Tables /\ disk \in Tables /\ stream \in Streams
  BY <1>1 DEF RouterShapes
<1>3. Len(stream) \in Nat
  BY <1>2, OpsTyped
<1>4. disk.last \in Nat /\ snap.tables \in Tables
  BY <1>1, SnapTyped
<1>5. place - 1 \in 0..Len(stream)
  BY <1>2, <1>3
<1>6. ref[place - 1] \in Bare
  BY <1>2, <1>5, ReferenceRuns
<1>7. ref[place - 1] \in Tables
  BY <1>6 DEF Bare
<1>8. ASSUME place <= Len(stream)
      PROVE  /\ Current \in Ops
             /\ ref[place] = Whole(Current, ref[place - 1], place,
                                   SpokenFor(ref[place - 1], stream, Current.tx))
  <2>1. Current \in Ops
    BY <1>1, <1>8, CurrentOp
  <2>2. ref[place] = Played(stream, ref[place - 1], place)
    BY <1>2, <1>3, <1>8, ReferenceRuns
  <2> QED
    BY <2>1, <2>2 DEF Played, Current
<1> QED
  BY <1>1, <1>2, <1>4, <1>5, <1>6, <1>7, <1>8

\* A rejection is what the reference makes of an operation it does not apply.
LEMMA RejectionFollows ==
    ASSUME AppliedInv, NEW ref, ref = Reference(stream), place <= Len(stream),
           ~Applies(Current, ref[place - 1], place, SpokenFor(ref[place - 1], stream, Current.tx)),
           NEW t \in Tables, Like(t, ref[place - 1]), NEW f, f <=> Current.admitted
    PROVE  Like(Recorded(t, Current, place, f), ref[place])
<1>1. PICK u : u = ref[place - 1]
  OBVIOUS
<1>2. PICK used : used = SpokenFor(u, stream, Current.tx)
  OBVIOUS
<1>3. ref[place] = Whole(Current, u, place, used) /\ u \in Tables /\ place \in Nat
  BY <1>1, <1>2, Facts
<1>4. ref[place] = Recorded(u, Current, place, Current.admitted)
  BY <1>1, <1>2, <1>3, WholeIs
<1>5. Like(Recorded(t, Current, place, f), Recorded(u, Current, place, Current.admitted))
  BY <1>1, <1>3, LikeRecorded
<1> QED
  BY <1>4, <1>5
\* Inside a savepoint the claims of the reference are those of the snapshot.
LEMMA SnapSpokenFor ==
    ASSUME AppliedInv, NEW ref, ref = Reference(stream), phase = "handling"
    PROVE  /\ place <= Len(stream) /\ snap.pool = SpokenFor(ref[place - 1], stream, Current.tx)
           /\ Midway(Rewritten(Current, ref[place - 1], place))
           /\ Like(snap.tables, ref[place - 1]) /\ Current.admitted /\ Current.active
<1>1. RouterShapes /\ PoolsKept /\ Follows(ref)
  BY Facts
<1>2. place <= Len(stream)
  BY <1>1 DEF RouterShapes
<1>3. PICK u : u = ref[place - 1]
  OBVIOUS
<1>4. Like(snap.tables, u) /\ snap.tables.paid = image.paid
  BY <1>1, <1>3 DEF Follows, PoolsKept
<1>5. u.paid = image.paid
  BY <1>4 DEF Like
<1>6. InBatch(image.paid, Current.tx) = SpokenFor(u, stream, Current.tx)
  BY <1>1, <1>2, <1>5, AllSpokenFor
<1> QED
  BY <1>1, <1>2, <1>3, <1>6 DEF Follows, PoolsKept

LEMMA FailureFollows ==
    ASSUME AppliedInv, NEW ref, ref = Reference(stream), phase = "handling", Fails
    PROVE  ~Applies(Current, ref[place - 1], place, SpokenFor(ref[place - 1], stream, Current.tx))
<1>1. PICK u : u = ref[place - 1]
  OBVIOUS
<1>2. PICK after : after = Rewritten(Current, u, place)
  OBVIOUS
<1>3. /\ RouterShapes /\ PoolsKept /\ place <= Len(stream) /\ image \in Tables /\ u \in Bare
      /\ written \in Nat /\ place \in Nat /\ Current \in Ops
  BY <1>1, SnapSpokenFor, Facts
<1>4. snap.pool = SpokenFor(u, stream, Current.tx) /\ Midway(after)
  BY <1>1, <1>2, SnapSpokenFor
<1>5. CASE IsBuy(Current) /\ claimed = {} /\ ~Payable(Current, pool[Current.tx])
  <2>1. pool[Current.tx] = snap.pool
    BY <1>3, <1>5 DEF PoolsKept, Matched
  <2> QED
    BY <1>1, <1>4, <1>5, <2>1 DEF Applies
<1>6. CASE written < Len(Current.writes) /\ ~Writable(image, NextWrite)
  <2>1. written \in 0..Len(Current.writes) /\ written + 1 \in 1..Len(Current.writes)
        /\ (written + 1) - 1 = written /\ NextWrite \in Writes
    BY <1>3, <1>6, NextWriteIs
  <2>2. after[written] \in Tables
    <3>1. after \in [0..Len(Current.writes) -> Bare]
      BY <1>2, <1>3, RewrittenRuns
    <3> QED
      BY <2>1, <3>1 DEF Bare
  <2>3. Like(image, after[written])
    BY <1>4 DEF Midway
  <2>4. ~Writable(after[written], NextWrite)
    BY <1>3, <1>6, <2>1, <2>2, <2>3, LikeWritten
  <2>5. ~Writable(after[(written + 1) - 1], Current.writes[written + 1])
    BY <2>1, <2>4 DEF NextWrite
  <2> QED
    BY <1>1, <1>2, <2>1, <2>5 DEF Applies
<1>7. CASE ~Current.sound
  BY <1>7 DEF Applies
<1> QED
  BY <1>5, <1>6, <1>7 DEF Fails

LEMMA SuccessFollows ==
    ASSUME AppliedInv, NEW ref, ref = Reference(stream), Confirm
    PROVE  Like(image', ref[place])
<1>0. /\ phase = "handling" /\ written = Len(Current.writes) /\ Current.sound
      /\ (IsBuy(Current) => claimed # {})
      /\ image' = Confirmed(image, place, claimed)
  BY DEF Confirm, Settled, Confirmed
<1>1. PICK u : u = ref[place - 1]
  OBVIOUS
<1>2. PICK after : after = Rewritten(Current, u, place)
  OBVIOUS
<1>3. PICK used : used = SpokenFor(u, stream, Current.tx)
  OBVIOUS
<1>4. /\ RouterShapes /\ PoolsKept /\ place <= Len(stream) /\ image \in Tables /\ u \in Bare
      /\ place \in Nat /\ Current \in Ops /\ ref[place] = Whole(Current, u, place, used)
  BY <1>0, <1>1, <1>3, SnapSpokenFor, Facts
<1>5. snap.pool = used /\ Midway(after) /\ Current.admitted /\ Current.active
  BY <1>0, <1>1, <1>2, <1>3, SnapSpokenFor
<1>6. claimed = Claim(Current, used) /\ Payable(Current, used)
  BY <1>0, <1>4, <1>5 DEF PoolsKept, Matched
<1>7. Applies(Current, u, place, used)
  BY <1>0, <1>2, <1>5, <1>6 DEF Applies, Midway
<1>8. ref[place] = Confirmed(after[written], place, claimed)
  BY <1>0, <1>2, <1>4, <1>6, <1>7, WholeIs
<1>9. after[written] \in Tables
  <2>1. after \in [0..Len(Current.writes) -> Bare] /\ Len(Current.writes) \in Nat
    BY <1>2, <1>4, RewrittenRuns
  <2>2. written \in 0..Len(Current.writes)
    BY <1>0, <2>1
  <2> QED
    BY <2>1, <2>2 DEF Bare
<1>10. Like(image, after[written])
  BY <1>5 DEF Midway
<1>11. claimed \in SUBSET Slots
  BY <1>4 DEF RouterShapes
<1> QED
  BY <1>0, <1>4, <1>8, <1>9, <1>10, <1>11, LikeConfirmed

LEMMA WriteFollows ==
    ASSUME AppliedInv, NEW ref, ref = Reference(stream), WriteRow,
           NEW after, after = Rewritten(Current, ref[place - 1], place)
    PROVE  /\ written + 1 <= Len(Current.writes) /\ Like(image', after[written + 1])
           /\ \A k \in 1..(written + 1) : Writable(after[k - 1], Current.writes[k])
<1>1. /\ phase = "handling" /\ written < Len(Current.writes) /\ Writable(image, NextWrite)
      /\ image' = Written(image, NextWrite, place)
  BY DEF WriteRow
<1>2. /\ RouterShapes /\ place <= Len(stream) /\ image \in Tables /\ ref[place - 1] \in Bare
      /\ written \in Nat /\ place \in Nat /\ Current \in Ops
  BY <1>1, SnapSpokenFor, Facts
<1>3. Midway(after)
  BY <1>1, SnapSpokenFor
<1>4. /\ after \in [0..Len(Current.writes) -> Bare] /\ Len(Current.writes) \in Nat
      /\ \A k \in 1..Len(Current.writes) : after[k] = Written(after[k - 1], Current.writes[k], place)
  BY <1>2, RewrittenRuns
<1>5. /\ written \in 0..Len(Current.writes) /\ written + 1 \in 1..Len(Current.writes)
      /\ (written + 1) - 1 = written /\ NextWrite \in Writes
      /\ NextWrite = Current.writes[written + 1]
  BY <1>1, <1>2, NextWriteIs DEF NextWrite
<1>6. after[written] \in Tables
  BY <1>4, <1>5 DEF Bare
<1>7. Like(image, after[written]) /\ \A k \in 1..written : Writable(after[k - 1], Current.writes[k])
  BY <1>3 DEF Midway
<1>8. after[written + 1] = Written(after[written], NextWrite, place)
  BY <1>4, <1>5
<1>9. Like(image', after[written + 1])
  BY <1>1, <1>2, <1>5, <1>6, <1>7, <1>8, LikeWritten
<1>10. Writable(after[written], NextWrite)
  BY <1>1, <1>2, <1>5, <1>6, <1>7, LikeWritten
<1>11. ASSUME NEW k \in 1..(written + 1) PROVE Writable(after[k - 1], Current.writes[k])
  <2>1. k \in 1..written \/ k = written + 1
    BY <1>2
  <2> QED
    BY <1>5, <1>7, <1>10, <2>1
<1> QED
  BY <1>4, <1>5, <1>9, <1>11
LEMMA AppliedStep == AppliedInv /\ [RouterNext]_routerVars => AppliedInv'
<1> SUFFICES ASSUME AppliedInv, [RouterNext]_routerVars PROVE AppliedInv'
  OBVIOUS
<1> DEFINE used(u) == SpokenFor(u, stream, Current.tx)
<1>0. PICK ref : ref = Reference(stream)
  OBVIOUS
<1>1. PoolInv'
  BY PoolStep DEF AppliedInv
<1>2. stream' = stream
  BY DEF RouterNext, routerVars, TurnAway, RefuseUnpaid, OpenSavepoint, ClaimSplit, WriteRow,
         RejectAndRestore, Confirm, CommitBatch, LoseBatch
<1> SUFFICES Follows(ref)'
  BY <1>0, <1>1, <1>2 DEF AppliedInv, Follows, Midway, Current
<1>3. /\ RouterShapes /\ PoolsKept /\ Follows(ref)
      /\ place \in Nat /\ place - 1 \in Nat /\ disk.last \in Nat
      /\ image \in Tables /\ disk \in Tables /\ snap.tables \in Tables
      /\ ref[place - 1] \in Bare /\ ref[place - 1] \in Tables
      /\ (place + 1) - 1 = place
  <2>1. place \in Nat
    BY <1>0, Facts
  <2>2. (place + 1) - 1 = place
    BY <2>1
  <2> QED
    BY <1>0, <2>2, Facts
<1>4. ASSUME phase = "idle", place <= Len(stream)
      PROVE  /\ Like(image, ref[place - 1])
             /\ pool[Current.tx] = used(ref[place - 1])
  <2>1. Like(image, ref[place - 1])
    BY <1>3, <1>4 DEF Follows
  <2>2. Current.tx \in HiveTxs
    BY <1>3, <1>4, CurrentOp
  <2>3. pool[Current.tx] = InBatch(image.paid, Current.tx)
    BY <1>3, <1>4, <2>2 DEF PoolsKept
  <2>4. PICK u : u = ref[place - 1]
    OBVIOUS
  <2>5. u.paid = image.paid
    BY <2>1, <2>4 DEF Like
  <2> QED
    BY <1>3, <1>4, <2>1, <2>3, <2>4, <2>5, AllSpokenFor
<1>5. CASE TurnAway
  <2>1. /\ phase = "idle" /\ phase' = "idle" /\ place <= Len(stream) /\ ~Current.admitted
        /\ image' = Recorded(image, Current, place, FALSE) /\ place' = place + 1
        /\ UNCHANGED disk
    BY <1>5 DEF TurnAway
  <2>2. ~Applies(Current, ref[place - 1], place, used(ref[place - 1]))
    BY <2>1 DEF Applies
  <2>3. Like(Recorded(image, Current, place, FALSE), ref[place])
    BY <1>0, <1>3, <1>4, <2>1, <2>2, RejectionFollows
  <2> QED
    BY <1>3, <2>1, <2>3 DEF Follows
<1>6. CASE RefuseUnpaid
  <2>1. /\ phase = "idle" /\ phase' = "idle" /\ place <= Len(stream) /\ Current.admitted
        /\ ~Current.active \/ ~Payable(Current, pool[Current.tx])
        /\ image' = Recorded(image, Current, place, TRUE) /\ place' = place + 1
        /\ UNCHANGED disk
    BY <1>6 DEF RefuseUnpaid
  <2>2. ~Applies(Current, ref[place - 1], place, used(ref[place - 1]))
    BY <1>4, <2>1 DEF Applies
  <2>3. Like(Recorded(image, Current, place, TRUE), ref[place])
    BY <1>0, <1>3, <1>4, <2>1, <2>2, RejectionFollows
  <2> QED
    BY <1>3, <2>1, <2>3 DEF Follows
<1>7. CASE OpenSavepoint
  <2>1. /\ phase = "idle" /\ phase' = "handling" /\ place <= Len(stream) /\ Current.admitted
        /\ Current.active /\ written' = 0 /\ snap'.tables = image
        /\ UNCHANGED <<disk, image, place>> /\ Current' = Current
    BY <1>7 DEF OpenSavepoint, Current
  <2>2. PICK after : after = Rewritten(Current, ref[place - 1], place)
    OBVIOUS
  <2>3. after[0] = ref[place - 1] /\ Len(Current.writes) \in Nat
    <3>1. Current \in Ops
      BY <1>3, <2>1, CurrentOp
    <3> QED
      BY <1>3, <2>2, <3>1, RewrittenRuns
  <2>4. Midway(after)'
    BY <1>4, <2>1, <2>3 DEF Midway
  <2> QED
    BY <1>3, <1>4, <2>1, <2>2, <2>4 DEF Follows
<1>8. CASE ClaimSplit
  <2>1. /\ UNCHANGED <<disk, image, place, snap, written, phase>> /\ Current' = Current
    BY <1>8 DEF ClaimSplit, Current
  <2> QED
    BY <1>3, <2>1 DEF Follows, Midway
<1>9. CASE WriteRow
  <2>1. /\ phase = "handling" /\ UNCHANGED <<disk, place, snap, phase>> /\ Current' = Current
        /\ written' = written + 1
    BY <1>9 DEF WriteRow, Current
  <2>2. PICK after : after = Rewritten(Current, ref[place - 1], place)
    OBVIOUS
  <2>3. /\ written + 1 <= Len(Current.writes) /\ Like(image', after[written + 1])
        /\ \A k \in 1..(written + 1) : Writable(after[k - 1], Current.writes[k])
    BY <1>0, <1>9, <2>2, WriteFollows
  <2>4. Midway(after)'
    BY <2>1, <2>3 DEF Midway
  <2> QED
    BY <1>3, <2>1, <2>2, <2>4 DEF Follows
<1>10. CASE RejectAndRestore
  <2>1. /\ phase = "handling" /\ phase' = "idle" /\ Fails /\ place' = place + 1
        /\ image' = Recorded(snap.tables, Current, place, TRUE) /\ UNCHANGED disk
    BY <1>10 DEF RejectAndRestore, TablesBefore
  <2>2. ~Applies(Current, ref[place - 1], place, used(ref[place - 1]))
    BY <1>0, <2>1, FailureFollows
  <2>3. place <= Len(stream) /\ Like(snap.tables, ref[place - 1]) /\ Current.admitted
    BY <1>0, <2>1, SnapSpokenFor
  <2>4. Like(Recorded(snap.tables, Current, place, TRUE), ref[place])
    BY <1>0, <1>3, <2>2, <2>3, RejectionFollows
  <2> QED
    BY <1>3, <2>1, <2>4 DEF Follows
<1>11. CASE Confirm
  <2>1. phase' = "idle" /\ place' = place + 1 /\ UNCHANGED disk
    BY <1>11 DEF Confirm
  <2>2. Like(image', ref[place])
    BY <1>0, <1>11, SuccessFollows
  <2> QED
    BY <1>3, <2>1, <2>2 DEF Follows
<1>12. CASE CommitBatch
  <2>1. PICK t \in Tables : t = Flushed(image, buffer) /\ Like(t, image)
    BY <1>3, FlushTyped DEF RouterShapes, Like
  <2>2. /\ image' = [t EXCEPT !.last = place - 1] /\ disk' = image' /\ UNCHANGED place
        /\ phase = "idle" /\ phase' = "idle"
    BY <1>12, <2>1 DEF CommitBatch
  <2>3. disk'.last = place - 1 /\ Like(image', t)
    BY <2>2 DEF Tables, Like
  <2>4. Like(image, ref[place - 1])
    BY <1>3, <2>2 DEF Follows
  <2>5. Like(image', ref[place - 1])
    BY <2>1, <2>3, <2>4 DEF Like
  <2> QED
    BY <2>2, <2>3, <2>5 DEF Follows
<1>13. CASE LoseBatch
  <2>1. UNCHANGED disk /\ image' = disk /\ place' = disk.last + 1 /\ phase' = "idle"
    BY <1>13 DEF LoseBatch
  <2>2. place' - 1 = disk.last
    BY <1>3, <2>1
  <2> QED
    BY <1>3, <2>1, <2>2 DEF Follows
<1>14. CASE UNCHANGED routerVars
  <2>1. UNCHANGED <<disk, image, place, snap, written, phase>> /\ Current' = Current
    BY <1>14 DEF routerVars, Current
  <2> QED
    BY <1>3, <2>1 DEF Follows, Midway
<1> QED
  BY <1>5, <1>6, <1>7, <1>8, <1>9, <1>10, <1>11, <1>12, <1>13, <1>14 DEF RouterNext

LEMMA AppliedMeans == AppliedInv => AppliedOrUntouched
<1> SUFFICES ASSUME AppliedInv PROVE AppliedOrUntouched
  OBVIOUS
<1>1. disk \in Tables /\ stream \in Streams /\ disk.last < place /\ place <= Len(stream) + 1
      /\ place \in Nat /\ disk.last \in Nat
  BY SnapTyped DEF AppliedInv, PoolInv, RouterShapes
<1>2. PICK u : u = Reference(stream)[disk.last]
  OBVIOUS
<1>3. u \in Tables /\ u.root = {} /\ u.count = 0
  <2>1. disk.last \in 0..Len(stream)
    BY <1>1, OpsTyped
  <2>2. u \in Bare
    BY <1>1, <1>2, <2>1, ReferenceRuns
  <2> QED
    BY <2>2 DEF Bare
<1>4. Like(disk, u)
  BY <1>2 DEF AppliedInv, Follows
<1>5. PICK d, n : d = disk /\ n = disk.last
  OBVIOUS
<1>6. [d EXCEPT !.root = {}, !.count = 0] = [u EXCEPT !.last = n]
  BY <1>1, <1>3, <1>4, <1>5 DEF Like, Tables
<1> QED
  BY <1>2, <1>5, <1>6 DEF AppliedOrUntouched

\* Whatever fails inside a savepoint, wherever batches are cut and however
\* often one is lost, the committed tables are those of playing the stream
\* operation by operation, each applied whole or leaving only the record of
\* its rejection; savepoints, the restored buffers and the lost batches cannot
\* be told from the outcome.
THEOREM AppliedWhole == RouterSpec => []AppliedOrUntouched
  BY AppliedInit, AppliedStep, AppliedMeans, PTL DEF RouterSpec
-----------------------------------------------------------------------------
(* BatchReplay: what is committed is the outcome of whole operations, with   *)
(* the root of a full scan, and each commit takes it to the end of a Hive    *)
(* transaction further on.                                                   *)

AtCut == disk = Committed(stream, disk.last)

LEMMA CommittedIs == AppliedInv /\ RootInv => AtCut
<1> SUFFICES ASSUME AppliedInv, RootInv PROVE AtCut
  OBVIOUS
<1>0. RouterShapes /\ RootIsFullScan
  BY DEF RootInv
<1>1. PICK d \in Tables : d = disk
  BY <1>0 DEF RouterShapes
<1>2. PICK n \in Nat : n = d.last
  BY <1>1 DEF Tables
<1>3. n \in 0..Len(stream)
  BY <1>0, <1>1, <1>2, OpsTyped DEF RouterShapes
<1>4. PICK u \in Bare : u = Reference(stream)[n]
  BY <1>0, <1>3, ReferenceRuns DEF RouterShapes
<1>5. Like(d, u)
  BY <1>1, <1>2, <1>4 DEF AppliedInv, Follows
<1>6. PICK live : live = {id \in Ids : u.rows[id] # 0}
  OBVIOUS
<1>7. PICK root : root = {<<id, u.rows[id]>> : id \in live}
  OBVIOUS
<1>8. d.root = root /\ d.count = Cardinality(live)
  BY <1>0, <1>1, <1>5, <1>6, <1>7 DEF RootIsFullScan, Like
<1>9. d = [u EXCEPT !.root = root, !.count = Cardinality(live), !.last = n]
  BY <1>2, <1>5, <1>8 DEF Bare, Tables, Like
<1>10. Committed(stream, n) = [u EXCEPT !.root = root, !.count = Cardinality(live), !.last = n]
  <2>1. live = {id \in Ids : Reference(stream)[n].rows[id] # 0}
    BY <1>4, <1>6
  <2>2. root = {<<id, Reference(stream)[n].rows[id]>> : id \in live}
    BY <1>4, <1>7
  <2>3. Committed(stream, n) = [Reference(stream)[n] EXCEPT
                                   !.root = root, !.count = Cardinality(live), !.last = n]
    BY <2>1, <2>2, Zenon DEF Committed
  <2> QED
    BY <1>4, <2>3
<1>11. d = Committed(stream, n)
  BY <1>9, <1>10
<1> QED
  BY <1>1, <1>2, <1>11 DEF AtCut

LEMMA BatchesInit == RouterInit => ByOperation!BatchInit
<1> SUFFICES ASSUME RouterInit PROVE ByOperation!BatchInit
  OBVIOUS
<1>1. disk.last = 0
  BY DEF RouterInit, EmptyTables
<1>2. disk = Committed(stream, disk.last)
  BY AppliedInit, RootInit, CommittedIs DEF AtCut
<1> QED
  BY <1>1, <1>2 DEF ByOperation!BatchInit

LEMMA BatchesStep ==
    AppliedInv /\ RootInv /\ AtCut' /\ [RouterNext]_routerVars =>
        [ByOperation!BatchNext]_(ByOperation!batches)
<1> SUFFICES ASSUME RootInv, AtCut', [RouterNext]_routerVars
             PROVE  [ByOperation!BatchNext]_(ByOperation!batches)
  OBVIOUS
<1>0. /\ place \in Nat /\ disk.last \in Nat /\ place <= Len(stream) + 1 /\ Len(stream) \in Nat
      /\ disk' = Committed(stream', disk'.last)
  BY SnapTyped, OpsTyped DEF RootInv, RouterShapes, AtCut
<1>1. CASE CommitBatch
  <2>1. /\ stream' = stream /\ disk'.last = place - 1 /\ place > disk.last + 1
    BY <1>1 DEF CommitBatch, Flushed
  <2>2. place - 1 \in Cuts(stream)
    BY <1>0, <1>1 DEF CommitBatch, Cuts, Current
  <2>3. ByOperation!CommitUpTo(place - 1)
    BY <1>0, <2>1 DEF ByOperation!CommitUpTo
  <2> QED
    BY <2>2, <2>3 DEF ByOperation!BatchNext
<1>2. CASE UNCHANGED <<stream, disk>>
  BY <1>2 DEF ByOperation!batches
<1>3. CommitBatch \/ UNCHANGED <<stream, disk>>
  BY DEF RouterNext, routerVars, TurnAway, RefuseUnpaid, OpenSavepoint, ClaimSplit, WriteRow,
         RejectAndRestore, Confirm, LoseBatch
<1> QED
  BY <1>1, <1>2, <1>3

\* For every stream, every set of rows and every cut into batches, the router
\* implements BatchReplay: whatever savepoints, buffers, pools and lost batches
\* do in between, the database moves from the outcome of whole operations at
\* the end of one Hive transaction straight to that at the end of a later one,
\* with the root and the count a full scan would compute.
THEOREM RouterReplaysBatches == RouterSpec => ImplementsBatches
  BY CommittedIs, BatchesInit, BatchesStep, AppliedInit, AppliedStep, RootInit, RootStep, PTL
  DEF RouterSpec, ImplementsBatches, ByOperation!BatchSpec
=============================================================================
