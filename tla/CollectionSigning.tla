-------------------------- MODULE CollectionSigning --------------------------
(***************************************************************************)
(* POST /api/multisig/collection: a client asks the node to co-sign the    *)
(* transaction that pays for and creates a collection, and broadcasts it   *)
(* itself until it expires.  One action per stretch between two awaits.    *)
(*                                                                         *)
(* A request is a transaction and an idempotency key or none.  Whether its *)
(* proof of work is accepted and the rate limiters let it through depends  *)
(* on other clients as well: either may happen.  The signing queue runs    *)
(* functions that never wait, so signing and answering are one step.  A    *)
(* crash loses the process's memory; the lock is a row of the database,    *)
(* and every settlement node has its own: what other nodes sign for the    *)
(* same creators comes to the chain without a look at this one's locks.    *)
(* A collection that is archived later only makes room (Supply).           *)
(***************************************************************************)
EXTENDS Integers, Sequences, FiniteSets, FiniteSetsExt, SequencesExt

CONSTANTS
    Inquiries,      \* requests: [id, tx, key]
    Elsewhere,      \* transactions that other settlement nodes co-sign, like Drafts
    NoKey,          \* no Idempotency-Key
    CollectionCap,  \* collectionsPerCreator
    MinLife,        \* MULTISIG_TX_MIN_EXPIRATION_MS
    MaxLife,        \* MULTISIG_TX_MAX_EXPIRATION_MS
    SignLockTtl,    \* COLLECTION_LOCK_TTL_MS
    CacheTtl,       \* COLLECTION_IDEMPOTENCY_TTL_MS
    CacheSize,      \* COLLECTION_IDEMPOTENCY_MAX_ENTRIES
    HeadAge,        \* how old the recorded head may be
    IndexLag,       \* from inclusion to the index, at most
    Horizon,        \* bound: time
    MaxBreakdowns   \* bound: crashes and failed calls

Drafts == {q.tx : q \in Inquiries}      \* [id, creator, symbol, expires, sound]

ASSUME SigningAssumption ==
    /\ {MinLife, MaxLife, SignLockTtl, CacheTtl, CacheSize} \subseteq Nat \ {0}
    /\ {CollectionCap, HeadAge, IndexLag} \subseteq Nat
    /\ {Horizon, MaxBreakdowns} \subseteq Nat
    /\ MaxLife <= SignLockTtl /\ IndexLag <= SignLockTtl
    /\ \A q \in Inquiries : q.tx.expires \in Int
    /\ \A tx \in Elsewhere : tx \notin Drafts /\ tx.expires \in Int

VARIABLES
    clock,          \* the time
    stage,          \* stage[q]: where the request stands
    reply,          \* reply[q]: what it was, or will be, answered
    cache,          \* the idempotency cache, in order of insertion: [key, tx, code, until]
    signLock,       \* multisig_collection_locks: [creator, holder, until]
    cosigned,       \* history: requests whose transaction was signed
    included,       \* transactions in blocks: [tx, at], in order
    created,        \* collections in the node's index
    judged,         \* how many of `included` the index has seen
    turnedAway,     \* history: places in `included` whose node was silent by then
    breakdowns      \* crashes and failures so far

signingVars == <<clock, stage, reply, cache, signLock, cosigned,
                 included, created, judged, turnedAway, breakdowns>>

SigningInit ==
    /\ clock = 0
    /\ stage = [q \in Inquiries |-> "unsent"] /\ reply = [q \in Inquiries |-> "none"]
    /\ cache = <<>> /\ signLock = {} /\ cosigned = {}
    /\ included = <<>> /\ created = {} /\ judged = 0
    /\ turnedAway = {} /\ breakdowns = 0

chainSide == <<included, created, judged, turnedAway>>
-----------------------------------------------------------------------------
(* The idempotency cache. *)

\* Expired entries go from the front, as far as the first one that is alive.
Evicted(entries, now) ==
    LET alive == {i \in DOMAIN entries : entries[i].until > now}
    IN  IF alive = {} THEN <<>> ELSE SubSeq(entries, Min(alive), Len(entries))

\* A key that is there keeps its place; the oldest place goes when it is full.
Stored(entries, entry) ==
    LET places == {i \in DOMAIN entries : entries[i].key = entry.key}
        next == IF places = {} THEN Append(entries, entry)
                ELSE [entries EXCEPT ![Min(places)] = entry]
    IN  IF Len(next) > CacheSize THEN Tail(next) ELSE next

\* The status a code is answered with; 200, 400 and 422 are kept.
Conflict == {"COLLECTION_LOCKED"}
Unavailable == {"INDEXER_LAGGED"}    \* and NODE_NOT_ACTIVE, NODE_DIVERGENT
Kept(code) == code \notin Conflict \cup Unavailable

Remembering(q, code) ==
    cache' = IF q.key # NoKey /\ Kept(code)
             THEN Stored(cache, [key |-> q.key, tx |-> q.tx, code |-> code, until |-> clock + CacheTtl])
             ELSE cache

Answer(q, code) ==
    /\ stage' = [stage EXCEPT ![q] = "answered"]
    /\ reply' = [reply EXCEPT ![q] = code]
-----------------------------------------------------------------------------
(* The route, before the request is processed. *)

Found(q, entries) == {i \in DOMAIN entries : q.key # NoKey /\ entries[i].key = q.key}
Reading(q) == IF q.key = NoKey THEN cache ELSE Evicted(cache, clock)

\* A hit is answered from the cache, a key of another body refused.
ReplayAnswer(q) ==
    /\ stage[q] = "unsent" /\ Found(q, Reading(q)) # {}
    /\ cache' = Reading(q)
    /\ LET entry == cache'[Min(Found(q, cache'))]
       IN  Answer(q, IF entry.tx = q.tx THEN entry.code ELSE "IDEMPOTENCY_MISMATCH")
    /\ UNCHANGED <<clock, signLock, cosigned, chainSide, breakdowns>>

Receive(q) ==
    /\ stage[q] = "unsent" /\ Found(q, Reading(q)) = {}
    /\ cache' = Reading(q)
    /\ stage' = [stage EXCEPT ![q] = "received"]
    /\ UNCHANGED <<clock, reply, signLock, cosigned, chainSide, breakdowns>>

\* Signing is disabled, the proof of work is refused, or a limiter: none is kept.
TurnAwayClient(q) ==
    /\ stage[q] = "received" /\ breakdowns < MaxBreakdowns
    /\ breakdowns' = breakdowns + 1
    /\ Answer(q, "NOT_NOW")
    /\ UNCHANGED <<clock, cache, signLock, cosigned, chainSide>>
-----------------------------------------------------------------------------
(* processCollectionRequest. *)

\* Mutant: the longest life of a transaction is not enforced.
LongEnough(tx, head) == tx.expires - head >= MinLife

\* The least life is measured from the recorded head, the longest from now.
TimelyExpiry(tx, head) == tx.expires - head >= MinLife /\ tx.expires - clock <= MaxLife

ValidateRequest(q) ==
    /\ stage[q] = "received"
    /\ \E head \in (clock - HeadAge)..clock :
        IF q.tx.sound /\ TimelyExpiry(q.tx, head)
        THEN stage' = [stage EXCEPT ![q] = "validated"] /\ UNCHANGED <<reply, cache>>
        ELSE Answer(q, "INVALID") /\ Remembering(q, "INVALID")
    /\ UNCHANGED <<clock, signLock, cosigned, chainSide, breakdowns>>

\* The index lags, the node is silent or divergent; or the database does not answer.
ValidationFails(q, code) ==
    /\ stage[q] = "received" /\ breakdowns < MaxBreakdowns
    /\ code \in Unavailable \cup {"INTERNAL_ERROR"}
    /\ breakdowns' = breakdowns + 1
    /\ Answer(q, code) /\ Remembering(q, code)
    /\ UNCHANGED <<clock, signLock, cosigned, chainSide>>

\* Who holds the creator's lock; the row of an expired lock is deleted on the way.
HeldAt(creator) == {l \in signLock : l.creator = creator /\ l.until >= clock}

LockCreator(q) ==
    LET others == {l \in signLock : l.creator # q.tx.creator}
    IN  /\ stage[q] = "validated"
        /\ IF HeldAt(q.tx.creator) = {}
           THEN /\ signLock' = others \cup
                       {[creator |-> q.tx.creator, holder |-> q, until |-> clock + SignLockTtl]}
                /\ stage' = [stage EXCEPT ![q] = "locked"]
                /\ UNCHANGED <<reply, cache>>
           ELSE /\ Answer(q, "COLLECTION_LOCKED") /\ Remembering(q, "COLLECTION_LOCKED")
                /\ UNCHANGED signLock
        /\ UNCHANGED <<clock, cosigned, chainSide, breakdowns>>

Made(creator) == {d \in created : d.creator = creator}
Room(tx) == /\ Cardinality(Made(tx.creator)) < CollectionCap
            /\ \A d \in Made(tx.creator) : d.symbol # tx.symbol

CheckRoom(q) ==
    /\ stage[q] = "locked"
    /\ IF Room(q.tx)
       THEN stage' = [stage EXCEPT ![q] = "allowed"] /\ UNCHANGED reply
       ELSE /\ stage' = [stage EXCEPT ![q] = "failing"]
            /\ reply' = [reply EXCEPT ![q] = "INVALID"]
    /\ UNCHANGED <<clock, cache, signLock, cosigned, chainSide, breakdowns>>

\* Mutant: the lock is given back as soon as the signature is made.
GivenBack(q) == signLock \ HeldAt(q.tx.creator)

\* After a signature the lock stays, to expire by itself.
LeftToExpire(q) == signLock

Sign(q) ==
    /\ stage[q] = "allowed"
    /\ cosigned' = cosigned \cup {q}
    /\ signLock' = LeftToExpire(q)
    /\ Answer(q, "OK") /\ Remembering(q, "OK")
    /\ UNCHANGED <<clock, chainSide, breakdowns>>

\* The cap cannot be read, or the signer fails.
SigningFails(q) ==
    /\ stage[q] \in {"locked", "allowed"} /\ breakdowns < MaxBreakdowns
    /\ breakdowns' = breakdowns + 1
    /\ stage' = [stage EXCEPT ![q] = "failing"]
    /\ reply' = [reply EXCEPT ![q] = "INTERNAL_ERROR"]
    /\ UNCHANGED <<clock, cache, signLock, cosigned, chainSide>>

\* Only its own lock: a late release touches nobody else's.
ReleaseAndAnswer(q) ==
    /\ stage[q] = "failing"
    /\ signLock' = {l \in signLock : l.holder # q}
    /\ Answer(q, reply[q]) /\ Remembering(q, reply[q])
    /\ UNCHANGED <<clock, cosigned, chainSide, breakdowns>>

\* Whoever had no answer yet gets none.
SignerCrash ==
    /\ breakdowns < MaxBreakdowns
    /\ breakdowns' = breakdowns + 1
    /\ stage' = [q \in Inquiries |-> IF stage[q] = "unsent" THEN "unsent" ELSE "answered"]
    /\ reply' = [q \in Inquiries |-> IF stage[q] \in {"unsent", "answered"} THEN reply[q] ELSE "LOST"]
    /\ cache' = <<>>
    /\ UNCHANGED <<clock, signLock, cosigned, chainSide>>
-----------------------------------------------------------------------------
(* The chain and the index. *)

SignedDrafts == {q.tx : q \in cosigned}
OnChain == {included[i].tx : i \in DOMAIN included}

Broadcast(tx) ==
    /\ tx \in {q.tx : q \in {p \in Inquiries : reply[p] = "OK"}} \ OnChain
    /\ clock < tx.expires
    /\ included' = Append(included, [tx |-> tx, at |-> clock])
    /\ UNCHANGED <<clock, stage, reply, cache, signLock, cosigned,
                   created, judged, turnedAway, breakdowns>>

\* One that another node signed: its locks are in a database of its own.
BroadcastElsewhere(tx) ==
    /\ tx \in Elsewhere \ OnChain
    /\ clock < tx.expires
    /\ included' = Append(included, [tx |-> tx, at |-> clock])
    /\ UNCHANGED <<clock, stage, reply, cache, signLock, cosigned,
                   created, judged, turnedAway, breakdowns>>

\* handleCreateCollection, when the block is irreversible, behind the router's
\* gate: a node that was active when it signed may be silent by then.
IndexCollection(active) ==
    LET tx == included[judged + 1].tx
    IN  /\ judged < Len(included)
        /\ judged' = judged + 1
        /\ created' = IF active /\ Room(tx) THEN created \cup {tx} ELSE created
        /\ turnedAway' = IF active THEN turnedAway ELSE turnedAway \cup {judged'}
        /\ UNCHANGED <<clock, stage, reply, cache, signLock, cosigned, included, breakdowns>>

NextInstant ==
    /\ clock < Horizon
    /\ \A i \in (judged + 1)..Len(included) : clock - included[i].at < IndexLag
    /\ clock' = clock + 1
    /\ UNCHANGED <<stage, reply, cache, signLock, cosigned, chainSide, breakdowns>>

SigningNext ==
    \/ NextInstant \/ SignerCrash
    \/ \E active \in BOOLEAN : IndexCollection(active)
    \/ \E tx \in Drafts : Broadcast(tx)
    \/ \E tx \in Elsewhere : BroadcastElsewhere(tx)
    \/ \E q \in Inquiries :
        \/ ReplayAnswer(q) \/ Receive(q) \/ TurnAwayClient(q) \/ ValidateRequest(q)
        \/ \E code \in Unavailable \cup {"INTERNAL_ERROR"} : ValidationFails(q, code)
        \/ LockCreator(q) \/ CheckRoom(q) \/ Sign(q) \/ SigningFails(q) \/ ReleaseAndAnswer(q)

SigningSpec == SigningInit /\ [][SigningNext]_signingVars
-----------------------------------------------------------------------------
(* Properties. *)

Live(tx) == clock < tx.expires

\* Of the transactions the node signed for a creator, at most one can still be
\* broadcast: whatever was retried, crashed, timed out or sent under the same
\* key, no second one is signed while the first is in its broadcast window.
OneLiveSignature ==
    \A s, t \in SignedDrafts : s.creator = t.creator /\ Live(s) /\ Live(t) => s = t

\* The transaction of the creator that went before place e took the symbol that
\* tx asks for, or left no room under the cap.
Outrun(tx, e) ==
    \E j \in 1..(e - 1) :
        /\ included[j].tx \in created /\ included[j].tx.creator = tx.creator
        /\ \A k \in (j + 1)..(e - 1) : included[k].tx.creator # tx.creator
        /\ \/ included[j].tx.symbol = tx.symbol
           \/ ~(Cardinality(Made(tx.creator)) < CollectionCap)

\* No other node has signed for the creator, of what is on the chain up to place e.
OnlyHere(creator, e) ==
    \A j \in 1..e : included[j].tx.creator = creator => included[j].tx \in Drafts

\* The index that cap and symbol are checked against may miss what was included
\* after it was read, but, of a creator that goes to no other node, never more
\* than one transaction: a fee is lost only to the one just before it, never two
\* in a row.  What the ledger turns away because the node fell silent between
\* the signature and the block is lost for that, to no transaction at all; and
\* nodes do not see one another's locks, so a creator that goes to several of
\* them may lose more.
LostToTheOneBefore ==
    \A i \in 1..judged :
        i \notin turnedAway /\ OnlyHere(included[i].tx.creator, i)
            => included[i].tx \in created \/ Outrun(included[i].tx, i)
=============================================================================
