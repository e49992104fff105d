---------------------------- MODULE BuySettlement ----------------------------
(***************************************************************************)
(* The sale of one listed asset as the settlement nodes run it: a buyer    *)
(* hands a node a signed buy transaction; the node checks it against its   *)
(* own lagging projection, takes its local lock, broadcasts a              *)
(* buy_commitment, waits until it sees that commitment win in final        *)
(* blocks, and only then adds the signature that lets the buyer's          *)
(* transfers onto the chain.                                               *)
(*                                                                         *)
(* Time is counted in blocks, the wall clock too.  The chain is its final  *)
(* history: nodes read nothing else of it but the height of its head.      *)
(* Solvency and the signature check end a request before it has any        *)
(* effect, and are left out with the other reasons to refuse one.          *)
(***************************************************************************)
EXTENDS Naturals, FiniteSets

CONSTANTS
    Nodes,      \* settlement nodes
    Txs,        \* buy transactions, known by their digest
    NodeOf,     \* NodeOf[t]: the node whose signature t needs
    NoTx,       \* nobody's transaction
    TTL,        \* BUY_COMMITMENT_TTL_BLOCKS; BUY_TX_TTL_MS of the lock
    MinLeft,    \* MULTISIG_TX_MIN_EXPIRATION_MS
    MaxLeft,    \* MULTISIG_TX_MAX_EXPIRATION_MS
    Wait,       \* BUY_COMMITMENT_OBSERVATION_TIMEOUT_MS
    ApiLag,     \* BUY_API_LAG_MAX_BLOCKS
    Stale,      \* BUY_API_HEAD_STALENESS_MAX_MS
    Drift,      \* how far ahead of the chain's clock a server's may run
    PoolLife,   \* expiration the library gives a node's own transaction
    Finality,   \* blocks until a block is final
    LastBlock,  \* bound: the last block of the modelled chain
    Ends,       \* bound: blocks in which listings expire
    Backlog,    \* bound: how far a projection falls behind final blocks
    Lossy,      \* broadcasts that may be reported as failed though accepted
    Prompt,     \* bound: whether a valid request is broadcast in its block
    Silences,   \* bound: blocks after which nodes count as inactive
    MaxListings,\* bound: how often the owner lists the asset
    MaxFaults   \* bound: requests cut short or repeated, answers lost

ASSUME SettlementAssumption ==
    /\ NodeOf \in [Txs -> Nodes] /\ NoTx \notin Txs
    /\ {TTL, MinLeft, MaxLeft, Wait, ApiLag, Stale, Drift, PoolLife, Finality,
        LastBlock, Backlog, MaxListings, MaxFaults} \subseteq Nat
    /\ MaxListings > 0
    /\ Lossy \subseteq {"buy_commitment", "buy"} /\ Prompt \in BOOLEAN
    /\ Ends \subseteq Nat /\ Silences \subseteq Nat

VARIABLES
    head,       \* the last block produced
    open,       \* the asset's row as the operations of block head + 1 leave it
    sealed,     \* sealed[b]: the row after block b, back to the oldest cursor
    expiry,     \* expiry[v]: listing_expires_at of listing v
    silent,     \* silent[n]: the last block at which n is active
    pool,       \* broadcast operations that are not in a block yet
    paid,       \* paid[t]: the block that holds t and its transfers, or 0
    delivered,  \* the transactions that changed the owner
    seen,       \* seen[n]: hive_head_block in n's sync_state
    cursor,     \* cursor[n]: last_block in n's sync_state
    request,    \* request[t]: how far the request that carries t is
    terms,      \* terms[t]: listing and expiration in t's bytes
    deadline,   \* deadline[t]: when its request stops waiting, or 0
    lock,       \* lock[n]: n's multisig_buy_locks row of the asset
    faults      \* number of faults so far

chainState == <<head, open, sealed, expiry, silent, pool, paid, delivered>>
nodeState == <<seen, cursor>>
vars == <<chainState, nodeState, request, terms, deadline, lock, faults>>

Blocks == 0..LastBlock
Row == [status : {"active", "listed", "pending_sale"}, listing : 0..MaxListings,
        tx : Txs \cup {NoTx}, until : Nat]
Operation == [kind : {"buy_commitment", "buy"}, tx : Txs, expires : Nat]
Terms == [listing : 0..MaxListings, expires : Nat]
Phases == {"new", "valid", "locked", "waiting", "won", "cleared", "over"}
ForSale(v) == [status |-> "listed", listing |-> v, tx |-> NoTx, until |-> 0]
OffSale(v) == [status |-> "active", listing |-> v, tx |-> NoTx, until |-> 0]
NoLock == [tx |-> NoTx, until |-> 0]

Now == head + 1
Send(kind, t, expires) ==
    pool' = pool \cup {[kind |-> kind, tx |-> t, expires |-> expires]}

-----------------------------------------------------------------------------
Init ==
    /\ head = 0
    /\ open = ForSale(1)
    /\ sealed = [b \in {0} |-> open]
    /\ expiry \in [1..MaxListings -> Ends]
    /\ silent \in [Nodes -> Silences]
    /\ pool = {} /\ delivered = {}
    /\ paid = [t \in Txs |-> 0]
    /\ seen = [n \in Nodes |-> 0] /\ cursor = [n \in Nodes |-> 0]
    /\ request = [t \in Txs |-> "new"]
    /\ terms = [t \in Txs |-> [listing |-> 0, expires |-> 0]]
    /\ deadline = [t \in Txs |-> 0]
    /\ lock = [n \in Nodes |-> NoLock]
    /\ faults = 0

-----------------------------------------------------------------------------
(* The chain and the projection every indexer makes of it. *)

\* handleBuyCommitment, in the block being produced.
Committable(t) ==
    /\ Now <= silent[NodeOf[t]]
    /\ open.status = "listed"
    /\ open.listing = terms[t].listing
    /\ Now < expiry[open.listing]

\* handleBuy, likewise.
Settles(t) ==
    /\ Now <= silent[NodeOf[t]]
    /\ open.status = "pending_sale" /\ open.tx = t
    /\ Now <= open.until
    /\ open.listing = terms[t].listing
    /\ Now < expiry[open.listing]

\* An operation gets into the block; a rejected one leaves the row alone.
IncludeCommitment(op) ==
    /\ op \in pool /\ op.kind = "buy_commitment"
    /\ Now <= op.expires
    /\ pool' = pool \ {op}
    /\ open' = IF Committable(op.tx)
               THEN [status |-> "pending_sale", listing |-> open.listing,
                     tx |-> op.tx, until |-> Now + TTL]
               ELSE open
    /\ UNCHANGED <<head, sealed, expiry, silent, paid, delivered, nodeState,
                   request, terms, deadline, lock, faults>>

\* The transfers of a buy are executed with it, whatever becomes of the asset.
IncludeBuy(op) ==
    /\ op \in pool /\ op.kind = "buy"
    /\ Now <= op.expires
    /\ pool' = pool \ {op}
    /\ paid' = [paid EXCEPT ![op.tx] = Now]
    /\ IF Settles(op.tx)
       THEN /\ open' = OffSale(open.listing)
            /\ delivered' = delivered \cup {op.tx}
       ELSE UNCHANGED <<open, delivered>>
    /\ UNCHANGED <<head, sealed, expiry, silent, nodeState, request, terms,
                   deadline, lock, faults>>

\* The owner takes the asset off the market and may list it anew.
Unlist ==
    /\ open.status = "listed"
    /\ open' = OffSale(open.listing)
    /\ UNCHANGED <<head, sealed, expiry, silent, pool, paid, delivered,
                   nodeState, request, terms, deadline, lock, faults>>

Relist ==
    /\ open.status = "active" /\ delivered = {}
    /\ open.listing < MaxListings
    /\ open' = ForSale(open.listing + 1)
    /\ UNCHANGED <<head, sealed, expiry, silent, pool, paid, delivered,
                   nodeState, request, terms, deadline, lock, faults>>

\* Mutant: the sweep releases a reservation one block early.
SweepEarly(row, b) ==
    IF row.status = "pending_sale" /\ row.until <= b
    THEN ForSale(row.listing) ELSE row

\* sweepExpiredBuyCommitments(b).
Sweep(row, b) ==
    IF row.status = "pending_sale" /\ row.until < b
    THEN ForSale(row.listing) ELSE row

\* A block is produced.  Transactions that expired will never be in one, and
\* a lock row whose time is up counts for nothing (acquire and cleanupExpired
\* delete it).
NextBlock ==
    /\ head < LastBlock
    /\ Prompt => \A t \in Txs : request[t] \notin {"valid", "locked"}
    /\ head' = head + 1
    /\ sealed' = [b \in DOMAIN sealed \cup {head'} |->
                    IF b = head' THEN open ELSE sealed[b]]
    /\ open' = Sweep(open, head' + 1)
    /\ pool' = {op \in pool : head' + 1 <= op.expires}
    /\ lock' = [n \in Nodes |-> IF lock[n].until < head' THEN NoLock ELSE lock[n]]
    /\ UNCHANGED <<expiry, silent, paid, delivered, nodeState, request, terms,
                   deadline, faults>>

-----------------------------------------------------------------------------
(* A node: its projection, and the requests it serves. *)

Final(h) == IF h > Finality THEN h - Finality ELSE 0

\* The node's sync engine learns of the head and plays final blocks.
Index(n) ==
    /\ seen' = [seen EXCEPT ![n] = head]
    /\ \E b \in cursor[n]..Final(head) :
        b + Backlog >= Final(head) /\ cursor' = [cursor EXCEPT ![n] = b]
    /\ sealed' = [b \in {c \in DOMAIN sealed : \E m \in Nodes : c >= cursor'[m]}
                    |-> sealed[b]]
    /\ UNCHANGED <<head, open, expiry, silent, pool, paid, delivered, request,
                   terms, deadline, lock, faults>>

View(n) == sealed[cursor[n]]

\* assertMultisigSyncHealthy: the backlog and the age of the known head.
Healthy(n) ==
    /\ Final(seen[n]) <= cursor[n] + ApiLag
    /\ head <= seen[n] + Stale

\* assertNodeActive at getMultisigSigningEvaluationBlock.
NodeActive(n) == seen[n] + ApiLag <= silent[n]

To(t, phase) == request' = [request EXCEPT ![t] = phase]

\* A buyer has signed t for the listing it saw, and the node finds nothing
\* wrong with it; a transaction that is sent again still has the same bytes.
Validate(t, listing, expires) ==
    LET n == NodeOf[t] IN
    /\ request[t] = "new"
    /\ Healthy(n) /\ NodeActive(n)
    /\ terms[t].expires # 0 =>
            terms[t] = [listing |-> listing, expires |-> expires]
    /\ expires >= seen[n] + MinLeft
    /\ \E drift \in 0..Drift : expires <= head + drift + MaxLeft
    /\ View(n).status = "listed"
    /\ View(n).listing = listing
    /\ seen[n] < expiry[listing]
    /\ terms' = [terms EXCEPT ![t] = [listing |-> listing, expires |-> expires]]
    /\ To(t, "valid")
    /\ UNCHANGED <<chainState, nodeState, deadline, lock, faults>>

\* Mutant: the holder of a lock may take it again.
FreeOrOwn(t) == lock[NodeOf[t]].tx \in {NoTx, t}

\* ON CONFLICT (asset_id) DO NOTHING: no row for the asset, not even t's own.
FreeLock(t) == lock[NodeOf[t]] = NoLock

\* buyLock.acquire, or ASSET_LOCKED.
Acquire(t) ==
    /\ request[t] = "valid"
    /\ IF FreeLock(t)
       THEN /\ lock' = [lock EXCEPT
                    ![NodeOf[t]] = [tx |-> t, until |-> head + TTL]]
            /\ To(t, "locked")
       ELSE UNCHANGED lock /\ To(t, "over")
    /\ UNCHANGED <<chainState, nodeState, terms, deadline, faults>>

Release(t) ==
    lock' = [lock EXCEPT ![NodeOf[t]] = IF @.tx = t THEN NoLock ELSE @]

\* broadcastBuyCommitment.
Commit(t) ==
    /\ request[t] = "locked"
    /\ Send("buy_commitment", t, head + PoolLife)
    /\ deadline' = [deadline EXCEPT ![t] = head + Wait]
    /\ To(t, "waiting")
    /\ UNCHANGED <<head, open, sealed, expiry, silent, paid, delivered,
                   nodeState, terms, lock, faults>>

\* Mutant: any reservation of the asset is taken for the node's own.
WonByAnyone(t) == View(NodeOf[t]).status = "pending_sale"

\* The commitment the node waits for has won in final blocks.
Won(t) ==
    /\ View(NodeOf[t]).status = "pending_sale"
    /\ View(NodeOf[t]).tx = t

\* One turn of waitForCommitmentVictory: victory, or another transaction was
\* reserved (CROSS_NODE_RESERVATION, and the lock stays).
Poll(t) ==
    /\ request[t] = "waiting"
    /\ head < deadline[t]
    /\ View(NodeOf[t]).status = "pending_sale"
    /\ To(t, IF Won(t) THEN "won" ELSE "over")
    /\ deadline' = [deadline EXCEPT ![t] = 0]
    /\ UNCHANGED <<chainState, nodeState, terms, lock, faults>>

\* COMMITMENT_INCLUSION_TIMEOUT; the lock stays.
GiveUp(t) ==
    /\ request[t] = "waiting"
    /\ head >= deadline[t]
    /\ To(t, "over")
    /\ deadline' = [deadline EXCEPT ![t] = 0]
    /\ UNCHANGED <<chainState, nodeState, terms, lock, faults>>

\* assertBuyFinalSigningAllowed.
FinalGate(t) ==
    /\ request[t] = "won"
    /\ To(t, IF Healthy(NodeOf[t]) /\ NodeActive(NodeOf[t])
             THEN "cleared" ELSE "over")
    /\ UNCHANGED <<chainState, nodeState, terms, deadline, lock, faults>>

\* addNodeSignatureToBuy and broadcastCompletedBuy; the lock is released.
Settle(t) ==
    /\ request[t] = "cleared"
    /\ Send("buy", t, terms[t].expires)
    /\ To(t, "over")
    /\ Release(t)
    /\ UNCHANGED <<head, open, sealed, expiry, silent, paid, delivered,
                   nodeState, terms, deadline, faults>>

Fault == faults < MaxFaults /\ faults' = faults + 1

\* The client sends a transaction again that has not gone through.
Resend(t) ==
    /\ Fault
    /\ request[t] = "over" /\ paid[t] = 0
    /\ To(t, "new")
    /\ UNCHANGED <<chainState, nodeState, terms, deadline, lock>>

\* The broadcast of the commitment is reported as failed: the lock goes.
CommitFails(t) ==
    /\ Fault
    /\ request[t] = "locked"
    /\ To(t, "over")
    /\ \/ UNCHANGED pool
       \/ "buy_commitment" \in Lossy
          /\ Send("buy_commitment", t, head + PoolLife)
    /\ Release(t)
    /\ UNCHANGED <<head, open, sealed, expiry, silent, paid, delivered,
                   nodeState, terms, deadline>>

\* The broadcast of the buy is reported as failed: the lock stays.
SettleFails(t) ==
    /\ Fault
    /\ request[t] = "cleared"
    /\ To(t, "over")
    /\ \/ UNCHANGED pool
       \/ "buy" \in Lossy /\ Send("buy", t, terms[t].expires)
    /\ UNCHANGED <<head, open, sealed, expiry, silent, paid, delivered,
                   nodeState, terms, deadline, lock>>

\* The API process dies; what it wrote to the database stays.
Crash(t) ==
    /\ Fault
    /\ request[t] \notin {"new", "over"}
    /\ To(t, "over")
    /\ deadline' = [deadline EXCEPT ![t] = 0]
    /\ UNCHANGED <<chainState, nodeState, terms, lock>>

Next ==
    \/ NextBlock \/ Unlist \/ Relist
    \/ \E op \in pool : IncludeCommitment(op) \/ IncludeBuy(op)
    \/ \E n \in Nodes : Index(n)
    \/ \E t \in Txs :
        \/ \E v \in 1..MaxListings, e \in 1..(LastBlock + MaxLeft + Drift) :
            Validate(t, v, e)
        \/ Acquire(t) \/ Commit(t) \/ Poll(t) \/ GiveUp(t) \/ FinalGate(t)
        \/ Settle(t) \/ Resend(t) \/ CommitFails(t) \/ SettleFails(t)
        \/ Crash(t)

Spec == Init /\ [][Next]_vars

-----------------------------------------------------------------------------
TypeOK ==
    /\ head \in Blocks
    /\ open \in Row
    /\ open.status = "pending_sale" <=> open.tx # NoTx
    /\ sealed \in [DOMAIN sealed -> Row]
    /\ pool \subseteq Operation
    /\ paid \in [Txs -> Nat] /\ delivered \subseteq Txs
    /\ seen \in [Nodes -> 0..head] /\ cursor \in [Nodes -> 0..head]
    /\ request \in [Txs -> Phases]
    /\ terms \in [Txs -> Terms]
    /\ lock \in [Nodes -> [tx : Txs \cup {NoTx}, until : Nat]]

\* A buy that can still get into a block finds the asset reserved for it, and
\* cannot outlast that reservation: so the expirations the node accepts must
\* fit into the window the commitment opens (constants.ts).
BuyNeverOutlivesReservation ==
    \A op \in pool : (op.kind = "buy" /\ Now <= op.expires) =>
        \/ /\ open.status = "pending_sale" /\ open.tx = op.tx
           /\ op.expires <= open.until
        \/ paid[op.tx] # 0

\* A buyer whose transfers are on the chain has the asset, as long as the
\* listing stood and the node was active in the block that took them.
PaidWhileLiveIsDelivered ==
    \A t \in Txs :
        (/\ paid[t] # 0
         /\ paid[t] < expiry[terms[t].listing]
         /\ paid[t] <= silent[NodeOf[t]])
        => t \in delivered

\* However many nodes and buyers race, one listing takes one buyer's money.
OnePaysPerListing ==
    \A s, t \in Txs :
        (s # t /\ paid[s] # 0 /\ paid[t] # 0)
            => terms[s].listing # terms[t].listing

\* While the commitment of a transaction is on its way or stands, the node does
\* not send another for it, however often the request is repeated (buy.ts, the
\* retained lock).
NeverCommittedTwice ==
    \A t \in Txs :
        LET sent == {op \in pool : op.kind = "buy_commitment" /\ op.tx = t}
        IN  Cardinality(sent) + (IF open.tx = t THEN 1 ELSE 0) <= 1

\* What guides/marketplace.md promises without a condition: a buyer can never
\* pay for an asset that is not deliverable.
PaidMeansDelivered == \A t \in Txs : paid[t] # 0 => t \in delivered
-----------------------------------------------------------------------------
(***************************************************************************)
(* The chain the nodes settle on keeps what Custody promises of the asset, *)
(* as the whole ledger does (Market): a buyer goes by the transaction that *)
(* carries the payment, the owner who lists by NoTx.  The asset is on      *)
(* offer when the nodes come to it.                                        *)
(***************************************************************************)
HeldNow ==
    CASE open.status = "active" -> [kind |-> "free"]
      [] open.status = "listed" ->
            [kind |-> "offer", id |-> open.listing, ends |-> expiry[open.listing]]
      [] open.status = "pending_sale" ->
            [kind |-> "promise", id |-> open.listing, ends |-> expiry[open.listing],
             buyer |-> open.tx, until |-> open.until]

Holder == IF delivered = {} THEN NoTx ELSE CHOOSE t \in Txs : t \in delivered

Deal == INSTANCE Custody WITH
    Assets <- {"asset"}, Accounts <- Txs \cup {NoTx}, Patience <- TTL,
    Terms <- {e - b : e \in Ends, b \in 1..(LastBlock + 1)}, LastBlock <- LastBlock + 1,
    block <- Now, owner <- [a \in {"asset"} |-> Holder],
    hold <- [a \in {"asset"} |-> HeldNow], offers <- open.listing

\* However nodes, buyers and the owner race: the asset changes hands only to the
\* buyer whom it is promised to, while the promise and the listing last, and a
\* promise ends by that or by running out.
DealKeepsCustody == [][Deal!CustodyNext]_(Deal!custody)
=============================================================================
