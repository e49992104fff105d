# NFTLox in TLA+

NFTLox keeps a ledger of digital assets on the Hive blockchain. Users sign
`custom_json` operations; every *indexer* replays the irreversible part of the
chain into its PostgreSQL database and accepts or rejects each operation by the
rules in its handlers. Some indexers are also *settlement nodes*: they co-sign
sales and the creation of collections. Nobody writes the ledger but the replay,
so two properties carry everything else: every indexer must compute the same
ledger from the same chain, and no sequence of accepted operations may bring
that ledger into a state its rules exclude.

This directory holds the specification of that system: TLA+ modules written
from the source under `src/packages`, the instances TLC checks, and proofs that
TLAPS checks. Paths below are relative to `src/packages/indexer/src` unless
they start with `src/`.

## 1. Inventory

### 1.1 Components

| Component | State it keeps | Operations | Talks to |
| --- | --- | --- | --- |
| Start-up (`main.ts`, `bootstrap.ts`, `sync-worker.ts`, `scanner/sync.ts`) | schema, genesis and cursor of the database; threads and their restarts | migrate, check or wipe, rebuild the root, check anchors, start the worker | database, Hive access |
| Sync engine (`scanner/sync-engine.ts`, `sync.ts`) | cursor, loop flags, last known frontier | cycle, batch, stop, exit | Hive access, router, database |
| HA lock and write fence (`scanner/sync-lock.ts`) | a session-level and a transaction-level advisory lock | acquire, verify, release, `withSyncWriteTransaction` | PostgreSQL |
| Hive access (`scanner/hive-client.ts`, `head-consensus.ts`, `endpoint-health.ts`) | a circuit breaker per endpoint, a rotation | agree on a head, read ranges page by page, fail over | public nodes |
| Operation router (`processor/action-router.ts`, `operation-parser.ts`) | `confirmed_operations`, the state-root buffer, the pool of transfers of one transaction | `routeOperationDetailed` | every handler |
| Payment matching (`processor/payment.ts`, `src/packages/protocol/src/payment*.ts`) | consumed transfer indices | match, split | router |
| Asset ledger (`processor/handlers/{core,marketplace,allowances,lending}`) | `assets`, `asset_loans`, `asset_allowances`, `collection_allowances`, `collection_stats` | list, unlist, buy_commitment, buy, transfer, burn, asset_transfer_from, asset_approve, asset_approve_all, asset_lend, asset_return | node directory |
| Node directory (`db/queries/nodes.ts`, `node_register`, `node_heartbeat`) | `l2_nodes` | register, heartbeat, the activity gate | read by commitments, buys, collections |
| Supply (`create_collection`, `mint`, `bulk_distribute`, `extend_schema`, `archive`, `set_data`, data operators) | `collections`, `schema_versions`, `burned_assets`, `collection_stats`, `user_stats` | those handlers | asset ledger |
| State root (`utils/state-root-buffer.ts`, `db/queries/state-root.ts`) | net change per asset, `state_root_checkpoints` | record, checkpoint, roll back, flush | router, sync engine |
| Heartbeat daemon (`services/heartbeat-daemon.ts`) | last heartbeat, published boundary | heartbeat, checkpoint | Hive, database |
| Buy settlement (`api/services/multisig/buy.ts`, `multisig-buy-lock.ts`, `chain-time.ts`, `transaction.ts`) | `multisig_buy_locks`, one request per buyer | validate, lock, commit, wait, sign, broadcast | Hive, the node's own projection |
| Collection signing (`api/routes/multisig.ts`, `api/services/multisig/create-collection.ts`, creator lock, signing queue, idempotency cache) | lock rows, a cache | validate, lock, check the cap, sign | Hive, database |
| Admission (`api/services/multisig/*`, `processor/validation`, account look-up) | none: two programs that judge one payload | validate before signing, validate at replay | SDK's readers |
| Light client (`src/packages/sdk/src/spv`) | none | verify ownership, a price, an operation | public nodes, an indexer's claim |
| Packs engine (`src/packages/packs`) | a plan and its reservations | draw, plan, validate | `bulk_distribute` |
| Read API, SDK builders, playground, snapshots, configuration, signer | none of the protocol's | queries, formatting, pages, scripts | |

### 1.2 How they interact

The scanner hands the router one block's operations at a time, in chain order,
inside one database transaction per batch. The router runs each handler in a
savepoint: a protocol rejection undoes that savepoint, any other error ends the
batch and the batch is tried again. Between blocks the engine sweeps
reservations that ran out. The API process of a settlement node reads the
tables the sync process writes, never the chain's head; what it broadcasts
comes back to it through its own projection, many blocks later. Processes of
one deployment share the database and elect the writer with the HA lock.

Users meet the system in three places. A node's API co-signs a purchase or a
collection, whose payload a handler judges again when it comes back through
the chain. The packs engine turns an opening into one `bulk_distribute`. A
light client believes no indexer: it takes an indexer's claim about an asset,
fetches the operations it names from public nodes and replays them.

### 1.3 What is hard here

* **Order and batching.** The ledger must be a function of the chain, though
  blocks arrive in batches of varying size, sweeps happen between some of them,
  and a batch can be retried after a crash or after a COMMIT whose answer was
  lost.
* **Two writers.** The HA lock can be lost while a batch is on its way.
* **Overlapping claims on one asset.** Listing, reservation, loan, allowance
  and collection approval exclude each other by conventions that live in many
  handlers, and each operation has to undo the right ones.
* **Stale views.** A settlement node decides on a view that lags by finality
  and by its own backlog, then waits for signatures, a lock and final blocks
  before it signs.
* **Clocks.** A reservation counts blocks, the expiration of a transaction
  counts chain time, the local lock and the time-outs count server time.

* **Rollback beside a transaction.** The router keeps records in memory (net
  changes of the state root, transfers spoken for) that must follow every
  savepoint and every lost batch.
* **Programs that must agree.** Payment rules, payload checks and reservations
  are each written twice or three times: at the signing node, in the handler,
  in the light client.
* **Several starts at once.** Processes prepare a database before any of them
  holds the lock.

`PROJECT.json` lists the hazards one by one with the line where each bites and
the properties that cover it.

### 1.4 What makes each component correct

* *Start-up*: whatever database is found and however often a process dies on
  the way, the tables are the replay from their genesis to the cursor, and the
  root is theirs.
* *Sync engine*: the database is the block-by-block replay of the chain up to
  its cursor; only final blocks are written; every operation is confirmed once;
  indexing catches up.
* *Hive access*: a range is complete or given up after everybody was asked; an
  agreed head is backed by a majority.
* *Operation router*: an operation is applied whole or leaves nothing but the
  record of its rejection; no transfer pays twice; the root is that of a scan.
* *Asset ledger*: one reservation at a time, ended only by its buyer or by
  running out; no grant survives the situation it was given in; a lender stays
  owner; soulbound assets stay put; denormalised counters agree with the rows;
  every operation is accepted or rejected, none stops the indexer.
* *Node directory*: no signing power without recent publications.
* *Supply*: caps hold for everything that is live, numbers are given out once,
  burned ids never return, a frozen schema stays frozen.
* *Daemon*: boundaries are published in order, none is skipped; a node that
  loses no heartbeat stays active, and one refused as too early costs it one
  interval more and no second.
* *Buy settlement*: at most one buyer pays for a listing, and whoever pays gets
  the asset; a node does not reserve twice.
* *Collection signing*: a node has one live signature out per creator; of a
  creator that keeps to one node, what the ledger judges at all loses its fee
  only to the transaction just before it.
* *Admission*: what a node signs is accepted; every node judges an operation
  alike whenever it replays it; what is accepted a client can read.
* *Light client*: where nothing stands between the two replays that the client
  cannot see, its verdict on a buy is the ledger's; an honest indexer's proof
  verifies as soon as an endpoint serves it, and no endpoint that is down or
  empty turns it into a mismatch. What the client cannot see is in section 5.
* *Packs engine*: a plan asks for no more than there is.

## 2. Modules

| Module | Models | Extends / instantiates |
| --- | --- | --- |
| `NodeRegistry` | the node directory and the activity gate | |
| `Market` | the asset ledger with its market, delegation and lending | extends `NodeRegistry`, instantiates `Custody` |
| `Custody` | abstract: what a ledger promises about who holds an asset | |
| `Supply` | collections, schemas, minting, distribution, data, burning | |
| `BatchReplay` | abstract: what a reader of the database may see while the chain is indexed | |
| `ChainReplay` | abstract: indexing as a function of the chain | instantiates `BatchReplay` |
| `SyncEngine` | several indexer processes on one database | extends `ChainReplay` |
| `HiveAccess` | endpoints, breakers, ranges and heads | |
| `OperationRouter` | one batch after the other through the router, with the root and the payments | extends `PaymentSplit`, instantiates `BatchReplay` |
| `PaymentSplit` | how a price is divided | |
| `SettlementDaemon` | heartbeats and checkpoints of one node | |
| `StartUp` | the start of several processes on one database | |
| `BuySettlement` | the sale of an asset through settlement nodes | instantiates `Custody` |
| `CollectionSigning` | the co-signing of collections | |
| `Admission` | a payload before signing, at replay, and at a client | |
| `LightClient` | the ledger's way with one asset and the client's verdict on it | extends `PaymentSplit`, instantiates `Custody` |
| `PackPlan` | the plan of a batch of packs | |
| `MCMarket`, `MCSyncEngine`, `MCBuySettlement`, `MCLight`, `MCPacks`, `MCSealed`, `MCStartUp` | instances of one module | |
| `MCIndexer`, `MCServices` | instances of several modules, one moving at a time | |
| `MarketProofs` | theorems about the node directory and the holds on an asset | extends `Market` |
| `MarketLimitsProofs` | theorems about the ledger's counts and grants, and the refinement of `Custody` | extends `MarketProofs` |
| `SupplyProofs` | theorems about caps, numbers, burned ids and frozen shapes | extends `Supply` |
| `IndexerProofs` | theorems about the sync engine, with the refinement of `ChainReplay`, the daemon, start-up and the reading of Hive | extends `SyncEngine`, `SettlementDaemon`, `StartUp`, `HiveAccess`, `InductionLemmas` |
| `RouterProofs` | theorems about routing, payments and the root | extends `OperationRouter`, `InductionLemmas` |
| `BuySettlementProofs` | theorems about the sale of an asset | extends `BuySettlement` |
| `ServicesProofs` | theorems about admission, the signing of collections, packs, and the light client | extends `Admission`, `CollectionSigning`, `PackPlan`, `LightClient`, `InductionLemmas` |
| `InductionLemmas` | what recursive functions and folds over sets are | |

### 2.1 NodeRegistry

`node[n]` is n's row of `l2_nodes`, reduced to the registration block and the
last heartbeat's block; 0 is SQL NULL. `Active(n)` is
`assertActiveSettlementNode`. `Register` and `Heartbeat` are the handlers.
A heartbeat needs a registered node and `MIN_HEARTBEAT_INTERVAL_BLOCKS` since
the last one. Endpoint, version and the published root are payload.

Note what the model makes visible: the comment in `db/queries/nodes.ts:119-121`
says that registering again must not refresh activity. That is so for a node
that has published at least once, which is what
`SilentNodeRevivedOnlyByHeartbeat` says; a node that has never published has
only its registration block to be active by, and registering again moves it.

### 2.2 Market and Custody

One action per handler. A rejected operation leaves no trace in the ledger (its
savepoint is rolled back) and is a stuttering step, so the guards of an action
are the handler's checks. The columns of `assets` are the functions `owner`,
`status`, `listing` and `sale`; the other tables are `loan`, `allowance` and
`approvals`; `listed` is `collection_stats.listed`. A burned row is deleted in
the code; here its status is `burned` and its listing and loan columns are Null.

* A listing's expiry, a timestamp in the code, is the first block whose
  timestamp has reached it.
* A buy transaction is the record of what its bytes say. A `buy_commitment`
  carries only its digest, so nothing ties the operation's own fields to the
  transaction's: the model lets a commitment name any transaction of the asset.
* `BuyAccepted` is everything `handleBuy` asks before it moves the asset; `Buy`
  is that and what follows. `ReservedBuySettles` says of the former that a
  reservation that can still be paid passes it.
* `Tick` is the next block with the sweep before its first operation.
* `ListReserved` is the one operation that ends in neither acceptance nor
  rejection (section 5).
* `Issued` are the seeds with distributed instances, a constant here: issuing is
  `Supply`'s, which in turn knows no listing or loan. No handler writes
  `reserved_supply`. Collections' flags are immutable in the code too.

`Custody` says in a page what the ledger promises about holding: an asset is
free, on offer, promised, on loan or gone; a promise starts from an offer that
stands, and ends kept by its buyer in time or by falling back to the offer.
`ImplementsCustody` is the refinement, with `HoldOf` as the mapping. The other
two modules that keep a ledger of their own, with what their subject needs of
it, are held to the same page: `BuySettlement` (`DealKeepsCustody`, `HeldNow`)
and `LightClient` (`TrailKeepsCustody`, `HeldBy`).

### 2.3 BatchReplay, ChainReplay and SyncEngine

`BatchReplay` is the least that the readers of the database (the API of the same
node, start-up, the daemon) rely on: what is committed is the outcome of playing
the chain up to some place where a batch may end, cursor and tables move
together, and on only. It knows nothing of the tables; `Ends` and `After` are
operator parameters. It is implemented twice, with the blocks of a chain by
`ChainReplay` (`MovesByBlock`) and so by `SyncEngine`, and with the operations of
a stream by `OperationRouter` (`ImplementsBatches`).

`ChainReplay` cuts the ledger down to one asset's status, the end of its
reservation, and the confirmed operations: the least in which the order of
operations, the block they are in and the sweep between blocks all matter.
`Canon(chain, b)` is the ledger after block b when blocks are played one by one;
`ReplaySpec` moves the database from one canonical ledger to a later one.

`SyncEngine` has a program counter per process. A step ends where the code
awaits something that other processes can race with: reading the cursor, asking
for the head, checking continuity, fetching, `verifyLockHeld`, BEGIN with the
fence, COMMIT. Faults are a crash, a lost session (known to PostgreSQL before
the process hears of it), SIGTERM, failed fetches, failed transactions, and a
COMMIT whose answer is lost. A stopped or crashed process starts again with
empty memory. `target` is the frontier the endpoints agreed on in this cycle,
which may be up to `Lag` behind the chain's. One that is ahead would need more
than half of the endpoints (`HeadIsBacked`).

### 2.4 BuySettlement

One asset, several settlement nodes with one projection each, several buyers'
transactions. The chain is kept as its history of rows (`sealed`), of which a
node sees the one at its cursor (`View`) and the height of the head. All clocks
are in blocks, with `Drift` the lead of a server's clock. The request of a buyer
goes through `Validate`, `Acquire` (the database lock of the asset), `Commit`,
`Poll` (until the commitment is seen to have won, or `GiveUp`), `FinalGate`,
and `Settle`, in the order of `executeBuyRequest`. Any step can be cut by a
crash; broadcasts can be reported as failed, with those of `Lossy` accepted
nevertheless; a client can send the same bytes again.

Left out are the checks that end a request before it has any effect
(signature, solvency, price); what they accept is `Admission`'s.

### 2.5 Supply

One action per handler that touches collections or what is issued in them. Ids
are hashes in the code and here functions of what they name, so that an id that
is used again is the same id: archiving and creating again, or burning and
minting again, come back to the same place, and only `burned` remembers.
`counted` is what the trigger `maintain_asset_counters` maintains, and the
handlers hold caps against it, never against the rows. `BulkDistribute` takes a
function from seeds to quantities; its three caps are kept over the whole
operation. A schema is a pair of sets of field names; data are the names they
give. `sealed` is history: the immutable names at the first mint.

### 2.6 OperationRouter and PaymentSplit

The operations of a stream pass `TurnAway`, `RefuseUnpaid`, `OpenSavepoint`,
then `ClaimSplit` and `WriteRow` as often as the handler writes, and end with
`RejectAndRestore` or `Confirm`; `CommitBatch` and `LoseBatch` end a batch. What
a handler writes is a list of insertions, updates and deletions of rows, which
is all the router knows of it. `buffer` is the log of net changes with its
marks, `pool` the transfers of each Hive transaction that are spoken for;
`image` is the database as the open transaction sees it and `disk` as others
do. `Reference` is the same without savepoints, buffers, batches and losses.
`Committed` is what `Reference` comes to after a number of operations, with the
root and the count of a full scan, and `Cuts` the ends of Hive transactions: with
them `ImplementsBatches` is the refinement of `BatchReplay`.
`Bodies` are whole Hive transactions, of which `Transfers` takes what
`getTransfersInTransaction` does.

`PaymentSplit` is arithmetic in thousandths with the code's rounding.

### 2.7 HiveAccess

`breaker`, `turn` and `call` are the endpoint pool and the calls that share it,
each `Ask` followed by an answer or a failure of any category. `Reading` plays
the client's paging over what an endpoint may serve: pages may overlap, repeat
an operation, go round in a circle, be garbled or hold what was not asked for.
An endpoint that ends a range early or makes operations up is out of the
client's reach: `BooksAreHonest` says that a way from the first cursor to the
last over pages the client takes holds what is wanted, cut into pages somehow.
`AgreeOnHead` is the median the client computes from those that answer, by rank
(`Ranked`) and not by sorting.

### 2.8 SettlementDaemon

A tick is two steps, the heartbeat (`Tick`) and the checkpoint (`Publish`, then
`Persist`), in one sequence as in the code, where a failed first half gives up
the second. What is broadcast lands some blocks later, or expires. `cursorRow`
survives a crash, memory does not. The index may be behind when a restarted
daemon reads its cursors.

### 2.9 StartUp

Each replica is a monolith (two threads), an api or a sync process. Every
statement to the database is a step, since nothing locks it before the HA lock:
`Migrate`, `ReadGenesis`, `CheckGenesis` (record, keep or wipe), `ReadRoot`,
`CountAssets`, `Scan`, `Rebuild`, then `VerifyChainAnchors`, `Lead` and cycles.
A block brings one asset, so that `rows`, `root` and `cursor` can be compared.
Threads perish at any step; a worker is started again until it has died too
often.

### 2.10 CollectionSigning

The route with its idempotency cache, the validation, the creator's lock (a row
with a life span), the check of cap and symbol, and the signature; then the
transaction's way to the chain and to the node's index, where cap and symbol are
judged again, behind the router's gate for active nodes (`IndexCollection`): a
node that was active when it signed may be silent by the block of inclusion, up
to 40 blocks later. Locks are rows of one node's database. What other settlement
nodes sign for the same creators comes to the same chain and counts towards the
same cap (`Elsewhere`, `BroadcastElsewhere`). The signing queue runs functions
that never wait and is no step of its own. Proof of work and rate limiters
depend on other clients and are a choice.

### 2.11 Admission

A payload is a function from fields to classes of values ("good", "empty",
"long", "wrong" type, "null", "absent" ...). `Signable` is what the node's
validation says of it, `Judged` (parser, account look-up, handler) what every
replaying node says, and the client's reader (`ClientReads`) is a third. Replay may
come at any time after finality; accounts are looked up at an endpoint that may
lag, by no more than finality takes (`EndpointKeepsUp`). The buyer's authority
is a graph of accounts that trust each other with weights and thresholds, of
which a node may have fetched a part.

### 2.12 LightClient

The upper half is the ledger's way with one asset, in the order the chain has
it (`trail`); the lower half is `verifyAssetOwnership`, `verifyListingPrice` and
`verifyOperationOnChain`: what they fetch from endpoints that answer, hide or
fail, their own replay of the commitments, their own matching of payments. The
properties compare the halves, both ways.

The ledger refuses some operations on grounds the client has no notion of: the
signing node is not active, or at its cap (`able`, a choice here: `Market` and
`NodeRegistry` have the tables); the listing is over, or not the one in force;
a commitment is the owner's own; a list is not the owner's. `unseen` remembers
where it did, and the properties say what holds beside such places. An endpoint
answers a request for a range with any part of it (`Answers`), and the client
takes the first that has any record (`RangeReply`). A transaction may hold
another NFTLox operation before the one that counts, or the same one twice
(`beside`, `ReadFrom`, `twin`).

 `HeldAfter` is the client's walk over
the commitments of its window, `Edges` and `SellerEdge` what it takes for
payments; the ledger's side has `hold` and `PaidFor` instead. What Hive serves of
a transaction's transfers is a finite sequence of whole records
(`TermsAssumption`).

### 2.13 PackPlan

One action, the opening of the next pack of a batch: draw, compare with supply
and reservations, deliver or skip. The generator is any roll.

### 2.14 Several modules in one run

`MCIndexer` and `MCServices` put modules into one run that share no variable.
Their state spaces would multiply without showing anything, so a constant
variable `focus` says which of them moves, and the rest stays at one initial
state. `MCIndexer` has the foci engine, caps and data (both `Supply`, once with
all data plain and once with a single collection), routing, daemon, range and
head (both `HiveAccess`), start; `MCServices` has buying, signing, light, packs,
admission. Properties of a module are invariants of the run, trivially true
where it does not move.

## 3. Runs

| Run | Question | Properties |
| --- | --- | --- |
| `ledger` | do reservations behave, whatever everybody does? | `ReservationCoherent`, `NodeCapRespected`, `ListedCounterExact`, `ReservedBuySettles`, `SilentNodeRevivedOnlyByHeartbeat`, `ImplementsCustody`, `ReservationEnds` |
| `grants` | does a grant or a loan outlive what it was given for? do unsellable assets stay put? | `TypeOK`, `UnsellableNeverEncumbered`, `LoanBacksLent`, `AllowanceFresh`, `ApprovalBacked` |
| `wedge` | is listing a reserved asset rejected? (no) | `NeverWedged` |
| `indexer` | is the database the replay of the chain? | `ImplementsReplay` |
| | do caps hold, and does what is gone or frozen stay so? | `CapsKept`, `EveryNumberAccountedFor`, `BurnedStaysGone`, `ImmutableShapeFrozen` |
| | is an operation applied whole or not at all, and paid for once? | `ImplementsBatches`, `RootIsFullScan`, `PoolExact` |
| | does a node publish in order, and stay active? | `CheckpointsInOrder`, `HealthyNodeStaysActive` |
| | is a range complete, and a head backed? | `RangeSettled`, `HeadIsBacked` |
| | is a database sound after any start? | `ProjectionSound` |
| `sync_handover` | what survives a writer that has lost its lock? | `NeverAheadOfDatabase`, `WritesFencedAndFinal`, `ConfirmedOnce`, `CatchesUp` |
| `sync_divergence` | is there no divergence window? (there is) | `NoDivergence` |
| `services` | can two buyers pay for one listing? | `BuyNeverOutlivesReservation`, `OnePaysPerListing` |
| | what can a creator's fee be lost to? | `OneLiveSignature`, `LostToTheOneBefore` |
| | does a client's replay come to the ledger's end? | `BuysJudgedAlike`, `HonestProofHolds` |
| | does a plan fit the supply? | `PlanFitsDistinctDraws` |
| | do the programs that judge a payload agree? | `SignedIsAccepted`, `SameVerdictWhenever` |
| `sealed` | does a sealed shape survive archiving? (no) | `SealedForGood` |
| `startup` | is the root safe to compute on every boot? (no) | `RootSafeOnEveryBoot` |
| `light` | does every honest purchase verify? (no) | `HonestBuyVerifies` |
| `buy_retry` | does a retry commit twice, and is what is paid in time delivered? | `NeverCommittedTwice`, `PaidWhileLiveIsDelivered` |
| `buy_expires` | can a buyer pay for what cannot be delivered? (yes) | `PaidMeansDelivered` |

### 3.1 Bounds

* `ledger`: two assets, three accounts, a node with a cap of one, four blocks,
  two listings of two blocks, reservations of one block. A reservation can be
  made on the first or the last block of a listing, run out before or after it,
  and be swept; the cap is contended; the owner can list again after a sweep;
  the node can beat, fall silent (`MaxStale` = 1) and come back. Nobody borrows
  and nothing burns here: loans and burns are `grants`', and of the refinement
  of `Custody` they are covered by the theorem (4.1), not by this run.
* `grants`: three accounts of which two are spenders and borrowers (and
  interchangeable), an instance, a soulbound instance and a distributed seed in
  two collections, two blocks, one listing. Grants can be given, lie, be used
  by a third party, and meet sales, loans and burns; every owner can lose all
  it has in a collection and get something back.
* `indexer`, engine: two processes, every chain of four blocks over the menu of
  `MCSyncEngine` (empty, reserve, buy, and buy before reserve) with an empty
  block, ranges of two blocks, frontiers reported up to two blocks late with a
  tolerance of one; two of crash, failed fetch and lost transaction.
* `indexer`, caps and data: one creator with a capped (three instances of two
  seeds) and a capless collection, two arts, two numbers to a seed, operations
  of two items. The limits on collections, seeds and instances (2, 3, 3) are
  each reached, and each by several items of one operation. "data" has one
  collection, with every schema over two names and every payload.
* `indexer`, routing: four operations in two Hive transactions, of twelve kinds
  each (writes that succeed and fail late, fixed and split payments, refused
  and inactive ones), prices of 149 and 150 units on both sides of a rounding,
  transfers that several operations could claim; every cut into batches and one
  lost batch.
* `indexer`, daemon: interval 3, staleness 7, a boundary every three blocks, a
  poll every two, inclusion after up to two blocks, one misfortune. Nine blocks
  are the least with three boundaries and a repeated broadcast; four more, in
  which only heartbeats go out and nothing has gone wrong (`CalmInTheEnd`), are
  the least in which a heartbeat refused as too early is followed by the next
  one, as late as it may be. The real numbers (interval, poll and delay below
  staleness, `DaemonAssumption`) are far more relaxed.
* `indexer`, range and head: two endpoints, a range beside another call,
  breakers that open after two failures, ten books of pages of three
  operations, three pages at most; heads of both endpoints at two heights with
  three last irreversible blocks.
* `indexer`, start: genesis 3, tip 6, batches of two, three anchors, two restarts
  of a worker, three mishaps, eight kinds of database (new, partly indexed,
  without a root, of another genesis, of an old schema). The monolith is alone;
  api and sync start together only where root and genesis are in place, since
  the run `startup` shows what happens otherwise.
* `sync_handover`: three blocks, the chain on which a second pass over a block
  shows, one fault of any kind, frontiers reported up to one block late. One
  behind what the process has seen already is refused here (`Regression` 0); the
  run `indexer` tolerates a block, with frontiers two late.
* `services`, buying: two nodes with a transaction each, every interleaving of
  both requests, four block heights, views that lag. Blocks wait for a validated
  request to be broadcast (`Prompt`), which stands for requests that take less
  than a block from validation to broadcast; without it the chain merely moves
  on under a request, which `buy_retry` explores through `Wait` and finality.
* `services`, signing: four requests (one and its retry under one key, one for
  another symbol, one for the first symbol again), a cap of one, time 0..4, a
  cache of two, a transaction of another node; one breakdown, or that
  transaction, or a silent node at inclusion, not two of them at once
  (`OneOddity`).
* `services`, light: trails of six operations in five blocks with reservations
  of one block, three buyers' transactions through two nodes, two endpoints with
  any part of what they are asked for; listings that stand two blocks or all of
  them. The asset comes into being first and is listed or changes hands next
  (`InOrder`). Refusals the client does not see: up to three in the first block,
  one later, in trails of two buyers' transactions (`MayBeOdd`). Purchases that
  pay anything else than the price, collections with other royalties, and
  transactions with a second operation, in trails of four in one block.
* `services`, packs: two seeds with weights 2:1, two draws to a pack, three
  packs, a supply of none to three or unlimited, with reservations or without.
* `services`, admission: every payload with at most two fields out of order and
  every small authority graph over three accounts, two nodes that replay, time
  0..4. Two fields are enough for checks that read one or two fields each.
* `sealed`: one collection, one seed at a time. `startup`: api and sync on a new
  database. `light`: as `services`, without refusals the client does not see and
  listings that end (`Steady`), so that what it shows is owed to neither.
* `buy_retry`: one node, one transaction, seven blocks, a listing that expires
  early or late, a node that falls silent or not, a second listing, two faults,
  a lost answer of the buy's broadcast.

The proportions matter more than the sizes. In the code `BUY_TX_TTL_MS` and
`MULTISIG_TX_MAX_EXPIRATION_MS` are 120 s (40 blocks), the minimum is 90 s, the
observation time-out 60 s, `HIVE_FINALITY_SAFETY_BLOCKS` is 20 and the cap 10.
The runs keep MinLeft < MaxLeft = TTL and the real order of the gates. They
also keep PoolLife + Finality + Backlog within TTL: with a commitment that
stays in the pool to the end of its life, the slowest finality and the largest
backlog, the real lock can lapse just before its commitment becomes visible.
`CollectionSigning` keeps the life of a transaction and the lag of the index
within the life of the lock, as the code's constants do.

Deadlock checking is off where a modelled chain, trail, batch or clock ends:
with the last block produced and everything sold or burned there is nothing left
to do. `sync_handover` and `sync_divergence` are checked for deadlock.

### 3.2 Fairness

* `Market!FairSpec`: blocks keep coming while the indexer is not wedged.
* `SyncEngine!EngineFairSpec`: Hive makes blocks final; a process takes its
  next step (`syncLoop` and `waitForLock` retry for ever), notices a lost
  session, and exits after a stop (the supervisor starts it again): weak
  fairness. Strong fairness of the cycle, of fetching and of committing says
  that endpoints and database do not fail every single time; each may fail any
  finite number of times in a row, at any moment.

### 3.3 Mutants

Each property of a passing run is shown to depend on the code: `PROJECT.json`
names, for each, a plausible bug (an operator whose comment starts with
"Mutant") under which TLC finds the property violated.

## 4. Proofs

A theorem holds for every value of the constants that satisfies the named
assumptions of its module: any number of assets, accounts, nodes, processes,
blocks and operations. The assumptions type the constants and order them as the
code's do (TLC evaluates each in the runs); those that say more are named below.
Where a theorem needs something a run may also do without, it is a hypothesis of
that theorem and not an assumption of the module.

### 4.1 The ledger

* `MarketProofs`. `RegistryTypeCorrect` by induction with `RegistryTypeOK`
  itself. `SilentNodesStaySilent` from it: a node that beat before and is silent
  can only pass `Active` again with a heartbeat, because `Activity` reads the
  heartbeat column once it is set and registration does not touch that column.
  `TypeCorrect`; then `ReservationsCoherent`, `LoansBackLent` and
  `AllowancesFresh`. None of the three is inductive alone: that a transfer
  leaves no reservation or loan behind rests on status and row agreeing, for
  every kind of row. The invariant `LedgerInv` is typing together with `Held(a)`
  for every asset, one part per kind of row (`Reserved`, `Lent`, `Allowed`).
  Rows an action does not touch keep their part by one lemma.
* `MarketLimitsProofs`, all relative to `LedgerInv`. `UnsellablesUnencumbered`;
  `ApprovalsBacked`, where each action that takes an asset away has to be
  followed by the collection-wide revocation; `CapsRespected`: the handler counts
  the reservations of a node that have not run out, and because of
  `LedgerInv` those are all; `ListedCountersExact`, a cardinality that a sweep
  changes by many at once. `ReservedBuysSettle`: a payable reservation's
  buy passes all of `BuyAccepted`, since nothing anybody may do meanwhile touches
  what it looks at.
  `LedgerImplementsCustody`: every handler is, through `HoldOf`, a step or a
  stutter of `Custody`.
* `SupplyProofs`. The caps are checked against counters, and what they promise
  is about rows; an archived collection may come back under its id. `SupplyInv`
  is typing with `CountersExact` (counters are row counts), `Rooted` (rows hang
  on the rows they belong to), `Numbered` (a number is taken exactly if it is
  not above the seed's `distributed`) and `BurnedGone`. From it:
  `CapsNeverExceeded`, `NumbersAccounted`, `BurnedForever`, and with
  `SealedIsMinted` also `ShapeFrozen`. `SealedUnlessArchived` adds `Standing`.

### 4.2 The indexer

* `RouterProofs`. `RouterShapes` types the phases of an operation and what
  each remembers. `RootAlwaysFullScan` adds `NetChanges`: the buffer's entries
  lead from the committed rows to the image's, and those under a mark from the
  savepoint's. `TransfersPayOnce` adds `PoolsKept`: what is spoken for is what
  the open batch has recorded and the operation at work has claimed; it rests on
  `CutBetween`, that a batch never ends within a Hive transaction.
  `AppliedWhole` adds `Follows`: the image is at each place of the stream
  what `Reference` has there, with the operation at work half applied.
  `RouterReplaysBatches`, the refinement of `BatchReplay`, follows from the three
  together: a commit publishes the image of an idle router (`AtCut`), which is
  `Reference`'s, under the root that the buffer comes to, at the end of a Hive
  transaction; everything else leaves `disk` alone.
* `IndexerProofs`. `EngineControl` says for each step of a process what it
  still knows: whose COMMIT can succeed, and where cursor and batch then stand.
  From it `NoGapAhead`, `WritersFenced`, and with `Sound` ledgers
  `NothingConfirmedTwice`. `EngineReplaysChain`, the refinement of
  `ChainReplay`, holds if no session is dropped and no process is told to stop
  (`"stop"`, `"drop"` not in `Faults`), with any number of crashes, failed
  fetches, lost batches and lost answers. That is the exact border: with either
  of the two the run `sync_divergence` shows the second pass. From the same
  invariant (`Orderly`) `NoWindowUnlessLockLost`, and from the refinement
  `EngineMovesByBlock`: refinements compose, the engine implements `ChainReplay`
  and that implements `BatchReplay`.
  `CheckpointsFollow` from `DaemonControl`, and `HealthyStaysActive` from
  `Steady`, which says what became of the heartbeat sent last: taken, on its way,
  refused, or sent after a refused one and on its way too late to be refused
  again. Its arithmetic is `DaemonAssumption`: inclusion takes less than an
  interval (5000 blocks; the client library's transactions live 20), and interval, poll
  and inclusion together stay within the staleness limit.
* `IndexerProofs`, start-up. `StartsSound` from `StartInv`: what each thread
  has read of the database is still so, or makes no difference (`Stands`), and
  the threads of one process go through start-up together (`InTandem`). It holds
  for a process that has the database to itself (`Alone`), and for any number
  that find root and genesis there (`InPlace`); the run `startup` shows what
  happens to two processes otherwise.
* `IndexerProofs`, reading Hive. `HeadsBacked`: the median is defined by rank,
  and that each rank is taken is proved for every set of answers. `RangesSettled`
  needs two things. A range that fails has gone round once: `Counted` says that
  until then it has tried as many endpoints as it made attempts, since `Select`
  finds one that is not excluded if there is one (`SelectIs`). And a range that
  was read is whole (`ReadWhole`): by induction over the pages, what the client
  holds is the part of the range up to the last cut, and no page was taken that
  brings anything back.

### 4.3 The services of a node

* `BuySettlementProofs`. `BuysAreBacked` and `PaymentsDeliver` need
  `WindowFits`: with the code's equal maximum and window (40 blocks), a server's
  clock may be one block ahead of the chain and no more. `OneBuyerPays` and
  `LastingPaymentsDeliver` need `Lasting` as well, that neither a listing nor a node
  ends while a payment is on its way, which the code does not check (finding
  `buy_expires`). `CommittedOnce` needs
  `LockOutlives`: the commitment shows in the node's view before the request's
  lock is gone (`PoolLife + Reach <= TTL + 1`), requests are `Prompt`, and the
  broadcast of a commitment is never accepted and yet reported as failed. With
  the code's numbers (window 40, finality 20, stale API 3, tolerated backlog 10)
  this is so for a commitment included within 8 blocks; one that waits out the
  client library's full expiration of 20 blocks would not meet it.
  `DealImplementsCustody` needs none of these: the chain that nodes and buyers
  race on implements `Custody`. Its invariant `Custodial` says that the asset
  is sold once at most and then off the market, for the module follows
  it to its first sale. The refinement is of the steps only, since the module
  begins with an asset already on offer, which `CustodyInit` does not.
* `ServicesProofs`, admission. `VerdictsAgree`: what every verdict rests on is
  the age of an account as of the operation's block, which no later creation and
  no lagging endpoint changes (`EndpointKeepsUp`: an endpoint lags by less than
  finality takes). `SignedThenApplied` compares two programs that read a graph
  of accounts recursively, the node with the accounts it has fetched, to a
  depth, and the chain. `KeysAgree`, `WeightsGrow` and `HiveWeighs` prove, for
  every graph (`AuthoritiesTyped`: weights and thresholds are naturals), that
  what suffices for the node suffices for the chain.
* `ServicesProofs`, signing. `SignedOneAtATime` from `SigningInv`: a live
  signature's request holds its creator's lock for as long as the transaction
  may be included (`SigningAssumption`: MaxLife and IndexLag within the lock's
  life, as the code's constants are). `FeesLostSingly` adds what the replies
  tell (`RepliesSigned`), the order of the chain (`ChainOrder`), that two
  signatures of a creator are apart by a lock's life (`Spaced`), and what each
  saw of the index (`RoomSeen`). It speaks of creators none of whose transactions
  so far is another node's (`OnlyHere`), and of transactions that the router's
  gate did not turn away; of the rest nothing of the kind is true (section 5).
* `ServicesProofs`, packs. `PlansFit` from `PackInv`: reservations are naturals
  (the weights of the table add up to the total, so a share is no more than the
  demand), and a delivered pack took of each seed it drew once no more than was
  left.
* `ServicesProofs`, the light client. `BuysVerifyAlike` and `HonestVerifies` from
  `LightInv`, which tells the ledger's state by the trail alone: its reservation is
  the end of a walk over the commitments for the listing in force that were not
  refused unseen (`Standing`), the purchases it settled are those that had the
  asset by that walk and paid its price, and its row rests on the operation it
  names (`RestsOn`). The client walks over its window only, and over refused
  commitments too: `WindowWalk` proves by induction over the trail that the two
  walks end at the same commitment, or the client's at none and the ledger's at
  one from before the window, provided that no such commitment reaches into it
  (`Shadowed`, the finding `light`) and none in it was refused unseen (`Misled`).
  Of the payments the ledger asks that each leg is there once and the client
  that there are as many transfers as legs too; `AllPaying` shows by counting
  that then every transfer pays a leg. No bound on trail, purchases, royalties,
  prices or endpoints is used. The hypotheses are what the code needs and no
  more: TLC finds a trail on which client and ledger differ as soon as one of
  `Shadowed`, the rest of `Misled`, `Bare`, the twins of `Clear`, `Served` or
  `Lone` is left out (section 5).
  `TrailImplementsCustody`, also from `LightInv`: what the client is compared with
  is a ledger that keeps `Custody`. The number of an offer is the number of
  listings on the trail, so `ListingsGrow` has to count them.

With `LedgerImplementsCustody` that makes three ledgers, reduced in three ways,
with one contract. The two refinements of this section are proved and are not
properties of a run.

### 4.4 Claims that hold under a condition

Six runs refute a sentence of the documentation. For five of them a theorem says
when the sentence is true, so that the run and the theorem together tell how far
it reaches:

| Run | Property | Theorem | Condition |
| --- | --- | --- | --- |
| `sync_divergence` | `NoDivergence` | `NoWindowUnlessLockLost` | no process is told to stop or loses its session while it goes on (`"stop"`, `"drop"` not in `Faults`) |
| `startup` | `RootSafeOnEveryBoot` | `RootSafeForOne` | one process has the database to itself, or root and genesis are in place (`Alone`, `InPlace`) |
| `sealed` | `SealedForGood` | `SealedUnlessArchived` | no collection that was minted in is archived (`NoneArchived`, a condition on the behaviour) |
| `buy_expires` | `PaidMeansDelivered` | `LastingPaymentsDeliver` | listings and nodes outlast the chain considered, and the windows fit (`Lasting`, `WindowFits`) |
| `light` | `HonestBuyVerifies` | `ClearBuysVerify` | at all times, of the owner's buy: no reservation from before its window reaches into it, no commitment in it was refused for its node, the cap or its listing, no other transfer bears a memo of the sale, and neither listing nor collection is twice in its transaction (`ClearlyBought`) |

The sixth, `NeverWedged`, has no such condition short of forbidding the operation.

### 4.5 What the proofs changed

Two properties that the small instances had not refuted were wrong, and the
attempt to prove them showed it; a third, in `HonestProofHolds`, was stated by a
CASE whose guards overlapped, which leaves the value open and which TLC reads
from top to bottom. "A creator loses at most one fee to a
breakdown" is too strong: each of a chain of signatures can lose its fee to the
one before. What holds is `LostToTheOneBefore`. "A node has one commitment out
per asset" is too strong for two transactions of one asset at one node; what
holds, for one transaction, is `NeverCommittedTwice`.

Induction over data, which the installed provers do not offer as a rule (the
library's theorems take an operator as a parameter), is done by hand in
`InductionLemmas`: a set of naturals with 0 and the successor of each element
is all of them, since a least number outside it, which exists because < is well
founded, cannot be. From that: the function a recursion defines is the run of
its steps, a sum over a finite set grows with each element, a bounded set of
naturals has a highest element. A recursive definition unfolds as the choice of
a function that satisfies its equation; each proof exhibits one.

### 4.6 Only model-checked

`CatchesUp` and `ReservationEnds`, which say that something happens at last, under
fairness. And `NeverWedged`, which is false.

## 5. Where code and documentation disagree

Shown by a run:

* **Listing a reserved asset stops the indexer** (`wedge`).
  `handleList` refuses only lent assets and unexpired listings. A
  `pending_sale` row passes, and the UPDATE leaves `sale_*` filled next to
  status `listed`, which the table's CHECK refuses. That is no protocol
  rejection, so the batch is retried for ever. `protocol-invariants.md:85` says
  that re-listing is rejected.
* **The write fence leaves a divergence window** (`sync_divergence`).
  A writer that is told to stop releases the HA lock at once while its batch is
  still on its way. The next writer may have read the cursor and checked
  continuity before that batch commits, and then plays the same blocks again.
  Confirmed operations are skipped, but one the first pass rejected may be
  accepted in the second. `sync-lock.ts:243-244` says that there is no such
  window. What does hold then is in `sync_handover`.
* **A sealed shape can be changed by archiving** (`sealed`). Creation looks in
  `collections` only, so a collection whose seeds were all burned can be
  archived and created again under its id with other immutable fields.
  `extend-schema.ts:41` says that the shape is frozen across burns and mints.
* **Two processes can spoil the root of a new database** (`startup`). The
  computation of the root at start-up is several statements under no lock, and
  a batch that commits in between is missing from the root for good.
  `bootstrap.ts:144-146` calls it safe on every boot.
* **An honest purchase may not verify** (`light`). The client replays the
  commitments of one TTL before the buy; a reservation from before that window
  that still stood in it is not seen, and a commitment the ledger turned away
  wins. `guides/spv.md:11` says that the claim is proved against the chain.
* **A buyer can pay without delivery** (`buy_expires`). The last gate before
  signing checks the node and its sync state again, not the listing; a listing
  that expires between commitment and buy makes the chain take the money and
  the ledger reject the buy. `guides/marketplace.md:3` says never.

Seen while modelling. Where an entry names a definition, the modules follow the
code; the others are outside what is modelled.

* `heartbeat-daemon.ts` says that a heartbeat failure cannot hold up a
  checkpoint; `tick()` throws before it comes to the checkpoint (`TickFails`).
* `src/packages/protocol/src/constants.ts:155-157` grants one missed heartbeat.
  The limit is exactly two intervals, and a node whose heartbeat was lost after
  broadcasting sends the next one no sooner than two intervals after the last
  that arrived, plus poll and inclusion: for those blocks it counts as silent.
  So it does after a heartbeat that was refused: the daemon's interval starts
  at the head it saw, the handler's at the block of inclusion, and one that is
  included more quickly than the one before it comes too early. How long the
  silence may last is the second half of `HealthyNodeStaysActive`.
* `seed-provenance.ts` throws a plain Error where `data-formats.md:85-87` speaks
  of a rejection; a plain Error is fatal to the batch.
* An extension may declare one new name in both sections of a schema
  (`Extendable`).
* A `buy` that authority checks reject is not recorded as orphaned.
* `errors.md:26` describes `COLLECTION_LOCKED` per creator and symbol; the lock is
  the creator's.
* The signing queue claims to serialise; the function it runs is synchronous, so
  neither overlap nor time-out can happen.
* `INTERNAL_ERROR` is answered with 400 and therefore kept in the idempotency
  cache (`routes/multisig.ts:400-404` against `:54-56`): a passing failure stays
  the answer for the key's life. A cache hit may also return a signature whose
  transaction has expired.
* `endpoint-health.ts` speaks of latency in the rotation; it is recorded and
  unused.
* `sync.ts:258-263` counts one entry per operation where a failed buy has two.
  `getOperationStatus` reads three tables in three statements, between which a
  commit can fall.
* In the monolith `markSyncActivity` runs in the worker's copy of the module, so
  that the main thread's health never sees it, and stays ready after the worker
  has died.
* Two replicas of one release on a database of another genesis: the slower one
  wipes what the faster has begun to write, against `bootstrap.ts:85-89`
  (`ProjectionSound` assumes that api and sync find the genesis in place). An
  anchor mismatch ends the worker only, which is started again without end,
  because "ready" resets the count, against `sync-engine.ts:137-140`.
* A collection with `royaltyPct` 0 and an empty `royaltyRecipient` is accepted,
  and the client then cannot read the rules of any purchase in it (excepted in
  `SignedIsAccepted`'s reading half, as is the batch transfer, which is no proof
  on purpose).
* The client asks of a buy neither whether its node was active, nor whether the
  listing had ended or was still the one in force: a buy that won its
  reservation and paid its price, and that the ledger turned away for one of
  these, verifies (`BuysJudgedAlike`: `settled \cup unseen`). And a commitment that
  the ledger refused for its node, the node's cap or its listing counts in the
  client's replay, where it may stand before the real one, so that a settled
  buy is a mismatch (`Misled`). Against `spv.md:11`, like the finding `light`.
* `fetchCustomJsonOperationsInRange` returns the first endpoint's records as soon
  as there is any, so that one that hides nothing but the buy's commitment
  decides the range (`RangeReply`, `Served`). Its comments
  (`src/packages/sdk/src/spv/hive-l1-client.ts:202-207`, `:255-261`) say that the
  silent suppression of records is handled, for only if every endpoint agrees
  is a range empty.
* `verifyListingPrice` and `verifyOperationOnChain` look at the first NFTLox
  operation of a transaction only (`hive-l1-client.ts:697-707`), so that a second
  one is a mismatch, or passes for the first (`ReadFrom`; the second half of
  `HonestProofHolds` is about operations that come first).
* The client counts every transfer under a memo of the sale, the ledger tolerates
  others (`Bare`). It trusts the indexer for which transaction created a
  collection.
* A creator can lose a fee to no earlier transaction, when the node falls silent
  between its signature and the block of inclusion (`turnedAway`), and more than
  one in a row, when several nodes sign for it: none sees the others' locks
  (`BroadcastElsewhere`). No document promises otherwise.
* `sumBuyerOutgoing` adds floating-point amounts without rounding, so that an
  exactly sufficient balance can be refused.
* `buildPackOpenPlan` compares each draw with what earlier packs left, not with
  what the same pack has drawn: with one left, a pack that draws it twice is
  planned, and `bulk_distribute` rejects all of the opening
  (`open-plan.ts:76`; the engine's README, line 101, and
  `tests/engine.test.ts:105` say that such packs are skipped).
  `PlanFitsDistinctDraws` excepts it.
* `getTransfersInTransaction` believes the first endpoint that answers, and a
  reply without operations counts as no transfers.

`buy_retry` and `services` state the conditions under which their properties
hold, and each condition is needed. With a server clock more than MaxLeft's
slack ahead of the chain (`Drift` above the distance between the node's view
and the head), a signed buy can outlast its reservation. With two transactions
for one asset at the *same* node, a request validated before the view shows the
first reservation can take the lock after it is released, and commit again:
nothing looks at the asset again after the lock is taken. With a commitment's
broadcast accepted but reported as failed (`Lossy` containing
`buy_commitment`), the lock is released and a retry commits again. In all three
cases the chain rejects the second commitment while the first one stands.

## 6. Not modelled, and why

* The SDK's builders and API client: they format payloads and fail early, and
  keep nothing. Their checks are not the handlers' (they do not look at
  `royaltyRecipient`, know no cap on `maxInstances`, allow another fee amount and
  duplicate schema fields), but whatever they let through, `Admission` judges.
* The playground, its scenarios and the snapshot tooling: pages, texts and
  scripts of an operator. The read API: queries without state of their own, a
  rate limiter and a proof-of-work cache per process.
* Configuration and signer: reading the environment, and calls of a wallet
  library. What configuration decides is constants of the modules.
* Ids, hashes and derivations (`resolveMutableDataFromOperation`,
  `verifyDeterministicDerivation`): functions of what they name.
* Divergence detection: advisory, and `setDivergentAtBlock` is never called.
  `validateScaled`: no action has a scaled fee. Status `banned` of a node: no
  handler writes it.
* Retention and pruning, health evaluation, clock-drift warnings, and
  `getOperationStatus`: they read or delete what nothing modelled reads.
* The hourly clean-up of listings that became invalid, and the reset of the
  engine when a database is restored behind its memory: branches no modelled
  behaviour reaches (`NeverAheadOfDatabase`).
* Of start-up: the local PostgreSQL container, health ports, DNS prefetching.
  Of Hive access: the single look-ups, which fail over like any call.

## 7. Plan

Done: all modules of section 2 and the proofs of section 4, which state every
invariant, action property and refinement that a run checks and finds true. Next, in
this order:

1. The branches of section 6 that a restored database reaches.
2. Shorter proofs: `WindowWalk`, `ReadWhole` and `Follows` each do an induction
   along a sequence by hand and could share more of `InductionLemmas`.
