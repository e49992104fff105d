----------------------------- MODULE ChainReplay -----------------------------
(***************************************************************************)
(* What indexing the chain means: the ledger after block b is a function   *)
(* of the chain up to b, however the blocks were cut into batches and      *)
(* whoever wrote them.  The ledger is cut down to one asset's listing and  *)
(* its reservation, the smallest state in which the order of operations,   *)
(* the block they are in and the expiry sweep between blocks all matter.   *)
(***************************************************************************)
EXTENDS Naturals, Sequences

CONSTANTS
    LastBlock,  \* bound: the last block of the modelled chain
    TTL,        \* BUY_COMMITMENT_TTL_BLOCKS
    Every,      \* STATE_CHECKPOINT_INTERVAL_BLOCKS
    Chains,     \* bound: the chains considered
    NoRoot      \* no state_root_checkpoints row

Blocks == 1..LastBlock
Kinds == {"list", "buy_commitment", "buy"}

\* The operations of each block, in the order the chain has them.
ASSUME ReplayAssumption ==
    /\ LastBlock \in Nat \ {0} /\ TTL \in Nat /\ Every \in Nat \ {0}
    /\ Chains \subseteq [Blocks -> Seq(Kinds)]

-----------------------------------------------------------------------------
\* A ledger: the asset's status, the last block of its reservation, and
\* confirmed_operations in the order the rows were inserted.
EmptyLedger == [status |-> "active", until |-> 0, confirmed |-> <<>>]

Confirmed(l, op) == \E i \in DOMAIN l.confirmed : l.confirmed[i] = op

\* sweepExpiredBuyCommitments(b).
Sweep(l, b) ==
    IF l.status = "pending_sale" /\ l.until < b
    THEN [l EXCEPT !.status = "listed", !.until = 0] ELSE l

\* The handlers' guards and effects on the one asset.
Accepted(l, kind, b) ==
    CASE kind = "list" -> l.status = "active"
      [] kind = "buy_commitment" -> l.status = "listed"
      [] kind = "buy" -> l.status = "pending_sale" /\ b <= l.until

Effect(l, kind, b) ==
    CASE kind = "list" -> [l EXCEPT !.status = "listed"]
      [] kind = "buy_commitment" ->
            [l EXCEPT !.status = "pending_sale", !.until = b + TTL]
      [] kind = "buy" -> [l EXCEPT !.status = "active", !.until = 0]

\* Mutant: no idempotency gate.
RouteAgain(l, kind, b, i) ==
    IF Accepted(l, kind, b)
    THEN [Effect(l, kind, b) EXCEPT !.confirmed = Append(@, <<b, i>>)]
    ELSE l

\* routeOperationDetailed for the i-th operation of block b: skipped if it is
\* confirmed already, rejected without effect, or applied and confirmed.
Route(l, kind, b, i) ==
    IF ~Confirmed(l, <<b, i>>) /\ Accepted(l, kind, b)
    THEN [Effect(l, kind, b) EXCEPT !.confirmed = Append(@, <<b, i>>)]
    ELSE l

\* Mutant: reservations are swept at the boundary of a batch only.
PlayBlockUnswept(l, ops, b) ==
    LET after[i \in 0..Len(ops)] ==
            IF i = 0 THEN l ELSE Route(after[i - 1], ops[i], b, i)
    IN  after[Len(ops)]

\* The operations of block b, with the sweep before the first of them.  A
\* block without operations is not swept for.
PlayBlock(l, ops, b) ==
    LET after[i \in 0..Len(ops)] ==
            IF i = 0 THEN Sweep(l, b) ELSE Route(after[i - 1], ops[i], b, i)
    IN  IF ops = <<>> THEN l ELSE after[Len(ops)]

\* The batch from..to, with the sweep at its boundary.
PlayBatch(ch, l, from, to) ==
    LET after[b \in (from - 1)..to] ==
            IF b < from THEN l ELSE PlayBlock(after[b - 1], ch[b], b)
    IN  Sweep(after[to], to + 1)

\* The ledger after block b: the chain played block by block.
Canon(ch, n) ==
    LET at[b \in 0..n] ==
            IF b = 0 THEN EmptyLedger ELSE PlayBatch(ch, at[b - 1], b, b)
    IN  at[n]

-----------------------------------------------------------------------------
VARIABLES
    chain,      \* the irreversible chain
    cursor,     \* sync_state.last_block
    ledger,     \* the projected tables
    roots       \* roots[b]: state_root_checkpoints row of block b

replay == <<chain, cursor, ledger, roots>>

ReplayInit ==
    /\ chain \in Chains
    /\ cursor = 0
    /\ ledger = EmptyLedger
    /\ roots = [b \in Blocks |-> NoRoot]

\* The ledger moves on to a later block, atomically with the cursor, and the
\* root of that block is recorded when it is a checkpoint boundary.
Advance(to) ==
    /\ cursor' = to
    /\ ledger' = Canon(chain, to)
    /\ roots' = IF to % Every = 0
                THEN [roots EXCEPT ![to] = Canon(chain, to)] ELSE roots
    /\ UNCHANGED chain

ReplayNext == \E to \in (cursor + 1)..LastBlock : Advance(to)

ReplaySpec == ReplayInit /\ [][ReplayNext]_replay

-----------------------------------------------------------------------------
(***************************************************************************)
(* With a ledger, a cursor and blocks that are never cut, this is the      *)
(* specification BatchReplay, whose other implementation is the router's   *)
(* with the operations of a batch.                                         *)
(***************************************************************************)
EveryBlock(ch) == Blocks

ByBlock == INSTANCE BatchReplay WITH
    Ends <- EveryBlock, After <- Canon,
    history <- chain, upto <- cursor, tables <- ledger

\* Cursor and ledger move together, and on only, from the replay of one prefix
\* of the chain to that of a longer one.
MovesByBlock == ByBlock!BatchSpec
=============================================================================
