------------------------------- MODULE Admission -------------------------------
(***************************************************************************)
(* How an operation comes to count.  A create_collection or a buy is first *)
(* submitted to a settlement node, which signs it or not                   *)
(* (api/services/multisig); any other operation its user broadcasts.  Once *)
(* it is on the chain every node replays it, each at a time of its own:    *)
(* the parser hears it, the accounts it names are looked up, and its       *)
(* handler reads the payload again.  The node's checks and the handlers'   *)
(* are two programs that must agree, since what a node signs and a handler *)
(* rejects has already been paid for.  A third program reads the same      *)
(* operations: the SDK's light client, which must be able to read whatever *)
(* the handlers accepted.                                                  *)
(*                                                                         *)
(* A payload is a function from the fields the checks read to the class of *)
(* the value found there: "good", or "other" (well formed, but naming      *)
(* something else), "odd" (ill formed), "empty", "long", "wrong" (of       *)
(* another type), "null", "absent", or a class of the field's own.  The    *)
(* ledger is as it was when the node signed; BuySettlement and             *)
(* CollectionSigning model what may change meanwhile.                      *)
(***************************************************************************)
EXTENDS Integers, FiniteSets, FiniteSetsExt

CONSTANTS
    Replicas,      \* the nodes that replay the chain
    Submissions,   \* the operations that are tried
    SettledAfter,  \* how old an operation is before a node replays it
    RpcLag,        \* how far an account endpoint may be behind
    LastTick       \* bound on time

\* Replay takes irreversible blocks only, and an endpoint that answers is no
\* further behind than that.
ASSUME EndpointKeepsUp ==
    /\ SettledAfter \in Nat /\ RpcLag \in 0..SettledAfter
    /\ LastTick \in Nat /\ SettledAfter < LastTick

\* Weights and thresholds are unsigned; a node fetches accounts that exist.
ASSUME AuthoritiesTyped ==
    \A op \in Submissions : op.action = "buy" =>
        LET graph == op.fields.authority
        IN  /\ IsFiniteSet(DOMAIN graph) /\ "buyer" \in DOMAIN graph
            /\ op.fields.fetched \subseteq DOMAIN graph
            /\ \A a \in DOMAIN graph : /\ graph[a].key \in Nat /\ graph[a].threshold \in Nat
                                       /\ graph[a].trusts \in [DOMAIN graph -> Nat]

VARIABLES
    submitted,   \* the operation: its action and its fields
    step,       \* how far it has come
    tick,        \* the time
    landed,      \* when it entered the chain
    born,        \* when the account it may name was created, or Never
    verdict      \* what each node made of it

admissionVars == <<submitted, step, tick, landed, born, verdict>>

Never == LastTick + 1
-----------------------------------------------------------------------------
(* What a node checks before it signs. *)

IsText(v) == v \notin {"wrong", "null", "absent"}
Bounded(v) == IsText(v) /\ v # "long"
\* Mutant: the loose check where the handler wants a non-empty string.
LooseBounded(v) == Bounded(v)
NonEmptyBounded(v) == Bounded(v) /\ v # "empty"
ExactLength(v) == v \in {"good", "other"}
Shaped(v) == v \in {"good", "other"}

\* The envelope: header, operations, expiration, signatures and extensions,
HeaderSound(f) == f.shape = "good" /\ f.auths = "active"

\* the custom_json and its payload.
PayloadSound(f) ==
    /\ f.customId = "good" /\ f.json = "good"
    /\ f.protocol = "good" /\ f.version \in {"good", "newer"} /\ f.body = "good"

EnvelopeSound(f) == HeaderSound(f) /\ PayloadSound(f)

FeeSound(f) == f.payer = "good" /\ f.feeTo = "node" /\ f.fee = "exact" /\ f.memo = "good"

MetadataSound(f) ==
    /\ f.metadata = "good"
    /\ NonEmptyBounded(f.description)
    /\ f.image = "absent"
    /\ f.externalUrl \notin {"absent", "null"} => Bounded(f.externalUrl)

RulesSound(f) ==
    /\ f.rules = "good"
    /\ f.transferable = "good" /\ f.burnable = "good"
    /\ f.royaltyPct \in {"zero", "some"}
    /\ f.royaltyPct = "some" => f.royaltyRecipient \notin {"absent", "null", "empty"}
    /\ f.royaltyRecipient \in {"absent", "null", "empty", "good"}

SupplySound(f) ==
    /\ f.totalPotential \in {"zero", "some"}
    /\ f.maxInstances \in {"zero", "multiple"}
    /\ f.schema \in {"absent", "null", "good"}

CollectionSignable(f) ==
    /\ FeeSound(f)
    /\ Shaped(f.id) /\ NonEmptyBounded(f.name) /\ Shaped(f.symbol)
    /\ f.id = "good" /\ ExactLength(f.originDna) /\ f.originDna = "good"
    /\ MetadataSound(f) /\ RulesSound(f) /\ SupplySound(f)

\* HIVE_MAX_SIG_CHECK_DEPTH, MAX_AUTHORITY_DEPTH: how long a chain of accounts
\* may be that sign for one another.
AuthorityDepth == 2

\* An authority graph: for each account the weight it needs, the weight of the
\* key that signed, and the weight of each account it trusts.  The node adds up
\* what the accounts it can fetch contribute, visiting none twice on one path.
\* Mutant: an account that is trusted at all is worth the whole threshold.
TrustsBlindly(graph, fetched) ==
    graph["buyer"].key >= graph["buyer"].threshold \/ \E a \in fetched : graph["buyer"].trusts[a] > 0

\* What a number of accounts that can sign add to one that trusts them.
Trusted(graph, a, able) == MapThenSumSet(LAMBDA b : graph[a].trusts[b], able)

SignatureSuffices(graph, fetched) ==
    LET weight[d \in 0..AuthorityDepth] ==
            [a \in DOMAIN graph |-> [visited \in SUBSET DOMAIN graph |->
                graph[a].key + IF d = 0 THEN 0 ELSE
                    Trusted(graph, a, {b \in fetched \ visited :
                                          weight[d - 1][b][visited \cup {b}] >= graph[b].threshold})]]
    IN  weight[AuthorityDepth]["buyer"][{"buyer"}] >= graph["buyer"].threshold

\* Hive's own rule.
HiveAuthorizes(graph) ==
    LET weight[d \in 0..AuthorityDepth] ==
            [a \in DOMAIN graph |-> graph[a].key + IF d = 0 THEN 0 ELSE
                Trusted(graph, a, {b \in DOMAIN graph : weight[d - 1][b] >= graph[b].threshold})]
    IN  weight[AuthorityDepth]["buyer"] >= graph["buyer"].threshold

\* Without an answer about the buyer's balance, or one that cannot be read, the
\* node does not sign.
BalanceHeard(f) == f.balance # "unheard"

\* The transfers that leave the buyer, against the liquid balance, per currency.
Solvent(f) == BalanceHeard(f) /\ f.balance # "short"

\* "other" is shaped, and not what the ledger says of the listing.
BuySignable(f) ==
    /\ f.payer = "good" /\ f.legs = "good"
    /\ SignatureSuffices(f.authority, f.fetched) /\ Solvent(f)
    /\ \A name \in {"assetId", "listingId", "listTxId"} : Shaped(f[name]) /\ f[name] = "good"

NodeSigned == {"create_collection", "buy"}

Signable(op) ==
    /\ EnvelopeSound(op.fields)
    /\ op.action = "create_collection" => CollectionSignable(op.fields)
    /\ op.action = "buy" => BuySignable(op.fields)
-----------------------------------------------------------------------------
(* What a replaying node makes of an operation: first the parser, *)

Unheard(f) ==
    \/ f.customId # "good" \/ f.json = "odd"
    \/ f.protocol # "good" \/ f.version \notin {"good", "newer"}

Garbled(f) == f.body # "good" \/ f.auths \notin {"active", "posting"}

AuthLevel == [action \in {"create_collection", "buy", "transfer", "asset_transfer_from",
                          "asset_lend", "mint", "bulk_distribute"} |->
                IF action \in {"mint", "bulk_distribute"} THEN "posting" ELSE "active"]

(* then the account it names, *)

\* Transfers to oneself are refused here; a burn is an owner's right only.
Target(op) ==
    LET t == IF op.action \in NodeSigned THEN "absent" ELSE op.fields.target
        mayBeAbsent == op.action \in NodeSigned \cup {"mint", "bulk_distribute"}
    IN CASE t = "absent" -> IF mayBeAbsent THEN "nobody" ELSE "refused"
         [] t \in {"wrong", "odd"} -> "refused"
         [] t = "burn" -> IF op.action = "asset_transfer_from" THEN "refused" ELSE "nobody"
         [] t = "signer" -> IF op.action = "transfer" THEN "refused" ELSE "nobody"
         [] t = "someone" -> "lookup"

\* Mutant: any account the endpoint knows of will do.
KnownNow(seen, at) == seen # Never
CreatedBefore(seen, at) == seen < at

AccountAccepted(op, seen) ==
    \/ Target(op) = "nobody"
    \/ Target(op) = "lookup" /\ CreatedBefore(seen, landed)

(* and then the handler. *)

RequireString(v) == IsText(v) /\ v # "empty"
RequireBounded(v) == RequireString(v) /\ v # "long"
RequireShaped(v) == RequireString(v) /\ v \in {"good", "other"}
RequireExactLength(v) == RequireString(v) /\ v \in {"good", "other"}
OptionalBounded(v) == v # "long"
OptionalUsername(v) == v \in {"absent", "null", "empty", "good"}
GivenUsername(v) == v = "good"

FeeMatches(f) == f.feeTo = "node" /\ f.memo = "good" /\ f.fee = "exact"

MetadataAccepted(f) ==
    /\ f.metadata = "good" /\ RequireBounded(f.description) /\ f.image = "absent"
    /\ OptionalBounded(f.externalUrl)

RulesAccepted(f) ==
    /\ f.rules = "good" /\ f.transferable = "good" /\ f.burnable = "good"
    /\ f.royaltyPct \in {"zero", "some"} /\ OptionalUsername(f.royaltyRecipient)
    /\ f.royaltyPct = "some" => GivenUsername(f.royaltyRecipient)

SupplyAccepted(f) ==
    /\ f.totalPotential \in {"zero", "some"} /\ f.maxInstances \in {"zero", "multiple"}
    /\ f.schema \in {"absent", "null", "good"}

CollectionAccepted(f) ==
    /\ FeeMatches(f) /\ GivenUsername(f.payer)
    /\ RequireShaped(f.id) /\ RequireBounded(f.name) /\ RequireShaped(f.symbol)
    /\ f.id = "good" /\ RequireExactLength(f.originDna) /\ f.originDna = "good"
    /\ MetadataAccepted(f) /\ RulesAccepted(f) /\ SupplyAccepted(f)

NamesListing(f) ==
    \A name \in {"assetId", "listingId", "listTxId"} : RequireShaped(f[name]) /\ f[name] = "good"

\* The node's commitment, and then the buy it commits to, name the listing.
CommitmentAccepted(f) == NamesListing(f) /\ GivenUsername(f.payer)
BuyAccepted(f) == CommitmentAccepted(f) /\ f.legs = "good"

\* One asset or an array of at most MAX_TRANSFER_BATCH_SIZE; whose it is says the signer.
TransferAccepted(f) == f.from = "absent" /\ f.ids \in {"one", "array of one", "array"}

HandlerAccepts(op) ==
    /\ op.action = "transfer" => TransferAccepted(op.fields)
    /\ op.action = "create_collection" => CollectionAccepted(op.fields)
    /\ op.action = "buy" => BuyAccepted(op.fields)

Judged(op, seen) ==
    IF Unheard(op.fields) THEN "ignored"
    ELSE IF /\ ~Garbled(op.fields)
            /\ op.fields.auths = AuthLevel[op.action]
            /\ AccountAccepted(op, seen)
            /\ HandlerAccepts(op)
         THEN "applied"
         ELSE "rejected"
-----------------------------------------------------------------------------
(* What the light client can read: an operation that made somebody owner, *)

\* resolveOperationById, down to the authority the action needs.
ClientHears(op) ==
    LET f == op.fields
    IN  /\ f.customId = "good" /\ f.json # "odd" /\ f.protocol = "good"
        /\ f.version \in {"good", "newer"} /\ f.body = "good"
        /\ f.auths = AuthLevel[op.action]

\* requireAssetIdInTransferPayload: an array of several proves nothing.
ClientReadsTransfer(f) == f.from = "absent" /\ f.ids \in {"one", "array of one"}

(* and the creation of a collection, found among the operations of its transaction. *)

\* parseAllNftloxOperations: any signer, any version.
Listed(f) ==
    /\ f.customId = "good" /\ f.json # "odd"
    /\ f.protocol \notin {"absent", "empty"} /\ f.version \notin {"absent", "empty"}
    /\ f.body = "good" /\ f.auths # "none"

RequiredText(v) == IsText(v) /\ v # "empty"
OptionalText(v) == v \in {"absent", "null"} \/ RequiredText(v)

ClientReadsCollection(f) ==
    /\ Listed(f) /\ f.id = "good"
    /\ RequiredText(f.name) /\ RequiredText(f.symbol)
    /\ f.maxInstances \notin {"under", "fraction", "wrong"}
    /\ f.rules = "good" /\ f.transferable = "good"
    /\ f.royaltyPct \in {"zero", "some"} /\ OptionalText(f.royaltyRecipient)
    /\ f.royaltyPct = "some" => RequiredText(f.royaltyRecipient)
    /\ f.feeTo = "node" /\ f.memo = "good" /\ f.fee = "exact"

ClientReads(op) ==
    IF op.action = "create_collection" THEN ClientReadsCollection(op.fields)
    ELSE ClientHears(op) /\ (op.action = "transfer" => ClientReadsTransfer(op.fields))
-----------------------------------------------------------------------------
AdmissionInit ==
    /\ submitted \in Submissions
    /\ step = "asked"
    /\ tick = 1 /\ landed = 0
    /\ born = Never
    /\ verdict = [r \in Replicas |-> "none"]

\* The node signs what passes all of its checks, and refuses the rest.
NodeSigns ==
    /\ step = "asked" /\ submitted.action \in NodeSigned
    /\ step' = IF Signable(submitted) THEN "sent" ELSE "refused"
    /\ UNCHANGED <<submitted, tick, landed, born, verdict>>

\* What needs no node's signature its user broadcasts, whatever it says.
UserSends ==
    /\ step = "asked" /\ submitted.action \notin NodeSigned
    /\ step' = "sent"
    /\ UNCHANGED <<submitted, tick, landed, born, verdict>>

\* Hive includes a purchase its buyer has signed and can pay.
Includable(op) ==
    op.action = "buy" => HiveAuthorizes(op.fields.authority) /\ op.fields.balance # "short"

Land ==
    /\ step = "sent" /\ Includable(submitted)
    /\ step' = "landed" /\ landed' = tick
    /\ UNCHANGED <<submitted, tick, born, verdict>>

\* The account is created, before the operation or after it or never.
CreateAccount ==
    /\ born = Never /\ born' = tick
    /\ UNCHANGED <<submitted, step, tick, landed, verdict>>

Pass ==
    /\ tick < LastTick /\ tick' = tick + 1
    /\ UNCHANGED <<submitted, step, landed, born, verdict>>

\* A node comes to the operation.  An endpoint it asks is up to RpcLag behind;
\* with none answering the batch is abandoned and tried again.
ReplayOn(r) ==
    /\ step = "landed" /\ verdict[r] = "none"
    /\ tick >= landed + SettledAfter
    /\ \E view \in (tick - RpcLag)..tick :
          LET seen == IF born <= view THEN born ELSE Never
          IN verdict' = [verdict EXCEPT ![r] = Judged(submitted, seen)]
    /\ UNCHANGED <<submitted, step, tick, landed, born>>

AdmissionNext ==
    \/ NodeSigns \/ UserSends \/ Land \/ CreateAccount \/ Pass
    \/ \E r \in Replicas : ReplayOn(r)

AdmissionSpec == AdmissionInit /\ [][AdmissionNext]_admissionVars
-----------------------------------------------------------------------------
\* What a node signs Hive includes and the handlers accept: the sets of checks,
\* written apart, agree on every field, so nothing is reserved for a purchase
\* that cannot follow and no fee is paid for an operation the chain's readers
\* then reject (api/services/multisig/transaction.ts:288-294).  What the handlers
\* accept the light client can read, but for two things it does not: a transfer
\* of several assets, and a collection whose royalty goes to "" (no one).
SignedIsAccepted ==
    /\ step = "sent" /\ submitted.action \in NodeSigned => Includable(submitted)
    /\ \A r \in Replicas :
        /\ submitted.action \in NodeSigned => verdict[r] \in {"none", "applied"}
        /\ verdict[r] = "applied" =>
            \/ ClientReads(submitted)
            \/ submitted.action = "transfer" /\ submitted.fields.ids = "array"
            \/ submitted.action = "create_collection" /\ submitted.fields.royaltyRecipient = "empty"

\* Every node reaches the same verdict, however late it replays and however far
\* behind its account endpoint is: an account created since is still too young.
SameVerdictWhenever ==
    \A r, s \in Replicas : verdict[r] # "none" /\ verdict[s] # "none" => verdict[r] = verdict[s]
=============================================================================
