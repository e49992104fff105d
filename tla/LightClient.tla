----------------------------- MODULE LightClient -----------------------------
(***************************************************************************)
(* The SDK's ownership check (verifyAssetOwnership): a client asks an      *)
(* indexer which operation made the owner the owner, fetches it from Hive  *)
(* and derives the owner itself; for a buy it replays the reservations of  *)
(* the listing.  One asset, one chain; the ledger's side is what the       *)
(* handlers in the indexer do with the same operations.                    *)
(*                                                                         *)
(* Whether a signing node is registered, heard from and below its cap the  *)
(* ledger knows and the client does not ask: here either may be (Market    *)
(* and NodeRegistry have the rest).  Nor does the client ask when a        *)
(* listing ends, or whether it still stood: `unseen` remembers where the   *)
(* ledger said no on such grounds.  What a purchase pays is in its         *)
(* transaction, and each looks for the price in it in its own way.         *)
(***************************************************************************)
EXTENDS PaymentSplit, Sequences

CONSTANTS
    Folk,           \* accounts
    BuyTxs,         \* transactions of buyers: [id, buyer, node]
    Prices,         \* prices to list for: [amount, currency]
    Lifetimes,      \* how many blocks a listing may stand
    SaleTerms,      \* what else is on the chain: [home, paid, beside].  home is the
                    \* collection, [royalty, royaltyTo, node, fees, twin], fees the
                    \* transfers beside its creation, and paid[tx] those in tx: sequences
                    \* of [memo, from, to, amount, currency].  beside[i], [first, twin],
                    \* is what the transaction of the i-th operation holds: its first
                    \* NFTLox operation if that is another one, [kind, signer, price,
                    \* here], and whether the same operation is in it twice
    Mirrors,        \* the client's endpoints, in order: a sequence
    CommitTtl,      \* BUY_COMMITMENT_TTL_BLOCKS
    LastHeight,     \* bound: blocks
    MaxTrail        \* bound: operations on the asset

ASSUME LightAssumption == {CommitTtl, LastHeight, MaxTrail} \cup Lifetimes \subseteq Nat \ {0}

ASSUME MirrorsAssumption == Mirrors \in Seq({Mirrors[m] : m \in DOMAIN Mirrors})

VARIABLES
    given,          \* one of SaleTerms; it never changes
    height,         \* the block being replayed
    trail,          \* the operations about the asset, in order
    title,          \* the ledger's row: [owner, previous, by]; `by` is a place in the trail
    onSale,         \* the place of the list operation in force, or 0
    hold,           \* the place of the commitment that reserves the asset, or 0
    settled,        \* places of the buys the ledger accepted
    unseen          \* history: places of lists, commitments and buys that the ledger
                    \* refused on grounds the client does not look at

lightVars == <<given, height, trail, title, onSale, hold, settled, unseen>>

Born == title.by # 0

LightInit ==
    /\ given \in SaleTerms /\ height = 1 /\ trail = <<>> /\ onSale = 0 /\ hold = 0 /\ settled = {}
    /\ unseen = {}
    /\ title = [owner |-> Nobody, previous |-> Nobody, by |-> 0]
-----------------------------------------------------------------------------
(* The ledger. *)

Here == Len(trail) + 1
Until(c) == trail[c].block + CommitTtl

Recorded(op) == Len(trail) < MaxTrail /\ trail' = Append(trail, op)

\* Refused, and the client will not know why.
RefusedIf(unknown) == unseen' = IF unknown THEN unseen \cup {Here} ELSE unseen

\* isListingExpired.
Over == onSale # 0 /\ height >= trail[onSale].ends

InForce(listing) == listing = onSale /\ ~Over

\* Not on sale, or nobody has it reserved and the listing is over.
Idle == hold = 0 /\ (onSale = 0 \/ Over)

Passes(to, by) ==
    /\ title' = [owner |-> to, previous |-> IF Born THEN title.owner ELSE Nobody, by |-> by]
    /\ onSale' = 0 /\ hold' = 0

\* The transfer that pays a leg.
Paying(from, leg, currency) ==
    [memo |-> leg.leg, from |-> from, to |-> leg.to, amount |-> leg.amount, currency |-> currency]

\* Where in a transaction it is found, as often as it is.
Paid(paid, from, leg, currency) == {i \in DOMAIN paid : paid[i] = Paying(from, leg, currency)}

\* What Hive serves of a transaction's transfers.
AreTransfers(paid) ==
    /\ paid \in Seq({paid[i] : i \in DOMAIN paid})
    /\ \A t \in {paid[i] : i \in DOMAIN paid} :
          t = Paying(t.from, Leg(t.memo, t.to, t.amount), t.currency)

ASSUME TermsAssumption ==
    \A terms \in SaleTerms :
        AreTransfers(terms.home.fees) /\ \A tx \in BuyTxs : AreTransfers(terms.paid[tx])

\* validateFixedFee: one transfer to the node under the collection's memo, and
\* that one of the right amount.
Founded(home) ==
    LET toNode == {i \in DOMAIN home.fees :
                      home.fees[i].memo = "collection" /\ home.fees[i].to = home.node}
    IN  /\ Cardinality(toNode) = 1
        /\ \A i \in toNode : home.fees[i].amount = CollectionFee /\ home.fees[i].currency = "HBD"

\* mint and bulk_distribute: to the named account, else to the signer; only in
\* a collection the ledger has accepted.
Originate(kind, signer, named) ==
    /\ ~Born /\ Founded(given.home)
    /\ Recorded([kind |-> kind, signer |-> signer, to |-> named, block |-> height])
    /\ Passes(IF named = Nobody THEN signer ELSE named, Here)
    /\ UNCHANGED <<height, settled, unseen>>

\* transfer and asset_transfer_from, refused while a commitment or a listing stands.
Convey(kind, signer, to) ==
    /\ Born /\ Idle /\ to # title.owner
    /\ kind = "transfer_from" \/ signer = title.owner
    /\ Recorded([kind |-> kind, signer |-> signer, from |-> title.owner, to |-> to,
                 block |-> height])
    /\ Passes(to, Here)
    /\ UNCHANGED <<height, settled, unseen>>

\* A list operation is on the chain whether or not the ledger accepts it, but a
\* trail begins with the asset.  What the owner's does to an asset that is reserved
\* while its listing is over, see Market: here nobody lists it then.
ListAsset(signer, price, life) ==
    LET stands == signer = title.owner /\ Idle
    IN  /\ Born /\ ~(signer = title.owner /\ hold # 0 /\ Over)
        /\ Recorded([kind |-> "list", signer |-> signer, price |-> price,
                     ends |-> height + life, block |-> height])
        /\ onSale' = IF stands THEN Here ELSE onSale
        /\ RefusedIf(~stands)
        /\ UNCHANGED <<height, title, hold, settled>>

UnlistAsset ==
    /\ onSale # 0 /\ hold = 0
    /\ Recorded([kind |-> "unlist", signer |-> title.owner, block |-> height])
    /\ onSale' = 0
    /\ UNCHANGED <<height, title, hold, settled, unseen>>

\* So is a node's commitment.  It may name any operation as the listing; `able`:
\* the node is registered, heard from and below its cap.
CommitTo(tx, listing, able) ==
    LET stands == able /\ InForce(listing) /\ tx.buyer # title.owner
    IN  /\ Recorded([kind |-> "commit", signer |-> tx.node, listing |-> listing, tx |-> tx,
                     block |-> height])
        /\ hold' = IF stands /\ hold = 0 THEN Here ELSE hold
        /\ RefusedIf(~stands /\ ~(hold # 0 /\ listing = onSale))
        /\ UNCHANGED <<height, title, onSale, settled>>

\* How the price of a listing is divided when the node sells.
LegsOf(listing, node) ==
    Split([price |-> trail[listing].price.amount, royalty |-> given.home.royalty,
           royaltyTo |-> given.home.royaltyTo, seller |-> trail[listing].signer], node)

\* verifyTransfers: the seller's leg is found whoever it is from, once; every
\* other leg comes from there, once.  Other transfers do not matter.
PaidFor(tx, listing) ==
    LET legs == LegsOf(listing, tx.node)
        currency == trail[listing].price.currency
        Seller == CHOOSE leg \in legs : leg.leg = "seller"
        paid == given.paid[tx]
        sold == {i \in DOMAIN paid : paid[i] = Paying(paid[i].from, Seller, currency)}
    IN  /\ Cardinality(sold) = 1
        /\ \A i \in sold : /\ paid[i].from = tx.buyer
                           /\ \A leg \in legs :
                                 Cardinality(Paid(paid, paid[i].from, leg, currency)) = 1

\* So is a buy, if somebody broadcasts it.
Purchase(tx, listing, able) ==
    LET stands == able /\ InForce(listing)
    IN  /\ \A i \in DOMAIN trail : trail[i].kind = "buy" => trail[i].tx # tx
        /\ Recorded([kind |-> "buy", signer |-> tx.node, listing |-> listing, tx |-> tx,
                     block |-> height])
        /\ IF stands /\ hold # 0 /\ trail[hold].tx = tx /\ PaidFor(tx, listing)
           THEN Passes(tx.buyer, Here) /\ settled' = settled \cup {Here}
           ELSE UNCHANGED <<title, onSale, hold, settled>>
        /\ RefusedIf(~stands)
        /\ UNCHANGED height

\* The sweep at the start of a block ends the reservations that are over.
NextHeight ==
    /\ height < LastHeight
    /\ height' = height + 1
    /\ hold' = IF hold # 0 /\ Until(hold) < height' THEN 0 ELSE hold
    /\ UNCHANGED <<trail, title, onSale, settled, unseen>>

LightNext ==
    /\ UNCHANGED given
    /\ \/ NextHeight \/ UnlistAsset
       \/ \E signer \in Folk, price \in Prices, life \in Lifetimes :
             ListAsset(signer, price, life)
       \/ \E kind \in {"mint", "distribute"}, s \in Folk, named \in Folk \cup {Nobody} :
             Originate(kind, s, named)
       \/ \E kind \in {"transfer", "batch_transfer", "transfer_from"}, s \in Folk, to \in Folk :
             Convey(kind, s, to)
       \/ \E tx \in BuyTxs, listing \in DOMAIN trail, able \in BOOLEAN :
             CommitTo(tx, listing, able) \/ Purchase(tx, listing, able)

LightSpec == LightInit /\ [][LightNext]_lightVars
-----------------------------------------------------------------------------
(* The client's fetches.  An endpoint shows some of what it is asked for, or *)
(* is down; it makes no records up, which the client would find out from     *)
(* what it derives of them.                                                  *)

\* The commitments in a buy's window.
InRange(b) ==
    {c \in DOMAIN trail : /\ trail[c].kind = "commit"
                          /\ trail[c].block \in (trail[b].block - CommitTtl)..trail[b].block}

Down == {-1}

\* To the requests about one operation: 0 stands for it, the transactions it
\* names and whatever else is in its window.
Answers(place) ==
    LET window == IF trail[place].kind = "buy" THEN InRange(place) ELSE {}
    IN  [DOMAIN Mirrors -> SUBSET (window \cup {0}) \cup {Down}]

\* One operation, one transaction: the first endpoint that has it.
Fetched(answers) == \E m \in DOMAIN Mirrors : 0 \in answers[m]

\* Mutant: an endpoint without records is believed.
FirstReply(answers) ==
    LET up == {m \in DOMAIN Mirrors : answers[m] # Down}
    IN  IF up = {} THEN Down ELSE answers[Min(up)]

\* A range: what the first endpoint with any records of it shows; nothing only if
\* every one says so.
RangeReply(answers) ==
    LET serving == {m \in DOMAIN Mirrors : answers[m] \notin {Down, {}}}
    IN  IF serving # {} THEN answers[Min(serving)]
        ELSE IF \A m \in DOMAIN Mirrors : answers[m] = {} THEN {} ELSE Down
-----------------------------------------------------------------------------
(* The client's own replay of the reservations. *)

\* Mutant: a reservation ends one block earlier than the ledger ends it.
LastsShort(c, block) == Until(c) > block

Lasts(c, block) == Until(c) >= block

\* A commitment for the listing, not before the window, among those it is shown.
Candidate(c, shown, listing, since) ==
    /\ c \in shown /\ trail[c].kind = "commit"
    /\ trail[c].listing = listing /\ trail[c].block >= since

\* Each takes the asset if the one before it no longer lasts; who has it after n
\* operations, where 0 is nobody.
HeldAfter(shown, listing, since, n) ==
    LET held[i \in 0..n] ==
            IF i = 0 THEN 0
            ELSE IF /\ Candidate(i, shown, listing, since)
                    /\ ~(held[i - 1] # 0 /\ Lasts(held[i - 1], trail[i].block))
            THEN i ELSE held[i - 1]
    IN  held[n]

\* Who has it when the buy comes, by the commitments in the buy's window.
Reserving(b, shown) == HeldAfter(shown, trail[b].listing, trail[b].block - CommitTtl, b - 1)

\* What the client takes for payments: everything under a memo of the sale.
Edges(tx) == {i \in DOMAIN given.paid[tx] : given.paid[tx][i].memo \in {"seller", "royalty", "fee"}}
ToSeller(tx) == {i \in Edges(tx) : given.paid[tx][i].memo = "seller"}

\* The first of them that is for a seller says who sells and who buys.
SellerEdge(tx) == given.paid[tx][Min(ToSeller(tx))]

OnePayer(tx) == Cardinality({given.paid[tx][i].from : i \in Edges(tx)}) = 1

\* Without payments, or without the seller's, there is an error instead of a verdict.
Readable(tx) == Edges(tx) # {} /\ (OnePayer(tx) => ToSeller(tx) # {})

CommitmentWon(b, shown) ==
    LET c == Reserving(b, shown)
        tx == trail[b].tx
    IN  /\ c # 0 /\ Lasts(c, trail[b].block)
        /\ trail[c].tx = tx /\ trail[c].tx.buyer = SellerEdge(tx).from

\* resolveBuyListingProof: the operation the buy names is the seller's list, and
\* no other in its transaction is the same.
ListingResolved(b) ==
    LET l == trail[trail[b].listing]
    IN  /\ l.kind = "list" /\ l.signer = SellerEdge(trail[b].tx).to
        /\ ~given.beside[trail[b].listing].twin

\* findCollectionFeeTransfer: one transfer of the whole fee to the node.
FeeFound(home) ==
    LET fee == Leg("collection", home.node, CollectionFee)
    IN  Cardinality({i \in DOMAIN home.fees :
            home.fees[i] = Paying(home.fees[i].from, fee, "HBD")}) = 1

\* resolveCollectionBuyRules: one creation, and its fee.
CollectionResolved(home) == ~home.twin /\ FeeFound(home)

\* assertBuyTransfersMatchListing: as many payments as legs, each leg once.
PaymentsMatch(b) ==
    LET tx == trail[b].tx
        legs == LegsOf(trail[b].listing, tx.node)
        paying(leg) == Edges(tx) \cap Paid(given.paid[tx], SellerEdge(tx).from, leg,
                                           trail[trail[b].listing].price.currency)
    IN  Cardinality(Edges(tx)) = Cardinality(legs) /\ \A leg \in legs : Cardinality(paying(leg)) = 1

\* Everything the client asks of a buy before the commitments.
SaleResolved(b) ==
    /\ OnePayer(trail[b].tx) /\ ListingResolved(b)
    /\ CollectionResolved(given.home) /\ PaymentsMatch(b)

\* And with them.
Convincing(b, shown) == Readable(trail[b].tx) /\ SaleResolved(b) /\ CommitmentWon(b, shown)
-----------------------------------------------------------------------------
(* The verdict on a proof: [owner, previous, by], for an expected owner. *)

\* Who owned the asset after the operation, and before.
DerivedOwner(op) ==
    CASE op.kind \in {"mint", "distribute"} -> IF op.to = Nobody THEN op.signer ELSE op.to
      [] op.kind \in {"transfer", "transfer_from"} -> op.to
      [] op.kind = "buy" -> SellerEdge(op.tx).from

DerivedPrevious(op) ==
    CASE op.kind \in {"mint", "distribute"} -> Nobody
      [] op.kind = "transfer" -> op.signer
      [] op.kind = "transfer_from" -> op.from
      [] op.kind = "buy" -> trail[op.listing].signer

\* deriveOwnershipProof: some operations are no proof.
Proves(proof, shown) ==
    LET op == trail[proof.by]
    IN  /\ op.kind \in {"mint", "distribute", "transfer", "transfer_from", "buy"}
        /\ op.kind = "buy" => Convincing(proof.by, shown)

\* The range is asked for once the rest of the sale is in order.
Verdict(proof, expected, answers) ==
    LET op == trail[proof.by]
        shown == RangeReply(answers)
    IN  IF \/ ~Fetched(answers)
           \/ op.kind = "buy" /\ (~Readable(op.tx) \/ (SaleResolved(proof.by) /\ shown = Down))
        THEN "error"
        ELSE IF /\ Proves(proof, shown)
                /\ DerivedOwner(op) = expected
                /\ DerivedOwner(op) = proof.owner
                /\ DerivedPrevious(op) = proof.previous
             THEN "verified" ELSE "mismatch"

\* parseNftloxOperation: of a transaction, the client reads the first.
Lone == [kind |-> "none"]
ReadFrom(place) ==
    IF given.beside[place].first = Lone THEN trail[place] ELSE given.beside[place].first

\* verifyListingPrice: are price and seller those of a list operation for the asset?
QuoteVerdict(place, price, seller, answers) ==
    LET op == ReadFrom(place)
    IN  IF ~Fetched(answers) THEN "error"
        ELSE IF /\ op.kind = "list" /\ price = op.price /\ seller = op.signer
                /\ given.beside[place].first = Lone \/ op.here
             THEN "verified" ELSE "mismatch"

\* verifyOperationOnChain: does the transaction hold that action, signed by them?
\* A batch is a transfer like any other there.
OperationVerdict(place, action, signer, answers) ==
    LET op == ReadFrom(place)
        does == IF op.kind = "batch_transfer" THEN "transfer" ELSE op.kind
    IN  IF ~Fetched(answers) THEN "error"
        ELSE IF does = action /\ op.signer = signer THEN "verified" ELSE "mismatch"
-----------------------------------------------------------------------------
(* Properties. *)

Buys == {i \in DOMAIN trail : trail[i].kind = "buy"}

\* A reservation that began before the buy's window reaches into it.
Shadowed(b) ==
    \E c \in 1..(b - 1) : /\ trail[c].kind = "commit" /\ trail[c].listing = trail[b].listing
                          /\ trail[c].block < trail[b].block - CommitTtl
                          /\ Until(c) >= trail[b].block - CommitTtl

\* Or a commitment in the window is one that the ledger refused unseen.
Misled(b) ==
    \/ Shadowed(b)
    \/ \E c \in unseen \cap 1..(b - 1) :
          /\ trail[c].kind = "commit" /\ trail[c].listing = trail[b].listing
          /\ trail[c].block >= trail[b].block - CommitTtl

\* No other transfer runs under a memo of the sale, which nodes see to before
\* they sign.
Bare(b) == Cardinality(Edges(trail[b].tx)) = Cardinality(LegsOf(trail[b].listing, trail[b].tx.node))

\* Nothing about a sale that the client would stumble over.
Clear(b) == /\ ~Misled(b) /\ Bare(b)
            /\ ~given.beside[trail[b].listing].twin /\ ~given.home.twin

\* The client replays the reservations and finds the payments as the ledger did,
\* whatever a buy pays to whom and whatever commitments of other nodes came before,
\* between and after: where no reservation reaches into the window from before it
\* and none of the window was refused on grounds the client does not see, a buy
\* that passes is settled, or was itself refused on such grounds (a node that was
\* not active, a listing over or no longer in force); and every settled buy that
\* carries nothing but the price passes.
BuysJudgedAlike ==
    \A b \in Buys : ~Misled(b) =>
        /\ Convincing(b, DOMAIN trail) => b \in settled \cup unseen
        /\ b \in settled /\ Clear(b) => Convincing(b, DOMAIN trail)

\* Of the commitments in a buy's window, the first endpoint that shows any of its
\* records hides none.
Served(answers, b) ==
    \E m \in DOMAIN Mirrors :
        /\ answers[m] \notin {Down, {}} /\ InRange(b) \subseteq answers[m]
        /\ \A k \in DOMAIN Mirrors : k < m => answers[k] \in {Down, {}}

\* An honest indexer's proof verifies as soon as one endpoint is well: endpoints
\* that are down, or serve nothing, never turn it into a mismatch, and one that
\* hides part of a buy's window does only if it comes before every one that shows
\* it whole.  The same goes for the price of a listing that is in force, and no
\* other price passes for it; and the ledger's row says who signed the operations
\* it rests on, the owner the list and the previous owner the transfer.  These two
\* checks are of operations that come first in their transaction.
HonestProofHolds ==
    LET Signed(place, action, who) ==
            given.beside[place].first = Lone =>
                \A answers \in Answers(place) :
                   OperationVerdict(place, action, who, answers) =
                      IF Fetched(answers) THEN "verified" ELSE "error"
    IN  /\ Born /\ trail[title.by].kind # "batch_transfer" /\ (title.by \in Buys => Clear(title.by))
           => \A answers \in Answers(title.by) : (title.by \in Buys => Served(answers, title.by)) =>
                 Verdict(title, title.owner, answers) =
                    IF Fetched(answers) THEN "verified" ELSE "error"
        /\ onSale # 0 /\ given.beside[onSale].first = Lone =>
              \A answers \in Answers(onSale), price \in Prices :
                 QuoteVerdict(onSale, price, title.owner, answers) =
                    IF ~Fetched(answers) THEN "error"
                    ELSE IF price = trail[onSale].price THEN "verified" ELSE "mismatch"
        /\ onSale # 0 => Signed(onSale, "list", title.owner)
        /\ Born /\ trail[title.by].kind \in {"transfer", "batch_transfer"}
           => Signed(title.by, "transfer", title.previous)

\* "verifyAssetOwnership: The indexer's current-owner claim matches the referenced
\* on-chain ownership operation" (guides/spv.md): for a buy, the answer is yes
\* when the ledger's owner bought the asset with that operation.
HonestBuyVerifies == Born /\ title.by \in Buys => CommitmentWon(title.by, DOMAIN trail)
-----------------------------------------------------------------------------
(***************************************************************************)
(* The ledger's side of this module keeps what Custody promises, as the    *)
(* whole ledger does (Market).                                             *)
(***************************************************************************)
Listings == Cardinality({i \in DOMAIN trail : trail[i].kind = "list"} \ unseen)

HeldBy ==
    IF onSale = 0 THEN [kind |-> "free"]
    ELSE IF hold = 0 THEN [kind |-> "offer", id |-> Listings, ends |-> trail[onSale].ends]
    ELSE [kind |-> "promise", id |-> Listings, ends |-> trail[onSale].ends,
          buyer |-> trail[hold].tx.buyer, until |-> Until(hold)]

Keeping == INSTANCE Custody WITH
    Assets <- {"asset"}, Accounts <- Folk \cup {tx.buyer : tx \in BuyTxs} \cup {Nobody},
    Terms <- Lifetimes, Patience <- CommitTtl,
    LastBlock <- LastHeight, block <- height, owner <- [a \in {"asset"} |-> title.owner],
    hold <- [a \in {"asset"} |-> HeldBy], offers <- Listings

\* What the client's verdicts are compared with is a ledger that keeps its
\* promises: no purchase it settles takes the asset from anybody else it was
\* promised to, and no promise ends but by being kept or by running out.
TrailKeepsCustody == Keeping!CustodySpec
=============================================================================
