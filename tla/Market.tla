------------------------------- MODULE Market -------------------------------
(***************************************************************************)
(* The asset ledger one indexer projects from the chain: who owns each     *)
(* asset, under which status, with its listing, the buy_commitment that    *)
(* reserves it, its loan, its single-asset allowance and the collection-   *)
(* wide approvals.  One action per protocol operation; an operation a      *)
(* handler rejects leaves the ledger as it was (the savepoint is rolled    *)
(* back), so rejections are stuttering steps.                              *)
(*                                                                         *)
(* Assets are minted and distributed elsewhere; here they start in the     *)
(* hands of arbitrary owners.  Times are block numbers: a listing's        *)
(* expires_at is the first block whose timestamp has reached it.           *)
(***************************************************************************)
EXTENDS NodeRegistry, Integers, FiniteSets

CONSTANTS
    Accounts,       \* Hive accounts that own, buy, lend and borrow
    Spenders,       \* bound: accounts that approvals are given to
    Borrowers,      \* bound: accounts that assets are lent to
    Assets,         \* ids of minted assets
    Seeds,          \* the assets with asset_type 'seed'
    Issued,         \* seeds with distributed > 0
    Collections,
    CollectionOf,   \* CollectionOf[a]: assets.collection_id, immutable
    Transferable,   \* collections with transferable = TRUE
    Burnable,       \* collections with burnable = TRUE
    ListingTTL,     \* accepted listing durations, in blocks
    CommitTTL,      \* BUY_COMMITMENT_TTL_BLOCKS
    NodeCap,        \* MAX_ACTIVE_COMMITMENTS_PER_NODE
    MaxListings,    \* bound: how many list operations succeed
    Null            \* SQL NULL

ListingIds == 1..MaxListings
Listing == [id : ListingIds, expires : Nat]

\* A buy transaction is known by the digest of its bytes, so its hash stands
\* for its content: the asset and listing it pays for, the payer, the signer.
BuyTx == [asset : Assets, listing : ListingIds, buyer : Accounts, node : Nodes]

Sale == [buyer : Accounts, node : Nodes, expires : Nat, tx : BuyTx]
Loan == [lender : Accounts, borrower : Accounts]
Allowance == [owner : Accounts, spender : Accounts]
Approval == [owner : Accounts, spender : Accounts, coll : Collections]
Status == {"active", "listed", "pending_sale", "lent", "burned"}

ASSUME MarketAssumption ==
    /\ IsFiniteSet(Assets)
    /\ Spenders \subseteq Accounts /\ Borrowers \subseteq Accounts
    /\ Issued \subseteq Seeds /\ Seeds \subseteq Assets
    /\ CollectionOf \in [Assets -> Collections]
    /\ Transferable \subseteq Collections /\ Burnable \subseteq Collections
    /\ ListingTTL \subseteq Nat \ {0}
    /\ CommitTTL \in Nat /\ NodeCap \in Nat /\ MaxListings \in Nat
    /\ Null \notin Listing \cup Sale \cup Loan \cup Allowance

VARIABLES
    owner, status,  \* columns of the assets row; 'burned' = row deleted
    listing,        \* listing_* columns, or Null
    sale,           \* sale_* columns, or Null
    loan,           \* asset_loans row, or Null
    allowance,      \* asset_allowances row, or Null
    approvals,      \* collection_allowances rows
    listed,         \* collection_stats.listed
    listings,       \* number of list operations that succeeded
    wedged          \* an operation ended in a non-protocol error

ledger == <<owner, status, listing, sale, loan, allowance, approvals, listed>>
vars == <<block, node, owner, status, listing, sale, loan, allowance,
          approvals, listed, listings, wedged>>

-----------------------------------------------------------------------------
Exists(a) == status[a] # "burned"
Holds(u, c) == \E a \in Assets :
    owner[a] = u /\ status[a] # "burned" /\ CollectionOf[a] = c
Movable(a) == CollectionOf[a] \in Transferable

\* Mutant: a listing still stands in the block in which it expires.
ExpiredTooLate(a) == listing[a] # Null /\ block > listing[a].expires

\* isListingExpired at the current block.
Expired(a) == listing[a] # Null /\ block >= listing[a].expires

\* Mutant: 'lent' is not refused.
ChangeableThoughLent(a) ==
    /\ status[a] \in {"active", "lent"}
    /\ a \notin Issued

\* assertOwnershipChangeable together with assertNotPendingSale: an asset
\* changes hands when it is unencumbered, or when its listing has run out.
\* (No handler writes reserved_supply: assertSeedNotReserved always passes.)
OwnershipChangeable(a) ==
    /\ status[a] = "active" \/ (status[a] = "listed" /\ Expired(a))
    /\ a \notin Issued

\* Mutant: a reservation in its last block no longer counts.
OpenSalesButLastBlock(n) ==
    {a \in Assets : status[a] = "pending_sale"
                        /\ sale[a].node = n /\ sale[a].expires > block}

\* Open reservations that count against a node's cap.
OpenSales(n) ==
    {a \in Assets : status[a] = "pending_sale"
                        /\ sale[a].node = n /\ sale[a].expires >= block}

\* Mutant: the reservation cannot be settled in its last block.
InTimeButLastBlock(a) == block < sale[a].expires

\* The reservation has not run out.
InTime(a) == block <= sale[a].expires

\* Mutant: the sweep comes one block late.
OverdueLate(a, b) == status[a] = "pending_sale" /\ sale[a].expires + 1 < b

\* The reservation is swept before block b.
Overdue(a, b) == status[a] = "pending_sale" /\ sale[a].expires < b

InCollection(S, c) == {a \in S : CollectionOf[a] = c}

\* Mutant: a reserved asset is not counted as listed when it is sold.
StillListedUnreserved(S, c) ==
    {a \in InCollection(S, c) : status[a] = "listed"}

\* Assets of S whose move takes a listing off the market.
StillListed(S, c) ==
    {a \in InCollection(S, c) : status[a] \in {"listed", "pending_sale"}}

\* Mutant: the grants of the previous owner stay behind.
KeepAllowances(S) == allowance

\* deleteAssetAllowance, or ON DELETE CASCADE, for every asset of S.
WithoutAllowances(S) ==
    [a \in Assets |-> IF a \in S THEN Null ELSE allowance[a]]

\* updateAssetOwner and deleteAssetAllowance for every asset of S, with the
\* listed counter lowered by those that still carried a listing.
MoveTo(S, u) ==
    /\ owner' = [a \in Assets |-> IF a \in S THEN u ELSE owner[a]]
    /\ status' = [a \in Assets |-> IF a \in S THEN "active" ELSE status[a]]
    /\ listing' = [a \in Assets |-> IF a \in S THEN Null ELSE listing[a]]
    /\ sale' = [a \in Assets |-> IF a \in S THEN Null ELSE sale[a]]
    /\ allowance' = WithoutAllowances(S)
    /\ listed' = [c \in Collections |->
                    listed[c] - Cardinality(StillListed(S, c))]

\* Mutant: the cleanup runs before the assets have moved.
DropApprovalsTooEarly(u, S) ==
    approvals' = {p \in approvals :
        p.owner # u \/ InCollection(S, p.coll) = {} \/ Holds(u, p.coll)}

\* cleanupCollectionAllowancesIfEmpty for the collections of S: u keeps an
\* approval only while u still holds something in that collection.
DropEmptyApprovals(u, S) ==
    approvals' = {p \in approvals :
        \/ p.owner # u
        \/ InCollection(S, p.coll) = {}
        \/ Holds(p.owner, p.coll)'}

-----------------------------------------------------------------------------
Init ==
    /\ RegistryInit
    /\ owner \in [Assets -> Accounts]
    /\ status = [a \in Assets |-> "active"]
    /\ listing = [a \in Assets |-> Null]
    /\ sale = [a \in Assets |-> Null]
    /\ loan = [a \in Assets |-> Null]
    /\ allowance = [a \in Assets |-> Null]
    /\ approvals = {}
    /\ listed = [c \in Collections |-> 0]
    /\ listings = 0
    /\ wedged = FALSE

\* Mutant: a seed is not told from an instance.
ListAcceptedForSeed(u, a) ==
    /\ Exists(a) /\ status[a] # "lent"
    /\ Movable(a)
    /\ status[a] = "listed" => Expired(a)
    /\ owner[a] = u

\* The guards of handleList.  A reserved asset passes them: only 'lent' and
\* an unexpired 'listed' are refused.
ListAccepted(u, a) ==
    /\ Exists(a) /\ status[a] # "lent" /\ a \notin Seeds
    /\ Movable(a)
    /\ status[a] = "listed" => Expired(a)
    /\ owner[a] = u

\* list, when the row carries no reservation.
List(u, a, ttl) ==
    /\ ListAccepted(u, a)
    /\ sale[a] = Null
    /\ listings < MaxListings
    /\ listings' = listings + 1
    /\ status' = [status EXCEPT ![a] = "listed"]
    /\ listing' = [listing EXCEPT
            ![a] = [id |-> listings + 1, expires |-> block + ttl]]
    /\ allowance' = WithoutAllowances({a})
    /\ listed' = IF status[a] = "listed"
                 THEN listed
                 ELSE [listed EXCEPT ![CollectionOf[a]] = @ + 1]
    /\ UNCHANGED <<registryVars, owner, sale, loan, approvals, wedged>>

\* list, when the row is reserved: the UPDATE sets status 'listed' and leaves
\* sale_* populated, chk_assets_pending_sale_coherent raises, and an error
\* that is no protocol rejection aborts the batch on every attempt.
ListReserved(u, a) ==
    /\ ListAccepted(u, a)
    /\ sale[a] # Null
    /\ wedged' = TRUE
    /\ UNCHANGED <<registryVars, ledger, listings>>

Unlist(u, a) ==
    /\ status[a] = "listed"
    /\ owner[a] = u
    /\ status' = [status EXCEPT ![a] = "active"]
    /\ listing' = [listing EXCEPT ![a] = Null]
    /\ listed' = [listed EXCEPT ![CollectionOf[a]] = @ - 1]
    /\ UNCHANGED <<registryVars, owner, sale, loan, allowance, approvals,
                   listings, wedged>>

\* buy_commitment signed by node n: reserves the asset for buyer b and binds
\* the reservation to one buy transaction.  The chain only sees a hash, so
\* nothing ties buyer, listing and signer of that transaction to the
\* operation's own; a hash of another asset's transaction is as unusable as
\* one with a stale listing and is not tried separately.
BuyCommitment(n, a, b, tx) ==
    /\ Active(n)
    /\ status[a] = "listed"
    /\ ~Expired(a)
    /\ owner[a] # b
    /\ Cardinality(OpenSales(n)) < NodeCap
    /\ status' = [status EXCEPT ![a] = "pending_sale"]
    /\ sale' = [sale EXCEPT ![a] =
            [buyer |-> b, node |-> n, expires |-> block + CommitTTL, tx |-> tx]]
    /\ UNCHANGED <<registryVars, owner, listing, loan, allowance, approvals,
                   listed, listings, wedged>>

\* The guards of handleBuy, for the transaction tx whose transfers pay for its
\* own asset and listing.
BuyAccepted(tx) ==
    LET a == tx.asset IN
    /\ Active(tx.node)
    /\ a \notin Seeds
    /\ status[a] = "pending_sale"
    /\ sale[a].tx = tx
    /\ sale[a].node = tx.node
    /\ InTime(a)
    /\ listing[a].id = tx.listing
    /\ ~Expired(a)
    /\ Movable(a)
    /\ owner[a] # tx.buyer
    /\ sale[a].buyer = tx.buyer

\* buy: the asset goes to whom it was reserved for.
Buy(tx) ==
    /\ BuyAccepted(tx)
    /\ MoveTo({tx.asset}, tx.buyer)
    /\ DropEmptyApprovals(owner[tx.asset], {tx.asset})
    /\ UNCHANGED <<registryVars, loan, listings, wedged>>

\* transfer of a batch: all of S moves or the savepoint is rolled back.
Transfer(u, to, S) ==
    /\ to # u
    /\ \A a \in S : OwnershipChangeable(a) /\ owner[a] = u /\ Movable(a)
    /\ MoveTo(S, to)
    /\ DropEmptyApprovals(u, S)
    /\ UNCHANGED <<registryVars, loan, listings, wedged>>

\* transfer to the burn account: the rows are deleted, and their allowances
\* with them (ON DELETE CASCADE).
Burn(u, S) ==
    /\ \A a \in S :
        /\ status[a] = "active"
        /\ a \notin Issued
        /\ owner[a] = u
        /\ CollectionOf[a] \in Burnable
    /\ status' = [a \in Assets |-> IF a \in S THEN "burned" ELSE status[a]]
    /\ allowance' = WithoutAllowances(S)
    /\ UNCHANGED owner
    /\ DropEmptyApprovals(u, S)
    /\ UNCHANGED <<registryVars, listing, sale, loan, listed, listings, wedged>>

\* asset_transfer_from signed by spender s: takes a from f and gives it to t.
TransferFrom(s, f, t, a) ==
    /\ f # t
    /\ OwnershipChangeable(a)
    /\ a \notin Seeds
    /\ owner[a] = f
    /\ Movable(a)
    /\ \/ allowance[a] # Null /\ allowance[a].spender = s
       \/ [owner |-> f, spender |-> s, coll |-> CollectionOf[a]] \in approvals
    /\ MoveTo({a}, t)
    /\ DropEmptyApprovals(f, {a})
    /\ UNCHANGED <<registryVars, loan, listings, wedged>>

\* asset_approve, granting or (row = Null) revoking the single allowance.
Approve(u, a, row) ==
    /\ status[a] = "active"
    /\ a \notin Seeds
    /\ owner[a] = u
    /\ allowance' = [allowance EXCEPT ![a] = row]
    /\ UNCHANGED <<registryVars, owner, status, listing, sale, loan, approvals,
                   listed, listings, wedged>>

\* asset_approve_all with approved = TRUE.
ApproveAll(u, s, c) ==
    /\ s # u
    /\ Holds(u, c)
    /\ approvals' = approvals \cup {[owner |-> u, spender |-> s, coll |-> c]}
    /\ UNCHANGED <<registryVars, owner, status, listing, sale, loan, allowance,
                   listed, listings, wedged>>

\* asset_approve_all with approved = FALSE.
RevokeAll(u, s, c) ==
    /\ approvals' = approvals \ {[owner |-> u, spender |-> s, coll |-> c]}
    /\ UNCHANGED <<registryVars, owner, status, listing, sale, loan, allowance,
                   listed, listings, wedged>>

Lend(u, b, a) ==
    /\ b # u
    /\ status[a] = "active"
    /\ a \notin Seeds
    /\ owner[a] = u
    /\ Movable(a)
    /\ loan[a] = Null
    /\ status' = [status EXCEPT ![a] = "lent"]
    /\ loan' = [loan EXCEPT ![a] = [lender |-> u, borrower |-> b]]
    /\ allowance' = WithoutAllowances({a})
    /\ UNCHANGED <<registryVars, owner, listing, sale, approvals, listed,
                   listings, wedged>>

\* asset_return, by the lender or by the borrower.
Return(u, a) ==
    /\ status[a] = "lent"
    /\ loan[a] # Null
    /\ u \in {loan[a].lender, loan[a].borrower}
    /\ status' = [status EXCEPT ![a] = "active"]
    /\ loan' = [loan EXCEPT ![a] = Null]
    /\ UNCHANGED <<registryVars, owner, listing, sale, allowance, approvals,
                   listed, listings, wedged>>

\* The next block, with the sweep that precedes its first operation: the
\* reservations that ran out go back on the market.
Tick ==
    /\ NextBlock
    /\ status' = [a \in Assets |->
            IF Overdue(a, block') THEN "listed" ELSE status[a]]
    /\ sale' = [a \in Assets |->
            IF Overdue(a, block') THEN Null ELSE sale[a]]
    /\ UNCHANGED <<owner, listing, loan, allowance, approvals, listed,
                   listings, wedged>>

NodeOperation(n) ==
    /\ Register(n) \/ Heartbeat(n)
    /\ UNCHANGED <<ledger, listings, wedged>>

Trade ==
    \/ \E u \in Accounts, a \in Assets :
        \/ \E ttl \in ListingTTL : List(u, a, ttl)
        \/ ListReserved(u, a)
        \/ Unlist(u, a)
    \/ \E n \in Nodes, b \in Accounts, tx \in BuyTx :
        BuyCommitment(n, tx.asset, b, tx)
    \/ \E tx \in BuyTx : Buy(tx)

Handover ==
    \E u \in Accounts, S \in (SUBSET Assets) \ {{}} :
        \/ \E to \in Accounts : Transfer(u, to, S)
        \/ Burn(u, S)

Delegate ==
    \/ \E s \in Spenders, f, t \in Accounts, a \in Assets :
        TransferFrom(s, f, t, a)
    \/ \E u \in Accounts, s \in Spenders, a \in Assets :
        u # s /\ Approve(u, a, [owner |-> u, spender |-> s])
    \/ \E u \in Accounts, a \in Assets : Approve(u, a, Null)
    \/ \E u \in Accounts, s \in Spenders, c \in Collections :
        ApproveAll(u, s, c) \/ RevokeAll(u, s, c)

Borrow ==
    \E u \in Accounts, a \in Assets :
        Return(u, a) \/ \E b \in Borrowers : Lend(u, b, a)

Next ==
    /\ ~wedged
    /\ \/ Trade \/ Handover \/ Delegate \/ Borrow
       \/ Tick
       \/ \E n \in Nodes : NodeOperation(n)

Spec == Init /\ [][Next]_vars

\* Blocks keep coming while the indexer is not wedged: the scanner follows
\* the last irreversible block for as long as the chain produces them.
FairSpec == Spec /\ WF_vars(~wedged /\ Tick)

-----------------------------------------------------------------------------
TypeOK ==
    /\ RegistryTypeOK
    /\ owner \in [Assets -> Accounts]
    /\ status \in [Assets -> Status]
    /\ listing \in [Assets -> Listing \cup {Null}]
    /\ sale \in [Assets -> Sale \cup {Null}]
    /\ loan \in [Assets -> Loan \cup {Null}]
    /\ allowance \in [Assets -> Allowance \cup {Null}]
    /\ approvals \subseteq Approval
    /\ listed \in [Collections -> Int]
    /\ listings \in 0..MaxListings
    /\ wedged \in BOOLEAN

\* The reservation a row carries is coherent with its status, names a buyer
\* other than the owner, has not run out, and cannot outlive the listing it
\* was made on by a full settlement window: whatever nodes commit, a seller
\* gets the asset back (buy-commitment.ts, schema.sql CHECKs).
ReservationCoherent ==
    \A a \in Assets :
        /\ status[a] = "pending_sale" <=> sale[a] # Null
        /\ status[a] \in {"listed", "pending_sale"} <=> listing[a] # Null
        /\ sale[a] # Null =>
            /\ sale[a].buyer # owner[a]
            /\ block <= sale[a].expires
            /\ sale[a].expires < listing[a].expires + CommitTTL

\* An asset is out on loan exactly when a loan row says so, and the lender of
\* that row is still its owner (protocol invariant L3: lending moves custody,
\* never ownership).
LoanBacksLent ==
    \A a \in Assets :
        /\ status[a] = "lent" <=> loan[a] # Null
        /\ loan[a] # Null =>
            loan[a].lender = owner[a] /\ loan[a].borrower # owner[a]

\* A single-asset allowance was granted by the present owner and never
\* coexists with a listing, a reservation or a loan: no grant of an earlier
\* owner survives, and no spender contends with a buyer.
AllowanceFresh ==
    \A a \in Assets : allowance[a] # Null =>
        /\ status[a] = "active"
        /\ allowance[a].owner = owner[a]
        /\ allowance[a].spender # owner[a]

\* A collection-wide approval exists only while its grantor holds something in
\* that collection, so it cannot lie dormant and come back to life with the
\* grantor's next acquisition (invariant A4' of asset-transfer-from.ts).
ApprovalBacked ==
    \A p \in approvals : Holds(p.owner, p.coll)

\* The denormalised collection_stats.listed equals the number of assets of
\* the collection on the market, reserved ones included.
ListedCounterExact ==
    \A c \in Collections :
        listed[c] = Cardinality({a \in InCollection(Assets, c) :
                                    status[a] \in {"listed", "pending_sale"}})

\* No node reserves more assets than its cap at any block.
NodeCapRespected ==
    \A n \in Nodes :
        Cardinality({a \in Assets : sale[a] # Null /\ sale[a].node = n})
            <= NodeCap

\* An asset of a non-transferable collection and a seed never leave their
\* owner's full control: no listing, no reservation, no loan.
UnsellableNeverEncumbered ==
    \A a \in Assets : (a \in Seeds \/ CollectionOf[a] \notin Transferable) =>
        status[a] \in {"active", "burned"}

\* The reservation of a names the transaction that pays for it, its node is
\* alive and the listing stands.
Payable(a) ==
    /\ sale[a] # Null
    /\ sale[a].tx.asset = a /\ sale[a].tx.listing = listing[a].id
    /\ sale[a].tx.buyer = sale[a].buyer /\ sale[a].tx.node = sale[a].node
    /\ Active(sale[a].node) /\ ~Expired(a)

\* A reservation that was made for the transaction it names can be settled
\* until it runs out: whatever owner, spenders, borrowers and other nodes did
\* since, handleBuy has no check left that turns the paid buy down, unless its
\* node fell silent or the listing expired meanwhile (buy-commitment.ts).
ReservedBuySettles ==
    \A a \in Assets : Payable(a) => BuyAccepted(sale[a].tx)

\* Every operation on a well-formed block is applied or rejected: none ends
\* in a database error that stops the indexer.  protocol-invariants.md (L5)
\* and status-checks.ts say that listing a reserved asset is rejected.
NeverWedged == ~wedged

\* A reservation that runs out within the modelled chain ends.
ReservationEnds ==
    \A a \in Assets :
        (sale[a] # Null /\ sale[a].expires < MaxBlock)
            ~> (sale[a] = Null \/ wedged)

-----------------------------------------------------------------------------
(***************************************************************************)
(* The ledger implements Custody: the abstract hold of an asset is read    *)
(* off its status and the row that goes with it.                           *)
(***************************************************************************)
HoldOf(a) ==
    CASE status[a] = "active" -> [kind |-> "free"]
      [] status[a] = "burned" -> [kind |-> "gone"]
      [] status[a] = "lent" ->
            [kind |-> "loan", by |-> loan[a].lender, to |-> loan[a].borrower]
      [] status[a] = "listed" ->
            [kind |-> "offer", id |-> listing[a].id, ends |-> listing[a].expires]
      [] status[a] = "pending_sale" ->
            [kind |-> "promise", id |-> listing[a].id,
             ends |-> listing[a].expires, buyer |-> sale[a].buyer,
             until |-> sale[a].expires]

Abstract == INSTANCE Custody WITH
    Terms <- ListingTTL, Patience <- CommitTTL, LastBlock <- MaxBlock,
    hold <- [a \in Assets |-> HoldOf(a)], offers <- listings

\* Every ledger step is a Custody step or leaves custody alone.
ImplementsCustody == Abstract!CustodySpec
=============================================================================
