--------------------------- MODULE MarketLimitsProofs ---------------------------
(***************************************************************************)
(* Theorems about what the ledger of Market counts and who it lets hold    *)
(* what: the cap on a node's reservations, the listed counter, the         *)
(* approvals of a collection, the assets that can never be encumbered, and *)
(* that the ledger implements Custody.                                     *)
(*                                                                         *)
(* Each of the invariants is inductive relative to LedgerInv: a node's cap *)
(* is checked against the reservations that have not run out, and only     *)
(* because every reservation on the books is one of those is the check a   *)
(* bound on all of them.                                                   *)
(***************************************************************************)
EXTENDS MarketProofs

\* The step leaves custody, counters and the clock alone; it may drop
\* approvals, or add one of somebody who holds an asset of the collection.
Quiet ==
    /\ UNCHANGED <<block, owner, status, listing, sale, loan, listed, listings>>
    /\ \A p \in approvals' : p \in approvals \/ Holds(p.owner, p.coll)

\* The step hands S over from u to v: buy, transfer and asset_transfer_from.
Moves(u, v, S) ==
    /\ \A a \in S : owner[a] = u /\ status[a] \in {"active", "listed", "pending_sale"}
    /\ MoveTo(S, v)
    /\ DropEmptyApprovals(u, S)
    /\ UNCHANGED <<block, loan, listings>>

\* Nine operations differ in their guards only as far as custody goes: the
\* steps fall into eight kinds.
LEMMA StepKinds ==
    ASSUME TypeOK, [Next]_vars
    PROVE  \/ Quiet
           \/ \E u \in Accounts, a \in Assets, ttl \in ListingTTL : List(u, a, ttl)
           \/ \E u \in Accounts, a \in Assets : Unlist(u, a)
           \/ \E n \in Nodes, b \in Accounts, tx \in BuyTx :
                BuyCommitment(n, tx.asset, b, tx)
           \/ \E u \in Accounts, v \in Accounts, S \in SUBSET Assets :
                /\ Moves(u, v, S)
                /\ \/ \A a \in S : OwnershipChangeable(a)
                   \/ \E tx \in BuyTx : Buy(tx)
           \/ \E u \in Accounts, S \in SUBSET Assets : Burn(u, S)
           \/ \E u \in Accounts, b \in Accounts, a \in Assets : Lend(u, b, a)
           \/ \E u \in Accounts, a \in Assets : Return(u, a)
           \/ Tick
<1>1. ASSUME NEW u \in Accounts, NEW a \in Assets, ListReserved(u, a)
      PROVE  Quiet
  BY <1>1 DEF ListReserved, Quiet, registryVars, ledger
<1>2. ASSUME NEW tx \in BuyTx, Buy(tx)
      PROVE  \E u \in Accounts, v \in Accounts, S \in SUBSET Assets :
                Moves(u, v, S)
  <2>1. tx.asset \in Assets /\ tx.buyer \in Accounts
    BY DEF BuyTx
  <2>2. owner[tx.asset] \in Accounts
    BY <2>1 DEF TypeOK
  <2>3. Moves(owner[tx.asset], tx.buyer, {tx.asset})
    BY <1>2 DEF Buy, BuyAccepted, Moves, registryVars
  <2> QED
    BY <2>1, <2>2, <2>3
<1>3. ASSUME NEW u \in Accounts, NEW to \in Accounts, NEW S \in SUBSET Assets,
             Transfer(u, to, S)
      PROVE  Moves(u, to, S) /\ \A a \in S : OwnershipChangeable(a)
  BY <1>3 DEF Transfer, OwnershipChangeable, Moves, registryVars
<1>4. ASSUME NEW s, NEW f \in Accounts, NEW t \in Accounts, NEW a \in Assets,
             TransferFrom(s, f, t, a)
      PROVE  Moves(f, t, {a}) /\ \A x \in {a} : OwnershipChangeable(x)
  BY <1>4 DEF TransferFrom, OwnershipChangeable, Moves, registryVars
<1>5. ASSUME NEW u, NEW a, NEW row, Approve(u, a, row)
      PROVE  Quiet
  BY <1>5 DEF Approve, Quiet, registryVars
<1>6. ASSUME NEW u \in Accounts, NEW s, NEW c, ApproveAll(u, s, c) \/ RevokeAll(u, s, c)
      PROVE  Quiet
  BY <1>6 DEF ApproveAll, RevokeAll, Quiet, registryVars
<1>7. ASSUME NEW n \in Nodes, NodeOperation(n)
      PROVE  Quiet
  BY <1>7 DEF NodeOperation, Register, Heartbeat, ledger, Quiet
<1>8. CASE UNCHANGED vars
  BY <1>8 DEF vars, Quiet
<1> QED
  <2>1. CASE Trade
    BY <2>1, <1>1, <1>2 DEF Trade
  <2>2. CASE Handover
    BY <2>2, <1>3 DEF Handover
  <2>3. CASE Delegate
    <3>1. CASE \E s \in Spenders, f, t \in Accounts, a \in Assets :
                    TransferFrom(s, f, t, a)
      <4>1. PICK s \in Spenders, f \in Accounts, t \in Accounts, a \in Assets :
                    TransferFrom(s, f, t, a)
        BY <3>1
      <4>2. Moves(f, t, {a}) /\ \A x \in {a} : OwnershipChangeable(x)
        BY <4>1, <1>4
      <4> QED
        BY <4>2
    <3> QED
      BY <2>3, <3>1, <1>5, <1>6 DEF Delegate
  <2>4. CASE Borrow
    BY <2>4, MarketAssumption DEF Borrow
  <2> QED
    BY <2>1, <2>2, <2>3, <2>4, <1>7, <1>8 DEF Next

-----------------------------------------------------------------------------
LEMMA UnsellableStep ==
    ASSUME TypeOK, UnsellableNeverEncumbered, [Next]_vars
    PROVE  UnsellableNeverEncumbered'
<1> SUFFICES ASSUME NEW x \in Assets,
                    x \in Seeds \/ CollectionOf[x] \notin Transferable
             PROVE  status'[x] \in {"active", "burned"}
  BY DEF UnsellableNeverEncumbered
<1> USE DEF TypeOK
<1>0. status[x] \in {"active", "burned"}
  BY DEF UnsellableNeverEncumbered
<1>1. ASSUME NEW u, NEW a \in Assets, NEW ttl, List(u, a, ttl)
      PROVE  status'[x] \in {"active", "burned"}
  BY <1>0, <1>1 DEF List, ListAccepted, Movable
<1>2. ASSUME NEW n, NEW b, NEW tx \in BuyTx, BuyCommitment(n, tx.asset, b, tx)
      PROVE  status'[x] \in {"active", "burned"}
  BY <1>0, <1>2 DEF BuyCommitment
<1>3. ASSUME NEW u, NEW b, NEW a \in Assets, Lend(u, b, a)
      PROVE  status'[x] \in {"active", "burned"}
  BY <1>0, <1>3 DEF Lend, Movable
<1>4. CASE Tick
  BY <1>0, <1>4 DEF Tick, Overdue
<1>5. ASSUME NEW u, NEW a \in Assets, Unlist(u, a) \/ Return(u, a)
      PROVE  status'[x] \in {"active", "burned"}
  BY <1>0, <1>5 DEF Unlist, Return
<1>6. ASSUME NEW u, NEW v, NEW S \in SUBSET Assets, Moves(u, v, S) \/ Burn(u, S)
      PROVE  status'[x] \in {"active", "burned"}
  BY <1>0, <1>6 DEF Moves, MoveTo, Burn
<1>7. CASE Quiet
  BY <1>0, <1>7 DEF Quiet
<1> QED
  BY <1>1, <1>2, <1>3, <1>4, <1>5, <1>6, <1>7, StepKinds

\* No listing, reservation or loan ever reaches a seed or an asset of a
\* non-transferable collection.
THEOREM UnsellablesUnencumbered == Spec => []UnsellableNeverEncumbered
<1>1. Init => UnsellableNeverEncumbered
  BY DEF Init, UnsellableNeverEncumbered
<1> QED
  BY <1>1, TypeCorrect, UnsellableStep, PTL DEF Spec

-----------------------------------------------------------------------------
\* Who holds something in a collection and gives up nothing of it holds it
\* afterwards.
LEMMA HoldingKept ==
    ASSUME NEW S, NEW u, NEW c, Holds(u, c),
           \A a \in Assets \ S :
                owner'[a] = owner[a] /\ (status[a] # "burned" => status'[a] # "burned"),
           (\A a \in S : owner[a] # u) \/ InCollection(S, c) = {}
    PROVE  Holds(u, c)'
<1>1. PICK a \in Assets : owner[a] = u /\ status[a] # "burned" /\ CollectionOf[a] = c
  BY DEF Holds
<1>2. a \notin S
  BY <1>1 DEF InCollection
<1> QED
  BY <1>1, <1>2 DEF Holds

\* The cleanup that follows a change of owner or a burn is enough.
LEMMA CleanupSuffices ==
    ASSUME TypeOK, ApprovalBacked, NEW S \in SUBSET Assets, NEW u,
           \A a \in S : owner[a] = u,
           \A a \in Assets \ S :
                owner'[a] = owner[a] /\ (status[a] # "burned" => status'[a] # "burned"),
           DropEmptyApprovals(u, S)
    PROVE  ApprovalBacked'
<1> SUFFICES ASSUME NEW p \in approvals'
             PROVE  Holds(p.owner, p.coll)'
  BY DEF ApprovalBacked
<1>1. /\ p \in approvals
      /\ p.owner # u \/ InCollection(S, p.coll) = {} \/ Holds(p.owner, p.coll)'
  BY DEF DropEmptyApprovals
<1>2. Holds(p.owner, p.coll)
  BY <1>1 DEF ApprovalBacked
<1> QED
  BY <1>1, <1>2, HoldingKept

LEMMA ApprovalStep ==
    ASSUME TypeOK, ApprovalBacked, [Next]_vars
    PROVE  ApprovalBacked'
<1> DEFINE Stays ==
        /\ \A p \in approvals' : p \in approvals \/ Holds(p.owner, p.coll)
        /\ \A a \in Assets :
            owner'[a] = owner[a] /\ (status[a] # "burned" => status'[a] # "burned")
<1>0. Stays => ApprovalBacked'
  BY HoldingKept DEF ApprovalBacked, Holds
<1> USE DEF TypeOK
<1>1. CASE Quiet
  BY <1>0, <1>1 DEF Quiet
<1>2. ASSUME NEW u, NEW a \in Assets, NEW ttl, List(u, a, ttl)
      PROVE  Stays
  BY <1>2 DEF List
<1>3. ASSUME NEW n, NEW b, NEW tx \in BuyTx, BuyCommitment(n, tx.asset, b, tx)
      PROVE  Stays
  BY <1>3 DEF BuyCommitment
<1>4. ASSUME NEW u, NEW b, NEW a \in Assets, Lend(u, b, a)
      PROVE  Stays
  BY <1>4 DEF Lend
<1>5. ASSUME NEW u, NEW a \in Assets, Unlist(u, a) \/ Return(u, a)
      PROVE  Stays
  BY <1>5 DEF Unlist, Return
<1>6. CASE Tick
  BY <1>0, <1>6 DEF Tick
<1>7. ASSUME NEW u, NEW v, NEW S \in SUBSET Assets, Moves(u, v, S) \/ Burn(u, S)
      PROVE  ApprovalBacked'
  <2>1. /\ \A a \in S : owner[a] = u
        /\ DropEmptyApprovals(u, S)
    BY <1>7 DEF Moves, Burn
  <2>2. \A a \in Assets \ S :
            owner'[a] = owner[a] /\ (status[a] # "burned" => status'[a] # "burned")
    BY <1>7 DEF Moves, MoveTo, Burn
  <2> QED
    BY <2>1, <2>2, CleanupSuffices
<1> QED
  BY <1>0, <1>1, <1>2, <1>3, <1>4, <1>5, <1>6, <1>7, StepKinds

\* A collection-wide approval never outlasts its grantor's holdings.
THEOREM ApprovalsBacked == Spec => []ApprovalBacked
<1>1. Init => ApprovalBacked
  BY DEF Init, ApprovalBacked
<1> QED
  BY <1>1, TypeCorrect, ApprovalStep, PTL DEF Spec

-----------------------------------------------------------------------------
\* What a change of status of some assets does to a count of others.
LEMMA SmallerCount ==
    ASSUME NEW T \in SUBSET Assets, NEW S \in SUBSET T
    PROVE  Cardinality(S) <= Cardinality(T)
  BY MarketAssumption, FS_Subset

LEMMA OneMore ==
    ASSUME NEW T \in SUBSET Assets, NEW a \in Assets, a \notin T
    PROVE  Cardinality(T \cup {a}) = Cardinality(T) + 1
<1>1. IsFiniteSet(T)
  BY MarketAssumption, FS_Subset
<1> QED
  BY <1>1, FS_AddElement

LEMMA OneLess ==
    ASSUME NEW T \in SUBSET Assets, NEW a \in T
    PROVE  Cardinality(T \ {a}) = Cardinality(T) - 1
<1>1. IsFiniteSet(T)
  BY MarketAssumption, FS_Subset
<1> QED
  BY <1>1, FS_RemoveElement

LEMMA Fewer ==
    ASSUME NEW T \in SUBSET Assets, NEW S \in SUBSET T
    PROVE  Cardinality(T \ S) = Cardinality(T) - Cardinality(S)
<1>1. IsFiniteSet(T)
  BY MarketAssumption, FS_Subset
<1>2. T \cap S = S
  OBVIOUS
<1> QED
  BY <1>1, <1>2, FS_Difference

-----------------------------------------------------------------------------
\* The reservations a node has on the books.
SalesOf(n) == {a \in Assets : sale[a] # Null /\ sale[a].node = n}

\* Every one of them still counts against the cap, because none is overdue.
LEMMA SalesAreOpen ==
    ASSUME LedgerInv, NEW n
    PROVE  SalesOf(n) \subseteq OpenSales(n)
  BY DEF LedgerInv, Held, Reserved, SalesOf, OpenSales

LEMMA CapStep ==
    ASSUME LedgerInv, NodeCapRespected, [Next]_vars
    PROVE  NodeCapRespected'
<1> SUFFICES ASSUME NEW n \in Nodes
             PROVE  Cardinality(SalesOf(n))' <= NodeCap
  BY DEF NodeCapRespected, SalesOf
<1>typ. TypeOK
  BY DEF LedgerInv
<1>set. SalesOf(n) \in SUBSET Assets /\ SalesOf(n)' \in SUBSET Assets
  BY DEF SalesOf
<1>cap. Cardinality(SalesOf(n)) <= NodeCap
  BY DEF NodeCapRespected, SalesOf
<1>nat. /\ Cardinality(SalesOf(n)) \in Nat /\ Cardinality(SalesOf(n)') \in Nat
        /\ NodeCap \in Nat
  BY <1>set, SubsetCount, MarketAssumption
<1> DEFINE Falls == \A a \in Assets : sale'[a] = sale[a] \/ sale'[a] = Null
<1>0. ASSUME Falls
      PROVE  Cardinality(SalesOf(n))' <= NodeCap
  <2>1. SalesOf(n)' \subseteq SalesOf(n)
    BY <1>0 DEF SalesOf
  <2>2. Cardinality(SalesOf(n)') <= Cardinality(SalesOf(n))
    BY <2>1, <1>set, SmallerCount
  <2> QED
    BY <2>2, <1>cap, <1>nat
<1>1. ASSUME NEW m \in Nodes, NEW b, NEW tx \in BuyTx,
             BuyCommitment(m, tx.asset, b, tx)
      PROVE  Cardinality(SalesOf(n))' <= NodeCap
  <2> DEFINE a == tx.asset
  <2>1. a \in Assets
    BY DEF BuyTx
  <2>2. sale[a] = Null
    BY <1>1, <2>1 DEF LedgerInv, Held, Reserved, BuyCommitment
  <2>3. /\ sale'[a].node = m
        /\ \A x \in Assets \ {a} : sale'[x] = sale[x]
    BY <1>1, <2>1, <1>typ DEF BuyCommitment, TypeOK
  <2>4. CASE n = m
    <3>1. OpenSales(n) \in SUBSET Assets
      BY DEF OpenSales
    <3>2. Cardinality(SalesOf(n)) <= Cardinality(OpenSales(n))
      BY <3>1, SalesAreOpen, SmallerCount
    <3>3. Cardinality(OpenSales(n)) < NodeCap /\ Cardinality(OpenSales(n)) \in Nat
      BY <1>1, <2>4, <3>1, SubsetCount DEF BuyCommitment
    <3>4. SalesOf(n)' \subseteq SalesOf(n) \cup {a}
      BY <2>3 DEF SalesOf
    <3>5. a \notin SalesOf(n)
      BY <2>2 DEF SalesOf
    <3>6. Cardinality(SalesOf(n) \cup {a}) = Cardinality(SalesOf(n)) + 1
      BY <1>set, <2>1, <3>5, OneMore
    <3>7. Cardinality(SalesOf(n)') <= Cardinality(SalesOf(n) \cup {a})
      BY <1>set, <2>1, <3>4, SmallerCount
    <3> QED
      BY <3>2, <3>3, <3>6, <3>7, <1>nat
  <2>5. CASE n # m
    <3>1. SalesOf(n)' \subseteq SalesOf(n)
      BY <2>3, <2>5 DEF SalesOf
    <3>2. Cardinality(SalesOf(n)') <= Cardinality(SalesOf(n))
      BY <3>1, <1>set, SmallerCount
    <3> QED
      BY <3>2, <1>cap, <1>nat
  <2> QED
    BY <2>4, <2>5
<1>2. CASE Quiet
  BY <1>0, <1>2 DEF Quiet
<1>3. CASE Tick
  BY <1>0, <1>3 DEF Tick
<1>4. ASSUME NEW u, NEW v, NEW S \in SUBSET Assets, Moves(u, v, S) \/ Burn(u, S)
      PROVE  Falls
  BY <1>4 DEF Moves, MoveTo, Burn
<1>5. ASSUME NEW u, NEW b, NEW a,
             \/ \E ttl : List(u, a, ttl)
             \/ Unlist(u, a) \/ Lend(u, b, a) \/ Return(u, a)
      PROVE  Falls
  BY <1>5 DEF List, Unlist, Lend, Return
<1> QED
  BY <1>0, <1>1, <1>2, <1>3, <1>4, <1>5, <1>typ, StepKinds

\* However commitments, sweeps and settlements interleave, no node has more
\* assets reserved than MAX_ACTIVE_COMMITMENTS_PER_NODE.
THEOREM CapsRespected == Spec => []NodeCapRespected
<1>1. ASSUME Init, NEW n \in Nodes
      PROVE  Cardinality(SalesOf(n)) <= NodeCap
  <2>1. SalesOf(n) = {}
    BY <1>1 DEF Init, SalesOf
  <2>2. NodeCap \in Nat
    BY MarketAssumption
  <2> QED
    BY <2>1, <2>2, FS_EmptySet
<1>2. Init => NodeCapRespected
  BY <1>1 DEF NodeCapRespected, SalesOf
<1> QED
  BY <1>2, LedgerCorrect, CapStep, PTL DEF Spec

-----------------------------------------------------------------------------
\* The assets of a collection that a listing keeps on the market.
OnMarket(c) ==
    {a \in InCollection(Assets, c) : status[a] \in {"listed", "pending_sale"}}

LEMMA OnMarketInCollection ==
    ASSUME NEW c
    PROVE  OnMarket(c) \in SUBSET Assets /\ OnMarket(c)' \in SUBSET Assets
  BY DEF OnMarket, InCollection

LEMMA CounterStep ==
    ASSUME LedgerInv, ListedCounterExact, [Next]_vars
    PROVE  ListedCounterExact'
<1> SUFFICES ASSUME NEW c \in Collections
             PROVE  listed'[c] = Cardinality(OnMarket(c))'
  BY DEF ListedCounterExact, OnMarket
<1>typ. TypeOK
  BY DEF LedgerInv
<1>now. listed[c] = Cardinality(OnMarket(c))
  BY DEF ListedCounterExact, OnMarket
<1>nat. Cardinality(OnMarket(c)) \in Nat
  BY OnMarketInCollection, SubsetCount
<1> DEFINE Goal == listed'[c] = Cardinality(OnMarket(c))'
<1>0. ASSUME listed' = listed,
             \A a \in Assets : status'[a] \in {"listed", "pending_sale"}
                                    <=> status[a] \in {"listed", "pending_sale"}
      PROVE  Goal
  <2>1. OnMarket(c)' = OnMarket(c)
    BY <1>0 DEF OnMarket, InCollection
  <2> QED
    BY <1>0, <1>now, <2>1
<1>1. ASSUME NEW u, NEW a \in Assets, NEW ttl, List(u, a, ttl)
      PROVE  Goal
  <2>1. /\ status[a] # "lent" /\ status[a] # "burned"
        /\ sale[a] = Null /\ status' = [status EXCEPT ![a] = "listed"]
    BY <1>1 DEF List, ListAccepted, Exists
  <2>2. status[a] \in {"active", "listed"}
    BY <2>1, <1>typ DEF LedgerInv, Held, Reserved, TypeOK, Status
  <2>3. CASE status[a] = "listed"
    <3>1. listed' = listed
      BY <1>1, <2>3 DEF List
    <3> QED
      BY <1>0, <1>typ, <2>1, <2>3, <3>1 DEF TypeOK
  <2>4. CASE status[a] = "active"
    <3>1. listed' = [listed EXCEPT ![CollectionOf[a]] = @ + 1]
      BY <1>1, <2>4 DEF List
    <3>2. CASE CollectionOf[a] = c
      <4>1. OnMarket(c)' = OnMarket(c) \cup {a} /\ a \notin OnMarket(c)
        BY <1>typ, <2>1, <2>4, <3>2 DEF OnMarket, InCollection, TypeOK
      <4>2. Cardinality(OnMarket(c)') = Cardinality(OnMarket(c)) + 1
        BY <4>1, OnMarketInCollection, OneMore
      <4>3. listed'[c] = listed[c] + 1
        BY <1>typ, <3>1, <3>2 DEF TypeOK
      <4> QED
        BY <4>2, <4>3, <1>now
    <3>3. CASE CollectionOf[a] # c
      <4>1. OnMarket(c)' = OnMarket(c)
        BY <1>typ, <2>1, <3>3 DEF OnMarket, InCollection, TypeOK
      <4>2. listed'[c] = listed[c]
        BY <1>typ, <3>1, <3>3 DEF TypeOK
      <4> QED
        BY <4>1, <4>2, <1>now
    <3> QED
      BY <3>2, <3>3
  <2> QED
    BY <2>2, <2>3, <2>4
<1>2. ASSUME NEW u, NEW a \in Assets, Unlist(u, a)
      PROVE  Goal
  <2>1. /\ status[a] = "listed" /\ status' = [status EXCEPT ![a] = "active"]
        /\ listed' = [listed EXCEPT ![CollectionOf[a]] = @ - 1]
    BY <1>2 DEF Unlist
  <2>2. CASE CollectionOf[a] = c
    <3>1. OnMarket(c)' = OnMarket(c) \ {a} /\ a \in OnMarket(c)
      BY <1>typ, <2>1, <2>2 DEF OnMarket, InCollection, TypeOK
    <3>2. Cardinality(OnMarket(c)') = Cardinality(OnMarket(c)) - 1
      BY <3>1, OnMarketInCollection, OneLess
    <3>3. listed'[c] = listed[c] - 1
      BY <1>typ, <2>1, <2>2 DEF TypeOK
    <3> QED
      BY <3>2, <3>3, <1>now
  <2>3. CASE CollectionOf[a] # c
    <3>1. OnMarket(c)' = OnMarket(c)
      BY <1>typ, <2>1, <2>3 DEF OnMarket, InCollection, TypeOK
    <3>2. listed'[c] = listed[c]
      BY <1>typ, <2>1, <2>3 DEF TypeOK
    <3> QED
      BY <3>1, <3>2, <1>now
  <2> QED
    BY <2>2, <2>3
<1>3. ASSUME NEW u, NEW v, NEW S \in SUBSET Assets, Moves(u, v, S)
      PROVE  Goal
  <2>1. OnMarket(c)' = OnMarket(c) \ StillListed(S, c)
    BY <1>3 DEF Moves, MoveTo, OnMarket, InCollection, StillListed
  <2>2. StillListed(S, c) \subseteq OnMarket(c)
    BY DEF StillListed, OnMarket, InCollection
  <2>3. Cardinality(OnMarket(c)') =
            Cardinality(OnMarket(c)) - Cardinality(StillListed(S, c))
    BY <2>1, <2>2, OnMarketInCollection, Fewer
  <2>4. listed'[c] = listed[c] - Cardinality(StillListed(S, c))
    BY <1>3 DEF Moves, MoveTo
  <2> QED
    BY <2>3, <2>4, <1>now
<1>4. ASSUME NEW u, NEW S \in SUBSET Assets, Burn(u, S)
      PROVE  Goal
  BY <1>0, <1>4 DEF Burn
<1>5. ASSUME NEW n, NEW b, NEW tx \in BuyTx, BuyCommitment(n, tx.asset, b, tx)
      PROVE  Goal
  BY <1>0, <1>5, <1>typ DEF BuyCommitment, TypeOK
<1>6. ASSUME NEW u, NEW b, NEW a \in Assets, Lend(u, b, a)
      PROVE  Goal
  BY <1>0, <1>6, <1>typ DEF Lend, TypeOK
<1>7. ASSUME NEW u, NEW a \in Assets, Return(u, a)
      PROVE  Goal
  BY <1>0, <1>7, <1>typ DEF Return, TypeOK
<1>8. CASE Tick
  BY <1>0, <1>8 DEF Tick, Overdue
<1>9. CASE Quiet
  BY <1>0, <1>9 DEF Quiet
<1> QED
  BY <1>1, <1>2, <1>3, <1>4, <1>5, <1>6, <1>7, <1>8, <1>9, <1>typ, StepKinds

\* The denormalised counter of every collection is the number of its assets
\* on the market, whatever mixture of listings, expiries, reservations, batch
\* transfers and settlements led there.
THEOREM ListedCountersExact == Spec => []ListedCounterExact
<1>1. ASSUME Init, NEW c \in Collections
      PROVE  listed[c] = Cardinality(OnMarket(c))
  <2>1. OnMarket(c) = {} /\ listed[c] = 0
    BY <1>1 DEF Init, OnMarket, InCollection
  <2> QED
    BY <2>1, FS_EmptySet
<1>2. Init => ListedCounterExact
  BY <1>1 DEF ListedCounterExact, OnMarket
<1> QED
  BY <1>2, LedgerCorrect, CounterStep, PTL DEF Spec

-----------------------------------------------------------------------------
LEMMA PayableIsAccepted ==
    ASSUME LedgerInv, UnsellableNeverEncumbered, NEW a \in Assets, Payable(a)
    PROVE  BuyAccepted(sale[a].tx)
<1>1. /\ status[a] = "pending_sale" /\ sale[a].buyer # owner[a]
      /\ block <= sale[a].expires
  BY DEF LedgerInv, Held, Reserved, Payable
<1>2. a \notin Seeds /\ Movable(a)
  BY <1>1 DEF UnsellableNeverEncumbered, Movable
<1> QED
  BY <1>1, <1>2 DEF Payable, BuyAccepted, InTime

\* A payment for a live reservation passes every check of the settlement, in
\* every reachable state: nothing the owner, the spenders, the borrowers or
\* other nodes did since the reservation can make the ledger turn it down.
THEOREM ReservedBuysSettle == Spec => []ReservedBuySettles
<1>1. LedgerInv /\ UnsellableNeverEncumbered => ReservedBuySettles
  BY PayableIsAccepted DEF ReservedBuySettles
<1> QED
  BY <1>1, LedgerCorrect, UnsellablesUnencumbered, PTL

-----------------------------------------------------------------------------
(* Custody: what holds an asset, read off its status and the row that goes   *)
(* with the status, changes only in the ways the abstract specification      *)
(* allows.  LedgerInv is what makes the reading faithful: the status and the *)
(* rows of other tables agree, so that an asset that is free to one handler  *)
(* is not held by a row another handler looks at.                            *)


LEMMA HoldKinds ==
    ASSUME NEW a
    PROVE  /\ status[a] = "active" => HoldOf(a) = [kind |-> "free"]
           /\ status[a] = "burned" => HoldOf(a) = [kind |-> "gone"]
           /\ status[a] = "lent" => HoldOf(a) =
                [kind |-> "loan", by |-> loan[a].lender, to |-> loan[a].borrower]
           /\ status[a] = "listed" => HoldOf(a) =
                [kind |-> "offer", id |-> listing[a].id, ends |-> listing[a].expires]
           /\ status[a] = "pending_sale" => HoldOf(a) =
                [kind |-> "promise", id |-> listing[a].id,
                 ends |-> listing[a].expires, buyer |-> sale[a].buyer,
                 until |-> sale[a].expires]
  BY DEF HoldOf

LEMMA HoldKindsAfter ==
    ASSUME NEW a
    PROVE  /\ status'[a] = "active" => HoldOf(a)' = [kind |-> "free"]
           /\ status'[a] = "burned" => HoldOf(a)' = [kind |-> "gone"]
           /\ status'[a] = "lent" => HoldOf(a)' =
                [kind |-> "loan", by |-> loan'[a].lender, to |-> loan'[a].borrower]
           /\ status'[a] = "listed" => HoldOf(a)' =
                [kind |-> "offer", id |-> listing'[a].id, ends |-> listing'[a].expires]
           /\ status'[a] = "pending_sale" => HoldOf(a)' =
                [kind |-> "promise", id |-> listing'[a].id,
                 ends |-> listing'[a].expires, buyer |-> sale'[a].buyer,
                 until |-> sale'[a].expires]
  BY DEF HoldOf

\* The columns the reading depends on.
SameRow(a) ==
    /\ status'[a] = status[a] /\ listing'[a] = listing[a]
    /\ sale'[a] = sale[a] /\ loan'[a] = loan[a]

LEMMA HoldSame ==
    ASSUME NEW a, SameRow(a)
    PROVE  HoldOf(a)' = HoldOf(a)
  BY DEF HoldOf, SameRow

\* Rewriting the rows of S alone is rewriting the holds of S alone.
LEMMA HoldRewritten ==
    ASSUME NEW S \in SUBSET Assets, NEW h,
           \A a \in S : HoldOf(a)' = h,
           \A a \in Assets \ S : SameRow(a)
    PROVE  Abstract!Hold(S, h)
<1>1. \A a \in Assets \ S : HoldOf(a)' = HoldOf(a)
  BY HoldSame
<1> QED
  BY <1>1 DEF Abstract!Hold

\* An asset the handlers take for unencumbered is loose in Custody's sense.
LEMMA ChangeableIsLoose ==
    ASSUME NEW a \in Assets, status[a] = "active" \/ (status[a] = "listed" /\ Expired(a))
    PROVE  Abstract!Loose(a)
<1>1. CASE status[a] = "active"
  BY <1>1, HoldKinds DEF Abstract!Loose, Abstract!Free
<1>2. CASE status[a] = "listed" /\ Expired(a)
  BY <1>2, HoldKinds DEF Abstract!Loose, Expired
<1> QED
  BY <1>1, <1>2

-----------------------------------------------------------------------------
LEMMA CustodyInitially == Init => Abstract!CustodyInit
<1> SUFFICES ASSUME Init
             PROVE  Abstract!CustodyInit
  OBVIOUS
<1>1. \A a \in Assets : HoldOf(a) = [kind |-> "free"]
  BY HoldKinds DEF Init
<1> QED
  BY <1>1 DEF Init, RegistryInit, Abstract!CustodyInit, Abstract!Free

\* Each kind of ledger step is one action of Custody or leaves custody alone.
LEMMA CustodyStep ==
    ASSUME LedgerInv, [Next]_vars
    PROVE  [Abstract!CustodyNext]_(Abstract!custody)
<1> DEFINE Goal == [Abstract!CustodyNext]_(Abstract!custody)
<1>typ. TypeOK
  BY DEF LedgerInv
<1>inv. \A a \in Assets : Held(a)
  BY DEF LedgerInv
<1>1. CASE Quiet
  <2>1. \A a \in Assets : HoldOf(a)' = HoldOf(a)
    BY <1>1, HoldSame DEF Quiet, SameRow
  <2> QED
    BY <1>1, <2>1 DEF Quiet, Abstract!custody
<1>2. ASSUME NEW u \in Accounts, NEW a \in Assets, NEW ttl \in ListingTTL,
             List(u, a, ttl)
      PROVE  Goal
  <2>1. /\ status[a] \in Status \ {"lent", "burned", "pending_sale"}
        /\ status[a] = "listed" => Expired(a)
    BY <1>2, <1>inv, <1>typ
    DEF List, ListAccepted, Exists, Held, Reserved, TypeOK
  <2>2. Abstract!Loose(a)
    BY <2>1, ChangeableIsLoose DEF Status
  <2> DEFINE row == [id |-> listings + 1, expires |-> block + ttl]
  <2>3. /\ status'[a] = "listed" /\ listing'[a] = row
        /\ \A x \in Assets \ {a} : SameRow(x)
    BY <1>2, <1>typ DEF List, TypeOK, SameRow
  <2>4. HoldOf(a)' = Abstract!Offer(listings + 1, block + ttl)
    BY <2>3, HoldKindsAfter DEF Abstract!Offer
  <2>5. Abstract!Hold({a}, Abstract!Offer(listings + 1, block + ttl))
    BY <2>3, <2>4, HoldRewritten
  <2>6. listings' = listings + 1 /\ UNCHANGED <<block, owner>>
    BY <1>2 DEF List, registryVars
  <2>7. Abstract!MakeOffer(a)
    BY <2>2, <2>5, <2>6 DEF Abstract!MakeOffer
  <2> QED
    BY <2>7 DEF Abstract!CustodyNext
<1>3. ASSUME NEW u \in Accounts, NEW a \in Assets, Unlist(u, a)
      PROVE  Goal
  <2>1. /\ status[a] = "listed" /\ status'[a] = "active"
        /\ \A x \in Assets \ {a} : SameRow(x)
        /\ UNCHANGED <<block, owner, listings>>
    BY <1>3, <1>typ DEF Unlist, TypeOK, SameRow, registryVars
  <2>2. HoldOf(a).kind = "offer" /\ HoldOf(a)' = Abstract!Free
    BY <2>1, HoldKinds, HoldKindsAfter DEF Abstract!Free
  <2>3. Abstract!Hold({a}, Abstract!Free)
    BY <2>1, <2>2, HoldRewritten
  <2>4. Abstract!Withdraw(a)
    BY <2>1, <2>2, <2>3 DEF Abstract!Withdraw
  <2> QED
    BY <2>4 DEF Abstract!CustodyNext
<1>4. ASSUME NEW n \in Nodes, NEW b \in Accounts, NEW tx \in BuyTx,
             BuyCommitment(n, tx.asset, b, tx)
      PROVE  Goal
  <2> DEFINE a == tx.asset
             promise == Abstract!Promise(listing[a].id, listing[a].expires, b,
                                         block + CommitTTL)
  <2>0. a \in Assets
    BY DEF BuyTx
  <2>1. /\ status[a] = "listed" /\ status'[a] = "pending_sale"
        /\ listing'[a] = listing[a]
        /\ sale'[a].buyer = b /\ sale'[a].expires = block + CommitTTL
        /\ \A x \in Assets \ {a} : SameRow(x)
        /\ UNCHANGED <<block, owner, listings>>
    BY <1>4, <1>typ, <2>0 DEF BuyCommitment, TypeOK, SameRow, registryVars
  <2>2. ~Expired(a) /\ owner[a] # b
    BY <1>4 DEF BuyCommitment
  <2>3. listing[a] # Null
    BY <2>0, <2>1, <1>inv DEF Held, Reserved
  <2>4. HoldOf(a) = [kind |-> "offer", id |-> listing[a].id,
                     ends |-> listing[a].expires]
    BY <2>1, HoldKinds
  <2>5. ~Abstract!Loose(a)
    BY <2>0, <2>2, <2>3, <2>4 DEF Abstract!Loose, Abstract!Free, Expired
  <2>6. HoldOf(a)' = promise
    BY <2>1, HoldKindsAfter DEF Abstract!Promise
  <2>7. Abstract!Hold({a}, promise)
    BY <2>0, <2>1, <2>6, HoldRewritten
  <2>8. Abstract!MakePromise(a, b)
    BY <2>0, <2>1, <2>2, <2>4, <2>5, <2>7 DEF Abstract!MakePromise
  <2> QED
    BY <2>0, <2>8 DEF Abstract!CustodyNext
<1>5. ASSUME NEW u, NEW v \in Accounts, NEW S \in SUBSET Assets, Moves(u, v, S),
             \A a \in S : OwnershipChangeable(a)
      PROVE  Goal
  <2>1. \A a \in S : Abstract!Loose(a)
    BY <1>5, ChangeableIsLoose DEF OwnershipChangeable
  <2>2. /\ owner' = [a \in Assets |-> IF a \in S THEN v ELSE owner[a]]
        /\ UNCHANGED <<block, listings>>
        /\ \A a \in S : status'[a] = "active"
        /\ \A a \in Assets \ S : SameRow(a)
    BY <1>5 DEF Moves, MoveTo, SameRow
  <2>3. \A a \in S : HoldOf(a)' = Abstract!Free
    BY <2>2, HoldKindsAfter DEF Abstract!Free
  <2>4. Abstract!Hold(S, Abstract!Free)
    BY <2>2, <2>3, HoldRewritten
  <2>5. Abstract!Give(S, v)
    BY <2>1, <2>2, <2>4 DEF Abstract!Give
  <2> QED
    BY <2>5 DEF Abstract!CustodyNext
<1>6. ASSUME NEW tx \in BuyTx, Buy(tx)
      PROVE  Goal
  <2> DEFINE a == tx.asset
  <2>0. a \in Assets
    BY DEF BuyTx
  <2>1. /\ status[a] = "pending_sale" /\ sale[a].buyer = tx.buyer
        /\ block <= sale[a].expires /\ ~Expired(a)
    BY <1>6 DEF Buy, BuyAccepted, InTime
  <2>2. /\ owner' = [x \in Assets |-> IF x \in {a} THEN tx.buyer ELSE owner[x]]
        /\ UNCHANGED <<block, listings>>
        /\ status'[a] = "active" /\ \A x \in Assets \ {a} : SameRow(x)
    BY <1>6, <2>0 DEF Buy, BuyAccepted, MoveTo, SameRow, registryVars
  <2>3. owner' = [owner EXCEPT ![a] = tx.buyer]
    BY <2>2, <1>typ DEF TypeOK
  <2>4. /\ listing[a] # Null /\ listing[a].expires \in Nat /\ block \in Nat
    BY <2>0, <2>1, <1>inv, <1>typ
    DEF Held, Reserved, TypeOK, Listing, RegistryTypeOK
  <2>5. /\ HoldOf(a).kind = "promise" /\ HoldOf(a).buyer = tx.buyer
        /\ HoldOf(a).until = sale[a].expires /\ HoldOf(a).ends = listing[a].expires
    BY <2>1, HoldKinds
  <2>6. block < listing[a].expires
    BY <2>1, <2>4 DEF Expired
  <2>7. HoldOf(a)' = Abstract!Free
    BY <2>2, HoldKindsAfter DEF Abstract!Free
  <2>8. Abstract!Hold({a}, Abstract!Free)
    BY <2>0, <2>2, <2>7, HoldRewritten
  <2>9. Abstract!KeepPromise(a)
    BY <2>0, <2>1, <2>2, <2>3, <2>5, <2>6, <2>8 DEF Abstract!KeepPromise
  <2> QED
    BY <2>0, <2>9 DEF Abstract!CustodyNext
<1>7. ASSUME NEW u \in Accounts, NEW S \in SUBSET Assets, Burn(u, S)
      PROVE  Goal
  <2>1. /\ \A a \in S : status[a] = "active" /\ status'[a] = "burned"
        /\ \A a \in Assets \ S : SameRow(a)
        /\ UNCHANGED <<block, owner, listings>>
    BY <1>7 DEF Burn, SameRow, registryVars
  <2>2. \A a \in S : HoldOf(a) = Abstract!Free /\ HoldOf(a)' = Abstract!Gone
    BY <2>1, HoldKinds, HoldKindsAfter DEF Abstract!Free, Abstract!Gone
  <2>3. Abstract!Hold(S, Abstract!Gone)
    BY <2>1, <2>2, HoldRewritten
  <2>4. Abstract!Destroy(S)
    BY <2>1, <2>2, <2>3 DEF Abstract!Destroy
  <2> QED
    BY <2>4 DEF Abstract!CustodyNext
<1>8. ASSUME NEW u \in Accounts, NEW b \in Accounts, NEW a \in Assets, Lend(u, b, a)
      PROVE  Goal
  <2>1. /\ status[a] = "active" /\ status'[a] = "lent" /\ owner[a] = u /\ b # u
        /\ loan'[a] = [lender |-> u, borrower |-> b]
        /\ \A x \in Assets \ {a} : SameRow(x)
        /\ UNCHANGED <<block, owner, listings>>
    BY <1>8, <1>typ DEF Lend, TypeOK, SameRow, registryVars
  <2>2. HoldOf(a) = Abstract!Free /\ HoldOf(a)' = Abstract!OnLoan(owner[a], b)
    BY <2>1, HoldKinds, HoldKindsAfter DEF Abstract!Free, Abstract!OnLoan
  <2>3. Abstract!Hold({a}, Abstract!OnLoan(owner[a], b))
    BY <2>1, <2>2, HoldRewritten
  <2>4. Abstract!LendOut(a, b)
    BY <2>1, <2>2, <2>3 DEF Abstract!LendOut
  <2> QED
    BY <2>4 DEF Abstract!CustodyNext
<1>9. ASSUME NEW u \in Accounts, NEW a \in Assets, Return(u, a)
      PROVE  Goal
  <2>1. /\ status[a] = "lent" /\ status'[a] = "active"
        /\ \A x \in Assets \ {a} : SameRow(x)
        /\ UNCHANGED <<block, owner, listings>>
    BY <1>9, <1>typ DEF Return, TypeOK, SameRow, registryVars
  <2>2. HoldOf(a).kind = "loan" /\ HoldOf(a)' = Abstract!Free
    BY <2>1, HoldKinds, HoldKindsAfter DEF Abstract!Free
  <2>3. Abstract!Hold({a}, Abstract!Free)
    BY <2>1, <2>2, HoldRewritten
  <2>4. Abstract!TakeBack(a)
    BY <2>1, <2>2, <2>3 DEF Abstract!TakeBack
  <2> QED
    BY <2>4 DEF Abstract!CustodyNext
<1>10. CASE Tick
  <2>1. /\ block < MaxBlock /\ block' = block + 1
        /\ UNCHANGED <<owner, listings>>
    BY <1>10 DEF Tick, NextBlock
  <2>2. ASSUME NEW a \in Assets
        PROVE  HoldOf(a)' = IF HoldOf(a).kind = "promise" /\ HoldOf(a).until < block'
                            THEN Abstract!Offer(HoldOf(a).id, HoldOf(a).ends)
                            ELSE HoldOf(a)
    <3>1. HoldOf(a).kind = "promise" <=> status[a] = "pending_sale"
      BY <1>typ, HoldKinds DEF TypeOK, Status
    <3>2. CASE Overdue(a, block')
      <4>1. /\ status[a] = "pending_sale" /\ sale[a].expires < block'
            /\ status'[a] = "listed" /\ listing'[a] = listing[a]
        BY <1>10, <3>2 DEF Tick, Overdue
      <4>2. /\ HoldOf(a).kind = "promise" /\ HoldOf(a).until < block'
            /\ HoldOf(a).id = listing[a].id /\ HoldOf(a).ends = listing[a].expires
        BY <4>1, HoldKinds
      <4>3. HoldOf(a)' = Abstract!Offer(HoldOf(a).id, HoldOf(a).ends)
        BY <4>1, <4>2, HoldKindsAfter DEF Abstract!Offer
      <4> QED
        BY <4>2, <4>3
    <3>3. CASE ~Overdue(a, block')
      <4>1. HoldOf(a)' = HoldOf(a)
        BY <1>10, <3>3, HoldSame DEF Tick, SameRow
      <4>2. status[a] = "pending_sale" => ~(HoldOf(a).until < block')
        BY <3>3, HoldKinds DEF Overdue
      <4> QED
        BY <3>1, <4>1, <4>2
    <3> QED
      BY <3>2, <3>3
  <2>3. Abstract!Pass
    BY <2>1, <2>2 DEF Abstract!Pass
  <2> QED
    BY <2>3 DEF Abstract!CustodyNext
<1> QED
  BY <1>1, <1>2, <1>3, <1>4, <1>5, <1>6, <1>7, <1>8, <1>9, <1>10, <1>typ,
     StepKinds

\* Every behaviour of the ledger, read as what holds each asset, is one the
\* custody promise allows: owners lose an asset only while nothing holds it
\* or to the buyer it was promised to, in time.
THEOREM LedgerImplementsCustody == Spec => ImplementsCustody
<1>1. LedgerInv /\ [Next]_vars => [Abstract!CustodyNext]_(Abstract!custody)
  BY CustodyStep
<1> QED
  BY <1>1, CustodyInitially, LedgerCorrect, PTL
  DEF Spec, ImplementsCustody, Abstract!CustodySpec
=============================================================================
