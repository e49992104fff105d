---------------------------- MODULE MarketProofs ----------------------------
(***************************************************************************)
(* Theorems about the ledger of Market, for every set of accounts, assets, *)
(* nodes and collections and every value of the protocol's windows.        *)
(*                                                                         *)
(* TypeOK is inductive by itself.  The safety invariants are not: that an  *)
(* asset's holds exclude each other needs status, listing, reservation,    *)
(* loan and allowance together, which is what LedgerInv conjoins.          *)
(***************************************************************************)
EXTENDS Market, FiniteSetTheorems, TLAPS

-----------------------------------------------------------------------------
(* The node directory. RegistryTypeOK is inductive: who has beaten is         *)
(* registered, which is what the action property needs.                       *)

LEMMA RegistryTypeInit == RegistryInit => RegistryTypeOK
  BY RegistryAssumption DEF RegistryInit, RegistryTypeOK, Row, NoRow, NullBlock,
     Registered

LEMMA RegistryTypeStep ==
    RegistryTypeOK /\ [RegistryNext]_registryVars => RegistryTypeOK'
<1> SUFFICES ASSUME RegistryTypeOK, [RegistryNext]_registryVars
             PROVE  RegistryTypeOK'
  OBVIOUS
<1> USE RegistryAssumption DEF RegistryTypeOK, Row, NullBlock, Registered
<1>1. CASE \E n \in Nodes : Register(n)
  BY <1>1 DEF Register
<1>2. CASE \E n \in Nodes : Heartbeat(n)
  BY <1>2 DEF Heartbeat
<1>3. CASE NextBlock
  BY <1>3 DEF NextBlock
<1>4. CASE UNCHANGED registryVars
  BY <1>4 DEF registryVars
<1> QED
  BY <1>1, <1>2, <1>3, <1>4 DEF RegistryNext

\* The directory is well typed, records no block of the future, and holds a
\* heartbeat of registered nodes only.
THEOREM RegistryTypeCorrect == RegistrySpec => []RegistryTypeOK
  BY RegistryTypeInit, RegistryTypeStep, PTL DEF RegistrySpec

\* A step that makes a silent node active again is its heartbeat.
LEMMA RevivalStep ==
    ASSUME RegistryTypeOK, RegistryNext, NEW n \in Nodes,
           node[n].beat # NullBlock, ~Active(n), Active(n)'
    PROVE  node'[n].beat = block'
<1> USE RegistryAssumption
    DEF RegistryTypeOK, Row, NullBlock, Registered, Active, Activity
<1>1. ASSUME NEW m \in Nodes, Register(m)
      PROVE  node'[n].beat = block'
  <2>1. block' = block /\ node'[n].beat = node[n].beat
    BY <1>1 DEF Register
  <2>2. block - node[n].beat <= MaxStale
    BY <2>1
  <2> QED
    BY <2>2
<1>2. ASSUME NEW m \in Nodes, Heartbeat(m)
      PROVE  node'[n].beat = block'
  <2>1. CASE m = n
    BY <1>2, <2>1 DEF Heartbeat
  <2>2. CASE m # n
    <3>1. node'[n] = node[n] /\ block' = block
      BY <1>2, <2>2 DEF Heartbeat
    <3> QED
      BY <3>1
  <2> QED
    BY <2>1, <2>2
<1>3. CASE NextBlock
  <2>1. block' = block + 1 /\ node'[n] = node[n]
    BY <1>3 DEF NextBlock
  <2> QED
    BY <2>1
<1> QED
  BY <1>1, <1>2, <1>3 DEF RegistryNext

\* A node that has published a state root and fell silent regains its signing
\* power only with another heartbeat, whatever it registers meanwhile.
THEOREM SilentNodesStaySilent ==
    RegistrySpec => SilentNodeRevivedOnlyByHeartbeat
<1>1. RegistryTypeOK /\ [RegistryNext]_registryVars =>
        [\A n \in Nodes :
            (node[n].beat # NullBlock /\ ~Active(n) /\ Active(n)')
                => node'[n].beat = block']_registryVars
  BY RevivalStep
<1> QED
  BY <1>1, RegistryTypeCorrect, PTL
  DEF RegistrySpec, SilentNodeRevivedOnlyByHeartbeat

-----------------------------------------------------------------------------
(* The ledger.                                                                *)

LEMMA SubsetCount ==
    ASSUME NEW S \in SUBSET Assets
    PROVE  Cardinality(S) \in Nat
  BY MarketAssumption, FS_Subset, FS_CardinalityType

\* What a change of owner leaves in the columns it writes.
LEMMA MoveType ==
    ASSUME TypeOK, NEW S \in SUBSET Assets, NEW u \in Accounts, MoveTo(S, u)
    PROVE  /\ owner' \in [Assets -> Accounts]
           /\ status' \in [Assets -> Status]
           /\ listing' \in [Assets -> Listing \cup {Null}]
           /\ sale' \in [Assets -> Sale \cup {Null}]
           /\ allowance' \in [Assets -> Allowance \cup {Null}]
           /\ listed' \in [Collections -> Int]
<1>1. \A c \in Collections : Cardinality(StillListed(S, c)) \in Nat
  BY SubsetCount DEF StillListed, InCollection
<1>2. listed' \in [Collections -> Int]
  BY <1>1 DEF MoveTo, TypeOK
<1> QED
  BY <1>2 DEF MoveTo, WithoutAllowances, TypeOK, Status

LEMMA DropType ==
    ASSUME TypeOK, NEW S, NEW u, DropEmptyApprovals(u, S)
    PROVE  approvals' \subseteq Approval
  BY DEF DropEmptyApprovals, TypeOK

LEMMA TypeInit == Init => TypeOK
<1> SUFFICES ASSUME Init
             PROVE  TypeOK
  OBVIOUS
<1>1. RegistryTypeOK
  BY RegistryTypeInit DEF Init
<1>2. listings \in 0..MaxListings
  BY MarketAssumption DEF Init
<1>3. wedged \in BOOLEAN
  BY DEF Init
<1> QED
  BY <1>1, <1>2, <1>3 DEF Init, TypeOK, Status

\* Every step keeps every column in its type.
LEMMA TypeStep == TypeOK /\ [Next]_vars => TypeOK'
<1> SUFFICES ASSUME TypeOK, [Next]_vars
             PROVE  TypeOK'
  OBVIOUS
<1> USE DEF TypeOK, Status
<1> DEFINE Quiet == UNCHANGED registryVars
<1>0. Quiet => RegistryTypeOK'
  BY RegistryTypeStep
<1>col. \A a \in Assets : CollectionOf[a] \in Collections
  BY MarketAssumption
<1>1. ASSUME NEW u \in Accounts, NEW a \in Assets, NEW ttl \in ListingTTL,
             List(u, a, ttl)
      PROVE  TypeOK'
  <2>1. [id |-> listings + 1, expires |-> block + ttl] \in Listing
    BY <1>1, MarketAssumption DEF List, Listing, ListingIds, RegistryTypeOK
  <2>2. listed' \in [Collections -> Int]
    BY <1>1, <1>col DEF List
  <2>3. listings' \in 0..MaxListings
    BY <1>1, MarketAssumption DEF List
  <2>4. status' \in [Assets -> {"active", "listed", "pending_sale", "lent", "burned"}]
    BY <1>1 DEF List
  <2>5. listing' \in [Assets -> Listing \cup {Null}]
    BY <1>1, <2>1 DEF List
  <2>6. allowance' \in [Assets -> Allowance \cup {Null}]
    BY <1>1 DEF List, WithoutAllowances
  <2> QED
    BY <1>0, <1>1, <2>2, <2>3, <2>4, <2>5, <2>6 DEF List
<1>2. ASSUME NEW u \in Accounts, NEW a \in Assets, ListReserved(u, a)
      PROVE  TypeOK'
  BY <1>0, <1>2 DEF ListReserved, ledger
<1>3. ASSUME NEW u \in Accounts, NEW a \in Assets, Unlist(u, a)
      PROVE  TypeOK'
  <2>1. listed' \in [Collections -> Int]
    BY <1>3, <1>col DEF Unlist
  <2> QED
    BY <1>0, <1>3, <2>1 DEF Unlist
<1>4. ASSUME NEW n \in Nodes, NEW b \in Accounts, NEW tx \in BuyTx,
             BuyCommitment(n, tx.asset, b, tx)
      PROVE  TypeOK'
  <2>1. [buyer |-> b, node |-> n, expires |-> block + CommitTTL, tx |-> tx]
            \in Sale
    BY MarketAssumption DEF Sale, RegistryTypeOK
  <2> QED
    BY <1>0, <1>4, <2>1 DEF BuyCommitment
<1>5. ASSUME NEW tx \in BuyTx, Buy(tx)
      PROVE  TypeOK'
  <2>1. tx.asset \in Assets /\ tx.buyer \in Accounts
    BY DEF BuyTx
  <2> QED
    BY <1>0, <1>5, <2>1, MoveType, DropType DEF Buy, BuyAccepted
<1>6. ASSUME NEW u \in Accounts, NEW to \in Accounts, NEW S \in SUBSET Assets,
             Transfer(u, to, S)
      PROVE  TypeOK'
  BY <1>0, <1>6, MoveType, DropType DEF Transfer
<1>7. ASSUME NEW u \in Accounts, NEW S \in SUBSET Assets, Burn(u, S)
      PROVE  TypeOK'
  BY <1>0, <1>7, DropType DEF Burn, WithoutAllowances
<1>8. ASSUME NEW s \in Accounts, NEW f \in Accounts, NEW t \in Accounts,
             NEW a \in Assets, TransferFrom(s, f, t, a)
      PROVE  TypeOK'
  BY <1>0, <1>8, MoveType, DropType DEF TransferFrom
<1>9. ASSUME NEW u \in Accounts, NEW a \in Assets,
             NEW row \in Allowance \cup {Null}, Approve(u, a, row)
      PROVE  TypeOK'
  BY <1>0, <1>9 DEF Approve
<1>10. ASSUME NEW u \in Accounts, NEW s \in Accounts, NEW c \in Collections,
              ApproveAll(u, s, c) \/ RevokeAll(u, s, c)
       PROVE  TypeOK'
  BY <1>0, <1>10 DEF ApproveAll, RevokeAll, Approval
<1>11. ASSUME NEW u \in Accounts, NEW b \in Accounts, NEW a \in Assets,
              Lend(u, b, a)
       PROVE  TypeOK'
  <2>1. [lender |-> u, borrower |-> b] \in Loan
    BY DEF Loan
  <2> QED
    BY <1>0, <1>11, <2>1 DEF Lend, WithoutAllowances
<1>12. ASSUME NEW u \in Accounts, NEW a \in Assets, Return(u, a)
       PROVE  TypeOK'
  BY <1>0, <1>12 DEF Return
<1>13. ASSUME Tick
       PROVE  TypeOK'
  BY <1>13, RegistryTypeStep DEF Tick, RegistryNext
<1>14. ASSUME NEW n \in Nodes, NodeOperation(n)
       PROVE  TypeOK'
  BY <1>14, RegistryTypeStep DEF NodeOperation, RegistryNext, ledger
<1>15. CASE UNCHANGED vars
  BY <1>0, <1>15 DEF vars, registryVars
<1>16. \A u \in Accounts, s \in Accounts :
            [owner |-> u, spender |-> s] \in Allowance
  BY DEF Allowance
<1> QED
  <2>1. Trade => TypeOK'
    BY <1>1, <1>2, <1>3, <1>4, <1>5 DEF Trade
  <2>2. Handover => TypeOK'
    BY <1>6, <1>7 DEF Handover
  <2>3. Delegate => TypeOK'
    BY <1>8, <1>9, <1>10, <1>16, MarketAssumption DEF Delegate
  <2>4. Borrow => TypeOK'
    BY <1>11, <1>12, MarketAssumption DEF Borrow
  <2> QED
    BY <2>1, <2>2, <2>3, <2>4, <1>13, <1>14, <1>15 DEF Next

\* Every row of every table keeps its type in every reachable state.
THEOREM TypeCorrect == Spec => []TypeOK
  BY TypeInit, TypeStep, PTL DEF Spec

-----------------------------------------------------------------------------
(***************************************************************************)
(* What holds of one asset: the columns of its row and its rows in other   *)
(* tables agree.                                                           *)
(***************************************************************************)
Reserved(a) ==
    /\ status[a] = "pending_sale" <=> sale[a] # Null
    /\ status[a] \in {"listed", "pending_sale"} <=> listing[a] # Null
    /\ sale[a] # Null =>
        /\ sale[a].buyer # owner[a]
        /\ block <= sale[a].expires
        /\ sale[a].expires < listing[a].expires + CommitTTL
Lent(a) ==
    /\ status[a] = "lent" <=> loan[a] # Null
    /\ loan[a] # Null =>
        loan[a].lender = owner[a] /\ loan[a].borrower # owner[a]
Allowed(a) ==
    allowance[a] # Null =>
        /\ status[a] = "active"
        /\ allowance[a].owner = owner[a]
        /\ allowance[a].spender # owner[a]

Held(a) == Reserved(a) /\ Lent(a) /\ Allowed(a)

LedgerInv == TypeOK /\ \A a \in Assets : Held(a)

LEMMA LedgerInvParts ==
    LedgerInv => ReservationCoherent /\ LoanBacksLent /\ AllowanceFresh
  BY DEF LedgerInv, Held, Reserved, Lent, Allowed, ReservationCoherent,
     LoanBacksLent, AllowanceFresh

Untouched(a) ==
    /\ owner'[a] = owner[a] /\ status'[a] = status[a]
    /\ listing'[a] = listing[a] /\ sale'[a] = sale[a]
    /\ loan'[a] = loan[a] /\ allowance'[a] = allowance[a]

LEMMA UntouchedHeld ==
    ASSUME NEW a \in Assets, Held(a), Untouched(a), block' = block
    PROVE  Held(a)'
  BY DEF Held, Reserved, Lent, Allowed, Untouched

\* An asset nothing holds is coherent, whoever owns it.
Bare(a) ==
    /\ status[a] \in {"active", "burned"}
    /\ listing[a] = Null /\ sale[a] = Null /\ loan[a] = Null
    /\ allowance[a] = Null

LEMMA BareHeld ==
    ASSUME NEW a \in Assets, Bare(a)'
    PROVE  Held(a)'
  BY DEF Held, Reserved, Lent, Allowed, Bare

\* A change of owner bares what moves and leaves the rest alone, provided no
\* asset that moves is on loan.
LEMMA MoveHeld ==
    ASSUME LedgerInv, NEW S \in SUBSET Assets, NEW u \in Accounts,
           MoveTo(S, u), UNCHANGED <<block, loan>>,
           \A a \in S : status[a] # "lent"
    PROVE  \A a \in Assets : Held(a)'
<1> SUFFICES ASSUME NEW a \in Assets
             PROVE  Held(a)'
  OBVIOUS
<1>1. Held(a)
  BY DEF LedgerInv
<1>2. CASE a \in S
  <2>1. loan[a] = Null
    BY <1>1, <1>2 DEF Held, Lent
  <2>2. Bare(a)'
    BY <1>2, <2>1 DEF MoveTo, WithoutAllowances, Bare
  <2> QED
    BY <2>2, BareHeld
<1>3. CASE a \notin S
  <2>1. Untouched(a)
    BY <1>3 DEF MoveTo, WithoutAllowances, Untouched
  <2> QED
    BY <1>1, <2>1, UntouchedHeld
<1> QED
  BY <1>2, <1>3

LEMMA LedgerInit == Init => LedgerInv
<1> SUFFICES ASSUME Init
             PROVE  \A a \in Assets : Held(a)
  BY TypeInit DEF LedgerInv
<1> QED
  BY DEF Init, Held, Reserved, Lent, Allowed

\* The assets an operation on a leaves alone stay coherent.
LEMMA OthersHeld ==
    ASSUME LedgerInv, block' = block, NEW a \in Assets,
           \A x \in Assets \ {a} : Untouched(x), Held(a)'
    PROVE  \A x \in Assets : Held(x)'
  BY UntouchedHeld DEF LedgerInv

\* The rows the operations insert are not NULL.
LEMMA RowsNotNull ==
    /\ Null \notin Listing /\ Null \notin Sale
    /\ Null \notin Loan /\ Null \notin Allowance
  BY MarketAssumption

\* Every operation keeps every asset coherent.
LEMMA LedgerStep == LedgerInv /\ [Next]_vars => LedgerInv'
<1> SUFFICES ASSUME LedgerInv, [Next]_vars
             PROVE  \A x \in Assets : Held(x)'
  BY TypeStep DEF LedgerInv
<1> DEFINE Goal == \A x \in Assets : Held(x)'
<1>typ. TypeOK
  BY DEF LedgerInv
<1>typ2. TypeOK'
  BY <1>typ, TypeStep
<1>inv. \A a \in Assets : Held(a)
  BY DEF LedgerInv
<1>blk. block \in Nat
  BY <1>typ DEF TypeOK, RegistryTypeOK
<1>1. ASSUME NEW u \in Accounts, NEW a \in Assets, NEW ttl \in ListingTTL,
             List(u, a, ttl)
      PROVE  Goal
  <2>1. block' = block /\ \A x \in Assets \ {a} : Untouched(x)
    BY <1>1, <1>typ
    DEF List, WithoutAllowances, Untouched, TypeOK, registryVars
  <2>2. [id |-> listings + 1, expires |-> block + ttl] \in Listing
    BY <1>1, <1>typ, <1>blk, MarketAssumption
    DEF List, Listing, ListingIds, TypeOK
  <2>3. /\ status'[a] = "listed" /\ listing'[a] # Null
        /\ sale'[a] = Null /\ allowance'[a] = Null /\ loan'[a] = loan[a]
    BY <1>1, <1>typ, <2>2, RowsNotNull DEF List, WithoutAllowances, TypeOK
  <2>4. loan[a] = Null
    BY <1>1, <1>inv DEF List, ListAccepted, Held, Lent
  <2>5. Held(a)'
    BY <2>3, <2>4 DEF Held, Reserved, Lent, Allowed
  <2> QED
    BY <2>1, <2>5, OthersHeld
<1>2. ASSUME NEW u \in Accounts, NEW a \in Assets, ListReserved(u, a)
      PROVE  Goal
  <2>1. block' = block /\ \A x \in Assets : Untouched(x)
    BY <1>2 DEF ListReserved, ledger, Untouched, registryVars
  <2> QED
    BY <2>1, <1>inv, UntouchedHeld
<1>3. ASSUME NEW u \in Accounts, NEW a \in Assets, Unlist(u, a)
      PROVE  Goal
  <2>1. block' = block /\ \A x \in Assets \ {a} : Untouched(x)
    BY <1>3, <1>typ DEF Unlist, Untouched, TypeOK, registryVars
  <2>2. Bare(a)'
    BY <1>3, <1>typ, <1>inv DEF Unlist, Bare, Held, Reserved, Lent, Allowed, TypeOK
  <2> QED
    BY <2>1, <2>2, BareHeld, OthersHeld
<1>4. ASSUME NEW n \in Nodes, NEW b \in Accounts, NEW tx \in BuyTx,
             BuyCommitment(n, tx.asset, b, tx)
      PROVE  Goal
  <2> DEFINE a == tx.asset
             row == [buyer |-> b, node |-> n,
                     expires |-> block + CommitTTL, tx |-> tx]
  <2>0. a \in Assets
    BY DEF BuyTx
  <2>1. block' = block /\ \A x \in Assets \ {a} : Untouched(x)
    BY <1>4, <1>typ, <2>0 DEF BuyCommitment, Untouched, TypeOK, registryVars
  <2>2. row \in Sale
    BY <1>blk, MarketAssumption DEF Sale
  <2>3. /\ status'[a] = "pending_sale" /\ sale'[a] = row
        /\ listing'[a] = listing[a] /\ owner'[a] = owner[a]
        /\ loan'[a] = loan[a] /\ allowance'[a] = allowance[a]
    BY <1>4, <1>typ, <2>0 DEF BuyCommitment, TypeOK
  <2>4. /\ listing[a] # Null /\ loan[a] = Null /\ allowance[a] = Null
        /\ ~(block >= listing[a].expires) /\ owner[a] # b
    BY <1>4, <1>inv, <2>0
    DEF BuyCommitment, Expired, Held, Reserved, Lent, Allowed
  <2>5. listing[a].expires \in Nat
    BY <2>0, <2>4, <1>typ DEF TypeOK, Listing
  <2>6. /\ row.expires = block + CommitTTL /\ row.buyer = b /\ row # Null
    BY <2>2, RowsNotNull
  <2>7. /\ block <= row.expires /\ row.expires < listing[a].expires + CommitTTL
    BY <2>4, <2>5, <2>6, <1>blk, MarketAssumption
  <2>8. Held(a)'
    BY <2>1, <2>3, <2>4, <2>6, <2>7 DEF Held, Reserved, Lent, Allowed
  <2> QED
    BY <2>0, <2>1, <2>8, OthersHeld
<1>5. ASSUME NEW tx \in BuyTx, Buy(tx)
      PROVE  Goal
  <2>1. tx.asset \in Assets /\ tx.buyer \in Accounts
    BY DEF BuyTx
  <2>2. /\ MoveTo({tx.asset}, tx.buyer) /\ status[tx.asset] # "lent"
        /\ UNCHANGED <<block, loan>>
    BY <1>5 DEF Buy, BuyAccepted, registryVars
  <2> QED
    BY <2>1, <2>2, MoveHeld
<1>6. ASSUME NEW u \in Accounts, NEW to \in Accounts, NEW S \in SUBSET Assets,
             Transfer(u, to, S)
      PROVE  Goal
  <2>1. /\ MoveTo(S, to) /\ \A a \in S : status[a] # "lent"
        /\ UNCHANGED <<block, loan>>
    BY <1>6 DEF Transfer, OwnershipChangeable, registryVars
  <2> QED
    BY <2>1, MoveHeld
<1>7. ASSUME NEW u \in Accounts, NEW S \in SUBSET Assets, Burn(u, S)
      PROVE  Goal
  <2> SUFFICES ASSUME NEW x \in Assets
               PROVE  Held(x)'
    OBVIOUS
  <2>1. CASE x \in S
    <3>1. Bare(x)'
      BY <1>7, <2>1, <1>inv
      DEF Burn, WithoutAllowances, Bare, Held, Reserved, Lent
    <3> QED
      BY <3>1, BareHeld
  <2>2. CASE x \notin S
    <3>1. Untouched(x) /\ block' = block
      BY <1>7, <2>2 DEF Burn, WithoutAllowances, Untouched, registryVars
    <3> QED
      BY <3>1, <1>inv, UntouchedHeld
  <2> QED
    BY <2>1, <2>2
<1>8. ASSUME NEW s \in Accounts, NEW f \in Accounts, NEW t \in Accounts,
             NEW a \in Assets, TransferFrom(s, f, t, a)
      PROVE  Goal
  <2>1. /\ MoveTo({a}, t) /\ status[a] # "lent" /\ UNCHANGED <<block, loan>>
    BY <1>8 DEF TransferFrom, OwnershipChangeable, registryVars
  <2> QED
    BY <2>1, MoveHeld
<1>9. ASSUME NEW u \in Accounts, NEW a \in Assets,
             NEW row \in Allowance \cup {Null}, Approve(u, a, row),
             row # Null => row.owner = u /\ row.spender # u
      PROVE  Goal
  <2>1. block' = block /\ \A x \in Assets \ {a} : Untouched(x)
    BY <1>9, <1>typ DEF Approve, Untouched, TypeOK, registryVars
  <2>2. Held(a)'
    BY <1>9, <1>typ, <1>inv, <2>1
    DEF Approve, Held, Reserved, Lent, Allowed, TypeOK
  <2> QED
    BY <2>1, <2>2, OthersHeld
<1>10. ASSUME NEW u \in Accounts, NEW s \in Accounts, NEW c \in Collections,
              ApproveAll(u, s, c) \/ RevokeAll(u, s, c)
       PROVE  Goal
  <2>1. block' = block /\ \A x \in Assets : Untouched(x)
    BY <1>10 DEF ApproveAll, RevokeAll, Untouched, registryVars
  <2> QED
    BY <2>1, <1>inv, UntouchedHeld
<1>11. ASSUME NEW u \in Accounts, NEW b \in Accounts, NEW a \in Assets,
              Lend(u, b, a)
       PROVE  Goal
  <2> DEFINE row == [lender |-> u, borrower |-> b]
  <2>1. block' = block /\ \A x \in Assets \ {a} : Untouched(x)
    BY <1>11, <1>typ
    DEF Lend, WithoutAllowances, Untouched, TypeOK, registryVars
  <2>2. row \in Loan
    BY DEF Loan
  <2>3. /\ status'[a] = "lent" /\ loan'[a] = row /\ owner'[a] = owner[a]
        /\ listing'[a] = listing[a] /\ sale'[a] = sale[a]
        /\ allowance'[a] = Null
    BY <1>11, <1>typ DEF Lend, WithoutAllowances, TypeOK
  <2>4. listing[a] = Null /\ sale[a] = Null /\ owner[a] = u /\ b # u
    BY <1>11, <1>inv DEF Lend, Held, Reserved
  <2>5. row # Null /\ row.lender = u /\ row.borrower = b
    BY <2>2, RowsNotNull
  <2>6. Held(a)'
    BY <2>3, <2>4, <2>5 DEF Held, Reserved, Lent, Allowed
  <2> QED
    BY <2>1, <2>6, OthersHeld
<1>12. ASSUME NEW u \in Accounts, NEW a \in Assets, Return(u, a)
       PROVE  Goal
  <2>1. block' = block /\ \A x \in Assets \ {a} : Untouched(x)
    BY <1>12, <1>typ DEF Return, Untouched, TypeOK, registryVars
  <2>2. Bare(a)'
    BY <1>12, <1>typ, <1>inv
    DEF Return, Bare, Held, Reserved, Lent, Allowed, TypeOK
  <2> QED
    BY <2>1, <2>2, BareHeld, OthersHeld
<1>13. ASSUME Tick
       PROVE  Goal
  <2> SUFFICES ASSUME NEW x \in Assets
               PROVE  Held(x)'
    OBVIOUS
  <2>1. /\ owner'[x] = owner[x] /\ listing'[x] = listing[x]
        /\ loan'[x] = loan[x] /\ allowance'[x] = allowance[x]
    BY <1>13 DEF Tick
  <2>2. block' = block + 1
    BY <1>13 DEF Tick, NextBlock
  <2>3. CASE Overdue(x, block')
    <3>1. status'[x] = "listed" /\ sale'[x] = Null /\ status[x] = "pending_sale"
      BY <1>13, <2>3 DEF Tick, Overdue
    <3> QED
      BY <2>1, <3>1, <1>inv DEF Held, Reserved, Lent, Allowed
  <2>4. CASE ~Overdue(x, block')
    <3>1. status'[x] = status[x] /\ sale'[x] = sale[x]
      BY <1>13, <2>4 DEF Tick
    <3>2. sale[x] # Null => sale[x].expires \in Nat
      BY <1>typ, MarketAssumption DEF TypeOK, Sale
    <3>3. sale[x] # Null => block' <= sale[x].expires
      BY <2>2, <2>4, <3>2, <1>inv, <1>blk DEF Overdue, Held, Reserved
    <3> QED
      BY <2>1, <3>1, <3>3, <1>inv DEF Held, Reserved, Lent, Allowed
  <2> QED
    BY <2>3, <2>4
<1>14. ASSUME NEW n \in Nodes, NodeOperation(n)
       PROVE  Goal
  <2>1. block' = block /\ \A x \in Assets : Untouched(x)
    BY <1>14 DEF NodeOperation, Register, Heartbeat, ledger, Untouched
  <2> QED
    BY <2>1, <1>inv, UntouchedHeld
<1>15. CASE UNCHANGED vars
  <2>1. block' = block /\ \A x \in Assets : Untouched(x)
    BY <1>15 DEF vars, Untouched
  <2> QED
    BY <2>1, <1>inv, UntouchedHeld
<1> QED
  <2>1. Trade => Goal
    BY <1>1, <1>2, <1>3, <1>4, <1>5 DEF Trade
  <2>2. Handover => Goal
    BY <1>6, <1>7 DEF Handover
  <2>3. \A u \in Accounts, s \in Accounts :
            LET row == [owner |-> u, spender |-> s]
            IN  row \in Allowance /\ row.owner = u /\ row.spender = s
    BY DEF Allowance
  <2>4. Delegate => Goal
    BY <1>8, <1>9, <1>10, <2>3, MarketAssumption DEF Delegate
  <2>5. Borrow => Goal
    BY <1>11, <1>12, MarketAssumption DEF Borrow
  <2> QED
    BY <2>1, <2>2, <2>4, <2>5, <1>13, <1>14, <1>15 DEF Next

LEMMA LedgerCorrect == Spec => []LedgerInv
  BY LedgerInit, LedgerStep, PTL DEF Spec

\* A reservation never outlives its window or its listing by more than the
\* settlement window, and sale_* and listing_* columns follow the status.
THEOREM ReservationsCoherent == Spec => []ReservationCoherent
  BY LedgerCorrect, LedgerInvParts, PTL

\* Loan rows and the status 'lent' go together, and the lender is the owner.
THEOREM LoansBackLent == Spec => []LoanBacksLent
  BY LedgerCorrect, LedgerInvParts, PTL

\* No single-asset allowance outlives the ownership it was granted from, or
\* stands beside a listing, a reservation or a loan.
THEOREM AllowancesFresh == Spec => []AllowanceFresh
  BY LedgerCorrect, LedgerInvParts, PTL
=============================================================================
