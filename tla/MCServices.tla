------------------------------ MODULE MCServices ------------------------------
(***************************************************************************)
(* The parts around the indexer that do not touch one another, in one run: *)
(* `focus` says which of them moves while the others stay where they began.*)
(* The purchase race is MCBuySettlement's, the packs are MCPacks', the     *)
(* trails of the light client are MCLight's.                               *)
(***************************************************************************)
EXTENDS MCBuySettlement, CollectionSigning, MCLight, MCPacks, Admission

CONSTANTS r1, r2, r3, r4, S1, S2, k1, v1, v2

VARIABLE focus

servicesVars == <<vars, signingVars, lightVars, packVars, admissionVars, focus>>
-----------------------------------------------------------------------------
(* Signing: a request and its retry under one key, one for another symbol, *)
(* and one more for the first; and one that another node signs.            *)

Draft(n, symbol, expires) ==
    [id |-> n, creator |-> ann, symbol |-> symbol, expires |-> expires, sound |-> TRUE]
Asks(id, tx, key) == [id |-> id, tx |-> tx, key |-> key]
SomeInquiries ==
    {Asks(r1, Draft(1, S1, 2), k1), Asks(r2, Draft(1, S1, 2), k1),
     Asks(r3, Draft(2, S2, 5), NoKey), Asks(r4, Draft(3, S1, 5), NoKey)}
OthersDrafts == {Draft(4, S2, 2)}

\* One breakdown, one block of a silent node, or one signature of another node.
OneOddity == breakdowns + Cardinality(turnedAway) + Cardinality(OnChain \cap Elsewhere) <= 1
-----------------------------------------------------------------------------
(* Admission: every operation with at most two fields out of order. *)

Words == {"good", "other", "odd", "empty", "long", "wrong", "null", "absent"}

EnvelopeBase ==
    [shape |-> "good", auths |-> "active", customId |-> "good", json |-> "good",
     protocol |-> "good", version |-> "good", body |-> "good"]
EnvelopeMenu ==
    [shape |-> {"odd"}, auths |-> {"posting", "mixed", "joint", "none"}, customId |-> {"other"},
     json |-> {"odd", "long"}, protocol |-> {"other"}, version |-> {"newer", "low", "odd", "wrong"},
     body |-> {"wrong"}]

CollectionBase ==
    [payer |-> "good", feeTo |-> "node", fee |-> "exact", memo |-> "good", id |-> "good",
     name |-> "good", symbol |-> "good", originDna |-> "good", metadata |-> "good",
     description |-> "good", image |-> "absent", externalUrl |-> "absent", rules |-> "good",
     transferable |-> "good", burnable |-> "good", royaltyPct |-> "zero",
     royaltyRecipient |-> "absent", totalPotential |-> "zero", maxInstances |-> "zero",
     schema |-> "absent"]
CollectionMenu ==
    [payer |-> {"odd"}, feeTo |-> {"other"}, fee |-> {"over", "under", "hive"}, memo |-> {"other"},
     id |-> Words, name |-> Words \ {"other", "odd"}, symbol |-> Words \ {"other"},
     originDna |-> Words, metadata |-> {"wrong", "absent"}, description |-> Words,
     image |-> {"good"}, externalUrl |-> Words, rules |-> {"wrong", "absent"},
     transferable |-> {"wrong", "absent"}, burnable |-> {"wrong", "absent"},
     royaltyPct |-> {"some", "under", "over", "wrong"}, royaltyRecipient |-> Words,
     totalPotential |-> {"some", "under", "fraction", "wrong"},
     maxInstances |-> {"multiple", "uneven", "over", "under", "fraction", "wrong"},
     schema |-> {"good", "null", "odd", "wrong"}]

\* Whom the buyer trusts: nobody, or accounts that trust others in turn.
Grants(threshold, key, buyer, friend, third) ==
    [threshold |-> threshold, key |-> key,
     trusts |-> [a \in {"buyer", "friend", "third"} |->
                    CASE a = "buyer" -> buyer [] a = "friend" -> friend [] OTHER -> third]]
Alone == [a \in {"buyer", "friend", "third"} |-> Grants(1, IF a = "buyer" THEN 1 ELSE 0, 0, 0, 0)]
Graphs ==
    {[a \in {"buyer", "friend", "third"} |->
        CASE a = "buyer" -> b [] a = "friend" -> f [] OTHER -> t] :
        b \in {Grants(2, k, 0, f, t) : k \in 0..1, f \in 0..2, t \in 0..1},
        f \in {Grants(h, k, b, 0, t) : h \in 1..2, k \in 0..1, b \in 0..1, t \in 0..2},
        t \in {Grants(1, k, 0, f, 0) : k \in 0..1, f \in 0..1}}

PurchaseBase ==
    [payer |-> "good", legs |-> "good", assetId |-> "good", listingId |-> "good",
     listTxId |-> "good", authority |-> Alone, fetched |-> DOMAIN Alone, balance |-> "enough"]
PurchaseMenu ==
    [payer |-> {"odd", "mixed"}, legs |-> {"short", "extra", "none"}, assetId |-> Words,
     listingId |-> Words, listTxId |-> Words, balance |-> {"short", "unheard"}]

TargetBase == [target |-> "someone"]
TargetMenu == [target |-> {"absent", "wrong", "odd", "burn", "signer"}]
TransferBase == [ids |-> "one", from |-> "absent"] @@ TargetBase
TransferMenu ==
    [ids |-> {"array of one", "array", "none", "over", "wrong"}, from |-> {"good"}] @@ TargetMenu

\* The variants of one action's fields with at most two of them changed.
Variants(action, base, menu) ==
    LET fields == base @@ EnvelopeBase
        values == menu @@ EnvelopeMenu
        changes == UNION {{k} \X values[k] : k \in DOMAIN values}
    IN  {[action |-> action, fields |-> [fields EXCEPT ![c[1]] = c[2], ![d[1]] = d[2]]] :
            c \in changes, d \in changes}

\* Under a name of its own it is evaluated once.
Operations ==
    Variants("create_collection", CollectionBase, CollectionMenu)
    \cup Variants("buy", PurchaseBase, PurchaseMenu)
    \cup UNION {Variants(a, TargetBase, TargetMenu) :
                a \in {"asset_transfer_from", "asset_lend"}}
    \cup Variants("transfer", TransferBase, TransferMenu)
    \cup UNION {Variants(a, TargetBase, [auths |-> {"posting"}] @@ TargetMenu) :
                a \in {"mint", "bulk_distribute"}}
    \cup {[action |-> "buy", fields |->
            [PurchaseBase EXCEPT !.authority = g, !.fetched = heard] @@ EnvelopeBase] :
                g \in Graphs, heard \in {DOMAIN Alone, {"buyer", "friend"}}}
SomeSubmissions == Operations

PlainSubmission == [action |-> "buy", fields |-> PurchaseBase @@ EnvelopeBase]

\* The account matters only where a target is named.
AccountMatters ==
    submitted.action \in NodeSigned => born' = Never /\ (tick' > tick => step = "landed")
-----------------------------------------------------------------------------
ServicesInit ==
    /\ focus \in {"buying", "signing", "light", "packs", "admission"}
    /\ LightInit /\ (focus # "light" => given = Plain)
    /\ PackInit
    /\ focus # "packs" => /\ available = [s \in Draws |-> Missing]
                          /\ reserved = [s \in Draws |-> Unlimited]
    /\ AdmissionInit /\ (focus # "admission" => submitted = PlainSubmission)
    /\ Init /\ SigningInit

ServicesNext ==
    /\ UNCHANGED focus
    /\ \/ focus = "buying" /\ Next
          /\ UNCHANGED <<signingVars, lightVars, packVars, admissionVars>>
       \/ focus = "signing" /\ SigningNext /\ OneOddity'
          /\ UNCHANGED <<vars, lightVars, packVars, admissionVars>>
       \/ focus = "light" /\ LightNext /\ Early'
          /\ UNCHANGED <<vars, signingVars, packVars, admissionVars>>
       \/ focus = "packs" /\ PackNext
          /\ UNCHANGED <<vars, signingVars, lightVars, admissionVars>>
       \/ focus = "admission" /\ AdmissionNext /\ AccountMatters
          /\ UNCHANGED <<vars, signingVars, lightVars, packVars>>

ServicesSpec == ServicesInit /\ [][ServicesNext]_servicesVars
=============================================================================
