------------------------------- MODULE MCLight -------------------------------
(***************************************************************************)
(* Trails for the light client: one asset, two people, three buyers'       *)
(* transactions through two nodes, two endpoints.  Whoever mints, and the  *)
(* order of the first transfers, are fixed; lists, commitments and buys    *)
(* come in every order.  Purchases that pay something else than the price, *)
(* and collections with other royalties, come in short trails.             *)
(***************************************************************************)
EXTENDS LightClient, SequencesExt

CONSTANTS ann, bob, m1, m2, b1, b2, b3

Buying(id, node) == [id |-> id, buyer |-> bob, node |-> node]
SomeBuys == {Buying(b1, m1), Buying(b2, m2), Buying(b3, m1)}
TwoMirrors == <<"m1", "m2">>

InHive == [amount |-> 1000, currency |-> "HIVE"]
SomePrices == {InHive, [amount |-> 1000, currency |-> "HBD"]}

ToNode(memo, amount, currency) ==
    [memo |-> memo, from |-> ann, to |-> m1, amount |-> amount, currency |-> currency]
WholeFee == ToNode("collection", CollectionFee, "HBD")
House(royalty, royaltyTo, others) ==
    [royalty |-> royalty, royaltyTo |-> royaltyTo, node |-> m1, fees |-> <<WholeFee>> \o others,
     twin |-> FALSE]
Usual == House(500, "cleo", <<>>)

\* Royalties to nobody, to the seller and to the node; other transfers beside
\* the fee, of which only the last kind spoils it.
SomeHouses ==
    {Usual, House(0, Nobody, <<>>), House(500, ann, <<>>),
     House(5000, m1, <<ToNode("other", CollectionFee, "HBD"), [WholeFee EXCEPT !.to = m2]>>),
     House(500, "cleo", <<ToNode("collection", 1, "HIVE")>>)}

\* The payments of the price, through m1 or m2; ann sells.
Price(home, node) ==
    LET legs == Split([price |-> InHive.amount, royalty |-> home.royalty,
                       royaltyTo |-> home.royaltyTo, seller |-> ann], node)
    IN  SetToSeq({Paying(bob, leg, InHive.currency) : leg \in legs})

\* One of them missing, doubled or changed, or a changed one before or after the rest.
Spoilt(t) ==
    {[t EXCEPT !.memo = "other"], [t EXCEPT !.memo = "seller"], [t EXCEPT !.from = ann],
     [t EXCEPT !.to = ann], [t EXCEPT !.to = m2], [t EXCEPT !.amount = @ + 1],
     [t EXCEPT !.currency = "HBD"]}
Odd(paid) ==
    {<<>>} \cup UNION {
        {RemoveAt(paid, i), Append(paid, paid[i])}
        \cup {ReplaceAt(paid, i, t) : t \in Spoilt(paid[i])}
        \cup {<<t>> \o paid : t \in Spoilt(paid[i])} \cup {Append(paid, t) : t \in Spoilt(paid[i])} :
        i \in DOMAIN paid}

InFull(home) == [tx \in SomeBuys |-> Price(home, tx.node)]
\* Every operation alone in its transaction, or one of them not.
ByItself == [i \in 1..MaxTrail |-> [first |-> Lone, twin |-> FALSE]]
After(first) == [ByItself EXCEPT ![2].first = first]
Ahead(kind, signer, price, here) ==
    [kind |-> kind, signer |-> signer, price |-> price, here |-> here]
Beside ==
    {[ByItself EXCEPT ![2].twin = TRUE], After(Ahead("list", bob, InHive, TRUE)),
     After(Ahead("list", ann, InHive, FALSE)), After(Ahead("unlist", ann, InHive, TRUE))}

Plain == [home |-> Usual, paid |-> InFull(Usual), beside |-> ByItself]
\* Under a name of its own it is evaluated once.
Sales ==
    {Plain, [Plain EXCEPT !.home.twin = TRUE]}
    \cup {[Plain EXCEPT !.beside = others] : others \in Beside}
    \cup UNION {
        {[Plain EXCEPT !.home = home, !.paid = [InFull(home) EXCEPT ![Buying(b1, m1)] = paid]] :
            paid \in {Price(home, m1)} \cup Odd(Price(home, m1))} : home \in SomeHouses}
SomeTerms == Sales

Handovers == {"transfer", "batch_transfer", "transfer_from"}

\* Without refusals, and no listing that ends.
Steady ==
    unseen = {} /\ \A i \in DOMAIN trail : trail[i].kind = "list" => trail[i].ends > LastHeight

\* The asset comes into being first, and changes hands or is listed next, or first
\* the one and then the other, the second in any block; the rest of the trail is
\* the market's.  The third buy, like the first in all but name, comes after it.
InOrder(op, i) ==
    /\ i = 1 => op.signer = ann
    /\ i = 2 => trail[1].kind = "mint"
    /\ op.kind \in Handovers => i = 2 \/ (i = 3 /\ trail[2].kind = "list")
    /\ op.kind = "list" => i \in {2, 3} /\ (given = Plain => op.price = InHive)
    /\ op.block > 1 => op.kind \in {"commit", "buy", "unlist"} \/ i = 3
    /\ op.kind \in {"commit", "buy"} =>
          /\ trail[op.listing].kind = "list" \/ (op.kind = "buy" /\ op.listing = 1)
          /\ op.tx.id = b3 => \E j \in 2..i : trail[j].kind = "commit" /\ trail[j].tx.id = b1
    /\ i = MaxTrail => Steady /\ \A j \in 2..3 : trail[j].kind \notin Handovers

\* If the asset does not change hands first, listings end and operations are
\* refused unseen, several of them in the first block only; a buy may name the
\* mint for a listing.
MayBeOdd(op) ==
    /\ height <= IF \E j \in unseen : trail[j].kind = "list" THEN 1 ELSE 4
    /\ Cardinality(unseen) <= IF height = 1 THEN 3 ELSE 1
    /\ trail[1].to = ann /\ trail[2].kind \notin Handovers
    /\ op.kind \in Handovers => unseen = {}
    /\ op.kind \in {"commit", "buy"} => op.tx.id # b3

Early ==
    LET i == Len(trail)
        op == trail[i]
    IN  i # 0 =>
        /\ InOrder(op, i)
        /\ ~Steady => MayBeOdd(op)
        /\ given # Plain =>
              /\ height = 1 /\ i <= 4 /\ Steady
              /\ op.kind \in {"mint", "list", "commit", "buy"} /\ (i = 1 => op.to = ann)
              /\ op.kind \in {"commit", "buy"} => op.tx.id = b1

TrailSpec == LightInit /\ [][LightNext /\ Early' /\ Steady']_lightVars
=============================================================================
