---------------------------- MODULE PaymentSplit ----------------------------
(***************************************************************************)
(* How the price of a sale is divided, in thousandths of HIVE or HBD: the  *)
(* protocol's fee to the settlement node, the creator's royalty, and the   *)
(* rest to the seller.  Shares are rounded half up; a leg of no units, to  *)
(* oneself or to nobody, is not paid.                                      *)
(***************************************************************************)
EXTENDS Integers, FiniteSets, FiniteSetsExt

BasisPoints == 10000
ProtocolFee == 100          \* PROTOCOL_FEE_BPS
MaxRoyalty == 5000          \* MAX_ROYALTY_PCT, in basis points
MinPrice == 100             \* MIN_PRICE_AMOUNT
CollectionFee == 100        \* PROTOCOL_COLLECTION_FEE_HBD

Nobody == "nobody"

\* Mutant: shares are rounded up.
ShareUp(total, points) == (total * points + BasisPoints - 1) \div BasisPoints

Share(total, points) == (2 * total * points + BasisPoints) \div (2 * BasisPoints)

Leg(leg, to, amount) == [leg |-> leg, to |-> to, amount |-> amount]

\* sale: [price, royalty (in basis points), royaltyTo, seller].
Split(sale, feeAccount) ==
    LET fee == IF feeAccount = sale.seller THEN 0 ELSE Share(sale.price, ProtocolFee)
        royalty == IF sale.royaltyTo \in {Nobody, sale.seller}
                   THEN 0 ELSE Share(sale.price, sale.royalty)
    IN  {Leg("seller", sale.seller, sale.price - royalty - fee)}
        \cup {l \in {Leg("royalty", sale.royaltyTo, royalty), Leg("fee", feeAccount, fee)} :
                  l.amount > 0}
=============================================================================
