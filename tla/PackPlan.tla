------------------------------ MODULE PackPlan ------------------------------
(***************************************************************************)
(* The packs engine: it plans, off the chain, the opening of a number of   *)
(* packs, drawing the seeds of each from a weighted table, and hands its   *)
(* items to bulk_distribute, which takes all of them or none.              *)
(* The generator is a SHA-256 of the opening's context: any roll.          *)
(***************************************************************************)
EXTENDS Integers, Sequences, FiniteSets, SequencesExt, FiniteSetsExt

CONSTANTS
    Draws,          \* seeds in the drop table
    Weight,         \* Weight[s]: positive
    TableOrder,     \* the table's order
    PerPack,        \* itemsPerPack
    PackSupply,     \* maxSupply of the pack; 0 = unlimited
    Stock,          \* bound: what seeds may still have to distribute
    Batch           \* quantity of packs opened, at most MAX_PACK_OPEN_BATCH

Unlimited == -1
TotalWeight == FoldLeft(LAMBDA sum, s : Weight[s] + sum, 0, TableOrder)

ASSUME PackAssumption ==
    /\ TableOrder \in Seq(Draws) /\ IsInjective(TableOrder) /\ Range(TableOrder) = Draws /\ Draws # {}
    /\ Weight \in [Draws -> Nat \ {0}] /\ PerPack \in Nat \ {0}
    /\ PackSupply \in Nat /\ Batch \in Nat \ {0} /\ Stock \subseteq Nat \cup {Unlimited}

VARIABLES
    available,      \* supply of each seed before the plan, or no snapshot
    reserved,       \* reservations of each seed before the plan, or Unlimited
    opened,         \* packs looked at so far: [draw, delivered]
    planned         \* planned[s]: distribution and consumption of reservations

packVars == <<available, reserved, opened, planned>>

Missing == -2       \* no snapshot of the seed

\* computeReservedSupply: shares of the whole demand, rounded up.
ReservedSupply(s) ==
    (PackSupply * PerPack * Weight[s] + TotalWeight - 1) \div TotalWeight

\* Openings start from reservations that validateReservationDemand let through,
\* as far as earlier openings left them; or without any.
PackInit ==
    /\ available \in [Draws -> Stock \cup {Missing}]
    /\ reserved \in {[s \in Draws |-> Unlimited], [s \in Draws |-> ReservedSupply(s)]}
    /\ PackSupply = 0 => \A s \in Draws : reserved[s] = Unlimited
    /\ \A s \in Draws : reserved[s] # Unlimited /\ available[s] >= 0 => reserved[s] <= available[s]
    /\ opened = <<>> /\ planned = [s \in Draws |-> 0]

\* The first entry whose cumulated weight exceeds the roll.
Rolled(roll) ==
    LET Upto(n) == FoldLeft(LAMBDA sum, s : Weight[s] + sum, 0, SubSeq(TableOrder, 1, n))
    IN  TableOrder[Min({n \in DOMAIN TableOrder : roll < Upto(n)})]

DrawnSeeds(rolls) == [n \in DOMAIN rolls |-> Rolled(rolls[n])]

\* Mutant: what earlier packs of the batch took is not counted.
ObtainableAlone(s) ==
    /\ available[s] # Missing
    /\ available[s] # Unlimited => available[s] >= 1
    /\ reserved[s] # Unlimited => reserved[s] >= 1

\* Each draw is compared with what earlier packs left, not with what the same
\* pack has drawn.
Obtainable(s) ==
    /\ available[s] # Missing
    /\ available[s] # Unlimited => available[s] - planned[s] >= 1
    /\ reserved[s] # Unlimited => reserved[s] - planned[s] >= 1

Times(draw, s) == Cardinality({n \in DOMAIN draw : draw[n] = s})

OpenPack(rolls) ==
    LET draw == DrawnSeeds(rolls)
        delivered == \A s \in Range(draw) : Obtainable(s)
    IN  /\ Len(opened) < Batch
        /\ opened' = Append(opened, [draw |-> draw, delivered |-> delivered])
        /\ planned' = IF delivered THEN [s \in Draws |-> planned[s] + Times(draw, s)] ELSE planned
        /\ UNCHANGED <<available, reserved>>

PackNext == \E rolls \in [1..PerPack -> 0..(TotalWeight - 1)] : OpenPack(rolls)

PackSpec == PackInit /\ [][PackNext]_packVars
-----------------------------------------------------------------------------
(* Properties. *)

Fits(s) ==
    /\ available[s] # Unlimited => planned[s] <= Max({available[s], 0})
    /\ reserved[s] # Unlimited => planned[s] <= reserved[s]

\* "plan.items is the exact bulk_distribute item list", and packs are skipped
\* "when finite supply runs out mid-batch" (the engine's README and tests): the
\* plan asks of no seed more than it has left.  Not so of a seed that one pack
\* draws twice, whose second draw nobody compares with anything.
PlanFitsDistinctDraws ==
    \A s \in Draws : (\A n \in DOMAIN opened : Times(opened[n].draw, s) <= 1) => Fits(s)
=============================================================================
