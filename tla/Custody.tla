------------------------------- MODULE Custody -------------------------------
(***************************************************************************)
(* What the marketplace and the lending desk promise about one asset,      *)
(* whatever allowances, settlement nodes, counters and transactions bring  *)
(* it about.  An asset is free, on offer, promised to one buyer, on loan,  *)
(* or gone for good; its owner changes only                                *)
(*   - while nothing holds it (an offer that has run out holds nothing), or *)
(*   - to the buyer it is promised to, before the promise and the offer    *)
(*     it was made on run out.                                             *)
(* A promise ends in no other way than by being kept or by running out.    *)
(***************************************************************************)
EXTENDS Naturals

CONSTANTS
    Assets, Accounts,
    Terms,          \* how many blocks an offer may stand
    Patience,       \* blocks a promise may last
    LastBlock       \* bound: the end of the modelled chain

VARIABLES
    block,
    owner,          \* owner[a]
    hold,           \* hold[a]: what holds the asset
    offers          \* number of offers made so far, numbering them

custody == <<block, owner, hold, offers>>

Free == [kind |-> "free"]
Gone == [kind |-> "gone"]
Offer(id, ends) == [kind |-> "offer", id |-> id, ends |-> ends]
Promise(id, ends, buyer, until) ==
    [kind |-> "promise", id |-> id, ends |-> ends,
     buyer |-> buyer, until |-> until]
OnLoan(by, to) == [kind |-> "loan", by |-> by, to |-> to]

Loose(a) ==
    \/ hold[a] = Free
    \/ hold[a].kind = "offer" /\ block >= hold[a].ends

Hold(S, h) == hold' = [a \in Assets |-> IF a \in S THEN h ELSE hold[a]]

-----------------------------------------------------------------------------
CustodyInit ==
    /\ block = 1
    /\ owner \in [Assets -> Accounts]
    /\ hold = [a \in Assets |-> Free]
    /\ offers = 0

Give(S, u) ==
    /\ \A a \in S : Loose(a)
    /\ owner' = [a \in Assets |-> IF a \in S THEN u ELSE owner[a]]
    /\ Hold(S, Free)
    /\ UNCHANGED <<block, offers>>

Destroy(S) ==
    /\ \A a \in S : hold[a] = Free
    /\ Hold(S, Gone)
    /\ UNCHANGED <<block, owner, offers>>

MakeOffer(a) ==
    /\ Loose(a)
    /\ \E term \in Terms : Hold({a}, Offer(offers + 1, block + term))
    /\ offers' = offers + 1
    /\ UNCHANGED <<block, owner>>

Withdraw(a) ==
    /\ hold[a].kind = "offer"
    /\ Hold({a}, Free)
    /\ UNCHANGED <<block, owner, offers>>

MakePromise(a, b) ==
    /\ hold[a].kind = "offer" /\ ~Loose(a) /\ owner[a] # b
    /\ Hold({a}, Promise(hold[a].id, hold[a].ends, b, block + Patience))
    /\ UNCHANGED <<block, owner, offers>>

KeepPromise(a) ==
    /\ hold[a].kind = "promise"
    /\ block <= hold[a].until /\ block < hold[a].ends
    /\ owner' = [owner EXCEPT ![a] = hold[a].buyer]
    /\ Hold({a}, Free)
    /\ UNCHANGED <<block, offers>>

LendOut(a, b) ==
    /\ hold[a] = Free /\ owner[a] # b
    /\ Hold({a}, OnLoan(owner[a], b))
    /\ UNCHANGED <<block, owner, offers>>

TakeBack(a) ==
    /\ hold[a].kind = "loan"
    /\ Hold({a}, Free)
    /\ UNCHANGED <<block, owner, offers>>

\* Time passes; promises that have run out fall back to the offer.
Pass ==
    /\ block < LastBlock
    /\ block' = block + 1
    /\ hold' = [a \in Assets |->
            IF hold[a].kind = "promise" /\ hold[a].until < block'
            THEN Offer(hold[a].id, hold[a].ends)
            ELSE hold[a]]
    /\ UNCHANGED <<owner, offers>>

CustodyNext ==
    \/ \E S \in SUBSET Assets :
        Destroy(S) \/ \E u \in Accounts : Give(S, u)
    \/ \E a \in Assets :
        \/ MakeOffer(a) \/ Withdraw(a) \/ KeepPromise(a) \/ TakeBack(a)
        \/ \E b \in Accounts : MakePromise(a, b) \/ LendOut(a, b)
    \/ Pass

CustodySpec == CustodyInit /\ [][CustodyNext]_custody
=============================================================================
