-------------------------- MODULE BuySettlementProofs --------------------------
(***************************************************************************)
(* Theorems about the sale of one asset, for any number of nodes, of buyers*)
(* and of blocks, and for all delays.  Two hypotheses on the constants are *)
(* not assumptions of the model, since it also runs without them: that an  *)
(* accepted expiration fits into the window a commitment opens, and that a *)
(* commitment shows in the node's view before the lock of its request is   *)
(* gone.                                                                   *)
(***************************************************************************)
EXTENDS BuySettlement, FiniteSetTheorems, TLAPS

\* MULTISIG_TX_MAX_EXPIRATION_MS is BUY_TX_TTL_MS, BUY_COMMITMENT_TTL_BLOCKS as
\* many blocks; the block being produced is one ahead, and so may the clock be.
WindowFits == Drift + MaxLeft <= TTL + 1

-----------------------------------------------------------------------------
(* What the rows, the pool and the tables hold. *)

Coherent(row) == row \in Row /\ (row.status = "pending_sale" <=> row.tx # NoTx)

Shapes ==
    /\ head \in Nat /\ Coherent(open)
    /\ \A b \in DOMAIN sealed : b \in 0..head /\ Coherent(sealed[b])
    /\ pool \subseteq Operation
    /\ expiry \in [1..MaxListings -> Nat] /\ silent \in [Nodes -> Nat]
    /\ paid \in [Txs -> Nat] /\ delivered \subseteq Txs
    /\ request \in [Txs -> Phases] /\ terms \in [Txs -> Terms]
    /\ lock \in [Nodes -> [tx : Txs \cup {NoTx}, until : Nat]]

\* A node's view is one of the rows that are kept, and stays one.
Views ==
    /\ seen \in [Nodes -> Nat] /\ cursor \in [Nodes -> Nat]
    /\ \A n \in Nodes : seen[n] <= head /\ cursor[n] <= head
    /\ \A n \in Nodes : \A b \in cursor[n]..head : b \in DOMAIN sealed

LEMMA RowsCoherent ==
    /\ \A v \in 0..MaxListings : Coherent(ForSale(v)) /\ Coherent(OffSale(v))
    /\ \A v \in 0..MaxListings, t \in Txs, u \in Nat :
        Coherent([status |-> "pending_sale", listing |-> v, tx |-> t, until |-> u])
    /\ \A row, b : Coherent(row) => Coherent(Sweep(row, b))
  BY SettlementAssumption DEF Coherent, Row, ForSale, OffSale, Sweep

LEMMA ShapesInit == Init => Shapes
<1> SUFFICES ASSUME Init PROVE Shapes
  OBVIOUS
<1>1. head \in Nat /\ Coherent(open)
  <2>1. open = ForSale(1) /\ head = 0
    BY DEF Init
  <2>2. 1 \in 0..MaxListings
    BY SettlementAssumption
  <2> QED
    BY <2>1, <2>2, RowsCoherent
<1>2. \A b \in DOMAIN sealed : b \in 0..head /\ sealed[b] = open
  BY DEF Init
<1>3. expiry \in [1..MaxListings -> Nat] /\ silent \in [Nodes -> Nat]
  BY SettlementAssumption DEF Init
<1>4. /\ pool \subseteq Operation /\ paid \in [Txs -> Nat] /\ delivered \subseteq Txs
      /\ request \in [Txs -> Phases]
  BY DEF Init, Phases
<1>5. terms \in [Txs -> Terms]
  BY SettlementAssumption DEF Init, Terms
<1>6. lock \in [Nodes -> [tx : Txs \cup {NoTx}, until : Nat]]
  BY DEF Init, NoLock
<1> QED
  BY <1>1, <1>2, <1>3, <1>4, <1>5, <1>6 DEF Shapes

LEMMA ViewsInit == Init => Views
  BY SettlementAssumption DEF Init, Views

-----------------------------------------------------------------------------
(* The kinds of steps.  What a node does leaves the chain, the terms and    *)
(* its view alone, but for what it sends.                                   *)

NodeStep(t) ==
    \/ Acquire(t) \/ Commit(t) \/ Poll(t) \/ GiveUp(t) \/ FinalGate(t) \/ Settle(t)
    \/ Resend(t) \/ CommitFails(t) \/ SettleFails(t) \/ Crash(t)

Accept(t) ==
    \E v \in 1..MaxListings, e \in 1..(LastBlock + MaxLeft + Drift) : Validate(t, v, e)

LEMMA StepKinds ==
    ASSUME [Next]_vars
    PROVE  \/ NextBlock \/ Unlist \/ Relist
           \/ \E op \in pool : IncludeCommitment(op) \/ IncludeBuy(op)
           \/ \E n \in Nodes : Index(n)
           \/ \E t \in Txs : Accept(t) \/ NodeStep(t)
           \/ UNCHANGED vars
  BY DEF Next, Accept, NodeStep

LEMMA NodeStepLeaves ==
    ASSUME Shapes, NEW t \in Txs, NodeStep(t)
    PROVE  /\ UNCHANGED <<head, open, sealed, expiry, silent, paid, delivered, seen, cursor, terms>>
           /\ request[t] # "new"
           /\ request' \in [Txs -> Phases]
           /\ \A u \in Txs : u # t => request'[u] = request[u]
           /\ request'[t] = "won" => request[t] = "waiting" /\ Won(t)
           /\ request'[t] = "cleared" => request[t] = "won"
           /\ \/ pool' = pool
              \/ /\ request[t] = "locked"
                 /\ pool' = pool \cup {[kind |-> "buy_commitment", tx |-> t,
                                        expires |-> head + PoolLife]}
              \/ /\ request[t] = "cleared"
                 /\ pool' = pool \cup {[kind |-> "buy", tx |-> t, expires |-> terms[t].expires]}
<1> USE DEF Shapes, Phases, To, chainState, nodeState
<1>1. CASE Acquire(t)
  BY <1>1 DEF Acquire
<1>2. CASE Commit(t)
  BY <1>2 DEF Commit, Send
<1>3. CASE Poll(t)
  BY <1>3 DEF Poll
<1>4. CASE GiveUp(t)
  BY <1>4 DEF GiveUp
<1>5. CASE FinalGate(t)
  BY <1>5 DEF FinalGate
<1>6. CASE Settle(t)
  BY <1>6 DEF Settle, Send
<1>7. CASE Resend(t)
  BY <1>7 DEF Resend
<1>8. CASE CommitFails(t)
  BY <1>8 DEF CommitFails, Send
<1>9. CASE SettleFails(t)
  BY <1>9 DEF SettleFails, Send
<1>10. CASE Crash(t)
  BY <1>10 DEF Crash
<1> QED
  BY <1>1, <1>2, <1>3, <1>4, <1>5, <1>6, <1>7, <1>8, <1>9, <1>10 DEF NodeStep

\* A lock row changes hands only through Acquire and Release.
LEMMA NodeStepLocks ==
    ASSUME Shapes, NEW t \in Txs, NodeStep(t)
    PROVE  /\ \A n \in Nodes : n # NodeOf[t] => lock'[n] = lock[n]
           /\ lock' \in [Nodes -> [tx : Txs \cup {NoTx}, until : Nat]]
           /\ \/ lock' = lock
              \/ /\ request[t] = "valid" /\ FreeLock(t) /\ request'[t] = "locked"
                 /\ lock'[NodeOf[t]] = [tx |-> t, until |-> head + TTL]
              \/ /\ request[t] \in {"locked", "cleared"} /\ lock[NodeOf[t]].tx = t
                 /\ lock'[NodeOf[t]] = NoLock
<1> USE SettlementAssumption DEF Shapes
<1>0. NodeOf[t] \in Nodes /\ NoLock \in [tx : Txs \cup {NoTx}, until : Nat]
  BY DEF NoLock
<1>1. CASE Acquire(t)
  <2>1. CASE FreeLock(t)
    <3>1. PICK row : row = [tx |-> t, until |-> head + TTL]
      OBVIOUS
    <3>2. row \in [tx : Txs \cup {NoTx}, until : Nat]
      BY <3>1
    <3>3. /\ request[t] = "valid" /\ request' = [request EXCEPT ![t] = "locked"]
          /\ lock' = [lock EXCEPT ![NodeOf[t]] = row]
      BY <1>1, <2>1, <3>1 DEF Acquire, To
    <3> QED
      BY <1>0, <2>1, <3>1, <3>2, <3>3 DEF Phases
  <2>2. CASE ~FreeLock(t)
    BY <1>1, <2>2 DEF Acquire
  <2> QED
    BY <2>1, <2>2
<1>2. CASE Commit(t) \/ Poll(t) \/ GiveUp(t) \/ FinalGate(t) \/ Resend(t) \/ SettleFails(t) \/ Crash(t)
  BY <1>2 DEF Commit, Poll, GiveUp, FinalGate, Resend, SettleFails, Crash
<1>3. CASE Settle(t) \/ CommitFails(t)
  <2>1. request[t] \in {"locked", "cleared"} /\ Release(t)
    BY <1>3 DEF Settle, CommitFails
  <2> QED
    BY <1>0, <2>1 DEF Release
<1> QED
  BY <1>1, <1>2, <1>3 DEF NodeStep

LEMMA ShapesStep == Shapes /\ [Next]_vars => Shapes'
<1> SUFFICES ASSUME Shapes, [Next]_vars PROVE Shapes'
  OBVIOUS
<1>0. /\ TTL \in Nat /\ PoolLife \in Nat /\ MaxListings \in Nat /\ LastBlock \in Nat
      /\ MaxLeft \in Nat /\ Drift \in Nat /\ NodeOf \in [Txs -> Nodes] /\ NoTx \notin Txs
  BY SettlementAssumption
<1>1. CASE NextBlock
  <2>1. /\ head' = head + 1 /\ sealed' = [b \in DOMAIN sealed \cup {head'} |-> IF b = head' THEN open ELSE sealed[b]] /\ open' = Sweep(open, head' + 1)
        /\ pool' \subseteq pool /\ UNCHANGED <<expiry, silent, paid, delivered, request, terms>>
        /\ lock' = [n \in Nodes |-> IF lock[n].until < head' THEN NoLock ELSE lock[n]]
    BY <1>1 DEF NextBlock, nodeState
  <2>2. Coherent(open')
    BY <2>1, RowsCoherent DEF Shapes
  <2>3. ASSUME NEW b \in DOMAIN sealed'
        PROVE  b \in 0..head' /\ Coherent(sealed'[b])
    BY <2>1, <2>3 DEF Shapes
  <2>4. lock' \in [Nodes -> [tx : Txs \cup {NoTx}, until : Nat]]
    BY <2>1 DEF Shapes, NoLock
  <2> QED
    BY <2>1, <2>2, <2>3, <2>4 DEF Shapes
<1>2. CASE Unlist \/ Relist
  <2>1. /\ \E v \in 0..MaxListings : open' \in {ForSale(v), OffSale(v)}
        /\ UNCHANGED <<head, sealed, expiry, silent, pool, paid, delivered, request, terms, lock>>
    <3>1. open.listing \in 0..MaxListings
      BY DEF Shapes, Coherent, Row
    <3> QED
      BY <1>0, <1>2, <3>1 DEF Unlist, Relist
  <2> QED
    BY <2>1, RowsCoherent DEF Shapes
<1>3. ASSUME NEW op \in pool, IncludeCommitment(op)
      PROVE  Shapes'
  <2>1. /\ pool' \subseteq pool
        /\ UNCHANGED <<head, sealed, expiry, silent, paid, delivered, request, terms, lock>>
        /\ open' = open \/ open' = [status |-> "pending_sale", listing |-> open.listing,
                                    tx |-> op.tx, until |-> Now + TTL]
    BY <1>3 DEF IncludeCommitment
  <2>2. open.listing \in 0..MaxListings /\ op.tx \in Txs /\ Now + TTL \in Nat
    BY <1>0 DEF Shapes, Coherent, Row, Operation, Now
  <2>3. Coherent(open')
    BY <2>1, <2>2, RowsCoherent DEF Shapes
  <2> QED
    BY <2>1, <2>3 DEF Shapes
<1>4. ASSUME NEW op \in pool, IncludeBuy(op)
      PROVE  Shapes'
  <2>1. /\ pool' \subseteq pool /\ paid' = [paid EXCEPT ![op.tx] = Now]
        /\ delivered' \subseteq delivered \cup {op.tx}
        /\ UNCHANGED <<head, sealed, expiry, silent, request, terms, lock>>
        /\ open' = open \/ open' = OffSale(open.listing)
    BY <1>4 DEF IncludeBuy
  <2>2. open.listing \in 0..MaxListings /\ op.tx \in Txs /\ Now \in Nat
    BY DEF Shapes, Coherent, Row, Operation, Now
  <2>3. Coherent(open')
    BY <2>1, <2>2, RowsCoherent DEF Shapes
  <2> QED
    BY <2>1, <2>2, <2>3 DEF Shapes
<1>5. ASSUME NEW n \in Nodes, Index(n)
      PROVE  Shapes'
  <2>1. /\ UNCHANGED <<head, open, expiry, silent, pool, paid, delivered, request, terms, lock>>
        /\ \A b \in DOMAIN sealed' : b \in DOMAIN sealed /\ sealed'[b] = sealed[b]
    BY <1>5 DEF Index
  <2> QED
    BY <2>1 DEF Shapes
<1>6. ASSUME NEW t \in Txs, Accept(t)
      PROVE  Shapes'
  <2>1. PICK v \in 1..MaxListings, e \in 1..(LastBlock + MaxLeft + Drift) : Validate(t, v, e)
    BY <1>6 DEF Accept
  <2>2. /\ terms' = [terms EXCEPT ![t] = [listing |-> v, expires |-> e]]
        /\ request' = [request EXCEPT ![t] = "valid"]
        /\ UNCHANGED <<head, open, sealed, expiry, silent, pool, paid, delivered, lock>>
    BY <2>1 DEF Validate, To, chainState
  <2>3. terms' \in [Txs -> Terms]
    BY <1>0, <2>2 DEF Shapes, Terms
  <2> QED
    BY <2>2, <2>3 DEF Shapes, Phases
<1>7. ASSUME NEW t \in Txs, NodeStep(t)
      PROVE  Shapes'
  <2>1. [kind |-> "buy_commitment", tx |-> t, expires |-> head + PoolLife] \in Operation
    BY <1>0 DEF Shapes, Operation
  <2>2. [kind |-> "buy", tx |-> t, expires |-> terms[t].expires] \in Operation
    BY DEF Shapes, Operation, Terms
  <2>3. pool' \subseteq Operation
    <3>1. \/ pool' = pool
          \/ pool' = pool \cup {[kind |-> "buy_commitment", tx |-> t, expires |-> head + PoolLife]}
          \/ pool' = pool \cup {[kind |-> "buy", tx |-> t, expires |-> terms[t].expires]}
      BY <1>7, NodeStepLeaves
    <3>2. pool \subseteq Operation
      BY DEF Shapes
    <3> QED
      BY <2>1, <2>2, <3>1, <3>2
  <2> QED
    BY <1>7, <2>3, NodeStepLeaves, NodeStepLocks DEF Shapes
<1>8. CASE UNCHANGED vars
  BY <1>8 DEF vars, chainState, Shapes
<1> QED
  BY <1>1, <1>2, <1>3, <1>4, <1>5, <1>6, <1>7, <1>8, StepKinds

LEMMA ViewsStep == Shapes /\ Views /\ [Next]_vars => Views'
<1> SUFFICES ASSUME Shapes, Views, [Next]_vars PROVE Views'
  OBVIOUS
<1>1. CASE NextBlock
  <2>1. /\ head' = head + 1 /\ sealed' = [b \in DOMAIN sealed \cup {head'} |-> IF b = head' THEN open ELSE sealed[b]]
        /\ UNCHANGED <<seen, cursor>>
    BY <1>1 DEF NextBlock, nodeState
  <2>2. DOMAIN sealed' = {head'} \cup DOMAIN sealed
    BY <2>1
  <2>3. head \in Nat /\ \A n \in Nodes : cursor[n] \in Nat
    BY DEF Shapes, Views
  <2>4. ASSUME NEW n \in Nodes, NEW b \in cursor'[n]..head'
        PROVE  b \in DOMAIN sealed'
    <3>1. b = head' \/ b \in cursor[n]..head
      BY <2>1, <2>3
    <3> QED
      BY <2>2, <3>1 DEF Views
  <2> QED
    BY <2>1, <2>3, <2>4 DEF Views
<1>2. ASSUME NEW n \in Nodes, Index(n)
      PROVE  Views'
  <2>1. PICK b \in cursor[n]..Final(head) :
          /\ cursor' = [cursor EXCEPT ![n] = b] /\ seen' = [seen EXCEPT ![n] = head]
          /\ UNCHANGED head
          /\ DOMAIN sealed' = {c \in DOMAIN sealed : \E m \in Nodes : c >= cursor'[m]}
    BY <1>2 DEF Index
  <2>2. head \in Nat /\ cursor[n] \in Nat /\ Final(head) \in Nat /\ Final(head) <= head
    <3>1. head \in Nat /\ cursor[n] \in Nat /\ Finality \in Nat
      BY SettlementAssumption DEF Shapes, Views
    <3> QED
      BY <3>1 DEF Final
  <2>3. b \in Nat /\ b <= head /\ cursor[n] <= b
    BY <2>1, <2>2
  <2>4. /\ cursor' \in [Nodes -> Nat] /\ seen' \in [Nodes -> Nat]
        /\ \A m \in Nodes : cursor'[m] <= head /\ seen'[m] <= head /\ cursor[m] <= cursor'[m]
    BY <2>1, <2>2, <2>3 DEF Views
  <2>5. ASSUME NEW m \in Nodes, NEW c \in cursor'[m]..head'
        PROVE  c \in DOMAIN sealed'
    <3>1. c \in cursor[m]..head /\ c >= cursor'[m]
      BY <2>1, <2>2, <2>4 DEF Views
    <3> QED
      BY <2>1, <3>1 DEF Views
  <2> QED
    BY <2>1, <2>4, <2>5 DEF Views
<1>3. CASE UNCHANGED <<head, sealed, seen, cursor>>
  BY <1>3 DEF Views
<1>4. Unlist \/ Relist \/ (\E op \in pool : IncludeCommitment(op) \/ IncludeBuy(op))
        \/ (\E t \in Txs : Accept(t)) \/ UNCHANGED vars
        => UNCHANGED <<head, sealed, seen, cursor>>
  BY DEF Unlist, Relist, IncludeCommitment, IncludeBuy, Accept, Validate, vars, chainState, nodeState
<1> QED
  BY <1>1, <1>2, <1>3, <1>4, StepKinds, NodeStepLeaves

-----------------------------------------------------------------------------
(* A transaction that has ever had the asset reserved is paid, or has       *)
(* expired, or has it reserved for as long as it can still get into a block.*)

Reserved(t) == open.tx = t \/ \E b \in DOMAIN sealed : sealed[b].tx = t
OnItsWay(t) == \E op \in pool : op.kind = "buy" /\ op.tx = t
Marked(t) == Reserved(t) \/ request[t] \in {"won", "cleared"} \/ OnItsWay(t)
Trace(t) == Marked(t) \/ request[t] # "new" \/ paid[t] # 0 \/ \E op \in pool : op.tx = t

Holds(t) ==
    /\ open.status = "pending_sale" /\ open.tx = t
    /\ terms[t].expires <= open.until
    /\ open.listing = terms[t].listing
Past(t) == paid[t] # 0 \/ terms[t].expires < Now

Backed ==
    /\ \A t \in Txs : terms[t].expires <= Now + TTL
    /\ \A t \in Txs : terms[t].expires = 0 => ~Trace(t)
    /\ \A op \in pool : op.kind = "buy" => op.expires = terms[op.tx].expires
    /\ \A t \in Txs : Marked(t) => Past(t) \/ Holds(t)

LEMMA Plain ==
    ASSUME Shapes
    PROVE  /\ Now \in Nat /\ head \in Nat /\ TTL \in Nat /\ NoTx \notin Txs
           /\ open.until \in Nat /\ open.listing \in 0..MaxListings
           /\ \A t \in Txs : terms[t].expires \in Nat /\ paid[t] \in Nat /\ NodeOf[t] \in Nodes
           /\ \A op \in pool : op.tx \in Txs /\ op.expires \in Nat
           /\ (open.status = "pending_sale" <=> open.tx # NoTx)
<1>1. TTL \in Nat /\ NoTx \notin Txs /\ NodeOf \in [Txs -> Nodes]
  BY SettlementAssumption
<1>2. head \in Nat /\ Coherent(open) /\ pool \subseteq Operation
  BY DEF Shapes
<1>3. terms \in [Txs -> Terms] /\ paid \in [Txs -> Nat]
  BY DEF Shapes
<1>4. /\ open.until \in Nat /\ open.listing \in 0..MaxListings
      /\ (open.status = "pending_sale" <=> open.tx # NoTx)
  BY <1>2 DEF Coherent, Row
<1>5. \A op \in pool : op.tx \in Txs /\ op.expires \in Nat
  BY <1>2 DEF Operation
<1>6. \A t \in Txs : terms[t].expires \in Nat
  BY <1>3 DEF Terms
<1>7. Now \in Nat
  BY <1>2 DEF Now
<1> QED
  BY <1>1, <1>2, <1>3, <1>4, <1>5, <1>6, <1>7

LEMMA BackedInit == Init => Backed
<1> SUFFICES ASSUME Init PROVE Backed
  OBVIOUS
<1>1. open.tx = NoTx /\ \A b \in DOMAIN sealed : sealed[b].tx = NoTx
  BY DEF Init, ForSale
<1>2. \A t \in Txs : terms[t].expires = 0 /\ request[t] = "new" /\ paid[t] = 0
  BY DEF Init
<1>3. pool = {} /\ head = 0
  BY DEF Init
<1>4. \A t \in Txs : ~Trace(t)
  BY <1>1, <1>2, <1>3, SettlementAssumption DEF Trace, Marked, Reserved, OnItsWay
<1>5. Now + TTL \in Nat
  BY <1>3, SettlementAssumption DEF Now
<1> QED
  BY <1>2, <1>3, <1>4, <1>5 DEF Backed, Trace

\* Whatever a node does for a request, it marks no transaction anew: what wins
\* was reserved in the view, and what is broadcast had won.
LEMMA NodeStepMarksNothing ==
    ASSUME Shapes, Views, NEW t \in Txs, NodeStep(t)
    PROVE  /\ \A u \in Txs : Marked(u)' => Marked(u)
           /\ \A u \in Txs : Trace(u)' => Trace(u)
           /\ \A op \in pool' : op \in pool
                                \/ (op.tx = t /\ (op.kind = "buy" => op.expires = terms[t].expires))
<1>1. /\ UNCHANGED <<open, sealed, paid, terms>>
      /\ request[t] # "new"
      /\ \A u \in Txs : u # t => request'[u] = request[u]
      /\ request'[t] = "won" => Won(t)
      /\ request'[t] = "cleared" => request[t] = "won"
  BY NodeStepLeaves
<1>2. \A op \in pool' :
        \/ op \in pool
        \/ (op.tx = t /\ op.kind = "buy_commitment")
        \/ (op.tx = t /\ op.expires = terms[t].expires /\ request[t] = "cleared")
  BY NodeStepLeaves
<1>3. Won(t) => Reserved(t)
  <2>1. cursor[NodeOf[t]] \in DOMAIN sealed
    <3>1. NodeOf[t] \in Nodes
      BY SettlementAssumption
    <3>2. cursor[NodeOf[t]] \in cursor[NodeOf[t]]..head
      BY <3>1, Plain DEF Views
    <3> QED
      BY <3>1, <3>2 DEF Views
  <2> QED
    BY <2>1 DEF Won, View, Reserved
<1>4. \A u \in Txs : OnItsWay(u)' => OnItsWay(u) \/ (u = t /\ request[t] = "cleared")
  BY <1>2 DEF OnItsWay
<1>5. \A u \in Txs : Reserved(u)' <=> Reserved(u)
  BY <1>1 DEF Reserved
<1>6. \A u \in Txs : Marked(u)' => Marked(u)
  BY <1>1, <1>3, <1>4, <1>5 DEF Marked
<1>7. \A u \in Txs : Trace(u)' => Trace(u)
  <2>1. \A u \in Txs : (\E op \in pool' : op.tx = u) => (\E op \in pool : op.tx = u) \/ u = t
    BY <1>2
  <2> QED
    BY <1>1, <1>6, <2>1 DEF Trace
<1>8. \A op \in pool' : op \in pool
                        \/ (op.tx = t /\ (op.kind = "buy" => op.expires = terms[t].expires))
  BY <1>2
<1> QED
  BY <1>6, <1>7, <1>8

LEMMA BackedNodeStep ==
    ASSUME Shapes, Views, Backed, NEW t \in Txs, NodeStep(t)
    PROVE  Backed'
<1>1. UNCHANGED <<head, open, sealed, paid, terms>>
  BY NodeStepLeaves
<1>2. /\ \A u \in Txs : Marked(u)' => Marked(u)
      /\ \A u \in Txs : Trace(u)' => Trace(u)
      /\ \A op \in pool' : op \in pool
                           \/ (op.tx = t /\ (op.kind = "buy" => op.expires = terms[t].expires))
  BY NodeStepMarksNothing
<1>3. \A u \in Txs : (Past(u)' <=> Past(u)) /\ (Holds(u)' <=> Holds(u))
  BY <1>1 DEF Past, Holds, Now
<1> QED
  BY <1>1, <1>2, <1>3 DEF Backed, Now

\* The buyer's bytes are fixed by the first request that is let through.
LEMMA BackedAccept ==
    ASSUME WindowFits, Shapes, Backed, NEW t \in Txs, Accept(t)
    PROVE  Backed'
<1>1. PICK v \in 1..MaxListings, e \in 1..(LastBlock + MaxLeft + Drift) : Validate(t, v, e)
  BY DEF Accept
<1>2. PICK drift \in 0..Drift : e <= head + drift + MaxLeft
  BY <1>1 DEF Validate
<1>3. /\ request[t] = "new" /\ request' = [request EXCEPT ![t] = "valid"]
      /\ terms' = [terms EXCEPT ![t] = [listing |-> v, expires |-> e]]
      /\ terms[t].expires # 0 => terms[t] = [listing |-> v, expires |-> e]
      /\ UNCHANGED <<head, open, sealed, pool, paid>>
  BY <1>1 DEF Validate, To, chainState
<1>4. e \in Nat /\ e # 0 /\ e <= Now + TTL
  BY <1>2, Plain, SettlementAssumption DEF WindowFits, Now
<1>5. /\ terms'[t].expires = e /\ \A u \in Txs : u # t => terms'[u] = terms[u]
      /\ terms[t].expires # 0 => terms'[t] = terms[t]
  BY <1>3 DEF Shapes
<1>6. \A u \in Txs : (Marked(u)' <=> Marked(u)) /\ (u # t => (Trace(u)' <=> Trace(u)))
  BY <1>3 DEF Marked, Trace, Reserved, OnItsWay, Shapes
<1>7. \A u \in Txs : u # t \/ terms[t].expires # 0 => (Past(u)' <=> Past(u)) /\ (Holds(u)' <=> Holds(u))
  BY <1>3, <1>5 DEF Past, Holds, Now
<1>8. \A u \in Txs : terms'[u].expires <= Now + TTL
  BY <1>4, <1>5 DEF Backed
<1>9. \A op \in pool : op.kind = "buy" => op.expires = terms'[op.tx].expires
  <2>1. \A op \in pool : op.tx = t => terms[t].expires # 0
    BY DEF Backed, Trace
  <2> QED
    BY <1>5, <2>1, Plain DEF Backed
<1>10. \A u \in Txs : Marked(u) => Past(u)' \/ Holds(u)'
  <2>1. Marked(t) => terms[t].expires # 0
    BY DEF Backed, Trace
  <2> QED
    BY <1>7, <2>1 DEF Backed
<1>11. \A u \in Txs : terms'[u].expires = 0 => ~Trace(u)'
  BY <1>4, <1>5, <1>6 DEF Backed
<1>12. (Now + TTL)' = Now + TTL
  BY <1>3 DEF Now
<1> QED
  BY <1>3, <1>6, <1>8, <1>9, <1>10, <1>11, <1>12 DEF Backed

\* A step that marks nothing anew, and leaves what holds the asset holding it
\* unless its time has passed, is harmless.
LEMMA BackedQuiet ==
    ASSUME Shapes, Backed, UNCHANGED <<terms, request>>, Now' \in Nat, Now <= Now',
           pool' \subseteq pool,
           \A u \in Txs : Reserved(u)' => Reserved(u),
           \A u \in Txs : paid'[u] # 0 => Trace(u),
           \A u \in Txs : Past(u) => Past(u)',
           \A u \in Txs : Holds(u) => Past(u)' \/ Holds(u)'
    PROVE  Backed'
<1>1. \A u \in Txs : OnItsWay(u)' => OnItsWay(u)
  BY DEF OnItsWay
<1>2. \A u \in Txs : Marked(u)' => Marked(u)
  BY <1>1 DEF Marked
<1>3. \A u \in Txs : (\E op \in pool' : op.tx = u) => \E op \in pool : op.tx = u
  OBVIOUS
<1>4. \A u \in Txs : Trace(u)' => Trace(u)
  BY <1>2, <1>3 DEF Trace
<1>5. \A u \in Txs : terms'[u].expires <= (Now + TTL)'
  <2>1. ASSUME NEW u \in Txs
        PROVE  terms[u].expires <= Now' + TTL
    <3>1. terms[u].expires <= Now + TTL
      BY DEF Backed
    <3>2. terms[u].expires \in Nat /\ Now \in Nat /\ TTL \in Nat
      BY Plain
    <3> QED
      BY <3>1, <3>2
  <2> QED
    BY <2>1
<1>6. \A op \in pool' : op.kind = "buy" => op.expires = terms'[op.tx].expires
  BY DEF Backed
<1>7. \A u \in Txs : Marked(u)' => Past(u)' \/ Holds(u)'
  BY <1>2 DEF Backed
<1>8. \A u \in Txs : terms'[u].expires = 0 => ~Trace(u)'
  BY <1>4 DEF Backed
<1> QED
  BY <1>5, <1>6, <1>7, <1>8 DEF Backed

LEMMA BackedCommitment ==
    ASSUME Shapes, Backed, NEW op \in pool, IncludeCommitment(op)
    PROVE  Backed'
<1>0. PICK k \in Txs : k = op.tx
  BY Plain
<1>1. /\ UNCHANGED <<head, sealed, paid, request, terms>> /\ pool' \subseteq pool
      /\ Now' = Now
  BY DEF IncludeCommitment, Now, nodeState
<1>2. CASE ~Committable(k)
  <2>1. open' = open
    BY <1>0, <1>2 DEF IncludeCommitment
  <2>2. \A u \in Txs : /\ Reserved(u)' => Reserved(u)
                       /\ Past(u)' <=> Past(u)
                       /\ Holds(u)' <=> Holds(u)
    BY <1>1, <2>1 DEF Reserved, Past, Holds
  <2>3. \A u \in Txs : paid'[u] # 0 => Trace(u)
    BY <1>1 DEF Trace
  <2> QED
    BY <1>1, <2>2, <2>3, BackedQuiet, Plain
<1>3. CASE Committable(k)
  <2>1. /\ open.status = "listed" /\ open.listing = terms[k].listing
        /\ open' = [status |-> "pending_sale", listing |-> open.listing,
                    tx |-> k, until |-> Now + TTL]
    BY <1>0, <1>3 DEF IncludeCommitment, Committable
  <2>2. Holds(k)'
    BY <1>1, <2>1 DEF Holds, Backed
  <2>3. \A u \in Txs : u # k => (Marked(u)' => Marked(u)) /\ (Trace(u)' => Trace(u))
    <3>1. \A u \in Txs : u # k => (Reserved(u)' => Reserved(u))
      BY <1>1, <2>1 DEF Reserved
    <3>2. \A u \in Txs : OnItsWay(u)' => OnItsWay(u)
      BY <1>1 DEF OnItsWay
    <3>3. \A u \in Txs : u # k => (Marked(u)' => Marked(u))
      BY <1>1, <3>1, <3>2 DEF Marked
    <3>4. \A u \in Txs : (\E o \in pool' : o.tx = u) => \E o \in pool : o.tx = u
      BY <1>1
    <3> QED
      BY <1>1, <3>3, <3>4 DEF Trace
  <2>4. \A u \in Txs : ~Holds(u) /\ (Past(u)' <=> Past(u))
    BY <1>1, <2>1 DEF Holds, Past
  <2>5. terms[k].expires # 0
    BY <1>0 DEF Backed, Trace
  <2>6. \A u \in Txs : Marked(u)' => Past(u)' \/ Holds(u)'
    BY <2>2, <2>3, <2>4 DEF Backed
  <2>7. \A u \in Txs : terms'[u].expires = 0 => ~Trace(u)'
    BY <1>1, <2>3, <2>5 DEF Backed
  <2>8. \A u \in Txs : terms'[u].expires <= (Now + TTL)'
    BY <1>1 DEF Backed
  <2>9. \A o \in pool' : o.kind = "buy" => o.expires = terms'[o.tx].expires
    BY <1>1 DEF Backed
  <2> QED
    BY <2>6, <2>7, <2>8, <2>9 DEF Backed
<1> QED
  BY <1>2, <1>3

LEMMA BackedBuy ==
    ASSUME Shapes, Backed, NEW op \in pool, IncludeBuy(op)
    PROVE  Backed'
<1>0. PICK k \in Txs : k = op.tx
  BY Plain
<1>1. /\ UNCHANGED <<head, sealed, request, terms>> /\ pool' \subseteq pool
      /\ Now' = Now /\ paid' = [paid EXCEPT ![k] = Now]
  BY <1>0 DEF IncludeBuy, Now, nodeState
<1>2. Now \in Nat /\ Now # 0
  BY Plain DEF Now
<1>3. /\ paid'[k] = Now /\ \A u \in Txs : u # k => paid'[u] = paid[u]
  BY <1>1 DEF Shapes
<1>4. \/ open' = open
      \/ open' = OffSale(open.listing) /\ open.tx = k
  BY <1>0 DEF IncludeBuy, Settles
<1>5. \A u \in Txs : Reserved(u)' => Reserved(u)
  BY <1>1, <1>4, Plain DEF Reserved, OffSale
<1>6. \A u \in Txs : paid'[u] # 0 => Trace(u)
  BY <1>0, <1>3 DEF Trace
<1>7. Past(k)' /\ \A u \in Txs : Past(u) => Past(u)'
  BY <1>1, <1>2, <1>3 DEF Past
<1>8. \A u \in Txs : u # k /\ Holds(u) => Holds(u)'
  BY <1>1, <1>4 DEF Holds
<1> QED
  BY <1>1, <1>2, <1>5, <1>6, <1>7, <1>8, BackedQuiet, Plain

LEMMA BackedChain ==
    ASSUME Shapes, Backed,
           NextBlock \/ Unlist \/ Relist \/ (\E n \in Nodes : Index(n)) \/ UNCHANGED vars
    PROVE  Backed'
<1>0. UNCHANGED <<terms, request, paid>> /\ pool' \subseteq pool
  BY DEF NextBlock, Unlist, Relist, Index, vars, chainState, nodeState
<1>1. Now \in Nat /\ NoTx \notin Txs
  BY Plain
<1>2. \A u \in Txs : paid'[u] # 0 => Trace(u)
  BY <1>0 DEF Trace
<1>3. CASE NextBlock
  <2>1. /\ Now' = Now + 1 /\ head' = Now
        /\ open' = Sweep(open, Now + 1)
        /\ \A b \in DOMAIN sealed' : sealed'[b] = open \/ (b \in DOMAIN sealed /\ sealed'[b] = sealed[b])
    <3>1. head' = head + 1 /\ sealed' = [b \in DOMAIN sealed \cup {head'} |-> IF b = head' THEN open ELSE sealed[b]]
          /\ open' = Sweep(open, head' + 1)
      BY <1>3 DEF NextBlock
    <3>2. \A b \in DOMAIN sealed' : sealed'[b] = open \/ (b \in DOMAIN sealed /\ sealed'[b] = sealed[b])
      BY <3>1
    <3> QED
      BY <3>1, <3>2, Plain DEF Now
  <2>2. \A u \in Txs : Reserved(u)' => Reserved(u)
    BY <1>1, <2>1 DEF Reserved, Sweep, ForSale
  <2>3. \A u \in Txs : Past(u) => Past(u)'
    BY <1>0, <1>1, <2>1, Plain DEF Past
  <2>4. ASSUME NEW u \in Txs, Holds(u)
        PROVE  Past(u)' \/ Holds(u)'
    <3>1. CASE open.until < Now + 1
      BY <1>0, <1>1, <2>1, <2>4, <3>1, Plain DEF Past, Holds
    <3>2. CASE ~(open.until < Now + 1)
      BY <1>0, <2>1, <2>4, <3>2 DEF Holds, Sweep
    <3> QED
      BY <3>1, <3>2
  <2> QED
    BY <1>0, <1>1, <1>2, <2>1, <2>2, <2>3, <2>4, BackedQuiet
<1>4. CASE Unlist \/ Relist
  <2>1. /\ open.status # "pending_sale" /\ open'.tx = NoTx /\ UNCHANGED <<head, sealed>>
    BY <1>4 DEF Unlist, Relist, ForSale, OffSale
  <2>2. \A u \in Txs : (Reserved(u)' => Reserved(u)) /\ ~Holds(u)
    BY <1>1, <2>1 DEF Reserved, Holds
  <2>3. Now' = Now /\ \A u \in Txs : Past(u) => Past(u)'
    BY <1>0, <2>1 DEF Past, Now
  <2> QED
    BY <1>0, <1>1, <1>2, <2>2, <2>3, BackedQuiet
<1>5. CASE (\E n \in Nodes : Index(n)) \/ UNCHANGED vars
  <2>1. /\ UNCHANGED <<head, open>>
        /\ \A b \in DOMAIN sealed' : b \in DOMAIN sealed /\ sealed'[b] = sealed[b]
    BY <1>5 DEF Index, vars, chainState
  <2>2. \A u \in Txs : Reserved(u)' => Reserved(u)
    BY <2>1 DEF Reserved
  <2>3. Now' = Now /\ \A u \in Txs : (Past(u) => Past(u)') /\ (Holds(u) => Holds(u)')
    BY <1>0, <2>1 DEF Past, Holds, Now
  <2> QED
    BY <1>0, <1>1, <1>2, <2>2, <2>3, BackedQuiet
<1> QED
  BY <1>3, <1>4, <1>5

LEMMA BackedStep == WindowFits /\ Shapes /\ Views /\ Backed /\ [Next]_vars => Backed'
  BY StepKinds, BackedNodeStep, BackedAccept, BackedCommitment, BackedBuy, BackedChain

LEMMA AlwaysBacked ==
    ASSUME WindowFits
    PROVE  Spec => [](Shapes /\ Views /\ Backed)
<1>1. Init => Shapes /\ Views /\ Backed
  BY ShapesInit, ViewsInit, BackedInit
<1>2. (Shapes /\ Views /\ Backed) /\ [Next]_vars => (Shapes /\ Views /\ Backed)'
  BY ShapesStep, ViewsStep, BackedStep
<1> QED
  BY <1>1, <1>2, PTL DEF Spec

\* A buy that can still get into a block finds the asset reserved for it until
\* after its own expiration, or is in a block already, as long as an accepted
\* expiration fits into the window of a commitment.
THEOREM BuysAreBacked ==
    ASSUME WindowFits
    PROVE  Spec => []BuyNeverOutlivesReservation
<1>1. Shapes /\ Backed => BuyNeverOutlivesReservation
  <2> SUFFICES ASSUME Shapes, Backed, NEW op \in pool, op.kind = "buy", Now <= op.expires
               PROVE  \/ /\ open.status = "pending_sale" /\ open.tx = op.tx
                         /\ op.expires <= open.until
                      \/ paid[op.tx] # 0
    BY DEF BuyNeverOutlivesReservation
  <2>1. Marked(op.tx) /\ op.tx \in Txs /\ op.expires = terms[op.tx].expires
    BY Plain DEF Marked, OnItsWay, Backed
  <2>2. Past(op.tx) \/ Holds(op.tx)
    BY <2>1 DEF Backed
  <2> QED
    BY <2>1, <2>2, Plain DEF Past, Holds
<1> QED
  BY <1>1, AlwaysBacked, PTL

-----------------------------------------------------------------------------
(* A payment that does not bring the asset came too late: the listing had   *)
(* ended, or the node that signed had gone silent.                          *)

Missed(t) == paid[t] >= expiry[terms[t].listing] \/ paid[t] > silent[NodeOf[t]]

Settled ==
    /\ \A t \in Txs : paid[t] <= Now
    /\ \A t \in Txs : terms[t].expires # 0 => terms[t].listing \in 1..MaxListings
    /\ \A t \in Txs : paid[t] # 0 => t \in delivered \/ Missed(t)
    /\ \A t \in delivered : paid[t] # 0 /\ open.status = "active"
    /\ \A s, t \in delivered : s = t

\* One buyer at most gets the asset, and what was paid later than a payment that
\* came too late comes too late as well.
LEMMA SettledBuy ==
    ASSUME Shapes, Backed, Settled, NEW op \in pool, IncludeBuy(op)
    PROVE  Settled'
<1>0. PICK k \in Txs : k = op.tx
  BY Plain
<1>1. /\ UNCHANGED <<head, expiry, silent, terms>> /\ Now' = Now
      /\ paid' = [paid EXCEPT ![k] = Now]
      /\ op.kind = "buy" /\ Now <= op.expires
  BY <1>0 DEF IncludeBuy, Now
<1>2. Now \in Nat /\ Now # 0 /\ terms[k].expires \in Nat
  BY Plain DEF Now
<1>3. /\ paid'[k] = Now /\ \A u \in Txs : u # k => paid'[u] = paid[u]
  BY <1>1 DEF Shapes
<1>4. terms[k].expires # 0 /\ op.expires = terms[k].expires
  BY <1>0, <1>1 DEF Backed, Trace
<1>5. paid[k] # 0 \/ Holds(k)
  <2>1. Marked(k)
    BY <1>0, <1>1 DEF Marked, OnItsWay
  <2> QED
    BY <1>1, <1>2, <1>4, <2>1 DEF Past, Backed
<1>6. /\ terms[k].listing \in 1..MaxListings /\ NodeOf[k] \in Nodes
      /\ expiry[terms[k].listing] \in Nat /\ silent[NodeOf[k]] \in Nat
  BY <1>4, Plain DEF Shapes, Settled
<1>7. CASE Settles(k)
  <2>1. delivered' = delivered \cup {k} /\ open'.status = "active"
    BY <1>0, <1>7 DEF IncludeBuy, OffSale
  <2>2. delivered = {}
    BY <1>7 DEF Settles, Settled
  <2>3. \A u \in Txs : paid'[u] # 0 => u \in delivered' \/ Missed(u)'
    BY <1>1, <1>3, <2>1 DEF Settled, Missed
  <2> QED
    BY <1>1, <1>2, <1>3, <2>1, <2>2, <2>3 DEF Settled
<1>8. CASE ~Settles(k)
  <2>1. UNCHANGED <<open, delivered>>
    BY <1>0, <1>8 DEF IncludeBuy
  <2>2. k \in delivered \/ Missed(k)'
    <3>1. Missed(k)' <=> Now >= expiry[terms[k].listing] \/ Now > silent[NodeOf[k]]
      BY <1>1, <1>3 DEF Missed
    <3>2. CASE paid[k] # 0 /\ k \notin delivered
      <4>1. Missed(k) /\ paid[k] <= Now /\ paid[k] \in Nat
        BY <3>2, Plain DEF Settled
      <4> QED
        BY <1>2, <1>6, <3>1, <4>1 DEF Missed
    <3>3. CASE Holds(k)
      <4>1. /\ open.status = "pending_sale" /\ open.tx = k /\ Now <= open.until
            /\ open.listing = terms[k].listing
        BY <1>1, <1>2, <1>4, <3>3, Plain DEF Holds
      <4>2. ~(Now <= silent[NodeOf[k]]) \/ ~(Now < expiry[terms[k].listing])
        BY <1>8, <4>1 DEF Settles
      <4> QED
        BY <1>2, <1>6, <3>1, <4>2
    <3> QED
      BY <1>5, <3>2, <3>3
  <2>3. \A u \in Txs : u # k => (Missed(u)' <=> Missed(u))
    BY <1>1, <1>3 DEF Missed
  <2>4. \A u \in Txs : paid'[u] # 0 => u \in delivered' \/ Missed(u)'
    BY <1>3, <2>1, <2>2, <2>3 DEF Settled
  <2> QED
    BY <1>1, <1>2, <1>3, <2>1, <2>4 DEF Settled, Shapes
<1> QED
  BY <1>7, <1>8

LEMMA SettledStep == Shapes /\ Views /\ Backed /\ Settled /\ [Next]_vars => Settled'
<1> SUFFICES ASSUME Shapes, Views, Backed, Settled, [Next]_vars PROVE Settled'
  OBVIOUS
<1>1. ASSUME UNCHANGED <<expiry, silent, paid, delivered, terms>>, Now' \in Nat, Now' >= Now,
             delivered # {} => open'.status = open.status
      PROVE  Settled'
  <2>1. \A t \in Txs : paid'[t] <= Now'
    BY <1>1, Plain DEF Settled
  <2>2. \A t \in Txs : Missed(t)' <=> Missed(t)
    BY <1>1 DEF Missed
  <2> QED
    BY <1>1, <2>1, <2>2 DEF Settled
<1>2. CASE NextBlock
  <2>1. /\ UNCHANGED <<expiry, silent, paid, delivered, terms>> /\ Now' = Now + 1
        /\ open.status = "active" => open' = open
    BY <1>2 DEF NextBlock, Sweep, Now
  <2> QED
    BY <1>1, <2>1, Plain DEF Settled
<1>3. CASE Unlist \/ Relist
  <2>1. /\ UNCHANGED <<head, expiry, silent, paid, delivered, terms>>
        /\ open.status = "listed" \/ delivered = {}
    BY <1>3 DEF Unlist, Relist
  <2> QED
    BY <1>1, <2>1, Plain DEF Settled, Now
<1>4. ASSUME NEW op \in pool, IncludeCommitment(op)
      PROVE  Settled'
  <2>1. /\ UNCHANGED <<head, expiry, silent, paid, delivered, terms>>
        /\ open.status = "active" => open' = open
    BY <1>4 DEF IncludeCommitment, Committable
  <2> QED
    BY <1>1, <2>1, Plain DEF Settled, Now
<1>5. CASE (\E n \in Nodes : Index(n)) \/ UNCHANGED vars
  <2>1. UNCHANGED <<head, open, expiry, silent, paid, delivered, terms>>
    BY <1>5 DEF Index, vars, chainState
  <2> QED
    BY <1>1, <2>1, Plain DEF Now
<1>6. ASSUME NEW t \in Txs, NodeStep(t)
      PROVE  Settled'
  <2>1. UNCHANGED <<head, open, expiry, silent, paid, delivered, terms>>
    BY <1>6, NodeStepLeaves
  <2> QED
    BY <1>1, <2>1, Plain DEF Now
<1>7. ASSUME NEW t \in Txs, Accept(t)
      PROVE  Settled'
  <2>1. PICK v \in 1..MaxListings, e \in 1..(LastBlock + MaxLeft + Drift) : Validate(t, v, e)
    BY <1>7 DEF Accept
  <2>2. /\ UNCHANGED <<head, open, expiry, silent, paid, delivered>>
        /\ terms' = [terms EXCEPT ![t] = [listing |-> v, expires |-> e]]
        /\ terms[t].expires # 0 => terms[t] = [listing |-> v, expires |-> e]
    BY <2>1 DEF Validate, chainState
  <2>3. /\ terms'[t].listing = v /\ \A u \in Txs : u # t => terms'[u] = terms[u]
        /\ terms[t].expires # 0 => terms'[t] = terms[t]
    BY <2>2 DEF Shapes
  <2>4. paid[t] # 0 => terms[t].expires # 0
    BY DEF Backed, Trace
  <2>5. \A u \in Txs : paid[u] # 0 => (Missed(u)' <=> Missed(u))
    BY <2>2, <2>3, <2>4 DEF Missed
  <2>6. \A u \in Txs : terms'[u].expires # 0 => terms'[u].listing \in 1..MaxListings
    BY <2>3 DEF Settled
  <2>7. Now' = Now
    BY <2>2 DEF Now
  <2> QED
    BY <2>2, <2>5, <2>6, <2>7 DEF Settled
<1> QED
  BY <1>2, <1>3, <1>4, <1>5, <1>6, <1>7, StepKinds, SettledBuy

LEMMA AlwaysSettled ==
    ASSUME WindowFits
    PROVE  Spec => [](Shapes /\ Views /\ Backed /\ Settled)
<1>1. Init => Settled
  BY SettlementAssumption DEF Init, Settled, Now
<1>2. (Shapes /\ Views /\ Backed /\ Settled) /\ [Next]_vars => Settled'
  BY SettledStep
<1> QED
  BY <1>1, <1>2, AlwaysBacked, PTL DEF Spec

\* Whoever's transfers are on the chain has the asset, unless the listing had
\* ended or the node had gone silent in the block that took them.
THEOREM PaymentsDeliver ==
    ASSUME WindowFits
    PROVE  Spec => []PaidWhileLiveIsDelivered
<1>1. Shapes /\ Backed /\ Settled => PaidWhileLiveIsDelivered
  <2> SUFFICES ASSUME Shapes, Backed, Settled, NEW t \in Txs, paid[t] # 0,
                      paid[t] < expiry[terms[t].listing], paid[t] <= silent[NodeOf[t]]
               PROVE  t \in delivered
    BY DEF PaidWhileLiveIsDelivered
  <2>1. terms[t].listing \in 1..MaxListings
    BY DEF Backed, Trace, Settled
  <2>2. expiry[terms[t].listing] \in Nat /\ silent[NodeOf[t]] \in Nat /\ paid[t] \in Nat
    BY <2>1, Plain DEF Shapes
  <2> QED
    BY <2>2 DEF Settled, Missed
<1> QED
  BY <1>1, AlwaysSettled, PTL

\* Listings that outlast the modelled chain, and nodes that stay active on it.
Lasting == (\A e \in Ends : e > LastBlock + 1) /\ (\A s \in Silences : s > LastBlock)

Lifetimes ==
    /\ head <= LastBlock
    /\ expiry \in [1..MaxListings -> Ends] /\ silent \in [Nodes -> Silences]

LEMMA LifetimesKept == Lifetimes /\ Shapes /\ [Next]_vars => Lifetimes'
<1> SUFFICES ASSUME Lifetimes, Shapes, [Next]_vars PROVE Lifetimes'
  OBVIOUS
<1> DEFINE Lasts == UNCHANGED <<expiry, silent>>
           Grows == UNCHANGED head \/ (head < LastBlock /\ head' = head + 1)
<1>1. Lasts /\ Grows
  <2>1. ASSUME NEW t \in Txs, NodeStep(t) PROVE Lasts /\ Grows
    BY <2>1, NodeStepLeaves DEF chainState
  <2>2. ASSUME NEW t \in Txs, Accept(t) PROVE Lasts /\ Grows
    BY <2>2 DEF Accept, Validate, chainState
  <2>3. Unlist \/ Relist \/ (\E op \in pool : IncludeCommitment(op) \/ IncludeBuy(op))
          \/ (\E n \in Nodes : Index(n)) \/ UNCHANGED vars => Lasts /\ Grows
    BY DEF Unlist, Relist, IncludeCommitment, IncludeBuy, Index, chainState, vars
  <2>4. NextBlock => Lasts /\ Grows
    BY DEF NextBlock
  <2> QED
    BY <2>1, <2>2, <2>3, <2>4, StepKinds
<1>3. LastBlock \in Nat
  BY SettlementAssumption
<1>4. head' <= LastBlock
  BY <1>1, <1>3 DEF Lifetimes, Shapes
<1> QED
  BY <1>1, <1>4 DEF Lifetimes

\* Then nobody pays in vain, since nothing ends before a payment can get there.
LEMMA LastingDelivers ==
    ASSUME Lasting
    PROVE  Shapes /\ Backed /\ Settled /\ Lifetimes => PaidMeansDelivered
<1> SUFFICES ASSUME Shapes, Backed, Settled, Lifetimes, NEW t \in Txs, paid[t] # 0
             PROVE  t \in delivered
  BY DEF PaidMeansDelivered
<1>1. terms[t].listing \in 1..MaxListings
  BY DEF Backed, Trace, Settled
<1>2. expiry[terms[t].listing] > LastBlock + 1 /\ silent[NodeOf[t]] > LastBlock
  BY <1>1, Plain DEF Lifetimes, Lasting
<1>3. paid[t] \in Nat /\ paid[t] <= LastBlock + 1
  <2>1. paid[t] \in Nat /\ paid[t] <= Now /\ head \in Nat /\ head <= LastBlock
    BY Plain DEF Settled, Lifetimes
  <2>2. LastBlock \in Nat
    BY SettlementAssumption
  <2> QED
    BY <2>1, <2>2 DEF Now
<1>4. expiry[terms[t].listing] \in Nat /\ silent[NodeOf[t]] \in Nat /\ LastBlock \in Nat
  BY <1>1, Plain, SettlementAssumption DEF Shapes
<1>5. ~Missed(t)
  BY <1>2, <1>3, <1>4 DEF Missed
<1> QED
  BY <1>5 DEF Settled

LEMMA AlwaysDelivers ==
    ASSUME WindowFits, Lasting
    PROVE  Spec => [](Settled /\ PaidMeansDelivered)
<1>1. Init => Lifetimes
  BY SettlementAssumption DEF Init, Lifetimes
<1> QED
  BY <1>1, LifetimesKept, LastingDelivers, AlwaysSettled, PTL DEF Spec

\* What guides/marketplace.md promises without a condition, that who pays gets
\* the asset, is so of listings and nodes that outlast the payment: only the end
\* of the one or the other, between the node's last check and the block, makes
\* somebody pay for nothing.
THEOREM LastingPaymentsDeliver ==
    ASSUME WindowFits, Lasting
    PROVE  Spec => []PaidMeansDelivered
  BY AlwaysDelivers, PTL

\* As long as listings and nodes last, one listing takes one buyer's money,
\* however many nodes and buyers race.
THEOREM OneBuyerPays ==
    ASSUME WindowFits, Lasting
    PROVE  Spec => []OnePaysPerListing
<1>1. Settled /\ PaidMeansDelivered => OnePaysPerListing
  BY DEF Settled, PaidMeansDelivered, OnePaysPerListing
<1> QED
  BY <1>1, AlwaysDelivers, PTL

-----------------------------------------------------------------------------
(* A node commits a transaction once, as long as the lock outlives the      *)
(* commitment in every view.                                                *)

\* How far behind the head the view of a healthy node may be.
Reach == Stale + Finality + ApiLag

\* Between the acquisition of the lock and the block that drops it, the
\* commitment has gone into a block and every healthy view has seen it, and no
\* broadcast reported as failed went through.
LockOutlives ==
    PoolLife + Reach <= TTL + 1 /\ Prompt /\ "buy_commitment" \notin Lossy

RowAt(b) == IF b = Now THEN open ELSE sealed[b]
Held(t) == {b \in cursor[NodeOf[t]]..Now : RowAt(b).tx = t}
Sent(t) == {op \in pool : op.kind = "buy_commitment" /\ op.tx = t}
Clean(t) == Sent(t) = {} /\ Held(t) = {}

\* The lock of t's node is t's: what was sent under it, and its reservation
\* from the last block it could begin in.
UnderLock(t) ==
    LET row == lock[NodeOf[t]] IN
    row.tx = t =>
        /\ head <= row.until
        /\ \A op \in Sent(t) : op.expires + TTL <= row.until + PoolLife
        /\ \A d \in Held(t), b \in cursor[NodeOf[t]]..Now :
            (b <= d /\ b + TTL >= row.until + PoolLife) => b \in Held(t)

\* It is not t's: nothing of t is on its way, and a reservation that still
\* stands began before what a healthy view shows.
Unlocked(t) ==
    lock[NodeOf[t]].tx # t =>
        /\ Sent(t) = {}
        /\ \A d \in Held(t), b \in cursor[NodeOf[t]]..Now :
            (b <= d /\ b + Reach >= head) => b \in Held(t)

Kept(t) ==
    /\ UnderLock(t) /\ Unlocked(t)
    /\ request[t] = "valid" => lock[NodeOf[t]].tx = t \/ Clean(t)
    /\ request[t] = "locked" =>
        lock[NodeOf[t]].tx = t /\ lock[NodeOf[t]].until = head + TTL /\ Clean(t)
    /\ \A op \in Sent(t) : Sent(t) = {op} /\ Held(t) = {}
    /\ request[t] \in {"won", "cleared"} =>
        /\ Sent(t) = {}
        /\ \A d \in Held(t), b \in cursor[NodeOf[t]]..Now : b <= d => b \in Held(t)
    /\ \A a, d \in Held(t), b \in cursor[NodeOf[t]]..Now : (a <= b /\ b <= d) => b \in Held(t)

LEMMA HeldRange ==
    ASSUME Shapes, Views, NEW t \in Txs
    PROVE  /\ NodeOf[t] \in Nodes /\ t # NoTx
           /\ Now \in Nat /\ head \in Nat /\ Now = head + 1
           /\ cursor[NodeOf[t]] \in Nat /\ cursor[NodeOf[t]] <= head
           /\ Held(t) \subseteq cursor[NodeOf[t]]..Now
           /\ \A b \in cursor[NodeOf[t]]..Now : b \in Nat
           /\ \A b \in cursor[NodeOf[t]]..Now : b \in Held(t) <=> RowAt(b).tx = t
           /\ lock[NodeOf[t]].until \in Nat
           /\ Sent(t) \subseteq pool /\ \A op \in pool : op.expires \in Nat
           /\ Reach \in Nat /\ TTL \in Nat /\ PoolLife \in Nat
<1>1. NodeOf[t] \in Nodes /\ t # NoTx /\ Now \in Nat /\ head \in Nat /\ \A op \in pool : op.expires \in Nat
  BY Plain
<1>2. cursor[NodeOf[t]] \in Nat /\ cursor[NodeOf[t]] <= head
  BY <1>1 DEF Views
<1>3. lock[NodeOf[t]].until \in Nat
  BY <1>1 DEF Shapes
<1>4. Reach \in Nat /\ TTL \in Nat /\ PoolLife \in Nat
  BY SettlementAssumption DEF Reach
<1>5. \A b \in cursor[NodeOf[t]]..Now : b \in Nat
  BY <1>1, <1>2
<1> QED
  BY <1>1, <1>2, <1>3, <1>4, <1>5 DEF Now, Held, Sent

\* Rows that only let go of t, from the end or from the start, do no harm.
HeldLess(t) ==
    /\ Held(t)' \subseteq Held(t)
    /\ \A d \in Held(t)', b \in Held(t) :
        (b <= d /\ b \in (cursor[NodeOf[t]]..Now)') => b \in Held(t)'

LEMMA KeptQuiet ==
    ASSUME Shapes, Views, Views', NEW t \in Txs, Kept(t), HeldLess(t), head' = head,
           cursor[NodeOf[t]] <= cursor'[NodeOf[t]],
           Sent(t)' \subseteq Sent(t), request'[t] = request[t],
           \/ lock'[NodeOf[t]] = lock[NodeOf[t]]
           \/ lock[NodeOf[t]].tx # t /\ lock'[NodeOf[t]].tx # t
    PROVE  Kept(t)'
<1>0. PICK n \in Nodes : n = NodeOf[t]
  BY HeldRange
<1>1. /\ Now' = Now /\ \A b \in cursor'[n]..Now : b \in cursor[n]..Now
      /\ NodeOf' = NodeOf /\ TTL' = TTL /\ PoolLife' = PoolLife /\ Reach' = Reach
  <2>1. Now' = Now /\ Now \in Nat /\ cursor[n] \in Nat /\ cursor[n] <= cursor'[n] /\ cursor'[n] \in Nat
    BY <1>0, HeldRange DEF Now, Views
  <2> QED
    BY <2>1 DEF Reach
<1>2. /\ Held(t)' \subseteq Held(t)
      /\ \A d \in Held(t)', b \in Held(t) : (b <= d /\ b \in cursor'[n]..Now) => b \in Held(t)'
  BY <1>0, <1>1 DEF HeldLess
<1>3. Clean(t) => Clean(t)'
  BY <1>2 DEF Clean
<1>4. UnderLock(t)'
  BY <1>0, <1>1, <1>2 DEF UnderLock, Kept
<1>5. Unlocked(t)'
  BY <1>0, <1>1, <1>2 DEF Unlocked, Kept
<1>6. \A op \in Sent(t)' : Sent(t)' = {op} /\ Held(t)' = {}
  BY <1>2 DEF Kept
<1>7. \A a, d \in Held(t)', b \in cursor'[n]..Now : (a <= b /\ b <= d) => b \in Held(t)'
  BY <1>0, <1>1, <1>2 DEF Kept
<1>8. request[t] \in {"won", "cleared"} =>
        /\ Sent(t)' = {}
        /\ \A d \in Held(t)', b \in cursor'[n]..Now : b <= d => b \in Held(t)'
  BY <1>0, <1>1, <1>2 DEF Kept
<1>9. /\ request[t] = "valid" => lock'[n].tx = t \/ Clean(t)'
      /\ request[t] = "locked" => lock'[n].tx = t /\ lock'[n].until = head + TTL /\ Clean(t)'
  BY <1>0, <1>3 DEF Kept
<1> QED
  BY <1>0, <1>1, <1>4, <1>5, <1>6, <1>7, <1>8, <1>9 DEF Kept

\* A block goes by: a reservation goes on at most, and what is gone from the
\* pool or from the lock table is gone in time.
LEMMA KeptNextBlock ==
    ASSUME LockOutlives, Shapes, Views, NEW t \in Txs, Kept(t), NextBlock
    PROVE  Kept(t)'
<1>0. PICK n \in Nodes : n = NodeOf[t]
  BY HeldRange
<1>1. /\ Now \in Nat /\ cursor[n] \in Nat /\ cursor[n] <= head /\ head \in Nat /\ Now = head + 1
      /\ lock[n].until \in Nat /\ TTL \in Nat /\ PoolLife \in Nat /\ Reach \in Nat
      /\ t # NoTx
  BY <1>0, HeldRange
<1>2. /\ head' = Now /\ Now' = Now + 1 /\ cursor' = cursor /\ request' = request
      /\ open' = Sweep(open, Now + 1)
      /\ sealed' = [b \in DOMAIN sealed \cup {Now} |-> IF b = Now THEN open ELSE sealed[b]]
      /\ pool' = {op \in pool : Now + 1 <= op.expires}
      /\ lock'[n] = IF lock[n].until < Now THEN NoLock ELSE lock[n]
      /\ request[t] \notin {"valid", "locked"}
  BY <1>0 DEF NextBlock, Now, nodeState, LockOutlives
<1>3. \A b \in cursor[n]..Now : RowAt(b)' = RowAt(b)
  <2> SUFFICES ASSUME NEW b \in cursor[n]..Now PROVE RowAt(b)' = RowAt(b)
    OBVIOUS
  <2>1. b # Now + 1 /\ b \in Nat
    BY <1>1
  <2>2. b = Now \/ b \in cursor[n]..head
    BY <1>1
  <2>3. b \in DOMAIN sealed \cup {Now}
    BY <1>0, <2>2 DEF Views
  <2> QED
    BY <1>2, <2>1, <2>3 DEF RowAt
<1>w. PICK w : w = Now + 1
  OBVIOUS
<1>4. RowAt(w)'.tx = t => RowAt(Now).tx = t
  <2>1. RowAt(w)' = open' /\ RowAt(Now) = open
    BY <1>2, <1>w DEF RowAt
  <2> QED
    BY <1>1, <1>2, <2>1 DEF Sweep, ForSale
<1>5. /\ Held(t) \subseteq Held(t)'
      /\ \A b \in Held(t)' : b \in Held(t) \/ (b = Now + 1 /\ Now \in Held(t))
  <2>1. Held(t)' = {b \in cursor[n]..(Now + 1) : RowAt(b)'.tx = t}
    BY <1>0, <1>2 DEF Held
  <2>2. Held(t) = {b \in cursor[n]..Now : RowAt(b).tx = t}
    BY <1>0 DEF Held
  <2>3. \A b \in cursor[n]..(Now + 1) : b \in cursor[n]..Now \/ b = Now + 1
    BY <1>1
  <2>4. \A b \in cursor[n]..Now : b \in cursor[n]..(Now + 1)
    BY <1>1
  <2>5. Now \in cursor[n]..Now
    BY <1>1
  <2> QED
    BY <1>3, <1>4, <1>w, <2>1, <2>2, <2>3, <2>4, <2>5
<1>6. Held(t) \subseteq cursor[n]..Now
  BY <1>0 DEF Held
<1>7. Sent(t)' = {op \in Sent(t) : Now + 1 <= op.expires}
  BY <1>2 DEF Sent
<1>8. \A op \in Sent(t) : op.expires \in Nat
  BY HeldRange
\* What holds up to a held block of the new rows held up to one of the old.
<1>9. \A d \in Held(t)', b \in cursor[n]..(Now + 1) :
        b <= d => b \in Held(t)' \/ (b \in cursor[n]..Now /\ \E c \in Held(t) : b <= c)
  <2> SUFFICES ASSUME NEW d \in Held(t)', NEW b \in cursor[n]..(Now + 1), b <= d, b \notin Held(t)'
               PROVE  b \in cursor[n]..Now /\ \E c \in Held(t) : b <= c
    OBVIOUS
  <2>1. CASE d \in Held(t)
    <3>1. d \in Nat /\ d <= Now /\ cursor[n] <= b /\ b \in Nat
      BY <1>1, <1>6, <2>1
    <3> QED
      BY <1>1, <2>1, <3>1
  <2>2. CASE d = Now + 1 /\ Now \in Held(t)
    <3>1. b # Now + 1 /\ b \in Nat /\ cursor[n] <= b
      BY <1>1, <2>2
    <3>2. b <= Now
      BY <1>1, <2>2, <3>1
    <3> QED
      BY <1>1, <2>2, <3>1, <3>2
  <2> QED
    BY <1>5, <2>1, <2>2
<1>10. UnderLock(t)'
  <2> SUFFICES ASSUME lock'[n].tx = t
               PROVE  /\ head' <= lock'[n].until
                      /\ \A op \in Sent(t)' : op.expires + TTL <= lock'[n].until + PoolLife
                      /\ \A d \in Held(t)', b \in cursor[n]..(Now + 1) :
                           (b <= d /\ b + TTL >= lock'[n].until + PoolLife) => b \in Held(t)'
    BY <1>0, <1>2 DEF UnderLock
  <2>1. lock'[n] = lock[n] /\ lock[n].tx = t /\ Now <= lock[n].until
    BY <1>1, <1>2 DEF NoLock
  <2>2. /\ \A op \in Sent(t) : op.expires + TTL <= lock[n].until + PoolLife
        /\ \A d \in Held(t), b \in cursor[n]..Now :
             (b <= d /\ b + TTL >= lock[n].until + PoolLife) => b \in Held(t)
    BY <1>0, <2>1 DEF Kept, UnderLock
  <2> QED
    BY <1>2, <1>5, <1>7, <1>9, <2>1, <2>2
<1>11. Unlocked(t)'
  <2> SUFFICES ASSUME lock'[n].tx # t
               PROVE  /\ Sent(t)' = {}
                      /\ \A d \in Held(t)', b \in cursor[n]..(Now + 1) :
                            (b <= d /\ b + Reach >= Now) => b \in Held(t)'
    BY <1>0, <1>2 DEF Unlocked, Reach
  <2>1. CASE lock[n].tx = t
    <3>1. /\ lock[n].until < Now /\ head <= lock[n].until
          /\ \A op \in Sent(t) : op.expires + TTL <= lock[n].until + PoolLife
          /\ \A d \in Held(t), b \in cursor[n]..Now :
               (b <= d /\ b + TTL >= lock[n].until + PoolLife) => b \in Held(t)
      BY <1>0, <1>2, <2>1 DEF Kept, UnderLock
    <3>2. lock[n].until = head /\ PoolLife + Reach <= TTL + 1
      BY <1>1, <3>1 DEF LockOutlives
    <3>3. \A op \in Sent(t) : ~(Now + 1 <= op.expires)
      BY <1>1, <1>8, <3>1, <3>2
    <3>4. \A b \in cursor[n]..Now : b + Reach >= Now => b + TTL >= lock[n].until + PoolLife
      BY <1>1, <3>2
    <3> QED
      BY <1>5, <1>7, <1>9, <3>1, <3>3, <3>4
  <2>2. CASE lock[n].tx # t
    <3>1. /\ Sent(t) = {}
          /\ \A d \in Held(t), b \in cursor[n]..Now :
               (b <= d /\ b + Reach >= head) => b \in Held(t)
      BY <1>0, <2>2 DEF Kept, Unlocked
    <3>2. \A b \in cursor[n]..Now : b + Reach >= Now => b + Reach >= head
      BY <1>1
    <3> QED
      BY <1>5, <1>7, <1>9, <3>1, <3>2
  <2> QED
    BY <2>1, <2>2
<1>12. \A op \in Sent(t)' : Sent(t)' = {op} /\ Held(t)' = {}
  BY <1>5, <1>7 DEF Kept
<1>13. request[t] \in {"won", "cleared"} =>
        /\ Sent(t)' = {}
        /\ \A d \in Held(t)', b \in cursor[n]..(Now + 1) : b <= d => b \in Held(t)'
  BY <1>0, <1>5, <1>7, <1>9 DEF Kept
<1>14. \A a, d \in Held(t)', b \in cursor[n]..(Now + 1) : (a <= b /\ b <= d) => b \in Held(t)'
  <2> SUFFICES ASSUME NEW a \in Held(t)', NEW d \in Held(t)', NEW b \in cursor[n]..(Now + 1),
                      a <= b, b <= d, b \notin Held(t)'
               PROVE  FALSE
    OBVIOUS
  <2>1. b \in cursor[n]..Now /\ \E c \in Held(t) : b <= c
    BY <1>9
  <2>2. a \in Held(t)
    BY <1>1, <1>5, <2>1
  <2> QED
    BY <1>0, <1>5, <2>1, <2>2 DEF Kept
<1> QED
  BY <1>0, <1>2, <1>10, <1>11, <1>12, <1>13, <1>14 DEF Kept

LEMMA HeldSame ==
    ASSUME NEW t \in Txs, UNCHANGED <<head, open, sealed, cursor>>
    PROVE  Held(t)' = Held(t) /\ Now' = Now
<1>1. Now' = Now
  BY DEF Now
<1>2. \A b : RowAt(b)' = RowAt(b)
  BY <1>1 DEF RowAt
<1> QED
  BY <1>1, <1>2 DEF Held

\* The asset's row stops showing t, if it did.
LEMMA HeldOpen ==
    ASSUME Shapes, Views, NEW t \in Txs, UNCHANGED <<head, sealed, cursor>>,
           open' = open \/ open'.tx # t
    PROVE  HeldLess(t)
<1>0. PICK n \in Nodes : n = NodeOf[t]
  BY HeldRange
<1>1. Now' = Now /\ Now \in Nat /\ cursor[n] \in Nat
  BY <1>0, HeldRange DEF Now
<1>2. \A b : b # Now => RowAt(b)' = RowAt(b)
  BY <1>1 DEF RowAt
<1>3. RowAt(Now)'.tx = t => RowAt(Now).tx = t
  BY <1>1 DEF RowAt
<1>4. Held(t)' = {b \in cursor[n]..Now : RowAt(b)'.tx = t}
  BY <1>0, <1>1 DEF Held
<1>5. Held(t) = {b \in cursor[n]..Now : RowAt(b).tx = t}
  BY <1>0 DEF Held
<1>6. \A b : RowAt(b)'.tx = t => RowAt(b).tx = t
  <2> SUFFICES ASSUME NEW b, RowAt(b)'.tx = t PROVE RowAt(b).tx = t
    OBVIOUS
  <2>1. CASE b = Now
    BY <1>1, <2>1 DEF RowAt
  <2> QED
    BY <1>2, <2>1
<1>7. \A d \in Held(t)', b \in Held(t) : b <= d => b \in Held(t)'
  <2> SUFFICES ASSUME NEW d \in Held(t)', NEW b \in Held(t), b <= d PROVE b \in Held(t)'
    OBVIOUS
  <2>1. CASE b = Now
    <3>1. d \in Nat /\ d <= Now /\ Now <= d
      BY <1>1, <1>4, <2>1
    <3> QED
      BY <1>1, <2>1, <3>1
  <2> QED
    BY <1>2, <1>4, <1>5, <2>1
<1> QED
  BY <1>4, <1>5, <1>6, <1>7 DEF HeldLess

LEMMA HeldIndex ==
    ASSUME Shapes, Views, NEW t \in Txs, NEW m \in Nodes, Index(m)
    PROVE  HeldLess(t) /\ cursor[NodeOf[t]] <= cursor'[NodeOf[t]]
<1>0. PICK n \in Nodes : n = NodeOf[t]
  BY HeldRange
<1>1. Now' = Now /\ Now \in Nat /\ cursor[n] \in Nat /\ Now = head + 1 /\ head \in Nat
  BY <1>0, HeldRange DEF Now, Index
<1>2. PICK e \in cursor[m]..Final(head) :
        /\ cursor' = [cursor EXCEPT ![m] = e]
        /\ sealed' = [b \in {c \in DOMAIN sealed : \E k \in Nodes : c >= cursor'[k]} |-> sealed[b]]
        /\ UNCHANGED <<head, open>>
  BY DEF Index
<1>3. Final(head) \in Nat /\ cursor[m] \in Nat
  BY <1>1, SettlementAssumption DEF Final, Views
<1>4. cursor'[n] \in Nat /\ cursor[n] <= cursor'[n]
  BY <1>1, <1>2, <1>3 DEF Views
<1>5. \A b \in cursor'[n]..Now : b \in cursor[n]..Now /\ RowAt(b)' = RowAt(b)
  <2> SUFFICES ASSUME NEW b \in cursor'[n]..Now
               PROVE  b \in cursor[n]..Now /\ RowAt(b)' = RowAt(b)
    OBVIOUS
  <2>1. b \in cursor[n]..Now
    BY <1>1, <1>4
  <2>2. CASE b = Now
    BY <1>1, <1>2, <2>1, <2>2 DEF RowAt
  <2>3. CASE b # Now
    <3>1. b \in cursor[n]..head /\ b >= cursor'[n]
      BY <1>1, <1>4, <2>3
    <3>2. b \in DOMAIN sealed
      BY <3>1 DEF Views
    <3>3. sealed'[b] = sealed[b]
      BY <1>2, <3>1, <3>2
    <3> QED
      BY <1>1, <2>1, <2>3, <3>3 DEF RowAt
  <2> QED
    BY <2>2, <2>3
<1>6. Held(t)' = {b \in cursor'[n]..Now : RowAt(b)'.tx = t}
  BY <1>0, <1>1 DEF Held
<1>7. Held(t) = {b \in cursor[n]..Now : RowAt(b).tx = t}
  BY <1>0 DEF Held
<1>8. (cursor[NodeOf[t]]..Now)' = cursor'[n]..Now
  BY <1>0, <1>1
<1>9. Held(t)' \subseteq Held(t)
  BY <1>5, <1>6, <1>7
<1>10. \A b \in Held(t) : b \in cursor'[n]..Now => b \in Held(t)'
  BY <1>5, <1>6, <1>7
<1> QED
  BY <1>0, <1>4, <1>8, <1>9, <1>10 DEF HeldLess

\* A request moves on while the chain, the pool and the lock stay as they are.
LEMMA KeptCarry ==
    ASSUME NEW t \in Txs, Kept(t), UNCHANGED <<head, open, sealed, cursor>>,
           Sent(t)' = Sent(t), lock'[NodeOf[t]] = lock[NodeOf[t]],
           request'[t] # "locked",
           request'[t] = "valid" => lock[NodeOf[t]].tx = t \/ Clean(t),
           request'[t] \in {"won", "cleared"} =>
                /\ Sent(t) = {}
                /\ \A d \in Held(t), b \in cursor[NodeOf[t]]..Now : b <= d => b \in Held(t)
    PROVE  Kept(t)'
<1>1. Held(t)' = Held(t) /\ Now' = Now
  BY HeldSame
<1>2. Clean(t)' <=> Clean(t)
  BY <1>1 DEF Clean
<1>3. UnderLock(t)' /\ Unlocked(t)'
  BY <1>1 DEF Kept, UnderLock, Unlocked, Reach
<1> QED
  BY <1>1, <1>2, <1>3 DEF Kept

\* A healthy view that shows the asset for sale shows that nothing of t stands.
LEMMA KeptAccept ==
    ASSUME Shapes, Views, NEW t \in Txs, Kept(t), Accept(t)
    PROVE  Kept(t)'
<1>0. PICK n \in Nodes : n = NodeOf[t]
  BY HeldRange
<1>1. PICK v \in 1..MaxListings, e \in 1..(LastBlock + MaxLeft + Drift) : Validate(t, v, e)
  BY DEF Accept
<1>2. /\ UNCHANGED <<head, open, sealed, cursor, pool, lock>>
      /\ Healthy(n) /\ View(n).status = "listed"
      /\ request' = [request EXCEPT ![t] = "valid"]
  BY <1>0, <1>1 DEF Validate, To, chainState, nodeState
<1>3. request'[t] = "valid" /\ Sent(t)' = Sent(t)
  BY <1>2 DEF Shapes, Sent
<1>4. /\ cursor[n] \in Nat /\ cursor[n] <= head /\ head \in Nat /\ Now = head + 1
      /\ cursor[n] \in cursor[n]..Now /\ t # NoTx
  <2>1. /\ cursor[n] \in Nat /\ cursor[n] <= head /\ head \in Nat /\ Now = head + 1 /\ t # NoTx
    BY <1>0, HeldRange
  <2> QED
    BY <2>1
<1>5. cursor[n] + Reach >= head
  <2>1. /\ seen[n] \in Nat /\ Finality \in Nat /\ ApiLag \in Nat /\ Stale \in Nat
        /\ Final(seen[n]) <= cursor[n] + ApiLag /\ head <= seen[n] + Stale
    BY <1>2, SettlementAssumption DEF Views, Healthy
  <2>2. seen[n] <= Final(seen[n]) + Finality /\ Final(seen[n]) \in Nat
    BY <2>1 DEF Final
  <2> QED
    BY <1>4, <2>1, <2>2 DEF Reach
<1>6. cursor[n] \notin Held(t)
  <2>1. cursor[n] # Now /\ cursor[n] \in DOMAIN sealed
    <3>1. cursor[n] # Now /\ cursor[n] \in cursor[n]..head
      BY <1>4
    <3> QED
      BY <3>1 DEF Views
  <2>2. sealed[cursor[n]].tx = NoTx
    BY <1>2, <2>1 DEF View, Shapes, Coherent, Row
  <2> QED
    BY <1>0, <1>4, <2>1, <2>2 DEF Held, RowAt
<1>7. lock[n].tx = t \/ Clean(t)
  <2> SUFFICES ASSUME lock[n].tx # t PROVE Clean(t)
    OBVIOUS
  <2>1. /\ Sent(t) = {}
        /\ \A d \in Held(t), b \in cursor[n]..Now : (b <= d /\ b + Reach >= head) => b \in Held(t)
    BY <1>0 DEF Kept, Unlocked
  <2>2. \A d \in Held(t) : cursor[n] <= d
    BY <1>0, <1>4 DEF Held
  <2> QED
    BY <1>4, <1>5, <1>6, <2>1, <2>2 DEF Clean
<1> QED
  BY <1>0, <1>2, <1>3, <1>7, KeptCarry

\* What the node that serves t does for it.
LEMMA KeptNodeStep ==
    ASSUME LockOutlives, Shapes, Views, NEW t \in Txs, Kept(t), NodeStep(t)
    PROVE  Kept(t)'
<1>0. PICK n \in Nodes : n = NodeOf[t]
  BY HeldRange
<1>1. /\ UNCHANGED <<head, open, sealed, cursor>> /\ lock \in [Nodes -> [tx : Txs \cup {NoTx}, until : Nat]]
      /\ request \in [Txs -> Phases]
  BY NodeStepLeaves DEF Shapes
<1>2. Held(t)' = Held(t) /\ Now' = Now
  BY <1>1, HeldSame
<1>3. head \in Nat /\ TTL \in Nat /\ PoolLife \in Nat /\ t # NoTx
  BY HeldRange
<1>4. Held(t) \subseteq cursor[n]..Now
  BY <1>0 DEF Held
<1>5. CASE Acquire(t)
  <2>1. CASE FreeLock(t)
    <3>1. lock[n].tx # t /\ request[t] = "valid" /\ request'[t] = "locked" /\ UNCHANGED pool
      BY <1>0, <1>1, <1>3, <1>5, <2>1 DEF Acquire, FreeLock, NoLock, To, chainState, Phases
    <3>2. lock'[n].tx = t /\ lock'[n].until = head + TTL
      BY <1>0, <1>1, <1>5, <2>1 DEF Acquire
    <3>3. Sent(t) = {} /\ Held(t) = {} /\ Sent(t)' = {} /\ Held(t)' = {}
      BY <1>0, <1>2, <3>1 DEF Kept, Clean, Sent
    <3> QED
      BY <1>0, <1>1, <1>3, <3>1, <3>2, <3>3 DEF Kept, UnderLock, Unlocked, Clean
  <2>2. CASE ~FreeLock(t)
    <3>1. UNCHANGED <<pool, lock>> /\ request'[t] = "over"
      BY <1>1, <1>5, <2>2 DEF Acquire, To, chainState
    <3> QED
      BY <1>0, <1>1, <3>1, KeptCarry DEF Sent
  <2> QED
    BY <2>1, <2>2
<1>6. CASE Commit(t)
  <2>1. PICK op : op = [kind |-> "buy_commitment", tx |-> t, expires |-> head + PoolLife]
    OBVIOUS
  <2>2. /\ request[t] = "locked" /\ request'[t] = "waiting" /\ pool' = pool \cup {op} /\ UNCHANGED lock
    BY <1>1, <1>6, <2>1 DEF Commit, Send, To
  <2>3. /\ Sent(t) = {} /\ Held(t) = {} /\ Held(t)' = {}
        /\ lock[n].tx = t /\ lock[n].until = head + TTL
    BY <1>0, <1>2, <2>2 DEF Kept, Clean
  <2>4. Sent(t)' = {op}
    BY <2>1, <2>2, <2>3 DEF Sent
  <2>5. op.expires + TTL <= lock[n].until + PoolLife /\ head <= lock[n].until
    BY <1>3, <2>1, <2>3
  <2> QED
    BY <1>0, <1>1, <2>2, <2>3, <2>4, <2>5 DEF Kept, UnderLock, Unlocked
<1>7. CASE Poll(t)
  <2>1. /\ UNCHANGED <<pool, lock>> /\ View(n).status = "pending_sale"
        /\ request'[t] = IF Won(t) THEN "won" ELSE "over"
    BY <1>0, <1>1, <1>7 DEF Poll, To, chainState
  <2>2. CASE Won(t)
    <3>1. /\ cursor[n] \in Nat /\ cursor[n] <= head /\ Now = head + 1
      BY <1>0, HeldRange
    <3>2. cursor[n] # Now /\ cursor[n] \in cursor[n]..Now
      BY <1>3, <3>1
    <3>3. cursor[n] \in Held(t)
      BY <1>0, <2>2, <3>2 DEF Won, View, Held, RowAt
    <3>4. Sent(t) = {}
      BY <3>3 DEF Kept
    <3>5. \A d \in Held(t), b \in cursor[n]..Now : b <= d => b \in Held(t)
      <4>1. \A b \in cursor[n]..Now : cursor[n] <= b
        BY <3>1
      <4> QED
        BY <1>0, <3>3, <4>1 DEF Kept
    <3> QED
      BY <1>0, <1>1, <2>1, <2>2, <3>4, <3>5, KeptCarry DEF Sent
  <2>3. CASE ~Won(t)
    BY <1>0, <1>1, <2>1, <2>3, KeptCarry DEF Sent
  <2> QED
    BY <2>2, <2>3
<1>8. CASE FinalGate(t)
  <2>1. /\ UNCHANGED <<pool, lock>> /\ request[t] = "won" /\ request'[t] \in {"cleared", "over"}
    BY <1>1, <1>8 DEF FinalGate, To, chainState
  <2>2. /\ Sent(t) = {} /\ \A d \in Held(t), b \in cursor[n]..Now : b <= d => b \in Held(t)
    BY <1>0, <2>1 DEF Kept
  <2> QED
    BY <1>0, <1>1, <2>1, <2>2, KeptCarry DEF Sent
<1>9. CASE GiveUp(t) \/ Resend(t) \/ Crash(t) \/ SettleFails(t)
  <2>1. UNCHANGED lock /\ request'[t] \in {"over", "new"}
    BY <1>1, <1>9 DEF GiveUp, Resend, Crash, SettleFails, To
  <2>2. Sent(t)' = Sent(t)
    BY <1>9 DEF GiveUp, Resend, Crash, SettleFails, Send, Sent, chainState
  <2> QED
    BY <1>0, <1>1, <2>1, <2>2, KeptCarry
<1>10. CASE Settle(t) \/ CommitFails(t)
  <2>1. /\ request[t] \in {"locked", "cleared"} /\ request'[t] = "over"
        /\ lock'[n] = IF lock[n].tx = t THEN NoLock ELSE lock[n]
    BY <1>0, <1>1, <1>10 DEF Settle, CommitFails, Release, To
  <2>2. Sent(t)' = Sent(t)
    BY <1>10 DEF Settle, CommitFails, Send, Sent, LockOutlives
  <2>3. /\ Sent(t) = {}
        /\ \A d \in Held(t), b \in cursor[n]..Now : b <= d => b \in Held(t)
    BY <1>0, <2>1 DEF Kept, Clean
  <2>4. lock'[n].tx # t
    BY <1>3, <2>1 DEF NoLock
  <2> QED
    BY <1>0, <1>1, <1>2, <2>1, <2>2, <2>3, <2>4 DEF Kept, UnderLock, Unlocked
<1> QED
  BY <1>5, <1>6, <1>7, <1>8, <1>9, <1>10 DEF NodeStep

\* The commitment gets into a block, before the lock's time is up.
LEMMA KeptIncluded ==
    ASSUME LockOutlives, Shapes, Views, NEW t \in Txs, Kept(t), NEW op \in pool,
           IncludeCommitment(op), op.tx = t
    PROVE  Kept(t)'
<1>0. PICK n \in Nodes : n = NodeOf[t]
  BY HeldRange
<1>1. /\ UNCHANGED <<head, sealed, cursor, lock, request>> /\ Now <= op.expires
      /\ op \in Sent(t) /\ Sent(t)' = Sent(t) \ {op} /\ Now' = Now
  BY DEF IncludeCommitment, Sent, Now, nodeState
<1>2. Sent(t) = {op} /\ Held(t) = {} /\ Sent(t)' = {}
  BY <1>1 DEF Kept
<1>3. lock[n].tx = t /\ op.expires + TTL <= lock[n].until + PoolLife /\ head <= lock[n].until
  BY <1>0, <1>1, <1>2 DEF Kept, UnderLock, Unlocked
<1>4. Now \in Nat /\ TTL \in Nat /\ PoolLife \in Nat /\ lock[n].until \in Nat /\ op.expires \in Nat
      /\ cursor[n] \in Nat
  BY <1>0, HeldRange
<1>5. Held(t)' \subseteq {Now}
  <2> SUFFICES ASSUME NEW b \in Held(t)' PROVE b = Now
    OBVIOUS
  <2>1. b \in cursor[n]..Now /\ RowAt(b)'.tx = t
    BY <1>0, <1>1 DEF Held
  <2>2. CASE b # Now
    <3>1. RowAt(b)' = RowAt(b)
      BY <1>1, <2>2 DEF RowAt
    <3> QED
      BY <1>0, <1>2, <2>1, <3>1 DEF Held
  <2> QED
    BY <2>2
<1>6. \A d \in Held(t)', b \in cursor[n]..Now :
        (b <= d /\ b + TTL >= lock[n].until + PoolLife) => b \in Held(t)'
  <2> SUFFICES ASSUME NEW d \in Held(t)', NEW b \in cursor[n]..Now, b <= d,
                      b + TTL >= lock[n].until + PoolLife
               PROVE  b \in Held(t)'
    OBVIOUS
  <2>1. d = Now /\ b \in Nat
    BY <1>4, <1>5
  <2>2. b = Now
    BY <1>1, <1>3, <1>4, <2>1
  <2> QED
    BY <2>1, <2>2
<1>7. request[t] # "locked"
  BY <1>1, <1>2 DEF Kept, Clean
<1>8. request[t] \notin {"won", "cleared"}
  BY <1>2 DEF Kept
<1>9. \A a, d \in Held(t)', b \in cursor[n]..Now : (a <= b /\ b <= d) => b \in Held(t)'
  <2> SUFFICES ASSUME NEW a \in Held(t)', NEW d \in Held(t)', NEW b \in cursor[n]..Now, a <= b, b <= d
               PROVE  b \in Held(t)'
    OBVIOUS
  <2>1. a = Now /\ d = Now /\ b \in Nat
    BY <1>4, <1>5
  <2> QED
    BY <1>4, <2>1
<1> QED
  BY <1>0, <1>1, <1>2, <1>3, <1>6, <1>7, <1>8, <1>9 DEF Kept, UnderLock, Unlocked

LEMMA KeptStep ==
    ASSUME LockOutlives, Shapes, Views, Views', NEW t \in Txs, Kept(t), [Next]_vars
    PROVE  Kept(t)'
<1>0. PICK n \in Nodes : n = NodeOf[t]
  BY HeldRange
<1>1. cursor[n] \in Nat /\ cursor[n] <= cursor[n]
  BY <1>0, HeldRange
<1>2. CASE Unlist \/ Relist
  <2>1. /\ UNCHANGED <<head, sealed, pool, cursor, request, lock>> /\ open'.tx = NoTx
    BY <1>2 DEF Unlist, Relist, ForSale, OffSale, nodeState
  <2>2. HeldLess(t)
    BY <2>1, HeldOpen, HeldRange
  <2>3. Sent(t)' = Sent(t)
    BY <2>1 DEF Sent
  <2> QED
    BY <1>0, <1>1, <2>1, <2>2, <2>3, KeptQuiet
<1>3. ASSUME NEW op \in pool, IncludeCommitment(op)
      PROVE  Kept(t)'
  <2>1. CASE op.tx = t
    BY <1>3, <2>1, KeptIncluded
  <2>2. CASE op.tx # t
    <3>1. /\ UNCHANGED <<head, sealed, cursor, request, lock>>
          /\ open' = open \/ open'.tx # t
          /\ pool' = pool \ {op}
      BY <1>3, <2>2 DEF IncludeCommitment, nodeState
    <3>2. HeldLess(t)
      BY <3>1, HeldOpen
    <3>3. Sent(t)' \subseteq Sent(t)
      BY <3>1 DEF Sent
    <3> QED
      BY <1>0, <1>1, <3>1, <3>2, <3>3, KeptQuiet
  <2> QED
    BY <2>1, <2>2
<1>4. ASSUME NEW op \in pool, IncludeBuy(op)
      PROVE  Kept(t)'
  <2>1. /\ UNCHANGED <<head, sealed, cursor, request, lock>>
        /\ open' = open \/ open'.tx = NoTx
        /\ pool' = pool \ {op}
    BY <1>4 DEF IncludeBuy, OffSale, nodeState
  <2>2. HeldLess(t)
    BY <2>1, HeldOpen, HeldRange
  <2>3. Sent(t)' \subseteq Sent(t)
    BY <2>1 DEF Sent
  <2> QED
    BY <1>0, <1>1, <2>1, <2>2, <2>3, KeptQuiet
<1>5. ASSUME NEW m \in Nodes, Index(m)
      PROVE  Kept(t)'
  <2>1. UNCHANGED <<head, pool, request, lock>>
    BY <1>5 DEF Index
  <2>2. HeldLess(t) /\ cursor[NodeOf[t]] <= cursor'[NodeOf[t]]
    BY <1>5, HeldIndex
  <2>3. Sent(t)' = Sent(t)
    BY <2>1 DEF Sent
  <2> QED
    BY <2>1, <2>2, <2>3, KeptQuiet
<1>6. CASE UNCHANGED vars
  <2>1. UNCHANGED <<head, open, sealed, pool, cursor, request, lock>>
    BY <1>6 DEF vars, chainState, nodeState
  <2>2. HeldLess(t)
    BY <2>1, HeldOpen
  <2>3. Sent(t)' = Sent(t)
    BY <2>1 DEF Sent
  <2> QED
    BY <1>0, <1>1, <2>1, <2>2, <2>3, KeptQuiet
\* Another transaction's request, be it at the same node: it takes the lock only
\* when nobody has it, and drops none but its own.
<1>7. ASSUME NEW u \in Txs, NodeStep(u), u # t
      PROVE  Kept(t)'
  <2>1. UNCHANGED <<head, open, sealed, cursor>> /\ request'[t] = request[t]
    BY <1>7, NodeStepLeaves
  <2>2. HeldLess(t)
    BY <2>1, HeldOpen
  <2>3. Sent(t)' = Sent(t)
    <3>1. \/ pool' = pool
          \/ pool' = pool \cup {[kind |-> "buy_commitment", tx |-> u, expires |-> head + PoolLife]}
          \/ pool' = pool \cup {[kind |-> "buy", tx |-> u, expires |-> terms[u].expires]}
      BY <1>7, NodeStepLeaves
    <3> QED
      BY <1>7, <3>1 DEF Sent
  <2>4. \/ lock'[n] = lock[n]
        \/ lock[n].tx # t /\ lock'[n].tx # t
    <3>1. CASE n # NodeOf[u]
      BY <1>7, <3>1, NodeStepLocks
    <3>2. CASE n = NodeOf[u]
      <4>1. \/ lock' = lock
            \/ /\ FreeLock(u)
               /\ lock'[NodeOf[u]] = [tx |-> u, until |-> head + TTL]
            \/ lock[NodeOf[u]].tx = u /\ lock'[NodeOf[u]] = NoLock
        BY <1>7, NodeStepLocks
      <4>2. NoLock.tx = NoTx /\ t # NoTx
        BY HeldRange DEF NoLock
      <4>3. FreeLock(u) => lock[n] = NoLock
        BY <3>2 DEF FreeLock
      <4>4. lock'[NodeOf[u]] = [tx |-> u, until |-> head + TTL] => lock'[n].tx = u
        BY <3>2
      <4> QED
        BY <1>7, <3>2, <4>1, <4>2, <4>3, <4>4
    <3> QED
      BY <3>1, <3>2
  <2> QED
    BY <1>0, <1>1, <2>1, <2>2, <2>3, <2>4, KeptQuiet
<1>8. ASSUME NEW u \in Txs, Accept(u), u # t
      PROVE  Kept(t)'
  <2>1. UNCHANGED <<head, open, sealed, cursor, pool, lock>> /\ request'[t] = request[t]
    BY <1>8 DEF Accept, Validate, To, chainState, nodeState, Shapes
  <2>2. HeldLess(t)
    BY <2>1, HeldOpen
  <2>3. Sent(t)' = Sent(t)
    BY <2>1 DEF Sent
  <2> QED
    BY <1>0, <1>1, <2>1, <2>2, <2>3, KeptQuiet
<1> QED
  BY <1>2, <1>3, <1>4, <1>5, <1>6, <1>7, <1>8, StepKinds, KeptNextBlock, KeptAccept, KeptNodeStep

\* Whatever fails and however often a request is sent again, the node never has
\* two commitments of a transaction on their way, nor one while one stands, as
\* long as the lock outlives the commitment in every healthy view.
THEOREM CommittedOnce ==
    ASSUME LockOutlives
    PROVE  Spec => []NeverCommittedTwice
<1> DEFINE AllKept == Shapes /\ Views /\ \A t \in Txs : Kept(t)
<1>1. Init => AllKept
  <2> SUFFICES ASSUME Init PROVE \A t \in Txs : Kept(t)
    BY ShapesInit, ViewsInit
  <2>1. ASSUME NEW t \in Txs
        PROVE  Kept(t)
    <3>1. /\ NodeOf[t] \in Nodes /\ t # NoTx /\ cursor[NodeOf[t]] = 0 /\ head = 0 /\ pool = {}
          /\ request[t] = "new" /\ lock[NodeOf[t]].tx # t
          /\ open.tx = NoTx /\ sealed[0].tx = NoTx
      <4>1. NodeOf[t] \in Nodes /\ t # NoTx
        BY SettlementAssumption
      <4>2. open.tx = NoTx /\ sealed[0].tx = NoTx
        BY DEF Init, ForSale
      <4>3. /\ cursor[NodeOf[t]] = 0 /\ head = 0 /\ pool = {} /\ request[t] = "new"
            /\ lock[NodeOf[t]].tx = NoTx
        BY <4>1 DEF Init, NoLock
      <4> QED
        BY <4>1, <4>2, <4>3
    <3>2. \A b \in 0..1 : b = 0 \/ b = 1
      OBVIOUS
    <3>3. Held(t) = {}
      BY <3>1, <3>2 DEF Held, RowAt, Now
    <3>4. Sent(t) = {}
      BY <3>1 DEF Sent
    <3> QED
      BY <3>1, <3>3, <3>4 DEF Kept, UnderLock, Unlocked
  <2> QED
    BY <2>1
<1>2. AllKept /\ [Next]_vars => AllKept'
  <2> SUFFICES ASSUME AllKept, [Next]_vars PROVE AllKept'
    OBVIOUS
  <2>1. Shapes' /\ Views'
    BY ShapesStep, ViewsStep
  <2>2. ASSUME NEW t \in Txs PROVE Kept(t)'
    BY <2>1, KeptStep
  <2> QED
    BY <2>1, <2>2
<1>3. AllKept => NeverCommittedTwice
  <2> SUFFICES ASSUME Shapes, Views, NEW t \in Txs, Kept(t)
               PROVE  Cardinality(Sent(t)) + (IF open.tx = t THEN 1 ELSE 0) <= 1
    BY DEF NeverCommittedTwice, Sent
  <2>1. CASE Sent(t) = {}
    BY <2>1, FS_EmptySet
  <2>2. CASE Sent(t) # {}
    <3>1. PICK op : op \in Sent(t) /\ Sent(t) = {op} /\ Held(t) = {}
      BY <2>2 DEF Kept
    <3>2. Cardinality(Sent(t)) = 1
      BY <3>1, FS_Singleton
    <3>3. Now \in cursor[NodeOf[t]]..Now
      <4>1. Now = head + 1 /\ head \in Nat /\ cursor[NodeOf[t]] \in Nat /\ cursor[NodeOf[t]] <= head
        BY HeldRange
      <4> QED
        BY <4>1
    <3>4. open.tx # t
      BY <3>1, <3>3 DEF Held, RowAt
    <3> QED
      BY <3>2, <3>4
  <2> QED
    BY <2>1, <2>2
<1> HIDE DEF AllKept
<1> QED
  BY <1>1, <1>2, <1>3, PTL DEF Spec

-----------------------------------------------------------------------------
(* The chain under the nodes implements the custody of the asset. *)

Custodial ==
    /\ head <= LastBlock /\ expiry \in [1..MaxListings -> Ends]
    /\ open.listing \in 1..MaxListings
    /\ delivered # {} => open.status = "active"
    /\ \A s, t \in delivered : s = t

LEMMA CustodialStep == Shapes /\ Custodial /\ [Next]_vars => Custodial'
<1> SUFFICES ASSUME Shapes, Custodial, [Next]_vars PROVE Custodial'
  OBVIOUS
<1>0. LastBlock \in Nat /\ MaxListings \in Nat
  BY SettlementAssumption
<1>1. ASSUME UNCHANGED <<head, open, expiry, delivered>> PROVE Custodial'
  BY <1>1 DEF Custodial
<1>2. ASSUME NEW t \in Txs, NodeStep(t) PROVE Custodial'
  BY <1>1, <1>2, NodeStepLeaves
<1>3. ASSUME NEW t \in Txs, Accept(t) PROVE Custodial'
  BY <1>1, <1>3 DEF Accept, Validate, chainState
<1>4. CASE NextBlock
  <2>1. head \in Nat
    BY Plain
  <2> QED
    BY <1>0, <1>4, <2>1 DEF NextBlock, Sweep, ForSale, Custodial
<1>5. CASE Unlist
  BY <1>5 DEF Unlist, OffSale, Custodial
<1>6. CASE Relist
  <2>1. open.listing \in Nat
    BY Plain
  <2> QED
    BY <1>0, <1>6, <2>1 DEF Relist, ForSale, Custodial
<1>7. ASSUME NEW op \in pool, IncludeCommitment(op) PROVE Custodial'
  BY <1>7 DEF IncludeCommitment, Committable, Custodial
<1>8. ASSUME NEW op \in pool, IncludeBuy(op) PROVE Custodial'
  <2>1. UNCHANGED <<head, expiry>>
    BY <1>8 DEF IncludeBuy
  <2>2. CASE Settles(op.tx)
    <3>1. open' = OffSale(open.listing) /\ delivered' = delivered \cup {op.tx}
      BY <1>8, <2>2 DEF IncludeBuy
    <3>2. delivered = {}
      BY <2>2 DEF Settles, Custodial
    <3> QED
      BY <2>1, <3>1, <3>2 DEF OffSale, Custodial
  <2>3. CASE ~Settles(op.tx)
    BY <1>1, <1>8, <2>1, <2>3 DEF IncludeBuy
  <2> QED
    BY <2>2, <2>3
<1>9. (\E n \in Nodes : Index(n)) \/ UNCHANGED vars => UNCHANGED <<head, open, expiry, delivered>>
  BY DEF Index, vars, chainState
<1> QED
  BY <1>1, <1>2, <1>3, <1>4, <1>5, <1>6, <1>7, <1>8, <1>9, StepKinds

\* What the row says the asset is held by.
LEMMA HeldIs ==
    /\ open.status = "active" => HeldNow = Deal!Free
    /\ open.status = "listed" => HeldNow = Deal!Offer(open.listing, expiry[open.listing])
    /\ open.status = "pending_sale" =>
          HeldNow = Deal!Promise(open.listing, expiry[open.listing], open.tx, open.until)
  BY DEF HeldNow, Deal!Free, Deal!Offer, Deal!Promise

LEMMA DealStep == Shapes /\ Custodial /\ [Next]_vars => [Deal!CustodyNext]_(Deal!custody)
<1> SUFFICES ASSUME Shapes, Custodial, [Next]_vars
             PROVE  [Deal!CustodyNext]_(Deal!custody)
  OBVIOUS
<1>0. /\ LastBlock \in Nat /\ TTL \in Nat /\ NoTx \notin Txs /\ head \in Nat /\ Now \in Nat
      /\ open.listing \in Nat /\ open.until \in Nat /\ open \in Row
      /\ expiry[open.listing] \in Nat /\ expiry \in [1..MaxListings -> Nat] /\ MaxListings \in Nat
  <2>1. LastBlock \in Nat /\ MaxListings \in Nat
    BY SettlementAssumption
  <2>2. open \in Row /\ expiry \in [1..MaxListings -> Nat]
    BY DEF Shapes, Coherent
  <2>3. open.listing \in 1..MaxListings
    BY DEF Custodial
  <2> QED
    BY <2>1, <2>2, <2>3, Plain
<1>1. ASSUME UNCHANGED <<head, open, expiry, delivered>> PROVE UNCHANGED Deal!custody
  BY <1>1 DEF Deal!custody, HeldNow, Holder, Now
<1>2. ASSUME NEW t \in Txs, NodeStep(t) PROVE UNCHANGED Deal!custody
  BY <1>1, <1>2, NodeStepLeaves
<1>3. ASSUME NEW t \in Txs, Accept(t) PROVE UNCHANGED Deal!custody
  BY <1>1, <1>3 DEF Accept, Validate, chainState
<1>4. ASSUME NextBlock PROVE Deal!Pass
  <2>1. /\ head < LastBlock /\ head' = head + 1 /\ open' = Sweep(open, Now')
        /\ UNCHANGED <<expiry, delivered>>
    BY <1>4 DEF NextBlock, Now
  <2>2. Now < LastBlock + 1 /\ Now' = Now + 1 /\ Holder' = Holder /\ open'.listing = open.listing
    BY <1>0, <2>1 DEF Now, Holder, Sweep, ForSale
  <2>3. HeldNow' = IF HeldNow.kind = "promise" /\ HeldNow.until < Now'
                   THEN Deal!Offer(HeldNow.id, HeldNow.ends) ELSE HeldNow
    <3>1. CASE open.status = "pending_sale" /\ open.until < Now'
      <4>1. open' = ForSale(open.listing)
        BY <2>1, <3>1 DEF Sweep
      <4>2. HeldNow' = Deal!Offer(open.listing, expiry[open.listing])
        BY <2>1, <4>1 DEF HeldNow, ForSale, Deal!Offer
      <4> QED
        BY <3>1, <4>2, HeldIs DEF Deal!Promise
    <3>2. CASE ~(open.status = "pending_sale" /\ open.until < Now')
      <4>1. HeldNow' = HeldNow
        BY <2>1, <3>2 DEF Sweep, HeldNow
      <4>2. ~(HeldNow.kind = "promise" /\ HeldNow.until < Now')
        BY <1>0, <3>2, HeldIs DEF Deal!Promise, Deal!Offer, Deal!Free, Row
      <4> QED
        BY <4>1, <4>2
    <3> QED
      BY <3>1, <3>2
  <2> QED
    BY <2>2, <2>3 DEF Deal!Pass
<1>5. ASSUME Unlist PROVE Deal!Withdraw("asset")
  <2>1. /\ open.status = "listed" /\ open' = OffSale(open.listing)
        /\ UNCHANGED <<head, expiry, delivered>>
    BY <1>5 DEF Unlist
  <2>2. HeldNow.kind = "offer" /\ HeldNow' = Deal!Free
    BY <2>1, HeldIs DEF HeldNow, OffSale, Deal!Offer, Deal!Free
  <2>3. Now' = Now /\ Holder' = Holder /\ open'.listing = open.listing
    BY <2>1 DEF Now, Holder, OffSale
  <2> QED
    BY <2>2, <2>3 DEF Deal!Withdraw, Deal!Hold
<1>6. ASSUME Relist PROVE Deal!MakeOffer("asset")
  <2>1. /\ open.status = "active" /\ open.listing < MaxListings
        /\ open' = ForSale(open.listing + 1) /\ UNCHANGED <<head, expiry, delivered>>
    BY <1>6 DEF Relist
  <2>2. /\ HeldNow = Deal!Free /\ open'.listing = open.listing + 1
        /\ HeldNow' = Deal!Offer(open.listing + 1, expiry[open.listing + 1])
    BY <2>1, HeldIs DEF HeldNow, ForSale, Deal!Offer
  <2>3. Now' = Now /\ Holder' = Holder
    BY <2>1 DEF Now, Holder
  <2>4. PICK e : e = expiry[open.listing + 1] /\ e \in Ends /\ e \in Nat
    <3>1. open.listing + 1 \in 1..MaxListings
      BY <1>0, <2>1
    <3> QED
      BY <1>0, <3>1 DEF Custodial
  <2>5. PICK term : term = e - Now
    OBVIOUS
  <2>6. Now \in 1..(LastBlock + 1)
    BY <1>0 DEF Custodial, Now
  <2>7. term \in {x - b : x \in Ends, b \in 1..(LastBlock + 1)}
    BY <2>4, <2>5, <2>6
  <2>8. Now + term = e
    BY <1>0, <2>4, <2>5
  <2>9. Deal!Hold({"asset"}, Deal!Offer(open.listing + 1, Now + term))
    BY <2>2, <2>4, <2>8 DEF Deal!Hold
  <2> QED
    BY <2>2, <2>3, <2>7, <2>9 DEF Deal!MakeOffer, Deal!Loose
<1>7. ASSUME NEW op \in pool, IncludeCommitment(op)
      PROVE  (\E b \in Txs \cup {NoTx} : Deal!MakePromise("asset", b)) \/ UNCHANGED Deal!custody
  <2>1. UNCHANGED <<head, expiry, delivered>> /\ op.tx \in Txs
    BY <1>7, Plain DEF IncludeCommitment
  <2>2. CASE ~Committable(op.tx)
    BY <1>1, <1>7, <2>1, <2>2 DEF IncludeCommitment
  <2>3. CASE Committable(op.tx)
    <3>1. /\ open.status = "listed" /\ Now < expiry[open.listing]
          /\ open' = [status |-> "pending_sale", listing |-> open.listing, tx |-> op.tx,
                      until |-> Now + TTL]
      BY <1>7, <2>3 DEF IncludeCommitment, Committable
    <3>2. PICK v, e, t : v = open.listing /\ e = expiry[open.listing] /\ t = op.tx
      OBVIOUS
    <3>3. /\ HeldNow = Deal!Offer(v, e) /\ HeldNow' = Deal!Promise(v, e, t, Now + TTL)
      BY <2>1, <3>1, <3>2, HeldIs DEF HeldNow, Deal!Promise
    <3>4. Now' = Now /\ Holder' = Holder /\ open'.listing = open.listing /\ Holder = NoTx
      BY <2>1, <3>1 DEF Now, Holder, Custodial
    <3>5. ~(Now >= e) /\ NoTx # t
      <4>1. e \in Nat /\ Now \in Nat /\ Now < e
        BY <1>0, <3>1, <3>2
      <4> QED
        BY <1>0, <2>1, <3>2, <4>1
    <3>6. Deal!MakePromise("asset", t)
      BY <3>3, <3>4, <3>5
      DEF Deal!MakePromise, Deal!Loose, Deal!Hold, Deal!Offer, Deal!Promise, Deal!Free
    <3> QED
      BY <2>1, <3>2, <3>6
  <2> QED
    BY <2>2, <2>3
<1>8. ASSUME NEW op \in pool, IncludeBuy(op)
      PROVE  Deal!KeepPromise("asset") \/ UNCHANGED Deal!custody
  <2>1. UNCHANGED <<head, expiry>> /\ op.tx \in Txs
    BY <1>8, Plain DEF IncludeBuy
  <2>2. CASE ~Settles(op.tx)
    BY <1>1, <1>8, <2>1, <2>2 DEF IncludeBuy
  <2>3. CASE Settles(op.tx)
    <3>1. /\ open.status = "pending_sale" /\ open.tx = op.tx /\ Now <= open.until
          /\ Now < expiry[open.listing] /\ open' = OffSale(open.listing)
          /\ delivered' = delivered \cup {op.tx}
      BY <1>8, <2>3 DEF IncludeBuy, Settles
    <3>2. PICK v, e, t, u : v = open.listing /\ e = expiry[open.listing] /\ t = op.tx /\ u = open.until
      OBVIOUS
    <3>3. HeldNow = Deal!Promise(v, e, t, u) /\ HeldNow' = Deal!Free
      BY <3>1, <3>2, HeldIs DEF HeldNow, OffSale, Deal!Free
    <3>4. delivered = {} /\ delivered' = {t}
      BY <3>1, <3>2 DEF Custodial
    <3>5. Now' = Now /\ open'.listing = open.listing /\ Holder' = t
      BY <2>1, <3>1, <3>2, <3>4 DEF Now, Holder, OffSale
    <3> QED
      BY <3>1, <3>2, <3>3, <3>5 DEF Deal!KeepPromise, Deal!Hold, Deal!Promise
  <2> QED
    BY <2>2, <2>3
<1>9. (\E n \in Nodes : Index(n)) \/ UNCHANGED vars => UNCHANGED <<head, open, expiry, delivered>>
  BY DEF Index, vars, chainState
<1> QED
  BY <1>1, <1>2, <1>3, <1>4, <1>5, <1>6, <1>7, <1>8, <1>9, StepKinds DEF Deal!CustodyNext

\* The chain that nodes and buyers race on keeps the promises of Custody, which
\* the whole ledger implements as well: whatever is broadcast, repeated or lost,
\* the asset changes hands only to the buyer it is promised to, in time.
THEOREM DealImplementsCustody == Spec => DealKeepsCustody
<1>1. Init => Custodial
  BY SettlementAssumption DEF Init, Custodial, ForSale
<1> QED
  BY <1>1, CustodialStep, DealStep, ShapesInit, ShapesStep, PTL DEF Spec, DealKeepsCustody
=============================================================================
