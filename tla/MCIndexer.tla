------------------------------ MODULE MCIndexer ------------------------------
(***************************************************************************)
(* The parts of the indexer that do not touch one another at this level of *)
(* detail, in one run: `focus` says which of them moves while the others   *)
(* stay where they began.  Supply moves twice: "caps" follows counters and *)
(* caps with all data plain, "data" one collection's schema and data.      *)
(***************************************************************************)
EXTENDS MCSyncEngine, Supply, OperationRouter, SettlementDaemon, HiveAccess,
        MCStartUp

CONSTANTS u1, u2, c1, c2, a1, a2, f, g, x, y, t1, t2, o1, o2, o3, o4

VARIABLE focus

indexerVars == <<engine, supplyVars, routerVars, daemonVars, accessVars, startVars, focus>>
-----------------------------------------------------------------------------
(* Engine: some block brings nothing; where another part moves, one chain is *)
(* enough.                                                                   *)

SomeChains == {ch \in AllChains : \E b \in Blocks : ch[b] = <<>>}

QuietChain == [b \in Blocks |-> IF b = 1 THEN <<"list">> ELSE <<>>]
-----------------------------------------------------------------------------
(* Supply: one creator with a capped and a capless collection. *)

Creator == [c \in Series |-> u1]
Symbol == [c \in Series |-> c]

Term(potential, cap) ==
    [potential |-> potential, cap |-> cap, transferable |-> TRUE, burnable |-> TRUE]
SomeTerms == {Term(2, 3), Term(1, 0)}
SomeSchemas == {NoSchema, [immutable |-> {f}, mutable |-> {}]}
SomePayloads == {NoData, {f}, {g}}

Plain ==
    /\ \A c \in Series : operators[c] = {} /\ (Exists(c) => series[c].schema = NoSchema)
    /\ \A s \in SeedIds : seed[s] # NoRow => seed[s].owner = u1 /\ seed[s].data = NoData
    /\ \A i \in InstanceIds :
          instance[i] # NoRow => instance[i].owner = u1 /\ instance[i].data = NoData

Single ==
    /\ \A c \in Series \ {c1} : ~Exists(c)
    /\ \A s \in SeedIds : s[2] = a2 => seed[s] = NoRow
-----------------------------------------------------------------------------
(* Routing: two Hive transactions, four operations.  x costs 150 units (fee 2, *)
(* royalty 15), y costs 149 (fee 1, its creator sells it).                     *)

Sale == x :> [price |-> 150, royalty |-> 1000, royaltyTo |-> "cat", seller |-> "sue"]
     @@ y :> [price |-> 149, royalty |-> 1000, royaltyTo |-> "sue", seller |-> "sue"]

Pay(memo, about, from, to, amount) ==
    [type |-> "transfer", memo |-> memo, about |-> about, from |-> from, to |-> to,
     amount |-> amount]
Custom == [type |-> "custom_json"]

SomeBodies ==
    t1 :> <<Custom, Pay("collection", x, "ann", "node", 100), Pay("seller", x, "ann", "sue", 133),
            Pay("royalty", x, "ann", "cat", 15), Pay("fee", x, "ann", "node", 2),
            Pay("collection", y, "ann", "node", 99)>> @@
    t2 :> <<Pay("seller", y, "bob", "sue", 148), Pay("fee", y, "ann", "node", 1),
            Pay("fee", y, "bob", "node", 1), Custom, Pay("collection", x, "bob", "node", 100),
            Pay("collection", x, "ann", "node", 100)>>

W(id, does) == [id |-> id, does |-> does]
Op(t, about, pays, writes, sound) ==
    [tx |-> t, about |-> about, signer |-> "node", pays |-> pays, sale |-> Sale[about],
     writes |-> writes, sound |-> sound, admitted |-> TRUE, active |-> TRUE]

OpKinds(t) ==
    {Op(t, x, "nothing", <<W(x, "insert"), W(y, "insert")>>, TRUE),
     Op(t, x, "nothing", <<W(x, "update"), W(y, "update")>>, TRUE),
     Op(t, x, "nothing", <<W(x, "delete"), W(y, "update")>>, FALSE),
     Op(t, y, "nothing", <<W(y, "delete")>>, TRUE),
     Op(t, x, "fixed", <<>>, TRUE), Op(t, x, "fixed", <<>>, FALSE), Op(t, y, "fixed", <<>>, TRUE),
     Op(t, x, "split", <<W(x, "update")>>, TRUE), Op(t, x, "split", <<W(x, "update")>>, FALSE),
     Op(t, y, "split", <<W(y, "update")>>, TRUE),
     [Op(t, x, "split", <<>>, TRUE) EXCEPT !.admitted = FALSE],
     [Op(t, x, "fixed", <<>>, TRUE) EXCEPT !.active = FALSE]}

FirstOp == Op(t1, x, "nothing", <<W(x, "insert"), W(y, "insert")>>, TRUE)
SomeStreams == {<<FirstOp, a, b, c>> : a \in OpKinds(t1), b \in OpKinds(t1), c \in OpKinds(t2)}
          \cup {<<FirstOp, a, b, c>> : a \in OpKinds(t1), b \in OpKinds(t2), c \in OpKinds(t2)}
QuietStream == CHOOSE ops \in SomeStreams : TRUE
-----------------------------------------------------------------------------
(* Access: what the endpoints' pages hold of three operations, and the heads *)
(* they answer with.                                                         *)

Of(id, block) == [id |-> id, block |-> block, ours |-> TRUE, sound |-> TRUE]
ThreeOps == <<Of(o1, 1), Of(o2, 1), Of(o3, 2)>>
First == ThreeOps[1]
Second == ThreeOps[2]
Third == ThreeOps[3]
Foreign == [Of(o4, 2) EXCEPT !.ours = FALSE]

Page(ops, next) == [sound |-> TRUE, ops |-> ops, next |-> next]
SomeBooks ==
    {<<Page(ThreeOps, 0)>>,
     <<Page(<<First, Second>>, 2), Page(<<Foreign, Third>>, 0)>>,
     <<Page(<<First, Second>>, 2), Page(<<Second, Third>>, 0)>>,
     <<Page(<<First, First>>, 2), Page(<<Second, Third>>, 0)>>,
     <<Page(<<Foreign, First>>, 2), Page(<<Foreign, Second, Third>>, 0)>>,
     <<Page(<<First, Second>>, 2), Page(<<>>, 1)>>,
     <<Page(<<First>>, 2), Page(<<Second>>, 3), Page(<<Third>>, 4), Page(<<>>, 0)>>,
     <<Page(<<First, Second>>, 2), [Page(<<>>, 0) EXCEPT !.sound = FALSE]>>,
     <<Page(<<First, Second, [Third EXCEPT !.sound = FALSE]>>, 0)>>,
     <<Page(<<First, Second>>, 2), Page(<<Third, Of(o4, 3)>>, 0)>>}
SomeHeads == [head : 3..4, lib : 1..3]
-----------------------------------------------------------------------------
\* The daemon: after block 9 only heartbeats go out, and nothing has gone wrong.
CalmInTheEnd == head > 9 => misfortunes = 0 /\ indexed = 0

-----------------------------------------------------------------------------
IndexerInit ==
    /\ focus \in {"engine", "caps", "data", "routing", "daemon", "range", "head", "start"}
    /\ RouterInit /\ (focus # "routing" => stream = QuietStream)
    /\ chain \in (IF focus = "engine" THEN SomeChains ELSE {QuietChain}) /\ EngineInit
    /\ SupplyInit
    /\ DaemonInit
    /\ AccessInit
    /\ StartInit /\ (focus # "start" => store = Installed)

IndexerNext ==
    /\ UNCHANGED focus
    /\ \/ focus = "engine" /\ EngineNext
          /\ UNCHANGED <<supplyVars, routerVars, daemonVars, accessVars, startVars>>
       \/ focus = "caps" /\ SupplyNext /\ Plain'
          /\ UNCHANGED <<engine, routerVars, daemonVars, accessVars, startVars>>
       \/ focus = "data" /\ SupplyNext /\ Single'
          /\ UNCHANGED <<engine, routerVars, daemonVars, accessVars, startVars>>
       \/ focus = "routing" /\ RouterNext
          /\ UNCHANGED <<engine, supplyVars, daemonVars, accessVars, startVars>>
       \/ focus = "daemon" /\ DaemonNext /\ CalmInTheEnd'
          /\ UNCHANGED <<engine, supplyVars, routerVars, accessVars, startVars>>
       \/ focus = "range" /\ CallsNext
          /\ UNCHANGED <<engine, supplyVars, routerVars, daemonVars, startVars>>
       \/ focus = "head" /\ HeadNext
          /\ UNCHANGED <<engine, supplyVars, routerVars, daemonVars, startVars>>
       \/ focus = "start" /\ StartNext /\ Found'
          /\ UNCHANGED <<engine, supplyVars, routerVars, daemonVars, accessVars>>

IndexerSpec == IndexerInit /\ [][IndexerNext]_indexerVars
=============================================================================
