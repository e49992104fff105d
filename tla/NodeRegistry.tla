---------------------------- MODULE NodeRegistry ----------------------------
(***************************************************************************)
(* The directory of settlement nodes (table l2_nodes) as every indexer     *)
(* projects it from node_register and node_heartbeat operations, and the   *)
(* gate that create_collection, buy_commitment and buy pass through: the   *)
(* signer must be a node that was active recently, measured in blocks.     *)
(*                                                                         *)
(* Block 0 stands for SQL NULL: no operation is older than the genesis     *)
(* block.  No handler writes status 'banned', so that column is left out.  *)
(***************************************************************************)
EXTENDS Naturals

CONSTANTS
    Nodes,      \* Hive accounts that may register as settlement nodes
    MinBeat,    \* MIN_HEARTBEAT_INTERVAL_BLOCKS
    MaxStale,   \* MAX_NODE_HEARTBEAT_STALENESS_BLOCKS
    MaxBlock    \* bound: the last block of the modelled chain

ASSUME RegistryAssumption ==
    /\ MinBeat \in Nat \ {0}
    /\ MaxStale \in Nat
    /\ MaxBlock \in Nat \ {0}

VARIABLES
    block,      \* the block whose operations are being applied
    node        \* node[n]: the l2_nodes row of account n

registryVars == <<block, node>>

NullBlock == 0
Row == [registered : 0..MaxBlock, beat : 0..MaxBlock]
NoRow == [registered |-> NullBlock, beat |-> NullBlock]

Registered(n) == node[n].registered # NullBlock

\* The block that counts as the node's last sign of life.
Activity(n) ==
    IF node[n].beat # NullBlock THEN node[n].beat ELSE node[n].registered

\* assertActiveSettlementNode at the current block.
Active(n) ==
    /\ Registered(n)
    /\ node[n].registered <= block
    /\ Activity(n) <= block
    /\ block - Activity(n) <= MaxStale

-----------------------------------------------------------------------------
RegistryInit ==
    /\ block = 1
    /\ node = [n \in Nodes |-> NoRow]

\* Mutant: the upsert replaces the whole row.
RegisterAfresh(n) ==
    /\ node' = [node EXCEPT ![n] = [registered |-> block, beat |-> NullBlock]]
    /\ UNCHANGED block

\* node_register: an upsert that moves the registration block and leaves the
\* heartbeat column alone.
Register(n) ==
    /\ node' = [node EXCEPT ![n].registered = block]
    /\ UNCHANGED block

\* Mutant: the heartbeat of an unregistered account is recorded.
HeartbeatOfAnyone(n) ==
    /\ node[n].beat # NullBlock => block - node[n].beat >= MinBeat
    /\ node' = [node EXCEPT ![n].beat = block]
    /\ UNCHANGED block

\* node_heartbeat: only from a registered node, and not too soon.
Heartbeat(n) ==
    /\ Registered(n)
    /\ node[n].beat # NullBlock => block - node[n].beat >= MinBeat
    /\ node' = [node EXCEPT ![n].beat = block]
    /\ UNCHANGED block

\* The scanner moves on to the next block.
NextBlock ==
    /\ block < MaxBlock
    /\ block' = block + 1
    /\ UNCHANGED node

RegistryNext ==
    \/ \E n \in Nodes : Register(n) \/ Heartbeat(n)
    \/ NextBlock

RegistrySpec == RegistryInit /\ [][RegistryNext]_registryVars

-----------------------------------------------------------------------------
\* Type correctness of the directory, with what every reader of it relies on:
\* no block of the future is recorded and only registered nodes have beaten.
RegistryTypeOK ==
    /\ block \in 1..MaxBlock
    /\ node \in [Nodes -> Row]
    /\ \A n \in Nodes :
        /\ node[n].registered <= block
        /\ node[n].beat <= block
        /\ node[n].beat # NullBlock => Registered(n)

\* A node that has published a state root before and has fallen silent gets
\* its signing power back only by publishing again; registering anew does not
\* revive it (nodes.ts, normalizeNodeSnapshot).  A node that has never
\* published one has nothing but its registration to be active by, and does
\* stay active by registering again.
SilentNodeRevivedOnlyByHeartbeat ==
    [][\A n \in Nodes :
        (node[n].beat # NullBlock /\ ~Active(n) /\ Active(n)')
            => node'[n].beat = block']_registryVars
=============================================================================
