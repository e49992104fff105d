---------------------------- MODULE ServicesProofs ----------------------------
(***************************************************************************)
(* Theorems about a node's services and its clients: what becomes of an    *)
(* operation once the node has signed it (Admission), for what collections *)
(* it signs (CollectionSigning), what a batch of packs asks for (PackPlan),*)
(* and what a client verifies of the ledger's rows (LightClient).  They    *)
(* hold for every operation, every set of requests, every table of drops,  *)
(* every trail with every purchase on it, and every choice of lags,        *)
(* lifetimes and limits.                                                   *)
(***************************************************************************)
EXTENDS Admission, CollectionSigning, PackPlan, LightClient, InductionLemmas, SequenceTheorems

-----------------------------------------------------------------------------
(* Admission: verdicts. *)

\* What all verdicts have in common is the account's age as of the operation's
\* block, which no later creation and no lagging endpoint can change.
AdmissionInv ==
    /\ tick \in 1..LastTick /\ born \in 1..Never /\ landed \in 0..LastTick
    /\ step \in {"asked", "sent", "refused", "landed"}
    /\ step = "landed" => landed <= tick
    /\ step # "landed" => verdict = [r \in Replicas |-> "none"]
    /\ DOMAIN verdict = Replicas
    /\ \A r \in Replicas : verdict[r] \in {"none", Judged(submitted, born)}
    /\ step \in {"sent", "landed"} /\ submitted.action \in NodeSigned => Signable(submitted)

LEMMA JudgedByAge ==
    ASSUME NEW op, NEW a, NEW b, a < landed <=> b < landed
    PROVE  Judged(op, a) = Judged(op, b)
  BY DEF Judged, AccountAccepted, CreatedBefore

LEMMA JudgedLater ==
    ASSUME UNCHANGED <<submitted, landed>>
    PROVE  Judged(submitted, born)' = Judged(submitted, born')
  BY DEF Judged, AccountAccepted, CreatedBefore

LEMMA AdmissionInvInit == AdmissionInit => AdmissionInv
  BY EndpointKeepsUp DEF AdmissionInit, AdmissionInv, Never

LEMMA AdmissionInvStep ==
    AdmissionInv /\ [AdmissionNext]_admissionVars => AdmissionInv'
<1> SUFFICES ASSUME AdmissionInv, [AdmissionNext]_admissionVars
             PROVE  AdmissionInv'
  OBVIOUS
<1> USE EndpointKeepsUp DEF AdmissionInv, Never
<1>1. CASE NodeSigns
  BY <1>1 DEF NodeSigns, Signable, Judged, AccountAccepted, CreatedBefore
<1>2. CASE UserSends
  BY <1>2 DEF UserSends
<1>3. CASE Land
  BY <1>3 DEF Land
<1>4. CASE CreateAccount
  <2>1. CASE step = "landed"
    <3>1. born' = tick /\ born = Never /\ UNCHANGED <<submitted, step, tick, landed, verdict>>
      BY <1>4 DEF CreateAccount
    <3>2. Judged(submitted, born') = Judged(submitted, born)
      BY <2>1, <3>1, JudgedByAge
    <3>3. Judged(submitted, born)' = Judged(submitted, born)
      BY <3>1, <3>2, JudgedLater
    <3> QED
      BY <3>1, <3>3
  <2>2. CASE step # "landed"
    BY <1>4, <2>2 DEF CreateAccount
  <2> QED
    BY <2>1, <2>2
<1>5. CASE Pass
  <2>1. Judged(submitted, born)' = Judged(submitted, born)
    BY <1>5, JudgedLater DEF Pass
  <2> QED
    BY <1>5, <2>1 DEF Pass
<1>6. ASSUME NEW r \in Replicas, ReplayOn(r)
      PROVE  AdmissionInv'
  <2>1. PICK view \in (tick - RpcLag)..tick :
            verdict' = [verdict EXCEPT ![r] =
                          Judged(submitted, IF born <= view THEN born ELSE Never)]
    BY <1>6 DEF ReplayOn
  <2>2. view \in Int /\ landed <= view
    BY <1>6 DEF ReplayOn
  <2>3. (IF born <= view THEN born ELSE Never) < landed <=> born < landed
    BY <2>2
  <2>4. verdict' = [verdict EXCEPT ![r] = Judged(submitted, born)]
    BY <2>1, <2>3, JudgedByAge
  <2>5. Judged(submitted, born)' = Judged(submitted, born)
    BY <1>6, JudgedLater DEF ReplayOn
  <2> QED
    BY <1>6, <2>4, <2>5 DEF ReplayOn
<1>7. CASE UNCHANGED admissionVars
  <2>1. Judged(submitted, born)' = Judged(submitted, born)
    BY <1>7, JudgedLater DEF admissionVars
  <2> QED
    BY <1>7, <2>1 DEF admissionVars
<1> QED
  BY <1>1, <1>2, <1>3, <1>4, <1>5, <1>6, <1>7 DEF AdmissionNext

LEMMA AdmissionCorrect == AdmissionSpec => []AdmissionInv
  BY AdmissionInvInit, AdmissionInvStep, PTL DEF AdmissionSpec

\* Nodes that replay an operation at different times, each against an endpoint
\* that lags as it likes, do not differ on it: Hive accounts are looked up by
\* their age as of the operation's block (the account checks of the pipeline).
THEOREM VerdictsAgree == AdmissionSpec => []SameVerdictWhenever
<1>1. AdmissionInv => SameVerdictWhenever
  BY DEF AdmissionInv, SameVerdictWhenever
<1> QED
  BY <1>1, AdmissionCorrect, PTL

-----------------------------------------------------------------------------
(* Admission: what was signed is applied, what was applied can be read. *)

\* The node's checks and the handlers', field by field.
LEMMA CollectionChecksAgree ==
    ASSUME NEW f, CollectionSignable(f)
    PROVE  CollectionAccepted(f)
<1>1. FeeMatches(f) /\ GivenUsername(f.payer)
  BY DEF CollectionSignable, FeeSound, FeeMatches, GivenUsername
<1>2. /\ RequireShaped(f.id) /\ RequireBounded(f.name) /\ RequireShaped(f.symbol)
      /\ f.id = "good" /\ RequireExactLength(f.originDna) /\ f.originDna = "good"
  BY DEF CollectionSignable, Shaped, ExactLength, NonEmptyBounded, Bounded, IsText,
         RequireShaped, RequireBounded, RequireExactLength, RequireString
<1>3. MetadataAccepted(f)
  BY DEF CollectionSignable, MetadataSound, MetadataAccepted, NonEmptyBounded, Bounded, IsText,
         RequireBounded, RequireString, OptionalBounded
<1>4. RulesAccepted(f)
  BY DEF CollectionSignable, RulesSound, RulesAccepted, OptionalUsername, GivenUsername
<1>5. SupplyAccepted(f)
  BY DEF CollectionSignable, SupplySound, SupplyAccepted
<1> QED
  BY <1>1, <1>2, <1>3, <1>4, <1>5 DEF CollectionAccepted

LEMMA BuyChecksAgree ==
    ASSUME NEW f, BuySignable(f)
    PROVE  BuyAccepted(f)
  BY DEF BuySignable, BuyAccepted, CommitmentAccepted, NamesListing, GivenUsername,
         Shaped, RequireShaped, RequireString, IsText

LEMMA SignedIsApplied ==
    ASSUME NEW op, op.action \in NodeSigned, Signable(op), NEW seen
    PROVE  Judged(op, seen) = "applied"
<1>1. EnvelopeSound(op.fields)
  BY DEF Signable
<1>2. ~Unheard(op.fields) /\ ~Garbled(op.fields)
  BY <1>1 DEF EnvelopeSound, HeaderSound, PayloadSound, Unheard, Garbled
<1>3. op.fields.auths = AuthLevel[op.action]
  BY <1>1 DEF EnvelopeSound, HeaderSound, AuthLevel, NodeSigned
<1>4. AccountAccepted(op, seen)
  BY DEF AccountAccepted, Target
<1>5. HandlerAccepts(op)
  <2>1. CASE op.action = "create_collection"
    BY <2>1, CollectionChecksAgree DEF Signable, HandlerAccepts
  <2>2. CASE op.action = "buy"
    BY <2>2, BuyChecksAgree DEF Signable, HandlerAccepts
  <2> QED
    BY <2>1, <2>2 DEF NodeSigned
<1> QED
  BY <1>2, <1>3, <1>4, <1>5 DEF Judged

LEMMA AppliedIsReadable ==
    ASSUME NEW op, NEW seen, Judged(op, seen) = "applied",
           op.action \in NodeSigned => Signable(op)
    PROVE  \/ ClientReads(op)
           \/ op.action = "transfer" /\ op.fields.ids = "array"
           \/ op.action = "create_collection" /\ op.fields.royaltyRecipient = "empty"
<1>1. /\ ~Unheard(op.fields) /\ ~Garbled(op.fields)
      /\ op.fields.auths = AuthLevel[op.action] /\ HandlerAccepts(op)
  BY DEF Judged
<1>2. CASE op.action = "create_collection"
  <2>1. EnvelopeSound(op.fields) /\ CollectionSignable(op.fields)
    BY <1>2 DEF Signable, NodeSigned
  <2>2. Listed(op.fields)
    BY <2>1 DEF EnvelopeSound, HeaderSound, PayloadSound, Listed
  <2>3. /\ op.fields.id = "good" /\ RequiredText(op.fields.name)
        /\ RequiredText(op.fields.symbol)
        /\ op.fields.maxInstances \notin {"under", "fraction", "wrong"}
        /\ op.fields.rules = "good" /\ op.fields.transferable = "good"
        /\ op.fields.royaltyPct \in {"zero", "some"}
        /\ op.fields.feeTo = "node" /\ op.fields.memo = "good" /\ op.fields.fee = "exact"
    BY <2>1 DEF CollectionSignable, FeeSound, RulesSound, SupplySound, Shaped,
                NonEmptyBounded, Bounded, IsText, RequiredText
  <2>4. op.fields.royaltyRecipient # "empty" => OptionalText(op.fields.royaltyRecipient)
    BY <2>1 DEF CollectionSignable, RulesSound, OptionalText, RequiredText, IsText
  <2>5. op.fields.royaltyPct = "some" => RequiredText(op.fields.royaltyRecipient)
    BY <2>1 DEF CollectionSignable, RulesSound, RequiredText, IsText
  <2> QED
    BY <1>2, <2>2, <2>3, <2>4, <2>5 DEF ClientReads, ClientReadsCollection
<1>3. CASE op.action # "create_collection"
  <2>1. ClientHears(op)
    BY <1>1 DEF ClientHears, Unheard, Garbled
  <2>2. op.action = "transfer" /\ op.fields.ids # "array" => ClientReadsTransfer(op.fields)
    BY <1>1 DEF HandlerAccepts, TransferAccepted, ClientReadsTransfer
  <2> QED
    BY <1>3, <2>1, <2>2 DEF ClientReads
<1> QED
  BY <1>2, <1>3

(* Weights: Hive finds no less in an authority graph than the node, which    *)
(* may have fetched a part of it and visits nobody twice on a path.          *)

\* What of a graph is weighed: A are its accounts.
Weighable(graph, A) ==
    /\ IsFiniteSet(A) /\ A = DOMAIN graph
    /\ \A a \in A : /\ graph[a].key \in Nat /\ graph[a].threshold \in Nat
                    /\ graph[a].trusts \in [A -> Nat]

Weighed(graph, a, T, F, v) ==
    /\ v \in [T -> Nat] /\ \A b \in T : v[b] = graph[a].trusts[b]
    /\ Sums(F, T, v) /\ Trusted(graph, a, T) = F[T]

LEMMA TrustedIs ==
    ASSUME NEW graph, NEW A, Weighable(graph, A), NEW a \in A, NEW T \in SUBSET A
    PROVE  \E F, v : Weighed(graph, a, T, F, v)
<1> DEFINE v == [b \in T |-> graph[a].trusts[b]]
           pick == [s \in SUBSET T |-> CHOOSE x \in s : TRUE]
           Eq(f) == f = [s \in SUBSET T |->
                            IF s = {} THEN 0
                            ELSE LET x == CHOOSE x \in s : TRUE
                                 IN  graph[a].trusts[x] + f[s \ {x}]]
           W == CHOOSE f : Eq(f)
<1>1. Trusted(graph, a, T) = W[T]
  BY DEF Trusted, MapThenSumSet, MapThenFoldSet
<1>2. IsFiniteSet(T) /\ v \in [T -> Nat] /\ \A b \in T : v[b] = graph[a].trusts[b]
  <2>1. IsFiniteSet(T) /\ graph[a].trusts \in [A -> Nat]
    BY FS_Subset DEF Weighable
  <2> QED
    BY <2>1
<1>3. Picks(pick, T)
  BY DEF Picks
<1> HIDE DEF v
<1>4. PICK F : Sums(F, T, v)
  BY <1>2, SumExists
<1>5. Eq(F)
  <2>1. ASSUME NEW s \in SUBSET T, s # {}
        PROVE  F[s] = graph[a].trusts[CHOOSE x \in s : TRUE] + F[s \ {CHOOSE x \in s : TRUE}]
    <3>1. PICK e \in s : e = CHOOSE x \in s : TRUE
      BY <2>1
    <3>2. F[s] = v[e] + F[s \ {e}] /\ v[e] = graph[a].trusts[e]
      BY <1>2, <1>4 DEF Sums
    <3> QED
      BY <3>1, <3>2
  <2>2. F \in [SUBSET T -> Nat] /\ F[{}] = 0
    BY <1>4 DEF Sums
  <2> QED
    BY <2>1, <2>2
<1>6. Eq(W)
  BY <1>5, Zenon
<1>7. AddsUp(W, pick, T, v)
  <2> SUFFICES ASSUME NEW s \in SUBSET T
               PROVE  W[s] = IF s = {} THEN 0 ELSE v[pick[s]] + W[s \ {pick[s]}]
    BY DEF AddsUp
  <2>1. W[s] = IF s = {} THEN 0
               ELSE graph[a].trusts[CHOOSE x \in s : TRUE] + W[s \ {CHOOSE x \in s : TRUE}]
    <3> HIDE DEF W
    <3> QED
      BY <1>6
  <2>2. pick[s] = CHOOSE x \in s : TRUE
    OBVIOUS
  <2>3. s # {} => graph[a].trusts[pick[s]] = v[pick[s]]
    BY <1>2, <1>3 DEF Picks
  <2> HIDE DEF W, pick
  <2> QED
    BY <2>1, <2>2, <2>3
<1> HIDE DEF W, pick
<1>8. W[T] = F[T]
  BY <1>2, <1>3, <1>4, <1>7, SumOnly
<1> QED
  BY <1>1, <1>2, <1>4, <1>8 DEF Weighed

LEMMA TrustedGrows ==
    ASSUME NEW graph, NEW A, Weighable(graph, A), NEW a \in A,
           NEW T \in SUBSET A, NEW U \in SUBSET A, T \subseteq U
    PROVE  /\ Trusted(graph, a, T) \in Nat /\ Trusted(graph, a, U) \in Nat
           /\ Trusted(graph, a, T) <= Trusted(graph, a, U)
<1>1. PICK F, v : Weighed(graph, a, T, F, v)
  BY TrustedIs
<1>2. PICK G, w : Weighed(graph, a, U, G, w)
  BY TrustedIs
<1>3. IsFiniteSet(T) /\ IsFiniteSet(U)
  BY FS_Subset DEF Weighable
<1>4. \A b \in T : v[b] <= w[b]
  <2>1. \A b \in T : v[b] = w[b] /\ w[b] \in Nat
    BY <1>1, <1>2 DEF Weighed
  <2> QED
    BY <2>1
<1>5. F[T] <= G[U]
  <2>1. v \in [T -> Nat] /\ w \in [U -> Nat] /\ Sums(F, T, v) /\ Sums(G, U, w)
    BY <1>1, <1>2 DEF Weighed
  <2> QED
    BY <1>3, <1>4, <2>1, SumGrows
<1>6. F[T] \in Nat /\ G[U] \in Nat
  BY <1>1, <1>2 DEF Weighed, Sums
<1> QED
  BY <1>1, <1>2, <1>5, <1>6 DEF Weighed

\* The weights of the keys alone, and with one more link allowed, as the node
\* and as Hive find them.
NodeKeys(graph, A) == [a \in A |-> [visited \in SUBSET A |-> graph[a].key]]
HiveKeys(graph, A) == [a \in A |-> graph[a].key]

NodeWeights(graph, A, fetched, w) ==
    [a \in A |-> [visited \in SUBSET A |->
        graph[a].key + Trusted(graph, a, {b \in fetched \ visited :
                                              w[b][visited \cup {b}] >= graph[b].threshold})]]
HiveWeights(graph, A, w) ==
    [a \in A |-> graph[a].key + Trusted(graph, a, {b \in A : w[b] >= graph[b].threshold})]

NoMore(w, v, A) ==
    \A a \in A : /\ v[a] \in Nat
                 /\ \A visited \in SUBSET A : w[a][visited] \in Nat /\ w[a][visited] <= v[a]

LEMMA KeysAgree ==
    ASSUME NEW graph, NEW A, Weighable(graph, A)
    PROVE  NoMore(NodeKeys(graph, A), HiveKeys(graph, A), A)
  BY DEF NoMore, NodeKeys, HiveKeys, Weighable

LEMMA WeightsGrow ==
    ASSUME NEW graph, NEW A, Weighable(graph, A), NEW fetched \in SUBSET A,
           NEW w, NEW v, NoMore(w, v, A)
    PROVE  NoMore(NodeWeights(graph, A, fetched, w), HiveWeights(graph, A, v), A)
<1>1. ASSUME NEW a \in A, NEW visited \in SUBSET A
      PROVE  /\ NodeWeights(graph, A, fetched, w)[a][visited] \in Nat
             /\ HiveWeights(graph, A, v)[a] \in Nat
             /\ NodeWeights(graph, A, fetched, w)[a][visited] <= HiveWeights(graph, A, v)[a]
  <2> DEFINE T == {b \in fetched \ visited : w[b][visited \cup {b}] >= graph[b].threshold}
             U == {b \in A : v[b] >= graph[b].threshold}
  <2>1. T \in SUBSET A /\ U \in SUBSET A /\ T \subseteq U
    <3>1. ASSUME NEW b \in T PROVE b \in U
      <4>1. b \in A /\ visited \cup {b} \in SUBSET A
        OBVIOUS
      <4>2. w[b][visited \cup {b}] \in Nat /\ v[b] \in Nat /\ w[b][visited \cup {b}] <= v[b]
        BY <4>1 DEF NoMore
      <4>3. graph[b].threshold \in Nat /\ w[b][visited \cup {b}] >= graph[b].threshold
        BY <4>1 DEF Weighable
      <4>4. v[b] >= graph[b].threshold
        BY <4>2, <4>3
      <4> QED
        BY <4>1, <4>4
    <3> QED
      BY <3>1
  <2>2. /\ NodeWeights(graph, A, fetched, w)[a][visited] = graph[a].key + Trusted(graph, a, T)
        /\ HiveWeights(graph, A, v)[a] = graph[a].key + Trusted(graph, a, U)
    BY DEF NodeWeights, HiveWeights
  <2>3. graph[a].key \in Nat
    BY DEF Weighable
  <2> HIDE DEF T, U
  <2>4. /\ Trusted(graph, a, T) \in Nat /\ Trusted(graph, a, U) \in Nat
        /\ Trusted(graph, a, T) <= Trusted(graph, a, U)
    BY <2>1, TrustedGrows
  <2> QED
    BY <2>2, <2>3, <2>4
<1>2. {} \in SUBSET A
  OBVIOUS
<1> QED
  BY <1>1, <1>2 DEF NoMore

LEMMA NodeWeighs ==
    ASSUME NEW graph, NEW A, Weighable(graph, A), "buyer" \in A, NEW fetched \in SUBSET A
    PROVE  SignatureSuffices(graph, fetched)
             <=> NodeWeights(graph, A, fetched, NodeWeights(graph, A, fetched, NodeKeys(graph, A)))
                    ["buyer"][{"buyer"}] >= graph["buyer"].threshold
<1> DEFINE W0 == NodeKeys(graph, A)
           W1 == NodeWeights(graph, A, fetched, W0)
           W2 == NodeWeights(graph, A, fetched, W1)
           Level(d, f) == [a \in DOMAIN graph |-> [visited \in SUBSET DOMAIN graph |->
                            graph[a].key + IF d = 0 THEN 0 ELSE
                                Trusted(graph, a, {b \in fetched \ visited :
                                    f[d - 1][b][visited \cup {b}] >= graph[b].threshold})]]
           Eq(f) == f = [d \in 0..AuthorityDepth |-> Level(d, f)]
           N == [d \in 0..AuthorityDepth |-> IF d = 0 THEN W0 ELSE IF d = 1 THEN W1 ELSE W2]
           C == CHOOSE f : Eq(f)
<1>1. SignatureSuffices(graph, fetched)
        <=> C[AuthorityDepth]["buyer"][{"buyer"}] >= graph["buyer"].threshold
  BY DEF SignatureSuffices
<1>2. A = DOMAIN graph /\ \A a \in A : graph[a].key \in Nat
  BY DEF Weighable
<1>3. N[0] = W0 /\ N[1] = W1 /\ N[2] = W2
  <2> HIDE DEF W0, W1, W2
  <2> QED
    BY DEF AuthorityDepth
<1>4. ASSUME NEW d \in 0..AuthorityDepth PROVE N[d] = Level(d, N)
  <2>1. d \in {0, 1, 2}
    BY DEF AuthorityDepth
  <2> HIDE DEF N
  <2>2. CASE d = 0
    BY <1>2, <1>3, <2>2 DEF NodeKeys
  <2>3. CASE d = 1
    <3>1. d - 1 = 0 /\ d # 0
      BY <2>3
    <3> HIDE DEF W0
    <3>2. Level(d, N) = NodeWeights(graph, A, fetched, N[d - 1])
      BY <1>2, <3>1 DEF NodeWeights
    <3> QED
      BY <1>3, <2>3, <3>1, <3>2
  <2>4. CASE d = 2
    <3>1. d - 1 = 1 /\ d # 0
      BY <2>4
    <3> HIDE DEF W1
    <3>2. Level(d, N) = NodeWeights(graph, A, fetched, N[d - 1])
      BY <1>2, <3>1 DEF NodeWeights
    <3> QED
      BY <1>3, <2>4, <3>1, <3>2
  <2> QED
    BY <2>1, <2>2, <2>3, <2>4
<1>5. Eq(N)
  <2> HIDE DEF Level
  <2>1. N = [d \in 0..AuthorityDepth |-> N[d]]
    OBVIOUS
  <2> HIDE DEF N
  <2> QED
    BY <1>4, <2>1
<1>6. Eq(C)
  <2> HIDE DEF N
  <2> QED
    BY <1>5, Zenon
<1>7. C[0] = Level(0, C) /\ C[1] = Level(1, C) /\ C[2] = Level(2, C)
  <2>1. \A d \in 0..AuthorityDepth : C[d] = Level(d, C)
    <3> HIDE DEF C, Level
    <3> QED
      BY <1>6
  <2>2. 0 \in 0..AuthorityDepth /\ 1 \in 0..AuthorityDepth /\ 2 \in 0..AuthorityDepth
    BY DEF AuthorityDepth
  <2> HIDE DEF C, Level
  <2> QED
    BY <2>1, <2>2
<1> HIDE DEF C, N
<1>8. C[0] = W0
  BY <1>2, <1>7 DEF NodeKeys
<1>9. C[1] = W1
  <2>1. Level(1, C) = NodeWeights(graph, A, fetched, C[0])
    BY <1>2 DEF NodeWeights
  <2> QED
    BY <1>7, <1>8, <2>1
<1>10. C[2] = W2
  <2>1. Level(2, C) = NodeWeights(graph, A, fetched, C[1])
    BY <1>2 DEF NodeWeights
  <2> QED
    BY <1>7, <1>9, <2>1
<1> QED
  BY <1>1, <1>10 DEF AuthorityDepth

LEMMA HiveWeighs ==
    ASSUME NEW graph, NEW A, Weighable(graph, A), "buyer" \in A
    PROVE  HiveAuthorizes(graph)
             <=> HiveWeights(graph, A, HiveWeights(graph, A, HiveKeys(graph, A)))["buyer"]
                    >= graph["buyer"].threshold
<1> DEFINE W0 == HiveKeys(graph, A)
           W1 == HiveWeights(graph, A, W0)
           W2 == HiveWeights(graph, A, W1)
           Level(d, f) == [a \in DOMAIN graph |->
                            graph[a].key + IF d = 0 THEN 0 ELSE
                                Trusted(graph, a, {b \in DOMAIN graph :
                                    f[d - 1][b] >= graph[b].threshold})]
           Eq(f) == f = [d \in 0..AuthorityDepth |-> Level(d, f)]
           N == [d \in 0..AuthorityDepth |-> IF d = 0 THEN W0 ELSE IF d = 1 THEN W1 ELSE W2]
           C == CHOOSE f : Eq(f)
<1>1. HiveAuthorizes(graph) <=> C[AuthorityDepth]["buyer"] >= graph["buyer"].threshold
  BY DEF HiveAuthorizes
<1>2. A = DOMAIN graph /\ \A a \in A : graph[a].key \in Nat
  BY DEF Weighable
<1>3. N[0] = W0 /\ N[1] = W1 /\ N[2] = W2
  <2> HIDE DEF W0, W1, W2
  <2> QED
    BY DEF AuthorityDepth
<1>4. ASSUME NEW d \in 0..AuthorityDepth PROVE N[d] = Level(d, N)
  <2>1. d \in {0, 1, 2}
    BY DEF AuthorityDepth
  <2> HIDE DEF N
  <2>2. CASE d = 0
    BY <1>2, <1>3, <2>2 DEF HiveKeys
  <2>3. CASE d = 1
    <3>1. d - 1 = 0 /\ d # 0
      BY <2>3
    <3> HIDE DEF W0
    <3>2. Level(d, N) = HiveWeights(graph, A, N[d - 1])
      BY <1>2, <3>1 DEF HiveWeights
    <3> QED
      BY <1>3, <2>3, <3>1, <3>2
  <2>4. CASE d = 2
    <3>1. d - 1 = 1 /\ d # 0
      BY <2>4
    <3> HIDE DEF W1
    <3>2. Level(d, N) = HiveWeights(graph, A, N[d - 1])
      BY <1>2, <3>1 DEF HiveWeights
    <3> QED
      BY <1>3, <2>4, <3>1, <3>2
  <2> QED
    BY <2>1, <2>2, <2>3, <2>4
<1>5. Eq(N)
  <2> HIDE DEF Level
  <2>1. N = [d \in 0..AuthorityDepth |-> N[d]]
    OBVIOUS
  <2> HIDE DEF N
  <2> QED
    BY <1>4, <2>1
<1>6. Eq(C)
  <2> HIDE DEF N
  <2> QED
    BY <1>5, Zenon
<1>7. C[0] = Level(0, C) /\ C[1] = Level(1, C) /\ C[2] = Level(2, C)
  <2>1. \A d \in 0..AuthorityDepth : C[d] = Level(d, C)
    <3> HIDE DEF C, Level
    <3> QED
      BY <1>6
  <2>2. 0 \in 0..AuthorityDepth /\ 1 \in 0..AuthorityDepth /\ 2 \in 0..AuthorityDepth
    BY DEF AuthorityDepth
  <2> HIDE DEF C, Level
  <2> QED
    BY <2>1, <2>2
<1> HIDE DEF C, N
<1>8. C[0] = W0
  BY <1>2, <1>7 DEF HiveKeys
<1>9. C[1] = W1
  <2>1. Level(1, C) = HiveWeights(graph, A, C[0])
    BY <1>2 DEF HiveWeights
  <2> QED
    BY <1>7, <1>8, <2>1
<1>10. C[2] = W2
  <2>1. Level(2, C) = HiveWeights(graph, A, C[1])
    BY <1>2 DEF HiveWeights
  <2> QED
    BY <1>7, <1>9, <2>1
<1> QED
  BY <1>1, <1>10 DEF AuthorityDepth

\* Hive finds as much in an authority graph as the node, for the purchases it
\* is asked to sign.
LEMMA AuthoritiesAgree ==
    ASSUME NEW op \in Submissions, op.action = "buy",
           SignatureSuffices(op.fields.authority, op.fields.fetched)
    PROVE  HiveAuthorizes(op.fields.authority)
<1>1. PICK graph : graph = op.fields.authority
  OBVIOUS
<1>2. PICK A : A = DOMAIN graph
  OBVIOUS
<1>3. PICK fetched \in SUBSET A : fetched = op.fields.fetched
  BY <1>1, <1>2, AuthoritiesTyped
<1>4. Weighable(graph, A) /\ "buyer" \in A
  BY <1>1, <1>2, AuthoritiesTyped DEF Weighable
<1> DEFINE N1 == NodeWeights(graph, A, fetched, NodeKeys(graph, A))
           N2 == NodeWeights(graph, A, fetched, N1)
           H1 == HiveWeights(graph, A, HiveKeys(graph, A))
           H2 == HiveWeights(graph, A, H1)
<1>5. NoMore(N1, H1, A)
  BY <1>4, KeysAgree, WeightsGrow
<1>6. NoMore(N2, H2, A)
  <2> HIDE DEF N1, H1
  <2> QED
    BY <1>4, <1>5, WeightsGrow
<1>7. N2["buyer"][{"buyer"}] >= graph["buyer"].threshold
  BY <1>1, <1>3, <1>4, NodeWeighs
<1>8. HiveAuthorizes(graph) <=> H2["buyer"] >= graph["buyer"].threshold
  BY <1>4, HiveWeighs
<1> HIDE DEF N2, H2
<1>9. /\ N2["buyer"][{"buyer"}] \in Nat /\ H2["buyer"] \in Nat
      /\ N2["buyer"][{"buyer"}] <= H2["buyer"] /\ graph["buyer"].threshold \in Nat
  <2>1. {"buyer"} \in SUBSET A
    BY <1>4
  <2> QED
    BY <1>4, <1>6, <2>1 DEF NoMore, Weighable
<1> QED
  BY <1>1, <1>7, <1>8, <1>9

\* Whatever fields an operation has: if the node signs it, no handler rejects
\* it, and what a handler applies the light client reads, but for the two forms
\* named in SignedIsAccepted (validateCollectionTransaction, handleCreateCollection,
\* handleBuy and the readers of the SDK were written apart).
THEOREM SignedThenApplied == AdmissionSpec => []SignedIsAccepted
<1>1. AdmissionSpec => [](submitted \in Submissions)
  <2>1. AdmissionInit => submitted \in Submissions
    BY DEF AdmissionInit
  <2>2. submitted \in Submissions /\ [AdmissionNext]_admissionVars => (submitted \in Submissions)'
    BY DEF AdmissionNext, admissionVars, NodeSigns, UserSends, Land, CreateAccount, Pass, ReplayOn
  <2> QED
    BY <2>1, <2>2, PTL DEF AdmissionSpec
<1>2. AdmissionInv /\ submitted \in Submissions => SignedIsAccepted
  <2> SUFFICES ASSUME AdmissionInv, submitted \in Submissions
               PROVE  SignedIsAccepted
    OBVIOUS
  <2>1. ASSUME step = "sent", submitted.action \in NodeSigned
        PROVE  Includable(submitted)
    <3>1. Signable(submitted)
      BY <2>1 DEF AdmissionInv
    <3> QED
      BY <3>1, AuthoritiesAgree DEF Includable, Signable, BuySignable, Solvent
  <2>2. ASSUME NEW r \in Replicas, verdict[r] # "none"
        PROVE  /\ step = "landed" /\ verdict[r] = Judged(submitted, born)
               /\ submitted.action \in NodeSigned => Signable(submitted)
    BY <2>2 DEF AdmissionInv
  <2>3. ASSUME NEW r \in Replicas, submitted.action \in NodeSigned
        PROVE  verdict[r] \in {"none", "applied"}
    BY <2>2, <2>3, SignedIsApplied
  <2>4. ASSUME NEW r \in Replicas, verdict[r] = "applied"
        PROVE  \/ ClientReads(submitted)
               \/ submitted.action = "transfer" /\ submitted.fields.ids = "array"
               \/ /\ submitted.action = "create_collection"
                  /\ submitted.fields.royaltyRecipient = "empty"
    BY <2>2, <2>4, AppliedIsReadable
  <2> QED
    BY <2>1, <2>3, <2>4 DEF SignedIsAccepted
<1> QED
  BY <1>1, <1>2, AdmissionCorrect, PTL

-----------------------------------------------------------------------------
(* Signing collections. *)

\* A creator has one lock row, and a transaction that is signed, or that may
\* still be, and that can still be broadcast, has it: the lock outlasts the
\* longest expiration that was accepted before it was taken.
HasLock(q) == \E l \in signLock : l.holder = q /\ l.until >= q.tx.expires

SigningInv ==
    /\ clock \in Nat
    /\ DOMAIN stage = Inquiries /\ cosigned \subseteq Inquiries
    /\ \A l, m \in signLock : l.creator = m.creator => l = m
    /\ \A l \in signLock : l.until \in Int /\ l.creator = l.holder.tx.creator
    /\ \A q \in cosigned : stage[q] = "answered"
    /\ \A q \in Inquiries : stage[q] = "validated" => q.tx.expires - clock <= MaxLife
    /\ \A q \in Inquiries :
        (q \in cosigned \/ stage[q] \in {"locked", "allowed"}) /\ Live(q.tx) => HasLock(q)

\* What the chain brings: a block of the index, a transaction.
Indexes == \E active \in BOOLEAN : IndexCollection(active)
Includes(tx) == \/ tx \in Drafts /\ Broadcast(tx)
                \/ tx \in Elsewhere /\ BroadcastElsewhere(tx)

LEMMA SigningMoves ==
    ASSUME [SigningNext]_signingVars
    PROVE  \/ NextInstant \/ SignerCrash \/ Indexes
           \/ \E tx \in Drafts \cup Elsewhere : Includes(tx)
           \/ \E q \in Inquiries :
                 \/ ReplayAnswer(q) \/ Receive(q) \/ TurnAwayClient(q) \/ ValidateRequest(q)
                 \/ \E code \in Unavailable \cup {"INTERNAL_ERROR"} : ValidationFails(q, code)
                 \/ LockCreator(q) \/ CheckRoom(q) \/ Sign(q) \/ SigningFails(q) \/ ReleaseAndAnswer(q)
           \/ UNCHANGED signingVars
<1>1. (\E active \in BOOLEAN : IndexCollection(active)) => Indexes
  BY DEF Indexes
<1>2. \/ \E tx \in Drafts : Broadcast(tx)
      \/ \E tx \in Elsewhere : BroadcastElsewhere(tx)
      => \E tx \in Drafts \cup Elsewhere : Includes(tx)
  BY DEF Includes
<1> QED
  BY <1>1, <1>2, Zenon DEF SigningNext

\* The route and the chain leave the locks and the signatures alone, and no
\* request gets further than validation by them.
Aside ==
    /\ UNCHANGED <<signLock, cosigned>>
    /\ clock' \in Nat /\ clock <= clock'
    /\ DOMAIN stage' = Inquiries
    /\ \A q \in Inquiries :
        \/ stage'[q] = stage[q]
        \/ stage[q] # "answered" /\ stage'[q] \in {"received", "answered", "failing"}
        \/ stage[q] # "answered" /\ stage'[q] = "validated" /\ q.tx.expires - clock' <= MaxLife
        \/ stage[q] = "locked" /\ stage'[q] = "allowed"

LEMMA AsideKeeps ==
    ASSUME SigningInv, Aside
    PROVE  SigningInv'
<1> USE SigningAssumption DEF SigningInv, Aside
<1>1. \A q \in Inquiries : Live(q.tx)' => Live(q.tx)
  BY DEF Live
<1>2. \A q : HasLock(q)' <=> HasLock(q)
  BY DEF HasLock
<1>3. \A q \in cosigned' : stage'[q] = "answered"
  OBVIOUS
<1>4. \A q \in Inquiries : stage'[q] = "validated" => q.tx.expires - clock' <= MaxLife
  OBVIOUS
<1>5. \A q \in Inquiries :
        (q \in cosigned' \/ stage'[q] \in {"locked", "allowed"}) /\ Live(q.tx)' => HasLock(q)'
  BY <1>1, <1>2
<1> QED
  BY <1>3, <1>4, <1>5

LEMMA SigningStepKinds ==
    ASSUME SigningInv, [SigningNext]_signingVars
    PROVE  \/ Aside
           \/ \E q \in Inquiries : LockCreator(q) /\ HeldAt(q.tx.creator) = {}
           \/ \E q \in Inquiries : Sign(q)
           \/ \E q \in Inquiries : ReleaseAndAnswer(q)
<1> USE SigningAssumption DEF SigningInv, Aside
<1>1. CASE NextInstant
  BY <1>1 DEF NextInstant
<1>2. CASE SignerCrash
  BY <1>2 DEF SignerCrash
<1>3. CASE Indexes \/ \E tx \in Drafts \cup Elsewhere : Includes(tx)
  <2>1. UNCHANGED <<clock, stage, signLock, cosigned>>
    BY <1>3 DEF Indexes, Includes, IndexCollection, Broadcast, BroadcastElsewhere
  <2> QED
    BY <2>1
<1>4. ASSUME NEW q \in Inquiries, ReplayAnswer(q)
      PROVE  Aside
  BY <1>4 DEF ReplayAnswer, Answer
<1>5. ASSUME NEW q \in Inquiries, Receive(q)
      PROVE  Aside
  BY <1>5 DEF Receive
<1>6. ASSUME NEW q \in Inquiries, TurnAwayClient(q)
      PROVE  Aside
  BY <1>6 DEF TurnAwayClient, Answer
<1>7. ASSUME NEW q \in Inquiries, ValidateRequest(q)
      PROVE  Aside
  <2>1. /\ stage[q] = "received" /\ UNCHANGED <<clock, signLock, cosigned>>
        /\ \/ stage' = [stage EXCEPT ![q] = "answered"]
           \/ stage' = [stage EXCEPT ![q] = "validated"] /\ q.tx.expires - clock <= MaxLife
    BY <1>7 DEF ValidateRequest, TimelyExpiry, Answer
  <2> QED
    BY <2>1
<1>8. ASSUME NEW q \in Inquiries, NEW code, ValidationFails(q, code)
      PROVE  Aside
  BY <1>8 DEF ValidationFails, Answer
<1>9. ASSUME NEW q \in Inquiries, LockCreator(q), HeldAt(q.tx.creator) # {}
      PROVE  Aside
  BY <1>9 DEF LockCreator, Answer
<1>10. ASSUME NEW q \in Inquiries, CheckRoom(q)
      PROVE  Aside
  BY <1>10 DEF CheckRoom
<1>11. ASSUME NEW q \in Inquiries, SigningFails(q)
      PROVE  Aside
  BY <1>11 DEF SigningFails
<1>12. CASE UNCHANGED signingVars
  BY <1>12 DEF signingVars
<1> QED
  BY <1>1, <1>2, <1>3, <1>4, <1>5, <1>6, <1>7, <1>8, <1>9, <1>10, <1>11, <1>12, SigningMoves

LEMMA SigningInvInit == SigningInit => SigningInv
  BY DEF SigningInit, SigningInv

LEMMA SigningInvStep == SigningInv /\ [SigningNext]_signingVars => SigningInv'
<1> SUFFICES ASSUME SigningInv, [SigningNext]_signingVars
             PROVE  SigningInv'
  OBVIOUS
<1>1. CASE Aside
  BY <1>1, AsideKeeps
<1>2. ASSUME NEW q \in Inquiries, LockCreator(q), HeldAt(q.tx.creator) = {}
      PROVE  SigningInv'
  <2> DEFINE mine == [creator |-> q.tx.creator, holder |-> q, until |-> clock + SignLockTtl]
  <2>1. /\ stage[q] = "validated" /\ stage' = [stage EXCEPT ![q] = "locked"]
        /\ signLock' = {l \in signLock : l.creator # q.tx.creator} \cup {mine}
        /\ UNCHANGED <<clock, cosigned>>
    BY <1>2 DEF LockCreator
  <2>2. mine.creator = q.tx.creator /\ mine.holder = q /\ mine.until = clock + SignLockTtl
    OBVIOUS
  <2> HIDE DEF mine
  <2>3. q.tx.expires \in Int /\ q.tx.expires <= mine.until /\ mine.until \in Int
    BY <2>1, <2>2, SigningAssumption DEF SigningInv
  <2>4. ASSUME NEW p \in Inquiries, p # q, HasLock(p), Live(p.tx)
        PROVE  HasLock(p)'
    <3>1. PICK l \in signLock : l.holder = p /\ l.until >= p.tx.expires
      BY <2>4 DEF HasLock
    <3>2. l.until >= clock
      BY <2>4, <3>1, SigningAssumption DEF Live, SigningInv
    <3>3. l.creator # q.tx.creator
      BY <1>2, <3>2 DEF HeldAt
    <3> QED
      BY <2>1, <3>1, <3>3 DEF HasLock
  <2>5. HasLock(q)'
    BY <2>1, <2>2, <2>3 DEF HasLock
  <2>6. \A p \in Inquiries : Live(p.tx)' => Live(p.tx)
    BY <2>1 DEF Live
  <2>7. /\ \A l, m \in signLock' : l.creator = m.creator => l = m
        /\ \A l \in signLock' : l.until \in Int /\ l.creator = l.holder.tx.creator
    BY <2>1, <2>2, <2>3 DEF SigningInv
  <2>8. /\ DOMAIN stage' = Inquiries /\ q \notin cosigned
        /\ \A p \in Inquiries : p # q => stage'[p] = stage[p]
        /\ stage'[q] = "locked"
    BY <2>1 DEF SigningInv
  <2>9. \A p \in Inquiries :
          (p \in cosigned' \/ stage'[p] \in {"locked", "allowed"}) /\ Live(p.tx)' => HasLock(p)'
    BY <2>1, <2>4, <2>5, <2>6, <2>8 DEF SigningInv
  <2> QED
    BY <2>1, <2>7, <2>8, <2>9 DEF SigningInv
<1>3. ASSUME NEW q \in Inquiries, Sign(q)
      PROVE  SigningInv'
  <2>1. /\ stage[q] = "allowed" /\ stage' = [stage EXCEPT ![q] = "answered"]
        /\ cosigned' = cosigned \cup {q} /\ UNCHANGED <<clock, signLock>>
    BY <1>3 DEF Sign, Answer, LeftToExpire
  <2>2. \A p : (HasLock(p)' <=> HasLock(p)) /\ (Live(p.tx)' <=> Live(p.tx))
    BY <2>1 DEF HasLock, Live
  <2> QED
    BY <2>1, <2>2 DEF SigningInv
<1>4. ASSUME NEW q \in Inquiries, ReleaseAndAnswer(q)
      PROVE  SigningInv'
  <2>1. /\ stage[q] = "failing" /\ stage' = [stage EXCEPT ![q] = "answered"]
        /\ signLock' = {l \in signLock : l.holder # q} /\ UNCHANGED <<clock, cosigned>>
    BY <1>4 DEF ReleaseAndAnswer, Answer
  <2>2. \A p \in Inquiries : Live(p.tx)' <=> Live(p.tx)
    BY <2>1 DEF Live
  <2>3. \A p \in Inquiries : p # q /\ HasLock(p) => HasLock(p)'
    BY <2>1 DEF HasLock
  <2>4. q \notin cosigned
    BY <2>1 DEF SigningInv
  <2> QED
    BY <2>1, <2>2, <2>3, <2>4 DEF SigningInv
<1> QED
  BY <1>1, <1>2, <1>3, <1>4, SigningStepKinds

LEMMA SigningCorrect == SigningSpec => []SigningInv
  BY SigningInvInit, SigningInvStep, PTL DEF SigningSpec

\* However requests are retried, interleaved, cut short or answered from the
\* cache, a creator never has two different signed transactions that can both
\* still be broadcast (processCollectionRequest keeps the lock after signing).
THEOREM SignedOneAtATime == SigningSpec => []OneLiveSignature
<1>1. SigningInv => OneLiveSignature
  <2> SUFFICES ASSUME SigningInv, NEW p \in cosigned, NEW q \in cosigned,
                      p.tx.creator = q.tx.creator, Live(p.tx), Live(q.tx)
               PROVE  p.tx = q.tx
    BY DEF OneLiveSignature, SignedDrafts
  <2>1. PICK l \in signLock : l.holder = p
    BY DEF SigningInv, HasLock
  <2>2. PICK m \in signLock : m.holder = q
    BY DEF SigningInv, HasLock
  <2>3. l = m
    BY <2>1, <2>2 DEF SigningInv
  <2> QED
    BY <2>1, <2>2, <2>3
<1> QED
  BY <1>1, SigningCorrect, PTL

-----------------------------------------------------------------------------
(* Replies.  Whoever is answered OK has a signed transaction, whether the   *)
(* node signed it for this request or remembered it from another.           *)

Codes == {"none", "OK", "LOST", "NOT_NOW", "INVALID", "IDEMPOTENCY_MISMATCH", "COLLECTION_LOCKED",
          "INTERNAL_ERROR"} \cup Unavailable
CodeOf(e) == e.code = "OK" => e.tx \in SignedDrafts
Sound == {e \in [key : {q.key : q \in Inquiries}, tx : Drafts, code : Codes, until : Int] :
              CodeOf(e)}

RepliesSigned ==
    /\ cache \in Seq(Sound)
    /\ reply \in [Inquiries -> Codes]
    /\ \A q \in Inquiries : reply[q] = "OK" => q.tx \in SignedDrafts

LEMMA MinOf ==
    ASSUME NEW S \in SUBSET Nat, S # {}
    PROVE  Min(S) \in S /\ \A y \in S : Min(S) <= y
<1> DEFINE Less == {p \in Nat \X Nat : p[1] < p[2]}
<1>1. IsWellFoundedOn(Less, Nat)
  BY NatLessThanWellFounded, Zenon DEF OpToRel
<1>2. PICK x \in S : \A y \in S : ~(<<y, x>> \in Less)
  <2> HIDE DEF Less
  <2> QED
    BY <1>1, WFMin
<1>3. ASSUME NEW y \in S
      PROVE  x <= y
  <2>1. y < x => <<y, x>> \in Less
    OBVIOUS
  <2>2. ~(y < x)
    BY <1>2, <2>1
  <2> QED
    BY <2>2
<1> QED
  BY <1>3 DEF Min

LEMMA EvictedKeeps ==
    ASSUME NEW S, NEW entries \in Seq(S), NEW now
    PROVE  Evicted(entries, now) \in Seq(S)
<1> DEFINE alive == {i \in DOMAIN entries : entries[i].until > now}
<1>1. CASE alive = {}
  BY <1>1 DEF Evicted
<1>2. CASE alive # {}
  <2>1. Min(alive) \in DOMAIN entries
    BY <1>2, MinOf
  <2>2. \A i \in Min(alive)..Len(entries) : entries[i] \in S
    BY <2>1
  <2>3. SubSeq(entries, Min(alive), Len(entries)) \in Seq(S)
    BY <2>1, <2>2, SubSeqProperties
  <2> QED
    BY <1>2, <2>3 DEF Evicted
<1> QED
  BY <1>1, <1>2

LEMMA StoredKeeps ==
    ASSUME NEW S, NEW entries \in Seq(S), NEW entry \in S
    PROVE  Stored(entries, entry) \in Seq(S)
<1> DEFINE places == {i \in DOMAIN entries : entries[i].key = entry.key}
           next == IF places = {} THEN Append(entries, entry)
                   ELSE [entries EXCEPT ![Min(places)] = entry]
<1>1. next \in Seq(S)
  <2>1. CASE places = {}
    BY <2>1, AppendProperties
  <2>2. CASE places # {}
    <3>1. Min(places) \in 1..Len(entries)
      <4>1. places \in SUBSET Nat /\ places \subseteq 1..Len(entries)
        OBVIOUS
      <4> QED
        BY <2>2, <4>1, MinOf
    <3> QED
      BY <2>2, <3>1, ExceptSeq
  <2> QED
    BY <2>1, <2>2
<1>2. Len(next) > CacheSize => Tail(next) \in Seq(S)
  <2> HIDE DEF next
  <2>1. Len(next) > CacheSize => next # <<>>
    <3>1. CacheSize \in Nat \ {0}
      BY SigningAssumption
    <3>2. Len(<<>>) = 0
      OBVIOUS
    <3> QED
      BY <3>1, <3>2
  <2> QED
    BY <1>1, <2>1, HeadTailProperties
<1> QED
  BY <1>1, <1>2 DEF Stored

LEMMA RepliesInit == SigningInit => RepliesSigned
<1> SUFFICES ASSUME SigningInit PROVE RepliesSigned
  OBVIOUS
<1>1. cache \in Seq(Sound)
  BY EmptySeq DEF SigningInit
<1>2. reply = [q \in Inquiries |-> "none"]
  BY DEF SigningInit
<1> QED
  BY <1>1, <1>2 DEF RepliesSigned, Codes

\* Signatures are never taken back.
LEMMA SoundGrows ==
    ASSUME cosigned \subseteq cosigned', NEW entries \in Seq(Sound)
    PROVE  /\ SignedDrafts \subseteq SignedDrafts'
           /\ entries \in Seq(Sound')
<1>1. SignedDrafts \subseteq SignedDrafts'
  BY DEF SignedDrafts
<1>2. Sound \subseteq Sound'
  BY <1>1 DEF Sound, CodeOf
<1> HIDE DEF Sound
<1>3. entries \in Seq(Sound')
  BY <1>2
<1> QED
  BY <1>1, <1>3

\* An answer is remembered; OK only for a transaction that was signed.
LEMMA RememberingKeeps ==
    ASSUME SigningInv, RepliesSigned, cosigned \subseteq cosigned',
           NEW q \in Inquiries, NEW code \in Codes, Remembering(q, code),
           code = "OK" => q.tx \in SignedDrafts'
    PROVE  cache' \in Seq(Sound')
<1>1. cache \in Seq(Sound')
  BY SoundGrows DEF RepliesSigned
<1> DEFINE entry == [key |-> q.key, tx |-> q.tx, code |-> code, until |-> clock + CacheTtl]
<1>2. entry \in Sound'
  BY SigningAssumption DEF SigningInv, Sound, CodeOf, Drafts
<1>3. Stored(cache, entry) \in Seq(Sound')
  <2> HIDE DEF entry
  <2> QED
    BY <1>1, <1>2, StoredKeeps
<1> QED
  BY <1>1, <1>3 DEF Remembering

LEMMA AnswerKeeps ==
    ASSUME RepliesSigned, cosigned \subseteq cosigned', NEW q \in Inquiries, NEW code \in Codes,
           reply' = [reply EXCEPT ![q] = code], code = "OK" => q.tx \in SignedDrafts'
    PROVE  /\ reply' \in [Inquiries -> Codes]
           /\ \A p \in Inquiries : reply'[p] = "OK" => p.tx \in SignedDrafts'
<1>1. SignedDrafts \subseteq SignedDrafts'
  BY DEF SignedDrafts
<1> QED
  BY <1>1 DEF RepliesSigned

LEMMA ReadingKeeps ==
    ASSUME RepliesSigned, NEW q \in Inquiries
    PROVE  Reading(q) \in Seq(Sound)
  BY EvictedKeeps DEF Reading, RepliesSigned

\* A request goes on without an answer, or gets one that may be remembered.
AnswersWith(q, code) ==
    \/ UNCHANGED cache /\ UNCHANGED reply
    \/ (UNCHANGED cache \/ Remembering(q, code)) /\ reply' = [reply EXCEPT ![q] = code]

\* One request, whatever it does, unless it signs.
LEMMA RequestKeepsReplies ==
    ASSUME SigningInv, RepliesSigned, UNCHANGED cosigned,
           NEW q \in Inquiries,
           NEW code \in Codes \ {"OK"},
           AnswersWith(q, code)
    PROVE  RepliesSigned'
<1>1. cache \in Seq(Sound')
  BY SoundGrows DEF RepliesSigned
<1> USE DEF AnswersWith
<1>2. CASE UNCHANGED cache /\ UNCHANGED reply
  BY <1>1, <1>2 DEF RepliesSigned, SignedDrafts
<1>3. CASE (UNCHANGED cache \/ Remembering(q, code)) /\ reply' = [reply EXCEPT ![q] = code]
  BY <1>1, <1>3, RememberingKeeps, AnswerKeeps DEF RepliesSigned
<1> QED
  BY <1>2, <1>3

LEMMA RequestsAnswer ==
    ASSUME NEW q \in Inquiries,
           \/ TurnAwayClient(q) \/ ValidateRequest(q) \/ LockCreator(q)
           \/ CheckRoom(q) \/ SigningFails(q)
           \/ \E code \in Unavailable \cup {"INTERNAL_ERROR"} : ValidationFails(q, code)
    PROVE  \E code \in Codes \ {"OK"} : AnswersWith(q, code)
<1>0. \A code \in Unavailable \cup {"INTERNAL_ERROR", "NOT_NOW", "INVALID", "COLLECTION_LOCKED"} :
        code \in Codes \ {"OK"}
  BY DEF Codes, Unavailable
<1>1. CASE TurnAwayClient(q)
  <2>1. AnswersWith(q, "NOT_NOW")
    BY <1>1 DEF TurnAwayClient, Answer, AnswersWith
  <2> QED
    BY <2>1, <1>0
<1>2. CASE ValidateRequest(q)
  <2>1. AnswersWith(q, "INVALID")
    BY <1>2 DEF ValidateRequest, Answer, AnswersWith
  <2> QED
    BY <2>1, <1>0
<1>3. CASE LockCreator(q)
  <2>1. AnswersWith(q, "COLLECTION_LOCKED")
    BY <1>3 DEF LockCreator, Answer, AnswersWith
  <2> QED
    BY <2>1, <1>0
<1>4. CASE CheckRoom(q)
  <2>1. AnswersWith(q, "INVALID")
    BY <1>4 DEF CheckRoom, AnswersWith
  <2> QED
    BY <2>1, <1>0
<1>5. CASE SigningFails(q)
  <2>1. AnswersWith(q, "INTERNAL_ERROR")
    BY <1>5 DEF SigningFails, AnswersWith
  <2> QED
    BY <2>1, <1>0
<1>6. ASSUME NEW code \in Unavailable \cup {"INTERNAL_ERROR"}, ValidationFails(q, code)
      PROVE  \E c \in Codes \ {"OK"} : AnswersWith(q, c)
  <2>1. AnswersWith(q, code)
    BY <1>6 DEF ValidationFails, Answer, AnswersWith
  <2> QED
    BY <2>1, <1>0
<1> QED
  BY <1>1, <1>2, <1>3, <1>4, <1>5, <1>6

LEMMA RepliesStep ==
    ASSUME SigningInv, RepliesSigned, [SigningNext]_signingVars
    PROVE  RepliesSigned'
<1>1. CASE UNCHANGED <<cache, reply, cosigned>>
  <2>1. cache \in Seq(Sound')
    BY <1>1, SoundGrows DEF RepliesSigned
  <2> QED
    BY <1>1, <2>1 DEF RepliesSigned, SignedDrafts
<1>2. CASE SignerCrash
  <2>1. cache' \in Seq(Sound')
    BY <1>2, EmptySeq DEF SignerCrash
  <2>2. UNCHANGED cosigned /\ \A q \in Inquiries : reply'[q] \in {reply[q], "LOST"}
    BY <1>2 DEF SignerCrash
  <2>3. reply' \in [Inquiries -> Codes]
    BY <1>2 DEF SignerCrash, RepliesSigned, Codes
  <2> QED
    BY <2>1, <2>2, <2>3 DEF RepliesSigned, SignedDrafts
<1>3. ASSUME NEW q \in Inquiries, ReplayAnswer(q)
      PROVE  RepliesSigned'
  <2> DEFINE e == cache'[Min(Found(q, cache'))]
  <2>1. cache' \in Seq(Sound) /\ UNCHANGED cosigned /\ Found(q, cache') # {}
    BY <1>3, ReadingKeeps DEF ReplayAnswer
  <2>2. Min(Found(q, cache')) \in DOMAIN cache'
    <3>1. Found(q, cache') \in SUBSET Nat /\ Found(q, cache') \subseteq DOMAIN cache'
      BY <2>1 DEF Found
    <3> QED
      BY <2>1, <3>1, MinOf
  <2>3. e \in Sound
    BY <2>1, <2>2
  <2>4. reply' = [reply EXCEPT ![q] = IF e.tx = q.tx THEN e.code ELSE "IDEMPOTENCY_MISMATCH"]
    BY <1>3 DEF ReplayAnswer, Answer
  <2> HIDE DEF e
  <2>5. /\ (IF e.tx = q.tx THEN e.code ELSE "IDEMPOTENCY_MISMATCH") \in Codes
        /\ (IF e.tx = q.tx THEN e.code ELSE "IDEMPOTENCY_MISMATCH") = "OK" => q.tx \in SignedDrafts'
    BY <2>1, <2>3 DEF Sound, CodeOf, SignedDrafts, Codes
  <2>6. /\ reply' \in [Inquiries -> Codes]
        /\ \A p \in Inquiries : reply'[p] = "OK" => p.tx \in SignedDrafts'
    BY <2>1, <2>4, <2>5, AnswerKeeps
  <2>7. cache' \in Seq(Sound')
    BY <2>1 DEF Sound, CodeOf, SignedDrafts
  <2> QED
    BY <2>6, <2>7 DEF RepliesSigned
<1>4. ASSUME NEW q \in Inquiries, Receive(q)
      PROVE  RepliesSigned'
  <2>1. cache' \in Seq(Sound) /\ UNCHANGED <<cosigned, reply>>
    BY <1>4, ReadingKeeps DEF Receive
  <2>2. cache' \in Seq(Sound')
    BY <2>1 DEF Sound, CodeOf, SignedDrafts
  <2> QED
    BY <2>1, <2>2 DEF RepliesSigned, SignedDrafts
<1>5. ASSUME NEW q \in Inquiries, Sign(q)
      PROVE  RepliesSigned'
  <2>1. /\ cosigned \subseteq cosigned' /\ q \in cosigned' /\ Remembering(q, "OK")
        /\ reply' = [reply EXCEPT ![q] = "OK"]
    BY <1>5 DEF Sign, Answer
  <2>2. q.tx \in SignedDrafts'
    BY <2>1 DEF SignedDrafts
  <2> QED
    BY <2>1, <2>2, RememberingKeeps, AnswerKeeps DEF RepliesSigned, Codes
<1>6. ASSUME NEW q \in Inquiries, ReleaseAndAnswer(q)
      PROVE  RepliesSigned'
  <2>1. /\ UNCHANGED cosigned /\ Remembering(q, reply[q]) /\ reply' = [reply EXCEPT ![q] = reply[q]]
    BY <1>6 DEF ReleaseAndAnswer, Answer
  <2>2. reply[q] \in Codes /\ (reply[q] = "OK" => q.tx \in SignedDrafts')
    BY <2>1 DEF RepliesSigned, SignedDrafts
  <2> QED
    BY <2>1, <2>2, RememberingKeeps, AnswerKeeps DEF RepliesSigned
<1>7. ASSUME NEW q \in Inquiries,
             \/ TurnAwayClient(q) \/ ValidateRequest(q) \/ LockCreator(q)
             \/ CheckRoom(q) \/ SigningFails(q)
             \/ \E code \in Unavailable \cup {"INTERNAL_ERROR"} : ValidationFails(q, code)
      PROVE  RepliesSigned'
  <2>1. UNCHANGED cosigned
    BY <1>7 DEF TurnAwayClient, ValidateRequest, LockCreator, CheckRoom, SigningFails, ValidationFails
  <2>2. PICK code \in Codes \ {"OK"} : AnswersWith(q, code)
    BY <1>7, RequestsAnswer
  <2> QED
    BY <2>1, <2>2, RequestKeepsReplies DEF AnswersWith
<1>8. \/ NextInstant \/ Indexes \/ (\E tx \in Drafts \cup Elsewhere : Includes(tx))
      \/ UNCHANGED signingVars
      => UNCHANGED <<cache, reply, cosigned>>
  BY DEF NextInstant, Indexes, Includes, IndexCollection, Broadcast, BroadcastElsewhere, signingVars
<1> QED
  BY <1>1, <1>2, <1>3, <1>4, <1>5, <1>6, <1>7, <1>8, SigningMoves

-----------------------------------------------------------------------------
(* Fees.  The transactions of a creator are so far apart that the index has *)
(* judged all but the last of them when room is looked for anew.            *)

\* What is on the chain, and how much of it the index has seen.
ChainOrder ==
    /\ included \in Seq([tx : Drafts \cup Elsewhere, at : Nat])
    /\ judged \in 0..Len(included)
    /\ created \subseteq {included[i].tx : i \in 1..judged}
    /\ \A i \in 1..Len(included) :
        included[i].at <= clock /\ included[i].at < included[i].tx.expires
    /\ \A i \in 1..Len(included), j \in 1..Len(included) :
        i < j => included[i].at <= included[j].at /\ included[i].tx # included[j].tx
    /\ \A i \in (judged + 1)..Len(included) : clock - included[i].at <= IndexLag

\* The places of a creator, as long as it goes to no other node.
Of(c) == {i \in 1..Len(included) : included[i].tx.creator = c /\ OnlyHere(c, i)}
From(l) == l.until - SignLockTtl

\* At time t no transaction of c is newer, and all but its last are older by
\* more than the time a lock is held.
LeftFree(c, t) ==
    /\ \A i \in Of(c) : included[i].at < t
    /\ \A i, j \in Of(c) : i < j => included[i].at + SignLockTtl < t

\* What a lock's holder finds, apart from the transaction it signed itself.
BehindLock(l) ==
    /\ \A i \in Of(l.creator) :
        \/ included[i].at < From(l)
        \/ included[i].tx = l.holder.tx /\ stage[l.holder] = "answered"
    /\ \A i, j \in Of(l.creator) :
        i < j /\ included[j].at < From(l) => included[i].at + SignLockTtl < From(l)

Spaced ==
    /\ \A l \in signLock :
        /\ l.holder \in Inquiries /\ From(l) <= clock /\ l.holder.tx.expires <= l.until
        /\ BehindLock(l)
    /\ \A c : (\A l \in signLock : l.creator # c) => LeftFree(c, clock)
    /\ \A c : \A i, j, k \in Of(c) :
        i < j /\ j < k => included[i].at + SignLockTtl < included[k].at

\* There was room for it when it was checked: there still is, or the creator's
\* transaction before it took it.
Cleared(q) == q \in cosigned \/ stage[q] = "allowed"
Explained(tx, e) == Room(tx) \/ Outrun(tx, e)

RoomSeen ==
    /\ \A q \in Inquiries :
        Cleared(q) /\ Live(q.tx) /\ q.tx \notin OnChain /\ OnlyHere(q.tx.creator, Len(included))
            => Explained(q.tx, Len(included) + 1)
    /\ \A k \in (judged + 1)..Len(included) :
        OnlyHere(included[k].tx.creator, k) => Explained(included[k].tx, k)

chainTime == <<clock, included, created, judged, turnedAway>>

LEMMA ChainStepKinds ==
    ASSUME [SigningNext]_signingVars
    PROVE  \/ NextInstant
           \/ Indexes
           \/ \E tx \in Drafts \cup Elsewhere : Includes(tx)
           \/ UNCHANGED chainTime
<1> USE DEF chainSide, chainTime
<1>1. CASE SignerCrash
  BY <1>1 DEF SignerCrash
<1>2. ASSUME NEW q \in Inquiries,
             \/ ReplayAnswer(q) \/ Receive(q) \/ TurnAwayClient(q) \/ ValidateRequest(q)
             \/ LockCreator(q) \/ CheckRoom(q) \/ Sign(q) \/ SigningFails(q) \/ ReleaseAndAnswer(q)
      PROVE  UNCHANGED chainTime
  BY <1>2 DEF ReplayAnswer, Receive, TurnAwayClient, ValidateRequest, LockCreator, CheckRoom,
              Sign, SigningFails, ReleaseAndAnswer
<1>3. ASSUME NEW q \in Inquiries, NEW code, ValidationFails(q, code)
      PROVE  UNCHANGED chainTime
  BY <1>3 DEF ValidationFails
<1>4. CASE UNCHANGED signingVars
  BY <1>4 DEF signingVars
<1> QED
  BY <1>1, <1>2, <1>3, <1>4, SigningMoves

LEMMA InChain ==
    ASSUME ChainOrder
    PROVE  /\ Len(included) \in Nat /\ judged \in Nat /\ judged <= Len(included)
           /\ \A i \in 1..Len(included) : included[i].at \in Nat /\ included[i].tx \in Drafts \cup Elsewhere
<1>1. included \in Seq([tx : Drafts \cup Elsewhere, at : Nat])
  BY DEF ChainOrder
<1>2. \A i \in 1..Len(included) : included[i] \in [tx : Drafts \cup Elsewhere, at : Nat]
  BY <1>1, ElementOfSeq
<1>3. Len(included) \in Nat
  BY <1>1, LenProperties
<1> QED
  BY <1>2, <1>3 DEF ChainOrder

\* What is included is alive and new to the chain.
LEMMA IncludedIs ==
    ASSUME SigningInv, ChainOrder, NEW tx \in Drafts \cup Elsewhere, Includes(tx)
    PROVE  /\ Live(tx) /\ tx \notin OnChain
           /\ included' \in Seq([tx : Drafts \cup Elsewhere, at : Nat])
           /\ Len(included') = Len(included) + 1
           /\ \A i \in 1..Len(included) : included'[i] = included[i] /\ included[i].tx # tx
           /\ included'[Len(included) + 1] = [tx |-> tx, at |-> clock]
           /\ UNCHANGED <<clock, stage, signLock, cosigned, created, judged, turnedAway>>
<1>1. /\ included' = Append(included, [tx |-> tx, at |-> clock])
      /\ UNCHANGED <<clock, stage, signLock, cosigned, created, judged, turnedAway>>
      /\ tx \notin OnChain /\ clock < tx.expires
  BY DEF Includes, Broadcast, BroadcastElsewhere
<1>2. \A i \in 1..Len(included) : included[i].tx # tx
  BY <1>1 DEF OnChain, ChainOrder
<1> DEFINE block == [tx |-> tx, at |-> clock]
<1>3. block \in [tx : Drafts \cup Elsewhere, at : Nat]
  BY DEF SigningInv
<1>4. included \in Seq([tx : Drafts \cup Elsewhere, at : Nat])
  BY DEF ChainOrder
<1>5. PICK S : S = [tx : Drafts \cup Elsewhere, at : Nat]
  OBVIOUS
<1> HIDE DEF block
<1>6. /\ Append(included, block) \in Seq(S)
      /\ Len(Append(included, block)) = Len(included) + 1
      /\ \A i \in 1..Len(included) : Append(included, block)[i] = included[i]
      /\ Append(included, block)[Len(included) + 1] = block
  BY <1>3, <1>4, <1>5, AppendProperties
<1> QED
  BY <1>1, <1>2, <1>5, <1>6 DEF Live, block

\* One of this node's was signed.
LEMMA BroadcastIsSigned ==
    ASSUME RepliesSigned, NEW tx \in Drafts, Includes(tx)
    PROVE  \E p \in cosigned : p.tx = tx
<1>1. \E p \in Inquiries : reply[p] = "OK" /\ p.tx = tx
  BY SigningAssumption DEF Includes, Broadcast
<1> QED
  BY <1>1 DEF RepliesSigned, SignedDrafts

\* It goes behind its creator's other places, if the creator goes to no other node.
LEMMA IncludedOf ==
    ASSUME SigningInv, ChainOrder, NEW tx \in Drafts \cup Elsewhere, Includes(tx)
    PROVE  /\ \A c : Of(c)' = Of(c) \/ (/\ c = tx.creator /\ tx \in Drafts
                                        /\ Of(c)' = Of(c) \cup {Len(included) + 1})
           /\ \A c, e : e \in 0..Len(included) => (OnlyHere(c, e)' <=> OnlyHere(c, e))
           /\ \A c : OnlyHere(c, Len(included))'
                        => OnlyHere(c, Len(included)) /\ (tx.creator = c => tx \in Drafts)
<1>1. PICK n : n = Len(included) + 1
  OBVIOUS
<1>2. /\ n \in Nat /\ Len(included) = n - 1 /\ Len(included') = n
      /\ \A i \in 1..(n - 1) : included'[i] = included[i]
      /\ included'[n].tx = tx
  <2>1. PICK m \in Nat : m = Len(included)
    BY InChain
  <2>2. n \in Nat /\ m = n - 1 /\ n = m + 1
    BY <1>1, <2>1
  <2>3. /\ Len(included') = m + 1 /\ \A i \in 1..m : included'[i] = included[i]
        /\ included'[m + 1] = [tx |-> tx, at |-> clock]
    BY <2>1, IncludedIs
  <2> QED
    BY <2>1, <2>2, <2>3
<1>3. ASSUME NEW c, NEW e \in 0..(n - 1)
      PROVE  OnlyHere(c, e)' <=> OnlyHere(c, e)
  <2>1. \A j \in 1..e : included'[j] = included[j]
    BY <1>2
  <2> QED
    BY <2>1 DEF OnlyHere
<1>4. ASSUME NEW c
      PROVE  OnlyHere(c, n)' <=> OnlyHere(c, n - 1) /\ (tx.creator = c => tx \in Drafts)
  <2>1. \A j : j \in 1..n <=> j \in 1..(n - 1) \/ j = n
    BY <1>2
  <2> QED
    BY <1>2, <2>1 DEF OnlyHere
<1>5. ASSUME NEW c
      PROVE  Of(c)' = Of(c) \/ (c = tx.creator /\ tx \in Drafts /\ Of(c)' = Of(c) \cup {n})
  <2>1. \A i : i \in 1..n <=> i \in 1..(n - 1) \/ i = n
    BY <1>2
  <2>2. Of(c)' = {i \in 1..n : included'[i].tx.creator = c /\ OnlyHere(c, i)'}
    BY <1>2 DEF Of
  <2>3. Of(c) = {i \in 1..(n - 1) : included[i].tx.creator = c /\ OnlyHere(c, i)}
    BY <1>2 DEF Of
  <2>4. \A i \in 1..(n - 1) : i \in Of(c)' <=> i \in Of(c)
    BY <1>2, <1>3, <2>1, <2>2, <2>3
  <2>5. n \in Of(c)' => c = tx.creator /\ tx \in Drafts
    BY <1>2, <1>4, <2>2
  <2>6. Of(c)' \subseteq 1..n /\ Of(c) \subseteq 1..(n - 1)
    BY <2>2, <2>3
  <2>7. CASE n \in Of(c)'
    BY <2>1, <2>4, <2>5, <2>6, <2>7
  <2>8. CASE n \notin Of(c)'
    BY <2>1, <2>4, <2>6, <2>8
  <2> QED
    BY <2>7, <2>8
<1> QED
  BY <1>1, <1>2, <1>3, <1>4, <1>5

LEMMA FeesInit == SigningInit => ChainOrder /\ Spaced /\ RoomSeen
<1> SUFFICES ASSUME SigningInit PROVE ChainOrder /\ Spaced /\ RoomSeen
  OBVIOUS
<1>1. /\ included = <<>> /\ Len(included) = 0 /\ judged = 0 /\ created = {}
      /\ clock = 0 /\ signLock = {} /\ cosigned = {}
      /\ \A q \in Inquiries : stage[q] = "unsent"
  BY DEF SigningInit
<1>2. included \in Seq([tx : Drafts \cup Elsewhere, at : Nat])
  BY <1>1, EmptySeq
<1>3. ChainOrder
  BY <1>1, <1>2 DEF ChainOrder
<1>4. \A c : Of(c) = {}
  BY <1>1 DEF Of
<1>5. Spaced
  BY <1>1, <1>4 DEF Spaced, LeftFree
<1>6. RoomSeen
  BY <1>1 DEF RoomSeen, Cleared
<1> QED
  BY <1>3, <1>5, <1>6

LEMMA ChainOrderStep ==
    ASSUME SigningInv, ChainOrder, [SigningNext]_signingVars
    PROVE  ChainOrder'
<1>0. /\ Len(included) \in Nat /\ judged \in Nat /\ judged <= Len(included)
      /\ \A i \in 1..Len(included) : included[i].at \in Nat
      /\ clock \in Nat /\ IndexLag \in Nat
  BY InChain, SigningAssumption DEF SigningInv
<1>00. /\ \A i \in 1..Len(included) :
            included[i].at <= clock /\ included[i].at < included[i].tx.expires
       /\ \A i \in 1..Len(included), j \in 1..Len(included) :
            i < j => included[i].at <= included[j].at /\ included[i].tx # included[j].tx
       /\ \A i \in (judged + 1)..Len(included) : clock - included[i].at <= IndexLag
       /\ created \subseteq {included[i].tx : i \in 1..judged}
  BY DEF ChainOrder
<1>1. CASE NextInstant
  <2>1. /\ clock' = clock + 1 /\ UNCHANGED <<included, created, judged>>
        /\ \A i \in (judged + 1)..Len(included) : clock - included[i].at < IndexLag
    BY <1>1 DEF NextInstant, chainSide
  <2>2. \A i \in (judged + 1)..Len(included) : i \in 1..Len(included)
    BY <1>0
  <2>3. \A i \in (judged + 1)..Len(included) : clock' - included[i].at <= IndexLag
    BY <1>0, <2>1, <2>2
  <2>4. \A i \in 1..Len(included) : included[i].at <= clock'
    BY <1>0, <1>00, <2>1
  <2> QED
    BY <2>1, <2>3, <2>4 DEF ChainOrder
<1>2. CASE Indexes
  <2>1. /\ judged < Len(included) /\ judged' = judged + 1 /\ UNCHANGED <<clock, included>>
        /\ created' \subseteq created \cup {included[judged + 1].tx}
    BY <1>2 DEF Indexes, IndexCollection
  <2>2. created' \subseteq {included[i].tx : i \in 1..judged'}
    BY <1>0, <2>1 DEF ChainOrder
  <2>3. judged' \in 0..Len(included)
    BY <1>0, <2>1
  <2>4. \A i \in (judged' + 1)..Len(included) : i \in (judged + 1)..Len(included)
    BY <1>0, <2>1
  <2> QED
    BY <2>1, <2>2, <2>3, <2>4 DEF ChainOrder
<1>3. ASSUME NEW tx \in Drafts \cup Elsewhere, Includes(tx)
      PROVE  ChainOrder'
  <2> DEFINE n == Len(included) + 1
  <2>1. /\ Live(tx) /\ included' \in Seq([tx : Drafts \cup Elsewhere, at : Nat]) /\ Len(included') = n
        /\ \A i \in 1..Len(included) : included'[i] = included[i] /\ included[i].tx # tx
        /\ included'[n] = [tx |-> tx, at |-> clock]
        /\ UNCHANGED <<clock, created, judged>>
    BY <1>3, IncludedIs
  <2> HIDE DEF n
  <2>0. n = Len(included) + 1
    BY DEF n
  <2>00. included'[n].tx = tx /\ included'[n].at = clock /\ clock < tx.expires
    BY <2>1 DEF Live
  <2>2. \A i \in 1..Len(included') : i \in 1..Len(included) \/ i = n
    BY <1>0, <2>0, <2>1
  <2>3. \A i \in 1..Len(included') :
          included'[i].at <= clock' /\ included'[i].at < included'[i].tx.expires
    BY <1>0, <1>00, <2>1, <2>2, <2>00
  <2>4. \A i \in 1..Len(included'), j \in 1..Len(included') :
          i < j => included'[i].at <= included'[j].at /\ included'[i].tx # included'[j].tx
    <3>1. ASSUME NEW i \in 1..Len(included'), NEW j \in 1..Len(included'), i < j
          PROVE  included'[i].at <= included'[j].at /\ included'[i].tx # included'[j].tx
      <4>1. i \in 1..Len(included)
        BY <1>0, <2>0, <2>1, <3>1
      <4>2. CASE j = n
        BY <1>00, <2>00, <2>1, <4>1, <4>2
      <4>3. CASE j \in 1..Len(included)
        BY <1>00, <2>1, <3>1, <4>1, <4>3
      <4> QED
        BY <2>2, <4>2, <4>3
    <3> QED
      BY <3>1
  <2>5. created' \subseteq {included'[i].tx : i \in 1..judged'}
    BY <1>0, <1>00, <2>1
  <2>6. \A i \in (judged' + 1)..Len(included') : clock' - included'[i].at <= IndexLag
    <3>1. \A i \in (judged' + 1)..Len(included') : i \in (judged + 1)..Len(included) \/ i = n
      BY <1>0, <2>0, <2>1
    <3> QED
      BY <1>0, <1>00, <2>1, <2>00, <3>1
  <2>7. judged' \in 0..Len(included')
    BY <1>0, <2>0, <2>1
  <2> QED
    BY <2>1, <2>3, <2>4, <2>5, <2>6, <2>7 DEF ChainOrder
<1>4. CASE UNCHANGED chainTime
  BY <1>4 DEF ChainOrder, chainTime
<1> QED
  BY <1>1, <1>2, <1>3, <1>4, ChainStepKinds

\* While a lock is not given back, nothing moves but time.
LEMMA BehindLockKeeps ==
    ASSUME NEW l, BehindLock(l), UNCHANGED included,
           stage[l.holder] = "answered" => stage'[l.holder] = "answered"
    PROVE  BehindLock(l)'
<1>1. \A c : Of(c)' = Of(c)
  BY DEF Of, OnlyHere
<1>2. From(l)' = From(l)
  BY DEF From
<1> QED
  BY <1>1, <1>2 DEF BehindLock

\* Once a lock has expired, or its holder never signed, nothing is left of it.
LEMMA LockLeavesClear ==
    ASSUME SigningInv, ChainOrder, Spaced, NEW l \in signLock,
           l.until < clock \/ stage[l.holder] # "answered"
    PROVE  LeftFree(l.creator, clock)
<1> DEFINE c == l.creator
           f == From(l)
<1>0. /\ \A i \in Of(c) : i \in 1..Len(included) /\ i \in Nat /\ included[i].at \in Nat
      /\ clock \in Nat /\ SignLockTtl \in Nat /\ l.until \in Int
      /\ f = l.until - SignLockTtl /\ f <= clock /\ l.holder.tx.expires <= l.until
      /\ l.holder.tx.expires \in Int
  BY InChain, SigningAssumption DEF SigningInv, Spaced, Of, From
<1>1. /\ \A i \in Of(c) :
            \/ included[i].at < f
            \/ included[i].tx = l.holder.tx /\ stage[l.holder] = "answered"
      /\ \A i, j \in Of(c) : i < j /\ included[j].at < f => included[i].at + SignLockTtl < f
  <2>1. BehindLock(l)
    BY DEF Spaced
  <2> QED
    BY <2>1 DEF BehindLock
<1> HIDE DEF c, f
<1>2. \A i \in Of(c) : included[i].at < included[i].tx.expires
  BY <1>0 DEF ChainOrder
<1>3. \A i, j \in Of(c) :
        i < j => included[i].at <= included[j].at /\ included[i].tx # included[j].tx
  BY <1>0 DEF ChainOrder
<1>4. ASSUME NEW i \in Of(c)
      PROVE  included[i].at < clock
  <2>1. CASE included[i].at < f
    BY <1>0, <2>1
  <2>2. CASE included[i].tx = l.holder.tx /\ stage[l.holder] = "answered"
    BY <1>0, <1>2, <2>2
  <2> QED
    BY <1>1, <2>1, <2>2
<1>5. ASSUME NEW i \in Of(c), NEW j \in Of(c), i < j
      PROVE  included[i].at + SignLockTtl < clock
  <2>1. CASE included[j].at < f
    BY <1>0, <1>1, <1>5, <2>1
  <2>2. CASE ~(included[j].at < f)
    <3>1. included[j].tx = l.holder.tx /\ stage[l.holder] = "answered"
      BY <1>1, <2>2
    <3>2. included[i].at < f
      BY <1>1, <1>3, <1>5, <3>1
    <3> QED
      BY <1>0, <3>1, <3>2
  <2> QED
    BY <2>1, <2>2
<1> QED
  BY <1>4, <1>5 DEF LeftFree, c

LEMMA SpacedWithoutBroadcast ==
    ASSUME SigningInv, ChainOrder, Spaced, UNCHANGED included,
           [SigningNext]_signingVars
    PROVE  Spaced'
<1>0. /\ \A c : Of(c)' = Of(c)
      /\ \A l : From(l)' = From(l)
      /\ clock \in Nat /\ SignLockTtl \in Nat
      /\ \A c : \A i \in Of(c) : included[i].at \in Nat
  BY InChain, SigningAssumption DEF Of, OnlyHere, From, SigningInv
<1>1. \A c : \A i, j, k \in Of(c)' :
        i < j /\ j < k => included'[i].at + SignLockTtl < included'[k].at
  BY <1>0 DEF Spaced
<1>2. CASE Aside
  <2>1. /\ UNCHANGED signLock /\ clock' \in Nat /\ clock <= clock'
        /\ \A q \in Inquiries : stage[q] = "answered" => stage'[q] = "answered"
    BY <1>2 DEF Aside
  <2>2. ASSUME NEW l \in signLock
        PROVE  /\ l.holder \in Inquiries /\ From(l)' <= clock' /\ l.holder.tx.expires <= l.until
               /\ BehindLock(l)'
    <3>1. /\ l.holder \in Inquiries /\ From(l) <= clock /\ l.holder.tx.expires <= l.until
          /\ BehindLock(l) /\ l.until \in Int
      BY DEF Spaced, SigningInv
    <3>2. BehindLock(l)'
      BY <2>1, <3>1, BehindLockKeeps
    <3>3. From(l) \in Int
      BY <1>0, <3>1 DEF From
    <3> QED
      BY <1>0, <2>1, <3>1, <3>2, <3>3
  <2>3. ASSUME NEW c, \A l \in signLock : l.creator # c
        PROVE  LeftFree(c, clock)'
    <3>1. LeftFree(c, clock)
      BY <2>3 DEF Spaced
    <3> QED
      BY <1>0, <2>1, <3>1 DEF LeftFree
  <2> QED
    BY <1>1, <2>1, <2>2, <2>3 DEF Spaced
<1>3. ASSUME NEW q \in Inquiries, LockCreator(q), HeldAt(q.tx.creator) = {}
      PROVE  Spaced'
  <2>1. PICK mine :
          /\ stage[q] = "validated" /\ stage' = [stage EXCEPT ![q] = "locked"]
          /\ signLock' = {l \in signLock : l.creator # q.tx.creator} \cup {mine}
          /\ UNCHANGED <<clock, cosigned>>
          /\ mine = [creator |-> q.tx.creator, holder |-> q, until |-> clock + SignLockTtl]
    BY <1>3 DEF LockCreator
  <2>2. mine.creator = q.tx.creator /\ mine.holder = q /\ mine.until = clock + SignLockTtl
    BY <2>1
  <2>3. LeftFree(q.tx.creator, clock)
    <3>1. CASE \A l \in signLock : l.creator # q.tx.creator
      BY <3>1 DEF Spaced
    <3>2. ASSUME NEW l \in signLock, l.creator = q.tx.creator
          PROVE  LeftFree(q.tx.creator, clock)
      <4>1. l.until < clock
        BY <1>0, <1>3, <3>2 DEF HeldAt, SigningInv
      <4> QED
        BY <3>2, <4>1, LockLeavesClear
    <3> QED
      BY <3>1, <3>2
  <2>4. From(mine)' = clock
    BY <1>0, <2>2 DEF From
  <2>5. BehindLock(mine)'
    <3>1. \A i \in Of(q.tx.creator) : included[i].at < clock
      BY <2>3 DEF LeftFree
    <3>2. \A i, j \in Of(q.tx.creator) : i < j => included[i].at + SignLockTtl < clock
      BY <2>3 DEF LeftFree
    <3> QED
      BY <1>0, <2>2, <2>4, <3>1, <3>2 DEF BehindLock
  <2>6. q.tx.expires <= mine.until
    BY <2>1, <2>2, SigningAssumption DEF SigningInv
  <2>7. ASSUME NEW l \in signLock, l.creator # q.tx.creator
        PROVE  /\ l.holder \in Inquiries /\ From(l)' <= clock' /\ l.holder.tx.expires <= l.until
               /\ BehindLock(l)'
    <3>1. /\ l.holder \in Inquiries /\ From(l) <= clock /\ l.holder.tx.expires <= l.until
          /\ BehindLock(l) /\ l.creator = l.holder.tx.creator
      BY DEF Spaced, SigningInv
    <3>2. stage'[l.holder] = stage[l.holder]
      BY <2>1, <2>7, <3>1 DEF SigningInv
    <3>3. BehindLock(l)'
      BY <3>1, <3>2, BehindLockKeeps
    <3> QED
      BY <1>0, <2>1, <3>1, <3>3
  <2>8. ASSUME NEW c, \A l \in signLock' : l.creator # c
        PROVE  LeftFree(c, clock)'
    <3>1. \A l \in signLock : l.creator # c
      BY <2>1, <2>2, <2>8
    <3>2. LeftFree(c, clock)
      BY <3>1 DEF Spaced
    <3> QED
      BY <1>0, <2>1, <3>2 DEF LeftFree
  <2>9. \A l \in signLock' :
          /\ l.holder \in Inquiries /\ From(l)' <= clock' /\ l.holder.tx.expires <= l.until
          /\ BehindLock(l)'
    BY <1>0, <2>1, <2>2, <2>4, <2>5, <2>6, <2>7
  <2> QED
    BY <1>1, <2>8, <2>9 DEF Spaced
<1>4. ASSUME NEW q \in Inquiries, Sign(q)
      PROVE  Spaced'
  <2>1. /\ stage[q] = "allowed" /\ stage' = [stage EXCEPT ![q] = "answered"]
        /\ UNCHANGED <<clock, signLock>>
    BY <1>4 DEF Sign, Answer, LeftToExpire
  <2>2. ASSUME NEW l \in signLock
        PROVE  /\ l.holder \in Inquiries /\ From(l)' <= clock' /\ l.holder.tx.expires <= l.until
               /\ BehindLock(l)'
    <3>1. /\ l.holder \in Inquiries /\ From(l) <= clock /\ l.holder.tx.expires <= l.until
          /\ BehindLock(l)
      BY DEF Spaced
    <3>2. stage[l.holder] = "answered" => stage'[l.holder] = "answered"
      BY <2>1, <3>1 DEF SigningInv
    <3>3. BehindLock(l)'
      BY <3>1, <3>2, BehindLockKeeps
    <3> QED
      BY <1>0, <2>1, <3>1, <3>3
  <2>3. ASSUME NEW c, \A l \in signLock : l.creator # c
        PROVE  LeftFree(c, clock)'
    <3>1. LeftFree(c, clock)
      BY <2>3 DEF Spaced
    <3> QED
      BY <1>0, <2>1, <3>1 DEF LeftFree
  <2> QED
    BY <1>1, <2>1, <2>2, <2>3 DEF Spaced
<1>5. ASSUME NEW q \in Inquiries, ReleaseAndAnswer(q)
      PROVE  Spaced'
  <2>1. /\ stage[q] = "failing" /\ stage' = [stage EXCEPT ![q] = "answered"]
        /\ signLock' = {l \in signLock : l.holder # q} /\ UNCHANGED clock
    BY <1>5 DEF ReleaseAndAnswer, Answer
  <2>2. ASSUME NEW l \in signLock'
        PROVE  /\ l.holder \in Inquiries /\ From(l)' <= clock' /\ l.holder.tx.expires <= l.until
               /\ BehindLock(l)'
    <3>1. /\ l.holder \in Inquiries /\ From(l) <= clock /\ l.holder.tx.expires <= l.until
          /\ BehindLock(l)
      BY <2>1 DEF Spaced
    <3>2. stage[l.holder] = "answered" => stage'[l.holder] = "answered"
      BY <2>1, <3>1 DEF SigningInv
    <3>3. BehindLock(l)'
      BY <3>1, <3>2, BehindLockKeeps
    <3> QED
      BY <1>0, <2>1, <3>1, <3>3
  <2>3. ASSUME NEW c, \A l \in signLock' : l.creator # c
        PROVE  LeftFree(c, clock)'
    <3>1. LeftFree(c, clock)
      <4>1. CASE \A l \in signLock : l.creator # c
        BY <4>1 DEF Spaced
      <4>2. ASSUME NEW l \in signLock, l.creator = c
            PROVE  LeftFree(c, clock)
        <5>1. l.holder = q
          BY <2>1, <2>3, <4>2
        <5> QED
          BY <2>1, <4>2, <5>1, LockLeavesClear
      <4> QED
        BY <4>1, <4>2
    <3> QED
      BY <1>0, <2>1, <3>1 DEF LeftFree
  <2> QED
    BY <1>1, <2>2, <2>3 DEF Spaced
<1> QED
  BY <1>2, <1>3, <1>4, <1>5, SigningStepKinds

\* A broadcast puts the holder's own transaction behind all others.
LEMMA SpacedBroadcast ==
    ASSUME SigningInv, RepliesSigned, ChainOrder, Spaced, NEW tx \in Drafts, Includes(tx),
           Of(tx.creator)' = Of(tx.creator) \cup {Len(included) + 1}
    PROVE  Spaced'
<1>1. /\ Live(tx)
      /\ Len(included') = Len(included) + 1
      /\ \A i \in 1..Len(included) : included'[i] = included[i] /\ included[i].tx # tx
      /\ included'[Len(included) + 1] = [tx |-> tx, at |-> clock]
      /\ UNCHANGED <<clock, stage, signLock, cosigned, created, judged>>
  BY IncludedIs
<1>2. PICK p \in cosigned : p.tx = tx
  BY BroadcastIsSigned
<1>3. PICK own \in signLock : own.holder = p
  BY <1>1, <1>2 DEF SigningInv, HasLock
<1>4. PICK n : n = Len(included) + 1
  OBVIOUS
<1>5. included'[n].tx = tx /\ included'[n].at = clock
  BY <1>1, <1>4
<1>6. /\ clock \in Nat /\ SignLockTtl \in Nat /\ n \in Nat
      /\ \A i \in 1..Len(included) : included[i].at \in Nat /\ i < n /\ i \in Nat
      /\ \A i \in 1..Len(included') : i \in 1..Len(included) \/ i = n
      /\ \A l \in signLock : From(l) \in Int /\ From(l)' = From(l) /\ From(l) <= clock
  <2>1. clock \in Nat /\ SignLockTtl \in Nat
    BY SigningAssumption DEF SigningInv
  <2>2. PICK m \in Nat : m = Len(included)
    BY InChain
  <2>3. n \in Nat /\ \A i \in 1..m : i < n /\ i \in Nat
    BY <1>4, <2>2
  <2>4. \A i \in 1..m : included[i].at \in Nat
    BY <2>2, InChain
  <2>5. \A i \in 1..Len(included') : i \in 1..m \/ i = n
    BY <1>1, <1>4, <2>2
  <2>6. \A l \in signLock : From(l) \in Int /\ From(l)' = From(l) /\ From(l) <= clock
    BY <1>1, SigningAssumption DEF SigningInv, Spaced, From
  <2> QED
    BY <2>1, <2>2, <2>3, <2>4, <2>5, <2>6
<1>7. /\ \A c : c # tx.creator => Of(c)' = Of(c)
      /\ Of(tx.creator)' = Of(tx.creator) \cup {n}
      /\ \A c : Of(c) \subseteq 1..Len(included)
  BY <1>4, IncludedOf DEF Of
<1>8. own.creator = tx.creator /\ stage[p] = "answered"
  BY <1>2, <1>3 DEF SigningInv
<1>9. \A l \in signLock : l.creator = tx.creator => l = own
  BY <1>3, <1>8 DEF SigningInv
\* Of the creator's other transactions.
<1>10. /\ \A i \in Of(tx.creator) : included[i].at < From(own)
       /\ \A i, j \in Of(tx.creator) : i < j => included[i].at + SignLockTtl < From(own)
  <2>1. BehindLock(own)
    BY DEF Spaced
  <2> QED
    BY <1>1, <1>2, <1>3, <1>7, <1>8, <2>1 DEF BehindLock
<1>11. ASSUME NEW l \in signLock
       PROVE  BehindLock(l)'
  <2>1. BehindLock(l)
    BY DEF Spaced
  <2>2. CASE l.creator # tx.creator
    <3>1. Of(l.creator)' = Of(l.creator) /\ From(l)' = From(l) /\ UNCHANGED stage
      BY <1>1, <1>6, <1>7, <2>2
    <3>2. \A i \in Of(l.creator) : included'[i] = included[i]
      BY <1>1, <1>7
    <3> QED
      BY <2>1, <3>1, <3>2 DEF BehindLock
  <2>3. CASE l = own
    <3>1. \A i \in Of(own.creator)' :
            \/ included'[i].at < From(own)'
            \/ included'[i].tx = own.holder.tx /\ stage'[own.holder] = "answered"
      BY <1>1, <1>2, <1>3, <1>5, <1>6, <1>7, <1>8, <1>10
    <3>2. ASSUME NEW i \in Of(own.creator)', NEW j \in Of(own.creator)',
                 i < j, included'[j].at < From(own)'
          PROVE  included'[i].at + SignLockTtl < From(own)'
      <4>1. j # n
        BY <1>5, <1>6, <3>2
      <4>2. i \in Of(tx.creator) /\ j \in Of(tx.creator)
        BY <1>6, <1>7, <1>8, <3>2, <4>1
      <4> QED
        BY <1>1, <1>6, <1>7, <1>10, <3>2, <4>2
    <3> QED
      BY <2>3, <3>1, <3>2 DEF BehindLock
  <2> QED
    BY <1>9, <2>2, <2>3
<1>12. ASSUME NEW c, \A l \in signLock : l.creator # c
       PROVE  LeftFree(c, clock)'
  <2>1. c # tx.creator
    BY <1>8, <1>12
  <2>2. LeftFree(c, clock)
    BY <1>12 DEF Spaced
  <2> QED
    BY <1>1, <1>7, <2>1, <2>2 DEF LeftFree
<1>13. ASSUME NEW c, NEW i \in Of(c)', NEW j \in Of(c)', NEW k \in Of(c)', i < j, j < k
       PROVE  included'[i].at + SignLockTtl < included'[k].at
  <2>1. i \in Of(c) /\ j \in Of(c)
    <3>1. \A m \in Of(c)' : m = n \/ m \in Of(c)
      BY <1>7
    <3>2. \A m \in Of(c)' : m \in Nat /\ m <= n
      <4>1. \A m \in Of(c) : m \in Nat /\ m < n
        BY <1>6, <1>7
      <4> QED
        BY <1>6, <3>1, <4>1
    <3> QED
      BY <1>13, <1>6, <3>1, <3>2
  <2>2. CASE k = n
    <3>1. c = tx.creator
      BY <1>6, <1>7, <2>2
    <3>2. included[i].at + SignLockTtl < From(own)
      BY <1>10, <1>13, <2>1, <3>1
    <3> QED
      BY <1>1, <1>5, <1>6, <1>7, <2>1, <2>2, <3>2
  <2>3. CASE k # n
    <3>1. k \in Of(c)
      BY <1>7, <2>3
    <3> QED
      BY <1>1, <1>7, <1>13, <2>1, <3>1 DEF Spaced
  <2> QED
    BY <2>2, <2>3
<1>14. \A l \in signLock : /\ l.holder \in Inquiries /\ From(l)' <= clock
                           /\ l.holder.tx.expires <= l.until
  BY <1>6 DEF Spaced
<1> QED
  BY <1>1, <1>11, <1>12, <1>13, <1>14 DEF Spaced

\* Any other leaves what the locks are about as it was.
LEMMA SpacedBeside ==
    ASSUME SigningInv, ChainOrder, Spaced, NEW tx \in Drafts \cup Elsewhere, Includes(tx),
           Of(tx.creator)' = Of(tx.creator)
    PROVE  Spaced'
<1>1. /\ \A i \in 1..Len(included) : included'[i] = included[i]
      /\ UNCHANGED <<clock, stage, signLock>>
  BY IncludedIs
<1>2. /\ \A c : Of(c)' = Of(c) /\ Of(c) \subseteq 1..Len(included)
      /\ \A l : From(l)' = From(l)
  BY IncludedOf DEF Of, From
<1>3. \A c : \A i \in Of(c) : included'[i] = included[i]
  BY <1>1, <1>2
<1>4. \A l : BehindLock(l)' <=> BehindLock(l)
  BY <1>1, <1>2, <1>3 DEF BehindLock
<1>5. \A c : LeftFree(c, clock)' <=> LeftFree(c, clock)
  BY <1>1, <1>2, <1>3 DEF LeftFree
<1>6. \A c : \A i, j, k \in Of(c)' :
        i < j /\ j < k => included'[i].at + SignLockTtl < included'[k].at
  BY <1>2, <1>3 DEF Spaced
<1> QED
  BY <1>1, <1>2, <1>4, <1>5, <1>6 DEF Spaced

LEMMA SpacedStep ==
    ASSUME SigningInv, RepliesSigned, ChainOrder, Spaced, [SigningNext]_signingVars
    PROVE  Spaced'
<1>1. NextInstant \/ Indexes \/ UNCHANGED chainTime => UNCHANGED included
  BY DEF NextInstant, Indexes, IndexCollection, chainSide, chainTime
<1>2. ASSUME NEW tx \in Drafts \cup Elsewhere, Includes(tx)
      PROVE  Spaced'
  <2>1. CASE Of(tx.creator)' = Of(tx.creator)
    BY <1>2, <2>1, SpacedBeside
  <2>2. CASE tx \in Drafts /\ Of(tx.creator)' = Of(tx.creator) \cup {Len(included) + 1}
    BY <1>2, <2>2, SpacedBroadcast
  <2> QED
    BY <1>2, <2>1, <2>2, IncludedOf
<1> QED
  BY <1>1, <1>2, ChainStepKinds, SpacedWithoutBroadcast

-----------------------------------------------------------------------------
(* The index judges a transaction: what was explained stays explained.      *)

LEMMA MadeGrows ==
    ASSUME ChainOrder, created \subseteq created', IsFiniteSet(created'), NEW c
    PROVE  ~(Cardinality(Made(c)) < CollectionCap) => ~(Cardinality(Made(c)') < CollectionCap)
<1>1. Made(c) \subseteq Made(c)' /\ Made(c)' \subseteq created' /\ Made(c) \subseteq created'
  BY DEF Made
<1>2. /\ IsFiniteSet(Made(c)) /\ IsFiniteSet(Made(c)')
      /\ Cardinality(Made(c)) <= Cardinality(Made(c)')
  BY <1>1, FS_Subset
<1>3. Cardinality(Made(c)) \in Nat /\ Cardinality(Made(c)') \in Nat
  BY <1>2, FS_CardinalityType
<1> QED
  BY <1>2, <1>3, SigningAssumption

LEMMA OutrunGrows ==
    ASSUME ChainOrder, created \subseteq created', IsFiniteSet(created'), UNCHANGED included,
           NEW tx, NEW e, Outrun(tx, e)
    PROVE  Outrun(tx, e)'
<1>1. PICK j \in 1..(e - 1) :
        /\ included[j].tx \in created /\ included[j].tx.creator = tx.creator
        /\ \A k \in (j + 1)..(e - 1) : included[k].tx.creator # tx.creator
        /\ \/ included[j].tx.symbol = tx.symbol
           \/ ~(Cardinality(Made(tx.creator)) < CollectionCap)
  BY DEF Outrun
<1>2. ~(Cardinality(Made(tx.creator)) < CollectionCap)
        => ~(Cardinality(Made(tx.creator)') < CollectionCap)
  BY MadeGrows
<1> QED
  BY <1>1, <1>2 DEF Outrun

\* created is finite: it has at most as many members as the index has judged.
LEMMA CreatedFinite ==
    ASSUME ChainOrder
    PROVE  IsFiniteSet(created)
<1>1. IsFiniteSet({included[i].tx : i \in 1..judged})
  <2>1. IsFiniteSet(1..judged)
    BY InChain, FS_Interval
  <2> DEFINE T == {included[i].tx : i \in 1..judged}
             f == [i \in 1..judged |-> included[i].tx]
  <2>2. f \in Surjection(1..judged, T)
    BY DEF Surjection
  <2> HIDE DEF T, f
  <2>3. IsFiniteSet(T)
    BY <2>1, <2>2, FS_Surjection
  <2> QED
    BY <2>3 DEF T
<1> QED
  BY <1>1, FS_Subset DEF ChainOrder

\* If the creator has nothing on the chain between place i, which is judged,
\* and place e, then only i can have taken the room that tx was promised.
LEMMA ExplainedKeeps ==
    ASSUME SigningInv, ChainOrder, ChainOrder', Indexes,
           NEW i, i = judged + 1,
           NEW e \in Nat, i < e, NEW tx, Explained(tx, e),
           tx.creator = included[i].tx.creator =>
                \A k \in (i + 1)..(e - 1) : included[k].tx.creator # tx.creator
    PROVE  Explained(tx, e)'
<1>1. /\ judged < Len(included) /\ UNCHANGED included /\ i \in 1..Len(included)
      /\ created' = created \/ (Room(included[i].tx) /\ created' = created \cup {included[i].tx})
  BY InChain DEF Indexes, IndexCollection
<1>2. created \subseteq created' /\ IsFiniteSet(created')
  <2>1. IsFiniteSet(created)
    BY CreatedFinite
  <2> QED
    BY <1>1, <2>1, FS_AddElement
<1>3. CASE Outrun(tx, e)
  BY <1>1, <1>2, <1>3, OutrunGrows DEF Explained
<1>4. CASE Room(tx) /\ Made(tx.creator)' = Made(tx.creator)
  BY <1>4 DEF Explained, Room
<1>5. CASE Room(tx) /\ Made(tx.creator)' # Made(tx.creator)
  <2>1. /\ created' = created \cup {included[i].tx} /\ included[i].tx.creator = tx.creator
        /\ Made(tx.creator)' = Made(tx.creator) \cup {included[i].tx}
    BY <1>1, <1>5 DEF Made
  <2>2. CASE ~(Cardinality(Made(tx.creator)') < CollectionCap)
    <3>1. i \in 1..(e - 1)
      BY <1>1, InChain
    <3> QED
      BY <1>1, <2>1, <2>2, <3>1 DEF Explained, Outrun
  <2>3. CASE Cardinality(Made(tx.creator)') < CollectionCap
    <3>1. CASE included[i].tx.symbol = tx.symbol
      <4>1. i \in 1..(e - 1)
        BY <1>1, InChain
      <4> QED
        BY <1>1, <2>1, <3>1, <4>1 DEF Explained, Outrun
    <3>2. CASE included[i].tx.symbol # tx.symbol
      <4>1. \A d \in Made(tx.creator)' : d.symbol # tx.symbol
        BY <1>5, <2>1, <3>2 DEF Room
      <4> QED
        BY <2>3, <4>1 DEF Explained, Room
    <3> QED
      BY <3>1, <3>2
  <2> QED
    BY <2>2, <2>3
<1> QED
  BY <1>3, <1>4, <1>5 DEF Explained

\* A lock's holder that is alive and not on the chain finds the index behind by
\* one transaction of its creator, at most.
LEMMA OnePending ==
    ASSUME SigningInv, ChainOrder, Spaced, NEW l \in signLock, l.holder.tx \notin OnChain,
           NEW i \in Of(l.creator), NEW k \in Of(l.creator), i < k
    PROVE  i <= judged
<1>1. /\ i \in 1..Len(included) /\ k \in 1..Len(included)
      /\ included[i].at \in Nat /\ included[k].at \in Nat /\ clock \in Nat
      /\ SignLockTtl \in Nat /\ IndexLag \in Nat /\ IndexLag <= SignLockTtl /\ judged \in Nat
      /\ From(l) \in Int /\ From(l) <= clock
  <2>1. i \in 1..Len(included) /\ k \in 1..Len(included)
    BY DEF Of
  <2>2. From(l) <= clock /\ l.until \in Int /\ clock \in Nat
    BY DEF Spaced, SigningInv
  <2>3. SignLockTtl \in Nat /\ IndexLag \in Nat /\ IndexLag <= SignLockTtl
    BY SigningAssumption
  <2> QED
    BY <2>1, <2>2, <2>3, InChain DEF From
<1>2. included[k].tx # l.holder.tx
  BY <1>1 DEF OnChain, ChainOrder
<1>3. BehindLock(l)
  BY DEF Spaced
<1>4. included[k].at < From(l)
  BY <1>2, <1>3 DEF BehindLock
<1>5. included[i].at + SignLockTtl < From(l)
  BY <1>3, <1>4 DEF BehindLock
<1>6. i > judged => clock - included[i].at <= IndexLag
  BY <1>1 DEF ChainOrder
<1> QED
  BY <1>1, <1>5, <1>6

\* A request is cleared when there is room, and only then.
LEMMA ClearedWithRoom ==
    ASSUME SigningInv, [SigningNext]_signingVars
    PROVE  \A q \in Inquiries : Cleared(q)' => Cleared(q) \/ (Room(q.tx) /\ Room(q.tx)')
<1>1. CASE UNCHANGED <<stage, cosigned>>
  BY <1>1 DEF Cleared
<1>2. CASE SignerCrash
  BY <1>2 DEF SignerCrash, Cleared
<1>3. ASSUME NEW q \in Inquiries,
             \/ ReplayAnswer(q) \/ Receive(q) \/ TurnAwayClient(q) \/ ValidateRequest(q)
             \/ LockCreator(q) \/ SigningFails(q) \/ ReleaseAndAnswer(q)
      PROVE  /\ UNCHANGED cosigned
             /\ \A p \in Inquiries : stage'[p] = "allowed" => stage[p] = "allowed"
  BY <1>3 DEF ReplayAnswer, Receive, TurnAwayClient, ValidateRequest, LockCreator,
              SigningFails, ReleaseAndAnswer, Answer, SigningInv
<1>4. ASSUME NEW q \in Inquiries, NEW code, ValidationFails(q, code)
      PROVE  /\ UNCHANGED cosigned
             /\ \A p \in Inquiries : stage'[p] = "allowed" => stage[p] = "allowed"
  BY <1>4 DEF ValidationFails, Answer, SigningInv
<1>5. ASSUME NEW q \in Inquiries, CheckRoom(q)
      PROVE  /\ UNCHANGED <<cosigned, created>>
             /\ \A p \in Inquiries : stage'[p] = "allowed" =>
                    stage[p] = "allowed" \/ (p = q /\ Room(q.tx))
  BY <1>5 DEF CheckRoom, SigningInv, chainSide
<1>6. ASSUME NEW q \in Inquiries, Sign(q)
      PROVE  \A p \in Inquiries : Cleared(p)' => Cleared(p)
  BY <1>6 DEF Sign, Answer, Cleared, SigningInv
<1>7. \/ NextInstant \/ Indexes \/ (\E tx \in Drafts \cup Elsewhere : Includes(tx))
      \/ UNCHANGED signingVars
      => UNCHANGED <<stage, cosigned>>
  BY DEF NextInstant, Indexes, Includes, IndexCollection, Broadcast, BroadcastElsewhere, signingVars
<1>8. UNCHANGED created => \A tx : Room(tx)' <=> Room(tx)
  BY DEF Room, Made
<1> QED
  BY <1>1, <1>2, <1>3, <1>4, <1>5, <1>6, <1>7, <1>8, SigningMoves DEF Cleared

LEMMA RoomSeenIndexed ==
    ASSUME SigningInv, ChainOrder, ChainOrder', Spaced, RoomSeen, Indexes
    PROVE  RoomSeen'
<1>1. PICK i : i = judged + 1
  OBVIOUS
<1>2. /\ i \in 1..Len(included) /\ Len(included) \in Nat /\ judged \in Nat /\ judged' = i
      /\ UNCHANGED <<clock, stage, cosigned, signLock, included>>
  BY <1>1, InChain DEF Indexes, IndexCollection
<1>3. ASSUME NEW q \in Inquiries, Cleared(q)', Live(q.tx)', (q.tx \notin OnChain)',
             OnlyHere(q.tx.creator, Len(included))'
      PROVE  Explained(q.tx, Len(included) + 1)'
  <2>0. PICK e : e = Len(included) + 1
    OBVIOUS
  <2>1. Cleared(q) /\ Live(q.tx) /\ q.tx \notin OnChain
    BY <1>2, <1>3 DEF Cleared, Live, OnChain
  <2>2. OnlyHere(q.tx.creator, Len(included)) /\ Explained(q.tx, e)
    BY <1>2, <1>3, <2>0, <2>1 DEF RoomSeen, OnlyHere
  <2>3. PICK l \in signLock : l.holder = q
    BY <2>1 DEF SigningInv, HasLock, Cleared
  <2>4. ASSUME q.tx.creator = included[i].tx.creator,
               NEW k \in (i + 1)..(e - 1)
        PROVE  included[k].tx.creator # q.tx.creator
    <3>1. k \in 1..Len(included) /\ i < k /\ l.creator = q.tx.creator
      BY <1>2, <2>0, <2>3 DEF SigningInv
    <3>2. included[k].tx.creator = q.tx.creator => i \in Of(l.creator) /\ k \in Of(l.creator)
      BY <1>2, <2>2, <2>4, <3>1 DEF Of, OnlyHere
    <3>3. included[k].tx.creator = q.tx.creator => i <= judged
      BY <2>1, <2>3, <3>1, <3>2, OnePending
    <3> QED
      BY <1>1, <1>2, <3>3
  <2>5. e \in Nat /\ i < e
    BY <1>2, <2>0
  <2>6. Explained(q.tx, e)'
    BY <1>1, <2>2, <2>4, <2>5, ExplainedKeeps
  <2>7. (Len(included) + 1)' = e
    BY <1>2, <2>0
  <2> QED
    BY <2>6, <2>7 DEF Explained, Outrun
<1>4. ASSUME NEW k \in (judged' + 1)..Len(included)
      PROVE  OnlyHere(included[k].tx.creator, k)' => Explained(included[k].tx, k)'
  <2> SUFFICES ASSUME OnlyHere(included[k].tx.creator, k)' PROVE Explained(included[k].tx, k)'
    OBVIOUS
  <2>0. PICK tx : tx = included[k].tx
    OBVIOUS
  <2>1. k \in (judged + 1)..Len(included) /\ i < k /\ k \in Nat /\ k \in 1..Len(included)
    BY <1>1, <1>2
  <2>2. OnlyHere(included[k].tx.creator, k) /\ Explained(tx, k)
    BY <1>2, <2>0, <2>1 DEF RoomSeen, OnlyHere
  <2>3. ASSUME included[k].tx.creator = included[i].tx.creator, NEW m \in (i + 1)..(k - 1)
        PROVE  included[m].tx.creator # included[k].tx.creator
    <3>1. m \in 1..Len(included) /\ i < m /\ m < k
      BY <1>2, <2>1
    <3>2. SUFFICES ASSUME included[m].tx.creator = included[k].tx.creator
                   PROVE  FALSE
      OBVIOUS
    <3>3. /\ i \in Of(included[k].tx.creator) /\ m \in Of(included[k].tx.creator)
          /\ k \in Of(included[k].tx.creator)
      BY <1>2, <2>1, <2>2, <2>3, <3>1, <3>2 DEF Of, OnlyHere
    <3>4. included[i].at + SignLockTtl < included[k].at
      BY <3>1, <3>3 DEF Spaced
    <3>5. /\ included[i].at \in Nat /\ included[k].at \in Nat /\ clock \in Nat
          /\ SignLockTtl \in Nat /\ IndexLag \in Nat /\ IndexLag <= SignLockTtl
      BY <1>2, <2>1, InChain, SigningAssumption DEF SigningInv
    <3>6. included[k].at <= clock /\ clock - included[i].at <= IndexLag
      BY <1>1, <1>2, <2>1 DEF ChainOrder
    <3>7. PICK x \in Nat : x = included[i].at
      BY <3>5
    <3>8. PICK y \in Nat : y = included[k].at
      BY <3>5
    <3>9. x + SignLockTtl < y /\ y <= clock /\ clock - x <= IndexLag
      BY <3>4, <3>6, <3>7, <3>8
    <3>10. /\ clock \in Nat /\ SignLockTtl \in Nat /\ IndexLag \in Nat
           /\ IndexLag <= SignLockTtl
      BY <3>5
    <3> QED
      BY <3>9, <3>10
  <2>4. Explained(tx, k)'
    BY <1>1, <2>0, <2>1, <2>2, <2>3, ExplainedKeeps
  <2>5. included'[k].tx = tx
    BY <1>2, <2>0
  <2> QED
    BY <2>4, <2>5 DEF Explained, Outrun, Room, Made
<1> QED
  BY <1>2, <1>3, <1>4 DEF RoomSeen

LEMMA RoomSeenBroadcast ==
    ASSUME SigningInv, RepliesSigned, ChainOrder, RoomSeen,
           NEW tx \in Drafts \cup Elsewhere, Includes(tx)
    PROVE  RoomSeen'
<1>1. /\ Live(tx) /\ tx \notin OnChain
      /\ Len(included') = Len(included) + 1
      /\ \A i \in 1..Len(included) : included'[i] = included[i]
      /\ included'[Len(included) + 1] = [tx |-> tx, at |-> clock]
      /\ UNCHANGED <<clock, stage, signLock, cosigned, created, judged>>
  BY IncludedIs
<1>2. tx \in Drafts => \E p \in cosigned : p.tx = tx
  BY BroadcastIsSigned
<1>3. PICK n : n = Len(included) + 1
  OBVIOUS
<1>4. included'[n].tx = tx /\ n \in Nat /\ Len(included) = n - 1 /\ judged \in Nat
  BY <1>1, <1>3, InChain
<1>5. /\ \A c : Made(c)' = Made(c)
      /\ \A t : Room(t)' <=> Room(t)
  BY <1>1 DEF Made, Room
\* What went before a place is as it was.
<1>6. ASSUME NEW t, NEW e \in 1..n, Explained(t, e)
      PROVE  Explained(t, e)'
  <2>1. \A j \in 1..(e - 1) : included'[j] = included[j]
    BY <1>1, <1>4
  <2>2. \A j \in 1..(e - 1) : \A k \in (j + 1)..(e - 1) : included'[k] = included[k]
    BY <1>4, <2>1
  <2>3. CASE Room(t)
    BY <1>5, <2>3 DEF Explained
  <2>4. CASE Outrun(t, e)
    <3>1. PICK j \in 1..(e - 1) :
            /\ included[j].tx \in created /\ included[j].tx.creator = t.creator
            /\ \A k \in (j + 1)..(e - 1) : included[k].tx.creator # t.creator
            /\ \/ included[j].tx.symbol = t.symbol
               \/ ~(Cardinality(Made(t.creator)) < CollectionCap)
      BY <2>4 DEF Outrun
    <3> QED
      BY <1>1, <1>5, <2>1, <2>2, <3>1 DEF Explained, Outrun
  <2> QED
    BY <1>6, <2>3, <2>4 DEF Explained
<1>7. ASSUME NEW q \in Inquiries, Cleared(q)', Live(q.tx)', (q.tx \notin OnChain)',
             OnlyHere(q.tx.creator, Len(included))'
      PROVE  Explained(q.tx, Len(included) + 1)'
  <2>1. Cleared(q) /\ Live(q.tx)
    BY <1>1, <1>7 DEF Cleared, Live
  <2>2. q.tx \notin OnChain /\ q.tx # tx
    <3>1. DOMAIN included = 1..Len(included) /\ DOMAIN included' = 1..(Len(included) + 1)
      <4>1. /\ included \in Seq([tx : Drafts \cup Elsewhere, at : Nat])
            /\ included' \in Seq([tx : Drafts \cup Elsewhere, at : Nat])
        BY IncludedIs DEF ChainOrder
      <4>2. DOMAIN included = 1..Len(included) /\ DOMAIN included' = 1..Len(included')
        BY <4>1, LenProperties
      <4> QED
        BY <1>1, <4>2
    <3>2. n \in DOMAIN included' /\ DOMAIN included \subseteq DOMAIN included'
      BY <1>3, <1>4, <3>1
    <3>3. \A i \in DOMAIN included : included'[i] = included[i]
      BY <1>1, <3>1
    <3> QED
      BY <1>4, <1>7, <3>2, <3>3 DEF OnChain
  <2>3. OnlyHere(q.tx.creator, Len(included)) /\ Explained(q.tx, n)
    BY <1>3, <1>7, <2>1, <2>2, IncludedOf DEF RoomSeen
  <2>4. q.tx.creator # tx.creator
    <3> SUFFICES ASSUME tx \in Drafts PROVE q.tx.creator # tx.creator
      BY <1>7, IncludedOf
    <3>0. PICK p \in cosigned : p.tx = tx
      BY <1>2
    <3>1. PICK l \in signLock : l.holder = q
      BY <2>1 DEF SigningInv, HasLock, Cleared
    <3>2. PICK m \in signLock : m.holder = p
      BY <1>1, <3>0 DEF SigningInv, HasLock
    <3> QED
      BY <3>0, <2>2, <3>1, <3>2 DEF SigningInv
  <2>5. n \in 1..n
    BY <1>4, InChain
  <2>6. Explained(q.tx, n)'
    BY <1>6, <2>3, <2>5
  <2>7. CASE Room(q.tx)'
    BY <2>7 DEF Explained
  <2>8. CASE Outrun(q.tx, n)'
    <3>1. PICK j \in 1..(n - 1) :
            /\ included'[j].tx \in created' /\ included'[j].tx.creator = q.tx.creator
            /\ \A k \in (j + 1)..(n - 1) : included'[k].tx.creator # q.tx.creator
            /\ \/ included'[j].tx.symbol = q.tx.symbol
               \/ ~(Cardinality(Made(q.tx.creator)') < CollectionCap)
      BY <2>8 DEF Outrun
    <3>2. \A k \in (j + 1)..n : included'[k].tx.creator # q.tx.creator
      BY <1>4, <2>4, <3>1
    <3>3. Len(included') + 1 - 1 = n /\ j \in 1..n
      BY <1>1, <1>3, <1>4, <3>1
    <3> QED
      BY <3>1, <3>2, <3>3 DEF Explained, Outrun
  <2> QED
    BY <2>6, <2>7, <2>8 DEF Explained
<1>8. ASSUME NEW k \in (judged' + 1)..Len(included')
      PROVE  OnlyHere(included[k].tx.creator, k)' => Explained(included[k].tx, k)'
  <2>1. k \in 1..n /\ (k = n \/ k \in (judged + 1)..Len(included))
    BY <1>1, <1>3, <1>4, <1>8
  <2>2. PICK t : t = included'[k].tx
    OBVIOUS
  <2> SUFFICES ASSUME OnlyHere(included[k].tx.creator, k)' PROVE Explained(included[k].tx, k)'
    OBVIOUS
  <2>3. CASE k = n
    <3>0. tx \in Drafts /\ OnlyHere(tx.creator, Len(included))
      BY <1>1, <1>3, <1>4, <2>3, IncludedOf DEF OnlyHere
    <3>1. Explained(tx, n)
      BY <1>1, <1>2, <1>3, <3>0 DEF RoomSeen, Cleared, SigningInv
    <3>2. Explained(tx, n)'
      BY <1>6, <2>1, <2>3, <3>1
    <3> QED
      BY <1>4, <2>3, <3>2 DEF Explained, Outrun, Room, Made
  <2>4. CASE k \in (judged + 1)..Len(included)
    <3>1. k \in 1..Len(included) /\ t = included[k].tx
      BY <1>1, <1>4, <2>2, <2>4
    <3>2. Explained(t, k)
      <4>1. OnlyHere(included[k].tx.creator, k)
        BY <1>1, <1>4, <3>1, IncludedOf DEF OnlyHere
      <4> QED
        BY <2>4, <3>1, <4>1 DEF RoomSeen
    <3>3. Explained(t, k)'
      BY <1>6, <2>1, <3>2
    <3> QED
      BY <2>2, <3>3 DEF Explained, Outrun, Room, Made
  <2> QED
    BY <2>1, <2>3, <2>4
<1> QED
  BY <1>7, <1>8 DEF RoomSeen

LEMMA RoomSeenStep ==
    ASSUME SigningInv, RepliesSigned, ChainOrder, ChainOrder', Spaced, RoomSeen,
           [SigningNext]_signingVars
    PROVE  RoomSeen'
<1>1. ASSUME UNCHANGED <<included, created, judged>>
      PROVE  RoomSeen'
  <2>1. /\ \A t, e : Explained(t, e)' <=> Explained(t, e)
        /\ \A t : Room(t)' <=> Room(t)
        /\ OnChain' = OnChain
        /\ \A c, e : OnlyHere(c, e)' <=> OnlyHere(c, e)
        /\ \A q \in Inquiries : Live(q.tx)' => Live(q.tx)
    <3>1. \A t : Room(t)' <=> Room(t)
      BY <1>1 DEF Room, Made
    <3>2. \A t, e : Outrun(t, e)' <=> Outrun(t, e)
      BY <1>1 DEF Outrun, Made
    <3>3. clock \in Nat /\ (clock' = clock \/ clock' = clock + 1)
      BY ChainStepKinds, IncludedIs DEF SigningInv, NextInstant, Indexes, IndexCollection, chainTime, ChainOrder,
         Includes, Broadcast, BroadcastElsewhere
    <3>4. \A q \in Inquiries : Live(q.tx)' => Live(q.tx)
      BY <3>3, SigningAssumption DEF Live
    <3> QED
      BY <1>1, <3>1, <3>2, <3>4 DEF Explained, OnChain, OnlyHere
  <2>2. \A q \in Inquiries : Cleared(q)' => Cleared(q) \/ Room(q.tx)
    BY ClearedWithRoom
  <2>3. \A q \in Inquiries :
          Cleared(q)' /\ Live(q.tx)' /\ q.tx \notin OnChain' /\ OnlyHere(q.tx.creator, Len(included))
              => Explained(q.tx, Len(included) + 1)
    BY <2>1, <2>2 DEF RoomSeen, Explained
  <2> QED
    BY <1>1, <2>1, <2>3 DEF RoomSeen
<1>2. NextInstant \/ UNCHANGED chainTime => UNCHANGED <<included, created, judged>>
  BY DEF NextInstant, chainSide, chainTime
<1> QED
  BY <1>1, <1>2, ChainStepKinds, RoomSeenIndexed, RoomSeenBroadcast

\* A lost fee stays lost to the same transaction.
LEMMA LossStep ==
    ASSUME SigningInv, RepliesSigned, ChainOrder, ChainOrder', RoomSeen, LostToTheOneBefore,
           [SigningNext]_signingVars
    PROVE  LostToTheOneBefore'
<1>1. ASSUME UNCHANGED <<included, created, judged, turnedAway>>
      PROVE  LostToTheOneBefore'
  BY <1>1 DEF LostToTheOneBefore, OnlyHere, Outrun, Made
<1>2. ASSUME NEW active \in BOOLEAN, IndexCollection(active)
      PROVE  LostToTheOneBefore'
  <2>1. /\ judged < Len(included) /\ judged' = judged + 1 /\ UNCHANGED included
        /\ created' = IF active /\ Room(included[judged + 1].tx)
                      THEN created \cup {included[judged + 1].tx} ELSE created
        /\ turnedAway' = IF active THEN turnedAway ELSE turnedAway \cup {judged + 1}
    BY <1>2 DEF IndexCollection
  <2>2. created \subseteq created' /\ IsFiniteSet(created')
    <3>1. IsFiniteSet(created)
      BY CreatedFinite
    <3> QED
      BY <2>1, <3>1, FS_AddElement
  <2>3. ASSUME NEW i \in 1..judged', i \notin turnedAway', OnlyHere(included[i].tx.creator, i)
        PROVE  included[i].tx \in created' \/ Outrun(included[i].tx, i)'
    <3>0. PICK tx : tx = included[i].tx
      OBVIOUS
    <3>1. CASE i \in 1..judged /\ tx \in created
      BY <2>2, <3>0, <3>1
    <3>2. CASE Outrun(tx, i)
      <4>1. Outrun(tx, i)'
        BY <2>1, <2>2, <3>2, OutrunGrows
      <4> QED
        BY <2>1, <3>0, <4>1 DEF Outrun, Made
    <3>3. CASE i = judged + 1 /\ ~Outrun(tx, i)
      <4>1. Explained(tx, i) /\ active
        BY <2>1, <2>3, <3>0, <3>3, InChain DEF RoomSeen
      <4> QED
        BY <2>1, <3>0, <3>3, <4>1 DEF Explained
    <3>4. i \in 1..judged \/ i = judged + 1
      BY <2>1, InChain
    <3>5. i \notin turnedAway
      BY <2>1, <2>3
    <3> QED
      BY <2>3, <3>0, <3>1, <3>2, <3>3, <3>4, <3>5 DEF LostToTheOneBefore
  <2> QED
    BY <2>1, <2>3 DEF LostToTheOneBefore, OnlyHere, Outrun, Made
<1>3. ASSUME NEW tx \in Drafts \cup Elsewhere, Includes(tx)
      PROVE  LostToTheOneBefore'
  <2>1. /\ UNCHANGED <<created, judged, turnedAway>>
        /\ \A i \in 1..Len(included) : included'[i] = included[i]
    BY <1>3, IncludedIs
  <2>2. ASSUME NEW i \in 1..judged, i \notin turnedAway, OnlyHere(included[i].tx.creator, i)'
        PROVE  included'[i].tx \in created' \/ Outrun(included[i].tx, i)'
    <3>1. /\ included'[i] = included[i]
          /\ \A j \in 1..(i - 1) : included'[j] = included[j]
          /\ \A j \in 1..(i - 1) : \A k \in (j + 1)..(i - 1) : included'[k] = included[k]
      BY <2>1, InChain
    <3>4. OnlyHere(included[i].tx.creator, i)
      <4>1. i \in 0..Len(included)
        BY InChain
      <4> QED
        BY <1>3, <2>2, <3>1, <4>1, IncludedOf DEF OnlyHere
    <3>2. CASE included[i].tx \in created
      BY <2>1, <3>1, <3>2
    <3>3. CASE Outrun(included[i].tx, i)
      BY <2>1, <3>1, <3>3 DEF Outrun, Made
    <3> QED
      BY <2>2, <3>2, <3>3, <3>4 DEF LostToTheOneBefore
  <2> QED
    BY <2>1, <2>2 DEF LostToTheOneBefore, OnlyHere
<1>4. NextInstant \/ UNCHANGED chainTime => UNCHANGED <<included, created, judged, turnedAway>>
  BY DEF NextInstant, chainSide, chainTime
<1> QED
  BY <1>1, <1>2, <1>3, <1>4, ChainStepKinds DEF Indexes

\* However the requests of a creator interleave, fail, crash or are repeated, no
\* two of its transactions in a row pay the fee for nothing: one that creates no
\* collection came right after one that did, and that took its symbol or its
\* place under the cap (create-collection.ts, the lock and the room check); as
\* long as the creator goes to no other node, and apart from what the router
\* turns away because this one fell silent before the block.
THEOREM FeesLostSingly == SigningSpec => []LostToTheOneBefore
<1> DEFINE Inv == SigningInv /\ RepliesSigned /\ ChainOrder /\ Spaced /\ RoomSeen
<1>1. SigningInit => Inv /\ LostToTheOneBefore
  <2>1. SigningInit => LostToTheOneBefore
    BY DEF SigningInit, LostToTheOneBefore
  <2> QED
    BY <2>1, SigningInvInit, RepliesInit, FeesInit
<1>2. Inv /\ [SigningNext]_signingVars => Inv'
  BY SigningInvStep, RepliesStep, ChainOrderStep, SpacedStep, RoomSeenStep
<1>3. Inv /\ Inv' /\ LostToTheOneBefore /\ [SigningNext]_signingVars => LostToTheOneBefore'
  BY LossStep
<1> QED
  BY <1>1, <1>2, <1>3, PTL DEF SigningSpec

-----------------------------------------------------------------------------
(* Packs. *)

\* The whole table weighs something.
LEMMA TableWeighs == TotalWeight \in Nat \ {0}
<1> DEFINE n == Len(TableOrder)
           D == DOMAIN TableOrder
           v == [i \in D |-> Weight[TableOrder[i]]]
           pick == [s \in SUBSET D |-> Max(s)]
           Eq(f) == f = [s \in SUBSET D |->
                            IF s = {} THEN 0
                            ELSE LET x == Max(s) IN Weight[TableOrder[x]] + f[s \ {x}]]
           C == CHOOSE f : Eq(f)
<1>1. TotalWeight = C[D]
  BY DEF TotalWeight, FoldLeft, MapThenFoldSet
<1>2. n \in Nat /\ D = 1..n /\ n # 0 /\ \A i \in D : TableOrder[i] \in Draws
  <2>1. TableOrder \in Seq(Draws) /\ Draws # {} /\ Draws = {TableOrder[i] : i \in D}
    BY PackAssumption DEF Range
  <2>2. n \in Nat /\ D = 1..n /\ \A i \in D : TableOrder[i] \in Draws
    BY <2>1, LenProperties, ElementOfSeq
  <2>3. D # {}
    BY <2>1
  <2> HIDE DEF n, D
  <2> QED
    BY <2>2, <2>3
<1>3. IsFiniteSet(D) /\ v \in [D -> Nat] /\ \A i \in D : v[i] = Weight[TableOrder[i]] /\ v[i] # 0
  <2>1. IsFiniteSet(1..n)
    BY <1>2, FS_Interval
  <2>2. \A i \in D : Weight[TableOrder[i]] \in Nat \ {0}
    BY <1>2, PackAssumption
  <2> HIDE DEF n, D
  <2> QED
    BY <1>2, <2>1, <2>2
<1> HIDE DEF n, D
<1>4. ASSUME NEW s \in SUBSET D, s # {} PROVE Max(s) \in s
  <2>1. s \in SUBSET (0..n)
    BY <1>2
  <2> QED
    BY <1>2, <1>4, <2>1, HighestOf
<1>5. Picks(pick, D)
  <2>1. \A s \in SUBSET D : pick[s] = Max(s)
    OBVIOUS
  <2> HIDE DEF pick
  <2> QED
    BY <1>4, <2>1 DEF Picks
<1> HIDE DEF v
<1>6. PICK F : Sums(F, D, v)
  BY <1>3, SumExists
<1>7. F \in [SUBSET D -> Nat] /\ F[{}] = 0
  BY <1>6 DEF Sums
<1>8. Eq(F)
  <2>1. ASSUME NEW s \in SUBSET D, s # {}
        PROVE  F[s] = Weight[TableOrder[Max(s)]] + F[s \ {Max(s)}]
    <3>1. PICK e \in s : e = Max(s)
      BY <1>4, <2>1
    <3>2. F[s] = v[e] + F[s \ {e}] /\ v[e] = Weight[TableOrder[e]]
      BY <1>3, <1>6 DEF Sums
    <3>3. v[e] \in Nat /\ F[s \ {e}] \in Nat
      BY <1>3, <1>7
    <3> QED
      BY <3>1, <3>2, <3>3
  <2> QED
    BY <1>7, <2>1
<1>9. Eq(C)
  BY <1>8, Zenon
<1>10. AddsUp(F, pick, D, v)
  <2> SUFFICES ASSUME NEW s \in SUBSET D
               PROVE  F[s] = IF s = {} THEN 0 ELSE v[pick[s]] + F[s \ {pick[s]}]
    BY DEF AddsUp
  <2>1. s # {} => pick[s] \in s
    BY <1>5 DEF Picks
  <2> HIDE DEF pick
  <2> QED
    BY <1>6, <1>7, <2>1 DEF Sums
<1>11. C[D] = F[D]
  <2>1. AddsUp(C, pick, D, v)
    <3> SUFFICES ASSUME NEW s \in SUBSET D
                 PROVE  C[s] = IF s = {} THEN 0 ELSE v[pick[s]] + C[s \ {pick[s]}]
      BY DEF AddsUp
    <3>1. C[s] = IF s = {} THEN 0 ELSE Weight[TableOrder[Max(s)]] + C[s \ {Max(s)}]
      <4> HIDE DEF C
      <4> QED
        BY <1>9
    <3>2. pick[s] = Max(s)
      OBVIOUS
    <3>3. s # {} => v[Max(s)] = Weight[TableOrder[Max(s)]]
      BY <1>3, <1>4
    <3> HIDE DEF C, pick
    <3> QED
      BY <3>1, <3>2, <3>3
  <2> HIDE DEF C, pick
  <2> QED
    BY <1>3, <1>5, <1>6, <2>1, SumOnly
<1>12. F[D] = v[1] + F[D \ {1}] /\ v[1] \in Nat /\ v[1] # 0 /\ F[D \ {1}] \in Nat
  <2>1. 1 \in D
    BY <1>2
  <2> QED
    BY <1>3, <1>6, <1>7, <2>1 DEF Sums
<1> HIDE DEF C
<1> QED
  BY <1>1, <1>11, <1>12
LEMMA ReservedIsNatural == ASSUME NEW s \in Draws PROVE ReservedSupply(s) \in Nat
<1>1. PICK t \in Nat : t = TotalWeight /\ t # 0
  BY TableWeighs
<1>2. PICK k \in Nat : k = PackSupply * PerPack * Weight[s]
  BY PackAssumption
<1>3. (k + t - 1) \div t \in Nat
  <2>1. k + t - 1 \in Nat
    BY <1>1
  <2> QED
    BY <1>1, <2>1
<1> QED
  BY <1>1, <1>2, <1>3 DEF ReservedSupply

LEMMA MaxWithZero ==
    ASSUME NEW a \in Int
    PROVE  Max({a, 0}) \in Int /\ Max({a, 0}) >= a /\ Max({a, 0}) >= 0
<1>1. \E x \in {a, 0} : \A y \in {a, 0} : x >= y
  OBVIOUS
<1>2. Max({a, 0}) \in {a, 0} /\ \A y \in {a, 0} : Max({a, 0}) >= y
  BY <1>1, Zenon DEF Max
<1> QED
  BY <1>2

Looks == [draw : {DrawnSeeds(rolls) : rolls \in [1..PerPack -> 0..(TotalWeight - 1)]},
          delivered : BOOLEAN]

PackShapes ==
    /\ available \in [Draws -> Int] /\ reserved \in [Draws -> Int]
    /\ planned \in [Draws -> Nat] /\ opened \in Seq(Looks)

PackInv == PackShapes /\ PlanFitsDistinctDraws

LEMMA PackInvInit == PackInit => PackInv
<1> SUFFICES ASSUME PackInit PROVE PackInv
  OBVIOUS
<1>1. available \in [Draws -> Int]
  <2>1. Stock \subseteq Int /\ Missing \in Int
    BY PackAssumption DEF Missing, Unlimited
  <2>2. available \in [Draws -> Stock \cup {Missing}]
    BY DEF PackInit
  <2>3. (Stock \cup {Missing}) \subseteq Int
    BY <2>1
  <2> QED
    BY <2>2, <2>3
<1>2. reserved \in [Draws -> Int] /\ \A s \in Draws : reserved[s] # Unlimited => 0 <= reserved[s]
  <2>1. \A s \in Draws : ReservedSupply(s) \in Nat
    BY ReservedIsNatural
  <2> QED
    BY <2>1 DEF PackInit, Unlimited
<1>3. PackShapes
  BY <1>1, <1>2, EmptySeq DEF PackInit, PackShapes
<1>4. ASSUME NEW s \in Draws PROVE Fits(s)
  <2>1. available[s] \in Int /\ planned[s] = 0
    BY <1>1 DEF PackInit
  <2> QED
    BY <1>2, <2>1, MaxWithZero DEF Fits
<1> QED
  BY <1>3, <1>4 DEF PackInv, PlanFitsDistinctDraws

LEMMA TimesIs ==
    ASSUME NEW rolls \in [1..PerPack -> 0..(TotalWeight - 1)], NEW s
    PROVE  /\ Times(DrawnSeeds(rolls), s) \in Nat
           /\ Times(DrawnSeeds(rolls), s) # 0 => s \in Range(DrawnSeeds(rolls))
<1> DEFINE draw == DrawnSeeds(rolls)
           P == {n \in DOMAIN draw : draw[n] = s}
<1>1. IsFiniteSet(P)
  <2>1. DOMAIN draw = 1..PerPack /\ PerPack \in Nat
    BY PackAssumption DEF DrawnSeeds
  <2>2. IsFiniteSet(1..PerPack) /\ P \subseteq 1..PerPack
    BY <2>1, FS_Interval
  <2> HIDE DEF P
  <2> QED
    BY <2>2, FS_Subset
<1>2. Cardinality(P) \in Nat
  BY <1>1, FS_CardinalityType
<1>3. Cardinality(P) # 0 => P # {}
  BY FS_EmptySet
<1>4. P # {} => s \in Range(draw)
  BY DEF Range
<1> QED
  BY <1>2, <1>3, <1>4 DEF Times

LEMMA OpenPackFits ==
    ASSUME PackInv, NEW rolls \in [1..PerPack -> 0..(TotalWeight - 1)], OpenPack(rolls)
    PROVE  PackInv'
<1> DEFINE draw == DrawnSeeds(rolls)
           delivered == \A s \in Range(draw) : Obtainable(s)
           look == [draw |-> draw, delivered |-> delivered]
<1>1. /\ opened' = Append(opened, look)
      /\ planned' = IF delivered THEN [s \in Draws |-> planned[s] + Times(draw, s)] ELSE planned
      /\ available' = available /\ reserved' = reserved
  BY DEF OpenPack
<1>2. look \in Looks
  <2>1. delivered \in BOOLEAN
    OBVIOUS
  <2> HIDE DEF delivered
  <2> QED
    BY <2>1 DEF Looks
<1>3. PackShapes
  BY DEF PackInv
<1>4. /\ opened' \in Seq(Looks) /\ Len(opened') = Len(opened) + 1 /\ Len(opened) \in Nat
      /\ \A n \in 1..Len(opened) : opened'[n] = opened[n]
      /\ opened'[Len(opened) + 1] = look
      /\ DOMAIN opened = 1..Len(opened) /\ DOMAIN opened' = 1..(Len(opened) + 1)
  <2> HIDE DEF look
  <2>1. opened \in Seq(Looks)
    BY <1>3 DEF PackShapes
  <2> QED
    BY <1>1, <1>2, <2>1, AppendProperties, LenProperties
<1>5. \A s : Times(draw, s) \in Nat /\ (Times(draw, s) # 0 => s \in Range(draw))
  BY TimesIs
<1> HIDE DEF draw
<1>6. planned' \in [Draws -> Nat] /\ \A s \in Draws : planned'[s] = IF delivered THEN planned[s] + Times(draw, s) ELSE planned[s]
  <2>1. planned \in [Draws -> Nat]
    BY <1>3 DEF PackShapes
  <2> HIDE DEF delivered
  <2> QED
    BY <1>1, <1>5, <2>1
<1>7. PackShapes'
  BY <1>1, <1>3, <1>4, <1>6 DEF PackShapes
<1>8. ASSUME NEW s \in Draws, \A n \in DOMAIN opened' : Times(opened'[n].draw, s) <= 1
      PROVE  Fits(s)'
  <2>1. \A n \in DOMAIN opened : Times(opened[n].draw, s) <= 1
    BY <1>4, <1>8
  <2>2. Fits(s)
    BY <2>1 DEF PackInv, PlanFitsDistinctDraws
  <2>3. Times(draw, s) <= 1
    <3>1. Len(opened) + 1 \in DOMAIN opened'
      BY <1>4
    <3> QED
      BY <1>4, <1>8, <3>1
  <2>4. /\ available[s] \in Int /\ reserved[s] \in Int /\ planned[s] \in Nat
        /\ Max({available[s], 0}) \in Int /\ Max({available[s], 0}) >= available[s]
    BY <1>3, MaxWithZero DEF PackShapes
  <2>5. PICK k \in Nat : k = Times(draw, s) /\ k <= 1
    BY <1>5, <2>3
  <2>6. CASE planned'[s] = planned[s]
    BY <1>1, <2>2, <2>6 DEF Fits
  <2>7. CASE delivered /\ k = 1
    <3>0. Times(draw, s) # 0
      BY <2>5, <2>7
    <3>1. Obtainable(s)
      BY <1>5, <2>7, <3>0
    <3>2. planned'[s] = planned[s] + 1
      BY <1>6, <2>5, <2>7
    <3>3. PICK m \in Int : m = Max({available[s], 0}) /\ available[s] <= m
      BY <2>4
    <3>4. Max({available'[s], 0}) = m /\ available'[s] = available[s] /\ reserved'[s] = reserved[s]
      BY <1>1, <3>3
    <3>5. available[s] # Unlimited => planned'[s] <= m
      BY <2>4, <3>1, <3>2, <3>3 DEF Obtainable
    <3>6. reserved[s] # Unlimited => planned'[s] <= reserved[s]
      BY <2>4, <3>1, <3>2 DEF Obtainable
    <3> QED
      BY <3>4, <3>5, <3>6 DEF Fits
  <2>8. CASE ~(delivered /\ k = 1)
    <3>1. delivered => k = 0
      BY <2>5, <2>8
    <3>2. planned'[s] = planned[s]
      <4> HIDE DEF delivered
      <4> QED
        BY <1>6, <2>4, <2>5, <3>1
    <3> QED
      BY <2>6, <3>2
  <2> QED
    BY <2>7, <2>8
<1> QED
  BY <1>7, <1>8 DEF PackInv, PlanFitsDistinctDraws

\* Of a seed that no pack draws twice, the plan (buildPackOpenPlan) asks for no
\* more than there is to distribute, nor than is reserved, however many packs
\* share it and whatever the generator rolls.
THEOREM PlansFit == PackSpec => []PlanFitsDistinctDraws
<1>1. PackInv /\ [PackNext]_packVars => PackInv'
  <2> SUFFICES ASSUME PackInv, [PackNext]_packVars PROVE PackInv'
    OBVIOUS
  <2>1. CASE PackNext
    BY <2>1, OpenPackFits DEF PackNext
  <2>2. CASE UNCHANGED packVars
    BY <2>2 DEF packVars, PackInv, PackShapes, PlanFitsDistinctDraws, Fits
  <2> QED
    BY <2>1, <2>2
<1>2. PackInv => PlanFitsDistinctDraws
  BY DEF PackInv
<1> QED
  BY <1>1, <1>2, PackInvInit, PTL DEF PackSpec
-----------------------------------------------------------------------------
(* The light client: two walks over one trail. *)

\* Who has the asset after the operation at place i, if c had it before.
Take(t, shown, listing, since, c, i) ==
    IF /\ i \in shown /\ t[i].kind = "commit" /\ t[i].listing = listing /\ t[i].block >= since
       /\ ~(c # 0 /\ t[c].block + CommitTtl >= t[i].block)
    THEN i ELSE c

Walk(f, t, shown, listing, since, n) ==
    f = [i \in 0..n |-> IF i = 0 THEN 0 ELSE Take(t, shown, listing, since, f[i - 1], i)]

HeldIn(t, shown, listing, since, n) == (CHOOSE f : Walk(f, t, shown, listing, since, n))[n]

LEMMA HeldIs ==
    ASSUME NEW shown, NEW listing, NEW since, NEW n
    PROVE  HeldAfter(shown, listing, since, n) = HeldIn(trail, shown, listing, since, n)
BY Zenon DEF HeldAfter, HeldIn, Walk, Take, Candidate, Lasts, Until

LEMMA WalkExists ==
    ASSUME NEW t, NEW shown, NEW listing, NEW since, NEW m \in Nat
    PROVE  \E f : Walk(f, t, shown, listing, since, m)
<1> DEFINE S == {k \in Nat : \E f : Walk(f, t, shown, listing, since, k)}
<1>1. 0 \in S
  <2> DEFINE f == [i \in 0..0 |-> 0]
  <2>1. f = [i \in 0..0 |-> IF i = 0 THEN 0 ELSE Take(t, shown, listing, since, f[i - 1], i)]
    <3>1. \A i \in 0..0 : i = 0
      OBVIOUS
    <3> QED
      BY <3>1
  <2>2. Walk(f, t, shown, listing, since, 0)
    BY <2>1, Zenon DEF Walk
  <2> QED
    BY <2>2
<1>2. ASSUME NEW k \in Nat, k \in S PROVE k + 1 \in S
  <2>1. PICK f : Walk(f, t, shown, listing, since, k)
    BY <1>2
  <2> DEFINE h == [i \in 0..(k + 1) |-> IF i = k + 1 THEN Take(t, shown, listing, since, f[k], i) ELSE f[i]]
  <2>2. ASSUME NEW i \in 0..(k + 1)
        PROVE  h[i] = IF i = 0 THEN 0 ELSE Take(t, shown, listing, since, h[i - 1], i)
    <3>1. CASE i = 0
      <4>1. i \in 0..k /\ i # k + 1
        BY <3>1
      <4>2. h[i] = f[i] /\ f[i] = 0
        BY <2>1, <3>1, <4>1 DEF Walk
      <4> QED
        BY <3>1, <4>2
    <3>2. CASE i # 0 /\ i # k + 1
      <4>1. i \in 0..k /\ i - 1 \in 0..(k + 1) /\ i - 1 # k + 1
        BY <3>2
      <4>2. h[i] = f[i] /\ h[i - 1] = f[i - 1]
        BY <3>2, <4>1
      <4>3. f[i] = Take(t, shown, listing, since, f[i - 1], i)
        BY <2>1, <3>2, <4>1 DEF Walk
      <4> QED
        BY <3>2, <4>2, <4>3
    <3>3. CASE i = k + 1
      <4>1. i # 0 /\ i - 1 = k /\ k \in 0..(k + 1) /\ k # k + 1
        BY <3>3
      <4>2. h[i] = Take(t, shown, listing, since, f[k], i) /\ h[k] = f[k]
        BY <3>3, <4>1
      <4> QED
        BY <4>1, <4>2
    <3> QED
      BY <3>1, <3>2, <3>3
  <2>3. h = [i \in 0..(k + 1) |-> h[i]]
    OBVIOUS
  <2> HIDE DEF h
  <2>4. h = [i \in 0..(k + 1) |-> IF i = 0 THEN 0 ELSE Take(t, shown, listing, since, h[i - 1], i)]
    BY <2>2, <2>3, Zenon
  <2>5. Walk(h, t, shown, listing, since, k + 1)
    BY <2>4, Zenon DEF Walk
  <2> QED
    BY <2>5
<1> HIDE DEF S
<1>3. m \in S
  BY <1>1, <1>2, SetInduction
<1> QED
  BY <1>3 DEF S

\* A walk is told by where it ends, and a walk that goes on is the same so far.
LEMMA WalkSteps ==
    ASSUME NEW t, NEW shown, NEW listing, NEW since, NEW m \in Nat, NEW f, Walk(f, t, shown, listing, since, m)
    PROVE  f[0] = 0 /\ \A i \in 1..m : f[i] = Take(t, shown, listing, since, f[i - 1], i)
<1>1. 0 \in 0..m /\ \A i \in 1..m : i \in 0..m /\ i # 0
  OBVIOUS
<1> QED
  BY <1>1 DEF Walk

LEMMA WalksAgree ==
    ASSUME NEW t, NEW shown, NEW listing, NEW since, NEW m \in Nat, NEW n \in Nat, NEW f, NEW h,
           Walk(f, t, shown, listing, since, m), Walk(h, t, shown, listing, since, n),
           NEW k \in Nat, k <= m, k <= n
    PROVE  f[k] = h[k]
<1> DEFINE S == {i \in Nat : i <= m /\ i <= n => f[i] = h[i]}
<1>1. 0 \in S
  <2>1. f[0] = 0
    BY WalkSteps
  <2>2. h[0] = 0
    BY WalkSteps
  <2> QED
    BY <2>1, <2>2
<1>2. ASSUME NEW i \in Nat, i \in S PROVE i + 1 \in S
  <2> SUFFICES ASSUME i + 1 <= m, i + 1 <= n PROVE f[i + 1] = h[i + 1]
    OBVIOUS
  <2>1. f[i] = h[i]
    BY <1>2
  <2>2. i + 1 \in 1..m /\ i + 1 \in 1..n /\ (i + 1) - 1 = i
    OBVIOUS
  <2>3. \A j \in 1..m : f[j] = Take(t, shown, listing, since, f[j - 1], j)
    BY WalkSteps
  <2>4. \A j \in 1..n : h[j] = Take(t, shown, listing, since, h[j - 1], j)
    BY WalkSteps
  <2>5. f[i + 1] = Take(t, shown, listing, since, f[i], i + 1) /\ h[i + 1] = Take(t, shown, listing, since, h[i], i + 1)
    BY <2>2, <2>3, <2>4
  <2> QED
    BY <2>1, <2>5
<1> HIDE DEF S
<1>3. k \in S
  BY <1>1, <1>2, SetInduction
<1> QED
  BY <1>3 DEF S

LEMMA HeldSteps ==
    ASSUME NEW t, NEW shown, NEW listing, NEW since, NEW n \in Nat
    PROVE  /\ HeldIn(t, shown, listing, since, 0) = 0
           /\ HeldIn(t, shown, listing, since, n + 1) = Take(t, shown, listing, since, HeldIn(t, shown, listing, since, n), n + 1)
<1>1. ASSUME NEW k \in Nat
      PROVE  \E f : /\ Walk(f, t, shown, listing, since, k) /\ HeldIn(t, shown, listing, since, k) = f[k]
                    /\ f[0] = 0 /\ \A i \in 1..k : f[i] = Take(t, shown, listing, since, f[i - 1], i)
  <2>1. PICK f : Walk(f, t, shown, listing, since, k) /\ HeldIn(t, shown, listing, since, k) = f[k]
    BY WalkExists, Zenon DEF HeldIn
  <2>2. f[0] = 0 /\ \A i \in 1..k : f[i] = Take(t, shown, listing, since, f[i - 1], i)
    <3>1. Walk(f, t, shown, listing, since, k)
      BY <2>1
    <3> QED
      BY <3>1, WalkSteps
  <2> QED
    BY <2>1, <2>2
<1>2. PICK z : HeldIn(t, shown, listing, since, 0) = z[0] /\ z[0] = 0
  BY <1>1
<1>3. PICK f : Walk(f, t, shown, listing, since, n) /\ HeldIn(t, shown, listing, since, n) = f[n]
  BY <1>1
<1>4. PICK m \in Nat : m = n + 1
  OBVIOUS
<1>5. PICK h : /\ Walk(h, t, shown, listing, since, m) /\ HeldIn(t, shown, listing, since, m) = h[m]
               /\ h[0] = 0 /\ \A i \in 1..m : h[i] = Take(t, shown, listing, since, h[i - 1], i)
  BY <1>1
<1>6. h[n] = f[n]
  <2>1. Walk(f, t, shown, listing, since, n)
    BY <1>3
  <2>2. Walk(h, t, shown, listing, since, m)
    BY <1>5
  <2>3. n <= n /\ n <= m
    BY <1>4
  <2> QED
    BY <2>1, <2>2, <2>3, WalksAgree
<1>7. m \in 1..m /\ m - 1 = n
  BY <1>4
<1>8. h[m] = Take(t, shown, listing, since, h[n], m)
  BY <1>5, <1>7
<1> QED
  BY <1>2, <1>3, <1>4, <1>5, <1>6, <1>8

\* Who has it committed to that listing, in the window.
LEMMA HeldMeans ==
    ASSUME NEW t, NEW shown, NEW listing, NEW since, NEW n \in Nat
    PROVE  LET c == HeldIn(t, shown, listing, since, n)
           IN  /\ c \in 0..n
               /\ c # 0 => /\ c \in shown /\ t[c].kind = "commit"
                           /\ t[c].listing = listing /\ t[c].block >= since
<1> DEFINE H(m) == HeldIn(t, shown, listing, since, m)
           S == {m \in Nat : /\ H(m) \in 0..m
                             /\ H(m) # 0 => /\ H(m) \in shown
                                            /\ t[H(m)].kind = "commit" /\ t[H(m)].listing = listing
                                            /\ t[H(m)].block >= since}
<1>1. 0 \in S
  BY HeldSteps
<1>2. ASSUME NEW m \in Nat, m \in S PROVE m + 1 \in S
  <2>1. H(m + 1) = Take(t, shown, listing, since, H(m), m + 1)
    BY HeldSteps
  <2>2. PICK c, d : c = H(m) /\ d = H(m + 1)
    OBVIOUS
  <2>3. d = Take(t, shown, listing, since, c, m + 1)
    BY <2>1, <2>2
  <2>4. /\ c \in 0..m
        /\ c # 0 => /\ c \in shown /\ t[c].kind = "commit"
                    /\ t[c].listing = listing /\ t[c].block >= since
    BY <1>2, <2>2
  <2>5. /\ d \in 0..(m + 1)
        /\ d # 0 => /\ d \in shown /\ t[d].kind = "commit"
                    /\ t[d].listing = listing /\ t[d].block >= since
    BY <2>3, <2>4 DEF Take
  <2> QED
    BY <2>2, <2>5
<1> HIDE DEF S
<1>3. n \in S
  BY <1>1, <1>2, SetInduction
<1> QED
  BY <1>3 DEF S

\* It depends on the operations up to there, and on those for the listing only.
LEMMA HeldSame ==
    ASSUME NEW t, NEW u, NEW shown, NEW also, NEW listing, NEW since, NEW n \in Nat,
           \A i \in 1..n : u[i] = t[i],
           \A i \in 1..n : t[i].kind = "commit" /\ t[i].listing = listing /\ t[i].block >= since
                           => (i \in also <=> i \in shown)
    PROVE  HeldIn(u, also, listing, since, n) = HeldIn(t, shown, listing, since, n)
<1> DEFINE S == {m \in Nat : m <= n =>
                    HeldIn(u, also, listing, since, m) = HeldIn(t, shown, listing, since, m)}
<1>1. 0 \in S
  BY HeldSteps
<1>2. ASSUME NEW m \in Nat, m \in S PROVE m + 1 \in S
  <2> SUFFICES ASSUME m + 1 <= n
               PROVE  HeldIn(u, also, listing, since, m + 1) = HeldIn(t, shown, listing, since, m + 1)
    OBVIOUS
  <2>1. PICK c : c = HeldIn(t, shown, listing, since, m) /\ c = HeldIn(u, also, listing, since, m)
    BY <1>2
  <2>2. c \in 0..m
    BY <2>1, HeldMeans
  <2>3. u[m + 1] = t[m + 1] /\ (c # 0 => u[c] = t[c])
    BY <2>2
  <2>4. t[m + 1].kind = "commit" /\ t[m + 1].listing = listing /\ t[m + 1].block >= since
        => (m + 1 \in also <=> m + 1 \in shown)
    OBVIOUS
  <2>5. Take(u, also, listing, since, c, m + 1) = Take(t, shown, listing, since, c, m + 1)
    BY <2>3, <2>4, Zenon DEF Take
  <2> QED
    BY <2>1, <2>5, HeldSteps
<1> HIDE DEF S
<1>3. n \in S
  BY <1>1, <1>2, SetInduction
<1> QED
  BY <1>3 DEF S

LEMMA HeldNone ==
    ASSUME NEW t, NEW shown, NEW listing, NEW since, NEW n \in Nat,
           \A i \in 1..n : ~(t[i].kind = "commit" /\ t[i].listing = listing)
    PROVE  HeldIn(t, shown, listing, since, n) = 0
BY HeldMeans

\* A walk that starts later and one that starts early have the same outcome, or
\* the early one has a commitment from before the other's window, if no such
\* commitment reaches into it.
LEMMA WindowWalk ==
    ASSUME NEW t, NEW shown, NEW listing, NEW since \in Int, NEW n \in Nat,
           \A i \in 1..n : t[i].block \in Nat,
           \A i, j \in 1..n : i <= j => t[i].block <= t[j].block,
           \A i \in 1..n : t[i].kind = "commit" /\ t[i].listing = listing /\ t[i].block < since
                           => t[i].block + CommitTtl < since
    PROVE  LET c == HeldIn(t, shown, listing, 0, n)
               r == HeldIn(t, shown, listing, since, n)
           IN  c = r \/ (r = 0 /\ c # 0 /\ t[c].block < since)
<1> DEFINE C(m) == HeldIn(t, shown, listing, 0, m)
           R(m) == HeldIn(t, shown, listing, since, m)
           Alike(c, r) == c = r \/ (r = 0 /\ c # 0 /\ t[c].block < since)
           S == {m \in Nat : m <= n => Alike(C(m), R(m))}
<1>1. 0 \in S
  BY HeldSteps
<1>2. ASSUME NEW m \in Nat, m \in S PROVE m + 1 \in S
  <2> SUFFICES ASSUME m + 1 <= n PROVE Alike(C(m + 1), R(m + 1))
    OBVIOUS
  <2>1. PICK c, r : c = C(m) /\ r = R(m)
    OBVIOUS
  <2>2. PICK d, q : d = C(m + 1) /\ q = R(m + 1)
    OBVIOUS
  <2>3. d = Take(t, shown, listing, 0, c, m + 1) /\ q = Take(t, shown, listing, since, r, m + 1)
    BY <2>1, <2>2, HeldSteps
  <2>4. Alike(c, r)
    BY <1>2, <2>1
  <2>5. /\ c \in 0..m /\ r \in 0..m
        /\ c # 0 => t[c].kind = "commit" /\ t[c].listing = listing
        /\ r # 0 => t[r].block >= since
    BY <2>1, HeldMeans
  <2>6. Alike(d, q)
    <3> DEFINE i == m + 1
               ForIt == i \in shown /\ t[i].kind = "commit" /\ t[i].listing = listing
    <3>1. i \in 1..n /\ i # 0 /\ t[i].block \in Nat /\ CommitTtl \in Nat
      BY LightAssumption
    <3>2. /\ c # 0 => c \in 1..n /\ t[c].block \in Nat /\ t[c].block <= t[i].block
          /\ r # 0 => r \in 1..n /\ t[r].block \in Nat /\ t[r].block <= t[i].block
      BY <2>5, <3>1
    <3>3. d = IF ForIt /\ ~(c # 0 /\ t[c].block + CommitTtl >= t[i].block) THEN i ELSE c
      BY <2>3, <3>1 DEF Take
    <3>4. q = IF ForIt /\ t[i].block >= since /\ ~(r # 0 /\ t[r].block + CommitTtl >= t[i].block)
              THEN i ELSE r
      BY <2>3 DEF Take
    <3> HIDE DEF i
    <3>5. CASE ~ForIt
      BY <2>4, <3>3, <3>4, <3>5
    <3>6. CASE ForIt /\ t[i].block < since
      <4>1. r = 0
        BY <2>5, <3>1, <3>2, <3>6
      <4>2. q = 0
        BY <3>1, <3>4, <3>6, <4>1
      <4>3. c # 0 => t[c].block < since
        BY <3>1, <3>2, <3>6
      <4> QED
        BY <3>1, <3>3, <3>6, <4>2, <4>3
    <3>7. CASE ForIt /\ t[i].block >= since
      <4>1. CASE c = r
        BY <3>3, <3>4, <3>7, <4>1
      <4>2. CASE c # r
        <5>1. r = 0 /\ c # 0 /\ t[c].block < since
          BY <2>4, <4>2
        <5>2. t[c].block + CommitTtl < t[i].block
          BY <2>5, <3>1, <3>2, <3>7, <5>1
        <5>3. ~(t[c].block + CommitTtl >= t[i].block)
          BY <3>1, <3>2, <5>1, <5>2
        <5> QED
          BY <3>3, <3>4, <3>7, <5>1, <5>3
      <4> QED
        BY <4>1, <4>2
    <3> QED
      BY <3>1, <3>5, <3>6, <3>7
  <2> QED
    BY <2>2, <2>6
<1> HIDE DEF S
<1>3. n \in S
  BY <1>1, <1>2, SetInduction
<1> QED
  BY <1>3 DEF S
-----------------------------------------------------------------------------
(* The legs of a price, and the transfers that pay them. *)

LEMMA SplitLegs ==
    ASSUME NEW sale, NEW account
    PROVE  LET legs == Split(sale, account)
           IN  /\ IsFiniteSet(legs)
               /\ \A l \in legs : l.leg \in {"seller", "royalty", "fee"}
               /\ \A l, m \in legs : l.leg = m.leg => l = m
               /\ \E s \in legs : s.leg = "seller" /\ s.to = sale.seller
<1>1. PICK a, b, c : Split(sale, account) =
          {Leg("seller", sale.seller, a)}
          \cup {l \in {Leg("royalty", sale.royaltyTo, b), Leg("fee", account, c)} : l.amount > 0}
  BY Zenon DEF Split
<1>2. PICK x, y, z : /\ x = Leg("seller", sale.seller, a) /\ y = Leg("royalty", sale.royaltyTo, b)
                     /\ z = Leg("fee", account, c)
  OBVIOUS
<1>3. x.leg = "seller" /\ x.to = sale.seller /\ y.leg = "royalty" /\ z.leg = "fee"
  BY <1>2 DEF Leg
<1>4. PICK legs : legs = Split(sale, account)
  OBVIOUS
<1>5. x \in legs /\ legs \subseteq {x, y, z}
  BY <1>1, <1>2, <1>4
<1>6. IsFiniteSet({x} \cup {y} \cup {z})
  BY FS_Singleton, FS_Union
<1>7. {x, y, z} = {x} \cup {y} \cup {z}
  OBVIOUS
<1>8. IsFiniteSet(legs)
  BY <1>5, <1>6, <1>7, FS_Subset
<1>9. /\ \A l \in legs : l.leg \in {"seller", "royalty", "fee"}
      /\ \A l, m \in legs : l.leg = m.leg => l = m
  BY <1>3, <1>5
<1> QED
  BY <1>3, <1>4, <1>5, <1>8, <1>9

\* Every leg is paid; every transfer pays a leg.
AllPaid(legs, paid, edges, payer, currency) ==
    \A l \in legs : \E i \in edges : paid[i] = Paying(payer, l, currency)
OnlyPays(legs, paid, edges, payer, currency) ==
    \A i \in edges : \E l \in legs : paid[i] = Paying(payer, l, currency)

\* As many transfers as legs, and each leg paid once: no transfer is anything else.
LEMMA AllPaying ==
    ASSUME NEW legs, IsFiniteSet(legs), \A l, m \in legs : l.leg = m.leg => l = m,
           NEW edges, IsFiniteSet(edges), Cardinality(edges) = Cardinality(legs),
           NEW paid, NEW payer, NEW currency,
           AllPaid(legs, paid, edges, payer, currency)
    PROVE  OnlyPays(legs, paid, edges, payer, currency)
<1> DEFINE f == [l \in legs |-> CHOOSE i \in edges : paid[i] = Paying(payer, l, currency)]
<1>1. ASSUME NEW l \in legs PROVE f[l] \in edges /\ paid[f[l]] = Paying(payer, l, currency)
  BY Zenon DEF AllPaid
<1>2. f \in [legs -> edges]
  BY <1>1
<1>3. \A l \in legs : paid[f[l]].memo = l.leg
  BY <1>1 DEF Paying
<1> HIDE DEF f
<1>4. \A l, m \in legs : f[l] = f[m] => l = m
  BY <1>3
<1>5. f \in Injection(legs, edges)
  BY <1>2, <1>4 DEF Injection, IsInjective
<1>6. f \in Surjection(legs, edges)
  BY <1>5, FS_Injection
<1>7. \A i \in edges : \E l \in legs : f[l] = i
  BY <1>6 DEF Surjection
<1> QED
  BY <1>1, <1>7 DEF OnlyPays

LEMMA OnlyOne ==
    ASSUME NEW S, IsFiniteSet(S)
    PROVE  Cardinality(S) = 1 <=> \E x \in S : \A y \in S : y = x
<1>1. Cardinality(S) = 1 <=> \E x : S = {x}
  BY FS_Singleton
<1> QED
  BY <1>1

LEMMA LegsAre ==
    ASSUME NEW listing, NEW node
    PROVE  /\ IsFiniteSet(LegsOf(listing, node))
           /\ \A l \in LegsOf(listing, node) : l.leg \in {"seller", "royalty", "fee"}
           /\ \A l, m \in LegsOf(listing, node) : l.leg = m.leg => l = m
           /\ \E s \in LegsOf(listing, node) : s.leg = "seller" /\ s.to = trail[listing].signer
<1>1. PICK sale : sale = [price |-> trail[listing].price.amount, royalty |-> given.home.royalty,
                          royaltyTo |-> given.home.royaltyTo, seller |-> trail[listing].signer]
  OBVIOUS
<1>2. sale.seller = trail[listing].signer
  BY <1>1
<1>3. LegsOf(listing, node) = Split(sale, node)
  BY <1>1, Zenon DEF LegsOf
<1> QED
  BY <1>2, <1>3, SplitLegs

LEMMA TransfersAre ==
    ASSUME NEW paid, AreTransfers(paid)
    PROVE  /\ DOMAIN paid \in SUBSET Nat /\ IsFiniteSet(DOMAIN paid)
           /\ \A i \in DOMAIN paid :
                 paid[i] = Paying(paid[i].from, Leg(paid[i].memo, paid[i].to, paid[i].amount),
                                  paid[i].currency)
<1>1. PICK S : paid \in Seq(S)
  BY Zenon DEF AreTransfers
<1>2. PICK n \in Nat : DOMAIN paid = 1..n
  BY <1>1
<1>3. \A i \in DOMAIN paid : paid[i] \in {paid[j] : j \in DOMAIN paid}
  OBVIOUS
<1>4. \A i \in DOMAIN paid :
         paid[i] = Paying(paid[i].from, Leg(paid[i].memo, paid[i].to, paid[i].amount),
                          paid[i].currency)
  BY <1>3, Zenon DEF AreTransfers
<1> QED
  BY <1>2, <1>4, FS_Interval

LEMMA TermsAre ==
    ASSUME given \in SaleTerms
    PROVE  AreTransfers(given.home.fees) /\ \A tx \in BuyTxs : AreTransfers(given.paid[tx])
BY TermsAssumption, Zenon

\* The seller's leg, and the transfers that look like it.
SoldIn(paid, s, currency) == {i \in DOMAIN paid : paid[i] = Paying(paid[i].from, s, currency)}

LEMMA PaidForMeans ==
    ASSUME NEW tx, NEW listing, NEW s \in LegsOf(listing, tx.node), s.leg = "seller"
    PROVE  PaidFor(tx, listing) <=>
              LET sold == SoldIn(given.paid[tx], s, trail[listing].price.currency)
              IN  /\ Cardinality(sold) = 1
                  /\ \A i \in sold :
                        /\ given.paid[tx][i].from = tx.buyer
                        /\ \A leg \in LegsOf(listing, tx.node) :
                              Cardinality(Paid(given.paid[tx], given.paid[tx][i].from, leg,
                                               trail[listing].price.currency)) = 1
<1>1. \A l, m \in LegsOf(listing, tx.node) : l.leg = m.leg => l = m
  BY LegsAre
<1>2. (CHOOSE leg \in LegsOf(listing, tx.node) : leg.leg = "seller") = s
  BY <1>1, Zenon
<1> QED
  BY <1>2, Zenon DEF PaidFor, SoldIn

LEMMA EdgesAre ==
    ASSUME given \in SaleTerms, NEW tx \in BuyTxs
    PROVE  /\ IsFiniteSet(Edges(tx)) /\ Edges(tx) \in SUBSET Nat
           /\ ToSeller(tx) \in SUBSET Edges(tx)
           /\ ToSeller(tx) # {} => /\ Min(ToSeller(tx)) \in ToSeller(tx)
                                   /\ SellerEdge(tx) = given.paid[tx][Min(ToSeller(tx))]
<1>1. Edges(tx) \in SUBSET DOMAIN given.paid[tx] /\ ToSeller(tx) \in SUBSET Edges(tx)
  BY DEF Edges, ToSeller
<1>2. DOMAIN given.paid[tx] \in SUBSET Nat /\ IsFiniteSet(DOMAIN given.paid[tx])
  BY TermsAre, TransfersAre
<1>3. IsFiniteSet(Edges(tx)) /\ ToSeller(tx) \in SUBSET Nat
  BY <1>1, <1>2, FS_Subset
<1> QED
  BY <1>1, <1>2, <1>3, LowestOf DEF SellerEdge

\* A transfer that pays a leg is one of the sale's.
LEMMA PayingIsEdge ==
    ASSUME NEW tx, NEW listing, NEW leg \in LegsOf(listing, tx.node), NEW payer, NEW currency
    PROVE  Paid(given.paid[tx], payer, leg, currency) \subseteq Edges(tx)
<1>1. leg.leg \in {"seller", "royalty", "fee"}
  BY LegsAre
<1>2. Paying(payer, leg, currency).memo = leg.leg
  BY DEF Paying
<1> QED
  BY <1>1, <1>2 DEF Paid, Edges

\* Each leg paid once by one account, and no other transfer: they are its payments.
PaidOnce(tx, listing, payer, currency) ==
    \A leg \in LegsOf(listing, tx.node) : Cardinality(Paid(given.paid[tx], payer, leg, currency)) = 1

LEMMA EdgesPay ==
    ASSUME given \in SaleTerms, NEW tx \in BuyTxs, NEW listing, NEW payer, NEW currency,
           Cardinality(Edges(tx)) = Cardinality(LegsOf(listing, tx.node)),
           PaidOnce(tx, listing, payer, currency)
    PROVE  OnlyPays(LegsOf(listing, tx.node), given.paid[tx], Edges(tx), payer, currency)
<1>1. PICK legs : legs = LegsOf(listing, tx.node)
  OBVIOUS
<1>2. IsFiniteSet(legs)
  BY <1>1, LegsAre
<1>3. \A l, m \in legs : l.leg = m.leg => l = m
  BY <1>1, LegsAre
<1>4. IsFiniteSet(Edges(tx))
  BY EdgesAre
<1>5. ASSUME NEW leg \in legs
      PROVE  \E i \in Edges(tx) : given.paid[tx][i] = Paying(payer, leg, currency)
  <2>1. PICK S : S = Paid(given.paid[tx], payer, leg, currency)
    OBVIOUS
  <2>2. S \subseteq Edges(tx)
    BY <1>1, <2>1, PayingIsEdge
  <2>3. Cardinality(S) = 1
    BY <1>1, <2>1 DEF PaidOnce
  <2>4. IsFiniteSet(S)
    BY <1>4, <2>2, FS_Subset
  <2>5. PICK i \in S : TRUE
    BY <2>3, <2>4, OnlyOne
  <2> QED
    BY <2>1, <2>2, <2>5 DEF Paid
<1>6. Cardinality(Edges(tx)) = Cardinality(legs)
  BY <1>1
<1>7. PICK paid, edges : paid = given.paid[tx] /\ edges = Edges(tx)
  OBVIOUS
<1>8. OnlyPays(legs, paid, edges, payer, currency)
  <2>1. AllPaid(legs, paid, edges, payer, currency)
    BY <1>5, <1>7 DEF AllPaid
  <2>2. IsFiniteSet(edges)
    BY <1>4, <1>7
  <2>3. Cardinality(edges) = Cardinality(legs)
    BY <1>6, <1>7
  <2> QED
    BY <1>2, <1>3, <2>1, <2>2, <2>3, AllPaying
<1> QED
  BY <1>1, <1>7, <1>8

\* What convinces the client of the payments convinces the ledger.
LEMMA ConvincedIsPaid ==
    ASSUME given \in SaleTerms, NEW b \in Buys, trail[b].tx \in BuyTxs, NEW shown,
           Convincing(b, shown)
    PROVE  PaidFor(trail[b].tx, trail[b].listing)
<1>1. PICK tx, listing, legs, paid, currency, payer :
         /\ tx = trail[b].tx /\ listing = trail[b].listing /\ legs = LegsOf(listing, tx.node)
         /\ paid = given.paid[tx] /\ currency = trail[listing].price.currency
         /\ payer = SellerEdge(tx).from
  OBVIOUS
<1>2. /\ payer = tx.buyer
      /\ Cardinality(Edges(tx)) = Cardinality(legs)
      /\ \A leg \in legs : Cardinality(Edges(tx) \cap Paid(paid, payer, leg, currency)) = 1
  <2>1. CommitmentWon(b, shown) /\ PaymentsMatch(b)
    BY Zenon DEF Convincing, SaleResolved
  <2>2. payer = tx.buyer
    BY <1>1, <2>1 DEF CommitmentWon
  <2> QED
    BY <1>1, <2>1, <2>2, Zenon DEF PaymentsMatch
<1>3. \A leg \in legs : Cardinality(Paid(paid, payer, leg, currency)) = 1
  <2> TAKE leg \in legs
  <2>1. PICK S : S = Paid(paid, payer, leg, currency)
    OBVIOUS
  <2>2. S \subseteq Edges(tx)
    BY <1>1, <2>1, PayingIsEdge
  <2>3. Edges(tx) \cap S = S
    BY <2>2
  <2>4. Cardinality(Edges(tx) \cap S) = 1
    BY <1>2, <2>1
  <2> QED
    BY <2>1, <2>3, <2>4
<1>4. \A i \in Edges(tx) : \E leg \in legs : paid[i] = Paying(payer, leg, currency)
  <2>1. tx \in BuyTxs
    BY <1>1
  <2>2. Cardinality(Edges(tx)) = Cardinality(LegsOf(listing, tx.node))
    BY <1>1, <1>2
  <2>3. PaidOnce(tx, listing, payer, currency)
    BY <1>1, <1>3 DEF PaidOnce
  <2>4. OnlyPays(legs, paid, Edges(tx), payer, currency)
    BY <1>1, <2>1, <2>2, <2>3, EdgesPay
  <2> QED
    BY <2>4 DEF OnlyPays
<1>5. PICK s \in legs : s.leg = "seller"
  BY <1>1, LegsAre
<1>6. \A l, m \in legs : l.leg = m.leg => l = m
  BY <1>1, LegsAre
<1>7. SoldIn(paid, s, currency) = Paid(paid, payer, s, currency)
  <2>1. ASSUME NEW i \in SoldIn(paid, s, currency) PROVE i \in Paid(paid, payer, s, currency)
    <3>1. i \in DOMAIN paid /\ paid[i] = Paying(paid[i].from, s, currency)
      BY DEF SoldIn
    <3>2. paid[i].memo = "seller"
      BY <1>5, <3>1 DEF Paying
    <3>3. i \in Edges(tx)
      BY <1>1, <3>1, <3>2 DEF Edges
    <3>4. PICK leg \in legs : paid[i] = Paying(payer, leg, currency)
      BY <1>4, <3>3
    <3>5. leg.leg = "seller"
      BY <3>2, <3>4 DEF Paying
    <3>6. leg = s
      BY <1>5, <1>6, <3>5
    <3> QED
      BY <3>1, <3>4, <3>6 DEF Paid
  <2>2. ASSUME NEW i \in Paid(paid, payer, s, currency) PROVE i \in SoldIn(paid, s, currency)
    BY DEF Paid, SoldIn, Paying
  <2> QED
    BY <2>1, <2>2
<1>8. \A i \in SoldIn(paid, s, currency) : paid[i].from = payer
  BY <1>7 DEF Paid, Paying
<1>9. /\ Cardinality(SoldIn(paid, s, currency)) = 1
      /\ \A i \in SoldIn(paid, s, currency) :
            /\ paid[i].from = tx.buyer
            /\ \A leg \in legs : Cardinality(Paid(paid, paid[i].from, leg, currency)) = 1
  BY <1>2, <1>3, <1>5, <1>7, <1>8
<1>10. PaidFor(tx, listing)
  BY <1>1, <1>5, <1>9, PaidForMeans
<1> QED
  BY <1>1, <1>10

\* And the other way round, where there is nothing but the price.
LEMMA PaidConvinces ==
    ASSUME given \in SaleTerms, NEW b \in Buys, trail[b].tx \in BuyTxs, Bare(b),
           PaidFor(trail[b].tx, trail[b].listing)
    PROVE  /\ Readable(trail[b].tx) /\ OnePayer(trail[b].tx) /\ PaymentsMatch(b)
           /\ SellerEdge(trail[b].tx).from = trail[b].tx.buyer
           /\ SellerEdge(trail[b].tx).to = trail[trail[b].listing].signer
<1>1. PICK tx, listing, legs, paid, currency :
         /\ tx = trail[b].tx /\ listing = trail[b].listing /\ legs = LegsOf(listing, tx.node)
         /\ paid = given.paid[tx] /\ currency = trail[listing].price.currency
  OBVIOUS
<1>2. PICK s \in legs : s.leg = "seller" /\ s.to = trail[listing].signer
  BY <1>1, LegsAre
<1>3. \A l, m \in legs : l.leg = m.leg => l = m
  BY <1>1, LegsAre
<1>4. /\ Cardinality(SoldIn(paid, s, currency)) = 1
      /\ \A i \in SoldIn(paid, s, currency) :
            /\ paid[i].from = tx.buyer
            /\ \A leg \in legs : Cardinality(Paid(paid, paid[i].from, leg, currency)) = 1
  BY <1>1, <1>2, PaidForMeans
<1>5. PICK k \in SoldIn(paid, s, currency) : TRUE
  <2>1. IsFiniteSet(SoldIn(paid, s, currency))
    <3>1. IsFiniteSet(DOMAIN paid)
      BY <1>1, TermsAre, TransfersAre
    <3>2. SoldIn(paid, s, currency) \in SUBSET DOMAIN paid
      BY DEF SoldIn
    <3> QED
      BY <3>1, <3>2, FS_Subset
  <2> QED
    BY <1>4, <2>1, OnlyOne
<1>6. \A leg \in legs : Cardinality(Paid(paid, tx.buyer, leg, currency)) = 1
  BY <1>4, <1>5
<1>7. Cardinality(Edges(tx)) = Cardinality(legs)
  BY <1>1 DEF Bare
<1>8. \A i \in Edges(tx) : \E leg \in legs : paid[i] = Paying(tx.buyer, leg, currency)
  <2>5. PICK buyer : buyer = tx.buyer
    OBVIOUS
  <2>1. tx \in BuyTxs
    BY <1>1
  <2>2. Cardinality(Edges(tx)) = Cardinality(LegsOf(listing, tx.node))
    BY <1>1, <1>7
  <2>3. PaidOnce(tx, listing, buyer, currency)
    BY <1>1, <1>6, <2>5 DEF PaidOnce
  <2>4. OnlyPays(legs, paid, Edges(tx), buyer, currency)
    BY <1>1, <2>1, <2>2, <2>3, EdgesPay
  <2> QED
    BY <2>4, <2>5 DEF OnlyPays
<1>9. \A i \in Edges(tx) : paid[i].from = tx.buyer
  <2> TAKE i \in Edges(tx)
  <2>1. PICK leg \in legs : paid[i] = Paying(tx.buyer, leg, currency)
    BY <1>8
  <2> QED
    BY <2>1 DEF Paying
<1>10. \A i \in ToSeller(tx) : paid[i].to = s.to
  <2> TAKE i \in ToSeller(tx)
  <2>1. i \in Edges(tx) /\ paid[i].memo = "seller"
    BY <1>1 DEF ToSeller
  <2>2. PICK leg \in legs : paid[i] = Paying(tx.buyer, leg, currency)
    BY <1>8, <2>1
  <2>3. leg.leg = "seller" /\ paid[i].to = leg.to
    BY <2>1, <2>2 DEF Paying
  <2> QED
    BY <1>2, <1>3, <2>3
<1>11. k \in ToSeller(tx)
  <2>1. k \in DOMAIN paid /\ paid[k].memo = "seller"
    BY <1>2, <1>5 DEF SoldIn, Paying
  <2> QED
    BY <1>1, <2>1 DEF ToSeller, Edges
<1>12. SellerEdge(tx).from = tx.buyer /\ SellerEdge(tx).to = s.to
  <2>1. PICK m : m = Min(ToSeller(tx))
    OBVIOUS
  <2>2. m \in ToSeller(tx) /\ m \in Edges(tx) /\ SellerEdge(tx) = paid[m]
    BY <1>1, <1>11, <2>1, EdgesAre
  <2> QED
    BY <1>9, <1>10, <2>2
<1>13. OnePayer(tx)
  <2>1. {given.paid[tx][i].from : i \in Edges(tx)} = {tx.buyer}
    BY <1>1, <1>9, <1>11 DEF ToSeller
  <2> QED
    BY <2>1, FS_Singleton DEF OnePayer
<1>14. Readable(tx)
  BY <1>11 DEF Readable, ToSeller
<1>15. PaymentsMatch(b)
  <2>1. \A leg \in legs : Cardinality(Edges(tx) \cap Paid(paid, SellerEdge(tx).from, leg, currency)) = 1
    <3> TAKE leg \in legs
    <3>1. PICK S : S = Paid(paid, tx.buyer, leg, currency)
      OBVIOUS
    <3>2. S \subseteq Edges(tx)
      BY <1>1, <3>1, PayingIsEdge
    <3>3. Edges(tx) \cap S = S
      BY <3>2
    <3>4. Cardinality(Edges(tx) \cap S) = 1
      BY <1>6, <3>1, <3>3
    <3> QED
      BY <1>12, <3>1, <3>4
  <2> QED
    BY <1>1, <1>7, <2>1, Zenon DEF PaymentsMatch
<1> QED
  BY <1>1, <1>2, <1>12, <1>13, <1>14, <1>15
-----------------------------------------------------------------------------
(* What the ledger keeps, told by the trail. *)

\* The commitment that holds a listing after n operations, if it lasts to a block.
Standing(t, seen, listing, n, block) ==
    LET c == HeldIn(t, seen, listing, 0, n)
    IN  IF c # 0 /\ t[c].block + CommitTtl >= block THEN c ELSE 0

\* A buy of the transaction that had the asset reserved.
WonAt(t, seen, b) ==
    LET c == Standing(t, seen, t[b].listing, b - 1, t[b].block)
    IN  c # 0 /\ t[c].tx = t[b].tx

\* All places but those of which the ledger knows better.
Seen(hidden) == Nat \ hidden

\* PaidFor, of a list operation.
PaidIn(terms, entry, tx) ==
    LET legs == Split([price |-> entry.price.amount, royalty |-> terms.home.royalty,
                       royaltyTo |-> terms.home.royaltyTo, seller |-> entry.signer], tx.node)
        currency == entry.price.currency
        Seller == CHOOSE leg \in legs : leg.leg = "seller"
        paid == terms.paid[tx]
        sold == {i \in DOMAIN paid : paid[i] = Paying(paid[i].from, Seller, currency)}
    IN  /\ Cardinality(sold) = 1
        /\ \A i \in sold : /\ paid[i].from = tx.buyer
                           /\ \A leg \in legs :
                                 Cardinality(Paid(paid, paid[i].from, leg, currency)) = 1

\* The row rests on the operation it names.
RestsOn(t, row, bought) ==
    LET op == t[row.by]
    IN  \/ /\ op.kind \in {"mint", "distribute"} /\ row.previous = Nobody
           /\ row.owner = IF op.to = Nobody THEN op.signer ELSE op.to
        \/ op.kind \in {"transfer", "batch_transfer"} /\ row.owner = op.to /\ row.previous = op.signer
        \/ op.kind = "transfer_from" /\ row.owner = op.to /\ row.previous = op.from
        \/ /\ op.kind = "buy" /\ row.by \in bought
           /\ row.owner = op.tx.buyer /\ row.previous = t[op.listing].signer

Ordered(t, top) ==
    /\ \E S : t \in Seq(S)
    /\ \A i \in 1..Len(t) : t[i].block \in Nat /\ t[i].block <= top
    /\ \A i, j \in 1..Len(t) : i <= j => t[i].block <= t[j].block

SaleOp(n, op) ==
    op.kind \in {"commit", "buy"} => op.listing \in 1..n /\ op.tx \in BuyTxs

\* The trail is in the order of the blocks; commitments and purchases are for
\* operations before them.
TrailInv ==
    /\ given \in SaleTerms /\ height \in Nat /\ Ordered(trail, height)
    /\ \A i \in 1..Len(trail) : SaleOp(i - 1, trail[i])
    /\ unseen \subseteq 1..Len(trail)

\* The listing in force is the owner's, and the commitment that the ledger has
\* for it is the one the trail says.
SaleInv ==
    /\ onSale \in 0..Len(trail) /\ hold \in 0..Len(trail)
    /\ onSale = 0 => hold = 0
    /\ onSale # 0 => /\ Born /\ trail[onSale].kind = "list" /\ trail[onSale].signer = title.owner
                     /\ trail[onSale].ends \in Nat
                     /\ hold = Standing(trail, Seen(unseen), onSale, Len(trail), height)

\* Of the purchases that were for the listing in force and by an active node, the
\* ledger settled those that had the asset and paid its price.
BuyJudged(t, terms, seen, bought, b) ==
    /\ t[t[b].listing].kind = "list"
    /\ b \in bought <=> WonAt(t, seen, b) /\ PaidIn(terms, t[t[b].listing], t[b].tx)

SettledInv ==
    /\ settled \subseteq 1..Len(trail) /\ settled \cap unseen = {}
    /\ \A b \in 1..Len(trail) : trail[b].kind = "buy" /\ b \notin unseen
          => BuyJudged(trail, given, Seen(unseen), settled, b)

\* The row, and the collection that must have been there before it.
TitleInv ==
    /\ title.by \in 0..Len(trail)
    /\ Len(trail) # 0 => Born
    /\ Born => Founded(given.home) /\ RestsOn(trail, title, settled)

LightInv == TrailInv /\ SaleInv /\ SettledInv /\ TitleInv

LEMMA PaidForIs ==
    ASSUME NEW tx, NEW listing
    PROVE  PaidFor(tx, listing) = PaidIn(given, trail[listing], tx)
BY Zenon DEF PaidFor, PaidIn, LegsOf

\* One more operation.
Grown(t, u, op) ==
    /\ Len(t) \in Nat /\ Len(u) = Len(t) + 1 /\ u[Len(t) + 1] = op
    /\ \A i \in 1..Len(t) : u[i] = t[i]

LEMMA OneMore ==
    ASSUME NEW t, NEW u, NEW op, NEW top \in Nat, Ordered(t, top), u = Append(t, op),
           op.block = top
    PROVE  Grown(t, u, op) /\ Ordered(u, top)
<1>1. PICK S : t \in Seq(S)
  BY DEF Ordered
<1>2. PICK T : T = S \cup {op}
  OBVIOUS
<1>3. t \in Seq(T) /\ op \in T
  <2>1. S \subseteq T /\ op \in T
    BY <1>2
  <2>2. PICK n \in Nat : t \in [1..n -> S]
    BY <1>1
  <2>3. t \in [1..n -> T]
    BY <2>1, <2>2
  <2> QED
    BY <2>1, <2>3
<1>4. u \in Seq(T)
  BY <1>3
<1>5. /\ Len(t) \in Nat /\ Len(u) = Len(t) + 1 /\ u[Len(t) + 1] = op
      /\ \A i \in 1..Len(t) : u[i] = t[i]
  BY <1>3
<1>6. PICK n \in Nat : n = Len(t) /\ Len(u) = n + 1
  BY <1>5
<1>7. /\ u[n + 1].block = top
      /\ \A i \in 1..n : u[i] = t[i] /\ t[i].block \in Nat /\ t[i].block <= top
      /\ \A i, j \in 1..n : i <= j => t[i].block <= t[j].block
  BY <1>5, <1>6 DEF Ordered
<1>8. \A i \in 1..(n + 1) : i \in 1..n \/ i = n + 1
  OBVIOUS
<1>9. \A i \in 1..(n + 1) : u[i].block \in Nat /\ u[i].block <= top
  <2> TAKE i \in 1..(n + 1)
  <2>1. CASE i \in 1..n
    BY <1>7, <2>1
  <2>2. CASE i = n + 1
    <3>1. u[i].block = top
      BY <1>7, <2>2, Zenon
    <3> QED
      BY <3>1
  <2> QED
    BY <1>8, <2>1, <2>2
<1>10. \A i, j \in 1..(n + 1) : i <= j => u[i].block <= u[j].block
  <2> SUFFICES ASSUME NEW i \in 1..(n + 1), NEW j \in 1..(n + 1), i <= j
               PROVE  u[i].block <= u[j].block
    OBVIOUS
  <2>1. CASE j \in 1..n
    <3>1. i \in 1..n
      BY <2>1
    <3>2. t[i].block <= t[j].block /\ u[i] = t[i] /\ u[j] = t[j]
      BY <1>7, <2>1, <3>1
    <3> QED
      BY <3>2
  <2>2. CASE j = n + 1
    BY <1>7, <1>9, <2>2
  <2> QED
    BY <1>8, <2>1, <2>2
<1> QED
  BY <1>4, <1>5, <1>6, <1>9, <1>10 DEF Ordered, Grown

\* Who holds a listing does not change with operations that are not for it.
LEMMA StandingSame ==
    ASSUME NEW t, NEW u, NEW n \in Nat, NEW seen, NEW also,
           \A i \in 1..n : u[i] = t[i] /\ (i \in also <=> i \in seen),
           NEW listing, NEW block
    PROVE  Standing(u, also, listing, n, block) = Standing(t, seen, listing, n, block)
<1>1. HeldIn(u, also, listing, 0, n) = HeldIn(t, seen, listing, 0, n)
  BY HeldSame
<1>2. PICK c : c = HeldIn(t, seen, listing, 0, n)
  OBVIOUS
<1>3. c \in 0..n
  BY <1>2, HeldMeans
<1>4. c # 0 => u[c] = t[c]
  BY <1>3
<1> QED
  BY <1>1, <1>2, <1>4, Zenon DEF Standing

LEMMA StandingType ==
    ASSUME NEW t, NEW seen, NEW listing, NEW n \in Nat, NEW block
    PROVE  Standing(t, seen, listing, n, block) \in 0..n
BY HeldMeans DEF Standing

LEMMA StandingGrows ==
    ASSUME NEW t, NEW u, NEW op, Grown(t, u, op), NEW listing, NEW block \in Nat,
           NEW seen, NEW also, \A i \in 1..Len(t) : i \in also <=> i \in seen,
           op.block = block,
           \A i \in 1..Len(t) : t[i].block \in Nat
    PROVE  Standing(u, also, listing, Len(u), block) =
              IF op.kind = "commit" /\ op.listing = listing /\ Len(u) \in also
                 /\ Standing(t, seen, listing, Len(t), block) = 0
              THEN Len(u) ELSE Standing(t, seen, listing, Len(t), block)
<1>1. PICK n \in Nat : n = Len(t) /\ Len(u) = n + 1 /\ u[n + 1] = op
  BY DEF Grown
<1>2. \A i \in 1..n : u[i] = t[i]
  BY <1>1 DEF Grown
<1>3. PICK c : c = HeldIn(t, seen, listing, 0, n) /\ c = HeldIn(u, also, listing, 0, n)
  <2>1. \A i \in 1..n : t[i].kind = "commit" /\ t[i].listing = listing /\ t[i].block >= 0
                        => (i \in also <=> i \in seen)
    BY <1>1
  <2>2. HeldIn(u, also, listing, 0, n) = HeldIn(t, seen, listing, 0, n)
    BY <1>2, <2>1, HeldSame
  <2> QED
    BY <2>2
<1>4. PICK d : d = HeldIn(u, also, listing, 0, n + 1)
  OBVIOUS
<1>5. d = Take(u, also, listing, 0, c, n + 1)
  BY <1>3, <1>4, HeldSteps
<1>6. c \in 0..n
  BY <1>3, HeldMeans
<1>7. (c # 0 => u[c] = t[c]) /\ CommitTtl \in Nat
  BY <1>2, <1>6, LightAssumption
<1>8. PICK x, y : x = Standing(t, seen, listing, n, block) /\ y = Standing(u, also, listing, n + 1, block)
  OBVIOUS
<1>9. x = IF c # 0 /\ t[c].block + CommitTtl >= block THEN c ELSE 0
  BY <1>3, <1>8 DEF Standing
<1>10. y = IF d # 0 /\ u[d].block + CommitTtl >= block THEN d ELSE 0
  BY <1>4, <1>8 DEF Standing
<1> DEFINE ForIt == op.kind = "commit" /\ op.listing = listing /\ n + 1 \in also
<1>11. d = IF ForIt /\ ~(c # 0 /\ t[c].block + CommitTtl >= block) THEN n + 1 ELSE c
  BY <1>1, <1>5, <1>7 DEF Take
<1>12. y = IF ForIt /\ x = 0 THEN n + 1 ELSE x
  <2>1. c # 0 => c \in 1..n /\ t[c].block \in Nat
    BY <1>1, <1>6
  <2>2. n + 1 # 0
    OBVIOUS
  <2>3. u[n + 1].block = block /\ block + CommitTtl >= block
    BY <1>1, <1>7
  <2> HIDE DEF ForIt
  <2>4. CASE d = n + 1
    <3>1. y = n + 1
      BY <1>10, <2>2, <2>3, <2>4
    <3>2. ForIt /\ ~(c # 0 /\ t[c].block + CommitTtl >= block)
      BY <1>6, <1>11, <2>4
    <3> QED
      BY <1>9, <3>1, <3>2
  <2>5. CASE d # n + 1
    <3>1. d = c /\ ~(ForIt /\ ~(c # 0 /\ t[c].block + CommitTtl >= block))
      BY <1>11, <2>5
    <3>2. y = x
      BY <1>7, <1>9, <1>10, <3>1
    <3> QED
      BY <1>9, <3>1, <3>2
  <2> QED
    BY <2>4, <2>5
<1> QED
  BY <1>1, <1>8, <1>12

\* Nobody holds a listing that has just begun.
LEMMA StandingNew ==
    ASSUME NEW t, NEW seen, NEW n \in Nat, NEW block, t[n + 1].kind = "list",
           \A i \in 1..n : SaleOp(i - 1, t[i])
    PROVE  Standing(t, seen, n + 1, n + 1, block) = 0
<1>1. ASSUME NEW i \in 1..(n + 1) PROVE ~(t[i].kind = "commit" /\ t[i].listing = n + 1)
  <2>1. CASE i = n + 1
    BY <2>1
  <2>2. CASE i \in 1..n
    BY <2>2 DEF SaleOp
  <2> QED
    BY <2>1, <2>2
<1>2. PICK m \in Nat : m = n + 1
  OBVIOUS
<1>3. HeldIn(t, seen, m, 0, m) = 0
  BY <1>1, <1>2, HeldNone
<1> QED
  BY <1>2, <1>3 DEF Standing
-----------------------------------------------------------------------------
(* Each step of the ledger. *)

LEMMA LightInvInit == LightInit => LightInv
<1> SUFFICES ASSUME LightInit PROVE LightInv
  OBVIOUS
<1>1. /\ given \in SaleTerms /\ height = 1 /\ trail = <<>> /\ onSale = 0 /\ hold = 0 /\ settled = {}
      /\ unseen = {} /\ title.by = 0
  BY DEF LightInit
<1>2. trail \in Seq({}) /\ Len(trail) = 0
  BY <1>1
<1>3. Ordered(trail, height)
  BY <1>2 DEF Ordered
<1> QED
  BY <1>1, <1>2, <1>3 DEF LightInv, TrailInv, SaleInv, SettledInv, TitleInv, Born

\* Whatever the ledger refuses is the last operation.
LEMMA SeenSame ==
    ASSUME NEW n \in Nat, NEW hidden, NEW more, hidden \subseteq more,
           more \subseteq hidden \cup {n + 1}
    PROVE  \A i \in 1..n : i \in Seen(more) <=> i \in Seen(hidden)
BY DEF Seen

LEMMA RecordedKeepsTrail ==
    ASSUME TrailInv, NEW op, Recorded(op), op.block = height, UNCHANGED <<given, height>>,
           SaleOp(Len(trail), op), unseen' \subseteq unseen \cup {Len(trail) + 1}
    PROVE  TrailInv' /\ Grown(trail, trail', op)
<1>1. PICK u : u = trail'
  OBVIOUS
<1>2. Grown(trail, u, op) /\ Ordered(u, height)
  <2>1. u = Append(trail, op)
    BY <1>1 DEF Recorded
  <2>2. height \in Nat /\ Ordered(trail, height)
    BY DEF TrailInv
  <2> QED
    BY <2>1, <2>2, OneMore
<1>3. PICK n \in Nat : /\ n = Len(trail) /\ Len(u) = n + 1 /\ u[n + 1] = op
                       /\ \A i \in 1..n : u[i] = trail[i] /\ SaleOp(i - 1, trail[i])
                       /\ unseen \subseteq 1..n
  BY <1>2 DEF Grown, TrailInv
<1>4. ASSUME NEW i \in 1..(n + 1) PROVE SaleOp(i - 1, u[i])
  <2>1. CASE i \in 1..n
    BY <1>3, <2>1
  <2>2. CASE i = n + 1
    BY <1>3, <2>2
  <2> QED
    BY <2>1, <2>2
<1>5. TrailInv'
  <2>1. given' \in SaleTerms /\ height' \in Nat
    BY DEF TrailInv
  <2>2. Ordered(trail', height')
    BY <1>1, <1>2
  <2>3. \A i \in 1..Len(trail') : SaleOp(i - 1, trail'[i])
    BY <1>1, <1>3, <1>4
  <2>4. unseen' \subseteq 1..Len(trail')
    BY <1>1, <1>3
  <2> QED
    BY <2>1, <2>2, <2>3, <2>4 DEF TrailInv
<1> QED
  BY <1>1, <1>2, <1>5

\* A buy is judged by what came before it.
LEMMA WonSame ==
    ASSUME NEW t, NEW u, NEW seen, NEW also, NEW b \in Nat, b # 0,
           \A i \in 1..b : u[i] = t[i] /\ (i \in also <=> i \in seen)
    PROVE  WonAt(u, also, b) <=> WonAt(t, seen, b)
<1>1. b - 1 \in Nat /\ b \in 1..b /\ \A i \in 1..(b - 1) : i \in 1..b
  OBVIOUS
<1>2. PICK c : c = Standing(t, seen, t[b].listing, b - 1, t[b].block)
  OBVIOUS
<1>3. c \in 0..(b - 1)
  BY <1>1, <1>2, StandingType
<1>4. c = Standing(u, also, u[b].listing, b - 1, u[b].block)
  <2>1. \A i \in 1..(b - 1) : u[i] = t[i] /\ (i \in also <=> i \in seen)
    BY <1>1
  <2>2. Standing(u, also, t[b].listing, b - 1, t[b].block) =
           Standing(t, seen, t[b].listing, b - 1, t[b].block)
    BY <1>1, <2>1, StandingSame
  <2> QED
    BY <1>1, <1>2, <2>2
<1>5. u[b] = t[b] /\ (c # 0 => u[c] = t[c])
  BY <1>1, <1>3
<1> QED
  BY <1>2, <1>4, <1>5, Zenon DEF WonAt

LEMMA RecordedKeepsSettled ==
    ASSUME TrailInv, SettledInv, NEW op, Grown(trail, trail', op), given' = given,
           SaleOp(Len(trail), op), settled \subseteq settled',
           settled' \subseteq settled \cup {Len(trail) + 1},
           unseen \subseteq unseen', unseen' \subseteq unseen \cup {Len(trail) + 1},
           Len(trail) + 1 \in settled' => Len(trail) + 1 \notin unseen',
           op.kind = "buy" /\ Len(trail) + 1 \notin unseen' =>
              /\ trail[op.listing].kind = "list"
              /\ Len(trail) + 1 \in settled' <=>
                    /\ WonAt(trail', Seen(unseen'), Len(trail) + 1)
                    /\ PaidIn(given, trail[op.listing], op.tx)
    PROVE  SettledInv'
<1>1. PICK u, bought, more : u = trail' /\ bought = settled' /\ more = unseen'
  OBVIOUS
<1>2. PICK n \in Nat : /\ n = Len(trail) /\ Len(u) = n + 1 /\ u[n + 1] = op
                       /\ \A i \in 1..n : u[i] = trail[i]
  BY <1>1 DEF Grown
<1>3. /\ bought \subseteq 1..(n + 1) /\ \A b \in 1..n : b \in bought <=> b \in settled
      /\ \A b \in 1..n : b \in more <=> b \in unseen
      /\ settled \cap unseen = {}
  BY <1>1, <1>2 DEF SettledInv
<1>4. bought \cap more = {}
  <2>1. n + 1 \in bought => n + 1 \notin more
    BY <1>1, <1>2
  <2>2. \A b \in 1..(n + 1) : b \in 1..n \/ b = n + 1
    BY <1>2
  <2> QED
    BY <1>3, <2>1, <2>2
<1>5. \A i \in 1..n : i \in Seen(more) <=> i \in Seen(unseen)
  <2>1. unseen \subseteq more /\ more \subseteq unseen \cup {n + 1}
    BY <1>1, <1>2
  <2> QED
    BY <2>1, SeenSame
<1>6. ASSUME NEW b \in 1..(n + 1), u[b].kind = "buy", b \notin more
      PROVE  BuyJudged(u, given, Seen(more), bought, b)
  <2>1. CASE b = n + 1
    <3>1. op.kind = "buy" /\ u[b] = op
      BY <1>2, <1>6, <2>1
    <3>2. op.listing \in 1..n
      BY <1>2, <3>1 DEF SaleOp
    <3>3. u[op.listing] = trail[op.listing]
      BY <1>2, <3>2
    <3>4. /\ trail[op.listing].kind = "list"
          /\ n + 1 \in bought <=> WonAt(u, Seen(more), n + 1) /\ PaidIn(given, trail[op.listing], op.tx)
      BY <1>1, <1>2, <1>6, <2>1, <3>1
    <3> QED
      BY <2>1, <3>1, <3>3, <3>4, Zenon DEF BuyJudged
  <2>2. CASE b \in 1..n
    <3>1. u[b] = trail[b] /\ trail[b].kind = "buy" /\ b \notin unseen
      BY <1>2, <1>3, <1>6, <2>2
    <3>2. b \in Nat /\ b # 0 /\ \A i \in 1..b : u[i] = trail[i] /\ (i \in Seen(more) <=> i \in Seen(unseen))
      BY <1>2, <1>5, <2>2
    <3>3. WonAt(u, Seen(more), b) <=> WonAt(trail, Seen(unseen), b)
      BY <3>2, WonSame
    <3>4. SaleOp(b - 1, trail[b])
      BY <1>2, <2>2 DEF TrailInv
    <3>5. trail[b].listing \in 1..(b - 1)
      BY <3>1, <3>4 DEF SaleOp
    <3>6. u[trail[b].listing] = trail[trail[b].listing]
      BY <3>2, <3>5
    <3>7. BuyJudged(trail, given, Seen(unseen), settled, b)
      BY <1>2, <2>2, <3>1 DEF SettledInv
    <3>8. b \in bought <=> b \in settled
      BY <1>3, <2>2
    <3> QED
      BY <3>1, <3>3, <3>6, <3>7, <3>8, Zenon DEF BuyJudged
  <2> QED
    BY <2>1, <2>2
<1>7. settled' \subseteq 1..Len(trail') /\ settled' \cap unseen' = {}
  BY <1>1, <1>2, <1>3, <1>4
<1>8. \A b \in 1..Len(trail') : trail'[b].kind = "buy" /\ b \notin unseen'
         => BuyJudged(trail', given', Seen(unseen'), settled', b)
  BY <1>1, <1>2, <1>6
<1>9. SettledInv'
  BY <1>7, <1>8 DEF SettledInv
<1> QED
  BY <1>9

LEMMA RestsOnKeeps ==
    ASSUME NEW t, NEW u, NEW op, Grown(t, u, op), NEW row, NEW bought, NEW more,
           bought \subseteq more, row.by \in 1..Len(t), SaleOp(row.by - 1, t[row.by]),
           RestsOn(t, row, bought)
    PROVE  RestsOn(u, row, more)
<1>1. PICK e : e = t[row.by] /\ e = u[row.by]
  BY DEF Grown
<1>2. e.kind = "buy" => u[e.listing] = t[e.listing]
  <2> SUFFICES ASSUME e.kind = "buy" PROVE u[e.listing] = t[e.listing]
    OBVIOUS
  <2>1. e.listing \in 1..(row.by - 1)
    BY <1>1 DEF SaleOp
  <2>2. e.listing \in 1..Len(t)
    BY <2>1 DEF Grown
  <2> QED
    BY <2>2 DEF Grown
<1> QED
  BY <1>1, <1>2 DEF RestsOn

\* An operation that does not change the row.
LEMMA TitleKept ==
    ASSUME TrailInv, TitleInv, NEW op, Grown(trail, trail', op), UNCHANGED <<given, title>>,
           settled \subseteq settled', Born
    PROVE  TitleInv'
<1>1. PICK n \in Nat : n = Len(trail) /\ Len(trail') = n + 1
  BY DEF Grown
<1>2. title.by \in 1..Len(trail)
  BY <1>1 DEF TitleInv, Born
<1>3. SaleOp(title.by - 1, trail[title.by])
  BY <1>2 DEF TrailInv
<1>4. RestsOn(trail, title, settled)
  BY DEF TitleInv
<1>5. RestsOn(trail', title, settled')
  BY <1>2, <1>3, <1>4, RestsOnKeeps
<1>6. Founded(given.home)
  BY DEF TitleInv
<1>7. title'.by \in 0..Len(trail') /\ Born' /\ Founded(given'.home) /\ RestsOn(trail', title', settled')
  BY <1>1, <1>2, <1>5, <1>6 DEF Born
<1> QED
  BY <1>7 DEF TitleInv

\* The listing and who holds it, after an operation that leaves the listing alone.
LEMMA SaleKept ==
    ASSUME TrailInv, SaleInv, NEW op, Grown(trail, trail', op), op.block = height,
           UNCHANGED <<height, title, onSale>>, onSale # 0,
           unseen \subseteq unseen', unseen' \subseteq unseen \cup {Len(trail) + 1},
           hold' = IF /\ op.kind = "commit" /\ op.listing = onSale
                      /\ Len(trail) + 1 \notin unseen' /\ hold = 0
                   THEN Len(trail) + 1 ELSE hold
    PROVE  SaleInv'
<1>1. PICK n \in Nat : n = Len(trail) /\ Len(trail') = n + 1 /\ \A i \in 1..n : trail'[i] = trail[i]
  BY DEF Grown
<1>2. /\ onSale \in 1..n /\ hold \in 0..n /\ Born /\ trail[onSale].kind = "list"
      /\ trail[onSale].signer = title.owner /\ trail[onSale].ends \in Nat
      /\ hold = Standing(trail, Seen(unseen), onSale, n, height)
  BY <1>1 DEF SaleInv
<1>3. height \in Nat /\ \A i \in 1..Len(trail) : trail[i].block \in Nat
  BY DEF TrailInv, Ordered
<1>4. PICK l, h, seen, also : l = onSale /\ h = height /\ seen = Seen(unseen) /\ also = Seen(unseen')
  OBVIOUS
<1>5. Standing(trail', also, l, Len(trail'), h) =
         IF op.kind = "commit" /\ op.listing = l /\ Len(trail') \in also
            /\ Standing(trail, seen, l, Len(trail), h) = 0
         THEN Len(trail') ELSE Standing(trail, seen, l, Len(trail), h)
  <2>1. \A i \in 1..Len(trail) : i \in also <=> i \in seen
    <3>1. unseen' \subseteq unseen \cup {n + 1}
      BY <1>1
    <3>2. \A i \in 1..n : i \in Seen(unseen') <=> i \in Seen(unseen)
      BY <3>1, SeenSame
    <3> QED
      BY <1>1, <1>4, <3>2
  <2>2. h \in Nat /\ op.block = h
    BY <1>3, <1>4
  <2> QED
    BY <1>3, <2>1, <2>2, StandingGrows
<1>6. Len(trail') \in also <=> Len(trail) + 1 \notin unseen'
  BY <1>1, <1>4 DEF Seen
<1>7. hold' = Standing(trail', Seen(unseen'), onSale', Len(trail'), height')
  <2>1. Len(trail') = Len(trail) + 1 /\ hold = Standing(trail, seen, l, Len(trail), h)
    BY <1>1, <1>2, <1>4
  <2>2. hold' = Standing(trail', also, l, Len(trail'), h)
    BY <1>4, <1>5, <1>6, <2>1, Zenon
  <2> QED
    BY <1>4, <2>2
<1>8. onSale' \in 1..n /\ hold' \in 0..(n + 1) /\ trail'[onSale'] = trail[onSale]
  BY <1>1, <1>2
<1>9. Born'
  BY <1>2 DEF Born
<1> QED
  BY <1>1, <1>2, <1>7, <1>8, <1>9 DEF SaleInv

LEMMA OriginateKeeps ==
    ASSUME LightInv, given' = given,
           NEW kind \in {"mint", "distribute"}, NEW s, NEW named, Originate(kind, s, named)
    PROVE  LightInv'
<1>1. PICK op : op = [kind |-> kind, signer |-> s, to |-> named, block |-> height]
  OBVIOUS
<1>2. op.kind = kind /\ op.signer = s /\ op.to = named /\ op.block = height
  BY <1>1
<1>3. /\ ~Born /\ Founded(given.home) /\ Recorded(op) /\ UNCHANGED <<height, settled, unseen>>
      /\ Passes(IF named = Nobody THEN s ELSE named, Here)
  BY <1>1 DEF Originate
<1>4. SaleOp(Len(trail), op)
  BY <1>2 DEF SaleOp
<1>5. TrailInv' /\ Grown(trail, trail', op)
  <2>1. TrailInv
    BY DEF LightInv
  <2>2. UNCHANGED <<given, height>> /\ unseen' \subseteq unseen \cup {Len(trail) + 1}
    BY <1>3
  <2> QED
    BY <1>2, <1>3, <1>4, <2>1, <2>2, RecordedKeepsTrail
<1>6. Len(trail) = 0 /\ Len(trail') = 1 /\ trail'[1] = op /\ Here = 1
  BY <1>3, <1>5 DEF LightInv, TitleInv, Grown, Here
<1>7. /\ title'.owner = (IF named = Nobody THEN s ELSE named) /\ title'.previous = Nobody
      /\ title'.by = 1 /\ onSale' = 0 /\ hold' = 0
  BY <1>3, <1>6 DEF Passes
<1>8. SaleInv'
  BY <1>6, <1>7 DEF SaleInv
<1>9. SettledInv'
  <2>1. TrailInv /\ SettledInv
    BY DEF LightInv
  <2>2. settled' \subseteq 1..0 /\ settled' \cap unseen' = {}
    BY <1>3, <1>6, <2>1 DEF SettledInv
  <2>3. \A b \in 1..Len(trail') : trail'[b].kind # "buy"
    BY <1>2, <1>6
  <2> QED
    BY <1>6, <2>2, <2>3 DEF SettledInv
<1>10. TitleInv'
  <2>1. RestsOn(trail', title', settled')
    BY <1>2, <1>6, <1>7 DEF RestsOn
  <2>2. Founded(given'.home)
    BY <1>3
  <2>3. title'.by \in 0..Len(trail') /\ Born'
    BY <1>6, <1>7 DEF Born
  <2> QED
    BY <2>1, <2>2, <2>3 DEF TitleInv
<1> QED
  BY <1>5, <1>8, <1>9, <1>10 DEF LightInv

LEMMA ConveyKeeps ==
    ASSUME LightInv, given' = given,
           NEW kind \in {"transfer", "batch_transfer", "transfer_from"}, NEW s, NEW to,
           Convey(kind, s, to)
    PROVE  LightInv'
<1>1. PICK op : op = [kind |-> kind, signer |-> s, from |-> title.owner, to |-> to, block |-> height]
  OBVIOUS
<1>2. op.kind = kind /\ op.signer = s /\ op.from = title.owner /\ op.to = to /\ op.block = height
  BY <1>1
<1>3. /\ Born /\ (kind = "transfer_from" \/ s = title.owner)
      /\ Recorded(op) /\ UNCHANGED <<height, settled, unseen>> /\ Passes(to, Here)
  BY <1>1 DEF Convey
<1>4. SaleOp(Len(trail), op)
  BY <1>2 DEF SaleOp
<1>5. TrailInv' /\ Grown(trail, trail', op)
  <2>1. TrailInv
    BY DEF LightInv
  <2>2. UNCHANGED <<given, height>> /\ unseen' \subseteq unseen \cup {Len(trail) + 1}
    BY <1>3
  <2> QED
    BY <1>2, <1>3, <1>4, <2>1, <2>2, RecordedKeepsTrail
<1>6. PICK n \in Nat : n = Len(trail) /\ Len(trail') = n + 1 /\ trail'[n + 1] = op /\ Here = n + 1
  BY <1>5 DEF Grown, Here
<1>7. /\ title'.owner = to /\ title'.previous = title.owner
      /\ title'.by = n + 1 /\ onSale' = 0 /\ hold' = 0
  BY <1>3, <1>6 DEF Passes
<1>8. SaleInv'
  BY <1>6, <1>7 DEF SaleInv
<1>9. SettledInv'
  <2>1. TrailInv /\ SettledInv
    BY DEF LightInv
  <2>2. Len(trail) + 1 \notin settled
    BY <1>6, <2>1 DEF SettledInv
  <2>3. op.kind # "buy" /\ settled' = settled /\ unseen' = unseen
    BY <1>2, <1>3
  <2> QED
    BY <1>4, <1>5, <2>1, <2>2, <2>3, RecordedKeepsSettled
<1>10. TitleInv'
  <2>1. RestsOn(trail', title', settled')
    BY <1>2, <1>3, <1>6, <1>7 DEF RestsOn
  <2>2. Founded(given'.home)
    BY <1>3 DEF LightInv, TitleInv
  <2>3. title'.by \in 0..Len(trail') /\ Born'
    BY <1>6, <1>7 DEF Born
  <2> QED
    BY <2>1, <2>2, <2>3 DEF TitleInv
<1> QED
  BY <1>5, <1>8, <1>9, <1>10 DEF LightInv

\* What the last operation is not.
LEMMA NotYet ==
    ASSUME TrailInv, SettledInv, NEW n \in Nat, n = Len(trail)
    PROVE  n + 1 \notin settled /\ n + 1 \notin unseen
BY DEF TrailInv, SettledInv

\* Nothing changes hands with an operation that is no buy.
LEMMA NoBuyKeeps ==
    ASSUME LightInv, NEW op, Grown(trail, trail', op), UNCHANGED <<given, title, settled>>,
           SaleOp(Len(trail), op), op.kind # "buy", Born,
           unseen \subseteq unseen', unseen' \subseteq unseen \cup {Len(trail) + 1}
    PROVE  SettledInv' /\ TitleInv'
<1>1. TrailInv /\ SettledInv /\ TitleInv
  BY DEF LightInv
<1>2. PICK n \in Nat : n = Len(trail)
  BY DEF Grown
<1>3. Len(trail) + 1 \notin settled
  BY <1>1, <1>2, NotYet
<1>4. SettledInv'
  BY <1>1, <1>3, RecordedKeepsSettled
<1>5. TitleInv'
  <2>1. UNCHANGED <<given, title>> /\ settled \subseteq settled'
    OBVIOUS
  <2> QED
    BY <1>1, <2>1, TitleKept
<1> QED
  BY <1>4, <1>5

LEMMA ListKeeps ==
    ASSUME LightInv, given' = given, NEW s, NEW price, NEW life \in Lifetimes,
           ListAsset(s, price, life)
    PROVE  LightInv'
<1> DEFINE Stands == s = title.owner /\ Idle
<1>1. PICK op : op = [kind |-> "list", signer |-> s, price |-> price, ends |-> height + life,
                      block |-> height]
  OBVIOUS
<1>2. op.kind = "list" /\ op.signer = s /\ op.block = height /\ op.ends = height + life
  BY <1>1
<1>3. /\ Born /\ Recorded(op) /\ UNCHANGED <<height, title, hold, settled>>
      /\ onSale' = (IF Stands THEN Here ELSE onSale) /\ RefusedIf(~Stands)
  BY <1>1, Zenon DEF ListAsset
<1>4. SaleOp(Len(trail), op)
  BY <1>2 DEF SaleOp
<1>5. /\ unseen \subseteq unseen' /\ unseen' \subseteq unseen \cup {Len(trail) + 1}
      /\ Stands => unseen' = unseen
  BY <1>3 DEF RefusedIf, Here
<1>6. TrailInv' /\ Grown(trail, trail', op)
  <2>1. TrailInv
    BY DEF LightInv
  <2>2. UNCHANGED <<given, height>>
    BY <1>3
  <2> QED
    BY <1>2, <1>3, <1>4, <1>5, <2>1, <2>2, RecordedKeepsTrail
<1>7. PICK n \in Nat : n = Len(trail) /\ Len(trail') = n + 1 /\ trail'[n + 1] = op /\ Here = n + 1
  BY <1>6 DEF Grown, Here
<1>8. SettledInv' /\ TitleInv'
  <2>1. UNCHANGED <<given, title, settled>> /\ op.kind # "buy" /\ Born
    BY <1>2, <1>3
  <2> QED
    BY <1>4, <1>5, <1>6, <2>1, NoBuyKeeps
<1>9. SaleInv'
  <2>1. CASE Stands
    <3>1. hold' = 0 /\ s = title.owner
      BY <1>3, <2>1 DEF Idle
    <3>2. PICK u, h, seen : u = trail' /\ h = height' /\ seen = Seen(unseen')
      OBVIOUS
    <3>3. u[n + 1].kind = "list" /\ \A i \in 1..n : SaleOp(i - 1, u[i])
      <4>1. Len(u) = n + 1 /\ \A i \in 1..Len(u) : SaleOp(i - 1, u[i])
        BY <1>6, <1>7, <3>2 DEF TrailInv
      <4> QED
        BY <1>2, <1>7, <3>2, <4>1
    <3>4. Standing(u, seen, n + 1, n + 1, h) = 0
      BY <3>3, StandingNew
    <3>5. onSale' = n + 1 /\ trail'[onSale'] = op /\ Born' /\ title' = title
      BY <1>3, <1>7, <2>1 DEF Born
    <3>6. hold' = Standing(trail', Seen(unseen'), onSale', Len(trail'), height')
      BY <1>7, <3>1, <3>2, <3>4, <3>5
    <3>7. trail'[onSale'].ends \in Nat
      <4>1. height \in Nat
        BY DEF LightInv, TrailInv
      <4>2. life \in Nat
        BY LightAssumption
      <4> QED
        BY <1>2, <3>5, <4>1, <4>2
    <3> QED
      BY <1>2, <1>7, <3>1, <3>5, <3>6, <3>7 DEF SaleInv
  <2>2. CASE ~Stands
    <3>1. UNCHANGED <<height, title, onSale>> /\ hold' = hold
      BY <1>3, <2>2
    <3>2. TrailInv /\ SaleInv
      BY DEF LightInv
    <3> HIDE DEF Stands
    <3>3. CASE onSale # 0
      <4>1. hold' = IF /\ op.kind = "commit" /\ op.listing = onSale
                       /\ Len(trail) + 1 \notin unseen' /\ hold = 0
                    THEN Len(trail) + 1 ELSE hold
        BY <1>2, <3>1
      <4> QED
        BY <1>2, <1>5, <1>6, <3>1, <3>2, <3>3, <4>1, SaleKept
    <3>4. CASE onSale = 0
      BY <1>7, <3>1, <3>2, <3>4 DEF SaleInv
    <3> QED
      BY <3>3, <3>4
  <2> QED
    BY <2>1, <2>2
<1> QED
  BY <1>6, <1>8, <1>9 DEF LightInv

LEMMA UnlistKeeps ==
    ASSUME LightInv, given' = given, UnlistAsset
    PROVE  LightInv'
<1>1. PICK op : op = [kind |-> "unlist", signer |-> title.owner, block |-> height]
  OBVIOUS
<1>2. op.kind = "unlist" /\ op.block = height
  BY <1>1
<1>3. /\ onSale # 0 /\ hold = 0 /\ Recorded(op) /\ onSale' = 0
      /\ UNCHANGED <<height, title, hold, settled, unseen>>
  BY <1>1 DEF UnlistAsset
<1>4. SaleOp(Len(trail), op)
  BY <1>2 DEF SaleOp
<1>5. TrailInv' /\ Grown(trail, trail', op)
  <2>1. TrailInv
    BY DEF LightInv
  <2>2. UNCHANGED <<given, height>> /\ unseen' \subseteq unseen \cup {Len(trail) + 1}
    BY <1>3
  <2> QED
    BY <1>2, <1>3, <1>4, <2>1, <2>2, RecordedKeepsTrail
<1>6. PICK n \in Nat : n = Len(trail) /\ Len(trail') = n + 1
  BY <1>5 DEF Grown
<1>7. SaleInv'
  BY <1>3, <1>6 DEF SaleInv
<1>8. SettledInv' /\ TitleInv'
  <2>1. UNCHANGED <<given, title, settled>> /\ op.kind # "buy"
    BY <1>2, <1>3
  <2>2. unseen \subseteq unseen' /\ unseen' \subseteq unseen \cup {Len(trail) + 1}
    BY <1>3
  <2>3. Born
    BY <1>3 DEF LightInv, SaleInv
  <2> QED
    BY <1>4, <1>5, <2>1, <2>2, <2>3, NoBuyKeeps
<1> QED
  BY <1>5, <1>7, <1>8 DEF LightInv

\* There is no operation before the asset.
LEMMA NamedMeans ==
    ASSUME LightInv, NEW listing \in DOMAIN trail
    PROVE  listing \in 1..Len(trail) /\ listing # 0 /\ Born
<1>1. PICK S : trail \in Seq(S)
  BY DEF LightInv, TrailInv, Ordered
<1>2. PICK n \in Nat : n = Len(trail) /\ DOMAIN trail = 1..n
  BY <1>1
<1>3. n # 0
  BY <1>2
<1> QED
  BY <1>2, <1>3 DEF LightInv, TitleInv

LEMMA CommitKeeps ==
    ASSUME LightInv, given' = given, NEW tx \in BuyTxs, NEW listing \in DOMAIN trail, NEW able,
           CommitTo(tx, listing, able)
    PROVE  LightInv'
<1> DEFINE Stands == able /\ InForce(listing) /\ tx.buyer # title.owner
           Unknown == ~Stands /\ ~(hold # 0 /\ listing = onSale)
<1>1. PICK op : op = [kind |-> "commit", signer |-> tx.node, listing |-> listing, tx |-> tx,
                      block |-> height]
  OBVIOUS
<1>2. op.kind = "commit" /\ op.listing = listing /\ op.tx = tx /\ op.block = height
  BY <1>1
<1>3. /\ Recorded(op) /\ hold' = (IF Stands /\ hold = 0 THEN Here ELSE hold)
      /\ RefusedIf(Unknown) /\ UNCHANGED <<height, title, onSale, settled>>
  BY <1>1, Zenon DEF CommitTo
<1>4. listing \in 1..Len(trail) /\ listing # 0 /\ Born
  BY NamedMeans
<1>5. SaleOp(Len(trail), op)
  BY <1>2, <1>4 DEF SaleOp
<1>6. unseen' = IF Unknown THEN unseen \cup {Len(trail) + 1} ELSE unseen
  BY <1>3, Zenon DEF RefusedIf, Here
<1>7. unseen \subseteq unseen' /\ unseen' \subseteq unseen \cup {Len(trail) + 1}
  BY <1>6
<1>8. TrailInv' /\ Grown(trail, trail', op)
  <2>1. TrailInv
    BY DEF LightInv
  <2>2. UNCHANGED <<given, height>>
    BY <1>3
  <2> QED
    BY <1>2, <1>3, <1>5, <1>7, <2>1, <2>2, RecordedKeepsTrail
<1>9. PICK n \in Nat : n = Len(trail) /\ Len(trail') = n + 1
  BY <1>8 DEF Grown
<1>10. SettledInv' /\ TitleInv'
  <2>1. UNCHANGED <<given, title, settled>> /\ op.kind # "buy"
    BY <1>2, <1>3
  <2> QED
    BY <1>4, <1>5, <1>7, <1>8, <2>1, NoBuyKeeps
<1>11. SaleInv'
  <2>1. TrailInv /\ SaleInv /\ SettledInv
    BY DEF LightInv
  <2>2. UNCHANGED <<height, title, onSale>>
    BY <1>3
  <2>3. Stands => listing = onSale
    BY DEF InForce
  <2>4. Len(trail) + 1 \notin unseen
    BY <1>9, <2>1, NotYet
  <2>5. listing = onSale /\ hold = 0 => (Stands <=> Len(trail) + 1 \notin unseen')
    BY <1>6, <2>4
  <2> HIDE DEF Stands, Unknown
  <2>6. CASE onSale # 0
    <3>1. hold' = IF /\ op.kind = "commit" /\ op.listing = onSale
                     /\ Len(trail) + 1 \notin unseen' /\ hold = 0
                  THEN Len(trail) + 1 ELSE hold
      BY <1>2, <1>3, <2>3, <2>5 DEF Here
    <3> QED
      BY <1>2, <1>7, <1>8, <2>1, <2>2, <2>6, <3>1, SaleKept
  <2>7. CASE onSale = 0
    <3>1. hold' = hold
      BY <1>3, <1>4, <2>3, <2>7
    <3> QED
      BY <1>9, <2>1, <2>2, <2>7, <3>1 DEF SaleInv
  <2> QED
    BY <2>6, <2>7
<1> QED
  BY <1>8, <1>10, <1>11 DEF LightInv

LEMMA PurchaseKeeps ==
    ASSUME LightInv, given' = given, NEW tx \in BuyTxs, NEW listing \in DOMAIN trail, NEW able,
           Purchase(tx, listing, able)
    PROVE  LightInv'
<1> DEFINE Stands == able /\ InForce(listing)
           Settles == Stands /\ hold # 0 /\ trail[hold].tx = tx /\ PaidFor(tx, listing)
<1>1. PICK op : op = [kind |-> "buy", signer |-> tx.node, listing |-> listing, tx |-> tx,
                      block |-> height]
  OBVIOUS
<1>2. op.kind = "buy" /\ op.listing = listing /\ op.tx = tx /\ op.block = height
  BY <1>1
<1>3. /\ Recorded(op) /\ height' = height /\ RefusedIf(~Stands)
      /\ Settles => Passes(tx.buyer, Here) /\ settled' = settled \cup {Here}
      /\ ~Settles => UNCHANGED <<title, onSale, hold, settled>>
  BY <1>1, Zenon DEF Purchase
<1>4. listing \in 1..Len(trail) /\ listing # 0 /\ Born
  BY NamedMeans
<1>5. Stands => /\ onSale = listing /\ trail[onSale].kind = "list" /\ trail[onSale].signer = title.owner
                /\ hold \in 0..Len(trail) /\ onSale \in 1..Len(trail)
                /\ hold = Standing(trail, Seen(unseen), onSale, Len(trail), height)
  BY <1>4 DEF InForce, LightInv, SaleInv
<1>6. SaleOp(Len(trail), op)
  BY <1>2, <1>4 DEF SaleOp
<1>7. unseen' = IF Stands THEN unseen ELSE unseen \cup {Len(trail) + 1}
  BY <1>3, Zenon DEF RefusedIf, Here
<1>8. unseen \subseteq unseen' /\ unseen' \subseteq unseen \cup {Len(trail) + 1}
  BY <1>7
<1>9. TrailInv' /\ Grown(trail, trail', op)
  <2>1. TrailInv
    BY DEF LightInv
  <2>2. UNCHANGED <<given, height>>
    BY <1>3
  <2> QED
    BY <1>2, <1>3, <1>6, <1>8, <2>1, <2>2, RecordedKeepsTrail
<1>10. PICK n \in Nat : /\ n = Len(trail) /\ Len(trail') = n + 1 /\ trail'[n + 1] = op /\ Here = n + 1
                        /\ \A i \in 1..n : trail'[i] = trail[i]
  BY <1>9 DEF Grown, Here
<1>11. n + 1 \notin settled /\ n + 1 \notin unseen
  BY <1>10, NotYet DEF LightInv
<1>12. Stands => (Settles <=> /\ WonAt(trail', Seen(unseen'), n + 1)
                              /\ PaidIn(given, trail[listing], tx))
  <2> SUFFICES ASSUME Stands
               PROVE  Settles <=> /\ WonAt(trail', Seen(unseen'), n + 1)
                                  /\ PaidIn(given, trail[listing], tx)
    OBVIOUS
  <2>1. PICK u, h, c, seen : u = trail' /\ h = height /\ c = hold /\ seen = Seen(unseen')
    OBVIOUS
  <2>2. Standing(u, seen, listing, n, h) = c
    <3>1. \A i \in 1..n : u[i] = trail[i]
      BY <1>10, <2>1
    <3>2. seen = Seen(unseen)
      BY <1>7, <2>1
    <3>3. Standing(u, seen, listing, n, h) = Standing(trail, seen, listing, n, h)
      BY <3>1, StandingSame
    <3> QED
      BY <1>5, <1>10, <2>1, <3>2, <3>3
  <2>3. (n + 1) - 1 = n
    OBVIOUS
  <2>4. WonAt(u, seen, n + 1) <=> c # 0 /\ u[c].tx = tx
    <3>1. u[n + 1].listing = listing /\ u[n + 1].block = h /\ u[n + 1].tx = tx
      BY <1>2, <1>10, <2>1
    <3> QED
      BY <2>2, <2>3, <3>1 DEF WonAt
  <2>5. c # 0 => u[c] = trail[c]
    BY <1>5, <1>10, <2>1
  <2>6. PaidFor(tx, listing) = PaidIn(given, trail[listing], tx)
    BY PaidForIs
  <2> QED
    BY <2>1, <2>4, <2>5, <2>6
<1>13. SettledInv'
  <2>1. TrailInv /\ SettledInv
    BY DEF LightInv
  <2>2. settled \subseteq settled' /\ settled' \subseteq settled \cup {Len(trail) + 1}
    BY <1>3, <1>10
  <2>3. Len(trail) + 1 \in settled' <=> Settles
    BY <1>3, <1>10, <1>11
  <2>4. Len(trail) + 1 \notin unseen' <=> Stands
    BY <1>7, <1>10, <1>11
  <2>5. Settles => Stands
    OBVIOUS
  <2> HIDE DEF Settles, Stands
  <2>6. Len(trail) + 1 \in settled' => Len(trail) + 1 \notin unseen'
    BY <2>3, <2>4, <2>5
  <2>7. Len(trail) + 1 \notin unseen' =>
           /\ trail[op.listing].kind = "list"
           /\ Len(trail) + 1 \in settled' <=>
                 /\ WonAt(trail', Seen(unseen'), Len(trail) + 1)
                 /\ PaidIn(given, trail[op.listing], op.tx)
    BY <1>2, <1>5, <1>10, <1>12, <2>3, <2>4
  <2> QED
    BY <1>6, <1>8, <1>9, <2>1, <2>2, <2>6, <2>7, RecordedKeepsSettled
<1>14. CASE Settles
  <2>1. /\ title'.owner = tx.buyer /\ title'.previous = title.owner /\ title'.by = n + 1
        /\ onSale' = 0 /\ hold' = 0 /\ n + 1 \in settled'
    BY <1>3, <1>4, <1>10, <1>14 DEF Passes
  <2>2. SaleInv'
    BY <1>10, <2>1 DEF SaleInv
  <2>3. trail'[n + 1].listing = listing /\ trail'[listing].signer = title.owner
    BY <1>2, <1>4, <1>5, <1>10, <1>14
  <2>4. RestsOn(trail', title', settled')
    BY <1>2, <1>10, <2>1, <2>3 DEF RestsOn
  <2>5. Founded(given'.home)
    BY <1>4 DEF LightInv, TitleInv
  <2>6. title'.by \in 0..Len(trail') /\ Born'
    BY <1>10, <2>1 DEF Born
  <2>7. TitleInv'
    BY <2>4, <2>5, <2>6 DEF TitleInv
  <2> QED
    BY <1>9, <1>13, <2>2, <2>7 DEF LightInv
<1>15. CASE ~Settles
  <2>1. UNCHANGED <<title, onSale, hold, settled>>
    BY <1>3, <1>15
  <2>2. TrailInv /\ SaleInv /\ TitleInv
    BY DEF LightInv
  <2>3. UNCHANGED <<height, title, onSale>> /\ UNCHANGED <<given, title>> /\ settled \subseteq settled'
    BY <1>3, <2>1
  <2> HIDE DEF Settles, Stands
  <2>4. SaleInv'
    <3>1. CASE onSale # 0
      <4>1. hold' = IF /\ op.kind = "commit" /\ op.listing = onSale
                       /\ Len(trail) + 1 \notin unseen' /\ hold = 0
                    THEN Len(trail) + 1 ELSE hold
        BY <1>2, <2>1
      <4> QED
        BY <1>2, <1>3, <1>8, <1>9, <2>2, <2>3, <3>1, <4>1, SaleKept
    <3>2. CASE onSale = 0
      BY <1>10, <2>1, <2>2, <3>2 DEF SaleInv
    <3> QED
      BY <3>1, <3>2
  <2>5. TitleInv'
    BY <1>4, <1>9, <2>2, <2>3, TitleKept
  <2> QED
    BY <1>9, <1>13, <2>4, <2>5 DEF LightInv
<1> QED
  BY <1>14, <1>15

LEMMA HeightKeeps ==
    ASSUME LightInv, given' = given, NextHeight
    PROVE  LightInv'
<1>1. /\ height' = height + 1 /\ UNCHANGED <<trail, title, onSale, settled, unseen>>
      /\ hold' = IF hold # 0 /\ Until(hold) < height' THEN 0 ELSE hold
  BY DEF NextHeight
<1>2. TrailInv'
  <2>1. height \in Nat /\ Ordered(trail, height) /\ given \in SaleTerms
    BY DEF LightInv, TrailInv
  <2>2. Ordered(trail, height + 1)
    BY <2>1 DEF Ordered
  <2>3. given' \in SaleTerms /\ height' \in Nat /\ Ordered(trail', height')
    BY <1>1, <2>1, <2>2
  <2>4. unseen' \subseteq 1..Len(trail') /\ \A i \in 1..Len(trail') : SaleOp(i - 1, trail'[i])
    BY <1>1 DEF LightInv, TrailInv
  <2> QED
    BY <2>3, <2>4 DEF TrailInv
<1>3. SaleInv'
  <2>1. hold \in 0..Len(trail) /\ onSale \in 0..Len(trail) /\ (onSale = 0 => hold = 0)
    BY DEF LightInv, SaleInv
  <2>2. hold' \in {0, hold}
    BY <1>1
  <2>3. ASSUME onSale # 0
        PROVE  hold' = Standing(trail', Seen(unseen'), onSale', Len(trail'), height')
    <3>1. hold = Standing(trail, Seen(unseen), onSale, Len(trail), height)
      BY <2>3 DEF LightInv, SaleInv
    <3>2. PICK n \in Nat : n = Len(trail) /\ \A i \in 1..n : trail[i].block \in Nat
      <4>1. \E S : trail \in Seq(S)
        BY DEF LightInv, TrailInv, Ordered
      <4>2. Len(trail) \in Nat
        BY <4>1
      <4> QED
        BY <4>2 DEF LightInv, TrailInv, Ordered
    <3>3. PICK c : c = HeldIn(trail, Seen(unseen), onSale, 0, n)
      OBVIOUS
    <3>4. c \in 0..n /\ (c # 0 => trail[c].block \in Nat)
      BY <3>2, <3>3, HeldMeans
    <3>5. hold = IF c # 0 /\ trail[c].block + CommitTtl >= height THEN c ELSE 0
      BY <3>1, <3>2, <3>3 DEF Standing
    <3>6. Standing(trail', Seen(unseen'), onSale', Len(trail'), height') =
             IF c # 0 /\ trail[c].block + CommitTtl >= height + 1 THEN c ELSE 0
      BY <1>1, <3>2, <3>3 DEF Standing
    <3>7. hold' = IF hold # 0 /\ trail[hold].block + CommitTtl < height + 1 THEN 0 ELSE hold
      BY <1>1 DEF Until
    <3>8. height \in Nat /\ CommitTtl \in Nat
      BY LightAssumption DEF LightInv, TrailInv
    <3>9. CASE c = 0
      BY <3>5, <3>6, <3>7, <3>9
    <3>10. CASE c # 0
      <4>1. trail[c].block \in Nat
        BY <3>4, <3>10
      <4>2. PICK last \in Nat : last = trail[c].block + CommitTtl
        BY <3>8, <4>1
      <4>3. CASE last >= height + 1
        <5>1. last >= height /\ ~(last < height + 1)
          BY <3>8, <4>3
        <5>2. hold = c /\ hold' = c
          BY <3>5, <3>7, <3>10, <4>2, <5>1
        <5> QED
          BY <3>6, <3>10, <4>2, <4>3, <5>2
      <4>4. CASE ~(last >= height + 1)
        <5>1. last < height + 1
          BY <3>8, <4>4
        <5>2. hold \in {0, c}
          BY <3>5
        <5>3. hold' = 0
          BY <3>7, <4>2, <5>1, <5>2
        <5> QED
          BY <3>6, <4>2, <4>4, <5>3
      <4> QED
        BY <4>3, <4>4
    <3> QED
      BY <3>9, <3>10
  <2>4. Born' = Born
    BY <1>1 DEF Born
  <2> QED
    BY <1>1, <2>1, <2>2, <2>3, <2>4 DEF LightInv, SaleInv
<1>4. SettledInv'
  BY <1>1 DEF LightInv, SettledInv
<1>5. TitleInv'
  <2>1. Born' = Born
    BY <1>1 DEF Born
  <2> QED
    BY <1>1, <2>1 DEF LightInv, TitleInv
<1> QED
  BY <1>2, <1>3, <1>4, <1>5 DEF LightInv

LEMMA LightInvStep == LightInv /\ [LightNext]_lightVars => LightInv'
<1> SUFFICES ASSUME LightInv, [LightNext]_lightVars PROVE LightInv'
  OBVIOUS
<1>1. CASE UNCHANGED lightVars
  BY <1>1 DEF lightVars, LightInv, TrailInv, SaleInv, SettledInv, TitleInv, Born
<1>2. CASE LightNext
  <2>1. given' = given
    BY <1>2 DEF LightNext
  <2> QED
    BY <1>2, <2>1, OriginateKeeps, ConveyKeeps, ListKeeps, UnlistKeeps, CommitKeeps,
       PurchaseKeeps, HeightKeeps DEF LightNext
<1> QED
  BY <1>1, <1>2

LEMMA LightCorrect == LightSpec => []LightInv
BY LightInvInit, LightInvStep, PTL DEF LightSpec
-----------------------------------------------------------------------------
(* What the client makes of it. *)

LEMMA BuyIs ==
    ASSUME LightInv, NEW b \in Buys
    PROVE  /\ b \in Nat \ {0} /\ b \in 1..Len(trail) /\ trail[b].kind = "buy" /\ trail[b].tx \in BuyTxs
           /\ trail[b].listing \in 1..(b - 1)
           /\ \A i \in 1..b : i \in DOMAIN trail /\ trail[i].block \in Nat
           /\ \A i, j \in 1..b : i <= j => trail[i].block <= trail[j].block
           /\ b \in settled => b \notin unseen
           /\ b \notin unseen =>
                 /\ trail[trail[b].listing].kind = "list"
                 /\ b \in settled <=> /\ WonAt(trail, Seen(unseen), b)
                                      /\ PaidFor(trail[b].tx, trail[b].listing)
<1>1. PICK S : trail \in Seq(S)
  BY DEF LightInv, TrailInv, Ordered
<1>2. PICK n \in Nat : n = Len(trail) /\ DOMAIN trail = 1..n
  BY <1>1
<1>3. b \in 1..n /\ trail[b].kind = "buy"
  BY <1>2 DEF Buys
<1>4. SaleOp(b - 1, trail[b])
  BY <1>2, <1>3 DEF LightInv, TrailInv
<1>5. trail[b].listing \in 1..(b - 1) /\ trail[b].tx \in BuyTxs
  BY <1>3, <1>4 DEF SaleOp
<1>6. /\ \A i \in 1..n : trail[i].block \in Nat
      /\ \A i, j \in 1..n : i <= j => trail[i].block <= trail[j].block
  BY <1>2 DEF LightInv, TrailInv, Ordered
<1>7. b \notin unseen =>
         /\ trail[trail[b].listing].kind = "list"
         /\ b \in settled <=> /\ WonAt(trail, Seen(unseen), b)
                              /\ PaidIn(given, trail[trail[b].listing], trail[b].tx)
  BY <1>2, <1>3 DEF LightInv, SettledInv, BuyJudged
<1>8. \A i \in 1..b : i \in 1..n
  BY <1>3
<1>9. b \in settled => b \notin unseen
  BY DEF LightInv, SettledInv
<1> QED
  BY <1>2, <1>3, <1>5, <1>6, <1>7, <1>8, <1>9, PaidForIs

\* A client that is shown the whole window names the commitment that held the
\* asset for the ledger.
LEMMA ReservedAlike ==
    ASSUME LightInv, NEW b \in Buys, ~Misled(b), NEW shown, InRange(b) \subseteq shown
    PROVE  WonAt(trail, Seen(unseen), b) <=>
              /\ Reserving(b, shown) # 0 /\ Lasts(Reserving(b, shown), trail[b].block)
              /\ trail[Reserving(b, shown)].tx = trail[b].tx
<1>1. PICK l, h, since, n, seen : /\ l = trail[b].listing /\ h = trail[b].block
                                  /\ since = h - CommitTtl /\ n = b - 1 /\ seen = Seen(unseen)
  OBVIOUS
<1>2. /\ b \in Nat \ {0} /\ \A i \in 1..b : i \in DOMAIN trail /\ trail[i].block \in Nat
      /\ \A i, j \in 1..b : i <= j => trail[i].block <= trail[j].block
  BY BuyIs
<1>3. n \in Nat /\ h \in Nat /\ since \in Int /\ CommitTtl \in Nat /\ \A i \in 1..n : i \in 1..b
  BY <1>1, <1>2, LightAssumption
<1>4. PICK c, r : c = HeldIn(trail, seen, l, 0, n) /\ r = HeldIn(trail, seen, l, since, n)
  OBVIOUS
<1>5. c = r \/ (r = 0 /\ c # 0 /\ trail[c].block < since)
  <2>1. \A i \in 1..n : trail[i].kind = "commit" /\ trail[i].listing = l /\ trail[i].block < since
                        => trail[i].block + CommitTtl < since
    <3> SUFFICES ASSUME NEW i \in 1..n, trail[i].kind = "commit", trail[i].listing = l,
                        trail[i].block < since
                 PROVE  trail[i].block + CommitTtl < since
      OBVIOUS
    <3>1. ~(trail[i].block + CommitTtl >= since)
      BY <1>1, Zenon DEF Misled, Shadowed, Until
    <3>2. trail[i].block \in Nat
      BY <1>2, <1>3
    <3> QED
      BY <1>3, <3>1, <3>2
  <2>2. \A i \in 1..n : trail[i].block \in Nat
    BY <1>2, <1>3
  <2>3. \A i, j \in 1..n : i <= j => trail[i].block <= trail[j].block
    BY <1>2, <1>3
  <2> QED
    BY <1>3, <1>4, <2>1, <2>2, <2>3, WindowWalk
<1>6. c \in 0..n /\ r \in 0..n /\ (c # 0 => trail[c].kind = "commit" /\ trail[c].listing = l)
  BY <1>3, <1>4, HeldMeans
<1>7. Reserving(b, shown) = r
  <2>1. \A i \in 1..n : trail[i].kind = "commit" /\ trail[i].listing = l /\ trail[i].block >= since
                        => (i \in shown <=> i \in seen)
    <3> SUFFICES ASSUME NEW i \in 1..n, trail[i].kind = "commit", trail[i].listing = l,
                        trail[i].block >= since
                 PROVE  i \in shown /\ i \in seen
      OBVIOUS
    <3>1. i \notin unseen
      BY <1>1, Zenon DEF Misled
    <3>2. i \in DOMAIN trail /\ trail[i].block \in Nat /\ trail[i].block <= h
      <4>1. i \in 1..b /\ b \in 1..b /\ i <= b
        BY <1>1, <1>2
      <4> QED
        BY <1>1, <1>2, <4>1
    <3>3. trail[i].block \in since..h
      BY <1>3, <3>2
    <3>4. i \in InRange(b)
      BY <1>1, <3>2, <3>3 DEF InRange
    <3> QED
      BY <1>1, <3>1, <3>4 DEF Seen
  <2>2. HeldIn(trail, shown, l, since, n) = HeldIn(trail, seen, l, since, n)
    BY <1>3, <2>1, HeldSame
  <2> QED
    BY <1>1, <1>4, <2>2, HeldIs DEF Reserving
<1>8. WonAt(trail, seen, b) <=> c # 0 /\ trail[c].block + CommitTtl >= h /\ trail[c].tx = trail[b].tx
  <2>1. Standing(trail, seen, l, n, h) = IF c # 0 /\ trail[c].block + CommitTtl >= h THEN c ELSE 0
    BY <1>4 DEF Standing
  <2> QED
    BY <1>1, <2>1, Zenon DEF WonAt
<1>9. CASE c = r
  BY <1>1, <1>7, <1>8, <1>9 DEF Lasts, Until
<1>10. CASE c # r
  <2>1. r = 0 /\ c # 0 /\ trail[c].block < since
    BY <1>5, <1>10
  <2>2. c \in 1..n /\ c \in 1..b /\ trail[c].block \in Nat
    BY <1>2, <1>3, <1>6, <2>1
  <2>3. ~(trail[c].block + CommitTtl >= since)
    <3>1. c \in 1..(b - 1) /\ trail[c].kind = "commit" /\ trail[c].listing = trail[b].listing
          /\ trail[c].block < trail[b].block - CommitTtl
      BY <1>1, <1>6, <2>1, <2>2
    <3> QED
      BY <1>1, <3>1, Zenon DEF Misled, Shadowed, Until
  <2>4. ~(trail[c].block + CommitTtl >= h)
    BY <1>1, <1>3, <2>2, <2>3
  <2> QED
    BY <1>1, <1>7, <1>8, <2>1, <2>4
<1> QED
  BY <1>9, <1>10

\* One transfer of the fee for the ledger is one for the client.
LEMMA FoundedResolves ==
    ASSUME given \in SaleTerms, Founded(given.home), ~given.home.twin
    PROVE  CollectionResolved(given.home)
<1>1. PICK home, fees, fee : /\ home = given.home /\ fees = given.home.fees
                             /\ fee = Leg("collection", home.node, CollectionFee)
  OBVIOUS
<1>2. PICK toNode : /\ toNode = {i \in DOMAIN fees : fees[i].memo = "collection" /\ fees[i].to = home.node}
                    /\ Cardinality(toNode) = 1
                    /\ \A i \in toNode : fees[i].amount = CollectionFee /\ fees[i].currency = "HBD"
  BY <1>1, Zenon DEF Founded
<1>3. PICK whole : whole = {i \in DOMAIN fees : fees[i] = Paying(fees[i].from, fee, "HBD")}
  OBVIOUS
<1>4. whole = toNode
  <2>1. ASSUME NEW i \in toNode PROVE i \in whole
    <3>1. i \in DOMAIN fees /\ fees[i].memo = "collection" /\ fees[i].to = home.node
          /\ fees[i].amount = CollectionFee /\ fees[i].currency = "HBD"
      BY <1>2
    <3>2. AreTransfers(fees)
      BY <1>1, TermsAre
    <3>3. fees[i] = Paying(fees[i].from, Leg(fees[i].memo, fees[i].to, fees[i].amount), fees[i].currency)
      BY <3>1, <3>2, TransfersAre
    <3>4. fees[i] = Paying(fees[i].from, fee, "HBD")
      BY <1>1, <3>1, <3>3, Zenon
    <3> QED
      BY <1>3, <3>1, <3>4
  <2>2. ASSUME NEW i \in whole PROVE i \in toNode
    <3>1. i \in DOMAIN fees /\ fees[i] = Paying(fees[i].from, fee, "HBD")
      BY <1>3
    <3>2. fees[i].memo = "collection" /\ fees[i].to = home.node
      BY <1>1, <3>1 DEF Paying, Leg
    <3> QED
      BY <1>2, <3>1, <3>2
  <2> QED
    BY <2>1, <2>2
<1> QED
  BY <1>1, <1>2, <1>3, <1>4, Zenon DEF CollectionResolved, FeeFound

LEMMA ClientAgrees ==
    ASSUME LightInv, NEW b \in Buys, ~Misled(b), NEW shown, InRange(b) \subseteq shown
    PROVE  /\ Convincing(b, shown) => b \in settled \cup unseen
           /\ b \in settled /\ Clear(b) =>
                 /\ Convincing(b, shown) /\ SellerEdge(trail[b].tx).from = trail[b].tx.buyer
<1>1. given \in SaleTerms
  BY DEF LightInv, TrailInv
<1>2. /\ trail[b].tx \in BuyTxs
      /\ b \in settled => b \notin unseen
      /\ b \notin unseen =>
            /\ trail[trail[b].listing].kind = "list"
            /\ b \in settled <=> /\ WonAt(trail, Seen(unseen), b)
                                 /\ PaidFor(trail[b].tx, trail[b].listing)
  BY BuyIs
<1>3. ASSUME Convincing(b, shown), b \notin unseen PROVE b \in settled
  <2>1. PaidFor(trail[b].tx, trail[b].listing)
    BY <1>1, <1>2, <1>3, ConvincedIsPaid
  <2>2. CommitmentWon(b, shown)
    BY <1>3 DEF Convincing
  <2>3. /\ Reserving(b, shown) # 0 /\ Lasts(Reserving(b, shown), trail[b].block)
        /\ trail[Reserving(b, shown)].tx = trail[b].tx
    BY <2>2, Zenon DEF CommitmentWon
  <2>4. WonAt(trail, Seen(unseen), b)
    BY <2>3, ReservedAlike
  <2> QED
    BY <1>2, <1>3, <2>1, <2>4
<1>4. ASSUME b \in settled, Clear(b)
      PROVE  Convincing(b, shown) /\ SellerEdge(trail[b].tx).from = trail[b].tx.buyer
  <2>1. /\ WonAt(trail, Seen(unseen), b) /\ PaidFor(trail[b].tx, trail[b].listing)
        /\ trail[trail[b].listing].kind = "list"
    BY <1>2, <1>4
  <2>2. Bare(b) /\ ~given.beside[trail[b].listing].twin /\ ~given.home.twin
    BY <1>4 DEF Clear
  <2>3. /\ Readable(trail[b].tx) /\ OnePayer(trail[b].tx) /\ PaymentsMatch(b)
        /\ SellerEdge(trail[b].tx).from = trail[b].tx.buyer
        /\ SellerEdge(trail[b].tx).to = trail[trail[b].listing].signer
    <3>1. PaidFor(trail[b].tx, trail[b].listing)
      BY <2>1
    <3> QED
      BY <1>1, <1>2, <2>2, <3>1, PaidConvinces
  <2>4. /\ Reserving(b, shown) # 0 /\ Lasts(Reserving(b, shown), trail[b].block)
        /\ trail[Reserving(b, shown)].tx = trail[b].tx
    BY <2>1, ReservedAlike
  <2>5. CommitmentWon(b, shown)
    BY <2>3, <2>4, Zenon DEF CommitmentWon
  <2>6. ListingResolved(b)
    BY <2>1, <2>2, <2>3, Zenon DEF ListingResolved
  <2>7. CollectionResolved(given.home)
    <3>1. Len(trail) # 0
      BY BuyIs
    <3>2. Founded(given.home)
      BY <3>1 DEF LightInv, TitleInv
    <3> QED
      BY <1>1, <2>2, <3>2, FoundedResolves
  <2> QED
    BY <2>3, <2>5, <2>6, <2>7 DEF Convincing, SaleResolved
<1> QED
  BY <1>3, <1>4

\* Of the buys that were not refused for reasons it does not look at, the client
\* takes those for sales that the ledger took for sales, whatever they pay and
\* whichever commitments compete.
THEOREM BuysVerifyAlike == LightSpec => []BuysJudgedAlike
<1>1. LightInv => BuysJudgedAlike
  <2> SUFFICES ASSUME LightInv, NEW b \in Buys, ~Misled(b)
               PROVE  /\ Convincing(b, DOMAIN trail) => b \in settled \cup unseen
                      /\ b \in settled /\ Clear(b) => Convincing(b, DOMAIN trail)
    BY Zenon DEF BuysJudgedAlike
  <2>1. InRange(b) \subseteq DOMAIN trail
    BY DEF InRange
  <2> QED
    BY <2>1, ClientAgrees
<1> QED
  BY <1>1, LightCorrect, PTL

\* What the ledger's row rests on.
LEMMA RowRests ==
    ASSUME LightInv, Born
    PROVE  title.by \in 1..Len(trail) /\ title.by \in DOMAIN trail /\ RestsOn(trail, title, settled)
<1>1. title.by \in 0..Len(trail) /\ title.by # 0
  BY DEF LightInv, TitleInv, Born
<1>2. \E S : trail \in Seq(S)
  BY DEF LightInv, TrailInv, Ordered
<1>3. PICK n \in Nat : n = Len(trail)
  BY <1>2
<1>4. DOMAIN trail = 1..Len(trail)
  BY <1>2
<1> QED
  BY <1>1, <1>3, <1>4 DEF LightInv, TitleInv

LEMMA RowSettled ==
    ASSUME LightInv, Born, title.by \in Buys
    PROVE  title.by \in settled
<1>1. trail[title.by].kind = "buy"
  BY DEF Buys
<1> QED
  BY <1>1, RowRests DEF RestsOn

\* The range is what the first endpoint with records shows.
LEMMA WindowShown ==
    ASSUME NEW answers, NEW b, Served(answers, b)
    PROVE  InRange(b) \subseteq RangeReply(answers) /\ RangeReply(answers) # Down
<1>1. PICK m \in DOMAIN Mirrors :
         /\ answers[m] \notin {Down, {}} /\ InRange(b) \subseteq answers[m]
         /\ \A k \in DOMAIN Mirrors : k < m => answers[k] \in {Down, {}}
  BY Zenon DEF Served
<1>2. DOMAIN Mirrors \in SUBSET Nat
  <2>1. PICK S : Mirrors \in Seq(S)
    BY MirrorsAssumption
  <2> QED
    BY <2>1
<1>3. PICK serving : serving = {k \in DOMAIN Mirrors : answers[k] \notin {Down, {}}}
  OBVIOUS
<1>4. m \in serving /\ serving \in SUBSET Nat
  BY <1>1, <1>2, <1>3
<1>5. PICK first : first = Min(serving)
  OBVIOUS
<1>6. first \in serving /\ \A k \in serving : first <= k
  BY <1>4, <1>5, LowestOf
<1>7. first = m
  <2>1. first \in Nat /\ m \in Nat /\ first <= m
    BY <1>4, <1>6
  <2>2. ~(first < m)
    BY <1>1, <1>3, <1>6
  <2> QED
    BY <2>1, <2>2
<1>8. RangeReply(answers) = answers[m]
  BY <1>3, <1>4, <1>5, <1>7, Zenon DEF RangeReply
<1> QED
  BY <1>1, <1>8

\* The verdict on the ledger's own row.
LEMMA RowVerified ==
    ASSUME LightInv, Born, trail[title.by].kind # "batch_transfer",
           title.by \in Buys => Clear(title.by), NEW answers,
           title.by \in Buys => Served(answers, title.by)
    PROVE  Verdict(title, title.owner, answers) = IF Fetched(answers) THEN "verified" ELSE "error"
<1>1. CASE ~Fetched(answers)
  BY <1>1, Zenon DEF Verdict
<1>2. CASE Fetched(answers)
  <2>1. PICK op, shown : op = trail[title.by] /\ shown = RangeReply(answers)
    OBVIOUS
  <2>2. /\ title.by \in 1..Len(trail) /\ RestsOn(trail, title, settled)
        /\ (op.kind = "buy" => title.by \in Buys)
    BY <2>1, RowRests DEF Buys
  <2>3. ASSUME op.kind = "buy"
        PROVE  /\ Convincing(title.by, shown) /\ Readable(op.tx) /\ shown # Down
               /\ SellerEdge(op.tx).from = op.tx.buyer
               /\ title.owner = op.tx.buyer /\ title.previous = trail[op.listing].signer
    <3>1. title.by \in settled /\ title.owner = op.tx.buyer /\ title.previous = trail[op.listing].signer
      BY <2>1, <2>2, <2>3 DEF RestsOn
    <3>2. title.by \in Buys /\ Clear(title.by) /\ ~Misled(title.by)
      BY <2>2, <2>3 DEF Clear
    <3>3. InRange(title.by) \subseteq shown /\ shown # Down
      BY <2>1, <3>2, WindowShown
    <3>4. Convincing(title.by, shown) /\ SellerEdge(op.tx).from = op.tx.buyer
      BY <2>1, <3>1, <3>2, <3>3, ClientAgrees
    <3>5. Readable(op.tx)
      BY <2>1, <3>4 DEF Convincing
    <3> QED
      BY <3>1, <3>3, <3>4, <3>5
  <2>4. /\ DerivedOwner(op) = title.owner /\ DerivedPrevious(op) = title.previous
        /\ op.kind \in {"mint", "distribute", "transfer", "transfer_from", "buy"}
    <3>1. CASE op.kind \in {"mint", "distribute"}
      BY <2>1, <2>2, <3>1 DEF RestsOn, DerivedOwner, DerivedPrevious
    <3>2. CASE op.kind = "transfer"
      BY <2>1, <2>2, <3>2 DEF RestsOn, DerivedOwner, DerivedPrevious
    <3>3. CASE op.kind = "transfer_from"
      BY <2>1, <2>2, <3>3 DEF RestsOn, DerivedOwner, DerivedPrevious
    <3>4. CASE op.kind = "buy"
      BY <2>3, <3>4 DEF DerivedOwner, DerivedPrevious
    <3> QED
      BY <2>1, <2>2, <3>1, <3>2, <3>3, <3>4 DEF RestsOn
  <2>5. Proves(title, shown)
    BY <2>1, <2>3, <2>4, Zenon DEF Proves
  <2>6. ~(op.kind = "buy" /\ (~Readable(op.tx) \/ (SaleResolved(title.by) /\ shown = Down)))
    BY <2>3
  <2> QED
    BY <1>2, <2>1, <2>4, <2>5, <2>6, Zenon DEF Verdict
<1> QED
  BY <1>1, <1>2

\* An operation that comes first in its transaction has the signer it has.
LEMMA SignedBy ==
    ASSUME NEW place, NEW action, NEW who, given.beside[place].first = Lone,
           trail[place].signer = who,
           action = IF trail[place].kind = "batch_transfer" THEN "transfer" ELSE trail[place].kind,
           NEW answers
    PROVE  OperationVerdict(place, action, who, answers) =
              IF Fetched(answers) THEN "verified" ELSE "error"
BY DEF OperationVerdict, ReadFrom

\* An honest indexer's proof verifies for every client, with any number of
\* endpoints in any state, unless one hides part of the buy's window that none
\* before it shows; so does the price of the listing in force.
THEOREM HonestVerifies == LightSpec => []HonestProofHolds
<1>1. ASSUME LightInv PROVE HonestProofHolds
  <2>1. Born /\ trail[title.by].kind # "batch_transfer" /\ (title.by \in Buys => Clear(title.by))
        => \A answers \in Answers(title.by) : (title.by \in Buys => Served(answers, title.by)) =>
              Verdict(title, title.owner, answers) = IF Fetched(answers) THEN "verified" ELSE "error"
    BY <1>1, RowVerified
  <2>2. onSale # 0 => trail[onSale].kind = "list" /\ trail[onSale].signer = title.owner
    BY <1>1 DEF LightInv, SaleInv
  <2>3. onSale # 0 /\ given.beside[onSale].first = Lone =>
           \A answers \in Answers(onSale), price \in Prices :
              QuoteVerdict(onSale, price, title.owner, answers) =
                 IF ~Fetched(answers) THEN "error"
                 ELSE IF price = trail[onSale].price THEN "verified" ELSE "mismatch"
    BY <2>2 DEF QuoteVerdict, ReadFrom
  <2>4. onSale # 0 /\ given.beside[onSale].first = Lone =>
           \A answers \in Answers(onSale) :
              OperationVerdict(onSale, "list", title.owner, answers) =
                 IF Fetched(answers) THEN "verified" ELSE "error"
    BY <2>2, SignedBy
  <2>5. Born /\ trail[title.by].kind \in {"transfer", "batch_transfer"} =>
           trail[title.by].signer = title.previous
    BY <1>1 DEF LightInv, TitleInv, RestsOn
  <2>6. Born /\ trail[title.by].kind \in {"transfer", "batch_transfer"}
        /\ given.beside[title.by].first = Lone =>
           \A answers \in Answers(title.by) :
              OperationVerdict(title.by, "transfer", title.previous, answers) =
                 IF Fetched(answers) THEN "verified" ELSE "error"
    BY <2>5, SignedBy
  <2> QED
    BY <2>1, <2>3, <2>4, <2>6, Zenon DEF HonestProofHolds
<1> QED
  BY <1>1, LightCorrect, PTL

\* The row's buy is the only one that can have taken the asset for a client that
\* sees its window, and pays nothing beside the price under the memos of the sale.
ClearlyBought == title.by \in Buys => Clear(title.by)

\* What guides/spv.md promises of the current owner's buy is so as long as no
\* reservation from before its window reaches into it, the ledger has refused no
\* commitment in it on grounds that clients do not look at, no other transfer
\* runs under a memo of the sale, and neither the listing nor the creation of
\* the collection is twice in its transaction.
THEOREM ClearBuysVerify == LightSpec /\ []ClearlyBought => []HonestBuyVerifies
<1>1. ASSUME LightInv, ClearlyBought PROVE HonestBuyVerifies
  <2> SUFFICES ASSUME Born, title.by \in Buys PROVE CommitmentWon(title.by, DOMAIN trail)
    BY Zenon DEF HonestBuyVerifies
  <2>1. Clear(title.by) /\ ~Misled(title.by)
    BY <1>1 DEF ClearlyBought, Clear
  <2>2. title.by \in settled
    BY <1>1, RowSettled
  <2>3. InRange(title.by) \subseteq DOMAIN trail
    BY DEF InRange
  <2>4. Convincing(title.by, DOMAIN trail)
    BY <1>1, <2>1, <2>2, <2>3, ClientAgrees
  <2> QED
    BY <2>4 DEF Convincing
<1> QED
  BY <1>1, LightCorrect, PTL
-----------------------------------------------------------------------------
(* The ledger that the client is held against implements Custody.           *)

\* What one more operation on the trail makes of the abstract state.
LEMMA ListingsGrow ==
    ASSUME LightInv, NEW op, Recorded(op), op.block = height,
           unseen \subseteq unseen', unseen' \subseteq unseen \cup {Here}
    PROVE  /\ Listings \in Nat
           /\ Listings' = IF op.kind = "list" /\ Here \notin unseen' THEN Listings + 1 ELSE Listings
           /\ Here # 0 /\ trail'[Here] = op
           /\ hold # 0 => trail'[hold] = trail[hold]
           /\ onSale # 0 => trail'[onSale] = trail[onSale]
<1>1. height \in Nat /\ Ordered(trail, height) /\ hold \in 0..Len(trail) /\ onSale \in 0..Len(trail)
  BY DEF LightInv, TrailInv, SaleInv
<1>2. Grown(trail, trail', op) /\ Ordered(trail', height)
  <2>1. trail' = Append(trail, op)
    BY DEF Recorded
  <2> QED
    BY <1>1, <2>1, OneMore
<1>3. DOMAIN trail = 1..Len(trail) /\ DOMAIN trail' = 1..Len(trail')
  <2>1. (\E S : trail \in Seq(S)) /\ \E S : trail' \in Seq(S)
    BY <1>1, <1>2 DEF Ordered
  <2> QED
    BY <2>1
<1>4. PICK n \in Nat : n = Len(trail)
  BY <1>2 DEF Grown
<1>5. /\ DOMAIN trail = 1..n /\ DOMAIN trail' = 1..(n + 1) /\ trail'[n + 1] = op
      /\ \A i \in 1..n : trail'[i] = trail[i]
  BY <1>2, <1>3, <1>4 DEF Grown
<1>6. Here = n + 1
  BY <1>4 DEF Here
<1>7. PICK L : L = {i \in 1..n : trail[i].kind = "list"} \ unseen
  OBVIOUS
<1>8. IsFiniteSet(L) /\ Cardinality(L) \in Nat /\ Listings = Cardinality(L)
  <2>1. IsFiniteSet(1..n)
    BY <1>4, FS_Interval
  <2>2. L \in SUBSET (1..n)
    BY <1>7
  <2>3. IsFiniteSet(L)
    BY <2>1, <2>2, FS_Subset
  <2>4. Listings = Cardinality(L)
    BY <1>5, <1>7, Zenon DEF Listings
  <2> QED
    BY <2>3, <2>4, FS_CardinalityType
<1>9. PICK M : M = {i \in 1..(n + 1) : trail'[i].kind = "list"} \ unseen'
  OBVIOUS
<1>10. Listings' = Cardinality(M)
  BY <1>5, <1>9, Zenon DEF Listings
<1>11. M = IF op.kind = "list" /\ n + 1 \notin unseen' THEN L \cup {n + 1} ELSE L
  <2>1. 1..(n + 1) = (1..n) \cup {n + 1} /\ n + 1 \notin 1..n
    BY <1>4
  <2>2. \A i \in 1..n : i \in unseen' <=> i \in unseen
    BY <1>6, <2>1
  <2> QED
    BY <1>5, <1>7, <1>9, <2>1, <2>2
<1>12. Cardinality(L \cup {n + 1}) = Cardinality(L) + 1
  <2>1. n + 1 \notin L
    BY <1>4, <1>7
  <2> QED
    BY <1>8, <2>1, FS_AddElement
<1>13. /\ hold # 0 => trail'[hold] = trail[hold]
       /\ onSale # 0 => trail'[onSale] = trail[onSale]
  BY <1>1, <1>4, <1>5
<1> QED
  BY <1>5, <1>6, <1>8, <1>10, <1>11, <1>12, <1>13

\* What holds the asset.
LEMMA HeldByIs ==
    ASSUME LightInv, height \in 1..LastHeight
    PROVE  /\ onSale = 0 => hold = 0 /\ HeldBy = Keeping!Free
           /\ onSale # 0 /\ hold = 0 => HeldBy = Keeping!Offer(Listings, trail[onSale].ends)
           /\ hold # 0 => /\ HeldBy = Keeping!Promise(Listings, trail[onSale].ends,
                                                     trail[hold].tx.buyer, Until(hold))
                          /\ height <= Until(hold) /\ Until(hold) \in Nat
           /\ onSale # 0 => trail[onSale].ends \in Nat
<1>1. /\ onSale = 0 => hold = 0
      /\ onSale # 0 => trail[onSale].ends \in Nat
  BY DEF LightInv, SaleInv
<1>2. hold # 0 => height <= Until(hold) /\ Until(hold) \in Nat
  <2> SUFFICES ASSUME hold # 0 PROVE height <= Until(hold) /\ Until(hold) \in Nat
    OBVIOUS
  <2>1. hold = Standing(trail, Seen(unseen), onSale, Len(trail), height)
    BY <1>1 DEF LightInv, SaleInv
  <2>2. trail[hold].block + CommitTtl >= height
    BY <2>1, Zenon DEF Standing
  <2>3. hold \in 1..Len(trail)
    <3>1. hold \in 0..Len(trail)
      BY DEF LightInv, SaleInv
    <3>2. \E S : trail \in Seq(S)
      BY DEF LightInv, TrailInv, Ordered
    <3>3. PICK n \in Nat : n = Len(trail)
      BY <3>2
    <3> QED
      BY <3>1, <3>3
  <2>4. trail[hold].block \in Nat /\ CommitTtl \in Nat
    BY <2>3, LightAssumption DEF LightInv, TrailInv, Ordered
  <2> QED
    BY <2>2, <2>4 DEF Until
<1> QED
  BY <1>1, <1>2 DEF HeldBy, Keeping!Free, Keeping!Offer, Keeping!Promise

\* Nothing changes that holds the asset.
LEMMA StaysHeld ==
    ASSUME UNCHANGED <<height, title, onSale, hold>>, Listings' = Listings,
           hold # 0 => trail'[hold] = trail[hold],
           onSale # 0 => trail'[onSale] = trail[onSale]
    PROVE  UNCHANGED Keeping!custody
<1>1. HeldBy' = HeldBy
  BY DEF HeldBy, Until
<1> QED
  BY <1>1 DEF Keeping!custody

\* What is not on sale, or was offered too long ago, nothing holds.
LEMMA IdleIsLoose ==
    ASSUME LightInv, height \in 1..LastHeight, Idle
    PROVE  HeldBy = Keeping!Free \/ (HeldBy.kind = "offer" /\ height >= HeldBy.ends)
<1>1. CASE onSale = 0
  BY <1>1, HeldByIs
<1>2. CASE onSale # 0
  <2>1. hold = 0 /\ height >= trail[onSale].ends
    BY <1>2 DEF Idle, Over
  <2>2. HeldBy = Keeping!Offer(Listings, trail[onSale].ends)
    BY <1>2, <2>1, HeldByIs
  <2> QED
    BY <2>1, <2>2 DEF Keeping!Offer
<1> QED
  BY <1>1, <1>2

\* An asset that nothing holds is given away.
LEMMA Given ==
    ASSUME LightInv, height \in 1..LastHeight, Idle, UNCHANGED height,
           NEW to, title'.owner = to, onSale' = 0, Listings' = Listings
    PROVE  Keeping!Give({"asset"}, to)
<1>1. HeldBy' = Keeping!Free
  BY DEF HeldBy, Keeping!Free
<1>2. Keeping!Loose("asset")
  BY IdleIsLoose DEF Keeping!Loose
<1> QED
  BY <1>1, <1>2 DEF Keeping!Give, Keeping!Hold

LEMMA HeightKeeping ==
    ASSUME LightInv, height \in 1..LastHeight, NextHeight
    PROVE  Keeping!Pass
<1>1. /\ height < LastHeight /\ height' = height + 1 /\ UNCHANGED <<trail, title, onSale, unseen>>
      /\ hold' = IF hold # 0 /\ Until(hold) < height' THEN 0 ELSE hold
  BY DEF NextHeight
<1>2. Listings' = Listings
  BY <1>1 DEF Listings
<1>3. HeldBy' = IF HeldBy.kind = "promise" /\ HeldBy.until < height'
                THEN Keeping!Offer(HeldBy.id, HeldBy.ends) ELSE HeldBy
  <2>1. CASE hold # 0 /\ Until(hold) < height'
    <3>1. hold' = 0 /\ onSale' # 0
      BY <1>1, <2>1, HeldByIs
    <3>2. HeldBy' = Keeping!Offer(Listings, trail[onSale].ends)
      BY <1>1, <1>2, <3>1 DEF HeldBy, Keeping!Offer
    <3> QED
      BY <2>1, <3>2, HeldByIs DEF Keeping!Promise
  <2>2. CASE ~(hold # 0 /\ Until(hold) < height')
    <3>1. hold' = hold
      BY <1>1, <2>2
    <3>2. HeldBy' = HeldBy
      BY <1>1, <1>2, <3>1 DEF HeldBy, Until
    <3>3. ~(HeldBy.kind = "promise" /\ HeldBy.until < height')
      BY <2>2, HeldByIs DEF Keeping!Promise, Keeping!Offer, Keeping!Free
    <3> QED
      BY <3>2, <3>3
  <2> QED
    BY <2>1, <2>2
<1> QED
  BY <1>1, <1>2, <1>3 DEF Keeping!Pass

LEMMA UnlistKeeping ==
    ASSUME LightInv, height \in 1..LastHeight, UnlistAsset
    PROVE  Keeping!Withdraw("asset")
<1>1. PICK op : /\ Recorded(op) /\ op.block = height /\ op.kind = "unlist"
                /\ onSale # 0 /\ hold = 0 /\ onSale' = 0 /\ UNCHANGED <<height, title, unseen>>
  BY DEF UnlistAsset
<1>2. Listings' = Listings
  BY <1>1, ListingsGrow
<1>3. HeldBy.kind = "offer" /\ HeldBy' = Keeping!Free
  BY <1>1, HeldByIs DEF HeldBy, Keeping!Offer, Keeping!Free
<1> QED
  BY <1>1, <1>2, <1>3 DEF Keeping!Withdraw, Keeping!Hold

LEMMA ListKeeping ==
    ASSUME LightInv, height \in 1..LastHeight, NEW s, NEW price, NEW life \in Lifetimes,
           ListAsset(s, price, life)
    PROVE  Keeping!MakeOffer("asset") \/ UNCHANGED Keeping!custody
<1> DEFINE Stands == s = title.owner /\ Idle
<1>1. PICK op : op = [kind |-> "list", signer |-> s, price |-> price, ends |-> height + life,
                      block |-> height]
  OBVIOUS
<1>2. op.kind = "list" /\ op.block = height /\ op.ends = height + life
  BY <1>1
<1>3. /\ Recorded(op) /\ UNCHANGED <<height, title, hold>>
      /\ onSale' = (IF Stands THEN Here ELSE onSale) /\ RefusedIf(~Stands)
  BY <1>1, Zenon DEF ListAsset
<1>4. unseen' = IF Stands THEN unseen ELSE unseen \cup {Here}
  BY <1>3 DEF RefusedIf
<1>5. /\ Listings' = IF Here \notin unseen' THEN Listings + 1 ELSE Listings
      /\ Here # 0 /\ trail'[Here] = op
      /\ hold # 0 => trail'[hold] = trail[hold]
      /\ onSale # 0 => trail'[onSale] = trail[onSale]
  BY <1>2, <1>3, <1>4, ListingsGrow
<1>6. CASE Stands
  <2>1. hold = 0 /\ hold' = 0 /\ onSale' = Here /\ onSale' # 0
    <3>1. hold = 0
      BY <1>6 DEF Idle
    <3> QED
      BY <1>3, <1>5, <1>6, <3>1
  <2>2. Listings' = Listings + 1
    <3>1. Here \notin unseen'
      <4>1. PICK n \in Nat : n = Len(trail)
        <5>1. PICK S : trail \in Seq(S)
          BY DEF LightInv, TrailInv, Ordered
        <5> QED
          BY <5>1
      <4>2. unseen \subseteq 1..n
        BY <4>1 DEF LightInv, TrailInv
      <4> QED
        BY <1>4, <1>6, <4>1, <4>2 DEF Here
    <3> QED
      BY <1>5, <3>1
  <2>3. HeldBy' = Keeping!Offer(Listings + 1, height + life)
    <3>1. HeldBy' = [kind |-> "offer", id |-> Listings', ends |-> trail'[onSale'].ends]
      BY <2>1, Zenon DEF HeldBy
    <3>2. trail'[onSale'].ends = height + life
      BY <1>2, <1>5, <2>1
    <3> QED
      BY <2>2, <3>1, <3>2 DEF Keeping!Offer
  <2>4. Keeping!Loose("asset")
    BY <1>6, IdleIsLoose DEF Keeping!Loose
  <2>5. Keeping!Hold({"asset"}, Keeping!Offer(Listings + 1, height + life))
    BY <2>3 DEF Keeping!Hold
  <2> QED
    BY <1>3, <2>2, <2>4, <2>5 DEF Keeping!MakeOffer
<1>7. CASE ~Stands
  <2>1. onSale' = onSale
    BY <1>3, <1>7
  <2>2. Listings' = Listings
    BY <1>4, <1>5, <1>7
  <2> QED
    BY <1>3, <1>5, <2>1, <2>2, StaysHeld
<1> QED
  BY <1>6, <1>7

LEMMA OriginateKeeping ==
    ASSUME LightInv, height \in 1..LastHeight, NEW kind \in {"mint", "distribute"},
           NEW s \in Folk, NEW named \in Folk \cup {Nobody}, Originate(kind, s, named)
    PROVE  \E u \in Folk : Keeping!Give({"asset"}, u)
<1>1. PICK op, to : /\ Recorded(op) /\ op.block = height /\ op.kind = kind /\ ~Born
                    /\ to = IF named = Nobody THEN s ELSE named
                    /\ title'.owner = to /\ onSale' = 0 /\ UNCHANGED <<height, unseen>>
  BY DEF Originate, Passes
<1>2. to \in Folk
  BY <1>1
<1>3. Idle
  BY <1>1 DEF LightInv, SaleInv, Idle
<1>4. Listings' = Listings
  BY <1>1, ListingsGrow
<1> QED
  BY <1>1, <1>2, <1>3, <1>4, Given

LEMMA ConveyKeeping ==
    ASSUME LightInv, height \in 1..LastHeight,
           NEW kind \in {"transfer", "batch_transfer", "transfer_from"}, NEW s, NEW to,
           Convey(kind, s, to)
    PROVE  Keeping!Give({"asset"}, to)
<1>1. PICK op : /\ Recorded(op) /\ op.block = height /\ op.kind = kind /\ Idle
                /\ title'.owner = to /\ onSale' = 0 /\ UNCHANGED <<height, unseen>>
  BY DEF Convey, Passes
<1>2. Listings' = Listings
  BY <1>1, ListingsGrow
<1> QED
  BY <1>1, <1>2, Given

LEMMA CommitKeeping ==
    ASSUME LightInv, height \in 1..LastHeight, NEW tx, NEW listing \in DOMAIN trail, NEW able,
           CommitTo(tx, listing, able)
    PROVE  Keeping!MakePromise("asset", tx.buyer) \/ UNCHANGED Keeping!custody
<1> DEFINE Stands == able /\ InForce(listing) /\ tx.buyer # title.owner
           Unknown == ~Stands /\ ~(hold # 0 /\ listing = onSale)
<1>1. PICK op : op = [kind |-> "commit", signer |-> tx.node, listing |-> listing, tx |-> tx,
                      block |-> height]
  OBVIOUS
<1>2. op.kind = "commit" /\ op.tx = tx /\ op.block = height
  BY <1>1
<1>3. /\ Recorded(op) /\ UNCHANGED <<height, title, onSale>> /\ RefusedIf(Unknown)
      /\ hold' = IF Stands /\ hold = 0 THEN Here ELSE hold
  BY <1>1, Zenon DEF CommitTo
<1>4. unseen \subseteq unseen' /\ unseen' \subseteq unseen \cup {Here}
  BY <1>3 DEF RefusedIf
<1>5. /\ Listings' = Listings /\ Here # 0 /\ trail'[Here] = op
      /\ hold # 0 => trail'[hold] = trail[hold]
      /\ onSale # 0 => trail'[onSale] = trail[onSale]
  BY <1>2, <1>3, <1>4, ListingsGrow
<1>6. CASE ~(Stands /\ hold = 0)
  <2>1. hold' = hold
    BY <1>3, <1>6
  <2> QED
    BY <1>3, <1>5, <2>1, StaysHeld
<1>7. CASE Stands /\ hold = 0
  <2>1. /\ listing = onSale /\ ~Over /\ tx.buyer # title.owner /\ hold = 0 /\ hold' = Here
    BY <1>3, <1>7 DEF InForce
  <2>2. onSale # 0
    BY <2>1, NamedMeans
  <2>3. PICK e \in Nat : e = trail[onSale].ends
    BY <2>2 DEF LightInv, SaleInv
  <2>4. PICK h \in Nat : h = height
    OBVIOUS
  <2>5. ~(h >= e)
    BY <2>1, <2>2, <2>3, <2>4 DEF Over
  <2>6. HeldBy = Keeping!Offer(Listings, e)
    BY <2>1, <2>2, <2>3, HeldByIs
  <2>7. HeldBy' = Keeping!Promise(Listings, e, tx.buyer, height + CommitTtl)
    <3>1. HeldBy' = [kind |-> "promise", id |-> Listings', ends |-> trail'[onSale'].ends,
                     buyer |-> trail'[hold'].tx.buyer, until |-> Until(hold)']
      <4>1. onSale' # 0 /\ hold' # 0
        BY <1>3, <1>5, <2>1, <2>2
      <4> QED
        BY <4>1, Zenon DEF HeldBy
    <3>2. Until(hold)' = height + CommitTtl
      BY <1>2, <1>5, <2>1 DEF Until
    <3>3. trail'[onSale'].ends = e /\ trail'[hold'].tx.buyer = tx.buyer
      BY <1>2, <1>3, <1>5, <2>1, <2>2, <2>3
    <3> QED
      BY <1>5, <3>1, <3>2, <3>3, Zenon DEF Keeping!Promise
  <2>8. HeldBy.kind = "offer" /\ HeldBy.id = Listings /\ HeldBy.ends = e /\ HeldBy # Keeping!Free
    BY <2>6 DEF Keeping!Offer, Keeping!Free
  <2>9. ~Keeping!Loose("asset")
    BY <2>4, <2>5, <2>8 DEF Keeping!Loose
  <2>10. Keeping!Hold({"asset"}, Keeping!Promise(Listings, e, tx.buyer, height + CommitTtl))
    BY <2>7 DEF Keeping!Hold
  <2> QED
    BY <1>3, <1>5, <2>1, <2>8, <2>9, <2>10 DEF Keeping!MakePromise
<1> QED
  BY <1>6, <1>7

LEMMA PurchaseKeeping ==
    ASSUME LightInv, height \in 1..LastHeight, NEW tx, NEW listing \in DOMAIN trail, NEW able,
           Purchase(tx, listing, able)
    PROVE  Keeping!KeepPromise("asset") \/ UNCHANGED Keeping!custody
<1> DEFINE Stands == able /\ InForce(listing)
           Settles == Stands /\ hold # 0 /\ trail[hold].tx = tx /\ PaidFor(tx, listing)
<1>1. PICK op : op = [kind |-> "buy", signer |-> tx.node, listing |-> listing, tx |-> tx,
                      block |-> height]
  OBVIOUS
<1>2. op.kind = "buy" /\ op.block = height
  BY <1>1
<1>3. /\ Recorded(op) /\ height' = height /\ RefusedIf(~Stands)
      /\ Settles => Passes(tx.buyer, Here)
      /\ ~Settles => UNCHANGED <<title, onSale, hold>>
  BY <1>1, Zenon DEF Purchase
<1>4. unseen \subseteq unseen' /\ unseen' \subseteq unseen \cup {Here}
  BY <1>3 DEF RefusedIf
<1>5. /\ Listings' = Listings
      /\ hold # 0 => trail'[hold] = trail[hold]
      /\ onSale # 0 => trail'[onSale] = trail[onSale]
  BY <1>2, <1>3, <1>4, ListingsGrow
<1>6. CASE ~Settles
  BY <1>3, <1>5, <1>6, StaysHeld
<1>7. CASE Settles
  <2>1. hold # 0 /\ trail[hold].tx = tx /\ listing = onSale /\ ~Over
    BY <1>7 DEF InForce
  <2>2. onSale # 0
    BY <2>1, NamedMeans
  <2>3. title'.owner = tx.buyer /\ onSale' = 0
    BY <1>3, <1>7 DEF Passes
  <2>4. PICK e \in Nat : e = trail[onSale].ends
    BY <2>2 DEF LightInv, SaleInv
  <2>5. PICK h \in Nat : h = height
    OBVIOUS
  <2>6. h < e
    BY <2>1, <2>2, <2>4, <2>5 DEF Over
  <2>7. /\ HeldBy = Keeping!Promise(Listings, e, tx.buyer, Until(hold)) /\ height <= Until(hold)
    BY <2>1, <2>4, HeldByIs
  <2>8. HeldBy' = Keeping!Free
    BY <2>3 DEF HeldBy, Keeping!Free
  <2>9. /\ HeldBy.kind = "promise" /\ HeldBy.until = Until(hold) /\ HeldBy.ends = e
        /\ HeldBy.buyer = tx.buyer
    BY <2>7 DEF Keeping!Promise
  <2>10. Keeping!Hold({"asset"}, Keeping!Free)
    BY <2>8 DEF Keeping!Hold
  <2>11. height <= HeldBy.until /\ height < HeldBy.ends
    BY <2>5, <2>6, <2>7, <2>9
  <2> QED
    BY <1>3, <1>5, <2>3, <2>9, <2>10, <2>11 DEF Keeping!KeepPromise
<1> QED
  BY <1>6, <1>7

LEMMA KeepingStep ==
    LightInv /\ height \in 1..LastHeight /\ [LightNext]_lightVars =>
        [Keeping!CustodyNext]_(Keeping!custody)
<1> SUFFICES ASSUME LightInv, height \in 1..LastHeight, [LightNext]_lightVars
             PROVE  [Keeping!CustodyNext]_(Keeping!custody)
  OBVIOUS
<1>1. NextHeight => Keeping!CustodyNext
  BY HeightKeeping DEF Keeping!CustodyNext
<1>2. UnlistAsset => Keeping!CustodyNext
  BY UnlistKeeping DEF Keeping!CustodyNext
<1>3. (\E signer \in Folk, price \in Prices, life \in Lifetimes : ListAsset(signer, price, life))
      => Keeping!CustodyNext \/ UNCHANGED Keeping!custody
  BY ListKeeping DEF Keeping!CustodyNext
<1>4. (\E kind \in {"mint", "distribute"}, s \in Folk, named \in Folk \cup {Nobody} :
          Originate(kind, s, named))
      => Keeping!CustodyNext
  BY OriginateKeeping DEF Keeping!CustodyNext
<1>5. (\E kind \in {"transfer", "batch_transfer", "transfer_from"}, s \in Folk, to \in Folk :
          Convey(kind, s, to))
      => Keeping!CustodyNext
  BY ConveyKeeping DEF Keeping!CustodyNext
<1>6. (\E tx \in BuyTxs, listing \in DOMAIN trail, able \in BOOLEAN : CommitTo(tx, listing, able))
      => Keeping!CustodyNext \/ UNCHANGED Keeping!custody
  <2>1. \A tx \in BuyTxs : tx.buyer \in Folk \cup {t.buyer : t \in BuyTxs} \cup {Nobody}
    OBVIOUS
  <2> QED
    BY <2>1, CommitKeeping DEF Keeping!CustodyNext
<1>7. (\E tx \in BuyTxs, listing \in DOMAIN trail, able \in BOOLEAN : Purchase(tx, listing, able))
      => Keeping!CustodyNext \/ UNCHANGED Keeping!custody
  BY PurchaseKeeping DEF Keeping!CustodyNext
<1>8. UNCHANGED lightVars => UNCHANGED Keeping!custody
  BY DEF lightVars, Keeping!custody, HeldBy, Listings, Until
<1>9. \/ NextHeight \/ UnlistAsset
      \/ \E signer \in Folk, price \in Prices, life \in Lifetimes : ListAsset(signer, price, life)
      \/ \E kind \in {"mint", "distribute"}, s \in Folk, named \in Folk \cup {Nobody} :
            Originate(kind, s, named)
      \/ \E kind \in {"transfer", "batch_transfer", "transfer_from"}, s \in Folk, to \in Folk :
            Convey(kind, s, to)
      \/ \E tx \in BuyTxs, listing \in DOMAIN trail, able \in BOOLEAN : CommitTo(tx, listing, able)
      \/ \E tx \in BuyTxs, listing \in DOMAIN trail, able \in BOOLEAN : Purchase(tx, listing, able)
      \/ UNCHANGED lightVars
  BY Zenon DEF LightNext
<1> QED
  BY <1>1, <1>2, <1>3, <1>4, <1>5, <1>6, <1>7, <1>8, <1>9, Zenon

\* The ledger that clients are held against is one that implements Custody: for
\* every trail, and whatever the purchases on it pay, the asset goes only to
\* those it may go to.
THEOREM TrailImplementsCustody == LightSpec => TrailKeepsCustody
<1>1. LightInit => height \in 1..LastHeight /\ Keeping!CustodyInit
  <2> SUFFICES ASSUME LightInit PROVE height \in 1..LastHeight /\ Keeping!CustodyInit
    OBVIOUS
  <2>1. Listings = 0
    BY FS_EmptySet DEF LightInit, Listings
  <2>2. HeldBy = Keeping!Free /\ title.owner = Nobody /\ height = 1
    BY DEF LightInit, HeldBy, Keeping!Free
  <2>3. height \in 1..LastHeight
    BY <2>2, LightAssumption
  <2> QED
    BY <2>1, <2>2, <2>3 DEF Keeping!CustodyInit
<1>2. height \in 1..LastHeight /\ [LightNext]_lightVars => (height \in 1..LastHeight)'
  <2> SUFFICES ASSUME height \in 1..LastHeight, [LightNext]_lightVars
               PROVE  height' \in 1..LastHeight
    OBVIOUS
  <2>1. NextHeight => height < LastHeight /\ height' = height + 1
    BY DEF NextHeight
  <2>2. UnlistAsset \/ (\E s, price, life : ListAsset(s, price, life)) => UNCHANGED height
    BY Zenon DEF UnlistAsset, ListAsset
  <2>3. \A kind, s, to : Originate(kind, s, to) \/ Convey(kind, s, to) => UNCHANGED height
    BY DEF Originate, Convey
  <2>4. \A tx, listing, able : CommitTo(tx, listing, able) \/ Purchase(tx, listing, able)
                               => UNCHANGED height
    BY Zenon DEF CommitTo, Purchase
  <2>5. UNCHANGED height \/ (height < LastHeight /\ height' = height + 1)
    BY <2>1, <2>2, <2>3, <2>4 DEF LightNext, lightVars
  <2> QED
    BY <2>5, LightAssumption
<1> QED
  BY <1>1, <1>2, KeepingStep, LightCorrect, PTL DEF LightSpec, TrailKeepsCustody, Keeping!CustodySpec
=============================================================================
