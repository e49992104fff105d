------------------------------ MODULE HiveAccess ------------------------------
(***************************************************************************)
(* How the indexer reads Hive: a pool of endpoints with a circuit breaker  *)
(* each (hafahHealth; rpcHealth is another, that no range uses), calls     *)
(* that fail over between them, ranges of operations read page by page,    *)
(* and the head agreed on between the endpoints that answer.               *)
(*                                                                         *)
(* An endpoint may answer, fail or ask for patience at any time.  It does  *)
(* not make up operations of the range, and it does not end a range early  *)
(* (the client could not tell); its pages may overlap, its cursors go      *)
(* round, its answers be garbled or hold what was not asked for.           *)
(*                                                                         *)
(* An operation is [id, block, ours, sound]: its operation_id and block,   *)
(* whether it bears the protocol's id, and whether its fields have the     *)
(* types they should.                                                      *)
(***************************************************************************)
EXTENDS Integers, Sequences, FiniteSets, FiniteSetsExt, SequencesExt

CONSTANTS
    Endpoints,      \* how many HIVE_ENDPOINTS
    Callers,        \* the calls that are made; "range" excludes what it tried
    OpenAfter,      \* OPEN_AFTER_FAILURES
    CooldownBase,   \* COOLDOWN_BASE_MS
    CooldownMax,    \* COOLDOWN_MAX_MS
    RateLimit,      \* RATE_LIMIT_DEFAULT_MS
    Asked,          \* the blocks of the range
    Wanted,         \* the protocol's operations in the range, in order
    Books,          \* what an endpoint may serve: cursor -> [sound, ops, next]
    MaxPages,       \* HAFAH_MAX_PAGES
    Heads,          \* heads an endpoint may report: [head, lib]
    Turns,          \* bound: roundRobinIndex is kept modulo a multiple of every pool's size
    LastMoment      \* bound: time

Hosts == 1..Endpoints

ASSUME AccessAssumption ==
    /\ {Endpoints, OpenAfter, CooldownBase, CooldownMax, MaxPages, Turns} \subseteq Nat \ {0}
    /\ {RateLimit, LastMoment} \subseteq Nat
    /\ Heads \subseteq [head : Nat, lib : Nat]
    /\ \A n \in Hosts : Turns % n = 0

VARIABLES
    moment,         \* the time
    breaker,        \* breaker[h]: [state, fails, cooldown, openUntil, limitedUntil]
    turn,           \* roundRobinIndex
    call,           \* call[c]: [phase, asking, attempts, tried, asked, got]
    agreed          \* the head that was agreed on, with the answers: [head, of]

accessVars == <<moment, breaker, turn, call, agreed>>

NoAnswer == [head |-> 0, lib |-> 0]
Idle == [phase |-> "idle", asking |-> 0, attempts |-> 0, tried |-> {}, asked |-> {}, got |-> <<>>]

AccessInit ==
    /\ moment = 0 /\ turn = 0 /\ agreed = [head |-> NoAnswer, of |-> <<>>]
    /\ breaker = [h \in Hosts |-> [state |-> "closed", fails |-> 0, cooldown |-> CooldownBase,
                                   openUntil |-> 0, limitedUntil |-> 0]]
    /\ call = [c \in Callers |-> Idle]
-----------------------------------------------------------------------------
(* The pool. *)

\* Breakers that have been open long enough let a probe through.
Cooled(pool) ==
    [h \in Hosts |-> IF h \in pool /\ breaker[h].state = "open" /\ moment >= breaker[h].openUntil
                     THEN [breaker[h] EXCEPT !.state = "half_open"] ELSE breaker[h]]

InState(hosts, b, state) == {h \in hosts : b[h].state = state}

\* The n-th of the hosts as they are configured, from 0 on and round.
Nth(hosts, n) ==
    CHOOSE h \in hosts : Cardinality({g \in hosts : g < h}) = n % Cardinality(hosts)

\* selectEndpoint: closed in turn, else the first that is half open, else the
\* one that opens first; who asked for patience only if there is nobody else.
Select(excluded) ==
    LET pool == IF Hosts \subseteq excluded THEN Hosts ELSE Hosts \ excluded
        b == Cooled(pool)
        patient == {h \in pool : b[h].limitedUntil <= moment}
        some == IF patient = {} \/ Cardinality(pool) = 1 THEN pool ELSE patient
        inTurn == Cardinality(pool) > 1 /\ InState(some, b, "closed") # {}
        soonest == {h \in some : \A g \in some : b[h].openUntil <= b[g].openUntil}
        host == CASE inTurn -> Nth(InState(some, b, "closed"), turn)
                  [] ~inTurn /\ InState(some, b, "half_open") # {} -> Min(InState(some, b, "half_open"))
                  [] OTHER -> Min(soonest)
    IN  [host |-> host, inTurn |-> inTurn,
         breaker |-> IF b[host].state = "open" THEN [b EXCEPT ![host].state = "half_open"] ELSE b]

Well(row) ==
    [row EXCEPT !.fails = 0,
                !.state = IF @ = "half_open" THEN "closed" ELSE @,
                !.cooldown = IF row.state = "half_open" THEN CooldownBase ELSE @]

Opened(row, cooldown) ==
    [row EXCEPT !.fails = @ + 1, !.state = "open", !.cooldown = cooldown, !.openUntil = moment + cooldown]

Failed(row, category) ==
    CASE category = "rate_limited" -> [row EXCEPT !.limitedUntil = moment + RateLimit]
      [] category # "rate_limited" /\ row.state = "half_open" ->
            Opened(row, Min({2 * row.cooldown, CooldownMax}))
      [] category # "rate_limited" /\ row.state = "closed" /\ row.fails + 1 >= OpenAfter ->
            Opened(row, row.cooldown)
      [] OTHER -> [row EXCEPT !.fails = Min({@ + 1, OpenAfter})]
-----------------------------------------------------------------------------
(* A range, page by page. *)

NoCursor == 0

\* readHafAHResponse: the envelope, its cursor, and each operation's fields.
Readable(page) == page.sound /\ \A op \in ToSet(page.ops) : op.sound

\* validateHafAHPage, with the ids of the pages before.
Fitting(page, ids) ==
    /\ \A op \in ToSet(page.ops) : op.block \in Asked /\ op.id \notin ids
    /\ \A i, j \in DOMAIN page.ops : i # j => page.ops[i].id # page.ops[j].id

Ours(ops) == SelectSeq(ops, LAMBDA op : op.ours)

IdsOn(page) == {op.id : op \in ToSet(page.ops)}

Unread == [ops |-> <<>>, ids |-> {}, cursor |-> 1, seen |-> {}, status |-> "more"]

\* One page more, if there is one to come.
PageTurned(book, was) ==
    LET page == book[was.cursor]
    IN  IF was.status # "more" THEN was
        ELSE IF ~(Readable(page) /\ Fitting(page, was.ids)) THEN [was EXCEPT !.status = "error"]
        ELSE [ops |-> was.ops \o Ours(page.ops), ids |-> was.ids \cup IdsOn(page),
              cursor |-> page.next, seen |-> was.seen \cup {was.cursor},
              status |-> CASE page.next = NoCursor -> "done"
                           [] page.next # NoCursor /\ page.next \in was.seen \cup {was.cursor} -> "error"
                           [] OTHER -> "more"]

\* What the client has in the end, from the first cursor on and no page after MaxPages.
Reading(book) ==
    LET turned[n \in 0..MaxPages] == IF n = 0 THEN Unread ELSE PageTurned(book, turned[n - 1])
    IN  turned[MaxPages]
-----------------------------------------------------------------------------
(* What an endpoint may serve. *)

\* The way from the first cursor to the last, over pages the client takes.
ReadThrough(book, way) ==
    /\ way[1] = 1 /\ book[way[Len(way)]].next = NoCursor
    /\ \A i \in 1..(Len(way) - 1) : way[i + 1] = book[way[i]].next
    /\ \A i \in DOMAIN way :
          Readable(book[way[i]]) /\ Fitting(book[way[i]], UNION {IdsOn(book[way[j]]) : j \in 1..(i - 1)})

\* It holds what is wanted, cut at some places into pages.
CutUp(book, way) ==
    \E cut \in [0..Len(way) -> 0..Len(Wanted)] :
        /\ cut[0] = 0 /\ cut[Len(way)] = Len(Wanted)
        /\ \A i \in DOMAIN way :
              /\ cut[i - 1] <= cut[i]
              /\ Ours(book[way[i]].ops) = SubSeq(Wanted, cut[i - 1] + 1, cut[i])

ASSUME BooksAreHonest ==
    /\ Wanted \in Seq(ToSet(Wanted))
    /\ \A book \in Books :
          /\ 1 \in DOMAIN book /\ NoCursor \notin DOMAIN book
          /\ \A at \in DOMAIN book : book[at].next \in DOMAIN book \cup {NoCursor}
          /\ \A n \in 1..MaxPages : \A way \in [1..n -> DOMAIN book] :
                ReadThrough(book, way) => CutUp(book, way)
-----------------------------------------------------------------------------
(* Calls. *)

\* Mutant: a range, too, takes whatever the pool gives it.
NeverExcluded(c) == {}

\* What a range has tried, until it has tried them all.
Excluded(c) == IF c = "range" /\ Cardinality(call[c].tried) < Endpoints THEN call[c].tried ELSE {}

Ask(c) ==
    /\ call[c].phase \in {"idle", "waiting"}
    /\ LET choice == Select(Excluded(c))
       IN  /\ breaker' = choice.breaker
           /\ turn' = IF choice.inTurn THEN (turn + 1) % Turns ELSE turn
           /\ call' = [call EXCEPT ![c] =
                [call[c] EXCEPT !.phase = "asking", !.asking = choice.host,
                                !.tried = IF c = "range" THEN Excluded(c) \cup {choice.host} ELSE {},
                                !.asked = IF c = "range" THEN call[c].asked \cup {choice.host} ELSE {}]]
    /\ UNCHANGED <<moment, agreed>>

Succeed(c, ops) ==
    /\ breaker' = [breaker EXCEPT ![call[c].asking] = Well(@)]
    /\ call' = [call EXCEPT ![c] = [call[c] EXCEPT !.phase = "done", !.asking = 0, !.got = ops]]

Fail(c, category) ==
    /\ breaker' = [breaker EXCEPT ![call[c].asking] = Failed(@, category)]
    /\ call' = [call EXCEPT ![c] =
         [call[c] EXCEPT !.attempts = call[c].attempts + 1, !.asking = 0,
                         !.phase = IF call[c].attempts + 1 = 2 * Endpoints THEN "failed" ELSE "waiting"]]

\* An endpoint serves a book, or nothing.
Serve(c, book) ==
    /\ call[c].phase = "asking"
    /\ IF c # "range" THEN Succeed(c, <<>>)
       ELSE IF Reading(book).status = "done" THEN Succeed(c, Reading(book).ops) ELSE Fail(c, "unknown")
    /\ UNCHANGED <<moment, turn, agreed>>

Refuse(c, category) ==
    /\ call[c].phase = "asking" /\ Fail(c, category)
    /\ UNCHANGED <<moment, turn, agreed>>
-----------------------------------------------------------------------------
(* The head. *)

Before(a, b) == a.lib < b.lib \/ (a.lib = b.lib /\ a.head < b.head)

\* What stands at place k, from 0 on, when the answers are sorted.
Ranked(answers, k) ==
    CHOOSE a \in Range(answers) :
        /\ Cardinality({h \in DOMAIN answers : Before(answers[h], a)}) <= k
        /\ Cardinality({h \in DOMAIN answers : ~Before(a, answers[h])}) > k

\* Mutant: the upper of the two in the middle.
UpperMedian(answers) == Ranked(answers, Cardinality(DOMAIN answers) \div 2)

LowerMedian(answers) == Ranked(answers, (Cardinality(DOMAIN answers) - 1) \div 2)

\* Every endpoint is asked; those that answer are compared.
AgreeOnHead(up, reported) ==
    LET answers == [h \in up |-> reported[h]]
    IN  /\ up # {}
        /\ agreed' = [head |-> LowerMedian(answers), of |-> answers]
        /\ UNCHANGED <<moment, breaker, turn, call>>

Pass ==
    /\ moment < LastMoment /\ moment' = moment + 1
    /\ UNCHANGED <<breaker, turn, call, agreed>>

CallsNext ==
    \/ Pass
    \/ \E c \in Callers :
        \/ Ask(c) \/ \E book \in Books : Serve(c, book)
        \/ \E category \in {"transient", "rate_limited"} : Refuse(c, category)

HeadNext == \E up \in SUBSET Hosts, reported \in [Hosts -> Heads] : AgreeOnHead(up, reported)

AccessNext == CallsNext \/ HeadNext

AccessSpec == AccessInit /\ [][AccessNext]_accessVars
-----------------------------------------------------------------------------
(* Properties. *)

\* However the breakers stand, and whatever the calls that share the pool do
\* meanwhile, a range of blocks is given up only when every endpoint was asked
\* for it; and a range that was read is complete, in order and has nothing
\* twice, however the endpoint cut it into pages.
RangeSettled ==
    \A c \in Callers \cap {"range"} :
        /\ call[c].phase = "failed" => call[c].asked = Hosts
        /\ call[c].phase = "done" => call[c].got = Wanted

\* More than half of those that answered have made the agreed block irreversible,
\* and at least half no later one: a minority that is ahead, or that makes blocks
\* up, does not move the indexer past the others, and one behind does not stop it.
HeadIsBacked ==
    LET answered == DOMAIN agreed.of
        Reached == {h \in answered : agreed.of[h].lib >= agreed.head.lib}
        NotPassed == {h \in answered : agreed.of[h].lib <= agreed.head.lib}
        n == Cardinality(answered)
    IN  n > 0 => 2 * Cardinality(Reached) > n /\ 2 * Cardinality(NotPassed) >= n
=============================================================================
