------------------------------- MODULE ApiCache -------------------------------
(***************************************************************************)
(* The API's routes (all but stats, module StatsApi) and the cache that    *)
(* they share.  Every handler has the same steps: check the request, build *)
(* a key, answer from the cache, or else query the database, keep the      *)
(* result for some time and answer.  What differs is in the table below.   *)
(* Handlers interleave at their queries: two that miss the same key both   *)
(* query, and the older result may be kept last.                           *)
(*                                                                         *)
(* The database is a version: 0 is the empty one, each write makes the     *)
(* next.  The keys of different routes differ, so that one route is        *)
(* enough; TLC takes each in turn.                                         *)
(***************************************************************************)
EXTENDS Naturals, Sequences, FiniteSets

CONSTANTS
    Client,
    None,
    Units(_),    \* of time in so many seconds
    MaxQuery,    \* the longest time from a query's read to the answer
    MaxVersion   \* bound: writes to the database

ASSUME CacheAssumption ==
    /\ \A s \in {60, 300, 900, 3600, 43200} : Units(s) \in Nat /\ Units(s) <= Units(43200)
    /\ {MaxQuery, MaxVersion} \subseteq Nat

------------------------------------------------------------------------------
(* A route: its parameters, those in the cache key, those that are checked,  *)
(* the entry's time in seconds, whether an empty result is kept as well, and *)
(* the number of queries.                                                    *)

Route(name, params, key, checked, ttl, empties, queries) ==
    [ name |-> name, params |-> params, key |-> key, checked |-> checked,
      ttl |-> ttl, empties |-> empties, queries |-> queries ]

AccountsKey == {"accounts", "tags", "offset", "limit"}
accounts == Route("accounts", AccountsKey \cup {"order_by", "order_by_direction"}, AccountsKey,
                  {"limit", "offset", "order_by_direction"}, 3600, FALSE, 1)
accounts_send == Route("accounts_send", {"hours", "limit"}, {"hours"}, {}, 60, FALSE, 1)
unconfirmed_summary == Route("unconfirmed_summary", {}, {}, {}, 60, TRUE, 1)
UnconfirmedKey == {"limit", "offset", "balance_min", "balance_max", "sort_by", "sort_order"}
unconfirmed_accounts == Route("unconfirmed_accounts", UnconfirmedKey, UnconfirmedKey,
                              UnconfirmedKey \ {"limit", "offset"}, 300, TRUE, 1)
blocks_per_day == Route("blocks_per_day", {"address"}, {"address"}, {"address"}, 60, FALSE, 1)
\* Aggregates without a GROUP BY are a row even of no blocks: never empty.
account_stats == Route("account_stats", {"address"}, {"address"}, {"address"}, 60, TRUE, 1)
account_open == Route("account_open", {"address"}, {"address"}, {"address"}, 60, FALSE, 1)
SummaryKey == {"address", "type", "offset", "limit"}
blocks_summary == Route("blocks_summary", SummaryKey, SummaryKey, {"address", "type"}, 60, TRUE, 1)
balance_history == Route("balance_history", {"address"}, {"address"}, {"address"}, 43200, FALSE, 1)
blocks_send == Route("blocks_send", {"hours", "limit", "offset"}, {"hours"}, {}, 60, FALSE, 1)
confirmed_summary == Route("confirmed_summary", {"period"}, {"period"}, {"period"}, 900, TRUE, 1)
unconfirmed_blocks == Route("unconfirmed_blocks", {}, {}, {}, 300, TRUE, 2)
ledger_daily == Route("ledger_daily", {}, {}, {}, 900, TRUE, 1)
status == Route("status", {}, {}, {}, 3600, TRUE, 2)
price_history == Route("price_history", {}, {}, {}, 43200, FALSE, 1)

Routes == { accounts, accounts_send, unconfirmed_summary, unconfirmed_accounts, blocks_per_day,
            account_stats, account_open, blocks_summary, balance_history, blocks_send,
            confirmed_summary, unconfirmed_blocks, ledger_daily, status, price_history }

------------------------------------------------------------------------------

VARIABLES
    route,      \* the route
    asked,      \* the requests: one or two
    version,    \* of the database
    cache,      \* by key: None or a result and the time it is kept for
    handlers,   \* by client: None or the queries of its request
    answer      \* history: the last answer and the request it was for

cacheVars == <<route, asked, version, cache, handlers, answer>>

\* The values of a parameter: 1 and 2, for a period and for accounts a third one,
\* and 0, a wrong one, where that is checked.
Values(p) ==
    (IF p \in {"period", "accounts"} THEN 1 .. 3 ELSE 1 .. 2)
        \cup (IF p \in route.checked THEN {0} ELSE {})

Valid(request) == \A p \in route.checked : request[p] # 0

\* What accounts and tags are in the path that is the key of accounts: 1 is none;
\* the third accounts is the text "tags/x", which reads like the second tags.
AccountsPath == << <<>>, <<"a">>, <<"tags", "x">> >>
TagsPath == << <<>>, <<"tags", "x">> >>

\* Mutant: the key leaves out the limit.
KeyOfLess(request) == [p \in route.key \ {"limit"} |-> request[p]]

\* The texts of the other routes tell their parameters apart: no parameter can hold
\* what separates it from the next.
KeyOf(request) ==
    IF route # accounts THEN [p \in route.key |-> request[p]]
    ELSE [ path |-> AccountsPath[request["accounts"]] \o TagsPath[request["tags"]],
           offset |-> request["offset"], limit |-> request["limit"] ]

Keys == { KeyOf(r) : r \in asked }

\* The query of accounts compares a column "account" that both joined tables have:
\* with accounts to look for it throws.
Ambiguous(request) == route = accounts /\ request["accounts"] # 1

\* The longer the period, the longer it is kept: minutes and an hour, hours and a
\* day, days.
cache_ttl(request) ==
    Units(IF route # confirmed_summary THEN route.ttl
          ELSE IF request["period"] = 1 THEN 300
          ELSE IF request["period"] = 2 THEN 900 ELSE 3600)

\* A result: of which request, what each query read (a version), and its age.
Result(request) == [request |-> request, read |-> <<>>, age |-> 0]
IsEmpty(result) == \A i \in DOMAIN result.read : result.read[i] = 0

CacheInit ==
    /\ route \in Routes
    /\ LET plain == [p \in route.params |-> 1]
       IN  \/ asked = {plain}
           \/ \E p \in route.params : \E v \in Values(p) :
                 asked = {plain, [plain EXCEPT ![p] = v]}
           \/ /\ route = accounts
              /\ asked = {[plain EXCEPT !["accounts"] = 3], [plain EXCEPT !["tags"] = 2]}
    /\ version = 0
    /\ cache = [k \in Keys |-> None]
    /\ handlers = [c \in Client |-> None]
    /\ answer = None

\* An importer or a rollup writes what the route reads.
Write ==
    /\ version < MaxVersion
    /\ version' = version + 1
    /\ UNCHANGED <<route, asked, cache, handlers, answer>>

Answer(request, result, hit) ==
    answer' = [request |-> request, result |-> result, hit |-> hit]

Reject(c, request) ==
    /\ handlers[c] = None
    /\ ~Valid(request)
    /\ answer' = None
    /\ UNCHANGED <<route, asked, version, cache, handlers>>

\* Mutant: an entry's time starts again when it is used.
HitRenews(c, request) ==
    /\ handlers[c] = None
    /\ Valid(request) /\ cache[KeyOf(request)] # None
    /\ Answer(request, cache[KeyOf(request)].result, TRUE)
    /\ cache' = [cache EXCEPT ![KeyOf(request)].left = cache_ttl(request)]
    /\ UNCHANGED <<route, asked, version, handlers>>

Hit(c, request) ==
    /\ handlers[c] = None
    /\ Valid(request) /\ cache[KeyOf(request)] # None
    /\ Answer(request, cache[KeyOf(request)].result, TRUE)
    /\ UNCHANGED <<route, asked, version, cache, handlers>>

Miss(c, request) ==
    /\ handlers[c] = None
    /\ Valid(request) /\ cache[KeyOf(request)] = None
    /\ handlers' = [handlers EXCEPT ![c] = Result(request)]
    /\ UNCHANGED <<route, asked, version, cache, answer>>

\* The next query reads the database.
Query(c) ==
    /\ handlers[c] # None
    /\ Len(handlers[c].read) < route.queries
    /\ handlers' = [handlers EXCEPT ![c].read = Append(@, version)]
    /\ UNCHANGED <<route, asked, version, cache, answer>>

\* Mutant: an empty result is kept like any other.
KeptAlways(result) == TRUE

Kept(result) == route.empties \/ ~IsEmpty(result)

\* The last query has returned: the entry is set, over any other, and the answer
\* is sent.
Finish(c) ==
    LET result == handlers[c]
    IN  /\ result # None
        /\ Len(result.read) = route.queries /\ ~Ambiguous(result.request)
        /\ cache' = IF Kept(result)
                    THEN [cache EXCEPT ![KeyOf(result.request)] =
                            [result |-> result, left |-> cache_ttl(result.request)]]
                    ELSE cache
        /\ Answer(result.request, result, FALSE)
        /\ handlers' = [handlers EXCEPT ![c] = None]
        /\ UNCHANGED <<route, asked, version>>

\* A query throws: status 500, and the cache is left alone.
Fails(c) ==
    /\ handlers[c] # None
    /\ handlers' = [handlers EXCEPT ![c] = None]
    /\ answer' = None
    /\ UNCHANGED <<route, asked, version, cache>>

\* Bound: ages from here on are not told apart; StalenessIsBounded allows none of them.
AgeBound == MaxQuery + Units(43200) + 1

\* A result ages from its first read on.
Older(result) ==
    [result EXCEPT !.age = IF result.read = <<>> \/ @ = AgeBound THEN @ ELSE @ + 1]

\* A unit of time passes: entries expire.  Assumption: no query takes longer
\* than MaxQuery.
EntriesAge ==
    /\ \A c \in Client : handlers[c] # None => handlers[c].age < MaxQuery
    /\ cache' = [k \in Keys |->
          IF cache[k] = None \/ cache[k].left = 0 THEN None
          ELSE [result |-> Older(cache[k].result), left |-> cache[k].left - 1]]
    /\ handlers' = [c \in Client |-> IF handlers[c] = None THEN None ELSE Older(handlers[c])]
    /\ answer' = None
    /\ UNCHANGED <<route, asked, version>>

\* The server dies and is started again.
Restart ==
    /\ cache' = [k \in Keys |-> None]
    /\ handlers' = [c \in Client |-> None]
    /\ answer' = None
    /\ UNCHANGED <<route, asked, version>>

CacheNext ==
    \/ Write \/ EntriesAge \/ Restart
    \/ \E c \in Client, r \in asked : Reject(c, r) \/ Hit(c, r) \/ Miss(c, r)
    \/ \E c \in Client : Query(c) \/ Finish(c) \/ Fails(c)

CacheSpec == CacheInit /\ [][CacheNext]_cacheVars

\* Time passes and every query returns; nobody has to ask.
FairCacheSpec ==
    /\ CacheSpec
    /\ WF_cacheVars(EntriesAge)
    /\ \A c \in Client : WF_cacheVars(Query(c)) /\ WF_cacheVars(Finish(c) \/ Fails(c))

------------------------------------------------------------------------------
(* Properties *)

\* The parameters that a route reads and its key leaves out.
Forgotten ==
    { <<"accounts", "order_by">>, <<"accounts", "order_by_direction">>,
      <<"accounts_send", "limit">>, <<"blocks_send", "limit">>, <<"blocks_send", "offset">> }

\* Whoever filled the entry, an answer is the result of the queries for a request
\* that agrees with its own in every parameter, with two exceptions of the code's:
\* the parameters of Forgotten, and accounts given as "tags/x", which are
\* answered with what was found for the tag x.
AnswersTheRequest ==
    answer # None =>
        \A p \in route.params :
            \/ answer.request[p] = answer.result.request[p]
            \/ <<route.name, p>> \in Forgotten
            \/ route = accounts /\ p \in {"accounts", "tags"} /\ answer.request["accounts"] = 3

\* No answer is older than the longest query and the entry's time together, even
\* if handlers overtake one another; where empty results are not kept, an empty
\* answer is no older than a query.
StalenessIsBounded ==
    answer # None =>
        answer.result.age <= MaxQuery
            + (IF IsEmpty(answer.result) /\ ~route.empties THEN 0 ELSE cache_ttl(answer.result.request))

\* Once nothing is written any more, what is kept is the last version for good,
\* though handlers that had read before may set their entries late and hits go on.
CatchesUp ==
    <>[](\A k \in Keys : cache[k] # None =>
            \A i \in DOMAIN cache[k].result.read : cache[k].result.read[i] = version)
===============================================================================
