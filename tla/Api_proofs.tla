------------------------------ MODULE Api_proofs ------------------------------
(***************************************************************************)
(* Proofs about the API: the cache that the routes share (ApiCache) and    *)
(* the statistics of the last day (StatsApi).                              *)
(*                                                                         *)
(* ApiCache: for every number of clients, of writes, every unit of time    *)
(* and every longest query.                                                *)
(*                                                                         *)
(* StatsApi: for every set of blocks, every length of an hour and of a     *)
(* day, every interval no longer than the life of an entry, and every      *)
(* number of faults.                                                       *)
(***************************************************************************)
EXTENDS StatsApi, ApiCache, SequenceTheorems, TLAPS

------------------------------------------------------------------------------
(* ApiCache *)

\* What the table of routes has in common.
LEMMA RouteFacts ==
  ASSUME NEW r \in Routes
  PROVE  /\ r.ttl \in {60, 300, 900, 3600, 43200}
         /\ r.key \subseteq r.params
         /\ \A p \in r.params : p \in r.key \/ <<r.name, p>> \in Forgotten
  BY DEF Routes, Route, accounts, accounts_send, unconfirmed_summary, unconfirmed_accounts,
     blocks_per_day, account_stats, account_open, blocks_summary, balance_history, blocks_send,
     confirmed_summary, unconfirmed_blocks, ledger_daily, status, price_history,
     AccountsKey, UnconfirmedKey, SummaryKey, Forgotten

LEMMA TtlType ==
  ASSUME route \in Routes, NEW request PROVE cache_ttl(request) \in Nat
  BY RouteFacts, CacheAssumption DEF cache_ttl, CacheAssumption

------------------------------------------------------------------------------
(* The inductive invariant. *)

Handler == [request : asked, read : Seq(Nat), age : Nat]
Entry   == [result : Handler, left : Nat]

\* What accounts and tags may be in a request.
RequestsOK ==
    route = accounts => \A r \in asked : r["accounts"] \in 1 .. 3 /\ r["tags"] \in 1 .. 2

CacheTypeOK ==
    /\ route \in Routes /\ RequestsOK
    /\ version \in Nat
    /\ cache \in [Keys -> {None} \cup Entry]
    /\ handlers \in [Client -> {None} \cup Handler]

\* A query that runs is no older than the longest one.
HandlersInv ==
    \A c \in Client : handlers[c] # None => handlers[c].age <= MaxQuery

\* An entry is under the key of the request that filled it, its age and the time
\* left to it never exceed a query's time and its own, and it is one to be kept.
EntriesInv ==
    \A k \in Keys : cache[k] # None =>
        /\ KeyOf(cache[k].result.request) = k
        /\ cache[k].result.age + cache[k].left <= MaxQuery + cache_ttl(cache[k].result.request)
        /\ Kept(cache[k].result) /\ ~Ambiguous(cache[k].result.request)

CacheIInv == CacheTypeOK /\ HandlersInv /\ EntriesInv /\ AnswersTheRequest /\ StalenessIsBounded

------------------------------------------------------------------------------
LEMMA OlderFacts ==
  ASSUME NEW result \in Handler
  PROVE  /\ Older(result) \in Handler
         /\ Older(result).request = result.request /\ Older(result).read = result.read
         /\ Older(result).age <= result.age + 1
  <1> DEFINE n == IF result.read = <<>> \/ result.age = AgeBound THEN result.age ELSE result.age + 1
  <1>1. n \in Nat /\ n <= result.age + 1 BY DEF Handler
  <1>2. Older(result) = [result EXCEPT !.age = n] BY DEF Older
  <1> HIDE DEF n
  <1> QED BY <1>1, <1>2 DEF Handler

\* The paths of accounts differ, but for the text that reads like tags.
LEMMA Paths ==
  ASSUME NEW a \in 1 .. 3, NEW t \in 1 .. 2, NEW u \in 1 .. 2,
         AccountsPath[a] \o TagsPath[t] = AccountsPath[1] \o TagsPath[u]
  PROVE  a = 3 \/ (a = 1 /\ t = u)
  <1>1. AccountsPath[1] = <<>> /\ AccountsPath[2] = <<"a">> BY DEF AccountsPath
  <1>2. TagsPath[1] = <<>> /\ TagsPath[2] = <<"tags", "x">> BY DEF TagsPath
  <1> DEFINE Segment == {"a", "tags", "x"}  T == TagsPath[t]  U == TagsPath[u]
  <1>5. T \in Seq(Segment) /\ U \in Seq(Segment)
    <2>1. <<>> \in Seq(Segment) /\ <<"tags", "x">> \in Seq(Segment) OBVIOUS
    <2>2. TagsPath[1] \in Seq(Segment) /\ TagsPath[2] \in Seq(Segment) BY <1>2, <2>1
    <2>3. (t = 1 \/ t = 2) /\ (u = 1 \/ u = 2) OBVIOUS
    <2> QED BY <2>2, <2>3
  <1>6. <<>> \o T = T /\ <<>> \o U = U BY <1>5, ConcatEmptySeq
  <1>3. ASSUME a = 1 PROVE t = u
    <2>1. T = U BY <1>1, <1>3, <1>6
    <2>2. Len(TagsPath[1]) = 0 /\ Len(TagsPath[2]) = 2 BY <1>2
    <2> QED BY <2>1, <2>2
  <1>4. ASSUME a = 2 PROVE FALSE
    <2>1. <<"a">> \o T = U BY <1>1, <1>4, <1>6
    <2>2. (<<"a">> \o T)[1] = "a" /\ Len(<<"a">> \o T) = 1 + Len(T)
      <3>1. <<"a">> \in Seq(Segment) /\ Len(<<"a">>) = 1 /\ <<"a">>[1] = "a" OBVIOUS
      <3>2. Len(T) \in Nat BY <1>5
      <3> HIDE DEF T
      <3> QED BY <1>5, <3>1, <3>2, ConcatProperties
    <2>3. Len(T) \in Nat BY <1>5
    <2>4. u = 1 => Len(U) = 0 BY <1>2
    <2>5. u = 2 => U[1] = "tags" BY <1>2
    <2> QED BY <2>1, <2>2, <2>3, <2>4, <2>5
  <1> QED BY <1>3, <1>4

\* A request whose key is that of an entry that was kept: it agrees with the request
\* that filled the entry in what an answer is for.
LEMMA SameKey ==
  ASSUME route \in Routes, RequestsOK, NEW r \in asked, NEW s \in asked,
         KeyOf(r) = KeyOf(s), ~Ambiguous(s), NEW p \in route.params
  PROVE  \/ r[p] = s[p] \/ <<route.name, p>> \in Forgotten
         \/ route = accounts /\ p \in {"accounts", "tags"} /\ r["accounts"] = 3
  <1>1. p \in route.key \/ <<route.name, p>> \in Forgotten BY RouteFacts
  <1>2. CASE route # accounts /\ p \in route.key
    <2>1. KeyOf(r)[p] = r[p] /\ KeyOf(s)[p] = s[p] BY <1>2 DEF KeyOf
    <2> QED BY <2>1
  <1>3. CASE route = accounts /\ p \in route.key
    <2>1. /\ KeyOf(r).offset = KeyOf(s).offset /\ KeyOf(r).limit = KeyOf(s).limit
          /\ KeyOf(r).path = KeyOf(s).path
      OBVIOUS
    <2>2. r["offset"] = s["offset"] /\ r["limit"] = s["limit"] BY <1>3, <2>1 DEF KeyOf
    <2>3. AccountsPath[r["accounts"]] \o TagsPath[r["tags"]]
             = AccountsPath[s["accounts"]] \o TagsPath[s["tags"]]
      BY <1>3, <2>1 DEF KeyOf
    <2>4. s["accounts"] = 1 BY <1>3 DEF Ambiguous
    <2>5. /\ r["accounts"] \in 1 .. 3 /\ r["tags"] \in 1 .. 2 /\ s["tags"] \in 1 .. 2
      BY <1>3 DEF RequestsOK
    <2>6. r["accounts"] = 3 \/ (r["accounts"] = 1 /\ r["tags"] = s["tags"])
      BY <2>3, <2>4, <2>5, Paths
    <2>7. p \in {"accounts", "tags", "offset", "limit"}
      BY <1>3 DEF accounts, Route, AccountsKey
    <2> QED BY <1>3, <2>2, <2>4, <2>6, <2>7
  <1> QED BY <1>1, <1>2, <1>3

\* The initial state satisfies the inductive invariant.
THEOREM InitCacheIInv == CacheInit => CacheIInv
  <1> SUFFICES ASSUME CacheInit PROVE CacheIInv OBVIOUS
  <1>1. RequestsOK
    <2> SUFFICES ASSUME route = accounts, NEW r \in asked
                 PROVE  r["accounts"] \in 1 .. 3 /\ r["tags"] \in 1 .. 2
      BY DEF RequestsOK
    <2> DEFINE plain == [p \in route.params |-> 1]
    <2>1. {"accounts", "tags"} \subseteq route.params /\ "accounts" \notin route.checked
          /\ "tags" \notin route.checked
      BY DEF accounts, Route, AccountsKey
    <2>2. plain["accounts"] = 1 /\ plain["tags"] = 1 BY <2>1
    <2>3. CASE r = plain BY <2>2, <2>3
    <2>4. ASSUME NEW p \in route.params, NEW v \in Values(p), r = [plain EXCEPT ![p] = v]
          PROVE  r["accounts"] \in 1 .. 3 /\ r["tags"] \in 1 .. 2
      <3>1. (p = "accounts" => v \in 1 .. 3) /\ (p = "tags" => v \in 1 .. 2)
        BY <2>1 DEF Values
      <3>2. /\ r["accounts"] = IF p = "accounts" THEN v ELSE 1
            /\ r["tags"] = IF p = "tags" THEN v ELSE 1
        BY <2>1, <2>2, <2>4
      <3> QED BY <3>1, <3>2
    <2>5. CASE \/ r = [plain EXCEPT !["accounts"] = 3] \/ r = [plain EXCEPT !["tags"] = 2]
      BY <2>1, <2>2, <2>5
    <2> QED BY <2>3, <2>4, <2>5 DEF CacheInit
  <1> QED
    BY <1>1 DEF CacheInit, CacheIInv, CacheTypeOK, HandlersInv, EntriesInv, AnswersTheRequest,
       StalenessIsBounded

\* The inductive invariant is preserved by every step.
THEOREM NextCacheIInv == CacheIInv /\ [CacheNext]_cacheVars => CacheIInv'
  <1> SUFFICES ASSUME CacheIInv, [CacheNext]_cacheVars PROVE CacheIInv' OBVIOUS
  <1>a. CacheTypeOK /\ HandlersInv /\ EntriesInv /\ AnswersTheRequest /\ StalenessIsBounded
    BY DEF CacheIInv
  <1>b. /\ route \in Routes /\ RequestsOK /\ version \in Nat /\ MaxQuery \in Nat
        /\ cache \in [Keys -> {None} \cup Entry] /\ handlers \in [Client -> {None} \cup Handler]
    BY <1>a, CacheAssumption DEF CacheTypeOK, CacheAssumption
  <1>k. /\ accounts' = accounts /\ confirmed_summary' = confirmed_summary
        /\ AccountsPath' = AccountsPath /\ TagsPath' = TagsPath /\ Forgotten' = Forgotten
    OBVIOUS
  <1>c. ASSUME UNCHANGED <<route, asked>>
        PROVE  /\ Keys' = Keys /\ Handler' = Handler /\ Entry' = Entry
               /\ \A r : KeyOf(r)' = KeyOf(r)
               /\ RequestsOK'
               /\ \A r : cache_ttl(r)' = cache_ttl(r) /\ Ambiguous(r)' = Ambiguous(r)
    BY <1>c, <1>b, <1>k DEF Keys, KeyOf, Handler, Entry, RequestsOK, cache_ttl, Ambiguous
  <1>h. ASSUME UNCHANGED <<route, asked>>,
               \A k \in Keys : cache'[k] # None =>
                  /\ KeyOf(cache'[k].result.request) = k
                  /\ cache'[k].result.age + cache'[k].left
                        <= MaxQuery + cache_ttl(cache'[k].result.request)
                  /\ Kept(cache'[k].result) /\ ~Ambiguous(cache'[k].result.request)
        PROVE  EntriesInv'
    <2>1. \A r : Kept(r)' = Kept(r) BY <1>h DEF Kept, IsEmpty
    <2> QED BY <1>c, <1>h, <2>1 DEF EntriesInv
  <1>d. ASSUME UNCHANGED <<route, asked, cache>> PROVE EntriesInv'
    BY <1>a, <1>d, <1>h DEF EntriesInv
  <1>e. ASSUME UNCHANGED <<route, answer>> PROVE AnswersTheRequest' /\ StalenessIsBounded'
    BY <1>a, <1>e, <1>k DEF AnswersTheRequest, StalenessIsBounded, cache_ttl, IsEmpty
  <1>f. ASSUME answer' = None PROVE AnswersTheRequest' /\ StalenessIsBounded'
    BY <1>f DEF AnswersTheRequest, StalenessIsBounded
  <1>g. ASSUME UNCHANGED <<route, asked, version, cache, handlers>>
        PROVE  CacheTypeOK' /\ HandlersInv' /\ EntriesInv'
    BY <1>a, <1>c, <1>d, <1>g DEF CacheTypeOK, HandlersInv
  <1>1. CASE Write
    <2>1. version' \in Nat /\ UNCHANGED <<route, asked, cache, handlers, answer>>
      BY <1>b, <1>1 DEF Write
    <2>2. CacheTypeOK' /\ HandlersInv' BY <1>a, <1>b, <1>c, <2>1 DEF CacheTypeOK, HandlersInv
    <2> QED BY <1>d, <1>e, <2>1, <2>2 DEF CacheIInv
  <1>2. ASSUME NEW c \in Client, NEW r \in asked, Reject(c, r) PROVE CacheIInv'
    <2>1. answer' = None /\ UNCHANGED <<route, asked, version, cache, handlers>>
      BY <1>2 DEF Reject
    <2> QED BY <1>f, <1>g, <2>1 DEF CacheIInv
  <1>3. ASSUME NEW c \in Client, NEW r \in asked, Hit(c, r) PROVE CacheIInv'
    <2> DEFINE e == cache[KeyOf(r)]
    <2>1. /\ e # None /\ answer' = [request |-> r, result |-> e.result, hit |-> TRUE]
          /\ UNCHANGED <<route, asked, version, cache, handlers>> /\ KeyOf(r) \in Keys
      BY <1>3 DEF Hit, Answer, Keys
    <2>2. /\ KeyOf(e.result.request) = KeyOf(r) /\ Kept(e.result)
          /\ e.result.request \in asked /\ ~Ambiguous(e.result.request)
          /\ e.result.age + e.left <= MaxQuery + cache_ttl(e.result.request)
          /\ e.result.age \in Nat /\ e.left \in Nat
      <3>1. e \in Entry BY <1>b, <2>1
      <3>2. e.result.age \in Nat /\ e.left \in Nat /\ e.result.request \in asked
        BY <3>1 DEF Entry, Handler
      <3> QED BY <1>a, <2>1, <3>2 DEF EntriesInv
    <2> HIDE DEF e
    <2>3. answer'.request = r /\ answer'.result = e.result BY <2>1
    <2>4. AnswersTheRequest'
      <3>1. \A p \in route.params :
               \/ r[p] = e.result.request[p] \/ <<route.name, p>> \in Forgotten
               \/ route = accounts /\ p \in {"accounts", "tags"} /\ r["accounts"] = 3
        BY <1>b, <2>2, SameKey
      <3> QED BY <1>k, <2>1, <2>3, <3>1 DEF AnswersTheRequest
    <2>5. StalenessIsBounded'
      <3>1. ~(IsEmpty(e.result) /\ ~route.empties) BY <2>2 DEF Kept
      <3>2. e.result.age <= MaxQuery + cache_ttl(e.result.request)
        BY <1>b, <2>2, TtlType
      <3> QED BY <1>k, <2>1, <2>3, <3>1, <3>2 DEF StalenessIsBounded, IsEmpty, cache_ttl
    <2>6. CacheTypeOK' /\ HandlersInv' /\ EntriesInv' BY <1>g, <2>1
    <2> QED BY <2>4, <2>5, <2>6 DEF CacheIInv
  <1>4. ASSUME UNCHANGED <<route, asked, cache, answer>>, CacheTypeOK', HandlersInv'
        PROVE  CacheIInv'
    BY <1>4, <1>d, <1>e DEF CacheIInv
  <1>5. ASSUME NEW c \in Client, NEW r \in asked, Miss(c, r) PROVE CacheIInv'
    <2>1. /\ handlers' = [handlers EXCEPT ![c] = Result(r)]
          /\ UNCHANGED <<route, asked, version, cache, answer>>
      BY <1>5 DEF Miss
    <2>2. Result(r) \in Handler /\ Result(r).age = 0
      BY EmptySeq DEF Result, Handler
    <2> HIDE DEF Handler
    <2>3. CacheTypeOK'
      BY <1>b, <1>c, <2>1, <2>2 DEF CacheTypeOK
    <2>4. HandlersInv' BY <1>a, <1>b, <2>1, <2>2 DEF HandlersInv
    <2> QED BY <1>4, <2>1, <2>3, <2>4
  <1>6. ASSUME NEW c \in Client, Query(c) PROVE CacheIInv'
    <2> DEFINE v == [handlers[c] EXCEPT !.read = Append(@, version)]
    <2>1. /\ handlers[c] # None /\ handlers' = [handlers EXCEPT ![c] = v]
          /\ UNCHANGED <<route, asked, version, cache, answer>>
      BY <1>6 DEF Query
    <2>2. handlers[c] \in Handler BY <1>b, <2>1
    <2>3. v \in Handler /\ v.age = handlers[c].age
      <3>1. Append(handlers[c].read, version) \in Seq(Nat) BY <1>b, <2>2 DEF Handler
      <3> QED BY <2>2, <3>1 DEF Handler
    <2> HIDE DEF v
    <2>4. CacheTypeOK' BY <1>b, <1>c, <2>1, <2>3 DEF CacheTypeOK
    <2>5. HandlersInv' BY <1>a, <1>b, <2>1, <2>3 DEF HandlersInv
    <2> QED BY <1>4, <2>1, <2>4, <2>5
  <1>7. ASSUME NEW c \in Client, Finish(c) PROVE CacheIInv'
    <2> DEFINE result == handlers[c]
               key == KeyOf(result.request)
               e == [result |-> result, left |-> cache_ttl(result.request)]
    <2>1. /\ result # None /\ result \in Handler
          /\ cache' = IF Kept(result) THEN [cache EXCEPT ![key] = e] ELSE cache
          /\ answer' = [request |-> result.request, result |-> result, hit |-> FALSE]
          /\ handlers' = [handlers EXCEPT ![c] = None]
          /\ UNCHANGED <<route, asked, version>>
      BY <1>7, <1>b DEF Finish, Answer
    <2>2. /\ result.request \in asked /\ result.age \in Nat /\ result.age <= MaxQuery
          /\ cache_ttl(result.request) \in Nat /\ ~Ambiguous(result.request)
      BY <1>a, <1>b, <1>7, <2>1, TtlType DEF Handler, HandlersInv, Finish
    <2>3. key \in Keys /\ e \in Entry BY <2>1, <2>2 DEF Keys, Entry
    <2>4. e.result = result /\ e.left = cache_ttl(result.request) OBVIOUS
    <2> HIDE DEF result, e
    <2>5. CacheTypeOK' BY <1>b, <1>c, <2>1, <2>3 DEF CacheTypeOK
    <2>6. HandlersInv' BY <1>a, <1>b, <2>1 DEF HandlersInv
    <2>7. EntriesInv'
      <3>1. ASSUME NEW k \in Keys, cache'[k] # None
            PROVE  /\ KeyOf(cache'[k].result.request) = k
                   /\ cache'[k].result.age + cache'[k].left
                         <= MaxQuery + cache_ttl(cache'[k].result.request)
                   /\ Kept(cache'[k].result) /\ ~Ambiguous(cache'[k].result.request)
        <4>1. CASE Kept(result) /\ k = key
          <5>1. cache'[k] = e BY <1>b, <2>1, <2>3, <4>1
          <5> QED BY <1>b, <2>2, <2>4, <4>1, <5>1
        <4>2. CASE ~(Kept(result) /\ k = key)
          <5>1. cache'[k] = cache[k] BY <1>b, <2>1, <2>3, <4>2
          <5> QED BY <1>a, <3>1, <5>1 DEF EntriesInv
        <4> QED BY <4>1, <4>2
      <3> QED BY <1>h, <2>1, <3>1
    <2>8. AnswersTheRequest' BY <2>1 DEF AnswersTheRequest
    <2>9. StalenessIsBounded'
      <3>1. answer'.result = result BY <2>1
      <3> QED BY <1>b, <2>1, <2>2, <3>1 DEF StalenessIsBounded, cache_ttl
    <2> QED BY <2>5, <2>6, <2>7, <2>8, <2>9 DEF CacheIInv
  <1>8. ASSUME NEW c \in Client, Fails(c) PROVE CacheIInv'
    <2>1. /\ handlers' = [handlers EXCEPT ![c] = None] /\ answer' = None
          /\ UNCHANGED <<route, asked, version, cache>>
      BY <1>8 DEF Fails
    <2>2. CacheTypeOK' BY <1>b, <1>c, <2>1 DEF CacheTypeOK
    <2>3. HandlersInv' BY <1>a, <1>b, <2>1 DEF HandlersInv
    <2> QED BY <1>d, <1>f, <2>1, <2>2, <2>3 DEF CacheIInv
  <1>9. CASE EntriesAge
    <2>1. /\ \A c \in Client : handlers[c] # None => handlers[c].age < MaxQuery
          /\ cache' = [k \in Keys |->
                IF cache[k] = None \/ cache[k].left = 0 THEN None
                ELSE [result |-> Older(cache[k].result), left |-> cache[k].left - 1]]
          /\ handlers' = [c \in Client |-> IF handlers[c] = None THEN None
                                           ELSE Older(handlers[c])]
          /\ answer' = None /\ UNCHANGED <<route, asked, version>>
      BY <1>9 DEF EntriesAge
    <2>2. ASSUME NEW c \in Client, handlers'[c] # None
          PROVE  handlers'[c] \in Handler /\ handlers'[c].age <= MaxQuery
      <3>1. handlers[c] \in Handler /\ handlers'[c] = Older(handlers[c]) /\ handlers[c].age < MaxQuery
        BY <1>b, <2>1, <2>2
      <3>2. handlers[c].age \in Nat BY <3>1 DEF Handler
      <3>3. handlers'[c] \in Handler /\ handlers'[c].age <= handlers[c].age + 1
        BY <3>1, OlderFacts
      <3>4. handlers'[c].age \in Nat BY <3>3 DEF Handler
      <3> QED BY <1>b, <3>1, <3>2, <3>3, <3>4
    <2>3. ASSUME NEW k \in Keys, cache'[k] # None
          PROVE  /\ cache'[k] \in Entry /\ KeyOf(cache'[k].result.request) = k
                 /\ cache'[k].result.age + cache'[k].left
                       <= MaxQuery + cache_ttl(cache'[k].result.request)
                 /\ Kept(cache'[k].result) /\ ~Ambiguous(cache'[k].result.request)
      <3>1. /\ cache[k] # None /\ cache[k] \in Entry /\ cache[k].left # 0
            /\ cache'[k] = [result |-> Older(cache[k].result), left |-> cache[k].left - 1]
        BY <1>b, <2>1, <2>3
      <3>2. cache[k].result \in Handler /\ cache[k].left - 1 \in Nat /\ cache[k].result.age \in Nat
        BY <3>1 DEF Entry, Handler
      <3>3. /\ Older(cache[k].result) \in Handler
            /\ Older(cache[k].result).request = cache[k].result.request
            /\ Older(cache[k].result).read = cache[k].result.read
            /\ Older(cache[k].result).age <= cache[k].result.age + 1
        BY <3>2, OlderFacts
      <3>4. Older(cache[k].result).age \in Nat BY <3>3 DEF Handler
      <3>5. /\ KeyOf(cache[k].result.request) = k /\ Kept(cache[k].result)
            /\ ~Ambiguous(cache[k].result.request)
            /\ cache[k].result.age + cache[k].left <= MaxQuery + cache_ttl(cache[k].result.request)
        BY <1>a, <3>1 DEF EntriesInv
      <3>6. cache_ttl(cache[k].result.request) \in Nat BY <1>b, TtlType
      <3>7. /\ cache'[k] \in Entry /\ cache'[k].result = Older(cache[k].result)
            /\ cache'[k].left = cache[k].left - 1
        BY <3>1, <3>2, <3>3 DEF Entry
      <3>8. Kept(cache'[k].result) BY <3>3, <3>5, <3>7 DEF Kept, IsEmpty, Ambiguous
      <3>9. cache'[k].result.request = cache[k].result.request BY <3>3, <3>7
      <3>10. cache'[k].result.age + cache'[k].left
                <= MaxQuery + cache_ttl(cache[k].result.request)
        <4>1. /\ cache'[k].result.age \in Nat /\ cache[k].left \in Nat
              /\ cache'[k].result.age <= cache[k].result.age + 1
              /\ cache'[k].left = cache[k].left - 1
          BY <3>1, <3>3, <3>4, <3>7 DEF Entry
        <4>2. \A a, b, l, m \in Nat : a <= b + 1 /\ b + l <= m => a + (l - 1) <= m
          OBVIOUS
        <4>3. MaxQuery + cache_ttl(cache[k].result.request) \in Nat BY <1>b, <3>6
        <4> QED BY <3>2, <3>5, <4>1, <4>2, <4>3
      <3> QED BY <3>5, <3>7, <3>8, <3>9, <3>10
    <2>4. CacheTypeOK'
      <3>1. cache' \in [Keys -> {None} \cup Entry] BY <2>1, <2>3
      <3>2. handlers' \in [Client -> {None} \cup Handler] BY <2>1, <2>2
      <3> QED BY <1>b, <1>c, <2>1, <3>1, <3>2 DEF CacheTypeOK
    <2>5. HandlersInv' BY <2>2 DEF HandlersInv
    <2>6. EntriesInv' BY <1>h, <2>1, <2>3
    <2> QED BY <1>f, <2>1, <2>4, <2>5, <2>6 DEF CacheIInv
  <1>10. CASE Restart
    <2>1. /\ cache' = [k \in Keys |-> None] /\ handlers' = [c \in Client |-> None]
          /\ answer' = None /\ UNCHANGED <<route, asked, version>>
      BY <1>10 DEF Restart
    <2>2. CacheTypeOK' BY <1>b, <1>c, <2>1 DEF CacheTypeOK
    <2>3. HandlersInv' /\ EntriesInv' BY <1>c, <2>1 DEF HandlersInv, EntriesInv
    <2> QED BY <2>1, <2>2, <2>3 DEF CacheIInv, AnswersTheRequest, StalenessIsBounded
  <1>11. CASE UNCHANGED cacheVars
    BY <1>e, <1>g, <1>11 DEF cacheVars, CacheIInv
  <1> QED
    BY <1>1, <1>2, <1>3, <1>5, <1>6, <1>7, <1>8, <1>9, <1>10, <1>11 DEF CacheNext

\* Every reachable state satisfies the inductive invariant.
THEOREM CacheInvariance == CacheSpec => []CacheIInv
  BY InitCacheIInv, NextCacheIInv, PTL DEF CacheSpec

\* No answer is another request's, whichever handler filled the entry.
THEOREM Answers == CacheSpec => []AnswersTheRequest
  <1>1. CacheIInv => AnswersTheRequest BY DEF CacheIInv
  <1> QED BY <1>1, CacheInvariance, PTL

\* No answer is older than promised, though handlers overtake one another.
THEOREM Staleness == CacheSpec => []StalenessIsBounded
  <1>1. CacheIInv => StalenessIsBounded BY DEF CacheIInv
  <1> QED BY <1>1, CacheInvariance, PTL

------------------------------------------------------------------------------
(* StatsApi *)

LEMMA Bounds ==
  /\ HOUR \in Nat /\ HOUR > 0 /\ MaxDelay \in Nat /\ MaxTime \in Nat
  /\ DAY \in Nat /\ INTERVAL \in Nat /\ TTL \in Nat /\ HOUR <= DAY /\ INTERVAL <= TTL
  BY TableAssumption, StatsAssumption DEF TableAssumption, StatsAssumption

\* The hour of a moment.
LEMMA HourOfFacts ==
  ASSUME NEW t \in Nat
  PROVE  /\ HourOf(t) \in Nat /\ HourOf(t) * HOUR <= t /\ t < (HourOf(t) + 1) * HOUR
         /\ t <= MaxTime => HourOf(t) \in Hour
         /\ t - DAY <= HourOf(t) * HOUR
  <1>1. HourOf(t) \in Nat /\ HourOf(t) * HOUR <= t /\ t < (HourOf(t) + 1) * HOUR
    BY Bounds DEF HourOf
  <1>2. t <= MaxTime => HourOf(t) \in Hour BY Bounds DEF HourOf, Hour
  <1>3. (HourOf(t) + 1) * HOUR = HourOf(t) * HOUR + HOUR BY <1>1, Bounds
  <1> QED BY <1>1, <1>2, <1>3, Bounds

\* Hours that end before another begins.
LEMMA Earlier ==
  ASSUME NEW h \in Nat, NEW k \in Nat
  PROVE  /\ h * HOUR \in Nat /\ (h + 1) * HOUR \in Nat /\ h * HOUR <= (h + 1) * HOUR
         /\ h * HOUR < k * HOUR => (h + 1) * HOUR <= k * HOUR
         /\ h < k <=> h * HOUR < k * HOUR
  <1>1. h < k => (h + 1) * HOUR <= k * HOUR BY Bounds
  <1>2. k <= h => k * HOUR <= h * HOUR BY Bounds
  <1>3. h < k => h * HOUR < k * HOUR BY Bounds
  <1> QED BY <1>1, <1>2, <1>3, Bounds

------------------------------------------------------------------------------
(* The tables. *)

\* A row counts blocks of its hour; unless its promise is void, all of them that
\* are confirmed, and no other will come.
TableInv ==
    /\ now \in 0..MaxTime
    /\ local_timestamp \in [Block -> Int]
    /\ \A b \in Block : -1 <= local_timestamp[b] /\ local_timestamp[b] <= now
    /\ confirmed \subseteq Known /\ wavered \subseteq Known /\ Known \ wavered \subseteq confirmed
    /\ stored \in [Hour -> SUBSET Block]
    /\ \A h \in Hour : stored[h] \subseteq KnownOf(h)
    /\ \A h \in Hour : ~Doubtful(h) =>
          now >= (h + 1) * HOUR + MaxDelay /\ stored[h] = HourRows(h)

\* Blocks keep their timestamps, and stay on record.
Grows ==
    /\ now' \in {now, now + 1}
    /\ wavered \subseteq wavered'
    /\ \A b \in Known : b \in Known' /\ local_timestamp'[b] = local_timestamp[b]

LEMMA KnownFacts ==
  ASSUME TableInv
  PROVE  /\ Known \subseteq Block
         /\ \A b \in Known : local_timestamp[b] \in Nat /\ local_timestamp[b] <= now
  BY DEF TableInv, Known, NotSaved

LEMMA TableFacts ==
  ASSUME TableInv, TimePasses \/ TableStep \/ UNCHANGED tableVars
  PROVE  TableInv' /\ Grows
  <1>a. /\ now \in Nat /\ now <= MaxTime /\ local_timestamp \in [Block -> Int]
        /\ stored \in [Hour -> SUBSET Block] /\ Known \subseteq Block
        /\ confirmed \subseteq Known /\ wavered \subseteq Known /\ Known \ wavered \subseteq confirmed
    BY Bounds, KnownFacts DEF TableInv
  <1>1. CASE TimePasses
    <2>1. /\ now < MaxTime /\ now' = now + 1
          /\ UNCHANGED <<local_timestamp, confirmed, stored, early, wavered>>
      BY <1>1 DEF TimePasses
    <2>2. now' \in 0..MaxTime
          /\ \A b \in Block : -1 <= local_timestamp[b] /\ local_timestamp[b] <= now'
      BY <1>a, <2>1, Bounds DEF TableInv
    <2>3. \A h \in Hour : ~Doubtful(h) => now' >= (h + 1) * HOUR + MaxDelay
      <3>1. \A h \in Hour : (h + 1) * HOUR + MaxDelay \in Int BY Bounds DEF Hour
      <3> QED BY <1>a, <2>1, <3>1 DEF TableInv
    <2> QED
      BY <2>1, <2>2, <2>3
      DEF TableInv, Grows, Doubtful, HasRow, HourRows, KnownOf, Known, Wavered
  <1>2. ASSUME NEW b \in Block, NEW t \in (now - MaxDelay)..now, Confirmed(b, t)
        PROVE  TableInv' /\ Grows
    <2>1. /\ b \notin Known /\ t \in Nat /\ t <= now /\ now <= t + MaxDelay
          /\ local_timestamp' = [local_timestamp EXCEPT ![b] = t]
          /\ confirmed' = confirmed \cup {b} /\ UNCHANGED <<now, stored, early, wavered>>
      BY <1>2, <1>a DEF Confirmed
    <2>2. \A c \in Block : local_timestamp'[c] = IF c = b THEN t ELSE local_timestamp[c]
      BY <1>a, <2>1
    <2>3. Known' = Known \cup {b}
      <3>1. t # NotSaved BY <2>1 DEF NotSaved
      <3> QED BY <2>1, <2>2, <3>1 DEF Known
    <2>4. Grows BY <1>a, <2>1, <2>2, <2>3 DEF Grows
    <2>5. ASSUME NEW h \in Hour
          PROVE  /\ KnownOf(h)' \in {KnownOf(h), KnownOf(h) \cup {b}}
                 /\ HourOf(t) # h => KnownOf(h)' = KnownOf(h)
      BY <1>a, <2>1, <2>2, <2>3 DEF KnownOf, HourOf
    <2>6. ASSUME NEW h \in Hour, ~Doubtful(h)'
          PROVE  now >= (h + 1) * HOUR + MaxDelay /\ stored[h] = HourRows(h)'
      <3>1. ~Doubtful(h) BY <2>1, <2>5, <2>6 DEF Doubtful, HasRow, Wavered
      <3>2. now >= (h + 1) * HOUR + MaxDelay /\ stored[h] = HourRows(h) /\ h \in Nat
            /\ (h + 1) * HOUR \in Nat
        BY <3>1, Earlier DEF TableInv, Hour
      <3>3. t >= (h + 1) * HOUR BY <1>a, <2>1, <3>2, Bounds
      <3>4. HourOf(t) # h BY <2>1, <3>2, <3>3, HourOfFacts
      <3>5. b \notin KnownOf(h) BY <2>1 DEF KnownOf
      <3> QED BY <2>1, <2>5, <3>2, <3>4, <3>5 DEF HourRows
    <2>7. /\ local_timestamp' \in [Block -> Int]
          /\ \A c \in Block : -1 <= local_timestamp'[c] /\ local_timestamp'[c] <= now
      BY <1>a, <2>1, <2>2 DEF TableInv
    <2>8. /\ confirmed' \subseteq Known' /\ wavered \subseteq Known'
          /\ Known' \ wavered \subseteq confirmed'
      BY <1>a, <2>1, <2>3
    <2>9. \A h \in Hour : stored[h] \subseteq KnownOf(h)' BY <2>5 DEF TableInv
    <2> QED BY <2>1, <2>4, <2>6, <2>7, <2>8, <2>9 DEF TableInv
  <1>3. ASSUME NEW b \in Block, Unconfirmed(b) \/ ConfirmedAgain(b) PROVE TableInv' /\ Grows
    <2>1. /\ b \in Known /\ b \in wavered' /\ wavered' = wavered \cup {b}
          /\ confirmed' \ {b} = confirmed \ {b}
          /\ UNCHANGED <<now, local_timestamp, stored, early>>
      BY <1>3, <1>a DEF Unconfirmed, ConfirmedAgain
    <2>2. Known' = Known /\ \A h : KnownOf(h)' = KnownOf(h) BY <2>1 DEF KnownOf, Known
    <2>3. Grows BY <2>1, <2>2 DEF Grows
    <2>4. ASSUME NEW h \in Hour, ~Doubtful(h)'
          PROVE  ~Doubtful(h) /\ HourRows(h)' = HourRows(h)
      <3>1. ~Doubtful(h) BY <2>1, <2>2, <2>4 DEF Doubtful, HasRow, Wavered
      <3>2. b \notin KnownOf(h) BY <2>1, <2>2, <2>4 DEF Doubtful, Wavered
      <3> QED BY <2>1, <2>2, <3>1, <3>2 DEF HourRows
    <2>5. /\ confirmed' \subseteq Known' /\ wavered' \subseteq Known'
          /\ Known' \ wavered' \subseteq confirmed'
      BY <1>a, <2>1, <2>2
    <2> QED BY <2>1, <2>2, <2>3, <2>4, <2>5 DEF TableInv
  <1>4. ASSUME NEW h \in Hour, RowWritten(h) \/ VoidRowWritten(h) PROVE TableInv' /\ Grows
    <2>1. UNCHANGED <<now, local_timestamp, confirmed, wavered>>
      BY <1>4 DEF RowWritten, VoidRowWritten
    <2>2. /\ Known' = Known
          /\ \A k : /\ KnownOf(k)' = KnownOf(k) /\ HourRows(k)' = HourRows(k)
                    /\ Wavered(k)' <=> Wavered(k)
      BY <2>1 DEF Known, KnownOf, HourRows, Wavered
    <2>3. Grows BY <2>1, <2>2 DEF Grows
    <2>4. PICK some \in SUBSET KnownOf(h) :
            /\ stored' = [stored EXCEPT ![h] = some]
            /\ h \in early' \/ Wavered(h)
               \/ (now >= (h + 1) * HOUR + MaxDelay /\ some = HourRows(h))
            /\ \A k \in Hour \ {h} : k \in early' <=> k \in early
      BY <1>4 DEF RowWritten, VoidRowWritten, HourRows
    <2>5. KnownOf(h) \subseteq Block BY <1>a DEF KnownOf
    <2>6. stored' \in [Hour -> SUBSET Block] BY <1>a, <2>4, <2>5
    <2>7. \A k \in Hour : stored'[k] = IF k = h THEN some ELSE stored[k] BY <1>a, <2>4
    <2>8. ASSUME NEW k \in Hour
          PROVE  /\ stored'[k] \subseteq KnownOf(k)
                 /\ ~Doubtful(k)' => now >= (k + 1) * HOUR + MaxDelay /\ stored'[k] = HourRows(k)
      <3>1. CASE k = h BY <2>2, <2>4, <2>7, <3>1 DEF Doubtful
      <3>2. CASE k # h
        <4>1. stored'[k] = stored[k] /\ (~Doubtful(k)' => ~Doubtful(k))
          BY <2>2, <2>4, <2>7, <3>2 DEF Doubtful, HasRow
        <4> QED BY <4>1 DEF TableInv
      <3> QED BY <3>1, <3>2
    <2> QED BY <1>a, <2>1, <2>2, <2>3, <2>6, <2>8 DEF TableInv
  <1>5. CASE UNCHANGED tableVars
    BY <1>5 DEF tableVars, TableInv, Grows, Doubtful, HasRow, HourRows, KnownOf, Known, Wavered
  <1> QED BY <1>1, <1>2, <1>3, <1>4, <1>5 DEF TableStep, Promised, Voids

------------------------------------------------------------------------------
(* A calculation and the entry it leaves. *)

TypeOK ==
    /\ is_calculating_stats \in BOOLEAN
    /\ calc \in Calc \cup {Nothing}
    /\ stats_cache \in Cached \cup {Nothing}
    /\ next_tick \in Nat

\* The flag tells whether a calculation runs, which the timer alone has
\* started: while none runs, the cache's entry outlives the interval.
FlagInv ==
    /\ is_calculating_stats <=> calc # Nothing
    /\ calc # Nothing => calc.by = "timer"
    /\ now <= next_tick /\ next_tick <= now + INTERVAL
    /\ ~is_calculating_stats => stats_cache # Nothing /\ next_tick <= stats_cache.expires

\* The blocks that a response should count are of the day that ends with it.
DueOK(r) ==
    \A b \in r.due :
        b \in Known /\ one_day_ago(r.at) <= local_timestamp[b] /\ local_timestamp[b] <= r.at

StoredOK(r) ==
    \A b \in r.stored :
        /\ b \in Known /\ one_day_ago(r.at) <= local_timestamp[b]
        /\ local_timestamp[b] < current_hour_start(r.at)

\* Where the scan of the table blocks begins.
From(c) == IF c.response.hourly THEN current_hour_start(c.response.at) ELSE one_day_ago(c.response.at)

LiveOK(r, from) == \A b \in r.live : b \in Known /\ from <= local_timestamp[b]

StoredCounted(r) ==
    \A b \in r.due \ wavered : local_timestamp[b] < current_hour_start(r.at) =>
        \/ b \in r.stored \cup r.waiting
        \/ HourOf(local_timestamp[b]) * HOUR < one_day_ago(r.at)

LiveCounted(r, from) ==
    \A b \in r.due \ wavered : from <= local_timestamp[b] => b \in r.live

CalcOK(c) ==
    /\ c.response.at <= now
    /\ DueOK(c.response) /\ StoredOK(c.response) /\ LiveOK(c.response, From(c))
    /\ c.pc = "check" => c.response.stored = {} /\ c.response.live = {}
    /\ ~c.response.hourly => c.response.stored = {}
    /\ c.pc = "query" /\ "stored" \in c.todo => c.response.hourly
    /\ c.pc = "query" /\ c.response.hourly /\ "stored" \notin c.todo => StoredCounted(c.response)
    /\ c.pc = "query" /\ "live" \notin c.todo => LiveCounted(c.response, From(c))

\* What the entry holds.
CacheOK(r) ==
    /\ r.stored \cap r.live = {} /\ r.due \subseteq Known
    /\ \A b \in r.stored \cup r.live : b \in Known /\ local_timestamp[b] >= one_day_ago(r.at)
    /\ \A b \in r.due \ wavered :
          \/ b \in r.stored \cup r.live
          \/ b \in r.waiting
          \/ r.hourly /\ HourOf(local_timestamp[b]) * HOUR < one_day_ago(r.at)

CalcInv == calc # Nothing => CalcOK(calc)
CacheInv == stats_cache # Nothing => CacheOK(stats_cache.data)

\* The inductive invariant.
IInv == TableInv /\ TypeOK /\ FlagInv /\ CalcInv /\ CacheInv

------------------------------------------------------------------------------
LEMMA NoneFacts ==
  /\ \A d, e : [data |-> d, expires |-> e] # Nothing
  /\ Nothing \notin Calc /\ Nothing \notin Cached
  <1>1. ASSUME NEW d, NEW e PROVE [data |-> d, expires |-> e] # Nothing
    <2>1. DOMAIN [data |-> d, expires |-> e] = {"data", "expires"} OBVIOUS
    <2>2. DOMAIN Nothing = {"pc"} BY DEF Nothing
    <2>3. "data" # "pc" OBVIOUS
    <2> QED BY <2>1, <2>2, <2>3
  <1>2. Nothing \notin Calc BY DEF Calc, Nothing
  <1>3. Nothing \notin Cached BY <1>1 DEF Cached
  <1> QED BY <1>1, <1>2, <1>3

LEMMA HourStart ==
  ASSUME NEW t \in Nat
  PROVE  /\ current_hour_start(t) \in Nat /\ one_day_ago(t) \in Int
         /\ current_hour_start(t) <= t /\ one_day_ago(t) <= current_hour_start(t)
  <1>1. HourOf(t) \in Nat /\ HourOf(t) * HOUR <= t /\ t - DAY <= HourOf(t) * HOUR
    BY HourOfFacts
  <1> QED BY <1>1, Bounds DEF current_hour_start, one_day_ago

\* The blocks of an hour lie between its start and its end.
LEMMA RowBounds ==
  ASSUME TableInv, NEW h \in Hour, NEW b \in KnownOf(h)
  PROVE  /\ b \in Known /\ local_timestamp[b] \in Nat
         /\ h * HOUR <= local_timestamp[b] /\ local_timestamp[b] < (h + 1) * HOUR
  <1>1. b \in Known /\ HourOf(local_timestamp[b]) = h BY DEF KnownOf
  <1>2. local_timestamp[b] \in Nat BY <1>1 DEF TableInv, Known, NotSaved
  <1> QED BY <1>1, <1>2, HourOfFacts

\* A row that the query reads counts blocks of the day, of earlier hours.
LEMMA StoredBounds ==
  ASSUME TableInv, NEW t \in Nat, NEW h \in StoredHours(t), NEW b \in stored[h]
  PROVE  /\ b \in Known /\ one_day_ago(t) <= local_timestamp[b]
         /\ local_timestamp[b] < current_hour_start(t)
  <1>1. /\ h \in Hour /\ one_day_ago(t) <= h * HOUR /\ h * HOUR < current_hour_start(t)
    BY DEF StoredHours
  <1>2. b \in KnownOf(h) BY <1>1 DEF TableInv
  <1>3. /\ b \in Known /\ local_timestamp[b] \in Nat
        /\ h * HOUR <= local_timestamp[b] /\ local_timestamp[b] < (h + 1) * HOUR
    BY <1>1, <1>2, RowBounds
  <1>4. h \in Nat /\ HourOf(t) \in Nat BY <1>1, HourOfFacts DEF Hour
  <1>5. h * HOUR \in Nat /\ (h + 1) * HOUR \in Nat /\ (h + 1) * HOUR <= current_hour_start(t)
    BY <1>1, <1>4, Earlier DEF current_hour_start
  <1> QED BY <1>1, <1>3, <1>5, HourStart

\* What the query of the rows leaves out waits, or is of the day's first hour.
LEMMA StoredFacts ==
  ASSUME TableInv, NEW t \in Nat, t <= now, NEW b \in Known \ wavered,
         local_timestamp[b] < current_hour_start(t),
         HourOf(local_timestamp[b]) * HOUR >= one_day_ago(t)
  PROVE  /\ HourOf(local_timestamp[b]) < HourOf(t)
         /\ Doubtful(HourOf(local_timestamp[b]))
            \/ \E h \in StoredHours(t) : b \in stored[h]
  <1> DEFINE l == local_timestamp[b]  h == HourOf(l)
  <1>1. l \in Nat /\ l <= now /\ now \in Nat /\ now <= MaxTime
    BY KnownFacts, Bounds DEF TableInv
  <1>2. h \in Nat /\ h \in Hour /\ h * HOUR <= l /\ HourOf(t) \in Nat
    BY <1>1, HourOfFacts, Bounds
  <1>3. b \in KnownOf(h) /\ b \in confirmed BY DEF KnownOf, TableInv
  <1> HIDE DEF l
  <1>4. l < current_hour_start(t) /\ h * HOUR >= one_day_ago(t) BY DEF l
  <1> HIDE DEF h
  <1>5. h * HOUR < HourOf(t) * HOUR /\ h * HOUR \in Nat /\ HourOf(t) * HOUR \in Nat
    BY <1>1, <1>2, <1>4, Earlier DEF current_hour_start
  <1>6. h < HourOf(t) BY <1>2, <1>5, Earlier
  <1>7. h \in StoredHours(t) BY <1>2, <1>4, <1>5, HourStart DEF StoredHours, current_hour_start
  <1>8. ~Doubtful(h) => b \in stored[h] BY <1>2, <1>3 DEF TableInv, HourRows
  <1> QED BY <1>6, <1>7, <1>8 DEF h, l

LEMMA CalculationFacts ==
  ASSUME TableInv
  PROVE  /\ Calculation("timer") \in Calc /\ CalcOK(Calculation("timer"))
         /\ Calculation("timer").by = "timer" /\ Calculation("timer") # Nothing
  <1> DEFINE c == Calculation("timer")
  <1>1. Due \subseteq Known /\ Due \subseteq Block BY KnownFacts DEF Due, TableInv
  <1>2. c \in Calc BY <1>1, Bounds DEF Calculation, Calc, Response, TableInv
  <1>3. /\ c.response.at = now /\ c.response.stored = {} /\ c.response.live = {}
        /\ c.response.due = Due /\ c.pc = "check" /\ c.response.hourly = FALSE
        /\ c.by = "timer"
    BY DEF Calculation
  <1> HIDE DEF c
  <1>4. DueOK(c.response) BY <1>1, <1>3, KnownFacts DEF DueOK, Due, one_day_ago
  <1>5. CalcOK(c) BY <1>3, <1>4, Bounds DEF CalcOK, StoredOK, LiveOK, TableInv
  <1>6. c # Nothing BY <1>2, NoneFacts
  <1> QED BY <1>2, <1>3, <1>5, <1>6 DEF c

\* What time and the other processes do leaves a calculation and an entry as
\* good as they were.
LEMMA Stable ==
  ASSUME TableInv, TableInv', Grows
  PROVE  /\ \A c \in Calc : CalcOK(c) => CalcOK(c)'
         /\ \A r \in Response : CacheOK(r) => CacheOK(r)'
  <1>0. now \in Nat BY Bounds DEF TableInv
  <1>1. ASSUME NEW r \in Response, DueOK(r) PROVE DueOK(r)'
    BY <1>1 DEF DueOK, Grows
  <1>2. ASSUME NEW r \in Response, StoredOK(r) PROVE StoredOK(r)'
    BY <1>2 DEF StoredOK, Grows
  <1>3. ASSUME NEW r \in Response, NEW from, LiveOK(r, from) PROVE LiveOK(r, from)'
    BY <1>3 DEF LiveOK, Grows
  <1>4. ASSUME NEW r \in Response, DueOK(r), NEW from, LiveCounted(r, from) PROVE LiveCounted(r, from)'
    BY <1>4 DEF LiveCounted, DueOK, Grows
  <1>5. ASSUME NEW r \in Response, DueOK(r), StoredCounted(r) PROVE StoredCounted(r)'
    BY <1>5 DEF StoredCounted, DueOK, Grows, HourOf
  <1>6. ASSUME NEW c \in Calc, CalcOK(c) PROVE CalcOK(c)'
    <2> DEFINE r == c.response  from == From(c)
    <2>1. r \in Response /\ r.at \in Nat BY Bounds DEF Calc, Response
    <2>2. DueOK(r)' /\ StoredOK(r)' /\ LiveOK(r, from)'
      BY <1>1, <1>2, <1>3, <1>6, <2>1 DEF CalcOK
    <2>3. StoredCounted(r) => StoredCounted(r)' BY <1>5, <1>6, <2>1 DEF CalcOK
    <2>4. LiveCounted(r, from) => LiveCounted(r, from)' BY <1>4, <1>6, <2>1 DEF CalcOK
    <2>5. r.at <= now' BY <1>0, <1>6, <2>1 DEF CalcOK, Grows
    <2> QED BY <1>6, <2>2, <2>3, <2>4, <2>5 DEF CalcOK
  <1>7. ASSUME NEW r \in Response, CacheOK(r) PROVE CacheOK(r)'
    BY <1>7 DEF CacheOK, Grows, HourOf
  <1> QED BY <1>6, <1>7

\* The two queries have returned: the response is what the entry may hold.
LEMMA Completed ==
  ASSUME TableInv, NEW c \in Calc, CalcOK(c), c.pc = "query", c.todo = {}
  PROVE  CacheOK(c.response)
  <1> DEFINE r == c.response  from == From(c)
  <1>1. r \in Response /\ r.at \in Nat BY Bounds DEF Calc, Response
  <1>2. /\ current_hour_start(r.at) \in Nat /\ one_day_ago(r.at) \in Int
        /\ one_day_ago(r.at) <= current_hour_start(r.at)
    BY <1>1, HourStart
  <1>3. /\ DueOK(r) /\ StoredOK(r) /\ LiveOK(r, from) /\ LiveCounted(r, from)
        /\ r.hourly => StoredCounted(r) /\ from = current_hour_start(r.at)
        /\ ~r.hourly => r.stored = {} /\ from = one_day_ago(r.at)
    BY DEF CalcOK, From
  <1>4. \A b \in Known : local_timestamp[b] \in Int BY DEF TableInv, Known
  <1> HIDE DEF r, from
  <1>5. r.stored \cap r.live = {}
    <2>1. ASSUME NEW b \in r.stored, b \in r.live PROVE FALSE
      BY <1>2, <1>3, <1>4, <2>1 DEF StoredOK, LiveOK
    <2> QED BY <2>1
  <1>6. \A b \in r.stored \cup r.live : b \in Known /\ local_timestamp[b] >= one_day_ago(r.at)
    BY <1>2, <1>3, <1>4 DEF StoredOK, LiveOK
  <1>7. ASSUME NEW b \in r.due \ wavered
        PROVE  \/ b \in r.stored \cup r.live
               \/ b \in r.waiting
               \/ r.hourly /\ HourOf(local_timestamp[b]) * HOUR < one_day_ago(r.at)
    <2>1. b \in Known /\ one_day_ago(r.at) <= local_timestamp[b] /\ local_timestamp[b] \in Int
      BY <1>3, <1>4 DEF DueOK
    <2>2. CASE from <= local_timestamp[b] BY <1>3, <2>2 DEF LiveCounted
    <2>3. CASE ~(from <= local_timestamp[b])
      <3>1. r.hourly /\ from = current_hour_start(r.at) BY <1>3, <2>1, <2>3
      <3>2. local_timestamp[b] < current_hour_start(r.at) BY <1>2, <2>1, <2>3, <3>1
      <3> QED BY <1>3, <3>1, <3>2 DEF StoredCounted
    <2> QED BY <2>2, <2>3
  <1>8. r.due \subseteq Known BY <1>3 DEF DueOK
  <1> QED BY <1>5, <1>6, <1>7, <1>8 DEF CacheOK, r

------------------------------------------------------------------------------
\* The initial state satisfies the inductive invariant.
THEOREM InitIInv == Init => IInv
  <1> SUFFICES ASSUME Init PROVE IInv OBVIOUS
  <1>1. TableInv
    <2>1. \A h \in Hour : stored[h] = {} BY DEF Init, TableInit
    <2>2. /\ now = 0 /\ local_timestamp = [b \in Block |-> -1] /\ confirmed = {} /\ wavered = {}
          /\ stored = [h \in Hour |-> {}]
      BY DEF Init, TableInit, NotSaved
    <2>3. 0 \in 0..MaxTime BY Bounds
    <2>4. Known = {} BY <2>2 DEF Known, NotSaved
    <2> QED BY <2>1, <2>2, <2>3, <2>4 DEF TableInv, Doubtful, HasRow
  <1>2. /\ is_calculating_stats = TRUE /\ calc = Calculation("timer") /\ stats_cache = Nothing
        /\ next_tick = INTERVAL /\ now = 0
    BY DEF Init, TableInit
  <1>3. /\ calc \in Calc /\ CalcOK(calc) /\ calc.by = "timer" /\ calc # Nothing
    BY <1>1, <1>2, CalculationFacts
  <1> QED BY <1>1, <1>2, <1>3, Bounds DEF IInv, TypeOK, FlagInv, CalcInv, CacheInv

\* The inductive invariant is preserved by every step.
THEOREM NextIInv == IInv /\ [Next]_vars => IInv'
  <1> SUFFICES ASSUME IInv, [Next]_vars PROVE IInv' OBVIOUS
  <1>a. TableInv /\ TypeOK /\ FlagInv /\ CalcInv /\ CacheInv BY DEF IInv
  <1>b. /\ is_calculating_stats \in BOOLEAN /\ calc \in Calc \cup {Nothing}
        /\ stats_cache \in Cached \cup {Nothing} /\ next_tick \in Nat /\ now \in Nat
    BY <1>a, Bounds DEF TypeOK, TableInv
  <1>c. calc # Nothing => calc \in Calc /\ CalcOK(calc) /\ calc.response \in Response
    BY <1>a, <1>b DEF CalcInv, Calc
  <1>d. stats_cache # Nothing => /\ stats_cache \in Cached /\ CacheOK(stats_cache.data)
                        /\ stats_cache.data \in Response /\ stats_cache.expires \in Nat
    BY <1>a, <1>b DEF CacheInv, Cached
  \* A step of the API leaves the tables as they are.
  <1>s. ASSUME UNCHANGED tableVars PROVE TableInv' /\ Grows BY <1>a, <1>s, TableFacts
  <1>t. ASSUME TableInv', Grows, UNCHANGED calc PROVE CalcInv'
    <2>1. ASSUME calc # Nothing PROVE CalcOK(calc)'
      <3>1. PICK c \in Calc : c = calc BY <1>c, <2>1
      <3>2. CalcOK(c)' BY <1>a, <1>c, <1>t, <2>1, <3>1, Stable
      <3> QED BY <1>t, <3>1, <3>2
           DEF CalcOK, DueOK, StoredOK, LiveOK, StoredCounted, LiveCounted, From, Known, HourOf
    <2> QED BY <1>t, <2>1 DEF CalcInv
  <1>u. ASSUME TableInv', Grows, UNCHANGED stats_cache PROVE CacheInv'
    <2>1. ASSUME stats_cache # Nothing PROVE CacheOK(stats_cache.data)'
      <3>1. PICK r \in Response : r = stats_cache.data BY <1>d, <2>1
      <3>2. CacheOK(r)' BY <1>a, <1>d, <1>u, <2>1, <3>1, Stable
      <3> QED BY <1>u, <3>1, <3>2 DEF CacheOK, Known, HourOf
    <2> QED BY <1>u, <2>1 DEF CacheInv
  \* The timer starts a calculation.
  <1>v. ASSUME UNCHANGED tableVars, calc' = Calculation("timer"), is_calculating_stats' = TRUE,
               next_tick' = now + INTERVAL, stats_cache' \in {stats_cache, Nothing}
        PROVE  IInv'
    <2>1. TableInv' /\ Grows BY <1>s, <1>v
    <2>2. now' = now /\ local_timestamp' = local_timestamp /\ wavered' = wavered
      BY <1>v DEF tableVars
    <2> DEFINE c == Calculation("timer")
    <2>3. c \in Calc /\ CalcOK(c) /\ c.by = "timer" /\ c # Nothing BY <1>a, CalculationFacts
    <2> HIDE DEF c
    <2>4. calc' = c BY <1>v DEF c
    <2>5. CalcInv'
      BY <2>2, <2>3, <2>4
      DEF CalcInv, CalcOK, DueOK, StoredOK, LiveOK, StoredCounted, LiveCounted, From, Known, NotSaved,
         HourOf
    <2>6. CacheInv' BY <1>u, <1>v, <2>1 DEF CacheInv
    <2>7. TypeOK' BY <1>b, <1>v, <2>3, <2>4, Bounds DEF TypeOK
    <2>8. FlagInv' BY <1>b, <1>v, <2>2, <2>3, <2>4, Bounds DEF FlagInv
    <2> QED BY <2>1, <2>5, <2>6, <2>7, <2>8 DEF IInv
  \* A calculation goes on with c.
  <1>w. ASSUME NEW c \in Calc, CalcOK(c), c.by = "timer", calc # Nothing, calc' = c,
               UNCHANGED <<tableVars, is_calculating_stats, stats_cache, next_tick>>
        PROVE  IInv'
    <2>1. TableInv' /\ Grows BY <1>s, <1>w
    <2>2. now' = now /\ local_timestamp' = local_timestamp /\ wavered' = wavered
      BY <1>w DEF tableVars
    <2>3. c # Nothing BY <1>w, NoneFacts
    <2>4. CalcInv'
      BY <1>w, <2>2, <2>3
      DEF CalcInv, CalcOK, DueOK, StoredOK, LiveOK, StoredCounted, LiveCounted, From, Known, NotSaved,
         HourOf
    <2>5. CacheInv' BY <1>u, <1>w, <2>1
    <2>6. TypeOK' BY <1>b, <1>w DEF TypeOK
    <2>7. FlagInv' BY <1>a, <1>w, <2>2, <2>3 DEF FlagInv
    <2> QED BY <2>1, <2>4, <2>5, <2>6, <2>7 DEF IInv
  <1>1. CASE Tick
    <2>1. TableInv' /\ Grows BY <1>1, <1>a, TableFacts DEF Tick
    <2>2. /\ now' = now + 1 /\ now < next_tick
          /\ UNCHANGED <<is_calculating_stats, calc, stats_cache, next_tick>>
      BY <1>1 DEF Tick, TimePasses, apiVars
    <2>3. FlagInv' BY <1>a, <1>b, <2>2, Bounds DEF FlagInv
    <2> QED BY <1>a, <1>t, <1>u, <2>1, <2>2, <2>3 DEF IInv, TypeOK
  <1>2. CASE TableChanges \/ TableVoids
    <2>1. TableInv' /\ Grows BY <1>2, <1>a, TableFacts DEF TableChanges, TableVoids, TableStep
    <2>2. now' = now /\ UNCHANGED <<is_calculating_stats, calc, stats_cache, next_tick>>
      BY <1>2 DEF TableChanges, TableVoids, Promised, Voids, Confirmed, Unconfirmed,
         ConfirmedAgain, RowWritten, VoidRowWritten, apiVars
    <2>3. FlagInv' BY <1>a, <2>2 DEF FlagInv
    <2> QED BY <1>a, <1>t, <1>u, <2>1, <2>2, <2>3 DEF IInv, TypeOK
  <1>3. CASE TimerFires
    <2>1. /\ now = next_tick /\ next_tick' = now + INTERVAL /\ is_calculating_stats' = TRUE
          /\ calc' = IF is_calculating_stats THEN calc ELSE Calculation("timer")
          /\ UNCHANGED <<tableVars, stats_cache>>
      BY <1>3 DEF TimerFires
    <2>2. CASE is_calculating_stats
      <3>1. TableInv' /\ Grows /\ calc' = calc BY <1>s, <2>1, <2>2
      <3>2. FlagInv' BY <1>a, <1>b, <2>1, <2>2, Bounds DEF FlagInv, tableVars
      <3>3. TypeOK' BY <1>b, <2>1, <3>1, Bounds DEF TypeOK
      <3> QED BY <1>t, <1>u, <2>1, <3>1, <3>2, <3>3 DEF IInv
    <2>3. CASE ~is_calculating_stats BY <1>v, <2>1, <2>3
    <2> QED BY <2>2, <2>3
  <1>4. CASE CheckAvailable
    <2>1. PICK hourly \in BOOLEAN :
            /\ calc # Nothing /\ calc.pc = "check"
            /\ calc' = [calc EXCEPT !.pc = "query", !.response.hourly = hourly,
                           !.todo = IF hourly THEN {"stored", "live"} ELSE {"live"}]
            /\ UNCHANGED <<tableVars, is_calculating_stats, stats_cache, next_tick>>
      BY <1>4 DEF CheckAvailable
    <2> DEFINE c == [calc EXCEPT !.pc = "query", !.response.hourly = hourly,
                           !.todo = IF hourly THEN {"stored", "live"} ELSE {"live"}]
    <2>2. /\ calc \in Calc /\ CalcOK(calc) /\ calc.by = "timer"
      BY <1>a, <1>c, <2>1 DEF FlagInv
    <2>3. /\ c \in Calc /\ c.by = "timer" /\ c.pc = "query"
          /\ c.todo = IF hourly THEN {"stored", "live"} ELSE {"live"}
          /\ c.response = [calc.response EXCEPT !.hourly = hourly]
      BY <2>2 DEF Calc, Response
    <2>4. calc' = c BY <2>1
    <2> HIDE DEF c
    <2>a. /\ c.response.hourly = hourly /\ c.response.at = calc.response.at
          /\ c.response.stored = calc.response.stored /\ c.response.live = calc.response.live
          /\ c.response.due = calc.response.due
      BY <2>2, <2>3 DEF Calc, Response
    <2>5. CalcOK(c)
      <3>1. c.response.stored = {} /\ c.response.live = {} BY <2>1, <2>2, <2>a DEF CalcOK
      <3>2. c.response.at <= now /\ DueOK(c.response) BY <2>2, <2>a DEF CalcOK, DueOK
      <3> QED BY <2>3, <2>a, <3>1, <3>2 DEF CalcOK, StoredOK, LiveOK
    <2> QED BY <1>w, <2>1, <2>3, <2>4, <2>5
  <1>5. CASE QueryStored
    <2> DEFINE at == calc.response.at
               s == UNION { stored[h] : h \in StoredHours(at) }
               w == { b \in calc.response.due :
                         LET h == HourOf(local_timestamp[b]) IN h < HourOf(at) /\ Doubtful(h) }
               c == [calc EXCEPT !.todo = @ \ {"stored"}, !.response.stored = s,
                                 !.response.waiting = w]
    <2>1. /\ calc # Nothing /\ calc.pc = "query" /\ "stored" \in calc.todo /\ calc' = c
          /\ UNCHANGED <<tableVars, is_calculating_stats, stats_cache, next_tick>>
      BY <1>5 DEF QueryStored, Returns
    <2>2. /\ calc \in Calc /\ CalcOK(calc) /\ calc.by = "timer" /\ calc.response \in Response
      BY <1>a, <1>c, <2>1 DEF FlagInv
    <2>3. at \in Nat /\ at <= now BY <2>2, Bounds DEF Response, CalcOK
    <2>4. s \subseteq Block BY <1>a DEF TableInv, StoredHours
    <2>w. w \subseteq Block BY <2>2 DEF Response
    <2>5. \A b \in s : /\ b \in Known /\ one_day_ago(at) <= local_timestamp[b]
                       /\ local_timestamp[b] < current_hour_start(at)
      BY <1>a, <2>3, StoredBounds
    <2>6. \A b : (\E h \in StoredHours(at) : b \in stored[h]) => b \in s OBVIOUS
    <2>x. \A b \in calc.response.due :
             HourOf(local_timestamp[b]) < HourOf(at) /\ Doubtful(HourOf(local_timestamp[b]))
             => b \in w
      OBVIOUS
    <2> HIDE DEF s, w
    <2>7. /\ c \in Calc /\ c.by = "timer" /\ c.pc = "query"
          /\ c.todo = calc.todo \ {"stored"} /\ c.response.hourly = calc.response.hourly
          /\ c.response.at = at /\ c.response.stored = s /\ c.response.live = calc.response.live
          /\ c.response.due = calc.response.due /\ c.response.waiting = w
      BY <2>1, <2>2, <2>4, <2>w DEF Calc, Response
    <2> HIDE DEF c
    <2>8. StoredCounted(c.response)
      <3>2. ASSUME NEW b \in calc.response.due \ wavered,
                   local_timestamp[b] < current_hour_start(at)
            PROVE  b \in s \cup w \/ HourOf(local_timestamp[b]) * HOUR < one_day_ago(at)
        <4>1. b \in Known \ wavered BY <2>2, <3>2 DEF CalcOK, DueOK
        <4>2. local_timestamp[b] \in Nat BY <1>a, <4>1, KnownFacts
        <4>3. HourOf(local_timestamp[b]) * HOUR \in Int /\ one_day_ago(at) \in Int
          BY <2>3, <4>2, HourOfFacts, HourStart, Bounds
        <4>4. CASE HourOf(local_timestamp[b]) * HOUR >= one_day_ago(at)
          BY <1>a, <2>3, <2>6, <2>x, <3>2, <4>1, <4>4, StoredFacts
        <4> QED BY <4>3, <4>4
      <3> QED BY <2>7, <3>2 DEF StoredCounted
    <2>9. CalcOK(c)
      <3>1. c.response.hourly BY <2>1, <2>2, <2>7 DEF CalcOK
      <3>2. From(c) = From(calc) BY <2>7 DEF From
      <3>3. DueOK(c.response) BY <2>2, <2>7 DEF CalcOK, DueOK
      <3>4. StoredOK(c.response) BY <2>5, <2>7 DEF StoredOK
      <3>5. LiveOK(c.response, From(c)) BY <2>2, <2>7, <3>2 DEF CalcOK, LiveOK
      <3>6. "live" \notin c.todo => LiveCounted(c.response, From(c))
        <4>1. "live" \notin c.todo => "live" \notin calc.todo BY <2>7
        <4>2. "live" \notin c.todo => LiveCounted(calc.response, From(calc))
          BY <2>1, <2>2, <4>1 DEF CalcOK
        <4> QED BY <2>7, <3>2, <4>2 DEF LiveCounted
      <3>7. c.response.at <= now /\ "stored" \notin c.todo BY <2>2, <2>7 DEF CalcOK
      <3> QED BY <2>7, <2>8, <3>1, <3>3, <3>4, <3>5, <3>6, <3>7 DEF CalcOK
    <2> QED BY <1>w, <2>1, <2>7, <2>9 DEF c
  <1>6. CASE QueryLive
    <2> DEFINE at == calc.response.at
               from == From(calc)
               l == { b \in confirmed : from <= local_timestamp[b] }
               c == [calc EXCEPT !.todo = @ \ {"live"}, !.response.live = l]
    <2>1. /\ calc # Nothing /\ calc.pc = "query" /\ "live" \in calc.todo /\ calc' = c
          /\ UNCHANGED <<tableVars, is_calculating_stats, stats_cache, next_tick>>
      BY <1>6 DEF QueryLive, Returns, From
    <2>2. /\ calc \in Calc /\ CalcOK(calc) /\ calc.by = "timer" /\ calc.response \in Response
      BY <1>a, <1>c, <2>1 DEF FlagInv
    <2>c. /\ confirmed \subseteq Known /\ Known \ wavered \subseteq confirmed
          /\ Known \subseteq Block
      BY <1>a, KnownFacts DEF TableInv
    <2>3. l \subseteq Block BY <2>c
    <2>4. \A b : b \in l <=> b \in confirmed /\ from <= local_timestamp[b] OBVIOUS
    <2> HIDE DEF l
    <2>5. /\ c \in Calc /\ c.by = "timer" /\ c.pc = "query"
          /\ c.todo = calc.todo \ {"live"} /\ c.response.hourly = calc.response.hourly
          /\ c.response.at = at /\ c.response.live = l /\ c.response.stored = calc.response.stored
          /\ c.response.due = calc.response.due
          /\ c.response.waiting = calc.response.waiting
      BY <2>1, <2>2, <2>3 DEF Calc, Response
    <2> HIDE DEF c
    <2>6. From(c) = from BY <2>5 DEF From
    <2> HIDE DEF from
    <2>7. CalcOK(c)
      BY <2>1, <2>2, <2>c, <2>4, <2>5, <2>6
      DEF CalcOK, DueOK, StoredOK, LiveOK, LiveCounted, StoredCounted
    <2> QED BY <1>w, <2>1, <2>5, <2>7 DEF c
  <1>7. CASE CalcDone
    <2> DEFINE r == calc.response  e == now + TTL
    <2>1. /\ calc # Nothing /\ calc.pc = "query" /\ calc.todo = {}
          /\ stats_cache' = [data |-> r, expires |-> e]
          /\ is_calculating_stats' = FALSE /\ calc' = Nothing /\ UNCHANGED <<tableVars, next_tick>>
      BY <1>7 DEF CalcDone, Done, Expires
    <2>2. TableInv' /\ Grows BY <1>s, <2>1
    <2>3. now' = now /\ local_timestamp' = local_timestamp /\ wavered' = wavered
      BY <2>1 DEF tableVars
    <2>4. r \in Response /\ CacheOK(r) BY <1>a, <1>c, <2>1, Completed
    <2>5. e \in Nat /\ next_tick <= e BY <1>a, <1>b, Bounds DEF FlagInv
    <2> HIDE DEF r, e
    <2>6. /\ stats_cache' # Nothing /\ stats_cache' \in Cached
          /\ stats_cache'.data = r /\ stats_cache'.expires = e
      BY <2>1, <2>4, <2>5, NoneFacts DEF Cached
    <2>7. CacheInv' BY <2>3, <2>4, <2>6 DEF CacheInv, CacheOK, Known, NotSaved, HourOf
    <2>8. TypeOK' BY <1>b, <2>1, <2>6 DEF TypeOK
    <2>9. FlagInv' BY <1>a, <2>1, <2>3, <2>5, <2>6 DEF FlagInv
    <2> QED BY <2>1, <2>2, <2>7, <2>8, <2>9 DEF IInv, CalcInv
  <1>8. CASE CalcFails
    <2>1. calc.by = "timer" BY <1>8, <1>a DEF CalcFails, FlagInv
    <2> QED BY <1>8, <1>v, <2>1 DEF CalcFails, ApiStart
  \* The entry, or the calculation, is there: no request starts another one.
  <1>9. CASE Request
    <2>1. EntryValid \/ is_calculating_stats BY <1>a, <1>b, <1>d DEF FlagInv, EntryValid
    <2>2. UNCHANGED <<tableVars, is_calculating_stats, calc, stats_cache, next_tick>>
      BY <1>9, <2>1 DEF Request
    <2>3. TableInv' /\ Grows BY <1>s, <2>2
    <2>4. FlagInv' BY <1>a, <2>2 DEF FlagInv, tableVars
    <2> QED BY <1>a, <1>t, <1>u, <2>2, <2>3, <2>4 DEF IInv, TypeOK
  <1>10. CASE UNCHANGED vars
    <2>1. UNCHANGED <<tableVars, is_calculating_stats, calc, stats_cache, next_tick>>
      BY <1>10 DEF vars, apiVars
    <2>2. TableInv' /\ Grows BY <1>s, <2>1
    <2>3. FlagInv' BY <1>a, <2>1 DEF FlagInv, tableVars
    <2> QED BY <1>a, <1>t, <1>u, <2>1, <2>2, <2>3 DEF IInv, TypeOK
  <1> QED
    BY <1>1, <1>2, <1>3, <1>4, <1>5, <1>6, <1>7, <1>8, <1>9, <1>10 DEF Next, CalculationStep

\* Every reachable state satisfies the inductive invariant.
THEOREM Invariance == Spec => []IInv
  BY InitIInv, NextIInv, PTL DEF Spec

\* No confirmation is counted both with its hour and live, and none from before
\* the day, whatever is written between the queries.
THEOREM Once == Spec => []CountedOnce
  <1>1. IInv => CountedOnce BY DEF IInv, CacheInv, CacheOK, CountedOnce
  <1> QED BY <1>1, Invariance, PTL

\* Every confirmation of the last day is counted, but for those that waver, wait
\* for their row, or are of the hour in which the day begins.
THEOREM Skipped == Spec => []NothingSkipped
  <1>1. IInv => NothingSkipped BY DEF IInv, CacheInv, CacheOK, NothingSkipped
  <1> QED BY <1>1, Invariance, PTL

\* A request finds an entry that is valid, or a calculation that runs.
THEOREM Answered == Spec => []CacheOrCalculating
  <1>1. ASSUME IInv PROVE CacheOrCalculating
    <2>1. /\ now \in Nat /\ next_tick \in Nat /\ now <= next_tick
          /\ is_calculating_stats \in BOOLEAN
      BY <1>1, Bounds DEF IInv, TableInv, TypeOK, FlagInv
    <2>2. ASSUME ~is_calculating_stats PROVE EntryValid
      <3>1. stats_cache # Nothing /\ next_tick <= stats_cache.expires /\ stats_cache.expires \in Nat
        BY <1>1, <2>2 DEF IInv, TypeOK, FlagInv, Cached
      <3> QED BY <2>1, <3>1 DEF EntryValid
    <2> QED BY <2>2 DEF CacheOrCalculating
  <1> QED BY <1>1, Invariance, PTL
===============================================================================
