-------------------------- MODULE DailyRollups_proofs --------------------------
(***************************************************************************)
(* Proofs about DailyRollups and BigMap, for every set of blocks, every    *)
(* length of a day, of a page and of a Map, and any number of runs.        *)
(***************************************************************************)
EXTENDS DailyRollups, FiniteSetTheorems, SequenceTheorems, WellFoundedInduction, TLAPS

Account == { b[1] : b \in Block }

LEMMA Bounds ==
  /\ DAY \in Nat /\ DAY > 0 /\ BATCH_SIZE \in Nat /\ BATCH_SIZE > 0
  /\ DistributionHour \in Nat /\ DistributionHour < DAY
  /\ MaxTime \in Nat /\ MaxDelay \in Nat /\ MaxEvents \in Nat
  /\ first_timestamp \in Nat /\ first_timestamp <= MaxTime
  /\ Day \subseteq Nat
  BY DailyAssumption DEF DailyAssumption, Day

LEMMA BlockFacts ==
  /\ IsFiniteSet(Block)
  /\ \A b \in Block : b[2] \in Nat /\ b[1] \in Account
  /\ \A b, c \in Block : b[1] = c[1] /\ b[2] = c[2] => b = c
  BY DailyAssumption DEF DailyAssumption, Account

\* The day of a moment.
LEMMA DayOfFacts ==
  ASSUME NEW t \in Nat
  PROVE  /\ t \div DAY \in Nat /\ (t \div DAY) * DAY <= t /\ t < (t \div DAY + 1) * DAY
         /\ t % DAY = t - (t \div DAY) * DAY
         /\ t <= MaxTime => t \div DAY \in Day
  BY Bounds DEF Day

LEMMA DayOfUnique ==
  ASSUME NEW t \in Nat, NEW d \in Nat
  PROVE  t \div DAY = d <=> d * DAY <= t /\ t < (d + 1) * DAY
  BY Bounds

LEMMA DayOrder ==
  ASSUME NEW d \in Int, NEW e \in Int
  PROVE  /\ d * DAY \in Int /\ (d + 1) * DAY = d * DAY + DAY
         /\ d * DAY < e * DAY <=> d < e
  BY Bounds

------------------------------------------------------------------------------
(* BigMap *)

LEMMA MapType ==
  ASSUME NEW m
  PROVE  m \in BalanceMap <=> m \in [DOMAIN m -> AnyBalance] /\ DOMAIN m \subseteq Account
  BY DEF BalanceMap, Account

\* What set(a, v) does to a Map, and to the Maps.
IsPut(m, a, v, new) ==
    /\ new \in BalanceMap /\ DOMAIN new = DOMAIN m \cup {a}
    /\ \A k \in DOMAIN new : new[k] = IF k = a THEN v ELSE m[k]

IsSet(maps, a, v, new) ==
    /\ new \in Seq(BalanceMap) /\ OneMapPerKey(new)
    /\ Keys(new) = Keys(maps) \cup {a}
    /\ \A k \in Keys(new) : Get(new, k) = IF k = a THEN v ELSE Get(maps, k)

PutIn(maps, i, a, v) == [maps EXCEPT ![i] = Put(@, a, v)]

LEMMA PutFacts ==
  ASSUME NEW m \in BalanceMap, NEW a \in Account, NEW v \in AnyBalance
  PROVE  IsPut(m, a, v, Put(m, a, v))
  <1>1. m \in [DOMAIN m -> AnyBalance] /\ DOMAIN m \subseteq Account BY MapType
  <1>2. /\ Put(m, a, v) \in [DOMAIN m \cup {a} -> AnyBalance]
        /\ DOMAIN m \cup {a} \subseteq Account
    BY <1>1 DEF Put
  <1>3. DOMAIN Put(m, a, v) = DOMAIN m \cup {a} BY DEF Put
  <1>4. Put(m, a, v) \in BalanceMap BY <1>2, <1>3, MapType
  <1> QED BY <1>3, <1>4 DEF IsPut, Put

\* A key is found in the only Map that has it.
LEMMA GetFacts ==
  ASSUME NEW maps \in Seq(BalanceMap), OneMapPerKey(maps),
         NEW i \in DOMAIN maps, NEW k \in DOMAIN maps[i]
  PROVE  k \in Keys(maps) /\ Owner(maps, k) = i /\ Get(maps, k) = maps[i][k]
  <1>1. Len(maps) \in Nat /\ DOMAIN maps = 1..Len(maps) OBVIOUS
  <1>2. \A j \in DOMAIN maps : k \in DOMAIN maps[j] => j = i BY DEF OneMapPerKey
  <1>3. \A j \in 1..(i - 1) : k \notin DOMAIN maps[j] BY <1>1, <1>2
  <1>4. Owner(maps, k) = i BY <1>2, <1>3 DEF Owner
  <1> QED BY <1>4 DEF Get, Keys

\* Another value for a key of Map i, or a new key there, changes that key only.
LEMMA PutAt ==
  ASSUME NEW maps \in Seq(BalanceMap), OneMapPerKey(maps), NEW i \in DOMAIN maps,
         NEW a \in Account, NEW v \in AnyBalance,
         \A j \in DOMAIN maps : a \in DOMAIN maps[j] => j = i
  PROVE  IsSet(maps, a, v, PutIn(maps, i, a, v))
  <1> DEFINE new == PutIn(maps, i, a, v)
  <1>1. Len(maps) \in Nat /\ DOMAIN maps = 1..Len(maps) /\ maps[i] \in BalanceMap OBVIOUS
  <1>2. /\ Put(maps[i], a, v) \in BalanceMap /\ DOMAIN Put(maps[i], a, v) = DOMAIN maps[i] \cup {a}
        /\ \A k \in DOMAIN maps[i] \cup {a} : Put(maps[i], a, v)[k] = IF k = a THEN v ELSE maps[i][k]
    <2> DEFINE m == maps[i]
    <2>1. m \in BalanceMap BY <1>1
    <2> HIDE DEF m
    <2>2. IsPut(m, a, v, Put(m, a, v)) BY <2>1, PutFacts
    <2> QED BY <2>2 DEF m, IsPut
  <1>3. /\ new \in Seq(BalanceMap) /\ Len(new) = Len(maps) /\ DOMAIN new = DOMAIN maps
        /\ \A j \in DOMAIN maps : new[j] = IF j = i THEN Put(maps[i], a, v) ELSE maps[j]
    BY <1>1, <1>2, ExceptSeq DEF PutIn
  <1> HIDE DEF new
  <1>4. \A j \in DOMAIN maps : DOMAIN new[j] = IF j = i THEN DOMAIN maps[j] \cup {a} ELSE DOMAIN maps[j]
    BY <1>2, <1>3
  <1>5. OneMapPerKey(new)
    <2>1. ASSUME NEW p \in DOMAIN maps, NEW q \in DOMAIN maps,
                 NEW k \in DOMAIN new[p], k \in DOMAIN new[q]
          PROVE  p = q
      <3>1. CASE k = a BY <1>4, <2>1, <3>1
      <3>2. CASE k # a
        <4>1. k \in DOMAIN maps[p] /\ k \in DOMAIN maps[q] BY <1>4, <2>1, <3>2
        <4> QED BY <4>1 DEF OneMapPerKey
      <3> QED BY <3>1, <3>2
    <2> QED BY <1>3, <2>1 DEF OneMapPerKey
  <1>6. Keys(new) = Keys(maps) \cup {a}
    <2>1. \A k : k \in Keys(new) <=> \E j \in DOMAIN maps : k \in DOMAIN new[j] BY <1>3 DEF Keys
    <2>2. \A k : k \in Keys(maps) <=> \E j \in DOMAIN maps : k \in DOMAIN maps[j] BY DEF Keys
    <2> QED BY <1>4, <2>1, <2>2
  <1>7. ASSUME NEW k \in Keys(new) PROVE Get(new, k) = IF k = a THEN v ELSE Get(maps, k)
    <2>1. PICK j \in DOMAIN maps : k \in DOMAIN new[j] BY <1>3, <1>7 DEF Keys
    <2>2. Get(new, k) = new[j][k] BY <1>3, <1>5, <2>1, GetFacts
    <2>3. CASE k = a
      <3>1. j = i BY <1>4, <2>1, <2>3
      <3> QED BY <1>2, <1>3, <2>2, <2>3, <3>1
    <2>4. CASE k # a
      <3>1. k \in DOMAIN maps[j] BY <1>4, <2>1, <2>4
      <3>2. Get(maps, k) = maps[j][k] BY <3>1, GetFacts
      <3>3. new[j][k] = maps[j][k] BY <1>2, <1>3, <2>4, <3>1
      <3> QED BY <2>2, <2>4, <3>2, <3>3
    <2> QED BY <2>3, <2>4
  <1> QED BY <1>3, <1>5, <1>6, <1>7 DEF IsSet, new

\* So does another Map that holds a new key.
LEMMA PutNew ==
  ASSUME NEW maps \in Seq(BalanceMap), OneMapPerKey(maps),
         NEW a \in Account, NEW v \in AnyBalance, a \notin Keys(maps)
  PROVE  IsSet(maps, a, v, Append(maps, Put(<<>>, a, v)))
  <1> DEFINE new == Append(maps, Put(<<>>, a, v))
             n == Len(maps) + 1
             last == Put(<<>>, a, v)
  <1>1. Len(maps) \in Nat /\ DOMAIN maps = 1..Len(maps) OBVIOUS
  <1>2. last \in BalanceMap /\ DOMAIN last = {a} /\ last[a] = v
    <2>1. DOMAIN <<>> = {} OBVIOUS
    <2>2. last = [k \in {a} |-> v] BY <2>1 DEF Put
    <2>3. last \in [{a} -> AnyBalance] /\ {a} \subseteq Account BY <2>2
    <2> QED BY <2>2, <2>3 DEF BalanceMap, Account
  <1> HIDE DEF last
  <1>3. /\ new \in Seq(BalanceMap) /\ Len(new) = n /\ DOMAIN new = 1..n
        /\ new[n] = last /\ \A j \in DOMAIN maps : new[j] = maps[j] /\ j # n
    BY <1>1, <1>2 DEF last
  <1> HIDE DEF new
  <1>4. \A j \in DOMAIN new : j # n => j \in DOMAIN maps BY <1>1, <1>3
  <1>5. \A j \in DOMAIN maps : j \in DOMAIN new /\ a \notin DOMAIN maps[j] BY <1>1, <1>3 DEF Keys
  <1>6. OneMapPerKey(new)
    <2>1. ASSUME NEW p \in DOMAIN new, NEW q \in DOMAIN new,
                 NEW k \in DOMAIN new[p], k \in DOMAIN new[q]
          PROVE  p = q
      <3>1. CASE k = a BY <1>2, <1>3, <1>4, <1>5, <2>1, <3>1
      <3>2. CASE k # a BY <1>2, <1>3, <1>4, <2>1, <3>2 DEF OneMapPerKey
      <3> QED BY <3>1, <3>2
    <2> QED BY <1>1, <1>3, <2>1 DEF OneMapPerKey
  <1>7. n \in DOMAIN new BY <1>1, <1>3
  <1>a. new \in Seq(BalanceMap) BY <1>3
  <1>8. Keys(new) = Keys(maps) \cup {a} BY <1>2, <1>3, <1>4, <1>5, <1>7 DEF Keys
  <1>9. ASSUME NEW k \in Keys(new) PROVE Get(new, k) = IF k = a THEN v ELSE Get(maps, k)
    <2>1. CASE k = a
      <3>1. a \in DOMAIN new[n] BY <1>2, <1>3
      <3>2. Get(new, a) = new[n][a]
        <4> HIDE DEF n
        <4> QED BY <1>a, <1>6, <1>7, <3>1, GetFacts
      <3> QED BY <1>2, <1>3, <2>1, <3>2
    <2>2. CASE k # a
      <3>1. PICK j \in DOMAIN maps : k \in DOMAIN maps[j] BY <1>8, <1>9, <2>2 DEF Keys
      <3>2. Get(maps, k) = maps[j][k] BY <3>1, GetFacts
      <3>3. k \in DOMAIN new[j] /\ j \in DOMAIN new BY <1>3, <1>5, <3>1
      <3>4. Get(new, k) = new[j][k] BY <1>a, <1>6, <3>3, GetFacts
      <3> QED BY <1>3, <2>2, <3>2, <3>4
    <2> QED BY <2>1, <2>2
  <1> QED BY <1>a, <1>6, <1>8, <1>9 DEF IsSet, new

\* set() changes one key of the map that the Maps stand for, and leaves each key
\* in one Map.
LEMMA SetFacts ==
  ASSUME NEW maps \in Seq(BalanceMap), OneMapPerKey(maps),
         NEW a \in Account, NEW v \in AnyBalance
  PROVE  IsSet(maps, a, v, Set(maps, a, v))
  <1>1. Len(maps) \in Nat /\ DOMAIN maps = 1..Len(maps) /\ Len(maps) \in DOMAIN maps
    BY DEF OneMapPerKey
  <1>2. CASE a \in Keys(maps)
    <2>1. PICK i \in DOMAIN maps : a \in DOMAIN maps[i] BY <1>2 DEF Keys
    <2>2. Owner(maps, a) = i BY <2>1, GetFacts
    <2>3. Set(maps, a, v) = PutIn(maps, i, a, v) BY <1>2, <2>2 DEF Set, PutIn
    <2>4. \A j \in DOMAIN maps : a \in DOMAIN maps[j] => j = i BY <2>1 DEF OneMapPerKey
    <2>5. IsSet(maps, a, v, PutIn(maps, i, a, v)) BY <2>4, PutAt
    <2> QED BY <2>3, <2>5
  <1>3. CASE a \notin Keys(maps)
    <2>1. \A j \in DOMAIN maps : a \notin DOMAIN maps[j] BY <1>3 DEF Keys
    <2>2. CASE Cardinality(DOMAIN maps[Len(maps)]) > PerMapSizeLimit
      <3>1. Set(maps, a, v) = Append(maps, Put(<<>>, a, v)) BY <1>3, <2>2 DEF Set, Add
      <3>2. IsSet(maps, a, v, Append(maps, Put(<<>>, a, v))) BY <1>3, PutNew
      <3> QED BY <3>1, <3>2
    <2>3. CASE ~(Cardinality(DOMAIN maps[Len(maps)]) > PerMapSizeLimit)
      <3> DEFINE i == Len(maps)
      <3>1. Set(maps, a, v) = PutIn(maps, i, a, v) BY <1>3, <2>3 DEF Set, Add, PutIn
      <3>2. i \in DOMAIN maps BY <1>1
      <3>3. \A j \in DOMAIN maps : a \in DOMAIN maps[j] => j = i BY <2>1
      <3> HIDE DEF i
      <3>4. IsSet(maps, a, v, PutIn(maps, i, a, v)) BY <3>2, <3>3, PutAt
      <3> QED BY <3>1, <3>4
    <2> QED BY <2>2, <2>3
  <1> QED BY <1>2, <1>3

\* To its users BigMap is one map, whatever the limit of its Maps: set() puts one
\* key in it.
THEOREM OneMap ==
  ASSUME NEW maps \in Seq(BalanceMap), OneMapPerKey(maps),
         NEW a \in Account, NEW v \in AnyBalance
  PROVE  Contents(Set(maps, a, v)) = Put(Contents(maps), a, v)
  <1> DEFINE new == Set(maps, a, v)
  <1>1. /\ Keys(new) = Keys(maps) \cup {a}
        /\ \A k \in Keys(new) : Get(new, k) = IF k = a THEN v ELSE Get(maps, k)
    BY SetFacts DEF IsSet
  <1> HIDE DEF new
  <1>2. Contents(new) = [k \in Keys(maps) \cup {a} |-> IF k = a THEN v ELSE Get(maps, k)]
    BY <1>1 DEF Contents
  <1>3. /\ DOMAIN Contents(maps) = Keys(maps)
        /\ \A k \in Keys(maps) : Contents(maps)[k] = Get(maps, k)
    BY DEF Contents
  <1>4. Put(Contents(maps), a, v)
          = [k \in Keys(maps) \cup {a} |-> IF k = a THEN v ELSE Get(maps, k)]
    BY <1>3 DEF Put
  <1> QED BY <1>2, <1>4 DEF new

LEMMA EmptyFacts ==
  Empty \in Seq(BalanceMap) /\ OneMapPerKey(Empty) /\ Keys(Empty) = {}
  <1>1. <<>> \in BalanceMap /\ DOMAIN <<>> = {}
    <2>1. DOMAIN <<>> = {} OBVIOUS
    <2>2. <<>> \in [DOMAIN <<>> -> AnyBalance] /\ DOMAIN <<>> \subseteq Account BY <2>1
    <2> QED BY <2>1, <2>2, MapType
  <1>2. Empty \in Seq(BalanceMap) /\ Len(Empty) = 1 /\ DOMAIN Empty = {1} /\ Empty[1] = <<>>
    BY <1>1 DEF Empty
  <1> QED BY <1>1, <1>2 DEF OneMapPerKey, Keys

------------------------------------------------------------------------------
(* Last blocks and balances *)

\* Among some blocks, each account has one that is the last.
LEMMA Highest ==
  ASSUME NEW S \in SUBSET Block, NEW c \in S
  PROVE  \E b \in Latest(S) : b[1] = c[1]
  <1> DEFINE Below(b) == MaxHeight - b[2]
             N == { Below(b) : b \in { x \in S : x[1] = c[1] } }
  <1>1. \A b \in S : b[2] \in Nat /\ Below(b) \in Nat
    BY DailyAssumption DEF DailyAssumption
  <1>2. N \in SUBSET Nat /\ Below(c) \in N BY <1>1
  <1>3. PICK n \in N : \A m \in N : ~(<<m, n>> \in OpToRel(<, Nat))
    BY <1>2, WFMin, NatLessThanWellFounded
  <1>4. \A m \in N : n <= m
    <2> HIDE DEF N
    <2>1. \A m \in N : ~(m < n) BY <1>2, <1>3 DEF OpToRel
    <2> QED BY <1>2, <2>1
  <1>5. PICK b \in S : b[1] = c[1] /\ n = Below(b) BY <1>3
  <1>6. ASSUME NEW d \in S, d[1] = b[1] PROVE d[2] <= b[2]
    <2>1. Below(d) \in N BY <1>5, <1>6
    <2>2. Below(b) <= Below(d) BY <1>4, <1>5, <2>1
    <2>3. b[2] \in Nat /\ d[2] \in Nat /\ MaxHeight \in Nat
      BY <1>1, DailyAssumption DEF DailyAssumption
    <2> QED BY <2>2, <2>3
  <1> QED BY <1>5, <1>6 DEF Latest

LEMMA LatestFacts ==
  ASSUME NEW S \in SUBSET Block
  PROVE  /\ Latest(S) \subseteq S
         /\ \A b, c \in Latest(S) : b[1] = c[1] => b = c
         /\ DOMAIN LatestBalances(S) = { b[1] : b \in S }
         /\ \A b \in Latest(S) : b[1] \in DOMAIN LatestBalances(S) /\ LatestBalances(S)[b[1]] = Balance[b]
         /\ \A a \in DOMAIN LatestBalances(S) : \E b \in Latest(S) : b[1] = a
         /\ LatestBalances(S) \in BalanceMap
  <1>1. Latest(S) \subseteq S BY DEF Latest
  <1>2. ASSUME NEW b \in Latest(S), NEW c \in Latest(S), b[1] = c[1] PROVE b = c
    <2>1. b[2] <= c[2] /\ c[2] <= b[2] BY <1>2 DEF Latest
    <2>2. b \in Block /\ c \in Block BY <1>1
    <2>3. b[2] = c[2] BY <2>1, <2>2, BlockFacts
    <2> QED BY <1>2, <2>2, <2>3, BlockFacts
  <1>3. DOMAIN LatestBalances(S) = { b[1] : b \in S } BY DEF LatestBalances
  <1>4. ASSUME NEW b \in Latest(S)
        PROVE  b[1] \in DOMAIN LatestBalances(S) /\ LatestBalances(S)[b[1]] = Balance[b]
    <2>1. b[1] \in { c[1] : c \in S } BY <1>1
    <2>2. LatestBalances(S)[b[1]] = Balance[CHOOSE c \in Latest(S) : c[1] = b[1]]
      BY <2>1 DEF LatestBalances
    <2>3. (CHOOSE c \in Latest(S) : c[1] = b[1]) = b BY <1>2
    <2> QED BY <1>3, <2>1, <2>2, <2>3
  <1>5. ASSUME NEW a \in DOMAIN LatestBalances(S) PROVE \E b \in Latest(S) : b[1] = a
    <2>1. PICK c \in S : c[1] = a BY <1>3, <1>5
    <2> QED BY <2>1, Highest
  <1>6. LatestBalances(S) \in BalanceMap
    <2>1. DOMAIN LatestBalances(S) \subseteq Account BY <1>3, BlockFacts
    <2>2. \A a \in DOMAIN LatestBalances(S) : LatestBalances(S)[a] \in AnyBalance
      BY <1>1, <1>4, <1>5 DEF AnyBalance
    <2>3. LatestBalances(S) = [a \in DOMAIN LatestBalances(S) |-> LatestBalances(S)[a]]
      BY DEF LatestBalances
    <2> HIDE DEF LatestBalances
    <2>4. LatestBalances(S) \in [DOMAIN LatestBalances(S) -> AnyBalance] BY <2>2, <2>3
    <2> QED BY <2>1, <2>4, MapType
  <1> QED BY <1>1, <1>2, <1>3, <1>4, <1>5, <1>6

\* The balances after some more blocks are the earlier ones, overridden by those
\* of the new blocks, if these are higher than the account's others.
LEMMA LatestCarried ==
  ASSUME NEW S \in SUBSET Block, NEW T \in SUBSET Block,
         \A b \in S, c \in T : b \notin T /\ b[1] = c[1] => b[2] < c[2]
  PROVE  /\ DOMAIN LatestBalances(S \cup T) = DOMAIN LatestBalances(S) \cup DOMAIN LatestBalances(T)
         /\ \A a \in DOMAIN LatestBalances(S \cup T) :
               LatestBalances(S \cup T)[a] =
                 IF a \in DOMAIN LatestBalances(T) THEN LatestBalances(T)[a] ELSE LatestBalances(S)[a]
  <1> DEFINE U == S \cup T
  <1>1. U \in SUBSET Block OBVIOUS
  <1>2. /\ DOMAIN LatestBalances(U) = { b[1] : b \in U }
        /\ DOMAIN LatestBalances(S) = { b[1] : b \in S }
        /\ DOMAIN LatestBalances(T) = { b[1] : b \in T }
    BY <1>1, LatestFacts
  <1>3. DOMAIN LatestBalances(U) = DOMAIN LatestBalances(S) \cup DOMAIN LatestBalances(T) BY <1>2
  <1>4. ASSUME NEW a \in DOMAIN LatestBalances(T)
        PROVE  LatestBalances(U)[a] = LatestBalances(T)[a]
    <2>1. PICK b \in Latest(T) : b[1] = a BY LatestFacts
    <2>2. LatestBalances(T)[a] = Balance[b] /\ b \in T BY <2>1, LatestFacts
    <2>3. ASSUME NEW c \in U, c[1] = b[1] PROVE c[2] <= b[2]
      <3>1. CASE c \in T BY <2>1, <2>3, <3>1 DEF Latest
      <3>2. CASE c \notin T
        <4>1. c[2] < b[2] BY <2>2, <2>3, <3>2
        <4> QED BY <2>2, <4>1, BlockFacts
      <3> QED BY <3>1, <3>2
    <2>4. b \in Latest(U) BY <2>2, <2>3 DEF Latest
    <2>5. LatestBalances(U)[a] = Balance[b] BY <1>1, <2>1, <2>4, LatestFacts
    <2> QED BY <2>2, <2>5
  <1>5. ASSUME NEW a \in DOMAIN LatestBalances(S), a \notin DOMAIN LatestBalances(T)
        PROVE  LatestBalances(U)[a] = LatestBalances(S)[a]
    <2>1. PICK b \in Latest(S) : b[1] = a BY LatestFacts
    <2>2. LatestBalances(S)[a] = Balance[b] /\ b \in S BY <2>1, LatestFacts
    <2>3. \A c \in T : c[1] # a BY <1>2, <1>5
    <2>4. b \in Latest(U) BY <2>1, <2>2, <2>3 DEF Latest
    <2>5. LatestBalances(U)[a] = Balance[b] BY <1>1, <2>1, <2>4, LatestFacts
    <2> QED BY <2>2, <2>5
  <1> QED BY <1>3, <1>4, <1>5

\* Maps that stand for the last balances count each account once.
LEMMA OccurrencesFacts ==
  ASSUME NEW maps \in Seq(BalanceMap), OneMapPerKey(maps), NEW S \in SUBSET Block,
         Keys(maps) = DOMAIN LatestBalances(S),
         \A a \in Keys(maps) : Get(maps, a) = LatestBalances(S)[a],
         NEW R
  PROVE  Occurrences(maps, R) = Cardinality({ b \in Latest(S) : Balance[b] \in R })
  <1> DEFINE B == { b \in Latest(S) : Balance[b] \in R }
             E == { entry \in (1..Len(maps)) \X Keys(maps) :
                      LET map == maps[entry[1]] IN entry[2] \in DOMAIN map /\ map[entry[2]] \in R }
             f == [b \in B |-> <<Owner(maps, b[1]), b[1]>>]
  <1>1. DOMAIN maps = 1..Len(maps) OBVIOUS
  <1>2. IsFiniteSet(B)
    <2>1. B \subseteq Block BY LatestFacts
    <2> QED BY <2>1, BlockFacts, FS_Subset
  <1>3. ASSUME NEW b \in B PROVE f[b] \in E
    <2>1. b[1] \in Keys(maps) /\ Get(maps, b[1]) = Balance[b] BY LatestFacts
    <2>2. PICK i \in DOMAIN maps : b[1] \in DOMAIN maps[i] BY <2>1 DEF Keys
    <2>3. Owner(maps, b[1]) = i /\ Get(maps, b[1]) = maps[i][b[1]] BY <2>2, GetFacts
    <2>4. maps[i][b[1]] \in R BY <2>1, <2>3
    <2>5. f[b] = <<i, b[1]>> BY <2>3
    <2> QED BY <1>1, <2>1, <2>2, <2>4, <2>5
  <1>4. ASSUME NEW b \in B, NEW c \in B, f[b] = f[c] PROVE b = c
    <2>1. b[1] = c[1] BY <1>4
    <2> QED BY <2>1, LatestFacts
  <1>5. ASSUME NEW e \in E PROVE \E b \in B : f[b] = e
    <2>1. /\ e = <<e[1], e[2]>> /\ e[1] \in DOMAIN maps /\ e[2] \in DOMAIN maps[e[1]]
          /\ maps[e[1]][e[2]] \in R
      BY <1>1
    <2>2. e[2] \in Keys(maps) /\ Owner(maps, e[2]) = e[1] /\ Get(maps, e[2]) = maps[e[1]][e[2]]
      BY <2>1, GetFacts
    <2>0. e[2] \in DOMAIN LatestBalances(S) BY <2>2
    <2>3. PICK b \in Latest(S) : b[1] = e[2] BY <2>0, LatestFacts
    <2>4. Balance[b] = Get(maps, e[2]) BY <2>2, <2>3, LatestFacts
    <2>5. b \in B BY <2>1, <2>2, <2>4
    <2>6. f[b] = <<e[1], e[2]>> BY <2>2, <2>3, <2>5
    <2> QED BY <2>1, <2>5, <2>6
  <1>6. f \in Bijection(B, E)
    <2> HIDE DEF B, E
    <2>1. f \in [B -> E] BY <1>3
    <2> HIDE DEF f
    <2> QED BY <1>4, <1>5, <2>1 DEF Bijection, Injection, Surjection, IsInjective
  <1>7. Cardinality(E) = Cardinality(B)
    <2> HIDE DEF B, E, f
    <2> QED BY <1>2, <1>6, FS_Bijection DEF ExistsBijection
  <1> QED BY <1>7 DEF Occurrences

------------------------------------------------------------------------------
(* Pages and counters *)

LEMMA ReturnedFacts ==
  ASSUME NEW n \in Nat, NEW c \in Nat, c <= n
  PROVE  /\ Returned(n, c) \in Nat
         /\ Returned(n, c) = BATCH_SIZE => c + BATCH_SIZE <= n
         /\ Returned(n, c) # BATCH_SIZE => Returned(n, c) = n - c /\ n - c < BATCH_SIZE
  BY Bounds DEF Returned

\* A page adds its rows to those of the pages before it.
LEMMA PageAdds ==
  ASSUME NEW c \in Nat, NEW rows \in SUBSET (Nat \X Block), \A p \in rows : p[1] < c,
         NEW page \in SUBSET Block
  PROVE  /\ IsFiniteSet(rows) /\ Cardinality(rows) \in Nat /\ Cardinality(page) \in Nat
         /\ Cardinality(rows \cup ({c} \X page)) = Cardinality(rows) + Cardinality(page)
  <1> DEFINE new == {c} \X page
  <1>1. IsFiniteSet(page) BY BlockFacts, FS_Subset
  <1>2. IsFiniteSet(rows)
    <2>1. IsFiniteSet(0..c) BY FS_Interval
    <2>2. IsFiniteSet((0..c) \X Block) BY <2>1, BlockFacts, FS_Product
    <2>3. rows \subseteq (0..c) \X Block OBVIOUS
    <2> QED BY <2>2, <2>3, FS_Subset
  <1>3. IsFiniteSet({c}) /\ Cardinality({c}) = 1 BY FS_Singleton
  <1>4. /\ Cardinality(page) \in Nat /\ Cardinality(rows) \in Nat
        /\ IsFiniteSet(new) /\ Cardinality(new) = Cardinality(page)
    <2>1. Cardinality(page) \in Nat /\ Cardinality(rows) \in Nat BY <1>1, <1>2, FS_CardinalityType
    <2>2. IsFiniteSet(new) /\ Cardinality(new) = 1 * Cardinality(page)
      BY <1>1, <1>3, FS_Product
    <2> QED BY <2>1, <2>2
  <1>5. rows \cap new = {} OBVIOUS
  <1> HIDE DEF new
  <1>6. Cardinality(rows \cup new) = Cardinality(rows) + Cardinality(new) - Cardinality({})
    BY <1>2, <1>4, <1>5, FS_Union
  <1>7. Cardinality({}) = 0 BY FS_EmptySet
  <1> QED BY <1>2, <1>4, <1>6, <1>7 DEF new

\* The counter of blocks counts the rows.
LEMMA BlocksCounted ==
  ASSUME NEW rows \in SUBSET (Nat \X Block)
  PROVE  Activity(rows).blocks = Cardinality(rows)
  <1>1. { row \in rows : row[2] \in Block } = rows OBVIOUS
  <1> QED BY <1>1 DEF Activity

LEMMA DayCounted ==
  ASSUME NEW rows \in SUBSET Block
  PROVE  Activity({0} \X rows).blocks = Cardinality(rows)
  <1>1. {0} \X rows \in SUBSET (Nat \X Block) OBVIOUS
  <1>2. IsFiniteSet(rows) /\ Cardinality(rows) \in Nat BY BlockFacts, FS_Subset, FS_CardinalityType
  <1>3. IsFiniteSet({0}) /\ Cardinality({0}) = 1 BY FS_Singleton
  <1>4. Cardinality({0} \X rows) = Cardinality(rows) BY <1>2, <1>3, FS_Product
  <1> QED BY <1>1, <1>4, BlocksCounted

------------------------------------------------------------------------------
(* The parts of the state. *)

TablesOK == local_timestamp \in [Block -> {NotSaved} \cup 0..MaxTime]

RollupOK == rollup_daily = [d \in Day |-> [s \in Script |-> rollup_daily[d][s]]]

DailyOK ==
    /\ daily \in [Runner -> {Idle} \cup DailyTask]
    /\ \A r \in Runner : \A t \in {daily[r]} \ {Idle} : ActivityInv(t)

DistributionOK ==
    /\ distribution \in [Runner -> {Idle} \cup DistributionTask]
    /\ \A r \in Runner : \A t \in {distribution[r]} \ {Idle} : DistributionInv(t)

HistoryOK ==
    /\ cron_day \in [Script -> Day]
    /\ unread \in [Script -> SUBSET Day] /\ missed \in [Script -> SUBSET Day]
    /\ events \in 0..MaxEvents

InvParts ==
    /\ now \in 0..MaxTime /\ TablesOK /\ RollupOK /\ DailyOK /\ DistributionOK /\ HistoryOK
    /\ TimesAscend /\ ActivityIsExact /\ DistributionIsExact
    /\ \A s \in Script : CronInv(s)

LEMMA Parts == (IInv <=> InvParts) /\ (IInv' <=> InvParts')
  <1>1. IInv <=> InvParts
    BY DEF InvParts, IInv, TypeOK, TablesOK, RollupOK, DailyOK, DistributionOK, HistoryOK
  <1> QED BY <1>1, PTL

LEMMA StampedFacts ==
  ASSUME TablesOK
  PROVE  /\ Saved \subseteq Block /\ \A b \in Saved : local_timestamp[b] \in 0..MaxTime
         /\ \A x, y, b : b \in Stamped(x, y) <=>
                b \in Saved /\ x <= local_timestamp[b] /\ local_timestamp[b] < y
         /\ \A x, y : Stamped(x, y) \subseteq Block /\ IsFiniteSet(Stamped(x, y))
  <1>1. Saved \subseteq Block /\ \A b \in Saved : local_timestamp[b] \in 0..MaxTime
    BY DEF TablesOK, Saved
  <1>2. \A x, y, b : b \in Stamped(x, y) <=>
                b \in Saved /\ x <= local_timestamp[b] /\ local_timestamp[b] < y
    BY DEF Stamped
  <1>3. \A x, y : Stamped(x, y) \subseteq Block BY <1>1, <1>2
  <1> QED BY <1>1, <1>2, <1>3, BlockFacts, FS_Subset

\* What is said about a task depends on the blocks' times only.
LEMMA SameTables ==
  ASSUME UNCHANGED local_timestamp
  PROVE  /\ TablesOK' <=> TablesOK
         /\ TimesAscend' <=> TimesAscend
         /\ \A t : ActivityInv(t)' <=> ActivityInv(t)
         /\ \A t : DistributionInv(t)' <=> DistributionInv(t)
         /\ \A s, d : Complete(s, d)' = Complete(s, d)
  <1>2. Saved' = Saved BY DEF Saved
  <1>3. \A x, y : Stamped(x, y)' = Stamped(x, y) BY <1>2 DEF Stamped
  <1>5. ASSUME NEW t PROVE ActivityInv(t)' <=> ActivityInv(t)
    BY <1>3 DEF ActivityInv
  <1>6. ASSUME NEW t PROVE DistributionInv(t)' <=> DistributionInv(t)
    BY <1>3 DEF DistributionInv, Pending
  <1>7. ASSUME NEW s, NEW d PROVE Complete(s, d)' = Complete(s, d)
    BY <1>3 DEF Complete
  <1> QED BY <1>2, <1>5, <1>6, <1>7 DEF TablesOK, TimesAscend

LEMMA TaskFacts ==
  /\ \A t \in DailyTask :
        /\ t # Idle /\ t.pc \in {"page", "db"} /\ t.time \in Day /\ t.time \in Nat /\ t.end \in Int
        /\ t.cursor \in Nat /\ t.rows \in SUBSET (Nat \X Block) /\ t.unread \in BOOLEAN
  /\ \A t \in DistributionTask :
        /\ t # Idle /\ t.pc \in {"frontiers", "changes", "db"} /\ t.time \in Day /\ t.time \in Nat
        /\ t.end \in Int /\ t.cache \in Seq(BalanceMap) /\ t.todo \in BalanceMap
        /\ t.unread \in BOOLEAN
  <1>1. ASSUME NEW t \in DailyTask
        PROVE  /\ t # Idle /\ t.pc \in {"page", "db"} /\ t.time \in Day /\ t.time \in Nat /\ t.end \in Int
               /\ t.cursor \in Nat /\ t.rows \in SUBSET (Nat \X Block) /\ t.unread \in BOOLEAN
    <2>1. /\ t.pc \in {"page", "db"} /\ t.time \in Day /\ t.end \in Int
          /\ t.cursor \in Nat /\ t.rows \in SUBSET (Nat \X Block) /\ t.unread \in BOOLEAN
      BY DEF DailyTask
    <2>2. Idle.pc = "idle" BY DEF Idle
    <2> QED BY <2>1, <2>2, Bounds
  <1>2. ASSUME NEW t \in DistributionTask
        PROVE  /\ t # Idle /\ t.pc \in {"frontiers", "changes", "db"} /\ t.time \in Day /\ t.time \in Nat
               /\ t.end \in Int /\ t.cache \in Seq(BalanceMap) /\ t.todo \in BalanceMap
               /\ t.unread \in BOOLEAN
    <2>1. /\ t.pc \in {"frontiers", "changes", "db"} /\ t.time \in Day
          /\ t.end \in Int /\ t.cache \in Seq(BalanceMap) /\ t.todo \in BalanceMap
          /\ t.unread \in BOOLEAN
      BY DEF DistributionTask
    <2>2. Idle.pc = "idle" BY DEF Idle
    <2> QED BY <2>1, <2>2, Bounds
  <1> QED BY <1>1, <1>2

\* A script moves to task t, or ends, while the blocks' times stay.
LEMMA DailyMoves ==
  ASSUME DailyOK, UNCHANGED local_timestamp, NEW r \in Runner, NEW t \in {Idle} \cup DailyTask,
         daily' = [daily EXCEPT ![r] = t], t # Idle => ActivityInv(t)
  PROVE  DailyOK' /\ daily'[r] = t /\ \A p \in Runner : p # r => daily'[p] = daily[p]
  <1>1. daily' \in [Runner -> {Idle} \cup DailyTask] BY DEF DailyOK
  <1>2. daily'[r] = t /\ \A p \in Runner : p # r => daily'[p] = daily[p] BY DEF DailyOK
  <1>3. ASSUME NEW p \in Runner, NEW u \in {daily'[p]} \ {Idle} PROVE ActivityInv(u)'
    <2>1. ActivityInv(u) BY <1>2, <1>3 DEF DailyOK
    <2> QED BY <2>1, SameTables
  <1> QED BY <1>1, <1>2, <1>3 DEF DailyOK

LEMMA DistributionMoves ==
  ASSUME DistributionOK, UNCHANGED local_timestamp, NEW r \in Runner, NEW t \in {Idle} \cup DistributionTask,
         distribution' = [distribution EXCEPT ![r] = t], t # Idle => DistributionInv(t)
  PROVE  /\ DistributionOK' /\ distribution'[r] = t
         /\ \A p \in Runner : p # r => distribution'[p] = distribution[p]
  <1>1. distribution' \in [Runner -> {Idle} \cup DistributionTask] BY DEF DistributionOK
  <1>2. distribution'[r] = t /\ \A p \in Runner : p # r => distribution'[p] = distribution[p]
    BY DEF DistributionOK
  <1>3. ASSUME NEW p \in Runner, NEW u \in {distribution'[p]} \ {Idle} PROVE DistributionInv(u)'
    <2>1. DistributionInv(u) BY <1>2, <1>3 DEF DistributionOK
    <2> QED BY <2>1, SameTables
  <1> QED BY <1>1, <1>2, <1>3 DEF DistributionOK

LEMMA SameScripts ==
  ASSUME UNCHANGED local_timestamp
  PROVE  /\ DailyOK /\ UNCHANGED daily => DailyOK'
         /\ DistributionOK /\ UNCHANGED distribution => DistributionOK'
  <1>1. ASSUME DailyOK, UNCHANGED daily PROVE DailyOK'
    BY <1>1, SameTables DEF DailyOK
  <1>2. ASSUME DistributionOK, UNCHANGED distribution PROVE DistributionOK'
    BY <1>2, SameTables DEF DistributionOK
  <1> QED BY <1>1, <1>2

\* While the rows of the rollup and those of blocks stay, the rows stay exact.
LEMMA SameRows ==
  ASSUME UNCHANGED <<local_timestamp, rollup_daily, unread>>
  PROVE  /\ RollupOK' <=> RollupOK
         /\ ActivityIsExact' <=> ActivityIsExact
         /\ DistributionIsExact' <=> DistributionIsExact
  <1>1. UNCHANGED local_timestamp OBVIOUS
  <1>2. \A s, d : Complete(s, d)' = Complete(s, d) BY <1>1, SameTables
  <1> QED BY <1>2 DEF RollupOK, ActivityIsExact, DistributionIsExact

LEMMA TodayFacts ==
  ASSUME now \in 0..MaxTime
  PROVE  /\ now \in Nat /\ Today \in Nat /\ Today \in Day /\ Today <= MaxTime \div DAY
         /\ MaxTime \div DAY \in Nat
  <1>1. now \in Nat /\ now <= MaxTime BY Bounds
  <1>2. Today \in Nat /\ Today \in Day BY <1>1, DayOfFacts DEF Today
  <1>3. MaxTime \div DAY \in Nat BY Bounds, DayOfFacts
  <1> QED BY <1>1, <1>2, <1>3 DEF Day

LEMMA UpsertFacts ==
  ASSUME RollupOK, NEW s \in Script, NEW d \in Day, NEW v, Upsert(s, d, v)
  PROVE  /\ RollupOK'
         /\ \A e \in Day, p \in Script :
               rollup_daily'[e][p] = IF e = d /\ p = s THEN {v} ELSE rollup_daily[e][p]
  <1>1. rollup_daily' = [rollup_daily EXCEPT ![d] = [rollup_daily[d] EXCEPT ![s] = {v}]]
    BY DEF Upsert
  <1>2. \A e \in Day : rollup_daily[e] = [p \in Script |-> rollup_daily[e][p]] BY DEF RollupOK
  <1>3. rollup_daily' = [e \in Day |-> IF e = d THEN [rollup_daily[d] EXCEPT ![s] = {v}] ELSE rollup_daily[e]]
    BY <1>1 DEF RollupOK
  <1>4. \A e \in Day : rollup_daily'[e] = IF e = d THEN [rollup_daily[d] EXCEPT ![s] = {v}] ELSE rollup_daily[e]
    BY <1>3
  <1>5. [rollup_daily[d] EXCEPT ![s] = {v}] = [p \in Script |-> IF p = s THEN {v} ELSE rollup_daily[d][p]]
    BY <1>2
  <1>6. \A e \in Day, p \in Script :
           rollup_daily'[e][p] = IF e = d /\ p = s THEN {v} ELSE rollup_daily[e][p]
    BY <1>4, <1>5
  <1>7. \A e \in Day : rollup_daily'[e] = [p \in Script |-> rollup_daily'[e][p]]
    BY <1>2, <1>4, <1>5
  <1>8. rollup_daily' = [e \in Day |-> rollup_daily'[e]] BY <1>3
  <1> QED BY <1>6, <1>7, <1>8 DEF RollupOK

\* What cron has started goes on, or ends with its row written or missed.
LEMMA CronStays ==
  ASSUME NEW s \in Script, CronInv(s), HistoryOK, UNCHANGED <<now, cron_day>>,
         \A d \in Day : rollup_daily[d][s] # NoHalf => rollup_daily'[d][s] # NoHalf,
         missed[s] \subseteq missed'[s],
         CronTask(s)' # Idle =>
            /\ CronTask(s) # Idle /\ CronTask(s)'.time = CronTask(s).time
            /\ CronTask(s)'.end = CronTask(s).end,
         CronTask(s) # Idle /\ CronTask(s)' = Idle =>
            \/ rollup_daily'[CronTask(s).time][s] # NoHalf
            \/ CronTask(s).time \in missed'[s]
  PROVE  CronInv(s)'
  <1>1. \A d \in 0..(cron_day[s] - Lag(s)) : d \in Day
    BY Bounds DEF HistoryOK, Day, Lag
  <1>2. Today' = Today /\ cron_day' = cron_day BY DEF Today
  <1>3. \A d \in 0..(cron_day[s] - Lag(s)) :
          \/ rollup_daily'[d][s] # NoHalf
          \/ d \in missed'[s]
          \/ CronTask(s)' # Idle /\ CronTask(s)'.time = d
    BY <1>1 DEF CronInv
  <1>4. /\ cron_day[s] <= Today /\ (Today <= Lag(s) \/ cron_day[s] >= Today - 1)
        /\ CronTask(s)' # Idle =>
              /\ CronTask(s)'.time = cron_day[s] - Lag(s)
              /\ IF s = "activity" THEN (CronTask(s)'.time - 1) * DAY <= CronTask(s)'.end
                 ELSE CronTask(s)'.end <= CronTask(s)'.time + 1
    BY DEF CronInv
  <1> QED BY <1>2, <1>3, <1>4 DEF CronInv, Lag

LEMMA CronSame ==
  ASSUME NEW s \in Script, CronInv(s),
         UNCHANGED <<now, cron_day, rollup_daily, missed>>, CronTask(s)' = CronTask(s)
  PROVE  CronInv(s)'
  BY DEF CronInv, Today, Lag

------------------------------------------------------------------------------
(* The invariant holds at first, and each step preserves it. *)

\* The initial state satisfies the inductive invariant.
THEOREM InitIInv == Init => IInv
  <1> SUFFICES ASSUME Init PROVE IInv OBVIOUS
  <1>1. now \in 0..MaxTime /\ Today = 0 /\ 0 \in Day
    <2>1. now = 0 /\ 0 \div DAY = 0 /\ 0 \in Nat /\ 0 <= MaxTime BY Bounds DEF Init
    <2> QED BY <2>1, Bounds, DayOfFacts DEF Today
  <1>2. TablesOK BY DEF Init, TablesOK
  <1>3. RollupOK BY DEF Init, RollupOK, NoColumn
  <1>4. DailyOK /\ DistributionOK BY DEF Init, DailyOK, DistributionOK
  <1>5. HistoryOK BY <1>1, Bounds DEF Init, HistoryOK
  <1>6. TimesAscend BY DEF Init, TimesAscend, Saved
  <1>7. \A d \in Day, s \in Script : rollup_daily[d][s] = NoHalf BY DEF Init, NoColumn
  <1>8. ActivityIsExact /\ DistributionIsExact
    BY <1>7 DEF ActivityIsExact, DistributionIsExact, Script, NoHalf
  <1>9. ASSUME NEW s \in Script PROVE CronInv(s)
    <2>1. CronTask(s) = Idle /\ cron_day[s] = 0 BY DEF Init, CronTask, Runner
    <2>2. Lag(s) \in Nat /\ Lag(s) > 0 BY DEF Lag
    <2> QED BY <1>1, <2>1, <2>2 DEF CronInv
  <1> QED BY <1>1, <1>2, <1>3, <1>4, <1>5, <1>6, <1>8, <1>9, Parts DEF InvParts

LEMMA TickInv ==
  ASSUME IInv, Tick
  PROVE  IInv'
  <1>a. /\ now \in 0..MaxTime /\ TablesOK /\ RollupOK /\ DailyOK /\ DistributionOK /\ HistoryOK
        /\ TimesAscend /\ ActivityIsExact /\ DistributionIsExact
        /\ \A s \in Script : CronInv(s)
    BY Parts DEF InvParts
  <1>b. /\ now < MaxTime /\ now' = now + 1 /\ \A s \in Script : ~CronDue(s)
        /\ UNCHANGED local_timestamp /\ UNCHANGED rollup_daily /\ UNCHANGED daily /\ UNCHANGED distribution
        /\ UNCHANGED <<unread, cron_day, missed, events>>
    BY DEF Tick, scripts, history
  <1>1. now' \in 0..MaxTime BY <1>a, <1>b, Bounds
  <1>2. TablesOK' /\ TimesAscend' BY <1>a, <1>b, SameTables
  <1>3. RollupOK' /\ ActivityIsExact' /\ DistributionIsExact' BY <1>a, <1>b, SameRows
  <1>4. DailyOK' /\ DistributionOK' BY <1>a, <1>b, SameScripts
  <1>5. HistoryOK' BY <1>a, <1>b DEF HistoryOK
  <1>6. /\ Today \in Nat
        /\ Today' = Today \/ (Today' = Today + 1 /\ now % DAY = DAY - 1)
    <2>1. now \in Nat /\ now + 1 \in Nat BY <1>a, Bounds
    <2> DEFINE d == now \div DAY
               e == (now + 1) \div DAY
    <2>2. d \in Nat /\ d * DAY <= now /\ now < (d + 1) * DAY /\ now % DAY = now - d * DAY
      BY <2>1, DayOfFacts
    <2>3. CASE now + 1 < (d + 1) * DAY
      <3>1. e = d
        <4>1. d * DAY <= now + 1 BY <2>1, <2>2, Bounds
        <4> HIDE DEF d
        <4> QED BY <2>1, <2>2, <2>3, <4>1, DayOfUnique
      <3> QED BY <1>b, <2>2, <3>1 DEF Today
    <2>4. CASE ~(now + 1 < (d + 1) * DAY)
      <3>1. (d + 1) * DAY = d * DAY + DAY /\ (d + 2) * DAY = d * DAY + DAY + DAY /\ d * DAY \in Nat
        BY <2>2, Bounds
      <3>2. now + 1 = (d + 1) * DAY BY <2>1, <2>2, <2>4, <3>1, Bounds
      <3>3. (d + 1) * DAY <= now + 1 /\ now + 1 < (d + 2) * DAY BY <2>1, <3>1, <3>2, Bounds
      <3>4. e = d + 1
        <4>1. d + 1 \in Nat /\ d + 1 + 1 = d + 2 BY <2>2
        <4> QED BY <2>1, <3>3, <4>1, DayOfUnique
      <3>5. now % DAY = DAY - 1 BY <2>1, <2>2, <3>1, <3>2, Bounds
      <3> QED BY <1>b, <2>2, <3>4, <3>5 DEF Today
    <2> QED BY <2>3, <2>4
  <1>7. ASSUME NEW s \in Script PROVE CronInv(s)'
    <2>1. cron_day[s] \in Nat BY <1>a, Bounds DEF HistoryOK
    <2>2. CronTask(s)' = CronTask(s) BY <1>b DEF CronTask
    <2>3. ~CronDue(s) /\ CronInv(s) BY <1>a, <1>b
    <2>4. now % DAY = DAY - 1 => cron_day[s] >= Today \/ Today < Lag(s)
      BY <1>6, <2>1, <2>3, Bounds DEF CronDue, Lag
    <2>5. Lag(s) \in Nat BY DEF Lag
    <2>6. cron_day[s] <= Today /\ (Today <= Lag(s) \/ cron_day[s] >= Today - 1) BY <2>3 DEF CronInv
    <2>7. cron_day[s] <= Today' /\ (Today' <= Lag(s) \/ cron_day[s] >= Today' - 1)
      BY <1>6, <2>1, <2>4, <2>5, <2>6
    <2> QED BY <1>b, <2>2, <2>3, <2>7 DEF CronInv, Lag
  <1> QED BY <1>1, <1>2, <1>3, <1>4, <1>5, <1>7, Parts DEF InvParts

\* Before its first page, a script has read nothing.
LEMMA NothingRead ==
  ASSUME TablesOK, NEW t \in DailyTask, t.pc = "page", t.cursor = 0, t.rows = {}, t.end >= -DAY
  PROVE  ActivityInv(t)
  <1> DEFINE rows == Stamped(t.time * DAY, (t.time + 1) * DAY)
  <1>1. IsFiniteSet(rows) BY StampedFacts
  <1> HIDE DEF rows
  <1>2. Cardinality(rows) \in Nat BY <1>1, FS_CardinalityType
  <1>3. Cardinality(t.rows) = 0 BY FS_EmptySet
  <1> QED BY <1>2, <1>3 DEF ActivityInv, rows

LEMMA OptionFacts ==
  ASSUME NEW o \in Option
  PROVE  /\ o.days \in Nat /\ o.days > 0 /\ o.full \in BOOLEAN
         /\ o.start_date = NoDate \/ o.start_date \in Day
         /\ o.end_date = NoDate \/ o.end_date \in Day
  BY DEF Option

LEMMA DailyStartFacts ==
  ASSUME now \in 0..MaxTime, TablesOK, NEW o \in Option, DailyFirst(o) >= 0, DailyEnd(o) >= -DAY
  PROVE  /\ DailyStart(o) \in DailyTask /\ ActivityInv(DailyStart(o))
         /\ DailyStart(o).time = DailyFirst(o) /\ DailyStart(o).end = DailyEnd(o)
  <1> DEFINE t == DailyStart(o)
  <1>1. Today \in Nat /\ Today \in Day /\ (Today - 1 >= 0 => Today - 1 \in Day)
    BY TodayFacts, Bounds DEF Day
  <1>2. DailyFirst(o) \in Day /\ DailyFirst(o) \in Int
    <2>1. CASE o.start_date # NoDate
      <3>1. o.start_date \in Day /\ DailyFirst(o) = o.start_date BY <2>1, OptionFacts DEF DailyFirst
      <3>2. o.start_date \in Nat BY <3>1, Bounds
      <3> QED BY <3>1, <3>2
    <2>2. CASE o.start_date = NoDate BY <1>1, <2>2, Bounds DEF DailyFirst
    <2> QED BY <2>1, <2>2
  <1>3. DailyEnd(o) \in Int
    <2>1. (DailyFirst(o) - o.days) * DAY \in Int BY <1>2, OptionFacts, Bounds
    <2>2. ASSUME o.end_date # NoDate PROVE o.end_date * DAY \in Int
      <3>1. o.end_date \in Nat BY <2>2, OptionFacts, Bounds
      <3> QED BY <3>1, Bounds
    <2> QED BY <2>1, <2>2, Bounds DEF DailyEnd
  <1>4. t = [ pc |-> "page", time |-> DailyFirst(o), end |-> DailyEnd(o), cursor |-> 0, rows |-> {},
              unread |-> FALSE ]
    BY DEF DailyStart
  <1>5. /\ t.pc = "page" /\ t.time = DailyFirst(o) /\ t.end = DailyEnd(o) /\ t.cursor = 0
        /\ t.rows = {}
    BY <1>4
  <1>6. t \in DailyTask BY <1>2, <1>3, <1>4 DEF DailyTask
  <1> HIDE DEF t
  <1>7. ActivityInv(t) BY <1>5, <1>6, NothingRead
  <1> QED BY <1>5, <1>6, <1>7 DEF t

LEMMA DistributionStartFacts ==
  ASSUME now \in 0..MaxTime, NEW o \in Option, DistributionFirst(o) >= 0
  PROVE  /\ DistributionStart(o) \in DistributionTask /\ DistributionInv(DistributionStart(o))
         /\ DistributionStart(o).time = DistributionFirst(o)
         /\ DistributionStart(o).end = IF o.end_date # NoDate THEN o.end_date ELSE Today - 1
  <1> DEFINE t == DistributionStart(o)
             end == IF o.end_date # NoDate THEN o.end_date ELSE Today - 1
  <1>1. Today \in Nat /\ Today \in Day /\ Today <= MaxTime \div DAY /\ MaxTime \div DAY \in Nat
    BY TodayFacts
  <1>2. DistributionFirst(o) \in Day
    <2>1. first_timestamp \div DAY \in Day BY Bounds, DayOfFacts
    <2>2. Today - 1 - o.days >= 0 => Today - 1 - o.days \in Day BY <1>1, OptionFacts DEF Day
    <2> QED BY <2>1, <2>2, OptionFacts DEF DistributionFirst
  <1>3. end \in Int /\ end <= MaxTime \div DAY BY <1>1, OptionFacts DEF Day
  <1> HIDE DEF end
  <1>4. t = [ pc |-> "frontiers", time |-> DistributionFirst(o), end |-> end, cache |-> Empty,
              todo |-> <<>>, unread |-> FALSE ]
    BY DEF DistributionStart, end
  <1>5. <<>> \in BalanceMap /\ DOMAIN <<>> = {}
    <2>1. Empty \in Seq(BalanceMap) /\ Len(Empty) = 1 /\ Empty[1] = <<>> BY EmptyFacts DEF Empty
    <2> QED BY <2>1
  <1>6. /\ t.pc = "frontiers" /\ t.time = DistributionFirst(o) /\ t.end = end /\ t.cache = Empty
        /\ t.todo = <<>>
    BY <1>4
  <1>7. t \in DistributionTask BY <1>2, <1>3, <1>4, <1>5, EmptyFacts DEF DistributionTask
  <1> HIDE DEF t
  <1>8. t.end <= MaxTime \div DAY /\ OneMapPerKey(t.cache) /\ DOMAIN t.todo = {}
    BY <1>3, <1>5, <1>6, EmptyFacts
  <1>9. DistributionInv(t) BY <1>6, <1>8 DEF DistributionInv
  <1> QED BY <1>6, <1>7, <1>9 DEF t, end

\* Cron's runs cover one day.
LEMMA DefaultsFacts ==
  /\ Defaults \in Option /\ Defaults.end_date = NoDate
  /\ DailyFirst(Defaults) = Today - 1 /\ DailyEnd(Defaults) = (Today - 1 - 1) * DAY
  /\ DistributionFirst(Defaults) = Today - 1 - 1
  BY DEF Defaults, Option, DailyFirst, DailyEnd, DistributionFirst

\* Cron's new run covers the day after those that it has covered.
LEMMA CronCovers ==
  ASSUME NEW s \in Script, InvParts, CronDue(s), CronTask(s) = Idle,
         UNCHANGED <<now, rollup_daily, missed>>, cron_day' = [cron_day EXCEPT ![s] = Today],
         CronTask(s)' # Idle, CronTask(s)'.time = Today - Lag(s),
         IF s = "activity" THEN (CronTask(s)'.time - 1) * DAY <= CronTask(s)'.end
         ELSE CronTask(s)'.end <= CronTask(s)'.time + 1
  PROVE  CronInv(s)'
  <1>1. Today' = Today /\ Today \in Nat /\ cron_day'[s] = Today /\ cron_day[s] \in Nat /\ Lag(s) \in Nat
    BY TodayFacts, Bounds DEF InvParts, HistoryOK, Today, Lag
  <1>2. CronInv(s) BY DEF InvParts
  <1>3. ASSUME NEW d \in 0..(Today - Lag(s))
        PROVE  rollup_daily[d][s] # NoHalf \/ d \in missed[s] \/ d = Today - Lag(s)
    <2>1. d \in 0..(cron_day[s] - Lag(s)) \/ d = Today - Lag(s)
      BY <1>1, <1>2, <1>3 DEF CronInv
    <2> QED BY <1>2, <2>1 DEF CronInv
  <1> QED BY <1>1, <1>3 DEF CronInv, Lag

LEMMA CronStartInv ==
  ASSUME IInv, NEW s \in Script, CronStart(s)
  PROVE  IInv'
  <1>a. InvParts BY Parts
  <1>b. /\ now \in 0..MaxTime /\ TablesOK /\ RollupOK /\ DailyOK /\ DistributionOK /\ HistoryOK
        /\ TimesAscend /\ ActivityIsExact /\ DistributionIsExact
        /\ \A p \in Script : CronInv(p)
    BY <1>a DEF InvParts
  <1>c. /\ CronDue(s) /\ cron_day' = [cron_day EXCEPT ![s] = Today]
        /\ UNCHANGED local_timestamp /\ UNCHANGED <<now, rollup_daily, unread, missed, events>>
    BY DEF CronStart
  <1>d. "cron" \in Runner BY DEF Runner
  <1>1. TablesOK' /\ TimesAscend' BY <1>b, <1>c, SameTables
  <1>2. RollupOK' /\ ActivityIsExact' /\ DistributionIsExact' BY <1>b, <1>c, SameRows
  <1>3. HistoryOK' BY <1>b, <1>c, TodayFacts DEF HistoryOK
  <1>4. Today \in Nat /\ Today \in Day BY <1>b, TodayFacts
  <1>5. CASE s = "activity"
    <2>0. PICK t : t = DailyStart(Defaults) OBVIOUS
    <2>1. /\ daily["cron"] = Idle /\ daily' = [daily EXCEPT !["cron"] = t]
          /\ UNCHANGED distribution
      BY <1>5, <2>0 DEF CronStart
    <2>2. Today >= 1 BY <1>5, <1>c DEF CronDue
    <2>3. /\ t \in DailyTask /\ ActivityInv(t) /\ t.time = Today - 1 /\ t.end = (Today - 1 - 1) * DAY
      <3>1. Today - 1 >= 0 /\ (Today - 1 - 1) * DAY >= -DAY
        <4>1. Today - 1 - 1 = -1 \/ Today - 1 - 1 \in Nat BY <1>4, <2>2
        <4> QED BY <1>4, <2>2, <4>1, Bounds
      <3> QED BY <1>b, <2>0, <3>1, DefaultsFacts, DailyStartFacts
    <2>4. DailyOK' /\ daily'["cron"] = t
      BY <1>b, <1>c, <1>d, <2>1, <2>3, DailyMoves
    <2>5. DistributionOK' BY <1>b, <1>c, <2>1, SameScripts
    <2>6. CronInv("activity")'
      <3>1. CronTask("activity") = Idle /\ CronTask("activity")' = t
        BY <2>1, <2>4 DEF CronTask
      <3>2. CronTask("activity")' # Idle BY <2>3, <3>1, TaskFacts
      <3>3. CronTask("activity")'.time = Today - Lag("activity") BY <2>3, <3>1 DEF Lag
      <3>4. (CronTask("activity")'.time - 1) * DAY <= CronTask("activity")'.end
        <4>1. (Today - 1 - 1) * DAY \in Int BY <1>4, Bounds
        <4>2. (t.time - 1) * DAY <= t.end BY <2>3, <4>1
        <4> QED BY <3>1, <4>2
      <3>5. "activity" \in Script /\ CronDue("activity")
            /\ cron_day' = [cron_day EXCEPT !["activity"] = Today]
        BY <1>5, <1>c
      <3> QED BY <1>a, <1>c, <3>1, <3>2, <3>3, <3>4, <3>5, CronCovers
    <2>7. CronInv("distribution")'
      <3>1. CronTask("distribution")' = CronTask("distribution") BY <2>1 DEF CronTask
      <3>2. cron_day'["distribution"] = cron_day["distribution"]
        BY <1>5, <1>b, <1>c DEF HistoryOK, Script
      <3>3. CronInv("distribution") BY <1>b DEF Script
      <3> QED BY <1>c, <3>1, <3>2, <3>3 DEF CronInv, Today, Lag
    <2> QED BY <1>b, <1>c, <1>1, <1>2, <1>3, <2>4, <2>5, <2>6, <2>7, Parts DEF InvParts, Script
  <1>6. CASE s = "distribution"
    <2>0. PICK t : t = DistributionStart(Defaults) OBVIOUS
    <2>1. /\ distribution["cron"] = Idle
          /\ distribution' = [distribution EXCEPT !["cron"] = t]
          /\ UNCHANGED daily
      BY <1>6, <2>0 DEF CronStart
    <2>2. Today >= 2 BY <1>6, <1>c DEF CronDue
    <2>3. /\ t \in DistributionTask /\ DistributionInv(t)
          /\ t.time = Today - 2 /\ t.end = Today - 1
      <3>1. Today - 1 - 1 >= 0 /\ Today - 1 - 1 = Today - 2 BY <1>4, <2>2
      <3> QED BY <1>b, <2>0, <3>1, DefaultsFacts, DistributionStartFacts
    <2>4. DistributionOK' /\ distribution'["cron"] = t
      BY <1>b, <1>c, <1>d, <2>1, <2>3, DistributionMoves
    <2>5. DailyOK' BY <1>b, <1>c, <2>1, SameScripts
    <2>6. CronInv("distribution")'
      <3>1. CronTask("distribution") = Idle /\ CronTask("distribution")' = t
        BY <2>1, <2>4 DEF CronTask
      <3>2. CronTask("distribution")' # Idle BY <2>3, <3>1, TaskFacts
      <3>3. CronTask("distribution")'.time = Today - Lag("distribution") BY <1>4, <2>3, <3>1 DEF Lag
      <3>4. CronTask("distribution")'.end <= CronTask("distribution")'.time + 1 BY <1>4, <2>3, <3>1
      <3>5. /\ "distribution" \in Script /\ CronDue("distribution")
            /\ cron_day' = [cron_day EXCEPT !["distribution"] = Today]
        BY <1>6, <1>c
      <3> QED BY <1>a, <1>c, <3>1, <3>2, <3>3, <3>4, <3>5, CronCovers
    <2>7. CronInv("activity")'
      <3>1. CronTask("activity")' = CronTask("activity") BY <2>1 DEF CronTask
      <3>2. cron_day'["activity"] = cron_day["activity"]
        BY <1>6, <1>b, <1>c DEF HistoryOK, Script
      <3>3. CronInv("activity") BY <1>b DEF Script
      <3> QED BY <1>c, <3>1, <3>2, <3>3 DEF CronInv, Today, Lag
    <2> QED BY <1>b, <1>c, <1>1, <1>2, <1>3, <2>4, <2>5, <2>6, <2>7, Parts DEF InvParts, Script
  <1> QED BY <1>5, <1>6 DEF Script

LEMMA OperatorStartInv ==
  ASSUME IInv, NEW o \in OperatorOptions, OperatorStart(o)
  PROVE  IInv'
  <1>b. /\ now \in 0..MaxTime /\ TablesOK /\ RollupOK /\ DailyOK /\ DistributionOK /\ HistoryOK
        /\ TimesAscend /\ ActivityIsExact /\ DistributionIsExact
        /\ \A p \in Script : CronInv(p)
    BY Parts DEF InvParts
  <1>c. /\ events < MaxEvents /\ events' = events + 1
        /\ UNCHANGED local_timestamp /\ UNCHANGED <<now, rollup_daily, cron_day, unread, missed>>
    BY DEF OperatorStart
  <1>d. "operator" \in Runner /\ "cron" \in Runner /\ "cron" # "operator" BY DEF Runner
  <1>e. o \in Option BY DailyAssumption DEF DailyAssumption
  <1>1. TablesOK' /\ TimesAscend' BY <1>b, <1>c, SameTables
  <1>2. RollupOK' /\ ActivityIsExact' /\ DistributionIsExact' BY <1>b, <1>c, SameRows
  <1>3. HistoryOK'
    <2>1. events' \in 0..MaxEvents BY <1>b, <1>c, Bounds DEF HistoryOK
    <2> QED BY <1>b, <1>c, <2>1 DEF HistoryOK
  <1>4. DailyOK' /\ DistributionOK' /\ \A s \in Script : CronTask(s)' = CronTask(s)
    <2>1. CASE /\ daily["operator"] = Idle /\ DailyFirst(o) >= 0 /\ DailyEnd(o) >= -DAY
               /\ daily' = [daily EXCEPT !["operator"] = DailyStart(o)]
               /\ UNCHANGED distribution
      <3>3. PICK t : t = DailyStart(o) OBVIOUS
      <3>4. daily' = [daily EXCEPT !["operator"] = t] BY <2>1, <3>3
      <3>6. t \in DailyTask /\ ActivityInv(t) BY <1>b, <1>e, <2>1, <3>3, DailyStartFacts
      <3>7. DailyOK' /\ daily'["cron"] = daily["cron"]
        BY <1>b, <1>c, <1>d, <3>4, <3>6, DailyMoves
      <3>8. DistributionOK' BY <1>b, <1>c, <2>1, SameScripts
      <3> QED BY <2>1, <3>7, <3>8 DEF CronTask
    <2>2. CASE /\ distribution["operator"] = Idle /\ DistributionFirst(o) >= 0
               /\ distribution' = [distribution EXCEPT !["operator"] = DistributionStart(o)]
               /\ UNCHANGED daily
      <3>3. PICK t : t = DistributionStart(o) OBVIOUS
      <3>4. distribution' = [distribution EXCEPT !["operator"] = t] BY <2>2, <3>3
      <3>6. t \in DistributionTask /\ DistributionInv(t) BY <1>b, <1>e, <2>2, <3>3, DistributionStartFacts
      <3>7. DistributionOK' /\ distribution'["cron"] = distribution["cron"]
        BY <1>b, <1>c, <1>d, <3>4, <3>6, DistributionMoves
      <3>8. DailyOK' BY <1>b, <1>c, <2>2, SameScripts
      <3> QED BY <2>2, <3>7, <3>8 DEF CronTask
    <2> QED BY <2>1, <2>2 DEF OperatorStart
  <1>5. \A s \in Script : CronInv(s)' BY <1>b, <1>c, <1>4, CronSame
  <1> QED BY <1>b, <1>c, <1>1, <1>2, <1>3, <1>4, <1>5, Parts DEF InvParts

LEMMA FailsInv ==
  ASSUME IInv, NEW r \in Runner, Fails(r)
  PROVE  IInv'
  <1>b. /\ now \in 0..MaxTime /\ TablesOK /\ RollupOK /\ DailyOK /\ DistributionOK /\ HistoryOK
        /\ TimesAscend /\ ActivityIsExact /\ DistributionIsExact
        /\ \A p \in Script : CronInv(p)
    BY Parts DEF InvParts
  <1>c. /\ events < MaxEvents /\ events' = events + 1
        /\ UNCHANGED local_timestamp /\ UNCHANGED <<now, rollup_daily, cron_day, unread>>
    BY DEF Fails
  <1>d. "cron" \in Runner BY DEF Runner
  <1>e. missed \in [Script -> SUBSET Day] BY <1>b DEF HistoryOK
  <1>1. TablesOK' /\ TimesAscend' BY <1>b, <1>c, SameTables
  <1>2. RollupOK' /\ ActivityIsExact' /\ DistributionIsExact' BY <1>b, <1>c, SameRows
  <1>3. events' \in 0..MaxEvents BY <1>b, <1>c, Bounds DEF HistoryOK
  <1>4. /\ DailyOK' /\ DistributionOK' /\ missed' \in [Script -> SUBSET Day]
        /\ \A s \in Script : missed[s] \subseteq missed'[s]
        /\ \A s \in Script : \/ CronTask(s)' = CronTask(s)
                             \/ CronTask(s)' = Idle /\ CronTask(s).time \in missed'[s]
    <2>1. CASE /\ daily[r] # Idle /\ daily' = [daily EXCEPT ![r] = Idle]
               /\ missed' = [missed EXCEPT !["activity"] =
                               IF r = "cron" THEN @ \cup {daily[r].time} ELSE @]
               /\ UNCHANGED distribution
      <3>1. daily[r].time \in Day
        <4>1. daily[r] \in DailyTask BY <1>b, <2>1 DEF DailyOK
        <4> QED BY <4>1, TaskFacts
      <3>2. /\ DailyOK' /\ daily'[r] = Idle /\ \A p \in Runner : p # r => daily'[p] = daily[p]
        BY <1>b, <1>c, <2>1, DailyMoves
      <3>3. DistributionOK' BY <1>b, <1>c, <2>1, SameScripts
      <3>4. /\ missed' \in [Script -> SUBSET Day]
            /\ \A s \in Script : missed[s] \subseteq missed'[s]
            /\ r = "cron" => daily["cron"].time \in missed'["activity"]
        BY <1>e, <2>1, <3>1 DEF Script
      <3>5. \/ CronTask("activity")' = CronTask("activity")
            \/ CronTask("activity")' = Idle /\ CronTask("activity").time \in missed'["activity"]
        BY <1>d, <3>2, <3>4 DEF CronTask
      <3>6. CronTask("distribution")' = CronTask("distribution") BY <2>1 DEF CronTask
      <3>7. ASSUME NEW s \in Script
            PROVE  \/ CronTask(s)' = CronTask(s)
                   \/ CronTask(s)' = Idle /\ CronTask(s).time \in missed'[s]
        <4>1. CASE s = "activity" BY <3>5, <3>6, <4>1
        <4>2. CASE s = "distribution" BY <3>5, <3>6, <4>2
        <4> QED BY <4>1, <4>2 DEF Script
      <3> QED BY <3>2, <3>3, <3>4, <3>7
    <2>2. CASE /\ distribution[r] # Idle /\ distribution' = [distribution EXCEPT ![r] = Idle]
               /\ missed' = [missed EXCEPT !["distribution"] =
                               IF r = "cron" THEN @ \cup {distribution[r].time} ELSE @]
               /\ UNCHANGED daily
      <3>1. distribution[r].time \in Day
        <4>1. distribution[r] \in DistributionTask BY <1>b, <2>2 DEF DistributionOK
        <4> QED BY <4>1, TaskFacts
      <3>2. /\ DistributionOK' /\ distribution'[r] = Idle
            /\ \A p \in Runner : p # r => distribution'[p] = distribution[p]
        BY <1>b, <1>c, <2>2, DistributionMoves
      <3>3. DailyOK' BY <1>b, <1>c, <2>2, SameScripts
      <3>4. /\ missed' \in [Script -> SUBSET Day]
            /\ \A s \in Script : missed[s] \subseteq missed'[s]
            /\ r = "cron" => distribution["cron"].time \in missed'["distribution"]
        BY <1>e, <2>2, <3>1 DEF Script
      <3>5. \/ CronTask("distribution")' = CronTask("distribution")
            \/ CronTask("distribution")' = Idle /\ CronTask("distribution").time \in missed'["distribution"]
        BY <1>d, <3>2, <3>4 DEF CronTask
      <3>6. CronTask("activity")' = CronTask("activity") BY <2>2 DEF CronTask
      <3>7. ASSUME NEW s \in Script
            PROVE  \/ CronTask(s)' = CronTask(s)
                   \/ CronTask(s)' = Idle /\ CronTask(s).time \in missed'[s]
        <4>1. CASE s = "activity" BY <3>5, <3>6, <4>1
        <4>2. CASE s = "distribution" BY <3>5, <3>6, <4>2
        <4> QED BY <4>1, <4>2 DEF Script
      <3> QED BY <3>2, <3>3, <3>4, <3>7
    <2> QED BY <2>1, <2>2 DEF Fails
  <1>5. HistoryOK' BY <1>b, <1>c, <1>3, <1>4 DEF HistoryOK
  <1>6. \A s \in Script : CronInv(s)' BY <1>b, <1>c, <1>4, CronStays
  <1> QED BY <1>b, <1>c, <1>1, <1>2, <1>4, <1>5, <1>6, Parts DEF InvParts

------------------------------------------------------------------------------
(* rollup-daily.mjs *)

LEMMA ReadPageInv ==
  ASSUME IInv, NEW r \in Runner, ReadPage(r)
  PROVE  IInv'
  <1>b. /\ now \in 0..MaxTime /\ TablesOK /\ RollupOK /\ DailyOK /\ DistributionOK /\ HistoryOK
        /\ TimesAscend /\ ActivityIsExact /\ DistributionIsExact
        /\ \A p \in Script : CronInv(p)
    BY Parts DEF InvParts
  <1> DEFINE t == daily[r]
             rows == Stamped(t.time * DAY, (t.time + 1) * DAY)
             n == Cardinality(rows)
             k == Returned(n, t.cursor)
  <1>0. PICK page \in kSubset(k, rows) :
           daily' = [daily EXCEPT ![r] =
             [t EXCEPT !.pc = IF k = BATCH_SIZE THEN "page" ELSE "db",
                       !.cursor = t.cursor + BATCH_SIZE, !.rows = t.rows \cup ({t.cursor} \X page)]]
    BY DEF ReadPage, DayEnd
  <1> DEFINE u == [t EXCEPT !.pc = IF k = BATCH_SIZE THEN "page" ELSE "db",
                            !.cursor = t.cursor + BATCH_SIZE, !.rows = t.rows \cup ({t.cursor} \X page)]
  <1>c. /\ t.pc = "page" /\ daily' = [daily EXCEPT ![r] = u]
        /\ UNCHANGED local_timestamp /\ UNCHANGED <<now, rollup_daily, unread>>
        /\ UNCHANGED <<cron_day, missed, events>> /\ UNCHANGED distribution
    <2>1. t.pc = "page" BY DEF ReadPage
    <2>2. daily' = [daily EXCEPT ![r] = u] BY <1>0
    <2>3. UNCHANGED <<now, local_timestamp, rollup_daily, distribution, unread, history>>
      BY DEF ReadPage
    <2> QED BY <2>1, <2>2, <2>3 DEF history
  <1>1. t # Idle /\ t \in DailyTask /\ ActivityInv(t) BY <1>b, <1>c DEF DailyOK, Idle
  <1>2. /\ t.time \in Nat /\ t.cursor \in Nat /\ t.rows \in SUBSET (Nat \X Block) /\ t.end >= -DAY
        /\ BATCH_SIZE \in Nat /\ BATCH_SIZE > 0 /\ \A p \in t.rows : p[1] < t.cursor
    BY <1>1, TaskFacts, Bounds DEF ActivityInv
  <1>3. /\ Cardinality(t.rows) = t.cursor /\ t.cursor <= n
        /\ t.cursor = 0 \/ t.cursor >= BATCH_SIZE
        /\ n <= BATCH_SIZE => t.cursor = 0 \/ t.rows = {0} \X rows
    BY <1>1, <1>c DEF ActivityInv
  <1>4. rows \in SUBSET Block /\ IsFiniteSet(rows) BY <1>b, StampedFacts
  <1> HIDE DEF rows
  <1>5. n \in Nat BY <1>4, FS_CardinalityType
  <1>6. page \in SUBSET rows /\ Cardinality(page) = k BY DEF kSubset
  <1>7. page \in SUBSET Block BY <1>4, <1>6
  <1> HIDE DEF n
  <1>8. /\ k \in Nat
        /\ k = BATCH_SIZE => t.cursor + BATCH_SIZE <= n
        /\ k # BATCH_SIZE => k = n - t.cursor /\ n - t.cursor < BATCH_SIZE
    BY <1>2, <1>3, <1>5, ReturnedFacts
  <1> HIDE DEF k
  <1>9. /\ u \in DailyTask /\ u.cursor = t.cursor + BATCH_SIZE /\ u.time = t.time /\ u.end = t.end
        /\ u.rows = t.rows \cup ({t.cursor} \X page) /\ u.unread = t.unread
        /\ u.pc = IF k = BATCH_SIZE THEN "page" ELSE "db"
    <2>1. t.cursor + BATCH_SIZE \in Nat BY <1>2
    <2>2. t.rows \cup ({t.cursor} \X page) \in SUBSET (Nat \X Block) BY <1>2, <1>7
    <2> HIDE DEF t
    <2> QED BY <1>1, <2>1, <2>2 DEF DailyTask
  <1> HIDE DEF u
  <1>18. IsFiniteSet(t.rows) /\ Cardinality(u.rows) = t.cursor + k
    <2>1. /\ IsFiniteSet(t.rows)
          /\ Cardinality(t.rows \cup ({t.cursor} \X page)) = Cardinality(t.rows) + Cardinality(page)
      <3> HIDE DEF t
      <3> QED BY <1>2, <1>7, PageAdds
    <2> QED BY <1>3, <1>6, <1>9, <2>1
  <1>19. \A p \in u.rows : p[1] < u.cursor
    <2>1. \A p \in {t.cursor} \X page : p[1] = t.cursor OBVIOUS
    <2>2. \A p \in t.rows : p[1] \in Nat BY <1>2
    <2>3. u.cursor > t.cursor BY <1>2, <1>9
    <2> QED BY <1>2, <1>9, <2>1, <2>2, <2>3
  <1>20. ASSUME k = n, t.cursor = 0 PROVE u.rows = {0} \X rows
    <2>1. page = rows BY <1>4, <1>6, <1>20, FS_Subset DEF n
    <2>2. t.rows = {} BY <1>3, <1>18, <1>20, FS_EmptySet
    <2> QED BY <1>9, <1>20, <2>1, <2>2
  <1>21. ASSUME k = BATCH_SIZE PROVE ActivityInv(u)
    <2>1. u.pc = "page" /\ Cardinality(u.rows) = u.cursor /\ u.cursor <= n /\ u.cursor >= BATCH_SIZE
      BY <1>2, <1>8, <1>9, <1>18, <1>21
    <2>2. n <= BATCH_SIZE => u.rows = {0} \X rows
      <3>1. n <= BATCH_SIZE => t.cursor = 0 /\ k = n BY <1>2, <1>5, <1>8, <1>21
      <3> QED BY <1>20, <3>1
    <2> QED BY <1>2, <1>9, <1>19, <2>1, <2>2 DEF ActivityInv, n, rows
  <1>22. ASSUME k # BATCH_SIZE PROVE ActivityInv(u)
    <2>1. u.pc = "db" /\ Cardinality(u.rows) = n BY <1>2, <1>5, <1>8, <1>9, <1>18, <1>22
    <2>2. ASSUME n <= BATCH_SIZE PROVE u.rows = {0} \X rows
      <3>1. CASE t.cursor = 0
        <4>1. k = n BY <1>5, <1>8, <1>22, <3>1
        <4> QED BY <1>20, <3>1, <4>1
      <3>2. CASE t.cursor # 0
        <4>1. t.rows = {0} \X rows /\ k = 0 BY <1>2, <1>3, <1>5, <1>8, <1>22, <2>2, <3>2
        <4>2. IsFiniteSet(page) BY <1>4, <1>6, FS_Subset
        <4>3. page = {} BY <1>6, <4>1, <4>2, FS_EmptySet
        <4> QED BY <1>9, <4>1, <4>3
      <3> QED BY <3>1, <3>2
    <2> QED BY <1>2, <1>9, <1>19, <2>1, <2>2 DEF ActivityInv, n, rows
  <1>23. ActivityInv(u) BY <1>21, <1>22
  <1>10. DailyOK' /\ daily'[r] = u /\ \A p \in Runner : p # r => daily'[p] = daily[p]
    BY <1>b, <1>c, <1>9, <1>23, DailyMoves
  <1>11. DistributionOK' BY <1>b, <1>c, SameScripts
  <1>12. TablesOK' /\ TimesAscend' BY <1>b, <1>c, SameTables
  <1>13. RollupOK' /\ ActivityIsExact' /\ DistributionIsExact' BY <1>b, <1>c, SameRows
  <1>14. HistoryOK' BY <1>b, <1>c DEF HistoryOK
  <1>15. u # Idle BY <1>9, TaskFacts
  <1>16. "cron" \in Runner BY DEF Runner
  <1>17. ASSUME NEW s \in Script PROVE CronInv(s)'
    <2>1. /\ CronTask(s)' # Idle =>
                /\ CronTask(s) # Idle /\ CronTask(s)'.time = CronTask(s).time
                /\ CronTask(s)'.end = CronTask(s).end
          /\ CronTask(s)' = Idle => CronTask(s) = Idle
      BY <1>1, <1>9, <1>10, <1>15, <1>16, <1>c DEF CronTask
    <2> QED BY <1>b, <1>c, <2>1, CronStays
  <1> QED BY <1>b, <1>c, <1>10, <1>11, <1>12, <1>13, <1>14, <1>17, Parts DEF InvParts

\* The value v that a script writes for day d is right.
IsExact(s, d, v) ==
    IF s = "activity"
    THEN LET complete == Complete("activity", d)
         IN  v.blocks = complete.blocks /\ (complete.blocks <= BATCH_SIZE => v = complete)
    ELSE v = Complete(s, d)

\* What either script's upsert does to the rows.
LEMMA SaveFacts ==
  ASSUME RollupOK, HistoryOK, ActivityIsExact, DistributionIsExact,
         UNCHANGED local_timestamp, UNCHANGED <<cron_day, missed, events>>,
         NEW s \in Script, NEW t, t.time \in Day, NEW v,
         Upsert(s, t.time, v), Wrote(s, t), ~t.unread => IsExact(s, t.time, v)
  PROVE  /\ RollupOK' /\ HistoryOK' /\ ActivityIsExact' /\ DistributionIsExact'
         /\ \A p \in Script, d \in Day : rollup_daily[d][p] # NoHalf => rollup_daily'[d][p] # NoHalf
         /\ rollup_daily'[t.time][s] # NoHalf
  <1> DEFINE d == t.time
  <1>0. d \in Day OBVIOUS
  <1>1. /\ unread \in [Script -> SUBSET Day]
        /\ unread' = [unread EXCEPT ![s] = IF t.unread THEN @ \cup {d} ELSE @ \ {d}]
    BY DEF HistoryOK, Wrote
  <1>2. Upsert(s, d, v) /\ (~t.unread => IsExact(s, d, v)) OBVIOUS
  <1> HIDE DEF d
  <1>3. unread' \in [Script -> SUBSET Day] BY <1>0, <1>1
  <1>4. ASSUME NEW p \in Script, NEW e \in Day, e \notin unread'[p]
        PROVE  IF p = s /\ e = d THEN ~t.unread ELSE e \notin unread[p]
    BY <1>0, <1>1, <1>4
  <1>5. /\ RollupOK'
        /\ \A e \in Day, p \in Script :
              rollup_daily'[e][p] = IF e = d /\ p = s THEN {v} ELSE rollup_daily[e][p]
    BY <1>0, <1>2, UpsertFacts
  <1>6. {v} # NoHalf BY DEF NoHalf
  <1>7. /\ \A p, e : Complete(p, e)' = Complete(p, e)
        /\ \A e, row : IsExact("activity", e, row)' <=> IsExact("activity", e, row)
    BY SameTables DEF IsExact
  <1>8. \A e \in Day \ unread'["activity"] : \A row \in rollup_daily'[e]["activity"] :
           IsExact("activity", e, row)
    <2>1. \A e \in Day \ unread["activity"] : \A row \in rollup_daily[e]["activity"] :
             IsExact("activity", e, row)
      BY DEF ActivityIsExact, IsExact
    <2> QED BY <1>2, <1>4, <1>5, <2>1 DEF Script
  <1>9. \A e \in Day \ unread'["distribution"] :
           rollup_daily'[e]["distribution"] # NoHalf => rollup_daily'[e]["distribution"] = {Complete("distribution", e)}
    <2>1. \A e, w : IsExact("distribution", e, w) => w = Complete("distribution", e) BY DEF IsExact
    <2> QED BY <1>2, <1>4, <1>5, <2>1 DEF Script, DistributionIsExact
  <1>10. ActivityIsExact'
    <2>1. \A e \in Day \ unread'["activity"] : \A row \in rollup_daily'[e]["activity"] :
             IsExact("activity", e, row)'
      BY <1>7, <1>8
    <2> QED BY <2>1 DEF ActivityIsExact, IsExact
  <1>11. DistributionIsExact' BY <1>7, <1>9 DEF DistributionIsExact
  <1>12. HistoryOK' BY <1>3 DEF HistoryOK
  <1> QED BY <1>0, <1>5, <1>6, <1>10, <1>11, <1>12 DEF d

LEMMA SaveActivityInv ==
  ASSUME IInv, NEW r \in Runner, SaveActivity(r)
  PROVE  IInv'
  <1>b. /\ now \in 0..MaxTime /\ TablesOK /\ RollupOK /\ DailyOK /\ DistributionOK /\ HistoryOK
        /\ TimesAscend /\ ActivityIsExact /\ DistributionIsExact
        /\ \A p \in Script : CronInv(p)
    BY Parts DEF InvParts
  <1> DEFINE t == daily[r]
             u == DayBefore(t)
             v == Activity(t.rows)
  <1>c. /\ t.pc = "db" /\ Upsert("activity", t.time, v) /\ Wrote("activity", t)
        /\ daily' = [daily EXCEPT ![r] = u] /\ UNCHANGED now /\ UNCHANGED local_timestamp
        /\ UNCHANGED distribution /\ UNCHANGED <<cron_day, missed, events>>
    BY DEF SaveActivity, history
  <1>1. t # Idle /\ t \in DailyTask /\ ActivityInv(t) BY <1>b, <1>c DEF DailyOK, Idle
  <1>2. /\ t.time \in Day /\ t.time \in Nat /\ t.rows \in SUBSET (Nat \X Block)
        /\ t.end \in Int /\ t.end >= -DAY
    BY <1>1, TaskFacts DEF ActivityInv
  <1>3. ASSUME ~t.unread PROVE IsExact("activity", t.time, v)
    <2> DEFINE rows == Stamped(t.time * DAY, (t.time + 1) * DAY)
    <2>1. /\ Cardinality(t.rows) = Cardinality(rows)
          /\ Cardinality(rows) <= BATCH_SIZE => t.rows = {0} \X rows
      BY <1>1, <1>3, <1>c DEF ActivityInv
    <2>2. rows \in SUBSET Block BY <1>b, StampedFacts
    <2>3. Complete("activity", t.time) = Activity({0} \X rows) BY DEF Complete
    <2> HIDE DEF rows
    <2>4. v.blocks = Cardinality(t.rows) BY <1>2, BlocksCounted
    <2>5. Complete("activity", t.time).blocks = Cardinality(rows) BY <2>2, <2>3, DayCounted
    <2> QED BY <2>1, <2>3, <2>4, <2>5 DEF IsExact
  <1>4. "activity" \in Script /\ "cron" \in Runner BY DEF Script, Runner
  <1> HIDE DEF v
  <1>5. /\ RollupOK' /\ HistoryOK' /\ ActivityIsExact' /\ DistributionIsExact'
        /\ \A p \in Script, d \in Day : rollup_daily[d][p] # NoHalf => rollup_daily'[d][p] # NoHalf
        /\ rollup_daily'[t.time]["activity"] # NoHalf
    <2> HIDE DEF t
    <2> QED BY <1>b, <1>c, <1>2, <1>3, <1>4, SaveFacts
  <1>6. u # Idle => /\ (t.time - 1) * DAY > t.end
                    /\ u = [t EXCEPT !.pc = "page", !.time = t.time - 1, !.cursor = 0,
                                     !.rows = {}, !.unread = FALSE]
    BY DEF DayBefore
  <1>7. ASSUME u # Idle PROVE u \in DailyTask /\ ActivityInv(u)
    <2>1. t.time - 1 \in Day
      <3>1. t.time # 0
        <4>1. (0 - 1) * DAY = -DAY BY Bounds
        <4> QED BY <1>2, <1>6, <1>7, <4>1, Bounds
      <3> QED BY <1>2, <3>1, Bounds DEF Day
    <2> HIDE DEF u, t
    <2>2. /\ t = [ pc |-> t.pc, time |-> t.time, end |-> t.end, cursor |-> t.cursor,
                   rows |-> t.rows, unread |-> t.unread ]
      BY <1>1 DEF DailyTask
    <2>3. u = [ pc |-> "page", time |-> t.time - 1, end |-> t.end, cursor |-> 0,
                rows |-> {}, unread |-> FALSE ]
      BY <1>6, <1>7, <2>2
    <2>4. u \in DailyTask /\ u.pc = "page" /\ u.cursor = 0 /\ u.rows = {} /\ u.end = t.end
      BY <1>2, <2>1, <2>3 DEF DailyTask
    <2> QED BY <1>b, <1>2, <2>4, NothingRead
  <1>8. DailyOK' /\ daily'[r] = u /\ \A p \in Runner : p # r => daily'[p] = daily[p]
    <2> HIDE DEF u
    <2>1. u \in {Idle} \cup DailyTask BY <1>7
    <2> QED BY <1>b, <1>c, <1>7, <2>1, DailyMoves
  <1>9. DistributionOK' BY <1>b, <1>c, SameScripts
  <1>10. TablesOK' /\ TimesAscend' BY <1>b, <1>c, SameTables
  <1>11. CronInv("activity")'
    <2>1. CASE r = "cron"
      <3>1. CronTask("activity") = t /\ CronTask("activity")' = u BY <1>8, <2>1 DEF CronTask
      <3>2. (t.time - 1) * DAY <= t.end
        <4>1. CronInv("activity") BY <1>b, <1>4
        <4> QED BY <1>1, <3>1, <4>1 DEF CronInv
      <3>3. (t.time - 1) * DAY \in Int BY <1>2, Bounds
      <3>4. u = Idle BY <1>2, <1>6, <3>2, <3>3
      <3> QED BY <1>b, <1>c, <1>4, <1>5, <3>1, <3>4, CronStays
    <2>2. CASE r # "cron"
      <3>1. CronTask("activity")' = CronTask("activity") BY <1>4, <1>8, <2>2 DEF CronTask
      <3> QED BY <1>b, <1>c, <1>4, <1>5, <3>1, CronStays
    <2> QED BY <2>1, <2>2
  <1>12. CronInv("distribution")'
    <2>1. CronTask("distribution")' = CronTask("distribution") BY <1>c DEF CronTask
    <2>2. "distribution" \in Script BY DEF Script
    <2> QED BY <1>b, <1>c, <1>5, <2>1, <2>2, CronStays
  <1> QED BY <1>b, <1>c, <1>5, <1>8, <1>9, <1>10, <1>11, <1>12, Parts DEF InvParts, Script

------------------------------------------------------------------------------
(* rollup-daily-balance-distribution.mjs *)

\* A step of the script that writes no row.
LEMMA DistributionGoesOn ==
  ASSUME IInv, NEW r \in Runner, distribution[r] # Idle,
         NEW u \in DistributionTask, DistributionInv(u),
         u.time = distribution[r].time, u.end = distribution[r].end,
         distribution' = [distribution EXCEPT ![r] = u],
         UNCHANGED local_timestamp, UNCHANGED <<now, rollup_daily, daily, unread, cron_day, missed, events>>
  PROVE  IInv'
  <1>b. /\ now \in 0..MaxTime /\ TablesOK /\ RollupOK /\ DailyOK /\ DistributionOK /\ HistoryOK
        /\ TimesAscend /\ ActivityIsExact /\ DistributionIsExact
        /\ \A p \in Script : CronInv(p)
    BY Parts DEF InvParts
  <1>1. /\ DistributionOK' /\ distribution'[r] = u
        /\ \A p \in Runner : p # r => distribution'[p] = distribution[p]
    BY <1>b, DistributionMoves
  <1>2. DailyOK' BY <1>b, SameScripts
  <1>3. TablesOK' /\ TimesAscend' BY <1>b, SameTables
  <1>4. RollupOK' /\ ActivityIsExact' /\ DistributionIsExact' BY <1>b, SameRows
  <1>5. HistoryOK' BY <1>b DEF HistoryOK
  <1>6. u # Idle /\ "cron" \in Runner BY TaskFacts DEF Runner
  <1>7. ASSUME NEW s \in Script PROVE CronInv(s)'
    <2>1. /\ CronTask(s)' # Idle =>
                /\ CronTask(s) # Idle /\ CronTask(s)'.time = CronTask(s).time
                /\ CronTask(s)'.end = CronTask(s).end
          /\ CronTask(s)' = Idle => CronTask(s) = Idle
      BY <1>1, <1>6 DEF CronTask
    <2> QED BY <1>b, <2>1, CronStays
  <1> QED BY <1>b, <1>1, <1>2, <1>3, <1>4, <1>5, <1>7, Parts DEF InvParts

LEMMA PendingFacts ==
  ASSUME NEW t, NEW S
  PROVE  Pending(t) = LatestBalances(S) <=>
            /\ Keys(t.cache) \cup DOMAIN t.todo = DOMAIN LatestBalances(S)
            /\ \A a \in DOMAIN LatestBalances(S) :
                  LatestBalances(S)[a] = IF a \in DOMAIN t.todo THEN t.todo[a] ELSE Get(t.cache, a)
  <1>1. LatestBalances(S) = [a \in DOMAIN LatestBalances(S) |-> LatestBalances(S)[a]]
    BY DEF LatestBalances
  <1>2. /\ DOMAIN Pending(t) = Keys(t.cache) \cup DOMAIN t.todo
        /\ \A a \in Keys(t.cache) \cup DOMAIN t.todo :
              Pending(t)[a] = IF a \in DOMAIN t.todo THEN t.todo[a] ELSE Get(t.cache, a)
        /\ Pending(t) = [a \in DOMAIN Pending(t) |-> Pending(t)[a]]
    BY DEF Pending
  <1>3. ASSUME NEW f, NEW g, f = [a \in DOMAIN f |-> f[a]], g = [a \in DOMAIN g |-> g[a]],
               DOMAIN f = DOMAIN g, \A a \in DOMAIN g : g[a] = f[a]
        PROVE  f = g
    BY <1>3
  <1> QED BY <1>1, <1>2, <1>3

LEMMA ReadFrontiersInv ==
  ASSUME IInv, NEW r \in Runner, ReadFrontiers(r)
  PROVE  IInv'
  <1>b. TablesOK /\ DistributionOK BY Parts DEF InvParts
  <1> DEFINE t == distribution[r]
             blocks == Stamped(0, t.time * DAY + 1)
             u == [t EXCEPT !.pc = "changes", !.todo = LatestBalances(blocks)]
  <1>c. /\ t.pc = "frontiers" /\ distribution' = [distribution EXCEPT ![r] = u]
        /\ UNCHANGED local_timestamp /\ UNCHANGED <<now, rollup_daily, daily, unread, cron_day, missed, events>>
    BY DEF ReadFrontiers, history
  <1>1. t # Idle /\ t \in DistributionTask /\ DistributionInv(t)
    BY <1>b, <1>c DEF DistributionOK, Idle
  <1>2. blocks \subseteq Block /\ Stamped(0, t.time * DAY) \subseteq blocks
    <2>1. t.time * DAY \in Int BY <1>1, TaskFacts, Bounds
    <2> DEFINE n == t.time * DAY
    <2>2. n \in Int BY <2>1
    <2> HIDE DEF n
    <2>3. \A b \in Stamped(0, n) : b \in Stamped(0, n + 1)
      <3>1. \A b \in Saved : local_timestamp[b] \in Nat BY <1>b, StampedFacts
      <3> QED BY <1>b, <2>2, <3>1, StampedFacts
    <2>4. Stamped(0, n + 1) \subseteq Block BY <1>b, StampedFacts
    <2> QED BY <2>3, <2>4 DEF n
  <1> DEFINE todo == LatestBalances(blocks)
  <1>3. todo \in BalanceMap
    <2> HIDE DEF blocks
    <2> QED BY <1>2, LatestFacts
  <1>4. /\ u \in DistributionTask /\ u.pc = "changes" /\ u.time = t.time /\ u.end = t.end
        /\ u.cache = t.cache /\ u.todo = todo /\ u.unread = t.unread
    <2> HIDE DEF todo
    <2>1. u = [t EXCEPT !.pc = "changes", !.todo = todo] BY DEF todo
    <2> HIDE DEF t, u
    <2> QED BY <1>1, <1>3, <2>1 DEF DistributionTask
  <1> HIDE DEF u
  <1>5. Pending(u) = LatestBalances(blocks)
    <2>1. t.cache = Empty BY <1>1, <1>c DEF DistributionInv
    <2>2. Keys(u.cache) = {} BY <1>4, <2>1, EmptyFacts
    <2> HIDE DEF blocks, t
    <2> QED BY <1>4, <2>2, PendingFacts
  <1>6. u.end <= MaxTime \div DAY /\ OneMapPerKey(u.cache)
    BY <1>1, <1>4 DEF DistributionInv
  <1>7. DistributionInv(u)
    <2>1. /\ blocks \in SUBSET Stamped(0, u.time * DAY + 1)
          /\ Stamped(0, u.time * DAY) \subseteq blocks /\ Pending(u) = LatestBalances(blocks)
      BY <1>2, <1>4, <1>5
    <2> HIDE DEF blocks, t
    <2> QED BY <1>4, <1>6, <2>1 DEF DistributionInv
  <1> HIDE DEF t
  <1>8. distribution[r] # Idle /\ u.time = distribution[r].time /\ u.end = distribution[r].end
    BY <1>1, <1>4 DEF t
  <1> QED BY <1>4, <1>7, <1>8, <1>c, DistributionGoesOn

LEMMA SetBalanceInv ==
  ASSUME IInv, NEW r \in Runner, SetBalance(r)
  PROVE  IInv'
  <1>b. TablesOK /\ DistributionOK BY Parts DEF InvParts
  <1> DEFINE t == distribution[r]
  <1>c. /\ t # Idle
        /\ UNCHANGED local_timestamp /\ UNCHANGED <<now, rollup_daily, daily, unread, cron_day, missed, events>>
    BY DEF SetBalance, history
  <1>1. t \in DistributionTask /\ DistributionInv(t) BY <1>b, <1>c DEF DistributionOK
  <1>2. PICK a \in DOMAIN t.todo :
           distribution' = [distribution EXCEPT ![r] =
               [t EXCEPT !.cache = Set(t.cache, a, t.todo[a]),
                         !.todo = [c \in DOMAIN t.todo \ {a} |-> t.todo[c]]]]
    BY DEF SetBalance
  <1> DEFINE new == Set(t.cache, a, t.todo[a])
             todo == [c \in DOMAIN t.todo \ {a} |-> t.todo[c]]
             u == [t EXCEPT !.cache = new, !.todo = todo]
  <1>d. distribution' = [distribution EXCEPT ![r] = u] BY <1>2
  <1>3. /\ t.cache \in Seq(BalanceMap) /\ OneMapPerKey(t.cache) /\ t.todo \in BalanceMap
        /\ t.end <= MaxTime \div DAY /\ t.pc # "frontiers"
    BY <1>1, TaskFacts DEF DistributionInv
  <1>4. /\ t.todo \in [DOMAIN t.todo -> AnyBalance] /\ DOMAIN t.todo \subseteq Account
        /\ a \in Account /\ t.todo[a] \in AnyBalance
    BY <1>3, MapType
  <1>5. todo \in BalanceMap
    <2>1. DOMAIN todo = DOMAIN t.todo \ {a} OBVIOUS
    <2>2. todo \in [DOMAIN t.todo \ {a} -> AnyBalance] BY <1>4
    <2> HIDE DEF todo
    <2>3. todo \in [DOMAIN todo -> AnyBalance] /\ DOMAIN todo \subseteq Account BY <1>4, <2>1, <2>2
    <2> QED BY <2>3, MapType
  <1>6. IsSet(t.cache, a, t.todo[a], new)
    <2> HIDE DEF t
    <2> QED BY <1>3, <1>4, SetFacts
  <1>7. /\ new \in Seq(BalanceMap) /\ OneMapPerKey(new) /\ Keys(new) = Keys(t.cache) \cup {a}
        /\ \A k \in Keys(new) : Get(new, k) = IF k = a THEN t.todo[a] ELSE Get(t.cache, k)
    BY <1>6 DEF IsSet
  <1>8. DOMAIN todo = DOMAIN t.todo \ {a} /\ \A k \in DOMAIN todo : todo[k] = t.todo[k] OBVIOUS
  <1> HIDE DEF new, todo
  <1>9. /\ u \in DistributionTask /\ u.pc = t.pc /\ u.time = t.time /\ u.end = t.end
        /\ u.cache = new /\ u.todo = todo /\ u.unread = t.unread
    <2> HIDE DEF t
    <2> QED BY <1>1, <1>5, <1>7 DEF DistributionTask
  <1> HIDE DEF u
  <1>10. ASSUME NEW S, Pending(t) = LatestBalances(S) PROVE Pending(u) = LatestBalances(S)
    <2>1. /\ Keys(t.cache) \cup DOMAIN t.todo = DOMAIN LatestBalances(S)
          /\ \A k \in DOMAIN LatestBalances(S) :
                LatestBalances(S)[k] = IF k \in DOMAIN t.todo THEN t.todo[k] ELSE Get(t.cache, k)
      BY <1>10, PendingFacts
    <2>2. Keys(u.cache) \cup DOMAIN u.todo = DOMAIN LatestBalances(S)
      BY <1>7, <1>8, <1>9, <2>1
    <2>3. ASSUME NEW k \in DOMAIN LatestBalances(S)
          PROVE  LatestBalances(S)[k] = IF k \in DOMAIN u.todo THEN u.todo[k] ELSE Get(u.cache, k)
      <3>1. CASE k = a BY <1>7, <1>8, <1>9, <2>1, <3>1
      <3>2. CASE k # a BY <1>7, <1>8, <1>9, <2>1, <3>2
      <3> QED BY <3>1, <3>2
    <2> QED BY <2>2, <2>3, PendingFacts
  <1>11. DistributionInv(u)
    <2>1. u.end <= MaxTime \div DAY /\ OneMapPerKey(u.cache) /\ u.pc # "frontiers"
      BY <1>3, <1>7, <1>9
    <2>2. u.pc = "changes" /\ ~u.unread =>
            \E blocks \in SUBSET Stamped(0, u.time * DAY + 1) :
               Stamped(0, u.time * DAY) \subseteq blocks /\ Pending(u) = LatestBalances(blocks)
      BY <1>1, <1>9, <1>10 DEF DistributionInv
    <2>3. u.pc = "db" /\ ~u.unread => Pending(u) = LatestBalances(Stamped(0, (u.time + 1) * DAY))
      BY <1>1, <1>9, <1>10 DEF DistributionInv
    <2> QED BY <2>1, <2>2, <2>3 DEF DistributionInv
  <1> HIDE DEF t
  <1>12. distribution[r] # Idle /\ u.time = distribution[r].time /\ u.end = distribution[r].end
    BY <1>9, <1>c DEF t
  <1> QED BY <1>9, <1>11, <1>12, <1>c, <1>d, DistributionGoesOn

\* A day's blocks come after those of the days before, for each account.
LEMMA DayCarried ==
  ASSUME TablesOK, TimesAscend, NEW d \in Nat,
         NEW blocks \in SUBSET Stamped(0, d * DAY + 1), Stamped(0, d * DAY) \subseteq blocks
  PROVE  LET T == Stamped(d * DAY, (d + 1) * DAY)
         IN  /\ blocks \in SUBSET Block /\ T \in SUBSET Block
             /\ blocks \cup T = Stamped(0, (d + 1) * DAY)
             /\ \A b \in blocks, c \in T : b \notin T /\ b[1] = c[1] => b[2] < c[2]
  <1> DEFINE n == d * DAY
             m == (d + 1) * DAY
             T == Stamped(n, m)
  <1>1. n \in Nat /\ m \in Nat /\ n + 1 <= m
    <2>1. m = n + DAY BY DayOrder
    <2> QED BY <2>1, Bounds
  <1>2. /\ blocks \in SUBSET Stamped(0, n + 1) /\ Stamped(0, n) \subseteq blocks OBVIOUS
  <1> HIDE DEF n, m
  <1>3. /\ \A b \in Saved : local_timestamp[b] \in Nat /\ b \in Block
        /\ \A x, y, b : b \in Stamped(x, y) <=>
              b \in Saved /\ x <= local_timestamp[b] /\ local_timestamp[b] < y
    BY StampedFacts, Bounds
  <1>4. blocks \in SUBSET Block /\ T \in SUBSET Block BY <1>2, <1>3
  <1>5. \A b \in blocks : b \in Saved /\ local_timestamp[b] < n + 1 BY <1>2, <1>3
  <1>6. \A b \in Saved : local_timestamp[b] < n => b \in blocks BY <1>2, <1>3
  <1>7. blocks \cup T = Stamped(0, m)
    <2>1. ASSUME NEW b \in blocks PROVE b \in Stamped(0, m) BY <1>1, <1>3, <1>5
    <2>2. ASSUME NEW b \in T PROVE b \in Stamped(0, m) BY <1>1, <1>3
    <2>3. ASSUME NEW b \in Stamped(0, m) PROVE b \in blocks \cup T
      <3>1. b \in Saved /\ local_timestamp[b] < m BY <1>3
      <3>2. CASE local_timestamp[b] < n BY <1>6, <3>1, <3>2
      <3>3. CASE ~(local_timestamp[b] < n) BY <1>1, <1>3, <3>1, <3>3
      <3> QED BY <3>2, <3>3
    <2> QED BY <2>1, <2>2, <2>3
  <1>8. ASSUME NEW b \in blocks, NEW c \in T, b \notin T, b[1] = c[1] PROVE b[2] < c[2]
    <2>1. c \in Saved /\ n <= local_timestamp[c] /\ b \in Saved BY <1>3, <1>5
    <2>2. local_timestamp[b] < n BY <1>1, <1>3, <1>5, <1>8, <2>1
    <2>3. b[2] \in Nat /\ c[2] \in Nat /\ b # c BY <1>3, <1>8, <2>1, BlockFacts
    <2>4. b[2] # c[2] BY <1>3, <1>8, <2>1, <2>3, BlockFacts
    <2>5. ~(c[2] < b[2])
      <3>1. c[2] < b[2] => local_timestamp[c] <= local_timestamp[b]
        BY <1>8, <2>1 DEF TimesAscend
      <3> QED BY <1>1, <1>3, <2>1, <2>2, <3>1
    <2> QED BY <2>3, <2>4, <2>5
  <1> QED BY <1>4, <1>7, <1>8 DEF n, m

LEMMA ReadChangesInv ==
  ASSUME IInv, NEW r \in Runner, ReadChanges(r)
  PROVE  IInv'
  <1>b. TablesOK /\ DistributionOK /\ TimesAscend BY Parts DEF InvParts
  <1> DEFINE t == distribution[r]
             T == Stamped(t.time * DAY, (t.time + 1) * DAY)
             todo == LatestBalances(T)
             u == [t EXCEPT !.pc = "db", !.todo = todo]
  <1>c. /\ t.pc = "changes" /\ DOMAIN t.todo = {} /\ distribution' = [distribution EXCEPT ![r] = u]
        /\ UNCHANGED local_timestamp /\ UNCHANGED <<now, rollup_daily, daily, unread, cron_day, missed, events>>
    BY DEF ReadChanges, history, DayEnd
  <1>1. t # Idle /\ t \in DistributionTask /\ DistributionInv(t)
    BY <1>b, <1>c DEF DistributionOK, Idle
  <1>2. t.time \in Nat /\ T \in SUBSET Block
    BY <1>1, <1>b, TaskFacts, StampedFacts
  <1> HIDE DEF t, T
  <1>3. todo \in BalanceMap BY <1>2, LatestFacts
  <1> HIDE DEF todo
  <1>4. /\ u \in DistributionTask /\ u.pc = "db" /\ u.time = t.time /\ u.end = t.end
        /\ u.cache = t.cache /\ u.todo = todo /\ u.unread = t.unread
    BY <1>1, <1>3 DEF DistributionTask
  <1> HIDE DEF u
  <1>5. ASSUME ~u.unread PROVE Pending(u) = LatestBalances(Stamped(0, (u.time + 1) * DAY))
    <2>1. PICK blocks \in SUBSET Stamped(0, t.time * DAY + 1) :
             Stamped(0, t.time * DAY) \subseteq blocks /\ Pending(t) = LatestBalances(blocks)
      BY <1>1, <1>4, <1>5, <1>c DEF DistributionInv
    <2> DEFINE U == blocks \cup T
    <2>2. /\ blocks \in SUBSET Block /\ U = Stamped(0, (t.time + 1) * DAY)
          /\ \A b \in blocks, c \in T : b \notin T /\ b[1] = c[1] => b[2] < c[2]
      BY <1>2, <1>b, <2>1, DayCarried DEF T
    <2>3. /\ DOMAIN LatestBalances(U) = DOMAIN LatestBalances(blocks) \cup DOMAIN todo
          /\ \A a \in DOMAIN LatestBalances(U) :
                LatestBalances(U)[a] = IF a \in DOMAIN todo THEN todo[a] ELSE LatestBalances(blocks)[a]
      BY <1>2, <2>2, LatestCarried DEF todo
    <2>4. /\ Keys(t.cache) = DOMAIN LatestBalances(blocks)
          /\ \A a \in DOMAIN LatestBalances(blocks) : LatestBalances(blocks)[a] = Get(t.cache, a)
      BY <1>c, <2>1, PendingFacts
    <2> HIDE DEF U
    <2>5. Pending(u) = LatestBalances(U) BY <1>4, <2>3, <2>4, PendingFacts
    <2> QED BY <1>4, <2>2, <2>5
  <1>6. u.end <= MaxTime \div DAY /\ OneMapPerKey(u.cache) BY <1>1, <1>4 DEF DistributionInv
  <1>7. DistributionInv(u) BY <1>4, <1>5, <1>6 DEF DistributionInv
  <1>8. distribution[r] # Idle /\ u.time = distribution[r].time /\ u.end = distribution[r].end
    BY <1>1, <1>4 DEF t
  <1> QED BY <1>4, <1>7, <1>8, <1>c, DistributionGoesOn

LEMMA SaveDistributionInv ==
  ASSUME IInv, NEW r \in Runner, SaveDistribution(r)
  PROVE  IInv'
  <1>b. /\ now \in 0..MaxTime /\ TablesOK /\ RollupOK /\ DailyOK /\ DistributionOK /\ HistoryOK
        /\ TimesAscend /\ ActivityIsExact /\ DistributionIsExact
        /\ \A p \in Script : CronInv(p)
    BY Parts DEF InvParts
  <1> DEFINE t == distribution[r]
             next == [t EXCEPT !.pc = "changes", !.time = t.time + 1]
             u == IF t.time + 1 < t.end THEN next ELSE Idle
             v == Distribution(t.cache)
             S == Stamped(0, (t.time + 1) * DAY)
  <1>c. /\ t.pc = "db" /\ DOMAIN t.todo = {}
        /\ Upsert("distribution", t.time, v) /\ Wrote("distribution", t)
        /\ distribution' = [distribution EXCEPT ![r] = u] /\ UNCHANGED now /\ UNCHANGED local_timestamp
        /\ UNCHANGED daily /\ UNCHANGED <<cron_day, missed, events>>
    BY DEF SaveDistribution, history
  <1>1. t # Idle /\ t \in DistributionTask /\ DistributionInv(t)
    BY <1>b, <1>c DEF DistributionOK, Idle
  <1> HIDE DEF t, S
  <1>2. /\ t.time \in Day /\ t.time \in Nat /\ t.end \in Int /\ t.end <= MaxTime \div DAY
        /\ t.cache \in Seq(BalanceMap) /\ OneMapPerKey(t.cache) /\ t.unread \in BOOLEAN
    BY <1>1, TaskFacts DEF DistributionInv
  <1>3. S \in SUBSET Block BY <1>b, StampedFacts DEF S
  <1>4. ~t.unread => Pending(t) = LatestBalances(S) BY <1>1, <1>c DEF DistributionInv, S
  <1>5. ASSUME ~t.unread PROVE IsExact("distribution", t.time, v)
    <2>1. /\ Keys(t.cache) = DOMAIN LatestBalances(S)
          /\ \A a \in Keys(t.cache) : Get(t.cache, a) = LatestBalances(S)[a]
      <3>1. /\ Keys(t.cache) \cup DOMAIN t.todo = DOMAIN LatestBalances(S)
            /\ \A a \in DOMAIN LatestBalances(S) :
                  LatestBalances(S)[a] = IF a \in DOMAIN t.todo THEN t.todo[a] ELSE Get(t.cache, a)
        BY <1>4, <1>5, PendingFacts
      <3> QED BY <1>c, <3>1
    <2>2. \A R : Occurrences(t.cache, R) = Cardinality({ b \in Latest(S) : Balance[b] \in R })
      BY <1>2, <1>3, <2>1, OccurrencesFacts
    <2>3. v = [i \in 0..Len(Thresholds) |->
                 Cardinality({ b \in Latest(S) : Balance[b] \in BalanceRange(i) })]
      BY <2>2 DEF Distribution
    <2>4. "distribution" # "activity" OBVIOUS
    <2> QED BY <2>3, <2>4 DEF IsExact, Complete, S
  <1>6. "distribution" \in Script /\ "cron" \in Runner BY DEF Script, Runner
  <1> HIDE DEF v
  <1>7. /\ RollupOK' /\ HistoryOK' /\ ActivityIsExact' /\ DistributionIsExact'
        /\ \A p \in Script, d \in Day : rollup_daily[d][p] # NoHalf => rollup_daily'[d][p] # NoHalf
        /\ rollup_daily'[t.time]["distribution"] # NoHalf
    BY <1>b, <1>c, <1>2, <1>5, <1>6, SaveFacts
  <1>8. ASSUME t.time + 1 < t.end PROVE next \in DistributionTask /\ DistributionInv(next)
    <2>1. t.time + 1 \in Day
      <3>1. MaxTime \div DAY \in Nat BY Bounds, DayOfFacts
      <3> QED BY <1>2, <1>8, <3>1 DEF Day
    <2>2. /\ next \in DistributionTask /\ next.pc = "changes" /\ next.time = t.time + 1
          /\ next.end = t.end /\ next.cache = t.cache /\ next.todo = t.todo /\ next.unread = t.unread
      BY <1>1, <2>1 DEF DistributionTask
    <2> HIDE DEF next
    <2>3. ASSUME ~next.unread
          PROVE  \E blocks \in SUBSET Stamped(0, next.time * DAY + 1) :
                    Stamped(0, next.time * DAY) \subseteq blocks /\ Pending(next) = LatestBalances(blocks)
      <3>1. S = Stamped(0, next.time * DAY) BY <2>2 DEF S
      <3>2. Pending(next) = LatestBalances(S) BY <1>4, <2>2, <2>3 DEF Pending
      <3>3. S \in SUBSET Stamped(0, next.time * DAY + 1)
        <4> DEFINE n == next.time * DAY
        <4>1. n \in Int BY <1>2, <2>2, Bounds
        <4>2. S = Stamped(0, n) BY <3>1
        <4> HIDE DEF n
        <4>3. \A b \in Saved : local_timestamp[b] \in Nat BY <1>b, StampedFacts, Bounds
        <4>4. \A b \in Stamped(0, n) : b \in Stamped(0, n + 1) BY <1>b, <4>1, <4>3, StampedFacts
        <4>5. S \in SUBSET Stamped(0, n + 1) BY <4>2, <4>4
        <4> QED BY <4>5 DEF n
      <3> QED BY <3>1, <3>2, <3>3
    <2>4. DistributionInv(next) BY <1>2, <2>2, <2>3 DEF DistributionInv
    <2> QED BY <2>2, <2>4
  <1>9. /\ DistributionOK' /\ distribution'[r] = u
        /\ \A p \in Runner : p # r => distribution'[p] = distribution[p]
    <2>1. u \in {Idle} \cup DistributionTask /\ (u # Idle => DistributionInv(u)) BY <1>8
    <2> HIDE DEF u
    <2> QED BY <1>b, <1>c, <2>1, DistributionMoves
  <1>10. DailyOK' BY <1>b, <1>c, SameScripts
  <1>11. TablesOK' /\ TimesAscend' BY <1>b, <1>c, SameTables
  <1>12. CronInv("distribution")'
    <2>1. CASE r = "cron"
      <3>1. CronTask("distribution") = t /\ CronTask("distribution")' = u
        BY <1>9, <2>1 DEF CronTask, t
      <3>2. t.end <= t.time + 1
        <4>1. CronInv("distribution") BY <1>b, <1>6
        <4> QED BY <1>1, <3>1, <4>1 DEF CronInv
      <3>3. u = Idle BY <1>2, <3>2
      <3> HIDE DEF u
      <3> QED BY <1>b, <1>c, <1>6, <1>7, <3>1, <3>3, CronStays
    <2>2. CASE r # "cron"
      <3>1. CronTask("distribution")' = CronTask("distribution") BY <1>6, <1>9, <2>2 DEF CronTask
      <3> QED BY <1>b, <1>c, <1>6, <1>7, <3>1, CronStays
    <2> QED BY <2>1, <2>2
  <1>13. CronInv("activity")'
    <2>1. CronTask("activity")' = CronTask("activity") BY <1>c DEF CronTask
    <2>2. "activity" \in Script BY DEF Script
    <2> QED BY <1>b, <1>c, <1>7, <2>1, <2>2, CronStays
  <1> QED BY <1>b, <1>c, <1>7, <1>9, <1>10, <1>11, <1>12, <1>13, Parts DEF InvParts, Script

------------------------------------------------------------------------------
(* The importers *)

LEMMA MarkedFacts ==
  /\ \A t \in DailyTask :
        LET u == [t EXCEPT !.unread = TRUE]
        IN  /\ u \in DailyTask /\ u.pc = t.pc /\ u.time = t.time /\ u.end = t.end
            /\ u.cursor = t.cursor /\ u.rows = t.rows /\ u.unread
  /\ \A t \in DistributionTask :
        LET u == [t EXCEPT !.unread = TRUE]
        IN  /\ u \in DistributionTask /\ u.pc = t.pc /\ u.time = t.time /\ u.end = t.end
            /\ u.cache = t.cache /\ u.todo = t.todo /\ u.unread
  BY DEF DailyTask, DistributionTask

\* The scripts of M may have missed a row.
LEMMA DailyMarked ==
  ASSUME DailyOK, NEW M \in SUBSET Runner,
         daily' = [r \in Runner |-> IF r \in M THEN [daily[r] EXCEPT !.unread = TRUE] ELSE daily[r]],
         \A r \in M : daily[r].pc = "db",
         \A t \in DailyTask : (\E r \in Runner \ M : daily[r] = t) /\ ActivityInv(t) => ActivityInv(t)'
  PROVE  /\ DailyOK'
         /\ \A r \in Runner : /\ daily'[r] = Idle <=> daily[r] = Idle
                              /\ daily[r] # Idle => /\ daily'[r].time = daily[r].time
                                                    /\ daily'[r].end = daily[r].end
  <1>1. ASSUME NEW r \in Runner, daily[r] # Idle
        PROVE  /\ daily'[r] \in DailyTask /\ daily'[r].time = daily[r].time /\ daily'[r].end = daily[r].end
               /\ \A t \in {daily'[r]} : ActivityInv(t)'
    <2> DEFINE t == daily[r]
    <2>1. t \in DailyTask /\ ActivityInv(t) BY <1>1 DEF DailyOK
    <2>2. CASE r \notin M
      <3>1. daily'[r] = t BY <2>2
      <3>2. \A q \in {daily'[r]} : q \in DailyTask /\ daily[r] = q /\ ActivityInv(q) BY <2>1, <3>1
      <3>3. \A q \in {daily'[r]} : ActivityInv(q)' BY <2>2, <3>2
      <3> QED BY <2>1, <3>1, <3>3
    <2>3. CASE r \in M
      <3> DEFINE u == [t EXCEPT !.unread = TRUE]
      <3>1. daily'[r] = u BY <2>3
      <3>2. /\ u \in DailyTask /\ u.pc = t.pc /\ u.time = t.time /\ u.end = t.end
            /\ u.cursor = t.cursor /\ u.rows = t.rows /\ u.unread
        BY <2>1, MarkedFacts
      <3>3. u.pc = "db" /\ u.end >= -DAY /\ \A p \in u.rows : p[1] < u.cursor
        BY <2>1, <2>3, <3>2 DEF ActivityInv
      <3> HIDE DEF u, t
      <3>4. \A q \in {daily'[r]} : /\ q.pc = "db" /\ q.end >= -DAY /\ q.unread
                                  /\ \A p \in q.rows : p[1] < q.cursor
        BY <3>1, <3>2, <3>3
      <3>5. \A q \in {daily'[r]} : ActivityInv(q)' BY <3>4 DEF ActivityInv
      <3> QED BY <3>1, <3>2, <3>5 DEF t
    <2> QED BY <2>2, <2>3
  <1>2. \A r \in Runner : daily[r] = Idle => daily'[r] = Idle BY DEF Idle
  <1>3. \A r \in Runner : daily'[r] \in {Idle} \cup DailyTask /\ (daily'[r] = Idle <=> daily[r] = Idle)
    BY <1>1, <1>2, TaskFacts
  <1>4. daily' = [r \in Runner |-> daily'[r]] OBVIOUS
  <1>5. daily' \in [Runner -> {Idle} \cup DailyTask] BY <1>3, <1>4
  <1>6. \A r \in Runner : \A t \in {daily'[r]} \ {Idle} : ActivityInv(t)' BY <1>1, <1>3
  <1>7. DailyOK' BY <1>5, <1>6 DEF DailyOK
  <1> QED BY <1>1, <1>3, <1>7

LEMMA DistributionMarked ==
  ASSUME DistributionOK, NEW M \in SUBSET Runner,
         distribution' = [r \in Runner |-> IF r \in M THEN [distribution[r] EXCEPT !.unread = TRUE]
                                           ELSE distribution[r]],
         \A r \in M : distribution[r] # Idle,
         \A t \in DistributionTask :
            (\E r \in Runner \ M : distribution[r] = t) /\ DistributionInv(t) => DistributionInv(t)'
  PROVE  /\ DistributionOK'
         /\ \A r \in Runner :
               /\ distribution'[r] = Idle <=> distribution[r] = Idle
               /\ distribution[r] # Idle => /\ distribution'[r].time = distribution[r].time
                                            /\ distribution'[r].end = distribution[r].end
  <1>1. ASSUME NEW r \in Runner, distribution[r] # Idle
        PROVE  /\ distribution'[r] \in DistributionTask
               /\ distribution'[r].time = distribution[r].time /\ distribution'[r].end = distribution[r].end
               /\ \A t \in {distribution'[r]} : DistributionInv(t)'
    <2> DEFINE t == distribution[r]
    <2>1. t \in DistributionTask /\ DistributionInv(t) BY <1>1 DEF DistributionOK
    <2>2. CASE r \notin M
      <3>1. distribution'[r] = t BY <2>2
      <3>2. \A q \in {distribution'[r]} :
               q \in DistributionTask /\ distribution[r] = q /\ DistributionInv(q)
        BY <2>1, <3>1
      <3>3. \A q \in {distribution'[r]} : DistributionInv(q)' BY <2>2, <3>2
      <3> QED BY <2>1, <3>1, <3>3
    <2>3. CASE r \in M
      <3> DEFINE u == [t EXCEPT !.unread = TRUE]
      <3>1. distribution'[r] = u BY <2>3
      <3>2. /\ u \in DistributionTask /\ u.pc = t.pc /\ u.time = t.time /\ u.end = t.end
            /\ u.cache = t.cache /\ u.todo = t.todo /\ u.unread
        BY <2>1, MarkedFacts
      <3>3. /\ u.end <= MaxTime \div DAY /\ OneMapPerKey(u.cache)
            /\ u.pc = "frontiers" => u.cache = Empty /\ DOMAIN u.todo = {}
        BY <2>1, <3>2 DEF DistributionInv
      <3> HIDE DEF u, t
      <3>4. \A q \in {distribution'[r]} :
               /\ q.end <= MaxTime \div DAY /\ OneMapPerKey(q.cache) /\ q.unread
               /\ q.pc = "frontiers" => q.cache = Empty /\ DOMAIN q.todo = {}
        BY <3>1, <3>2, <3>3
      <3>5. \A q \in {distribution'[r]} : DistributionInv(q)' BY <3>4 DEF DistributionInv
      <3> QED BY <3>1, <3>2, <3>5 DEF t
    <2> QED BY <2>2, <2>3
  <1>2. \A r \in Runner : distribution[r] = Idle => distribution'[r] = Idle OBVIOUS
  <1>3. \A r \in Runner : /\ distribution'[r] \in {Idle} \cup DistributionTask
                          /\ distribution'[r] = Idle <=> distribution[r] = Idle
    BY <1>1, <1>2, TaskFacts
  <1>4. distribution' = [r \in Runner |-> distribution'[r]] OBVIOUS
  <1>5. distribution' \in [Runner -> {Idle} \cup DistributionTask] BY <1>3, <1>4
  <1>6. \A r \in Runner : \A t \in {distribution'[r]} \ {Idle} : DistributionInv(t)' BY <1>1, <1>3
  <1>7. DistributionOK' BY <1>5, <1>6 DEF DistributionOK
  <1> QED BY <1>1, <1>3, <1>7

\* A block of the day that comes between two pages adds to what later ones can return.
LEMMA ActivityStays ==
  ASSUME TablesOK, NEW u \in DailyTask, ActivityInv(u), NEW b,
         NEW after, after = Stamped(u.time * DAY, (u.time + 1) * DAY)',
         NEW rows, rows = Stamped(u.time * DAY, (u.time + 1) * DAY),
         after = rows \/ (u.pc = "page" /\ b \notin rows /\ after = rows \cup {b})
  PROVE  ActivityInv(u)'
  <1>1. CASE after = rows BY <1>1 DEF ActivityInv
  <1>2. CASE u.pc = "page" /\ b \notin rows /\ after = rows \cup {b}
    <2> DEFINE n == Cardinality(rows)
    <2>1. IsFiniteSet(rows) BY StampedFacts
    <2>2. n \in Nat /\ Cardinality(after) = n + 1 BY <1>2, <2>1, FS_CardinalityType, FS_AddElement
    <2>3. /\ u.end >= -DAY /\ \A p \in u.rows : p[1] < u.cursor
          /\ Cardinality(u.rows) = u.cursor /\ u.cursor <= n
          /\ u.cursor = 0 \/ u.cursor >= BATCH_SIZE
      BY <1>2 DEF ActivityInv
    <2> HIDE DEF n
    <2>4. u.cursor \in Nat BY TaskFacts
    <2>5. u.cursor <= n + 1 /\ (n + 1 <= BATCH_SIZE => u.cursor = 0)
      BY <2>2, <2>3, <2>4, Bounds
    <2> QED BY <1>2, <2>2, <2>3, <2>5 DEF ActivityInv
  <1> QED BY <1>1, <1>2

LEMMA InsertedFacts ==
  ASSUME TablesOK, NEW b \in Block, b \notin Saved, NEW t \in 0..MaxTime,
         local_timestamp' = [local_timestamp EXCEPT ![b] = t]
  PROVE  /\ TablesOK' /\ Saved' = Saved \cup {b} /\ local_timestamp'[b] = t
         /\ \A c \in Saved : local_timestamp'[c] = local_timestamp[c]
         /\ \A x, y : Stamped(x, y)' = Stamped(x, y) \cup (IF x <= t /\ t < y THEN {b} ELSE {})
  <1>1. local_timestamp \in [Block -> {NotSaved} \cup 0..MaxTime] BY DEF TablesOK
  <1>2. t # NotSaved BY Bounds DEF NotSaved
  <1>3. /\ local_timestamp' \in [Block -> {NotSaved} \cup 0..MaxTime] /\ local_timestamp'[b] = t
        /\ \A c \in Block : c # b => local_timestamp'[c] = local_timestamp[c]
    BY <1>1
  <1>4. Saved' = Saved \cup {b} BY <1>2, <1>3 DEF Saved
  <1>5. \A c \in Saved : c \in Block /\ c # b BY DEF Saved
  <1>6. TablesOK' BY <1>3 DEF TablesOK
  <1>7. ASSUME NEW x, NEW y
        PROVE  Stamped(x, y)' = Stamped(x, y) \cup (IF x <= t /\ t < y THEN {b} ELSE {})
    BY <1>3, <1>4, <1>5 DEF Stamped
  <1> QED BY <1>3, <1>4, <1>5, <1>6, <1>7

\* The rows of a day, and those until its end, change only if the block is theirs.
LEMMA OtherDays ==
  ASSUME NEW t \in Nat, NEW b,
         \A x, y : Stamped(x, y)' = Stamped(x, y) \cup (IF x <= t /\ t < y THEN {b} ELSE {})
  PROVE  /\ \A d \in Nat : d # t \div DAY =>
               Stamped(d * DAY, (d + 1) * DAY)' = Stamped(d * DAY, (d + 1) * DAY)
         /\ \A y \in Int : ~(t < y) => Stamped(0, y)' = Stamped(0, y)
  <1>1. ASSUME NEW d \in Nat, d # t \div DAY
        PROVE  Stamped(d * DAY, (d + 1) * DAY)' = Stamped(d * DAY, (d + 1) * DAY)
    <2>1. ~(d * DAY <= t /\ t < (d + 1) * DAY) BY <1>1, DayOfUnique
    <2> QED BY <2>1
  <1> QED BY <1>1

LEMMA InsertInv ==
  ASSUME IInv, NEW b \in Block, NEW t, Insert(b, t)
  PROVE  IInv'
  <1>b. /\ now \in 0..MaxTime /\ TablesOK /\ RollupOK /\ DailyOK /\ DistributionOK /\ HistoryOK
        /\ TimesAscend /\ ActivityIsExact /\ DistributionIsExact
        /\ \A p \in Script : CronInv(p)
    BY Parts DEF InvParts
  <1>c. /\ b \notin Saved /\ t \in 0..now
        /\ \A c \in Saved : c[1] = b[1] =>
              IF c[2] < b[2] THEN local_timestamp[c] <= t ELSE t <= local_timestamp[c]
        /\ local_timestamp' = [local_timestamp EXCEPT ![b] = t]
        /\ Unseen(t) /\ UNCHANGED now /\ UNCHANGED rollup_daily
        /\ UNCHANGED <<cron_day, missed, events>>
    BY DEF Insert, history
  <1>1. t \in Nat /\ t \in 0..MaxTime /\ t \div DAY \in Day /\ t \div DAY \in Nat
    BY <1>b, <1>c, Bounds, DayOfFacts
  <1>2. /\ TablesOK' /\ Saved' = Saved \cup {b} /\ local_timestamp'[b] = t
        /\ \A c \in Saved : local_timestamp'[c] = local_timestamp[c]
        /\ \A x, y : Stamped(x, y)' = Stamped(x, y) \cup (IF x <= t /\ t < y THEN {b} ELSE {})
    BY <1>b, <1>c, <1>1, InsertedFacts
  <1>3. /\ \A d \in Nat : d # t \div DAY =>
              Stamped(d * DAY, (d + 1) * DAY)' = Stamped(d * DAY, (d + 1) * DAY)
        /\ \A y \in Int : ~(t < y) => Stamped(0, y)' = Stamped(0, y)
    BY <1>1, <1>2, OtherDays
  <1>4. TimesAscend'
    <2> SUFFICES ASSUME NEW c \in Saved', NEW e \in Saved', c[1] = e[1], c[2] < e[2]
                 PROVE  local_timestamp'[c] <= local_timestamp'[e]
      BY DEF TimesAscend
    <2>0. \A x \in Saved : x \in Block BY <1>b, StampedFacts
    <2>1. CASE c \in Saved /\ e \in Saved BY <1>b, <1>2, <2>1 DEF TimesAscend
    <2>2. CASE c = b /\ e = b
      <3>1. b[2] \in Nat BY BlockFacts
      <3> QED BY <2>2, <3>1
    <2>3. CASE c \in Saved /\ e = b BY <1>c, <1>2, <2>3
    <2>4. CASE c = b /\ e \in Saved
      <3>1. b[2] \in Nat /\ e[2] \in Nat BY <2>0, <2>4, BlockFacts
      <3>2. ~(e[2] < b[2]) BY <2>4, <3>1
      <3> QED BY <1>c, <1>2, <2>4, <3>2
    <2> QED BY <1>2, <2>1, <2>2, <2>3, <2>4
  <1>5. unread' = [unread EXCEPT !["activity"] = @ \cup {t \div DAY},
                                 !["distribution"] = @ \cup { d \in Day : t < (d + 1) * DAY }]
    BY <1>c DEF Unseen
  <1>6. /\ unread' \in [Script -> SUBSET Day]
        /\ \A d \in Day \ unread'["activity"] : d \notin unread["activity"] /\ d # t \div DAY
        /\ \A d \in Day \ unread'["distribution"] : d \notin unread["distribution"] /\ ~(t < (d + 1) * DAY)
    <2>1. unread \in [Script -> SUBSET Day] BY <1>b DEF HistoryOK
    <2> QED BY <1>1, <1>5, <2>1 DEF Script
  <1>7. ActivityIsExact'
    <2>1. \A d \in Day : d # t \div DAY => Complete("activity", d)' = Complete("activity", d)
      BY <1>3, Bounds DEF Complete
    <2> QED BY <1>b, <1>c, <1>6, <2>1 DEF ActivityIsExact
  <1>8. DistributionIsExact'
    <2>1. ASSUME NEW d \in Day, ~(t < (d + 1) * DAY)
          PROVE  Complete("distribution", d)' = Complete("distribution", d)
      <3>1. (d + 1) * DAY \in Int BY Bounds
      <3>2. Stamped(0, (d + 1) * DAY)' = Stamped(0, (d + 1) * DAY) BY <1>3, <2>1, <3>1
      <3>3. "distribution" # "activity" OBVIOUS
      <3> QED BY <3>2, <3>3 DEF Complete
    <2> QED BY <1>b, <1>c, <1>6, <2>1 DEF DistributionIsExact
  <1>9. HistoryOK' BY <1>b, <1>c, <1>6 DEF HistoryOK
  <1>10. /\ DailyOK'
         /\ \A r \in Runner : /\ daily'[r] = Idle <=> daily[r] = Idle
                              /\ daily[r] # Idle => /\ daily'[r].time = daily[r].time
                                                    /\ daily'[r].end = daily[r].end
    <2> DEFINE M == { r \in Runner : daily[r].pc = "db" /\ daily[r].time = t \div DAY }
    <2>1. daily' = [r \in Runner |-> IF r \in M THEN [daily[r] EXCEPT !.unread = TRUE] ELSE daily[r]]
      BY <1>c DEF Unseen
    <2>2. \A r \in M : daily[r].pc = "db" OBVIOUS
    <2>3. ASSUME NEW u \in DailyTask, NEW r \in Runner \ M, daily[r] = u, ActivityInv(u)
          PROVE  ActivityInv(u)'
      <3>1. u.pc \in {"page", "db"} /\ u.time \in Nat BY TaskFacts
      <3>2. u.pc = "page" \/ u.time # t \div DAY BY <2>3, <3>1
      <3>3. PICK after : after = Stamped(u.time * DAY, (u.time + 1) * DAY)' OBVIOUS
      <3>4. PICK rows : rows = Stamped(u.time * DAY, (u.time + 1) * DAY) OBVIOUS
      <3>5. b \notin rows BY <1>b, <1>c, <3>4, StampedFacts
      <3>6. after = rows \/ (u.pc = "page" /\ after = rows \cup {b})
        <4>1. CASE u.time # t \div DAY BY <1>3, <3>1, <3>3, <3>4, <4>1
        <4>2. CASE u.pc = "page"
          <5>1. after = rows \/ after = rows \cup {b} BY <1>2, <3>3, <3>4
          <5> QED BY <4>2, <5>1
        <4> QED BY <3>2, <4>1, <4>2
      <3> QED BY <1>b, <2>3, <3>3, <3>4, <3>5, <3>6, ActivityStays
    <2>4. \A u \in DailyTask : (\E r \in Runner \ M : daily[r] = u) /\ ActivityInv(u) => ActivityInv(u)'
      BY <2>3
    <2> HIDE DEF M
    <2>5. M \in SUBSET Runner BY DEF M
    <2> QED BY <1>b, <2>1, <2>2, <2>4, <2>5, DailyMarked
  <1>11. /\ DistributionOK'
         /\ \A r \in Runner :
               /\ distribution'[r] = Idle <=> distribution[r] = Idle
               /\ distribution[r] # Idle => /\ distribution'[r].time = distribution[r].time
                                            /\ distribution'[r].end = distribution[r].end
    <2> DEFINE M == { r \in Runner :
                        \/ distribution[r].pc = "changes" /\ t < distribution[r].time * DAY
                        \/ distribution[r].pc = "db" /\ t < (distribution[r].time + 1) * DAY }
    <2>1. distribution' = [r \in Runner |-> IF r \in M THEN [distribution[r] EXCEPT !.unread = TRUE]
                                            ELSE distribution[r]]
      BY <1>c DEF Unseen
    <2>2. \A r \in M : distribution[r] # Idle BY DEF Idle
    <2>3. ASSUME NEW u \in DistributionTask, NEW r \in Runner \ M, distribution[r] = u, DistributionInv(u)
          PROVE  DistributionInv(u)'
      <3>1. u.pc \in {"frontiers", "changes", "db"} /\ u.time \in Nat BY TaskFacts
      <3>2. /\ u.end <= MaxTime \div DAY /\ OneMapPerKey(u.cache)
            /\ u.pc = "frontiers" => u.cache = Empty /\ DOMAIN u.todo = {}
        BY <2>3 DEF DistributionInv
      <3>3. /\ u.pc = "changes" => ~(t < u.time * DAY)
            /\ u.pc = "db" => ~(t < (u.time + 1) * DAY)
        BY <2>3
      <3>4. u.time * DAY \in Int /\ (u.time + 1) * DAY \in Int BY <3>1, Bounds
      <3>5. ASSUME u.pc = "changes", ~u.unread
            PROVE  \E blocks \in SUBSET Stamped(0, u.time * DAY + 1)' :
                      Stamped(0, u.time * DAY)' \subseteq blocks /\ Pending(u) = LatestBalances(blocks)
        <4>1. PICK blocks \in SUBSET Stamped(0, u.time * DAY + 1) :
                 Stamped(0, u.time * DAY) \subseteq blocks /\ Pending(u) = LatestBalances(blocks)
          BY <2>3, <3>5 DEF DistributionInv
        <4>2. Stamped(0, u.time * DAY)' = Stamped(0, u.time * DAY) BY <1>3, <3>3, <3>4, <3>5
        <4>3. Stamped(0, u.time * DAY + 1) \subseteq Stamped(0, u.time * DAY + 1)' BY <1>2
        <4> QED BY <4>1, <4>2, <4>3
      <3>6. ASSUME u.pc = "db", ~u.unread
            PROVE  Pending(u) = LatestBalances(Stamped(0, (u.time + 1) * DAY)')
        <4>1. Pending(u) = LatestBalances(Stamped(0, (u.time + 1) * DAY))
          BY <2>3, <3>6 DEF DistributionInv
        <4>2. Stamped(0, (u.time + 1) * DAY)' = Stamped(0, (u.time + 1) * DAY)
          BY <1>3, <3>3, <3>4, <3>6
        <4> QED BY <4>1, <4>2
      <3>7. Pending(u)' = Pending(u) BY DEF Pending
      <3>8. \A x, y : LatestBalances(Stamped(x, y))' = LatestBalances(Stamped(x, y)') OBVIOUS
      <3> QED BY <3>2, <3>5, <3>6, <3>7 DEF DistributionInv
    <2> HIDE DEF M
    <2>4. M \in SUBSET Runner BY DEF M
    <2>5. \A u \in DistributionTask :
             (\E r \in Runner \ M : distribution[r] = u) /\ DistributionInv(u) => DistributionInv(u)'
      BY <2>3
    <2> QED BY <1>b, <2>1, <2>2, <2>4, <2>5, DistributionMarked
  <1>12. ASSUME NEW s \in Script PROVE CronInv(s)'
    <2>1. "cron" \in Runner BY DEF Runner
    <2>2. /\ CronTask(s)' # Idle =>
                /\ CronTask(s) # Idle /\ CronTask(s)'.time = CronTask(s).time
                /\ CronTask(s)'.end = CronTask(s).end
          /\ CronTask(s)' = Idle => CronTask(s) = Idle
      BY <1>10, <1>11, <2>1 DEF CronTask
    <2> QED BY <1>b, <1>c, <2>2, CronStays
  <1> QED BY <1>b, <1>c, <1>2, <1>4, <1>7, <1>8, <1>9, <1>10, <1>11, <1>12, Parts DEF InvParts, RollupOK

------------------------------------------------------------------------------
(* Theorems *)

LEMMA StutterInv ==
  ASSUME IInv, UNCHANGED vars
  PROVE  IInv'
  <1>b. /\ now \in 0..MaxTime /\ TablesOK /\ RollupOK /\ DailyOK /\ DistributionOK /\ HistoryOK
        /\ TimesAscend /\ ActivityIsExact /\ DistributionIsExact
        /\ \A p \in Script : CronInv(p)
    BY Parts DEF InvParts
  <1>c. /\ UNCHANGED local_timestamp /\ UNCHANGED <<now, rollup_daily, unread, cron_day, missed, events>>
        /\ UNCHANGED daily /\ UNCHANGED distribution
    BY DEF vars
  <1>1. TablesOK' /\ TimesAscend' BY <1>b, <1>c, SameTables
  <1>2. RollupOK' /\ ActivityIsExact' /\ DistributionIsExact' BY <1>b, <1>c, SameRows
  <1>3. DailyOK' /\ DistributionOK' BY <1>b, <1>c, SameScripts
  <1>4. HistoryOK' BY <1>b, <1>c DEF HistoryOK
  <1>5. ASSUME NEW s \in Script PROVE CronInv(s)'
    <2>1. CronTask(s)' = CronTask(s) BY <1>c DEF CronTask
    <2> QED BY <1>b, <1>c, <2>1, CronSame
  <1> QED BY <1>b, <1>c, <1>1, <1>2, <1>3, <1>4, <1>5, Parts DEF InvParts

\* The inductive invariant is preserved by every step.
THEOREM NextIInv == IInv /\ [Next]_vars => IInv'
  <1> SUFFICES ASSUME IInv, [Next]_vars PROVE IInv' OBVIOUS
  <1>1. CASE Tick BY <1>1, TickInv
  <1>2. ASSUME NEW b \in Block, NEW t \in (now - MaxDelay)..now, Insert(b, t) PROVE IInv'
    BY <1>2, InsertInv
  <1>4. ASSUME NEW s \in Script, CronStart(s) PROVE IInv' BY <1>4, CronStartInv
  <1>5. ASSUME NEW o \in OperatorOptions, OperatorStart(o) PROVE IInv' BY <1>5, OperatorStartInv
  <1>6. ASSUME NEW r \in Runner, ScriptStep(r) PROVE IInv'
    <2>1. CASE ReadPage(r) BY <2>1, ReadPageInv
    <2>2. CASE SaveActivity(r) BY <2>2, SaveActivityInv
    <2>3. CASE ReadFrontiers(r) BY <2>3, ReadFrontiersInv
    <2>4. CASE SetBalance(r) BY <2>4, SetBalanceInv
    <2>5. CASE ReadChanges(r) BY <2>5, ReadChangesInv
    <2>6. CASE SaveDistribution(r) BY <2>6, SaveDistributionInv
    <2> QED BY <1>6, <2>1, <2>2, <2>3, <2>4, <2>5, <2>6 DEF ScriptStep
  <1>7. ASSUME NEW r \in Runner, Fails(r) PROVE IInv' BY <1>7, FailsInv
  <1>8. CASE Stopped BY <1>8, StutterInv DEF Stopped
  <1>9. CASE UNCHANGED vars BY <1>9, StutterInv
  <1> QED BY <1>1, <1>2, <1>4, <1>5, <1>6, <1>7, <1>8, <1>9 DEF Next

\* The inductive invariant: the scripts' half-read days, carried balances and the
\* days that cron covers, with what the rows say.
THEOREM Invariance == Spec => []IInv
  BY InitIInv, NextIInv, PTL DEF Spec

\* Every variable keeps its type.
THEOREM TypeCorrect == Spec => []TypeOK
  <1>1. IInv => TypeOK BY DEF IInv
  <1> QED BY <1>1, Invariance, PTL

\* rollup-daily.mjs: a row says how many blocks its day has, and all else about
\* them if they fit in a page, however the pages are cut.
THEOREM Activities == Spec => []ActivityIsExact
  <1>1. IInv => ActivityIsExact BY DEF IInv
  <1> QED BY <1>1, Invariance, PTL

\* rollup-daily-balance-distribution.mjs: the balances that the BigMap carries
\* from day to day are the last ones, whatever the size of its Maps.
THEOREM Distributions == Spec => []DistributionIsExact
  <1>1. IInv => DistributionIsExact BY DEF IInv
  <1> QED BY <1>1, Invariance, PTL

KeepsHalves ==
    \A d \in Day, s \in Script : rollup_daily[d][s] # NoHalf => rollup_daily'[d][s] # NoHalf

LEMMA UpsertKeeps ==
  ASSUME RollupOK, NEW s \in Script, NEW d \in Day, NEW v, Upsert(s, d, v)
  PROVE  KeepsHalves
  BY UpsertFacts DEF KeepsHalves, NoHalf

LEMMA SavesKeep ==
  ASSUME IInv, NEW r \in Runner, SaveActivity(r) \/ SaveDistribution(r)
  PROVE  KeepsHalves
  <1>1. RollupOK /\ DailyOK /\ DistributionOK BY Parts DEF InvParts
  <1>2. CASE SaveActivity(r)
    <2>1. PICK d : d = daily[r].time OBVIOUS
    <2>2. PICK v : v = Activity(daily[r].rows) OBVIOUS
    <2>3. Upsert("activity", d, v) /\ daily[r] # Idle BY <1>2, <2>1, <2>2 DEF SaveActivity, Idle
    <2>4. daily[r] \in DailyTask BY <1>1, <2>3 DEF DailyOK
    <2>5. d \in Day /\ "activity" \in Script BY <2>1, <2>4, TaskFacts DEF Script
    <2> QED BY <1>1, <2>3, <2>5, UpsertKeeps
  <1>3. CASE SaveDistribution(r)
    <2>1. PICK d : d = distribution[r].time OBVIOUS
    <2>2. PICK v : v = Distribution(distribution[r].cache) OBVIOUS
    <2>3. Upsert("distribution", d, v) /\ distribution[r] # Idle
      BY <1>3, <2>1, <2>2 DEF SaveDistribution, Idle
    <2>4. distribution[r] \in DistributionTask BY <1>1, <2>3 DEF DistributionOK
    <2>5. d \in Day /\ "distribution" \in Script BY <2>1, <2>4, TaskFacts DEF Script
    <2> QED BY <1>1, <2>3, <2>5, UpsertKeeps
  <1> QED BY <1>2, <1>3

\* The upserts of the two scripts keep each other's columns.
THEOREM Halves == Spec => HalvesAreKept
  <1>1. IInv /\ [Next]_vars => UNCHANGED rollup_daily \/ KeepsHalves
    <2> SUFFICES ASSUME IInv, [Next]_vars PROVE UNCHANGED rollup_daily \/ KeepsHalves OBVIOUS
    <2>1. ASSUME NEW r \in Runner, ScriptStep(r) PROVE UNCHANGED rollup_daily \/ KeepsHalves
      <3>1. CASE SaveActivity(r) \/ SaveDistribution(r) BY <3>1, SavesKeep
      <3>2. CASE ReadPage(r) BY <3>2 DEF ReadPage
      <3>3. CASE ReadFrontiers(r) BY <3>3 DEF ReadFrontiers
      <3>4. CASE SetBalance(r) BY <3>4 DEF SetBalance
      <3>5. CASE ReadChanges(r) BY <3>5 DEF ReadChanges
      <3> QED BY <2>1, <3>1, <3>2, <3>3, <3>4, <3>5 DEF ScriptStep
    <2>2. CASE Tick BY <2>2 DEF Tick
    <2>3. ASSUME NEW b \in Block, NEW t, Insert(b, t) PROVE UNCHANGED rollup_daily
      BY <2>3 DEF Insert
    <2>5. ASSUME NEW s \in Script, CronStart(s) PROVE UNCHANGED rollup_daily BY <2>5 DEF CronStart
    <2>6. ASSUME NEW o \in OperatorOptions, OperatorStart(o) PROVE UNCHANGED rollup_daily
      BY <2>6 DEF OperatorStart
    <2>7. ASSUME NEW r \in Runner, Fails(r) PROVE UNCHANGED rollup_daily BY <2>7 DEF Fails
    <2>8. CASE Stopped \/ UNCHANGED vars BY <2>8 DEF Stopped, vars
    <2> QED BY <2>1, <2>2, <2>3, <2>5, <2>6, <2>7, <2>8 DEF Next
  <1>2. UNCHANGED rollup_daily \/ KeepsHalves =>
           [\A d \in Day, s \in Script :
               rollup_daily[d][s] # NoHalf => rollup_daily'[d][s] # NoHalf]_rollup_daily
    BY DEF KeepsHalves
  <1> QED BY <1>1, <1>2, Invariance, PTL DEF Spec, HalvesAreKept

\* At a day's end cron has skipped no day.
LEMMA CronIsDone ==
  ASSUME IInv
  PROVE  RowsBecomeWhole
  <1> SUFFICES ASSUME now % DAY = DAY - 1, \A s \in Script : ~CronDue(s),
                      daily["cron"] = Idle, distribution["cron"] = Idle,
                      NEW s \in Script, NEW d \in 0..(Today - (IF s = "activity" THEN 1 ELSE 2))
               PROVE  rollup_daily[d][s] # NoHalf \/ d \in missed[s]
    BY DEF RowsBecomeWhole
  <1>1. CronInv(s) /\ CronTask(s) = Idle BY DEF IInv, CronTask
  <1>2. Today \in Nat /\ cron_day[s] \in Nat
    <2>1. InvParts BY Parts
    <2> QED BY <2>1, TodayFacts, Bounds DEF InvParts, HistoryOK
  <1>3. d \in 0..(Today - Lag(s)) /\ Lag(s) \in Nat BY DEF Lag
  <1>4. cron_day[s] >= Today
    <2>1. Today >= Lag(s) BY <1>2, <1>3
    <2>2. ~CronDue(s) OBVIOUS
    <2> QED BY <1>2, <2>1, <2>2, Bounds DEF CronDue, Lag, Script
  <1>5. d \in 0..(cron_day[s] - Lag(s)) BY <1>2, <1>3, <1>4
  <1> QED BY <1>1, <1>5 DEF CronInv

\* However long a run takes and whatever the operator starts, each day that has
\* passed gets both of its halves, unless cron's run for it failed.
THEOREM WholeRows == Spec => []RowsBecomeWhole
  BY CronIsDone, Invariance, PTL
===============================================================================
