-------------------------------- MODULE BigMap --------------------------------
(***************************************************************************)
(* The class BigMap of scripts/rollup-daily-balance-distribution.mjs: a    *)
(* map that is spread over several Maps, because one has a limited size.   *)
(* It is a sequence of functions, each from a finite set of keys.          *)
(***************************************************************************)
EXTENDS Naturals, Sequences, FiniteSets

CONSTANT PerMapSizeLimit

ASSUME BigMapAssumption == PerMapSizeLimit \in Nat

Empty == << <<>> >>

Keys(maps) == UNION { DOMAIN maps[i] : i \in DOMAIN maps }

\* The first Map that has the key.
Owner(maps, key) ==
    CHOOSE i \in DOMAIN maps :
        /\ key \in DOMAIN maps[i]
        /\ \A j \in 1..(i - 1) : key \notin DOMAIN maps[j]

Get(maps, key) == maps[Owner(maps, key)][key]

Put(map, key, value) ==
    [k \in DOMAIN map \cup {key} |-> IF k = key THEN value ELSE map[k]]

\* A key that is nowhere goes to the last Map, or to a new one once the last is
\* over the limit.
Add(maps, key, value) ==
    IF Cardinality(DOMAIN maps[Len(maps)]) > PerMapSizeLimit
    THEN Append(maps, Put(<<>>, key, value))
    ELSE [maps EXCEPT ![Len(maps)] = Put(@, key, value)]

\* Mutant: only the last Map is searched for the key.
SetInLast(maps, key, value) == Add(maps, key, value)

Set(maps, key, value) ==
    IF key \in Keys(maps)
    THEN [maps EXCEPT ![Owner(maps, key)] = Put(@, key, value)]
    ELSE Add(maps, key, value)

\* There is a Map, and no key is in two of them.
OneMapPerKey(maps) ==
    /\ Len(maps) > 0
    /\ \A i, j \in DOMAIN maps : \A key \in DOMAIN maps[i] : key \in DOMAIN maps[j] => i = j

\* The map that it stands for.
Contents(maps) == [key \in Keys(maps) |-> Get(maps, key)]

\* How often forEach meets a key with a value in S.
Occurrences(maps, S) ==
    Cardinality({ entry \in (1..Len(maps)) \X Keys(maps) :
        LET map == maps[entry[1]] IN entry[2] \in DOMAIN map /\ map[entry[2]] \in S })
===============================================================================
