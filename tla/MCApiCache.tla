------------------------------ MODULE MCApiCache ------------------------------
(* A small instance of ApiCache for TLC. *)
EXTENDS ApiCache

\* One and five minutes, fifteen minutes, an hour, twelve hours.
UnitsOf(seconds) ==
    1 + Cardinality({ limit \in {300, 900, 3600} : limit < seconds })
===============================================================================
