---------------------------- MODULE MCDailyRollups ----------------------------
(* A small instance of DailyRollups for TLC. *)
EXTENDS DailyRollups

\* A receives and sends it all, B opens.
Blocks   == {<<"A", 1>>, <<"A", 2>>, <<"B", 1>>}
Kinds    == [b \in Blocks |-> IF b[2] = 1 THEN "receive" ELSE "send"]
Balances == [b \in Blocks |-> IF b[1] = "B" THEN 1 ELSE IF b[2] = 1 THEN 5 ELSE 0]
Lower    == <<3, 0>>

\* Two days, all of them, or up to a given day, from one that may be yet to come.
Asked ==
    [days : {2}, full : BOOLEAN, start_date : {NoDate}, end_date : {NoDate}]
        \cup [days : {1}, full : {FALSE}, start_date : {2}, end_date : {0, NoDate}]
===============================================================================
