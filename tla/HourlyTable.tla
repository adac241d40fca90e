---------------------------- MODULE HourlyTable -----------------------------
(***************************************************************************)
(* What scripts/rollup-hourly.mjs promises to the readers of stats_hourly: *)
(* a row appears when its hour has settled, or never, it counts every      *)
(* confirmed block of the hour, and it never changes after that.  The      *)
(* promise is void for the hours on record in `early`, whose row an        *)
(* operator had written too early, and for those with a block that turned  *)
(* unconfirmed (`wavered`): their rows count some blocks of the hour.      *)
(* Module HourlyRollup implements this; module StatsApi relies on it.      *)
(***************************************************************************)
EXTENDS Integers

CONSTANTS
    Block,
    HOUR,      \* units of time in an hour
    MaxDelay,  \* from a block's local_timestamp to its confirmed row
    MaxTime    \* bound

ASSUME TableAssumption ==
    /\ HOUR \in Nat \ {0}
    /\ {MaxDelay, MaxTime} \subseteq Nat

VARIABLES
    now,
    local_timestamp,  \* of the rows of the table blocks that were ever confirmed
    confirmed,        \* the rows that are
    stored,           \* the blocks that each hour's row counts, {} without a row
    early, wavered    \* history: where the promise is void

tableVars == <<now, local_timestamp, confirmed, stored, early, wavered>>

Hour == 0..(MaxTime \div HOUR)
NotSaved == -1

HourOf(t) == t \div HOUR
Known == { b \in Block : local_timestamp[b] # NotSaved }
KnownOf(h) == { b \in Known : HourOf(local_timestamp[b]) = h }
HourRows(h) == KnownOf(h) \cap confirmed
Wavered(h) == KnownOf(h) \cap wavered # {}

TableInit ==
    /\ now = 0
    /\ local_timestamp = [b \in Block |-> NotSaved]
    /\ confirmed = {}
    /\ stored = [h \in Hour |-> {}]
    /\ early = {}
    /\ wavered = {}

TimePasses ==
    /\ now < MaxTime
    /\ now' = now + 1
    /\ UNCHANGED <<local_timestamp, confirmed, stored, early, wavered>>

Confirmed(b, t) ==
    /\ b \notin Known
    /\ t \in 0..now /\ now <= t + MaxDelay
    /\ local_timestamp' = [local_timestamp EXCEPT ![b] = t]
    /\ confirmed' = confirmed \cup {b}
    /\ UNCHANGED <<now, stored, early, wavered>>

Unconfirmed(b) ==
    /\ b \in confirmed
    /\ confirmed' = confirmed \ {b}
    /\ wavered' = wavered \cup {b}
    /\ UNCHANGED <<now, local_timestamp, stored, early>>

ConfirmedAgain(b) ==
    /\ b \in Known \ confirmed
    /\ confirmed' = confirmed \cup {b}
    /\ UNCHANGED <<now, local_timestamp, stored, early, wavered>>

\* The hour has settled, and its row, which is missing or void, is written.
RowWritten(h) ==
    /\ stored[h] = {} \/ h \in early
    /\ ~Wavered(h)
    /\ now >= (h + 1) * HOUR + MaxDelay
    /\ HourRows(h) # {}
    /\ stored' = [stored EXCEPT ![h] = HourRows(h)]
    /\ early' = early \ {h}
    /\ UNCHANGED <<now, local_timestamp, confirmed, wavered>>

\* A row that the promise does not cover.
VoidRowWritten(h) ==
    /\ \E some \in (SUBSET KnownOf(h)) \ {{}} : stored' = [stored EXCEPT ![h] = some]
    /\ \/ early' = early \cup {h}
       \/ Wavered(h) /\ early' = early \ {h}
    /\ UNCHANGED <<now, local_timestamp, confirmed, wavered>>

Promised ==
    \/ \E b \in Block, t \in (now - MaxDelay)..now : Confirmed(b, t)
    \/ \E b \in Block : ConfirmedAgain(b)
    \/ \E h \in Hour : RowWritten(h)

\* What voids the promise.
Voids == (\E b \in Block : Unconfirmed(b)) \/ (\E h \in Hour : VoidRowWritten(h))

TableStep == Promised \/ Voids

TableSpec == TableInit /\ [][TimePasses \/ TableStep]_tableVars
==============================================================================
