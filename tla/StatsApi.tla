------------------------------ MODULE StatsApi ------------------------------
(***************************************************************************)
(* api/routes/stats.mjs over the tables of HourlyTable: the confirmations  *)
(* of the last 24 hours are the sum of the stored hours and of the blocks  *)
(* of the hour that runs, or of all the day's blocks if no hour is stored. *)
(* They are calculated when the process starts, at an interval, and for a  *)
(* request that finds the cache empty, never twice at the same time.       *)
(***************************************************************************)
EXTENDS HourlyTable

CONSTANTS
    DAY,         \* 24 hours
    INTERVAL,    \* 300 seconds
    TTL,         \* 420 seconds
    MaxCalc,     \* assumption: duration of a calculation
    MaxFaults    \* bound

ASSUME StatsAssumption ==
    /\ {DAY, INTERVAL, TTL, MaxCalc, MaxFaults} \subseteq Nat
    /\ HOUR <= DAY /\ INTERVAL <= TTL

VARIABLES
    is_calculating_stats,
    calc,        \* the calculation that runs, with its local variables
    stats_cache, \* the entry /api/stats
    next_tick,   \* when the interval's timer fires
    faults       \* the bound's counter

apiVars == <<is_calculating_stats, calc, stats_cache, next_tick, faults>>
vars == <<tableVars, apiVars>>

(***************************************************************************)
(* The response that a calculation started at time `at` prepares, by hours *)
(* or not: `stored` and `live` are the blocks counted by its two queries.  *)
(* History: `due` are the blocks it should count, all those of the last    *)
(* day that were confirmed when it started, and `waiting` those of earlier *)
(* hours whose row was missing or void when the rows were read.            *)
(***************************************************************************)
Response == [at : 0..MaxTime, hourly : BOOLEAN, stored : SUBSET Block, live : SUBSET Block,
             due : SUBSET Block, waiting : SUBSET Block]
Calc     == [pc : {"check", "query"}, by : {"timer", "request"},
             todo : SUBSET {"stored", "live"}, response : Response]
Cached   == [data : Response, expires : Nat]
Nothing  == [pc |-> "none"]

one_day_ago(at) == at - DAY
current_hour_start(at) == HourOf(at) * HOUR

HasRow(h) == stored[h] # {}
Doubtful(h) == ~HasRow(h) \/ h \in early \/ Wavered(h)

Due == { b \in confirmed : local_timestamp[b] >= one_day_ago(now) }

Calculation(by) ==
    [ pc |-> "check", by |-> by, todo |-> {},
      response |-> [at |-> now, hourly |-> FALSE, stored |-> {}, live |-> {},
                    due |-> Due, waiting |-> {}] ]

\* The module is loaded: calculate, and set the interval.
ApiStart ==
    /\ is_calculating_stats' = TRUE
    /\ calc' = Calculation("timer")
    /\ stats_cache' = Nothing
    /\ next_tick' = now + INTERVAL

Init ==
    /\ TableInit
    /\ faults = 0
    /\ is_calculating_stats = TRUE
    /\ calc = Calculation("timer")
    /\ stats_cache = Nothing
    /\ next_tick = INTERVAL

------------------------------------------------------------------------------
\* A unit of time passes, unless the timer is due or a calculation lasts.
Tick ==
    /\ TimePasses
    /\ now < next_tick
    /\ calc # Nothing => now - calc.response.at < MaxCalc
    /\ UNCHANGED apiVars

TableChanges == Promised /\ UNCHANGED apiVars

\* Bound: the promise of HourlyTable is broken at most as often as queries fail.
TableVoids ==
    /\ Voids
    /\ faults < MaxFaults
    /\ faults' = faults + 1
    /\ UNCHANGED <<is_calculating_stats, calc, stats_cache, next_tick>>

------------------------------------------------------------------------------
(* calculate_stats *)

\* The interval's timer: nothing is calculated while a calculation runs.
TimerFires ==
    /\ now = next_tick
    /\ next_tick' = now + INTERVAL
    /\ is_calculating_stats' = TRUE
    /\ calc' = IF is_calculating_stats THEN calc ELSE Calculation("timer")
    /\ UNCHANGED <<tableVars, stats_cache, faults>>

\* check_stats_hourly_available, whose errors count as no.
CheckAvailable ==
    /\ calc # Nothing /\ calc.pc = "check"
    /\ LET available == \E h \in Hour : HasRow(h) /\ h * HOUR >= one_day_ago(calc.response.at)
       IN  \E hourly \in {FALSE, available} :
             /\ hourly # available => faults < MaxFaults
             /\ faults' = IF hourly # available THEN faults + 1 ELSE faults
             /\ calc' = [calc EXCEPT !.pc = "query", !.response.hourly = hourly,
                            !.todo = IF hourly THEN {"stored", "live"} ELSE {"live"}]
    /\ UNCHANGED <<tableVars, is_calculating_stats, stats_cache, next_tick>>

\* Mutant: the row of the hour that runs is included.
StoredHoursInclusive(at) ==
    { h \in Hour : one_day_ago(at) <= h * HOUR /\ h * HOUR <= current_hour_start(at) }

\* Mutant: the first hour of the window is left out.
StoredHoursExclusive(at) ==
    { h \in Hour : one_day_ago(at) < h * HOUR /\ h * HOUR < current_hour_start(at) }

StoredHours(at) ==
    { h \in Hour : one_day_ago(at) <= h * HOUR /\ h * HOUR < current_hour_start(at) }

Returns(q) == calc # Nothing /\ calc.pc = "query" /\ q \in calc.todo

QueryStored ==
    /\ Returns("stored")
    /\ LET at == calc.response.at
       IN  calc' = [calc EXCEPT
             !.todo = @ \ {"stored"},
             !.response.stored = UNION { stored[h] : h \in StoredHours(at) },
             !.response.waiting = { b \in calc.response.due :
                LET h == HourOf(local_timestamp[b]) IN h < HourOf(at) /\ Doubtful(h) }]
    /\ UNCHANGED <<tableVars, is_calculating_stats, stats_cache, next_tick, faults>>

QueryLive ==
    /\ Returns("live")
    /\ LET from == IF calc.response.hourly THEN current_hour_start(calc.response.at)
                   ELSE one_day_ago(calc.response.at)
       IN  calc' = [calc EXCEPT !.todo = @ \ {"live"},
                        !.response.live = { b \in confirmed : from <= local_timestamp[b] }]
    /\ UNCHANGED <<tableVars, is_calculating_stats, stats_cache, next_tick, faults>>

\* Mutant: the entry's life counts from the start of the calculation.
ExpiresFromStart == calc.response.at + TTL

Expires == now + TTL

Done == calc # Nothing /\ calc.pc = "query" /\ calc.todo = {}

\* Mutant: the flag is not released.
CalcDoneKeepsFlag ==
    /\ Done
    /\ stats_cache' = [data |-> calc.response, expires |-> Expires]
    /\ calc' = Nothing
    /\ UNCHANGED <<tableVars, is_calculating_stats, next_tick, faults>>

CalcDone ==
    /\ Done
    /\ stats_cache' = [data |-> calc.response, expires |-> Expires]
    /\ is_calculating_stats' = FALSE
    /\ calc' = Nothing
    /\ UNCHANGED <<tableVars, next_tick, faults>>

\* A query throws.  The route answers with the error; nothing catches the
\* timer's rejection, which ends the process, and pm2 starts it again.
CalcFails ==
    /\ calc # Nothing /\ calc.pc = "query"
    /\ faults < MaxFaults
    /\ faults' = faults + 1
    /\ IF calc.by = "timer"
       THEN ApiStart
       ELSE is_calculating_stats' = FALSE /\ calc' = Nothing /\ UNCHANGED <<stats_cache, next_tick>>
    /\ UNCHANGED tableVars

\* node-cache: an entry is gone after it has expired.
EntryValid == stats_cache # Nothing /\ now <= stats_cache.expires

\* A request is answered from the cache; without an entry it starts a
\* calculation and waits for it, or, if one runs, is answered with nothing.
Request ==
    /\ IF EntryValid \/ is_calculating_stats
       THEN UNCHANGED <<is_calculating_stats, calc>>
       ELSE is_calculating_stats' = TRUE /\ calc' = Calculation("request")
    /\ UNCHANGED <<tableVars, stats_cache, next_tick, faults>>

CalculationStep == CheckAvailable \/ QueryStored \/ QueryLive \/ CalcDone

Next == Tick \/ TableChanges \/ TableVoids \/ TimerFires \/ CalculationStep \/ CalcFails \/ Request

\* Timers fire, and every query returns.
Fairness ==
    /\ WF_vars(Tick)
    /\ WF_vars(TimerFires)
    /\ WF_vars(CalculationStep)

Spec == Init /\ [][Next]_vars

FairSpec == Spec /\ Fairness

------------------------------------------------------------------------------
(* Properties *)

\* No confirmation is counted twice, once with its hour and once live, though
\* rows are written and hours end between the two queries, and none from
\* before the last day is counted.
CountedOnce ==
    stats_cache # Nothing =>
        /\ stats_cache.data.stored \cap stats_cache.data.live = {}
        /\ \A b \in stats_cache.data.stored \cup stats_cache.data.live :
              local_timestamp[b] >= one_day_ago(stats_cache.data.at)

\* Every confirmation of the last day is counted, whatever is written while the
\* queries run, but for those that wait for the row of their hour, or for a better
\* one; those that wavered; and, when the stored hours are used, those of the hour
\* in which the day begins: its row is left out whole.
NothingSkipped ==
    stats_cache # Nothing =>
        LET r == stats_cache.data
        IN  \A b \in r.due \ wavered :
               \/ b \in r.stored \cup r.live
               \/ b \in r.waiting
               \/ r.hourly /\ HourOf(local_timestamp[b]) * HOUR < one_day_ago(r.at)

\* Whenever the cache has no valid entry, a calculation runs: the route never
\* starts one, and a request that misses is answered with nothing.
CacheOrCalculating == EntryValid \/ is_calculating_stats

\* Every calculation ends and releases the flag that keeps others from
\* starting.
CalculationsEnd == is_calculating_stats ~> ~is_calculating_stats
==============================================================================
