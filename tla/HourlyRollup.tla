---------------------------- MODULE HourlyRollup ----------------------------
(***************************************************************************)
(* scripts/rollup-hourly.mjs: cron starts it some minutes after every hour *)
(* to write the row of stats_hourly for the hour that has ended; an        *)
(* operator may start it at any time for any hour (--hour, or a round of   *)
(* --backfill-hours), with or without --force.  Nothing keeps an operator  *)
(* from an hour that runs, or whose last blocks are still to come.         *)
(*                                                                         *)
(* The queries see the confirmed rows of the table blocks only.  When such *)
(* a row appears, its local_timestamp, which the node has given it, may be *)
(* some time ago, and its election data may follow (modules SaveBlocks and *)
(* Backfill).  How long that takes is the assumption MaxDelay.  A backfill *)
(* may also turn a confirmed row unconfirmed (see Importer), and back.     *)
(*                                                                         *)
(* A count is represented by the set of the blocks counted.  What readers  *)
(* of the table are promised is module HourlyTable.                        *)
(***************************************************************************)
EXTENDS Integers

CONSTANTS
    Block,
    HOUR,              \* units of time in an hour
    RollupDelay,       \* minute of the hour in the crontab
    MaxDelay,          \* from a block's local_timestamp to its full row
    MaxTime, MaxFaults, MaxRuns \* bounds

ASSUME RollupAssumption ==
    /\ HOUR \in Nat \ {0}
    /\ RollupDelay \in 0..(HOUR - 1)
    /\ {MaxDelay, MaxTime, MaxFaults, MaxRuns} \subseteq Nat

VARIABLES
    now,
    local_timestamp,   \* of the rows of the table blocks that were ever confirmed
    confirmed,         \* the rows that are
    election_time,     \* those whose election columns are not NULL
    stats_hourly,      \* the table
    cron_hour,         \* the hour in which cron last started the script
    tasks,             \* the running scripts
    missed,            \* history: hours whose run by cron failed
    early,             \* history: hours whose row an operator's run read too early
    wavered,           \* history: blocks that turned unconfirmed
    runs, faults       \* the bounds' counters

blockVars == <<local_timestamp, confirmed, election_time, wavered>>
vars == <<now, blockVars, stats_hourly, cron_hour, tasks, missed, early, runs, faults>>

Hour == 0..(MaxTime \div HOUR)
NotSaved == -1

HourOf(t) == t \div HOUR
Known == { b \in Block : local_timestamp[b] # NotSaved }

\* Confirmed rows with from <= local_timestamp < to.
Between(from, to) ==
    { b \in confirmed : from <= local_timestamp[b] /\ local_timestamp[b] < to }

Row == [confirmations_count : SUBSET Block, confirmations_without_election_time : SUBSET Block]
NoRow == [confirmations_count |-> {}, confirmations_without_election_time |-> {}]

Rollup == {"cron", "operator"}
Query  == DOMAIN NoRow
Task   == [pc : {"check", "query", "db"}, hour : Hour, force : BOOLEAN,
           todo : SUBSET Query, row : Row, early : BOOLEAN]
Idle   == [pc |-> "idle"]

Init ==
    /\ now = 0
    /\ local_timestamp = [b \in Block |-> NotSaved]
    /\ confirmed = {}
    /\ election_time = {}
    /\ wavered = {}
    /\ stats_hourly = [h \in Hour |-> NoRow]
    /\ cron_hour = 0
    /\ tasks = [r \in Rollup |-> Idle]
    /\ missed = {}
    /\ early = {}
    /\ runs = 0
    /\ faults = 0

------------------------------------------------------------------------------
(* The importers. *)

\* A block's row is there, and confirmed, with or without its election data.
Confirmed(b, t, election) ==
    /\ b \notin Known
    /\ t \in 0..now /\ now <= t + MaxDelay
    /\ local_timestamp' = [local_timestamp EXCEPT ![b] = t]
    /\ confirmed' = confirmed \cup {b}
    /\ election_time' = IF election THEN election_time \cup {b} ELSE election_time
    /\ UNCHANGED <<now, stats_hourly, cron_hour, tasks, missed, early, wavered, runs, faults>>

\* save_blocks adds the election data to a row of the backfill.
ElectionSaved(b) ==
    /\ b \in Known \ election_time
    /\ now <= local_timestamp[b] + MaxDelay
    /\ election_time' = election_time \cup {b}
    /\ UNCHANGED <<now, local_timestamp, confirmed, stats_hourly, cron_hour, tasks, missed,
                   early, wavered, runs, faults>>

\* A backfill writes an answer from before the confirmation, or, later, one from
\* after it.
Unconfirmed(b) ==
    /\ b \in confirmed
    /\ faults < MaxFaults
    /\ faults' = faults + 1
    /\ confirmed' = confirmed \ {b}
    /\ wavered' = wavered \cup {b}
    /\ UNCHANGED <<now, local_timestamp, election_time, stats_hourly, cron_hour, tasks, missed,
                   early, runs>>

ConfirmedAgain(b) ==
    /\ b \in Known \ confirmed
    /\ confirmed' = confirmed \cup {b}
    /\ UNCHANGED <<now, local_timestamp, election_time, stats_hourly, cron_hour, tasks, missed,
                   early, wavered, runs, faults>>

------------------------------------------------------------------------------
(* The script. *)

Started(hour, force) == [pc |-> "check", hour |-> hour, force |-> force,
                         todo |-> {}, row |-> NoRow, early |-> FALSE]

\* Mutant: the hour that runs is taken for the previous one.
CronHourCurrent == HourOf(now)

\* The start of the hour before the current one.
CronHour == HourOf(now) - 1

CronDue == now % HOUR = RollupDelay /\ HourOf(now) > cron_hour

CronStart ==
    /\ CronDue
    /\ tasks["cron"] = Idle
    /\ cron_hour' = HourOf(now)
    /\ tasks' = [tasks EXCEPT !["cron"] = Started(CronHour, FALSE)]
    /\ UNCHANGED <<now, blockVars, stats_hourly, missed, early, runs, faults>>

\* --hour, or one round of --backfill-hours, or no option.
OperatorStart(hour, force) ==
    /\ tasks["operator"] = Idle
    /\ runs < MaxRuns
    /\ runs' = runs + 1
    /\ tasks' = [tasks EXCEPT !["operator"] = Started(hour, force)]
    /\ UNCHANGED <<now, blockVars, stats_hourly, cron_hour, missed, early, faults>>

\* process_hour skips an hour that has a row, unless forced.
CheckProcessed(r) ==
    /\ tasks[r].pc = "check"
    /\ tasks' = [tasks EXCEPT ![r] =
                    IF ~tasks[r].force /\ stats_hourly[tasks[r].hour] # NoRow THEN Idle
                    ELSE [@ EXCEPT !.pc = "query", !.todo = Query]]
    /\ UNCHANGED <<now, blockVars, stats_hourly, cron_hour, missed, early, runs, faults>>

\* Mutant: the hour's end is included.
HourRowsInclusive(hour) == Between(hour * HOUR, (hour + 1) * HOUR + 1)

HourRows(hour) == Between(hour * HOUR, (hour + 1) * HOUR)

QueryResult(q, hour) ==
    IF q = "confirmations_count" THEN HourRows(hour) ELSE HourRows(hour) \ election_time

\* Blocks of the hour may still come.  Cron's delay is there to prevent that; an
\* operator has to wait.
TooEarly(r, hour) == r = "operator" /\ now < (hour + 1) * HOUR + MaxDelay

\* One of the queries that run in parallel returns.  After the last one, there
\* is no row to write if nothing was confirmed.
QueryReturns(r, q) ==
    /\ tasks[r].pc = "query"
    /\ q \in tasks[r].todo
    /\ LET todo == tasks[r].todo \ {q}
           row  == [tasks[r].row EXCEPT ![q] = QueryResult(q, tasks[r].hour)]
           soon == tasks[r].early \/ TooEarly(r, tasks[r].hour)
       IN  tasks' = [tasks EXCEPT ![r] =
             IF todo = {} /\ row.confirmations_count = {} THEN Idle
             ELSE [@ EXCEPT !.pc = IF todo = {} THEN "db" ELSE "query",
                            !.todo = todo, !.row = row, !.early = soon]]
    /\ UNCHANGED <<now, blockVars, stats_hourly, cron_hour, missed, early, runs, faults>>

UpsertHourStats(r) ==
    /\ tasks[r].pc = "db"
    /\ stats_hourly' = [stats_hourly EXCEPT ![tasks[r].hour] = tasks[r].row]
    /\ early' = IF tasks[r].early THEN early \cup {tasks[r].hour} ELSE early \ {tasks[r].hour}
    /\ tasks' = [tasks EXCEPT ![r] = Idle]
    /\ UNCHANGED <<now, blockVars, cron_hour, missed, runs, faults>>

\* Something throws: the script reports its failure and exits.
RollupFails(r) ==
    /\ tasks[r] # Idle
    /\ faults < MaxFaults
    /\ faults' = faults + 1
    /\ missed' = IF r = "cron" THEN missed \cup {tasks[r].hour} ELSE missed
    /\ tasks' = [tasks EXCEPT ![r] = Idle]
    /\ UNCHANGED <<now, blockVars, stats_hourly, cron_hour, early, runs>>

\* A unit of time passes.  Assumption: cron fires in time, and its run ends
\* within the hour.
Tick ==
    /\ now < MaxTime
    /\ ~CronDue
    /\ tasks["cron"] # Idle => (now + 1) % HOUR # RollupDelay
    /\ now' = now + 1
    /\ UNCHANGED <<blockVars, stats_hourly, cron_hour, tasks, missed, early, runs, faults>>

RollupStep(r) ==
    CheckProcessed(r) \/ (\E q \in Query : QueryReturns(r, q)) \/ UpsertHourStats(r)

\* The bound of time is reached and nothing is left to do.
Stopped ==
    /\ now = MaxTime
    /\ ~CronDue
    /\ \A r \in Rollup : tasks[r] = Idle
    /\ UNCHANGED vars

Next ==
    \/ Tick
    \/ \E b \in Block, t \in (now - MaxDelay)..now, e \in BOOLEAN : Confirmed(b, t, e)
    \/ \E b \in Block : ElectionSaved(b) \/ Unconfirmed(b) \/ ConfirmedAgain(b)
    \/ CronStart
    \/ \E hour \in Hour, force \in BOOLEAN : OperatorStart(hour, force)
    \/ \E r \in Rollup : RollupStep(r) \/ RollupFails(r)
    \/ Stopped

Spec == Init /\ [][Next]_vars

\* Time passes, cron starts the script, and every query returns.
Fairness ==
    /\ WF_vars(Tick)
    /\ WF_vars(CronStart)
    /\ \A r \in Rollup : WF_vars(RollupStep(r))

FairSpec == Spec /\ Fairness

------------------------------------------------------------------------------
(* Properties *)

\* A block of the hour turned unconfirmed once.
Wavered(h) == \E b \in wavered : HourOf(local_timestamp[b]) = h

\* An hour's row is complete and stays so: its counts, which come from queries
\* of different moments, are those of one and the same set of blocks, and no
\* block of the hour turns up after the row was written.  There are two
\* exceptions.  An operator's run that read the hour before all of its blocks
\* were there leaves a partial row, whoever had written it before: it stays until
\* a later run with --force.  And nobody counts an hour again when one of its
\* blocks turns unconfirmed or back.
RowsAreComplete ==
    \A h \in Hour \ early : stats_hourly[h] # NoRow /\ ~Wavered(h) =>
        /\ stats_hourly[h].confirmations_count = HourRows(h)
        /\ stats_hourly[h].confirmations_without_election_time = HourRows(h) \ election_time

\* Every hour with confirmed blocks gets its row, unless its run by cron failed,
\* or the blocks were unconfirmed when it came.
HoursRolledUp ==
    \A h \in Hour : (h + 1) * HOUR + RollupDelay <= MaxTime =>
        (HourRows(h) # {} ~> stats_hourly[h] # NoRow \/ h \in missed \/ Wavered(h))

Table == INSTANCE HourlyTable WITH
            stored <- [h \in Hour |-> stats_hourly[h].confirmations_count]

\* Readers see the row of an hour appear at once, complete, when the hour has
\* settled, and then never change, though cron and the operator write it at the
\* same time, with force or without; the exceptions are on record in early and
\* wavered.
ImplementsTable == Table!TableSpec
==============================================================================
