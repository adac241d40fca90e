----------------------------- MODULE DailyRollups -----------------------------
(***************************************************************************)
(* The two scripts that fill a day's row of the table rollup_daily:        *)
(* rollup-daily.mjs counts the day's blocks, page by page, and walks back  *)
(* in time; rollup-daily-balance-distribution.mjs keeps every account's    *)
(* balance in a BigMap, applies the day's blocks to it, counts the         *)
(* accounts in each range, and walks forward.  cron starts both every day, *)
(* an operator may start either at any time, and the importers insert and  *)
(* rewrite blocks meanwhile.                                               *)
(*                                                                         *)
(* The block <<a, k>> is that of account a at height k.  Assumption: the   *)
(* node stamps an account's blocks in the order of their heights.          *)
(* A date that the operator gives stands for its day in UTC.               *)
(***************************************************************************)
EXTENDS Integers, SequencesExt, BigMap

CONSTANTS
    Block,            \* pairs <<account, height>>
    MaxHeight,        \* bound
    Kind,             \* by block: send, receive, change or other
    Balance,          \* by block: the account's balance
    Thresholds,       \* the ranges' lower ends, descending to 0
    DAY,              \* units of time in a day
    DistributionHour, \* the hour of the second script in the crontab
    BATCH_SIZE,       \* rows of a page
    first_timestamp,
    MaxDelay,         \* from a block's local_timestamp to its row
    MaxTime,          \* bound
    OperatorOptions,  \* what the operator may ask for: days, full, start_date, end_date
    MaxEvents         \* bound: runs that the operator starts, and runs that fail

Day    == 0..(MaxTime \div DAY)
NoDate == -1
Option == [days : Nat \ {0}, full : BOOLEAN, start_date : Day \cup {NoDate}, end_date : Day \cup {NoDate}]

ASSUME DailyAssumption ==
    /\ IsFiniteSet(Block) /\ MaxHeight \in Nat
    /\ \A b \in Block : b = <<b[1], b[2]>> /\ b[2] \in 1..MaxHeight
    /\ {DAY, BATCH_SIZE} \subseteq Nat \ {0}
    /\ DistributionHour \in 0..(DAY - 1)
    /\ {MaxDelay, MaxTime, MaxEvents} \subseteq Nat
    /\ first_timestamp \in 0..MaxTime
    /\ Len(Thresholds) \in Nat /\ Thresholds[Len(Thresholds)] = 0
    /\ OperatorOptions \subseteq Option

VARIABLES
    now,
    local_timestamp,    \* by block, NotSaved without a row
    rollup_daily,       \* by day: the columns of either script
    daily, distribution,\* the running scripts, of cron and of the operator
    cron_day,           \* by script: the day in which cron last started it
    unread,             \* history, by script: days with a block that came after
                        \* the last query for their row
    missed,             \* history, by script: days whose run by cron failed
    events              \* the bound's counter

vars == <<now, local_timestamp, rollup_daily, daily, distribution, cron_day, unread, missed, events>>

NotSaved == -1
Today    == now \div DAY
Script   == {"activity", "distribution"}
Runner   == {"cron", "operator"}
Saved    == { b \in Block : local_timestamp[b] # NotSaved }
Stamped(from, to) == { b \in Saved : from <= local_timestamp[b] /\ local_timestamp[b] < to }

------------------------------------------------------------------------------
(* What a day's row says. *)

OfKind(kind) == { b \in Block : Kind[b] = kind }

\* The counters after the rows have been read: pairs of a page's offset and a
\* block.  An account's first block counts as open block if it is a receive block.
Activity(rows) ==
    LET count(blocks) == Cardinality({ row \in rows : row[2] \in blocks })
    IN  [ blocks           |-> count(Block),
          active_addresses |-> Cardinality({ row[2][1] : row \in rows }),
          send_count       |-> count(OfKind("send")),
          receive_count    |-> count(OfKind("receive")),
          open_count       |-> count({ b \in OfKind("receive") : b[2] = 1 }),
          change_count     |-> count(OfKind("change")) ]

AnyBalance == { Balance[b] : b \in Block }

\* A balance's range: 0, which is zero, or the first whose lower end it reaches.
BalanceRange(i) ==
    { v \in AnyBalance :
        IF i = 0 THEN v = 0
        ELSE v # 0 /\ v >= Thresholds[i] /\ \A j \in 1..(i - 1) : v < Thresholds[j] }

\* The numbers of accounts in the ranges.
Distribution(cache) == [i \in 0..Len(Thresholds) |-> Occurrences(cache, BalanceRange(i))]

\* The last block of each account among some blocks (rank() ... = 1).
Latest(blocks) == { b \in blocks : \A c \in blocks : c[1] = b[1] => c[2] <= b[2] }

LatestBalances(blocks) ==
    [ a \in { b[1] : b \in blocks } |-> Balance[CHOOSE b \in Latest(blocks) : b[1] = a] ]

NoHalf   == {}  \* else the one value that was written
NoColumn == [s \in Script |-> NoHalf]
Idle     == [pc |-> "idle"]

\* What a script should write for day d: every block is met once, and every
\* account is in the range of its last balance.
Complete(script, d) ==
    IF script = "activity"
    THEN Activity({0} \X Stamped(d * DAY, (d + 1) * DAY))
    ELSE LET last == Latest(Stamped(0, (d + 1) * DAY))
         IN  [i \in 0..Len(Thresholds) |-> Cardinality({ b \in last : Balance[b] \in BalanceRange(i) })]

BalanceMap == UNION { [accounts -> AnyBalance] : accounts \in SUBSET { b[1] : b \in Block } }

DailyTask == [ pc : {"page", "db"}, time : Day, end : Int, cursor : Nat,
               rows : SUBSET (Nat \X Block), unread : BOOLEAN ]
\* todo: the balances that are read and not yet set.
DistributionTask == [ pc : {"frontiers", "changes", "db"}, time : Day, end : Int,
                      cache : Seq(BalanceMap), todo : BalanceMap, unread : BOOLEAN ]

Init ==
    /\ now = 0
    /\ local_timestamp = [b \in Block |-> NotSaved]
    /\ rollup_daily = [d \in Day |-> NoColumn]
    /\ daily = [r \in Runner |-> Idle]
    /\ distribution = [r \in Runner |-> Idle]
    /\ cron_day = [s \in Script |-> 0]
    /\ unread = [s \in Script |-> {}]
    /\ missed = [s \in Script |-> {}]
    /\ events = 0

scripts == <<daily, distribution>>
history == <<cron_day, missed, events>>

------------------------------------------------------------------------------
(* The importers. *)

\* A block of time t appears: a script that has sent its last query for a row that
\* should count the block lacks it, and so do the rows that are there: of its day
\* and, for the balances, of the later ones.
Unseen(t) ==
    /\ daily' = [r \in Runner |->
          IF daily[r].pc = "db" /\ daily[r].time = t \div DAY
          THEN [daily[r] EXCEPT !.unread = TRUE] ELSE daily[r]]
    /\ distribution' = [r \in Runner |->
          IF \/ distribution[r].pc = "changes" /\ t < distribution[r].time * DAY
             \/ distribution[r].pc = "db" /\ t < (distribution[r].time + 1) * DAY
          THEN [distribution[r] EXCEPT !.unread = TRUE] ELSE distribution[r]]
    /\ unread' = [unread EXCEPT !["activity"] = @ \cup {t \div DAY},
                                !["distribution"] = @ \cup { d \in Day : t < (d + 1) * DAY }]

Insert(b, t) ==
    /\ b \notin Saved
    /\ t \in 0..now /\ now <= t + MaxDelay
    /\ \A c \in Saved : c[1] = b[1] =>
          IF c[2] < b[2] THEN local_timestamp[c] <= t ELSE t <= local_timestamp[c]
    /\ local_timestamp' = [local_timestamp EXCEPT ![b] = t]
    /\ Unseen(t)
    /\ UNCHANGED <<now, rollup_daily, history>>

------------------------------------------------------------------------------
(* What the scripts share: the upsert, the failure, and how cron starts them. *)

\* Mutant: the row is replaced.
UpsertWhole(script, d, value) ==
    rollup_daily' = [rollup_daily EXCEPT ![d] = [NoColumn EXCEPT ![script] = {value}]]

\* The conflicting row keeps the columns that the statement does not name.
Upsert(script, d, value) ==
    rollup_daily' = [rollup_daily EXCEPT ![d][script] = {value}]

Wrote(script, t) ==
    unread' = [unread EXCEPT ![script] = IF t.unread THEN @ \cup {t.time} ELSE @ \ {t.time}]

\* The first day and the end of a walk, back from the last completed day...
DailyFirst(o) == IF o.start_date # NoDate THEN o.start_date ELSE Today - 1

DailyEnd(o) ==
    IF o.end_date # NoDate THEN o.end_date * DAY
    ELSE IF o.full THEN first_timestamp ELSE (DailyFirst(o) - o.days) * DAY

DailyStart(o) ==
    [ pc |-> "page", time |-> DailyFirst(o), end |-> DailyEnd(o), cursor |-> 0, rows |-> {},
      unread |-> FALSE ]

\* Mutant: the walk starts at the last completed day.
DistributionFirstLate(o) == Today - o.days

\* ... and on to it.
DistributionFirst(o) ==
    IF o.start_date # NoDate THEN o.start_date
    ELSE IF o.full THEN first_timestamp \div DAY ELSE Today - 1 - o.days

DistributionStart(o) ==
    [ pc |-> "frontiers", time |-> DistributionFirst(o),
      end |-> IF o.end_date # NoDate THEN o.end_date ELSE Today - 1,
      cache |-> Empty, todo |-> <<>>, unread |-> FALSE ]

\* The crontab gives no options.
Defaults == [days |-> 1, full |-> FALSE, start_date |-> NoDate, end_date |-> NoDate]

CronDue(script) ==
    /\ cron_day[script] < Today
    /\ IF script = "activity" THEN Today >= 1
       ELSE Today >= 2 /\ now % DAY >= DistributionHour

CronStart(script) ==
    /\ CronDue(script)
    /\ cron_day' = [cron_day EXCEPT ![script] = Today]
    /\ IF script = "activity"
       THEN /\ daily["cron"] = Idle
            /\ daily' = [daily EXCEPT !["cron"] = DailyStart(Defaults)]
            /\ UNCHANGED distribution
       ELSE /\ distribution["cron"] = Idle
            /\ distribution' = [distribution EXCEPT !["cron"] = DistributionStart(Defaults)]
            /\ UNCHANGED daily
    /\ UNCHANGED <<now, local_timestamp, rollup_daily, unread, missed, events>>

\* Bound: the days are counted from the first.
OperatorStart(o) ==
    /\ events < MaxEvents
    /\ events' = events + 1
    /\ \/ /\ daily["operator"] = Idle /\ DailyFirst(o) >= 0 /\ DailyEnd(o) >= -DAY
          /\ daily' = [daily EXCEPT !["operator"] = DailyStart(o)]
          /\ UNCHANGED distribution
       \/ /\ distribution["operator"] = Idle /\ DistributionFirst(o) >= 0
          /\ distribution' = [distribution EXCEPT !["operator"] = DistributionStart(o)]
          /\ UNCHANGED daily
    /\ UNCHANGED <<now, local_timestamp, rollup_daily, cron_day, unread, missed>>

\* Something throws: the script reports its failure and exits.
Fails(r) ==
    /\ events < MaxEvents
    /\ events' = events + 1
    /\ \/ /\ daily[r] # Idle
          /\ daily' = [daily EXCEPT ![r] = Idle]
          /\ missed' = [missed EXCEPT !["activity"] =
                          IF r = "cron" THEN @ \cup {daily[r].time} ELSE @]
          /\ UNCHANGED distribution
       \/ /\ distribution[r] # Idle
          /\ distribution' = [distribution EXCEPT ![r] = Idle]
          /\ missed' = [missed EXCEPT !["distribution"] =
                          IF r = "cron" THEN @ \cup {distribution[r].time} ELSE @]
          /\ UNCHANGED daily
    /\ UNCHANGED <<now, local_timestamp, rollup_daily, cron_day, unread>>

------------------------------------------------------------------------------
(* rollup-daily.mjs *)

\* Mutant: the next day's first moment is included.
DayEndInclusive(d) == (d + 1) * DAY + 1

DayEnd(d) == (d + 1) * DAY

\* limit BATCH_SIZE offset cursor: how many of n rows are returned.
Returned(n, cursor) ==
    IF n <= cursor THEN 0 ELSE IF n - cursor < BATCH_SIZE THEN n - cursor ELSE BATCH_SIZE

\* Without an order each query may return any of the rows, whatever others
\* have returned.
ReadPage(r) ==
    /\ daily[r].pc = "page"
    /\ LET t == daily[r]
           rows == Stamped(t.time * DAY, DayEnd(t.time))
           n == Returned(Cardinality(rows), t.cursor)
       IN  \E page \in kSubset(n, rows) :
             daily' = [daily EXCEPT ![r] =
               [t EXCEPT !.pc = IF n = BATCH_SIZE THEN "page" ELSE "db",
                         !.cursor = t.cursor + BATCH_SIZE,
                         !.rows = t.rows \cup ({t.cursor} \X page)]]
    /\ UNCHANGED <<now, local_timestamp, rollup_daily, distribution, unread, history>>

\* Mutant: the day at the end of the range is processed too.
DayBeforeInclusive(t) ==
    IF (t.time - 1) * DAY >= t.end
    THEN [t EXCEPT !.pc = "page", !.time = t.time - 1, !.cursor = 0,
                   !.rows = {}, !.unread = FALSE]
    ELSE Idle

\* The day before, while it starts after the end.
DayBefore(t) ==
    IF (t.time - 1) * DAY > t.end
    THEN [t EXCEPT !.pc = "page", !.time = t.time - 1, !.cursor = 0,
                   !.rows = {}, !.unread = FALSE]
    ELSE Idle

SaveActivity(r) ==
    /\ daily[r].pc = "db"
    /\ Upsert("activity", daily[r].time, Activity(daily[r].rows))
    /\ Wrote("activity", daily[r])
    /\ daily' = [daily EXCEPT ![r] = DayBefore(daily[r])]
    /\ UNCHANGED <<now, local_timestamp, distribution, history>>

------------------------------------------------------------------------------
(* rollup-daily-balance-distribution.mjs *)

ReadFrontiers(r) ==
    /\ distribution[r].pc = "frontiers"
    /\ LET t == distribution[r]
       IN  distribution' = [distribution EXCEPT ![r] =
             [t EXCEPT !.pc = "changes", !.todo = LatestBalances(Stamped(0, t.time * DAY + 1))]]
    /\ UNCHANGED <<now, local_timestamp, rollup_daily, daily, unread, history>>

\* One after the other, in the order of the query's rows, which may be any.
SetBalance(r) ==
    /\ distribution[r] # Idle
    /\ LET t == distribution[r]
       IN  \E a \in DOMAIN t.todo :
             distribution' = [distribution EXCEPT ![r] =
               [t EXCEPT !.cache = Set(t.cache, a, t.todo[a]),
                         !.todo = [c \in DOMAIN t.todo \ {a} |-> t.todo[c]]]]
    /\ UNCHANGED <<now, local_timestamp, rollup_daily, daily, unread, history>>

ReadChanges(r) ==
    /\ distribution[r].pc = "changes" /\ DOMAIN distribution[r].todo = {}
    /\ LET t == distribution[r]
       IN  distribution' = [distribution EXCEPT ![r] =
             [t EXCEPT !.pc = "db", !.todo = LatestBalances(Stamped(t.time * DAY, DayEnd(t.time)))]]
    /\ UNCHANGED <<now, local_timestamp, rollup_daily, daily, unread, history>>

SaveDistribution(r) ==
    /\ distribution[r].pc = "db" /\ DOMAIN distribution[r].todo = {}
    /\ LET t == distribution[r]
       IN  /\ Upsert("distribution", t.time, Distribution(t.cache))
           /\ Wrote("distribution", t)
           /\ distribution' = [distribution EXCEPT ![r] =
                 IF t.time + 1 < t.end THEN [t EXCEPT !.pc = "changes", !.time = t.time + 1] ELSE Idle]
    /\ UNCHANGED <<now, local_timestamp, daily, history>>

ScriptStep(r) ==
    \/ ReadPage(r) \/ SaveActivity(r)
    \/ ReadFrontiers(r) \/ SetBalance(r) \/ ReadChanges(r) \/ SaveDistribution(r)

\* A unit of time passes.  Assumption: cron fires in time, and its runs end
\* before the next.
Tick ==
    /\ now < MaxTime
    /\ \A s \in Script : ~CronDue(s)
    /\ (now + 1) % DAY = 0 => daily["cron"] = Idle
    /\ (now + 1) % DAY = DistributionHour => distribution["cron"] = Idle
    /\ now' = now + 1
    /\ UNCHANGED <<local_timestamp, rollup_daily, scripts, unread, history>>

\* The bound of time is reached and nothing is left to do.
Stopped ==
    /\ now = MaxTime
    /\ \A s \in Script : ~CronDue(s)
    /\ \A r \in Runner : daily[r] = Idle /\ distribution[r] = Idle
    /\ UNCHANGED vars

Next ==
    \/ Tick
    \/ \E b \in Block, t \in (now - MaxDelay)..now : Insert(b, t)
    \/ \E s \in Script : CronStart(s)
    \/ \E o \in OperatorOptions : OperatorStart(o)
    \/ \E r \in Runner : ScriptStep(r) \/ Fails(r)
    \/ Stopped

Spec == Init /\ [][Next]_vars

------------------------------------------------------------------------------
(* Properties *)

\* Every variable has its type.
TypeOK ==
    /\ now \in 0..MaxTime
    /\ local_timestamp \in [Block -> {NotSaved} \cup 0..MaxTime]
    /\ rollup_daily = [d \in Day |-> [s \in Script |-> rollup_daily[d][s]]]
    /\ daily \in [Runner -> {Idle} \cup DailyTask]
    /\ distribution \in [Runner -> {Idle} \cup DistributionTask]
    /\ cron_day \in [Script -> Day]
    /\ unread \in [Script -> SUBSET Day] /\ missed \in [Script -> SUBSET Day]
    /\ events \in 0..MaxEvents

\* However the day is cut into pages and whoever wrote the row last, the row says
\* how many blocks the day has, those on a boundary in one day only, and if they
\* fit in a page, all else about them; unless a block came after the last page was
\* read.  With more pages, which overlap as they like, only the number is right.
ActivityIsExact ==
    \A d \in Day \ unread["activity"] : \A row \in rollup_daily[d]["activity"] :
        LET complete == Complete("activity", d)
        IN  /\ row.blocks = complete.blocks
            /\ complete.blocks <= BATCH_SIZE => row = complete

\* The balances that are carried from day to day, over however many Maps, are
\* those that a query over the whole past would give: each account is once, and
\* in the range of its last balance at the day's end, unless a block came after
\* the last writer had read its time.
DistributionIsExact ==
    \A d \in Day \ unread["distribution"] :
        rollup_daily[d]["distribution"] # NoHalf =>
            rollup_daily[d]["distribution"] = {Complete("distribution", d)}

\* Two scripts write one row: neither ever erases what the other has written.
HalvesAreKept ==
    [][\A d \in Day, s \in Script :
          rollup_daily[d][s] # NoHalf => rollup_daily'[d][s] # NoHalf]_rollup_daily

\* When a day is about to end, what cron has started in it is done: the activity
\* of the day before and the balances of the one before that are written, unless
\* that run failed; what the operator does meanwhile takes none of it back.
RowsBecomeWhole ==
    now % DAY = DAY - 1 /\ (\A s \in Script : ~CronDue(s))
        /\ daily["cron"] = Idle /\ distribution["cron"] = Idle =>
    \A s \in Script : \A d \in 0..(Today - (IF s = "activity" THEN 1 ELSE 2)) :
        rollup_daily[d][s] # NoHalf \/ d \in missed[s]
------------------------------------------------------------------------------
(* The inductive invariant. *)

\* The time of an account's blocks grows with their heights.
TimesAscend ==
    \A b, c \in Saved : b[1] = c[1] /\ b[2] < c[2] => local_timestamp[b] <= local_timestamp[c]

\* The pages of a script that counts blocks are full up to the cursor, and all of a
\* day's rows if they are one page.
ActivityInv(t) ==
    LET rows == Stamped(t.time * DAY, (t.time + 1) * DAY)
        n == Cardinality(rows)
    IN  /\ t.end >= -DAY
        /\ \A p \in t.rows : p[1] < t.cursor
        /\ t.pc = "page" =>
              /\ Cardinality(t.rows) = t.cursor /\ t.cursor <= n
              /\ t.cursor = 0 \/ t.cursor >= BATCH_SIZE
              /\ n <= BATCH_SIZE => t.cursor = 0 \/ t.rows = {0} \X rows
        /\ t.pc = "db" /\ ~t.unread =>
              /\ Cardinality(t.rows) = n
              /\ n <= BATCH_SIZE => t.rows = {0} \X rows

\* The balances once those that are read are set.
Pending(t) ==
    [ a \in Keys(t.cache) \cup DOMAIN t.todo |->
        IF a \in DOMAIN t.todo THEN t.todo[a] ELSE Get(t.cache, a) ]

\* They are the last ones at the start of the day, with or without the blocks of
\* its first moment, or those at its end.
DistributionInv(t) ==
    /\ t.end <= MaxTime \div DAY /\ OneMapPerKey(t.cache)
    /\ t.pc = "frontiers" => t.cache = Empty /\ DOMAIN t.todo = {}
    /\ t.pc = "changes" /\ ~t.unread =>
          \E blocks \in SUBSET Stamped(0, t.time * DAY + 1) :
              Stamped(0, t.time * DAY) \subseteq blocks /\ Pending(t) = LatestBalances(blocks)
    /\ t.pc = "db" /\ ~t.unread => Pending(t) = LatestBalances(Stamped(0, (t.time + 1) * DAY))

\* How many days after a day cron's run writes its row.
Lag(s) == IF s = "activity" THEN 1 ELSE 2

CronTask(s) == IF s = "activity" THEN daily["cron"] ELSE distribution["cron"]

\* Cron has skipped no day, and the row of each day up to its last run's is
\* written, missed, or what the run is about to write.
CronInv(s) ==
    /\ cron_day[s] <= Today /\ (Today <= Lag(s) \/ cron_day[s] >= Today - 1)
    /\ CronTask(s) # Idle =>
          /\ CronTask(s).time = cron_day[s] - Lag(s)
          /\ IF s = "activity" THEN (CronTask(s).time - 1) * DAY <= CronTask(s).end
             ELSE CronTask(s).end <= CronTask(s).time + 1
    /\ \A d \in 0..(cron_day[s] - Lag(s)) :
          \/ rollup_daily[d][s] # NoHalf
          \/ d \in missed[s]
          \/ CronTask(s) # Idle /\ CronTask(s).time = d

IInv ==
    /\ TypeOK /\ TimesAscend
    /\ ActivityIsExact /\ DistributionIsExact
    /\ \A r \in Runner : daily[r] # Idle => ActivityInv(daily[r])
    /\ \A r \in Runner : distribution[r] # Idle => DistributionInv(distribution[r])
    /\ \A s \in Script : CronInv(s)
===============================================================================
