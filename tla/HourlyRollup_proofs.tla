-------------------------- MODULE HourlyRollup_proofs --------------------------
(***************************************************************************)
(* Proofs about HourlyRollup, for every set of blocks, every length of an  *)
(* hour and every number of faults and of runs by an operator, provided    *)
(* that the rows of an hour have settled when cron rolls it up: MaxDelay   *)
(* is no longer than the minutes that the crontab leaves.  Of an operator  *)
(* nothing is assumed.                                                     *)
(***************************************************************************)
EXTENDS HourlyRollup, TLAPS

\* The importers are done with an hour before cron rolls it up.
Settled == MaxDelay <= RollupDelay

\* All blocks of the hour are there.
Closed(h) == now >= (h + 1) * HOUR + MaxDelay

\* The blocks of the hour, confirmed or not.
KnownOf(h) == { b \in Known : HourOf(local_timestamp[b]) = h }

TypeOK ==
    /\ now \in 0..MaxTime
    /\ local_timestamp \in [Block -> Int]
    /\ \A b \in Block : -1 <= local_timestamp[b] /\ local_timestamp[b] <= now
    /\ confirmed \subseteq Known /\ wavered \subseteq Known /\ Known \ confirmed \subseteq wavered
    /\ election_time \subseteq Block
    /\ stats_hourly \in [Hour -> Row]
    /\ cron_hour \in Nat
    /\ tasks \in [Rollup -> Task \cup {Idle}]
    /\ early \subseteq Hour

\* The columns that a script has read.
HasRead(task) ==
    CASE task.pc = "query" -> Query \ task.todo
      [] task.pc = "db"    -> Query
      [] OTHER             -> {}

\* Cron's script works on an hour that is closed.  What a script has read are
\* blocks of the hour, and still holds unless it was read too early or a block
\* wavered.
Fit(r, task) ==
    /\ r = "cron" => Closed(task.hour)
    /\ task.row["confirmations_count"] \subseteq KnownOf(task.hour)
    /\ task.pc = "db" => task.row["confirmations_count"] # {}
    /\ ~task.early /\ ~Wavered(task.hour) =>
          \A q \in HasRead(task) :
             Closed(task.hour) /\ task.row[q] = QueryResult(q, task.hour)

TasksInv == \A r \in Rollup : tasks[r] # Idle => Fit(r, tasks[r])

\* A row has blocks; it is the whole row of a closed hour, with the exceptions.
RowsInv ==
    \A h \in Hour : stats_hourly[h] # NoRow =>
        /\ stats_hourly[h]["confirmations_count"] # {}
        /\ h \notin early /\ ~Wavered(h) =>
              Closed(h) /\ \A q \in Query : stats_hourly[h][q] = QueryResult(q, h)

\* The inductive invariant.
IInv == TypeOK /\ TasksInv /\ RowsInv

------------------------------------------------------------------------------
LEMMA Bounds ==
  /\ HOUR \in Nat /\ HOUR > 0 /\ RollupDelay \in Nat /\ RollupDelay < HOUR
  /\ MaxDelay \in Nat /\ MaxTime \in Nat
  /\ Hour \subseteq Nat
  <1>1. /\ HOUR \in Nat /\ HOUR > 0 /\ RollupDelay \in Nat /\ RollupDelay < HOUR
        /\ MaxDelay \in Nat /\ MaxTime \in Nat
    BY RollupAssumption DEF RollupAssumption
  <1> QED BY <1>1 DEF Hour

\* The hour of a moment.
LEMMA HourOfFacts ==
  ASSUME NEW t \in Nat
  PROVE  /\ HourOf(t) \in Nat /\ HourOf(t) * HOUR <= t /\ t < (HourOf(t) + 1) * HOUR
         /\ t % HOUR = t - HourOf(t) * HOUR
         /\ t <= MaxTime => HourOf(t) \in Hour
  BY Bounds DEF HourOf, Hour

LEMMA HourOfUnique ==
  ASSUME NEW t \in Nat, NEW h \in Nat
  PROVE  HourOf(t) = h <=> h * HOUR <= t /\ t < (h + 1) * HOUR
  BY Bounds DEF HourOf

\* The queries are the two columns of a row.
LEMMA Columns ==
  /\ Query = {"confirmations_count", "confirmations_without_election_time"}
  /\ NoRow \in Row /\ \A q \in Query : NoRow[q] = {}
  /\ \A row \in Row : row \in [Query -> SUBSET Block]
  BY DEF Query, NoRow, Row

\* The two scans of an hour agree: by its bounds, and by the hour of each row.
LEMMA HourRowsFacts ==
  ASSUME TypeOK, NEW h \in Hour
  PROVE  /\ HourRows(h) = KnownOf(h) \cap confirmed
         /\ KnownOf(h) \subseteq Block
         /\ \A b \in KnownOf(h) :
               h * HOUR <= local_timestamp[b] /\ local_timestamp[b] < (h + 1) * HOUR
         /\ Wavered(h) <=> KnownOf(h) \cap wavered # {}
  <1>1. h \in Nat /\ h * HOUR \in Nat BY Bounds
  <1>2. confirmed \subseteq Known /\ wavered \subseteq Known /\ Known \subseteq Block
    BY DEF TypeOK, Known
  <1>3. ASSUME NEW b \in Known
        PROVE  HourOf(local_timestamp[b]) = h <=>
                 h * HOUR <= local_timestamp[b] /\ local_timestamp[b] < (h + 1) * HOUR
    <2>1. local_timestamp[b] \in Nat BY <1>3 DEF TypeOK, Known, NotSaved
    <2> QED BY <1>1, <2>1, HourOfUnique
  <1>4. HourRows(h) = KnownOf(h) \cap confirmed
    BY <1>2, <1>3 DEF HourRows, Between, KnownOf
  <1> QED BY <1>2, <1>3, <1>4 DEF KnownOf, Wavered

\* Blocks stay in their hour, with what is on record of them.
LEMMA Grows ==
  ASSUME TypeOK, [Next]_vars
  PROVE  /\ now' \in {now, now + 1} /\ wavered \subseteq wavered'
         /\ \A b \in Known : b \in Known' /\ local_timestamp'[b] = local_timestamp[b]
         /\ \A h \in Hour : KnownOf(h) \subseteq KnownOf(h)' /\ (Wavered(h) => Wavered(h)')
  <1>1. now' \in {now, now + 1} /\ wavered \subseteq wavered'
    BY DEF Next, vars, blockVars, Tick, Confirmed, ElectionSaved, Unconfirmed, ConfirmedAgain,
       CronStart, OperatorStart, RollupStep, CheckProcessed, QueryReturns, UpsertHourStats,
       RollupFails, Stopped
  <1>2. ASSUME NEW b \in Block, NEW t \in (now - MaxDelay)..now, NEW e \in BOOLEAN,
               Confirmed(b, t, e), NEW c \in Known
        PROVE  c \in Known' /\ local_timestamp'[c] = local_timestamp[c]
    BY <1>2 DEF Confirmed, TypeOK, Known
  <1>3. ASSUME \A b \in Block, t \in (now - MaxDelay)..now, e \in BOOLEAN : ~Confirmed(b, t, e)
        PROVE  local_timestamp' = local_timestamp
    BY <1>3 DEF Next, vars, blockVars, Tick, ElectionSaved, Unconfirmed, ConfirmedAgain,
       CronStart, OperatorStart, RollupStep, CheckProcessed, QueryReturns, UpsertHourStats,
       RollupFails, Stopped
  <1>4. \A b \in Known : b \in Known' /\ local_timestamp'[b] = local_timestamp[b]
    BY <1>2, <1>3 DEF Known
  <1>5. wavered \subseteq Known BY DEF TypeOK
  <1> QED BY <1>1, <1>4, <1>5 DEF KnownOf, Wavered

\* Once an hour is closed, nothing changes what the queries read of it, unless a
\* block wavers.
LEMMA Frozen ==
  ASSUME TypeOK, [Next]_vars, NEW h \in Hour, Closed(h)
  PROVE  /\ Closed(h)'
         /\ ~Wavered(h)' => /\ HourRows(h)' = HourRows(h)
                            /\ \A q \in Query : QueryResult(q, h)' = QueryResult(q, h)
  <1>1. /\ h \in Nat /\ h * HOUR \in Nat /\ (h + 1) * HOUR \in Nat /\ now \in Nat
        /\ now >= (h + 1) * HOUR + MaxDelay /\ MaxDelay \in Nat
    BY Bounds DEF Closed, TypeOK
  <1>2. Closed(h)' BY <1>1, Grows DEF Closed
  <1> SUFFICES ASSUME ~Wavered(h)'
               PROVE  /\ HourRows(h)' = HourRows(h)
                      /\ HourRows(h) \cap election_time' = HourRows(h) \cap election_time
    BY <1>2 DEF QueryResult
  <1>3. HourRows(h) = { b \in confirmed : /\ h * HOUR <= local_timestamp[b]
                                          /\ local_timestamp[b] < (h + 1) * HOUR }
    BY DEF HourRows, Between
  <1>4. HourRows(h)' = { b \in confirmed' : /\ h * HOUR <= local_timestamp'[b]
                                            /\ local_timestamp'[b] < (h + 1) * HOUR }
    BY DEF HourRows, Between
  <1>5. /\ confirmed \subseteq Known /\ wavered \subseteq Known
        /\ Known \ confirmed \subseteq wavered /\ Known \subseteq Block
        /\ local_timestamp \in [Block -> Int]
    BY DEF TypeOK, Known
  \* A block that the hour has room for has wavered.
  <1>6. ASSUME NEW b \in Known, b \in wavered'
        PROVE  ~(h * HOUR <= local_timestamp[b] /\ local_timestamp[b] < (h + 1) * HOUR)
    <2>1. local_timestamp'[b] = local_timestamp[b] /\ local_timestamp[b] \in Nat
      BY Grows, <1>5 DEF TypeOK, Known, NotSaved
    <2>2. HourOf(local_timestamp[b]) # h BY <1>6, <2>1 DEF Wavered, HourOf
    <2> QED BY <1>1, <2>1, <2>2, HourOfUnique
  <1>7. ASSUME NEW b \in Block, NEW t \in (now - MaxDelay)..now, NEW e \in BOOLEAN,
               Confirmed(b, t, e)
        PROVE  /\ HourRows(h)' = HourRows(h)
               /\ HourRows(h) \cap election_time' = HourRows(h) \cap election_time
    <2>1. /\ b \notin Known /\ local_timestamp' = [local_timestamp EXCEPT ![b] = t]
          /\ confirmed' = confirmed \cup {b}
          /\ election_time' \subseteq election_time \cup {b} /\ election_time \subseteq election_time'
          /\ t \in Int /\ now <= t + MaxDelay
      BY <1>7 DEF Confirmed
    <2>2. ~(t < (h + 1) * HOUR) BY <1>1, <2>1
    <2>3. b \notin confirmed /\ local_timestamp'[b] = t
          /\ \A c \in Block : c # b => local_timestamp'[c] = local_timestamp[c]
      BY <1>5, <2>1
    <2> QED BY <1>3, <1>4, <1>5, <2>1, <2>2, <2>3
  <1>8. ASSUME NEW b \in Block, ElectionSaved(b)
        PROVE  /\ HourRows(h)' = HourRows(h)
               /\ HourRows(h) \cap election_time' = HourRows(h) \cap election_time
    <2>1. /\ now <= local_timestamp[b] + MaxDelay
          /\ local_timestamp' = local_timestamp /\ confirmed' = confirmed
          /\ election_time' = election_time \cup {b} /\ local_timestamp[b] \in Int
      BY <1>5, <1>8 DEF ElectionSaved
    <2>2. b \notin HourRows(h) BY <1>1, <1>3, <2>1
    <2> QED BY <1>3, <1>4, <2>1, <2>2
  <1>9. ASSUME NEW b \in Block, Unconfirmed(b) \/ ConfirmedAgain(b)
        PROVE  /\ HourRows(h)' = HourRows(h)
               /\ HourRows(h) \cap election_time' = HourRows(h) \cap election_time
    <2>1. /\ b \in Known /\ b \in wavered' /\ confirmed' \ {b} = confirmed \ {b}
          /\ local_timestamp' = local_timestamp /\ election_time' = election_time
      BY <1>5, <1>9 DEF Unconfirmed, ConfirmedAgain
    <2> QED BY <1>3, <1>4, <1>6, <2>1
  <1>10. ASSUME \A b \in Block, t \in (now - MaxDelay)..now, e \in BOOLEAN : ~Confirmed(b, t, e),
               \A b \in Block : ~ElectionSaved(b) /\ ~Unconfirmed(b) /\ ~ConfirmedAgain(b)
         PROVE  /\ HourRows(h)' = HourRows(h)
                /\ HourRows(h) \cap election_time' = HourRows(h) \cap election_time
    <2>1. /\ local_timestamp' = local_timestamp /\ confirmed' = confirmed
          /\ election_time' = election_time
      BY <1>10 DEF Next, vars, blockVars, Tick, CronStart, OperatorStart, RollupStep,
         CheckProcessed, QueryReturns, UpsertHourStats, RollupFails, Stopped
    <2> QED BY <1>3, <1>4, <2>1
  <1> QED BY <1>7, <1>8, <1>9, <1>10

\* What a script has in hand stays fit.
LEMMA FitStays ==
  ASSUME TypeOK, [Next]_vars, NEW r \in Rollup, NEW t \in Task, Fit(r, t)
  PROVE  Fit(r, t)'
  <1>1. t.hour \in Hour /\ HasRead(t) \subseteq Query BY DEF Task, HasRead
  <1>2. r = "cron" => Closed(t.hour)' BY <1>1, Frozen DEF Fit
  <1>3. t.row["confirmations_count"] \subseteq KnownOf(t.hour)' BY <1>1, Grows DEF Fit
  <1>4. ASSUME ~t.early, ~Wavered(t.hour)', NEW q \in HasRead(t)
        PROVE  Closed(t.hour)' /\ t.row[q] = QueryResult(q, t.hour)'
    <2>1. ~Wavered(t.hour) BY <1>1, <1>4, Grows
    <2>2. Closed(t.hour) /\ t.row[q] = QueryResult(q, t.hour) BY <1>4, <2>1 DEF Fit
    <2> QED BY <1>1, <1>4, <2>2, Frozen
  <1> QED BY <1>2, <1>3, <1>4 DEF Fit, HasRead

\* The rows stay as they should be when none is written.
LEMMA RowsStay ==
  ASSUME TypeOK, [Next]_vars, NEW h \in Hour, NEW row \in Row,
         ~Wavered(h) => Closed(h) /\ \A q \in Query : row[q] = QueryResult(q, h)
  PROVE  ~Wavered(h)' => Closed(h)' /\ \A q \in Query : row[q] = QueryResult(q, h)'
  BY Frozen, Grows

------------------------------------------------------------------------------
\* The initial state satisfies the inductive invariant.
THEOREM InitIInv == Init => IInv
  <1> SUFFICES ASSUME Init PROVE IInv OBVIOUS
  <1>1. TypeOK
    <2>1. 0 \in 0..MaxTime BY Bounds
    <2>2. Known = {} BY DEF Init, Known, NotSaved
    <2> QED BY <2>1, <2>2, Columns DEF Init, TypeOK, NotSaved, Idle
  <1>2. TasksInv BY DEF Init, TasksInv
  <1>3. RowsInv BY DEF Init, RowsInv
  <1> QED BY <1>1, <1>2, <1>3 DEF IInv

\* The inductive invariant is preserved by every step.
THEOREM NextIInv == Settled /\ IInv /\ [Next]_vars => IInv'
  <1> SUFFICES ASSUME Settled, IInv, [Next]_vars PROVE IInv' OBVIOUS
  <1>a. TypeOK /\ TasksInv /\ RowsInv BY DEF IInv
  <1>b. /\ now \in 0..MaxTime /\ local_timestamp \in [Block -> Int] /\ election_time \subseteq Block
        /\ confirmed \subseteq Known /\ wavered \subseteq Known /\ Known \ confirmed \subseteq wavered
        /\ stats_hourly \in [Hour -> Row] /\ cron_hour \in Nat /\ early \subseteq Hour
        /\ tasks \in [Rollup -> Task \cup {Idle}] /\ Known \subseteq Block
    BY <1>a DEF TypeOK, Known
  <1>t. \A r \in Rollup : tasks[r] # Idle =>
           /\ tasks[r] \in Task /\ tasks[r].hour \in Hour /\ tasks[r].force \in BOOLEAN
           /\ tasks[r].pc \in {"check", "query", "db"} /\ tasks[r].early \in BOOLEAN
           /\ tasks[r].todo \subseteq Query /\ tasks[r].row \in Row
    BY <1>b DEF Task
  <1>e. ASSUME UNCHANGED <<stats_hourly, early>> PROVE RowsInv'
    <2>1. ASSUME NEW h \in Hour, stats_hourly[h] # NoRow, h \notin early, ~Wavered(h)'
          PROVE  Closed(h)' /\ \A q \in Query : stats_hourly[h][q] = QueryResult(q, h)'
      <3>1. PICK row \in Row : row = stats_hourly[h] BY <1>b
      <3>2. ~Wavered(h) => Closed(h) /\ \A q \in Query : row[q] = QueryResult(q, h)
        BY <1>a, <2>1, <3>1 DEF RowsInv
      <3>3. ~Wavered(h)' => Closed(h)' /\ \A q \in Query : row[q] = QueryResult(q, h)'
        BY <1>a, <3>2, RowsStay
      <3> QED BY <2>1, <3>1, <3>3
    <2> QED BY <1>a, <1>e, <2>1 DEF RowsInv
  \* A script moves to task t, or ends.
  <1>s. ASSUME NEW r \in Rollup, NEW t \in Task \cup {Idle}, tasks' = [tasks EXCEPT ![r] = t],
               t # Idle => Fit(r, t)
        PROVE  TasksInv' /\ tasks' \in [Rollup -> Task \cup {Idle}]
    <2>1. tasks' \in [Rollup -> Task \cup {Idle}] BY <1>b, <1>s
    <2>2. ASSUME NEW p \in Rollup, tasks'[p] # Idle PROVE Fit(p, tasks[p])'
      <3>1. PICK u \in Task : u = tasks'[p] /\ Fit(p, u)
        BY <1>a, <1>b, <1>s, <1>t, <2>2 DEF TasksInv
      <3>2. Fit(p, u)' BY <1>a, <3>1, FitStays
      <3> QED BY <3>1, <3>2 DEF Fit, HasRead
    <2> QED BY <2>1, <2>2 DEF TasksInv
  <1>u. ASSUME UNCHANGED tasks PROVE TasksInv'
    <2>1. ASSUME NEW p \in Rollup, tasks'[p] # Idle PROVE Fit(p, tasks[p])'
      <3>1. PICK u \in Task : u = tasks[p] /\ Fit(p, u) BY <1>a, <1>t, <1>u, <2>1 DEF TasksInv
      <3>2. Fit(p, u)' BY <1>a, <3>1, FitStays
      <3> QED BY <1>u, <3>1, <3>2 DEF Fit, HasRead
    <2> QED BY <2>1 DEF TasksInv
  <1>1. CASE Tick
    <2>1. /\ now < MaxTime /\ now' = now + 1
          /\ UNCHANGED <<local_timestamp, confirmed, election_time, wavered, stats_hourly,
                         cron_hour, tasks, early>>
      BY <1>1 DEF Tick, blockVars
    <2>2. now' \in 0..MaxTime /\ \A b \in Block : -1 <= local_timestamp[b] /\ local_timestamp[b] <= now'
      BY <1>a, <1>b, <2>1, Bounds DEF TypeOK
    <2>3. TypeOK' BY <1>a, <2>1, <2>2 DEF TypeOK, Known
    <2> QED BY <1>e, <1>u, <2>1, <2>3 DEF IInv
  <1>2. ASSUME NEW b \in Block, NEW t \in (now - MaxDelay)..now, NEW e \in BOOLEAN, Confirmed(b, t, e)
        PROVE  IInv'
    <2>1. /\ t \in 0..now /\ local_timestamp' = [local_timestamp EXCEPT ![b] = t]
          /\ confirmed' = confirmed \cup {b} /\ election_time' \subseteq Block
          /\ UNCHANGED <<now, stats_hourly, cron_hour, tasks, early, wavered>>
      BY <1>2, <1>b DEF Confirmed
    <2>2. t \in Int /\ 0 <= t /\ t <= now BY <1>b, <2>1
    <2>3. Known' = Known \cup {b} BY <1>b, <2>1, <2>2 DEF Known, NotSaved
    <2>4. /\ confirmed' \subseteq Known' /\ wavered \subseteq Known'
          /\ Known' \ confirmed' \subseteq wavered
      BY <1>b, <2>1, <2>3
    <2>5. TypeOK' BY <1>a, <2>1, <2>2, <2>4 DEF TypeOK
    <2> QED BY <1>e, <1>u, <2>1, <2>5 DEF IInv
  <1>3. ASSUME NEW b \in Block, ElectionSaved(b) PROVE IInv'
    <2>1. TypeOK' BY <1>3, <1>a DEF ElectionSaved, TypeOK, Known
    <2> QED BY <1>3, <1>e, <1>u, <2>1 DEF ElectionSaved, IInv
  <1>w. ASSUME NEW b \in Block, Unconfirmed(b) \/ ConfirmedAgain(b) PROVE IInv'
    <2>1. /\ b \in Known /\ b \in wavered' /\ confirmed' \ {b} = confirmed \ {b}
          /\ wavered' = wavered \cup {b}
          /\ UNCHANGED <<now, local_timestamp, election_time, stats_hourly, cron_hour, tasks, early>>
      BY <1>b, <1>w DEF Unconfirmed, ConfirmedAgain
    <2>2. Known' = Known BY <2>1 DEF Known
    <2>3. /\ confirmed' \subseteq Known' /\ wavered' \subseteq Known'
          /\ Known' \ confirmed' \subseteq wavered'
      BY <1>b, <2>1, <2>2
    <2>4. TypeOK' BY <1>a, <2>1, <2>3 DEF TypeOK
    <2> QED BY <1>e, <1>u, <2>1, <2>4 DEF IInv
  \* A script goes on, and nothing else happens.
  <1>g. ASSUME NEW r \in Rollup, NEW t \in Task \cup {Idle}, tasks' = [tasks EXCEPT ![r] = t],
               t # Idle => Fit(r, t), cron_hour' \in Nat,
               UNCHANGED <<now, blockVars, stats_hourly, early>>
        PROVE  IInv'
    <2>1. TasksInv' /\ tasks' \in [Rollup -> Task \cup {Idle}] BY <1>g, <1>s
    <2>2. TypeOK' BY <1>a, <1>g, <2>1 DEF TypeOK, blockVars, Known
    <2> QED BY <1>e, <1>g, <2>1, <2>2 DEF IInv
  <1>h. ASSUME NEW r \in Rollup, NEW h \in Hour, NEW force \in BOOLEAN, r = "cron" => Closed(h)
        PROVE  Started(h, force) \in Task /\ Fit(r, Started(h, force))
    <2>1. Started(h, force) \in Task BY Columns DEF Started, Task
    <2>2. /\ Started(h, force).pc = "check" /\ Started(h, force).hour = h
          /\ Started(h, force).row["confirmations_count"] = {}
      BY Columns DEF Started
    <2> QED BY <1>h, <2>1, <2>2 DEF Fit, HasRead
  <1>4. CASE CronStart
    <2>1. /\ now % HOUR = RollupDelay /\ HourOf(now) > cron_hour /\ cron_hour' = HourOf(now)
          /\ tasks' = [tasks EXCEPT !["cron"] = Started(CronHour, FALSE)]
          /\ UNCHANGED <<now, blockVars, stats_hourly, early>>
      BY <1>4 DEF CronStart, CronDue
    <2>2. now \in Nat /\ now <= MaxTime BY <1>b, Bounds
    <2>3. /\ HourOf(now) \in Nat /\ HourOf(now) \in Hour
          /\ now = HourOf(now) * HOUR + RollupDelay
      <3>1. /\ HourOf(now) \in Nat /\ HourOf(now) \in Hour
            /\ RollupDelay = now - HourOf(now) * HOUR
        BY <2>1, <2>2, HourOfFacts
      <3>2. HourOf(now) * HOUR \in Nat BY <3>1, Bounds
      <3> QED BY <2>2, <3>1, <3>2
    <2>4. CronHour \in Hour /\ CronHour \in Nat /\ CronHour + 1 = HourOf(now)
      BY <1>b, <2>1, <2>3, Bounds DEF CronHour, Hour
    <2>5. Closed(CronHour) BY <2>3, <2>4, Bounds DEF Closed, Settled
    <2>6. Started(CronHour, FALSE) \in Task /\ Fit("cron", Started(CronHour, FALSE))
      BY <1>h, <2>4, <2>5 DEF Rollup
    <2> QED BY <1>g, <2>1, <2>3, <2>6 DEF Rollup
  <1>5. ASSUME NEW hour \in Hour, NEW force \in BOOLEAN, OperatorStart(hour, force) PROVE IInv'
    <2>1. /\ tasks' = [tasks EXCEPT !["operator"] = Started(hour, force)]
          /\ UNCHANGED <<now, blockVars, stats_hourly, cron_hour, early>>
      BY <1>5 DEF OperatorStart
    <2>2. Started(hour, force) \in Task /\ Fit("operator", Started(hour, force))
      BY <1>h DEF Rollup
    <2> QED BY <1>b, <1>g, <2>1, <2>2 DEF Rollup
  <1>6. ASSUME NEW r \in Rollup, CheckProcessed(r) PROVE IInv'
    <2> DEFINE t == IF ~tasks[r].force /\ stats_hourly[tasks[r].hour] # NoRow THEN Idle
                    ELSE [tasks[r] EXCEPT !.pc = "query", !.todo = Query]
    <2>1. /\ tasks[r].pc = "check" /\ tasks' = [tasks EXCEPT ![r] = t]
          /\ UNCHANGED <<now, blockVars, stats_hourly, cron_hour, early>>
      BY <1>6, <1>b DEF CheckProcessed
    <2>2. tasks[r] # Idle BY <2>1 DEF Idle
    <2>3. tasks[r] \in Task /\ Fit(r, tasks[r]) BY <1>a, <1>t, <2>2 DEF TasksInv
    <2>4. t \in Task \cup {Idle} /\ (t # Idle => Fit(r, t))
      <3> DEFINE u == [tasks[r] EXCEPT !.pc = "query", !.todo = Query]
      <3>1. u \in Task BY <2>3 DEF Task
      <3>2. /\ u.pc = "query" /\ u.todo = Query /\ u.hour = tasks[r].hour
            /\ u.row = tasks[r].row
        BY <2>3 DEF Task
      <3>3. HasRead(u) = {} BY <3>2 DEF HasRead
      <3>4. Fit(r, u) BY <2>3, <3>2, <3>3 DEF Fit
      <3> QED BY <3>1, <3>4
    <2> HIDE DEF t
    <2> QED BY <1>b, <1>g, <2>1, <2>4
  <1>7. ASSUME NEW r \in Rollup, NEW q \in Query, QueryReturns(r, q) PROVE IInv'
    <2> DEFINE todo == tasks[r].todo \ {q}
               h    == tasks[r].hour
               row  == [tasks[r].row EXCEPT ![q] = QueryResult(q, h)]
               soon == tasks[r].early \/ TooEarly(r, h)
               u == [tasks[r] EXCEPT !.pc = IF todo = {} THEN "db" ELSE "query",
                                     !.todo = todo, !.row = row, !.early = soon]
               t == IF todo = {} /\ row.confirmations_count = {} THEN Idle ELSE u
    <2>1. /\ tasks[r].pc = "query" /\ tasks' = [tasks EXCEPT ![r] = t]
          /\ UNCHANGED <<now, blockVars, stats_hourly, cron_hour, early>>
      <3>1. tasks[r].pc = "query" /\ UNCHANGED <<now, blockVars, stats_hourly, cron_hour, early>>
        BY <1>7 DEF QueryReturns
      <3>2. tasks' = [tasks EXCEPT ![r] = t] BY <1>7, Zenon DEF QueryReturns
      <3> QED BY <3>1, <3>2
    <2>2. tasks[r] # Idle BY <2>1 DEF Idle
    <2>3. tasks[r] \in Task /\ Fit(r, tasks[r]) BY <1>a, <1>t, <2>2 DEF TasksInv
    <2>h. h \in Hour BY <2>3 DEF Task
    <2>4. QueryResult(q, h) \subseteq KnownOf(h) /\ KnownOf(h) \subseteq Block
      BY <1>a, <2>h, HourRowsFacts DEF QueryResult
    <2>5. /\ row \in Row /\ row[q] = QueryResult(q, h)
          /\ \A p \in Query : p # q => row[p] = tasks[r].row[p]
      <3>1. tasks[r].row \in Row BY <2>3 DEF Task
      <3>2. tasks[r].row \in [Query -> SUBSET Block] BY <3>1, Columns
      <3>3. row \in [Query -> SUBSET Block] BY <2>4, <3>2
      <3>4. row \in Row BY <2>4, <3>1, Columns DEF Row
      <3> QED BY <3>2, <3>4
    <2>6. todo \subseteq Query /\ \A p \in Query \ todo : p = q \/ p \in Query \ tasks[r].todo
      BY <2>3 DEF Task
    <2>7. row["confirmations_count"] \subseteq KnownOf(h)
      BY <2>3, <2>4, <2>5, Columns DEF Fit
    <2>8. r = "cron" => Closed(h) BY <2>3 DEF Fit
    <2>9. ~soon => ~tasks[r].early /\ Closed(h)
      <3>1. ASSUME ~TooEarly(r, h) PROVE Closed(h)
        <4>1. /\ now \in Int /\ h \in Int /\ (h + 1) * HOUR + MaxDelay \in Int
              /\ r \in {"cron", "operator"}
          <5>1. \A k \in Hour : k \in Int /\ (k + 1) * HOUR + MaxDelay \in Int BY Bounds
          <5>2. now \in Int BY <1>b, Bounds
          <5> QED BY <2>h, <5>1, <5>2 DEF Rollup
        <4> QED BY <2>8, <3>1, <4>1 DEF TooEarly, Closed
      <3> QED BY <3>1, Zenon
    <2>10. soon \in BOOLEAN BY <2>3 DEF Task, TooEarly
    <2> HIDE DEF row, todo, soon
    <2>11. /\ u \in Task /\ u.hour = h /\ u.todo = todo /\ u.row = row /\ u.early = soon
           /\ u.pc = IF todo = {} THEN "db" ELSE "query"
      BY <2>3, <2>5, <2>6, <2>10 DEF Task
    <2>12. HasRead(u) \subseteq Query \ todo BY <2>6, <2>11 DEF HasRead
    <2>13. ASSUME ~soon, ~Wavered(h), NEW p \in Query \ todo PROVE row[p] = QueryResult(p, h)
      BY <2>1, <2>3, <2>5, <2>6, <2>9, <2>13 DEF Fit, HasRead
    <2> HIDE DEF u
    <2>14. t \in Task \cup {Idle} /\ (t # Idle => Fit(r, t))
      <3>1. ASSUME t # Idle PROVE t = u /\ (todo = {} => row["confirmations_count"] # {})
        BY <3>1
      <3>2. ASSUME t # Idle PROVE Fit(r, u)
        <4>1. u.pc = "db" => row["confirmations_count"] # {} BY <2>11, <3>1, <3>2
        <4> QED BY <2>7, <2>8, <2>9, <2>11, <2>12, <2>13, <4>1 DEF Fit
      <3> QED BY <2>11, <3>1, <3>2
    <2> HIDE DEF t
    <2> QED BY <1>b, <1>g, <2>1, <2>14
  <1>8. ASSUME NEW r \in Rollup, UpsertHourStats(r) PROVE IInv'
    <2> DEFINE h == tasks[r].hour
    <2>1. /\ tasks[r].pc = "db" /\ stats_hourly' = [stats_hourly EXCEPT ![h] = tasks[r].row]
          /\ early' = IF tasks[r].early THEN early \cup {h} ELSE early \ {h}
          /\ tasks' = [tasks EXCEPT ![r] = Idle]
          /\ UNCHANGED <<now, blockVars, cron_hour>>
      BY <1>8 DEF UpsertHourStats
    <2>2. tasks[r] # Idle BY <2>1 DEF Idle
    <2>3. /\ tasks[r] \in Task /\ Fit(r, tasks[r]) /\ h \in Hour /\ tasks[r].row \in Row
      BY <1>a, <1>t, <2>2 DEF TasksInv
    <2>4. stats_hourly' \in [Hour -> Row] /\ early' \subseteq Hour BY <1>b, <2>1, <2>3
    <2>5. TasksInv' /\ tasks' \in [Rollup -> Task \cup {Idle}] BY <1>s, <2>1
    <2>6. TypeOK' BY <1>a, <2>1, <2>4, <2>5 DEF TypeOK, blockVars, Known
    <2>7. HasRead(tasks[r]) = Query /\ tasks[r].row["confirmations_count"] # {}
      BY <2>1, <2>3 DEF HasRead, Fit
    <2>8. RowsInv'
      <3>1. ASSUME NEW k \in Hour, stats_hourly'[k] # NoRow
            PROVE  /\ stats_hourly'[k]["confirmations_count"] # {}
                   /\ k \notin early' /\ ~Wavered(k) =>
                        Closed(k) /\ \A q \in Query : stats_hourly'[k][q] = QueryResult(q, k)
        <4>1. CASE k = h
          <5>1. stats_hourly'[k] = tasks[r].row BY <1>b, <2>1, <4>1
          <5>2. ASSUME k \notin early', ~Wavered(k)
                PROVE  Closed(k) /\ \A q \in Query : tasks[r].row[q] = QueryResult(q, k)
            <6>1. ~tasks[r].early BY <2>1, <4>1, <5>2
            <6> QED BY <2>3, <2>7, <4>1, <5>2, <6>1, Columns DEF Fit
          <5> QED BY <2>7, <5>1, <5>2
        <4>2. CASE k # h
          <5>1. stats_hourly'[k] = stats_hourly[k] /\ (k \notin early' => k \notin early)
            BY <1>b, <2>1, <4>2
          <5> QED BY <1>a, <3>1, <5>1 DEF RowsInv
        <4> QED BY <4>1, <4>2
      <3>2. ASSUME NEW k \in Hour, stats_hourly'[k] # NoRow, k \notin early', ~Wavered(k)'
            PROVE  Closed(k)' /\ \A q \in Query : stats_hourly'[k][q] = QueryResult(q, k)'
        <4>1. PICK row \in Row : row = stats_hourly'[k] BY <2>4
        <4>2. ~Wavered(k) => Closed(k) /\ \A q \in Query : row[q] = QueryResult(q, k)
          BY <3>1, <3>2, <4>1
        <4>3. ~Wavered(k)' => Closed(k)' /\ \A q \in Query : row[q] = QueryResult(q, k)'
          BY <1>a, <4>2, RowsStay
        <4> QED BY <3>2, <4>1, <4>3
      <3> QED BY <3>1, <3>2 DEF RowsInv
    <2> QED BY <2>5, <2>6, <2>8 DEF IInv
  <1>9. ASSUME NEW r \in Rollup, RollupFails(r) PROVE IInv'
    BY <1>9, <1>b, <1>g DEF RollupFails
  <1>10. CASE UNCHANGED vars
    BY <1>10, <1>a, <1>e, <1>u DEF vars, blockVars, IInv, TypeOK, Known
  <1> QED
    BY <1>1, <1>2, <1>3, <1>w, <1>4, <1>5, <1>6, <1>7, <1>8, <1>9, <1>10
    DEF Next, RollupStep, Stopped

\* Every reachable state satisfies the inductive invariant.
THEOREM Invariance == Settled => (Spec => []IInv)
  <1> SUFFICES ASSUME Settled PROVE Spec => []IInv OBVIOUS
  <1>1. IInv /\ [Next]_vars => IInv' BY NextIInv
  <1> QED BY <1>1, InitIInv, PTL DEF Spec

\* A row is complete when it is written, and no block of its hour turns up later,
\* unless an operator's run had read the hour too early, or a block wavered.
THEOREM Complete == Settled => (Spec => []RowsAreComplete)
  <1>1. IInv => RowsAreComplete
    <2> SUFFICES ASSUME IInv, NEW h \in Hour \ early, stats_hourly[h] # NoRow, ~Wavered(h)
                 PROVE  /\ stats_hourly[h].confirmations_count = HourRows(h)
                        /\ stats_hourly[h].confirmations_without_election_time
                              = HourRows(h) \ election_time
      BY DEF RowsAreComplete
    <2> QED BY Columns DEF IInv, RowsInv, QueryResult
  <1> QED BY <1>1, Invariance, PTL

------------------------------------------------------------------------------
(* The table of HourlyTable. *)

LEMMA InitImplements == Init => Table!TableInit
  <1>1. \A h \in Hour : NoRow.confirmations_count = {} BY DEF NoRow
  <1> QED BY <1>1 DEF Init, Table!TableInit, Table!Hour, Hour, Table!NotSaved, NotSaved

\* Every step of the importers, of time and of the scripts is one of the table's,
\* or leaves what readers see as it is.
LEMMA NextImplements ==
  ASSUME IInv, [Next]_vars
  PROVE  [Table!TimePasses \/ Table!TableStep]_(Table!tableVars)
  <1> DEFINE stored == [h \in Hour |-> stats_hourly[h].confirmations_count]
  <1>a. TypeOK /\ TasksInv /\ RowsInv BY DEF IInv
  <1>b. /\ Table!Known = Known /\ Table!Hour = Hour
        /\ \A h \in Hour : Table!KnownOf(h) = KnownOf(h)
        /\ \A h \in Hour : Table!HourRows(h) = HourRows(h) /\ (Table!Wavered(h) <=> Wavered(h))
    <2>1. Table!Known = Known /\ Table!Hour = Hour
      BY DEF Table!Known, Known, Table!NotSaved, NotSaved, Table!Hour, Hour
    <2>2. \A h \in Hour : Table!KnownOf(h) = KnownOf(h)
      BY <2>1 DEF Table!KnownOf, KnownOf, Table!HourOf, HourOf
    <2> QED BY <1>a, <2>1, <2>2, HourRowsFacts DEF Table!HourRows, Table!Wavered
  <1>1. ASSUME UNCHANGED <<now, local_timestamp, confirmed, wavered, stats_hourly, early>>
        PROVE  UNCHANGED Table!tableVars
    BY <1>1 DEF Table!tableVars
  <1>2. CASE Tick
    <2>1. Table!TimePasses BY <1>2 DEF Tick, blockVars, Table!TimePasses
    <2> QED BY <2>1
  <1>3. ASSUME NEW b \in Block, NEW t \in (now - MaxDelay)..now, NEW e \in BOOLEAN, Confirmed(b, t, e)
        PROVE  Table!TableStep
    <2>1. Table!Confirmed(b, t) BY <1>3, <1>b DEF Confirmed, Table!Confirmed
    <2> QED BY <2>1 DEF Table!TableStep, Table!Promised, Table!Voids
  <1>4. ASSUME NEW b \in Block, Unconfirmed(b) \/ ConfirmedAgain(b) PROVE Table!TableStep
    <2>1. Table!Unconfirmed(b) \/ Table!ConfirmedAgain(b)
      BY <1>4, <1>b DEF Unconfirmed, Table!Unconfirmed, ConfirmedAgain, Table!ConfirmedAgain
    <2> QED BY <2>1 DEF Table!TableStep, Table!Promised, Table!Voids
  <1>5. ASSUME NEW r \in Rollup, UpsertHourStats(r)
        PROVE  Table!TableStep \/ UNCHANGED Table!tableVars
    <2>1. tasks[r].pc = "db" /\ UNCHANGED <<now, local_timestamp, confirmed, wavered>>
      BY <1>5 DEF UpsertHourStats, blockVars
    <2>2. tasks[r] # Idle BY <2>1 DEF Idle
    <2>3. tasks[r] \in Task /\ Fit(r, tasks[r]) BY <1>a, <2>2 DEF TypeOK, TasksInv
    <2> PICK h \in Hour : tasks[r].hour = h BY <2>3 DEF Task
    <2>4. /\ stats_hourly' = [stats_hourly EXCEPT ![h] = tasks[r].row]
          /\ early' = IF tasks[r].early THEN early \cup {h} ELSE early \ {h}
      BY <1>5 DEF UpsertHourStats
    <2> DEFINE some == tasks[r].row["confirmations_count"]
    <2>5. /\ some # {} /\ some \subseteq KnownOf(h)
          /\ ~tasks[r].early /\ ~Wavered(h) => Closed(h) /\ some = HourRows(h)
      BY <2>1, <2>3, Columns DEF Fit, HasRead, QueryResult
    <2>6. stored' = [stored EXCEPT ![h] = some] BY <1>a, <2>4 DEF TypeOK
    <2>7. CASE tasks[r].early \/ Wavered(h)
      <3>1. some \in (SUBSET Table!KnownOf(h)) \ {{}}
        <4>1. some \in SUBSET KnownOf(h) BY <2>5
        <4> HIDE DEF some
        <4> QED BY <1>b, <2>5, <4>1
      <3>2. early' = early \cup {h} \/ (Table!Wavered(h) /\ early' = early \ {h})
        BY <1>b, <2>4, <2>7
      <3>3. Table!VoidRowWritten(h) BY <2>1, <2>6, <3>1, <3>2 DEF Table!VoidRowWritten
      <3> QED BY <1>b, <3>3 DEF Table!TableStep, Table!Promised, Table!Voids
    <2>8. CASE ~tasks[r].early /\ ~Wavered(h) /\ (stats_hourly[h] = NoRow \/ h \in early)
      <3>1. stored[h] = {} \/ h \in early BY <2>8 DEF NoRow
      <3>2. Table!RowWritten(h)
        BY <1>b, <2>1, <2>4, <2>5, <2>6, <2>8, <3>1 DEF Table!RowWritten, Closed
      <3> QED BY <1>b, <3>2 DEF Table!TableStep, Table!Promised, Table!Voids
    <2>9. CASE ~tasks[r].early /\ ~Wavered(h) /\ stats_hourly[h] # NoRow /\ h \notin early
      <3>1. stored[h] = HourRows(h)
        BY <1>a, <2>9, Columns DEF RowsInv, QueryResult
      <3>2. stored' = stored /\ early' = early BY <2>4, <2>5, <2>6, <2>9, <3>1
      <3> QED BY <2>1, <3>2 DEF Table!tableVars
    <2> QED BY <2>7, <2>8, <2>9
  <1>6. CASE /\ ~Tick /\ \A r \in Rollup : ~UpsertHourStats(r)
             /\ \A b \in Block, t \in (now - MaxDelay)..now, e \in BOOLEAN : ~Confirmed(b, t, e)
             /\ \A b \in Block : ~Unconfirmed(b) /\ ~ConfirmedAgain(b)
    <2>1. UNCHANGED <<now, local_timestamp, confirmed, wavered, stats_hourly, early>>
      BY <1>6 DEF Next, vars, blockVars, ElectionSaved, CronStart, OperatorStart, RollupStep,
         CheckProcessed, QueryReturns, RollupFails, Stopped
    <2> QED BY <1>1, <2>1
  <1> QED BY <1>2, <1>3, <1>4, <1>5, <1>6

\* Readers see each row appear at once, complete, and never change, but for the
\* hours on record as read too early or with a block that wavered.
THEOREM TableImplemented == Settled => (Spec => ImplementsTable)
  <1> SUFFICES ASSUME Settled PROVE Spec => ImplementsTable OBVIOUS
  <1>1. IInv /\ [Next]_vars => [Table!TimePasses \/ Table!TableStep]_(Table!tableVars)
    BY NextImplements
  <1>2. Spec => []IInv BY Invariance
  <1> QED BY <1>1, <1>2, InitImplements, PTL DEF Spec, ImplementsTable, Table!TableSpec
==============================================================================
