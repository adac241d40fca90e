# A formal model of nanodb

nanodb keeps a PostgreSQL (or MySQL) database up to date with the ledger of a
Nano node and serves it over HTTP. This directory holds TLA+ modules of its
core, the TLC configurations that check them on small instances, and proofs
checked by TLAPS.

Sections: [the system](#the-system) · [the modules](#the-modules) ·
[the runs](#the-runs) · [bounds](#bounds) · [fairness](#fairness) ·
[proofs](#proofs) · [what the runs found](#what-the-runs-found) ·
[limits of the model](#limits-of-the-model) · [plan](#plan).

## The system

| component | source | state | operations |
|---|---|---|---|
| websocket importer, confirmation pipeline | `scripts/import-websocket.mjs` 142-225, 254-306 | `blocks_queue`, `election_info_queue`, the chains of `save_blocks` timers; the table `blocks` | `onopen`, `onclose`, `onmessage`, `save_blocks` |
| websocket importer, backfill | same file, 37-105 | `account_update_queue` (serial), the running job's locals; the table `blocks` | `update_account` |
| websocket importer, scan | same file, 308-385 | `scan_cursor_account`, `last_full_scan_time`, the page in hand | `scan_accounts` |
| websocket importer, frontiers | same file, 227-252 | `frontiers_queue`, the chains of `save_frontiers` timers; the table `accounts` | `save_frontiers` |
| RPC client | `common.mjs` | none | `rpc_request`, `getLedger`, `getChain`, `getBlocksInfo`, `getAccountInfo`, the two formatters |
| RPC importer | `scripts/import-from-rpc.mjs` | the page, the cursor, attempts, the batch; the tables `blocks` and `accounts` | `main`, `processAccountBlocks` |
| hourly rollup, stats API | `scripts/rollup-hourly.mjs`, `api/routes/stats.mjs` | the table `stats_hourly`; `is_calculating_stats`, the cached answer | `process_hour`, `backfill_hours`; `calculate_stats`, its timer, `GET /stats` |
| API cache, routes | `api/cache.mjs`, `api/routes/` | a cache of answers by key; the handlers in flight | for each of fifteen routes: checks, key, look-up, queries, `set` |
| daily rollup, balance distribution | `scripts/rollup-daily.mjs`, `scripts/rollup-daily-balance-distribution.mjs` | the table `rollup_daily`; the counters and page offset; the `BigMap` of balances | `main`, `get_daily_stats`; `rollup_daily_balance_distribution`, `BigMap` |
| frontiers rollup, blocks summary | `scripts/rollup-frontiers.mjs`, `blocks-summary.mjs` | summary tables | one pass |
| votes importer | `scripts/import-votes.mjs` | the buffer `votes` | `onmessage`, `save` |
| database verifier | `scripts/verify-mysql.mjs` | index, missing hashes | a walk over the accounts' chains |
| LMDB and Parquet exports | `scripts/*.py` | cursors, batches | bulk loads |
| price importer, job reports, lock file check, snapshot | small scripts | none | one request each |
| process manager | `server.pm2.config.js` | the running process | restart |

How they interact. The node's websocket calls `onmessage`, which only fills
queues. Timers drain the queues: `save_blocks` asks the node over RPC for the
queued hashes and upserts rows of `blocks`, `save_frontiers` does the same for
`accounts`. `scan_accounts` pages through the node's ledger and queues jobs for
`update_account`, which upserts rows of `blocks` too, with a different list of
columns. All of them run in one Node.js process and interleave at every `await`;
a rejection that nobody catches (`update_account`, `save_frontiers`) ends the
process and empties every queue, and pm2 starts it again. `import-from-rpc` is a
process of its own, which an operator starts; it writes the same rows. The rollups
and the API read the tables that the importers write. The two daily scripts are
two processes that upsert different columns of one row per day.

What is hard about it: chains of timers multiply with reconnections; local
copies of queues are held across awaits; two writers with different upserts; a
failed statement may have committed; an error answer of the node is not an
exception; a crash loses queues but not the table; the scan's window depends on
how long things take. `PROJECT.json` lists each hazard at its line, with the
properties that cover it.

What makes each part correct:

- *pipeline*: a received confirmation is never forgotten before the table has
  its block, unless the node gave an error answer or the process died; the row
  has the election data; the queues do not grow with what was saved.
- *backfill*: it leaves no gap above its cursor, ends, and brings the table to
  the account's height; it does not erase what `save_blocks` wrote.
- *scan*: no account with missing blocks falls between two scans.
- *hourly rollup*: a row's counts agree and are those of the whole hour; what readers see
  of an hour appears at once and stays.
- *stats API*: no confirmation of the last day is counted twice or skipped, though hours
  end and rows appear meanwhile.
- *frontiers*: a row that is behind the node is about to be refreshed.
- *RPC importer*: what it passes over is only what a failed call made it pass over;
  an account that it calls finished is complete; no account is lost between pages.
- *daily scripts*: a row says what one query over the day, or over the past, would
  say, as far as pages without an order allow it, though it was computed by changes from
  day to day, and neither script erases the other's half.
- *API cache*: an answer is one for the request, and not older than promised.

## The modules

| module | what it is |
|---|---|
| `BlockRows` | the table `blocks` as sets of keys per column, and the two `INSERT ... ON CONFLICT` statements |
| `BlockIntake` | the abstract promise of the pipeline: at-least-once intake of received hashes |
| `SaveBlocks` | the confirmation pipeline, with any number of `save_blocks` chains |
| `Backfill` | `update_account`, its job queue, a growing ledger and another writer |
| `Importer` | the composition of both over one table and one process: it extends `SaveBlocks` and has an instance of `Backfill` |
| `ScanAccounts` | `scan_accounts` with time |
| `SaveFrontiers` | `save_frontiers`, with any number of chains |
| `HourlyTable` | the abstract promise of the hourly rollup to the readers of `stats_hourly` |
| `HourlyRollup` | `rollup-hourly.mjs`, started by cron and by an operator |
| `StatsApi` | `calculate_stats`, its timer and `GET /stats`, over `HourlyTable` |
| `ImportFromRpc` | `import-from-rpc.mjs`, beside the node and `save_blocks` |
| `BigMap` | the class of that name, as operators on sequences of functions |
| `DailyRollups` | the two daily scripts, started by cron and by an operator, over the importers' rows |
| `ApiCache` | the cached routes of the API and their cache |
| `Backfill_proofs`, `ScanAccounts_proofs`, `SaveFrontiers_proofs`, `ImportFromRpc_proofs`, `HourlyRollup_proofs` | theorems about the module of the same name, with their proofs |
| `Importer_proofs` | those about `SaveBlocks` and `Importer` |
| `Api_proofs` | those about `ApiCache` and `StatsApi` |
| `DailyRollups_proofs` | those about `BigMap` and `DailyRollups` |
| `MC...` | constants for TLC |

Names follow the code. An action is the stretch of a handler from one `await`
to the next; `pc` says which `await` a task is at. Operators whose comment says
`Mutant:` are plausible wrong versions of the operator after them; they are no
part of the specifications and show that the properties can fail.

**SaveBlocks.** `blocks_queue` and `election_info_queue` are sets of hashes
(the node's answer is an object keyed by hash, so order and repetition are
immaterial). `savers[s]` is the s-th chain started by `onopen`, with the local
`hashes` and `rows`. A statement has two steps, its commit and the
acknowledgement, so that `SaveBlocksFails` covers both a statement that did not
commit and one that did. `dropped` is a history variable: the hashes lost to an
error answer or to the death of the process.

**BlockIntake.** `pending`, `saved`, `dropped`: receive; save any set; retire
only what is saved; drop, but on the record. `SaveBlocks` implements it with
`pending` = queued or held by a chain.

**Backfill.** A block is `<<account, height>>`; a chain answer is a segment of
heights. The loop test, the cap of iterations, the batch size, the repeated
cursor block, the string comparison of the counts (`StringLE`) and the upsert
are those of the code. `Scan` and `LiveSave` stand for the other tasks: a job for any
account that misses rows, a row for any block confirmed since the start.

**Importer.** `SaveBlocks` and the instance `Update` of `Backfill` share `blocks`,
`cemented` and the fault counters. The script may start on any table and ledger that a
backfill may find (`ImporterInit`). `UpdateFails` takes the pipeline's queues with it.
`ImporterInv` is the pipeline's invariant without `SavedWithElection`, which does not hold
when another writer saves blocks, and that of the backfill.

**ScanAccounts.** Time is a counter; `Tick` is held back while a scan, a job or
a pause of the process is about to exceed its assumed maximum. A job is one step with
two ends: `UpdateAccount` leaves the table with the blocks up to the job's height,
`UpdateAccountShort` with none or some of them, as after an error object in place of the
blocks (lines 59-67) or a count that did not grow (95-99). `given_up` is history: the
accounts whose job for their last block ended short. Nobody repeats such a job until the
account gets another block. The properties are about all accounts but these and those
below the ledger call's threshold (`Watched`). They hold for `Overlap >= MaxScan` and
`Lookback + Overlap >= MaxScan + MaxCrashes * (MaxScan + MaxJobDelay + MaxDown)`,
that is, `Reach(MaxCrashes)`: each death of the process may take a job with it that a
whole scan, a job's delay and a restart were needed to queue. The run, with one
death, is at equality, and one less breaks it.

**SaveFrontiers.** An account's info is its version number. `lost` and `overwritten`
are history: accounts whose notification led nowhere, and accounts whose row a second
chain replaced by an older one (`Merge`: the upsert compares nothing).

**HourlyRollup.** A count is the set of the blocks counted. A confirmed row comes
into the table up to `MaxDelay` after its `local_timestamp`, with its election data
or ahead of them, and a backfill may turn it unconfirmed and back (`Unconfirmed`,
`ConfirmedAgain`). Of the six queries there are the two whose results must agree; they
return in any order while the importers write. Cron's run and the operator's are two
tasks (`tasks`); the operator may start any hour at any time, also one that runs or that
has just ended. Three variables are history: `missed`, the hours whose run by cron failed;
`early`, the hours whose row comes from an operator's run that read before all of the
hour's blocks were there (`TooEarly`); `wavered`, the blocks that turned unconfirmed.
`RowsAreComplete` has the last two as exceptions.

**HourlyTable.** `stored[h]` is the set counted by the row of hour `h`: it appears
when the hour has settled, is the set of all the hour's confirmed blocks, and stays
(`Promised`). `Voids` are the steps that break this promise, on the record: a block turns
unconfirmed, or a row that counts some blocks of its hour is written too early or for an
hour whose block wavered. `HourlyRollup` implements it; `StatsApi` extends it, so that its
readers see any table of this kind, that of failed runs (no row) included.

**StatsApi.** `calc` is the running calculation with the time it read at its start;
its two queries return in any order, with time passing in between. `stats_cache` is the
entry with its expiry, `EntryValid` whether it is still there. `due` and `waiting` are
history: all confirmed blocks of the last 24 hours when the calculation starts, and those
whose hour had no row, or a void one (`Doubtful`), when the rows were read. `due` does not
use the code's bounds: that the hour in which the day begins is left out whole
(`hour_timestamp >= one_day_ago`, line 108) is an exception that `NothingSkipped` names. A
failure of the timer's calculation is a rejection nobody catches: it ends the process, and
pm2 starts it again. The module assumes of its constants that the entry lives no shorter
than the interval and that a day has an hour, as in the code.

**ImportFromRpc.** An account is its number in the ledger, a block `<<account,
height>>`. `task` has the local variables of `processAccountBlocks`, and `pc` what it
waits for; `todo` is what is left of the page. Every call may answer, answer with an
error object, or fail; the actions differ as the code does (`ChainFails` keeps the
cursor, `BlocksInfoFails` comes when it has moved, `BlocksInfoError` throws at
`blockInserts[-1]`). `lost` and `processed` are history. The upsert of one account at
lines 89-96 is a query that is built and not awaited, so that it never runs: it is no
action. A page may be empty; `skip` leaves out its first account, if there is one. The
script may find any of the tables `InitRows`: it may have been run before, and the
websocket importer writes the same rows.

**BigMap.** A map is a sequence of functions. `Set` looks for the key in all of them
and adds to the last or to a new one. `Contents` is the map that it stands for,
`Occurrences` how often `forEach` meets a key whose value is in a set.

**DailyRollups.** A block gets a time stamp. The pages of a day are read by `limit` and
`offset` without an order, so that `ReadPage` returns any rows of the day, as many as are
left after the cursor (`Returned`), whatever other pages had. `daily` and `distribution`
hold the running script of cron and of the operator, who may ask for a number of days, for
all of them, or give a first and a last day; the result of a query of balances is the
function `todo`, and each of its rows is one call of `BigMap`'s `set` (`SetBalance`), in any
order, as the query has none. `unread` is history: the days of which the last writer cannot
have seen every block, because one came after its last query. `Activity` and `Distribution`
are what the code counts, `Complete` what a single query would. For the days that are not
in `unread`, `ActivityIsExact` says that the number of blocks is right, whatever the pages
returned, and that all counters are if the day's blocks fit in a page.

**ApiCache.** The handlers differ only in the table of `Route`s: parameters, those in
the key, those checked, the entry's time, whether empty results are kept, the number
of queries. `route` is one of them and stays; the keys of different routes are
different, so that they share nothing. `asked` is a request and one that differs in a
parameter, or the two requests of `accounts` whose keys coincide: the key is a path
(`AccountsPath`, `TagsPath`), in which an account given as `tags/x` reads like the tag `x`.
The path's other parts are at its end, and the keys of the other routes separate their
parameters by texts that these cannot hold. A request with accounts that is not answered
from the cache is answered with an error, because the query's `account` is ambiguous between
the two tables that it joins (`Ambiguous`). `cache_ttl` depends on the period where the code
makes it so (`blocks/confirmed.mjs:36`). The database is a version number that each write raises; `age` is the time
since a result's first read. The names of its specification (`CacheSpec`,
`CacheNext`, ...) differ from those of `StatsApi`, so that one module can speak of both.

## The runs

| run | shows |
|---|---|
| `MCSaveBlocks` | `SavedWithElection`, `NoInfoLeak`, the inductive invariant `IInv` (with types and `SingleOwner`), `ImplementsIntake`, with two chains, faults and a crash |
| `MCBackfill` | its inductive invariant `IInv`, `NoGapAboveCursor`, `ConfirmedIsCemented`, with a growing ledger, a concurrent writer, faults, a crash; and that every job ends (the queue is serial) |
| `MCBackfillGap` | *violation*: without any fault, an account whose rows grow from 8 to 10 is taken for stalled, and no later job reaches the gap below |
| `MCImporter` | both writers together: intake, `ElectionKept`, who may turn a row unconfirmed; a queued hash gets its row with the election data unless it is on record as dropped |
| `MCScanAccounts` | its inductive invariant `IInv`, `NoneOutOfSight` under the assumptions on durations; every missing block is found, but for accounts whose last job ended short |
| `MCSaveFrontiers` | its inductive invariant `IInv`, `StaleIsPending` and `UpToDate` with two chains, with the exceptions `lost` and `overwritten` |
| `MCHourlyRollup` | `RowsAreComplete` when blocks are saved by the time cron starts, whatever cron and an operator do at once and however early, with the exceptions `early` and `wavered`; every hour is rolled up unless its run failed; `ImplementsTable` |
| `MCStatsApi` | `CountedOnce`, `NothingSkipped` while hours end and void rows appear between the queries; `CacheOrCalculating`; every calculation releases its flag |
| `MCImportFromRpc` | its inductive invariant `IInv`, `NoGapAboveCursor`, `FinishedMeansComplete`, `EveryAccountVisited`, `ElectionKept`, for every mode of the command line, an empty and a filled table and any number of failures; the script ends, with the exception below |
| `MCImportFromRpcAll` | *violation*: with `all_blocks`, an account of which only the open block is confirmed is finished without a batch |
| `MCDailyRollups` | `ActivityIsExact` with pages of any rows, `DistributionIsExact` with several `Map`s, both with late rows; `HalvesAreKept`, `RowsBecomeWhole` of the row that both scripts write |
| `MCApiCache` | `AnswersTheRequest`, with the two exceptions that the code's keys make, and `StalenessIsBounded` for all fifteen routes, with overtaking handlers, failures, restarts; `CatchesUp` when writes stop |

Each property of a passing run is paired in `PROJECT.json` with a mutant of the
code that breaks it.

## Bounds

- *SaveBlocks*: three hashes, so that they can be queued, held by one chain and
  held by the other at the same time; two chains; two faults, so that a retry can
  fail again; one crash.
- *Backfill*: batches of two blocks (1000 in the code) over chains of up to four,
  so that a job has three batches, two of which overlap by their repeated block
  and one of which is cut by the start of the chain. Heights start at two and grow
  while jobs wait and run. `MAX_BACKFILL_ITERATIONS` is 3 (500): enough for every
  chain of the model, as 500 is for chains of half a million blocks.
  `MCBackfillGap` needs counts of two digits and therefore eleven blocks.
- *Importer*: an empty table and ledger, one account of two blocks, which is enough for each writer to be
  first, to be in between, and to retry; two chains.
- *ScanAccounts*: pages of two over two accounts, so that a scan has a full page
  and a last one; chains of up to three blocks, so that a job may save one of two; an
  overlap of two units for 15 minutes, a look-back of four for six hours. `MaxTime` (12,
  counted from 6) allows several full scans and a restart: enough for
  `NoneOutOfSight` to fail as soon as `Overlap` or `Lookback` is one less or `MaxScan` one
  more; it takes one more unit of time to fail when `MaxJobDelay` or `MaxDown` is one more.
- *SaveFrontiers*: two accounts, three versions, two chains, two faults, one crash: a
  chain can hold a row while the other reads and merges a newer one of the same account.
- *HourlyRollup*: an hour of two units, of which cron waits one (5 minutes); time up to 3,
  at which cron rolls up the first hour while the second runs, and two runs by an operator,
  who may be early with either and repair what he did; two blocks, which can be of the same
  hour or not; a delay of one, at which cron's row is just in time: with two,
  `RowsAreComplete` fails. `MaxFaults = 1` is one failed run or one block that wavers.
- *StatsApi*: an hour of three units, a day of two hours, an interval of two and a life
  of two, so that calculations fall on every part of an hour and the window's start on
  an hour's start and between two; a calculation may last until the next hour's row is
  due; time up to 7, in which a day passes and blocks fall out of the window. `MaxFaults = 1`
  is one failed query or one step that voids a row. The life (`TTL`) is no shorter than the
  interval, as 420 seconds are than 300: with a shorter one `CacheOrCalculating` fails.
- *ImportFromRpc*: pages of two (200 in the code) over three accounts, so that there is
  a full page, an overlap and a last page; batches of two (1000) over chains of up to
  three, so that a walk has two batches that share a block; one account with its open
  block alone, one with an unconfirmed head, one unconfirmed; `MAX_INFO_RETRIES` is 1
  (5) and `MAX_FAILED_ATTEMPTS` 3 (6), more than the two that end the process at a save;
  an empty table, and one with both ends of the second chain and a gap between them.
  The number of failures is not bounded.
- *DailyRollups*: three blocks of two accounts in four days of one unit; pages of two
  rows, so that a day's blocks may fill a page, overflow it or stay below it; one
  account per `Map` (ten million), so that there are two of them; two ranges and zero.
  `MaxEvents = 1`: one run by an operator, over two days, all days, or from a given day on,
  with or without a last one, or one failure.
- *ApiCache*: two clients, two requests, two writes. The times of entries (one and five
  minutes, fifteen, an hour, twelve hours) are one, two, three and four units, a query
  takes at most one. Ages above `AgeBound` are not told apart; the properties allow none of them.

Counters of faults, crashes and connections are bounds of the model (`MaxFaults`,
`MaxCrashes`, `MaxOpens`); the proofs hold for any of their values (for `MaxCrashes` of
`ScanAccounts`, with the look-back that `LongEnough` asks for). `MaxOpens` is
per process: a crash sets `opens` back.

## Fairness

Weak fairness of what the runtime and the peers owe: an expired timer runs its
function, a received message is handled, a call to the node or to the database is
answered (a failure, where the fault bound still allows it, is an answer too: it
disables the action as well as the reply does), pm2 restarts the process. There is
no fairness of confirmations, disconnections, reconnections, crashes or faults.
`Importer` takes the four steps of `save_blocks` to be fair and nothing else.
`Backfill` takes `Scan` to be fair as well: the violation in `MCBackfillGap` happens although
an account that misses rows is listed again and again. When it is listed at all is the
subject of `ScanAccounts`, where fairness is of the scan's calls, of jobs that end one way
or the other, and of the restart.
`HourlyRollup` and `StatsApi` take time to pass, cron to start the script in its
minute, and a run to end within the hour.
`ImportFromRpc` takes the script's steps to be fair, that is, every call to be
answered, or to fail, in the end. `Ends` has one exception: without `all_blocks` the
loop counts rows, and with a skipped batch, or a start below the frontier, the count
may never be reached; the script then asks for the open block for ever.
`DailyRollups` has no fairness. That rows become whole is a safety property: when a day
ends, the rows that cron owes are there. It rests on `Tick`: cron fires in its
minute, and its run ends before its next (for the failing ones, `missed`).
`ApiCache` takes time to pass and queries to return; nobody has to ask anything.

Deadlock is checked except in the runs of `Backfill`, whose system rests when
every block is appended, confirmed and saved and no counter has room, and of
`ImportFromRpc`, which is a script that ends.

## Proofs

Each theorem holds for every value of the constants that the module's assumption
allows (bounds are natural numbers, pages and batches are larger than one, and so on).
Two sets of theorems need more, as hypotheses: `LongEnough`, on durations, and
`Settled`, on the delay of blocks. Both are satisfiable: the runs meet them, at equality.

| module | theorems | hypotheses |
|---|---|---|
| `Importer_proofs`, of `SaveBlocks` | `Invariance` (`IInv`), `Safety` (types, `SingleOwner`, `SavedWithElection`, `NoInfoLeak`), `NoLeak`, `Refinement` (`ImplementsIntake`) | |
| `Importer_proofs`, of `Importer` | `ImporterInvariance` (`ImporterInv`), `ImporterSafety` (the safety of both parts), `ImporterRefinement` (`ImplementsIntake`), `OnlyBackfill` (`OnlyBackfillUnconfirms`), `Election` (`ElectionKept`) | |
| `Backfill_proofs` | `Invariance`, `NoGap` (`NoGapAboveCursor`), `Confirmed` (`ConfirmedIsCemented`) | |
| `ScanAccounts_proofs` | `Invariance`, `InSight` (`NoneOutOfSight`) | `LongEnough` |
| `SaveFrontiers_proofs` | `Invariance`, `Pending` (`StaleIsPending`), `OneChainKeepsOrder` (`overwritten` stays empty) | for the last, `MaxOpens <= 1` |
| `ImportFromRpc_proofs` | `Invariance`, `NoGap` (`NoGapAboveCursor`), `Finished` (`FinishedMeansComplete`), `Visited` (`EveryAccountVisited`), `Election` (`ElectionKept`) | |
| `HourlyRollup_proofs` | `Invariance`, `Complete` (`RowsAreComplete`), `TableImplemented` (`ImplementsTable`) | `Settled` |
| `Api_proofs`, of `StatsApi` | `Invariance`, `Once` (`CountedOnce`), `Answered` (`CacheOrCalculating`), `Skipped` (`NothingSkipped`) | |
| `Api_proofs`, of `ApiCache` | `CacheInvariance`, `Answers` (`AnswersTheRequest`), `Staleness` (`StalenessIsBounded`) | |
| `DailyRollups_proofs` | `Invariance` (`IInv`), `TypeCorrect` (`TypeOK`), `Activities` (`ActivityIsExact`), `Distributions` (`DistributionIsExact`), `Halves` (`HalvesAreKept`), `WholeRows` (`RowsBecomeWhole`); `OneMap` of `BigMap` | |

All are laid out alike: lemmas on the constants and on the operators, `InitIInv`,
`NextIInv` with one step per action, `Invariance` from the two, and the properties from
it. The inductive invariants of `HourlyRollup`, `StatsApi` and `ApiCache`, which no
reader of these modules needs, are in the proof modules; those, `ImporterInv` and that of
`DailyRollups`, which the runs do not list, TLC found to hold on the runs' instances before
they were proved.

What the assumptions on constants say beyond types: `ImporterAssumption`, that the blocks
are those of the accounts and that the first table has blocks of the first ledger only;
`StatsAssumption`, that the entry outlives the interval and an hour is no longer than a
day; `DailyAssumption`, that the ranges end in one from 0, as `balance_ranges` does, that
heights begin at 1 and are bounded, that the blocks are finitely many, that the operator asks
for at least one day, and that
`first_timestamp` is in the modelled time. The other actions' limits (`MaxQuery`, the
guards of `Tick`) are assumptions on the environment, named where they are made.

**SaveBlocks.** `SavedWithElection` (every saved row has its
election data) is not inductive: an insert writes `rows` built earlier, from a
queue that other chains delete from. It rests on `InfoHeld` (what is queued or held
has its info), which the deletes of `SaveBlocksEnd` preserve only because no other
chain, and not the queue, has the same hash (`SingleOwner`). That in turn needs
`OnlyConfirmed`: a hash on the wire is not yet pending, so a message never brings
a hash that some chain holds. `SaverInv` says what a chain's locals are at each
`await`: nothing held at the timer; rows built of exactly its hashes, confirmed and with their
info, at `db`; the rows in the table at `ack`. `NoInfoLeak` is the converse of
`InfoHeld` and is inductive with the rest.

`NextIInv` has one step per action. Lemmas: `HeldUpdate` and `ChainStep` (what a
change of one chain does to the union of what is held), `OwnersKept` (single
ownership when one chain gives up or takes hashes), `UpsertType`, `EmptyRowsType`,
`RowsForType` (the rows are rows). `Refinement` maps each action to a step of
`BlockIntake`: `SaveBlocksStart` and `SaveBlocksFails` stutter (a hash moves
between the queue and a chain), `InsertCommits` is `Save`, `SaveBlocksEnd` is
`Retire`, which needs `SaverInv`, `ErrorReply` and `Crash` are `Drop`.

**Importer.** The conjunction of the two invariants is inductive, although each part meets
rows that it did not write. The pipeline's part must not say that every row has its election
data; it needs of the others that they take no row away (`OthersKeepPipeline`), and the
backfill's statement only adds rows (`BackfillStepRows`). The backfill needs of the others
that they write confirmed rows only (`OthersKeepUpdateInv`), which `SaverInv` gives: the
rows at `db` are confirmed, and all confirmed by the node (`LiveStepRows`). `PartsStep`
splits a step of the process into a step of either part; the lemmas `UpdateInitIInv` and
`UpdateNextIInv` take the facts about the backfill from `Backfill_proofs`, by way of an
instance. `ImporterRefinement` is the refinement of the pipeline when a backfill saves a
pending block first, which is `Save`, or kills the process, which is `Drop`. `OnlyBackfill`
and `Election` need the invariant for the rows that `save_blocks` holds: they are confirmed
and have their election data, and neither statement removes a key of those columns except
the backfill's for `confirmed`.

**Backfill.** `NoGapAboveCursor` speaks of the rows at the cursor and above, and every
step that moves the cursor relies on where it was: `TaskInv` has it between the first
block and the job's height, and at that height before the first batch. A new batch
shares its first block with what is there, so that two segments join without a gap
(`SegmentSplit`, `LastBelow`). `ConfirmedIsCemented` is inductive only with the rows in
hand: what the node answered as confirmed stays confirmed until it is written. The
loop's test, with its comparison of strings, decides only whether the job goes on
(`LoopCases`): both outcomes keep the invariant, as the finding `MCBackfillGap` is
about what a job never reaches, not about what it passed over.

**ScanAccounts.** `MissingInv` says of a missing block, modified before the scan
began, that its job is queued, or that the scan has still to come to it (`Ahead`). A
scan's end turns the second into the first because a page that leaves an account out
is full and lies before it (`FirstOfFacts`, from the cardinality of the accounts and
the least one that is left out). The death of a process empties the queue: for the
next one to look back far enough, the invariant bounds how old a missing block, and a
queued job, can be, by `Reach(crashes)`. Both inequalities of `LongEnough` are used:
the overlap when a scan starts, the look-back when the process does. Jobs end in time
by `DurationsInv`, which is what `Tick` is held back for. All of it is about `Watched`
accounts: a job that ends short takes its account out of them, and the account's next block
brings it back, younger than the scan that will list it.

**SaveFrontiers.** `StaleIsPending` is inductive when a chain's rows are not newer than
the node's (`RowsInv`) and a chain at its insert has nothing left to ask for
(`ChainInv`). An older row merged over a newer one enters `overwritten`. That this
needs a second chain is `OneChainKeepsOrder`: with one, what it has in hand is at least
as new as the table.

**ImportFromRpc.** `Covered` extends `NoGapAboveCursor` by the batch that is being read:
`chain`, `info`, `save` and `count` each know how far down the walk has the blocks, in
the table, in hand or on record as `lost`. `FinishedMeansComplete` needs in addition
that the number of imported blocks was never above the number of the account's rows:
when it reaches the height, the rows of `1..height` are as many as the heights, so that
none is missing (`SegmentCardinality`, `CountGrows`, `WalkedIsComplete`).
`EveryAccountVisited` rests on `PagesInv`: the accounts up to the next page's first are
walked, in the page or in hand; `PageFacts` is what a page adds to them.
`ElectionKept` is an action property and needs no invariant.

**HourlyRollup.** Once an hour is closed (its end and `MaxDelay` have passed), no step
changes what the queries read of it, unless one of its blocks wavers (`Frozen`). By
`Settled` cron works on closed hours only; an operator may not, and then the task, and
later the row, is on record as early. `Fit` says of a script in its midst, and `RowsInv` of
each row, that what was read still holds, or the hour is early or has a block that wavered;
so what the first query returned is still true when the last one returns and when the
statement commits, whoever else writes the row meanwhile. Without `Settled` this fails for
cron's own rows. `TableImplemented` maps each commit to the table's `RowWritten`, when the
hour has settled and has no row yet or an early one, to `VoidRowWritten`, when the row is
early or a block wavered, or to a stutter, when the same row is written again.

**StatsApi.** The stored query reads rows of hours before the hour of the calculation's
start, the live query reads blocks from that hour on: `CalcOK` keeps both apart by their
times, however late the queries run (`StoredBounds`, `RowBounds`), which is `Once`. For
`Skipped` it keeps what was `due` at the start: an hour that begins within the last day and
before the current hour is among the stored ones, and its row, if it is neither missing nor
void, has all of the hour's blocks (`StoredFacts`). No hypothesis on delays is needed: a
block that comes late is not due, and a row that was too early is `Doubtful`. `Answered`
comes from `FlagInv`: the timer is due no later than the entry expires, and the flag is set
exactly while a calculation runs.

**ApiCache.** `EntriesInv` ties an entry to the key of the request that filled it, and
bounds the sum of its age and the time left to it, which time leaves alone: a handler
that was overtaken stores a result as old as its query, `MaxQuery` at most. `SameKey`
says that two requests with one key, the second of which filled its entry, agree in all
parameters but those that a key forgets, or the first one's accounts are `tags/x`. For the
route of accounts this is about paths (`Paths`): an entry is only ever filled without
accounts, since the query throws otherwise.

**BigMap.** `OneMap`: whatever the size of a `Map`, `set` puts one key in the map that the
sequence stands for (`Contents`). It rests on every key being in one `Map` at most
(`OneMapPerKey`), which `SetFacts` shows to be kept; `get` then finds the value that was
set last. `OccurrencesFacts`: then `forEach` meets each key once, so that the numbers are
those of the contents.

**DailyRollups.** `ActivityIsExact` and `DistributionIsExact` are about what scripts have
written, and each needs what a script in its midst has gathered, whichever runs beside it:

- `ActivityInv`: a script that counts has as many rows as the cursor says, and no more than
  the day has; a page that is not full is the last and brings the number to that of the
  day's rows (`ReturnedFacts`, `PageAdds`, by cardinality). Which rows they are follows only
  when there is one page: then it is all of them. A block that comes while pages are still
  read is counted by a later one; only one that comes after the last page sets `unread`
  (`InsertedFacts`, `ActivityStays`).
- `DistributionInv`: the balances in the `BigMap`, with those still to be set put over them
  (`Pending`), are the last ones at the start of the day that comes next, or at the end of
  the one in hand. That the first query includes the first moment of the day (`<=`,
  line 208) does no harm: at that point the invariant has a set of blocks between the two
  bounds, and the day's changes cover the difference. A day carries them to the next
  because the last block of an account is that of the day, if it has one there
  (`LatestCarried`), which rests on `TimesAscend`: heights are stamped in order.
- `CronInv`: cron has skipped no day, and each day up to its last run's is written, or on
  record as missed, or what the run is about to write. With `Halves`, that no step erases a
  written half, this is `RowsBecomeWhole` when the runs have ended.

`BlocksCounted` and `DayCounted` are the step from what a script has gathered to what its
row says. None of it needs induction over data: counters are cardinalities of sets of rows, balances are
functions, and each page and each `set` is a step of the specification, so that the
induction is over the behaviour.

Only model-checked:

- liveness and fairness, for which the prover has no rules: `JobsEnd`, `AllSaved`,
  `UpToDate`, `HoursRolledUp`, `CalculationsEnd`, `Ends`, `CatchesUp`,
  `ElectionEventuallySaved`;
- the two violations, and the mutants.

## What the runs found

Two runs have `expect` `violation`; `PROJECT.json` quotes the lines.

- `MCBackfillGap`: the stall test compares strings of digits, and a backfill that has
  stopped between two batches is never completed: each later job starts at the
  frontier, inserts rows that are there and stops as stalled. A process that dies after
  the first batch leaves the same gap.
- `MCImportFromRpcAll`: `all_blocks` passes over accounts with one confirmed block.

Other facts that the models show when a constant is changed, or that were met in
writing them. They contradict no line of the repository as plainly, or need no run:

- *stale confirmation.* A backfill asks for a block before it is confirmed and inserts
  after `save_blocks`: the row turns unconfirmed and, with all rows there, no scan
  writes it again. `OnlyBackfillUnconfirms` of `Importer` has exactly this exception.
- *long scans.* `last_full_scan_time` is the time at a scan's end. With
  `MaxScan > Overlap`, `NoneOutOfSight` fails.
- *jobs that end short.* `update_account` takes an error object for an empty batch and
  gives up a count that does not grow; either way its job leaves the queue and, once
  `scan_accounts` has moved its window on, the account is not listed again before its next
  block or a restart within six hours. Without the exception `given_up`, `NoneOutOfSight` and `AllSaved`
  fail. For the same reason nothing in `Importer` says that the block of a missed
  confirmation is saved in the end.
- *late blocks.* An hour that has a row is never rolled up again. With `MaxDelay = 2`
  in `MCHourlyRollup.cfg`, `RowsAreComplete` fails. The daily rows have the same gap:
  `unread`.
- *early operators.* `rollup-hourly.mjs` does the hour it is asked for at once
  (`--hour`, and lines 237-239, 268-273). Started in an hour or in the minutes that cron
  waits, it writes a partial row, which cron then skips (line 211); only a later run with
  `--force` repairs it. A run that read early and commits late may also overwrite the row
  that cron wrote in between. `early` has these hours.
- *wavering blocks.* A row counts a block that a backfill turns unconfirmed afterwards, or
  lacks one that was unconfirmed when it was written: `wavered`.
- *two chains of `save_frontiers`.* After a reconnection two chains read and merge the
  same account, and the older row may be merged last; no later notification corrects it.
  The history variable `overwritten` has exactly these accounts, and without this exception
  `StaleIsPending` and `UpToDate` fail with `MaxOpens = 2`.
- *the first minutes of an hour.* The API counts the previous hour neither as stored
  nor as live (`waiting` in `StatsApi`).
- *the first hour of the day.* When stored hours are used, the confirmations of the last 24
  hours lack those of the hour in which these begin: its row starts before `one_day_ago`.
  On average that is half an hour of them.
- *unordered pages.* `rollup-daily.mjs:66-71` reads a day of more than one page without an
  order: rows may be met twice or never. Only the number of blocks is sure to be right.
- *the default threshold.* `scan_accounts` passes none, so that `getLedger`'s
  (`common.mjs:59`) hides accounts with small balances: their missing blocks are never
  looked for. `BelowThreshold` is an exception of `NoneOutOfSight` and `AllSaved`.
- *counting rows.* Without `all_blocks`, `import-from-rpc` compares the number of all
  rows with the confirmed height: rows of unconfirmed blocks may stop it early
  (the condition `whole` of `FinishedMeansComplete`), a skipped batch keeps it going.
- *keys.* The cache keys of `accounts/index.mjs:53`, `accounts/send.mjs:20` and
  `blocks/send.mjs:23` leave out parameters of the query (`Forgotten`), and a request for
  the account `tags/x` has the key of one for the tag `x` (`accounts/index.mjs:55-61`).
  `AnswersTheRequest` has these exceptions and no other.
- *accounts by name.* `GET /accounts?accounts=...` joins two tables that both have a
  column `account` and filters on that bare name: the query always throws (`Ambiguous`).
- *the first day.* `rollup-daily.mjs --full` ends at a time that is no day's start, and
  stops before the day that has it (`DayBefore`).
- *no retries.* `rpc_request` returns the promise without `await`, so that its `catch`
  never sees a failed request: failures reach the callers at once, as in the models.

## Limits of the model

- The node confirms a block once and notifies each confirmation at most once.
  If it notified a hash again while a chain holds it, `SingleOwner` would not hold.
- A hash that the node has confirmed is in the answer of `blocks_info`; the answer
  for a list of hashes is whole or an error object.
- Columns that the node fixes with the block are functions of the hash.
  `local_timestamp`, which both upserts merge with `LEAST`, is left out of `BlockRows`;
  in the rollups a block has one from its first row on.
- A row counts as having election data or not; the values are those of the one
  election of the block.
- Rollbacks of unconfirmed blocks (forks) are not modelled: a chain only grows.
- `ScanAccounts` has all jobs end in one step, with any of the missing blocks saved, and
  counts rows, not blocks: which ones are missing is the subject of `Backfill`.
- `HourlyRollup` takes the value of `--hour` to be the start of an hour, and a run over
  several hours to be several runs. Cron fires in its minute and ends within the hour.
- `CacheOrCalculating` shows that the calculation in the route is never started, so
  that every request that misses the cache is answered with an empty body; `Request`
  has that calculation all the same.
- `DailyRollups` takes the node to stamp an account's blocks in the order of their
  heights; blocks without a time stamp are left out. A block is one of four kinds:
  legacy and state blocks that the code counts alike are one kind. A date given as an
  option stands for its day in UTC. Sums of amounts and
  balances are left out: they run over the rows and accounts that are counted.
- `ApiCache` takes a query's answer to be a function of the database's version and the
  request, and a result to be empty at version 0 only; it takes no query to last
  longer than `MaxQuery`. `checkperiod` of the cache frees memory and shows nowhere.
- `ImportFromRpc` has the option `hours` as a smaller ledger, and no `delay`.
- Not modelled: the components that `PROJECT.json` lists as such, with the reasons.

Not modelled, and why: the frontiers rollup and the blocks summary are one pass of
reads and upserts each, with no state between two statements. The votes importer
writes a table that the PostgreSQL schema does not have. The database verifier is a
sequential walk for the former MySQL database. The exports, the price importer, the
job reports, the snapshot and the lock file check are batch scripts of one reader or
one request each. `rpc_request`'s retry loop never runs, as said above. The texts of
SQL queries are modelled by what they select where a property depends on it.

## Plan

1. Done: `BlockRows`, `BlockIntake`, `SaveBlocks` and its proofs, `Backfill`,
   `Importer`, `ScanAccounts`, `SaveFrontiers`, `HourlyTable`, `HourlyRollup`,
   `StatsApi`, `ImportFromRpc`, `BigMap`, `DailyRollups`, `ApiCache`.
2. Done: every safety invariant, action property and refinement that a passing run checks
   is a theorem; only liveness is left to TLC.
3. If the project grows: the cursors and batches of the exports; more of the values of rows
   (`local_timestamp`, which both upserts merge with `LEAST`).
