---------------------------- MODULE ScanAccounts ----------------------------
(***************************************************************************)
(* scan_accounts of scripts/import-websocket.mjs: a walk over the accounts *)
(* that the node has modified since some time, which queues a backfill for *)
(* each one with fewer rows in the table than blocks in the ledger.        *)
(*                                                                         *)
(* The walk is told the last full scan's time, less an overlap, so that no *)
(* modification falls between two scans; a process that starts looks back  *)
(* by some hours.  Whether this finds every account depends on how long    *)
(* scans, jobs and pauses of the process take: these durations are the     *)
(* constants Max..., assumptions on the time that may pass (Tick).         *)
(*                                                                         *)
(* Time passes in units of some minutes.  A job is what module Backfill    *)
(* models step by step; here it is one step, with two ends.  It leaves the *)
(* table with as many rows as its height says, or it ends short of that:   *)
(* after an error object in place of the blocks, which inserts nothing, or *)
(* after a count that did not grow.  Nobody repeats such a job.            *)
(***************************************************************************)
EXTENDS Naturals, Sequences, FiniteSets

CONSTANTS
    NumAccounts,
    BelowThreshold,       \* accounts whose balance the ledger call's threshold excludes
    ACCOUNTS_BATCH_SIZE,
    QueueLimit,           \* the scan pauses when more jobs are queued
    Overlap,              \* 15 minutes
    Lookback,             \* 6 hours
    MaxScan,              \* time from the end of one full scan to the end of the next
    MaxJobDelay,          \* time from the queueing of a job to its end
    MaxDown,              \* time from the death of the process to its restart
    MaxHeight, MaxTime, MaxFaults, MaxCrashes   \* bounds

ASSUME ScanAssumption ==
    /\ NumAccounts \in Nat /\ BelowThreshold \subseteq 1..NumAccounts
    /\ ACCOUNTS_BATCH_SIZE \in Nat \ {0, 1}
    /\ {Overlap, Lookback, MaxScan, MaxJobDelay, MaxDown} \subseteq Nat
    /\ MaxHeight \in Nat \ {0} /\ {MaxTime, MaxFaults, MaxCrashes} \subseteq Nat
    /\ Lookback + Overlap <= MaxTime

VARIABLES
    now,
    height, modified,     \* the ledger: number of blocks, time of the last one
    saved,                \* the table: number of rows
    given_up,             \* history: accounts whose job for their last block ended short
    up,                   \* the process runs
    since,                \* when the last full scan ended, or the process came or went
    scan_cursor_account,
    last_full_scan_time,
    page,                 \* the accounts of the ledger's answer still to be counted
    full_page,            \* the answer had ACCOUNTS_BATCH_SIZE accounts
    account_update_queue,
    faults, crashes

process == <<up, since, scan_cursor_account, last_full_scan_time, page, full_page,
             account_update_queue>>
vars == <<now, height, modified, saved, given_up, process, faults, crashes>>

Account == 1..NumAccounts
BURN_ACCOUNT == 0     \* sorts before every account

\* Times are counted from Start, so that no time is negative.
Start == Lookback + Overlap

Init ==
    /\ now = Start
    /\ height = [a \in Account |-> 1]
    /\ modified = [a \in Account |-> 0]
    /\ saved = height
    /\ given_up = {}
    /\ up = TRUE
    /\ since = now
    /\ scan_cursor_account = BURN_ACCOUNT
    /\ last_full_scan_time = now - Lookback
    /\ page = {}
    /\ full_page = FALSE
    /\ account_update_queue = <<>>
    /\ faults = 0
    /\ crashes = 0

------------------------------------------------------------------------------
\* A unit of time passes, unless something is overdue.
Tick ==
    /\ now < MaxTime
    /\ now - since < (IF up THEN MaxScan ELSE MaxDown)
    /\ \A i \in DOMAIN account_update_queue : now - account_update_queue[i].at < MaxJobDelay
    /\ now' = now + 1
    /\ UNCHANGED <<height, modified, saved, given_up, process, faults, crashes>>

\* The node adds a block to the account's chain; its job is still to come.
NodeAppend(a) ==
    /\ height[a] < MaxHeight
    /\ height' = [height EXCEPT ![a] = @ + 1]
    /\ modified' = [modified EXCEPT ![a] = now]
    /\ given_up' = given_up \ {a}
    /\ UNCHANGED <<now, saved, process, faults, crashes>>

------------------------------------------------------------------------------
(* scan_accounts.  Its timers are short: a scan may start at any time. *)

\* Mutant: the ledger is asked for what is newer than the last full scan.
LedgerNoOverlap ==
    { a \in Account \ BelowThreshold :
        a >= scan_cursor_account /\ modified[a] >= last_full_scan_time }

\* What the node lists from the cursor on (the cursor's account included).
Ledger ==
    { a \in Account \ BelowThreshold :
        a >= scan_cursor_account /\ modified[a] >= last_full_scan_time - Overlap }

FirstOf(S) == { a \in S : Cardinality({ b \in S : b < a }) < ACCOUNTS_BATCH_SIZE }

\* Mutant: the next page is taken to start after the last account.
PageDoneNextAccount(last, full) ==
    IF full
    THEN /\ scan_cursor_account' = last + 1
         /\ UNCHANGED <<last_full_scan_time, since>>
    ELSE /\ scan_cursor_account' = BURN_ACCOUNT
         /\ last_full_scan_time' = now
         /\ since' = now

\* The statements after the loop over the page: go on from its last account,
\* or, if it was not full, note the end of the scan.
PageDone(last, full) ==
    IF full
    THEN /\ scan_cursor_account' = last
         /\ UNCHANGED <<last_full_scan_time, since>>
    ELSE /\ scan_cursor_account' = BURN_ACCOUNT
         /\ last_full_scan_time' = now
         /\ since' = now

ScanLedger ==
    /\ up /\ page = {}
    /\ Len(account_update_queue) <= QueueLimit
    /\ page' = { [account |-> a, height |-> height[a]] : a \in FirstOf(Ledger) }
    /\ full_page' = (Cardinality(FirstOf(Ledger)) = ACCOUNTS_BATCH_SIZE)
    /\ IF page' = {} THEN PageDone(BURN_ACCOUNT, FALSE)
       ELSE UNCHANGED <<since, scan_cursor_account, last_full_scan_time>>
    /\ UNCHANGED <<now, height, modified, saved, given_up, up, account_update_queue, faults,
                   crashes>>

\* Mutant: one missing block is tolerated.
StaleByTwo(entry) == saved[entry.account] + 1 < entry.height

\* Rows of the account are missing.
Stale(entry) == saved[entry.account] < entry.height

\* Count the rows of the page's next account.
ScanCount ==
    /\ up
    /\ \E entry \in page :
        /\ \A other \in page : entry.account <= other.account
        /\ account_update_queue' =
              IF Stale(entry)
              THEN Append(account_update_queue,
                      [account |-> entry.account, height |-> entry.height, at |-> now])
              ELSE account_update_queue
        /\ page' = page \ {entry}
        /\ IF page' = {} THEN PageDone(entry.account, full_page)
           ELSE UNCHANGED <<since, scan_cursor_account, last_full_scan_time>>
    /\ UNCHANGED <<now, height, modified, saved, given_up, up, full_page, faults, crashes>>

\* Something throws, or the ledger call is answered with an error object: the
\* page is asked for again later.
ScanFails ==
    /\ up /\ page # {}
    /\ faults < MaxFaults
    /\ faults' = faults + 1
    /\ page' = {}
    /\ UNCHANGED <<now, height, modified, saved, given_up, up, since, scan_cursor_account,
                   last_full_scan_time, full_page, account_update_queue, crashes>>

(* The first job of the queue ends (module Backfill). *)

JobEnds ==
    /\ up /\ account_update_queue # <<>>
    /\ account_update_queue' = Tail(account_update_queue)
    /\ UNCHANGED <<now, height, modified, up, since, scan_cursor_account,
                   last_full_scan_time, page, full_page, faults, crashes>>

\* The table has the account's blocks up to the job's height.
UpdateAccount ==
    /\ JobEnds
    /\ LET job == Head(account_update_queue)
       IN  saved' = [saved EXCEPT ![job.account] = IF @ < job.height THEN job.height ELSE @]
    /\ given_up' = { a \in given_up : saved'[a] < height[a] }

\* The job ends with none or only some of the missing blocks saved.
UpdateAccountShort ==
    /\ JobEnds
    /\ LET job == Head(account_update_queue)
       IN  /\ \E count \in saved[job.account]..(job.height - 1) :
                 saved' = [saved EXCEPT ![job.account] = count]
           /\ given_up' = IF job.height = height[job.account]
                          THEN given_up \cup {job.account} ELSE given_up

------------------------------------------------------------------------------
Crash ==
    /\ up
    /\ crashes < MaxCrashes
    /\ crashes' = crashes + 1
    /\ up' = FALSE
    /\ since' = now
    /\ page' = {}
    /\ full_page' = FALSE
    /\ account_update_queue' = <<>>
    /\ UNCHANGED <<now, height, modified, saved, given_up, scan_cursor_account,
                   last_full_scan_time, faults>>

\* The script starts: its variables are initialised.
Restart ==
    /\ ~up
    /\ up' = TRUE
    /\ since' = now
    /\ scan_cursor_account' = BURN_ACCOUNT
    /\ last_full_scan_time' = now - Lookback
    /\ UNCHANGED <<now, height, modified, saved, given_up, page, full_page,
                   account_update_queue, faults, crashes>>

Next ==
    \/ Tick
    \/ \E a \in Account : NodeAppend(a)
    \/ ScanLedger \/ ScanCount \/ ScanFails
    \/ UpdateAccount \/ UpdateAccountShort
    \/ Crash \/ Restart

Spec == Init /\ [][Next]_vars

\* The timers of scan_accounts fire and its calls are answered; jobs end, one way
\* or the other; the process manager restarts the process.
FairSpec ==
    Spec /\ WF_vars(ScanLedger) /\ WF_vars(ScanCount)
         /\ WF_vars(UpdateAccount \/ UpdateAccountShort) /\ WF_vars(Restart)

------------------------------------------------------------------------------
(* Properties *)

\* Every variable has its type.
TypeOK ==
    /\ now \in Start..MaxTime
    /\ height \in [Account -> 1..MaxHeight]
    /\ modified \in [Account -> 0..MaxTime]
    /\ saved \in [Account -> 1..MaxHeight]
    /\ given_up \subseteq Account
    /\ up \in BOOLEAN /\ full_page \in BOOLEAN
    /\ since \in Start..now
    /\ scan_cursor_account \in {BURN_ACCOUNT} \cup Account
    /\ last_full_scan_time \in Overlap..now
    /\ page \subseteq [account : Account, height : 1..MaxHeight]
    /\ account_update_queue \in
          Seq([account : Account, height : 1..MaxHeight, at : Start..MaxTime])
    /\ faults \in 0..MaxFaults /\ crashes \in 0..MaxCrashes

\* The scan can see the account, and its job has not ended short.
Watched == Account \ (BelowThreshold \cup given_up)

\* An account with missing blocks falls out of sight in two ways only: its balance
\* is below the ledger call's threshold, or the job for its last block ended
\* short.  Any other is listed by the next scans, or a job is queued for it at the
\* account's height.  The overlap has to cover what is modified behind the cursor
\* during a scan, and the look-back what a death of the process takes with the
\* queue.
NoneOutOfSight ==
    up => \A a \in Watched : saved[a] < height[a] =>
            \/ modified[a] >= last_full_scan_time - Overlap
            \/ \E i \in DOMAIN account_update_queue :
                 /\ account_update_queue[i].account = a
                 /\ account_update_queue[i].height = height[a]

\* The inductive invariant.  Nothing lasts longer than its constant allows.
DurationsInv ==
    /\ now - since <= (IF up THEN MaxScan ELSE MaxDown)
    /\ \A i \in DOMAIN account_update_queue :
          LET at == account_update_queue[i].at IN at <= now /\ now - at <= MaxJobDelay
    /\ up => last_full_scan_time <= since
    /\ ~up => page = {} /\ account_update_queue = <<>> /\ crashes > 0

\* The page is of the accounts from the cursor on, and true of those that
\* were modified before the scan.
PageInv ==
    \A entry \in page :
        /\ entry.account >= scan_cursor_account
        /\ modified[entry.account] < since => entry.height = height[entry.account]

\* The scan has still to come to the account.
Ahead(a) ==
    IF page = {} THEN a >= scan_cursor_account
    ELSE \/ \E entry \in page : entry.account = a
         \/ full_page /\ \A entry \in page : entry.account < a

\* How long a block may be missing when a scan starts: one scan, and a scan, a
\* job and a restart for each death of the process that came between.
Reach(deaths) == MaxScan + deaths * (MaxScan + MaxJobDelay + MaxDown)

QueuedInTime(a) ==
    \E i \in DOMAIN account_update_queue :
        LET job == account_update_queue[i]
        IN  job.account = a /\ job.height = height[a]
              /\ job.at <= modified[a] + Reach(crashes) + MaxScan

\* A watched account with missing blocks, modified before the scan, has its job or will
\* be listed; and it is young enough for the next process to look back to it.
MissingInv ==
    \A a \in Watched : saved[a] < height[a] =>
        IF up
        THEN modified[a] < since =>
                \/ QueuedInTime(a)
                \/ /\ Ahead(a)
                   /\ modified[a] >= last_full_scan_time - Overlap
                   /\ modified[a] + Reach(crashes) >= since
        ELSE modified[a] + Reach(crashes) >= since + MaxDown

IInv == TypeOK /\ DurationsInv /\ PageInv /\ MissingInv

\* Every missing block is found in the end, but for the accounts that the ledger
\* call leaves out and those whose last job ended short.
AllSaved == <>[](\A a \in Watched : saved[a] = height[a])
==============================================================================
