------------------------------ MODULE Backfill ------------------------------
(***************************************************************************)
(* update_account of scripts/import-websocket.mjs: the backfill that walks *)
(* an account's chain down from its frontier, batch by batch, until the    *)
(* table has as many rows of the account as the account has blocks.        *)
(*                                                                         *)
(* The jobs come from scan_accounts (module ScanAccounts), which is here   *)
(* the action Scan.  They run one at a time (p-queue, concurrency 1) and   *)
(* carry what the scan saw: the account's height and the number of rows.   *)
(* While they wait and run, the node appends and confirms blocks and       *)
(* save_blocks writes rows (module SaveBlocks; here the action LiveSave).  *)
(*                                                                         *)
(* The block of account a at height k is <<a, k>>.                         *)
(***************************************************************************)
EXTENDS Naturals, Sequences, FiniteSets, BlockRows

CONSTANTS
    Account,
    MaxHeight,                \* bound: blocks of an account
    MIN_BATCH_SIZE,           \* blocks asked for at once
    MAX_BACKFILL_ITERATIONS,
    MAX_DIGITS,               \* bound: digits of a number of rows
    InitHeight,               \* the accounts' heights when the script starts
    InitSaved,                \* the tables it may find: sets of blocks
    QueueLimit,               \* bound: jobs in the queue
    MaxFaults,                \* bound: failed calls and error answers
    MaxCrashes                \* bound: deaths of the process

ASSUME BackfillAssumption ==
    /\ MaxHeight \in Nat
    /\ MIN_BATCH_SIZE \in Nat \ {0}
    /\ {MAX_BACKFILL_ITERATIONS, MaxFaults, MaxCrashes} \subseteq Nat
    /\ InitHeight \in [Account -> 0..MaxHeight]
    /\ InitSaved \subseteq SUBSET { b \in Account \X (1..MaxHeight) : b[2] <= InitHeight[b[1]] }

VARIABLES
    height,                \* the ledger: the account's number of blocks
    cemented,              \* the blocks the node has confirmed
    blocks,                \* the table
    account_update_queue,
    task,                  \* the job that runs, with its local variables
    faults, crashes        \* the bounds' counters

vars == <<height, cemented, blocks, account_update_queue, task, faults, crashes>>

Block == Account \X (1..MaxHeight)

\* The blocks of account a from height lo to height hi.
Segment(a, lo, hi) == { <<a, k>> : k \in lo..hi }

Chain(a) == Segment(a, 1, height[a])

\* select count(*) from blocks where account = a
BlockCount(a) == Cardinality({ k \in 1..MaxHeight : <<a, k>> \in blocks.hash })

(***************************************************************************)
(* A job, and the local variables of update_account.  The task waits for   *)
(* the answer of chain ("chain"), of blocks_info ("info"), for the insert  *)
(* ("db") or for the count ("count").  `cursor` is the height of the       *)
(* cursor block, `chain` the hashes to ask for, `rows` the rows to insert. *)
(* prev_block_count is block_count: they differ within one step only.      *)
(* `skipped` is history: some batch was answered with an error object.     *)
(***************************************************************************)
Job == [account : Account, height : 0..MaxHeight, block_count : 0..MaxHeight]

Task == [ pc : {"chain", "info", "db", "count"},
          account : Account, height : 0..MaxHeight, block_count : 0..MaxHeight,
          iterations : 0..MAX_BACKFILL_ITERATIONS, cursor : 0..MaxHeight,
          chain : SUBSET Block, rows : RowsOf(Block), skipped : BOOLEAN ]

Idle == [pc |-> "idle"]

Init ==
    /\ height = InitHeight
    /\ cemented = UNION { Segment(a, 1, InitHeight[a]) : a \in Account }
    /\ \E S \in InitSaved : blocks = [hash |-> S, confirmed |-> S, election_time |-> {}]
    /\ account_update_queue = <<>>
    /\ task = Idle
    /\ faults = 0
    /\ crashes = 0

------------------------------------------------------------------------------
(* The node, and the other tasks of the script. *)

NodeAppend(a) ==
    /\ height[a] < MaxHeight
    /\ height' = [height EXCEPT ![a] = @ + 1]
    /\ UNCHANGED <<cemented, blocks, account_update_queue, task, faults, crashes>>

\* A block is confirmed after its predecessors.
NodeCement(b) ==
    /\ b \in Chain(b[1]) \ cemented
    /\ Segment(b[1], 1, b[2] - 1) \subseteq cemented
    /\ cemented' = cemented \cup {b}
    /\ UNCHANGED <<height, blocks, account_update_queue, task, faults, crashes>>

\* save_blocks writes a block that was confirmed since the script subscribed.
LiveSave(b) ==
    /\ b \in cemented \ blocks.election_time
    /\ b[2] > InitHeight[b[1]]
    /\ blocks' = UpsertWithElection(blocks,
                    [hash |-> {b}, confirmed |-> {b}, election_time |-> {b}])
    /\ UNCHANGED <<height, cemented, account_update_queue, task, faults, crashes>>

AddJob(a, h, n) ==
    account_update_queue' =
        Append(account_update_queue, [account |-> a, height |-> h, block_count |-> n])

\* scan_accounts finds that rows of the account are missing.
Scan(a) ==
    /\ Len(account_update_queue) <= QueueLimit
    /\ BlockCount(a) < height[a]
    /\ AddJob(a, height[a], BlockCount(a))
    /\ UNCHANGED <<height, cemented, blocks, task, faults, crashes>>

------------------------------------------------------------------------------
(* update_account *)

\* The test of the loop, and its first statements up to getChain.
Loop(t) ==
    IF t.block_count < t.height /\ t.iterations < MAX_BACKFILL_ITERATIONS
    THEN [t EXCEPT !.pc = "chain", !.iterations = @ + 1]
    ELSE Idle

UpdateStart ==
    /\ task = Idle
    /\ account_update_queue # <<>>
    /\ LET job == Head(account_update_queue)
       IN  task' = Loop([ pc |-> "chain", account |-> job.account, height |-> job.height,
                          block_count |-> job.block_count, iterations |-> 0,
                          cursor |-> job.height, chain |-> {}, rows |-> NoRows,
                          skipped |-> FALSE ])
    /\ account_update_queue' = Tail(account_update_queue)
    /\ UNCHANGED <<height, cemented, blocks, faults, crashes>>

BatchSize(h) == IF h < MIN_BATCH_SIZE THEN h ELSE MIN_BATCH_SIZE

\* Mutant: the chain is not known to end at its first block.
LastNoFloor(cursor, count) == cursor - count + 1

\* The height of the last of `count` blocks from the cursor down.
Last(cursor, count) == IF cursor < count THEN 1 ELSE cursor - count + 1

\* The node answers with a batch of blocks from the cursor down.  The last one is
\* the next cursor, so that it is asked for again with the next batch.
ChainReply ==
    /\ task.pc = "chain"
    /\ LET last == Last(task.cursor, BatchSize(task.height))
       IN  task' = [task EXCEPT !.pc = "info", !.cursor = last,
                                !.chain = Segment(task.account, last, task.cursor)]
    /\ UNCHANGED <<height, cemented, blocks, account_update_queue, faults, crashes>>

\* Mutant: blocks are taken to be confirmed.
BlocksInfoReplyAllConfirmed ==
    /\ task.pc = "info"
    /\ task' = [task EXCEPT !.pc = "db", !.chain = {},
                   !.rows = [ hash |-> task.chain, confirmed |-> task.chain,
                              election_time |-> {} ]]
    /\ UNCHANGED <<height, cemented, blocks, account_update_queue, faults, crashes>>

BlocksInfoReply ==
    /\ task.pc = "info"
    /\ task' = [task EXCEPT !.pc = "db", !.chain = {},
                   !.rows = [ hash |-> task.chain, confirmed |-> task.chain \cap cemented,
                              election_time |-> {} ]]
    /\ UNCHANGED <<height, cemented, blocks, account_update_queue, faults, crashes>>

\* An error object: blocks is undefined, nothing is inserted, and the cursor
\* is already past the batch.
ErrorReply ==
    /\ task.pc = "info"
    /\ faults < MaxFaults
    /\ faults' = faults + 1
    /\ task' = [task EXCEPT !.pc = "count", !.chain = {}, !.rows = NoRows, !.skipped = TRUE]
    /\ UNCHANGED <<height, cemented, blocks, account_update_queue, crashes>>

InsertCommits ==
    /\ task.pc = "db"
    /\ blocks' = UpsertKeepingElection(blocks, task.rows)
    /\ task' = [task EXCEPT !.pc = "count"]
    /\ UNCHANGED <<height, cemented, account_update_queue, faults, crashes>>

\* The driver returns a count as a string of digits, and the test for a stall
\* compares two of them: as strings.
Digits(n) == CHOOSE d \in 1..MAX_DIGITS : n < 10^d /\ (d = 1 \/ 10^(d - 1) <= n)

StringLE(m, n) ==
    IF Digits(m) <= Digits(n)
    THEN m * 10^(Digits(n) - Digits(m)) <= n
    ELSE m < n * 10^(Digits(m) - Digits(n))

Stalled == task.rows.hash # {} /\ StringLE(BlockCount(task.account), task.block_count)

\* Mutant: a stalled batch is tried again.
CountReplyRetries ==
    /\ task.pc = "count"
    /\ task' = IF Stalled THEN [task EXCEPT !.pc = "chain"]
               ELSE Loop([task EXCEPT !.block_count = BlockCount(task.account),
                                      !.rows = NoRows])
    /\ UNCHANGED <<height, cemented, blocks, account_update_queue, faults, crashes>>

CountReply ==
    /\ task.pc = "count"
    /\ task' = IF Stalled THEN Idle
               ELSE Loop([task EXCEPT !.block_count = BlockCount(task.account),
                                      !.rows = NoRows])
    /\ UNCHANGED <<height, cemented, blocks, account_update_queue, faults, crashes>>

------------------------------------------------------------------------------
(* Nothing catches what update_account throws: the process dies with its   *)
(* queue, and pm2 starts it again.                                         *)

ProcessReset ==
    /\ account_update_queue' = <<>>
    /\ task' = Idle

\* Mutant: the failure is caught, and the task goes on with the next batch.
UpdateFailsGoesOn ==
    /\ task # Idle
    /\ faults < MaxFaults
    /\ faults' = faults + 1
    /\ task' = [task EXCEPT !.pc = "count", !.chain = {}, !.rows = NoRows]
    /\ UNCHANGED <<height, cemented, blocks, account_update_queue, crashes>>

UpdateFails ==
    /\ task # Idle
    /\ faults < MaxFaults
    /\ faults' = faults + 1
    /\ ProcessReset
    /\ UNCHANGED <<height, cemented, blocks, crashes>>

Crash ==
    /\ crashes < MaxCrashes
    /\ crashes' = crashes + 1
    /\ ProcessReset
    /\ UNCHANGED <<height, cemented, blocks, faults>>

UpdateStep ==
    UpdateStart \/ ChainReply \/ BlocksInfoReply \/ InsertCommits \/ CountReply

Next ==
    \/ \E a \in Account : NodeAppend(a) \/ Scan(a)
    \/ \E b \in Block : NodeCement(b) \/ LiveSave(b)
    \/ UpdateStep \/ ErrorReply
    \/ UpdateFails \/ Crash

Spec == Init /\ [][Next]_vars

(***************************************************************************)
(* The calls of a task are answered, and scan_accounts lists an account    *)
(* for as long as it misses rows.  The latter is more than the code does   *)
(* (see ScanAccounts): what fails under it fails without it, and JobsEnd   *)
(* does not depend on it.  save_blocks need not save anything.             *)
(***************************************************************************)
FairSpec == Spec /\ WF_vars(UpdateStep) /\ \A a \in Account : WF_vars(Scan(a))

------------------------------------------------------------------------------
(* Properties *)

\* Every variable has its type.
TypeOK ==
    /\ height \in [Account -> 0..MaxHeight]
    /\ cemented \subseteq Block
    /\ blocks \in RowsOf(Block)
    /\ account_update_queue \in Seq(Job)
    /\ task \in Task \cup {Idle}
    /\ faults \in 0..MaxFaults
    /\ crashes \in 0..MaxCrashes

\* A backfill leaves no gap behind: between its cursor and the height it
\* started from, every block is in the table or in the batch in hand, whatever
\* the node and save_blocks do meanwhile, unless an error object was taken for
\* an empty batch.
NoGapAboveCursor ==
    task # Idle /\ ~task.skipped /\ (task.pc = "chain" => task.iterations > 1) =>
        Segment(task.account, task.cursor, task.height) \subseteq
            blocks.hash \cup task.chain
                        \cup (IF task.pc = "db" THEN task.rows.hash ELSE {})

\* No block is shown as confirmed that the node has not confirmed.
ConfirmedIsCemented == blocks.confirmed \subseteq cemented

\* Between its awaits a job is at a block of its account: at the frontier before
\* its first batch, with no batch in hand when it asks for the next one, and with
\* rows that the node had confirmed when it was asked.
TaskInv ==
    task # Idle =>
        /\ 1 <= task.cursor /\ task.cursor <= task.height
        /\ 1 <= task.iterations
        /\ task.pc = "chain" => task.chain = {} /\ (task.iterations = 1 => task.cursor = task.height)
        /\ task.pc \in {"db", "count"} => task.chain = {}
        /\ task.rows.confirmed \subseteq cemented

\* The inductive invariant: types, the job's locals, and the two properties.
IInv == TypeOK /\ TaskInv /\ NoGapAboveCursor /\ ConfirmedIsCemented

\* A job always ends, well or badly: the others wait behind it.
JobsEnd == task # Idle ~> task = Idle

\* The table gets every block of every account, and keeps them.
MissingBlocksEventuallySaved == <>[](\A a \in Account : Chain(a) \subseteq blocks.hash)

=============================================================================
