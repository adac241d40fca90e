---------------------------- MODULE ImportFromRpc ----------------------------
(***************************************************************************)
(* scripts/import-from-rpc.mjs: an operator's import of the ledger.  main  *)
(* reads the ledger page by page and, for each account of a page,          *)
(* processAccountBlocks walks down the account's chain from its frontier,  *)
(* batch by batch.  The node and save_blocks (module SaveBlocks; here the  *)
(* action LiveSave) work meanwhile, and any call may fail.                 *)
(*                                                                         *)
(* Accounts are 1..N, in the order of the ledger; those that the option    *)
(* hours leaves out are not among them.  The block of account a at height  *)
(* k is <<a, k>>.                                                          *)
(***************************************************************************)
EXTENDS Naturals, Sequences, FiniteSets, BlockRows

CONSTANTS
    N,                    \* number of accounts
    InitHeight,           \* their numbers of blocks,
    InitCemented,         \* and of confirmed blocks, when the script starts
    MaxHeight,            \* bound: blocks of an account
    Room,                 \* bound: to how many blocks each account may grow
    accounts_batch_size,
    BLOCKS_BATCH_SIZE,
    MAX_INFO_RETRIES,     \* 5 in the code
    MAX_FAILED_ATTEMPTS,  \* 6 in the code
    Options,              \* the options that the operator may give
    InitRows              \* the tables that the script may find

Account == 1..N
Hash    == Account \X (1..MaxHeight)

ASSUME RpcAssumption ==
    /\ {accounts_batch_size, BLOCKS_BATCH_SIZE} \subseteq Nat \ {0, 1}
    /\ {N, MaxHeight, MAX_INFO_RETRIES, MAX_FAILED_ATTEMPTS} \subseteq Nat
    /\ InitHeight \in [Account -> 1..MaxHeight]
    /\ Room \in [Account -> 1..MaxHeight]
    /\ InitCemented \in [Account -> 0..MaxHeight]
    /\ \A a \in Account : InitCemented[a] <= InitHeight[a]
    /\ Options \subseteq [all_blocks : BOOLEAN, skip : BOOLEAN, include_blocks : BOOLEAN,
                          single_account : 0..N, start_block : 0..MaxHeight]
    /\ InitRows \subseteq RowsOf(Hash)

VARIABLES
    height, cemented,  \* the ledger: numbers of blocks, and of confirmed ones
    blocks, accounts,  \* the tables
    opts,              \* all_blocks, skip, include_blocks, single_account (0: none)
    account,           \* where the next page starts, 0 after the last page
    todo,              \* the accounts of the page that are left
    task,              \* processAccountBlocks, with its local variables
    lost,              \* history: the account's blocks in skipped batches
    processed          \* history: the accounts that are done

node  == <<height, cemented>>
vars  == <<node, blocks, accounts, opts, account, todo, task, lost, processed>>

Segment(a, lo, hi) == { <<a, k>> : k \in lo..hi }
Least(m, n) == IF m < n THEN m ELSE n

\* select count(*) from blocks where account = a
BlockCount(a) == Cardinality(blocks.hash \cap Segment(a, 1, MaxHeight))

(***************************************************************************)
(* The local variables, and what is awaited: the ledger's page, the        *)
(* account's info, the chain, the blocks' info, the insert or the count.   *)
(* start is the height of the first cursor, status what was returned.      *)
(***************************************************************************)
Task == [ pc : {"ledger", "account_info", "chain", "info", "save", "count", "next", "exit"},
          account : 0..N, retries : Nat, failed_attempts : 0..MAX_FAILED_ATTEMPTS,
          block_count : 0..MaxHeight, frontier_height : 0..MaxHeight,
          imported_block_count : 0..MaxHeight, start : 0..MaxHeight,
          cursor : 0..MaxHeight, block_height_cursor : 0..MaxHeight,
          chain : SUBSET Hash, rows : RowsOf(Hash), status : {"", "finished", "gave up"} ]

\* processAccountBlocks is called, for an account or (0) not yet.
Call(pc, a) ==
    [ pc |-> pc, account |-> a, retries |-> 0, failed_attempts |-> 0, block_count |-> 0,
      frontier_height |-> 0, imported_block_count |-> 0, start |-> 0, cursor |-> 0,
      block_height_cursor |-> 0, chain |-> {}, rows |-> NoRows, status |-> "" ]

Init ==
    /\ height = InitHeight
    /\ cemented = InitCemented
    /\ blocks \in InitRows
    /\ accounts = {}
    /\ opts \in Options
    /\ account = IF opts.single_account = 0 THEN 1 ELSE 0
    /\ todo = <<>>
    /\ task = IF opts.single_account = 0 THEN Call("ledger", 0)
              ELSE Call("account_info", opts.single_account)
    /\ lost = {}
    /\ processed = {}

------------------------------------------------------------------------------
(* The node, and the websocket importer. *)

script == <<accounts, opts, account, todo, task, lost, processed>>

NodeAppend(a) ==
    /\ height[a] < Room[a]
    /\ height' = [height EXCEPT ![a] = @ + 1]
    /\ UNCHANGED <<cemented, blocks, script>>

NodeCement(a) ==
    /\ cemented[a] < height[a]
    /\ cemented' = [cemented EXCEPT ![a] = @ + 1]
    /\ UNCHANGED <<height, blocks, script>>

\* save_blocks writes a block that was confirmed since the script started.
LiveSave(b) ==
    /\ b \notin blocks.election_time
    /\ InitCemented[b[1]] < b[2] /\ b[2] <= cemented[b[1]]
    /\ blocks' = UpsertWithElection(blocks,
                    [hash |-> {b}, confirmed |-> {b}, election_time |-> {b}])
    /\ UNCHANGED <<node, script>>

------------------------------------------------------------------------------
(* main *)

\* The page that starts with the last account of the one before.
Page == account..Least(account + accounts_batch_size - 1, N)

\* Mutant: the next page starts after the last account of this one.
NextPageStartAfter == IF Cardinality(Page) = accounts_batch_size THEN account + accounts_batch_size ELSE 0

NextPageStart == IF Cardinality(Page) = accounts_batch_size THEN account + accounts_batch_size - 1 ELSE 0

GetLedger ==
    /\ task.pc = "ledger"
    /\ accounts' = accounts \cup Page
    /\ LET all == [i \in 1..Cardinality(Page) |-> account + i - 1]
       IN  todo' = IF ~opts.include_blocks THEN <<>>
                   ELSE IF opts.skip THEN SubSeq(all, 2, Len(all)) ELSE all
    /\ account' = NextPageStart
    /\ task' = Call("next", 0)
    /\ UNCHANGED <<node, blocks, opts, lost, processed>>

\* The next account, the next page, or the end.
NextAccount ==
    /\ task.pc = "next"
    /\ task' = IF todo # <<>> THEN Call("account_info", Head(todo))
               ELSE Call(IF account # 0 THEN "ledger" ELSE "exit", 0)
    /\ todo' = IF todo # <<>> THEN Tail(todo) ELSE <<>>
    /\ lost' = {}
    /\ UNCHANGED <<node, blocks, accounts, opts, account, processed>>

------------------------------------------------------------------------------
(* processAccountBlocks *)

TaskStep(t, more) ==
    /\ task' = t
    /\ lost' = lost \cup more
    /\ processed' = IF t.pc = "next" THEN processed \cup {t.account} ELSE processed
    /\ UNCHANGED <<node, accounts, opts, account, todo>>

\* What init catches, and process.exit().
Exits == TaskStep([task EXCEPT !.pc = "exit", !.status = "gave up"], {})

\* Mutant: the loop stops before the batch with the first block.
WantedAboveTwo(t) ==
    IF opts.all_blocks THEN t.block_height_cursor > 2
                       ELSE t.imported_block_count < t.frontier_height

\* The loop's test, but for failed_attempts.
Wanted(t) ==
    IF opts.all_blocks THEN t.block_height_cursor > 1
                       ELSE t.imported_block_count < t.frontier_height

Loop(t) ==
    IF Wanted(t) /\ t.failed_attempts < MAX_FAILED_ATTEMPTS
    THEN [t EXCEPT !.pc = "chain", !.chain = {}, !.rows = NoRows]
    ELSE [t EXCEPT !.pc = "next", !.chain = {}, !.rows = NoRows,
            !.status = IF t.failed_attempts = MAX_FAILED_ATTEMPTS THEN "gave up" ELSE "finished"]

\* Mutant: a failed attempt is not counted.
FailedUncounted(t) == Loop(t)

Failed(t) == Loop([t EXCEPT !.failed_attempts = @ + 1])

\* The first count follows at once: nothing of the account is read in between.
AccountInfoReply ==
    /\ task.pc = "account_info"
    /\ LET a == task.account
           from == IF opts.single_account # 0 /\ opts.start_block # 0
                   THEN opts.start_block ELSE height[a]
       IN  TaskStep(Loop([task EXCEPT !.block_count = height[a],
                             !.frontier_height = cemented[a], !.block_height_cursor = cemented[a],
                             !.imported_block_count = BlockCount(a),
                             !.start = from, !.cursor = from]), {})
    /\ UNCHANGED blocks

AccountInfoError ==
    /\ task.pc = "account_info"
    /\ TaskStep([task EXCEPT !.pc = "next", !.status = "gave up"], {})
    /\ UNCHANGED blocks

\* Mutant: the retries are not limited.
AccountInfoFailsAgain ==
    /\ task.pc = "account_info"
    /\ TaskStep([task EXCEPT !.retries = @ + 1], {})
    /\ UNCHANGED blocks

AccountInfoFails ==
    /\ task.pc = "account_info"
    /\ IF task.retries > MAX_INFO_RETRIES THEN Exits
       ELSE TaskStep([task EXCEPT !.retries = @ + 1], {})
    /\ UNCHANGED blocks

ChainReply ==
    /\ task.pc = "chain"
    /\ LET size == Least(task.block_count, BLOCKS_BATCH_SIZE)
           last == IF task.cursor > size THEN task.cursor - size + 1 ELSE 1
       IN  TaskStep([task EXCEPT !.pc = "info", !.cursor = last,
                                 !.chain = Segment(task.account, last, task.cursor)], {})
    /\ UNCHANGED blocks

\* Mutant: the retry goes on below the batch.
ChainFailsMovesOn ==
    /\ task.pc = "chain"
    /\ TaskStep(Failed([task EXCEPT !.cursor = IF @ > BLOCKS_BATCH_SIZE
                                               THEN @ - BLOCKS_BATCH_SIZE ELSE 1]), {})
    /\ UNCHANGED blocks

\* The call fails, or answers with an error object: the same cursor is tried again.
ChainFails ==
    /\ task.pc = "chain"
    /\ TaskStep(Failed(task), {})
    /\ UNCHANGED blocks

BlocksInfoReply ==
    /\ task.pc = "info"
    /\ LET confirmed == { b \in task.chain : b[2] <= cemented[b[1]] }
       IN  TaskStep([task EXCEPT !.pc = "save", !.block_height_cursor = task.cursor,
              !.rows = [hash |-> task.chain, confirmed |-> confirmed, election_time |-> {}]], {})
    /\ UNCHANGED blocks

\* The call fails when the cursor has already moved: the batch is not asked for again.
BlocksInfoFails ==
    /\ task.pc = "info"
    /\ TaskStep(Failed(task), task.chain \ blocks.hash)
    /\ UNCHANGED blocks

\* An error object has no blocks: the last of none has no height, which throws.
BlocksInfoError ==
    /\ task.pc = "info"
    /\ Exits
    /\ UNCHANGED blocks

InsertCommits ==
    /\ task.pc = "save"
    /\ blocks' = UpsertKeepingElection(blocks, task.rows)
    /\ LET t == [task EXCEPT !.failed_attempts = 0]
       IN  TaskStep(IF opts.all_blocks THEN Loop(t) ELSE [t EXCEPT !.pc = "count"], {})

\* The error may come after the commit; two failures in a row end the process.
InsertFails ==
    /\ task.pc = "save"
    /\ blocks' \in {blocks, UpsertKeepingElection(blocks, task.rows)}
    /\ IF task.failed_attempts + 1 > 1 THEN Exits
       ELSE LET t == [task EXCEPT !.failed_attempts = @ + 1]
            IN  TaskStep(IF opts.all_blocks THEN Loop(t) ELSE [t EXCEPT !.pc = "count"],
                         task.chain \ blocks'.hash)

CountReply ==
    /\ task.pc = "count"
    /\ TaskStep(Loop([task EXCEPT !.imported_block_count = BlockCount(task.account)]), {})
    /\ UNCHANGED blocks

\* A statement of main, or a count, the one after the info included, throws: init
\* catches and the process ends.
CallThrows ==
    /\ task.pc \in {"ledger", "account_info", "count"}
    /\ Exits
    /\ UNCHANGED blocks

ScriptStep ==
    \/ GetLedger \/ NextAccount \/ CallThrows
    \/ AccountInfoReply \/ AccountInfoError \/ AccountInfoFails
    \/ ChainReply \/ ChainFails
    \/ BlocksInfoReply \/ BlocksInfoFails \/ BlocksInfoError
    \/ InsertCommits \/ InsertFails \/ CountReply

Next ==
    \/ \E a \in Account : NodeAppend(a) \/ NodeCement(a)
    \/ \E b \in Hash : LiveSave(b)
    \/ ScriptStep

Spec == Init /\ [][Next]_vars

\* The script goes on, whatever its calls answer.
FairSpec == Spec /\ WF_vars(ScriptStep)

------------------------------------------------------------------------------
(* Properties *)

\* Every variable has its type.
TypeOK ==
    /\ height \in [Account -> 1..MaxHeight]
    /\ cemented \in [Account -> 0..MaxHeight]
    /\ blocks \in RowsOf(Hash)
    /\ accounts \subseteq Account
    /\ opts \in Options
    /\ account \in {1} \cup 0..N
    /\ todo \in Seq(Account)
    /\ task \in Task
    /\ task.retries <= MAX_INFO_RETRIES + 1
    /\ lost \subseteq Hash
    /\ processed \subseteq Account

\* However calls fail and batches are cut, the walk leaves no block behind: from
\* the first cursor down to the current one, a block is in the table, in the
\* batch in hand, or in a batch that a failed call made the script skip.
NoGapAboveCursor ==
    task.pc \in {"chain", "info", "save", "count", "next"} =>
        Segment(task.account, task.cursor + 1, task.start)
            \subseteq blocks.hash \cup task.chain \cup lost

\* The walk has the account's blocks from height lo up to its first cursor.
Covered(lo) ==
    Segment(task.account, lo, task.start) \subseteq blocks.hash \cup task.chain \cup lost

\* Between its awaits the walk is at a block, tells what it was answered from what
\* it is still to ask, and counts no rows that the table has not; it is finished
\* only when the loop's test says so.
TaskInv ==
    LET walking == {"chain", "info", "save", "count"}
    IN  /\ task.pc = "account_info" => task.account \in Account /\ task.start = 0
        /\ task.pc \in walking =>
              task.account \in Account /\ 1 <= task.cursor /\ 1 <= task.block_count
        /\ task.pc \in {"chain", "info", "save"} => task.failed_attempts < MAX_FAILED_ATTEMPTS
        /\ task.pc \in {"info", "save", "count"} => Covered(task.cursor)
        /\ task.pc \in {"account_info", "chain", "next"} => task.chain = {}
        /\ task.pc = "save" => task.rows.hash = task.chain
        /\ task.pc = "count" => task.chain \subseteq blocks.hash \cup lost
        /\ task.pc \in walking \cup {"account_info", "next"} =>
              /\ task.block_height_cursor = task.frontier_height \/ Covered(task.block_height_cursor)
              /\ task.imported_block_count <= BlockCount(task.account)
        /\ task.pc = "next" /\ task.status = "finished" => ~Wanted(task)

\* The accounts of the pages so far, up to the one where the next page starts.
Reach == IF account = 0 THEN N ELSE IF account = 1 THEN 0 ELSE account

\* Each of them is in the table, and is walked, waits in its page or is in hand.
PagesInv ==
    IF opts.single_account # 0 THEN task.pc # "ledger" /\ account = 0 /\ todo = <<>>
    ELSE
        /\ 1..Reach \subseteq accounts
        /\ opts.include_blocks =>
              \A a \in 1..Reach :
                  \/ a \in processed \cup {task.account} \cup {todo[i] : i \in DOMAIN todo}
                  \/ opts.skip /\ a = 1
        /\ task.pc = "ledger" => account # 0
        /\ task.pc = "exit" /\ task.status = "" => account = 0
        /\ task.pc = "ledger" \/ (task.pc = "exit" /\ task.status = "") =>
              todo = <<>> /\ task.account = 0
        /\ task.pc = "next" => task.account \in processed \cup {0}

\* The inductive invariant.
IInv == TypeOK /\ TaskInv /\ NoGapAboveCursor /\ PagesInv

\* An account that is finished without a skipped batch, from its frontier, has
\* all of its blocks in the table: with all_blocks when more than one block was
\* confirmed, without it when no unconfirmed block took a place in the count.
FinishedMeansComplete ==
    LET a == task.account
        whole == IF opts.all_blocks THEN task.frontier_height > 1
                 ELSE blocks.hash \cap Segment(a, task.frontier_height + 1, MaxHeight) = {}
    IN  /\ task.pc = "next" /\ task.status = "finished" /\ whole
        /\ lost = {} /\ task.start >= task.frontier_height
        => Segment(a, 1, task.frontier_height) \subseteq blocks.hash

\* What the option all_blocks is said to do: "process all blocks for each
\* account".  An account whose open block alone is confirmed is passed over.
AllBlocksProcessed ==
    /\ opts.all_blocks /\ task.pc = "next" /\ task.status = "finished"
    /\ lost = {} /\ task.start = task.block_count
    => Segment(task.account, 1, task.block_count) \subseteq blocks.hash

\* The pages overlap by one account, which skip leaves out: at a normal end each
\* account is in the table, and all but the skipped first have been walked.
EveryAccountVisited ==
    /\ task.pc = "exit" /\ task.status = "" /\ opts.single_account = 0
    => /\ accounts = Account
       /\ opts.include_blocks => (IF opts.skip THEN Account \ {1} ELSE Account) \subseteq processed

\* The import never erases the election data that save_blocks has written.
ElectionKept == [][blocks.election_time \subseteq blocks'.election_time]_blocks

\* The script ends, even if every call fails, unless it counts towards a height
\* that a skipped batch, or a start below the frontier, keeps out of reach.
Ends == <>(task.pc = "exit" \/ (~opts.all_blocks /\ (lost # {} \/ task.start < task.block_count)))
==============================================================================
