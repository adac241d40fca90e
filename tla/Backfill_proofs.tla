--------------------------- MODULE Backfill_proofs ---------------------------
(***************************************************************************)
(* Proofs about Backfill, for every number of accounts and heights, every  *)
(* size of a batch, every table the script may find, and every number of   *)
(* faults and deaths of the process.                                       *)
(***************************************************************************)
EXTENDS Backfill, FiniteSetTheorems, SequenceTheorems, TLAPS

\* What the proofs need of the constants.
LEMMA Bounds ==
  /\ MaxHeight \in Nat /\ MIN_BATCH_SIZE \in Nat \ {0}
  /\ MAX_BACKFILL_ITERATIONS \in Nat /\ MaxFaults \in Nat /\ MaxCrashes \in Nat
  /\ InitHeight \in [Account -> 0..MaxHeight]
  BY BackfillAssumption DEF BackfillAssumption

\* A count of an account's rows is at most the bound of heights.
LEMMA BlockCountType ==
  ASSUME NEW a PROVE BlockCount(a) \in 0..MaxHeight
  <1> DEFINE S == { k \in 1..MaxHeight : <<a, k>> \in blocks.hash }
  <1>1. IsFiniteSet(1..MaxHeight) /\ Cardinality(1..MaxHeight) = MaxHeight
    BY Bounds, FS_Interval
  <1>2. S \in SUBSET (1..MaxHeight) OBVIOUS
  <1> HIDE DEF S
  <1>3. IsFiniteSet(S) /\ Cardinality(S) <= MaxHeight
    BY <1>1, <1>2, FS_Subset
  <1>4. Cardinality(S) \in Nat BY <1>3, FS_CardinalityType
  <1>5. BlockCount(a) = Cardinality(S) BY DEF BlockCount, S
  <1> QED BY Bounds, <1>3, <1>4, <1>5

LEMMA SegmentType ==
  ASSUME NEW a \in Account, NEW lo \in 1..MaxHeight, NEW hi \in 0..MaxHeight
  PROVE  Segment(a, lo, hi) \subseteq Block
  BY Bounds DEF Segment, Block

\* A segment in two parts that share a block.
LEMMA SegmentSplit ==
  ASSUME NEW a, NEW lo \in Nat, NEW mid \in Nat, NEW hi \in Nat, lo <= mid
  PROVE  Segment(a, lo, hi) \subseteq Segment(a, lo, mid) \cup Segment(a, mid, hi)
  BY DEF Segment

\* A batch goes down from the cursor, and not below the first block.
LEMMA LastBelow ==
  ASSUME NEW cursor \in 1..MaxHeight, NEW h \in 1..MaxHeight
  PROVE  Last(cursor, BatchSize(h)) \in 1..cursor
  BY Bounds DEF Last, BatchSize

\* The statements of the importers keep the rows well-formed.
LEMMA UpsertTypes ==
  ASSUME NEW Keys, NEW b \in RowsOf(Keys), NEW r \in RowsOf(Keys)
  PROVE  /\ UpsertWithElection(b, r) \in RowsOf(Keys)
         /\ UpsertKeepingElection(b, r) \in RowsOf(Keys)
  <1> DEFINE u == UpsertWithElection(b, r)
             v == UpsertKeepingElection(b, r)
  <1>1. /\ u \in [hash : SUBSET Keys, confirmed : SUBSET Keys, election_time : SUBSET Keys]
        /\ v \in [hash : SUBSET Keys, confirmed : SUBSET Keys, election_time : SUBSET Keys]
    BY DEF RowsOf, UpsertWithElection, UpsertKeepingElection
  <1>2. /\ u.confirmed \subseteq u.hash /\ u.election_time \subseteq u.hash
        /\ v.confirmed \subseteq v.hash /\ v.election_time \subseteq v.hash
    BY DEF RowsOf, UpsertWithElection, UpsertKeepingElection
  <1> QED BY <1>1, <1>2 DEF RowsOf

LEMMA NoRowsType ==
  ASSUME NEW Keys PROVE NoRows \in RowsOf(Keys)
  BY DEF NoRows, RowsOf

\* The test of the loop: the job ends, or asks for a batch at its cursor.
LEMMA LoopCases ==
  ASSUME NEW t \in Task
  PROVE  \/ Loop(t) = Idle
         \/ /\ Loop(t) \in Task /\ Loop(t).pc = "chain"
            /\ Loop(t).iterations = t.iterations + 1 /\ t.block_count < t.height
            /\ Loop(t).account = t.account /\ Loop(t).height = t.height
            /\ Loop(t).cursor = t.cursor /\ Loop(t).chain = t.chain
            /\ Loop(t).rows = t.rows /\ Loop(t).skipped = t.skipped
  <1> DEFINE u == [t EXCEPT !.pc = "chain", !.iterations = @ + 1]
  <1>1. t.iterations \in 0..MAX_BACKFILL_ITERATIONS BY DEF Task
  <1>2. CASE ~(t.block_count < t.height /\ t.iterations < MAX_BACKFILL_ITERATIONS)
    BY <1>2 DEF Loop
  <1>3. CASE t.block_count < t.height /\ t.iterations < MAX_BACKFILL_ITERATIONS
    <2>1. Loop(t) = u BY <1>3 DEF Loop
    <2>2. t.iterations + 1 \in 0..MAX_BACKFILL_ITERATIONS BY <1>1, <1>3, Bounds
    <2>3. u \in Task BY <2>2 DEF Task
    <2>4. /\ u.pc = "chain" /\ u.iterations = t.iterations + 1
          /\ u.account = t.account /\ u.height = t.height /\ u.cursor = t.cursor
          /\ u.chain = t.chain /\ u.rows = t.rows /\ u.skipped = t.skipped
      BY DEF Task
    <2> QED BY <1>3, <2>1, <2>3, <2>4
  <1> QED BY <1>2, <1>3

------------------------------------------------------------------------------
\* The initial state satisfies the inductive invariant.
THEOREM InitIInv == Init => IInv
  <1> SUFFICES ASSUME Init PROVE IInv OBVIOUS
  <1> USE DEF Init
  <1>1. height \in [Account -> 0..MaxHeight] BY Bounds
  <1>2. cemented = { b \in Account \X (1..MaxHeight) : b[2] <= InitHeight[b[1]] }
    BY Bounds DEF Segment
  <1>3. PICK S \in InitSaved : blocks = [hash |-> S, confirmed |-> S, election_time |-> {}]
    OBVIOUS
  <1>4. S \subseteq cemented BY <1>2, BackfillAssumption DEF BackfillAssumption
  <1>5. blocks \in RowsOf(Block) BY <1>2, <1>3, <1>4 DEF RowsOf, Block
  <1>6. TypeOK BY <1>1, <1>2, <1>5, Bounds DEF TypeOK, Block
  <1>7. TaskInv /\ NoGapAboveCursor BY DEF TaskInv, NoGapAboveCursor
  <1>8. ConfirmedIsCemented BY <1>3, <1>4 DEF ConfirmedIsCemented
  <1> QED BY <1>6, <1>7, <1>8 DEF IInv

\* What a job is at any await.
LEMMA TaskFacts ==
  ASSUME IInv, task # Idle
  PROVE  /\ task \in Task
         /\ task.account \in Account /\ task.height \in 1..MaxHeight
         /\ task.cursor \in 1..task.height /\ task.cursor \in 1..MaxHeight
         /\ task.iterations \in Nat /\ 1 <= task.iterations
         /\ task.chain \subseteq Block /\ task.rows \in RowsOf(Block)
         /\ task.rows.confirmed \subseteq cemented
         /\ task.skipped \in BOOLEAN
  <1>1. task \in Task BY DEF IInv, TypeOK
  <1>2. /\ task.account \in Account /\ task.height \in 0..MaxHeight
        /\ task.cursor \in 0..MaxHeight /\ task.iterations \in 0..MAX_BACKFILL_ITERATIONS
        /\ task.chain \subseteq Block /\ task.rows \in RowsOf(Block) /\ task.skipped \in BOOLEAN
    BY <1>1 DEF Task
  <1>3. /\ 1 <= task.cursor /\ task.cursor <= task.height /\ 1 <= task.iterations
        /\ task.rows.confirmed \subseteq cemented
    BY DEF IInv, TaskInv
  <1> QED BY <1>1, <1>2, <1>3, Bounds

\* The inductive invariant is preserved by every step.
THEOREM NextIInv == IInv /\ [Next]_vars => IInv'
  <1> SUFFICES ASSUME IInv, [Next]_vars PROVE IInv' OBVIOUS
  <1>a. TypeOK /\ TaskInv /\ NoGapAboveCursor /\ ConfirmedIsCemented BY DEF IInv
  <1>b. /\ height \in [Account -> 0..MaxHeight] /\ cemented \subseteq Block
        /\ blocks \in RowsOf(Block) /\ account_update_queue \in Seq(Job)
        /\ faults \in 0..MaxFaults /\ crashes \in 0..MaxCrashes
    BY <1>a DEF TypeOK
  <1>1. ASSUME NEW a \in Account, NodeAppend(a) PROVE IInv'
    <2>1. height' \in [Account -> 0..MaxHeight]
      BY <1>1, <1>b, Bounds DEF NodeAppend
    <2>2. UNCHANGED <<cemented, blocks, account_update_queue, task, faults, crashes>>
      BY <1>1 DEF NodeAppend
    <2> QED
      BY <1>a, <2>1, <2>2 DEF IInv, TypeOK, TaskInv, NoGapAboveCursor, ConfirmedIsCemented
  <1>2. ASSUME NEW b \in Block, NodeCement(b) PROVE IInv'
    BY <1>2, <1>a DEF NodeCement, IInv, TypeOK, TaskInv, NoGapAboveCursor, ConfirmedIsCemented
  <1>3. ASSUME NEW b \in Block, LiveSave(b) PROVE IInv'
    <2> DEFINE r == [hash |-> {b}, confirmed |-> {b}, election_time |-> {b}]
    <2>1. blocks' = UpsertWithElection(blocks, r) /\ b \in cemented
      BY <1>3 DEF LiveSave
    <2>2. r \in RowsOf(Block) BY DEF RowsOf
    <2>3. blocks' \in RowsOf(Block) BY <1>b, <2>1, <2>2, UpsertTypes
    <2>4. blocks.hash \subseteq blocks'.hash /\ ConfirmedIsCemented'
      BY <1>3, <1>a, <2>1 DEF LiveSave, UpsertWithElection, ConfirmedIsCemented
    <2> QED
      BY <1>3, <1>a, <2>3, <2>4 DEF LiveSave, IInv, TypeOK, TaskInv, NoGapAboveCursor
  <1>4. ASSUME NEW a \in Account, Scan(a) PROVE IInv'
    <2> DEFINE job == [account |-> a, height |-> height[a], block_count |-> BlockCount(a)]
    <2>1. job \in Job BY <1>b, BlockCountType DEF Job
    <2>2. account_update_queue' \in Seq(Job)
      <3>1. account_update_queue' = Append(account_update_queue, job)
        BY <1>4 DEF Scan, AddJob
      <3> HIDE DEF job
      <3> QED BY <1>b, <2>1, <3>1
    <2> QED
      BY <1>4, <1>a, <2>2 DEF Scan, IInv, TypeOK, TaskInv, NoGapAboveCursor, ConfirmedIsCemented
  <1>5. CASE UpdateStart
    <2> DEFINE job == Head(account_update_queue)
               t == [ pc |-> "chain", account |-> job.account, height |-> job.height,
                      block_count |-> job.block_count, iterations |-> 0,
                      cursor |-> job.height, chain |-> {}, rows |-> NoRows, skipped |-> FALSE ]
    <2>1. job \in Job /\ account_update_queue' \in Seq(Job)
      BY <1>5, <1>b, HeadTailProperties DEF UpdateStart
    <2>2. t \in Task BY <2>1, Bounds, NoRowsType DEF Job, Task
    <2>3. task' = Loop(t) BY <1>5 DEF UpdateStart
    <2>4. /\ t.cursor = t.height /\ t.iterations = 0 /\ t.chain = {} /\ t.rows = NoRows
          /\ t.height \in 0..MaxHeight /\ t.block_count \in 0..MaxHeight
      BY <2>1 DEF Job
    <2> HIDE DEF t
    <2>5. TypeOK'
      BY <1>5, <1>b, <1>a, <2>1, <2>2, <2>3, LoopCases DEF UpdateStart, TypeOK
    <2>6. TaskInv'
      <3> SUFFICES ASSUME task' # Idle PROVE TaskInv' BY DEF TaskInv
      <3>1. /\ task'.pc = "chain" /\ task'.iterations = 1 /\ t.block_count < t.height
            /\ task'.cursor = t.height /\ task'.height = t.height
            /\ task'.chain = {} /\ task'.rows = NoRows
        BY <2>2, <2>3, <2>4, LoopCases
      <3> QED BY <3>1, <2>4, Bounds DEF TaskInv, NoRows
    <2>7. NoGapAboveCursor'
      <3>1. task' # Idle => task'.pc = "chain" /\ task'.iterations = 1
        BY <2>2, <2>3, <2>4, LoopCases
      <3> QED BY <3>1 DEF NoGapAboveCursor
    <2> QED BY <1>5, <1>a, <2>5, <2>6, <2>7 DEF UpdateStart, IInv, ConfirmedIsCemented
  <1>6. CASE ChainReply
    <2>0. task # Idle /\ task.pc = "chain" BY <1>6 DEF ChainReply, Idle
    <2> DEFINE last == Last(task.cursor, BatchSize(task.height))
               seg  == Segment(task.account, last, task.cursor)
    <2>1. last \in 1..task.cursor /\ last \in 1..MaxHeight /\ last \in 0..MaxHeight
      BY <2>0, TaskFacts, LastBelow, Bounds
    <2>2. seg \subseteq Block BY <2>0, <2>1, TaskFacts, SegmentType, Bounds
    <2>3. task' = [task EXCEPT !.pc = "info", !.cursor = last, !.chain = seg]
      BY <1>6 DEF ChainReply
    <2> HIDE DEF last, seg
    <2>4. task' \in Task BY <2>0, <2>1, <2>2, <2>3, TaskFacts DEF Task
    <2>5. /\ task'.pc = "info" /\ task'.cursor = last /\ task'.chain = seg
          /\ task'.account = task.account /\ task'.height = task.height
          /\ task'.iterations = task.iterations /\ task'.rows = task.rows
          /\ task'.skipped = task.skipped
      BY <2>0, <2>3, TaskFacts DEF Task
    <2>6. TypeOK' BY <1>6, <1>a, <2>4 DEF ChainReply, TypeOK
    <2>7. TaskInv' BY <1>6, <2>0, <2>1, <2>5, TaskFacts DEF ChainReply, TaskInv
    <2>8. NoGapAboveCursor'
      <3> SUFFICES ASSUME ~task.skipped
                   PROVE  Segment(task.account, last, task.height) \subseteq blocks.hash \cup seg
        BY <1>6, <2>5 DEF NoGapAboveCursor, ChainReply
      <3>1. CASE task.iterations > 1
        <4>1. Segment(task.account, task.cursor, task.height) \subseteq blocks.hash
          BY <1>a, <2>0, <3>1 DEF NoGapAboveCursor, TaskInv
        <4>2. Segment(task.account, last, task.height)
                \subseteq seg \cup Segment(task.account, task.cursor, task.height)
          BY <2>0, <2>1, TaskFacts, SegmentSplit, Bounds DEF seg
        <4> QED BY <4>1, <4>2
      <3>2. CASE ~(task.iterations > 1)
        <4>1. task.cursor = task.height
          BY <1>a, <2>0, <3>2, TaskFacts DEF TaskInv
        <4> QED BY <4>1 DEF seg
      <3> QED BY <3>1, <3>2
    <2> QED BY <1>6, <1>a, <2>6, <2>7, <2>8 DEF ChainReply, IInv, ConfirmedIsCemented
  <1>7. CASE BlocksInfoReply
    <2>0. task # Idle /\ task.pc = "info" BY <1>7 DEF BlocksInfoReply, Idle
    <2> DEFINE r == [ hash |-> task.chain, confirmed |-> task.chain \cap cemented,
                      election_time |-> {} ]
    <2>1. r \in RowsOf(Block) BY <2>0, TaskFacts DEF RowsOf
    <2>2. r.hash = task.chain /\ r.confirmed \subseteq cemented OBVIOUS
    <2>3. task' = [task EXCEPT !.pc = "db", !.chain = {}, !.rows = r]
      BY <1>7 DEF BlocksInfoReply
    <2> HIDE DEF r
    <2>4. task' \in Task BY <2>0, <2>1, <2>3, TaskFacts DEF Task
    <2>5. /\ task'.pc = "db" /\ task'.chain = {} /\ task'.rows = r
          /\ task'.account = task.account /\ task'.height = task.height
          /\ task'.cursor = task.cursor /\ task'.iterations = task.iterations
          /\ task'.skipped = task.skipped
      BY <2>0, <2>3, TaskFacts DEF Task
    <2>6. TypeOK' BY <1>7, <1>a, <2>4 DEF BlocksInfoReply, TypeOK
    <2>7. TaskInv' BY <1>7, <2>0, <2>2, <2>5, TaskFacts DEF BlocksInfoReply, TaskInv
    <2>8. NoGapAboveCursor'
      BY <1>7, <1>a, <2>0, <2>2, <2>5 DEF BlocksInfoReply, NoGapAboveCursor
    <2> QED BY <1>7, <1>a, <2>6, <2>7, <2>8 DEF BlocksInfoReply, IInv, ConfirmedIsCemented
  <1>8. CASE InsertCommits
    <2>0. task # Idle /\ task.pc = "db" BY <1>8 DEF InsertCommits, Idle
    <2>1. task' = [task EXCEPT !.pc = "count"] /\ blocks' = UpsertKeepingElection(blocks, task.rows)
      BY <1>8 DEF InsertCommits
    <2>2. task' \in Task BY <2>0, <2>1, TaskFacts DEF Task
    <2>3. /\ task'.pc = "count" /\ task'.chain = task.chain /\ task'.rows = task.rows
          /\ task'.account = task.account /\ task'.height = task.height
          /\ task'.cursor = task.cursor /\ task'.iterations = task.iterations
          /\ task'.skipped = task.skipped
      BY <2>0, <2>1, TaskFacts DEF Task
    <2>4. blocks' \in RowsOf(Block) BY <1>b, <2>0, <2>1, TaskFacts, UpsertTypes
    <2>5. TypeOK' BY <1>8, <1>a, <2>2, <2>4 DEF InsertCommits, TypeOK
    <2>6. TaskInv' BY <1>8, <1>a, <2>0, <2>3, TaskFacts DEF InsertCommits, TaskInv
    <2>7. ConfirmedIsCemented'
      BY <1>8, <1>a, <2>0, <2>1, TaskFacts
      DEF InsertCommits, ConfirmedIsCemented, UpsertKeepingElection
    <2>8. NoGapAboveCursor'
      BY <1>a, <2>0, <2>1, <2>3 DEF NoGapAboveCursor, UpsertKeepingElection
    <2> QED BY <2>5, <2>6, <2>7, <2>8 DEF IInv
  <1>9. CASE CountReply
    <2>0. task # Idle /\ task.pc = "count" BY <1>9 DEF CountReply, Idle
    <2> DEFINE n == BlockCount(task.account)
               t == [task EXCEPT !.block_count = n, !.rows = NoRows]
    <2>1. n \in 0..MaxHeight BY BlockCountType
    <2>2. task' = Idle \/ task' = Loop(t) BY <1>9 DEF CountReply
    <2> HIDE DEF n
    <2>3. t \in Task BY <2>0, <2>1, TaskFacts, NoRowsType DEF Task
    <2>4. /\ t.chain = {} /\ t.rows = NoRows /\ t.iterations = task.iterations
          /\ t.account = task.account /\ t.height = task.height /\ t.cursor = task.cursor
          /\ t.skipped = task.skipped
      <3>1. task.chain = {} BY <1>a, <2>0 DEF TaskInv
      <3> QED BY <2>0, <3>1, TaskFacts DEF Task
    <2> HIDE DEF t
    <2>5. task' # Idle =>
            /\ task' \in Task
            /\ task'.pc = "chain" /\ task'.chain = {} /\ task'.rows = NoRows
            /\ task'.iterations = task.iterations + 1
            /\ task'.account = task.account /\ task'.height = task.height
            /\ task'.cursor = task.cursor /\ task'.skipped = task.skipped
      BY <2>2, <2>3, <2>4, LoopCases
    <2>6. TypeOK' BY <1>9, <1>a, <2>5 DEF CountReply, TypeOK
    <2>7. TaskInv' BY <2>0, <2>5, TaskFacts DEF TaskInv, NoRows
    <2>8. NoGapAboveCursor'
      <3> SUFFICES ASSUME task' # Idle, ~task.skipped
                   PROVE  Segment(task.account, task.cursor, task.height) \subseteq blocks.hash
        BY <1>9, <2>5 DEF NoGapAboveCursor, CountReply
      <3> QED BY <1>a, <2>0 DEF NoGapAboveCursor, TaskInv
    <2> QED BY <1>9, <1>a, <2>6, <2>7, <2>8 DEF CountReply, IInv, ConfirmedIsCemented
  <1>10. CASE ErrorReply
    <2>0. task # Idle /\ task.pc = "info" BY <1>10 DEF ErrorReply, Idle
    <2>1. task' = [task EXCEPT !.pc = "count", !.chain = {}, !.rows = NoRows, !.skipped = TRUE]
      BY <1>10 DEF ErrorReply
    <2>2. task' \in Task BY <2>0, <2>1, TaskFacts, NoRowsType DEF Task
    <2>3. /\ task'.pc = "count" /\ task'.chain = {} /\ task'.rows = NoRows /\ task'.skipped
          /\ task'.height = task.height /\ task'.cursor = task.cursor
          /\ task'.iterations = task.iterations
      BY <2>0, <2>1, TaskFacts DEF Task
    <2>4. TypeOK'
      <3>1. faults' \in 0..MaxFaults BY <1>10, <1>b, Bounds DEF ErrorReply
      <3> QED BY <1>10, <1>a, <2>2, <3>1 DEF ErrorReply, TypeOK
    <2>5. TaskInv' BY <2>0, <2>3, TaskFacts DEF TaskInv, NoRows
    <2>6. NoGapAboveCursor' BY <2>3 DEF NoGapAboveCursor
    <2> QED BY <1>10, <1>a, <2>4, <2>5, <2>6 DEF ErrorReply, IInv, ConfirmedIsCemented
  <1>11. CASE UpdateFails \/ Crash
    <2>1. /\ task' = Idle /\ account_update_queue' = <<>>
          /\ UNCHANGED <<height, cemented, blocks>>
          /\ faults' \in 0..MaxFaults /\ crashes' \in 0..MaxCrashes
      BY <1>11, <1>b, Bounds DEF UpdateFails, Crash, ProcessReset
    <2> QED
      BY <1>a, <2>1 DEF IInv, TypeOK, TaskInv, NoGapAboveCursor, ConfirmedIsCemented
  <1>12. CASE UNCHANGED vars
    BY <1>12, <1>a DEF vars, IInv, TypeOK, TaskInv, NoGapAboveCursor, ConfirmedIsCemented
  <1> QED
    BY <1>1, <1>2, <1>3, <1>4, <1>5, <1>6, <1>7, <1>8, <1>9, <1>10, <1>11, <1>12
    DEF Next, UpdateStep

\* Every reachable state satisfies the inductive invariant.
THEOREM Invariance == Spec => []IInv
  BY InitIInv, NextIInv, PTL DEF Spec

\* A backfill leaves no gap above its cursor, whatever the node, save_blocks,
\* failures and deaths of the process do meanwhile.
THEOREM NoGap == Spec => []NoGapAboveCursor
  <1>1. IInv => NoGapAboveCursor BY DEF IInv
  <1> QED BY <1>1, Invariance, PTL

\* No row says of a block that it is confirmed before the node has confirmed it.
THEOREM Confirmed == Spec => []ConfirmedIsCemented
  <1>1. IInv => ConfirmedIsCemented BY DEF IInv
  <1> QED BY <1>1, Invariance, PTL
==============================================================================
