------------------------- MODULE ImportFromRpc_proofs -------------------------
(***************************************************************************)
(* Proofs about ImportFromRpc, for every ledger, every size of a page and  *)
(* of a batch, every number of attempts and all the options together.      *)
(***************************************************************************)
EXTENDS ImportFromRpc, FiniteSetTheorems, SequenceTheorems, TLAPS

\* What the proofs need of the constants.
LEMMA Bounds ==
  /\ N \in Nat /\ MaxHeight \in Nat /\ MAX_INFO_RETRIES \in Nat /\ MAX_FAILED_ATTEMPTS \in Nat
  /\ accounts_batch_size \in Nat \ {0, 1} /\ BLOCKS_BATCH_SIZE \in Nat \ {0, 1}
  BY RpcAssumption DEF RpcAssumption

LEMMA Given ==
  /\ InitHeight \in [Account -> 1..MaxHeight] /\ InitCemented \in [Account -> 0..MaxHeight]
  /\ Room \in [Account -> 1..MaxHeight]
  /\ \A o \in Options : /\ o.single_account \in 0..N /\ o.start_block \in 0..MaxHeight
                        /\ o.skip \in BOOLEAN /\ o.all_blocks \in BOOLEAN
  BY RpcAssumption DEF RpcAssumption

LEMMA SegmentType ==
  ASSUME NEW a \in Account, NEW lo \in 1..MaxHeight, NEW hi \in 0..MaxHeight
  PROVE  Segment(a, lo, hi) \subseteq Hash
  BY Bounds DEF Segment, Hash

\* A segment in two parts.
LEMMA SegmentSplit ==
  ASSUME NEW a, NEW lo \in Nat, NEW mid \in Nat, NEW hi \in Nat
  PROVE  Segment(a, lo, hi) \subseteq Segment(a, lo, mid) \cup Segment(a, mid + 1, hi)
  BY DEF Segment

LEMMA EmptySegment ==
  ASSUME NEW a, NEW hi \in Nat PROVE Segment(a, hi + 1, hi) = {}
  <1>1. (hi + 1)..hi = {} OBVIOUS
  <1> QED BY <1>1 DEF Segment

\* A segment of an account has as many blocks as heights.
LEMMA SegmentCardinality ==
  ASSUME NEW a, NEW hi \in Nat
  PROVE  IsFiniteSet(Segment(a, 1, hi)) /\ Cardinality(Segment(a, 1, hi)) = hi
  <1> DEFINE f == [k \in 1..hi |-> <<a, k>>]
  <1>1. IsFiniteSet(1..hi) /\ Cardinality(1..hi) = hi BY FS_Interval
  <1>2. f \in Bijection(1..hi, Segment(a, 1, hi)) BY DEF Segment, Bijection, Injection, Surjection, IsInjective
  <1> HIDE DEF f
  <1>3. ExistsBijection(1..hi, Segment(a, 1, hi)) BY <1>2 DEF ExistsBijection
  <1> QED BY <1>1, <1>3, FS_Bijection

\* The rows that a set of hashes has of an account are counted in its heights.
LEMMA CountType ==
  ASSUME NEW a, NEW h
  PROVE  /\ IsFiniteSet(h \cap Segment(a, 1, MaxHeight))
         /\ Cardinality(h \cap Segment(a, 1, MaxHeight)) \in 0..MaxHeight
         /\ Cardinality(h \cap Segment(a, 1, MaxHeight)) \in Nat
  <1> DEFINE S == Segment(a, 1, MaxHeight)
             T == h \cap S
  <1>1. IsFiniteSet(S) /\ Cardinality(S) = MaxHeight BY Bounds, SegmentCardinality
  <1>2. T \in SUBSET S OBVIOUS
  <1> HIDE DEF S, T
  <1>3. IsFiniteSet(T) /\ Cardinality(T) <= MaxHeight BY <1>1, <1>2, FS_Subset
  <1>4. Cardinality(T) \in Nat BY <1>3, FS_CardinalityType
  <1> QED BY <1>3, <1>4, Bounds DEF T, S

\* More rows, a higher count.
LEMMA CountGrows ==
  ASSUME NEW a, NEW g, NEW h, g \subseteq h
  PROVE  Cardinality(g \cap Segment(a, 1, MaxHeight)) <= Cardinality(h \cap Segment(a, 1, MaxHeight))
  <1> DEFINE S == g \cap Segment(a, 1, MaxHeight)
             T == h \cap Segment(a, 1, MaxHeight)
  <1>1. IsFiniteSet(T) BY CountType
  <1>2. S \in SUBSET T OBVIOUS
  <1> HIDE DEF S, T
  <1>3. Cardinality(S) <= Cardinality(T) BY <1>1, <1>2, FS_Subset
  <1> QED BY <1>3 DEF S, T

\* The statements of the importers keep the rows well-formed and lose none.
LEMMA UpsertFacts ==
  ASSUME NEW Keys, NEW b \in RowsOf(Keys), NEW r \in RowsOf(Keys)
  PROVE  /\ UpsertWithElection(b, r) \in RowsOf(Keys)
         /\ UpsertKeepingElection(b, r) \in RowsOf(Keys)
         /\ UpsertWithElection(b, r).hash = b.hash \cup r.hash
         /\ UpsertKeepingElection(b, r).hash = b.hash \cup r.hash
  <1> DEFINE u == UpsertWithElection(b, r)
             v == UpsertKeepingElection(b, r)
  <1>1. /\ u \in [hash : SUBSET Keys, confirmed : SUBSET Keys, election_time : SUBSET Keys]
        /\ v \in [hash : SUBSET Keys, confirmed : SUBSET Keys, election_time : SUBSET Keys]
    BY DEF RowsOf, UpsertWithElection, UpsertKeepingElection
  <1>2. /\ u.confirmed \subseteq u.hash /\ u.election_time \subseteq u.hash
        /\ v.confirmed \subseteq v.hash /\ v.election_time \subseteq v.hash
        /\ u.hash = b.hash \cup r.hash /\ v.hash = b.hash \cup r.hash
    BY DEF RowsOf, UpsertWithElection, UpsertKeepingElection
  <1> QED BY <1>1, <1>2 DEF RowsOf

LEMMA NoRowsType == NoRows \in RowsOf(Hash)
  BY DEF NoRows, RowsOf

LEMMA CallType ==
  ASSUME NEW a \in 0..N,
         NEW pc \in {"ledger", "account_info", "chain", "info", "save", "count", "next", "exit"}
  PROVE  Call(pc, a) \in Task
  BY Bounds, NoRowsType DEF Call, Task

\* What the walk's local variables are.
LEMMA TaskTypes ==
  ASSUME NEW t \in Task
  PROVE  /\ t.account \in 0..N /\ t.retries \in Nat /\ t.failed_attempts \in 0..MAX_FAILED_ATTEMPTS
         /\ t.block_count \in 0..MaxHeight /\ t.frontier_height \in 0..MaxHeight
         /\ t.imported_block_count \in 0..MaxHeight /\ t.imported_block_count \in Nat
         /\ t.start \in 0..MaxHeight /\ t.cursor \in 0..MaxHeight /\ t.cursor \in Nat
         /\ t.block_height_cursor \in 0..MaxHeight
         /\ t.chain \subseteq Hash /\ t.rows \in RowsOf(Hash)
  <1>1. /\ t.account \in 0..N /\ t.retries \in Nat /\ t.failed_attempts \in 0..MAX_FAILED_ATTEMPTS
        /\ t.block_count \in 0..MaxHeight /\ t.frontier_height \in 0..MaxHeight
        /\ t.imported_block_count \in 0..MaxHeight
        /\ t.start \in 0..MaxHeight /\ t.cursor \in 0..MaxHeight
        /\ t.block_height_cursor \in 0..MaxHeight
        /\ t.chain \subseteq Hash /\ t.rows \in RowsOf(Hash)
    BY DEF Task
  <1> QED BY <1>1, Bounds

LEMMA CallFacts ==
  ASSUME NEW a \in 0..N,
         NEW pc \in {"ledger", "account_info", "chain", "info", "save", "count", "next", "exit"}
  PROVE  /\ Call(pc, a).pc = pc /\ Call(pc, a).account = a /\ Call(pc, a).retries = 0
         /\ Call(pc, a).failed_attempts = 0 /\ Call(pc, a).chain = {} /\ Call(pc, a).status = ""
         /\ Call(pc, a).start = 0 /\ Call(pc, a).cursor = 0
         /\ Call(pc, a).block_height_cursor = 0 /\ Call(pc, a).frontier_height = 0
         /\ Call(pc, a).imported_block_count = 0
  BY DEF Call

\* The loop's test: the walk asks for a batch at its cursor, or is over, and then
\* finished only if nothing is wanted.
LEMMA LoopFacts ==
  ASSUME NEW t \in Task
  PROVE  /\ Loop(t) \in Task /\ Loop(t).pc \in {"chain", "next"} /\ Loop(t).chain = {}
         /\ Loop(t).pc = "chain" => Loop(t).failed_attempts < MAX_FAILED_ATTEMPTS
         /\ Loop(t).pc = "next" /\ Loop(t).status = "finished" => ~Wanted(Loop(t))
         /\ Loop(t).account = t.account /\ Loop(t).retries = t.retries
         /\ Loop(t).block_count = t.block_count /\ Loop(t).frontier_height = t.frontier_height
         /\ Loop(t).imported_block_count = t.imported_block_count
         /\ Loop(t).start = t.start /\ Loop(t).cursor = t.cursor
         /\ Loop(t).block_height_cursor = t.block_height_cursor
  <1> DEFINE u == [t EXCEPT !.pc = "chain", !.chain = {}, !.rows = NoRows]
             s == IF t.failed_attempts = MAX_FAILED_ATTEMPTS THEN "gave up" ELSE "finished"
             v == [t EXCEPT !.pc = "next", !.chain = {}, !.rows = NoRows, !.status = s]
  <1>1. t.failed_attempts \in 0..MAX_FAILED_ATTEMPTS BY DEF Task
  <1>2. CASE Wanted(t) /\ t.failed_attempts < MAX_FAILED_ATTEMPTS
    <2>1. Loop(t) = u BY <1>2 DEF Loop
    <2>2. u \in Task BY NoRowsType DEF Task
    <2>3. /\ u.pc = "chain" /\ u.chain = {} /\ u.failed_attempts = t.failed_attempts
          /\ u.account = t.account /\ u.retries = t.retries
          /\ u.block_count = t.block_count /\ u.frontier_height = t.frontier_height
          /\ u.imported_block_count = t.imported_block_count
          /\ u.start = t.start /\ u.cursor = t.cursor
          /\ u.block_height_cursor = t.block_height_cursor
      BY DEF Task
    <2> QED BY <1>2, <2>1, <2>2, <2>3
  <1>3. CASE ~(Wanted(t) /\ t.failed_attempts < MAX_FAILED_ATTEMPTS)
    <2>1. Loop(t) = v BY <1>3 DEF Loop
    <2>2. v \in Task BY NoRowsType DEF Task
    <2>3. /\ v.pc = "next" /\ v.chain = {} /\ v.status = s
          /\ v.account = t.account /\ v.retries = t.retries
          /\ v.block_count = t.block_count /\ v.frontier_height = t.frontier_height
          /\ v.imported_block_count = t.imported_block_count
          /\ v.start = t.start /\ v.cursor = t.cursor
          /\ v.block_height_cursor = t.block_height_cursor
      BY DEF Task
    <2>4. v.status = "finished" => ~Wanted(v)
      <3>1. v.status = "finished" => t.failed_attempts < MAX_FAILED_ATTEMPTS
        BY <1>1, <2>3, Bounds
      <3>2. Wanted(v) => Wanted(t) BY <2>3 DEF Wanted
      <3> QED BY <1>3, <3>1, <3>2
    <2> QED BY <2>1, <2>2, <2>3, <2>4
  <1> QED BY <1>2, <1>3

\* A page goes up to the account where the next one starts, or to the last one.
LEMMA PageFacts ==
  ASSUME account \in {1} \cup 1..N
  PROVE  \E last \in 0..N :
            /\ Page = account..last /\ Cardinality(Page) = last - account + 1
            /\ account <= last + 1
            /\ \/ NextPageStart = 0 /\ last = N
               \/ NextPageStart = last /\ last \in 2..N
  <1> DEFINE last == Least(account + accounts_batch_size - 1, N)
  <1>1. account \in Nat /\ 1 <= account /\ account <= N + 1 BY Bounds
  <1>2. last \in Nat /\ last <= N /\ account <= last + 1 /\ last <= account + accounts_batch_size - 1
        /\ (last = N \/ last = account + accounts_batch_size - 1)
    BY <1>1, Bounds DEF Least
  <1>3. Page = account..last BY DEF Page
  <1> HIDE DEF last
  <1>4. Cardinality(Page) = last - account + 1
    <2>1. \A m, n \in Nat : m <= n + 1 => Cardinality(m..n) = n - m + 1
      <3>1. TAKE m, n \in Nat
      <3>2. Cardinality(m..n) = IF m > n THEN 0 ELSE n - m + 1 BY FS_Interval
      <3> QED BY <3>2
    <2> QED BY <1>1, <1>2, <1>3, <2>1
  <1>5. CASE Cardinality(Page) = accounts_batch_size
    <2>1. last = account + accounts_batch_size - 1 BY <1>1, <1>2, <1>4, <1>5, Bounds
    <2>2. NextPageStart = last BY <1>5, <2>1 DEF NextPageStart
    <2>3. last \in 2..N BY <1>1, <1>2, <2>1, Bounds
    <2> QED BY <1>2, <1>3, <1>4, <2>2, <2>3, Bounds
  <1>6. CASE Cardinality(Page) # accounts_batch_size
    <2>1. last = N BY <1>1, <1>2, <1>4, <1>6, Bounds
    <2>2. NextPageStart = 0 BY <1>6 DEF NextPageStart
    <2> QED BY <1>2, <1>3, <1>4, <2>1, <2>2, Bounds
  <1> QED BY <1>5, <1>6

------------------------------------------------------------------------------
\* The initial state satisfies the inductive invariant.
THEOREM InitIInv == Init => IInv
  <1> SUFFICES ASSUME Init PROVE IInv OBVIOUS
  <1> DEFINE a == opts.single_account
  <1>1. opts \in Options /\ a \in 0..N /\ (a # 0 => a \in Account)
    BY Given DEF Init, Account
  <1>2. /\ height \in [Account -> 1..MaxHeight] /\ cemented \in [Account -> 0..MaxHeight]
        /\ blocks \in RowsOf(Hash) /\ accounts = {} /\ todo = <<>> /\ lost = {} /\ processed = {}
    BY Given, RpcAssumption DEF Init, RpcAssumption
  <1>3. CASE a = 0
    <2>1. task = Call("ledger", 0) /\ account = 1 BY <1>3 DEF Init
    <2>2. task \in Task /\ task.pc = "ledger" /\ task.retries = 0 /\ task.account = 0
      <3>1. 0 \in 0..N BY Bounds
      <3> QED BY <2>1, <3>1, CallType, CallFacts
    <2>3. TypeOK BY <1>1, <1>2, <2>1, <2>2, Bounds, EmptySeq DEF TypeOK
    <2>4. TaskInv /\ NoGapAboveCursor BY <2>2 DEF TaskInv, NoGapAboveCursor
    <2>5. PagesInv
      <3>1. Reach = 0 BY <2>1 DEF Reach
      <3>2. 1..Reach = {} BY <3>1
      <3>3. account = 1 BY <2>1
      <3> QED BY <1>2, <1>3, <2>2, <3>2, <3>3 DEF PagesInv
    <2> QED BY <2>3, <2>4, <2>5 DEF IInv
  <1>4. CASE a # 0
    <2>1. task = Call("account_info", a) /\ account = 0 BY <1>4 DEF Init
    <2>2. task \in Task BY <1>1, <2>1, CallType
    <2>3. /\ task.pc = "account_info" /\ task.retries = 0 /\ task.account = a /\ task.start = 0
          /\ task.chain = {} /\ task.block_height_cursor = task.frontier_height
          /\ task.imported_block_count = 0
      <3>1. a \in 0..N BY <1>1
      <3> HIDE DEF a
      <3> DEFINE c == Call("account_info", a)
      <3>2. /\ c.pc = "account_info" /\ c.retries = 0 /\ c.account = a /\ c.start = 0
            /\ c.chain = {} /\ c.block_height_cursor = 0 /\ c.frontier_height = 0
            /\ c.imported_block_count = 0
        BY <3>1, CallFacts
      <3>3. task = c BY <2>1
      <3> HIDE DEF c
      <3> QED BY <3>2, <3>3
    <2>4. TypeOK BY <1>1, <1>2, <2>1, <2>2, <2>3, Bounds, EmptySeq DEF TypeOK
    <2>5. TaskInv /\ NoGapAboveCursor
      BY <1>1, <1>4, <2>3, CountType DEF TaskInv, NoGapAboveCursor, BlockCount
    <2>6. PagesInv BY <1>2, <1>4, <2>1, <2>3 DEF PagesInv
    <2> QED BY <2>4, <2>5, <2>6 DEF IInv
  <1> QED BY <1>3, <1>4

\* The inductive invariant is preserved by every step.
THEOREM NextIInv == IInv /\ [Next]_vars => IInv'
  <1> SUFFICES ASSUME IInv, [Next]_vars PROVE IInv' OBVIOUS
  <1>a. TypeOK /\ TaskInv /\ NoGapAboveCursor /\ PagesInv BY DEF IInv
  <1>b. /\ height \in [Account -> 1..MaxHeight] /\ cemented \in [Account -> 0..MaxHeight]
        /\ blocks \in RowsOf(Hash) /\ blocks.hash \subseteq Hash
        /\ accounts \subseteq Account /\ opts \in Options
        /\ account \in {1} \cup 0..N /\ todo \in Seq(Account)
        /\ task \in Task /\ task.retries \in 0..(MAX_INFO_RETRIES + 1)
        /\ lost \subseteq Hash /\ processed \subseteq Account
    <2>1. task.retries \in Nat BY <1>a DEF TypeOK, Task
    <2> QED BY <1>a, <2>1, Bounds DEF TypeOK, RowsOf
  \* The node and save_blocks: the walk sees no fewer rows.
  <1>c. ASSUME UNCHANGED script, blocks' \in RowsOf(Hash), blocks.hash \subseteq blocks'.hash,
               height' \in [Account -> 1..MaxHeight], cemented' \in [Account -> 0..MaxHeight]
        PROVE  IInv'
    <2>1. UNCHANGED <<accounts, opts, account, todo, task, lost, processed>> BY <1>c DEF script
    <2>2. TypeOK' BY <1>a, <1>c, <2>1 DEF TypeOK
    <2>4. task.imported_block_count <= BlockCount(task.account)
            => task.imported_block_count <= BlockCount(task.account)'
      <3>1. task.imported_block_count \in Nat
        BY <1>b, TaskTypes
      <3>2. BlockCount(task.account)' = Cardinality(blocks'.hash \cap Segment(task.account, 1, MaxHeight))
        BY <2>1 DEF BlockCount
      <3>3. BlockCount(task.account) \in Nat /\ BlockCount(task.account)' \in Nat
        BY <3>2, CountType DEF BlockCount
      <3>4. BlockCount(task.account) <= BlockCount(task.account)'
        BY <1>c, <3>2, CountGrows DEF BlockCount
      <3> QED BY <3>1, <3>3, <3>4
    <2>5. TaskInv'
      BY <1>a, <1>c, <2>1, <2>4 DEF TaskInv, Covered, Wanted, BlockCount
    <2>6. NoGapAboveCursor' BY <1>a, <1>c, <2>1 DEF NoGapAboveCursor
    <2>7. PagesInv' BY <1>a, <2>1 DEF PagesInv, Reach
    <2> QED BY <2>2, <2>5, <2>6, <2>7 DEF IInv
  \* What every step of the walk has in common: types, and the pages.
  <1>d. ASSUME NEW t \in Task, NEW more \in SUBSET Hash, TaskStep(t, more),
               blocks' \in RowsOf(Hash), t.account = task.account, t.pc # "ledger",
               t.pc = "exit" => t.status # "", t.retries \in 0..(MAX_INFO_RETRIES + 1),
               t.pc = "next" => t.account \in Account
        PROVE  TypeOK' /\ PagesInv'
    <2>1. /\ task' = t /\ lost' = lost \cup more
          /\ processed' = IF t.pc = "next" THEN processed \cup {t.account} ELSE processed
          /\ UNCHANGED <<height, cemented, accounts, opts, account, todo>>
      BY <1>d DEF TaskStep, node
    <2>2. t.retries <= MAX_INFO_RETRIES + 1
      <3>1. t.retries \in 0..(MAX_INFO_RETRIES + 1) BY <1>d
      <3> QED BY <3>1, Bounds
    <2>3. TypeOK' BY <1>a, <1>d, <2>1, <2>2 DEF TypeOK
    <2>4. PagesInv' BY <1>a, <1>d, <2>1 DEF PagesInv, Reach
    <2> QED BY <2>3, <2>4
  <1>e. ASSUME Exits, blocks' \in RowsOf(Hash) PROVE IInv'
    <2> DEFINE t == [task EXCEPT !.pc = "exit", !.status = "gave up"]
    <2>1. TaskStep(t, {}) BY <1>e DEF Exits
    <2>2. t \in Task BY <1>b DEF Task
    <2>3. t.pc = "exit" /\ t.status = "gave up" /\ t.account = task.account /\ t.retries = task.retries
      BY <1>b DEF Task
    <2>4. task' = t BY <2>1 DEF TaskStep
    <2> HIDE DEF t
    <2>5. TypeOK' /\ PagesInv' BY <1>b, <1>d, <1>e, <2>1, <2>2, <2>3
    <2>6. TaskInv' /\ NoGapAboveCursor' BY <2>3, <2>4 DEF TaskInv, NoGapAboveCursor
    <2> QED BY <2>5, <2>6 DEF IInv
  \* The walk comes back to its loop.
  <1>l. ASSUME NEW t \in Task, NEW more \in SUBSET Hash, TaskStep(Loop(t), more),
               blocks' \in RowsOf(Hash),
               t.account = task.account, t.account \in Account, t.retries = task.retries,
               1 <= t.cursor, 1 <= t.block_count,
               Segment(t.account, t.cursor + 1, t.start) \subseteq blocks'.hash \cup lost',
               \/ t.block_height_cursor = t.frontier_height
               \/ Segment(t.account, t.block_height_cursor, t.start) \subseteq blocks'.hash \cup lost',
               t.imported_block_count <= Cardinality(blocks'.hash \cap Segment(t.account, 1, MaxHeight))
        PROVE  IInv'
    <2> DEFINE u == Loop(t)
    <2>1. /\ u \in Task /\ u.pc \in {"chain", "next"} /\ u.chain = {}
          /\ u.pc = "chain" => u.failed_attempts < MAX_FAILED_ATTEMPTS
          /\ u.pc = "next" /\ u.status = "finished" => ~Wanted(u)
          /\ u.account = t.account /\ u.retries = t.retries
          /\ u.block_count = t.block_count /\ u.frontier_height = t.frontier_height
          /\ u.imported_block_count = t.imported_block_count
          /\ u.start = t.start /\ u.cursor = t.cursor
          /\ u.block_height_cursor = t.block_height_cursor
      BY LoopFacts
    <2>2. TaskStep(u, more) /\ task' = u /\ opts' = opts BY <1>l DEF TaskStep
    <2> HIDE DEF u
    <2>3. TypeOK' /\ PagesInv' BY <1>b, <1>d, <1>l, <2>1, <2>2
    <2>4. NoGapAboveCursor' BY <1>l, <2>1, <2>2 DEF NoGapAboveCursor
    <2>5. TaskInv' BY <1>l, <2>1, <2>2 DEF TaskInv, Covered, Wanted, BlockCount
    <2> QED BY <2>3, <2>4, <2>5 DEF IInv
  <1>1. ASSUME NEW a \in Account, NodeAppend(a) PROVE IInv'
    <2>1. height' \in [Account -> 1..MaxHeight]
      <3>1. height[a] \in 1..MaxHeight /\ Room[a] \in 1..MaxHeight BY <1>b, Given
      <3>2. height[a] + 1 \in 1..MaxHeight BY <1>1, <3>1, Bounds DEF NodeAppend
      <3> QED BY <1>1, <1>b, <3>2 DEF NodeAppend
    <2> QED BY <1>1, <1>b, <1>c, <2>1 DEF NodeAppend
  <1>2. ASSUME NEW a \in Account, NodeCement(a) PROVE IInv'
    <2>1. cemented' \in [Account -> 0..MaxHeight] BY <1>2, <1>b, Bounds DEF NodeCement
    <2> QED BY <1>2, <1>b, <1>c, <2>1 DEF NodeCement
  <1>3. ASSUME NEW b \in Hash, LiveSave(b) PROVE IInv'
    <2> DEFINE r == [hash |-> {b}, confirmed |-> {b}, election_time |-> {b}]
    <2>1. blocks' = UpsertWithElection(blocks, r) BY <1>3 DEF LiveSave
    <2>2. r \in RowsOf(Hash) BY DEF RowsOf
    <2> HIDE DEF r
    <2>3. blocks' \in RowsOf(Hash) /\ blocks.hash \subseteq blocks'.hash
      BY <1>b, <2>1, <2>2, UpsertFacts
    <2> QED BY <1>3, <1>b, <1>c, <2>3 DEF LiveSave, node
  <1>4. CASE GetLedger
    <2>1. task.pc = "ledger" /\ UNCHANGED <<height, cemented, blocks, opts, lost, processed>>
          /\ account' = NextPageStart /\ accounts' = accounts \cup Page /\ task' = Call("next", 0)
      BY <1>4 DEF GetLedger, node
    <2> DEFINE c == Call("next", 0)
               all == [i \in 1..Cardinality(Page) |-> account + i - 1]
    <2>2. c \in Task /\ c.pc = "next" /\ c.account = 0 /\ c.retries = 0 /\ c.chain = {}
          /\ c.status = "" /\ c.start = 0 /\ c.cursor = 0
          /\ c.block_height_cursor = c.frontier_height /\ c.imported_block_count = 0
      <3>1. 0 \in 0..N BY Bounds
      <3>2. c \in Task BY <3>1, CallType
      <3>3. /\ c.pc = "next" /\ c.account = 0 /\ c.retries = 0 /\ c.chain = {}
            /\ c.status = "" /\ c.start = 0 /\ c.cursor = 0
            /\ c.block_height_cursor = 0 /\ c.frontier_height = 0 /\ c.imported_block_count = 0
        BY <3>1, CallFacts
      <3> QED BY <3>2, <3>3
    <2>3. task' = c BY <2>1
    <2>4. todo' = IF ~opts.include_blocks THEN <<>>
                  ELSE IF opts.skip THEN SubSeq(all, 2, Len(all)) ELSE all
      BY <1>4 DEF GetLedger
    <2> HIDE DEF c
    <2>5. TaskInv' /\ NoGapAboveCursor'
      <3>1. c.imported_block_count
              <= Cardinality(blocks'.hash \cap Segment(c.account, 1, MaxHeight))
        <4>1. \A n \in Nat : 0 <= n OBVIOUS
        <4> QED BY <2>2, <4>1, CountType
      <3>2. Segment(c.account, c.cursor + 1, c.start) = {} BY <2>2, EmptySegment
      <3> QED BY <2>2, <2>3, <3>1, <3>2 DEF TaskInv, NoGapAboveCursor, BlockCount
    <2>6. opts.single_account = 0 /\ account # 0 BY <1>a, <2>1 DEF PagesInv
    <2>7. account \in {1} \cup 1..N BY <1>b, <2>6, Bounds
    <2>8. PICK last \in 0..N :
            /\ Page = account..last /\ Cardinality(Page) = last - account + 1
            /\ account <= last + 1
            /\ \/ NextPageStart = 0 /\ last = N
               \/ NextPageStart = last /\ last \in 2..N
      BY <2>7, PageFacts
    <2>9. account \in Nat /\ 1 <= account /\ last \in Nat /\ last <= N /\ N \in Nat
      BY <2>7, Bounds
    <2>10. Page \subseteq Account /\ Cardinality(Page) \in Nat
      BY <2>8, <2>9 DEF Account
    <2>11. /\ all \in Seq(Account) /\ Len(all) = Cardinality(Page)
           /\ \A i \in 1..Len(all) : all[i] = account + i - 1
      <3>1. \A i \in 1..Cardinality(Page) : account + i - 1 \in Account
        BY <2>8, <2>9 DEF Account
      <3>2. all \in [1..Cardinality(Page) -> Account] BY <3>1
      <3> QED BY <2>10, <3>2
    <2> HIDE DEF all
    <2>12. todo' \in Seq(Account)
      <3>1. SubSeq(all, 2, Len(all)) \in Seq(Account) BY <2>11, SubSeqProperties
      <3> QED BY <2>4, <2>11, <3>1, EmptySeq
    <2>13. TypeOK'
      <3>1. account' \in {1} \cup 0..N BY <2>1, <2>8, Bounds
      <3>2. task' \in Task /\ task'.retries <= MAX_INFO_RETRIES + 1
        <4>1. 0 <= MAX_INFO_RETRIES + 1 BY Bounds
        <4> QED BY <2>2, <2>3, <4>1
      <3>3. accounts' \subseteq Account BY <1>b, <2>1, <2>10
      <3> QED BY <1>a, <2>1, <2>12, <3>1, <3>2, <3>3 DEF TypeOK
    <2>14. Reach' = last BY <2>1, <2>8, <2>9 DEF Reach
    <2>15. 1..last \subseteq 1..Reach \cup Page BY <2>6, <2>8, <2>9 DEF Reach
    <2>16. ASSUME opts.include_blocks, NEW a \in 1..last
           PROVE  \/ a \in processed \cup {todo'[i] : i \in DOMAIN todo'}
                  \/ opts.skip /\ a = 1
      <3>1. CASE a \in 1..Reach
        <4>1. task.account = 0 /\ {todo[i] : i \in DOMAIN todo} = {}
          BY <1>a, <2>1, <2>6 DEF PagesInv
        <4>2. \/ a \in processed \cup {task.account} \cup {todo[i] : i \in DOMAIN todo}
              \/ opts.skip /\ a = 1
          BY <1>a, <2>6, <2>16, <3>1 DEF PagesInv
        <4> QED BY <2>9, <4>1, <4>2
      <3>2. CASE a \notin 1..Reach
        <4>1. a \in Page /\ a \in Nat BY <2>9, <2>15, <3>2
        <4>2. a - account + 1 \in 1..Len(all) /\ all[a - account + 1] = a
          BY <2>8, <2>9, <2>11, <4>1
        <4>3. CASE ~opts.skip
          BY <2>4, <2>16, <4>2, <4>3, <2>11
        <4>4. CASE opts.skip
          <5>1. CASE a = account
            BY <2>6, <2>9, <3>2, <4>4, <5>1 DEF Reach
          <5>2. CASE a # account
            <6>1. a - account \in 1..(Len(all) - 1) BY <2>8, <2>9, <4>1, <4>2, <5>2
            <6>2. todo' = SubSeq(all, 2, Len(all)) BY <2>4, <2>16, <4>4
            <6>3. Len(todo') = Len(all) - 1 /\ todo'[a - account] = all[a - account + 1]
              BY <2>11, <6>1, <6>2, SubSeqProperties
            <6> QED BY <2>12, <4>2, <6>1, <6>3
          <5> QED BY <5>1, <5>2
        <4> QED BY <4>3, <4>4
      <3> QED BY <3>1, <3>2
    <2>17. PagesInv'
      <3>1. 1..last \subseteq accounts'
        BY <1>a, <2>1, <2>6, <2>15 DEF PagesInv
      <3> QED BY <2>1, <2>2, <2>3, <2>6, <2>14, <2>16, <3>1 DEF PagesInv
    <2> QED BY <2>5, <2>13, <2>17 DEF IInv
  <1>5. CASE NextAccount
    <2>1. /\ task.pc = "next" /\ lost' = {}
          /\ UNCHANGED <<height, cemented, blocks, accounts, opts, account, processed>>
      BY <1>5 DEF NextAccount, node
    <2> DEFINE pc == IF todo # <<>> THEN "account_info" ELSE IF account # 0 THEN "ledger" ELSE "exit"
               a  == IF todo # <<>> THEN Head(todo) ELSE 0
               c  == Call(pc, a)
    <2>2. task' = c /\ todo' = IF todo # <<>> THEN Tail(todo) ELSE <<>>
      BY <1>5 DEF NextAccount
    <2>3. /\ todo # <<>> => a \in Account /\ todo' \in Seq(Account)
          /\ a \in 0..N
          /\ pc \in {"account_info", "ledger", "exit"}
      <3>1. todo # <<>> => Head(todo) \in Account /\ Tail(todo) \in Seq(Account)
        BY <1>b, HeadTailProperties
      <3>2. Account \subseteq 0..N /\ 0 \in 0..N BY Bounds DEF Account
      <3>3. pc \in {"account_info", "ledger", "exit"} OBVIOUS
      <3> HIDE DEF pc
      <3> QED BY <2>2, <3>1, <3>2, <3>3
    <2> HIDE DEF a, pc
    <2>4. c \in Task BY <2>3, CallType
    <2>5. /\ c.pc = pc /\ c.account = a /\ c.retries = 0 /\ c.chain = {} /\ c.status = ""
          /\ c.start = 0 /\ c.cursor = 0
          /\ c.block_height_cursor = 0 /\ c.frontier_height = 0 /\ c.imported_block_count = 0
      BY <2>3 DEF Call
    <2> HIDE DEF c
    <2>6. TypeOK'
      <3>1. todo' \in Seq(Account) BY <2>2, <2>3, EmptySeq
      <3>2. task' \in Task /\ task'.retries <= MAX_INFO_RETRIES + 1
        <4>1. 0 <= MAX_INFO_RETRIES + 1 BY Bounds
        <4> QED BY <2>2, <2>4, <2>5, <4>1
      <3>3. lost' \subseteq Hash BY <2>1
      <3> QED BY <1>a, <2>1, <3>1, <3>2, <3>3 DEF TypeOK
    <2>7. TaskInv' /\ NoGapAboveCursor'
      <3>1. c.imported_block_count
              <= Cardinality(blocks'.hash \cap Segment(c.account, 1, MaxHeight))
        <4>1. \A n \in Nat : 0 <= n OBVIOUS
        <4> QED BY <2>5, <4>1, CountType
      <3>2. pc = "account_info" => c.account \in Account BY <2>3, <2>5 DEF pc
      <3> QED BY <2>2, <2>3, <2>5, <3>1, <3>2 DEF TaskInv, NoGapAboveCursor, BlockCount
    <2>8. PagesInv'
      <3>1. CASE opts.single_account # 0
        BY <1>a, <2>1, <2>2, <2>5, <3>1 DEF PagesInv, pc
      <3>2. CASE opts.single_account = 0
        <4>1. Reach' = Reach BY <2>1 DEF Reach
        <4>2. task.account \in processed \cup {0} /\ 0 \notin 1..Reach
          BY <1>a, <2>1, <3>2 DEF PagesInv
        <4>3. {todo[i] : i \in DOMAIN todo} \subseteq {a} \cup {todo'[i] : i \in DOMAIN todo'}
          <5>1. CASE todo = <<>> BY <5>1
          <5>2. CASE todo # <<>>
            <6>1. /\ a = todo[1] /\ todo' = Tail(todo) /\ Len(todo) \in Nat
                  /\ DOMAIN todo = 1..Len(todo) /\ DOMAIN todo' = 1..(Len(todo) - 1)
                  /\ \A i \in 1..(Len(todo) - 1) : todo'[i] = todo[i + 1]
              BY <1>b, <2>2, <5>2, HeadTailProperties DEF a
            <6>2. ASSUME NEW i \in 1..Len(todo), i # 1
                  PROVE  i - 1 \in DOMAIN todo' /\ todo[i] = todo'[i - 1]
              BY <6>1, <6>2
            <6> QED BY <6>1, <6>2
          <5> QED BY <5>1, <5>2
        <4>4. opts.include_blocks =>
                \A b \in 1..Reach : \/ b \in processed \cup {a} \cup {todo'[i] : i \in DOMAIN todo'}
                                    \/ opts.skip /\ b = 1
          BY <1>a, <3>2, <4>2, <4>3 DEF PagesInv
        <4>5. pc \in {"ledger", "exit"} => todo' = <<>> /\ a = 0
          BY <2>2 DEF pc, a
        <4>6. (pc = "ledger" => account # 0) /\ (pc = "exit" => account = 0)
          BY DEF pc
        <4> QED
          BY <1>a, <2>1, <2>2, <2>3, <2>5, <3>2, <4>1, <4>4, <4>5, <4>6 DEF PagesInv
      <3> QED BY <3>1, <3>2
    <2> QED BY <2>6, <2>7, <2>8 DEF IInv
  <1>6. CASE CallThrows
    BY <1>6, <1>b, <1>e DEF CallThrows
  <1>7. CASE AccountInfoReply
    <2> DEFINE a == task.account
               from == IF opts.single_account # 0 /\ opts.start_block # 0
                       THEN opts.start_block ELSE height[a]
               n == BlockCount(a)
               t == [task EXCEPT !.block_count = height[a], !.frontier_height = cemented[a],
                        !.block_height_cursor = cemented[a], !.imported_block_count = n,
                        !.start = from, !.cursor = from]
    <2>1. task.pc = "account_info" /\ a \in Account /\ blocks' = blocks
      BY <1>7, <1>a DEF AccountInfoReply, TaskInv
    <2>2. TaskStep(Loop(t), {}) BY <1>7 DEF AccountInfoReply
    <2>3. height[a] \in 1..MaxHeight /\ cemented[a] \in 0..MaxHeight BY <1>b, <2>1
    <2>4. from \in 1..MaxHeight
      <3>1. opts.start_block \in 0..MaxHeight BY <1>b, Given
      <3> QED BY <2>3, <3>1
    <2>5. n \in 0..MaxHeight /\ n = Cardinality(blocks'.hash \cap Segment(a, 1, MaxHeight)) /\ n <= n
      BY <2>1, CountType DEF BlockCount
    <2>6. height[a] \in 0..MaxHeight /\ from \in 0..MaxHeight BY <2>3, <2>4
    <2> HIDE DEF from, n
    <2>7. /\ t \in Task /\ t.account = a /\ t.retries = task.retries /\ t.cursor = from
          /\ t.start = from /\ t.block_count = height[a]
          /\ t.block_height_cursor = t.frontier_height /\ t.imported_block_count = n
      BY <1>b, <2>3, <2>5, <2>6 DEF Task
    <2> HIDE DEF t
    <2>8. Segment(t.account, t.cursor + 1, t.start) = {} /\ 1 <= t.cursor /\ 1 <= t.block_count
      BY <2>3, <2>4, <2>7, EmptySegment
    <2> QED BY <1>b, <1>l, <2>1, <2>2, <2>5, <2>7, <2>8
  <1>8. CASE AccountInfoError
    <2> DEFINE t == [task EXCEPT !.pc = "next", !.status = "gave up"]
    <2>1. TaskStep(t, {}) /\ task.pc = "account_info" /\ blocks' = blocks
      BY <1>8 DEF AccountInfoError
    <2>2. /\ t \in Task /\ t.pc = "next" /\ t.status = "gave up" /\ t.account = task.account
          /\ t.retries = task.retries /\ t.chain = task.chain /\ t.start = task.start
          /\ t.cursor = task.cursor /\ t.block_height_cursor = task.block_height_cursor
          /\ t.frontier_height = task.frontier_height
          /\ t.imported_block_count = task.imported_block_count
      BY <1>b DEF Task
    <2>3. task.account \in Account /\ task.start = 0 BY <1>a, <2>1 DEF TaskInv
    <2> HIDE DEF t
    <2>4. task' = t /\ lost' = lost \cup {} BY <2>1 DEF TaskStep
    <2>5. TypeOK' /\ PagesInv' BY <1>b, <1>d, <2>1, <2>2, <2>3
    <2>6. TaskInv'
      BY <1>a, <2>1, <2>2, <2>4 DEF TaskInv, Covered, BlockCount
    <2>7. NoGapAboveCursor'
      <3>1. Segment(task.account, task.cursor + 1, 0) = {}
        BY <1>b, TaskTypes DEF Segment
      <3> QED BY <2>2, <2>3, <2>4, <3>1 DEF NoGapAboveCursor
    <2> QED BY <2>5, <2>6, <2>7 DEF IInv
  <1>9. CASE AccountInfoFails
    <2>1. task.pc = "account_info" /\ blocks' = blocks BY <1>9 DEF AccountInfoFails
    <2>2. CASE task.retries > MAX_INFO_RETRIES
      BY <1>9, <1>b, <1>e, <2>2 DEF AccountInfoFails
    <2>3. CASE ~(task.retries > MAX_INFO_RETRIES)
      <3> DEFINE t == [task EXCEPT !.retries = @ + 1]
      <3>1. TaskStep(t, {}) BY <1>9, <2>3 DEF AccountInfoFails
      <3>2. task.retries + 1 \in 0..(MAX_INFO_RETRIES + 1) /\ task.retries + 1 \in Nat
        BY <1>b, <2>3, Bounds
      <3>3. /\ t \in Task /\ t.pc = task.pc /\ t.status = task.status /\ t.account = task.account
            /\ t.retries = task.retries + 1 /\ t.chain = task.chain /\ t.start = task.start
            /\ t.cursor = task.cursor /\ t.block_height_cursor = task.block_height_cursor
            /\ t.frontier_height = task.frontier_height
            /\ t.imported_block_count = task.imported_block_count
        BY <1>b, <3>2 DEF Task
      <3> HIDE DEF t
      <3>4. task' = t /\ lost' = lost \cup {} BY <3>1 DEF TaskStep
      <3>5. TypeOK' /\ PagesInv' BY <1>b, <1>d, <2>1, <3>1, <3>2, <3>3
      <3>6. TaskInv'
        BY <1>a, <2>1, <3>3, <3>4 DEF TaskInv, Covered, BlockCount
      <3>7. NoGapAboveCursor' BY <2>1, <3>3, <3>4 DEF NoGapAboveCursor
      <3> QED BY <3>5, <3>6, <3>7 DEF IInv
    <2> QED BY <2>2, <2>3
  <1>10. CASE ChainReply
    <2> DEFINE size == Least(task.block_count, BLOCKS_BATCH_SIZE)
               last == IF task.cursor > size THEN task.cursor - size + 1 ELSE 1
               seg  == Segment(task.account, last, task.cursor)
               t == [task EXCEPT !.pc = "info", !.cursor = last, !.chain = seg]
    <2>1. TaskStep(t, {}) /\ task.pc = "chain" /\ blocks' = blocks
      BY <1>10 DEF ChainReply
    <2>2. /\ task.account \in Account /\ 1 <= task.cursor /\ 1 <= task.block_count
          /\ task.cursor \in 0..MaxHeight /\ task.block_count \in 0..MaxHeight
          /\ task.start \in 0..MaxHeight
      BY <1>a, <1>b, <2>1, TaskTypes DEF TaskInv
    <2>3. size \in Nat /\ 1 <= size BY <2>2, Bounds DEF Least
    <2> HIDE DEF size
    <2>4. last \in 1..MaxHeight /\ last <= task.cursor BY <2>2, <2>3, Bounds
    <2>5. last \in 0..MaxHeight BY <2>4
    <2> HIDE DEF last
    <2>6. seg \subseteq Hash BY <2>2, <2>4, SegmentType
    <2>7. Segment(task.account, last, task.start)
            \subseteq seg \cup Segment(task.account, task.cursor + 1, task.start)
      BY <2>2, <2>4, SegmentSplit, Bounds
    <2> HIDE DEF seg
    <2>8. /\ t \in Task /\ t.pc = "info" /\ t.cursor = last /\ t.chain = seg
          /\ t.account = task.account /\ t.retries = task.retries /\ t.start = task.start
          /\ t.block_count = task.block_count /\ t.failed_attempts = task.failed_attempts
          /\ t.block_height_cursor = task.block_height_cursor
          /\ t.frontier_height = task.frontier_height
          /\ t.imported_block_count = task.imported_block_count
      BY <1>b, <2>5, <2>6 DEF Task
    <2> HIDE DEF t
    <2>9. task' = t /\ lost' = lost \cup {} BY <2>1 DEF TaskStep
    <2>10. TypeOK' /\ PagesInv' BY <1>b, <1>d, <2>1, <2>8
    <2>11. Segment(task.account, last, task.start) \subseteq blocks.hash \cup seg \cup lost
      <3>1. Segment(task.account, task.cursor + 1, task.start) \subseteq blocks.hash \cup lost
        BY <1>a, <2>1 DEF NoGapAboveCursor, TaskInv
      <3> QED BY <2>7, <3>1
    <2>12. TaskInv'
      BY <1>a, <2>1, <2>2, <2>4, <2>8, <2>9, <2>11 DEF TaskInv, Covered, BlockCount
    <2>13. NoGapAboveCursor'
      <3>1. Segment(task.account, last + 1, task.start) \subseteq Segment(task.account, last, task.start)
        BY <2>2, <2>4 DEF Segment
      <3> QED BY <2>1, <2>8, <2>9, <2>11, <3>1 DEF NoGapAboveCursor
    <2> QED BY <2>10, <2>12, <2>13 DEF IInv
  \* A failed attempt keeps the cursor, and forgets the batch.
  <1>f. ASSUME NEW more \in SUBSET Hash, task.pc \in {"chain", "info"}, blocks' = blocks,
               TaskStep(Failed(task), more), task.chain \subseteq blocks.hash \cup lost'
        PROVE  IInv'
    <2> DEFINE t == [task EXCEPT !.failed_attempts = @ + 1]
    <2>1. TaskStep(Loop(t), more) BY <1>f DEF Failed
    <2>2. /\ task.account \in Account /\ 1 <= task.cursor /\ 1 <= task.block_count
          /\ task.failed_attempts < MAX_FAILED_ATTEMPTS
          /\ \/ task.block_height_cursor = task.frontier_height
             \/ Covered(task.block_height_cursor)
          /\ task.imported_block_count <= BlockCount(task.account)
      BY <1>a, <1>f DEF TaskInv
    <2>3. task.failed_attempts + 1 \in 0..MAX_FAILED_ATTEMPTS
      BY <1>b, <2>2, TaskTypes, Bounds
    <2>4. /\ t \in Task /\ t.account = task.account /\ t.retries = task.retries
          /\ t.cursor = task.cursor /\ t.start = task.start /\ t.block_count = task.block_count
          /\ t.block_height_cursor = task.block_height_cursor
          /\ t.frontier_height = task.frontier_height
          /\ t.imported_block_count = task.imported_block_count
      BY <1>b, <2>3 DEF Task
    <2> HIDE DEF t
    <2>5. lost' = lost \cup more BY <2>1 DEF TaskStep
    <2>6. Segment(t.account, t.cursor + 1, t.start) \subseteq blocks'.hash \cup lost'
      BY <1>a, <1>f, <2>4, <2>5 DEF NoGapAboveCursor
    <2>7. \/ t.block_height_cursor = t.frontier_height
          \/ Segment(t.account, t.block_height_cursor, t.start) \subseteq blocks'.hash \cup lost'
      BY <1>f, <2>2, <2>4, <2>5 DEF Covered
    <2>8. t.imported_block_count <= Cardinality(blocks'.hash \cap Segment(t.account, 1, MaxHeight))
      BY <1>f, <2>2, <2>4 DEF BlockCount
    <2>9. 1 <= t.cursor /\ 1 <= t.block_count /\ t.account \in Account /\ blocks' \in RowsOf(Hash)
      BY <1>b, <1>f, <2>2, <2>4
    <2> QED BY <1>l, <2>1, <2>4, <2>6, <2>7, <2>8, <2>9
  <1>11. CASE ChainFails
    <2>1. task.pc = "chain" /\ TaskStep(Failed(task), {}) /\ blocks' = blocks
      BY <1>11 DEF ChainFails
    <2>2. task.chain = {} BY <1>a, <2>1 DEF TaskInv
    <2> QED BY <1>f, <2>1, <2>2
  <1>12. CASE BlocksInfoReply
    <2> DEFINE r == [ hash |-> task.chain, election_time |-> {},
                      confirmed |-> { b \in task.chain : b[2] <= cemented[b[1]] } ]
               t == [task EXCEPT !.pc = "save", !.block_height_cursor = task.cursor, !.rows = r]
    <2>1. TaskStep(t, {}) /\ task.pc = "info" /\ blocks' = blocks
      BY <1>12 DEF BlocksInfoReply
    <2>2. task.chain \subseteq Hash /\ task.cursor \in 0..MaxHeight BY <1>b, TaskTypes
    <2>3. r \in RowsOf(Hash) /\ r.hash = task.chain BY <2>2 DEF RowsOf
    <2> HIDE DEF r
    <2>4. /\ t \in Task /\ t.pc = "save" /\ t.cursor = task.cursor /\ t.chain = task.chain
          /\ t.account = task.account /\ t.retries = task.retries /\ t.start = task.start
          /\ t.block_count = task.block_count /\ t.failed_attempts = task.failed_attempts
          /\ t.block_height_cursor = task.cursor /\ t.rows.hash = task.chain
          /\ t.frontier_height = task.frontier_height
          /\ t.imported_block_count = task.imported_block_count
      BY <1>b, <2>2, <2>3 DEF Task
    <2> HIDE DEF t
    <2>5. task' = t /\ lost' = lost \cup {} BY <2>1 DEF TaskStep
    <2>6. TypeOK' /\ PagesInv' BY <1>b, <1>d, <2>1, <2>4
    <2>7. TaskInv' BY <1>a, <2>1, <2>4, <2>5 DEF TaskInv, Covered, BlockCount
    <2>8. NoGapAboveCursor' BY <1>a, <2>1, <2>4, <2>5 DEF NoGapAboveCursor
    <2> QED BY <2>6, <2>7, <2>8 DEF IInv
  <1>13. CASE BlocksInfoFails
    <2>1. /\ task.pc = "info" /\ TaskStep(Failed(task), task.chain \ blocks.hash)
          /\ blocks' = blocks
      BY <1>13 DEF BlocksInfoFails
    <2>2. task.chain \ blocks.hash \in SUBSET Hash BY <1>b, TaskTypes
    <2>3. lost' = lost \cup (task.chain \ blocks.hash) BY <2>1 DEF TaskStep
    <2> QED BY <1>f, <2>1, <2>2, <2>3
  <1>14. CASE BlocksInfoError
    BY <1>14, <1>b, <1>e DEF BlocksInfoError
  \* The insert is answered, well or badly.
  <1>s. ASSUME NEW f \in 0..MAX_FAILED_ATTEMPTS, NEW more \in SUBSET Hash,
               task.pc = "save", blocks' \in RowsOf(Hash), blocks.hash \subseteq blocks'.hash,
               task.chain \subseteq blocks'.hash \cup lost',
               LET t == [task EXCEPT !.failed_attempts = f]
               IN  TaskStep(IF opts.all_blocks THEN Loop(t) ELSE [t EXCEPT !.pc = "count"], more)
        PROVE  IInv'
    <2> DEFINE t == [task EXCEPT !.failed_attempts = f]
               u == [t EXCEPT !.pc = "count"]
               n == Cardinality(blocks'.hash \cap Segment(task.account, 1, MaxHeight))
    <2>1. /\ task.account \in Account /\ 1 <= task.cursor /\ 1 <= task.block_count
          /\ \/ task.block_height_cursor = task.frontier_height
             \/ Covered(task.block_height_cursor)
          /\ task.imported_block_count <= BlockCount(task.account)
          /\ Covered(task.cursor)
      BY <1>a, <1>s DEF TaskInv
    <2>2. lost' = lost \cup more BY <1>s DEF TaskStep
    <2>3. Segment(task.account, task.cursor, task.start) \subseteq blocks'.hash \cup lost'
      BY <1>s, <2>1, <2>2 DEF Covered
    <2>4. \/ task.block_height_cursor = task.frontier_height
          \/ Segment(task.account, task.block_height_cursor, task.start) \subseteq blocks'.hash \cup lost'
      BY <1>s, <2>1, <2>2 DEF Covered
    <2>5. task.imported_block_count <= n
      <3>1. BlockCount(task.account) <= n BY <1>s, CountGrows DEF BlockCount
      <3>2. BlockCount(task.account) \in Nat /\ n \in Nat /\ task.imported_block_count \in Nat
        BY <1>b, CountType, TaskTypes DEF BlockCount
      <3> HIDE DEF n
      <3> QED BY <2>1, <3>1, <3>2
    <2>6. Segment(task.account, task.cursor + 1, task.start) \subseteq blocks'.hash \cup lost'
      <3>1. task.cursor \in Nat /\ task.start \in 0..MaxHeight BY <1>b, TaskTypes
      <3>2. Segment(task.account, task.cursor + 1, task.start)
              \subseteq Segment(task.account, task.cursor, task.start)
        BY <3>1, Bounds DEF Segment
      <3> QED BY <2>3, <3>2
    <2>7. CASE opts.all_blocks
      <3>1. TaskStep(Loop(t), more) BY <1>s, <2>7
      <3>2. /\ t \in Task /\ t.account = task.account /\ t.retries = task.retries
            /\ t.cursor = task.cursor /\ t.start = task.start /\ t.block_count = task.block_count
            /\ t.block_height_cursor = task.block_height_cursor
            /\ t.frontier_height = task.frontier_height
            /\ t.imported_block_count = task.imported_block_count
        BY <1>b DEF Task
      <3> HIDE DEF t
      <3> QED BY <1>l, <1>s, <2>1, <2>4, <2>5, <2>6, <3>1, <3>2
    <2>8. CASE ~opts.all_blocks
      <3>1. TaskStep(u, more) BY <1>s, <2>8
      <3>2. /\ u \in Task /\ u.pc = "count" /\ u.cursor = task.cursor /\ u.chain = task.chain
            /\ u.account = task.account /\ u.retries = task.retries /\ u.start = task.start
            /\ u.block_count = task.block_count
            /\ u.block_height_cursor = task.block_height_cursor
            /\ u.frontier_height = task.frontier_height
            /\ u.imported_block_count = task.imported_block_count
        BY <1>b DEF Task
      <3> HIDE DEF u
      <3>3. task' = u BY <3>1 DEF TaskStep
      <3>4. TypeOK' /\ PagesInv' BY <1>b, <1>d, <1>s, <3>1, <3>2
      <3>5. TaskInv'
        BY <1>s, <2>1, <2>3, <2>4, <2>5, <3>2, <3>3 DEF TaskInv, Covered, BlockCount
      <3>6. NoGapAboveCursor' BY <2>6, <3>2, <3>3 DEF NoGapAboveCursor
      <3> QED BY <3>4, <3>5, <3>6 DEF IInv
    <2> QED BY <2>7, <2>8
  <1>15. CASE InsertCommits
    <2>1. task.pc = "save" /\ blocks' = UpsertKeepingElection(blocks, task.rows)
      BY <1>15 DEF InsertCommits
    <2>2. task.rows.hash = task.chain /\ task.rows \in RowsOf(Hash)
      BY <1>a, <1>b, <2>1, TaskTypes DEF TaskInv
    <2>3. blocks' \in RowsOf(Hash) /\ blocks'.hash = blocks.hash \cup task.chain
      BY <1>b, <2>1, <2>2, UpsertFacts
    <2>4. 0 \in 0..MAX_FAILED_ATTEMPTS BY Bounds
    <2>5. LET t == [task EXCEPT !.failed_attempts = 0]
          IN  TaskStep(IF opts.all_blocks THEN Loop(t) ELSE [t EXCEPT !.pc = "count"], {})
      BY <1>15 DEF InsertCommits
    <2>6. {} \in SUBSET Hash /\ task.chain \subseteq blocks'.hash \cup lost'
          /\ blocks.hash \subseteq blocks'.hash
      BY <2>3
    <2> QED BY <1>s, <2>1, <2>3, <2>4, <2>5, <2>6
  <1>16. CASE InsertFails
    <2>1. task.pc = "save" /\ blocks' \in {blocks, UpsertKeepingElection(blocks, task.rows)}
      BY <1>16 DEF InsertFails
    <2>2. task.rows \in RowsOf(Hash) /\ task.chain \subseteq Hash BY <1>b, TaskTypes
    <2>3. blocks' \in RowsOf(Hash) /\ blocks.hash \subseteq blocks'.hash
      BY <1>b, <2>1, <2>2, UpsertFacts
    <2>4. CASE task.failed_attempts + 1 > 1
      BY <1>16, <1>e, <2>3, <2>4 DEF InsertFails
    <2>5. CASE ~(task.failed_attempts + 1 > 1)
      <3> DEFINE t == [task EXCEPT !.failed_attempts = @ + 1]
                 f == task.failed_attempts + 1
                 more == task.chain \ blocks'.hash
      <3>1. TaskStep(IF opts.all_blocks THEN Loop(t) ELSE [t EXCEPT !.pc = "count"], more)
        BY <1>16, <2>5 DEF InsertFails
      <3>2. lost' = lost \cup more BY <3>1 DEF TaskStep
      <3>3. f \in 0..MAX_FAILED_ATTEMPTS
        <4>1. task.failed_attempts < MAX_FAILED_ATTEMPTS BY <1>a, <2>1 DEF TaskInv
        <4> QED BY <1>b, <4>1, TaskTypes, Bounds
      <3>4. more \in SUBSET Hash /\ task.chain \subseteq blocks'.hash \cup lost'
        BY <2>2, <3>2
      <3>5. t = [task EXCEPT !.failed_attempts = f] OBVIOUS
      <3> HIDE DEF f, more
      <3> QED BY <1>s, <2>1, <2>3, <3>1, <3>3, <3>4, <3>5
    <2> QED BY <2>4, <2>5
  <1>17. CASE CountReply
    <2> DEFINE n == BlockCount(task.account)
               t == [task EXCEPT !.imported_block_count = n]
    <2>1. task.pc = "count" /\ TaskStep(Loop(t), {}) /\ blocks' = blocks
      BY <1>17 DEF CountReply
    <2>2. /\ n \in 0..MaxHeight /\ n <= n
          /\ n = Cardinality(blocks'.hash \cap Segment(task.account, 1, MaxHeight))
      BY <2>1, CountType DEF BlockCount
    <2> HIDE DEF n
    <2>3. /\ t \in Task /\ t.account = task.account /\ t.retries = task.retries
          /\ t.cursor = task.cursor /\ t.start = task.start /\ t.block_count = task.block_count
          /\ t.block_height_cursor = task.block_height_cursor
          /\ t.frontier_height = task.frontier_height /\ t.imported_block_count = n
      BY <1>b, <2>2 DEF Task
    <2> HIDE DEF t
    <2>4. lost' = lost \cup {} BY <2>1 DEF TaskStep
    <2>5. /\ task.account \in Account /\ 1 <= task.cursor /\ 1 <= task.block_count
          /\ task.chain \subseteq blocks.hash \cup lost
          /\ \/ task.block_height_cursor = task.frontier_height
             \/ Covered(task.block_height_cursor)
      BY <1>a, <2>1 DEF TaskInv
    <2>6. Segment(t.account, t.cursor + 1, t.start) \subseteq blocks'.hash \cup lost'
      BY <1>a, <2>1, <2>3, <2>4, <2>5 DEF NoGapAboveCursor
    <2>7. \/ t.block_height_cursor = t.frontier_height
          \/ Segment(t.account, t.block_height_cursor, t.start) \subseteq blocks'.hash \cup lost'
      BY <2>1, <2>3, <2>4, <2>5 DEF Covered
    <2> QED BY <1>b, <1>l, <2>1, <2>2, <2>3, <2>5, <2>6, <2>7
  <1>18. CASE UNCHANGED vars
    <2>1. UNCHANGED script /\ UNCHANGED <<height, cemented, blocks>>
      BY <1>18 DEF vars, node, script
    <2> QED BY <1>b, <1>c, <2>1
  <1> QED
    BY <1>1, <1>2, <1>3, <1>4, <1>5, <1>6, <1>7, <1>8, <1>9, <1>10, <1>11, <1>12, <1>13, <1>14,
       <1>15, <1>16, <1>17, <1>18
    DEF Next, ScriptStep

\* Every reachable state satisfies the inductive invariant.
THEOREM Invariance == Spec => []IInv
  BY InitIInv, NextIInv, PTL DEF Spec

------------------------------------------------------------------------------
\* What the invariant says of an account that is done.
LEMMA WalkedIsComplete ==
  ASSUME IInv PROVE FinishedMeansComplete
  <1> DEFINE a == task.account
             F == task.frontier_height
             above == blocks.hash \cap Segment(a, F + 1, MaxHeight)
  <1> SUFFICES ASSUME task.pc = "next", task.status = "finished", lost = {},
                      task.start >= F,
                      IF opts.all_blocks THEN F > 1 ELSE above = {}
               PROVE  Segment(a, 1, F) \subseteq blocks.hash
    BY DEF FinishedMeansComplete
  <1>1. /\ ~Wanted(task) /\ task.chain = {}
        /\ task.block_height_cursor = F \/ Covered(task.block_height_cursor)
        /\ task.imported_block_count <= BlockCount(a)
    BY DEF IInv, TaskInv
  <1>2. /\ F \in 0..MaxHeight /\ task.start \in 0..MaxHeight
        /\ task.block_height_cursor \in 0..MaxHeight /\ task.imported_block_count \in 0..MaxHeight
    BY TaskTypes DEF IInv, TypeOK
  <1>3. CASE opts.all_blocks
    <2>1. task.block_height_cursor <= 1 /\ F > 1 BY <1>1, <1>2, <1>3, Bounds DEF Wanted
    <2>2. Covered(task.block_height_cursor) BY <1>1, <1>2, <2>1, Bounds
    <2>3. Segment(a, 1, F) \subseteq Segment(a, task.block_height_cursor, task.start)
      BY <1>2, <2>1, Bounds DEF Segment
    <2> QED BY <1>1, <2>2, <2>3 DEF Covered
  <1>4. CASE ~opts.all_blocks
    <2> DEFINE S == Segment(a, 1, F)
               T == blocks.hash \cap S
    <2>1. task.imported_block_count >= F BY <1>1, <1>2, <1>4, Bounds DEF Wanted
    <2>2. blocks.hash \cap Segment(a, 1, MaxHeight) = T
      <3>1. Segment(a, 1, F) \subseteq Segment(a, 1, MaxHeight) BY <1>2, Bounds DEF Segment
      <3>2. Segment(a, 1, MaxHeight) \subseteq Segment(a, 1, F) \cup Segment(a, F + 1, MaxHeight)
        BY <1>2, SegmentSplit, Bounds
      <3> QED BY <1>4, <3>1, <3>2
    <2>3. Cardinality(T) = BlockCount(a) /\ Cardinality(T) \in Nat
      BY <2>2, CountType DEF BlockCount
    <2>4. IsFiniteSet(S) /\ Cardinality(S) = F BY <1>2, SegmentCardinality, Bounds
    <2>5. T \in SUBSET S OBVIOUS
    <2> HIDE DEF S, T
    <2>6. Cardinality(T) <= F BY <2>4, <2>5, FS_Subset
    <2>7. Cardinality(T) = Cardinality(S) BY <1>1, <1>2, <2>1, <2>3, <2>4, <2>6, Bounds
    <2>8. T = S BY <2>4, <2>5, <2>7, FS_Subset
    <2> QED BY <2>8 DEF S, T
  <1> QED BY <1>3, <1>4

\* The walk leaves no block behind, whatever fails.
THEOREM NoGap == Spec => []NoGapAboveCursor
  <1>1. IInv => NoGapAboveCursor BY DEF IInv
  <1> QED BY <1>1, Invariance, PTL

\* A walk that ends as finished, with no batch skipped, has saved the account.
THEOREM Finished == Spec => []FinishedMeansComplete
  <1>1. IInv => FinishedMeansComplete BY WalkedIsComplete
  <1> QED BY <1>1, Invariance, PTL

\* No account is left out between the pages.
THEOREM Visited == Spec => []EveryAccountVisited
  <1>1. \A a \in Account : a # 0 BY Bounds DEF Account
  <1>2. account = 0 => 1..Reach = Account BY DEF Reach, Account
  <1>3. todo = <<>> => \A x : x \notin {todo[i] : i \in DOMAIN todo} OBVIOUS
  <1>4. ASSUME IInv, task.pc = "exit", task.status = "", opts.single_account = 0
        PROVE  /\ accounts = Account
               /\ opts.include_blocks => \A a \in Account : a \in processed \/ (opts.skip /\ a = 1)
    <2>1. PagesInv /\ accounts \subseteq Account BY <1>4 DEF IInv, TypeOK
    <2>2. account = 0 /\ todo = <<>> /\ task.account = 0 /\ 1..Reach \subseteq accounts
      BY <1>4, <2>1 DEF PagesInv
    <2>3. opts.include_blocks
          => \A a \in 1..Reach :
               \/ a \in processed \cup {task.account} \cup {todo[i] : i \in DOMAIN todo}
               \/ opts.skip /\ a = 1
      BY <1>4, <2>1 DEF PagesInv
    <2> QED BY <1>1, <1>2, <1>3, <2>1, <2>2, <2>3
  <1>5. IInv => EveryAccountVisited BY <1>4 DEF EveryAccountVisited
  <1> QED BY <1>5, Invariance, PTL

\* No statement of the import names the election columns, and save_blocks fills them.
THEOREM Election == Spec => ElectionKept
  <1>1. ASSUME [Next]_vars PROVE [blocks.election_time \subseteq blocks'.election_time]_blocks
    <2>1. ASSUME NEW b \in Hash, LiveSave(b)
          PROVE  blocks.election_time \subseteq blocks'.election_time
      BY <2>1 DEF LiveSave, UpsertWithElection
    <2>2. CASE InsertCommits \/ InsertFails
      BY <2>2 DEF InsertCommits, InsertFails, UpsertKeepingElection
    <2>3. ASSUME blocks' # blocks, ~InsertCommits, ~InsertFails,
                 \A b \in Hash : ~LiveSave(b)
          PROVE  FALSE
      BY <1>1, <2>3
      DEF Next, vars, ScriptStep, NodeAppend, NodeCement, GetLedger, NextAccount, CallThrows,
          AccountInfoReply, AccountInfoError, AccountInfoFails, ChainReply, ChainFails,
          BlocksInfoReply, BlocksInfoFails, BlocksInfoError, CountReply
    <2> QED BY <2>1, <2>2, <2>3
  <1> QED BY <1>1, PTL DEF Spec, ElectionKept
===============================================================================
