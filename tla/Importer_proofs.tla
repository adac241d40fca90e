--------------------------- MODULE Importer_proofs ---------------------------
(***************************************************************************)
(* Proofs about the confirmation pipeline (SaveBlocks), for every set of   *)
(* blocks and every number of reconnections, failures and deaths of the    *)
(* process, and about its composition with the backfill (Importer), for    *)
(* every number of accounts and heights and every table at the start.      *)
(***************************************************************************)
EXTENDS Importer, TLAPS

HeldByOthers(s) == UNION { savers[t].hashes : t \in Saver \ {s} }

\* What a step of one chain does to the hashes that the chains hold.
LEMMA HeldUpdate ==
  ASSUME savers \in [Saver -> SaverState], NEW s \in Saver, NEW v,
         savers' = [savers EXCEPT ![s] = v]
  PROVE  /\ Held = savers[s].hashes \cup HeldByOthers(s)
         /\ Held' = v.hashes \cup HeldByOthers(s)
  <1>1. Held = savers[s].hashes \cup HeldByOthers(s)
    BY DEF Held, HeldByOthers
  <1>2. /\ savers'[s] = v
        /\ \A t \in Saver \ {s} : savers'[t] = savers[t]
    OBVIOUS
  <1>3. Held' = v.hashes \cup HeldByOthers(s)
    BY <1>2 DEF Held, HeldByOthers
  <1> QED BY <1>1, <1>3

\* What the steps of a chain have in common: under the invariant, what the
\* others hold is apart from what this chain holds, and stays.
LEMMA ChainStep ==
  ASSUME PipelineInv, NEW s \in Saver, NEW v \in SaverState,
         savers' = [savers EXCEPT ![s] = v]
  PROVE  /\ savers[s] \in SaverState /\ SaverInv(s)
         /\ Held = savers[s].hashes \cup HeldByOthers(s)
         /\ Held' = v.hashes \cup HeldByOthers(s)
         /\ Held' = (Held \ savers[s].hashes) \cup v.hashes
         /\ savers[s].hashes \subseteq Held
         /\ blocks_queue \cap Held = {}
         /\ savers'[s] = v
         /\ \A t \in Saver \ {s} : savers'[t] = savers[t]
         /\ savers' \in [Saver -> SaverState]
  <1>1. savers \in [Saver -> SaverState] BY DEF PipelineInv, TypeOK
  <1>2. savers[s].hashes \cap HeldByOthers(s) = {}
    BY DEF PipelineInv, SingleOwner, HeldByOthers
  <1>3. blocks_queue \cap Held = {} BY DEF PipelineInv, SingleOwner, Held
  <1>4. SaverInv(s) BY DEF PipelineInv
  <1>5. /\ Held = savers[s].hashes \cup HeldByOthers(s)
        /\ Held' = v.hashes \cup HeldByOthers(s)
    BY <1>1, HeldUpdate
  <1> QED BY <1>1, <1>2, <1>3, <1>4, <1>5

\* Hashes that only move between one chain and the queue keep a single owner.
LEMMA OwnersKept ==
  ASSUME PipelineInv, NEW s \in Saver, NEW v \in SaverState,
         savers' = [savers EXCEPT ![s] = v],
         v.hashes \cap blocks_queue' = {},
         v.hashes \cup blocks_queue' \subseteq savers[s].hashes \cup blocks_queue
  PROVE  SingleOwner'
  <1>1. /\ savers'[s] = v
        /\ \A t \in Saver \ {s} : savers'[t] = savers[t]
    BY ChainStep
  <1> QED BY <1>1 DEF PipelineInv, SingleOwner

\* The statement of save_blocks keeps the rows well-formed.
LEMMA UpsertType ==
  ASSUME NEW Keys, NEW b \in RowsOf(Keys), NEW r \in RowsOf(Keys)
  PROVE  UpsertWithElection(b, r) \in RowsOf(Keys)
  <1> DEFINE u == UpsertWithElection(b, r)
  <1>1. u \in [hash : SUBSET Keys, confirmed : SUBSET Keys, election_time : SUBSET Keys]
    BY DEF RowsOf, UpsertWithElection
  <1>2. u.confirmed \subseteq u.hash /\ u.election_time \subseteq u.hash
    BY DEF RowsOf, UpsertWithElection
  <1> QED BY <1>1, <1>2 DEF RowsOf

LEMMA EmptyRowsType ==
  ASSUME NEW Keys PROVE NoRows \in RowsOf(Keys)
  BY DEF NoRows, RowsOf

LEMMA RowsForType ==
  ASSUME NEW S \in SUBSET Hash PROVE RowsFor(S) \in RowsOf(Hash)
  BY DEF RowsFor, RowsOf

\* The script starts with no hash in its hands.
LEMMA ScriptStarts ==
  ASSUME ScriptInit, cemented \subseteq Hash, blocks \in RowsOf(Hash),
         faults \in 0..MaxFaults, crashes \in 0..MaxCrashes
  PROVE  PipelineInv /\ Pending = {} /\ dropped = {}
  <1> USE SaveBlocksAssumption DEF SaveBlocksAssumption, ScriptInit
  <1>1. Off \in SaverState BY EmptyRowsType DEF Off, SaverState
  <1>2. Held = {} /\ Pending = {} BY DEF Held, Off, Pending
  <1>3. TypeOK
    <2>1. savers \in [Saver -> SaverState] BY <1>1
    <2>2. opens \in 0..MaxOpens OBVIOUS
    <2> QED BY <2>1, <2>2 DEF TypeOK
  <1>4. OnlyConfirmed /\ InfoHeld /\ NoInfoLeak
    BY <1>2 DEF OnlyConfirmed, InfoHeld, NoInfoLeak
  <1>5. SingleOwner BY DEF SingleOwner, Off
  <1>6. \A s \in Saver : SaverInv(s) BY DEF SaverInv, Off
  <1> QED BY <1>2, <1>3, <1>4, <1>5, <1>6 DEF PipelineInv

\* The initial state satisfies the inductive invariant.
THEOREM InitIInv == Init => IInv
  <1> SUFFICES ASSUME Init PROVE IInv OBVIOUS
  <1>1. blocks \in RowsOf(Hash) BY EmptyRowsType DEF Init
  <1>2. faults \in 0..MaxFaults /\ crashes \in 0..MaxCrashes
    BY SaveBlocksAssumption DEF SaveBlocksAssumption, Init
  <1>3. PipelineInv BY <1>1, <1>2, ScriptStarts DEF Init
  <1> QED BY <1>3 DEF Init, IInv, SavedWithElection, NoRows

------------------------------------------------------------------------------
\* The death of the process leaves nothing that the invariant is about, but the
\* hashes that are given up.
LEMMA ResetKeepsPipeline ==
  ASSUME PipelineInv, ProcessReset, UNCHANGED <<cemented, blocks>>,
         faults' \in 0..MaxFaults, crashes' \in 0..MaxCrashes
  PROVE  PipelineInv' /\ Intake!Drop(Pending) /\ Pending \in SUBSET Hash
  <1>a. TypeOK /\ OnlyConfirmed BY DEF PipelineInv
  <1>1. savers' = [s \in Saver |-> Off] BY DEF ProcessReset
  <1>2. Held' = {} BY <1>1 DEF Held, Off
  <1>3. Pending \subseteq Hash BY <1>a DEF OnlyConfirmed, TypeOK
  <1>4. TypeOK'
    <2>1. Off \in SaverState BY EmptyRowsType DEF Off, SaverState
    <2>2. savers' \in [Saver -> SaverState] BY <1>1, <2>1
    <2>3. opens' \in 0..MaxOpens
      BY SaveBlocksAssumption DEF SaveBlocksAssumption, ProcessReset
    <2> QED BY <1>a, <1>3, <2>2, <2>3 DEF ProcessReset, TypeOK
  <1>5. OnlyConfirmed' /\ InfoHeld' /\ NoInfoLeak'
    BY <1>2 DEF ProcessReset, OnlyConfirmed, InfoHeld, NoInfoLeak, Pending
  <1>6. SingleOwner' BY <1>1 DEF SingleOwner, Off
  <1>7. (\A s \in Saver : SaverInv(s))' BY <1>1 DEF SaverInv, Off
  <1>8. Intake!Drop(Pending) BY <1>2 DEF ProcessReset, Pending, Intake!Drop
  <1> QED BY <1>3, <1>4, <1>5, <1>6, <1>7, <1>8 DEF PipelineInv

\* The pipeline's invariant is preserved by every step.  The steps of a chain
\* share the facts of ChainStep: what the others hold is disjoint from what this
\* chain holds, and stays.
THEOREM NextPipelineInv == PipelineInv /\ [Next]_vars => PipelineInv'
  <1> SUFFICES ASSUME PipelineInv, [Next]_vars PROVE PipelineInv' OBVIOUS
  <1> USE SaveBlocksAssumption DEF SaveBlocksAssumption
  <1>a. /\ TypeOK /\ OnlyConfirmed /\ SingleOwner /\ InfoHeld
        /\ \A s \in Saver : SaverInv(s)
        /\ NoInfoLeak
    BY DEF PipelineInv
  <1>b. Off \in SaverState /\ Timer \in SaverState
    BY EmptyRowsType DEF Off, Timer, SaverState
  <1>1. ASSUME NEW h \in Hash, Cement(h) PROVE PipelineInv'
    <2>1. Held' = Held BY <1>1 DEF Cement, Held
    <2> QED
      BY <1>1, <1>a, <2>1 DEF Cement, PipelineInv, TypeOK, OnlyConfirmed, SingleOwner, InfoHeld,
         SaverInv, NoInfoLeak, Pending
  <1>2. ASSUME NEW h \in Hash, OnMessage(h) PROVE PipelineInv'
    <2>1. Held' = Held BY <1>2 DEF OnMessage, Held
    <2>2. h \notin Held BY <1>2, <1>a DEF OnMessage, OnlyConfirmed, Pending
    <2>3. \A s \in Saver : h \notin savers[s].hashes BY <2>2 DEF Held
    <2>4. TypeOK' BY <1>2, <1>a DEF OnMessage, TypeOK
    <2>5. OnlyConfirmed' /\ InfoHeld' /\ NoInfoLeak'
      BY <1>2, <1>a, <2>1, <2>2 DEF OnMessage, OnlyConfirmed, InfoHeld, NoInfoLeak, Pending
    <2>6. SingleOwner' BY <1>2, <1>a, <2>3 DEF OnMessage, SingleOwner
    <2>7. (\A s \in Saver : SaverInv(s))' BY <1>2, <1>a DEF OnMessage, SaverInv
    <2> QED BY <2>4, <2>5, <2>6, <2>7 DEF PipelineInv
  <1>3. CASE OnOpen
    <2>1. opens + 1 \in Saver /\ opens \in Nat BY <1>3, <1>a DEF OnOpen, TypeOK, Saver
    <2>2. savers[opens + 1].hashes = {}
      <3>1. SaverInv(opens + 1) BY <1>a, <2>1
      <3>2. opens + 1 > opens BY <2>1
      <3> QED BY <3>1, <3>2 DEF SaverInv
    <2>3. savers' = [savers EXCEPT ![opens + 1] = Timer] BY <1>3 DEF OnOpen
    <2>4. Held' = Held
      <3>1. savers \in [Saver -> SaverState] BY <1>a DEF TypeOK
      <3>2. /\ Held = savers[opens + 1].hashes \cup HeldByOthers(opens + 1)
            /\ Held' = Timer.hashes \cup HeldByOthers(opens + 1)
        BY <2>1, <2>3, <3>1, HeldUpdate
      <3> QED BY <2>2, <3>2 DEF Timer
    <2>5. TypeOK' BY <1>3, <1>a, <1>b, <2>1 DEF OnOpen, TypeOK
    <2>6. OnlyConfirmed' /\ InfoHeld' /\ NoInfoLeak'
      BY <1>3, <1>a, <2>4 DEF OnOpen, OnlyConfirmed, InfoHeld, NoInfoLeak, Pending
    <2>7. SingleOwner' BY <1>3, <1>a, <2>1, <2>3 DEF OnOpen, SingleOwner, TypeOK, Timer
    <2>8. (\A s \in Saver : SaverInv(s))'
      BY <1>3, <1>a, <2>1, <2>3 DEF OnOpen, SaverInv, TypeOK, Timer, Saver
    <2> QED BY <2>5, <2>6, <2>7, <2>8 DEF PipelineInv
  <1>4. CASE OnClose
    <2>1. Held' = Held BY <1>4 DEF OnClose, Held
    <2>2. TypeOK'
      <3>1. faults' \in 0..MaxFaults BY <1>4, <1>a DEF OnClose, TypeOK
      <3> QED BY <1>4, <1>a, <3>1 DEF OnClose, TypeOK
    <2> QED
      BY <1>4, <1>a, <2>1, <2>2 DEF OnClose, PipelineInv, OnlyConfirmed, SingleOwner, InfoHeld,
         SaverInv, NoInfoLeak, Pending
  <1>5. ASSUME NEW s \in Saver, SaveBlocksStart(s) PROVE PipelineInv'
    <2> DEFINE v == [pc |-> "rpc", hashes |-> blocks_queue, rows |-> NoRows]
    <2>1. v \in SaverState BY <1>a, EmptyRowsType DEF TypeOK, SaverState
    <2>2. savers' = [savers EXCEPT ![s] = v] BY <1>5 DEF SaveBlocksStart
    <2>3. v.hashes = blocks_queue /\ v.pc = "rpc" OBVIOUS
    <2> HIDE DEF v
    <2>4. savers[s].hashes = {} BY <1>5, <1>a DEF SaveBlocksStart, SaverInv
    <2>5. Pending' = Pending
      BY <1>5, <2>1, <2>2, <2>3, <2>4, ChainStep DEF SaveBlocksStart, Pending
    <2>6. TypeOK' BY <1>5, <1>a, <2>1, <2>2, ChainStep DEF SaveBlocksStart, TypeOK
    <2>7. OnlyConfirmed' /\ InfoHeld' /\ NoInfoLeak'
      BY <1>5, <1>a, <2>5 DEF SaveBlocksStart, OnlyConfirmed, InfoHeld, NoInfoLeak
    <2>8. SingleOwner'
      BY <1>5, <2>1, <2>2, <2>3, OwnersKept DEF SaveBlocksStart
    <2>9. (\A t \in Saver : SaverInv(t))'
      BY <1>5, <1>a, <2>1, <2>2, <2>3, ChainStep DEF SaveBlocksStart, SaverInv
    <2> QED BY <1>5, <1>a, <2>6, <2>7, <2>8, <2>9 DEF SaveBlocksStart, PipelineInv
  <1>6. ASSUME NEW s \in Saver, BlocksInfoReply(s) PROVE PipelineInv'
    <2> DEFINE v == [savers[s] EXCEPT !.pc = "db", !.rows = RowsFor(savers[s].hashes)]
    <2>0. savers[s] \in SaverState BY <1>a DEF TypeOK
    <2>1. v \in SaverState BY <2>0, RowsForType DEF SaverState
    <2>2. savers' = [savers EXCEPT ![s] = v] BY <1>6 DEF BlocksInfoReply
    <2>3. v.hashes = savers[s].hashes /\ v.pc = "db" /\ v.rows = RowsFor(savers[s].hashes)
      BY <2>0 DEF SaverState
    <2> HIDE DEF v
    <2>4. /\ savers[s].hashes \subseteq election_info_queue
          /\ savers[s].hashes \subseteq cemented
      BY <1>a DEF InfoHeld, OnlyConfirmed, Pending, Held
    <2>5. Pending' = Pending
      <3>0. /\ Held' = (Held \ savers[s].hashes) \cup v.hashes
            /\ savers[s].hashes \subseteq Held
        BY <2>1, <2>2, ChainStep
      <3>1. Held' = Held BY <2>3, <3>0
      <3> QED BY <1>6, <3>1 DEF BlocksInfoReply, Pending
    <2>6. TypeOK' BY <1>6, <1>a, <2>1, <2>2, ChainStep DEF BlocksInfoReply, TypeOK
    <2>7. OnlyConfirmed' /\ InfoHeld' /\ NoInfoLeak'
      BY <1>6, <1>a, <2>5 DEF BlocksInfoReply, OnlyConfirmed, InfoHeld, NoInfoLeak
    <2>8. SingleOwner'
      <3>1. savers[s].hashes \cap blocks_queue = {} BY <1>a DEF SingleOwner
      <3> QED BY <1>6, <2>1, <2>2, <2>3, <3>1, OwnersKept DEF BlocksInfoReply
    <2>9. (\A t \in Saver : SaverInv(t))'
      <3>1. /\ v.rows.hash = v.hashes /\ v.rows.confirmed = v.hashes
            /\ v.rows.election_time = v.hashes
        BY <2>3, <2>4 DEF RowsFor
      <3> QED
        BY <1>6, <1>a, <2>1, <2>2, <2>3, <3>1, ChainStep DEF BlocksInfoReply, SaverInv
    <2> QED BY <1>6, <1>a, <2>6, <2>7, <2>8, <2>9 DEF BlocksInfoReply, PipelineInv
  <1>7. ASSUME NEW s \in Saver, NothingToSave(s) PROVE PipelineInv'
    <2>1. savers' = [savers EXCEPT ![s] = Timer] /\ savers[s].hashes = {}
      BY <1>7 DEF NothingToSave
    <2>2. Pending' = Pending
      <3>1. /\ Held' = Held \ savers[s].hashes
            /\ savers[s].hashes \subseteq Held /\ blocks_queue \cap Held = {}
        <4>1. /\ Held' = (Held \ savers[s].hashes) \cup Timer.hashes
              /\ savers[s].hashes \subseteq Held /\ blocks_queue \cap Held = {}
          BY <1>b, <2>1, ChainStep
        <4> QED BY <4>1 DEF Timer
      <3> QED BY <1>7, <2>1, <3>1 DEF NothingToSave, Pending
    <2>3. TypeOK' BY <1>7, <1>a, <1>b, <2>1, ChainStep DEF NothingToSave, TypeOK
    <2>4. OnlyConfirmed' /\ InfoHeld' /\ NoInfoLeak'
      BY <1>7, <1>a, <2>2 DEF NothingToSave, OnlyConfirmed, InfoHeld, NoInfoLeak
    <2>5. SingleOwner' BY <1>7, <1>b, <2>1, OwnersKept DEF NothingToSave, Timer
    <2>6. (\A t \in Saver : SaverInv(t))'
      BY <1>7, <1>a, <1>b, <2>1, ChainStep DEF NothingToSave, SaverInv, Timer
    <2> QED BY <1>7, <1>a, <2>3, <2>4, <2>5, <2>6 DEF NothingToSave, PipelineInv
  <1>8. ASSUME NEW s \in Saver, ErrorReply(s) PROVE PipelineInv'
    <2>1. savers' = [savers EXCEPT ![s] = Timer] BY <1>8 DEF ErrorReply
    <2>2. Pending' = Pending \ savers[s].hashes
      <3>1. /\ Held' = Held \ savers[s].hashes
            /\ savers[s].hashes \subseteq Held /\ blocks_queue \cap Held = {}
        <4>1. /\ Held' = (Held \ savers[s].hashes) \cup Timer.hashes
              /\ savers[s].hashes \subseteq Held /\ blocks_queue \cap Held = {}
          BY <1>b, <2>1, ChainStep
        <4> QED BY <4>1 DEF Timer
      <3> QED BY <1>8, <2>1, <3>1 DEF ErrorReply, Pending
    <2>3. TypeOK'
      <3>1. savers[s].hashes \subseteq Hash BY <1>a DEF TypeOK, SaverState
      <3> QED BY <1>8, <1>a, <1>b, <2>1, <3>1, ChainStep DEF ErrorReply, TypeOK
    <2>4. OnlyConfirmed' /\ InfoHeld' /\ NoInfoLeak'
      BY <1>8, <1>a, <2>2 DEF ErrorReply, OnlyConfirmed, InfoHeld, NoInfoLeak
    <2>5. SingleOwner' BY <1>8, <1>b, <2>1, OwnersKept DEF ErrorReply, Timer
    <2>6. (\A t \in Saver : SaverInv(t))'
      BY <1>8, <1>a, <1>b, <2>1, ChainStep DEF ErrorReply, SaverInv, Timer
    <2> QED BY <1>8, <1>a, <2>3, <2>4, <2>5, <2>6 DEF ErrorReply, PipelineInv
  <1>9. ASSUME NEW s \in Saver, InsertCommits(s) PROVE PipelineInv'
    <2> DEFINE v == [savers[s] EXCEPT !.pc = "ack"]
    <2>0. savers[s] \in SaverState BY <1>a DEF TypeOK
    <2>1. v \in SaverState BY <2>0 DEF SaverState
    <2>2. savers' = [savers EXCEPT ![s] = v] BY <1>9 DEF InsertCommits
    <2>3. v.hashes = savers[s].hashes /\ v.pc = "ack" /\ v.rows = savers[s].rows
      BY <2>0 DEF SaverState
    <2> HIDE DEF v
    <2>4. /\ savers[s].rows.hash = savers[s].hashes
          /\ savers[s].rows.confirmed = savers[s].hashes
          /\ savers[s].rows.election_time = savers[s].hashes
      BY <1>9, <1>a DEF InsertCommits, SaverInv
    <2>5. /\ blocks'.hash = blocks.hash \cup savers[s].hashes
          /\ blocks'.election_time =
                (blocks.election_time \ savers[s].hashes) \cup savers[s].hashes
      BY <1>9, <2>4 DEF InsertCommits, UpsertWithElection
    <2>6. Pending' = Pending
      <3>0. /\ Held' = (Held \ savers[s].hashes) \cup v.hashes
            /\ savers[s].hashes \subseteq Held
        BY <2>1, <2>2, ChainStep
      <3>1. Held' = Held BY <2>3, <3>0
      <3> QED BY <1>9, <3>1 DEF InsertCommits, Pending
    <2>7. TypeOK'
      <3>1. blocks' \in RowsOf(Hash)
        BY <1>9, <1>a, <2>0, UpsertType DEF InsertCommits, TypeOK, SaverState
      <3> QED BY <1>9, <1>a, <2>1, <2>2, <3>1, ChainStep DEF InsertCommits, TypeOK
    <2>8. OnlyConfirmed' /\ InfoHeld' /\ NoInfoLeak'
      BY <1>9, <1>a, <2>6 DEF InsertCommits, OnlyConfirmed, InfoHeld, NoInfoLeak
    <2>9. SingleOwner'
      <3>1. savers[s].hashes \cap blocks_queue = {} BY <1>a DEF SingleOwner
      <3> QED BY <1>9, <2>1, <2>2, <2>3, <3>1, OwnersKept DEF InsertCommits
    <2>10. (\A t \in Saver : SaverInv(t))'
      BY <1>9, <1>a, <2>1, <2>2, <2>3, <2>4, <2>5, ChainStep DEF InsertCommits, SaverInv
    <2> QED BY <2>7, <2>8, <2>9, <2>10 DEF PipelineInv
  <1>10. ASSUME NEW s \in Saver, SaveBlocksEnd(s) PROVE PipelineInv'
    <2>1. savers' = [savers EXCEPT ![s] = Timer] BY <1>10 DEF SaveBlocksEnd
    <2>2. /\ Pending' = Pending \ savers[s].hashes
          /\ election_info_queue' = election_info_queue \ savers[s].hashes
      <3>1. /\ Held' = Held \ savers[s].hashes
            /\ savers[s].hashes \subseteq Held /\ blocks_queue \cap Held = {}
        <4>1. /\ Held' = (Held \ savers[s].hashes) \cup Timer.hashes
              /\ savers[s].hashes \subseteq Held /\ blocks_queue \cap Held = {}
          BY <1>b, <2>1, ChainStep
        <4> QED BY <4>1 DEF Timer
      <3> QED BY <1>10, <2>1, <3>1 DEF SaveBlocksEnd, Pending
    <2>3. TypeOK' BY <1>10, <1>a, <1>b, <2>1, ChainStep DEF SaveBlocksEnd, TypeOK
    <2>4. OnlyConfirmed' /\ InfoHeld' /\ NoInfoLeak'
      BY <1>10, <1>a, <2>2 DEF SaveBlocksEnd, OnlyConfirmed, InfoHeld, NoInfoLeak
    <2>5. SingleOwner' BY <1>10, <1>b, <2>1, OwnersKept DEF SaveBlocksEnd, Timer
    <2>6. (\A t \in Saver : SaverInv(t))'
      BY <1>10, <1>a, <1>b, <2>1, ChainStep DEF SaveBlocksEnd, SaverInv, Timer
    <2> QED BY <1>10, <1>a, <2>3, <2>4, <2>5, <2>6 DEF SaveBlocksEnd, PipelineInv
  <1>11. ASSUME NEW s \in Saver, SaveBlocksFails(s) PROVE PipelineInv'
    <2>1. savers' = [savers EXCEPT ![s] = Timer] BY <1>11 DEF SaveBlocksFails
    <2>2. Pending' = Pending
      <3>1. /\ Held' = Held \ savers[s].hashes
            /\ savers[s].hashes \subseteq Held /\ blocks_queue \cap Held = {}
        <4>1. /\ Held' = (Held \ savers[s].hashes) \cup Timer.hashes
              /\ savers[s].hashes \subseteq Held /\ blocks_queue \cap Held = {}
          BY <1>b, <2>1, ChainStep
        <4> QED BY <4>1 DEF Timer
      <3> QED BY <1>11, <2>1, <3>1 DEF SaveBlocksFails, Pending
    <2>3. TypeOK'
      <3>1. savers[s].hashes \subseteq Hash BY <1>a DEF TypeOK, SaverState
      <3> QED BY <1>11, <1>a, <1>b, <2>1, <3>1, ChainStep DEF SaveBlocksFails, TypeOK
    <2>4. OnlyConfirmed' /\ InfoHeld' /\ NoInfoLeak'
      BY <1>11, <1>a, <2>2 DEF SaveBlocksFails, OnlyConfirmed, InfoHeld, NoInfoLeak
    <2>5. SingleOwner' BY <1>11, <1>b, <2>1, OwnersKept DEF SaveBlocksFails, Timer
    <2>6. (\A t \in Saver : SaverInv(t))'
      BY <1>11, <1>a, <1>b, <2>1, ChainStep DEF SaveBlocksFails, SaverInv, Timer
    <2> QED BY <1>11, <1>a, <2>3, <2>4, <2>5, <2>6 DEF SaveBlocksFails, PipelineInv
  <1>12. CASE Crash
    <2>1. faults' \in 0..MaxFaults /\ crashes' \in 0..MaxCrashes
      BY <1>12, <1>a DEF Crash, TypeOK
    <2> QED BY <1>12, <2>1, ResetKeepsPipeline DEF Crash
  <1>13. CASE UNCHANGED vars
    <2>1. Held' = Held BY <1>13 DEF vars, Held
    <2> QED
      BY <1>13, <1>a, <2>1 DEF vars, PipelineInv, TypeOK, OnlyConfirmed, SingleOwner, InfoHeld,
         SaverInv, NoInfoLeak, Pending
  <1> QED
    BY <1>1, <1>2, <1>3, <1>4, <1>5, <1>6, <1>7, <1>8, <1>9, <1>10, <1>11, <1>12, <1>13
    DEF Next, SaverStep

\* What the statement of save_blocks does to the table: every row that it writes
\* is confirmed, and has its election info.
LEMMA SaverStepRows ==
  ASSUME PipelineInv, NEW s \in Saver, SaverStep(s)
  PROVE  \/ blocks' = blocks
         \/ \E S \in SUBSET Pending :
              /\ blocks'.hash = blocks.hash \cup S
              /\ blocks'.confirmed = blocks.confirmed \cup S
              /\ blocks'.election_time = blocks.election_time \cup S
  <1>1. CASE InsertCommits(s)
    <2> DEFINE S == savers[s].hashes
    <2>1. /\ savers[s].rows.hash = S /\ savers[s].rows.confirmed = S
          /\ savers[s].rows.election_time = S
      BY <1>1 DEF InsertCommits, PipelineInv, SaverInv
    <2>2. /\ blocks'.hash = blocks.hash \cup S
          /\ blocks'.confirmed = blocks.confirmed \cup S
          /\ blocks'.election_time = blocks.election_time \cup S
      BY <1>1, <2>1 DEF InsertCommits, UpsertWithElection
    <2>3. S \in SUBSET Pending BY DEF Pending, Held
    <2> QED BY <2>2, <2>3
  <1>2. CASE ~InsertCommits(s)
    BY <1>2 DEF SaverStep, SaveBlocksStart, BlocksInfoReply, NothingToSave, ErrorReply,
       SaveBlocksEnd, SaveBlocksFails
  <1> QED BY <1>1, <1>2

\* The inductive invariant is preserved by every step, when no one else writes.
THEOREM NextIInv == IInv /\ [Next]_vars => IInv'
  <1> SUFFICES ASSUME IInv, [Next]_vars PROVE IInv' OBVIOUS
  <1>1. PipelineInv /\ SavedWithElection BY DEF IInv
  <1>2. PipelineInv' BY <1>1, NextPipelineInv
  <1>3. SavedWithElection'
    <2>1. ASSUME NEW s \in Saver, SaverStep(s) PROVE SavedWithElection'
      BY <1>1, <2>1, SaverStepRows DEF SavedWithElection
    <2>2. CASE ~\E s \in Saver : SaverStep(s)
      <3>1. blocks' = blocks
        BY <2>2 DEF Next, vars, Cement, OnMessage, OnOpen, OnClose, Crash
      <3> QED BY <1>1, <3>1 DEF SavedWithElection
    <2> QED BY <2>1, <2>2
  <1> QED BY <1>2, <1>3 DEF IInv

\* Every reachable state satisfies the inductive invariant.
THEOREM Invariance == Spec => []IInv
  BY InitIInv, NextIInv, PTL DEF Spec

\* The four safety properties of the runs, for every instance.
THEOREM Safety == Spec => [](TypeOK /\ SingleOwner /\ SavedWithElection /\ NoInfoLeak)
  <1>1. IInv => TypeOK /\ SingleOwner /\ SavedWithElection /\ NoInfoLeak
    BY DEF IInv, PipelineInv
  <1> QED BY <1>1, Invariance, PTL

\* No election info outlives its hash: what is kept is for hashes that are still
\* to be saved, or were dropped with an error answer.
THEOREM NoLeak == Spec => []NoInfoLeak
  <1>1. IInv => NoInfoLeak BY DEF IInv, PipelineInv
  <1> QED BY <1>1, Invariance, PTL

------------------------------------------------------------------------------
\* Under the refinement mapping, every step of the pipeline is one of BlockIntake
\* or leaves pending, saved and dropped as they are.  A chain retires its hashes
\* when the statement is acknowledged, which SaverInv shows to be after the
\* table has them.
THEOREM PipelineImplements == PipelineInv /\ [Next]_vars => [Intake!Next]_(Intake!vars)
  <1> SUFFICES ASSUME PipelineInv, [Next]_vars PROVE [Intake!Next]_(Intake!vars) OBVIOUS
  <1>a. TypeOK /\ OnlyConfirmed /\ SingleOwner /\ \A s \in Saver : SaverInv(s)
    BY DEF PipelineInv
  <1>b. Off \in SaverState /\ Timer \in SaverState
    BY EmptyRowsType DEF Off, Timer, SaverState
  <1> DEFINE Stutter == UNCHANGED <<Pending, blocks.hash, dropped>>
  <1>c. Stutter => [Intake!Next]_(Intake!vars) BY DEF Intake!vars
  <1>1. ASSUME NEW h \in Hash, Cement(h) PROVE Stutter
    BY <1>1 DEF Cement, Pending, Held
  <1>2. ASSUME NEW h \in Hash, OnMessage(h) PROVE Intake!Receive(h)
    BY <1>2 DEF OnMessage, Intake!Receive, Pending, Held
  <1>3. CASE OnOpen
    <2>1. opens + 1 \in Saver /\ opens \in Nat
      BY <1>3, <1>a, SaveBlocksAssumption DEF SaveBlocksAssumption, OnOpen, TypeOK, Saver
    <2>2. savers[opens + 1].hashes = {}
      <3>1. SaverInv(opens + 1) /\ opens + 1 > opens BY <1>a, <2>1
      <3> QED BY <3>1 DEF SaverInv
    <2>3. Held' = (Held \ savers[opens + 1].hashes) \cup Timer.hashes
      BY <1>3, <1>b, <2>1, ChainStep DEF OnOpen
    <2>4. Held' = Held BY <2>2, <2>3 DEF Timer
    <2> QED BY <1>3, <1>c, <2>4 DEF OnOpen, Pending
  <1>4. CASE OnClose BY <1>4, <1>c DEF OnClose, Pending, Held
  <1>5. ASSUME NEW s \in Saver, SaveBlocksStart(s) PROVE Stutter
    <2> DEFINE v == [pc |-> "rpc", hashes |-> blocks_queue, rows |-> NoRows]
    <2>1. v \in SaverState BY <1>a, EmptyRowsType DEF TypeOK, SaverState
    <2>2. savers' = [savers EXCEPT ![s] = v] BY <1>5 DEF SaveBlocksStart
    <2>3. v.hashes = blocks_queue OBVIOUS
    <2> HIDE DEF v
    <2>4. savers[s].hashes = {} BY <1>5, <1>a DEF SaveBlocksStart, SaverInv
    <2>5. Held' = (Held \ savers[s].hashes) \cup v.hashes BY <2>1, <2>2, ChainStep
    <2> QED BY <1>5, <2>3, <2>4, <2>5 DEF SaveBlocksStart, Pending
  <1>6. ASSUME NEW s \in Saver, BlocksInfoReply(s) PROVE Stutter
    <2> DEFINE v == [savers[s] EXCEPT !.pc = "db", !.rows = RowsFor(savers[s].hashes)]
    <2>1. savers[s] \in SaverState BY <1>a DEF TypeOK
    <2>2. v \in SaverState /\ v.hashes = savers[s].hashes
      BY <2>1, RowsForType DEF SaverState
    <2>3. savers' = [savers EXCEPT ![s] = v] BY <1>6 DEF BlocksInfoReply
    <2> HIDE DEF v
    <2>4. /\ Held' = (Held \ savers[s].hashes) \cup v.hashes
          /\ savers[s].hashes \subseteq Held
      BY <2>2, <2>3, ChainStep
    <2>5. Held' = Held BY <2>2, <2>4
    <2> QED BY <1>6, <2>5 DEF BlocksInfoReply, Pending
  <1>7. ASSUME NEW s \in Saver, savers' = [savers EXCEPT ![s] = Timer]
        PROVE  /\ Held' = Held \ savers[s].hashes
               /\ savers[s].hashes \subseteq Held
               /\ blocks_queue \cap Held = {}
    <2>1. /\ Held' = (Held \ savers[s].hashes) \cup Timer.hashes
          /\ savers[s].hashes \subseteq Held /\ blocks_queue \cap Held = {}
      BY <1>b, <1>7, ChainStep
    <2> QED BY <2>1 DEF Timer
  <1>8. ASSUME NEW s \in Saver, NothingToSave(s) PROVE Stutter
    BY <1>7, <1>8 DEF NothingToSave, Pending
  <1>9. ASSUME NEW s \in Saver, ErrorReply(s) PROVE Intake!Drop(savers[s].hashes)
    BY <1>7, <1>9 DEF ErrorReply, Pending, Intake!Drop
  <1>10. ASSUME NEW s \in Saver, InsertCommits(s)
         PROVE Intake!Save(savers[s].rows.hash)
    <2> DEFINE v == [savers[s] EXCEPT !.pc = "ack"]
    <2>1. savers[s] \in SaverState BY <1>a DEF TypeOK
    <2>2. v \in SaverState /\ v.hashes = savers[s].hashes BY <2>1 DEF SaverState
    <2>3. savers' = [savers EXCEPT ![s] = v] BY <1>10 DEF InsertCommits
    <2> HIDE DEF v
    <2>4. /\ Held' = (Held \ savers[s].hashes) \cup v.hashes
          /\ savers[s].hashes \subseteq Held
      BY <2>2, <2>3, ChainStep
    <2>5. Held' = Held BY <2>2, <2>4
    <2> QED BY <1>10, <2>5 DEF InsertCommits, UpsertWithElection, Pending, Intake!Save
  <1>11. ASSUME NEW s \in Saver, SaveBlocksEnd(s) PROVE Intake!Retire(savers[s].hashes)
    <2>1. savers[s].hashes \subseteq blocks.hash
      BY <1>11, <1>a DEF SaveBlocksEnd, SaverInv
    <2> QED BY <1>7, <1>11, <2>1 DEF SaveBlocksEnd, Pending, Intake!Retire
  <1>12. ASSUME NEW s \in Saver, SaveBlocksFails(s) PROVE Stutter
    BY <1>7, <1>12 DEF SaveBlocksFails, Pending
  <1>13. CASE Crash
    <2>1. faults' \in 0..MaxFaults /\ crashes' \in 0..MaxCrashes
      BY <1>13, <1>a, SaveBlocksAssumption DEF SaveBlocksAssumption, Crash, TypeOK
    <2> QED BY <1>13, <2>1, ResetKeepsPipeline DEF Crash, Intake!Next
  <1>14. CASE UNCHANGED vars BY <1>14, <1>c DEF vars, Pending, Held
  <1>15. ASSUME NEW s \in Saver
         PROVE  /\ savers[s].hashes \in SUBSET Hash
                /\ savers[s].rows.hash \in SUBSET Hash
    BY <1>a DEF TypeOK, SaverState, RowsOf
  <1>16. ASSUME NEW s \in Saver, SaverStep(s) PROVE Stutter \/ Intake!Next
    BY <1>5, <1>6, <1>8, <1>9, <1>10, <1>11, <1>12, <1>15, <1>16 DEF SaverStep, Intake!Next
  <1> HIDE DEF Stutter
  <1> QED
    BY <1>c, <1>1, <1>2, <1>3, <1>4, <1>13, <1>14, <1>16 DEF Next, Intake!Next

\* The pipeline delivers at least once: the initial state is one of BlockIntake.
THEOREM Refinement == Spec => ImplementsIntake
  <1>1. Init => Intake!Init
    BY EmptyRowsType DEF Init, ScriptInit, Intake!Init, Pending, Held, Off, NoRows
  <1>2. IInv /\ [Next]_vars => [Intake!Next]_(Intake!vars)
    BY PipelineImplements DEF IInv
  <1> QED BY <1>1, <1>2, Invariance, PTL DEF Spec, ImplementsIntake, Intake!Spec

------------------------------------------------------------------------------
(***************************************************************************)
(* The composition.  The backfill's proofs are taken over the variables of *)
(* the importer: Chains is Update with its theorems, so that its           *)
(* definitions say the same.                                               *)
(***************************************************************************)
Chains == INSTANCE Backfill_proofs

\* The importer's constants are as the backfill needs them.
LEMMA UpdateConstants ==
  /\ MaxHeight \in Nat /\ MIN_BATCH_SIZE \in Nat \ {0}
  /\ {MAX_BACKFILL_ITERATIONS, MaxFaults, MaxCrashes} \subseteq Nat
  /\ InitHeight \in [Account -> 0..MaxHeight]
  /\ InitSaved \subseteq
       SUBSET { b \in Account \X (1..MaxHeight) : b[2] <= InitHeight[b[1]] }
  BY ImporterAssumption, SaveBlocksAssumption DEF ImporterAssumption, SaveBlocksAssumption

LEMMA UpdateInitIInv == Update!Init => Update!IInv
  <1>1. Chains!Init => Chains!IInv
    BY Chains!InitIInv, UpdateConstants DEF Chains!InitIInv
  <1>2. Chains!Init <=> Update!Init
    BY DEF Update!Block, Chains!Block, Update!Segment, Chains!Segment,
         Update!Idle, Chains!Idle, Update!Init, Chains!Init
  <1>3. Chains!IInv <=> Update!IInv
    BY DEF Update!Block, Chains!Block, Update!Segment, Chains!Segment,
         Update!Task, Chains!Task, Update!Job, Chains!Job, Update!Idle, Chains!Idle,
         Update!RowsOf, Chains!RowsOf, Update!TypeOK, Chains!TypeOK,
         Update!NoGapAboveCursor, Chains!NoGapAboveCursor,
         Update!ConfirmedIsCemented, Chains!ConfirmedIsCemented,
         Update!TaskInv, Chains!TaskInv, Update!IInv, Chains!IInv
  <1> QED BY <1>1, <1>2, <1>3

\* The backfill's invariant is kept by its own steps and the node's.
LEMMA UpdateNextIInv == Update!IInv /\ Update!Next => Update!IInv'
  <1>1. Chains!IInv /\ Chains!Next => Chains!IInv'
    BY Chains!NextIInv, UpdateConstants DEF Chains!NextIInv
  <1>2. Chains!Next <=> Update!Next
    BY DEF Update!Block, Chains!Block, Update!Segment, Chains!Segment,
         Update!Chain, Chains!Chain, Update!BlockCount, Chains!BlockCount,
         Update!Cardinality, Chains!Cardinality, Update!Idle, Chains!Idle,
         Update!NoRows, Chains!NoRows,
         Update!UpsertWithElection, Chains!UpsertWithElection,
         Update!UpsertKeepingElection, Chains!UpsertKeepingElection,
         Update!NodeAppend, Chains!NodeAppend, Update!NodeCement, Chains!NodeCement,
         Update!LiveSave, Chains!LiveSave, Update!AddJob, Chains!AddJob,
         Update!Scan, Chains!Scan, Update!Loop, Chains!Loop,
         Update!UpdateStart, Chains!UpdateStart, Update!BatchSize, Chains!BatchSize,
         Update!Last, Chains!Last, Update!ChainReply, Chains!ChainReply,
         Update!BlocksInfoReply, Chains!BlocksInfoReply,
         Update!ErrorReply, Chains!ErrorReply,
         Update!InsertCommits, Chains!InsertCommits, Update!Digits, Chains!Digits,
         Update!StringLE, Chains!StringLE, Update!Stalled, Chains!Stalled,
         Update!CountReply, Chains!CountReply,
         Update!ProcessReset, Chains!ProcessReset,
         Update!UpdateFails, Chains!UpdateFails, Update!Crash, Chains!Crash,
         Update!UpdateStep, Chains!UpdateStep, Update!Next, Chains!Next
  <1>3. (Chains!IInv <=> Update!IInv) /\ (Chains!IInv <=> Update!IInv)'
    BY DEF Update!Block, Chains!Block, Update!Segment, Chains!Segment,
         Update!Task, Chains!Task, Update!Job, Chains!Job, Update!Idle, Chains!Idle,
         Update!RowsOf, Chains!RowsOf, Update!TypeOK, Chains!TypeOK,
         Update!NoGapAboveCursor, Chains!NoGapAboveCursor,
         Update!ConfirmedIsCemented, Chains!ConfirmedIsCemented,
         Update!TaskInv, Chains!TaskInv, Update!IInv, Chains!IInv
  <1> QED BY <1>1, <1>2, <1>3

LEMMA SameRows == Update!Block = Hash /\ Update!RowsOf(Update!Block) = RowsOf(Hash)
  BY ImporterAssumption DEF ImporterAssumption, Update!Block, Update!RowsOf, RowsOf

\* The backfill does not mind rows that another writes, if they are confirmed ones.
LEMMA OthersKeepUpdateInv ==
  ASSUME Update!IInv, UNCHANGED updateVars, UNCHANGED cemented, blocks' \in RowsOf(Hash),
         blocks.hash \subseteq blocks'.hash, blocks'.confirmed \subseteq cemented,
         faults' \in 0..MaxFaults, crashes' \in 0..MaxCrashes
  PROVE  Update!IInv'
  BY SameRows DEF Update!IInv, updateVars, Update!TypeOK, Update!TaskInv,
     Update!NoGapAboveCursor, Update!ConfirmedIsCemented

\* What a step of the backfill does to the table: a batch may be inserted, whose
\* statement leaves the election columns alone.
LEMMA BackfillStepRows ==
  ASSUME Update!IInv, BackfillStep
  PROVE  /\ UNCHANGED <<cemented, crashes>>
         /\ \/ blocks' = blocks
            \/ /\ task # Update!Idle /\ task.pc = "db" /\ task'.pc = "count"
               /\ \E S \in SUBSET Hash : blocks'.hash = blocks.hash \cup S
               /\ blocks'.election_time = blocks.election_time
  <1>1. CASE Update!InsertCommits
    <2>1. task # Update!Idle /\ task.pc = "db"
      BY <1>1 DEF Update!InsertCommits, Update!Idle
    <2>2. task \in Update!Task BY <2>1 DEF Update!IInv, Update!TypeOK
    <2>3. task.rows.hash \in SUBSET Hash
      BY <2>2, SameRows DEF Update!Task, Update!RowsOf
    <2>4. task'.pc = "count" BY <1>1, <2>2 DEF Update!InsertCommits, Update!Task
    <2>5. /\ blocks'.hash = blocks.hash \cup task.rows.hash
          /\ blocks'.election_time = blocks.election_time
      BY <1>1 DEF Update!InsertCommits, Update!UpsertKeepingElection
    <2> QED BY <1>1, <2>1, <2>3, <2>4, <2>5 DEF Update!InsertCommits
  <1>2. CASE ~Update!InsertCommits
    BY <1>2 DEF BackfillStep, Update!NodeAppend, Update!Scan, Update!UpdateStep,
       Update!ErrorReply, Update!UpdateStart, Update!ChainReply, Update!BlocksInfoReply,
       Update!CountReply
  <1> QED BY <1>1, <1>2

\* The pipeline does not mind rows that another writes.
LEMMA OthersKeepPipeline ==
  ASSUME PipelineInv, UNCHANGED liveVars, UNCHANGED cemented, blocks' \in RowsOf(Hash),
         blocks.hash \subseteq blocks'.hash,
         faults' \in 0..MaxFaults, crashes' \in 0..MaxCrashes
  PROVE  PipelineInv' /\ Pending' = Pending
  <1>1. Held' = Held /\ Pending' = Pending BY DEF liveVars, Held, Pending
  <1> QED
    BY <1>1 DEF PipelineInv, liveVars, TypeOK, OnlyConfirmed, SingleOwner, InfoHeld, SaverInv,
       NoInfoLeak

\* A step of one part is a step of the pipeline, too, or of the backfill.
LEMMA PartsStep ==
  /\ LiveStep => Next
  /\ \A b \in Hash : NodeConfirms(b) => Next /\ Update!Next
  /\ ProcessDies => Next /\ Update!Next
  /\ BackfillStep => Update!Next
  /\ UpdateFails => Update!Next
  BY SameRows DEF LiveStep, Next, NodeConfirms, ProcessDies, BackfillStep, UpdateFails, Update!Next

\* What a step of the pipeline does to the table.
LEMMA LiveStepRows ==
  ASSUME PipelineInv, LiveStep
  PROVE  /\ UNCHANGED cemented
         /\ \/ blocks' = blocks
            \/ \E S \in SUBSET Pending :
                 /\ blocks'.hash = blocks.hash \cup S
                 /\ blocks'.confirmed = blocks.confirmed \cup S
                 /\ blocks'.election_time = blocks.election_time \cup S
  <1>1. ASSUME NEW s \in Saver, SaverStep(s) PROVE UNCHANGED cemented
    BY <1>1 DEF SaverStep, SaveBlocksStart, BlocksInfoReply, NothingToSave, ErrorReply,
       InsertCommits, SaveBlocksEnd, SaveBlocksFails
  <1>2. CASE \E s \in Saver : SaverStep(s) BY <1>1, <1>2, SaverStepRows
  <1>3. CASE ~\E s \in Saver : SaverStep(s)
    BY <1>3 DEF LiveStep, OnMessage, OnOpen, OnClose
  <1> QED BY <1>2, <1>3

\* The script starts with the invariants of both parts.
THEOREM ImporterInitInv == ImporterInit => ImporterInv /\ Intake!Init
  <1> SUFFICES ASSUME ImporterInit PROVE ImporterInv /\ Intake!Init OBVIOUS
  <1>1. Update!IInv BY UpdateInitIInv DEF ImporterInit
  <1>2. /\ cemented \subseteq Hash /\ blocks \in RowsOf(Hash)
        /\ faults \in 0..MaxFaults /\ crashes \in 0..MaxCrashes
    BY <1>1, SameRows DEF Update!IInv, Update!TypeOK
  <1>3. PipelineInv /\ Pending = {} /\ dropped = {} BY <1>2, ScriptStarts DEF ImporterInit
  <1>4. blocks.hash \in SUBSET Hash BY <1>2 DEF RowsOf
  <1> QED BY <1>1, <1>3, <1>4 DEF ImporterInv, Intake!Init

\* Every step of the process keeps the invariants of both parts.
THEOREM ImporterNextInv == ImporterInv /\ [ImporterNext]_importerVars => ImporterInv'
  <1> SUFFICES ASSUME ImporterInv, [ImporterNext]_importerVars PROVE ImporterInv' OBVIOUS
  <1>a. PipelineInv /\ Update!IInv BY DEF ImporterInv
  <1>b. /\ blocks \in RowsOf(Hash) /\ faults \in 0..MaxFaults /\ crashes \in 0..MaxCrashes
        /\ blocks.confirmed \subseteq cemented /\ Pending \subseteq cemented
    BY <1>a DEF PipelineInv, TypeOK, OnlyConfirmed, Update!IInv, Update!ConfirmedIsCemented
  <1>1. ASSUME NEW b \in Hash, NodeConfirms(b) PROVE ImporterInv'
    BY <1>1, <1>a, PartsStep, NextPipelineInv, UpdateNextIInv DEF ImporterInv
  <1>2. CASE LiveStep
    <2>1. PipelineInv' BY <1>2, <1>a, PartsStep, NextPipelineInv
    <2>2. /\ blocks' \in RowsOf(Hash) /\ faults' \in 0..MaxFaults /\ crashes' \in 0..MaxCrashes
      BY <2>1 DEF PipelineInv, TypeOK
    <2>3. /\ UNCHANGED cemented /\ blocks.hash \subseteq blocks'.hash
          /\ blocks'.confirmed \subseteq cemented
      BY <1>2, <1>a, <1>b, LiveStepRows
    <2>4. Update!IInv'
      BY <1>2, <1>a, <2>2, <2>3, OthersKeepUpdateInv DEF LiveStep
    <2> QED BY <2>1, <2>4 DEF ImporterInv
  <1>3. CASE BackfillStep
    <2>1. Update!IInv' BY <1>3, <1>a, PartsStep, UpdateNextIInv
    <2>2. /\ blocks' \in RowsOf(Hash) /\ faults' \in 0..MaxFaults /\ crashes' \in 0..MaxCrashes
      BY <2>1, SameRows DEF Update!IInv, Update!TypeOK
    <2>3. UNCHANGED cemented /\ blocks.hash \subseteq blocks'.hash
      BY <1>3, <1>a, BackfillStepRows
    <2>4. PipelineInv' BY <1>3, <1>a, <2>2, <2>3, OthersKeepPipeline DEF BackfillStep
    <2> QED BY <2>1, <2>4 DEF ImporterInv
  <1>4. CASE UpdateFails
    <2>1. Update!IInv' BY <1>4, <1>a, PartsStep, UpdateNextIInv
    <2>2. faults' \in 0..MaxFaults /\ crashes' \in 0..MaxCrashes
      BY <2>1 DEF Update!IInv, Update!TypeOK
    <2>3. ProcessReset /\ UNCHANGED <<cemented, blocks>>
      BY <1>4 DEF UpdateFails, Update!UpdateFails
    <2>4. PipelineInv' BY <1>a, <2>2, <2>3, ResetKeepsPipeline
    <2> QED BY <2>1, <2>4 DEF ImporterInv
  <1>5. CASE ProcessDies
    BY <1>5, <1>a, PartsStep, NextPipelineInv, UpdateNextIInv DEF ImporterInv
  <1>6. CASE UNCHANGED importerVars
    BY <1>6, <1>a, <1>b, OthersKeepPipeline, OthersKeepUpdateInv DEF importerVars, ImporterInv
  <1> QED BY <1>1, <1>2, <1>3, <1>4, <1>5, <1>6 DEF ImporterNext

\* Every reachable state of the process satisfies the invariants of both parts:
\* what a backfill rests on holds next to save_blocks itself, and what save_blocks
\* rests on holds next to the backfills.
THEOREM ImporterInvariance == ImporterSpec => []ImporterInv
  BY ImporterInitInv, ImporterNextInv, PTL DEF ImporterSpec

\* The safety properties of both parts but SavedWithElection hold in the process:
\* hashes keep one owner and no election info is left behind, although backfills
\* die with the queues; a backfill leaves no gap and shows no block as confirmed
\* too early, although save_blocks writes the same rows.
THEOREM ImporterSafety ==
  ImporterSpec => [](/\ SingleOwner /\ NoInfoLeak
                     /\ Update!NoGapAboveCursor /\ Update!ConfirmedIsCemented)
  <1>1. ImporterInv => /\ SingleOwner /\ NoInfoLeak
                       /\ Update!NoGapAboveCursor /\ Update!ConfirmedIsCemented
    BY DEF ImporterInv, PipelineInv, Update!IInv
  <1> QED BY <1>1, ImporterInvariance, PTL

\* No confirmation is lost, and what is lost with the process is accounted for,
\* whatever the backfill saves first and however it dies.
THEOREM ImporterRefinement == ImporterSpec => ImplementsIntake
  <1>1. ImporterInv /\ [ImporterNext]_importerVars => [Intake!Next]_(Intake!vars)
    <2> SUFFICES ASSUME ImporterInv, [ImporterNext]_importerVars
                 PROVE  [Intake!Next]_(Intake!vars)
      OBVIOUS
    <2>a. PipelineInv /\ Update!IInv BY DEF ImporterInv
    <2>b. Next => [Intake!Next]_(Intake!vars) BY <2>a, PipelineImplements
    <2>1. CASE (\E b \in Hash : NodeConfirms(b)) \/ LiveStep \/ ProcessDies
      BY <2>1, <2>b, PartsStep
    <2>2. CASE BackfillStep
      <3>1. Pending' = Pending /\ dropped' = dropped
        BY <2>2 DEF BackfillStep, liveVars, Pending, Held
      <3>2. (\E S \in SUBSET Hash : Intake!Save(S)) \/ blocks' = blocks
        BY <2>2, <2>a, <3>1, BackfillStepRows DEF Intake!Save
      <3> QED BY <3>1, <3>2 DEF Intake!Next, Intake!vars
    <2>3. CASE UpdateFails
      <3>1. /\ ProcessReset /\ UNCHANGED <<cemented, blocks>>
            /\ faults' \in 0..MaxFaults /\ crashes' \in 0..MaxCrashes
        <4>1. Update!IInv' BY <2>3, <2>a, PartsStep, UpdateNextIInv
        <4> QED BY <2>3, <4>1 DEF UpdateFails, Update!UpdateFails, Update!IInv, Update!TypeOK
      <3> QED BY <2>a, <3>1, ResetKeepsPipeline DEF Intake!Next
    <2>4. CASE UNCHANGED importerVars
      BY <2>4 DEF importerVars, liveVars, Intake!vars, Pending, Held
    <2> QED BY <2>1, <2>2, <2>3, <2>4 DEF ImporterNext
  <1> QED
    BY <1>1, ImporterInitInv, ImporterInvariance, PTL
    DEF ImporterSpec, ImplementsIntake, Intake!Spec

\* What any step of the process but a backfill's insert does to the table: rows
\* are only added to each of its columns.
LEMMA TableGrows ==
  ASSUME ImporterInv, [ImporterNext]_importerVars
  PROVE  /\ blocks.election_time \subseteq blocks'.election_time
         /\ \/ blocks.confirmed \subseteq blocks'.confirmed
            \/ task # Update!Idle /\ task.pc = "db" /\ task'.pc = "count"
  <1>a. PipelineInv /\ Update!IInv BY DEF ImporterInv
  <1>1. CASE LiveStep BY <1>1, <1>a, LiveStepRows
  <1>2. CASE BackfillStep BY <1>2, <1>a, BackfillStepRows
  <1>3. CASE ~LiveStep /\ ~BackfillStep
    <2>1. blocks' = blocks
      BY <1>3 DEF ImporterNext, importerVars, NodeConfirms, Cement, UpdateFails,
         Update!UpdateFails, ProcessDies, Crash
    <2> QED BY <2>1
  <1> QED BY <1>1, <1>2, <1>3

\* Only a backfill's insert may turn a row unconfirmed.
THEOREM OnlyBackfill == ImporterSpec => OnlyBackfillUnconfirms
  <1> DEFINE Inserts == task # Update!Idle /\ task.pc = "db" /\ task'.pc = "count"
  <1>1. ImporterInv /\ [ImporterNext]_importerVars =>
          [blocks.confirmed \subseteq blocks'.confirmed \/ Inserts]_importerVars
    BY TableGrows
  <1> QED BY <1>1, ImporterInvariance, PTL DEF ImporterSpec, OnlyBackfillUnconfirms

\* Election data that are in the table stay there, whoever writes.
THEOREM Election == ImporterSpec => ElectionKept
  <1>1. ImporterInv /\ [ImporterNext]_importerVars =>
          [blocks.election_time \subseteq blocks'.election_time]_importerVars
    BY TableGrows
  <1> QED BY <1>1, ImporterInvariance, PTL DEF ImporterSpec, ElectionKept
==============================================================================
