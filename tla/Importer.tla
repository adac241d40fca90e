------------------------------ MODULE Importer ------------------------------
(***************************************************************************)
(* The process of scripts/import-websocket.mjs: the confirmation pipeline  *)
(* (SaveBlocks, which this module extends) and the backfill (Backfill)     *)
(* interleave at their awaits, write the same table with different         *)
(* statements, share the node's failures, and die together.                *)
(***************************************************************************)
EXTENDS SaveBlocks, Sequences

CONSTANTS
    Account, MaxHeight, MIN_BATCH_SIZE, MAX_BACKFILL_ITERATIONS, MAX_DIGITS,
    InitHeight, InitSaved, QueueLimit

\* The blocks are those of the accounts, and the rest is as in Backfill.
ASSUME ImporterAssumption ==
    /\ Hash = Account \X (1..MaxHeight)
    /\ MaxHeight \in Nat
    /\ MIN_BATCH_SIZE \in Nat \ {0}
    /\ MAX_BACKFILL_ITERATIONS \in Nat
    /\ InitHeight \in [Account -> 0..MaxHeight]
    /\ InitSaved \subseteq SUBSET { b \in Hash : b[2] <= InitHeight[b[1]] }

VARIABLES height, account_update_queue, task

Update == INSTANCE Backfill

liveVars     == <<wire, connected, opens, blocks_queue, election_info_queue, savers, dropped>>
updateVars   == <<height, account_update_queue, task>>
importerVars == <<liveVars, updateVars, cemented, blocks, faults, crashes>>

\* The script starts on any table and ledger that a backfill may find.
ImporterInit == ScriptInit /\ Update!Init

\* The node confirms a block of the ledger, and notifies the subscriber.
NodeConfirms(b) == Update!NodeCement(b) /\ Cement(b)

\* The steps of one part of the script, which leave the variables of the other.
LiveStep ==
    /\ \/ \E b \in Hash : OnMessage(b)
       \/ OnOpen \/ OnClose
       \/ \E s \in Saver : SaverStep(s)
    /\ UNCHANGED updateVars

BackfillStep ==
    /\ \/ \E a \in Account : Update!NodeAppend(a) \/ Update!Scan(a)
       \/ Update!UpdateStep \/ Update!ErrorReply
    /\ UNCHANGED liveVars

\* What update_account throws takes the queues of save_blocks with it.
UpdateFails == Update!UpdateFails /\ ProcessReset

ProcessDies == Update!Crash /\ Crash

ImporterNext ==
    \/ \E b \in Hash : NodeConfirms(b)
    \/ LiveStep
    \/ BackfillStep
    \/ UpdateFails
    \/ ProcessDies

ImporterSpec == ImporterInit /\ [][ImporterNext]_importerVars

\* The timers of save_blocks fire, and the node and the database answer its calls.
\* Nothing else is assumed: not that the socket reconnects, nor that a scan lists
\* an account or a backfill gets on.
Fairness ==
    \A s \in Saver :
        /\ WF_importerVars(SaveBlocksStart(s) /\ UNCHANGED updateVars)
        /\ WF_importerVars((BlocksInfoReply(s) \/ NothingToSave(s)) /\ UNCHANGED updateVars)
        /\ WF_importerVars(InsertCommits(s) /\ UNCHANGED updateVars)
        /\ WF_importerVars(SaveBlocksEnd(s) /\ UNCHANGED updateVars)

FairSpec == ImporterSpec /\ Fairness

------------------------------------------------------------------------------
(* Properties.  The process still implements BlockIntake (ImplementsIntake *)
(* of SaveBlocks) when another writer saves some of the blocks first, and  *)
(* when the other part of the script kills it.                             *)

\* save_blocks never takes back a block's confirmation, whatever chains,
\* retries and backfills are around: a row turns unconfirmed only when a
\* backfill writes what it was told before the block was confirmed.
OnlyBackfillUnconfirms ==
    [][blocks.confirmed \subseteq blocks'.confirmed
         \/ (task # Update!Idle /\ task.pc = "db" /\ task'.pc = "count")]_importerVars

\* The election data survive both writers: once in the table, always there.
ElectionKept == [][blocks.election_time \subseteq blocks'.election_time]_importerVars

\* A received block is saved with its election data, even if a backfill saved
\* it without them before, unless it was given up.
ElectionEventuallySaved ==
    \A b \in Hash : b \in blocks_queue ~> b \in blocks.election_time \cup dropped

\* The inductive invariant: that of the pipeline, whose table has other writers
\* here, and that of the backfill.
ImporterInv == PipelineInv /\ Update!IInv
==============================================================================
