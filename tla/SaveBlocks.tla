----------------------------- MODULE SaveBlocks -----------------------------
(***************************************************************************)
(* The confirmation pipeline of scripts/import-websocket.mjs.              *)
(*                                                                         *)
(* A `confirmation` message of the node puts the block's hash in           *)
(* blocks_queue and the result of its election in election_info_queue.     *)
(* save_blocks takes the queued hashes, asks the node for the blocks,      *)
(* joins them with the election info and upserts the rows; it runs again   *)
(* 20 seconds after it ended, well or badly.  Every ws.onopen starts one   *)
(* more such chain of timers, so that after a reconnection several         *)
(* save_blocks interleave at their awaits.  These chains are the Savers.   *)
(*                                                                         *)
(* Everything but the table is lost when the process dies (an unhandled    *)
(* rejection elsewhere in the script, a restart by pm2).                   *)
(*                                                                         *)
(* The order of blocks_queue and the repetition of a hash in it make no    *)
(* difference, because the node's answer is an object keyed by hash: it    *)
(* is a set.  An election's values are fixed by the hash: the queue of     *)
(* election info is the set of hashes that it has info for.                *)
(***************************************************************************)
EXTENDS Naturals, BlockRows

CONSTANTS
    Hash,        \* the blocks that the node may confirm
    MaxOpens,    \* bound: connections of one process
    MaxFaults,   \* bound: disconnections, failed calls and error answers
    MaxCrashes   \* bound: deaths of the process

ASSUME SaveBlocksAssumption ==
    MaxOpens \in Nat /\ MaxFaults \in Nat /\ MaxCrashes \in Nat

VARIABLES
    cemented,             \* the blocks the node has confirmed
    wire,                 \* confirmations sent on the socket, not yet handled
    connected,            \* the websocket is open
    opens,                \* times ws.onopen has run in this process
    blocks_queue,
    election_info_queue,
    savers,               \* the chains of save_blocks timers
    blocks,               \* the table
    dropped,              \* history: hashes this path has given up
    faults, crashes       \* the bounds' counters

vars == <<cemented, wire, connected, opens, blocks_queue, election_info_queue,
          savers, blocks, dropped, faults, crashes>>

Saver == 1..MaxOpens

(***************************************************************************)
(* A saver waits for its timer, for the answer of blocks_info ("rpc"), for *)
(* the statement to commit ("db") or for the commit to be reported to the  *)
(* script ("ack").  `hashes` and `rows` are its local variables.           *)
(***************************************************************************)
SaverState ==
    [ pc     : {"off", "timer", "rpc", "db", "ack"},
      hashes : SUBSET Hash,
      rows   : RowsOf(Hash) ]

Off   == [pc |-> "off",   hashes |-> {}, rows |-> NoRows]
Timer == [pc |-> "timer", hashes |-> {}, rows |-> NoRows]

Held == UNION { savers[s].hashes : s \in Saver }

\* Received by the script, and not yet known by it to be in the table.
Pending == blocks_queue \cup Held

\* The script starts with empty queues and no connection.
ScriptInit ==
    /\ wire = {}
    /\ connected = FALSE
    /\ opens = 0
    /\ blocks_queue = {}
    /\ election_info_queue = {}
    /\ savers = [s \in Saver |-> Off]
    /\ dropped = {}

Init ==
    /\ ScriptInit
    /\ cemented = {}
    /\ blocks = NoRows
    /\ faults = 0
    /\ crashes = 0

------------------------------------------------------------------------------
(* The node and the socket. *)

\* The node confirms a block once, and notifies the subscriber if there is one.
Cement(h) ==
    /\ h \notin cemented
    /\ cemented' = cemented \cup {h}
    /\ wire' = IF connected THEN wire \cup {h} ELSE wire
    /\ UNCHANGED <<connected, opens, blocks_queue, election_info_queue, savers,
                   blocks, dropped, faults, crashes>>

\* ws.onopen: subscribe, and start one more chain of timers.
OnOpen ==
    /\ ~connected
    /\ opens < MaxOpens
    /\ connected' = TRUE
    /\ opens' = opens + 1
    /\ savers' = [savers EXCEPT ![opens + 1] = Timer]
    /\ UNCHANGED <<cemented, wire, blocks_queue, election_info_queue, blocks,
                   dropped, faults, crashes>>

\* ws.onclose: nothing is done about the messages that were on their way.
OnClose ==
    /\ connected
    /\ faults < MaxFaults
    /\ faults' = faults + 1
    /\ connected' = FALSE
    /\ wire' = {}
    /\ UNCHANGED <<cemented, opens, blocks_queue, election_info_queue, savers,
                   blocks, dropped, crashes>>

OnMessage(h) ==
    /\ h \in wire
    /\ wire' = wire \ {h}
    /\ blocks_queue' = blocks_queue \cup {h}
    /\ election_info_queue' = election_info_queue \cup {h}
    /\ UNCHANGED <<cemented, connected, opens, savers, blocks, dropped, faults,
                   crashes>>

------------------------------------------------------------------------------
(* save_blocks, from one await to the next. *)

\* Mutant: the queue is not cleared.
SaveBlocksStartKeepsQueue(s) ==
    /\ savers[s].pc = "timer"
    /\ savers' = [savers EXCEPT ![s] =
                    [pc |-> "rpc", hashes |-> blocks_queue, rows |-> NoRows]]
    /\ UNCHANGED <<cemented, wire, connected, opens, blocks_queue,
                   election_info_queue, blocks, dropped, faults, crashes>>

\* Take the queued hashes and ask the node for the blocks.
SaveBlocksStart(s) ==
    /\ savers[s].pc = "timer"
    /\ savers' = [savers EXCEPT ![s] =
                    [pc |-> "rpc", hashes |-> blocks_queue, rows |-> NoRows]]
    /\ blocks_queue' = {}
    /\ UNCHANGED <<cemented, wire, connected, opens, election_info_queue, blocks,
                   dropped, faults, crashes>>

\* Mutant: the node's string 'true' is taken for a boolean, and is never true.
RowsForBoolean(hashes) ==
    [ hash |-> hashes, confirmed |-> {}, election_time |-> hashes \cap election_info_queue ]

\* The rows: the node's blocks joined with the election info that is in the
\* queue when the answer arrives.
RowsFor(hashes) ==
    [ hash          |-> hashes,
      confirmed     |-> hashes \cap cemented,
      election_time |-> hashes \cap election_info_queue ]

\* The node answers with the blocks: start the statement.
BlocksInfoReply(s) ==
    /\ savers[s].pc = "rpc"
    /\ savers[s].hashes # {}
    /\ savers' = [savers EXCEPT ![s] =
                    [@ EXCEPT !.pc = "db", !.rows = RowsFor(savers[s].hashes)]]
    /\ UNCHANGED <<cemented, wire, connected, opens, blocks_queue,
                   election_info_queue, blocks, dropped, faults, crashes>>

\* There were no hashes to ask for, so no rows: nothing to insert.
NothingToSave(s) ==
    /\ savers[s].pc = "rpc"
    /\ savers[s].hashes = {}
    /\ savers' = [savers EXCEPT ![s] = Timer]
    /\ UNCHANGED <<cemented, wire, connected, opens, blocks_queue,
                   election_info_queue, blocks, dropped, faults, crashes>>

\* The node answers with an error object, which is not an exception:
\* res.blocks is undefined, there is no row to insert, the hashes are gone
\* and their election info stays.
ErrorReply(s) ==
    /\ savers[s].pc = "rpc"
    /\ savers[s].hashes # {}
    /\ faults < MaxFaults
    /\ faults' = faults + 1
    /\ savers' = [savers EXCEPT ![s] = Timer]
    /\ dropped' = dropped \cup savers[s].hashes
    /\ UNCHANGED <<cemented, wire, connected, opens, blocks_queue,
                   election_info_queue, blocks, crashes>>

InsertCommits(s) ==
    /\ savers[s].pc = "db"
    /\ blocks' = UpsertWithElection(blocks, savers[s].rows)
    /\ savers' = [savers EXCEPT ![s] = [@ EXCEPT !.pc = "ack"]]
    /\ UNCHANGED <<cemented, wire, connected, opens, blocks_queue,
                   election_info_queue, dropped, faults, crashes>>

\* Mutant: all election info is deleted, that of other hashes too.
SaveBlocksEndClearsInfo(s) ==
    /\ savers[s].pc = "ack"
    /\ election_info_queue' = {}
    /\ savers' = [savers EXCEPT ![s] = Timer]
    /\ UNCHANGED <<cemented, wire, connected, opens, blocks_queue, blocks, dropped,
                   faults, crashes>>

\* Mutant: no election info is deleted.
SaveBlocksEndKeepsInfo(s) ==
    /\ savers[s].pc = "ack"
    /\ savers' = [savers EXCEPT ![s] = Timer]
    /\ UNCHANGED <<cemented, wire, connected, opens, blocks_queue, election_info_queue,
                   blocks, dropped, faults, crashes>>

\* db.raw returns: delete the election info of the saved blocks, set the timer.
SaveBlocksEnd(s) ==
    /\ savers[s].pc = "ack"
    /\ election_info_queue' = election_info_queue \ savers[s].hashes
    /\ savers' = [savers EXCEPT ![s] = Timer]
    /\ UNCHANGED <<cemented, wire, connected, opens, blocks_queue, blocks, dropped,
                   faults, crashes>>

\* Mutant: the hashes are not put back.
SaveBlocksFailsForgets(s) ==
    /\ savers[s].pc \in {"rpc", "db", "ack"}
    /\ faults < MaxFaults
    /\ faults' = faults + 1
    /\ savers' = [savers EXCEPT ![s] = Timer]
    /\ UNCHANGED <<cemented, wire, connected, opens, blocks_queue, election_info_queue,
                   blocks, dropped, crashes>>

\* getBlocksInfo or db.raw throws, the latter before or after the commit:
\* put the hashes back in the queue, set the timer.
SaveBlocksFails(s) ==
    /\ savers[s].pc \in {"rpc", "db", "ack"}
    /\ faults < MaxFaults
    /\ faults' = faults + 1
    /\ blocks_queue' = blocks_queue \cup savers[s].hashes
    /\ savers' = [savers EXCEPT ![s] = Timer]
    /\ UNCHANGED <<cemented, wire, connected, opens, election_info_queue, blocks,
                   dropped, crashes>>

------------------------------------------------------------------------------
\* The process dies and starts again with empty queues and no connection.
ProcessReset ==
    /\ connected' = FALSE
    /\ wire' = {}
    /\ opens' = 0
    /\ blocks_queue' = {}
    /\ election_info_queue' = {}
    /\ savers' = [s \in Saver |-> Off]
    /\ dropped' = dropped \cup Pending

Crash ==
    /\ crashes < MaxCrashes
    /\ crashes' = crashes + 1
    /\ ProcessReset
    /\ UNCHANGED <<cemented, blocks, faults>>

SaverStep(s) ==
    \/ SaveBlocksStart(s) \/ BlocksInfoReply(s) \/ NothingToSave(s)
    \/ ErrorReply(s) \/ InsertCommits(s) \/ SaveBlocksEnd(s) \/ SaveBlocksFails(s)

Next ==
    \/ \E h \in Hash : Cement(h) \/ OnMessage(h)
    \/ OnOpen \/ OnClose
    \/ \E s \in Saver : SaverStep(s)
    \/ Crash

Spec == Init /\ [][Next]_vars

------------------------------------------------------------------------------
(* Properties *)

\* Every variable has its type, the table has well-formed rows.
TypeOK ==
    /\ cemented \subseteq Hash
    /\ wire \subseteq Hash
    /\ connected \in BOOLEAN
    /\ opens \in 0..MaxOpens
    /\ blocks_queue \subseteq Hash
    /\ election_info_queue \subseteq Hash
    /\ savers \in [Saver -> SaverState]
    /\ blocks \in RowsOf(Hash)
    /\ dropped \subseteq Hash
    /\ faults \in 0..MaxFaults
    /\ crashes \in 0..MaxCrashes

\* A hash has one owner: it is in blocks_queue or with one save_blocks, never
\* with two of the chains that reconnections have started, nor in the queue
\* and with a chain.  save_blocks clears the queue before its first await and
\* puts the hashes back only in the catch.
SingleOwner ==
    /\ \A s \in Saver : savers[s].hashes \cap blocks_queue = {}
    /\ \A s, t \in Saver : s # t => savers[s].hashes \cap savers[t].hashes = {}

\* Whatever interleaving of the chains, failed statement or retry, a block is
\* not written without the election info that came with its confirmation:
\* the deletes at the end of one save_blocks never take the info of a hash
\* that is queued, or in the hands of another save_blocks.
SavedWithElection == blocks.hash \subseteq blocks.election_time

\* The election info of a block is held only while the block is pending: the
\* queue does not grow with what has been saved, on any path.  Only the hashes
\* of an error answer leave theirs behind.
NoInfoLeak == election_info_queue \subseteq Pending \cup dropped

\* The inductive invariant, which adds to the properties above what they rest
\* on: a confirmation is nowhere else while it is on the wire; a pending block
\* has its election info; a chain that has not started or waits for its timer
\* holds nothing, one that has built its rows has built them confirmed and with
\* the info, and one that waits for the acknowledgement has them in the table.
OnlyConfirmed ==
    /\ wire \subseteq cemented
    /\ Pending \subseteq cemented
    /\ wire \cap Pending = {}

InfoHeld == Pending \subseteq election_info_queue

SaverInv(s) ==
    /\ s > opens => savers[s].pc = "off"
    /\ savers[s].pc \in {"off", "timer"} => savers[s].hashes = {}
    /\ savers[s].pc \in {"db", "ack"} =>
          /\ savers[s].rows.hash = savers[s].hashes
          /\ savers[s].rows.confirmed = savers[s].hashes
          /\ savers[s].rows.election_time = savers[s].hashes
    /\ savers[s].pc = "ack" => savers[s].hashes \subseteq blocks.hash

\* What holds of the pipeline whoever else writes rows in the table.
PipelineInv ==
    /\ TypeOK
    /\ OnlyConfirmed
    /\ SingleOwner
    /\ InfoHeld
    /\ \A s \in Saver : SaverInv(s)
    /\ NoInfoLeak

IInv == PipelineInv /\ SavedWithElection

\* No confirmation is lost between the queue, the chains and the table: the
\* pipeline delivers at least once (see BlockIntake).
Intake == INSTANCE BlockIntake WITH pending <- Pending, saved <- blocks.hash
ImplementsIntake == Intake!Spec
==============================================================================
