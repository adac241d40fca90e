--------------------------- MODULE SaveFrontiers ---------------------------
(***************************************************************************)
(* The frontiers' path of scripts/import-websocket.mjs: a confirmation     *)
(* puts the block's account in frontiers_queue; save_frontiers takes the   *)
(* queued accounts, asks the node for each account's info in turn, and     *)
(* merges the rows into the table `accounts`.  It runs again 60 seconds    *)
(* after it ended.  Every ws.onopen starts one more chain of timers.       *)
(*                                                                         *)
(* The info of an account is abstracted to a version, the number of its    *)
(* confirmed changes; version 0 is no row.  Nothing catches what           *)
(* save_frontiers throws: the process dies with its queue.                 *)
(***************************************************************************)
EXTENDS Naturals

CONSTANTS
    Account,
    MaxVersion,   \* bound: changes of an account
    MaxOpens,     \* bound: connections of one process
    MaxFaults,    \* bound: disconnections, failed calls and error answers
    MaxCrashes    \* bound: deaths of the process by other causes

ASSUME FrontiersAssumption ==
    {MaxVersion, MaxOpens, MaxFaults, MaxCrashes} \subseteq Nat

VARIABLES
    version,           \* the node: account_info
    wire,              \* accounts of confirmations not yet handled
    connected, opens,
    frontiers_queue,
    chains,            \* the chains of save_frontiers timers
    accounts,          \* the table
    lost,              \* history: accounts whose notification has led nowhere
    overwritten,       \* history: accounts whose row was replaced by an older one
    faults, crashes

vars == <<version, wire, connected, opens, frontiers_queue, chains, accounts, lost,
          overwritten, faults, crashes>>

ChainId == 1..MaxOpens

(***************************************************************************)
(* A chain waits for its timer, for an account_info ("info") or for the    *)
(* insert ("db").  `todo` is the accounts still to be asked for, `inserts` *)
(* the version of the rows gathered so far (0: none).                      *)
(***************************************************************************)
ChainState == [ pc : {"off", "timer", "info", "db"}, todo : SUBSET Account,
                inserts : [Account -> 0..MaxVersion] ]

NoInserts == [a \in Account |-> 0]
Off   == [pc |-> "off",   todo |-> {}, inserts |-> NoInserts]
Timer == [pc |-> "timer", todo |-> {}, inserts |-> NoInserts]

Init ==
    /\ version = NoInserts
    /\ wire = {}
    /\ connected = FALSE
    /\ opens = 0
    /\ frontiers_queue = {}
    /\ chains = [c \in ChainId |-> Off]
    /\ accounts = NoInserts
    /\ lost = {}
    /\ overwritten = {}
    /\ faults = 0
    /\ crashes = 0

------------------------------------------------------------------------------
(* The node and the socket. *)

\* A block of the account is confirmed, and notified to a subscriber.
Confirm(a) ==
    /\ version[a] < MaxVersion
    /\ version' = [version EXCEPT ![a] = @ + 1]
    /\ IF connected THEN wire' = wire \cup {a} /\ UNCHANGED lost
                    ELSE lost' = lost \cup {a} /\ UNCHANGED wire
    /\ UNCHANGED <<connected, opens, frontiers_queue, chains, accounts, overwritten,
                   faults, crashes>>

OnOpen ==
    /\ ~connected
    /\ opens < MaxOpens
    /\ connected' = TRUE
    /\ opens' = opens + 1
    /\ chains' = [chains EXCEPT ![opens + 1] = Timer]
    /\ UNCHANGED <<version, wire, frontiers_queue, accounts, lost, overwritten, faults, crashes>>

OnClose ==
    /\ connected
    /\ faults < MaxFaults
    /\ faults' = faults + 1
    /\ connected' = FALSE
    /\ wire' = {}
    /\ lost' = lost \cup wire
    /\ UNCHANGED <<version, opens, frontiers_queue, chains, accounts, overwritten, crashes>>

OnMessage(a) ==
    /\ a \in wire
    /\ wire' = wire \ {a}
    /\ frontiers_queue' = frontiers_queue \cup {a}
    /\ UNCHANGED <<version, connected, opens, chains, accounts, lost, overwritten, faults, crashes>>

------------------------------------------------------------------------------
(* save_frontiers, from one await to the next. *)

\* Mutant: the insert is made even without rows.
GatheredAlwaysInserts(todo, inserts) ==
    [pc |-> IF todo # {} THEN "info" ELSE "db", todo |-> todo, inserts |-> inserts]

\* Once no account is left to be asked for: insert the rows, if there are any.
Gathered(todo, inserts) ==
    IF todo # {} THEN [pc |-> "info", todo |-> todo, inserts |-> inserts]
    ELSE IF inserts # NoInserts THEN [pc |-> "db", todo |-> {}, inserts |-> inserts]
    ELSE Timer

SaveFrontiersStart(c) ==
    /\ chains[c].pc = "timer"
    /\ chains' = [chains EXCEPT ![c] = Gathered(frontiers_queue, NoInserts)]
    /\ frontiers_queue' = {}
    /\ UNCHANGED <<version, wire, connected, opens, accounts, lost, overwritten, faults, crashes>>

AccountInfoReply(c) ==
    /\ chains[c].pc = "info"
    /\ \E a \in chains[c].todo :
         chains' = [chains EXCEPT ![c] =
            Gathered(@.todo \ {a}, [@.inserts EXCEPT ![a] = version[a]])]
    /\ UNCHANGED <<version, wire, connected, opens, frontiers_queue, accounts, lost,
                   overwritten, faults, crashes>>

\* An error object: the account is passed over.
ErrorReply(c) ==
    /\ chains[c].pc = "info"
    /\ faults < MaxFaults
    /\ faults' = faults + 1
    /\ \E a \in chains[c].todo :
        /\ chains' = [chains EXCEPT ![c] = Gathered(@.todo \ {a}, @.inserts)]
        /\ lost' = lost \cup {a}
    /\ UNCHANGED <<version, wire, connected, opens, frontiers_queue, accounts, overwritten, crashes>>

\* The insert, onConflict('account').merge(): rows are overwritten, whichever is
\* the newer one.
Merge(inserts) ==
    /\ accounts' = [a \in Account |-> IF inserts[a] # 0 THEN inserts[a] ELSE accounts[a]]
    /\ overwritten' = overwritten \cup
          { a \in Account : inserts[a] # 0 /\ inserts[a] < accounts[a] }

\* Mutant: the queue is cleared after the insert.
SaveAccountsClearsQueue(c) ==
    /\ chains[c].pc = "db"
    /\ Merge(chains[c].inserts)
    /\ chains' = [chains EXCEPT ![c] = Timer]
    /\ frontiers_queue' = {}
    /\ UNCHANGED <<version, wire, connected, opens, lost, faults, crashes>>

SaveAccounts(c) ==
    /\ chains[c].pc = "db"
    /\ Merge(chains[c].inserts)
    /\ chains' = [chains EXCEPT ![c] = Timer]
    /\ UNCHANGED <<version, wire, connected, opens, frontiers_queue, lost, faults, crashes>>

------------------------------------------------------------------------------
InHand(c) == chains[c].todo \cup { a \in Account : chains[c].inserts[a] # 0 }

ProcessReset ==
    /\ connected' = FALSE
    /\ opens' = 0
    /\ wire' = {}
    /\ frontiers_queue' = {}
    /\ chains' = [c \in ChainId |-> Off]
    /\ lost' = lost \cup wire \cup frontiers_queue \cup UNION { InHand(c) : c \in ChainId }

\* A call throws: an unhandled rejection.
SaveFrontiersFails(c) ==
    /\ chains[c].pc \in {"info", "db"}
    /\ faults < MaxFaults
    /\ faults' = faults + 1
    /\ ProcessReset
    /\ UNCHANGED <<version, accounts, overwritten, crashes>>

Crash ==
    /\ crashes < MaxCrashes
    /\ crashes' = crashes + 1
    /\ ProcessReset
    /\ UNCHANGED <<version, accounts, overwritten, faults>>

Next ==
    \/ \E a \in Account : Confirm(a) \/ OnMessage(a)
    \/ OnOpen \/ OnClose
    \/ \E c \in ChainId :
        \/ SaveFrontiersStart(c) \/ AccountInfoReply(c) \/ ErrorReply(c)
        \/ SaveAccounts(c) \/ SaveFrontiersFails(c)
    \/ Crash

Spec == Init /\ [][Next]_vars

\* Messages are handled, timers fire, calls are answered.
FairSpec ==
    /\ Spec
    /\ \A a \in Account : WF_vars(OnMessage(a))
    /\ \A c \in ChainId :
        WF_vars(SaveFrontiersStart(c)) /\ WF_vars(AccountInfoReply(c)) /\ WF_vars(SaveAccounts(c))

------------------------------------------------------------------------------
(* Properties *)

\* Every variable has its type, and a chain that inserts has rows to insert.
TypeOK ==
    /\ version \in [Account -> 0..MaxVersion]
    /\ wire \subseteq Account
    /\ connected \in BOOLEAN
    /\ opens \in 0..MaxOpens
    /\ frontiers_queue \subseteq Account
    /\ chains \in [ChainId -> ChainState]
    /\ \A c \in ChainId : chains[c].pc = "db" => chains[c].inserts # NoInserts
    /\ accounts \in [Account -> 0..MaxVersion]
    /\ lost \subseteq Account
    /\ overwritten \subseteq Account
    /\ faults \in 0..MaxFaults
    /\ crashes \in 0..MaxCrashes

\* A row that is behind the node is about to be refreshed: its account is on
\* the wire, in the queue or among those a chain will ask for, or a chain holds
\* the newest row, unless a notification was lost or another chain has merged an
\* older row over a newer one.  (The queue is a set of accounts: a second change
\* while the account is queued adds nothing to it, and need not, because the
\* info is read later.)
StaleIsPending ==
    \A a \in Account : accounts[a] < version[a] =>
        \/ a \in wire \cup frontiers_queue \cup lost \cup overwritten
        \/ \E c \in ChainId : a \in chains[c].todo \/ chains[c].inserts[a] = version[a]

\* What a chain holds at its awaits: nothing at the timer, or before its
\* connection; no account left to ask for at the insert.
ChainInv(c) ==
    /\ c > opens => chains[c] = Off
    /\ chains[c].pc = "timer" => chains[c] = Timer
    /\ chains[c].pc = "db" => chains[c].todo = {}

\* Only another chain can make a row older: no row, in the table or in hand, is
\* newer than the node's, and a process with one connection has in hand what is
\* no older than the table's.
RowsInv ==
    /\ \A a \in Account : accounts[a] <= version[a]
    /\ \A c \in ChainId, a \in Account : chains[c].inserts[a] <= version[a]
    /\ MaxOpens <= 1 =>
        /\ overwritten = {}
        /\ \A c \in ChainId, a \in Account :
              chains[c].inserts[a] # 0 => accounts[a] <= chains[c].inserts[a]

\* The inductive invariant.
IInv == TypeOK /\ StaleIsPending /\ RowsInv /\ \A c \in ChainId : ChainInv(c)

\* Up-to-date rows: an account whose changes were all notified gets its last
\* version in the table, unless two chains have merged it in the wrong order.
UpToDate == \A a \in Account : <>[](accounts[a] = version[a] \/ a \in lost \cup overwritten)
==============================================================================
