----------------------------- MODULE BlockIntake -----------------------------
(***************************************************************************)
(* What the websocket importer promises about the confirmations it         *)
(* receives, whatever queues and timers it uses: a received block stays    *)
(* `pending` until the table has it, or it is knowingly given up.  The     *)
(* delivery to the table is at least once: a block may be written again    *)
(* while it is pending, and other writers may save it first.               *)
(***************************************************************************)
CONSTANT Hash

VARIABLES
    pending,   \* received and not yet retired
    saved,     \* the hashes of the table
    dropped    \* given up: the node had no answer, or the process died

vars == <<pending, saved, dropped>>

TypeOK ==
    /\ pending \subseteq Hash
    /\ saved \subseteq Hash
    /\ dropped \subseteq Hash

Init ==
    /\ pending = {}
    /\ saved \in SUBSET Hash
    /\ dropped = {}

Receive(h) ==
    /\ pending' = pending \cup {h}
    /\ UNCHANGED <<saved, dropped>>

\* A statement commits.  Rows never leave the table.
Save(S) ==
    /\ saved' = saved \cup S
    /\ UNCHANGED <<pending, dropped>>

\* The commit is acknowledged: only what the table has may be forgotten.
Retire(S) ==
    /\ S \subseteq saved
    /\ pending' = pending \ S
    /\ UNCHANGED <<saved, dropped>>

\* What is given up is accounted for.
Drop(S) ==
    /\ pending' = pending \ S
    /\ dropped' = dropped \cup S
    /\ UNCHANGED saved

Next ==
    \/ \E h \in Hash : Receive(h)
    \/ \E S \in SUBSET Hash : Save(S) \/ Retire(S) \/ Drop(S)

Spec == Init /\ [][Next]_vars
==============================================================================
