------------------------- MODULE SaveFrontiers_proofs -------------------------
(***************************************************************************)
(* Proofs about SaveFrontiers, for every set of accounts and every number  *)
(* of changes, connections, failures and deaths of the process.            *)
(***************************************************************************)
EXTENDS SaveFrontiers, TLAPS

LEMMA Bounds ==
  MaxVersion \in Nat /\ MaxOpens \in Nat /\ MaxFaults \in Nat /\ MaxCrashes \in Nat
  BY FrontiersAssumption DEF FrontiersAssumption

LEMMA ChainTypes == Off \in ChainState /\ Timer \in ChainState
  BY Bounds DEF Off, Timer, ChainState, NoInserts

\* The three continuations of a chain when an answer is in.
LEMMA GatheredCases ==
  ASSUME NEW todo \in SUBSET Account, NEW inserts \in [Account -> 0..MaxVersion]
  PROVE  LET g == Gathered(todo, inserts)
         IN  /\ g \in ChainState
             /\ g.pc \in {"timer", "info", "db"}
             /\ g.todo = todo /\ g.inserts = inserts
             /\ g.pc = "timer" => g = Timer
             /\ g.pc = "db" => todo = {} /\ inserts # NoInserts
  BY ChainTypes DEF Gathered, ChainState, Timer

\* The parts of the types that the steps change one at a time.
LEMMA Types ==
  ASSUME TypeOK
  PROVE  /\ version \in [Account -> 0..MaxVersion] /\ accounts \in [Account -> 0..MaxVersion]
         /\ wire \subseteq Account /\ frontiers_queue \subseteq Account
         /\ lost \subseteq Account /\ overwritten \subseteq Account
         /\ opens \in 0..MaxOpens /\ faults \in 0..MaxFaults /\ crashes \in 0..MaxCrashes
         /\ chains \in [ChainId -> ChainState]
         /\ \A c \in ChainId : /\ chains[c] \in ChainState
                               /\ chains[c].pc \in {"off", "timer", "info", "db"}
                               /\ chains[c].todo \subseteq Account
                               /\ chains[c].inserts \in [Account -> 0..MaxVersion]
  BY DEF TypeOK, ChainState

\* A step of one chain leaves the others alone.
LEMMA ChainUpdate ==
  ASSUME TypeOK, NEW c \in ChainId, NEW v \in ChainState,
         chains' = [chains EXCEPT ![c] = v]
  PROVE  /\ chains' \in [ChainId -> ChainState]
         /\ chains'[c] = v
         /\ \A d \in ChainId \ {c} : chains'[d] = chains[d]
  BY DEF TypeOK

\* The initial state satisfies the inductive invariant.
THEOREM InitIInv == Init => IInv
  <1> SUFFICES ASSUME Init PROVE IInv OBVIOUS
  <1> USE DEF Init
  <1>1. NoInserts \in [Account -> 0..MaxVersion] BY Bounds DEF NoInserts
  <1>2. TypeOK
    <2>1. chains \in [ChainId -> ChainState] BY ChainTypes
    <2>2. \A c \in ChainId : chains[c].pc # "db" BY DEF Off
    <2>3. /\ version \in [Account -> 0..MaxVersion] /\ accounts \in [Account -> 0..MaxVersion]
          /\ opens \in 0..MaxOpens /\ faults \in 0..MaxFaults /\ crashes \in 0..MaxCrashes
      BY <1>1, Bounds
    <2> HIDE DEF Init
    <2>4. wire = {} /\ connected = FALSE /\ frontiers_queue = {} /\ lost = {} /\ overwritten = {}
      BY DEF Init
    <2> QED BY <2>1, <2>2, <2>3, <2>4 DEF TypeOK
  <1>3. StaleIsPending BY Bounds DEF StaleIsPending, NoInserts
  <1>4. RowsInv BY Bounds DEF RowsInv, Off, NoInserts
  <1>5. \A c \in ChainId : ChainInv(c) BY DEF ChainInv, Off
  <1> QED BY <1>2, <1>3, <1>4, <1>5 DEF IInv

\* The inductive invariant is preserved by every step.
THEOREM NextIInv == IInv /\ [Next]_vars => IInv'
  <1> SUFFICES ASSUME IInv, [Next]_vars PROVE IInv' OBVIOUS
  <1>a. TypeOK /\ StaleIsPending /\ RowsInv /\ \A c \in ChainId : ChainInv(c) BY DEF IInv
  <1>1. ASSUME NEW a \in Account, Confirm(a) PROVE IInv'
    <2>0. /\ version' = [version EXCEPT ![a] = @ + 1] /\ version[a] < MaxVersion
          /\ UNCHANGED <<connected, opens, frontiers_queue, chains, accounts, overwritten,
                         faults, crashes>>
      BY <1>1 DEF Confirm
    <2>1. /\ a \in wire' \cup lost' /\ wire \subseteq wire' /\ lost \subseteq lost'
          /\ wire' \subseteq Account /\ lost' \subseteq Account
      BY <1>1, <1>a, Types DEF Confirm
    <2>2. /\ version' \in [Account -> 0..MaxVersion]
          /\ \A b \in Account : version[b] \in Nat /\ version[b] <= version'[b]
          /\ \A b \in Account \ {a} : version'[b] = version[b]
      BY <1>a, <2>0, Types, Bounds
    <2>3. TypeOK' BY <1>a, <2>0, <2>1, <2>2 DEF TypeOK
    <2>4. StaleIsPending' BY <1>a, <2>0, <2>1, <2>2 DEF StaleIsPending
    <2>5. RowsInv'
      <3>1. \A b \in Account : accounts[b] \in Nat
        BY <1>a, Types, Bounds
      <3>2. \A c \in ChainId, b \in Account : chains[c].inserts[b] \in Nat
        BY <1>a, Types, Bounds
      <3> QED BY <1>a, <2>0, <2>2, <3>1, <3>2 DEF RowsInv
    <2>6. (\A c \in ChainId : ChainInv(c))' BY <1>a, <2>0 DEF ChainInv
    <2> QED BY <2>3, <2>4, <2>5, <2>6 DEF IInv
  <1>2. ASSUME NEW a \in Account, OnMessage(a) PROVE IInv'
    BY <1>2, <1>a DEF OnMessage, IInv, TypeOK, StaleIsPending, RowsInv, ChainInv
  <1>3. CASE OnOpen
    <2> DEFINE c == opens + 1
    <2>0. c \in ChainId /\ c > opens /\ opens' = c /\ opens \in Nat
      BY <1>3, <1>a, Types, Bounds DEF OnOpen, ChainId
    <2>1. chains[c] = Off BY <1>a, <2>0 DEF ChainInv
    <2>2. chains' = [chains EXCEPT ![c] = Timer] /\ chains' \in [ChainId -> ChainState]
      BY <1>3, <1>a, <2>0, ChainTypes, Types DEF OnOpen
    <2>3. \A d \in ChainId : /\ chains'[d].todo = chains[d].todo
                             /\ chains'[d].inserts = chains[d].inserts
                             /\ (d # c => chains'[d] = chains[d])
                             /\ (d = c => chains'[d] = Timer)
      <3>1. Off.todo = Timer.todo /\ Off.inserts = Timer.inserts BY DEF Off, Timer
      <3> QED BY <1>a, <2>0, <2>1, <2>2, <3>1, Types
    <2> HIDE DEF c
    <2>4. TypeOK'
      <3>1. opens' \in 0..MaxOpens BY <2>0, Bounds DEF ChainId
      <3>2. \A d \in ChainId : chains'[d].pc = "db" => chains'[d].inserts # NoInserts
        BY <1>a, <2>3 DEF TypeOK, Timer
      <3> QED BY <1>3, <1>a, <2>2, <3>1, <3>2 DEF OnOpen, TypeOK
    <2>5. StaleIsPending' BY <1>3, <1>a, <2>3 DEF OnOpen, StaleIsPending
    <2>6. RowsInv' BY <1>3, <1>a, <2>3 DEF OnOpen, RowsInv
    <2>7. (\A d \in ChainId : ChainInv(d))'
      <3> SUFFICES ASSUME NEW d \in ChainId PROVE ChainInv(d)' OBVIOUS
      <3>1. CASE d = c BY <2>0, <2>3, <3>1, Bounds DEF ChainInv, ChainId, Timer
      <3>2. CASE d # c
        <4>1. d > opens' => d > opens BY <2>0 DEF ChainId
        <4> QED BY <1>a, <2>3, <3>2, <4>1 DEF ChainInv
      <3> QED BY <3>1, <3>2
    <2> QED BY <2>4, <2>5, <2>6, <2>7 DEF IInv
  <1>4. CASE OnClose
    <2>1. faults' \in 0..MaxFaults BY <1>4, <1>a, Types, Bounds DEF OnClose
    <2> QED BY <1>4, <1>a, <2>1 DEF OnClose, IInv, TypeOK, StaleIsPending, RowsInv, ChainInv
  <1>5. ASSUME NEW c \in ChainId, SaveFrontiersStart(c) PROVE IInv'
    <2> DEFINE v == Gathered(frontiers_queue, NoInserts)
    <2>0. chains[c] = Timer /\ opens >= c
      <3>1. ~(c > opens) BY <1>5, <1>a DEF SaveFrontiersStart, ChainInv, Off
      <3> QED BY <1>5, <1>a, <3>1, Types, Bounds DEF SaveFrontiersStart, ChainInv, ChainId
    <2>1. /\ v \in ChainState /\ v.todo = frontiers_queue /\ v.inserts = NoInserts
          /\ v.pc # "db" /\ (v.pc = "timer" => v = Timer)
      <3>1. NoInserts \in [Account -> 0..MaxVersion] BY Bounds DEF NoInserts
      <3> QED BY <1>a, <3>1, Types, GatheredCases
    <2>2. chains' = [chains EXCEPT ![c] = v] /\ frontiers_queue' = {}
      BY <1>5 DEF SaveFrontiersStart
    <2> HIDE DEF v
    <2>3. /\ chains' \in [ChainId -> ChainState] /\ chains'[c] = v
          /\ \A d \in ChainId \ {c} : chains'[d] = chains[d]
      BY <1>a, <2>1, <2>2, ChainUpdate
    <2>4. TypeOK' BY <1>5, <1>a, <2>1, <2>2, <2>3 DEF SaveFrontiersStart, TypeOK
    <2>5. StaleIsPending'
      <3> SUFFICES ASSUME NEW a \in Account, accounts[a] < version[a]
                   PROVE  \/ a \in wire \cup lost \cup overwritten
                          \/ \E d \in ChainId : \/ a \in chains'[d].todo
                                                \/ chains'[d].inserts[a] = version[a]
        BY <1>5 DEF StaleIsPending, SaveFrontiersStart
      <3>1. CASE a \in frontiers_queue BY <2>1, <2>3, <3>1
      <3>2. ASSUME NEW d \in ChainId, a \in chains[d].todo \/ chains[d].inserts[a] = version[a]
            PROVE  chains'[d] = chains[d]
        <4>1. 0 < version[a] BY <1>a, Types, Bounds
        <4>2. d # c BY <2>0, <3>2, <4>1 DEF Timer, NoInserts
        <4> QED BY <2>3, <4>2
      <3> QED BY <1>a, <3>1, <3>2 DEF StaleIsPending
    <2>6. RowsInv'
      <3>1. \A a \in Account : v.inserts[a] = chains[c].inserts[a]
        BY <2>0, <2>1 DEF Timer, NoInserts
      <3> QED BY <1>5, <1>a, <2>3, <3>1 DEF SaveFrontiersStart, RowsInv
    <2>7. (\A d \in ChainId : ChainInv(d))'
      BY <1>5, <1>a, <2>0, <2>1, <2>3, Types, Bounds DEF SaveFrontiersStart, ChainInv, ChainId
    <2> QED BY <2>4, <2>5, <2>6, <2>7 DEF IInv
  <1>6. ASSUME NEW c \in ChainId, AccountInfoReply(c) PROVE IInv'
    <2>0. PICK a \in chains[c].todo :
            chains' = [chains EXCEPT ![c] =
              Gathered(chains[c].todo \ {a}, [chains[c].inserts EXCEPT ![a] = version[a]])]
      BY <1>6, <1>a DEF AccountInfoReply, TypeOK
    <2> DEFINE more == [chains[c].inserts EXCEPT ![a] = version[a]]
               v == Gathered(chains[c].todo \ {a}, more)
    <2>1. /\ more \in [Account -> 0..MaxVersion] /\ a \in Account
          /\ more[a] = version[a] /\ \A b \in Account \ {a} : more[b] = chains[c].inserts[b]
      BY <1>a, Types
    <2>2. /\ v \in ChainState /\ v.todo = chains[c].todo \ {a} /\ v.inserts = more
          /\ v.pc \in {"timer", "info", "db"} /\ (v.pc = "timer" => v = Timer)
          /\ (v.pc = "db" => v.todo = {} /\ v.inserts # NoInserts)
      <3>1. chains[c].todo \ {a} \in SUBSET Account BY <1>a, Types
      <3> HIDE DEF more
      <3> QED BY <2>1, <3>1, GatheredCases
    <2>3. chains' = [chains EXCEPT ![c] = v] BY <2>0
    <2> HIDE DEF v, more
    <2>4. /\ chains' \in [ChainId -> ChainState] /\ chains'[c] = v
          /\ \A d \in ChainId \ {c} : chains'[d] = chains[d]
      BY <1>a, <2>2, <2>3, ChainUpdate
    <2>5. TypeOK' BY <1>6, <1>a, <2>2, <2>4 DEF AccountInfoReply, TypeOK
    <2>6. StaleIsPending'
      BY <1>6, <1>a, <2>1, <2>2, <2>4 DEF AccountInfoReply, StaleIsPending
    <2>7. RowsInv'
      <3>1. \A b \in Account : version[b] \in Nat /\ accounts[b] <= version[b]
        BY <1>a, Types, Bounds DEF RowsInv
      <3>2. \A b \in Account : more[b] <= version[b]
        BY <1>a, <2>1, <3>1 DEF RowsInv
      <3>3. MaxOpens <= 1 => \A b \in Account : more[b] # 0 => accounts[b] <= more[b]
        BY <1>a, <2>1, <3>1 DEF RowsInv
      <3> QED BY <1>6, <1>a, <2>2, <2>4, <3>2, <3>3 DEF AccountInfoReply, RowsInv
    <2>8. (\A d \in ChainId : ChainInv(d))'
      <3>1. ~(c > opens) BY <1>6, <1>a DEF AccountInfoReply, ChainInv, Off
      <3> QED BY <1>6, <1>a, <2>2, <2>4, <3>1 DEF AccountInfoReply, ChainInv
    <2> QED BY <2>5, <2>6, <2>7, <2>8 DEF IInv
  <1>7. ASSUME NEW c \in ChainId, ErrorReply(c) PROVE IInv'
    <2>0. PICK a \in chains[c].todo :
            /\ chains' = [chains EXCEPT ![c] =
                            Gathered(chains[c].todo \ {a}, chains[c].inserts)]
            /\ lost' = lost \cup {a}
      BY <1>7, <1>a DEF ErrorReply, TypeOK
    <2> DEFINE v == Gathered(chains[c].todo \ {a}, chains[c].inserts)
    <2>2. /\ v \in ChainState /\ v.todo = chains[c].todo \ {a} /\ v.inserts = chains[c].inserts
          /\ v.pc \in {"timer", "info", "db"} /\ (v.pc = "timer" => v = Timer)
          /\ (v.pc = "db" => v.todo = {} /\ v.inserts # NoInserts) /\ a \in Account
      <3>1. /\ chains[c].todo \ {a} \in SUBSET Account /\ a \in Account
            /\ chains[c].inserts \in [Account -> 0..MaxVersion]
        BY <1>a, Types
      <3> QED BY <3>1, GatheredCases
    <2>3. chains' = [chains EXCEPT ![c] = v] BY <2>0
    <2> HIDE DEF v
    <2>4. /\ chains' \in [ChainId -> ChainState] /\ chains'[c] = v
          /\ \A d \in ChainId \ {c} : chains'[d] = chains[d]
      BY <1>a, <2>2, <2>3, ChainUpdate
    <2>5. TypeOK'
      <3>1. faults' \in 0..MaxFaults BY <1>7, <1>a, Types, Bounds DEF ErrorReply
      <3> QED BY <1>7, <1>a, <2>0, <2>2, <2>4, <3>1 DEF ErrorReply, TypeOK
    <2>6. StaleIsPending'
      BY <1>7, <1>a, <2>0, <2>2, <2>4 DEF ErrorReply, StaleIsPending
    <2>7. RowsInv'
      <3>1. \A d \in ChainId : chains'[d].inserts = chains[d].inserts BY <2>2, <2>4
      <3> QED BY <1>7, <1>a, <3>1 DEF ErrorReply, RowsInv
    <2>8. (\A d \in ChainId : ChainInv(d))'
      <3>1. ~(c > opens) BY <1>7, <1>a DEF ErrorReply, ChainInv, Off
      <3> QED BY <1>7, <1>a, <2>2, <2>4, <3>1 DEF ErrorReply, ChainInv
    <2> QED BY <2>5, <2>6, <2>7, <2>8 DEF IInv
  <1>8. ASSUME NEW c \in ChainId, SaveAccounts(c) PROVE IInv'
    <2> DEFINE ins == chains[c].inserts
    <2>0. /\ chains[c].pc = "db" /\ chains[c].todo = {} /\ ins \in [Account -> 0..MaxVersion]
      BY <1>8, <1>a, Types DEF SaveAccounts, ChainInv
    <2>1. /\ accounts' = [a \in Account |-> IF ins[a] # 0 THEN ins[a] ELSE accounts[a]]
          /\ overwritten' = overwritten \cup { a \in Account : ins[a] # 0 /\ ins[a] < accounts[a] }
          /\ chains' = [chains EXCEPT ![c] = Timer]
      BY <1>8 DEF SaveAccounts, Merge
    <2>2. /\ chains' \in [ChainId -> ChainState] /\ chains'[c] = Timer
          /\ \A d \in ChainId \ {c} : chains'[d] = chains[d]
      BY <1>a, <2>1, ChainTypes, ChainUpdate
    <2>3. \A a \in Account : /\ ins[a] \in Nat /\ accounts[a] \in Nat /\ version[a] \in Nat
                             /\ ins[a] <= version[a] /\ accounts[a] <= version[a]
      BY <1>a, <2>0, Types, Bounds DEF RowsInv
    <2>4. TypeOK'
      <3>1. accounts' \in [Account -> 0..MaxVersion] BY <1>a, <2>0, <2>1, Types
      <3> QED BY <1>8, <1>a, <2>1, <2>2, <3>1, Types DEF SaveAccounts, TypeOK, Timer
    <2>5. StaleIsPending'
      <3> SUFFICES ASSUME NEW a \in Account, accounts'[a] < version[a], a \notin overwritten'
                   PROVE  \/ a \in wire \cup frontiers_queue \cup lost
                          \/ \E d \in ChainId : \/ a \in chains'[d].todo
                                                \/ chains'[d].inserts[a] = version[a]
        BY <1>8 DEF StaleIsPending, SaveAccounts
      <3>1. ins[a] # version[a] /\ accounts[a] < version[a] /\ a \notin overwritten
        BY <2>1, <2>3
      <3> QED BY <1>a, <2>0, <2>2, <3>1 DEF StaleIsPending
    <2>6. RowsInv'
      <3>1. \A a \in Account : accounts'[a] <= version[a] BY <2>1, <2>3
      <3>2. \A d \in ChainId, a \in Account : chains'[d].inserts[a] <= version[a]
        BY <1>a, <2>2, <2>3 DEF RowsInv, Timer, NoInserts
      <3>3. ASSUME MaxOpens <= 1
            PROVE  /\ overwritten' = {}
                   /\ \A d \in ChainId, a \in Account : chains'[d].inserts[a] = 0
        <4>1. \A d \in ChainId : d = c BY <3>3, Bounds DEF ChainId
        <4> QED BY <1>a, <2>1, <2>2, <2>3, <3>3, <4>1 DEF RowsInv, Timer, NoInserts
      <3> QED BY <1>8, <3>1, <3>2, <3>3 DEF RowsInv, SaveAccounts
    <2>7. (\A d \in ChainId : ChainInv(d))'
      <3>1. ~(c > opens) BY <1>a, <2>0 DEF ChainInv, Off
      <3> QED BY <1>8, <1>a, <2>2, <3>1 DEF SaveAccounts, ChainInv, Timer
    <2> QED BY <2>4, <2>5, <2>6, <2>7 DEF IInv
  <1>9. ASSUME ProcessReset, UNCHANGED <<version, accounts, overwritten>>,
               faults' \in 0..MaxFaults, crashes' \in 0..MaxCrashes
        PROVE  IInv'
    <2>1. /\ chains' = [c \in ChainId |-> Off] /\ opens' = 0
          /\ lost' = lost \cup wire \cup frontiers_queue \cup UNION { InHand(c) : c \in ChainId }
          /\ connected' = FALSE /\ wire' = {} /\ frontiers_queue' = {}
      BY <1>9 DEF ProcessReset
    <2>2. TypeOK'
      <3>1. \A c \in ChainId : InHand(c) \subseteq Account BY <1>a, Types DEF InHand
      <3>2. chains' \in [ChainId -> ChainState] BY <2>1, ChainTypes
      <3>3. \A c \in ChainId : chains'[c].pc # "db" BY <2>1 DEF Off
      <3>4. lost' \subseteq Account BY <1>a, <2>1, <3>1, Types
      <3>5. opens' \in 0..MaxOpens BY <2>1, Bounds
      <3>6. connected' = FALSE /\ wire' = {} /\ frontiers_queue' = {} BY <2>1
      <3> QED BY <1>9, <1>a, <3>2, <3>3, <3>4, <3>5, <3>6 DEF TypeOK
    <2>3. StaleIsPending'
      <3> SUFFICES ASSUME NEW a \in Account, accounts[a] < version[a], a \notin overwritten
                   PROVE  a \in lost'
        BY <1>9 DEF StaleIsPending
      <3>1. ASSUME NEW c \in ChainId, a \in chains[c].todo \/ chains[c].inserts[a] = version[a]
            PROVE  a \in InHand(c)
        <4>1. 0 < version[a] BY <1>a, Types, Bounds
        <4> QED BY <3>1, <4>1 DEF InHand
      <3> QED BY <1>a, <2>1, <3>1 DEF StaleIsPending
    <2>4. RowsInv' BY <1>9, <1>a, <2>1, Types, Bounds DEF RowsInv, Off, NoInserts
    <2>5. (\A c \in ChainId : ChainInv(c))' BY <2>1 DEF ChainInv, Off
    <2> QED BY <2>2, <2>3, <2>4, <2>5 DEF IInv
  <1>10. ASSUME NEW c \in ChainId, SaveFrontiersFails(c) PROVE IInv'
    BY <1>10, <1>a, <1>9, Types, Bounds DEF SaveFrontiersFails
  <1>11. CASE Crash BY <1>11, <1>a, <1>9, Types, Bounds DEF Crash
  <1>12. CASE UNCHANGED vars
    BY <1>12, <1>a DEF vars, IInv, TypeOK, StaleIsPending, RowsInv, ChainInv
  <1> QED
    BY <1>1, <1>2, <1>3, <1>4, <1>5, <1>6, <1>7, <1>8, <1>10, <1>11, <1>12 DEF Next

\* Every reachable state satisfies the inductive invariant.
THEOREM Invariance == Spec => []IInv
  BY InitIInv, NextIInv, PTL DEF Spec

\* A row that is behind the node is about to be refreshed, or the reason is on
\* record: for any number of chains that read and merge the same accounts.
THEOREM Pending == Spec => []StaleIsPending
  <1>1. IInv => StaleIsPending BY DEF IInv
  <1> QED BY <1>1, Invariance, PTL

\* Rows are overwritten by older ones only after a reconnection: with a single
\* connection per process, and so a single chain, the exception never applies.
THEOREM OneChainKeepsOrder ==
  ASSUME MaxOpens <= 1 PROVE Spec => [](overwritten = {})
  <1>1. IInv => overwritten = {} BY DEF IInv, RowsInv
  <1> QED BY <1>1, Invariance, PTL
==============================================================================
