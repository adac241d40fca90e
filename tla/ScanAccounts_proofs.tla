-------------------------- MODULE ScanAccounts_proofs --------------------------
(***************************************************************************)
(* Proofs about ScanAccounts, for every number of accounts and of deaths   *)
(* of the process, every size of a page and of the queue.  That no account *)
(* falls out of sight needs that the overlap and the look-back are long    *)
(* enough for the durations.                                               *)
(***************************************************************************)
EXTENDS ScanAccounts, FiniteSetTheorems, SequenceTheorems, WellFoundedInduction, TLAPS

\* The overlap covers a scan; the look-back and the overlap cover the scans,
\* jobs and restarts of all the deaths.
LongEnough ==
    /\ MaxScan <= Overlap
    /\ Reach(MaxCrashes) <= Lookback + Overlap

LEMMA Bounds ==
  /\ NumAccounts \in Nat /\ ACCOUNTS_BATCH_SIZE \in Nat /\ ACCOUNTS_BATCH_SIZE > 1
  /\ Overlap \in Nat /\ Lookback \in Nat /\ MaxScan \in Nat /\ MaxJobDelay \in Nat
  /\ MaxDown \in Nat /\ MaxHeight \in Nat /\ MaxHeight > 0 /\ MaxTime \in Nat
  /\ MaxFaults \in Nat /\ MaxCrashes \in Nat
  /\ Start \in Nat /\ Start = Lookback + Overlap /\ Start <= MaxTime
  BY ScanAssumption DEF ScanAssumption, Start

\* Each death of the process adds a scan, a job and a restart.
LEMMA ReachFacts ==
  ASSUME NEW c \in Nat
  PROVE  /\ Reach(c) \in Nat /\ MaxScan <= Reach(c)
         /\ Reach(c + 1) = Reach(c) + MaxScan + MaxJobDelay + MaxDown
         /\ c > 0 => MaxDown <= Reach(c)
         /\ \A d \in Nat : c <= d => Reach(c) <= Reach(d)
  <1> DEFINE x == MaxScan + MaxJobDelay + MaxDown
  <1>1. x \in Nat /\ MaxDown <= x /\ MaxScan \in Nat BY Bounds
  <1>2. \A d \in Nat : Reach(d) = MaxScan + d * x BY DEF Reach
  <1>x. x = MaxScan + MaxJobDelay + MaxDown OBVIOUS
  <1> HIDE DEF x
  <1>3. \A d \in Nat : d * x \in Nat BY <1>1
  <1>4. (c + 1) * x = c * x + x BY <1>1
  <1>5. c > 0 => x <= c * x BY <1>1
  <1>6. \A d \in Nat : c <= d => c * x <= d * x BY <1>1
  <1>7. c + 1 \in Nat OBVIOUS
  <1>8. Reach(c + 1) = Reach(c) + x BY <1>1, <1>2, <1>3, <1>4, <1>7
  <1>9. Reach(c + 1) = Reach(c) + MaxScan + MaxJobDelay + MaxDown
    BY <1>8, <1>1, <1>2, <1>3, <1>x, Bounds
  <1>10. Reach(c) \in Nat /\ MaxScan <= Reach(c) BY <1>1, <1>2, <1>3
  <1>11. c > 0 => MaxDown <= Reach(c) BY <1>1, <1>2, <1>3, <1>5, Bounds
  <1>12. ASSUME NEW d \in Nat, c <= d PROVE Reach(c) <= Reach(d)
    <2>1. /\ c * x \in Nat /\ d * x \in Nat /\ c * x <= d * x
          /\ Reach(c) = MaxScan + c * x /\ Reach(d) = MaxScan + d * x
      BY <1>2, <1>3, <1>6, <1>12
    <2> QED BY <1>1, <2>1
  <1> QED BY <1>9, <1>10, <1>11, <1>12

------------------------------------------------------------------------------
(* A page. *)

LEMMA AccountsFinite ==
  ASSUME NEW S \in SUBSET Account
  PROVE  IsFiniteSet(S) /\ Cardinality(S) \in Nat
  <1>1. IsFiniteSet(1..NumAccounts) BY Bounds, FS_Interval
  <1> QED BY <1>1, FS_Subset, FS_CardinalityType DEF Account

\* A set of accounts has a least member, and one at most that is the last.
LEMMA Least ==
  ASSUME NEW S \in SUBSET Account, S # {}
  PROVE  \E a \in S : \A b \in S : a <= b
  <1>1. S \subseteq Nat BY Bounds DEF Account
  <1>2. PICK a \in S : \A b \in S : ~(<<b, a>> \in OpToRel(<, Nat))
    BY <1>1, WFMin, NatLessThanWellFounded
  <1>3. \A b \in S : ~(b < a) BY <1>1, <1>2 DEF OpToRel
  <1> QED BY <1>1, <1>3

LEMMA Greatest ==
  ASSUME NEW S \in SUBSET Account, S # {}
  PROVE  \E a \in S : \A b \in S : b <= a
  <1> DEFINE T == { x \in Account : NumAccounts + 1 - x \in S }
  <1>1. \A b \in S : b \in Int /\ 1 <= b /\ b <= NumAccounts BY Bounds DEF Account
  <1>2. \A b \in S : NumAccounts + 1 - b \in T
    <2> SUFFICES ASSUME NEW b \in S PROVE NumAccounts + 1 - b \in T OBVIOUS
    <2>1. b \in Int /\ 1 <= b /\ b <= NumAccounts BY <1>1
    <2>2. NumAccounts + 1 - b \in Account BY <2>1, Bounds DEF Account
    <2>3. NumAccounts + 1 - (NumAccounts + 1 - b) = b BY <2>1, Bounds
    <2> QED BY <2>2, <2>3
  <1>3. T \in SUBSET Account /\ T # {} BY <1>2
  <1>4. PICK x \in T : \A y \in T : x <= y BY <1>3, Least
  <1>5. x \in Int /\ NumAccounts + 1 - x \in S BY <1>4, Bounds DEF Account
  <1>6. \A b \in S : x <= NumAccounts + 1 - b BY <1>2, <1>4
  <1>7. \A b \in S : b <= NumAccounts + 1 - x BY <1>1, <1>5, <1>6, Bounds
  <1> QED BY <1>5, <1>7

\* A page holds the first accounts: when it leaves one out, it is full, and all
\* of its accounts come before that one.
LEMMA FirstOfFacts ==
  ASSUME NEW S \in SUBSET Account
  PROVE  /\ FirstOf(S) \subseteq S
         /\ \A a \in S \ FirstOf(S) :
               /\ Cardinality(FirstOf(S)) = ACCOUNTS_BATCH_SIZE
               /\ \A b \in FirstOf(S) : b < a
         /\ FirstOf(S) = {} => S = {}
  <1> DEFINE Before(a) == { b \in S : b < a }
             F == FirstOf(S)
             N == ACCOUNTS_BATCH_SIZE
  <1>0. S \subseteq Int BY Bounds DEF Account
  <1>1. \A a \in S : a \in F <=> Cardinality(Before(a)) < N BY DEF FirstOf
  <1>2. F \subseteq S BY DEF FirstOf
  <1>3. \A a \in S : Cardinality(Before(a)) \in Nat /\ IsFiniteSet(Before(a))
    <2>1. \A a \in S : Before(a) \in SUBSET Account OBVIOUS
    <2> QED BY <2>1, AccountsFinite
  <1>4. ASSUME NEW a \in S, NEW b \in S, b < a
        PROVE  Cardinality(Before(b)) <= Cardinality(Before(a)) /\ (a \in F => b \in F)
    <2>1. Before(b) \subseteq Before(a)
      <3>1. a \in Int /\ b \in Int BY <1>0
      <3>2. \A c \in S : c < b => c < a BY <1>0, <1>4, <3>1
      <3> QED BY <3>2
    <2>2. Cardinality(Before(b)) <= Cardinality(Before(a)) BY <1>3, <2>1, FS_Subset
    <2> QED BY <1>1, <1>3, <2>2, Bounds
  <1>5. ASSUME NEW a \in S \ F
        PROVE  Cardinality(F) = N /\ \A b \in F : b < a
    <2>1. S \ F \in SUBSET Account /\ S \ F # {} BY <1>2
    <2>2. PICK x \in S \ F : \A y \in S \ F : x <= y BY <2>1, Least
    <2>3. ASSUME NEW c \in S \ F, NEW b \in F PROVE b < c
      <3>1. ~(c < b) /\ b # c BY <1>2, <1>4, <2>3
      <3>2. b \in Int /\ c \in Int BY <1>0, <1>2, <2>3
      <3> HIDE DEF F
      <3> QED BY <3>1, <3>2
    <2>4. F = Before(x)
      <3>1. \A b \in S : b < x => b \in F BY <1>0, <2>2
      <3> QED BY <1>2, <2>3, <3>1
    <2>5. Cardinality(F) >= N /\ Cardinality(F) \in Nat BY <1>1, <1>3, <2>2, <2>4, Bounds
    <2>6. F # {}
      <3>1. Cardinality({}) = 0 BY FS_EmptySet
      <3> HIDE DEF F
      <3> QED BY <2>5, <3>1, Bounds
    <2>7. F \in SUBSET Account BY <1>2
    <2>8. PICK z \in F : \A b \in F : b <= z BY <2>6, <2>7, Greatest
    <2>9. F = Before(z) \cup {z} /\ z \notin Before(z) /\ z \in S
      <3>1. \A b \in S : b < z => b \in F BY <1>2, <1>4, <2>8
      <3>2. F \subseteq Int /\ z \in Int BY <1>0, <1>2, <2>8
      <3>3. z \in S /\ ~(z < z) BY <1>2, <2>8, <3>2
      <3> HIDE DEF F
      <3>4. \A b \in F : b < z \/ b = z BY <2>8, <3>2
      <3> QED BY <1>2, <2>8, <3>1, <3>3, <3>4
    <2> HIDE DEF F
    <2>10. Cardinality(F) = Cardinality(Before(z)) + 1 BY <1>3, <2>9, FS_AddElement
    <2>11. Cardinality(Before(z)) < N BY <1>1, <2>8, <2>9
    <2> HIDE DEF Before
    <2> QED BY <1>3, <2>3, <2>5, <2>9, <2>10, <2>11, Bounds
  <1>6. ASSUME F = {} PROVE S = {}
    <2>1. Cardinality(F) = 0 BY <1>6, FS_EmptySet
    <2> HIDE DEF F
    <2>2. \A a \in S : FALSE BY <1>5, <1>6, <2>1, Bounds
    <2> QED BY <2>2
  <1> QED BY <1>2, <1>5, <1>6

------------------------------------------------------------------------------
Entry == [account : Account, height : 1..MaxHeight]
Job   == [account : Account, height : 1..MaxHeight, at : Start..MaxTime]

\* The initial state satisfies the inductive invariant.
THEOREM InitIInv == Init => IInv
  <1> SUFFICES ASSUME Init PROVE IInv OBVIOUS
  <1>1. TypeOK
    <2>1. /\ Start \in Start..MaxTime /\ Start \in Start..Start
          /\ Start - Lookback \in Overlap..Start /\ 0 \in 0..MaxTime /\ 1 \in 1..MaxHeight
          /\ 0 \in 0..MaxFaults /\ 0 \in 0..MaxCrashes
      BY Bounds
    <2> QED BY <2>1, EmptySeq DEF Init, TypeOK
  <1>2. DurationsInv BY Bounds DEF Init, DurationsInv
  <1>3. PageInv BY DEF Init, PageInv
  <1>4. MissingInv
    <2>1. \A a \in Account : ~(saved[a] < height[a]) BY DEF Init
    <2> QED BY <2>1 DEF MissingInv, Watched
  <1> QED BY <1>1, <1>2, <1>3, <1>4 DEF IInv

\* The inductive invariant is preserved by every step.
THEOREM NextIInv == LongEnough /\ IInv /\ [Next]_vars => IInv'
  <1> SUFFICES ASSUME LongEnough, IInv, [Next]_vars PROVE IInv' OBVIOUS
  <1>a. TypeOK /\ DurationsInv /\ PageInv /\ MissingInv BY DEF IInv
  <1>b. /\ now \in Start..MaxTime /\ height \in [Account -> 1..MaxHeight]
        /\ modified \in [Account -> 0..MaxTime] /\ saved \in [Account -> 1..MaxHeight]
        /\ given_up \subseteq Account
        /\ up \in BOOLEAN /\ full_page \in BOOLEAN /\ since \in Start..now
        /\ scan_cursor_account \in {BURN_ACCOUNT} \cup Account
        /\ last_full_scan_time \in Overlap..now
        /\ page \subseteq Entry /\ account_update_queue \in Seq(Job)
        /\ faults \in 0..MaxFaults /\ crashes \in 0..MaxCrashes
    BY <1>a DEF TypeOK, Entry, Job
  <1>c. /\ now \in Nat /\ since \in Nat /\ since <= now /\ last_full_scan_time \in Nat
        /\ \A a \in Account : modified[a] \in Nat /\ height[a] \in Nat /\ saved[a] \in Nat
        /\ crashes \in Nat /\ Reach(crashes) \in Nat /\ MaxScan <= Reach(crashes)
        /\ up => now - since <= MaxScan
        /\ ~up => now - since <= MaxDown
    <2>1. now \in Nat /\ since \in Nat /\ since <= now /\ last_full_scan_time \in Nat
      BY <1>b, Bounds
    <2>2. \A a \in Account : modified[a] \in Nat /\ height[a] \in Nat /\ saved[a] \in Nat
      BY <1>b, Bounds
    <2>3. crashes \in Nat BY <1>b, Bounds
    <2>4. Reach(crashes) \in Nat /\ MaxScan <= Reach(crashes) BY <2>3, ReachFacts
    <2> QED BY <1>a, <2>1, <2>2, <2>3, <2>4 DEF DurationsInv
  <1>q. /\ Len(account_update_queue) \in Nat
        /\ \A i \in DOMAIN account_update_queue : account_update_queue[i] \in Job
        /\ \A j \in Job : /\ j.account \in Account /\ j.height \in 1..MaxHeight
                         /\ j.at \in Nat
        /\ \A e \in Entry : e.account \in Account /\ e.height \in 1..MaxHeight
    <2>1. \A j \in Job : j.account \in Account /\ j.height \in 1..MaxHeight /\ j.at \in Nat
      BY Bounds DEF Job
    <2>2. \A e \in Entry : e.account \in Account /\ e.height \in 1..MaxHeight BY DEF Entry
    <2>3. DOMAIN account_update_queue = 1..Len(account_update_queue) BY <1>b
    <2> QED BY <1>b, <2>1, <2>2, <2>3, ElementOfSeq, LenProperties
  \* A scan ends: whatever was modified before it has its job, and the next one
  \* lists what was modified during it.
  <1>e. ASSUME up, page' = {}, since' = now, last_full_scan_time' = now,
               scan_cursor_account' = BURN_ACCOUNT,
               UNCHANGED <<height, modified, saved, given_up, up, crashes>>,
               \A a \in Account \ (BelowThreshold \cup given_up) :
                  saved[a] < height[a] /\ modified[a] < since => QueuedInTime(a)'
        PROVE  MissingInv' /\ PageInv'
    <2>1. ASSUME NEW a \in Account \ (BelowThreshold \cup given_up), saved[a] < height[a], modified[a] < now,
                 ~QueuedInTime(a)'
          PROVE  Ahead(a)' /\ modified[a] >= now - Overlap /\ modified[a] + Reach(crashes) >= now
      <3>1. modified[a] >= since /\ a \in Nat BY <1>c, <1>e, <2>1, Bounds DEF Account
      <3>2. Ahead(a)' BY <1>e, <3>1 DEF Ahead, BURN_ACCOUNT
      <3>3. modified[a] >= now - MaxScan /\ MaxScan <= Overlap /\ modified[a] \in Nat
        BY <1>c, <1>e, <2>1, <3>1, Bounds DEF LongEnough
      <3> QED BY <1>c, <3>2, <3>3, Bounds
    <2>2. Reach(crashes)' = Reach(crashes) BY <1>e DEF Reach
    <2> QED BY <1>e, <2>1, <2>2 DEF MissingInv, Watched, PageInv
  <1>1. CASE Tick
    <2>1. /\ now < MaxTime /\ now' = now + 1
          /\ now - since < (IF up THEN MaxScan ELSE MaxDown)
          /\ \A i \in DOMAIN account_update_queue : now - account_update_queue[i].at < MaxJobDelay
          /\ UNCHANGED <<height, modified, saved, given_up, up, since, scan_cursor_account,
                         last_full_scan_time, page, full_page, account_update_queue,
                         faults, crashes>>
      BY <1>1 DEF Tick, process
    <2>2. now' \in Start..MaxTime /\ since \in Start..now' /\ last_full_scan_time \in Overlap..now'
      <3>1. now \in Int /\ Start <= now /\ now < MaxTime BY <1>b, <2>1, Bounds
      <3>2. now + 1 \in Start..MaxTime BY <3>1, Bounds
      <3>3. since \in Start..(now + 1) BY <1>b, <3>1, Bounds
      <3>4. last_full_scan_time \in Overlap..(now + 1) BY <1>b, <3>1, Bounds
      <3> QED BY <2>1, <3>2, <3>3, <3>4
    <2>3. TypeOK' BY <1>a, <2>1, <2>2 DEF TypeOK
    <2>4. DurationsInv'
      <3>1. now + 1 - since <= (IF up THEN MaxScan ELSE MaxDown) BY <1>c, <2>1, Bounds
      <3>2. ASSUME NEW i \in DOMAIN account_update_queue
            PROVE  /\ account_update_queue[i].at <= now + 1
                   /\ now + 1 - account_update_queue[i].at <= MaxJobDelay
        <4>1. account_update_queue[i].at \in Nat /\ account_update_queue[i].at <= now
          BY <1>a, <1>q DEF DurationsInv
        <4> QED BY <1>c, <2>1, <4>1, Bounds
      <3>3. up => last_full_scan_time <= since BY <1>a DEF DurationsInv
      <3>4. ~up => page = {} /\ account_update_queue = <<>> /\ crashes > 0
        BY <1>a DEF DurationsInv
      <3>5. now' - since' <= (IF up' THEN MaxScan ELSE MaxDown)
        <4>1. now' = now + 1 /\ since' = since /\ up' = up BY <2>1
        <4> QED BY <1>c, <3>1, <4>1, Bounds
      <3>6. \A i \in DOMAIN account_update_queue' :
               /\ account_update_queue'[i].at <= now'
               /\ now' - account_update_queue'[i].at <= MaxJobDelay
        <4>1. now' = now + 1 /\ account_update_queue' = account_update_queue BY <2>1
        <4> QED BY <1>c, <1>q, <3>2, <4>1, Bounds
      <3> QED BY <2>1, <3>3, <3>4, <3>5, <3>6 DEF DurationsInv
    <2>5. PageInv' BY <1>a, <2>1 DEF PageInv
    <2>6. MissingInv' BY <1>a, <2>1 DEF MissingInv, Watched, QueuedInTime, Ahead
    <2> QED BY <2>3, <2>4, <2>5, <2>6 DEF IInv
  <1>2. ASSUME NEW a \in Account, NodeAppend(a) PROVE IInv'
    <2>1. /\ height[a] < MaxHeight /\ height' = [height EXCEPT ![a] = @ + 1]
          /\ modified' = [modified EXCEPT ![a] = now] /\ given_up' = given_up \ {a}
          /\ UNCHANGED <<now, saved, up, since, scan_cursor_account,
                         last_full_scan_time, page, full_page, account_update_queue,
                         faults, crashes>>
      BY <1>2 DEF NodeAppend, process
    <2>2. /\ \A b \in Account : b # a => height'[b] = height[b] /\ modified'[b] = modified[b]
          /\ modified'[a] = now
      BY <1>b, <2>1
    <2>3. TypeOK'
      <3>1. height[a] + 1 \in 1..MaxHeight /\ now \in 0..MaxTime BY <1>b, <2>1, Bounds
      <3> QED BY <1>a, <1>b, <2>1, <3>1 DEF TypeOK
    <2>4. DurationsInv' BY <1>a, <2>1 DEF DurationsInv
    <2>5. PageInv'
      <3>1. ASSUME NEW e \in page
            PROVE  /\ e.account >= scan_cursor_account
                   /\ modified'[e.account] < since => e.height = height'[e.account]
        <4>1. e.account \in Account BY <1>b, <1>q
        <4>2. ~(now < since) BY <1>c
        <4> QED BY <1>a, <2>2, <4>1, <4>2 DEF PageInv
      <3> QED BY <2>1, <3>1 DEF PageInv
    <2>6. MissingInv'
      <3>1. ~(now < since) BY <1>c
      <3>2. ~up => now + Reach(crashes) >= since + MaxDown
        <4>1. ~up => MaxDown <= Reach(crashes) BY <1>a, <1>c, ReachFacts DEF DurationsInv
        <4> QED BY <1>c, <4>1, Bounds
      <3>3. ASSUME NEW b \in Account \ (BelowThreshold \cup given_up), b # a
            PROVE  (QueuedInTime(b) => QueuedInTime(b)') /\ (Ahead(b) <=> Ahead(b)')
        BY <2>1, <2>2, <3>3 DEF QueuedInTime, Ahead
      <3>4. Reach(crashes)' = Reach(crashes) BY <2>1 DEF Reach
      <3>5. ASSUME NEW b \in Account \ (BelowThreshold \cup given_up)', saved'[b] < height'[b]
            PROVE  IF up'
                   THEN modified'[b] < since' =>
                           \/ QueuedInTime(b)'
                           \/ /\ Ahead(b)'
                              /\ modified'[b] >= last_full_scan_time' - Overlap
                              /\ modified'[b] + Reach(crashes)' >= since'
                   ELSE modified'[b] + Reach(crashes)' >= since' + MaxDown
        <4>1. CASE b = a BY <2>1, <2>2, <3>1, <3>2, <3>4, <4>1
        <4>2. CASE b # a
          <5>1. b \in Account \ (BelowThreshold \cup given_up) /\ saved[b] < height[b]
            BY <2>1, <2>2, <3>5, <4>2
          <5>2. modified'[b] = modified[b] BY <2>2, <4>2, <5>1
          <5> QED BY <1>a, <2>1, <3>3, <3>4, <4>2, <5>1, <5>2 DEF MissingInv, Watched
        <4> QED BY <4>1, <4>2
      <3> QED BY <3>5 DEF MissingInv, Watched
    <2> QED BY <2>3, <2>4, <2>5, <2>6 DEF IInv
  <1>3. CASE ScanLedger
    <2> DEFINE F == FirstOf(Ledger)
    <2>1. /\ up /\ page = {}
          /\ page' = { [account |-> a, height |-> height[a]] : a \in F }
          /\ full_page' = (Cardinality(F) = ACCOUNTS_BATCH_SIZE)
          /\ IF page' = {} THEN PageDone(BURN_ACCOUNT, FALSE)
             ELSE UNCHANGED <<since, scan_cursor_account, last_full_scan_time>>
          /\ UNCHANGED <<now, height, modified, saved, given_up, up, account_update_queue, faults, crashes>>
      BY <1>3 DEF ScanLedger
    <2>2. Ledger \in SUBSET Account
          /\ \A a \in Ledger : a >= scan_cursor_account
      BY DEF Ledger
    <2>3. /\ F \subseteq Ledger
          /\ \A a \in Ledger \ F : /\ Cardinality(F) = ACCOUNTS_BATCH_SIZE
                                  /\ \A b \in F : b < a
          /\ F = {} => Ledger = {}
      BY <2>2, FirstOfFacts
    <2> HIDE DEF F
    <2>4. /\ page' \subseteq Entry /\ full_page' \in BOOLEAN
          /\ \A e \in page' : e.account \in F /\ e.height = height[e.account]
          /\ \A a \in F : \E e \in page' : e.account = a
      <3>1. \A a \in F : a \in Account /\ height[a] \in 1..MaxHeight BY <1>b, <2>2, <2>3
      <3>2. \A a \in F : LET e == [account |-> a, height |-> height[a]]
                         IN  e \in page' /\ e \in Entry /\ e.account = a
        BY <2>1, <3>1 DEF Entry
      <3>3. \A e \in page' : \E a \in F : e = [account |-> a, height |-> height[a]]
        BY <2>1
      <3>4. \A e \in page' : e \in Entry /\ e.account \in F /\ e.height = height[e.account]
        BY <3>2, <3>3
      <3> QED BY <2>1, <3>2, <3>4
    <2>5. ASSUME NEW a \in Account \ (BelowThreshold \cup given_up), saved[a] < height[a], modified[a] < since
          PROVE  \/ QueuedInTime(a) /\ QueuedInTime(a)'
                 \/ /\ a \in Ledger /\ modified[a] >= last_full_scan_time - Overlap
                    /\ modified[a] + Reach(crashes) >= since
      <3>1. QueuedInTime(a) => QueuedInTime(a)' BY <2>1 DEF QueuedInTime, Reach
      <3>2. \/ QueuedInTime(a)
            \/ /\ Ahead(a) /\ modified[a] >= last_full_scan_time - Overlap
               /\ modified[a] + Reach(crashes) >= since
        BY <1>a, <2>1, <2>5 DEF MissingInv, Watched
      <3> QED BY <2>1, <3>1, <3>2 DEF Ahead, Ledger
    <2>6. DurationsInv' /\ since' \in Start..now /\ scan_cursor_account' \in {BURN_ACCOUNT} \cup Account
          /\ last_full_scan_time' \in Overlap..now
      <3>1. CASE page' = {}
        <4>1. /\ since' = now /\ last_full_scan_time' = now /\ scan_cursor_account' = BURN_ACCOUNT
          BY <2>1, <3>1 DEF PageDone
        <4>2. now \in Start..now /\ now \in Overlap..now BY <1>b, Bounds
        <4> QED BY <1>a, <1>c, <2>1, <4>1, <4>2, Bounds DEF DurationsInv
      <3>2. CASE page' # {} BY <1>a, <1>b, <2>1, <3>2 DEF DurationsInv
      <3> QED BY <3>1, <3>2
    <2>7. TypeOK' BY <1>b, <2>1, <2>4, <2>6 DEF TypeOK, Entry, Job
    <2>8. MissingInv' /\ PageInv'
      <3>1. CASE page' = {}
        <4>1. /\ since' = now /\ last_full_scan_time' = now /\ scan_cursor_account' = BURN_ACCOUNT
          BY <2>1, <3>1 DEF PageDone
        <4>2. Ledger = {} BY <2>3, <2>4, <3>1
        <4>3. \A a \in Account \ (BelowThreshold \cup given_up) :
                 saved[a] < height[a] /\ modified[a] < since => QueuedInTime(a)'
          BY <2>5, <4>2
        <4> QED BY <1>e, <2>1, <3>1, <4>1, <4>3
      <3>2. CASE page' # {}
        <4>1. UNCHANGED <<since, scan_cursor_account, last_full_scan_time>> BY <2>1, <3>2
        <4>2. PageInv' BY <2>1, <2>2, <2>3, <2>4, <4>1 DEF PageInv
        <4>3. ASSUME NEW a \in Ledger PROVE Ahead(a)'
          <5>1. CASE a \in F BY <2>4, <3>2, <5>1 DEF Ahead
          <5>2. CASE a \notin F BY <2>1, <2>3, <2>4, <3>2, <5>2 DEF Ahead
          <5> QED BY <5>1, <5>2
        <4>4. Reach(crashes)' = Reach(crashes) BY <2>1 DEF Reach
        <4>5. MissingInv' BY <2>1, <2>5, <4>1, <4>3, <4>4 DEF MissingInv, Watched
        <4> QED BY <4>2, <4>5
      <3> QED BY <3>1, <3>2
    <2> QED BY <2>6, <2>7, <2>8 DEF IInv
  <1>4. CASE ScanCount
    <2>1. PICK e \in page :
            /\ \A other \in page : e.account <= other.account
            /\ account_update_queue' =
                  IF Stale(e)
                  THEN Append(account_update_queue,
                          [account |-> e.account, height |-> e.height, at |-> now])
                  ELSE account_update_queue
            /\ page' = page \ {e}
            /\ IF page' = {} THEN PageDone(e.account, full_page)
               ELSE UNCHANGED <<since, scan_cursor_account, last_full_scan_time>>
      BY <1>4 DEF ScanCount
    <2>2. up /\ UNCHANGED <<now, height, modified, saved, given_up, up, full_page, faults, crashes>>
      BY <1>4 DEF ScanCount
    <2> DEFINE job == [account |-> e.account, height |-> e.height, at |-> now]
    <2>3. e \in Entry /\ e.account \in Account /\ e.height \in 1..MaxHeight
          /\ job \in Job /\ job.account = e.account /\ job.height = e.height /\ job.at = now
      BY <1>b, <1>q DEF Job
    <2>q. Stale(e) => account_update_queue' = Append(account_update_queue, job)
      BY <2>1
    <2> HIDE DEF job
    <2>4. /\ account_update_queue' \in Seq(Job)
          /\ \A i \in DOMAIN account_update_queue :
                i \in DOMAIN account_update_queue' /\ account_update_queue'[i] = account_update_queue[i]
          /\ \A i \in DOMAIN account_update_queue' :
                i \in DOMAIN account_update_queue \/ (Stale(e) /\ account_update_queue'[i] = job)
          /\ Stale(e) => \E i \in DOMAIN account_update_queue' : account_update_queue'[i] = job
      <3>1. CASE Stale(e)
        <4>1. /\ account_update_queue' \in Seq(Job)
              /\ Len(account_update_queue') = Len(account_update_queue) + 1
              /\ \A i \in 1..Len(account_update_queue) :
                    account_update_queue'[i] = account_update_queue[i]
              /\ account_update_queue'[Len(account_update_queue) + 1] = job
          <5>1. account_update_queue \in Seq(Job) /\ job \in Job BY <1>b, <2>3
          <5>2. account_update_queue' = Append(account_update_queue, job) BY <2>q, <3>1
          <5> QED BY <5>1, <5>2, AppendProperties
        <4>2. /\ DOMAIN account_update_queue = 1..Len(account_update_queue)
              /\ DOMAIN account_update_queue' = 1..(Len(account_update_queue) + 1)
          BY <1>b, <4>1
        <4>3. \A i \in 1..(Len(account_update_queue) + 1) :
                 i \in 1..Len(account_update_queue) \/ i = Len(account_update_queue) + 1
          BY <1>q
        <4>4. Len(account_update_queue) + 1 \in 1..(Len(account_update_queue) + 1) BY <1>q
        <4>5. 1..Len(account_update_queue) \subseteq 1..(Len(account_update_queue) + 1) BY <1>q
        <4>6. \A i \in DOMAIN account_update_queue :
                i \in DOMAIN account_update_queue' /\ account_update_queue'[i] = account_update_queue[i]
          BY <4>1, <4>2, <4>5
        <4>7. \A i \in DOMAIN account_update_queue' :
                i \in DOMAIN account_update_queue \/ account_update_queue'[i] = job
          BY <4>1, <4>2, <4>3
        <4>8. \E i \in DOMAIN account_update_queue' : account_update_queue'[i] = job
          BY <4>1, <4>2, <4>4
        <4> QED BY <3>1, <4>1, <4>6, <4>7, <4>8
      <3>2. CASE ~Stale(e)
        <4>1. account_update_queue' = account_update_queue BY <2>1, <3>2
        <4>2. account_update_queue' \in Seq(Job) BY <1>b, <4>1
        <4> QED BY <3>2, <4>1, <4>2
      <3> QED BY <3>1, <3>2
    \* A job that an account had, or the one that it gets.
    <2>5. ASSUME NEW a \in Account \ (BelowThreshold \cup given_up), saved[a] < height[a], modified[a] < since
          PROVE  \/ QueuedInTime(a)'
                 \/ /\ Ahead(a) /\ a # e.account
                    /\ modified[a] >= last_full_scan_time - Overlap
                    /\ modified[a] + Reach(crashes) >= since
      <3>1. Reach(crashes)' = Reach(crashes) BY <2>2 DEF Reach
      <3>2. QueuedInTime(a) => QueuedInTime(a)' BY <2>2, <2>4, <3>1 DEF QueuedInTime
      <3>3. ASSUME ~QueuedInTime(a)
            PROVE  /\ Ahead(a) /\ modified[a] >= last_full_scan_time - Overlap
                   /\ modified[a] + Reach(crashes) >= since
        BY <1>a, <2>2, <2>5, <3>3 DEF MissingInv, Watched
      <3>4. ASSUME ~QueuedInTime(a), a = e.account PROVE QueuedInTime(a)'
        <4>1. e.height = height[a] BY <1>a, <2>5, <3>4 DEF PageInv
        <4>2. Stale(e) BY <2>5, <3>4, <4>1 DEF Stale
        <4>3. now <= modified[a] + Reach(crashes) + MaxScan
          BY <1>c, <2>2, <3>3, <3>4, Bounds
        <4>4. PICK i \in DOMAIN account_update_queue' : account_update_queue'[i] = job
          BY <2>4, <4>2
        <4> QED BY <2>2, <2>3, <3>1, <3>4, <4>1, <4>3, <4>4 DEF QueuedInTime
      <3> QED BY <3>2, <3>3, <3>4
    <2>6. e.account \in Account /\ e.account >= scan_cursor_account BY <1>a, <2>3 DEF PageInv
    <2>7. TypeOK' /\ DurationsInv'
      <3>1. /\ since' \in Start..now
            /\ scan_cursor_account' \in {BURN_ACCOUNT} \cup Account
            /\ last_full_scan_time' \in Overlap..now
            /\ now - since' <= MaxScan /\ last_full_scan_time' <= since'
        <4>1. now \in Start..now /\ now \in Overlap..now /\ now - now <= MaxScan
          BY <1>b, Bounds
        <4>2. CASE UNCHANGED <<since, last_full_scan_time>>
          BY <1>a, <1>b, <1>c, <2>1, <2>2, <2>6, <4>1, <4>2 DEF PageDone, DurationsInv
        <4>3. CASE since' = now /\ last_full_scan_time' = now /\ scan_cursor_account' = BURN_ACCOUNT
          BY <4>1, <4>3, <1>c
        <4> QED BY <2>1, <4>2, <4>3 DEF PageDone
      <3>2. TypeOK' BY <1>b, <2>1, <2>2, <2>4, <3>1 DEF TypeOK, Entry, Job
      <3>3. ASSUME NEW i \in DOMAIN account_update_queue'
            PROVE  /\ account_update_queue'[i].at <= now
                   /\ now - account_update_queue'[i].at <= MaxJobDelay
        <4>1. CASE i \in DOMAIN account_update_queue BY <1>a, <2>4, <4>1 DEF DurationsInv
        <4>2. CASE account_update_queue'[i] = job BY <1>c, <2>3, <4>2, Bounds
        <4> QED BY <2>4, <4>1, <4>2
      <3> QED BY <2>2, <3>1, <3>2, <3>3 DEF DurationsInv
    <2>8. MissingInv' /\ PageInv'
      <3>1. CASE page' = {} /\ ~full_page
        <4>1. /\ since' = now /\ last_full_scan_time' = now /\ scan_cursor_account' = BURN_ACCOUNT
          BY <2>1, <3>1 DEF PageDone
        <4>2. \A a : Ahead(a) => a = e.account BY <2>1, <3>1 DEF Ahead
        <4>3. \A a \in Account \ (BelowThreshold \cup given_up) :
                 saved[a] < height[a] /\ modified[a] < since => QueuedInTime(a)'
          BY <2>5, <4>2
        <4> QED BY <1>e, <2>2, <3>1, <4>1, <4>3
      <3>2. CASE page' # {} \/ full_page
        <4>1. UNCHANGED <<since, last_full_scan_time>> BY <2>1, <3>2 DEF PageDone
        <4>2. PageInv'
          <5>1. page' = {} \/ scan_cursor_account' = scan_cursor_account BY <2>1
          <5> QED BY <1>a, <2>1, <2>2, <4>1, <5>1 DEF PageInv
        <4>3. ASSUME NEW a \in Account, Ahead(a), a # e.account PROVE Ahead(a)'
          <5>1. a \in Int /\ e.account \in Int BY <2>3, Bounds DEF Account
          <5>2. CASE page' # {} BY <2>1, <2>2, <4>3, <5>2 DEF Ahead
          <5>3. CASE page' = {}
            <6>1. scan_cursor_account' = e.account BY <2>1, <3>2, <5>3 DEF PageDone
            <6>2. e.account < a BY <2>1, <4>3, <5>3 DEF Ahead
            <6> QED BY <5>1, <5>3, <6>1, <6>2 DEF Ahead
          <5> QED BY <5>2, <5>3
        <4>4. Reach(crashes)' = Reach(crashes) BY <2>2 DEF Reach
        <4>5. MissingInv' BY <2>2, <2>5, <4>1, <4>3, <4>4 DEF MissingInv, Watched
        <4> QED BY <4>2, <4>5
      <3> QED BY <3>1, <3>2
    <2> QED BY <2>7, <2>8 DEF IInv
  <1>5. CASE ScanFails
    <2>1. /\ up /\ page # {} /\ faults < MaxFaults /\ faults' = faults + 1 /\ page' = {}
          /\ UNCHANGED <<now, height, modified, saved, given_up, up, since, scan_cursor_account,
                   last_full_scan_time, full_page, account_update_queue, crashes>>
      BY <1>5 DEF ScanFails
    <2>2. faults' \in 0..MaxFaults BY <1>b, <2>1, Bounds
    <2>3. TypeOK' BY <1>b, <2>1, <2>2 DEF TypeOK, Entry, Job
    <2>4. DurationsInv' /\ PageInv' BY <1>a, <2>1 DEF DurationsInv, PageInv
    <2>5. ASSUME NEW a \in Account, Ahead(a) PROVE Ahead(a)'
      <3>1. a \in Int /\ scan_cursor_account \in Int
        BY <1>b, Bounds DEF Account, BURN_ACCOUNT
      <3>2. PICK x \in page : x.account = a \/ x.account < a
        BY <2>1, <2>5 DEF Ahead
      <3>3. x.account >= scan_cursor_account /\ x.account \in Int
        BY <1>a, <1>b, <1>q, <3>2, Bounds DEF PageInv, Account
      <3> QED BY <2>1, <3>1, <3>2, <3>3 DEF Ahead
    <2>6. \A a : QueuedInTime(a) => QueuedInTime(a)' BY <2>1 DEF QueuedInTime
    <2>7. MissingInv' BY <1>a, <2>1, <2>5, <2>6 DEF MissingInv, Watched
    <2> QED BY <2>3, <2>4, <2>7 DEF IInv
  \* A job leaves the queue: the table has its height, or its account is given up.
  <1>6. CASE UpdateAccount \/ UpdateAccountShort
    <2> DEFINE job == account_update_queue[1]
    <2>1. /\ up /\ account_update_queue # <<>> /\ Head(account_update_queue) = job
          /\ account_update_queue' = Tail(account_update_queue)
          /\ UNCHANGED <<now, height, modified, up, since, scan_cursor_account,
                         last_full_scan_time, page, full_page, faults, crashes>>
      <3>1. account_update_queue # <<>> => Head(account_update_queue) = job
        BY <1>b, HeadTailProperties
      <3> QED BY <1>6, <3>1 DEF UpdateAccount, UpdateAccountShort, JobEnds
    <2>2. /\ account_update_queue' \in Seq(Job)
          /\ Len(account_update_queue') = Len(account_update_queue) - 1
          /\ \A i \in 1..Len(account_update_queue') :
                account_update_queue'[i] = account_update_queue[i + 1]
      BY <1>b, <2>1, HeadTailProperties
    <2>3. /\ DOMAIN account_update_queue = 1..Len(account_update_queue)
          /\ DOMAIN account_update_queue' = 1..Len(account_update_queue')
          /\ Len(account_update_queue) > 0
      BY <1>b, <1>q, <2>1, <2>2, EmptySeq
    <2>4. job \in Job /\ job.account \in Account /\ job.height \in 1..MaxHeight
      BY <1>q, <2>3
    <2> HIDE DEF job
    <2>5. saved' \in [Account -> 1..MaxHeight] /\ given_up' \subseteq Account
      <3>1. saved[job.account] \in 1..MaxHeight BY <1>b, <2>4
      <3>2. CASE UpdateAccount
        <4>1. /\ saved' = [saved EXCEPT ![job.account] = IF @ < job.height THEN job.height ELSE @]
              /\ given_up' \subseteq given_up
          BY <2>1, <3>2 DEF UpdateAccount
        <4> QED BY <1>b, <2>4, <4>1
      <3>3. CASE UpdateAccountShort
        <4>1. PICK count \in saved[job.account]..(job.height - 1) :
                 saved' = [saved EXCEPT ![job.account] = count]
          BY <2>1, <3>3 DEF UpdateAccountShort
        <4>2. given_up' \subseteq given_up \cup {job.account}
          BY <2>1, <3>3 DEF UpdateAccountShort
        <4>3. count \in 1..MaxHeight BY <2>4, <3>1, <4>1, Bounds
        <4> QED BY <1>b, <2>4, <4>1, <4>2, <4>3
      <3> QED BY <1>6, <3>2, <3>3
    <2>6. ASSUME NEW a \in Account, saved'[a] < height[a]
          PROVE  /\ saved[a] < height[a]
                 /\ a \notin given_up' => a \notin given_up
                 /\ a = job.account /\ a \notin given_up' => job.height # height[a]
      <3>0. saved[a] \in Nat /\ height[a] \in Nat /\ job.height \in Nat
        BY <1>c, <2>4, Bounds
      <3>1. CASE UpdateAccount
        <4>1. /\ saved' = [saved EXCEPT ![job.account] = IF @ < job.height THEN job.height ELSE @]
              /\ given_up' = { b \in given_up : saved'[b] < height[b] }
          BY <2>1, <3>1 DEF UpdateAccount
        <4>2. saved'[a] = IF a = job.account /\ saved[a] < job.height THEN job.height ELSE saved[a]
          BY <1>b, <2>4, <4>1
        <4>3. saved[a] < height[a] BY <2>6, <3>0, <4>2
        <4>4. a = job.account => job.height # height[a] BY <2>6, <3>0, <4>2
        <4>5. a \notin given_up' => a \notin given_up BY <2>6, <4>1
        <4> QED BY <4>3, <4>4, <4>5
      <3>2. CASE UpdateAccountShort
        <4>1. PICK count \in saved[job.account]..(job.height - 1) :
                 saved' = [saved EXCEPT ![job.account] = count]
          BY <2>1, <3>2 DEF UpdateAccountShort
        <4>2. given_up' = IF job.height = height[job.account]
                          THEN given_up \cup {job.account} ELSE given_up
          BY <2>1, <3>2 DEF UpdateAccountShort
        <4>3. saved'[a] = IF a = job.account THEN count ELSE saved[a] BY <1>b, <2>4, <4>1
        <4>4. saved[a] < height[a] BY <2>6, <3>0, <4>1, <4>3
        <4> QED BY <4>2, <4>4
      <3> QED BY <1>6, <3>1, <3>2
    <2>7. TypeOK' BY <1>b, <2>1, <2>2, <2>5 DEF TypeOK, Entry, Job
    <2>8. DurationsInv' /\ PageInv'
      <3>1. \A i \in DOMAIN account_update_queue' :
              \E k \in DOMAIN account_update_queue : account_update_queue'[i] = account_update_queue[k]
        <4>1. \A i \in 1..Len(account_update_queue') : i + 1 \in 1..Len(account_update_queue)
          BY <1>q, <2>2
        <4> QED BY <2>2, <2>3, <4>1
      <3> QED BY <1>a, <2>1, <3>1 DEF DurationsInv, PageInv
    <2>9. ASSUME NEW a \in Account, QueuedInTime(a), saved'[a] < height[a], a \notin given_up'
          PROVE  QueuedInTime(a)'
      <3>1. PICK i \in DOMAIN account_update_queue :
              /\ account_update_queue[i].account = a /\ account_update_queue[i].height = height[a]
              /\ account_update_queue[i].at <= modified[a] + Reach(crashes) + MaxScan
        BY <2>9 DEF QueuedInTime
      <3>2. i # 1
        <4>1. i = 1 => a = job.account /\ height[a] = job.height BY <3>1 DEF job
        <4> QED BY <2>6, <2>9, <4>1
      <3>3. i - 1 \in DOMAIN account_update_queue' /\ account_update_queue'[i - 1] = account_update_queue[i]
        BY <1>q, <2>2, <2>3, <3>1, <3>2
      <3>4. Reach(crashes)' = Reach(crashes) BY <2>1 DEF Reach
      <3> QED BY <2>1, <3>1, <3>3, <3>4 DEF QueuedInTime
    <2>10. \A a : Ahead(a) <=> Ahead(a)' BY <2>1 DEF Ahead
    <2>11. MissingInv'
      <3>1. ASSUME NEW a \in Account \ (BelowThreshold \cup given_up'), saved'[a] < height[a],
                   modified[a] < since
            PROVE  \/ QueuedInTime(a)'
                   \/ /\ Ahead(a) /\ modified[a] >= last_full_scan_time - Overlap
                      /\ modified[a] + Reach(crashes) >= since
        <4>1. a \in Account \ (BelowThreshold \cup given_up) /\ saved[a] < height[a]
          BY <2>6, <3>1
        <4> QED BY <1>a, <2>1, <2>9, <3>1, <4>1 DEF MissingInv, Watched
      <3>2. Reach(crashes)' = Reach(crashes) BY <2>1 DEF Reach
      <3> QED BY <2>1, <2>10, <3>1, <3>2 DEF MissingInv, Watched
    <2> QED BY <2>7, <2>8, <2>11 DEF IInv
  \* What is missing when the process dies is no older than the scan, the job and
  \* what the deaths before have added.
  <1>7. CASE Crash
    <2>1. /\ up /\ crashes < MaxCrashes /\ crashes' = crashes + 1 /\ up' = FALSE
          /\ since' = now /\ page' = {} /\ full_page' = FALSE /\ account_update_queue' = <<>>
          /\ UNCHANGED <<now, height, modified, saved, given_up, scan_cursor_account,
                         last_full_scan_time, faults>>
      BY <1>7 DEF Crash
    <2>2. crashes' \in 0..MaxCrashes /\ since' \in Start..now /\ crashes' > 0
      BY <1>b, <2>1, Bounds
    <2>3. TypeOK' BY <1>b, <2>1, <2>2, EmptySeq DEF TypeOK, Entry, Job
    <2>4. DurationsInv' /\ PageInv'
      BY <1>c, <2>1, <2>2, EmptySeq, Bounds DEF DurationsInv, PageInv
    <2>5. /\ Reach(crashes') = Reach(crashes) + MaxScan + MaxJobDelay + MaxDown
          /\ Reach(crashes') \in Nat /\ Reach(crashes)' = Reach(crashes')
      BY <1>c, <2>1, ReachFacts DEF Reach
    <2>6. ASSUME NEW a \in Account \ (BelowThreshold \cup given_up), saved[a] < height[a]
          PROVE  modified[a] + Reach(crashes') >= now + MaxDown
      <3>0. modified[a] \in Nat /\ now - since <= MaxScan BY <1>c, <2>1
      <3>1. CASE modified[a] >= since BY <1>c, <2>5, <3>0, <3>1, Bounds
      <3>2. CASE QueuedInTime(a)
        <4>1. PICK i \in DOMAIN account_update_queue :
                account_update_queue[i].at <= modified[a] + Reach(crashes) + MaxScan
          BY <3>2 DEF QueuedInTime
        <4>2. account_update_queue[i].at \in Nat
              /\ now - account_update_queue[i].at <= MaxJobDelay
          BY <1>a, <1>q, <4>1 DEF DurationsInv
        <4> QED BY <1>c, <2>5, <4>1, <4>2, Bounds
      <3>3. CASE modified[a] + Reach(crashes) >= since
        <4> DEFINE r == Reach(crashes)
                   q == Reach(crashes')
        <4>1. /\ r \in Nat /\ q \in Nat /\ now \in Nat /\ since \in Nat
              /\ q = r + MaxScan + MaxJobDelay + MaxDown /\ modified[a] + r >= since
          BY <1>c, <2>5, <3>3
        <4> HIDE DEF r, q
        <4>2. modified[a] + q >= now + MaxDown BY <3>0, <4>1, Bounds
        <4> QED BY <4>2 DEF q
      <3> QED BY <1>a, <1>c, <2>1, <2>6, <3>1, <3>2, <3>3 DEF MissingInv, Watched
    <2>7. MissingInv' BY <2>1, <2>5, <2>6 DEF MissingInv, Watched
    <2> QED BY <2>3, <2>4, <2>7 DEF IInv
  <1>8. CASE Restart
    <2>1. /\ ~up /\ up' = TRUE /\ since' = now /\ scan_cursor_account' = BURN_ACCOUNT
          /\ last_full_scan_time' = now - Lookback
          /\ UNCHANGED <<now, height, modified, saved, given_up, page, full_page,
                         account_update_queue, faults, crashes>>
      BY <1>8 DEF Restart
    <2>2. since' \in Start..now /\ last_full_scan_time' \in Overlap..now
          /\ last_full_scan_time' <= now
      BY <1>b, <2>1, Bounds
    <2>3. TypeOK' BY <1>b, <2>1, <2>2 DEF TypeOK, Entry, Job
    <2>4. page = {} /\ account_update_queue = <<>> BY <1>a, <2>1 DEF DurationsInv
    <2>5. DurationsInv' /\ PageInv'
      BY <1>c, <2>1, <2>2, <2>4, EmptySeq, Bounds DEF DurationsInv, PageInv
    <2>6. ASSUME NEW a \in Account \ (BelowThreshold \cup given_up), saved[a] < height[a]
          PROVE  /\ Ahead(a)' /\ modified[a] >= now - Lookback - Overlap
                 /\ modified[a] + Reach(crashes) >= now
      <3>1. modified[a] + Reach(crashes) >= since + MaxDown BY <1>a, <2>1, <2>6 DEF MissingInv, Watched
      <3>2. modified[a] + Reach(crashes) >= now BY <1>c, <2>1, <3>1, Bounds
      <3>3. Reach(crashes) <= Reach(MaxCrashes) /\ Reach(MaxCrashes) \in Nat
        <4>1. crashes <= MaxCrashes /\ MaxCrashes \in Nat /\ crashes \in Nat BY <1>b, <1>c, Bounds
        <4> QED BY <4>1, ReachFacts
      <3>4. modified[a] >= now - Lookback - Overlap
        BY <1>c, <3>2, <3>3, Bounds DEF LongEnough
      <3>5. a \in Nat BY Bounds DEF Account
      <3>6. Ahead(a)' BY <2>1, <2>4, <3>5 DEF Ahead, BURN_ACCOUNT
      <3> QED BY <3>2, <3>4, <3>6
    <2>7. Reach(crashes)' = Reach(crashes) BY <2>1 DEF Reach
    <2>8. MissingInv' BY <2>1, <2>6, <2>7 DEF MissingInv, Watched
    <2> QED BY <2>3, <2>5, <2>8 DEF IInv
  <1>9. CASE UNCHANGED vars
    <2>1. UNCHANGED <<now, height, modified, saved, given_up, up, since, scan_cursor_account,
                     last_full_scan_time, page, full_page, account_update_queue,
                     faults, crashes>>
      BY <1>9 DEF vars, process
    <2>2. TypeOK' /\ DurationsInv' /\ PageInv'
      BY <1>a, <2>1 DEF TypeOK, DurationsInv, PageInv
    <2>3. \A a : (QueuedInTime(a) <=> QueuedInTime(a)') /\ (Ahead(a) <=> Ahead(a)')
      BY <2>1 DEF QueuedInTime, Ahead
    <2>4. MissingInv' BY <1>a, <2>1, <2>3 DEF MissingInv, Watched
    <2> QED BY <2>2, <2>4 DEF IInv
  <1> QED
    BY <1>1, <1>2, <1>3, <1>4, <1>5, <1>6, <1>7, <1>8, <1>9 DEF Next

\* Every reachable state satisfies the inductive invariant.
THEOREM Invariance == LongEnough => (Spec => []IInv)
  <1> SUFFICES ASSUME LongEnough PROVE Spec => []IInv OBVIOUS
  <1>1. IInv /\ [Next]_vars => IInv' BY NextIInv
  <1> QED BY <1>1, InitIInv, PTL DEF Spec

\* No account with missing blocks falls out of sight, through scans, pauses and
\* any number of deaths of the process, if the look-back allows for them, but for
\* those below the threshold and those whose last job ended short.
THEOREM InSight == LongEnough => (Spec => []NoneOutOfSight)
  <1> SUFFICES ASSUME LongEnough PROVE Spec => []NoneOutOfSight OBVIOUS
  <1>1. ASSUME IInv PROVE NoneOutOfSight
    <2> SUFFICES ASSUME up, NEW a \in Watched, saved[a] < height[a],
                        ~(modified[a] >= last_full_scan_time - Overlap)
                 PROVE  \E i \in DOMAIN account_update_queue :
                          /\ account_update_queue[i].account = a
                          /\ account_update_queue[i].height = height[a]
      BY DEF NoneOutOfSight
    <2>0. a \in Account BY DEF Watched
    <2>1. last_full_scan_time <= since /\ last_full_scan_time \in Nat /\ since \in Nat
          /\ modified[a] \in Nat
      BY <1>1, <2>0, Bounds DEF IInv, DurationsInv, TypeOK
    <2>2. modified[a] < since /\ a \in Watched BY <2>1, Bounds
    <2>3. QueuedInTime(a) BY <1>1, <2>2 DEF IInv, MissingInv, Watched
    <2> QED BY <2>3 DEF QueuedInTime
  <1> QED BY <1>1, Invariance, PTL
===============================================================================
