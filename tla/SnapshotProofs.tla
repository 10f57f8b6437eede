--------------------------- MODULE SnapshotProofs ---------------------------
(***************************************************************************)
(* Theorems about the two models of the snapshot service: CollectRun,       *)
(* however many snapshots are compared and whatever other users do, and     *)
(* SnapshotCache, for any tasks, any time to live and any writes.           *)
(***************************************************************************)
EXTENDS CollectRun, SnapshotCache, FiniteSetTheorems, SequenceTheorems, NaturalsInduction,
        WellFoundedInduction, TLAPS

\* What is known of the call at each place.
Places ==
  /\ pc # "ended" => outcome = "none"
  /\ pc \in {"idle", "starting"} => task = 0 /\ result = 0
  /\ pc \in {"polling", "looking", "looked"} => task # 0 /\ result = 0
  /\ pc = "waiting" => result # 0
  /\ outcome = "SUCCEEDED" => result # 0

\* A snapshot of a task is made after the task's end, so it is not among those
\* listed before the task was begun or found running.
Causes ==
  /\ \A n \in DOMAIN snapshots :
       /\ snapshots[n].task # 0 => tasks[snapshots[n].task] # "RUNNING"
       /\ snapshots[n].trigger = "PREDICT" => snapshots[n].task = 0
  /\ task # 0 => \A n \in before : ~Mine(n)

\* A snapshot that may be new to the caller without anyone's meddling.
Expected(n) == snapshots[n].trigger = "PREDICT" \/ (task # 0 /\ Mine(n))

\* Without meddling, what was not listed before is expected or stays out of sight.
Unmeddled ==
  ~meddled =>
    /\ pc \in {"starting", "polling", "looking", "looked"} =>
         \A n \in Visible \ before : Expected(n) \/ Cardinality(Newer(n)) >= Recent
    /\ pc = "looked" => \A n \in listing \ before : Expected(n)

IInv == TypeOK /\ Places /\ Causes /\ Unmeddled /\ OwnSnapshot /\ NotOverlooked

\* More tasks leave them what they are.
LEMMA SnapshotsGrow ==
  ASSUME NEW m \in Nat, NEW n \in Nat, m <= n
  PROVE  \A s \in Seq(Snapshots(m)) : s \in Seq(Snapshots(n))
<1>1. Snapshots(m) \subseteq Snapshots(n)
  BY DEF Snapshots
<1> QED
  BY <1>1

\* What the types say of one snapshot.
LEMMA SnapshotFields ==
  ASSUME TypeOK, NEW n \in DOMAIN snapshots
  PROVE  /\ n \in 1 .. Len(snapshots)
         /\ snapshots[n] \in Snapshots(Len(tasks))
         /\ snapshots[n].task \in 0 .. Len(tasks)
<1>1. n \in 1 .. Len(snapshots) /\ snapshots[n] \in Snapshots(Len(tasks))
  BY DEF TypeOK
<1> QED
  BY <1>1 DEF Snapshots

\* While Forward's snapshots are the same, the same are in sight.
LEMMA SameView ==
  ASSUME snapshots' = snapshots
  PROVE  Visible' = Visible /\ \A n : Newer(n)' = Newer(n)
BY DEF Visible, Newer, Left

\* The snapshots newer than another are finitely many.
LEMMA NewerFinite ==
  ASSUME TypeOK, NEW n \in DOMAIN snapshots
  PROVE  IsFiniteSet(Newer(n)) /\ Cardinality(Newer(n)) \in Nat
<1>1. DOMAIN snapshots = 1 .. Len(snapshots) /\ Len(snapshots) \in Nat
  BY DEF TypeOK
<1>2. IsFiniteSet(1 .. Len(snapshots))
  BY <1>1, FS_Interval
<1>3. Newer(n) \subseteq 1 .. Len(snapshots)
  BY <1>1 DEF Newer, Visible
<1> QED
  BY <1>2, <1>3, FS_Subset, FS_CardinalityType

\* Initially everything holds.
LEMMA InitIInv == Init => IInv
<1> SUFFICES ASSUME Init PROVE IInv
  OBVIOUS
<1>1. PICK k \in {0, Recent + 1} : snapshots = [n \in 1 .. k |-> Old]
  BY DEF Init
<1>2. k \in Nat
  BY CollectAssumption
<1>3. \A n \in DOMAIN snapshots : snapshots[n] = Old
  BY <1>1, <1>2
<1>4. snapshots \in Seq(Snapshots(0))
  <2>1. Old \in Snapshots(0)
    BY DEF Old, Snapshots
  <2> QED
    BY <1>1, <1>2, <2>1
<1>5. tasks \in Seq({"RUNNING", "SUCCEEDED"} \cup Ends) /\ Len(tasks) = 0
  BY DEF Init
<1>6. Len(snapshots) \in Nat
  BY <1>4
<1>7. TypeOK
  <2>1. snapshots \in Seq(Snapshots(Len(tasks)))
    BY <1>4, <1>5
  <2>2. /\ before \subseteq DOMAIN snapshots /\ listing \subseteq DOMAIN snapshots
        /\ task \in 0 .. Len(tasks) /\ result \in 0 .. Len(snapshots)
    BY <1>5, <1>6 DEF Init
  <2>3. /\ options \subseteq {"start", "wait", "timeout"} /\ pc = "idle" /\ late = FALSE
        /\ outcome = "none" /\ meddled = FALSE
    BY DEF Init
  <2> QED
    BY <1>5, <2>1, <2>2, <2>3 DEF TypeOK
<1> QED
  BY <1>3, <1>7 DEF Init, IInv, Places, Causes, Unmeddled, OwnSnapshot, NotOverlooked, Old

\* A snapshot is made: without meddling, one that is expected, or before the
\* caller began.
LEMMA SnapshotMade ==
  ASSUME IInv,
         NEW trigger \in {"COLLECTION", "PREDICT", "OTHER"}, NEW t \in 0 .. Len(tasks),
         NewSnapshot(trigger, t),
         t # 0 => tasks[t] # "RUNNING",
         trigger = "PREDICT" => t = 0,
         UNCHANGED <<tasks, call>>,
         meddled' \in BOOLEAN, meddled => meddled',
         meddled' \/ pc = "idle" \/ trigger = "PREDICT" \/ (task # 0 /\ t = task)
  PROVE  IInv'
<1> USE DEF IInv
<1>0. PICK new \in Nat : new = Len(snapshots) + 1
  BY DEF TypeOK
<1>1. /\ Len(tasks) \in Nat /\ Len(snapshots) \in Nat /\ DOMAIN snapshots = 1 .. Len(snapshots)
      /\ snapshots \in Seq(Snapshots(Len(tasks)))
  BY DEF TypeOK
<1>2. [trigger |-> trigger, task |-> t, state |-> "PROCESSING"] \in Snapshots(Len(tasks))
  BY <1>1 DEF Snapshots
<1>3. /\ snapshots' \in Seq(Snapshots(Len(tasks)))
      /\ Len(snapshots') = new
      /\ DOMAIN snapshots' = DOMAIN snapshots \cup {new}
      /\ new \notin DOMAIN snapshots
      /\ \A n \in DOMAIN snapshots : snapshots'[n] = snapshots[n]
      /\ snapshots'[new] = [trigger |-> trigger, task |-> t, state |-> "PROCESSING"]
  BY <1>0, <1>1, <1>2 DEF NewSnapshot
<1>4. UNCHANGED <<options, tasks, pc, before, task, listing, late, result, outcome>>
  BY DEF call
<1>5. TypeOK'
  <2>1. result' \in 0 .. Len(snapshots')
    BY <1>1, <1>3, <1>4 DEF TypeOK
  <2>2. before' \subseteq DOMAIN snapshots' /\ listing' \subseteq DOMAIN snapshots'
    BY <1>3, <1>4 DEF TypeOK
  <2>3. snapshots' \in Seq(Snapshots(Len(tasks')))
    BY <1>3, <1>4
  <2> QED
    BY <1>4, <2>1, <2>2, <2>3 DEF TypeOK
<1>6. before \subseteq DOMAIN snapshots /\ listing \subseteq DOMAIN snapshots
  BY DEF TypeOK
<1>7. Places' /\ NotOverlooked'
  BY <1>3, <1>4, <1>6 DEF Places, NotOverlooked, Mine
<1>8. Causes'
  <2>1. \A n \in DOMAIN snapshots' : snapshots'[n].task # 0 => tasks[snapshots'[n].task] # "RUNNING"
    BY <1>3 DEF Causes
  <2>2. \A n \in DOMAIN snapshots' : snapshots'[n].trigger = "PREDICT" => snapshots'[n].task = 0
    BY <1>3 DEF Causes
  <2>3. task # 0 => \A n \in before : snapshots'[n].task # task
    BY <1>3, <1>6 DEF Causes, Mine
  <2> QED
    BY <1>4, <2>1, <2>2, <2>3 DEF Causes, Mine
<1>9. OwnSnapshot'
  <2>1. result # 0 => result \in DOMAIN snapshots
    BY <1>1 DEF TypeOK
  <2> QED
    BY <1>3, <1>4, <2>1 DEF OwnSnapshot, Mine
<1>10. Unmeddled'
  <2>1. Visible' = Visible \cup {new}
    BY <1>3 DEF Visible, Left
  <2>2. \A n \in Visible : Expected(n) => Expected(n)'
    BY <1>3, <1>4 DEF Expected, Mine, Visible
  <2>3. \A n \in Visible : Cardinality(Newer(n)) >= Recent => Cardinality(Newer(n)') >= Recent
    <3> SUFFICES ASSUME NEW n \in Visible, Cardinality(Newer(n)) >= Recent
                 PROVE  Cardinality(Newer(n)') >= Recent
      OBVIOUS
    <3>1. n \in DOMAIN snapshots /\ n \in DOMAIN snapshots'
      BY <1>3 DEF Visible
    <3>2. IsFiniteSet(Newer(n)') /\ Cardinality(Newer(n)') \in Nat
      <4>1. DOMAIN snapshots' = 1 .. Len(snapshots') /\ Len(snapshots') \in Nat
        BY <1>5 DEF TypeOK
      <4>2. Newer(n)' \subseteq 1 .. Len(snapshots')
        BY <4>1 DEF Newer, Visible
      <4>3. IsFiniteSet(1 .. Len(snapshots'))
        BY <4>1, FS_Interval
      <4> QED
        BY <4>2, <4>3, FS_Subset, FS_CardinalityType
    <3>3. Newer(n) \subseteq Newer(n)'
      BY <2>1 DEF Newer
    <3>4. Cardinality(Newer(n)) <= Cardinality(Newer(n)') /\ Cardinality(Newer(n)) \in Nat
      BY <3>1, <3>2, <3>3, FS_Subset, NewerFinite
    <3> QED
      BY <3>2, <3>4, CollectAssumption
  <2>4. meddled' \/ pc = "idle" \/ Expected(new)'
    BY <1>3, <1>4 DEF Expected, Mine
  <2>5. \A n \in listing : Expected(n) => Expected(n)'
    BY <1>3, <1>4, <1>6 DEF Expected, Mine
  <2> QED
    BY <1>4, <2>1, <2>2, <2>3, <2>4, <2>5 DEF Unmeddled
<1> QED
  BY <1>5, <1>7, <1>8, <1>9, <1>10

\* A snapshot changes its state: it leaves, or it is the one waited for.
LEMMA SnapshotMoves ==
  ASSUME IInv,
         NEW n \in DOMAIN snapshots, NEW s \in {"PROCESSED", "FAILED", "ARCHIVED", "GONE"},
         snapshots' = [snapshots EXCEPT ![n].state = s],
         UNCHANGED <<tasks, call>>,
         meddled' = TRUE \/ (pc = "waiting" /\ meddled' = meddled)
  PROVE  IInv'
<1> USE DEF IInv
<1>1. UNCHANGED <<options, tasks, pc, before, task, listing, late, result, outcome>>
  BY DEF call
<1>2. /\ snapshots \in Seq(Snapshots(Len(tasks)))
      /\ DOMAIN snapshots = 1 .. Len(snapshots) /\ Len(snapshots) \in Nat
  BY DEF TypeOK
<1>3. [snapshots[n] EXCEPT !.state = s] \in Snapshots(Len(tasks))
  BY SnapshotFields DEF Snapshots
<1>4. snapshots' \in Seq(Snapshots(Len(tasks'))) /\ Len(snapshots') = Len(snapshots)
  BY <1>1, <1>2, <1>3
<1>5. DOMAIN snapshots' = DOMAIN snapshots
  BY <1>2
<1>6. \A m \in DOMAIN snapshots :
        snapshots'[m].task = snapshots[m].task /\ snapshots'[m].trigger = snapshots[m].trigger
  <2>1. \A m \in DOMAIN snapshots : snapshots[m] \in Snapshots(Len(tasks))
    BY <1>2
  <2>2. snapshots'[n].task = snapshots[n].task /\ snapshots'[n].trigger = snapshots[n].trigger
    BY <2>1 DEF Snapshots
  <2>3. \A m \in DOMAIN snapshots : m # n => snapshots'[m] = snapshots[m]
    OBVIOUS
  <2> QED
    BY <2>2, <2>3
<1>7. TypeOK'
  <2>1. meddled' \in BOOLEAN
    BY DEF TypeOK
  <2> QED
    BY <1>1, <1>4, <1>5, <2>1 DEF TypeOK
<1>8. before \subseteq DOMAIN snapshots /\ listing \subseteq DOMAIN snapshots
      /\ (result # 0 => result \in DOMAIN snapshots)
  BY <1>2 DEF TypeOK
<1>9. Places'
  BY <1>1 DEF Places
<1>10. Causes' /\ OwnSnapshot' /\ NotOverlooked'
  BY <1>1, <1>5, <1>6, <1>8 DEF Causes, OwnSnapshot, NotOverlooked, Mine
<1>11. Unmeddled'
  BY <1>1 DEF Unmeddled
<1> QED
  BY <1>7, <1>9, <1>10, <1>11

LEMMA NextIInv == IInv /\ [Next]_vars => IInv'
<1> SUFFICES ASSUME IInv, [Next]_vars PROVE IInv'
  OBVIOUS
<1> USE DEF IInv
<1>1. CASE Begin
  <2>1. before' \subseteq DOMAIN snapshots
    BY <1>1 DEF Begin, Newest, Visible
  <2>2. TypeOK'
    BY <1>1, <2>1 DEF Begin, TypeOK, forward
  <2>3. Visible' = Visible /\ \A n \in DOMAIN snapshots : Newer(n)' = Newer(n)
    BY <1>1 DEF Begin, Visible, Newer, Left, forward
  <2>4. \A n \in Visible \ Newest : Cardinality(Newer(n)) >= Recent
    BY NewerFinite, CollectAssumption DEF Newest, Visible
  <2>5. Places' /\ Causes'
    BY <1>1 DEF Begin, Places, Causes, Mine, forward
  <2>6. Unmeddled'
    <3>1. Visible \subseteq DOMAIN snapshots
      BY DEF Visible
    <3> QED
      BY <1>1, <2>3, <2>4, <3>1 DEF Begin, Unmeddled, Expected, Mine, forward
  <2>7. OwnSnapshot' /\ NotOverlooked'
    BY <1>1 DEF Begin, OwnSnapshot, NotOverlooked, Places, Mine, forward
  <2> QED
    BY <2>2, <2>5, <2>6, <2>7
<1>2. CASE Start
  <2>1. /\ tasks' \in Seq({"RUNNING", "SUCCEEDED"} \cup Ends)
        /\ Len(tasks') = Len(tasks) + 1 /\ Len(tasks) \in Nat
        /\ \A t \in 1 .. Len(tasks) : tasks'[t] = tasks[t]
    BY <1>2 DEF Start, TypeOK
  <2>2. snapshots' = snapshots /\ snapshots \in Seq(Snapshots(Len(tasks)))
    BY <1>2 DEF Start, Started, TypeOK
  <2>3. snapshots' \in Seq(Snapshots(Len(tasks')))
    BY <2>1, <2>2, SnapshotsGrow
  <2>4. TypeOK'
    <3>1. task' \in 0 .. Len(tasks')
      BY <1>2, <2>1 DEF Start
    <3> QED
      BY <1>2, <2>1, <2>2, <2>3, <3>1 DEF Start, Started, End, TypeOK
  <2>5. Places'
    BY <1>2, <2>1 DEF Start, Started, End, Places
  <2>6. Causes'
    BY <1>2, <2>1, <2>2, SnapshotFields DEF Start, Started, End, Causes, Mine, TypeOK
  <2>7. Unmeddled'
    BY <1>2, SameView DEF Start, Started, End, Unmeddled, Expected, Mine, Places, Visible
  <2>8. OwnSnapshot' /\ NotOverlooked'
    BY <1>2 DEF Start, Started, End, OwnSnapshot, NotOverlooked, Places
  <2> QED
    BY <2>4, <2>5, <2>6, <2>7, <2>8
<1>3. CASE Join
  <2>1. /\ task' \in DOMAIN tasks /\ tasks[task'] = "RUNNING" /\ tasks' = tasks
        /\ snapshots' = snapshots
    BY <1>3 DEF Join, Joinable, Started
  <2>2. task' \in 1 .. Len(tasks) /\ Len(tasks) \in Nat
    BY <2>1 DEF TypeOK
  <2>3. TypeOK'
    <3>1. UNCHANGED <<options, tasks, snapshots, listing, result, meddled>>
      BY <1>3 DEF Join, Started
    <3>2. /\ pc' \in {"polling", "ended"} /\ outcome' \in {outcome, "QUEUED"}
          /\ late' \in {late, FALSE} /\ before' \in {before, {}}
      BY <1>3 DEF Join, Started, End
    <3>3. late' \in BOOLEAN /\ before' \subseteq DOMAIN snapshots'
      BY <3>1, <3>2 DEF TypeOK
    <3>4. task' \in 0 .. Len(tasks')
      BY <2>1, <2>2
    <3> QED
      BY <3>1, <3>2, <3>3, <3>4 DEF TypeOK
  <2>4. Places'
    BY <1>3, <2>2 DEF Join, Started, End, Places
  <2>5. Causes'
    BY <1>3, <2>1, <2>2 DEF Join, Started, End, Causes, Mine, TypeOK
  <2>6. Unmeddled'
    BY <1>3, SameView DEF Join, Started, End, Unmeddled, Expected, Mine, Places, Visible
  <2>7. OwnSnapshot' /\ NotOverlooked'
    BY <1>3 DEF Join, Started, End, OwnSnapshot, NotOverlooked, Places
  <2> QED
    BY <2>3, <2>4, <2>5, <2>6, <2>7
<1>4. CASE NothingToJoin
  BY <1>4 DEF NothingToJoin, End, forward, TypeOK, Places, Causes, Unmeddled, OwnSnapshot,
              NotOverlooked, Mine
<1>5. CASE Poll
  <2>1. TypeOK'
    <3>1. /\ outcome' \in {outcome, "TIMEOUT"} \cup Ends
          /\ pc' \in {"looking", "ended"} /\ late' = FALSE
          /\ before' \in {before, {}}
      BY <1>5 DEF Poll, TaskFailed, Ends, End
    <3>2. UNCHANGED <<options, tasks, snapshots, task, listing, result, meddled>>
      BY <1>5 DEF Poll, forward
    <3> QED
      BY <3>1, <3>2 DEF TypeOK
  <2>2. Places' /\ Causes' /\ OwnSnapshot' /\ NotOverlooked'
    BY <1>5 DEF Poll, TaskFailed, End, forward, Places, Causes, OwnSnapshot, NotOverlooked, Mine
  <2>3. Unmeddled'
    BY <1>5, SameView DEF Poll, End, forward, Unmeddled, Expected, Mine
  <2> QED
    BY <2>1, <2>2, <2>3
<1>6. CASE List
  <2>1. listing' = Newest /\ Newest \subseteq DOMAIN snapshots
    BY <1>6 DEF List, Newest, Visible
  <2>2. TypeOK' /\ Places' /\ Causes'
    BY <1>6, <2>1 DEF List, forward, TypeOK, Places, Causes, Mine
  <2>3. \A n \in Newest \ before : ~meddled => Expected(n)
    <3>1. \A n \in Newest : n \in Visible /\ Cardinality(Newer(n)) \in Nat
                          /\ Cardinality(Newer(n)) < Recent
      BY NewerFinite DEF Newest, Visible
    <3> QED
      BY <1>6, <3>1, CollectAssumption DEF List, Unmeddled
  <2>4. Unmeddled'
    BY <1>6, <2>1, <2>3, SameView DEF List, forward, Unmeddled, Expected, Mine
  <2>5. OwnSnapshot' /\ NotOverlooked'
    BY <1>6 DEF List, forward, OwnSnapshot, NotOverlooked, Places, Mine, TypeOK
  <2> QED
    BY <2>2, <2>4, <2>5
<1>7. CASE Found
  <2>1. PICK n \in Fresh : result' = n
    BY <1>7 DEF Found
  <2>2. n \in DOMAIN snapshots /\ n \in 1 .. Len(snapshots) /\ Len(snapshots) \in Nat
    BY <2>1 DEF Fresh, TypeOK
  <2>3. TypeOK'
    <3>1. UNCHANGED <<options, tasks, snapshots, task, listing, meddled>>
      BY <1>7 DEF Found, forward
    <3>2. pc' = "ended" /\ late' = FALSE /\ before' = {} /\ outcome' = "SUCCEEDED"
      BY <1>7 DEF Found, End
    <3>3. result' \in 0 .. Len(snapshots')
      BY <2>1, <2>2, <3>1
    <3> QED
      BY <3>1, <3>2, <3>3 DEF TypeOK
  <2>6. Places' /\ Causes'
    BY <1>7, <2>1, <2>2 DEF Found, End, forward, Places, Causes
  <2>4. OwnSnapshot'
    BY <1>7, <2>1 DEF Found, End, forward, OwnSnapshot, Fresh, Unmeddled, Expected, Mine
  <2>5. Unmeddled' /\ NotOverlooked'
    BY <1>7 DEF Found, End, forward, Unmeddled, NotOverlooked
  <2> QED
    BY <2>3, <2>4, <2>5, <2>6
<1>8. CASE NotFound
  <2>1. TypeOK' /\ Places' /\ Causes' /\ OwnSnapshot'
    BY <1>8 DEF NotFound, End, forward, TypeOK, Places, Causes, OwnSnapshot, Mine
  <2>2. Unmeddled'
    BY <1>8, SameView DEF NotFound, End, forward, Unmeddled, Expected, Mine
  <2>3. NotOverlooked'
    <3>1. \A n \in listing : ~Mine(n)
      BY <1>8 DEF NotFound, Fresh, Causes, Mine, Places, TypeOK
    <3> QED
      BY <1>8, <3>1 DEF NotFound, forward, NotOverlooked, Mine
  <2> QED
    BY <2>1, <2>2, <2>3
<1>9. CASE Follow
  <2>1. TypeOK' /\ Places' /\ Causes'
    BY <1>9 DEF Follow, forward, TypeOK, Places, Causes, Mine
  <2> QED
    BY <1>9, <2>1 DEF Follow, forward, Unmeddled, OwnSnapshot, NotOverlooked, Mine
<1>10. CASE Look
  <2>1. TypeOK' /\ Places' /\ Causes'
    BY <1>10 DEF Look, Final, Ends, End, forward, TypeOK, Places, Causes, Mine
  <2> QED
    BY <1>10, <2>1 DEF Look, Final, End, forward, Unmeddled, OwnSnapshot, NotOverlooked, Mine
<1>11. CASE Raise
  <2>1. TypeOK' /\ Places' /\ Causes'
    BY <1>11 DEF Raise, End, forward, TypeOK, Places, Causes, Mine
  <2> QED
    BY <1>11, <2>1 DEF Raise, End, forward, Unmeddled, OwnSnapshot, NotOverlooked, Mine
<1>12. CASE Expire
  <2>1. TypeOK' /\ Places' /\ Causes' /\ OwnSnapshot' /\ NotOverlooked'
    BY <1>12 DEF Expire, forward, TypeOK, Places, Causes, OwnSnapshot, NotOverlooked, Mine
  <2>2. Unmeddled'
    BY <1>12, SameView DEF Expire, forward, Unmeddled, Expected, Mine
  <2> QED
    BY <2>1, <2>2
<1>13. CASE StartAnother
  <2>1. /\ tasks' \in Seq({"RUNNING", "SUCCEEDED"} \cup Ends)
        /\ Len(tasks') = Len(tasks) + 1 /\ Len(tasks) \in Nat
        /\ \A t \in 1 .. Len(tasks) : tasks'[t] = tasks[t]
    BY <1>13 DEF StartAnother, TypeOK
  <2>2. snapshots' = snapshots /\ snapshots' \in Seq(Snapshots(Len(tasks')))
    BY <1>13, <2>1, SnapshotsGrow DEF StartAnother, TypeOK
  <2>3. TypeOK'
    BY <1>13, <2>1, <2>2 DEF StartAnother, call, TypeOK
  <2>4. Causes'
    BY <1>13, <2>1, <2>2, SnapshotFields DEF StartAnother, call, Causes, Mine
  <2>5. Unmeddled'
    BY <1>13, SameView DEF StartAnother, call, Unmeddled, Expected, Mine
  <2>6. Places' /\ OwnSnapshot' /\ NotOverlooked'
    BY <1>13 DEF StartAnother, call, Places, OwnSnapshot, NotOverlooked, Mine
  <2> QED
    BY <2>3, <2>4, <2>5, <2>6
<1>14. CASE EndTask
  <2>1. PICK t \in DOMAIN tasks, e \in {"SUCCEEDED"} \cup Ends :
          tasks[t] = "RUNNING" /\ tasks' = [tasks EXCEPT ![t] = e]
    BY <1>14 DEF EndTask
  <2>2. /\ tasks' \in Seq({"RUNNING", "SUCCEEDED"} \cup Ends)
        /\ Len(tasks') = Len(tasks) /\ Len(tasks) \in Nat
        /\ \A u \in 1 .. Len(tasks) : tasks'[u] = tasks[u] \/ tasks'[u] # "RUNNING"
    BY <2>1 DEF TypeOK, Ends
  <2>3. TypeOK'
    BY <1>14, <2>2 DEF EndTask, call, TypeOK
  <2>4. Causes'
    BY <1>14, <2>2, SnapshotFields DEF EndTask, call, Causes, Mine
  <2>5. Unmeddled'
    BY <1>14, SameView DEF EndTask, call, Unmeddled, Expected, Mine
  <2>6. Places' /\ OwnSnapshot' /\ NotOverlooked'
    BY <1>14 DEF EndTask, call, Places, OwnSnapshot, NotOverlooked, Mine
  <2> QED
    BY <2>3, <2>4, <2>5, <2>6
<1>15. CASE Collected
  <2>1. PICK t \in DOMAIN tasks :
          /\ tasks[t] \in {"SUCCEEDED", "FAILED"}
          /\ NewSnapshot("COLLECTION", t)
          /\ meddled' = (meddled \/ (pc # "idle" /\ t # task))
    BY <1>15 DEF Collected
  <2>2. t \in 0 .. Len(tasks) /\ t # 0
    BY DEF TypeOK
  <2> QED
    BY <1>15, <2>1, <2>2, SnapshotMade DEF Collected, TypeOK
<1>16. CASE Appear
  <2>1. PICK trigger \in {"PREDICT", "OTHER"} :
          NewSnapshot(trigger, 0) /\ meddled' = (meddled \/ trigger = "OTHER")
    BY <1>16 DEF Appear
  <2>2. 0 \in 0 .. Len(tasks)
    BY DEF TypeOK
  <2> QED
    BY <1>16, <2>1, <2>2, SnapshotMade DEF Appear, TypeOK
<1>17. CASE Leave
  BY <1>17, SnapshotMoves DEF Leave, Left
<1>18. CASE Process
  <2>1. result \in DOMAIN snapshots
    BY <1>18 DEF Process, TypeOK, Places
  <2> QED
    BY <1>18, <2>1, SnapshotMoves DEF Process
<1>19. CASE UNCHANGED vars
  <2>1. UNCHANGED <<options, tasks, snapshots, pc, before, task, listing, late, result, outcome, meddled>>
    BY <1>19 DEF vars
  <2>2. TypeOK' /\ Places' /\ Causes' /\ OwnSnapshot' /\ NotOverlooked'
    BY <2>1 DEF TypeOK, Places, Causes, OwnSnapshot, NotOverlooked, Mine
  <2>3. Unmeddled'
    BY <2>1, SameView DEF Unmeddled, Expected, Mine
  <2> QED
    BY <2>2, <2>3
<1> QED
  BY <1>1, <1>2, <1>3, <1>4, <1>5, <1>6, <1>7, <1>8, <1>9, <1>10, <1>11, <1>12,
     <1>13, <1>14, <1>15, <1>16, <1>17, <1>18, <1>19
     DEF Next, Client, Finished

LEMMA IInvHolds == Spec => []IInv
BY InitIInv, NextIInv, PTL DEF Spec

\* Types: every variable holds a value of its type.
THEOREM CollectTypes == Spec => []TypeOK
<1>1. IInv => TypeOK
  BY DEF IInv
<1> QED
  BY <1>1, IInvHolds, PTL

\* Without meddling, collect() returns the snapshot its own collection made,
\* however many snapshots the listing holds and whatever was predicted
\* meanwhile.
THEOREM OwnSnapshotCorrect == Spec => []OwnSnapshot
<1>1. IInv => OwnSnapshot
  BY DEF IInv
<1> QED
  BY <1>1, IInvHolds, PTL

\* collect() never says that no snapshot appeared when the one its collection
\* made was among those it listed last.
THEOREM NotOverlookedCorrect == Spec => []NotOverlooked
<1>1. IInv => NotOverlooked
  BY DEF IInv
<1> QED
  BY <1>1, IInvHolds, PTL

-----------------------------------------------------------------------------
(* SnapshotCache: what is in the cache, and what is on its way into it, was *)
(* true of the question asked after the last write known to have happened.  *)

States == {"UNPROCESSED", "PROCESSED", "GONE"}
MadeSnapshots == [kind : Kinds, state : States]
Carried == [question : Questions, value : Nat, asOf : Nat,
            op : {"none", "upload", "invalidate", "delete"}]

\* The types the argument rests on.
CacheTypes ==
  /\ lifetime \in BOOLEAN
  /\ made \in Seq(MadeSnapshots)
  /\ version \in Nat
  /\ resolved \in [Questions -> [age : Nat, value : Nat, asOf : Nat, held : BOOLEAN]]
  /\ at \in [Tasks -> {"idle", "asking", "listed", "writing", "written"}]
  /\ local \in [Tasks -> Carried]
  /\ barrier \in Nat
  /\ answers \in [Questions -> SUBSET Nat]

\* A task that is writing carries the write.
Writers == \A t \in Tasks : at[t] \in {"writing", "written"} => local[t].op # "none"

\* No listing is newer than the server, and without a race none is older than
\* the barrier, on its way into the cache or there.
NoneOlder ==
  /\ barrier <= version
  /\ \A t \in Tasks : at[t] = "written" => local[t].asOf <= version
  /\ "write" \notin races =>
       /\ \A k \in Questions : resolved[k].held => resolved[k].asOf >= barrier
       /\ \A t \in Tasks : at[t] = "listed" => local[t].asOf >= barrier

\* With "lifetime" and without two resolutions of a question at once, what was
\* answered is what is held, and while a question is being resolved nothing is.
Pinned ==
  lifetime /\ "twice" \notin races =>
    /\ \A k \in Questions : answers[k] \subseteq {resolved[k].value}
    /\ \A k \in Questions : ~resolved[k].held => answers[k] = {}
    /\ \A t \in Tasks : Resolving(t) => ~resolved[local[t].question].held
    /\ \A t, u \in Tasks :
         Resolving(t) /\ Resolving(u) /\ local[t].question = local[u].question => t = u

\* Whatever answers a question, did or may, qualifies for it.
Qualifies(n, k) == n # NoSnapshot => n \in DOMAIN made /\ made[n].kind \in Eligible(k)

Qualified ==
  /\ \A k \in Questions : Qualifies(resolved[k].value, k)
  /\ \A k \in Questions : \A n \in answers[k] : Qualifies(n, k)
  /\ \A t \in Tasks : at[t] = "listed" => Qualifies(local[t].value, local[t].question)

CacheInv == CacheTypes /\ Writers /\ NoneOlder /\ Pinned /\ Qualified

\* A non-empty set of natural numbers with a bound has a largest element.
LEMMA MaxOfBounded ==
  ASSUME NEW S \in SUBSET Nat, S # {}, NEW b \in Nat, \A n \in S : n <= b
  PROVE  Max(S) \in S /\ \A n \in S : n <= Max(S)
<1> DEFINE T == {b - n : n \in S}
           Below == {ss \in Nat \X Nat : ss[1] < ss[2]}
<1>1. IsWellFoundedOn(Below, Nat)
  BY NatLessThanWellFounded, Zenon DEF OpToRel
<1>2. T \subseteq Nat /\ T # {}
  <2>1. \A n \in S : b - n \in Nat
    OBVIOUS
  <2>2. QED
    BY <2>1
<1>3. PICK d \in T : \A e \in T : <<e, d>> \notin Below
  <2> HIDE DEF T, Below
  <2>1. QED
    BY <1>1, <1>2, WFMin
<1>4. PICK n \in S : d = b - n
  OBVIOUS
<1>5. ASSUME NEW m \in S PROVE n >= m
  <2>1. b - m \in T /\ b - m \in Nat /\ d \in Nat
    BY <1>2
  <2>2. ~(b - m < d)
    BY <1>3, <2>1
  <2>3. QED
    BY <1>4, <2>2
<1>6. QED
  BY <1>5 DEF Max

\* What is picked qualifies, if there is anything.
LEMMA LatestQualifies ==
  ASSUME made \in Seq(MadeSnapshots), NEW k \in Questions
  PROVE  Latest(k) \in Nat /\ Qualifies(Latest(k), k)
<1> DEFINE S == {NoSnapshot} \cup
                {n \in DOMAIN made : made[n].state = "PROCESSED" /\ made[n].kind \in Eligible(k)}
<1>1. DOMAIN made = 1 .. Len(made) /\ Len(made) \in Nat
  OBVIOUS
<1>2. S \in SUBSET Nat /\ S # {} /\ \A n \in S : n <= Len(made)
  BY <1>1 DEF NoSnapshot
<1>3. Max(S) \in S
  BY <1>1, <1>2, MaxOfBounded
<1>4. QED
  BY <1>2, <1>3 DEF Latest, Qualifies

\* The server's state may change under a resolution: snapshots come and change
\* state, but none changes its kind.
Grows ==
  /\ version' = version + 1
  /\ made' \in Seq(MadeSnapshots)
  /\ \A n \in DOMAIN made : n \in DOMAIN made' /\ made'[n].kind = made[n].kind

LEMMA MovesGrow ==
  ASSUME CacheTypes, NEW from, NEW to \in States, Moves(from, to)
  PROVE  Grows
<1>1. PICK n \in DOMAIN made : Changes([made EXCEPT ![n].state = to])
  BY DEF Moves
<1>2. made \in Seq(MadeSnapshots) /\ DOMAIN made = 1 .. Len(made)
  BY DEF CacheTypes
<1>3. made[n] \in MadeSnapshots
  BY <1>2, ElementOfSeq
<1>4. made' = [made EXCEPT ![n] = [made[n] EXCEPT !.state = to]]
  BY <1>1 DEF Changes
<1>5. [made[n] EXCEPT !.state = to] \in MadeSnapshots
  BY <1>3 DEF MadeSnapshots
<1>6. made' \in Seq(MadeSnapshots)
  BY <1>2, <1>4, <1>5
<1>7. \A m \in DOMAIN made : m \in DOMAIN made' /\ made'[m].kind = made[m].kind
  BY <1>2, <1>3, <1>4 DEF MadeSnapshots
<1>8. QED
  BY <1>1, <1>6, <1>7 DEF Grows, Changes

LEMMA ArrivesGrow ==
  ASSUME CacheTypes, NEW kind \in Kinds, NEW state \in States, Arrives(kind, state)
  PROVE  Grows
<1> DEFINE s == [kind |-> kind, state |-> state]
<1>1. made \in Seq(MadeSnapshots) /\ s \in MadeSnapshots
  BY DEF CacheTypes, MadeSnapshots
<1>2. made' = Append(made, s) /\ version' = version + 1
  BY DEF Arrives, Changes
<1>3. made' \in Seq(MadeSnapshots)
  BY <1>1, <1>2
<1>4. \A n \in DOMAIN made : n \in DOMAIN made' /\ made'[n] = made[n]
  BY <1>1, <1>2
<1>5. QED
  BY <1>2, <1>3, <1>4 DEF Grows

LEMMA ApplyGrows ==
  ASSUME CacheTypes, Writers, NEW t \in Tasks, Apply(t)
  PROVE  /\ Grows /\ at' = [at EXCEPT ![t] = "written"]
         /\ local' = [local EXCEPT ![t] = [local[t] EXCEPT !.asOf = version']]
         /\ UNCHANGED <<lifetime, resolved, barrier, races, answers>>
<1>1. local[t].op \in {"upload", "invalidate", "delete"}
  BY DEF Apply, Writers, CacheTypes, Carried
<1>2. CASE local[t].op = "upload"
  <2>1. PICK state \in States : Arrives("collected", state)
    BY <1>2 DEF Apply, States
  <2>2. QED
    BY <2>1, ArrivesGrow DEF Apply, Become, Goto, Kinds
<1>3. CASE local[t].op = "invalidate"
  <2>1. Moves("PROCESSED", "UNPROCESSED")
    BY <1>3 DEF Apply
  <2>2. QED
    BY <2>1, MovesGrow DEF Apply, Become, Goto, States
<1>4. CASE local[t].op = "delete"
  <2>1. PICK state \in States : Moves(state, "GONE")
    BY <1>4 DEF Apply, States
  <2>2. QED
    BY <2>1, MovesGrow DEF Apply, Become, Goto, States
<1>5. QED
  BY <1>1, <1>2, <1>3, <1>4

LEMMA OthersGrow ==
  ASSUME CacheTypes, FinishOne \/ MakeOne
  PROVE  Grows /\ UNCHANGED <<lifetime, resolved, at, local, barrier, races, answers>>
<1>1. CASE FinishOne
  BY <1>1, MovesGrow DEF FinishOne, States
<1>2. CASE MakeOne
  <2>1. PICK kind \in Kinds, state \in States : Arrives(kind, state)
    BY <1>2 DEF MakeOne, States
  <2>2. QED
    BY <1>2, <2>1, ArrivesGrow DEF MakeOne
<1>3. QED
  BY <1>1, <1>2

\* barrier' is the later of the two.
LEMMA MaxOfTwo ==
  ASSUME NEW a \in Nat, NEW b \in Nat
  PROVE  Max({a, b}) = IF a >= b THEN a ELSE b
<1>1. \E x \in {a, b} : \A y \in {a, b} : x >= y
  OBVIOUS
<1>2. PICK x : x = Max({a, b}) /\ x \in {a, b} /\ \A y \in {a, b} : x >= y
  BY <1>1 DEF Max
<1>3. QED
  BY <1>2

-----------------------------------------------------------------------------
\* One lemma for each action, on all the parts of the invariant.

LEMMA AskKeeps ==
  ASSUME CacheInv, NEW t \in Tasks, NEW k \in Questions, Ask(t, k)
  PROVE  CacheInv'
<1> USE DEF Ask, Become, Goto, NoLocal, NoSnapshot
<1>0. CacheTypes /\ Writers /\ NoneOlder /\ Pinned /\ Qualified
  BY DEF CacheInv
<1>1. /\ at' = [at EXCEPT ![t] = "asking"]
      /\ local' = [local EXCEPT ![t] = [NoLocal EXCEPT !.question = k]]
      /\ UNCHANGED <<lifetime, made, version, resolved, barrier, answers>>
  OBVIOUS
<1>2. CacheTypes'
  <2>1. [NoLocal EXCEPT !.question = k] \in Carried
    BY DEF Carried
  <2>2. QED
    BY <1>0, <1>1, <2>1 DEF CacheTypes
<1>3. Writers'
  BY <1>0, <1>1 DEF CacheTypes, Writers
<1>4. NoneOlder'
  BY <1>0, <1>1 DEF CacheTypes, NoneOlder
<1>5. Pinned'
  <2> SUFFICES ASSUME lifetime, "twice" \notin races'
               PROVE  /\ \A u \in Tasks : Resolving(u)' => ~resolved[local'[u].question].held
                      /\ \A u, v \in Tasks :
                           Resolving(u)' /\ Resolving(v)' /\ local'[u].question = local'[v].question
                             => u = v
    BY <1>0, <1>1 DEF Pinned
  <2>1. /\ "twice" \notin races
        /\ \A u \in Tasks : Resolving(u) => local[u].question # k
    OBVIOUS
  <2>2. ~resolved[k].held
    BY <1>0 DEF Hit, Caching, CacheTypes
  <2>3. \A u \in Tasks \ {t} :
          local'[u] = local[u] /\ (Resolving(u)' <=> Resolving(u))
    BY <1>0, <1>1 DEF CacheTypes, Resolving
  <2>4. local'[t].question = k
    BY <1>0, <1>1 DEF CacheTypes
  <2>5. QED
    BY <1>0, <2>1, <2>2, <2>3, <2>4 DEF Pinned
<1>6. Qualified'
  BY <1>0, <1>1 DEF CacheTypes, Qualified, Qualifies
<1>7. QED
  BY <1>2, <1>3, <1>4, <1>5, <1>6 DEF CacheInv

\* The listing is taken from the server as it is, after the barrier.
LEMMA ServeKeeps ==
  ASSUME CacheInv, NEW t \in Tasks, Serve(t)
  PROVE  CacheInv'
<1> USE DEF Serve, Become, Goto
<1>0. CacheTypes /\ Writers /\ NoneOlder /\ Pinned /\ Qualified
  BY DEF CacheInv
<1> DEFINE l == [local[t] EXCEPT !.value = Latest(local[t].question), !.asOf = version]
<1>1. /\ at' = [at EXCEPT ![t] = "listed"] /\ local' = [local EXCEPT ![t] = l]
      /\ UNCHANGED <<lifetime, made, version, resolved, barrier, races, answers>>
  OBVIOUS
<1>2. /\ local[t] \in Carried /\ local[t].question \in Questions /\ at[t] = "asking"
      /\ made \in Seq(MadeSnapshots) /\ version \in Nat
  BY <1>0 DEF CacheTypes, Carried
<1>3. Latest(local[t].question) \in Nat /\ Qualifies(Latest(local[t].question), local[t].question)
  BY <1>2, LatestQualifies
<1>4. /\ l \in Carried /\ l.question = local[t].question /\ l.asOf = version
      /\ Qualifies(l.value, l.question) /\ l.op = local[t].op
  BY <1>2, <1>3 DEF Carried
<1> HIDE DEF l
<1>5. /\ at'[t] = "listed" /\ local'[t] = l
      /\ \A u \in Tasks \ {t} : at'[u] = at[u] /\ local'[u] = local[u]
  BY <1>0, <1>1 DEF CacheTypes
<1>6. CacheTypes'
  BY <1>0, <1>1, <1>4 DEF CacheTypes
<1>7. Writers'
  BY <1>0, <1>5 DEF Writers
<1>8. NoneOlder'
  BY <1>0, <1>1, <1>4, <1>5 DEF NoneOlder, CacheTypes
<1>9. Pinned'
  <2>1. \A u \in Tasks : (Resolving(u)' <=> Resolving(u)) /\ local'[u].question = local[u].question
    BY <1>2, <1>4, <1>5 DEF Resolving
  <2>2. QED
    BY <1>0, <1>1, <2>1 DEF Pinned
<1>10. Qualified'
  BY <1>0, <1>1, <1>4, <1>5 DEF Qualified, Qualifies
<1>11. QED
  BY <1>6, <1>7, <1>8, <1>9, <1>10 DEF CacheInv

\* What arrives is remembered and answered: with "lifetime" nothing was held.
LEMMA ResolveKeeps ==
  ASSUME CacheInv, NEW t \in Tasks, Resolve(t)
  PROVE  CacheInv'
<1>0. CacheTypes /\ Writers /\ NoneOlder /\ Pinned /\ Qualified
  BY DEF CacheInv
<1> DEFINE l == local[t]
           k == l.question
           e == [age |-> 0, value |-> l.value, asOf |-> l.asOf, held |-> TRUE]
<1>1. /\ at[t] = "listed" /\ at' = [at EXCEPT ![t] = "idle"]
      /\ local' = [local EXCEPT ![t] = NoLocal]
      /\ resolved' = IF Caching THEN [resolved EXCEPT ![k] = e] ELSE resolved
      /\ answers' = [answers EXCEPT ![k] = IF lifetime THEN answers[k] \cup {l.value} ELSE {l.value}]
      /\ UNCHANGED <<lifetime, made, version, barrier, races>>
  BY DEF Resolve, Remember, Answer, Become, Goto
<1>2. /\ l \in Carried /\ k \in Questions /\ l.value \in Nat /\ l.asOf \in Nat
      /\ NoLocal \in Carried /\ NoLocal.op = "none"
  BY <1>0 DEF CacheTypes, Carried, NoLocal, NoSnapshot, Questions
<1>3. e \in [age : Nat, value : Nat, asOf : Nat, held : BOOLEAN]
  BY <1>2
<1> HIDE DEF l, k, e
<1>4. /\ at'[t] = "idle" /\ local'[t] = NoLocal
      /\ \A u \in Tasks \ {t} : at'[u] = at[u] /\ local'[u] = local[u]
  BY <1>0, <1>1 DEF CacheTypes
<1>5. e.held /\ e.value = l.value /\ e.asOf = l.asOf
  BY DEF e
<1>6. /\ \A q \in Questions : q # k => resolved'[q] = resolved[q] /\ answers'[q] = answers[q]
      /\ resolved'[k] = IF Caching THEN e ELSE resolved[k]
      /\ answers'[k] = IF lifetime THEN answers[k] \cup {l.value} ELSE {l.value}
  BY <1>0, <1>1, <1>2 DEF CacheTypes
<1>7. CacheTypes'
  <2>1. resolved' \in [Questions -> [age : Nat, value : Nat, asOf : Nat, held : BOOLEAN]]
    BY <1>0, <1>1, <1>3 DEF CacheTypes
  <2>2. answers' \in [Questions -> SUBSET Nat]
    BY <1>0, <1>1, <1>2 DEF CacheTypes
  <2>3. QED
    BY <1>0, <1>1, <1>2, <2>1, <2>2 DEF CacheTypes
<1>8. Writers'
  BY <1>0, <1>4 DEF Writers
<1>9. NoneOlder'
  <2>1. "write" \notin races => l.asOf >= barrier
    BY <1>0, <1>1 DEF NoneOlder, l
  <2>2. QED
    BY <1>0, <1>1, <1>2, <1>4, <1>5, <1>6, <2>1 DEF NoneOlder
<1>10. Pinned'
  <2> SUFFICES ASSUME lifetime, "twice" \notin races PROVE Pinned'
    BY <1>1 DEF Pinned
  <2>1. Resolving(t) /\ ~Resolving(t)' /\ Caching
    BY <1>1, <1>4 DEF Resolving, Caching
  <2>2. ~resolved[k].held /\ answers[k] = {}
    BY <1>0, <1>2, <2>1 DEF Pinned, k, l
  <2>3. \A u \in Tasks \ {t} : Resolving(u)' => Resolving(u) /\ local[u].question # k
    BY <1>0, <1>4, <2>1 DEF Pinned, Resolving, k, l
  <2>4. \A u \in Tasks \ {t} : local'[u] = local[u] /\ local[u].question \in Questions
    BY <1>0, <1>4 DEF CacheTypes, Carried
  <2>5. /\ answers'[k] = {l.value} /\ resolved'[k] = e
    BY <1>6, <2>1, <2>2
  <2>6. /\ \A q \in Questions : answers'[q] \subseteq {resolved'[q].value}
        /\ \A q \in Questions : ~resolved'[q].held => answers'[q] = {}
    BY <1>0, <1>5, <1>6, <2>5 DEF Pinned
  <2>7. \A u \in Tasks : Resolving(u)' => ~resolved'[local'[u].question].held
    BY <1>0, <1>6, <2>1, <2>3, <2>4 DEF Pinned
  <2>8. \A u, v \in Tasks :
          Resolving(u)' /\ Resolving(v)' /\ local'[u].question = local'[v].question => u = v
    BY <1>0, <2>1, <2>3, <2>4 DEF Pinned
  <2>9. QED
    BY <2>6, <2>7, <2>8 DEF Pinned
<1>11. Qualified'
  <2>1. Qualifies(l.value, k)
    BY <1>0, <1>1 DEF Qualified, l, k
  <2>2. QED
    BY <1>0, <1>1, <1>4, <1>5, <1>6, <2>1 DEF Qualified, Qualifies
<1>12. QED
  BY <1>7, <1>8, <1>9, <1>10, <1>11 DEF CacheInv

LEMMA AnswerKeeps ==
  ASSUME CacheInv, NEW t \in Tasks, NEW k \in Questions, AnswerFromCache(t, k)
  PROVE  CacheInv'
<1>0. CacheTypes /\ Writers /\ NoneOlder /\ Pinned /\ Qualified
  BY DEF CacheInv
<1> DEFINE v == resolved[k].value
<1>1. /\ resolved[k].held
      /\ answers' = [answers EXCEPT ![k] = IF lifetime THEN answers[k] \cup {v} ELSE {v}]
      /\ UNCHANGED <<lifetime, made, version, resolved, at, local, barrier, races>>
  BY DEF AnswerFromCache, Answer, Hit
<1>2. v \in Nat
  BY <1>0 DEF CacheTypes
<1> HIDE DEF v
<1>3. /\ \A q \in Questions : q # k => answers'[q] = answers[q]
      /\ answers'[k] = IF lifetime THEN answers[k] \cup {v} ELSE {v}
  BY <1>0, <1>1 DEF CacheTypes
<1>4. CacheTypes'
  BY <1>0, <1>1, <1>2 DEF CacheTypes
<1>5. Writers' /\ NoneOlder'
  BY <1>0, <1>1 DEF Writers, NoneOlder
<1>6. Pinned'
  BY <1>0, <1>1, <1>3 DEF Pinned, Resolving, v
<1>7. Qualified'
  BY <1>0, <1>1, <1>3 DEF Qualified, Qualifies, v
<1>8. QED
  BY <1>4, <1>5, <1>6, <1>7 DEF CacheInv

\* A step that leaves the cache alone and takes a task out of a resolution, or
\* never had it in one.
LEMMA IdleKeeps ==
  ASSUME CacheInv, NEW t \in Tasks, NEW place \in {"idle", "writing"}, NEW l \in Carried,
         place = "writing" => l.op # "none", Become(t, place, l),
         UNCHANGED <<lifetime, made, version, resolved, barrier, races, answers>>
  PROVE  CacheInv'
<1>0. CacheTypes /\ Writers /\ NoneOlder /\ Pinned /\ Qualified
  BY DEF CacheInv
<1>1. /\ at' = [at EXCEPT ![t] = place] /\ local' = [local EXCEPT ![t] = l]
      /\ at'[t] = place /\ local'[t] = l
      /\ \A u \in Tasks \ {t} : at'[u] = at[u] /\ local'[u] = local[u]
  BY <1>0 DEF Become, Goto, CacheTypes
<1>2. CacheTypes'
  BY <1>0, <1>1 DEF CacheTypes
<1>3. Writers'
  BY <1>0, <1>1 DEF Writers
<1>4. NoneOlder'
  BY <1>0, <1>1 DEF NoneOlder
<1>5. Pinned'
  <2>1. \A u \in Tasks : Resolving(u)' => Resolving(u) /\ local'[u] = local[u]
    BY <1>1 DEF Resolving
  <2>2. QED
    BY <1>0, <2>1 DEF Pinned
<1>6. Qualified'
  BY <1>0, <1>1 DEF Qualified, Qualifies
<1>7. QED
  BY <1>2, <1>3, <1>4, <1>5, <1>6 DEF CacheInv

LEMMA NoLocalIsCarried == NoLocal \in Carried
  BY DEF NoLocal, Carried, Questions, NoSnapshot

LEMMA WriteKeeps ==
  ASSUME CacheInv, NEW t \in Tasks, NEW op \in Writes, Write(t, op)
  PROVE  CacheInv'
<1>1. op \in {"upload", "invalidate", "delete"}
  BY CacheAssumption
<1>2. /\ [NoLocal EXCEPT !.op = op] \in Carried
      /\ [NoLocal EXCEPT !.op = op].op # "none"
  BY <1>1 DEF NoLocal, Carried, Questions, NoSnapshot
<1>3. QED
  BY <1>2, IdleKeeps DEF Write

LEMMA DoneKeeps ==
  ASSUME CacheInv, NEW t \in Tasks, ReturnDelete(t) \/ Abort(t)
  PROVE  CacheInv'
  BY IdleKeeps, NoLocalIsCarried DEF ReturnDelete, Abort

\* A write that was carried out is in no listing of before.
LEMMA ApplyKeeps ==
  ASSUME CacheInv, NEW t \in Tasks, Apply(t)
  PROVE  CacheInv'
<1>0. CacheTypes /\ Writers /\ NoneOlder /\ Pinned /\ Qualified
  BY DEF CacheInv
<1> DEFINE l == [local[t] EXCEPT !.asOf = version']
<1>1. /\ Grows /\ at' = [at EXCEPT ![t] = "written"] /\ local' = [local EXCEPT ![t] = l]
      /\ UNCHANGED <<lifetime, resolved, barrier, races, answers>>
  BY <1>0, ApplyGrows
<1>2. version' \in Nat /\ version' = version + 1 /\ made' \in Seq(MadeSnapshots)
  BY <1>0, <1>1 DEF CacheTypes, Grows
<1>3. l \in Carried /\ l.asOf = version' /\ l.op = local[t].op
  BY <1>0, <1>2 DEF CacheTypes, Carried
<1>4. at[t] = "writing" /\ l.op # "none"
  BY <1>0, <1>3 DEF Writers, Apply
<1> HIDE DEF l
<1>5. /\ at'[t] = "written" /\ local'[t] = l
      /\ \A u \in Tasks \ {t} : at'[u] = at[u] /\ local'[u] = local[u]
  BY <1>0, <1>1 DEF CacheTypes
<1>6. CacheTypes'
  BY <1>0, <1>1, <1>2, <1>3 DEF CacheTypes
<1>7. Writers'
  BY <1>0, <1>4, <1>5 DEF Writers
<1>8. NoneOlder'
  <2>1. \A u \in Tasks : local[u].asOf \in Nat
    BY <1>0 DEF CacheTypes, Carried
  <2>2. barrier' <= version'
    BY <1>0, <1>1, <1>2 DEF NoneOlder, CacheTypes
  <2>3. \A u \in Tasks : at'[u] = "written" => local'[u].asOf <= version'
    BY <1>0, <1>2, <1>3, <1>5, <2>1 DEF NoneOlder, CacheTypes
  <2>4. QED
    BY <1>0, <1>1, <1>5, <2>2, <2>3 DEF NoneOlder
<1>9. Pinned'
  <2>1. \A u \in Tasks : Resolving(u)' => Resolving(u) /\ local'[u] = local[u]
    BY <1>5 DEF Resolving
  <2>2. QED
    BY <1>0, <1>1, <2>1 DEF Pinned
<1>10. Qualified'
  BY <1>0, <1>1, <1>5 DEF Qualified, Qualifies, Grows
<1>11. QED
  BY <1>6, <1>7, <1>8, <1>9, <1>10 DEF CacheInv

LEMMA OthersKeep ==
  ASSUME CacheInv, FinishOne \/ MakeOne
  PROVE  CacheInv'
<1>0. CacheTypes /\ Writers /\ NoneOlder /\ Pinned /\ Qualified
  BY DEF CacheInv
<1>1. Grows /\ UNCHANGED <<lifetime, resolved, at, local, barrier, races, answers>>
  BY <1>0, OthersGrow
<1>2. CacheTypes' /\ Writers'
  BY <1>0, <1>1 DEF CacheTypes, Writers, Grows
<1>3. NoneOlder'
  <2>1. \A u \in Tasks : local[u].asOf \in Nat
    BY <1>0 DEF CacheTypes, Carried
  <2>2. QED
    BY <1>0, <1>1, <2>1 DEF NoneOlder, Grows, CacheTypes
<1>4. Pinned'
  BY <1>0, <1>1 DEF Pinned, Resolving
<1>5. Qualified'
  BY <1>0, <1>1 DEF Qualified, Qualifies, Grows
<1>6. QED
  BY <1>2, <1>3, <1>4, <1>5 DEF CacheInv

\* A cleared cache holds nothing, and what was answered before does not count.
LEMMA ClearedParts ==
  ASSUME CacheInv, ClearCache, UNCHANGED <<lifetime, made, version>>,
         \A u \in Tasks : Resolving(u)' => Resolving(u) /\ local'[u] = local[u],
         \A u \in Tasks : at'[u] = "listed" => at[u] = "listed" /\ local'[u] = local[u],
         races \subseteq races'
  PROVE  /\ resolved' \in [Questions -> [age : Nat, value : Nat, asOf : Nat, held : BOOLEAN]]
         /\ answers' \in [Questions -> SUBSET Nat]
         /\ Pinned' /\ Qualified'
<1>0. Pinned /\ Qualified
  BY DEF CacheInv
<1>1. \A k \in Questions : resolved'[k] = NoEntry /\ answers'[k] = {}
  BY DEF ClearCache
<1>2. /\ NoEntry \in [age : Nat, value : Nat, asOf : Nat, held : BOOLEAN]
      /\ ~NoEntry.held /\ NoEntry.value = NoSnapshot
  BY DEF NoEntry, NoSnapshot
<1>3. /\ resolved' \in [Questions -> [age : Nat, value : Nat, asOf : Nat, held : BOOLEAN]]
      /\ answers' \in [Questions -> SUBSET Nat]
  BY <1>2 DEF ClearCache
<1>4. \A u \in Tasks : Resolving(u)' => ~resolved'[local'[u].question].held
  <2>1. \A u \in Tasks : local[u].question \in Questions
    BY DEF CacheInv, CacheTypes, Carried
  <2>2. QED
    BY <1>1, <1>2, <2>1
<1>5. Pinned'
  BY <1>0, <1>1, <1>2, <1>4 DEF Pinned
<1>6. Qualified'
  BY <1>0, <1>1, <1>2 DEF Qualified, Qualifies
<1>7. QED
  BY <1>3, <1>5, <1>6

LEMMA ReturnKeeps ==
  ASSUME CacheInv, NEW t \in Tasks, ReturnClearing(t)
  PROVE  CacheInv'
<1>0. CacheTypes /\ Writers /\ NoneOlder /\ Pinned /\ Qualified
  BY DEF CacheInv
<1>1. /\ at[t] = "written" /\ at' = [at EXCEPT ![t] = "idle"]
      /\ local' = [local EXCEPT ![t] = NoLocal] /\ ClearCache
      /\ barrier' = Max({barrier, local[t].asOf})
      /\ races' = IF \E u \in Tasks : at[u] = "listed" THEN races \cup {"write"} ELSE races
      /\ UNCHANGED <<lifetime, made, version>>
  BY DEF ReturnClearing, Acknowledge, Become, Goto
<1>2. /\ at'[t] = "idle" /\ local'[t] = NoLocal
      /\ \A u \in Tasks \ {t} : at'[u] = at[u] /\ local'[u] = local[u]
  BY <1>0, <1>1 DEF CacheTypes
<1>3. /\ barrier' \in Nat /\ barrier' <= version
  <2>1. local[t].asOf \in Nat /\ local[t].asOf <= version /\ barrier <= version
        /\ version \in Nat /\ barrier \in Nat
    BY <1>0, <1>1 DEF NoneOlder, CacheTypes, Carried
  <2>2. QED
    BY <1>1, <2>1, MaxOfTwo
<1>4. /\ \A u \in Tasks : Resolving(u)' => Resolving(u) /\ local'[u] = local[u]
      /\ \A u \in Tasks : at'[u] = "listed" => at[u] = "listed" /\ local'[u] = local[u]
  BY <1>2 DEF Resolving
<1>5. /\ resolved' \in [Questions -> [age : Nat, value : Nat, asOf : Nat, held : BOOLEAN]]
      /\ answers' \in [Questions -> SUBSET Nat]
      /\ Pinned' /\ Qualified'
  BY <1>1, <1>4, ClearedParts
<1>6. CacheTypes'
  BY <1>0, <1>1, <1>3, <1>5, NoLocalIsCarried DEF CacheTypes
<1>7. Writers'
  BY <1>0, <1>2 DEF Writers
<1>8. NoneOlder'
  <2>1. \A k \in Questions : ~resolved'[k].held
    BY <1>1 DEF ClearCache, NoEntry
  <2>2. "write" \notin races' => \A u \in Tasks : at'[u] # "listed"
    BY <1>1, <1>4
  <2>3. \A u \in Tasks : at'[u] = "written" => local'[u].asOf <= version'
    BY <1>0, <1>1, <1>2 DEF NoneOlder
  <2>4. QED
    BY <1>1, <1>3, <2>1, <2>2, <2>3 DEF NoneOlder
<1>9. QED
  BY <1>5, <1>6, <1>7, <1>8 DEF CacheInv

LEMMA ClearKeeps ==
  ASSUME CacheInv, Clear
  PROVE  CacheInv'
<1>0. CacheTypes /\ Writers /\ NoneOlder /\ Pinned /\ Qualified
  BY DEF CacheInv
<1>1. ClearCache /\ UNCHANGED <<lifetime, made, version, at, local, barrier, races>>
  BY DEF Clear
<1>2. /\ resolved' \in [Questions -> [age : Nat, value : Nat, asOf : Nat, held : BOOLEAN]]
      /\ answers' \in [Questions -> SUBSET Nat]
      /\ Pinned' /\ Qualified'
  <2>1. \A u \in Tasks : Resolving(u)' <=> Resolving(u)
    BY <1>1 DEF Resolving
  <2>2. QED
    BY <1>1, <2>1, ClearedParts
<1>3. CacheTypes' /\ Writers'
  BY <1>0, <1>1, <1>2 DEF CacheTypes, Writers
<1>4. NoneOlder'
  <2>1. \A k \in Questions : ~resolved'[k].held
    BY <1>1 DEF ClearCache, NoEntry
  <2>2. QED
    BY <1>0, <1>1, <2>1 DEF NoneOlder
<1>5. QED
  BY <1>2, <1>3, <1>4 DEF CacheInv

\* Age is not part of the argument.
LEMMA TickKeeps ==
  ASSUME CacheInv, Tick
  PROVE  CacheInv'
<1>0. CacheTypes /\ Writers /\ NoneOlder /\ Pinned /\ Qualified
  BY DEF CacheInv
<1>1. /\ ~lifetime
      /\ UNCHANGED <<lifetime, made, version, at, local, barrier, races, answers>>
  BY DEF Tick
<1>2. resolved' = [k \in Questions |->
                     IF resolved[k].held /\ resolved[k].age < TTL
                     THEN [resolved[k] EXCEPT !.age = @ + 1] ELSE resolved[k]]
  BY DEF Tick
<1>3. \A k \in Questions :
        /\ resolved'[k] \in [age : Nat, value : Nat, asOf : Nat, held : BOOLEAN]
        /\ resolved'[k].value = resolved[k].value /\ resolved'[k].asOf = resolved[k].asOf
        /\ resolved'[k].held = resolved[k].held
  <2> SUFFICES ASSUME NEW k \in Questions
               PROVE  /\ resolved'[k] \in [age : Nat, value : Nat, asOf : Nat, held : BOOLEAN]
                      /\ resolved'[k].value = resolved[k].value
                      /\ resolved'[k].asOf = resolved[k].asOf
                      /\ resolved'[k].held = resolved[k].held
    OBVIOUS
  <2>1. resolved[k] \in [age : Nat, value : Nat, asOf : Nat, held : BOOLEAN]
    BY <1>0 DEF CacheTypes
  <2>2. resolved[k].age + 1 \in Nat
    BY <2>1
  <2>3. resolved'[k] = IF resolved[k].held /\ resolved[k].age < TTL
                       THEN [resolved[k] EXCEPT !.age = resolved[k].age + 1]
                       ELSE resolved[k]
    BY <1>2
  <2>4. CASE resolved'[k] = resolved[k]
    BY <2>1, <2>4
  <2>5. CASE resolved'[k] = [resolved[k] EXCEPT !.age = resolved[k].age + 1]
    BY <2>1, <2>2, <2>5
  <2>6. QED
    BY <2>3, <2>4, <2>5
<1>4. CacheTypes' /\ Writers'
  <2>1. resolved' \in [Questions -> [age : Nat, value : Nat, asOf : Nat, held : BOOLEAN]]
    BY <1>2, <1>3
  <2>2. QED
    BY <1>0, <1>1, <2>1 DEF CacheTypes, Writers
<1>5. NoneOlder' /\ Pinned' /\ Qualified'
  BY <1>0, <1>1, <1>3 DEF NoneOlder, Pinned, Qualified, Qualifies
<1>6. QED
  BY <1>4, <1>5 DEF CacheInv

LEMMA InitCacheInv == CacheInit => CacheInv
<1> SUFFICES ASSUME CacheInit PROVE CacheInv
  OBVIOUS
<1> USE DEF CacheInit, NoEntry, NoSnapshot
<1>1. CacheTypes
  BY NoLocalIsCarried DEF CacheTypes
<1>2. Writers /\ NoneOlder
  BY DEF Writers, NoneOlder
<1>3. Pinned
  BY DEF Pinned, Resolving
<1>4. Qualified
  BY DEF Qualified, Qualifies
<1>5. QED
  BY <1>1, <1>2, <1>3, <1>4 DEF CacheInv

LEMMA NextCacheInv == CacheInv /\ [CacheNext]_cacheVars => CacheInv'
<1> SUFFICES ASSUME CacheInv, [CacheNext]_cacheVars PROVE CacheInv'
  OBVIOUS
<1>1. CASE UNCHANGED cacheVars
  BY <1>1 DEF cacheVars, CacheInv, CacheTypes, Writers, NoneOlder, Pinned, Resolving, Qualified,
              Qualifies
<1>2. QED
  BY <1>1, AskKeeps, ServeKeeps, ResolveKeeps, AnswerKeeps, WriteKeeps, DoneKeeps, ApplyKeeps,
     OthersKeep, ReturnKeeps, ClearKeeps, TickKeeps DEF CacheNext

LEMMA CacheInductive == CacheSpec => []CacheInv
  BY InitCacheInv, NextCacheInv, PTL DEF CacheSpec

\* The cache holds nothing from before a write of this client that cleared it,
\* without a listing on its way at that moment.
THEOREM CacheSeesWrites == CacheSpec => []WritesAreSeen
<1>1. CacheInv => WritesAreSeen
  BY DEF CacheInv, NoneOlder, WritesAreSeen
<1>2. QED
  BY <1>1, CacheInductive, PTL

\* A cache kept for the lifetime gives one answer to a question until it is
\* cleared, as long as no two tasks resolve the question at once.
THEOREM CachePinsAnswers == CacheSpec => []PinnedAnswer
<1>1. CacheInv => PinnedAnswer
  <2> SUFFICES ASSUME CacheInv, lifetime, "twice" \notin races, NEW k \in Questions
               PROVE  Cardinality(answers[k]) <= 1
    BY DEF PinnedAnswer
  <2>1. answers[k] \in SUBSET {resolved[k].value}
    BY DEF CacheInv, Pinned
  <2>2. IsFiniteSet({resolved[k].value}) /\ Cardinality({resolved[k].value}) = 1
    BY FS_Singleton
  <2>3. QED
    BY <2>1, <2>2, FS_Subset
<1>2. QED
  BY <1>1, CacheInductive, PTL

\* The two questions never share an answer.
THEOREM CacheAnswersTheQuestion == CacheSpec => []OnlyWhatWasAsked
<1>1. CacheInv => OnlyWhatWasAsked
  BY DEF CacheInv, Qualified, Qualifies, OnlyWhatWasAsked
<1>2. QED
  BY <1>1, CacheInductive, PTL
=============================================================================
