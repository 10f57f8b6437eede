----------------------------- MODULE CollectRun -----------------------------
(***************************************************************************)
(* Collecting a network and waiting for its snapshot: collect() followed by *)
(* wait_until_processed() (_async/services/snapshots.py).                   *)
(*                                                                         *)
(* A collector task carries no snapshot id, so collect() compares listings: *)
(* the snapshot it returns is the newest that was not listed before it      *)
(* began.  Meanwhile other users collect, upload, predict, archive and      *)
(* delete.  That collect() clears the cache belongs to SnapshotCache, where *)
(* "upload" stands for it.                                                  *)
(*                                                                         *)
(* Data abstracted: a task and a snapshot are their places in the order of  *)
(* creation; RUNNING stands for QUEUED, CANCELED for TIMED_OUT, FAILED of a *)
(* snapshot for every state in FAILED_STATES; time is the passing of a      *)
(* deadline.  A poll is judged as it is served.                             *)
(***************************************************************************)
EXTENDS Naturals, Sequences, FiniteSets

CONSTANTS
  Recent,       \* _RECENT: how many of the newest snapshots are compared
  MaxTasks,     \* bound: others start a task while there are fewer
  MaxNew,       \* bound: snapshots made since
  MaxLeft       \* bound: snapshots archived or deleted

ASSUME CollectAssumption ==
  /\ Recent \in Nat \ {0}
  /\ {MaxTasks, MaxNew, MaxLeft} \subseteq Nat

VARIABLES
  options,    \* the arguments: "start", "wait", and "timeout" unless it is None
  tasks,      \* Forward's collector tasks in order of creation: their status
  snapshots,  \* Forward's snapshots in order of creation, [trigger, task, state]
  pc,         \* where the caller is
  before,     \* before: the snapshots listed when collect() began
  task,       \* task_id, or 0
  listing,    \* what the last look for new snapshots listed
  late,       \* the deadline of this wait has passed
  result,     \* the snapshot id returned, or 0
  outcome,    \* how the call in progress, or the last one, ended
  meddled     \* history: since collect() began, others made a snapshot, or one left

vars == <<options, tasks, snapshots, pc, before, task, listing, late,
          result, outcome, meddled>>

forward == <<tasks, snapshots, meddled>>
call == <<options, pc, before, task, listing, late, result, outcome>>

-----------------------------------------------------------------------------
(* Forward's answers. *)

\* Mutant of TaskFailed: CANCELED forgotten.
TaskFailedOnly == {"FAILED"}

\* A task that ended without a snapshot to wait for.
TaskFailed == {"FAILED", "CANCELED"}

\* How a task may end otherwise (external).
Ends == {"FAILED", "CANCELED"}

\* The snapshots a listing without the archived ones shows.
Left == {n \in DOMAIN snapshots : snapshots[n].state \in {"ARCHIVED", "GONE"}}
Visible == DOMAIN snapshots \ Left

\* list(limit=_RECENT): the newest of them.
Newer(n) == {m \in Visible : m > n}
Newest == {n \in Visible : Cardinality(Newer(n)) < Recent}

\* The collection waited for made snapshot n.
Mine(n) == snapshots[n].task = task

\* _find lists archived snapshots too.
StateOf(n) == IF snapshots[n].state = "GONE" THEN "NOT_FOUND" ELSE snapshots[n].state

\* What ends the wait for it.
Final == {"PROCESSED", "FAILED", "NOT_FOUND"}

\* Mutant of Joinable: the listing is not restricted to what is under way.
JoinableAnyway == DOMAIN tasks

\* _active_collection_task
Joinable == {t \in DOMAIN tasks : tasks[t] = "RUNNING"}

\* Mutant of Fresh: predictions are not ignored.
FreshOfAnyTrigger == listing \ before

\* fresh
Fresh == {n \in listing \ before : snapshots[n].trigger # "PREDICT"}

-----------------------------------------------------------------------------
Old == [trigger |-> "OLD", task |-> 0, state |-> "PROCESSED"]

Init ==
  /\ options \in SUBSET {"start", "wait", "timeout"}
  /\ tasks = <<>>
  /\ snapshots \in {[n \in 1 .. k |-> Old] : k \in {0, Recent + 1}}
  /\ pc = "idle"
  /\ before = {}
  /\ task = 0
  /\ listing = {}
  /\ late = FALSE
  /\ result = 0
  /\ outcome = "none"
  /\ meddled = FALSE

End(verdict) ==
  /\ outcome' = verdict
  /\ before' = {}
  /\ pc' = "ended"
  /\ late' = FALSE

\* collect() is called and lists the recent snapshots.
Begin ==
  /\ pc = "idle"
  /\ before' = Newest
  /\ pc' = "starting"
  /\ UNCHANGED <<options, task, listing, late, result, outcome, forward>>

\* The task is there; without "wait" that is all.
Started ==
  /\ IF "wait" \in options
     THEN pc' = "polling" /\ UNCHANGED <<before, late, outcome>>
     ELSE End("QUEUED")
  /\ UNCHANGED <<options, listing, result, snapshots, meddled>>

\* It starts a collection of its own,
Start ==
  /\ pc = "starting"
  /\ "start" \in options
  /\ tasks' = Append(tasks, "RUNNING")
  /\ task' = Len(tasks')
  /\ Started

\* or joins the newest under way,
Join ==
  /\ pc = "starting"
  /\ "start" \notin options
  /\ \E t \in Joinable : (\A u \in Joinable : u <= t) /\ task' = t
  /\ UNCHANGED tasks
  /\ Started

\* which there may not be.
NothingToJoin ==
  /\ pc = "starting"
  /\ "start" \notin options
  /\ Joinable = {}
  /\ End("NO_COLLECTION")
  /\ UNCHANGED <<options, task, listing, result, forward>>

\* A poll of the task: go on to the snapshot, raise, or sleep and look again.
Poll ==
  LET status == tasks[task]
  IN /\ pc = "polling"
     /\ \/ status = "SUCCEEDED" /\ pc' = "looking" /\ late' = FALSE /\ UNCHANGED <<before, outcome>>
        \/ status \in TaskFailed /\ End(status)
        \/ status \notin TaskFailed \cup {"SUCCEEDED"} /\ late /\ End("TIMEOUT")
     /\ UNCHANGED <<options, task, listing, result, forward>>

\* Forward (external) lists the recent snapshots.
List ==
  /\ pc = "looking"
  /\ listing' = Newest
  /\ pc' = "looked"
  /\ UNCHANGED <<options, before, task, late, result, outcome, forward>>

\* The newest of the new snapshots is returned,
Found ==
  /\ pc = "looked"
  /\ \E n \in Fresh : (\A m \in Fresh : m <= n) /\ result' = n
  /\ End("SUCCEEDED")
  /\ UNCHANGED <<options, task, listing, forward>>

\* or there is none yet.
NotFound ==
  /\ pc = "looked"
  /\ Fresh = {}
  /\ IF late THEN End("NO_SNAPSHOT") ELSE pc' = "looking" /\ UNCHANGED <<before, late, outcome>>
  /\ UNCHANGED <<options, task, listing, result, forward>>

\* The caller waits until the snapshot it was given is processed.
Follow ==
  /\ pc = "ended"
  /\ outcome = "SUCCEEDED"
  /\ outcome' = "none"
  /\ pc' = "waiting"
  /\ UNCHANGED <<options, before, task, listing, late, result, forward>>

\* A look at it in the listing: return it, raise, or sleep and look again.
Look ==
  LET state == StateOf(result)
  IN /\ pc = "waiting"
     /\ \/ state \in Final /\ End(state)
        \/ state \notin Final /\ late /\ End("TIMEOUT")
     /\ UNCHANGED <<options, task, listing, result, forward>>

\* A request fails: the call raises.
Raise ==
  /\ pc \in {"starting", "polling", "looking", "waiting"}
  /\ End("ERROR")
  /\ UNCHANGED <<options, task, listing, result, forward>>

\* The deadline of the wait passes.  snapshot_timeout cannot be None.
Expire ==
  /\ pc \in {"polling", "waiting"} => "timeout" \in options
  /\ pc \in {"polling", "looking", "looked", "waiting"}
  /\ ~late
  /\ late' = TRUE
  /\ UNCHANGED <<options, pc, before, task, listing, result, outcome, forward>>

-----------------------------------------------------------------------------
(* Forward and its other users (external), followed as far as the caller     *)
(* looks: the tasks and the recent snapshots while it collects, the snapshot *)
(* it was given while it waits.                                              *)

Collecting == pc \in {"starting", "polling", "looking", "looked"}

Starting == pc \in {"idle", "starting"}

\* Another user starts a collection.  (Once the caller has its task, what the
\* others' tasks make is a snapshot that appears.)
StartAnother ==
  /\ Starting
  /\ Len(tasks) < MaxTasks
  /\ tasks' = Append(tasks, "RUNNING")
  /\ UNCHANGED <<snapshots, meddled, call>>

EndTask ==
  /\ \E t \in DOMAIN tasks, s \in {"SUCCEEDED"} \cup Ends :
       /\ Starting \/ (Collecting /\ t = task)
       /\ tasks[t] = "RUNNING"
       /\ tasks' = [tasks EXCEPT ![t] = s]
  /\ UNCHANGED <<snapshots, meddled, call>>

NewSnapshot(trigger, t) ==
  /\ Cardinality({n \in DOMAIN snapshots : snapshots[n].trigger # "OLD"}) < MaxNew
  /\ snapshots' = Append(snapshots, [trigger |-> trigger, task |-> t, state |-> "PROCESSING"])

\* A collection that succeeded makes its snapshot; so may one that failed.
Collected ==
  /\ \E t \in DOMAIN tasks :
       /\ Starting \/ (Collecting /\ t = task)
       /\ tasks[t] \in {"SUCCEEDED", "FAILED"}
       /\ \A n \in DOMAIN snapshots : snapshots[n].task # t
       /\ NewSnapshot("COLLECTION", t)
       /\ meddled' = (meddled \/ (pc # "idle" /\ t # task))
  /\ UNCHANGED <<tasks, call>>

\* Others predict, upload, fork or collect.
Appear ==
  /\ Collecting
  /\ \E trigger \in {"PREDICT", "OTHER"} :
       /\ NewSnapshot(trigger, 0)
       /\ meddled' = (meddled \/ trigger = "OTHER")
  /\ UNCHANGED <<tasks, call>>

\* A snapshot is archived or deleted.
Leave ==
  /\ Cardinality(Left) < MaxLeft
  /\ \E n \in DOMAIN snapshots \ Left, s \in {"ARCHIVED", "GONE"} :
       /\ Collecting \/ (pc = "waiting" /\ n = result)
       /\ snapshots' = [snapshots EXCEPT ![n].state = s]
  /\ meddled' = TRUE
  /\ UNCHANGED <<tasks, call>>

\* The snapshot waited for is processed.
Process ==
  /\ pc = "waiting"
  /\ snapshots[result].state = "PROCESSING"
  /\ \E s \in {"PROCESSED", "FAILED"} : snapshots' = [snapshots EXCEPT ![result].state = s]
  /\ UNCHANGED <<tasks, meddled, call>>

\* Nothing is left to do.
Finished ==
  /\ pc = "ended"
  /\ outcome # "SUCCEEDED"
  /\ UNCHANGED vars

Client ==
  \/ Begin \/ Start \/ Join \/ NothingToJoin \/ Poll
  \/ List \/ Found \/ NotFound \/ Follow \/ Look

Next ==
  \/ Client \/ Raise \/ Expire
  \/ Finished \/ StartAnother \/ EndTask \/ Collected \/ Appear \/ Process \/ Leave

Spec == Init /\ [][Next]_vars

\* The caller goes on, deadlines pass, and Forward ends the tasks it has begun
\* and the processing of the snapshots it has made.
FairSpec == Spec /\ WF_vars(Client) /\ WF_vars(Expire) /\ WF_vars(EndTask) /\ WF_vars(Process)

-----------------------------------------------------------------------------
(* Properties. *)

\* The snapshots there can be when there have been n tasks.
Snapshots(n) ==
  [trigger : {"OLD", "COLLECTION", "PREDICT", "OTHER"}, task : 0 .. n,
   state : {"PROCESSING", "PROCESSED", "FAILED", "ARCHIVED", "GONE"}]

\* Every variable holds a value of its type.
TypeOK ==
  /\ options \subseteq {"start", "wait", "timeout"}
  /\ tasks \in Seq({"RUNNING", "SUCCEEDED"} \cup Ends)
  /\ snapshots \in Seq(Snapshots(Len(tasks)))
  /\ pc \in {"idle", "starting", "polling", "looking", "looked", "ended", "waiting"}
  /\ before \subseteq DOMAIN snapshots
  /\ task \in 0 .. Len(tasks)
  /\ listing \subseteq DOMAIN snapshots
  /\ late \in BOOLEAN
  /\ result \in 0 .. Len(snapshots)
  /\ outcome \in {"none", "QUEUED", "SUCCEEDED", "NO_COLLECTION", "NO_SNAPSHOT", "TIMEOUT",
                  "ERROR", "PROCESSED", "NOT_FOUND"} \cup Ends
  /\ meddled \in BOOLEAN

\* The snapshot returned is the one this collection made, also when it joined a
\* collection of someone else, and though predictions appear meanwhile.  Only
\* another collection, upload or fork, or a snapshot leaving the recent ones,
\* can put another in its place.
OwnSnapshot ==
  result # 0 /\ ~meddled => Mine(result)

\* "Succeeded but no new snapshot appeared" is said only if the collection's
\* snapshot was not among those last listed: the listing of before, taken
\* before the task was started or found under way, never holds it.
NotOverlooked ==
  outcome = "NO_SNAPSHOT" => \A n \in listing : ~Mine(n)

\* Both waits end, without a timeout too as long as Forward ends what it does,
\* unless the snapshot is archived under a wait that has no timeout.
WaitsEnd ==
  pc \in {"starting", "waiting"} ~>
    \/ pc = "ended"
    \/ "timeout" \notin options /\ result # 0 /\ snapshots[result].state = "ARCHIVED"
=============================================================================
