---------------------------- MODULE NqeExecution ----------------------------
(***************************************************************************)
(* Waiting for a query that runs on Forward: AsyncNqeExecution.status(),    *)
(* wait(), _check_deadlines() and _record() (_async/services/nqe.py), used  *)
(* by several coroutines that hold the same handle, or by one inside        *)
(* execute_and_wait(), which submits a query again that ended badly.        *)
(*                                                                         *)
(* A wait polls, looks at what it was told, and sleeps; the server answers  *)
(* a poll with what is true when it serves it, and the answer may take up   *)
(* to Latency ticks, the transport's own retries included.                  *)
(*                                                                         *)
(* Data abstracted: time is ticks; the reported progress of a query and the *)
(* poll statistics of its report are left out.                              *)
(***************************************************************************)
EXTENDS Integers, Sequences

CONSTANTS
  Waiters,       \* coroutines that hold the handle
  Timeouts,      \* the timeouts wait() is given
  Untimed,       \* whether it is also given None
  Budget,        \* timeoutMinutes: how long Forward lets the query run
  TellsBudget,   \* whether a status carries timeoutMinutes
  Untold,        \* the outcomes that a final status may leave out
  Grace,         \* SERVER_DEADLINE_GRACE
  Latency,       \* bound: how long after serving a poll its answer arrives
  FirstInterval, \* the first delay, INITIAL_POLL_INTERVAL
  PollInterval,  \* poll_interval
  RetryAfters,   \* the Retry-After values of answers; 0 stands for none
  OutcomeRetries,\* outcome_retries
  RetryOutcomes, \* retry_outcomes
  LastCall,      \* bound: no call begins after it
  EndOfTime      \* bound: no time passes after it

Never == -1
Nobody == "nobody"

\* CANCELED is treated as SYSTEM_ERROR is.
Outcomes == {"OK", "USER_ERROR", "SYSTEM_ERROR", "TIMED_OUT"}

ASSUME ExecutionAssumption ==
  /\ Nobody \notin Waiters
  /\ Timeouts \subseteq Nat
  /\ Untimed \in BOOLEAN
  /\ Budget \in Nat
  /\ TellsBudget \in BOOLEAN
  /\ Untold \subseteq Outcomes
  /\ Grace \in Nat
  /\ Latency \in Nat
  /\ FirstInterval \in Nat \ {0}
  /\ PollInterval \in Nat \ {0}
  /\ RetryAfters \subseteq Nat
  /\ OutcomeRetries \in Nat
  /\ RetryOutcomes \subseteq Outcomes \ {"OK"}
  /\ LastCall \in Nat
  /\ EndOfTime \in Nat

VARIABLES
  now,        \* time.monotonic(), on one scale with Forward's clock
  job,        \* the query on Forward that the handle is for, begun at time 0
  started,    \* _started: when the handle was made
  status,     \* _status: the last status seen
  reason,     \* _terminal_reason
  records,    \* the reasons recorded in ExecutionReports, oldest first
  pc,         \* pc[w]: where w is in wait() or status()
  mode,       \* mode[w]: which of the two
  local,      \* local[w]: the variables of the call w is in
  result,     \* result[w]: how the last wait() of w ended
  call        \* execute_and_wait(): by whom, with what timeout, which attempt

vars == <<now, job, started, status, reason, records, pc, mode, local, result, call>>
waits == <<pc, mode, local, result>>
handle == <<started, status, reason, records>>

-----------------------------------------------------------------------------
Running == [finished |-> FALSE, outcome |-> "none"]

Ended(o) == [finished |-> TRUE, outcome |-> o]

\* A final status without an outcome.
NoOutcome == Ended("none")

Jobs == {Running} \cup {Ended(o) : o \in Outcomes}
Statuses == Jobs \cup {NoOutcome}

\* What a status (external) may say of a query.
Says(j) == {j} \cup (IF j.finished /\ j.outcome \in Untold THEN {NoOutcome} ELSE {})

Least(a, b) == IF a < b THEN a ELSE b

\* deadline is local_deadline, interval the delay of the local schedule, until
\* when the sleep ends; told is the answer on its way, as of the time served.
NoLocal == [deadline |-> Never, interval |-> FirstInterval, until |-> 0,
            told |-> Running, served |-> 0]

NoCall == [by |-> Nobody, timeout |-> Never, attempt |-> 0]

Init ==
  /\ now = 0
  /\ job = Running
  /\ started = Never
  /\ status = Running
  /\ reason = "none"
  /\ records = <<>>
  /\ pc = [w \in Waiters |-> "idle"]
  /\ mode = [w \in Waiters |-> "none"]
  /\ local = [w \in Waiters |-> NoLocal]
  /\ result = [w \in Waiters |-> "none"]
  /\ call = NoCall

\* execute() or execution() returns the handle, with the status the query had
\* when the request was served.
Obtain ==
  /\ started = Never
  /\ now <= LastCall
  /\ started' = now
  /\ status' \in {Running} \cup Says(job)
  /\ UNCHANGED <<now, job, reason, records, waits, call>>

-----------------------------------------------------------------------------
(* What wait() does with a status: its loop body up to the next await. *)

Passed(limit) == limit # Never /\ now >= limit

\* Mutants of ServerDeadline: without the grace, and without a deadline.
ServerDeadlineNoGrace == IF TellsBudget THEN started + Budget ELSE Never
ServerDeadlineNever == Never

\* server_deadline
ServerDeadline == IF TellsBudget THEN started + Budget + Grace ELSE Never

\* Mutant of Judgement: every query that ended ended well.
JudgementTrusting(st, dl) ==
  IF st.finished THEN "returned"
  ELSE IF Passed(dl) THEN "timed out"
  ELSE IF Passed(ServerDeadline) THEN "out of budget"
  ELSE "wait"

\* A query that ended without an outcome is taken to have ended well.
EndedWell(st) == st.outcome \in {"OK", "none"}

Judgement(st, dl) ==
  IF st.finished THEN IF EndedWell(st) THEN "returned" ELSE "failed"
  ELSE IF Passed(dl) THEN "timed out"
  ELSE IF Passed(ServerDeadline) THEN "out of budget"
  ELSE "wait"

ReasonFor(st, judgement) ==
  CASE judgement = "timed out" -> "CLIENT_TIMEOUT"
    [] judgement = "out of budget" -> "SERVER_BUDGET_EXPIRED"
    [] judgement = "returned" -> "OK"
    [] OTHER -> st.outcome

\* Mutant of Record: every wait records its own reason.
RecordAgain(why) == reason' = why /\ records' = Append(records, why)

\* _record: the first reason is kept and reported, later ones are dropped.
Record(why) ==
  IF reason = "none"
  THEN reason' = why /\ records' = Append(records, why)
  ELSE UNCHANGED <<reason, records>>

Become(w, place, carried) ==
  /\ pc' = [pc EXCEPT ![w] = place]
  /\ local' = [local EXCEPT ![w] = carried]

Delay(asked, w) == IF asked > 0 THEN asked ELSE local[w].interval

\* Mutant of Again: whatever the failure, as long as attempts are left.
AgainWhatever(w, st, j) ==
  call.by = w /\ j # "returned" /\ call.attempt <= OutcomeRetries

\* execute_and_wait: the failures it submits the query again after.
Again(w, st, j) ==
  /\ call.by = w
  /\ j = "failed"
  /\ st.outcome \in RetryOutcomes
  /\ call.attempt <= OutcomeRetries

\* The rest of the turn once the status is in hand: end, or sleep.
Turn(w, st, asked) ==
  LET j == Judgement(st, local[w].deadline)
  IN IF j = "wait"
     THEN /\ Become(w, "sleeping", [NoLocal EXCEPT !.deadline = local[w].deadline,
                                                       !.interval = local[w].interval,
                                                       !.until = now + Delay(asked, w)])
          /\ UNCHANGED <<reason, records, result>>
     ELSE /\ Record(ReasonFor(st, j))
          /\ result' = [result EXCEPT ![w] = j]
          /\ IF Again(w, st, j)
             THEN Become(w, "retrying", NoLocal)
             ELSE Become(w, "idle", NoLocal)

-----------------------------------------------------------------------------
Callable(w) == started # Never /\ call.by = Nobody /\ pc[w] = "idle" /\ now <= LastCall

TimeoutArgs == Timeouts \cup (IF Untimed THEN {Never} ELSE {})

\* execute_and_wait() submits the query, the first time or once more: another
\* query runs, another handle is made, with a status that may be final already.
\* Nothing looks at an earlier time again, so time is counted from here anew;
\* how long it slept before (retry_delay, doubling) makes no difference.
Submit(w) ==
  /\ \/ /\ started = Never
        /\ now <= LastCall
        /\ \E t \in TimeoutArgs : call' = [by |-> w, timeout |-> t, attempt |-> 1]
     \/ /\ pc[w] = "retrying"
        /\ call' = [call EXCEPT !.attempt = @ + 1]
  /\ job' \in Jobs \ {Ended("TIMED_OUT")}
  /\ status' \in {Running} \cup Says(job')
  /\ now' = 0
  /\ started' = 0
  /\ reason' = "none"
  /\ records' = <<>>
  /\ Become(w, "started", NoLocal)
  /\ result' = [result EXCEPT ![w] = "none"]
  /\ UNCHANGED mode

\* The submission of another attempt fails: the exception passes through.
SubmitFails(w) ==
  /\ pc[w] = "retrying"
  /\ result' = [result EXCEPT ![w] = "raised"]
  /\ Become(w, "idle", NoLocal)
  /\ UNCHANGED <<now, job, handle, mode, call>>

\* wait() is entered with a status that is known to be final.
WaitAtOnce(w) ==
  /\ Callable(w) \/ pc[w] = "started"
  /\ status.finished
  /\ Turn(w, status, 0)
  /\ UNCHANGED <<now, job, started, status, mode, call>>

\* wait() is entered otherwise, and polls.
Wait(w) ==
  /\ \/ Callable(w)
     \/ pc[w] = "started"
  /\ ~status.finished
  /\ \E t \in IF pc[w] = "started" THEN {call.timeout} ELSE TimeoutArgs :
       Become(w, "polling", [NoLocal EXCEPT !.deadline = IF t = Never THEN Never ELSE now + t,
                                            !.interval = Least(@, PollInterval)])
  /\ mode' = [mode EXCEPT ![w] = "wait"]
  /\ result' = [result EXCEPT ![w] = "none"]
  /\ UNCHANGED <<now, job, handle, call>>

\* status() is called on its own.
Look(w) ==
  /\ Callable(w)
  /\ Become(w, "polling", NoLocal)
  /\ mode' = [mode EXCEPT ![w] = "status"]
  /\ result' = [result EXCEPT ![w] = "none"]
  /\ UNCHANGED <<now, job, call, handle>>

\* Forward (external) serves the poll.
Serve(w) ==
  /\ pc[w] = "polling"
  /\ \E said \in Says(job) :
       Become(w, "answered", [local[w] EXCEPT !.told = said, !.served = now])
  /\ UNCHANGED <<now, job, call, handle, mode, result>>

\* The answer to a status() arrives and is kept in the handle.
Seen(w) ==
  /\ pc[w] = "answered" /\ mode[w] = "status"
  /\ status' = local[w].told
  /\ Become(w, "idle", NoLocal)
  /\ UNCHANGED <<now, job, call, started, reason, records, mode, result>>

\* The answer to a poll of wait() arrives.
Told(w) ==
  /\ pc[w] = "answered" /\ mode[w] = "wait"
  /\ status' = local[w].told
  /\ \E asked \in RetryAfters : Turn(w, status', asked)
  /\ UNCHANGED <<now, job, call, started, mode>>

\* The transport gives the poll up: the exception passes through.
PollFails(w) ==
  /\ pc[w] \in {"polling", "answered"}
  /\ result' = [result EXCEPT ![w] = "raised"]
  /\ Become(w, "idle", NoLocal)
  /\ UNCHANGED <<now, job, call, handle, mode>>

\* The sleep ends; the delay doubles up to poll_interval.
Wake(w) ==
  /\ pc[w] = "sleeping"
  /\ now >= local[w].until
  /\ Become(w, "polling", [local[w] EXCEPT !.interval = Least(PollInterval, 2 * @),
                                           !.until = 0])
  /\ UNCHANGED <<now, job, call, handle, mode, result>>

\* Forward (external) ends the query: on its merits within the budget, as
\* timed out when that is spent.
Complete ==
  /\ ~job.finished
  /\ \E o \in Outcomes :
       /\ IF o = "TIMED_OUT" THEN now >= Budget ELSE now <= Budget
       /\ job' = Ended(o)
  /\ UNCHANGED <<now, call, handle, waits>>

Tick ==
  /\ now < EndOfTime
  /\ \A w \in Waiters :
       /\ pc[w] = "answered" => now < local[w].served + Latency
       /\ pc[w] # "started"
  /\ now' = now + 1
  /\ UNCHANGED <<job, call, handle, waits>>

\* What the server or the event loop owes a call that is under way.
Proceed(w) ==
  \/ Serve(w) \/ Seen(w) \/ Told(w) \/ Wake(w)
  \/ pc[w] = "started" /\ (WaitAtOnce(w) \/ Wait(w))
  \/ pc[w] = "retrying" /\ Submit(w)

Next ==
  \/ Obtain \/ Complete \/ Tick
  \/ \E w \in Waiters :
       \/ Submit(w) \/ SubmitFails(w)
       \/ WaitAtOnce(w) \/ Wait(w) \/ Look(w)
       \/ Serve(w) \/ Seen(w) \/ Told(w) \/ Wake(w) \/ PollFails(w)

Spec == Init /\ [][Next]_vars

\* Time passes, polls are served and answers dealt with; the query itself need
\* never end.
FairSpec == Spec /\ WF_vars(Tick) /\ \A w \in Waiters : WF_vars(Proceed(w))

-----------------------------------------------------------------------------
(* Properties. *)

Reasons == Outcomes \cup {"CLIENT_TIMEOUT", "SERVER_BUDGET_EXPIRED"}
Verdicts == {"returned", "failed", "timed out", "out of budget"}

\* Every variable holds a value of its type.
TypeOK ==
  /\ now \in Nat
  /\ job \in Jobs
  /\ started \in Nat \cup {Never}
  /\ status \in Statuses
  /\ reason \in Reasons \cup {"none"}
  /\ records \in Seq(Reasons)
  /\ pc \in [Waiters -> {"idle", "polling", "answered", "sleeping", "started", "retrying"}]
  /\ mode \in [Waiters -> {"none", "wait", "status"}]
  /\ local \in [Waiters -> [deadline : Nat \cup {Never}, interval : Nat \ {0}, until : Nat,
                           told : Statuses, served : Nat]]
  /\ result \in [Waiters -> Verdicts \cup {"none", "raised"}]
  /\ call \in [by : Waiters \cup {Nobody}, timeout : Nat \cup {Never},
              attempt : 0 .. OutcomeRetries + 1]

\* What Forward calls a success, or ends without a word of why.
Successes == {"OK"} \cup Untold

\* wait() says a query failed only when Forward ended it so, and that it
\* succeeded only when Forward ended it so or may have left out how it ended,
\* even if the handle was told by another coroutine, or told of it out of order.
VerdictIsTrue ==
  \A w \in Waiters :
    /\ result[w] = "returned" => job.finished /\ job.outcome \in Successes
    /\ result[w] = "failed" => job.finished /\ job.outcome # "OK"

\* wait() gives a query up for its budget only when the query can no longer
\* succeed, provided an answer takes less time than the grace allows for
\* (SERVER_DEADLINE_GRACE, _check_deadlines).
OnlyTheDoomed ==
  Latency < Grace =>
    \A w \in Waiters : result[w] = "out of budget" => job # Ended("OK")

\* One wait or many, a timeout first and an outcome later: an execution is
\* recorded once, when the first wait of it reaches a verdict, and what the
\* record says of Forward is true, but for an outcome left out (_record).
RecordedOnce ==
  /\ (\E w \in Waiters : result[w] \in Verdicts) => reason # "none"
  /\ records = IF reason = "none" THEN <<>> ELSE <<reason>>
  /\ reason \in Outcomes =>
       /\ job.finished
       /\ \/ job.outcome = reason
          \/ reason = "OK" /\ job.outcome \in Untold

\* execute_and_wait() never has two queries of a call running on Forward, and
\* never gives up a failure it could still retry: a query is submitted again
\* only when Forward has ended the one before with an outcome to be retried,
\* and a call fails with such an outcome only when its attempts are spent.
OneQueryAtATime ==
  [][\A w \in Waiters :
       /\ pc[w] = "retrying" /\ pc'[w] # "retrying" =>
            job.finished /\ job.outcome \in RetryOutcomes
       /\ call.by = w /\ result'[w] = "failed" /\ pc'[w] = "idle" =>
            call.attempt = OutcomeRetries + 1 \/ job.outcome \notin RetryOutcomes]_vars

\* A wait with a timeout, or told the budget, ends even if the query never does.
WaitEnds == \A w \in Waiters : pc[w] # "idle" ~> pc[w] = "idle"
=============================================================================
