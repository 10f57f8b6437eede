------------------------- MODULE NqeExecutionProofs -------------------------
(***************************************************************************)
(* Proofs about NqeExecution, for any number of waiters, any timeouts,      *)
(* delays and retries: what is heard of the query is true although it comes *)
(* late and out of order, and what is not heard of by a deadline is no      *)
(* success.                                                                 *)
(***************************************************************************)
EXTENDS NqeExecution, TLAPS

\* A handle that nobody has yet has no waits.
NotBegun ==
  started = Never =>
    /\ call = NoCall /\ reason = "none"
    /\ \A w \in Waiters : pc[w] = "idle" /\ result[w] = "none"

\* What the handle or an answer says of the end of the query is what Forward
\* says of it.
Heard ==
  /\ status.finished => status \in Says(job)
  /\ \A w \in Waiters :
       local[w].told.finished => pc[w] = "answered" /\ local[w].told \in Says(job)

\* execute_and_wait() has its handle to itself; between two attempts the query
\* has ended with an outcome to be retried, and attempts are left.
Calling ==
  /\ call.by # Nobody =>
       \A w \in Waiters \ {call.by} : pc[w] = "idle" /\ result[w] = "none"
  /\ \A w \in Waiters :
       /\ pc[w] \in {"started", "retrying"} => call.by = w
       /\ pc[w] = "retrying" =>
            /\ call.attempt <= OutcomeRetries
            /\ job.finished /\ job.outcome \in RetryOutcomes
       /\ pc[w] \notin {"idle", "retrying"} => result[w] = "none"
       /\ call.by = w /\ result[w] = "failed" /\ pc[w] = "idle" =>
            call.attempt = OutcomeRetries + 1 \/ job.outcome \notin RetryOutcomes

\* An answer that says the query is running was true within the latency; from
\* one given after the budget was spent, the query does not go on to succeed.
InTime ==
  \A w \in Waiters :
    pc[w] = "answered" =>
      /\ local[w].served <= now /\ now <= local[w].served + Latency
      /\ ~local[w].told.finished /\ local[w].served > Budget => job # Ended("OK")

Doomed ==
  Latency < Grace =>
    \A w \in Waiters : result[w] = "out of budget" => now > Budget /\ job # Ended("OK")

IInv == TypeOK /\ NotBegun /\ Heard /\ Calling /\ InTime /\ Doomed /\ VerdictIsTrue /\ RecordedOnce

-----------------------------------------------------------------------------
USE DEF waits, handle, Become, NoLocal, NoCall, Never

LEMMA Constants ==
  /\ Nobody \notin Waiters /\ Timeouts \subseteq Nat /\ RetryAfters \subseteq Nat
  /\ Budget \in Nat /\ Grace \in Nat /\ Latency \in Nat /\ OutcomeRetries \in Nat
  /\ FirstInterval \in Nat \ {0} /\ PollInterval \in Nat \ {0}
  /\ RetryOutcomes \subseteq Outcomes \ {"OK"} /\ Untold \subseteq Outcomes
  BY ExecutionAssumption

\* A query runs or has ended somehow; a status says so, or says that it ended
\* and not how.
LEMMA StatusCases ==
  /\ Running \in Jobs /\ ~Running.finished /\ Jobs \subseteq Statuses
  /\ \A o \in Outcomes : Ended(o) \in Jobs /\ Ended(o).finished /\ Ended(o).outcome = o
  /\ NoOutcome \in Statuses /\ NoOutcome.finished /\ NoOutcome.outcome = "none"
  /\ \A st \in Statuses :
       /\ ~st.finished => st = Running
       /\ st.finished => st = Ended(st.outcome) /\ st.outcome \in Outcomes \cup {"none"}
  /\ \A j \in Jobs : j.finished => j.outcome \in Outcomes
  /\ "none" \notin Outcomes
  BY DEF Statuses, Jobs, NoOutcome, Running, Ended, Outcomes

\* What Forward says of the end of a query: its end, or that it ended.
LEMMA SaysCases ==
  ASSUME NEW jb \in Jobs, NEW st \in Says(jb)
  PROVE  /\ st \in Statuses
         /\ st.finished <=> jb.finished
         /\ st = jb \/ (st = NoOutcome /\ jb.finished /\ jb.outcome \in Untold)
         /\ st.finished /\ ~EndedWell(st) => st = jb /\ jb.outcome # "OK"
         /\ st.finished /\ EndedWell(st) => jb.outcome \in Successes
<1>1. st = jb \/ (st = NoOutcome /\ jb.finished /\ jb.outcome \in Untold)
  BY DEF Says
<1>2. st \in Statuses /\ (st.finished <=> jb.finished)
  BY <1>1, StatusCases
<1>3. st.finished /\ ~EndedWell(st) => st = jb /\ jb.outcome # "OK"
  BY <1>1, StatusCases DEF EndedWell
<1>4. st.finished /\ EndedWell(st) => jb.outcome \in Successes
  BY <1>1, <1>2, StatusCases DEF EndedWell, Successes
<1>5. QED
  BY <1>1, <1>2, <1>3, <1>4

LocalType == [deadline : Nat \cup {Never}, interval : Nat \ {0}, until : Nat,
              told : Statuses, served : Nat]

LEMMA NoLocalType == NoLocal \in LocalType /\ NoLocal.told = Running
  BY Constants, StatusCases DEF LocalType

LEMMA InitIInv == Init => IInv
<1> SUFFICES ASSUME Init PROVE IInv
  OBVIOUS
<1>1. local \in [Waiters -> LocalType] /\ \A w \in Waiters : ~local[w].told.finished
  BY NoLocalType, StatusCases DEF Init
<1>2. call \in [by : Waiters \cup {Nobody}, timeout : Nat \cup {Never}, attempt : 0 .. OutcomeRetries + 1]
  BY Constants DEF Init
<1>3. TypeOK
  BY <1>1, <1>2, StatusCases DEF Init, TypeOK, LocalType
<1>4. NotBegun /\ Heard /\ Calling /\ InTime /\ Doomed
  BY <1>1, StatusCases, Constants DEF Init, NotBegun, Heard, Calling, InTime, Doomed
<1>5. VerdictIsTrue /\ RecordedOnce
  BY DEF Init, VerdictIsTrue, RecordedOnce, Verdicts, Outcomes
<1>6. QED
  BY <1>3, <1>4, <1>5 DEF IInv

LEMMA DelayType ==
  ASSUME TypeOK, NEW w \in Waiters, NEW asked \in Nat
  PROVE  Delay(asked, w) \in Nat
  BY DEF Delay, TypeOK

LEMMA JudgementType ==
  ASSUME NEW st, NEW dl
  PROVE  /\ Judgement(st, dl) \in Verdicts \cup {"wait"}
         /\ Judgement(st, dl) = "returned" <=> st.finished /\ EndedWell(st)
         /\ Judgement(st, dl) = "failed" <=> st.finished /\ ~EndedWell(st)
         /\ Judgement(st, dl) = "out of budget" => ~st.finished /\ Passed(ServerDeadline)
  BY DEF Judgement, Verdicts

\* The end of a turn: with what wait() was told, of a true status.
LEMMA TurnStep ==
  ASSUME IInv, NEW w \in Waiters, NEW st \in Statuses, NEW asked \in Nat,
         st.finished => st \in Says(job),
         started # Never, call.by # Nobody => call.by = w,
         pc[w] \in {"idle", "retrying"} => st.finished,
         Turn(w, st, asked),
         status' \in Statuses, status'.finished => status' \in Says(job),
         UNCHANGED <<now, job, started, mode, call>>,
         Latency < Grace /\ ~st.finished /\ Passed(ServerDeadline) => now > Budget /\ job # Ended("OK")
  PROVE  IInv'
<1> DEFINE dl == local[w].deadline
           j == Judgement(st, dl)
<1>0. /\ TypeOK /\ NotBegun /\ Heard /\ Calling /\ InTime /\ Doomed /\ VerdictIsTrue /\ RecordedOnce
      /\ call \in [by : Waiters \cup {Nobody}, timeout : Nat \cup {Never}, attempt : 0 .. OutcomeRetries + 1]
      /\ local \in [Waiters -> LocalType]
  BY DEF IInv, TypeOK, LocalType
<1>a. /\ st.finished => job.finished
      /\ st.finished /\ EndedWell(st) => job.outcome \in Successes
      /\ st.finished /\ ~EndedWell(st) => st = job /\ job.outcome # "OK"
  <2>1. job \in Jobs
    BY <1>0 DEF TypeOK
  <2>2. QED
    BY <2>1, SaysCases
<1>1. CASE j = "wait"
  <2>1. PICK L \in LocalType :
          /\ local' = [local EXCEPT ![w] = L] /\ L.told = Running
          /\ pc' = [pc EXCEPT ![w] = "sleeping"]
          /\ UNCHANGED <<reason, records, result>>
    <3>1. [NoLocal EXCEPT !.deadline = local[w].deadline, !.interval = local[w].interval,
                          !.until = now + Delay(asked, w)] \in LocalType
      <4>1. local[w].deadline \in Nat \cup {-1} /\ local[w].interval \in Nat \ {0}
        BY <1>0 DEF LocalType
      <4>2. now + Delay(asked, w) \in Nat
        <5>1. now \in Nat
          BY <1>0 DEF TypeOK
        <5>2. Delay(asked, w) \in Nat
          BY <1>0, DelayType
        <5>3. QED
          BY <5>1, <5>2
      <4>3. QED
        BY <4>1, <4>2, StatusCases DEF LocalType
    <3>2. QED
      BY <1>1, <3>1 DEF Turn
  <2>2. TypeOK'
    BY <1>0, <2>1 DEF TypeOK, LocalType
  <2>3. NotBegun' /\ Heard'
    BY <1>0, <2>1, StatusCases DEF NotBegun, Heard, TypeOK
  <2>7. pc[w] \notin {"idle", "retrying"}
    BY <1>1 DEF Judgement
  <2>8. Calling'
    BY <1>0, <2>1, <2>7 DEF Calling, TypeOK
  <2>4. InTime' /\ Doomed'
    BY <1>0, <2>1 DEF InTime, Doomed, TypeOK
  <2>5. VerdictIsTrue' /\ RecordedOnce'
    BY <1>0, <2>1 DEF VerdictIsTrue, RecordedOnce
  <2>6. QED
    BY <2>2, <2>3, <2>4, <2>5, <2>8 DEF IInv
<1>2. CASE j # "wait"
  <2>1. /\ Record(ReasonFor(st, j))
        /\ result' = [result EXCEPT ![w] = j]
        /\ local' = [local EXCEPT ![w] = NoLocal]
        /\ pc' = [pc EXCEPT ![w] = IF Again(w, st, j) THEN "retrying" ELSE "idle"]
    BY <1>2 DEF Turn
  <2>2. j \in Verdicts
    BY <1>2, JudgementType
  <2>3. /\ ReasonFor(st, j) \in Reasons
        /\ ReasonFor(st, j) \in Outcomes =>
             /\ job.finished
             /\ \/ job.outcome = ReasonFor(st, j)
                \/ ReasonFor(st, j) = "OK" /\ job.outcome \in Untold
    <3>1. CASE j = "returned"
      <4>1. ReasonFor(st, j) = "OK"
        BY <3>1 DEF ReasonFor
      <4>2. job.finished /\ job.outcome \in Successes
        BY <1>a, <3>1, JudgementType
      <4>3. QED
        BY <4>1, <4>2 DEF Successes, Reasons, Outcomes
    <3>2. CASE j = "failed"
      <4>1. ReasonFor(st, j) = st.outcome
        BY <3>2 DEF ReasonFor
      <4>2. st.finished /\ ~EndedWell(st) /\ st = job
        BY <1>a, <3>2, JudgementType
      <4>3. st.outcome \in Outcomes
        BY <4>2, StatusCases DEF EndedWell
      <4>4. QED
        BY <4>1, <4>2, <4>3 DEF Reasons
    <3>3. CASE j \in {"timed out", "out of budget"}
      BY <3>3 DEF ReasonFor, Reasons, Outcomes
    <3>4. QED
      BY <2>2, <3>1, <3>2, <3>3 DEF Verdicts
  <2>4. TypeOK'
    <3>1. local' \in [Waiters -> LocalType]
      BY <1>0, <2>1, NoLocalType
    <3>2. reason' \in Reasons \cup {"none"} /\ records' \in Seq(Reasons)
      <4>1. reason \in Reasons \cup {"none"} /\ records \in Seq(Reasons)
        BY <1>0 DEF TypeOK
      <4>2. \A why \in Reasons : Append(records, why) \in Seq(Reasons)
        BY <4>1
      <4>3. CASE reason = "none"
        BY <2>1, <2>3, <4>2, <4>3 DEF Record
      <4>4. CASE reason # "none"
        BY <2>1, <4>1, <4>4 DEF Record
      <4>5. QED
        BY <4>3, <4>4
    <3>3. result' \in [Waiters -> Verdicts \cup {"none", "raised"}]
      BY <1>0, <2>1, <2>2 DEF TypeOK
    <3>4. QED
      BY <1>0, <2>1, <3>1, <3>2, <3>3 DEF TypeOK, LocalType
  <2>5. NotBegun' /\ Heard'
    BY <1>0, <2>1, NoLocalType, StatusCases DEF NotBegun, Heard, TypeOK
  <2>6. Calling'
    <3>1. Again(w, st, j) => /\ call.by = w /\ call.attempt <= OutcomeRetries
                             /\ job.finished /\ job.outcome \in RetryOutcomes
      BY <1>a, JudgementType DEF Again
    <3>2. ~Again(w, st, j) /\ call.by = w /\ j = "failed" =>
            call.attempt = OutcomeRetries + 1 \/ job.outcome \notin RetryOutcomes
      <4>1. call.attempt \in 0 .. OutcomeRetries + 1
        BY <1>0
      <4>2. ~(call.attempt <= OutcomeRetries) => call.attempt = OutcomeRetries + 1
        BY <4>1, Constants
      <4>3. SUFFICES ASSUME ~Again(w, st, j), call.by = w, j = "failed"
                     PROVE  ~(call.attempt <= OutcomeRetries) \/ job.outcome \notin RetryOutcomes
        BY <4>2
      <4>4. st = job
        BY <1>a, <4>3, JudgementType
      <4>5. QED
        BY <4>3, <4>4 DEF Again
    <3>3. QED
      BY <1>0, <2>1, <3>1, <3>2 DEF Calling, TypeOK
  <2>7. InTime' /\ Doomed'
    BY <1>0, <2>1, JudgementType DEF InTime, Doomed, TypeOK
  <2>8. VerdictIsTrue'
    <3>1. result'[w] = j /\ \A u \in Waiters \ {w} : result'[u] = result[u]
      BY <1>0, <2>1 DEF TypeOK
    <3>2. j = "returned" => job.finished /\ job.outcome \in Successes
      BY <1>a, JudgementType
    <3>3. j = "failed" => job.finished /\ job.outcome # "OK"
      BY <1>a, JudgementType
    <3>4. QED
      BY <1>0, <3>1, <3>2, <3>3 DEF VerdictIsTrue
  <2>9. RecordedOnce'
    <3>1. CASE reason = "none"
      <4>1. reason' = ReasonFor(st, j) /\ records' = Append(records, reason') /\ reason' # "none"
        BY <2>1, <2>3, <3>1 DEF Record, Reasons, Outcomes
      <4>2. records' = <<reason'>>
        BY <1>0, <3>1, <4>1 DEF RecordedOnce
      <4>3. QED
        BY <2>3, <4>1, <4>2 DEF RecordedOnce
    <3>2. CASE reason # "none"
      BY <1>0, <2>1, <3>2 DEF Record, RecordedOnce
    <3>3. QED
      BY <3>1, <3>2
  <2>10. QED
    BY <2>4, <2>5, <2>6, <2>7, <2>8, <2>9 DEF IInv
<1>3. QED
  BY <1>1, <1>2

-----------------------------------------------------------------------------
LEMMA Parts ==
  ASSUME IInv
  PROVE  /\ TypeOK /\ NotBegun /\ Heard /\ Calling /\ InTime /\ Doomed /\ VerdictIsTrue /\ RecordedOnce
         /\ call \in [by : Waiters \cup {Nobody}, timeout : Nat \cup {Never},
                     attempt : 0 .. OutcomeRetries + 1]
         /\ local \in [Waiters -> LocalType]
  BY DEF IInv, TypeOK, LocalType

\* One waiter goes on to a place at which it holds no answer.
LEMMA MoveStep ==
  ASSUME IInv, NEW w \in Waiters, NEW L \in LocalType, NEW place, ~L.told.finished,
         place \in {"idle", "polling", "sleeping"},
         local' = [local EXCEPT ![w] = L], pc' = [pc EXCEPT ![w] = place],
         NEW r \in {"none", "raised"}, result' = [result EXCEPT ![w] = r],
         started # Never, call.by # Nobody => call.by = w,
         place # "idle" => r = "none",
         mode' \in [Waiters -> {"none", "wait", "status"}],
         status' \in Statuses, status'.finished => status' \in Says(job),
         UNCHANGED <<now, job, started, reason, records, call>>
  PROVE  IInv'
<1>1. TypeOK'
  BY Parts DEF TypeOK, LocalType
<1>2. NotBegun' /\ Heard'
  BY Parts DEF NotBegun, Heard, TypeOK
<1>3. Calling'
  BY Parts DEF Calling, TypeOK
<1>4. InTime' /\ Doomed'
  BY Parts DEF InTime, Doomed, TypeOK
<1>5. VerdictIsTrue' /\ RecordedOnce'
  BY Parts DEF VerdictIsTrue, RecordedOnce, TypeOK, Verdicts
<1>6. QED
  BY <1>1, <1>2, <1>3, <1>4, <1>5 DEF IInv

LEMMA ObtainStep ==
  ASSUME IInv, Obtain
  PROVE  IInv'
<1>1. status' \in Statuses /\ (status'.finished => status' \in Says(job)) /\ started' \in Nat
  <2>1. job \in Jobs /\ job' = job /\ status' \in {Running} \cup Says(job) /\ started' \in Nat
    BY Parts DEF Obtain, TypeOK
  <2>2. QED
    BY <2>1, StatusCases, SaysCases
<1>2. TypeOK'
  BY <1>1, Parts DEF Obtain, TypeOK
<1>3. NotBegun' /\ Heard' /\ Calling'
  BY <1>1, Parts DEF Obtain, NotBegun, Heard, Calling, TypeOK
<1>4. InTime' /\ Doomed' /\ VerdictIsTrue' /\ RecordedOnce'
  BY Parts DEF Obtain, InTime, Doomed, VerdictIsTrue, RecordedOnce
<1>5. QED
  BY <1>2, <1>3, <1>4 DEF IInv

\* A query submitted once more has a handle that says nothing yet.
LEMMA SubmitStep ==
  ASSUME IInv, NEW w \in Waiters, Submit(w)
  PROVE  IInv'
<1>1. /\ job' \in Jobs /\ status' \in {Running} \cup Says(job') /\ now' = 0 /\ started' = 0
      /\ reason' = "none" /\ records' = <<>> /\ mode' = mode
      /\ pc' = [pc EXCEPT ![w] = "started"] /\ local' = [local EXCEPT ![w] = NoLocal]
      /\ result' = [result EXCEPT ![w] = "none"]
  BY DEF Submit
<1>2. \A u \in Waiters \ {w} : pc[u] = "idle" /\ result[u] = "none"
  BY Parts, Constants DEF Submit, NotBegun, Calling
<1>3. /\ call' \in [by : Waiters \cup {Nobody}, timeout : Nat \cup {Never},
                   attempt : 0 .. OutcomeRetries + 1]
      /\ call'.by = w
  <2>1. CASE started = Never /\ \E t \in TimeoutArgs : call' = [by |-> w, timeout |-> t, attempt |-> 1]
    BY <2>1, Constants DEF TimeoutArgs
  <2>2. CASE pc[w] = "retrying" /\ call' = [call EXCEPT !.attempt = @ + 1]
    <3>1. call.by = w /\ call.attempt <= OutcomeRetries /\ call.attempt \in 0 .. OutcomeRetries + 1
      BY <2>2, Parts DEF Calling
    <3>2. call.attempt + 1 \in 0 .. OutcomeRetries + 1
      BY <3>1, Constants
    <3>3. QED
      BY <2>2, <3>1, <3>2, Parts
  <2>3. QED
    BY <2>1, <2>2 DEF Submit
<1>4. \A u \in Waiters : ~local'[u].told.finished
  BY <1>1, <1>2, Parts, NoLocalType, StatusCases DEF Heard
<1>5. TypeOK'
  <2>1. local' \in [Waiters -> LocalType]
    BY <1>1, Parts, NoLocalType
  <2>2. status' \in Statuses
    BY <1>1, StatusCases, SaysCases
  <2>3. records' \in Seq(Reasons)
    BY <1>1
  <2>4. QED
    BY <1>1, <1>3, <2>1, <2>2, <2>3, Parts DEF TypeOK, LocalType
<1>6. NotBegun' /\ Heard'
  BY <1>1, <1>4, StatusCases DEF NotBegun, Heard
<1>7. \A u \in Waiters : result'[u] = "none" /\ pc'[u] \in {"idle", "started"}
                        /\ (pc'[u] = "started" => u = w)
  BY <1>1, <1>2, Parts DEF TypeOK
<1>8. Calling'
  BY <1>2, <1>3, <1>7, <1>1, Parts DEF Calling, TypeOK
<1>9. InTime' /\ Doomed' /\ VerdictIsTrue' /\ RecordedOnce'
  BY <1>1, <1>7 DEF InTime, Doomed, VerdictIsTrue, RecordedOnce, Verdicts, Outcomes
<1>10. QED
  BY <1>5, <1>6, <1>8, <1>9 DEF IInv

LEMMA SubmitFailsStep ==
  ASSUME IInv, NEW w \in Waiters, SubmitFails(w)
  PROVE  IInv'
<1>1. started # Never /\ call.by = w
  BY Parts DEF SubmitFails, NotBegun, Calling
<1>2. status \in Statuses /\ mode \in [Waiters -> {"none", "wait", "status"}] /\ (status.finished => status \in Says(job))
  BY Parts DEF TypeOK, Heard
<1>3. QED
  BY <1>1, <1>2, NoLocalType, StatusCases, MoveStep DEF SubmitFails

LEMMA BeginStep ==
  ASSUME IInv, NEW w \in Waiters, Wait(w) \/ Look(w) \/ PollFails(w) \/ Wake(w) \/ Seen(w)
  PROVE  IInv'
<1>1. started # Never /\ (call.by # Nobody => call.by = w)
  BY Parts DEF NotBegun, Calling, Wait, Look, PollFails, Wake, Seen, Callable
<1>2. status \in Statuses /\ mode \in [Waiters -> {"none", "wait", "status"}] /\ (status.finished => status \in Says(job))
  BY Parts DEF TypeOK, Heard
<1>3. CASE Wait(w)
  <2>1. PICK t \in Nat \cup {Never} :
          Become(w, "polling", [NoLocal EXCEPT !.deadline = IF t = Never THEN Never ELSE now + t,
                                               !.interval = Least(@, PollInterval)])
    <3>1. TimeoutArgs \subseteq Nat \cup {Never} /\ call.timeout \in Nat \cup {Never}
      BY Constants, Parts DEF TimeoutArgs
    <3>2. QED
      BY <1>3, <3>1 DEF Wait
  <2> DEFINE L == [NoLocal EXCEPT !.deadline = IF t = Never THEN Never ELSE now + t,
                                  !.interval = Least(@, PollInterval)]
  <2>2. L \in LocalType /\ L.told = Running
    <3>1. (IF t = Never THEN Never ELSE now + t) \in Nat \cup {Never}
      <4>1. now \in Nat
        BY Parts DEF TypeOK
      <4>2. QED
        BY <4>1
    <3>2. Least(FirstInterval, PollInterval) \in Nat \ {0}
      BY Constants DEF Least
    <3>3. QED
      BY <3>1, <3>2, StatusCases DEF LocalType
  <2>3. mode' \in [Waiters -> {"none", "wait", "status"}]
    BY <1>2, <1>3 DEF Wait
  <2>4. QED
    BY <1>1, <1>2, <1>3, <2>1, <2>2, <2>3, StatusCases, MoveStep DEF Wait
<1>4. CASE Look(w)
  <2>1. mode' \in [Waiters -> {"none", "wait", "status"}]
    BY <1>2, <1>4 DEF Look
  <2>2. QED
    BY <1>1, <1>2, <1>4, <2>1, NoLocalType, StatusCases, MoveStep DEF Look
<1>5. CASE PollFails(w)
  BY <1>1, <1>2, <1>5, NoLocalType, StatusCases, MoveStep DEF PollFails
<1>6. CASE Wake(w)
  <2> DEFINE L == [local[w] EXCEPT !.interval = Least(PollInterval, 2 * @), !.until = 0]
  <2>1. L \in LocalType /\ L.told = local[w].told
    <3>1. local[w] \in LocalType
      BY Parts
    <3>2. \A n \in Nat \ {0} : Least(PollInterval, 2 * n) \in Nat \ {0}
      BY Constants DEF Least
    <3>3. QED
      BY <3>1, <3>2 DEF LocalType
  <2>2. ~L.told.finished
    BY <1>6, <2>1, Parts DEF Heard, Wake
  <2>3. result' = [result EXCEPT ![w] = "none"]
    BY <1>6, Parts DEF Wake, Calling, TypeOK
  <2>4. QED
    BY <1>1, <1>2, <1>6, <2>1, <2>2, <2>3, MoveStep DEF Wake
<1>7. CASE Seen(w)
  <2>1. status' \in Statuses /\ (status'.finished => status' \in Says(job))
    BY <1>7, Parts DEF Seen, Heard, LocalType
  <2>2. result' = [result EXCEPT ![w] = "none"]
    BY <1>7, Parts DEF Seen, Calling, TypeOK
  <2>3. QED
    BY <1>1, <1>2, <1>7, <2>1, <2>2, NoLocalType, StatusCases, MoveStep DEF Seen
<1>8. QED
  BY <1>3, <1>4, <1>5, <1>6, <1>7

LEMMA ServeStep ==
  ASSUME IInv, NEW w \in Waiters, Serve(w)
  PROVE  IInv'
<1>0. PICK said \in Says(job) :
        local' = [local EXCEPT ![w] = [local[w] EXCEPT !.told = said, !.served = now]]
  BY DEF Serve
<1>a. job \in Jobs /\ said \in Statuses /\ (said.finished <=> job.finished)
  BY Parts, SaysCases DEF TypeOK
<1>1. /\ pc' = [pc EXCEPT ![w] = "answered"]
      /\ pc[w] = "polling"
      /\ UNCHANGED <<now, job, call, started, status, reason, records, mode, result>>
  BY DEF Serve
<1>2. /\ [local[w] EXCEPT !.told = said, !.served = now] \in LocalType
      /\ local'[w].told = said /\ local'[w].served = now
      /\ \A u \in Waiters \ {w} : local'[u] = local[u] /\ pc'[u] = pc[u]
      /\ pc'[w] = "answered"
  BY <1>0, <1>a, <1>1, Parts DEF TypeOK, LocalType
<1>3. TypeOK'
  BY <1>0, <1>1, <1>2, Parts DEF TypeOK, LocalType
<1>4. NotBegun' /\ Heard'
  BY <1>1, <1>2, Parts DEF NotBegun, Heard
<1>5. Calling'
  BY <1>1, <1>2, Parts DEF Calling
<1>6. InTime'
  <2>1. now \in Nat /\ now <= now + Latency
    BY Constants, Parts DEF TypeOK
  <2>2. ~job.finished => job # Ended("OK")
    BY StatusCases DEF Outcomes
  <2>3. QED
    BY <1>a, <1>1, <1>2, <2>1, <2>2, Parts DEF InTime
<1>7. Doomed' /\ VerdictIsTrue' /\ RecordedOnce'
  BY <1>1, Parts DEF Doomed, VerdictIsTrue, RecordedOnce
<1>8. QED
  BY <1>3, <1>4, <1>5, <1>6, <1>7 DEF IInv

\* The answer that a query runs is not older than the latency: it leaves the
\* verdict that the budget is spent, if the grace is longer than that.
LEMMA ToldStep ==
  ASSUME IInv, NEW w \in Waiters, Told(w)
  PROVE  IInv'
<1>1. /\ pc[w] = "answered" /\ status' = local[w].told
      /\ UNCHANGED <<now, job, call, started, mode>>
  BY DEF Told
<1>2. PICK asked \in RetryAfters : Turn(w, status', asked)
  BY DEF Told
<1>3. started # Never /\ (call.by # Nobody => call.by = w)
  BY <1>1, Parts DEF NotBegun, Calling
<1>4. status' \in Statuses /\ (status'.finished => status' \in Says(job))
  BY <1>1, Parts DEF Heard, LocalType
<1>5. ASSUME Latency < Grace, ~status'.finished, Passed(ServerDeadline)
      PROVE  now > Budget /\ job # Ended("OK")
  <2>1. /\ now \in Nat /\ started \in Nat /\ local[w].served \in Nat
        /\ now <= local[w].served + Latency
    BY <1>1, <1>3, Parts DEF TypeOK, InTime
  <2>2. now >= started + Budget + Grace
    BY <1>5, Constants DEF Passed, ServerDeadline
  <2>3. now > Budget /\ local[w].served > Budget
    BY <1>5, <2>1, <2>2, Constants
  <2>4. QED
    BY <1>1, <1>5, <2>3, Parts DEF InTime
<1>6. asked \in Nat
  BY Constants
<1>7. QED
  BY <1>1, <1>2, <1>3, <1>4, <1>5, <1>6, TurnStep

LEMMA WaitAtOnceStep ==
  ASSUME IInv, NEW w \in Waiters, WaitAtOnce(w)
  PROVE  IInv'
<1>1. /\ status.finished /\ Turn(w, status, 0)
      /\ UNCHANGED <<now, job, started, status, mode, call>>
  BY DEF WaitAtOnce
<1>2. started # Never /\ (call.by # Nobody => call.by = w)
  BY Parts DEF NotBegun, Calling, WaitAtOnce, Callable
<1>3. status \in Statuses /\ (status.finished => status \in Says(job))
  BY Parts DEF TypeOK, Heard
<1>4. QED
  BY <1>1, <1>2, <1>3, TurnStep

\* A query that ends after its budget ends badly.
LEMMA CompleteStep ==
  ASSUME IInv, Complete
  PROVE  IInv'
<1>1. PICK o \in Outcomes :
        /\ IF o = "TIMED_OUT" THEN now >= Budget ELSE now <= Budget
        /\ job' = Ended(o)
  BY DEF Complete
<1>2. /\ ~job.finished
      /\ UNCHANGED <<now, call, started, status, reason, records, pc, mode, local, result>>
  BY DEF Complete
<1>3. job' \in Jobs /\ (job' = Ended("OK") => o = "OK")
  BY <1>1, StatusCases DEF Outcomes
<1>4. now > Budget => job' # Ended("OK")
  <2>1. now \in Nat /\ Budget \in Nat
    BY Constants, Parts DEF TypeOK
  <2>2. o = "OK" => now <= Budget
    BY <1>1
  <2>3. QED
    BY <1>3, <2>1, <2>2
<1>5. TypeOK' /\ NotBegun'
  BY <1>2, <1>3, Parts DEF TypeOK, NotBegun
<1>6. ~status.finished /\ \A w \in Waiters : ~local[w].told.finished
  <2>1. job \in Jobs
    BY Parts DEF TypeOK
  <2>2. \A st \in Says(job) : ~st.finished
    BY <1>2, <2>1, SaysCases
  <2>3. QED
    BY <2>2, Parts DEF Heard
<1>7. \A w \in Waiters : result[w] \notin {"returned", "failed"} /\ pc[w] # "retrying"
  BY <1>2, StatusCases, Parts DEF VerdictIsTrue, Calling, Outcomes
<1>8. Heard' /\ Calling'
  BY <1>2, <1>6, <1>7, Parts DEF Heard, Calling
<1>9. InTime' /\ Doomed'
  <2>1. \A w \in Waiters : pc[w] = "answered" /\ local[w].served > Budget => now > Budget
    <3>1. now \in Nat /\ Budget \in Nat /\ \A w \in Waiters : local[w].served \in Nat
      BY Constants, Parts DEF TypeOK, LocalType
    <3>2. QED
      BY <3>1, Parts DEF InTime
  <2>2. QED
    BY <1>2, <1>4, <2>1, Parts DEF InTime, Doomed
<1>10. reason \notin Outcomes
  BY <1>2, StatusCases, Parts DEF RecordedOnce
<1>11. VerdictIsTrue' /\ RecordedOnce'
  BY <1>2, <1>7, <1>10, Parts DEF VerdictIsTrue, RecordedOnce
<1>12. QED
  BY <1>5, <1>8, <1>9, <1>11 DEF IInv

LEMMA TickStep ==
  ASSUME IInv, Tick
  PROVE  IInv'
<1>1. /\ UNCHANGED <<job, call, started, status, reason, records, pc, mode, local, result>>
      /\ now' = now + 1 /\ now \in Nat
      /\ \A w \in Waiters : pc[w] = "answered" => now < local[w].served + Latency
  BY Parts DEF Tick, TypeOK
<1>2. TypeOK' /\ NotBegun' /\ Heard' /\ Calling'
  BY <1>1, Parts DEF TypeOK, NotBegun, Heard, Calling
<1>3. InTime'
  <2>1. \A w \in Waiters : local[w].served \in Nat
    BY Parts DEF LocalType
  <2>2. QED
    BY <1>1, <2>1, Constants, Parts DEF InTime
<1>4. Doomed'
  <2>1. Budget \in Nat /\ (now > Budget => now' > Budget)
    BY <1>1, Constants
  <2>2. QED
    BY <1>1, <2>1, Parts DEF Doomed
<1>5. VerdictIsTrue' /\ RecordedOnce'
  BY <1>1, Parts DEF VerdictIsTrue, RecordedOnce
<1>6. QED
  BY <1>2, <1>3, <1>4, <1>5 DEF IInv

LEMMA NextIInv == IInv /\ [Next]_vars => IInv'
<1> SUFFICES ASSUME IInv, [Next]_vars PROVE IInv'
  OBVIOUS
<1>1. CASE UNCHANGED vars
  BY <1>1 DEF vars, IInv, TypeOK, NotBegun, Heard, Calling, InTime, Doomed, VerdictIsTrue, RecordedOnce
<1>2. CASE Next
  BY <1>2, ObtainStep, CompleteStep, TickStep, SubmitStep, SubmitFailsStep, WaitAtOnceStep, BeginStep,
     ServeStep, ToldStep DEF Next
<1>3. QED
  BY <1>1, <1>2

LEMMA Inductive == Spec => []IInv
  BY InitIInv, NextIInv, PTL DEF Spec

-----------------------------------------------------------------------------
\* The variables keep their types.
THEOREM ExecutionTypes == Spec => []TypeOK
<1>1. IInv => TypeOK
  BY DEF IInv
<1>2. QED
  BY <1>1, Inductive, PTL

\* A verdict on the query is true, whoever was told and in whatever order.
THEOREM ExecutionVerdicts == Spec => []VerdictIsTrue
<1>1. IInv => VerdictIsTrue
  BY DEF IInv
<1>2. QED
  BY <1>1, Inductive, PTL

\* A query given up for its budget does not succeed after all, for any budget,
\* any latency and any grace that is longer.
THEOREM ExecutionDoomed == Spec => []OnlyTheDoomed
<1>1. IInv => OnlyTheDoomed
  BY DEF IInv, Doomed, OnlyTheDoomed
<1>2. QED
  BY <1>1, Inductive, PTL

\* An execution is recorded once, and truly.
THEOREM ExecutionRecorded == Spec => []RecordedOnce
<1>1. IInv => RecordedOnce
  BY DEF IInv
<1>2. QED
  BY <1>1, Inductive, PTL

\* execute_and_wait() submits again only when the query before has ended, and
\* gives up no failure it could still retry.
THEOREM ExecutionAlone == Spec => OneQueryAtATime
<1> DEFINE OneAtATime ==
      \A w \in Waiters :
        /\ pc[w] = "retrying" /\ pc'[w] # "retrying" =>
             job.finished /\ job.outcome \in RetryOutcomes
        /\ call.by = w /\ result'[w] = "failed" /\ pc'[w] = "idle" =>
             call.attempt = OutcomeRetries + 1 \/ job.outcome \notin RetryOutcomes
<1>1. ASSUME IInv, IInv', [Next]_vars PROVE [OneAtATime]_vars
  <2> SUFFICES ASSUME Next, NEW w \in Waiters PROVE
        /\ pc[w] = "retrying" => job.finished /\ job.outcome \in RetryOutcomes
        /\ call.by = w /\ result'[w] = "failed" /\ pc'[w] = "idle" =>
             call.attempt = OutcomeRetries + 1 \/ job.outcome \notin RetryOutcomes
    BY <1>1
  <2>1. pc[w] = "retrying" => job.finished /\ job.outcome \in RetryOutcomes
    BY <1>1, Parts DEF Calling
  <2>2. ASSUME call.by = w, result'[w] = "failed", pc'[w] = "idle"
        PROVE  call.attempt = OutcomeRetries + 1 \/ job.outcome \notin RetryOutcomes
    <3>1. ~ \E u \in Waiters : Submit(u)
      <4>1. SUFFICES ASSUME NEW u \in Waiters, Submit(u) PROVE FALSE
        OBVIOUS
      <4>2. u = w
        BY <1>1, <2>2, <4>1, Parts, Constants DEF Submit, NotBegun, Calling
      <4>3. result'[w] = "none"
        BY <1>1, <4>1, <4>2, Parts DEF Submit, TypeOK
      <4>4. QED
        BY <2>2, <4>3
    <3>2. ~Complete
      <4>1. SUFFICES ASSUME Complete PROVE FALSE
        OBVIOUS
      <4>2. result[w] = "failed" /\ ~job.finished
        BY <2>2, <4>1 DEF Complete
      <4>3. QED
        BY <1>1, <4>2, Parts DEF VerdictIsTrue
    <3>3. UNCHANGED <<job, call>>
      BY <3>1, <3>2 DEF Next, Obtain, Tick, SubmitFails, WaitAtOnce, Wait, Look, Serve, Seen, Told,
         Wake, PollFails
    <3>4. Calling'
      BY <1>1 DEF IInv
    <3>5. QED
      BY <2>2, <3>3, <3>4 DEF Calling
  <2>3. QED
    BY <2>1, <2>2
<1>2. QED
  BY <1>1, Inductive, NextIInv, PTL DEF Spec, OneQueryAtATime
=============================================================================
