------------------------------ MODULE Transport ------------------------------
(***************************************************************************)
(* The retry loop of the HTTP transport (_async/transport.py), its counters *)
(* (telemetry.py) and the server and network it talks to.                   *)
(*                                                                         *)
(* Several calls share one client.  A call is one send() or one stream();   *)
(* it dispatches numbered attempts, and each attempt is answered, fails in  *)
(* transit, or both happens and its effect: the server may run a request    *)
(* whose answer never arrives, and may run it after the client gave up.     *)
(*                                                                         *)
(* Data abstracted: a status is the class the code tells apart, an          *)
(* exception the httpx class it tests, a delay is the interleaving of       *)
(* other steps.                                                             *)
(***************************************************************************)
EXTENDS Naturals, FiniteSets

CONSTANTS
  Calls,        \* the calls made through one client
  MaxAttempts,  \* RetryPolicy.max_attempts: sends in all, the first included
  Modes         \* the entry points in use, of "send" and "stream"

ASSUME TransportAssumption ==
  /\ IsFiniteSet(Calls)
  /\ MaxAttempts \in Nat \ {0}
  /\ Modes \subseteq {"send", "stream"}

VARIABLES
  spec,      \* spec[c]: the RequestSpec, [mode, idempotent]
  pc,        \* pc[c]: where the coroutine of c is suspended
  attempt,   \* attempt[c]: attempts dispatched so far (the code's attempt + 1)
  outcome,   \* outcome[c]: what the caller got, "none" until then
  wire,      \* wire[c]: attempts that reached the server and are not handled
  ran,       \* ran[c]: attempts whose handler ran, the effects of the call
  counters   \* the Counters the calls share

vars == <<spec, pc, attempt, outcome, wire, ran, counters>>
net  == <<wire, ran>>

-----------------------------------------------------------------------------
(* Statuses and exceptions, by the classes the code distinguishes. *)

\* "limited" is a 429 whose text says "rate limit exceeded", "busy" any other.
Statuses == {"ok", "limited", "busy", "transient", "rejected"}

\* RETRYABLE_STATUS: 429 and 408, 425, 500, 502, 503, 504.
RetryableStatus == {"limited", "busy", "transient"}

TooManyRequests == {"limited", "busy"}

IsRateLimitRefusal(s) == s = "limited"

ConnectErrors == {"ConnectError", "ConnectTimeout"}

\* A pool timeout is raised before the request is written, as connecting is.
BeforeSending == ConnectErrors \cup {"PoolTimeout"}

TimeoutExceptions == {"ConnectTimeout", "PoolTimeout", "ReadTimeout"}

TransportErrors == BeforeSending \cup {"ReadTimeout", "ReadError"}

CounterNames ==
  {"http_attempts", "http_retries", "http_errors", "http_429",
   "transport_errors", "http_timeouts", "http_transient", "http_rejected",
   "responses"}    \* "responses": the sum over Counters.status_classes()

Specs == [mode : Modes, idempotent : BOOLEAN]

NoSpec == [mode |-> "none", idempotent |-> FALSE]

Outcomes == {"ok", "broken", "unreached", "lost"}
              \cup {"limited", "busy", "transient", "rejected"}

Places == {"idle", "pacing", "awaiting", "backoff", "body", "done"}

When(p, S) == IF p THEN S ELSE {}

\* Counters.increment, record_status and mark_attempt, one lock each.
Count(S) ==
  counters' = [n \in CounterNames |-> counters[n] + (IF n \in S THEN 1 ELSE 0)]

-----------------------------------------------------------------------------
(* The retry decisions. *)

\* Mutants of Final: the loop counted one attempt short, or one too far.
FinalTooSoon(c) == attempt[c] >= MaxAttempts - 1
FinalTooLate(c) == attempt[c] > MaxAttempts

Final(c) == attempt[c] = MaxAttempts

\* Mutant of SafeToRepeat: every timeout taken for a connect timeout.
SafeToRepeatOnTimeout(c, exc) ==
  exc \in ConnectErrors \cup TimeoutExceptions \/ spec[c].idempotent

\* _retry_on_transport_error
SafeToRepeat(c, exc) == exc \in ConnectErrors \/ spec[c].idempotent

RetriesError(c, exc) ==
  ~Final(c) /\ (spec[c].mode = "stream" \/ SafeToRepeat(c, exc))

RetriesStatus(c, s) ==
  /\ s \in RetryableStatus
  /\ ~Final(c)
  /\ spec[c].mode = "stream" \/ spec[c].idempotent \/ IsRateLimitRefusal(s)

\* The SDK error that wraps the exception.
ErrorFor(exc) == IF exc \in ConnectErrors THEN "unreached" ELSE "lost"

ErrorCounters(c, exc) ==
  {"transport_errors"}
    \cup When(spec[c].mode = "send" /\ exc \in TimeoutExceptions, {"http_timeouts"})
    \cup When(RetriesError(c, exc), {"http_retries"})

\* Mutant of SendCounters: a transient status that is retried has no cause.
SendCountersFinalOnly(c, s) ==
  {"responses"}
    \cup When(s \in TooManyRequests, {"http_429"})
    \cup When(s = "rejected", {"http_rejected"})
    \cup (IF RetriesStatus(c, s) THEN {"http_retries"}
          ELSE When(s # "ok", {"http_errors"}) \cup When(s \in RetryableStatus, {"http_transient"}))

SendCounters(c, s) ==
  {"responses"}
    \cup When(s \in TooManyRequests, {"http_429"})
    \cup When(s \in RetryableStatus, {"http_transient"})
    \cup When(s = "rejected", {"http_rejected"})
    \cup (IF RetriesStatus(c, s) THEN {"http_retries"}
          ELSE When(s # "ok", {"http_errors"}))

StreamCounters(c, s) ==
  IF RetriesStatus(c, s)
  THEN {"http_retries"} \cup When(s \in TooManyRequests, {"http_429"})
  ELSE When(s # "ok", {"http_errors"})

-----------------------------------------------------------------------------
Init ==
  /\ spec = [c \in Calls |-> NoSpec]
  /\ pc = [c \in Calls |-> "idle"]
  /\ attempt = [c \in Calls |-> 0]
  /\ outcome = [c \in Calls |-> "none"]
  /\ wire = [c \in Calls |-> {}]
  /\ ran = [c \in Calls |-> {}]
  /\ counters = [n \in CounterNames |-> 0]

Goto(c, place) == pc' = [pc EXCEPT ![c] = place]

Finish(c, result) ==
  /\ Goto(c, "done")
  /\ outcome' = [outcome EXCEPT ![c] = result]

Begin(c) ==
  /\ pc[c] = "idle"
  /\ \E sp \in Specs : spec' = [spec EXCEPT ![c] = sp]
  /\ Goto(c, "pacing")
  /\ UNCHANGED <<attempt, outcome, net, counters>>

\* The loop's next turn: the throttle lets it through, the request is built,
\* counted and handed to httpx.
Dispatch(c) ==
  /\ pc[c] = "pacing"
  /\ attempt[c] < MaxAttempts
  /\ attempt' = [attempt EXCEPT ![c] = @ + 1]
  /\ Count({"http_attempts"})
  /\ Goto(c, "awaiting")
  /\ UNCHANGED <<spec, outcome, net>>

\* httpx raised.  After a failure later than connecting the request may be at
\* the server, or still on its way there.
Fail(c, exc) ==
  /\ pc[c] = "awaiting"
  /\ IF exc \in BeforeSending
     THEN /\ attempt[c] \notin wire[c] \cup ran[c]
          /\ UNCHANGED wire
     ELSE \/ UNCHANGED wire
          \/ /\ attempt[c] \notin ran[c]
             /\ wire' = [wire EXCEPT ![c] = @ \cup {attempt[c]}]
  /\ Count(ErrorCounters(c, exc))
  /\ IF RetriesError(c, exc)
     THEN Goto(c, "backoff") /\ UNCHANGED outcome
     ELSE Finish(c, ErrorFor(exc))
  /\ UNCHANGED <<spec, attempt, ran>>

\* Which statuses the server can answer the awaited attempt with, and what the
\* answer says of its effect: the rate limiter and a refusing handler drop the
\* request unhandled; a gateway's 5xx says nothing of the request behind it.
Answered(c, s) ==
  /\ pc[c] = "awaiting"
  /\ CASE s = "ok" -> attempt[c] \in ran[c] /\ UNCHANGED wire
       [] s = "transient" -> UNCHANGED wire
       [] OTHER -> /\ attempt[c] \in wire[c]
                   /\ wire' = [wire EXCEPT ![c] = @ \ {attempt[c]}]
  /\ UNCHANGED <<spec, attempt, ran>>

\* A response retried, raised or returned by send().
SendAnswer(c, s) ==
  /\ spec[c].mode = "send"
  /\ Answered(c, s)
  /\ Count(SendCounters(c, s))
  /\ IF RetriesStatus(c, s)
     THEN Goto(c, "backoff") /\ UNCHANGED outcome
     ELSE Finish(c, s)

\* Mutant of StreamAnswer: a status that is not retried is not looked at.
StreamAnswerUnchecked(c, s) ==
  /\ spec[c].mode = "stream"
  /\ Answered(c, s)
  /\ Count(StreamCounters(c, s))
  /\ Goto(c, IF RetriesStatus(c, s) THEN "backoff" ELSE "body")
  /\ UNCHANGED outcome

\* The head of a response retried, raised or yielded by stream().
StreamAnswer(c, s) ==
  /\ spec[c].mode = "stream"
  /\ Answered(c, s)
  /\ Count(StreamCounters(c, s))
  /\ CASE RetriesStatus(c, s) -> Goto(c, "backoff") /\ UNCHANGED outcome
       [] s = "ok" -> Goto(c, "body") /\ UNCHANGED outcome
       [] OTHER -> Finish(c, s)

\* The sleep before a retry ends and the loop turns.
Resume(c) ==
  /\ pc[c] = "backoff"
  /\ Goto(c, "pacing")
  /\ UNCHANGED <<spec, attempt, outcome, net, counters>>

\* A streamed body reaches its end, or breaks and is surfaced as it is.
BodyEnds(c) ==
  /\ pc[c] = "body"
  /\ \E result \in {"ok", "broken"} : Finish(c, result)
  /\ UNCHANGED <<spec, attempt, net, counters>>

\* The server (external): a request arrives, and its handler runs, at a time
\* of the server's choosing.
Arrive(c) ==
  /\ pc[c] = "awaiting"
  /\ attempt[c] \notin wire[c] \cup ran[c]
  /\ wire' = [wire EXCEPT ![c] = @ \cup {attempt[c]}]
  /\ UNCHANGED <<spec, pc, attempt, outcome, ran, counters>>

Handle(c) ==
  /\ \E a \in wire[c] :
       /\ wire' = [wire EXCEPT ![c] = @ \ {a}]
       /\ ran' = [ran EXCEPT ![c] = @ \cup {a}]
  /\ UNCHANGED <<spec, pc, attempt, outcome, counters>>

Finished ==
  /\ \A c \in Calls : pc[c] = "done"
  /\ UNCHANGED vars

\* httpx's timeouts end every wait for an answer.
Settle(c) ==
  \/ \E exc \in TransportErrors : Fail(c, exc)
  \/ \E s \in Statuses : SendAnswer(c, s) \/ StreamAnswer(c, s)

Next ==
  \/ \E c \in Calls :
       \/ Begin(c) \/ Dispatch(c) \/ Settle(c) \/ Resume(c) \/ BodyEnds(c)
       \/ Arrive(c) \/ Handle(c)
  \/ Finished

Spec == Init /\ [][Next]_vars

Fairness ==
  \A c \in Calls : WF_vars(Dispatch(c)) /\ WF_vars(Settle(c)) /\ WF_vars(Resume(c))

FairSpec == Spec /\ Fairness

-----------------------------------------------------------------------------
(* Properties. *)

\* Every variable holds a value of its type.
TypeOK ==
  /\ spec \in [Calls -> Specs \cup {NoSpec}]
  /\ pc \in [Calls -> Places]
  /\ attempt \in [Calls -> 0 .. MaxAttempts]
  /\ outcome \in [Calls -> Outcomes \cup {"none"}]
  /\ wire \in [Calls -> SUBSET (1 .. MaxAttempts)]
  /\ ran \in [Calls -> SUBSET (1 .. MaxAttempts)]
  /\ counters \in [CounterNames -> Nat]

Unrepeatable(c) == spec[c].mode = "send" /\ ~spec[c].idempotent

\* The handler of a request that is not safe to repeat has run, or may still
\* run, for one attempt at most, whatever was lost or delayed on the way
\* (docs/errors.md, "What is retried").
AtMostOnce ==
  \A c \in Calls : Unrepeatable(c) =>
    \A a, b \in wire[c] \cup ran[c] : a = b

\* When such a call ends refused by the server or without a connection, its
\* handler has not run and no attempt of it is left that could: the caller may
\* simply make the call again.
RefusalIsFinal ==
  \A c \in Calls :
    Unrepeatable(c) /\ outcome[c] \in {"limited", "busy", "rejected", "unreached"}
      => wire[c] = {} /\ ran[c] = {}

\* send() surfaces a failure it could have retried only when its attempts are
\* used up or repeating might do the work twice.
NoEarlySurrender ==
  \A c \in Calls :
    outcome[c] \in {"lost", "unreached", "transient", "limited", "busy"}
      => \/ attempt[c] = MaxAttempts
         \/ ~spec[c].idempotent /\ outcome[c] \in {"lost", "transient", "busy"}

\* The loop never runs out of turns with nothing returned or raised, which the
\* comment after send()'s loop calls impossible.
LoopNeverExhausted ==
  \A c \in Calls : pc[c] \in {"pacing", "backoff"} => attempt[c] < MaxAttempts

CallsAt(S) == Cardinality({c \in Calls : pc[c] \in S})
CallsWith(S) == Cardinality({c \in Calls : outcome[c] \in S})

\* Every attempt of send() is counted once under one cause: it failed in
\* transit, was transient, rejected or successful, or is still awaited; and
\* the retries are the attempts beyond the first of each call, plus those
\* about to be made (CounterSnapshot).  Streams are counted otherwise.
CountersBalance ==
  LET begun == Cardinality({c \in Calls : attempt[c] > 0})
      again == Cardinality({c \in Calls : attempt[c] > 0 /\ pc[c] \in {"pacing", "backoff"}})
      ok    == CallsWith({"ok"})
  IN (\A c \in Calls : spec[c].mode # "stream") =>
     /\ counters["http_attempts"]
          = counters["transport_errors"] + counters["responses"] + CallsAt({"awaiting"})
     /\ counters["responses"] = counters["http_transient"] + counters["http_rejected"] + ok
     /\ counters["http_attempts"] + again = begun + counters["http_retries"]
     /\ counters["http_errors"] = CallsWith({"limited", "busy", "transient", "rejected"})
     /\ counters["http_429"] <= counters["http_transient"]
     /\ counters["http_timeouts"] <= counters["transport_errors"]

\* A call, once made, is answered or fails (a stream is answered once its body
\* is open): the attempts are bounded and each of them ends.
CallSettles == \A c \in Calls : pc[c] = "pacing" ~> pc[c] \in {"body", "done"}

\* The documented rule for every request, streamed or not: one that may not be
\* repeated is sent again only when the server never handled it.
RepeatedOnlyIfUnseen ==
  \A c \in Calls : ~spec[c].idempotent => \A a, b \in wire[c] \cup ran[c] : a = b

-----------------------------------------------------------------------------
(* The abstract specification a call implements. *)

PhaseOf(c) ==
  CASE pc[c] = "idle" -> "idle" [] pc[c] = "done" -> "ended" [] OTHER -> "running"

VerdictOf(c) ==
  CASE outcome[c] = "none" -> "none"
    [] outcome[c] = "ok" -> "success"
    [] outcome[c] \in {"limited", "busy", "rejected", "unreached"} -> "refused"
    [] OTHER -> "unknown"

Contract ==
  INSTANCE CallContract WITH
    Occurrences <- 1 .. MaxAttempts,
    phase <- [c \in Calls |-> PhaseOf(c)],
    repeatable <- [c \in Calls |-> spec[c].mode = "stream" \/ spec[c].idempotent],
    effects <- ran,
    verdict <- [c \in Calls |-> VerdictOf(c)]

\* Every behaviour keeps the promise of CallContract: at most one effect for a
\* send() that may not be repeated, an effect behind every success, none behind
\* a refusal.
KeepsContract == Contract!Spec
=============================================================================
