----------------------------- MODULE RateLimiter -----------------------------
(***************************************************************************)
(* Client-side pacing: AsyncRateLimiter.acquire (_async/throttle.py) and    *)
(* its generated twin for threads (_sync/throttle.py), which differ in what *)
(* the scheduler may do.  Coroutines queue for an asyncio.Lock in order,    *)
(* run undisturbed between awaits and may be cancelled at one; threads race *)
(* for a threading.Lock, may be preempted anywhere and are not cancelled.   *)
(*                                                                         *)
(* Time is counted in ticks; _interval is Interval of them.                 *)
(***************************************************************************)
EXTENDS Naturals, Sequences

CONSTANTS
  Tasks,      \* the coroutines or threads sharing the limiter
  Interval,   \* _interval: 60 / requests_per_minute
  Horizon,    \* bound: no acquire() starts at or after this time
  Slack       \* bound: how late a sleeper may wake

ASSUME LimiterAssumption ==
  /\ Interval \in Nat \ {0}
  /\ Horizon \in Nat
  /\ Slack \in Nat

VARIABLES
  threads,      \* TRUE in the threading twin, FALSE in the asyncio one
  now,          \* time.monotonic()
  at,           \* at[t]: where t is in acquire()
  queue,        \* the tasks waiting for _lock, in order of arrival
  seen,         \* seen[t]: the local variable now of t
  wakeAt,       \* wakeAt[t]: when the sleep of t ends
  nextAllowed,  \* _next_allowed
  admissions    \* history: the clock readings that acquisitions were timed by

limiter == <<threads, now, at, queue, seen, wakeAt, nextAllowed, admissions>>

Holding == {"sleeping", "read"}

LockFree == \A t \in Tasks : at[t] \notin Holding

Goes(t, place) == at' = [at EXCEPT ![t] = place]

LimiterInit ==
  /\ threads \in BOOLEAN
  /\ now = 0
  /\ at = [t \in Tasks |-> "idle"]
  /\ queue = <<>>
  /\ seen = [t \in Tasks |-> 0]
  /\ wakeAt = [t \in Tasks |-> 0]
  /\ nextAllowed = 0
  /\ admissions = <<>>

\* acquire() is called and asks for the lock.
Enter(t) ==
  /\ at[t] = "idle"
  /\ now < Horizon
  /\ Goes(t, "waiting")
  /\ queue' = Append(queue, t)
  /\ UNCHANGED <<threads, now, seen, wakeAt, nextAllowed, admissions>>

\* The lock is obtained and the clock read: sleep out the interval, or go on.
\* asyncio.Lock serves its waiters in order, threading.Lock does not.
Take(t) ==
  /\ at[t] = "waiting"
  /\ LockFree
  /\ threads \/ Head(queue) = t
  /\ queue' = SelectSeq(queue, LAMBDA u : u # t)
  /\ seen' = [seen EXCEPT ![t] = now]
  /\ IF nextAllowed > now
     THEN Goes(t, "sleeping") /\ wakeAt' = [wakeAt EXCEPT ![t] = nextAllowed]
     ELSE Goes(t, "read") /\ UNCHANGED wakeAt
  /\ UNCHANGED <<threads, now, nextAllowed, admissions>>

\* Mutant of Wake: the clock is not read again.
WakeWithoutReading(t) ==
  /\ at[t] = "sleeping"
  /\ now >= wakeAt[t]
  /\ Goes(t, "read")
  /\ UNCHANGED <<threads, now, queue, seen, wakeAt, nextAllowed, admissions>>

\* The sleep ends, on time or late, and the clock is read again.
Wake(t) ==
  /\ at[t] = "sleeping"
  /\ now >= wakeAt[t]
  /\ seen' = [seen EXCEPT ![t] = now]
  /\ Goes(t, "read")
  /\ UNCHANGED <<threads, now, queue, wakeAt, nextAllowed, admissions>>

\* The next acquisition is put off, the lock released and acquire() returns.
Admit(t) ==
  /\ at[t] = "read"
  /\ nextAllowed' = seen[t] + Interval
  /\ admissions' = Append(admissions, seen[t])
  /\ Goes(t, "idle")
  /\ UNCHANGED <<threads, now, queue, seen, wakeAt>>

\* Mutant of Cancel: the place of the cancelled task in the queue is kept.
CancelStillQueued(t) ==
  /\ ~threads
  /\ at[t] \in {"waiting", "sleeping"}
  /\ Goes(t, "idle")
  /\ UNCHANGED <<threads, now, queue, seen, wakeAt, nextAllowed, admissions>>

\* A coroutine is cancelled while it waits for the lock or sleeps holding it;
\* leaving the "async with" block releases the lock.
Cancel(t) ==
  /\ ~threads
  /\ at[t] \in {"waiting", "sleeping"}
  /\ queue' = SelectSeq(queue, LAMBDA u : u # t)
  /\ Goes(t, "idle")
  /\ UNCHANGED <<threads, now, seen, wakeAt, nextAllowed, admissions>>

\* Time passes: at any moment for threads, only at an await for coroutines.
Tick ==
  /\ threads \/ \A t \in Tasks : at[t] # "read"
  /\ \/ now < Horizon
     \/ \E t \in Tasks : at[t] = "sleeping" /\ now < wakeAt[t] + Slack
  /\ now' = now + 1
  /\ UNCHANGED <<threads, at, queue, seen, wakeAt, nextAllowed, admissions>>

LimiterNext ==
  \/ Tick
  \/ \E t \in Tasks : Enter(t) \/ Take(t) \/ Wake(t) \/ Admit(t) \/ Cancel(t)

LimiterSpec == LimiterInit /\ [][LimiterNext]_limiter

\* The event loop, or the operating system, runs what is ready.
FairLimiterSpec ==
  /\ LimiterSpec
  /\ WF_limiter(Tick)
  /\ \A t \in Tasks : WF_limiter(Take(t)) /\ WF_limiter(Wake(t)) /\ WF_limiter(Admit(t))

-----------------------------------------------------------------------------
(* Properties. *)

\* Any two consecutive acquisitions are timed at least an interval apart,
\* however many tasks compete, oversleep, are preempted or are cancelled: an
\* idle client saves up no burst (the class's docstring).
Spacing ==
  \A i \in 1 .. Len(admissions) - 1 : admissions[i + 1] >= admissions[i] + Interval

\* The slot of a cancelled task is not lost: the limiter holds requests back
\* for the interval after the last one let through and for nothing else.
SlotsAreNotLost ==
  IF admissions = <<>>
  THEN nextAllowed = 0
  ELSE nextAllowed = admissions[Len(admissions)] + Interval

\* A coroutine that asks to be paced is let through (or cancelled), since every
\* holder of the lock sleeps for at most an interval and waiters are served in
\* order.  A threading.Lock promises a waiting thread no turn.
AcquireReturns ==
  \A t \in Tasks : ~threads /\ at[t] = "waiting" ~> at[t] = "idle"
=============================================================================
