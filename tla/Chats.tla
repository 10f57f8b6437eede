------------------------------- MODULE Chats -------------------------------
(***************************************************************************)
(* Conversations with Forward AI (ai.py): start(), ask(), ask_and_wait(),   *)
(* wait(), refresh() and rename(), called by several tasks that share       *)
(* conversation objects, while Forward answers one question per user at a   *)
(* time and refuses the others.                                             *)
(*                                                                         *)
(* start() is an ask() through a handle that no other call is using yet.    *)
(* Tasks may be threads: the reply to a request and the decision taken on   *)
(* it are steps of their own.                                               *)
(*                                                                         *)
(* Data abstracted: of a chat's messages, who asked the last one and        *)
(* whether it is answered; names, snapshots and texts are left out.  Time   *)
(* is what is left of each timeout and each sleep.  A request that failed   *)
(* was handled before it failed or never is.                                *)
(***************************************************************************)
EXTENDS Integers

CONSTANTS
  Tasks,          \* coroutines or threads
  Handles,        \* their conversation objects
  Chats,          \* the chats these are handles on
  Elsewhere,      \* another program of the same user, and its chat
  PollInterval,   \* poll_interval of wait()
  Timeouts,       \* the values of timeout
  Untimed,        \* whether timeout is also None
  BusyTimeouts,   \* the values of busy_timeout
  Pauses,         \* BUSY_POLL_INTERVAL, and what Retry-After may say instead
  Latency         \* bound: how long the request of a question takes

Initial == 1  \* INITIAL_POLL_INTERVAL

Never == -1   \* no deadline

Idle == "none of them"

ASSUME ChatsAssumption ==
  /\ PollInterval \in Nat \ {0}
  /\ Timeouts \subseteq Nat /\ BusyTimeouts \subseteq Nat
  /\ Untimed \in BOOLEAN
  /\ Pauses \subseteq Nat \ {0}
  /\ Latency \in Nat
  /\ Elsewhere \notin Tasks \cup Chats
  /\ Idle \notin Chats

VARIABLES
  on,         \* on[h]: the chat h is a handle on
  uses,       \* uses[t]: the handle t has
  answering,  \* Forward: the chat it is working on, or Idle
  last,       \* Forward: last[c]: who asked the last question of c
  seen,       \* seen[h]: the status in h._chat
  pc,         \* pc[t]: where t is in its call
  local,      \* local[t]: the variables of the call
  returned,   \* what the last step returned to its caller, if it ended a call
  stale,      \* history: a look at a chat older than its last question
  disturbed   \* history: calls whose handle or chat another task has changed

vars == <<on, uses, answering, last, seen, pc, local, returned, stale, disturbed>>
config == <<on, uses>>
forward == <<answering, last>>
history == <<stale, disturbed>>

-----------------------------------------------------------------------------
\* call is what was called; left is what is left to the deadline, negative after
\* it, and nap of the sleep (left and timeout are Never for a wait without one);
\* aloft how long a question has been on its way, and refused what was left when
\* Forward refused it; interval is the next sleep, look what a poll was answered;
\* asked counts the questions accepted.
NoLocal == [call |-> "none", timeout |-> 0, left |-> 0, nap |-> 0,
            aloft |-> 0, refused |-> 0, interval |-> Initial, look |-> "DONE", asked |-> 0]

\* How a call ended: whether the message it returns is its own question and is
\* answered; when it was refused last; how many questions of it were accepted.
Nothing == [end |-> "none", own |-> FALSE, answered |-> FALSE, refused |-> 0,
            asked |-> 0, disturbed |-> FALSE]

TimeoutArgs == Timeouts \cup (IF Untimed THEN {Never} ELSE {})

Lower(a, b) == IF a <= b THEN a ELSE b

ChatOf(t) == on[uses[t]]
Status(c) == IF answering = c THEN "PROCESSING" ELSE "DONE"

Init ==
  /\ on \in [Handles -> Chats]
  /\ uses \in [Tasks -> Handles]
  /\ answering = Idle
  /\ last = [c \in Chats \cup {Elsewhere} |-> Elsewhere]
  /\ seen = [h \in Handles |-> "DONE"]
  /\ pc = [t \in Tasks |-> "idle"]
  /\ local = [t \in Tasks |-> NoLocal]
  /\ returned = Nothing
  /\ stale = {}
  /\ disturbed = {}

Goto(t, place, carried) ==
  /\ pc' = [pc EXCEPT ![t] = place]
  /\ local' = [local EXCEPT ![t] = carried]

\* The call returns or raises; found is what it got.
Finish(t, found) ==
  /\ Goto(t, "idle", NoLocal)
  /\ returned' = [found EXCEPT !.asked = local[t].asked, !.disturbed = t \in disturbed]
  /\ disturbed' = disturbed \ {t}

-----------------------------------------------------------------------------
(* Asking: _send_when_not_busy. *)

\* start(), ask() and ask_and_wait(), then the wait for the answer.
Ask(t, timeout, busy) ==
  /\ pc[t] = "idle"
  /\ Goto(t, "asking", [NoLocal EXCEPT !.call = "ask", !.timeout = timeout, !.left = busy])
  /\ returned' = Nothing
  /\ UNCHANGED <<config, forward, seen, history>>

\* The looks at chat c that a question of t makes outdated, and the calls whose
\* question is no longer the last of c.
Outdated(t, c) == {u \in Tasks \ {t} : pc[u] = "looked" /\ ChatOf(u) = c}
Supplanted(t, c) == {u \in Tasks \ {t} : local[u].asked > 0 /\ ChatOf(u) = c}

Accept(t, c) ==
  /\ answering = Idle
  /\ answering' = c
  /\ last' = [last EXCEPT ![c] = t]
  /\ stale' = stale \cup Outdated(t, c)
  /\ disturbed' = disturbed \cup Supplanted(t, c)

\* Forward (external) accepts the question, or refuses it with a 429 when a
\* chat of this user is being answered.
Accepted(t) ==
  /\ pc[t] = "asking"
  /\ Accept(t, ChatOf(t))
  /\ Goto(t, "accepted", [local[t] EXCEPT !.asked = @ + 1, !.left = 0, !.aloft = 0])
  /\ returned' = Nothing
  /\ UNCHANGED <<config, seen>>

Refused(t) ==
  /\ pc[t] = "asking" /\ answering # Idle
  /\ Goto(t, "refused", [local[t] EXCEPT !.refused = local[t].left])
  /\ returned' = Nothing
  /\ UNCHANGED <<config, forward, seen, history>>

\* Mutant of Pause: the last sleep is not cut short at the deadline.
PauseInFull(t, retryAfter) == retryAfter

\* The sleep before the next try.
Pause(t, retryAfter) == Lower(retryAfter, local[t].left)

TryLater(t) ==
  /\ pc[t] = "refused" /\ local[t].left > 0
  /\ \E p \in Pauses : Goto(t, "queueing", [local[t] EXCEPT !.nap = Pause(t, p), !.aloft = 0])
  /\ returned' = Nothing
  /\ UNCHANGED <<config, forward, seen, history>>

TryAgain(t) ==
  /\ pc[t] = "queueing" /\ local[t].nap = 0
  /\ Goto(t, "asking", [local[t] EXCEPT !.refused = 0])
  /\ returned' = Nothing
  /\ UNCHANGED <<config, forward, seen, history>>

GiveUp(t) ==
  /\ pc[t] = "refused" /\ local[t].left <= 0
  /\ Finish(t, [Nothing EXCEPT !.end = "busy", !.refused = local[t].refused])
  /\ UNCHANGED <<config, forward, seen, stale>>

\* Mutant of Asked: ask() leaves the status of the handle alone.
AskedUnmarked(t) ==
  /\ pc[t] = "accepted"
  /\ Goto(t, "begun", [local[t] EXCEPT !.left = local[t].timeout, !.timeout = 0])
  /\ returned' = Nothing
  /\ UNCHANGED <<config, forward, seen, history>>

\* The acceptance arrives: ask() marks the chat as working, and wait() begins.
Asked(t) ==
  /\ pc[t] = "accepted"
  /\ seen' = [seen EXCEPT ![uses[t]] = "PROCESSING"]
  /\ Goto(t, "begun", [local[t] EXCEPT !.left = local[t].timeout, !.timeout = 0])
  /\ returned' = Nothing
  /\ UNCHANGED <<config, forward, history>>

-----------------------------------------------------------------------------
(* Waiting: wait(), refresh(), rename(), messages(). *)

\* wait() on its own.
Wait(t, timeout) ==
  /\ pc[t] = "idle"
  /\ Goto(t, "begun", [NoLocal EXCEPT !.call = "wait", !.left = timeout])
  /\ returned' = Nothing
  /\ UNCHANGED <<config, forward, seen, history>>

\* refresh() or rename() on its own: both replace the chat by the one served.
Look(t) ==
  /\ pc[t] = "idle"
  /\ Goto(t, "looking", [NoLocal EXCEPT !.call = "look"])
  /\ returned' = Nothing
  /\ UNCHANGED <<config, forward, seen, history>>

IsDone(t) == seen[uses[t]] = "DONE"

\* The last status seen decides whether wait() polls at all.
PollFirst(t) ==
  /\ pc[t] = "begun" /\ ~IsDone(t)
  /\ Goto(t, "looking", local[t])
  /\ returned' = Nothing
  /\ UNCHANGED <<config, forward, seen, history>>

\* Forward (external) serves the chat.
Serve(t) ==
  /\ pc[t] = "looking"
  /\ Goto(t, "looked", [local[t] EXCEPT !.look = Status(ChatOf(t))])
  /\ stale' = stale \ {t}
  /\ returned' = Nothing
  /\ UNCHANGED <<config, forward, seen, disturbed>>

\* Calls that have asked through the handle of t, and had the question accepted.
Awaiting(t) ==
  {u \in Tasks \ {t} : local[u].asked > 0 /\ uses[u] = uses[t] /\ pc[u] # "accepted"}

\* The chat arrives and is kept in the handle.
Store(t) ==
  /\ pc[t] = "looked"
  /\ seen' = [seen EXCEPT ![uses[t]] = local[t].look]
  /\ disturbed' = disturbed \cup (IF t \in stale THEN Awaiting(t) ELSE {})
  /\ IF local[t].call = "look" THEN Goto(t, "idle", NoLocal)
                             ELSE Goto(t, "told", [local[t] EXCEPT !.look = "DONE"])
  /\ stale' = stale \ {t}
  /\ returned' = Nothing
  /\ UNCHANGED <<config, forward>>

\* wait() returns, and ask_and_wait() goes on to read the messages.
Done(t) ==
  /\ pc[t] \in {"begun", "told"} /\ IsDone(t)
  /\ IF local[t].call = "ask"
       THEN /\ Goto(t, "reading", [local[t] EXCEPT !.interval = Initial, !.left = 0])
            /\ returned' = Nothing
            /\ UNCHANGED <<disturbed>>
       ELSE Finish(t, [Nothing EXCEPT !.end = "done"])
  /\ UNCHANGED <<config, forward, seen, stale>>

\* Mutant of Expired: a timeout is not looked at.
ExpiredNever(t) == FALSE

\* A wait without a deadline never expires.
Expired(t) == local[t].left # Never /\ local[t].left <= 0

TimeOut(t) ==
  /\ pc[t] = "told" /\ ~IsDone(t) /\ Expired(t)
  /\ Finish(t, [Nothing EXCEPT !.end = "timeout"])
  /\ UNCHANGED <<config, forward, seen, stale>>

\* Mutant of Doubled: the next sleep is not bounded by poll_interval.
DoubledFreely(interval) == 2 * interval

Doubled(interval) == Lower(PollInterval, 2 * interval)

Sleep(t) ==
  /\ pc[t] = "told" /\ ~IsDone(t) /\ ~Expired(t)
  /\ Goto(t, "napping", [local[t] EXCEPT !.nap = local[t].interval,
                                        !.interval = Doubled(local[t].interval)])
  /\ returned' = Nothing
  /\ UNCHANGED <<config, forward, seen, history>>

Wake(t) ==
  /\ pc[t] = "napping" /\ local[t].nap = 0
  /\ Goto(t, "looking", local[t])
  /\ returned' = Nothing
  /\ UNCHANGED <<config, forward, seen, history>>

\* The messages are served and arrive: the last one is returned.
Read(t) ==
  /\ pc[t] = "reading"
  /\ Finish(t, [Nothing EXCEPT !.end = "message", !.own = last[ChatOf(t)] = t,
                                !.answered = answering # ChatOf(t)])
  /\ UNCHANGED <<config, forward, seen, stale>>

-----------------------------------------------------------------------------
\* Mutant of Fail: a question whose answer was lost is asked again.
FailAskingAgain(t) ==
  /\ pc[t] = "accepted"
  /\ Goto(t, "asking", local[t])
  /\ returned' = Nothing
  /\ UNCHANGED <<config, forward, seen, history>>

\* A request fails, handled or not: the call raises.
Fail(t) ==
  /\ pc[t] \in {"asking", "accepted", "looking", "looked", "reading"}
  /\ Finish(t, [Nothing EXCEPT !.end = "error"])
  /\ stale' = stale \ {t}
  /\ UNCHANGED <<config, forward, seen>>

\* Forward (external) answers the question it is working on.
Answer ==
  /\ answering # Idle
  /\ answering' = Idle
  /\ returned' = Nothing
  /\ UNCHANGED <<config, last, seen, pc, local, history>>

\* Another program of the same user asks, in a chat of its own or in a shared one.
AskElsewhere(c) ==
  /\ Accept(Elsewhere, c)
  /\ returned' = Nothing
  /\ UNCHANGED <<config, seen, pc, local>>

\* Where a question is on its way.
InAsking == {"asking", "refused"}

\* What is left of a busy_timeout is counted past the deadline, of a timeout not.
Counting(t) ==
  \/ pc[t] \in {"asking", "refused", "queueing"} /\ local[t].left >= -Latency
  \/ pc[t] \in {"begun", "looking", "looked", "told", "napping"} /\ local[t].left > 0

Passed(t) ==
  [local[t] EXCEPT
     !.left = IF Counting(t) THEN @ - 1 ELSE @,
     !.nap = IF @ > 0 THEN @ - 1 ELSE 0,
     !.aloft = IF pc[t] \in InAsking THEN @ + 1 ELSE 0]

\* Time passes: a busy_timeout's sleep ends on time, and a refusal is on its way
\* for no longer than Latency.
Tick ==
  /\ \A t \in Tasks : pc[t] \in InAsking => local[t].aloft < Latency
  /\ \A t \in Tasks : pc[t] = "queueing" => local[t].nap > 0
  /\ local' = [t \in Tasks |-> Passed(t)]
  /\ returned' = Nothing
  /\ UNCHANGED <<config, forward, seen, pc, history>>

Proceed(t) ==
  \/ Accepted(t) \/ Refused(t) \/ TryLater(t) \/ TryAgain(t) \/ GiveUp(t) \/ Asked(t)
  \/ PollFirst(t) \/ Serve(t) \/ Store(t) \/ Done(t) \/ TimeOut(t) \/ Sleep(t) \/ Wake(t)
  \/ Read(t) \/ Fail(t)

Next ==
  \/ Answer \/ Tick
  \/ \E c \in Chats \cup {Elsewhere} : AskElsewhere(c)
  \/ \E t \in Tasks :
       \/ Look(t)
       \/ \E timeout \in TimeoutArgs : Wait(t, timeout) \/ \E busy \in BusyTimeouts : Ask(t, timeout, busy)
  \/ \E t \in Tasks :
       \/ Accepted(t) \/ Refused(t) \/ TryLater(t) \/ TryAgain(t) \/ GiveUp(t) \/ Asked(t)
       \/ PollFirst(t) \/ Serve(t) \/ Store(t) \/ Done(t) \/ TimeOut(t) \/ Sleep(t) \/ Wake(t)
       \/ Read(t) \/ Fail(t)

Spec == Init /\ [][Next]_vars

\* Every request is answered or fails, every sleep ends, and time passes.
\* Forward need not ever answer a question.
Fairness == WF_vars(Tick) /\ \A t \in Tasks : WF_vars(Proceed(t))
FairSpec == Spec /\ Fairness

\* Tasks are interchangeable, and so are handles on one chat: it is enough to
\* look at the runs in which some task has some handle.
CheckedInit == Init /\ uses[CHOOSE t \in Tasks : TRUE] = CHOOSE h \in Handles : TRUE
CheckedSpec == CheckedInit /\ [][Next]_vars /\ Fairness

-----------------------------------------------------------------------------
(* Properties. *)

\* Every variable holds a value of its type.
TypeOK ==
  /\ on \in [Handles -> Chats] /\ uses \in [Tasks -> Handles]
  /\ answering \in Chats \cup {Elsewhere, Idle}
  /\ last \in [Chats \cup {Elsewhere} -> Tasks \cup {Elsewhere}]
  /\ seen \in [Handles -> {"DONE", "PROCESSING"}]
  /\ pc \in [Tasks -> {"idle", "asking", "accepted", "refused", "queueing", "begun",
                       "looking", "looked", "told", "napping", "reading"}]
  /\ local \in [Tasks -> [call : {"none", "ask", "wait", "look"},
                          timeout : {0, Never} \cup Timeouts,
                          left : Int, nap : Nat, aloft : 0 .. Latency, refused : Int,
                          interval : 1 .. PollInterval, look : {"DONE", "PROCESSING"},
                          asked : Nat]]
  /\ returned \in [end : {"none", "busy", "done", "timeout", "message", "error"},
                   own : BOOLEAN, answered : BOOLEAN, refused : Int,
                   asked : Nat, disturbed : BOOLEAN]
  /\ stale \subseteq Tasks /\ disturbed \subseteq Tasks

\* "Ask a follow-up and return the answer" (ask_and_wait): the message returned
\* is the question this call asked, answered, whatever the handle showed before,
\* unless meanwhile another task asked in the same chat, or an answer older than
\* the question, to another task's poll, reached the same handle.
OwnAnswer ==
  returned.end = "message" /\ ~returned.disturbed => returned.own /\ returned.answered

\* "Repeating it cannot leave a second one behind" (_send_when_not_busy): a call
\* leaves at most one question, none when it was refused, one when it returns.
AskedOnce ==
  /\ returned.asked <= 1
  /\ returned.end = "busy" => returned.asked = 0
  /\ returned.end = "message" => returned.asked = 1

\* busy_timeout is waited for in full and not longer: a call that gives up was
\* refused, last, within the time of a request before or after the deadline.
BusyToTheDeadline == returned.end = "busy" => returned.refused \in -Latency .. Latency

\* A call whose wait, begun or still to come, has no deadline.
Endless(t) ==
  IF pc[t] \in {"asking", "refused", "queueing", "accepted"}
  THEN local[t].timeout = Never
  ELSE local[t].left = Never

\* A call with a timeout ends, although Forward may never answer and others may
\* ask first; one without lasts only if Forward is at work on its chat, for ever
\* or again and again.
CallsEnd ==
  \A t \in Tasks :
    pc[t] # "idle" ~> pc[t] = "idle" \/ (Endless(t) /\ answering = ChatOf(t))
=============================================================================
