----------------------------- MODULE ChatsProofs -----------------------------
(***************************************************************************)
(* Theorems about Chats, for any number of tasks, handles and chats, every  *)
(* timeout, pause and latency: a question is asked once, is refused for as  *)
(* long as busy_timeout says, and the answer returned is its own.           *)
(***************************************************************************)
EXTENDS Chats, TLAPS

Places == {"idle", "asking", "accepted", "refused", "queueing", "begun",
           "looking", "looked", "told", "napping", "reading"}
Carried == [call : {"none", "ask", "wait", "look"},
            timeout : {0, Never} \cup Timeouts,
            left : Int, nap : Nat, aloft : 0 .. Latency, refused : Int,
            interval : 1 .. PollInterval, look : {"DONE", "PROCESSING"},
            asked : Nat]
Ends == [end : {"none", "busy", "done", "timeout", "message", "error"},
         own : BOOLEAN, answered : BOOLEAN, refused : Int,
         asked : Nat, disturbed : BOOLEAN]

Sending == {"asking", "refused", "queueing"}
Waiting == {"begun", "looking", "looked", "told", "napping"}

\* What a call carries at each place: whether its question was accepted, and how
\* what is left of its busy_timeout relates to the sleep and to the request.
CallSound(place, l) ==
  /\ place \in Places /\ l \in Carried
  /\ place = "idle" => l.asked = 0
  /\ place \in Sending => l.call = "ask" /\ l.asked = 0
  /\ place \in {"accepted", "reading"} => l.call = "ask" /\ l.asked = 1
  /\ place \in Waiting => l.asked = (IF l.call = "ask" THEN 1 ELSE 0)
  /\ place = "asking" => l.left + l.aloft >= 0
  /\ place = "refused" => l.refused >= -Latency /\ l.refused <= l.left + l.aloft
  /\ place = "queueing" => l.nap <= l.left

\* What may be said of a call that ended.
EndSound(r) ==
  /\ r \in Ends
  /\ r.asked <= 1
  /\ r.end = "busy" => r.asked = 0 /\ r.refused \in -Latency .. Latency
  /\ r.end = "message" => r.asked = 1

Shared ==
  /\ on \in [Handles -> Chats] /\ uses \in [Tasks -> Handles]
  /\ answering \in Chats \cup {Elsewhere, Idle}
  /\ last \in [Chats \cup {Elsewhere} -> Tasks \cup {Elsewhere}]
  /\ seen \in [Handles -> {"DONE", "PROCESSING"}]
  /\ stale \subseteq Tasks /\ disturbed \subseteq Tasks

Calls ==
  /\ pc \in [Tasks -> Places] /\ local \in [Tasks -> Carried]
  /\ \A t \in Tasks : CallSound(pc[t], local[t])

CallInv == Shared /\ Calls /\ EndSound(returned)

\* A look is stale only until it is stored, and never that of an undisturbed
\* call for its own question.
StaleLooks ==
  \A t \in stale : pc[t] = "looked" /\ (local[t].asked > 0 => t \in disturbed)

\* The question of t is the last of its chat, and nothing that could end the
\* wait of t says that it is answered before it is: not the handle, not a look
\* on its way to it.
Awaited(t) ==
  /\ last[ChatOf(t)] = t
  /\ pc[t] = "reading" => answering # ChatOf(t)
  /\ pc[t] # "accepted" /\ seen[uses[t]] = "DONE" => answering # ChatOf(t)
  /\ \A u \in Tasks \ stale :
       pc[u] = "looked" /\ uses[u] = uses[t] /\ local[u].look = "DONE" => answering # ChatOf(t)

Owned == \A t \in Tasks \ disturbed : local[t].asked > 0 => Awaited(t)

OwnInv == StaleLooks /\ Owned

-----------------------------------------------------------------------------
(* The calls. *)

LEMMA NothingSound == EndSound(Nothing) /\ CallSound("idle", NoLocal)
  BY ChatsAssumption
     DEF EndSound, Ends, Nothing, CallSound, Places, Carried, NoLocal, Initial, Sending, Waiting

\* What a call that ended found.
LEMMA NothingFound == Nothing \in Ends
  BY DEF Nothing, Ends

LEMMA EndFound ==
  ASSUME NEW r \in Ends, NEW end \in {"none", "busy", "done", "timeout", "message", "error"},
         NEW m, m = [r EXCEPT !.end = end]
  PROVE  m \in Ends /\ m.end = end
  BY DEF Ends

LEMMA CallFields ==
  ASSUME CallInv, NEW t \in Tasks
  PROVE  /\ local[t] \in Carried /\ CallSound(pc[t], local[t]) /\ local[t].asked \in {0, 1}
         /\ local[t].left \in Int /\ local[t].nap \in Nat /\ local[t].aloft \in 0 .. Latency
         /\ local[t].refused \in Int /\ local[t].interval \in 1 .. PollInterval
<1>1. local[t] \in Carried /\ CallSound(pc[t], local[t])
  BY DEF CallInv, Calls
<1>2. local[t].asked \in {0, 1}
  BY <1>1 DEF CallSound, Places, Sending, Waiting
<1> QED
  BY <1>1, <1>2 DEF Carried

LEMMA Going ==
  ASSUME CallInv, NEW t \in Tasks, NEW place, NEW carried, Goto(t, place, carried)
  PROVE  /\ pc'[t] = place /\ local'[t] = carried
         /\ \A u \in Tasks \ {t} : pc'[u] = pc[u] /\ local'[u] = local[u]
  BY DEF CallInv, Calls, Goto

LEMMA CallStep ==
  ASSUME CallInv, NEW t \in Tasks, NEW place, NEW carried,
         Goto(t, place, carried), CallSound(place, carried)
  PROVE  Calls'
<1>1. pc' \in [Tasks -> Places] /\ local' \in [Tasks -> Carried]
  BY DEF CallInv, Calls, Goto, CallSound
<1>2. \A u \in Tasks : CallSound(pc'[u], local'[u])
  BY Going DEF CallInv, Calls
<1> QED
  BY <1>1, <1>2 DEF Calls

LEMMA Ending ==
  ASSUME CallInv, NEW t \in Tasks, NEW found \in Ends, Finish(t, found),
         found.end = "busy" => local[t].asked = 0 /\ found.refused \in -Latency .. Latency,
         found.end = "message" => local[t].asked = 1
  PROVE  Calls' /\ EndSound(returned')
<1>1. Calls'
  BY NothingSound, CallStep DEF Finish
<1>2. local[t].asked \in {0, 1} /\ (t \in disturbed) \in BOOLEAN
  BY CallFields
<1>3. returned' = [found EXCEPT !.asked = local[t].asked, !.disturbed = t \in disturbed]
  BY DEF Finish
<1>4. /\ returned'.end = found.end /\ returned'.refused = found.refused
      /\ returned'.asked = local[t].asked
  BY <1>3 DEF Ends
<1>5. returned' \in Ends
  <2>1. returned' = [end |-> found.end, own |-> found.own, answered |-> found.answered,
                     refused |-> found.refused, asked |-> local[t].asked,
                     disturbed |-> t \in disturbed]
    BY <1>3 DEF Ends
  <2>2. /\ found.end \in {"none", "busy", "done", "timeout", "message", "error"}
        /\ found.own \in BOOLEAN /\ found.answered \in BOOLEAN /\ found.refused \in Int
    BY DEF Ends
  <2>3. local[t].asked \in Nat
    BY <1>2
  <2> QED
    BY <1>2, <2>1, <2>2, <2>3, Zenon DEF Ends
<1> QED
  BY <1>1, <1>2, <1>4, <1>5 DEF EndSound

LEMMA SharedNext == CallInv /\ [Next]_vars => Shared'
<1> SUFFICES ASSUME CallInv, [Next]_vars PROVE Shared'
  OBVIOUS
<1>0. Shared /\ \A t \in Tasks : ChatOf(t) \in Chats
  BY DEF CallInv, Shared, ChatOf
<1>1. ASSUME NEW t \in Tasks,
             \/ Look(t) \/ Refused(t) \/ TryLater(t) \/ TryAgain(t) \/ PollFirst(t)
             \/ Sleep(t) \/ Wake(t)
             \/ \E timeout \in TimeoutArgs :
                  Wait(t, timeout) \/ \E busy \in BusyTimeouts : Ask(t, timeout, busy)
      PROVE  Shared'
  BY <1>0, <1>1 DEF Look, Refused, TryLater, TryAgain, PollFirst, Sleep, Wake, Wait, Ask, Shared,
                    config, forward, history
<1>2. ASSUME NEW t \in Tasks,
             GiveUp(t) \/ TimeOut(t) \/ Read(t) \/ Fail(t) \/ Done(t) \/ Serve(t)
      PROVE  Shared'
  <2>1. /\ UNCHANGED <<config, forward, seen>>
        /\ stale' = stale \/ stale' = stale \ {t}
        /\ disturbed' = disturbed \/ disturbed' = disturbed \ {t}
    BY <1>2 DEF GiveUp, TimeOut, Read, Fail, Done, Serve, Finish
  <2> QED
    BY <1>0, <2>1 DEF Shared, config, forward
<1>3. ASSUME NEW t \in Tasks \cup {Elsewhere}, NEW c \in Chats \cup {Elsewhere},
             Accept(t, c), UNCHANGED <<config, seen>>
      PROVE  Shared'
  BY <1>0, <1>3 DEF Accept, Outdated, Supplanted, Shared, config
<1>4. ASSUME NEW t \in Tasks, Accepted(t) PROVE Shared'
  BY <1>0, <1>3, <1>4 DEF Accepted
<1>5. ASSUME NEW c \in Chats \cup {Elsewhere}, AskElsewhere(c) PROVE Shared'
  BY <1>3, <1>5 DEF AskElsewhere
<1>6. ASSUME NEW t \in Tasks, Asked(t) PROVE Shared'
  BY <1>0, <1>6 DEF Asked, Shared, config, forward, history
<1>7. ASSUME NEW t \in Tasks, Store(t) PROVE Shared'
  <2>1. local[t].look \in {"DONE", "PROCESSING"} /\ Awaiting(t) \subseteq Tasks
    BY CallFields DEF Carried, Awaiting
  <2> QED
    BY <1>0, <1>7, <2>1 DEF Store, Shared, config, forward
<1>8. CASE Answer \/ Tick \/ UNCHANGED vars
  BY <1>0, <1>8 DEF Answer, Tick, vars, Shared, config, forward, history
<1> QED
  BY <1>1, <1>2, <1>4, <1>5, <1>6, <1>7, <1>8 DEF Next

LEMMA CallsTick == ASSUME CallInv, Tick PROVE Calls'
<1> USE ChatsAssumption
<1>1. ASSUME NEW t \in Tasks PROVE CallSound(pc[t], Passed(t))
  <2> DEFINE l == local[t]
  <2> DEFINE left == IF Counting(t) THEN l.left - 1 ELSE l.left
  <2> DEFINE nap == IF l.nap > 0 THEN l.nap - 1 ELSE 0
  <2> DEFINE aloft == IF pc[t] \in InAsking THEN l.aloft + 1 ELSE 0
  <2>1. /\ l \in Carried /\ CallSound(pc[t], l)
        /\ l.left \in Int /\ l.nap \in Nat /\ l.aloft \in 0 .. Latency /\ l.refused \in Int
    BY CallFields
  <2>2. /\ pc[t] \in InAsking => l.aloft < Latency
        /\ pc[t] = "queueing" => l.nap > 0
    BY DEF Tick
  <2>3. left \in Int /\ nap \in Nat /\ aloft \in 0 .. Latency /\ left >= l.left - 1
    BY <2>1, <2>2
  <2>4. Passed(t) = [l EXCEPT !.left = left, !.nap = nap, !.aloft = aloft]
    BY DEF Passed
  <2>5. pc[t] \in InAsking => aloft = l.aloft + 1
    OBVIOUS
  <2>6. pc[t] = "queueing" => nap = l.nap - 1
    BY <2>2
  <2> HIDE DEF left, nap, aloft
  <2>7. /\ Passed(t) \in Carried
        /\ Passed(t).left = left /\ Passed(t).nap = nap /\ Passed(t).aloft = aloft
        /\ Passed(t).refused = l.refused /\ Passed(t).asked = l.asked /\ Passed(t).call = l.call
    BY <2>1, <2>3, <2>4 DEF Carried
  <2>8. /\ pc[t] \in Places
        /\ pc[t] = "asking" => l.left + l.aloft >= 0
        /\ pc[t] = "refused" => l.refused >= -Latency /\ l.refused <= l.left + l.aloft
        /\ pc[t] = "queueing" => l.nap <= l.left
    BY <2>1 DEF CallSound
  <2>9. /\ pc[t] = "asking" => left + aloft >= 0
        /\ pc[t] = "refused" => l.refused >= -Latency /\ l.refused <= left + aloft
        /\ pc[t] = "queueing" => nap <= left
    BY <2>1, <2>3, <2>5, <2>6, <2>8 DEF InAsking
  <2> QED
    BY <2>1, <2>7, <2>9 DEF CallSound
<1>2. pc' = pc /\ local' = [t \in Tasks |-> Passed(t)]
  BY DEF Tick
<1>3. local' \in [Tasks -> Carried]
  BY <1>1, <1>2 DEF CallSound
<1>4. \A t \in Tasks : CallSound(pc'[t], local'[t])
  BY <1>1, <1>2
<1> QED
  BY <1>2, <1>3, <1>4 DEF Calls, CallInv

LEMMA TimeoutIsTime ==
  /\ TimeoutArgs \subseteq {0, Never} \cup Timeouts
  /\ {0, Never} \cup Timeouts \subseteq Int
  BY ChatsAssumption DEF TimeoutArgs, Never

\* The steps of a call that is asking.
LEMMA CallsAsk ==
  ASSUME CallInv, NEW t \in Tasks, NEW timeout \in TimeoutArgs, NEW busy \in BusyTimeouts,
         Ask(t, timeout, busy)
  PROVE  Calls'
<1>1. PICK l, call, carried :
        /\ l = NoLocal /\ call = "ask"
        /\ carried = [l EXCEPT !.call = call, !.timeout = timeout, !.left = busy]
        /\ Goto(t, "asking", carried)
  BY DEF Ask
<1>2. busy \in Int /\ busy >= 0
  BY ChatsAssumption
<1>3. l \in Carried /\ l.aloft = 0 /\ l.asked = 0
  BY <1>1, NothingSound DEF CallSound, NoLocal
<1>4. /\ l \in Carried /\ call \in {"none", "ask", "wait", "look"}
      /\ timeout \in {0, Never} \cup Timeouts /\ busy \in Int
  BY <1>1, <1>2, <1>3, TimeoutIsTime
<1>5. carried = [l EXCEPT !.call = call, !.timeout = timeout, !.left = busy]
  BY <1>1
<1>6. /\ carried \in Carried /\ carried.call = call /\ carried.left = busy
      /\ carried.aloft = l.aloft /\ carried.asked = l.asked
  BY <1>4, <1>5 DEF Carried
<1>7. carried.left + carried.aloft >= 0
  BY <1>2, <1>3, <1>6
<1>8. CallSound("asking", carried)
  BY <1>1, <1>3, <1>6, <1>7 DEF CallSound, Places, Sending, Waiting
<1> QED
  BY <1>1, <1>8, CallStep

LEMMA CallsAccepted ==
  ASSUME CallInv, NEW t \in Tasks, Accepted(t)
  PROVE  Calls'
<1>1. PICK asked, zero, carried :
        /\ asked = local[t].asked + 1 /\ zero = 0
        /\ carried = [local[t] EXCEPT !.asked = asked, !.left = zero, !.aloft = zero]
        /\ Goto(t, "accepted", carried)
  BY DEF Accepted
<1>2. local[t] \in Carried /\ local[t].asked = 0 /\ local[t].call = "ask"
  BY CallFields DEF Accepted, CallSound, Sending
<1>3. asked = 1
  BY <1>1, <1>2
<1>4. local[t] \in Carried /\ asked \in Nat /\ zero \in Int /\ zero \in 0 .. Latency
  BY <1>1, <1>2, <1>3, ChatsAssumption
<1>5. carried = [local[t] EXCEPT !.asked = asked, !.left = zero, !.aloft = zero]
  BY <1>1
<1>6. carried \in Carried /\ carried.asked = asked /\ carried.call = local[t].call
  BY <1>4, <1>5 DEF Carried
<1>7. CallSound("accepted", carried)
  BY <1>2, <1>3, <1>6 DEF CallSound, Places, Sending, Waiting
<1> QED
  BY <1>1, <1>7, CallStep

LEMMA CallsRefused ==
  ASSUME CallInv, NEW t \in Tasks, Refused(t)
  PROVE  Calls'
<1> DEFINE carried == [local[t] EXCEPT !.refused = local[t].left]
<1>1. /\ local[t] \in Carried /\ local[t].asked = 0 /\ local[t].call = "ask"
      /\ local[t].left + local[t].aloft >= 0
      /\ local[t].left \in Int /\ local[t].aloft \in 0 .. Latency
  BY CallFields DEF Refused, CallSound, Sending
<1>2. /\ carried \in Carried /\ carried.asked = 0 /\ carried.call = "ask"
      /\ carried.refused = local[t].left
      /\ carried.left = local[t].left /\ carried.aloft = local[t].aloft
  BY <1>1 DEF Carried
<1>3. carried.refused >= -Latency /\ carried.refused <= carried.left + carried.aloft
  BY <1>1, <1>2, ChatsAssumption
<1> HIDE DEF carried
<1>4. CallSound("refused", carried)
  BY <1>2, <1>3 DEF CallSound, Places, Sending, Waiting
<1> QED
  BY <1>4, CallStep DEF Refused, carried

LEMMA CallsTryLater ==
  ASSUME CallInv, NEW t \in Tasks, TryLater(t)
  PROVE  Calls'
<1>1. PICK p, nap, aloft, carried :
        /\ p \in Pauses
        /\ nap = Pause(t, p) /\ aloft = 0
        /\ carried = [local[t] EXCEPT !.nap = nap, !.aloft = aloft]
        /\ Goto(t, "queueing", carried)
  BY DEF TryLater
<1>2. /\ local[t] \in Carried /\ local[t].asked = 0 /\ local[t].call = "ask"
      /\ local[t].left \in Int /\ local[t].left > 0
  BY CallFields DEF TryLater, CallSound, Sending
<1>3. nap \in Nat /\ nap <= local[t].left /\ aloft \in 0 .. Latency
  BY <1>1, <1>2, ChatsAssumption DEF Pause, Lower
<1>4. local[t] \in Carried /\ nap \in Nat /\ aloft \in 0 .. Latency
  BY <1>2, <1>3
<1>5. carried = [local[t] EXCEPT !.nap = nap, !.aloft = aloft]
  BY <1>1
<1>6. /\ carried \in Carried /\ carried.asked = local[t].asked /\ carried.call = local[t].call
      /\ carried.nap = nap /\ carried.left = local[t].left
  BY <1>4, <1>5 DEF Carried
<1>7. CallSound("queueing", carried)
  BY <1>2, <1>3, <1>6 DEF CallSound, Places, Sending, Waiting
<1> QED
  BY <1>1, <1>7, CallStep

LEMMA CallsTryAgain ==
  ASSUME CallInv, NEW t \in Tasks, TryAgain(t)
  PROVE  Calls'
<1>1. PICK carried :
        /\ carried = [local[t] EXCEPT !.refused = 0]
        /\ Goto(t, "asking", carried)
  BY DEF TryAgain
<1>2. /\ local[t] \in Carried /\ local[t].asked = 0 /\ local[t].call = "ask"
      /\ local[t].nap = 0 /\ local[t].nap <= local[t].left
      /\ local[t].left \in Int /\ local[t].aloft \in 0 .. Latency
  BY CallFields DEF TryAgain, CallSound, Sending
<1>3. /\ carried \in Carried /\ carried.asked = local[t].asked /\ carried.call = local[t].call
      /\ carried.left = local[t].left /\ carried.aloft = local[t].aloft
  <2>1. local[t] \in Carried /\ carried = [local[t] EXCEPT !.refused = 0]
    BY <1>1, <1>2
  <2> QED
    BY <2>1 DEF Carried
<1>4. carried.left + carried.aloft >= 0
  BY <1>2, <1>3, ChatsAssumption
<1>5. CallSound("asking", carried)
  BY <1>2, <1>3, <1>4 DEF CallSound, Places, Sending, Waiting
<1> QED
  BY <1>1, <1>5, CallStep

LEMMA CallsGiveUp ==
  ASSUME CallInv, NEW t \in Tasks, GiveUp(t)
  PROVE  Calls' /\ EndSound(returned')
<1> DEFINE found == [Nothing EXCEPT !.end = "busy", !.refused = local[t].refused]
<1>1. /\ local[t].asked = 0 /\ local[t].left <= 0
      /\ local[t].refused >= -Latency /\ local[t].refused <= local[t].left + local[t].aloft
      /\ local[t].left \in Int /\ local[t].aloft \in 0 .. Latency /\ local[t].refused \in Int
  BY CallFields DEF GiveUp, CallSound, Sending
<1>2. local[t].refused \in -Latency .. Latency
  BY <1>1, ChatsAssumption
<1>3. found \in Ends /\ found.end = "busy" /\ found.refused = local[t].refused
  BY <1>1 DEF Nothing, Ends
<1> HIDE DEF found
<1>4. Finish(t, found)
  BY DEF GiveUp, found
<1> QED
  BY <1>1, <1>2, <1>3, <1>4, Ending

\* A waiting call goes on waiting whatever else it carries.
LEMMA StillWaiting ==
  ASSUME NEW place \in Waiting, NEW l \in Carried, l.asked = (IF l.call = "ask" THEN 1 ELSE 0)
  PROVE  CallSound(place, l)
  BY DEF CallSound, Places, Waiting, Sending

\* The steps of a call that waits, or looks.
LEMMA CallsBegin ==
  ASSUME CallInv, NEW t \in Tasks,
         Look(t) \/ \E timeout \in TimeoutArgs : Wait(t, timeout)
  PROVE  Calls'
<1>1. CASE Look(t)
  <2>1. CallSound("looking", [NoLocal EXCEPT !.call = "look"])
    BY ChatsAssumption DEF CallSound, Places, Carried, NoLocal, Initial, Sending, Waiting
  <2> QED
    BY <1>1, <2>1, CallStep DEF Look
<1>2. ASSUME NEW timeout \in TimeoutArgs, Wait(t, timeout)
      PROVE  Calls'
  <2>1. PICK l, call, carried :
          /\ l = NoLocal /\ call = "wait"
          /\ carried = [l EXCEPT !.call = call, !.left = timeout]
          /\ Goto(t, "begun", carried)
    BY <1>2 DEF Wait
  <2>2. l \in Carried /\ l.asked = 0
    BY <2>1, NothingSound DEF CallSound, NoLocal
  <2>3. /\ l \in Carried /\ call \in {"none", "ask", "wait", "look"} /\ timeout \in Int
    BY <2>1, <2>2, TimeoutIsTime
  <2>4. carried = [l EXCEPT !.call = call, !.left = timeout]
    BY <2>1
  <2>5. carried \in Carried /\ carried.call = call /\ carried.asked = l.asked
    BY <2>3, <2>4 DEF Carried
  <2>6. CallSound("begun", carried)
    BY <2>1, <2>2, <2>5, StillWaiting DEF Waiting
  <2> QED
    BY <2>1, <2>6, CallStep
<1> QED
  BY <1>1, <1>2

LEMMA CallsWait ==
  ASSUME CallInv, NEW t \in Tasks,
         Asked(t) \/ PollFirst(t) \/ Serve(t) \/ Sleep(t) \/ Wake(t)
  PROVE  Calls'
<1> USE ChatsAssumption
<1>1. /\ local[t] \in Carried /\ local[t].interval \in 1 .. PollInterval
      /\ local[t].asked = (IF local[t].call = "ask" THEN 1 ELSE 0)
  <2>1. pc[t] \in Waiting \cup {"accepted"}
    BY DEF Asked, PollFirst, Serve, Sleep, Wake, Waiting
  <2> QED
    BY <2>1, CallFields DEF CallSound
<1>2. CASE Asked(t)
  <2>1. PICK left, zero, carried :
          /\ left = local[t].timeout /\ zero = 0
          /\ carried = [local[t] EXCEPT !.left = left, !.timeout = zero]
          /\ Goto(t, "begun", carried)
    BY <1>2 DEF Asked
  <2>2. left \in {0, Never} \cup Timeouts
    BY <1>1, <2>1 DEF Carried
  <2>3. local[t] \in Carried /\ left \in Int /\ zero \in {0, Never} \cup Timeouts
    BY <1>1, <2>1, <2>2, TimeoutIsTime
  <2>4. carried = [local[t] EXCEPT !.left = left, !.timeout = zero]
    BY <2>1
  <2>5. carried \in Carried /\ carried.asked = local[t].asked /\ carried.call = local[t].call
    BY <2>3, <2>4 DEF Carried
  <2>6. CallSound("begun", carried)
    BY <1>1, <2>5, StillWaiting DEF Waiting
  <2> QED
    BY <2>1, <2>6, CallStep
<1>3. CASE PollFirst(t) \/ Wake(t)
  <2>1. CallSound("looking", local[t])
    BY <1>1, StillWaiting DEF Waiting
  <2> QED
    BY <1>3, <2>1, CallStep DEF PollFirst, Wake
<1>4. CASE Serve(t)
  <2> DEFINE carried == [local[t] EXCEPT !.look = Status(ChatOf(t))]
  <2>1. carried \in Carried /\ carried.asked = local[t].asked /\ carried.call = local[t].call
    BY <1>1 DEF Carried, Status
  <2>2. CallSound("looked", carried)
    BY <1>1, <2>1, StillWaiting DEF Waiting
  <2> QED
    BY <1>4, <2>2, CallStep DEF Serve
<1>5. CASE Sleep(t)
  <2>1. PICK nap, interval, carried :
          /\ nap = local[t].interval /\ interval = Doubled(local[t].interval)
          /\ carried = [local[t] EXCEPT !.nap = nap, !.interval = interval]
          /\ Goto(t, "napping", carried)
    BY <1>5 DEF Sleep
  <2>2. Doubled(local[t].interval) \in 1 .. PollInterval /\ local[t].interval \in Nat
    BY <1>1 DEF Doubled, Lower
  <2>3. local[t] \in Carried /\ nap \in Nat /\ interval \in 1 .. PollInterval
    BY <1>1, <2>1, <2>2
  <2>4. carried = [local[t] EXCEPT !.nap = nap, !.interval = interval]
    BY <2>1
  <2>5. carried \in Carried /\ carried.asked = local[t].asked /\ carried.call = local[t].call
    BY <2>3, <2>4 DEF Carried
  <2>6. CallSound("napping", carried)
    BY <1>1, <2>5, StillWaiting DEF Waiting
  <2> QED
    BY <2>1, <2>6, CallStep
<1> QED
  BY <1>2, <1>3, <1>4, <1>5

LEMMA CallsStore ==
  ASSUME CallInv, NEW t \in Tasks, Store(t)
  PROVE  Calls'
<1>1. CASE local[t].call = "look"
  BY <1>1, NothingSound, CallStep DEF Store
<1>2. CASE local[t].call # "look"
  <2> DEFINE carried == [local[t] EXCEPT !.look = "DONE"]
  <2>1. local[t] \in Carried /\ local[t].asked = (IF local[t].call = "ask" THEN 1 ELSE 0)
    BY CallFields DEF Store, CallSound, Waiting
  <2>2. carried \in Carried /\ carried.asked = local[t].asked /\ carried.call = local[t].call
    BY <2>1 DEF Carried
  <2>3. CallSound("told", carried)
    BY <2>1, <2>2, StillWaiting DEF Waiting
  <2> QED
    BY <1>2, <2>3, CallStep DEF Store
<1> QED
  BY <1>1, <1>2

LEMMA CallsDone ==
  ASSUME CallInv, NEW t \in Tasks, Done(t)
  PROVE  Calls' /\ EndSound(returned')
<1>1. local[t] \in Carried /\ local[t].asked = (IF local[t].call = "ask" THEN 1 ELSE 0)
  BY CallFields DEF Done, CallSound, Waiting
<1>2. CASE local[t].call = "ask"
  <2>1. PICK interval, zero, carried :
          /\ interval = Initial /\ zero = 0
          /\ carried = [local[t] EXCEPT !.interval = interval, !.left = zero]
          /\ Goto(t, "reading", carried)
    BY <1>2 DEF Done
  <2>2. local[t] \in Carried /\ interval \in 1 .. PollInterval /\ zero \in Int
    BY <1>1, <2>1, ChatsAssumption DEF Initial
  <2>3. carried = [local[t] EXCEPT !.interval = interval, !.left = zero]
    BY <2>1
  <2>4. carried \in Carried /\ carried.asked = local[t].asked /\ carried.call = local[t].call
    BY <2>2, <2>3 DEF Carried
  <2>5. CallSound("reading", carried)
    BY <1>1, <1>2, <2>4 DEF CallSound, Places, Sending, Waiting
  <2>6. returned' = Nothing
    BY <1>2 DEF Done
  <2> QED
    BY <2>1, <2>5, <2>6, NothingSound, CallStep
<1>3. CASE local[t].call # "ask"
  <2>1. PICK found : found = [Nothing EXCEPT !.end = "done"] /\ Finish(t, found)
    BY <1>3 DEF Done
  <2>2. found \in Ends /\ found.end = "done"
    BY <2>1, NothingFound, EndFound
  <2> QED
    BY <2>1, <2>2, Ending
<1> QED
  BY <1>2, <1>3

LEMMA CallsEnded ==
  ASSUME CallInv, NEW t \in Tasks, TimeOut(t) \/ Fail(t) \/ Read(t)
  PROVE  Calls' /\ EndSound(returned')
<1>1. CASE TimeOut(t) \/ Fail(t)
  <2>1. PICK end, found :
          /\ end \in {"timeout", "error"}
          /\ found = [Nothing EXCEPT !.end = end]
          /\ Finish(t, found)
    BY <1>1 DEF TimeOut, Fail
  <2>2. found \in Ends /\ found.end = end
    BY <2>1, NothingFound, EndFound
  <2> QED
    BY <2>1, <2>2, Ending
<1>2. CASE Read(t)
  <2>1. PICK r, own, answered, found :
          /\ r = Nothing
          /\ own = (last[ChatOf(t)] = t) /\ answered = (answering # ChatOf(t))
          /\ found = [r EXCEPT !.end = "message", !.own = own, !.answered = answered]
          /\ Finish(t, found)
    BY <1>2, Zenon DEF Read
  <2>2. r \in Ends /\ own \in BOOLEAN /\ answered \in BOOLEAN
    BY <2>1, NothingFound
  <2>a. found = [r EXCEPT !.end = "message", !.own = own, !.answered = answered]
    BY <2>1
  <2>3. found \in Ends /\ found.end = "message"
    BY <2>2, <2>a DEF Ends
  <2>4. local[t].asked = 1
    BY <1>2, CallFields DEF Read, CallSound
  <2> QED
    BY <2>1, <2>3, <2>4, Ending
<1> QED
  BY <1>1, <1>2

LEMMA InitCalls == Init => CallInv
<1> SUFFICES ASSUME Init PROVE CallInv
  OBVIOUS
<1>1. Shared
  BY DEF Init, Shared
<1>2. NoLocal \in Carried /\ "idle" \in Places
  BY NothingSound DEF CallSound
<1>3. Calls
  BY <1>2, NothingSound DEF Init, Calls
<1> QED
  BY <1>1, <1>3, NothingSound DEF Init, CallInv

LEMMA NextCalls == CallInv /\ [Next]_vars => CallInv'
<1> SUFFICES ASSUME CallInv, [Next]_vars PROVE CallInv'
  OBVIOUS
<1>0. Shared'
  BY SharedNext
<1>1. CASE Answer
  <2>1. UNCHANGED <<pc, local>> /\ returned' = Nothing
    BY <1>1 DEF Answer
  <2> QED
    BY <1>0, <2>1, NothingSound DEF CallInv, Calls
<1>2. CASE Tick
  BY <1>0, <1>2, CallsTick, NothingSound DEF CallInv, Tick
<1>3. ASSUME NEW c \in Chats \cup {Elsewhere}, AskElsewhere(c)
      PROVE  CallInv'
  <2>1. UNCHANGED <<pc, local>> /\ returned' = Nothing
    BY <1>3 DEF AskElsewhere
  <2> QED
    BY <1>0, <2>1, NothingSound DEF CallInv, Calls
<1>4. ASSUME NEW t \in Tasks,
             \/ Look(t)
             \/ \E timeout \in TimeoutArgs :
                  Wait(t, timeout) \/ \E busy \in BusyTimeouts : Ask(t, timeout, busy)
             \/ Accepted(t) \/ Refused(t) \/ TryLater(t) \/ TryAgain(t) \/ Asked(t)
             \/ PollFirst(t) \/ Serve(t) \/ Store(t) \/ Sleep(t) \/ Wake(t)
      PROVE  CallInv'
  <2>1. Calls'
    BY <1>4, CallsBegin, CallsAsk, CallsAccepted, CallsRefused, CallsTryLater, CallsTryAgain,
       CallsWait, CallsStore
  <2>2. returned' = Nothing
    BY <1>4 DEF Look, Wait, Ask, Accepted, Refused, TryLater, TryAgain, Asked, PollFirst, Serve,
                Store, Sleep, Wake
  <2> QED
    BY <1>0, <2>1, <2>2, NothingSound DEF CallInv
<1>5. ASSUME NEW t \in Tasks, GiveUp(t) \/ Done(t) \/ TimeOut(t) \/ Read(t) \/ Fail(t)
      PROVE  CallInv'
  BY <1>0, <1>5, CallsGiveUp, CallsDone, CallsEnded DEF CallInv
<1>6. CASE UNCHANGED vars
  <2>1. UNCHANGED <<pc, local, returned>>
    BY <1>6 DEF vars
  <2> QED
    BY <1>0, <2>1 DEF CallInv, Calls
<1> QED
  BY <1>1, <1>2, <1>3, <1>4, <1>5, <1>6 DEF Next

LEMMA CallsInvariant == Spec => []CallInv
  BY InitCalls, NextCalls, PTL DEF Spec

\* Every variable keeps its type.
THEOREM ChatsTypes == Spec => []TypeOK
<1>1. CallInv => TypeOK
  BY DEF CallInv, Shared, Calls, EndSound, TypeOK, Places, Carried, Ends
<1> QED
  BY <1>1, CallsInvariant, PTL

\* A call that asks leaves one question when it returns an answer, none when
\* Forward was busy to the last, and never two, however often it was refused.
THEOREM ChatsAskOnce == Spec => []AskedOnce
<1>1. CallInv => AskedOnce
  BY DEF CallInv, EndSound, AskedOnce
<1> QED
  BY <1>1, CallsInvariant, PTL

\* A call gives up only when it was refused within the time of a request of its
\* busy_timeout, whatever pauses Forward asked for.
THEOREM ChatsBusyToTheDeadline == Spec => []BusyToTheDeadline
<1>1. CallInv => BusyToTheDeadline
  BY DEF CallInv, EndSound, BusyToTheDeadline
<1> QED
  BY <1>1, CallsInvariant, PTL

-----------------------------------------------------------------------------
(* Whose answer is returned. *)

Known ==
  \A t \in Tasks : /\ ChatOf(t) \in Chats /\ ChatOf(t) # Elsewhere /\ ChatOf(t) # Idle
                   /\ uses[t] \in Handles

LEMMA ChatsKnown == CallInv => Known
  BY ChatsAssumption DEF CallInv, Shared, ChatOf, Known

\* Where the question of a call has been accepted, and that a look carries none.
LEMMA WhereAsked ==
  ASSUME CallInv, NEW t \in Tasks
  PROVE  pc[t] \in {"idle", "asking", "refused", "queueing"} => ~(local[t].asked > 0)
  BY CallFields DEF CallSound, Sending

\* A step that leaves Forward and the handles alone keeps every question its
\* own, if it neither looks nor begins to read before the handle says so.
LEMMA QuietKeeps ==
  ASSUME CallInv, OwnInv, NEW t \in Tasks, NEW place, NEW carried,
         Goto(t, place, carried), UNCHANGED <<config, forward, seen>>,
         place # "looked", place # "accepted",
         stale' \subseteq stale \ {t}, stale \ {t} \subseteq stale',
         disturbed \ {t} \subseteq disturbed',
         carried.asked > 0 =>
           /\ local[t].asked > 0 /\ disturbed' = disturbed /\ pc[t] # "accepted"
           /\ place = "reading" => seen[uses[t]] = "DONE"
  PROVE  OwnInv'
<1>1. /\ pc'[t] = place /\ local'[t] = carried
      /\ \A u \in Tasks \ {t} : pc'[u] = pc[u] /\ local'[u] = local[u]
  BY Going
<1>2. /\ answering' = answering /\ last' = last /\ seen' = seen /\ uses' = uses /\ on' = on
      /\ \A u \in Tasks : ChatOf(u)' = ChatOf(u)
  BY DEF config, forward, ChatOf
<1>3. stale \subseteq Tasks
  BY DEF CallInv, Shared
<1>4. StaleLooks'
  BY <1>1, <1>3 DEF OwnInv, StaleLooks
<1>5. ASSUME NEW u \in Tasks \ disturbed', local'[u].asked > 0
      PROVE  Awaited(u)'
  <2>1. u \notin disturbed /\ local[u].asked > 0
    BY <1>1, <1>5
  <2>2. Awaited(u)
    BY <2>1 DEF OwnInv, Owned
  <2>3. pc'[u] = "reading" => answering # ChatOf(u)
    BY <1>1, <1>5, <2>2 DEF Awaited
  <2>4. pc'[u] # "accepted" /\ seen[uses[u]] = "DONE" => answering # ChatOf(u)
    BY <1>1, <1>5, <2>2 DEF Awaited
  <2>5. ASSUME NEW v \in Tasks \ stale', pc'[v] = "looked", uses[v] = uses[u],
               local'[v].look = "DONE"
        PROVE  answering # ChatOf(u)
    <3>1. v # t
      BY <1>1, <2>5
    <3>2. v \notin stale /\ pc[v] = "looked" /\ local[v].look = "DONE"
      BY <1>1, <2>5, <3>1
    <3> QED
      BY <2>2, <2>5, <3>2 DEF Awaited
  <2> QED
    BY <1>2, <2>2, <2>3, <2>4, <2>5 DEF Awaited
<1>6. Owned'
  BY <1>5 DEF Owned
<1> QED
  BY <1>4, <1>6 DEF OwnInv

\* Only a task that looks can have a stale look.
LEMMA NotStale == ASSUME OwnInv, NEW t \in Tasks, pc[t] # "looked" PROVE t \notin stale
  BY DEF OwnInv, StaleLooks

LEMMA OwnQuiet ==
  ASSUME CallInv, OwnInv, NEW t \in Tasks,
         \/ Look(t) \/ Refused(t) \/ TryLater(t) \/ TryAgain(t) \/ GiveUp(t)
         \/ PollFirst(t) \/ Done(t) \/ TimeOut(t) \/ Sleep(t) \/ Wake(t) \/ Read(t) \/ Fail(t)
         \/ \E timeout \in TimeoutArgs :
              Wait(t, timeout) \/ \E busy \in BusyTimeouts : Ask(t, timeout, busy)
  PROVE  OwnInv'
<1>n. NoLocal.asked = 0
  BY DEF NoLocal
<1>r. local[t] \in Carried
  BY CallFields
<1>1. CASE GiveUp(t) \/ TimeOut(t) \/ Read(t) \/ Fail(t) \/ (Done(t) /\ local[t].call # "ask")
  <2>1. /\ Goto(t, "idle", NoLocal) /\ UNCHANGED <<config, forward, seen>>
        /\ disturbed' = disturbed \ {t}
        /\ stale' = stale \/ stale' = stale \ {t}
        /\ pc[t] # "looked" \/ stale' = stale \ {t}
    BY <1>1 DEF GiveUp, TimeOut, Read, Fail, Done, Finish
  <2>2. stale' = stale \ {t}
    BY <2>1, NotStale
  <2>3. ~(NoLocal.asked > 0)
    BY <1>n
  <2> QED
    BY <2>1, <2>2, <2>3, QuietKeeps
<1>2. CASE \/ Look(t)
           \/ \E timeout \in TimeoutArgs :
                Wait(t, timeout) \/ \E busy \in BusyTimeouts : Ask(t, timeout, busy)
  <2>1. /\ pc[t] = "idle" /\ UNCHANGED <<config, forward, seen, history>>
        /\ pc' = [pc EXCEPT ![t] = pc'[t]] /\ local' = [local EXCEPT ![t] = local'[t]]
        /\ pc'[t] \in {"looking", "begun", "asking"} /\ local'[t].asked = 0
    <3> DEFINE Begins(carried) ==
                 \/ carried = [NoLocal EXCEPT !.call = "look"]
                 \/ \E timeout \in TimeoutArgs :
                      \/ carried = [NoLocal EXCEPT !.call = "wait", !.left = timeout]
                      \/ \E busy \in BusyTimeouts :
                           carried = [NoLocal EXCEPT !.call = "ask", !.timeout = timeout,
                                                     !.left = busy]
    <3>0. PICK place \in {"looking", "begun", "asking"} :
            \E carried : Goto(t, place, carried) /\ Begins(carried)
      BY <1>2 DEF Look, Wait, Ask
    <3>1. PICK carried : Goto(t, place, carried) /\ Begins(carried)
      BY <3>0
    <3>2. carried.asked = 0
      BY <3>1 DEF NoLocal
    <3>3. pc'[t] = place /\ local'[t] = carried
      BY <3>1, Going
    <3>4. pc[t] = "idle" /\ UNCHANGED <<config, forward, seen, history>>
      BY <1>2 DEF Look, Wait, Ask
    <3> QED
      BY <3>1, <3>2, <3>3, <3>4 DEF Goto
  <2>2. Goto(t, pc'[t], local'[t])
    BY <2>1 DEF Goto
  <2>3. t \notin stale /\ stale' = stale /\ disturbed' = disturbed
    BY <2>1, NotStale DEF history
  <2> QED
    BY <2>1, <2>2, <2>3, QuietKeeps
<1>3. CASE Refused(t) \/ TryLater(t) \/ TryAgain(t)
  <2>0. PICK place \in {"refused", "queueing", "asking"} : \E carried : Goto(t, place, carried)
    BY <1>3 DEF Refused, TryLater, TryAgain
  <2>1. PICK carried : Goto(t, place, carried)
    BY <2>0
  <2>2. /\ pc[t] \in Sending /\ UNCHANGED <<config, forward, seen, history>>
    BY <1>3 DEF Refused, TryLater, TryAgain, Sending
  <2>3. carried.asked = 0
    <3>1. local'[t].asked = 0
      <4>1. Calls' /\ pc'[t] = place
        BY <1>3, <2>1, Going, CallsRefused, CallsTryLater, CallsTryAgain
      <4> QED
        BY <2>1, <4>1 DEF Calls, CallSound, Sending
    <3> QED
      BY <2>1, <3>1, Going
  <2>4. t \notin stale /\ stale' = stale /\ disturbed' = disturbed
    BY <2>2, NotStale DEF Sending, history
  <2> QED
    BY <2>1, <2>2, <2>3, <2>4, QuietKeeps
<1>4. CASE PollFirst(t) \/ Sleep(t) \/ Wake(t)
  <2>0. PICK place \in {"looking", "napping"} : \E carried : Goto(t, place, carried)
    BY <1>4 DEF PollFirst, Sleep, Wake
  <2>1. PICK carried : Goto(t, place, carried)
    BY <2>0
  <2>2. /\ pc[t] \in {"begun", "told", "napping"} /\ UNCHANGED <<config, forward, seen, history>>
    BY <1>4 DEF PollFirst, Sleep, Wake
  <2>3. carried.asked = local[t].asked
    <3>1. local'[t] = carried
      BY <2>1, Going
    <3>2. CASE PollFirst(t) \/ Wake(t)
      <4>1. PICK p : Goto(t, p, local[t])
        BY <3>2 DEF PollFirst, Wake
      <4>2. local'[t] = local[t]
        BY <4>1, Going
      <4> QED
        BY <3>1, <4>2
    <3>3. CASE Sleep(t)
      <4>1. PICK slept : /\ \E nap, interval :
                              slept = [local[t] EXCEPT !.nap = nap, !.interval = interval]
                         /\ Goto(t, "napping", slept)
        BY <3>3 DEF Sleep
      <4>2. local'[t] = slept
        BY <4>1, Going
      <4>3. slept.asked = local[t].asked
        BY <1>r, <4>1 DEF Carried
      <4> QED
        BY <3>1, <4>2, <4>3
    <3> QED
      BY <1>4, <3>2, <3>3
  <2>4. t \notin stale /\ stale' = stale /\ disturbed' = disturbed
    BY <2>2, NotStale DEF history
  <2> QED
    BY <2>1, <2>2, <2>3, <2>4, QuietKeeps
<1>5. CASE Done(t) /\ local[t].call = "ask"
  <2>1. PICK carried :
          /\ carried = [local[t] EXCEPT !.interval = Initial, !.left = 0]
          /\ Goto(t, "reading", carried)
    BY <1>5 DEF Done
  <2>2. /\ pc[t] \in {"begun", "told"} /\ seen[uses[t]] = "DONE" /\ disturbed' = disturbed
        /\ UNCHANGED <<config, forward, seen, stale>>
    BY <1>5 DEF Done, IsDone
  <2>3. carried.asked = local[t].asked
    BY <1>r, <2>1 DEF Carried
  <2>4. t \notin stale
    BY <2>2, NotStale
  <2> QED
    BY <2>1, <2>2, <2>3, <2>4, QuietKeeps
<1> QED
  BY <1>1, <1>2, <1>3, <1>4, <1>5

\* A question accepted from t disturbs the other calls that await one in its chat.
LEMMA OwnAccept ==
  ASSUME CallInv, OwnInv, NEW t \in Tasks \cup {Elsewhere}, NEW c \in Chats \cup {Elsewhere},
         Accept(t, c), UNCHANGED <<config, seen>>,
         \A u \in Tasks \ {t} : pc'[u] = pc[u] /\ local'[u] = local[u],
         t \in Tasks => pc'[t] = "accepted" /\ pc[t] = "asking" /\ c = ChatOf(t)
  PROVE  OwnInv'
<1>1. /\ answering' = c /\ last' = [last EXCEPT ![c] = t] /\ answering = Idle
      /\ stale' = stale \cup Outdated(t, c) /\ disturbed' = disturbed \cup Supplanted(t, c)
  BY DEF Accept
<1>2. /\ seen' = seen /\ uses' = uses /\ \A u \in Tasks : ChatOf(u)' = ChatOf(u)
  BY DEF config, ChatOf
<1>3. Known /\ stale \subseteq Tasks /\ last \in [Chats \cup {Elsewhere} -> Tasks \cup {Elsewhere}]
  BY ChatsKnown DEF CallInv, Shared
<1>4. t \in Tasks => t \notin stale
  BY NotStale
<1>5. ASSUME NEW u \in stale'
      PROVE  pc'[u] = "looked" /\ (local'[u].asked > 0 => u \in disturbed')
  <2>1. u \in Tasks /\ u # t
    BY <1>1, <1>3, <1>4, <1>5, ChatsAssumption DEF Outdated
  <2>2. CASE u \in stale
    BY <1>1, <2>1, <2>2 DEF OwnInv, StaleLooks
  <2>3. CASE u \in Outdated(t, c)
    BY <1>1, <2>1, <2>3 DEF Outdated, Supplanted
  <2> QED
    BY <1>1, <1>5, <2>2, <2>3
<1>6. ASSUME NEW u \in Tasks \ disturbed', local'[u].asked > 0
      PROVE  Awaited(u)'
  <2>1. CASE u = t
    <3>1. last'[ChatOf(u)] = u /\ pc'[u] = "accepted"
      BY <1>1, <1>3, <2>1
    <3>2. ASSUME NEW v \in Tasks \ stale', pc'[v] = "looked", uses[v] = uses[u]
          PROVE  FALSE
      <4>1. v # t /\ ChatOf(v) = c
        BY <2>1, <3>1, <3>2 DEF ChatOf
      <4>2. v \in Outdated(t, c)
        BY <3>2, <4>1 DEF Outdated
      <4> QED
        BY <1>1, <3>2, <4>2
    <3> QED
      BY <1>2, <3>1, <3>2 DEF Awaited
  <2>2. CASE u # t
    <3>1. pc'[u] = pc[u] /\ local'[u] = local[u] /\ u \notin disturbed /\ local[u].asked > 0
      BY <1>1, <1>6, <2>2
    <3>2. ChatOf(u) # c
      BY <1>1, <1>6, <2>2, <3>1 DEF Supplanted
    <3>3. last'[ChatOf(u)] = u
      BY <1>1, <1>3, <3>1, <3>2 DEF OwnInv, Owned, Awaited
    <3> QED
      BY <1>1, <1>2, <3>2, <3>3 DEF Awaited
  <2> QED
    BY <2>1, <2>2
<1>7. StaleLooks' /\ Owned'
  BY <1>5, <1>6 DEF StaleLooks, Owned
<1> QED
  BY <1>7 DEF OwnInv

\* An acceptance that arrives marks the handle, whatever it showed.
LEMMA OwnAsked ==
  ASSUME CallInv, OwnInv, NEW t \in Tasks, Asked(t)
  PROVE  OwnInv'
<1>1. PICK carried :
        /\ carried = [local[t] EXCEPT !.left = local[t].timeout, !.timeout = 0]
        /\ Goto(t, "begun", carried)
  BY DEF Asked
<1>2. /\ pc[t] = "accepted" /\ seen' = [seen EXCEPT ![uses[t]] = "PROCESSING"]
      /\ UNCHANGED <<config, forward, history>>
  BY DEF Asked
<1>3. local[t] \in Carried /\ seen \in [Handles -> {"DONE", "PROCESSING"}] /\ Known
      /\ stale \subseteq Tasks
  BY CallFields, ChatsKnown DEF CallInv, Shared
<1>4. carried.asked = local[t].asked
  BY <1>1, <1>3 DEF Carried
<1>5. /\ pc'[t] = "begun" /\ local'[t] = carried
      /\ \A u \in Tasks \ {t} : pc'[u] = pc[u] /\ local'[u] = local[u]
  BY <1>1, Going
<1>6. /\ answering' = answering /\ last' = last /\ uses' = uses
      /\ \A u \in Tasks : ChatOf(u)' = ChatOf(u)
      /\ stale' = stale /\ disturbed' = disturbed
  BY <1>2 DEF config, forward, history, ChatOf
<1>7. t \notin stale
  BY <1>2, NotStale
<1>8. StaleLooks'
  BY <1>3, <1>5, <1>6, <1>7 DEF OwnInv, StaleLooks
<1>9. ASSUME NEW u \in Tasks \ disturbed', local'[u].asked > 0
      PROVE  Awaited(u)'
  <2>1. local[u].asked > 0 /\ u \notin disturbed
    BY <1>4, <1>5, <1>6, <1>9
  <2>2. Awaited(u)
    BY <2>1 DEF OwnInv, Owned
  <2>3. pc'[u] = "reading" => answering # ChatOf(u)
    BY <1>5, <2>2 DEF Awaited
  <2>4. pc'[u] # "accepted" /\ seen'[uses[u]] = "DONE" => answering # ChatOf(u)
    <3>1. seen'[uses[t]] = "PROCESSING"
      BY <1>2, <1>3 DEF Known
    <3>2. uses[u] # uses[t] => seen'[uses[u]] = seen[uses[u]]
      BY <1>2, <1>3 DEF Known
    <3>3. CASE uses[u] = uses[t]
      BY <3>1, <3>3
    <3>4. CASE uses[u] # uses[t]
      BY <1>5, <2>2, <3>2, <3>4 DEF Awaited
    <3> QED
      BY <3>3, <3>4
  <2>5. ASSUME NEW v \in Tasks \ stale, pc'[v] = "looked", uses[v] = uses[u],
               local'[v].look = "DONE"
        PROVE  answering # ChatOf(u)
    BY <1>5, <2>2, <2>5 DEF Awaited
  <2> QED
    BY <1>6, <2>2, <2>3, <2>4, <2>5 DEF Awaited
<1> QED
  BY <1>8, <1>9 DEF OwnInv, Owned

\* What Forward serves is fresh, and tells whether it is working on the chat.
LEMMA OwnServe ==
  ASSUME CallInv, OwnInv, NEW t \in Tasks, Serve(t)
  PROVE  OwnInv'
<1>1. PICK look, carried :
        /\ look = Status(ChatOf(t)) /\ carried = [local[t] EXCEPT !.look = look]
        /\ Goto(t, "looked", carried)
  BY DEF Serve
<1>2. /\ pc[t] = "looking" /\ stale' = stale \ {t}
      /\ UNCHANGED <<config, forward, seen, disturbed>>
  BY DEF Serve
<1>3. local[t] \in Carried /\ stale \subseteq Tasks
  BY CallFields DEF CallInv, Shared
<1>4. carried.asked = local[t].asked /\ carried.look = look
  BY <1>1, <1>3 DEF Carried
<1>5. /\ pc'[t] = "looked" /\ local'[t] = carried
      /\ \A u \in Tasks \ {t} : pc'[u] = pc[u] /\ local'[u] = local[u]
  BY <1>1, Going
<1>6. /\ answering' = answering /\ last' = last /\ uses' = uses /\ seen' = seen
      /\ \A u \in Tasks : ChatOf(u)' = ChatOf(u)
      /\ disturbed' = disturbed
  BY <1>2 DEF config, forward, ChatOf
<1>7. StaleLooks'
  BY <1>2, <1>3, <1>5, <1>6 DEF OwnInv, StaleLooks
<1>8. ASSUME NEW u \in Tasks \ disturbed', local'[u].asked > 0
      PROVE  Awaited(u)'
  <2>1. local[u].asked > 0 /\ u \notin disturbed
    BY <1>4, <1>5, <1>6, <1>8
  <2>2. Awaited(u)
    BY <2>1 DEF OwnInv, Owned
  <2>3. pc'[u] = "reading" => answering # ChatOf(u)
    BY <1>5, <2>2 DEF Awaited
  <2>4. pc'[u] # "accepted" /\ seen[uses[u]] = "DONE" => answering # ChatOf(u)
    BY <1>2, <1>5, <2>2 DEF Awaited
  <2>5. ASSUME NEW v \in Tasks \ stale', pc'[v] = "looked", uses[v] = uses[u],
               local'[v].look = "DONE"
        PROVE  answering # ChatOf(u)
    <3>1. CASE v = t
      <4>1. look = "DONE" /\ ChatOf(t) = ChatOf(u)
        BY <1>4, <1>5, <2>5, <3>1 DEF ChatOf
      <4> QED
        BY <1>1, <4>1 DEF Status
    <3>2. CASE v # t
      BY <1>2, <1>5, <2>2, <2>5, <3>2 DEF Awaited
    <3> QED
      BY <3>1, <3>2
  <2> QED
    BY <1>6, <2>2, <2>3, <2>4, <2>5 DEF Awaited
<1> QED
  BY <1>7, <1>8 DEF OwnInv, Owned

\* A look kept in a handle is fresh, or disturbs the calls that await an answer
\* through it.
LEMMA OwnStore ==
  ASSUME CallInv, OwnInv, NEW t \in Tasks, Store(t)
  PROVE  OwnInv'
<1>1. /\ pc[t] = "looked" /\ seen' = [seen EXCEPT ![uses[t]] = local[t].look]
      /\ disturbed' = disturbed \cup (IF t \in stale THEN Awaiting(t) ELSE {})
      /\ stale' = stale \ {t} /\ UNCHANGED <<config, forward>>
  BY DEF Store
<1>2. local[t] \in Carried /\ local[t].look \in {"DONE", "PROCESSING"}
      /\ stale \subseteq Tasks /\ Known /\ seen \in [Handles -> {"DONE", "PROCESSING"}]
  BY CallFields, ChatsKnown DEF CallInv, Shared, Carried
<1> DEFINE Told(carried) == carried = NoLocal \/ carried = [local[t] EXCEPT !.look = "DONE"]
<1>0. PICK place \in {"idle", "told"} : \E carried : Goto(t, place, carried) /\ Told(carried)
  BY DEF Store
<1>3. PICK carried : Goto(t, place, carried) /\ Told(carried)
  BY <1>0
<1>4. carried.asked > 0 => local[t].asked > 0
  BY <1>2, <1>3 DEF Carried, NoLocal
<1>5. /\ pc'[t] = place /\ local'[t] = carried
      /\ \A u \in Tasks \ {t} : pc'[u] = pc[u] /\ local'[u] = local[u]
  BY <1>3, Going
<1>6. /\ answering' = answering /\ last' = last /\ uses' = uses
      /\ \A u \in Tasks : ChatOf(u)' = ChatOf(u)
  BY <1>1 DEF config, forward, ChatOf
<1>7. StaleLooks'
  BY <1>1, <1>2, <1>5 DEF OwnInv, StaleLooks
<1>8. ASSUME NEW u \in Tasks \ disturbed', local'[u].asked > 0
      PROVE  Awaited(u)'
  <2>1. local[u].asked > 0 /\ u \notin disturbed
    BY <1>1, <1>4, <1>5, <1>8
  <2>2. Awaited(u)
    BY <2>1 DEF OwnInv, Owned
  <2>3. pc'[u] = "reading" => answering # ChatOf(u)
    BY <1>5, <2>2 DEF Awaited
  <2>4. ASSUME pc'[u] # "accepted", seen'[uses[u]] = "DONE"
        PROVE  answering # ChatOf(u)
    <3>1. CASE uses[u] # uses[t]
      <4>1. seen[uses[u]] = "DONE"
        BY <1>1, <1>2, <2>4, <3>1 DEF Known
      <4> QED
        BY <1>1, <1>5, <2>2, <2>4, <4>1 DEF Awaited
    <3>2. CASE uses[u] = uses[t]
      <4>1. local[t].look = "DONE"
        BY <1>1, <1>2, <2>4, <3>2 DEF Known
      <4>2. t \notin stale
        <5> SUFFICES ASSUME t \in stale PROVE FALSE
          OBVIOUS
        <5>1. CASE u = t
          BY <2>1, <5>1 DEF OwnInv, StaleLooks
        <5>2. CASE u # t
          <6>1. pc[u] # "accepted"
            BY <1>5, <2>4, <5>2
          <6>2. u \in Awaiting(t)
            BY <2>1, <3>2, <5>2, <6>1 DEF Awaiting
          <6> QED
            BY <1>1, <1>8, <6>2
        <5> QED
          BY <5>1, <5>2
      <4> QED
        BY <1>1, <2>2, <3>2, <4>1, <4>2 DEF Awaited
    <3> QED
      BY <3>1, <3>2
  <2>5. ASSUME NEW v \in Tasks \ stale', pc'[v] = "looked", uses[v] = uses[u],
               local'[v].look = "DONE"
        PROVE  answering # ChatOf(u)
    <3>1. v # t
      BY <1>5, <2>5
    <3> QED
      BY <1>1, <1>5, <2>2, <2>5, <3>1 DEF Awaited
  <2> QED
    BY <1>6, <2>2, <2>3, <2>4, <2>5 DEF Awaited
<1> QED
  BY <1>7, <1>8 DEF OwnInv, Owned

\* Time and Forward's answers only help.
LEMMA OwnOthers ==
  ASSUME CallInv, OwnInv, Answer \/ Tick \/ UNCHANGED vars
  PROVE  OwnInv'
<1>1. /\ UNCHANGED <<on, uses, last, seen, pc, stale, disturbed>>
      /\ answering' = answering \/ answering' = Idle
  BY DEF Answer, Tick, vars, config, forward, history
<1>2. \A u \in Tasks : local'[u].asked = local[u].asked /\ local'[u].look = local[u].look
  <2>1. CASE Tick
    <3> SUFFICES ASSUME NEW u \in Tasks
                 PROVE  local'[u].asked = local[u].asked /\ local'[u].look = local[u].look
      OBVIOUS
    <3>1. PICK left, nap, aloft :
            local'[u] = [local[u] EXCEPT !.left = left, !.nap = nap, !.aloft = aloft]
      BY <2>1, Zenon DEF Tick, Passed
    <3>2. local[u] \in Carried
      BY CallFields
    <3> QED
      BY <3>1, <3>2 DEF Carried
  <2>2. CASE Answer \/ UNCHANGED vars
    BY <2>2 DEF Answer, vars
  <2> QED
    BY <2>1, <2>2
<1>3. Known /\ (\A u \in Tasks : ChatOf(u)' = ChatOf(u)) /\ stale \subseteq Tasks
  BY <1>1, ChatsKnown DEF ChatOf, CallInv, Shared
<1>4. StaleLooks'
  BY <1>1, <1>2, <1>3 DEF OwnInv, StaleLooks
<1>5. Owned'
  BY <1>1, <1>2, <1>3 DEF OwnInv, Owned, Awaited, Known
<1> QED
  BY <1>4, <1>5 DEF OwnInv

LEMMA NextOwn == CallInv /\ OwnInv /\ [Next]_vars => OwnInv'
<1> SUFFICES ASSUME CallInv, OwnInv, [Next]_vars PROVE OwnInv'
  OBVIOUS
<1>1. ASSUME NEW t \in Tasks, Accepted(t) PROVE OwnInv'
  <2>1. /\ Accept(t, ChatOf(t)) /\ UNCHANGED <<config, seen>> /\ pc[t] = "asking"
        /\ \E carried : Goto(t, "accepted", carried)
    BY <1>1 DEF Accepted
  <2>2. pc'[t] = "accepted" /\ \A u \in Tasks \ {t} : pc'[u] = pc[u] /\ local'[u] = local[u]
    BY <2>1, Going
  <2>3. ChatOf(t) \in Chats
    BY ChatsKnown DEF Known
  <2> QED
    BY <2>1, <2>2, <2>3, OwnAccept
<1>2. ASSUME NEW c \in Chats \cup {Elsewhere}, AskElsewhere(c) PROVE OwnInv'
  <2>1. Accept(Elsewhere, c) /\ UNCHANGED <<config, seen, pc, local>> /\ Elsewhere \notin Tasks
    BY <1>2, ChatsAssumption DEF AskElsewhere
  <2> QED
    BY <2>1, OwnAccept
<1> QED
  BY <1>1, <1>2, OwnQuiet, OwnAsked, OwnServe, OwnStore, OwnOthers DEF Next

\* The answer a call is about to return is its own, or it has been disturbed.
LEMMA NextOwnAnswer == CallInv /\ OwnInv /\ OwnAnswer /\ [Next]_vars => OwnAnswer'
<1> SUFFICES ASSUME CallInv, OwnInv, OwnAnswer, [Next]_vars,
                    returned'.end = "message", ~returned'.disturbed
             PROVE  returned'.own /\ returned'.answered
  BY DEF OwnAnswer
<1>n. Nothing.end = "none"
  BY DEF Nothing
<1>1. CASE UNCHANGED vars
  BY <1>1 DEF vars, OwnAnswer
<1>2. ASSUME NEW t \in Tasks, NEW found, Finish(t, found), found \in Ends
      PROVE  returned'.end = found.end /\ returned'.own = found.own
             /\ returned'.answered = found.answered
             /\ returned'.disturbed = (t \in disturbed)
  <2>1. PICK asked, spoilt : spoilt = (t \in disturbed)
          /\ returned' = [found EXCEPT !.asked = asked, !.disturbed = spoilt]
    BY <1>2, Zenon DEF Finish
  <2>2. returned' = [found EXCEPT !.asked = asked, !.disturbed = spoilt]
    BY <2>1
  <2>3. returned'.end = found.end /\ returned'.own = found.own
        /\ returned'.answered = found.answered /\ returned'.disturbed = spoilt
    BY <1>2, <2>2 DEF Ends
  <2> QED
    BY <2>1, <2>3, Zenon
<1>3. ASSUME NEW t \in Tasks, Read(t) PROVE returned'.own /\ returned'.answered
  <2>1. PICK r, own, answered, found :
          /\ r = Nothing
          /\ own = (last[ChatOf(t)] = t) /\ answered = (answering # ChatOf(t))
          /\ found = [r EXCEPT !.end = "message", !.own = own, !.answered = answered]
          /\ Finish(t, found)
    BY <1>3, Zenon DEF Read
  <2>2. r \in Ends /\ own \in BOOLEAN /\ answered \in BOOLEAN
    BY <2>1, NothingFound
  <2>3. found = [r EXCEPT !.end = "message", !.own = own, !.answered = answered]
    BY <2>1
  <2>4. found \in Ends /\ found.own = own /\ found.answered = answered
    BY <2>2, <2>3 DEF Ends
  <2>5. t \notin disturbed
    BY <1>2, <2>1, <2>4, Zenon
  <2>6. pc[t] = "reading" /\ local[t].asked > 0
    BY <1>3, CallFields DEF Read, CallSound
  <2>7. last[ChatOf(t)] = t /\ answering # ChatOf(t)
    BY <2>5, <2>6 DEF OwnInv, Owned, Awaited
  <2>8. own /\ answered
    BY <2>1, <2>7, Zenon
  <2> QED
    BY <1>2, <2>1, <2>4, <2>8, Zenon
<1>4. ASSUME NEW t \in Tasks, GiveUp(t) \/ TimeOut(t) \/ Fail(t) \/ Done(t)
      PROVE  FALSE
  <2>1. CASE returned' = Nothing
    BY <1>n, <2>1
  <2>2. CASE returned' # Nothing
    <3>0. PICK end \in {"busy", "timeout", "error", "done"} :
            \E r, refused, found :
              /\ r = Nothing /\ refused \in {0, local[t].refused}
              /\ \/ found = [r EXCEPT !.end = end]
                 \/ found = [r EXCEPT !.end = end, !.refused = refused]
              /\ Finish(t, found)
      BY <1>4, <2>2 DEF GiveUp, TimeOut, Fail, Done
    <3>1. PICK r, refused, found :
            /\ r = Nothing /\ refused \in {0, local[t].refused}
            /\ \/ found = [r EXCEPT !.end = end]
               \/ found = [r EXCEPT !.end = end, !.refused = refused]
            /\ Finish(t, found)
      BY <3>0
    <3>2. r \in Ends /\ refused \in Int
      BY <3>1, NothingFound, CallFields
    <3>3. \/ found = [r EXCEPT !.end = end]
          \/ found = [r EXCEPT !.end = end, !.refused = refused]
      BY <3>1
    <3>4. found \in Ends /\ found.end = end
      BY <3>2, <3>3 DEF Ends
    <3>5. returned'.end = end
      BY <1>2, <3>1, <3>4, Zenon
    <3> QED
      BY <3>1, <3>5
  <2> QED
    BY <2>1, <2>2
<1>5. ASSUME returned' = Nothing PROVE FALSE
  BY <1>n, <1>5
<1>6. ASSUME NEW t \in Tasks,
             \/ Look(t) \/ Accepted(t) \/ Refused(t) \/ TryLater(t) \/ TryAgain(t) \/ Asked(t)
             \/ PollFirst(t) \/ Serve(t) \/ Store(t) \/ Sleep(t) \/ Wake(t)
             \/ \E timeout \in TimeoutArgs :
                  Wait(t, timeout) \/ \E busy \in BusyTimeouts : Ask(t, timeout, busy)
      PROVE  FALSE
  BY <1>5, <1>6 DEF Look, Accepted, Refused, TryLater, TryAgain, Asked, PollFirst, Serve, Store,
                    Sleep, Wake, Wait, Ask
<1>7. CASE Answer \/ Tick \/ \E c \in Chats \cup {Elsewhere} : AskElsewhere(c)
  BY <1>5, <1>7 DEF Answer, Tick, AskElsewhere
<1> QED
  BY <1>1, <1>3, <1>4, <1>6, <1>7 DEF Next

\* An answer returned is that of the question the call asked, however many
\* tasks, handles and chats share Forward's attention, unless the chat or the
\* handle was disturbed meanwhile.
THEOREM ChatsOwnAnswer == Spec => []OwnAnswer
<1>1. Init => OwnInv /\ OwnAnswer
  BY DEF Init, OwnInv, StaleLooks, Owned, OwnAnswer, NoLocal, Nothing
<1> QED
  BY <1>1, InitCalls, NextCalls, NextOwn, NextOwnAnswer, PTL DEF Spec
=============================================================================
