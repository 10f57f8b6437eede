--------------------------- MODULE TransportProofs ---------------------------
(***************************************************************************)
(* Proofs about Transport for any calls and any number of attempts: the     *)
(* safety of repeating a request rests on CallInv, which says where the     *)
(* attempts of one call can be while the call is at each of its places.     *)
(* Then about RateLimiter, which paces those attempts, for any tasks, any   *)
(* interval and either twin.                                                *)
(***************************************************************************)
EXTENDS Transport, RateLimiter, FiniteSetTheorems, TLAPS

\* The attempts of c that did or may still take effect.
Traces(c) == wire[c] \cup ran[c]

Refused == {"limited", "busy", "rejected", "unreached"}

\* The inductive invariant, for one call.
CallInv(c) ==
  /\ pc[c] = "idle" => spec[c] = NoSpec /\ attempt[c] = 0
  /\ pc[c] # "idle" => spec[c] \in Specs
  /\ outcome[c] = "none" <=> pc[c] # "done"
  /\ pc[c] \in {"pacing", "backoff"} => attempt[c] < MaxAttempts
  /\ pc[c] \in {"awaiting", "body", "done"} => attempt[c] >= 1
  /\ pc[c] = "body" => spec[c].mode = "stream" /\ ran[c] # {}
  /\ outcome[c] = "ok" => ran[c] # {}
  /\ wire[c] \cap ran[c] = {}
  /\ Traces(c) \subseteq 1 .. attempt[c]
  /\ Unrepeatable(c) => Traces(c) \subseteq {attempt[c]}
  /\ Unrepeatable(c) /\ pc[c] \in {"pacing", "backoff"} => Traces(c) = {}
  /\ Unrepeatable(c) /\ outcome[c] \in Refused => Traces(c) = {}

IInv == TypeOK /\ \A c \in Calls : CallInv(c)

-----------------------------------------------------------------------------
USE DEF Places, Outcomes, Specs, NoSpec

\* The counters stay natural numbers whatever a step counts.
LEMMA CountType ==
  ASSUME NEW S, counters \in [CounterNames -> Nat], Count(S)
  PROVE  counters' \in [CounterNames -> Nat]
  BY DEF Count

\* A call that no variable changes for keeps its part of the invariant.
LEMMA Untouched ==
  ASSUME NEW d \in Calls, CallInv(d),
         spec'[d] = spec[d], pc'[d] = pc[d], attempt'[d] = attempt[d],
         outcome'[d] = outcome[d], wire'[d] = wire[d], ran'[d] = ran[d]
  PROVE  CallInv(d)'
  BY DEF CallInv, Unrepeatable, Traces

\* A call is made: nothing has been sent for it.
LEMMA BeginStep ==
  ASSUME IInv, NEW c \in Calls, Begin(c)
  PROVE  IInv'
<1> USE DEF Begin, Goto, net
<1>1. TypeOK'
  BY DEF IInv, TypeOK
<1>2. ASSUME NEW d \in Calls PROVE CallInv(d)'
  <2>1. CASE d = c
    <3>1. CallInv(c) /\ TypeOK
      BY DEF IInv
    <3>2. spec'[c] \in Specs /\ pc'[c] = "pacing" /\ attempt'[c] = 0 /\ outcome'[c] = "none"
      BY <3>1 DEF CallInv, TypeOK
    <3>3. wire'[c] = {} /\ ran'[c] = {}
      BY <3>1 DEF CallInv, TypeOK, Traces
    <3>4. QED
      BY <2>1, <3>2, <3>3, TransportAssumption DEF CallInv, Unrepeatable, Traces
  <2>2. CASE d # c
    BY <2>2, Untouched DEF IInv, TypeOK
  <2>3. QED
    BY <2>1, <2>2
<1>3. QED
  BY <1>1, <1>2 DEF IInv

\* An attempt is dispatched: a call that may not be repeated has no trace of an
\* earlier one.
LEMMA DispatchStep ==
  ASSUME IInv, NEW c \in Calls, Dispatch(c)
  PROVE  IInv'
<1> USE DEF Dispatch, Goto, net
<1>1. TypeOK'
  <2>1. counters' \in [CounterNames -> Nat]
    BY CountType DEF IInv, TypeOK
  <2>2. QED
    BY <2>1, TransportAssumption DEF IInv, TypeOK
<1>2. ASSUME NEW d \in Calls PROVE CallInv(d)'
  <2>1. CASE d = c
    <3>1. CallInv(c) /\ TypeOK
      BY DEF IInv
    <3>2. /\ pc'[c] = "awaiting" /\ attempt'[c] = attempt[c] + 1
          /\ spec'[c] = spec[c] /\ outcome'[c] = outcome[c]
          /\ wire'[c] = wire[c] /\ ran'[c] = ran[c]
      BY <3>1 DEF TypeOK
    <3>3. attempt[c] \in Nat
      BY <3>1, TransportAssumption DEF TypeOK
    <3>4. QED
      BY <2>1, <3>1, <3>2, <3>3 DEF CallInv, Unrepeatable, Traces
  <2>2. CASE d # c
    BY <2>2, Untouched DEF IInv, TypeOK
  <2>3. QED
    BY <2>1, <2>2
<1>3. QED
  BY <1>1, <1>2 DEF IInv

\* An attempt fails in transit: it is repeated only if it cannot have arrived
\* or may run again.
LEMMA FailStep ==
  ASSUME IInv, NEW c \in Calls, NEW exc \in TransportErrors, Fail(c, exc)
  PROVE  IInv'
<1> USE DEF Fail, ErrorFor, Finish, Goto
<1>0. CallInv(c) /\ TypeOK /\ pc[c] = "awaiting" /\ attempt[c] \in 1 .. MaxAttempts
  BY TransportAssumption DEF IInv, CallInv, TypeOK
<1>1. TypeOK'
  <2>1. counters' \in [CounterNames -> Nat]
    BY CountType DEF IInv, TypeOK
  <2>2. wire' \in [Calls -> SUBSET (1 .. MaxAttempts)]
    BY <1>0 DEF TypeOK
  <2>3. pc' \in [Calls -> Places] /\ outcome' \in [Calls -> Outcomes \cup {"none"}]
    BY <1>0 DEF TypeOK
  <2>4. QED
    BY <1>0, <2>1, <2>2, <2>3 DEF TypeOK
<1>2. ASSUME NEW d \in Calls PROVE CallInv(d)'
  <2>1. CASE d = c
    <3>1. spec'[c] = spec[c] /\ attempt'[c] = attempt[c] /\ ran'[c] = ran[c]
      BY <1>0 DEF TypeOK
    <3>2. \/ wire'[c] = wire[c]
          \/ /\ exc \notin ConnectErrors
             /\ attempt[c] \notin ran[c]
             /\ wire'[c] = wire[c] \cup {attempt[c]}
      BY <1>0 DEF TypeOK, BeforeSending
    <3>3. exc \in ConnectErrors => wire'[c] = wire[c] /\ attempt[c] \notin Traces(c)
      BY <1>0 DEF TypeOK, BeforeSending, Traces
    <3>4. CASE RetriesError(c, exc)
      <4>1. pc'[c] = "backoff" /\ outcome'[c] = outcome[c]
        BY <1>0, <3>4 DEF TypeOK
      <4>2. attempt[c] < MaxAttempts
        BY <1>0, <3>4, TransportAssumption DEF RetriesError, Final
      <4>3. Unrepeatable(c) => exc \in ConnectErrors
        BY <3>4 DEF RetriesError, SafeToRepeat, Unrepeatable
      <4>4. QED
        BY <1>0, <2>1, <3>1, <3>2, <3>3, <4>1, <4>2, <4>3
           DEF CallInv, Unrepeatable, Traces, Refused
    <3>5. CASE ~RetriesError(c, exc)
      <4>1. /\ pc'[c] = "done"
            /\ outcome'[c] = IF exc \in ConnectErrors THEN "unreached" ELSE "lost"
        BY <1>0, <3>5 DEF TypeOK
      <4>2. QED
        BY <1>0, <2>1, <3>1, <3>2, <3>3, <4>1 DEF CallInv, Unrepeatable, Traces, Refused
    <3>6. QED
      BY <3>4, <3>5
  <2>2. CASE d # c
    BY <1>0, <2>2, Untouched DEF IInv, TypeOK
  <2>3. QED
    BY <2>1, <2>2
<1>3. QED
  BY <1>1, <1>2 DEF IInv

\* What an answer does to the network, whichever entry point receives it.
LEMMA AnsweredFacts ==
  ASSUME IInv, NEW c \in Calls, NEW s \in Statuses, Answered(c, s)
  PROVE  /\ CallInv(c) /\ TypeOK /\ pc[c] = "awaiting"
         /\ attempt[c] \in 1 .. MaxAttempts
         /\ wire' \in [Calls -> SUBSET (1 .. MaxAttempts)]
         /\ spec' = spec /\ attempt' = attempt /\ ran' = ran
         /\ \A d \in Calls \ {c} : wire'[d] = wire[d]
         /\ wire'[c] \subseteq wire[c]
         /\ s = "ok" => ran[c] # {}
         /\ s \in {"limited", "busy", "rejected"} =>
              attempt[c] \in wire[c] /\ wire'[c] = wire[c] \ {attempt[c]}
<1>1. CallInv(c) /\ TypeOK /\ pc[c] = "awaiting" /\ attempt[c] \in 1 .. MaxAttempts
  BY TransportAssumption DEF IInv, CallInv, TypeOK, Answered
<1>2. CASE s = "ok"
  BY <1>1, <1>2 DEF Answered, TypeOK
<1>3. CASE s = "transient"
  BY <1>1, <1>3 DEF Answered, TypeOK
<1>4. CASE s \in {"limited", "busy", "rejected"}
  BY <1>1, <1>4 DEF Answered, TypeOK
<1>5. QED
  BY <1>2, <1>3, <1>4 DEF Statuses

\* send() receives a response: it repeats a request that may not be repeated
\* only when the rate limiter dropped it.
LEMMA SendAnswerStep ==
  ASSUME IInv, NEW c \in Calls, NEW s \in Statuses, SendAnswer(c, s)
  PROVE  IInv'
<1> USE DEF Finish, Goto
<1>0. Answered(c, s) /\ spec[c].mode = "send"
  BY DEF SendAnswer
<1>1. TypeOK'
  <2>1. counters' \in [CounterNames -> Nat]
    BY CountType DEF SendAnswer, IInv, TypeOK
  <2>2. pc' \in [Calls -> Places] /\ outcome' \in [Calls -> Outcomes \cup {"none"}]
    BY <1>0, AnsweredFacts DEF SendAnswer, TypeOK, Statuses
  <2>3. QED
    BY <1>0, <2>1, <2>2, AnsweredFacts DEF TypeOK
<1>2. ASSUME NEW d \in Calls PROVE CallInv(d)'
  <2>1. CASE d = c
    <3>1. CASE RetriesStatus(c, s)
      <4>1. pc'[c] = "backoff" /\ outcome'[c] = outcome[c]
        BY <1>0, <3>1, AnsweredFacts DEF SendAnswer, TypeOK
      <4>2. attempt[c] < MaxAttempts
        BY <1>0, <3>1, AnsweredFacts, TransportAssumption DEF RetriesStatus, Final
      <4>3. Unrepeatable(c) => s = "limited"
        BY <3>1 DEF RetriesStatus, IsRateLimitRefusal, Unrepeatable
      <4>4. QED
        BY <1>0, <2>1, <4>1, <4>2, <4>3, AnsweredFacts
           DEF CallInv, Unrepeatable, Traces, Refused
    <3>2. CASE ~RetriesStatus(c, s)
      <4>1. pc'[c] = "done" /\ outcome'[c] = s
        BY <1>0, <3>2, AnsweredFacts DEF SendAnswer, TypeOK
      <4>2. s # "none"
        BY DEF Statuses
      <4>3. s \in Refused => s \in {"limited", "busy", "rejected"}
        BY DEF Statuses, Refused
      <4>4. QED
        BY <1>0, <2>1, <4>1, <4>2, <4>3, AnsweredFacts
           DEF CallInv, Unrepeatable, Traces
    <3>3. QED
      BY <3>1, <3>2
  <2>2. CASE d # c
    <3>1. pc'[d] = pc[d] /\ outcome'[d] = outcome[d]
      BY <1>0, <2>2, AnsweredFacts DEF SendAnswer, TypeOK
    <3>2. CallInv(d)
      BY DEF IInv
    <3>3. QED
      BY <1>0, <2>2, <3>1, <3>2, AnsweredFacts, Untouched
  <2>3. QED
    BY <2>1, <2>2
<1>3. QED
  BY <1>1, <1>2 DEF IInv

\* stream() receives the head of a response.
LEMMA StreamAnswerStep ==
  ASSUME IInv, NEW c \in Calls, NEW s \in Statuses, StreamAnswer(c, s)
  PROVE  IInv'
<1> USE DEF Finish, Goto
<1>0. Answered(c, s) /\ spec[c].mode = "stream" /\ ~Unrepeatable(c)
  BY DEF StreamAnswer, Unrepeatable
<1>1. TypeOK'
  <2>1. counters' \in [CounterNames -> Nat]
    BY CountType DEF StreamAnswer, IInv, TypeOK
  <2>2. pc' \in [Calls -> Places] /\ outcome' \in [Calls -> Outcomes \cup {"none"}]
    BY <1>0, AnsweredFacts DEF StreamAnswer, TypeOK, Statuses
  <2>3. QED
    BY <1>0, <2>1, <2>2, AnsweredFacts DEF TypeOK
<1>2. ASSUME NEW d \in Calls PROVE CallInv(d)'
  <2>1. CASE d = c
    <3>1. CASE RetriesStatus(c, s)
      <4>1. pc'[c] = "backoff" /\ outcome'[c] = outcome[c]
        BY <1>0, <3>1, AnsweredFacts DEF StreamAnswer, TypeOK, RetriesStatus, RetryableStatus
      <4>2. attempt[c] < MaxAttempts
        BY <1>0, <3>1, AnsweredFacts, TransportAssumption DEF RetriesStatus, Final
      <4>3. QED
        BY <1>0, <2>1, <4>1, <4>2, AnsweredFacts DEF CallInv, Unrepeatable, Traces
    <3>2. CASE ~RetriesStatus(c, s) /\ s = "ok"
      <4>1. pc'[c] = "body" /\ outcome'[c] = outcome[c]
        BY <1>0, <3>2, AnsweredFacts DEF StreamAnswer, TypeOK
      <4>2. QED
        BY <1>0, <2>1, <3>2, <4>1, AnsweredFacts DEF CallInv, Unrepeatable, Traces
    <3>3. CASE ~RetriesStatus(c, s) /\ s # "ok"
      <4>1. pc'[c] = "done" /\ outcome'[c] = s /\ s # "none"
        BY <1>0, <3>3, AnsweredFacts DEF StreamAnswer, TypeOK, Statuses
      <4>2. QED
        BY <1>0, <2>1, <3>3, <4>1, AnsweredFacts DEF CallInv, Unrepeatable, Traces
    <3>4. QED
      BY <3>1, <3>2, <3>3
  <2>2. CASE d # c
    <3>1. pc'[d] = pc[d] /\ outcome'[d] = outcome[d]
      BY <1>0, <2>2, AnsweredFacts DEF StreamAnswer, TypeOK
    <3>2. CallInv(d)
      BY DEF IInv
    <3>3. QED
      BY <1>0, <2>2, <3>1, <3>2, AnsweredFacts, Untouched
  <2>3. QED
    BY <2>1, <2>2
<1>3. QED
  BY <1>1, <1>2 DEF IInv

\* The steps that wait, read a body, or are the server's.
LEMMA OtherSteps ==
  ASSUME IInv, NEW c \in Calls, Resume(c) \/ BodyEnds(c) \/ Arrive(c) \/ Handle(c)
  PROVE  IInv'
<1> USE DEF Finish, Goto, net
<1>0. CallInv(c) /\ TypeOK
  BY DEF IInv
<1>1. CASE Resume(c)
  <2>1. TypeOK'
    BY <1>0, <1>1 DEF Resume, TypeOK
  <2>2. CallInv(c)'
    BY <1>0, <1>1 DEF Resume, TypeOK, CallInv, Unrepeatable, Traces
  <2>3. ASSUME NEW d \in Calls, d # c PROVE CallInv(d)'
    BY <1>0, <1>1, <2>3, Untouched DEF Resume, IInv, TypeOK
  <2>4. QED
    BY <2>1, <2>2, <2>3 DEF IInv
<1>2. CASE BodyEnds(c)
  <2>1. TypeOK'
    BY <1>0, <1>2 DEF BodyEnds, TypeOK
  <2>2. CallInv(c)'
    BY <1>0, <1>2 DEF BodyEnds, TypeOK, CallInv, Unrepeatable, Traces, Refused
  <2>3. ASSUME NEW d \in Calls, d # c PROVE CallInv(d)'
    BY <1>0, <1>2, <2>3, Untouched DEF BodyEnds, IInv, TypeOK
  <2>4. QED
    BY <2>1, <2>2, <2>3 DEF IInv
<1>3. CASE Arrive(c)
  <2>0. attempt[c] \in 1 .. MaxAttempts
    BY <1>0, <1>3, TransportAssumption DEF Arrive, TypeOK, CallInv
  <2>1. TypeOK'
    BY <1>0, <1>3, <2>0 DEF Arrive, TypeOK
  <2>2. CallInv(c)'
    BY <1>0, <1>3, <2>0 DEF Arrive, TypeOK, CallInv, Unrepeatable, Traces, Refused
  <2>3. ASSUME NEW d \in Calls, d # c PROVE CallInv(d)'
    BY <1>0, <1>3, <2>3, Untouched DEF Arrive, IInv, TypeOK
  <2>4. QED
    BY <2>1, <2>2, <2>3 DEF IInv
<1>4. CASE Handle(c)
  <2>1. TypeOK'
    BY <1>0, <1>4 DEF Handle, TypeOK
  <2>2. Traces(c)' = Traces(c) /\ (wire[c] \cap ran[c] = {} => wire'[c] \cap ran'[c] = {})
    BY <1>0, <1>4 DEF Handle, TypeOK, Traces
  <2>3. ran[c] \subseteq ran'[c]
    BY <1>0, <1>4 DEF Handle, TypeOK
  <2>4. CallInv(c)'
    BY <1>0, <1>4, <2>2, <2>3 DEF Handle, CallInv, Unrepeatable
  <2>5. ASSUME NEW d \in Calls, d # c PROVE CallInv(d)'
    BY <1>0, <1>4, <2>5, Untouched DEF Handle, IInv, TypeOK
  <2>6. QED
    BY <2>1, <2>4, <2>5 DEF IInv
<1>5. QED
  BY <1>1, <1>2, <1>3, <1>4

\* The invariant holds when nothing has been called, and every step keeps it.
LEMMA InitInv == Init => IInv
<1> SUFFICES ASSUME Init PROVE IInv
  OBVIOUS
<1>1. TypeOK
  BY TransportAssumption DEF Init, TypeOK
<1>2. ASSUME NEW c \in Calls PROVE CallInv(c)
  BY TransportAssumption DEF Init, CallInv, Unrepeatable, Traces, Refused
<1>3. QED
  BY <1>1, <1>2 DEF IInv

LEMMA NextInv == IInv /\ [Next]_vars => IInv'
<1> SUFFICES ASSUME IInv, [Next]_vars PROVE IInv'
  OBVIOUS
<1>1. CASE UNCHANGED vars
  BY <1>1 DEF vars, IInv, TypeOK, CallInv, Unrepeatable, Traces
<1>2. CASE Finished
  BY <1>1, <1>2 DEF Finished
<1>3. ASSUME NEW c \in Calls, Settle(c) PROVE IInv'
  BY <1>3, FailStep, SendAnswerStep, StreamAnswerStep DEF Settle
<1>4. ASSUME NEW c \in Calls,
             Begin(c) \/ Dispatch(c) \/ Resume(c) \/ BodyEnds(c) \/ Arrive(c) \/ Handle(c)
      PROVE  IInv'
  BY <1>4, BeginStep, DispatchStep, OtherSteps
<1>5. QED
  BY <1>1, <1>2, <1>3, <1>4 DEF Next

LEMMA Inductive == Spec => []IInv
  BY InitInv, NextInv, PTL DEF Spec

-----------------------------------------------------------------------------
(* The theorems. *)

\* Every variable keeps its type; no call dispatches more than MaxAttempts.
THEOREM TypeCorrect == Spec => []TypeOK
<1>1. IInv => TypeOK
  BY DEF IInv
<1>2. QED
  BY <1>1, Inductive, PTL

\* However often answers are lost or late, a request sent by send() that is not
\* safe to repeat is handled at most once.
THEOREM AtMostOnceCorrect == Spec => []AtMostOnce
<1>1. IInv => AtMostOnce
  BY DEF IInv, CallInv, AtMostOnce, Traces
<1>2. QED
  BY <1>1, Inductive, PTL

\* A refusal of such a request leaves nothing behind that could still run.
THEOREM RefusalCorrect == Spec => []RefusalIsFinal
<1>1. IInv => RefusalIsFinal
  BY DEF IInv, CallInv, RefusalIsFinal, Traces, Refused
<1>2. QED
  BY <1>1, Inductive, PTL

\* The loop always has a turn left when it is about to take one.
THEOREM LoopCorrect == Spec => []LoopNeverExhausted
<1>1. IInv => LoopNeverExhausted
  BY DEF IInv, CallInv, LoopNeverExhausted
<1>2. QED
  BY <1>1, Inductive, PTL

\* What NoEarlySurrender says of one call.
Surrender(c) ==
  outcome[c] \in {"lost", "unreached", "transient", "limited", "busy"}
    => \/ attempt[c] = MaxAttempts
       \/ ~spec[c].idempotent /\ outcome[c] \in {"lost", "transient", "busy"}

\* A call whose outcome, attempts and kind do not change keeps it.
LEMMA SurrenderUntouched ==
  ASSUME NEW d \in Calls, Surrender(d), outcome'[d] = outcome[d],
         outcome[d] # "none" => attempt'[d] = attempt[d] /\ spec'[d] = spec[d]
  PROVE  Surrender(d)'
  BY DEF Surrender

\* A failure is surfaced on the last attempt, or when the request may have run.
LEMMA SurrenderAtFail ==
  ASSUME IInv, NEW c \in Calls, NEW exc \in TransportErrors, Fail(c, exc), Surrender(c)
  PROVE  Surrender(c)'
<1> USE DEF Fail, ErrorFor, Finish, Goto
<1>1. spec' = spec /\ attempt' = attempt /\ outcome \in [Calls -> Outcomes \cup {"none"}]
  BY DEF IInv, TypeOK
<1>2. CASE RetriesError(c, exc)
  BY <1>1, <1>2, SurrenderUntouched
<1>3. CASE ~RetriesError(c, exc)
  <2>1. outcome'[c] = IF exc \in ConnectErrors THEN "unreached" ELSE "lost"
    BY <1>1, <1>3
  <2>2. attempt[c] = MaxAttempts \/ (exc \notin ConnectErrors /\ ~spec[c].idempotent)
    BY <1>3 DEF RetriesError, SafeToRepeat, Final
  <2>3. QED
    BY <1>1, <2>1, <2>2 DEF Surrender
<1>4. QED
  BY <1>2, <1>3

\* So is a status; the rate limiter's refusal is not, whatever the request.
LEMMA SurrenderAtAnswer ==
  ASSUME IInv, NEW c \in Calls, NEW s \in Statuses, Surrender(c),
         SendAnswer(c, s) \/ StreamAnswer(c, s)
  PROVE  Surrender(c)'
<1> USE DEF Finish, Goto
<1>1. /\ spec' = spec /\ attempt' = attempt
      /\ outcome \in [Calls -> Outcomes \cup {"none"}]
  BY DEF IInv, TypeOK, SendAnswer, StreamAnswer, Answered
<1>2. CASE outcome' = outcome
  BY <1>1, <1>2, SurrenderUntouched
<1>3. CASE outcome' # outcome
  <2>1. ~RetriesStatus(c, s) /\ outcome'[c] = s
    BY <1>1, <1>3 DEF SendAnswer, StreamAnswer
  <2>2. s \in {"transient", "limited", "busy"} =>
          attempt[c] = MaxAttempts \/ (~spec[c].idempotent /\ s # "limited")
    BY <2>1 DEF RetriesStatus, RetryableStatus, TooManyRequests, IsRateLimitRefusal, Final
  <2>3. s \in {"lost", "unreached"} => FALSE
    BY DEF Statuses
  <2>4. QED
    BY <1>1, <2>1, <2>2, <2>3 DEF Surrender
<1>4. QED
  BY <1>2, <1>3

\* The other steps end no call with one of these outcomes.
LEMMA SurrenderElsewhere ==
  ASSUME IInv, NEW c \in Calls, NEW d \in Calls, Surrender(d),
         Begin(c) \/ Dispatch(c) \/ Resume(c) \/ BodyEnds(c) \/ Arrive(c) \/ Handle(c)
  PROVE  Surrender(d)'
<1> USE DEF Finish, Goto
<1>1. TypeOK /\ CallInv(d) /\ CallInv(c)
  BY DEF IInv
<1>2. CASE d = c /\ BodyEnds(c)
  BY <1>1, <1>2 DEF BodyEnds, TypeOK, Surrender
<1>3. CASE ~(d = c /\ BodyEnds(c))
  <2>1. outcome'[d] = outcome[d]
    BY <1>1, <1>3 DEF TypeOK, Begin, Dispatch, Resume, BodyEnds, Arrive, Handle
  <2>2. outcome[d] # "none" => attempt'[d] = attempt[d] /\ spec'[d] = spec[d]
    BY <1>1 DEF TypeOK, CallInv, Begin, Dispatch, Resume, BodyEnds, Arrive, Handle
  <2>3. QED
    BY <2>1, <2>2, SurrenderUntouched
<1>4. QED
  BY <1>2, <1>3

\* A failure that could have been retried is surfaced only when the attempts are
\* used up or repeating might do the work twice.
THEOREM NoEarlySurrenderCorrect == Spec => []NoEarlySurrender
<1> DEFINE SInv == IInv /\ \A c \in Calls : Surrender(c)
<1>1. Init => SInv
  BY InitInv DEF Init, Surrender
<1>2. SInv /\ [Next]_vars => SInv'
  <2> SUFFICES ASSUME SInv, [Next]_vars, NEW d \in Calls PROVE Surrender(d)'
    BY NextInv
  <2>1. CASE UNCHANGED vars
    BY <2>1 DEF vars, Surrender
  <2>2. CASE Finished
    BY <2>1, <2>2 DEF Finished
  <2>3. ASSUME NEW c \in Calls, NEW exc \in TransportErrors, Fail(c, exc)
        PROVE  Surrender(d)'
    <3>1. CASE d = c
      BY <2>3, <3>1, SurrenderAtFail
    <3>2. CASE d # c
      <4>1. outcome'[d] = outcome[d] /\ attempt' = attempt /\ spec' = spec
        BY <2>3, <3>2 DEF IInv, TypeOK, Fail, Finish, Goto
      <4>2. QED
        BY <4>1, SurrenderUntouched
    <3>3. QED
      BY <3>1, <3>2
  <2>4. ASSUME NEW c \in Calls, NEW s \in Statuses, SendAnswer(c, s) \/ StreamAnswer(c, s)
        PROVE  Surrender(d)'
    <3>1. CASE d = c
      BY <2>4, <3>1, SurrenderAtAnswer
    <3>2. CASE d # c
      <4>1. outcome'[d] = outcome[d] /\ attempt' = attempt /\ spec' = spec
        BY <2>4, <3>2 DEF IInv, TypeOK, SendAnswer, StreamAnswer, Answered, Finish, Goto
      <4>2. QED
        BY <4>1, SurrenderUntouched
    <3>3. QED
      BY <3>1, <3>2
  <2>5. ASSUME NEW c \in Calls,
               Begin(c) \/ Dispatch(c) \/ Resume(c) \/ BodyEnds(c) \/ Arrive(c) \/ Handle(c)
        PROVE  Surrender(d)'
    BY <2>5, SurrenderElsewhere
  <2>6. QED
    BY <2>1, <2>2, <2>3, <2>4, <2>5 DEF Next, Settle
<1>3. SInv => NoEarlySurrender
  BY DEF NoEarlySurrender, Surrender
<1>4. QED
  BY <1>1, <1>2, <1>3, PTL DEF Spec

-----------------------------------------------------------------------------
(* Refinement of CallContract. *)

\* What the contract sees of c: its phase, its verdict, and whether it repeats.
Repeats(c) == spec[c].mode = "stream" \/ spec[c].idempotent

\* A call in progress repeats in the contract or is subject to AtMostOnce.
LEMMA RepeatsOrNot ==
  ASSUME NEW c \in Calls, CallInv(c), pc[c] # "idle"
  PROVE  Repeats(c) \/ Unrepeatable(c)
  BY TransportAssumption DEF CallInv, Repeats, Unrepeatable

\* A step that changes nothing the contract sees of any call is a stutter.
LEMMA Stutters ==
  ASSUME ran' = ran,
         \A d \in Calls : /\ PhaseOf(d)' = PhaseOf(d)
                          /\ VerdictOf(d)' = VerdictOf(d)
                          /\ Repeats(d)' = Repeats(d)
  PROVE  UNCHANGED Contract!vars
  BY DEF Contract!vars, Repeats

\* A call that ends with a verdict the contract allows is a step End.
LEMMA Ends ==
  ASSUME NEW c \in Calls, NEW v \in {"success", "refused", "unknown"},
         ran' = ran, spec' = spec,
         PhaseOf(c) = "running", PhaseOf(c)' = "ended", VerdictOf(c)' = v,
         \A d \in Calls \ {c} : /\ PhaseOf(d)' = PhaseOf(d)
                                /\ VerdictOf(d)' = VerdictOf(d),
         v = "success" => ran[c] # {},
         v = "refused" => Repeats(c) \/ ran[c] = {}
  PROVE  Contract!Next
<1>1. Contract!End(c, v)
  BY Zenon DEF Contract!End, Repeats
<1>2. QED
  BY <1>1 DEF Contract!Next

\* A step that leaves every call at a place of the same phase stutters.
LEMMA StaysRunning ==
  ASSUME NEW c \in Calls, TypeOK, ran' = ran, spec' = spec, outcome' = outcome,
         NEW q \in {"pacing", "awaiting", "backoff", "body"},
         pc[c] \in {"pacing", "awaiting", "backoff", "body"},
         pc' = [pc EXCEPT ![c] = q]
  PROVE  UNCHANGED Contract!vars
<1>1. ASSUME NEW d \in Calls
      PROVE  /\ PhaseOf(d)' = PhaseOf(d)
             /\ VerdictOf(d)' = VerdictOf(d)
             /\ Repeats(d)' = Repeats(d)
  BY DEF TypeOK, PhaseOf, VerdictOf, Repeats
<1>2. QED
  BY <1>1, Stutters

\* A call whose loop returns or raises ends the contract's call.
LEMMA Finishes ==
  ASSUME NEW c \in Calls, IInv, ran' = ran, spec' = spec,
         pc[c] \in {"awaiting", "body"},
         NEW r \in Outcomes, Finish(c, r),
         r = "ok" => ran[c] # {},
         r \in Refused => Repeats(c) \/ ran[c] = {}
  PROVE  Contract!Next
<1>1. /\ pc' = [pc EXCEPT ![c] = "done"]
      /\ outcome' = [outcome EXCEPT ![c] = r]
      /\ TypeOK /\ CallInv(c)
  BY DEF Finish, Goto, IInv
<1>2. PhaseOf(c) = "running" /\ PhaseOf(c)' = "ended"
  BY <1>1 DEF TypeOK, PhaseOf
<1>3. ASSUME NEW d \in Calls \ {c}
      PROVE  PhaseOf(d)' = PhaseOf(d) /\ VerdictOf(d)' = VerdictOf(d)
  BY <1>1 DEF TypeOK, PhaseOf, VerdictOf
<1>4. outcome'[c] = r
  BY <1>1 DEF TypeOK
<1>5. CASE r = "ok"
  <2>1. VerdictOf(c)' = "success"
    BY <1>4, <1>5 DEF VerdictOf
  <2>2. QED
    BY <1>2, <1>3, <1>5, <2>1, Ends
<1>6. CASE r \in Refused
  <2>1. VerdictOf(c)' = "refused"
    BY <1>4, <1>6 DEF VerdictOf, Refused
  <2>2. QED
    BY <1>2, <1>3, <1>6, <2>1, Ends
<1>7. CASE r \notin Refused \cup {"ok"}
  <2>1. VerdictOf(c)' = "unknown"
    BY <1>4, <1>7 DEF VerdictOf, Refused
  <2>2. QED
    BY <1>2, <1>3, <2>1, Ends
<1>8. QED
  BY <1>5, <1>6, <1>7

\* Each step of the transport is a step of the contract or a stutter.
LEMMA StepRefines == IInv /\ IInv' /\ [Next]_vars => [Contract!Next]_(Contract!vars)
<1> SUFFICES ASSUME IInv, IInv', [Next]_vars PROVE [Contract!Next]_(Contract!vars)
  OBVIOUS
<1> USE DEF net
<1>0. TypeOK /\ \A c \in Calls : CallInv(c)
  BY DEF IInv
<1>1. CASE UNCHANGED vars
  <2>1. \A d \in Calls : /\ PhaseOf(d)' = PhaseOf(d)
                         /\ VerdictOf(d)' = VerdictOf(d)
                         /\ Repeats(d)' = Repeats(d)
    BY <1>1 DEF vars, PhaseOf, VerdictOf, Repeats
  <2>2. QED
    BY <1>1, <2>1, Stutters DEF vars
<1>2. ASSUME NEW c \in Calls, Begin(c) PROVE Contract!Next
  <2>1. PICK sp \in Specs : spec' = [spec EXCEPT ![c] = sp]
    BY <1>2 DEF Begin
  <2>2. pc[c] = "idle" /\ pc' = [pc EXCEPT ![c] = "pacing"] /\ outcome' = outcome /\ ran' = ran
    BY <1>2 DEF Begin, Goto
  <2>3. /\ PhaseOf(c) = "idle" /\ PhaseOf(c)' = "running"
        /\ \A d \in Calls \ {c} : PhaseOf(d)' = PhaseOf(d)
    BY <1>0, <2>2 DEF PhaseOf, TypeOK
  <2>4. \A d \in Calls : VerdictOf(d)' = VerdictOf(d)
    BY <2>2 DEF VerdictOf
  <2>5. Repeats(c)' \in BOOLEAN /\ \A d \in Calls \ {c} : Repeats(d)' = Repeats(d)
    BY <1>0, <2>1 DEF Repeats, TypeOK
  <2>6. Contract!Start(c)
    BY <2>2, <2>3, <2>4, <2>5, Zenon DEF Contract!Start, Repeats
  <2>7. QED
    BY <2>6 DEF Contract!Next
<1>3. ASSUME NEW c \in Calls, Dispatch(c) \/ Resume(c) PROVE UNCHANGED Contract!vars
  BY <1>0, <1>3, StaysRunning DEF Dispatch, Resume, Goto
<1>4. ASSUME NEW c \in Calls, NEW exc \in TransportErrors, Fail(c, exc)
      PROVE  [Contract!Next]_(Contract!vars)
  <2>1. CASE RetriesError(c, exc)
    BY <1>0, <1>4, <2>1, StaysRunning DEF Fail, ErrorFor, Goto
  <2>2. CASE ~RetriesError(c, exc)
    <3>1. exc \in ConnectErrors => attempt[c] \notin Traces(c)
      BY <1>4 DEF Fail, ErrorFor, BeforeSending, Traces
    <3>2. ~Repeats(c) => Traces(c) \subseteq {attempt[c]}
      BY <1>0, <1>4, RepeatsOrNot DEF CallInv, Fail, ErrorFor
    <3>3. exc \in ConnectErrors => Repeats(c) \/ ran[c] = {}
      BY <3>1, <3>2 DEF Traces
    <3>4. QED
      BY <1>4, <2>2, <3>3, Finishes DEF Fail, ErrorFor, Refused
  <2>3. QED
    BY <2>1, <2>2
<1>5. ASSUME NEW c \in Calls, NEW s \in Statuses, SendAnswer(c, s) \/ StreamAnswer(c, s)
      PROVE  [Contract!Next]_(Contract!vars)
  <2>0. Answered(c, s)
    BY <1>5 DEF SendAnswer, StreamAnswer
  <2>1. ~Repeats(c) /\ s \in {"limited", "busy", "rejected"} => ran[c] = {}
    BY <1>0, <2>0, AnsweredFacts, RepeatsOrNot DEF CallInv, Traces
  <2>2. CASE Finish(c, s)
    <3>1. s \in Outcomes /\ (s \in Refused => s \in {"limited", "busy", "rejected"})
      BY DEF Statuses, Refused
    <3>2. QED
      BY <2>0, <2>1, <2>2, <3>1, AnsweredFacts, Finishes
  <2>3. CASE (Goto(c, "backoff") \/ Goto(c, "body")) /\ UNCHANGED outcome
    BY <2>0, <2>3, AnsweredFacts, StaysRunning DEF Goto
  <2>4. QED
    BY <1>5, <2>2, <2>3 DEF SendAnswer, StreamAnswer, RetriesStatus, RetryableStatus
<1>6. ASSUME NEW c \in Calls, BodyEnds(c) PROVE Contract!Next
  <2>1. ran[c] # {}
    BY <1>0, <1>6 DEF BodyEnds, CallInv
  <2>2. QED
    BY <1>6, <2>1, Finishes DEF BodyEnds, Refused
<1>7. ASSUME NEW c \in Calls, Arrive(c) PROVE UNCHANGED Contract!vars
  <2>1. \A d \in Calls : /\ PhaseOf(d)' = PhaseOf(d)
                         /\ VerdictOf(d)' = VerdictOf(d)
                         /\ Repeats(d)' = Repeats(d)
    BY <1>7 DEF Arrive, PhaseOf, VerdictOf, Repeats
  <2>2. QED
    BY <1>7, <2>1, Stutters DEF Arrive
<1>8. ASSUME NEW c \in Calls, Handle(c) PROVE Contract!Next
  <2>1. PICK a \in wire[c] : ran' = [ran EXCEPT ![c] = @ \cup {a}]
    BY <1>8 DEF Handle
  <2>2. a \in (1 .. MaxAttempts) \ ran[c]
    BY <1>0, <2>1 DEF TypeOK, CallInv
  <2>3. PhaseOf(c) # "idle"
    BY <1>0, <2>1, TransportAssumption DEF CallInv, Traces, TypeOK, PhaseOf
  <2>4. Repeats(c) \/ (ran[c] = {} /\ VerdictOf(c) # "refused")
    <3>1. Repeats(c) \/ Unrepeatable(c)
      BY <1>0, <2>3, RepeatsOrNot DEF PhaseOf
    <3>2. CASE Unrepeatable(c)
      <4>1. Traces(c) = {attempt[c]} /\ a \in Traces(c) /\ a \notin ran[c]
        BY <1>0, <2>2, <3>2 DEF CallInv, Traces
      <4>2. ran[c] = {}
        BY <4>1 DEF Traces
      <4>3. outcome[c] \notin Refused
        BY <1>0, <3>2, <4>1 DEF CallInv
      <4>4. VerdictOf(c) # "refused"
        BY <4>3 DEF VerdictOf, Refused
      <4>5. QED
        BY <4>2, <4>4
    <3>3. QED
      BY <3>1, <3>2
  <2>5. Contract!TakeEffect(c)
    <3>1. \A d \in Calls : /\ PhaseOf(d)' = PhaseOf(d)
                           /\ VerdictOf(d)' = VerdictOf(d)
                           /\ Repeats(d)' = Repeats(d)
      BY <1>8 DEF Handle, PhaseOf, VerdictOf, Repeats
    <3>2. QED
      BY <2>1, <2>2, <2>3, <2>4, <3>1, Zenon DEF Contract!TakeEffect, Repeats
  <2>6. QED
    BY <2>5 DEF Contract!Next
<1>9. QED
  BY <1>1, <1>2, <1>3, <1>4, <1>5, <1>6, <1>7, <1>8 DEF Next, Settle, Finished

\* With nothing called the contract is in its initial state too.
LEMMA InitRefines == Init => Contract!Init
<1> SUFFICES ASSUME Init PROVE Contract!Init
  OBVIOUS
<1>1. ASSUME NEW c \in Calls
      PROVE  PhaseOf(c) = "idle" /\ VerdictOf(c) = "none" /\ Repeats(c) = FALSE
  BY DEF Init, PhaseOf, VerdictOf, Repeats
<1>2. ran = [c \in Calls |-> {}]
  BY DEF Init
<1>3. QED
  BY <1>1, <1>2, Zenon DEF Contract!Init, Repeats

\* The retry loop, its network and its server implement CallContract: the
\* promises a caller relies on hold for every number of calls and attempts.
THEOREM ImplementsContract == Spec => KeepsContract
<1>1. Init => Contract!Init
  BY InitRefines
<1>2. IInv /\ IInv' /\ [Next]_vars => [Contract!Next]_(Contract!vars)
  BY StepRefines
<1>3. QED
  BY <1>1, <1>2, Inductive, PTL DEF Spec, KeepsContract, Contract!Spec

-----------------------------------------------------------------------------
(* CountersBalance: the calls at each place, counted. *)

At(S) == {c \in Calls : pc[c] \in S}
With(S) == {c \in Calls : outcome[c] \in S}
Begun == {c \in Calls : attempt[c] > 0}
Repeating == {c \in Calls : attempt[c] > 0 /\ pc[c] \in {"pacing", "backoff"}}

Failures == {"limited", "busy", "transient", "rejected"}

NoStream == \A c \in Calls : spec[c].mode # "stream"

\* What CountersBalance says, of these sets.
Balanced ==
  /\ counters["http_attempts"]
       = counters["transport_errors"] + counters["responses"] + Cardinality(At({"awaiting"}))
  /\ counters["responses"]
       = counters["http_transient"] + counters["http_rejected"] + Cardinality(With({"ok"}))
  /\ counters["http_attempts"] + Cardinality(Repeating)
       = Cardinality(Begun) + counters["http_retries"]
  /\ counters["http_errors"] = Cardinality(With(Failures))
  /\ counters["http_429"] <= counters["http_transient"]
  /\ counters["http_timeouts"] <= counters["transport_errors"]

LEMMA BalanceIsBalanced == CountersBalance <=> (NoStream => Balanced)
  BY DEF CountersBalance, NoStream, Balanced, CallsAt, CallsWith, At, With, Begun, Repeating,
         Failures

\* A call that enters a set, or leaves it, changes its size by one.
LEMMA SubsetsOfCalls ==
  ASSUME NEW S \in SUBSET Calls
  PROVE  /\ IsFiniteSet(S) /\ Cardinality(S) \in Nat
         /\ \A c : c \notin S => Cardinality(S \cup {c}) = Cardinality(S) + 1
         /\ \A c : c \in S => Cardinality(S \ {c}) = Cardinality(S) - 1
<1>1. IsFiniteSet(S) /\ Cardinality(S) \in Nat
  BY FS_Subset, FS_CardinalityType, TransportAssumption
<1>2. QED
  BY <1>1, FS_AddElement, FS_RemoveElement

LEMMA SizesAreNumbers ==
  /\ \A S : Cardinality(At(S)) \in Nat /\ Cardinality(With(S)) \in Nat
  /\ Cardinality(Begun) \in Nat /\ Cardinality(Repeating) \in Nat
<1>1. /\ \A S : At(S) \in SUBSET Calls /\ With(S) \in SUBSET Calls
      /\ Begun \in SUBSET Calls /\ Repeating \in SUBSET Calls
  BY DEF At, With, Begun, Repeating
<1>2. QED
  BY <1>1, SubsetsOfCalls

\* What a step counts is added, name by name.
LEMMA Counted ==
  ASSUME counters \in [CounterNames -> Nat], NEW S, Count(S)
  PROVE  \A n \in CounterNames :
           counters[n] \in Nat /\ counters'[n] = counters[n] + (IF n \in S THEN 1 ELSE 0)
  BY DEF Count

\* Dispatching begins the call, or ends its being about to repeat.
LEMMA BalanceAtDispatch ==
  ASSUME IInv, Balanced, NEW c \in Calls, Dispatch(c)
  PROVE  Balanced'
<1> USE DEF Dispatch, Goto
<1>0. /\ TypeOK /\ CallInv(c) /\ pc[c] = "pacing" /\ outcome' = outcome
      /\ pc' = [pc EXCEPT ![c] = "awaiting"]
      /\ attempt' = [attempt EXCEPT ![c] = @ + 1]
  BY DEF IInv
<1>1. /\ pc \in [Calls -> Places] /\ attempt \in [Calls -> Nat]
      /\ counters \in [CounterNames -> Nat]
  BY <1>0, TransportAssumption DEF TypeOK
<1>2. At({"awaiting"})' = At({"awaiting"}) \cup {c} /\ c \notin At({"awaiting"})
  BY <1>0, <1>1 DEF At
<1>3. With({"ok"})' = With({"ok"}) /\ With(Failures)' = With(Failures)
  BY <1>0 DEF With
<1>4. Cardinality(At({"awaiting"})') = Cardinality(At({"awaiting"})) + 1
  <2>1. At({"awaiting"}) \in SUBSET Calls
    BY DEF At
  <2>2. QED
    BY <1>2, <2>1, SubsetsOfCalls
<1>5. /\ Cardinality(Repeating') \in Nat /\ Cardinality(Begun') \in Nat
      /\ Cardinality(Repeating') + Cardinality(Begun) + 1 = Cardinality(Repeating) + Cardinality(Begun')
  <2>1. /\ Begun \in SUBSET Calls /\ Repeating \in SUBSET Calls
        /\ Begun' \in SUBSET Calls /\ Repeating' \in SUBSET Calls
    BY DEF Begun, Repeating
  <2>2. CASE attempt[c] = 0
    <3>1. Begun' = Begun \cup {c} /\ c \notin Begun /\ Repeating' = Repeating
      BY <1>0, <1>1, <2>2 DEF Begun, Repeating
    <3>2. QED
      BY <2>1, <3>1, SubsetsOfCalls
  <2>3. CASE attempt[c] > 0
    <3>1. Begun' = Begun /\ Repeating' = Repeating \ {c} /\ c \in Repeating
      BY <1>0, <1>1, <2>3 DEF Begun, Repeating
    <3>2. QED
      BY <2>1, <3>1, SubsetsOfCalls
  <2>4. QED
    BY <1>1, <2>2, <2>3
<1>6. \A n \in CounterNames :
        /\ counters[n] \in Nat
        /\ counters'[n] = counters[n] + (IF n = "http_attempts" THEN 1 ELSE 0)
  BY <1>1, Counted
<1>7. QED
  BY <1>3, <1>4, <1>5, <1>6, SizesAreNumbers DEF Balanced, CounterNames, Failures


\* Where an attempt ends in a retry, the call is about to repeat.
LEMMA SizesAfterRetry ==
  ASSUME IInv, NEW c \in Calls, pc[c] = "awaiting", Goto(c, "backoff"),
         UNCHANGED <<attempt, outcome>>
  PROVE  /\ Cardinality(At({"awaiting"})') = Cardinality(At({"awaiting"})) - 1
         /\ Cardinality(Repeating') = Cardinality(Repeating) + 1
         /\ Begun' = Begun
         /\ With({"ok"})' = With({"ok"}) /\ With(Failures)' = With(Failures)
<1>0. /\ pc \in [Calls -> Places] /\ pc' = [pc EXCEPT ![c] = "backoff"]
      /\ attempt[c] > 0
  BY TransportAssumption DEF IInv, TypeOK, CallInv, Goto
<1>1. /\ At({"awaiting"}) \in SUBSET Calls /\ c \in At({"awaiting"})
      /\ At({"awaiting"})' = At({"awaiting"}) \ {c}
  BY <1>0 DEF At
<1>2. /\ Repeating \in SUBSET Calls /\ c \notin Repeating
      /\ Repeating' = Repeating \cup {c}
  BY <1>0 DEF Repeating
<1>3. /\ Begun' = Begun
      /\ With({"ok"})' = With({"ok"}) /\ With(Failures)' = With(Failures)
  BY DEF Begun, With
<1>4. QED
  BY <1>1, <1>2, <1>3, SubsetsOfCalls

\* Where it ends the call, it is counted by its outcome.
LEMMA SizesAfterFinish ==
  ASSUME IInv, NEW c \in Calls, pc[c] = "awaiting", NEW result, Finish(c, result),
         UNCHANGED attempt
  PROVE  /\ Cardinality(At({"awaiting"})') = Cardinality(At({"awaiting"})) - 1
         /\ Repeating' = Repeating /\ Begun' = Begun
         /\ \A S : "none" \notin S =>
              Cardinality(With(S)') = Cardinality(With(S)) + (IF result \in S THEN 1 ELSE 0)
<1>0. /\ pc \in [Calls -> Places] /\ pc' = [pc EXCEPT ![c] = "done"]
      /\ outcome \in [Calls -> Outcomes \cup {"none"}]
      /\ outcome' = [outcome EXCEPT ![c] = result] /\ outcome[c] = "none"
  BY DEF IInv, TypeOK, CallInv, Finish, Goto
<1>1. /\ At({"awaiting"}) \in SUBSET Calls /\ c \in At({"awaiting"})
      /\ At({"awaiting"})' = At({"awaiting"}) \ {c}
  BY <1>0 DEF At
<1>2. Repeating' = Repeating /\ Begun' = Begun
  BY <1>0 DEF Repeating, Begun
<1>3. ASSUME NEW S, "none" \notin S
      PROVE  Cardinality(With(S)') = Cardinality(With(S)) + (IF result \in S THEN 1 ELSE 0)
  <2>1. With(S) \in SUBSET Calls /\ c \notin With(S)
    BY <1>0, <1>3 DEF With
  <2>2. With(S)' = IF result \in S THEN With(S) \cup {c} ELSE With(S)
    BY <1>0, <1>3 DEF With
  <2>3. QED
    BY <2>1, <2>2, SubsetsOfCalls
<1>4. QED
  BY <1>1, <1>2, <1>3, SubsetsOfCalls

\* A failure in transit is counted as one, and is retried or surfaces.
LEMMA BalanceAtFail ==
  ASSUME IInv, Balanced, NEW c \in Calls, NEW exc \in TransportErrors, Fail(c, exc)
  PROVE  Balanced'
<1>1. /\ pc[c] = "awaiting" /\ attempt' = attempt
      /\ counters \in [CounterNames -> Nat] /\ Count(ErrorCounters(c, exc))
  BY DEF Fail, IInv, TypeOK
<1>2. \A n \in CounterNames :
        /\ counters[n] \in Nat
        /\ counters'[n] = counters[n] + (IF n \in ErrorCounters(c, exc) THEN 1 ELSE 0)
  BY <1>1, Counted
<1>3. CASE RetriesError(c, exc)
  <2>1. Goto(c, "backoff") /\ outcome' = outcome
    BY <1>3 DEF Fail
  <2>2. /\ "transport_errors" \in ErrorCounters(c, exc)
        /\ "http_retries" \in ErrorCounters(c, exc)
        /\ ErrorCounters(c, exc) \subseteq {"transport_errors", "http_retries", "http_timeouts"}
    BY <1>3 DEF ErrorCounters, When
  <2>3. QED
    BY <1>1, <1>2, <2>1, <2>2, SizesAfterRetry, SizesAreNumbers DEF Balanced, CounterNames
<1>4. CASE ~RetriesError(c, exc)
  <2>1. Finish(c, ErrorFor(exc)) /\ ErrorFor(exc) \notin {"ok"} \cup Failures
    BY <1>4 DEF Fail, ErrorFor, Failures
  <2>2. /\ "transport_errors" \in ErrorCounters(c, exc)
        /\ ErrorCounters(c, exc) \subseteq {"transport_errors", "http_timeouts"}
    BY <1>4 DEF ErrorCounters, When
  <2>3. "none" \notin {"ok"} /\ "none" \notin Failures
    BY DEF Failures
  <2>4. /\ Cardinality(With({"ok"})') = Cardinality(With({"ok"}))
        /\ Cardinality(With(Failures)') = Cardinality(With(Failures))
    BY <1>1, <2>1, <2>3, SizesAfterFinish, SizesAreNumbers
  <2>5. QED
    BY <1>1, <1>2, <2>1, <2>2, <2>4, SizesAfterFinish, SizesAreNumbers DEF Balanced, CounterNames
<1>5. QED
  BY <1>3, <1>4

\* An answer to send() is counted as one, under one cause.
LEMMA BalanceAtSendAnswer ==
  ASSUME IInv, Balanced, NEW c \in Calls, NEW s \in Statuses, SendAnswer(c, s)
  PROVE  Balanced'
<1>1. /\ pc[c] = "awaiting" /\ attempt' = attempt
      /\ counters \in [CounterNames -> Nat] /\ Count(SendCounters(c, s))
  BY DEF SendAnswer, Answered, IInv, TypeOK
<1>2. \A n \in CounterNames :
        /\ counters[n] \in Nat
        /\ counters'[n] = counters[n] + (IF n \in SendCounters(c, s) THEN 1 ELSE 0)
  BY <1>1, Counted
<1>3. /\ "responses" \in SendCounters(c, s)
      /\ "http_transient" \in SendCounters(c, s) <=> s \in RetryableStatus
      /\ "http_rejected" \in SendCounters(c, s) <=> s = "rejected"
      /\ "http_429" \in SendCounters(c, s) <=> s \in TooManyRequests
      /\ "http_retries" \in SendCounters(c, s) <=> RetriesStatus(c, s)
      /\ "http_errors" \in SendCounters(c, s) <=> ~RetriesStatus(c, s) /\ s # "ok"
      /\ \A n \in {"http_attempts", "transport_errors", "http_timeouts"} :
           n \notin SendCounters(c, s)
  BY DEF SendCounters, When
<1>4. /\ \A n \in CounterNames : counters[n] \in Nat
      /\ counters'["http_attempts"] = counters["http_attempts"]
      /\ counters'["transport_errors"] = counters["transport_errors"]
      /\ counters'["http_timeouts"] = counters["http_timeouts"]
      /\ counters'["responses"] = counters["responses"] + 1
      /\ counters'["http_transient"]
           = counters["http_transient"] + (IF s \in RetryableStatus THEN 1 ELSE 0)
      /\ counters'["http_rejected"] = counters["http_rejected"] + (IF s = "rejected" THEN 1 ELSE 0)
      /\ counters'["http_429"] = counters["http_429"] + (IF s \in TooManyRequests THEN 1 ELSE 0)
      /\ counters'["http_retries"]
           = counters["http_retries"] + (IF RetriesStatus(c, s) THEN 1 ELSE 0)
      /\ counters'["http_errors"]
           = counters["http_errors"] + (IF ~RetriesStatus(c, s) /\ s # "ok" THEN 1 ELSE 0)
  BY <1>2, <1>3 DEF CounterNames
<1>5. CASE RetriesStatus(c, s)
  <2>1. Goto(c, "backoff") /\ outcome' = outcome
    BY <1>5 DEF SendAnswer
  <2>2. s \in RetryableStatus /\ s # "rejected"
    BY <1>5 DEF RetriesStatus, RetryableStatus
  <2>3. /\ Cardinality(At({"awaiting"})') = Cardinality(At({"awaiting"})) - 1
        /\ Cardinality(Repeating') = Cardinality(Repeating) + 1
        /\ Begun' = Begun
        /\ With({"ok"})' = With({"ok"}) /\ With(Failures)' = With(Failures)
    BY <1>1, <2>1, SizesAfterRetry
  <2>4. QED
    BY <1>4, <1>5, <2>2, <2>3, SizesAreNumbers DEF Balanced, CounterNames
<1>6. CASE ~RetriesStatus(c, s)
  <2>1. Finish(c, s)
    BY <1>6 DEF SendAnswer
  <2>2. "none" \notin {"ok"} /\ "none" \notin Failures
    BY DEF Failures
  <2>3. /\ Cardinality(With({"ok"})') = Cardinality(With({"ok"})) + (IF s = "ok" THEN 1 ELSE 0)
        /\ Cardinality(With(Failures)')
             = Cardinality(With(Failures)) + (IF s \in Failures THEN 1 ELSE 0)
    BY <1>1, <2>1, <2>2, SizesAfterFinish
  <2>4. /\ s \in Failures <=> s # "ok"
        /\ s \in TooManyRequests => s \in RetryableStatus
        /\ s = "ok" \/ s = "rejected" \/ s \in RetryableStatus
        /\ s \in RetryableStatus => s # "ok" /\ s # "rejected"
    BY DEF Failures, Statuses, TooManyRequests, RetryableStatus
  <2>5. /\ Cardinality(At({"awaiting"})') = Cardinality(At({"awaiting"})) - 1
        /\ Repeating' = Repeating /\ Begun' = Begun
    BY <1>1, <2>1, SizesAfterFinish
  <2>6. QED
    BY <1>4, <1>6, <2>3, <2>4, <2>5, SizesAreNumbers DEF Balanced, CounterNames
<1>7. QED
  BY <1>5, <1>6

\* No other step of a client without streams counts anything or moves a call
\* from one of these sets to another.
LEMMA BalanceElsewhere ==
  ASSUME IInv, Balanced, NEW c \in Calls,
         Begin(c) \/ Resume(c) \/ Arrive(c) \/ Handle(c)
  PROVE  Balanced'
<1>0. CallInv(c) /\ pc \in [Calls -> Places] /\ attempt \in [Calls -> Nat]
  BY TransportAssumption DEF IInv, TypeOK
<1>1. UNCHANGED <<attempt, outcome, counters>>
  BY DEF Begin, Resume, Arrive, Handle, net
<1>2. Begun' = Begun /\ With({"ok"})' = With({"ok"}) /\ With(Failures)' = With(Failures)
  BY <1>1 DEF Begun, With
<1>3. At({"awaiting"})' = At({"awaiting"}) /\ Repeating' = Repeating
  <2>1. CASE Begin(c)
    BY <1>0, <1>1, <2>1 DEF Begin, Goto, CallInv, At, Repeating
  <2>2. CASE Resume(c)
    BY <1>0, <1>1, <2>2 DEF Resume, Goto, At, Repeating
  <2>3. CASE Arrive(c) \/ Handle(c)
    <3>1. pc' = pc
      BY <2>3 DEF Arrive, Handle
    <3>2. QED
      BY <1>1, <3>1 DEF At, Repeating
  <2>4. QED
    BY <2>1, <2>2, <2>3
<1>4. QED
  BY <1>1, <1>2, <1>3 DEF Balanced

\* The rest of the step, for a state without streams.
LEMMA BalanceNext ==
  IInv /\ CountersBalance /\ [Next]_vars => CountersBalance'
<1> SUFFICES ASSUME IInv, NoStream => Balanced, [Next]_vars, NoStream'
             PROVE  Balanced'
  <2>1. CountersBalance' <=> (NoStream' => Balanced')
    BY DEF CountersBalance, NoStream, Balanced, CallsAt, CallsWith, At, With, Begun, Repeating,
           Failures
  <2>2. QED
    BY <2>1, BalanceIsBalanced
<1>1. NoStream
  <2>1. ASSUME NEW c \in Calls PROVE spec[c].mode # "stream"
    <3>1. CASE spec'[c] = spec[c]
      BY <3>1 DEF NoStream
    <3>2. CASE spec'[c] # spec[c]
      <4>1. PICK d \in Calls : Begin(d)
        BY <3>2 DEF Next, vars, Finished, Dispatch, Settle, Fail, SendAnswer, StreamAnswer,
                    Answered, Resume, BodyEnds, Arrive, Handle
      <4>2. c = d
        BY <3>2, <4>1 DEF Begin, IInv, TypeOK
      <4>3. QED
        BY <4>1, <4>2 DEF Begin, IInv, CallInv
    <3>3. QED
      BY <3>1, <3>2
  <2>2. QED
    BY <2>1 DEF NoStream
<1>2. Balanced
  BY <1>1
<1>3. ASSUME NEW c \in Calls, Begin(c) \/ Resume(c) \/ Arrive(c) \/ Handle(c)
      PROVE  Balanced'
  BY <1>2, <1>3, BalanceElsewhere
<1>4. ASSUME NEW c \in Calls, Dispatch(c) PROVE Balanced'
  BY <1>2, <1>4, BalanceAtDispatch
<1>5. ASSUME NEW c \in Calls, Settle(c) PROVE Balanced'
  <2>1. ASSUME NEW s \in Statuses PROVE ~StreamAnswer(c, s)
    BY <1>1 DEF StreamAnswer, NoStream
  <2>2. QED
    BY <1>2, <1>5, <2>1, BalanceAtFail, BalanceAtSendAnswer DEF Settle
<1>6. ASSUME NEW c \in Calls PROVE ~BodyEnds(c)
  BY <1>1 DEF BodyEnds, NoStream, IInv, CallInv
<1>7. CASE UNCHANGED vars
  BY <1>2, <1>7 DEF vars, Balanced, At, With, Begun, Repeating
<1>8. QED
  BY <1>3, <1>4, <1>5, <1>6, <1>7 DEF Next, Finished

LEMMA InitBalance == Init => CountersBalance
<1> SUFFICES ASSUME Init PROVE Balanced
  BY BalanceIsBalanced
<1>1. /\ At({"awaiting"}) = {} /\ With({"ok"}) = {} /\ With(Failures) = {}
      /\ Begun = {} /\ Repeating = {}
  BY DEF Init, At, With, Begun, Repeating, Failures
<1>2. Cardinality({}) = 0
  BY FS_EmptySet
<1>3. \A n \in CounterNames : counters[n] = 0
  BY DEF Init
<1>4. QED
  BY <1>1, <1>2, <1>3 DEF Balanced, CounterNames

\* The counters a client shows add up at every moment, however many calls share
\* them and wherever each of these is.
THEOREM CountersBalanceCorrect == Spec => []CountersBalance
  BY InitBalance, BalanceNext, Inductive, PTL DEF Spec

-----------------------------------------------------------------------------
(* RateLimiter: whoever holds the lock has read a clock that is past        *)
(* _next_allowed, and nobody else can move _next_allowed meanwhile.         *)

\* The types the argument rests on; the order of the queue plays no part.
ClockTypes ==
  /\ now \in Nat
  /\ at \in [Tasks -> {"idle", "waiting"} \cup Holding]
  /\ seen \in [Tasks -> Nat]
  /\ wakeAt \in [Tasks -> Nat]
  /\ nextAllowed \in Nat
  /\ admissions \in Seq(Nat)

\* At most one task is inside the lock.
OneHolder ==
  \A t, u \in Tasks : at[t] \in Holding /\ at[u] \in Holding => t = u

\* The task inside the lock wakes, or has woken, when the next is allowed.
HolderWaits ==
  \A t \in Tasks :
    /\ at[t] = "sleeping" => wakeAt[t] >= nextAllowed
    /\ at[t] = "read" => seen[t] >= nextAllowed

LInv == ClockTypes /\ OneHolder /\ HolderWaits /\ SlotsAreNotLost /\ Spacing

USE LimiterAssumption DEF Holding

LEMMA InitLInv == LimiterInit => LInv
  BY DEF LimiterInit, LInv, ClockTypes, OneHolder, HolderWaits, SlotsAreNotLost, Spacing

\* An admission comes an interval after the last one, which _next_allowed
\* remembers, and is remembered in its turn.
LEMMA AdmitStep ==
  ASSUME LInv, NEW t \in Tasks, Admit(t)
  PROVE  LInv'
<1> USE DEF Admit, Goes
<1>0. /\ ClockTypes /\ OneHolder /\ HolderWaits /\ SlotsAreNotLost /\ Spacing
      /\ at[t] = "read" /\ seen[t] \in Nat /\ seen[t] >= nextAllowed
  BY DEF LInv, ClockTypes, HolderWaits
<1>1. ClockTypes'
  BY <1>0 DEF ClockTypes
<1>2. OneHolder'
  BY <1>0 DEF OneHolder, ClockTypes
<1>3. \A u \in Tasks : at'[u] \notin Holding
  BY <1>0 DEF OneHolder, ClockTypes
<1>4. HolderWaits'
  BY <1>3 DEF HolderWaits
<1>5. /\ Len(admissions') = Len(admissions) + 1
      /\ \A i \in 1 .. Len(admissions) : admissions'[i] = admissions[i]
      /\ admissions'[Len(admissions) + 1] = seen[t]
  BY <1>0 DEF ClockTypes
<1>6. SlotsAreNotLost'
  BY <1>0, <1>5 DEF SlotsAreNotLost, ClockTypes
<1>7. Spacing'
  <2> SUFFICES ASSUME NEW i \in 1 .. Len(admissions') - 1
               PROVE  admissions'[i + 1] >= admissions'[i] + Interval
    BY DEF Spacing
  <2>1. Len(admissions) \in Nat
    BY <1>0 DEF ClockTypes
  <2>2. CASE i < Len(admissions)
    BY <1>0, <1>5, <2>1, <2>2 DEF Spacing
  <2>3. CASE i = Len(admissions)
    <3>1. nextAllowed = admissions[i] + Interval
      BY <1>0, <1>5, <2>1, <2>3 DEF SlotsAreNotLost, ClockTypes
    <3>2. QED
      BY <1>0, <1>5, <2>3, <3>1
  <2>4. QED
    BY <1>5, <2>1, <2>2, <2>3
<1>8. QED
  BY <1>1, <1>2, <1>4, <1>6, <1>7 DEF LInv

LEMMA NextLInv == LInv /\ [LimiterNext]_limiter => LInv'
<1> SUFFICES ASSUME LInv, [LimiterNext]_limiter PROVE LInv'
  OBVIOUS
<1> USE DEF Goes
<1>0. ClockTypes /\ OneHolder /\ HolderWaits /\ SlotsAreNotLost /\ Spacing
  BY DEF LInv
<1>1. CASE Tick
  BY <1>0, <1>1 DEF Tick, LInv, ClockTypes, OneHolder, HolderWaits, SlotsAreNotLost, Spacing
<1>2. ASSUME NEW t \in Tasks, Enter(t) PROVE LInv'
  BY <1>0, <1>2 DEF Enter, LInv, ClockTypes, OneHolder, HolderWaits, SlotsAreNotLost, Spacing
<1>3. ASSUME NEW t \in Tasks, Take(t) PROVE LInv'
  <2>1. UNCHANGED <<now, nextAllowed, admissions>>
    BY <1>3 DEF Take
  <2>2. ClockTypes' /\ at' = [at EXCEPT ![t] = at'[t]] /\ seen'[t] = now
    BY <1>0, <1>3 DEF Take, ClockTypes
  <2>3. \A u \in Tasks : at[u] \notin Holding
    BY <1>3 DEF Take, LockFree
  <2>4. OneHolder'
    BY <1>0, <2>2, <2>3 DEF OneHolder, ClockTypes
  <2>5. HolderWaits'
    BY <1>0, <1>3, <2>2, <2>3 DEF Take, HolderWaits, ClockTypes
  <2>6. QED
    BY <1>0, <2>1, <2>2, <2>4, <2>5 DEF LInv, SlotsAreNotLost, Spacing
<1>4. ASSUME NEW t \in Tasks, Wake(t) PROVE LInv'
  BY <1>0, <1>4 DEF Wake, LInv, ClockTypes, OneHolder, HolderWaits, SlotsAreNotLost, Spacing
<1>5. ASSUME NEW t \in Tasks, Cancel(t) PROVE LInv'
  BY <1>0, <1>5 DEF Cancel, LInv, ClockTypes, OneHolder, HolderWaits, SlotsAreNotLost, Spacing
<1>6. CASE UNCHANGED limiter
  BY <1>0, <1>6 DEF limiter, LInv, ClockTypes, OneHolder, HolderWaits, SlotsAreNotLost, Spacing
<1>7. QED
  BY <1>1, <1>2, <1>3, <1>4, <1>5, <1>6, AdmitStep DEF LimiterNext

LEMMA LimiterInductive == LimiterSpec => []LInv
  BY InitLInv, NextLInv, PTL DEF LimiterSpec

\* Acquisitions are spaced, in both twins and for any number of tasks.
THEOREM SpacingCorrect == LimiterSpec => []Spacing
<1>1. LInv => Spacing
  BY DEF LInv
<1>2. QED
  BY <1>1, LimiterInductive, PTL

\* _next_allowed always is the last acquisition plus the interval, cancelled
\* waits notwithstanding.
THEOREM SlotsCorrect == LimiterSpec => []SlotsAreNotLost
<1>1. LInv => SlotsAreNotLost
  BY DEF LInv
<1>2. QED
  BY <1>1, LimiterInductive, PTL
=============================================================================
