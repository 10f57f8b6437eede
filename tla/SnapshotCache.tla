---------------------------- MODULE SnapshotCache ----------------------------
(***************************************************************************)
(* Resolving "the latest processed snapshot" through the client's cache     *)
(* (_async/services/snapshots.py), while the same client uploads,           *)
(* invalidates and deletes snapshots and Forward goes on processing.        *)
(*                                                                         *)
(* Each task is a thread or coroutine sharing the service object.  A       *)
(* resolution looks in the cache, else lists the snapshots and remembers    *)
(* what it found; listing and remembering are apart, and anything may       *)
(* happen between them.                                                     *)
(*                                                                         *)
(* Data abstracted: a snapshot is its place in the order of creation; a     *)
(* network is one network; time is the age of a cache entry.                *)
(***************************************************************************)
EXTENDS Naturals, Sequences, FiniteSets, FiniteSetsExt

CONSTANTS
  Tasks,        \* threads or coroutines using the service
  TTL,          \* snapshot_cache_ttl in ticks, unless it is "lifetime"
  Writes,       \* the writes this client makes: "upload", "invalidate", "delete"
  MaxSnapshots, \* bound: snapshots ever created
  MaxVersions   \* bound: changes of the server's state

ASSUME CacheAssumption ==
  /\ TTL \in Nat
  /\ Writes \subseteq {"upload", "invalidate", "delete"}
  /\ MaxSnapshots \in Nat
  /\ MaxVersions \in Nat

VARIABLES
  lifetime,   \* snapshot_cache_ttl is "lifetime"
  made,       \* the server's snapshots in order of creation, [kind, state]
  version,    \* how many times the server's state has changed
  resolved,   \* _resolved: per question, an entry or NoEntry
  at,         \* at[t]: what task t is suspended in
  local,      \* local[t]: what t carries across the suspension
  barrier,    \* history: the version of the last upload() or invalidate() returned
  races,      \* history: the races there have been, "write" and with "lifetime" "twice"
  answers     \* history: per question, the last answer, and with "lifetime" all
              \* the answers since a clear_cache()

cacheVars == <<lifetime, made, version, resolved, at, local, barrier, races, answers>>

-----------------------------------------------------------------------------
(* Snapshots and the rule that picks one. *)

\* The trigger and parent of a snapshot, as latest_processed() tells them apart.
Kinds == {"collected", "predicted", "fork"}

\* The question asked: the include_predicted part of the cache key.
Questions == BOOLEAN

\* No snapshot qualifies: the answer None.
NoSnapshot == 0

Eligible(k) == IF k THEN {"collected", "predicted"} ELSE {"collected"}

\* The newest by creation of the processed snapshots that qualify.
Latest(k) ==
  Max({NoSnapshot} \cup
      {n \in DOMAIN made :
         made[n].state = "PROCESSED" /\ made[n].kind \in Eligible(k)})

-----------------------------------------------------------------------------
(* The cache. *)

NoEntry == [age |-> 0, value |-> NoSnapshot, asOf |-> 0, held |-> FALSE]

Caching == lifetime \/ TTL > 0

\* Mutants of Hit: an answer None taken for a miss, or the age not looked at.
HitUnlessNone(k) ==
  /\ Caching /\ resolved[k].held /\ resolved[k].value # NoSnapshot
  /\ lifetime \/ resolved[k].age < TTL
HitForever(k) == Caching /\ resolved[k].held

\* _cached: an entry answers until it is TTL old, or for ever.
Hit(k) == Caching /\ resolved[k].held /\ (lifetime \/ resolved[k].age < TTL)

\* Mutant of Remember: the key leaves include_predicted out.
RememberForBoth(k, value, asOf) ==
  resolved' = [q \in Questions |-> [age |-> 0, value |-> value, asOf |-> asOf, held |-> TRUE]]

\* _remember
Remember(k, value, asOf) ==
  resolved' = IF Caching
              THEN [resolved EXCEPT
                      ![k] = [age |-> 0, value |-> value, asOf |-> asOf, held |-> TRUE]]
              ELSE resolved

ClearCache ==
  /\ resolved' = [k \in Questions |-> NoEntry]
  /\ answers' = [k \in Questions |-> {}]

-----------------------------------------------------------------------------
NoLocal == [question |-> FALSE, value |-> NoSnapshot, asOf |-> 0, op |-> "none"]

CacheInit ==
  /\ lifetime \in BOOLEAN
  /\ made = <<>>
  /\ version = 0
  /\ resolved = [k \in Questions |-> NoEntry]
  /\ at = [t \in Tasks |-> "idle"]
  /\ local = [t \in Tasks |-> NoLocal]
  /\ barrier = 0
  /\ races = {}
  /\ answers = [k \in Questions |-> {}]

Goto(t, place) == at' = [at EXCEPT ![t] = place]

Become(t, place, carried) ==
  /\ Goto(t, place)
  /\ local' = [local EXCEPT ![t] = carried]

Answer(k, value) ==
  answers' = [answers EXCEPT ![k] = IF lifetime THEN @ \cup {value} ELSE {value}]

\* latest_processed() is called and finds the answer in the cache.
AnswerFromCache(t, k) ==
  /\ at[t] = "idle"
  /\ Hit(k)
  /\ Answer(k, resolved[k].value)
  /\ UNCHANGED <<lifetime, made, version, resolved, at, local, barrier, races>>

Resolving(t) == at[t] \in {"asking", "listed"}

\* It is called, misses, and asks for the listing.
Ask(t, k) ==
  /\ at[t] = "idle"
  /\ ~Hit(k)
  /\ Become(t, "asking", [NoLocal EXCEPT !.question = k])
  /\ races' = IF lifetime /\ \E u \in Tasks : Resolving(u) /\ local[u].question = k
              THEN races \cup {"twice"} ELSE races
  /\ UNCHANGED <<lifetime, made, version, resolved, barrier, answers>>

\* The server (external) lists the snapshots as they are.
Serve(t) ==
  /\ at[t] = "asking"
  /\ Become(t, "listed", [local[t] EXCEPT !.value = Latest(local[t].question),
                                          !.asOf = version])
  /\ UNCHANGED <<lifetime, made, version, resolved, barrier, races, answers>>

\* The listing arrives; the choice is remembered and returned.
Resolve(t) ==
  LET l == local[t]
  IN /\ at[t] = "listed"
     /\ Remember(l.question, l.value, l.asOf)
     /\ Answer(l.question, l.value)
     /\ Become(t, "idle", NoLocal)
     /\ UNCHANGED <<lifetime, made, version, barrier, races>>

\* upload(), invalidate() or delete() is called.
Write(t, op) ==
  /\ at[t] = "idle"
  /\ Become(t, "writing", [NoLocal EXCEPT !.op = op])
  /\ UNCHANGED <<lifetime, made, version, resolved, barrier, races, answers>>

\* What is known once the answer to a write that clears the cache arrives.
Acknowledge(t) ==
  /\ barrier' = Max({barrier, local[t].asOf})
  /\ races' = IF \E u \in Tasks : at[u] = "listed" THEN races \cup {"write"} ELSE races
  /\ Become(t, "idle", NoLocal)

Changes(S) ==
  /\ version < MaxVersions
  /\ version' = version + 1
  /\ made' = S

Arrives(kind, state) ==
  /\ Len(made) < MaxSnapshots
  /\ Changes(Append(made, [kind |-> kind, state |-> state]))

Moves(from, to) ==
  \E n \in DOMAIN made :
    /\ made[n].state = from
    /\ Changes([made EXCEPT ![n].state = to])

\* The server (external) carries a write out.  An upload may be processed
\* before it is answered.
Apply(t) ==
  /\ at[t] = "writing"
  /\ CASE local[t].op = "upload" ->
            \E state \in {"UNPROCESSED", "PROCESSED"} : Arrives("collected", state)
       [] local[t].op = "invalidate" -> Moves("PROCESSED", "UNPROCESSED")
       [] local[t].op = "delete" -> \E s \in {"UNPROCESSED", "PROCESSED"} : Moves(s, "GONE")
  /\ Become(t, "written", [local[t] EXCEPT !.asOf = version'])
  /\ UNCHANGED <<lifetime, resolved, barrier, races, answers>>

\* Mutant of ReturnClearing: the cache is not cleared.
ReturnWithoutClearing(t) ==
  /\ at[t] = "written"
  /\ local[t].op \in {"upload", "invalidate"}
  /\ Acknowledge(t)
  /\ UNCHANGED <<lifetime, made, version, resolved, answers>>

\* The answer to an upload() or invalidate() arrives and clears the cache.
ReturnClearing(t) ==
  /\ at[t] = "written"
  /\ local[t].op \in {"upload", "invalidate"}
  /\ ClearCache
  /\ Acknowledge(t)
  /\ UNCHANGED <<lifetime, made, version>>

\* delete() returns; it leaves the cache alone.
ReturnDelete(t) ==
  /\ at[t] = "written"
  /\ local[t].op = "delete"
  /\ Become(t, "idle", NoLocal)
  /\ UNCHANGED <<lifetime, made, version, resolved, barrier, races, answers>>

\* A request fails, after the server acted on it or before: the call raises.
Abort(t) ==
  /\ at[t] # "idle"
  /\ Become(t, "idle", NoLocal)
  /\ UNCHANGED <<lifetime, made, version, resolved, barrier, races, answers>>

\* The caller clears the cache.
Clear ==
  /\ \E k \in Questions : resolved[k].held
  /\ ClearCache
  /\ UNCHANGED <<lifetime, made, version, at, local, barrier, races>>

\* Forward (external) finishes processing one, or makes one of its own: a
\* collection, a Predict run, a fork, processed by the time it is listed or not.
FinishOne ==
  /\ Moves("UNPROCESSED", "PROCESSED")
  /\ UNCHANGED <<lifetime, resolved, at, local, barrier, races, answers>>

MakeOne ==
  /\ \E kind \in Kinds, state \in {"UNPROCESSED", "PROCESSED"} : Arrives(kind, state)
  /\ UNCHANGED <<lifetime, resolved, at, local, barrier, races, answers>>

\* Time passes for the entries of a cache with a time to live.
Tick ==
  /\ ~lifetime
  /\ \E k \in Questions : resolved[k].held /\ resolved[k].age < TTL
  /\ resolved' = [k \in Questions |->
                    IF resolved[k].held /\ resolved[k].age < TTL
                    THEN [resolved[k] EXCEPT !.age = @ + 1] ELSE resolved[k]]
  /\ UNCHANGED <<lifetime, made, version, at, local, barrier, races, answers>>

CacheNext ==
  \/ \E t \in Tasks :
       \/ \E k \in Questions : AnswerFromCache(t, k) \/ Ask(t, k)
       \/ \E op \in Writes : Write(t, op)
       \/ Serve(t) \/ Resolve(t) \/ Apply(t) \/ ReturnClearing(t) \/ ReturnDelete(t) \/ Abort(t)
  \/ Clear \/ FinishOne \/ MakeOne \/ Tick

CacheSpec == CacheInit /\ [][CacheNext]_cacheVars

\* Time passes, and a listing that arrived is dealt with.
FairCacheSpec ==
  /\ CacheSpec
  /\ WF_cacheVars(Tick)
  /\ \A t \in Tasks : WF_cacheVars(Serve(t)) /\ WF_cacheVars(Resolve(t))

-----------------------------------------------------------------------------
(* Properties. *)

\* The cache never holds an answer older than an upload() or invalidate() of
\* this client that has returned: the next resolution sees it.  Only a listing
\* that was on its way when the cache was cleared can break that.
WritesAreSeen ==
  "write" \notin races => \A k \in Questions : resolved[k].held => resolved[k].asOf >= barrier

\* With "lifetime", every resolution of one question gives one answer until the
\* cache is cleared, whatever Forward processes meanwhile, None included, unless
\* two tasks resolved the question at once.
PinnedAnswer ==
  lifetime /\ "twice" \notin races => \A k \in Questions : Cardinality(answers[k]) <= 1

\* The two questions do not share an answer: a caller that did not ask for
\* predictions never gets one, nor a fork, from the cache or from another task.
OnlyWhatWasAsked ==
  \A k \in Questions : \A n \in answers[k] \ {NoSnapshot} :
    made[n].kind \in Eligible(k)

\* With a time to live, once Forward's snapshots stop changing the cache holds
\* the truth or nothing that still answers, for good, though slow listings may
\* have been remembered over newer ones.
CacheConverges ==
  ~lifetime ~> [](\A k \in Questions : Hit(k) => resolved[k].value = Latest(k))
=============================================================================
