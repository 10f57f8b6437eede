------------------------------ MODULE Library ------------------------------
(***************************************************************************)
(* The index of the NQE query library (nqe_repo.py): index(), find(),       *)
(* _index_is_stale() and _invalidate(), used by several tasks that share    *)
(* one AsyncNqeRepository or, as threads, one NqeRepository, while they and *)
(* others publish to the library.                                           *)
(*                                                                         *)
(* The two are one program, generated from one source.  A thread may be     *)
(* preempted between any two steps; a coroutine is only suspended while it  *)
(* waits for a request, so that of its other steps none is divided.         *)
(*                                                                         *)
(* Data abstracted: the library is the number of its last commit, and the   *)
(* index of a listing the number the library had when it was served; one    *)
(* repository; time is ticks.                                               *)
(***************************************************************************)
EXTENDS Integers, TLC

CONSTANTS
  Tasks,       \* coroutines or threads that share the object
  TTLs,        \* the values of cache_ttl
  Latency,     \* bound: how long after it was served a listing is in the cache
  MaxVersion,  \* bound: commits to the library
  LastCall,    \* bound: no call begins after it
  EndOfTime    \* bound: no time passes after it

Never == -1

ASSUME LibraryAssumption ==
  /\ TTLs \subseteq Nat
  /\ Latency \in Nat
  /\ MaxVersion \in Nat
  /\ LastCall \in Nat
  /\ EndOfTime \in Nat

VARIABLES
  threads,   \* the tasks are threads
  ttl,       \* cache_ttl
  now,       \* time.monotonic()
  library,   \* the library on Forward: how many commits it has had
  cache,     \* _index_cache: a listing, or NoListing
  fetched,   \* _index_fetched_at: a time, or Never
  pc,        \* pc[t]: where t is in its call
  local,     \* local[t]: what t carries from step to step
  result,    \* result[t]: how the last lookup of t ended
  acked,     \* history: the newest commit of this object that has returned
  raced      \* history: a listing was on its way when a write invalidated

vars == <<threads, ttl, now, library, cache, fetched, pc, local, result, acked, raced>>
config == <<threads, ttl>>

-----------------------------------------------------------------------------
\* What a listing says, and when Forward served it.
Listings == [version : 0 .. MaxVersion, served : Nat]
NoListing == [version |-> 0, served |-> Never]

\* listing is the one in hand; asked when the lookup began; floor the newest
\* commit of this object that had returned by then.
NoLocal == [listing |-> NoListing, asked |-> 0, floor |-> 0]

\* How a call ended; of the index found, how long before the call it was true,
\* and whether it is older than a write that had returned.
NoResult == [end |-> "none", age |-> 0, behind |-> FALSE]

Init ==
  /\ threads \in BOOLEAN
  /\ ttl \in TTLs
  /\ now = 0
  /\ library = 0
  /\ cache = NoListing
  /\ fetched = Never
  /\ pc = [t \in Tasks |-> "idle"]
  /\ local = [t \in Tasks |-> NoLocal]
  /\ result = [t \in Tasks |-> NoResult]
  /\ acked = 0
  /\ raced = FALSE

\* The places where a coroutine is suspended: between calls, or in a request.
Suspended == {"idle", "asking", "listed", "writing", "written"}

\* A thread may take its next step at any time, a coroutine only when every
\* other one is suspended.
Runs(t) == threads \/ \A u \in Tasks \ {t} : pc[u] \in Suspended

Goto(t, place, carried) ==
  /\ pc' = [pc EXCEPT ![t] = place]
  /\ local' = [local EXCEPT ![t] = carried]

Age(t) == IF cache.served < local[t].asked THEN local[t].asked - cache.served ELSE 0

Finish(t, found) ==
  /\ Goto(t, "idle", NoLocal)
  /\ result' = [result EXCEPT ![t] = found]

-----------------------------------------------------------------------------
(* index(), on its own or from find(). *)

\* Mutant of Stale: the age of the index is not looked at.
StaleIfMissing == cache = NoListing \/ ttl = 0

\* _index_is_stale
Stale ==
  \/ cache = NoListing
  \/ ttl = 0
  \/ fetched = Never
  \/ now - fetched >= ttl

\* A lookup begins; refresh is whether index() is told to fetch.
Find(t, refresh) ==
  /\ pc[t] = "idle" /\ Runs(t)
  /\ now <= LastCall
  /\ Goto(t, IF refresh \/ Stale THEN "asking" ELSE "returning",
          [NoLocal EXCEPT !.asked = now, !.floor = acked])
  /\ result' = [result EXCEPT ![t] = NoResult]
  /\ UNCHANGED <<config, now, library, cache, fetched, acked, raced>>

\* Forward (external) serves the listing of the library's head.
List(t) ==
  /\ pc[t] = "asking"
  /\ Goto(t, "listed", [local[t] EXCEPT !.listing = [version |-> library, served |-> now]])
  /\ UNCHANGED <<config, now, library, cache, fetched, result, acked, raced>>

\* Mutant of Keep: an index that may not be reused is not kept.
KeepIfCaching(t) ==
  /\ pc[t] = "listed" /\ Runs(t)
  /\ cache' = IF ttl = 0 THEN cache ELSE local[t].listing
  /\ Goto(t, "stamping", local[t])
  /\ UNCHANGED <<config, now, library, fetched, result, acked, raced>>

\* The listing arrives and becomes the index ...
Keep(t) ==
  /\ pc[t] = "listed" /\ Runs(t)
  /\ cache' = local[t].listing
  /\ Goto(t, "stamping", local[t])
  /\ UNCHANGED <<config, now, library, fetched, result, acked, raced>>

\* ... fetched now ...
Stamp(t) ==
  /\ pc[t] = "stamping" /\ Runs(t)
  /\ fetched' = now
  /\ Goto(t, "returning", [local[t] EXCEPT !.listing = NoListing])
  /\ UNCHANGED <<config, now, library, cache, result, acked, raced>>

\* ... and is read back and returned, be it cached or just fetched.
Return(t) ==
  /\ pc[t] = "returning" /\ Runs(t)
  /\ Finish(t, IF cache = NoListing THEN [NoResult EXCEPT !.end = "KeyError"]
               ELSE [end |-> "found", age |-> Age(t),
                     behind |-> cache.version < local[t].floor])
  /\ UNCHANGED <<config, now, library, cache, fetched, acked, raced>>

-----------------------------------------------------------------------------
(* The writes: commit(), and staging and discarding, which commit nothing. *)

Write(t) ==
  /\ pc[t] = "idle" /\ Runs(t)
  /\ now <= LastCall
  /\ Goto(t, "writing", NoLocal)
  /\ result' = [result EXCEPT ![t] = NoResult]
  /\ UNCHANGED <<config, now, library, cache, fetched, acked, raced>>

\* Forward (external) carries the write out.
Apply(t) ==
  /\ pc[t] = "writing"
  /\ library' \in {library, library + 1} \cap 0 .. MaxVersion
  /\ Goto(t, "written", [NoLocal EXCEPT !.floor = library'])
  /\ UNCHANGED <<config, now, cache, fetched, result, acked, raced>>

Acknowledge(t) ==
  /\ acked' = IF local[t].floor > acked THEN local[t].floor ELSE acked
  /\ raced' = (raced \/ \E u \in Tasks : pc[u] \in {"listed", "stamping"})
  /\ Finish(t, NoResult)

\* Mutant of Invalidate: a write that does not invalidate the index.
InvalidateNothing(t) ==
  /\ pc[t] = "written" /\ Runs(t)
  /\ Acknowledge(t)
  /\ UNCHANGED <<config, now, library, cache, fetched>>

\* The answer arrives, and _invalidate() forgets the index ...
Invalidate(t) ==
  /\ pc[t] = "written" /\ Runs(t)
  /\ cache' = NoListing
  /\ Goto(t, "invalidating", local[t])
  /\ UNCHANGED <<config, now, library, fetched, result, acked, raced>>

\* ... and when it was fetched; the write returns.
Forget(t) ==
  /\ pc[t] = "invalidating" /\ Runs(t)
  /\ fetched' = Never
  /\ Acknowledge(t)
  /\ UNCHANGED <<config, now, library, cache>>

-----------------------------------------------------------------------------
\* A request fails, whatever Forward made of it: the call raises.
Raise(t) ==
  /\ pc[t] \in {"asking", "listed", "writing", "written"} /\ Runs(t)
  /\ Finish(t, NoResult)
  /\ UNCHANGED <<config, now, library, cache, fetched, acked, raced>>

\* Another session publishes.
Publish ==
  /\ library < MaxVersion
  /\ library' = library + 1
  /\ UNCHANGED <<config, now, cache, fetched, pc, local, result, acked, raced>>

Tick ==
  /\ now < EndOfTime
  /\ \A t \in Tasks : pc[t] \in {"listed", "stamping"} => now < local[t].listing.served + Latency
  /\ now' = now + 1
  /\ UNCHANGED <<config, library, cache, fetched, pc, local, result, acked, raced>>

Proceed(t) == List(t) \/ Keep(t) \/ Stamp(t) \/ Return(t) \/ Apply(t) \/ Invalidate(t) \/ Forget(t)

Next ==
  \/ Publish \/ Tick
  \/ \E t \in Tasks :
       \/ \E refresh \in BOOLEAN : Find(t, refresh)
       \/ List(t) \/ Keep(t) \/ Stamp(t) \/ Return(t)
       \/ Write(t) \/ Apply(t) \/ Invalidate(t) \/ Forget(t)
       \/ Raise(t)

Spec == Init /\ [][Next]_vars

\* The tasks are interchangeable.
Symmetry == Permutations(Tasks)

-----------------------------------------------------------------------------
(* Properties. *)

\* Every variable holds a value of its type.
TypeOK ==
  /\ threads \in BOOLEAN
  /\ ttl \in TTLs
  /\ now \in Nat
  /\ library \in 0 .. MaxVersion
  /\ cache \in Listings \cup {NoListing}
  /\ fetched \in Nat \cup {Never}
  /\ pc \in [Tasks -> Suspended \cup {"stamping", "returning", "invalidating"}]
  /\ local \in [Tasks -> [listing : Listings \cup {NoListing}, asked : Nat, floor : 0 .. MaxVersion]]
  /\ result \in [Tasks -> [end : {"none", "found", "KeyError"}, age : Nat, behind : BOOLEAN]]
  /\ acked \in 0 .. MaxVersion
  /\ raced \in BOOLEAN

\* "The client's cache_ttl bounds that" (_index_is_stale): a lookup is answered
\* with a library that was current less than cache_ttl and the time of a listing
\* before the lookup began, whoever fetched it, and although it is stamped only
\* on arrival.  Threads may stamp a listing late, with the time of another.
StaleNoLonger ==
  \A t \in Tasks :
    \/ result[t].age = 0
    \/ result[t].age < ttl + (IF threads THEN 2 * Latency ELSE Latency)

\* "Any write through this object clears the cache" (index): a lookup that
\* begins after a write returned sees it, unless a listing was on its way when
\* the write invalidated the index.
WritesAreSeen == ~raced => \A t \in Tasks : ~result[t].behind

\* What index() has found fresh, or has fetched, is there when it returns it:
\* coroutines cannot come between.
IndexIsThere == ~threads => \A t \in Tasks : result[t].end # "KeyError"

\* "A synchronous ForwardClient is safe to share across threads"
\* (docs/configuration.md): no lookup fails because of what another thread does.
SafeToShare == \A t \in Tasks : result[t].end # "KeyError"
=============================================================================
