--------------------------- MODULE LibraryProofs ---------------------------
(***************************************************************************)
(* Proofs about Library, for every number of tasks, coroutines or threads,  *)
(* and every cache_ttl: the index is there when a coroutine returns it, and *)
(* a lookup sees the writes that returned before it began.                  *)
(***************************************************************************)
EXTENDS Library, TLAPS

Places == Suspended \cup {"stamping", "returning", "invalidating"}
Locals == [listing : Listings \cup {NoListing}, asked : Nat, floor : 0 .. MaxVersion]
Results == [end : {"none", "found", "KeyError"}, age : Nat, behind : BOOLEAN]

\* The three kinds of value a step writes.
LEMMA LocalTypes ==
  /\ NoLocal \in Locals
  /\ NoResult \in Results
  /\ NoListing \notin Listings
BY LibraryAssumption DEF NoLocal, NoResult, NoListing, Never, Locals, Results, Listings

LEMMA GotoTyped ==
  ASSUME TypeOK, NEW t \in Tasks, NEW place \in Places, NEW carried \in Locals,
         Goto(t, place, carried)
  PROVE  /\ pc' \in [Tasks -> Places]
         /\ local' \in [Tasks -> Locals]
         /\ pc'[t] = place /\ local'[t] = carried
         /\ \A u \in Tasks \ {t} : pc'[u] = pc[u] /\ local'[u] = local[u]
BY DEF TypeOK, Goto, Places, Locals

LEMMA FinishTyped ==
  ASSUME TypeOK, NEW t \in Tasks, NEW found \in Results, Finish(t, found)
  PROVE  /\ pc' \in [Tasks -> Places]
         /\ local' \in [Tasks -> Locals]
         /\ pc'[t] = "idle" /\ local'[t] = NoLocal
         /\ \A u \in Tasks \ {t} : pc'[u] = pc[u] /\ local'[u] = local[u]
         /\ result' \in [Tasks -> Results]
         /\ result'[t] = found
         /\ \A u \in Tasks \ {t} : result'[u] = result[u]
<1>1. "idle" \in Places  BY DEF Places, Suspended
<1>2. Goto(t, "idle", NoLocal)  BY DEF Finish
<1>3. result' = [result EXCEPT ![t] = found]  BY DEF Finish
<1> QED  BY <1>1, <1>2, <1>3, GotoTyped, LocalTypes DEF TypeOK, Results

\* The conjuncts of TypeOK, with their sets named.
LEMMA TypeParts ==
  TypeOK <=> /\ threads \in BOOLEAN /\ ttl \in TTLs /\ now \in Nat
             /\ library \in 0 .. MaxVersion
             /\ cache \in Listings \cup {NoListing} /\ fetched \in Nat \cup {Never}
             /\ pc \in [Tasks -> Places] /\ local \in [Tasks -> Locals]
             /\ result \in [Tasks -> Results]
             /\ acked \in 0 .. MaxVersion /\ raced \in BOOLEAN
BY DEF TypeOK, Places, Locals, Results

LEMMA TypeInit == Init => TypeOK
<1> SUFFICES ASSUME Init PROVE TypeOK
  OBVIOUS
<1>1. pc \in [Tasks -> Places]
  BY DEF Init, Places, Suspended
<1>2. local \in [Tasks -> Locals] /\ result \in [Tasks -> Results]
  BY LocalTypes DEF Init
<1>3. /\ now \in Nat /\ library \in 0 .. MaxVersion /\ acked \in 0 .. MaxVersion
      /\ cache \in Listings \cup {NoListing} /\ fetched \in Nat \cup {Never}
  BY LibraryAssumption DEF Init
<1>4. threads \in BOOLEAN /\ ttl \in TTLs /\ raced \in BOOLEAN
  BY DEF Init
<1> QED  BY <1>1, <1>2, <1>3, <1>4, TypeParts

LEMMA TypeNext == TypeOK /\ [Next]_vars => TypeOK'
<1> SUFFICES ASSUME TypeOK, [Next]_vars PROVE TypeOK'
  OBVIOUS
<1> USE LibraryAssumption
<1>0. /\ threads \in BOOLEAN /\ ttl \in TTLs /\ now \in Nat /\ library \in 0 .. MaxVersion
      /\ cache \in Listings \cup {NoListing} /\ fetched \in Nat \cup {Never}
      /\ pc \in [Tasks -> Places] /\ local \in [Tasks -> Locals]
      /\ result \in [Tasks -> Results] /\ acked \in 0 .. MaxVersion /\ raced \in BOOLEAN
  BY TypeParts
<1>1. CASE Publish
  BY <1>0, <1>1 DEF Publish, config, TypeOK, Places, Locals, Results
<1>2. CASE Tick
  BY <1>0, <1>2 DEF Tick, config, TypeOK, Places, Locals, Results
<1>3. ASSUME NEW t \in Tasks, NEW refresh \in BOOLEAN, Find(t, refresh)
      PROVE  TypeOK'
  <2>1. [NoLocal EXCEPT !.asked = now, !.floor = acked] \in Locals
    BY <1>0 DEF NoLocal, Locals
  <2>2. (IF refresh \/ Stale THEN "asking" ELSE "returning") \in Places
    BY DEF Places, Suspended
  <2>3. pc' \in [Tasks -> Places] /\ local' \in [Tasks -> Locals]
    BY <1>3, <2>1, <2>2, GotoTyped DEF Find
  <2>4. result' \in [Tasks -> Results]
    BY <1>0, <1>3, LocalTypes DEF Find
  <2> QED  BY <1>0, <1>3, <2>3, <2>4 DEF Find, config, TypeOK, Places, Locals, Results
<1>4. ASSUME NEW t \in Tasks, List(t) PROVE TypeOK'
  <2>1. [local[t] EXCEPT !.listing = [version |-> library, served |-> now]] \in Locals
    BY <1>0 DEF Locals, Listings
  <2>2. "listed" \in Places
    BY DEF Places, Suspended
  <2>3. pc' \in [Tasks -> Places] /\ local' \in [Tasks -> Locals]
    BY <1>4, <2>1, <2>2, GotoTyped DEF List
  <2> QED  BY <1>0, <1>4, <2>3 DEF List, config, TypeOK, Places, Locals, Results
<1>5. ASSUME NEW t \in Tasks, Keep(t) PROVE TypeOK'
  <2>1. local[t] \in Locals /\ "stamping" \in Places
    BY <1>0 DEF Places
  <2>2. pc' \in [Tasks -> Places] /\ local' \in [Tasks -> Locals]
    BY <1>5, <2>1, GotoTyped DEF Keep
  <2>3. cache' \in Listings \cup {NoListing}
    BY <1>5, <2>1 DEF Keep, Locals
  <2> QED  BY <1>0, <1>5, <2>2, <2>3 DEF Keep, config, TypeOK, Places, Locals, Results
<1>6. ASSUME NEW t \in Tasks, Stamp(t) PROVE TypeOK'
  <2>1. [local[t] EXCEPT !.listing = NoListing] \in Locals /\ "returning" \in Places
    BY <1>0 DEF Places, Locals
  <2>2. pc' \in [Tasks -> Places] /\ local' \in [Tasks -> Locals]
    BY <1>6, <2>1, GotoTyped DEF Stamp
  <2> QED  BY <1>0, <1>6, <2>2 DEF Stamp, config, TypeOK, Places, Locals, Results
<1>7. ASSUME NEW t \in Tasks, Return(t) PROVE TypeOK'
  <2> DEFINE found == IF cache = NoListing THEN [NoResult EXCEPT !.end = "KeyError"]
                      ELSE [end |-> "found", age |-> Age(t),
                            behind |-> cache.version < local[t].floor]
  <2>1. cache # NoListing => Age(t) \in Nat
    BY <1>0 DEF Age, Listings, Locals
  <2>a. [NoResult EXCEPT !.end = "KeyError"] \in Results
    BY DEF NoResult, Results
  <2>b. ASSUME cache # NoListing
        PROVE  [end |-> "found", age |-> Age(t), behind |-> cache.version < local[t].floor] \in Results
    <3>1. (cache.version < local[t].floor) \in BOOLEAN
      OBVIOUS
    <3> QED  BY <2>1, <2>b, <3>1, Zenon DEF Results
  <2>2. found \in Results
    BY <2>a, <2>b, Zenon
  <2>3. Finish(t, found)
    BY <1>7 DEF Return
  <2>4. pc' \in [Tasks -> Places] /\ local' \in [Tasks -> Locals] /\ result' \in [Tasks -> Results]
    BY <2>2, <2>3, FinishTyped
  <2> QED  BY <1>0, <1>7, <2>4 DEF Return, config, TypeOK, Places, Locals, Results
<1>8. ASSUME NEW t \in Tasks, Write(t) PROVE TypeOK'
  <2>1. "writing" \in Places
    BY DEF Places, Suspended
  <2>2. pc' \in [Tasks -> Places] /\ local' \in [Tasks -> Locals]
    BY <1>8, <2>1, LocalTypes, GotoTyped DEF Write
  <2>3. result' \in [Tasks -> Results]
    BY <1>0, <1>8, LocalTypes DEF Write
  <2> QED  BY <1>0, <1>8, <2>2, <2>3 DEF Write, config, TypeOK, Places, Locals, Results
<1>9. ASSUME NEW t \in Tasks, Apply(t) PROVE TypeOK'
  <2>1. library' \in 0 .. MaxVersion /\ "written" \in Places
    BY <1>0, <1>9 DEF Apply, Places, Suspended
  <2>2. [NoLocal EXCEPT !.floor = library'] \in Locals
    BY <2>1 DEF NoLocal, Locals
  <2>3. PICK n : n = library' /\ Goto(t, "written", [NoLocal EXCEPT !.floor = n])
    BY <1>9 DEF Apply
  <2>4. pc' \in [Tasks -> Places] /\ local' \in [Tasks -> Locals]
    BY <2>1, <2>2, <2>3, GotoTyped
  <2> QED  BY <1>0, <1>9, <2>1, <2>4 DEF Apply, config, TypeOK, Places, Locals, Results
<1>10. ASSUME NEW t \in Tasks, Invalidate(t) PROVE TypeOK'
  <2>1. local[t] \in Locals /\ "invalidating" \in Places
    BY <1>0 DEF Places
  <2>2. pc' \in [Tasks -> Places] /\ local' \in [Tasks -> Locals]
    BY <1>10, <2>1, GotoTyped DEF Invalidate
  <2> QED  BY <1>0, <1>10, <2>2 DEF Invalidate, config, TypeOK, Places, Locals, Results
<1>11. ASSUME NEW t \in Tasks, Forget(t) PROVE TypeOK'
  <2>1. local[t].floor \in 0 .. MaxVersion
    BY <1>0 DEF Locals
  <2>2. acked' \in 0 .. MaxVersion
    BY <1>0, <1>11, <2>1 DEF Forget, Acknowledge
  <2>3. raced' \in BOOLEAN
    BY <1>11, Zenon DEF Forget, Acknowledge
  <2>4. fetched' \in Nat \cup {Never}
    BY <1>11 DEF Forget
  <2>5. pc' \in [Tasks -> Places] /\ local' \in [Tasks -> Locals] /\ result' \in [Tasks -> Results]
    BY <1>11, LocalTypes, FinishTyped DEF Forget, Acknowledge
  <2> QED  BY <1>0, <1>11, <2>2, <2>3, <2>4, <2>5 DEF Forget, config, TypeOK, Places, Locals, Results
<1>12. ASSUME NEW t \in Tasks, Raise(t) PROVE TypeOK'
  <2>1. pc' \in [Tasks -> Places] /\ local' \in [Tasks -> Locals] /\ result' \in [Tasks -> Results]
    BY <1>12, LocalTypes, FinishTyped DEF Raise
  <2> QED  BY <1>0, <1>12, <2>1 DEF Raise, config, TypeOK, Places, Locals, Results
<1>13. CASE UNCHANGED vars
  BY <1>0, <1>13 DEF vars, TypeOK, Places, Locals, Results
<1> QED
  BY <1>1, <1>2, <1>3, <1>4, <1>5, <1>6, <1>7, <1>8, <1>9, <1>10, <1>11, <1>12, <1>13 DEF Next

\* Every variable keeps its type, for any number of tasks and any cache_ttl.
THEOREM LibraryTypes == Spec => []TypeOK
BY TypeInit, TypeNext, PTL DEF Spec

-----------------------------------------------------------------------------
(* A lookup between its fetch and its return finds an index there: at most   *)
(* one coroutine at a time is anywhere but where it can be suspended.        *)

AloneInside ==
  ~threads => \A t, u \in Tasks : pc[t] \notin Suspended /\ pc[u] \notin Suspended => t = u

InsideIndexed ==
  ~threads => \A t \in Tasks : pc[t] \in {"stamping", "returning"} => cache # NoListing

ListedInHand == \A t \in Tasks : pc[t] = "listed" => local[t].listing \in Listings

IndexInv == AloneInside /\ InsideIndexed /\ ListedInHand /\ IndexIsThere

\* A step divided from the others, or one that ends suspended, leaves at most
\* one coroutine inside.
LEMMA AloneKept ==
  ASSUME TypeOK, AloneInside, NEW t \in Tasks, NEW place \in Places, NEW carried \in Locals,
         Goto(t, place, carried), threads' = threads, Runs(t) \/ place \in Suspended
  PROVE  AloneInside'
<1>1. pc'[t] = place /\ \A u \in Tasks \ {t} : pc'[u] = pc[u]
  BY GotoTyped
<1>2. CASE threads
  BY <1>2 DEF AloneInside
<1>3. CASE ~threads /\ Runs(t)
  BY <1>1, <1>3 DEF AloneInside, Runs
<1>4. CASE ~threads /\ place \in Suspended
  BY <1>1, <1>4 DEF AloneInside
<1> QED  BY <1>2, <1>3, <1>4

\* While coroutine t takes a step that is not in a request, nobody else is inside.
LEMMA OthersOutside ==
  ASSUME NEW t \in Tasks, Runs(t), ~threads
  PROVE  \A u \in Tasks \ {t} : pc[u] \notin {"stamping", "returning", "invalidating"}
BY DEF Runs, Suspended

LEMMA IndexNext == TypeOK /\ IndexInv /\ [Next]_vars => IndexInv'
<1> SUFFICES ASSUME TypeOK, IndexInv, [Next]_vars PROVE IndexInv'
  OBVIOUS
<1> USE DEF IndexInv
<1>0. /\ threads \in BOOLEAN /\ library \in 0 .. MaxVersion /\ now \in Nat
      /\ pc \in [Tasks -> Places] /\ local \in [Tasks -> Locals] /\ result \in [Tasks -> Results]
  BY TypeParts
<1>1. CASE Publish \/ Tick \/ UNCHANGED vars
  BY <1>1 DEF Publish, Tick, vars, config, AloneInside, InsideIndexed, ListedInHand, IndexIsThere
<1>2. ASSUME NEW t \in Tasks, NEW refresh \in BOOLEAN, Find(t, refresh)
      PROVE  IndexInv'
  <2> DEFINE place == IF refresh \/ Stale THEN "asking" ELSE "returning"
  <2> DEFINE carried == [NoLocal EXCEPT !.asked = now, !.floor = acked]
  <2>1. place \in Places /\ carried \in Locals
    BY TypeParts, LocalTypes DEF Places, Suspended, NoLocal, Locals
  <2>2. Goto(t, place, carried) /\ Runs(t) /\ threads' = threads /\ cache' = cache
    BY <1>2 DEF Find, config
  <2>3. pc'[t] = place /\ \A u \in Tasks \ {t} : pc'[u] = pc[u] /\ local'[u] = local[u]
    BY <2>1, <2>2, GotoTyped
  <2>4. AloneInside'
    BY <2>1, <2>2, AloneKept
  <2>5. place = "returning" => cache # NoListing
    BY DEF Stale
  <2>6. InsideIndexed' /\ ListedInHand'
    BY <2>2, <2>3, <2>5 DEF InsideIndexed, ListedInHand
  <2>7. IndexIsThere'
    BY <1>0, <1>2, LocalTypes DEF Find, config, IndexIsThere, NoResult
  <2> QED  BY <2>4, <2>6, <2>7
<1>3. ASSUME NEW t \in Tasks, List(t) PROVE IndexInv'
  <2> DEFINE listing == [version |-> library, served |-> now]
  <2>1. "listed" \in Places /\ [local[t] EXCEPT !.listing = listing] \in Locals
    BY <1>0 DEF Places, Suspended, Locals, Listings
  <2>2. /\ Goto(t, "listed", [local[t] EXCEPT !.listing = listing]) /\ threads' = threads
        /\ cache' = cache /\ result' = result
    BY <1>3 DEF List, config
  <2>3. /\ pc'[t] = "listed" /\ local'[t] = [local[t] EXCEPT !.listing = listing]
        /\ \A u \in Tasks \ {t} : pc'[u] = pc[u] /\ local'[u] = local[u]
    BY <2>1, <2>2, GotoTyped
  <2>4. AloneInside'
    <3>1. "listed" \in Suspended
      BY DEF Suspended
    <3> QED  BY <2>1, <2>2, <3>1, AloneKept
  <2>5. listing \in Listings /\ local'[t].listing = listing
    BY <1>0, <2>3 DEF Listings, Locals
  <2>6. InsideIndexed' /\ ListedInHand' /\ IndexIsThere'
    BY <2>2, <2>3, <2>5 DEF InsideIndexed, ListedInHand, IndexIsThere
  <2> QED  BY <2>4, <2>6
<1>4. ASSUME NEW t \in Tasks, Keep(t) PROVE IndexInv'
  <2>1. "stamping" \in Places /\ local[t] \in Locals
    BY <1>0 DEF Places
  <2>2. /\ pc[t] = "listed" /\ Goto(t, "stamping", local[t]) /\ Runs(t) /\ threads' = threads
        /\ cache' = local[t].listing /\ result' = result
    BY <1>4 DEF Keep, config
  <2>3. pc'[t] = "stamping" /\ \A u \in Tasks \ {t} : pc'[u] = pc[u] /\ local'[u] = local[u]
    BY <2>1, <2>2, GotoTyped
  <2>4. AloneInside'
    BY <2>1, <2>2, AloneKept
  <2>5. cache' # NoListing
    BY <2>2, LocalTypes DEF ListedInHand
  <2>6. InsideIndexed' /\ ListedInHand' /\ IndexIsThere'
    BY <2>2, <2>3, <2>5 DEF InsideIndexed, ListedInHand, IndexIsThere
  <2> QED  BY <2>4, <2>6
<1>5. ASSUME NEW t \in Tasks, Stamp(t) PROVE IndexInv'
  <2>1. "returning" \in Places /\ [local[t] EXCEPT !.listing = NoListing] \in Locals
    BY <1>0 DEF Places, Locals
  <2>2. /\ pc[t] = "stamping" /\ Goto(t, "returning", [local[t] EXCEPT !.listing = NoListing])
        /\ Runs(t) /\ threads' = threads /\ cache' = cache /\ result' = result
    BY <1>5 DEF Stamp, config
  <2>3. pc'[t] = "returning" /\ \A u \in Tasks \ {t} : pc'[u] = pc[u] /\ local'[u] = local[u]
    BY <2>1, <2>2, GotoTyped
  <2>4. AloneInside'
    BY <2>1, <2>2, AloneKept
  <2>5. InsideIndexed' /\ ListedInHand' /\ IndexIsThere'
    BY <2>2, <2>3 DEF InsideIndexed, ListedInHand, IndexIsThere
  <2> QED  BY <2>4, <2>5
<1>6. ASSUME NEW t \in Tasks, Return(t) PROVE IndexInv'
  <2>1. "idle" \in Places /\ NoLocal \in Locals
    BY LocalTypes DEF Places, Suspended
  <2>2. /\ pc[t] = "returning" /\ Goto(t, "idle", NoLocal) /\ Runs(t) /\ threads' = threads
        /\ cache' = cache
    BY <1>6 DEF Return, Finish, config
  <2>3. pc'[t] = "idle" /\ \A u \in Tasks \ {t} : pc'[u] = pc[u] /\ local'[u] = local[u]
    BY <2>1, <2>2, GotoTyped
  <2>4. AloneInside'
    BY <2>1, <2>2, AloneKept
  <2>5. InsideIndexed' /\ ListedInHand'
    BY <2>2, <2>3 DEF InsideIndexed, ListedInHand
  <2>6. ~threads => cache # NoListing
    BY <2>2 DEF InsideIndexed
  <2>7. ~threads => result'[t].end = "found" /\ \A u \in Tasks \ {t} : result'[u] = result[u]
    BY <1>0, <1>6, <2>6 DEF Return, Finish
  <2>8. IndexIsThere'
    BY <2>2, <2>7 DEF IndexIsThere
  <2> QED  BY <2>4, <2>5, <2>8
<1>7. ASSUME NEW t \in Tasks, Write(t) PROVE IndexInv'
  <2>1. "writing" \in Places /\ NoLocal \in Locals
    BY LocalTypes DEF Places, Suspended
  <2>2. /\ Goto(t, "writing", NoLocal) /\ Runs(t) /\ threads' = threads /\ cache' = cache
        /\ result' = [result EXCEPT ![t] = NoResult]
    BY <1>7 DEF Write, config
  <2>3. pc'[t] = "writing" /\ \A u \in Tasks \ {t} : pc'[u] = pc[u] /\ local'[u] = local[u]
    BY <2>1, <2>2, GotoTyped
  <2>4. AloneInside'
    BY <2>1, <2>2, AloneKept
  <2>5. InsideIndexed' /\ ListedInHand' /\ IndexIsThere'
    BY <1>0, <2>2, <2>3 DEF InsideIndexed, ListedInHand, IndexIsThere, NoResult
  <2> QED  BY <2>4, <2>5
<1>8. ASSUME NEW t \in Tasks, Apply(t) PROVE IndexInv'
  <2>1. PICK n \in 0 .. MaxVersion : Goto(t, "written", [NoLocal EXCEPT !.floor = n])
    BY <1>0, <1>8 DEF Apply
  <2>2. "written" \in Places /\ [NoLocal EXCEPT !.floor = n] \in Locals
    BY LibraryAssumption DEF Places, Suspended, NoLocal, Locals, NoListing
  <2>3. threads' = threads /\ cache' = cache /\ result' = result
    BY <1>8 DEF Apply, config
  <2>4. pc'[t] = "written" /\ \A u \in Tasks \ {t} : pc'[u] = pc[u] /\ local'[u] = local[u]
    BY <2>1, <2>2, GotoTyped
  <2>5. AloneInside'
    <3>1. "written" \in Suspended
      BY DEF Suspended
    <3> QED  BY <2>1, <2>2, <2>3, <3>1, AloneKept
  <2>6. InsideIndexed' /\ ListedInHand' /\ IndexIsThere'
    BY <2>3, <2>4 DEF InsideIndexed, ListedInHand, IndexIsThere
  <2> QED  BY <2>5, <2>6
<1>9. ASSUME NEW t \in Tasks, Invalidate(t) PROVE IndexInv'
  <2>1. "invalidating" \in Places /\ local[t] \in Locals
    BY <1>0 DEF Places
  <2>2. /\ Goto(t, "invalidating", local[t]) /\ Runs(t) /\ threads' = threads
        /\ result' = result
    BY <1>9 DEF Invalidate, config
  <2>3. pc'[t] = "invalidating" /\ \A u \in Tasks \ {t} : pc'[u] = pc[u] /\ local'[u] = local[u]
    BY <2>1, <2>2, GotoTyped
  <2>4. AloneInside'
    BY <2>1, <2>2, AloneKept
  <2>5. ~threads => \A u \in Tasks : pc'[u] \notin {"stamping", "returning"}
    BY <2>2, <2>3, OthersOutside
  <2>6. InsideIndexed' /\ ListedInHand' /\ IndexIsThere'
    BY <2>2, <2>3, <2>5 DEF InsideIndexed, ListedInHand, IndexIsThere
  <2> QED  BY <2>4, <2>6
<1>10. ASSUME NEW t \in Tasks, Forget(t) \/ Raise(t) PROVE IndexInv'
  <2>1. "idle" \in Places /\ NoLocal \in Locals
    BY LocalTypes DEF Places, Suspended
  <2>2. /\ Goto(t, "idle", NoLocal) /\ Runs(t) /\ threads' = threads /\ cache' = cache
        /\ result' = [result EXCEPT ![t] = NoResult]
    BY <1>10 DEF Forget, Raise, Acknowledge, Finish, config
  <2>3. pc'[t] = "idle" /\ \A u \in Tasks \ {t} : pc'[u] = pc[u] /\ local'[u] = local[u]
    BY <2>1, <2>2, GotoTyped
  <2>4. AloneInside'
    BY <2>1, <2>2, AloneKept
  <2>5. InsideIndexed' /\ ListedInHand' /\ IndexIsThere'
    BY <1>0, <2>2, <2>3 DEF InsideIndexed, ListedInHand, IndexIsThere, NoResult
  <2> QED  BY <2>4, <2>5
<1> QED
  BY <1>1, <1>2, <1>3, <1>4, <1>5, <1>6, <1>7, <1>8, <1>9, <1>10 DEF Next

\* What a coroutine found fresh or has fetched is there when it returns it.
THEOREM LibraryIndexIsThere == Spec => []IndexIsThere
<1>1. Init => IndexInv
  BY DEF Init, IndexInv, AloneInside, InsideIndexed, ListedInHand, IndexIsThere, Suspended, NoResult
<1>2. IndexInv => IndexIsThere
  BY DEF IndexInv
<1> QED  BY <1>1, <1>2, TypeInit, TypeNext, IndexNext, PTL DEF Spec

-----------------------------------------------------------------------------
(* What has returned was written before, and no listing newer than a race is *)
(* older than what has returned.                                             *)

LookingUp == {"asking", "listed", "stamping", "returning"}
Committed == {"written", "invalidating"}

\* What a task carries of the library is bounded by what is known of it.
FloorsKnown ==
  /\ acked <= library
  /\ \A t \in Tasks :
       /\ pc[t] \in Committed => local[t].floor <= library
       /\ pc[t] \in LookingUp => local[t].floor <= acked

\* Listings on their way, the index while it is or may become fresh, and the
\* index a task is about to return.
InHandNew == \A t \in Tasks : pc[t] \in {"listed", "stamping"} => local[t].listing.version >= acked

FreshIsNew ==
  cache # NoListing /\ (fetched # Never \/ \E t \in Tasks : pc[t] = "stamping")
    => cache.version >= acked

ReturnedNew ==
  cache # NoListing => \A t \in Tasks : pc[t] = "returning" => cache.version >= local[t].floor

SeenInv == FloorsKnown /\ (~raced => InHandNew /\ FreshIsNew /\ ReturnedNew) /\ WritesAreSeen

\* A step keeps what is known of the library, if what its task carries is.
LEMMA FloorsKept ==
  ASSUME TypeOK, FloorsKnown, NEW t \in Tasks, NEW place \in Places, NEW carried \in Locals,
         Goto(t, place, carried),
         library' \in Nat, acked' \in Nat,
         library <= library', acked <= acked', acked' <= library',
         place \in Committed => carried.floor <= library',
         place \in LookingUp => carried.floor <= acked'
  PROVE  FloorsKnown'
<1>1. pc'[t] = place /\ local'[t] = carried
  BY GotoTyped
<1>2. ASSUME NEW u \in Tasks
      PROVE  /\ pc'[u] \in Committed => local'[u].floor <= library'
             /\ pc'[u] \in LookingUp => local'[u].floor <= acked'
  <2>1. CASE u = t
    BY <1>1, <2>1
  <2>2. CASE u # t
    <3>1. pc'[u] = pc[u] /\ local'[u] = local[u]
      BY <2>2, GotoTyped
    <3>2. local[u].floor \in Nat /\ library \in Nat /\ acked \in Nat
      BY LibraryAssumption, TypeParts DEF Locals
    <3>3. /\ pc[u] \in Committed => local[u].floor <= library
          /\ pc[u] \in LookingUp => local[u].floor <= acked
      BY DEF FloorsKnown
    <3> HIDE DEF Committed, LookingUp
    <3>4. \A i, j, k \in Nat : i <= j /\ j <= k => i <= k
      OBVIOUS
    <3> QED  BY <3>1, <3>2, <3>3, <3>4
  <2> QED  BY <2>1, <2>2
<1> QED  BY <1>2 DEF FloorsKnown

LEMMA SeenNext == TypeOK /\ IndexInv /\ SeenInv /\ [Next]_vars => SeenInv'
<1> SUFFICES ASSUME TypeOK, IndexInv, SeenInv, [Next]_vars PROVE SeenInv'
  OBVIOUS
<1> USE DEF SeenInv
<1>0. /\ library \in 0 .. MaxVersion /\ now \in Nat /\ acked \in 0 .. MaxVersion
      /\ cache \in Listings \cup {NoListing} /\ fetched \in Nat \cup {Never}
      /\ pc \in [Tasks -> Places] /\ local \in [Tasks -> Locals] /\ result \in [Tasks -> Results]
  BY TypeParts
<1>t. \A u \in Tasks : local[u] \in Locals /\ local[u].floor \in 0 .. MaxVersion
  BY <1>0 DEF Locals
<1>i. library \in Nat /\ acked \in Nat /\ \A u \in Tasks : local[u].floor \in Nat
  BY <1>0, <1>t, LibraryAssumption
<1>f. /\ acked <= library
      /\ \A u \in Tasks :
           /\ pc[u] \in Committed => local[u].floor <= library
           /\ pc[u] \in LookingUp => local[u].floor <= acked
  BY DEF FloorsKnown
<1>p. /\ "idle" \notin Committed \cup LookingUp /\ "invalidating" \in Committed
      /\ "written" \notin LookingUp
      /\ {"asking", "returning"} \cap Committed = {}
  BY DEF Committed, LookingUp
<1> USE LibraryAssumption
<1>1. CASE Publish
  <2>1. library' = library + 1 /\ UNCHANGED <<cache, fetched, pc, local, result, acked, raced>>
    BY <1>1 DEF Publish
  <2>2. FloorsKnown'
    BY <1>0, <1>t, <2>1 DEF FloorsKnown, Committed, LookingUp
  <2> QED
    BY <2>1, <2>2 DEF InHandNew, FreshIsNew, ReturnedNew, WritesAreSeen
<1>2. CASE Tick \/ UNCHANGED vars
  BY <1>2 DEF Tick, vars, config, FloorsKnown, InHandNew, FreshIsNew, ReturnedNew, WritesAreSeen
<1>3. ASSUME NEW t \in Tasks, NEW refresh \in BOOLEAN, Find(t, refresh)
      PROVE  SeenInv'
  <2> DEFINE place == IF refresh \/ Stale THEN "asking" ELSE "returning"
  <2> DEFINE carried == [NoLocal EXCEPT !.asked = now, !.floor = acked]
  <2>1. place \in Places /\ carried \in Locals /\ carried.floor = acked
    BY <1>0, LocalTypes DEF Places, Suspended, NoLocal, Locals
  <2>2. /\ Goto(t, place, carried) /\ cache' = cache /\ fetched' = fetched
        /\ acked' = acked /\ raced' = raced /\ library' = library
        /\ result' = [result EXCEPT ![t] = NoResult]
    BY <1>3 DEF Find, config
  <2>3. /\ pc'[t] = place /\ local'[t] = carried
        /\ \A u \in Tasks \ {t} : pc'[u] = pc[u] /\ local'[u] = local[u]
    BY <2>1, <2>2, GotoTyped
  <2>4. place \in {"asking", "returning"} /\ (place = "returning" => fetched # Never)
    BY DEF Stale
  <2>5. FloorsKnown'
    <3>1. place \notin Committed /\ acked <= acked /\ library <= library
      BY <1>i, <1>p, <2>4
    <3> QED  BY <1>f, <1>i, <2>1, <2>2, <3>1, FloorsKept
  <2>6. ~raced => InHandNew' /\ FreshIsNew' /\ ReturnedNew'
    BY <2>1, <2>2, <2>3, <2>4 DEF InHandNew, FreshIsNew, ReturnedNew
  <2>7. WritesAreSeen'
    BY <1>0, <2>2 DEF WritesAreSeen, NoResult
  <2> QED  BY <2>2, <2>5, <2>6, <2>7
<1>4. ASSUME NEW t \in Tasks, List(t) PROVE SeenInv'
  <2> DEFINE listing == [version |-> library, served |-> now]
  <2> DEFINE carried == [local[t] EXCEPT !.listing = listing]
  <2>1. /\ "listed" \in Places /\ carried \in Locals
        /\ carried.floor = local[t].floor /\ carried.listing.version = library
    BY <1>0 DEF Places, Suspended, Locals, Listings
  <2>2. /\ Goto(t, "listed", carried) /\ cache' = cache /\ fetched' = fetched
        /\ acked' = acked /\ raced' = raced /\ library' = library /\ result' = result
        /\ pc[t] = "asking"
    BY <1>4 DEF List, config
  <2>3. /\ pc'[t] = "listed" /\ local'[t] = carried
        /\ \A u \in Tasks \ {t} : pc'[u] = pc[u] /\ local'[u] = local[u]
    BY <2>1, <2>2, GotoTyped
  <2>4. FloorsKnown'
    BY <2>1, <2>2, <2>3 DEF FloorsKnown, Committed, LookingUp
  <2>5. ~raced => InHandNew' /\ FreshIsNew' /\ ReturnedNew'
    BY <2>1, <2>2, <2>3 DEF InHandNew, FreshIsNew, ReturnedNew, FloorsKnown
  <2> QED  BY <2>2, <2>4, <2>5 DEF WritesAreSeen
<1>5. ASSUME NEW t \in Tasks, Keep(t) PROVE SeenInv'
  <2>1. "stamping" \in Places /\ local[t] \in Locals
    BY <1>0 DEF Places
  <2>2. /\ Goto(t, "stamping", local[t]) /\ cache' = local[t].listing /\ fetched' = fetched
        /\ acked' = acked /\ raced' = raced /\ library' = library /\ result' = result
        /\ pc[t] = "listed"
    BY <1>5 DEF Keep, config
  <2>3. /\ pc'[t] = "stamping" /\ local'[t] = local[t]
        /\ \A u \in Tasks \ {t} : pc'[u] = pc[u] /\ local'[u] = local[u]
    BY <2>1, <2>2, GotoTyped
  <2>4. FloorsKnown'
    BY <2>2, <2>3 DEF FloorsKnown, Committed, LookingUp
  <2>5. ASSUME ~raced PROVE InHandNew' /\ FreshIsNew' /\ ReturnedNew'
    <3>1. cache'.version >= acked /\ cache'.version \in Nat
      BY <2>2, <2>5 DEF InHandNew, IndexInv, ListedInHand, Listings
    <3>2. \A u \in Tasks : pc'[u] = "returning" => local'[u].floor <= acked
      BY <2>2, <2>4 DEF FloorsKnown, LookingUp
    <3>3. ReturnedNew'
      BY <1>0, <1>t, <2>1, <2>3, <3>1, <3>2 DEF ReturnedNew
    <3> QED  BY <2>2, <2>3, <2>5, <3>1, <3>3 DEF InHandNew, FreshIsNew
  <2> QED  BY <2>2, <2>4, <2>5 DEF WritesAreSeen
<1>6. ASSUME NEW t \in Tasks, Stamp(t) PROVE SeenInv'
  <2> DEFINE carried == [local[t] EXCEPT !.listing = NoListing]
  <2>1. "returning" \in Places /\ carried \in Locals /\ carried.floor = local[t].floor
    BY <1>0 DEF Places, Locals
  <2>2. /\ Goto(t, "returning", carried) /\ cache' = cache
        /\ acked' = acked /\ raced' = raced /\ library' = library /\ result' = result
        /\ pc[t] = "stamping"
    BY <1>6 DEF Stamp, config
  <2>3. /\ pc'[t] = "returning" /\ local'[t] = carried
        /\ \A u \in Tasks \ {t} : pc'[u] = pc[u] /\ local'[u] = local[u]
    BY <2>1, <2>2, GotoTyped
  <2>4. FloorsKnown'
    BY <2>1, <2>2, <2>3 DEF FloorsKnown, Committed, LookingUp
  <2>5. ASSUME ~raced PROVE InHandNew' /\ FreshIsNew' /\ ReturnedNew'
    <3>1. cache # NoListing => cache.version >= acked /\ cache.version \in Nat
      BY <1>0, <2>2, <2>5 DEF FreshIsNew, Listings
    <3>2. local[t].floor <= acked
      BY <1>0, <1>t, <2>2 DEF FloorsKnown, Committed, LookingUp
    <3>3. cache # NoListing => cache.version >= local[t].floor
      BY <1>0, <1>t, <3>1, <3>2
    <3> QED  BY <2>1, <2>2, <2>3, <2>5, <3>1, <3>3 DEF InHandNew, FreshIsNew, ReturnedNew
  <2> QED  BY <2>2, <2>4, <2>5 DEF WritesAreSeen
<1>7. ASSUME NEW t \in Tasks, Return(t) PROVE SeenInv'
  <2>1. "idle" \in Places /\ NoLocal \in Locals
    BY LocalTypes DEF Places, Suspended
  <2>2. /\ Goto(t, "idle", NoLocal) /\ cache' = cache /\ fetched' = fetched
        /\ acked' = acked /\ raced' = raced /\ library' = library
        /\ pc[t] = "returning"
    BY <1>7 DEF Return, Finish, config
  <2>3. /\ pc'[t] = "idle"
        /\ \A u \in Tasks \ {t} : pc'[u] = pc[u] /\ local'[u] = local[u]
    BY <2>1, <2>2, GotoTyped
  <2>4. FloorsKnown'
    BY <2>2, <2>3 DEF FloorsKnown, Committed, LookingUp
  <2>5. ~raced => InHandNew' /\ FreshIsNew' /\ ReturnedNew'
    BY <2>2, <2>3 DEF InHandNew, FreshIsNew, ReturnedNew
  <2>6. ASSUME ~raced PROVE ~result'[t].behind /\ \A u \in Tasks \ {t} : result'[u] = result[u]
    <3>1. CASE cache = NoListing
      BY <1>0, <1>7, <3>1 DEF Return, Finish, NoResult
    <3>2. CASE cache # NoListing
      <4>1. ~(cache.version < local[t].floor)
        BY <1>0, <1>t, <2>2, <2>6, <3>2 DEF ReturnedNew, Listings
      <4> QED  BY <1>0, <1>7, <3>2, <4>1 DEF Return, Finish
    <3> QED  BY <3>1, <3>2
  <2>7. WritesAreSeen'
    BY <2>2, <2>6 DEF WritesAreSeen
  <2> QED  BY <2>2, <2>4, <2>5, <2>7
<1>8. ASSUME NEW t \in Tasks, Write(t) \/ Raise(t) PROVE SeenInv'
  <2>1. /\ "idle" \in Places /\ "writing" \in Places /\ NoLocal \in Locals
    BY LocalTypes DEF Places, Suspended
  <2>2. /\ Goto(t, "idle", NoLocal) \/ Goto(t, "writing", NoLocal)
        /\ cache' = cache /\ fetched' = fetched
        /\ acked' = acked /\ raced' = raced /\ library' = library
        /\ result' = [result EXCEPT ![t] = NoResult]
    BY <1>8 DEF Write, Raise, Finish, config
  <2>3. /\ pc'[t] \in {"idle", "writing"}
        /\ \A u \in Tasks \ {t} : pc'[u] = pc[u] /\ local'[u] = local[u]
    BY <2>1, <2>2, GotoTyped
  <2>4. FloorsKnown'
    BY <2>2, <2>3 DEF FloorsKnown, Committed, LookingUp
  <2>5. ~raced => InHandNew' /\ FreshIsNew' /\ ReturnedNew'
    BY <2>2, <2>3 DEF InHandNew, FreshIsNew, ReturnedNew
  <2>6. WritesAreSeen'
    BY <1>0, <2>2 DEF WritesAreSeen, NoResult
  <2> QED  BY <2>2, <2>4, <2>5, <2>6
<1>9. ASSUME NEW t \in Tasks, Apply(t) PROVE SeenInv'
  <2>1. PICK n \in 0 .. MaxVersion :
          /\ n \in {library, library + 1} /\ library' = n
          /\ Goto(t, "written", [NoLocal EXCEPT !.floor = n])
    BY <1>0, <1>9 DEF Apply
  <2>2. /\ "written" \in Places /\ [NoLocal EXCEPT !.floor = n] \in Locals
        /\ [NoLocal EXCEPT !.floor = n].floor = n
    BY DEF Places, Suspended, NoLocal, Locals, NoListing
  <2>3. /\ cache' = cache /\ fetched' = fetched /\ acked' = acked /\ raced' = raced
        /\ result' = result
    BY <1>9 DEF Apply, config
  <2>a. PICK carried \in Locals : carried.floor = n /\ Goto(t, "written", carried)
    BY <2>1, <2>2
  <2>4. /\ pc'[t] = "written" /\ local'[t].floor = n
        /\ \A u \in Tasks \ {t} : pc'[u] = pc[u] /\ local'[u] = local[u]
    BY <2>2, <2>a, GotoTyped
  <2>5. FloorsKnown'
    <3>1. library <= n /\ n \in Nat /\ acked <= acked /\ acked <= n /\ n <= n
      BY <1>f, <1>i, <2>1
    <3> QED  BY <1>i, <1>p, <2>1, <2>2, <2>3, <2>a, <3>1, FloorsKept
  <2>6. ~raced => InHandNew' /\ FreshIsNew' /\ ReturnedNew'
    BY <2>3, <2>4 DEF InHandNew, FreshIsNew, ReturnedNew
  <2> QED  BY <2>3, <2>5, <2>6 DEF WritesAreSeen
<1>10. ASSUME NEW t \in Tasks, Invalidate(t) PROVE SeenInv'
  <2>1. "invalidating" \in Places /\ local[t] \in Locals
    BY <1>0 DEF Places
  <2>2. /\ Goto(t, "invalidating", local[t]) /\ cache' = NoListing /\ fetched' = fetched
        /\ acked' = acked /\ raced' = raced /\ library' = library /\ result' = result
        /\ pc[t] = "written"
    BY <1>10 DEF Invalidate, config
  <2>3. /\ pc'[t] = "invalidating" /\ local'[t] = local[t]
        /\ \A u \in Tasks \ {t} : pc'[u] = pc[u] /\ local'[u] = local[u]
    BY <2>1, <2>2, GotoTyped
  <2>4. FloorsKnown'
    BY <2>2, <2>3 DEF FloorsKnown, Committed, LookingUp
  <2>5. ~raced => InHandNew' /\ FreshIsNew' /\ ReturnedNew'
    BY <2>2, <2>3 DEF InHandNew, FreshIsNew, ReturnedNew, NoListing
  <2> QED  BY <2>2, <2>4, <2>5 DEF WritesAreSeen
<1>11. ASSUME NEW t \in Tasks, Forget(t) PROVE SeenInv'
  <2>1. "idle" \in Places /\ NoLocal \in Locals
    BY LocalTypes DEF Places, Suspended
  <2>2. /\ Goto(t, "idle", NoLocal) /\ cache' = cache /\ fetched' = Never /\ library' = library
        /\ acked' = IF local[t].floor > acked THEN local[t].floor ELSE acked
        /\ result' = [result EXCEPT ![t] = NoResult]
        /\ pc[t] = "invalidating"
    BY <1>11 DEF Forget, Acknowledge, Finish, config
  <2>r. raced' = (raced \/ \E u \in Tasks : pc[u] \in {"listed", "stamping"})
    BY <1>11 DEF Forget, Acknowledge
  <2>3. /\ pc'[t] = "idle"
        /\ \A u \in Tasks \ {t} : pc'[u] = pc[u] /\ local'[u] = local[u]
    BY <2>1, <2>2, GotoTyped
  <2>4. acked' >= acked /\ acked' \in Nat /\ acked' <= library
    <3>1. local[t].floor \in Nat /\ local[t].floor <= library
      BY <1>f, <1>i, <1>p, <2>2
    <3> QED  BY <1>f, <1>i, <2>2, <3>1
  <2>5. FloorsKnown'
    <3>1. library <= library
      BY <1>i
    <3> QED  BY <1>i, <1>p, <2>1, <2>2, <2>4, <3>1, FloorsKept
  <2>6. ASSUME ~raced' PROVE InHandNew' /\ FreshIsNew' /\ ReturnedNew'
    <3>1. ~raced /\ \A u \in Tasks : pc'[u] \notin {"listed", "stamping"}
      BY <2>r, <2>3, <2>6
    <3>2. InHandNew'
      BY <3>1 DEF InHandNew
    <3>3. FreshIsNew'
      BY <2>2, <3>1 DEF FreshIsNew
    <3>4. ReturnedNew'
      BY <2>2, <2>3, <3>1 DEF ReturnedNew
    <3> QED  BY <3>2, <3>3, <3>4
  <2>7. WritesAreSeen'
    BY <1>0, <2>2, <2>r DEF WritesAreSeen, NoResult
  <2> QED  BY <2>5, <2>6, <2>7
<1> QED
  BY <1>1, <1>2, <1>3, <1>4, <1>5, <1>6, <1>7, <1>8, <1>9, <1>10, <1>11 DEF Next

\* Unless a listing was on its way when a write invalidated the index, a lookup
\* sees every write of this object that returned before it began.
THEOREM LibraryWritesAreSeen == Spec => []WritesAreSeen
<1>1. Init => IndexInv
  BY DEF Init, IndexInv, AloneInside, InsideIndexed, ListedInHand, IndexIsThere, Suspended, NoResult
<1>2. Init => SeenInv
  BY DEF Init, SeenInv, FloorsKnown, Committed, LookingUp, InHandNew, FreshIsNew, ReturnedNew,
         WritesAreSeen, NoResult
<1>3. SeenInv => WritesAreSeen
  BY DEF SeenInv
<1> QED  BY <1>1, <1>2, <1>3, TypeInit, TypeNext, IndexNext, SeenNext, PTL DEF Spec

-----------------------------------------------------------------------------
(* How old an index may be.  A listing is kept and stamped within Latency of *)
(* being served; a thread may stamp the index another has replaced meanwhile *)
(* with an older listing, itself served within Latency of being kept.        *)

Arriving == {"listed", "stamping"}
Slack == IF threads THEN Latency ELSE 0

ServedPromptly ==
  \A t \in Tasks :
    /\ pc[t] \in LookingUp => local[t].asked <= now
    /\ pc[t] \in Arriving => /\ local[t].asked <= local[t].listing.served
                             /\ local[t].listing.served <= now
                             /\ now <= local[t].listing.served + Latency

StampsWhatIsThere ==
  cache # NoListing =>
    \A t \in Tasks : pc[t] = "stamping" => local[t].listing.served <= cache.served + Slack

StampedPromptly ==
  /\ fetched <= now
  /\ cache # NoListing /\ fetched # Never => fetched <= cache.served + Latency + Slack

ReturnedYoung ==
  cache # NoListing =>
    \A t \in Tasks : pc[t] = "returning" =>
      \/ local[t].asked <= cache.served
      \/ local[t].asked < cache.served + ttl + Latency + Slack

AgeInv ==
  ServedPromptly /\ StampsWhatIsThere /\ StampedPromptly /\ ReturnedYoung /\ StaleNoLonger

LEMMA AgeTypes ==
  ASSUME TypeOK
  PROVE  /\ now \in Nat /\ ttl \in Nat /\ Latency \in Nat /\ Slack \in Nat
         /\ fetched \in Int /\ cache.served \in Int
         /\ \A t \in Tasks : local[t] \in Locals /\ local[t].asked \in Nat
                             /\ local[t].listing.served \in Int
<1>1. /\ cache \in Listings \cup {NoListing} /\ fetched \in Nat \cup {Never}
      /\ local \in [Tasks -> Locals] /\ ttl \in TTLs /\ now \in Nat
  BY TypeParts
<1>2. \A l \in Listings \cup {NoListing} : l.served \in Int
  BY DEF Listings, NoListing, Never
<1>3. ASSUME NEW t \in Tasks
      PROVE  local[t] \in Locals /\ local[t].asked \in Nat
             /\ local[t].listing \in Listings \cup {NoListing}
  BY <1>1 DEF Locals
<1>4. QED
  BY <1>1, <1>2, <1>3, LibraryAssumption DEF Slack, Never

\* What a step that changes neither the clock nor the index has to keep is what
\* its own task carries.
LEMMA AgeKept ==
  ASSUME TypeOK, AgeInv, NEW t \in Tasks, NEW place \in Places, NEW carried \in Locals,
         Goto(t, place, carried),
         UNCHANGED <<config, now, cache>>,
         place \in LookingUp => carried.asked <= now,
         place \in Arriving => /\ carried.asked <= carried.listing.served
                               /\ carried.listing.served <= now
                               /\ now <= carried.listing.served + Latency,
         place # "stamping",
         place = "returning" /\ cache # NoListing =>
           \/ carried.asked <= cache.served
           \/ carried.asked < cache.served + ttl + Latency + Slack
  PROVE  ServedPromptly' /\ StampsWhatIsThere' /\ ReturnedYoung'
<1>1. /\ pc'[t] = place /\ local'[t] = carried
      /\ \A u \in Tasks \ {t} : pc'[u] = pc[u] /\ local'[u] = local[u]
  BY GotoTyped
<1>2. threads' = threads /\ ttl' = ttl /\ now' = now /\ cache' = cache /\ Slack' = Slack
  BY DEF config, Slack
<1>3. ServedPromptly'
  BY <1>1, <1>2 DEF AgeInv, ServedPromptly
<1>4. StampsWhatIsThere'
  BY <1>1, <1>2 DEF AgeInv, StampsWhatIsThere
<1>5. ReturnedYoung'
  BY <1>1, <1>2 DEF AgeInv, ReturnedYoung
<1>6. QED
  BY <1>3, <1>4, <1>5

\* A result of no age is never too old.
LEMMA AgelessKept ==
  ASSUME TypeOK, StaleNoLonger, UNCHANGED config, NEW t \in Tasks, NEW found \in Results,
         result' = [result EXCEPT ![t] = found],
         found.age = 0 \/ found.age < ttl + Latency + Slack
  PROVE  StaleNoLonger'
<1>1. result \in [Tasks -> Results] /\ ttl' = ttl /\ threads' = threads
  BY TypeParts DEF config
<1>2. Latency + Slack = (IF threads THEN 2 * Latency ELSE Latency)
  BY LibraryAssumption DEF Slack
<1>3. found.age = 0 \/ found.age < ttl + (IF threads THEN 2 * Latency ELSE Latency)
  BY <1>2, AgeTypes, LibraryAssumption DEF Slack
<1>4. result'[t] = found /\ \A u \in Tasks \ {t} : result'[u] = result[u]
  BY <1>1
<1>5. QED
  BY <1>1, <1>3, <1>4 DEF StaleNoLonger

LEMMA AgeNext == TypeOK /\ IndexInv /\ AgeInv /\ [Next]_vars => AgeInv'
<1> SUFFICES ASSUME TypeOK, IndexInv, AgeInv, [Next]_vars PROVE AgeInv'
  OBVIOUS
<1>0. /\ library \in 0 .. MaxVersion /\ acked \in 0 .. MaxVersion
      /\ cache \in Listings \cup {NoListing} /\ fetched \in Nat \cup {Never}
      /\ pc \in [Tasks -> Places] /\ local \in [Tasks -> Locals] /\ result \in [Tasks -> Results]
  BY TypeParts
<1>t. /\ now \in Nat /\ ttl \in Nat /\ Latency \in Nat /\ Slack \in Nat
      /\ fetched \in Int /\ cache.served \in Int
      /\ \A t \in Tasks : local[t] \in Locals /\ local[t].asked \in Nat
                          /\ local[t].listing.served \in Int
  BY AgeTypes
<1>a. ServedPromptly /\ StampsWhatIsThere /\ StampedPromptly /\ ReturnedYoung /\ StaleNoLonger
  BY DEF AgeInv
<1>n. NoResult \in Results /\ NoResult.age = 0 /\ NoLocal \in Locals
  BY LocalTypes DEF NoResult
<1>p. "idle" \in Places /\ "asking" \in Places /\ "listed" \in Places /\ "stamping" \in Places
      /\ "returning" \in Places /\ "writing" \in Places /\ "written" \in Places
      /\ "invalidating" \in Places
  BY DEF Places, Suspended
<1>1. CASE Publish \/ UNCHANGED vars
  BY <1>1, <1>a DEF Publish, vars, config, AgeInv, ServedPromptly, StampsWhatIsThere,
                    StampedPromptly, ReturnedYoung, StaleNoLonger, Slack
<1>2. CASE Tick
  <2>1. /\ now' = now + 1 /\ UNCHANGED <<threads, ttl, cache, fetched, pc, local, result>>
        /\ \A t \in Tasks : pc[t] \in Arriving => now < local[t].listing.served + Latency
    BY <1>2 DEF Tick, config, Arriving
  <2>2. ServedPromptly'
    BY <1>a, <1>t, <2>1 DEF ServedPromptly
  <2>3. StampedPromptly'
    BY <1>a, <1>t, <2>1 DEF StampedPromptly, Slack
  <2>4. StampsWhatIsThere' /\ ReturnedYoung' /\ StaleNoLonger'
    BY <1>a, <2>1 DEF StampsWhatIsThere, ReturnedYoung, StaleNoLonger, Slack
  <2> QED  BY <2>2, <2>3, <2>4 DEF AgeInv
<1>3. ASSUME NEW t \in Tasks, NEW refresh \in BOOLEAN, Find(t, refresh)
      PROVE  AgeInv'
  <2> DEFINE place == IF refresh \/ Stale THEN "asking" ELSE "returning"
  <2> DEFINE carried == [NoLocal EXCEPT !.asked = now, !.floor = acked]
  <2>1. carried \in Locals /\ carried.asked = now
    BY <1>0, <1>t, <1>n DEF NoLocal, Locals
  <2>2. /\ Goto(t, place, carried) /\ UNCHANGED <<config, now, cache, fetched>>
        /\ result' = [result EXCEPT ![t] = NoResult]
    BY <1>3 DEF Find
  <2>3. place \in Places /\ place \notin Arriving /\ place # "stamping"
    BY <1>p DEF Arriving
  <2>4. place = "returning" /\ cache # NoListing => now < cache.served + ttl + Latency + Slack
    BY <1>a, <1>t DEF Stale, StampedPromptly
  <2> HIDE DEF place, carried
  <2>5. ServedPromptly' /\ StampsWhatIsThere' /\ ReturnedYoung'
    BY <1>t, <2>1, <2>2, <2>3, <2>4, AgeKept
  <2>6. StaleNoLonger'
    BY <1>a, <1>n, <2>2, AgelessKept
  <2>7. StampedPromptly'
    BY <1>a, <2>2 DEF StampedPromptly, config, Slack
  <2> QED  BY <2>5, <2>6, <2>7 DEF AgeInv
<1>4. ASSUME NEW t \in Tasks, List(t) PROVE AgeInv'
  <2> DEFINE listing == [version |-> library, served |-> now]
  <2> DEFINE carried == [local[t] EXCEPT !.listing = listing]
  <2>1. listing \in Listings
    BY <1>0, <1>t DEF Listings
  <2>2. carried \in Locals /\ carried.asked = local[t].asked /\ carried.listing = listing
    BY <1>t, <2>1 DEF Locals
  <2>3. /\ pc[t] = "asking" /\ Goto(t, "listed", carried)
        /\ UNCHANGED <<config, now, cache, fetched, result>>
    BY <1>4 DEF List
  <2>4. local[t].asked <= now /\ listing.served = now
    BY <1>a, <2>3 DEF ServedPromptly, LookingUp
  <2> HIDE DEF listing, carried
  <2>5. ServedPromptly' /\ StampsWhatIsThere' /\ ReturnedYoung'
    BY <1>p, <1>t, <2>2, <2>3, <2>4, AgeKept
  <2>6. StampedPromptly' /\ StaleNoLonger'
    BY <1>a, <2>3 DEF StampedPromptly, StaleNoLonger, config, Slack
  <2> QED  BY <2>5, <2>6 DEF AgeInv
<1>5. ASSUME NEW t \in Tasks, Keep(t) PROVE AgeInv'
  <2> DEFINE listing == local[t].listing
  <2>1. /\ pc[t] = "listed" /\ Runs(t) /\ Goto(t, "stamping", local[t])
        /\ cache' = listing /\ UNCHANGED <<threads, ttl, now, fetched, result>>
    BY <1>5 DEF Keep, config
  <2>2. /\ pc'[t] = "stamping" /\ local'[t] = local[t]
        /\ \A u \in Tasks \ {t} : pc'[u] = pc[u] /\ local'[u] = local[u]
    BY <1>p, <1>t, <2>1, GotoTyped
  <2>3. /\ local[t].asked <= listing.served /\ listing.served <= now
        /\ now <= listing.served + Latency /\ local[t].asked <= now
    BY <1>a, <2>1 DEF ServedPromptly, LookingUp, Arriving
  <2>4. Slack' = Slack /\ listing.served \in Int
    BY <1>t, <2>1 DEF Slack
  <2>5. ServedPromptly'
    BY <1>a, <2>1, <2>2, <2>3 DEF ServedPromptly, LookingUp, Arriving
  <2>6. StampsWhatIsThere'
    <3> SUFFICES ASSUME NEW u \in Tasks, pc'[u] = "stamping"
                 PROVE  local'[u].listing.served <= listing.served + Slack
      BY <2>1, <2>4 DEF StampsWhatIsThere
    <3>1. CASE u = t
      BY <1>t, <2>2, <2>4, <3>1
    <3>2. CASE u # t
      <4>1. pc[u] = "stamping" /\ local'[u] = local[u]
        BY <2>2, <3>2
      <4>2. threads
        BY <2>1, <3>2, <4>1, OthersOutside
      <4>3. local[u].listing.served <= now
        BY <1>a, <4>1 DEF ServedPromptly, Arriving
      <4> QED  BY <1>t, <2>3, <2>4, <4>1, <4>2, <4>3 DEF Slack
    <3> QED  BY <3>1, <3>2
  <2>7. StampedPromptly'
    BY <1>a, <1>t, <2>1, <2>3, <2>4 DEF StampedPromptly
  <2>8. ReturnedYoung'
    <3> SUFFICES ASSUME NEW u \in Tasks, pc'[u] = "returning"
                 PROVE  \/ local'[u].asked <= listing.served
                        \/ local'[u].asked < listing.served + ttl + Latency + Slack
      BY <2>1, <2>4 DEF ReturnedYoung
    <3>1. u # t /\ pc[u] = "returning" /\ local'[u] = local[u]
      BY <2>2
    <3>2. threads
      BY <2>1, <3>1, OthersOutside
    <3>3. local[u].asked <= now
      BY <1>a, <3>1 DEF ServedPromptly, LookingUp
    <3> QED  BY <1>t, <2>3, <2>4, <3>1, <3>2, <3>3 DEF Slack
  <2>9. StaleNoLonger'
    BY <1>a, <2>1 DEF StaleNoLonger
  <2> QED  BY <2>5, <2>6, <2>7, <2>8, <2>9 DEF AgeInv
<1>6. ASSUME NEW t \in Tasks, Stamp(t) PROVE AgeInv'
  <2> DEFINE carried == [local[t] EXCEPT !.listing = NoListing]
  <2>1. carried \in Locals /\ carried.asked = local[t].asked
    BY <1>t DEF Locals
  <2>2. /\ pc[t] = "stamping" /\ Goto(t, "returning", carried)
        /\ fetched' = now /\ UNCHANGED <<config, now, cache, result>>
    BY <1>6 DEF Stamp
  <2>3. /\ local[t].asked <= local[t].listing.served
        /\ now <= local[t].listing.served + Latency /\ local[t].asked <= now
    BY <1>a, <2>2 DEF ServedPromptly, LookingUp, Arriving
  <2>4. cache # NoListing => local[t].listing.served <= cache.served + Slack
    BY <1>a, <2>2 DEF StampsWhatIsThere
  <2>5. cache # NoListing => \/ local[t].asked <= cache.served
                             \/ local[t].asked < cache.served + ttl + Latency + Slack
    BY <1>t, <2>3, <2>4 DEF Slack
  <2>6. "returning" \notin Arriving
    BY DEF Arriving
  <2> HIDE DEF carried
  <2>7. ServedPromptly' /\ StampsWhatIsThere' /\ ReturnedYoung'
    BY <1>p, <1>t, <2>1, <2>2, <2>3, <2>5, <2>6, AgeKept
  <2>8. StampedPromptly'
    BY <1>t, <2>2, <2>3, <2>4 DEF StampedPromptly, config, Slack
  <2>9. StaleNoLonger'
    BY <1>a, <2>2 DEF StaleNoLonger, config
  <2> QED  BY <2>7, <2>8, <2>9 DEF AgeInv
<1>7. ASSUME NEW t \in Tasks, Return(t) PROVE AgeInv'
  <2> DEFINE found == IF cache = NoListing THEN [NoResult EXCEPT !.end = "KeyError"]
                      ELSE [end |-> "found", age |-> Age(t),
                            behind |-> cache.version < local[t].floor]
  <2>1. /\ pc[t] = "returning" /\ Goto(t, "idle", NoLocal) /\ result' = [result EXCEPT ![t] = found]
        /\ UNCHANGED <<config, now, cache, fetched>>
    BY <1>7 DEF Return, Finish
  <2>2. ASSUME cache # NoListing
        PROVE  Age(t) \in Nat /\ (Age(t) = 0 \/ Age(t) < ttl + Latency + Slack)
    BY <1>a, <1>t, <2>1, <2>2 DEF ReturnedYoung, Age
  <2>3. [NoResult EXCEPT !.end = "KeyError"] \in Results /\ [NoResult EXCEPT !.end = "KeyError"].age = 0
    BY DEF NoResult, Results
  <2>4. ASSUME cache # NoListing
        PROVE  [end |-> "found", age |-> Age(t), behind |-> cache.version < local[t].floor] \in Results
    <3>1. (cache.version < local[t].floor) \in BOOLEAN
      OBVIOUS
    <3> QED  BY <2>2, <2>4, <3>1, Zenon DEF Results
  <2>5. found \in Results /\ (found.age = 0 \/ found.age < ttl + Latency + Slack)
    <3>1. CASE cache = NoListing
      BY <2>3, <3>1
    <3>2. CASE cache # NoListing
      <4>1. found = [end |-> "found", age |-> Age(t), behind |-> cache.version < local[t].floor]
        BY <3>2
      <4>2. found.age = Age(t)
        BY <4>1
      <4> QED  BY <2>2, <2>4, <3>2, <4>1, <4>2
    <3> QED  BY <3>1, <3>2
  <2> HIDE DEF found
  <2>6. "idle" \notin LookingUp /\ "idle" \notin Arriving
    BY DEF LookingUp, Arriving
  <2>7. ServedPromptly' /\ StampsWhatIsThere' /\ ReturnedYoung'
    BY <1>n, <1>p, <2>1, <2>6, AgeKept
  <2>8. StaleNoLonger'
    BY <1>a, <2>1, <2>5, AgelessKept
  <2>9. StampedPromptly'
    BY <1>a, <2>1 DEF StampedPromptly, config, Slack
  <2> QED  BY <2>7, <2>8, <2>9 DEF AgeInv
<1>8. ASSUME NEW t \in Tasks, Write(t) \/ Raise(t) \/ Apply(t) PROVE AgeInv'
  <2>1. PICK place \in {"idle", "writing", "written"}, carried \in Locals : Goto(t, place, carried)
    <3>1. CASE Write(t) \/ Raise(t)
      BY <1>n, <3>1 DEF Write, Raise, Finish
    <3>2. CASE Apply(t)
      <4>1. PICK n : n = library' /\ Goto(t, "written", [NoLocal EXCEPT !.floor = n])
        BY <3>2 DEF Apply
      <4>2. n \in 0 .. MaxVersion
        BY <1>0, <3>2, <4>1 DEF Apply
      <4>3. [NoLocal EXCEPT !.floor = n] \in Locals
        BY <1>n, <4>2 DEF NoLocal, Locals
      <4> QED  BY <4>1, <4>3
    <3> QED  BY <1>8, <3>1, <3>2
  <2>2. /\ UNCHANGED <<config, now, cache, fetched>>
        /\ result' = result \/ result' = [result EXCEPT ![t] = NoResult]
    BY <1>8 DEF Write, Raise, Finish, Apply
  <2>3. place \in Places /\ place \notin LookingUp /\ place \notin Arriving
    BY <1>p DEF LookingUp, Arriving
  <2>4. ServedPromptly' /\ StampsWhatIsThere' /\ ReturnedYoung'
    BY <2>1, <2>2, <2>3, AgeKept
  <2>5. StaleNoLonger'
    <3>1. CASE result' = result
      BY <1>a, <2>2, <3>1 DEF StaleNoLonger, config
    <3>2. CASE result' = [result EXCEPT ![t] = NoResult]
      BY <1>a, <1>n, <2>2, <3>2, AgelessKept
    <3> QED  BY <2>2, <3>1, <3>2
  <2>6. StampedPromptly'
    BY <1>a, <2>2 DEF StampedPromptly, config, Slack
  <2> QED  BY <2>4, <2>5, <2>6 DEF AgeInv
<1>9. ASSUME NEW t \in Tasks, Invalidate(t) PROVE AgeInv'
  <2>1. /\ cache' = NoListing /\ Goto(t, "invalidating", local[t])
        /\ UNCHANGED <<threads, ttl, now, fetched, result>>
    BY <1>9 DEF Invalidate, config
  <2>2. /\ pc'[t] = "invalidating" /\ local'[t] = local[t]
        /\ \A u \in Tasks \ {t} : pc'[u] = pc[u] /\ local'[u] = local[u]
    BY <1>p, <1>t, <2>1, GotoTyped
  <2>3. ServedPromptly'
    BY <1>a, <2>1, <2>2 DEF ServedPromptly, LookingUp, Arriving
  <2>4. StampsWhatIsThere' /\ ReturnedYoung' /\ StampedPromptly' /\ StaleNoLonger'
    BY <1>a, <2>1 DEF StampsWhatIsThere, ReturnedYoung, StampedPromptly, StaleNoLonger
  <2> QED  BY <2>3, <2>4 DEF AgeInv
<1>10. ASSUME NEW t \in Tasks, Forget(t) PROVE AgeInv'
  <2>1. /\ fetched' = Never /\ Goto(t, "idle", NoLocal) /\ UNCHANGED <<config, now, cache>>
        /\ result' = [result EXCEPT ![t] = NoResult]
    BY <1>10 DEF Forget, Acknowledge, Finish
  <2>2. "idle" \notin LookingUp /\ "idle" \notin Arriving
    BY DEF LookingUp, Arriving
  <2>3. ServedPromptly' /\ StampsWhatIsThere' /\ ReturnedYoung'
    BY <1>n, <1>p, <2>1, <2>2, AgeKept
  <2>4. StaleNoLonger'
    BY <1>a, <1>n, <2>1, AgelessKept
  <2>5. StampedPromptly'
    BY <1>t, <2>1 DEF StampedPromptly, Never
  <2> QED  BY <2>3, <2>4, <2>5 DEF AgeInv
<1> QED
  BY <1>1, <1>2, <1>3, <1>4, <1>5, <1>6, <1>7, <1>8, <1>9, <1>10 DEF Next

\* A lookup is answered with an index that was the library's less than cache_ttl
\* and the time of a listing before it began, or, where threads share the
\* repository, of two.
THEOREM LibraryStaleNoLonger == Spec => []StaleNoLonger
<1>1. Init => IndexInv
  BY DEF Init, IndexInv, AloneInside, InsideIndexed, ListedInHand, IndexIsThere, Suspended, NoResult
<1>2. Init => AgeInv
  BY LibraryAssumption
     DEF Init, AgeInv, ServedPromptly, StampsWhatIsThere, StampedPromptly, ReturnedYoung,
         StaleNoLonger, LookingUp, Arriving, NoResult, Never
<1>3. AgeInv => StaleNoLonger
  BY DEF AgeInv
<1> QED  BY <1>1, <1>2, <1>3, TypeInit, TypeNext, IndexNext, AgeNext, PTL DEF Spec
=============================================================================
