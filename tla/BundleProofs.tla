---------------------------- MODULE BundleProofs ----------------------------
(***************************************************************************)
(* A bundle has every module the entry needs, once and in order, each from  *)
(* the commit it reports, and is refused only for the reason given,         *)
(* whatever the modules import and however the library moves.               *)
(***************************************************************************)
EXTENDS Bundle, SequenceTheorems, TLAPS

Pending == {pending[i] : i \in DOMAIN pending}

\* The first walk has seen only what the entry needs ...
Needed == visited \cup Pending \subseteq ClosureOf({Entry})

\* ... and has it, or has it before it, ...
Frontier ==
  /\ Entry \in visited \cup Pending
  /\ \A p \in visited : ImportsOf(p) \subseteq visited \cup Pending
  /\ phase \in {"ordering", "merging", "built"} => pending = <<>>

\* ... with its text, ...
Texts ==
  /\ visited \subseteq Sources
  /\ fetched \subseteq visited \ replaced
  /\ \A p \in Paths \ Sources : imports[p] = <<>>

\* ... read at the commit that was settled on.
Versions ==
  /\ \A p \in Paths : version[p] = IF p \in fetched THEN pinned ELSE 0
  /\ phase = "resolving" => fetched = {}
  /\ phase \in {"fetching", "ordering", "merging", "built"} => pinned # 0

\* The second walk begins where the first has ended and stays in what it saw, ...
Walked ==
  /\ phase \in {"resolving", "fetching"} => stack = <<>> /\ order = <<>>
  /\ phase \in {"merging", "built"} => stack = <<>> /\ order # <<>>
  /\ OnStack \cup Done \subseteq visited

\* ... begins with the entry and ends with it, ...
FromEntry ==
  /\ stack # <<>> => stack[1].path = Entry
  /\ stack = <<>> /\ order # <<>> => Last(order) = Entry

\* ... meets every module once, ...
EachOnce ==
  /\ \A i, j \in DOMAIN order : order[i] = order[j] => i = j
  /\ \A i, j \in DOMAIN stack : stack[i].path = stack[j].path => i = j
  /\ OnStack \cap Done = {}

\* ... puts it behind what it imports, ...
Behind == \A i \in DOMAIN order : ImportsOf(order[i]) \subseteq {order[j] : j \in 1 .. i - 1}

\* ... which the visits under way have done up to the import being visited, ...
UpToNext ==
  \A i \in DOMAIN stack : \A k \in 1 .. stack[i].next - 1 :
    /\ k \in DOMAIN imports[stack[i].path]
    /\ \/ imports[stack[i].path][k] \in Done
       \/ /\ i + 1 \in DOMAIN stack
          /\ k = stack[i].next - 1
          /\ imports[stack[i].path][k] = stack[i + 1].path

\* ... and is at something that all of them need.
Chain == \A i, j \in DOMAIN stack :
           i < j => stack[j].path \in ClosureOf(ImportsOf(stack[i].path))

Raised == error # "none" <=> phase = "failed"

ReadInv == Needed /\ Frontier /\ Texts /\ Versions
WalkInv == Walked /\ FromEntry /\ EachOnce /\ Behind /\ UpToNext /\ Chain
IInv == TypeOK /\ ReadInv /\ WalkInv /\ Raised /\ RefusalsAreTrue

-----------------------------------------------------------------------------
(* Sequences and closures. *)

LEMMA ImportsTyped == Imports \subseteq Seq(Paths)
BY BundleAssumption DEF Imports

LEMMA FrontLast ==
  ASSUME NEW S, NEW s \in Seq(S), s # <<>>
  PROVE  /\ Len(s) \in Nat \ {0}
         /\ Last(s) \in S
         /\ Front(s) \in Seq(S)
         /\ Len(Front(s)) = Len(s) - 1
         /\ \A i \in 1 .. Len(s) - 1 : Front(s)[i] = s[i]
<1>1. Len(s) \in Nat \ {0}
  BY EmptySeq
<1>2. \A i \in 1 .. Len(s) - 1 : s[i] \in S
  BY <1>1, ElementOfSeq
<1>3. PICK n \in Nat \ {0} : n = Len(s)
  BY <1>1
<1>4. n - 1 - 1 + 1 = n - 1 /\ (~(1 <= n - 1) => n - 1 = 0) /\ \A i \in Nat : 1 + i - 1 = i
  OBVIOUS
<1>5. /\ SubSeq(s, 1, n - 1) \in Seq(S)
      /\ Len(SubSeq(s, 1, n - 1)) = IF 1 <= n - 1 THEN n - 1 - 1 + 1 ELSE 0
      /\ \A i \in 1 .. n - 1 - 1 + 1 : SubSeq(s, 1, n - 1)[i] = s[1 + i - 1]
  <2>1. 1 \in Int /\ n - 1 \in Int
    OBVIOUS
  <2> QED
    BY <1>2, <1>3, <2>1, SubSeqProperties
<1>6. \A i \in 1 .. n - 1 : SubSeq(s, 1, n - 1)[i] = s[i]
  BY <1>4, <1>5
<1>7. Len(SubSeq(s, 1, n - 1)) = n - 1
  BY <1>4, <1>5
<1> QED
  BY <1>1, <1>3, <1>5, <1>6, <1>7, ElementOfSeq DEF Front, Last

LEMMA ImportsArePaths ==
  ASSUME TypeOK, NEW p \in Paths
  PROVE  ImportsOf(p) \subseteq Paths
<1>1. imports[p] \in Seq(Paths)
  BY DEF TypeOK
<1> QED
  BY <1>1, LenProperties, ElementOfSeq DEF ImportsOf

\* What is imported is in the closure, ...
LEMMA ClosureIsClosed ==
  ASSUME TypeOK, NEW S \in SUBSET Paths
  PROVE  S \subseteq ClosureOf(S) /\ Closed(ClosureOf(S))
<1>1. S \subseteq ClosureOf(S)
  BY DEF ClosureOf
<1>2. ASSUME NEW p \in ClosureOf(S), NEW q \in ImportsOf(p)
      PROVE  q \in ClosureOf(S)
  <2>1. q \in Paths
    BY ImportsArePaths DEF ClosureOf
  <2>2. ASSUME NEW C \in SUBSET Paths, S \subseteq C, Closed(C)
        PROVE  q \in C
    BY <2>2, <1>2 DEF ClosureOf, Closed
  <2> QED
    BY <2>1, <2>2 DEF ClosureOf
<1> QED
  BY <1>1, <1>2 DEF Closed

\* ... and in any other closed set.
LEMMA ClosureIsLeast ==
  ASSUME NEW C \in SUBSET Paths, NEW S, S \subseteq C, Closed(C)
  PROVE  ClosureOf(S) \subseteq C
BY DEF ClosureOf

\* Learning what a module imports only makes a closure larger.
LEMMA ClosureGrows ==
  ASSUME NEW S, \A p \in Paths : ImportsOf(p) \subseteq ImportsOf(p)'
  PROVE  ClosureOf(S) \subseteq ClosureOf(S)'
<1>1. ASSUME NEW C \in SUBSET Paths, Closed(C)'
      PROVE  Closed(C)
  BY <1>1 DEF Closed
<1> QED
  BY <1>1 DEF ClosureOf

LEMMA ClosureStays ==
  ASSUME imports' = imports
  PROVE  /\ \A p : ImportsOf(p)' = ImportsOf(p)
         /\ \A S : ClosureOf(S)' = ClosureOf(S)
BY DEF ImportsOf, ClosureOf, Closed

-----------------------------------------------------------------------------
(* Types. *)

Visits == [path : Paths, next : Nat \ {0}]

\* The visits under way once they have moved past the import being visited.
LEMMA AdvancedIs ==
  ASSUME TypeOK
  PROVE  /\ Advanced \in Seq(Visits)
         /\ Len(Advanced) = Len(stack)
         /\ \A i \in 1 .. Len(stack) :
              /\ Advanced[i].path = stack[i].path
              /\ Advanced[i].next = IF i = Len(stack) THEN stack[i].next + 1 ELSE stack[i].next
<1>1. CASE stack = <<>>
  BY <1>1, EmptySeq DEF Advanced
<1>2. CASE stack # <<>>
  <2>1. stack \in Seq(Visits)
    BY DEF TypeOK, Visits
  <2>2. PICK n \in Nat \ {0} : n = Len(stack)
    BY <1>2, <2>1, EmptySeq
  <2>3. PICK top \in Visits : top = stack[n]
    BY <2>1, <2>2, ElementOfSeq
  <2>4. [top EXCEPT !.next = @ + 1] \in Visits
    BY DEF Visits
  <2>5. Advanced = [stack EXCEPT ![n] = [top EXCEPT !.next = @ + 1]]
    BY <1>2, <2>2, <2>3 DEF Advanced
  <2>6. \A i \in 1 .. n : stack[i] \in Visits
    BY <2>1, <2>2, ElementOfSeq
  <2>7. /\ Advanced \in Seq(Visits)
        /\ Len(Advanced) = n
        /\ \A i \in 1 .. n :
             Advanced[i] = IF i = n THEN [top EXCEPT !.next = @ + 1] ELSE stack[i]
    BY <2>1, <2>2, <2>4, <2>5, ExceptSeq
  <2> QED
    BY <2>2, <2>3, <2>6, <2>7 DEF Visits
<1> QED
  BY <1>1, <1>2

LEMMA VisitedIsAPath ==
  ASSUME TypeOK, Visiting
  PROVE  Visited \in Paths /\ [path |-> Visited, next |-> 1] \in Visits
<1> SUFFICES Visited \in Paths
  BY DEF Visits
<1>1. CASE stack = <<>>
  BY <1>1, BundleAssumption DEF Visited
<1>2. CASE stack # <<>>
  <2>1. Top \in Visits
    BY <1>2, FrontLast DEF TypeOK, Top, Visits
  <2>2. imports[Top.path] \in Seq(Paths) /\ Top.next \in DOMAIN imports[Top.path]
    BY <1>2, <2>1 DEF TypeOK, Visiting, Visits
  <2> QED
    BY <1>2, <2>2, LenProperties, ElementOfSeq DEF Visited
<1> QED
  BY <1>1, <1>2

LEMMA FollowTyped ==
  ASSUME TypeOK, Looking, NEW list \in Seq(Paths), Follow(Path, list)
  PROVE  visited' \subseteq Paths /\ pending' \in Seq(Paths)
<1>1. Path \in Paths /\ Rest \in Seq(Paths)
  BY FrontLast DEF TypeOK, Looking, Path, Rest
<1> QED
  BY <1>1, ConcatProperties DEF Follow, TypeOK

LEMMA HeadTyped ==
  ASSUME TypeOK, Commit
  PROVE  head' \in 0 .. MaxHead
<1>1. MaxHead \in Nat /\ head \in 0 .. MaxHead /\ head < MaxHead /\ head' = head + 1
  BY BundleAssumption DEF Commit, TypeOK
<1>2. \A m, n \in Nat : m < n => m + 1 \in 0 .. n
  OBVIOUS
<1> QED
  BY <1>1, <1>2

LEMMA TypesInit == Init => TypeOK
BY BundleAssumption, ImportsTyped, EmptySeq DEF Init, TypeOK, Ended

LEMMA TypesStep ==
  ASSUME TypeOK, [Next]_vars
  PROVE  TypeOK'
<1> USE DEF TypeOK
<1>1. CASE Resolve
  BY <1>1 DEF Resolve, walking
<1>2. CASE NoCommit \/ RefuseForward \/ NotRead \/ VisitFails \/ NotMerged \/ RefuseUnused
  BY <1>2 DEF NoCommit, RefuseForward, NotRead, VisitFails, NotMerged, RefuseUnused,
              Raise, reading, walking, Ended
<1>3. CASE Pass
  BY <1>3, FrontLast DEF Pass, Looking, Rest, walking
<1>4. CASE UseOverride
  <2>1. Looking /\ imports[Path] \in Seq(Paths) /\ Follow(Path, imports[Path])
    BY <1>4, FrontLast DEF UseOverride, Looking, Path
  <2>2. visited' \subseteq Paths /\ pending' \in Seq(Paths)
    BY <2>1, FollowTyped
  <2> QED
    BY <1>4, <2>2 DEF UseOverride, walking
<1>5. ASSUME NEW list \in Imports, Fetch(list) PROVE TypeOK'
  <2>1. list \in Seq(Paths) /\ Looking /\ Follow(Path, list)
    BY <1>5, ImportsTyped DEF Fetch
  <2>2. visited' \subseteq Paths /\ pending' \in Seq(Paths)
    BY <2>1, FollowTyped
  <2>3. Path \in Paths
    BY <2>1, FrontLast DEF Looking, Path
  <2> QED
    BY <1>5, <2>1, <2>2, <2>3 DEF Fetch, CommitRead, walking
<1>6. CASE AllRead \/ Ordered \/ Build
  BY <1>6 DEF AllRead, Ordered, Build, reading, walking, Ended
<1>7. CASE Skip
  BY <1>7, AdvancedIs DEF Skip, reading, Visits
<1>8. CASE Visit
  <2>1. [path |-> Visited, next |-> 1] \in Visits
    BY <1>8, VisitedIsAPath DEF Visit
  <2>2. stack' \in Seq(Visits)
    BY <1>8, <2>1, AdvancedIs, AppendProperties DEF Visit
  <2> QED
    BY <1>8, <2>2 DEF Visit, reading, Visits
<1>9. CASE Return
  <2>1. stack \in Seq(Visits) /\ stack # <<>>
    BY <1>9 DEF Return, Visits
  <2>2. Top \in Visits /\ stack' \in Seq(Visits)
    BY <1>9, <2>1, FrontLast DEF Return, Top
  <2>3. order' \in Seq(Paths)
    BY <1>9, <2>2, AppendProperties DEF Return, Put, Visits
  <2> QED
    BY <1>9, <2>2, <2>3 DEF Return, reading, Visits
<1>10. CASE Commit
  <2>1. head' \in 0 .. MaxHead
    BY <1>10, HeadTyped
  <2> QED
    BY <1>10, <2>1 DEF Commit, reading, walking
<1>11. CASE Finished \/ UNCHANGED vars
  BY <1>11 DEF Finished, vars
<1> QED
  BY <1>1, <1>2, <1>3, <1>4, <1>5, <1>6, <1>7, <1>8, <1>9, <1>10, <1>11
  DEF Next, Read, Order, Merge

\* Types of the bundling, whatever there is to read.
THEOREM BundleTypes == Spec => []TypeOK
BY TypesInit, TypesStep, PTL DEF Spec

-----------------------------------------------------------------------------
(* The first walk. *)

\* Nothing of what was read changes while it is ordered and merged.
LEMMA ReadStays ==
  ASSUME ReadInv, UNCHANGED reading,
         \/ phase' \in {phase, "failed"}
         \/ phase \in {"ordering", "merging"} /\ phase' \in {"ordering", "merging", "built"}
  PROVE  ReadInv'
<1> USE DEF ReadInv, reading
<1>1. Pending' = Pending /\ Sources' = Sources
  BY DEF Pending, Sources
<1>2. /\ \A p : ImportsOf(p)' = ImportsOf(p)
      /\ \A S : ClosureOf(S)' = ClosureOf(S)
  BY ClosureStays
<1>3. Needed'
  BY <1>1, <1>2 DEF Needed
<1>4. Frontier'
  BY <1>1, <1>2 DEF Frontier
<1>5. Texts'
  BY <1>1 DEF Texts
<1>6. Versions'
  BY DEF Versions
<1> QED
  BY <1>3, <1>4, <1>5, <1>6

LEMMA PendingIs ==
  ASSUME TypeOK, Looking
  PROVE  /\ Path \in Paths
         /\ Rest \in Seq(Paths)
         /\ Pending = {Rest[i] : i \in DOMAIN Rest} \cup {Path}
<1>1. pending \in Seq(Paths) /\ pending # <<>>
  BY DEF TypeOK, Looking
<1>2. PICK n \in Nat \ {0} : n = Len(pending)
  BY <1>1, EmptySeq
<1>3. /\ Path \in Paths /\ Rest \in Seq(Paths)
      /\ Len(Rest) = n - 1
      /\ \A i \in 1 .. n - 1 : Rest[i] = pending[i]
  BY <1>1, <1>2, FrontLast DEF Path, Rest
<1>4. Path = pending[n]
  BY <1>2 DEF Path, Last
<1>5. DOMAIN pending = 1 .. n /\ DOMAIN Rest = 1 .. n - 1
  BY <1>1, <1>2, <1>3, LenProperties
<1>6. \A i : i \in 1 .. n <=> i \in 1 .. n - 1 \/ i = n
  BY <1>2
<1> QED
  BY <1>3, <1>4, <1>5, <1>6 DEF Pending

LEMMA Followed ==
  ASSUME TypeOK, Looking, NEW list \in Seq(Paths), Follow(Path, list)
  PROVE  /\ visited' = visited \cup {Path}
         /\ visited' \cup Pending' = visited \cup Pending \cup {list[i] : i \in DOMAIN list}
<1>1. PICK m \in Nat, n \in Nat : m = Len(Rest) /\ n = Len(list)
  BY PendingIs, LenProperties
<1>2. /\ pending' \in Seq(Paths)
      /\ Len(pending') = m + n
      /\ \A i \in 1 .. m + n : pending'[i] = IF i <= m THEN Rest[i] ELSE list[i - m]
  BY <1>1, PendingIs, ConcatProperties DEF Follow
<1>3. DOMAIN pending' = 1 .. m + n /\ DOMAIN Rest = 1 .. m /\ DOMAIN list = 1 .. n
  BY <1>1, <1>2, PendingIs, LenProperties
<1>4. \A i \in 1 .. m : i \in 1 .. m + n /\ pending'[i] = Rest[i]
  BY <1>1, <1>2
<1>5. \A i \in 1 .. n : m + i \in 1 .. m + n /\ pending'[m + i] = list[i]
  <2>1. ASSUME NEW i \in 1 .. n
        PROVE  m + i \in 1 .. m + n /\ ~(m + i <= m) /\ m + i - m = i
    OBVIOUS
  <2> QED
    BY <1>2, <2>1
<1>6. \A i \in 1 .. m + n : i \in 1 .. m \/ \E j \in 1 .. n : i = m + j /\ pending'[i] = list[j]
  <2>1. ASSUME NEW i \in 1 .. m + n, i \notin 1 .. m
        PROVE  i - m \in 1 .. n /\ i = m + (i - m) /\ pending'[i] = list[i - m]
    BY <1>1, <1>2, <2>1
  <2> QED
    BY <2>1
<1>7. Pending' = {Rest[i] : i \in DOMAIN Rest} \cup {list[i] : i \in DOMAIN list}
  <2>1. \A p \in Pending' : p \in {Rest[i] : i \in DOMAIN Rest} \cup {list[i] : i \in DOMAIN list}
    BY <1>3, <1>4, <1>6 DEF Pending
  <2>2. \A i \in DOMAIN Rest : Rest[i] \in Pending'
    BY <1>3, <1>4 DEF Pending
  <2>3. \A i \in DOMAIN list : list[i] \in Pending'
    BY <1>3, <1>5 DEF Pending
  <2> QED
    BY <2>1, <2>2, <2>3
<1> QED
  BY <1>7, PendingIs DEF Follow

LEMMA ReadInit == Init => ReadInv
<1> SUFFICES ASSUME Init PROVE ReadInv
  OBVIOUS
<1>1. TypeOK
  BY TypesInit
<1>2. Pending = {Entry} /\ visited = {} /\ fetched = {}
  BY DEF Init, Pending
<1>3. Entry \in ClosureOf({Entry})
  BY BundleAssumption DEF ClosureOf
<1> QED
  BY <1>2, <1>3 DEF Init, ReadInv, Needed, Frontier, Texts, Versions, Sources

LEMMA ReadStep ==
  ASSUME TypeOK, ReadInv, [Next]_vars
  PROVE  ReadInv'
<1>1. CASE Resolve
  <2>1. Pending' = Pending /\ Sources' = Sources
    BY <1>1 DEF Resolve, Pending, Sources
  <2>2. /\ \A p : ImportsOf(p)' = ImportsOf(p)
        /\ \A S : ClosureOf(S)' = ClosureOf(S)
    BY <1>1, ClosureStays DEF Resolve
  <2>3. Needed' /\ Frontier' /\ Texts'
    BY <1>1, <2>1, <2>2 DEF Resolve, ReadInv, Needed, Frontier, Texts
  <2>4. Versions'
    BY <1>1 DEF Resolve, ReadInv, Versions, TypeOK
  <2> QED
    BY <2>3, <2>4 DEF ReadInv
<1>2. CASE NoCommit \/ RefuseForward \/ NotRead \/ VisitFails \/ NotMerged \/ RefuseUnused
  BY <1>2, ReadStays DEF NoCommit, RefuseForward, NotRead, VisitFails, NotMerged, RefuseUnused, Raise
<1>3. CASE Pass
  <2>1. visited' \cup Pending' = visited \cup Pending /\ Sources' = Sources
    BY <1>3, PendingIs DEF Pass, Pending, Sources
  <2>2. /\ \A p : ImportsOf(p)' = ImportsOf(p)
        /\ \A S : ClosureOf(S)' = ClosureOf(S)
    BY <1>3, ClosureStays DEF Pass
  <2>3. phase = "fetching" /\ phase' = "fetching"
    BY <1>3 DEF Pass, Looking
  <2>4. Needed' /\ Frontier'
    BY <1>3, <2>1, <2>2, <2>3 DEF Pass, ReadInv, Needed, Frontier
  <2>5. Texts' /\ Versions'
    BY <1>3, <2>1, <2>3 DEF Pass, ReadInv, Texts, Versions
  <2> QED
    BY <2>4, <2>5 DEF ReadInv
<1>4. CASE UseOverride
  <2>1. Looking /\ Path \in Paths \cap Pending /\ imports[Path] \in Seq(Paths)
    BY <1>4, PendingIs DEF UseOverride, TypeOK
  <2>2. /\ visited' = visited \cup {Path}
        /\ visited' \cup Pending' = visited \cup Pending \cup ImportsOf(Path)
    BY <1>4, <2>1, Followed DEF UseOverride, ImportsOf
  <2>3. /\ \A p : ImportsOf(p)' = ImportsOf(p)
        /\ \A S : ClosureOf(S)' = ClosureOf(S)
        /\ Sources' = Sources
    BY <1>4, ClosureStays DEF UseOverride, Sources
  <2>4. phase = "fetching" /\ phase' = "fetching"
    BY <1>4 DEF UseOverride, Looking
  <2>5. Closed(ClosureOf({Entry}))
    BY ClosureIsClosed, BundleAssumption
  <2>6. Needed'
    BY <2>1, <2>2, <2>3, <2>5 DEF ReadInv, Needed, Closed
  <2>7. Frontier'
    BY <2>1, <2>2, <2>3, <2>4 DEF ReadInv, Frontier
  <2>8. Texts' /\ Versions'
    BY <1>4, <2>2, <2>3, <2>4 DEF UseOverride, ReadInv, Texts, Versions, Sources
  <2> QED
    BY <2>6, <2>7, <2>8 DEF ReadInv
<1>5. ASSUME NEW list \in Imports, Fetch(list) PROVE ReadInv'
  <2> DEFINE named == {list[i] : i \in DOMAIN list}
  <2>1. Looking /\ list \in Seq(Paths) /\ Path \in Paths \cap Pending
    BY <1>5, ImportsTyped, PendingIs DEF Fetch
  <2>2. PICK p \in Paths : p = Path
    BY <2>1
  <2>3. /\ visited' = visited \cup {p}
        /\ visited' \cup Pending' = visited \cup Pending \cup named
    BY <1>5, <2>1, <2>2, Followed DEF Fetch
  <2>4. imports[p] = <<>> /\ p \notin visited \cup Sources
    BY <1>5, <2>2 DEF Fetch, ReadInv, Texts, Sources
  <2>5. /\ imports' = [imports EXCEPT ![p] = list]
        /\ fetched' = fetched \cup {p}
        /\ version' = [version EXCEPT ![p] = pinned]
        /\ phase = "fetching" /\ phase' = "fetching"
        /\ replaced' = replaced /\ pinned' = pinned
    BY <1>5, <2>2 DEF Fetch, CommitRead, Looking
  <2>6. ImportsOf(p)' = named /\ \A q \in Paths \ {p} : ImportsOf(q)' = ImportsOf(q)
    BY <2>5 DEF ImportsOf, TypeOK
  <2>7. ImportsOf(p) = {}
    BY <2>4 DEF ImportsOf
  <2>8. ClosureOf({Entry}) \subseteq ClosureOf({Entry})'
    BY <2>6, <2>7, ClosureGrows
  <2>9. named \subseteq ClosureOf({Entry})'
    <3>1. p \in ClosureOf({Entry})'
      BY <2>1, <2>2, <2>8 DEF ReadInv, Needed
    <3>2. named \subseteq Paths
      BY <2>1, LenProperties, ElementOfSeq
    <3>3. ASSUME NEW C \in SUBSET Paths, {Entry} \subseteq C, Closed(C)'
          PROVE  named \subseteq C
      BY <2>6, <3>1, <3>3 DEF ClosureOf, Closed
    <3> QED
      BY <3>2, <3>3 DEF ClosureOf
  <2>10. Needed'
    BY <2>3, <2>8, <2>9 DEF ReadInv, Needed
  <2>11. Frontier'
    <3>1. visited \subseteq Paths
      BY DEF TypeOK
    <3>2. ASSUME NEW q \in visited'
          PROVE  ImportsOf(q)' \subseteq visited' \cup Pending'
      BY <2>3, <2>4, <2>6, <3>1, <3>2 DEF ReadInv, Frontier
    <3> QED
      BY <2>3, <2>5, <3>2 DEF ReadInv, Frontier
  <2>12. Texts'
    BY <2>3, <2>4, <2>5 DEF ReadInv, Texts, Sources, TypeOK
  <2>13. Versions'
    BY <2>5 DEF ReadInv, Versions, TypeOK
  <2> QED
    BY <2>10, <2>11, <2>12, <2>13 DEF ReadInv
<1>6. CASE AllRead
  <2>1. Pending' = Pending /\ Sources' = Sources
    BY <1>6 DEF AllRead, reading, Pending, Sources
  <2>2. /\ \A p : ImportsOf(p)' = ImportsOf(p)
        /\ \A S : ClosureOf(S)' = ClosureOf(S)
    BY <1>6, ClosureStays DEF AllRead, reading
  <2> QED
    BY <1>6, <2>1, <2>2 DEF AllRead, reading, ReadInv, Needed, Frontier, Texts, Versions
<1>7. CASE Skip \/ Visit \/ Return \/ Ordered \/ Build \/ Commit
  BY <1>7, ReadStays DEF Skip, Visit, Return, Ordered, Build, Commit, Visiting, reading
<1>8. CASE Finished \/ UNCHANGED vars
  BY <1>8, ReadStays DEF Finished, vars, reading
<1> QED
  BY <1>1, <1>2, <1>3, <1>4, <1>5, <1>6, <1>7, <1>8
  DEF Next, Read, Order, Merge

-----------------------------------------------------------------------------
(* The second walk. *)

LEMMA Shape ==
  ASSUME TypeOK
  PROVE  /\ Len(stack) \in Nat /\ DOMAIN stack = 1 .. Len(stack)
         /\ Len(order) \in Nat /\ DOMAIN order = 1 .. Len(order)
         /\ \A i \in DOMAIN stack : stack[i] \in Visits
         /\ \A i \in DOMAIN order : order[i] \in Paths
<1>1. stack \in Seq(Visits) /\ order \in Seq(Paths)
  BY DEF TypeOK, Visits
<1>2. /\ Len(stack) \in Nat /\ DOMAIN stack = 1 .. Len(stack)
      /\ Len(order) \in Nat /\ DOMAIN order = 1 .. Len(order)
  BY <1>1, LenProperties
<1>3. \A i \in 1 .. Len(stack) : stack[i] \in Visits
  BY <1>1, ElementOfSeq
<1>4. \A i \in 1 .. Len(order) : order[i] \in Paths
  BY <1>1, ElementOfSeq
<1> QED
  BY <1>2, <1>3, <1>4

\* Before the walk has begun there is nothing to say of it.
LEMMA NoWalk ==
  ASSUME stack = <<>>, order = <<>>
  PROVE  /\ FromEntry /\ EachOnce /\ Behind /\ UpToNext /\ Chain
         /\ OnStack = {} /\ Done = {}
BY DEF FromEntry, EachOnce, Behind, UpToNext, Chain, OnStack, Done

LEMMA NoWalkNext ==
  ASSUME stack' = <<>>, order' = <<>>
  PROVE  /\ FromEntry' /\ EachOnce' /\ Behind' /\ UpToNext' /\ Chain'
         /\ OnStack' = {} /\ Done' = {}
BY DEF FromEntry, EachOnce, Behind, UpToNext, Chain, OnStack, Done

\* A step that leaves the walk and the sources alone keeps what is said of
\* them, the phase apart.
LEMMA WalkStays ==
  ASSUME WalkInv, UNCHANGED <<reading, walking>>,
         \/ phase' \in {phase, "failed"}
         \/ phase = "ordering" /\ phase' = "merging" /\ stack = <<>> /\ order # <<>>
         \/ phase = "merging" /\ phase' = "built"
  PROVE  WalkInv'
<1>1. /\ \A p : ImportsOf(p)' = ImportsOf(p)
      /\ \A S : ClosureOf(S)' = ClosureOf(S)
  BY ClosureStays DEF reading
<1>2. OnStack' = OnStack /\ Done' = Done
  BY DEF walking, OnStack, Done
<1>3. Walked'
  BY <1>2 DEF WalkInv, Walked, reading, walking
<1>4. FromEntry' /\ EachOnce'
  BY <1>2 DEF WalkInv, FromEntry, EachOnce, walking
<1>5. Behind' /\ Chain'
  BY <1>1 DEF WalkInv, Behind, Chain, walking
<1>6. UpToNext'
  BY <1>2 DEF WalkInv, UpToNext, walking, reading
<1> QED
  BY <1>3, <1>4, <1>5, <1>6 DEF WalkInv

\* What is visited was seen by the first walk, so that it has a source.
LEMMA VisitedWasSeen ==
  ASSUME TypeOK, ReadInv, WalkInv, Visiting
  PROVE  Visited \in visited /\ Visited \in Sources
<1>1. pending = <<>>
  BY DEF ReadInv, Frontier, Visiting
<1>2. Pending = {}
  BY <1>1 DEF Pending
<1>3. CASE stack = <<>>
  BY <1>2, <1>3 DEF Visited, ReadInv, Frontier, Texts
<1>4. CASE stack # <<>>
  <2>1. Top.path \in OnStack /\ Top.next \in DOMAIN imports[Top.path]
    <3>1. Len(stack) \in DOMAIN stack
      <4>1. PICK n \in Nat \ {0} : n = Len(stack)
        BY <1>4, FrontLast DEF TypeOK
      <4> QED
        BY <4>1, Shape
    <3> QED
      BY <1>4, <3>1 DEF Visiting, OnStack, Top, Last
  <2>2. Visited \in ImportsOf(Top.path) /\ Top.path \in visited
    BY <1>4, <2>1 DEF Visited, ImportsOf, WalkInv, Walked
  <2> QED
    BY <1>2, <2>2 DEF ReadInv, Frontier, Texts
<1> QED
  BY <1>3, <1>4

\* The visits under way stay where they are when the innermost one moves on.
LEMMA AdvancedStack ==
  ASSUME TypeOK
  PROVE  /\ DOMAIN Advanced = DOMAIN stack
         /\ \A i \in DOMAIN stack :
              /\ Advanced[i].path = stack[i].path
              /\ Advanced[i].next = IF i = Len(stack) THEN stack[i].next + 1 ELSE stack[i].next
         /\ (Advanced = <<>>) = (stack = <<>>)
<1>1. DOMAIN Advanced = 1 .. Len(Advanced)
  BY AdvancedIs, LenProperties
<1>2. (Advanced = <<>>) = (stack = <<>>)
  <2>1. Len(Advanced) = Len(stack) /\ Advanced \in Seq(Visits) /\ stack \in Seq(Visits)
    BY AdvancedIs DEF TypeOK, Visits
  <2> QED
    BY <2>1, EmptySeq
<1> QED
  BY <1>1, <1>2, AdvancedIs, Shape

LEMMA SkipKeeps ==
  ASSUME TypeOK, ReadInv, WalkInv, Skip
  PROVE  WalkInv'
<1>1. stack # <<>>
  BY DEF Skip, Visiting, Done
<1>2. PICK n \in Nat \ {0} : n = Len(stack) /\ DOMAIN stack = 1 .. n
  BY <1>1, Shape, FrontLast DEF TypeOK
<1>3. /\ stack' = Advanced /\ stack' # <<>> /\ order' = order /\ imports' = imports
      /\ visited' = visited /\ phase = "ordering" /\ phase' = "ordering"
  BY <1>1, AdvancedStack DEF Skip, Visiting, reading
<1>4. /\ DOMAIN stack' = 1 .. n
      /\ \A i \in 1 .. n :
           /\ stack'[i].path = stack[i].path
           /\ stack'[i].next = IF i = n THEN stack[i].next + 1 ELSE stack[i].next
  BY <1>2, <1>3, AdvancedStack
<1>5. OnStack' = OnStack /\ Done' = Done
  BY <1>2, <1>3, <1>4 DEF OnStack, Done
<1>6. /\ \A p : ImportsOf(p)' = ImportsOf(p)
      /\ \A S : ClosureOf(S)' = ClosureOf(S)
  BY <1>3, ClosureStays
<1>7. Walked'
  BY <1>3, <1>5 DEF WalkInv, Walked
<1>8. FromEntry'
  BY <1>1, <1>2, <1>3, <1>4 DEF WalkInv, FromEntry
<1>9. EachOnce'
  BY <1>2, <1>3, <1>4, <1>5 DEF WalkInv, EachOnce
<1>10. Behind' /\ Chain'
  BY <1>2, <1>3, <1>4, <1>6 DEF WalkInv, Behind, Chain
<1>11. UpToNext'
  <2> SUFFICES ASSUME NEW i \in 1 .. n, NEW k \in 1 .. stack'[i].next - 1
               PROVE  /\ k \in DOMAIN imports[stack[i].path]
                      /\ \/ imports[stack[i].path][k] \in Done
                         \/ /\ i + 1 \in 1 .. n
                            /\ k = stack'[i].next - 1
                            /\ imports[stack[i].path][k] = stack[i + 1].path
    BY <1>3, <1>4, <1>5 DEF UpToNext
  <2>1. CASE i # n
    BY <1>2, <1>4, <2>1 DEF WalkInv, UpToNext
  <2>2. CASE i = n
    <3>1. PICK m \in Nat \ {0} : m = stack[n].next
      BY <1>2, Shape DEF Visits
    <3>2. stack'[n].next = m + 1
      BY <1>4, <3>1
    <3>3. k \in 1 .. m - 1 \/ k = m
      BY <2>2, <3>2
    <3>4. CASE k \in 1 .. m - 1
      <4>1. i + 1 \notin 1 .. n
        BY <2>2
      <4> QED
        BY <1>2, <2>2, <3>1, <3>4, <4>1 DEF WalkInv, UpToNext
    <3>5. CASE k = m
      BY <1>1, <1>2, <2>2, <3>1, <3>5 DEF Skip, Visiting, Visited, Top, Last
    <3> QED
      BY <3>3, <3>4, <3>5
  <2> QED
    BY <2>1, <2>2
<1> QED
  BY <1>7, <1>8, <1>9, <1>10, <1>11 DEF WalkInv

LEMMA VisitKeeps ==
  ASSUME TypeOK, ReadInv, WalkInv, Visit
  PROVE  WalkInv'
<1>1. PICK n \in Nat : n = Len(stack) /\ DOMAIN stack = 1 .. n
  BY Shape
<1>2. PICK v \in Paths : v = Visited
  BY VisitedIsAPath DEF Visit
<1>3. v \in visited /\ v \notin OnStack \cup Done
  BY <1>2, VisitedWasSeen DEF Visit
<1>4. /\ DOMAIN stack' = 1 .. n + 1
      /\ stack' # <<>>
      /\ \A i \in 1 .. n :
           /\ stack'[i].path = stack[i].path
           /\ stack'[i].next = IF i = n THEN stack[i].next + 1 ELSE stack[i].next
      /\ stack'[n + 1] = [path |-> v, next |-> 1]
  <2>1. /\ Advanced \in Seq(Visits) /\ Len(Advanced) = n
        /\ [path |-> v, next |-> 1] \in Visits
    BY <1>1, <1>2, AdvancedIs, VisitedIsAPath DEF Visit
  <2>2. /\ stack' \in Seq(Visits) /\ stack' # <<>> /\ Len(stack') = n + 1
        /\ \A i \in 1 .. n : stack'[i] = Advanced[i]
        /\ stack'[n + 1] = [path |-> v, next |-> 1]
    BY <1>2, <2>1, AppendProperties DEF Visit
  <2> QED
    BY <1>1, <2>2, AdvancedIs, LenProperties
<1>5. /\ order' = order /\ imports' = imports /\ visited' = visited
      /\ phase = "ordering" /\ phase' = "ordering"
  BY DEF Visit, Visiting, reading
<1>6. n + 1 \in 1 .. n + 1 /\ \A i \in 1 .. n + 1 : i \in 1 .. n \/ i = n + 1
  OBVIOUS
<1>7. OnStack' = OnStack \cup {v} /\ Done' = Done
  BY <1>1, <1>4, <1>5, <1>6 DEF OnStack, Done
<1>8. /\ \A p : ImportsOf(p)' = ImportsOf(p)
      /\ \A S : ClosureOf(S)' = ClosureOf(S)
  BY <1>5, ClosureStays
<1>9. n # 0 => /\ n \in 1 .. n
               /\ stack[n] \in Visits
               /\ stack[n].next \in DOMAIN imports[stack[n].path]
               /\ v = imports[stack[n].path][stack[n].next]
  <2>1. n # 0 => stack # <<>> /\ n \in 1 .. n
    BY <1>1
  <2> QED
    BY <1>1, <1>2, <2>1, Shape DEF Visit, Visiting, Visited, Top, Last
<1>10. n = 0 => v = Entry
  <2>1. n = 0 => stack = <<>>
    BY <1>1, EmptySeq DEF TypeOK
  <2> QED
    BY <1>2, <2>1 DEF Visited
<1>11. Walked'
  BY <1>3, <1>5, <1>7 DEF WalkInv, Walked
<1>12. FromEntry'
  <2>1. CASE n = 0
    BY <1>4, <1>10, <2>1 DEF FromEntry
  <2>2. CASE n # 0
    <3>1. 1 \in 1 .. n /\ stack # <<>>
      BY <1>1, <2>2
    <3> QED
      BY <1>4, <3>1 DEF WalkInv, FromEntry
  <2> QED
    BY <2>1, <2>2
<1>13. EachOnce'
  <2>1. \A i \in 1 .. n : stack[i].path # v
    BY <1>1, <1>3 DEF OnStack
  <2>2. \A i, j \in 1 .. n + 1 : stack'[i].path = stack'[j].path => i = j
    BY <1>1, <1>4, <1>6, <2>1 DEF WalkInv, EachOnce
  <2> QED
    BY <1>3, <1>4, <1>5, <1>7, <2>2 DEF WalkInv, EachOnce
<1>14. Behind'
  BY <1>5, <1>8 DEF WalkInv, Behind
<1>15. UpToNext'
  <2> SUFFICES ASSUME NEW i \in 1 .. n + 1, NEW k \in 1 .. stack'[i].next - 1
               PROVE  /\ k \in DOMAIN imports[stack'[i].path]
                      /\ \/ imports[stack'[i].path][k] \in Done
                         \/ /\ i + 1 \in 1 .. n + 1
                            /\ k = stack'[i].next - 1
                            /\ imports[stack'[i].path][k] = stack'[i + 1].path
    BY <1>4, <1>5, <1>7 DEF UpToNext
  <2>1. CASE i \in 1 .. n /\ i # n
    <3>1. i + 1 \in 1 .. n /\ i + 1 \in 1 .. n + 1
      BY <2>1
    <3> QED
      BY <1>1, <1>4, <2>1, <3>1 DEF WalkInv, UpToNext
  <2>2. CASE i \in 1 .. n /\ i = n
    <3>1. PICK m \in Nat \ {0} : m = stack[n].next
      BY <1>9, <2>2 DEF Visits
    <3>2. stack'[n].next = m + 1 /\ stack'[n].path = stack[n].path
      BY <1>4, <2>2, <3>1
    <3>3. k \in 1 .. m - 1 \/ k = m
      BY <2>2, <3>2
    <3>4. CASE k \in 1 .. m - 1
      <4>1. i + 1 \notin 1 .. n
        BY <2>2
      <4> QED
        BY <1>1, <2>2, <3>1, <3>2, <3>4, <4>1 DEF WalkInv, UpToNext
    <3>5. CASE k = m
      <4>1. n # 0 /\ m + 1 - 1 = m
        BY <2>2
      <4> QED
        BY <1>4, <1>6, <1>9, <2>2, <3>1, <3>2, <3>5, <4>1
    <3> QED
      BY <3>3, <3>4, <3>5
  <2>3. CASE i = n + 1
    <3>1. stack'[i].next = 1
      BY <1>4, <2>3
    <3> QED
      BY <3>1
  <2> QED
    BY <1>6, <2>1, <2>2, <2>3
<1>16. Chain'
  <2> SUFFICES ASSUME NEW i \in 1 .. n + 1, NEW j \in 1 .. n + 1, i < j
               PROVE  stack'[j].path \in ClosureOf(ImportsOf(stack'[i].path))
    BY <1>4, <1>8 DEF Chain
  <2>1. CASE j \in 1 .. n
    <3>1. i \in 1 .. n
      BY <2>1
    <3> QED
      BY <1>1, <1>4, <2>1, <3>1 DEF WalkInv, Chain
  <2>2. CASE j = n + 1
    <3>1. n # 0 /\ i \in 1 .. n /\ n \in 1 .. n
      BY <2>2
    <3>2. v \in ImportsOf(stack[n].path)
      BY <1>9, <3>1 DEF ImportsOf
    <3>3. stack[i].path \in Paths /\ stack[n].path \in Paths
      BY <1>1, <3>1, Shape DEF Visits
    <3>4. /\ ImportsOf(stack[i].path) \subseteq ClosureOf(ImportsOf(stack[i].path))
          /\ Closed(ClosureOf(ImportsOf(stack[i].path)))
      BY <3>3, ImportsArePaths, ClosureIsClosed
    <3>5. v \in ClosureOf(ImportsOf(stack[i].path))
      <4>1. CASE i = n
        BY <3>2, <3>4, <4>1
      <4>2. CASE i # n
        <5>1. stack[n].path \in ClosureOf(ImportsOf(stack[i].path))
          BY <1>1, <3>1, <4>2 DEF WalkInv, Chain
        <5> QED
          BY <3>2, <3>4, <5>1 DEF Closed
      <4> QED
        BY <4>1, <4>2
    <3> QED
      BY <1>4, <2>2, <3>1, <3>5
  <2> QED
    BY <1>6, <2>1, <2>2
<1> QED
  BY <1>11, <1>12, <1>13, <1>14, <1>15, <1>16 DEF WalkInv

LEMMA ReturnKeeps ==
  ASSUME TypeOK, ReadInv, WalkInv, Return
  PROVE  WalkInv'
<1>1. PICK n \in Nat \ {0} : n = Len(stack) /\ DOMAIN stack = 1 .. n
  BY Shape, FrontLast DEF Return, TypeOK
<1>2. n \in 1 .. n /\ stack[n] \in Visits /\ Top = stack[n] /\ stack # <<>>
  <2>1. n \in 1 .. n
    OBVIOUS
  <2> QED
    BY <1>1, <2>1, Shape DEF Top, Last, Return
<1>3. PICK p \in Paths : p = stack[n].path
  BY <1>2 DEF Visits
<1>4. PICK m \in Nat : m = Len(order) /\ DOMAIN order = 1 .. m
  BY Shape
<1>5. /\ DOMAIN stack' = 1 .. n - 1
      /\ \A i \in 1 .. n - 1 : stack'[i] = stack[i]
      /\ stack' = <<>> => n = 1
  <2>1. stack \in Seq(Visits) /\ stack' = Front(stack)
    BY DEF TypeOK, Visits, Return
  <2>2. /\ stack' \in Seq(Visits) /\ Len(stack') = n - 1
        /\ \A i \in 1 .. n - 1 : stack'[i] = stack[i]
    BY <1>1, <1>2, <2>1, FrontLast
  <2>3. stack' = <<>> => Len(stack') = 0
    BY EmptySeq
  <2>4. n - 1 = 0 => n = 1
    OBVIOUS
  <2> QED
    BY <2>2, <2>3, <2>4, LenProperties
<1>6. /\ DOMAIN order' = 1 .. m + 1
      /\ \A i \in 1 .. m : order'[i] = order[i]
      /\ order'[m + 1] = p
      /\ order' # <<>> /\ Len(order') = m + 1
  <2>1. order \in Seq(Paths) /\ order' = Append(order, p)
    BY <1>2, <1>3 DEF TypeOK, Return, Put
  <2> QED
    BY <1>4, <2>1, AppendProperties, LenProperties
<1>7. /\ imports' = imports /\ visited' = visited
      /\ phase = "ordering" /\ phase' = "ordering"
  BY DEF Return, reading
<1>8. /\ m + 1 \in 1 .. m + 1
      /\ \A i \in 1 .. m + 1 : i \in 1 .. m \/ i = m + 1
      /\ \A i \in 1 .. m : i \in 1 .. m + 1
      /\ \A i \in 1 .. n : i \in 1 .. n - 1 \/ i = n
      /\ \A i \in 1 .. n - 1 : i \in 1 .. n /\ i # n
  OBVIOUS
<1>9. Done' = Done \cup {p} /\ OnStack' = OnStack \ {p} /\ p \in OnStack
  <2>1. Done' = Done \cup {p}
    BY <1>4, <1>6, <1>8 DEF Done
  <2>2. \A i \in 1 .. n - 1 : stack[i].path # p
    BY <1>1, <1>2, <1>3, <1>8 DEF WalkInv, EachOnce
  <2>3. OnStack' = OnStack \ {p} /\ p \in OnStack
    BY <1>1, <1>2, <1>3, <1>5, <1>8, <2>2 DEF OnStack
  <2> QED
    BY <2>1, <2>3
<1>10. p \notin Done /\ p \in visited
  BY <1>9 DEF WalkInv, EachOnce, Walked
<1>11. /\ \A q : ImportsOf(q)' = ImportsOf(q)
       /\ \A S : ClosureOf(S)' = ClosureOf(S)
  BY <1>7, ClosureStays
<1>12. ImportsOf(p) \subseteq Done
  <2>1. imports[p] \in Seq(Paths)
    BY DEF TypeOK
  <2>2. PICK l \in Nat : DOMAIN imports[p] = 1 .. l
    BY <2>1, LenProperties
  <2>3. PICK k \in Nat \ {0} : k = stack[n].next
    BY <1>2 DEF Visits
  <2>4. k \notin 1 .. l
    BY <1>2, <1>3, <2>2, <2>3 DEF Return
  <2>5. \A i \in 1 .. l : i \in 1 .. k - 1
    BY <2>3, <2>4
  <2>6. n + 1 \notin 1 .. n
    OBVIOUS
  <2>7. \A i \in 1 .. l : imports[p][i] \in Done
    BY <1>1, <1>2, <1>3, <2>3, <2>5, <2>6 DEF WalkInv, UpToNext
  <2> QED
    BY <2>2, <2>7 DEF ImportsOf
<1>13. Walked'
  BY <1>6, <1>7, <1>9, <1>10 DEF WalkInv, Walked
<1>14. FromEntry'
  <2>1. stack' # <<>> => stack'[1].path = Entry
    <3>1. n # 1 => 1 \in 1 .. n - 1
      OBVIOUS
    <3>2. n = 1 => stack' = <<>>
      <4>1. n = 1 => n - 1 = 0
        OBVIOUS
      <4>2. stack' \in Seq(Visits) /\ Len(stack') = n - 1
        BY <1>1, <1>2, FrontLast DEF TypeOK, Visits, Return
      <4> QED
        BY <4>1, <4>2, EmptySeq
    <3> QED
      BY <1>2, <1>5, <3>1, <3>2 DEF WalkInv, FromEntry
  <2>2. stack' = <<>> => Last(order') = Entry
    BY <1>2, <1>3, <1>5, <1>6 DEF WalkInv, FromEntry, Last
  <2>3. Last(order)' = Last(order')
    BY DEF Last
  <2> QED
    BY <2>1, <2>2, <2>3 DEF FromEntry
<1>15. EachOnce'
  <2>1. \A i \in 1 .. m : order[i] # p
    BY <1>4, <1>10 DEF Done
  <2>2. \A i, j \in 1 .. m + 1 : order'[i] = order'[j] => i = j
    BY <1>4, <1>6, <1>8, <2>1 DEF WalkInv, EachOnce
  <2>3. \A i, j \in 1 .. n - 1 : stack'[i].path = stack'[j].path => i = j
    <3>1. \A i, j \in 1 .. n : stack[i].path = stack[j].path => i = j
      BY <1>1 DEF WalkInv, EachOnce
    <3>2. \A i \in 1 .. n - 1 : i \in 1 .. n /\ stack'[i] = stack[i]
      BY <1>5, <1>8
    <3> QED
      BY <3>1, <3>2
  <2>4. OnStack' \cap Done' = {}
    BY <1>9 DEF WalkInv, EachOnce
  <2> QED
    BY <1>5, <1>6, <2>2, <2>3, <2>4 DEF EachOnce
<1>16. Behind'
  <2> SUFFICES ASSUME NEW i \in 1 .. m + 1
               PROVE  ImportsOf(order'[i]) \subseteq {order'[j] : j \in 1 .. i - 1}
    BY <1>6, <1>11 DEF Behind
  <2>1. CASE i \in 1 .. m
    <3>1. \A j \in 1 .. i - 1 : j \in 1 .. m
      BY <2>1
    <3>2. {order'[j] : j \in 1 .. i - 1} = {order[j] : j \in 1 .. i - 1}
      BY <1>6, <3>1
    <3>3. ImportsOf(order[i]) \subseteq {order[j] : j \in 1 .. i - 1}
      BY <1>4, <2>1 DEF WalkInv, Behind
    <3> QED
      BY <1>6, <2>1, <3>2, <3>3
  <2>2. CASE i = m + 1
    <3>1. i - 1 = m
      BY <2>2
    <3>2. Done \subseteq {order'[j] : j \in 1 .. m}
      BY <1>4, <1>6 DEF Done
    <3> QED
      BY <1>6, <1>12, <2>2, <3>1, <3>2
  <2> QED
    BY <1>8, <2>1, <2>2
<1>17. UpToNext'
  <2> SUFFICES ASSUME NEW i \in 1 .. n - 1, NEW k \in 1 .. stack[i].next - 1
               PROVE  /\ k \in DOMAIN imports[stack[i].path]
                      /\ \/ imports[stack[i].path][k] \in Done'
                         \/ /\ i + 1 \in 1 .. n - 1
                            /\ k = stack[i].next - 1
                            /\ imports[stack[i].path][k] = stack'[i + 1].path
    BY <1>5, <1>7 DEF UpToNext
  <2>1. /\ k \in DOMAIN imports[stack[i].path]
        /\ \/ imports[stack[i].path][k] \in Done
           \/ /\ i + 1 \in 1 .. n
              /\ k = stack[i].next - 1
              /\ imports[stack[i].path][k] = stack[i + 1].path
    BY <1>1, <1>8 DEF WalkInv, UpToNext
  <2>2. i + 1 \in 1 .. n - 1 \/ i + 1 = n
    OBVIOUS
  <2> QED
    BY <1>3, <1>5, <1>9, <2>1, <2>2
<1>18. Chain'
  BY <1>1, <1>5, <1>8, <1>11 DEF WalkInv, Chain
<1> QED
  BY <1>13, <1>14, <1>15, <1>16, <1>17, <1>18 DEF WalkInv

LEMMA WalkStep ==
  ASSUME TypeOK, ReadInv, WalkInv, [Next]_vars
  PROVE  WalkInv'
<1>1. CASE NoCommit \/ RefuseForward \/ NotRead \/ VisitFails \/ NotMerged \/ RefuseUnused
  BY <1>1, WalkStays DEF NoCommit, RefuseForward, NotRead, VisitFails, NotMerged, RefuseUnused, Raise
<1>2. CASE Resolve \/ Pass \/ UseOverride \/ AllRead \/ \E list \in Imports : Fetch(list)
  <2>1. phase \in {"resolving", "fetching"} /\ UNCHANGED walking
    BY <1>2 DEF Resolve, Pass, UseOverride, AllRead, Fetch, Looking
  <2>2. stack' = <<>> /\ order' = <<>>
    BY <2>1 DEF WalkInv, Walked, walking
  <2>3. phase' \in {"fetching", "ordering"}
    BY <1>2, <2>1 DEF Resolve, Pass, UseOverride, AllRead, Fetch, Looking
  <2> QED
    BY <2>2, <2>3, NoWalkNext DEF WalkInv, Walked
<1>3. CASE Skip
  BY <1>3, SkipKeeps
<1>4. CASE Visit
  BY <1>4, VisitKeeps
<1>5. CASE Return
  BY <1>5, ReturnKeeps
<1>6. CASE Ordered \/ Build \/ Commit
  BY <1>6, WalkStays DEF Ordered, Build, Commit
<1>7. CASE Finished \/ UNCHANGED vars
  BY <1>7, WalkStays DEF Finished, vars, reading, walking
<1> QED
  BY <1>1, <1>2, <1>3, <1>4, <1>5, <1>6, <1>7
  DEF Next, Read, Order, Merge

-----------------------------------------------------------------------------
(* The theorems. *)

\* A walk that has ended has put the import closure of the entry in order.
LEMMA WalkedAll ==
  ASSUME TypeOK, ReadInv, WalkInv, stack = <<>>, order # <<>>
  PROVE  Done = ClosureOf({Entry}) /\ Last(order) = Entry
<1>1. Last(order) = Entry
  BY DEF WalkInv, FromEntry
<1>2. PICK m \in Nat \ {0} : m = Len(order) /\ DOMAIN order = 1 .. m
  BY Shape, FrontLast DEF TypeOK
<1>3. Entry \in Done
  BY <1>1, <1>2 DEF Done, Last
<1>4. Done \subseteq Paths
  BY Shape DEF Done
<1>5. \A i \in 1 .. m : \A j \in 1 .. i - 1 : j \in 1 .. m
  BY <1>2
<1>6. Closed(Done)
  <2> SUFFICES ASSUME NEW i \in 1 .. m PROVE ImportsOf(order[i]) \subseteq Done
    BY <1>2 DEF Closed, Done
  <2>1. ImportsOf(order[i]) \subseteq {order[j] : j \in 1 .. i - 1}
    BY <1>2 DEF WalkInv, Behind
  <2> QED
    BY <1>2, <1>5, <2>1 DEF Done
<1>7. ClosureOf({Entry}) \subseteq Done
  BY <1>3, <1>4, <1>6, ClosureIsLeast
<1>8. Done \subseteq ClosureOf({Entry})
  BY DEF WalkInv, Walked, ReadInv, Needed
<1> QED
  BY <1>1, <1>7, <1>8

\* The path that is visited is behind itself in a circle if it is visited already.
LEMMA OnACircle ==
  ASSUME TypeOK, ReadInv, WalkInv, Visiting, Visited \in OnStack
  PROVE  \E p \in ClosureOf({Entry}) : p \in ClosureOf(ImportsOf(p))
<1>1. PICK v \in Paths : v = Visited
  BY VisitedIsAPath
<1>2. stack # <<>>
  BY DEF OnStack
<1>3. PICK n \in Nat \ {0} : n = Len(stack) /\ DOMAIN stack = 1 .. n
  BY <1>2, Shape, FrontLast DEF TypeOK
<1>4. PICK i \in 1 .. n : stack[i].path = v
  BY <1>1, <1>3 DEF OnStack
<1>5. n \in 1 .. n /\ (i = n \/ i < n)
  OBVIOUS
<1>6. stack[n].path \in Paths /\ stack[n].next \in DOMAIN imports[stack[n].path]
  BY <1>2, <1>3, <1>5, Shape DEF Visits, Visiting, Top, Last
<1>7. v \in ImportsOf(stack[n].path)
  BY <1>1, <1>2, <1>3, <1>6 DEF Visited, Top, Last, ImportsOf
<1>8. ImportsOf(v) \subseteq ClosureOf(ImportsOf(v)) /\ Closed(ClosureOf(ImportsOf(v)))
  BY ImportsArePaths, ClosureIsClosed
<1>9. v \in ClosureOf(ImportsOf(v))
  <2>1. CASE i = n
    BY <1>4, <1>7, <1>8, <2>1
  <2>2. CASE i < n
    <3>1. stack[n].path \in ClosureOf(ImportsOf(v))
      BY <1>3, <1>4, <1>5, <2>2 DEF WalkInv, Chain
    <3> QED
      BY <1>7, <1>8, <3>1 DEF Closed
  <2> QED
    BY <1>5, <2>1, <2>2
<1>10. v \in ClosureOf({Entry})
  BY <1>1, VisitedWasSeen DEF ReadInv, Needed
<1> QED
  BY <1>9, <1>10

LEMMA RefusalsStep ==
  ASSUME IInv, [Next]_vars
  PROVE  Raised' /\ RefusalsAreTrue'
<1> USE DEF IInv
<1>1. CASE NoCommit \/ NotRead \/ NotMerged
  <2>1. phase' = "failed" /\ error' \in {"not read", "not merged"}
    BY <1>1 DEF NoCommit, NotRead, NotMerged, Raise
  <2> QED
    BY <2>1 DEF Raised, RefusalsAreTrue
<1>2. CASE RefuseForward
  <2>1. phase' = "failed" /\ error' = "forward library" /\ imports' = imports /\ replaced' = replaced
    BY <1>2 DEF RefuseForward, Raise, reading
  <2>2. ClosureOf({Entry})' = ClosureOf({Entry})
    BY <2>1, ClosureStays
  <2>3. Path \in Pending /\ Path \in ForwardPaths \ replaced
    BY <1>2, PendingIs DEF RefuseForward
  <2>4. Path \in ForwardPaths \cap ClosureOf({Entry}) /\ Path \notin replaced
    BY <2>3 DEF ReadInv, Needed
  <2> QED
    BY <2>1, <2>2, <2>4 DEF Raised, RefusalsAreTrue
<1>3. CASE VisitFails
  <2>1. Visiting /\ Visited \in Sources /\ phase' = "failed" /\ imports' = imports
    BY <1>3, VisitedWasSeen DEF VisitFails, Raise, reading
  <2>2. Visited \in OnStack
    BY <1>3, <2>1 DEF VisitFails
  <2>3. error' = "circular"
    BY <1>3, <2>2 DEF VisitFails, Raise
  <2>4. \E p \in ClosureOf({Entry}) : p \in ClosureOf(ImportsOf(p))
    BY <2>1, <2>2, OnACircle
  <2>5. /\ \A p : ImportsOf(p)' = ImportsOf(p)
        /\ \A S : ClosureOf(S)' = ClosureOf(S)
    BY <2>1, ClosureStays
  <2> QED
    BY <2>1, <2>3, <2>4, <2>5 DEF Raised, RefusalsAreTrue
<1>4. CASE RefuseUnused
  <2>1. phase' = "failed" /\ error' = "unused" /\ imports' = imports /\ replaced' = replaced
    BY <1>4 DEF RefuseUnused, Raise, reading
  <2>2. ClosureOf({Entry})' = ClosureOf({Entry})
    BY <2>1, ClosureStays
  <2>3. Done = ClosureOf({Entry})
    BY <1>4, WalkedAll DEF RefuseUnused, WalkInv, Walked
  <2>4. ~ replaced \subseteq ClosureOf({Entry})
    BY <1>4, <2>3 DEF RefuseUnused, Unused
  <2> QED
    BY <2>1, <2>2, <2>4 DEF Raised, RefusalsAreTrue
<1>5. CASE Resolve \/ Pass \/ UseOverride \/ AllRead \/ (\E list \in Imports : Fetch(list))
           \/ Skip \/ Visit \/ Return \/ Ordered \/ Build \/ Commit
  <2>1. error' = error /\ phase # "failed" /\ phase' # "failed"
    BY <1>5 DEF Resolve, Pass, UseOverride, AllRead, Fetch, Skip, Visit, Return, Ordered, Build,
                Commit, Looking, Visiting
  <2> QED
    BY <2>1 DEF Raised, RefusalsAreTrue
<1>6. CASE Finished \/ UNCHANGED vars
  <2>1. error' = error /\ phase' = phase /\ imports' = imports /\ replaced' = replaced
    BY <1>6 DEF Finished, vars
  <2>2. /\ \A p : ImportsOf(p)' = ImportsOf(p)
        /\ \A S : ClosureOf(S)' = ClosureOf(S)
    BY <2>1, ClosureStays
  <2> QED
    BY <2>1, <2>2 DEF Raised, RefusalsAreTrue
<1> QED
  BY <1>1, <1>2, <1>3, <1>4, <1>5, <1>6
  DEF Next, Read, Order, Merge

LEMMA Invariance == Spec => []IInv
<1>1. Init => IInv
  <2> SUFFICES ASSUME Init PROVE IInv
    OBVIOUS
  <2>1. stack = <<>> /\ order = <<>> /\ phase \in {"resolving", "fetching"} /\ error = "none"
    BY DEF Init
  <2>2. WalkInv /\ Raised /\ RefusalsAreTrue
    BY <2>1, NoWalk DEF WalkInv, Walked, Raised, RefusalsAreTrue
  <2> QED
    BY <2>2, TypesInit, ReadInit DEF IInv
<1>2. IInv /\ [Next]_vars => IInv'
  <2> SUFFICES ASSUME IInv, [Next]_vars PROVE IInv'
    OBVIOUS
  <2>1. TypeOK' /\ ReadInv'
    BY TypesStep, ReadStep DEF IInv
  <2>2. WalkInv'
    BY WalkStep DEF IInv
  <2>3. Raised' /\ RefusalsAreTrue'
    BY RefusalsStep
  <2> QED
    BY <2>1, <2>2, <2>3 DEF IInv
<1> QED
  BY <1>1, <1>2, PTL DEF Spec

\* What is built has the import closure of the entry, each module once, behind
\* what it imports, and the entry last.
THEOREM BundleWhole == Spec => []BundleIsWhole
<1>1. IInv => BundleIsWhole
  <2> SUFFICES ASSUME IInv, phase = "built" PROVE BundleIsWhole
    BY DEF BundleIsWhole
  <2>1. stack = <<>> /\ order # <<>>
    BY DEF IInv, WalkInv, Walked
  <2>2. Done = ClosureOf({Entry}) /\ Last(order) = Entry
    BY <2>1, WalkedAll DEF IInv
  <2> QED
    BY <2>2 DEF IInv, WalkInv, EachOnce, Behind, BundleIsWhole
<1> QED
  BY <1>1, Invariance, PTL

\* Each module is from the one commit the bundle reports, or is an override,
\* and every override is in it.
THEOREM BundleOfOneCommit == Spec => []FromOneCommit
<1>1. IInv /\ [Next]_vars /\ FromOneCommit => FromOneCommit'
  <2> SUFFICES ASSUME IInv, [Next]_vars, FromOneCommit, phase' = "built"
               PROVE  FromOneCommit'
    BY DEF FromOneCommit
  <2>1. TypeOK' /\ ReadInv' /\ WalkInv'
    BY TypesStep, ReadStep, WalkStep DEF IInv
  <2>2. Done' \subseteq visited' /\ visited' \subseteq (replaced \cup fetched)' /\ Done' \subseteq Paths
    BY <2>1 DEF ReadInv, Texts, Sources, WalkInv, Walked, TypeOK
  <2>3. \A p \in Done' : version'[p] = IF p \in replaced' THEN 0 ELSE pinned'
    BY <2>1, <2>2 DEF ReadInv, Versions, Texts
  <2>4. replaced' \subseteq Done'
    <3>1. CASE Build
      BY <3>1 DEF Build, Unused, Done, reading, walking
    <3>2. CASE Finished \/ UNCHANGED vars
      <4>1. phase = "built" /\ replaced' = replaced /\ order' = order
        BY <3>2 DEF Finished, vars
      <4> QED
        BY <4>1 DEF FromOneCommit, Done
    <3>3. Build \/ Finished \/ UNCHANGED vars
      BY DEF Next, Read, Order, Merge, Resolve, NoCommit, Pass, UseOverride, RefuseForward, NotRead,
             AllRead, Fetch, VisitFails, Skip, Visit, Return, Ordered, NotMerged, RefuseUnused,
             Commit, Raise, Looking, Visiting
    <3> QED
      BY <3>1, <3>2, <3>3
  <2>5. pinned' # 0
    BY <2>1 DEF ReadInv, Versions
  <2> QED
    BY <2>3, <2>4, <2>5 DEF FromOneCommit
<1>2. Init => FromOneCommit
  BY DEF Init, FromOneCommit
<1> QED
  BY <1>1, <1>2, Invariance, PTL DEF Spec

\* A bundle is refused for the reason it gives, and never for want of a source
\* that the first walk should have read.
THEOREM BundleRefusals == Spec => []RefusalsAreTrue
<1>1. IInv => RefusalsAreTrue
  BY DEF IInv
<1> QED
  BY <1>1, Invariance, PTL
=============================================================================
