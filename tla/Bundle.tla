------------------------------- MODULE Bundle -------------------------------
(***************************************************************************)
(* Building a bundle: AsyncNqeRepository.bundle() (nqe_repo.py) and the     *)
(* order in which bundle_sources() (nqe/bundle.py) merges what it read.     *)
(*                                                                         *)
(* bundle() settles which commit to read, fetches the entry and everything  *)
(* it imports, a module at a time, and takes the caller's text for those    *)
(* that are overridden; _dependency_order() then walks the imports again,   *)
(* depth first, to put every module behind what it imports.  Meanwhile      *)
(* others commit to the library.                                            *)
(*                                                                         *)
(* Data abstracted: a module is its path, and its text the paths it         *)
(* imports, in order; merging the texts either succeeds or is refused.      *)
(***************************************************************************)
EXTENDS Integers, Sequences, FiniteSets, SequencesExt

CONSTANTS
  Paths,         \* library paths
  Entry,         \* the query to run
  ForwardPaths,  \* the paths in Forward's own library, @fwd/...
  Leaves,        \* bound: paths whose overrides import nothing
  MaxImports,    \* bound: imports of one module
  MaxOverrides,  \* bound: paths in overrides
  MaxHead        \* bound: commits to the library

ASSUME BundleAssumption ==
  /\ Entry \in Paths \ ForwardPaths
  /\ ForwardPaths \subseteq Paths
  /\ Leaves \subseteq Paths
  /\ MaxImports \in Nat
  /\ MaxOverrides \in Nat
  /\ MaxHead \in Nat \ {0}

VARIABLES
  head,      \* the library's head on Forward; 0 before the first commit
  replaced,  \* the paths in overrides
  fetched,   \* the paths whose source was read from the library
  imports,   \* imports[p]: what the source of p imports, once there is one
  version,   \* version[p]: the commit p was read at; 0 if it was not
  pinned,    \* the commit to read at; 0 until it is known
  phase,     \* where bundle() is
  pending,   \* paths still to be looked at, the next one last
  visited,   \* paths looked at
  stack,     \* the visits under way, the innermost last
  order,     \* ordered: the paths put in order so far
  error      \* why bundle() raised

vars == <<head, replaced, fetched, imports, version, pinned, phase, pending,
          visited, stack, order, error>>
reading == <<replaced, fetched, imports, version, pinned, pending, visited>>
walking == <<stack, order>>

-----------------------------------------------------------------------------
\* What a module may import, each path once.
Imports == {list \in UNION {[1 .. n -> Paths] : n \in 0 .. MaxImports} : IsInjective(list)}

\* sources: what there is a text of.
Sources == replaced \cup fetched

Ended == {"built", "failed"}

\* overrides and commit_id are the caller's; commit_id is a commit or "head",
\* written 0 here.
Init ==
  /\ head \in 0 .. 1
  /\ replaced \in {R \in SUBSET Paths : Cardinality(R) <= MaxOverrides}
  /\ fetched = {}
  /\ imports \in [Paths -> Imports]
  /\ \A p \in Leaves \cup (Paths \ replaced) : imports[p] = <<>>
  /\ version = [p \in Paths |-> 0]
  /\ pinned \in 0 .. head
  /\ phase = IF pinned = 0 THEN "resolving" ELSE "fetching"
  /\ pending = <<Entry>>
  /\ visited = {}
  /\ stack = <<>>
  /\ order = <<>>
  /\ error = "none"

Raise(why) ==
  /\ phase' = "failed"
  /\ error' = why
  /\ UNCHANGED <<head, reading, walking>>

-----------------------------------------------------------------------------
(* Reading the sources. *)

\* head_commit_id() is answered.
Resolve ==
  /\ phase = "resolving"
  /\ head # 0
  /\ pinned' = head
  /\ phase' = "fetching"
  /\ UNCHANGED <<head, replaced, fetched, imports, version, pending, visited, walking, error>>

\* There is no commit, or the request fails.
NoCommit == phase = "resolving" /\ Raise("not read")

\* What is looked at next, and what is left after it.
Path == Last(pending)
Rest == Front(pending)
Looking == phase = "fetching" /\ pending # <<>>

\* Mutant of Pass: a path looked at already stays on the list.
PassOver ==
  /\ Looking /\ Path \in visited
  /\ pending' = pending
  /\ UNCHANGED <<head, replaced, fetched, imports, version, pinned, visited, phase, walking, error>>

Pass ==
  /\ Looking /\ Path \in visited
  /\ pending' = Rest
  /\ UNCHANGED <<head, replaced, fetched, imports, version, pinned, visited, phase, walking, error>>

\* p is looked at, and what it imports comes next.  (Imports looked at already
\* are left out here by the code; in the model they are passed over.)
Follow(p, list) ==
  /\ visited' = visited \cup {p}
  /\ pending' = Rest \o list

\* The caller supplied the text.
UseOverride ==
  /\ Looking /\ Path \notin visited /\ Path \in replaced
  /\ Follow(Path, imports[Path])
  /\ UNCHANGED <<head, replaced, fetched, imports, version, pinned, phase, walking, error>>

RefuseForward ==
  /\ Looking /\ Path \notin visited
  /\ Path \in ForwardPaths \ replaced
  /\ Raise("forward library")

\* Mutant of CommitRead: every module is read at the head there is by now.
CommitReadNow == head

CommitRead == pinned

\* Forward (external) answers _source_at() with the text at that commit.
Fetch(list) ==
  /\ Looking /\ Path \notin visited \cup replaced \cup ForwardPaths
  /\ Follow(Path, list)
  /\ fetched' = fetched \cup {Path}
  /\ imports' = [imports EXCEPT ![Path] = list]
  /\ version' = [version EXCEPT ![Path] = CommitRead]
  /\ UNCHANGED <<head, replaced, pinned, phase, walking, error>>

\* A request fails, there is no such module at that commit, or the text
\* cannot be tokenized.
NotRead ==
  /\ Looking /\ Path \notin visited \cup (ForwardPaths \ replaced)
  /\ Raise("not read")

AllRead ==
  /\ phase = "fetching" /\ pending = <<>>
  /\ phase' = "ordering"
  /\ UNCHANGED <<head, reading, walking, error>>

-----------------------------------------------------------------------------
(* _dependency_order(): a visit is its path and the number of the import it *)
(* looks at next.                                                           *)

Top == Last(stack)
OnStack == {stack[i].path : i \in DOMAIN stack}
Done == {order[i] : i \in DOMAIN order}

\* The next call of visit(), and with what path.
Visiting ==
  /\ phase = "ordering"
  /\ IF stack = <<>> THEN order = <<>> ELSE Top.next \in DOMAIN imports[Top.path]
Visited == IF stack = <<>> THEN Entry ELSE imports[Top.path][Top.next]

\* The callers' visits, past the import that is being visited.
Advanced == IF stack = <<>> THEN stack
            ELSE [stack EXCEPT ![Len(stack)].next = @ + 1]

\* Mutant of VisitFails: a module met a second time makes a circle.
VisitFailsIfSeen ==
  /\ Visiting /\ Visited \notin Sources \ (OnStack \cup Done)
  /\ Raise("circular")

\* The path is being visited already, or there is no source of it.
VisitFails ==
  /\ Visiting /\ Visited \notin (Sources \cup Done) \ OnStack
  /\ Raise(IF Visited \in OnStack THEN "circular" ELSE "no source")

Skip ==
  /\ Visiting /\ Visited \in Done \ OnStack
  /\ stack' = Advanced
  /\ UNCHANGED <<head, reading, order, phase, error>>

Visit ==
  /\ Visiting /\ Visited \in Sources \ (OnStack \cup Done)
  /\ stack' = Append(Advanced, [path |-> Visited, next |-> 1])
  /\ UNCHANGED <<head, reading, order, phase, error>>

\* Mutant of Put: a module is put before what it imports.
PutInFront(p) == <<p>> \o order

Put(p) == Append(order, p)

\* Every import has been visited: the module follows them.
Return ==
  /\ phase = "ordering" /\ stack # <<>>
  /\ Top.next \notin DOMAIN imports[Top.path]
  /\ stack' = Front(stack)
  /\ order' = Put(Top.path)
  /\ UNCHANGED <<head, reading, phase, error>>

Ordered ==
  /\ phase = "ordering" /\ stack = <<>> /\ order # <<>>
  /\ phase' = "merging"
  /\ UNCHANGED <<head, reading, walking, error>>

-----------------------------------------------------------------------------
(* The texts are merged, and the overrides accounted for. *)

Unused == replaced \ Done

\* A text cannot be merged safely.
NotMerged == phase = "merging" /\ Raise("not merged")

RefuseUnused == phase = "merging" /\ Unused # {} /\ Raise("unused")

Build ==
  /\ phase = "merging" /\ Unused = {}
  /\ phase' = "built"
  /\ UNCHANGED <<head, reading, walking, error>>

\* Others (external) commit to the library; only while it is read is it of
\* any consequence.
Commit ==
  /\ phase = "fetching" /\ head < MaxHead
  /\ head' = head + 1
  /\ UNCHANGED <<reading, walking, phase, error>>

Read ==
  \/ Resolve \/ NoCommit \/ Pass \/ UseOverride \/ RefuseForward \/ NotRead \/ AllRead
  \/ \E list \in Imports : Fetch(list)

Order == VisitFails \/ Skip \/ Visit \/ Return \/ Ordered

Finished == phase \in Ended /\ UNCHANGED vars

Merge == NotMerged \/ RefuseUnused \/ Build

Next == Read \/ Order \/ Merge \/ Commit \/ Finished

Spec == Init /\ [][Next]_vars

\* Requests are answered or fail, and the rest is a loop that runs on.
FairSpec == Spec /\ WF_vars(Read \/ Order \/ Merge)

-----------------------------------------------------------------------------
TypeOK ==
  /\ head \in 0 .. MaxHead
  /\ replaced \subseteq Paths
  /\ fetched \subseteq Paths
  /\ imports \in [Paths -> Seq(Paths)]
  /\ version \in [Paths -> 0 .. MaxHead]
  /\ pinned \in 0 .. MaxHead
  /\ phase \in {"resolving", "fetching", "ordering", "merging"} \cup Ended
  /\ pending \in Seq(Paths)
  /\ visited \subseteq Paths
  /\ stack \in Seq([path : Paths, next : Nat \ {0}])
  /\ order \in Seq(Paths)
  /\ error \in {"none", "not read", "forward library", "circular", "no source", "not merged",
                "unused"}

\* What a module imports, as a set.
ImportsOf(p) == {imports[p][i] : i \in DOMAIN imports[p]}

\* The import closure of some paths: what is in every set that has them and
\* the imports of its members.
Closed(S) == \A p \in S : ImportsOf(p) \subseteq S
ClosureOf(S) == {p \in Paths : \A C \in SUBSET Paths : S \subseteq C /\ Closed(C) => p \in C}

\* "every module included, dependencies first, entry last" (NqeBundle.modules,
\* bundle.py), each once, and nothing the entry does not need.
BundleIsWhole ==
  phase = "built" =>
    /\ Done = ClosureOf({Entry})
    /\ \A i, j \in DOMAIN order : order[i] = order[j] => i = j
    /\ \A i \in DOMAIN order : ImportsOf(order[i]) \subseteq {order[j] : j \in 1 .. i - 1}
    /\ Last(order) = Entry

\* Whatever others commit meanwhile, every module was read at the one commit
\* the bundle reports, but those overridden, each of which is in the bundle
\* ("two bundles built minutes apart cannot silently read different versions",
\* bundle()).
FromOneCommit ==
  phase = "built" =>
    /\ pinned # 0
    /\ replaced \subseteq Done
    /\ \A p \in Done : version[p] = IF p \in replaced THEN 0 ELSE pinned

\* A bundle is refused for the reason it gives: a circle is among the imports
\* of the entry, an override is of something it does not import, a module of
\* Forward's library is needed and not overridden; and every module asked for
\* by the second walk was read by the first.
RefusalsAreTrue ==
  /\ error = "circular" => \E p \in ClosureOf({Entry}) : p \in ClosureOf(ImportsOf(p))
  /\ error = "unused" => ~ replaced \subseteq ClosureOf({Entry})
  /\ error = "forward library" => ~ ForwardPaths \cap ClosureOf({Entry}) \subseteq replaced
  /\ error # "no source"

\* bundle() ends, although modules import one another in circles.
BundleEnds == <>(phase \in Ended)
=============================================================================
