----------------------------- MODULE NqePublish -----------------------------
(***************************************************************************)
(* Publishing queries to the library: AsyncNqeRepository.publish(), the     *)
(* staging, dry run, commit and cleanup it is made of                       *)
(* (_async/services/nqe_repo.py), the library and the drafts it changes on  *)
(* Forward, and other sessions of the same user changing them meanwhile.    *)
(*                                                                         *)
(* Each request is one step: answered, refused without effect, or given up  *)
(* by the transport with or without its effect ("lost").                    *)
(*                                                                         *)
(* Data abstracted: a query's text is "mine" when it is the text to be      *)
(* published; the missing directories are one chain, the first outermost.   *)
(***************************************************************************)
EXTENDS Naturals, FiniteSets

CONSTANTS
  Files,      \* the paths to publish
  Depth,      \* directories the paths need, nested in one another
  Options,    \* the ways publish() is called: see the variable options
  Faults,     \* what may go wrong
  Others,     \* what other sessions may do to the same paths
  MaxOthers   \* bound: how often they do it

ASSUME PublishAssumption ==
  /\ IsFiniteSet(Files) /\ Files # {} /\ Files \cap (1 .. Depth) = {}
  /\ Depth \in Nat
  /\ Options \subseteq {"overwrite", "dry run", "cleanup"}
  /\ Faults \subseteq {"refused", "lost", "unreadable", "errors", "undiscarded"}
  /\ Others \subseteq {"draft", "discard", "publish"}
  /\ MaxOthers \in Nat

VARIABLES
  options,    \* "overwrite" for overwrite_drafts, "dry run" when a
              \* dry_run_snapshot_id is given, "cleanup" for discard_on_failure
  library,    \* library[p]: the text committed at p
  draft,      \* draft[p]: the uncommitted change at p
  dirs,       \* dirs[d]: the state of directory d
  moved,      \* the paths committed by others since the index was read
  pc,         \* the request publish() is about to make
  index,      \* the paths index() found in the library
  created,    \* the directories created by this call
  staged,     \* the paths staged by this call
  todo,       \* what is left of the loop being run
  remaining,  \* the paths of the retried commit or dry run
  result,     \* how publish() ended
  report,     \* the CommitReport: [committed, skipped]
  published,  \* history: what this call's commit published, path by path
  unlucky,    \* history: an answer was lost, or a discard failed
  meddled     \* how often other sessions interfered

vars == <<options, library, draft, dirs, moved, pc, index, created, staged, todo, remaining,
          result, report, published, unlucky, meddled>>
server == <<library, draft, dirs, moved>>
call   == <<options, pc, index, created, staged, todo, remaining, result, report>>
hist   == <<published, unlucky, meddled>>

Directories == 1 .. Depth
NoReport == [committed |-> {}, skipped |-> {}]
May(fault) == fault \in Faults

\* What went wrong cannot be known, or made good, by publish().
Unlucky(fault) == May(fault) /\ unlucky' = TRUE

-----------------------------------------------------------------------------
\* The library holds some of the files already, an older text or the same; a
\* directory not known from the library is missing; drafts may lie about.
Init ==
  /\ options \in SUBSET Options
  /\ library \in [Files -> {"absent", "old", "mine"}]
  /\ draft \in [Files -> {"none", "theirs"}]
  /\ dirs = [d \in Directories |->
               IF \A p \in Files : library[p] = "absent" THEN "missing" ELSE "present"]
  /\ moved = {}
  /\ pc = "index"
  /\ index = {}
  /\ created = {}
  /\ staged = {}
  /\ todo = {}
  /\ remaining = {}
  /\ result = "none"
  /\ report = NoReport
  /\ published = [p \in Files |-> "none"]
  /\ unlucky = FALSE
  /\ meddled = 0

End(how) == pc' = "done" /\ result' = how

\* Mutant of Raise: a failing commit is not cleaned up after.
RaiseUntidy(how) ==
  IF pc \in {"stage", "dry", "redry"} /\ "cleanup" \in options
  THEN pc' = "cleanup" /\ result' = how /\ todo' = staged \cup created
  ELSE End(how) /\ UNCHANGED todo

\* An exception: inside the try of publish() it first discards what was
\* staged, before it simply passes through.
Raise(how) ==
  IF pc \in {"stage", "dry", "redry", "commit", "recommit", "head"} /\ "cleanup" \in options
  THEN pc' = "cleanup" /\ result' = how /\ todo' = staged \cup created
  ELSE End(how) /\ UNCHANGED todo

\* A request is refused, or never reaches Forward.
Refused ==
  /\ May("refused")
  /\ pc \notin {"plan", "cleanup", "done"}
  /\ pc \in {"dirs", "stage"} => todo # {}
  /\ Raise("raised")
  /\ UNCHANGED <<server, index, created, staged, remaining, report, options, hist>>

\* index(refresh=True)
ReadIndex ==
  /\ pc = "index"
  /\ index' = {p \in Files : library[p] # "absent"}
  /\ moved' = {}
  /\ pc' = IF "overwrite" \in options THEN "plan" ELSE "drafts"
  /\ UNCHANGED <<library, draft, dirs, created, staged, todo, remaining, result, report, options, hist>>

\* Mutant of Clashes: only the drafts of queries the library has.
ClashesInLibrary == {p \in index : draft[p] # "none"}

\* _refuse_existing_drafts
Clashes == {p \in Files : draft[p] # "none"}

CheckDrafts ==
  /\ pc = "drafts"
  /\ IF Clashes # {}
     THEN End("refused")
     ELSE pc' = "plan" /\ UNCHANGED result
  /\ UNCHANGED <<server, index, created, staged, todo, remaining, report, options, hist>>

\* _ensure_directories works out what is missing from the index alone.
Plan ==
  /\ pc = "plan"
  /\ todo' = IF index = {} THEN Directories ELSE {}
  /\ pc' = "dirs"
  /\ UNCHANGED <<server, index, created, staged, remaining, result, report, options, hist>>

\* stage_directory, parents before children.  The list of directories is
\* returned, and so known to publish(), only when all have been created.
MakeDirectory ==
  /\ pc = "dirs" /\ todo # {}
  /\ \E d \in todo :
       /\ \A e \in todo : d <= e
       /\ dirs' = [dirs EXCEPT ![d] = "drafted"]
       /\ \/ todo' = todo \ {d} /\ UNCHANGED <<pc, result, unlucky>>
          \/ Unlucky("lost") /\ Raise("raised")
  /\ UNCHANGED <<library, draft, moved, index, created, staged, remaining, report, options,
                 published, meddled>>

DirectoriesMade ==
  /\ pc = "dirs" /\ todo = {}
  /\ created' = IF index = {} THEN Directories ELSE {}
  /\ todo' = Files
  /\ pc' = "stage"
  /\ UNCHANGED <<server, index, staged, remaining, result, report, options, hist>>

\* Forward (external) takes an addition of an absent path, or an edit of one
\* that has not moved on; text equal to the committed one leaves no change.
Stageable(p) == IF p \in index THEN p \notin moved ELSE library[p] = "absent"

\* stage_add or stage_edit
Stage ==
  /\ pc = "stage" /\ todo # {}
  /\ \E p \in todo :
       IF Stageable(p)
       THEN /\ draft' = [draft EXCEPT ![p] = IF library[p] = "mine" THEN "none" ELSE "mine"]
            /\ \/ /\ staged' = staged \cup {p}
                  /\ todo' = todo \ {p}
                  /\ UNCHANGED <<pc, result, unlucky>>
               \/ Unlucky("lost") /\ Raise("raised") /\ UNCHANGED staged
       ELSE Raise("raised") /\ UNCHANGED <<draft, staged, unlucky>>
  /\ UNCHANGED <<library, dirs, moved, index, created, remaining, report, options,
                 published, meddled>>

AllStaged ==
  /\ pc = "stage" /\ todo = {}
  /\ pc' = IF "dry run" \in options THEN "dry" ELSE "commit"
  /\ UNCHANGED <<server, index, created, staged, todo, remaining, result, report, options, hist>>

-----------------------------------------------------------------------------
(* Forward (external) refuses to commit, or to dry-run, paths without a     *)
(* change, naming them all, and paths that have moved on.                   *)

Unchanged(R) == {p \in R : draft[p] = "none"}

\* Mutant of Strip: one path without changes gives them all up.
StripAll(R) == IF Unchanged(R) = {} THEN R ELSE {}

\* _unchanged_paths: what is left to ask for again.
Strip(R) == R \ Unchanged(R)

\* A dry run answered with a report: errors raise, warnings do not.
Validated ==
  \/ pc' = "commit" /\ UNCHANGED <<result, todo>>
  \/ May("errors") /\ Raise("errors")

TryDryRun ==
  /\ pc = "dry"
  /\ IF Unchanged(staged) = {}
     THEN Validated /\ UNCHANGED remaining
     ELSE \/ /\ remaining' = Strip(staged)
             /\ pc' = IF remaining' = {} THEN "commit" ELSE "redry"
             /\ UNCHANGED <<result, todo>>
          \/ May("unreadable") /\ Raise("raised") /\ UNCHANGED remaining
  /\ UNCHANGED <<server, index, created, staged, report, options, hist>>

\* Refused again for want of changes, the dry run reports nothing.
RetryDryRun ==
  /\ pc = "redry"
  /\ IF Unchanged(remaining) = {}
     THEN Validated
     ELSE \/ pc' = "commit" /\ UNCHANGED <<result, todo>>
          \/ May("unreadable") /\ Raise("raised")
  /\ UNCHANGED <<server, index, created, staged, remaining, report, options, hist>>

\* The commit of R is carried out, and read() what happens next.
Commit(R) ==
  /\ library' = [p \in Files |-> IF p \in R THEN draft[p] ELSE library[p]]
  /\ published' = [p \in Files |-> IF p \in R THEN draft[p] ELSE published[p]]
  /\ draft' = [p \in Files |-> IF p \in R THEN "none" ELSE draft[p]]
  /\ dirs' = [d \in Directories |-> IF dirs[d] = "drafted" THEN "present" ELSE dirs[d]]
  /\ UNCHANGED moved

\* A commit accepted, lost on the way back, or refused as moved on.
Committing(R) ==
  /\ Unchanged(R) = {}
  /\ UNCHANGED remaining
  /\ IF R \cap moved = {}
     THEN /\ Commit(R)
          /\ \/ pc' = "head" /\ UNCHANGED <<result, todo, unlucky>>
             \/ Unlucky("lost") /\ Raise("raised")
     ELSE Raise("raised") /\ UNCHANGED <<server, published, unlucky>>

TryCommit ==
  /\ pc = "commit"
  /\ \/ /\ Committing(staged)
        /\ report' = [committed |-> staged, skipped |-> {}]
     \/ /\ Unchanged(staged) # {}
        /\ UNCHANGED <<server, published, unlucky>>
        /\ remaining' = Strip(staged)
        /\ report' = [committed |-> remaining', skipped |-> Unchanged(staged)]
        /\ IF remaining' = {}
           THEN End("returned") /\ UNCHANGED todo
           ELSE pc' = "recommit" /\ UNCHANGED <<result, todo>>
     \/ /\ Unchanged(staged) # {} /\ May("unreadable")
        /\ Raise("raised")
        /\ UNCHANGED <<server, published, unlucky, remaining, report>>
  /\ UNCHANGED <<options, index, created, staged, meddled>>

\* The commit of what has changes; refused again, everything is reported
\* skipped.
RetryCommit ==
  /\ pc = "recommit"
  /\ \/ Committing(remaining) /\ UNCHANGED report
     \/ /\ Unchanged(remaining) # {}
        /\ report' = [committed |-> {}, skipped |-> staged]
        /\ End("returned")
        /\ UNCHANGED <<server, published, unlucky, remaining, todo>>
     \/ /\ Unchanged(remaining) # {} /\ May("unreadable")
        /\ Raise("raised")
        /\ UNCHANGED <<server, published, unlucky, remaining, report>>
  /\ UNCHANGED <<options, index, created, staged, meddled>>

\* head_commit_id for the report
ReadHead ==
  /\ pc = "head"
  /\ End("returned")
  /\ UNCHANGED <<server, index, created, staged, todo, remaining, report, options, hist>>

\* _discard_quietly: each staged path, then each directory; a failure is
\* passed over.
Discard ==
  /\ pc = "cleanup" /\ todo # {}
  /\ \E x \in todo :
       /\ x \in Directories => todo \subseteq Directories
       /\ todo' = todo \ {x}
       /\ \/ Unlucky("undiscarded") /\ UNCHANGED <<draft, dirs>>
          \/ /\ UNCHANGED unlucky
             /\ draft' = [p \in Files |-> IF p = x THEN "none" ELSE draft[p]]
             /\ dirs' = [d \in Directories |->
                           IF d = x /\ dirs[d] = "drafted" THEN "missing" ELSE dirs[d]]
  /\ UNCHANGED <<library, moved, pc, index, created, staged, remaining, result, report, options,
                 published, meddled>>

\* Mutant of Discarded: cleanup begins again until nothing is left.
DiscardedAtLast ==
  /\ pc = "cleanup" /\ todo = {}
  /\ todo' = {p \in staged : draft[p] = "mine"}
  /\ pc' = IF todo' = {} THEN "done" ELSE "cleanup"
  /\ UNCHANGED <<server, index, created, staged, remaining, result, report, options, hist>>

\* The cleanup is over; the exception goes on its way.
Discarded ==
  /\ pc = "cleanup" /\ todo = {}
  /\ pc' = "done"
  /\ UNCHANGED <<server, index, created, staged, todo, remaining, result, report, options, hist>>

\* Another session of the user (external) edits a path, discards a draft, or
\* publishes a text of its own.
Meddle(p) ==
  /\ meddled < MaxOthers
  /\ meddled' = meddled + 1
  /\ \/ /\ "draft" \in Others
        /\ draft' = [draft EXCEPT ![p] = "theirs"]
        /\ UNCHANGED <<library, moved>>
     \/ /\ "discard" \in Others
        /\ draft[p] # "none"
        /\ draft' = [draft EXCEPT ![p] = "none"]
        /\ UNCHANGED <<library, moved>>
     \/ /\ "publish" \in Others
        /\ library' = [library EXCEPT ![p] = "theirs"]
        /\ draft' = [draft EXCEPT ![p] = "none"]
        /\ moved' = moved \cup {p}
  /\ UNCHANGED <<dirs, call, published, unlucky>>

Finished == pc = "done" /\ UNCHANGED vars

\* publish() runs on by itself.
Step ==
  \/ Refused \/ ReadIndex \/ CheckDrafts \/ Plan \/ MakeDirectory \/ DirectoriesMade
  \/ Stage \/ AllStaged \/ TryDryRun \/ RetryDryRun \/ TryCommit \/ RetryCommit
  \/ ReadHead \/ Discard \/ Discarded

Next == Step \/ (pc # "done" /\ \E p \in Files : Meddle(p)) \/ Finished

Spec == Init /\ [][Next]_vars

FairSpec == Spec /\ WF_vars(Step)

-----------------------------------------------------------------------------
(* Properties. *)

Texts == {"none", "mine", "theirs"}

\* Every variable holds a value of its type.
TypeOK ==
  /\ options \subseteq Options
  /\ library \in [Files -> {"absent", "old", "mine", "theirs"}]
  /\ draft \in [Files -> Texts]
  /\ dirs \in [Directories -> {"missing", "drafted", "present"}]
  /\ moved \subseteq Files
  /\ pc \in {"index", "drafts", "plan", "dirs", "stage", "dry", "redry", "commit",
             "recommit", "head", "cleanup", "done"}
  /\ index \subseteq Files
  /\ created \subseteq Directories
  /\ staged \subseteq Files
  /\ todo \subseteq Files \cup Directories
  /\ remaining \subseteq Files
  /\ result \in {"none", "raised", "errors", "refused", "returned"}
  /\ report \in [committed : SUBSET Files, skipped : SUBSET Files]
  /\ published \in [Files -> Texts]
  /\ unlucky \in BOOLEAN
  /\ meddled \in 0 .. MaxOthers

\* When publish() returns, with nobody interfering, every file is in the
\* library with the text given and nothing of it is left staged, whether it
\* was committed, skipped as unchanged, or committed at the second attempt.
SuccessIsTotal ==
  result = "returned" /\ meddled = 0 =>
    \A p \in Files : library[p] = "mine" /\ draft[p] = "none"

\* The report accounts for every file once, and names as committed exactly
\* what its commit published, whatever other sessions did meanwhile.
ReportIsTrue ==
  result = "returned" =>
    /\ report.committed \cup report.skipped = Files
    /\ report.committed \cap report.skipped = {}
    /\ report.committed = {p \in Files : published[p] # "none"}

\* A publish() that fails leaves no draft of its own behind, when no answer
\* was lost and the discards worked; and one that stops at the errors of a dry
\* run has published nothing, also when the dry run was repeated.
FailureIsClean ==
  /\ pc = "done" /\ result \in {"raised", "errors"} /\ "cleanup" \in options /\ ~unlucky
       => \A p \in Files : draft[p] # "mine"
  /\ result = "errors" => \A p \in Files : published[p] = "none"

\* Without overwrite_drafts, a draft that was there before is neither
\* overwritten, nor committed, nor discarded, not even by the cleanup.
ForeignDraftsSurvive ==
  [][meddled' = 0 /\ "overwrite" \notin options =>
       \A p \in Files : draft[p] = "theirs" => draft'[p] = "theirs"]_vars

\* publish() comes to an end, with its cleanup, whatever fails.
PublishEnds == <>(pc = "done")
=============================================================================
