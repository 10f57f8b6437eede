-------------------------- MODULE NqePublishProofs --------------------------
(***************************************************************************)
(* Proofs about NqePublish, for any files, directories, failures and        *)
(* interference: what publish() reports, what it leaves behind when it      *)
(* fails, and whose drafts it touches.  The invariant says, place by place, *)
(* what has been staged and committed, and of whom the drafts are.          *)
(***************************************************************************)
EXTENDS NqePublish, TLAPS

\* Before the try block of publish(), inside it, and before the commit.
Before == {"index", "drafts", "plan", "dirs"}
Ready == {"dry", "redry", "commit", "recommit", "head"}
Uncommitted == Before \cup {"stage", "dry", "redry", "commit", "recommit"}

\* How far each place has come.
Progress ==
  /\ pc \in Before => staged = {}
  /\ pc = "dirs" => todo \subseteq Directories
  /\ pc = "stage" => todo \subseteq Files /\ Files \subseteq staged \cup todo
  /\ pc \in Ready => staged = Files
  /\ pc \notin {"cleanup", "done"} => result = "none"
  /\ pc \in {"cleanup", "done"} => result # "none"
  /\ pc = "cleanup" => result \in {"raised", "errors"}

Reported ==
  /\ report.committed \cup report.skipped = Files
  /\ report.committed \cap report.skipped = {}
  /\ report.committed = {p \in Files : published[p] # "none"}

\* Nothing is published before the commit, nor by a call that ends in errors;
\* the report the retried commit would make accounts for every file.
Written ==
  /\ pc \in Uncommitted \/ result = "errors" => \A p \in Files : published[p] = "none"
  /\ pc = "recommit" => report.committed = remaining /\ report.skipped = Files \ remaining
  /\ pc = "head" \/ result = "returned" => Reported

\* The drafts of this call are those it has staged, and in the cleanup those
\* it is about to discard.
Own ==
  /\ ~unlucky => \A p \in Files : draft[p] = "mine" =>
       p \in staged /\ (pc = "cleanup" => p \in todo)
  /\ pc = "done" /\ result \in {"raised", "errors"} /\ "cleanup" \in options /\ ~unlucky
       => \A p \in Files : draft[p] # "mine"

\* Left alone, what is staged either changes the library or is there already.
Alone ==
  meddled = 0 =>
    /\ pc \in {"stage", "dry", "redry", "commit", "recommit"} =>
         \A p \in staged : draft[p] = "mine" \/ (draft[p] = "none" /\ library[p] = "mine")
    /\ pc = "recommit" => \A p \in Files : draft[p] # "none" <=> p \in remaining
    /\ pc = "head" \/ result = "returned" =>
         \A p \in Files : library[p] = "mine" /\ draft[p] = "none"

\* Past the check for drafts there is none of anybody else.
NoForeign ==
  meddled = 0 /\ "overwrite" \notin options /\ pc \notin {"index", "drafts", "done"}
    => \A p \in Files : draft[p] # "theirs"

IInv == TypeOK /\ Progress /\ Written /\ Own /\ Alone /\ NoForeign

USE DEF Before, Ready, Uncommitted, Directories, Texts, NoReport

LEMMA OthersBounded == MaxOthers \in Nat
  BY PublishAssumption

LEMMA InitIInv == Init => IInv
<1> SUFFICES ASSUME Init PROVE IInv
  OBVIOUS
<1>1. TypeOK
  <2>1. library \in [Files -> {"absent", "old", "mine", "theirs"}] /\ draft \in [Files -> Texts]
    BY DEF Init
  <2>2. dirs \in [Directories -> {"missing", "drafted", "present"}] /\ published \in [Files -> Texts]
    BY DEF Init
  <2>3. /\ options \subseteq Options /\ moved \subseteq Files /\ index \subseteq Files
        /\ created \subseteq Directories /\ staged \subseteq Files /\ remaining \subseteq Files
        /\ todo \subseteq Files \cup Directories
    BY DEF Init
  <2>4. pc = "index" /\ result = "none" /\ meddled = 0
    BY DEF Init
  <2>7. report \in [committed : SUBSET Files, skipped : SUBSET Files]
    BY DEF Init
  <2>8. meddled \in 0 .. MaxOthers
    BY <2>4, OthersBounded
  <2>5. unlucky \in BOOLEAN
    BY Zenon DEF Init
  <2>6. QED
    BY <2>1, <2>2, <2>3, <2>4, <2>5, <2>7, <2>8 DEF TypeOK
<1>2. Progress /\ Written
  BY DEF Init, Progress, Written
<1>3. Own /\ Alone /\ NoForeign
  BY DEF Init, Own, Alone, NoForeign
<1>4. QED
  BY <1>1, <1>2, <1>3 DEF IInv

\* Where Raise leads: out of publish(), or into the cleanup of what was staged.
LEMMA Raising ==
  ASSUME TypeOK, pc \notin {"cleanup", "done"}, NEW how, Raise(how)
  PROVE  /\ result' = how
         /\ \/ pc' = "cleanup" /\ todo' = staged \cup created /\ pc \notin Before
            \/ pc' = "done" /\ todo' = todo /\ (pc \in Before \/ "cleanup" \notin options)
<1>1. CASE pc \in {"stage", "dry", "redry", "commit", "recommit", "head"} /\ "cleanup" \in options
  BY <1>1 DEF Raise
<1>2. CASE ~(pc \in {"stage", "dry", "redry", "commit", "recommit", "head"} /\ "cleanup" \in options)
  BY <1>2 DEF Raise, End, TypeOK
<1>3. QED
  BY <1>1, <1>2

\* A step that leaves the library and the drafts alone and only goes on.
LEMMA RefusedStep ==
  ASSUME IInv, Refused
  PROVE  IInv'
<1>1. /\ TypeOK /\ Progress /\ Written /\ Own /\ Alone /\ NoForeign
      /\ UNCHANGED <<library, draft, dirs, moved, index, created, staged, remaining, report,
                     options, published, unlucky, meddled>>
      /\ Raise("raised") /\ pc \notin {"plan", "cleanup", "done"}
  BY DEF IInv, Refused, server, hist
<1>2. result' = "raised" /\ pc' \in {"cleanup", "done"}
  BY <1>1, Raising
<1>3. TypeOK'
  BY <1>1, Raising DEF TypeOK
<1>4. Progress'
  BY <1>1, <1>2, Raising DEF Progress
<1>5. Written'
  BY <1>1, <1>2 DEF Written, Reported
<1>6. Own'
  BY <1>1, Raising DEF Own, Progress, TypeOK
<1>7. Alone'
  BY <1>1, <1>2 DEF Alone
<1>8. NoForeign'
  BY <1>1, Raising DEF NoForeign
<1>9. QED
  BY <1>3, <1>4, <1>5, <1>6, <1>7, <1>8 DEF IInv

\* The steps that change neither Forward's state nor what is reported.
LEMMA GoingOn ==
  ASSUME IInv,
         ReadIndex \/ CheckDrafts \/ Plan \/ DirectoriesMade \/ AllStaged \/ Discarded
  PROVE  IInv'
<1>1. /\ TypeOK /\ Progress /\ Written /\ Own /\ Alone /\ NoForeign
  BY DEF IInv
<1>2. CASE ReadIndex
  <2>1. TypeOK'
    BY <1>1, <1>2 DEF ReadIndex, TypeOK, hist
  <2>2. Progress' /\ Written'
    BY <1>1, <1>2 DEF ReadIndex, Progress, Written, Reported, hist
  <2>3. Own' /\ Alone' /\ NoForeign'
    BY <1>1, <1>2 DEF ReadIndex, Own, Alone, NoForeign, hist
  <2>4. QED
    BY <2>1, <2>2, <2>3 DEF IInv
<1>3. CASE CheckDrafts
  <2>1. TypeOK'
    BY <1>1, <1>3 DEF CheckDrafts, End, TypeOK, hist, server
  <2>2. Progress' /\ Written'
    BY <1>1, <1>3 DEF CheckDrafts, End, Progress, Written, Reported, hist, server
  <2>3. Own' /\ Alone'
    BY <1>1, <1>3 DEF CheckDrafts, End, Own, Alone, Progress, hist, server
  <2>4. NoForeign'
    BY <1>1, <1>3 DEF CheckDrafts, End, Clashes, NoForeign, hist, server
  <2>5. QED
    BY <2>1, <2>2, <2>3, <2>4 DEF IInv
<1>4. CASE Plan
  <2>1. TypeOK'
    BY <1>1, <1>4 DEF Plan, TypeOK, hist, server
  <2>2. Progress' /\ Written'
    BY <1>1, <1>4 DEF Plan, Progress, Written, Reported, hist, server
  <2>3. Own' /\ Alone' /\ NoForeign'
    BY <1>1, <1>4 DEF Plan, Own, Alone, NoForeign, hist, server
  <2>4. QED
    BY <2>1, <2>2, <2>3 DEF IInv
<1>5. CASE DirectoriesMade
  <2>1. TypeOK'
    BY <1>1, <1>5 DEF DirectoriesMade, TypeOK, hist, server
  <2>2. Progress' /\ Written'
    BY <1>1, <1>5 DEF DirectoriesMade, Progress, Written, Reported, hist, server
  <2>3. Own' /\ Alone' /\ NoForeign'
    BY <1>1, <1>5 DEF DirectoriesMade, Own, Alone, Progress, NoForeign, hist, server
  <2>4. QED
    BY <2>1, <2>2, <2>3 DEF IInv
<1>6. CASE AllStaged
  <2>1. TypeOK'
    BY <1>1, <1>6 DEF AllStaged, TypeOK, hist, server
  <2>5. staged = Files
    BY <1>1, <1>6 DEF AllStaged, Progress, TypeOK
  <2>2. Progress' /\ Written'
    BY <1>1, <1>6, <2>5 DEF AllStaged, Progress, Written, Reported, hist, server
  <2>3. Own' /\ Alone' /\ NoForeign'
    BY <1>1, <1>6 DEF AllStaged, Own, Alone, NoForeign, hist, server
  <2>4. QED
    BY <2>1, <2>2, <2>3 DEF IInv
<1>7. CASE Discarded
  <2>1. TypeOK'
    BY <1>1, <1>7 DEF Discarded, TypeOK, hist, server
  <2>2. Progress' /\ Written'
    BY <1>1, <1>7 DEF Discarded, Progress, Written, Reported, hist, server
  <2>3. Own' /\ Alone' /\ NoForeign'
    BY <1>1, <1>7 DEF Discarded, Own, Alone, NoForeign, Progress, hist, server
  <2>4. QED
    BY <2>1, <2>2, <2>3 DEF IInv
<1>8. QED
  BY <1>2, <1>3, <1>4, <1>5, <1>6, <1>7

LEMMA MakeDirectoryStep ==
  ASSUME IInv, MakeDirectory
  PROVE  IInv'
<1>1. /\ TypeOK /\ Progress /\ Written /\ Own /\ Alone /\ NoForeign
      /\ pc = "dirs" /\ staged = {} /\ todo \subseteq Directories
      /\ UNCHANGED <<library, draft, moved, index, created, staged, remaining, report,
                     options, published, meddled>>
  BY DEF IInv, MakeDirectory, Progress
<1>2. dirs' \in [Directories -> {"missing", "drafted", "present"}]
  BY <1>1 DEF MakeDirectory, TypeOK
<1>3. CASE todo' \subseteq todo /\ UNCHANGED <<pc, result, unlucky>>
  <2>1. TypeOK'
    BY <1>1, <1>2, <1>3 DEF TypeOK
  <2>2. Progress' /\ Written'
    BY <1>1, <1>3 DEF Progress, Written, Reported
  <2>3. Own' /\ Alone' /\ NoForeign'
    BY <1>1, <1>3 DEF Own, Alone, NoForeign
  <2>4. QED
    BY <2>1, <2>2, <2>3 DEF IInv
<1>4. CASE unlucky' = TRUE /\ Raise("raised")
  <2>1. pc' = "done" /\ result' = "raised" /\ todo' = todo
    BY <1>1, <1>4, Raising
  <2>2. TypeOK'
    BY <1>1, <1>2, <1>4, <2>1 DEF TypeOK
  <2>3. Progress' /\ Written'
    BY <1>1, <2>1 DEF Progress, Written, Reported
  <2>4. Own' /\ Alone' /\ NoForeign'
    BY <1>1, <1>4, <2>1 DEF Own, Alone, NoForeign
  <2>5. QED
    BY <2>2, <2>3, <2>4 DEF IInv
<1>5. QED
  BY <1>3, <1>4 DEF MakeDirectory, Unlucky

\* A path staged is a draft of this call, or is in the library as it should be.
LEMMA StageStep ==
  ASSUME IInv, Stage
  PROVE  IInv'
<1>1. /\ TypeOK /\ Progress /\ Written /\ Own /\ Alone /\ NoForeign
      /\ pc = "stage" /\ todo \subseteq Files /\ Files \subseteq staged \cup todo
      /\ UNCHANGED <<library, dirs, moved, index, created, remaining, report, options,
                     published, meddled>>
  BY DEF IInv, Stage, Progress
<1>2. PICK p \in todo :
        IF Stageable(p)
        THEN /\ draft' = [draft EXCEPT ![p] = IF library[p] = "mine" THEN "none" ELSE "mine"]
             /\ \/ /\ staged' = staged \cup {p}
                   /\ todo' = todo \ {p}
                   /\ UNCHANGED <<pc, result, unlucky>>
                \/ Unlucky("lost") /\ Raise("raised") /\ UNCHANGED staged
        ELSE Raise("raised") /\ UNCHANGED <<draft, staged, unlucky>>
  BY DEF Stage
<1>3. CASE /\ draft' = [draft EXCEPT ![p] = IF library[p] = "mine" THEN "none" ELSE "mine"]
           /\ staged' = staged \cup {p}
           /\ todo' = todo \ {p}
           /\ UNCHANGED <<pc, result, unlucky>>
  <2>1. TypeOK'
    BY <1>1, <1>3 DEF TypeOK
  <2>2. Progress' /\ Written'
    BY <1>1, <1>3 DEF Progress, Written, Reported
  <2>3. Own'
    BY <1>1, <1>3 DEF Own, TypeOK
  <2>4. Alone' /\ NoForeign'
    BY <1>1, <1>3 DEF Alone, NoForeign, Progress, TypeOK
  <2>5. QED
    BY <2>1, <2>2, <2>3, <2>4 DEF IInv
<1>4. CASE /\ draft' = [draft EXCEPT ![p] = IF library[p] = "mine" THEN "none" ELSE "mine"]
           /\ unlucky' = TRUE /\ Raise("raised") /\ UNCHANGED staged
  <2>1. /\ result' = "raised"
        /\ \/ pc' = "cleanup" /\ todo' = staged \cup created
           \/ pc' = "done" /\ todo' = todo
    BY <1>1, <1>4, Raising
  <2>2. TypeOK'
    BY <1>1, <1>4, <2>1 DEF TypeOK
  <2>3. Progress' /\ Written'
    BY <1>1, <1>4, <2>1 DEF Progress, Written, Reported
  <2>4. Own' /\ Alone' /\ NoForeign'
    BY <1>1, <1>4, <2>1 DEF Own, Alone, NoForeign, TypeOK
  <2>5. QED
    BY <2>2, <2>3, <2>4 DEF IInv
<1>5. CASE Raise("raised") /\ UNCHANGED <<draft, staged, unlucky>>
  <2>1. /\ result' = "raised"
        /\ \/ pc' = "cleanup" /\ todo' = staged \cup created
           \/ pc' = "done" /\ todo' = todo /\ "cleanup" \notin options
    BY <1>1, <1>5, Raising
  <2>2. TypeOK'
    BY <1>1, <1>5, <2>1 DEF TypeOK
  <2>3. Progress' /\ Written'
    BY <1>1, <1>5, <2>1 DEF Progress, Written, Reported
  <2>4. Own' /\ Alone' /\ NoForeign'
    BY <1>1, <1>5, <2>1 DEF Own, Alone, NoForeign, TypeOK
  <2>5. QED
    BY <2>2, <2>3, <2>4 DEF IInv
<1>6. QED
  BY <1>2, <1>3, <1>4, <1>5 DEF Unlucky

\* A dry run, the first or the repeated one, changes only what is to be
\* committed, or ends the call.
LEMMA DryRunStep ==
  ASSUME IInv, TryDryRun \/ RetryDryRun
  PROVE  IInv'
<1>1. /\ TypeOK /\ Progress /\ Written /\ Own /\ Alone /\ NoForeign
      /\ pc \in {"dry", "redry"} /\ staged = Files
      /\ UNCHANGED <<library, draft, dirs, moved, index, created, staged, report, options,
                     published, unlucky, meddled>>
  BY DEF IInv, TryDryRun, RetryDryRun, Progress, server, hist
<1>2. remaining' \subseteq Files
  BY <1>1 DEF TryDryRun, RetryDryRun, Strip, TypeOK
<1>3. CASE pc' \in {"commit", "redry"} /\ UNCHANGED <<result, todo>>
  <2>1. TypeOK'
    BY <1>1, <1>2, <1>3 DEF TypeOK
  <2>2. Progress' /\ Written'
    BY <1>1, <1>3 DEF Progress, Written, Reported
  <2>3. Own' /\ Alone' /\ NoForeign'
    BY <1>1, <1>3 DEF Own, Alone, NoForeign
  <2>4. QED
    BY <2>1, <2>2, <2>3 DEF IInv
<1>4. ASSUME NEW how \in {"raised", "errors"}, Raise(how)
      PROVE  IInv'
  <2>1. /\ result' = how
        /\ \/ pc' = "cleanup" /\ todo' = staged \cup created
           \/ pc' = "done" /\ todo' = todo /\ "cleanup" \notin options
    BY <1>1, <1>4, Raising
  <2>2. TypeOK'
    BY <1>1, <1>2, <2>1 DEF TypeOK
  <2>3. Progress' /\ Written'
    BY <1>1, <2>1 DEF Progress, Written, Reported
  <2>4. Own' /\ Alone' /\ NoForeign'
    BY <1>1, <2>1 DEF Own, Alone, NoForeign
  <2>5. QED
    BY <2>2, <2>3, <2>4 DEF IInv
<1>5. QED
  BY <1>3, <1>4 DEF TryDryRun, RetryDryRun, Validated

\* A commit of R, when everything has been staged, publishes the drafts of R.
LEMMA CommittingStep ==
  ASSUME TypeOK, Progress, Written, Own, Alone, NoForeign,
         pc \in {"commit", "recommit"}, staged = Files,
         NEW R \in SUBSET Files, Committing(R),
         report'.committed = R, report'.skipped = Files \ R,
         report' \in [committed : SUBSET Files, skipped : SUBSET Files],
         \/ R = Files
         \/ pc = "recommit" /\ R = remaining,
         UNCHANGED <<options, index, created, staged, meddled>>
  PROVE  IInv'
<1>1. remaining' = remaining /\ \A p \in R : draft[p] \in {"mine", "theirs"}
  BY DEF Committing, Unchanged, TypeOK
<1>2. CASE Commit(R) /\ pc' = "head" /\ UNCHANGED <<result, todo, unlucky>>
  <2>1. TypeOK'
    <3>1. /\ library' \in [Files -> {"absent", "old", "mine", "theirs"}]
          /\ published' \in [Files -> Texts]
          /\ draft' \in [Files -> Texts]
      BY <1>1, <1>2 DEF Commit, TypeOK
    <3>2. dirs' \in [Directories -> {"missing", "drafted", "present"}]
      BY <1>2 DEF Commit, TypeOK
    <3>3. QED
      BY <1>1, <1>2, <3>1, <3>2 DEF Commit, TypeOK
  <2>2. Progress'
    BY <1>2 DEF Progress
  <2>3. Reported'
    <3>1. \A p \in Files : published'[p] # "none" <=> p \in R
      BY <1>1, <1>2 DEF Commit, Written
    <3>2. QED
      BY <3>1 DEF Reported
  <2>4. Written'
    BY <1>2, <2>3 DEF Written, Progress
  <2>5. Own'
    BY <1>2 DEF Own, Commit, Progress
  <2>6. Alone'
    <3>1. SUFFICES ASSUME meddled = 0, NEW p \in Files
                   PROVE  library'[p] = "mine" /\ draft'[p] = "none"
      BY <1>2 DEF Alone
    <3>2. CASE p \in R
      BY <1>1, <1>2, <3>1, <3>2 DEF Alone, Commit
    <3>3. CASE p \notin R
      BY <1>2, <3>1, <3>3 DEF Alone, Commit
    <3>4. QED
      BY <3>2, <3>3
  <2>7. NoForeign'
    BY <1>2 DEF NoForeign, Commit
  <2>8. QED
    BY <2>1, <2>2, <2>4, <2>5, <2>6, <2>7 DEF IInv
<1>3. CASE Commit(R) /\ unlucky' = TRUE /\ Raise("raised")
  <2>1. /\ result' = "raised"
        /\ \/ pc' = "cleanup" /\ todo' = staged \cup created
           \/ pc' = "done" /\ todo' = todo
    BY <1>3, Raising
  <2>2. TypeOK'
    <3>1. /\ library' \in [Files -> {"absent", "old", "mine", "theirs"}]
          /\ published' \in [Files -> Texts]
          /\ draft' \in [Files -> Texts]
      BY <1>1, <1>3 DEF Commit, TypeOK
    <3>2. dirs' \in [Directories -> {"missing", "drafted", "present"}]
      BY <1>3 DEF Commit, TypeOK
    <3>3. QED
      BY <1>1, <1>3, <2>1, <3>1, <3>2 DEF Commit, TypeOK
  <2>3. Progress' /\ Written'
    BY <2>1 DEF Progress, Written
  <2>4. Own' /\ Alone'
    BY <1>3, <2>1 DEF Own, Alone
  <2>5. NoForeign'
    BY <1>3, <2>1 DEF NoForeign, Commit
  <2>6. QED
    BY <2>2, <2>3, <2>4, <2>5 DEF IInv
<1>4. CASE Raise("raised") /\ UNCHANGED <<server, published, unlucky>>
  <2>1. /\ result' = "raised"
        /\ \/ pc' = "cleanup" /\ todo' = staged \cup created
           \/ pc' = "done" /\ todo' = todo /\ "cleanup" \notin options
    BY <1>4, Raising
  <2>2. TypeOK'
    BY <1>1, <1>4, <2>1 DEF TypeOK, server
  <2>3. Progress' /\ Written'
    BY <2>1 DEF Progress, Written
  <2>4. Own' /\ Alone' /\ NoForeign'
    BY <1>4, <2>1 DEF Own, Alone, NoForeign, server
  <2>5. QED
    BY <2>2, <2>3, <2>4 DEF IInv
<1>5. QED
  BY <1>2, <1>3, <1>4 DEF Committing, Unlucky

LEMMA TryCommitStep ==
  ASSUME IInv, TryCommit
  PROVE  IInv'
<1>1. /\ TypeOK /\ Progress /\ Written /\ Own /\ Alone /\ NoForeign
      /\ pc = "commit" /\ staged = Files
      /\ UNCHANGED <<options, index, created, staged, meddled>>
  BY DEF IInv, TryCommit, Progress
<1>2. CASE Committing(staged) /\ report' = [committed |-> staged, skipped |-> {}]
  <2>1. report' \in [committed : SUBSET Files, skipped : SUBSET Files]
    BY <1>1, <1>2
  <2>2. report'.committed = staged /\ report'.skipped = Files \ staged
    BY <1>1, <1>2
  <2>3. QED
    BY <1>1, <1>2, <2>1, <2>2, CommittingStep
<1>3. CASE /\ UNCHANGED <<server, published, unlucky>>
           /\ remaining' = Strip(staged)
           /\ report' = [committed |-> remaining', skipped |-> Unchanged(staged)]
           /\ IF remaining' = {}
              THEN End("returned") /\ UNCHANGED todo
              ELSE pc' = "recommit" /\ UNCHANGED <<result, todo>>
  <2>1. /\ remaining' = {p \in Files : draft[p] # "none"}
        /\ report'.committed = remaining' /\ report'.skipped = Files \ remaining'
        /\ report' \in [committed : SUBSET Files, skipped : SUBSET Files]
    BY <1>1, <1>3 DEF Strip, Unchanged
  <2>2. TypeOK'
    BY <1>1, <1>3, <2>1 DEF TypeOK, End, server
  <2>3. \A p \in Files : published'[p] = "none"
    BY <1>1, <1>3 DEF Written
  <2>4. CASE remaining' = {}
    <3>1. pc' = "done" /\ result' = "returned"
      BY <1>3, <2>4 DEF End
    <3>2. Progress' /\ Written'
      BY <1>1, <2>1, <2>3, <2>4, <3>1 DEF Progress, Written, Reported
    <3>3. Own' /\ Alone' /\ NoForeign'
      BY <1>1, <1>3, <2>1, <2>4, <3>1 DEF Own, Alone, NoForeign, server
    <3>4. QED
      BY <2>2, <3>2, <3>3 DEF IInv
  <2>5. CASE remaining' # {}
    <3>1. pc' = "recommit" /\ UNCHANGED <<result, todo>>
      BY <1>3, <2>5
    <3>2. Progress' /\ Written'
      BY <1>1, <2>1, <2>3, <3>1 DEF Progress, Written
    <3>3. Own' /\ Alone' /\ NoForeign'
      BY <1>1, <1>3, <2>1, <3>1 DEF Own, Alone, NoForeign, server
    <3>4. QED
      BY <2>2, <3>2, <3>3 DEF IInv
  <2>6. QED
    BY <2>4, <2>5
<1>4. CASE Raise("raised") /\ UNCHANGED <<server, published, unlucky, remaining, report>>
  <2>1. /\ result' = "raised"
        /\ \/ pc' = "cleanup" /\ todo' = staged \cup created
           \/ pc' = "done" /\ todo' = todo /\ "cleanup" \notin options
    BY <1>1, <1>4, Raising
  <2>2. TypeOK'
    BY <1>1, <1>4, <2>1 DEF TypeOK, server
  <2>3. Progress' /\ Written'
    BY <1>1, <2>1 DEF Progress, Written
  <2>4. Own' /\ Alone' /\ NoForeign'
    BY <1>1, <1>4, <2>1 DEF Own, Alone, NoForeign, server
  <2>5. QED
    BY <2>2, <2>3, <2>4 DEF IInv
<1>5. QED
  BY <1>2, <1>3, <1>4 DEF TryCommit

\* Refused twice, the commit has published nothing, and says so.
LEMMA RetryCommitStep ==
  ASSUME IInv, RetryCommit
  PROVE  IInv'
<1>1. /\ TypeOK /\ Progress /\ Written /\ Own /\ Alone /\ NoForeign
      /\ pc = "recommit" /\ staged = Files /\ remaining \subseteq Files
      /\ UNCHANGED <<options, index, created, staged, meddled>>
  BY DEF IInv, RetryCommit, Progress, TypeOK
<1>2. CASE Committing(remaining) /\ UNCHANGED report
  <2>1. report' \in [committed : SUBSET Files, skipped : SUBSET Files]
    BY <1>1, <1>2 DEF TypeOK
  <2>2. report'.committed = remaining /\ report'.skipped = Files \ remaining
    BY <1>1, <1>2 DEF Written
  <2>3. QED
    BY <1>1, <1>2, <2>1, <2>2, CommittingStep
<1>3. CASE /\ Unchanged(remaining) # {}
           /\ report' = [committed |-> {}, skipped |-> staged]
           /\ End("returned")
           /\ UNCHANGED <<server, published, unlucky, remaining, todo>>
  <2>1. pc' = "done" /\ result' = "returned"
    BY <1>3 DEF End
  <2>2. /\ report'.committed = {} /\ report'.skipped = Files
        /\ report' \in [committed : SUBSET Files, skipped : SUBSET Files]
    BY <1>1, <1>3
  <2>3. TypeOK'
    BY <1>1, <1>3, <2>1, <2>2 DEF TypeOK, server
  <2>4. Progress' /\ Written'
    BY <1>1, <1>3, <2>1, <2>2 DEF Progress, Written, Reported
  <2>5. meddled # 0
    BY <1>1, <1>3 DEF Alone, Unchanged
  <2>6. Own' /\ Alone' /\ NoForeign'
    BY <1>1, <1>3, <2>1, <2>5 DEF Own, Alone, NoForeign, server
  <2>7. QED
    BY <2>3, <2>4, <2>6 DEF IInv
<1>4. CASE Raise("raised") /\ UNCHANGED <<server, published, unlucky, remaining, report>>
  <2>1. /\ result' = "raised"
        /\ \/ pc' = "cleanup" /\ todo' = staged \cup created
           \/ pc' = "done" /\ todo' = todo /\ "cleanup" \notin options
    BY <1>1, <1>4, Raising
  <2>2. TypeOK'
    BY <1>1, <1>4, <2>1 DEF TypeOK, server
  <2>3. Progress' /\ Written'
    BY <1>1, <2>1 DEF Progress, Written
  <2>4. Own' /\ Alone' /\ NoForeign'
    BY <1>1, <1>4, <2>1 DEF Own, Alone, NoForeign, server
  <2>5. QED
    BY <2>2, <2>3, <2>4 DEF IInv
<1>5. QED
  BY <1>2, <1>3, <1>4 DEF RetryCommit

LEMMA ReadHeadStep ==
  ASSUME IInv, ReadHead
  PROVE  IInv'
<1>1. /\ TypeOK /\ Progress /\ Written /\ Own /\ Alone /\ NoForeign
      /\ pc = "head" /\ pc' = "done" /\ result' = "returned"
      /\ UNCHANGED <<server, index, created, staged, todo, remaining, report, options, hist>>
  BY DEF IInv, ReadHead, End
<1>2. TypeOK'
  BY <1>1 DEF TypeOK, server, hist
<1>3. Progress' /\ Written'
  BY <1>1 DEF Progress, Written, Reported, server, hist
<1>4. Own' /\ Alone' /\ NoForeign'
  BY <1>1 DEF Own, Alone, NoForeign, server, hist
<1>5. QED
  BY <1>2, <1>3, <1>4 DEF IInv

\* A draft that is discarded is one fewer of this call's.
LEMMA DiscardStep ==
  ASSUME IInv, Discard
  PROVE  IInv'
<1>1. /\ TypeOK /\ Progress /\ Written /\ Own /\ Alone /\ NoForeign
      /\ pc = "cleanup"
      /\ UNCHANGED <<library, moved, pc, index, created, staged, remaining, result, report,
                     options, published, meddled>>
  BY DEF IInv, Discard
<1>2. PICK x \in todo :
        /\ todo' = todo \ {x}
        /\ \/ Unlucky("undiscarded") /\ UNCHANGED <<draft, dirs>>
           \/ /\ UNCHANGED unlucky
              /\ draft' = [p \in Files |-> IF p = x THEN "none" ELSE draft[p]]
              /\ dirs' = [d \in Directories |->
                            IF d = x /\ dirs[d] = "drafted" THEN "missing" ELSE dirs[d]]
  BY DEF Discard
<1>3. TypeOK'
  <2>1. draft' \in [Files -> Texts] /\ dirs' \in [Directories -> {"missing", "drafted", "present"}]
    BY <1>1, <1>2 DEF TypeOK
  <2>2. unlucky' \in BOOLEAN
    BY <1>1, <1>2 DEF TypeOK, Unlucky
  <2>3. QED
    BY <1>1, <1>2, <2>1, <2>2 DEF TypeOK
<1>4. Progress' /\ Written'
  BY <1>1 DEF Progress, Written, Reported
<1>5. Own'
  BY <1>1, <1>2 DEF Own, Unlucky
<1>6. Alone'
  BY <1>1 DEF Alone, Progress
<1>7. NoForeign'
  BY <1>1, <1>2 DEF NoForeign
<1>8. QED
  BY <1>3, <1>4, <1>5, <1>6, <1>7 DEF IInv

\* Another session takes nothing away from what is promised of failures: it
\* writes no draft of this call.
LEMMA MeddleStep ==
  ASSUME IInv, NEW p \in Files, Meddle(p), pc # "done"
  PROVE  IInv'
<1>1. /\ TypeOK /\ Progress /\ Written /\ Own /\ Alone /\ NoForeign
      /\ UNCHANGED <<dirs, options, pc, index, created, staged, todo, remaining, result, report,
                     published, unlucky>>
      /\ meddled' = meddled + 1 /\ meddled' \in 0 .. MaxOthers /\ meddled' # 0
  BY OthersBounded DEF IInv, Meddle, call, TypeOK
<1>2. /\ library' \in [Files -> {"absent", "old", "mine", "theirs"}]
      /\ draft' \in [Files -> Texts] /\ moved' \subseteq Files
      /\ \A q \in Files : draft'[q] = "mine" => draft[q] = "mine"
  BY <1>1 DEF Meddle, TypeOK
<1>3. TypeOK'
  BY <1>1, <1>2 DEF TypeOK
<1>4. Progress' /\ Written'
  BY <1>1 DEF Progress, Written, Reported
<1>5. Own'
  BY <1>1, <1>2 DEF Own
<1>6. Alone' /\ NoForeign'
  BY <1>1 DEF Alone, NoForeign
<1>7. QED
  BY <1>3, <1>4, <1>5, <1>6 DEF IInv

LEMMA NextIInv == IInv /\ [Next]_vars => IInv'
<1> SUFFICES ASSUME IInv, [Next]_vars PROVE IInv'
  OBVIOUS
<1>1. CASE UNCHANGED vars
  BY <1>1 DEF vars, IInv, TypeOK, Progress, Written, Reported, Own, Alone, NoForeign
<1>2. CASE Step
  BY <1>2, RefusedStep, GoingOn, MakeDirectoryStep, StageStep, DryRunStep, TryCommitStep,
     RetryCommitStep, ReadHeadStep, DiscardStep DEF Step
<1>3. CASE pc # "done" /\ \E p \in Files : Meddle(p)
  BY <1>3, MeddleStep
<1>4. QED
  BY <1>1, <1>2, <1>3 DEF Next, Finished

LEMMA Inductive == Spec => []IInv
  BY InitIInv, NextIInv, PTL DEF Spec

-----------------------------------------------------------------------------
\* The variables of publish() and of Forward keep their types.
THEOREM PublishTypes == Spec => []TypeOK
<1>1. IInv => TypeOK
  BY DEF IInv
<1>2. QED
  BY <1>1, Inductive, PTL

\* A publish() that returns, left alone, has everything in the library.
THEOREM PublishIsTotal == Spec => []SuccessIsTotal
<1>1. IInv => SuccessIsTotal
  BY DEF IInv, Alone, SuccessIsTotal
<1>2. QED
  BY <1>1, Inductive, PTL

\* The report is true, whatever other sessions do.
THEOREM PublishReport == Spec => []ReportIsTrue
<1>1. IInv => ReportIsTrue
  BY DEF IInv, Written, Reported, ReportIsTrue
<1>2. QED
  BY <1>1, Inductive, PTL

\* A publish() that fails cleans up behind it, and one that ends in errors has
\* published nothing.
THEOREM PublishFailsCleanly == Spec => []FailureIsClean
<1>1. IInv => FailureIsClean
  BY DEF IInv, Own, Written, FailureIsClean
<1>2. QED
  BY <1>1, Inductive, PTL

\* No step touches a draft that was there before.
THEOREM PublishSparesForeign == Spec => ForeignDraftsSurvive
<1> DEFINE Spared ==
      meddled' = 0 /\ "overwrite" \notin options =>
        \A p \in Files : draft[p] = "theirs" => draft'[p] = "theirs"
<1>1. ASSUME IInv, [Next]_vars PROVE [Spared]_vars
  <2> SUFFICES ASSUME Next, meddled' = 0, "overwrite" \notin options, NEW p \in Files,
                      draft[p] = "theirs"
               PROVE  draft'[p] = "theirs"
    BY <1>1
  <2>1. meddled \in Nat
    BY <1>1 DEF IInv, TypeOK
  <2>2. ~ \E q \in Files : Meddle(q)
    BY <2>1 DEF Meddle
  <2>3. CASE meddled # 0
    BY <2>2, <2>3 DEF Next, Step, Finished, vars, Refused, ReadIndex, CheckDrafts, Plan, MakeDirectory,
       DirectoriesMade, Stage, AllStaged, TryDryRun, RetryDryRun, TryCommit, RetryCommit, Committing,
       Commit, ReadHead, Discard, Discarded, server, hist
  <2>4. CASE meddled = 0
    <3>1. pc \in {"index", "drafts", "done"}
      BY <1>1, <2>4 DEF IInv, NoForeign
    <3>2. UNCHANGED draft
      BY <2>2, <3>1 DEF Next, Step, Finished, vars, Refused, ReadIndex, CheckDrafts, Plan, MakeDirectory,
         DirectoriesMade, Stage, AllStaged, TryDryRun, RetryDryRun, TryCommit, RetryCommit,
         ReadHead, Discard, Discarded, server, hist
    <3>3. QED
      BY <3>2
  <2>5. QED
    BY <2>3, <2>4
<1>2. QED
  BY <1>1, Inductive, PTL DEF Spec, ForeignDraftsSurvive
=============================================================================
