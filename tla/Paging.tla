------------------------------- MODULE Paging -------------------------------
(***************************************************************************)
(* Reading every row of an execution page by page: PageTracker              *)
(* (nqe/pagination.py) driven by AsyncNqeExecution.rows() and               *)
(* AsyncNqeService.diff() (_async/services/nqe.py).                         *)
(*                                                                         *)
(* The result has Size rows, named by their positions.  An honest server    *)
(* answers with the rows asked for; faults says how it may stray: "capped"  *)
(* pages shorter than asked for, "stalled" on the first page whatever the   *)
(* offset, or "stops" with an empty page.                                   *)
(*                                                                         *)
(* Data abstracted: a row is its position and its fingerprint; the time of  *)
(* the deadline is the step Expire.                                         *)
(***************************************************************************)
EXTENDS Integers, Sequences

CONSTANTS
  PageSize,     \* page_size
  MaxPages,     \* PageGuards.max_pages
  MaxRows,      \* PageGuards.max_rows
  RepeatLimit,  \* PageGuards.repeat_limit
  Deadline,     \* TRUE when PageGuards.deadline is set
  Size,         \* rows of the result
  Totals,       \* whether answers carry the total: a subset of BOOLEAN
  Faults        \* how servers may stray

ASSUME PagingAssumption ==
  /\ PageSize \in Nat \ {0}
  /\ MaxPages \in Nat \ {0}
  /\ MaxRows \in Nat \ {0}
  /\ RepeatLimit \in Nat
  /\ Deadline \in BOOLEAN
  /\ Size \in Nat
  /\ Totals \subseteq BOOLEAN
  /\ Faults \subseteq {"capped", "stalled", "stops"}

VARIABLES
  faults,     \* how this server strays (external)
  distinct,   \* FALSE for a query that selects a constant: all rows alike
  pc,         \* "asking", "received" or "ended"
  page,       \* the page received and not observed
  reported,   \* the total that came with it
  rows,       \* _rows, which is also the offset asked for
  pages,      \* _pages
  total,      \* _total
  signature,  \* _last_signature
  repeats,    \* _repeats
  late,       \* whether the deadline has passed
  outcome,    \* how the iteration ended
  fetched,    \* pages fetched, as the counter nqe_pages has it
  delivered   \* the rows yielded to the caller; nqe_rows is their number

vars == <<faults, distinct, pc, page, reported, rows, pages, total, signature, repeats, late,
          outcome, fetched, delivered>>

server == <<faults, distinct>>
tracker == <<rows, pages, total, signature, repeats>>

-----------------------------------------------------------------------------
(* The server (external). *)

Slice(offset, n) ==
  [i \in 1 .. (IF offset + n < Size THEN n ELSE Size - offset) |-> offset + i]

Answers(offset) ==
  {Slice(offset, PageSize)}
    \cup (IF "capped" \in faults THEN {Slice(offset, n) : n \in 1 .. PageSize} ELSE {})
    \cup (IF "stalled" \in faults THEN {Slice(0, PageSize)} ELSE {})
    \cup (IF "stops" \in faults THEN {<<>>} ELSE {})

NoTotal == -1

-----------------------------------------------------------------------------
(* What the tracker makes of a page. *)

\* A page without a total leaves the one reported before.
NewTotal == IF reported = NoTotal THEN total ELSE reported

Fingerprint(row) == IF distinct THEN row ELSE 0

Signature(p) == <<Fingerprint(p[1]), Fingerprint(p[Len(p)])>>

NoSignature == <<>>

\* Only a full page whose ends differ says anything about the offset.
Comparable(p) == Len(p) >= PageSize /\ Fingerprint(p[1]) # Fingerprint(p[Len(p)])

Again(p) == Comparable(p) /\ Signature(p) = signature

\* Mutant of Stalled: one repetition more.
StalledLater(p) == Again(p) /\ repeats >= RepeatLimit

Stalled(p) == Again(p) /\ repeats + 1 >= RepeatLimit

TrackRepeats(p) ==
  /\ signature' = IF Comparable(p) THEN Signature(p) ELSE NoSignature
  /\ repeats' = IF Again(p) THEN repeats + 1 ELSE 0

\* Mutant of AtEnd: a short page ends the result, whatever the total.
AtEndWhenShort(read, p, all) == Len(p) < PageSize

\* Without a total, a short page is the only sign of the end.
AtEnd(read, p, all) == IF all = NoTotal THEN Len(p) < PageSize ELSE read >= all

\* Mutant of Verdict: one page more.
VerdictOnePageLate(read, turns, p, all) ==
  IF AtEnd(read, p, all) THEN "done"
  ELSE IF read >= MaxRows THEN "too many rows"
  ELSE IF turns > MaxPages THEN "too many pages"
  ELSE "none"

Verdict(read, turns, p, all) ==
  IF AtEnd(read, p, all) THEN "done"
  ELSE IF read >= MaxRows THEN "too many rows"
  ELSE IF turns >= MaxPages THEN "too many pages"
  ELSE "none"

-----------------------------------------------------------------------------
Init ==
  /\ faults \in SUBSET Faults
  /\ distinct \in BOOLEAN
  /\ pc = "asking"
  /\ page = <<>>
  /\ reported = NoTotal
  /\ rows = 0
  /\ pages = 0
  /\ total = NoTotal
  /\ signature = NoSignature
  /\ repeats = 0
  /\ late = FALSE
  /\ outcome = "none"
  /\ fetched = 0
  /\ delivered = <<>>

End(result) == pc' = "ended" /\ outcome' = result

\* Mutant of Offset: the pages times their size.
OffsetByPages == pages * PageSize

\* PageTracker.offset
Offset == rows

\* A page arrives, is counted, and its rows are yielded before it is judged.
Receive ==
  /\ pc = "asking"
  /\ \E p \in Answers(Offset), c \in Totals :
       /\ page' = p
       /\ reported' = IF c THEN Size ELSE NoTotal
       /\ delivered' = delivered \o p
  /\ fetched' = fetched + 1
  /\ pc' = "received"
  /\ UNCHANGED <<server, tracker, late, outcome>>

\* The transport raises, or the caller stops iterating.
Fail ==
  /\ pc = "asking"
  /\ End("failed")
  /\ UNCHANGED <<server, page, reported, tracker, late, fetched, delivered>>

Abandon ==
  /\ pc = "received"
  /\ End("abandoned")
  /\ UNCHANGED <<server, page, reported, tracker, late, fetched, delivered>>

\* observe() after the deadline.
ObserveLate ==
  /\ pc = "received"
  /\ late
  /\ End("late")
  /\ UNCHANGED <<server, page, reported, tracker, late, fetched, delivered>>

\* observe() of an empty page: the end, unless more rows were promised.
ObserveEmpty ==
  /\ pc = "received"
  /\ ~late
  /\ page = <<>>
  /\ pages' = pages + 1
  /\ total' = NewTotal
  /\ End(IF total' # NoTotal /\ rows < total' THEN "ended early" ELSE "done")
  /\ UNCHANGED <<server, page, reported, rows, signature, repeats, late, fetched, delivered>>

\* observe() of one repetition too many.
ObserveStalled ==
  /\ pc = "received"
  /\ ~late
  /\ page # <<>>
  /\ Stalled(page)
  /\ pages' = pages + 1
  /\ total' = NewTotal
  /\ TrackRepeats(page)
  /\ End("stalled")
  /\ UNCHANGED <<server, page, reported, rows, late, fetched, delivered>>

\* observe() of a page that is counted and decides whether to go on.
ObserveRows ==
  /\ pc = "received"
  /\ ~late
  /\ page # <<>>
  /\ ~Stalled(page)
  /\ pages' = pages + 1
  /\ total' = NewTotal
  /\ TrackRepeats(page)
  /\ rows' = rows + Len(page)
  /\ outcome' = Verdict(rows', pages', page, total')
  /\ pc' = IF outcome' = "none" THEN "asking" ELSE "ended"
  /\ UNCHANGED <<server, page, reported, late, fetched, delivered>>

\* The deadline passes, at any moment.
Expire ==
  /\ Deadline
  /\ pc # "ended"
  /\ ~late
  /\ late' = TRUE
  /\ UNCHANGED <<server, pc, page, reported, tracker, outcome, fetched, delivered>>

Ended == pc = "ended" /\ UNCHANGED vars

Next ==
  \/ Receive \/ Fail \/ Abandon
  \/ ObserveLate \/ ObserveEmpty \/ ObserveStalled \/ ObserveRows
  \/ Expire \/ Ended

Spec == Init /\ [][Next]_vars

-----------------------------------------------------------------------------
(* Properties. *)

Results == {"failed", "abandoned", "late", "ended early", "done", "stalled",
            "too many rows", "too many pages"}

ServerType == faults \subseteq Faults /\ distinct \in BOOLEAN

\* Every variable holds a value of its type.
TypeOK ==
  /\ ServerType
  /\ pc \in {"asking", "received", "ended"}
  /\ page \in Seq(Nat)
  /\ reported \in {NoTotal, Size}
  /\ rows \in Nat
  /\ pages \in Nat
  /\ total \in {NoTotal, Size}
  /\ signature \in {NoSignature} \cup (Nat \X Nat)
  /\ repeats \in Nat
  /\ late \in BOOLEAN
  /\ outcome \in Results \cup {"none"}
  /\ fetched \in Nat
  /\ delivered \in Seq(Nat)

\* Whatever the server does, the guards bound the work and the memory: no
\* request beyond max_pages, and less than one page beyond max_rows.
WorkIsBounded ==
  /\ fetched <= MaxPages
  /\ Len(delivered) < MaxRows + PageSize

\* A server that honours the offset has each of its rows delivered once and in
\* order, however it cuts its pages: the offset is the rows read, not the
\* pages times their size.
InOrder ==
  "stalled" \notin faults => \A i \in 1 .. Len(delivered) : delivered[i] = i

\* A server that ignored the offset has sent a row twice.
SentTwice ==
  "stalled" \in faults /\ \E i, j \in 1 .. Len(delivered) : i < j /\ delivered[i] = delivered[j]

\* An iteration that ends normally has delivered the rows of the result, every
\* one, once and in order, provided the server said how many they are or cuts
\* its pages only at the end: "returning silently would hand back a truncated
\* result set that looks complete" (observe).  The one exception is a server
\* that ignored the offset less often in a row than repeat_limit tolerates:
\* then there are as many rows as it said, some twice and others missing.
NotTruncated ==
  outcome = "done" /\ (total # NoTotal \/ faults \cap {"capped", "stops"} = {})
    => \/ delivered = [i \in 1 .. Size |-> i]
       \/ SentTwice /\ Len(delivered) >= Size

\* A server that sends one full page again and again is stopped after
\* repeat_limit repetitions, when its pages tell themselves apart and only the
\* end of the result cuts one; and a server that honours the offset is never
\* accused of it, not even when every row of the query is the same
\* (_track_repeats).
StallsAreTold ==
  LET start == Len(delivered) - (RepeatLimit + 1) * PageSize
      judged == distinct /\ "capped" \notin faults /\ PageSize > 1 /\ RepeatLimit > 0
  IN /\ outcome = "stalled" => "stalled" \in faults
     /\ pc = "asking" /\ judged /\ start >= 0
          => \E i \in 1 .. RepeatLimit * PageSize :
               delivered[start + i] # delivered[start + i + PageSize]
=============================================================================
