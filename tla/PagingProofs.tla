---------------------------- MODULE PagingProofs ----------------------------
(***************************************************************************)
(* Theorems about Paging, for every page size, limit, result and server.    *)
(***************************************************************************)
EXTENDS Paging, SequenceTheorems, TLAPS

\* What the tracker, server's numbers say of the work done, at each place of the loop.
Progress ==
  /\ pc # "ended" => outcome = "none"
  /\ pc = "asking" =>
       /\ fetched = pages
       /\ Len(delivered) = rows
       /\ pages < MaxPages
       /\ rows < MaxRows
  /\ pc = "received" =>
       /\ fetched = pages + 1
       /\ Len(delivered) = rows + Len(page)
       /\ Len(page) <= PageSize
       /\ pages < MaxPages
       /\ rows < MaxRows
  /\ pc = "ended" => WorkIsBounded

IInv == TypeOK /\ Progress

\* A slice holds consecutive rows, and is short only at the end of the result.
LEMMA SliceShape ==
  ASSUME NEW o \in Nat, NEW n \in Nat
  PROVE  LET p == Slice(o, n)
         IN /\ p \in Seq(Nat)
            /\ Len(p) <= n
            /\ \A i \in 1 .. Len(p) : p[i] = o + i
            /\ Len(p) < n => o + Len(p) >= Size
            /\ Len(p) > 0 => o + Len(p) <= Size
<1> DEFINE upto == IF o + n < Size THEN n ELSE Size - o
<1>1. upto \in Int /\ upto <= n /\ (upto < n => o + upto >= Size) /\ o + upto <= Size
  BY PagingAssumption
<1>2. CASE upto \in Nat
  <2>1. Slice(o, n) = [i \in 1 .. upto |-> o + i]
    BY DEF Slice
  <2>2. \A i \in 1 .. upto : o + i \in Nat
    OBVIOUS
  <2>3. Slice(o, n) \in Seq(Nat) /\ Len(Slice(o, n)) = upto
    BY <2>1, <2>2, <1>2
  <2> QED
    BY <2>1, <2>3, <1>1
<1>3. CASE upto < 0
  <2>1. 1 .. upto = 1 .. 0
    BY <1>1, <1>3
  <2>2. Slice(o, n) = [i \in 1 .. 0 |-> o + i]
    BY <2>1 DEF Slice
  <2>3. Slice(o, n) \in Seq(Nat) /\ Len(Slice(o, n)) = 0
    BY <2>2
  <2>4. o >= Size
    BY <1>1, <1>3, PagingAssumption
  <2> QED
    BY <2>3, <2>4
<1> QED
  BY <1>1, <1>2, <1>3

\* What an answer is: nothing, or a slice no longer than a page.
LEMMA AnswerShape ==
  ASSUME NEW offset \in Nat, NEW p \in Answers(offset)
  PROVE  \/ p = <<>> /\ "stops" \in faults
         \/ \E o \in Nat, n \in Nat :
              /\ p = Slice(o, n)
              /\ n <= PageSize
              /\ o = offset \/ ("stalled" \in faults /\ o = 0)
              /\ "capped" \notin faults => n = PageSize
              /\ o <= offset
<1> USE PagingAssumption
<1>1. CASE "stops" \in faults /\ p = <<>>
  BY <1>1
<1>2. CASE p = Slice(offset, PageSize)
  BY <1>2
<1>3. CASE "capped" \in faults /\ \E n \in 1 .. PageSize : p = Slice(offset, n)
  <2>1. PICK n \in 1 .. PageSize : p = Slice(offset, n)
    BY <1>3
  <2>2. n \in Nat /\ n <= PageSize
    OBVIOUS
  <2> QED
    BY <1>3, <2>1, <2>2
<1>4. CASE "stalled" \in faults /\ p = Slice(0, PageSize)
  BY <1>4
<1> QED
  BY <1>1, <1>2, <1>3, <1>4 DEF Answers

LEMMA AnswerIsAPage ==
  ASSUME NEW offset \in Nat, NEW p \in Answers(offset)
  PROVE  p \in Seq(Nat) /\ Len(p) <= PageSize
<1>1. CASE p = <<>>
  BY <1>1, PagingAssumption
<1>2. CASE p # <<>>
  <2>1. PICK o \in Nat, n \in Nat : p = Slice(o, n) /\ n <= PageSize
    BY <1>2, AnswerShape
  <2>2. p \in Seq(Nat) /\ Len(p) <= n
    BY <2>1, SliceShape
  <2> QED
    BY <2>1, <2>2, PagingAssumption
<1> QED
  BY <1>1, <1>2

LEMMA InitIInv == Init => IInv
<1> SUFFICES ASSUME Init PROVE IInv
  OBVIOUS
<1>1. page \in Seq(Nat) /\ delivered \in Seq(Nat) /\ Len(delivered) = 0
  BY DEF Init
<1>2. TypeOK
  BY <1>1 DEF Init, TypeOK, ServerType
<1>3. Progress
  BY <1>1, PagingAssumption DEF Init, Progress
<1> QED
  BY <1>2, <1>3 DEF IInv

\* A comparison of pages leaves the tracker, server's fields in their types.
LEMMA TrackedType ==
  ASSUME TypeOK, page # <<>>, TrackRepeats(page)
  PROVE  signature' \in {NoSignature} \cup (Nat \X Nat) /\ repeats' \in Nat
<1>1. page[1] \in Nat /\ page[Len(page)] \in Nat
  BY DEF TypeOK
<1>2. Signature(page) \in Nat \X Nat
  BY <1>1 DEF Signature, Fingerprint
<1> QED
  BY <1>2 DEF TrackRepeats, TypeOK

\* A server keeps its ways.
LEMMA ServerFixed ==
  ASSUME [Next]_vars
  PROVE  faults' = faults /\ distinct' = distinct
<1> USE DEF server
<1>1. CASE Receive
  BY <1>1 DEF Receive
<1>2. CASE Fail \/ Abandon \/ ObserveLate \/ ObserveEmpty
  BY <1>2 DEF Fail, Abandon, ObserveLate, ObserveEmpty
<1>3. CASE ObserveStalled \/ ObserveRows
  BY <1>3 DEF ObserveStalled, ObserveRows
<1>4. CASE Expire \/ Ended \/ UNCHANGED vars
  BY <1>4 DEF Expire, Ended, vars
<1> QED
  BY <1>1, <1>2, <1>3, <1>4 DEF Next

LEMMA ServerTyped ==
  ASSUME TypeOK, [Next]_vars
  PROVE  ServerType'
<1>1. faults \subseteq Faults /\ distinct \in BOOLEAN
  BY DEF TypeOK, ServerType
<1>2. faults' \subseteq Faults /\ distinct' \in BOOLEAN
  BY <1>1, ServerFixed, Zenon
<1> QED
  BY <1>2, Zenon DEF ServerType

LEMMA NextIInv == IInv /\ [Next]_vars => IInv'
<1> SUFFICES ASSUME IInv, [Next]_vars
             PROVE  IInv'
  OBVIOUS
<1> USE PagingAssumption DEF IInv
<1>0. ServerType'
  BY ServerTyped
<1>1. CASE Receive
  <2>1. PICK p \in Answers(rows) : page' = p /\ delivered' = delivered \o p
    BY <1>1 DEF Receive, Offset
  <2>2. page' \in Seq(Nat) /\ Len(page') <= PageSize
    BY <1>0, <2>1, AnswerIsAPage DEF TypeOK
  <2>3. delivered' \in Seq(Nat) /\ Len(delivered') = Len(delivered) + Len(page')
    BY <1>0, <2>1, <2>2 DEF TypeOK
  <2>4. TypeOK'
    <3>1. reported' \in {NoTotal, Size}
      BY <1>1 DEF Receive, Offset
    <3> QED
      BY <1>0, <1>1, <2>2, <2>3, <3>1 DEF Receive, Offset, TypeOK, tracker, server
  <2>5. Progress'
    BY <1>0, <1>1, <2>2, <2>3 DEF Receive, Offset, Progress, tracker, server, TypeOK
  <2> QED
    BY <2>4, <2>5
<1>2. CASE Fail
  <2>1. TypeOK'
    BY <1>0, <1>2 DEF Fail, End, TypeOK, tracker, server, Results
  <2>2. WorkIsBounded'
    BY <1>0, <1>2 DEF Fail, Progress, TypeOK, tracker, server, WorkIsBounded
  <2> QED
    BY <2>1, <2>2, <1>2 DEF Fail, End, Progress
<1>3. CASE Abandon \/ ObserveLate
  <2>1. TypeOK'
    BY <1>0, <1>3 DEF Abandon, ObserveLate, End, TypeOK, tracker, server, Results
  <2>2. WorkIsBounded'
    BY <1>0, <1>3 DEF Abandon, ObserveLate, Progress, TypeOK, tracker, server, WorkIsBounded
  <2> QED
    BY <2>1, <2>2, <1>3 DEF Abandon, ObserveLate, End, Progress
<1>4. CASE ObserveEmpty
  <2>1. TypeOK'
    <3>1. total' \in {NoTotal, Size}
      BY <1>0, <1>4 DEF ObserveEmpty, NewTotal, TypeOK
    <3>2. outcome' \in Results
      BY <1>4 DEF ObserveEmpty, End, Results
    <3>3. late' \in BOOLEAN
      BY <1>0, <1>4 DEF ObserveEmpty, TypeOK
    <3>4. /\ pc' = "ended" /\ pages' = pages + 1
          /\ UNCHANGED <<page, reported, rows, signature, repeats, fetched, delivered>>
      BY <1>4 DEF ObserveEmpty, End
    <3> QED
      BY <1>0, <3>1, <3>2, <3>3, <3>4 DEF TypeOK
  <2>2. WorkIsBounded'
    <3>1. pc = "received" /\ Len(page) = 0 /\ UNCHANGED <<fetched, delivered>>
      BY <1>4 DEF ObserveEmpty
    <3> QED
      BY <1>0, <3>1 DEF Progress, TypeOK, WorkIsBounded
  <2> QED
    BY <2>1, <2>2, <1>4 DEF ObserveEmpty, End, Progress
<1>5. CASE ObserveStalled
  <2>1. signature' \in {NoSignature} \cup (Nat \X Nat) /\ repeats' \in Nat
    BY <1>5, TrackedType DEF ObserveStalled
  <2>2. TypeOK'
    <3>1. total' \in {NoTotal, Size}
      BY <1>0, <1>5 DEF ObserveStalled, NewTotal, TypeOK
    <3>2. late' \in BOOLEAN
      BY <1>0, <1>5 DEF ObserveStalled, TypeOK
    <3>3. /\ pc' = "ended" /\ outcome' = "stalled" /\ pages' = pages + 1
          /\ UNCHANGED <<page, reported, rows, fetched, delivered>>
      BY <1>5 DEF ObserveStalled, End
    <3>4. outcome' \in Results
      BY <3>3 DEF Results
    <3>5. pages' \in Nat
      BY <1>0, <3>3 DEF TypeOK
    <3> QED
      BY <1>0, <2>1, <3>1, <3>2, <3>3, <3>4, <3>5 DEF TypeOK
  <2>3. WorkIsBounded'
    BY <1>0, <1>5 DEF ObserveStalled, Progress, TypeOK, WorkIsBounded
  <2> QED
    BY <2>2, <2>3, <1>5 DEF ObserveStalled, End, Progress
<1>6. CASE ObserveRows
  <2>1. signature' \in {NoSignature} \cup (Nat \X Nat) /\ repeats' \in Nat
    BY <1>6, TrackedType DEF ObserveRows
  <2>2. outcome' \in {"none", "done", "too many rows", "too many pages"}
    BY <1>6 DEF ObserveRows, Verdict
  <2>3. outcome' = "none" => rows' < MaxRows /\ pages' < MaxPages
    BY <1>0, <1>6 DEF ObserveRows, Verdict, TypeOK
  <2>4. rows' \in Nat /\ rows' = rows + Len(page) /\ pages' = pages + 1
    BY <1>0, <1>6 DEF ObserveRows, TypeOK
  <2>5. TypeOK'
    <3>1. total' \in {NoTotal, Size}
      BY <1>0, <1>6 DEF ObserveRows, NewTotal, TypeOK
    <3>2. late' \in BOOLEAN
      BY <1>0, <1>6 DEF ObserveRows, TypeOK
    <3>3. /\ pc' \in {"asking", "ended"}
          /\ UNCHANGED <<page, reported, fetched, delivered>>
      BY <1>6 DEF ObserveRows
    <3>4. outcome' \in Results \cup {"none"}
      BY <2>2 DEF Results
    <3>5. pages' \in Nat
      BY <1>0, <2>4 DEF TypeOK
    <3> QED
      BY <1>0, <2>1, <2>4, <3>1, <3>2, <3>3, <3>4, <3>5 DEF TypeOK
  <2>6. WorkIsBounded'
    BY <1>0, <1>6 DEF ObserveRows, Progress, TypeOK, WorkIsBounded
  <2>7. Progress'
    BY <1>0, <1>6, <2>3, <2>4, <2>6 DEF ObserveRows, Progress, TypeOK
  <2> QED
    BY <2>5, <2>7
<1>7. CASE Expire
  BY <1>0, <1>7 DEF Expire, TypeOK, Progress, WorkIsBounded, tracker, server
<1>8. CASE Ended \/ UNCHANGED vars
  BY <1>0, <1>8 DEF Ended, vars, TypeOK, Progress, WorkIsBounded
<1> QED
  BY <1>1, <1>2, <1>3, <1>4, <1>5, <1>6, <1>7, <1>8 DEF Next

LEMMA Invariance == Spec => []IInv
  BY InitIInv, NextIInv, PTL DEF Spec

\* Every variable keeps its type.
THEOREM PagingTypes == Spec => []TypeOK
  BY Invariance, PTL DEF IInv

\* Paging never asks for more than max_pages pages nor yields max_rows rows and
\* a page, for every page size, limit, result and server.
THEOREM PagingBounded == Spec => []WorkIsBounded
<1>1. IInv => WorkIsBounded
  BY PagingAssumption DEF IInv, TypeOK, Progress, WorkIsBounded
<1> QED
  BY <1>1, Invariance, PTL

-----------------------------------------------------------------------------
(* What is delivered. *)

\* The page in hand is an answer to the request made.
Answering == pc = "received" => page \in Answers(rows)

\* A normal end comes after as many rows as the result has.
LongEnough ==
  outcome = "done" /\ (total # NoTotal \/ faults \cap {"capped", "stops"} = {})
    => Len(delivered) >= Size

Faithful == Answering /\ InOrder /\ LongEnough

\* The rows of a slice continue the rows that were read before it.
LEMMA SliceContinues ==
  ASSUME NEW n \in Nat, delivered \in Seq(Nat),
         \A i \in 1 .. Len(delivered) : delivered[i] = i,
         NEW p, p = Slice(Len(delivered), n)
  PROVE  \A i \in 1 .. Len(delivered \o p) : (delivered \o p)[i] = i
<1> DEFINE L == Len(delivered)
<1>1. L \in Nat
  OBVIOUS
<1>2. p \in Seq(Nat) /\ \A i \in 1 .. Len(p) : p[i] = L + i
  BY <1>1, SliceShape
<1>3. /\ Len(delivered \o p) = L + Len(p)
      /\ \A i \in 1 .. L + Len(p) :
           (delivered \o p)[i] = IF i <= L THEN delivered[i] ELSE p[i - L]
  BY <1>2, ConcatProperties
<1>4. ASSUME NEW i \in 1 .. L + Len(p)
      PROVE  (delivered \o p)[i] = i
  <2>1. CASE i <= L
    BY <2>1, <1>1, <1>3
  <2>2. CASE i > L
    <3>1. i - L \in 1 .. Len(p)
      BY <2>2, <1>1, <1>2
    <3> QED
      BY <3>1, <2>2, <1>1, <1>2, <1>3
  <2> QED
    BY <2>1, <2>2, <1>1
<1> QED
  BY <1>3, <1>4

\* A server asked for the same offset has the same answers to give.
LEMMA AnswersFixed ==
  ASSUME [Next]_vars, rows' = rows
  PROVE  Answers(rows)' = Answers(rows)
  BY ServerFixed DEF Answers

LEMMA InitFaithful == Init => Faithful
<1> SUFFICES ASSUME Init PROVE Faithful
  OBVIOUS
<1>1. Answering /\ LongEnough
  BY DEF Init, Answering, LongEnough
<1>2. InOrder
  BY DEF Init, InOrder
<1> QED
  BY <1>1, <1>2 DEF Faithful

LEMMA NextFaithful == IInv /\ Faithful /\ [Next]_vars => Faithful'
<1> SUFFICES ASSUME IInv, Faithful, [Next]_vars
             PROVE  Faithful'
  OBVIOUS
<1> USE PagingAssumption
<1>0. faults' = faults /\ distinct' = distinct
  BY ServerFixed
<1>1. CASE Receive
  <2>1. PICK p \in Answers(rows) : page' = p /\ delivered' = delivered \o p
    BY <1>1 DEF Receive, Offset
  <2>2. Answering'
    <3>1. rows' = rows /\ page' \in Answers(rows)
      BY <2>1, <1>1 DEF Receive, tracker
    <3> QED
      BY <3>1, AnswersFixed DEF Answering
  <2>3. LongEnough'
    BY <1>0, <1>1 DEF Receive, Offset, LongEnough, IInv, Progress
  <2>4. rows \in Nat /\ rows = Len(delivered) /\ delivered \in Seq(Nat)
    BY <1>1 DEF Receive, Offset, IInv, TypeOK, Progress
  <2>5. ASSUME "stalled" \notin faults
        PROVE  \A i \in 1 .. Len(delivered \o p) : (delivered \o p)[i] = i
    <3>1. \A i \in 1 .. Len(delivered) : delivered[i] = i
      BY <1>0, <2>5 DEF Faithful, InOrder
    <3>2. CASE p = <<>>
      <4>1. delivered \o p = delivered
        BY <3>2, <2>4, ConcatEmptySeq
      <4> QED
        BY <4>1, <3>1
    <3>3. CASE p # <<>>
      <4>1. PICK n \in Nat : p = Slice(Len(delivered), n)
        BY <3>3, <2>4, <2>5, AnswerShape
      <4> QED
        BY <4>1, <3>1, <2>4, SliceContinues
    <3> QED
      BY <3>2, <3>3
  <2>6. InOrder'
    BY <1>0, <2>1, <2>5 DEF InOrder
  <2> QED
    BY <2>2, <2>3, <2>6 DEF Faithful
<1>2. CASE Fail \/ Abandon \/ ObserveLate
  <2>1. UNCHANGED delivered /\ pc' = "ended" /\ outcome' # "done"
    BY <1>2 DEF Fail, Abandon, ObserveLate, End
  <2> QED
    BY <1>0, <2>1 DEF Faithful, Answering, InOrder, LongEnough
<1>3. CASE ObserveEmpty
  <2>1. /\ UNCHANGED delivered /\ pc' = "ended"
        /\ pc = "received" /\ page = <<>>
        /\ outcome' = "done" => total' = NoTotal \/ ~(rows < total')
        /\ total' = NewTotal
    BY <1>3 DEF ObserveEmpty, End
  <2>2. Len(delivered) = rows /\ rows \in Nat
    BY <2>1 DEF IInv, TypeOK, Progress
  <2>3. total' \in {NoTotal, Size}
    BY <2>1 DEF NewTotal, IInv, TypeOK
  <2>4. ASSUME faults \cap {"capped", "stops"} = {}
        PROVE  rows >= Size
    <3>1. page \in Answers(rows)
      BY <1>0, <2>1 DEF Faithful, Answering
    <3>2. PICK o \in Nat : page = Slice(o, PageSize) /\ o <= rows
      BY <2>2, <2>4, <3>1, AnswerShape
    <3>3. Len(page) = 0
      BY <2>1
    <3>4. PageSize \in Nat /\ PageSize > 0
      OBVIOUS
    <3>5. o + 0 >= Size
      BY <3>2, <3>3, <3>4, SliceShape
    <3> QED
      BY <3>2, <3>5, <2>2
  <2>5. LongEnough'
    BY <1>0, <2>1, <2>2, <2>3, <2>4 DEF LongEnough
  <2> QED
    BY <1>0, <2>1, <2>5 DEF Faithful, Answering, InOrder
<1>4. CASE ObserveStalled
  <2>1. UNCHANGED delivered /\ pc' = "ended" /\ outcome' # "done"
    BY <1>4 DEF ObserveStalled, End
  <2> QED
    BY <1>0, <2>1 DEF Faithful, Answering, InOrder, LongEnough
<1>5. CASE ObserveRows
  <2>1. /\ UNCHANGED delivered /\ pc' # "received"
        /\ pc = "received" /\ page # <<>>
        /\ rows' = rows + Len(page)
        /\ total' = NewTotal
    BY <1>5 DEF ObserveRows
  <2>2. outcome' = "done" => AtEnd(rows', page, total')
    BY <1>5 DEF ObserveRows, Verdict
  <2>3. Len(delivered) = rows' /\ rows \in Nat /\ Len(page) \in Nat
    BY <2>1 DEF IInv, TypeOK, Progress
  <2>4. total' \in {NoTotal, Size}
    BY <2>1 DEF NewTotal, IInv, TypeOK
  <2>5. ASSUME faults \cap {"capped", "stops"} = {}, Len(page) < PageSize
        PROVE  rows' >= Size
    <3>1. page \in Answers(rows)
      BY <1>0, <2>1 DEF Faithful, Answering
    <3>2. PICK o \in Nat : page = Slice(o, PageSize) /\ o <= rows
      BY <2>1, <2>3, <2>5, <3>1, AnswerShape
    <3>3. o + Len(page) >= Size
      BY <3>2, <2>5, SliceShape
    <3> QED
      BY <3>2, <3>3, <2>1, <2>3
  <2>6. LongEnough'
    BY <1>0, <2>1, <2>2, <2>3, <2>4, <2>5 DEF LongEnough, AtEnd
  <2> QED
    BY <1>0, <2>1, <2>6 DEF Faithful, Answering, InOrder
<1>6. CASE Expire
  <2>1. UNCHANGED <<rows, pc, page, delivered, outcome, total>>
    BY <1>6 DEF Expire, tracker
  <2> QED
    BY <1>0, <2>1, AnswersFixed DEF Faithful, Answering, InOrder, LongEnough
<1>7. CASE Ended \/ UNCHANGED vars
  <2>1. UNCHANGED <<rows, pc, page, delivered, outcome, total>>
    BY <1>7 DEF Ended, vars
  <2> QED
    BY <1>0, <2>1, AnswersFixed DEF Faithful, Answering, InOrder, LongEnough
<1> QED
  BY <1>1, <1>2, <1>3, <1>4, <1>5, <1>6, <1>7 DEF Next

LEMMA FaithfulInvariance == Spec => []Faithful
  BY InitFaithful, NextFaithful, Invariance, PTL DEF Spec

\* Whatever the sizes, a server that honours the offset has its rows delivered
\* once each and in order.
THEOREM PagingInOrder == Spec => []InOrder
  BY FaithfulInvariance, PTL DEF Faithful

\* The rows delivered are the first of the result, until one comes twice.
Accounted ==
  \/ Len(delivered) <= Size /\ \A i \in 1 .. Len(delivered) : delivered[i] = i
  \/ SentTwice

\* The rows delivered before stay where they are, and the page's follow them.
LEMMA Appended ==
  ASSUME NEW d \in Seq(Nat), NEW p \in Seq(Nat)
  PROVE  /\ Len(d \o p) = Len(d) + Len(p)
         /\ \A i \in 1 .. Len(d) : (d \o p)[i] = d[i]
         /\ Len(p) > 0 => (d \o p)[Len(d) + 1] = p[1]
<1>1. Len(d) \in Nat /\ Len(p) \in Nat
  OBVIOUS
<1>2. \A i \in 1 .. Len(d) + Len(p) : (d \o p)[i] = IF i <= Len(d) THEN d[i] ELSE p[i - Len(d)]
  BY ConcatProperties
<1>3. ASSUME Len(p) > 0 PROVE (d \o p)[Len(d) + 1] = p[1]
  <2>1. Len(d) + 1 \in 1 .. Len(d) + Len(p) /\ ~(Len(d) + 1 <= Len(d)) /\ (Len(d) + 1) - Len(d) = 1
    BY <1>1, <1>3
  <2> QED
    BY <1>2, <2>1
<1>4. \A i \in 1 .. Len(d) : i \in 1 .. Len(d) + Len(p) /\ i <= Len(d)
  BY <1>1
<1> QED
  BY <1>2, <1>3, <1>4, ConcatProperties

\* A page either continues the rows read, or sends the first of them again.
LEMMA AccountedReceive ==
  ASSUME IInv, Accounted, Receive, faults' = faults
  PROVE  Accounted'
<1> USE PagingAssumption
<1>1. PICK p \in Answers(rows) : delivered' = delivered \o p
  BY DEF Receive, Offset
<1>2. rows \in Nat /\ rows = Len(delivered) /\ delivered \in Seq(Nat)
  BY DEF Receive, IInv, TypeOK, Progress
<1>3. p \in Seq(Nat) /\ Len(p) \in Nat
  BY <1>2, AnswerIsAPage
<1>4. /\ Len(delivered') = rows + Len(p)
      /\ \A i \in 1 .. rows : delivered'[i] = delivered[i]
      /\ Len(p) > 0 => delivered'[rows + 1] = p[1]
  BY <1>1, <1>2, <1>3, Appended
<1>5. CASE SentTwice
  <2>1. PICK i, j \in 1 .. rows : i < j /\ delivered[i] = delivered[j]
    BY <1>2, <1>5 DEF SentTwice
  <2>2. i \in 1 .. Len(delivered') /\ j \in 1 .. Len(delivered')
    BY <1>2, <1>3, <1>4
  <2> QED
    BY <1>4, <1>5, <2>1, <2>2 DEF Accounted, SentTwice
<1>6. CASE Len(p) = 0
  <2>1. delivered' = delivered
    BY <1>1, <1>2, <1>3, <1>6, EmptySeq, ConcatEmptySeq
  <2> QED
    BY <2>1 DEF Accounted, SentTwice
<1>7. CASE ~SentTwice /\ Len(p) > 0
  <2>1. rows <= Size /\ \A i \in 1 .. rows : delivered[i] = i
    BY <1>2, <1>7 DEF Accounted
  <2>2. p # <<>>
    BY <1>7
  <2>3. PICK o \in Nat : \E n \in Nat : p = Slice(o, n) /\ (o = rows \/ ("stalled" \in faults /\ o = 0))
    BY <1>2, <2>2, AnswerShape
  <2>4. PICK n \in Nat : p = Slice(o, n)
    BY <2>3
  <2>5. o + Len(p) <= Size /\ \A i \in 1 .. Len(p) : p[i] = o + i
    BY <1>7, <2>4, SliceShape
  <2>6. CASE o = rows
    <3>1. \A i \in 1 .. Len(delivered') : delivered'[i] = i
      BY <1>1, <1>2, <2>1, <2>4, <2>6, SliceContinues
    <3> QED
      BY <1>4, <2>5, <2>6, <3>1 DEF Accounted
  <2>7. CASE o # rows
    <3>1. "stalled" \in faults /\ o = 0 /\ rows > 0
      BY <1>2, <2>3, <2>7
    <3>2. p[1] = 1
      BY <1>3, <1>7, <2>5, <3>1
    <3>3. delivered'[1] = 1 /\ delivered'[rows + 1] = 1
      BY <1>2, <1>4, <1>7, <2>1, <3>1, <3>2
    <3>4. 1 \in 1 .. Len(delivered') /\ rows + 1 \in 1 .. Len(delivered') /\ 1 < rows + 1
      BY <1>2, <1>3, <1>4, <1>7, <3>1
    <3> QED
      BY <3>1, <3>3, <3>4 DEF Accounted, SentTwice
  <2> QED
    BY <2>6, <2>7
<1> QED
  BY <1>3, <1>5, <1>6, <1>7

LEMMA NextAccounted == IInv /\ Accounted /\ [Next]_vars => Accounted'
<1> SUFFICES ASSUME IInv, Accounted, [Next]_vars PROVE Accounted'
  OBVIOUS
<1>1. faults' = faults
  BY ServerFixed
<1>2. CASE Receive
  BY <1>1, <1>2, AccountedReceive
<1>3. CASE delivered' = delivered
  BY <1>1, <1>3 DEF Accounted, SentTwice
<1>4. Receive \/ delivered' = delivered
  BY DEF Next, Fail, Abandon, ObserveLate, ObserveEmpty, ObserveStalled, ObserveRows, Expire, Ended, vars
<1> QED
  BY <1>2, <1>3, <1>4

LEMMA InitAccounted == Init => Accounted
  BY PagingAssumption DEF Init, Accounted

\* Whatever the sizes and the server, an iteration that ends normally has
\* delivered the rows of the result, or its server sent some of them again.
THEOREM PagingNotTruncated == Spec => []NotTruncated
<1>1. IInv /\ LongEnough /\ Accounted => NotTruncated
  <2> SUFFICES ASSUME IInv, LongEnough, Accounted, ~SentTwice, Len(delivered) >= Size
               PROVE  delivered = [i \in 1 .. Size |-> i]
    BY DEF NotTruncated, LongEnough, Accounted
  <2>1. delivered \in Seq(Nat) /\ Len(delivered) \in Nat /\ Size \in Nat
    BY PagingAssumption DEF IInv, TypeOK
  <2>2. Len(delivered) = Size /\ \A i \in 1 .. Len(delivered) : delivered[i] = i
    BY <2>1 DEF Accounted
  <2>3. delivered = [i \in 1 .. Len(delivered) |-> delivered[i]]
    BY <2>1
  <2> QED
    BY <2>2, <2>3
<1>2. Faithful => LongEnough
  BY DEF Faithful
<1> QED
  BY <1>1, <1>2, FaithfulInvariance, InitAccounted, NextAccounted, Invariance, PTL DEF Spec

-----------------------------------------------------------------------------
(* Stalls.  The tracker has the ends of the last page and how often in a row *)
(* it has come again: that this tells a stall, and nothing else, is what     *)
(* relates them to the rows that were delivered.                             *)

\* A server that honours the offset begins each page after the last one.
Ranked ==
  "stalled" \notin faults =>
    /\ signature # NoSignature => distinct /\ signature[1] <= rows
    /\ outcome # "stalled"

\* Where the tracker is expected to tell a stall.
Judged == distinct /\ "capped" \notin faults /\ PageSize > 1 /\ RepeatLimit > 0

\* Of the first n rows delivered, the last k pages repeat the one before them.
Repeated(n, k) ==
  /\ k * PageSize + PageSize <= n
  /\ \A i \in 1 .. k * PageSize :
       delivered[n - (k * PageSize + PageSize) + i] = delivered[n - k * PageSize + i]

Tracked ==
  pc # "ended" =>
    /\ pc = "received" => \A i \in 1 .. Len(page) : delivered[rows + i] = page[i]
    /\ Judged =>
         /\ rows > 0 => /\ rows >= PageSize
                        /\ signature = <<delivered[rows - PageSize + 1], delivered[rows]>>
         /\ \A k \in Nat \ {0} : Repeated(rows, k) => k <= repeats
         /\ repeats < RepeatLimit

\* The ends of two pages are not the absence of a signature.
LEMMA SignatureIsOne == ASSUME NEW a, NEW b PROVE <<a, b>> # NoSignature /\ <<a, b>>[1] = a
<1>1. Len(<<a, b>>) = 2 /\ Len(<<>>) = 0
  OBVIOUS
<1> QED
  BY <1>1 DEF NoSignature

\* A page asked for honestly begins after the rows read.
LEMMA HonestPage ==
  ASSUME IInv, Answering, pc = "received", page # <<>>, "stalled" \notin faults
  PROVE  page[1] = rows + 1 /\ Len(page) \in Nat \ {0} /\ rows \in Nat
<1>1. rows \in Nat /\ page \in Seq(Nat) /\ page \in Answers(rows)
  BY DEF IInv, TypeOK, Answering
<1>2. PICK n \in Nat : page = Slice(rows, n)
  BY <1>1, AnswerShape
<1>3. \A i \in 1 .. Len(page) : page[i] = rows + i
  BY <1>1, <1>2, SliceShape
<1>4. Len(page) \in Nat \ {0}
  BY <1>1, EmptySeq
<1> QED
  BY <1>1, <1>3, <1>4

LEMMA NextRanked == IInv /\ Answering /\ Ranked /\ [Next]_vars => Ranked'
<1> SUFFICES ASSUME IInv, Answering, Ranked, [Next]_vars, "stalled" \notin faults
             PROVE  /\ signature' # NoSignature => distinct /\ signature'[1] <= rows'
                    /\ outcome' # "stalled"
  BY ServerFixed DEF Ranked
<1>a. (signature # NoSignature => distinct /\ signature[1] <= rows) /\ outcome # "stalled"
  BY DEF Ranked
<1>1. CASE Receive \/ Fail \/ Abandon \/ ObserveLate \/ ObserveEmpty
  BY <1>1, <1>a DEF Receive, Fail, Abandon, ObserveLate, ObserveEmpty, End, tracker
<1>2. CASE ObserveStalled
  <2>1. pc = "received" /\ page # <<>> /\ Comparable(page) /\ Signature(page) = signature
    BY <1>2 DEF ObserveStalled, Stalled, Again
  <2>2. distinct
    BY <2>1 DEF Comparable, Fingerprint
  <2>3. signature # NoSignature /\ signature[1] = page[1]
    BY <2>1, <2>2, SignatureIsOne DEF Signature, Fingerprint
  <2>4. page[1] = rows + 1 /\ rows \in Nat
    BY <2>1, HonestPage
  <2> QED
    BY <1>a, <2>3, <2>4
<1>3. CASE ObserveRows
  <2>1. /\ pc = "received" /\ page # <<>> /\ rows' = rows + Len(page)
        /\ signature' = IF Comparable(page) THEN Signature(page) ELSE NoSignature
        /\ outcome' \in {"done", "too many rows", "too many pages", "none"}
    BY <1>3 DEF ObserveRows, TrackRepeats, Verdict
  <2>2. page[1] = rows + 1 /\ Len(page) \in Nat \ {0} /\ rows \in Nat
    BY <2>1, HonestPage
  <2>3. ASSUME signature' # NoSignature
        PROVE  distinct /\ signature'[1] <= rows'
    <3>1. Comparable(page) /\ signature' = Signature(page)
      BY <2>1, <2>3
    <3>2. distinct
      BY <3>1 DEF Comparable, Fingerprint
    <3>3. signature'[1] = page[1]
      BY <3>1, <3>2, SignatureIsOne DEF Signature, Fingerprint
    <3>4. rows + 1 <= rows + Len(page)
      BY <2>2
    <3> QED
      BY <2>1, <2>2, <3>2, <3>3, <3>4
  <2> QED
    BY <2>1, <2>3
<1>4. CASE Expire \/ Ended \/ UNCHANGED vars
  BY <1>4, <1>a DEF Expire, Ended, vars, tracker
<1> QED
  BY <1>1, <1>2, <1>3, <1>4 DEF Next

\* An iteration that goes on has just read a full page, of different rows.
LEMMA FullPage ==
  ASSUME IInv, Answering, Judged, ObserveRows, outcome' = "none"
  PROVE  Len(page) = PageSize /\ Comparable(page) /\ page \in Seq(Nat)
<1> USE PagingAssumption
<1>1. /\ pc = "received" /\ page # <<>> /\ total' = NewTotal /\ rows' = rows + Len(page)
      /\ ~AtEnd(rows', page, total')
  BY DEF ObserveRows, Verdict
<1>2. rows \in Nat /\ page \in Seq(Nat) /\ page \in Answers(rows) /\ total' \in {NoTotal, Size}
  BY <1>1 DEF IInv, TypeOK, Answering, NewTotal
<1>3. PICK o \in Nat : page = Slice(o, PageSize) /\ o <= rows
  BY <1>1, <1>2, AnswerShape DEF Judged
<1>4. /\ Len(page) <= PageSize /\ \A i \in 1 .. Len(page) : page[i] = o + i
      /\ Len(page) < PageSize => o + Len(page) >= Size
  BY <1>3, SliceShape
<1>5. Len(page) \in Nat
  BY <1>2
<1>6. Len(page) = PageSize
  <2> SUFFICES ASSUME Len(page) < PageSize PROVE FALSE
    BY <1>4, <1>5
  <2>1. total' # NoTotal /\ total' = Size /\ ~(rows' >= total')
    BY <1>1, <1>2 DEF AtEnd
  <2>2. rows + Len(page) >= Size
    BY <1>2, <1>3, <1>4, <1>5
  <2> QED
    BY <1>1, <2>1, <2>2
<1>7. page[1] = o + 1 /\ page[Len(page)] = o + PageSize
  BY <1>4, <1>6
<1> QED
  BY <1>2, <1>6, <1>7 DEF Comparable, Fingerprint, Judged

\* Repetitions of a page before the last are one fewer.
LEMMA OneFewer ==
  ASSUME NEW k \in Nat \ {0}
  PROVE  /\ k * PageSize \in Nat /\ k * PageSize >= PageSize
         /\ k # 1 => k - 1 \in Nat \ {0} /\ (k - 1) * PageSize = k * PageSize - PageSize
         /\ k = 1 => k * PageSize = PageSize
<1> USE PagingAssumption
<1>1. k - 1 \in Nat /\ (k - 1) * PageSize \in Nat
  OBVIOUS
<1>2. k * PageSize = (k - 1) * PageSize + PageSize
  OBVIOUS
<1> QED
  BY <1>1, <1>2

LEMMA TrackedRows ==
  ASSUME IInv, Answering, Tracked, ObserveRows, faults' = faults, distinct' = distinct
  PROVE  Tracked'
<1> USE PagingAssumption
<1>1. /\ pc = "received" /\ ~Stalled(page) /\ TrackRepeats(page)
      /\ rows' = rows + Len(page) /\ delivered' = delivered
      /\ pc' = IF outcome' = "none" THEN "asking" ELSE "ended"
  BY DEF ObserveRows
<1> SUFFICES ASSUME outcome' = "none", Judged
             PROVE  /\ rows' >= PageSize
                    /\ signature' = <<delivered[rows' - PageSize + 1], delivered[rows']>>
                    /\ \A k \in Nat \ {0} : Repeated(rows', k) => k <= repeats'
                    /\ repeats' < RepeatLimit
  BY <1>1 DEF Tracked, Judged, Repeated
<1>2. /\ Len(page) = PageSize /\ Comparable(page) /\ page \in Seq(Nat)
      /\ rows \in Nat /\ repeats \in Nat
  BY FullPage DEF IInv, TypeOK
<1>3. /\ \A i \in 1 .. PageSize : delivered[rows + i] = page[i]
      /\ rows > 0 => /\ rows >= PageSize
                     /\ signature = <<delivered[rows - PageSize + 1], delivered[rows]>>
      /\ \A k \in Nat \ {0} : Repeated(rows, k) => k <= repeats
  BY <1>1, <1>2 DEF Tracked
<1>4. /\ Signature(page) = <<page[1], page[PageSize]>> /\ signature' = Signature(page)
      /\ repeats' = IF Again(page) THEN repeats + 1 ELSE 0
  BY <1>1, <1>2 DEF TrackRepeats, Signature, Fingerprint, Judged
<1>5. page[1] = delivered[rows + 1] /\ page[PageSize] = delivered[rows + PageSize]
  BY <1>3
<1>6. repeats' < RepeatLimit
  BY <1>1, <1>2, <1>4 DEF Stalled, Judged
<1>7. ASSUME NEW k \in Nat \ {0}, Repeated(rows', k)
      PROVE  k <= repeats'
  <2> DEFINE back == k * PageSize
  <2>1. /\ back \in Nat /\ back >= PageSize
        /\ k # 1 => k - 1 \in Nat \ {0} /\ (k - 1) * PageSize = back - PageSize
        /\ k = 1 => back = PageSize
    BY OneFewer
  <2>2. /\ back + PageSize <= rows + PageSize
        /\ \A i \in 1 .. back :
             delivered[rows + PageSize - (back + PageSize) + i] = delivered[rows + PageSize - back + i]
    BY <1>1, <1>2, <1>7 DEF Repeated
  <2> HIDE DEF back
  <2>3. rows >= PageSize /\ signature = <<delivered[rows - PageSize + 1], delivered[rows]>>
    BY <1>2, <1>3, <2>1, <2>2
  <2>4. /\ delivered[rows - PageSize + 1] = delivered[rows + 1]
        /\ delivered[rows] = delivered[rows + PageSize]
    <3>1. back - PageSize + 1 \in 1 .. back /\ back \in 1 .. back
      BY <2>1
    <3>2. /\ rows + PageSize - (back + PageSize) + (back - PageSize + 1) = rows - PageSize + 1
          /\ rows + PageSize - back + (back - PageSize + 1) = rows + 1
          /\ rows + PageSize - (back + PageSize) + back = rows
          /\ rows + PageSize - back + back = rows + PageSize
      BY <1>2, <2>1
    <3>3. delivered[rows + PageSize - (back + PageSize) + (back - PageSize + 1)]
            = delivered[rows + PageSize - back + (back - PageSize + 1)]
      BY <2>2, <3>1
    <3>4. delivered[rows + PageSize - (back + PageSize) + back]
            = delivered[rows + PageSize - back + back]
      BY <2>2, <3>1
    <3> QED
      BY <3>2, <3>3, <3>4
  <2>5. Again(page)
    BY <1>2, <1>4, <1>5, <2>3, <2>4 DEF Again
  <2>6. repeats' = repeats + 1
    BY <1>4, <2>5
  <2>7. CASE k = 1
    BY <1>2, <2>6, <2>7
  <2>8. CASE k # 1
    <3>1. k - 1 \in Nat \ {0} /\ (k - 1) * PageSize = back - PageSize
      BY <2>1, <2>8
    <3>2. \A i \in 1 .. back - PageSize :
            delivered[rows - (back - PageSize + PageSize) + i]
              = delivered[rows - (back - PageSize) + i]
      <4> SUFFICES ASSUME NEW i \in 1 .. back - PageSize
                   PROVE  delivered[rows - (back - PageSize + PageSize) + i]
                            = delivered[rows - (back - PageSize) + i]
        OBVIOUS
      <4>1. i \in 1 .. back
        BY <2>1
      <4>2. /\ rows - (back - PageSize + PageSize) + i = rows + PageSize - (back + PageSize) + i
            /\ rows - (back - PageSize) + i = rows + PageSize - back + i
        BY <1>2, <2>1, <4>1
      <4>3. delivered[rows + PageSize - (back + PageSize) + i] = delivered[rows + PageSize - back + i]
        BY <2>2, <4>1
      <4> QED
        BY <4>2, <4>3
    <3>3. back - PageSize + PageSize <= rows
      BY <1>2, <2>1, <2>2
    <3>4. Repeated(rows, k - 1)
      BY <3>1, <3>2, <3>3 DEF Repeated
    <3>5. k - 1 <= repeats
      BY <1>3, <3>1, <3>4
    <3> QED
      BY <1>2, <2>6, <3>5
  <2> QED
    BY <2>7, <2>8
<1>8. /\ rows' >= PageSize
      /\ signature' = <<delivered[rows' - PageSize + 1], delivered[rows']>>
  <2>1. rows' = rows + PageSize /\ rows' - PageSize + 1 = rows + 1 /\ rows' >= PageSize
    BY <1>1, <1>2
  <2> QED
    BY <1>4, <1>5, <2>1
<1> QED
  BY <1>6, <1>7, <1>8

\* The rows delivered before stay where they are.
LEMMA TrackedReceive ==
  ASSUME IInv, Tracked, Receive, faults' = faults, distinct' = distinct
  PROVE  Tracked'
<1> USE PagingAssumption
<1>1. PICK p \in Answers(rows) : page' = p /\ delivered' = delivered \o p
  BY DEF Receive, Offset
<1>2. /\ pc = "asking" /\ pc' = "received"
      /\ UNCHANGED <<rows, signature, repeats>>
  BY DEF Receive, tracker
<1>3. rows \in Nat /\ rows = Len(delivered) /\ delivered \in Seq(Nat)
  BY <1>2 DEF IInv, TypeOK, Progress
<1>4. p \in Seq(Nat)
  BY <1>3, AnswerIsAPage
<1>5. /\ \A i \in 1 .. rows : delivered'[i] = delivered[i]
      /\ \A i \in 1 .. Len(p) : delivered'[rows + i] = p[i]
  <2>1. \A i \in 1 .. rows + Len(p) :
          delivered'[i] = IF i <= rows THEN delivered[i] ELSE p[i - rows]
    BY <1>1, <1>3, <1>4, ConcatProperties
  <2>2. Len(p) \in Nat
    BY <1>4
  <2>3. ASSUME NEW i \in 1 .. Len(p)
        PROVE  delivered'[rows + i] = p[i]
    <3>1. rows + i \in 1 .. rows + Len(p) /\ ~(rows + i <= rows) /\ (rows + i) - rows = i
      BY <1>3, <2>2
    <3> QED
      BY <2>1, <3>1
  <2>4. \A i \in 1 .. rows : i \in 1 .. rows + Len(p) /\ i <= rows
    BY <1>3, <2>2
  <2> QED
    BY <2>1, <2>3, <2>4
<1>6. ASSUME Judged
      PROVE  /\ rows > 0 => /\ rows >= PageSize
                            /\ signature = <<delivered'[rows - PageSize + 1], delivered'[rows]>>
             /\ \A k \in Nat \ {0} : Repeated(rows, k)' => k <= repeats
             /\ repeats < RepeatLimit
  <2>1. /\ rows > 0 => /\ rows >= PageSize
                       /\ signature = <<delivered[rows - PageSize + 1], delivered[rows]>>
        /\ \A k \in Nat \ {0} : Repeated(rows, k) => k <= repeats
        /\ repeats < RepeatLimit
    BY <1>2, <1>6 DEF Tracked
  <2>2. ASSUME rows > 0
        PROVE  signature = <<delivered'[rows - PageSize + 1], delivered'[rows]>>
    <3>1. rows - PageSize + 1 \in 1 .. rows /\ rows \in 1 .. rows
      BY <1>3, <2>1, <2>2
    <3> QED
      BY <1>5, <2>1, <2>2, <3>1
  <2>3. ASSUME NEW k \in Nat \ {0}, Repeated(rows, k)'
        PROVE  Repeated(rows, k)
    <3> DEFINE back == k * PageSize
    <3>1. back \in Nat
      BY OneFewer
    <3>2. /\ back + PageSize <= rows
          /\ \A i \in 1 .. back :
               delivered'[rows - (back + PageSize) + i] = delivered'[rows - back + i]
      BY <1>2, <2>3 DEF Repeated
    <3> HIDE DEF back
    <3>3. \A i \in 1 .. back :
            delivered[rows - (back + PageSize) + i] = delivered[rows - back + i]
      <4> SUFFICES ASSUME NEW i \in 1 .. back
                   PROVE  delivered[rows - (back + PageSize) + i] = delivered[rows - back + i]
        OBVIOUS
      <4>1. rows - (back + PageSize) + i \in 1 .. rows /\ rows - back + i \in 1 .. rows
        BY <1>3, <3>1, <3>2
      <4> QED
        BY <1>5, <3>2, <4>1
    <3> USE DEF back
    <3> QED
      BY <3>2, <3>3 DEF Repeated
  <2> QED
    BY <2>1, <2>2, <2>3
<1>7. Judged' = Judged
  BY DEF Judged
<1> QED
  BY <1>1, <1>2, <1>5, <1>6, <1>7 DEF Tracked

LEMMA InitStalls == Init => Ranked /\ Tracked
<1> SUFFICES ASSUME Init PROVE Ranked /\ Tracked
  OBVIOUS
<1>1. Ranked
  BY DEF Init, Ranked
<1>2. \A k \in Nat \ {0} : ~Repeated(0, k)
  BY OneFewer, PagingAssumption DEF Repeated
<1>3. Tracked
  BY <1>2 DEF Init, Tracked, Judged
<1> QED
  BY <1>1, <1>3

LEMMA NextTracked == IInv /\ Answering /\ Tracked /\ [Next]_vars => Tracked'
<1> SUFFICES ASSUME IInv, Answering, Tracked, [Next]_vars
             PROVE  Tracked'
  OBVIOUS
<1>0. faults' = faults /\ distinct' = distinct
  BY ServerFixed
<1>1. CASE Fail \/ Abandon \/ ObserveLate \/ ObserveEmpty \/ ObserveStalled
  <2>1. pc' = "ended"
    BY <1>1 DEF Fail, Abandon, ObserveLate, ObserveEmpty, ObserveStalled, End
  <2> QED
    BY <2>1 DEF Tracked
<1>2. CASE Expire \/ Ended \/ UNCHANGED vars
  <2>1. UNCHANGED <<pc, page, rows, signature, repeats, delivered>>
    BY <1>2 DEF Expire, Ended, vars, tracker
  <2> QED
    BY <1>0, <2>1 DEF Tracked, Judged, Repeated
<1> QED
  BY <1>0, <1>1, <1>2, TrackedReceive, TrackedRows DEF Next

\* A page sent again repeat_limit times has ended the iteration, and no server
\* that honours the offset is ever taken for one that stalls.
THEOREM PagingTellsStalls == Spec => []StallsAreTold
<1>1. IInv /\ Ranked /\ Tracked => StallsAreTold
  <2> SUFFICES ASSUME IInv, Ranked, Tracked PROVE StallsAreTold
    OBVIOUS
  <2> DEFINE start == Len(delivered) - (RepeatLimit + 1) * PageSize
  <2>1. outcome = "stalled" => "stalled" \in faults
    BY DEF Ranked
  <2>2. ASSUME pc = "asking", Judged, start >= 0,
               \A i \in 1 .. RepeatLimit * PageSize :
                 delivered[start + i] = delivered[start + i + PageSize]
        PROVE  FALSE
    <3> DEFINE back == RepeatLimit * PageSize
    <3>1. RepeatLimit \in Nat \ {0} /\ rows \in Nat /\ Len(delivered) = rows
      BY <2>2, PagingAssumption DEF Judged, IInv, TypeOK, Progress
    <3>2. back \in Nat /\ (RepeatLimit + 1) * PageSize = back + PageSize
      BY <3>1, PagingAssumption
    <3>3. start = rows - (back + PageSize)
      BY <3>1, <3>2
    <3>4. back + PageSize <= rows
      BY <2>2, <3>1, <3>2, <3>3, PagingAssumption
    <3> HIDE DEF back, start
    <3>5. \A i \in 1 .. back :
            delivered[rows - (back + PageSize) + i] = delivered[rows - back + i]
      <4> SUFFICES ASSUME NEW i \in 1 .. back
                   PROVE  delivered[rows - (back + PageSize) + i] = delivered[rows - back + i]
        OBVIOUS
      <4>1. delivered[start + i] = delivered[start + i + PageSize]
        BY <2>2 DEF back
      <4>2. start + i + PageSize = rows - back + i
        BY <3>1, <3>2, <3>3, PagingAssumption
      <4> QED
        BY <3>3, <4>1, <4>2
    <3>6. Repeated(rows, RepeatLimit)
      BY <3>4, <3>5 DEF Repeated, back
    <3>7. RepeatLimit <= repeats /\ repeats < RepeatLimit /\ repeats \in Nat
      BY <2>2, <3>1, <3>6 DEF Tracked, IInv, TypeOK
    <3> QED
      BY <3>1, <3>7
  <2> QED
    BY <2>1, <2>2 DEF StallsAreTold, Judged
<1>2. Faithful => Answering
  BY DEF Faithful
<1> QED
  BY <1>1, <1>2, InitStalls, NextRanked, NextTracked, FaithfulInvariance, Invariance, PTL DEF Spec
=============================================================================
