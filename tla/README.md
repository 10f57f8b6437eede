# A verification of forward-sdk

TLA+ modules, TLC configurations and TLAPS proofs about the Python SDK for
Forward Enterprise in `src/`: the client's transport with its retries and its
pacing, the cache of snapshot answers, collecting a network, the paging and the
waiting of NQE executions, the query library (its index, publishing to it, and
bundling what is in it), and conversations with Forward AI.

All paths below are relative to `src/src/forward_sdk/` unless they begin with
`docs/` or `tests/`, which are under `src/`.

1. [The system](#1-the-system)
2. [What makes it hard](#2-what-makes-it-hard)
3. [The modules](#3-the-modules)
4. [The runs](#4-the-runs)
5. [Fairness and deadlock](#5-fairness-and-deadlock)
6. [The proofs](#6-the-proofs)
7. [Where code and documents disagree](#7-where-code-and-documents-disagree)
8. [What is not modelled](#8-what-is-not-modelled)
9. [Plan](#9-plan)

To check: `tlc -config <cfg> <module>` for each run of section 4 and `tlapm
<module>` for each module of section 6.

## 1. The system

The SDK is written once, for asyncio, in `_async/`; `scripts/unasync.py`
generates the threaded twin `_sync/` from it. Requests are described by
`RequestSpec` values (built in `_ops/`, and for most endpoints by generated
tables), carried out by one transport per client, and grouped in services that
share it.

| Component | State it keeps | Operations | Interacts with | Correct when |
|---|---|---|---|---|
| Transport (`_async/transport.py`, `_http.py`) | none but the attempt number of each call | `send`, `stream` | every service calls it; it calls the limiter, httpx, the counters | what may not be repeated takes effect at most once; a refusal is final; no retry is given up or overrun |
| Counters (`telemetry.py`) | monotone counters, a high-water mark, first and last attempt | `increment`, `record_status`, `mark_attempt`, `snapshot`, `reset` | incremented by concurrent calls | every attempt is counted once, under one cause |
| Rate limiter (`_async/throttle.py`) | `_next_allowed`, a lock | `acquire` | the transport, before each attempt | acquisitions are an interval apart, whoever is cancelled or late; nobody waits for ever |
| Snapshots (`_async/services/snapshots.py`) | a cache of resolved answers, a lazily made NQE service | `latest_processed`, `latest_collected_id`, `upload`, `invalidate`, `delete`, `collect`, `wait_until_processed`, reachability jobs | the cache is shared by every task using the client; writes clear it | no answer older than this client's own writes; a lifetime cache gives one answer; `collect` returns the snapshot of its collection; waits end |
| Paging (`nqe/pagination.py`, `rows` and `diff` of `_async/services/nqe.py`) | rows, pages, total, last signature, repeats, deadline | `observe` | driven by the page loops | bounded work; rows once and in order; a normal end is a whole result |
| NQE executions (`_async/services/nqe.py`) | the last status, the reason recorded, the report | `status`, `wait`, `execute_and_wait`, `stop` | one handle may be held by several coroutines; Forward runs the query and its budget | verdicts are true; a doomed query is given up, a live one is not; one record |
| Library: publishing (`_async/services/nqe_repo.py`, `nqe/repository.py`) | drafts, directories and commits on Forward | `publish`: stage, dry run, commit, discard | other sessions of the same user change the same drafts and queries | success is total, failure is clean, the report is true |
| Library: index (`_async/services/nqe_repo.py`) | a cached listing and when it was fetched | `index`, `find`, `source` | staging, discarding and committing invalidate it; tasks and threads share it | no listing older than `cache_ttl` or than this object's own writes; a lookup ends in an entry or a documented error |
| Bundles and references (`bundle()` of `nqe_repo.py`, `nqe/bundle.py`, `nqe/query_ref.py`) | none beyond a call | reading the imports, dependency order, rewriting | others commit to the library meanwhile | the whole import closure, each module once and after what it imports, all of one commit |
| AI conversations (`_async/services/ai.py`) | the chat as last seen | `start`, `ask`, `ask_and_wait`, `wait`, `refresh`, `rename` | Forward answers one chat of a user at a time and refuses the rest with a 429; tasks share a conversation | the answer returned is to the question asked; a question is left once; a busy Forward is waited for as long as asked |
| Change sets, diffs (`_async/services/change_sets.py`, `diffs.py`) | none | requests; `predict_and_wait` | snapshots | waits end, on the right snapshot |
| Events (`events.py`) | the parser's partial event | `feed` | the transport's streams | an event is never cut or merged |
| Client packages (`_async/services/client_software.py`, `_files.py`) | a temporary file | download, checksum, rename | the file system | a package is whole or absent |
| Access (`access.py`, `rbac.py`) | none | decisions over roles | | deny and allow as documented |
| Client, configuration, request builders, errors, thin services | settings | construction | | |
| Generated code (`_generated/`, `_sync/`, `models/`, `_async/services/_generated/`) | none | request wrappers | | follows its generators |

## 2. What makes it hard

* **Repeating what was done.** A lost answer leaves a request that may have run,
  may be running and may run later; the transport must decide from the kind of
  failure alone.
* **Interleaving at every await.** Calls share counters, a limiter and caches;
  coroutines share an execution handle or a conversation; threads may be
  preempted anywhere.
* **State read before an await and used after it.** A listing is remembered after
  a write cleared the cache; a clock read before a sleep; a check for drafts
  before the staging; a status before a question, stored after it.
* **Servers that stray.** Pages cut short, an offset ignored, a total left out.
* **Two clocks.** A caller's timeout and Forward's budget for a query end at
  different times, and an answer takes time to arrive.
* **Partial failure.** `publish()` is a dozen requests with a cleanup that may
  itself fail, while other sessions interfere; `bundle()` is a request per module
  of a library that moves meanwhile.

`PROJECT.json` lists these hazards one by one, at their lines, with the
properties that would catch them going wrong.

## 3. The modules

| Module | Models |
|---|---|
| `CallContract` | the abstract specification of one call: starts, takes effect, ends with a verdict |
| `Transport` | `send()` and `stream()`, their retry decisions, counters, the network and the server |
| `RateLimiter` | `acquire()`, coroutines or threads |
| `SnapshotCache` | `latest_processed()`, its cache, and the writes that should clear it |
| `CollectRun` | `collect()` and `wait_until_processed()`, and other users of the network |
| `Paging` | `PageTracker` and the loops around it, against a server that strays |
| `NqeExecution` | `status()`, `wait()`, the deadlines and the record of a shared handle; `execute_and_wait()` |
| `NqePublish` | `publish()` with staging, dry run, commit, retries and cleanup, and other sessions |
| `Library` | the cached index, its lookups and the writes that invalidate it, by coroutines or threads |
| `Bundle` | `bundle()`: reading a query's imports at one commit and putting them in order |
| `Chats` | asking Forward AI through shared conversation objects, and waiting for the answer |
| `TransportProofs` (with `RateLimiter`), `SnapshotProofs` (`SnapshotCache` and `CollectRun`), `PagingProofs`, `NqeExecutionProofs`, `NqePublishProofs`, `LibraryProofs`, `BundleProofs`, `ChatsProofs` | the proofs |

A variable has the name of the field or local it stands for where it has one,
and an action stands for the code from one suspension to the next (an await, a
request, a callback), with everything it changes on the way. Actions of the
network, of Forward and of other sessions are marked external. Variables marked
history are written and never read by the system. `RateLimiter` and
`SnapshotCache` share a module of proofs with `Transport` and `CollectRun`, so
their specifications have names of their own (`LimiterSpec`, `CacheSpec`, `at`
for `pc`).

### Transport

A call `c` has a `spec` (`mode` is the entry point, `idempotent` the field of
`RequestSpec`), a place `pc`, the number of its `attempt`, and an `outcome`.
`Dispatch` is one turn of the loop up to the request; `Fail`, `SendAnswer` and
`StreamAnswer` are what the turn does with an exception or a status, retry or
surface, counters included; `Resume` is the end of the sleep before a retry.
`wire` and `ran` are the network and the server: `Arrive` and `Handle` may come
before the answer, after it, after a failure (`Fail` may put the attempt on its
way), or never. A status is one of five classes: `ok`, `limited` (a 429 whose
text is Forward's rate limiter's), `busy` (any other 429), `transient` and
`rejected`. What an answer tells of its effect is an assumption about Forward:
a success has run, the two 429s and a rejection dropped the request unhandled,
and a 5xx says nothing. The error behind the loop (`transport.py:238`) is no
action: `LoopCorrect` shows that the loop is never left that way.

### CallContract

What a caller may rely on, without attempts, wire and counters: a call that may
not be repeated takes effect at most once, a success has an effect behind it, a
refusal has none and never will, and an unknown verdict promises nothing.
`Transport!Contract` instantiates it: the effects are the attempts whose handler
ran, `ok` is success, `limited`, `busy`, `rejected` and `unreached` (the
connection failed) are refusals. A streamed call is repeatable, since the code
repeats it.

### RateLimiter

`now` is the clock, `queue` the waiters of the lock, `seen` and `wakeAt` the
locals of a task, `nextAllowed` the field. `threads`, chosen at the start, tells
the twins apart: coroutines are served in order, run undisturbed between awaits
(time passes only at one) and may be cancelled; threads are served in any order
and preempted anywhere. A sleep may last up to `Slack` longer than asked.

### SnapshotCache

`resolved` is `_resolved` with one entry per question (the `include_predicted`
part of its key), `lifetime` the mode of the cache, chosen at the start. A
resolution is `AnswerFromCache`, or `Ask`, `Serve` (by Forward) and
`Resolve`, with anything in between; a write is `Write`, `Apply` and
`ReturnClearing` or `ReturnDelete`; "upload" stands for every write that clears
the cache and makes a snapshot, collecting included. `Abort` is a request that
fails; `FinishOne` and `MakeOne` are Forward's own doings. `barrier`, `races` and
`answers` are history: the last write of this client known to have happened, the
races there were, and the answers given since the cache was cleared (the last
one only, where the cache has a time to live).

### CollectRun

`before`, `task`, `listing` and `late` are the locals of `collect()` and of the
wait that follows, `tasks` and `snapshots` what Forward has; a task and a
snapshot are their places in the order of creation. `Begin` lists what is there;
`Start` begins a collection, `Join` finds one under way; `Poll` is a turn of the
loop on the task; `List` and then `Found` or `NotFound` a turn of the loop on the
listing; `Follow` and `Look` are `wait_until_processed()`. `Raise` is a request
that fails, `Expire` the passing of a deadline. The rest is external: others
start collections, tasks end, snapshots are made by collections (`Collected`) or
otherwise (`Appear`), are processed, archived and deleted. `meddled` is history:
since `collect()` began, someone else made a snapshot other than a prediction, or
a snapshot left the listing.

### Paging

`rows`, `pages`, `total`, `signature` and `repeats` are the fields of the
tracker; `Receive` is a page fetched, counted and yielded, the four `Observe`
actions the ways out of `observe()`, `Expire` the passing of the deadline.
`faults`, chosen at the start, says what kind of server answers and `distinct`
whether rows differ. A row is its position. `SentTwice` is the one excuse of
`NotTruncated`, which otherwise asks of a normal end that exactly the rows of the
result were delivered, in order: a stalled server sent a row again.

### NqeExecution

`started`, `status`, `reason` and `records` belong to the handle; `local` holds
the variables of the `wait()` or `status()` each coroutine is in. `Wait`,
`Serve`, `Told`, `Wake` are its turns; `Judgement` and `Record` the decisions.
`job` is the query on Forward, which may succeed until its budget is spent, and
an answer may arrive up to `Latency` after it was true. `Says` is what a status may
say of the query: a final one may leave out an outcome in `Untold`, and
`EndedWell` is how `wait()` reads it, as a success. A handle is obtained by
`Obtain` and held by every waiter, or made by one of them inside
`execute_and_wait()`: `call` is that call, `Submit` each of its submissions and
`Again` the decision to make another. With a new submission time begins anew,
since nothing the call does afterwards looks at an earlier time.

### NqePublish

`library`, `draft`, `dirs` and `moved` are what Forward holds; `pc` is the
request `publish()` is about to make; `options` how it was called. Each request
is answered, refused without effect (`Refused`), or given up with its effect
(`lost`). An exception goes through `Raise`, which enters the cleanup where the
code's `try` does. `TryDryRun`/`RetryDryRun` and `TryCommit`/`RetryCommit` are
the first and the second attempt around unchanged paths. `Meddle` is another
session of the user.

### Library

`cache` and `fetched` are `_index_cache` and `_index_fetched_at` for one
repository. A lookup is `Find` (the check of staleness), then `List`, `Keep`,
`Stamp` if the index is fetched, then `Return`, which reads the dictionary again;
a write is `Write`, `Apply`, and the two halves of `_invalidate()`, `Invalidate`
and `Forget`. `threads`, chosen at the start, says whether a task may be
preempted between any two of these or only while it waits for a request. A
listing is the number of commits the library had when it was served. `acked` and
`raced` are history: the newest commit of this object that has returned, and
whether a listing was ever on its way while a write invalidated.

### Bundle

`pinned`, `pending`, `visited`, `order` have the names of the code's locals
(`order` is `ordered`); `replaced` and `fetched` together are `sources`. The first
walk is a module at a time (`Pass`, `UseOverride`, `Fetch`, `RefuseForward`); what a
module imports is chosen when it is fetched, so every graph of imports is
explored. The second walk, the recursion of `_dependency_order()`, is an explicit
`stack` of visits: `Visit`, `Skip`, `Return`, `VisitFails`. `Commit` is somebody
else's commit to the library.

### Chats

`seen[h]` is the status in the `_chat` of conversation object `h`; which task has
which object, on which chat, is chosen at the start. `Ask` stands for `start()`,
`ask()` and `ask_and_wait()`; `Refused`, `TryLater`, `TryAgain`, `GiveUp` are
`_send_when_not_busy()`; `PollFirst`, `Serve`, `Store`, `Done`, `TimeOut`, `Sleep`
and `Wake` are `wait()` and its `refresh()`; `Look` is a `refresh()` or `rename()` of
its own. `answering` and `last` are Forward: the chat it works on and who asked
last in each. `stale` and `disturbed` are history: the looks older than a
question, and the calls that another task's question or such a look has reached.
A wait has a timeout of `Timeouts`, or `Never` where `Untimed` allows
`timeout=None`.

## 4. The runs

| Run | Module, configuration | Checks |
|---|---|---|
| `transport_call` | `Transport` | `AtMostOnce`, `NoEarlySurrender`, `CountersBalance`, the refinement `KeepsContract`, `CallSettles` |
| `transport_stream` | `Transport`, `TransportStream` | violates `RepeatedOnlyIfUnseen` |
| `limiter` | `RateLimiter` | `Spacing`, `AcquireReturns` |
| `cache` | `SnapshotCache` | `WritesAreSeen`, `PinnedAnswer`, `OnlyWhatWasAsked`, `CacheConverges` |
| `collect` | `CollectRun` | `OwnSnapshot`, `NotOverlooked`, `WaitsEnd` |
| `paging` | `Paging` | `WorkIsBounded`, `InOrder`, `NotTruncated`, `StallsAreTold` |
| `wait` | `NqeExecution` | `VerdictIsTrue`, `OnlyTheDoomed`, `RecordedOnce`, `OneQueryAtATime`, `WaitEnds` |
| `publish` | `NqePublish` | `SuccessIsTotal`, `ReportIsTrue`, `FailureIsClean`, `ForeignDraftsSurvive`, `PublishEnds` |
| `library` | `Library` | `StaleNoLonger`, `WritesAreSeen`, `IndexIsThere` |
| `library_threads` | `Library`, `LibraryThreads` | violates `SafeToShare` |
| `chats` | `Chats` | `TypeOK`, `OwnAnswer`, `AskedOnce`, `BusyToTheDeadline`, `CallsEnd` |
| `bundle` | `Bundle` | `BundleIsWhole`, `FromOneCommit`, `RefusalsAreTrue`, `BundleEnds` |

The types of the variables are proved (section 6); the run of `Chats` checks them
as well. What the runs show, and why their bounds are enough:

* **transport_call.** Two calls, of either mode and either idempotence, in every
  order of their steps, two attempts each: a first attempt, which may be retried,
  and a last one, which may not. Calls share nothing but the counters, which add
  up at every moment and not only at rest; each attempt may be lost, delayed,
  handled late, or handled and answered. A `create` takes effect at most once;
  when it ends `refused` the caller may make it again. The code's default is four
  attempts: the theorems of section 6 hold for any number.
* **limiter.** Three tasks: a holder, a first and a second waiter. The horizon
  lets each of them through more than once, and a sleep may be late by half an
  interval. Coroutines and threads are both explored.
* **cache.** Two tasks, two snapshots (an older and a newer), two changes of the
  server. A race takes two tasks; a third adds none. `WritesAreSeen` and
  `PinnedAnswer` hold unless a named race took place, so the run shows that
  nothing else breaks them. Uploads, invalidations and deletions
  are all made.
* **collect.** The two newest snapshots are compared, with three there before or
  none, so that an older one comes into sight when one leaves; two snapshots are
  made meanwhile (the caller's and another, in either order), one leaves, and
  others start up to two tasks, so that there is one to join, none, or a choice.
* **paging.** Pages of two rows, seven rows, at most five pages and seven rows
  read, two repetitions allowed: the result is longer than three pages and not a
  multiple of the page, each limit is met first in some behaviour, and every
  subset of the ways to stray is a server. One that repeats itself reaches the
  total with rows sent twice, which `NotTruncated` names as its exception.
* **wait.** Two coroutines, a budget of one tick, a grace of two, answers up to a
  tick late (less than the grace, as `SERVER_DEADLINE_GRACE` supposes), timeouts
  of a tick or none, delays of one tick doubling to two, and a server that asks
  for two. Time ends after every wait must have ended. `execute_and_wait()` may
  submit its query twice, and fails with outcomes that are retried and with one
  that is not. Forward may leave out that a query broke, so that `wait()` returns
  as if it had not; `VerdictIsTrue` and `RecordedOnce` say that nothing else makes a
  verdict or a record untrue.
* **publish.** Two paths under two nested directories, each way to call, each
  failure at each request, two interferences. With two paths one can be stripped
  as unchanged and the other remain; two interferences can strip one before the
  commit and the other before its retry.
* **library.** Two tasks, as coroutines and as threads, with no reuse and with a
  time to live of two ticks, so that an index may be one tick old and fresh, and
  a listing may take a tick to arrive; two commits, one of which others may make.
  A lookup may overlap one write or two, and a second lookup follows.
* **library_threads.** The same with one commit and one lookup each: the violation
  needs no more.
* **chats.** Two tasks with two conversation objects or one between them, on one
  chat, and another program of the user asking in the same chat or its own. A
  task asks with and without a `busy_timeout`, and the `Retry-After` reaches
  beyond the deadline or not; a refusal takes up to a tick. It waits with a
  timeout of a tick, or without one.
* **bundle.** The entry and two library modules import up to two of one another and
  of a module of Forward's, in either order: chains, diamonds, circles with and
  without the entry, and modules importing themselves. Up to two of the four are
  overridden, and the library has up to two commits.

## 5. Fairness and deadlock

* `Transport`: a waiting call is dispatched (the limiter lets it through, see
  `RateLimiter`), httpx's timeouts end every wait for an answer, and a sleep
  ends. Nothing is asked of the network or the server.
* `RateLimiter`: time passes, and the event loop or the operating system runs
  what is ready. A `threading.Lock` promises a waiter nothing, so
  `AcquireReturns` is about coroutines only.
* `SnapshotCache`: time passes, and a listing asked for is served and dealt with.
  Tasks need not ask.
* `CollectRun`: the caller goes on and deadlines pass; Forward ends the tasks it
  has begun and the processing of the snapshots it has made. Without a timeout a
  wait lasts as long as Forward's work does, so something must be asked of
  Forward there; where there is one, `Expire` alone ends it. Forward need not make
  the snapshot of a task.
* `NqeExecution`: time passes, polls are served and their answers dealt with, and a
  call goes on to its next submission. The query itself need not end: that is
  what `WaitEnds` is about.
* `NqePublish`: `publish()` runs on; each of its requests ends, by the transport.
  Other sessions owe nothing.
* `Chats`: time passes, and a call that is under way goes on, its requests being
  answered or failing. Forward need not answer any question, and may refuse
  every one: with a timeout `CallsEnd` rests on the deadlines alone. Without one
  (`Endless`) a call lasts as long as Forward works on its chat, and no longer.
* `Bundle`: `bundle()` goes on, its requests being answered or failing. Others need
  not commit.
* `Library` states no fairness: its properties are about what is returned.

Deadlock is checked in `transport_*`, `cache`, `collect`, `paging`, `publish`,
`bundle` and `chats`, whose modules end in an explicit stuttering step
(`Finished`, `Ended`) or never. The limiter, the waits and the library stop when
the bounded clock does and nobody calls any more, so those runs do not check it.

## 6. The proofs

TLAPS proves, for every value of the constants that satisfies the module's
named assumption:

| Theorem | Says |
|---|---|
| `TransportProofs!TypeCorrect` | `TypeOK` |
| `TransportProofs!AtMostOnceCorrect` | `AtMostOnce`, for any calls and any number of attempts |
| `TransportProofs!RefusalCorrect` | `RefusalIsFinal`: after a refusal of a call that may not be repeated nothing of it has run or will |
| `TransportProofs!LoopCorrect` | `LoopNeverExhausted`: the loop has a turn left whenever it is about to take one |
| `TransportProofs!NoEarlySurrenderCorrect` | `NoEarlySurrender` |
| `TransportProofs!ImplementsContract` | `Spec => Contract!Spec`: initial states and every step |
| `TransportProofs!CountersBalanceCorrect` | `CountersBalance`, for any finite set of calls |
| `TransportProofs!SpacingCorrect` | `Spacing`, for any tasks and interval, both twins |
| `TransportProofs!SlotsCorrect` | `SlotsAreNotLost`: a cancelled acquisition takes no slot |
| `SnapshotProofs!CollectTypes` | `TypeOK` |
| `SnapshotProofs!OwnSnapshotCorrect` | `OwnSnapshot`, however many snapshots are compared, made and predicted |
| `SnapshotProofs!NotOverlookedCorrect` | `NotOverlooked` |
| `SnapshotProofs!CacheSeesWrites` | `WritesAreSeen` of the cache, for any tasks and time to live |
| `SnapshotProofs!CachePinsAnswers` | `PinnedAnswer` |
| `SnapshotProofs!CacheAnswersTheQuestion` | `OnlyWhatWasAsked` |
| `PagingProofs!PagingTypes` | `TypeOK` |
| `PagingProofs!PagingBounded` | `WorkIsBounded`, whatever the server does |
| `PagingProofs!PagingInOrder` | `InOrder` |
| `PagingProofs!PagingNotTruncated` | `NotTruncated`, for any page size and server |
| `PagingProofs!PagingTellsStalls` | `StallsAreTold`, for any page size, limit and server |
| `NqeExecutionProofs!ExecutionTypes` | `TypeOK` |
| `NqeExecutionProofs!ExecutionVerdicts` | `VerdictIsTrue`, for any number of waiters |
| `NqeExecutionProofs!ExecutionDoomed` | `OnlyTheDoomed`, for any budget, grace and latency |
| `NqeExecutionProofs!ExecutionRecorded` | `RecordedOnce`, and `reason` tells the outcome unless it was left out |
| `NqeExecutionProofs!ExecutionAlone` | `OneQueryAtATime`, an action property |
| `NqePublishProofs!PublishTypes` | `TypeOK` |
| `NqePublishProofs!PublishIsTotal` | `SuccessIsTotal`, for any files and directories |
| `NqePublishProofs!PublishReport` | `ReportIsTrue`, whatever others do |
| `NqePublishProofs!PublishFailsCleanly` | `FailureIsClean` |
| `NqePublishProofs!PublishSparesForeign` | `ForeignDraftsSurvive`, an action property |
| `LibraryProofs!LibraryTypes` | `TypeOK` |
| `LibraryProofs!LibraryIndexIsThere` | `IndexIsThere`, for any number of coroutines |
| `LibraryProofs!LibraryWritesAreSeen` | `WritesAreSeen`, for coroutines and threads |
| `LibraryProofs!LibraryStaleNoLonger` | `StaleNoLonger`, for coroutines and threads, any time to live and latency |
| `BundleProofs!BundleTypes` | `TypeOK` |
| `BundleProofs!BundleWhole` | `BundleIsWhole`, for any paths and imports |
| `BundleProofs!BundleOfOneCommit` | `FromOneCommit` |
| `BundleProofs!BundleRefusals` | `RefusalsAreTrue` |
| `ChatsProofs!ChatsTypes` | `TypeOK` |
| `ChatsProofs!ChatsAskOnce` | `AskedOnce`, however often a question is refused |
| `ChatsProofs!ChatsBusyToTheDeadline` | `BusyToTheDeadline`, for any timeouts, pauses and latency |
| `ChatsProofs!ChatsOwnAnswer` | `OwnAnswer`, for any tasks, handles and chats |

The arguments:

* **Transport** (`TransportAssumption`). `AtMostOnce` is not inductive: a retry
  from `backoff` adds an attempt, and nothing in the property says that the
  earlier ones are gone. `IInv` adds to the types, per call, what is known at
  each place: between attempts of a call that may not be repeated, nothing of it
  is on the wire or has run; while one is awaited, only that one can be; after a
  refusal, nothing. Every retry decision preserves it because it is taken only on
  failures that put nothing on the wire. `NoEarlySurrender` is kept beside it: an
  outcome is decided once, from the attempt it is decided on. The refinement
  follows from the same invariant: `Handle` maps to `TakeEffect`, an ending action to `End` with the
  verdict's condition, and the rest stutters. For `CountersBalance` the terms that
  count calls are read as sizes of sets (those awaited, begun, about to repeat,
  ended each way), which are finite because the calls are (`IsFiniteSet(Calls)`,
  part of the assumption: a process makes finitely many); a step moves one call
  from one set to another, and every case of a status adds as much on each side.
* **RateLimiter** (`LimiterAssumption`). `LInv` says that one task at most is
  inside the lock (`OneHolder`), and that this task has woken, or will, when the
  next is allowed (`HolderWaits`); `SlotsAreNotLost` ties `nextAllowed` to the
  last acquisition. The order of the waiters plays no part, which is why the
  proof covers both twins; nor does the bound on oversleeping.
* **CollectRun** (`CollectAssumption`). `OwnSnapshot` speaks of the moment of
  returning; `IInv` says why it comes out right. `Causes`: the snapshot of a task
  is made after the task's end, so none of those listed before belongs to a task
  begun later or found running, which gives `NotOverlooked`. `Unmeddled`: while
  nobody meddles, a snapshot in sight that was not listed before is a prediction
  or the collection's own, or has at least `Recent` newer ones and is not listed;
  it is preserved because the newer ones only become more (`SnapshotMade`, by the
  cardinality of subsets).
* **SnapshotCache** (`CacheAssumption`). `CacheInv`: a listing that arrived, and an
  entry held, are as new as the last write that returned, as long as no listing
  was on its way when the cache was cleared (`NoneOlder`); with a cache for the
  lifetime, what a question was answered is what is held for it, and while nothing
  is held at most one task resolves it (`Pinned`); whatever answers, did or is on
  its way, is of a kind asked for, and a snapshot never changes its kind
  (`Qualified`). The three properties are its consequences.
* **Paging** (`PagingAssumption`). `Progress` relates what has been fetched and
  delivered to the tracker's numbers at each place of the loop, and gives
  `WorkIsBounded`. `Faithful` adds that the page in hand is an answer to the
  request made; a slice continues what was read (`SliceContinues`) and is short
  only at the end of the result (`SliceShape`). `NotTruncated` takes two more: a
  normal end comes after as many rows as the result has (`LongEnough`), and the
  rows delivered are the first of the result, one after another, until one comes
  twice (`Accounted`); together they leave the whole result or a row sent
  twice. For `StallsAreTold`, `Tracked` says
  that if each of the last `k` pages was the same as the one before, `repeats` is at
  least `k`, and that a tracker that still asks has counted fewer than the
  limit; `Ranked`, that a server that honours the offset begins every page after
  the rows read, so the ends of a page never come again.
* **NqeExecution** (`ExecutionAssumption`). `Heard`: whatever says that the query
  has ended, the handle's status or an answer on its way, is one of the things
  that may be said of its end (`Says`); this gives `VerdictIsTrue` in any order of
  answers, with the outcomes left out as the only exception. `InTime` and
  `Doomed`: an answer
  that arrives after budget and grace was served after the budget, when a query
  that was still running can no longer succeed. `Calling`: a call of
  `execute_and_wait()` has its handle to itself, and between two submissions the
  query has ended with an outcome to be retried.
* **NqePublish** (`PublishAssumption`). `Progress` and `Written` say, place by
  place, what has been staged and committed; `Own` that the drafts of this call
  are among those it has staged, and during the cleanup among those it still has
  to discard, as long as no answer was lost; `Alone` and `NoForeign` what is there
  besides while nobody interferes.
* **Library** (`LibraryAssumption`). For coroutines, at most one task is between two
  awaits of a lookup or a write (`AloneInside`), which is why the index is there.
  `WritesAreSeen` also covers threads: as long as no listing was on its way at an
  invalidation, a listing in hand or an index that would be found fresh is as new
  as every write that had returned (`SeenInv`). `AgeInv` gives `StaleNoLonger`: a
  listing is kept and stamped within `Latency` of being served; a coroutine stamps
  what it kept itself, so an index found fresh is younger than the time to live
  and one `Latency`; a thread may stamp the index with the time of an older
  listing that another has put there, which costs a second `Latency` (`Slack`).
* **Bundle** (`BundleAssumption`). The first walk stays within the closure of the
  entry (`Needed`) and leaves nothing of it behind (`Frontier`), with a text for each
  module (`Texts`) read at the one commit (`Versions`). The second walk is the
  usual argument for depth-first search: `UpToNext` and `Behind` give the order,
  `EachOnce` its uniqueness, and `Chain`, that every visit under way is needed by
  the ones outside it, shows that a circle reported is a circle.
* **Chats** (`ChatsAssumption`, where the mark of an idle Forward is no chat).
  `CallInv` says what a call carries at each place: no question accepted while it
  is still sending, one from then on, and, for a call that is refused, that its
  request left before the deadline and arrived at most `Latency` after. This
  gives `AskedOnce` and `BusyToTheDeadline`. `OwnInv` is about an undisturbed call
  that awaits its answer: its question is the last of its chat, and as long as
  Forward works on it, neither the status of the handle nor any look on its way to
  it that is not counted as stale says `DONE` (`Awaited`); and a stale look belongs
  to no undisturbed call of its own (`StaleLooks`). A question of another task in
  the chat, or a stale look stored, makes the call disturbed in the same step.

Every safety property and action property of the passing runs is proved. Only
model-checked: liveness (`CallSettles`, `AcquireReturns`, `CacheConverges`,
`WaitsEnd`, `WaitEnds`, `PublishEnds`, `CallsEnd`, `BundleEnds`), which is out of
the prover's reach.

## 7. Where code and documents disagree

Two runs expect a violation. Each checks one sentence of the documents:

* `transport_stream`: `stream()` retries a non-idempotent request after it may
  have been handled (`_async/transport.py:275`), which `docs/errors.md` excludes.
* `library_threads`: a lookup of one thread raises `KeyError` when a write of
  another clears the index between the check and the reading
  (`_async/services/nqe_repo.py:140`, the same in the threaded twin);
  `docs/configuration.md:210` and `docs/async.md:43` say a `ForwardClient` is safe
  to share across threads. Coroutines are not affected, which `IndexIsThere` and
  its proof show.

Found while modelling, with no run of their own:

* A listing of snapshots from before an `upload()` may be remembered after the
  upload cleared the cache (`snapshots.py:198`), where the comment at line 179 says
  that a race costs "never a wrong answer"; `WritesAreSeen` of `SnapshotCache` is
  stated up to this race, and the library's index has the same one.
* A server that repeats its first page until the reported total is reached ends
  the iteration normally (`nqe/pagination.py:150`); `docs/nqe/index.md:93` says the
  guards catch it. The caller then has, say, rows 1, 2, 1, 2, 5, 6, 7 of 7;
  `NotTruncated` holds up to this case (`SentTwice`). With a result of more than
  `repeat_limit` pages the guards do catch it, which `StallsAreTold` shows.
* A `COMPLETED` status without an outcome is returned by `wait()` as a success and
  recorded as `"OK"` (`nqe.py:234` and `244`). The docstring of `wait()` promises a
  `ForwardExecutionError` for a query that finished without results
  (`nqe.py:217`), and `docs/nqe/index.md:131` that `terminal_reason` is Forward's
  outcome. Whether Forward ever leaves it out the repository does not say;
  `VerdictIsTrue` and `RecordedOnce` are stated up to the outcomes it may leave
  out (`Untold`).
* A failure while directories are created leaves those created before
  (`nqe_repo.py:523`), where `docs/nqe/library.md:48` says they are discarded;
  `FailureIsClean` speaks of the drafts of files only.
* A commit refused twice is reported as skipping everything, though other paths
  may still be staged, if another session discarded a draft between the two
  (`nqe_repo.py:439`).
* `access()` of the client writes the roles and the impersonator one after the
  other (`_async/client.py:235`), so that a thread may read the roles of one answer
  with the impersonator of another.
* Two downloads to one destination share the temporary name
  (`client_software.py:72`) and write into each other's file.

Smaller ones: two concurrent first resolutions of a lifetime cache may give two
answers (the premise of `PinnedAnswer`); `delete()` does not clear the cache, as
`upload()` and `invalidate()` do; a failed status of `stream()` adds to
`http_errors` but to no cause; a `wait()` ended by an exception of a poll leaves
no record. `collect()` may return another user's upload, fork or collection, or
an older snapshot that came among the 50 newest because one left them (the
premise of `OwnSnapshot`), where `docs/snapshots.md:136` says it "waits for the
snapshot it produces". A snapshot archived under
`wait_until_processed(timeout=None)` is waited for for ever (the exception in
`WaitsEnd`): `ARCHIVED` is in `TERMINAL_STATES` and not in `FAILED_STATES`. A wait
for an answer of Forward AI with `timeout=None` lasts for ever if Forward never
gives it (the exception in `CallsEnd`). The
comment on `_TASK_FAILED` says a failed task "will never produce a snapshot",
the docstring of `collect()` that it can (`Collected`); the code does not look
for it.

## 8. What is not modelled

Abstracted in the modelled parts: the length of delays between retries and the
`Retry-After` of the transport (a delay is the interleaving of other steps), the
formatting of requests and errors, the progress a status reports, poll
statistics, reading a query's text, the probing loop of
`latest_collected_id()`, the rewriting of names inside a bundled module, the
messages of a chat but the last, and Forward itself beyond what its answers
imply. Where a bound on time is needed to tell late from early it is a constant
(`Latency`, `Slack`), and the properties are stated in terms of it.

Most of the repository by lines keeps no state and takes no decision over time:
the models and operation tables written from Forward's OpenAPI description
(`_generated/`, `models/`), the request wrappers over them
(`_async/services/_generated/`, and `devices`, `networks`, `tapi`, `change_sets`,
`diffs` and the like), the enumerations of `nqe/enums.py`, and `_sync/`, which is
`_async/` without its awaits: what differs there, preemption anywhere, is part of
`RateLimiter` and `Library`. A model of these would restate them.

Left out for good as well: configuration parsing, the error classes, the request
builders, access decisions (a function of a table the caller supplies), the
parser of the event stream, and query references. Each is a pure conversion that
a unit test reaches.

Cancellation of `publish()` (which skips the cleanup), a lost answer to a staging
request, and `delete()`, which leaves the snapshot cache alone, are listed among
the hazards with the reason no property covers them.

## 9. Plan

What could be added, the most valuable first:

1. The reachability jobs' `wait()`, a third wait beside those of `CollectRun` and
   `NqeExecution`, with one abstract specification that all of them implement.
2. `PacedTransport`: `Transport` and `RateLimiter` composed, with the fairness of
   `Dispatch` derived from the limiter rather than assumed.
3. `Library` composed with `NqePublish`, whose first request it answers.
4. Downloads: the temporary name, the rename, and two of them to one path.

Proofs: safety lemmas behind the liveness that stays with TLC, such as that
`CollectRun` waits only for what Forward or a deadline still owes it.
