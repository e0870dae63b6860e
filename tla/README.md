# Verification of launce

launce is a Go implementation of a Locust worker: it connects to a Locust master,
runs as many simulated users as the master asks for, and reports their statistics.
This directory holds TLA+ models of the concurrent core of that worker, the TLC
configurations that check them on small instances, and TLAPS proofs of the results
that matter most. Line numbers refer to the sources of the repository.

## The system

| Component | State | Operations | Hard behaviours | What makes it correct |
|---|---|---|---|---|
| `spawner` (spawner.go, thread.go) | target count, token channel, thread list, stop function, spawn total | `Cap`, `Start`, `Stop`, `StopAllThreads`; the spawn worker of three restart modes; the spawned threads | the channel is replaced under running threads; concurrent `Stop`; threads that end by themselves | capacity respected, no token lost, no deadlock, mode contracts |
| load generator (generator.go) | `started`, spawners, current aggregator and its user counter | `Start`, `Stop`, `Spawn`, `StopUsers`, the user goroutine | calls that overlap, failing handlers, sharing of aggregators | restartable, stops clean up and return, aggregators counted exactly |
| worker (worker.go) | state, cancel function, join context, channels, last spawn timestamp | `Join`, `Stop`, `Quit`, the message loop, relay, load test cycle, heartbeat check, statistics and log processes | quits from several goroutines, messages at any time, reconnect, slow handlers | spawns in order, none forgotten, state tells the truth, quits end |
| statistics aggregation (stats/aggregator.go) | aggregators, `Worker.stats`, reset slot | `Report`, collect, hand over, merge, flush, reset | back pressure, closing a shared channel, quitting under load | nothing lost or counted twice, aggregators end |
| statistics entries (entry.go, errors.go, round.go, stats.go) | counters, times and histograms by request, occurrences by error | `Add`, `Merge`, `Aggregate`, `Flush`, `Clear`, the payload | sentinels, merges in any order | a report equals a calculation over its requests |
| log capture (log.go) | ring buffer, total; the report process | `Write`, `Lines`, `Total`; report on a tick | wrap-around, two snapshots, failed sends | latest lines in order, nothing hidden |
| users (user.go, graceful_stop.go, wait.go) | soft and graceful context, two timers | `processUser`, `Wait`, graceful stop | a stop at any step against a grace period; exceptions of every hook | grace kept, exceptions reported once, users end |
| task sets (taskset/) | call stack of `Run`, queue and index of each set, filtered tasks | selection, scheduling, interrupts, filters | nested sets, interrupts, cancellation between any two steps | no task after the next one, sets stopped, the filter lets through what it should |
| transport, messages, options, metrics | socket; none | encode, send, read counters | | not modelled, or the state of one socket |

How they interact. The message loop of the worker passes a spawn through an
unbuffered channel to a relay and the relay to the cycle, so that a slow start does
not hold up messages; the cycle drives the load generator, which drives one spawner
for each user class; the spawner starts user goroutines; each reports to a shared
aggregator, the aggregators hand over to the statistics process of the worker, and
that sends to the master. `Quit` may be called by the message loop, the heartbeat
check and the program, and stops the load generator concurrently with the cycle.

## Modules

| Module | What it is |
|---|---|
| `Spawner` | the spawner and thread list, one action per critical section, atomic or channel operation |
| `ThreadPool` | the abstract promise: a limited pool whose limit moves only while spawning is closed |
| `SpawnerProps` | its properties, the refinement mapping, the inductive invariant |
| `SpawnerProofs` | the theorems about it |
| `Worker`, `WorkerProps` | Join, message loop, relay, cycle, heartbeat check, program; a stack of labels per goroutine |
| `WorkerProofs` | theorems about it: shape of the stacks, types, order of spawns; that the state tells the truth |
| `Generator`, `GeneratorProps`, `GeneratorProofs` | the load generator with several user classes under overlapping calls; properties; theorems |
| `Stats`, `StatsProps`, `StatsProofs` | users, aggregators, statistics process, last report on quit; theorems |
| `LogCapture`, `LogProps`, `LogProofs` | ring buffer and log report process, properties, theorems |
| `UserLife` | a user: `processUser` under its contexts, with an open `Process`; the abstract promise of a task set |
| `TaskSet`, `TaskSetProps`, `TaskSetProofs` | a user of the taskset package, which implements `UserLife`; properties; theorems |
| `StatsEntries`, `StatsEntriesProps`, `StatsEntriesProofs` | entries and errors on the way to the payload; the reference they are checked against; theorems |
| `Induction` | lemmas the proofs share: induction over numbers and finite sets, sums, recursive functions |
| `MC*` | the modules TLC runs; the instances are in the `.cfg` files |

`Worker` composes the message goroutines with the load generator and takes the
spawner coarsely: `Cap` swaps its target, looks whether the manager runs, then acts.
`Generator` has the load generator in full, with a spawner for each class taken as
`ThreadPool` promises it, and leaves out who calls it.
`Stats` takes the load generator as three phases and details the aggregators instead;
`StatsEntries` takes the same way with the data and without the goroutines.
`TaskSet` extends `UserLife`: it keeps its contexts and hooks and puts the frames of
`BaseImpl.Run` in the place of its open `Process`.
Operators commented as mutants are plausible bugs, in no specification; each breaks
one of the properties when it takes the place of the definition after it.

### Spawner

The token channel is a record of capacity, length and closed; the old channel that
`migrateSpawnCh` drains is `src`. Thread ids grow and the slice is only appended to
and cut at the front, so the list is a set and `pop(n)` takes the n smallest. The
driver is the goroutine that calls `Cap` and `Start` (the cycle); stoppers call
`Stop` then `StopAllThreads`, as `LoadGenerator.Stop` does from another goroutine.
The mode is chosen initially. `spawnFunc` may return at any time. A thread handed a
token by a send on an unbuffered channel is an action of its own; the worker itself
never meets a receiver on an unbuffered channel, because a receiving thread's token is
then still in the migration (`TokenConservation`). `Count()` is left out.

### Worker

The tail of a label stack is what a goroutine does after the current call, so `Stop`
and `Quit` are written once for their callers. `wstate` is `Worker.state`, `cancelFn`
says which of the two contexts `Worker.cancel` cancels. `connect`'s ticker and the
heartbeat timer may expire at any time. The message kind `garbage` stands for a message
that cannot be decoded, which makes `recv` fail. The master spawns users only on
a worker it has acknowledged. A send to the master has no effect on the model, and
after Join closed the transport a receive fails unless a reconnect opened it again.
A reconnect may fail, which the code does not notice (worker.go:509), and then the loop
goes on with the closed transport. A failing `close` closes the transport all the same,
but makes Join return without waiting for the message loop (worker.go:228-230). Users end
in the step that waits for them; when that step may wait for ever is a matter of
fairness, below.

### Generator

One goroutine, the driver, calls `Start`, `Spawn`, `StopUsers` and `Stop`, as the load
test cycle does; stoppers call `Stop` beside it, as a quit does. A call that returns at
once without a change (a `Stop` of a generator that is not started) is no step. What a
call does to the spawners is a job for each class, a sequence of labels of which the
head is the next step: `Stop` and `StopUsers` work on all classes in parallel, `Start`
finishes one before the next. `Cap` swaps its target, looks for the manager, and then
changes the list or launches a new manager. While a manager migrates tokens its pool is
closed; it opens when all live users have a token. An open pool may spawn whenever there
is room, as `RestartAlways` does, which includes what the other modes do. The handlers
of each kind are one step; those of `OnTestStart` end well or fail, at any time. A user
takes its aggregator some time after it was spawned, even when it was canceled
meanwhile. `alone` records whether a call has been overlapped by another, `cutIn`
where `Start` was when a `Stop` cut in.

### Stats

A Stats is the number of requests in it. A request is in a channel, an aggregator,
`Worker.stats`, with the master, or thrown away by a reset. A user that was started
before a stop may take its aggregator during the stop. The send to the master is taken
to succeed: `sendStats` clears the statistics before sending and ignores a failure,
so a failed send loses one report by design. A test may start at any time, also
between the `Stop` and the `Quit` of a quit message and after them (worker.go:566-576
does not look); `quit` notes when the `Stop` of the quit message has returned. How a
Start overlaps a Stop is left to `Generator`.

### UserLife and TaskSet

`soft` is the context of the spawner's thread, `hard` the one of `WithGracefulStop`,
which hooks and tasks see. `timer` is first the `context.AfterFunc`, then the
`time.AfterFunc` it starts; leaving `processUser` stops the first and not the second,
which then cancels a context nobody looks at. What the program's hooks and tasks
return is one of a few outcomes, `Results`: nil and `RescheduleTask` are the same
("ok"), `RescheduleTaskImmediately` is "now", any other error an exception. The
runner is never nil, as the load generator has it. `StopUser` from a user's own
`OnStop` is reported like an exception, which is what generator.go:112 does.

A frame is one activation of `BaseImpl.Run`, `ret` the error on its way to the frame on
top. Tasks of a set are a sequence of nodes; the sets form a tree, so that no set runs
in two users or in itself. A node is a place in that tree: a task that is listed twice is two
nodes, and a set is listed once, since its second filter would replace what the first left. Wrappers are a sequence, outermost first; `Tag` copies the
tags of what it wraps, so that the tags of a task are the union. The filter is applied
once, when the user starts, and depends only on the run: `FilterTasks` is a recursive
function of a set and of whether its tasks need a tag. Tasks that the program schedules
pass no filter, and are leaves here. Waiting takes any time. What a set's `OnStop`
returns counts only where the code looks at it, after an interrupt. A set whose
`OnStart` returns when the grace period is over is left without its `OnStop`, as the
tests of the package expect. A root set without tasks panics in the user's
goroutine, which ends the process: nothing happens after `Panicked`.

### StatsEntries

Times are small numbers, response times microseconds, names and errors sequences of
what lies between the dots in them. A request may reach its aggregator at any later
time and in any order. The two ways of the requests are histories, `got` and `told`,
from which the properties calculate what the entries and the last report should be.
`ErrorKey.Encode` joins its parts with dots before it hashes them, so that two errors can
have one key ("a.b" with "c", "a" with "b.c"), and one of them would be missing in the
payload; `EntriesAssumption` leaves such names out. Units and field names of the payload
are left out, the nil pointer for a missing minimum is not. The total's `StartTime` is
that of the interval, as the code sets it.

### LogCapture

A line is its ordinal number. `Write` holds the mutex while it appends; the reporter's
`Total` and `Lines` are two critical sections. The bytes of a partial line and the
trimming of carriage returns are left out.

## Runs

| Run | Question | Bounds |
|---|---|---|
| `spawner` | tokens, capacity, evictions, backfill, the inductive invariant, in all modes with a concurrent stopper; refinement of `ThreadPool`; calls return; the pool fills up | 4 calls, 3 threads, capacity 2 |
| `spawner_resurrect` | does a stopped manager stay stopped beside a `Cap`? No | 3 calls, capacity 1 |
| `worker` | order of spawns, truth of the state, quits cancel, Join returns or what holds it up | 3 messages of any kind, 2 timestamps, heartbeat expiry, 1 call of the program |
| `worker_relay` | message loop not blocked; no spawn forgotten | 4 messages, 3 timestamps |
| `worker_quit_spawn` | does Join return after a quit? Not beside a spawn | 2 messages |
| `generator` | shared references, Stops that overlap, what a Stop leaves behind; calls return, a Stop ends `OnTestStart` | 2 classes of 1 user each, a stopper beside the driver, 4 calls |
| `generator_interrupted` | is a spawn abandoned when `Start` was stopped? Not if the handlers succeed | 1 class, 1 user, 2 calls |
| `stats` | conservation, reference counts, ends, arrival, stops | 2 users on a shared aggregator, 2 aggregators, 2 requests |
| `stats_quit_overlap` | does Stop return when a quit overlaps it? No | 1 user, 2 requests |
| `tasks` | grace period, tasks after a stop, exceptions, stopped sets, filter, refinement of `UserLife`, end of the user | three nested sets of two tasks, all choices of 3 tags, 2 exceptions, 1 task scheduled ahead |
| `entries` | entries, errors and reports against a calculation | 2 aggregators, 6 kinds of requests, 3 requests, 2 times |
| `log` | ring and reports | 3 slots, 8 lines, 2 to a write |

The bounds are small but the cases that matter occur in them. Four calls suffice for
start, raise, lower or stop, and start again, and capacity 2 with three threads makes the
migration overflow and drain. Three timestamps put one spawn in each of the cycle,
the relay and the message loop. Two users sharing one aggregator with a second one
to create cover assignment, release and the aggregator that outlives its users. Four
calls are a start, a stop that overlaps it, another start and the stop that has to clean
up after them, or a start with a spawn, a stop and one more call; two classes put a user of one beside the launch or the
stop of the other. Eight
lines wrap a ring of three more than twice. A sequential set with a random set in it,
and a third in that, has tags above, beside and below those that are asked for, and
an interrupt or exception passes through two frames to the user; two exceptions tell
"each once" from "once". Three requests fill one entry from two aggregators and a
second one, with each of the sentinels on either side of a merge, and the response
times lie on both sides of a change of unit and of a rounding.

`MaxSpawns`, `MaxCalls`, `MaxCount`, `MaxMsgs`, `MaxExt`, `MaxTime`, `MaxUsers`,
`MaxAggs`, `MaxReports`, `MaxBatch`, `MaxTotal`, `MaxErrors`, `MaxQueue`, `MaxClock` and
`MaxAdds` are the bounds; they appear only in guards and in the ranges of inputs.
The types are checked in the runs of the worker and of the statistics, as a part of `IndInv`
in those of the spawner and of the log, and proved for the load generator; `EntriesExact`
fixes every field of an entry.
Deadlock checking is off for the worker, the load generator, the statistics, the log and the task sets,
which really may come to rest: the master may be silent for ever, after Join
nothing happens, and a user that is gone is gone. The spawner has an action `Rest` for its
legitimate resting states instead, so that TLC looks for deadlocks in it.

### Fairness

Every goroutine that can go on is scheduled (weak fairness of its steps). A canceled
`spawnFunc` returns: the contract of the spawner. Nobody has to make a call or send a
message, and users need not end by themselves. In `worker_relay` the cycle is not even
fair, since handlers of the program run in it; `NoSpawnForgotten` assumes that it is.
Two kinds of steps of the worker are owed only under a condition. The statistics process
ends with the join context, and from then on users may be stuck in `Report`, so a step that
waits for users may be stuck too (`AwaitsUsers`): `StopAllThreads` while there are
users, a migration to a lower target, and the `Spawner.Stop` that waits for such a
migration. And a dial is retried without limit (transport.go:43): the one of Join ends
for sure when its context is canceled, the one of a reconnect, whose context is
`context.Background()`, never does for sure. The handlers of `OnTestStopping`, `OnTestStop`
and `OnQuitting` return of their own accord.
Steps that compete in a `select`, or wait in the queue of a channel or of a mutex, get
strong fairness: Go picks at random among ready cases, serves the waiters of a channel
in order, and its mutex hands over to a starving waiter. In `generator` a user
ends when it is canceled, and the `OnTestStart` handlers return once their context is;
before that they need not, and so `Start` may stay in them. The handlers of a stop
return of their own accord. Sends of logs succeed when
tried often enough. In `tasks` the goroutine of the user and the timers go on; tasks and
hooks of the program need return only once the graceful context is canceled, `OnStop`
hooks of their own accord, and a wait need never be over: `UserStops` then says that
the stop itself gets the user out of a task and out of a wait.

## What the runs found

* `Cap` reads `isRunning` and acts later (spawner.go:81-83): a `Stop` in between is
  undone by the worker that `Cap` then launches. With a single caller this
  cannot happen, which theorem `StopsAlone` states.
* The message loop sends on `spawnCh` without watching the context (worker.go:480).
  Once the relay has exited after a quit, the loop blocks and `Join` never returns.
  `JoinReturnsOrHeldUp` lists what else keeps `Join` from returning after a quit: a
  reconnect that never ends its dial, or that opens the transport again after `Join`
  closed it (worker.go:509); and users that block in `Report` once the statistics process is
  gone, for which the cycle waits (worker.go:220) or the message loop does
  (worker.go:232), in a stop or in a migration. Each of these occurs in the run, and within
  the model, where the program's handlers return, they are all there are.
* `Worker.Stop` returns at once when another goroutine is stopping (worker.go:241), so
  a quit message during a stop cancels the statistics process while users still
  report: their aggregators block, and the stop never ends. While the process runs,
  stops do return (`StopReturnsWhileRead`).
* A `Stop` that comes while `Start` runs its handlers cancels their context, but when
  they return nil all the same, `Start` launches the managers (generator.go:166) and the
  cycle goes on to spawn (worker.go:572-594): users run in a generator that counts as
  stopped, and are there when `Join` returns. A `Stop` just before the cancel
  function is stored (generator.go:144) does not cancel anything. The next `Stop`
  that goes ahead without overlap does clean up (`StopsCleanUp`).
* Observed while modelling, without a run of its own: the last report on quit misses what the aggregators have not handed over
  (worker.go:518-520, against the comment at worker_test.go:640).

## Proofs

The theorems hold for every value of the constants that satisfies the modules'
assumptions (`ConstAssumption`, `WorkerAssumption`, `GeneratorAssumption`, `StatsAssumption`,
`EntriesAssumption`, `LogAssumption`, `UserAssumption`, `TaskSetAssumption`): parameters are
naturals, the driver is no stopper, different errors have different keys in the payload, the
task sets are a finite tree with the root on top and weights are integers. They are safety
results, and every safety property that a run checks is one of them; the argument is
induction over steps, and in the entries and the filters induction over data as well.

**Induction.** The prover cannot instantiate induction theorems that take a predicate as a
parameter. `NumberInduction` and `SetInduction` take the set of those that satisfy it instead,
and rest on the fact that a set of numbers has a least one. A recursive function is a choice
among the functions that solve its equation; `Recursion` shows that there is one when each
value depends on values of lower rank only, after which the equation may be used. `SumStep`
to `SumSupport` say of the library's sum over a set what one expects of a sum.

**Spawner.** None of the properties is inductive alone: that the capacity is respected
follows from counting tokens, the tokens from knowing who may touch which channel
when. `IndInv` therefore joins `TypeOK`, `TokenConservation`, `AccountInv` (what
`totalSpawned` counts) and `Protocol`, whose parts say which goroutine is where while
a mutex is held or a worker missing: only an exited worker's channel is retired,
the new channel is migrated before its worker runs, the list's capacity is the
channel's while a worker is active. There is one lemma for each action, and
`Invariance` combines them. From it: `TypeCorrect`, `TokensConserved`,
`CapacityRespected`, `NoEviction`, `NoBackfill`, `StopsAlone` (one caller), and
`PoolImplemented`, that every step is a step of `ThreadPool` or a stutter. The
part `worker = "spawn" => lastID < MaxSpawns` is about the bound on threads and
not about the code.

**Worker.** The goroutines are stacks of labels, so the first thing to prove is their
shape (`StackOK`): exactly one label of a stack is one that a goroutine never returns
from, and it is the last; a spawn is offered, or the transport opened again, only at
the head. `Popped`, `Pushed` and `Replaced` say that the three moves keep it. `IndInv` is
this (`Control`), the types, and `Order`, which adds to `SpawnsInOrder` that no spawn on
its way is newer than the last one received: without it a spawn offered could be
older than the one held. From it `TypeCorrect` and `InOrder`.

`WorkerTruth` proves `StateTellsTruth` on top of it. Between commands nothing can be
said without knowing what the cycle did before, so `CycleTruth` names each stack the
cycle can have and says what is true of the generator there: after `start` nothing runs
yet, from `announce` on the manager runs, before `complete` its target is that of the
spawn, after `stopUsers` there are no users. It is claimed only while no other goroutine
has begun to stop or to quit (`Calm`), and the rest of the invariant shows that
`Calm`, once over, never comes back: `Phases`, that no goroutine runs before Join has
started it, hence none sees the second store of the cancel function undo its Quit;
and `Quitting`, that the message loop and the heartbeat check call nothing below a
Quit, so that when they are done with their calls the cancel function is gone.

**Generator.** The invariant falls into two parts that do not need each other. `AggOK`
is about the references, as for `Stats` below, here with `Start` and `Stop` letting the
current aggregator go at any time (`LetGo`, `DropKeeps`); it gives `ReferencesExact`.
`Inv` is about the calls. A Stop that is alone finds each class as it left it: `Clean`
says, by what is left of its job, that there is no manager once it has stopped it, that it
waits for all users of the class once it has cleared them, and that there are none when it
has waited. This needs that nobody else waits for one of them (`Jobs`: only who is about
to wait does), that no other call is in progress (`Undisturbed`), and that users start
only in an open pool. A call goes on without jobs (`AdvanceKeeps`) or works at one class
(`WorkKeeps`, `JobKeeps`), and every action is one of the two. From it
`StoppedAtMostOnce` and, with `AggOK`, `StopsCleanUp`: without users there are no
references but the generator's, and that one is gone.

**Stats.** A count stays exact only if every release is of a reference that was taken.
`IndInv` adds `Owners` to the types and `RefsExact`: a user refers to an aggregator
exactly from its start to its end, only aggregators that have been created are referred
to, and while one takes users it is the current one. `Quota` says that what is begun
fits into the bounds. `Moved` counts the users at a place when one of them moves, `LetGo`
says what a release does to the count. From it `TypeCorrect` and `ReferencesExact`.

`NothingLost` is that requests are conserved, for any number of aggregators. The requests in
aggregators and their channels are the sum of a function over them (`Held`). A step changes
that function for one aggregator at most (`SumChange`), and what it takes away from the sum
arrives at the worker, at the master or with the reset. `Conserved` adds that an aggregator
that is not created yet holds nothing, so that to create one changes no sum.

**StatsEntries.** What a Stats says of a bag of requests is calculated from the bag in one
go (`EntriesOf`, `ErrorsOf`). Everything in that calculation splits over the union of bags:
sums and histograms are added (`SumUnion`, `CountByUnion`), the extremes compared, with the
sentinels for none (`LeastUnion`, `MostUnion`). So merging two Stats is union
(`EntriesUnion`, `ErrorsUnion`), which is what makes any order and any grouping of merges
give the same, and adding a request is merging a bag of one (`EntriesAdd`). Here the fields
of an entry have to be brought together with the branches of `AddTo`, and `Rounding` shows that
to add half a unit and divide finds the nearest multiple of the unit for every response
time. (The code divides in floating point; halves are exact there, and nothing else is near one.) `AggregateExact` is an induction over the keys: the total folded from
the entries is the entry of all requests, whatever the order of the fold. `IndInv` then says
that each Stats holds the requests of its history (`Holds`), and the last report tells of
those it was made from. From it `EntriesCorrect`, `ErrorsCorrect` and `ReportsCorrect`.

**TaskSet.** For every tree of sets, every choice of tags, every bound. `IndInv` has
five parts. `ControlInv`: frames exist only while the user is in `Process`, and all but the top one
are in the task that the next frame is. `LateInv`: after a stop a set that is about to
pick has begun no task since, and the check before it lets no other come to pick.
`OpenInv`: the sets to be stopped are the frames past their `OnStart`, unless an
exception that is not caught is on its way out. `ErrorInv`: each exception is
reported or on its way. And `GraceKept`. The first lemmas say what pushing, popping and
changing the top frame do to a stack; then comes one lemma for each action.
`TaskSetsAreUsers` maps a step inside a set to `Works` when an exception is
raised or caught in it, and to a stutter otherwise.

`FilteringExact` needs what the recursive filter computes. `AmongTimes` counts what the loop
over a set's tasks keeps, `Copied` and `ListedIs` what a random set's constructor lists, so
that `FilteredIs` says what is in a filtered list and how often. The properties speak of the
way from the root to a task, which is not recursive; `InsideTask` and `WayIs` say how it grows
by one node, because a node has only one set it is in. Then `NeedsTag` at a set is the fact that
nothing on the way to it has a tag that is asked for (`UnmatchedIs`), and two inductions over
the tree show that what is left of a set can run (`LeftCanRun`) and that what can run is left
in every set above it (`CanRunLeft`). `FilterInv` carries this over to the frames of the stack:
each runs a set with nothing excluded on its way, knows whether its tasks need a tag, has
something left unless it is the root's, and has its index inside its list. So a random
choice, the next of a sequence and a scheduled task are what they should be, and only
a root without any task that can run panics.

**LogCapture.** `IndInv` says that the i-th line of the ring is line
total - count + i, and that a snapshot ends with a line no older than the total read
before it. `WrapOnce` replaces the remainder by one subtraction; `BelowStep` and
`OverStep` are the two cases of an append. From it: `RingHoldsLatest` for every
capacity, and `NothingHidden`.

Only model-checked: liveness (`UserStops`, `CallsReturn`, `StopEndsStart`, `CapacityMaintained`,
`MessageLoopNeverBlocked`, `NoSpawnForgotten`, `JoinReturnsOrHeldUp`, `QuitCancels`,
`AggregatorsEnd`, `ReportsArrive`, `StopReturnsWhileRead`, `LinesArrive`), since liveness under
fairness and ENABLED are beyond the prover.

## Not modelled

Payload formats, encodings, custom messages, host and parsed options, CPU and memory
metrics, the `Count()` of a spawner, ZeroMQ. `Generator` takes its caller as open and
`Worker` has one user class, so that the cycle with several classes is not composed
in one module; neither depends on what the other leaves out. How long a wait lasts (wait.go): a user may wait for any time. `Tag` appends to
the slice of the tags it copies, so that two tagged copies of one tagged task may share an
array and the later overwrite the tags of the earlier (tag.go:51); tags are sets here,
never shared. For the same reason `StatsEntries` cannot tell whether two structures
share an entry or a map: entries are values, and that `Flush` hands over a map nobody
adds to is taken from the code. One task set that several users share, which each of them would
initialise and filter.

## Plan

1. `Spawner`, `ThreadPool`, proofs of safety and refinement (done).
2. `Worker`, `Stats`, `LogCapture`, proofs about `LogCapture` (done).
3. `UserLife`, `TaskSet`: users, nested task sets, filters; proofs of safety and of
   refinement (done).
4. `StatsEntries`: entries and errors against reference definitions (done).
5. Proofs about `Worker` (types, order of spawns, truth of the state) and about `Stats`
   (types, reference counts) (done).
6. `Generator`: several classes, overlapping calls, cancellation of `OnTestStart`;
   proofs of its safety (done).
7. Proofs over data: `Conservation`, `StatsEntries`, `FilterExact` (done).
8. Abstract promises of the statistics (a channel that loses nothing but what a reset throws
   away) and of the load test cycle as seen by the master, and proofs that `Stats` and
   `Worker` implement them; the safety halves of the liveness properties, what a blocked
   goroutine waits for, as invariants.
9. `Worker` with `Generator` in the place of its own, coarser one.
