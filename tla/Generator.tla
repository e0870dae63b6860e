------------------------------ MODULE Generator ------------------------------
(***************************************************************************)
(* The load generator of generator.go: Start with its OnTestStart handlers *)
(* and their context, Spawn, StopUsers and Stop, the users, and the        *)
(* aggregators these share.  One goroutine, the driver (the load test      *)
(* cycle of the worker), calls anything; others call Stop at any time.     *)
(*                                                                         *)
(* A call that returns at once without a change is no step.  What a call   *)
(* does to the spawners is a job for each user class, a stack of labels;   *)
(* Stop and StopUsers do their jobs in parallel, Start one after another.  *)
(* A spawner is taken as ThreadPool.tla has it: a pool with a limit that   *)
(* is closed while its tokens migrate.                                     *)
(***************************************************************************)
EXTENDS Integers, Sequences, FiniteSets

CONSTANTS
  Classes,  \* the user classes
  Users,    \* the user goroutines
  Stoppers, \* goroutines that call Stop
  Driver,   \* the goroutine that calls anything
  Share,    \* StatsAggregationUsers
  MaxCount, \* bound: the users of a class
  MaxCalls, \* bound: calls
  MaxAggs   \* bound: aggregators created

ASSUME GeneratorAssumption ==
  /\ IsFiniteSet(Users) /\ "none" \notin Classes /\ Driver \notin Stoppers /\ Share \in Nat \ {0}
  /\ MaxCount \in Nat /\ MaxCalls \in Nat /\ MaxAggs \in Nat

VARIABLES
  pc,           \* where each goroutine is in its call
  job,          \* what it has left to do to the spawner of each class
  want,         \* count of the driver's Spawn
  started,      \* LoadGenerator.started
  cancelStart,  \* cancelStart holds the cancel function of the Start in progress
  startCtx,     \* the context of the OnTestStart handlers is canceled
  target,       \* count of each spawner
  limit,        \* capacity of its token channel
  pool,         \* its manager: "none", "migrating" or "open"
  user,         \* the class that each user runs in, or "none"
  canceled,     \* users whose context is canceled
  waiting,      \* users that StopAllThreads of a goroutine waits for, by class
  rep,          \* the aggregator of each user, 0 until it has one
  current,      \* currentStatsAggregator, 0 for nil
  counter,      \* aggUserCounter
  agg, created, \* the aggregators, by order of creation
  calls,        \* counter of the bound
  alone,        \* history: no call has overlapped this one
  cutIn,        \* history: where Start was when a Stop cut in
  tests, ends   \* history: tests begun, and Stops that went ahead

callVars == <<pc, job, want, calls, alone>>
testVars == <<started, cancelStart, startCtx, cutIn, tests, ends>>
poolVars == <<target, limit, pool>>
userVars == <<user, canceled, waiting>>
aggVars  == <<rep, current, counter, agg, created>>
vars == <<callVars, testVars, poolVars, userVars, aggVars>>

Procs == Stoppers \cup {Driver}
IDs == 1 .. MaxAggs
At(p, label) == pc[p] = label

Idle == [c \in Classes |-> <<>>]
JobsDone(p) == job[p] = Idle

Init ==
  /\ pc = [p \in Procs |-> "idle"] /\ job = [p \in Procs |-> Idle] /\ want = 0
  /\ calls = 0 /\ alone = [p \in Procs |-> FALSE]
  /\ started = FALSE /\ cancelStart = FALSE /\ startCtx = FALSE
  /\ cutIn = "no" /\ tests = 0 /\ ends = 0
  /\ target = [c \in Classes |-> 0] /\ limit = [c \in Classes |-> 0]
  /\ pool = [c \in Classes |-> "none"]
  /\ user = [u \in Users |-> "none"] /\ canceled = {}
  /\ waiting = [p \in Procs |-> [c \in Classes |-> {}]]
  /\ rep = [u \in Users |-> 0] /\ current = 0 /\ counter = 0 /\ created = 0
  /\ agg = [i \in IDs |-> [refs |-> 0, closed |-> FALSE]]

\* A call begins: any other one in progress is no longer alone.
Begin(p, label) ==
  /\ At(p, "idle") /\ calls < MaxCalls /\ calls' = calls + 1
  /\ pc' = [pc EXCEPT ![p] = label]
  /\ alone' = [q \in Procs |-> q = p /\ \A r \in Procs \ {p} : At(r, "idle")]

Goto(p, label) == pc' = [pc EXCEPT ![p] = label] /\ UNCHANGED <<want, calls, alone>>

(***************************************************************************)
(* The aggregators.  The last Release closes the channel.                  *)
(***************************************************************************)
Release(a) == [refs |-> a.refs - 1, closed |-> a.refs = 1]
LetCurrentGo == IF current = 0 THEN agg ELSE [agg EXCEPT ![current] = Release(@)]

\* Mutant: the generator still refers to an aggregator it has let go.
DropKeeping == agg' = LetCurrentGo /\ counter' = 0 /\ UNCHANGED <<rep, current, created>>
Drop == agg' = LetCurrentGo /\ current' = 0 /\ counter' = 0 /\ UNCHANGED <<rep, created>>

(***************************************************************************)
(* Start.                                                                  *)
(***************************************************************************)
StartJob == <<"swap", "launch">>

CallStart ==
  /\ ~started /\ Begin(Driver, "store")
  /\ started' = TRUE /\ tests' = tests + 1 /\ cutIn' = "no"
  /\ UNCHANGED <<job, want, cancelStart, startCtx, ends, poolVars, userVars, aggVars>>

StoreCancel ==
  /\ At(Driver, "store") /\ Goto(Driver, "letgo") /\ cancelStart' = TRUE /\ startCtx' = FALSE
  /\ UNCHANGED <<job, started, cutIn, tests, ends, poolVars, userVars, aggVars>>

StartDrops ==
  /\ At(Driver, "letgo") /\ Goto(Driver, "handlers") /\ Drop
  /\ UNCHANGED <<job, testVars, poolVars, userVars>>

HandlersSucceed ==
  /\ At(Driver, "handlers") /\ Goto(Driver, "classes")
  /\ job' = [job EXCEPT ![Driver] = [c \in Classes |-> StartJob]]
  /\ UNCHANGED <<testVars, poolVars, userVars, aggVars>>

HandlersFail ==
  /\ At(Driver, "handlers") /\ Goto(Driver, "return") /\ started' = FALSE
  /\ UNCHANGED <<job, cancelStart, startCtx, cutIn, tests, ends, poolVars, userVars, aggVars>>

StartedClasses ==
  /\ At(Driver, "classes") /\ JobsDone(Driver) /\ Goto(Driver, "return")
  /\ UNCHANGED <<job, testVars, poolVars, userVars, aggVars>>

\* The deferred cancellation.
StartReturns ==
  /\ At(Driver, "return") /\ Goto(Driver, "idle") /\ cancelStart' = FALSE /\ startCtx' = TRUE
  /\ UNCHANGED <<job, started, cutIn, tests, ends, poolVars, userVars, aggVars>>

(***************************************************************************)
(* Spawn and StopUsers.                                                    *)
(***************************************************************************)
CallSpawn(c, n) ==
  /\ Begin(Driver, "cap") /\ want' = n
  /\ job' = [job EXCEPT ![Driver][c] = <<"swap">>]
  /\ UNCHANGED <<testVars, poolVars, userVars, aggVars>>

CallStopUsers ==
  /\ Begin(Driver, "cap") /\ want' = 0
  /\ job' = [job EXCEPT ![Driver] = [c \in Classes |-> <<"swap", "clear", "wait">>]]
  /\ UNCHANGED <<testVars, poolVars, userVars, aggVars>>

CapReturns ==
  /\ At(Driver, "cap") /\ JobsDone(Driver) /\ Goto(Driver, "idle")
  /\ UNCHANGED <<job, testVars, poolVars, userVars, aggVars>>

(***************************************************************************)
(* Stop.                                                                   *)
(***************************************************************************)
\* Mutant: the users are stopped before the manager.
UsersFirst == <<"clear", "manager", "wait">>
StopJob == <<"manager", "clear", "wait">>
InStart == {"store", "letgo", "handlers", "classes", "return"}

\* Mutant: Stop goes ahead although another has.
CallStopAnyway(p) ==
  /\ Begin(p, "cut") /\ started' = FALSE /\ ends' = ends + 1
  /\ cutIn' = IF pc[Driver] \in InStart THEN pc[Driver] ELSE cutIn
  /\ UNCHANGED <<job, want, cancelStart, startCtx, tests, poolVars, userVars, aggVars>>
CallStop(p) ==
  /\ started /\ Begin(p, "cut") /\ started' = FALSE /\ ends' = ends + 1
  /\ cutIn' = IF pc[Driver] \in InStart THEN pc[Driver] ELSE cutIn
  /\ UNCHANGED <<job, want, cancelStart, startCtx, tests, poolVars, userVars, aggVars>>

\* Mutant: the handlers of a Start in progress are not canceled.
CutNothing(p) ==
  /\ At(p, "cut") /\ Goto(p, "stopping")
  /\ UNCHANGED <<job, testVars, poolVars, userVars, aggVars>>
Cut(p) ==
  /\ At(p, "cut") /\ Goto(p, "stopping") /\ startCtx' = (startCtx \/ cancelStart)
  /\ UNCHANGED <<job, started, cancelStart, cutIn, tests, ends, poolVars, userVars, aggVars>>

\* The OnTestStopping handlers return.
Stopping(p) ==
  /\ At(p, "stopping") /\ Goto(p, "stopClasses")
  /\ job' = [job EXCEPT ![p] = [c \in Classes |-> StopJob]]
  /\ UNCHANGED <<testVars, poolVars, userVars, aggVars>>

StopDrops(p) ==
  /\ At(p, "stopClasses") /\ JobsDone(p) /\ Goto(p, "stopHandlers") /\ Drop
  /\ UNCHANGED <<job, testVars, poolVars, userVars>>

StopReturns(p) ==
  /\ At(p, "stopHandlers") /\ Goto(p, "idle")
  /\ UNCHANGED <<job, testVars, poolVars, userVars, aggVars>>

(***************************************************************************)
(* The jobs at the spawner of a class.                                     *)
(***************************************************************************)
Live(c) == {u \in Users : user[u] = c}
Listed(c) == Live(c) \ canceled
Above(n, k) == IF n > k THEN n - k ELSE 0

\* Start goes from class to class.
InTurn(p, c) == At(p, "classes") => \A d \in Classes \ {c} : job[p][d] \in {<<>>, StartJob}
Doing(p, c, label) == job[p][c] # <<>> /\ Head(job[p][c]) = label /\ InTurn(p, c)
\* The step is done, and replaced by the given ones.
Replace(p, c, labels) ==
  job' = [job EXCEPT ![p][c] = labels \o Tail(@)] /\ UNCHANGED <<pc, want, calls, alone>>

\* Cap: Start has it called with zero.
Count(p) == IF At(p, "cap") THEN want ELSE 0

CapSwap(p, c) ==
  /\ Doing(p, c, "swap") /\ target' = [target EXCEPT ![c] = Count(p)]
  /\ Replace(p, c, IF target[c] = Count(p) THEN <<>> ELSE <<"check">>)
  /\ UNCHANGED <<testVars, limit, pool, userVars, aggVars>>

CapCheck(p, c) ==
  /\ Doing(p, c, "check")
  /\ Replace(p, c, IF pool[c] = "none" THEN <<"list">> ELSE <<"launch">>)
  /\ UNCHANGED <<testVars, poolVars, userVars, aggVars>>

\* Without a manager only the list of the threads shrinks.
CapList(p, c) ==
  /\ Doing(p, c, "list") /\ Replace(p, c, <<>>)
  /\ \E S \in SUBSET Listed(c) :
       /\ Cardinality(S) = Above(Cardinality(Listed(c)), target[c])
       /\ canceled' = canceled \cup S
  /\ UNCHANGED <<testVars, poolVars, user, waiting, aggVars>>

\* Mutant: users without room in the new channel are not canceled.
LaunchKeeping(p, c) ==
  /\ Doing(p, c, "launch") /\ Replace(p, c, <<"migrate">>)
  /\ pool' = [pool EXCEPT ![c] = "migrating"] /\ limit' = [limit EXCEPT ![c] = target[c]]
  /\ UNCHANGED <<testVars, target, userVars, aggVars>>
\* spawnWorker: the old manager is stopped, and one user is canceled for each token that
\* has no room in the new channel; the new manager starts when all tokens have moved.
Launch(p, c) ==
  /\ Doing(p, c, "launch") /\ Replace(p, c, <<"migrate">>)
  /\ pool' = [pool EXCEPT ![c] = "migrating"] /\ limit' = [limit EXCEPT ![c] = target[c]]
  /\ \E S \in SUBSET Listed(c) :
       /\ Cardinality(S) \in Above(Cardinality(Listed(c)), target[c])
                               .. Above(Cardinality(Live(c)), target[c])
       /\ canceled' = canceled \cup S
  /\ UNCHANGED <<testVars, target, user, waiting, aggVars>>

Migrated(p, c) ==
  /\ Doing(p, c, "migrate") /\ Replace(p, c, <<>>)
  /\ Cardinality(Live(c)) <= limit[c] /\ pool' = [pool EXCEPT ![c] = "open"]
  /\ UNCHANGED <<testVars, target, limit, userVars, aggVars>>

\* Spawner.Stop waits for the manager, which waits for the migration.
ManagerStop(p, c) ==
  /\ Doing(p, c, "manager") /\ Replace(p, c, <<>>)
  /\ pool[c] # "migrating" /\ pool' = [pool EXCEPT ![c] = "none"]
  /\ UNCHANGED <<testVars, target, limit, userVars, aggVars>>

\* StopAllThreads takes over the wait group, so that a user is waited for once.
Clear(p, c) ==
  /\ Doing(p, c, "clear") /\ Replace(p, c, <<>>)
  /\ canceled' = canceled \cup Live(c)
  /\ waiting' = [waiting EXCEPT ![p][c] = {u \in Live(c) : \A q \in Procs : u \notin waiting[q][c]}]
  /\ UNCHANGED <<testVars, poolVars, user, aggVars>>

Waited(p, c) ==
  /\ Doing(p, c, "wait") /\ waiting[p][c] = {} /\ Replace(p, c, <<>>)
  /\ UNCHANGED <<testVars, poolVars, userVars, aggVars>>

(***************************************************************************)
(* A user: spawned by the manager of its class, it takes an aggregator     *)
(* even if it was canceled meanwhile, and releases it when it ends.        *)
(***************************************************************************)
Starting == {u \in Users : user[u] # "none" /\ rep[u] = 0}

SpawnUser(u, c) ==
  /\ user[u] = "none" /\ pool[c] = "open" /\ Cardinality(Live(c)) < limit[c]
  /\ created + Cardinality(Starting) < MaxAggs
  /\ user' = [user EXCEPT ![u] = c]
  /\ UNCHANGED <<callVars, testVars, poolVars, canceled, waiting, aggVars>>

\* The place of the next user in its aggregator.
NextSlot == (counter + 1) % Share

\* Every Share users a new aggregator becomes the current one; the generator refers to it too.
JoinNew(u) ==
  /\ u \in Starting /\ counter = 0
  /\ LET id == created + 1
     IN  /\ agg' = [LetCurrentGo EXCEPT ![id] = [refs |-> 2, closed |-> FALSE]]
         /\ created' = id /\ current' = id /\ rep' = [rep EXCEPT ![u] = id]
  /\ counter' = NextSlot
  /\ UNCHANGED <<callVars, testVars, poolVars, userVars>>

JoinCurrent(u) ==
  /\ u \in Starting /\ counter # 0
  /\ agg' = [agg EXCEPT ![current].refs = @ + 1] /\ rep' = [rep EXCEPT ![u] = current]
  /\ counter' = NextSlot
  /\ UNCHANGED <<callVars, testVars, poolVars, userVars, current, created>>

Leave(u) ==
  /\ rep[u] # 0 /\ rep' = [rep EXCEPT ![u] = 0]
  /\ agg' = [agg EXCEPT ![rep[u]] = Release(@)]
  /\ user' = [user EXCEPT ![u] = "none"] /\ canceled' = canceled \ {u}
  /\ waiting' = [p \in Procs |-> [c \in Classes |-> waiting[p][c] \ {u}]]
  /\ UNCHANGED <<callVars, testVars, poolVars, current, counter, created>>

-----------------------------------------------------------------------------
JobStep(p, c) ==
  \/ CapSwap(p, c) \/ CapCheck(p, c) \/ CapList(p, c) \/ Launch(p, c) \/ Migrated(p, c)
  \/ ManagerStop(p, c) \/ Clear(p, c) \/ Waited(p, c)
StopStep(p) == Cut(p) \/ Stopping(p) \/ StopDrops(p) \/ StopReturns(p)
StartStep == StoreCancel \/ StartDrops \/ StartedClasses \/ StartReturns
Handlers == HandlersSucceed \/ HandlersFail

Next ==
  \/ CallStart \/ StartStep \/ Handlers
  \/ \E c \in Classes, n \in 0 .. MaxCount : CallSpawn(c, n)
  \/ CallStopUsers \/ CapReturns
  \/ \E p \in Procs : CallStop(p) \/ StopStep(p) \/ \E c \in Classes : JobStep(p, c)
  \/ \E u \in Users : JoinNew(u) \/ JoinCurrent(u) \/ Leave(u) \/ \E c \in Classes : SpawnUser(u, c)

Spec == Init /\ [][Next]_vars

\* Goroutines are scheduled, canceled users end, and the handlers of OnTestStart return
\* when their context is canceled, as those of OnTestStopping and OnTestStop do by themselves.
Fairness ==
  /\ WF_vars(StartStep \/ CapReturns) /\ WF_vars(startCtx /\ Handlers)
  /\ \A p \in Procs : WF_vars(StopStep(p)) /\ \A c \in Classes : WF_vars(JobStep(p, c))
  /\ \A u \in Users : WF_vars(JoinNew(u) \/ JoinCurrent(u)) /\ WF_vars(u \in canceled /\ Leave(u))

FairSpec == Spec /\ Fairness
=============================================================================
