------------------------------- MODULE Spawner -------------------------------
(***************************************************************************)
(* The goroutine manager of spawner/spawner.go with the list of running    *)
(* threads of spawner/thread.go, at the granularity of its locks, atomics  *)
(* and channel operations.                                                 *)
(*                                                                         *)
(* One goroutine, the driver, calls Cap, Start, Stop and StopAllThreads in *)
(* any order (in the worker this is the load test cycle goroutine).  The   *)
(* goroutines of Stoppers call Stop and then StopAllThreads, concurrently  *)
(* with the driver (in the worker this is LoadGenerator.Stop, run by       *)
(* whichever goroutine called Worker.Stop or Worker.Quit).                 *)
(*                                                                         *)
(* The capacity of the pool is enforced by the buffered channel spawnCh: a *)
(* token is sent before a thread is spawned and received when it ends.     *)
(***************************************************************************)
EXTENDS Integers, FiniteSets

CONSTANTS
  Modes,     \* the RestartModes spawners are created with
  Driver,    \* the goroutine that calls Cap and Start
  Stoppers,  \* goroutines that only call Stop; StopAllThreads
  MaxCount,  \* bound: the largest argument of Cap
  MaxSpawns, \* bound: the number of threads spawned in a behaviour
  MaxCalls,  \* bound: the number of calls made in a behaviour
  None       \* no goroutine holds the mutex

IDs == 1 .. MaxSpawns
Callers == Stoppers \cup {Driver}

ASSUME ConstAssumption ==
  /\ Modes \subseteq {"LocustCompatible", "Never", "Always"}
  /\ MaxCount \in Nat /\ MaxSpawns \in Nat /\ MaxCalls \in Nat
  /\ Driver \notin Stoppers /\ None \notin IDs \cup Callers

VARIABLES
  mode,         \* Spawner.mode, never written again
  count,        \* Spawner.count, the target set by Cap
  totalSpawned, \* threads spawned since Start, less those reclaimed
  ch,           \* Spawner.spawnCh; nil is an empty closed channel
  chMutex,      \* the thread holding spawnChMutex, or None
  stop,         \* Spawner.stop # nil
  stopMutex,    \* the caller holding stopMutex, or None
  threads,      \* ids in threadList.threads; slice order is id order
  tlCount,      \* threadList.count
  lastID,       \* threadList.currentID
  wg,           \* threads counted by the current threadWg
  user,         \* where each spawned goroutine is
  canceled,     \* threads whose context was canceled by the list
  worker,       \* the spawnWorker goroutine of the current channel
  budget,       \* spawns left to spawnWorkerOnce
  stopReq,      \* stopCh of the current worker is closed
  pc,           \* where each caller is
  arg, reset,   \* the arguments of spawnWorker
  src,          \* the retired channel migrateSpawnCh drains
  joining,      \* threads a StopAllThreads call still waits for
  calls,        \* calls made so far
  gone,         \* history: threads that left the list since Start, not reclaimed
  halted        \* history: a Stop returned and no Start followed

capVars  == <<ch, src>>
listVars == <<threads, tlCount, canceled>>
userVars == <<user, wg, lastID, joining>>
stopVars == <<stop, stopMutex, stopReq, halted>>
workVars == <<worker, budget>>
acctVars == <<totalSpawned, gone>>
callVars == <<pc, arg, reset, calls, count>>
vars == <<mode, capVars, chMutex, listVars, userVars, stopVars, workVars, acctVars,
          callVars>>

\* A send or a receive that does not block (mutants: off by one, no waiting).
HasRoomOffByOne(c) == c.len <= c.cap
HasRoom(c) == c.len < c.cap
ReceivableAlways(c) == TRUE
Receivable(c) == c.len > 0 \/ c.closed

Channel(n) == [cap |-> n, len |-> 0, closed |-> FALSE]
NilChannel == [cap |-> 0, len |-> 0, closed |-> TRUE]

Init ==
  /\ mode \in Modes
  /\ count = 0 /\ totalSpawned = 0 /\ gone = 0 /\ calls = 0 /\ lastID = 0
  /\ ch = NilChannel /\ src = NilChannel
  /\ chMutex = None /\ stopMutex = None
  /\ stop = FALSE /\ stopReq = FALSE /\ halted = FALSE
  /\ threads = {} /\ tlCount = 0 /\ canceled = {}
  /\ user = [u \in IDs |-> "unborn"] /\ wg = {}
  /\ worker = "none" /\ budget = 0
  /\ pc = [c \in Callers |-> "idle"] /\ arg = 0 /\ reset = FALSE
  /\ joining = [c \in Callers |-> {}]

(***************************************************************************)
(* threadList.  Add appends increasing ids and pop cuts the front of the   *)
(* slice, so the list is a set and pop(n) takes its n smallest ids.        *)
(***************************************************************************)
Oldest(S, n) == {u \in S : Cardinality({w \in S : w < u}) < n}

\* Mutant: the contexts of the popped threads are not canceled.
PopWithoutCancel(S, n) == threads' = S \ Oldest(S, n) /\ UNCHANGED canceled
Pop(S, n) ==
  /\ threads' = S \ Oldest(S, n)
  /\ canceled' = canceled \cup Oldest(S, n)

\* Mutant: the slots of popped threads are not given back.
ReclaimNothing(S, n) == UNCHANGED totalSpawned
Reclaim(S, n) == totalSpawned' = totalSpawned - Cardinality(Oldest(S, n))

\* threads.Cap(n), reclaimed (mutant: the list keeps its old count).
ListCapKeepsCount(n) ==
  /\ Pop(threads, Cardinality(threads) - n) /\ Reclaim(threads, Cardinality(threads) - n)
  /\ UNCHANGED tlCount
ListCap(n) ==
  /\ Pop(threads, Cardinality(threads) - n) /\ Reclaim(threads, Cardinality(threads) - n)
  /\ tlCount' = n

\* The stop function waits for its worker to end (mutant: it does not).
DoNotWait == TRUE
WorkerEnded == stop => worker = "exited"

Goto(c, label) == pc' = [pc EXCEPT ![c] = label]

BeginCall(c) ==
  /\ pc[c] = "idle" /\ calls < MaxCalls
  /\ calls' = calls + 1

(***************************************************************************)
(* Cap and Start.                                                          *)
(***************************************************************************)
\* A Cap with the target already set returns at once and changes nothing.
CallCap(n) ==
  /\ BeginCall(Driver) /\ n # count
  /\ count' = n /\ arg' = n /\ reset' = FALSE
  /\ Goto(Driver, "check")
  /\ UNCHANGED <<mode, capVars, chMutex, listVars, userVars, stopVars, workVars, acctVars>>

CheckRunning ==
  /\ pc[Driver] = "check" /\ stopMutex = None
  /\ Goto(Driver, IF stop THEN "lock" ELSE "capList")
  /\ UNCHANGED <<mode, capVars, chMutex, listVars, userVars, stopVars, workVars, acctVars,
                 arg, reset, calls, count>>

\* reclaim(threads.Cap(count)), with no spawn worker to stop.
CapList ==
  /\ pc[Driver] = "capList" /\ ListCap(arg)
  /\ Goto(Driver, "idle")
  /\ UNCHANGED <<mode, capVars, chMutex, userVars, stopVars, workVars, gone,
                 arg, reset, calls, count>>

CallStart ==
  /\ BeginCall(Driver)
  /\ arg' = count /\ reset' = TRUE /\ halted' = FALSE
  /\ Goto(Driver, "lock")
  /\ UNCHANGED <<mode, capVars, chMutex, listVars, userVars, stop, stopMutex, stopReq,
                 workVars, acctVars, count>>

(***************************************************************************)
(* spawnWorker(arg, reset), run by the driver.                             *)
(***************************************************************************)
StopPrevious ==
  /\ pc[Driver] = "lock" /\ stopMutex = None
  /\ stopMutex' = Driver /\ stopReq' = stop
  /\ Goto(Driver, "await")
  /\ UNCHANGED <<mode, capVars, chMutex, listVars, userVars, stop, halted, workVars, acctVars,
                 arg, reset, calls, count>>

InstallStop ==
  /\ pc[Driver] = "await" /\ WorkerEnded
  /\ totalSpawned' = IF reset THEN 0 ELSE totalSpawned
  /\ gone' = IF reset THEN 0 - Cardinality(threads) ELSE gone
  /\ halted' = IF reset THEN FALSE ELSE halted
  /\ stop' = TRUE /\ stopReq' = FALSE /\ stopMutex' = None
  /\ worker' = "pending" /\ UNCHANGED budget
  /\ Goto(Driver, "swap")
  /\ UNCHANGED <<mode, capVars, chMutex, listVars, userVars, arg, reset, calls, count>>

SwapChannel ==
  /\ pc[Driver] = "swap" /\ chMutex = None
  /\ src' = ch /\ ch' = Channel(arg)
  /\ Goto(Driver, "migrate")
  /\ UNCHANGED <<mode, chMutex, listVars, userVars, stopVars, workVars, acctVars,
                 arg, reset, calls, count>>

\* Take a token from src; keep it in hand when the new channel is full.
MigrateToken ==
  /\ pc[Driver] = "migrate" /\ src.len > 0
  /\ src' = [src EXCEPT !.len = @ - 1]
  /\ IF HasRoom(ch)
       THEN ch' = [ch EXCEPT !.len = @ + 1] /\ UNCHANGED pc
       ELSE Goto(Driver, "pop") /\ UNCHANGED ch
  /\ UNCHANGED <<mode, chMutex, listVars, userVars, stopVars, workVars, acctVars,
                 arg, reset, calls, count>>

MigratePop ==
  /\ pc[Driver] = "pop"
  /\ Pop(threads, 1) /\ Reclaim(threads, 1)
  /\ Goto(Driver, "send")
  /\ UNCHANGED <<mode, capVars, chMutex, tlCount, userVars, stopVars, workVars, gone,
                 arg, reset, calls, count>>

\* Mutant: the token of the popped thread is dropped.
MigrateDrop ==
  /\ pc[Driver] = "send" /\ Goto(Driver, "migrate")
  /\ UNCHANGED <<mode, capVars, chMutex, listVars, userVars, stopVars, workVars, acctVars,
                 arg, reset, calls, count>>
MigrateSend ==
  /\ pc[Driver] = "send" /\ HasRoom(ch)
  /\ ch' = [ch EXCEPT !.len = @ + 1]
  /\ Goto(Driver, "migrate")
  /\ UNCHANGED <<mode, src, chMutex, listVars, userVars, stopVars, workVars, acctVars,
                 arg, reset, calls, count>>

\* An unbuffered channel hands the token to the thread blocked receiving.
MigrateHandOver(u) ==
  /\ pc[Driver] = "send" /\ ch.cap = 0 /\ chMutex = u
  /\ user' = [user EXCEPT ![u] = "exit"] /\ chMutex' = None
  /\ Goto(Driver, "migrate")
  /\ UNCHANGED <<mode, capVars, listVars, wg, lastID, joining, stopVars, workVars, acctVars,
                 arg, reset, calls, count>>

\* src is drained and closed: trim the list and launch the worker goroutine.
LaunchWorker ==
  /\ pc[Driver] = "migrate" /\ src.len = 0 /\ src.closed
  /\ ListCap(arg)
  /\ LET short == arg - totalSpawned'
     IN  budget' = IF mode = "Never" /\ short > 0 THEN short ELSE 0
  /\ worker' = "loop"
  /\ Goto(Driver, "idle")
  /\ UNCHANGED <<mode, capVars, chMutex, userVars, stopVars, gone, arg, reset, calls, count>>

(***************************************************************************)
(* The spawn worker goroutine, in its three modes.                         *)
(***************************************************************************)
WorkerAcquire ==
  /\ worker = "loop" /\ HasRoom(ch) /\ lastID < MaxSpawns
  /\ mode = "Never" => budget > 0
  /\ ch' = [ch EXCEPT !.len = @ + 1]
  /\ budget' = IF mode = "Never" THEN budget - 1 ELSE budget
  /\ worker' = "spawn"
  /\ UNCHANGED <<mode, src, chMutex, listVars, userVars, stopVars, acctVars, callVars>>

\* spawn(): threads.Add evicts the oldest threads above tlCount, unreclaimed.
WorkerSpawn ==
  /\ worker = "spawn"
  /\ LET id  == lastID + 1
         all == threads \cup {id}
     IN  /\ Pop(all, Cardinality(all) - tlCount)
         /\ wg' = wg \cup {id} /\ lastID' = id
         /\ user' = [user EXCEPT ![id] = "run"]
  /\ totalSpawned' = totalSpawned + 1
  /\ worker' = "loop"
  /\ UNCHANGED <<mode, capVars, chMutex, tlCount, joining, stopVars, budget, gone, callVars>>

\* The deferred close(spawnCh) and close(stopWaitCh).
\* Mutant: every mode ends once the channel is full.
WorkerExitWhenFull ==
  /\ worker = "loop" /\ (stopReq \/ ch.len = ch.cap \/ (mode = "Never" /\ budget = 0))
  /\ ch' = [ch EXCEPT !.closed = TRUE]
  /\ worker' = "exited"
  /\ UNCHANGED <<mode, src, chMutex, listVars, userVars, stopVars, budget, acctVars, callVars>>
WorkerExit ==
  /\ worker = "loop"
  /\ \/ stopReq
     \/ mode = "LocustCompatible" /\ ch.len = ch.cap
     \/ mode = "Never" /\ budget = 0
  /\ ch' = [ch EXCEPT !.closed = TRUE]
  /\ worker' = "exited"
  /\ UNCHANGED <<mode, src, chMutex, listVars, userVars, stopVars, budget, acctVars, callVars>>

(***************************************************************************)
(* A spawned thread: spawnFunc, threads.Delete, then its token back.       *)
(***************************************************************************)
UserReturn(u) ==
  /\ user[u] = "run"
  /\ user' = [user EXCEPT ![u] = "returned"]
  /\ UNCHANGED <<mode, capVars, chMutex, listVars, wg, lastID, joining, stopVars, workVars,
                 acctVars, callVars>>

UserDelete(u) ==
  /\ user[u] = "returned"
  /\ threads' = threads \ {u}
  /\ gone' = IF u \in threads THEN gone + 1 ELSE gone
  /\ user' = [user EXCEPT ![u] = "deleted"]
  /\ UNCHANGED <<mode, capVars, chMutex, tlCount, canceled, wg, lastID, joining, stopVars,
                 workVars, totalSpawned, callVars>>

UserLock(u) ==
  /\ user[u] = "deleted" /\ chMutex = None
  /\ chMutex' = u
  /\ user' = [user EXCEPT ![u] = "receive"]
  /\ UNCHANGED <<mode, capVars, listVars, wg, lastID, joining, stopVars, workVars, acctVars,
                 callVars>>

UserReceive(u) ==
  /\ user[u] = "receive" /\ chMutex = u /\ Receivable(ch)
  /\ ch' = IF ch.len > 0 THEN [ch EXCEPT !.len = @ - 1] ELSE ch
  /\ chMutex' = None
  /\ user' = [user EXCEPT ![u] = "exit"]
  /\ UNCHANGED <<mode, src, listVars, wg, lastID, joining, stopVars, workVars, acctVars, callVars>>

UserDone(u) ==
  /\ user[u] = "exit"
  /\ user' = [user EXCEPT ![u] = "done"]
  /\ wg' = wg \ {u}
  /\ joining' = [c \in Callers |-> joining[c] \ {u}]
  /\ UNCHANGED <<mode, capVars, chMutex, listVars, lastID, stopVars, workVars, acctVars, callVars>>

(***************************************************************************)
(* Stop and StopAllThreads.                                                *)
(***************************************************************************)
CallStop(c) ==
  /\ BeginCall(c) /\ stopMutex = None
  /\ stopMutex' = c /\ stopReq' = stop
  /\ Goto(c, "stopping")
  /\ UNCHANGED <<mode, capVars, chMutex, listVars, userVars, stop, halted, workVars, acctVars,
                 arg, reset, count>>

\* A stopper goes on to StopAllThreads, as LoadGenerator.Stop does.
ReturnStop(c) ==
  /\ pc[c] = "stopping" /\ WorkerEnded
  /\ stop' = FALSE /\ stopMutex' = None /\ halted' = TRUE /\ UNCHANGED stopReq
  /\ Goto(c, IF c = Driver THEN "idle" ELSE "clear")
  /\ UNCHANGED <<mode, capVars, chMutex, listVars, userVars, workVars, acctVars,
                 arg, reset, calls, count>>

\* The critical section of StopAllThreads.
ClearThreads(c) ==
  /\ joining' = [joining EXCEPT ![c] = wg] /\ wg' = {}
  /\ threads' = {} /\ canceled' = canceled \cup threads
  /\ gone' = gone + Cardinality(threads)
  /\ Goto(c, "joining")
  /\ UNCHANGED <<mode, capVars, chMutex, tlCount, user, lastID, stopVars, workVars, totalSpawned,
                 arg, reset, count>>

CallStopAll ==
  BeginCall(Driver) /\ ClearThreads(Driver)

StopperClear(c) ==
  pc[c] = "clear" /\ ClearThreads(c) /\ UNCHANGED calls

ReturnStopAll(c) ==
  /\ pc[c] = "joining" /\ joining[c] = {}
  /\ Goto(c, "idle")
  /\ UNCHANGED <<mode, capVars, chMutex, listVars, userVars, stopVars, workVars, acctVars,
                 arg, reset, calls, count>>

\* Nobody is inside a call: the spawner may rest here for ever.
Rest == (\A c \in Callers : pc[c] = "idle") /\ UNCHANGED vars

-----------------------------------------------------------------------------
SpawnWorkerStep ==
  \/ CheckRunning \/ CapList \/ StopPrevious \/ InstallStop \/ SwapChannel
  \/ MigrateToken \/ MigratePop \/ MigrateSend \/ LaunchWorker
  \/ \E u \in IDs : MigrateHandOver(u)
WorkerStep == WorkerAcquire \/ WorkerSpawn \/ WorkerExit
UserStep(u) == UserDelete(u) \/ UserLock(u) \/ UserReceive(u) \/ UserDone(u)
StopStep(c) == ReturnStop(c) \/ StopperClear(c) \/ ReturnStopAll(c)

Next ==
  \/ \E n \in 0 .. MaxCount : CallCap(n)
  \/ CallStart
  \/ CallStopAll
  \/ SpawnWorkerStep
  \/ WorkerStep
  \/ \E u \in IDs : UserReturn(u) \/ UserStep(u)
  \/ \E c \in Callers : CallStop(c) \/ StopStep(c)
  \/ Rest

Spec == Init /\ [][Next]_vars

\* Goroutines are scheduled; a canceled spawnFunc returns; nobody has to call.
Fairness ==
  /\ WF_vars(SpawnWorkerStep)
  /\ WF_vars(WorkerStep)
  /\ \A u \in IDs : WF_vars(UserStep(u))
                    /\ WF_vars(u \in canceled /\ UserReturn(u))
  /\ \A c \in Callers : WF_vars(StopStep(c))

FairSpec == Spec /\ Fairness
=============================================================================
