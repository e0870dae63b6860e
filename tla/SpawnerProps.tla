----------------------------- MODULE SpawnerProps ----------------------------
(***************************************************************************)
(* What must hold of the goroutine manager modelled by Spawner.            *)
(***************************************************************************)
EXTENDS Spawner

UserStates == {"unborn", "run", "returned", "deleted", "receive", "exit", "done"}
DriverLabels == {"idle", "check", "capList", "lock", "await", "swap", "migrate", "pop",
                 "send", "stopping", "joining"}
StopperLabels == {"idle", "stopping", "clear", "joining"}
Channels == [cap : 0 .. MaxCount, len : 0 .. MaxCount, closed : BOOLEAN]

\* Every variable has its type.
TypeOK ==
  /\ mode \in Modes
  /\ count \in 0 .. MaxCount /\ arg \in 0 .. MaxCount /\ tlCount \in 0 .. MaxCount
  /\ totalSpawned \in Int /\ gone \in Int /\ budget \in Nat
  /\ calls \in 0 .. MaxCalls /\ lastID \in 0 .. MaxSpawns
  /\ ch \in Channels /\ src \in Channels
  /\ chMutex \in IDs \cup {None} /\ stopMutex \in Callers \cup {None}
  /\ stop \in BOOLEAN /\ stopReq \in BOOLEAN /\ halted \in BOOLEAN /\ reset \in BOOLEAN
  /\ threads \in SUBSET IDs /\ canceled \in SUBSET IDs /\ wg \in SUBSET IDs
  /\ user \in [IDs -> UserStates]
  /\ joining \in [Callers -> SUBSET IDs]
  /\ worker \in {"none", "pending", "loop", "spawn", "exited"}
  /\ pc \in [Callers -> DriverLabels \cup StopperLabels]

\* Threads whose token has not been received back yet.
Unreleased == {u \in IDs : user[u] \in {"run", "returned", "deleted", "receive"}}

One(p) == IF p THEN 1 ELSE 0

\* The migration of line 254 holds a token it took from src.
InHand == pc[Driver] \in {"pop", "send"}

(***************************************************************************)
(* No token is lost or duplicated by replacing the channel under running   *)
(* threads: the two channels and the migration hold one token for every    *)
(* thread that still has to give one back, and one for the thread about to *)
(* be spawned (spawner.go:154-160, 238-251).                               *)
(***************************************************************************)
TokenConservation ==
  ch.len + src.len + One(InHand) = Cardinality(Unreleased) + One(worker = "spawn")

(***************************************************************************)
(* Between calls, with the manager running, the goroutines that have not   *)
(* ended are at most the count of the last Cap, whatever was running when  *)
(* it was lowered (spawner.go:75).                                         *)
(***************************************************************************)
CapRespected ==
  pc[Driver] = "idle" /\ stop => Cardinality(Unreleased) <= count

(***************************************************************************)
(* threadList.Add never has to evict: its pop (thread.go:55) is the only   *)
(* one whose result is not reclaimed, so an eviction there would lose a    *)
(* slot of RestartNever for ever.                                          *)
(***************************************************************************)
AddNeverEvicts == worker = "spawn" => Cardinality(threads) < tlCount

(***************************************************************************)
(* RestartNever never backfills: while its worker has threads to spawn,    *)
(* those listed, those that ended by themselves since Start, the one being *)
(* spawned and those still to spawn make up exactly the capacity, so slots *)
(* freed by a lower Cap are given back and no others (spawner.go:37-39).   *)
(***************************************************************************)
NeverBackfills ==
  mode = "Never" /\ (worker = "spawn" \/ (worker = "loop" /\ budget > 0)) =>
    Cardinality(threads) + gone + budget + One(worker = "spawn") = tlCount

(***************************************************************************)
(* Stop stops the manager (spawner.go:106): after a Stop returned, and     *)
(* until a Start, no spawn worker runs.                                    *)
(***************************************************************************)
NoResurrection == halted => worker \notin {"loop", "spawn"}

(***************************************************************************)
(* Every call returns: no cycle of driver, worker and threads waiting on   *)
(* each other through stopMutex, spawnChMutex and the channels.            *)
(***************************************************************************)
CallsReturn == \A c \in Callers : pc[c] # "idle" ~> pc[c] = "idle"

(***************************************************************************)
(* RestartAlways maintains the capacity (spawner.go:41): left alone, the   *)
(* pool fills up again (or reaches the bound of the model).                *)
(***************************************************************************)
CapacityMaintained ==
  (mode = "Always" /\ stop /\ pc[Driver] = "idle") ~>
    (Cardinality(Unreleased) = count \/ lastID = MaxSpawns
       \/ \E c \in Callers : pc[c] # "idle")

(***************************************************************************)
(* The manager implements a pool whose limit moves only while spawning is  *)
(* closed and is never exceeded while it is open.                          *)
(***************************************************************************)
Pool == INSTANCE ThreadPool WITH
          Threads <- IDs, MaxLimit <- MaxCount,
          limit <- ch.cap, live <- Unreleased, open <- worker \in {"loop", "spawn"}
ImplementsPool == Pool!PoolSpec

-----------------------------------------------------------------------------
(***************************************************************************)
(* The inductive invariant: the protocol of the mutexes and channels that  *)
(* the properties above rest on, one named part per idea.                  *)
(***************************************************************************)
Replacing == {"swap", "migrate", "pop", "send"}
Migrating == Replacing \ {"swap"}
Active == worker \in {"loop", "spawn"}

\* The roles: only the driver runs spawnWorker, only stoppers chain the calls.
RolesInv ==
  /\ pc[Driver] \in DriverLabels
  /\ \A c \in Stoppers : pc[c] \in StopperLabels

\* stopMutex is held exactly while a stop function waits for its worker.
StopMutexInv ==
  \A c \in Callers : pc[c] \in {"await", "stopping"} <=> stopMutex = c

\* A worker is missing exactly while its channel is being put in place.
WorkerInv ==
  /\ worker = "pending" <=> pc[Driver] \in Replacing
  /\ ~stop => worker \in {"none", "exited"}
  /\ pc[Driver] = "capList" => ~stop

\* spawnCh is closed by its worker's exit, and only an exited one is retired.
ChannelInv ==
  /\ ch.len <= ch.cap
  /\ ch.closed <=> worker \in {"none", "exited"} \/ pc[Driver] = "swap"
  /\ IF pc[Driver] \in Migrating THEN src.closed ELSE src.len = 0
  /\ \A u \in IDs : chMutex = u => user[u] = "receive"

\* Listed threads have not been deleted, and ids are fresh (within the bound).
ThreadsInv ==
  /\ \A u \in threads : user[u] \in {"run", "returned"}
  /\ \A u \in IDs : u > lastID => user[u] = "unborn"
  /\ worker = "spawn" => lastID < MaxSpawns

\* The capacity in force is the last target once a call is over.
TargetInv ==
  /\ pc[Driver] \in {"check", "capList", "lock", "await"} \cup Replacing => arg = count
  /\ pc[Driver] \in Migrating => ch.cap = arg
  /\ stop /\ pc[Driver] \in {"idle", "stopping", "joining"} => ch.cap = count
  /\ Active => tlCount = ch.cap

\* totalSpawned counts the threads that still occupy a slot.
AccountInv ==
  /\ totalSpawned = Cardinality(threads) + gone
  /\ mode = "Never" /\ (worker = "spawn" \/ (worker = "loop" /\ budget > 0)) =>
       totalSpawned + budget + One(worker = "spawn") = tlCount

\* With no other goroutine around, a stopped manager is not being restarted.
AloneInv ==
  Stoppers = {} /\ halted =>
    ~stop /\ pc[Driver] \in {"idle", "check", "capList", "stopping", "joining"}

Protocol ==
  /\ RolesInv /\ StopMutexInv /\ WorkerInv /\ ChannelInv
  /\ ThreadsInv /\ TargetInv /\ AloneInv

IndInv == TypeOK /\ Protocol /\ TokenConservation /\ AccountInv
=============================================================================
