----------------------------- MODULE WorkerProps -----------------------------
(***************************************************************************)
(* What must hold of the goroutines of the worker.                         *)
(***************************************************************************)
EXTENDS Worker

Labels ==
  {"begin", "open", "store", "connect", "ack", "procs", "close", "wait", "done", "failed",
   "none", "recv", "offer", "reopen", "exited", "idle", "loop", "decide", "start",
   "handlers", "announce", "capSwap", "capCheck", "spawnWorker", "capList", "complete",
   "genStop", "managerStop", "stopUsers", "ready", "stop", "quit", "cancel", "cleanup",
   "stopped"}
Contexts == {"nil", "open", "join"}

\* Every variable has its type.
TypeOK ==
  /\ pc \in [Procs -> Seq(Labels) \ {<<>>}]
  /\ wstate \in {"Init", "Spawning", "Running", "Cleanup", "Stopped"}
  /\ cancelFn \in Contexts /\ taken \in [Quitters -> Contexts]
  /\ ctxDone \in BOOLEAN /\ openDone \in BOOLEAN
  /\ sock \in {"none", "open", "reopened", "closed"}
  /\ ackCh \in BOOLEAN /\ stopCh \in BOOLEAN
  /\ last \in 0 .. MaxTime /\ handled \in 0 .. MaxTime
  /\ {offer, held, cur} \subseteq Spawns \cup {NoSpawn}
  /\ capArg \in 0 .. MaxUsers /\ target \in 0 .. MaxUsers /\ users \in 0 .. MaxUsers
  /\ started \in BOOLEAN /\ spawning \in BOOLEAN
  /\ received \in 0 .. MaxMsgs /\ extDone \in 0 .. MaxExt

(***************************************************************************)
(* Spawns take effect in the order of their timestamps: those on the way   *)
(* to the cycle (received, relayed, being applied) are each newer than the *)
(* next, and the relay never hands an older one to the cycle after a newer *)
(* one (worker.go:471-480, 545-558).                                       *)
(***************************************************************************)
SpawnsInOrder ==
  /\ handled <= cur.ts
  /\ held # NoSpawn => cur.ts < held.ts
  /\ At("msg", "offer") => /\ offer.ts = last /\ held.ts < offer.ts /\ cur.ts < offer.ts

(***************************************************************************)
(* Between commands the state reported to the master tells the truth about *)
(* the generator: Running means the manager runs towards the last spawn,   *)
(* Init means nothing runs (worker.go:570-603).  It is claimed while only  *)
(* the cycle has started and stopped the load.                             *)
(***************************************************************************)
Undisturbed ==
  cancelFn = "join" /\ extDone = 0 /\ \E l \in {"recv", "offer", "reopen"} : At("msg", l)

StateTellsTruth ==
  Undisturbed /\ At("cycle", "loop") =>
    /\ wstate = "Running" => started /\ spawning /\ target = cur.n
    /\ wstate = "Init" => ~started /\ ~spawning /\ users = 0

(***************************************************************************)
(* The message loop is never held up by a slow OnTestStart, Spawn or Stop  *)
(* of the cycle (worker.go:538): a spawn it offers is taken, whatever the  *)
(* cycle does, unless the worker is quitting.                              *)
(***************************************************************************)
MessageLoopNeverBlocked ==
  At("msg", "offer") ~> (~At("msg", "offer") \/ ctxDone \/ At("join", "failed"))

(***************************************************************************)
(* Coalescing forgets no command: when the cycle goes on, it ends up with  *)
(* every accepted spawn, or a newer one, unless the worker is quitting.    *)
(***************************************************************************)
NoSpawnForgotten ==
  CycleFairness =>
    \A t \in 1 .. MaxTime :
      last = t ~> (handled >= t \/ ctxDone \/ At("join", "failed"))

(***************************************************************************)
(* Quit stops the worker (worker.go:249): once the join context is         *)
(* canceled, Join returns, which needs the message loop to end too.        *)
(***************************************************************************)
Joined == At("join", "done") \/ At("join", "failed")
JoinReturns == ctxDone ~> Joined

(***************************************************************************)
(* What can keep Join from returning after a quit.  While it waits for its *)
(* processes (worker.go:220): only the cycle, when it waits for users that *)
(* nobody reads the reports of any more.  While it waits for the message   *)
(* loop (worker.go:232): that loop is left with a spawn nobody takes       *)
(* (worker.go:480), is dialing to reconnect, goes on with a transport that *)
(* was opened again (worker.go:509), or waits for users as above.          *)
(***************************************************************************)
JoinHeldUp ==
  \/ At("join", "procs") /\ AwaitsUsers("cycle")
  \/ At("join", "wait") /\ \/ At("msg", "offer") \/ At("msg", "reopen")
                           \/ sock = "reopened" \/ AwaitsUsers("msg")
JoinReturnsOrHeldUp == ctxDone ~> (Joined \/ []JoinHeldUp)

(***************************************************************************)
(* A Quit that got hold of the join context cancels it, so two goroutines  *)
(* quitting at once do not leave the work to each other.                   *)
(***************************************************************************)
QuitCancels == (\E p \in Quitters : taken[p] = "join") ~> ctxDone
=============================================================================
