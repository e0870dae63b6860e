------------------------------- MODULE Worker -------------------------------
(***************************************************************************)
(* The goroutines of worker.go that decide whether a load test runs: Join, *)
(* the message loop, the relay and the load test cycle, the heartbeat      *)
(* check, and a goroutine of the program (its signal handler) that calls   *)
(* Quit or Stop.  They share the worker state, the join context and its    *)
(* cancel function, the transport, a few channels and the load generator.  *)
(*                                                                         *)
(* Each goroutine has a stack of labels: the head is the step it is at,    *)
(* the tail what it does when the current call returns.                    *)
(*                                                                         *)
(* The load generator is that of generator.go with one user class, whose   *)
(* spawner is taken at the granularity Spawner.tla justifies: Cap swaps    *)
(* the target, then looks whether the manager runs, then acts.             *)
(***************************************************************************)
EXTENDS Integers, Sequences

CONSTANTS
  Kinds,    \* the kinds of message the master sends
  ExtCalls, \* what the program calls: a subset of {"stop", "quit"}
  Expiry,   \* whether the master's heartbeats may stop coming
  MaxMsgs,  \* bound: messages received
  MaxExt,   \* bound: calls of the program
  MaxTime,  \* bound: timestamps of spawn messages are in 1 .. MaxTime
  MaxUsers  \* bound: the user count of a spawn message

ASSUME WorkerAssumption ==
  /\ Kinds \subseteq {"ack", "spawn", "stop", "quit", "reconnect", "garbage"}
  /\ ExtCalls \subseteq {"stop", "quit"} /\ Expiry \in BOOLEAN
  /\ MaxMsgs \in Nat /\ MaxExt \in Nat /\ MaxTime \in Nat /\ MaxUsers \in Nat

VARIABLES
  pc,         \* the label stack of every goroutine
  wstate,     \* Worker.state
  cancelFn,   \* which context Worker.cancel cancels
  taken,      \* the cancel function each Quit call has swapped out
  ctxDone,    \* the join context is canceled
  openDone,   \* the context the transport was opened with is canceled
  sock,       \* the transport's socket
  ackCh, stopCh,  \* the one-slot channels
  last,       \* lastReceivedSpawnTimestamp
  offer,      \* the spawn the message loop sends on spawnCh
  held,       \* spawnCount of the relay
  cur,        \* spawnCount of the cycle
  capArg,     \* argument of the Cap in progress
  started,    \* LoadGenerator.started
  spawning,   \* the spawner's manager runs
  target,     \* the spawner's count
  users,      \* running users
  received, extDone,  \* counters of the bounds
  handled     \* history: timestamp of the last spawn the cycle was done with

netVars  == <<sock, openDone>>
ctxVars  == <<cancelFn, taken, ctxDone>>
chanVars == <<ackCh, stopCh, offer, held, last>>
cycVars  == <<cur, capArg, handled>>
genVars  == <<started, spawning, target, users>>
boundVars == <<received, extDone>>
vars == <<pc, wstate, netVars, ctxVars, chanVars, cycVars, genVars, boundVars>>

Procs == {"join", "msg", "relay", "cycle", "hb", "ext"}
Quitters == {"msg", "hb", "ext"}
Stoppers == Quitters \cup {"cycle"}
Spawns == [ts : 1 .. MaxTime, n : 0 .. MaxUsers]
NoSpawn == [ts |-> 0, n |-> 0]

At(p, label) == Head(pc[p]) = label
\* The current step of p is replaced by the given ones; Return is Jump(p, <<>>).
Jump(p, labels) == pc' = [pc EXCEPT ![p] = labels \o Tail(@)]
Return(p) == Jump(p, <<>>)

Alive == sock = "reopened" \/ (sock = "open" /\ ~openDone)

Init ==
  /\ pc = [p \in Procs |-> CASE p = "join" -> <<"begin">>
                             [] p = "ext"  -> <<"idle">>
                             [] OTHER      -> <<"none">>]
  /\ wstate = "Init" /\ cancelFn = "nil" /\ taken = [p \in Quitters |-> "nil"]
  /\ ctxDone = FALSE /\ openDone = FALSE /\ sock = "none"
  /\ ackCh = FALSE /\ stopCh = FALSE /\ last = 0
  /\ offer = NoSpawn /\ held = NoSpawn /\ cur = NoSpawn /\ capArg = 0
  /\ started = FALSE /\ spawning = FALSE /\ target = 0 /\ users = 0
  /\ received = 0 /\ extDone = 0 /\ handled = 0

(***************************************************************************)
(* Join.                                                                   *)
(***************************************************************************)
JoinBegin ==
  /\ At("join", "begin") /\ cancelFn' = "open"
  /\ Jump("join", <<"open">>)
  /\ UNCHANGED <<wstate, netVars, taken, ctxDone, chanVars, cycVars, genVars, boundVars>>

JoinOpen ==
  /\ At("join", "open")
  /\ \/ sock' = "open" /\ Jump("join", <<"store">>)
     \/ UNCHANGED sock /\ Jump("join", <<"failed">>)
  /\ UNCHANGED <<wstate, openDone, ctxVars, chanVars, cycVars, genVars, boundVars>>

\* From here on Quit cancels the join context; the message loop is started.
JoinStore ==
  /\ At("join", "store") /\ cancelFn' = "join"
  /\ pc' = [pc EXCEPT !["join"] = <<"connect">>, !["msg"] = <<"recv">>]
  /\ UNCHANGED <<wstate, netVars, taken, ctxDone, chanVars, cycVars, genVars, boundVars>>

CloseAndFail == sock' = "closed" /\ Jump("join", <<"failed">>)

\* connect: drain ackCh, send client_ready.
JoinConnect ==
  /\ At("join", "connect") /\ ackCh' = FALSE
  /\ IF Alive THEN Jump("join", <<"ack">>) /\ UNCHANGED sock ELSE CloseAndFail
  /\ UNCHANGED <<wstate, openDone, ctxVars, stopCh, offer, held, last, cycVars, genVars,
                 boundVars>>

JoinAcked ==
  /\ At("join", "ack") /\ ackCh /\ ackCh' = FALSE
  /\ pc' = [p \in Procs |-> CASE p = "join" -> <<"procs">>
                              [] p \in {"relay", "cycle", "hb"} -> <<"loop">>
                              [] OTHER -> pc[p]]
  /\ UNCHANGED <<wstate, netVars, ctxVars, stopCh, offer, held, last, cycVars, genVars,
                 boundVars>>

\* The retries are used up, or the context is canceled.
JoinGivesUp ==
  /\ At("join", "ack") /\ CloseAndFail
  /\ UNCHANGED <<wstate, openDone, ctxVars, chanVars, cycVars, genVars, boundVars>>

JoinSendQuit ==
  /\ At("join", "procs") /\ \A p \in {"relay", "cycle", "hb"} : At(p, "exited")
  /\ IF Alive THEN Jump("join", <<"close">>) /\ UNCHANGED sock ELSE CloseAndFail
  /\ UNCHANGED <<wstate, openDone, ctxVars, chanVars, cycVars, genVars, boundVars>>

\* Mutant: Join waits for the message loop without closing the transport.
JoinForgetClose ==
  /\ At("join", "close") /\ Jump("join", <<"wait">>)
  /\ UNCHANGED <<wstate, netVars, ctxVars, chanVars, cycVars, genVars, boundVars>>
\* An error of close, which closes the transport all the same, ends Join at once.
JoinClose ==
  /\ At("join", "close") /\ sock' = "closed"
  /\ \E next \in {"wait", "failed"} : Jump("join", <<next>>)
  /\ UNCHANGED <<wstate, openDone, ctxVars, chanVars, cycVars, genVars, boundVars>>

JoinDone ==
  /\ At("join", "wait") /\ At("msg", "exited") /\ Jump("join", <<"done">>)
  /\ UNCHANGED <<wstate, netVars, ctxVars, chanVars, cycVars, genVars, boundVars>>

(***************************************************************************)
(* The message loop.  The master sends any message at any time, except     *)
(* that it acknowledges the worker before it spawns users.                 *)
(***************************************************************************)
Receive(kind) ==
  /\ At("msg", "recv") /\ Alive /\ kind \in Kinds /\ received < MaxMsgs
  /\ received' = received + 1

RecvAck ==
  /\ Receive("ack") /\ ackCh' = TRUE
  /\ UNCHANGED <<pc, wstate, netVars, ctxVars, stopCh, offer, held, last, cycVars, genVars,
                 extDone>>

\* The acknowledgement of client_ready is here, or has been taken by Join.
Acked == ~At("relay", "none") \/ (ackCh /\ ~At("join", "connect"))

\* A timestamp that is not newer is ignored (mutant: only an older one is).
RecvSpawnAgain(s) ==
  /\ Receive("spawn") /\ Acked
  /\ IF s.ts >= last
       THEN last' = s.ts /\ offer' = s /\ Jump("msg", <<"offer", "recv">>)
       ELSE UNCHANGED <<last, offer, pc>>
  /\ UNCHANGED <<wstate, netVars, ctxVars, ackCh, stopCh, held, cycVars, genVars, extDone>>
RecvSpawn(s) ==
  /\ Receive("spawn") /\ Acked
  /\ IF s.ts > last
       THEN last' = s.ts /\ offer' = s /\ Jump("msg", <<"offer", "recv">>)
       ELSE UNCHANGED <<last, offer, pc>>
  /\ UNCHANGED <<wstate, netVars, ctxVars, ackCh, stopCh, held, cycVars, genVars, extDone>>

RecvStop ==
  /\ Receive("stop") /\ stopCh' = TRUE
  /\ UNCHANGED <<pc, wstate, netVars, ctxVars, ackCh, offer, held, last, cycVars, genVars,
                 extDone>>

RecvReconnect ==
  /\ Receive("reconnect") /\ sock' = "closed" /\ Jump("msg", <<"reopen", "recv">>)
  /\ UNCHANGED <<wstate, openDone, ctxVars, chanVars, cycVars, genVars, extDone>>

\* The error of open is ignored: the loop goes on with the transport it closed.
Reopen ==
  /\ At("msg", "reopen") /\ Return("msg")
  /\ sock' = "reopened" \/ UNCHANGED sock
  /\ UNCHANGED <<wstate, openDone, ctxVars, chanVars, cycVars, genVars, boundVars>>

\* Stop, a last report of the statistics, Quit, and back to the loop.
RecvQuit ==
  /\ Receive("quit") /\ Jump("msg", <<"stop", "quit", "recv">>)
  /\ UNCHANGED <<wstate, netVars, ctxVars, chanVars, cycVars, genVars, extDone>>

\* A message that cannot be decoded ends the loop as a broken transport does.
RecvGarbage ==
  /\ Receive("garbage") /\ Jump("msg", <<"quit", "exited">>)
  /\ UNCHANGED <<wstate, netVars, ctxVars, chanVars, cycVars, genVars, extDone>>

RecvFails ==
  /\ At("msg", "recv") /\ ~Alive /\ Jump("msg", <<"quit", "exited">>)
  /\ UNCHANGED <<wstate, netVars, ctxVars, chanVars, cycVars, genVars, boundVars>>

(***************************************************************************)
(* The relay between the message loop and the cycle: it always accepts a   *)
(* spawn, and a newer one replaces the one it holds.                       *)
(***************************************************************************)
\* Mutants: the relay is busy until it is rid of its spawn; it keeps the older one.
RelayTakeWhenFree ==
  /\ At("relay", "loop") /\ At("msg", "offer") /\ held = NoSpawn
  /\ held' = offer /\ Return("msg")
  /\ UNCHANGED <<wstate, netVars, ctxVars, ackCh, stopCh, offer, last, cycVars, genVars,
                 boundVars>>
RelayKeepOlder ==
  /\ At("relay", "loop") /\ At("msg", "offer")
  /\ held' = (IF held = NoSpawn THEN offer ELSE held) /\ Return("msg")
  /\ UNCHANGED <<wstate, netVars, ctxVars, ackCh, stopCh, offer, last, cycVars, genVars,
                 boundVars>>
RelayTake ==
  /\ At("relay", "loop") /\ At("msg", "offer")
  /\ held' = offer /\ Return("msg")
  /\ UNCHANGED <<wstate, netVars, ctxVars, ackCh, stopCh, offer, last, cycVars, genVars,
                 boundVars>>

RelayGive ==
  /\ At("relay", "loop") /\ At("cycle", "loop") /\ held # NoSpawn
  /\ cur' = held /\ held' = NoSpawn
  /\ Jump("cycle", <<"decide", "announce", "capSwap", "complete", "loop">>)
  /\ UNCHANGED <<wstate, netVars, ctxVars, ackCh, stopCh, offer, last, capArg, handled,
                 genVars, boundVars>>

Exit(p) ==
  /\ At(p, "loop") /\ ctxDone /\ Jump(p, <<"exited">>)
  /\ UNCHANGED <<wstate, netVars, ctxVars, chanVars, cycVars, genVars, boundVars>>

(***************************************************************************)
(* The cycle: a spawn.                                                     *)
(***************************************************************************)
Decide ==
  /\ At("cycle", "decide")
  /\ IF wstate \in {"Running", "Spawning"} THEN Return("cycle") ELSE Jump("cycle", <<"start">>)
  /\ UNCHANGED <<wstate, netVars, ctxVars, chanVars, cycVars, genVars, boundVars>>

Start ==
  /\ At("cycle", "start") /\ started' = TRUE
  /\ IF started THEN Return("cycle") ELSE Jump("cycle", <<"handlers">>)
  /\ UNCHANGED <<wstate, netVars, ctxVars, chanVars, cycVars, spawning, target, users,
                 boundVars>>

\* The OnTestStart handlers succeed: every spawner gets Cap(0) and Start.
HandlersSucceed ==
  /\ At("cycle", "handlers") /\ capArg' = 0
  /\ Jump("cycle", <<"capSwap", "spawnWorker">>)
  /\ UNCHANGED <<wstate, netVars, ctxVars, chanVars, cur, handled, genVars, boundVars>>

\* Mutant: a failed Start leaves the generator marked as started.
HandlersFailStarted ==
  /\ At("cycle", "handlers") /\ handled' = cur.ts
  /\ pc' = [pc EXCEPT !["cycle"] = <<"loop">>]
  /\ UNCHANGED <<wstate, netVars, ctxVars, chanVars, cur, capArg, genVars, boundVars>>
HandlersFail ==
  /\ At("cycle", "handlers") /\ started' = FALSE /\ handled' = cur.ts
  /\ pc' = [pc EXCEPT !["cycle"] = <<"loop">>]
  /\ UNCHANGED <<wstate, netVars, ctxVars, chanVars, cur, capArg, spawning, target, users,
                 boundVars>>

Announce ==
  /\ At("cycle", "announce") /\ wstate' = "Spawning" /\ capArg' = cur.n
  /\ Return("cycle")
  /\ UNCHANGED <<netVars, ctxVars, chanVars, cur, handled, genVars, boundVars>>

CapSwap ==
  /\ At("cycle", "capSwap") /\ target' = capArg
  /\ IF target = capArg THEN Return("cycle") ELSE Jump("cycle", <<"capCheck">>)
  /\ UNCHANGED <<wstate, netVars, ctxVars, chanVars, cycVars, started, spawning, users,
                 boundVars>>

CapCheck ==
  /\ At("cycle", "capCheck")
  /\ Jump("cycle", IF spawning THEN <<"spawnWorker">> ELSE <<"capList">>)
  /\ UNCHANGED <<wstate, netVars, ctxVars, chanVars, cycVars, genVars, boundVars>>

SpawnWorker ==
  /\ At("cycle", "spawnWorker") /\ spawning' = TRUE /\ users' = target
  /\ Return("cycle")
  /\ UNCHANGED <<wstate, netVars, ctxVars, chanVars, cycVars, started, target, boundVars>>

CapList ==
  /\ At("cycle", "capList") /\ users' = IF users > target THEN target ELSE users
  /\ Return("cycle")
  /\ UNCHANGED <<wstate, netVars, ctxVars, chanVars, cycVars, started, spawning, target,
                 boundVars>>

Complete ==
  /\ At("cycle", "complete") /\ wstate' = "Running" /\ handled' = cur.ts
  /\ Return("cycle")
  /\ UNCHANGED <<netVars, ctxVars, chanVars, cur, capArg, genVars, boundVars>>

\* Mutant: a user is counted out twice.
UserEndsTwice ==
  /\ users > 0 /\ users' = users - 2
  /\ UNCHANGED <<pc, wstate, netVars, ctxVars, chanVars, cycVars, started, spawning, target,
                 boundVars>>
UserEnds ==
  /\ users > 0 /\ users' = users - 1
  /\ UNCHANGED <<pc, wstate, netVars, ctxVars, chanVars, cycVars, started, spawning, target,
                 boundVars>>

(***************************************************************************)
(* The cycle: a stop.                                                      *)
(***************************************************************************)
TakeStop ==
  /\ At("cycle", "loop") /\ stopCh /\ stopCh' = FALSE /\ wstate' = "Cleanup"
  /\ Jump("cycle", <<"genStop", "ready", "loop">>)
  /\ UNCHANGED <<netVars, ctxVars, ackCh, offer, held, last, cycVars, genVars, boundVars>>

\* client_stopped, the state is reset, client_ready.
Ready ==
  /\ At("cycle", "ready") /\ wstate' = "Init" /\ Return("cycle")
  /\ UNCHANGED <<netVars, ctxVars, chanVars, cycVars, genVars, boundVars>>

(***************************************************************************)
(* LoadGenerator.Stop, Worker.Stop and Worker.Quit, by any goroutine.      *)
(***************************************************************************)
GenStop(p) ==
  /\ At(p, "genStop") /\ started' = FALSE
  /\ Jump(p, IF started THEN <<"managerStop", "stopUsers">> ELSE <<>>)
  /\ UNCHANGED <<wstate, netVars, ctxVars, chanVars, cycVars, spawning, target, users,
                 boundVars>>

ManagerStop(p) ==
  /\ At(p, "managerStop") /\ spawning' = FALSE /\ Return(p)
  /\ UNCHANGED <<wstate, netVars, ctxVars, chanVars, cycVars, started, target, users,
                 boundVars>>

\* It ends with the last user, which may never be: see AwaitsUsers.
StopUsers(p) ==
  /\ At(p, "stopUsers") /\ users' = 0 /\ Return(p)
  /\ UNCHANGED <<wstate, netVars, ctxVars, chanVars, cycVars, started, spawning, target,
                 boundVars>>

\* Mutant: the call gives up, and with it the Quit, when another one is stopping.
StopAbandons(p) ==
  /\ At(p, "stop")
  /\ IF wstate \in {"Cleanup", "Stopped"}
       THEN pc' = [pc EXCEPT ![p] = <<pc[p][Len(pc[p])]>>]
       ELSE Jump(p, <<"cleanup", "genStop", "stopped">>)
  /\ UNCHANGED <<wstate, netVars, ctxVars, chanVars, cycVars, genVars, boundVars>>
Stop(p) ==
  /\ At(p, "stop")
  /\ IF wstate \in {"Cleanup", "Stopped"}
       THEN Return(p)
       ELSE Jump(p, <<"cleanup", "genStop", "stopped">>)
  /\ UNCHANGED <<wstate, netVars, ctxVars, chanVars, cycVars, genVars, boundVars>>

SetState(p, label, value) ==
  /\ At(p, label) /\ wstate' = value /\ Return(p)
  /\ UNCHANGED <<netVars, ctxVars, chanVars, cycVars, genVars, boundVars>>

\* Only one Quit gets the cancel function; the others return at once.
Quit(p) ==
  /\ At(p, "quit") /\ cancelFn' = "nil" /\ taken' = [taken EXCEPT ![p] = cancelFn]
  /\ Jump(p, IF cancelFn = "nil" THEN <<>> ELSE <<"stop", "cancel">>)
  /\ UNCHANGED <<wstate, netVars, ctxDone, chanVars, cycVars, genVars, boundVars>>

Cancel(p) ==
  /\ At(p, "cancel") /\ taken' = [taken EXCEPT ![p] = "nil"] /\ Return(p)
  /\ ctxDone' = (ctxDone \/ taken[p] = "join")
  /\ openDone' = (openDone \/ taken[p] = "open")
  /\ UNCHANGED <<wstate, sock, cancelFn, chanVars, cycVars, genVars, boundVars>>

HeartbeatExpires ==
  /\ At("hb", "loop") /\ Expiry /\ Jump("hb", <<"quit", "exited">>)
  /\ UNCHANGED <<wstate, netVars, ctxVars, chanVars, cycVars, genVars, boundVars>>

ExtCall(call) ==
  /\ At("ext", "idle") /\ extDone < MaxExt /\ extDone' = extDone + 1
  /\ Jump("ext", <<call, "idle">>)
  /\ UNCHANGED <<wstate, netVars, ctxVars, chanVars, cycVars, genVars, received>>

-----------------------------------------------------------------------------
Join == \/ JoinBegin \/ JoinOpen \/ JoinStore \/ JoinConnect \/ JoinAcked \/ JoinGivesUp
        \/ JoinSendQuit \/ JoinClose \/ JoinDone
Relay == RelayTake \/ RelayGive
Cycle == \/ Decide \/ Start \/ HandlersSucceed \/ HandlersFail \/ Announce \/ CapSwap
         \/ CapCheck \/ SpawnWorker \/ CapList \/ Complete \/ TakeStop \/ Ready
StopCall(p) == GenStop(p) \/ ManagerStop(p) \/ StopUsers(p)
QuitCall(p) == \/ Quit(p) \/ Cancel(p) \/ Stop(p)
               \/ SetState(p, "cleanup", "Cleanup") \/ SetState(p, "stopped", "Stopped")
Master == \/ RecvAck \/ RecvStop \/ RecvReconnect \/ RecvQuit \/ RecvGarbage
          \/ \E s \in Spawns : RecvSpawn(s)

Next ==
  \/ Join \/ Master \/ RecvFails \/ Reopen \/ Relay \/ Cycle \/ UserEnds \/ HeartbeatExpires
  \/ \E p \in {"relay", "cycle", "hb"} : Exit(p)
  \/ \E p \in Stoppers : StopCall(p)
  \/ \E p \in Quitters : QuitCall(p)
  \/ \E call \in ExtCalls : ExtCall(call)

Spec == Init /\ [][Next]_vars

(***************************************************************************)
(* The statistics process, which reads what the users report, ends with    *)
(* the join context.  From then on a user may be stuck in Report for ever, *)
(* and so may a step that waits for users: StopAllThreads for all of them, *)
(* migrateSpawnCh for those above the target, and Spawner.Stop for a       *)
(* manager that such a migration has yet to start.                         *)
(***************************************************************************)
Migrating == At("cycle", "spawnWorker") /\ users > target
AwaitsUsers(p) ==
  /\ ctxDone
  /\ \/ At(p, "stopUsers") /\ users > 0
     \/ Migrating /\ (p = "cycle" \/ At(p, "managerStop"))

\* A dial is retried without limit: it ends for sure only when its context does.
Dialing == At("join", "open") /\ ~openDone

\* Goroutines are scheduled; the master, the program and the users owe nothing,
\* so neither does a dial to the master (Reopen: its context is never canceled).
LoopFairness ==
  /\ WF_vars(~Dialing /\ Join) /\ WF_vars(RecvFails) /\ WF_vars(Relay)
  /\ \A p \in {"relay", "hb"} : WF_vars(Exit(p))
  /\ \A p \in Quitters : WF_vars(QuitCall(p)) /\ WF_vars(~AwaitsUsers(p) /\ StopCall(p))
\* Moreover the cycle goes on, so the OnTestStart handlers return.
CycleFairness ==
  /\ WF_vars(~AwaitsUsers("cycle") /\ Cycle) /\ WF_vars(Exit("cycle"))
  /\ WF_vars(~AwaitsUsers("cycle") /\ StopCall("cycle"))

LoopSpec == Spec /\ LoopFairness
FairSpec == Spec /\ LoopFairness /\ CycleFairness
=============================================================================
