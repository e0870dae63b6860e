-------------------------------- MODULE Stats --------------------------------
(***************************************************************************)
(* The way of a request's statistics from a user to the master: Report     *)
(* puts it on the channel of the user's aggregator (stats/aggregator.go),  *)
(* the aggregator collects and hands its Stats to the stats process of     *)
(* worker.go, which merges them into Worker.stats and sends them.          *)
(*                                                                         *)
(* Aggregators are shared by StatsAggregationUsers users and counted: each *)
(* user and, while users are being assigned to it, the load generator hold *)
(* a reference; the last Release closes the channel (generator.go:86-118). *)
(*                                                                         *)
(* A Stats is the number of requests in it: the properties are about none  *)
(* being lost, counted twice or left behind.                               *)
(***************************************************************************)
EXTENDS Integers, FiniteSets, FiniteSetsExt

CONSTANTS
  Users,      \* the user goroutines
  Share,      \* StatsAggregationUsers
  ChanCap,    \* capacity of an aggregator's channel (10 in the code)
  Resets,     \* whether the master runs with --reset-stats
  MaxAggs,    \* bound: aggregators created
  MaxReports  \* bound: requests reported

ASSUME StatsAssumption ==
  /\ Share \in Nat \ {0} /\ ChanCap \in Nat /\ Resets \in BOOLEAN
  /\ MaxAggs \in Nat /\ MaxReports \in Nat /\ IsFiniteSet(Users)

VARIABLES
  phase,    \* of LoadGenerator: "idle", "running" or "stopping"
  user,     \* where each user is: "idle", "starting", "up" or "reporting"
  rep,      \* the aggregator of each user
  current,  \* currentStatsAggregator, 0 for nil
  counter,  \* aggUserCounter
  agg,      \* the aggregators, by order of creation
  created,  \* aggregators created
  wstats,   \* Worker.stats
  resetCh,  \* the one-slot resetStatsCh
  sent,     \* what the master received
  cleared,  \* history: what a reset threw away
  proc,     \* the stats process runs
  ctxDone,  \* the join context is canceled
  quit,     \* the handling of the master's quit message
  made      \* history: requests put on a channel

genVars  == <<phase, current, counter>>
userVars == <<user, rep>>
aggVars  == <<agg, created>>
procVars == <<wstats, resetCh, sent, cleared, proc>>
quitVars == <<ctxDone, quit>>
vars == <<genVars, userVars, aggVars, procVars, quitVars, made>>

IDs == 1 .. MaxAggs
Unborn == [refs |-> 0, ch |-> 0, closed |-> FALSE, s |-> 0, at |-> "unborn"]

Init ==
  /\ phase = "idle" /\ current = 0 /\ counter = 0
  /\ user = [u \in Users |-> "idle"] /\ rep = [u \in Users |-> 0]
  /\ agg = [i \in IDs |-> Unborn] /\ created = 0
  /\ wstats = 0 /\ resetCh = FALSE /\ sent = 0 /\ cleared = 0 /\ proc = TRUE
  /\ ctxDone = FALSE /\ quit = "no" /\ made = 0

\* The last Release closes the channel.
Release(a) == [a EXCEPT !.refs = @ - 1, !.closed = (a.refs = 1)]

\* The aggregators once the load generator has let go of the current one.
\* Mutant: it keeps its reference.
KeepCurrent == agg
LetCurrentGo == IF current = 0 THEN agg ELSE [agg EXCEPT ![current] = Release(@)]

(***************************************************************************)
(* LoadGenerator.Start and Stop; users are canceled while it stops.        *)
(***************************************************************************)
Start ==
  /\ phase = "idle" /\ phase' = "running"
  /\ agg' = LetCurrentGo /\ current' = 0 /\ counter' = 0
  /\ UNCHANGED <<userVars, created, procVars, quitVars, made>>

BeginStop ==
  /\ phase = "running" /\ phase' = "stopping"
  /\ UNCHANGED <<current, counter, userVars, aggVars, procVars, quitVars, made>>

EndStop ==
  /\ phase = "stopping" /\ \A u \in Users : user[u] = "idle"
  /\ phase' = "idle" /\ agg' = LetCurrentGo /\ current' = 0 /\ counter' = 0
  /\ quit' = IF quit = "stop" THEN "report" ELSE quit
  /\ UNCHANGED <<userVars, created, procVars, ctxDone, made>>

(***************************************************************************)
(* A user goroutine: started by its spawner, then the critical section of  *)
(* spawnFunc (also when it was canceled meanwhile), its reports and the    *)
(* deferred Release.                                                       *)
(***************************************************************************)
\* References of an aggregator when its first user has it (mutant: only that user's).
Unanchored == 1
Anchored   == 2

\* The place of the next user in its aggregator (mutant: it never wraps).
NextSlotNoWrap == counter + 1
NextSlot == (counter + 1) % Share

Starting == {u \in Users : user[u] = "starting"}

StartUser(u) ==
  /\ phase = "running" /\ user[u] = "idle" /\ created + Cardinality(Starting) < MaxAggs
  /\ user' = [user EXCEPT ![u] = "starting"]
  /\ UNCHANGED <<genVars, rep, aggVars, procVars, quitVars, made>>

\* Every Share users a new aggregator becomes the current one.
JoinNew(u) ==
  /\ user[u] = "starting" /\ counter = 0
  /\ LET id == created + 1
     IN  /\ agg' = [LetCurrentGo EXCEPT ![id] = [Unborn EXCEPT !.refs = Anchored, !.at = "loop"]]
         /\ created' = id /\ current' = id
         /\ rep' = [rep EXCEPT ![u] = id]
  /\ counter' = NextSlot /\ user' = [user EXCEPT ![u] = "up"]
  /\ UNCHANGED <<phase, procVars, quitVars, made>>

JoinCurrent(u) ==
  /\ user[u] = "starting" /\ counter # 0
  /\ agg' = [agg EXCEPT ![current].refs = @ + 1]
  /\ rep' = [rep EXCEPT ![u] = current]
  /\ counter' = NextSlot /\ user' = [user EXCEPT ![u] = "up"]
  /\ UNCHANGED <<phase, current, created, procVars, quitVars, made>>

Reporting == {u \in Users : user[u] = "reporting"}

Report(u) ==
  /\ user[u] = "up" /\ made + Cardinality(Reporting) < MaxReports
  /\ user' = [user EXCEPT ![u] = "reporting"]
  /\ UNCHANGED <<genVars, rep, aggVars, procVars, quitVars, made>>

\* The send blocks while the channel is full.
SendReport(u) ==
  /\ user[u] = "reporting" /\ agg[rep[u]].ch < ChanCap
  /\ agg' = [agg EXCEPT ![rep[u]].ch = @ + 1] /\ made' = made + 1
  /\ user' = [user EXCEPT ![u] = "up"]
  /\ UNCHANGED <<genVars, rep, created, procVars, quitVars>>

Leave(u) ==
  /\ user[u] = "up" /\ user' = [user EXCEPT ![u] = "idle"]
  /\ agg' = [agg EXCEPT ![rep[u]] = Release(@)] /\ rep' = [rep EXCEPT ![u] = 0]
  /\ UNCHANGED <<genVars, created, procVars, quitVars, made>>

(***************************************************************************)
(* An aggregator: requests, ticks and the closed channel; a hand-over of   *)
(* its Stats waits for the stats process.                                  *)
(***************************************************************************)
Collect(i) ==
  /\ agg[i].at = "loop" /\ agg[i].ch > 0
  /\ agg' = [agg EXCEPT ![i].ch = @ - 1, ![i].s = @ + 1]
  /\ UNCHANGED <<genVars, userVars, created, procVars, quitVars, made>>

Offer(i) ==
  /\ agg[i].at = "loop" /\ agg' = [agg EXCEPT ![i].at = "flush"]
  /\ UNCHANGED <<genVars, userVars, created, procVars, quitVars, made>>

\* Mutant: a closed aggregator ends without a last hand-over.
EndWithoutOffer(i) ==
  /\ agg[i].at = "loop" /\ agg[i].closed /\ agg[i].ch = 0
  /\ agg' = [agg EXCEPT ![i].at = "ended"]
  /\ UNCHANGED <<genVars, userVars, created, procVars, quitVars, made>>
OfferLast(i) ==
  /\ agg[i].at = "loop" /\ agg[i].closed /\ agg[i].ch = 0
  /\ agg' = [agg EXCEPT ![i].at = "final"]
  /\ UNCHANGED <<genVars, userVars, created, procVars, quitVars, made>>

\* Mutant: the Stats just handed over is not replaced by a new one.
MergeKeeping(i) ==
  /\ proc /\ agg[i].at \in {"flush", "final"}
  /\ wstats' = wstats + agg[i].s
  /\ agg' = [agg EXCEPT ![i].at = IF @ = "final" THEN "ended" ELSE "loop"]
  /\ UNCHANGED <<genVars, userVars, created, resetCh, sent, cleared, proc, quitVars, made>>
\* Mutant: the aggregator ends with its first hand-over.
MergeAndEnd(i) ==
  /\ proc /\ agg[i].at \in {"flush", "final"}
  /\ wstats' = wstats + agg[i].s
  /\ agg' = [agg EXCEPT ![i].s = 0, ![i].at = "ended"]
  /\ UNCHANGED <<genVars, userVars, created, resetCh, sent, cleared, proc, quitVars, made>>
Merge(i) ==
  /\ proc /\ agg[i].at \in {"flush", "final"}
  /\ wstats' = wstats + agg[i].s
  /\ agg' = [agg EXCEPT ![i].s = 0, ![i].at = IF @ = "final" THEN "ended" ELSE "loop"]
  /\ UNCHANGED <<genVars, userVars, created, resetCh, sent, cleared, proc, quitVars, made>>

(***************************************************************************)
(* The other cases of the stats process.                                   *)
(***************************************************************************)
SendStats == sent' = sent + wstats /\ wstats' = 0

Tick ==
  /\ proc /\ SendStats
  /\ UNCHANGED <<genVars, userVars, aggVars, resetCh, cleared, proc, quitVars, made>>

\* spawning_complete of the whole cluster, with --reset-stats.
RequestReset ==
  /\ Resets /\ quit \in {"no", "done"} /\ resetCh' = TRUE
  /\ UNCHANGED <<genVars, userVars, aggVars, wstats, sent, cleared, proc, quitVars, made>>

Reset ==
  /\ proc /\ resetCh /\ resetCh' = FALSE
  /\ cleared' = cleared + wstats /\ wstats' = 0
  /\ UNCHANGED <<genVars, userVars, aggVars, sent, proc, quitVars, made>>

ProcExit ==
  /\ proc /\ ctxDone /\ proc' = FALSE
  /\ UNCHANGED <<genVars, userVars, aggVars, wstats, resetCh, sent, cleared, quitVars, made>>

(***************************************************************************)
(* The quit message: Stop, a last report, Quit.  Stop returns at once when *)
(* another goroutine has set the state to Cleanup (worker.go:241).         *)
(***************************************************************************)
QuitMessage ==
  /\ quit = "no"
  /\ IF phase = "running"
       THEN phase' = "stopping" /\ quit' = "stop"
       ELSE phase' = phase /\ quit' = "report"
  /\ UNCHANGED <<current, counter, userVars, aggVars, procVars, ctxDone, made>>

LastReport ==
  /\ quit = "report" /\ quit' = "reported" /\ SendStats
  /\ UNCHANGED <<genVars, userVars, aggVars, resetCh, cleared, proc, ctxDone, made>>

CancelJoin ==
  /\ quit = "reported" /\ quit' = "done" /\ ctxDone' = TRUE
  /\ UNCHANGED <<genVars, userVars, aggVars, procVars, made>>

-----------------------------------------------------------------------------
AggStep(i) == Collect(i) \/ Offer(i) \/ OfferLast(i) \/ Merge(i)
StopStep == EndStop \/ LastReport \/ CancelJoin

Next ==
  \/ Start \/ BeginStop \/ QuitMessage \/ StopStep
  \/ \E u \in Users : StartUser(u) \/ JoinNew(u) \/ JoinCurrent(u) \/ Report(u) \/ SendReport(u) \/ Leave(u)
  \/ \E i \in IDs : AggStep(i)
  \/ Tick \/ RequestReset \/ Reset \/ ProcExit

Spec == Init /\ [][Next]_vars

\* Goroutines are scheduled and the ticker of the stats process ticks.  A select
\* picks at random among its ready cases, so an aggregator reads its channel on and
\* ends although its own ticker is ready as well; blocked senders queue up in
\* order; and a canceled user returns.
Fairness ==
  /\ \A i \in IDs : SF_vars(Collect(i)) /\ SF_vars(OfferLast(i)) /\ WF_vars(Offer(i)) /\ WF_vars(Merge(i))
  /\ \A u \in Users : /\ WF_vars(JoinNew(u)) /\ WF_vars(JoinCurrent(u)) /\ SF_vars(SendReport(u))
                      /\ WF_vars(phase = "stopping" /\ Leave(u))
  /\ WF_vars(Tick) /\ WF_vars(StopStep) /\ WF_vars(ProcExit)

FairSpec == Spec /\ Fairness
=============================================================================
