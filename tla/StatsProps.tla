----------------------------- MODULE StatsProps ------------------------------
(***************************************************************************)
(* What must hold on the way of the statistics.                            *)
(***************************************************************************)
EXTENDS Stats

\* Every variable has its type.
TypeOK ==
  /\ phase \in {"idle", "running", "stopping"}
  /\ user \in [Users -> {"idle", "starting", "up", "reporting"}]
  /\ rep \in [Users -> 0 .. MaxAggs]
  /\ current \in 0 .. MaxAggs /\ counter \in 0 .. Share - 1 /\ created \in 0 .. MaxAggs
  /\ agg \in [IDs -> [refs : Nat, ch : 0 .. ChanCap, closed : BOOLEAN, s : Nat,
                      at : {"unborn", "loop", "flush", "final", "ended"}]]
  /\ wstats \in Nat /\ sent \in Nat /\ cleared \in Nat /\ made \in 0 .. MaxReports
  /\ resetCh \in BOOLEAN /\ proc \in BOOLEAN /\ ctxDone \in BOOLEAN
  /\ quit \in {"no", "stop", "report", "reported", "done"}

Holders(i) == {u \in Users : rep[u] = i}

(***************************************************************************)
(* Every request a user got rid of is in exactly one place: a channel, an  *)
(* aggregator, Worker.stats, the master, or a reset (aggregator.go:58-95,  *)
(* worker.go:686-706, 747-757).                                            *)
(***************************************************************************)
Held == [i \in IDs |-> agg[i].ch + agg[i].s]
Conservation == made = SumFunction(Held) + wstats + sent + cleared

(***************************************************************************)
(* The references of an aggregator are those of its users and of the load  *)
(* generator, and its channel is closed exactly when there are none left.  *)
(* So nobody reports to a closed channel and nobody closes one twice, both *)
(* of which panic (aggregator.go:52-68, generator.go:88-104).              *)
(***************************************************************************)
RefsExact ==
  \A i \in IDs : agg[i].at # "unborn" =>
    /\ agg[i].refs = Cardinality(Holders(i)) + (IF current = i THEN 1 ELSE 0)
    /\ agg[i].closed <=> agg[i].refs = 0

(***************************************************************************)
(* Between tests no aggregator is left behind: those of the last test end, *)
(* although no user comes to release them (generator.go:200-207).          *)
(***************************************************************************)
AggregatorsEnd ==
  phase = "idle" ~> (phase # "idle" \/ ~proc
                       \/ \A i \in IDs : agg[i].at \in {"unborn", "ended"})

(***************************************************************************)
(* A request reported by a user reaches the master or is reset, while the  *)
(* stats process runs.                                                     *)
(***************************************************************************)
ReportsArrive ==
  \A k \in 1 .. MaxReports : made >= k ~> (sent + cleared >= k \/ ~proc)

(***************************************************************************)
(* Stop stops the load test (worker.go:239): LoadGenerator.Stop returns,   *)
(* which needs every user to get rid of its reports.                       *)
(***************************************************************************)
StopReturns == phase = "stopping" ~> phase = "idle"

(***************************************************************************)
(* While somebody reads the statistics no user is stuck in Report, and     *)
(* LoadGenerator.Stop returns (aggregator.go:60, 82, 88).                  *)
(***************************************************************************)
StopReturnsWhileRead == phase = "stopping" ~> (phase = "idle" \/ ~proc)
=============================================================================
