---------------------------- MODULE GeneratorProps ---------------------------
(***************************************************************************)
(* What must hold of the load generator, however its calls overlap.        *)
(***************************************************************************)
EXTENDS Generator

Places ==
  {"idle", "store", "letgo", "handlers", "classes", "return", "cap", "cut", "stopping",
   "stopClasses", "stopHandlers"}
Labels == {"swap", "check", "list", "launch", "migrate", "manager", "clear", "wait"}

\* Every variable has its type.
TypeOK ==
  /\ pc \in [Procs -> Places] /\ job \in [Procs -> [Classes -> Seq(Labels)]]
  /\ want \in 0 .. MaxCount /\ calls \in 0 .. MaxCalls /\ alone \in [Procs -> BOOLEAN]
  /\ started \in BOOLEAN /\ cancelStart \in BOOLEAN /\ startCtx \in BOOLEAN
  /\ cutIn \in InStart \cup {"no"} /\ tests \in 0 .. MaxCalls /\ ends \in 0 .. MaxCalls
  /\ target \in [Classes -> 0 .. MaxCount] /\ limit \in [Classes -> 0 .. MaxCount]
  /\ pool \in [Classes -> {"none", "migrating", "open"}]
  /\ user \in [Users -> Classes \cup {"none"}] /\ canceled \in SUBSET Users
  /\ waiting \in [Procs -> [Classes -> SUBSET Users]]
  /\ rep \in [Users -> 0 .. MaxAggs] /\ current \in 0 .. MaxAggs /\ counter \in 0 .. Share - 1
  /\ agg \in [IDs -> [refs : Nat, closed : BOOLEAN]] /\ created \in 0 .. MaxAggs

(***************************************************************************)
(* However Start, Stop and the users that come and go overlap, the         *)
(* references of an aggregator are those of its users and, while users are *)
(* assigned to it, of the generator, and it is closed by the last one: no  *)
(* user reports to a closed channel, none is closed twice, both of which   *)
(* panic (generator.go:88-104, 149-156, 200-207).                          *)
(***************************************************************************)
Holders(i) == {u \in Users : rep[u] = i}
ReferencesShared ==
  \A i \in 1 .. created :
    /\ agg[i].refs = Cardinality(Holders(i)) + (IF current = i THEN 1 ELSE 0)
    /\ agg[i].closed <=> agg[i].refs = 0

(***************************************************************************)
(* A Stop that no other call overlaps cleans up whatever earlier calls     *)
(* have left, also those that did overlap: when the OnTestStop handlers    *)
(* run there is no manager, no user of any class, and no aggregator that   *)
(* is still open (generator.go:172-212).                                   *)
(***************************************************************************)
StopCleansUp ==
  \A p \in Procs : At(p, "stopHandlers") /\ alone[p] =>
    /\ \A c \in Classes : pool[c] = "none" /\ Live(c) = {}
    /\ current = 0 /\ \A i \in 1 .. created : agg[i].closed

(***************************************************************************)
(* The OnTestStopping and OnTestStop handlers run at most once for a test, *)
(* however many goroutines stop it at once (generator.go:173).             *)
(***************************************************************************)
StoppedOnce == ends + (IF started THEN 1 ELSE 0) <= tests

(***************************************************************************)
(* Stop, Spawn and StopUsers return, and so does Start but for its         *)
(* handlers: no two of them wait for each other, although Stop waits for   *)
(* the manager a Spawn is about to launch, and that for users to end.      *)
(* There are finitely many calls, so that again and again all are done.    *)
(***************************************************************************)
CallsReturn == []<>(\A p \in Procs : pc[p] \in {"idle", "handlers"})

(***************************************************************************)
(* A Stop that comes while the OnTestStart handlers are about to run, or   *)
(* run, ends them by their context (generator.go:178-180).                 *)
(***************************************************************************)
StopEndsStart ==
  At(Driver, "handlers") /\ cutIn \in {"letgo", "handlers"} ~> ~At(Driver, "handlers")

(***************************************************************************)
(* A spawn is abandoned when a Stop comes during Start (the comment at     *)
(* worker.go:571): a Stop that came before the handlers had returned       *)
(* leaves no manager running once all calls have returned.                 *)
(***************************************************************************)
AbandonedWhenStopped ==
  cutIn \in {"store", "letgo", "handlers"} /\ (\A p \in Procs : At(p, "idle")) =>
    \A c \in Classes : pool[c] = "none"
=============================================================================
