----------------------------- MODULE TaskSetProps ----------------------------
(***************************************************************************)
(* What must hold of a user and its task sets.                             *)
(***************************************************************************)
EXTENDS TaskSet

(***************************************************************************)
(* Whoever stops the user, tasks and hooks keep their context for the      *)
(* whole grace period (graceful_stop.go:30, user.go:104).                  *)
(***************************************************************************)
GraceKept == hard /\ at # "gone" /\ grace => timer = "over"

(***************************************************************************)
(* A user that was asked to stop ends the task it is in and begins at most *)
(* one more, the one it had already decided on (taskset.go:87).            *)
(***************************************************************************)
AtMostOneTaskAfterStop == late <= 1

(***************************************************************************)
(* Every exception of the program is reported to the master exactly once,  *)
(* by the innermost set or by the user or by the load generator, whatever  *)
(* CatchExceptions says (taskset.go:139-144, user.go:130-135,              *)
(* generator.go:112-117).                                                  *)
(***************************************************************************)
ErrorsReportedOnce == raised = reported + (IF ret = "error" THEN 1 ELSE 0)

(***************************************************************************)
(* A set that was started is stopped, at any depth and whatever made the   *)
(* user leave, unless an exception that is not caught ends it; so is the   *)
(* user, unless its own OnStart or such an exception fails.                *)
(***************************************************************************)
NothingLeftOpen ==
  at = "gone" => /\ opened > 0 => err = "error" /\ ~catch
                 /\ open > 0 => err = "error"

(***************************************************************************)
(* Filtering by tags: a task can run exactly when nothing on the way to it *)
(* from the root is excluded and, when tags are asked for, something on    *)
(* the way has one.  A random set draws each as often as its weight says.  *)
(* What runs can run, or was scheduled by the program, and a user panics   *)
(* only when no task can run at all (filter.go:38-100).                    *)
(***************************************************************************)
Inside ==
  [n \in Nodes |-> {m \in Nodes : \A C \in SUBSET Nodes :
                     n \in C /\ (\A s \in C \cap Sets : Range(Tasks[s]) \subseteq C) => m \in C}]
WayTo(n) == {w \in Nodes \ {Root} : n \in Inside[w]}
TagsOnWay(n) == UNION {Tags(w) : w \in WayTo(n)}
CanRun == {n \in Leaves : /\ TagsOnWay(n) \cap run.exclude = {}
                          /\ run.given => TagsOnWay(n) \cap run.include # {}}

Left[s \in Sets] ==
  [needsTag \in BOOLEAN |->
     UNION {IF t \in Sets THEN Left[t][NeedsTag(needsTag, t)] ELSE {t} :
              t \in Range(FilterTasks[s][needsTag])}]
Times(t, seq) == Cardinality({i \in DOMAIN seq : seq[i] = t})
FilterExact ==
  /\ Left[Root][run.given] = CanRun
  /\ stack # <<>> =>
       /\ Top.set \in Random => \A t \in Range(Filtered(Top)) :
            Times(t, Filtered(Top)) = IF GetWeight(t) < 1 THEN 1 ELSE GetWeight(t)
       /\ Top.task \in Leaves => Top.task \in CanRun \cup Scheduled
  /\ Panicked => CanRun = {}

(***************************************************************************)
(* A user that is asked to stop does, although a task may wait for its     *)
(* context and a wait would be endless (user.go:116-121).                  *)
(***************************************************************************)
UserStops == soft ~> (at = "gone" \/ Panicked)

(***************************************************************************)
(* Task sets are one way to be a user (taskset/user.go:67).                *)
(***************************************************************************)
ImplementsUserLife == UserSpec
=============================================================================
