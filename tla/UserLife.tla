------------------------------ MODULE UserLife -------------------------------
(***************************************************************************)
(* The life of a user: processUser (user.go) under the two contexts of     *)
(* WithGracefulStop (graceful_stop.go).  The spawner cancels the soft      *)
(* context; the hard one, which the hooks and tasks see, is canceled when  *)
(* the grace period is over, or at once without one.                       *)
(*                                                                         *)
(* What Process does is left open here: it may return anything at any      *)
(* time.  TaskSet puts the tasks of a user in its place.                   *)
(***************************************************************************)
EXTENDS Integers

CONSTANTS
  Graces,    \* whether stopTimeout > 0: a subset of BOOLEAN, chosen initially
  Catches,   \* CatchExceptions of the runner: likewise
  MaxErrors  \* bound: unexpected errors of the program

ASSUME UserAssumption ==
  Graces \subseteq BOOLEAN /\ Catches \subseteq BOOLEAN /\ MaxErrors \in Nat

VARIABLES
  grace, catch,  \* the choices
  soft,      \* the spawner's context is canceled
  hard,      \* the graceful context is canceled
  timer,     \* context.AfterFunc and then time.AfterFunc: "armed", "running", "over" or "none"
  at,        \* where processUser is
  err,       \* what it returned
  open,      \* history: OnStart hooks the program has yet to see the OnStop of
  raised,    \* history: unexpected errors returned by the program
  reported   \* history: exceptions sent to the master

optVars  == <<grace, catch>>
ctxVars  == <<soft, hard, timer>>
lifeVars == <<at, err, open>>
errVars  == <<raised, reported>>
userVars == <<optVars, ctxVars, lifeVars, errVars>>

Outcomes == {"ok", "stopUser", "canceled", "error"}

UserInit ==
  /\ grace \in Graces /\ catch \in Catches
  /\ soft = FALSE /\ hard = FALSE /\ timer = "armed"
  /\ at = "onStart" /\ err = "none" /\ open = 1 /\ raised = 0 /\ reported = 0

\* The program returns r, which is an exception or not.
Raise(isException) ==
  raised' = raised + (IF isException THEN 1 ELSE 0) /\ raised' <= MaxErrors

(***************************************************************************)
(* The contexts.                                                           *)
(***************************************************************************)
Ask ==
  /\ ~soft /\ at # "gone" /\ soft' = TRUE
  /\ UNCHANGED <<optVars, hard, timer, lifeVars, errVars>>

\* Mutant: the hard context does not wait for the grace period.
AfterFuncAtOnce ==
  /\ soft /\ timer = "armed" /\ hard' = TRUE /\ timer' = "none"
  /\ UNCHANGED <<optVars, soft, lifeVars, errVars>>
AfterFunc ==
  /\ soft /\ timer = "armed"
  /\ IF grace THEN timer' = "running" /\ UNCHANGED hard ELSE hard' = TRUE /\ timer' = "none"
  /\ UNCHANGED <<optVars, soft, lifeVars, errVars>>

TimerFires ==
  /\ timer = "running" /\ timer' = "over" /\ hard' = TRUE
  /\ UNCHANGED <<optVars, soft, lifeVars, errVars>>

(***************************************************************************)
(* processUser.                                                            *)
(***************************************************************************)
\* What the load generator reports when processUser returns it.
Unexpected(r) == r \notin {"ok", "canceled"}

\* It returns: the deferred cleanup, and what the load generator does with the error.
Leave(r) ==
  /\ at' = "gone" /\ err' = r /\ hard' = TRUE
  /\ timer' = IF timer = "armed" THEN "none" ELSE timer
  /\ reported' = reported + (IF Unexpected(r) THEN 1 ELSE 0)
  /\ UNCHANGED <<optVars, soft>>

Goto(label) == at' = label /\ UNCHANGED <<optVars, ctxVars, err, reported>>

OnStartReturns(r) ==
  /\ at = "onStart" /\ Raise(r = "error") /\ UNCHANGED open
  /\ CASE r = "ok"                       -> Goto("loop")
       [] r \in {"canceled", "stopUser"} -> Goto("onStop")
       [] r = "error"                    -> Leave(r)

Check ==
  /\ at = "loop" /\ Goto(IF soft THEN "onStop" ELSE "process")
  /\ UNCHANGED <<open, raised>>

\* A caught error is reported and the user goes on (mutant: it is not reported).
CatchSilently == reported
CatchAndReport == reported + 1

ProcessReturns(r) ==
  /\ at = "process" /\ UNCHANGED <<open, raised>>
  /\ CASE r = "ok"                       -> Goto("loop")
       [] r \in {"canceled", "stopUser"} -> Goto("onStop")
       [] r = "error" /\ ~catch          -> Leave(r)
       [] r = "error" /\ catch           ->
            /\ at' = "loop" /\ reported' = CatchAndReport
            /\ UNCHANGED <<optVars, ctxVars, err>>

\* Here StopUser is an exception like any other.
OnStopReturns(r) ==
  /\ at = "onStop" /\ Raise(Unexpected(r)) /\ open' = open - 1 /\ Leave(r)

-----------------------------------------------------------------------------
Contexts == Ask \/ AfterFunc \/ TimerFires
Hooks == \E r \in Outcomes : OnStartReturns(r) \/ OnStopReturns(r)

(***************************************************************************)
(* The promise of Process: it may catch its errors itself when told to,    *)
(* and returns an error exactly when it has one that nobody has reported.  *)
(***************************************************************************)
Works ==
  /\ at = "process"
  /\ \/ raised = reported /\ Raise(TRUE) /\ UNCHANGED reported
     \/ raised # reported /\ catch /\ reported' = reported + 1 /\ UNCHANGED raised
  /\ UNCHANGED <<optVars, ctxVars, lifeVars>>
Returns(r) == (r = "error" <=> raised # reported) /\ ProcessReturns(r)

UserNext == Contexts \/ Hooks \/ Check \/ Works \/ \E r \in Outcomes : Returns(r)

UserSpec == UserInit /\ [][UserNext]_userVars
=============================================================================
