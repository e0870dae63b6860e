----------------------------- MODULE ThreadPool -----------------------------
(***************************************************************************)
(* What spawner/spawner.go promises about concurrency, whatever its mode:  *)
(* a pool with a limit, which is only changed while spawning is closed and *)
(* which spawning, while it is open, never exceeds.  A limit below the     *)
(* number of live threads is allowed while the pool is closed; spawning    *)
(* cannot be resumed until enough of them have ended.                      *)
(***************************************************************************)
EXTENDS Integers, FiniteSets

CONSTANTS Threads, MaxLimit

VARIABLES limit, live, open
poolVars == <<limit, live, open>>

PoolInit == limit = 0 /\ live = {} /\ open = FALSE

Retarget(n) == ~open /\ limit' = n /\ UNCHANGED <<live, open>>

Resume ==
  /\ ~open /\ Cardinality(live) <= limit
  /\ open' = TRUE /\ UNCHANGED <<limit, live>>

Launch(u) ==
  /\ open /\ u \notin live /\ Cardinality(live) < limit
  /\ live' = live \cup {u} /\ UNCHANGED <<limit, open>>

Finish(u) == u \in live /\ live' = live \ {u} /\ UNCHANGED <<limit, open>>

Close == open /\ open' = FALSE /\ UNCHANGED <<limit, live>>

PoolNext ==
  \/ \E n \in 0 .. MaxLimit : Retarget(n)
  \/ Resume \/ Close
  \/ \E u \in Threads : Launch(u) \/ Finish(u)

PoolSpec == PoolInit /\ [][PoolNext]_poolVars
=============================================================================
