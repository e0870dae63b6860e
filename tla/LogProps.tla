------------------------------- MODULE LogProps -------------------------------
(***************************************************************************)
(* What must hold of the log buffer and its reports.                       *)
(***************************************************************************)
EXTENDS LogCapture

\* Every variable has its type.
TypeOK ==
  /\ lines \in [Slots -> Nat] /\ start \in Nat /\ count \in 0 .. MaxLines
  /\ start < MaxLines \/ start = 0
  /\ total \in Nat /\ writing \in 0 .. MaxBatch /\ total + writing <= MaxTotal
  /\ report \in {"idle", "read", "send", "exited"}
  /\ seenTotal \in Nat /\ lastTotal \in Nat /\ delivered \in Nat
  /\ snapshot \in Seq(Nat) /\ ctxDone \in BOOLEAN

(***************************************************************************)
(* Lines returns the most recent lines, oldest first, MaxLines of them or  *)
(* all there are, however often the buffer wrapped around (log.go:47-48,   *)
(* 79-107).                                                                *)
(***************************************************************************)
LinesAreLatest ==
  /\ count = IF total < MaxLines THEN total ELSE MaxLines
  /\ \A i \in 1 .. count : Lines[i] = total - count + i

(***************************************************************************)
(* What the process counts as reported was in a report that was sent (or   *)
(* evicted before): a line written between Total and Lines, or a send that *)
(* failed, hides nothing (worker.go:727-730).                              *)
(***************************************************************************)
ReportedIsDelivered == MaxLines > 0 => lastTotal <= delivered

(***************************************************************************)
(* A line written is in a later report, or was evicted before it, also     *)
(* when the buffer has wrapped around and keeps its length                 *)
(* (worker.go:720, log.go:109-112), unless the worker quits.               *)
(***************************************************************************)
LinesArrive ==
  MaxLines > 0 => \A k \in 1 .. MaxTotal : total >= k ~> (delivered >= k \/ ctxDone)

-----------------------------------------------------------------------------
(***************************************************************************)
(* The inductive invariant: a snapshot ends with a line at least as late   *)
(* as the total read before it.                                            *)
(***************************************************************************)
SnapshotInv ==
  /\ report \in {"read", "send"} => 0 < seenTotal /\ seenTotal <= total
  /\ report = "send" /\ MaxLines > 0 =>
       snapshot # <<>> /\ seenTotal <= snapshot[Len(snapshot)]

IndInv == TypeOK /\ LinesAreLatest /\ SnapshotInv /\ ReportedIsDelivered
=============================================================================
