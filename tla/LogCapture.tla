------------------------------ MODULE LogCapture ------------------------------
(***************************************************************************)
(* The ring buffer of the latest log lines (log.go) and the process of the *)
(* worker that reports them to the master (worker.go:708-738).             *)
(*                                                                         *)
(* A line is the number of lines written before it, plus one.  Write holds *)
(* the mutex while it appends the complete lines of its argument, one at a *)
(* time; Total and Lines take the mutex once each, so a report is made of  *)
(* two snapshots.                                                          *)
(***************************************************************************)
EXTENDS Integers, Sequences

CONSTANTS
  MaxLines,  \* lines the buffer keeps
  MaxBatch,  \* bound: complete lines of one Write
  MaxTotal   \* bound: lines written

ASSUME LogAssumption == MaxLines \in Nat /\ MaxBatch \in Nat /\ MaxTotal \in Nat

VARIABLES
  lines, start, count, total,  \* the fields of LogCapture
  writing,    \* lines the Write that holds the mutex has yet to append
  report,     \* where the report process is: "idle", "read", "send" or "exited"
  seenTotal,  \* its variable total
  snapshot,   \* what Lines returned to it
  lastTotal,  \* its variable lastTotal
  ctxDone,    \* the join context is canceled
  delivered   \* history: the last line of the last report that was sent

ringVars == <<lines, start, count, total>>
procVars == <<report, seenTotal, snapshot, lastTotal>>
vars == <<ringVars, writing, procVars, ctxDone, delivered>>

Slots == 0 .. MaxLines - 1
NoLine == 0

Init ==
  /\ lines = [i \in Slots |-> NoLine] /\ start = 0 /\ count = 0 /\ total = 0
  /\ writing = 0
  /\ report = "idle" /\ seenTotal = 0 /\ snapshot = <<>> /\ lastTotal = 0
  /\ ctxDone = FALSE /\ delivered = NoLine

(***************************************************************************)
(* LogCapture.                                                             *)
(***************************************************************************)
\* The slot n places after the oldest line (mutant: it does not wrap).
SlotNoWrap(n) == IF start + n < MaxLines THEN start + n ELSE MaxLines - 1
Slot(n) == (start + n) % MaxLines

MutexFree == writing = 0

\* A Write without a line break only extends the partial line, which is left out.
BeginWrite(n) ==
  /\ MutexFree /\ total + n <= MaxTotal /\ writing' = n
  /\ UNCHANGED <<ringVars, procVars, ctxDone, delivered>>

\* There is a free slot.
AppendBelow ==
  /\ count < MaxLines
  /\ count' = count + 1 /\ UNCHANGED start

\* The oldest line is overwritten (mutant: the oldest line is not moved).
AppendOverKeepStart ==
  count = MaxLines /\ UNCHANGED <<start, count>>
AppendOver ==
  /\ count = MaxLines
  /\ start' = Slot(1) /\ UNCHANGED count

Append1 ==
  /\ writing > 0 /\ writing' = writing - 1
  /\ total' = total + 1
  /\ IF MaxLines = 0
       THEN UNCHANGED <<lines, start, count>>
       ELSE /\ lines' = [lines EXCEPT ![Slot(count)] = total + 1]
            /\ AppendBelow \/ AppendOver
  /\ UNCHANGED <<procVars, ctxDone, delivered>>

Lines == [i \in 1 .. count |-> lines[Slot(i - 1)]]

(***************************************************************************)
(* The report process: on a tick, Total, then Lines, then the send.        *)
(***************************************************************************)
\* Mutant: the number of buffered lines is compared, not of all lines.
ReadCount ==
  /\ report = "idle" /\ MutexFree /\ count > lastTotal
  /\ seenTotal' = count /\ report' = "read"
  /\ UNCHANGED <<ringVars, writing, snapshot, lastTotal, ctxDone, delivered>>
ReadTotal ==
  /\ report = "idle" /\ MutexFree /\ total > lastTotal
  /\ seenTotal' = total /\ report' = "read"
  /\ UNCHANGED <<ringVars, writing, snapshot, lastTotal, ctxDone, delivered>>

Snapshot ==
  /\ report = "read" /\ MutexFree
  /\ snapshot' = Lines /\ report' = "send"
  /\ UNCHANGED <<ringVars, writing, seenTotal, lastTotal, ctxDone, delivered>>

\* Mutant: what is counted as reported is the total after the send.
SendSucceedsTotal ==
  /\ report = "send" /\ report' = "idle" /\ snapshot' = <<>>
  /\ lastTotal' = total
  /\ delivered' = IF snapshot = <<>> THEN delivered ELSE snapshot[Len(snapshot)]
  /\ UNCHANGED <<ringVars, writing, seenTotal, ctxDone>>
SendSucceeds ==
  /\ report = "send" /\ report' = "idle" /\ snapshot' = <<>>
  /\ lastTotal' = seenTotal
  /\ delivered' = IF snapshot = <<>> THEN delivered ELSE snapshot[Len(snapshot)]
  /\ UNCHANGED <<ringVars, writing, seenTotal, ctxDone>>

SendFails ==
  /\ report = "send" /\ report' = "idle" /\ snapshot' = <<>>
  /\ UNCHANGED <<ringVars, writing, seenTotal, lastTotal, ctxDone, delivered>>

CancelJoin ==
  /\ ~ctxDone /\ ctxDone' = TRUE
  /\ UNCHANGED <<ringVars, writing, procVars, delivered>>

ReportExit ==
  /\ report = "idle" /\ ctxDone /\ report' = "exited"
  /\ UNCHANGED <<ringVars, writing, seenTotal, snapshot, lastTotal, ctxDone, delivered>>

Next ==
  \/ \E n \in 1 .. MaxBatch : BeginWrite(n)
  \/ Append1 \/ ReadTotal \/ Snapshot \/ SendSucceeds \/ SendFails
  \/ CancelJoin \/ ReportExit

Spec == Init /\ [][Next]_vars

\* Goroutines are scheduled, the ticker ticks, the master can be reached again and
\* again, and the mutex is handed to those that wait for it.
Fairness ==
  /\ WF_vars(Append1) /\ SF_vars(ReadTotal) /\ SF_vars(Snapshot) /\ SF_vars(SendSucceeds)

FairSpec == Spec /\ Fairness
=============================================================================
