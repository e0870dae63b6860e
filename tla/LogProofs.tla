------------------------------ MODULE LogProofs ------------------------------
(***************************************************************************)
(* The theorems about LogCapture.  IndInv is inductive; it says that the   *)
(* line in slot (start + i) % MaxLines is the (total - count + 1 + i)-th.  *)
(***************************************************************************)
EXTENDS LogProps, TLAPS

\* The slots that hold lines are found by wrapping around at most once.
LEMMA WrapOnce ==
  ASSUME NEW N \in Nat \ {0}, NEW a \in 0 .. N - 1, NEW n \in 0 .. N
  PROVE  (a + n) % N = IF a + n < N THEN a + n ELSE a + n - N
<1>1. CASE a + n < N
  BY <1>1, SMT
<1>2. CASE a + n >= N
  BY <1>2, SMT
<1> QED BY <1>1, <1>2

\* While lines are held, their slots are those of the buffer, all different.
LEMMA SlotFacts ==
  ASSUME TypeOK, MaxLines \in Nat \ {0}
  PROVE  /\ \A n \in 0 .. MaxLines : Slot(n) = IF start + n < MaxLines THEN start + n
                                                                     ELSE start + n - MaxLines
         /\ \A n \in 0 .. MaxLines : Slot(n) \in Slots
         /\ \A m, n \in 0 .. MaxLines - 1 : m # n => Slot(m) # Slot(n)
<1>1. start \in 0 .. MaxLines - 1
  BY DEF TypeOK
<1>2. \A n \in 0 .. MaxLines : Slot(n) = IF start + n < MaxLines THEN start + n
                                                              ELSE start + n - MaxLines
  BY <1>1, WrapOnce DEF Slot
<1> QED BY <1>1, <1>2 DEF Slots

\* LinesAreLatest in terms of the slots.
LEMMA LatestSlots ==
  LinesAreLatest <=>
    /\ count = IF total < MaxLines THEN total ELSE MaxLines
    /\ \A i \in 1 .. count : lines[Slot(i - 1)] = total - count + i
BY DEF LinesAreLatest, Lines

\* The state that TypeOK leaves when only the ring is written.
RingType ==
  /\ lines \in [Slots -> Nat] /\ start \in Nat /\ count \in 0 .. MaxLines
  /\ start < MaxLines \/ start = 0
  /\ total \in Nat

(***************************************************************************)
(* Appending a line below the capacity puts it after the others.           *)
(***************************************************************************)
LEMMA BelowStep ==
  ASSUME TypeOK, LinesAreLatest, MaxLines \in Nat \ {0}, AppendBelow,
         total' = total + 1, lines' = [lines EXCEPT ![Slot(count)] = total + 1]
  PROVE  RingType' /\ LinesAreLatest'
<1>1. /\ \A n \in 0 .. MaxLines : Slot(n) \in Slots
      /\ \A m, n \in 0 .. MaxLines - 1 : m # n => Slot(m) # Slot(n)
  BY SlotFacts
<1>2. /\ lines \in [Slots -> Nat] /\ count \in 0 .. MaxLines - 1 /\ total \in Nat
      /\ start \in Nat /\ (start < MaxLines \/ start = 0)
      /\ count' = count + 1 /\ start' = start
  BY DEF TypeOK, AppendBelow
<1>3. /\ count = total
      /\ \A i \in 1 .. count : lines[Slot(i - 1)] = i
  BY <1>2, LatestSlots
<1>4. RingType'
  BY <1>1, <1>2 DEF RingType, Slots
<1>5. ASSUME NEW i \in 1 .. count'
      PROVE  lines'[Slot(i - 1)] = i
  <2>1. CASE i = count + 1
    BY <2>1, <1>1, <1>2, <1>3
  <2>2. CASE i # count + 1
    <3>1. i \in 1 .. count /\ i - 1 \in 0 .. MaxLines - 1 /\ i - 1 # count
      BY <2>2, <1>2
    <3>2. Slot(i - 1) # Slot(count) /\ Slot(i - 1) \in Slots
      BY <3>1, <1>1, <1>2
    <3> QED BY <3>1, <3>2, <1>2, <1>3
  <2> QED BY <2>1, <2>2
<1>6. count' = IF total' < MaxLines THEN total' ELSE MaxLines
  BY <1>2, <1>3
<1>7. ASSUME NEW i \in (1 .. count)'
      PROVE  (lines[Slot(i - 1)])' = total' - count' + i
  <2>1. i \in 1 .. count' /\ i - 1 \in 0 .. MaxLines
    BY <1>2
  <2>2. (Slot(i - 1))' = Slot(i - 1)
    BY <1>2 DEF Slot
  <2> QED BY <2>1, <2>2, <1>2, <1>3, <1>5
<1> QED BY <1>4, <1>6, <1>7, LatestSlots DEF LinesAreLatest, Lines

(***************************************************************************)
(* Appending a line to a full buffer replaces the oldest one, and the next *)
(* one becomes the oldest.                                                 *)
(***************************************************************************)
LEMMA OverStep ==
  ASSUME TypeOK, LinesAreLatest, MaxLines \in Nat \ {0}, AppendOver,
         total' = total + 1, lines' = [lines EXCEPT ![Slot(count)] = total + 1]
  PROVE  RingType' /\ LinesAreLatest'
<1>1. /\ lines \in [Slots -> Nat] /\ count = MaxLines /\ total \in Nat
      /\ start \in 0 .. MaxLines - 1
      /\ count' = count /\ start' = Slot(1)
  BY DEF TypeOK, AppendOver
<1>2. /\ \A n \in 0 .. MaxLines : Slot(n) = IF start + n < MaxLines THEN start + n
                                                                  ELSE start + n - MaxLines
      /\ \A n \in 0 .. MaxLines : Slot(n) \in Slots
      /\ \A m, n \in 0 .. MaxLines - 1 : m # n => Slot(m) # Slot(n)
  BY SlotFacts
<1>3. /\ total >= MaxLines
      /\ \A i \in 1 .. MaxLines : lines[Slot(i - 1)] = total - MaxLines + i
  BY <1>1, LatestSlots
<1>4. start' \in 0 .. MaxLines - 1 /\ Slot(count) = start /\ Slot(0) = start
  BY <1>1, <1>2 DEF Slots
<1>5. RingType'
  <2>1. lines' \in [Slots -> Nat]
    BY <1>1, <1>2
  <2>2. start' \in Nat /\ start' < MaxLines
    BY <1>4
  <2> QED BY <2>1, <2>2, <1>1 DEF RingType
<1>6. ASSUME NEW i \in 1 .. MaxLines
      PROVE  (Slot(i - 1))' = Slot(i)
  <2>1. (Slot(i - 1))' = (start' + (i - 1)) % MaxLines
    BY DEF Slot
  <2>2. (start' + (i - 1)) % MaxLines =
          IF start' + (i - 1) < MaxLines THEN start' + (i - 1) ELSE start' + (i - 1) - MaxLines
    <3>1. i - 1 \in 0 .. MaxLines
      OBVIOUS
    <3> QED BY <3>1, <1>4, WrapOnce
  <2>3. start' = IF start + 1 < MaxLines THEN start + 1 ELSE start + 1 - MaxLines
    BY <1>1, <1>2
  <2>4. Slot(i) = IF start + i < MaxLines THEN start + i ELSE start + i - MaxLines
    BY <1>2
  <2> QED BY <2>1, <2>2, <2>3, <2>4, <1>1
<1>7. ASSUME NEW i \in 1 .. MaxLines
      PROVE  lines'[Slot(i)] = total' - MaxLines + i
  <2>1. CASE i = MaxLines
    BY <2>1, <1>1, <1>2, <1>4
  <2>2. CASE i # MaxLines
    <3>1. i \in 1 .. MaxLines - 1 /\ i + 1 \in 1 .. MaxLines /\ (i + 1) - 1 = i
      BY <2>2
    <3>2. lines[Slot(i)] = total - MaxLines + (i + 1)
      BY <3>1, <1>3
    <3>3. Slot(i) # Slot(count) /\ Slot(i) \in Slots
      BY <3>1, <1>2, <1>4
    <3> QED BY <3>2, <3>3, <1>1
  <2> QED BY <2>1, <2>2
<1>8. count' = IF total' < MaxLines THEN total' ELSE MaxLines
  BY <1>1, <1>3
<1>9. ASSUME NEW i \in (1 .. count)'
      PROVE  (lines[Slot(i - 1)])' = total' - count' + i
  BY <1>1, <1>6, <1>7
<1> QED BY <1>5, <1>8, <1>9, LatestSlots DEF LinesAreLatest, Lines

-----------------------------------------------------------------------------
\* What a report reads while the lines are the latest ones.
LEMMA LastLine ==
  ASSUME TypeOK, LinesAreLatest, MaxLines > 0, total > 0
  PROVE  Lines \in Seq(Nat) /\ Lines # <<>> /\ Lines[Len(Lines)] = total
<1>1. count \in 1 .. MaxLines /\ count \in Nat
  BY LogAssumption DEF TypeOK, LinesAreLatest
<1>2. \A i \in 1 .. count : Lines[i] = total - count + i /\ Lines[i] \in Nat
  BY <1>1, LogAssumption DEF TypeOK, LinesAreLatest
<1>3. Lines \in Seq(Nat) /\ Len(Lines) = count
  <2>1. Lines = [i \in 1 .. count |-> Lines[i]]
    BY DEF Lines
  <2> QED BY <2>1, <1>1, <1>2
<1> QED BY <1>1, <1>2, <1>3, LogAssumption DEF TypeOK

LEMMA InitInv == Init => IndInv
<1> USE LogAssumption
<1> SUFFICES ASSUME Init PROVE IndInv
  OBVIOUS
<1>1. TypeOK
  <2>1. lines \in [Slots -> Nat] /\ snapshot \in Seq(Nat)
    BY DEF Init, NoLine
  <2>2. 0 \in 0 .. MaxLines /\ 0 \in 0 .. MaxBatch /\ 0 + 0 <= MaxTotal
    OBVIOUS
  <2> QED BY <2>1, <2>2 DEF Init, TypeOK, NoLine
<1>2. LinesAreLatest
  BY DEF Init, LinesAreLatest
<1>3. SnapshotInv /\ ReportedIsDelivered
  BY DEF Init, SnapshotInv, ReportedIsDelivered, NoLine
<1> QED BY <1>1, <1>2, <1>3 DEF IndInv

LEMMA Append1Step == IndInv /\ Append1 => IndInv'
<1> SUFFICES ASSUME IndInv, Append1 PROVE IndInv'
  OBVIOUS
<1> USE LogAssumption
<1>1. TypeOK /\ LinesAreLatest /\ SnapshotInv /\ ReportedIsDelivered
  BY DEF IndInv
<1>2. RingType' /\ LinesAreLatest'
  <2>1. CASE MaxLines = 0
    BY <2>1, <1>1 DEF TypeOK, LinesAreLatest, Append1, RingType, Lines, Slots
  <2>2. CASE MaxLines # 0
    <3>1. /\ MaxLines \in Nat \ {0} /\ total' = total + 1
          /\ lines' = [lines EXCEPT ![Slot(count)] = total + 1]
          /\ AppendBelow \/ AppendOver
      BY <2>2 DEF Append1
    <3> QED BY <3>1, <1>1, BelowStep, OverStep
  <2> QED BY <2>1, <2>2
<1>3. TypeOK'
  BY <1>1, <1>2 DEF TypeOK, RingType, Append1, procVars
<1>4. SnapshotInv' /\ ReportedIsDelivered'
  BY <1>1 DEF TypeOK, SnapshotInv, ReportedIsDelivered, Append1, procVars
<1> QED BY <1>2, <1>3, <1>4 DEF IndInv

LEMMA SnapshotStep == IndInv /\ Snapshot => IndInv'
<1> SUFFICES ASSUME IndInv, Snapshot PROVE IndInv'
  OBVIOUS
<1> USE LogAssumption
<1>1. TypeOK /\ LinesAreLatest /\ SnapshotInv /\ ReportedIsDelivered
  BY DEF IndInv
<1>2. snapshot' = Lines /\ total > 0 /\ seenTotal <= total
  BY <1>1 DEF Snapshot, SnapshotInv, TypeOK
<1>3. snapshot' \in Seq(Nat)
  <2>1. CASE MaxLines = 0
    BY <2>1, <1>1, <1>2 DEF TypeOK, Lines
  <2>2. CASE MaxLines > 0
    BY <2>2, <1>1, <1>2, LastLine
  <2> QED BY <2>1, <2>2
<1>4. TypeOK'
  BY <1>1, <1>3 DEF TypeOK, Snapshot, ringVars
<1>5. LinesAreLatest'
  BY <1>1 DEF LinesAreLatest, Lines, Slot, Snapshot, ringVars
<1>6. SnapshotInv'
  BY <1>1, <1>2, LastLine DEF SnapshotInv, Snapshot, ringVars, TypeOK
<1>7. ReportedIsDelivered'
  BY <1>1 DEF ReportedIsDelivered, Snapshot
<1> QED BY <1>4, <1>5, <1>6, <1>7 DEF IndInv

LEMMA SendStep == IndInv /\ SendSucceeds => IndInv'
<1> SUFFICES ASSUME IndInv, SendSucceeds PROVE IndInv'
  OBVIOUS
<1> USE LogAssumption
<1>1. TypeOK /\ LinesAreLatest /\ SnapshotInv /\ ReportedIsDelivered
  BY DEF IndInv
<1>2. delivered' \in Nat
  <2>1. CASE snapshot = <<>>
    BY <2>1, <1>1 DEF SendSucceeds, TypeOK
  <2>2. CASE snapshot # <<>>
    <3>1. Len(snapshot) \in 1 .. Len(snapshot) /\ snapshot[Len(snapshot)] \in Nat
      BY <2>2, <1>1 DEF TypeOK
    <3> QED BY <2>2, <3>1 DEF SendSucceeds
  <2> QED BY <2>1, <2>2
<1>3. TypeOK'
  BY <1>1, <1>2 DEF TypeOK, SendSucceeds, ringVars
<1>4. LinesAreLatest'
  BY <1>1 DEF LinesAreLatest, Lines, Slot, SendSucceeds, ringVars
<1>5. SnapshotInv'
  BY DEF SnapshotInv, SendSucceeds
<1>6. ReportedIsDelivered'
  BY <1>1 DEF ReportedIsDelivered, SendSucceeds, SnapshotInv
<1> QED BY <1>3, <1>4, <1>5, <1>6 DEF IndInv

\* The steps that write neither the ring nor a report that is sent.
LEMMA OtherSteps ==
  IndInv /\ (\/ \E n \in 1 .. MaxBatch : BeginWrite(n)
            \/ ReadTotal \/ SendFails \/ CancelJoin \/ ReportExit \/ UNCHANGED vars) => IndInv'
<1> USE LogAssumption
<1> SUFFICES ASSUME IndInv,
                    \/ \E n \in 1 .. MaxBatch : BeginWrite(n)
                    \/ ReadTotal \/ SendFails \/ CancelJoin \/ ReportExit \/ UNCHANGED vars
             PROVE  IndInv'
  OBVIOUS
<1>1. TypeOK /\ LinesAreLatest /\ SnapshotInv /\ ReportedIsDelivered
  BY DEF IndInv
<1>2. UNCHANGED ringVars /\ lastTotal' = lastTotal /\ delivered' = delivered
  BY DEF BeginWrite, ReadTotal, SendFails, CancelJoin, ReportExit, vars, procVars
<1>3. TypeOK'
  <2>1. CASE \E n \in 1 .. MaxBatch : BeginWrite(n)
    BY <2>1, <1>1 DEF TypeOK, BeginWrite, ringVars, procVars
  <2>2. CASE ReadTotal
    BY <2>2, <1>1 DEF TypeOK, ReadTotal, ringVars
  <2>3. CASE SendFails
    BY <2>3, <1>1 DEF TypeOK, SendFails, ringVars
  <2>4. CASE CancelJoin
    BY <2>4, <1>1 DEF TypeOK, CancelJoin, ringVars, procVars
  <2>5. CASE ReportExit
    BY <2>5, <1>1 DEF TypeOK, ReportExit, ringVars
  <2>6. CASE UNCHANGED vars
    BY <2>6, <1>1 DEF TypeOK, vars, ringVars, procVars
  <2> QED BY <2>1, <2>2, <2>3, <2>4, <2>5, <2>6
<1>4. LinesAreLatest' /\ ReportedIsDelivered'
  BY <1>1, <1>2 DEF LinesAreLatest, Lines, Slot, ReportedIsDelivered, ringVars
<1>5. SnapshotInv'
  BY <1>1 DEF TypeOK, SnapshotInv, BeginWrite, ReadTotal, SendFails, CancelJoin, ReportExit, vars,
     ringVars, procVars
<1> QED BY <1>3, <1>4, <1>5 DEF IndInv

LEMMA Invariance == IndInv /\ [Next]_vars => IndInv'
BY Append1Step, SnapshotStep, SendStep, OtherSteps DEF Next

-----------------------------------------------------------------------------
(***************************************************************************)
(* IndInv holds in every reachable state.                                  *)
(***************************************************************************)
THEOREM Safety == Spec => []IndInv
BY InitInv, Invariance, PTL DEF Spec

(***************************************************************************)
(* For every size of the buffer, however often it wraps around, Lines is   *)
(* the most recent lines, oldest first (log.go:79-107).                    *)
(***************************************************************************)
THEOREM RingHoldsLatest == Spec => []LinesAreLatest
<1>1. IndInv => LinesAreLatest
  BY DEF IndInv
<1> QED BY <1>1, Safety, PTL

(***************************************************************************)
(* No line is counted as reported before a report with it, or with a later *)
(* one, was sent (worker.go:727-730).                                      *)
(***************************************************************************)
THEOREM NothingHidden == Spec => []ReportedIsDelivered
<1>1. IndInv => ReportedIsDelivered
  BY DEF IndInv
<1> QED BY <1>1, Safety, PTL
=============================================================================
