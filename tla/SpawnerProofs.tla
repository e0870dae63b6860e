---------------------------- MODULE SpawnerProofs ----------------------------
(***************************************************************************)
(* Proofs about the goroutine manager of Spawner, for every mode, every    *)
(* set of stoppers and every value of the bounds.  IndInv of SpawnerProps  *)
(* is inductive: one lemma per action shows its four parts preserved, the  *)
(* typing, the protocol of mutexes and channels, the tokens, the accounts. *)
(***************************************************************************)
EXTENDS SpawnerProps, FiniteSetTheorems, TLAPS

-----------------------------------------------------------------------------
\* Cardinalities of sets of threads.
LEMMA CardIDs ==
  ASSUME NEW S \in SUBSET IDs
  PROVE  IsFiniteSet(S) /\ Cardinality(S) \in Nat
<1>1. IsFiniteSet(IDs)
  BY FS_Interval, ConstAssumption DEF ConstAssumption, IDs
<1>2. IsFiniteSet(S)
  BY <1>1, FS_Subset
<1>3. QED
  BY <1>2, FS_CardinalityType

LEMMA CardAdd ==
  ASSUME NEW S \in SUBSET IDs, NEW u \in IDs, u \notin S
  PROVE  Cardinality(S \cup {u}) = Cardinality(S) + 1
BY CardIDs, FS_AddElement

LEMMA CardDel ==
  ASSUME NEW S \in SUBSET IDs, NEW u \in S
  PROVE  Cardinality(S \ {u}) = Cardinality(S) - 1
BY CardIDs, FS_RemoveElement

\* What threadList.pop takes is listed, and is nothing when n <= 0.
LEMMA OldestFacts ==
  ASSUME NEW S \in SUBSET IDs, NEW n \in Int
  PROVE  /\ Oldest(S, n) \in SUBSET S
         /\ Cardinality(S \ Oldest(S, n)) = Cardinality(S) - Cardinality(Oldest(S, n))
         /\ Cardinality(Oldest(S, n)) \in Nat
         /\ n <= 0 => Oldest(S, n) = {}
<1>1. Oldest(S, n) \in SUBSET S
  BY DEF Oldest
<1>2. S \cap Oldest(S, n) = Oldest(S, n)
  BY <1>1
<1>3. Cardinality(S \ Oldest(S, n)) = Cardinality(S) - Cardinality(Oldest(S, n))
  BY <1>1, <1>2, CardIDs, FS_Difference
<1>4. Cardinality(Oldest(S, n)) \in Nat
  BY <1>1, CardIDs
<1>5. ASSUME n <= 0 PROVE Oldest(S, n) = {}
  <2>1. SUFFICES ASSUME NEW u \in Oldest(S, n) PROVE FALSE
    OBVIOUS
  <2>2. Cardinality({w \in S : w < u}) < n
    BY <2>1 DEF Oldest
  <2>3. Cardinality({w \in S : w < u}) \in Nat
    BY CardIDs
  <2>4. QED
    BY <1>5, <2>2, <2>3
<1>6. QED
  BY <1>1, <1>3, <1>4, <1>5

\* Bookkeeping every leaf below looks through: the frames of the actions.
USE ConstAssumption DEF ConstAssumption, Goto, BeginCall, HasRoom, Receivable, WorkerEnded,
    capVars, listVars, userVars, stopVars, workVars, acctVars, callVars

LEMMA CallCapStep ==
  ASSUME IndInv, NEW n \in 0 .. MaxCount, CallCap(n)
  PROVE  IndInv'
<1>1. TypeOK'
  <2>1. pc' \in [Callers -> DriverLabels \cup StopperLabels]
    BY DEF IndInv, TypeOK, CallCap, DriverLabels, Callers
  <2>2. stop' \in BOOLEAN /\ stopReq' \in BOOLEAN /\ halted' \in BOOLEAN
    BY DEF IndInv, TypeOK, CallCap
  <2>3. reset' \in BOOLEAN
    BY DEF IndInv, TypeOK, CallCap
  <2>4. totalSpawned' \in Int /\ gone' \in Int
    BY CardIDs DEF IndInv, TypeOK, CallCap
  <2>5. QED
    BY <2>1, <2>2, <2>3, <2>4 DEF IndInv, TypeOK, CallCap
<1>2. Protocol'
  BY DEF IndInv, TypeOK, Protocol, RolesInv, StopMutexInv, WorkerInv,
      ChannelInv, ThreadsInv, TargetInv, AloneInv, DriverLabels,
      StopperLabels, Replacing, Migrating, Active, Callers, CallCap
<1>3. Unreleased' = Unreleased
  BY DEF Unreleased, CallCap
<1>4. TokenConservation'
  BY <1>3, CardIDs DEF IndInv, TypeOK, TokenConservation, One, InHand,
      Unreleased, Protocol, WorkerInv, ChannelInv, Replacing, Migrating,
      Callers, CallCap
<1>5. AccountInv'
  BY CardIDs DEF IndInv, TypeOK, AccountInv, One, CallCap
<1>6. QED
  BY <1>1, <1>2, <1>4, <1>5 DEF IndInv

LEMMA CheckRunningStep ==
  ASSUME IndInv, CheckRunning
  PROVE  IndInv'
<1>1. TypeOK'
  BY DEF IndInv, TypeOK, CheckRunning, DriverLabels, Callers
<1>2. Protocol'
  BY DEF IndInv, TypeOK, Protocol, RolesInv, StopMutexInv, WorkerInv,
      ChannelInv, ThreadsInv, TargetInv, AloneInv, DriverLabels,
      StopperLabels, Replacing, Migrating, Active, Callers, CheckRunning
<1>3. Unreleased' = Unreleased
  BY DEF Unreleased, CheckRunning
<1>4. TokenConservation'
  BY <1>3, CardIDs DEF IndInv, TypeOK, TokenConservation, One, InHand,
      Unreleased, Protocol, WorkerInv, ChannelInv, Replacing, Migrating,
      Callers, CheckRunning
<1>5. AccountInv'
  BY CardIDs DEF IndInv, TypeOK, AccountInv, One, CheckRunning
<1>6. QED
  BY <1>1, <1>2, <1>4, <1>5 DEF IndInv

LEMMA CallStartStep ==
  ASSUME IndInv, CallStart
  PROVE  IndInv'
<1>1. TypeOK'
  <2>1. pc' \in [Callers -> DriverLabels \cup StopperLabels]
    BY DEF IndInv, TypeOK, CallStart, DriverLabels, Callers
  <2>2. stop' \in BOOLEAN /\ stopReq' \in BOOLEAN /\ halted' \in BOOLEAN
    BY DEF IndInv, TypeOK, CallStart
  <2>3. reset' \in BOOLEAN
    BY DEF IndInv, TypeOK, CallStart
  <2>4. totalSpawned' \in Int /\ gone' \in Int
    BY CardIDs DEF IndInv, TypeOK, CallStart
  <2>5. QED
    BY <2>1, <2>2, <2>3, <2>4 DEF IndInv, TypeOK, CallStart
<1>2. Protocol'
  BY DEF IndInv, TypeOK, Protocol, RolesInv, StopMutexInv, WorkerInv,
      ChannelInv, ThreadsInv, TargetInv, AloneInv, DriverLabels,
      StopperLabels, Replacing, Migrating, Active, Callers, CallStart
<1>3. Unreleased' = Unreleased
  BY DEF Unreleased, CallStart
<1>4. TokenConservation'
  BY <1>3, CardIDs DEF IndInv, TypeOK, TokenConservation, One, InHand,
      Unreleased, Protocol, WorkerInv, ChannelInv, Replacing, Migrating,
      Callers, CallStart
<1>5. AccountInv'
  BY CardIDs DEF IndInv, TypeOK, AccountInv, One, CallStart
<1>6. QED
  BY <1>1, <1>2, <1>4, <1>5 DEF IndInv

LEMMA StopPreviousStep ==
  ASSUME IndInv, StopPrevious
  PROVE  IndInv'
<1>1. TypeOK'
  BY DEF IndInv, TypeOK, StopPrevious, DriverLabels, Callers
<1>2. Protocol'
  BY DEF IndInv, TypeOK, Protocol, RolesInv, StopMutexInv, WorkerInv,
      ChannelInv, ThreadsInv, TargetInv, AloneInv, DriverLabels,
      StopperLabels, Replacing, Migrating, Active, Callers, StopPrevious
<1>3. Unreleased' = Unreleased
  BY DEF Unreleased, StopPrevious
<1>4. TokenConservation'
  BY <1>3, CardIDs DEF IndInv, TypeOK, TokenConservation, One, InHand,
      Unreleased, Protocol, WorkerInv, ChannelInv, Replacing, Migrating,
      Callers, StopPrevious
<1>5. AccountInv'
  BY CardIDs DEF IndInv, TypeOK, AccountInv, One, StopPrevious
<1>6. QED
  BY <1>1, <1>2, <1>4, <1>5 DEF IndInv

LEMMA InstallStopStep ==
  ASSUME IndInv, InstallStop
  PROVE  IndInv'
<1>1. TypeOK'
  <2>1. pc' \in [Callers -> DriverLabels \cup StopperLabels]
    BY DEF IndInv, TypeOK, InstallStop, DriverLabels, Callers
  <2>2. stop' \in BOOLEAN /\ stopReq' \in BOOLEAN /\ halted' \in BOOLEAN
    BY DEF IndInv, TypeOK, InstallStop
  <2>3. reset' \in BOOLEAN
    BY DEF IndInv, TypeOK, InstallStop
  <2>4. totalSpawned' \in Int /\ gone' \in Int
    BY CardIDs DEF IndInv, TypeOK, InstallStop
  <2>5. QED
    BY <2>1, <2>2, <2>3, <2>4 DEF IndInv, TypeOK, InstallStop
<1>2. Protocol'
  BY DEF IndInv, TypeOK, Protocol, RolesInv, StopMutexInv, WorkerInv,
      ChannelInv, ThreadsInv, TargetInv, AloneInv, DriverLabels,
      StopperLabels, Replacing, Migrating, Active, Callers, InstallStop
<1>3. Unreleased' = Unreleased
  BY DEF Unreleased, InstallStop
<1>4. TokenConservation'
  BY <1>3, CardIDs DEF IndInv, TypeOK, TokenConservation, One, InHand,
      Unreleased, Protocol, WorkerInv, ChannelInv, Replacing, Migrating,
      Callers, InstallStop
<1>5. AccountInv'
  BY CardIDs DEF IndInv, TypeOK, AccountInv, One, InstallStop
<1>6. QED
  BY <1>1, <1>2, <1>4, <1>5 DEF IndInv

LEMMA SwapChannelStep ==
  ASSUME IndInv, SwapChannel
  PROVE  IndInv'
<1>1. TypeOK'
  BY DEF IndInv, TypeOK, SwapChannel, DriverLabels, Callers, Channels,
      Channel
<1>2. Protocol'
  BY DEF IndInv, TypeOK, Protocol, RolesInv, StopMutexInv, WorkerInv,
      ChannelInv, ThreadsInv, TargetInv, AloneInv, DriverLabels,
      StopperLabels, Replacing, Migrating, Active, Callers, Channels,
      Channel, SwapChannel
<1>3. Unreleased' = Unreleased
  BY DEF Unreleased, SwapChannel
<1>4. TokenConservation'
  BY <1>3, CardIDs DEF IndInv, TypeOK, TokenConservation, One, InHand,
      Unreleased, Protocol, WorkerInv, ChannelInv, Replacing, Migrating,
      Callers, Channels, Channel, SwapChannel
<1>5. AccountInv'
  BY CardIDs DEF IndInv, TypeOK, AccountInv, One, SwapChannel
<1>6. QED
  BY <1>1, <1>2, <1>4, <1>5 DEF IndInv

LEMMA MigrateTokenStep ==
  ASSUME IndInv, MigrateToken
  PROVE  IndInv'
<1>1. TypeOK'
  BY DEF IndInv, TypeOK, MigrateToken, DriverLabels, Callers, Channels
<1>2. Protocol'
  BY DEF IndInv, TypeOK, Protocol, RolesInv, StopMutexInv, WorkerInv,
      ChannelInv, ThreadsInv, TargetInv, AloneInv, DriverLabels,
      StopperLabels, Replacing, Migrating, Active, Callers, Channels,
      MigrateToken
<1>3. Unreleased' = Unreleased
  BY DEF Unreleased, MigrateToken
<1>4. TokenConservation'
  BY <1>3, CardIDs DEF IndInv, TypeOK, TokenConservation, One, InHand,
      Unreleased, Protocol, WorkerInv, ChannelInv, Replacing, Migrating,
      Callers, Channels, MigrateToken
<1>5. AccountInv'
  BY CardIDs DEF IndInv, TypeOK, AccountInv, One, MigrateToken
<1>6. QED
  BY <1>1, <1>2, <1>4, <1>5 DEF IndInv

LEMMA MigrateSendStep ==
  ASSUME IndInv, MigrateSend
  PROVE  IndInv'
<1>1. TypeOK'
  BY DEF IndInv, TypeOK, MigrateSend, DriverLabels, Callers, Channels
<1>2. Protocol'
  BY DEF IndInv, TypeOK, Protocol, RolesInv, StopMutexInv, WorkerInv,
      ChannelInv, ThreadsInv, TargetInv, AloneInv, DriverLabels,
      StopperLabels, Replacing, Migrating, Active, Callers, Channels,
      MigrateSend
<1>3. Unreleased' = Unreleased
  BY DEF Unreleased, MigrateSend
<1>4. TokenConservation'
  BY <1>3, CardIDs DEF IndInv, TypeOK, TokenConservation, One, InHand,
      Unreleased, Protocol, WorkerInv, ChannelInv, Replacing, Migrating,
      Callers, Channels, MigrateSend
<1>5. AccountInv'
  BY CardIDs DEF IndInv, TypeOK, AccountInv, One, MigrateSend
<1>6. QED
  BY <1>1, <1>2, <1>4, <1>5 DEF IndInv

LEMMA WorkerAcquireStep ==
  ASSUME IndInv, WorkerAcquire
  PROVE  IndInv'
<1>1. TypeOK'
  BY DEF IndInv, TypeOK, WorkerAcquire, Channels, ChannelInv, Protocol
<1>2. Protocol'
  BY DEF IndInv, TypeOK, Protocol, RolesInv, StopMutexInv, WorkerInv,
      ChannelInv, ThreadsInv, TargetInv, AloneInv, DriverLabels,
      StopperLabels, Replacing, Migrating, Active, Callers, Channels,
      WorkerAcquire
<1>3. Unreleased' = Unreleased
  BY DEF Unreleased, WorkerAcquire
<1>4. TokenConservation'
  BY <1>3, CardIDs DEF IndInv, TypeOK, TokenConservation, One, InHand,
      Unreleased, Protocol, WorkerInv, ChannelInv, Replacing, Migrating,
      Callers, Channels, WorkerAcquire
<1>5. AccountInv'
  BY CardIDs DEF IndInv, TypeOK, AccountInv, One, WorkerAcquire
<1>6. QED
  BY <1>1, <1>2, <1>4, <1>5 DEF IndInv

LEMMA WorkerExitStep ==
  ASSUME IndInv, WorkerExit
  PROVE  IndInv'
<1>1. TypeOK'
  BY DEF IndInv, TypeOK, WorkerExit, Channels
<1>2. Protocol'
  BY DEF IndInv, TypeOK, Protocol, RolesInv, StopMutexInv, WorkerInv,
      ChannelInv, ThreadsInv, TargetInv, AloneInv, DriverLabels,
      StopperLabels, Replacing, Migrating, Active, Callers, WorkerExit
<1>3. Unreleased' = Unreleased
  BY DEF Unreleased, WorkerExit
<1>4. TokenConservation'
  BY <1>3, CardIDs DEF IndInv, TypeOK, TokenConservation, One, InHand,
      Unreleased, Protocol, WorkerInv, ChannelInv, Replacing, Migrating,
      Callers, WorkerExit
<1>5. AccountInv'
  BY CardIDs DEF IndInv, TypeOK, AccountInv, One, WorkerExit
<1>6. QED
  BY <1>1, <1>2, <1>4, <1>5 DEF IndInv

LEMMA UserReturnStep ==
  ASSUME IndInv, NEW u \in IDs, UserReturn(u)
  PROVE  IndInv'
<1>1. TypeOK'
  BY DEF IndInv, TypeOK, UserReturn, UserStates
<1>2. Protocol'
  BY DEF IndInv, TypeOK, Protocol, RolesInv, StopMutexInv, WorkerInv,
      ChannelInv, ThreadsInv, TargetInv, AloneInv, DriverLabels,
      StopperLabels, Replacing, Migrating, Active, Callers, UserReturn
<1>3. Unreleased' = Unreleased
  BY DEF IndInv, TypeOK, Unreleased, UserReturn
<1>4. TokenConservation'
  BY <1>3, CardIDs DEF IndInv, TypeOK, TokenConservation, One, InHand,
      Unreleased, Protocol, WorkerInv, ChannelInv, Replacing, Migrating,
      Callers, UserReturn
<1>5. AccountInv'
  BY CardIDs DEF IndInv, TypeOK, AccountInv, One, UserReturn
<1>6. QED
  BY <1>1, <1>2, <1>4, <1>5 DEF IndInv

LEMMA UserLockStep ==
  ASSUME IndInv, NEW u \in IDs, UserLock(u)
  PROVE  IndInv'
<1>1. TypeOK'
  BY DEF IndInv, TypeOK, UserLock, UserStates
<1>2. Protocol'
  BY DEF IndInv, TypeOK, Protocol, RolesInv, StopMutexInv, WorkerInv,
      ChannelInv, ThreadsInv, TargetInv, AloneInv, DriverLabels,
      StopperLabels, Replacing, Migrating, Active, Callers, UserLock
<1>3. Unreleased' = Unreleased
  BY DEF IndInv, TypeOK, Unreleased, UserLock
<1>4. TokenConservation'
  BY <1>3, CardIDs DEF IndInv, TypeOK, TokenConservation, One, InHand,
      Unreleased, Protocol, WorkerInv, ChannelInv, Replacing, Migrating,
      Callers, UserLock
<1>5. AccountInv'
  BY CardIDs DEF IndInv, TypeOK, AccountInv, One, UserLock
<1>6. QED
  BY <1>1, <1>2, <1>4, <1>5 DEF IndInv

LEMMA UserDoneStep ==
  ASSUME IndInv, NEW u \in IDs, UserDone(u)
  PROVE  IndInv'
<1>1. TypeOK'
  BY DEF IndInv, TypeOK, UserDone, UserStates
<1>2. Protocol'
  BY DEF IndInv, TypeOK, Protocol, RolesInv, StopMutexInv, WorkerInv,
      ChannelInv, ThreadsInv, TargetInv, AloneInv, DriverLabels,
      StopperLabels, Replacing, Migrating, Active, Callers, UserDone
<1>3. Unreleased' = Unreleased
  BY DEF IndInv, TypeOK, Unreleased, UserDone
<1>4. TokenConservation'
  BY <1>3, CardIDs DEF IndInv, TypeOK, TokenConservation, One, InHand,
      Unreleased, Protocol, WorkerInv, ChannelInv, Replacing, Migrating,
      Callers, UserDone
<1>5. AccountInv'
  BY CardIDs DEF IndInv, TypeOK, AccountInv, One, UserDone
<1>6. QED
  BY <1>1, <1>2, <1>4, <1>5 DEF IndInv

LEMMA CallStopStep ==
  ASSUME IndInv, NEW c \in Callers, CallStop(c)
  PROVE  IndInv'
<1>1. TypeOK'
  BY DEF IndInv, TypeOK, CallStop, DriverLabels, Callers
<1>2. Protocol'
  BY DEF IndInv, TypeOK, Protocol, RolesInv, StopMutexInv, WorkerInv,
      ChannelInv, ThreadsInv, TargetInv, AloneInv, DriverLabels,
      StopperLabels, Replacing, Migrating, Active, Callers, CallStop
<1>3. Unreleased' = Unreleased
  BY DEF Unreleased, CallStop
<1>4. TokenConservation'
  BY <1>3, CardIDs DEF IndInv, TypeOK, TokenConservation, One, InHand,
      Unreleased, Protocol, WorkerInv, ChannelInv, Replacing, Migrating,
      Callers, CallStop
<1>5. AccountInv'
  BY CardIDs DEF IndInv, TypeOK, AccountInv, One, CallStop
<1>6. QED
  BY <1>1, <1>2, <1>4, <1>5 DEF IndInv

LEMMA ReturnStopStep ==
  ASSUME IndInv, NEW c \in Callers, ReturnStop(c)
  PROVE  IndInv'
<1>1. TypeOK'
  BY DEF IndInv, TypeOK, ReturnStop, DriverLabels, StopperLabels, Callers
<1>2. Protocol'
  BY DEF IndInv, TypeOK, Protocol, RolesInv, StopMutexInv, WorkerInv,
      ChannelInv, ThreadsInv, TargetInv, AloneInv, DriverLabels,
      StopperLabels, Replacing, Migrating, Active, Callers, ReturnStop
<1>3. Unreleased' = Unreleased
  BY DEF Unreleased, ReturnStop
<1>4. TokenConservation'
  BY <1>3, CardIDs DEF IndInv, TypeOK, TokenConservation, One, InHand,
      Unreleased, Protocol, WorkerInv, ChannelInv, Replacing, Migrating,
      Callers, ReturnStop
<1>5. AccountInv'
  BY CardIDs DEF IndInv, TypeOK, AccountInv, One, ReturnStop
<1>6. QED
  BY <1>1, <1>2, <1>4, <1>5 DEF IndInv

LEMMA ReturnStopAllStep ==
  ASSUME IndInv, NEW c \in Callers, ReturnStopAll(c)
  PROVE  IndInv'
<1>1. TypeOK'
  BY DEF IndInv, TypeOK, ReturnStopAll, DriverLabels, Callers
<1>2. Protocol'
  BY DEF IndInv, TypeOK, Protocol, RolesInv, StopMutexInv, WorkerInv,
      ChannelInv, ThreadsInv, TargetInv, AloneInv, DriverLabels,
      StopperLabels, Replacing, Migrating, Active, Callers, ReturnStopAll
<1>3. Unreleased' = Unreleased
  BY DEF Unreleased, ReturnStopAll
<1>4. TokenConservation'
  BY <1>3, CardIDs DEF IndInv, TypeOK, TokenConservation, One, InHand,
      Unreleased, Protocol, WorkerInv, ChannelInv, Replacing, Migrating,
      Callers, ReturnStopAll
<1>5. AccountInv'
  BY CardIDs DEF IndInv, TypeOK, AccountInv, One, ReturnStopAll
<1>6. QED
  BY <1>1, <1>2, <1>4, <1>5 DEF IndInv

LEMMA CapListStep ==
  ASSUME IndInv, CapList
  PROVE  IndInv'
<1> DEFINE popped == Oldest(threads, Cardinality(threads) - arg)
<1>1. /\ popped \in SUBSET threads
      /\ Cardinality(threads \ popped) = Cardinality(threads) - Cardinality(popped)
      /\ Cardinality(popped) \in Nat
  <2>1. threads \in SUBSET IDs /\ Cardinality(threads) - arg \in Int
    BY CardIDs DEF IndInv, TypeOK
  <2>2. QED
    BY <2>1, OldestFacts
<1>2. /\ threads' = threads \ popped
      /\ canceled' = canceled \cup popped
      /\ totalSpawned' = totalSpawned - Cardinality(popped)
      /\ tlCount' = arg
  BY DEF CapList, ListCap, Pop, Reclaim
<1> HIDE DEF popped
<1>4. TypeOK'
  BY <1>1, <1>2 DEF IndInv, TypeOK, CapList, DriverLabels, Callers
<1>5. Protocol'
  BY <1>1, <1>2 DEF IndInv, TypeOK, Protocol, RolesInv, StopMutexInv,
      WorkerInv, ChannelInv, ThreadsInv, TargetInv, AloneInv, DriverLabels,
      StopperLabels, Replacing, Migrating, Active, Callers, CapList
<1>6. Unreleased' = Unreleased
  BY DEF Unreleased, CapList
<1>7. TokenConservation'
  BY <1>6, CardIDs DEF IndInv, TypeOK, TokenConservation, One, InHand,
      Unreleased, Protocol, WorkerInv, ChannelInv, Replacing, Migrating,
      Callers, CapList
<1>8. AccountInv'
  BY <1>1, <1>2, CardIDs DEF IndInv, TypeOK, AccountInv, One, Protocol,
      WorkerInv, CapList
<1>9. QED
  BY <1>4, <1>5, <1>7, <1>8 DEF IndInv

LEMMA MigratePopStep ==
  ASSUME IndInv, MigratePop
  PROVE  IndInv'
<1> DEFINE popped == Oldest(threads, 1)
<1>1. /\ popped \in SUBSET threads
      /\ Cardinality(threads \ popped) = Cardinality(threads) - Cardinality(popped)
      /\ Cardinality(popped) \in Nat
  <2>1. threads \in SUBSET IDs /\ 1 \in Int
    BY CardIDs DEF IndInv, TypeOK
  <2>2. QED
    BY <2>1, OldestFacts
<1>2. /\ threads' = threads \ popped
      /\ canceled' = canceled \cup popped
      /\ totalSpawned' = totalSpawned - Cardinality(popped)
      /\ tlCount' = tlCount
  BY DEF MigratePop, Pop, Reclaim
<1> HIDE DEF popped
<1>4. TypeOK'
  BY <1>1, <1>2 DEF IndInv, TypeOK, MigratePop, DriverLabels, Callers
<1>5. Protocol'
  BY <1>1, <1>2 DEF IndInv, TypeOK, Protocol, RolesInv, StopMutexInv,
      WorkerInv, ChannelInv, ThreadsInv, TargetInv, AloneInv, DriverLabels,
      StopperLabels, Replacing, Migrating, Active, Callers, MigratePop
<1>6. Unreleased' = Unreleased
  BY DEF Unreleased, MigratePop
<1>7. TokenConservation'
  BY <1>6, CardIDs DEF IndInv, TypeOK, TokenConservation, One, InHand,
      Unreleased, Protocol, WorkerInv, ChannelInv, Replacing, Migrating,
      Callers, MigratePop
<1>8. AccountInv'
  BY <1>1, <1>2, CardIDs DEF IndInv, TypeOK, AccountInv, One, Protocol,
      WorkerInv, TargetInv, Migrating, Replacing, MigratePop
<1>9. QED
  BY <1>4, <1>5, <1>7, <1>8 DEF IndInv

LEMMA LaunchWorkerStep ==
  ASSUME IndInv, LaunchWorker
  PROVE  IndInv'
<1> DEFINE popped == Oldest(threads, Cardinality(threads) - arg)
<1>1. /\ popped \in SUBSET threads
      /\ Cardinality(threads \ popped) = Cardinality(threads) - Cardinality(popped)
      /\ Cardinality(popped) \in Nat
  <2>1. threads \in SUBSET IDs /\ Cardinality(threads) - arg \in Int
    BY CardIDs DEF IndInv, TypeOK
  <2>2. QED
    BY <2>1, OldestFacts
<1>2. /\ threads' = threads \ popped
      /\ canceled' = canceled \cup popped
      /\ totalSpawned' = totalSpawned - Cardinality(popped)
      /\ tlCount' = arg
  BY DEF LaunchWorker, ListCap, Pop, Reclaim
<1> HIDE DEF popped
<1>3. budget' \in Nat
  BY <1>1, <1>2 DEF IndInv, TypeOK, LaunchWorker
<1>4. TypeOK'
  BY <1>1, <1>2, <1>3 DEF IndInv, TypeOK, LaunchWorker, DriverLabels,
      Callers
<1>5. Protocol'
  BY <1>1, <1>2 DEF IndInv, TypeOK, Protocol, RolesInv, StopMutexInv,
      WorkerInv, ChannelInv, ThreadsInv, TargetInv, AloneInv, DriverLabels,
      StopperLabels, Replacing, Migrating, Active, Callers, LaunchWorker
<1>6. Unreleased' = Unreleased
  BY DEF Unreleased, LaunchWorker
<1>7. TokenConservation'
  BY <1>6, CardIDs DEF IndInv, TypeOK, TokenConservation, One, InHand,
      Unreleased, Protocol, WorkerInv, ChannelInv, Replacing, Migrating,
      Callers, LaunchWorker
<1>8. AccountInv'
  BY <1>1, <1>2, CardIDs DEF IndInv, TypeOK, AccountInv, One, Protocol,
      WorkerInv, TargetInv, Migrating, Replacing, LaunchWorker
<1>9. QED
  BY <1>4, <1>5, <1>7, <1>8 DEF IndInv

LEMMA UserReceiveStep ==
  ASSUME IndInv, NEW u \in IDs, UserReceive(u)
  PROVE  IndInv'
<1>1. u \in Unreleased /\ Unreleased' = Unreleased \ {u}
  BY DEF IndInv, TypeOK, Unreleased, Protocol, ChannelInv, UserReceive
<1>2. /\ Cardinality(Unreleased') = Cardinality(Unreleased) - 1
      /\ Cardinality(Unreleased) \in Nat /\ Cardinality(Unreleased') \in Nat
  <2>1. Unreleased \in SUBSET IDs /\ Unreleased' \in SUBSET IDs
    BY DEF Unreleased
  <2>2. QED
    BY <1>1, <2>1, CardDel, CardIDs
<1>3. TypeOK'
  BY DEF IndInv, TypeOK, UserReceive, UserStates, Channels, DriverLabels,
      Callers
<1>4. Protocol'
  BY DEF IndInv, TypeOK, Protocol, RolesInv, StopMutexInv, WorkerInv,
      ChannelInv, ThreadsInv, TargetInv, AloneInv, DriverLabels,
      StopperLabels, Replacing, Migrating, Active, Callers, Channels,
      UserReceive
<1>5. TokenConservation'
  BY <1>2 DEF IndInv, TypeOK, TokenConservation, One, InHand, Unreleased,
      Protocol, WorkerInv, ChannelInv, Replacing, Migrating, Callers,
      Channels, UserReceive
<1>6. AccountInv'
  BY DEF IndInv, TypeOK, AccountInv, One, UserReceive
<1>7. QED
  BY <1>3, <1>4, <1>5, <1>6 DEF IndInv

LEMMA MigrateHandOverStep ==
  ASSUME IndInv, NEW u \in IDs, MigrateHandOver(u)
  PROVE  IndInv'
<1>1. u \in Unreleased /\ Unreleased' = Unreleased \ {u}
  BY DEF IndInv, TypeOK, Unreleased, Protocol, ChannelInv, MigrateHandOver
<1>2. /\ Cardinality(Unreleased') = Cardinality(Unreleased) - 1
      /\ Cardinality(Unreleased) \in Nat /\ Cardinality(Unreleased') \in Nat
  <2>1. Unreleased \in SUBSET IDs /\ Unreleased' \in SUBSET IDs
    BY DEF Unreleased
  <2>2. QED
    BY <1>1, <2>1, CardDel, CardIDs
<1>3. TypeOK'
  BY DEF IndInv, TypeOK, MigrateHandOver, UserStates, Channels,
      DriverLabels, Callers
<1>4. Protocol'
  BY DEF IndInv, TypeOK, Protocol, RolesInv, StopMutexInv, WorkerInv,
      ChannelInv, ThreadsInv, TargetInv, AloneInv, DriverLabels,
      StopperLabels, Replacing, Migrating, Active, Callers, Channels,
      MigrateHandOver
<1>5. TokenConservation'
  BY <1>2 DEF IndInv, TypeOK, TokenConservation, One, InHand, Unreleased,
      Protocol, WorkerInv, ChannelInv, Replacing, Migrating, Callers,
      Channels, MigrateHandOver
<1>6. AccountInv'
  BY DEF IndInv, TypeOK, AccountInv, One, MigrateHandOver
<1>7. QED
  BY <1>3, <1>4, <1>5, <1>6 DEF IndInv

LEMMA UserDeleteStep ==
  ASSUME IndInv, NEW u \in IDs, UserDelete(u)
  PROVE  IndInv'
<1>1. TypeOK'
  BY DEF IndInv, TypeOK, UserDelete, UserStates
<1>2. Protocol'
  BY DEF IndInv, TypeOK, Protocol, RolesInv, StopMutexInv, WorkerInv,
      ChannelInv, ThreadsInv, TargetInv, AloneInv, DriverLabels,
      StopperLabels, Replacing, Migrating, Active, Callers, UserDelete
<1>3. Unreleased' = Unreleased
  BY DEF IndInv, TypeOK, Unreleased, UserDelete
<1>4. TokenConservation'
  BY <1>3, CardIDs DEF IndInv, TypeOK, TokenConservation, One, InHand,
      Unreleased, Protocol, WorkerInv, ChannelInv, Replacing, Migrating,
      Callers, UserDelete
<1>5. Cardinality(threads') + gone' = Cardinality(threads) + gone
  <2>1. CASE u \in threads
    <3>1. Cardinality(threads \ {u}) = Cardinality(threads) - 1
      BY <2>1, CardDel DEF IndInv, TypeOK
    <3>2. QED
      BY <2>1, <3>1, CardIDs DEF IndInv, TypeOK, UserDelete
  <2>2. CASE u \notin threads
    <3>1. threads' = threads
      BY <2>2 DEF UserDelete
    <3>2. QED
      BY <2>2, <3>1 DEF UserDelete
  <2>3. QED
    BY <2>1, <2>2
<1>6. AccountInv'
  BY <1>5 DEF IndInv, TypeOK, AccountInv, One, UserDelete
<1>7. QED
  BY <1>1, <1>2, <1>4, <1>6 DEF IndInv

LEMMA CallStopAllStep ==
  ASSUME IndInv, CallStopAll
  PROVE  IndInv'
<1>1. TypeOK'
  BY CardIDs DEF IndInv, TypeOK, CallStopAll, ClearThreads, DriverLabels, StopperLabels, Callers
<1>2. Protocol'
  BY DEF IndInv, TypeOK, Protocol, RolesInv, StopMutexInv, WorkerInv,
      ChannelInv, ThreadsInv, TargetInv, AloneInv, DriverLabels,
      StopperLabels, Replacing, Migrating, Active, Callers, ClearThreads,
      CallStopAll
<1>3. Unreleased' = Unreleased
  BY DEF Unreleased, CallStopAll, ClearThreads
<1>4. TokenConservation'
  BY <1>3, CardIDs DEF IndInv, TypeOK, TokenConservation, One, InHand,
      Unreleased, Protocol, WorkerInv, ChannelInv, Replacing, Migrating,
      Callers, ClearThreads, CallStopAll
<1>5. Cardinality(threads') + gone' = Cardinality(threads) + gone
  BY CardIDs, FS_EmptySet DEF IndInv, TypeOK, CallStopAll, ClearThreads
<1>6. AccountInv'
  BY <1>5 DEF IndInv, TypeOK, AccountInv, One, CallStopAll, ClearThreads
<1>7. QED
  BY <1>1, <1>2, <1>4, <1>6 DEF IndInv

LEMMA StopperClearStep ==
  ASSUME IndInv, NEW c \in Callers, StopperClear(c)
  PROVE  IndInv'
<1>1. TypeOK'
  BY CardIDs DEF IndInv, TypeOK, StopperClear, ClearThreads, DriverLabels, StopperLabels, Callers
<1>2. Protocol'
  BY DEF IndInv, TypeOK, Protocol, RolesInv, StopMutexInv, WorkerInv,
      ChannelInv, ThreadsInv, TargetInv, AloneInv, DriverLabels,
      StopperLabels, Replacing, Migrating, Active, Callers, ClearThreads,
      StopperClear
<1>3. Unreleased' = Unreleased
  BY DEF Unreleased, StopperClear, ClearThreads
<1>4. TokenConservation'
  BY <1>3, CardIDs DEF IndInv, TypeOK, TokenConservation, One, InHand,
      Unreleased, Protocol, WorkerInv, ChannelInv, Replacing, Migrating,
      Callers, ClearThreads, StopperClear
<1>5. Cardinality(threads') + gone' = Cardinality(threads) + gone
  BY CardIDs, FS_EmptySet DEF IndInv, TypeOK, StopperClear, ClearThreads
<1>6. AccountInv'
  BY <1>5 DEF IndInv, TypeOK, AccountInv, One, StopperClear, ClearThreads
<1>7. QED
  BY <1>1, <1>2, <1>4, <1>6 DEF IndInv

\* Adding a thread below the capacity evicts nothing.
LEMMA SpawnFacts ==
  ASSUME IndInv, WorkerSpawn
  PROVE  /\ lastID + 1 \in IDs /\ user[lastID + 1] = "unborn"
         /\ threads' = threads \cup {lastID + 1} /\ canceled' = canceled
         /\ Cardinality(threads') = Cardinality(threads) + 1
         /\ Unreleased' = Unreleased \cup {lastID + 1}
         /\ Cardinality(Unreleased') = Cardinality(Unreleased) + 1
         /\ Cardinality(Unreleased) < ch.cap
         /\ lastID + 1 \notin Unreleased
<1>1. lastID + 1 \in IDs /\ user[lastID + 1] = "unborn"
  BY DEF IndInv, TypeOK, Protocol, ThreadsInv, IDs, WorkerSpawn
<1>2. lastID + 1 \notin threads /\ lastID + 1 \notin Unreleased
  BY <1>1 DEF IndInv, Protocol, ThreadsInv, Unreleased
<1>3. Cardinality(threads \cup {lastID + 1}) = Cardinality(threads) + 1
  BY <1>1, <1>2, CardAdd DEF IndInv, TypeOK
<1>4. Cardinality(Unreleased) < ch.cap
  BY CardIDs DEF IndInv, TypeOK, TokenConservation, One, InHand, Protocol,
      WorkerInv, ChannelInv, Replacing, Migrating, Unreleased, Channels, WorkerSpawn
<1>5. Cardinality(threads) <= Cardinality(Unreleased)
  <2>1. threads \in SUBSET Unreleased /\ Unreleased \in SUBSET IDs
    BY DEF IndInv, TypeOK, Protocol, ThreadsInv, Unreleased
  <2>2. QED
    BY <2>1, CardIDs, FS_Subset
<1>6. Cardinality(threads \cup {lastID + 1}) - tlCount <= 0
  BY <1>3, <1>4, <1>5, CardIDs DEF IndInv, TypeOK, Protocol, TargetInv, Active,
      Channels, Unreleased, WorkerSpawn
<1>7. Oldest(threads \cup {lastID + 1}, Cardinality(threads \cup {lastID + 1}) - tlCount) = {}
  <2>1. /\ threads \cup {lastID + 1} \in SUBSET IDs
        /\ Cardinality(threads \cup {lastID + 1}) - tlCount \in Int
    BY <1>1, CardIDs DEF IndInv, TypeOK
  <2>2. QED
    BY <1>6, <2>1, OldestFacts
<1>8. threads' = threads \cup {lastID + 1} /\ canceled' = canceled
  BY <1>7 DEF WorkerSpawn, Pop
<1>9. Unreleased' = Unreleased \cup {lastID + 1}
  BY <1>1 DEF IndInv, TypeOK, Unreleased, WorkerSpawn
<1>10. Cardinality(Unreleased \cup {lastID + 1}) = Cardinality(Unreleased) + 1
  <2>1. Unreleased \in SUBSET IDs
    BY DEF Unreleased
  <2>2. QED
    BY <1>1, <1>2, <2>1, CardAdd
<1>11. QED
  BY <1>1, <1>2, <1>3, <1>4, <1>8, <1>9, <1>10

LEMMA WorkerSpawnStep ==
  ASSUME IndInv, WorkerSpawn
  PROVE  IndInv'
<1>0. /\ lastID' = lastID + 1 /\ wg' = wg \cup {lastID + 1}
      /\ user' = [user EXCEPT ![lastID + 1] = "run"]
      /\ totalSpawned' = totalSpawned + 1 /\ worker = "spawn" /\ worker' = "loop"
      /\ UNCHANGED <<mode, capVars, chMutex, tlCount, joining, stopVars, budget, gone, callVars>>
  BY DEF WorkerSpawn
<1>1. TypeOK'
  <2>1. /\ lastID + 1 \in IDs /\ lastID + 1 \in 0 .. MaxSpawns
        /\ threads' = threads \cup {lastID + 1} /\ canceled' = canceled
    BY SpawnFacts DEF IDs
  <2>2. user' \in [IDs -> UserStates]
    BY <1>0, <2>1 DEF IndInv, TypeOK, UserStates
  <2>3. threads' \in SUBSET IDs /\ canceled' \in SUBSET IDs /\ wg' \in SUBSET IDs
    BY <1>0, <2>1 DEF IndInv, TypeOK
  <2>4. QED
    BY <1>0, <2>1, <2>2, <2>3 DEF IndInv, TypeOK
<1>2. Protocol'
  <2>1. /\ lastID + 1 \in IDs /\ user[lastID + 1] = "unborn"
        /\ threads' = threads \cup {lastID + 1}
    BY SpawnFacts
  <2>2. ThreadsInv'
    BY <1>0, <2>1 DEF IndInv, TypeOK, Protocol, ThreadsInv, IDs
  <2>3. ChannelInv'
    BY <1>0, <2>1 DEF IndInv, TypeOK, Protocol, ChannelInv, WorkerInv, Replacing, Migrating
  <2>4. RolesInv' /\ StopMutexInv' /\ WorkerInv' /\ TargetInv' /\ AloneInv'
    BY <1>0 DEF IndInv, TypeOK, Protocol, RolesInv, StopMutexInv, WorkerInv, TargetInv,
        AloneInv, Replacing, Migrating, Active
  <2>5. QED
    BY <2>2, <2>3, <2>4 DEF Protocol
<1>3. TokenConservation'
  BY SpawnFacts, CardIDs DEF IndInv, TypeOK, TokenConservation, One, InHand,
      Unreleased, Protocol, WorkerInv, ChannelInv, Replacing, Migrating,
      Callers, WorkerSpawn
<1>4. AccountInv'
  BY SpawnFacts, CardIDs DEF IndInv, TypeOK, AccountInv, One, WorkerSpawn
<1>5. QED
  BY <1>1, <1>2, <1>3, <1>4 DEF IndInv

LEMMA InitInv == Init => IndInv
<1> SUFFICES ASSUME Init PROVE IndInv
  OBVIOUS
<1>1. TypeOK
  <2>1. /\ pc \in [Callers -> DriverLabels \cup StopperLabels]
        /\ joining \in [Callers -> SUBSET IDs]
        /\ user \in [IDs -> UserStates]
    BY DEF Init, DriverLabels, UserStates
  <2>2. ch \in Channels /\ src \in Channels
    BY DEF Init, NilChannel, Channels
  <2>3. stop \in BOOLEAN /\ stopReq \in BOOLEAN /\ halted \in BOOLEAN /\ reset \in BOOLEAN
    BY DEF Init
  <2>4. QED
    BY <2>1, <2>2, <2>3 DEF Init, TypeOK
<1>2. Protocol
  BY <1>1 DEF Init, NilChannel, TypeOK, Protocol, RolesInv, StopMutexInv,
      WorkerInv, ChannelInv, ThreadsInv, TargetInv, AloneInv, DriverLabels,
      StopperLabels, Replacing, Migrating, Active, Callers
<1>3. Unreleased = {}
  BY DEF Init, Unreleased
<1>4. TokenConservation /\ AccountInv
  BY <1>3, FS_EmptySet DEF Init, TokenConservation, AccountInv, One, InHand, NilChannel,
      Callers
<1>5. QED
  BY <1>1, <1>2, <1>4 DEF IndInv

LEMMA Invariance == IndInv /\ [Next]_vars => IndInv'
<1> SUFFICES ASSUME IndInv, [Next]_vars PROVE IndInv'
  OBVIOUS
<1>1. ASSUME NEW n \in 0 .. MaxCount, CallCap(n) PROVE IndInv'
  BY <1>1, CallCapStep
<1>2. CASE CheckRunning
  BY <1>2, CheckRunningStep
<1>3. CASE CallStart
  BY <1>3, CallStartStep
<1>4. CASE StopPrevious
  BY <1>4, StopPreviousStep
<1>5. CASE InstallStop
  BY <1>5, InstallStopStep
<1>6. CASE SwapChannel
  BY <1>6, SwapChannelStep
<1>7. CASE MigrateToken
  BY <1>7, MigrateTokenStep
<1>8. CASE MigrateSend
  BY <1>8, MigrateSendStep
<1>9. CASE WorkerAcquire
  BY <1>9, WorkerAcquireStep
<1>10. CASE WorkerExit
  BY <1>10, WorkerExitStep
<1>11. ASSUME NEW u \in IDs, UserReturn(u) PROVE IndInv'
  BY <1>11, UserReturnStep
<1>12. ASSUME NEW u \in IDs, UserLock(u) PROVE IndInv'
  BY <1>12, UserLockStep
<1>13. ASSUME NEW u \in IDs, UserDone(u) PROVE IndInv'
  BY <1>13, UserDoneStep
<1>14. ASSUME NEW c \in Callers, CallStop(c) PROVE IndInv'
  BY <1>14, CallStopStep
<1>15. ASSUME NEW c \in Callers, ReturnStop(c) PROVE IndInv'
  BY <1>15, ReturnStopStep
<1>16. ASSUME NEW c \in Callers, ReturnStopAll(c) PROVE IndInv'
  BY <1>16, ReturnStopAllStep
<1>17. CASE CapList
  BY <1>17, CapListStep
<1>18. CASE MigratePop
  BY <1>18, MigratePopStep
<1>19. CASE LaunchWorker
  BY <1>19, LaunchWorkerStep
<1>20. ASSUME NEW u \in IDs, UserReceive(u) PROVE IndInv'
  BY <1>20, UserReceiveStep
<1>21. ASSUME NEW u \in IDs, MigrateHandOver(u) PROVE IndInv'
  BY <1>21, MigrateHandOverStep
<1>22. ASSUME NEW u \in IDs, UserDelete(u) PROVE IndInv'
  BY <1>22, UserDeleteStep
<1>23. CASE CallStopAll
  BY <1>23, CallStopAllStep
<1>24. ASSUME NEW c \in Callers, StopperClear(c) PROVE IndInv'
  BY <1>24, StopperClearStep
<1>25. CASE WorkerSpawn
  BY <1>25, WorkerSpawnStep
<1>26. CASE UNCHANGED vars
  BY <1>26 DEF vars, IndInv, TypeOK, Protocol, RolesInv, StopMutexInv,
      WorkerInv, ChannelInv, ThreadsInv, TargetInv, AloneInv, DriverLabels,
      StopperLabels, Replacing, Migrating, Active, Callers,
      TokenConservation, AccountInv, InHand, Unreleased
<1>27. QED
  BY <1>1, <1>2, <1>3, <1>4, <1>5, <1>6, <1>7, <1>8, <1>9, <1>10, <1>11,
      <1>12, <1>13, <1>14, <1>15, <1>16, <1>17, <1>18, <1>19, <1>20, <1>21,
      <1>22, <1>23, <1>24, <1>25, <1>26 DEF Next, SpawnWorkerStep,
      WorkerStep, UserStep, StopStep, Rest

-----------------------------------------------------------------------------
(***************************************************************************)
(* IndInv holds in every reachable state.                                  *)
(***************************************************************************)
THEOREM Safety == Spec => []IndInv
<1>1. QED
  BY InitInv, Invariance, PTL DEF Spec

(***************************************************************************)
(* Every variable of the manager keeps its type.                           *)
(***************************************************************************)
THEOREM TypeCorrect == Spec => []TypeOK
<1>1. IndInv => TypeOK
  BY DEF IndInv
<1>2. QED
  BY <1>1, Safety, PTL

(***************************************************************************)
(* Replacing spawnCh under running threads (spawner.go:154-160) loses and  *)
(* duplicates no token.                                                    *)
(***************************************************************************)
THEOREM TokensConserved == Spec => []TokenConservation
<1>1. IndInv => TokenConservation
  BY DEF IndInv
<1>2. QED
  BY <1>1, Safety, PTL

(***************************************************************************)
(* Between calls a running manager has at most count live threads: their   *)
(* tokens are in its channel, whose capacity is count (spawner.go:75).     *)
(***************************************************************************)
THEOREM CapacityRespected == Spec => []CapRespected
<1>1. ASSUME IndInv PROVE CapRespected
  BY <1>1, CardIDs DEF IndInv, TypeOK, TokenConservation, CapRespected, One, InHand,
     Unreleased, Protocol, ChannelInv, TargetInv, Migrating, Replacing, Channels
<1>2. QED
  BY <1>1, Safety, PTL

(***************************************************************************)
(* The unreclaimed eviction of threadList.Add (thread.go:55) never happens.*)
(***************************************************************************)
THEOREM NoEviction == Spec => []AddNeverEvicts
<1>1. ASSUME IndInv PROVE AddNeverEvicts
  <2>1. threads \in SUBSET Unreleased /\ Unreleased \in SUBSET IDs
    BY <1>1 DEF IndInv, TypeOK, Protocol, ThreadsInv, Unreleased
  <2>2. Cardinality(threads) <= Cardinality(Unreleased)
    BY <2>1, CardIDs, FS_Subset
  <2>3. QED
    BY <1>1, <2>1, <2>2, CardIDs DEF IndInv, TypeOK, TokenConservation, AddNeverEvicts, One,
       InHand, Protocol, WorkerInv, ChannelInv, TargetInv, Active, Migrating, Replacing,
       Channels
<1>2. QED
  BY <1>1, Safety, PTL

(***************************************************************************)
(* RestartNever fills the slots freed by Cap and no others                 *)
(* (spawner.go:37-39, 168).                                                *)
(***************************************************************************)
THEOREM NoBackfill == Spec => []NeverBackfills
<1>1. ASSUME IndInv PROVE NeverBackfills
  BY <1>1, CardIDs DEF IndInv, TypeOK, AccountInv, NeverBackfills, One
<1>2. QED
  BY <1>1, Safety, PTL

(***************************************************************************)
(* When only the driver calls it, a stopped manager stays stopped until    *)
(* Start; with a concurrent stopper this fails (spawner.go:81-83).         *)
(***************************************************************************)
THEOREM StopsAlone ==
  ASSUME Stoppers = {}
  PROVE  Spec => []NoResurrection
<1>1. ASSUME IndInv PROVE NoResurrection
  BY <1>1 DEF IndInv, NoResurrection, Protocol, AloneInv, WorkerInv
<1>2. QED
  BY <1>1, Safety, PTL

-----------------------------------------------------------------------------
(***************************************************************************)
(* The refinement of ThreadPool.                                           *)
(***************************************************************************)
PoolFrame == worker' = worker /\ ch'.cap = ch.cap /\ Unreleased' = Unreleased

\* The Cardinality of ThreadPool is the one of this module.
LEMMA PoolCard == ASSUME NEW S PROVE Pool!Cardinality(S) = Cardinality(S)
BY Zenon DEF Pool!Cardinality, Cardinality

LEMMA PoolStutter ==
  ASSUME PoolFrame PROVE UNCHANGED Pool!poolVars
BY DEF PoolFrame, Pool!poolVars

LEMMA UsersFrame == ASSUME user' = user PROVE Unreleased' = Unreleased
BY DEF Unreleased

\* The actions that change neither the limit, nor the live threads, nor open.
LEMMA CallerStutter ==
  ASSUME IndInv,
         \/ \E n \in 0 .. MaxCount : CallCap(n)
         \/ CheckRunning \/ CapList \/ CallStart \/ StopPrevious
         \/ MigrateToken \/ MigratePop \/ MigrateSend \/ CallStopAll
         \/ \E c \in Callers : CallStop(c) \/ ReturnStop(c) \/ StopperClear(c) \/ ReturnStopAll(c)
  PROVE  UNCHANGED Pool!poolVars
<1>1. worker' = worker /\ user' = user
  BY DEF CallCap, CheckRunning, CapList, CallStart, StopPrevious, MigrateToken, MigratePop,
     MigrateSend, CallStopAll, CallStop, ReturnStop, StopperClear, ReturnStopAll, ClearThreads
<1>2. ch'.cap = ch.cap
  BY DEF IndInv, TypeOK, Channels, CallCap, CheckRunning, CapList, CallStart, StopPrevious,
     MigrateToken, MigratePop, MigrateSend, CallStopAll, CallStop, ReturnStop, StopperClear,
     ReturnStopAll, ClearThreads
<1>3. QED
  BY <1>1, <1>2, UsersFrame, PoolStutter DEF PoolFrame

LEMMA UserStutter ==
  ASSUME IndInv, NEW u \in IDs, UserReturn(u) \/ UserDelete(u) \/ UserLock(u) \/ UserDone(u)
  PROVE  UNCHANGED Pool!poolVars
<1>1. worker' = worker /\ ch' = ch
  BY DEF UserReturn, UserDelete, UserLock, UserDone
<1>2. Unreleased' = Unreleased
  BY DEF IndInv, TypeOK, Unreleased, UserReturn, UserDelete, UserLock, UserDone
<1>3. QED
  BY <1>1, <1>2, PoolStutter DEF PoolFrame

\* A thread that gets rid of its token finishes.
LEMMA UserFinish ==
  ASSUME IndInv, NEW u \in IDs, UserReceive(u) \/ MigrateHandOver(u)
  PROVE  Pool!Finish(u)
<1>1. u \in Unreleased /\ Unreleased' = Unreleased \ {u}
  BY DEF IndInv, TypeOK, Unreleased, Protocol, ChannelInv, UserReceive, MigrateHandOver
<1>2. worker' = worker /\ ch'.cap = ch.cap
  BY DEF IndInv, TypeOK, Channels, UserReceive, MigrateHandOver
<1>3. QED
  BY <1>1, <1>2 DEF Pool!Finish

LEMMA ChannelReplaced ==
  ASSUME IndInv, InstallStop \/ SwapChannel
  PROVE  UNCHANGED Pool!poolVars \/ Pool!Retarget(arg)
<1>1. Unreleased' = Unreleased
  BY UsersFrame DEF InstallStop, SwapChannel
<1>2. worker \notin {"loop", "spawn"} /\ worker' \notin {"loop", "spawn"}
  BY DEF IndInv, Protocol, WorkerInv, Replacing, InstallStop, SwapChannel
<1>3. CASE InstallStop
  BY <1>1, <1>2, <1>3 DEF InstallStop, Pool!poolVars
<1>4. CASE SwapChannel
  BY <1>1, <1>2, <1>4 DEF SwapChannel, Channel, Pool!Retarget
<1>5. QED
  BY <1>3, <1>4

\* Spawning resumes only once the surplus threads have given their tokens back.
LEMMA WorkerLaunched ==
  ASSUME IndInv, LaunchWorker
  PROVE  Pool!Resume
<1>1. Unreleased' = Unreleased
  BY UsersFrame DEF LaunchWorker
<1>2. Cardinality(Unreleased) <= ch.cap
  BY CardIDs DEF IndInv, TypeOK, TokenConservation, One, InHand, Unreleased, Protocol,
     WorkerInv, ChannelInv, Replacing, Channels, LaunchWorker
<1>3. worker \notin {"loop", "spawn"} /\ worker' = "loop" /\ ch' = ch
  BY DEF IndInv, Protocol, WorkerInv, Replacing, LaunchWorker
<1>4. (worker' \in {"loop", "spawn"}) = TRUE
  BY <1>3
<1>5. QED
  BY <1>1, <1>2, <1>3, <1>4, PoolCard DEF Pool!Resume

LEMMA WorkerPool ==
  ASSUME IndInv, WorkerStep
  PROVE  \/ UNCHANGED Pool!poolVars \/ Pool!Close
         \/ \E u \in IDs : Pool!Launch(u)
<1>1. CASE WorkerAcquire
  <2>1. worker = "loop" /\ worker' = "spawn" /\ ch'.cap = ch.cap /\ Unreleased' = Unreleased
    BY <1>1, UsersFrame DEF IndInv, TypeOK, Channels, WorkerAcquire
  <2>2. (worker' \in {"loop", "spawn"}) = (worker \in {"loop", "spawn"})
    BY <2>1
  <2>3. QED
    BY <2>1, <2>2, Zenon DEF Pool!poolVars
<1>2. CASE WorkerSpawn
  <2>1. worker = "spawn" /\ worker' = "loop" /\ ch' = ch
    BY <1>2 DEF WorkerSpawn
  <2>2. QED
    BY <1>2, <2>1, SpawnFacts, PoolCard DEF Pool!Launch
<1>3. CASE WorkerExit
  <2>1. worker = "loop" /\ worker' = "exited" /\ ch'.cap = ch.cap /\ Unreleased' = Unreleased
    BY <1>3, UsersFrame DEF IndInv, TypeOK, Channels, WorkerExit
  <2>2. QED
    BY <2>1 DEF Pool!Close
<1>4. QED
  BY <1>1, <1>2, <1>3 DEF WorkerStep

LEMMA PoolStep ==
  ASSUME IndInv, [Next]_vars
  PROVE  [Pool!PoolNext]_(Pool!poolVars)
<1>1. CASE InstallStop \/ SwapChannel
  <2>1. arg \in 0 .. MaxCount
    BY DEF IndInv, TypeOK
  <2>2. QED
    BY <1>1, <2>1, ChannelReplaced DEF Pool!PoolNext
<1>2. CASE LaunchWorker
  BY <1>2, WorkerLaunched DEF Pool!PoolNext
<1>3. CASE WorkerStep
  BY <1>3, WorkerPool DEF Pool!PoolNext
<1>4. ASSUME NEW u \in IDs, UserReceive(u) \/ MigrateHandOver(u)
      PROVE  Pool!PoolNext
  BY <1>4, UserFinish DEF Pool!PoolNext
<1>5. ASSUME NEW u \in IDs, UserReturn(u) \/ UserDelete(u) \/ UserLock(u) \/ UserDone(u)
      PROVE  UNCHANGED Pool!poolVars
  BY <1>5, UserStutter
<1>6. CASE UNCHANGED vars
  BY <1>6, UsersFrame, PoolStutter DEF PoolFrame, vars
<1>7. QED
  BY <1>1, <1>2, <1>3, <1>4, <1>5, <1>6, CallerStutter
     DEF Next, SpawnWorkerStep, UserStep, StopStep, Rest

(***************************************************************************)
(* The manager implements ThreadPool: its limit moves only while spawning  *)
(* is closed, and spawning never exceeds it.                               *)
(***************************************************************************)
THEOREM PoolImplemented == Spec => ImplementsPool
<1>1. Init => Pool!PoolInit
  BY DEF Init, NilChannel, Unreleased, Pool!PoolInit
<1>2. IndInv /\ [Next]_vars => [Pool!PoolNext]_(Pool!poolVars)
  BY PoolStep
<1>3. QED
  BY <1>1, <1>2, Safety, PTL DEF Spec, ImplementsPool, Pool!PoolSpec
=============================================================================
