----------------------------- MODULE StatsProofs ------------------------------
(***************************************************************************)
(* Proofs about the references of the aggregators, for every number of     *)
(* users, of users to an aggregator, and for every bound.                  *)
(***************************************************************************)
EXTENDS StatsProps, Induction

\* A user refers to an aggregator from its start to its end; only those that have been
\* created are referred to, and while one takes users it is the current one.
Owners ==
  /\ \A u \in Users : rep[u] <= created /\ (rep[u] # 0 <=> user[u] \in {"up", "reporting"})
  /\ current <= created /\ (counter # 0 => current # 0)
  /\ \A i \in IDs : agg[i].at = "unborn" <=> i > created

\* What is begun fits into the bounds.
Quota ==
  /\ created + Cardinality(Starting) <= MaxAggs
  /\ made + Cardinality(Reporting) <= MaxReports

IndInv == TypeOK /\ Owners /\ RefsExact /\ Quota

-----------------------------------------------------------------------------
\* One user moves from f[u] to g[u]: the sets of users at x gain or lose it.
Where(f, x) == {v \in Users : f[v] = x}
OnlyAt(u, f, g) == \A v \in Users \ {u} : g[v] = f[v]

LEMMA Moved ==
  ASSUME NEW f, NEW g, NEW u \in Users, OnlyAt(u, f, g), NEW x
  PROVE  /\ Cardinality(Where(f, x)) \in Nat /\ Cardinality(Where(g, x)) \in Nat
         /\ f[u] = x => Cardinality(Where(f, x)) >= 1
         /\ g[u] = x /\ f[u] = x => Cardinality(Where(g, x)) = Cardinality(Where(f, x))
         /\ g[u] = x /\ f[u] # x => Cardinality(Where(g, x)) = Cardinality(Where(f, x)) + 1
         /\ g[u] # x /\ f[u] = x => Cardinality(Where(g, x)) = Cardinality(Where(f, x)) - 1
         /\ g[u] # x /\ f[u] # x => Cardinality(Where(g, x)) = Cardinality(Where(f, x))
<1> DEFINE F == Where(f, x)
           G == Where(g, x)
<1>1. IsFiniteSet(F) /\ IsFiniteSet(G)
  <2>1. IsFiniteSet(Users) BY StatsAssumption
  <2>2. F \in SUBSET Users /\ G \in SUBSET Users BY DEF Where
  <2> HIDE DEF F, G
  <2> QED BY <2>1, <2>2, FS_Subset
<1>2. u \in F <=> f[u] = x BY DEF Where
<1>3. g[u] = x => G = F \cup {u} BY DEF Where, OnlyAt
<1>4. g[u] # x => G = F \ {u} BY DEF Where, OnlyAt
<1> HIDE DEF F, G
<1>5. Cardinality(F) \in Nat /\ Cardinality(G) \in Nat BY <1>1, FS_CardinalityType
<1>6. Cardinality(F \cup {u}) = IF u \in F THEN Cardinality(F) ELSE Cardinality(F) + 1
  BY <1>1, FS_AddElement
<1>7. Cardinality(F \ {u}) = IF u \in F THEN Cardinality(F) - 1 ELSE Cardinality(F)
  BY <1>1, FS_RemoveElement
<1>8. u \in F => Cardinality(F) >= 1
  <2>1. Cardinality(F) = 0 <=> F = {} BY <1>1, FS_EmptySet
  <2> QED BY <1>5, <2>1
<1>9. /\ f[u] = x => Cardinality(F) >= 1
      /\ g[u] = x /\ f[u] = x => Cardinality(G) = Cardinality(F)
      /\ g[u] = x /\ f[u] # x => Cardinality(G) = Cardinality(F) + 1
      /\ g[u] # x /\ f[u] = x => Cardinality(G) = Cardinality(F) - 1
      /\ g[u] # x /\ f[u] # x => Cardinality(G) = Cardinality(F)
  BY <1>2, <1>3, <1>4, <1>6, <1>7, <1>8
<1> QED BY <1>5, <1>9 DEF F, G

LEMMA HolderCount == \A i : Cardinality(Holders(i)) \in Nat
<1> TAKE i
<1>1. IsFiniteSet(Users) BY StatsAssumption
<1>2. Holders(i) \in SUBSET Users BY DEF Holders
<1>3. IsFiniteSet(Holders(i)) BY <1>1, <1>2, FS_Subset
<1> QED BY <1>3, FS_CardinalityType

LEMMA NextSlotFacts ==
  ASSUME TypeOK
  PROVE  /\ NextSlot \in 0 .. Share - 1
<1>1. Share \in Nat \ {0} /\ counter \in 0 .. Share - 1 BY StatsAssumption DEF TypeOK
<1>2. CASE counter + 1 < Share
  <2>1. (counter + 1) % Share = counter + 1 BY <1>1, <1>2, SMT
  <2> QED BY <1>1, <1>2, <2>1 DEF NextSlot
<1>3. CASE counter + 1 >= Share
  <2>1. counter + 1 = Share BY <1>1, <1>3
  <2>2. Share % Share = 0 BY <1>1, SMT
  <2> QED BY <1>1, <2>1, <2>2 DEF NextSlot
<1> QED BY <1>1, <1>2, <1>3

-----------------------------------------------------------------------------
Aggregators ==
  [refs : Nat, ch : 0 .. ChanCap, closed : BOOLEAN, s : Nat,
   at : {"unborn", "loop", "flush", "final", "ended"}]

LEMMA ReleaseFacts ==
  ASSUME NEW a \in Aggregators, a.refs # 0
  PROVE  /\ Release(a) \in Aggregators /\ Release(a).at = a.at
         /\ Release(a).refs = a.refs - 1 /\ Release(a).closed = (a.refs = 1)
<1>1. a.refs \in Nat \ {0} /\ (a.refs = 1) \in BOOLEAN BY DEF Aggregators
<1>2. Release(a).refs = a.refs - 1 /\ Release(a).at = a.at BY DEF Release, Aggregators
<1>3. Release(a).closed = (a.refs = 1) BY DEF Release, Aggregators
<1>4. Release(a) \in Aggregators
  <2>1. a.refs - 1 \in Nat BY <1>1
  <2> QED BY <1>1, <2>1 DEF Release, Aggregators
<1> QED BY <1>2, <1>3, <1>4

\* When the load generator lets the current aggregator go, the users' references remain.
LEMMA LetGo ==
  ASSUME IndInv
  PROVE  /\ LetCurrentGo \in [IDs -> Aggregators]
         /\ \A i \in IDs : /\ LetCurrentGo[i].at = agg[i].at
                           /\ i # current => LetCurrentGo[i] = agg[i]
                           /\ agg[i].at # "unborn" =>
                                /\ LetCurrentGo[i].refs = Cardinality(Holders(i))
                                /\ LetCurrentGo[i].closed <=> LetCurrentGo[i].refs = 0
<1>1. agg \in [IDs -> Aggregators] /\ current \in 0 .. MaxAggs
  BY DEF IndInv, TypeOK, Aggregators
<1>2. CASE current = 0
  <2>1. LetCurrentGo = agg /\ \A i \in IDs : i # current BY <1>2 DEF LetCurrentGo, IDs
  <2>2. \A i \in IDs : agg[i].at # "unborn" =>
          /\ agg[i].refs = Cardinality(Holders(i)) /\ (agg[i].closed <=> agg[i].refs = 0)
    <3> SUFFICES ASSUME NEW i \in IDs, agg[i].at # "unborn"
                 PROVE  agg[i].refs = Cardinality(Holders(i)) /\ (agg[i].closed <=> agg[i].refs = 0)
      OBVIOUS
    <3>1. agg[i].refs = Cardinality(Holders(i)) + 0 /\ (agg[i].closed <=> agg[i].refs = 0)
      BY <2>1 DEF IndInv, RefsExact
    <3> QED BY <3>1, HolderCount
  <2> QED BY <1>1, <2>1, <2>2
<1>3. CASE current # 0
  <2>1. current \in IDs BY <1>1, <1>3 DEF IDs
  <2>2. agg[current].at # "unborn"
    <3>1. created \in Nat /\ current <= created BY StatsAssumption DEF IndInv, TypeOK, Owners
    <3>2. ~(current > created) BY <1>1, <3>1
    <3> QED BY <2>1, <3>2 DEF IndInv, Owners
  <2>3. agg[current].refs = Cardinality(Holders(current)) + 1
    BY <2>1, <2>2 DEF IndInv, RefsExact
  <2>4. agg[current].refs \in Nat \ {0} BY <2>3, HolderCount
  <2>5. ~agg[current].closed BY <2>1, <2>2, <2>4 DEF IndInv, RefsExact
  <2>6. LetCurrentGo = [agg EXCEPT ![current] = Release(@)] BY <1>3 DEF LetCurrentGo
  <2>7. /\ Release(agg[current]) \in Aggregators /\ Release(agg[current]).at = agg[current].at
        /\ Release(agg[current]).refs = agg[current].refs - 1
        /\ Release(agg[current]).closed = (agg[current].refs = 1)
    <3>1. agg[current] \in Aggregators /\ agg[current].refs # 0 BY <1>1, <2>1, <2>4
    <3> QED BY <3>1, ReleaseFacts
  <2>8. LetCurrentGo \in [IDs -> Aggregators] BY <1>1, <2>6, <2>7
  <2>9. LetCurrentGo[current] = Release(agg[current])
        /\ \A i \in IDs : i # current => LetCurrentGo[i] = agg[i]
    BY <1>1, <2>1, <2>6
  <2>10. /\ LetCurrentGo[current].refs = Cardinality(Holders(current))
         /\ LetCurrentGo[current].closed <=> LetCurrentGo[current].refs = 0
    <3>1. Cardinality(Holders(current)) \in Nat BY HolderCount
    <3>2. LetCurrentGo[current].refs = Cardinality(Holders(current)) BY <2>3, <2>7, <2>9, <3>1
    <3>3. agg[current].refs = 1 <=> LetCurrentGo[current].refs = 0 BY <2>4, <2>7, <2>9
    <3> QED BY <2>7, <2>9, <3>2, <3>3
  <2>11. ASSUME NEW i \in IDs, i # current, agg[i].at # "unborn"
         PROVE  agg[i].refs = Cardinality(Holders(i)) /\ (agg[i].closed <=> agg[i].refs = 0)
    <3>1. agg[i].refs = Cardinality(Holders(i)) + 0 /\ (agg[i].closed <=> agg[i].refs = 0)
      BY <2>11 DEF IndInv, RefsExact
    <3> QED BY <3>1, HolderCount
  <2>12. \A i \in IDs : LetCurrentGo[i].at = agg[i].at BY <2>7, <2>9
  <2> QED BY <2>8, <2>9, <2>10, <2>11, <2>12
<1> QED BY <1>2, <1>3

-----------------------------------------------------------------------------
\* References are counted right as long as nobody takes or drops one.
LEMMA RefsKept ==
  ASSUME IndInv, UNCHANGED <<rep, current, created>>,
         \A i \in IDs : /\ agg'[i].refs = agg[i].refs /\ agg'[i].closed = agg[i].closed
                        /\ agg'[i].at = "unborn" <=> agg[i].at = "unborn"
  PROVE  RefsExact' /\ \A i \in IDs : agg'[i].at = "unborn" <=> i > created'
<1>1. \A i : Holders(i)' = Holders(i) BY DEF Holders
<1>2. ASSUME NEW i \in IDs, agg'[i].at # "unborn"
      PROVE  /\ agg'[i].refs = Cardinality(Holders(i)') + (IF current' = i THEN 1 ELSE 0)
             /\ agg'[i].closed <=> agg'[i].refs = 0
  BY <1>1, <1>2 DEF IndInv, RefsExact
<1>3. RefsExact' BY <1>2 DEF RefsExact
<1> QED BY <1>3 DEF IndInv, Owners

LEMMA OwnersKept ==
  ASSUME IndInv, UNCHANGED <<rep, current, counter, created>>,
         \A u \in Users : user'[u] \in {"up", "reporting"} <=> user[u] \in {"up", "reporting"},
         \A i \in IDs : /\ agg'[i].refs = agg[i].refs /\ agg'[i].closed = agg[i].closed
                        /\ agg'[i].at = "unborn" <=> agg[i].at = "unborn"
  PROVE  Owners' /\ RefsExact'
<1>1. RefsExact' /\ \A i \in IDs : agg'[i].at = "unborn" <=> i > created' BY RefsKept
<1> QED BY <1>1 DEF IndInv, Owners

LEMMA QuotaKept == Quota /\ UNCHANGED <<user, created, made>> => Quota'
BY DEF Quota, Starting, Reporting

\* The places of the requests outside the aggregators keep their types.
Counters ==
  /\ wstats \in Nat /\ sent \in Nat /\ cleared \in Nat
  /\ resetCh \in BOOLEAN /\ proc \in BOOLEAN /\ ctxDone \in BOOLEAN
  /\ quit \in {"no", "stop", "report", "reported", "done"}
  /\ phase \in {"idle", "running", "stopping"}

LEMMA TypeParts ==
  TypeOK <=> /\ Counters /\ agg \in [IDs -> Aggregators]
             /\ user \in [Users -> {"idle", "starting", "up", "reporting"}]
             /\ rep \in [Users -> 0 .. MaxAggs]
             /\ current \in 0 .. MaxAggs /\ counter \in 0 .. Share - 1
             /\ created \in 0 .. MaxAggs /\ made \in 0 .. MaxReports
BY DEF TypeOK, Counters, Aggregators

-----------------------------------------------------------------------------
\* The commands and the process of the worker.
LEMMA CommandStep ==
  ASSUME IndInv, \/ BeginStop \/ QuitMessage \/ LastReport \/ CancelJoin
                 \/ Tick \/ RequestReset \/ Reset \/ ProcExit
  PROVE  IndInv'
<1>1. UNCHANGED <<current, counter, user, rep, agg, created, made>>
  <2>1. CASE BeginStop BY <2>1 DEF BeginStop, userVars, aggVars
  <2>2. CASE QuitMessage BY <2>2 DEF QuitMessage, userVars, aggVars
  <2>3. CASE LastReport BY <2>3 DEF LastReport, genVars, userVars, aggVars
  <2>4. CASE CancelJoin BY <2>4 DEF CancelJoin, genVars, userVars, aggVars
  <2>5. CASE Tick BY <2>5 DEF Tick, genVars, userVars, aggVars
  <2>6. CASE RequestReset BY <2>6 DEF RequestReset, genVars, userVars, aggVars
  <2>7. CASE Reset BY <2>7 DEF Reset, genVars, userVars, aggVars
  <2>8. CASE ProcExit BY <2>8 DEF ProcExit, genVars, userVars, aggVars
  <2> QED BY <2>1, <2>2, <2>3, <2>4, <2>5, <2>6, <2>7, <2>8
<1>2. TypeOK'
  <2>1. Counters BY TypeParts DEF IndInv
  <2>2. Counters'
    <3>1. CASE BeginStop BY <2>1, <3>1 DEF BeginStop, Counters, procVars, quitVars
    <3>2. CASE QuitMessage BY <2>1, <3>2 DEF QuitMessage, Counters, procVars
    <3>3. CASE LastReport BY <2>1, <3>3 DEF LastReport, SendStats, Counters, genVars
    <3>4. CASE CancelJoin BY <2>1, <3>4 DEF CancelJoin, Counters, genVars, procVars
    <3>5. CASE Tick BY <2>1, <3>5 DEF Tick, SendStats, Counters, genVars, quitVars
    <3>6. CASE RequestReset BY <2>1, <3>6 DEF RequestReset, Counters, genVars, quitVars
    <3>7. CASE Reset
      <4>1. cleared' \in Nat /\ wstats' \in Nat BY <2>1, <3>7 DEF Reset, Counters
      <4>2. UNCHANGED <<sent, proc, ctxDone, quit, phase>> /\ resetCh' = FALSE
        BY <3>7 DEF Reset, genVars, quitVars
      <4> QED BY <2>1, <4>1, <4>2 DEF Counters
    <3>8. CASE ProcExit BY <2>1, <3>8 DEF ProcExit, Counters, genVars, quitVars
    <3> QED BY <3>1, <3>2, <3>3, <3>4, <3>5, <3>6, <3>7, <3>8
  <2> QED BY <1>1, <2>2, TypeParts DEF IndInv, TypeOK, Counters
<1>3. Owners' /\ RefsExact' BY <1>1, OwnersKept
<1>4. Quota' BY <1>1, QuotaKept DEF IndInv
<1> QED BY <1>2, <1>3, <1>4 DEF IndInv

\* Start and the end of Stop, which let the current aggregator go.
LEMMA StartStopStep ==
  ASSUME IndInv, Start \/ EndStop
  PROVE  IndInv'
<1>1. /\ UNCHANGED <<user, rep, created, made, procVars, ctxDone>> /\ agg' = LetCurrentGo
      /\ current' = 0 /\ counter' = 0 /\ phase' \in {"idle", "running"}
      /\ quit' \in {quit, "report"}
  BY DEF Start, EndStop, userVars, quitVars
<1>2. /\ agg' \in [IDs -> Aggregators]
      /\ \A i \in IDs : agg'[i].at = agg[i].at
      /\ \A i \in IDs : agg[i].at # "unborn" =>
           /\ agg'[i].refs = Cardinality(Holders(i)) /\ (agg'[i].closed <=> agg'[i].refs = 0)
  BY <1>1, LetGo
<1>3. TypeOK'
  <2>1. Counters' BY <1>1, TypeParts DEF IndInv, Counters, procVars
  <2>2. 0 \in 0 .. MaxAggs /\ 0 \in 0 .. Share - 1 BY StatsAssumption
  <2>3. /\ user \in [Users -> {"idle", "starting", "up", "reporting"}]
        /\ rep \in [Users -> 0 .. MaxAggs] /\ created \in 0 .. MaxAggs /\ made \in 0 .. MaxReports
    BY TypeParts DEF IndInv
  <2> QED BY <1>1, <1>2, <2>1, <2>2, <2>3 DEF TypeOK, Counters, Aggregators
<1>4. RefsExact'
  <2>1. \A i : Holders(i)' = Holders(i) BY <1>1 DEF Holders
  <2>2. ASSUME NEW i \in IDs, agg'[i].at # "unborn"
        PROVE  /\ agg'[i].refs = Cardinality(Holders(i)') + (IF current' = i THEN 1 ELSE 0)
               /\ agg'[i].closed <=> agg'[i].refs = 0
    <3>1. current' # i BY <1>1 DEF IDs
    <3>2. agg'[i].refs = Cardinality(Holders(i)') /\ (agg'[i].closed <=> agg'[i].refs = 0)
      BY <1>2, <2>1, <2>2
    <3> QED BY <2>1, <3>1, <3>2, HolderCount
  <2> QED BY <2>2 DEF RefsExact
<1>5. Owners' BY <1>1, <1>2, StatsAssumption DEF IndInv, Owners, TypeOK
<1>6. Quota' BY <1>1, QuotaKept DEF IndInv
<1> QED BY <1>3, <1>4, <1>5, <1>6 DEF IndInv

-----------------------------------------------------------------------------
\* The aggregators: they hand over, and keep their references.
LEMMA AggregatorStep ==
  ASSUME IndInv, NEW i \in IDs, AggStep(i)
  PROVE  IndInv'
<1>1. UNCHANGED <<phase, current, counter, user, rep, created, made, resetCh, sent, cleared, proc,
                  ctxDone, quit>>
  BY DEF AggStep, Collect, Offer, OfferLast, Merge, genVars, userVars, procVars, quitVars
<1>2. /\ agg \in [IDs -> Aggregators] /\ agg[i] \in Aggregators /\ wstats \in Nat
      /\ \A j \in IDs : agg[j] \in Aggregators
  BY TypeParts DEF IndInv, Counters
<1>3. /\ agg' \in [IDs -> Aggregators] /\ wstats' \in Nat
      /\ \A j \in IDs : /\ agg'[j].refs = agg[j].refs /\ agg'[j].closed = agg[j].closed
                        /\ agg'[j].at = "unborn" <=> agg[j].at = "unborn"
  <2>1. CASE Collect(i)
    <3>1. agg[i].ch - 1 \in 0 .. ChanCap /\ agg[i].s + 1 \in Nat
      BY <1>2, <2>1, StatsAssumption DEF Collect, Aggregators
    <3> QED BY <1>2, <2>1, <3>1 DEF Collect, Aggregators, procVars
  <2>2. CASE Offer(i) BY <1>2, <2>2 DEF Offer, Aggregators, procVars
  <2>3. CASE OfferLast(i) BY <1>2, <2>3 DEF OfferLast, Aggregators, procVars
  <2>4. CASE Merge(i)
    <3>1. wstats' \in Nat BY <1>2, <2>4 DEF Merge, Aggregators
    <3> QED BY <1>2, <2>4, <3>1 DEF Merge, Aggregators
  <2> QED BY <2>1, <2>2, <2>3, <2>4 DEF AggStep
<1>4. TypeOK'
  <2>1. Counters' BY <1>1, <1>3, TypeParts DEF IndInv, Counters
  <2> QED BY <1>1, <1>3, <2>1, TypeParts DEF IndInv, TypeOK, Counters, Aggregators
<1>5. Owners' /\ RefsExact' BY <1>1, <1>3, OwnersKept
<1>6. Quota' BY <1>1, QuotaKept DEF IndInv
<1> QED BY <1>4, <1>5, <1>6 DEF IndInv

-----------------------------------------------------------------------------
\* What the lemmas about the steps of a user begin with.
LEMMA UserFacts ==
  ASSUME IndInv, NEW u \in Users
  PROVE  /\ Counters /\ agg \in [IDs -> Aggregators]
         /\ user \in [Users -> {"idle", "starting", "up", "reporting"}]
         /\ rep \in [Users -> 0 .. MaxAggs] /\ rep[u] \in Nat
         /\ current \in 0 .. MaxAggs /\ counter \in 0 .. Share - 1
         /\ created \in 0 .. MaxAggs /\ made \in 0 .. MaxReports /\ MaxAggs \in Nat /\ MaxReports \in Nat
         /\ user[u] \in {"up", "reporting"} =>
              rep[u] \in IDs /\ agg[rep[u]] \in Aggregators /\ agg[rep[u]].at # "unborn"
         /\ user[u] \in {"idle", "starting"} => rep[u] = 0
         /\ current # 0 => current \in IDs /\ agg[current] \in Aggregators /\ agg[current].at # "unborn"
<1>1. /\ Counters /\ agg \in [IDs -> Aggregators]
      /\ user \in [Users -> {"idle", "starting", "up", "reporting"}]
      /\ rep \in [Users -> 0 .. MaxAggs]
      /\ current \in 0 .. MaxAggs /\ counter \in 0 .. Share - 1
      /\ created \in 0 .. MaxAggs /\ made \in 0 .. MaxReports
  BY TypeParts DEF IndInv
<1>2. MaxAggs \in Nat /\ MaxReports \in Nat BY StatsAssumption
<1>3. ASSUME NEW i \in 1 .. MaxAggs, i <= created
      PROVE  i \in IDs /\ agg[i] \in Aggregators /\ agg[i].at # "unborn"
  <2>1. i \in IDs BY DEF IDs
  <2>2. ~(i > created) BY <1>1, <1>3
  <2> QED BY <1>1, <2>1, <2>2 DEF IndInv, Owners
<1>4. rep[u] \in 0 .. MaxAggs /\ rep[u] <= created BY <1>1 DEF IndInv, Owners
<1>5. rep[u] # 0 <=> user[u] \in {"up", "reporting"} BY DEF IndInv, Owners
<1>6. ASSUME user[u] \in {"up", "reporting"}
      PROVE  rep[u] \in IDs /\ agg[rep[u]] \in Aggregators /\ agg[rep[u]].at # "unborn"
  BY <1>2, <1>3, <1>4, <1>5, <1>6
<1>7. ASSUME current # 0
      PROVE  current \in IDs /\ agg[current] \in Aggregators /\ agg[current].at # "unborn"
  <2>1. current <= created /\ current \in 1 .. MaxAggs BY <1>1, <1>2, <1>7 DEF IndInv, Owners
  <2> QED BY <1>3, <2>1
<1>8. user[u] \in {"idle", "starting"} => rep[u] = 0 BY <1>5
<1>9. rep[u] \in Nat BY <1>2, <1>4
<1> QED BY <1>1, <1>2, <1>6, <1>7, <1>8, <1>9

\* How the sets of users that Quota counts change when a user goes from a to b.
Moves(u, b) == user' = [user EXCEPT ![u] = b]

LEMMA Counted ==
  ASSUME IndInv, NEW u \in Users, NEW b, Moves(u, b)
  PROVE  /\ Cardinality(Starting) \in Nat /\ Cardinality(Reporting) \in Nat
         /\ Cardinality(Starting') \in Nat /\ Cardinality(Reporting') \in Nat
         /\ user[u] = "starting" => Cardinality(Starting) >= 1
         /\ user[u] = "starting" /\ b # "starting" => Cardinality(Starting') = Cardinality(Starting) - 1
         /\ user[u] # "starting" /\ b = "starting" => Cardinality(Starting') = Cardinality(Starting) + 1
         /\ user[u] # "starting" /\ b # "starting" => Cardinality(Starting') = Cardinality(Starting)
         /\ user[u] = "reporting" /\ b # "reporting" => Cardinality(Reporting') = Cardinality(Reporting) - 1
         /\ user[u] # "reporting" /\ b = "reporting" => Cardinality(Reporting') = Cardinality(Reporting) + 1
         /\ user[u] # "reporting" /\ b # "reporting" => Cardinality(Reporting') = Cardinality(Reporting)
<1>1. user'[u] = b /\ \A v \in Users \ {u} : user'[v] = user[v]
  BY UserFacts DEF Moves
<1>2. Starting = Where(user, "starting") /\ Reporting = Where(user, "reporting")
  BY DEF Starting, Reporting, Where
<1>3. Starting' = Where(user', "starting") /\ Reporting' = Where(user', "reporting")
  BY DEF Starting, Reporting, Where
<1> DEFINE f == user
           g == user'
<1>4. g[u] = b /\ OnlyAt(u, f, g) BY <1>1 DEF OnlyAt
<1>5. ASSUME NEW x
      PROVE  /\ Cardinality(Where(f, x)) \in Nat /\ Cardinality(Where(g, x)) \in Nat
             /\ f[u] = x => Cardinality(Where(f, x)) >= 1
             /\ b # x /\ f[u] = x => Cardinality(Where(g, x)) = Cardinality(Where(f, x)) - 1
             /\ b = x /\ f[u] # x => Cardinality(Where(g, x)) = Cardinality(Where(f, x)) + 1
             /\ b # x /\ f[u] # x => Cardinality(Where(g, x)) = Cardinality(Where(f, x))
  <2> HIDE DEF f, g
  <2> QED BY <1>4, Moved
<1> QED BY <1>2, <1>3, <1>5

LEMMA StartUserStep ==
  ASSUME IndInv, NEW u \in Users, StartUser(u)
  PROVE  IndInv'
<1>1. /\ user[u] = "idle" /\ user' = [user EXCEPT ![u] = "starting"]
      /\ created + Cardinality(Starting) < MaxAggs
      /\ UNCHANGED <<phase, current, counter, rep, agg, created, procVars, quitVars, made>>
  BY DEF StartUser, genVars, aggVars
<1>2. TypeOK' BY <1>1 DEF IndInv, TypeOK, procVars, quitVars
<1>3. Owners' /\ RefsExact'
  <2>1. \A v \in Users : user'[v] \in {"up", "reporting"} <=> user[v] \in {"up", "reporting"}
    BY <1>1, UserFacts
  <2> QED BY <1>1, <2>1, OwnersKept
<1>4. Quota'
  <2>0. Moves(u, "starting") BY <1>1 DEF Moves
  <2>1. /\ Cardinality(Starting) \in Nat
        /\ Cardinality(Starting') = Cardinality(Starting) + 1
        /\ Cardinality(Reporting') = Cardinality(Reporting)
    BY <1>1, <2>0, Counted
  <2> QED BY <1>1, <2>1, UserFacts DEF IndInv, Quota
<1> QED BY <1>2, <1>3, <1>4 DEF IndInv

LEMMA ReportStep ==
  ASSUME IndInv, NEW u \in Users, Report(u)
  PROVE  IndInv'
<1>1. /\ user[u] = "up" /\ user' = [user EXCEPT ![u] = "reporting"]
      /\ made + Cardinality(Reporting) < MaxReports
      /\ UNCHANGED <<phase, current, counter, rep, agg, created, procVars, quitVars, made>>
  BY DEF Report, genVars, aggVars
<1>2. TypeOK' BY <1>1 DEF IndInv, TypeOK, procVars, quitVars
<1>3. Owners' /\ RefsExact'
  <2>1. \A v \in Users : user'[v] \in {"up", "reporting"} <=> user[v] \in {"up", "reporting"}
    BY <1>1, UserFacts
  <2> QED BY <1>1, <2>1, OwnersKept
<1>4. Quota'
  <2>0. Moves(u, "reporting") BY <1>1 DEF Moves
  <2>1. /\ Cardinality(Reporting) \in Nat
        /\ Cardinality(Reporting') = Cardinality(Reporting) + 1
        /\ Cardinality(Starting') = Cardinality(Starting)
    BY <1>1, <2>0, Counted
  <2> QED BY <1>1, <2>1, UserFacts DEF IndInv, Quota
<1> QED BY <1>2, <1>3, <1>4 DEF IndInv

LEMMA SendReportStep ==
  ASSUME IndInv, NEW u \in Users, SendReport(u)
  PROVE  IndInv'
<1>1. /\ user[u] = "reporting" /\ user' = [user EXCEPT ![u] = "up"]
      /\ agg[rep[u]].ch < ChanCap /\ agg' = [agg EXCEPT ![rep[u]].ch = @ + 1] /\ made' = made + 1
      /\ UNCHANGED <<phase, current, counter, rep, created, procVars, quitVars>>
  BY DEF SendReport, genVars
<1>2. rep[u] \in IDs /\ agg[rep[u]] \in Aggregators /\ agg \in [IDs -> Aggregators]
  BY <1>1, UserFacts
<1>3. agg' \in [IDs -> Aggregators]
      /\ \A i \in IDs : /\ agg'[i].refs = agg[i].refs /\ agg'[i].closed = agg[i].closed
                        /\ agg'[i].at = "unborn" <=> agg[i].at = "unborn"
  <2>1. agg[rep[u]].ch + 1 \in 0 .. ChanCap BY <1>1, <1>2, StatsAssumption DEF Aggregators
  <2> QED BY <1>1, <1>2, <2>1 DEF Aggregators
<1>4. Quota' /\ made' \in 0 .. MaxReports
  <2>0. Moves(u, "up") BY <1>1 DEF Moves
  <2>1. /\ Cardinality(Reporting) \in Nat /\ Cardinality(Reporting') \in Nat
        /\ Cardinality(Reporting') = Cardinality(Reporting) - 1
        /\ Cardinality(Starting') = Cardinality(Starting)
    BY <1>1, <2>0, Counted
  <2> QED BY <1>1, <2>1, UserFacts DEF IndInv, Quota
<1>5. TypeOK' BY <1>1, <1>3, <1>4 DEF IndInv, TypeOK, Aggregators, procVars, quitVars
<1>6. Owners' /\ RefsExact'
  <2>1. \A v \in Users : user'[v] \in {"up", "reporting"} <=> user[v] \in {"up", "reporting"}
    BY <1>1, UserFacts
  <2> QED BY <1>1, <1>3, <2>1, OwnersKept
<1> QED BY <1>4, <1>5, <1>6 DEF IndInv

-----------------------------------------------------------------------------
\* The holders of the aggregators when one user takes or drops one.
Takes(u, k) == rep' = [rep EXCEPT ![u] = k]

LEMMA HoldersMoved ==
  ASSUME IndInv, NEW u \in Users, NEW k, Takes(u, k), NEW i
  PROVE  /\ Cardinality(Holders(i)) \in Nat /\ Cardinality(Holders(i)') \in Nat
         /\ rep[u] = i => Cardinality(Holders(i)) >= 1
         /\ k # i /\ rep[u] = i => Cardinality(Holders(i)') = Cardinality(Holders(i)) - 1
         /\ k = i /\ rep[u] # i => Cardinality(Holders(i)') = Cardinality(Holders(i)) + 1
         /\ k # i /\ rep[u] # i => Cardinality(Holders(i)') = Cardinality(Holders(i))
<1> DEFINE f == rep
           g == rep'
<1>1. g[u] = k /\ OnlyAt(u, f, g) BY UserFacts DEF Takes, OnlyAt
<1>2. Holders(i) = Where(f, i) /\ Holders(i)' = Where(g, i) BY DEF Holders, Where
<1> HIDE DEF f, g
<1>3. /\ Cardinality(Where(f, i)) \in Nat /\ Cardinality(Where(g, i)) \in Nat
      /\ f[u] = i => Cardinality(Where(f, i)) >= 1
      /\ k # i /\ f[u] = i => Cardinality(Where(g, i)) = Cardinality(Where(f, i)) - 1
      /\ k = i /\ f[u] # i => Cardinality(Where(g, i)) = Cardinality(Where(f, i)) + 1
      /\ k # i /\ f[u] # i => Cardinality(Where(g, i)) = Cardinality(Where(f, i))
  BY <1>1, Moved
<1> QED BY <1>2, <1>3 DEF f

LEMMA LeaveStep ==
  ASSUME IndInv, NEW u \in Users, Leave(u)
  PROVE  IndInv'
<1>0. PICK k : k = rep[u] OBVIOUS
<1> USE <1>0
<1>1. /\ user[u] = "up" /\ user' = [user EXCEPT ![u] = "idle"]
      /\ agg' = [agg EXCEPT ![k] = Release(@)] /\ rep' = [rep EXCEPT ![u] = 0]
      /\ UNCHANGED <<phase, current, counter, created, procVars, quitVars, made>>
  BY DEF Leave, genVars
<1>2. /\ k \in IDs /\ agg[k] \in Aggregators /\ agg[k].at # "unborn"
      /\ agg \in [IDs -> Aggregators] /\ rep \in [Users -> 0 .. MaxAggs]
      /\ user \in [Users -> {"idle", "starting", "up", "reporting"}]
      /\ created \in Nat /\ MaxAggs \in Nat
  BY <1>1, UserFacts
<1>3. Takes(u, 0) /\ Moves(u, "idle") BY <1>1 DEF Takes, Moves
<1>4. \A i : /\ Cardinality(Holders(i)) \in Nat /\ Cardinality(Holders(i)') \in Nat
             /\ k = i => Cardinality(Holders(i)) >= 1
             /\ 0 # i /\ k = i => Cardinality(Holders(i)') = Cardinality(Holders(i)) - 1
             /\ 0 # i /\ k # i => Cardinality(Holders(i)') = Cardinality(Holders(i))
  BY <1>3, HoldersMoved
<1>5. k # 0 BY <1>2 DEF IDs
<1>6. /\ agg[k].refs = Cardinality(Holders(k)) + (IF current = k THEN 1 ELSE 0)
      /\ agg[k].closed <=> agg[k].refs = 0
  BY <1>2 DEF IndInv, RefsExact
<1>7. agg[k].refs \in Nat \ {0} BY <1>4, <1>6
<1>8. /\ Release(agg[k]) \in Aggregators /\ Release(agg[k]).at = agg[k].at
      /\ Release(agg[k]).refs = agg[k].refs - 1 /\ Release(agg[k]).closed = (agg[k].refs = 1)
  BY <1>2, <1>7, ReleaseFacts
<1>9. agg' \in [IDs -> Aggregators] /\ agg'[k] = Release(agg[k])
      /\ \A i \in IDs : i # k => agg'[i] = agg[i]
  BY <1>1, <1>2, <1>8
<1>10. RefsExact'
  <2>1. ASSUME NEW i \in IDs, agg'[i].at # "unborn"
        PROVE  /\ agg'[i].refs = Cardinality(Holders(i)') + (IF current' = i THEN 1 ELSE 0)
               /\ agg'[i].closed <=> agg'[i].refs = 0
    <3>1. CASE i = k
      <4>1. Cardinality(Holders(k)') = Cardinality(Holders(k)) - 1 BY <1>4, <1>5
      <4>2. agg'[k].refs = agg[k].refs - 1 /\ agg'[k].closed = (agg[k].refs = 1) BY <1>8, <1>9
      <4>3. agg'[k].refs = Cardinality(Holders(k)') + (IF current' = k THEN 1 ELSE 0)
        BY <1>1, <1>4, <1>6, <4>1, <4>2
      <4>4. agg[k].refs = 1 <=> agg'[k].refs = 0 BY <1>7, <4>2
      <4>5. agg'[k].closed <=> agg'[k].refs = 0 BY <4>2, <4>4
      <4> QED BY <3>1, <4>3, <4>5
    <3>2. CASE i # k
      <4>1. Cardinality(Holders(i)') = Cardinality(Holders(i)) /\ agg'[i] = agg[i]
        BY <1>4, <1>9, <3>2 DEF IDs
      <4>2. /\ agg[i].refs = Cardinality(Holders(i)) + (IF current = i THEN 1 ELSE 0)
            /\ agg[i].closed <=> agg[i].refs = 0
        BY <2>1, <4>1 DEF IndInv, RefsExact
      <4>3. agg'[i].refs = Cardinality(Holders(i)') + (IF current' = i THEN 1 ELSE 0)
        BY <1>1, <4>1, <4>2
      <4> QED BY <4>1, <4>2, <4>3
    <3> QED BY <3>1, <3>2
  <2> QED BY <2>1 DEF RefsExact
<1>11. TypeOK'
  <2>1. rep' \in [Users -> 0 .. MaxAggs] BY <1>1, <1>2
  <2>2. user' \in [Users -> {"idle", "starting", "up", "reporting"}] BY <1>1, <1>2
  <2> QED BY <1>1, <1>9, <2>1, <2>2 DEF IndInv, TypeOK, Aggregators, procVars, quitVars
<1>12. Owners'
  <2>1. ASSUME NEW v \in Users
        PROVE  rep'[v] <= created' /\ (rep'[v] # 0 <=> user'[v] \in {"up", "reporting"})
    <3>1. rep[v] <= created /\ (rep[v] # 0 <=> user[v] \in {"up", "reporting"})
      BY DEF IndInv, Owners
    <3> QED BY <1>1, <1>2, <3>1
  <2>2. current' <= created' /\ (counter' # 0 => current' # 0) BY <1>1 DEF IndInv, Owners
  <2>3. \A i \in IDs : agg'[i].at = "unborn" <=> i > created'
    BY <1>1, <1>8, <1>9 DEF IndInv, Owners
  <2> QED BY <2>1, <2>2, <2>3 DEF Owners
<1>13. Quota'
  <2>1. Cardinality(Reporting') = Cardinality(Reporting) /\ Cardinality(Starting') = Cardinality(Starting)
    BY <1>1, <1>3, Counted
  <2> QED BY <1>1, <2>1 DEF IndInv, Quota
<1> QED BY <1>10, <1>11, <1>12, <1>13 DEF IndInv

LEMMA JoinCurrentStep ==
  ASSUME IndInv, NEW u \in Users, JoinCurrent(u)
  PROVE  IndInv'
<1>0. PICK k : k = current OBVIOUS
<1> USE <1>0
<1>1. /\ user[u] = "starting" /\ counter # 0 /\ user' = [user EXCEPT ![u] = "up"]
      /\ agg' = [agg EXCEPT ![k].refs = @ + 1] /\ rep' = [rep EXCEPT ![u] = k]
      /\ counter' = NextSlot
      /\ UNCHANGED <<phase, current, created, procVars, quitVars, made>>
  BY DEF JoinCurrent
<1>2. /\ agg \in [IDs -> Aggregators] /\ rep \in [Users -> 0 .. MaxAggs] /\ rep[u] = 0
      /\ user \in [Users -> {"idle", "starting", "up", "reporting"}]
      /\ created \in 0 .. MaxAggs /\ MaxAggs \in Nat /\ k \in 0 .. MaxAggs /\ MaxReports \in Nat
      /\ made \in 0 .. MaxReports
  BY <1>1, UserFacts
<1>3. k # 0 /\ k <= created BY <1>1 DEF IndInv, Owners
<1>4. k \in IDs /\ agg[k] \in Aggregators /\ agg[k].at # "unborn" BY <1>3, UserFacts
<1>5. Takes(u, k) /\ Moves(u, "up") BY <1>1 DEF Takes, Moves
<1>6. \A i : /\ Cardinality(Holders(i)) \in Nat /\ Cardinality(Holders(i)') \in Nat
             /\ k = i /\ rep[u] # i => Cardinality(Holders(i)') = Cardinality(Holders(i)) + 1
             /\ k # i /\ rep[u] # i => Cardinality(Holders(i)') = Cardinality(Holders(i))
  BY <1>5, HoldersMoved
<1>7. /\ agg[k].refs = Cardinality(Holders(k)) + 1
      /\ agg[k].closed <=> agg[k].refs = 0
  BY <1>4 DEF IndInv, RefsExact
<1>8. agg[k].refs \in Nat \ {0} /\ ~agg[k].closed BY <1>6, <1>7
<1>9. /\ agg' \in [IDs -> Aggregators] /\ agg'[k].refs = agg[k].refs + 1
      /\ agg'[k].at = agg[k].at /\ agg'[k].closed = agg[k].closed
      /\ \A i \in IDs : i # k => agg'[i] = agg[i]
  <2>1. agg[k].refs + 1 \in Nat BY <1>8
  <2> QED BY <1>1, <1>2, <1>4, <2>1 DEF Aggregators
<1>10. RefsExact'
  <2>1. ASSUME NEW i \in IDs, agg'[i].at # "unborn"
        PROVE  /\ agg'[i].refs = Cardinality(Holders(i)') + (IF current' = i THEN 1 ELSE 0)
               /\ agg'[i].closed <=> agg'[i].refs = 0
    <3>1. CASE i = k
      <4>1. Cardinality(Holders(k)') = Cardinality(Holders(k)) + 1 BY <1>2, <1>3, <1>6
      <4>2. agg'[k].refs = Cardinality(Holders(k)') + (IF current' = k THEN 1 ELSE 0)
        BY <1>1, <1>6, <1>7, <1>9, <4>1
      <4>3. ~agg'[k].closed /\ agg'[k].refs # 0 BY <1>8, <1>9
      <4> QED BY <3>1, <4>2, <4>3
    <3>2. CASE i # k
      <4>1. Cardinality(Holders(i)') = Cardinality(Holders(i)) /\ agg'[i] = agg[i]
        BY <1>2, <1>6, <1>9, <3>2 DEF IDs
      <4>2. /\ agg[i].refs = Cardinality(Holders(i)) + (IF current = i THEN 1 ELSE 0)
            /\ agg[i].closed <=> agg[i].refs = 0
        BY <2>1, <4>1 DEF IndInv, RefsExact
      <4>3. agg'[i].refs = Cardinality(Holders(i)') + (IF current' = i THEN 1 ELSE 0)
        BY <1>1, <4>1, <4>2
      <4> QED BY <4>1, <4>2, <4>3
    <3> QED BY <3>1, <3>2
  <2> QED BY <2>1 DEF RefsExact
<1>11. TypeOK'
  <2>1. rep' \in [Users -> 0 .. MaxAggs] BY <1>1, <1>2
  <2>2. user' \in [Users -> {"idle", "starting", "up", "reporting"}] BY <1>1, <1>2
  <2>3. counter' \in 0 .. Share - 1 BY <1>1, NextSlotFacts DEF IndInv
  <2> QED BY <1>1, <1>9, <2>1, <2>2, <2>3 DEF IndInv, TypeOK, Aggregators, procVars, quitVars
<1>12. Owners'
  <2>1. ASSUME NEW v \in Users
        PROVE  rep'[v] <= created' /\ (rep'[v] # 0 <=> user'[v] \in {"up", "reporting"})
    <3>1. rep[v] <= created /\ (rep[v] # 0 <=> user[v] \in {"up", "reporting"})
      BY DEF IndInv, Owners
    <3> QED BY <1>1, <1>2, <1>3, <3>1
  <2>2. current' <= created' /\ (counter' # 0 => current' # 0) BY <1>1, <1>3
  <2>3. \A i \in IDs : agg'[i].at = "unborn" <=> i > created'
    BY <1>1, <1>9 DEF IndInv, Owners
  <2> QED BY <2>1, <2>2, <2>3 DEF Owners
<1>13. Quota'
  <2>1. /\ Cardinality(Starting) \in Nat /\ Cardinality(Starting') \in Nat
        /\ Cardinality(Reporting') = Cardinality(Reporting)
        /\ Cardinality(Starting') = Cardinality(Starting) - 1
    BY <1>1, <1>5, Counted
  <2> QED BY <1>1, <1>2, <2>1 DEF IndInv, Quota
<1> QED BY <1>10, <1>11, <1>12, <1>13 DEF IndInv

LEMMA JoinNewStep ==
  ASSUME IndInv, NEW u \in Users, JoinNew(u)
  PROVE  IndInv'
<1>0. PICK id : id = created + 1 OBVIOUS
<1> USE <1>0
<1> DEFINE new == [Unborn EXCEPT !.refs = Anchored, !.at = "loop"]
<1>1. /\ user[u] = "starting" /\ user' = [user EXCEPT ![u] = "up"]
      /\ agg' = [LetCurrentGo EXCEPT ![id] = new] /\ created' = id /\ current' = id
      /\ rep' = [rep EXCEPT ![u] = id] /\ counter' = NextSlot
      /\ UNCHANGED <<phase, procVars, quitVars, made>>
  BY DEF JoinNew
<1>2. /\ agg \in [IDs -> Aggregators] /\ rep \in [Users -> 0 .. MaxAggs] /\ rep[u] = 0
      /\ user \in [Users -> {"idle", "starting", "up", "reporting"}]
      /\ created \in 0 .. MaxAggs /\ MaxAggs \in Nat /\ current \in 0 .. MaxAggs /\ MaxReports \in Nat
      /\ made \in 0 .. MaxReports
  BY <1>1, UserFacts
<1>3. Takes(u, id) /\ Moves(u, "up") BY <1>1 DEF Takes, Moves
<1>4. Quota' /\ id \in 1 .. MaxAggs
  <2>1. /\ Cardinality(Starting) \in Nat \ {0} /\ Cardinality(Starting') \in Nat
        /\ Cardinality(Reporting') = Cardinality(Reporting)
        /\ Cardinality(Starting') = Cardinality(Starting) - 1
    <3> QED BY <1>1, <1>3, Counted
  <2>2. created + Cardinality(Starting) <= MaxAggs BY DEF IndInv, Quota
  <2> QED BY <1>1, <1>2, <2>1, <2>2 DEF IndInv, Quota
<1>5. id \in IDs BY <1>4 DEF IDs
<1>6. current <= created /\ current # id
  <2>1. current <= created BY DEF IndInv, Owners
  <2> QED BY <1>2, <2>1
<1>7. new \in Aggregators /\ new.refs = 2 /\ new.at = "loop" /\ new.closed = FALSE
  <2>1. Unborn \in Aggregators
    <3>1. 0 \in 0 .. ChanCap BY StatsAssumption
    <3> QED BY <3>1 DEF Unborn, Aggregators
  <2>2. Unborn.closed = FALSE BY DEF Unborn
  <2>3. new = [Unborn EXCEPT !.refs = 2, !.at = "loop"] BY DEF Anchored
  <2> HIDE DEF new
  <2>4. new.refs = 2 /\ new.at = "loop" /\ new.closed = Unborn.closed BY <2>1, <2>3 DEF Aggregators
  <2>5. new \in Aggregators BY <2>1, <2>3 DEF Aggregators
  <2> QED BY <2>2, <2>4, <2>5
<1>8. /\ LetCurrentGo \in [IDs -> Aggregators]
      /\ \A i \in IDs : /\ LetCurrentGo[i].at = agg[i].at
                        /\ agg[i].at # "unborn" =>
                             /\ LetCurrentGo[i].refs = Cardinality(Holders(i))
                             /\ LetCurrentGo[i].closed <=> LetCurrentGo[i].refs = 0
  BY LetGo
<1> HIDE DEF new
<1>9. /\ agg' \in [IDs -> Aggregators] /\ agg'[id] = new
      /\ \A i \in IDs : i # id => agg'[i] = LetCurrentGo[i]
  BY <1>1, <1>5, <1>7, <1>8
<1>10. Holders(id) = {}
  <2>1. ASSUME NEW v \in Users PROVE rep[v] # id
    <3>1. rep[v] <= created /\ rep[v] \in 0 .. MaxAggs BY <1>2 DEF IndInv, Owners
    <3> QED BY <1>2, <3>1
  <2> QED BY <2>1 DEF Holders
<1>11. \A i : /\ Cardinality(Holders(i)) \in Nat /\ Cardinality(Holders(i)') \in Nat
              /\ id = i /\ rep[u] # i => Cardinality(Holders(i)') = Cardinality(Holders(i)) + 1
              /\ id # i /\ rep[u] # i => Cardinality(Holders(i)') = Cardinality(Holders(i))
  <2> QED BY <1>3, HoldersMoved
<1>12. Cardinality(Holders(id)') = 1
  <2>1. Cardinality(Holders(id)) = 0 BY <1>10, FS_EmptySet
  <2>2. rep[u] # id BY <1>2
  <2> QED BY <1>11, <2>1, <2>2
<1>13. RefsExact'
  <2>1. ASSUME NEW i \in IDs, agg'[i].at # "unborn"
        PROVE  /\ agg'[i].refs = Cardinality(Holders(i)') + (IF current' = i THEN 1 ELSE 0)
               /\ agg'[i].closed <=> agg'[i].refs = 0
    <3>1. CASE i = id BY <1>1, <1>7, <1>9, <1>12, <3>1
    <3>2. CASE i # id
      <4>1. Cardinality(Holders(i)') = Cardinality(Holders(i)) /\ Cardinality(Holders(i)) \in Nat
        BY <1>2, <1>11, <3>2 DEF IDs
      <4>2. agg'[i] = LetCurrentGo[i] /\ agg[i].at # "unborn" BY <1>8, <1>9, <2>1, <3>2
      <4>3. agg'[i].refs = Cardinality(Holders(i)) /\ (agg'[i].closed <=> agg'[i].refs = 0)
        BY <1>8, <4>2
      <4>4. agg'[i].refs = Cardinality(Holders(i)') + (IF current' = i THEN 1 ELSE 0)
        BY <1>1, <3>2, <4>1, <4>3
      <4> QED BY <4>3, <4>4
    <3> QED BY <3>1, <3>2
  <2> QED BY <2>1 DEF RefsExact
<1>14. TypeOK'
  <2>1. rep' \in [Users -> 0 .. MaxAggs] BY <1>1, <1>2, <1>4
  <2>2. user' \in [Users -> {"idle", "starting", "up", "reporting"}] BY <1>1, <1>2
  <2>3. counter' \in 0 .. Share - 1 BY <1>1, NextSlotFacts DEF IndInv
  <2>4. created' \in 0 .. MaxAggs /\ current' \in 0 .. MaxAggs BY <1>1, <1>4
  <2> QED BY <1>1, <1>9, <2>1, <2>2, <2>3, <2>4 DEF IndInv, TypeOK, Aggregators, procVars, quitVars
<1>15. Owners'
  <2>1. ASSUME NEW v \in Users
        PROVE  rep'[v] <= created' /\ (rep'[v] # 0 <=> user'[v] \in {"up", "reporting"})
    <3>1. rep[v] <= created /\ (rep[v] # 0 <=> user[v] \in {"up", "reporting"})
      BY DEF IndInv, Owners
    <3>2. rep[v] \in 0 .. MaxAggs BY <1>2
    <3> QED BY <1>1, <1>2, <1>4, <3>1, <3>2
  <2>2. current' <= created' /\ (counter' # 0 => current' # 0) BY <1>1, <1>2
  <2>3. ASSUME NEW i \in IDs PROVE agg'[i].at = "unborn" <=> i > created'
    <3>1. agg[i].at = "unborn" <=> i > created BY DEF IndInv, Owners
    <3>2. i \in 1 .. MaxAggs BY DEF IDs
    <3>3. CASE i = id BY <1>1, <1>2, <1>7, <1>9, <3>2, <3>3
    <3>4. CASE i # id
      <4>1. agg'[i].at = agg[i].at BY <1>8, <1>9, <3>4
      <4>2. i > created <=> i > created' BY <1>1, <1>2, <3>2, <3>4
      <4> QED BY <3>1, <4>1, <4>2
    <3> QED BY <3>3, <3>4
  <2> QED BY <2>1, <2>2, <2>3 DEF Owners
<1> QED BY <1>4, <1>13, <1>14, <1>15 DEF IndInv

-----------------------------------------------------------------------------
LEMMA InitInv == Init => IndInv
<1> SUFFICES ASSUME Init PROVE IndInv OBVIOUS
<1>1. TypeOK
  <2>1. /\ phase = "idle" /\ current = 0 /\ counter = 0 /\ created = 0 /\ wstats = 0
        /\ resetCh = FALSE /\ sent = 0 /\ cleared = 0 /\ proc = TRUE /\ ctxDone = FALSE
        /\ quit = "no" /\ made = 0
    BY DEF Init
  <2>2. user \in [Users -> {"idle", "starting", "up", "reporting"}] /\ rep \in [Users -> 0 .. MaxAggs]
    BY StatsAssumption DEF Init
  <2>3. agg \in [IDs -> Aggregators] BY StatsAssumption DEF Init, Unborn, Aggregators
  <2>4. 0 \in 0 .. MaxAggs /\ 0 \in 0 .. Share - 1 /\ 0 \in 0 .. MaxReports BY StatsAssumption
  <2> QED BY <2>1, <2>2, <2>3, <2>4 DEF TypeOK, Aggregators
<1>2. Owners BY StatsAssumption DEF Init, Owners, IDs, Unborn
<1>3. RefsExact BY DEF Init, RefsExact, Unborn
<1>4. Quota
  <2>1. Starting = {} /\ Reporting = {} BY DEF Init, Starting, Reporting
  <2>2. Cardinality(Starting) = 0 /\ Cardinality(Reporting) = 0 BY <2>1, FS_EmptySet
  <2> QED BY <2>2, StatsAssumption DEF Init, Quota
<1> QED BY <1>1, <1>2, <1>3, <1>4 DEF IndInv

LEMMA Invariance == IndInv /\ [Next]_vars => IndInv'
<1> SUFFICES ASSUME IndInv, [Next]_vars PROVE IndInv' OBVIOUS
<1>1. CASE Next
  BY <1>1, CommandStep, StartStopStep, AggregatorStep, StartUserStep, JoinNewStep, JoinCurrentStep,
     ReportStep, SendReportStep, LeaveStep DEF Next, StopStep
<1>2. CASE UNCHANGED vars
  <2>1. UNCHANGED <<phase, current, counter, user, rep, agg, created, wstats, resetCh, sent, cleared,
                    proc, ctxDone, quit, made>>
    BY <1>2 DEF vars, genVars, userVars, aggVars, procVars, quitVars
  <2>2. TypeOK' BY <2>1 DEF IndInv, TypeOK
  <2>3. Owners' /\ RefsExact' BY <2>1, OwnersKept
  <2>4. Quota' BY <2>1, QuotaKept DEF IndInv
  <2> QED BY <2>2, <2>3, <2>4 DEF IndInv
<1> QED BY <1>1, <1>2

(***************************************************************************)
(* Types, owners, references and bounds hold in every reachable state,     *)
(* whenever tests are started and stopped, and users come and go.          *)
(***************************************************************************)
THEOREM Safety == Spec => []IndInv
BY InitInv, Invariance, PTL DEF Spec

(***************************************************************************)
(* Every variable has its type: above all the channel of an aggregator     *)
(* never holds more than its capacity, nor fewer than no request.          *)
(***************************************************************************)
THEOREM TypeCorrect == Spec => []TypeOK
<1>1. IndInv => TypeOK BY DEF IndInv
<1> QED BY <1>1, Safety, PTL

(***************************************************************************)
(* The references of an aggregator are those of its users and of the load  *)
(* generator, and its channel is closed exactly when none is left          *)
(* (aggregator.go:52-68, generator.go:88-104), for every number of users   *)
(* and every number of them to an aggregator.                              *)
(***************************************************************************)
THEOREM ReferencesExact == Spec => []RefsExact
<1>1. IndInv => RefsExact BY DEF IndInv
<1> QED BY <1>1, Safety, PTL

-----------------------------------------------------------------------------
\* Nothing is in an aggregator that is yet to be created.
Conserved == Conservation /\ \A i \in IDs : agg[i].at = "unborn" => Held[i] = 0

LEMMA HeldNat ==
  ASSUME NEW a \in [IDs -> Aggregators], NEW i \in IDs
  PROVE  a[i].ch + a[i].s \in Nat
<1>1. a[i] \in Aggregators OBVIOUS
<1>2. a[i].ch \in Nat /\ a[i].s \in Nat BY <1>1, StatsAssumption DEF Aggregators
<1> QED BY <1>2

LEMMA HeldFacts ==
  ASSUME TypeOK
  PROVE  /\ IsFiniteSet(IDs) /\ SumFunction(Held) = SumFunctionOnSet(Held, IDs)
         /\ \A i \in IDs : Held[i] \in Nat
         /\ SumFunction(Held) \in Nat /\ made \in Nat /\ wstats \in Nat /\ sent \in Nat /\ cleared \in Nat
<1>1. IsFiniteSet(IDs) BY StatsAssumption, FS_Interval DEF IDs
<1>2. SumFunction(Held) = SumFunctionOnSet(Held, IDs) BY DEF SumFunction, Held
<1>3. agg \in [IDs -> Aggregators] BY TypeParts
<1>4. \A i \in IDs : Held[i] \in Nat BY <1>3, HeldNat DEF Held
<1>5. SumFunctionOnSet(Held, IDs) \in Nat BY <1>1, <1>4, SumType
<1>6. made \in Nat /\ wstats \in Nat /\ sent \in Nat /\ cleared \in Nat BY StatsAssumption DEF TypeOK
<1> QED BY <1>1, <1>2, <1>4, <1>5, <1>6

\* What happens to one aggregator changes the sum by what happens to its part.
LEMMA OneChanges ==
  ASSUME TypeOK, TypeOK', NEW i \in IDs, \A j \in IDs \ {i} : Held'[j] = Held[j]
  PROVE  SumFunction(Held)' = SumFunction(Held) - Held[i] + Held'[i] /\ Held'[i] \in Nat
<1>1. /\ IsFiniteSet(IDs) /\ SumFunction(Held) = SumFunctionOnSet(Held, IDs)
      /\ \A j \in IDs : Held[j] \in Nat
  BY HeldFacts
<1>2. agg' \in [IDs -> Aggregators] BY DEF TypeOK, Aggregators
<1>3. \A j \in IDs : Held'[j] \in Nat BY <1>2, HeldNat DEF Held
<1>4. SumFunction(Held)' = SumFunctionOnSet(Held', IDs) BY DEF SumFunction, Held
<1>5. \A j \in IDs : Held[j] \in Int /\ Held'[j] \in Int BY <1>1, <1>3
<1>6. SumFunctionOnSet(Held', IDs) = SumFunctionOnSet(Held, IDs) - Held[i] + Held'[i]
  BY <1>1, <1>5, SumChange
<1> QED BY <1>1, <1>3, <1>4, <1>6

LEMMA NoneChanges ==
  ASSUME \A j \in IDs : Held'[j] = Held[j]
  PROVE  SumFunction(Held)' = SumFunction(Held)
<1>1. Held = [j \in IDs |-> Held[j]] BY DEF Held
<1>2. Held' = [j \in IDs |-> Held'[j]] BY DEF Held
<1>3. Held' = Held BY <1>1, <1>2
<1> QED BY <1>3

Elsewhere == wstats + sent + cleared

\* A request that is moved between other places, or stays, is not lost.
LEMMA ConservedElsewhere ==
  ASSUME IndInv, IndInv', Conserved, made' = made, Elsewhere' = Elsewhere,
         \A i \in IDs : Held'[i] = Held[i],
         \A i \in IDs : agg'[i].at = "unborn" => agg[i].at = "unborn"
  PROVE  Conserved'
<1>1. SumFunction(Held)' = SumFunction(Held) BY NoneChanges
<1>2. SumFunction(Held) \in Nat /\ wstats \in Nat /\ sent \in Nat /\ cleared \in Nat
  BY HeldFacts DEF IndInv
<1>3. wstats' \in Nat /\ sent' \in Nat /\ cleared' \in Nat BY DEF IndInv, TypeOK
<1>4. wstats' + sent' + cleared' = wstats + sent + cleared BY DEF Elsewhere
<1>5. made' = SumFunction(Held) + wstats + sent + cleared BY DEF Conserved, Conservation
<1>6. made' = SumFunction(Held)' + wstats' + sent' + cleared'
  <2>1. PICK n \in Nat : n = SumFunction(Held) BY <1>2
  <2>2. SumFunction(Held)' = n /\ made' = n + wstats + sent + cleared BY <1>1, <1>5, <2>1
  <2>3. n + wstats' + sent' + cleared' = n + wstats + sent + cleared
    <3>1. n + wstats' + sent' + cleared' = n + (wstats' + sent' + cleared') BY <1>3
    <3>2. n + wstats + sent + cleared = n + (wstats + sent + cleared) BY <1>2
    <3> QED BY <1>4, <3>1, <3>2
  <2> QED BY <2>2, <2>3
<1> QED BY <1>6 DEF Conserved, Conservation

\* A reference that is dropped takes no request along.
LEMMA ReleaseHolds == \A a \in Aggregators : Release(a).ch = a.ch /\ Release(a).s = a.s
BY DEF Release, Aggregators

LEMMA LetGoHolds ==
  ASSUME IndInv, NEW i \in IDs
  PROVE  LetCurrentGo[i].ch = agg[i].ch /\ LetCurrentGo[i].s = agg[i].s
<1>1. agg \in [IDs -> Aggregators] BY TypeParts DEF IndInv
<1>2. CASE current = 0 BY <1>2 DEF LetCurrentGo
<1>3. CASE current # 0
  <2>1. LetCurrentGo[i] = IF i = current THEN Release(agg[i]) ELSE agg[i]
    BY <1>1, <1>3 DEF LetCurrentGo
  <2>2. agg[i] \in Aggregators BY <1>1
  <2> QED BY <2>1, <2>2, ReleaseHolds
<1> QED BY <1>2, <1>3

\* A step at aggregator i, of which the requests that go in or out are accounted for.
LEMMA ConservedAt ==
  ASSUME IndInv, IndInv', Conserved, NEW i \in IDs, \A j \in IDs \ {i} : agg'[j] = agg[j],
         agg'[i].at # "unborn",
         made' - Held'[i] - Elsewhere' = made - Held[i] - Elsewhere
  PROVE  Conserved'
<1>1. \A j \in IDs \ {i} : Held'[j] = Held[j] BY DEF Held
<1>2. TypeOK /\ TypeOK' BY DEF IndInv
<1>3. SumFunction(Held)' = SumFunction(Held) - Held[i] + Held'[i] /\ Held'[i] \in Nat
  BY <1>1, <1>2, OneChanges
<1>4. /\ Held[i] \in Nat /\ SumFunction(Held) \in Nat
      /\ made \in Nat /\ wstats \in Nat /\ sent \in Nat /\ cleared \in Nat
  BY <1>2, HeldFacts
<1>5. made' \in Nat /\ wstats' \in Nat /\ sent' \in Nat /\ cleared' \in Nat
  BY <1>2, StatsAssumption DEF TypeOK
<1>6. made = SumFunction(Held) + wstats + sent + cleared BY DEF Conserved, Conservation
<1>7. made' = SumFunction(Held)' + wstats' + sent' + cleared' BY <1>3, <1>4, <1>5, <1>6 DEF Elsewhere
<1>8. \A j \in IDs : agg'[j].at = "unborn" => Held'[j] = 0 BY <1>1 DEF Conserved
<1> QED BY <1>7, <1>8 DEF Conserved, Conservation
-----------------------------------------------------------------------------
LEMMA ConservedProcess ==
  ASSUME IndInv, IndInv', Conserved,
         Start \/ BeginStop \/ QuitMessage \/ StopStep \/ Tick \/ RequestReset \/ Reset \/ ProcExit
  PROVE  Conserved'
<1>1. wstats \in Nat /\ sent \in Nat /\ cleared \in Nat BY DEF IndInv, TypeOK
<1>2. made' = made
  BY DEF Start, BeginStop, QuitMessage, StopStep, EndStop, LastReport, CancelJoin, Tick, RequestReset,
         Reset, ProcExit
<1>3. Elsewhere' = Elsewhere
  <2>1. CASE SendStats /\ cleared' = cleared BY <1>1, <2>1 DEF SendStats, Elsewhere
  <2>2. CASE cleared' = cleared + wstats /\ wstats' = 0 /\ sent' = sent BY <1>1, <2>2 DEF Elsewhere
  <2>3. CASE UNCHANGED <<wstats, sent, cleared>> BY <2>3 DEF Elsewhere
  <2> QED BY <2>1, <2>2, <2>3
       DEF Start, BeginStop, QuitMessage, StopStep, EndStop, LastReport, CancelJoin, Tick,
           RequestReset, Reset, ProcExit, procVars
<1>4. CASE agg' = agg BY <1>2, <1>3, <1>4, ConservedElsewhere DEF Held
<1>5. CASE agg' = LetCurrentGo
  <2>1. \A i \in IDs : Held'[i] = Held[i] BY <1>5, LetGoHolds DEF Held
  <2>2. \A i \in IDs : agg'[i].at = agg[i].at BY <1>5, LetGo
  <2> QED BY <1>2, <1>3, <2>1, <2>2, ConservedElsewhere
<1> QED BY <1>4, <1>5
     DEF Start, BeginStop, QuitMessage, StopStep, EndStop, LastReport, CancelJoin, Tick, RequestReset,
         Reset, ProcExit, aggVars

LEMMA ConservedAggregators ==
  ASSUME IndInv, IndInv', Conserved, NEW i \in IDs, AggStep(i)
  PROVE  Conserved'
<1>1. /\ agg \in [IDs -> Aggregators] /\ wstats \in Nat /\ sent \in Nat /\ cleared \in Nat
      /\ made \in Nat
  BY TypeParts, HeldFacts DEF IndInv
<1>2. agg[i].ch \in Nat /\ agg[i].s \in Nat
  <2>1. agg[i] \in Aggregators BY <1>1
  <2> QED BY <2>1, StatsAssumption DEF Aggregators
<1>3. made' = made BY DEF AggStep, Collect, Offer, OfferLast, Merge
<1>4. CASE Collect(i) \/ Offer(i) \/ OfferLast(i)
  <2>1. Elsewhere' = Elsewhere BY <1>4 DEF Elsewhere, Collect, Offer, OfferLast, procVars
  <2>2. \A j \in IDs \ {i} : agg'[j] = agg[j] BY <1>1, <1>4 DEF Collect, Offer, OfferLast
  <2>3. agg'[i].ch + agg'[i].s = agg[i].ch + agg[i].s
    <3>1. CASE Collect(i)
      <4>1. agg'[i].ch = agg[i].ch - 1 /\ agg'[i].s = agg[i].s + 1 BY <1>1, <3>1 DEF Collect, Aggregators
      <4> QED BY <1>2, <4>1
    <3>2. CASE Offer(i) \/ OfferLast(i)
      <4>1. agg'[i].ch = agg[i].ch /\ agg'[i].s = agg[i].s
        BY <1>1, <3>2 DEF Offer, OfferLast, Aggregators
      <4> QED BY <4>1
    <3> QED BY <1>4, <3>1, <3>2
  <2>4. \A j \in IDs : Held'[j] = Held[j] BY <2>2, <2>3 DEF Held
  <2>5. agg[i].at # "unborn" /\ agg'[i].at # "unborn"
    BY <1>1, <1>4 DEF Collect, Offer, OfferLast, Aggregators
  <2> QED BY <1>3, <2>1, <2>2, <2>4, <2>5, ConservedElsewhere
<1>5. CASE Merge(i)
  <2>1. \A j \in IDs \ {i} : agg'[j] = agg[j] BY <1>1, <1>5 DEF Merge
  <2>2. agg'[i].ch = agg[i].ch /\ agg'[i].s = 0 /\ agg'[i].at \in {"ended", "loop"}
    BY <1>1, <1>5 DEF Merge, Aggregators
  <2>3. Held'[i] = agg[i].ch + 0 /\ Held[i] = agg[i].ch + agg[i].s BY <2>2 DEF Held
  <2>4. Elsewhere' = wstats + agg[i].s + sent + cleared BY <1>5 DEF Merge, Elsewhere
  <2>5. made' - Held'[i] - Elsewhere' = made - Held[i] - Elsewhere
    BY <1>1, <1>2, <1>3, <2>3, <2>4 DEF Elsewhere
  <2>6. agg'[i].at # "unborn" BY <2>2
  <2> QED BY <2>1, <2>5, <2>6, ConservedAt
<1> QED BY <1>4, <1>5 DEF AggStep

LEMMA ConservedUsers ==
  ASSUME IndInv, IndInv', Conserved, NEW u \in Users,
         StartUser(u) \/ JoinNew(u) \/ JoinCurrent(u) \/ Report(u) \/ SendReport(u) \/ Leave(u)
  PROVE  Conserved'
<1>1. /\ agg \in [IDs -> Aggregators] /\ rep \in [Users -> 0 .. MaxAggs] /\ created \in Nat
      /\ wstats \in Nat /\ sent \in Nat /\ cleared \in Nat /\ made \in Nat
  BY TypeParts, HeldFacts, StatsAssumption DEF IndInv
<1>2. Elsewhere' = Elsewhere
  BY DEF StartUser, JoinNew, JoinCurrent, Report, SendReport, Leave, Elsewhere, procVars
<1>3. CASE StartUser(u) \/ Report(u)
  <2>1. UNCHANGED <<agg, made>> BY <1>3 DEF StartUser, Report, aggVars
  <2> QED BY <1>2, <2>1, ConservedElsewhere DEF Held
<1>4. CASE JoinCurrent(u)
  <2>1. \A j \in IDs : agg'[j].ch = agg[j].ch /\ agg'[j].s = agg[j].s /\ agg'[j].at = agg[j].at
    <3>1. agg' = [agg EXCEPT ![current].refs = @ + 1] BY <1>4 DEF JoinCurrent
    <3> QED BY <1>1, <3>1 DEF Aggregators
  <2>2. made' = made BY <1>4 DEF JoinCurrent
  <2> QED BY <1>2, <2>1, <2>2, ConservedElsewhere DEF Held
<1>5. CASE Leave(u)
  <2>1. \A j \in IDs : agg'[j].ch = agg[j].ch /\ agg'[j].s = agg[j].s
    <3>1. agg' = [agg EXCEPT ![rep[u]] = Release(@)] BY <1>5 DEF Leave
    <3>2. \A j \in IDs : agg'[j] = IF j = rep[u] THEN Release(agg[j]) ELSE agg[j] BY <1>1, <3>1
    <3> QED BY <1>1, <3>2, ReleaseHolds
  <2>2. \A j \in IDs : agg'[j].at = "unborn" => agg[j].at = "unborn"
    <3>1. created' = created BY <1>5 DEF Leave
    <3>2. \A j \in IDs : (agg'[j].at = "unborn" <=> j > created') /\ (agg[j].at = "unborn" <=> j > created)
      BY DEF IndInv, Owners
    <3> QED BY <3>1, <3>2
  <2>3. made' = made BY <1>5 DEF Leave
  <2> QED BY <1>2, <2>1, <2>2, <2>3, ConservedElsewhere DEF Held
<1>6. CASE JoinNew(u)
  <2> DEFINE id == created + 1
             new == [Unborn EXCEPT !.refs = Anchored, !.at = "loop"]
  <2>1. agg' = [LetCurrentGo EXCEPT ![id] = new] /\ made' = made BY <1>6 DEF JoinNew
  <2>2. LetCurrentGo \in [IDs -> Aggregators] BY LetGo
  <2>3. \A j \in IDs : agg'[j] = IF j = id THEN new ELSE LetCurrentGo[j] BY <2>1, <2>2
  <2>4. \A j \in IDs : Held'[j] = Held[j]
    <3> SUFFICES ASSUME NEW j \in IDs PROVE Held'[j] = Held[j] OBVIOUS
    <3>1. CASE j = id
      <4>1. agg[j].at = "unborn" BY <1>1, <3>1 DEF IndInv, Owners
      <4>2. Held[j] = 0 BY <4>1 DEF Conserved
      <4>3. new.ch = 0 /\ new.s = 0 BY DEF Unborn
      <4>4. Held'[j] = 0 + 0 BY <2>3, <3>1, <4>3 DEF Held
      <4> QED BY <4>2, <4>4
    <3>2. CASE j # id BY <2>3, <3>2, LetGoHolds DEF Held
    <3> QED BY <3>1, <3>2
  <2>5. \A j \in IDs : agg'[j].at = "unborn" => agg[j].at = "unborn"
    <3>1. new.at = "loop" BY DEF Unborn
    <3>2. \A j \in IDs : LetCurrentGo[j].at = agg[j].at BY LetGo
    <3> QED BY <2>3, <3>1, <3>2
  <2> QED BY <1>2, <2>1, <2>4, <2>5, ConservedElsewhere
<1>7. CASE SendReport(u)
  <2>1. rep[u] \in IDs /\ agg[rep[u]].at # "unborn"
    <3>1. user[u] = "reporting" BY <1>7 DEF SendReport
    <3>2. rep[u] # 0 /\ rep[u] <= created BY <3>1 DEF IndInv, Owners
    <3>3. rep[u] \in IDs BY <1>1, <3>2, StatsAssumption DEF IDs
    <3>4. ~(rep[u] > created) BY <1>1, <3>2, <3>3
    <3> QED BY <3>3, <3>4 DEF IndInv, Owners
  <2> DEFINE i == rep[u]
  <2>2. agg' = [agg EXCEPT ![i].ch = @ + 1] /\ made' = made + 1 BY <1>7 DEF SendReport
  <2>3. \A j \in IDs \ {i} : agg'[j] = agg[j] BY <1>1, <2>2
  <2>4. agg'[i].ch = agg[i].ch + 1 /\ agg'[i].s = agg[i].s /\ agg'[i].at = agg[i].at
    BY <1>1, <2>1, <2>2 DEF Aggregators
  <2>5. agg[i].ch \in Nat /\ agg[i].s \in Nat
    <3>1. agg[i] \in Aggregators BY <1>1, <2>1
    <3> QED BY <3>1, StatsAssumption DEF Aggregators
  <2>6. Held[i] = agg[i].ch + agg[i].s /\ Held'[i] = agg[i].ch + 1 + agg[i].s
    BY <2>1, <2>4 DEF Held
  <2>7. Elsewhere \in Nat BY <1>1 DEF Elsewhere
  <2>8. made' - Held'[i] - Elsewhere' = made - Held[i] - Elsewhere
    BY <1>1, <1>2, <2>2, <2>5, <2>6, <2>7
  <2>9. agg'[i].at # "unborn" BY <2>1, <2>4
  <2> HIDE DEF i
  <2> QED BY <2>1, <2>3, <2>8, <2>9, ConservedAt DEF i
<1> QED BY <1>3, <1>4, <1>5, <1>6, <1>7

LEMMA InitConserved == Init => Conserved
<1> SUFFICES ASSUME Init PROVE Conserved OBVIOUS
<1>1. \A i \in IDs : Held[i] = 0 BY DEF Init, Held, Unborn
<1>2. IsFiniteSet(IDs) /\ SumFunction(Held) = SumFunctionOnSet(Held, IDs)
  BY InitInv, HeldFacts DEF IndInv
<1>3. SumFunctionOnSet(Held, IDs) = SumFunctionOnSet(Held, {})
  <2>1. \A i \in IDs : Held[i] \in Int BY <1>1
  <2>2. \A i \in IDs \ {} : Held[i] = 0 BY <1>1
  <2> QED BY <1>2, <2>1, <2>2, SumSupport
<1>4. SumFunctionOnSet(Held, {}) = 0 BY FS_EmptySet, SumStep
<1>5. Conservation BY <1>2, <1>3, <1>4 DEF Init, Conservation
<1> QED BY <1>1, <1>5 DEF Conserved

LEMMA ConservedStep == IndInv /\ IndInv' /\ Conserved /\ [Next]_vars => Conserved'
<1> SUFFICES ASSUME IndInv, IndInv', Conserved, [Next]_vars PROVE Conserved' OBVIOUS
<1>1. CASE Next BY <1>1, ConservedProcess, ConservedAggregators, ConservedUsers DEF Next
<1>2. CASE UNCHANGED vars
  <2>1. UNCHANGED <<agg, made, wstats, sent, cleared>> BY <1>2 DEF vars, aggVars, procVars
  <2> QED BY <2>1, ConservedElsewhere DEF Held, Elsewhere
<1> QED BY <1>1, <1>2

(***************************************************************************)
(* Every request a user got rid of is in exactly one place: a channel, an  *)
(* aggregator, Worker.stats, the master, or a reset (aggregator.go:58-95,  *)
(* worker.go:686-706, 747-757), whatever is started, stopped, merged and   *)
(* quit, in whatever order.                                                *)
(***************************************************************************)
THEOREM NothingLost == Spec => []Conservation
<1>1. Conserved => Conservation BY DEF Conserved
<1> QED BY <1>1, Safety, InitConserved, ConservedStep, PTL DEF Spec
=============================================================================
