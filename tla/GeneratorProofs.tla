--------------------------- MODULE GeneratorProofs ---------------------------
(***************************************************************************)
(* Proofs about the load generator, for every number of classes, users and *)
(* goroutines that stop it, and for every bound.                           *)
(***************************************************************************)
EXTENDS GeneratorProps, FiniteSetTheorems, SequenceTheorems, TLAPS

-----------------------------------------------------------------------------
(***************************************************************************)
(* The inductive invariant.                                                *)
(***************************************************************************)
Counts == tests <= calls /\ ends <= calls /\ StoppedOnce

\* A user refers to an aggregator only from its start to its end, only to one that was
\* created, and while an aggregator takes users it is the current one.
Owners ==
  /\ \A u \in Users : rep[u] <= created /\ (user[u] = "none" => rep[u] = 0)
  /\ current <= created /\ (counter # 0 => current # 0)

\* The users that are started fit into the bound.
Quota == created + Cardinality(Starting) <= MaxAggs

\* Who clears a class waits next.
JobOK(s) ==
  /\ s \in Seq(Labels)
  /\ \A i \in 1 .. Len(s) : s[i] = "clear" => i < Len(s) /\ s[i + 1] = "wait"

\* What is left of the job of a Stop.
StopPart(s) ==
  /\ s \in Seq(Labels) /\ Len(s) <= 3
  /\ Len(s) = 3 => s[1] = "manager" /\ s[2] = "clear" /\ s[3] = "wait"
  /\ Len(s) = 2 => s[1] = "clear" /\ s[2] = "wait"
  /\ Len(s) = 1 => s[1] = "wait"

Jobs ==
  \A p \in Procs, c \in Classes :
    /\ JobOK(job[p][c]) /\ (At(p, "stopClasses") => StopPart(job[p][c]))
    /\ job[p][c] # <<>> => pc[p] \in {"classes", "cap", "stopClasses"}
    /\ waiting[p][c] # {} => job[p][c] # <<>> /\ Head(job[p][c]) = "wait"

Undisturbed ==
  \A p \in Procs : alone[p] /\ ~At(p, "idle") => \A q \in Procs \ {p} : At(q, "idle")

\* What a Stop that is alone has done already stays done.
Clean(p) ==
  /\ At(p, "stopClasses") => \A c \in Classes :
       /\ Len(job[p][c]) < 3 => pool[c] = "none"
       /\ Len(job[p][c]) = 1 => Live(c) \subseteq waiting[p][c]
       /\ Len(job[p][c]) = 0 => Live(c) = {}
  /\ At(p, "stopHandlers") => current = 0 /\ \A c \in Classes : pool[c] = "none" /\ Live(c) = {}
Cleaning == \A p \in Procs : alone[p] => Clean(p)

IndInv ==
  /\ TypeOK /\ Counts /\ Owners /\ ReferencesShared /\ Quota
  /\ Jobs /\ Undisturbed /\ Cleaning

-----------------------------------------------------------------------------
\* The types, by what the actions change together.
CallTypes ==
  /\ pc \in [Procs -> Places] /\ job \in [Procs -> [Classes -> Seq(Labels)]]
  /\ want \in 0 .. MaxCount /\ calls \in 0 .. MaxCalls /\ alone \in [Procs -> BOOLEAN]
TestTypes ==
  /\ started \in BOOLEAN /\ cancelStart \in BOOLEAN /\ startCtx \in BOOLEAN
  /\ cutIn \in InStart \cup {"no"} /\ tests \in 0 .. MaxCalls /\ ends \in 0 .. MaxCalls
PoolTypes ==
  /\ target \in [Classes -> 0 .. MaxCount] /\ limit \in [Classes -> 0 .. MaxCount]
  /\ pool \in [Classes -> {"none", "migrating", "open"}]
UserTypes ==
  /\ user \in [Users -> Classes \cup {"none"}] /\ canceled \in SUBSET Users
  /\ waiting \in [Procs -> [Classes -> SUBSET Users]]
Aggregators == [refs : Nat, closed : BOOLEAN]
AggTypes ==
  /\ rep \in [Users -> 0 .. MaxAggs] /\ current \in 0 .. MaxAggs /\ counter \in 0 .. Share - 1
  /\ agg \in [IDs -> Aggregators] /\ created \in 0 .. MaxAggs

LEMMA TypeParts == TypeOK <=> CallTypes /\ TestTypes /\ PoolTypes /\ UserTypes /\ AggTypes
BY DEF TypeOK, CallTypes, TestTypes, PoolTypes, UserTypes, AggTypes, Aggregators

-----------------------------------------------------------------------------
(***************************************************************************)
(* The jobs.                                                               *)
(***************************************************************************)
LEMMA Rest ==
  ASSUME NEW s, JobOK(s), s # <<>>
  PROVE  /\ Tail(s) \in Seq(Labels) /\ <<>> \o Tail(s) = Tail(s) /\ JobOK(Tail(s))
         /\ Len(s) \in Nat \ {0} /\ Len(Tail(s)) = Len(s) - 1 /\ Head(s) = s[1]
         /\ \A i \in 1 .. Len(s) - 1 : Tail(s)[i] = s[i + 1]
         /\ Head(s) = "clear" => Tail(s) # <<>> /\ Head(Tail(s)) = "wait"
<1>1. s \in Seq(Labels) BY DEF JobOK
<1> DEFINE t == Tail(s)
<1>2. /\ t \in Seq(Labels) /\ Len(t) = Len(s) - 1 /\ Len(s) \in Nat \ {0} /\ Head(s) = s[1]
      /\ \A i \in 1 .. Len(s) - 1 : t[i] = s[i + 1]
  BY <1>1
<1> HIDE DEF t
<1>3. <<>> \o t = t BY <1>2, ConcatEmptySeq
<1>4. JobOK(t)
  <2>1. ASSUME NEW i \in 1 .. Len(t), t[i] = "clear" PROVE i < Len(t) /\ t[i + 1] = "wait"
    <3>1. s[i + 1] = "clear" /\ i + 1 \in 1 .. Len(s) BY <1>2, <2>1
    <3>2. i + 1 < Len(s) /\ s[i + 2] = "wait"
      <4> DEFINE k == i + 1
      <4>1. k \in 1 .. Len(s) /\ s[k] = "clear" BY <3>1
      <4> HIDE DEF k
      <4>2. k < Len(s) /\ s[k + 1] = "wait" BY <4>1 DEF JobOK
      <4> QED BY <1>2, <4>2 DEF k
    <3>3. i + 1 \in 1 .. Len(s) - 1 BY <1>2, <3>2
    <3>4. t[i + 1] = s[i + 2]
      <4> DEFINE k == i + 1
      <4>1. t[k] = s[k + 1] BY <1>2, <3>3
      <4> QED BY <1>2, <4>1
    <3> QED BY <1>2, <3>2, <3>4
  <2> QED BY <1>2, <2>1 DEF JobOK
<1>5. Head(s) = "clear" => t # <<>> /\ Head(t) = "wait"
  <2> SUFFICES ASSUME Head(s) = "clear" PROVE t # <<>> /\ Head(t) = "wait" OBVIOUS
  <2>1. 1 \in 1 .. Len(s) /\ s[1] = "clear" BY <1>2
  <2>2. 1 < Len(s) /\ s[2] = "wait" BY <2>1 DEF JobOK
  <2>3. t[1] = "wait" /\ Len(t) # 0 BY <1>2, <2>2
  <2> QED BY <1>2, <2>3
<1> QED BY <1>2, <1>3, <1>4, <1>5 DEF t

\* A step that is replaced by another one, which is not the clearing of a class.
LEMMA Instead ==
  ASSUME NEW s, JobOK(s), s # <<>>, NEW x \in Labels, x # "clear"
  PROVE  JobOK(<<x>> \o Tail(s))
<1> DEFINE t == Tail(s)
           r == <<x>> \o t
<1>1. t \in Seq(Labels) /\ JobOK(t) BY Rest
<1>2. <<x>> \in Seq(Labels) /\ Len(<<x>>) = 1 /\ <<x>>[1] = x OBVIOUS
<1> HIDE DEF t
<1>3. /\ r \in Seq(Labels) /\ Len(r) = 1 + Len(t) /\ Len(t) \in Nat
      /\ \A i \in 1 .. 1 + Len(t) : r[i] = IF i <= 1 THEN <<x>>[i] ELSE t[i - 1]
  BY <1>1, <1>2, ConcatProperties
<1> HIDE DEF r
<1>4. ASSUME NEW i \in 1 .. Len(r), r[i] = "clear" PROVE i < Len(r) /\ r[i + 1] = "wait"
  <2>1. i # 1 BY <1>2, <1>3, <1>4
  <2> DEFINE k == i - 1
  <2>2. k \in 1 .. Len(t) /\ t[k] = "clear" BY <1>3, <1>4, <2>1
  <2> HIDE DEF k
  <2>3. k < Len(t) /\ t[k + 1] = "wait" BY <1>1, <2>2 DEF JobOK
  <2>4. i = k + 1 BY DEF k
  <2>5. i + 1 \in 1 .. 1 + Len(t) /\ (i + 1) - 1 = k + 1 /\ ~(i + 1 <= 1) BY <1>3, <2>2, <2>3, <2>4
  <2>6. r[i + 1] = t[(i + 1) - 1] BY <1>3, <2>5
  <2> QED BY <1>3, <2>2, <2>3, <2>4, <2>5, <2>6
<1>5. JobOK(r) BY <1>3, <1>4 DEF JobOK
<1> QED BY <1>5 DEF r, t

LEMMA StopRest ==
  ASSUME NEW s, JobOK(s), StopPart(s), s # <<>>
  PROVE  /\ StopPart(Tail(s)) /\ Len(Tail(s)) = Len(s) - 1 /\ Len(s) \in 1 .. 3
         /\ Head(s) = "manager" <=> Len(s) = 3
         /\ Head(s) = "clear" <=> Len(s) = 2
         /\ Head(s) = "wait" <=> Len(s) = 1
         /\ Head(s) \in {"manager", "clear", "wait"}
<1> DEFINE t == Tail(s)
           h == Head(s)
<1>1. /\ t \in Seq(Labels) /\ Len(s) \in Nat \ {0} /\ Len(t) = Len(s) - 1 /\ h = s[1]
      /\ \A i \in 1 .. Len(s) - 1 : t[i] = s[i + 1]
  BY Rest
<1> HIDE DEF t, h
<1>2. Len(s) \in {1, 2, 3} BY <1>1 DEF StopPart
<1>3. CASE Len(s) = 3
  <2>1. s[1] = "manager" /\ s[2] = "clear" /\ s[3] = "wait" BY <1>3 DEF StopPart
  <2>2. t[1] = "clear" /\ t[2] = "wait" BY <1>1, <1>3, <2>1
  <2>3. StopPart(t) BY <1>1, <1>3, <2>2 DEF StopPart
  <2> QED BY <1>1, <1>3, <2>1, <2>3 DEF t, h
<1>4. CASE Len(s) = 2
  <2>1. s[1] = "clear" /\ s[2] = "wait" BY <1>4 DEF StopPart
  <2>2. t[1] = "wait" BY <1>1, <1>4, <2>1
  <2>3. StopPart(t) BY <1>1, <1>4, <2>2 DEF StopPart
  <2> QED BY <1>1, <1>4, <2>1, <2>3 DEF t, h
<1>5. CASE Len(s) = 1
  <2>1. s[1] = "wait" BY <1>5 DEF StopPart
  <2>3. StopPart(t) BY <1>1, <1>5 DEF StopPart
  <2> QED BY <1>1, <1>5, <2>1, <2>3 DEF t, h
<1> QED BY <1>2, <1>3, <1>4, <1>5

\* The jobs that calls begin with.
LEMMA NewJobs ==
  /\ JobOK(<<>>) /\ JobOK(<<"swap">>) /\ JobOK(StartJob) /\ JobOK(<<"swap", "clear", "wait">>)
  /\ JobOK(StopJob) /\ StopPart(StopJob) /\ Len(StopJob) = 3
<1>1. JobOK(<<>>) BY DEF JobOK
<1>2. JobOK(<<"swap">>) BY DEF JobOK, Labels
<1>3. JobOK(<<"swap", "launch">>) BY DEF JobOK, Labels
<1>4. JobOK(<<"swap", "clear", "wait">>) BY DEF JobOK, Labels
<1>5. JobOK(<<"manager", "clear", "wait">>) BY DEF JobOK, Labels
<1>6. StopPart(<<"manager", "clear", "wait">>) BY DEF StopPart, Labels
<1> QED BY <1>1, <1>2, <1>3, <1>4, <1>5, <1>6 DEF StartJob, StopJob

-----------------------------------------------------------------------------
(***************************************************************************)
(* Counting users.                                                         *)
(***************************************************************************)
Where(f, x) == {v \in Users : f[v] = x}
OnlyAt(u, f, g) == \A v \in Users \ {u} : g[v] = f[v]

\* One user moves from f[u] to g[u]: the set of users at x gains or loses it.
LEMMA Moved ==
  ASSUME NEW f, NEW g, NEW u \in Users, OnlyAt(u, f, g), NEW x
  PROVE  /\ Cardinality(Where(f, x)) \in Nat /\ Cardinality(Where(g, x)) \in Nat
         /\ f[u] = x => Cardinality(Where(f, x)) >= 1
         /\ g[u] = x /\ f[u] = x => Cardinality(Where(g, x)) = Cardinality(Where(f, x))
         /\ g[u] = x /\ f[u] # x => Cardinality(Where(g, x)) = Cardinality(Where(f, x)) + 1
         /\ g[u] # x /\ f[u] = x => Cardinality(Where(g, x)) = Cardinality(Where(f, x)) - 1
         /\ g[u] # x /\ f[u] # x => Cardinality(Where(g, x)) = Cardinality(Where(f, x))
<1> DEFINE F == Where(f, x)
           G == Where(g, x)
<1>1. IsFiniteSet(F) /\ IsFiniteSet(G)
  <2>1. IsFiniteSet(Users) BY GeneratorAssumption
  <2>2. F \in SUBSET Users /\ G \in SUBSET Users BY DEF Where
  <2> HIDE DEF F, G
  <2> QED BY <2>1, <2>2, FS_Subset
<1>2. u \in F <=> f[u] = x BY DEF Where
<1>3. g[u] = x => G = F \cup {u} BY DEF Where, OnlyAt
<1>4. g[u] # x => G = F \ {u} BY DEF Where, OnlyAt
<1> HIDE DEF F, G
<1>5. Cardinality(F) \in Nat /\ Cardinality(G) \in Nat BY <1>1, FS_CardinalityType
<1>6. Cardinality(F \cup {u}) = IF u \in F THEN Cardinality(F) ELSE Cardinality(F) + 1
  BY <1>1, FS_AddElement
<1>7. Cardinality(F \ {u}) = IF u \in F THEN Cardinality(F) - 1 ELSE Cardinality(F)
  BY <1>1, FS_RemoveElement
<1>8. u \in F => Cardinality(F) >= 1
  <2>1. Cardinality(F) = 0 <=> F = {} BY <1>1, FS_EmptySet
  <2> QED BY <1>5, <2>1
<1>9. /\ f[u] = x => Cardinality(F) >= 1
      /\ g[u] = x /\ f[u] = x => Cardinality(G) = Cardinality(F)
      /\ g[u] = x /\ f[u] # x => Cardinality(G) = Cardinality(F) + 1
      /\ g[u] # x /\ f[u] = x => Cardinality(G) = Cardinality(F) - 1
      /\ g[u] # x /\ f[u] # x => Cardinality(G) = Cardinality(F)
  BY <1>2, <1>3, <1>4, <1>6, <1>7, <1>8
<1> QED BY <1>5, <1>9 DEF F, G

LEMMA HolderCount == \A i : Cardinality(Holders(i)) \in Nat
<1> TAKE i
<1>1. IsFiniteSet(Users) BY GeneratorAssumption
<1>2. Holders(i) \in SUBSET Users BY DEF Holders
<1>3. IsFiniteSet(Holders(i)) BY <1>1, <1>2, FS_Subset
<1> QED BY <1>3, FS_CardinalityType

\* The holders of the aggregators when one user takes or drops one.
Takes(u, k) == rep' = [rep EXCEPT ![u] = k]

LEMMA HoldersMoved ==
  ASSUME AggTypes, NEW u \in Users, NEW k, Takes(u, k), NEW i
  PROVE  /\ Cardinality(Holders(i)) \in Nat /\ Cardinality(Holders(i)') \in Nat
         /\ rep[u] = i => Cardinality(Holders(i)) >= 1
         /\ k # i /\ rep[u] = i => Cardinality(Holders(i)') = Cardinality(Holders(i)) - 1
         /\ k = i /\ rep[u] # i => Cardinality(Holders(i)') = Cardinality(Holders(i)) + 1
         /\ k # i /\ rep[u] # i => Cardinality(Holders(i)') = Cardinality(Holders(i))
<1> DEFINE f == rep
           g == rep'
<1>1. g[u] = k /\ OnlyAt(u, f, g) BY DEF Takes, OnlyAt, AggTypes
<1>2. Holders(i) = Where(f, i) /\ Holders(i)' = Where(g, i) BY DEF Holders, Where
<1> HIDE DEF f, g
<1>3. /\ Cardinality(Where(f, i)) \in Nat /\ Cardinality(Where(g, i)) \in Nat
      /\ f[u] = i => Cardinality(Where(f, i)) >= 1
      /\ k # i /\ f[u] = i => Cardinality(Where(g, i)) = Cardinality(Where(f, i)) - 1
      /\ k = i /\ f[u] # i => Cardinality(Where(g, i)) = Cardinality(Where(f, i)) + 1
      /\ k # i /\ f[u] # i => Cardinality(Where(g, i)) = Cardinality(Where(f, i))
  BY <1>1, Moved
<1> QED BY <1>2, <1>3 DEF f

\* The users that are starting when one user goes to a class or to an aggregator.
LEMMA StartingMoved ==
  ASSUME NEW u \in Users, OnlyAt(u, user, user'), OnlyAt(u, rep, rep')
  PROVE  /\ Cardinality(Starting) \in Nat /\ Cardinality(Starting') \in Nat
         /\ u \in Starting => Cardinality(Starting) >= 1
         /\ u \notin Starting' /\ u \in Starting => Cardinality(Starting') = Cardinality(Starting) - 1
         /\ u \in Starting' /\ u \notin Starting => Cardinality(Starting') = Cardinality(Starting) + 1
         /\ u \notin Starting' /\ u \notin Starting => Cardinality(Starting') = Cardinality(Starting)
<1> DEFINE f == [v \in Users |-> IF v \in Starting THEN 1 ELSE 0]
           g == [v \in Users |-> IF v \in Starting' THEN 1 ELSE 0]
<1>1. /\ f[u] = IF u \in Starting THEN 1 ELSE 0
      /\ g[u] = IF u \in Starting' THEN 1 ELSE 0
  OBVIOUS
<1>2. ASSUME NEW v \in Users, v # u PROVE v \in Starting' <=> v \in Starting
  BY <1>2 DEF Starting, OnlyAt
<1>3. OnlyAt(u, f, g) BY <1>2 DEF OnlyAt
<1>4. Starting = Where(f, 1)
  <2>1. Starting \subseteq Users BY DEF Starting
  <2> QED BY <2>1 DEF Where
<1>5. Starting' = Where(g, 1)
  <2>1. Starting' \subseteq Users BY DEF Starting
  <2> QED BY <2>1 DEF Where
<1> HIDE DEF f, g
<1>6. /\ Cardinality(Where(f, 1)) \in Nat /\ Cardinality(Where(g, 1)) \in Nat
      /\ f[u] = 1 => Cardinality(Where(f, 1)) >= 1
      /\ g[u] = 1 /\ f[u] # 1 => Cardinality(Where(g, 1)) = Cardinality(Where(f, 1)) + 1
      /\ g[u] # 1 /\ f[u] = 1 => Cardinality(Where(g, 1)) = Cardinality(Where(f, 1)) - 1
      /\ g[u] # 1 /\ f[u] # 1 => Cardinality(Where(g, 1)) = Cardinality(Where(f, 1))
  BY <1>3, Moved
<1> QED BY <1>1, <1>4, <1>5, <1>6

-----------------------------------------------------------------------------
(***************************************************************************)
(* The references.                                                         *)
(***************************************************************************)
AggOK == AggTypes /\ user \in [Users -> Classes \cup {"none"}] /\ Owners /\ ReferencesShared /\ Quota

LEMMA NextSlotFacts == AggTypes => NextSlot \in 0 .. Share - 1
<1> SUFFICES ASSUME AggTypes PROVE NextSlot \in 0 .. Share - 1 OBVIOUS
<1>1. Share \in Nat \ {0} /\ counter \in 0 .. Share - 1 BY GeneratorAssumption DEF AggTypes
<1>2. CASE counter + 1 < Share
  <2>1. (counter + 1) % Share = counter + 1 BY <1>1, <1>2, SMT
  <2> QED BY <1>1, <1>2, <2>1 DEF NextSlot
<1>3. CASE counter + 1 >= Share
  <2>1. counter + 1 = Share BY <1>1, <1>3
  <2>2. Share % Share = 0 BY <1>1, SMT
  <2> QED BY <1>1, <2>1, <2>2 DEF NextSlot
<1> QED BY <1>1, <1>2, <1>3

LEMMA ReleaseFacts ==
  ASSUME NEW a \in Aggregators, a.refs # 0
  PROVE  /\ Release(a) \in Aggregators
         /\ Release(a).refs = a.refs - 1 /\ Release(a).closed = (a.refs = 1)
         /\ Release(a).closed <=> Release(a).refs = 0
<1>1. a.refs \in Nat \ {0} /\ a.refs - 1 \in Nat /\ (a.refs = 1) \in BOOLEAN BY DEF Aggregators
<1>2. Release(a).refs = a.refs - 1 /\ Release(a).closed = (a.refs = 1) BY DEF Release
<1>3. Release(a) \in Aggregators BY <1>1 DEF Release, Aggregators
<1>4. a.refs = 1 <=> a.refs - 1 = 0 BY <1>1
<1> QED BY <1>2, <1>3, <1>4

\* What is true of an aggregator that users or the generator refer to.
LEMMA Referred ==
  ASSUME AggOK, NEW k \in 0 .. created, k # 0
  PROVE  /\ k \in IDs /\ k \in 1 .. created /\ agg[k] \in Aggregators
         /\ agg[k].refs = Cardinality(Holders(k)) + (IF current = k THEN 1 ELSE 0)
         /\ agg[k].closed <=> agg[k].refs = 0
<1>1. created \in 0 .. MaxAggs /\ MaxAggs \in Nat /\ agg \in [IDs -> Aggregators]
  BY GeneratorAssumption DEF AggOK, AggTypes
<1>2. k \in 1 .. created /\ k \in IDs BY <1>1 DEF IDs
<1> QED BY <1>1, <1>2 DEF AggOK, ReferencesShared

\* When the generator lets the current aggregator go, the references of the users remain.
LEMMA LetGo ==
  ASSUME AggOK
  PROVE  /\ LetCurrentGo \in [IDs -> Aggregators]
         /\ \A i \in 1 .. created :
              /\ LetCurrentGo[i].refs = Cardinality(Holders(i))
              /\ LetCurrentGo[i].closed <=> LetCurrentGo[i].refs = 0
<1>1. /\ agg \in [IDs -> Aggregators] /\ current \in 0 .. MaxAggs /\ MaxAggs \in Nat
      /\ created \in 0 .. MaxAggs /\ current <= created
  BY GeneratorAssumption DEF AggOK, AggTypes, Owners
<1>2. ASSUME NEW i \in 1 .. created, i # current
      PROVE  agg[i].refs = Cardinality(Holders(i)) /\ (agg[i].closed <=> agg[i].refs = 0)
  <2>1. agg[i].refs = Cardinality(Holders(i)) + 0 /\ (agg[i].closed <=> agg[i].refs = 0)
    BY <1>2 DEF AggOK, ReferencesShared
  <2> QED BY <2>1, HolderCount
<1>3. CASE current = 0
  <2>1. LetCurrentGo = agg BY <1>3 DEF LetCurrentGo
  <2>2. \A i \in 1 .. created : i # current BY <1>3
  <2> QED BY <1>1, <1>2, <2>1, <2>2
<1>4. CASE current # 0
  <2>1. current \in 0 .. created BY <1>1
  <2>2. /\ current \in IDs /\ current \in 1 .. created /\ agg[current] \in Aggregators
        /\ agg[current].refs = Cardinality(Holders(current)) + (IF current = current THEN 1 ELSE 0)
    BY <1>4, <2>1, Referred
  <2>3. /\ Cardinality(Holders(current)) \in Nat
        /\ agg[current].refs = Cardinality(Holders(current)) + 1 /\ agg[current].refs # 0
    BY <2>2, HolderCount
  <2>4. LetCurrentGo = [agg EXCEPT ![current] = Release(@)] BY <1>4 DEF LetCurrentGo
  <2>5. /\ Release(agg[current]) \in Aggregators
        /\ Release(agg[current]).refs = agg[current].refs - 1
        /\ Release(agg[current]).closed <=> Release(agg[current]).refs = 0
    BY <2>2, <2>3, ReleaseFacts
  <2>6. /\ LetCurrentGo \in [IDs -> Aggregators] /\ LetCurrentGo[current] = Release(agg[current])
        /\ \A i \in IDs : i # current => LetCurrentGo[i] = agg[i]
    BY <1>1, <2>2, <2>4, <2>5
  <2>7. LetCurrentGo[current].refs = Cardinality(Holders(current)) BY <2>3, <2>5, <2>6
  <2>8. \A i \in 1 .. created : i \in IDs BY <1>1 DEF IDs
  <2> QED BY <1>2, <2>5, <2>6, <2>7, <2>8
<1> QED BY <1>3, <1>4

LEMMA AggKept == AggOK /\ UNCHANGED <<user, aggVars>> => AggOK'
<1> SUFFICES ASSUME AggOK, UNCHANGED <<user, rep, current, counter, agg, created>> PROVE AggOK'
  BY DEF aggVars
<1>1. \A i : Holders(i)' = Holders(i) BY DEF Holders
<1>2. ReferencesShared' BY <1>1 DEF AggOK, ReferencesShared
<1>3. Quota' BY DEF AggOK, Quota, Starting
<1> QED BY <1>2, <1>3 DEF AggOK, AggTypes, Owners

LEMMA DropKeeps == AggOK /\ Drop /\ UNCHANGED user => AggOK'
<1> SUFFICES ASSUME AggOK, Drop, UNCHANGED user PROVE AggOK' OBVIOUS
<1>1. agg' = LetCurrentGo /\ current' = 0 /\ counter' = 0 /\ UNCHANGED <<rep, created, user>>
  BY DEF Drop
<1>2. /\ agg' \in [IDs -> Aggregators]
      /\ \A i \in 1 .. created : /\ agg'[i].refs = Cardinality(Holders(i))
                                 /\ agg'[i].closed <=> agg'[i].refs = 0
  BY <1>1, LetGo
<1>3. AggTypes'
  <2>1. 0 \in 0 .. MaxAggs /\ 0 \in 0 .. Share - 1 BY GeneratorAssumption
  <2> QED BY <1>1, <1>2, <2>1 DEF AggOK, AggTypes
<1>4. ReferencesShared'
  <2>1. ASSUME NEW i \in 1 .. created
        PROVE  /\ agg'[i].refs = Cardinality(Holders(i)') + (IF current' = i THEN 1 ELSE 0)
               /\ agg'[i].closed <=> agg'[i].refs = 0
    <3>1. Holders(i)' = Holders(i) BY <1>1 DEF Holders
    <3>2. current' # i BY <1>1
    <3>3. agg'[i].refs = Cardinality(Holders(i)) /\ (agg'[i].closed <=> agg'[i].refs = 0) BY <1>2
    <3> QED BY <3>1, <3>2, <3>3, HolderCount
  <2> QED BY <1>1, <2>1 DEF ReferencesShared
<1>5. Owners' BY <1>1, GeneratorAssumption DEF AggOK, Owners, AggTypes
<1>6. Quota' BY <1>1 DEF AggOK, Quota, Starting
<1> QED BY <1>1, <1>3, <1>4, <1>5, <1>6 DEF AggOK

-----------------------------------------------------------------------------
\* The users come and go.
LEMMA SpawnKeeps ==
  ASSUME AggOK, NEW u \in Users, NEW c \in Classes, SpawnUser(u, c)
  PROVE  AggOK'
<1>1. /\ user[u] = "none" /\ created + Cardinality(Starting) < MaxAggs
      /\ user' = [user EXCEPT ![u] = c]
      /\ UNCHANGED <<rep, current, counter, agg, created>>
  BY DEF SpawnUser, aggVars
<1>2. user \in [Users -> Classes \cup {"none"}] /\ created \in Nat /\ MaxAggs \in Nat
  BY GeneratorAssumption DEF AggOK, AggTypes
<1>3. rep[u] = 0 BY <1>1 DEF AggOK, Owners
<1>4. user' \in [Users -> Classes \cup {"none"}] BY <1>1, <1>2
<1>5. AggTypes' BY <1>1 DEF AggOK, AggTypes
<1>6. ReferencesShared'
  <2>1. \A i : Holders(i)' = Holders(i) BY <1>1 DEF Holders
  <2> QED BY <1>1, <2>1 DEF AggOK, ReferencesShared
<1>7. Owners' BY <1>1, <1>2, <1>3 DEF AggOK, Owners
<1>8. Quota'
  <2>1. OnlyAt(u, user, user') /\ OnlyAt(u, rep, rep') BY <1>1, <1>2 DEF OnlyAt
  <2>2. /\ Cardinality(Starting) \in Nat /\ Cardinality(Starting') \in Nat
        /\ u \in Starting' /\ u \notin Starting => Cardinality(Starting') = Cardinality(Starting) + 1
        /\ u \notin Starting' /\ u \notin Starting => Cardinality(Starting') = Cardinality(Starting)
    BY <2>1, StartingMoved
  <2>3. u \notin Starting BY <1>1 DEF Starting
  <2> QED BY <1>1, <1>2, <2>2, <2>3 DEF Quota
<1> QED BY <1>4, <1>5, <1>6, <1>7, <1>8 DEF AggOK

LEMMA JoinCurrentKeeps ==
  ASSUME AggOK, NEW u \in Users, JoinCurrent(u)
  PROVE  AggOK'
<1>0. PICK k : k = current OBVIOUS
<1>1. /\ u \in Starting /\ counter # 0 /\ agg' = [agg EXCEPT ![k].refs = @ + 1]
      /\ rep' = [rep EXCEPT ![u] = k] /\ counter' = NextSlot
      /\ UNCHANGED <<user, current, created>>
  BY <1>0 DEF JoinCurrent, userVars
<1>2. /\ agg \in [IDs -> Aggregators] /\ rep \in [Users -> 0 .. MaxAggs] /\ rep[u] = 0
      /\ user \in [Users -> Classes \cup {"none"}] /\ user[u] # "none"
      /\ created \in 0 .. MaxAggs /\ MaxAggs \in Nat /\ k \in 0 .. MaxAggs
  BY <1>0, <1>1, GeneratorAssumption DEF AggOK, AggTypes, Starting
<1>3. k # 0 /\ k \in 0 .. created BY <1>0, <1>1, <1>2 DEF AggOK, Owners
<1>4. /\ k \in IDs /\ agg[k] \in Aggregators /\ (agg[k].closed <=> agg[k].refs = 0)
      /\ agg[k].refs = Cardinality(Holders(k)) + (IF current = k THEN 1 ELSE 0)
  BY <1>3, Referred
<1>5. AggTypes BY DEF AggOK
<1>6. \A i : /\ Cardinality(Holders(i)) \in Nat /\ Cardinality(Holders(i)') \in Nat
             /\ k = i /\ rep[u] # i => Cardinality(Holders(i)') = Cardinality(Holders(i)) + 1
             /\ k # i /\ rep[u] # i => Cardinality(Holders(i)') = Cardinality(Holders(i))
  <2>1. Takes(u, k) BY <1>1 DEF Takes
  <2> QED BY <1>5, <2>1, HoldersMoved
<1>7. agg[k].refs \in Nat \ {0} /\ ~agg[k].closed BY <1>0, <1>4, <1>6
<1>8. /\ agg' \in [IDs -> Aggregators] /\ agg'[k].refs = agg[k].refs + 1
      /\ agg'[k].closed = agg[k].closed /\ \A i \in IDs : i # k => agg'[i] = agg[i]
  <2>1. agg[k].refs + 1 \in Nat BY <1>7
  <2> QED BY <1>1, <1>2, <1>4, <2>1 DEF Aggregators
<1>9. ReferencesShared'
  <2>1. ASSUME NEW i \in 1 .. created
        PROVE  /\ agg'[i].refs = Cardinality(Holders(i)') + (IF current' = i THEN 1 ELSE 0)
               /\ agg'[i].closed <=> agg'[i].refs = 0
    <3>1. CASE i = k
      <4>1. Cardinality(Holders(k)') = Cardinality(Holders(k)) + 1 BY <1>2, <1>3, <1>6
      <4>2. agg'[k].refs = Cardinality(Holders(k)') + (IF current' = k THEN 1 ELSE 0)
        BY <1>0, <1>1, <1>4, <1>6, <1>8, <4>1
      <4>3. ~agg'[k].closed /\ agg'[k].refs # 0 BY <1>7, <1>8
      <4> QED BY <3>1, <4>2, <4>3
    <3>2. CASE i # k
      <4>1. Cardinality(Holders(i)') = Cardinality(Holders(i)) BY <1>2, <1>6, <3>2
      <4>2. agg'[i] = agg[i] BY <1>2, <1>8, <3>2 DEF IDs
      <4>3. /\ agg[i].refs = Cardinality(Holders(i)) + (IF current = i THEN 1 ELSE 0)
            /\ agg[i].closed <=> agg[i].refs = 0
        BY DEF AggOK, ReferencesShared
      <4> QED BY <1>1, <4>1, <4>2, <4>3
    <3> QED BY <3>1, <3>2
  <2> QED BY <1>1, <2>1 DEF ReferencesShared
<1>10. AggTypes'
  <2>1. rep' \in [Users -> 0 .. MaxAggs] BY <1>1, <1>2
  <2>2. counter' \in 0 .. Share - 1 BY <1>1, <1>5, NextSlotFacts
  <2> QED BY <1>1, <1>5, <1>8, <2>1, <2>2 DEF AggTypes
<1>11. Owners'
  <2>1. ASSUME NEW v \in Users PROVE rep'[v] <= created' /\ (user'[v] = "none" => rep'[v] = 0)
    <3>1. rep[v] <= created /\ (user[v] = "none" => rep[v] = 0) BY DEF AggOK, Owners
    <3> QED BY <1>1, <1>2, <1>3, <3>1
  <2> QED BY <1>0, <1>1, <1>3, <2>1 DEF AggOK, Owners
<1>12. Quota'
  <2>1. OnlyAt(u, user, user') /\ OnlyAt(u, rep, rep') BY <1>1, <1>2 DEF OnlyAt
  <2>2. u \in Starting /\ u \notin Starting' BY <1>1, <1>2, <1>3 DEF Starting
  <2>3. Cardinality(Starting) \in Nat /\ Cardinality(Starting') = Cardinality(Starting) - 1
    BY <2>1, <2>2, StartingMoved
  <2> QED BY <1>1, <1>2, <2>3 DEF AggOK, Quota
<1> QED BY <1>1, <1>2, <1>9, <1>10, <1>11, <1>12 DEF AggOK

LEMMA JoinNewKeeps ==
  ASSUME AggOK, NEW u \in Users, JoinNew(u)
  PROVE  AggOK'
<1>0. PICK id : id = created + 1 OBVIOUS
<1> DEFINE new == [refs |-> 2, closed |-> FALSE]
<1>1. /\ u \in Starting /\ agg' = [LetCurrentGo EXCEPT ![id] = new]
      /\ created' = id /\ current' = id /\ rep' = [rep EXCEPT ![u] = id] /\ counter' = NextSlot
      /\ UNCHANGED user
  BY <1>0 DEF JoinNew, userVars
<1>2. new \in Aggregators /\ new.refs = 2 /\ new.closed = FALSE BY DEF Aggregators
<1> HIDE DEF new
<1>3. /\ rep \in [Users -> 0 .. MaxAggs] /\ rep[u] = 0
      /\ user \in [Users -> Classes \cup {"none"}] /\ user[u] # "none"
      /\ created \in 0 .. MaxAggs /\ MaxAggs \in Nat
  BY <1>1, GeneratorAssumption DEF AggOK, AggTypes, Starting
<1>4. AggTypes BY DEF AggOK
<1>5. Quota' /\ id \in 1 .. MaxAggs
  <2>1. OnlyAt(u, user, user') /\ OnlyAt(u, rep, rep') BY <1>1, <1>3 DEF OnlyAt
  <2>2. u \in Starting /\ u \notin Starting' BY <1>0, <1>1, <1>3 DEF Starting
  <2>3. /\ Cardinality(Starting) \in Nat /\ Cardinality(Starting) >= 1
        /\ Cardinality(Starting') = Cardinality(Starting) - 1
    BY <2>1, <2>2, StartingMoved
  <2> QED BY <1>0, <1>1, <1>3, <2>3 DEF AggOK, Quota
<1>6. id \in IDs BY <1>5 DEF IDs
<1>7. /\ LetCurrentGo \in [IDs -> Aggregators]
      /\ \A i \in 1 .. created : /\ LetCurrentGo[i].refs = Cardinality(Holders(i))
                                 /\ LetCurrentGo[i].closed <=> LetCurrentGo[i].refs = 0
  BY LetGo
<1>8. /\ agg' \in [IDs -> Aggregators] /\ agg'[id] = new
      /\ \A i \in IDs : i # id => agg'[i] = LetCurrentGo[i]
  BY <1>1, <1>2, <1>6, <1>7
<1>9. \A i : /\ Cardinality(Holders(i)) \in Nat /\ Cardinality(Holders(i)') \in Nat
             /\ id = i /\ rep[u] # i => Cardinality(Holders(i)') = Cardinality(Holders(i)) + 1
             /\ id # i /\ rep[u] # i => Cardinality(Holders(i)') = Cardinality(Holders(i))
  <2>1. Takes(u, id) BY <1>1 DEF Takes
  <2> QED BY <1>4, <2>1, HoldersMoved
<1>10. Cardinality(Holders(id)') = 1
  <2>1. \A v \in Users : rep[v] # id BY <1>0, <1>3 DEF AggOK, Owners
  <2>2. Holders(id) = {} BY <2>1 DEF Holders
  <2>3. Cardinality(Holders(id)) = 0 BY <2>2, FS_EmptySet
  <2> QED BY <1>9, <2>1, <2>3
<1>11. ReferencesShared'
  <2>1. ASSUME NEW i \in 1 .. id
        PROVE  /\ agg'[i].refs = Cardinality(Holders(i)') + (IF current' = i THEN 1 ELSE 0)
               /\ agg'[i].closed <=> agg'[i].refs = 0
    <3>1. CASE i = id BY <1>1, <1>2, <1>8, <1>10, <3>1
    <3>2. CASE i # id
      <4>1. i \in 1 .. created /\ i \in IDs /\ i # 0 BY <1>0, <1>3, <3>2 DEF IDs
      <4>2. Cardinality(Holders(i)') = Cardinality(Holders(i)) /\ Cardinality(Holders(i)) \in Nat
        BY <1>3, <1>9, <3>2, <4>1
      <4>3. agg'[i] = LetCurrentGo[i] BY <1>8, <3>2, <4>1
      <4>4. agg'[i].refs = Cardinality(Holders(i)) /\ (agg'[i].closed <=> agg'[i].refs = 0)
        BY <1>7, <4>1, <4>3
      <4> QED BY <1>1, <3>2, <4>2, <4>4
    <3> QED BY <3>1, <3>2
  <2> QED BY <1>1, <2>1 DEF ReferencesShared
<1>12. AggTypes'
  <2>1. rep' \in [Users -> 0 .. MaxAggs] BY <1>1, <1>3, <1>5
  <2>2. counter' \in 0 .. Share - 1 BY <1>1, <1>4, NextSlotFacts
  <2> QED BY <1>1, <1>5, <1>8, <2>1, <2>2 DEF AggTypes
<1>13. Owners'
  <2>1. ASSUME NEW v \in Users PROVE rep'[v] <= created' /\ (user'[v] = "none" => rep'[v] = 0)
    <3>1. rep[v] <= created /\ (user[v] = "none" => rep[v] = 0) /\ rep[v] \in 0 .. MaxAggs
      BY <1>3 DEF AggOK, Owners
    <3> QED BY <1>0, <1>1, <1>3, <1>5, <3>1
  <2>2. current' <= created' /\ current' # 0 BY <1>1, <1>5
  <2> QED BY <2>1, <2>2 DEF Owners
<1> QED BY <1>1, <1>3, <1>5, <1>11, <1>12, <1>13 DEF AggOK

LEMMA LeaveKeeps ==
  ASSUME AggOK, NEW u \in Users, Leave(u)
  PROVE  AggOK'
<1>0. PICK k : k = rep[u] OBVIOUS
<1>1. /\ k # 0 /\ rep' = [rep EXCEPT ![u] = 0] /\ agg' = [agg EXCEPT ![k] = Release(@)]
      /\ user' = [user EXCEPT ![u] = "none"] /\ UNCHANGED <<current, counter, created>>
  BY <1>0 DEF Leave
<1>2. /\ agg \in [IDs -> Aggregators] /\ rep \in [Users -> 0 .. MaxAggs]
      /\ user \in [Users -> Classes \cup {"none"}]
      /\ created \in 0 .. MaxAggs /\ MaxAggs \in Nat /\ k \in 0 .. MaxAggs /\ k <= created
  BY <1>0, GeneratorAssumption DEF AggOK, AggTypes, Owners
<1>3. /\ k \in IDs /\ agg[k] \in Aggregators
      /\ agg[k].refs = Cardinality(Holders(k)) + (IF current = k THEN 1 ELSE 0)
  <2>1. k \in 0 .. created BY <1>2
  <2> QED BY <1>1, <2>1, Referred
<1>4. AggTypes BY DEF AggOK
<1>5. \A i : /\ Cardinality(Holders(i)) \in Nat /\ Cardinality(Holders(i)') \in Nat
             /\ k = i => Cardinality(Holders(i)) >= 1
             /\ 0 # i /\ k = i => Cardinality(Holders(i)') = Cardinality(Holders(i)) - 1
             /\ 0 # i /\ k # i => Cardinality(Holders(i)') = Cardinality(Holders(i))
  <2>1. Takes(u, 0) BY <1>1 DEF Takes
  <2> QED BY <1>0, <1>4, <2>1, HoldersMoved
<1>6. agg[k].refs \in Nat \ {0} BY <1>3, <1>5
<1>7. /\ Release(agg[k]) \in Aggregators /\ Release(agg[k]).refs = agg[k].refs - 1
      /\ Release(agg[k]).closed <=> Release(agg[k]).refs = 0
  BY <1>3, <1>6, ReleaseFacts
<1>8. /\ agg' \in [IDs -> Aggregators] /\ agg'[k] = Release(agg[k])
      /\ \A i \in IDs : i # k => agg'[i] = agg[i]
  BY <1>1, <1>2, <1>3, <1>7
<1>9. ReferencesShared'
  <2>1. ASSUME NEW i \in 1 .. created
        PROVE  /\ agg'[i].refs = Cardinality(Holders(i)') + (IF current' = i THEN 1 ELSE 0)
               /\ agg'[i].closed <=> agg'[i].refs = 0
    <3>1. CASE i = k
      <4>1. Cardinality(Holders(k)') = Cardinality(Holders(k)) - 1 BY <1>1, <1>5
      <4>2. agg'[k].refs = Cardinality(Holders(k)') + (IF current' = k THEN 1 ELSE 0)
        BY <1>1, <1>3, <1>5, <1>7, <1>8, <4>1
      <4>3. agg'[k].closed <=> agg'[k].refs = 0 BY <1>7, <1>8
      <4> QED BY <3>1, <4>2, <4>3
    <3>2. CASE i # k
      <4>1. Cardinality(Holders(i)') = Cardinality(Holders(i)) BY <1>5, <3>2
      <4>2. agg'[i] = agg[i] BY <1>2, <1>8, <3>2 DEF IDs
      <4>3. /\ agg[i].refs = Cardinality(Holders(i)) + (IF current = i THEN 1 ELSE 0)
            /\ agg[i].closed <=> agg[i].refs = 0
        BY DEF AggOK, ReferencesShared
      <4> QED BY <1>1, <4>1, <4>2, <4>3
    <3> QED BY <3>1, <3>2
  <2> QED BY <1>1, <2>1 DEF ReferencesShared
<1>10. AggTypes'
  <2>1. rep' \in [Users -> 0 .. MaxAggs] BY <1>1, <1>2
  <2> QED BY <1>1, <1>4, <1>8, <2>1 DEF AggTypes
<1>11. user' \in [Users -> Classes \cup {"none"}] BY <1>1, <1>2
<1>12. Owners'
  <2>1. ASSUME NEW v \in Users PROVE rep'[v] <= created' /\ (user'[v] = "none" => rep'[v] = 0)
    <3>1. rep[v] <= created /\ (user[v] = "none" => rep[v] = 0) BY DEF AggOK, Owners
    <3> QED BY <1>1, <1>2, <3>1
  <2> QED BY <1>1, <2>1 DEF AggOK, Owners
<1>13. Quota'
  <2>1. OnlyAt(u, user, user') /\ OnlyAt(u, rep, rep') BY <1>1, <1>2 DEF OnlyAt
  <2>2. u \notin Starting BY <1>0, <1>1 DEF Starting
  <2>3. u \notin Starting' BY <1>1, <1>2 DEF Starting
  <2>4. Cardinality(Starting') = Cardinality(Starting) BY <2>1, <2>2, <2>3, StartingMoved
  <2> QED BY <1>1, <2>4 DEF AggOK, Quota
<1> QED BY <1>9, <1>10, <1>11, <1>12, <1>13 DEF AggOK

\* Only these steps, and Drop, touch users and aggregators.
LEMMA References == AggOK /\ [Next]_vars => AggOK'
<1> SUFFICES ASSUME AggOK, [Next]_vars PROVE AggOK' OBVIOUS
<1>1. CASE UNCHANGED <<user, aggVars>> BY <1>1, AggKept
<1>2. CASE Drop /\ UNCHANGED user BY <1>2, DropKeeps
<1>3. CASE \E u \in Users : JoinNew(u) \/ JoinCurrent(u) \/ Leave(u) \/ \E c \in Classes : SpawnUser(u, c)
  BY <1>3, SpawnKeeps, JoinNewKeeps, JoinCurrentKeeps, LeaveKeeps
<1>4. CASE \E p \in Procs, c \in Classes : JobStep(p, c)
  <2> SUFFICES ASSUME NEW p \in Procs, NEW c \in Classes, JobStep(p, c) PROVE UNCHANGED <<user, aggVars>>
    BY <1>1, <1>4
  <2> QED BY DEF JobStep, CapSwap, CapCheck, CapList, Launch, Migrated, ManagerStop, Clear, Waited, userVars
<1>5. CASE \E p \in Procs : CallStop(p) \/ StopStep(p)
  <2> SUFFICES ASSUME NEW p \in Procs, CallStop(p) \/ StopStep(p)
               PROVE UNCHANGED <<user, aggVars>> \/ (Drop /\ UNCHANGED user)
    BY <1>1, <1>2, <1>5
  <2> QED BY DEF CallStop, StopStep, Cut, Stopping, StopDrops, StopReturns, userVars
<1>6. CASE CallStart \/ StartStep \/ Handlers
  <2>1. UNCHANGED <<user, aggVars>> \/ (Drop /\ UNCHANGED user)
    BY <1>6 DEF CallStart, StartStep, Handlers, StoreCancel, StartDrops, HandlersSucceed, HandlersFail,
                StartedClasses, StartReturns, userVars
  <2> QED BY <2>1, <1>1, <1>2
<1>7. CASE CallStopUsers \/ CapReturns \/ \E c \in Classes, n \in 0 .. MaxCount : CallSpawn(c, n)
  BY <1>1, <1>7 DEF CallStopUsers, CapReturns, CallSpawn, userVars
<1>8. CASE UNCHANGED vars BY <1>1, <1>8 DEF vars, userVars
<1> QED BY <1>3, <1>4, <1>5, <1>6, <1>7, <1>8 DEF Next

-----------------------------------------------------------------------------
(***************************************************************************)
(* The calls and what is left of their jobs.                               *)
(***************************************************************************)
CallsOK == CallTypes /\ UserTypes /\ Jobs /\ Undisturbed

LEMMA NoJob ==
  ASSUME CallsOK, NEW p \in Procs, pc[p] \notin {"classes", "cap", "stopClasses"} \/ JobsDone(p)
  PROVE  /\ job[p] = Idle /\ Idle \in [Classes -> Seq(Labels)]
         /\ \A c \in Classes : job[p][c] = <<>> /\ waiting[p][c] = {} /\ Idle[c] = <<>>
<1>1. job[p] \in [Classes -> Seq(Labels)] BY DEF CallsOK, CallTypes
<1>2. ASSUME NEW c \in Classes PROVE job[p][c] = <<>>
  BY <1>2 DEF CallsOK, Jobs, JobsDone, Idle
<1>3. job[p] = Idle BY <1>1, <1>2 DEF Idle
<1>4. \A c \in Classes : waiting[p][c] = {} BY <1>2 DEF CallsOK, Jobs
<1>5. Idle \in [Classes -> Seq(Labels)] /\ \A c \in Classes : Idle[c] = <<>> BY DEF Idle
<1> QED BY <1>2, <1>3, <1>4, <1>5

\* A goroutine without a job goes to l, with the jobs f.
Advances(p, l, f) ==
  /\ pc' = [pc EXCEPT ![p] = l] /\ job' = [job EXCEPT ![p] = f] /\ UNCHANGED waiting

LEMMA AdvanceKeeps ==
  ASSUME CallsOK, NEW p \in Procs, NEW l \in Places, NEW f \in [Classes -> Seq(Labels)],
         Advances(p, l, f), JobsDone(p) \/ pc[p] \notin {"classes", "cap", "stopClasses"},
         \A c \in Classes : /\ JobOK(f[c]) /\ (l = "stopClasses" => StopPart(f[c]))
                            /\ f[c] # <<>> => l \in {"classes", "cap", "stopClasses"}
  PROVE  /\ Jobs' /\ pc' \in [Procs -> Places] /\ job' \in [Procs -> [Classes -> Seq(Labels)]]
         /\ job'[p] = f /\ pc'[p] = l
         /\ \A q \in Procs \ {p} : pc'[q] = pc[q] /\ job'[q] = job[q]
<1>1. pc \in [Procs -> Places] /\ job \in [Procs -> [Classes -> Seq(Labels)]]
  BY DEF CallsOK, CallTypes
<1>2. /\ pc' \in [Procs -> Places] /\ job' \in [Procs -> [Classes -> Seq(Labels)]]
      /\ job'[p] = f /\ pc'[p] = l
      /\ \A q \in Procs \ {p} : pc'[q] = pc[q] /\ job'[q] = job[q]
  BY <1>1 DEF Advances
<1>3. \A c \in Classes : waiting'[p][c] = {} BY NoJob DEF Advances
<1>4. ASSUME NEW q \in Procs, NEW c \in Classes
      PROVE  /\ JobOK(job'[q][c]) /\ (pc'[q] = "stopClasses" => StopPart(job'[q][c]))
             /\ job'[q][c] # <<>> => pc'[q] \in {"classes", "cap", "stopClasses"}
             /\ waiting'[q][c] # {} => job'[q][c] # <<>> /\ Head(job'[q][c]) = "wait"
  <2>1. CASE q = p BY <1>2, <1>3, <2>1
  <2>2. CASE q # p
    <3>1. pc'[q] = pc[q] /\ job'[q] = job[q] /\ waiting' = waiting BY <1>2, <2>2 DEF Advances
    <3> QED BY <3>1 DEF CallsOK, Jobs, At
  <2> QED BY <2>1, <2>2
<1> QED BY <1>2, <1>4 DEF Jobs, At

\* A goroutine goes on with the job r for class c.
Works(p, c, r) ==
  /\ job[p][c] # <<>> /\ job' = [job EXCEPT ![p][c] = r] /\ UNCHANGED pc
  /\ JobOK(r) /\ (At(p, "stopClasses") => StopPart(r))
  /\ \A q \in Procs, d \in Classes : q # p \/ d # c => waiting'[q][d] \subseteq waiting[q][d]
  /\ waiting'[p][c] # {} => r # <<>> /\ Head(r) = "wait"

LEMMA WorkKeeps ==
  ASSUME CallsOK, NEW p \in Procs, NEW c \in Classes, NEW r, Works(p, c, r)
  PROVE  /\ Jobs' /\ job' \in [Procs -> [Classes -> Seq(Labels)]]
         /\ job'[p][c] = r
         /\ \A q \in Procs, d \in Classes : q # p \/ d # c => job'[q][d] = job[q][d]
<1>1. job \in [Procs -> [Classes -> Seq(Labels)]] /\ r \in Seq(Labels)
  BY DEF CallsOK, CallTypes, JobOK, Works
<1>2. /\ job' \in [Procs -> [Classes -> Seq(Labels)]] /\ job'[p][c] = r
      /\ \A q \in Procs, d \in Classes : q # p \/ d # c => job'[q][d] = job[q][d]
  BY <1>1 DEF Works
<1>3. ASSUME NEW q \in Procs, NEW d \in Classes
      PROVE  /\ JobOK(job'[q][d]) /\ (pc'[q] = "stopClasses" => StopPart(job'[q][d]))
             /\ job'[q][d] # <<>> => pc'[q] \in {"classes", "cap", "stopClasses"}
             /\ waiting'[q][d] # {} => job'[q][d] # <<>> /\ Head(job'[q][d]) = "wait"
  <2>1. CASE q = p /\ d = c
    <3>1. pc'[p] \in {"classes", "cap", "stopClasses"} BY DEF CallsOK, Jobs, Works
    <3> QED BY <1>2, <2>1, <3>1 DEF At, Works
  <2>2. CASE q # p \/ d # c
    <3>1. pc'[q] = pc[q] /\ job'[q][d] = job[q][d] /\ waiting'[q][d] \subseteq waiting[q][d]
      BY <1>2, <2>2 DEF Works
    <3>2. waiting'[q][d] # {} => waiting[q][d] # {} BY <3>1
    <3> QED BY <3>1, <3>2 DEF CallsOK, Jobs, At
  <2> QED BY <2>1, <2>2
<1> QED BY <1>2, <1>3 DEF Jobs, At

\* Who begins a call is alone if nobody else is in one, and disturbs all others.
LEMMA BeginKeeps ==
  ASSUME CallsOK, NEW p \in Procs, NEW l \in Places, Begin(p, l)
  PROVE  /\ Undisturbed' /\ alone' \in [Procs -> BOOLEAN] /\ calls' \in 0 .. MaxCalls
         /\ calls' = calls + 1 /\ At(p, "idle") /\ pc' = [pc EXCEPT ![p] = l]
         /\ \A q \in Procs : alone'[q] => q = p
<1>1. /\ pc \in [Procs -> Places] /\ calls \in 0 .. MaxCalls /\ MaxCalls \in Nat
  BY GeneratorAssumption DEF CallsOK, CallTypes
<1>2. /\ At(p, "idle") /\ calls < MaxCalls /\ calls' = calls + 1 /\ pc' = [pc EXCEPT ![p] = l]
      /\ alone' = [q \in Procs |-> q = p /\ \A r \in Procs \ {p} : At(r, "idle")]
  BY DEF Begin
<1>3. alone' \in [Procs -> BOOLEAN] BY <1>2, Zenon
<1>4. ASSUME NEW q \in Procs, alone'[q] PROVE q = p /\ \A r \in Procs \ {p} : At(r, "idle")
  BY <1>2, <1>4, Zenon
<1>5. \A r \in Procs \ {p} : pc'[r] = pc[r] BY <1>1, <1>2
<1>6. Undisturbed' BY <1>4, <1>5 DEF Undisturbed, At
<1> QED BY <1>1, <1>2, <1>3, <1>4, <1>6

LEMMA GotoKeeps ==
  ASSUME CallsOK, NEW p \in Procs, ~At(p, "idle"), NEW l \in Places, Goto(p, l)
  PROVE  /\ Undisturbed' /\ pc' = [pc EXCEPT ![p] = l] /\ UNCHANGED <<want, calls, alone>>
         /\ \A q \in Procs \ {p} : alone[q] => At(q, "idle")
<1>1. pc \in [Procs -> Places] /\ pc' = [pc EXCEPT ![p] = l] /\ UNCHANGED <<want, calls, alone>>
  BY DEF CallsOK, CallTypes, Goto
<1>2. ASSUME NEW q \in Procs \ {p}, alone[q] PROVE At(q, "idle")
  BY <1>2 DEF CallsOK, Undisturbed
<1>3. \A q \in Procs \ {p} : pc'[q] = pc[q] BY <1>1
<1>4. Undisturbed' BY <1>1, <1>2, <1>3 DEF CallsOK, Undisturbed, At
<1> QED BY <1>1, <1>2, <1>4

-----------------------------------------------------------------------------
(***************************************************************************)
(* The steps.                                                              *)
(***************************************************************************)
StateOK == TestTypes /\ PoolTypes /\ Counts
Inv == CallsOK /\ StateOK /\ Cleaning

\* Nobody who is alone cleans up.
LEMMA NotCleaning ==
  ASSUME \A q \in Procs : alone'[q] => pc'[q] \notin {"stopClasses", "stopHandlers"}
  PROVE  Cleaning'
BY DEF Cleaning, Clean, At

LEMMA StartCalled == Inv /\ CallStart => Inv'
<1> SUFFICES ASSUME Inv, CallStart PROVE Inv' OBVIOUS
<1>1. /\ Begin(Driver, "store") /\ started = FALSE /\ started' = TRUE /\ tests' = tests + 1 /\ cutIn' = "no"
      /\ UNCHANGED <<job, want, cancelStart, startCtx, ends, target, limit, pool, user, canceled, waiting>>
  BY DEF CallStart, Inv, StateOK, TestTypes, poolVars, userVars
<1>2. Driver \in Procs /\ "store" \in Places BY DEF Procs, Places
<1>3. CallsOK BY DEF Inv
<1>4. /\ Undisturbed' /\ alone' \in [Procs -> BOOLEAN] /\ calls' \in 0 .. MaxCalls
      /\ calls' = calls + 1 /\ At(Driver, "idle") /\ pc' = [pc EXCEPT ![Driver] = "store"]
      /\ \A q \in Procs : alone'[q] => q = Driver
  BY <1>1, <1>2, <1>3, BeginKeeps
<1>5. job[Driver] = Idle /\ Idle \in [Classes -> Seq(Labels)] /\ \A c \in Classes : Idle[c] = <<>>
  BY <1>2, <1>3, <1>4, NoJob DEF At
<1>6. Advances(Driver, "store", Idle)
  <2>1. job = [job EXCEPT ![Driver] = Idle] BY <1>3, <1>5 DEF CallsOK, CallTypes
  <2> QED BY <1>1, <1>4, <2>1 DEF Advances
<1>7. /\ Jobs' /\ pc' \in [Procs -> Places] /\ job' \in [Procs -> [Classes -> Seq(Labels)]]
      /\ pc'[Driver] = "store"
  BY <1>2, <1>3, <1>4, <1>5, <1>6, AdvanceKeeps, NewJobs DEF At
<1>8. CallsOK' BY <1>1, <1>3, <1>4, <1>7 DEF CallsOK, CallTypes, UserTypes
<1>9. StateOK'
  <2>1. TestTypes /\ Counts /\ PoolTypes BY DEF Inv, StateOK
  <2>2. /\ MaxCalls \in Nat /\ calls \in 0 .. MaxCalls /\ tests \in 0 .. MaxCalls /\ ends \in 0 .. MaxCalls
        /\ tests <= calls /\ ends <= calls /\ ends + (IF started THEN 1 ELSE 0) <= tests
    BY <1>3, <2>1, GeneratorAssumption DEF TestTypes, Counts, StoppedOnce, CallsOK, CallTypes
  <2>3. tests' \in 0 .. MaxCalls /\ tests' <= calls' /\ ends' <= calls' /\ ends + 1 <= tests'
    BY <1>1, <1>4, <2>2
  <2>4. Counts' BY <1>1, <2>3 DEF Counts, StoppedOnce
  <2>5. TestTypes' BY <1>1, <2>1, <2>3 DEF TestTypes
  <2> QED BY <1>1, <2>1, <2>4, <2>5 DEF StateOK, PoolTypes
<1>10. Cleaning' BY <1>4, <1>7, NotCleaning
<1> QED BY <1>8, <1>9, <1>10 DEF Inv

LEMMA StopCalled == \A p \in Procs : Inv /\ CallStop(p) => Inv'
<1> SUFFICES ASSUME NEW p \in Procs, Inv, CallStop(p) PROVE Inv' OBVIOUS
<1>1. /\ Begin(p, "cut") /\ started /\ started' = FALSE /\ ends' = ends + 1
      /\ cutIn' = (IF pc[Driver] \in InStart THEN pc[Driver] ELSE cutIn)
      /\ UNCHANGED <<job, want, cancelStart, startCtx, tests, target, limit, pool, user, canceled, waiting>>
  BY DEF CallStop, poolVars, userVars
<1>2. "cut" \in Places BY DEF Places
<1>3. CallsOK BY DEF Inv
<1>4. /\ Undisturbed' /\ alone' \in [Procs -> BOOLEAN] /\ calls' \in 0 .. MaxCalls
      /\ calls' = calls + 1 /\ At(p, "idle") /\ pc' = [pc EXCEPT ![p] = "cut"]
      /\ \A q \in Procs : alone'[q] => q = p
  BY <1>1, <1>2, <1>3, BeginKeeps
<1>5. job[p] = Idle /\ Idle \in [Classes -> Seq(Labels)] /\ \A c \in Classes : Idle[c] = <<>>
  BY <1>2, <1>3, <1>4, NoJob DEF At
<1>6. Advances(p, "cut", Idle)
  <2>1. job = [job EXCEPT ![p] = Idle] BY <1>3, <1>5 DEF CallsOK, CallTypes
  <2> QED BY <1>1, <1>4, <2>1 DEF Advances
<1>7. /\ Jobs' /\ pc' \in [Procs -> Places] /\ job' \in [Procs -> [Classes -> Seq(Labels)]]
      /\ pc'[p] = "cut"
  BY <1>2, <1>3, <1>4, <1>5, <1>6, AdvanceKeeps, NewJobs DEF At
<1>8. CallsOK' BY <1>1, <1>3, <1>4, <1>7 DEF CallsOK, CallTypes, UserTypes
<1>9. StateOK'
  <2>1. TestTypes /\ Counts /\ PoolTypes BY DEF Inv, StateOK
  <2>2. /\ MaxCalls \in Nat /\ calls \in 0 .. MaxCalls /\ tests \in 0 .. MaxCalls /\ ends \in 0 .. MaxCalls
        /\ tests <= calls /\ ends <= calls /\ ends + 1 <= tests
    BY <1>1, <1>3, <2>1, GeneratorAssumption DEF TestTypes, Counts, StoppedOnce, CallsOK, CallTypes
  <2>3. ends' \in 0 .. MaxCalls /\ tests' <= calls' /\ ends' <= calls' /\ ends' + 0 <= tests'
    BY <1>1, <1>4, <2>2
  <2>4. Counts' BY <1>1, <2>3 DEF Counts, StoppedOnce
  <2>5. cutIn' \in InStart \cup {"no"} BY <1>1, <2>1 DEF TestTypes
  <2>6. TestTypes' BY <1>1, <2>1, <2>3, <2>5 DEF TestTypes
  <2> QED BY <1>1, <2>1, <2>4, <2>6 DEF StateOK, PoolTypes
<1>10. Cleaning' BY <1>4, <1>7, NotCleaning
<1> QED BY <1>8, <1>9, <1>10 DEF Inv

\* Spawn and StopUsers.
LEMMA CapCalled ==
  ASSUME Inv, NEW n \in 0 .. MaxCount, Begin(Driver, "cap"), want' = n,
         NEW f \in [Classes -> Seq(Labels)], \A c \in Classes : JobOK(f[c]),
         job' = [job EXCEPT ![Driver] = f], UNCHANGED <<testVars, poolVars, userVars>>
  PROVE  Inv'
<1>1. UNCHANGED <<started, cancelStart, startCtx, cutIn, tests, ends, target, limit, pool, user, canceled,
                  waiting>>
  BY DEF testVars, poolVars, userVars
<1>2. Driver \in Procs /\ "cap" \in Places BY DEF Procs, Places
<1>3. CallsOK BY DEF Inv
<1>4. /\ Undisturbed' /\ alone' \in [Procs -> BOOLEAN] /\ calls' \in 0 .. MaxCalls
      /\ calls' = calls + 1 /\ At(Driver, "idle") /\ pc' = [pc EXCEPT ![Driver] = "cap"]
      /\ \A q \in Procs : alone'[q] => q = Driver
  BY <1>2, <1>3, BeginKeeps
<1>5. Advances(Driver, "cap", f) BY <1>1, <1>4 DEF Advances
<1>6. /\ Jobs' /\ pc' \in [Procs -> Places] /\ job' \in [Procs -> [Classes -> Seq(Labels)]]
      /\ pc'[Driver] = "cap"
  BY <1>2, <1>3, <1>4, <1>5, AdvanceKeeps DEF At
<1>7. CallsOK' BY <1>1, <1>3, <1>4, <1>6 DEF CallsOK, CallTypes, UserTypes
<1>8. StateOK'
  BY <1>1, <1>3, <1>4 DEF Inv, StateOK, TestTypes, PoolTypes, Counts, StoppedOnce, CallsOK, CallTypes
<1>9. Cleaning' BY <1>4, <1>6, NotCleaning
<1> QED BY <1>7, <1>8, <1>9 DEF Inv

LEMMA SpawnCalled == \A c \in Classes, n \in 0 .. MaxCount : Inv /\ CallSpawn(c, n) => Inv'
<1> SUFFICES ASSUME NEW c \in Classes, NEW n \in 0 .. MaxCount, Inv, CallSpawn(c, n) PROVE Inv' OBVIOUS
<1> DEFINE f == [Idle EXCEPT ![c] = <<"swap">>]
<1>1. /\ Begin(Driver, "cap") /\ want' = n /\ job' = [job EXCEPT ![Driver][c] = <<"swap">>]
      /\ UNCHANGED <<testVars, poolVars, userVars>>
  BY DEF CallSpawn
<1>2. At(Driver, "idle") BY <1>1 DEF Begin
<1>3. Driver \in Procs BY DEF Procs
<1>4. job[Driver] = Idle /\ Idle \in [Classes -> Seq(Labels)] /\ \A d \in Classes : Idle[d] = <<>>
  BY <1>2, <1>3, NoJob DEF At, Inv
<1>5. job' = [job EXCEPT ![Driver] = f] BY <1>1, <1>4
<1>6. f \in [Classes -> Seq(Labels)]
  <2>1. <<"swap">> \in Seq(Labels) BY NewJobs DEF JobOK
  <2> QED BY <1>4, <2>1
<1>7. \A d \in Classes : JobOK(f[d]) BY <1>4, NewJobs
<1> HIDE DEF f
<1> QED BY <1>1, <1>5, <1>6, <1>7, CapCalled

LEMMA StopUsersCalled == Inv /\ CallStopUsers => Inv'
<1> SUFFICES ASSUME Inv, CallStopUsers PROVE Inv' OBVIOUS
<1> DEFINE f == [c \in Classes |-> <<"swap", "clear", "wait">>]
<1>1. /\ Begin(Driver, "cap") /\ want' = 0 /\ job' = [job EXCEPT ![Driver] = f]
      /\ UNCHANGED <<testVars, poolVars, userVars>>
  BY DEF CallStopUsers
<1>2. f \in [Classes -> Seq(Labels)] /\ \A c \in Classes : JobOK(f[c]) BY NewJobs DEF JobOK
<1>3. 0 \in 0 .. MaxCount BY GeneratorAssumption
<1> HIDE DEF f
<1> QED BY <1>1, <1>2, <1>3, CapCalled

-----------------------------------------------------------------------------
\* A call goes on to l, where it is not about to clean up.
LEMMA GoesOn ==
  ASSUME Inv, NEW p \in Procs, ~At(p, "idle"),
         JobsDone(p) \/ pc[p] \notin {"classes", "cap", "stopClasses"},
         NEW l \in Places \ {"stopClasses", "stopHandlers"}, Goto(p, l),
         NEW f \in [Classes -> Seq(Labels)],
         \A c \in Classes : JobOK(f[c]) /\ (f[c] # <<>> => l = "classes"),
         job' = [job EXCEPT ![p] = f], UNCHANGED <<tests, ends, poolVars, userVars>>,
         started' \in BOOLEAN, started' => started, cancelStart' \in BOOLEAN, startCtx' \in BOOLEAN, cutIn' = cutIn
  PROVE  Inv'
<1>1. UNCHANGED <<target, limit, pool, user, canceled, waiting>> BY DEF poolVars, userVars
<1>2. CallsOK BY DEF Inv
<1>3. /\ Undisturbed' /\ pc' = [pc EXCEPT ![p] = l] /\ UNCHANGED <<want, calls, alone>>
      /\ \A q \in Procs \ {p} : alone[q] => At(q, "idle")
  BY <1>2, GotoKeeps
<1>4. Advances(p, l, f) BY <1>1, <1>3 DEF Advances
<1>5. /\ Jobs' /\ pc' \in [Procs -> Places] /\ job' \in [Procs -> [Classes -> Seq(Labels)]]
      /\ pc'[p] = l /\ \A q \in Procs \ {p} : pc'[q] = pc[q]
  BY <1>2, <1>4, AdvanceKeeps
<1>6. CallsOK' BY <1>1, <1>2, <1>3, <1>5 DEF CallsOK, CallTypes, UserTypes
<1>7. StateOK'
  <2>1. TestTypes /\ Counts /\ PoolTypes /\ calls' = calls BY <1>3 DEF Inv, StateOK
  <2>2. TestTypes' BY <2>1 DEF TestTypes
  <2>3. ends \in Nat /\ tests \in Nat BY <2>1, GeneratorAssumption DEF TestTypes
  <2>5. ends + (IF started THEN 1 ELSE 0) <= tests BY <2>1 DEF Counts, StoppedOnce
  <2>6. ends + (IF started' THEN 1 ELSE 0) <= tests BY <2>3, <2>5
  <2>4. Counts' BY <2>1, <2>6 DEF Counts, StoppedOnce
  <2> QED BY <1>1, <2>1, <2>2, <2>4 DEF StateOK, PoolTypes
<1>8. Cleaning'
  <2>1. \A q \in Procs : alone'[q] => pc'[q] \notin {"stopClasses", "stopHandlers"}
    BY <1>3, <1>5 DEF At
  <2> QED BY <2>1, NotCleaning
<1> QED BY <1>6, <1>7, <1>8 DEF Inv

\* The same without new jobs.
LEMMA GoesOnIdle ==
  ASSUME Inv, NEW p \in Procs, ~At(p, "idle"),
         JobsDone(p) \/ pc[p] \notin {"classes", "cap", "stopClasses"},
         NEW l \in Places \ {"stopClasses", "stopHandlers"}, Goto(p, l),
         UNCHANGED <<job, tests, ends, poolVars, userVars>>,
         started' \in BOOLEAN, started' => started, cancelStart' \in BOOLEAN, startCtx' \in BOOLEAN, cutIn' = cutIn
  PROVE  Inv'
<1>1. PICK f \in [Classes -> Seq(Labels)] : job[p] = f /\ \A c \in Classes : f[c] = <<>>
  BY NoJob DEF Inv
<1>2. job' = [job EXCEPT ![p] = f] BY <1>1 DEF Inv, CallsOK, CallTypes
<1>3. UNCHANGED <<tests, ends, poolVars, userVars>> OBVIOUS
<1>4. \A c \in Classes : JobOK(f[c]) /\ (f[c] # <<>> => l = "classes") BY <1>1, NewJobs
<1> QED BY <1>2, <1>3, <1>4, GoesOn

LEMMA StartGoesOn == Inv /\ (StartStep \/ Handlers \/ CapReturns) => Inv'
<1> SUFFICES ASSUME Inv, StartStep \/ Handlers \/ CapReturns PROVE Inv' OBVIOUS
<1>1. Driver \in Procs BY DEF Procs
<1>2. started \in BOOLEAN /\ cancelStart \in BOOLEAN /\ startCtx \in BOOLEAN
  BY DEF Inv, StateOK, TestTypes
<1>3. {"letgo", "handlers", "classes", "return", "idle"} \subseteq Places \ {"stopClasses", "stopHandlers"}
  BY DEF Places
<1>4. CASE StoreCancel
  <2>1. At(Driver, "store") /\ Goto(Driver, "letgo") /\ cancelStart' = TRUE /\ startCtx' = FALSE
        /\ UNCHANGED <<job, started, cutIn, tests, ends, poolVars, userVars>>
    BY <1>4 DEF StoreCancel
  <2> QED BY <1>1, <1>2, <1>3, <2>1, GoesOnIdle DEF At
<1>5. CASE StartDrops
  <2>1. At(Driver, "letgo") /\ Goto(Driver, "handlers")
        /\ UNCHANGED <<job, started, cancelStart, startCtx, cutIn, tests, ends, poolVars, userVars>>
    BY <1>5 DEF StartDrops, testVars
  <2> QED BY <1>1, <1>2, <1>3, <2>1, GoesOnIdle DEF At
<1>6. CASE HandlersSucceed
  <2> DEFINE f == [c \in Classes |-> StartJob]
  <2>1. At(Driver, "handlers") /\ Goto(Driver, "classes") /\ job' = [job EXCEPT ![Driver] = f]
        /\ UNCHANGED <<started, cancelStart, startCtx, cutIn, tests, ends, poolVars, userVars>>
    BY <1>6 DEF HandlersSucceed, testVars
  <2>2. f \in [Classes -> Seq(Labels)] /\ \A c \in Classes : JobOK(f[c]) BY NewJobs DEF JobOK
  <2> HIDE DEF f
  <2> QED BY <1>1, <1>2, <1>3, <2>1, <2>2, GoesOn DEF At
<1>7. CASE HandlersFail
  <2>1. At(Driver, "handlers") /\ Goto(Driver, "return") /\ started' = FALSE
        /\ UNCHANGED <<job, cancelStart, startCtx, cutIn, tests, ends, poolVars, userVars>>
    BY <1>7 DEF HandlersFail
  <2> QED BY <1>1, <1>2, <1>3, <2>1, GoesOnIdle DEF At
<1>8. CASE StartedClasses
  <2>1. At(Driver, "classes") /\ JobsDone(Driver) /\ Goto(Driver, "return")
        /\ UNCHANGED <<job, started, cancelStart, startCtx, cutIn, tests, ends, poolVars, userVars>>
    BY <1>8 DEF StartedClasses, testVars
  <2> QED BY <1>1, <1>2, <1>3, <2>1, GoesOnIdle DEF At
<1>9. CASE StartReturns
  <2>1. At(Driver, "return") /\ Goto(Driver, "idle") /\ cancelStart' = FALSE /\ startCtx' = TRUE
        /\ UNCHANGED <<job, started, cutIn, tests, ends, poolVars, userVars>>
    BY <1>9 DEF StartReturns
  <2> QED BY <1>1, <1>2, <1>3, <2>1, GoesOnIdle DEF At
<1>10. CASE CapReturns
  <2>1. At(Driver, "cap") /\ JobsDone(Driver) /\ Goto(Driver, "idle")
        /\ UNCHANGED <<job, started, cancelStart, startCtx, cutIn, tests, ends, poolVars, userVars>>
    BY <1>10 DEF CapReturns, testVars
  <2> QED BY <1>1, <1>2, <1>3, <2>1, GoesOnIdle DEF At
<1> QED BY <1>4, <1>5, <1>6, <1>7, <1>8, <1>9, <1>10 DEF StartStep, Handlers

\* Stop, before and after it cleans up.
LEMMA StopGoesOn == \A p \in Procs : Inv /\ (Cut(p) \/ StopReturns(p)) => Inv'
<1> SUFFICES ASSUME NEW p \in Procs, Inv, Cut(p) \/ StopReturns(p) PROVE Inv' OBVIOUS
<1>1. started \in BOOLEAN /\ cancelStart \in BOOLEAN /\ startCtx \in BOOLEAN
  BY DEF Inv, StateOK, TestTypes
<1>2. {"stopping", "idle"} \subseteq Places \ {"stopClasses", "stopHandlers"} BY DEF Places
<1>3. CASE Cut(p)
  <2>1. /\ At(p, "cut") /\ Goto(p, "stopping") /\ startCtx' = (startCtx \/ cancelStart)
        /\ UNCHANGED <<job, started, cancelStart, cutIn, tests, ends, poolVars, userVars>>
    BY <1>3 DEF Cut
  <2>2. startCtx' \in BOOLEAN BY <1>1, <2>1
  <2> QED BY <1>1, <1>2, <2>1, <2>2, GoesOnIdle DEF At
<1>4. CASE StopReturns(p)
  <2>1. /\ At(p, "stopHandlers") /\ Goto(p, "idle")
        /\ UNCHANGED <<job, started, cancelStart, startCtx, cutIn, tests, ends, poolVars, userVars>>
    BY <1>4 DEF StopReturns, testVars
  <2> QED BY <1>1, <1>2, <2>1, GoesOnIdle DEF At
<1> QED BY <1>3, <1>4

LEMMA StopCleans == \A p \in Procs : Inv /\ (Stopping(p) \/ StopDrops(p)) => Inv'
<1> SUFFICES ASSUME NEW p \in Procs, Inv, Stopping(p) \/ StopDrops(p) PROVE Inv' OBVIOUS
<1>1. PICK l \in {"stopClasses", "stopHandlers"}, f \in [Classes -> Seq(Labels)] :
        /\ Goto(p, l) /\ job' = [job EXCEPT ![p] = f]
        /\ \A c \in Classes : /\ JobOK(f[c])
                              /\ l = "stopClasses" => StopPart(f[c]) /\ Len(f[c]) = 3
                              /\ l = "stopHandlers" => f[c] = <<>> /\ job[p][c] = <<>>
        /\ l = "stopHandlers" => current' = 0 /\ At(p, "stopClasses")
        /\ ~At(p, "idle") /\ (JobsDone(p) \/ pc[p] \notin {"classes", "cap", "stopClasses"})
        /\ UNCHANGED <<testVars, poolVars, userVars>>
  <2>1. CASE Stopping(p)
    <3> DEFINE f == [c \in Classes |-> StopJob]
    <3>1. /\ At(p, "stopping") /\ Goto(p, "stopClasses") /\ job' = [job EXCEPT ![p] = f]
          /\ UNCHANGED <<testVars, poolVars, userVars>>
      BY <2>1 DEF Stopping
    <3>2. f \in [Classes -> Seq(Labels)]
          /\ \A c \in Classes : JobOK(f[c]) /\ StopPart(f[c]) /\ Len(f[c]) = 3
      BY NewJobs DEF JobOK
    <3> HIDE DEF f
    <3> QED BY <3>1, <3>2 DEF At
  <2>2. CASE StopDrops(p)
    <3>1. /\ At(p, "stopClasses") /\ JobsDone(p) /\ Goto(p, "stopHandlers") /\ current' = 0
          /\ UNCHANGED <<job, testVars, poolVars, userVars>>
      BY <2>2 DEF StopDrops, Drop
    <3>2. PICK f \in [Classes -> Seq(Labels)] : job[p] = f /\ \A c \in Classes : f[c] = <<>>
      BY <3>1, NoJob DEF Inv
    <3>3. job' = [job EXCEPT ![p] = f] BY <3>1, <3>2 DEF Inv, CallsOK, CallTypes
    <3>4. UNCHANGED <<testVars, poolVars, userVars>> BY <3>1
    <3>5. \A c \in Classes : JobOK(f[c]) BY <3>2, NewJobs
    <3> QED BY <3>1, <3>2, <3>3, <3>4, <3>5 DEF At
  <2> QED BY <2>1, <2>2
<1>2. UNCHANGED <<started, cancelStart, startCtx, cutIn, tests, ends, target, limit, pool, user,
                  canceled, waiting>>
  BY <1>1 DEF testVars, poolVars, userVars
<1>3. CallsOK /\ l \in Places BY DEF Inv, Places
<1>4. /\ Undisturbed' /\ pc' = [pc EXCEPT ![p] = l] /\ UNCHANGED <<want, calls, alone>>
      /\ \A q \in Procs \ {p} : alone[q] => At(q, "idle")
  BY <1>1, <1>3, GotoKeeps
<1>5. Advances(p, l, f) BY <1>1, <1>2, <1>4 DEF Advances
<1>6. \A c \in Classes : JobOK(f[c]) /\ (l = "stopClasses" => StopPart(f[c]))
                         /\ (f[c] # <<>> => l \in {"classes", "cap", "stopClasses"})
  BY <1>1
<1>7. /\ Jobs' /\ pc' \in [Procs -> Places] /\ job' \in [Procs -> [Classes -> Seq(Labels)]]
      /\ pc'[p] = l /\ job'[p] = f /\ \A q \in Procs \ {p} : pc'[q] = pc[q]
  BY <1>1, <1>3, <1>5, <1>6, AdvanceKeeps
<1>8. CallsOK' BY <1>2, <1>3, <1>4, <1>7 DEF CallsOK, CallTypes, UserTypes
<1>9. StateOK' BY <1>2, <1>4 DEF Inv, StateOK, TestTypes, PoolTypes, Counts, StoppedOnce
<1>10. Cleaning'
  <2>1. ASSUME NEW q \in Procs, q # p, alone'[q] PROVE Clean(q)'
    BY <1>4, <1>7, <2>1 DEF At, Clean
  <2>2. ASSUME alone'[p] PROVE Clean(p)'
    <3>1. CASE l = "stopClasses"
      <4>1. \A c \in Classes : Len(job'[p][c]) = 3 BY <1>1, <1>7, <3>1
      <4>2. ~(pc'[p] = "stopHandlers") BY <1>7, <3>1
      <4>3. ASSUME NEW c \in Classes
            PROVE  ~(Len(job'[p][c]) < 3) /\ Len(job'[p][c]) # 1 /\ Len(job'[p][c]) # 0
        <5>1. PICK n : n = Len(job'[p][c]) OBVIOUS
        <5>2. n = 3 BY <4>1, <5>1
        <5>3. ~(n < 3) /\ n # 1 /\ n # 0 BY <5>2
        <5> QED BY <5>1, <5>3
      <4> QED BY <4>2, <4>3 DEF Clean, At
    <3>2. CASE l = "stopHandlers"
      <4>1. Clean(p) BY <1>4, <2>2 DEF Inv, Cleaning
      <4>2. ASSUME NEW c \in Classes PROVE pool'[c] = "none" /\ Live(c)' = {}
        <5>1. Len(job[p][c]) = 0 /\ Len(job[p][c]) < 3 BY <1>1, <3>2
        <5>2. pool[c] = "none" /\ Live(c) = {} BY <1>1, <3>2, <4>1, <5>1 DEF Clean
        <5> QED BY <1>2, <5>2 DEF Live
      <4> QED BY <1>1, <1>7, <3>2, <4>2 DEF Clean, At
    <3> QED BY <3>1, <3>2
  <2> QED BY <2>1, <2>2 DEF Cleaning
<1> QED BY <1>8, <1>9, <1>10 DEF Inv

-----------------------------------------------------------------------------
\* A goroutine does a step of its job at class c and has r left to do.
LEMMA JobKeeps ==
  ASSUME Inv, NEW p \in Procs, NEW c \in Classes, job[p][c] # <<>>, NEW r,
         job' = [job EXCEPT ![p][c] = r], JobOK(r),
         UNCHANGED <<pc, want, calls, alone, testVars, user>>,
         PoolTypes', \A d \in Classes \ {c} : pool'[d] = pool[d],
         canceled' \in SUBSET Users, waiting' \in [Procs -> [Classes -> SUBSET Users]],
         \A q \in Procs, d \in Classes : q # p \/ d # c => waiting'[q][d] = waiting[q][d],
         waiting'[p][c] # {} => r # <<>> /\ Head(r) = "wait",
         At(p, "stopClasses") => StopPart(r),
         At(p, "stopClasses") /\ alone[p] =>
           /\ Len(r) < 3 => pool'[c] = "none"
           /\ Len(r) = 1 => Live(c) \subseteq waiting'[p][c]
           /\ Len(r) = 0 => Live(c) = {}
  PROVE  Inv'
<1>1. CallsOK BY DEF Inv
<1>2. /\ Jobs' /\ job' \in [Procs -> [Classes -> Seq(Labels)]] /\ job'[p][c] = r
      /\ \A q \in Procs, d \in Classes : q # p \/ d # c => job'[q][d] = job[q][d]
  <2>1. Works(p, c, r) BY DEF Works
  <2> QED BY <1>1, <2>1, WorkKeeps
<1>3. Undisturbed' BY <1>1 DEF CallsOK, Undisturbed, At
<1>4. CallsOK' BY <1>1, <1>2, <1>3 DEF CallsOK, CallTypes, UserTypes
<1>5. StateOK' BY DEF Inv, StateOK, TestTypes, Counts, StoppedOnce, testVars
<1>6. \A d : Live(d)' = Live(d) BY DEF Live
<1>7. pc[p] \in {"classes", "cap", "stopClasses"} BY <1>1 DEF CallsOK, Jobs
<1>8. ASSUME NEW q \in Procs, q # p, alone'[q] PROVE Clean(q)'
  <2>1. At(q, "idle") BY <1>1, <1>7, <1>8 DEF CallsOK, Undisturbed, At
  <2> QED BY <2>1 DEF Clean, At
<1>9. ASSUME alone'[p] PROVE Clean(p)'
  <2>1. CASE pc[p] # "stopClasses" BY <1>7, <2>1 DEF Clean, At
  <2>2. CASE pc[p] = "stopClasses"
    <3>1. Clean(p) /\ At(p, "stopClasses") /\ alone[p] BY <1>9, <2>2 DEF Inv, Cleaning, At
    <3>2. ASSUME NEW d \in Classes
          PROVE  /\ Len(job'[p][d]) < 3 => pool'[d] = "none"
                 /\ Len(job'[p][d]) = 1 => Live(d) \subseteq waiting'[p][d]
                 /\ Len(job'[p][d]) = 0 => Live(d) = {}
      <4>1. CASE d = c BY <1>2, <3>1, <4>1
      <4>2. CASE d # c
        <5>1. job'[p][d] = job[p][d] /\ pool'[d] = pool[d] /\ waiting'[p][d] = waiting[p][d]
          BY <1>2, <4>2
        <5> QED BY <3>1, <5>1 DEF Clean
      <4> QED BY <4>1, <4>2
    <3> QED BY <1>6, <2>2, <3>2 DEF Clean, At
  <2> QED BY <2>1, <2>2
<1>10. Cleaning' BY <1>8, <1>9 DEF Cleaning
<1> QED BY <1>4, <1>5, <1>10 DEF Inv

\* What is known of a goroutine that is about to take a step of its job.
LEMMA Working ==
  ASSUME Inv, NEW p \in Procs, NEW c \in Classes, NEW x, Doing(p, c, x)
  PROVE  /\ job[p][c] # <<>> /\ Head(job[p][c]) = x /\ JobOK(job[p][c])
         /\ x # "wait" => waiting[p][c] = {}
         /\ At(p, "stopClasses") => StopPart(job[p][c]) /\ x \in {"manager", "clear", "wait"}
<1>1. job[p][c] # <<>> /\ Head(job[p][c]) = x BY DEF Doing
<1>2. JobOK(job[p][c]) /\ (At(p, "stopClasses") => StopPart(job[p][c])) BY DEF Inv, CallsOK, Jobs
<1>3. x # "wait" => waiting[p][c] = {} BY <1>1 DEF Inv, CallsOK, Jobs
<1>4. At(p, "stopClasses") => x \in {"manager", "clear", "wait"} BY <1>1, <1>2, StopRest
<1> QED BY <1>1, <1>2, <1>3, <1>4

\* The steps of Cap and Start.
LEMMA CapKeeps ==
  ASSUME Inv, NEW p \in Procs, NEW c \in Classes, NEW x, x \notin {"manager", "clear", "wait"}, Doing(p, c, x),
         NEW y \in Labels \ {"clear"}, Replace(p, c, <<>>) \/ Replace(p, c, <<y>>),
         UNCHANGED <<testVars, user, waiting>>, PoolTypes', canceled' \in SUBSET Users,
         \A d \in Classes \ {c} : pool'[d] = pool[d]
  PROVE  Inv'
<1>1. /\ job[p][c] # <<>> /\ JobOK(job[p][c]) /\ waiting[p][c] = {} /\ ~At(p, "stopClasses")
  BY Working
<1>2. PICK r : JobOK(r) /\ job' = [job EXCEPT ![p][c] = r] /\ UNCHANGED <<pc, want, calls, alone>>
  <2>1. CASE Replace(p, c, <<>>)
    <3>1. JobOK(<<>> \o Tail(job[p][c])) BY <1>1, Rest
    <3>2. job' = [job EXCEPT ![p][c] = <<>> \o Tail(job[p][c])] /\ UNCHANGED <<pc, want, calls, alone>>
      BY <2>1 DEF Replace
    <3> QED BY <3>1, <3>2
  <2>2. CASE Replace(p, c, <<y>>)
    <3>1. JobOK(<<y>> \o Tail(job[p][c])) BY <1>1, Instead
    <3>2. job' = [job EXCEPT ![p][c] = <<y>> \o Tail(job[p][c])] /\ UNCHANGED <<pc, want, calls, alone>>
      BY <2>2 DEF Replace
    <3> QED BY <3>1, <3>2
  <2> QED BY <2>1, <2>2
<1>3. /\ UNCHANGED <<pc, want, calls, alone, testVars, user>> /\ waiting'[p][c] = {}
      /\ waiting' \in [Procs -> [Classes -> SUBSET Users]]
      /\ \A q \in Procs, d \in Classes : waiting'[q][d] = waiting[q][d]
  BY <1>1, <1>2 DEF Inv, CallsOK, UserTypes
<1> QED BY <1>1, <1>2, <1>3, JobKeeps

LEMMA CapStep ==
  \A p \in Procs, c \in Classes :
    Inv /\ (CapSwap(p, c) \/ CapCheck(p, c) \/ CapList(p, c) \/ Launch(p, c) \/ Migrated(p, c)) => Inv'
<1> SUFFICES ASSUME NEW p \in Procs, NEW c \in Classes, Inv,
                    CapSwap(p, c) \/ CapCheck(p, c) \/ CapList(p, c) \/ Launch(p, c) \/ Migrated(p, c)
             PROVE  Inv'
  OBVIOUS
<1>1. PoolTypes /\ canceled \in SUBSET Users /\ want \in 0 .. MaxCount
  BY DEF Inv, StateOK, CallsOK, UserTypes, CallTypes
<1>2. \A d : Listed(d) \subseteq Users BY DEF Listed, Live
<1>3. {"check", "list", "launch", "migrate"} \subseteq Labels \ {"clear"} BY DEF Labels
<1>4. CASE CapSwap(p, c)
  <2>1. /\ Doing(p, c, "swap") /\ target' = [target EXCEPT ![c] = Count(p)]
        /\ Replace(p, c, <<>>) \/ Replace(p, c, <<"check">>)
        /\ UNCHANGED <<testVars, limit, pool, user, canceled, waiting>>
    BY <1>4 DEF CapSwap, userVars
  <2>2. Count(p) \in 0 .. MaxCount BY <1>1, GeneratorAssumption DEF Count
  <2>3. PoolTypes' BY <1>1, <2>1, <2>2 DEF PoolTypes
  <2> QED BY <1>1, <1>3, <2>1, <2>3, CapKeeps
<1>5. CASE CapCheck(p, c)
  <2>1. /\ Doing(p, c, "check") /\ (Replace(p, c, <<"list">>) \/ Replace(p, c, <<"launch">>))
        /\ UNCHANGED <<testVars, target, limit, pool, user, canceled, waiting>>
    BY <1>5 DEF CapCheck, userVars, poolVars
  <2>2. PoolTypes' BY <1>1, <2>1 DEF PoolTypes
  <2>3. PICK y \in Labels \ {"clear"} : Replace(p, c, <<y>>) BY <1>3, <2>1
  <2>4. "check" \notin {"manager", "clear", "wait"} /\ UNCHANGED <<testVars, user, waiting>>
        /\ canceled' \in SUBSET Users /\ \A d \in Classes \ {c} : pool'[d] = pool[d]
    BY <1>1, <2>1
  <2>5. Doing(p, c, "check") /\ (Replace(p, c, <<>>) \/ Replace(p, c, <<y>>)) BY <2>1, <2>3
  <2> QED BY <2>2, <2>4, <2>5, CapKeeps
<1>6. CASE CapList(p, c)
  <2>1. /\ Doing(p, c, "list") /\ Replace(p, c, <<>>)
        /\ \E S \in SUBSET Listed(c) : canceled' = canceled \cup S
        /\ UNCHANGED <<testVars, target, limit, pool, user, waiting>>
    BY <1>6 DEF CapList, poolVars
  <2>2. PoolTypes' BY <1>1, <2>1 DEF PoolTypes
  <2>3. canceled' \in SUBSET Users BY <1>1, <1>2, <2>1
  <2> QED BY <1>1, <1>3, <2>1, <2>2, <2>3, CapKeeps
<1>7. CASE Launch(p, c)
  <2>1. /\ Doing(p, c, "launch") /\ Replace(p, c, <<"migrate">>)
        /\ pool' = [pool EXCEPT ![c] = "migrating"] /\ limit' = [limit EXCEPT ![c] = target[c]]
        /\ \E S \in SUBSET Listed(c) : canceled' = canceled \cup S
        /\ UNCHANGED <<testVars, target, user, waiting>>
    BY <1>7 DEF Launch
  <2>2. PoolTypes' /\ \A d \in Classes \ {c} : pool'[d] = pool[d] BY <1>1, <2>1 DEF PoolTypes
  <2>3. canceled' \in SUBSET Users BY <1>1, <1>2, <2>1
  <2> QED BY <1>1, <1>3, <2>1, <2>2, <2>3, CapKeeps
<1>8. CASE Migrated(p, c)
  <2>1. /\ Doing(p, c, "migrate") /\ Replace(p, c, <<>>) /\ pool' = [pool EXCEPT ![c] = "open"]
        /\ UNCHANGED <<testVars, target, limit, user, canceled, waiting>>
    BY <1>8 DEF Migrated, userVars
  <2>2. PoolTypes' /\ \A d \in Classes \ {c} : pool'[d] = pool[d] BY <1>1, <2>1 DEF PoolTypes
  <2> QED BY <1>1, <1>3, <2>1, <2>2, CapKeeps
<1> QED BY <1>4, <1>5, <1>6, <1>7, <1>8

\* The steps of Spawner.Stop and StopAllThreads.
LEMMA CleanStep ==
  \A p \in Procs, c \in Classes : Inv /\ (ManagerStop(p, c) \/ Clear(p, c) \/ Waited(p, c)) => Inv'
<1> SUFFICES ASSUME NEW p \in Procs, NEW c \in Classes, Inv,
                    ManagerStop(p, c) \/ Clear(p, c) \/ Waited(p, c)
             PROVE  Inv'
  OBVIOUS
<1>1. PICK x \in {"manager", "clear", "wait"} : Doing(p, c, x) /\ Replace(p, c, <<>>)
  BY DEF ManagerStop, Clear, Waited
<1>0. PICK s, r : s = job[p][c] /\ r = Tail(s) OBVIOUS
<1>2. /\ s # <<>> /\ Head(s) = x /\ JobOK(s) /\ (x # "wait" => waiting[p][c] = {})
      /\ At(p, "stopClasses") => StopPart(s)
  BY <1>0, <1>1, Working
<1>3. /\ <<>> \o r = r /\ JobOK(r) /\ Len(r) = Len(s) - 1 /\ Len(s) \in Nat \ {0}
      /\ x = "clear" => r # <<>> /\ Head(r) = "wait"
  BY <1>0, <1>2, Rest
<1>4. ASSUME At(p, "stopClasses")
      PROVE  StopPart(r) /\ (x = "manager" <=> Len(s) = 3) /\ (x = "clear" <=> Len(s) = 2)
             /\ (x = "wait" <=> Len(s) = 1)
  BY <1>0, <1>2, <1>4, StopRest
<1>5. job' = [job EXCEPT ![p][c] = r] /\ UNCHANGED <<pc, want, calls, alone>>
  BY <1>0, <1>1, <1>3 DEF Replace
<1>11. Len(r) = Len(s) - 1 /\ Len(s) \in Nat BY <1>3
<1>6. PoolTypes /\ UserTypes BY DEF Inv, StateOK, CallsOK
<1>7. ASSUME At(p, "stopClasses"), alone[p]
      PROVE  /\ Len(s) < 3 => pool[c] = "none"
             /\ Len(s) = 1 => Live(c) \subseteq waiting[p][c]
  BY <1>0, <1>7 DEF Inv, Cleaning, Clean
<1>8. CASE ManagerStop(p, c)
  <2>1. x = "manager" BY <1>0, <1>2, <1>8 DEF ManagerStop, Doing
  <2>2. pool' = [pool EXCEPT ![c] = "none"] /\ UNCHANGED <<testVars, target, limit, user, canceled, waiting>>
    BY <1>8 DEF ManagerStop, userVars
  <2>3. PoolTypes' /\ pool'[c] = "none" /\ \A d \in Classes \ {c} : pool'[d] = pool[d]
    BY <1>6, <2>2 DEF PoolTypes
  <2>4. ASSUME At(p, "stopClasses") PROVE Len(r) = 2
    <3>1. Len(s) = 3 BY <1>4, <2>1, <2>4
    <3> QED BY <1>11, <3>1
  <2>5. waiting' \in [Procs -> [Classes -> SUBSET Users]] /\ canceled' \in SUBSET Users /\ waiting'[p][c] = {}
    BY <1>2, <1>6, <2>1, <2>2 DEF UserTypes
  <2> QED BY <1>0, <1>2, <1>3, <1>4, <1>5, <2>2, <2>3, <2>4, <2>5, JobKeeps
<1>9. CASE Clear(p, c)
  <2>1. x = "clear" BY <1>0, <1>2, <1>9 DEF Clear, Doing
  <2> DEFINE W == {u \in Live(c) : \A q \in Procs : u \notin waiting[q][c]}
  <2>2. /\ canceled' = canceled \cup Live(c) /\ waiting' = [waiting EXCEPT ![p][c] = W]
        /\ UNCHANGED <<testVars, target, limit, pool, user>>
    BY <1>9 DEF Clear, poolVars
  <2>3. W \in SUBSET Users /\ Live(c) \in SUBSET Users BY DEF Live
  <2>4. At(p, "stopClasses") /\ alone[p] => W = Live(c)
    <3> SUFFICES ASSUME At(p, "stopClasses"), alone[p], NEW q \in Procs PROVE waiting[q][c] = {}
      OBVIOUS
    <3>1. CASE q = p BY <1>2, <2>1, <3>1
    <3>2. CASE q # p
      <4>1. At(q, "idle") BY <3>2 DEF Inv, CallsOK, Undisturbed, At
      <4> QED BY <4>1 DEF Inv, CallsOK, Jobs, At
    <3> QED BY <3>1, <3>2
  <2> HIDE DEF W
  <2>5. /\ waiting' \in [Procs -> [Classes -> SUBSET Users]] /\ waiting'[p][c] = W
        /\ \A q \in Procs, d \in Classes : q # p \/ d # c => waiting'[q][d] = waiting[q][d]
    BY <1>6, <2>2, <2>3 DEF UserTypes
  <2>6. canceled' \in SUBSET Users /\ PoolTypes' BY <1>6, <2>2, <2>3 DEF UserTypes, PoolTypes
  <2>7. ASSUME At(p, "stopClasses") PROVE Len(r) = 1 /\ Len(s) < 3
    <3>1. Len(s) = 2 BY <1>4, <2>1, <2>7
    <3> QED BY <1>11, <3>1
  <2>8. At(p, "stopClasses") /\ alone[p] => pool'[c] = "none" /\ Live(c) \subseteq waiting'[p][c]
    BY <1>7, <2>2, <2>4, <2>5, <2>7
  <2>9. UNCHANGED <<pc, want, calls, alone, testVars, user>> /\ \A d \in Classes \ {c} : pool'[d] = pool[d]
    BY <1>5, <2>2
  <2> QED BY <1>0, <1>2, <1>3, <1>4, <1>5, <2>1, <2>5, <2>6, <2>7, <2>8, <2>9, JobKeeps
<1>10. CASE Waited(p, c)
  <2>1. x = "wait" BY <1>0, <1>2, <1>10 DEF Waited, Doing
  <2>2. waiting[p][c] = {} /\ UNCHANGED <<testVars, target, limit, pool, user, canceled, waiting>>
    BY <1>10 DEF Waited, userVars, poolVars
  <2>3. /\ PoolTypes' /\ canceled' \in SUBSET Users /\ waiting' \in [Procs -> [Classes -> SUBSET Users]]
    BY <1>6, <2>2 DEF PoolTypes, UserTypes
  <2>4. ASSUME At(p, "stopClasses") PROVE Len(r) = 0 /\ Len(s) = 1 /\ Len(s) < 3
    <3>1. Len(s) = 1 BY <1>4, <2>1, <2>4
    <3> QED BY <1>11, <3>1
  <2>5. At(p, "stopClasses") /\ alone[p] => pool'[c] = "none" /\ Live(c) = {}
    BY <1>7, <2>2, <2>4
  <2>6. UNCHANGED <<pc, want, calls, alone, testVars, user>> /\ waiting'[p][c] = {} BY <1>5, <2>2
  <2> QED BY <1>0, <1>2, <1>3, <1>4, <1>5, <2>2, <2>3, <2>4, <2>5, <2>6, JobKeeps
<1> QED BY <1>8, <1>9, <1>10

-----------------------------------------------------------------------------
\* The steps of the users.
LEMMA UsersKeep ==
  ASSUME Inv, UNCHANGED <<pc, job, want, calls, alone, testVars, poolVars>>, UserTypes',
         \A p \in Procs, c \in Classes : waiting'[p][c] \subseteq waiting[p][c],
         \A p \in Procs : alone[p] => Clean(p)'
  PROVE  Inv'
<1>1. Jobs'
  <2>1. ASSUME NEW p \in Procs, NEW c \in Classes, waiting'[p][c] # {}
        PROVE  job[p][c] # <<>> /\ Head(job[p][c]) = "wait"
    <3>1. waiting[p][c] # {} BY <2>1
    <3> QED BY <3>1 DEF Inv, CallsOK, Jobs
  <2> QED BY <2>1 DEF Inv, CallsOK, Jobs, At
<1>2. CallTypes' /\ Undisturbed' BY DEF Inv, CallsOK, CallTypes, Undisturbed, At
<1>3. StateOK'
  BY DEF Inv, StateOK, TestTypes, PoolTypes, Counts, StoppedOnce, testVars, poolVars
<1>4. Cleaning' BY DEF Cleaning
<1> QED BY <1>1, <1>2, <1>3, <1>4 DEF Inv, CallsOK

\* A user starts only where there is a manager, so not where one who is alone has cleaned up.
LEMMA SpawnStep == \A u \in Users, c \in Classes : Inv /\ SpawnUser(u, c) => Inv'
<1> SUFFICES ASSUME NEW u \in Users, NEW c \in Classes, Inv, SpawnUser(u, c) PROVE Inv' OBVIOUS
<1>1. /\ user[u] = "none" /\ pool[c] = "open" /\ user' = [user EXCEPT ![u] = c]
      /\ UNCHANGED <<pc, job, want, calls, alone, testVars, poolVars, canceled, waiting, current, pool>>
  BY DEF SpawnUser, callVars, poolVars, aggVars
<1>2. user \in [Users -> Classes \cup {"none"}] /\ canceled \in SUBSET Users
      /\ waiting \in [Procs -> [Classes -> SUBSET Users]] /\ "none" \notin Classes
  BY GeneratorAssumption DEF Inv, CallsOK, UserTypes
<1>3. UserTypes' BY <1>1, <1>2 DEF UserTypes
<1>4. \A d \in Classes \ {c} : Live(d)' = Live(d) BY <1>1, <1>2 DEF Live
<1>5. ASSUME NEW p \in Procs, alone[p] PROVE Clean(p)'
  <2>1. Clean(p) BY <1>5 DEF Inv, Cleaning
  <2>2. ~At(p, "stopHandlers") BY <1>1, <2>1 DEF Clean
  <2>3. ASSUME At(p, "stopClasses"), NEW d \in Classes
        PROVE  /\ Len(job[p][d]) < 3 => pool[d] = "none"
               /\ Len(job[p][d]) = 1 => Live(d)' \subseteq waiting[p][d]
               /\ Len(job[p][d]) = 0 => Live(d)' = {}
    <3>1. CASE d # c BY <1>4, <2>1, <2>3, <3>1 DEF Clean
    <3>2. CASE d = c
      <4>1. PICK n : n = Len(job[p][c]) OBVIOUS
      <4>2. ~(n < 3) BY <1>1, <2>1, <2>3, <4>1 DEF Clean
      <4>3. n # 1 /\ n # 0 BY <4>2
      <4> QED BY <3>2, <4>1, <4>2, <4>3
    <3> QED BY <3>1, <3>2
  <2> QED BY <1>1, <2>2, <2>3 DEF Clean, At
<1>6. \A p \in Procs, d \in Classes : waiting'[p][d] \subseteq waiting[p][d] BY <1>1
<1> QED BY <1>1, <1>3, <1>5, <1>6, UsersKeep

\* A user takes an aggregator: one who is alone has not stopped all users yet.
LEMMA JoinStep == \A u \in Users : Inv /\ (JoinNew(u) \/ JoinCurrent(u)) => Inv'
<1> SUFFICES ASSUME NEW u \in Users, Inv, JoinNew(u) \/ JoinCurrent(u) PROVE Inv' OBVIOUS
<1>1. u \in Starting
      /\ UNCHANGED <<pc, job, want, calls, alone, testVars, poolVars, pool, user, canceled, waiting>>
  BY DEF JoinNew, JoinCurrent, callVars, userVars, poolVars
<1>2. UserTypes /\ user[u] \in Classes
  BY <1>1 DEF Inv, CallsOK, UserTypes, Starting
<1>3. UserTypes' BY <1>1, <1>2 DEF UserTypes
<1>4. u \in Live(user[u]) BY DEF Live
<1>5. \A d : Live(d)' = Live(d) BY <1>1 DEF Live
<1>6. ASSUME NEW p \in Procs, alone[p] PROVE Clean(p)'
  <2>1. Clean(p) BY <1>6 DEF Inv, Cleaning
  <2>2. ~At(p, "stopHandlers") BY <1>2, <1>4, <2>1 DEF Clean
  <2> QED BY <1>1, <1>5, <2>1, <2>2 DEF Clean, At
<1>7. \A p \in Procs, d \in Classes : waiting'[p][d] \subseteq waiting[p][d] BY <1>1
<1> QED BY <1>1, <1>3, <1>6, <1>7, UsersKeep

LEMMA LeaveStep == \A u \in Users : Inv /\ Leave(u) => Inv'
<1> SUFFICES ASSUME NEW u \in Users, Inv, Leave(u) PROVE Inv' OBVIOUS
<1>1. /\ user' = [user EXCEPT ![u] = "none"] /\ canceled' = canceled \ {u}
      /\ waiting' = [p \in Procs |-> [c \in Classes |-> waiting[p][c] \ {u}]]
      /\ UNCHANGED <<pc, job, want, calls, alone, testVars, poolVars, pool, current>>
  BY DEF Leave, callVars, poolVars
<1>2. user \in [Users -> Classes \cup {"none"}] /\ canceled \in SUBSET Users
      /\ waiting \in [Procs -> [Classes -> SUBSET Users]] /\ "none" \notin Classes
  BY GeneratorAssumption DEF Inv, CallsOK, UserTypes
<1>3. \A p \in Procs, d \in Classes : waiting'[p][d] = waiting[p][d] \ {u} BY <1>1
<1>4. UserTypes'
  <2>1. user' \in [Users -> Classes \cup {"none"}] /\ canceled' \in SUBSET Users BY <1>1, <1>2
  <2>2. \A p \in Procs, d \in Classes : waiting[p][d] \ {u} \in SUBSET Users BY <1>2
  <2>3. waiting' \in [Procs -> [Classes -> SUBSET Users]] BY <1>1, <2>2
  <2> QED BY <2>1, <2>3 DEF UserTypes
<1>5. \A d \in Classes : Live(d)' = Live(d) \ {u} BY <1>1, <1>2 DEF Live
<1>6. ASSUME NEW p \in Procs, alone[p] PROVE Clean(p)'
  <2>1. Clean(p) BY <1>6 DEF Inv, Cleaning
  <2>2. ASSUME At(p, "stopClasses"), NEW d \in Classes
        PROVE  /\ Len(job[p][d]) < 3 => pool[d] = "none"
               /\ Len(job[p][d]) = 1 => Live(d)' \subseteq waiting'[p][d]
               /\ Len(job[p][d]) = 0 => Live(d)' = {}
    BY <1>3, <1>5, <2>1, <2>2 DEF Clean
  <2>3. ASSUME At(p, "stopHandlers")
        PROVE  current = 0 /\ \A d \in Classes : pool[d] = "none" /\ Live(d)' = {}
    BY <1>5, <2>1, <2>3 DEF Clean
  <2> QED BY <1>1, <2>2, <2>3 DEF Clean, At
<1>7. \A p \in Procs, d \in Classes : waiting'[p][d] \subseteq waiting[p][d] BY <1>3
<1> QED BY <1>1, <1>4, <1>6, <1>7, UsersKeep

LEMMA InvKept == Inv /\ UNCHANGED vars => Inv'
<1> SUFFICES ASSUME Inv, UNCHANGED vars PROVE Inv' OBVIOUS
<1>1. UNCHANGED <<pc, job, want, calls, alone, testVars, poolVars, pool, user, canceled, waiting, current>>
  BY DEF vars, callVars, userVars, aggVars, poolVars
<1>2. UserTypes' BY <1>1 DEF Inv, CallsOK, UserTypes
<1>3. \A p \in Procs : alone[p] => Clean(p)' BY <1>1 DEF Inv, Cleaning, Clean, At, Live
<1>4. \A p \in Procs, d \in Classes : waiting'[p][d] \subseteq waiting[p][d] BY <1>1
<1> QED BY <1>1, <1>2, <1>3, <1>4, UsersKeep

-----------------------------------------------------------------------------
(***************************************************************************)
(* The invariant holds at first and every step keeps it.                   *)
(***************************************************************************)
LEMMA InvNext == Inv /\ [Next]_vars => Inv'
<1> SUFFICES ASSUME Inv, [Next]_vars PROVE Inv' OBVIOUS
<1>1. CASE CallStart \/ StartStep \/ Handlers \/ CapReturns BY <1>1, StartCalled, StartGoesOn
<1>2. CASE CallStopUsers \/ \E c \in Classes, n \in 0 .. MaxCount : CallSpawn(c, n)
  BY <1>2, SpawnCalled, StopUsersCalled
<1>3. CASE \E p \in Procs : CallStop(p) \/ StopStep(p)
  BY <1>3, StopCalled, StopGoesOn, StopCleans DEF StopStep
<1>4. CASE \E p \in Procs, c \in Classes : JobStep(p, c) BY <1>4, CapStep, CleanStep DEF JobStep
<1>5. CASE \E u \in Users : JoinNew(u) \/ JoinCurrent(u) \/ Leave(u) \/ \E c \in Classes : SpawnUser(u, c)
  BY <1>5, SpawnStep, JoinStep, LeaveStep
<1>6. CASE UNCHANGED vars BY <1>6, InvKept
<1> QED BY <1>1, <1>2, <1>3, <1>4, <1>5, <1>6 DEF Next

LEMMA InitialInv == Init => Inv
<1> SUFFICES ASSUME Init PROVE Inv OBVIOUS
<1>1. MaxCount \in Nat /\ MaxCalls \in Nat /\ "none" \notin Classes BY GeneratorAssumption
<1>2. \A p \in Procs, c \in Classes : job[p][c] = <<>> /\ waiting[p][c] = {} /\ pc[p] = "idle" /\ ~alone[p]
  BY DEF Init, Idle
<1>3. CallTypes
  <2>1. "idle" \in Places BY DEF Places
  <2>2. Idle \in [Classes -> Seq(Labels)] BY DEF Idle
  <2> QED BY <1>1, <2>1, <2>2 DEF Init, CallTypes
<1>4. UserTypes BY DEF Init, UserTypes
<1>5. Jobs BY <1>2, NewJobs DEF Jobs, At
<1>6. Undisturbed BY DEF Init, Undisturbed, At
<1>7. StateOK
  <2>1. TestTypes
    <3>1. 0 \in 0 .. MaxCalls BY <1>1
    <3>2. /\ started = FALSE /\ cancelStart = FALSE /\ startCtx = FALSE
          /\ cutIn = "no" /\ tests = 0 /\ ends = 0
      BY DEF Init
    <3> QED BY <3>1, <3>2 DEF TestTypes
  <2>2. PoolTypes BY <1>1 DEF Init, PoolTypes
  <2>3. started = FALSE /\ tests = 0 /\ ends = 0 /\ calls = 0 BY DEF Init
  <2>4. Counts BY <2>3 DEF Counts, StoppedOnce
  <2> QED BY <2>1, <2>2, <2>4 DEF StateOK
<1>8. Cleaning BY DEF Init, Cleaning
<1> QED BY <1>3, <1>4, <1>5, <1>6, <1>7, <1>8 DEF Inv, CallsOK

LEMMA InitialReferences == Init => AggOK
<1> SUFFICES ASSUME Init PROVE AggOK OBVIOUS
<1>1. MaxAggs \in Nat /\ Share \in Nat \ {0} BY GeneratorAssumption
<1>2. AggTypes
  <2>1. [refs |-> 0, closed |-> FALSE] \in Aggregators BY DEF Aggregators
  <2> QED BY <1>1, <2>1 DEF Init, AggTypes
<1>3. user \in [Users -> Classes \cup {"none"}] /\ Owners BY DEF Init, Owners
<1>4. ReferencesShared
  <2>1. 1 .. created = {} BY DEF Init
  <2> QED BY <2>1 DEF ReferencesShared
<1>5. Quota
  <2>1. Starting = {} BY DEF Init, Starting
  <2>2. Cardinality(Starting) = 0 BY <2>1, FS_EmptySet
  <2> QED BY <1>1, <2>2 DEF Init, Quota
<1> QED BY <1>2, <1>3, <1>4, <1>5 DEF AggOK

LEMMA Parts == IndInv <=> Inv /\ AggOK
BY TypeParts DEF IndInv, Inv, AggOK, CallsOK, StateOK, UserTypes

LEMMA Invariance == Spec => []IndInv
<1>1. Init => IndInv BY InitialInv, InitialReferences, Parts
<1>2. IndInv /\ [Next]_vars => IndInv'
  <2> SUFFICES ASSUME IndInv, [Next]_vars PROVE IndInv' OBVIOUS
  <2>1. Inv' /\ AggOK' BY InvNext, References, Parts
  <2>2. TypeOK' BY <2>1 DEF Inv, AggOK, CallsOK, StateOK, TypeOK, CallTypes, TestTypes, PoolTypes,
                            UserTypes, AggTypes, Aggregators
  <2> QED BY <2>1, <2>2 DEF IndInv, Inv, AggOK, CallsOK, StateOK
<1> QED BY <1>1, <1>2, PTL DEF Spec

-----------------------------------------------------------------------------
\* The variables have their types: the generator never refers to an aggregator that was not
\* created, and the place of the next user stays below StatsAggregationUsers.
THEOREM TypeCorrect == Spec => []TypeOK
<1>1. IndInv => TypeOK BY DEF IndInv
<1> QED BY <1>1, Invariance, PTL

\* However the calls of the generator and its users overlap, an aggregator has one reference
\* for each of its users and one for the generator while it is the current one, and its
\* channel is closed by the last of them.
THEOREM ReferencesExact == Spec => []ReferencesShared
<1>1. IndInv => ReferencesShared BY DEF IndInv
<1> QED BY <1>1, Invariance, PTL

\* No more Stops go ahead than tests have begun, so that the handlers that end a test run
\* once, however many goroutines stop it.
THEOREM StoppedAtMostOnce == Spec => []StoppedOnce
<1>1. IndInv => StoppedOnce BY DEF IndInv, Counts
<1> QED BY <1>1, Invariance, PTL

\* A Stop that no call overlaps leaves no manager, no user and no open aggregator, for any
\* number of classes and users, and whatever overlapping calls have left before.
THEOREM StopsCleanUp == Spec => []StopCleansUp
<1>1. IndInv => StopCleansUp
  <2> SUFFICES ASSUME IndInv, NEW p \in Procs, At(p, "stopHandlers"), alone[p]
               PROVE  /\ \A c \in Classes : pool[c] = "none" /\ Live(c) = {}
                      /\ current = 0 /\ \A i \in 1 .. created : agg[i].closed
    BY DEF StopCleansUp
  <2>1. current = 0 /\ \A c \in Classes : pool[c] = "none" /\ Live(c) = {}
    BY DEF IndInv, Cleaning, Clean
  <2>2. \A u \in Users : rep[u] = 0
    <3>1. \A u \in Users : user[u] \in Classes \cup {"none"} BY DEF IndInv, TypeOK
    <3>2. \A u \in Users : user[u] = "none" BY <2>1, <3>1 DEF Live
    <3> QED BY <3>2 DEF IndInv, Owners
  <2>3. ASSUME NEW i \in 1 .. created PROVE agg[i].closed
    <3>1. created \in Nat BY GeneratorAssumption DEF IndInv, TypeOK
    <3>2. i # 0 /\ current # i BY <2>1, <3>1
    <3>3. Holders(i) = {} BY <2>2, <3>2 DEF Holders
    <3>4. Cardinality(Holders(i)) = 0 BY <3>3, FS_EmptySet
    <3>5. agg[i].refs = Cardinality(Holders(i)) + (IF current = i THEN 1 ELSE 0)
          /\ (agg[i].closed <=> agg[i].refs = 0)
      BY DEF IndInv, ReferencesShared
    <3> QED BY <3>2, <3>4, <3>5
  <2> QED BY <2>1, <2>3
<1> QED BY <1>1, Invariance, PTL
=============================================================================
