------------------------- MODULE StatsEntriesProofs --------------------------
(***************************************************************************)
(* Proof that a Stats says of its requests what a calculation over all of  *)
(* them says, for every set of requests, any number of them, every clock.  *)
(* What is calculated of a bag of requests splits over the union of bags;  *)
(* so merging is union, and adding a request is merging a bag of one.      *)
(***************************************************************************)
EXTENDS StatsEntriesProps, Induction

IsReports(B) == IsABag(B) /\ IsFiniteSet(BagToSet(B)) /\ BagToSet(B) \subseteq Reported
Copies(r, B) == IF r \in BagToSet(B) THEN B[r] ELSE 0

\* The fields of a request that is reported are numbers.
LEMMA ReportType ==
  \A r \in Reported : r.rt \in Int /\ r.size \in Int /\ r.at \in Nat \ {0} /\ r.at \div Second \in Nat
<1> SUFFICES ASSUME NEW q \in Requests, NEW t \in 1 .. MaxClock
             PROVE  LET r == Stamped(q, t)
                    IN  r.rt \in Int /\ r.size \in Int /\ r.at \in Nat \ {0} /\ r.at \div Second \in Nat
  BY DEF Reported
<1>1. t \in Nat \ {0} BY EntriesAssumption
<1>2. t \div Second \in Nat BY <1>1, EntriesAssumption
<1>3. q.rt \in Int /\ q.size \in Int BY EntriesAssumption
<1> QED BY <1>1, <1>2, <1>3 DEF Stamped

\* What the functions of requests are, at a request.
LEMMA FunctionsAt ==
  /\ \A r \in Reported :
       /\ KeyOf[r] = r.key /\ Time[r] = r.at /\ SecondOf[r] = r.at \div Second /\ One[r] = 1
       /\ SizeOf[r] = r.size /\ Duration[r] = r.rt /\ Bucket[r] = Rounded(r.rt)
       /\ KeyOfError[r] = ErrorKey(r) /\ NameOfError[r] = Encode(ErrorKey(r))
  /\ \A r \in Reported : /\ Time[r] \in Nat \ {0} /\ One[r] \in Int
                         /\ SizeOf[r] \in Int /\ Duration[r] \in Int
<1>1. \A r \in Reported :
       /\ KeyOf[r] = r.key /\ Time[r] = r.at /\ SecondOf[r] = r.at \div Second /\ One[r] = 1
       /\ SizeOf[r] = r.size /\ Duration[r] = r.rt /\ Bucket[r] = Rounded(r.rt)
       /\ KeyOfError[r] = ErrorKey(r) /\ NameOfError[r] = Encode(ErrorKey(r))
  BY DEF KeyOf, Time, SecondOf, One, SizeOf, Duration, Bucket, KeyOfError, NameOfError
<1> QED BY <1>1, ReportType

-----------------------------------------------------------------------------
\* Bags of reports.
LEMMA BagOfBoth ==
  ASSUME NEW B, IsReports(B), NEW C, IsReports(C)
  PROVE  /\ IsReports(B (+) C) /\ BagToSet(B (+) C) = BagToSet(B) \cup BagToSet(C)
         /\ \A r \in BagToSet(B (+) C) : (B (+) C)[r] = Copies(r, B) + Copies(r, C)
<1>1. BagToSet(B (+) C) = BagToSet(B) \cup BagToSet(C) BY DEF BagToSet, (+)
<1>2. \A r \in BagToSet(B (+) C) : (B (+) C)[r] = Copies(r, B) + Copies(r, C)
  BY DEF BagToSet, (+), Copies
<1>3. IsFiniteSet(BagToSet(B (+) C)) BY <1>1, FS_Union DEF IsReports
<1>4. IsABag(B (+) C)
  <2>1. \A r \in BagToSet(B (+) C) : Copies(r, B) + Copies(r, C) \in {n \in Nat : n > 0}
    BY <1>1 DEF IsReports, IsABag, Copies, BagToSet
  <2>2. B (+) C = [r \in BagToSet(B (+) C) |-> (B (+) C)[r]] BY DEF BagToSet, (+)
  <2> QED BY <1>2, <2>1, <2>2 DEF IsABag, BagToSet
<1> QED BY <1>1, <1>2, <1>3, <1>4 DEF IsReports

\* The bag of one request.
LEMMA BagOfOne ==
  ASSUME NEW r \in Reported
  PROVE  /\ IsReports(SetToBag({r})) /\ BagToSet(SetToBag({r})) = {r} /\ SetToBag({r})[r] = 1
<1>1. BagToSet(SetToBag({r})) = {r} /\ SetToBag({r})[r] = 1 BY DEF SetToBag, BagToSet
<1>2. IsABag(SetToBag({r})) BY DEF IsABag, SetToBag
<1>3. IsFiniteSet({r}) BY FS_Singleton
<1> QED BY <1>1, <1>2, <1>3 DEF IsReports

\* The empty bag, and that only it has no requests.
LEMMA BagOfNone == IsReports(EmptyBag) /\ BagToSet(EmptyBag) = {}
<1>1. BagToSet(EmptyBag) = {} BY DEF BagToSet, EmptyBag, SetToBag
<1>2. IsABag(EmptyBag) BY DEF IsABag, EmptyBag, SetToBag
<1> QED BY <1>1, <1>2, FS_EmptySet DEF IsReports

LEMMA NoReports == ASSUME NEW B, IsReports(B), BagToSet(B) = {} PROVE B = EmptyBag
BY DEF IsReports, IsABag, BagToSet, EmptyBag, SetToBag

\* A part of a bag has the copies of the bag.
LEMMA BagOnly ==
  ASSUME NEW B, IsReports(B), NEW T
  PROVE  /\ IsReports(Only(T, B)) /\ BagToSet(Only(T, B)) = BagToSet(B) \cap T
         /\ \A r \in BagToSet(B) \cap T : Only(T, B)[r] = B[r]
<1>1. BagToSet(Only(T, B)) = BagToSet(B) \cap T BY DEF BagToSet, Only
<1>2. \A r \in BagToSet(B) \cap T : Only(T, B)[r] = B[r] BY DEF Only
<1>3. IsFiniteSet(BagToSet(Only(T, B))) BY <1>1, FS_Subset DEF IsReports
<1>4. IsABag(Only(T, B)) BY DEF IsReports, IsABag, Only, BagToSet
<1> QED BY <1>1, <1>2, <1>3, <1>4 DEF IsReports

\* A bag of reports is what it has copies of.
LEMMA BagsEqual ==
  ASSUME NEW B, IsReports(B), NEW C, IsReports(C), BagToSet(B) = BagToSet(C),
         \A r \in BagToSet(B) : B[r] = C[r]
  PROVE  B = C
BY DEF IsReports, IsABag, BagToSet

\* A part of a union is the union of the parts.
LEMMA OnlyUnion ==
  ASSUME NEW B, IsReports(B), NEW C, IsReports(C), NEW T
  PROVE  Only(T, B (+) C) = Only(T, B) (+) Only(T, C)
<1>1. IsReports(Only(T, B)) /\ IsReports(Only(T, C)) /\ IsReports(B (+) C) BY BagOnly, BagOfBoth
<1>2. IsReports(Only(T, B (+) C)) /\ IsReports(Only(T, B) (+) Only(T, C)) BY <1>1, BagOnly, BagOfBoth
<1>3. BagToSet(Only(T, B (+) C)) = (BagToSet(B) \cup BagToSet(C)) \cap T BY <1>1, BagOnly, BagOfBoth
<1>4. BagToSet(Only(T, B) (+) Only(T, C)) = (BagToSet(B) \cap T) \cup (BagToSet(C) \cap T)
  BY <1>1, BagOnly, BagOfBoth
<1>5. ASSUME NEW r \in (BagToSet(B) \cup BagToSet(C)) \cap T
      PROVE  Only(T, B (+) C)[r] = (Only(T, B) (+) Only(T, C))[r]
  <2>1. Only(T, B (+) C)[r] = Copies(r, B) + Copies(r, C)
    BY <1>1, <1>5, BagOnly, BagOfBoth
  <2>2. (Only(T, B) (+) Only(T, C))[r] = Copies(r, Only(T, B)) + Copies(r, Only(T, C))
    BY <1>1, <1>4, <1>5, BagOfBoth
  <2>3. Copies(r, Only(T, B)) = Copies(r, B) /\ Copies(r, Only(T, C)) = Copies(r, C)
    BY <1>5, BagOnly DEF Copies
  <2> QED BY <2>1, <2>2, <2>3
<1> QED BY <1>2, <1>3, <1>4, <1>5, BagsEqual

\* What is in none of two disjoint sets is left out of both.
LEMMA OnlySplits ==
  ASSUME NEW B, IsReports(B), NEW T, NEW U, BagToSet(B) \cap T \cap U = {}
  PROVE  Only(T \cup U, B) = Only(T, B) (+) Only(U, B)
<1>1. IsReports(Only(T, B)) /\ IsReports(Only(U, B)) /\ IsReports(Only(T \cup U, B)) BY BagOnly
<1>2. IsReports(Only(T, B) (+) Only(U, B)) BY <1>1, BagOfBoth
<1>3. BagToSet(Only(T \cup U, B)) = BagToSet(B) \cap (T \cup U) BY BagOnly
<1>4. BagToSet(Only(T, B) (+) Only(U, B)) = (BagToSet(B) \cap T) \cup (BagToSet(B) \cap U)
  BY <1>1, BagOnly, BagOfBoth
<1>5. ASSUME NEW r \in BagToSet(B) \cap (T \cup U)
      PROVE  Only(T \cup U, B)[r] = (Only(T, B) (+) Only(U, B))[r]
  <2>1. Only(T \cup U, B)[r] = B[r] BY <1>5, BagOnly
  <2>2. (Only(T, B) (+) Only(U, B))[r] = Copies(r, Only(T, B)) + Copies(r, Only(U, B))
    BY <1>1, <1>4, <1>5, BagOfBoth
  <2>3. B[r] \in Nat BY <1>5 DEF IsReports, IsABag, BagToSet
  <2>4. CASE r \in T
    <3>1. Copies(r, Only(T, B)) = B[r] /\ Copies(r, Only(U, B)) = 0
      BY <1>5, <2>4, BagOnly DEF Copies
    <3> QED BY <2>1, <2>2, <2>3, <3>1
  <2>5. CASE r \in U
    <3>1. Copies(r, Only(T, B)) = 0 /\ Copies(r, Only(U, B)) = B[r]
      BY <1>5, <2>5, BagOnly DEF Copies
    <3> QED BY <2>1, <2>2, <2>3, <3>1
  <2> QED BY <1>5, <2>4, <2>5
<1> QED BY <1>1, <1>2, <1>3, <1>4, <1>5, BagsEqual

\* A union with nothing changes nothing.
LEMMA UnionWithNone == ASSUME NEW B, IsReports(B) PROVE B (+) EmptyBag = B
<1>1. IsReports(EmptyBag) /\ BagToSet(EmptyBag) = {} BY BagOfNone
<1>2. IsReports(B (+) EmptyBag) /\ BagToSet(B (+) EmptyBag) = BagToSet(B) BY <1>1, BagOfBoth
<1>3. ASSUME NEW r \in BagToSet(B) PROVE (B (+) EmptyBag)[r] = B[r]
  <2>1. (B (+) EmptyBag)[r] = B[r] + 0 BY <1>1, <1>2, <1>3, BagOfBoth DEF Copies
  <2>2. B[r] \in Nat BY <1>3 DEF IsReports, IsABag, BagToSet
  <2> QED BY <2>1, <2>2
<1> QED BY <1>2, <1>3, BagsEqual

-----------------------------------------------------------------------------
\* Sums.
LEMMA SumOver ==
  ASSUME NEW B, IsReports(B), NEW f, \A r \in BagToSet(B) : f[r] \in Int,
         NEW U, IsFiniteSet(U), BagToSet(B) \subseteq U, NEW g,
         \A r \in U : g[r] = IF r \in BagToSet(B) THEN B[r] * f[r] ELSE 0
  PROVE  Sum(f, B) = SumFunctionOnSet(g, U)
<1> DEFINE h == [r \in BagToSet(B) |-> B[r] * f[r]]
<1>1. Sum(f, B) = SumFunctionOnSet(h, BagToSet(B)) BY DEF Sum, SumFunction
<1>2. \A r \in BagToSet(B) : B[r] \in Int BY DEF IsReports, IsABag, BagToSet
<1>3. \A r \in BagToSet(B) : B[r] * f[r] \in Int BY <1>2
<1>4. \A r \in U : g[r] \in Int BY <1>3
<1>5. SumFunctionOnSet(g, U) = SumFunctionOnSet(g, BagToSet(B)) BY <1>4, SumSupport
<1>6. SumFunctionOnSet(h, BagToSet(B)) = SumFunctionOnSet(g, BagToSet(B))
  BY SumEqual DEF IsReports
<1> QED BY <1>1, <1>5, <1>6

\* Sums over a union are added.
LEMMA SumUnion ==
  ASSUME NEW B, IsReports(B), NEW C, IsReports(C), NEW f, \A r \in Reported : f[r] \in Int
  PROVE  Sum(f, B (+) C) = Sum(f, B) + Sum(f, C)
<1> DEFINE U == BagToSet(B (+) C)
           b == [r \in U |-> IF r \in BagToSet(B) THEN B[r] * f[r] ELSE 0]
           c == [r \in U |-> IF r \in BagToSet(C) THEN C[r] * f[r] ELSE 0]
           d == [r \in U |-> IF r \in U THEN (B (+) C)[r] * f[r] ELSE 0]
<1>1. /\ IsReports(B (+) C) /\ U = BagToSet(B) \cup BagToSet(C)
      /\ \A r \in U : (B (+) C)[r] = Copies(r, B) + Copies(r, C)
  BY BagOfBoth
<1>2. IsFiniteSet(U) /\ \A r \in U : f[r] \in Int BY <1>1 DEF IsReports
<1>3. Sum(f, B) = SumFunctionOnSet(b, U) BY <1>1, <1>2, SumOver
<1>4. Sum(f, C) = SumFunctionOnSet(c, U) BY <1>1, <1>2, SumOver
<1>5. Sum(f, B (+) C) = SumFunctionOnSet(d, U) BY <1>1, <1>2, SumOver
<1>6. ASSUME NEW r \in U PROVE b[r] \in Int /\ c[r] \in Int /\ d[r] = b[r] + c[r]
  <2>1. b[r] = Copies(r, B) * f[r] /\ c[r] = Copies(r, C) * f[r] BY <1>2 DEF Copies
  <2>2. Copies(r, B) \in Int /\ Copies(r, C) \in Int BY DEF Copies, IsReports, IsABag, BagToSet
  <2>3. d[r] = (Copies(r, B) + Copies(r, C)) * f[r] BY <1>1
  <2>4. \A x, y, z \in Int : (x + y) * z = x * z + y * z /\ x * z \in Int OBVIOUS
  <2> QED BY <1>2, <2>1, <2>2, <2>3, <2>4
<1> HIDE DEF b, c, d, U
<1>7. SumFunctionOnSet(d, U) = SumFunctionOnSet(b, U) + SumFunctionOnSet(c, U)
  BY <1>2, <1>6, SumAddition
<1> QED BY <1>3, <1>4, <1>5, <1>7

\* Sums are integers; the sums over no request and over one.
LEMMA SumOfReports ==
  ASSUME NEW f, \A r \in Reported : f[r] \in Int
  PROVE  /\ \A B : IsReports(B) => Sum(f, B) \in Int
         /\ Sum(f, EmptyBag) = 0
         /\ \A r \in Reported : Sum(f, SetToBag({r})) = f[r]
<1> DEFINE h(B) == [r \in BagToSet(B) |-> B[r] * f[r]]
<1>1. \A B : Sum(f, B) = SumFunctionOnSet(h(B), BagToSet(B)) BY DEF Sum, SumFunction
<1>2. ASSUME NEW B, IsReports(B) PROVE Sum(f, B) \in Int
  <2>1. \A r \in BagToSet(B) : B[r] \in Int /\ f[r] \in Int BY <1>2 DEF IsReports, IsABag, BagToSet
  <2>2. \A r \in BagToSet(B) : h(B)[r] \in Int BY <2>1
  <2>3. IsFiniteSet(BagToSet(B)) BY <1>2 DEF IsReports
  <2> HIDE DEF h
  <2> QED BY <1>1, <2>2, <2>3, SumType
<1>3. Sum(f, EmptyBag) = 0
  <2>1. BagToSet(EmptyBag) = {} BY BagOfNone
  <2> HIDE DEF h
  <2> QED BY <1>1, <2>1, FS_EmptySet, SumStep
<1>4. ASSUME NEW r \in Reported PROVE Sum(f, SetToBag({r})) = f[r]
  <2> DEFINE B == SetToBag({r})
             g == h(B)
  <2>1. BagToSet(B) = {r} /\ B[r] = 1 BY BagOfOne
  <2>2. g[r] = f[r] BY <2>1
  <2>3. Sum(f, B) = SumFunctionOnSet(g, {r}) BY <1>1, <2>1
  <2> HIDE DEF g, B
  <2>4. {r} \ {r} = {} /\ IsFiniteSet({r}) BY FS_Singleton
  <2>5. SumFunctionOnSet(g, {r}) = g[r] + SumFunctionOnSet(g, {r} \ {r}) BY <2>2, <2>4, SumRemove
  <2>6. SumFunctionOnSet(g, {}) = 0 BY FS_EmptySet, SumStep
  <2> QED BY <2>2, <2>3, <2>4, <2>5, <2>6 DEF B
<1> QED BY <1>2, <1>3, <1>4

\* The same of the number of requests.
LEMMA CountOfReports ==
  /\ \A B : IsReports(B) => Count(B) \in Int
  /\ Count(EmptyBag) = 0
  /\ \A r \in Reported : Count(SetToBag({r})) = 1
  /\ \A B, C : IsReports(B) /\ IsReports(C) => Count(B (+) C) = Count(B) + Count(C)
<1>1. \A r \in Reported : One[r] \in Int /\ One[r] = 1 BY FunctionsAt
<1>2. /\ \A B : IsReports(B) => Sum(One, B) \in Int
      /\ Sum(One, EmptyBag) = 0
      /\ \A r \in Reported : Sum(One, SetToBag({r})) = One[r]
  BY <1>1, SumOfReports
<1>3. \A B, C : IsReports(B) /\ IsReports(C) => Sum(One, B (+) C) = Sum(One, B) + Sum(One, C)
  BY <1>1, SumUnion
<1> QED BY <1>1, <1>2, <1>3 DEF Count

-----------------------------------------------------------------------------
\* Values, and what is counted by them.
LEMMA ValuesUnion ==
  ASSUME NEW B, IsReports(B), NEW C, IsReports(C), NEW f
  PROVE  Values(f, B (+) C) = Values(f, B) \cup Values(f, C)
<1>1. BagToSet(B (+) C) = BagToSet(B) \cup BagToSet(C) BY BagOfBoth
<1> QED BY <1>1 DEF Values

\* The values of no request and of one.
LEMMA ValuesOfOne ==
  ASSUME NEW f
  PROVE  Values(f, EmptyBag) = {} /\ \A r \in Reported : Values(f, SetToBag({r})) = {f[r]}
BY BagOfNone, BagOfOne DEF Values

\* No request has a value that is none of the values.
LEMMA NoneWhere ==
  ASSUME NEW B, IsReports(B), NEW f, NEW v, v \notin Values(f, B)
  PROVE  Only(Where(f, v), B) = EmptyBag
<1>1. IsReports(Only(Where(f, v), B)) /\ BagToSet(Only(Where(f, v), B)) = BagToSet(B) \cap Where(f, v)
  BY BagOnly
<1>2. BagToSet(B) \cap Where(f, v) = {} BY DEF Values, Where
<1> QED BY <1>1, <1>2, NoReports

\* Histograms of a union are added, as the code merges them.
LEMMA CountByUnion ==
  ASSUME NEW B, IsReports(B), NEW C, IsReports(C), NEW f
  PROVE  CountBy(f, B (+) C) = CountBy(f, B) (+) CountBy(f, C)
<1> DEFINE V == Values(f, B) \cup Values(f, C)
           part(v, A) == Count(Only(Where(f, v), A))
<1>1. Values(f, B (+) C) = V BY ValuesUnion
<1>2. ASSUME NEW v
      PROVE  /\ part(v, B (+) C) = part(v, B) + part(v, C)
             /\ v \notin Values(f, B) => part(v, B) = 0
             /\ v \notin Values(f, C) => part(v, C) = 0
  <2>1. IsReports(Only(Where(f, v), B)) /\ IsReports(Only(Where(f, v), C)) BY BagOnly
  <2>2. Only(Where(f, v), B (+) C) = Only(Where(f, v), B) (+) Only(Where(f, v), C) BY OnlyUnion
  <2> QED BY <2>1, <2>2, NoneWhere, CountOfReports
<1>3. CountBy(f, B (+) C) = [v \in V |-> part(v, B (+) C)] BY <1>1 DEF CountBy
<1>4. CountBy(f, B) = [v \in Values(f, B) |-> part(v, B)] BY DEF CountBy
<1>5. CountBy(f, C) = [v \in Values(f, C) |-> part(v, C)] BY DEF CountBy
<1>6. CountBy(f, B) (+) CountBy(f, C)
        = [v \in V |-> (IF v \in Values(f, B) THEN part(v, B) ELSE 0)
                      + (IF v \in Values(f, C) THEN part(v, C) ELSE 0)]
  <2> HIDE DEF part
  <2> QED BY <1>4, <1>5 DEF (+)
<1>7. \A v \in V : part(v, B (+) C) = (IF v \in Values(f, B) THEN part(v, B) ELSE 0)
                                     + (IF v \in Values(f, C) THEN part(v, C) ELSE 0)
  BY <1>2
<1> HIDE DEF part, V
<1> QED BY <1>3, <1>6, <1>7

\* The histograms of no request and of one.
LEMMA CountByOne ==
  ASSUME NEW f
  PROVE  /\ CountBy(f, EmptyBag) = EmptyBag
         /\ \A r \in Reported : CountBy(f, SetToBag({r})) = SetToBag({f[r]})
<1>1. CountBy(f, EmptyBag) = EmptyBag
  <2>1. Values(f, EmptyBag) = {} BY ValuesOfOne
  <2> QED BY <2>1 DEF CountBy, EmptyBag, SetToBag
<1>2. ASSUME NEW r \in Reported PROVE CountBy(f, SetToBag({r})) = SetToBag({f[r]})
  <2> DEFINE B == SetToBag({r})
  <2>1. Values(f, B) = {f[r]} BY ValuesOfOne
  <2>2. Only(Where(f, f[r]), B) = B
    <3>1. r \in Where(f, f[r]) BY DEF Where
    <3>2. IsReports(B) /\ BagToSet(B) = {r} BY BagOfOne
    <3>3. BagToSet(B) \cap Where(f, f[r]) = BagToSet(B) BY <3>1, <3>2
    <3> HIDE DEF B
    <3> QED BY <3>2, <3>3, BagOnly, BagsEqual
  <2>3. Count(B) = 1 BY CountOfReports
  <2>4. CountBy(f, B) = [v \in {f[r]} |-> Count(Only(Where(f, v), B))] BY <2>1 DEF CountBy
  <2>5. \A v \in {f[r]} : Count(Only(Where(f, v), B)) = 1 BY <2>2, <2>3
  <2> QED BY <2>4, <2>5 DEF SetToBag
<1> QED BY <1>1, <1>2

-----------------------------------------------------------------------------
\* The least and the greatest.
LEMMA LeastIs ==
  ASSUME NEW S, S \subseteq Nat, S # {}
  PROVE  Min(S) \in S /\ \A k \in S : Min(S) <= k
<1>1. \E m \in S : \A k \in S : m =< k BY LeastNumber
<1> QED BY <1>1 DEF Min

\* The least of a union, with the sentinel that stands for none.
LEMMA LeastUnion ==
  ASSUME NEW S, S \subseteq Nat, NEW T, T \subseteq Nat, NEW none \in Int, none \notin S \cup T
  PROVE  Least(S \cup T, none) = Smaller(none, Least(S, none), Least(T, none))
<1>1. CASE S = {} \/ T = {}
  <2>1. CASE S = {}
    <3>1. S \cup T = T BY <2>1
    <3> QED BY <2>1, <3>1 DEF Least, Smaller
  <2>2. CASE T = {} /\ S # {}
    <3>1. S \cup T = S BY <2>2
    <3> QED BY <2>2, <3>1 DEF Least, Smaller
  <2> QED BY <1>1, <2>1, <2>2
<1>2. CASE S # {} /\ T # {}
  <2> DEFINE m == Min(S \cup T)
             a == Min(S)
             b == Min(T)
  <2>1. /\ m \in S \cup T /\ \A k \in S \cup T : m <= k
        /\ a \in S /\ \A k \in S : a <= k
        /\ b \in T /\ \A k \in T : b <= k
    BY <1>2, LeastIs
  <2>2. Least(S \cup T, none) = m /\ Least(S, none) = a /\ Least(T, none) = b BY <1>2 DEF Least
  <2> HIDE DEF m, a, b
  <2>3. m = IF a > b THEN b ELSE a BY <2>1
  <2> QED BY <2>1, <2>2, <2>3 DEF Smaller
<1> QED BY <1>1, <1>2

\* The greatest, or zero.
LEMMA MostIs ==
  ASSUME NEW S, S \subseteq Nat, IsFiniteSet(S)
  PROVE  Most(S) \in S \cup {0} /\ \A k \in S \cup {0} : Most(S) >= k
<1>1. S \cup {0} \subseteq Nat /\ IsFiniteSet(S \cup {0}) /\ S \cup {0} # {} BY FS_AddElement
<1>2. \E m \in S \cup {0} : \A k \in S \cup {0} : m >= k BY <1>1, GreatestNumber
<1> QED BY <1>2 DEF Most, Max

\* The greatest of a union.
LEMMA MostUnion ==
  ASSUME NEW S, S \subseteq Nat, IsFiniteSet(S), NEW T, T \subseteq Nat, IsFiniteSet(T)
  PROVE  Most(S \cup T) = Larger(Most(S), Most(T)) /\ Most(S) \in Nat
<1>1. S \cup T \subseteq Nat /\ IsFiniteSet(S \cup T) BY FS_Union
<1>2. /\ Most(S \cup T) \in (S \cup T) \cup {0} /\ \A k \in (S \cup T) \cup {0} : Most(S \cup T) >= k
      /\ Most(S) \in S \cup {0} /\ \A k \in S \cup {0} : Most(S) >= k
      /\ Most(T) \in T \cup {0} /\ \A k \in T \cup {0} : Most(T) >= k
  BY <1>1, MostIs
<1> DEFINE m == Most(S \cup T)
           a == Most(S)
           b == Most(T)
<1>3. /\ m \in Nat /\ a \in Nat /\ b \in Nat /\ m >= a /\ m >= b
      /\ m \in S => a >= m
      /\ m \in T => b >= m
      /\ m \in S \/ m \in T \/ m = 0
  <2> HIDE DEF m, a, b
  <2>1. m \in (S \cup T) \cup {0} /\ a \in S \cup {0} /\ b \in T \cup {0} BY <1>2 DEF m, a, b
  <2>2. m >= a /\ m >= b BY <1>2, <2>1 DEF m, a, b
  <2>3. (m \in S => a >= m) /\ (m \in T => b >= m) BY <1>2 DEF m, a, b
  <2> QED BY <2>1, <2>2, <2>3
<1> HIDE DEF m, a, b
<1>4. m = IF a < b THEN b ELSE a BY <1>3
<1> QED BY <1>3, <1>4 DEF Larger, m, a, b

\* The extremes of one value.
LEMMA ExtremesOfOne ==
  ASSUME NEW n \in Nat
  PROVE  /\ \A none : Least({n}, none) = n
         /\ Most({n}) = n /\ Most({}) = 0
<1>1. {n} \subseteq Nat /\ {n} # {} /\ IsFiniteSet({n}) /\ IsFiniteSet({}) BY FS_Singleton, FS_EmptySet
<1>2. Min({n}) = n BY <1>1, LeastIs
<1>3. Most({n}) = n BY <1>1, MostIs
<1>4. Most({}) = 0
  <2>1. Most({}) \in {} \cup {0} BY <1>1, MostIs
  <2> QED BY <2>1
<1> QED BY <1>2, <1>3, <1>4 DEF Least

-----------------------------------------------------------------------------
(***************************************************************************)
(* Entries.                                                                *)
(***************************************************************************)
LEMMA TimesOf ==
  ASSUME NEW B, IsReports(B)
  PROVE  /\ Values(Time, B) \subseteq Nat \ {0} /\ IsFiniteSet(Values(Time, B))
         /\ Values(Duration, Timed(B)) \subseteq Nat /\ IsFiniteSet(Values(Duration, Timed(B)))
         /\ IsReports(Timed(B)) /\ IsReports(Failed(B))
<1>1. IsReports(Timed(B)) /\ IsReports(Failed(B)) BY BagOnly DEF Timed, Failed
<1>2. BagToSet(B) \subseteq Reported BY DEF IsReports
<1>3. Values(Time, B) \subseteq Nat \ {0} BY <1>2, FunctionsAt DEF Values
<1>4. \A r \in BagToSet(Timed(B)) : r \in Reported /\ r.rt >= 0 BY <1>2, BagOnly DEF Timed
<1>5. Values(Duration, Timed(B)) \subseteq Nat
  <2>1. \A r \in BagToSet(Timed(B)) : Duration[r] \in Nat BY <1>4, FunctionsAt
  <2> QED BY <2>1 DEF Values
<1>6. IsFiniteSet(Values(Time, B)) /\ IsFiniteSet(Values(Duration, Timed(B)))
  BY <1>1, FiniteImage DEF Values, IsReports
<1> QED BY <1>1, <1>3, <1>5, <1>6

\* Timed and failed requests of a union.
LEMMA PartsUnion ==
  ASSUME NEW B, IsReports(B), NEW C, IsReports(C)
  PROVE  Timed(B (+) C) = Timed(B) (+) Timed(C) /\ Failed(B (+) C) = Failed(B) (+) Failed(C)
BY OnlyUnion DEF Timed, Failed

\* The fields of an entry as they are calculated.
LEMMA FieldsOf ==
  ASSUME NEW B
  PROVE  LET e == EntryOf(B)
         IN  /\ e.start = Least(Values(Time, B), 0) /\ e.last = Most(Values(Time, B))
             /\ e.n = Count(B) /\ e.none = Count(B) - Count(Timed(B))
             /\ e.perSec = CountBy(SecondOf, B) /\ e.fails = Count(Failed(B))
             /\ e.failsPerSec = CountBy(SecondOf, Failed(B)) /\ e.total = Sum(Duration, Timed(B))
             /\ e.min = Least(Values(Duration, Timed(B)), -1)
             /\ e.max = Most(Values(Duration, Timed(B))) /\ e.size = Sum(SizeOf, B)
             /\ e.times = CountBy(Bucket, Timed(B))
BY DEF EntryOf

\* Each field of an entry.
LEMMA FieldsUnion ==
  ASSUME NEW B, IsReports(B), NEW C, IsReports(C)
  PROVE  LET e == EntryOf(B)
             f == EntryOf(C)
             g == EntryOf(B (+) C)
         IN  /\ g.start = Smaller(0, e.start, f.start) /\ g.last = Larger(e.last, f.last)
             /\ g.n = e.n + f.n /\ g.none = e.none + f.none
             /\ g.perSec = e.perSec (+) f.perSec /\ g.fails = e.fails + f.fails
             /\ g.failsPerSec = e.failsPerSec (+) f.failsPerSec
             /\ g.total = e.total + f.total /\ g.min = Smaller(-1, e.min, f.min)
             /\ g.max = Larger(e.max, f.max) /\ g.size = e.size + f.size
             /\ g.times = e.times (+) f.times
<1> DEFINE S == Timed(B)
           T == Timed(C)
           X == Failed(B)
           Y == Failed(C)
           D == B (+) C
<1>1. IsReports(S) /\ IsReports(T) /\ IsReports(X) /\ IsReports(Y) BY TimesOf
<1>2. Timed(D) = S (+) T /\ Failed(D) = X (+) Y BY PartsUnion
<1>3. \A r \in Reported : Duration[r] \in Int /\ SizeOf[r] \in Int BY FunctionsAt
<1>4. Least(Values(Time, D), 0) = Smaller(0, Least(Values(Time, B), 0), Least(Values(Time, C), 0))
  <2>1. Values(Time, D) = Values(Time, B) \cup Values(Time, C) BY ValuesUnion
  <2>2. Values(Time, B) \subseteq Nat \ {0} /\ Values(Time, C) \subseteq Nat \ {0} BY TimesOf
  <2> QED BY <2>1, <2>2, LeastUnion
<1>5. Most(Values(Time, D)) = Larger(Most(Values(Time, B)), Most(Values(Time, C)))
  <2>1. Values(Time, D) = Values(Time, B) \cup Values(Time, C) BY ValuesUnion
  <2>2. /\ Values(Time, B) \subseteq Nat /\ Values(Time, C) \subseteq Nat
        /\ IsFiniteSet(Values(Time, B)) /\ IsFiniteSet(Values(Time, C))
    BY TimesOf
  <2> QED BY <2>1, <2>2, MostUnion
<1>6. Values(Duration, Timed(D)) = Values(Duration, S) \cup Values(Duration, T)
  BY <1>1, <1>2, ValuesUnion
<1>7. /\ Values(Duration, S) \subseteq Nat /\ Values(Duration, T) \subseteq Nat
      /\ IsFiniteSet(Values(Duration, S)) /\ IsFiniteSet(Values(Duration, T))
  BY TimesOf
<1>8. Least(Values(Duration, Timed(D)), -1)
        = Smaller(-1, Least(Values(Duration, S), -1), Least(Values(Duration, T), -1))
  <2>1. -1 \in Int /\ -1 \notin Values(Duration, S) \cup Values(Duration, T) BY <1>7
  <2> QED BY <1>6, <1>7, <2>1, LeastUnion
<1>9. Most(Values(Duration, Timed(D))) = Larger(Most(Values(Duration, S)), Most(Values(Duration, T)))
  BY <1>6, <1>7, MostUnion
<1>10. /\ Count(B) \in Int /\ Count(C) \in Int /\ Count(S) \in Int /\ Count(T) \in Int
       /\ Count(D) = Count(B) + Count(C) /\ Count(Timed(D)) = Count(S) + Count(T)
       /\ Count(Failed(D)) = Count(X) + Count(Y)
  BY <1>1, <1>2, CountOfReports
<1>11. Count(D) - Count(Timed(D)) = (Count(B) - Count(S)) + (Count(C) - Count(T)) BY <1>10
<1>12. /\ CountBy(SecondOf, D) = CountBy(SecondOf, B) (+) CountBy(SecondOf, C)
       /\ CountBy(SecondOf, Failed(D)) = CountBy(SecondOf, X) (+) CountBy(SecondOf, Y)
       /\ CountBy(Bucket, Timed(D)) = CountBy(Bucket, S) (+) CountBy(Bucket, T)
  BY <1>1, <1>2, CountByUnion
<1>13. Sum(Duration, Timed(D)) = Sum(Duration, S) + Sum(Duration, T) BY <1>1, <1>2, <1>3, SumUnion
<1>14. Sum(SizeOf, D) = Sum(SizeOf, B) + Sum(SizeOf, C) BY <1>3, SumUnion
<1> HIDE DEF S, T, X, Y, D
<1> QED BY <1>4, <1>5, <1>8, <1>9, <1>10, <1>11, <1>12, <1>13, <1>14
     DEF EntryOf, S, T, X, Y, D

(***************************************************************************)
(* An entry of all requests is the entries of two parts merged, unless the *)
(* second part is empty: then the start would be taken from it (entry.go). *)
(***************************************************************************)
LEMMA EntryUnion ==
  ASSUME NEW B, IsReports(B), NEW C, IsReports(C), C # EmptyBag
  PROVE  MergeEntry(EntryOf(B), EntryOf(C)) = EntryOf(B (+) C)
<1> DEFINE e == EntryOf(B)
           f == EntryOf(C)
           g == EntryOf(B (+) C)
<1>1. f.start # 0
  <2>1. BagToSet(C) # {} BY NoReports
  <2>2. Values(Time, C) # {} /\ Values(Time, C) \subseteq Nat \ {0} BY <2>1, TimesOf DEF Values
  <2>3. Min(Values(Time, C)) \in Values(Time, C) BY <2>2, LeastIs
  <2>4. f.start = Min(Values(Time, C)) BY <2>2 DEF EntryOf, Least
  <2> QED BY <2>2, <2>3, <2>4
<1>2. SmallerOf(0, e.start, f.start) = Smaller(0, e.start, f.start) BY <1>1 DEF SmallerOf, Smaller
<1>3. g = [start |-> g.start, last |-> g.last, n |-> g.n, none |-> g.none, perSec |-> g.perSec,
           fails |-> g.fails, failsPerSec |-> g.failsPerSec, total |-> g.total, min |-> g.min,
           max |-> g.max, size |-> g.size, times |-> g.times]
  BY DEF EntryOf
<1>4. /\ g.start = SmallerOf(0, e.start, f.start) /\ g.last = Larger(e.last, f.last)
      /\ g.n = e.n + f.n /\ g.none = e.none + f.none
      /\ g.perSec = e.perSec (+) f.perSec /\ g.fails = e.fails + f.fails
      /\ g.failsPerSec = e.failsPerSec (+) f.failsPerSec
      /\ g.total = e.total + f.total /\ g.min = Smaller(-1, e.min, f.min)
      /\ g.max = Larger(e.max, f.max) /\ g.size = e.size + f.size
      /\ g.times = e.times (+) f.times
  BY <1>2, FieldsUnion
<1> HIDE DEF e, f, g
<1>5. MergeEntry(e, f) = g BY <1>3, <1>4 DEF MergeEntry
<1> QED BY <1>5 DEF e, f, g

\* Division rounds down.
LEMMA Division ==
  ASSUME NEW b \in Nat \ {0}, NEW n \in Nat
  PROVE  /\ n \div b \in Nat /\ b * (n \div b) <= n /\ n < b * (n \div b) + b
         /\ \A q \in Nat : b * q <= n /\ n < b * q + b => n \div b = q
OBVIOUS

Half(h, w) == w = 2 * h
Near(n, w, p) == 2 * (n - w * p) \in -w .. w - 1
\* Adding half of w before the division gives the nearer of two quotients.
Nears(n, h, w, q) ==
  \E p, o \in Nat : {p, o} = {q, q + 1} /\ (n + h) \div w = p /\ Near(n, w, p) /\ ~Near(n, w, o)

\* The multiple of w that is nearest, the larger of two.
LEMMA Nearest ==
  ASSUME NEW n \in Nat, NEW w \in Nat \ {0}, NEW h \in Nat, Half(h, w), NEW q, q = n \div w
  PROVE  Nears(n, h, w, q)
<1> DEFINE x == w * q
<1>1. q \in Nat /\ x <= n /\ n < x + w BY Division
<1>2. w = 2 * h BY DEF Half
<1>3. x \in Nat /\ w * (q + 1) = x + w /\ q + 1 \in Nat BY <1>1
<1>4. CASE n - x < h
  <2>1. (n + h) \div w = q
    <3>1. w * q <= n + h /\ n + h < w * q + w /\ n + h \in Nat BY <1>1, <1>3, <1>4, <1>2
    <3> QED BY <1>1, <3>1, Division
  <2>2. Near(n, w, q) /\ ~Near(n, w, q + 1)
    <3> HIDE DEF x
    <3>1. 2 * (n - x) \in -w .. w - 1 /\ 2 * (n - (x + w)) \notin -w .. w - 1 BY <1>1, <1>3, <1>4, <1>2
    <3> QED BY <1>3, <3>1 DEF Near, x
  <2> QED BY <1>1, <1>3, <2>1, <2>2 DEF Nears
<1>5. CASE n - x >= h
  <2>1. (n + h) \div w = q + 1
    <3>1. w * (q + 1) <= n + h /\ n + h < w * (q + 1) + w /\ n + h \in Nat
      <4> HIDE DEF x
      <4> QED BY <1>1, <1>3, <1>5, <1>2
    <3> QED BY <1>3, <3>1, Division
  <2>2. ~Near(n, w, q) /\ Near(n, w, q + 1)
    <3> HIDE DEF x
    <3>1. 2 * (n - x) \notin -w .. w - 1 /\ 2 * (n - (x + w)) \in -w .. w - 1 BY <1>1, <1>3, <1>5, <1>2
    <3> QED BY <1>3, <3>1 DEF Near, x
  <2> QED BY <1>1, <1>3, <2>1, <2>2 DEF Nears
<1> HIDE DEF x
<1>6. n - x < h \/ n - x >= h BY <1>3
<1> QED BY <1>4, <1>5, <1>6

\* The unit by ranges of the response time.
LEMMA UnitsIs ==
  ASSUME NEW us \in Nat
  PROVE  Units(us) = IF us < 100000 THEN 1 ELSE IF us < 1000000 THEN 10
                     ELSE IF us < 10000000 THEN 100 ELSE 1000
<1> DEFINE fits(u) == (u = 1 \/ us >= 10000 * u) /\ (u = 1000 \/ us < 100000 * u)
           u1 == IF us < 100000 THEN 1 ELSE IF us < 1000000 THEN 10
                 ELSE IF us < 10000000 THEN 100 ELSE 1000
<1>1. u1 \in {1, 10, 100, 1000} /\ \A u \in {1, 10, 100, 1000} : fits(u) <=> u = u1 OBVIOUS
<1>2. Units(us) = CHOOSE u \in {1, 10, 100, 1000} : fits(u) BY DEF Units
<1> HIDE DEF fits, u1
<1>3. (CHOOSE u \in {1, 10, 100, 1000} : fits(u)) = u1 BY <1>1
<1> QED BY <1>2, <1>3 DEF u1

\* The nearest multiple is what RoundTo calculates.
LEMMA RoundedTo ==
  ASSUME NEW us \in Nat, NEW u, u = Units(us)
  PROVE  Rounded(us) = RoundTo(us, u)
<1> DEFINE q == us \div (1000 * u)
           near(ms) == 2 * (us - 1000 * ms) \in (-1000 * u) .. (1000 * u - 1)
           M == {u * (q + d) : d \in {0, 1}}
<1>1. u \in {1, 10, 100, 1000} BY UnitsIs
<1>2. PICK w \in Nat \ {0} : w = 1000 * u BY <1>1
<1>3. PICK h \in Nat : h = 500 * u /\ Half(h, w) BY <1>1, <1>2 DEF Half
<1>4. q = us \div w BY <1>2
<1>5. PICK p, o \in Nat : {p, o} = {q, q + 1} /\ (us + h) \div w = p /\ Near(us, w, p) /\ ~Near(us, w, o)
  <2>1. Half(h, w) BY <1>3
  <2>2. Nears(us, h, w, q)
    <3> HIDE DEF q
    <3> QED BY <1>4, <2>1, Nearest
  <2> HIDE DEF q
  <2> QED BY <2>2 DEF Nears
<1>6. RoundTo(us, u) = u * p
  <2>1. us + u * 500 = us + h /\ u * 1000 = w /\ p * u = u * p BY <1>1, <1>2, <1>3
  <2>2. RoundTo(us, u) = ((us + h) \div w) * u BY <2>1 DEF RoundTo
  <2> QED BY <1>5, <2>1, <2>2
<1>7. ASSUME NEW a \in Nat PROVE near(u * a) <=> Near(us, w, a)
  <2>1. 1000 * (u * a) = w * a /\ -1000 * u = -w BY <1>1, <1>2
  <2> QED BY <1>2, <2>1 DEF Near
<1>8. M = {u * p, u * o}
  <2>1. M = {u * (q + 0), u * (q + 1)} OBVIOUS
  <2>2. q \in Nat BY <1>2, <1>4, Division
  <2>3. q + 0 = q BY <2>2
  <2> HIDE DEF M, q
  <2>4. M = {u * q, u * (q + 1)} BY <2>1, <2>3
  <2> QED BY <1>5, <2>4
<1>9. Rounded(us) = CHOOSE ms \in M : near(ms) BY DEF Rounded
<1> HIDE DEF near, M
<1>10. (CHOOSE ms \in M : near(ms)) = u * p BY <1>5, <1>7, <1>8
<1> QED BY <1>6, <1>9, <1>10

\* RoundResponseTime rounds to the nearest multiple of the unit.
LEMMA Rounding == \A us \in Nat : RoundResponseTime(us) = Rounded(us)
<1> SUFFICES ASSUME NEW us \in Nat PROVE RoundResponseTime(us) = Rounded(us) OBVIOUS
<1>1. PICK u : u = Units(us) OBVIOUS
<1>2. u = IF us < 100000 THEN 1 ELSE IF us < 1000000 THEN 10 ELSE IF us < 10000000 THEN 100 ELSE 1000
  BY <1>1, UnitsIs
<1>3. RoundResponseTime(us) = RoundTo(us, u) BY <1>2 DEF RoundResponseTime
<1> QED BY <1>1, <1>3, RoundedTo

\* The part of one request is that or nothing.
LEMMA OnlyOne ==
  ASSUME NEW r \in Reported, NEW T
  PROVE  /\ r \in T => Only(T, SetToBag({r})) = SetToBag({r})
         /\ r \notin T => Only(T, SetToBag({r})) = EmptyBag
<1> DEFINE B == SetToBag({r})
<1>1. IsReports(B) /\ BagToSet(B) = {r} BY BagOfOne
<1> HIDE DEF B
<1>2. IsReports(Only(T, B)) /\ BagToSet(Only(T, B)) = {r} \cap T BY <1>1, BagOnly
<1>3. \A x \in {r} \cap T : Only(T, B)[x] = B[x] BY <1>1, BagOnly
<1>4. CASE r \in T
  <2>1. {r} \cap T = {r} BY <1>4
  <2> QED BY <1>1, <1>2, <1>3, <1>4, <2>1, BagsEqual DEF B
<1>5. CASE r \notin T
  <2>1. {r} \cap T = {} BY <1>5
  <2> QED BY <1>2, <1>5, <2>1, NoReports DEF B
<1> QED BY <1>4, <1>5

\* The entry of one request.
LEMMA EntryOfOne ==
  ASSUME NEW r \in Reported
  PROVE  LET e == EntryOf(SetToBag({r}))
             second == SetToBag({r.at \div Second})
         IN  /\ e.start = r.at /\ e.last = r.at /\ e.n = 1 /\ e.perSec = second /\ e.size = r.size
             /\ r.error = NoError => e.fails = 0 /\ e.failsPerSec = EmptyBag
             /\ r.error # NoError => e.fails = 1 /\ e.failsPerSec = second
             /\ r.rt < 0 => /\ e.none = 1 /\ e.total = 0 /\ e.min = -1 /\ e.max = 0
                            /\ e.times = EmptyBag
             /\ r.rt >= 0 => /\ e.none = 0 /\ e.total = r.rt /\ e.min = r.rt /\ e.max = r.rt
                             /\ e.times = SetToBag({RoundResponseTime(r.rt)})
<1> DEFINE B == SetToBag({r})
<1>1. /\ r.at \in Nat \ {0} /\ r.rt \in Int
      /\ Time[r] = r.at /\ SecondOf[r] = r.at \div Second /\ SizeOf[r] = r.size
      /\ Duration[r] = r.rt /\ Bucket[r] = Rounded(r.rt)
  BY FunctionsAt, ReportType
<1>2. IsReports(B) /\ BagToSet(B) = {r} /\ B[r] = 1 BY BagOfOne
<1>3. /\ Values(Time, B) = {r.at} /\ Values(Duration, B) = {r.rt}
      /\ Values(Duration, EmptyBag) = {}
  <2>1. Values(Time, B) = {Time[r]} BY ValuesOfOne
  <2>2. Values(Duration, B) = {Duration[r]} /\ Values(Duration, EmptyBag) = {} BY ValuesOfOne
  <2> QED BY <1>1, <2>1, <2>2
<1>4. Count(B) = 1 /\ Count(EmptyBag) = 0 BY CountOfReports
<1>5. /\ CountBy(SecondOf, B) = SetToBag({r.at \div Second}) /\ CountBy(Bucket, B) = SetToBag({Rounded(r.rt)})
      /\ CountBy(SecondOf, EmptyBag) = EmptyBag /\ CountBy(Bucket, EmptyBag) = EmptyBag
  BY <1>1, CountByOne
<1>6. /\ Sum(SizeOf, B) = r.size /\ Sum(Duration, B) = r.rt /\ Sum(Duration, EmptyBag) = 0
  BY <1>1, FunctionsAt, SumOfReports
<1>7. /\ r.rt >= 0 => Timed(B) = B
      /\ r.rt < 0 => Timed(B) = EmptyBag
      /\ r.error # NoError => Failed(B) = B
      /\ r.error = NoError => Failed(B) = EmptyBag
  <2> DEFINE S == {x \in Reported : x.rt >= 0}
             T == {x \in Reported : x.error # NoError}
  <2>1. r.rt < 0 => ~(r.rt >= 0) BY <1>1
  <2>2. (r \in S <=> r.rt >= 0) /\ (r \in T <=> r.error # NoError) OBVIOUS
  <2>3. Timed(B) = Only(S, B) /\ Failed(B) = Only(T, B) BY DEF Timed, Failed
  <2>4. (r \in S => Only(S, B) = B) /\ (r \notin S => Only(S, B) = EmptyBag)
    <3> HIDE DEF S
    <3> QED BY OnlyOne
  <2>5. (r \in T => Only(T, B) = B) /\ (r \notin T => Only(T, B) = EmptyBag)
    <3> HIDE DEF T
    <3> QED BY OnlyOne
  <2> HIDE DEF B, S, T
  <2> QED BY <2>1, <2>2, <2>3, <2>4, <2>5
<1>8. r.rt >= 0 => Rounded(r.rt) = RoundResponseTime(r.rt) BY <1>1, Rounding
<1>9. /\ Least({r.at}, 0) = r.at /\ Most({r.at}) = r.at
      /\ r.rt >= 0 => Least({r.rt}, -1) = r.rt /\ Most({r.rt}) = r.rt
      /\ Least({}, -1) = -1 /\ Most({}) = 0
  <2>1. Least({}, -1) = -1 BY DEF Least
  <2>2. r.rt >= 0 => r.rt \in Nat BY <1>1
  <2> QED BY <1>1, <2>1, <2>2, ExtremesOfOne
<1> DEFINE e == EntryOf(B)
<1>10. /\ e.start = Least(Values(Time, B), 0) /\ e.last = Most(Values(Time, B))
       /\ e.n = Count(B) /\ e.none = Count(B) - Count(Timed(B))
       /\ e.perSec = CountBy(SecondOf, B) /\ e.fails = Count(Failed(B))
       /\ e.failsPerSec = CountBy(SecondOf, Failed(B)) /\ e.total = Sum(Duration, Timed(B))
       /\ e.min = Least(Values(Duration, Timed(B)), -1)
       /\ e.max = Most(Values(Duration, Timed(B))) /\ e.size = Sum(SizeOf, B)
       /\ e.times = CountBy(Bucket, Timed(B))
  <2> HIDE DEF B
  <2> QED BY FieldsOf
<1> HIDE DEF B, e
<1>11. /\ e.start = r.at /\ e.last = r.at /\ e.n = 1
       /\ e.perSec = SetToBag({r.at \div Second}) /\ e.size = r.size
  BY <1>3, <1>4, <1>5, <1>6, <1>9, <1>10
<1>12. ASSUME r.error = NoError PROVE e.fails = 0 /\ e.failsPerSec = EmptyBag
  <2>1. Failed(B) = EmptyBag BY <1>7, <1>12
  <2> QED BY <1>4, <1>5, <1>10, <2>1
<1>13. ASSUME r.error # NoError PROVE e.fails = 1 /\ e.failsPerSec = SetToBag({r.at \div Second})
  <2>1. Failed(B) = B BY <1>7, <1>13
  <2> QED BY <1>4, <1>5, <1>10, <2>1
<1>14. ASSUME r.rt < 0
       PROVE  e.none = 1 /\ e.total = 0 /\ e.min = -1 /\ e.max = 0 /\ e.times = EmptyBag
  <2>1. Timed(B) = EmptyBag BY <1>7, <1>14
  <2>2. Count(B) - Count(EmptyBag) = 1 BY <1>4
  <2> QED BY <1>3, <1>5, <1>6, <1>9, <1>10, <2>1, <2>2
<1>15. ASSUME r.rt >= 0
       PROVE  /\ e.none = 0 /\ e.total = r.rt /\ e.min = r.rt /\ e.max = r.rt
              /\ e.times = SetToBag({RoundResponseTime(r.rt)})
  <2>1. Timed(B) = B BY <1>7, <1>15
  <2>2. Count(B) - Count(B) = 0 BY <1>4
  <2>3. CountBy(Bucket, B) = SetToBag({RoundResponseTime(r.rt)}) BY <1>5, <1>8, <1>15
  <2> QED BY <1>3, <1>6, <1>9, <1>10, <1>15, <2>1, <2>2, <2>3
<1> QED BY <1>11, <1>12, <1>13, <1>14, <1>15 DEF B, e

\* Without requests an entry is new.
LEMMA EntryOfNone == EntryOf(EmptyBag) = NewEntry
<1>1. Timed(EmptyBag) = EmptyBag /\ Failed(EmptyBag) = EmptyBag
  <2>1. ASSUME NEW T PROVE Only(T, EmptyBag) = EmptyBag
    <3>1. IsReports(Only(T, EmptyBag)) /\ BagToSet(Only(T, EmptyBag)) = {} BY BagOfNone, BagOnly
    <3> QED BY <3>1, NoReports
  <2> QED BY <2>1 DEF Timed, Failed
<1>2. Values(Time, EmptyBag) = {} /\ Values(Duration, EmptyBag) = {} BY ValuesOfOne
<1>3. Count(EmptyBag) = 0 BY CountOfReports
<1>4. CountBy(SecondOf, EmptyBag) = EmptyBag /\ CountBy(Bucket, EmptyBag) = EmptyBag BY CountByOne
<1>5. Sum(SizeOf, EmptyBag) = 0 /\ Sum(Duration, EmptyBag) = 0 BY FunctionsAt, SumOfReports
<1>6. Least({}, 0) = 0 /\ Least({}, -1) = -1 /\ Most({}) = 0
  BY ExtremesOfOne DEF Least
<1>7. Count(EmptyBag) - Count(EmptyBag) = 0 BY <1>3
<1> QED BY <1>1, <1>2, <1>3, <1>4, <1>5, <1>6, <1>7 DEF EntryOf, NewEntry

\* What an entry is made of.
LEMMA EntryType ==
  ASSUME NEW B, IsReports(B)
  PROVE  LET e == EntryOf(B)
         IN  /\ e.none \in Int /\ e.fails \in Int /\ e.total \in Int
             /\ e.min \in Nat \cup {-1} /\ e.max \in Nat
             /\ e.failsPerSec (+) EmptyBag = e.failsPerSec /\ e.times (+) EmptyBag = e.times
<1>1. IsReports(Timed(B)) /\ IsReports(Failed(B)) BY TimesOf
<1>2. Count(B) \in Int /\ Count(Timed(B)) \in Int /\ Count(Failed(B)) \in Int BY <1>1, CountOfReports
<1>3. Sum(Duration, Timed(B)) \in Int BY <1>1, FunctionsAt, SumOfReports
<1>4. Values(Duration, Timed(B)) \subseteq Nat /\ IsFiniteSet(Values(Duration, Timed(B))) BY TimesOf
<1>5. Least(Values(Duration, Timed(B)), -1) \in Nat \cup {-1} BY <1>4, LeastIs DEF Least
<1>6. Most(Values(Duration, Timed(B))) \in Nat BY <1>4, MostIs
<1>7. ASSUME NEW C, IsReports(C), NEW f PROVE CountBy(f, C) (+) EmptyBag = CountBy(f, C)
  <2>1. IsReports(EmptyBag) /\ CountBy(f, EmptyBag) = EmptyBag BY BagOfNone, CountByOne
  <2>2. CountBy(f, C (+) EmptyBag) = CountBy(f, C) (+) CountBy(f, EmptyBag) BY <1>7, <2>1, CountByUnion
  <2> QED BY <1>7, <2>1, <2>2, UnionWithNone
<1>8. /\ CountBy(SecondOf, Failed(B)) (+) EmptyBag = CountBy(SecondOf, Failed(B))
      /\ CountBy(Bucket, Timed(B)) (+) EmptyBag = CountBy(Bucket, Timed(B))
  BY <1>1, <1>7
<1>9. Count(B) - Count(Timed(B)) \in Int BY <1>2
<1> QED BY <1>2, <1>3, <1>5, <1>6, <1>8, <1>9 DEF EntryOf

\* Adding a request is merging the entry of it alone.
LEMMA AddIsMerge ==
  ASSUME NEW B, IsReports(B), NEW r \in Reported
  PROVE  AddTo(EntryOf(B), r) = EntryOf(B (+) SetToBag({r}))
<1> DEFINE e == EntryOf(B)
           f == EntryOf(SetToBag({r}))
           second == SetToBag({r.at \div Second})
<1>1. IsReports(SetToBag({r})) /\ SetToBag({r}) # EmptyBag BY BagOfOne, BagOfNone
<1>2. MergeEntry(e, f) = EntryOf(B (+) SetToBag({r})) BY <1>1, EntryUnion
<1>3. /\ f.start = r.at /\ f.last = r.at /\ f.n = 1 /\ f.perSec = second /\ f.size = r.size
      /\ r.error = NoError => f.fails = 0 /\ f.failsPerSec = EmptyBag
      /\ r.error # NoError => f.fails = 1 /\ f.failsPerSec = second
      /\ r.rt < 0 => f.none = 1 /\ f.total = 0 /\ f.min = -1 /\ f.max = 0 /\ f.times = EmptyBag
      /\ r.rt >= 0 => /\ f.none = 0 /\ f.total = r.rt /\ f.min = r.rt /\ f.max = r.rt
                      /\ f.times = SetToBag({RoundResponseTime(r.rt)})
  BY EntryOfOne
<1>4. /\ e.none \in Int /\ e.fails \in Int /\ e.total \in Int
      /\ e.min \in Nat \cup {-1} /\ e.max \in Nat
      /\ e.failsPerSec (+) EmptyBag = e.failsPerSec /\ e.times (+) EmptyBag = e.times
  BY EntryType
<1>5. r.rt \in Int /\ r.at \in Nat \ {0} BY ReportType
<1> HIDE DEF e, f, second
<1>6. /\ Smaller(0, e.start, r.at) = SmallerOf(0, e.start, f.start) /\ Larger(e.last, r.at) = Larger(e.last, f.last)
      /\ e.n + 1 = e.n + f.n /\ e.perSec (+) second = e.perSec (+) f.perSec
      /\ e.size + r.size = e.size + f.size
  BY <1>3, <1>5 DEF Smaller, SmallerOf
<1>7. /\ e.fails + (IF r.error # NoError THEN 1 ELSE 0) = e.fails + f.fails
      /\ (IF r.error # NoError THEN e.failsPerSec (+) second ELSE e.failsPerSec)
           = e.failsPerSec (+) f.failsPerSec
  <2>1. CASE r.error = NoError BY <1>3, <1>4, <2>1
  <2>2. CASE r.error # NoError BY <1>3, <1>4, <2>2
  <2> QED BY <2>1, <2>2
<1>8. /\ (IF r.rt < 0 THEN e.none + 1 ELSE e.none) = e.none + f.none
      /\ (IF r.rt < 0 THEN e.total ELSE e.total + r.rt) = e.total + f.total
      /\ (IF r.rt < 0 THEN e.min ELSE Smaller(-1, e.min, r.rt)) = Smaller(-1, e.min, f.min)
      /\ (IF r.rt < 0 THEN e.max ELSE Larger(e.max, r.rt)) = Larger(e.max, f.max)
      /\ (IF r.rt < 0 THEN e.times ELSE e.times (+) SetToBag({RoundResponseTime(r.rt)}))
           = e.times (+) f.times
  <2>1. CASE r.rt < 0
    <3>1. e.none + 1 = e.none + f.none /\ e.total = e.total + f.total /\ e.times = e.times (+) f.times
      BY <1>3, <1>4, <2>1
    <3>2. e.min = Smaller(-1, e.min, f.min) /\ e.max = Larger(e.max, f.max)
      BY <1>3, <1>4, <2>1 DEF Smaller, Larger
    <3> QED BY <2>1, <3>1, <3>2
  <2>2. CASE r.rt >= 0
    <3>1. ~(r.rt < 0) BY <1>5, <2>2
    <3>2. e.none = e.none + f.none BY <1>3, <1>4, <2>2
    <3> QED BY <1>3, <2>2, <3>1, <3>2
  <2> QED BY <1>5, <2>1, <2>2
<1>9. AddTo(e, r) = MergeEntry(e, f)
  BY <1>6, <1>7, <1>8 DEF AddTo, MergeEntry, second
<1> QED BY <1>2, <1>9 DEF e, f

-----------------------------------------------------------------------------
(***************************************************************************)
(* The entries by key.                                                     *)
(***************************************************************************)
LEMMA SomeWhere ==
  ASSUME NEW B, IsReports(B), NEW f, NEW v \in Values(f, B)
  PROVE  Only(Where(f, v), B) # EmptyBag
<1>1. PICK r \in BagToSet(B) : f[r] = v BY DEF Values
<1>2. r \in Where(f, v) BY <1>1 DEF Where, IsReports
<1>3. r \in BagToSet(Only(Where(f, v), B)) BY <1>2, BagOnly
<1> QED BY <1>3, BagOfNone

\* The entry of each key is calculated of its requests, also of those that have none.
LEMMA EntriesAt ==
  ASSUME NEW B, IsReports(B)
  PROVE  /\ DOMAIN EntriesOf(B) = Values(KeyOf, B)
         /\ \A k : At(EntriesOf(B), k, NewEntry) = EntryOf(Only(Where(KeyOf, k), B))
<1>1. DOMAIN EntriesOf(B) = Values(KeyOf, B) BY DEF EntriesOf
<1>2. ASSUME NEW k PROVE At(EntriesOf(B), k, NewEntry) = EntryOf(Only(Where(KeyOf, k), B))
  <2>1. CASE k \in Values(KeyOf, B)
    <3>1. EntriesOf(B)[k] = EntryOf(Only(Where(KeyOf, k), B)) BY <2>1 DEF EntriesOf
    <3> QED BY <1>1, <2>1, <3>1 DEF At
  <2>2. CASE k \notin Values(KeyOf, B)
    <3>1. Only(Where(KeyOf, k), B) = EmptyBag BY <2>2, NoneWhere
    <3> QED BY <1>1, <2>2, <3>1, EntryOfNone DEF At
  <2> QED BY <2>1, <2>2
<1> QED BY <1>1, <1>2

\* The entries of a union are merged, as Merge does.
LEMMA EntriesUnion ==
  ASSUME NEW B, IsReports(B), NEW C, IsReports(C)
  PROVE  EntriesOf(B (+) C) = MergeEntries(EntriesOf(B), EntriesOf(C))
<1> DEFINE V == Values(KeyOf, B (+) C)
           m == EntriesOf(B)
           n == EntriesOf(C)
           part(k, A) == Only(Where(KeyOf, k), A)
<1>1. V = AllKeys(m, n) /\ DOMAIN n = Values(KeyOf, C) /\ DOMAIN m = Values(KeyOf, B)
  BY ValuesUnion, EntriesAt DEF AllKeys
<1>2. ASSUME NEW k \in V
      PROVE  EntryOf(part(k, B (+) C))
               = IF k \in DOMAIN n THEN MergeEntry(At(m, k, NewEntry), n[k]) ELSE m[k]
  <2>1. part(k, B (+) C) = part(k, B) (+) part(k, C) BY OnlyUnion
  <2>2. IsReports(part(k, B)) /\ IsReports(part(k, C)) BY BagOnly
  <2>3. At(m, k, NewEntry) = EntryOf(part(k, B)) BY EntriesAt
  <2>4. CASE k \in DOMAIN n
    <3>1. part(k, C) # EmptyBag BY <1>1, <2>4, SomeWhere
    <3>2. n[k] = EntryOf(part(k, C)) BY <1>1, <2>4 DEF EntriesOf
    <3> HIDE DEF part, m, n
    <3>3. MergeEntry(EntryOf(part(k, B)), EntryOf(part(k, C))) = EntryOf(part(k, B) (+) part(k, C))
      BY <2>2, <3>1, EntryUnion
    <3> QED BY <2>1, <2>3, <2>4, <3>2, <3>3
  <2>5. CASE k \notin DOMAIN n
    <3>1. part(k, C) = EmptyBag BY <1>1, <2>5, NoneWhere
    <3>2. part(k, B (+) C) = part(k, B)
      <4> HIDE DEF part
      <4> QED BY <2>1, <2>2, <3>1, UnionWithNone
    <3>3. k \in DOMAIN m BY <1>1, <2>5 DEF AllKeys
    <3>4. m[k] = EntryOf(part(k, B)) BY <2>3, <3>3 DEF At
    <3> HIDE DEF part, m, n
    <3> QED BY <2>5, <3>2, <3>4
  <2> QED BY <2>4, <2>5
<1>3. EntriesOf(B (+) C) = [k \in V |-> EntryOf(part(k, B (+) C))] BY DEF EntriesOf
<1> HIDE DEF V, m, n, part
<1>4. MergeEntries(m, n)
        = [k \in V |-> IF k \in DOMAIN n THEN MergeEntry(At(m, k, NewEntry), n[k]) ELSE m[k]]
  BY <1>1 DEF MergeEntries
<1>5. EntriesOf(B (+) C) = MergeEntries(m, n) BY <1>2, <1>3, <1>4
<1> QED BY <1>5 DEF m, n

\* Those of one request more are what Add makes of them.
LEMMA EntriesAdd ==
  ASSUME NEW B, IsReports(B), NEW r \in Reported
  PROVE  EntriesOf(B (+) SetToBag({r}))
           = Put(EntriesOf(B), r.key, AddTo(At(EntriesOf(B), r.key, NewEntry), r))
<1> DEFINE C == SetToBag({r})
           D == B (+) C
           m == EntriesOf(B)
           part(k, A) == Only(Where(KeyOf, k), A)
<1>1. IsReports(C) /\ Values(KeyOf, C) = {r.key} /\ r \in Where(KeyOf, r.key)
  <2>1. KeyOf[r] = r.key BY FunctionsAt
  <2>2. Values(KeyOf, C) = {KeyOf[r]} BY ValuesOfOne
  <2>3. r \in Where(KeyOf, r.key) BY <2>1 DEF Where
  <2> QED BY <2>1, <2>2, <2>3, BagOfOne
<1>2. Values(KeyOf, D) = DOMAIN m \cup {r.key} BY <1>1, ValuesUnion, EntriesAt
<1>3. ASSUME NEW k \in Values(KeyOf, D)
      PROVE  EntryOf(part(k, D)) = IF k = r.key THEN AddTo(At(m, r.key, NewEntry), r) ELSE m[k]
  <2>1. part(k, D) = part(k, B) (+) part(k, C) BY <1>1, OnlyUnion
  <2>2. IsReports(part(k, B)) BY BagOnly
  <2>3. At(m, k, NewEntry) = EntryOf(part(k, B)) BY EntriesAt
  <2>4. CASE k = r.key
    <3>1. part(k, C) = C BY <1>1, <2>4, OnlyOne
    <3> HIDE DEF part, m
    <3>2. AddTo(EntryOf(part(k, B)), r) = EntryOf(part(k, B) (+) C) BY <2>2, AddIsMerge
    <3> QED BY <2>1, <2>3, <2>4, <3>1, <3>2
  <2>5. CASE k # r.key
    <3>1. part(k, C) = EmptyBag BY <1>1, <2>5, NoneWhere
    <3>2. part(k, D) = part(k, B)
      <4> HIDE DEF part, D
      <4> QED BY <2>1, <2>2, <3>1, UnionWithNone
    <3>3. m[k] = EntryOf(part(k, B)) BY <1>2, <2>3, <2>5 DEF At
    <3> HIDE DEF part, m, D
    <3> QED BY <2>5, <3>2, <3>3
  <2> QED BY <2>4, <2>5
<1>4. EntriesOf(D) = [k \in Values(KeyOf, D) |-> EntryOf(part(k, D))] BY DEF EntriesOf
<1> HIDE DEF D, m, part
<1> QED BY <1>2, <1>3, <1>4 DEF Put, D, m

-----------------------------------------------------------------------------
(***************************************************************************)
(* Errors.                                                                 *)
(***************************************************************************)
LEMMA ErrorUnion ==
  ASSUME NEW B, IsReports(B), NEW C, IsReports(C)
  PROVE  MergeError(ErrorOf(B), ErrorOf(C)) = ErrorOf(B (+) C)
<1>1. Values(Time, B (+) C) = Values(Time, B) \cup Values(Time, C) BY ValuesUnion
<1>2. /\ Values(Time, B) \subseteq Nat \ {0} /\ IsFiniteSet(Values(Time, B))
      /\ Values(Time, C) \subseteq Nat \ {0} /\ IsFiniteSet(Values(Time, C))
  BY TimesOf
<1>3. Least(Values(Time, B (+) C), 0) = Smaller(0, Least(Values(Time, B), 0), Least(Values(Time, C), 0))
  BY <1>1, <1>2, LeastUnion
<1>4. Most(Values(Time, B (+) C)) = Larger(Most(Values(Time, B)), Most(Values(Time, C)))
  <2>1. Values(Time, B) \subseteq Nat /\ Values(Time, C) \subseteq Nat BY <1>2
  <2> QED BY <1>1, <1>2, <2>1, MostUnion
<1>5. Count(B (+) C) = Count(B) + Count(C) BY CountOfReports
<1> QED BY <1>3, <1>4, <1>5 DEF ErrorOf, MergeError

\* The error of no request and of one.
LEMMA ErrorOfFew ==
  /\ ErrorOf(EmptyBag) = NewError
  /\ \A r \in Reported : ErrorOf(SetToBag({r})) = [count |-> 1, first |-> r.at, last |-> r.at]
<1>1. ErrorOf(EmptyBag) = NewError
  <2>1. Values(Time, EmptyBag) = {} /\ Count(EmptyBag) = 0 BY ValuesOfOne, CountOfReports
  <2>2. Least({}, 0) = 0 /\ Most({}) = 0 BY ExtremesOfOne DEF Least
  <2> QED BY <2>1, <2>2 DEF ErrorOf, NewError
<1>2. ASSUME NEW r \in Reported
      PROVE  ErrorOf(SetToBag({r})) = [count |-> 1, first |-> r.at, last |-> r.at]
  <2>1. Time[r] = r.at /\ r.at \in Nat BY FunctionsAt, ReportType
  <2>2. Values(Time, SetToBag({r})) = {r.at} BY <2>1, ValuesOfOne
  <2>3. Count(SetToBag({r})) = 1 BY CountOfReports
  <2>4. Least({r.at}, 0) = r.at /\ Most({r.at}) = r.at BY <2>1, ExtremesOfOne
  <2> QED BY <2>2, <2>3, <2>4 DEF ErrorOf
<1> QED BY <1>1, <1>2

\* Of the failed requests, those with this error.
Part(f, c, B) == Only(Where(f, c), Failed(B))

\* The error of each kind is calculated of its requests.
LEMMA ErrorsAt ==
  ASSUME NEW B, IsReports(B), NEW f
  PROVE  /\ DOMAIN ErrorsOf(B, f) = Values(f, Failed(B))
         /\ \A c : IsReports(Part(f, c, B)) /\ At(ErrorsOf(B, f), c, NewError) = ErrorOf(Part(f, c, B))
         /\ \A c \in Values(f, Failed(B)) : ErrorsOf(B, f)[c] = ErrorOf(Part(f, c, B))
         /\ \A c : c \notin Values(f, Failed(B)) => Part(f, c, B) = EmptyBag
<1>1. DOMAIN ErrorsOf(B, f) = Values(f, Failed(B)) BY DEF ErrorsOf
<1>2. \A c \in Values(f, Failed(B)) : ErrorsOf(B, f)[c] = ErrorOf(Part(f, c, B)) BY DEF ErrorsOf, Part
<1>3. IsReports(Failed(B)) BY TimesOf
<1>4. \A c : IsReports(Part(f, c, B)) BY <1>3, BagOnly DEF Part
<1>5. \A c : c \notin Values(f, Failed(B)) => Part(f, c, B) = EmptyBag BY <1>3, NoneWhere DEF Part
<1>6. ASSUME NEW c PROVE At(ErrorsOf(B, f), c, NewError) = ErrorOf(Part(f, c, B))
  <2>1. CASE c \in Values(f, Failed(B)) BY <1>1, <1>2, <2>1 DEF At
  <2>2. CASE c \notin Values(f, Failed(B)) BY <1>1, <1>5, <2>2, ErrorOfFew DEF At
  <2> QED BY <2>1, <2>2
<1> QED BY <1>1, <1>2, <1>4, <1>5, <1>6

\* The failed requests of a kind in a union.
LEMMA PartUnion ==
  ASSUME NEW B, IsReports(B), NEW C, IsReports(C), NEW f
  PROVE  /\ Values(f, Failed(B (+) C)) = Values(f, Failed(B)) \cup Values(f, Failed(C))
         /\ \A c : Part(f, c, B (+) C) = Part(f, c, B) (+) Part(f, c, C)
<1>1. IsReports(Failed(B)) /\ IsReports(Failed(C)) BY TimesOf
<1>2. Failed(B (+) C) = Failed(B) (+) Failed(C) BY PartsUnion
<1>3. Values(f, Failed(B (+) C)) = Values(f, Failed(B)) \cup Values(f, Failed(C))
  BY <1>1, <1>2, ValuesUnion
<1>4. \A c : Part(f, c, B (+) C) = Part(f, c, B) (+) Part(f, c, C) BY <1>1, <1>2, OnlyUnion DEF Part
<1> QED BY <1>3, <1>4

\* The errors of a union are merged, as Merge does.
LEMMA ErrorsUnion ==
  ASSUME NEW B, IsReports(B), NEW C, IsReports(C), NEW f
  PROVE  ErrorsOf(B (+) C, f) = MergeErrors(ErrorsOf(B, f), ErrorsOf(C, f))
<1> DEFINE V == Values(f, Failed(B (+) C))
           m == ErrorsOf(B, f)
           n == ErrorsOf(C, f)
<1>1. V = AllKeys(m, n) /\ DOMAIN n = Values(f, Failed(C)) /\ DOMAIN m = Values(f, Failed(B))
  BY PartUnion, ErrorsAt DEF AllKeys
<1>2. ASSUME NEW c \in V
      PROVE  ErrorOf(Part(f, c, B (+) C))
               = IF c \in DOMAIN n THEN MergeError(At(m, c, NewError), n[c]) ELSE m[c]
  <2>1. Part(f, c, B (+) C) = Part(f, c, B) (+) Part(f, c, C) BY PartUnion
  <2>2. IsReports(Part(f, c, B)) /\ IsReports(Part(f, c, C)) BY ErrorsAt
  <2>3. At(m, c, NewError) = ErrorOf(Part(f, c, B)) BY ErrorsAt
  <2>4. CASE c \in DOMAIN n
    <3>1. n[c] = ErrorOf(Part(f, c, C)) BY <1>1, <2>4, ErrorsAt
    <3> HIDE DEF m, n
    <3> QED BY <2>1, <2>2, <2>3, <2>4, <3>1, ErrorUnion
  <2>5. CASE c \notin DOMAIN n
    <3>1. Part(f, c, C) = EmptyBag BY <1>1, <2>5, ErrorsAt
    <3>2. Part(f, c, B (+) C) = Part(f, c, B) BY <2>1, <2>2, <3>1, UnionWithNone
    <3>3. c \in DOMAIN m BY <1>1, <2>5 DEF AllKeys
    <3> HIDE DEF m, n
    <3> QED BY <2>3, <2>5, <3>2, <3>3 DEF At
  <2> QED BY <2>4, <2>5
<1>3. ErrorsOf(B (+) C, f) = [c \in V |-> ErrorOf(Part(f, c, B (+) C))] BY DEF ErrorsOf, Part
<1> HIDE DEF V, m, n
<1>4. MergeErrors(m, n)
        = [c \in V |-> IF c \in DOMAIN n THEN MergeError(At(m, c, NewError), n[c]) ELSE m[c]]
  BY <1>1 DEF MergeErrors
<1>5. ErrorsOf(B (+) C, f) = MergeErrors(m, n) BY <1>2, <1>3, <1>4
<1> QED BY <1>5 DEF m, n

\* Those of one request more are what Add makes of them.
LEMMA ErrorsAdd ==
  ASSUME NEW B, IsReports(B), NEW r \in Reported
  PROVE  ErrorsOf(B (+) SetToBag({r}), KeyOfError)
           = IF r.error = NoError THEN ErrorsOf(B, KeyOfError)
             ELSE Put(ErrorsOf(B, KeyOfError), ErrorKey(r),
                      MergeError(At(ErrorsOf(B, KeyOfError), ErrorKey(r), NewError),
                                 [count |-> 1, first |-> r.at, last |-> r.at]))
<1> DEFINE C == SetToBag({r})
           T == {x \in Reported : x.error # NoError}
           m == ErrorsOf(B, KeyOfError)
           key == ErrorKey(r)
<1>1. IsReports(C) /\ IsReports(Failed(B)) BY BagOfOne, TimesOf
<1>2. Failed(B (+) C) = Failed(B) (+) Failed(C) BY <1>1, PartsUnion
<1>3. (r \in T => Failed(C) = C) /\ (r \notin T => Failed(C) = EmptyBag)
  <2>1. Failed(C) = Only(T, C) BY DEF Failed
  <2> HIDE DEF T
  <2> QED BY <2>1, OnlyOne
<1>4. CASE r.error = NoError
  <2>1. r \notin T BY <1>4
  <2>2. Failed(B (+) C) = Failed(B) BY <1>1, <1>2, <1>3, <2>1, UnionWithNone
  <2>3. ErrorsOf(B (+) C, KeyOfError) = ErrorsOf(B, KeyOfError) BY <2>2 DEF ErrorsOf
  <2> QED BY <1>4, <2>3
<1>5. CASE r.error # NoError
  <2>1. Failed(C) = C
    <3>1. r \in T BY <1>5
    <3> QED BY <1>3, <3>1
  <2>2. KeyOfError[r] = key BY FunctionsAt
  <2>3. Values(KeyOfError, Failed(C)) = {key}
    <3>1. Values(KeyOfError, C) = {KeyOfError[r]} BY ValuesOfOne
    <3> QED BY <2>1, <2>2, <3>1
  <2>4. Values(KeyOfError, Failed(B (+) C)) = DOMAIN m \cup {key}
    <3>1. Values(KeyOfError, Failed(B (+) C))
            = Values(KeyOfError, Failed(B)) \cup Values(KeyOfError, Failed(C))
      <4> HIDE DEF C
      <4> QED BY <1>1, PartUnion
    <3>2. DOMAIN m = Values(KeyOfError, Failed(B)) BY ErrorsAt
    <3> QED BY <2>3, <3>1, <3>2
  <2>5. ASSUME NEW c \in DOMAIN m \cup {key}
        PROVE  ErrorOf(Part(KeyOfError, c, B (+) C))
                 = IF c = key
                   THEN MergeError(At(m, key, NewError), [count |-> 1, first |-> r.at, last |-> r.at])
                   ELSE m[c]
    <3>1. /\ Part(KeyOfError, c, B (+) C) = Part(KeyOfError, c, B) (+) Part(KeyOfError, c, C)
          /\ IsReports(Part(KeyOfError, c, B)) /\ IsReports(Part(KeyOfError, c, C))
      BY <1>1, PartUnion, ErrorsAt
    <3>2. At(m, c, NewError) = ErrorOf(Part(KeyOfError, c, B)) BY ErrorsAt
    <3>3. CASE c = key
      <4>1. r \in Where(KeyOfError, c) BY <2>2, <3>3 DEF Where
      <4>2. Part(KeyOfError, c, C) = C BY <2>1, <4>1, OnlyOne DEF Part
      <4>3. ErrorOf(C) = [count |-> 1, first |-> r.at, last |-> r.at] BY ErrorOfFew
      <4> HIDE DEF m, C, key
      <4> QED BY <3>1, <3>2, <3>3, <4>2, <4>3, ErrorUnion
    <3>4. CASE c # key
      <4>1. Part(KeyOfError, c, C) = EmptyBag BY <1>1, <2>3, <3>4, ErrorsAt
      <4>2. Part(KeyOfError, c, B (+) C) = Part(KeyOfError, c, B)
        <5> HIDE DEF C
        <5> QED BY <3>1, <4>1, UnionWithNone
      <4>3. c \in DOMAIN m BY <3>4
      <4> HIDE DEF m, C, key
      <4> QED BY <3>2, <3>4, <4>2, <4>3 DEF At
    <3> QED BY <3>3, <3>4
  <2>6. ErrorsOf(B (+) C, KeyOfError)
          = [c \in DOMAIN m \cup {key} |-> ErrorOf(Part(KeyOfError, c, B (+) C))]
    BY <2>4 DEF ErrorsOf, Part
  <2>7. ErrorsOf(B (+) C, KeyOfError)
          = Put(m, key, MergeError(At(m, key, NewError), [count |-> 1, first |-> r.at, last |-> r.at]))
    <3> HIDE DEF m, C, key
    <3> QED BY <2>5, <2>6 DEF Put
  <2> QED BY <1>5, <2>7
<1> QED BY <1>4, <1>5

-----------------------------------------------------------------------------
(***************************************************************************)
(* The total.  The function that the fold chooses satisfies an equation of *)
(* which the entries of the requests by sets of keys are a solution, and   *)
(* by induction over the keys the only one.                                *)
(***************************************************************************)
Merges(m, D, g) ==
  g = [K \in D |-> IF K = {} THEN NewEntry ELSE MergeEntry(g[K \ {AnyOf(K)}], m[AnyOf(K)])]

\* Aggregate folds the entries of all keys one by one.
LEMMA AggregateIs ==
  ASSUME NEW m, NEW h, Merges(m, SUBSET DOMAIN m, h)
  PROVE  \E g : Merges(m, SUBSET DOMAIN m, g) /\ Aggregate(m) = g[DOMAIN m]
<1> DEFINE it == CHOOSE g : Merges(m, SUBSET DOMAIN m, g)
<1>1. Merges(m, SUBSET DOMAIN m, it) OBVIOUS
<1>2. Aggregate(m) = it[DOMAIN m]
  BY DEF Aggregate, FoldFunction, FoldFunctionOnSet, MapThenFoldSet, Merges, AnyOf
<1> QED BY <1>1, <1>2

WithKeys(K) == {r \in Reported : r.key \in K}

\* The entry of the requests with some keys, without one of them and merged with its own.
LEMMA KeysPart ==
  ASSUME NEW B, IsReports(B), NEW K \in SUBSET Values(KeyOf, B), NEW k \in K
  PROVE  EntryOf(Only(WithKeys(K), B))
           = MergeEntry(EntryOf(Only(WithKeys(K \ {k}), B)), EntriesOf(B)[k])
<1> DEFINE T == WithKeys(K \ {k})
           U == Where(KeyOf, k)
<1>1. U = {r \in Reported : r.key = k} BY FunctionsAt DEF Where
<1>2. WithKeys(K) = T \cup U BY <1>1 DEF WithKeys
<1>3. BagToSet(B) \cap T \cap U = {} BY <1>1 DEF WithKeys
<1>4. EntriesOf(B)[k] = EntryOf(Only(U, B)) BY DEF EntriesOf
<1>5. Only(U, B) # EmptyBag BY SomeWhere
<1> HIDE DEF T, U
<1>6. Only(T \cup U, B) = Only(T, B) (+) Only(U, B) BY <1>3, OnlySplits
<1>7. IsReports(Only(T, B)) /\ IsReports(Only(U, B)) BY BagOnly
<1>8. MergeEntry(EntryOf(Only(T, B)), EntryOf(Only(U, B))) = EntryOf(Only(T, B) (+) Only(U, B))
  BY <1>5, <1>7, EntryUnion
<1> QED BY <1>2, <1>4, <1>6, <1>8 DEF T

\* The total that Aggregate merges is the entry of all requests.
LEMMA AggregateExact ==
  ASSUME NEW B, IsReports(B)
  PROVE  Aggregate(EntriesOf(B)) = EntryOf(B)
<1> DEFINE m == EntriesOf(B)
           D == SUBSET DOMAIN m
           part(K) == EntryOf(Only(WithKeys(K), B))
           g == [K \in D |-> part(K)]
<1>1. DOMAIN m = Values(KeyOf, B) BY EntriesAt
<1>2. IsFiniteSet(DOMAIN m) BY <1>1, FiniteImage DEF Values, IsReports
<1>3. part({}) = NewEntry
  <2>1. WithKeys({}) = {} BY DEF WithKeys
  <2>2. IsReports(Only({}, B)) /\ BagToSet(Only({}, B)) = {} BY BagOnly
  <2>3. Only({}, B) = EmptyBag BY <2>2, NoReports
  <2> QED BY <2>1, <2>3, EntryOfNone
<1>4. ASSUME NEW K \in D, K # {}
      PROVE  AnyOf(K) \in K /\ part(K) = MergeEntry(part(K \ {AnyOf(K)}), m[AnyOf(K)])
  <2>1. AnyOf(K) \in K BY <1>4, AnyIn
  <2> QED BY <1>1, <2>1, KeysPart
<1> HIDE DEF m, part
<1>5. Merges(m, D, g)
  <2>1. \A K \in D : g[K] = IF K = {} THEN NewEntry ELSE MergeEntry(g[K \ {AnyOf(K)}], m[AnyOf(K)])
    <3> SUFFICES ASSUME NEW K \in D
                 PROVE  g[K] = IF K = {} THEN NewEntry ELSE MergeEntry(g[K \ {AnyOf(K)}], m[AnyOf(K)])
      OBVIOUS
    <3>1. K \ {AnyOf(K)} \in D OBVIOUS
    <3> QED BY <1>3, <1>4, <3>1
  <2> QED BY <2>1 DEF Merges
<1>6. PICK h : Merges(m, D, h) /\ Aggregate(m) = h[DOMAIN m] BY <1>5, AggregateIs
<1> DEFINE P == {K \in D : h[K] = part(K)}
<1>7. ASSUME NEW K \in D, \A k \in K : K \ {k} \in P PROVE K \in P
  <2>1. h[K] = IF K = {} THEN NewEntry ELSE MergeEntry(h[K \ {AnyOf(K)}], m[AnyOf(K)])
    BY <1>6 DEF Merges
  <2>2. CASE K = {} BY <1>3, <2>1, <2>2
  <2>3. CASE K # {}
    <3>1. h[K \ {AnyOf(K)}] = part(K \ {AnyOf(K)}) BY <1>4, <1>7, <2>3
    <3> QED BY <1>4, <2>1, <2>3, <3>1
  <2> QED BY <2>2, <2>3
<1>8. \A K \in D : K \in P
  <2> HIDE DEF P
  <2> QED BY <1>2, <1>7, SetInduction
<1>9. Aggregate(m) = part(DOMAIN m) BY <1>6, <1>8
<1>10. Only(WithKeys(DOMAIN m), B) = B
  <2>1. BagToSet(B) \subseteq WithKeys(DOMAIN m)
    BY <1>1, FunctionsAt DEF Values, WithKeys, IsReports
  <2>2. /\ IsReports(Only(WithKeys(DOMAIN m), B))
        /\ BagToSet(Only(WithKeys(DOMAIN m), B)) = BagToSet(B) \cap WithKeys(DOMAIN m)
        /\ \A r \in BagToSet(B) \cap WithKeys(DOMAIN m) : Only(WithKeys(DOMAIN m), B)[r] = B[r]
    BY BagOnly
  <2>3. BagToSet(B) \cap WithKeys(DOMAIN m) = BagToSet(B) BY <2>1
  <2> QED BY <2>2, <2>3, BagsEqual
<1> QED BY <1>9, <1>10 DEF m, part

-----------------------------------------------------------------------------
(***************************************************************************)
(* The payload.                                                            *)
(***************************************************************************)
\* No two errors share a name.
LEMMA NamesTellApart ==
  ASSUME NEW B, IsReports(B), NEW r \in BagToSet(Failed(B))
  PROVE  /\ \A k \in Values(KeyOfError, Failed(B)) : Encode(k) = NameOfError[r] => k = KeyOfError[r]
         /\ Where(KeyOfError, KeyOfError[r]) = Where(NameOfError, NameOfError[r])
<1>1. BagToSet(Failed(B)) \subseteq Reported BY TimesOf DEF IsReports
<1>2. \A x, y \in Reported : Encode(ErrorKey(x)) = Encode(ErrorKey(y)) => ErrorKey(x) = ErrorKey(y)
  <2>1. \A x \in Reported : \E q \in Requests : ErrorKey(x) = ErrorKey(q)
    BY DEF Reported, Stamped, ErrorKey
  <2>2. \A p, q \in Requests : Encode(ErrorKey(p)) = Encode(ErrorKey(q)) => ErrorKey(p) = ErrorKey(q)
    BY EntriesAssumption
  <2> QED BY <2>1, <2>2
<1>3. \A x \in Reported : KeyOfError[x] = ErrorKey(x) /\ NameOfError[x] = Encode(ErrorKey(x))
  BY FunctionsAt
<1>4. r \in Reported BY <1>1
<1>5. Where(KeyOfError, KeyOfError[r]) = Where(NameOfError, NameOfError[r])
  BY <1>2, <1>3, <1>4 DEF Where
<1>6. ASSUME NEW k \in Values(KeyOfError, Failed(B)), Encode(k) = NameOfError[r]
      PROVE  k = KeyOfError[r]
  <2>1. PICK x \in BagToSet(Failed(B)) : k = KeyOfError[x] BY DEF Values
  <2> QED BY <1>1, <1>2, <1>3, <1>4, <1>6, <2>1
<1> QED BY <1>5, <1>6

ByName(es) ==
  [c \in {Encode(k) : k \in DOMAIN es} |-> es[CHOOSE k \in DOMAIN es : Encode(k) = c]]

\* Errors under the names of the payload are those calculated by name.
LEMMA NamesExact ==
  ASSUME NEW B, IsReports(B)
  PROVE  ByName(ErrorsOf(B, KeyOfError)) = ErrorsOf(B, NameOfError)
<1> DEFINE es == ErrorsOf(B, KeyOfError)
           F == BagToSet(Failed(B))
           N == {Encode(k) : k \in DOMAIN es}
           it(c) == CHOOSE k \in DOMAIN es : Encode(k) = c
<1>1. DOMAIN es = {KeyOfError[r] : r \in F}
  <2>1. DOMAIN es = Values(KeyOfError, Failed(B)) BY ErrorsAt
  <2> QED BY <2>1 DEF Values
<1>2. \A r \in F : NameOfError[r] = Encode(KeyOfError[r])
  BY TimesOf, FunctionsAt DEF IsReports
<1>3. N = {NameOfError[r] : r \in F} BY <1>1, <1>2
<1>4. N = Values(NameOfError, Failed(B)) BY <1>3 DEF Values
<1>5. ASSUME NEW c \in N
      PROVE  es[it(c)] = ErrorOf(Only(Where(NameOfError, c), Failed(B)))
  <2>1. PICK r \in F : c = NameOfError[r] BY <1>3
  <2>2. KeyOfError[r] \in DOMAIN es /\ Encode(KeyOfError[r]) = c BY <1>1, <1>2, <2>1
  <2>3. it(c) \in DOMAIN es /\ Encode(it(c)) = c BY <2>2
  <2>4. DOMAIN es = Values(KeyOfError, Failed(B)) BY ErrorsAt
  <2> HIDE DEF it
  <2>5. it(c) = KeyOfError[r] BY <2>1, <2>3, <2>4, NamesTellApart
  <2>6. es[it(c)] = ErrorOf(Part(KeyOfError, it(c), B)) BY <2>3, <2>4, ErrorsAt
  <2>7. Where(KeyOfError, it(c)) = Where(NameOfError, c) BY <2>1, <2>5, NamesTellApart
  <2> QED BY <2>6, <2>7 DEF Part
<1>6. ErrorsOf(B, NameOfError) = [c \in N |-> ErrorOf(Only(Where(NameOfError, c), Failed(B)))]
  BY <1>4 DEF ErrorsOf
<1> HIDE DEF N, it
<1>7. [c \in N |-> es[it(c)]] = ErrorsOf(B, NameOfError) BY <1>5, <1>6
<1> QED BY <1>7 DEF N, it, ByName

\* An entry without a minimum has none in the payload.
LEMMA ConvertedIs ==
  ASSUME NEW k, NEW e, e.min \in Nat \cup {-1}
  PROVE  Converted(k, e) = [key |-> k, entry |-> NilMin(e)]
<1>1. (e.min < 0) <=> (e.min = -1) OBVIOUS
<1> QED BY <1>1 DEF Converted, NilMin

\* The payload of exact entries and errors says what it should.
LEMMA PayloadTells ==
  ASSUME NEW B, IsReports(B), NEW s, s.entries = EntriesOf(B), s.errors = ErrorsOf(B, KeyOfError)
  PROVE  Tells(Payload(s), B)
<1> DEFINE p == Payload(s)
<1>1. p.stats = {[key |-> k, entry |-> NilMin(EntriesOf(B)[k])] : k \in Values(KeyOf, B)}
  <2>1. DOMAIN s.entries = Values(KeyOf, B) BY EntriesAt
  <2>2. p.stats = {Converted(k, s.entries[k]) : k \in Values(KeyOf, B)} BY <2>1 DEF Payload
  <2>3. ASSUME NEW k \in Values(KeyOf, B)
        PROVE  Converted(k, s.entries[k]) = [key |-> k, entry |-> NilMin(EntriesOf(B)[k])]
    <3>1. EntriesOf(B)[k] = EntryOf(Only(Where(KeyOf, k), B)) BY DEF EntriesOf
    <3>2. EntriesOf(B)[k].min \in Nat \cup {-1} BY <3>1, BagOnly, EntryType
    <3> QED BY <3>2, ConvertedIs
  <2> QED BY <2>2, <2>3
<1>2. [p.total.entry EXCEPT !.start = 0] = NilMin([EntryOf(B) EXCEPT !.start = 0])
  <2>1. Total(s) = [EntryOf(B) EXCEPT !.start = s.start] BY AggregateExact DEF Total
  <2>2. p.total = Converted("Aggregated", Total(s)) BY DEF Payload
  <2>3. EntryOf(B).min \in Nat \cup {-1} BY EntryType
  <2>4. EntryOf(B) = [start |-> EntryOf(B).start, last |-> EntryOf(B).last, n |-> EntryOf(B).n,
                      none |-> EntryOf(B).none, perSec |-> EntryOf(B).perSec,
                      fails |-> EntryOf(B).fails, failsPerSec |-> EntryOf(B).failsPerSec,
                      total |-> EntryOf(B).total, min |-> EntryOf(B).min, max |-> EntryOf(B).max,
                      size |-> EntryOf(B).size, times |-> EntryOf(B).times]
    BY DEF EntryOf
  <2>5. Total(s).min = EntryOf(B).min BY <2>1, <2>4
  <2>6. p.total.entry = NilMin(Total(s)) BY <2>2, <2>3, <2>5, ConvertedIs
  <2> HIDE DEF p
  <2>7. [NilMin(Total(s)) EXCEPT !.start = 0] = NilMin([EntryOf(B) EXCEPT !.start = 0])
    BY <2>1, <2>4 DEF NilMin
  <2> QED BY <2>6, <2>7
<1>3. p.errors = ErrorsOf(B, NameOfError)
  <2>1. p.errors = ByName(s.errors) BY DEF Payload, ByName
  <2> HIDE DEF p
  <2> QED BY <2>1, NamesExact
<1> QED BY <1>1, <1>2, <1>3 DEF Tells

-----------------------------------------------------------------------------
(***************************************************************************)
(* The steps.                                                              *)
(***************************************************************************)
\* A Stats that says of B what it should.
Holds(s, B) ==
  /\ IsReports(B)
  /\ s = [start |-> s.start, entries |-> EntriesOf(B), errors |-> ErrorsOf(B, KeyOfError)]

\* One without keys says it of no requests.
LEMMA HoldsNone ==
  /\ Holds(Fresh, EmptyBag)
  /\ \A s, now : Holds(Cleared(s, now), EmptyBag)
<1>1. IsReports(EmptyBag) /\ BagToSet(EmptyBag) = {} BY BagOfNone
<1>2. Values(KeyOf, EmptyBag) = {} BY <1>1 DEF Values
<1>3. EntriesOf(EmptyBag) = NoKeys BY <1>2 DEF EntriesOf, NoKeys
<1>4. BagToSet(Failed(EmptyBag)) = {} BY <1>1, BagOnly DEF Failed
<1>5. Values(KeyOfError, Failed(EmptyBag)) = {} BY <1>4 DEF Values
<1>6. ErrorsOf(EmptyBag, KeyOfError) = NoKeys BY <1>5 DEF ErrorsOf, NoKeys
<1> QED BY <1>1, <1>3, <1>6 DEF Holds, Fresh, Cleared

\* What it says still holds with one request more.
LEMMA HoldsAdded ==
  ASSUME NEW s, NEW B, Holds(s, B), NEW r \in Reported
  PROVE  Holds(Added(s, r), B (+) SetToBag({r}))
<1> DEFINE C == B (+) SetToBag({r})
           en == Put(EntriesOf(B), r.key, AddTo(At(EntriesOf(B), r.key, NewEntry), r))
           er == IF r.error = NoError THEN ErrorsOf(B, KeyOfError)
                 ELSE Put(ErrorsOf(B, KeyOfError), ErrorKey(r),
                          MergeError(At(ErrorsOf(B, KeyOfError), ErrorKey(r), NewError),
                                     [count |-> 1, first |-> r.at, last |-> r.at]))
<1>1. IsReports(B) BY DEF Holds
<1>2. IsReports(C) BY <1>1, BagOfOne, BagOfBoth
<1>3. EntriesOf(C) = en BY <1>1, EntriesAdd
<1>4. ErrorsOf(C, KeyOfError) = er BY <1>1, ErrorsAdd
<1>5. s.entries = EntriesOf(B) /\ s.errors = ErrorsOf(B, KeyOfError) BY DEF Holds
<1>6. Added(s, r) = [s EXCEPT !.entries = en, !.errors = er] BY <1>5 DEF Added
<1> HIDE DEF C, en, er
<1>7. Added(s, r) = [start |-> s.start, entries |-> en, errors |-> er] BY <1>6 DEF Holds
<1>8. Holds(Added(s, r), C) BY <1>2, <1>3, <1>4, <1>7 DEF Holds
<1> QED BY <1>8 DEF C

\* And with those of another.
LEMMA HoldsMerged ==
  ASSUME NEW s, NEW B, Holds(s, B), NEW t, NEW C, Holds(t, C)
  PROVE  Holds(Merged(s, t), B (+) C)
<1> DEFINE en == MergeEntries(s.entries, t.entries)
           er == MergeErrors(s.errors, t.errors)
<1>1. /\ IsReports(B) /\ s.entries = EntriesOf(B) /\ s.errors = ErrorsOf(B, KeyOfError)
      /\ IsReports(C) /\ t.entries = EntriesOf(C) /\ t.errors = ErrorsOf(C, KeyOfError)
  BY DEF Holds
<1>2. IsReports(B (+) C) BY <1>1, BagOfBoth
<1>3. EntriesOf(B (+) C) = en BY <1>1, EntriesUnion
<1>4. ErrorsOf(B (+) C, KeyOfError) = er BY <1>1, ErrorsUnion
<1>5. Merged(s, t) = [s EXCEPT !.entries = en, !.errors = er] BY DEF Merged
<1> HIDE DEF en, er
<1>6. Merged(s, t) = [start |-> s.start, entries |-> en, errors |-> er] BY <1>5 DEF Holds
<1> QED BY <1>2, <1>3, <1>4, <1>6 DEF Holds

\* So does that of a Stats that holds the requests of a bag.
LEMMA HoldsTells ==
  ASSUME NEW s, NEW B, Holds(s, B)
  PROVE  IsReports(B) /\ Tells(Payload(s), B)
BY PayloadTells DEF Holds

\* Inductive: each Stats is as long as the requests it stands for say, which
\* are reports of the past.
IndInv ==
  /\ clock \in 1 .. MaxClock
  /\ DOMAIN stats = Owners /\ DOMAIN got = Owners
  /\ \A o \in Owners : Holds(stats[o], got[o])
  /\ Tells(report, told)

LEMMA InitInd == Init => IndInv
<1> SUFFICES ASSUME Init PROVE IndInv OBVIOUS
<1>1. Tells(Payload(Fresh), EmptyBag) BY HoldsNone, HoldsTells
<1>2. 1 \in 1 .. MaxClock BY EntriesAssumption
<1> QED BY <1>1, <1>2, HoldsNone DEF Init, IndInv

LEMMA NextInd == IndInv /\ [Next]_vars => IndInv'
<1> SUFFICES ASSUME IndInv, [Next]_vars PROVE IndInv' OBVIOUS
<1> USE DEF IndInv
<1>1. CASE Tick
  <2>1. clock' \in 1 .. MaxClock BY <1>1, EntriesAssumption DEF Tick
  <2> QED BY <1>1, <2>1 DEF Tick
<1>2. CASE SendStats
  <2>1. "worker" \in Owners BY DEF Owners
  <2>2. Tells(report', told') BY <1>2, <2>1, HoldsTells DEF SendStats
  <2>3. /\ stats' = [stats EXCEPT !["worker"] = Cleared(stats["worker"], clock)]
        /\ got' = [got EXCEPT !["worker"] = EmptyBag] /\ clock' = clock
    BY <1>2 DEF SendStats
  <2>4. \A o \in Owners : Holds(stats'[o], got'[o]) BY <2>1, <2>3, HoldsNone
  <2> QED BY <2>2, <2>3, <2>4
<1>3. CASE ResetStats
  <2>1. /\ stats' = [stats EXCEPT !["worker"] = Cleared(stats["worker"], clock)]
        /\ got' = [got EXCEPT !["worker"] = EmptyBag] /\ UNCHANGED <<clock, report, told>>
    BY <1>3 DEF ResetStats
  <2>2. \A o \in Owners : Holds(stats'[o], got'[o]) BY <2>1, HoldsNone DEF Owners
  <2> QED BY <2>1, <2>2
<1>4. ASSUME NEW a \in Aggs, HandOver(a) PROVE IndInv'
  <2>1. a \in Owners /\ "worker" \in Owners /\ a # "worker" BY EntriesAssumption DEF Owners
  <2> DEFINE own == Cleared(stats[a], clock)
             all == Merged(stats["worker"], stats[a])
             bag == got["worker"] (+) got[a]
  <2>2. Holds(all, bag) BY <2>1, HoldsMerged
  <2>3. Holds(own, EmptyBag) BY HoldsNone
  <2>4. /\ stats' = [stats EXCEPT !["worker"] = all, ![a] = own]
        /\ got' = [got EXCEPT !["worker"] = bag, ![a] = EmptyBag]
        /\ UNCHANGED <<clock, report, told>>
    BY <1>4, <2>1 DEF HandOver
  <2> HIDE DEF own, all, bag
  <2>5. \A o \in Owners : Holds(stats'[o], got'[o]) BY <2>1, <2>2, <2>3, <2>4
  <2> QED BY <2>4, <2>5
<1>5. ASSUME NEW a \in Aggs, NEW q \in Requests, NEW t \in 1 .. clock, Add(a, q, t) PROVE IndInv'
  <2>1. a \in Owners BY DEF Owners
  <2>2. t \in 1 .. MaxClock BY EntriesAssumption
  <2> DEFINE r == Stamped(q, t)
             own == Added(stats[a], r)
             bag == got[a] (+) SetToBag({r})
  <2>3. r \in Reported BY <2>2 DEF Reported
  <2>4. Holds(own, bag)
    <3> HIDE DEF r
    <3> QED BY <2>1, <2>3, HoldsAdded
  <2>5. /\ stats' = [stats EXCEPT ![a] = own] /\ got' = [got EXCEPT ![a] = bag]
        /\ UNCHANGED <<clock, report, told>>
    BY <1>5 DEF Add
  <2> HIDE DEF own, bag
  <2>6. \A o \in Owners : Holds(stats'[o], got'[o]) BY <2>1, <2>4, <2>5
  <2> QED BY <2>5, <2>6
<1>6. CASE UNCHANGED vars BY <1>6 DEF vars
<1> QED BY <1>1, <1>2, <1>3, <1>4, <1>5, <1>6 DEF Next

LEMMA Inductive == Spec => []IndInv
BY InitInd, NextInd, PTL DEF Spec

(***************************************************************************)
(* For any number of aggregators and requests: in whatever order requests  *)
(* are added and Stats are merged (stats.go, entry.go:28-155), each Stats  *)
(* has for each key the entry that a calculation over all its requests at  *)
(* once gives.                                                             *)
(***************************************************************************)
THEOREM EntriesCorrect == Spec => []EntriesExact
<1>1. IndInv => EntriesExact BY DEF IndInv, Holds, EntriesExact
<1> QED BY <1>1, Inductive, PTL

(***************************************************************************)
(* So it has for each error its number, its first and its last time        *)
(* (errors.go:36-68).                                                      *)
(***************************************************************************)
THEOREM ErrorsCorrect == Spec => []ErrorsExact
<1>1. IndInv => ErrorsExact BY DEF IndInv, Holds, ErrorsExact
<1> QED BY <1>1, Inductive, PTL

(***************************************************************************)
(* A report tells the master of the requests it stands for by key, in      *)
(* total and by error, where the names of errors are not ambiguous         *)
(* (EntriesAssumption; stats.go:40-48, worker.go:787-841).                 *)
(***************************************************************************)
THEOREM ReportsCorrect == Spec => []ReportExact
<1>1. IndInv => ReportExact BY DEF IndInv, ReportExact
<1> QED BY <1>1, Inductive, PTL
=============================================================================
