---------------------------- MODULE WorkerProofs -----------------------------
(***************************************************************************)
(* Proofs about the worker, for every value of the bounds.                 *)
(***************************************************************************)
EXTENDS WorkerProps, SequenceTheorems, TLAPS

\* Labels a goroutine never returns from, and those of calls.
Bottoms ==
  {"begin", "open", "store", "connect", "ack", "procs", "close", "wait", "done", "failed",
   "none", "recv", "exited", "idle", "loop"}
Calls == Labels \ (Bottoms \cup {"offer", "reopen"})

\* A stack has one such label, at its end; a message is passed on at its head.
StackOK(s) ==
  /\ s \in Seq(Labels) /\ Len(s) >= 1
  /\ \A i \in 1 .. Len(s) : (s[i] \in Bottoms <=> i = Len(s)) /\ (s[i] \in {"offer", "reopen"} => i = 1)

Control == pc \in [Procs -> Seq(Labels)] /\ \A p \in Procs : StackOK(pc[p])

\* Every variable but pc has its type.
Types ==
  /\ wstate \in {"Init", "Spawning", "Running", "Cleanup", "Stopped"}
  /\ cancelFn \in Contexts /\ taken \in [Quitters -> Contexts]
  /\ ctxDone \in BOOLEAN /\ openDone \in BOOLEAN
  /\ sock \in {"none", "open", "reopened", "closed"}
  /\ ackCh \in BOOLEAN /\ stopCh \in BOOLEAN
  /\ last \in 0 .. MaxTime /\ handled \in 0 .. MaxTime
  /\ offer \in Spawns \cup {NoSpawn} /\ held \in Spawns \cup {NoSpawn}
  /\ cur \in Spawns \cup {NoSpawn}
  /\ capArg \in 0 .. MaxUsers /\ target \in 0 .. MaxUsers /\ users \in 0 .. MaxUsers
  /\ started \in BOOLEAN /\ spawning \in BOOLEAN
  /\ received \in 0 .. MaxMsgs /\ extDone \in 0 .. MaxExt

\* What SpawnsInOrder says, and that no spawn on its way is newer than the last one.
Order ==
  /\ handled <= cur.ts /\ cur.ts <= last /\ held.ts <= last
  /\ held # NoSpawn => cur.ts < held.ts
  /\ At("msg", "offer") => /\ offer.ts = last /\ offer \in Spawns
                           /\ held.ts < offer.ts /\ cur.ts < offer.ts

IndInv == Control /\ Types /\ Order

-----------------------------------------------------------------------------
\* What the steps do to a stack.
LEMMA StackFacts ==
  ASSUME NEW s, StackOK(s)
  PROVE  /\ s \in Seq(Labels) /\ s # <<>> /\ Len(s) \in Nat \ {0} /\ Head(s) = s[1]
         /\ Tail(s) \in Seq(Labels) /\ Len(Tail(s)) = Len(s) - 1
         /\ \A i \in 1 .. Len(s) - 1 : Tail(s)[i] = s[i + 1]
<1>1. s \in Seq(Labels) /\ Len(s) >= 1 BY DEF StackOK
<1>2. s # <<>> BY <1>1
<1> QED BY <1>1, <1>2

LEMMA LastLabel ==
  ASSUME NEW s, StackOK(s), Head(s) \in Bottoms
  PROVE  Len(s) = 1 /\ Tail(s) = <<>>
<1>1. /\ Len(s) \in Nat \ {0} /\ Head(s) = s[1]
      /\ Tail(s) \in Seq(Labels) /\ Len(Tail(s)) = Len(s) - 1
  BY StackFacts
<1>2. 1 \in 1 .. Len(s) BY <1>1
<1>3. s[1] \in Bottoms <=> 1 = Len(s) BY <1>2 DEF StackOK
<1>4. Len(s) = 1 BY <1>1, <1>3
<1> DEFINE t == Tail(s)
<1>5. t \in Seq(Labels) /\ Len(t) = 0 BY <1>1, <1>4
<1> HIDE DEF t
<1>6. t = <<>> BY <1>5
<1> QED BY <1>4, <1>6 DEF t

LEMMA Popped ==
  ASSUME NEW s, StackOK(s), Head(s) \notin Bottoms
  PROVE  /\ StackOK(Tail(s)) /\ Len(Tail(s)) = Len(s) - 1
         /\ \A i \in 1 .. Len(s) - 1 : Tail(s)[i] = s[i + 1]
         /\ Head(Tail(s)) = s[2] /\ Head(Tail(s)) \notin {"offer", "reopen"}
<1>1. /\ Tail(s) \in Seq(Labels) /\ Len(Tail(s)) = Len(s) - 1
      /\ \A i \in 1 .. Len(s) - 1 : Tail(s)[i] = s[i + 1]
      /\ Len(s) \in Nat \ {0} /\ Head(s) = s[1]
  BY StackFacts
<1>2. Len(s) >= 2
  <2>1. 1 \in 1 .. Len(s) BY <1>1
  <2>2. s[1] \in Bottoms <=> 1 = Len(s) BY <2>1 DEF StackOK
  <2> QED BY <1>1, <2>2
<1> DEFINE t == Tail(s)
<1>3. t \in Seq(Labels) /\ Len(t) = Len(s) - 1 /\ \A i \in 1 .. Len(s) - 1 : t[i] = s[i + 1]
  BY <1>1
<1>4. StackOK(t) => Head(t) = t[1] BY StackFacts
<1> HIDE DEF t
<1>5. ASSUME NEW i \in 1 .. Len(t)
      PROVE  (t[i] \in Bottoms <=> i = Len(t)) /\ t[i] \notin {"offer", "reopen"}
  <2>1. t[i] = s[i + 1] /\ i + 1 \in 1 .. Len(s) /\ i + 1 # 1 BY <1>1, <1>3
  <2>2. s[i + 1] \in Bottoms <=> i + 1 = Len(s) BY <2>1 DEF StackOK
  <2>3. s[i + 1] \in {"offer", "reopen"} => i + 1 = 1 BY <2>1 DEF StackOK
  <2>4. i + 1 = Len(s) <=> i = Len(t) BY <1>1, <1>3
  <2>5. t[i] \in Bottoms <=> i = Len(t) BY <2>1, <2>2, <2>4
  <2>6. t[i] \notin {"offer", "reopen"} BY <2>1, <2>3
  <2> QED BY <2>5, <2>6
<1>6. Len(t) >= 1 /\ 1 \in 1 .. Len(t) /\ t[1] = s[2] BY <1>1, <1>2, <1>3
<1>7. StackOK(t) BY <1>3, <1>5, <1>6 DEF StackOK
<1>8. Head(t) = s[2] /\ Head(t) \notin {"offer", "reopen"} BY <1>4, <1>5, <1>6, <1>7
<1> QED BY <1>1, <1>3, <1>7, <1>8 DEF t

LEMMA Pushed ==
  ASSUME NEW s, StackOK(s), Head(s) \notin Bottoms, NEW c \in Seq(Calls), Len(c) >= 1
  PROVE  StackOK(c \o Tail(s)) /\ Head(c \o Tail(s)) = c[1]
<1> DEFINE t == Tail(s)
           r == c \o t
<1>1. StackOK(t) /\ Head(t) \notin {"offer", "reopen"} BY Popped
<1>2. t \in Seq(Labels) /\ Head(t) = t[1] /\ Len(t) \in Nat \ {0} BY <1>1, StackFacts
<1>3. c \in Seq(Labels) /\ Len(c) \in Nat \ {0}
  <2>1. Calls \subseteq Labels BY DEF Calls
  <2> QED BY <2>1, SeqMonotonic
<1> HIDE DEF t
<1>4. r \in Seq(Labels) /\ Len(r) = Len(c) + Len(t)
      /\ \A i \in 1 .. Len(c) + Len(t) : r[i] = IF i <= Len(c) THEN c[i] ELSE t[i - Len(c)]
  BY <1>2, <1>3, ConcatProperties
<1> HIDE DEF r
<1>5. ASSUME NEW i \in 1 .. Len(r)
      PROVE  (r[i] \in Bottoms <=> i = Len(r)) /\ (r[i] \in {"offer", "reopen"} => i = 1)
  <2>1. CASE i <= Len(c)
    <3>1. r[i] = c[i] /\ i \in 1 .. Len(c) /\ i # Len(r) BY <1>2, <1>3, <1>4, <2>1
    <3>2. c[i] \in Calls BY <3>1, ElementOfSeq
    <3> QED BY <3>1, <3>2 DEF Calls
  <2>2. CASE i > Len(c)
    <3> DEFINE j == i - Len(c)
    <3>1. r[i] = t[j] /\ j \in 1 .. Len(t) /\ (j = Len(t) <=> i = Len(r)) /\ i # 1
      BY <1>2, <1>3, <1>4, <2>2
    <3> HIDE DEF j
    <3>2. (t[j] \in Bottoms <=> j = Len(t)) /\ (t[j] \in {"offer", "reopen"} => j = 1)
      BY <1>1, <3>1 DEF StackOK
    <3> QED BY <1>1, <1>2, <3>1, <3>2
  <2> QED BY <2>1, <2>2, <1>3
<1>6. Len(r) >= 1 BY <1>2, <1>3, <1>4
<1>7. StackOK(r) BY <1>4, <1>5, <1>6 DEF StackOK
<1>8. Head(r) = r[1] BY <1>7, StackFacts
<1>9. r[1] = c[1] BY <1>2, <1>3, <1>4
<1> QED BY <1>7, <1>8, <1>9 DEF r, t

LEMMA Replaced ==
  ASSUME NEW s, StackOK(s), Head(s) \in Bottoms, NEW c, StackOK(c)
  PROVE  c \o Tail(s) = c
<1>1. Tail(s) = <<>> BY LastLabel
<1>2. c \in Seq(Labels) BY StackFacts
<1> QED BY <1>1, <1>2, ConcatEmptySeq

-----------------------------------------------------------------------------
\* The same for the goroutine that takes the step; the others stay where they are.
Others(p) == \A q \in Procs \ {p} : pc'[q] = pc[q]
OfferOld == At("msg", "offer")' => At("msg", "offer")

LEMMA ControlStep ==
  ASSUME Control, NEW p \in Procs, NEW s, StackOK(s), pc' = [pc EXCEPT ![p] = s]
  PROVE  Control' /\ pc'[p] = s /\ Others(p) /\ (Head(s) # "offer" => OfferOld)
<1>1. s \in Seq(Labels) BY StackFacts
<1>2. pc'[p] = s /\ Others(p) /\ pc' \in [Procs -> Seq(Labels)] BY <1>1 DEF Control, Others
<1>3. ASSUME NEW q \in Procs PROVE StackOK(pc'[q])
  BY <1>2 DEF Control, Others
<1>4. Head(s) # "offer" => OfferOld
  BY <1>2 DEF OfferOld, At, Others, Procs
<1> QED BY <1>2, <1>3, <1>4 DEF Control

LEMMA ReturnStep ==
  ASSUME Control, NEW p \in Procs, Head(pc[p]) \notin Bottoms, Return(p)
  PROVE  Control' /\ Others(p) /\ OfferOld /\ Head(pc'[p]) \notin {"offer", "reopen"}
         /\ pc'[p] = Tail(pc[p])
<1> DEFINE s == Tail(pc[p])
<1>1. StackOK(s) /\ Head(s) \notin {"offer", "reopen"} BY Popped DEF Control
<1>2. <<>> \o s = s BY <1>1, StackFacts, ConcatEmptySeq
<1>3. pc' = [pc EXCEPT ![p] = s] BY <1>2 DEF Return, Jump
<1> HIDE DEF s
<1>4. Control' /\ pc'[p] = s /\ Others(p) /\ (Head(s) # "offer" => OfferOld)
  BY <1>1, <1>3, ControlStep
<1> QED BY <1>1, <1>4 DEF s

LEMMA CallStep ==
  ASSUME Control, NEW p \in Procs, Head(pc[p]) \notin Bottoms,
         NEW c \in Seq(Calls), Len(c) >= 1, Jump(p, c)
  PROVE  Control' /\ Others(p) /\ OfferOld /\ Head(pc'[p]) = c[1]
         /\ pc'[p] = c \o Tail(pc[p])
<1> DEFINE s == c \o Tail(pc[p])
<1>1. StackOK(s) /\ Head(s) = c[1] BY Pushed DEF Control
<1>2. pc' = [pc EXCEPT ![p] = s] BY DEF Jump
<1>3. c[1] # "offer" BY ElementOfSeq DEF Calls
<1> HIDE DEF s
<1>4. Control' /\ pc'[p] = s /\ Others(p) /\ (Head(s) # "offer" => OfferOld)
  BY <1>1, <1>2, ControlStep
<1> QED BY <1>1, <1>3, <1>4 DEF s

LEMMA ReplaceStep ==
  ASSUME Control, NEW p \in Procs, Head(pc[p]) \in Bottoms, NEW s, StackOK(s), Jump(p, s)
  PROVE  Control' /\ pc'[p] = s /\ Others(p) /\ (Head(s) # "offer" => OfferOld)
<1>1. s \o Tail(pc[p]) = s BY Replaced DEF Control
<1>2. pc' = [pc EXCEPT ![p] = s] BY <1>1 DEF Jump
<1> QED BY <1>2, ControlStep

LEMMA OneLabel ==
  ASSUME NEW b \in Bottoms
  PROVE  StackOK(<<b>>) /\ Head(<<b>>) = b
<1>1. b \in Labels /\ b \notin {"offer", "reopen"} BY DEF Bottoms, Labels
<1>2. <<b>> \in Seq(Labels) /\ Len(<<b>>) = 1 /\ <<b>>[1] = b BY <1>1
<1>3. Head(<<b>>) = b OBVIOUS
<1> QED BY <1>1, <1>2, <1>3 DEF StackOK

LEMMA TwoLabels ==
  ASSUME NEW b \in Bottoms, NEW l \in Labels \ Bottoms
  PROVE  StackOK(<<l, b>>) /\ Head(<<l, b>>) = l
<1>1. b \in Labels /\ b \notin {"offer", "reopen"} BY DEF Bottoms, Labels
<1> DEFINE s == <<l, b>>
<1>2. s \in Seq(Labels) /\ Len(s) = 2 /\ s[1] = l /\ s[2] = b /\ Head(s) = l BY <1>1
<1> HIDE DEF s
<1>3. ASSUME NEW i \in 1 .. Len(s)
      PROVE  (s[i] \in Bottoms <=> i = Len(s)) /\ (s[i] \in {"offer", "reopen"} => i = 1)
  <2>1. i = 1 \/ i = 2 BY <1>2
  <2> QED BY <1>1, <1>2, <2>1
<1>4. StackOK(s) BY <1>2, <1>3 DEF StackOK
<1> QED BY <1>2, <1>4 DEF s

LEMMA ThreeLabels ==
  ASSUME NEW b \in Bottoms, NEW k \in Calls, NEW l \in Calls
  PROVE  StackOK(<<k, l, b>>) /\ Head(<<k, l, b>>) = k
<1>1. b \in Labels /\ b \notin {"offer", "reopen"} BY DEF Bottoms, Labels
<1> DEFINE s == <<k, l, b>>
<1>2. s \in Seq(Labels) /\ Len(s) = 3 /\ s[1] = k /\ s[2] = l /\ s[3] = b /\ Head(s) = k
  BY <1>1 DEF Calls
<1> HIDE DEF s
<1>3. ASSUME NEW i \in 1 .. Len(s)
      PROVE  (s[i] \in Bottoms <=> i = Len(s)) /\ (s[i] \in {"offer", "reopen"} => i = 1)
  <2>1. i = 1 \/ i = 2 \/ i = 3 BY <1>2
  <2> QED BY <1>1, <1>2, <2>1 DEF Calls
<1>4. StackOK(s) BY <1>2, <1>3 DEF StackOK
<1> QED BY <1>2, <1>4 DEF s

Apply == <<"decide", "announce", "capSwap", "complete", "loop">>
LEMMA ApplyOK == StackOK(Apply) /\ Head(Apply) = "decide"
<1>1. /\ Apply \in Seq(Labels) /\ Len(Apply) = 5 /\ Head(Apply) = "decide" /\ Apply[1] = "decide"
      /\ Apply[2] = "announce" /\ Apply[3] = "capSwap" /\ Apply[4] = "complete" /\ Apply[5] = "loop"
  BY DEF Apply, Labels
<1>2. ASSUME NEW i \in 1 .. Len(Apply)
      PROVE  (Apply[i] \in Bottoms <=> i = Len(Apply)) /\ (Apply[i] \in {"offer", "reopen"} => i = 1)
  <2>1. i = 1 \/ i = 2 \/ i = 3 \/ i = 4 \/ i = 5 BY <1>1
  <2> QED BY <1>1, <2>1 DEF Bottoms
<1> QED BY <1>1, <1>2 DEF StackOK

\* Most steps pass no spawn on.
LEMMA OrderKept ==
  ASSUME Order, OfferOld, UNCHANGED <<last, offer, held, cur, handled>>
  PROVE  Order'
BY DEF Order, OfferOld

-----------------------------------------------------------------------------
\* Join.
LEMMA JoinStep == IndInv /\ Join => IndInv'
<1> SUFFICES ASSUME IndInv, Join PROVE IndInv' OBVIOUS
<1> USE DEF IndInv
<1>0. "join" \in Procs BY DEF Procs
<1>a. ASSUME NEW l \in Bottoms, NEW m \in Bottoms, At("join", l), Jump("join", <<m>>)
      PROVE  Control' /\ OfferOld
  <2>1. StackOK(<<m>>) /\ Head(<<m>>) = m BY OneLabel
  <2>2. m # "offer" BY DEF Bottoms
  <2> QED BY <1>0, <1>a, <2>1, <2>2, ReplaceStep DEF At
<1>b. ASSUME UNCHANGED <<wstate, openDone, ctxVars, stopCh, offer, held, last, cycVars, genVars, boundVars>>,
             sock' \in {sock, "open", "closed"}, ackCh' \in {ackCh, FALSE}
      PROVE  Types'
  <2>1. UNCHANGED <<wstate, openDone, cancelFn, taken, ctxDone, stopCh, offer, held, last, cur, capArg,
                    handled, started, spawning, target, users, received, extDone>>
    BY <1>b DEF ctxVars, cycVars, genVars, boundVars
  <2>2. sock' \in {"none", "open", "reopened", "closed"} /\ ackCh' \in BOOLEAN
    BY <1>b DEF Types
  <2> QED BY <2>1, <2>2 DEF Types
<1>c. CloseAndFail => sock' = "closed" /\ Jump("join", <<"failed">>) BY DEF CloseAndFail
<1>1. CASE JoinBegin
  <2>1. Control' /\ OfferOld BY <1>1, <1>a DEF JoinBegin, Bottoms
  <2>2. Types' BY <1>1 DEF JoinBegin, Types, Contexts, netVars, chanVars, cycVars, genVars, boundVars
  <2>3. Order' BY <1>1, <2>1, OrderKept DEF JoinBegin, chanVars, cycVars
  <2> QED BY <2>1, <2>2, <2>3
<1>2. CASE JoinOpen
  <2>1. Control' /\ OfferOld BY <1>2, <1>a DEF JoinOpen, Bottoms
  <2>2. Types' BY <1>2, <1>b DEF JoinOpen, chanVars
  <2>3. Order' BY <1>2, <2>1, OrderKept DEF JoinOpen, chanVars, cycVars
  <2> QED BY <2>1, <2>2, <2>3
<1>3. CASE JoinStore
  <2>1. \A p \in Procs : StackOK(pc'[p]) /\ pc'[p] \in Seq(Labels)
    <3>1. StackOK(<<"connect">>) /\ StackOK(<<"recv">>) BY OneLabel DEF Bottoms
    <3>2. \A p \in Procs : pc'[p] \in {<<"connect">>, <<"recv">>, pc[p]} BY <1>3 DEF JoinStore, Control
    <3> QED BY <3>1, <3>2, StackFacts DEF Control
  <2>2. pc' = [p \in Procs |-> pc'[p]] BY <1>3 DEF JoinStore, Control
  <2>3. Control' BY <2>1, <2>2 DEF Control
  <2>4. OfferOld
    <3>1. pc'["msg"] = <<"recv">> BY <1>3 DEF JoinStore, Control, Procs
    <3> QED BY <3>1 DEF OfferOld, At
  <2>5. Types' BY <1>3 DEF JoinStore, Types, Contexts, netVars, chanVars, cycVars, genVars, boundVars
  <2>6. Order' BY <1>3, <2>4, OrderKept DEF JoinStore, chanVars, cycVars
  <2> QED BY <2>3, <2>5, <2>6
<1>4. CASE JoinConnect
  <2>1. Control' /\ OfferOld BY <1>4, <1>a, <1>c DEF JoinConnect, Bottoms
  <2>2. Types' BY <1>4, <1>b, <1>c DEF JoinConnect
  <2>3. Order' BY <1>4, <2>1, OrderKept DEF JoinConnect, cycVars
  <2> QED BY <2>1, <2>2, <2>3
<1>5. CASE JoinAcked
  <2>1. \A p \in Procs : StackOK(pc'[p]) /\ pc'[p] \in Seq(Labels)
    <3>1. StackOK(<<"procs">>) /\ StackOK(<<"loop">>) BY OneLabel DEF Bottoms
    <3>2. \A p \in Procs : pc'[p] \in {<<"procs">>, <<"loop">>, pc[p]} BY <1>5 DEF JoinAcked
    <3> QED BY <3>1, <3>2, StackFacts DEF Control
  <2>2. pc' = [p \in Procs |-> pc'[p]] BY <1>5 DEF JoinAcked
  <2>3. Control' BY <2>1, <2>2 DEF Control
  <2>4. OfferOld
    <3>1. pc'["msg"] = pc["msg"] BY <1>5 DEF JoinAcked, Procs
    <3> QED BY <3>1 DEF OfferOld, At
  <2>5. Types' BY <1>5, <1>b DEF JoinAcked, netVars
  <2>6. Order' BY <1>5, <2>4, OrderKept DEF JoinAcked, cycVars
  <2> QED BY <2>3, <2>5, <2>6
<1>6. CASE JoinGivesUp
  <2>1. Control' /\ OfferOld BY <1>6, <1>a, <1>c DEF JoinGivesUp, Bottoms
  <2>2. Types' BY <1>6, <1>b, <1>c DEF JoinGivesUp, chanVars
  <2>3. Order' BY <1>6, <2>1, OrderKept DEF JoinGivesUp, chanVars, cycVars
  <2> QED BY <2>1, <2>2, <2>3
<1>7. CASE JoinSendQuit
  <2>1. Control' /\ OfferOld BY <1>7, <1>a, <1>c DEF JoinSendQuit, Bottoms
  <2>2. Types' BY <1>7, <1>b, <1>c DEF JoinSendQuit, chanVars
  <2>3. Order' BY <1>7, <2>1, OrderKept DEF JoinSendQuit, chanVars, cycVars
  <2> QED BY <2>1, <2>2, <2>3
<1>8. CASE JoinClose
  <2>1. Control' /\ OfferOld BY <1>8, <1>a DEF JoinClose, Bottoms
  <2>2. Types' BY <1>8, <1>b DEF JoinClose, chanVars
  <2>3. Order' BY <1>8, <2>1, OrderKept DEF JoinClose, chanVars, cycVars
  <2> QED BY <2>1, <2>2, <2>3
<1>9. CASE JoinDone
  <2>1. Control' /\ OfferOld BY <1>9, <1>a DEF JoinDone, Bottoms
  <2>2. Types' BY <1>9, <1>b DEF JoinDone, chanVars, netVars
  <2>3. Order' BY <1>9, <2>1, OrderKept DEF JoinDone, chanVars, cycVars
  <2> QED BY <2>1, <2>2, <2>3
<1> QED BY <1>1, <1>2, <1>3, <1>4, <1>5, <1>6, <1>7, <1>8, <1>9 DEF Join

-----------------------------------------------------------------------------
\* The message loop.
LEMMA MasterStep == IndInv /\ (Master \/ RecvFails \/ Reopen) => IndInv'
<1> SUFFICES ASSUME IndInv, Master \/ RecvFails \/ Reopen PROVE IndInv' OBVIOUS
<1> USE DEF IndInv
<1>0. "msg" \in Procs /\ "recv" \in Bottoms BY DEF Procs, Bottoms
<1>a. ASSUME NEW s, StackOK(s), Head(s) # "offer", At("msg", "recv"), Jump("msg", s)
      PROVE  Control' /\ OfferOld
  BY <1>0, <1>a, ReplaceStep DEF At
<1>b. pc' = pc => Control' /\ OfferOld BY DEF Control, OfferOld, At
<1>c. ASSUME UNCHANGED <<wstate, openDone, ctxVars, offer, held, last, cycVars, genVars, extDone>>,
             sock' \in {sock, "closed", "reopened"}, ackCh' \in {ackCh, TRUE}, stopCh' \in {stopCh, TRUE},
             received' \in {received, received + 1}, received' <= MaxMsgs
      PROVE  Types'
  <2>1. UNCHANGED <<wstate, openDone, cancelFn, taken, ctxDone, offer, held, last, cur, capArg,
                    handled, started, spawning, target, users, extDone>>
    BY <1>c DEF ctxVars, cycVars, genVars
  <2>2. sock' \in {"none", "open", "reopened", "closed"} /\ ackCh' \in BOOLEAN /\ stopCh' \in BOOLEAN
    BY <1>c DEF Types
  <2>3. received' \in 0 .. MaxMsgs BY <1>c, WorkerAssumption DEF Types
  <2> QED BY <2>1, <2>2, <2>3 DEF Types
<1>d. ASSUME NEW kind, Receive(kind)
      PROVE  /\ At("msg", "recv") /\ received' = received + 1 /\ received' <= MaxMsgs
  BY <1>d, WorkerAssumption DEF Receive, Types
<1>1. CASE RecvAck
  <2>1. Control' /\ OfferOld BY <1>1, <1>b DEF RecvAck
  <2>2. Types' BY <1>1, <1>c, <1>d DEF RecvAck, netVars
  <2>3. Order' BY <1>1, <2>1, OrderKept DEF RecvAck, cycVars
  <2> QED BY <2>1, <2>2, <2>3
<1>2. ASSUME NEW s \in Spawns, RecvSpawn(s) PROVE IndInv'
  <2>1. CASE s.ts > last
    <3>1. StackOK(<<"offer", "recv">>) /\ Head(<<"offer", "recv">>) = "offer"
      BY TwoLabels DEF Bottoms, Labels
    <3>2. Control' /\ pc'["msg"] = <<"offer", "recv">>
      BY <1>0, <1>2, <1>d, <2>1, <3>1, ReplaceStep DEF RecvSpawn, At
    <3>3. s.ts \in 1 .. MaxTime /\ s.n \in 0 .. MaxUsers BY DEF Spawns
    <3>4. last' = s.ts /\ offer' = s BY <1>2, <2>1 DEF RecvSpawn
    <3>5. UNCHANGED <<wstate, sock, openDone, cancelFn, taken, ctxDone, ackCh, stopCh, held, cur, capArg,
                      handled, started, spawning, target, users, extDone>>
      BY <1>2 DEF RecvSpawn, netVars, ctxVars, cycVars, genVars
    <3>6. received' \in 0 .. MaxMsgs BY <1>2, <1>d, WorkerAssumption DEF RecvSpawn, Types
    <3>7. last' \in 0 .. MaxTime /\ offer' \in Spawns \cup {NoSpawn} BY <3>3, <3>4, WorkerAssumption
    <3>8. Types' BY <3>5, <3>6, <3>7 DEF Types
    <3>9. held.ts < s.ts /\ cur.ts < s.ts
      <4>1. held.ts \in Int /\ cur.ts \in Int /\ last \in Int BY DEF Types, Spawns, NoSpawn
      <4> QED BY <2>1, <3>3, <4>1 DEF Order
    <3>10. Order'
      <4>1. held.ts \in Int /\ cur.ts \in Int BY DEF Types, Spawns, NoSpawn
      <4> QED BY <3>3, <3>4, <3>5, <3>9, <4>1 DEF Order
    <3> QED BY <3>2, <3>8, <3>10
  <2>2. CASE ~(s.ts > last)
    <3>1. Control' /\ OfferOld BY <1>2, <1>b, <2>2 DEF RecvSpawn
    <3>2. Types' BY <1>2, <1>c, <1>d, <2>2 DEF RecvSpawn, netVars
    <3>3. Order' BY <1>2, <2>2, <3>1, OrderKept DEF RecvSpawn, cycVars
    <3> QED BY <3>1, <3>2, <3>3
  <2> QED BY <2>1, <2>2
<1>3. CASE RecvStop
  <2>1. Control' /\ OfferOld BY <1>3, <1>b DEF RecvStop
  <2>2. Types' BY <1>3, <1>c, <1>d DEF RecvStop, netVars
  <2>3. Order' BY <1>3, <2>1, OrderKept DEF RecvStop, cycVars
  <2> QED BY <2>1, <2>2, <2>3
<1>4. CASE RecvReconnect
  <2>1. Control' /\ OfferOld
    <3>1. StackOK(<<"reopen", "recv">>) /\ Head(<<"reopen", "recv">>) = "reopen"
      BY TwoLabels DEF Bottoms, Labels
    <3> QED BY <1>4, <1>a, <1>d, <3>1 DEF RecvReconnect
  <2>2. Types' BY <1>4, <1>c, <1>d DEF RecvReconnect, chanVars
  <2>3. Order' BY <1>4, <2>1, OrderKept DEF RecvReconnect, chanVars, cycVars
  <2> QED BY <2>1, <2>2, <2>3
<1>5. CASE RecvQuit
  <2>1. Control' /\ OfferOld
    <3>1. StackOK(<<"stop", "quit", "recv">>) /\ Head(<<"stop", "quit", "recv">>) = "stop"
      BY ThreeLabels DEF Bottoms, Calls, Labels
    <3> QED BY <1>5, <1>a, <1>d, <3>1 DEF RecvQuit
  <2>2. Types' BY <1>5, <1>c, <1>d DEF RecvQuit, chanVars, netVars
  <2>3. Order' BY <1>5, <2>1, OrderKept DEF RecvQuit, chanVars, cycVars
  <2> QED BY <2>1, <2>2, <2>3
<1>e. StackOK(<<"quit", "exited">>) /\ Head(<<"quit", "exited">>) = "quit"
  BY TwoLabels DEF Bottoms, Labels
<1>6. CASE RecvGarbage
  <2>1. Control' /\ OfferOld BY <1>6, <1>a, <1>d, <1>e DEF RecvGarbage
  <2>2. Types' BY <1>6, <1>c, <1>d DEF RecvGarbage, chanVars, netVars
  <2>3. Order' BY <1>6, <2>1, OrderKept DEF RecvGarbage, chanVars, cycVars
  <2> QED BY <2>1, <2>2, <2>3
<1>f. received <= MaxMsgs BY WorkerAssumption DEF Types
<1>7. CASE RecvFails
  <2>1. Control' /\ OfferOld BY <1>7, <1>a, <1>e DEF RecvFails
  <2>2. Types' BY <1>7, <1>c, <1>f DEF RecvFails, chanVars, netVars, boundVars
  <2>3. Order' BY <1>7, <2>1, OrderKept DEF RecvFails, chanVars, cycVars
  <2> QED BY <2>1, <2>2, <2>3
<1>8. CASE Reopen
  <2>1. Control' /\ OfferOld
    <3>1. Head(pc["msg"]) \notin Bottoms BY <1>8 DEF Reopen, At, Bottoms
    <3> QED BY <1>0, <1>8, <3>1, ReturnStep DEF Reopen
  <2>2. Types' BY <1>8, <1>c, <1>f DEF Reopen, chanVars, boundVars
  <2>3. Order' BY <1>8, <2>1, OrderKept DEF Reopen, chanVars, cycVars
  <2> QED BY <2>1, <2>2, <2>3
<1> QED BY <1>1, <1>2, <1>3, <1>4, <1>5, <1>6, <1>7, <1>8 DEF Master

-----------------------------------------------------------------------------
\* The relay.
LEMMA RelayStep == IndInv /\ Relay => IndInv'
<1> SUFFICES ASSUME IndInv, Relay PROVE IndInv' OBVIOUS
<1> USE DEF IndInv
<1>0. "msg" \in Procs /\ "relay" \in Procs /\ "cycle" \in Procs BY DEF Procs
<1>a. /\ held.ts \in Int /\ cur.ts \in Int /\ last \in Int /\ handled \in Int /\ NoSpawn.ts = 0
      /\ offer.ts \in Int
  BY DEF Types, Spawns, NoSpawn
<1>b. Types => held.ts >= 0 BY DEF Types, Spawns, NoSpawn
<1>1. CASE RelayTake
  <2>1. Control' /\ Head(pc'["msg"]) # "offer"
    <3>1. Head(pc["msg"]) \notin Bottoms BY <1>1 DEF RelayTake, At, Bottoms
    <3> QED BY <1>0, <1>1, <3>1, ReturnStep DEF RelayTake
  <2>2. UNCHANGED <<wstate, sock, openDone, cancelFn, taken, ctxDone, ackCh, stopCh, offer, last, cur,
                    capArg, handled, started, spawning, target, users, received, extDone>> /\ held' = offer
    BY <1>1 DEF RelayTake, netVars, ctxVars, cycVars, genVars, boundVars
  <2>3. Types' BY <2>2 DEF Types
  <2>4. offer.ts = last /\ cur.ts < offer.ts BY <1>1 DEF RelayTake, Order
  <2>5. Order' BY <1>a, <2>1, <2>2, <2>4 DEF Order, At
  <2> QED BY <2>1, <2>3, <2>5
<1>2. CASE RelayGive
  <2>1. Control' /\ OfferOld
    <3>1. Jump("cycle", Apply) /\ Head(pc["cycle"]) \in Bottoms
      BY <1>2 DEF RelayGive, Apply, At, Bottoms
    <3> QED BY <1>0, <3>1, ApplyOK, ReplaceStep
  <2>2. UNCHANGED <<wstate, sock, openDone, cancelFn, taken, ctxDone, ackCh, stopCh, offer, last,
                    capArg, handled, started, spawning, target, users, received, extDone>>
        /\ held' = NoSpawn /\ cur' = held /\ held # NoSpawn
    BY <1>2 DEF RelayGive, netVars, ctxVars, genVars, boundVars
  <2>3. Types' BY <2>2 DEF Types
  <2>4. cur.ts < held.ts /\ handled <= cur.ts /\ held.ts <= last BY <2>2 DEF Order
  <2>5. At("msg", "offer")' => offer.ts = last /\ offer \in Spawns /\ held.ts < offer.ts
    BY <2>1 DEF OfferOld, Order
  <2>6. Order'
    <3>1. held.ts >= 0 BY <1>b
    <3> QED BY <1>a, <2>2, <2>4, <2>5, <3>1 DEF Order, At
  <2> QED BY <2>1, <2>3, <2>6
<1> QED BY <1>1, <1>2 DEF Relay

-----------------------------------------------------------------------------
\* The cycle.
LEMMA CycleStep == IndInv /\ Cycle => IndInv'
<1> SUFFICES ASSUME IndInv, Cycle PROVE IndInv' OBVIOUS
<1> USE DEF IndInv
<1>0. "cycle" \in Procs BY DEF Procs
<1>a. ASSUME NEW l \in Labels \ Bottoms, At("cycle", l), Return("cycle") PROVE Control' /\ OfferOld
  BY <1>0, <1>a, ReturnStep DEF At
<1>b. ASSUME NEW l \in Labels \ Bottoms, At("cycle", l), NEW c \in Seq(Calls), Len(c) >= 1,
             Jump("cycle", c)
      PROVE  Control' /\ OfferOld
  BY <1>0, <1>b, CallStep DEF At
<1>c. ASSUME UNCHANGED <<sock, openDone, cancelFn, taken, ctxDone, ackCh, offer, held, last, cur,
                         received, extDone>>,
             wstate' \in {wstate, "Init", "Spawning", "Running", "Cleanup"},
             capArg' \in {capArg, 0, cur.n}, target' \in {target, capArg}, users' \in {users, target},
             started' \in BOOLEAN, spawning' \in BOOLEAN, stopCh' \in BOOLEAN,
             handled' \in {handled, cur.ts}
      PROVE  Types'
  <2>1. cur.n \in 0 .. MaxUsers /\ cur.ts \in 0 .. MaxTime BY WorkerAssumption DEF Types, Spawns, NoSpawn
  <2>2. wstate' \in {"Init", "Spawning", "Running", "Cleanup", "Stopped"} BY <1>c DEF Types
  <2>3. capArg' \in 0 .. MaxUsers /\ target' \in 0 .. MaxUsers /\ users' \in 0 .. MaxUsers
        /\ handled' \in 0 .. MaxTime
    BY <1>c, <2>1, WorkerAssumption DEF Types
  <2>4. /\ cancelFn' \in Contexts /\ taken' \in [Quitters -> Contexts]
        /\ ctxDone' \in BOOLEAN /\ openDone' \in BOOLEAN
        /\ sock' \in {"none", "open", "reopened", "closed"} /\ ackCh' \in BOOLEAN
        /\ last' \in 0 .. MaxTime
        /\ offer' \in Spawns \cup {NoSpawn} /\ held' \in Spawns \cup {NoSpawn}
        /\ cur' \in Spawns \cup {NoSpawn} /\ received' \in 0 .. MaxMsgs /\ extDone' \in 0 .. MaxExt
    BY <1>c DEF Types
  <2> QED BY <1>c, <2>2, <2>3, <2>4 DEF Types
<1>d. ASSUME UNCHANGED <<last, offer, held, cur>>, handled' = cur.ts, OfferOld PROVE Order'
  <2>1. cur.ts \in Int BY DEF Types, Spawns, NoSpawn
  <2> QED BY <1>d, <2>1 DEF Order, OfferOld, At

<1>1. CASE Decide
  <2>1. Control' /\ OfferOld
    <3>1. "decide" \in Labels \ Bottoms BY DEF Labels, Bottoms
    <3>2. <<"start">> \in Seq(Calls) /\ Len(<<"start">>) >= 1 BY DEF Calls, Labels, Bottoms
    <3> QED BY <1>1, <1>a, <1>b, <3>1, <3>2 DEF Decide
  <2>2. Types' BY <1>1, <1>c DEF Decide, Types, netVars, ctxVars, chanVars, cycVars, genVars, boundVars
  <2>3. Order' BY <1>1, <2>1, OrderKept DEF Decide, chanVars, cycVars
  <2> QED BY <2>1, <2>2, <2>3
<1>2. CASE Start
  <2>1. Control' /\ OfferOld
    <3>1. "start" \in Labels \ Bottoms BY DEF Labels, Bottoms
    <3>2. <<"handlers">> \in Seq(Calls) /\ Len(<<"handlers">>) >= 1 BY DEF Calls, Labels, Bottoms
    <3> QED BY <1>2, <1>a, <1>b, <3>1, <3>2 DEF Start
  <2>2. Types' BY <1>2, <1>c DEF Start, Types, netVars, ctxVars, chanVars, cycVars, boundVars
  <2>3. Order' BY <1>2, <2>1, OrderKept DEF Start, chanVars, cycVars
  <2> QED BY <2>1, <2>2, <2>3
<1>3. CASE HandlersSucceed
  <2>1. Control' /\ OfferOld
    <3>1. "handlers" \in Labels \ Bottoms BY DEF Labels, Bottoms
    <3>2. <<"capSwap", "spawnWorker">> \in Seq(Calls) /\ Len(<<"capSwap", "spawnWorker">>) >= 1 BY DEF Calls, Labels, Bottoms
    <3> QED BY <1>3, <1>a, <1>b, <3>1, <3>2 DEF HandlersSucceed
  <2>2. Types' BY <1>3, <1>c DEF HandlersSucceed, Types, netVars, ctxVars, chanVars, genVars, boundVars
  <2>3. Order' BY <1>3, <2>1, OrderKept DEF HandlersSucceed, chanVars, cycVars
  <2> QED BY <2>1, <2>2, <2>3
<1>4. CASE HandlersFail
  <2>1. Control' /\ OfferOld
    <3>1. StackOK(<<"loop">>) /\ Head(<<"loop">>) = "loop" BY OneLabel DEF Bottoms
    <3> QED BY <1>4, <1>0, <3>1, ControlStep DEF HandlersFail
  <2>2. Types' BY <1>4, <1>c DEF HandlersFail, Types, netVars, ctxVars, chanVars, boundVars
  <2>3. Order' BY <1>4, <2>1, <1>d DEF HandlersFail, chanVars
  <2> QED BY <2>1, <2>2, <2>3
<1>5. CASE Announce
  <2>1. Control' /\ OfferOld
    <3>1. "announce" \in Labels \ Bottoms BY DEF Labels, Bottoms
    <3> QED BY <1>5, <1>a, <3>1 DEF Announce
  <2>2. Types' BY <1>5, <1>c DEF Announce, Types, netVars, ctxVars, chanVars, genVars, boundVars
  <2>3. Order' BY <1>5, <2>1, OrderKept DEF Announce, chanVars, cycVars
  <2> QED BY <2>1, <2>2, <2>3
<1>6. CASE CapSwap
  <2>1. Control' /\ OfferOld
    <3>1. "capSwap" \in Labels \ Bottoms BY DEF Labels, Bottoms
    <3>2. <<"capCheck">> \in Seq(Calls) /\ Len(<<"capCheck">>) >= 1 BY DEF Calls, Labels, Bottoms
    <3> QED BY <1>6, <1>a, <1>b, <3>1, <3>2 DEF CapSwap
  <2>2. Types' BY <1>6, <1>c DEF CapSwap, Types, netVars, ctxVars, chanVars, cycVars, boundVars
  <2>3. Order' BY <1>6, <2>1, OrderKept DEF CapSwap, chanVars, cycVars
  <2> QED BY <2>1, <2>2, <2>3
<1>7. CASE CapCheck
  <2>1. Control' /\ OfferOld
    <3>1. "capCheck" \in Labels \ Bottoms BY DEF Labels, Bottoms
    <3>2. <<"spawnWorker">> \in Seq(Calls) /\ Len(<<"spawnWorker">>) >= 1 BY DEF Calls, Labels, Bottoms
    <3>3. <<"capList">> \in Seq(Calls) /\ Len(<<"capList">>) >= 1 BY DEF Calls, Labels, Bottoms
    <3> QED BY <1>7, <1>b, <3>1, <3>2, <3>3 DEF CapCheck
  <2>2. Types' BY <1>7, <1>c DEF CapCheck, Types, netVars, ctxVars, chanVars, cycVars, genVars, boundVars
  <2>3. Order' BY <1>7, <2>1, OrderKept DEF CapCheck, chanVars, cycVars
  <2> QED BY <2>1, <2>2, <2>3
<1>8. CASE SpawnWorker
  <2>1. Control' /\ OfferOld
    <3>1. "spawnWorker" \in Labels \ Bottoms BY DEF Labels, Bottoms
    <3> QED BY <1>8, <1>a, <3>1 DEF SpawnWorker
  <2>2. Types' BY <1>8, <1>c DEF SpawnWorker, Types, netVars, ctxVars, chanVars, cycVars, boundVars
  <2>3. Order' BY <1>8, <2>1, OrderKept DEF SpawnWorker, chanVars, cycVars
  <2> QED BY <2>1, <2>2, <2>3
<1>9. CASE CapList
  <2>1. Control' /\ OfferOld
    <3>1. "capList" \in Labels \ Bottoms BY DEF Labels, Bottoms
    <3> QED BY <1>9, <1>a, <3>1 DEF CapList
  <2>2. Types' BY <1>9, <1>c DEF CapList, Types, netVars, ctxVars, chanVars, cycVars, boundVars
  <2>3. Order' BY <1>9, <2>1, OrderKept DEF CapList, chanVars, cycVars
  <2> QED BY <2>1, <2>2, <2>3
<1>10. CASE Complete
  <2>1. Control' /\ OfferOld
    <3>1. "complete" \in Labels \ Bottoms BY DEF Labels, Bottoms
    <3> QED BY <1>10, <1>a, <3>1 DEF Complete
  <2>2. Types' BY <1>10, <1>c DEF Complete, Types, netVars, ctxVars, chanVars, genVars, boundVars
  <2>3. Order' BY <1>10, <2>1, <1>d DEF Complete, chanVars
  <2> QED BY <2>1, <2>2, <2>3
<1>11. CASE TakeStop
  <2>1. Control' /\ OfferOld
    <3>1. "loop" \in Bottoms BY DEF Bottoms
    <3>2. TakeStop => Jump("cycle", <<"genStop", "ready", "loop">>) /\ Head(pc["cycle"]) = "loop"
      BY DEF TakeStop, At
    <3>3. StackOK(<<"genStop", "ready", "loop">>) /\ Head(<<"genStop", "ready", "loop">>) = "genStop"
      BY ThreeLabels DEF Bottoms, Calls, Labels
    <3> QED BY <1>11, <1>0, <3>1, <3>2, <3>3, ReplaceStep
  <2>2. Types' BY <1>11, <1>c DEF TakeStop, Types, netVars, ctxVars, cycVars, genVars, boundVars
  <2>3. Order' BY <1>11, <2>1, OrderKept DEF TakeStop, chanVars, cycVars
  <2> QED BY <2>1, <2>2, <2>3
<1>12. CASE Ready
  <2>1. Control' /\ OfferOld
    <3>1. "ready" \in Labels \ Bottoms BY DEF Labels, Bottoms
    <3> QED BY <1>12, <1>a, <3>1 DEF Ready
  <2>2. Types' BY <1>12, <1>c DEF Ready, Types, netVars, ctxVars, chanVars, cycVars, genVars, boundVars
  <2>3. Order' BY <1>12, <2>1, OrderKept DEF Ready, chanVars, cycVars
  <2> QED BY <2>1, <2>2, <2>3
<1> QED BY <1>1, <1>2, <1>3, <1>4, <1>5, <1>6, <1>7, <1>8, <1>9, <1>10, <1>11, <1>12 DEF Cycle

-----------------------------------------------------------------------------
\* Stop of the load generator, by any goroutine.
LEMMA StopCallStep ==
  ASSUME NEW p \in Stoppers, IndInv, StopCall(p)
  PROVE  IndInv'
<1> USE DEF IndInv
<1>0. p \in Procs BY DEF Procs, Stoppers, Quitters
<1>a. ASSUME NEW l \in Labels \ Bottoms, At(p, l), Return(p) PROVE Control' /\ OfferOld
  BY <1>0, <1>a, ReturnStep DEF At
<1>b. ASSUME NEW l \in Labels \ Bottoms, At(p, l), NEW c \in Seq(Calls), Len(c) >= 1, Jump(p, c)
      PROVE  Control' /\ OfferOld
  BY <1>0, <1>b, CallStep DEF At
<1>c. ASSUME UNCHANGED <<wstate, netVars, ctxVars, chanVars, cycVars, target, boundVars>>,
             users' \in {users, 0}, started' \in BOOLEAN, spawning' \in BOOLEAN, OfferOld
      PROVE  Types' /\ Order'
  <2>1. UNCHANGED <<wstate, sock, openDone, cancelFn, taken, ctxDone, ackCh, stopCh, offer, held, last,
                    cur, capArg, handled, target, received, extDone>>
    BY <1>c DEF netVars, ctxVars, chanVars, cycVars, boundVars
  <2>2. users' \in 0 .. MaxUsers BY <1>c, WorkerAssumption DEF Types
  <2>3. Types' BY <1>c, <2>1, <2>2 DEF Types
  <2>4. Order' BY <1>c, <2>1, OrderKept
  <2> QED BY <2>3, <2>4
<1>1. CASE GenStop(p)
  <2>1. "genStop" \in Labels \ Bottoms BY DEF Labels, Bottoms
  <2>2. <<"managerStop", "stopUsers">> \in Seq(Calls) /\ Len(<<"managerStop", "stopUsers">>) >= 1
    BY DEF Calls, Labels, Bottoms
  <2>3. Control' /\ OfferOld BY <1>1, <1>a, <1>b, <2>1, <2>2 DEF GenStop, Return
  <2>4. Types' /\ Order' BY <1>1, <1>c, <2>3 DEF GenStop, Types
  <2> QED BY <2>3, <2>4
<1>2. CASE ManagerStop(p)
  <2>1. "managerStop" \in Labels \ Bottoms BY DEF Labels, Bottoms
  <2>2. Control' /\ OfferOld BY <1>2, <1>a, <2>1 DEF ManagerStop
  <2>3. Types' /\ Order' BY <1>2, <1>c, <2>2 DEF ManagerStop, Types
  <2> QED BY <2>2, <2>3
<1>3. CASE StopUsers(p)
  <2>1. "stopUsers" \in Labels \ Bottoms BY DEF Labels, Bottoms
  <2>2. Control' /\ OfferOld BY <1>3, <1>a, <2>1 DEF StopUsers
  <2>3. Types' /\ Order' BY <1>3, <1>c, <2>2 DEF StopUsers, Types
  <2> QED BY <2>2, <2>3
<1> QED BY <1>1, <1>2, <1>3 DEF StopCall

-----------------------------------------------------------------------------
\* Stop and Quit of the worker.
LEMMA QuitCallStep ==
  ASSUME NEW p \in Quitters, IndInv, QuitCall(p)
  PROVE  IndInv'
<1> USE DEF IndInv
<1>0. p \in Procs BY DEF Procs, Quitters
<1>a. ASSUME NEW l \in Labels \ Bottoms, At(p, l), Return(p) PROVE Control' /\ OfferOld
  BY <1>0, <1>a, ReturnStep DEF At
<1>b. ASSUME NEW l \in Labels \ Bottoms, At(p, l), NEW c \in Seq(Calls), Len(c) >= 1, Jump(p, c)
      PROVE  Control' /\ OfferOld
  BY <1>0, <1>b, CallStep DEF At
<1>c. ASSUME UNCHANGED <<sock, chanVars, cycVars, genVars, boundVars>>,
             wstate' \in {wstate, "Cleanup", "Stopped"}, cancelFn' \in {cancelFn, "nil"},
             taken' \in [Quitters -> Contexts], ctxDone' \in BOOLEAN, openDone' \in BOOLEAN, OfferOld
      PROVE  Types' /\ Order'
  <2>1. UNCHANGED <<sock, ackCh, stopCh, offer, held, last, cur, capArg, handled, started, spawning,
                    target, users, received, extDone>>
    BY <1>c DEF chanVars, cycVars, genVars, boundVars
  <2>2. wstate' \in {"Init", "Spawning", "Running", "Cleanup", "Stopped"} /\ cancelFn' \in Contexts
    BY <1>c DEF Types, Contexts
  <2>3. Types' BY <1>c, <2>1, <2>2 DEF Types
  <2>4. Order' BY <1>c, <2>1, OrderKept
  <2> QED BY <2>3, <2>4
<1>1. CASE Quit(p)
  <2>1. "quit" \in Labels \ Bottoms BY DEF Labels, Bottoms
  <2>2. <<"stop", "cancel">> \in Seq(Calls) /\ Len(<<"stop", "cancel">>) >= 1
    BY DEF Calls, Labels, Bottoms
  <2>3. Control' /\ OfferOld BY <1>1, <1>a, <1>b, <2>1, <2>2 DEF Quit, Return
  <2>4. taken' \in [Quitters -> Contexts] BY <1>1 DEF Quit, Types
  <2>5. Types' /\ Order' BY <1>1, <1>c, <2>3, <2>4 DEF Quit, Types, netVars
  <2> QED BY <2>3, <2>5
<1>2. CASE Cancel(p)
  <2>1. "cancel" \in Labels \ Bottoms BY DEF Labels, Bottoms
  <2>2. Control' /\ OfferOld BY <1>2, <1>a, <2>1 DEF Cancel
  <2>3. taken' \in [Quitters -> Contexts] BY <1>2 DEF Cancel, Types, Contexts
  <2>4. ctxDone' \in BOOLEAN /\ openDone' \in BOOLEAN BY <1>2 DEF Cancel, Types
  <2>5. Types' /\ Order' BY <1>2, <1>c, <2>2, <2>3, <2>4 DEF Cancel
  <2> QED BY <2>2, <2>5
<1>3. CASE Stop(p)
  <2>1. "stop" \in Labels \ Bottoms BY DEF Labels, Bottoms
  <2>2. <<"cleanup", "genStop", "stopped">> \in Seq(Calls)
        /\ Len(<<"cleanup", "genStop", "stopped">>) >= 1
    BY DEF Calls, Labels, Bottoms
  <2>3. Control' /\ OfferOld BY <1>3, <1>a, <1>b, <2>1, <2>2 DEF Stop
  <2>4. Types' /\ Order' BY <1>3, <1>c, <2>3 DEF Stop, Types, netVars, ctxVars
  <2> QED BY <2>3, <2>4
<1>4. ASSUME NEW l \in {"cleanup", "stopped"}, NEW value \in {"Cleanup", "Stopped"}, SetState(p, l, value)
      PROVE  IndInv'
  <2>1. l \in Labels \ Bottoms BY DEF Labels, Bottoms
  <2>2. Control' /\ OfferOld BY <1>4, <1>a, <2>1 DEF SetState
  <2>3. Types' /\ Order' BY <1>4, <1>c, <2>2 DEF SetState, Types, netVars, ctxVars
  <2> QED BY <2>2, <2>3
<1> QED BY <1>1, <1>2, <1>3, <1>4 DEF QuitCall

-----------------------------------------------------------------------------
\* The goroutines begin a Quit or a Stop, end, and users end.
LEMMA OtherStep ==
  ASSUME IndInv, \/ UserEnds \/ HeartbeatExpires \/ \E p \in {"relay", "cycle", "hb"} : Exit(p)
                 \/ \E call \in ExtCalls : ExtCall(call)
  PROVE  IndInv'
<1> USE DEF IndInv
<1>a. ASSUME UNCHANGED <<wstate, netVars, ctxVars, chanVars, cycVars, genVars, received>>,
             extDone' \in 0 .. MaxExt, OfferOld
      PROVE  Types' /\ Order'
  <2>1. UNCHANGED <<wstate, sock, openDone, cancelFn, taken, ctxDone, ackCh, stopCh, offer, held, last,
                    cur, capArg, handled, started, spawning, target, users, received>>
    BY <1>a DEF netVars, ctxVars, chanVars, cycVars, genVars
  <2>2. Types' BY <1>a, <2>1 DEF Types
  <2>3. Order' BY <1>a, <2>1, OrderKept
  <2> QED BY <2>2, <2>3
<1>1. CASE UserEnds
  <2>1. UNCHANGED <<pc, wstate, sock, openDone, cancelFn, taken, ctxDone, ackCh, stopCh, offer, held,
                    last, cur, capArg, handled, started, spawning, target, received, extDone>>
        /\ users > 0 /\ users' = users - 1
    BY <1>1 DEF UserEnds, netVars, ctxVars, chanVars, cycVars, boundVars
  <2>2. users' \in 0 .. MaxUsers BY <2>1, WorkerAssumption DEF Types
  <2>3. Control' BY <2>1 DEF Control
  <2>4. Types' BY <2>1, <2>2 DEF Types
  <2>5. OfferOld BY <2>1 DEF OfferOld, At
  <2>6. Order' BY <2>1, <2>5, OrderKept
  <2> QED BY <2>3, <2>4, <2>6
<1>2. CASE HeartbeatExpires
  <2>1. StackOK(<<"quit", "exited">>) /\ Head(<<"quit", "exited">>) = "quit"
    BY TwoLabels DEF Bottoms, Labels
  <2>2. "hb" \in Procs /\ "loop" \in Bottoms BY DEF Procs, Bottoms
  <2>3. Control' /\ OfferOld BY <1>2, <2>1, <2>2, ReplaceStep DEF HeartbeatExpires, At
  <2>4. Types' /\ Order' BY <1>2, <1>a, <2>3 DEF HeartbeatExpires, boundVars, Types
  <2> QED BY <2>3, <2>4
<1>3. ASSUME NEW p \in {"relay", "cycle", "hb"}, Exit(p) PROVE IndInv'
  <2>1. StackOK(<<"exited">>) /\ Head(<<"exited">>) = "exited" BY OneLabel DEF Bottoms
  <2>2. p \in Procs /\ "loop" \in Bottoms BY DEF Procs, Bottoms
  <2>3. Control' /\ OfferOld BY <1>3, <2>1, <2>2, ReplaceStep DEF Exit, At
  <2>4. Types' /\ Order' BY <1>3, <1>a, <2>3 DEF Exit, boundVars, Types
  <2> QED BY <2>3, <2>4
<1>4. ASSUME NEW call \in ExtCalls, ExtCall(call) PROVE IndInv'
  <2>1. call \in Labels \ Bottoms /\ call # "offer" BY WorkerAssumption DEF Labels, Bottoms
  <2>2. StackOK(<<call, "idle">>) /\ Head(<<call, "idle">>) = call BY <2>1, TwoLabels DEF Bottoms
  <2>3. "ext" \in Procs /\ "idle" \in Bottoms BY DEF Procs, Bottoms
  <2>4. Control' /\ OfferOld BY <1>4, <2>1, <2>2, <2>3, ReplaceStep DEF ExtCall, At
  <2>5. extDone' \in 0 .. MaxExt BY <1>4, WorkerAssumption DEF ExtCall, Types
  <2>6. Types' /\ Order' BY <1>4, <1>a, <2>4, <2>5 DEF ExtCall
  <2> QED BY <2>4, <2>6
<1> QED BY <1>1, <1>2, <1>3, <1>4

-----------------------------------------------------------------------------
LEMMA InitInv == Init => IndInv
<1> SUFFICES ASSUME Init PROVE IndInv OBVIOUS
<1>1. Control
  <2>1. StackOK(<<"begin">>) /\ StackOK(<<"idle">>) /\ StackOK(<<"none">>) BY OneLabel DEF Bottoms
  <2>2. \A p \in Procs : pc[p] \in {<<"begin">>, <<"idle">>, <<"none">>} BY DEF Init
  <2>3. \A p \in Procs : StackOK(pc[p]) /\ pc[p] \in Seq(Labels) BY <2>1, <2>2, StackFacts
  <2>4. pc = [p \in Procs |-> pc[p]] BY DEF Init
  <2>5. \A p \in Procs : pc[p] \in Seq(Labels) BY <2>3
  <2>6. pc \in [Procs -> Seq(Labels)] BY <2>4, <2>5, Zenon
  <2> QED BY <2>3, <2>6 DEF Control
<1>2. Types
  <2>1. /\ wstate = "Init" /\ cancelFn = "nil" /\ ctxDone = FALSE /\ openDone = FALSE
        /\ sock = "none" /\ ackCh = FALSE /\ stopCh = FALSE /\ last = 0 /\ handled = 0
        /\ offer = NoSpawn /\ held = NoSpawn /\ cur = NoSpawn /\ capArg = 0
        /\ started = FALSE /\ spawning = FALSE /\ target = 0 /\ users = 0
        /\ received = 0 /\ extDone = 0
    BY DEF Init
  <2>2. taken \in [Quitters -> Contexts] BY DEF Init, Contexts
  <2>3. 0 \in 0 .. MaxTime /\ 0 \in 0 .. MaxUsers /\ 0 \in 0 .. MaxMsgs /\ 0 \in 0 .. MaxExt
    BY WorkerAssumption
  <2>4. NoSpawn \in Spawns \cup {NoSpawn} OBVIOUS
  <2> QED BY <2>1, <2>2, <2>3, <2>4 DEF Types, Contexts
<1>3. Order
  <2>1. pc["msg"] = <<"none">> BY DEF Init, Procs
  <2>2. ~At("msg", "offer") BY <2>1 DEF At
  <2> QED BY <2>2 DEF Init, Order, NoSpawn
<1> QED BY <1>1, <1>2, <1>3 DEF IndInv

LEMMA Invariance == IndInv /\ [Next]_vars => IndInv'
<1> SUFFICES ASSUME IndInv, [Next]_vars PROVE IndInv' OBVIOUS
<1>1. CASE Next
  BY <1>1, JoinStep, MasterStep, RelayStep, CycleStep, StopCallStep, QuitCallStep, OtherStep DEF Next
<1>2. CASE UNCHANGED vars
  <2>1. Control' BY <1>2 DEF vars, IndInv, Control
  <2>2. Types'
    BY <1>2 DEF vars, netVars, ctxVars, chanVars, cycVars, genVars, boundVars, IndInv, Types
  <2>3. OfferOld BY <1>2 DEF vars, OfferOld, At
  <2>4. Order' BY <1>2, <2>3, OrderKept DEF vars, chanVars, cycVars, IndInv
  <2> QED BY <2>1, <2>2, <2>4 DEF IndInv
<1> QED BY <1>1, <1>2

(***************************************************************************)
(* The shape of the stacks, the types and the order of the spawns hold in  *)
(* every reachable state, whatever the master, the program, the users and  *)
(* the other goroutines do in between.                                     *)
(***************************************************************************)
THEOREM Safety == Spec => []IndInv
BY InitInv, Invariance, PTL DEF Spec

(***************************************************************************)
(* Every variable has its type: above all no goroutine returns from its    *)
(* last label, so each is always somewhere, and no count of users, from a  *)
(* message or of a spawner, leaves 0 .. MaxUsers.                          *)
(***************************************************************************)
THEOREM TypeCorrect == Spec => []TypeOK
<1>1. IndInv => TypeOK
  <2> SUFFICES ASSUME IndInv PROVE TypeOK OBVIOUS
  <2>1. \A p \in Procs : pc[p] \in Seq(Labels) \ {<<>>} BY StackFacts DEF IndInv, Control
  <2>2. pc \in [Procs -> Seq(Labels) \ {<<>>}] BY <2>1 DEF IndInv, Control
  <2> QED BY <2>2 DEF IndInv, Types, TypeOK
<1> QED BY <1>1, Safety, PTL

(***************************************************************************)
(* Spawns take effect in the order of their timestamps (worker.go:471-480, *)
(* 545-558), whatever the number of messages and however they overtake     *)
(* one another on the way to the cycle.                                    *)
(***************************************************************************)
THEOREM InOrder == Spec => []SpawnsInOrder
<1>1. IndInv => SpawnsInOrder BY DEF IndInv, Order, SpawnsInOrder
<1> QED BY <1>1, Safety, PTL

-----------------------------------------------------------------------------
(***************************************************************************)
(* The state of the worker tells the truth.  The invariant follows the     *)
(* cycle from step to step; it is claimed while no other goroutine stops   *)
(* or quits, so most of the work is to show that this, once over, never    *)
(* comes back.                                                             *)
(***************************************************************************)
Early  == Head(pc["join"]) \in {"begin", "open", "store"}
Before == Head(pc["join"]) \in {"begin", "open", "store", "connect", "ack"}

\* The goroutines that Join has not started yet.
Phases == /\ Early => pc["msg"] = <<"none">>
          /\ Before => pc["cycle"] = <<"none">> /\ pc["hb"] = <<"none">>

\* The call above the last label of a stack.
Below(s) == s[Len(s) - 1]

\* A quit has taken the cancel function, and Join puts no other there.
Dead == cancelFn = "nil" /\ ~Early

\* The message loop and the heartbeat check call nothing but Quit (and Stop before it), so
\* that they are done with their calls only when a Quit has taken the cancel function.
Quitting ==
  /\ Len(pc["msg"]) >= 2 => /\ Below(pc["msg"]) \in {"offer", "reopen", "quit", "cancel"}
                            /\ Below(pc["msg"]) = "cancel" => Dead
  /\ Len(pc["hb"]) >= 2 => \/ Below(pc["hb"]) = "quit" /\ Len(pc["hb"]) = 2
                           \/ Below(pc["hb"]) = "cancel" /\ Dead
  /\ extDone = 0 => pc["ext"] = <<"idle">>

\* Nobody but the cycle has begun to stop anything.
Calm == /\ extDone = 0 /\ (cancelFn = "join" \/ Early)
        /\ Head(pc["msg"]) \in {"none", "recv", "offer", "reopen"}

-----------------------------------------------------------------------------
\* The stacks of the cycle while it applies a spawn or a stop.
Apply4 == <<"announce", "capSwap", "complete", "loop">>
Apply3 == <<"capSwap", "complete", "loop">>
Apply2 == <<"complete", "loop">>
StopAll == <<"genStop", "ready", "loop">>
Ready2  == <<"ready", "loop">>

\* Those on which it has pushed a call, named for it and for their length.
Start5 == <<"start">> \o Apply4
Hand5  == <<"handlers">> \o Apply4
Work5  == <<"spawnWorker">> \o Apply4
Swap6  == <<"capSwap", "spawnWorker">> \o Apply4
Check6 == <<"capCheck">> \o Work5
List6  == <<"capList">> \o Work5
Work6  == <<"spawnWorker">> \o Work5
Check3 == <<"capCheck">> \o Apply2
Work3  == <<"spawnWorker">> \o Apply2
Mgr4   == <<"managerStop", "stopUsers">> \o Ready2
Users3 == <<"stopUsers">> \o Ready2

Fresh   == ~started /\ ~spawning /\ users = 0
LoadOn  == started /\ spawning
Settled == (wstate = "Init" /\ Fresh) \/ (wstate = "Running" /\ LoadOn)

\* What is true of the generator at each step of the cycle.
Resting  == /\ pc["cycle"] \in {<<"none">>, <<"loop">>} /\ Settled
            /\ wstate = "Running" => target = cur.n
Starting ==
  \/ pc["cycle"] = Apply /\ Settled
  \/ pc["cycle"] = Start5 /\ wstate = "Init" /\ Fresh
  \/ pc["cycle"] = Hand5 /\ wstate = "Init" /\ started /\ ~spawning /\ users = 0
  \/ pc["cycle"] \in {Swap6, Check6, List6, Work6, Work5} /\ started
Spawning ==
  \/ pc["cycle"] = Apply4 /\ LoadOn
  \/ pc["cycle"] = Apply3 /\ LoadOn /\ capArg = cur.n
  \/ pc["cycle"] \in {Check3, Work3, Apply2} /\ LoadOn /\ target = cur.n
Stopping ==
  \/ pc["cycle"] = StopAll /\ (started \/ Fresh)
  \/ pc["cycle"] = Mgr4 /\ ~started
  \/ pc["cycle"] = Users3 /\ ~started /\ ~spawning
  \/ pc["cycle"] = Ready2 /\ Fresh

CycleTruth == Resting \/ Starting \/ Spawning \/ Stopping \/ pc["cycle"] = <<"exited">>

TruthInv == Phases /\ Quitting /\ (Calm => CycleTruth)

-----------------------------------------------------------------------------
\* What returning and calling do to the call above the last label.
LEMMA PopBelow ==
  ASSUME NEW s, StackOK(s), Head(s) \notin Bottoms
  PROVE  /\ Len(s) \in Nat /\ Len(s) >= 2 /\ Len(Tail(s)) = Len(s) - 1
         /\ Len(s) = 2 => Below(s) = Head(s)
         /\ Len(s) >= 3 => Below(Tail(s)) = Below(s) /\ Head(Tail(s)) \notin Bottoms
         /\ Head(Tail(s)) \notin {"offer", "reopen"}
<1>1. /\ StackOK(Tail(s)) /\ Len(Tail(s)) = Len(s) - 1
      /\ \A i \in 1 .. Len(s) - 1 : Tail(s)[i] = s[i + 1]
      /\ Head(Tail(s)) = s[2] /\ Head(Tail(s)) \notin {"offer", "reopen"}
  BY Popped
<1>2. Len(s) \in Nat \ {0} /\ Head(s) = s[1] BY StackFacts
<1>3. Len(Tail(s)) >= 1 BY <1>1 DEF StackOK
<1>4. Len(s) >= 2 BY <1>1, <1>2, <1>3
<1>5. Len(s) = 2 => Below(s) = Head(s) BY <1>2 DEF Below
<1>6. ASSUME Len(s) >= 3
      PROVE  Below(Tail(s)) = Below(s) /\ Head(Tail(s)) \notin Bottoms
  <2>1. Len(s) - 2 \in 1 .. Len(s) - 1 BY <1>2, <1>6
  <2>2. Tail(s)[Len(s) - 2] = s[Len(s) - 1]
    <3>1. Tail(s)[Len(s) - 2] = s[(Len(s) - 2) + 1] BY <1>1, <2>1
    <3>2. (Len(s) - 2) + 1 = Len(s) - 1 BY <1>2
    <3> QED BY <3>1, <3>2
  <2>3. Below(Tail(s)) = Tail(s)[Len(s) - 2]
    <3>1. Len(Tail(s)) - 1 = Len(s) - 2 BY <1>1, <1>2
    <3> QED BY <3>1 DEF Below
  <2>4. 2 \in 1 .. Len(s) /\ 2 # Len(s)
    <3> DEFINE n == Len(s)
    <3>1. n \in Nat /\ n >= 3 BY <1>2, <1>6
    <3> HIDE DEF n
    <3>2. 2 \in 1 .. n /\ 2 # n BY <3>1
    <3> QED BY <3>2 DEF n
  <2>5. s[2] \notin Bottoms BY <2>4 DEF StackOK
  <2> QED BY <1>1, <2>2, <2>3, <2>5 DEF Below
<1> QED BY <1>1, <1>2, <1>4, <1>5, <1>6

LEMMA PushBelow ==
  ASSUME NEW s, StackOK(s), Head(s) \notin Bottoms, NEW c \in Seq(Calls), Len(c) >= 1
  PROVE  LET r == c \o Tail(s)
         IN  /\ Len(r) = Len(c) + Len(s) - 1 /\ Len(c) \in Nat
             /\ Len(s) = 2 => Below(r) = c[Len(c)]
             /\ Len(s) >= 3 => Below(r) = Below(s)
<1> DEFINE t == Tail(s)
           r == c \o t
<1>1. /\ Len(s) \in Nat /\ Len(s) >= 2 /\ Len(t) = Len(s) - 1
      /\ Len(s) >= 3 => Below(t) = Below(s)
  BY PopBelow
<1>2. t \in Seq(Labels) BY StackFacts
<1>3. c \in Seq(Labels) /\ Len(c) \in Nat \ {0}
  <2>1. Calls \subseteq Labels BY DEF Calls
  <2> QED BY <2>1, SeqMonotonic
<1> HIDE DEF t
<1>4. r \in Seq(Labels) /\ Len(r) = Len(c) + Len(t)
      /\ \A i \in 1 .. Len(c) + Len(t) : r[i] = IF i <= Len(c) THEN c[i] ELSE t[i - Len(c)]
  BY <1>2, <1>3, ConcatProperties
<1> HIDE DEF r
<1>5. Len(r) = Len(c) + Len(s) - 1 BY <1>1, <1>3, <1>4
<1>6. ASSUME Len(s) = 2 PROVE Below(r) = c[Len(c)]
  <2>1. Len(r) - 1 = Len(c) BY <1>1, <1>3, <1>5, <1>6
  <2>2. Len(c) \in 1 .. Len(c) + Len(t) BY <1>1, <1>3
  <2>3. r[Len(c)] = c[Len(c)] BY <1>3, <1>4, <2>2
  <2> QED BY <2>1, <2>3 DEF Below
<1>7. ASSUME Len(s) >= 3 PROVE Below(r) = Below(s)
  <2>1. Len(r) - 1 \in 1 .. Len(c) + Len(t) /\ ~(Len(r) - 1 <= Len(c)) BY <1>1, <1>3, <1>4, <1>7
  <2>2. r[Len(r) - 1] = t[(Len(r) - 1) - Len(c)] BY <1>4, <2>1
  <2>3. (Len(r) - 1) - Len(c) = Len(t) - 1 BY <1>1, <1>3, <1>4
  <2>4. Below(r) = Below(t) BY <2>2, <2>3 DEF Below
  <2> QED BY <1>1, <1>7, <2>4
<1> QED BY <1>3, <1>5, <1>6, <1>7 DEF r, t

\* The head and the tail of a stack that has been written down.
LEMMA PushedOne ==
  ASSUME NEW l \in Labels, NEW t \in Seq(Labels)
  PROVE  Head(<<l>> \o t) = l /\ Tail(<<l>> \o t) = t /\ <<l>> \o t \in Seq(Labels)
<1> DEFINE c == <<l>>
           r == c \o t
<1>1. c \in Seq(Labels) /\ Len(c) = 1 /\ c[1] = l OBVIOUS
<1> HIDE DEF c
<1>2. Len(t) \in Nat OBVIOUS
<1>3. /\ r \in Seq(Labels) /\ Len(r) = Len(c) + Len(t)
      /\ \A i \in 1 .. Len(c) + Len(t) : r[i] = IF i <= Len(c) THEN c[i] ELSE t[i - Len(c)]
  BY <1>1, ConcatProperties
<1> HIDE DEF r
<1>4. r # <<>> /\ 1 \in 1 .. Len(c) + Len(t) BY <1>1, <1>2, <1>3
<1>5. Head(r) = l
  <2>1. r[1] = c[1] BY <1>1, <1>3, <1>4
  <2> QED BY <1>1, <1>3, <1>4, <2>1
<1>6. /\ Tail(r) \in Seq(Labels) /\ Len(Tail(r)) = Len(r) - 1
      /\ \A i \in 1 .. Len(Tail(r)) : Tail(r)[i] = r[i + 1]
  BY <1>3, <1>4, HeadTailProperties
<1>7. ASSUME NEW i \in 1 .. Len(t) PROVE Tail(r)[i] = t[i]
  <2>1. i \in 1 .. Len(Tail(r)) /\ i + 1 \in 1 .. Len(c) + Len(t) /\ ~(i + 1 <= Len(c))
        /\ (i + 1) - Len(c) = i
    BY <1>1, <1>2, <1>3, <1>6
  <2>2. Tail(r)[i] = r[i + 1] BY <1>6, <2>1
  <2>3. r[i + 1] = t[(i + 1) - Len(c)] BY <1>3, <2>1
  <2> QED BY <2>1, <2>2, <2>3
<1>8. Len(Tail(r)) = Len(t) BY <1>1, <1>2, <1>3, <1>6
<1>9. Tail(r) = t BY <1>6, <1>7, <1>8, SeqEqual
<1> QED BY <1>3, <1>5, <1>9 DEF r, c

LEMMA PushedTwo ==
  ASSUME NEW k \in Labels, NEW l \in Labels, NEW t \in Seq(Labels)
  PROVE  /\ Head(<<k, l>> \o t) = k /\ Tail(<<k, l>> \o t) = <<l>> \o t
         /\ <<k, l>> \o t \in Seq(Labels)
<1>1. <<k>> \in Seq(Labels) /\ <<l>> \in Seq(Labels) OBVIOUS
<1>2. <<k>> \o <<l>> = <<k, l>>
  <2>1. Tail(<<k, l>>) = <<l>> /\ Head(<<k, l>>) = k /\ <<k, l>> \in Seq(Labels) /\ <<k, l>> # <<>>
    OBVIOUS
  <2> DEFINE r == <<k>> \o <<l>>
             q == <<k, l>>
  <2>2. Head(r) = k /\ Tail(r) = <<l>> /\ r \in Seq(Labels) BY <1>1, PushedOne
  <2>3. Len(r) = 2 /\ Len(q) = 2
    <3>1. Len(<<k>>) = 1 /\ Len(<<l>>) = 1 /\ Len(q) = 2 OBVIOUS
    <3>2. Len(r) = Len(<<k>>) + Len(<<l>>) BY <1>1, ConcatProperties
    <3> QED BY <3>1, <3>2
  <2>4. q[1] = k /\ q[2] = l OBVIOUS
  <2>5. r[1] = k /\ r[2] = l
    <3> HIDE DEF r
    <3>1. r # <<>> BY <2>3
    <3>2. Tail(r)[1] = r[1 + 1] /\ r[1] = Head(r)
      BY <2>2, <2>3, <3>1, HeadTailProperties
    <3>3. Tail(r)[1] = l
      <4>1. <<l>>[1] = l OBVIOUS
      <4>2. Tail(r) = <<l>> BY <2>2
      <4> QED BY <4>1, <4>2, Zenon
    <3> QED BY <2>2, <3>2, <3>3
  <2>6. \A i \in 1 .. Len(r) : r[i] = q[i]
    <3> HIDE DEF r, q
    <3>1. \A i \in 1 .. Len(r) : i = 1 \/ i = 2 BY <2>3
    <3> QED BY <2>4, <2>5, <3>1
  <2>7. q \in Seq(Labels) BY <2>1
  <2> HIDE DEF r, q
  <2>8. r = q BY <2>2, <2>3, <2>6, <2>7, SeqEqual
  <2> QED BY <2>8 DEF r, q
<1>3. <<k, l>> \o t = <<k>> \o (<<l>> \o t)
  <2>1. (<<k>> \o <<l>>) \o t = <<k>> \o (<<l>> \o t) BY <1>1, ConcatAssociative
  <2> QED BY <1>2, <2>1
<1>4. <<l>> \o t \in Seq(Labels) BY PushedOne
<1>5. /\ Head(<<k>> \o (<<l>> \o t)) = k /\ Tail(<<k>> \o (<<l>> \o t)) = <<l>> \o t
      /\ <<k>> \o (<<l>> \o t) \in Seq(Labels)
  BY <1>4, PushedOne
<1> QED BY <1>3, <1>5

-----------------------------------------------------------------------------
\* The heads and tails of the stacks of the cycle.
LEMMA Suffixes ==
  /\ Apply4 \in Seq(Labels) /\ Apply3 \in Seq(Labels) /\ Apply2 \in Seq(Labels)
  /\ Ready2 \in Seq(Labels) /\ StopAll \in Seq(Labels)
  /\ Head(Apply) = "decide" /\ Tail(Apply) = Apply4
  /\ Head(Apply4) = "announce" /\ Tail(Apply4) = Apply3
  /\ Head(Apply3) = "capSwap" /\ Tail(Apply3) = Apply2
  /\ Head(Apply2) = "complete" /\ Tail(Apply2) = <<"loop">>
  /\ Head(StopAll) = "genStop" /\ Tail(StopAll) = Ready2
  /\ Head(Ready2) = "ready" /\ Tail(Ready2) = <<"loop">>
  /\ Head(<<"loop">>) = "loop" /\ Head(<<"none">>) = "none" /\ Head(<<"exited">>) = "exited"
<1>1. /\ Apply4 \in Seq(Labels) /\ Apply3 \in Seq(Labels) /\ Apply2 \in Seq(Labels)
      /\ Ready2 \in Seq(Labels) /\ StopAll \in Seq(Labels)
  BY DEF Apply4, Apply3, Apply2, Ready2, StopAll, Labels
<1>2. Head(Apply) = "decide" /\ Tail(Apply) = Apply4 BY DEF Apply, Apply4
<1>3. Head(Apply4) = "announce" /\ Tail(Apply4) = Apply3 BY DEF Apply3, Apply4
<1>4. Head(Apply3) = "capSwap" /\ Tail(Apply3) = Apply2 BY DEF Apply3, Apply2
<1>5. Head(Apply2) = "complete" /\ Tail(Apply2) = <<"loop">> BY DEF Apply2
<1>6. Head(StopAll) = "genStop" /\ Tail(StopAll) = Ready2 BY DEF StopAll, Ready2
<1>7. Head(Ready2) = "ready" /\ Tail(Ready2) = <<"loop">> BY DEF Ready2
<1>8. Head(<<"loop">>) = "loop" /\ Head(<<"none">>) = "none" /\ Head(<<"exited">>) = "exited"
  OBVIOUS
<1> QED BY <1>1, <1>2, <1>3, <1>4, <1>5, <1>6, <1>7, <1>8

LEMMA PushedStacks ==
  /\ Head(Start5) = "start" /\ Tail(Start5) = Apply4
  /\ Head(Hand5) = "handlers" /\ Tail(Hand5) = Apply4
  /\ Head(Work5) = "spawnWorker" /\ Tail(Work5) = Apply4
  /\ Head(Swap6) = "capSwap" /\ Tail(Swap6) = Work5
  /\ Head(Check6) = "capCheck" /\ Tail(Check6) = Work5
  /\ Head(List6) = "capList" /\ Tail(List6) = Work5
  /\ Head(Work6) = "spawnWorker" /\ Tail(Work6) = Work5
  /\ Head(Check3) = "capCheck" /\ Tail(Check3) = Apply2
  /\ Head(Work3) = "spawnWorker" /\ Tail(Work3) = Apply2
  /\ Head(Mgr4) = "managerStop" /\ Tail(Mgr4) = Users3
  /\ Head(Users3) = "stopUsers" /\ Tail(Users3) = Ready2
  /\ Work5 \in Seq(Labels) /\ Users3 \in Seq(Labels)
<1>1. /\ "start" \in Labels /\ "handlers" \in Labels /\ "spawnWorker" \in Labels /\ "capSwap" \in Labels
      /\ "capCheck" \in Labels /\ "capList" \in Labels /\ "managerStop" \in Labels
      /\ "stopUsers" \in Labels
  BY DEF Labels
<1>0. Apply4 \in Seq(Labels) /\ Apply2 \in Seq(Labels) /\ Ready2 \in Seq(Labels) BY Suffixes
<1>2. Work5 \in Seq(Labels) /\ Head(Work5) = "spawnWorker" /\ Tail(Work5) = Apply4
  BY <1>0, <1>1, PushedOne DEF Work5
<1>3. Users3 \in Seq(Labels) /\ Head(Users3) = "stopUsers" /\ Tail(Users3) = Ready2
  BY <1>0, <1>1, PushedOne DEF Users3
<1>4. /\ Head(Start5) = "start" /\ Tail(Start5) = Apply4
      /\ Head(Hand5) = "handlers" /\ Tail(Hand5) = Apply4
  BY <1>0, <1>1, PushedOne DEF Start5, Hand5
<1>5. /\ Head(Check6) = "capCheck" /\ Tail(Check6) = Work5
      /\ Head(List6) = "capList" /\ Tail(List6) = Work5
      /\ Head(Work6) = "spawnWorker" /\ Tail(Work6) = Work5
  BY <1>1, <1>2, PushedOne DEF Check6, List6, Work6
<1>6. /\ Head(Check3) = "capCheck" /\ Tail(Check3) = Apply2
      /\ Head(Work3) = "spawnWorker" /\ Tail(Work3) = Apply2
  BY <1>0, <1>1, PushedOne DEF Check3, Work3
<1>7. Head(Swap6) = "capSwap" /\ Tail(Swap6) = Work5
  BY <1>0, <1>1, PushedTwo DEF Swap6, Work5
<1>8. Head(Mgr4) = "managerStop" /\ Tail(Mgr4) = Users3
  BY <1>0, <1>1, PushedTwo DEF Mgr4, Users3
<1> QED BY <1>2, <1>3, <1>4, <1>5, <1>6, <1>7, <1>8

-----------------------------------------------------------------------------
\* Where the cycle is when it takes a step.
LEMMA CycleAt ==
  ASSUME CycleTruth
  PROVE  /\ At("cycle", "none") => Resting
         /\ At("cycle", "loop") => Resting /\ pc["cycle"] = <<"loop">>
         /\ At("cycle", "decide") => pc["cycle"] = Apply /\ Settled
         /\ At("cycle", "start") => pc["cycle"] = Start5 /\ wstate = "Init" /\ Fresh
         /\ At("cycle", "handlers") => pc["cycle"] = Hand5 /\ wstate = "Init" /\ started /\ ~spawning /\ users = 0
         /\ At("cycle", "announce") => pc["cycle"] = Apply4 /\ LoadOn
         /\ At("cycle", "capSwap") => \/ pc["cycle"] = Swap6 /\ started
                                      \/ pc["cycle"] = Apply3 /\ LoadOn /\ capArg = cur.n
         /\ At("cycle", "capCheck") => \/ pc["cycle"] = Check6 /\ started
                                       \/ pc["cycle"] = Check3 /\ LoadOn /\ target = cur.n
         /\ At("cycle", "spawnWorker") => \/ pc["cycle"] \in {Work6, Work5} /\ started
                                          \/ pc["cycle"] = Work3 /\ LoadOn /\ target = cur.n
         /\ At("cycle", "capList") => pc["cycle"] = List6 /\ started
         /\ At("cycle", "complete") => pc["cycle"] = Apply2 /\ LoadOn /\ target = cur.n
         /\ At("cycle", "genStop") => pc["cycle"] = StopAll /\ (started \/ Fresh)
         /\ At("cycle", "managerStop") => pc["cycle"] = Mgr4 /\ ~started
         /\ At("cycle", "stopUsers") => pc["cycle"] = Users3 /\ ~started /\ ~spawning
         /\ At("cycle", "ready") => pc["cycle"] = Ready2 /\ Fresh
<1>1. /\ Head(Start5) = "start" /\ Head(Hand5) = "handlers" /\ Head(Work5) = "spawnWorker"
      /\ Head(Swap6) = "capSwap" /\ Head(Check6) = "capCheck" /\ Head(List6) = "capList"
      /\ Head(Work6) = "spawnWorker" /\ Head(Check3) = "capCheck" /\ Head(Work3) = "spawnWorker"
      /\ Head(Mgr4) = "managerStop" /\ Head(Users3) = "stopUsers"
  BY PushedStacks
<1>2. /\ Head(Apply) = "decide" /\ Head(Apply4) = "announce" /\ Head(Apply3) = "capSwap"
      /\ Head(Apply2) = "complete" /\ Head(StopAll) = "genStop" /\ Head(Ready2) = "ready"
      /\ Head(<<"loop">>) = "loop" /\ Head(<<"none">>) = "none" /\ Head(<<"exited">>) = "exited"
  BY Suffixes
<1> DEFINE s == pc["cycle"]
<1>3. CASE Resting
  <2>1. Head(s) \in {"none", "loop"} /\ (Head(s) = "loop" => s = <<"loop">>)
    BY <1>2, <1>3 DEF Resting
  <2> QED BY <1>3, <2>1 DEF At
<1>4. CASE Starting BY <1>1, <1>2, <1>4 DEF Starting, At
<1>5. CASE Spawning BY <1>1, <1>2, <1>5 DEF Spawning, At
<1>6. CASE Stopping BY <1>1, <1>2, <1>6 DEF Stopping, At
<1>7. CASE s = <<"exited">> BY <1>2, <1>7 DEF At
<1> QED BY <1>3, <1>4, <1>5, <1>6, <1>7 DEF CycleTruth

\* Returning and calling, in terms of these stacks.
LEMMA CycleMoves ==
  ASSUME Control, Head(pc["cycle"]) \notin Bottoms
  PROVE  /\ Return("cycle") => pc'["cycle"] = Tail(pc["cycle"]) /\ Others("cycle")
         /\ \A c \in Seq(Calls) : Jump("cycle", c) /\ Len(c) >= 1 =>
              pc'["cycle"] = c \o Tail(pc["cycle"]) /\ Others("cycle")
<1>1. "cycle" \in Procs BY DEF Procs
<1>2. Return("cycle") => pc'["cycle"] = Tail(pc["cycle"]) /\ Others("cycle") BY <1>1, ReturnStep
<1>3. ASSUME NEW c \in Seq(Calls), Jump("cycle", c), Len(c) >= 1
      PROVE  pc'["cycle"] = c \o Tail(pc["cycle"]) /\ Others("cycle")
  BY <1>1, <1>3, CallStep
<1> QED BY <1>2, <1>3

\* The steps of the cycle keep what is true of the generator.
LEMMA CycleKeepsTruth ==
  ASSUME Control, CycleTruth, Cycle \/ StopCall("cycle")
  PROVE  CycleTruth' /\ Others("cycle")
<1> USE DEF At
<1> DEFINE s == pc["cycle"]
<1>0. "cycle" \in Procs BY DEF Procs
<1>a. ASSUME NEW l \in Labels \ Bottoms, At("cycle", l), Return("cycle")
      PROVE  pc'["cycle"] = Tail(s) /\ Others("cycle")
  BY <1>a, CycleMoves
<1>b. ASSUME NEW l \in Labels \ Bottoms, At("cycle", l), NEW c \in Seq(Calls), Len(c) >= 1,
             Jump("cycle", c)
      PROVE  pc'["cycle"] = c \o Tail(s) /\ Others("cycle")
  BY <1>b, CycleMoves
<1>c. ASSUME NEW l \in Calls, NEW m \in Labels \ Bottoms, At("cycle", m), Jump("cycle", <<l>>)
      PROVE  pc'["cycle"] = <<l>> \o Tail(s) /\ Others("cycle")
  <2>1. <<l>> \in Seq(Calls) /\ Len(<<l>>) >= 1 OBVIOUS
  <2> QED BY <1>b, <1>c, <2>1
<1>1. CASE Decide
  <2>1. s = Apply /\ Settled BY <1>1, CycleAt DEF Decide
  <2>2. UNCHANGED <<wstate, started, spawning, users>> BY <1>1 DEF Decide, genVars
  <2>3. "decide" \in Labels \ Bottoms /\ "start" \in Calls BY DEF Labels, Bottoms, Calls
  <2>4. CASE wstate \in {"Running", "Spawning"}
    <3>1. Return("cycle") BY <1>1, <2>4 DEF Decide
    <3>2. pc'["cycle"] = Apply4 /\ Others("cycle") BY <1>1, <1>a, <2>1, <2>3, <3>1, Suffixes DEF Decide
    <3> QED BY <2>1, <2>2, <2>4, <3>2 DEF Settled, LoadOn, CycleTruth, Spawning
  <2>5. CASE wstate \notin {"Running", "Spawning"}
    <3>1. Jump("cycle", <<"start">>) BY <1>1, <2>5 DEF Decide
    <3>2. pc'["cycle"] = Start5 /\ Others("cycle")
      BY <1>1, <1>c, <2>1, <2>3, <3>1, Suffixes DEF Decide, Start5
    <3> QED BY <2>1, <2>2, <2>5, <3>2 DEF Settled, Fresh, CycleTruth, Starting
  <2> QED BY <2>4, <2>5
<1>2. CASE Start
  <2>1. s = Start5 /\ wstate = "Init" /\ Fresh BY <1>2, CycleAt DEF Start
  <2>2. "start" \in Labels \ Bottoms /\ "handlers" \in Calls BY DEF Labels, Bottoms, Calls
  <2>3. Jump("cycle", <<"handlers">>) BY <1>2, <2>1 DEF Start, Fresh
  <2>4. pc'["cycle"] = Hand5 /\ Others("cycle")
    BY <1>2, <1>c, <2>1, <2>2, <2>3, PushedStacks DEF Start, Hand5
  <2> QED BY <1>2, <2>1, <2>4 DEF Start, Fresh, CycleTruth, Starting
<1>3. CASE HandlersSucceed
  <2>1. s = Hand5 /\ started /\ started' = started BY <1>3, CycleAt DEF HandlersSucceed, genVars
  <2>2. "handlers" \in Labels \ Bottoms BY DEF Labels, Bottoms
  <2>3. <<"capSwap", "spawnWorker">> \in Seq(Calls) /\ Len(<<"capSwap", "spawnWorker">>) >= 1
    BY DEF Calls, Labels, Bottoms
  <2>4. pc'["cycle"] = Swap6 /\ Others("cycle")
    BY <1>3, <1>b, <2>1, <2>2, <2>3, PushedStacks DEF HandlersSucceed, Swap6
  <2> QED BY <2>1, <2>4 DEF CycleTruth, Starting
<1>4. CASE HandlersFail
  <2>1. s = Hand5 /\ wstate = "Init" /\ ~spawning /\ users = 0 BY <1>4, CycleAt DEF HandlersFail
  <2>2. StackOK(<<"loop">>) BY OneLabel DEF Bottoms
  <2>3. pc'["cycle"] = <<"loop">> /\ Others("cycle") BY <1>4, <1>0, <2>2, ControlStep DEF HandlersFail
  <2> QED BY <1>4, <2>1, <2>3 DEF HandlersFail, CycleTruth, Resting, Settled, Fresh
<1>5. CASE Announce
  <2>1. s = Apply4 /\ LoadOn BY <1>5, CycleAt DEF Announce
  <2>2. "announce" \in Labels \ Bottoms BY DEF Labels, Bottoms
  <2>3. pc'["cycle"] = Apply3 /\ Others("cycle") BY <1>5, <1>a, <2>1, <2>2, Suffixes DEF Announce
  <2> QED BY <1>5, <2>1, <2>3 DEF Announce, genVars, LoadOn, CycleTruth, Spawning
<1>6. CASE CapSwap
  <2>1. \/ s = Swap6 /\ started
        \/ s = Apply3 /\ LoadOn /\ capArg = cur.n
    BY <1>6, CycleAt DEF CapSwap
  <2>2. "capSwap" \in Labels \ Bottoms /\ "capCheck" \in Calls BY DEF Labels, Bottoms, Calls
  <2>3. UNCHANGED <<cur, started, spawning>> /\ target' = capArg BY <1>6 DEF CapSwap, cycVars
  <2>4. CASE target = capArg
    <3>1. pc'["cycle"] = Tail(s) /\ Others("cycle") BY <1>6, <1>a, <2>2, <2>4 DEF CapSwap
    <3>2. CASE s = Swap6 /\ started
      <4>1. pc'["cycle"] = Work5 BY <3>1, <3>2, PushedStacks
      <4> QED BY <2>3, <3>1, <3>2, <4>1 DEF CycleTruth, Starting
    <3>3. CASE s = Apply3 /\ LoadOn /\ capArg = cur.n
      <4>1. pc'["cycle"] = Apply2 BY <3>1, <3>3, Suffixes
      <4> QED BY <2>3, <3>1, <3>3, <4>1 DEF LoadOn, CycleTruth, Spawning
    <3> QED BY <2>1, <3>2, <3>3
  <2>5. CASE target # capArg
    <3>1. pc'["cycle"] = <<"capCheck">> \o Tail(s) /\ Others("cycle")
      BY <1>6, <1>c, <2>2, <2>5 DEF CapSwap
    <3>2. CASE s = Swap6 /\ started
      <4>1. pc'["cycle"] = Check6 BY <3>1, <3>2, PushedStacks DEF Check6
      <4> QED BY <2>3, <3>1, <3>2, <4>1 DEF CycleTruth, Starting
    <3>3. CASE s = Apply3 /\ LoadOn /\ capArg = cur.n
      <4>1. pc'["cycle"] = Check3 BY <3>1, <3>3, Suffixes DEF Check3
      <4> QED BY <2>3, <3>1, <3>3, <4>1 DEF LoadOn, CycleTruth, Spawning
    <3> QED BY <2>1, <3>2, <3>3
  <2> QED BY <2>4, <2>5
<1>7. CASE CapCheck
  <2>1. \/ s = Check6 /\ started
        \/ s = Check3 /\ LoadOn /\ target = cur.n
    BY <1>7, CycleAt DEF CapCheck
  <2>2. "capCheck" \in Labels \ Bottoms /\ "spawnWorker" \in Calls /\ "capList" \in Calls
    BY DEF Labels, Bottoms, Calls
  <2>3. UNCHANGED <<cur, started, spawning, target>> BY <1>7 DEF CapCheck, cycVars, genVars
  <2>4. CASE s = Check6 /\ started
    <3>1. pc'["cycle"] \in {Work6, List6} /\ Others("cycle")
      BY <1>7, <1>c, <2>2, <2>4, PushedStacks DEF CapCheck, Work6, List6
    <3> QED BY <2>3, <2>4, <3>1 DEF CycleTruth, Starting
  <2>5. CASE s = Check3 /\ LoadOn /\ target = cur.n
    <3>1. Jump("cycle", <<"spawnWorker">>) BY <1>7, <2>5 DEF CapCheck, LoadOn
    <3>2. pc'["cycle"] = Work3 /\ Others("cycle")
      BY <1>7, <1>c, <2>2, <2>5, <3>1, PushedStacks DEF CapCheck, Work3
    <3> QED BY <2>3, <2>5, <3>2 DEF LoadOn, CycleTruth, Spawning
  <2> QED BY <2>1, <2>4, <2>5
<1>8. CASE SpawnWorker
  <2>1. \/ s \in {Work6, Work5} /\ started
        \/ s = Work3 /\ LoadOn /\ target = cur.n
    BY <1>8, CycleAt DEF SpawnWorker
  <2>2. "spawnWorker" \in Labels \ Bottoms BY DEF Labels, Bottoms
  <2>3. UNCHANGED <<cur, started, target>> /\ spawning' = TRUE BY <1>8 DEF SpawnWorker, cycVars
  <2>4. pc'["cycle"] = Tail(s) /\ Others("cycle") BY <1>8, <1>a, <2>2 DEF SpawnWorker
  <2>5. CASE s = Work6 /\ started
    BY <2>3, <2>4, <2>5, PushedStacks DEF CycleTruth, Starting
  <2>6. CASE s = Work5 /\ started
    BY <2>3, <2>4, <2>6, PushedStacks DEF LoadOn, CycleTruth, Spawning
  <2>7. CASE s = Work3 /\ LoadOn /\ target = cur.n
    BY <2>3, <2>4, <2>7, PushedStacks DEF LoadOn, CycleTruth, Spawning
  <2> QED BY <2>1, <2>5, <2>6, <2>7
<1>9. CASE CapList
  <2>1. s = List6 /\ started BY <1>9, CycleAt DEF CapList
  <2>2. "capList" \in Labels \ Bottoms BY DEF Labels, Bottoms
  <2>3. pc'["cycle"] = Work5 /\ Others("cycle") BY <1>9, <1>a, <2>1, <2>2, PushedStacks DEF CapList
  <2> QED BY <1>9, <2>1, <2>3 DEF CapList, CycleTruth, Starting
<1>10. CASE Complete
  <2>1. s = Apply2 /\ LoadOn /\ target = cur.n BY <1>10, CycleAt DEF Complete
  <2>2. "complete" \in Labels \ Bottoms BY DEF Labels, Bottoms
  <2>3. pc'["cycle"] = <<"loop">> /\ Others("cycle") BY <1>10, <1>a, <2>1, <2>2, Suffixes DEF Complete
  <2> QED BY <1>10, <2>1, <2>3 DEF Complete, genVars, LoadOn, CycleTruth, Resting, Settled
<1>11. CASE TakeStop
  <2>1. Resting /\ s = <<"loop">> BY <1>11, CycleAt DEF TakeStop
  <2>2. Jump("cycle", StopAll) /\ UNCHANGED <<started, spawning, users>>
    BY <1>11 DEF TakeStop, StopAll, genVars
  <2>3. StackOK(StopAll) BY ThreeLabels DEF StopAll, Bottoms, Calls, Labels
  <2>4. Head(s) \in Bottoms BY <1>11 DEF TakeStop, Bottoms
  <2>5. pc'["cycle"] = StopAll /\ Others("cycle") BY <1>0, <2>2, <2>3, <2>4, ReplaceStep
  <2> QED BY <2>1, <2>2, <2>5 DEF Resting, Settled, Fresh, LoadOn, CycleTruth, Stopping
<1>12. CASE Ready
  <2>1. s = Ready2 /\ Fresh BY <1>12, CycleAt DEF Ready
  <2>2. "ready" \in Labels \ Bottoms BY DEF Labels, Bottoms
  <2>3. pc'["cycle"] = <<"loop">> /\ Others("cycle") BY <1>12, <1>a, <2>1, <2>2, Suffixes DEF Ready
  <2> QED BY <1>12, <2>1, <2>3 DEF Ready, genVars, Fresh, CycleTruth, Resting, Settled
<1>13. CASE GenStop("cycle")
  <2>1. s = StopAll /\ (started \/ Fresh) BY <1>13, CycleAt DEF GenStop
  <2>2. "genStop" \in Labels \ Bottoms BY DEF Labels, Bottoms
  <2>3. <<"managerStop", "stopUsers">> \in Seq(Calls) /\ Len(<<"managerStop", "stopUsers">>) >= 1
    BY DEF Calls, Labels, Bottoms
  <2>4. started' = FALSE /\ UNCHANGED <<spawning, users>> BY <1>13 DEF GenStop
  <2>5. CASE started
    <3>1. pc'["cycle"] = Mgr4 /\ Others("cycle")
      BY <1>13, <1>b, <2>1, <2>2, <2>3, <2>5, Suffixes DEF GenStop, Mgr4
    <3> QED BY <2>4, <3>1 DEF CycleTruth, Stopping
  <2>6. CASE ~started
    <3>1. Return("cycle") BY <1>13, <2>6 DEF GenStop, Return
    <3>2. pc'["cycle"] = Ready2 /\ Others("cycle")
      BY <1>13, <1>a, <2>1, <2>2, <3>1, Suffixes DEF GenStop
    <3> QED BY <2>1, <2>4, <2>6, <3>2 DEF Fresh, CycleTruth, Stopping
  <2> QED BY <2>5, <2>6
<1>14. CASE ManagerStop("cycle")
  <2>1. s = Mgr4 /\ ~started BY <1>14, CycleAt DEF ManagerStop
  <2>2. "managerStop" \in Labels \ Bottoms BY DEF Labels, Bottoms
  <2>3. pc'["cycle"] = Users3 /\ Others("cycle")
    BY <1>14, <1>a, <2>1, <2>2, PushedStacks DEF ManagerStop
  <2> QED BY <1>14, <2>1, <2>3 DEF ManagerStop, CycleTruth, Stopping
<1>15. CASE StopUsers("cycle")
  <2>1. s = Users3 /\ ~started /\ ~spawning BY <1>15, CycleAt DEF StopUsers
  <2>2. "stopUsers" \in Labels \ Bottoms BY DEF Labels, Bottoms
  <2>3. pc'["cycle"] = Ready2 /\ Others("cycle")
    BY <1>15, <1>a, <2>1, <2>2, PushedStacks DEF StopUsers
  <2> QED BY <1>15, <2>1, <2>3 DEF StopUsers, Fresh, CycleTruth, Stopping
<1> QED BY <1>1, <1>2, <1>3, <1>4, <1>5, <1>6, <1>7, <1>8, <1>9, <1>10, <1>11, <1>12, <1>13, <1>14,
           <1>15 DEF Cycle, StopCall

-----------------------------------------------------------------------------
\* Calls of Stop and Quit by the other goroutines.
LEMMA CallFacts ==
  ASSUME IndInv, NEW p \in Quitters, StopCall(p) \/ QuitCall(p)
  PROVE  /\ Head(pc[p]) \in Calls /\ extDone' = extDone /\ cancelFn' \in {cancelFn, "nil"}
         /\ Head(pc[p]) = "quit" => cancelFn' = "nil"
         /\ \/ Return(p)
            \/ \E c \in Seq(Calls) : /\ Len(c) >= 1 /\ Jump(p, c) /\ Head(pc[p]) # "cancel"
                                     /\ Head(pc[p]) = "quit" => c[Len(c)] = "cancel"
<1> USE DEF At
<1>0. {"genStop", "managerStop", "stopUsers", "quit", "cancel", "stop", "cleanup", "stopped"}
        \subseteq Calls
  BY DEF Calls, Labels, Bottoms
<1>1. CASE GenStop(p)
  <2>1. <<"managerStop", "stopUsers">> \in Seq(Calls) /\ Len(<<"managerStop", "stopUsers">>) >= 1
    BY <1>0
  <2>2. Head(pc[p]) = "genStop" /\ UNCHANGED <<extDone, cancelFn>>
    BY <1>1 DEF GenStop, boundVars, ctxVars
  <2>3. Return(p) \/ Jump(p, <<"managerStop", "stopUsers">>) BY <1>1 DEF GenStop, Return
  <2> QED BY <1>0, <2>1, <2>2, <2>3
<1>2. CASE ManagerStop(p) BY <1>0, <1>2 DEF ManagerStop, boundVars, ctxVars
<1>3. CASE StopUsers(p) BY <1>0, <1>3 DEF StopUsers, boundVars, ctxVars
<1>4. CASE Quit(p)
  <2> DEFINE c == <<"stop", "cancel">>
  <2>1. c \in Seq(Calls) /\ Len(c) = 2 /\ c[2] = "cancel" BY <1>0
  <2>2. Head(pc[p]) = "quit" /\ extDone' = extDone /\ cancelFn' = "nil" BY <1>4 DEF Quit, boundVars
  <2>3. Return(p) \/ Jump(p, c) BY <1>4 DEF Quit, Return
  <2> HIDE DEF c
  <2>4. Len(c) >= 1 /\ c[Len(c)] = "cancel" BY <2>1
  <2> QED BY <1>0, <2>1, <2>2, <2>3, <2>4
<1>5. CASE Cancel(p) BY <1>0, <1>5 DEF Cancel, boundVars
<1>6. CASE Stop(p)
  <2> DEFINE c == <<"cleanup", "genStop", "stopped">>
  <2>1. c \in Seq(Calls) /\ Len(c) >= 1 BY <1>0
  <2>2. Head(pc[p]) = "stop" /\ UNCHANGED <<extDone, cancelFn>> BY <1>6 DEF Stop, boundVars, ctxVars
  <2>3. Return(p) \/ Jump(p, c) BY <1>6 DEF Stop
  <2> HIDE DEF c
  <2> QED BY <1>0, <2>1, <2>2, <2>3
<1>7. CASE SetState(p, "cleanup", "Cleanup") \/ SetState(p, "stopped", "Stopped")
  BY <1>0, <1>7 DEF SetState, boundVars, ctxVars
<1> QED BY <1>1, <1>2, <1>3, <1>4, <1>5, <1>6, <1>7 DEF StopCall, QuitCall

LEMMA CallShape ==
  ASSUME IndInv, NEW p \in Quitters, StopCall(p) \/ QuitCall(p)
  PROVE  /\ Others(p) /\ Len(pc[p]) \in Nat /\ Len(pc[p]) >= 2 /\ Len(pc'[p]) \in Nat
         /\ Len(pc[p]) = 2 => /\ Below(pc[p]) = Head(pc[p])
                              /\ Len(pc'[p]) >= 2 => /\ Head(pc[p]) # "cancel"
                                                     /\ Head(pc[p]) = "quit" => Below(pc'[p]) = "cancel"
         /\ Len(pc[p]) >= 3 => Below(pc'[p]) = Below(pc[p]) /\ Len(pc'[p]) >= 2
         /\ Len(pc'[p]) >= 2 => Head(pc'[p]) \notin Bottoms \cup {"offer", "reopen"}
<1>0. p \in Procs /\ Control /\ StackOK(pc[p]) BY DEF IndInv, Control, Procs, Quitters
<1>1. Head(pc[p]) \in Calls /\ Head(pc[p]) \notin Bottoms BY CallFacts DEF Calls
<1>2. /\ Len(pc[p]) \in Nat /\ Len(pc[p]) >= 2 /\ Len(Tail(pc[p])) = Len(pc[p]) - 1
      /\ Len(pc[p]) = 2 => Below(pc[p]) = Head(pc[p])
      /\ Len(pc[p]) >= 3 => Below(Tail(pc[p])) = Below(pc[p]) /\ Head(Tail(pc[p])) \notin Bottoms
      /\ Head(Tail(pc[p])) \notin {"offer", "reopen"}
  BY <1>0, <1>1, PopBelow
<1>3. CASE Return(p)
  <2>1. Others(p) /\ pc'[p] = Tail(pc[p]) BY <1>0, <1>1, <1>3, ReturnStep
  <2> DEFINE n == Len(pc[p])
             m == Len(pc'[p])
  <2>2. n \in Nat /\ n >= 2 /\ m = n - 1 BY <1>2, <2>1
  <2> HIDE DEF n, m
  <2>3. m \in Nat /\ (n = 2 => ~(m >= 2)) /\ (n >= 3 => m >= 2) /\ (m >= 2 => n >= 3) BY <2>2
  <2> QED BY <1>2, <2>1, <2>3 DEF n, m
<1>4. ASSUME NEW c \in Seq(Calls), Len(c) >= 1, Jump(p, c), Head(pc[p]) # "cancel",
             Head(pc[p]) = "quit" => c[Len(c)] = "cancel"
      PROVE  /\ Others(p) /\ Len(pc'[p]) \in Nat
             /\ Len(pc[p]) = 2 => (Head(pc[p]) = "quit" => Below(pc'[p]) = "cancel")
             /\ Len(pc[p]) >= 3 => Below(pc'[p]) = Below(pc[p]) /\ Len(pc'[p]) >= 2
             /\ Head(pc'[p]) \notin Bottoms \cup {"offer", "reopen"}
  <2>1. Others(p) /\ pc'[p] = c \o Tail(pc[p]) /\ Head(pc'[p]) = c[1] BY <1>0, <1>1, <1>4, CallStep
  <2> DEFINE r == c \o Tail(pc[p])
  <2>2. /\ Len(r) = Len(c) + Len(pc[p]) - 1 /\ Len(c) \in Nat
        /\ Len(pc[p]) = 2 => Below(r) = c[Len(c)]
        /\ Len(pc[p]) >= 3 => Below(r) = Below(pc[p])
    BY <1>0, <1>1, <1>4, PushBelow
  <2>3. pc'[p] = r BY <2>1
  <2> HIDE DEF r
  <2>4. Len(r) \in Nat /\ Len(r) >= 2 BY <1>2, <1>4, <2>2
  <2>5. c[1] \in Calls
    <3>1. 1 \in 1 .. Len(c) BY <1>4, <2>2
    <3> QED BY <3>1, ElementOfSeq
  <2>6. Head(pc'[p]) \notin Bottoms \cup {"offer", "reopen"} BY <2>1, <2>5 DEF Calls
  <2> QED BY <1>4, <2>1, <2>2, <2>3, <2>4, <2>6
<1>5. Return(p) \/ \E c \in Seq(Calls) : /\ Len(c) >= 1 /\ Jump(p, c) /\ Head(pc[p]) # "cancel"
                                         /\ Head(pc[p]) = "quit" => c[Len(c)] = "cancel"
  BY CallFacts
<1>6. ASSUME NEW c \in Seq(Calls), Len(c) >= 1, Jump(p, c), Head(pc[p]) # "cancel",
             Head(pc[p]) = "quit" => c[Len(c)] = "cancel"
      PROVE  /\ Others(p) /\ Len(pc[p]) \in Nat /\ Len(pc[p]) >= 2 /\ Len(pc'[p]) \in Nat
             /\ Len(pc[p]) = 2 => /\ Below(pc[p]) = Head(pc[p])
                                  /\ Len(pc'[p]) >= 2 => /\ Head(pc[p]) # "cancel"
                                                         /\ Head(pc[p]) = "quit" => Below(pc'[p]) = "cancel"
             /\ Len(pc[p]) >= 3 => Below(pc'[p]) = Below(pc[p]) /\ Len(pc'[p]) >= 2
             /\ Len(pc'[p]) >= 2 => Head(pc'[p]) \notin Bottoms \cup {"offer", "reopen"}
  BY <1>2, <1>4, <1>6
<1> QED BY <1>3, <1>5, <1>6

LEMMA CallTruth ==
  ASSUME IndInv, TruthInv, NEW p \in Quitters, StopCall(p) \/ QuitCall(p)
  PROVE  TruthInv'
<1>1. /\ Head(pc[p]) \in Calls /\ extDone' = extDone /\ cancelFn' \in {cancelFn, "nil"}
      /\ Head(pc[p]) = "quit" => cancelFn' = "nil"
  BY CallFacts
<1>2. /\ Others(p) /\ Len(pc[p]) \in Nat /\ Len(pc[p]) >= 2 /\ Len(pc'[p]) \in Nat
      /\ Len(pc[p]) = 2 => /\ Below(pc[p]) = Head(pc[p])
                           /\ Len(pc'[p]) >= 2 => /\ Head(pc[p]) # "cancel"
                                                  /\ Head(pc[p]) = "quit" => Below(pc'[p]) = "cancel"
      /\ Len(pc[p]) >= 3 => Below(pc'[p]) = Below(pc[p]) /\ Len(pc'[p]) >= 2
      /\ Len(pc'[p]) >= 2 => Head(pc'[p]) \notin Bottoms \cup {"offer", "reopen"}
  BY CallShape
<1>3. pc'["join"] = pc["join"] /\ pc'["cycle"] = pc["cycle"]
  BY <1>2 DEF Others, Procs, Quitters
<1>4. Head(pc[p]) \notin {"none", "idle"} BY <1>1 DEF Calls, Bottoms
<1>5. pc[p] # <<"none">> /\ pc[p] # <<"idle">> BY <1>4
<1>6. Dead => Dead' BY <1>1, <1>3 DEF Dead, Early
<1>7. Len(pc[p]) = 2 \/ Len(pc[p]) >= 3
  <2> DEFINE n == Len(pc[p])
  <2>1. n \in Nat /\ n >= 2 BY <1>2
  <2> HIDE DEF n
  <2>2. n = 2 \/ n >= 3 BY <2>1
  <2> QED BY <2>2 DEF n
<1>8. Dead' => ~Calm' BY DEF Dead, Calm
<1>9. CASE p = "msg"
  <2>1. ~Early BY <1>5, <1>9 DEF TruthInv, Phases
  <2>2. ~Early' BY <1>3, <2>1 DEF Early
  <2>3. /\ Below(pc[p]) \in {"offer", "reopen", "quit", "cancel"}
        /\ Below(pc[p]) = "cancel" => Dead
    BY <1>2, <1>9 DEF TruthInv, Quitting
  <2>4. pc'["hb"] = pc["hb"] /\ pc'["ext"] = pc["ext"] BY <1>2, <1>9 DEF Others, Procs
  <2>5. Phases' BY <1>3, <2>2, <2>4 DEF TruthInv, Phases, Before
  <2>6. CASE Len(pc[p]) = 2
    <3>1. Head(pc[p]) \in {"quit", "cancel"} BY <1>1, <1>2, <2>3, <2>6 DEF Calls
    <3>2. Dead' BY <1>1, <1>2, <1>6, <2>2, <2>3, <2>6, <3>1 DEF Dead
    <3>3. Len(pc'[p]) >= 2 => Below(pc'[p]) = "cancel" BY <1>2, <2>6, <3>1
    <3>4. Quitting' BY <1>1, <1>6, <1>9, <2>4, <3>2, <3>3 DEF TruthInv, Quitting
    <3> QED BY <1>8, <2>5, <3>2, <3>4 DEF TruthInv
  <2>7. CASE Len(pc[p]) >= 3
    <3>1. Quitting' BY <1>1, <1>2, <1>6, <1>9, <2>3, <2>4, <2>7 DEF TruthInv, Quitting
    <3>2. ~Calm' BY <1>2, <1>9, <2>7 DEF Calm, Bottoms
    <3> QED BY <2>5, <3>1, <3>2 DEF TruthInv
  <2> QED BY <1>7, <2>6, <2>7
<1>10. CASE p = "hb"
  <2>1. ~Before BY <1>5, <1>10 DEF TruthInv, Phases
  <2>2. ~Before' /\ ~Early' BY <1>3, <2>1 DEF Before, Early
  <2>3. \/ Below(pc[p]) = "quit" /\ Len(pc[p]) = 2
        \/ Below(pc[p]) = "cancel" /\ Dead
    BY <1>2, <1>10 DEF TruthInv, Quitting
  <2>4. Dead' BY <1>1, <1>2, <1>6, <2>2, <2>3 DEF Dead
  <2>5. Len(pc'[p]) >= 2 => Below(pc'[p]) = "cancel" BY <1>2, <1>7, <2>3
  <2>6. pc'["msg"] = pc["msg"] /\ pc'["ext"] = pc["ext"] BY <1>2, <1>10 DEF Others, Procs
  <2>7. Quitting' BY <1>1, <1>10, <2>4, <2>5, <2>6 DEF TruthInv, Quitting
  <2> QED BY <1>8, <2>2, <2>4, <2>7 DEF TruthInv, Phases
<1>11. CASE p = "ext"
  <2>1. extDone # 0 BY <1>5, <1>11 DEF TruthInv, Quitting
  <2>2. pc'["msg"] = pc["msg"] /\ pc'["hb"] = pc["hb"] BY <1>2, <1>11 DEF Others, Procs
  <2>3. Phases' BY <1>3, <2>2 DEF TruthInv, Phases, Early, Before
  <2>4. Quitting' BY <1>1, <1>6, <2>1, <2>2 DEF TruthInv, Quitting
  <2>5. ~Calm' BY <1>1, <2>1 DEF Calm
  <2> QED BY <2>3, <2>4, <2>5 DEF TruthInv
<1> QED BY <1>9, <1>10, <1>11 DEF Quitters

-----------------------------------------------------------------------------
\* The other steps.
LEMMA TruthKept ==
  ASSUME CycleTruth, pc'["cycle"] = pc["cycle"],
         UNCHANGED <<wstate, started, spawning, target, users, capArg, cur>>
  PROVE  CycleTruth'
<1>1. Resting => Resting' BY DEF Resting, Settled, Fresh, LoadOn
<1>2. Starting => Starting' BY DEF Starting, Settled, Fresh, LoadOn
<1>3. Spawning => Spawning' BY DEF Spawning, LoadOn
<1>4. Stopping => Stopping' BY DEF Stopping, Fresh
<1> QED BY <1>1, <1>2, <1>3, <1>4 DEF CycleTruth

\* A goroutine other than the message loop, the heartbeat check, the program and Join moves.
LEMMA OthersStay ==
  ASSUME TruthInv, NEW p \in {"relay", "cycle"}, Others(p), UNCHANGED <<cancelFn, extDone>>,
         pc'["cycle"] = pc["cycle"] \/ ~Before
  PROVE  Phases' /\ Quitting' /\ Calm' = Calm
<1>1. /\ pc'["join"] = pc["join"] /\ pc'["msg"] = pc["msg"] /\ pc'["hb"] = pc["hb"]
      /\ pc'["ext"] = pc["ext"]
  BY DEF Others, Procs
<1>2. Phases' BY <1>1 DEF TruthInv, Phases, Early, Before
<1>3. Quitting' BY <1>1 DEF TruthInv, Quitting, Dead, Early
<1>4. Calm' = Calm BY <1>1 DEF Calm, Early
<1> QED BY <1>2, <1>3, <1>4

LEMMA JumpOthers ==
  ASSUME Control, NEW p \in Procs, NEW labels, Jump(p, labels)
  PROVE  Others(p)
BY DEF Jump, Control, Others

LEMMA CycleStepTruth ==
  ASSUME IndInv, TruthInv, Cycle \/ StopCall("cycle") \/ Exit("cycle")
  PROVE  TruthInv'
<1>0. Control /\ "cycle" \in Procs BY DEF IndInv, Procs
<1>1. Others("cycle") /\ UNCHANGED <<cancelFn, extDone>>
  <2>1. CASE Decide
    <3>1. \E c : Jump("cycle", c) BY <2>1 DEF Decide, Return
    <3> QED BY <1>0, <2>1, <3>1, JumpOthers DEF Decide, ctxVars, boundVars
  <2>2. CASE Start
    <3>1. \E c : Jump("cycle", c) BY <2>2 DEF Start, Return
    <3> QED BY <1>0, <2>2, <3>1, JumpOthers DEF Start, ctxVars, boundVars
  <2>3. CASE HandlersSucceed BY <1>0, <2>3, JumpOthers DEF HandlersSucceed, ctxVars, boundVars
  <2>4. CASE HandlersFail BY <1>0, <2>4 DEF HandlersFail, ctxVars, boundVars, Control, Others
  <2>5. CASE Announce BY <1>0, <2>5, JumpOthers DEF Announce, Return, ctxVars, boundVars
  <2>6. CASE CapSwap
    <3>1. \E c : Jump("cycle", c) BY <2>6 DEF CapSwap, Return
    <3> QED BY <1>0, <2>6, <3>1, JumpOthers DEF CapSwap, ctxVars, boundVars
  <2>7. CASE CapCheck BY <1>0, <2>7, JumpOthers DEF CapCheck, ctxVars, boundVars
  <2>8. CASE SpawnWorker BY <1>0, <2>8, JumpOthers DEF SpawnWorker, Return, ctxVars, boundVars
  <2>9. CASE CapList BY <1>0, <2>9, JumpOthers DEF CapList, Return, ctxVars, boundVars
  <2>10. CASE Complete BY <1>0, <2>10, JumpOthers DEF Complete, Return, ctxVars, boundVars
  <2>11. CASE TakeStop BY <1>0, <2>11, JumpOthers DEF TakeStop, ctxVars, boundVars
  <2>12. CASE Ready BY <1>0, <2>12, JumpOthers DEF Ready, Return, ctxVars, boundVars
  <2>13. CASE GenStop("cycle") BY <1>0, <2>13, JumpOthers DEF GenStop, ctxVars, boundVars
  <2>14. CASE ManagerStop("cycle") BY <1>0, <2>14, JumpOthers DEF ManagerStop, Return, ctxVars, boundVars
  <2>15. CASE StopUsers("cycle") BY <1>0, <2>15, JumpOthers DEF StopUsers, Return, ctxVars, boundVars
  <2>16. CASE Exit("cycle") BY <1>0, <2>16, JumpOthers DEF Exit, ctxVars, boundVars
  <2> QED BY <2>1, <2>2, <2>3, <2>4, <2>5, <2>6, <2>7, <2>8, <2>9, <2>10, <2>11, <2>12, <2>13, <2>14,
             <2>15, <2>16 DEF Cycle, StopCall
<1>2. ~Before
  <2>1. Head(pc["cycle"]) # "none"
    BY DEF At, Cycle, StopCall, Exit, Decide, Start, HandlersSucceed, HandlersFail, Announce, CapSwap,
           CapCheck, SpawnWorker, CapList, Complete, TakeStop, Ready, GenStop, ManagerStop, StopUsers
  <2>2. Head(<<"none">>) = "none" OBVIOUS
  <2> QED BY <2>1, <2>2 DEF TruthInv, Phases
<1>3. Phases' /\ Quitting' /\ Calm' = Calm BY <1>1, <1>2, OthersStay
<1>4. CycleTruth => CycleTruth'
  <2>1. CASE Exit("cycle")
    <3>1. StackOK(<<"exited">>) /\ "loop" \in Bottoms BY OneLabel DEF Bottoms
    <3>2. pc'["cycle"] = <<"exited">> BY <1>0, <2>1, <3>1, ReplaceStep DEF Exit, At
    <3> QED BY <3>2 DEF CycleTruth
  <2>2. CASE Cycle \/ StopCall("cycle") BY <1>0, <2>2, CycleKeepsTruth
  <2> QED BY <2>1, <2>2
<1> QED BY <1>3, <1>4 DEF TruthInv

LEMMA RelayTruth ==
  ASSUME IndInv, TruthInv, RelayGive \/ Exit("relay")
  PROVE  TruthInv'
<1>0. Control /\ "cycle" \in Procs /\ "relay" \in Procs BY DEF IndInv, Procs
<1>1. CASE RelayGive
  <2>1. Others("cycle") /\ UNCHANGED <<cancelFn, extDone>>
    BY <1>0, <1>1, JumpOthers DEF RelayGive, ctxVars, boundVars
  <2>2. ~Before
    <3>1. Head(pc["cycle"]) = "loop" BY <1>1 DEF RelayGive, At
    <3>2. Head(<<"none">>) = "none" OBVIOUS
    <3> QED BY <3>1, <3>2 DEF TruthInv, Phases
  <2>3. Phases' /\ Quitting' /\ Calm' = Calm BY <2>1, <2>2, OthersStay
  <2>4. ASSUME CycleTruth PROVE CycleTruth'
    <3>1. Resting BY <1>1, <2>4, CycleAt DEF RelayGive
    <3>2. pc'["cycle"] = Apply
      <4>1. Jump("cycle", Apply) /\ Head(pc["cycle"]) \in Bottoms
        BY <1>1 DEF RelayGive, Apply, At, Bottoms
      <4> QED BY <1>0, <4>1, ApplyOK, ReplaceStep
    <3>3. UNCHANGED <<wstate, started, spawning, users>> BY <1>1 DEF RelayGive, genVars
    <3> QED BY <3>1, <3>2, <3>3 DEF Resting, Settled, Fresh, LoadOn, CycleTruth, Starting
  <2> QED BY <2>3, <2>4 DEF TruthInv
<1>2. CASE Exit("relay")
  <2>1. Others("relay") /\ UNCHANGED <<cancelFn, extDone>>
    BY <1>0, <1>2, JumpOthers DEF Exit, ctxVars, boundVars
  <2>2. pc'["cycle"] = pc["cycle"] BY <2>1 DEF Others, Procs
  <2>3. Phases' /\ Quitting' /\ Calm' = Calm BY <2>1, <2>2, OthersStay
  <2>4. CycleTruth => CycleTruth' BY <1>2, <2>2, TruthKept DEF Exit, cycVars, genVars
  <2> QED BY <2>3, <2>4 DEF TruthInv
<1> QED BY <1>1, <1>2

\* The message loop, while it calls nothing: nothing changes for the others.
LEMMA MsgTruth ==
  ASSUME IndInv, TruthInv, Master \/ RecvFails \/ Reopen \/ RelayTake
  PROVE  TruthInv'
<1>0. Control /\ "msg" \in Procs /\ "recv" \in Bottoms BY DEF IndInv, Procs, Bottoms
<1>1. Head(pc["msg"]) \in {"recv", "offer", "reopen"}
  BY DEF Master, RecvAck, RecvStop, RecvReconnect, RecvQuit, RecvGarbage, RecvSpawn, Receive, RecvFails,
         Reopen, RelayTake, At
<1>2. UNCHANGED <<cancelFn, extDone, wstate, started, spawning, target, users, capArg, cur>>
  <2>1. CASE RecvAck BY <2>1 DEF RecvAck, ctxVars, genVars, cycVars
  <2>2. ASSUME NEW s \in Spawns, RecvSpawn(s)
        PROVE  UNCHANGED <<cancelFn, extDone, wstate, started, spawning, target, users, capArg, cur>>
    BY <2>2 DEF RecvSpawn, ctxVars, genVars, cycVars
  <2>3. CASE RecvStop BY <2>3 DEF RecvStop, ctxVars, genVars, cycVars
  <2>4. CASE RecvReconnect BY <2>4 DEF RecvReconnect, ctxVars, genVars, cycVars
  <2>5. CASE RecvQuit BY <2>5 DEF RecvQuit, ctxVars, genVars, cycVars
  <2>6. CASE RecvGarbage BY <2>6 DEF RecvGarbage, ctxVars, genVars, cycVars
  <2>7. CASE RecvFails BY <2>7 DEF RecvFails, ctxVars, genVars, cycVars, boundVars
  <2>8. CASE Reopen BY <2>8 DEF Reopen, ctxVars, genVars, cycVars, boundVars
  <2>9. CASE RelayTake BY <2>9 DEF RelayTake, ctxVars, genVars, cycVars, boundVars
  <2> QED BY <2>1, <2>2, <2>3, <2>4, <2>5, <2>6, <2>7, <2>8, <2>9 DEF Master
<1>3. Others("msg") /\ (Len(pc'["msg"]) >= 2 =>
        /\ Below(pc'["msg"]) \in {"offer", "reopen", "quit", "cancel"}
        /\ Below(pc'["msg"]) = "cancel" => Dead)
  <2>a. ASSUME NEW l \in {"offer", "reopen", "quit"}, NEW b \in Bottoms, At("msg", "recv"),
               Jump("msg", <<l, b>>)
        PROVE  Others("msg") /\ Below(pc'["msg"]) = l
    <3>1. l \in Labels \ Bottoms BY DEF Labels, Bottoms
    <3>2. StackOK(<<l, b>>) BY <3>1, TwoLabels
    <3>3. pc'["msg"] = <<l, b>> /\ Others("msg") BY <1>0, <2>a, <3>2, ReplaceStep DEF At
    <3>4. Below(<<l, b>>) = l BY DEF Below
    <3> QED BY <3>3, <3>4
  <2>b. ASSUME pc' = pc
        PROVE  Others("msg") /\ (Len(pc'["msg"]) >= 2 =>
                 /\ Below(pc'["msg"]) \in {"offer", "reopen", "quit", "cancel"}
                 /\ Below(pc'["msg"]) = "cancel" => Dead)
    BY <2>b DEF Others, TruthInv, Quitting
  <2>c. ASSUME Head(pc["msg"]) \in {"offer", "reopen"}, Return("msg")
        PROVE  Others("msg") /\ (Len(pc'["msg"]) >= 2 =>
                 /\ Below(pc'["msg"]) \in {"offer", "reopen", "quit", "cancel"}
                 /\ Below(pc'["msg"]) = "cancel" => Dead)
    <3>1. Head(pc["msg"]) \notin Bottoms /\ StackOK(pc["msg"]) BY <1>0, <2>c DEF Bottoms, Control
    <3>2. pc'["msg"] = Tail(pc["msg"]) /\ Others("msg") BY <1>0, <2>c, <3>1, ReturnStep
    <3>3. /\ Len(pc["msg"]) \in Nat /\ Len(pc["msg"]) >= 2 /\ Len(pc'["msg"]) = Len(pc["msg"]) - 1
          /\ Len(pc["msg"]) >= 3 => Below(pc'["msg"]) = Below(pc["msg"])
      BY <3>1, <3>2, PopBelow
    <3> DEFINE n == Len(pc["msg"])
    <3>4. Len(pc'["msg"]) >= 2 => n >= 3 /\ n >= 2
      <4>1. n \in Nat /\ Len(pc'["msg"]) = n - 1 BY <3>3
      <4> HIDE DEF n
      <4> QED BY <4>1
    <3> QED BY <3>2, <3>3, <3>4 DEF TruthInv, Quitting
  <2>d. "recv" \in Bottoms /\ "exited" \in Bottoms BY DEF Bottoms
  <2>1. CASE RecvAck BY <2>1, <2>b DEF RecvAck
  <2>2. ASSUME NEW s \in Spawns, RecvSpawn(s)
        PROVE  Others("msg") /\ (Len(pc'["msg"]) >= 2 =>
                 /\ Below(pc'["msg"]) \in {"offer", "reopen", "quit", "cancel"}
                 /\ Below(pc'["msg"]) = "cancel" => Dead)
    <3>1. CASE s.ts > last BY <2>2, <2>a, <2>d, <3>1 DEF RecvSpawn, Receive
    <3>2. CASE ~(s.ts > last) BY <2>2, <2>b, <3>2 DEF RecvSpawn
    <3> QED BY <3>1, <3>2
  <2>3. CASE RecvStop BY <2>3, <2>b DEF RecvStop
  <2>4. CASE RecvReconnect BY <2>4, <2>a, <2>d DEF RecvReconnect, Receive
  <2>5. CASE RecvQuit
    <3>1. StackOK(<<"stop", "quit", "recv">>) BY ThreeLabels DEF Bottoms, Calls, Labels
    <3>2. pc'["msg"] = <<"stop", "quit", "recv">> /\ Others("msg")
      BY <1>0, <2>5, <3>1, ReplaceStep DEF RecvQuit, Receive, At
    <3>3. Below(<<"stop", "quit", "recv">>) = "quit" BY DEF Below
    <3> QED BY <3>2, <3>3
  <2>6. CASE RecvGarbage BY <2>6, <2>a, <2>d DEF RecvGarbage, Receive
  <2>7. CASE RecvFails BY <2>7, <2>a, <2>d DEF RecvFails
  <2>8. CASE Reopen BY <2>8, <2>c DEF Reopen, At
  <2>9. CASE RelayTake BY <2>9, <2>c DEF RelayTake, At
  <2> QED BY <2>1, <2>2, <2>3, <2>4, <2>5, <2>6, <2>7, <2>8, <2>9 DEF Master
<1>4. /\ pc'["join"] = pc["join"] /\ pc'["cycle"] = pc["cycle"] /\ pc'["hb"] = pc["hb"]
      /\ pc'["ext"] = pc["ext"]
  BY <1>3 DEF Others, Procs
<1>5. ~Early
  <2>1. Head(<<"none">>) = "none" OBVIOUS
  <2> QED BY <1>1, <2>1 DEF TruthInv, Phases
<1>6. Phases' BY <1>4, <1>5 DEF TruthInv, Phases, Early, Before
<1>7. Quitting' BY <1>2, <1>3, <1>4 DEF TruthInv, Quitting, Dead, Early
<1>8. Calm' => Calm BY <1>1, <1>2, <1>4 DEF Calm, Early
<1>9. CycleTruth => CycleTruth' BY <1>2, <1>4, TruthKept
<1> QED BY <1>6, <1>7, <1>8, <1>9 DEF TruthInv

-----------------------------------------------------------------------------
\* Join moves and starts nobody.
LEMMA JoinMoves ==
  ASSUME IndInv, TruthInv, NEW l \in Bottoms, NEW m \in Bottoms, At("join", l), Jump("join", <<m>>),
         UNCHANGED <<extDone, wstate, started, spawning, target, users, capArg, cur>>,
         \/ l \in {"begin", "open", "store"} /\ m \in {"begin", "open", "store"}
         \/ /\ m \notin {"begin", "open", "store"} /\ cancelFn' = cancelFn
            /\ m = "ack" => l = "connect"
            /\ m # "connect"
  PROVE  TruthInv'
<1>1. Control /\ "join" \in Procs /\ StackOK(<<m>>) /\ Head(<<m>>) = m BY OneLabel DEF IndInv, Procs
<1>2. pc'["join"] = <<m>> /\ Others("join") /\ Head(pc["join"]) = l BY <1>1, ReplaceStep DEF At
<1>3. /\ pc'["msg"] = pc["msg"] /\ pc'["cycle"] = pc["cycle"] /\ pc'["hb"] = pc["hb"]
      /\ pc'["ext"] = pc["ext"]
  BY <1>2 DEF Others, Procs
<1>4. Head(pc'["join"]) = m BY <1>1, <1>2
<1>5. (Early' => Early) /\ (Before' => Before) BY <1>2, <1>4 DEF Early, Before
<1>6. Phases' BY <1>3, <1>5 DEF TruthInv, Phases
<1>7. (Early /\ Early') \/ (~Early' /\ cancelFn' = cancelFn) BY <1>2, <1>4 DEF Early
<1>8. Dead => Dead' BY <1>7 DEF Dead
<1>9. Quitting' BY <1>3, <1>8 DEF TruthInv, Quitting
<1>10. Calm' => Calm BY <1>3, <1>7 DEF Calm
<1>11. CycleTruth => CycleTruth' BY <1>3, TruthKept
<1> QED BY <1>6, <1>9, <1>10, <1>11 DEF TruthInv

\* It starts the message loop, and the others when the master has acknowledged the worker.
LEMMA JoinStarts ==
  ASSUME IndInv, TruthInv, JoinStore \/ JoinAcked
  PROVE  TruthInv'
<1>0. /\ Head(<<"connect">>) = "connect" /\ Head(<<"recv">>) = "recv" /\ Head(<<"none">>) = "none"
      /\ Head(<<"procs">>) = "procs" /\ Len(<<"recv">>) = 1 /\ Len(<<"loop">>) = 1
  OBVIOUS
<1>1. CASE JoinStore
  <2>1. Early BY <1>1 DEF JoinStore, At, Early
  <2>2. pc["msg"] = <<"none">> /\ pc["cycle"] = <<"none">> /\ pc["hb"] = <<"none">>
    BY <2>1 DEF TruthInv, Phases, Early, Before
  <2>3. /\ pc'["join"] = <<"connect">> /\ pc'["msg"] = <<"recv">> /\ pc'["cycle"] = pc["cycle"]
        /\ pc'["hb"] = pc["hb"] /\ pc'["ext"] = pc["ext"]
    BY <1>1 DEF JoinStore, IndInv, Control, Procs
  <2>4. UNCHANGED <<extDone, wstate, started, spawning, target, users, capArg, cur>>
    BY <1>1 DEF JoinStore, cycVars, genVars, boundVars
  <2>5. ~Early' BY <1>0, <2>3 DEF Early
  <2>6. Phases' BY <2>2, <2>3, <2>5 DEF Phases
  <2>7. Len(pc'["msg"]) = 1 BY <1>0, <2>3
  <2>8. ~(Len(pc'["msg"]) >= 2) BY <2>7
  <2>9. ~Dead BY <2>1 DEF Dead
  <2>10. Quitting' BY <2>3, <2>4, <2>8, <2>9 DEF TruthInv, Quitting
  <2>11. Calm' => Calm BY <1>0, <2>1, <2>2, <2>4 DEF Calm
  <2>12. CycleTruth => CycleTruth' BY <2>3, <2>4, TruthKept
  <2> QED BY <2>6, <2>10, <2>11, <2>12 DEF TruthInv
<1>2. CASE JoinAcked
  <2>1. Before /\ ~Early BY <1>2 DEF JoinAcked, At, Early, Before
  <2>2. pc["cycle"] = <<"none">> /\ pc["hb"] = <<"none">> BY <2>1 DEF TruthInv, Phases
  <2>3. /\ pc'["join"] = <<"procs">> /\ pc'["msg"] = pc["msg"] /\ pc'["cycle"] = <<"loop">>
        /\ pc'["hb"] = <<"loop">> /\ pc'["ext"] = pc["ext"]
    BY <1>2 DEF JoinAcked, Procs
  <2>4. UNCHANGED <<cancelFn, extDone, wstate, started, spawning, target, users, capArg, cur>>
    BY <1>2 DEF JoinAcked, ctxVars, cycVars, genVars, boundVars
  <2>5. ~Early' /\ ~Before' BY <1>0, <2>3 DEF Early, Before
  <2>6. Phases' BY <2>5 DEF Phases
  <2>7. Len(pc'["hb"]) = 1 BY <1>0, <2>3
  <2>8. ~(Len(pc'["hb"]) >= 2) BY <2>7
  <2>9. Dead' = Dead BY <2>1, <2>4, <2>5 DEF Dead
  <2>10. Quitting' BY <2>3, <2>4, <2>8, <2>9 DEF TruthInv, Quitting
  <2>11. Calm' => Calm BY <2>3, <2>4, <2>5 DEF Calm
  <2>12. ASSUME CycleTruth PROVE CycleTruth'
    <3>1. Resting BY <1>0, <2>2, <2>12, CycleAt DEF At
    <3> QED BY <2>3, <2>4, <3>1 DEF Resting, Settled, Fresh, LoadOn, CycleTruth
  <2> QED BY <2>6, <2>10, <2>11, <2>12 DEF TruthInv
<1> QED BY <1>1, <1>2

LEMMA JoinTruth ==
  ASSUME IndInv, TruthInv, Join
  PROVE  TruthInv'
<1> USE DEF cycVars, genVars, boundVars, ctxVars
<1>a. CloseAndFail => Jump("join", <<"failed">>) BY DEF CloseAndFail
<1>b. {"begin", "open", "store", "connect", "ack", "procs", "close", "wait", "done", "failed"}
        \subseteq Bottoms
  BY DEF Bottoms
<1>1. CASE JoinBegin BY <1>1, <1>b, JoinMoves DEF JoinBegin
<1>2. CASE JoinOpen
  <2>1. CASE Jump("join", <<"store">>) BY <1>2, <1>b, <2>1, JoinMoves DEF JoinOpen
  <2>2. CASE Jump("join", <<"failed">>) BY <1>2, <1>b, <2>2, JoinMoves DEF JoinOpen
  <2> QED BY <1>2, <2>1, <2>2 DEF JoinOpen
<1>3. CASE JoinConnect
  <2>1. CASE Jump("join", <<"ack">>) BY <1>3, <1>b, <2>1, JoinMoves DEF JoinConnect
  <2>2. CASE Jump("join", <<"failed">>) BY <1>3, <1>b, <2>2, JoinMoves DEF JoinConnect
  <2> QED BY <1>3, <1>a, <2>1, <2>2 DEF JoinConnect
<1>4. CASE JoinGivesUp BY <1>4, <1>a, <1>b, JoinMoves DEF JoinGivesUp
<1>5. CASE JoinSendQuit
  <2>1. CASE Jump("join", <<"close">>) BY <1>5, <1>b, <2>1, JoinMoves DEF JoinSendQuit
  <2>2. CASE Jump("join", <<"failed">>) BY <1>5, <1>b, <2>2, JoinMoves DEF JoinSendQuit
  <2> QED BY <1>5, <1>a, <2>1, <2>2 DEF JoinSendQuit
<1>6. CASE JoinClose BY <1>6, <1>b, JoinMoves DEF JoinClose
<1>7. CASE JoinDone BY <1>7, <1>b, JoinMoves DEF JoinDone
<1> QED BY <1>1, <1>2, <1>3, <1>4, <1>5, <1>6, <1>7, JoinStarts DEF Join

\* A user ends, the master's heartbeats have stopped, the check ends, the program calls.
LEMMA OtherTruth ==
  ASSUME IndInv, TruthInv,
         UserEnds \/ HeartbeatExpires \/ Exit("hb") \/ \E call \in ExtCalls : ExtCall(call)
  PROVE  TruthInv'
<1>0. Control /\ "hb" \in Procs /\ "ext" \in Procs BY DEF IndInv, Procs
<1>1. CASE UserEnds
  <2>1. users # 0 /\ UNCHANGED <<pc, cancelFn, extDone, wstate, started, spawning, target, capArg, cur>>
    BY <1>1 DEF UserEnds, ctxVars, cycVars, boundVars
  <2>2. Phases' /\ Quitting' /\ Calm' = Calm
    BY <2>1 DEF TruthInv, Phases, Quitting, Calm, Dead, Early, Before
  <2>3. ~Fresh BY <2>1 DEF Fresh
  <2>4. Resting => Resting' BY <2>1, <2>3 DEF Resting, Settled, LoadOn
  <2>5. Starting => Starting' BY <2>1, <2>3 DEF Starting, Settled, LoadOn
  <2>6. Spawning => Spawning' BY <2>1 DEF Spawning, LoadOn
  <2>7. Stopping => Stopping' BY <2>1, <2>3 DEF Stopping
  <2> QED BY <2>1, <2>2, <2>4, <2>5, <2>6, <2>7 DEF TruthInv, CycleTruth
<1>2. CASE HeartbeatExpires \/ Exit("hb")
  <2>1. UNCHANGED <<cancelFn, extDone, wstate, started, spawning, target, users, capArg, cur>>
    BY <1>2 DEF HeartbeatExpires, Exit, ctxVars, cycVars, genVars, boundVars
  <2>2. Head(pc["hb"]) = "loop" BY <1>2 DEF HeartbeatExpires, Exit, At
  <2>3. Others("hb") /\ (Len(pc'["hb"]) >= 2 => Below(pc'["hb"]) = "quit" /\ Len(pc'["hb"]) = 2)
    <3>1. CASE HeartbeatExpires
      <4>1. StackOK(<<"quit", "exited">>) BY TwoLabels DEF Bottoms, Labels
      <4>2. pc'["hb"] = <<"quit", "exited">> /\ Others("hb")
        BY <1>0, <2>2, <3>1, <4>1, ReplaceStep DEF HeartbeatExpires, Bottoms
      <4>3. Below(<<"quit", "exited">>) = "quit" /\ Len(<<"quit", "exited">>) = 2 BY DEF Below
      <4> QED BY <4>2, <4>3
    <3>2. CASE Exit("hb")
      <4>1. StackOK(<<"exited">>) BY OneLabel DEF Bottoms
      <4>2. pc'["hb"] = <<"exited">> /\ Others("hb")
        BY <1>0, <2>2, <3>2, <4>1, ReplaceStep DEF Exit, Bottoms
      <4>3. Len(<<"exited">>) = 1 OBVIOUS
      <4>4. Len(pc'["hb"]) = 1 BY <4>2, <4>3
      <4>5. ~(Len(pc'["hb"]) >= 2) BY <4>4
      <4> QED BY <4>2, <4>5
    <3> QED BY <1>2, <3>1, <3>2
  <2>4. /\ pc'["join"] = pc["join"] /\ pc'["msg"] = pc["msg"] /\ pc'["cycle"] = pc["cycle"]
        /\ pc'["ext"] = pc["ext"]
    BY <2>3 DEF Others, Procs
  <2>5. ~Before
    <3>1. Head(<<"none">>) = "none" OBVIOUS
    <3> QED BY <2>2, <3>1 DEF TruthInv, Phases
  <2>6. Phases' BY <2>4, <2>5 DEF TruthInv, Phases, Early, Before
  <2>7. Quitting' BY <2>1, <2>3, <2>4 DEF TruthInv, Quitting, Dead, Early
  <2>8. Calm' = Calm BY <2>1, <2>4 DEF Calm, Early
  <2>9. CycleTruth => CycleTruth' BY <2>1, <2>4, TruthKept
  <2> QED BY <2>6, <2>7, <2>8, <2>9 DEF TruthInv
<1>3. ASSUME NEW call \in ExtCalls, ExtCall(call) PROVE TruthInv'
  <2>1. extDone \in Nat BY WorkerAssumption DEF IndInv, Types
  <2>2. extDone' # 0 BY <1>3, <2>1 DEF ExtCall
  <2>3. Others("ext") /\ cancelFn' = cancelFn BY <1>0, <1>3, JumpOthers DEF ExtCall, ctxVars
  <2>4. /\ pc'["join"] = pc["join"] /\ pc'["msg"] = pc["msg"] /\ pc'["cycle"] = pc["cycle"]
        /\ pc'["hb"] = pc["hb"]
    BY <2>3 DEF Others, Procs
  <2>5. Phases' BY <2>4 DEF TruthInv, Phases, Early, Before
  <2>6. Quitting' BY <2>2, <2>3, <2>4 DEF TruthInv, Quitting, Dead, Early
  <2>7. ~Calm' BY <2>2 DEF Calm
  <2> QED BY <2>5, <2>6, <2>7 DEF TruthInv
<1> QED BY <1>1, <1>2, <1>3

-----------------------------------------------------------------------------
LEMMA InitTruth == Init => TruthInv
<1> SUFFICES ASSUME Init PROVE TruthInv OBVIOUS
<1>1. /\ pc["join"] = <<"begin">> /\ pc["msg"] = <<"none">> /\ pc["cycle"] = <<"none">>
      /\ pc["hb"] = <<"none">> /\ pc["ext"] = <<"idle">>
  BY DEF Init, Procs
<1>2. Len(<<"none">>) = 1 OBVIOUS
<1>3. ~(Len(pc["msg"]) >= 2) /\ ~(Len(pc["hb"]) >= 2)
  <2>1. Len(pc["msg"]) = 1 /\ Len(pc["hb"]) = 1 BY <1>1, <1>2
  <2> QED BY <2>1
<1>4. Phases BY <1>1 DEF Phases
<1>5. Quitting BY <1>1, <1>3 DEF Quitting
<1>6. CycleTruth BY <1>1 DEF Init, CycleTruth, Resting, Settled, Fresh
<1> QED BY <1>4, <1>5, <1>6 DEF TruthInv

LEMMA TruthInvariance == IndInv /\ TruthInv /\ [Next]_vars => TruthInv'
<1> SUFFICES ASSUME IndInv, TruthInv, [Next]_vars PROVE TruthInv' OBVIOUS
<1>1. CASE Join BY <1>1, JoinTruth
<1>2. CASE Master \/ RecvFails \/ Reopen \/ RelayTake BY <1>2, MsgTruth
<1>3. CASE RelayGive BY <1>3, RelayTruth
<1>4. CASE Cycle BY <1>4, CycleStepTruth
<1>5. CASE UserEnds \/ HeartbeatExpires BY <1>5, OtherTruth
<1>6. ASSUME NEW p \in {"relay", "cycle", "hb"}, Exit(p) PROVE TruthInv'
  <2>1. CASE p = "relay" BY <1>6, <2>1, RelayTruth
  <2>2. CASE p = "cycle" BY <1>6, <2>2, CycleStepTruth
  <2>3. CASE p = "hb" BY <1>6, <2>3, OtherTruth
  <2> QED BY <2>1, <2>2, <2>3
<1>7. ASSUME NEW p \in Stoppers, StopCall(p) PROVE TruthInv'
  <2>1. CASE p = "cycle" BY <1>7, <2>1, CycleStepTruth
  <2>2. CASE p \in Quitters BY <1>7, <2>2, CallTruth
  <2> QED BY <2>1, <2>2 DEF Stoppers
<1>8. ASSUME NEW p \in Quitters, QuitCall(p) PROVE TruthInv' BY <1>8, CallTruth
<1>9. CASE \E call \in ExtCalls : ExtCall(call) BY <1>9, OtherTruth
<1>10. CASE UNCHANGED vars
  <2>1. UNCHANGED <<pc, cancelFn, extDone, wstate, started, spawning, target, users, capArg, cur>>
    BY <1>10 DEF vars, ctxVars, cycVars, genVars, boundVars
  <2>2. Phases' /\ Quitting' /\ Calm' = Calm
    BY <2>1 DEF TruthInv, Phases, Quitting, Calm, Dead, Early, Before
  <2>3. CycleTruth => CycleTruth' BY <2>1, TruthKept
  <2> QED BY <2>2, <2>3 DEF TruthInv
<1> QED BY <1>1, <1>2, <1>3, <1>4, <1>5, <1>6, <1>7, <1>8, <1>9, <1>10 DEF Next, Relay

(***************************************************************************)
(* The generator is where the label of the cycle says it is, as long as    *)
(* no other goroutine has begun to stop or to quit (worker.go:560-619).    *)
(***************************************************************************)
THEOREM TruthSafety == Spec => []TruthInv
BY InitTruth, TruthInvariance, Safety, PTL DEF Spec

(***************************************************************************)
(* Between commands the state reported to the master tells the truth about *)
(* the generator (worker.go:570-603), whatever the order of spawns and     *)
(* stops and whichever OnTestStart fails: Running means the manager runs   *)
(* towards the last spawn, Init means nothing runs.                        *)
(***************************************************************************)
THEOREM TellsTruth == Spec => []StateTellsTruth
<1>1. TruthInv => StateTellsTruth
  <2> SUFFICES ASSUME TruthInv, Undisturbed, At("cycle", "loop")
               PROVE  /\ wstate = "Running" => started /\ spawning /\ target = cur.n
                      /\ wstate = "Init" => ~started /\ ~spawning /\ users = 0
    BY DEF StateTellsTruth
  <2>1. Calm BY DEF Undisturbed, Calm, At
  <2>2. Resting BY <2>1, CycleAt DEF TruthInv
  <2> QED BY <2>2 DEF Resting, Settled, Fresh, LoadOn
<1> QED BY <1>1, TruthSafety, PTL
=============================================================================
