---------------------------- MODULE TaskSetProofs ----------------------------
(***************************************************************************)
(* Proofs about a user and its task sets, for every tree of sets, every    *)
(* tagging and every value of the bounds.                                  *)
(*                                                                         *)
(* For most of them what the filters compute does not matter: a frame is   *)
(* known by where it is and by what it will return.  What they compute is  *)
(* the second half: the recursion over the tree, and what follows for a    *)
(* frame.                                                                  *)
(***************************************************************************)
EXTENDS TaskSetProps, Induction, SequenceTheorems

Outs == {"ok", "now", "stopUser", "canceled"}
FrameOK(f) ==
  /\ "at" \in DOMAIN f /\ "out" \in DOMAIN f
  /\ f.at = "onStop" => f.out \in Outs

\* A call stack: all frames but the innermost are waiting for the one within.
Calls(s) ==
  /\ \E F : s \in Seq(F)
  /\ \A i \in 1 .. Len(s) : FrameOK(s[i]) /\ (i > 1 => s[i].at = "task")

\* The sets on the stack that were started.
Started(s) == IF s = <<>> THEN 0 ELSE Len(s) - (IF s[1].at = "onStart" THEN 1 ELSE 0)

\* Where the user is, and what its stack may be there.
ControlInv ==
  /\ at \in {"onStart", "loop", "process", "onStop", "gone"}
  /\ catch \in BOOLEAN
  /\ Calls(stack)
  /\ at # "process" => stack = <<>> /\ ret = "none"
  /\ ret \in Results \cup {"none"}
  /\ ret \in {"interrupt", "interruptNow"} => stack # <<>>
  /\ ret # "none" /\ stack # <<>> => stack[1].at = "task"

\* What was begun after the stop, and what still can be.
LateInv ==
  /\ late \in 0 .. 1
  /\ ~soft => late = 0
  /\ soft /\ stack # <<>> /\ stack[1].at = "pick" => late = 0

\* An exception that is not caught leaves sets open, until the user is gone.
OpenInv ==
  /\ \/ opened = Started(stack)
     \/ ~catch /\ ret = "error"
     \/ ~catch /\ at = "gone" /\ err = "error"
  /\ at # "gone" => open = 1
  /\ open = 0 \/ (open = 1 /\ (at = "gone" => err = "error"))

ErrorInv == raised \in Nat /\ reported \in Nat /\ ErrorsReportedOnce

IndInv == ControlInv /\ LateInv /\ OpenInv /\ ErrorInv /\ GraceKept

-----------------------------------------------------------------------------
\* What the helpers on frames do to a call stack.
LEMMA CallsEmpty == Calls(<<>>)
BY DEF Calls

LEMMA CallsOne ==
  ASSUME NEW f, FrameOK(f)
  PROVE  Calls(<<f>>)
<1>1. <<f>> \in Seq({f}) /\ Len(<<f>>) = 1 /\ <<f>>[1] = f
  OBVIOUS
<1>2. \E F : <<f>> \in Seq(F)
  BY <1>1
<1>3. \A i \in 1 .. Len(<<f>>) : i = 1
  BY <1>1
<1>4. QED
  BY <1>1, <1>2, <1>3 DEF Calls

LEMMA CallsTail ==
  ASSUME NEW s, Calls(s), s # <<>>
  PROVE  /\ Calls(Tail(s)) /\ Head(s) = s[1] /\ FrameOK(s[1])
         /\ Tail(s) # <<>> => Tail(s)[1].at = "task"
         /\ Started(Tail(s)) = Len(s) - 1
<1>1. PICK F : s \in Seq(F)
  BY DEF Calls
<1>2. /\ Len(s) \in Nat \ {0} /\ Head(s) = s[1]
      /\ Tail(s) \in Seq(F) /\ Len(Tail(s)) = Len(s) - 1
      /\ \A i \in 1 .. Len(s) - 1 : Tail(s)[i] = s[i + 1]
  BY <1>1
<1>3. \A i \in 1 .. Len(Tail(s)) : FrameOK(Tail(s)[i]) /\ Tail(s)[i].at = "task"
  BY <1>2 DEF Calls
<1>4. Tail(s) # <<>> => 1 \in 1 .. Len(Tail(s))
  BY <1>2
<1>5. Tail(s) = <<>> => Len(Tail(s)) = 0
  OBVIOUS
<1>6. FrameOK(s[1])
  BY <1>2 DEF Calls
<1>7. Calls(Tail(s))
  <2>1. \E G : Tail(s) \in Seq(G)
    BY <1>2
  <2>2. QED
    BY <2>1, <1>3 DEF Calls
<1>8. Tail(s) # <<>> => Tail(s)[1].at = "task"
  BY <1>3, <1>4
<1>9. Started(Tail(s)) = Len(s) - 1
  <2> DEFINE t == Tail(s)
  <2>1. (t = <<>> => Len(t) = 0) /\ (t # <<>> => t[1].at = "task") /\ Len(t) = Len(s) - 1
    BY <1>2, <1>5, <1>8
  <2>2. Len(s) - 1 \in Nat
    BY <1>2
  <2> HIDE DEF t
  <2>3. Started(t) = Len(t)
    BY <2>1, <2>2 DEF Started
  <2>4. QED
    BY <2>1, <2>3 DEF t
<1>10. QED
  BY <1>2, <1>6, <1>7, <1>8, <1>9

LEMMA CallsMove ==
  ASSUME NEW s, Calls(s), s # <<>>, NEW f, FrameOK(f)
  PROVE  /\ Calls(<<f>> \o Tail(s)) /\ <<f>> \o Tail(s) # <<>> /\ (<<f>> \o Tail(s))[1] = f
         /\ Started(<<f>> \o Tail(s)) = Len(s) - (IF f.at = "onStart" THEN 1 ELSE 0)
<1>1. PICK F : s \in Seq(F)
  BY DEF Calls
<1> DEFINE t == <<f>> \o Tail(s)
<1>2. Tail(s) \in Seq(F) /\ Len(s) \in Nat \ {0} /\ Len(Tail(s)) = Len(s) - 1
  BY <1>1
<1>3. Tail(s) \in Seq(F \cup {f}) /\ <<f>> \in Seq(F \cup {f}) /\ Len(<<f>>) = 1
  BY <1>2
<1>4. t \in Seq(F \cup {f}) /\ Len(t) = Len(s) /\ t[1] = f
  BY <1>2, <1>3
<1>5. \A i \in 2 .. Len(s) : t[i] = s[i]
  BY <1>1, <1>2, <1>3
<1>6. t # <<>>
  BY <1>2, <1>4
<1>7. \A i \in 1 .. Len(t) : FrameOK(t[i]) /\ (i > 1 => t[i].at = "task")
  BY <1>4, <1>5, <1>2 DEF Calls
<1>8. Calls(t)
  <2>1. \E G : t \in Seq(G)
    BY <1>4
  <2>2. QED
    BY <2>1, <1>7 DEF Calls
<1>9. Started(t) = Len(s) - (IF f.at = "onStart" THEN 1 ELSE 0)
  BY <1>4, <1>6 DEF Started
<1>10. QED
  BY <1>4, <1>6, <1>8, <1>9

LEMMA CallsPush ==
  ASSUME NEW s, Calls(s), s # <<>>, NEW f, FrameOK(f), f.at = "task", NEW g, FrameOK(g)
  PROVE  /\ Calls(<<g, f>> \o Tail(s)) /\ <<g, f>> \o Tail(s) # <<>>
         /\ (<<g, f>> \o Tail(s))[1] = g
         /\ g.at = "onStart" => Started(<<g, f>> \o Tail(s)) = Len(s)
<1>1. PICK F : s \in Seq(F)
  BY DEF Calls
<1> DEFINE t == <<g, f>> \o Tail(s)
<1>2. Tail(s) \in Seq(F) /\ Len(s) \in Nat \ {0} /\ Len(Tail(s)) = Len(s) - 1
  BY <1>1
<1>3. Tail(s) \in Seq(F \cup {f, g}) /\ <<g, f>> \in Seq(F \cup {f, g}) /\ Len(<<g, f>>) = 2
  BY <1>2
<1>4. t \in Seq(F \cup {f, g}) /\ Len(t) = Len(s) + 1 /\ t[1] = g /\ t[2] = f
  BY <1>2, <1>3
<1>5. \A i \in 3 .. Len(t) : t[i] = s[i - 1]
  BY <1>1, <1>2, <1>3, <1>4
<1>6. t # <<>>
  BY <1>2, <1>4
<1>7. \A i \in 1 .. Len(t) : FrameOK(t[i]) /\ (i > 1 => t[i].at = "task")
  <2>1. \A i \in 3 .. Len(t) : i - 1 \in 1 .. Len(s) /\ i - 1 > 1
    BY <1>2, <1>4
  <2>2. QED
    BY <1>4, <1>5, <1>2, <2>1 DEF Calls
<1>8. Calls(t)
  <2>1. \E G : t \in Seq(G)
    BY <1>4
  <2>2. QED
    BY <2>1, <1>7 DEF Calls
<1>9. g.at = "onStart" => Started(t) = Len(s)
  BY <1>2, <1>4, <1>6 DEF Started
<1>10. QED
  BY <1>4, <1>6, <1>8, <1>9

\* What holds while a set runs.
LEMMA Running ==
  ASSUME IndInv, stack # <<>>
  PROVE  /\ at = "process" /\ Calls(stack) /\ Top = stack[1] /\ FrameOK(Top) /\ Len(stack) \in Nat
         /\ ret = "none" => opened = Started(stack)
         /\ Started(stack) = Len(stack) - (IF Top.at = "onStart" THEN 1 ELSE 0)
<1>1. at = "process" /\ Calls(stack)
  BY DEF IndInv, ControlInv
<1>2. Top = stack[1] /\ FrameOK(Top)
  BY <1>1, CallsTail DEF Top
<1>3. Len(stack) \in Nat
  BY <1>1 DEF Calls
<1>4. ret = "none" => opened = Started(stack)
  BY <1>1 DEF IndInv, OpenInv
<1>5. QED
  BY <1>1, <1>2, <1>3, <1>4 DEF Started

\* A change of the frame on top, which decides nothing about the user.
LEMMA MoveStep ==
  ASSUME IndInv, stack # <<>>, NEW f, FrameOK(f), Move(f), f.at # "onStart",
         Top.at # "onStart", ret' = "none", f.at = "pick" => ~soft,
         ret = "error" => catch, opened' = opened, late' = late, UNCHANGED <<optVars, ctxVars, lifeVars>>
  PROVE  ControlInv' /\ LateInv' /\ OpenInv' /\ GraceKept'
<1>1. /\ Calls(stack') /\ stack' # <<>> /\ stack'[1] = f /\ Started(stack') = Len(stack)
  BY Running, CallsMove DEF Move
<1>2. ControlInv'
  BY <1>1, Running DEF IndInv, ControlInv, lifeVars, optVars
<1>3. LateInv'
  BY <1>1 DEF IndInv, LateInv, ctxVars
<1>4. OpenInv'
  BY <1>1, Running DEF IndInv, OpenInv, lifeVars, optVars
<1>5. GraceKept'
  BY DEF IndInv, GraceKept, lifeVars, optVars, ctxVars
<1>6. QED
  BY <1>2, <1>3, <1>4, <1>5

\* The frame on top is gone.
LEMMA ReturnStep ==
  ASSUME IndInv, stack # <<>>, NEW r \in Outs \cup {"error"}, Return(r),
         late' = late, UNCHANGED <<optVars, ctxVars, lifeVars>>
  PROVE  /\ ControlInv' /\ LateInv' /\ GraceKept'
         /\ Started(stack') = Len(stack) - 1
<1>1. /\ Calls(stack') /\ (stack' # <<>> => stack'[1].at = "task")
      /\ Started(stack') = Len(stack) - 1
  BY Running, CallsTail DEF Return
<1>2. ControlInv'
  BY <1>1, Running DEF IndInv, ControlInv, Return, Outs, Results, Outcomes, lifeVars, optVars
<1>3. LateInv'
  BY <1>1 DEF IndInv, LateInv, ctxVars
<1>4. GraceKept'
  BY DEF IndInv, GraceKept, lifeVars, optVars, ctxVars
<1>5. QED
  BY <1>1, <1>2, <1>3, <1>4

-----------------------------------------------------------------------------
\* The program.
LEMMA SetOnStartStep ==
  ASSUME IndInv, NEW r \in Results, SetOnStart(r)
  PROVE  IndInv'
<1>1. stack # <<>> /\ ret = "none" /\ Top.at = "onStart"
  BY DEF SetOnStart, Busy
<1>2. ErrorInv /\ late' = late /\ UNCHANGED <<optVars, ctxVars, lifeVars, reported>>
  BY DEF IndInv, SetOnStart
<1>3. CASE r = "ok" /\ ~hard
  <2> DEFINE f == [Top EXCEPT !.at = "check"]
  <2>1. stack' = <<f>> \o Tail(stack) /\ opened' = opened + 1 /\ ret' = "none"
    BY <1>1, <1>3 DEF SetOnStart, MoveTo, Move
  <2>2. FrameOK(f) /\ f.at = "check"
    BY <1>1, Running DEF FrameOK
  <2>3. Calls(stack') /\ stack' # <<>> /\ stack'[1] = f /\ Started(stack') = Len(stack)
    <3> HIDE DEF f
    <3> QED BY <1>1, <2>1, <2>2, Running, CallsMove
  <2>4. ControlInv'
    BY <1>1, <1>2, <2>1, <2>3, Running DEF IndInv, ControlInv, lifeVars, optVars
  <2>5. LateInv'
    BY <1>2, <2>2, <2>3 DEF IndInv, LateInv, ctxVars
  <2>6. OpenInv'
    BY <1>1, <1>2, <2>1, <2>3, Running DEF IndInv, OpenInv, lifeVars, optVars
  <2>7. ErrorInv'
    BY <1>1, <1>2, <1>3, <2>1 DEF SetOnStart, Raise, ErrorInv, ErrorsReportedOnce
  <2>8. GraceKept'
    BY <1>2 DEF IndInv, GraceKept, lifeVars, optVars, ctxVars
  <2>9. QED
    BY <2>4, <2>5, <2>6, <2>7, <2>8 DEF IndInv
<1>4. CASE ~(r = "ok" /\ ~hard)
  <2> DEFINE q == IF r = "ok" THEN "canceled" ELSE Interrupted(r)
  <2>1. Return(q) /\ opened' = opened /\ q \in Outs \cup {"error"} /\ (q = "error" <=> r = "error")
    BY <1>4 DEF SetOnStart, LeaveUnstarted, Interrupted, Results, Outcomes, Outs
  <2>2. ControlInv' /\ LateInv' /\ GraceKept' /\ Started(stack') = Len(stack) - 1
    <3> HIDE DEF q
    <3> QED BY <1>1, <1>2, <2>1, ReturnStep
  <2>3. OpenInv'
    BY <1>1, <1>2, <2>1, <2>2, Running DEF IndInv, OpenInv, lifeVars, optVars
  <2>4. ErrorInv'
    BY <1>1, <1>2, <2>1 DEF SetOnStart, Raise, ErrorInv, ErrorsReportedOnce, Return
  <2>5. QED
    BY <2>2, <2>3, <2>4 DEF IndInv
<1>5. QED
  BY <1>3, <1>4

LEMMA LeafReturnsStep ==
  ASSUME IndInv, NEW r \in Results, LeafReturns(r)
  PROVE  IndInv'
<1>1. stack # <<>> /\ ret = "none" /\ Top.at = "task" /\ ret' = r /\ UNCHANGED <<stack, opened, late>>
  BY DEF LeafReturns, Busy
<1>2. ErrorInv /\ UNCHANGED <<optVars, ctxVars, lifeVars, reported>>
  BY DEF IndInv, LeafReturns
<1>3. ControlInv'
  BY <1>1, <1>2, Running DEF IndInv, ControlInv, lifeVars, optVars
<1>4. LateInv'
  BY <1>1, <1>2 DEF IndInv, LateInv, ctxVars
<1>5. OpenInv'
  BY <1>1, <1>2, Running DEF IndInv, OpenInv, lifeVars, optVars
<1>6. ErrorInv'
  BY <1>1, <1>2 DEF LeafReturns, Raise, ErrorInv, ErrorsReportedOnce
<1>7. GraceKept'
  BY <1>2 DEF IndInv, GraceKept, lifeVars, optVars, ctxVars
<1>8. QED
  BY <1>3, <1>4, <1>5, <1>6, <1>7 DEF IndInv

LEMMA ScheduleStep ==
  ASSUME IndInv, NEW t, NEW first, Schedule(t, first)
  PROVE  IndInv'
<1> DEFINE f == [Top EXCEPT !.queue = IF first THEN <<t>> \o @ ELSE Append(@, t)]
<1>1. /\ stack # <<>> /\ ret = "none" /\ Top.at \in {"onStart", "task"} /\ Move(f)
      /\ UNCHANGED <<userVars, run, ret, late, opened>>
  BY DEF Schedule, Busy
<1>2. UNCHANGED <<optVars, ctxVars, lifeVars, errVars>>
  BY <1>1 DEF userVars
<1>3. FrameOK(f) /\ f.at = Top.at
  BY <1>1, Running DEF FrameOK
<1>4. Calls(stack') /\ stack' # <<>> /\ stack'[1] = f /\ Started(stack') = Started(stack)
  <2> HIDE DEF f
  <2> QED BY <1>1, <1>3, Running, CallsMove DEF Move
<1>5. ControlInv'
  BY <1>1, <1>2, <1>4, Running DEF IndInv, ControlInv, lifeVars, optVars
<1>6. LateInv'
  BY <1>1, <1>2, <1>3, <1>4, Running DEF IndInv, LateInv, ctxVars
<1>7. OpenInv'
  BY <1>1, <1>2, <1>4, Running DEF IndInv, OpenInv, lifeVars, optVars
<1>8. ErrorInv'
  BY <1>1, <1>2 DEF IndInv, ErrorInv, ErrorsReportedOnce, errVars
<1>9. GraceKept'
  BY <1>2 DEF IndInv, GraceKept, lifeVars, optVars, ctxVars
<1>10. QED
  BY <1>5, <1>6, <1>7, <1>8, <1>9 DEF IndInv

LEMMA SetOnStopStep ==
  ASSUME IndInv, NEW r \in Outcomes, SetOnStop(r)
  PROVE  IndInv'
<1> DEFINE q == IF Top.out \in {"ok", "now"} /\ r \in {"stopUser", "canceled"} THEN r ELSE Top.out
<1>1. /\ stack # <<>> /\ ret = "none" /\ Top.at = "onStop" /\ Return(q) /\ opened' = opened - 1
      /\ UNCHANGED <<userVars, run, late>>
  BY DEF SetOnStop, Busy
<1>2. UNCHANGED <<optVars, ctxVars, lifeVars, errVars>>
  BY <1>1 DEF userVars
<1>3. q \in Outs
  BY <1>1, Running DEF FrameOK, Outs
<1>4. ControlInv' /\ LateInv' /\ GraceKept' /\ Started(stack') = Len(stack) - 1
  <2> HIDE DEF q
  <2> QED BY <1>1, <1>2, <1>3, ReturnStep
<1>5. OpenInv'
  BY <1>1, <1>2, <1>4, Running DEF IndInv, OpenInv, lifeVars, optVars
<1>6. ErrorInv'
  BY <1>1, <1>2, <1>3 DEF IndInv, ErrorInv, ErrorsReportedOnce, errVars, Return, Outs
<1>7. QED
  BY <1>4, <1>5, <1>6 DEF IndInv

-----------------------------------------------------------------------------
\* The library.  All these steps change the frame on top and nothing else.
LEMMA QuietMove ==
  ASSUME IndInv, stack # <<>>, ret = "none", NEW f, FrameOK(f), Move(f), f.at # "onStart",
         Top.at # "onStart", f.at = "pick" => ~soft, UNCHANGED <<userVars, run, ret, late, opened>>
  PROVE  IndInv'
<1>1. UNCHANGED <<optVars, ctxVars, lifeVars, errVars>>
  BY DEF userVars
<1>2. ControlInv' /\ LateInv' /\ OpenInv' /\ GraceKept'
  BY <1>1, MoveStep
<1>3. ErrorInv'
  BY <1>1 DEF IndInv, ErrorInv, ErrorsReportedOnce, errVars
<1>4. QED
  BY <1>2, <1>3 DEF IndInv

LEMMA MoveFacts ==
  ASSUME IndInv, stack # <<>>
  PROVE  /\ \A l \in {"check", "pick", "panic"} :
              /\ FrameOK([Top EXCEPT !.at = l])
              /\ [Top EXCEPT !.at = l].at = l
         /\ \A r \in Outs :
              /\ FrameOK([Top EXCEPT !.at = "onStop", !.task = "none", !.out = r])
              /\ [Top EXCEPT !.at = "onStop", !.task = "none", !.out = r].at = "onStop"
<1>1. FrameOK(Top)
  BY Running
<1>2. ASSUME NEW l \in {"check", "pick", "panic"}
      PROVE  FrameOK([Top EXCEPT !.at = l]) /\ [Top EXCEPT !.at = l].at = l
  BY <1>1 DEF FrameOK
<1>3. ASSUME NEW r \in Outs
      PROVE  /\ FrameOK([Top EXCEPT !.at = "onStop", !.task = "none", !.out = r])
             /\ [Top EXCEPT !.at = "onStop", !.task = "none", !.out = r].at = "onStop"
  BY <1>1 DEF FrameOK
<1>4. QED
  BY <1>2, <1>3

LEMMA SetCheckStep ==
  ASSUME IndInv, SetCheck
  PROVE  IndInv'
<1>1. /\ stack # <<>> /\ ret = "none" /\ Top.at = "check"
      /\ UNCHANGED <<userVars, run, ret, late, opened>>
  BY DEF SetCheck, Busy
<1>2. CASE MustStop
  <2> DEFINE f == [Top EXCEPT !.at = "onStop", !.task = "none", !.out = "canceled"]
  <2>1. Move(f)
    BY <1>2 DEF SetCheck, StopWith
  <2>2. FrameOK(f) /\ f.at = "onStop"
    BY <1>1, MoveFacts DEF Outs
  <2> HIDE DEF f
  <2>3. QED
    BY <1>1, <2>1, <2>2, QuietMove
<1>3. CASE ~MustStop
  <2> DEFINE f == [Top EXCEPT !.at = "pick"]
  <2>1. Move(f) /\ ~soft
    BY <1>3 DEF SetCheck, MoveTo, MustStop
  <2>2. FrameOK(f) /\ f.at = "pick"
    BY <1>1, MoveFacts
  <2> HIDE DEF f
  <2>3. QED
    BY <1>1, <2>1, <2>2, QuietMove
<1>4. QED
  BY <1>2, <1>3

LEMMA PanicStep ==
  ASSUME IndInv, Panic
  PROVE  IndInv'
<1> DEFINE f == [Top EXCEPT !.at = "panic"]
<1>1. /\ stack # <<>> /\ ret = "none" /\ Top.at = "pick" /\ Move(f)
      /\ UNCHANGED <<userVars, run, ret, late, opened>>
  BY DEF Panic, Busy, MoveTo
<1>2. FrameOK(f) /\ f.at = "panic"
  BY <1>1, MoveFacts
<1> HIDE DEF f
<1>3. QED
  BY <1>1, <1>2, QuietMove

LEMMA WaitOverStep ==
  ASSUME IndInv, WaitOver
  PROVE  IndInv'
<1> DEFINE f == [Top EXCEPT !.at = "check"]
<1>1. /\ stack # <<>> /\ ret = "none" /\ Top.at = "wait" /\ Move(f)
      /\ UNCHANGED <<userVars, run, ret, late, opened>>
  BY DEF WaitOver, Busy, MoveTo
<1>2. FrameOK(f) /\ f.at = "check"
  BY <1>1, MoveFacts
<1> HIDE DEF f
<1>3. QED
  BY <1>1, <1>2, QuietMove

LEMMA WaitStoppedStep ==
  ASSUME IndInv, WaitStopped
  PROVE  IndInv'
<1> DEFINE f == [Top EXCEPT !.at = "onStop", !.task = "none", !.out = "canceled"]
<1>1. /\ stack # <<>> /\ ret = "none" /\ Top.at = "wait" /\ Move(f)
      /\ UNCHANGED <<userVars, run, ret, late, opened>>
  BY DEF WaitStopped, Busy, StopWith
<1>2. FrameOK(f) /\ f.at = "onStop"
  BY <1>1, MoveFacts DEF Outs
<1> HIDE DEF f
<1>3. QED
  BY <1>1, <1>2, QuietMove

LEMMA PickStep ==
  ASSUME IndInv, Pick
  PROVE  IndInv'
<1> DEFINE Candidates == IF Top.queue # <<>>
                      THEN {[Top EXCEPT !.task = Head(Top.queue), !.queue = Tail(@)]}
                      ELSE IF Filtered(Top) = <<>> THEN {} ELSE NextTasks(Top)
<1>1. /\ stack # <<>> /\ ret = "none" /\ Top.at = "pick"
      /\ UNCHANGED <<userVars, run, ret, opened>>
  BY DEF Pick, Busy
<1>2. UNCHANGED <<optVars, ctxVars, lifeVars, errVars>>
  BY <1>1 DEF userVars
<1>3. PICK g \in Candidates :
        LET caller == [g EXCEPT !.at = "task"]
        IN  IF g.task \in Sets
            THEN /\ stack' = <<Frame(g.task, NeedsTag(g.needsTag, g.task)), caller>> \o Tail(stack)
                 /\ UNCHANGED late
            ELSE Move(caller) /\ late' = late + (IF soft THEN 1 ELSE 0)
  BY DEF Pick
<1>4. "at" \in DOMAIN g /\ "out" \in DOMAIN g /\ g.out = Top.out
  BY <1>1, <1>3, Running DEF FrameOK, NextTasks
<1> DEFINE caller == [g EXCEPT !.at = "task"]
<1>5. FrameOK(caller) /\ caller.at = "task"
  BY <1>4 DEF FrameOK
<1>6. late = 0 \/ ~soft
  BY <1>1, Running DEF IndInv, LateInv
<1>7. ErrorInv' /\ GraceKept'
  BY <1>1, <1>2 DEF IndInv, ErrorInv, ErrorsReportedOnce, errVars, GraceKept, lifeVars, optVars, ctxVars
<1>8. CASE g.task \in Sets
  <2> DEFINE callee == Frame(g.task, NeedsTag(g.needsTag, g.task))
  <2>1. FrameOK(callee) /\ callee.at = "onStart"
    BY DEF Frame, FrameOK
  <2>2. stack' = <<callee, caller>> \o Tail(stack) /\ late' = late
    BY <1>3, <1>8
  <2> HIDE DEF callee, caller
  <2>3. Calls(stack') /\ stack' # <<>> /\ stack'[1] = callee /\ Started(stack') = Len(stack)
    BY <1>1, <1>5, <2>1, <2>2, Running, CallsPush
  <2>4. ControlInv'
    BY <1>1, <1>2, <2>3, Running DEF IndInv, ControlInv, lifeVars, optVars
  <2>5. LateInv'
    BY <1>2, <2>1, <2>2, <2>3 DEF IndInv, LateInv, ctxVars
  <2>6. OpenInv'
    BY <1>1, <1>2, <2>3, Running DEF IndInv, OpenInv, lifeVars, optVars
  <2>7. QED
    BY <1>7, <2>4, <2>5, <2>6 DEF IndInv
<1>9. CASE g.task \notin Sets
  <2>1. stack' = <<caller>> \o Tail(stack) /\ late' = late + (IF soft THEN 1 ELSE 0)
    BY <1>3, <1>9 DEF Move
  <2> HIDE DEF caller
  <2>2. Calls(stack') /\ stack' # <<>> /\ stack'[1] = caller /\ Started(stack') = Len(stack)
    BY <1>1, <1>5, <2>1, Running, CallsMove
  <2>3. ControlInv'
    BY <1>1, <1>2, <2>2, Running DEF IndInv, ControlInv, lifeVars, optVars
  <2>4. LateInv'
    BY <1>2, <1>5, <1>6, <2>1, <2>2 DEF IndInv, LateInv, ctxVars
  <2>5. OpenInv'
    BY <1>1, <1>2, <2>2, Running DEF IndInv, OpenInv, lifeVars, optVars
  <2>6. QED
    BY <1>7, <2>3, <2>4, <2>5 DEF IndInv
<1>10. QED
  BY <1>8, <1>9

LEMMA ResumeStep ==
  ASSUME IndInv, Resume
  PROVE  IndInv'
<1> DEFINE next == [Top EXCEPT !.task = "none"]
<1>1. /\ stack # <<>> /\ Top.at = "task" /\ ret # "none" /\ ret \in Results
      /\ reported' = reported + (IF ret = "error" /\ catch THEN 1 ELSE 0)
      /\ UNCHANGED <<optVars, ctxVars, lifeVars, raised, run, late, opened>>
  BY DEF Resume, ReportCaught, IndInv, ControlInv
<1>2. ErrorInv /\ FrameOK(Top)
  BY <1>1, Running DEF IndInv
<1>3. ASSUME NEW f, Move(f), FrameOK(f), f.at \in {"wait", "check", "onStop"}, ret' = "none",
             ret = "error" => catch
      PROVE  IndInv'
  <2>1. ControlInv' /\ LateInv' /\ OpenInv' /\ GraceKept'
    BY <1>1, <1>3, MoveStep
  <2>2. ErrorInv'
    BY <1>1, <1>2, <1>3 DEF ErrorInv, ErrorsReportedOnce
  <2>3. QED
    BY <2>1, <2>2 DEF IndInv
<1>4. CASE (ret = "ok" \/ (ret = "error" /\ catch)) /\ Move([next EXCEPT !.at = "wait"]) /\ ret' = "none"
  <2> DEFINE f == [next EXCEPT !.at = "wait"]
  <2>1. FrameOK(f) /\ f.at = "wait"
    BY <1>2 DEF FrameOK
  <2>2. Move(f) /\ ret' = "none" /\ (ret = "error" => catch)
    BY <1>4
  <2> HIDE DEF f
  <2>3. QED
    BY <1>3, <2>1, <2>2
<1>5. CASE ret = "now" /\ Move([next EXCEPT !.at = "check"]) /\ ret' = "none"
  <2> DEFINE f == [next EXCEPT !.at = "check"]
  <2>1. FrameOK(f) /\ f.at = "check"
    BY <1>2 DEF FrameOK
  <2>2. Move(f) /\ ret' = "none" /\ ret # "error"
    BY <1>5
  <2> HIDE DEF f
  <2>3. QED
    BY <1>3, <2>1, <2>2
<1>6. ASSUME NEW r \in Outs, StopWith(r), ret' = "none", ret # "error"
      PROVE  IndInv'
  <2> DEFINE f == [Top EXCEPT !.at = "onStop", !.task = "none", !.out = r]
  <2>1. FrameOK(f) /\ f.at = "onStop"
    BY <1>1, MoveFacts
  <2>2. Move(f)
    BY <1>6 DEF StopWith
  <2> HIDE DEF f
  <2>3. QED
    BY <1>3, <1>6, <2>1, <2>2
<1>7. CASE ret \in {"stopUser", "canceled"} /\ StopWith(ret) /\ ret' = "none"
  <2>1. ret \in Outs /\ ret # "error"
    BY <1>7 DEF Outs
  <2>2. QED
    BY <1>6, <1>7, <2>1
<1>8. CASE ret \in {"interrupt", "interruptNow"} /\ LeaveInterrupted(ret)
  <2>1. Interrupted(ret) \in Outs /\ ret # "error"
    BY <1>8 DEF Outs, Interrupted
  <2>2. StopWith(Interrupted(ret)) /\ ret' = "none"
    BY <1>8 DEF LeaveInterrupted
  <2>3. QED
    BY <1>6, <2>1, <2>2
<1>9. CASE ret = "error" /\ ~catch /\ Return(ret)
  <2>1. ControlInv' /\ LateInv' /\ GraceKept'
    BY <1>1, <1>9, ReturnStep
  <2>2. OpenInv'
    BY <1>1, <1>9, Running DEF IndInv, OpenInv, Return, lifeVars, optVars
  <2>3. ErrorInv'
    BY <1>1, <1>2, <1>9 DEF ErrorInv, ErrorsReportedOnce, Return
  <2>4. QED
    BY <2>1, <2>2, <2>3 DEF IndInv
<1>10. QED
  BY <1>4, <1>5, <1>7, <1>8, <1>9 DEF Resume

-----------------------------------------------------------------------------
\* processUser.
LEMMA UserCheckStep ==
  ASSUME IndInv, UserCheck
  PROVE  IndInv'
<1>1. /\ at = "loop" /\ at' = (IF soft THEN "onStop" ELSE "process") /\ stack = <<>> /\ ret = "none"
      /\ UNCHANGED <<optVars, ctxVars, err, reported, open, raised, ret, late, opened>>
  BY DEF UserCheck, Check, Goto, IndInv, ControlInv
<1>2. ErrorInv' /\ GraceKept'
  BY <1>1 DEF IndInv, ErrorInv, ErrorsReportedOnce, GraceKept, optVars, ctxVars
<1>3. CASE soft
  <2>1. stack' = <<>>
    BY <1>3 DEF UserCheck
  <2>2. QED
    BY <1>1, <1>2, <1>3, <2>1 DEF IndInv, ControlInv, LateInv, OpenInv, Started, optVars, ctxVars
<1>4. CASE ~soft
  <2> DEFINE f == Frame(Root, run.given)
  <2>1. stack' = <<f>> /\ FrameOK(f) /\ f.at = "onStart"
    BY <1>4 DEF UserCheck, Frame, FrameOK
  <2> HIDE DEF f
  <2>2. Calls(stack') /\ stack' # <<>> /\ stack'[1] = f /\ Started(stack') = 0
    BY <2>1, CallsOne DEF Started
  <2>3. Started(stack) = 0
    BY <1>1 DEF Started
  <2>4. ControlInv'
    BY <1>1, <1>4, <2>2 DEF IndInv, ControlInv, optVars
  <2>5. LateInv'
    BY <1>1, <1>4, <2>1, <2>2 DEF IndInv, LateInv, ctxVars
  <2>6. OpenInv'
    BY <1>1, <1>4, <2>2, <2>3 DEF IndInv, OpenInv, optVars
  <2>7. QED
    BY <1>2, <2>4, <2>5, <2>6 DEF IndInv
<1>5. QED
  BY <1>3, <1>4

LEMMA ProcessEndsStep ==
  ASSUME IndInv, ProcessEnds
  PROVE  IndInv'
<1>1. /\ at = "process" /\ stack = <<>> /\ ret # "none" /\ ret' = "none"
      /\ UNCHANGED <<run, stack, late, opened, open, raised>>
  BY DEF ProcessEnds, ProcessReturns
<1>2. ret \in {"ok", "now", "canceled", "stopUser", "error"}
  BY <1>1 DEF IndInv, ControlInv, Results, Outcomes
<1>3. \/ ret # "error" /\ at' \in {"loop", "onStop"} /\ UNCHANGED <<optVars, ctxVars, err, reported>>
      \/ /\ ret = "error" /\ catch /\ at' = "loop" /\ reported' = reported + 1
         /\ UNCHANGED <<optVars, ctxVars, err>>
      \/ /\ ret = "error" /\ ~catch /\ at' = "gone" /\ err' = "error" /\ reported' = reported + 1
         /\ UNCHANGED <<optVars, soft>>
  <2>1. CASE ret \in {"ok", "now"}
    BY <2>1 DEF ProcessEnds, ProcessReturns, Ending, Goto
  <2>2. CASE ret \in {"canceled", "stopUser"}
    BY <2>2 DEF ProcessEnds, ProcessReturns, Ending, Goto
  <2>3. CASE ret = "error" /\ catch
    BY <2>3 DEF ProcessEnds, ProcessReturns, Ending, CatchAndReport
  <2>4. CASE ret = "error" /\ ~catch
    BY <2>4 DEF ProcessEnds, ProcessReturns, Ending, Leave, Unexpected
  <2>5. QED
    BY <1>2, <2>1, <2>2, <2>3, <2>4
<1>4. ControlInv'
  BY <1>1, <1>3 DEF IndInv, ControlInv, optVars
<1>5. LateInv'
  BY <1>1, <1>3 DEF IndInv, LateInv, ctxVars
<1>6. OpenInv'
  BY <1>1, <1>3 DEF IndInv, ControlInv, OpenInv, Started, optVars
<1>7. ErrorInv'
  BY <1>1, <1>3 DEF IndInv, ErrorInv, ErrorsReportedOnce
<1>8. GraceKept'
  BY <1>1, <1>3 DEF IndInv, GraceKept, optVars, ctxVars
<1>9. QED
  BY <1>4, <1>5, <1>6, <1>7, <1>8 DEF IndInv

LEMMA HooksStep ==
  ASSUME IndInv, Hooks, UNCHANGED <<run, setVars>>
  PROVE  IndInv'
<1>1. PICK r \in Outcomes : OnStartReturns(r) \/ OnStopReturns(r)
  BY DEF Hooks
<1>2. UNCHANGED <<stack, ret, late, opened>>
  BY DEF setVars
<1>3. /\ at \in {"onStart", "onStop"} /\ soft' = soft /\ UNCHANGED optVars
      /\ \/ at' \in {"loop", "onStop"} /\ UNCHANGED <<ctxVars, err, open>>
         \/ at' = "gone" /\ err' = "error" /\ open' = open
         \/ at' = "gone" /\ open' = open - 1
      /\ \/ raised' = raised /\ reported' = reported
         \/ raised' = raised + 1 /\ reported' = reported + 1
  <2>1. ErrorInv
    BY DEF IndInv
  <2>2. CASE OnStartReturns(r)
    <3>1. CASE r = "ok"
      BY <2>1, <2>2, <3>1 DEF OnStartReturns, Goto, Raise, ctxVars, ErrorInv
    <3>2. CASE r \in {"canceled", "stopUser"}
      <4>1. at = "onStart" /\ Goto("onStop") /\ raised' = raised + 0 /\ UNCHANGED open
        BY <2>2, <3>2 DEF OnStartReturns, Raise
      <4>2. QED
        BY <2>1, <4>1 DEF Goto, ctxVars, ErrorInv
    <3>3. CASE r = "error"
      BY <2>1, <2>2, <3>3 DEF OnStartReturns, Leave, Unexpected, Raise, ErrorInv
    <3>4. QED
      BY <3>1, <3>2, <3>3 DEF Outcomes
  <2>3. CASE OnStopReturns(r)
    BY <2>1, <2>3 DEF OnStopReturns, Leave, Raise, ErrorInv
  <2>4. QED
    BY <1>1, <2>2, <2>3
<1>4. stack = <<>> /\ ret = "none"
  BY <1>3 DEF IndInv, ControlInv
<1>5. ControlInv'
  BY <1>2, <1>3, <1>4 DEF IndInv, ControlInv, optVars
<1>6. LateInv'
  BY <1>2, <1>3, <1>4 DEF IndInv, LateInv
<1>7. OpenInv'
  <2>1. opened = Started(stack) /\ open = 1
    BY <1>3, <1>4 DEF IndInv, OpenInv
  <2>2. opened' = Started(stack')
    BY <1>2, <2>1
  <2>3. QED
    BY <1>3, <2>1, <2>2 DEF OpenInv
<1>8. ErrorInv'
  BY <1>2, <1>3 DEF IndInv, ErrorInv, ErrorsReportedOnce
<1>9. GraceKept'
  BY <1>3 DEF IndInv, GraceKept, optVars, ctxVars
<1>10. QED
  BY <1>5, <1>6, <1>7, <1>8, <1>9 DEF IndInv

LEMMA ContextsStep ==
  ASSUME IndInv, Contexts, UNCHANGED <<run, setVars>>
  PROVE  IndInv'
<1>1. /\ UNCHANGED <<stack, ret, late, opened, optVars, lifeVars, errVars>>
      /\ \/ ~soft /\ soft' = TRUE /\ UNCHANGED <<hard, timer>>
         \/ /\ soft' = soft
            /\ \/ timer = "armed" /\ grace /\ timer' = "running" /\ hard' = hard
               \/ ~grace
               \/ timer' = "over"
  BY DEF Contexts, Ask, AfterFunc, TimerFires, setVars
<1>2. ControlInv'
  BY <1>1 DEF IndInv, ControlInv, optVars, lifeVars
<1>3. LateInv'
  BY <1>1 DEF IndInv, LateInv
<1>4. OpenInv'
  BY <1>1 DEF IndInv, OpenInv, optVars, lifeVars
<1>5. ErrorInv'
  BY <1>1 DEF IndInv, ErrorInv, ErrorsReportedOnce, errVars
<1>6. GraceKept'
  BY <1>1 DEF IndInv, GraceKept, optVars, lifeVars
<1>7. QED
  BY <1>2, <1>3, <1>4, <1>5, <1>6 DEF IndInv

-----------------------------------------------------------------------------
LEMMA InitInv == TaskInit => IndInv
<1> SUFFICES ASSUME TaskInit PROVE IndInv
  OBVIOUS
<1>1. /\ stack = <<>> /\ ret = "none" /\ late = 0 /\ opened = 0 /\ at = "onStart" /\ ~soft /\ ~hard
      /\ catch \in BOOLEAN /\ open = 1 /\ raised = 0 /\ reported = 0
  BY UserAssumption DEF TaskInit, UserInit, UserAssumption
<1>2. ControlInv
  BY <1>1, CallsEmpty DEF ControlInv
<1>3. QED
  BY <1>1, <1>2 DEF IndInv, LateInv, OpenInv, ErrorInv, ErrorsReportedOnce, GraceKept, Started

LEMMA StutterStep ==
  ASSUME IndInv, UNCHANGED taskVars
  PROVE  IndInv'
<1>1. UNCHANGED <<grace, catch, soft, hard, timer, at, err, open, raised, reported, stack, ret, late, opened>>
  BY DEF taskVars, setVars, userVars, optVars, ctxVars, lifeVars, errVars
<1>2. Calls(stack') = Calls(stack) /\ Started(stack') = Started(stack)
  BY <1>1
<1>3. QED
  BY <1>1, <1>2 DEF IndInv, ControlInv, LateInv, OpenInv, ErrorInv, ErrorsReportedOnce, GraceKept

LEMMA Invariance == IndInv /\ [TaskNext]_taskVars => IndInv'
<1> SUFFICES ASSUME IndInv, [TaskNext]_taskVars PROVE IndInv'
  OBVIOUS
<1>1. CASE (Contexts \/ Hooks) /\ UNCHANGED <<run, setVars>>
  BY <1>1, ContextsStep, HooksStep
<1>2. CASE Library
  BY <1>2, UserCheckStep, SetCheckStep, PickStep, PanicStep, ResumeStep, WaitStoppedStep,
     ProcessEndsStep DEF Library
<1>3. CASE WaitOver
  BY <1>3, WaitOverStep
<1>4. CASE Begun
  BY <1>4, SetOnStartStep, LeafReturnsStep DEF Begun
<1>5. CASE Stopped
  BY <1>5, SetOnStopStep DEF Stopped
<1>6. CASE \E t \in Scheduled, first \in BOOLEAN : Schedule(t, first)
  BY <1>6, ScheduleStep
<1>7. CASE UNCHANGED taskVars
  BY <1>7, StutterStep
<1>8. QED
  BY <1>1, <1>2, <1>3, <1>4, <1>5, <1>6, <1>7 DEF TaskNext

\* The parts of the invariant, for all steps.
THEOREM Safety == TaskSpec => []IndInv
BY InitInv, Invariance, PTL DEF TaskSpec

-----------------------------------------------------------------------------
(***************************************************************************)
(* Whatever the tree of sets and wherever the stop finds it, the user      *)
(* begins at most one more task (taskset.go:87).                           *)
(***************************************************************************)
THEOREM OneMoreTask == TaskSpec => []AtMostOneTaskAfterStop
<1>1. IndInv => AtMostOneTaskAfterStop
  BY DEF IndInv, LateInv, AtMostOneTaskAfterStop
<1>2. QED
  BY <1>1, Safety, PTL

(***************************************************************************)
(* However deep the set, an exception is reported once (taskset.go:139).   *)
(***************************************************************************)
THEOREM ReportedOnce == TaskSpec => []ErrorsReportedOnce
<1>1. IndInv => ErrorsReportedOnce
  BY DEF IndInv, ErrorInv
<1>2. QED
  BY <1>1, Safety, PTL

(***************************************************************************)
(* A user that leaves has stopped every set it started, and itself, or     *)
(* leaves with an exception (taskset.go:83-155, user.go:107-140).          *)
(***************************************************************************)
THEOREM EverythingStopped == TaskSpec => []NothingLeftOpen
<1>1. IndInv => NothingLeftOpen
  BY DEF IndInv, ControlInv, OpenInv, NothingLeftOpen, Started
<1>2. QED
  BY <1>1, Safety, PTL

(***************************************************************************)
(* The context of hooks and tasks outlives the stop by the grace period    *)
(* (graceful_stop.go:30).                                                  *)
(***************************************************************************)
THEOREM GracePeriod == TaskSpec => []GraceKept
<1>1. IndInv => GraceKept
  BY DEF IndInv
<1>2. QED
  BY <1>1, Safety, PTL

-----------------------------------------------------------------------------
\* A step of the user with its task sets is one of the abstract user.
LEMMA StepRefines == IndInv /\ [TaskNext]_taskVars => [UserNext]_userVars
<1> SUFFICES ASSUME IndInv, [TaskNext]_taskVars PROVE [UserNext]_userVars
  OBVIOUS
<1>1. CASE (Contexts \/ Hooks) /\ UNCHANGED <<run, setVars>>
  BY <1>1 DEF UserNext
<1>2. ASSUME NEW r \in Results, SetOnStart(r) \/ LeafReturns(r)
      PROVE  [UserNext]_userVars
  <2>1. /\ stack # <<>> /\ ret = "none" /\ Raise(r = "error")
        /\ UNCHANGED <<optVars, ctxVars, lifeVars, reported>>
    BY <1>2 DEF SetOnStart, LeafReturns, Busy
  <2>2. at = "process" /\ raised = reported /\ raised \in Nat
    BY <2>1, Running DEF IndInv, ErrorInv, ErrorsReportedOnce
  <2>3. CASE r = "error"
    BY <2>1, <2>2, <2>3 DEF Works, UserNext
  <2>4. CASE r # "error"
    BY <2>1, <2>2, <2>4 DEF Raise, userVars, errVars
  <2>5. QED
    BY <2>3, <2>4
<1>3. CASE Begun
  BY <1>2, <1>3 DEF Begun
<1>4. CASE UserCheck
  BY <1>4 DEF UserCheck, UserNext
<1>5. CASE Resume
  <2>1. /\ stack # <<>> /\ ret # "none" /\ reported' = reported + (IF ret = "error" /\ catch THEN 1 ELSE 0)
        /\ UNCHANGED <<optVars, ctxVars, lifeVars, raised>>
    BY <1>5 DEF Resume, ReportCaught
  <2>2. at = "process" /\ ErrorInv
    BY <2>1, Running DEF IndInv
  <2>3. CASE ret = "error" /\ catch
    <3>1. reported' = reported + 1 /\ raised # reported
      BY <2>1, <2>2, <2>3 DEF ErrorInv, ErrorsReportedOnce
    <3>2. Works
      BY <2>1, <2>2, <2>3, <3>1 DEF Works
    <3>3. QED
      BY <3>2 DEF UserNext
  <2>4. CASE ~(ret = "error" /\ catch)
    BY <2>1, <2>2, <2>4 DEF userVars, errVars, ErrorInv
  <2>5. QED
    BY <2>3, <2>4
<1>6. CASE ProcessEnds
  <2>1. stack = <<>> /\ ret # "none" /\ ProcessReturns(Ending(ret))
    BY <1>6 DEF ProcessEnds
  <2>2. Ending(ret) \in Outcomes /\ (Ending(ret) = "error" <=> ret = "error")
    BY <2>1 DEF IndInv, ControlInv, Results, Outcomes, Ending
  <2>3. ret = "error" <=> raised # reported
    BY DEF IndInv, ErrorInv, ErrorsReportedOnce
  <2>4. Returns(Ending(ret))
    BY <2>1, <2>2, <2>3 DEF Returns
  <2>5. QED
    BY <2>2, <2>4 DEF UserNext
<1>7. CASE SetCheck \/ Pick \/ Panic \/ WaitStopped \/ WaitOver \/ Stopped
  BY <1>7 DEF SetCheck, Pick, Panic, WaitStopped, WaitOver, Stopped, SetOnStop
<1>8. CASE \E t \in Scheduled, first \in BOOLEAN : Schedule(t, first)
  BY <1>8 DEF Schedule
<1>9. CASE UNCHANGED taskVars
  BY <1>9 DEF taskVars
<1>10. QED
  BY <1>1, <1>3, <1>4, <1>5, <1>6, <1>7, <1>8, <1>9 DEF TaskNext, Library

(***************************************************************************)
(* The user of the taskset package implements the abstract one: its        *)
(* Process keeps the promise processUser relies on (taskset/user.go:67).   *)
(***************************************************************************)
THEOREM TaskSetsAreUsers == TaskSpec => ImplementsUserLife
<1>1. TaskInit => UserInit
  BY DEF TaskInit
<1>2. QED
  BY <1>1, StepRefines, Safety, PTL DEF TaskSpec, UserSpec, ImplementsUserLife

-----------------------------------------------------------------------------
\* How often t is among the first n of a sequence.
Upto(t, seq, n) == Cardinality({i \in 1 .. n : seq[i] = t})

\* One element more of a sequence.
LEMMA UptoNext ==
  ASSUME NEW t, NEW seq, NEW n \in Nat
  PROVE  /\ Upto(t, seq, n) \in Nat
         /\ Upto(t, seq, 0) = 0
         /\ seq[n + 1] = t => Upto(t, seq, n + 1) = Upto(t, seq, n) + 1
         /\ seq[n + 1] # t => Upto(t, seq, n + 1) = Upto(t, seq, n)
         /\ Upto(t, seq, n) = 0 <=> \A i \in 1 .. n : seq[i] # t
<1> DEFINE At(k) == {i \in 1 .. k : seq[i] = t}
<1>1. IsFiniteSet(At(n))
  <2>1. IsFiniteSet(1 .. n) BY FS_Interval
  <2> QED BY <2>1, FS_Subset
<1>2. At(0) = {} OBVIOUS
<1>3. CASE seq[n + 1] = t
  <2>1. At(n + 1) = At(n) \cup {n + 1} /\ n + 1 \notin At(n) BY <1>3
  <2> HIDE DEF At
  <2>2. Cardinality(At(n + 1)) = Cardinality(At(n)) + 1 BY <1>1, <2>1, FS_AddElement
  <2>3. Cardinality(At(n)) \in Nat /\ Cardinality(At(0)) = 0
    BY <1>1, <1>2, FS_CardinalityType, FS_EmptySet
  <2>4. Cardinality(At(n)) = 0 <=> At(n) = {} BY <1>1, FS_EmptySet
  <2> QED BY <1>3, <2>2, <2>3, <2>4 DEF At, Upto
<1>4. CASE seq[n + 1] # t
  <2>1. At(n + 1) = At(n)
    <3>1. 1 .. (n + 1) = (1 .. n) \cup {n + 1} OBVIOUS
    <3> QED BY <1>4, <3>1
  <2>2. Cardinality(At(n)) \in Nat /\ Cardinality(At(0)) = 0
    BY <1>1, <1>2, FS_CardinalityType, FS_EmptySet
  <2>3. Cardinality(At(n)) = 0 <=> At(n) = {} BY <1>1, FS_EmptySet
  <2> QED BY <1>4, <2>1, <2>2, <2>3 DEF Upto
<1> QED BY <1>3, <1>4

\* How often something is in a sequence, counted from its start.
LEMMA TimesIs ==
  ASSUME NEW T, NEW seq \in Seq(T), NEW t
  PROVE  /\ Times(t, seq) = Upto(t, seq, Len(seq)) /\ Times(t, seq) \in Nat
         /\ t \in Range(seq) <=> Times(t, seq) # 0
<1>1. DOMAIN seq = 1 .. Len(seq) /\ Len(seq) \in Nat OBVIOUS
<1>2. Times(t, seq) = Upto(t, seq, Len(seq)) BY <1>1 DEF Times, Upto
<1>3. t \in Range(seq) <=> \E i \in 1 .. Len(seq) : seq[i] = t BY <1>1 DEF Range
<1> QED BY <1>1, <1>2, <1>3, UptoNext

\* One element is appended.
LEMMA TimesAppend ==
  ASSUME NEW T, NEW seq \in Seq(T), NEW x \in T, NEW t
  PROVE  Times(t, Append(seq, x)) = Times(t, seq) + (IF x = t THEN 1 ELSE 0)
<1> DEFINE n == Len(seq)
           more == Append(seq, x)
<1>1. /\ more \in Seq(T) /\ Len(more) = n + 1 /\ n \in Nat /\ more[n + 1] = x
      /\ \A i \in 1 .. n : more[i] = seq[i]
  OBVIOUS
<1>5. Times(t, seq) = Upto(t, seq, n) /\ Times(t, seq) \in Nat BY TimesIs
<1> HIDE DEF n, more
<1>2. Upto(t, more, n) = Upto(t, seq, n) BY <1>1 DEF Upto
<1>3. Times(t, more) = Upto(t, more, n + 1) BY <1>1, TimesIs
<1>4. /\ x = t => Upto(t, more, n + 1) = Upto(t, more, n) + 1
      /\ x # t => Upto(t, more, n + 1) = Upto(t, more, n)
  BY <1>1, UptoNext
<1>6. CASE x = t BY <1>2, <1>3, <1>4, <1>5, <1>6 DEF more
<1>7. CASE x # t BY <1>2, <1>3, <1>4, <1>5, <1>7 DEF more
<1> QED BY <1>6, <1>7

\* Sequences one after the other.
LEMMA TimesConcat ==
  ASSUME NEW T, NEW a \in Seq(T), NEW b \in Seq(T), NEW t
  PROVE  Times(t, a \o b) = Times(t, a) + Times(t, b)
<1> DEFINE n == Len(a)
           m == Len(b)
           c == a \o b
           P == {k \in Nat : k <= m => Upto(t, c, n + k) = Upto(t, a, n) + Upto(t, b, k)}
<1>1. /\ n \in Nat /\ m \in Nat /\ c \in Seq(T) /\ Len(c) = n + m
      /\ \A i \in 1 .. n : c[i] = a[i]
      /\ \A i \in 1 .. m : c[n + i] = b[i]
  OBVIOUS
<1> HIDE DEF n, m, c
<1>2. Upto(t, c, n) = Upto(t, a, n) BY <1>1 DEF Upto
<1>3. 0 \in P
  <2>1. Upto(t, b, 0) = 0 /\ Upto(t, a, n) \in Nat BY <1>1, UptoNext
  <2> QED BY <1>1, <1>2, <2>1
<1>4. ASSUME NEW k \in Nat, k \in P PROVE k + 1 \in P
  <2> SUFFICES ASSUME k + 1 <= m
               PROVE  Upto(t, c, n + (k + 1)) = Upto(t, a, n) + Upto(t, b, k + 1)
    OBVIOUS
  <2>1. Upto(t, c, n + k) = Upto(t, a, n) + Upto(t, b, k) BY <1>1, <1>4
  <2>2. n + k \in Nat /\ n + (k + 1) = (n + k) + 1 BY <1>1
  <2>3. Upto(t, c, (n + k) + 1) = Upto(t, c, n + k) + (IF c[(n + k) + 1] = t THEN 1 ELSE 0)
    BY <2>2, UptoNext
  <2>4. Upto(t, b, k + 1) = Upto(t, b, k) + (IF b[k + 1] = t THEN 1 ELSE 0) BY UptoNext
  <2>5. c[(n + k) + 1] = b[k + 1]
    <3>1. k + 1 \in 1 .. m BY <1>1
    <3> QED BY <1>1, <2>2, <3>1
  <2>6. Upto(t, a, n) \in Nat /\ Upto(t, b, k) \in Nat BY <1>1, UptoNext
  <2> QED BY <2>1, <2>2, <2>3, <2>4, <2>5, <2>6
<1>5. \A k \in Nat : k \in P
  <2> HIDE DEF P
  <2> QED BY <1>3, <1>4, NumberInduction
<1>6. Upto(t, c, n + m) = Upto(t, a, n) + Upto(t, b, m) BY <1>1, <1>5
<1>7. Times(t, c) = Upto(t, c, n + m) BY <1>1, TimesIs
<1>8. Times(t, a) = Upto(t, a, n) BY TimesIs DEF n
<1>9. Times(t, b) = Upto(t, b, m) BY TimesIs DEF m
<1> QED BY <1>6, <1>7, <1>8, <1>9 DEF c

Collects(g, seq, S, T) ==
  /\ g \in [0 .. Len(seq) -> Seq(T)] /\ g[0] = <<>>
  /\ \A n \in Nat : n + 1 <= Len(seq) =>
       g[n + 1] = IF seq[n + 1] \in S THEN Append(g[n], seq[n + 1]) ELSE g[n]

\* Among is built from the start of its sequence.
LEMMA AmongIs ==
  ASSUME NEW T, NEW seq \in Seq(T), NEW S
  PROVE  \E g : Collects(g, seq, S, T) /\ Among(seq, S) = g[Len(seq)]
<1> DEFINE N == Len(seq)
           D == 0 .. N
           V == Seq(T)
           next(g, n) == IF n = 0 THEN <<>>
                         ELSE IF seq[n] \in S THEN Append(g[n - 1], seq[n]) ELSE g[n - 1]
           step == [g \in [D -> V] |-> [n \in D |-> next(g, n)]]
           rank == [n \in D |-> n]
<1>1. N \in Nat /\ \A n \in 1 .. N : seq[n] \in T OBVIOUS
<1> HIDE DEF N
<1>0. \A x \in D : rank[x] = x /\ x \in Nat BY <1>1
<1>2. rank \in [D -> 0 .. N] /\ <<>> \in V OBVIOUS
<1>3. \A n \in D : n # 0 => n - 1 \in D /\ n \in 1 .. N BY <1>1
<1>4. ASSUME NEW g \in [D -> V], NEW n \in D PROVE next(g, n) \in V
  <2>1. CASE n = 0 BY <2>1
  <2>2. CASE n # 0
    <3>1. g[n - 1] \in Seq(T) /\ seq[n] \in T BY <1>1, <1>3, <2>2
    <3>2. Append(g[n - 1], seq[n]) \in Seq(T) BY <3>1
    <3> QED BY <2>2, <3>1, <3>2
  <2> QED BY <2>1, <2>2
<1>5. step \in [[D -> V] -> [D -> V]]
  <2> HIDE DEF next, D, V
  <2> QED BY <1>4
<1>6. ASSUME NEW g \in [D -> V], NEW h \in [D -> V], NEW n \in D, Below(rank, n, g, h)
      PROVE  step[g][n] = step[h][n]
  <2>1. step[g][n] = next(g, n) /\ step[h][n] = next(h, n)
    <3> HIDE DEF next, D, V
    <3> QED OBVIOUS
  <2>2. n # 0 => g[n - 1] = h[n - 1]
    <3> SUFFICES ASSUME n # 0 PROVE g[n - 1] = h[n - 1] OBVIOUS
    <3>1. n - 1 \in D /\ rank[n - 1] < rank[n] BY <1>0, <1>3
    <3>2. DOMAIN rank = D OBVIOUS
    <3> HIDE DEF rank, D
    <3> QED BY <1>6, <3>1, <3>2 DEF Below
  <2> QED BY <2>1, <2>2
<1>7. \E g \in [D -> V] : g = step[g]
  <2> HIDE DEF step, rank, D, V
  <2>1. V # {} BY <1>2
  <2>2. \E bound \in Nat : rank \in [D -> 0 .. bound] BY <1>1, <1>2
  <2>3. Steps(D, V, rank, step) BY <1>5, <1>6, <2>1, <2>2 DEF Steps
  <2> QED BY <2>3, Recursion
<1>8. PICK f \in [D -> V] : f = [n \in D |-> next(f, n)]
  <2> HIDE DEF next, D, V
  <2> QED BY <1>7
<1> DEFINE it == CHOOSE g : g = [n \in D |-> next(g, n)]
<1>9. it = [n \in D |-> next(it, n)] BY <1>8
<1>10. Among(seq, S) = it[N] BY DEF Among, N
<1> HIDE DEF it
<1>11. it[0] = <<>> BY <1>1, <1>9
<1>12. \A n \in Nat : n + 1 <= N =>
         it[n + 1] = IF seq[n + 1] \in S THEN Append(it[n], seq[n + 1]) ELSE it[n]
  <2> SUFFICES ASSUME NEW n \in Nat, n + 1 <= N
               PROVE  it[n + 1] = next(it, n + 1)
    BY <1>1
  <2>1. n + 1 \in D BY <1>1
  <2> HIDE DEF next, D
  <2> QED BY <1>9, <2>1
<1>13. it \in [D -> V]
  <2> DEFINE P == {n \in Nat : n <= N => it[n] \in V}
  <2>1. 0 \in P BY <1>2, <1>11
  <2>2. ASSUME NEW n \in Nat, n \in P PROVE n + 1 \in P
    <3> SUFFICES ASSUME n + 1 <= N PROVE it[n + 1] \in V OBVIOUS
    <3>1. it[n] \in Seq(T) /\ seq[n + 1] \in T BY <1>1, <2>2
    <3>2. Append(it[n], seq[n + 1]) \in Seq(T) BY <3>1
    <3> QED BY <1>12, <3>1, <3>2
  <2>3. \A n \in Nat : n \in P
    <3> HIDE DEF P
    <3> QED BY <2>1, <2>2, NumberInduction
  <2>4. \A n \in D : it[n] \in V BY <2>3
  <2>5. DOMAIN it = D BY <1>9
  <2>6. it = [n \in D |-> it[n]] BY <1>9
  <2> QED BY <2>4, <2>6
<1>14. Collects(it, seq, S, T) BY <1>11, <1>12, <1>13 DEF Collects, N
<1> QED BY <1>10, <1>14 DEF N

\* What Among keeps it keeps as often as it was there, and nothing else.
LEMMA AmongTimes ==
  ASSUME NEW T, NEW seq \in Seq(T), NEW S
  PROVE  /\ Among(seq, S) \in Seq(T)
         /\ \A t : Times(t, Among(seq, S)) = IF t \in S THEN Times(t, seq) ELSE 0
<1> DEFINE N == Len(seq)
<1>1. N \in Nat /\ \A n \in 1 .. N : seq[n] \in T OBVIOUS
<1>0. PICK g : Collects(g, seq, S, T) /\ Among(seq, S) = g[N] BY AmongIs
<1>2. /\ g \in [0 .. N -> Seq(T)] /\ Among(seq, S) = g[N] /\ g[0] = <<>>
      /\ \A n \in Nat : n + 1 <= N =>
           g[n + 1] = IF seq[n + 1] \in S THEN Append(g[n], seq[n + 1]) ELSE g[n]
  BY <1>0 DEF Collects
<1> HIDE DEF N
<1>3. ASSUME NEW t PROVE Times(t, g[N]) = IF t \in S THEN Upto(t, seq, N) ELSE 0
  <2> DEFINE P == {n \in Nat : n <= N => Times(t, g[n]) = IF t \in S THEN Upto(t, seq, n) ELSE 0}
  <2>1. 0 \in P
    <3>1. <<>> \in Seq(T) /\ Len(<<>>) = 0 OBVIOUS
    <3>2. Times(t, <<>>) = Upto(t, <<>>, 0) BY <3>1, TimesIs
    <3>3. Upto(t, <<>>, 0) = 0 /\ Upto(t, seq, 0) = 0 BY UptoNext
    <3> QED BY <1>2, <3>2, <3>3
  <2>2. ASSUME NEW n \in Nat, n \in P PROVE n + 1 \in P
    <3> SUFFICES ASSUME n + 1 <= N
                 PROVE  Times(t, g[n + 1]) = IF t \in S THEN Upto(t, seq, n + 1) ELSE 0
      OBVIOUS
    <3>1. Times(t, g[n]) = IF t \in S THEN Upto(t, seq, n) ELSE 0 BY <1>1, <2>2
    <3>2. /\ Upto(t, seq, n) \in Nat
          /\ Upto(t, seq, n + 1) = Upto(t, seq, n) + (IF seq[n + 1] = t THEN 1 ELSE 0)
      BY UptoNext
    <3>3. g[n] \in Seq(T) /\ seq[n + 1] \in T BY <1>1, <1>2
    <3>4. CASE seq[n + 1] \in S
      <4>1. g[n + 1] = Append(g[n], seq[n + 1]) BY <1>2, <3>4
      <4>2. Times(t, g[n + 1]) = Times(t, g[n]) + (IF seq[n + 1] = t THEN 1 ELSE 0)
        BY <3>3, <4>1, TimesAppend
      <4> QED BY <3>1, <3>2, <3>4, <4>2
    <3>5. CASE seq[n + 1] \notin S
      <4>1. g[n + 1] = g[n] BY <1>2, <3>5
      <4> QED BY <3>1, <3>2, <3>5, <4>1
    <3> QED BY <3>4, <3>5
  <2>3. \A n \in Nat : n \in P
    <3> HIDE DEF P
    <3> QED BY <2>1, <2>2, NumberInduction
  <2> QED BY <1>1, <2>3
<1>4. g[N] \in Seq(T) BY <1>1, <1>2
<1>5. \A t : Times(t, seq) = Upto(t, seq, N) BY TimesIs DEF N
<1> QED BY <1>2, <1>3, <1>4, <1>5

Flattens(g, ss, T) ==
  /\ g \in [1 .. Len(ss) -> Seq(T)] /\ g[1] = ss[1]
  /\ \A n \in Nat \ {0} : n + 1 <= Len(ss) => g[n + 1] = g[n] \o ss[n + 1]

\* FlattenSeq is built from the start of its sequences.
LEMMA FlattenIs ==
  ASSUME NEW T, NEW ss \in Seq(Seq(T)), Len(ss) # 0
  PROVE  \E g : Flattens(g, ss, T) /\ FlattenSeq(ss) = g[Len(ss)]
<1> DEFINE N == Len(ss)
           D == 1 .. N
           V == Seq(T)
           next(g, n) == IF n = 1 THEN ss[n] ELSE g[n - 1] \o ss[n]
           step == [g \in [D -> V] |-> [n \in D |-> next(g, n)]]
           rank == [n \in D |-> n]
<1>1. N \in Nat /\ N # 0 /\ \A n \in D : ss[n] \in V OBVIOUS
<1> DEFINE it == CHOOSE g : g = [n \in D |-> next(g, n)]
<1>2. FlattenSeq(ss) = it[N] BY DEF FlattenSeq
<1> HIDE DEF N
<1>3. rank \in [D -> 0 .. N] /\ <<>> \in V BY <1>1
<1>4. \A n \in D : rank[n] = n /\ n \in Nat /\ (n # 1 => n - 1 \in D) BY <1>1
<1>5. ASSUME NEW g \in [D -> V], NEW n \in D PROVE next(g, n) \in V
  <2>1. CASE n = 1 BY <1>1, <2>1
  <2>2. CASE n # 1
    <3>1. g[n - 1] \in Seq(T) /\ ss[n] \in Seq(T) BY <1>1, <1>4, <2>2
    <3>2. g[n - 1] \o ss[n] \in Seq(T) BY <3>1
    <3> QED BY <2>2, <3>2
  <2> QED BY <2>1, <2>2
<1>6. step \in [[D -> V] -> [D -> V]]
  <2> HIDE DEF next, D, V
  <2> QED BY <1>5
<1>7. ASSUME NEW g \in [D -> V], NEW h \in [D -> V], NEW n \in D, Below(rank, n, g, h)
      PROVE  step[g][n] = step[h][n]
  <2>1. step[g][n] = next(g, n) /\ step[h][n] = next(h, n)
    <3> HIDE DEF next, D, V
    <3> QED OBVIOUS
  <2>2. n # 1 => g[n - 1] = h[n - 1]
    <3> SUFFICES ASSUME n # 1 PROVE g[n - 1] = h[n - 1] OBVIOUS
    <3>1. n - 1 \in D /\ rank[n - 1] < rank[n] BY <1>4
    <3>2. DOMAIN rank = D OBVIOUS
    <3> HIDE DEF rank, D
    <3> QED BY <1>7, <3>1, <3>2 DEF Below
  <2> QED BY <2>1, <2>2
<1>8. \E g \in [D -> V] : g = step[g]
  <2> HIDE DEF step, rank, D, V
  <2>1. V # {} BY <1>3
  <2>2. \E bound \in Nat : rank \in [D -> 0 .. bound] BY <1>1, <1>3
  <2>3. Steps(D, V, rank, step) BY <1>6, <1>7, <2>1, <2>2 DEF Steps
  <2> QED BY <2>3, Recursion
<1>9. PICK f \in [D -> V] : f = [n \in D |-> next(f, n)]
  <2> HIDE DEF next, D, V
  <2> QED BY <1>8
<1>10. it = [n \in D |-> next(it, n)] BY <1>9
<1> HIDE DEF it
<1>11. it[1] = ss[1] BY <1>1, <1>10
<1>12. \A n \in Nat \ {0} : n + 1 <= N => it[n + 1] = it[n] \o ss[n + 1]
  <2> SUFFICES ASSUME NEW n \in Nat \ {0}, n + 1 <= N
               PROVE  it[n + 1] = it[n] \o ss[n + 1]
    OBVIOUS
  <2>1. n + 1 \in D /\ n + 1 # 1 /\ (n + 1) - 1 = n BY <1>1
  <2>2. it[n + 1] = next(it, n + 1)
    <3> HIDE DEF next, D
    <3> QED BY <1>10, <2>1
  <2> QED BY <2>1, <2>2
<1>13. it \in [D -> V]
  <2> DEFINE P == {n \in Nat : n + 1 <= N => it[n + 1] \in V}
  <2>1. 0 \in P BY <1>1, <1>11
  <2>2. ASSUME NEW n \in Nat, n \in P PROVE n + 1 \in P
    <3> SUFFICES ASSUME (n + 1) + 1 <= N PROVE it[(n + 1) + 1] \in V OBVIOUS
    <3>1. n + 1 <= N /\ (n + 1) + 1 \in D BY <1>1
    <3>2. it[n + 1] \in Seq(T) /\ ss[(n + 1) + 1] \in Seq(T) BY <1>1, <2>2, <3>1
    <3>3. it[n + 1] \o ss[(n + 1) + 1] \in Seq(T) BY <3>2
    <3>4. n + 1 \in Nat \ {0} OBVIOUS
    <3>5. it[(n + 1) + 1] = it[n + 1] \o ss[(n + 1) + 1] BY <1>12, <3>4
    <3> QED BY <3>3, <3>5
  <2>3. \A n \in Nat : n \in P
    <3> HIDE DEF P
    <3> QED BY <2>1, <2>2, NumberInduction
  <2>4. ASSUME NEW n \in D PROVE it[n] \in V
    <3>1. n - 1 \in Nat /\ (n - 1) + 1 = n /\ n <= N BY <1>1
    <3> QED BY <2>3, <3>1
  <2>5. it = [n \in D |-> it[n]] BY <1>10
  <2> QED BY <2>4, <2>5
<1>14. Flattens(it, ss, T) BY <1>11, <1>12, <1>13 DEF Flattens, N
<1> QED BY <1>2, <1>14 DEF N

\* A sequence of copies.
LEMMA TimesSame ==
  ASSUME NEW T, NEW x \in T, NEW m \in Nat
  PROVE  /\ [k \in 1 .. m |-> x] \in Seq(T)
         /\ Times(x, [k \in 1 .. m |-> x]) = m
         /\ \A t : t # x => Times(t, [k \in 1 .. m |-> x]) = 0
<1> DEFINE seq == [k \in 1 .. m |-> x]
<1>1. seq \in Seq(T) OBVIOUS
<1>2. {i \in DOMAIN seq : seq[i] = x} = 1 .. m OBVIOUS
<1>3. Times(x, seq) = m
  <2>1. Cardinality(1 .. m) = m BY FS_Interval
  <2> QED BY <1>2, <2>1 DEF Times
<1>4. ASSUME NEW t, t # x PROVE Times(t, seq) = 0
  <2>1. {i \in DOMAIN seq : seq[i] = t} = {} BY <1>4
  <2> QED BY <2>1, FS_EmptySet DEF Times
<1> QED BY <1>1, <1>3, <1>4

\* Copies of each element of a sequence without duplicates, one after the other.
CopiesOf(x, share) == [i \in DOMAIN x |-> [k \in 1 .. share[x[i]] |-> x[i]]]

\* The copies of each element, one after the other, are as many as its share.
LEMMA Copied ==
  ASSUME NEW T, NEW x \in Seq(T), NEW share \in [T -> Nat],
         \A i, j \in DOMAIN x : x[i] = x[j] => i = j
  PROVE  /\ FlattenSeq(CopiesOf(x, share)) \in Seq(T)
         /\ \A t : Times(t, FlattenSeq(CopiesOf(x, share))) = IF t \in Range(x) THEN share[t] ELSE 0
<1> DEFINE ss == CopiesOf(x, share)
           N == Len(x)
<1>1. N \in Nat /\ DOMAIN x = 1 .. N /\ \A i \in 1 .. N : x[i] \in T /\ share[x[i]] \in Nat OBVIOUS
<1>2. \A i \in 1 .. N : ss[i] = [k \in 1 .. share[x[i]] |-> x[i]] BY <1>1 DEF CopiesOf
<1>3. \A i \in 1 .. N : /\ ss[i] \in Seq(T) /\ Times(x[i], ss[i]) = share[x[i]]
                        /\ \A t : t # x[i] => Times(t, ss[i]) = 0
  <2> SUFFICES ASSUME NEW i \in 1 .. N
               PROVE  /\ ss[i] \in Seq(T) /\ Times(x[i], ss[i]) = share[x[i]]
                      /\ \A t : t # x[i] => Times(t, ss[i]) = 0
    OBVIOUS
  <2>1. ss[i] = [k \in 1 .. share[x[i]] |-> x[i]] /\ x[i] \in T /\ share[x[i]] \in Nat BY <1>1, <1>2
  <2> DEFINE y == x[i]
             m == share[y]
  <2>3. ss[i] = [k \in 1 .. m |-> y] /\ y \in T /\ m \in Nat BY <2>1
  <2> HIDE DEF ss, y, m
  <2>4. /\ [k \in 1 .. m |-> y] \in Seq(T) /\ Times(y, [k \in 1 .. m |-> y]) = m
        /\ \A t : t # y => Times(t, [k \in 1 .. m |-> y]) = 0
    BY <2>3, TimesSame
  <2>5. /\ ss[i] \in Seq(T) /\ Times(y, ss[i]) = m /\ \A t : t # y => Times(t, ss[i]) = 0
    BY <2>3, <2>4
  <2> QED BY <2>5 DEF y, m
<1>4. DOMAIN ss = 1 .. N BY <1>1 DEF CopiesOf
<1> HIDE DEF ss, N
<1>5. ss \in Seq(Seq(T)) /\ Len(ss) = N
  <2>1. ss = [i \in 1 .. N |-> ss[i]] BY <1>4 DEF ss, CopiesOf
  <2>2. \A i \in 1 .. N : ss[i] \in Seq(T) BY <1>3
  <2>3. ss \in [1 .. N -> Seq(T)] BY <2>1, <2>2
  <2> QED BY <1>1, <2>3
<1>6. CASE N = 0
  <2>1. FlattenSeq(ss) = ss BY <1>5, <1>6 DEF FlattenSeq
  <2>2. ss = <<>> /\ Range(x) = {}
    <3>1. DOMAIN x = {} BY <1>1, <1>6
    <3>2. ss = <<>> BY <1>5, <1>6
    <3> QED BY <3>1, <3>2 DEF Range
  <2>3. \A t : Times(t, <<>>) = 0
    <3>1. \A t : {i \in DOMAIN <<>> : <<>>[i] = t} = {} OBVIOUS
    <3> QED BY <3>1, FS_EmptySet DEF Times
  <2>4. <<>> \in Seq(T) OBVIOUS
  <2>5. FlattenSeq(ss) = <<>> BY <2>1, <2>2
  <2>6. FlattenSeq(ss) \in Seq(T) BY <2>4, <2>5
  <2>7. \A t : Times(t, FlattenSeq(ss)) = IF t \in Range(x) THEN share[t] ELSE 0
    BY <2>2, <2>3, <2>5
  <2> QED BY <2>6, <2>7 DEF ss
<1>7. CASE N # 0
  <2>1. PICK g : Flattens(g, ss, T) /\ FlattenSeq(ss) = g[N] BY <1>5, <1>7, FlattenIs
  <2>2. /\ g \in [1 .. N -> Seq(T)] /\ g[1] = ss[1]
        /\ \A n \in Nat \ {0} : n + 1 <= N => g[n + 1] = g[n] \o ss[n + 1]
    BY <1>5, <2>1 DEF Flattens
  <2> DEFINE Within(t, n) == \E i \in 1 .. n : x[i] = t
  <2>3. ASSUME NEW t PROVE Times(t, g[N]) = IF Within(t, N) THEN share[t] ELSE 0
    <3> DEFINE P == {n \in Nat : n + 1 <= N =>
                       Times(t, g[n + 1]) = IF Within(t, n + 1) THEN share[t] ELSE 0}
    <3>1. 0 \in P
      <4>1. 1 \in 1 .. N BY <1>1, <1>7
      <4>2. g[0 + 1] = ss[1] BY <2>2
      <4>3. Within(t, 0 + 1) <=> x[1] = t OBVIOUS
      <4> HIDE DEF Within
      <4>4. CASE t = x[1] BY <1>3, <4>1, <4>2, <4>3, <4>4
      <4>5. CASE t # x[1] BY <1>3, <4>1, <4>2, <4>3, <4>5
      <4> QED BY <4>4, <4>5
    <3>2. ASSUME NEW n \in Nat, n \in P PROVE n + 1 \in P
      <4> DEFINE m == n + 1
      <4> SUFFICES ASSUME m + 1 <= N
                   PROVE  Times(t, g[m + 1]) = IF Within(t, m + 1) THEN share[t] ELSE 0
        OBVIOUS
      <4>1. /\ m \in Nat \ {0} /\ m <= N /\ m \in 1 .. N /\ m + 1 \in 1 .. N
        BY <1>1
      <4>2. Times(t, g[m]) = IF Within(t, m) THEN share[t] ELSE 0 BY <3>2, <4>1
      <4> HIDE DEF m
      <4>3. g[m + 1] = g[m] \o ss[m + 1] /\ g[m] \in Seq(T) /\ ss[m + 1] \in Seq(T)
        BY <1>3, <2>2, <4>1
      <4>4. Times(t, g[m + 1]) = Times(t, g[m]) + Times(t, ss[m + 1]) BY <4>3, TimesConcat
      <4>5. Within(t, m + 1) <=> Within(t, m) \/ x[m + 1] = t
        <5>1. 1 .. (m + 1) = (1 .. m) \cup {m + 1} BY <4>1
        <5> QED BY <5>1
      <4>6. x[m + 1] = t => ~Within(t, m)
        <5>1. \A i \in 1 .. m : i \in DOMAIN x /\ m + 1 \in DOMAIN x /\ i # m + 1 BY <1>1, <4>1
        <5> QED BY <5>1
      <4>7. Within(t, m) => share[t] \in Nat
        <5>1. \A i \in 1 .. m : i \in 1 .. N BY <1>1, <4>1
        <5> QED BY <1>1, <5>1
      <4> HIDE DEF Within
      <4>8. CASE x[m + 1] = t
        <5>1. Times(t, ss[m + 1]) = share[t] /\ share[t] \in Nat BY <1>1, <1>3, <4>1, <4>8
        <5> QED BY <4>2, <4>4, <4>5, <4>6, <4>8, <5>1
      <4>9. CASE x[m + 1] # t
        <5>1. Times(t, ss[m + 1]) = 0 BY <1>3, <4>1, <4>9
        <5> QED BY <4>2, <4>4, <4>5, <4>7, <4>9, <5>1
      <4> QED BY <4>8, <4>9
    <3>3. \A n \in Nat : n \in P
      <4> HIDE DEF P
      <4> QED BY <3>1, <3>2, NumberInduction
    <3>4. N - 1 \in Nat /\ (N - 1) + 1 = N BY <1>1, <1>7
    <3>5. N - 1 \in P BY <3>3, <3>4
    <3> HIDE DEF Within
    <3> QED BY <1>1, <3>4, <3>5
  <2>4. \A t : Within(t, N) <=> t \in Range(x) BY <1>1 DEF Range
  <2>5. g[N] \in Seq(T) BY <1>1, <1>7, <2>2
  <2> HIDE DEF Within
  <2>6. \A t : Times(t, FlattenSeq(ss)) = IF t \in Range(x) THEN share[t] ELSE 0
    BY <2>1, <2>3, <2>4
  <2> QED BY <2>1, <2>5, <2>6 DEF ss
<1> QED BY <1>6, <1>7

-----------------------------------------------------------------------------
\* A weight is a number.
LEMMA WeightType ==
  ASSUME run \in Runs, NEW n \in Nodes
  PROVE  GetWeight(n) \in Int
<1> DEFINE wraps == run.wraps[n]
           W == {i \in DOMAIN wraps : wraps[i].kind = "weight"}
<1>1. /\ wraps \in Seq(Range(wraps))
      /\ \A w \in Range(wraps) : w.kind = "weight" => w.weight \in Int
  BY TaskSetAssumption
<1>2. DOMAIN wraps \subseteq Nat /\ \A i \in DOMAIN wraps : wraps[i] \in Range(wraps)
  <2> HIDE DEF wraps
  <2> QED BY <1>1 DEF Range
<1>3. W = {} => GetWeight(n) = 0 BY DEF GetWeight
<1>4. W # {} => GetWeight(n) = wraps[Min(W)].weight BY DEF GetWeight
<1>5. ASSUME W # {} PROVE Min(W) \in W
  <2>1. \E m \in W : \A k \in W : m <= k
    <3>1. W \subseteq Nat BY <1>2
    <3> HIDE DEF W
    <3> QED BY <1>5, <3>1, LeastNumber
  <2> HIDE DEF W
  <2> QED BY <2>1 DEF Min
<1> HIDE DEF wraps
<1>6. \A i \in W : wraps[i].weight \in Int BY <1>1, <1>2
<1> HIDE DEF W
<1> QED BY <1>3, <1>4, <1>5, <1>6

\* A share is at least one.
LEMMA ShareType ==
  ASSUME run \in Runs, NEW n \in Nodes
  PROVE  ShareOf(n) \in Nat \ {0} /\ ShareOf(n) = IF GetWeight(n) < 1 THEN 1 ELSE GetWeight(n)
BY WeightType DEF ShareOf

\* What a constructor lists are the set's tasks, of a random set as often as their share.
LEMMA ListedIs ==
  ASSUME run \in Runs, NEW s \in Sets
  PROVE  /\ Listed(s) \in Seq(Nodes) /\ Range(Listed(s)) = Range(Tasks[s])
         /\ s \in Random => \A t \in Range(Tasks[s]) : Times(t, Listed(s)) = ShareOf(t)
<1> DEFINE x == Tasks[s]
<1>1. x \in Seq(Nodes) /\ \A i, j \in DOMAIN x : x[i] = x[j] => i = j BY TaskSetAssumption
<1>2. CASE s \notin Random BY <1>1, <1>2 DEF Listed
<1>3. CASE s \in Random
  <2> DEFINE share == [n \in Nodes |-> ShareOf(n)]
             all == FlattenSeq(CopiesOf(x, share))
  <2>1. share \in [Nodes -> Nat] BY ShareType
  <2>2. \A i \in DOMAIN x : share[x[i]] = ShareOf(x[i]) BY <1>1
  <2>3. Listed(s) = FlattenSeq([i \in DOMAIN x |-> [k \in 1 .. ShareOf(x[i]) |-> x[i]]])
    BY <1>3 DEF Listed
  <2>4. [i \in DOMAIN x |-> [k \in 1 .. ShareOf(x[i]) |-> x[i]]]
          = CopiesOf(x, share)
    <3> HIDE DEF share, x
    <3> QED BY <2>2 DEF CopiesOf
  <2>5. Listed(s) = all BY <2>3, <2>4
  <2> HIDE DEF share, x
  <2>6. all \in Seq(Nodes) /\ \A t : Times(t, all) = IF t \in Range(x) THEN share[t] ELSE 0
    BY <1>1, <2>1, Copied
  <2> HIDE DEF all
  <2>7. \A t \in Range(x) : t \in Nodes /\ share[t] = ShareOf(t) /\ ShareOf(t) # 0
    <3>1. \A t \in Range(x) : t \in Nodes BY <1>1 DEF Range
    <3>2. \A t \in Nodes : share[t] = ShareOf(t) BY DEF share
    <3> QED BY <3>1, <3>2, ShareType
  <2>8. \A t : t \in Range(all) <=> t \in Range(x) BY <2>6, <2>7, TimesIs
  <2>9. Range(all) = Range(x) BY <2>8
  <2> QED BY <2>5, <2>6, <2>7, <2>9 DEF x
<1> QED BY <1>2, <1>3

-----------------------------------------------------------------------------
\* The height of a set above its lowest leaves.
Heights(h) ==
  /\ h \in [Sets -> 0 .. Cardinality(Sets)] /\ Cardinality(Sets) \in Nat
  /\ \A s \in Sets : \A t \in Range(Tasks[s]) \cap Sets : h[t] < h[s]

\* The sets have heights, which recursion and induction over the tree go by.
LEMMA HeightExists == \E h : Heights(h)
<1>1. IsFiniteSet(Sets) BY TaskSetAssumption
<1>2. Cardinality(Sets) \in Nat BY <1>1, FS_CardinalityType
<1> QED BY <1>2, TaskSetAssumption DEF Heights

\* A set of sets that has each one all of whose sets it has, has them all.
LEMMA TreeInduction ==
  ASSUME NEW P, \A s \in Sets : (\A t \in Range(Tasks[s]) \cap Sets : t \in P) => s \in P
  PROVE  \A s \in Sets : s \in P
<1>1. PICK h : Heights(h) BY HeightExists
<1> DEFINE Q == {n \in Nat : \A s \in Sets : h[s] < n => s \in P}
<1>2. 0 \in Q BY <1>1 DEF Heights
<1>3. ASSUME NEW n \in Nat, n \in Q PROVE n + 1 \in Q
  <2> SUFFICES ASSUME NEW s \in Sets, h[s] < n + 1 PROVE s \in P OBVIOUS
  <2>1. \A t \in Range(Tasks[s]) \cap Sets : h[t] < n BY <1>1 DEF Heights
  <2> QED BY <1>3, <2>1
<1>4. \A n \in Nat : n \in Q
  <2> HIDE DEF Q
  <2> QED BY <1>2, <1>3, NumberInduction
<1> QED BY <1>1, <1>4 DEF Heights

\* Whether a task needs a tag is a truth value.
LEMMA NeedsTagType ==
  ASSUME NEW b \in BOOLEAN, NEW t
  PROVE  NeedsTag(b, t) \in BOOLEAN
BY DEF NeedsTag

\* The tasks of a set that stay when f is what the sets within filter to.
Kept(f, s, b) ==
  {t \in Range(Tasks[s]) : /\ ~Excluded(t)
                           /\ IF t \in Sets THEN f[t][NeedsTag(b, t)] # <<>> ELSE ~NeedsTag(b, t)}

\* The recursive definition of FilterTasks has a solution.
LEMMA FilterTasksIs ==
  ASSUME run \in Runs
  PROVE  \A s \in Sets, b \in BOOLEAN :
           FilterTasks[s][b] = Among(Listed(s), Kept(FilterTasks, s, b))
<1> DEFINE V == [BOOLEAN -> Seq(Nodes)]
           next(g, s, b) == Among(Listed(s), Kept(g, s, b))
           step == [g \in [Sets -> V] |-> [s \in Sets |-> [b \in BOOLEAN |-> next(g, s, b)]]]
           it == CHOOSE g : g = [s \in Sets |-> [b \in BOOLEAN |-> next(g, s, b)]]
<1>1. FilterTasks = it BY DEF FilterTasks, Kept
<1>2. PICK h : Heights(h) BY HeightExists
<1>3. ASSUME NEW g, NEW s \in Sets, NEW b PROVE next(g, s, b) \in Seq(Nodes)
  <2>1. Listed(s) \in Seq(Nodes) BY ListedIs
  <2> QED BY <2>1, AmongTimes
<1>4. step \in [[Sets -> V] -> [Sets -> V]]
  <2> HIDE DEF next
  <2> QED BY <1>3
<1>5. ASSUME NEW g \in [Sets -> V], NEW k \in [Sets -> V], NEW s \in Sets, Below(h, s, g, k)
      PROVE  step[g][s] = step[k][s]
  <2>1. \A t \in Range(Tasks[s]) \cap Sets : g[t] = k[t] BY <1>2, <1>5 DEF Below, Heights
  <2>2. ASSUME NEW b \in BOOLEAN PROVE Kept(g, s, b) = Kept(k, s, b) BY <2>1 DEF Kept
  <2>3. \A b \in BOOLEAN : next(g, s, b) = next(k, s, b) BY <2>2
  <2> HIDE DEF next
  <2> QED BY <2>3
<1>6. \E g \in [Sets -> V] : g = step[g]
  <2> HIDE DEF step
  <2>1. V # {}
    <3>1. [b \in BOOLEAN |-> <<>>] \in V OBVIOUS
    <3> QED BY <3>1
  <2> HIDE DEF V
  <2>2. \E bound \in Nat : h \in [Sets -> 0 .. bound] BY <1>2 DEF Heights
  <2>3. Steps(Sets, V, h, step) BY <1>4, <1>5, <2>1, <2>2 DEF Steps
  <2> QED BY <2>3, Recursion
<1>7. \E g : g = [s \in Sets |-> [b \in BOOLEAN |-> next(g, s, b)]]
  <2> HIDE DEF next, V
  <2> QED BY <1>6
<1> HIDE DEF next
<1>8. it = [s \in Sets |-> [b \in BOOLEAN |-> next(it, s, b)]] BY <1>7
<1> HIDE DEF it
<1>9. \A s \in Sets, b \in BOOLEAN : it[s][b] = next(it, s, b) BY <1>8
<1> QED BY <1>1, <1>9 DEF next

\* What of a set stays, and how often a random set draws it.
LEMMA FilteredIs ==
  ASSUME run \in Runs, NEW s \in Sets, NEW b \in BOOLEAN
  PROVE  /\ FilterTasks[s][b] \in Seq(Nodes)
         /\ Range(FilterTasks[s][b]) = Kept(FilterTasks, s, b)
         /\ s \in Random => \A t \in Range(FilterTasks[s][b]) :
              Times(t, FilterTasks[s][b]) = ShareOf(t)
<1> DEFINE all == Listed(s)
           kept == Kept(FilterTasks, s, b)
           left == FilterTasks[s][b]
<1>1. left = Among(all, kept) BY FilterTasksIs
<1>2. all \in Seq(Nodes) /\ Range(all) = Range(Tasks[s]) BY ListedIs
<1>3. s \in Random => \A t \in Range(Tasks[s]) : Times(t, all) = ShareOf(t) BY ListedIs
<1>4. kept \subseteq Range(Tasks[s]) BY DEF Kept
<1> HIDE DEF all, kept, left
<1>5. left \in Seq(Nodes) /\ \A t : Times(t, left) = IF t \in kept THEN Times(t, all) ELSE 0
  BY <1>1, <1>2, AmongTimes
<1>6. \A t : t \in Range(left) <=> Times(t, left) # 0 BY <1>5, TimesIs
<1>7. \A t : t \in Range(all) <=> Times(t, all) # 0 BY <1>2, TimesIs
<1>8. Range(left) = kept BY <1>2, <1>4, <1>5, <1>6, <1>7
<1> QED BY <1>3, <1>4, <1>5, <1>8 DEF left, kept

\* The recursive definition of Left has a solution.
LEMMA LeftIs ==
  ASSUME run \in Runs, NEW s \in Sets, NEW b \in BOOLEAN, NEW n
  PROVE  n \in Left[s][b] <=>
           \E t \in Range(FilterTasks[s][b]) :
             /\ t \in Sets => n \in Left[t][NeedsTag(b, t)]
             /\ t \notin Sets => n = t
<1> DEFINE V == [BOOLEAN -> SUBSET Nodes]
           part(g, c, t) == IF t \in Sets THEN g[t][NeedsTag(c, t)] ELSE {t}
           next(g, q, c) == UNION {part(g, c, t) : t \in Range(FilterTasks[q][c])}
           step == [g \in [Sets -> V] |-> [q \in Sets |-> [c \in BOOLEAN |-> next(g, q, c)]]]
           it == CHOOSE g : g = [q \in Sets |-> [c \in BOOLEAN |-> next(g, q, c)]]
<1>1. Left = it BY DEF Left
<1>2. PICK h : Heights(h) BY HeightExists
<1>0. \A q \in Sets, c \in BOOLEAN : Range(FilterTasks[q][c]) \subseteq Range(Tasks[q])
  BY FilteredIs DEF Kept
<1>10. \A q \in Sets : Range(Tasks[q]) \subseteq Nodes BY DEF Nodes
<1>3. ASSUME NEW g \in [Sets -> V], NEW q \in Sets, NEW c \in BOOLEAN
      PROVE  next(g, q, c) \in SUBSET Nodes
  <2>1. ASSUME NEW t \in Range(FilterTasks[q][c]) PROVE part(g, c, t) \subseteq Nodes
    <3>1. t \in Nodes BY <1>0, <1>10
    <3>2. NeedsTag(c, t) \in BOOLEAN BY NeedsTagType
    <3> QED BY <3>1, <3>2
  <2> HIDE DEF part
  <2> QED BY <2>1
<1>4. step \in [[Sets -> V] -> [Sets -> V]]
  <2> HIDE DEF next
  <2> QED BY <1>3
<1>5. ASSUME NEW g \in [Sets -> V], NEW k \in [Sets -> V], NEW q \in Sets, Below(h, q, g, k)
      PROVE  step[g][q] = step[k][q]
  <2>1. \A t \in Range(Tasks[q]) \cap Sets : g[t] = k[t] BY <1>2, <1>5 DEF Below, Heights
  <2>2. ASSUME NEW c \in BOOLEAN, NEW t \in Range(FilterTasks[q][c]) PROVE part(g, c, t) = part(k, c, t)
    <3>1. t \in Range(Tasks[q]) BY <1>0
    <3> QED BY <2>1, <3>1
  <2> HIDE DEF part
  <2>3. \A c \in BOOLEAN : next(g, q, c) = next(k, q, c) BY <2>2
  <2> HIDE DEF next
  <2> QED BY <2>3
<1>6. \E g \in [Sets -> V] : g = step[g]
  <2> HIDE DEF step
  <2>1. V # {}
    <3>1. [c \in BOOLEAN |-> {}] \in V OBVIOUS
    <3> QED BY <3>1
  <2> HIDE DEF V
  <2>2. \E bound \in Nat : h \in [Sets -> 0 .. bound] BY <1>2 DEF Heights
  <2>3. Steps(Sets, V, h, step) BY <1>4, <1>5, <2>1, <2>2 DEF Steps
  <2> QED BY <2>3, Recursion
<1>7. \E g : g = [q \in Sets |-> [c \in BOOLEAN |-> next(g, q, c)]]
  <2> HIDE DEF next, V
  <2> QED BY <1>6
<1> HIDE DEF next
<1>8. it = [q \in Sets |-> [c \in BOOLEAN |-> next(it, q, c)]] BY <1>7
<1> HIDE DEF it
<1>9. it[s][b] = next(it, s, b) BY <1>8
<1> QED BY <1>1, <1>9 DEF next

-----------------------------------------------------------------------------
\* A part of the tree that has what the sets in it list.
Closed(C) == \A s \in C \cap Sets : Range(Tasks[s]) \subseteq C

\* What is inside a node is the least part of the tree that has the node.
LEMMA InsideIs ==
  ASSUME NEW n \in Nodes
  PROVE  /\ n \in Inside[n] /\ Inside[n] \subseteq Nodes /\ Closed(Inside[n])
         /\ \A C \in SUBSET Nodes : n \in C /\ Closed(C) => Inside[n] \subseteq C
<1>1. \A m : m \in Inside[n] <=>
        m \in Nodes /\ \A C \in SUBSET Nodes : n \in C /\ Closed(C) => m \in C
  BY DEF Inside, Closed
<1>2. \A s \in Sets : Range(Tasks[s]) \subseteq Nodes BY DEF Nodes
<1>3. ASSUME NEW s \in Inside[n] \cap Sets, NEW t \in Range(Tasks[s]) PROVE t \in Inside[n]
  <2>1. t \in Nodes BY <1>2
  <2>2. ASSUME NEW C \in SUBSET Nodes, n \in C, Closed(C) PROVE t \in C
    <3>1. s \in C BY <1>1, <2>2
    <3> QED BY <2>2, <3>1 DEF Closed
  <2> QED BY <1>1, <2>1, <2>2
<1>4. Closed(Inside[n]) BY <1>3 DEF Closed
<1> QED BY <1>1, <1>4

\* Only itself is inside a leaf.
LEMMA InsideLeaf ==
  ASSUME NEW n \in Leaves
  PROVE  Inside[n] = {n}
<1>1. Closed({n}) /\ n \in Nodes BY DEF Closed, Leaves
<1> QED BY <1>1, InsideIs

\* What is inside a set is the set or inside one of its tasks.
LEMMA InsideSet ==
  ASSUME NEW s \in Sets, NEW n \in Inside[s], n # s
  PROVE  \E t \in Range(Tasks[s]) : n \in Inside[t]
<1> DEFINE C == {s} \cup UNION {Inside[t] : t \in Range(Tasks[s])}
<1>1. s \in Nodes /\ Range(Tasks[s]) \subseteq Nodes BY DEF Nodes
<1>2. C \in SUBSET Nodes
  <2>1. \A t \in Range(Tasks[s]) : Inside[t] \subseteq Nodes BY <1>1, InsideIs
  <2> QED BY <1>1, <2>1
<1>3. Closed(C)
  <2>1. ASSUME NEW q \in C \cap Sets, NEW u \in Range(Tasks[q]) PROVE u \in C
    <3>1. CASE q = s
      <4>1. u \in Inside[u] BY <1>1, <3>1, InsideIs
      <4> QED BY <3>1, <4>1
    <3>2. CASE q # s
      <4>1. PICK t \in Range(Tasks[s]) : q \in Inside[t] BY <3>2
      <4>2. Closed(Inside[t]) BY <1>1, InsideIs
      <4>3. u \in Inside[t] BY <4>1, <4>2 DEF Closed
      <4> QED BY <4>3
    <3> QED BY <3>1, <3>2
  <2> HIDE DEF C
  <2> QED BY <2>1 DEF Closed
<1>4. Inside[s] \subseteq C
  <2>1. s \in C OBVIOUS
  <2> HIDE DEF C
  <2> QED BY <1>1, <1>2, <1>3, <2>1, InsideIs
<1> QED BY <1>4

\* A task is inside what its set is inside, and inside itself.
LEMMA InsideTask ==
  ASSUME NEW s \in Sets, NEW t \in Range(Tasks[s]), NEW w \in Nodes
  PROVE  t \in Inside[w] <=> s \in Inside[w] \/ t = w
<1>1. s \in Nodes /\ t \in Nodes BY DEF Nodes
<1>2. s \in Inside[w] => t \in Inside[w] BY InsideIs DEF Closed
<1>3. t = w => t \in Inside[w] BY InsideIs
<1>4. ASSUME t \in Inside[w], t # w, s \notin Inside[w] PROVE FALSE
  <2> DEFINE C == Inside[w] \ {t}
  <2>1. w \in C /\ C \in SUBSET Nodes BY <1>4, InsideIs
  <2>2. ASSUME NEW q \in C \cap Sets, NEW u \in Range(Tasks[q]) PROVE u \in C
    <3>1. u \in Inside[w] BY InsideIs DEF Closed
    <3>2. u # t
      <4> SUFFICES ASSUME u = t PROVE FALSE OBVIOUS
      <4>1. PICK i \in DOMAIN Tasks[q] : Tasks[q][i] = u BY DEF Range
      <4>2. PICK j \in DOMAIN Tasks[s] : Tasks[s][j] = t BY DEF Range
      <4>3. q = s BY <4>1, <4>2, TaskSetAssumption
      <4> QED BY <1>4, <4>3
    <3> QED BY <3>1, <3>2
  <2>3. Closed(C)
    <3> HIDE DEF C
    <3> QED BY <2>2 DEF Closed
  <2>4. Inside[w] \subseteq C
    <3> HIDE DEF C
    <3> QED BY <2>1, <2>3, InsideIs
  <2> QED BY <1>4, <2>4
<1> QED BY <1>2, <1>3, <1>4

\* All nodes but the root are in the list of a set.
LEMMA RootIs ==
  /\ Root \in Sets /\ \A s \in Sets : Root \notin Range(Tasks[s])
  /\ \A n \in Nodes \ {Root} : \E s \in Sets : n \in Range(Tasks[s])
<1>1. Sets \ UNION {Range(Tasks[s]) : s \in Sets} = {Root} BY TaskSetAssumption
<1> QED BY <1>1 DEF Nodes

\* Everything is inside the root.
LEMMA RootHasAll ==
  ASSUME NEW n \in Nodes
  PROVE  n \in Inside[Root]
<1>1. PICK h : Heights(h) BY HeightExists
<1>2. Root \in Nodes BY RootIs DEF Nodes
<1>3. \A s \in Sets : s \in Inside[Root]
  <2> DEFINE top == Cardinality(Sets)
             Q == {k \in Nat : \A s \in Sets : top - h[s] < k => s \in Inside[Root]}
  <2>1. top \in Nat /\ \A s \in Sets : h[s] \in 0 .. top BY <1>1 DEF Heights
  <2> HIDE DEF top
  <2>2. 0 \in Q BY <2>1
  <2>3. ASSUME NEW k \in Nat, k \in Q PROVE k + 1 \in Q
    <3> SUFFICES ASSUME NEW s \in Sets, top - h[s] < k + 1 PROVE s \in Inside[Root] OBVIOUS
    <3>1. CASE s = Root BY <1>2, <3>1, InsideIs
    <3>2. CASE s # Root
      <4>1. s \in Nodes BY DEF Nodes
      <4>2. PICK q \in Sets : s \in Range(Tasks[q]) BY <3>2, <4>1, RootIs
      <4>3. h[s] < h[q] BY <1>1, <4>2 DEF Heights
      <4>4. top - h[q] < k BY <2>1, <4>3
      <4>5. q \in Inside[Root] BY <2>3, <4>4
      <4> QED BY <1>2, <4>2, <4>5, InsideTask
    <3> QED BY <3>1, <3>2
  <2>4. \A k \in Nat : k \in Q
    <3> HIDE DEF Q
    <3> QED BY <2>2, <2>3, NumberInduction
  <2>5. top + 1 \in Q BY <2>1, <2>4
  <2> QED BY <2>1, <2>5
<1>4. CASE n = Root BY <1>3, <1>4, RootIs
<1>5. CASE n # Root
  <2>1. PICK s \in Sets : n \in Range(Tasks[s]) BY <1>5, RootIs
  <2> QED BY <1>2, <1>3, <2>1, InsideTask
<1> QED BY <1>4, <1>5

\* The way to a task is the way to its set and the task.
LEMMA WayIs ==
  /\ TagsOnWay(Root) = {}
  /\ \A s \in Sets : \A t \in Range(Tasks[s]) : TagsOnWay(t) = TagsOnWay(s) \cup Tags(t)
<1>1. WayTo(Root) = {}
  <2> SUFFICES ASSUME NEW w \in Nodes, w # Root, Root \in Inside[w] PROVE FALSE
    BY DEF WayTo
  <2> DEFINE C == Nodes \ {Root}
  <2>1. Closed(C)
    <3>1. ASSUME NEW s \in C \cap Sets, NEW t \in Range(Tasks[s]) PROVE t \in C
      BY RootIs DEF Nodes
    <3> HIDE DEF C
    <3> QED BY <3>1 DEF Closed
  <2>2. w \in C /\ C \in SUBSET Nodes OBVIOUS
  <2>3. Inside[w] \subseteq C
    <3> HIDE DEF C
    <3> QED BY <2>1, <2>2, InsideIs
  <2> QED BY <2>3
<1>2. ASSUME NEW s \in Sets, NEW t \in Range(Tasks[s]) PROVE WayTo(t) = WayTo(s) \cup {t}
  <2>1. t \in Nodes \ {Root} BY RootIs DEF Nodes
  <2> QED BY <2>1, InsideTask DEF WayTo
<1>3. TagsOnWay(Root) = {} BY <1>1 DEF TagsOnWay
<1>4. ASSUME NEW s \in Sets, NEW t \in Range(Tasks[s])
      PROVE  TagsOnWay(t) = TagsOnWay(s) \cup Tags(t)
  BY <1>2 DEF TagsOnWay
<1> QED BY <1>3, <1>4

\* Whether tags are asked for and nothing on the way to a set has one.
Unmatched(n) == run.given /\ TagsOnWay(n) \cap run.include = {}

\* NeedsTag tells whether nothing on the way has a tag that is asked for.
LEMMA UnmatchedIs ==
  ASSUME run \in Runs
  PROVE  /\ \A n : Unmatched(n) \in BOOLEAN
         /\ Unmatched(Root) = run.given
         /\ \A s \in Sets : \A t \in Range(Tasks[s]) : NeedsTag(Unmatched(s), t) = Unmatched(t)
<1>1. run.given \in BOOLEAN BY TaskSetAssumption
<1> QED BY <1>1, WayIs DEF Unmatched, NeedsTag

\* What is left of a set can run.
LEMMA LeftCanRun ==
  ASSUME run \in Runs, NEW s \in Sets, TagsOnWay(s) \cap run.exclude = {}
  PROVE  Left[s][Unmatched(s)] \subseteq CanRun
<1> DEFINE P == {q \in Sets : TagsOnWay(q) \cap run.exclude = {} => Left[q][Unmatched(q)] \subseteq CanRun}
<1>1. ASSUME NEW q \in Sets, \A t \in Range(Tasks[q]) \cap Sets : t \in P PROVE q \in P
  <2> SUFFICES ASSUME TagsOnWay(q) \cap run.exclude = {}, NEW n \in Left[q][Unmatched(q)]
               PROVE  n \in CanRun
    OBVIOUS
  <2> DEFINE b == Unmatched(q)
  <2>1. b \in BOOLEAN BY UnmatchedIs
  <2>2. PICK t \in Range(FilterTasks[q][b]) : /\ t \in Sets => n \in Left[t][NeedsTag(b, t)]
                                              /\ t \notin Sets => n = t
    <3> HIDE DEF b
    <3>1. n \in Left[q][b] BY DEF b
    <3> QED BY <2>1, <3>1, LeftIs
  <2>3. t \in Kept(FilterTasks, q, b)
    <3> HIDE DEF b
    <3> QED BY <2>1, <2>2, FilteredIs
  <2>4. /\ t \in Range(Tasks[q]) /\ ~Excluded(t)
        /\ t \notin Sets => ~NeedsTag(b, t)
    BY <2>3 DEF Kept
  <2>5. TagsOnWay(t) \cap run.exclude = {} BY <2>4, WayIs DEF Excluded
  <2>6. NeedsTag(b, t) = Unmatched(t) BY <2>4, UnmatchedIs
  <2>7. CASE t \in Sets BY <1>1, <2>2, <2>4, <2>5, <2>6, <2>7
  <2>8. CASE t \notin Sets
    <3>1. t \in Leaves /\ n = t BY <2>2, <2>4, <2>8 DEF Leaves, Nodes
    <3>2. ~Unmatched(t) BY <2>4, <2>6, <2>8
    <3> QED BY <2>5, <3>1, <3>2 DEF CanRun, Unmatched
  <2> QED BY <2>7, <2>8
<1>2. \A q \in Sets : q \in P
  <2> HIDE DEF P
  <2> QED BY <1>1, TreeInduction
<1> QED BY <1>2

\* What can run is left in every set it is inside.
LEMMA CanRunLeft ==
  ASSUME run \in Runs, NEW n \in CanRun, NEW s \in Sets, n \in Inside[s]
  PROVE  n \in Left[s][Unmatched(s)]
<1> DEFINE P == {q \in Sets : n \in Inside[q] => n \in Left[q][Unmatched(q)]}
<1>1. n \in Leaves /\ n \in Nodes /\ n \notin Sets BY DEF CanRun, Leaves
<1>2. ASSUME NEW q \in Sets, \A t \in Range(Tasks[q]) \cap Sets : t \in P PROVE q \in P
  <2> SUFFICES ASSUME n \in Inside[q] PROVE n \in Left[q][Unmatched(q)] OBVIOUS
  <2> DEFINE b == Unmatched(q)
  <2>1. b \in BOOLEAN BY UnmatchedIs
  <2>2. PICK t \in Range(Tasks[q]) : n \in Inside[t] BY <1>1, InsideSet
  <2>3. t \in Nodes \ {Root} BY RootIs DEF Nodes
  <2>4. ~Excluded(t)
    <3>1. t \in WayTo(n) BY <2>2, <2>3 DEF WayTo
    <3>2. TagsOnWay(n) \cap run.exclude = {} BY DEF CanRun
    <3> QED BY <3>1, <3>2 DEF TagsOnWay, Excluded
  <2>5. NeedsTag(b, t) = Unmatched(t) BY UnmatchedIs
  <2>6. CASE t \in Sets
    <3>1. n \in Left[t][Unmatched(t)] BY <1>2, <2>2, <2>6
    <3> DEFINE c == Unmatched(t)
    <3>2. c \in BOOLEAN BY UnmatchedIs
    <3>3. FilterTasks[t][c] # <<>>
      <4> HIDE DEF c
      <4>1. n \in Left[t][c] BY <3>1 DEF c
      <4>2. \E u : u \in Range(FilterTasks[t][c]) BY <2>6, <3>2, <4>1, LeftIs
      <4>3. Range(<<>>) = {} BY DEF Range
      <4> QED BY <4>2, <4>3
    <3>4. t \in Kept(FilterTasks, q, b) BY <2>4, <2>5, <2>6, <3>3 DEF Kept
    <3> HIDE DEF b, c
    <3>5. t \in Range(FilterTasks[q][b]) BY <2>1, <3>4, FilteredIs
    <3>6. n \in Left[t][NeedsTag(b, t)] BY <2>5, <3>1
    <3>7. n \in Left[q][b] BY <2>1, <2>6, <3>5, <3>6, LeftIs
    <3> QED BY <3>7 DEF b
  <2>7. CASE t \notin Sets
    <3>1. t \in Leaves /\ n = t BY <2>2, <2>3, <2>7, InsideLeaf DEF Leaves
    <3>2. ~Unmatched(t) BY <3>1 DEF CanRun, Unmatched
    <3>3. t \in Kept(FilterTasks, q, b) BY <2>4, <2>5, <2>7, <3>2 DEF Kept
    <3> HIDE DEF b
    <3>4. t \in Range(FilterTasks[q][b]) BY <2>1, <3>3, FilteredIs
    <3>5. n \in Left[q][b] BY <2>1, <2>7, <3>1, <3>4, LeftIs
    <3> QED BY <3>5 DEF b
  <2> QED BY <2>6, <2>7
<1>3. \A q \in Sets : q \in P
  <2> HIDE DEF P
  <2> QED BY <1>2, TreeInduction
<1> QED BY <1>3

\* What is left of the root is what can run.
LEMMA FilterIs ==
  ASSUME run \in Runs
  PROVE  Left[Root][run.given] = CanRun
<1>1. Root \in Sets /\ TagsOnWay(Root) \cap run.exclude = {} BY RootIs, WayIs
<1>2. Left[Root][Unmatched(Root)] \subseteq CanRun BY <1>1, LeftCanRun
<1>3. ASSUME NEW n \in CanRun PROVE n \in Left[Root][Unmatched(Root)]
  <2>1. n \in Inside[Root] BY RootHasAll DEF CanRun, Leaves
  <2> QED BY <1>1, <2>1, CanRunLeft
<1>4. Unmatched(Root) = run.given BY UnmatchedIs
<1> QED BY <1>2, <1>3, <1>4

-----------------------------------------------------------------------------
\* What a frame can be, and what the filter makes true of it as long as it runs.
Labels == {"onStart", "check", "pick", "task", "wait", "onStop", "panic"}
Frames == [set : Sets, needsTag : BOOLEAN, at : Labels, queue : Seq(Scheduled), index : Nat \ {0},
           task : Nodes \cup {"none"}, out : Results \cup {"none"}]

Fits(f) ==
  /\ f \in Frames
  /\ f.needsTag = Unmatched(f.set) /\ TagsOnWay(f.set) \cap run.exclude = {}
  /\ Filtered(f) = <<>> \/ f.index <= Len(Filtered(f))
  /\ f.set # Root => Filtered(f) # <<>>
  /\ f.task \in Leaves => f.task \in CanRun \cup Scheduled
  /\ f.at = "panic" => Filtered(f) = <<>>

FilterInv == run \in Runs /\ \A i \in 1 .. Len(stack) : Fits(stack[i])

\* The run never changes, nor does what depends on it alone.
LEMMA RigidTags ==
  ASSUME run' = run, NEW n
  PROVE  Tags(n)' = Tags(n) /\ GetWeight(n)' = GetWeight(n)
BY DEF Tags, GetWeight

\* Neither do the filters.
LEMMA RigidFilter ==
  ASSUME run' = run
  PROVE  FilterTasks' = FilterTasks
BY DEF FilterTasks, Listed, ShareOf, GetWeight, Excluded, NeedsTag, Tags

\* Nor whether a frame fits.
LEMMA RigidFits ==
  ASSUME run' = run, NEW CONSTANT f
  PROVE  Fits(f)' = Fits(f)
BY RigidFilter DEF Fits, Unmatched, TagsOnWay, Filtered, CanRun, Tags

\* A change of the stack that leaves the run alone.
LEMMA FilterStep ==
  ASSUME FilterInv, run' = run, \A i \in 1 .. Len(stack') : Fits(stack'[i])
  PROVE  FilterInv'
<1>1. run' \in Runs BY DEF FilterInv
<1>2. ASSUME NEW i \in 1 .. Len(stack') PROVE Fits(stack[i])'
  <2>1. PICK f : f = stack'[i] OBVIOUS
  <2>2. Fits(f) BY <2>1
  <2>3. Fits(f)' BY <2>2, RigidFits
  <2> QED BY <2>1, <2>3
<1> QED BY <1>1, <1>2 DEF FilterInv

\* The frames of a stack, the top one apart.
LEMMA FitsTop ==
  ASSUME IndInv, FilterInv, stack # <<>>
  PROVE  /\ Fits(Top) /\ Len(Tail(stack)) \in Nat
         /\ \A i \in 1 .. Len(Tail(stack)) : Fits(Tail(stack)[i])
<1>1. Calls(stack) BY DEF IndInv, ControlInv
<1>2. PICK F : stack \in Seq(F) BY <1>1 DEF Calls
<1>3. Len(stack) \in Nat \ {0} /\ Head(stack) = stack[1] BY <1>2
<1>4. Len(Tail(stack)) = Len(stack) - 1 /\ \A i \in 1 .. Len(stack) - 1 : Tail(stack)[i] = stack[i + 1]
  BY <1>2, <1>3
<1>5. \A i \in 1 .. Len(stack) - 1 : i + 1 \in 1 .. Len(stack) BY <1>3
<1>6. Fits(stack[1]) BY <1>3 DEF FilterInv
<1> QED BY <1>3, <1>4, <1>5, <1>6 DEF FilterInv, Top

\* A change of the frame on top.
LEMMA FilterMove ==
  ASSUME IndInv, FilterInv, stack # <<>>, run' = run, NEW f, Fits(f), Move(f)
  PROVE  FilterInv'
<1>1. stack' = <<f>> \o Tail(stack) BY DEF Move
<1> DEFINE t == Tail(stack)
<1>2. PICK F : t \in Seq(F)
  <2>1. Calls(stack) BY DEF IndInv, ControlInv
  <2>2. Calls(t) BY <2>1, CallsTail
  <2> QED BY <2>2 DEF Calls
<1>3. \A i \in 1 .. Len(t) : Fits(t[i]) BY FitsTop
<1> HIDE DEF t
<1>4. /\ Len(<<f>> \o t) = Len(t) + 1 /\ Len(t) \in Nat /\ (<<f>> \o t)[1] = f
      /\ \A i \in 2 .. Len(t) + 1 : (<<f>> \o t)[i] = t[i - 1] /\ i - 1 \in 1 .. Len(t)
  <2>1. <<f>> \in Seq(F \cup {f}) /\ t \in Seq(F \cup {f}) /\ Len(<<f>>) = 1 BY <1>2
  <2> QED BY <2>1
<1>5. \A i \in 1 .. Len(t) + 1 : Fits((<<f>> \o t)[i])
  <2> TAKE i \in 1 .. Len(t) + 1
  <2>1. i = 1 \/ i \in 2 .. Len(t) + 1 BY <1>4
  <2> QED BY <1>3, <1>4, <2>1
<1>6. \A i \in 1 .. Len(stack') : Fits(stack'[i]) BY <1>1, <1>4, <1>5 DEF t
<1> QED BY <1>6, FilterStep

\* A set is run within another.
LEMMA FilterPush ==
  ASSUME IndInv, FilterInv, stack # <<>>, run' = run, NEW g, Fits(g), NEW f, Fits(f),
         stack' = <<g, f>> \o Tail(stack)
  PROVE  FilterInv'
<1> DEFINE t == Tail(stack)
<1>2. PICK F : t \in Seq(F)
  <2>1. Calls(stack) BY DEF IndInv, ControlInv
  <2>2. Calls(t) BY <2>1, CallsTail
  <2> QED BY <2>2 DEF Calls
<1>3. \A i \in 1 .. Len(t) : Fits(t[i]) BY FitsTop
<1> HIDE DEF t
<1>4. /\ Len(<<g, f>> \o t) = Len(t) + 2 /\ Len(t) \in Nat
      /\ (<<g, f>> \o t)[1] = g /\ (<<g, f>> \o t)[2] = f
      /\ \A i \in 3 .. Len(t) + 2 : (<<g, f>> \o t)[i] = t[i - 2] /\ i - 2 \in 1 .. Len(t)
  <2>1. <<g, f>> \in Seq(F \cup {g, f}) /\ t \in Seq(F \cup {g, f}) /\ Len(<<g, f>>) = 2 BY <1>2
  <2> QED BY <2>1
<1>5. \A i \in 1 .. Len(t) + 2 : Fits((<<g, f>> \o t)[i])
  <2> TAKE i \in 1 .. Len(t) + 2
  <2>1. i = 1 \/ i = 2 \/ i \in 3 .. Len(t) + 2 BY <1>4
  <2> QED BY <1>3, <1>4, <2>1
<1>6. \A i \in 1 .. Len(stack') : Fits(stack'[i]) BY <1>4, <1>5 DEF t
<1> QED BY <1>6, FilterStep

\* The frame on top is gone.
LEMMA FilterReturn ==
  ASSUME IndInv, FilterInv, stack # <<>>, run' = run, stack' = Tail(stack)
  PROVE  FilterInv'
<1>1. \A i \in 1 .. Len(stack') : Fits(stack'[i]) BY FitsTop
<1> QED BY <1>1, FilterStep

\* The stack does not change.
LEMMA FilterSame ==
  ASSUME FilterInv, run' = run, stack' = stack
  PROVE  FilterInv'
<1>1. \A i \in 1 .. Len(stack') : Fits(stack'[i]) BY DEF FilterInv
<1> QED BY <1>1, FilterStep

\* A frame that differs in where it is, in its queue and in what it returns.
LEMMA FitsLike ==
  ASSUME NEW f, Fits(f), NEW g \in Frames, g.set = f.set, g.needsTag = f.needsTag,
         g.index = f.index, g.task \in {f.task, "none"},
         g.at = "panic" => Filtered(f) = <<>>
  PROVE  Fits(g)
<1>1. Filtered(g) = Filtered(f) BY DEF Filtered
<1>2. "none" \notin Leaves BY TaskSetAssumption DEF Leaves
<1> QED BY <1>1, <1>2 DEF Fits

\* The changes that actions make to the frame on top.
LEMMA FitsMoved ==
  ASSUME NEW f, Fits(f)
  PROVE  /\ \A l \in Labels \ {"panic"} : /\ Fits([f EXCEPT !.at = l])
                                          /\ Fits([[f EXCEPT !.task = "none"] EXCEPT !.at = l])
         /\ \A r \in Results : Fits([f EXCEPT !.at = "onStop", !.task = "none", !.out = r])
         /\ Filtered(f) = <<>> => Fits([f EXCEPT !.at = "panic"])
<1>0. f \in Frames BY DEF Fits
<1>1. ASSUME NEW l \in Labels \ {"panic"} PROVE Fits([f EXCEPT !.at = l])
  <2> DEFINE g == [f EXCEPT !.at = l]
  <2>1. /\ g \in Frames /\ g.set = f.set /\ g.needsTag = f.needsTag /\ g.index = f.index
        /\ g.task = f.task /\ g.at # "panic"
    BY <1>0 DEF Frames
  <2> HIDE DEF g
  <2>2. Fits(g) BY <2>1, FitsLike
  <2> QED BY <2>2 DEF g
<1>2. ASSUME NEW l \in Labels \ {"panic"} PROVE Fits([[f EXCEPT !.task = "none"] EXCEPT !.at = l])
  <2> DEFINE g == [[f EXCEPT !.task = "none"] EXCEPT !.at = l]
  <2>1. /\ g \in Frames /\ g.set = f.set /\ g.needsTag = f.needsTag /\ g.index = f.index
        /\ g.task = "none" /\ g.at # "panic"
    BY <1>0 DEF Frames
  <2> HIDE DEF g
  <2>2. Fits(g) BY <2>1, FitsLike
  <2> QED BY <2>2 DEF g
<1>3. ASSUME NEW r \in Results PROVE Fits([f EXCEPT !.at = "onStop", !.task = "none", !.out = r])
  <2> DEFINE g == [f EXCEPT !.at = "onStop", !.task = "none", !.out = r]
  <2>1. /\ g \in Frames /\ g.set = f.set /\ g.needsTag = f.needsTag /\ g.index = f.index
        /\ g.task = "none" /\ g.at # "panic"
    BY <1>0 DEF Frames, Labels
  <2> HIDE DEF g
  <2>2. Fits(g) BY <2>1, FitsLike
  <2> QED BY <2>2 DEF g
<1>4. ASSUME Filtered(f) = <<>> PROVE Fits([f EXCEPT !.at = "panic"])
  <2> DEFINE g == [f EXCEPT !.at = "panic"]
  <2>1. /\ g \in Frames /\ g.set = f.set /\ g.needsTag = f.needsTag /\ g.index = f.index
        /\ g.task = f.task
    BY <1>0 DEF Frames, Labels
  <2> HIDE DEF g
  <2>2. Fits(g) BY <1>4, <2>1, FitsLike
  <2> QED BY <2>2 DEF g
<1> QED BY <1>1, <1>2, <1>3, <1>4

-----------------------------------------------------------------------------
\* Each action in turn: those that only move the frame on top.
LEMMA SetStepFilter ==
  ASSUME IndInv, FilterInv, SetCheck \/ Panic \/ WaitOver \/ WaitStopped
  PROVE  FilterInv'
<1>1. stack # <<>> /\ run' = run BY DEF SetCheck, Panic, WaitOver, WaitStopped, Busy
<1>2. Fits(Top) BY <1>1, FitsTop
<1>3. \/ \E l \in Labels \ {"panic"} : MoveTo(l)
      \/ \E r \in Results : StopWith(r)
      \/ Filtered(Top) = <<>> /\ MoveTo("panic")
  BY DEF SetCheck, Panic, WaitOver, WaitStopped, Labels, Results, Outcomes
<1>4. ASSUME NEW l \in Labels \ {"panic"}, MoveTo(l) PROVE FilterInv'
  <2> DEFINE f == [Top EXCEPT !.at = l]
  <2>1. Fits(f) BY <1>2, FitsMoved
  <2>2. Move(f) BY <1>4 DEF MoveTo
  <2> HIDE DEF f
  <2> QED BY <1>1, <2>1, <2>2, FilterMove
<1>5. ASSUME NEW r \in Results, StopWith(r) PROVE FilterInv'
  <2> DEFINE f == [Top EXCEPT !.at = "onStop", !.task = "none", !.out = r]
  <2>1. Fits(f) BY <1>2, FitsMoved
  <2>2. Move(f) BY <1>5 DEF StopWith
  <2> HIDE DEF f
  <2> QED BY <1>1, <2>1, <2>2, FilterMove
<1>6. CASE Filtered(Top) = <<>> /\ MoveTo("panic")
  <2> DEFINE f == [Top EXCEPT !.at = "panic"]
  <2>1. Fits(f) BY <1>2, <1>6, FitsMoved
  <2>2. Move(f) BY <1>6 DEF MoveTo
  <2> HIDE DEF f
  <2> QED BY <1>1, <2>1, <2>2, FilterMove
<1> QED BY <1>3, <1>4, <1>5, <1>6

\* The program's hooks and tasks return.
LEMMA ProgramFilter ==
  ASSUME IndInv, FilterInv, Begun \/ Stopped
  PROVE  FilterInv'
<1>1. ASSUME NEW r \in Results, SetOnStart(r) PROVE FilterInv'
  <2>1. stack # <<>> /\ run' = run /\ (MoveTo("check") \/ stack' = Tail(stack))
    BY <1>1 DEF SetOnStart, Busy, LeaveUnstarted, Return
  <2>2. CASE MoveTo("check")
    <3> DEFINE f == [Top EXCEPT !.at = "check"]
    <3>1. Fits(Top) BY <2>1, FitsTop
    <3>2. Fits(f) BY <3>1, FitsMoved DEF Labels
    <3>3. Move(f) BY <2>2 DEF MoveTo
    <3> HIDE DEF f
    <3> QED BY <2>1, <3>2, <3>3, FilterMove
  <2>3. CASE stack' = Tail(stack) BY <2>1, <2>3, FilterReturn
  <2> QED BY <2>1, <2>2, <2>3
<1>2. ASSUME NEW r \in Results, LeafReturns(r) PROVE FilterInv'
  BY <1>2, FilterSame DEF LeafReturns
<1>3. ASSUME NEW r \in Outcomes, SetOnStop(r) PROVE FilterInv'
  <2>1. stack # <<>> /\ run' = run /\ stack' = Tail(stack) BY <1>3 DEF SetOnStop, Busy, Return
  <2> QED BY <2>1, FilterReturn
<1> QED BY <1>1, <1>2, <1>3 DEF Begun, Stopped

\* A task is scheduled.
LEMMA ScheduleFilter ==
  ASSUME IndInv, FilterInv, NEW t \in Scheduled, NEW first \in BOOLEAN, Schedule(t, first)
  PROVE  FilterInv'
<1> DEFINE q == IF first THEN <<t>> \o Top.queue ELSE Append(Top.queue, t)
           f == [Top EXCEPT !.queue = q]
<1>1. stack # <<>> /\ run' = run BY DEF Schedule, Busy
<1>2. Fits(Top) BY <1>1, FitsTop
<1>3. Move(f) BY DEF Schedule
<1>4. Top.queue \in Seq(Scheduled) /\ Top \in Frames BY <1>2 DEF Fits, Frames
<1>5. q \in Seq(Scheduled)
  <2>1. <<t>> \o Top.queue \in Seq(Scheduled)
    <3>1. <<t>> \in Seq(Scheduled) OBVIOUS
    <3> QED BY <1>4, <3>1
  <2>2. Append(Top.queue, t) \in Seq(Scheduled) BY <1>4
  <2> QED BY <2>1, <2>2
<1> HIDE DEF q
<1>6. /\ f \in Frames /\ f.set = Top.set /\ f.needsTag = Top.needsTag /\ f.index = Top.index
      /\ f.task = Top.task /\ f.at = Top.at
  BY <1>4, <1>5 DEF Frames
<1> HIDE DEF f
<1>7. Fits(f) BY <1>2, <1>6, FitsLike DEF Fits
<1> QED BY <1>1, <1>3, <1>7, FilterMove

\* The error of a task is looked at.
LEMMA ResumeFilter ==
  ASSUME IndInv, FilterInv, Resume
  PROVE  FilterInv'
<1>1. stack # <<>> /\ run' = run /\ ret \in Results BY DEF Resume, IndInv, ControlInv
<1>2. Fits(Top) BY <1>1, FitsTop
<1>3. \/ \E l \in {"wait", "check"} : Move([[Top EXCEPT !.task = "none"] EXCEPT !.at = l])
      \/ \E r \in Results : StopWith(r)
      \/ stack' = Tail(stack)
  <2>1. ret \in {"interrupt", "interruptNow"} => Interrupted(ret) \in Results
    BY DEF Interrupted, Results, Outcomes
  <2> QED BY <1>1, <2>1 DEF Resume, LeaveInterrupted, Return
<1>4. ASSUME NEW l \in {"wait", "check"}, Move([[Top EXCEPT !.task = "none"] EXCEPT !.at = l])
      PROVE  FilterInv'
  <2> DEFINE f == [[Top EXCEPT !.task = "none"] EXCEPT !.at = l]
  <2>1. Fits(f) BY <1>2, FitsMoved DEF Labels
  <2>2. Move(f) BY <1>4
  <2> HIDE DEF f
  <2> QED BY <1>1, <2>1, <2>2, FilterMove
<1>5. ASSUME NEW r \in Results, StopWith(r) PROVE FilterInv'
  <2> DEFINE f == [Top EXCEPT !.at = "onStop", !.task = "none", !.out = r]
  <2>1. Fits(f) BY <1>2, FitsMoved
  <2>2. Move(f) BY <1>5 DEF StopWith
  <2> HIDE DEF f
  <2> QED BY <1>1, <2>1, <2>2, FilterMove
<1>6. CASE stack' = Tail(stack) BY <1>1, <1>6, FilterReturn
<1> QED BY <1>3, <1>4, <1>5, <1>6

\* What a set chooses by itself.
LEMMA Chosen ==
  ASSUME NEW f, Fits(f), Filtered(f) # <<>>, NEW g \in NextTasks(f), run \in Runs
  PROVE  /\ g \in Frames /\ g.set = f.set /\ g.needsTag = f.needsTag /\ g.out = f.out
         /\ g.index <= Len(Filtered(f)) /\ g.task \in Kept(FilterTasks, f.set, f.needsTag)
<1> DEFINE tasks == Filtered(f)
<1>1. f \in Frames /\ f.set \in Sets /\ f.needsTag \in BOOLEAN /\ f.index \in Nat \ {0} /\ f.index <= Len(tasks)
  BY DEF Fits, Frames
<1>2. tasks \in Seq(Nodes) /\ Range(tasks) = Kept(FilterTasks, f.set, f.needsTag)
  BY <1>1, FilteredIs DEF Filtered
<1>3. tasks # <<>> OBVIOUS
<1>4. g \in IF f.set \in Random THEN {[f EXCEPT !.task = t] : t \in Range(tasks)}
            ELSE {[f EXCEPT !.task = tasks[f.index], !.index = (f.index % Len(tasks)) + 1]}
  BY DEF NextTasks
<1> HIDE DEF tasks
<1>5. Range(tasks) \subseteq Nodes BY <1>2 DEF Range
<1>6. CASE f.set \in Random
  <2>1. PICK t \in Range(tasks) : g = [f EXCEPT !.task = t] BY <1>4, <1>6
  <2>2. /\ g \in Frames /\ g.set = f.set /\ g.needsTag = f.needsTag /\ g.out = f.out
        /\ g.index = f.index /\ g.task = t
    BY <1>1, <1>5, <2>1 DEF Frames
  <2> QED BY <1>1, <1>2, <2>2 DEF tasks
<1>7. CASE f.set \notin Random
  <2> DEFINE t == tasks[f.index]
             next == (f.index % Len(tasks)) + 1
  <2>1. t \in Range(tasks)
    <3>1. f.index \in DOMAIN tasks BY <1>1, <1>2
    <3> QED BY <3>1 DEF Range
  <2>2. Len(tasks) \in Nat \ {0} BY <1>2, <1>3
  <2>3. next \in Nat \ {0} /\ next <= Len(tasks)
    <3>1. f.index % Len(tasks) \in 0 .. Len(tasks) - 1 BY <1>1, <2>2
    <3> QED BY <2>2, <3>1
  <2>4. g = [f EXCEPT !.task = t, !.index = next] BY <1>4, <1>7
  <2> HIDE DEF t, next
  <2>5. /\ g \in Frames /\ g.set = f.set /\ g.needsTag = f.needsTag /\ g.out = f.out
        /\ g.index = next /\ g.task = t
    BY <1>1, <1>5, <2>1, <2>3, <2>4 DEF Frames
  <2> QED BY <1>2, <2>1, <2>3, <2>5 DEF tasks
<1> QED BY <1>6, <1>7

\* A task that a set keeps can run; a set that it keeps has tasks.
LEMMA KeptFits ==
  ASSUME run \in Runs, NEW f, Fits(f), NEW t \in Kept(FilterTasks, f.set, f.needsTag)
  PROVE  /\ t \in Leaves => t \in CanRun
         /\ t \in Sets => Fits(Frame(t, NeedsTag(f.needsTag, t)))
<1>1. f.set \in Sets /\ f.needsTag = Unmatched(f.set) /\ TagsOnWay(f.set) \cap run.exclude = {}
  BY DEF Fits, Frames
<1>2. t \in Range(Tasks[f.set]) /\ ~Excluded(t) BY DEF Kept
<1>3. TagsOnWay(t) \cap run.exclude = {} BY <1>1, <1>2, WayIs DEF Excluded
<1>4. NeedsTag(f.needsTag, t) = Unmatched(t) BY <1>1, <1>2, UnmatchedIs
<1>5. t \in Leaves => t \in CanRun
  <2> SUFFICES ASSUME t \in Leaves PROVE t \in CanRun OBVIOUS
  <2>1. ~Unmatched(t) BY <1>4 DEF Kept, Leaves
  <2> QED BY <1>3, <2>1 DEF CanRun, Unmatched
<1>6. ASSUME t \in Sets PROVE Fits(Frame(t, NeedsTag(f.needsTag, t)))
  <2> DEFINE b == Unmatched(t)
             g == Frame(t, b)
  <2>1. b \in BOOLEAN BY UnmatchedIs
  <2>2. FilterTasks[t][b] # <<>> BY <1>4, <1>6 DEF Kept
  <2> HIDE DEF b
  <2>3. /\ g.set = t /\ g.needsTag = b /\ g.at = "onStart" /\ g.queue = <<>> /\ g.index = 1
        /\ g.task = "none" /\ g.out = "none" /\ g \in Frames
    BY <1>6, <2>1 DEF Frame, Frames, Labels
  <2> HIDE DEF g
  <2>4. Filtered(g) = FilterTasks[t][b] BY <2>3 DEF Filtered
  <2>5. Len(Filtered(g)) \in Nat \ {0}
    <3>1. FilterTasks[t][b] \in Seq(Nodes) BY <1>6, <2>1, FilteredIs
    <3> QED BY <2>2, <2>4, <3>1
  <2>6. "none" \notin Leaves BY TaskSetAssumption DEF Leaves
  <2>7. Fits(g) BY <1>3, <2>2, <2>3, <2>4, <2>5, <2>6 DEF Fits, b
  <2> QED BY <1>4, <2>7 DEF g, b
<1> QED BY <1>5, <1>6

\* A task is picked, or a set, which gets a frame of its own.
LEMMA PickFilter ==
  ASSUME IndInv, FilterInv, Pick
  PROVE  FilterInv'
<1> DEFINE Candidates == IF Top.queue # <<>>
                      THEN {[Top EXCEPT !.task = Head(Top.queue), !.queue = Tail(@)]}
                      ELSE IF Filtered(Top) = <<>> THEN {} ELSE NextTasks(Top)
<1>1. stack # <<>> /\ run' = run /\ run \in Runs BY DEF Pick, Busy, FilterInv
<1>2. Fits(Top) /\ Top \in Frames BY <1>1, FitsTop DEF Fits
<1>3. PICK g \in Candidates :
        LET caller == [g EXCEPT !.at = "task"]
        IN  IF g.task \in Sets
            THEN /\ stack' = <<Frame(g.task, NeedsTag(g.needsTag, g.task)), caller>> \o Tail(stack)
                 /\ UNCHANGED late
            ELSE Move(caller) /\ late' = late + (IF soft THEN 1 ELSE 0)
  BY DEF Pick
<1> DEFINE caller == [g EXCEPT !.at = "task"]
<1>4. /\ g \in Frames /\ g.set = Top.set /\ g.needsTag = Top.needsTag
      /\ Filtered(Top) = <<>> \/ g.index <= Len(Filtered(Top))
      /\ g.task \in Scheduled \/ g.task \in Kept(FilterTasks, Top.set, Top.needsTag)
  <2>1. CASE Top.queue # <<>>
    <3> DEFINE t == Head(Top.queue)
               q == Tail(Top.queue)
    <3>1. Top.queue \in Seq(Scheduled) BY <1>2 DEF Frames
    <3>2. t \in Scheduled /\ q \in Seq(Scheduled) BY <2>1, <3>1
    <3>3. g = [Top EXCEPT !.task = t, !.queue = q] BY <1>3, <2>1
    <3>4. t \in Nodes BY <3>2, TaskSetAssumption DEF Leaves
    <3> HIDE DEF t, q
    <3>5. /\ g \in Frames /\ g.set = Top.set /\ g.needsTag = Top.needsTag
          /\ g.index = Top.index /\ g.task = t
      BY <1>2, <3>2, <3>3, <3>4 DEF Frames
    <3> QED BY <1>2, <3>2, <3>5 DEF Fits
  <2>2. CASE Top.queue = <<>>
    <3>1. Filtered(Top) # <<>> /\ g \in NextTasks(Top) BY <1>3, <2>2
    <3> QED BY <1>1, <1>2, <3>1, Chosen
  <2> QED BY <2>1, <2>2
<1>5. /\ caller \in Frames /\ caller.set = Top.set /\ caller.needsTag = Top.needsTag
      /\ caller.index = g.index /\ caller.task = g.task /\ caller.at = "task"
  BY <1>4 DEF Frames, Labels
<1>6. g.task \in Sets => g.task \notin Scheduled BY TaskSetAssumption DEF Leaves
<1>7. Fits(caller)
  <2> HIDE DEF caller
  <2>1. Filtered(caller) = Filtered(Top) BY <1>5 DEF Filtered
  <2>2. caller.task \in Leaves => caller.task \in CanRun \cup Scheduled
    BY <1>1, <1>2, <1>4, <1>5, KeptFits
  <2> QED BY <1>2, <1>4, <1>5, <2>1, <2>2 DEF Fits
<1>8. CASE g.task \in Sets
  <2> DEFINE callee == Frame(g.task, NeedsTag(g.needsTag, g.task))
  <2>1. Fits(callee)
    <3>1. g.task \in Kept(FilterTasks, Top.set, Top.needsTag) BY <1>4, <1>6, <1>8
    <3> QED BY <1>1, <1>2, <1>4, <1>8, <3>1, KeptFits
  <2>2. stack' = <<callee, caller>> \o Tail(stack) BY <1>3, <1>8
  <2> HIDE DEF callee, caller
  <2> QED BY <1>1, <1>7, <2>1, <2>2, FilterPush
<1>9. CASE g.task \notin Sets
  <2>1. Move(caller) BY <1>3, <1>9
  <2> HIDE DEF caller
  <2> QED BY <1>1, <1>7, <2>1, FilterMove
<1> QED BY <1>8, <1>9

\* The frame of the root.
LEMMA RootFits ==
  ASSUME run \in Runs
  PROVE  Fits(Frame(Root, run.given))
<1> DEFINE b == run.given
           g == Frame(Root, b)
<1>1. b \in BOOLEAN /\ b = Unmatched(Root) BY UnmatchedIs, TaskSetAssumption
<1>2. Root \in Sets /\ TagsOnWay(Root) \cap run.exclude = {} BY RootIs, WayIs
<1> HIDE DEF b
<1>3. /\ g.set = Root /\ g.needsTag = b /\ g.at = "onStart" /\ g.index = 1
      /\ g.task = "none" /\ g \in Frames
  BY <1>1, <1>2 DEF Frame, Frames, Labels
<1> HIDE DEF g
<1>4. Filtered(g) \in Seq(Nodes) BY <1>1, <1>2, <1>3, FilteredIs DEF Filtered
<1>5. Filtered(g) = <<>> \/ Len(Filtered(g)) \in Nat \ {0} BY <1>4
<1>6. "none" \notin Leaves BY TaskSetAssumption DEF Leaves
<1>7. Fits(g) BY <1>1, <1>2, <1>3, <1>5, <1>6 DEF Fits
<1> QED BY <1>7 DEF g, b

\* The user runs its root set.
LEMMA UserCheckFilter ==
  ASSUME IndInv, FilterInv, UserCheck
  PROVE  FilterInv'
<1>1. run' = run /\ run \in Runs /\ stack' = IF soft THEN <<>> ELSE <<Frame(Root, run.given)>>
  BY DEF UserCheck, FilterInv
<1> DEFINE f == Frame(Root, run.given)
<1>2. Fits(f) BY <1>1, RootFits
<1> HIDE DEF f
<1>3. \A i \in 1 .. Len(stack') : Fits(stack'[i])
  <2>1. CASE soft
    <3>1. stack' = <<>> BY <1>1, <2>1
    <3> QED BY <3>1
  <2>2. CASE ~soft
    <3>1. stack' = <<f>> BY <1>1, <2>2 DEF f
    <3>2. Len(<<f>>) = 1 /\ <<f>>[1] = f OBVIOUS
    <3>3. \A i \in 1 .. 1 : i = 1 OBVIOUS
    <3> QED BY <1>2, <3>1, <3>2, <3>3
  <2> QED BY <2>1, <2>2
<1> QED BY <1>1, <1>3, FilterStep

\* No step breaks the invariant.
LEMMA FilterInvariance == IndInv /\ FilterInv /\ [TaskNext]_taskVars => FilterInv'
<1> SUFFICES ASSUME IndInv, FilterInv, [TaskNext]_taskVars PROVE FilterInv'
  OBVIOUS
<1>1. CASE (Contexts \/ Hooks) /\ UNCHANGED <<run, setVars>>
  BY <1>1, FilterSame DEF setVars
<1>2. CASE Library
  <2>1. CASE ProcessEnds BY <2>1, FilterSame DEF ProcessEnds
  <2> QED BY <1>2, <2>1, UserCheckFilter, SetStepFilter, PickFilter, ResumeFilter DEF Library
<1>3. CASE WaitOver BY <1>3, SetStepFilter
<1>4. CASE Begun \/ Stopped BY <1>4, ProgramFilter
<1>5. CASE \E t \in Scheduled, first \in BOOLEAN : Schedule(t, first)
  BY <1>5, ScheduleFilter
<1>6. CASE UNCHANGED taskVars BY <1>6, FilterSame DEF taskVars, setVars
<1> QED BY <1>1, <1>2, <1>3, <1>4, <1>5, <1>6 DEF TaskNext

\* Nor does the start.
LEMMA InitFilter == TaskInit => FilterInv
BY DEF TaskInit, FilterInv

\* The property follows from the invariant.
LEMMA FilterExactHolds == IndInv /\ FilterInv => FilterExact
<1> SUFFICES ASSUME IndInv, FilterInv PROVE FilterExact OBVIOUS
<1>1. run \in Runs /\ Left[Root][run.given] = CanRun BY FilterIs DEF FilterInv
<1>2. ASSUME stack # <<>>
      PROVE  /\ Top.set \in Random => \A t \in Range(Filtered(Top)) :
                  Times(t, Filtered(Top)) = IF GetWeight(t) < 1 THEN 1 ELSE GetWeight(t)
             /\ Top.task \in Leaves => Top.task \in CanRun \cup Scheduled
  <2>1. Fits(Top) BY <1>2, FitsTop
  <2>2. Top.set \in Sets /\ Top.needsTag \in BOOLEAN BY <2>1 DEF Fits, Frames
  <2>3. ASSUME Top.set \in Random, NEW t \in Range(Filtered(Top))
        PROVE  Times(t, Filtered(Top)) = IF GetWeight(t) < 1 THEN 1 ELSE GetWeight(t)
    <3> DEFINE tasks == Filtered(Top)
    <3>1. tasks \in Seq(Nodes) /\ Times(t, tasks) = ShareOf(t)
      BY <1>1, <2>2, <2>3, FilteredIs DEF Filtered
    <3>2. t \in Nodes
      <4>1. t \in Range(tasks) BY <2>3
      <4> HIDE DEF tasks
      <4> QED BY <3>1, <4>1 DEF Range
    <3> QED BY <1>1, <3>1, <3>2, ShareType
  <2> QED BY <2>1, <2>3 DEF Fits
<1>3. ASSUME Panicked PROVE CanRun = {}
  <2>1. Fits(Top) /\ Top.at = "panic" BY <1>3, FitsTop DEF Panicked
  <2>2. Filtered(Top) = <<>> /\ Top.set = Root /\ Top.needsTag = run.given
    BY <1>1, <2>1, UnmatchedIs DEF Fits
  <2>3. FilterTasks[Root][run.given] = <<>> BY <2>2 DEF Filtered
  <2>4. run.given \in BOOLEAN /\ Root \in Sets BY <1>1, RootIs, TaskSetAssumption
  <2> DEFINE b == run.given
  <2>5. \A n : n \notin Left[Root][b]
    <3> HIDE DEF b
    <3>1. FilterTasks[Root][b] = <<>> /\ b \in BOOLEAN BY <2>3, <2>4 DEF b
    <3>2. Range(<<>>) = {} BY DEF Range
    <3> QED BY <1>1, <2>4, <3>1, <3>2, LeftIs
  <2> QED BY <1>1, <2>5
<1> QED BY <1>1, <1>2, <1>3 DEF FilterExact

(***************************************************************************)
(* For every tree of sets and every run, a task passes the filters exactly *)
(* when the tags on its way let it, random sets draw it by its weight, and *)
(* nothing else runs (filter.go:38-100).                                   *)
(***************************************************************************)
THEOREM FilteringExact == TaskSpec => []FilterExact
<1>1. TaskInit => FilterInv BY InitFilter
<1>2. IndInv /\ FilterInv /\ [TaskNext]_taskVars => FilterInv' BY FilterInvariance
<1>3. IndInv /\ FilterInv => FilterExact BY FilterExactHolds
<1>4. TaskSpec => []IndInv BY Safety
<1> QED BY <1>1, <1>2, <1>3, <1>4, PTL DEF TaskSpec
=============================================================================
