------------------------------- MODULE TaskSet -------------------------------
(***************************************************************************)
(* A user of the taskset package: Process runs the root task set, a tree   *)
(* of Sequential and Random sets whose leaves are the program's tasks      *)
(* (taskset.go, sequential.go, random.go, queue.go), filtered by the tags  *)
(* of the run when the user starts (user.go, filter.go, tag.go).           *)
(*                                                                         *)
(* The call stack of Run is a sequence of frames, the innermost first.     *)
(***************************************************************************)
EXTENDS UserLife, Sequences, SequencesExt

CONSTANTS
  Tasks,      \* each set's tasks, in order: a function into sequences of nodes
  Random,     \* the sets that are random; the others are sequential
  Root,       \* the task set of the user
  Runs,       \* what a run can be: the wrappers of each node, outermost first,
              \* and the tags the master asks for or excludes
  Scheduled,  \* tasks that the program schedules itself
  MaxQueue    \* bound: tasks it schedules ahead

Sets == DOMAIN Tasks
Nodes == Sets \cup UNION {Range(Tasks[s]) : s \in Sets}
Leaves == Nodes \ Sets

\* The sets form a tree.  A node is a place in it: a task that is listed twice is
\* two nodes.  A set is listed once, or it would keep what the last filter left.
ASSUME TaskSetAssumption ==
  /\ Tasks \in [Sets -> Seq(Nodes)] /\ IsFiniteSet(Sets) /\ "none" \notin Nodes
  /\ \A s, q \in Sets : \A i \in DOMAIN Tasks[s], j \in DOMAIN Tasks[q] :
       Tasks[s][i] = Tasks[q][j] => s = q /\ i = j
  /\ Sets \ UNION {Range(Tasks[s]) : s \in Sets} = {Root}
  /\ \E height \in [Sets -> 0 .. Cardinality(Sets)] :
       \A s \in Sets : \A t \in Range(Tasks[s]) \cap Sets : height[t] < height[s]
  /\ Random \subseteq Sets /\ Scheduled \subseteq Leaves /\ MaxQueue \in Nat
  /\ \A r \in Runs :
       /\ r.given \in BOOLEAN /\ Nodes = DOMAIN r.wraps
       /\ \A n \in Nodes : /\ r.wraps[n] \in Seq(Range(r.wraps[n]))
                           /\ \A w \in Range(r.wraps[n]) : w.kind = "weight" => w.weight \in Int

VARIABLES
  run,     \* the run, chosen initially
  stack,   \* the frames of BaseImpl.Run
  ret,     \* the error just returned to the frame on top, "none" while it runs
  late,    \* history: tasks begun after the user was asked to stop
  opened   \* history: OnStart hooks of sets that have yet to see their OnStop

setVars == <<stack, ret, late, opened>>
taskVars == <<userVars, run, setVars>>

(***************************************************************************)
(* Wrappers and filters.                                                   *)
(***************************************************************************)
Tags(n) == UNION {w.tags : w \in {v \in Range(run.wraps[n]) : v.kind = "tag"}}

\* Only the outermost weight counts.
GetWeight(n) ==
  LET weights == {i \in DOMAIN run.wraps[n] : run.wraps[n][i].kind = "weight"}
  IN  IF weights = {} THEN 0 ELSE run.wraps[n][Min(weights)].weight

ShareOf(n) == IF GetWeight(n) > 1 THEN GetWeight(n) ELSE 1

\* The tasks of a set as its constructor lists them.
Listed(s) ==
  IF s \notin Random THEN Tasks[s]
  ELSE FlattenSeq([i \in DOMAIN Tasks[s] |-> [k \in 1 .. ShareOf(Tasks[s][i]) |-> Tasks[s][i]]])

Excluded(n) == Tags(n) \cap run.exclude # {}

\* Whether what is in t must have a tag of its own, when t must or not.
\* Mutant: the tags of a set do not count for its tasks.
StillNeedsTag(needsTag, t) == needsTag
NeedsTag(needsTag, t) == needsTag /\ Tags(t) \cap run.include = {}

\* What of a sequence is in a set, in order.
Among(seq, S) ==
  LET among[n \in 0 .. Len(seq)] ==
        IF n = 0 THEN <<>>
        ELSE IF seq[n] \in S THEN Append(among[n - 1], seq[n]) ELSE among[n - 1]
  IN  among[Len(seq)]

\* The tasks of a set that are left, under sets that have not matched yet or have.
FilterTasks[s \in Sets] ==
  [needsTag \in BOOLEAN |->
     Among(Listed(s), {t \in Range(Tasks[s]) :
                         /\ ~Excluded(t)
                         /\ IF t \in Sets THEN FilterTasks[t][NeedsTag(needsTag, t)] # <<>>
                            ELSE ~NeedsTag(needsTag, t)})]

(***************************************************************************)
(* Frames.                                                                 *)
(***************************************************************************)
Frame(s, needsTag) ==
  [set |-> s, needsTag |-> needsTag, at |-> "onStart", queue |-> <<>>, index |-> 1,
   task |-> "none", out |-> "none"]
Filtered(f) == FilterTasks[f.set][f.needsTag]

Top == Head(stack)
Busy(label) == stack # <<>> /\ Top.at = label /\ ret = "none"
Move(f) == stack' = <<f>> \o Tail(stack)
MoveTo(label) == Move([Top EXCEPT !.at = label])
StopWith(r) == Move([Top EXCEPT !.at = "onStop", !.task = "none", !.out = r])
Return(r) == stack' = Tail(stack) /\ ret' = r

TaskInit ==
  /\ UserInit /\ run \in Runs /\ stack = <<>> /\ ret = "none" /\ late = 0 /\ opened = 0

(***************************************************************************)
(* The program: hooks of a set and tasks, which may also schedule tasks.   *)
(***************************************************************************)
Results == Outcomes \cup {"now", "interrupt", "interruptNow"}

\* InterruptTaskSet and InterruptTaskSetImmediately, as the outer set sees them.
Interrupted(r) == IF r = "interrupt" THEN "ok" ELSE IF r = "interruptNow" THEN "now" ELSE r

\* A set that is not started is left without its OnStop.
LeaveUnstarted(r) == Return(r)

\* So is one whose OnStart returns when the grace period is over.
SetOnStart(r) ==
  /\ Busy("onStart") /\ Raise(r = "error")
  /\ IF r = "ok" /\ ~hard THEN MoveTo("check") /\ opened' = opened + 1 /\ UNCHANGED ret
     ELSE LeaveUnstarted(IF r = "ok" THEN "canceled" ELSE Interrupted(r)) /\ UNCHANGED opened
  /\ UNCHANGED <<optVars, ctxVars, lifeVars, reported, run, late>>

LeafReturns(r) ==
  /\ Busy("task") /\ Raise(r = "error") /\ ret' = r
  /\ UNCHANGED <<optVars, ctxVars, lifeVars, reported, run, stack, late, opened>>

Schedule(t, first) ==
  /\ Busy("onStart") \/ Busy("task")
  /\ Len(Top.queue) < MaxQueue
  /\ Move([Top EXCEPT !.queue = IF first THEN <<t>> \o @ ELSE Append(@, t)])
  /\ UNCHANGED <<userVars, run, ret, late, opened>>

\* OnStop of an interrupted set may still stop the user.
SetOnStop(r) ==
  /\ Busy("onStop") /\ opened' = opened - 1
  /\ Return(IF Top.out \in {"ok", "now"} /\ r \in {"stopUser", "canceled"} THEN r ELSE Top.out)
  /\ UNCHANGED <<userVars, run, late>>

(***************************************************************************)
(* The library: BaseImpl.Run, with Init of the set it runs.                *)
(***************************************************************************)
\* Mutant: a soft stop is not looked at between tasks.
HardStopOnly == hard
MustStop == hard \/ soft
SetCheck ==
  /\ Busy("check")
  /\ IF MustStop THEN StopWith("canceled") ELSE MoveTo("pick")
  /\ UNCHANGED <<userVars, run, ret, late, opened>>

\* Natural order, when nothing is scheduled.
NextTasks(f) ==
  IF f.set \in Random THEN {[f EXCEPT !.task = t] : t \in Range(Filtered(f))}
  ELSE {[f EXCEPT !.task = Filtered(f)[f.index], !.index = (f.index % Len(Filtered(f))) + 1]}

\* A set without tasks: the index is taken modulo zero, rand.Intn(0) panics.
Panic ==
  /\ Busy("pick") /\ Top.queue = <<>> /\ Filtered(Top) = <<>> /\ MoveTo("panic")
  /\ UNCHANGED <<userVars, run, ret, late, opened>>

Pick ==
  /\ Busy("pick")
  /\ \E f \in IF Top.queue # <<>>
              THEN {[Top EXCEPT !.task = Head(Top.queue), !.queue = Tail(@)]}
              ELSE IF Filtered(Top) = <<>> THEN {} ELSE NextTasks(Top) :
       LET caller == [f EXCEPT !.at = "task"]
       IN  IF f.task \in Sets
           THEN /\ stack' = <<Frame(f.task, NeedsTag(f.needsTag, f.task)), caller>> \o Tail(stack)
                /\ UNCHANGED late
           ELSE Move(caller) /\ late' = late + (IF soft THEN 1 ELSE 0)
  /\ UNCHANGED <<userVars, run, ret, opened>>

\* A caught error is reported by the innermost set.  Mutant: before asking whether to catch.
ReportFirst(r) == reported' = reported + (IF r = "error" THEN 1 ELSE 0)
ReportCaught(r) == reported' = reported + (IF r = "error" /\ catch THEN 1 ELSE 0)

\* Mutant: an interrupted set is left without its OnStop.
LeaveSilently(r) == Return(Interrupted(r))
LeaveInterrupted(r) == StopWith(Interrupted(r)) /\ ret' = "none"

\* What Run does with the error of a task.
Resume ==
  /\ stack # <<>> /\ Top.at = "task" /\ ret # "none" /\ ReportCaught(ret)
  /\ LET next == [Top EXCEPT !.task = "none"] IN
     \/ (ret = "ok" \/ (ret = "error" /\ catch))
        /\ Move([next EXCEPT !.at = "wait"]) /\ ret' = "none"
     \/ ret = "now" /\ Move([next EXCEPT !.at = "check"]) /\ ret' = "none"
     \/ ret \in {"stopUser", "canceled"} /\ StopWith(ret) /\ ret' = "none"
     \/ ret \in {"interrupt", "interruptNow"} /\ LeaveInterrupted(ret)
     \/ ret = "error" /\ ~catch /\ Return(ret)
  /\ UNCHANGED <<optVars, ctxVars, lifeVars, raised, run, late, opened>>

WaitOver ==
  /\ Busy("wait") /\ MoveTo("check")
  /\ UNCHANGED <<userVars, run, ret, late, opened>>

\* Waiting is cut short at once, not after the grace period (mutant: never).
WaitNeverCut == FALSE
WaitCut == soft
WaitStopped ==
  /\ Busy("wait") /\ WaitCut /\ StopWith("canceled")
  /\ UNCHANGED <<userVars, run, ret, late, opened>>

(***************************************************************************)
(* Process of UserImpl.                                                    *)
(***************************************************************************)
UserCheck ==
  /\ Check /\ stack' = IF soft THEN <<>> ELSE <<Frame(Root, run.given)>>
  /\ UNCHANGED <<run, ret, late, opened>>

\* Rescheduling means nothing to the user.
Ending(r) == IF r = "now" THEN "ok" ELSE r
ProcessEnds ==
  /\ stack = <<>> /\ ret # "none" /\ ProcessReturns(Ending(ret)) /\ ret' = "none"
  /\ UNCHANGED <<run, stack, late, opened>>

-----------------------------------------------------------------------------
Panicked == stack # <<>> /\ Top.at = "panic"

Begun == \E r \in Results : SetOnStart(r) \/ LeafReturns(r)
Stopped == \E r \in Outcomes : SetOnStop(r)
Library ==
  UserCheck \/ SetCheck \/ Pick \/ Panic \/ Resume \/ WaitStopped \/ ProcessEnds

TaskNext ==
  /\ ~Panicked
  /\ \/ (Contexts \/ Hooks) /\ UNCHANGED <<run, setVars>>
     \/ Library \/ WaitOver \/ Begun \/ Stopped
     \/ \E t \in Scheduled, first \in BOOLEAN : Schedule(t, first)

(***************************************************************************)
(* The user's goroutine and the timers run.  Hooks and tasks return once   *)
(* their context is canceled, OnStop of its own accord; a wait, whose time *)
(* the program chooses, may be endless.                                    *)
(***************************************************************************)
TaskSpec == TaskInit /\ [][TaskNext]_taskVars

Live(action) == ~Panicked /\ action /\ UNCHANGED <<run, setVars>>

Fairness ==
  /\ WF_taskVars(Library) /\ WF_taskVars(Live(AfterFunc)) /\ WF_taskVars(Live(TimerFires))
  /\ WF_taskVars(hard /\ Begun) /\ WF_taskVars(Stopped)
  /\ \A hook \in {"onStart", "onStop"} : WF_taskVars(hard /\ at = hook /\ Live(Hooks))

FairTaskSpec == TaskSpec /\ Fairness
=============================================================================
