---------------------------- MODULE TemplateRun ----------------------------
(***************************************************************************)
(* How TaskCmd.run walks through the steps of one template: conditions     *)
(* skip a step, the first action that fires may answer, end the session or *)
(* go to a tag, every tag counts the gotos that led to it, and the step's  *)
(* own message and script come last.  What a condition says depends on the *)
(* pages that were downloaded, so every choice of it is possible here; the *)
(* session's channels, endings and parameters are those of TaskSession.    *)
(*                                                                         *)
(* A goto may be an expression such as "{{.captcha_tag}}".  run stores the *)
(* tag it evaluates to in the action itself, that is in the session's own  *)
(* copy of the template: prog is that copy, tmpl what was loaded.          *)
(***************************************************************************)
EXTENDS Integers, Sequences

CONSTANTS
    Tags,           \* names of steps
    DefaultGotos,   \* goto_times of a step that does not set it (30)
    Templates       \* the templates a session may be created with

NoTag == ""
Expr  == "{{.tag}}"    \* a goto that is read from the Context
Unset == "<no value>"  \* what such a goto evaluates to before tag is set

Terminal == {"fail", "finish_fetch_data"}
Status == Terminal \union {"progress", "none"}

(* An action: the value its opers give to tag, the status of its message   *)
(* ("none" without one) and its goto.                                      *)
Action == [sets : Tags \union {NoTag}, status : Status,
           goto : Tags \union {NoTag, Expr, Unset}]

(* A step: whether it has a condition, the value its context_opers give to *)
(* tag, its goto_times (0 when unset), the status of its message, and      *)
(* whether it runs a script and fills the list of another template.        *)
Step == [tag : Tags \union {NoTag}, condition : BOOLEAN,
         sets : Tags \union {NoTag}, actions : Seq(Action),
         goto_times : Nat, status : Status, use_python : BOOLEAN,
         next : BOOLEAN]

ASSUME TemplateAssumption ==
    /\ Tags \intersect {NoTag, Expr, Unset} = {}
    /\ DefaultGotos \in Nat
    /\ \A t \in Templates : t \in Seq(Step)

VARIABLES
    tmpl,          \* the template as it was loaded
    prog,          \* TaskCmd.task: the session's copy, with its gotos evaluated
    c,             \* index of the step, from 0 as in the code
    pc,            \* where in the iteration run is
    retry,         \* gotos to each tag
    tag,           \* the value of tag in the Context
    said,          \* status of the last message
    ending         \* how run ended

vars == <<tmpl, prog, c, pc, retry, tag, said, ending>>

TypeOK ==
    /\ tmpl \in Seq(Step)
    /\ prog \in Seq(Step)
    /\ c \in 0..Len(prog)
    /\ pc \in {"head", "tail", "finish", "done"}
    /\ pc = "tail" => c < Len(prog)
    /\ retry \in [Tags -> Nat]
    /\ tag \in Tags \union {Unset}
    /\ said \in Status
    /\ ending \in {"none", "action", "goto", "step", "python", "finish", "panic"}

Init ==
    /\ tmpl \in Templates
    /\ prog = tmpl
    /\ c = 0
    /\ pc = "head"
    /\ retry = [t \in Tags |-> 0]
    /\ tag = Unset
    /\ said = "none"
    /\ ending = "none"

-----------------------------------------------------------------------------
(* Helpers                                                                 *)

Current == prog[c + 1]

(* Indices, from 0, of the steps of p with tag t.                          *)
Marked(p, t) == {i \in 0..(Len(p) - 1) : p[i + 1].tag = t}

(* Wrong on purpose: the first step with the tag.                          *)
BadGotoMap(t) ==
    (CHOOSE i \in Marked(prog, t) : \A j \in Marked(prog, t) : i <= j) - 1

(* gotoMap[t]: one before the step with tag t, the last one if several     *)
(* have it; run adds one when it jumps.                                    *)
GotoMap(t) ==
    (CHOOSE i \in Marked(prog, t) : \A j \in Marked(prog, t) : j <= i) - 1

(* retry has a key for every tag of the template, and for no other.        *)
Known(t) == t \in Tags /\ Marked(prog, t) # {}

Evaluated(goto, value) == IF goto = Expr THEN value ELSE goto

GotoTimes(step) == IF step.goto_times # 0 THEN step.goto_times ELSE DefaultGotos

Assigned(sets, value) == IF sets = NoTag THEN value ELSE sets

(* step.Do downloads the page and runs context_opers; an error returns     *)
(* before them and is only logged.                                         *)
TagAfterDo == {tag, Assigned(Current.sets, tag)}

(* The i-th action of the current step is the first whose condition holds: *)
(* its opers run.                                                          *)
Fire(i) ==
    /\ pc = "head" /\ c < Len(prog)
    /\ i \in DOMAIN Current.actions
    /\ tag' \in {Assigned(Current.actions[i].sets, v) : v \in TagAfterDo}
    /\ UNCHANGED tmpl

(* The tag the i-th action leads to, read after its opers.                       *)
Target(i) == Evaluated(Current.actions[i].goto, tag')

(* run assigns the evaluated goto to the action of its copy.               *)
Assign(i) == prog' = [prog EXCEPT ![c + 1].actions[i].goto = Target(i)]

Answered(status) == IF status = "none" THEN said ELSE status

End(how, status) ==
    /\ ending' = how
    /\ said' = status
    /\ pc' = "done"

-----------------------------------------------------------------------------
(* One iteration: the head                                                 *)

Skip ==
    /\ pc = "head" /\ c < Len(prog)
    /\ Current.condition
    /\ c' = c + 1
    /\ UNCHANGED <<tmpl, prog, pc, retry, tag, said, ending>>

NoActionFires ==
    /\ pc = "head" /\ c < Len(prog)
    /\ tag' \in TagAfterDo
    /\ pc' = "tail"
    /\ UNCHANGED <<tmpl, prog, c, retry, said, ending>>

ActionEnds(i) ==
    /\ Fire(i)
    /\ Current.actions[i].status \in Terminal
    /\ End("action", Current.actions[i].status)
    /\ UNCHANGED <<prog, c, retry>>

(* No goto, or one to a tag no step has: the step goes on.                 *)
ActionFallsThrough(i) ==
    /\ Fire(i)
    /\ Current.actions[i].status \notin Terminal
    /\ ~ Known(Target(i))
    /\ Assign(i)
    /\ said' = Answered(Current.actions[i].status)
    /\ pc' = "tail"
    /\ UNCHANGED <<c, retry, ending>>

(* Wrong on purpose: the goto is not counted ...                           *)
BadJump(i) ==
    /\ Fire(i)
    /\ Current.actions[i].status \notin Terminal
    /\ Known(Target(i))
    /\ retry[Target(i)] <= GotoTimes(Current)
    /\ Assign(i)
    /\ said' = Answered(Current.actions[i].status)
    /\ c' = GotoMap(Target(i)) + 1
    /\ UNCHANGED <<pc, retry, ending>>

(* ... or is compared with one goto more.                                  *)
BadJumpLimit(i) ==
    /\ Fire(i)
    /\ Current.actions[i].status \notin Terminal
    /\ Known(Target(i))
    /\ retry[Target(i)] <= GotoTimes(Current) + 1
    /\ Assign(i)
    /\ said' = Answered(Current.actions[i].status)
    /\ retry' = [retry EXCEPT ![Target(i)] = @ + 1]
    /\ c' = GotoMap(Target(i)) + 1
    /\ UNCHANGED <<pc, ending>>

Jump(i) ==
    /\ Fire(i)
    /\ Current.actions[i].status \notin Terminal
    /\ Known(Target(i))
    /\ retry[Target(i)] <= GotoTimes(Current)
    /\ Assign(i)
    /\ said' = Answered(Current.actions[i].status)
    /\ retry' = [retry EXCEPT ![Target(i)] = @ + 1]
    /\ c' = GotoMap(Target(i)) + 1
    /\ UNCHANGED <<pc, ending>>

JumpTooOften(i) ==
    /\ Fire(i)
    /\ Current.actions[i].status \notin Terminal
    /\ Known(Target(i))
    /\ retry[Target(i)] > GotoTimes(Current)
    /\ Assign(i)
    /\ End("goto", "fail")
    /\ UNCHANGED <<c, retry>>

-----------------------------------------------------------------------------
(* One iteration: the tail                                                 *)

StepTail ==
    /\ pc = "tail"
    /\ UNCHANGED <<tmpl, prog, retry, tag>>

(* Wrong on purpose: run goes on after a fail.                             *)
BadStepFails ==
    /\ StepTail
    /\ Current.status = "fail"
    /\ said' = "fail"
    /\ c' = c + 1
    /\ pc' = "head"
    /\ UNCHANGED ending

StepFails ==
    /\ StepTail
    /\ Current.status = "fail"
    /\ End("step", "fail")
    /\ UNCHANGED c

(* finish_fetch_data in a step leaves the loop; the message comes later.   *)
StepFinishes ==
    /\ StepTail
    /\ Current.status = "finish_fetch_data"
    /\ pc' = "finish"
    /\ UNCHANGED <<c, said, ending>>

PythonFails ==
    /\ StepTail
    /\ Current.status \notin Terminal
    /\ Current.use_python
    /\ End("python", "fail")
    /\ UNCHANGED c

(* nextToRedis comes here too, when it succeeds: it appends to the list of *)
(* another template, see Scheduler.                                        *)
NextStep ==
    /\ StepTail
    /\ Current.status \notin Terminal
    /\ said' = Answered(Current.status)
    /\ c' = c + 1
    /\ pc' = "head"
    /\ UNCHANGED ending

(* nextToRedis indexes what a failed SELECT returned, or lists of unequal  *)
(* length: run recovers, returns and says no more.                         *)
NextPanics ==
    /\ StepTail
    /\ Current.status \notin Terminal
    /\ Current.next
    /\ End("panic", Answered(Current.status))
    /\ UNCHANGED c

LoopEnds ==
    /\ pc = "head" /\ c >= Len(prog)
    /\ pc' = "finish"
    /\ UNCHANGED <<tmpl, prog, c, retry, tag, said, ending>>

Finish ==
    /\ pc = "finish"
    /\ End("finish", "finish_fetch_data")
    /\ UNCHANGED <<tmpl, prog, c, retry, tag>>

ActionStep ==
    \E i \in DOMAIN Current.actions :
        ActionEnds(i) \/ ActionFallsThrough(i) \/ Jump(i) \/ JumpTooOften(i)

TailStep == StepFails \/ StepFinishes \/ PythonFails \/ NextStep \/ NextPanics

Next ==
    \/ Skip
    \/ NoActionFires
    \/ pc = "head" /\ c < Len(prog) /\ ActionStep
    \/ TailStep
    \/ LoopEnds
    \/ Finish

(* run is one goroutine and every step of it returns: downloads time out.  *)
Spec == Init /\ [][Next]_vars /\ WF_vars(Next)

-----------------------------------------------------------------------------
(* Properties                                                              *)

(* How often a tag is gone to (task_cmd.go:649-667): the counter belongs   *)
(* to the tag and the limit to the step that jumps, and the test comes     *)
(* before the goto is counted.  A tag reached from several steps is gone   *)
(* to once more than the largest of their limits, and never more often.    *)
GotosBounded ==
    \A t \in Tags : retry[t] > 0 =>
        \E i \in DOMAIN prog : retry[t] <= GotoTimes(prog[i]) + 1

(* What step.go:106 says of goto_times, "the maximum of gotos, 30 by       *)
(* default": no tag is gone to more often than some step of the template   *)
(* allows.                                                                 *)
GotoTimesIsTheMaximum ==
    \A t \in Tags : retry[t] > 0 =>
        \E i \in DOMAIN prog : retry[t] <= GotoTimes(prog[i])

(* A counted goto is the work of an action of the step it leaves and lands *)
(* on the last step that has the tag (task_cmd.go:389, 667-673: gotoMap is *)
(* one less and run adds one); nothing else ever moves run backwards.      *)
JumpLands ==
    [][/\ \A t \in Tags : retry'[t] # retry[t] =>
             /\ retry'[t] = retry[t] + 1
             /\ \E i \in DOMAIN Current.actions :
                    Evaluated(Current.actions[i].goto, tag') = t
             /\ prog[c' + 1].tag = t
             /\ \A j \in Marked(prog, t) : j <= c'
       /\ c' < c => retry' # retry]_vars

(* However run walks, it leaves the session with one outcome or with none, *)
(* and none only after a panic: no message that is neither fail nor        *)
(* finish_fetch_data ends it, behind one that is run does not go on, and a *)
(* panic never comes behind an outcome (task_cmd.go:468, 620, 659, 709,    *)
(* 770, 834, 937).                                                         *)
EndsOnce ==
    /\ (ending # "none") <=> (pc = "done")
    /\ said \in Terminal <=> (pc = "done" /\ ending # "panic")
    /\ ending \in {"goto", "step", "python"} => said = "fail"

(* Whatever the conditions say, run ends: every loop goes through a goto,  *)
(* every goto is counted, and a tag that is used up ends the session.      *)
Terminates == <>(pc = "done")

(* What the templates say with a goto such as "{{.captcha_tag}}": it leads *)
(* to the tag the Context holds at that moment (dianping.json:63, 136 and  *)
(* 228: the captcha steps return to the page that asked for them).         *)
GotoFollowsContext ==
    [][\A t \in Tags : retry'[t] # retry[t] =>
            \E i \in DOMAIN tmpl[c + 1].actions :
                Evaluated(tmpl[c + 1].actions[i].goto, tag') = t]_vars
=============================================================================
