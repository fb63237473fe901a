------------------------- MODULE TemplateRunProofs -------------------------
(***************************************************************************)
(* Proofs about TemplateRun, for every set of templates: the counters of   *)
(* the gotos stay below the limits, a goto lands on the step it names, and *)
(* run sends one message that ends the session, unless it panics.          *)
(***************************************************************************)
EXTENDS TemplateRun, WellFoundedInduction, TLAPS

IInv == TypeOK /\ GotosBounded /\ EndsOnce

-----------------------------------------------------------------------------
(* Lemmas                                                                  *)

(* A non-empty set of natural numbers has a least element.                 *)
LEMMA LeastNat ==
  ASSUME NEW T \in SUBSET Nat, T # {}
  PROVE  \E x \in T : \A y \in T : x <= y
<1> DEFINE R == OpToRel(<, Nat)
<1>1. IsWellFoundedOn(R, Nat)
  BY NatLessThanWellFounded
<1>2. \A x, y \in Nat : y < x => <<y, x>> \in R
  BY DEF OpToRel
<1> HIDE DEF R
<1>3. PICK x \in T : \A y \in T : ~ (<<y, x>> \in R)
  BY <1>1, WFMin, Zenon
<1>4. \A y \in T : ~ (y < x)
  BY <1>2, <1>3
<1> QED BY <1>4

(* A non-empty set of indices has a largest one.                           *)
LEMMA LargestIndex ==
  ASSUME NEW n \in Nat, NEW S \in SUBSET (0..(n - 1)), S # {}
  PROVE  \E x \in S : \A y \in S : y <= x
<1> DEFINE T == {n - i : i \in S}
<1>1. T \in SUBSET Nat /\ T # {}
  <2>1. \A i \in S : n - i \in Nat
    OBVIOUS
  <2> QED BY <2>1
<1>2. PICK m \in T : \A y \in T : m <= y
  BY <1>1, LeastNat
<1>3. PICK x \in S : m = n - x
  OBVIOUS
<1>4. ASSUME NEW y \in S PROVE y <= x
  BY <1>2, <1>3
<1> QED BY <1>4

(* gotoMap, plus one, is the last step that has the tag (task_cmd.go:389). *)
LEMMA GotoMapIsLast ==
  ASSUME prog \in Seq(Step), NEW t, Known(t)
  PROVE  /\ GotoMap(t) \in Int
         /\ GotoMap(t) + 1 \in 0..(Len(prog) - 1)
         /\ prog[GotoMap(t) + 2].tag = t
         /\ \A j \in Marked(prog, t) : j <= GotoMap(t) + 1
<1> DEFINE M == Marked(prog, t)
           g == CHOOSE i \in M : \A j \in M : j <= i
<1>1. M \in SUBSET (0..(Len(prog) - 1)) /\ M # {}
  BY DEF Marked, Known
<1>2. \E x \in M : \A y \in M : y <= x
  <2>1. Len(prog) \in Nat
    OBVIOUS
  <2> HIDE DEF M
  <2> QED BY <1>1, <2>1, LargestIndex
<1>3. g \in M /\ \A j \in M : j <= g
  BY <1>2
<1>4. GotoMap(t) = g - 1
  BY DEF GotoMap
<1> HIDE DEF g
<1>5. g \in 0..(Len(prog) - 1) /\ prog[g + 1].tag = t
  BY <1>3 DEF Marked
<1>6. GotoMap(t) \in Int /\ GotoMap(t) + 1 = g /\ GotoMap(t) + 2 = g + 1
  BY <1>4, <1>5
<1> QED BY <1>3, <1>5, <1>6

(* Evaluating a goto in place changes nothing else of the template.        *)
LEMMA AssignKeeps ==
  ASSUME TypeOK, NEW i, Fire(i), Assign(i)
  PROVE  /\ prog' \in Seq(Step)
         /\ Len(prog') = Len(prog)
         /\ DOMAIN prog' = DOMAIN prog
         /\ \A k \in DOMAIN prog : /\ prog'[k].goto_times = prog[k].goto_times
                                   /\ prog'[k].tag = prog[k].tag
         /\ tag' \in Tags \union {Unset}
         /\ Current.actions[i] \in Action
<1> USE TemplateAssumption DEF TemplateAssumption
<1> DEFINE s == prog[c + 1]
           a == s.actions[i]
           b == [a EXCEPT !.goto = Target(i)]
           as == [s.actions EXCEPT ![i] = b]
           z == [s EXCEPT !.actions = as]
<1>1. c + 1 \in 1..Len(prog) /\ s \in Step /\ i \in DOMAIN s.actions
  BY DEF TypeOK, Fire, Current
<1>2. s.actions \in Seq(Action) /\ a \in Action
  BY <1>1 DEF Step
<1>3. Assigned(s.sets, tag) \in Tags \union {Unset}
  BY <1>1 DEF Assigned, TypeOK, Step
<1>4. tag' \in Tags \union {Unset}
  BY <1>2, <1>3 DEF Fire, Current, TagAfterDo, Assigned, TypeOK, Action
<1>5. Target(i) \in Tags \union {NoTag, Expr, Unset}
  BY <1>2, <1>4 DEF Target, Evaluated, Current, Action
<1>6. b \in Action
  BY <1>2, <1>5 DEF Action
<1> HIDE DEF b
<1>7. as \in Seq(Action)
  BY <1>1, <1>2, <1>6
<1> HIDE DEF as
<1>8. z \in Step /\ z.goto_times = s.goto_times /\ z.tag = s.tag
  BY <1>1, <1>7 DEF Step
<1>9. prog' = [prog EXCEPT ![c + 1] = z]
  BY DEF Assign, as, b
<1> HIDE DEF z
<1>10. prog' \in Seq(Step) /\ Len(prog') = Len(prog) /\ DOMAIN prog' = DOMAIN prog
  BY <1>1, <1>8, <1>9 DEF TypeOK
<1>11. \A k \in DOMAIN prog : /\ prog'[k].goto_times = prog[k].goto_times
                              /\ prog'[k].tag = prog[k].tag
  BY <1>1, <1>8, <1>9 DEF TypeOK
<1> QED BY <1>2, <1>4, <1>10, <1>11 DEF Current

-----------------------------------------------------------------------------
(* The invariant                                                           *)

LEMMA InitIInv == Init => IInv
<1> SUFFICES ASSUME Init PROVE IInv
  OBVIOUS
<1> USE TemplateAssumption DEF TemplateAssumption
<1>1. TypeOK
  <2>1. tmpl \in Seq(Step) /\ prog \in Seq(Step)
    BY DEF Init
  <2>2. c \in 0..Len(prog)
    BY <2>1 DEF Init
  <2>3. retry \in [Tags -> Nat] /\ tag \in Tags \union {Unset}
    BY DEF Init
  <2> QED BY <2>1, <2>2, <2>3 DEF Init, TypeOK, Status, Terminal
<1>2. GotosBounded
  BY DEF Init, GotosBounded
<1>3. EndsOnce
  BY DEF Init, EndsOnce, Terminal
<1> QED BY <1>1, <1>2, <1>3 DEF IInv

(* What an action that fires leaves in common, whatever it does then.      *)
LEMMA FireKeeps ==
  ASSUME TypeOK, NEW i, Fire(i)
  PROVE  /\ tmpl' \in Seq(Step)
         /\ c + 1 \in 1..Len(prog) /\ c \in 0..(Len(prog) - 1)
         /\ Current \in Step
         /\ Current.actions[i] \in Action
         /\ tag' \in Tags \union {Unset}
<1>1. c + 1 \in 1..Len(prog) /\ Current \in Step /\ i \in DOMAIN Current.actions
  BY DEF TypeOK, Fire, Current
<1>2. Current.actions[i] \in Action
  BY <1>1 DEF Step
<1>3. Assigned(Current.sets, tag) \in Tags \union {Unset}
  BY <1>1 DEF Assigned, TypeOK, Step
<1>4. tag' \in Tags \union {Unset}
  BY <1>2, <1>3 DEF Fire, TagAfterDo, Assigned, TypeOK, Action
<1> QED BY <1>1, <1>2, <1>4 DEF Fire, TypeOK

LEMMA StepTypeOK == TypeOK /\ [Next]_vars => TypeOK'
<1> SUFFICES ASSUME TypeOK, [Next]_vars PROVE TypeOK'
  OBVIOUS
<1> USE TemplateAssumption DEF TemplateAssumption
<1>1. CASE Skip
  BY <1>1 DEF Skip, TypeOK
<1>2. CASE NoActionFires
  <2>1. Current \in Step
    BY <1>2 DEF NoActionFires, TypeOK, Current
  <2>2. tag' \in Tags \union {Unset}
    BY <1>2, <2>1 DEF NoActionFires, TagAfterDo, Assigned, TypeOK, Step
  <2> QED BY <1>2, <2>2 DEF NoActionFires, TypeOK
<1>3. ASSUME NEW i, ActionEnds(i) PROVE TypeOK'
  BY <1>3, FireKeeps DEF ActionEnds, End, TypeOK, Status, Terminal
<1>4. ASSUME NEW i, ActionFallsThrough(i) PROVE TypeOK'
  <2>1. said' \in Status
    BY <1>4, FireKeeps DEF ActionFallsThrough, Answered, TypeOK, Action
  <2> QED BY <1>4, <2>1, FireKeeps, AssignKeeps DEF ActionFallsThrough, TypeOK
<1>5. ASSUME NEW i, Jump(i) PROVE TypeOK'
  <2>1. said' \in Status
    BY <1>5, FireKeeps DEF Jump, Answered, TypeOK, Action
  <2>2. c' \in 0..(Len(prog) - 1)
    BY <1>5, GotoMapIsLast DEF Jump, TypeOK
  <2>3. retry' \in [Tags -> Nat]
    BY <1>5 DEF Jump, Known, TypeOK
  <2>4. pc' = "head"
    BY <1>5 DEF Jump, Fire
  <2> QED BY <1>5, <2>1, <2>2, <2>3, <2>4, FireKeeps, AssignKeeps DEF Jump, TypeOK
<1>6. ASSUME NEW i, JumpTooOften(i) PROVE TypeOK'
  BY <1>6, FireKeeps, AssignKeeps DEF JumpTooOften, End, TypeOK, Status, Terminal
<1>7. CASE TailStep
  <2>1. Current \in Step
    BY <1>7 DEF TailStep, StepFails, StepFinishes, PythonFails, NextStep, NextPanics,
                StepTail, TypeOK, Current
  <2>3. CASE StepFails
    BY <2>3 DEF StepFails, StepTail, End, TypeOK, Status, Terminal
  <2>4. CASE StepFinishes
    BY <2>4 DEF StepFinishes, StepTail, TypeOK
  <2>5. CASE PythonFails
    BY <2>5 DEF PythonFails, StepTail, End, TypeOK, Status, Terminal
  <2>6. CASE NextStep
    BY <2>1, <2>6 DEF NextStep, StepTail, TypeOK, Answered, Step
  <2>7. CASE NextPanics
    BY <2>1, <2>7 DEF NextPanics, StepTail, End, TypeOK, Answered, Step
  <2> QED BY <1>7, <2>3, <2>4, <2>5, <2>6, <2>7 DEF TailStep
<1>8. CASE LoopEnds
  BY <1>8 DEF LoopEnds, TypeOK
<1>9. CASE Finish
  BY <1>9 DEF Finish, End, TypeOK, Status, Terminal
<1>10. CASE UNCHANGED vars
  BY <1>10 DEF vars, TypeOK
<1> QED BY <1>1, <1>2, <1>3, <1>4, <1>5, <1>6, <1>7, <1>8, <1>9, <1>10
        DEF Next, ActionStep

LEMMA StepGotosBounded == IInv /\ [Next]_vars => GotosBounded'
<1> SUFFICES ASSUME IInv, [Next]_vars PROVE GotosBounded'
  OBVIOUS
<1>1. CASE UNCHANGED <<prog, retry>>
  BY <1>1 DEF IInv, GotosBounded, GotoTimes
<1>2. ASSUME NEW i, Fire(i), Assign(i), UNCHANGED retry PROVE GotosBounded'
  BY <1>2, AssignKeeps DEF IInv, GotosBounded, GotoTimes
<1>3. ASSUME NEW i, Jump(i) PROVE GotosBounded'
  <2> DEFINE t == Target(i)
  <2>1. /\ Fire(i) /\ Assign(i) /\ t \in Tags
        /\ retry[t] <= GotoTimes(prog[c + 1])
        /\ retry' = [retry EXCEPT ![t] = @ + 1]
    BY <1>3 DEF Jump, Known, Current
  <2> HIDE DEF t
  <2>2. c + 1 \in DOMAIN prog /\ prog[c + 1] \in Step
    BY <2>1 DEF IInv, TypeOK, Fire
  <2>3. \A k \in DOMAIN prog : GotoTimes(prog'[k]) = GotoTimes(prog[k])
    BY <2>1, AssignKeeps DEF IInv, GotoTimes
  <2>4. DOMAIN prog' = DOMAIN prog
    BY <2>1, AssignKeeps DEF IInv
  <2>5. GotoTimes(prog[c + 1]) \in Nat /\ retry[t] \in Nat
    BY <2>1, <2>2, TemplateAssumption
       DEF GotoTimes, Step, IInv, TypeOK, TemplateAssumption
  <2>6. retry'[t] <= GotoTimes(prog'[c + 1]) + 1
    BY <2>1, <2>2, <2>3, <2>5 DEF IInv, TypeOK
  <2>7. \A u \in Tags \ {t} : retry'[u] = retry[u]
    BY <2>1 DEF IInv, TypeOK
  <2> QED BY <2>1, <2>2, <2>3, <2>4, <2>6, <2>7 DEF IInv, GotosBounded
<1>4. CASE ~ UNCHANGED <<prog, retry>>
  <2>1. PICK i : ActionFallsThrough(i) \/ Jump(i) \/ JumpTooOften(i)
    BY <1>4 DEF Next, ActionStep, TailStep, Skip, NoActionFires, StepFails, StepTail,
           StepFinishes, PythonFails, NextStep, NextPanics, LoopEnds, Finish, ActionEnds, vars
  <2> QED BY <1>2, <1>3, <2>1 DEF ActionFallsThrough, JumpTooOften
<1> QED BY <1>1, <1>4

LEMMA StepEndsOnce == IInv /\ [Next]_vars => EndsOnce'
<1> SUFFICES ASSUME IInv, [Next]_vars PROVE EndsOnce'
  OBVIOUS
<1> USE DEF IInv, EndsOnce
<1>1. ASSUME NEW i, ActionEnds(i) PROVE EndsOnce'
  BY <1>1 DEF ActionEnds, End
<1>2. ASSUME NEW i, ActionFallsThrough(i) PROVE EndsOnce'
  BY <1>2 DEF ActionFallsThrough, Fire, Answered
<1>3. ASSUME NEW i, Jump(i) PROVE EndsOnce'
  BY <1>3 DEF Jump, Fire, Answered
<1>4. ASSUME NEW i, JumpTooOften(i) PROVE EndsOnce'
  BY <1>4 DEF JumpTooOften, End, Terminal
<1>5. CASE TailStep
  BY <1>5 DEF TailStep, StepFails, StepFinishes, PythonFails, NextStep, NextPanics, StepTail,
              End, Answered, Terminal
<1>6. CASE Skip \/ NoActionFires \/ LoopEnds
  BY <1>6 DEF Skip, NoActionFires, LoopEnds
<1>7. CASE Finish
  BY <1>7 DEF Finish, End, Terminal
<1>8. CASE UNCHANGED vars
  BY <1>8 DEF vars
<1> QED BY <1>1, <1>2, <1>3, <1>4, <1>5, <1>6, <1>7, <1>8 DEF Next, ActionStep

THEOREM TemplateInductive == Spec => []IInv
<1>1. IInv /\ [Next]_vars => IInv'
  BY StepTypeOK, StepGotosBounded, StepEndsOnce DEF IInv
<1> QED BY InitIInv, <1>1, PTL DEF Spec

-----------------------------------------------------------------------------
(* The properties                                                          *)

(* However many steps share a tag and whatever their limits, the counter   *)
(* of the tag exceeds the largest of them by one at most.                  *)
THEOREM GotosBoundedHolds == Spec => []GotosBounded
<1>1. IInv => GotosBounded
  BY DEF IInv
<1> QED BY TemplateInductive, <1>1, PTL

(* run sends fail or finish_fetch_data once, as its last message, or never *)
(* because nextToRedis panicked.                                           *)
THEOREM EndsOnceHolds == Spec => []EndsOnce
<1>1. IInv => EndsOnce
  BY DEF IInv
<1> QED BY TemplateInductive, <1>1, PTL

(* Every goto of every template lands on the last step that has its tag,   *)
(* and run never goes back in any other way.                               *)
THEOREM JumpLandsHolds == Spec => JumpLands
<1> DEFINE Lands ==
      /\ \A t \in Tags : retry'[t] # retry[t] =>
             /\ retry'[t] = retry[t] + 1
             /\ \E i \in DOMAIN Current.actions :
                    Evaluated(Current.actions[i].goto, tag') = t
             /\ prog[c' + 1].tag = t
             /\ \A j \in Marked(prog, t) : j <= c'
      /\ c' < c => retry' # retry
<1>1. IInv /\ [Next]_vars => [Lands]_vars
  <2> SUFFICES ASSUME IInv, [Next]_vars PROVE Lands \/ UNCHANGED vars
    OBVIOUS
  <2>1. ASSUME NEW i, Jump(i) PROVE Lands
    <3> DEFINE t == Target(i)
    <3>1. /\ Fire(i) /\ Known(t) /\ t \in Tags
          /\ retry' = [retry EXCEPT ![t] = @ + 1]
          /\ c' = GotoMap(t) + 1
          /\ i \in DOMAIN Current.actions
          /\ Evaluated(Current.actions[i].goto, tag') = t
      BY <2>1 DEF Jump, Known, Target, Fire
    <3> HIDE DEF t
    <3>2. /\ GotoMap(t) \in Int
          /\ GotoMap(t) + 1 \in 0..(Len(prog) - 1)
          /\ prog[GotoMap(t) + 2].tag = t
          /\ \A j \in Marked(prog, t) : j <= c'
      BY <3>1, GotoMapIsLast DEF IInv, TypeOK
    <3>3. c' + 1 = GotoMap(t) + 2
      BY <3>1, <3>2
    <3>4. retry[t] \in Nat /\ retry'[t] = retry[t] + 1
      BY <3>1 DEF IInv, TypeOK
    <3>5. \A u \in Tags \ {t} : retry'[u] = retry[u]
      BY <3>1 DEF IInv, TypeOK
    <3>6. retry' # retry
      BY <3>4
    <3>7. prog[c' + 1].tag = t
      BY <3>2, <3>3
    <3>8. \A u \in Tags : retry'[u] # retry[u] => u = t
      BY <3>5
    <3>9. ASSUME NEW u \in Tags, retry'[u] # retry[u]
          PROVE  /\ retry'[u] = retry[u] + 1
                 /\ \E j \in DOMAIN Current.actions :
                        Evaluated(Current.actions[j].goto, tag') = u
                 /\ prog[c' + 1].tag = u
                 /\ \A j \in Marked(prog, u) : j <= c'
      <4>1. u = t
        BY <3>8, <3>9
      <4>2. \E j \in DOMAIN Current.actions :
              Evaluated(Current.actions[j].goto, tag') = t
        BY <3>1
      <4> QED BY <3>2, <3>4, <3>7, <4>1, <4>2
    <3> QED BY <3>6, <3>9
  <2>2. ASSUME UNCHANGED retry, ~ (c' < c) PROVE Lands
    BY <2>2
  <2>3. ASSUME NEW i, ActionEnds(i) \/ ActionFallsThrough(i) \/ JumpTooOften(i)
        PROVE Lands
    BY <2>2, <2>3 DEF ActionEnds, ActionFallsThrough, JumpTooOften, IInv, TypeOK
  <2>4. CASE Skip \/ NoActionFires \/ TailStep \/ LoopEnds \/ Finish
    BY <2>2, <2>4 DEF Skip, NoActionFires, TailStep, StepFails, StepFinishes,
           PythonFails, NextStep, NextPanics, StepTail, LoopEnds, Finish, IInv, TypeOK
  <2> QED BY <2>1, <2>3, <2>4 DEF Next, ActionStep
<1> QED BY TemplateInductive, <1>1, PTL DEF Spec, JumpLands

-----------------------------------------------------------------------------
(* Every step advances                                                     *)

(* Where run is on its way through the template: two places for each step, *)
(* and two behind the last.                                                *)
Place == [head |-> 2 * c, tail |-> 2 * c + 1,
          finish |-> 2 * Len(prog) + 1, done |-> 2 * Len(prog) + 2][pc]

Counted == /\ \A t \in Tags : retry'[t] >= retry[t]
           /\ \E t \in Tags : retry'[t] > retry[t]

Advance == /\ Len(prog') = Len(prog)
           /\ Counted \/ (retry' = retry /\ Place < Place')

LEMMA JumpCounts == ASSUME TypeOK, NEW i, Jump(i) PROVE Advance
<1> DEFINE t == Target(i)
<1>1. t \in Tags /\ retry' = [retry EXCEPT ![t] = @ + 1]
  BY DEF Jump, Known
<1>2. Len(prog') = Len(prog)
  BY AssignKeeps DEF Jump
<1> HIDE DEF t
<1>3. retry \in [Tags -> Nat]
  BY DEF TypeOK
<1>4. retry'[t] > retry[t] /\ \A u \in Tags \ {t} : retry'[u] = retry[u]
  BY <1>1, <1>3
<1>5. ASSUME NEW u \in Tags PROVE retry'[u] >= retry[u]
  <2>1. CASE u = t
    BY <1>1, <1>3, <1>4, <2>1
  <2>2. CASE u # t
    BY <1>3, <1>4, <2>2
  <2> QED BY <2>1, <2>2
<1> QED BY <1>1, <1>2, <1>4, <1>5 DEF Advance, Counted

LEMMA ActionAdvances ==
  ASSUME TypeOK, NEW i, ActionEnds(i) \/ ActionFallsThrough(i) \/ JumpTooOften(i)
  PROVE  Advance
<1>1. Fire(i) /\ pc = "head" /\ c \in 0..(Len(prog) - 1) /\ UNCHANGED <<c, retry>>
  BY FireKeeps DEF Fire, ActionEnds, ActionFallsThrough, JumpTooOften
<1>2. Len(prog') = Len(prog) /\ Len(prog) \in Nat
  BY <1>1, AssignKeeps DEF ActionEnds, ActionFallsThrough, JumpTooOften, TypeOK
<1>3. pc' \in {"tail", "done"}
  BY DEF ActionEnds, ActionFallsThrough, JumpTooOften, End
<1> QED BY <1>1, <1>2, <1>3 DEF Advance, Place

LEMMA OtherAdvances ==
  ASSUME TypeOK, Skip \/ NoActionFires \/ TailStep \/ LoopEnds \/ Finish
  PROVE  Advance
<1>1. UNCHANGED <<prog, retry>> /\ Len(prog) \in Nat /\ c \in 0..Len(prog)
  BY DEF TypeOK, Skip, NoActionFires, TailStep, StepFails, StepFinishes,
         PythonFails, NextStep, NextPanics, StepTail, LoopEnds, Finish
<1>2. Place < Place'
  <2>1. CASE Skip
    BY <1>1, <2>1 DEF Skip, Place
  <2>2. CASE NoActionFires
    BY <1>1, <2>2 DEF NoActionFires, Place
  <2>3. CASE TailStep
    <3>1. pc = "tail" /\ c < Len(prog)
      BY <2>3 DEF TailStep, StepFails, StepFinishes, PythonFails, NextStep, NextPanics,
                  StepTail, TypeOK
    <3>2. \/ pc' = "head" /\ c' = c + 1
          \/ pc' \in {"finish", "done"}
      BY <2>3 DEF TailStep, StepFails, StepFinishes, PythonFails, NextStep, NextPanics, End
    <3> QED BY <1>1, <3>1, <3>2 DEF Place
  <2>4. CASE LoopEnds
    BY <1>1, <2>4 DEF LoopEnds, Place
  <2>5. CASE Finish
    BY <1>1, <2>5 DEF Finish, End, Place
  <2> QED BY <2>1, <2>2, <2>3, <2>4, <2>5
<1> QED BY <1>1, <1>2 DEF Advance

(* Why run ends on every template, whatever the conditions say: a step of  *)
(* run is counted as a goto and takes no count back, or it moves towards   *)
(* the end of a template that grows no longer.  The counters are bounded   *)
(* (GotosBounded), the places too (task_cmd.go:390-835).                   *)
THEOREM WalkAdvances == Spec => [][Advance]_vars
<1>1. IInv /\ [Next]_vars => [Advance]_vars
  BY JumpCounts, ActionAdvances, OtherAdvances DEF IInv, Next, ActionStep
<1> QED BY TemplateInductive, <1>1, PTL DEF Spec

-----------------------------------------------------------------------------
(* The template as it was loaded                                           *)

(* run overwrites gotos of the session's copy and nothing else of a step   *)
(* that has to do with where the walk goes on.                             *)
SameWalk ==
  /\ Len(prog) = Len(tmpl)
  /\ \A k \in DOMAIN prog : /\ prog[k].tag = tmpl[k].tag
                            /\ prog[k].goto_times = tmpl[k].goto_times

LoadedLimits ==
  \A t \in Tags : retry[t] > 0 =>
      \E i \in DOMAIN tmpl : retry[t] <= GotoTimes(tmpl[i]) + 1

LEMMA StepSameWalk == TypeOK /\ SameWalk /\ [Next]_vars => SameWalk'
<1> SUFFICES ASSUME TypeOK, SameWalk, [Next]_vars PROVE SameWalk'
  OBVIOUS
<1>1. CASE UNCHANGED <<tmpl, prog>>
  BY <1>1 DEF SameWalk
<1>2. ASSUME NEW i, Fire(i), Assign(i) PROVE SameWalk'
  <2>1. UNCHANGED tmpl
    BY <1>2 DEF Fire
  <2> QED BY <1>2, <2>1, AssignKeeps DEF SameWalk
<1>3. CASE ~ UNCHANGED <<tmpl, prog>>
  <2>1. PICK i : ActionFallsThrough(i) \/ Jump(i) \/ JumpTooOften(i)
    BY <1>3 DEF Next, ActionStep, TailStep, Skip, NoActionFires, StepFails, StepTail,
           StepFinishes, PythonFails, NextStep, NextPanics, LoopEnds, Finish, ActionEnds, Fire, vars
  <2> QED BY <1>2, <2>1 DEF ActionFallsThrough, Jump, JumpTooOften
<1> QED BY <1>1, <1>3

(* Overwriting gotos moves no tag and changes no limit: the counters stay  *)
(* below the limits that the template has in its file (task_cmd.go:642,    *)
(* 649).                                                                   *)
THEOREM LoadedLimitsHold == Spec => [](SameWalk /\ LoadedLimits)
<1>1. Init => SameWalk
  BY DEF Init, SameWalk
<1>2. IInv /\ SameWalk => LoadedLimits
  <2> SUFFICES ASSUME IInv, SameWalk, NEW t \in Tags, retry[t] > 0
               PROVE  \E i \in DOMAIN tmpl : retry[t] <= GotoTimes(tmpl[i]) + 1
    BY DEF LoadedLimits
  <2>1. PICK i \in DOMAIN prog : retry[t] <= GotoTimes(prog[i]) + 1
    BY DEF IInv, GotosBounded
  <2>2. GotoTimes(prog[i]) = GotoTimes(tmpl[i])
    BY DEF SameWalk, GotoTimes
  <2>3. i \in DOMAIN tmpl
    BY DEF SameWalk, IInv, TypeOK
  <2> QED BY <2>1, <2>2, <2>3
<1>3. IInv => TypeOK
  BY DEF IInv
<1> QED BY TemplateInductive, <1>1, <1>2, <1>3, StepSameWalk, PTL DEF Spec
=============================================================================
