-------------------------- MODULE SchedulerProofs --------------------------
(* Theorems about Scheduler, for every set of targets and handlers, every  *)
(* limit of tries and every bound.                                         *)
EXTENDS Scheduler, SequenceTheorems, FiniteSetTheorems, FunctionTheorems, TLAPS

(* A sequence stays typed when its elements are allowed more.              *)
LEMMA Widen ==
    ASSUME NEW S, NEW T, S \subseteq T, NEW q \in Seq(S)
    PROVE  q \in Seq(T)
BY SeqMonotonic

(* Taking the first element, and putting it back at the end.               *)
LEMMA Taken ==
    ASSUME NEW S, NEW q \in Seq(S), q # <<>>
    PROVE  Head(q) \in S /\ Tail(q) \in Seq(S) /\ Append(Tail(q), Head(q)) \in Seq(S)
BY HeadTailProperties, AppendProperties

(* The copies the cron job makes are copies of rows as they are.           *)
RowCopy == {c \in Copy : c.target \in crawling /\ c.times = times[c.target]}

LEMMA Selected ==
    ASSUME TypeOK, JobSelect
    PROVE  picked' \in Seq(RowCopy)
<1>1. PICK batch \in SUBSET crawling :
        \E order \in Orders(batch) :
            picked' = [i \in 1..Cardinality(batch) |->
                         [target |-> order[i], times |-> times[order[i]],
                          priority |-> FALSE]]
  BY Zenon DEF JobSelect
<1>2. PICK order \in Orders(batch) :
        picked' = [i \in 1..Cardinality(batch) |->
                     [target |-> order[i], times |-> times[order[i]],
                      priority |-> FALSE]]
  BY <1>1
<1> DEFINE n == Cardinality(batch)
<1>3. n \in Nat
  BY FS_Subset, FS_CardinalityType, SchedulerAssumption
     DEF SchedulerAssumption, TypeOK, TablesOK
<1>4. order \in [1..n -> batch]
  BY DEF Orders
<1>5. ASSUME NEW i \in 1..n
      PROVE  [target |-> order[i], times |-> times[order[i]],
              priority |-> FALSE] \in RowCopy
  <2>1. order[i] \in crawling /\ order[i] \in Targets
    BY <1>4, <1>5 DEF TypeOK, TablesOK
  <2> QED
    BY <2>1, SchedulerAssumption
       DEF RowCopy, Copy, TypeOK, TablesOK, SchedulerAssumption
<1>6. picked' \in [1..n -> RowCopy]
  BY <1>2, <1>5
<1> HIDE DEF n
<1> QED
  BY <1>3, <1>6, SeqDef

(* A find more, a find less.                                               *)
LEMMA HoldsOne ==
    ASSUME found \in [Find -> 0..MaxFinds], NEW f \in Find, Holds(f)
    PROVE  /\ found' \in [Find -> 0..MaxFinds]
           /\ f.origin \in Origins /\ found[f] < MaxFinds
           /\ found[f] \in Nat /\ found'[f] = found[f] + 1
           /\ \A g \in Find \ {f} : found'[g] = found[g]
<1>1. found[f] \in 0..MaxFinds /\ found[f] + 1 \in 0..MaxFinds
  BY SchedulerAssumption DEF SchedulerAssumption, Holds
<1> QED
  BY <1>1 DEF Holds

LEMMA LetsGoOne ==
    ASSUME found \in [Find -> 0..MaxFinds], NEW f \in Find, LetGo(f)
    PROVE  /\ found' \in [Find -> 0..MaxFinds]
           /\ found[f] \in Nat /\ found[f] > 0 /\ found'[f] = found[f] - 1
           /\ MaxFinds \in Nat /\ MaxFinds > 0
           /\ \A g \in Find \ {f} : found'[g] = found[g]
<1>1. found[f] \in 0..MaxFinds /\ found[f] - 1 \in 0..MaxFinds /\ MaxFinds \in Nat
  BY SchedulerAssumption DEF SchedulerAssumption, LetGo
<1> QED
  BY <1>1 DEF LetGo

(* Types and counts at the start.                                          *)
LEMMA InitInv == Init => IInv
<1> SUFFICES ASSUME Init PROVE IInv
  OBVIOUS
<1> USE SchedulerAssumption DEF SchedulerAssumption, Init
<1>1. TablesOK /\ found \in [Find -> 0..MaxFinds] /\ CountersOK
  BY DEF TablesOK, CountersOK
<1>2. ListsOK /\ picked \in Seq(Earned) /\ queue \in Seq(Earned)
  BY EmptySeq DEF ListsOK
<1>3. job \in [Workers -> Job]
  BY DEF Job
<1>4. CountInv
  BY <1>2 DEF CountInv, At
<1> QED
  BY <1>1, <1>2, <1>3, <1>4 DEF IInv, TypeOK, StoredInv, At

(* What a busy handler holds.                                              *)
LEMMA Busy ==
    ASSUME IInv, NEW w \in Workers, job[w].pc # "idle"
    PROVE  /\ job[w] \in [pc : {"got", "times", "insert", "delete"}, copy : Copy,
                          stored : BOOLEAN]
           /\ job[w].copy \in Earned
           /\ Target(w) \in Targets
           /\ job[w].copy.times \in Nat
<1>1. job[w] \in Job
  BY DEF IInv, TypeOK
<1>2. job[w] \in [pc : {"got", "times", "insert", "delete"}, copy : Copy, stored : BOOLEAN]
  BY <1>1 DEF Job
<1>3. job[w].copy \in Earned
  BY DEF IInv, CountInv, At
<1>4. Target(w) \in Targets /\ job[w].copy.times \in 0..(Times + 1)
  BY <1>2 DEF Copy, Target
<1> QED
  BY <1>2, <1>3, <1>4, SchedulerAssumption DEF SchedulerAssumption

LEMMA RowsTyped ==
    ASSUME rows \in [Targets -> 0..(MaxFinds + 1)], NEW f, f.target \in Targets, AddRow(f)
    PROVE  /\ rows' \in [Targets -> 0..(MaxFinds + 1)]
           /\ rows'[f.target] = IF f.target \notin crawling /\ rows[f.target] <= MaxFinds
                                THEN rows[f.target] + 1 ELSE rows[f.target]
           /\ \A t \in Targets \ {f.target} : rows'[t] = rows[t]
<1> DEFINE n == IF f.target \notin crawling /\ rows[f.target] <= MaxFinds
                THEN rows[f.target] + 1 ELSE rows[f.target]
<1>1. n \in 0..(MaxFinds + 1)
  BY SchedulerAssumption DEF SchedulerAssumption
<1>2. rows' = [rows EXCEPT ![f.target] = n]
  BY DEF AddRow
<1> HIDE DEF n
<1>3. /\ rows' \in [Targets -> 0..(MaxFinds + 1)] /\ rows'[f.target] = n
      /\ \A t \in Targets \ {f.target} : rows'[t] = rows[t]
  BY <1>1, <1>2
<1> QED
  BY <1>3 DEF n

(* Steps that leave tables, handlers and failures alone.                   *)
LEMMA ListStep ==
    ASSUME IInv, UNCHANGED <<tableVars, job, failures>>,
           found' \in [Find -> 0..MaxFinds], refill' \subseteq Targets,
           picked' \in Seq(Earned), queue' \in Seq(Earned), CountersOK'
    PROVE  IInv'
<1>1. Earned' = Earned
  BY DEF Earned
<1>2. TablesOK' /\ ListsOK' /\ job' \in [Workers -> Job]
  <2>1. Earned \subseteq Copy
    BY DEF Earned
  <2>2. picked' \in Seq(Copy) /\ queue' \in Seq(Copy)
    BY <2>1, Widen
  <2> QED
    BY <2>2 DEF IInv, TypeOK, TablesOK, ListsOK, tableVars
<1>3. CountInv'
  BY <1>1 DEF IInv, CountInv, At, Target, tableVars
<1> QED
  BY <1>2, <1>3 DEF IInv, TypeOK, StoredInv, At, Target, tableVars

(* Steps of handlers that leave the failures alone and write what is       *)
(* earned into the tables.                                                 *)
LEMMA HandlerStep ==
    ASSUME IInv, UNCHANGED <<found, picked, refill, historyVars, crashes, fills>>,
           queue' \in Seq(Earned),
           TablesOK', faults' \in 0..MaxFaults, job' \in [Workers -> Job],
           \A t \in Targets : times'[t] <= failures[t],
           \A t \in Targets : banned'[t] => failures[t] > Times,
           crawled \subseteq crawled',
           \A w \in Workers : job'[w] # job[w] /\ job'[w].pc # "idle" =>
               /\ job'[w].copy \in Earned
               /\ job'[w].pc # "times"
               /\ job'[w].stored =>
                    job'[w].pc = "delete" /\ job'[w].copy.target \in crawled'
    PROVE  IInv'
<1>1. Earned' = Earned
  BY DEF Earned, historyVars
<1>2. ListsOK'
  <2>1. Earned \subseteq Copy
    BY DEF Earned
  <2>2. queue' \in Seq(Copy)
    BY <2>1, Widen
  <2> QED
    BY <2>2 DEF IInv, TypeOK, ListsOK
<1>3. TypeOK'
  BY <1>2 DEF IInv, TypeOK, CountersOK, historyVars
<1>4. CountInv'
  BY <1>1 DEF IInv, CountInv, At, Target, historyVars
<1>5. StoredInv'
  BY DEF IInv, StoredInv, At, Target
<1> QED
  BY <1>3, <1>4, <1>5 DEF IInv

LEMMA IInvStep == IInv /\ [Next]_vars => IInv'
<1> SUFFICES ASSUME IInv, [Next]_vars PROVE IInv'
  OBVIOUS
<1> USE SchedulerAssumption DEF SchedulerAssumption
<1>0. /\ picked \in Seq(Earned) /\ queue \in Seq(Earned)
      /\ CountersOK /\ found \in [Find -> 0..MaxFinds] /\ refill \subseteq Targets
      /\ TablesOK /\ job \in [Workers -> Job]
      /\ \A t \in Targets : times[t] <= failures[t] /\ (banned[t] => failures[t] > Times)
  BY DEF IInv, TypeOK, ListsOK, CountInv
<1>1. ASSUME NEW t \in Targets, NEW o \in Origins, Scan(t, o) PROVE IInv'
  <2>1. [target |-> t, origin |-> o] \in Find
    BY DEF Find
  <2>2. found' \in [Find -> 0..MaxFinds]
    BY <1>0, <1>1, <2>1, HoldsOne DEF Scan
  <2> QED
    BY <1>0, <1>1, <2>2, ListStep DEF Scan, listVars, historyVars, bounds, CountersOK
<1>2. ASSUME NEW f \in Find, AddRow(f) PROVE IInv'
  <2>1. f.target \in Targets /\ crawling' \subseteq Targets
    BY <1>0, <1>2 DEF AddRow, TablesOK, Find
  <2>2. found' \in [Find -> 0..MaxFinds]
    BY <1>0, <1>2, LetsGoOne DEF AddRow
  <2>3. rows' \in [Targets -> 0..(MaxFinds + 1)]
    BY <1>0, <1>2, <2>1, RowsTyped DEF CountersOK
  <2>4. TypeOK'
    BY <1>0, <1>2, <2>1, <2>2, <2>3
       DEF AddRow, IInv, TypeOK, TablesOK, ListsOK, CountersOK, listVars, bounds
  <2>5. CountInv' /\ StoredInv'
    BY <1>2 DEF AddRow, IInv, CountInv, StoredInv, Earned, At, Target, listVars
  <2> QED
    BY <2>4, <2>5 DEF IInv
<1>17. ASSUME NEW t \in Targets, Renew(t) PROVE IInv'
  <2>1. [target |-> t, origin |-> "renew"] \in Find
    BY DEF Find
  <2>2. found' \in [Find -> 0..MaxFinds]
    BY <1>0, <1>17, <2>1, HoldsOne DEF Renew
  <2>3. /\ TablesOK'
        /\ \A s \in Targets : times'[s] <= failures[s]
                             /\ (banned'[s] => failures[s] > Times)
    BY <1>0, <1>17 DEF Renew, NoRow, TablesOK, CountersOK
  <2>4. TypeOK'
    BY <1>0, <1>17, <2>2, <2>3
       DEF Renew, IInv, TypeOK, ListsOK, CountersOK, listVars, historyVars, bounds
  <2>5. Earned' = Earned
    BY <1>17 DEF Renew, Earned, historyVars
  <2>6. CountInv'
    BY <1>17, <2>3, <2>5
       DEF Renew, IInv, CountInv, At, Target, listVars, historyVars
  <2>7. StoredInv'
    BY <1>17 DEF Renew, IInv, StoredInv, At, Target
  <2> QED
    BY <2>4, <2>6, <2>7 DEF IInv
<1>18. ASSUME NEW f \in Find, Lose(f) PROVE IInv'
  <2>1. found' \in [Find -> 0..MaxFinds]
    BY <1>0, <1>18, LetsGoOne DEF Lose
  <2> QED
    BY <1>0, <1>18, <2>1, ListStep DEF Lose, listVars, historyVars, bounds, CountersOK
<1>3. ASSUME NEW f \in Find, NEW first \in BOOLEAN, PushNext(f, first) PROVE IInv'
  <2> DEFINE copy == [target |-> f.target, times |-> 0, priority |-> TRUE]
  <2>1. copy \in Earned
    BY <1>0 DEF Earned, Copy, Find, CountersOK
  <2>2. <<copy>> \in Seq(Earned)
    BY <2>1
  <2>3. queue' = <<copy>> \o queue \/ queue' = Append(queue, copy)
    BY <1>3 DEF PushNext
  <2>4. <<copy>> \o queue \in Seq(Earned) /\ Append(queue, copy) \in Seq(Earned)
    <3> HIDE DEF copy
    <3>1. <<copy>> \o queue \in Seq(Earned)
      BY <1>0, <2>2, ConcatProperties
    <3>2. Append(queue, copy) \in Seq(Earned)
      BY <1>0, <2>1, AppendProperties
    <3> QED
      BY <3>1, <3>2
  <2>5. found' \in [Find -> 0..MaxFinds]
    BY <1>0, <1>3, LetsGoOne DEF PushNext
  <2> QED
    BY <1>0, <1>3, <2>3, <2>4, <2>5, ListStep DEF PushNext, historyVars, bounds, CountersOK
<1>4. CASE JobSelect
  <2>1. RowCopy \subseteq Earned
    BY DEF RowCopy, Earned, IInv, TypeOK, TablesOK, CountInv
  <2>2. picked' \in Seq(Earned)
    BY <1>4, <2>1, Selected, Widen DEF IInv
  <2> QED
    BY <1>0, <1>4, <2>2, ListStep DEF JobSelect, historyVars, bounds, CountersOK
<1>5. CASE JobPush
  <2>1. queue' \in Seq(Earned) /\ picked' \in Seq(Earned)
    BY <1>0, <1>5, ConcatProperties, EmptySeq DEF JobPush
  <2> QED
    BY <1>0, <1>5, <2>1, ListStep DEF JobPush, historyVars, bounds, CountersOK
<1>6. CASE ClearCircle
  <2>1. queue' \in Seq(Earned)
    BY <1>6, EmptySeq DEF ClearCircle
  <2>2. CountersOK'
    BY <1>0, <1>6 DEF ClearCircle, CountersOK, historyVars
  <2> QED
    BY <1>0, <1>6, <2>1, <2>2, ListStep DEF ClearCircle, historyVars
<1>7. ASSUME NEW t \in Targets, FillCircle(t) PROVE IInv'
  <2>1. [target |-> t, times |-> 0, priority |-> TRUE] \in Earned
    BY <1>0 DEF Earned, Copy, CountersOK
  <2>2. queue' \in Seq(Earned)
    BY <1>0, <1>7, <2>1, AppendProperties DEF FillCircle
  <2> QED
    BY <1>0, <1>7, <2>2, ListStep DEF FillCircle, historyVars, bounds, CountersOK
<1>8. ASSUME NEW w \in Workers, Pop(w) PROVE IInv'
  <2>1. Head(queue) \in Earned /\ queue' \in Seq(Earned)
    BY <1>0, <1>8, Taken DEF Pop
  <2> DEFINE taken == [pc |-> "got", copy |-> Head(queue), stored |-> FALSE]
  <2>2. taken \in Job
    BY <2>1 DEF Job, Earned
  <2>3. job' = [job EXCEPT ![w] = taken]
    BY <1>8 DEF Pop
  <2>4. job' \in [Workers -> Job]
    BY <1>0, <2>2, <2>3
  <2>5. \A v \in Workers : job'[v] # job[v] => job'[v] = taken
    BY <1>0, <2>3
  <2>6. TablesOK' /\ faults' \in 0..MaxFaults
    BY <1>0, <1>8 DEF Pop, TablesOK, CountersOK, tableVars, bounds
  <2> QED
    BY <1>0, <1>8, <2>1, <2>4, <2>5, <2>6, HandlerStep DEF Pop, tableVars, bounds
<1>9. ASSUME NEW w \in Workers, DropStale(w) PROVE IInv'
  <2>1. job' = [job EXCEPT ![w] = [pc |-> "idle"]]
    BY <1>9 DEF DropStale, Rest
  <2>2. job' \in [Workers -> Job]
    BY <1>0, <2>1 DEF Job
  <2>3. TablesOK' /\ faults' \in 0..MaxFaults /\ queue' \in Seq(Earned)
    BY <1>0, <1>9 DEF DropStale, TablesOK, CountersOK, tableVars, bounds, listVars
  <2> QED
    BY <1>0, <1>9, <2>1, <2>2, <2>3, HandlerStep
       DEF DropStale, tableVars, bounds, listVars
<1>10. ASSUME NEW w \in Workers, Request(w) PROVE IInv'
  <2> USE DEF At
  <2>1. /\ job[w] \in [pc : {"got", "times", "insert", "delete"}, copy : Copy,
                        stored : BOOLEAN]
        /\ job[w].copy \in Earned /\ Target(w) \in Targets
        /\ job[w].copy.times \in Nat /\ job[w].copy.times <= Times
    BY <1>10, Busy DEF Request
  <2>2. PICK to \in {"insert", "times"} :
          /\ job' = [job EXCEPT ![w].pc = to]
          /\ to = "insert" => failures' = failures
          /\ to = "times" => failures' = [failures EXCEPT ![Target(w)] =
                                            IF @ <= Times THEN @ + 1 ELSE @]
    BY <1>10 DEF Request, Goto
  <2>3. failures' \in [Targets -> 0..(Times + 1)]
    <3> DEFINE n == IF failures[Target(w)] <= Times THEN failures[Target(w)] + 1
                                                    ELSE failures[Target(w)]
    <3>1. n \in 0..(Times + 1)
      BY <1>0, <2>1 DEF CountersOK
    <3>2. failures' = failures \/ failures' = [failures EXCEPT ![Target(w)] = n]
      BY <2>2
    <3> HIDE DEF n
    <3> QED
      BY <1>0, <2>1, <3>1, <3>2 DEF CountersOK
  <2>4. \A t \in Targets : failures[t] <= failures'[t]
    <3> SUFFICES ASSUME NEW t \in Targets PROVE failures[t] <= failures'[t]
      OBVIOUS
    <3>1. failures[t] \in Nat
      BY <1>0 DEF CountersOK
    <3>2. CASE failures' = failures
      BY <3>1, <3>2
    <3>3. CASE failures' # failures /\ t = Target(w)
      <4>1. failures'[t] = IF failures[t] <= Times THEN failures[t] + 1 ELSE failures[t]
        BY <1>0, <2>1, <2>2, <3>3 DEF CountersOK
      <4> QED
        BY <3>1, <4>1
    <3>4. CASE failures' # failures /\ t # Target(w)
      <4>1. failures'[t] = failures[t]
        BY <1>0, <2>1, <2>2, <3>4 DEF CountersOK
      <4> QED
        BY <3>1, <4>1
    <3> QED
      BY <3>2, <3>3, <3>4
  <2>5. Earned \subseteq Earned'
    BY <1>0, <2>3, <2>4 DEF Earned, Copy, CountersOK
  <2>6. picked' \in Seq(Earned') /\ queue' \in Seq(Earned')
    BY <1>0, <1>10, <2>5, Widen DEF Request, listVars
  <2>7. job' \in [Workers -> Job]
    BY <1>0, <2>1, <2>2 DEF Job
  <2>8. TypeOK'
    BY <1>0, <1>10, <2>3, <2>7
       DEF Request, IInv, TypeOK, TablesOK, ListsOK, CountersOK, tableVars,
           listVars, bounds
  <2>9. CountInv'
    <3>1. \A t \in Targets : times'[t] <= failures'[t]
                             /\ (banned'[t] => failures'[t] > Times)
      BY <1>0, <1>10, <2>3, <2>4 DEF Request, tableVars, TablesOK, CountersOK
    <3>2. ASSUME NEW v \in Workers, job'[v].pc # "idle"
          PROVE  /\ job'[v].copy \in Earned'
                 /\ job'[v].pc = "times" =>
                      job'[v].copy.times < failures'[job'[v].copy.target]
      <4>1. CASE v = w
        <5>1. job'[w].copy = job[w].copy /\ job'[w].pc = to
          BY <1>0, <2>1, <2>2
        <5>2. to = "times" => failures'[Target(w)] =
                 IF failures[Target(w)] <= Times THEN failures[Target(w)] + 1
                                                 ELSE failures[Target(w)]
          BY <1>0, <2>1, <2>2 DEF CountersOK
        <5>3. job[w].copy.times <= failures[Target(w)]
          BY <2>1 DEF Earned, Target
        <5>4. failures[Target(w)] \in Nat
          BY <1>0, <2>1 DEF CountersOK
        <5> QED
          BY <2>1, <2>5, <4>1, <5>1, <5>2, <5>3, <5>4 DEF Target
      <4>2. CASE v # w
        <5>1. job'[v] = job[v]
          BY <1>0, <2>2, <4>2
        <5>2. job[v].copy \in Earned /\ job[v].copy.target \in Targets
              /\ job[v].copy.times \in Nat
          BY <3>2, <5>1, Busy DEF Target
        <5>3. job[v].pc = "times" => job[v].copy.times < failures[job[v].copy.target]
          BY DEF IInv, CountInv, Target
        <5> QED
          BY <1>0, <2>3, <2>4, <2>5, <5>1, <5>2, <5>3 DEF CountersOK
      <4> QED
        BY <4>1, <4>2
    <3> QED
      BY <2>6, <3>1, <3>2 DEF CountInv, Target
  <2>10. StoredInv'
    BY <1>0, <1>10, <2>1, <2>2 DEF Request, IInv, StoredInv, Target, tableVars
  <2> QED
    BY <2>8, <2>9, <2>10 DEF IInv
<1>11. ASSUME NEW w \in Workers, Ban(w) PROVE IInv'
  <2>1. /\ job[w].copy \in Earned /\ Target(w) \in Targets
        /\ job[w].copy.times \in Nat /\ job[w].copy.times > Times
    BY <1>11, Busy DEF Ban, At
  <2>2. failures[Target(w)] > Times
    BY <1>0, <2>1 DEF Earned, Target, CountersOK
  <2>3. job' = [job EXCEPT ![w] = [pc |-> "idle"]]
    BY <1>11 DEF Ban, Rest
  <2>4. job' \in [Workers -> Job]
    BY <1>0, <2>3 DEF Job
  <2>5. /\ TablesOK' /\ faults' \in 0..MaxFaults /\ times' = times
        /\ \A t \in Targets : banned'[t] => failures[t] > Times
    <3>1. CASE UNCHANGED <<tableVars>> /\ faults' \in 0..MaxFaults
      BY <1>0, <3>1 DEF TablesOK, tableVars
    <3>2. CASE /\ banned' = [banned EXCEPT ![Target(w)] = @ \/ Target(w) \in crawling]
               /\ UNCHANGED <<crawling, times, crawled, faults>>
      <4> DEFINE b == banned[Target(w)] \/ Target(w) \in crawling
      <4>1. b \in BOOLEAN /\ banned' = [banned EXCEPT ![Target(w)] = b]
        BY <1>0, <2>1, <3>2 DEF TablesOK
      <4> HIDE DEF b
      <4> QED
        BY <1>0, <2>1, <2>2, <3>2, <4>1 DEF TablesOK, CountersOK
    <3> QED
      BY <1>0, <1>11, <3>1, <3>2 DEF Ban, Fault, CountersOK
  <2>6. /\ queue' \in Seq(Earned) /\ crawled' = crawled
        /\ UNCHANGED <<found, picked, refill, historyVars, crashes, fills>>
    BY <1>0, <1>11 DEF Ban, Fault, listVars, tableVars
  <2> QED
    BY <1>0, <2>3, <2>4, <2>5, <2>6, HandlerStep
<1>12. ASSUME NEW w \in Workers, UpdateTimes(w) PROVE IInv'
  <2>1. Target(w) \in Targets /\ job[w].copy.times \in Nat
    BY <1>12, Busy DEF UpdateTimes, At
  <2>2. job[w].copy.times < failures[Target(w)]
    BY <1>12 DEF UpdateTimes, IInv, CountInv
  <2>3. job' = [job EXCEPT ![w] = [pc |-> "idle"]]
    BY <1>12 DEF UpdateTimes, Rest
  <2>4. job' \in [Workers -> Job]
    BY <1>0, <2>3 DEF Job
  <2>5. /\ TablesOK' /\ faults' \in 0..MaxFaults /\ banned' = banned
        /\ \A t \in Targets : times'[t] <= failures[t]
    <3> DEFINE n == IF Target(w) \in crawling THEN job[w].copy.times + 1
                                              ELSE times[Target(w)]
    <3>1. failures[Target(w)] \in 0..(Times + 1)
      BY <1>0, <2>1 DEF CountersOK
    <3>2. times[Target(w)] \in 0..(Times + 1)
      BY <1>0, <2>1 DEF TablesOK
    <3>3. n \in 0..(Times + 1) /\ n <= failures[Target(w)]
      BY <1>0, <2>1, <2>2, <3>1, <3>2
    <3>4. CASE UNCHANGED <<tableVars>> /\ faults' \in 0..MaxFaults
      BY <1>0, <3>4 DEF TablesOK, tableVars
    <3>5. CASE times' = [times EXCEPT ![Target(w)] = n]
               /\ UNCHANGED <<crawling, banned, crawled, faults>>
      <4> HIDE DEF n
      <4> QED
        BY <1>0, <2>1, <3>3, <3>5 DEF TablesOK, CountersOK
    <3> QED
      BY <1>0, <1>12, <3>4, <3>5 DEF UpdateTimes, Fault, CountersOK
  <2>6. /\ queue' \in Seq(Earned) /\ crawled' = crawled
        /\ UNCHANGED <<found, picked, refill, historyVars, crashes, fills>>
    BY <1>0, <1>12 DEF UpdateTimes, Fault, listVars, tableVars
  <2> QED
    BY <1>0, <2>3, <2>4, <2>5, <2>6, HandlerStep
<1>13. ASSUME NEW w \in Workers, Insert(w) PROVE IInv'
  <2>1. /\ job[w] \in [pc : {"got", "times", "insert", "delete"}, copy : Copy,
                        stored : BOOLEAN]
        /\ job[w].copy \in Earned /\ Target(w) \in Targets
    BY <1>13, Busy DEF Insert, At
  <2>2. \/ /\ job' = [job EXCEPT ![w].pc = "delete", ![w].stored = TRUE]
           /\ crawled' = crawled \union {Target(w)}
        \/ /\ job' = [job EXCEPT ![w].pc = "delete"]
           /\ crawled' = crawled
    BY <1>13 DEF Insert, Goto, Fault, tableVars
  <2>3. job' \in [Workers -> Job]
    <3>1. /\ [job[w] EXCEPT !.pc = "delete", !.stored = TRUE] \in Job
          /\ [job[w] EXCEPT !.pc = "delete"] \in Job
      BY <2>1 DEF Job
    <3>2. CASE job' = [job EXCEPT ![w].pc = "delete", ![w].stored = TRUE]
      <4>1. job' = [job EXCEPT ![w] = [job[w] EXCEPT !.pc = "delete", !.stored = TRUE]]
        BY <1>0, <3>2
      <4> QED
        BY <1>0, <3>1, <4>1
    <3>3. CASE job' = [job EXCEPT ![w].pc = "delete"]
      <4>1. job' = [job EXCEPT ![w] = [job[w] EXCEPT !.pc = "delete"]]
        BY <1>0, <3>3
      <4> QED
        BY <1>0, <3>1, <4>1
    <3> QED
      BY <2>2, <3>2, <3>3
  <2>4. /\ TablesOK' /\ faults' \in 0..MaxFaults /\ banned' = banned /\ times' = times
    <3>1. /\ faults \in 0..MaxFaults /\ crawled \subseteq Targets /\ crawling \subseteq Targets
          /\ times \in [Targets -> 0..(Times + 1)] /\ banned \in [Targets -> BOOLEAN]
      BY <1>0 DEF TablesOK, CountersOK
    <3>2. /\ banned' = banned /\ times' = times /\ crawling' = crawling
          /\ crawled' \subseteq Targets
      BY <1>13, <2>1, <3>1 DEF Insert, Fault, tableVars
    <3>3. faults' = faults \/ (faults < MaxFaults /\ faults' = faults + 1)
      BY <1>13 DEF Insert, Fault
    <3> QED
      BY <3>1, <3>2, <3>3 DEF TablesOK
  <2>5. /\ queue' \in Seq(Earned) /\ crawled \subseteq crawled'
        /\ UNCHANGED <<found, picked, refill, historyVars, crashes, fills>>
    BY <1>0, <1>13, <2>2 DEF Insert, Fault, listVars, tableVars
  <2>6. \A v \in Workers \ {w} : job'[v] = job[v]
    BY <1>0, <2>2
  <2>7. /\ job'[w].copy = job[w].copy /\ job'[w].pc = "delete"
        /\ job'[w].stored => Target(w) \in crawled' \/ job[w].stored
    <3>1. job \in [Workers -> Job]
      BY <1>0
    <3> QED
      BY <2>1, <2>2, <3>1
  <2>8. ~job[w].stored
    BY <1>13 DEF Insert, IInv, StoredInv, At
  <2> QED
    BY <1>0, <2>1, <2>3, <2>4, <2>5, <2>6, <2>7, <2>8, HandlerStep DEF Target
<1>14. ASSUME NEW w \in Workers, Delete(w) PROVE IInv'
  <2>1. Target(w) \in Targets
    BY <1>14, Busy DEF Delete, At
  <2>2. job' = [job EXCEPT ![w] = [pc |-> "idle"]]
    BY <1>14 DEF Delete, Rest
  <2>3. job' \in [Workers -> Job]
    BY <1>0, <2>2 DEF Job
  <2>4. /\ TablesOK' /\ faults' \in 0..MaxFaults
        /\ \A t \in Targets : times'[t] <= failures[t]
                             /\ (banned'[t] => failures[t] > Times)
    <3>1. CASE UNCHANGED <<tableVars>> /\ faults' \in 0..MaxFaults
      BY <1>0, <3>1 DEF TablesOK, tableVars
    <3>2. CASE /\ crawling' = crawling \ {Target(w)}
               /\ times' = [times EXCEPT ![Target(w)] = 0]
               /\ banned' = [banned EXCEPT ![Target(w)] = FALSE]
               /\ UNCHANGED <<crawled, faults>>
      BY <1>0, <2>1, <3>2 DEF TablesOK, CountersOK
    <3> QED
      BY <1>0, <1>14, <3>1, <3>2 DEF Delete, NoRow, Fault, CountersOK
  <2>5. /\ queue' \in Seq(Earned) /\ crawled' = crawled
        /\ UNCHANGED <<found, picked, refill, historyVars, crashes, fills>>
    BY <1>0, <1>14 DEF Delete, NoRow, Fault, listVars, tableVars
  <2> QED
    BY <1>0, <2>2, <2>3, <2>4, <2>5, HandlerStep
<1>15. CASE Crash
  <2>1. job' \in [Workers -> Job] /\ \A w \in Workers : job'[w].pc = "idle"
    BY <1>15 DEF Crash, Job
  <2>2. queue' \in Seq(Earned) /\ picked' \in Seq(Earned) /\ Earned' = Earned
    BY <1>0, <1>15, EmptySeq DEF Crash, Earned, historyVars
  <2>3. queue' \in Seq(Copy) /\ picked' \in Seq(Copy)
    BY <2>2, Widen DEF Earned
  <2>4. TypeOK'
    BY <1>0, <1>15, <2>1, <2>3
       DEF Crash, TypeOK, TablesOK, ListsOK, CountersOK, tableVars, historyVars
  <2>5. CountInv' /\ StoredInv'
    BY <1>0, <1>15, <2>1, <2>2 DEF Crash, CountInv, StoredInv, At, tableVars, historyVars
  <2> QED
    BY <2>4, <2>5 DEF IInv
<1>16. CASE UNCHANGED vars
  <2>1. CountersOK'
    BY <1>0, <1>16 DEF vars, bounds, historyVars, CountersOK
  <2> QED
    BY <1>0, <1>16, <2>1, ListStep DEF vars, listVars, historyVars
<1> QED
  BY <1>1, <1>2, <1>3, <1>4, <1>5, <1>6, <1>7, <1>8, <1>9, <1>10, <1>11, <1>12,
     <1>13, <1>14, <1>15, <1>16, <1>17, <1>18 DEF Next, Handle

(* Every reachable state is typed.                                         *)
THEOREM SchedulerInductive == Spec => []IInv
BY InitInv, IInvStep, PTL DEF Spec

THEOREM TypeCorrect == Spec => []TypeOK
<1>1. IInv => TypeOK
  BY DEF IInv
<1> QED
  BY <1>1, SchedulerInductive, PTL

(* No row is banned before Times + 1 requests for its target have failed,  *)
(* however many handlers, doubled copies, crashes and lost updates.        *)
THEOREM BanEarnedHolds == Spec => []BanEarned
<1>1. IInv => BanEarned
  BY DEF IInv, TypeOK, TablesOK, CountInv, BanEarned
<1> QED
  BY <1>1, SchedulerInductive, PTL

(* A target that has had a row is in a table or in the hands of the spider *)
(* that took the row out, for ever, unless its insert into crawled failed  *)
(* or that spider lost its batch.                                          *)
THEOREM NotForgottenHolds == Spec => NotForgotten
<1> DEFINE Kept == \A t \in Known :
                     \/ t \in Known'
                     \/ Unsaved(t)
                     \/ Lose([target |-> t, origin |-> "renew"])
<1>1. IInv /\ [Next]_vars => [Kept]_vars
  <2> SUFFICES ASSUME IInv, [Next]_vars, NEW t \in Known, t \notin Known'
               PROVE  Unsaved(t) \/ Lose([target |-> t, origin |-> "renew"])
    OBVIOUS
  <2> DEFINE r == [target |-> t, origin |-> "renew"]
  <2>1. /\ t \notin crawling' /\ t \notin crawled' /\ crawled \subseteq crawled'
        /\ t \in Targets /\ r \in Find /\ found \in [Find -> 0..MaxFinds]
    <3>1. crawled \subseteq crawled'
      BY DEF Next, Handle, vars, tableVars, Renew, Scan, AddRow, PushNext, Lose, JobSelect,
         JobPush, ClearCircle, FillCircle, Pop, DropStale, Request, Ban, UpdateTimes,
         Insert, Delete, Crash, Fault
    <3>2. t \in Targets /\ found \in [Find -> 0..MaxFinds]
      BY DEF Known, IInv, TypeOK, TablesOK
    <3> QED
      BY <3>1, <3>2 DEF Known, Find
  <2>2. ~(found'[r] > 0)
    BY <2>1 DEF Known
  <2>3. t \in crawling \/ found[r] > 0
    BY <2>1 DEF Known
  <2>4. CASE t \in crawling
    <3>1. ASSUME NEW s \in Targets, Renew(s) PROVE FALSE
      <4>1. /\ crawling' = crawling \ {s}
            /\ Holds([target |-> s, origin |-> "renew"])
        BY <3>1 DEF Renew, NoRow
      <4>2. s = t
        BY <2>1, <2>4, <4>1
      <4>3. Holds(r)
        BY <4>1, <4>2
      <4>4. found[r] \in Nat /\ found'[r] = found[r] + 1
        BY <2>1, <4>3, HoldsOne
      <4> QED
        BY <2>2, <4>4
    <3>2. PICK w \in Workers : Delete(w)
      BY <2>1, <2>4, <3>1
         DEF Next, Handle, vars, tableVars, listVars, bounds, Scan, AddRow, PushNext, Lose,
             JobSelect, JobPush, ClearCircle, FillCircle, Pop, DropStale, Request, Ban,
             UpdateTimes, Insert, Crash, Fault
    <3>3. crawling' = crawling \ {Target(w)} /\ crawled' = crawled
      BY <2>1, <2>4, <3>2 DEF Delete, NoRow, Fault, tableVars
    <3>4. t = Target(w)
      BY <2>1, <2>4, <3>3
    <3>5. CASE job[w].stored
      BY <2>1, <3>2, <3>3, <3>4, <3>5 DEF Delete, IInv, StoredInv, At
    <3>6. CASE ~job[w].stored
      BY <3>2, <3>4, <3>6 DEF Delete, Unsaved
    <3> QED
      BY <3>5, <3>6
  <2>5. CASE found[r] > 0
    <3>1. found' # found
      BY <2>2, <2>5
    <3>2. ASSUME NEW f \in Find, Holds(f) PROVE FALSE
      <4>1. found[f] \in Nat /\ found'[f] = found[f] + 1
            /\ \A g \in Find \ {f} : found'[g] = found[g]
        BY <2>1, <3>2, HoldsOne
      <4>2. CASE f = r
        BY <2>2, <4>1, <4>2
      <4>3. CASE f # r
        BY <2>1, <2>2, <2>5, <4>1, <4>3
      <4> QED
        BY <4>2, <4>3
    <3>3. ASSUME NEW f \in Find, LetGo(f) PROVE f = r
      BY <2>1, <2>2, <2>5, <3>3, LetsGoOne
    <3>4. \A s \in Targets, o \in Origins : ~Scan(s, o) /\ ~Renew(s)
      BY <3>2, SchedulerAssumption DEF SchedulerAssumption, Find, Scan, Renew
    <3>5. \A s \in Targets : ~Renew(s)
      BY <3>2 DEF Find, Renew
    <3>6. ASSUME NEW f \in Find, AddRow(f) PROVE FALSE
      BY <2>1, <3>3, <3>6 DEF AddRow
    <3>7. ASSUME NEW f \in Find, NEW first \in BOOLEAN, PushNext(f, first) PROVE FALSE
      BY <3>3, <3>7 DEF PushNext
    <3>8. PICK f \in Find : Lose(f)
      BY <3>1, <3>4, <3>5, <3>6, <3>7
         DEF Next, Handle, vars, JobSelect, JobPush, ClearCircle, FillCircle, Pop,
             DropStale, Request, Ban, UpdateTimes, Insert, Delete, Crash
    <3>9. f = r
      BY <3>3, <3>8 DEF Lose
    <3> QED
      BY <3>8, <3>9
  <2> QED
    BY <2>3, <2>4, <2>5
<1> QED
  BY <1>1, SchedulerInductive, PTL DEF Spec, NotForgotten

-----------------------------------------------------------------------------
(* Nobody holds a find of an origin the template does not have.            *)
FindInv == \A f \in Find : f.origin \notin Origins => found[f] = 0

LEMMA FindStep == IInv /\ FindInv /\ [Next]_vars => FindInv'
<1> SUFFICES ASSUME IInv, FindInv, [Next]_vars,
                    NEW f \in Find, f.origin \notin Origins
             PROVE  found'[f] = 0
  BY DEF FindInv
<1>1. found \in [Find -> 0..MaxFinds] /\ found[f] = 0
  BY DEF IInv, TypeOK, FindInv
<1>2. ASSUME NEW g \in Find, Holds(g) PROVE found'[f] = 0
  BY <1>1, <1>2, HoldsOne
<1>3. ASSUME NEW g \in Find, LetGo(g) PROVE found'[f] = 0
  BY <1>1, <1>3, LetsGoOne
<1>4. \A t \in Targets : [target |-> t, origin |-> "renew"] \in Find
  BY DEF Find
<1>5. \A t \in Targets, o \in Origins : [target |-> t, origin |-> o] \in Find
  BY SchedulerAssumption DEF SchedulerAssumption, Find
<1>6. CASE found' = found
  BY <1>1, <1>6
<1> QED
  BY <1>2, <1>3, <1>4, <1>5, <1>6
     DEF Next, Handle, vars, Renew, Scan, AddRow, PushNext, Lose, JobSelect, JobPush,
         ClearCircle, FillCircle, Pop, DropStale, Request, Ban, UpdateTimes, Insert,
         Delete, Crash

LEMMA FindHolds == Spec => []FindInv
<1>1. Init => FindInv
  BY DEF Init, FindInv
<1> QED
  BY <1>1, FindStep, SchedulerInductive, PTL DEF Spec

-----------------------------------------------------------------------------
(* Spiders that look into both tables: the rows a target has had and the   *)
(* finds that are held for it are bounded together, because a target that  *)
(* has had a row stays in one of the tables.                               *)
Spider(t) == [target |-> t, origin |-> "spider"]
Seen == crawling \union crawled

RowsNow ==
    /\ \A t \in Targets : /\ rows[t] + found[Spider(t)] <= MaxFinds
                          /\ rows[t] > 0 => t \in Seen
    /\ \A w \in Workers : At(w, "delete") => job[w].stored
RowsInv == faults = 0 => RowsNow

LEMMA FaultsGrow ==
    ASSUME IInv, [Next]_vars
    PROVE  faults \in Nat /\ faults' \in Nat /\ (faults' = 0 => faults = 0)
<1>1. faults \in Nat
  BY SchedulerAssumption DEF SchedulerAssumption, IInv, TypeOK, CountersOK
<1>2. faults' = faults \/ faults' = faults + 1
  BY DEF Next, Handle, vars, tableVars, listVars, bounds, Renew, Scan, AddRow, PushNext,
     Lose, JobSelect, JobPush, ClearCircle, FillCircle, Pop, DropStale, Request, Ban,
     UpdateTimes, Insert, Delete, Crash, Fault
<1> QED
  BY <1>1, <1>2

LEMMA RowsStep ==
    ASSUME Origins \subseteq {"spider", "next"}, IInv, FindInv, RowsInv, [Next]_vars
    PROVE  RowsInv'
<1> SUFFICES ASSUME faults' = 0 PROVE RowsNow'
  BY DEF RowsInv
<1>0. /\ faults = 0 /\ RowsNow /\ StoredInv
      /\ job \in [Workers -> Job] /\ found \in [Find -> 0..MaxFinds]
      /\ rows \in [Targets -> 0..(MaxFinds + 1)] /\ MaxFinds \in Nat
      /\ \A t \in Targets : Spider(t) \in Find
  BY FaultsGrow, SchedulerAssumption
     DEF SchedulerAssumption, RowsInv, IInv, TypeOK, CountersOK, Find, Spider
<1>a. \A t \in Targets : /\ rows[t] \in Nat /\ found[Spider(t)] \in Nat
                         /\ rows[t] + found[Spider(t)] <= MaxFinds
                         /\ rows[t] > 0 => t \in Seen
  BY <1>0 DEF RowsNow
<1>b. ASSUME UNCHANGED rows, Seen \subseteq Seen',
             \A t \in Targets : found'[Spider(t)] = found[Spider(t)],
             \A w \in Workers : job'[w] # job[w] /\ job'[w].pc = "delete" => job'[w].stored
      PROVE  RowsNow'
  BY <1>a, <1>b, <1>0 DEF RowsNow, At
<1>1. ASSUME NEW t \in Targets, NEW o \in Origins, Scan(t, o) PROVE RowsNow'
  <2> DEFINE f == [target |-> t, origin |-> o]
  <2>1. /\ f \in Find /\ Holds(f) /\ t \notin crawled /\ UNCHANGED <<rows, crawling, crawled, job>>
        /\ o = "spider" => t \notin crawling
    BY <1>1 DEF Scan, Find, historyVars, tableVars
  <2>2. /\ found[f] < MaxFinds /\ found[f] \in Nat /\ found'[f] = found[f] + 1
        /\ \A g \in Find \ {f} : found'[g] = found[g]
    BY <1>0, <2>1, HoldsOne
  <2>3. CASE o = "spider"
    <3>1. f = Spider(t) /\ t \notin Seen /\ rows[t] = 0
      BY <1>a, <2>1, <2>3 DEF Spider, Seen
    <3>2. \A s \in Targets \ {t} : Spider(s) # f
      BY <2>3 DEF Spider
    <3>3. \A s \in Targets : rows[s] + found'[Spider(s)] <= MaxFinds
      BY <1>0, <1>a, <2>2, <3>1, <3>2
    <3> QED
      BY <1>0, <2>1, <3>3 DEF RowsNow, Seen, At
  <2>4. CASE o # "spider"
    <3>1. \A s \in Targets : Spider(s) \in Find \ {f}
      BY <1>0, <2>4 DEF Spider
    <3>2. \A s \in Targets : found'[Spider(s)] = found[Spider(s)]
      BY <2>2, <3>1
    <3> HIDE DEF f
    <3> QED
      BY <1>b, <2>1, <3>2 DEF Seen
  <2> QED
    BY <2>3, <2>4
<1>2. ASSUME NEW f \in Find, LetGo(f) PROVE f.origin = "spider" \/ f.origin = "next"
  <2>1. found[f] # 0
    BY <1>2 DEF LetGo
  <2>2. f.origin \in Origins
    BY <2>1 DEF FindInv
  <2> QED
    BY <2>2
<1>3. ASSUME NEW f \in Find, AddRow(f) PROVE RowsNow'
  <2> DEFINE t == f.target
  <2>1. /\ LetGo(f) /\ f.origin = "spider" /\ t \in Targets
        /\ crawling' = crawling \union {t} /\ UNCHANGED <<crawled, job>>
    BY <1>2, <1>3 DEF AddRow, Find
  <2>2. f = Spider(t)
    BY <2>1 DEF Find, Spider
  <2>3. /\ found[f] > 0 /\ found'[f] = found[f] - 1
        /\ \A g \in Find \ {f} : found'[g] = found[g]
    BY <1>0, <2>1, LetsGoOne
  <2>4. /\ rows'[t] = rows[t] \/ rows'[t] = rows[t] + 1
        /\ \A s \in Targets \ {t} : rows'[s] = rows[s]
    BY <1>0, <1>3, <2>1, RowsTyped
  <2>5. \A s \in Targets \ {t} : Spider(s) # f
    BY <2>2 DEF Spider
  <2> HIDE DEF t
  <2>6. \A s \in Targets : rows'[s] + found'[Spider(s)] <= MaxFinds
    <3> SUFFICES ASSUME NEW s \in Targets PROVE rows'[s] + found'[Spider(s)] <= MaxFinds
      OBVIOUS
    <3>1. CASE s = t
      BY <1>0, <1>a, <2>1, <2>2, <2>3, <2>4, <3>1
    <3>2. CASE s # t
      BY <1>0, <1>a, <2>3, <2>4, <2>5, <3>2
    <3> QED
      BY <3>1, <3>2
  <2>7. \A s \in Targets : rows'[s] > 0 => s \in Seen'
    BY <1>a, <2>1, <2>4 DEF Seen
  <2> QED
    BY <1>0, <2>1, <2>6, <2>7 DEF RowsNow, At
<1>4. ASSUME NEW f \in Find, LetGo(f), UNCHANGED <<rows, crawling, crawled, job>>
      PROVE  RowsNow'
  <2>1. /\ found[f] \in Nat /\ found'[f] = found[f] - 1
        /\ \A g \in Find \ {f} : found'[g] = found[g]
    BY <1>0, <1>4, LetsGoOne
  <2>2. \A s \in Targets : rows'[s] + found'[Spider(s)] <= MaxFinds
    <3> SUFFICES ASSUME NEW s \in Targets PROVE rows'[s] + found'[Spider(s)] <= MaxFinds
      OBVIOUS
    <3>1. found'[Spider(s)] = found[Spider(s)] \/ found'[Spider(s)] = found[Spider(s)] - 1
      BY <1>0, <2>1
    <3> QED
      BY <1>0, <1>4, <1>a, <3>1
  <2> QED
    BY <1>0, <1>4, <2>2 DEF RowsNow, Seen, At
<1>5. ASSUME NEW t \in Targets, Renew(t) PROVE FALSE
  BY <1>5 DEF Renew, Holds
<1>6. ASSUME NEW w \in Workers, Insert(w) PROVE RowsNow'
  <2>1. /\ job' = [job EXCEPT ![w].pc = "delete", ![w].stored = TRUE]
        /\ crawled' = crawled \union {Target(w)} /\ UNCHANGED <<rows, found, crawling>>
        /\ job[w].pc # "idle"
    BY <1>0, <1>6 DEF Insert, Fault, At, historyVars
  <2>2. job'[w].stored /\ \A v \in Workers \ {w} : job'[v] = job[v]
    BY <1>0, <2>1, Busy
  <2> QED
    BY <1>b, <2>1, <2>2 DEF Seen
<1>7. ASSUME NEW w \in Workers, Delete(w) PROVE RowsNow'
  <2>1. Target(w) \in crawled
    BY <1>0, <1>7 DEF Delete, RowsNow, StoredInv, At
  <2>2. /\ job' = [job EXCEPT ![w] = [pc |-> "idle"]]
        /\ crawling' = crawling \ {Target(w)} /\ UNCHANGED <<rows, found, crawled>>
    BY <1>0, <1>7 DEF Delete, NoRow, Rest, Fault, historyVars
  <2>3. \A v \in Workers : job'[v] # job[v] => job'[v].pc = "idle"
    BY <1>0, <2>2
  <2>4. Seen \subseteq Seen'
    BY <2>1, <2>2 DEF Seen
  <2> QED
    BY <1>b, <2>2, <2>3, <2>4
<1>8. ASSUME NEW w \in Workers,
             Pop(w) \/ DropStale(w) \/ Request(w) \/ Ban(w) \/ UpdateTimes(w)
      PROVE  RowsNow'
  <2>1. UNCHANGED <<rows, found, crawling, crawled>>
    BY <1>8 DEF Pop, DropStale, Request, Ban, UpdateTimes, Fault, tableVars, historyVars
  <2>2. \A v \in Workers \ {w} : job'[v] = job[v]
    BY <1>0, <1>8 DEF Pop, DropStale, Request, Ban, UpdateTimes, Rest, Goto
  <2>3. job'[w].pc \in {"got", "idle", "insert", "times"} \/ job' = job
    <3>1. CASE Pop(w) \/ DropStale(w) \/ Ban(w) \/ UpdateTimes(w)
      BY <1>0, <3>1 DEF Pop, DropStale, Ban, UpdateTimes, Rest
    <3>2. CASE Request(w)
      <4>1. PICK to \in {"insert", "times"} : job' = [job EXCEPT ![w].pc = to]
        BY <3>2 DEF Request, Goto
      <4>2. job[w].pc # "idle"
        BY <3>2 DEF Request, At
      <4> QED
        BY <1>0, <4>1, <4>2, Busy
    <3> QED
      BY <1>8, <3>1, <3>2
  <2> QED
    BY <1>b, <2>1, <2>2, <2>3 DEF Seen
<1>9. CASE Crash
  <2>1. UNCHANGED <<rows, found, crawling, crawled>> /\ \A v \in Workers : job'[v].pc = "idle"
    BY <1>9 DEF Crash, tableVars, historyVars
  <2> QED
    BY <1>b, <2>1 DEF Seen
<1>10. CASE UNCHANGED <<rows, found, crawling, crawled, job>>
  BY <1>b, <1>10 DEF Seen
<1>11. ASSUME \/ JobSelect \/ JobPush \/ ClearCircle
              \/ \E s \in Targets : FillCircle(s)
              \/ UNCHANGED vars
       PROVE  UNCHANGED <<rows, found, crawling, crawled, job>>
  BY <1>11 DEF JobSelect, JobPush, ClearCircle, FillCircle, vars, tableVars, historyVars
<1>12. ASSUME NEW f \in Find, Lose(f) \/ \E first \in BOOLEAN : PushNext(f, first)
       PROVE  RowsNow'
  BY <1>4, <1>12 DEF Lose, PushNext, tableVars, historyVars
<1> QED
  BY <1>1, <1>3, <1>5, <1>6, <1>7, <1>8, <1>9, <1>10, <1>11, <1>12 DEF Next, Handle

(* However many spiders find a target at once, however late their batches  *)
(* and however often handlers crash over stale copies, a target that       *)
(* spiders look for in both tables gets no more rows than finds were held  *)
(* before its first, as long as no statement of the scheduler fails.       *)
THEOREM RowsBoundedHolds ==
    ASSUME Origins \subseteq {"spider", "next"}
    PROVE  Spec => []RowsBounded
<1>1. Init => RowsInv
  BY SchedulerAssumption
     DEF SchedulerAssumption, Init, RowsInv, RowsNow, At, Spider, Find
<1>2. IInv /\ FindInv /\ RowsInv /\ [Next]_vars => RowsInv'
  BY RowsStep
<1>3. IInv /\ RowsInv => RowsBounded
  <2> SUFFICES ASSUME IInv, RowsInv, faults = 0, NEW t \in Targets
               PROVE  rows[t] <= MaxFinds
    BY DEF RowsBounded
  <2>1. /\ rows[t] \in Nat /\ found[Spider(t)] \in Nat /\ MaxFinds \in Nat
        /\ rows[t] + found[Spider(t)] <= MaxFinds
    <3>1. Spider(t) \in Find
      BY DEF Find, Spider
    <3>2. /\ found \in [Find -> 0..MaxFinds] /\ rows \in [Targets -> 0..(MaxFinds + 1)]
          /\ rows[t] + found[Spider(t)] <= MaxFinds
      BY DEF IInv, TypeOK, CountersOK, RowsInv, RowsNow
    <3> QED
      BY <3>1, <3>2, SchedulerAssumption DEF SchedulerAssumption
  <2> QED
    BY <2>1
<1> QED
  BY <1>1, <1>2, <1>3, FindHolds, SchedulerInductive, PTL DEF Spec

-----------------------------------------------------------------------------
(* A circle: its targets, each once.                                       *)
Names(q) == {q[i].target : i \in DOMAIN q}
Distinct(q) == \A i, j \in DOMAIN q : q[i].target = q[j].target => i = j

CircleInv ==
    /\ picked = <<>>
    /\ Distinct(queue)
    /\ (queue = <<>> /\ refill = {}) \/ Names(queue) = Targets \ refill

LEMMA DistinctCount ==
    ASSUME NEW q \in Seq(Copy), Distinct(q)
    PROVE  Len(q) = Cardinality(Names(q))
<1> DEFINE f == [i \in 1..Len(q) |-> q[i].target]
<1>1. Len(q) \in Nat /\ DOMAIN q = 1..Len(q)
  BY LenProperties
<1>2. f \in Bijection(1..Len(q), Names(q))
  <2>1. f \in [1..Len(q) -> Names(q)]
    BY <1>1 DEF Names
  <2>2. \A i, j \in 1..Len(q) : f[i] = f[j] => i = j
    BY <1>1 DEF Distinct
  <2>3. \A t \in Names(q) : \E i \in 1..Len(q) : f[i] = t
    BY <1>1 DEF Names
  <2> QED
    BY <2>1, <2>2, <2>3, Fun_IsBij
<1> HIDE DEF f
<1> QED
  BY <1>1, <1>2, FS_CountingElements DEF ExistsBijection

LEMMA NamesAppend ==
    ASSUME NEW q \in Seq(Copy), NEW c \in Copy
    PROVE  /\ Names(Append(q, c)) = Names(q) \union {c.target}
           /\ Distinct(q) /\ c.target \notin Names(q) => Distinct(Append(q, c))
<1>1. /\ Len(q) \in Nat /\ DOMAIN q = 1..Len(q)
      /\ DOMAIN Append(q, c) = 1..(Len(q) + 1)
      /\ \A i \in 1..Len(q) : Append(q, c)[i] = q[i]
      /\ Append(q, c)[Len(q) + 1] = c
  BY AppendProperties
<1> QED
  BY <1>1 DEF Names, Distinct

LEMMA NamesTail ==
    ASSUME NEW q \in Seq(Copy), q # <<>>
    PROVE  /\ Names(q) = Names(Tail(q)) \union {Head(q).target}
           /\ Distinct(q) => Distinct(Tail(q)) /\ Head(q).target \notin Names(Tail(q))
<1> DEFINE r == Tail(q)
<1>1. /\ Len(q) \in Nat \ {0} /\ DOMAIN q = 1..Len(q)
      /\ DOMAIN r = 1..(Len(q) - 1)
      /\ \A i \in 1..(Len(q) - 1) : r[i] = q[i + 1]
      /\ Head(q) = q[1]
  BY HeadTailProperties, EmptySeq
<1> HIDE DEF r
<1>2. \A i \in DOMAIN r : i + 1 \in DOMAIN q /\ i + 1 # 1 /\ r[i] = q[i + 1]
  BY <1>1
<1>3. \A i \in DOMAIN q : i = 1 \/ (i - 1 \in DOMAIN r /\ r[i - 1] = q[i])
  BY <1>1
<1>4. 1 \in DOMAIN q
  BY <1>1
<1>5. Names(q) = Names(r) \union {Head(q).target}
  BY <1>1, <1>2, <1>3, <1>4 DEF Names
<1>6. ASSUME Distinct(q) PROVE Distinct(r)
  <2> SUFFICES ASSUME NEW i \in DOMAIN r, NEW j \in DOMAIN r, r[i].target = r[j].target
               PROVE  i = j
    BY DEF Distinct
  <2>1. i + 1 = j + 1
    BY <1>2, <1>6 DEF Distinct
  <2> QED
    BY <1>1, <2>1
<1>7. Distinct(q) => Head(q).target \notin Names(r)
  BY <1>1, <1>2, <1>4 DEF Distinct, Names
<1> QED
  BY <1>5, <1>6, <1>7 DEF r

LEMMA CircleStep ==
    ASSUME "next" \notin Origins, Source = "circle",
           IInv, FindInv, CircleInv, [Next]_vars
    PROVE  CircleInv'
<1>0. queue \in Seq(Copy) /\ refill \subseteq Targets
  BY DEF IInv, TypeOK, ListsOK
<1> USE DEF CircleInv
<1>1. ASSUME NEW t \in Targets, NEW o \in Origins, Scan(t, o) PROVE CircleInv'
  BY <1>1 DEF Scan, listVars
<1>2. ASSUME NEW f \in Find, AddRow(f) \/ Lose(f) PROVE CircleInv'
  BY <1>2 DEF AddRow, Lose, listVars
<1>3. ASSUME NEW f \in Find, NEW first \in BOOLEAN, PushNext(f, first) PROVE FALSE
  BY <1>3 DEF PushNext, LetGo, FindInv
<1>4. ~JobSelect /\ ~JobPush
  BY DEF JobSelect, JobPush
<1>5. CASE ClearCircle
  <2>1. queue' = <<>> /\ refill' = Targets /\ picked' = picked
    BY <1>5 DEF ClearCircle
  <2>2. DOMAIN <<>> = {}
    BY EmptySeq
  <2>3. Names(<<>>) = {} /\ Distinct(<<>>)
    BY <2>2 DEF Names, Distinct
  <2> QED
    BY <2>1, <2>3
<1>6. ASSUME NEW t \in Targets, FillCircle(t) PROVE CircleInv'
  <2> DEFINE c == [target |-> t, times |-> 0, priority |-> TRUE]
  <2>1. c \in Copy /\ c.target = t
    BY SchedulerAssumption DEF SchedulerAssumption, Copy
  <2>2. /\ queue' = Append(queue, c) /\ refill' = refill \ {t} /\ t \in refill
        /\ picked' = picked
    BY <1>6 DEF FillCircle
  <2> HIDE DEF c
  <2>3. Names(queue) = Targets \ refill
    BY <2>2
  <2>4. Names(queue') = Targets \ refill' /\ Distinct(queue')
    BY <1>0, <2>1, <2>2, <2>3, NamesAppend
  <2> QED
    BY <2>2, <2>4
<1>7. ASSUME NEW w \in Workers, Pop(w) PROVE CircleInv'
  <2>1. /\ queue # <<>> /\ queue' = Append(Tail(queue), Head(queue))
        /\ UNCHANGED <<picked, refill>>
    BY <1>7 DEF Pop
  <2>2. Tail(queue) \in Seq(Copy) /\ Head(queue) \in Copy
    BY <1>0, <2>1, HeadTailProperties
  <2>3. Names(queue') = Names(queue) /\ Distinct(queue')
    BY <1>0, <2>1, <2>2, NamesTail, NamesAppend
  <2> QED
    BY <2>1, <2>3
<1>8. ASSUME NEW w \in Workers, Handle(w) PROVE CircleInv'
  BY <1>8 DEF Handle, DropStale, Request, Ban, UpdateTimes, Insert, Delete, listVars
<1>9. CASE Crash
  BY <1>9 DEF Crash
<1>10. CASE UNCHANGED vars
  BY <1>10 DEF vars, listVars
<1>11. ASSUME NEW t \in Targets, Renew(t) PROVE CircleInv'
  BY <1>11 DEF Renew, listVars
<1> QED
  BY <1>1, <1>2, <1>3, <1>4, <1>5, <1>6, <1>7, <1>8, <1>9, <1>10, <1>11 DEF Next

(* A circle never loses nor doubles a target, however many handlers turn   *)
(* it and whatever crashes, once update_spider has filled it.              *)
THEOREM CircleKeepsHolds ==
    ASSUME "next" \notin Origins, Source = "circle"
    PROVE  Spec => []CircleKeeps
<1>1. Init => CircleInv
  BY DEF Init, CircleInv, Distinct
<1>2. IInv /\ FindInv /\ CircleInv /\ [Next]_vars => CircleInv'
  BY CircleStep
<1>3. IInv /\ CircleInv => CircleKeeps
  BY DistinctCount DEF IInv, TypeOK, ListsOK, CircleInv, CircleKeeps, Names
<1> QED
  BY <1>1, <1>2, <1>3, FindHolds, SchedulerInductive, PTL DEF Spec

-----------------------------------------------------------------------------
(* One handler: the copy it holds, the copies that wait and those the cron *)
(* job has read are one line, first come first served.                     *)
Held(w) == IF At(w, "idle") THEN <<>> ELSE <<job[w].copy>>
Waiting == queue \o picked
Line(w) == Held(w) \o Waiting

(* As long as its target has had one row, the tries of a row are those of  *)
(* a copy in the line, or one more, and the copies of the target do not    *)
(* decrease along the line.                                                *)
Single == {t \in Targets : rows[t] <= 1}
NearCopy ==
    {c \in Copy :
        /\ rows[c.target] > 0
        /\ c.target \in crawling \intersect Single =>
             c.times <= times[c.target] /\ times[c.target] <= c.times + 1}
Ordered(s, T) ==
    \A i, j \in DOMAIN s :
        i < j /\ s[i].target = s[j].target /\ s[i].target \in T => s[i].times <= s[j].times
OrderInv(w) ==
    /\ refill = {}
    /\ \A t \in crawling : rows[t] > 0
    /\ Line(w) \in Seq(NearCopy)
    /\ Ordered(Line(w), Single)

LEMMA Refit ==
    ASSUME NEW S, NEW T, NEW s \in Seq(S), \A i \in 1..Len(s) : s[i] \in T
    PROVE  s \in Seq(T)
<1>1. Len(s) \in Nat /\ s = [i \in 1..Len(s) |-> s[i]]
  BY LenProperties
<1>2. s \in [1..Len(s) -> T]
  BY <1>1
<1> QED
  BY <1>1, <1>2, SeqDef

LEMMA Shrink ==
    ASSUME NEW S, NEW T, NEW a \in Seq(Copy), NEW r \in Seq(Copy),
           a \o r \in Seq(S), Ordered(a \o r, T)
    PROVE  r \in Seq(S) /\ Ordered(r, T)
<1> DEFINE s == a \o r
<1>1. /\ Len(a) \in Nat /\ Len(r) \in Nat /\ DOMAIN r = 1..Len(r)
      /\ DOMAIN s = 1..Len(s) /\ Len(s) = Len(a) + Len(r)
      /\ \A i \in 1..Len(s) : s[i] = IF i <= Len(a) THEN a[i] ELSE r[i - Len(a)]
  BY LenProperties, ConcatProperties
<1> HIDE DEF s
<1>2. \A i \in DOMAIN r : /\ Len(a) + i \in DOMAIN s /\ s[Len(a) + i] = r[i]
                          /\ (Len(a) + i) - Len(a) = i
  BY <1>1
<1>3. s \in Seq(S) /\ Ordered(s, T)
  BY DEF s
<1>4. \A i \in 1..Len(r) : r[i] \in S
  BY <1>1, <1>2, <1>3, ElementOfSeq
<1>5. Ordered(r, T)
  <2> SUFFICES ASSUME NEW i \in DOMAIN r, NEW j \in DOMAIN r, i < j,
                      r[i].target = r[j].target, r[i].target \in T
               PROVE  r[i].times <= r[j].times
    BY DEF Ordered
  <2>1. Len(a) + i < Len(a) + j
    BY <1>1
  <2> QED
    BY <1>2, <1>3, <2>1 DEF Ordered
<1> QED
  BY <1>4, <1>5, Refit

LEMMA First ==
    ASSUME NEW T, NEW c \in Copy, NEW r \in Seq(Copy), Ordered(<<c>> \o r, T), c.target \in T,
           NEW i \in 1..Len(r), r[i].target = c.target
    PROVE  c.times <= r[i].times
<1> DEFINE a == <<c>>
           s == a \o r
<1>1. a \in Seq(Copy) /\ Len(a) = 1 /\ a[1] = c
  OBVIOUS
<1>2. /\ Len(r) \in Nat /\ DOMAIN s = 1..Len(s) /\ Len(s) = 1 + Len(r)
      /\ \A k \in 1..Len(s) : s[k] = IF k <= 1 THEN a[k] ELSE r[k - 1]
  <2> HIDE DEF a
  <2>1. s \in Seq(Copy) /\ Len(s) = Len(a) + Len(r)
    BY <1>1, ConcatProperties
  <2>2. \A k \in 1..(Len(a) + Len(r)) : s[k] = IF k <= Len(a) THEN a[k] ELSE r[k - Len(a)]
    BY <1>1, ConcatProperties
  <2>3. Len(r) \in Nat /\ DOMAIN s = 1..Len(s)
    BY <2>1, LenProperties
  <2> QED
    BY <1>1, <2>1, <2>2, <2>3
<1>3. Ordered(s, T)
  OBVIOUS
<1> HIDE DEF s, a
<1>4. 1 \in DOMAIN s /\ i + 1 \in DOMAIN s /\ 1 < i + 1 /\ (i + 1) - 1 = i
  BY <1>2
<1>5. s[1] = c /\ s[i + 1] = r[i]
  BY <1>1, <1>2, <1>4
<1> QED
  BY <1>3, <1>4, <1>5 DEF Ordered

LEMMA Grow ==
    ASSUME TypeOK, \A t \in crawling : rows[t] > 0,
           NEW r \in Seq(NearCopy), Ordered(r, Single), NEW p \in Seq(RowCopy)
    PROVE  r \o p \in Seq(NearCopy) /\ Ordered(r \o p, Single)
<1> USE SchedulerAssumption DEF SchedulerAssumption
<1>1. RowCopy \subseteq NearCopy /\ NearCopy \subseteq Copy
  BY DEF RowCopy, NearCopy, Copy
<1>2. p \in Seq(NearCopy)
  BY <1>1, Widen
<1> DEFINE s == r \o p
<1>3. /\ Len(r) \in Nat /\ Len(p) \in Nat /\ DOMAIN r = 1..Len(r) /\ DOMAIN p = 1..Len(p)
      /\ s \in Seq(NearCopy) /\ DOMAIN s = 1..Len(s) /\ Len(s) = Len(r) + Len(p)
      /\ \A i \in 1..Len(s) : s[i] = IF i <= Len(r) THEN r[i] ELSE p[i - Len(r)]
  BY <1>2, LenProperties, ConcatProperties
<1> HIDE DEF s
<1>4. Ordered(s, Single)
  <2> SUFFICES ASSUME NEW i \in DOMAIN s, NEW j \in DOMAIN s, i < j,
                      s[i].target = s[j].target, s[i].target \in Single
               PROVE  s[i].times <= s[j].times
    BY DEF Ordered
  <2>1. CASE j <= Len(r)
    <3>1. i \in DOMAIN r /\ j \in DOMAIN r /\ s[i] = r[i] /\ s[j] = r[j]
      BY <1>3, <2>1
    <3> QED
      BY <3>1 DEF Ordered
  <2>2. CASE j > Len(r)
    <3>1. j - Len(r) \in 1..Len(p) /\ s[j] = p[j - Len(r)]
      BY <1>3, <2>2
    <3>2. s[j] \in RowCopy
      BY <3>1, ElementOfSeq
    <3>3. s[i] \in NearCopy
      BY <1>3, ElementOfSeq
    <3>4. s[i].target \in crawling /\ s[i].times <= times[s[i].target]
      BY <3>2, <3>3 DEF RowCopy, NearCopy
    <3> QED
      BY <3>2, <3>4 DEF RowCopy
  <2> QED
    BY <1>3, <2>1, <2>2
<1> QED
  BY <1>3, <1>4 DEF s

(* The parts of the line are sequences of copies.                          *)
LEMMA LineTyped ==
    ASSUME TypeOK, NEW w \in Workers
    PROVE  /\ queue \in Seq(Copy) /\ picked \in Seq(Copy) /\ Waiting \in Seq(Copy)
           /\ Held(w) \in Seq(Copy)
           /\ job[w].pc # "idle" => job[w].copy \in Copy
<1>1. queue \in Seq(Copy) /\ picked \in Seq(Copy) /\ Waiting \in Seq(Copy)
  BY ConcatProperties DEF TypeOK, ListsOK, Waiting
<1>2. job[w].pc # "idle" => job[w].copy \in Copy
  <2>1. job[w] \in Job
    BY DEF TypeOK
  <2> QED
    BY <2>1 DEF Job
<1>3. Held(w) \in Seq(Copy)
  BY <1>2, EmptySeq DEF Held, At
<1> QED
  BY <1>1, <1>2, <1>3

(* When a handler is done, its copy leaves the line.                       *)
LEMMA Leaves ==
    ASSUME TypeOK, NEW w \in Workers, job[w].pc # "idle", job'[w].pc = "idle",
           UNCHANGED <<queue, picked>>
    PROVE  Line(w) = <<job[w].copy>> \o Waiting /\ Line(w)' = Waiting
<1>1. Line(w)' = <<>> \o Waiting
  BY DEF Line, Held, At, Waiting
<1> QED
  BY <1>1, LineTyped, ConcatEmptySeq DEF Line, Held, At

LEMMA HeldNear ==
    ASSUME TypeOK, NEW w \in Workers, job[w].pc # "idle", Line(w) \in Seq(NearCopy)
    PROVE  job[w].copy \in NearCopy
<1> DEFINE c == job[w].copy
           s == <<c>> \o Waiting
<1>1. c \in Copy /\ Waiting \in Seq(Copy)
  BY LineTyped
<1>2. /\ <<c>> \in Seq(Copy) /\ Len(<<c>>) = 1 /\ <<c>>[1] = c /\ Len(Waiting) \in Nat
      /\ s \in Seq(NearCopy)
  BY <1>1, LenProperties DEF Line, Held, At
<1>3. Len(s) = 1 + Len(Waiting) /\ s[1] = c
  <2> HIDE DEF c
  <2> QED
    BY <1>1, <1>2, ConcatProperties
<1> HIDE DEF s
<1> QED
  BY <1>2, <1>3, ElementOfSeq

LEMMA OrderStep ==
    ASSUME NEW w, Workers = {w}, "next" \notin Origins, Source # "circle",
           IInv, FindInv, OrderInv(w), [Next]_vars
    PROVE  OrderInv(w)'
<1>0. /\ TypeOK /\ w \in Workers /\ refill = {} /\ \A t \in crawling : rows[t] > 0
      /\ Line(w) \in Seq(NearCopy) /\ Ordered(Line(w), Single)
      /\ job \in [Workers -> Job] /\ crawling \subseteq Targets
      /\ found \in [Find -> 0..MaxFinds] /\ MaxFinds \in Nat
      /\ rows \in [Targets -> 0..(MaxFinds + 1)]
      /\ times \in [Targets -> 0..(Times + 1)]
  BY SchedulerAssumption
     DEF SchedulerAssumption, OrderInv, IInv, TypeOK, TablesOK, CountersOK
<1>t. /\ queue \in Seq(Copy) /\ picked \in Seq(Copy) /\ Waiting \in Seq(Copy)
      /\ Held(w) \in Seq(Copy) /\ (job[w].pc # "idle" => job[w].copy \in Copy)
  BY <1>0, LineTyped
<1>a. ASSUME Line(w)' = Line(w), NearCopy \subseteq NearCopy', Single' \subseteq Single,
             refill' = {}, \A t \in crawling' : rows'[t] > 0
      PROVE  OrderInv(w)'
  <2>1. Line(w) \in Seq(NearCopy')
    BY <1>0, <1>a, Widen
  <2>2. Ordered(Line(w), Single')
    BY <1>0, <1>a DEF Ordered
  <2> QED
    BY <1>a, <2>1, <2>2 DEF OrderInv
<1>n. ASSUME UNCHANGED <<crawling, times, rows>>
      PROVE  /\ NearCopy' = NearCopy /\ Single' = Single
             /\ \A t \in crawling' : rows'[t] > 0
  BY <1>0, <1>n DEF NearCopy, Single
<1>l. ASSUME UNCHANGED <<job, queue, picked>> PROVE Line(w)' = Line(w)
  BY <1>l DEF Line, Held, At, Waiting
<1>1. ASSUME NEW t \in Targets, NEW o \in Origins, Scan(t, o) PROVE OrderInv(w)'
  BY <1>0, <1>1, <1>a, <1>n, <1>l DEF Scan, tableVars, listVars, historyVars
<1>2. ASSUME NEW f \in Find, AddRow(f) PROVE OrderInv(w)'
  <2>1. /\ crawling' = crawling \union {f.target} /\ f.target \in Targets
        /\ UNCHANGED <<times, job, queue, picked, refill>>
    BY <1>2 DEF AddRow, listVars, Find
  <2>2. MaxFinds > 0
    BY <1>0, <1>2, LetsGoOne DEF AddRow
  <2>3. /\ rows'[f.target] = IF f.target \notin crawling /\ rows[f.target] <= MaxFinds
                             THEN rows[f.target] + 1 ELSE rows[f.target]
        /\ \A t \in Targets \ {f.target} : rows'[t] = rows[t]
    BY <1>0, <1>2, <2>1, RowsTyped
  <2>4. \A t \in Targets : rows[t] \in Nat /\ rows'[t] \in Nat /\ rows[t] <= rows'[t]
    BY <1>0, <2>3
  <2>5. f.target \in crawling \/ rows'[f.target] > 1 \/ rows[f.target] = 0
    BY <1>0, <2>1, <2>2, <2>3
  <2>6. rows'[f.target] > 0
    BY <1>0, <2>1, <2>2, <2>3
  <2>7. NearCopy \subseteq NearCopy'
    <3> SUFFICES ASSUME NEW c \in NearCopy PROVE c \in NearCopy'
      OBVIOUS
    <3>1. /\ c \in Copy /\ rows[c.target] > 0 /\ c.target \in Targets
          /\ c.target \in crawling \intersect Single =>
               c.times <= times[c.target] /\ times[c.target] <= c.times + 1
      BY DEF NearCopy, Copy
    <3>2. rows'[c.target] > 0
      BY <2>4, <3>1
    <3>3. ASSUME c.target \in crawling', rows'[c.target] <= 1
          PROVE  c.target \in crawling \intersect Single
      <4>1. rows[c.target] <= 1
        BY <2>4, <3>1, <3>3
      <4>2. CASE c.target = f.target
        BY <2>4, <2>5, <3>1, <3>3, <4>1, <4>2 DEF Single
      <4>3. CASE c.target # f.target
        BY <2>1, <3>1, <3>3, <4>1, <4>3 DEF Single
      <4> QED
        BY <4>2, <4>3
    <3>4. c.target \in (crawling \intersect Single)' =>
              c.times <= times'[c.target] /\ times'[c.target] <= c.times + 1
      BY <2>1, <3>1, <3>3 DEF Single
    <3> QED
      BY <3>1, <3>2, <3>4 DEF NearCopy
  <2>8. Single' \subseteq Single
    BY <2>4 DEF Single
  <2>9. \A t \in crawling' : rows'[t] > 0
    BY <1>0, <2>1, <2>4, <2>6
  <2> QED
    BY <1>0, <1>a, <1>l, <2>1, <2>7, <2>8, <2>9
<1>3. ASSUME NEW f \in Find, NEW first \in BOOLEAN PROVE ~PushNext(f, first)
  BY DEF PushNext, LetGo, FindInv
<1>12. ASSUME NEW t \in Targets, Renew(t) PROVE OrderInv(w)'
  <2>1. /\ crawling' = crawling \ {t} /\ times' = [times EXCEPT ![t] = 0]
        /\ UNCHANGED <<rows, job, queue, picked, refill>>
    BY <1>12 DEF Renew, NoRow, listVars, historyVars
  <2>2. \A s \in crawling' : times'[s] = times[s]
    BY <1>0, <2>1
  <2>3. NearCopy \subseteq NearCopy' /\ Single' = Single
    BY <2>1, <2>2 DEF NearCopy, Single
  <2> QED
    BY <1>0, <1>a, <1>l, <2>1, <2>3
<1>13. ASSUME NEW f \in Find, Lose(f) PROVE OrderInv(w)'
  BY <1>0, <1>13, <1>a, <1>n, <1>l DEF Lose, tableVars, listVars, historyVars
<1>4. CASE JobSelect
  <2>1. /\ picked = <<>> /\ UNCHANGED <<crawling, times, rows, job, queue, refill>>
        /\ picked' \in Seq(RowCopy)
    BY <1>0, <1>4, Selected DEF JobSelect, tableVars, historyVars
  <2>2. Line(w)' = Held(w) \o (queue \o picked') /\ Line(w) = Held(w) \o queue
    BY <1>t, <2>1, ConcatEmptySeq DEF Line, Held, At, Waiting
  <2>3. picked' \in Seq(Copy)
    BY <2>1, Widen DEF RowCopy
  <2>4. Line(w)' = Line(w) \o picked'
    <3>1. (Held(w) \o queue) \o picked' = Held(w) \o (queue \o picked')
      BY <1>t, <2>3, ConcatAssociative
    <3> QED
      BY <2>2, <3>1
  <2>5. Line(w)' \in Seq(NearCopy) /\ Ordered(Line(w)', Single)
    BY <1>0, <2>1, <2>4, Grow
  <2>6. NearCopy' = NearCopy /\ Single' = Single /\ \A t \in crawling' : rows'[t] > 0
    BY <2>1, <1>n
  <2> QED
    BY <1>0, <2>1, <2>5, <2>6 DEF OrderInv
<1>5. CASE JobPush
  <2>1. Waiting' = Waiting
    <3>1. Waiting' = (queue \o picked) \o <<>>
      BY <1>5 DEF JobPush, Waiting
    <3> QED
      BY <1>t, <3>1, ConcatEmptySeq DEF Waiting
  <2> QED
    BY <1>0, <1>5, <2>1, <1>a, <1>n DEF JobPush, Line, Held, At, tableVars, historyVars
<1>6. ~ClearCircle /\ \A t \in Targets : ~FillCircle(t)
  BY <1>0 DEF ClearCircle, FillCircle
<1>7. CASE Pop(w)
  <2>1. /\ queue # <<>> /\ job[w].pc = "idle"
        /\ job'[w].pc = "got" /\ job'[w].copy = Head(queue)
        /\ queue' = Tail(queue) /\ picked' = picked
    BY <1>0, <1>7 DEF Pop, At
  <2> DEFINE h == <<Head(queue)>>
  <2>2. /\ Head(queue) \in Copy /\ Tail(queue) \in Seq(Copy) /\ h \in Seq(Copy)
    BY <1>t, <2>1, HeadTailProperties
  <2>3. queue = h \o Tail(queue)
    <3>1. h \o Tail(queue) \in Seq(Copy) /\ Len(h \o Tail(queue)) = 1 + Len(Tail(queue))
      BY <2>2, ConcatProperties
    <3>2. /\ Len(queue) \in Nat \ {0} /\ Len(Tail(queue)) = Len(queue) - 1
          /\ \A i \in 1..Len(Tail(queue)) : Tail(queue)[i] = queue[i + 1]
          /\ Head(queue) = queue[1]
      BY <1>t, <2>1, HeadTailProperties, EmptySeq
    <3>3. \A i \in 1..(1 + Len(Tail(queue))) :
              (h \o Tail(queue))[i] = IF i <= 1 THEN h[i] ELSE Tail(queue)[i - 1]
      BY <2>2, ConcatProperties
    <3>4. \A i \in 1..Len(queue) : queue[i] = (h \o Tail(queue))[i]
      <4> SUFFICES ASSUME NEW i \in 1..Len(queue) PROVE queue[i] = (h \o Tail(queue))[i]
        OBVIOUS
      <4>1. CASE i = 1
        BY <3>2, <3>3, <4>1
      <4>2. CASE i > 1
        <5>1. i - 1 \in 1..Len(Tail(queue)) /\ (i - 1) + 1 = i
          BY <3>2, <4>2
        <5> QED
          BY <3>2, <3>3, <4>2, <5>1
      <4> QED
        BY <3>2, <4>1, <4>2
    <3> QED
      BY <1>t, <3>1, <3>2, <3>4, SeqEqual
  <2>4. Line(w) = queue \o picked
    BY <1>t, <2>1, ConcatEmptySeq DEF Line, Held, At, Waiting
  <2>5. Line(w)' = h \o (Tail(queue) \o picked)
    BY <2>1 DEF Line, Held, At, Waiting
  <2>6. Line(w)' = Line(w)
    <3> HIDE DEF h
    <3>1. \A a, b, d \in Seq(Copy) : (a \o b) \o d = a \o (b \o d)
      BY ConcatAssociative
    <3>2. h \in Seq(Copy) /\ Tail(queue) \in Seq(Copy) /\ picked \in Seq(Copy)
      BY <1>t, <2>2
    <3>3. (h \o Tail(queue)) \o picked = h \o (Tail(queue) \o picked)
      BY <3>1, <3>2, Zenon
    <3> QED
      BY <2>3, <2>4, <2>5, <3>3
  <2> QED
    BY <1>0, <1>7, <2>6, <1>a, <1>n DEF Pop, tableVars, historyVars
<1>8. CASE Request(w) \/ Insert(w)
  <2>1. /\ job[w].pc # "idle" /\ UNCHANGED <<crawling, times, rows, queue, picked, refill>>
        /\ \E to \in {"times", "insert", "delete"} :
              job' = [job EXCEPT ![w].pc = to]
              \/ job' = [job EXCEPT ![w].pc = to, ![w].stored = TRUE]
    BY <1>8 DEF Request, Insert, Goto, Fault, At, tableVars, listVars, historyVars
  <2>2. job'[w].pc # "idle" /\ job'[w].copy = job[w].copy
    BY <1>0, <2>1, Busy DEF IInv
  <2>3. Line(w)' = Line(w)
    BY <2>1, <2>2 DEF Line, Held, At, Waiting
  <2> QED
    BY <1>0, <2>1, <2>3, <1>a, <1>n
<1>9. CASE DropStale(w) \/ Ban(w) \/ UpdateTimes(w) \/ Delete(w)
  <2> DEFINE c == job[w].copy
  <2>1. /\ job[w].pc # "idle" /\ job'[w].pc = "idle"
        /\ UNCHANGED <<queue, picked, refill, rows>> /\ crawling' \subseteq crawling
    BY <1>0, <1>9
       DEF DropStale, Ban, UpdateTimes, Delete, NoRow, Rest, Fault, At, tableVars,
           listVars, historyVars
  <2>2. Line(w) = <<c>> \o Waiting /\ Line(w)' = Waiting /\ c \in Copy
    BY <1>0, <1>t, <2>1, Leaves
  <2>3. <<c>> \in Seq(Copy)
    BY <2>2
  <2>4. Waiting \in Seq(NearCopy) /\ Ordered(Waiting, Single)
    <3> HIDE DEF c
    <3>1. <<c>> \o Waiting \in Seq(NearCopy) /\ Ordered(<<c>> \o Waiting, Single)
      BY <1>0, <2>2
    <3> QED
      BY <1>t, <2>3, <3>1, Shrink
  <2>5. c \in NearCopy
    BY <1>0, <2>1, HeldNear
  <2>6. \A i \in 1..Len(Waiting) : Waiting[i] \in NearCopy'
    <3> SUFFICES ASSUME NEW i \in 1..Len(Waiting) PROVE Waiting[i] \in NearCopy'
      OBVIOUS
    <3>1. Waiting[i] \in NearCopy
      BY <2>4, ElementOfSeq
    <3>2. Waiting[i].target = c.target /\ c.target \in Single => c.times <= Waiting[i].times
      BY <1>0, <1>t, <2>2, First
    <3>3. CASE UNCHANGED times
      BY <2>1, <3>1, <3>3 DEF NearCopy, Single
    <3>4. CASE UpdateTimes(w) /\ times' # times
      <4>1. /\ times' = [times EXCEPT ![c.target] =
                           IF c.target \in crawling THEN c.times + 1 ELSE @]
            /\ crawling' = crawling
        BY <3>4 DEF UpdateTimes, Fault, Target, tableVars
      <4>2. c.times \in Nat /\ Waiting[i].times \in Nat /\ c.target \in Targets
            /\ times \in [Targets -> 0..(Times + 1)] /\ Waiting[i].target \in Targets
        <5>1. c \in Copy /\ Waiting[i] \in Copy
          BY <2>2, <3>1 DEF NearCopy
        <5>2. c.times \in 0..(Times + 1) /\ Waiting[i].times \in 0..(Times + 1)
              /\ c.target \in Targets /\ Waiting[i].target \in Targets
          <6> HIDE DEF c
          <6> QED
            BY <5>1 DEF Copy
        <5> QED
          BY <1>0, <5>2, SchedulerAssumption DEF SchedulerAssumption
      <4>3. CASE Waiting[i].target = c.target /\ c.target \in crawling \intersect Single
        <5>1. times'[c.target] = c.times + 1
          BY <4>1, <4>2, <4>3
        <5>2. Waiting[i].times <= times[c.target] /\ times[c.target] <= c.times + 1
          BY <2>5, <3>1, <4>3 DEF NearCopy
        <5>3. times[c.target] \in Nat
          BY <4>2, SchedulerAssumption DEF SchedulerAssumption
        <5>4. Waiting[i].times <= c.times + 1 /\ c.times + 1 <= Waiting[i].times + 1
          BY <3>2, <4>2, <4>3, <5>2, <5>3
        <5> QED
          BY <2>1, <3>1, <4>1, <4>3, <5>1, <5>4 DEF NearCopy, Single
      <4>4. CASE Waiting[i].target # c.target \/ c.target \notin crawling
        <5>1. times'[Waiting[i].target] = times[Waiting[i].target]
          BY <4>1, <4>2, <4>4
        <5> QED
          BY <2>1, <3>1, <4>1, <5>1 DEF NearCopy, Single
      <4>5. CASE Waiting[i].target = c.target /\ c.target \notin Single
        BY <2>1, <3>1, <4>5 DEF NearCopy, Single
      <4> QED
        BY <4>3, <4>4, <4>5
    <3>5. CASE Delete(w)
      <4>1. times' = times \/ (/\ times' = [times EXCEPT ![c.target] = 0]
                               /\ crawling' = crawling \ {c.target})
        BY <3>5 DEF Delete, NoRow, Fault, Target, tableVars
      <4>2. times \in [Targets -> 0..(Times + 1)] /\ Waiting[i].target \in Targets
        BY <1>0, <3>1 DEF Copy, NearCopy, TypeOK, TablesOK
      <4>3. Waiting[i].target \in crawling' =>
                times'[Waiting[i].target] = times[Waiting[i].target]
        BY <4>1, <4>2
      <4> QED
        BY <2>1, <3>1, <4>3 DEF NearCopy, Single
    <3> QED
      BY <1>9, <3>3, <3>4, <3>5 DEF DropStale, Ban, Fault, tableVars
  <2>7. Waiting \in Seq(NearCopy')
    BY <1>t, <2>6, Refit
  <2>8. Single' = Single /\ \A t \in crawling' : rows'[t] > 0
    BY <1>0, <2>1 DEF Single
  <2> QED
    BY <1>0, <2>1, <2>2, <2>4, <2>7, <2>8 DEF OrderInv
<1>10. CASE Crash
  <2>1. /\ UNCHANGED <<tableVars, rows, picked, refill>> /\ job'[w].pc = "idle"
        /\ queue' = queue \/ queue' = <<>>
    BY <1>0, <1>10 DEF Crash, historyVars
  <2>2. NearCopy' = NearCopy /\ Single' = Single /\ \A t \in crawling' : rows'[t] > 0
    BY <2>1, <1>n DEF tableVars
  <2>3. Waiting \in Seq(NearCopy) /\ Ordered(Waiting, Single)
    BY <1>0, <1>t, Shrink DEF Line
  <2>4. picked \in Seq(NearCopy) /\ Ordered(picked, Single)
    BY <1>t, <2>3, Shrink DEF Waiting
  <2>5. Line(w)' = queue' \o picked
    <3>1. queue' \in Seq(Copy)
      BY <1>t, <2>1, EmptySeq
    <3>2. queue' \o picked \in Seq(Copy)
      BY <1>t, <3>1, ConcatProperties
    <3>3. Line(w)' = <<>> \o (queue' \o picked)
      BY <2>1 DEF Line, Held, At, Waiting
    <3> QED
      BY <3>2, <3>3, ConcatEmptySeq
  <2>6. Line(w)' = Waiting \/ Line(w)' = picked
    BY <1>t, <2>1, <2>5, ConcatEmptySeq DEF Waiting
  <2> QED
    BY <1>0, <2>1, <2>2, <2>3, <2>4, <2>6 DEF OrderInv
<1>11. CASE UNCHANGED vars
  BY <1>0, <1>11, <1>a, <1>n, <1>l DEF vars, tableVars, listVars, historyVars
<1> QED
  BY <1>1, <1>2, <1>3, <1>4, <1>5, <1>6, <1>7, <1>8, <1>9, <1>10, <1>11, <1>12, <1>13
     DEF Next, Handle

(* With one handler the tries of a target's only row never go back, however*)
(* many stale or doubled copies of it wait, whatever crashes and whichever *)
(* statement fails: the handler takes them in the order they were made     *)
(* (updateTimesToCrawlingTable writes the number of the copy).             *)
THEOREM TimesNeverDecreaseHolds ==
    ASSUME NEW w, Workers = {w}, "next" \notin Origins, Source # "circle"
    PROVE  Spec => TimesNeverDecrease
<1> DEFINE Kept == \A t \in crawling \intersect crawling' :
                     rows[t] <= 1 => times'[t] >= times[t]
<1>1. Init => OrderInv(w)
  <2> SUFFICES ASSUME Init PROVE OrderInv(w)
    OBVIOUS
  <2>1. Line(w) = <<>> \o (<<>> \o <<>>)
    BY DEF Init, Line, Held, At, Waiting
  <2>2. Line(w) = <<>> /\ <<>> \in Seq(NearCopy)
    BY <2>1, EmptySeq, ConcatEmptySeq
  <2> QED
    BY <2>2, EmptySeq DEF Init, OrderInv, Ordered
<1>2. IInv /\ FindInv /\ OrderInv(w) /\ [Next]_vars => OrderInv(w)'
  BY OrderStep
<1>3. IInv /\ OrderInv(w) /\ [Next]_vars => [Kept]_vars
  <2> SUFFICES ASSUME IInv, OrderInv(w), [Next]_vars,
                      NEW t \in crawling, t \in crawling', rows[t] <= 1
               PROVE  times'[t] >= times[t]
    OBVIOUS
  <2>1. TypeOK /\ w \in Workers /\ times \in [Targets -> 0..(Times + 1)] /\ t \in Targets
    BY DEF IInv, TypeOK, TablesOK
  <2>7. t \in Single
    BY <2>1 DEF Single
  <2>2. times[t] \in Nat
    BY <2>1, SchedulerAssumption DEF SchedulerAssumption
  <2>3. CASE UNCHANGED times
    BY <2>2, <2>3
  <2>4. CASE UpdateTimes(w) /\ times' # times
    <3>1. /\ times' = [times EXCEPT ![Target(w)] =
                         IF Target(w) \in crawling THEN job[w].copy.times + 1 ELSE @]
          /\ job[w].pc = "times"
      BY <2>4 DEF UpdateTimes, Fault, At, tableVars
    <3>2. job[w].copy \in NearCopy
      BY <2>1, <3>1, HeldNear DEF OrderInv
    <3>3. CASE t = Target(w)
      <4>1. times'[t] = job[w].copy.times + 1
        BY <2>1, <3>1, <3>3
      <4> QED
        BY <2>7, <3>2, <3>3, <4>1 DEF NearCopy, Target
    <3>4. CASE t # Target(w)
      BY <2>1, <2>2, <3>1, <3>4
    <3> QED
      BY <3>3, <3>4
  <2>5. CASE Delete(w)
    <3>1. times' = times \/ (times' = [times EXCEPT ![Target(w)] = 0] /\ t # Target(w))
      BY <2>5 DEF Delete, NoRow, Fault, tableVars
    <3> QED
      BY <2>1, <2>2, <3>1
  <2>8. ASSUME NEW s \in Targets, Renew(s) PROVE times'[t] >= times[t]
    <3>1. times' = [times EXCEPT ![s] = 0] /\ t # s
      BY <2>8 DEF Renew, NoRow
    <3> QED
      BY <2>1, <2>2, <3>1
  <2>6. \/ UNCHANGED times \/ UpdateTimes(w) \/ Delete(w)
        \/ \E s \in Targets : Renew(s)
    BY DEF Next, Handle, vars, tableVars, Scan, AddRow, PushNext, JobSelect, JobPush,
       ClearCircle, FillCircle, Pop, DropStale, Request, Ban, Insert, Crash, Fault, Lose
  <2> QED
    BY <2>3, <2>4, <2>5, <2>6, <2>8
<1> QED
  BY <1>1, <1>2, <1>3, FindHolds, SchedulerInductive, PTL DEF Spec, TimesNeverDecrease
=============================================================================
