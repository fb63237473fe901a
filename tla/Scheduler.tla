----------------------------- MODULE Scheduler -----------------------------
(***************************************************************************)
(* The path of a target from its discovery to the table crawled, for one   *)
(* template: spiders add rows to the table crawling, a cron job copies     *)
(* rows that are not banned to a Redis list (or a Kafka topic), the        *)
(* scheduler (or the consumer) takes the copies and asks the service to    *)
(* crawl them.  A success moves the row to crawled with two statements, a  *)
(* failure writes the number of tries into the row, too many tries ban it. *)
(* A list read as a circle puts what it takes back at the other end.       *)
(* One spider takes rows out of crawling first, to write them again.       *)
(*                                                                         *)
(* Nothing links a copy to its row: a row may be copied again while copies *)
(* of it wait or are being handled, and every statement is its own         *)
(* transaction whose error is only logged.                                 *)
(***************************************************************************)
EXTENDS Naturals, Sequences, FiniteSets

CONSTANTS
    Targets,      \* targets of the template
    Workers,      \* handlers at work at once: one, unless the task is async
    Times,        \* config: RedisTask.Times
    Source,       \* "list", "circle" or "kafka"
    Origins,      \* who finds targets: "spider", "hot", "renew", "next"
    JobCount,     \* the limit of the cron job's query
    MaxFinds,     \* bound: finds of a target and an origin held at once
    MaxQueue,     \* bound: copies that wait
    MaxCrashes,   \* bound: crashes of the scheduler
    MaxFaults,    \* bound: statements that fail
    MaxFills      \* bound: fillings of the circle

ASSUME SchedulerAssumption ==
    /\ IsFiniteSet(Targets)
    /\ Times \in Nat
    /\ Source \in {"list", "circle", "kafka"}
    /\ Origins \subseteq {"spider", "hot", "renew", "next"}
    /\ JobCount \in Nat \ {0}
    /\ MaxFinds \in Nat
    /\ MaxCrashes \in Nat
    /\ MaxFaults \in Nat
    /\ MaxFills \in Nat

VARIABLES
    crawling,   \* targets with a row in the table crawling
    times,      \* the column times of the row
    banned,     \* the column ban of the row
    crawled,    \* targets with a row in the table crawled
    found,      \* how many finds were checked and are not yet written
    picked,     \* rows the cron job has read and not yet pushed
    queue,      \* copies in the list, the next one to take first
    refill,     \* targets still to push to a circle that is being filled
    job,        \* the handlers
    rows,       \* history: rows written for the target, up to MaxFinds + 1
    failures,   \* history: failed requests for the target, up to Times + 1
    crashes, faults, fills

tableVars == <<crawling, times, banned, crawled>>
listVars  == <<picked, queue, refill>>
bounds    == <<crashes, faults, fills>>
historyVars == <<rows, failures>>
vars == <<tableVars, found, listVars, job, historyVars, bounds>>

Copy == [target : Targets, times : 0..(Times + 1), priority : BOOLEAN]
Job == [pc : {"idle"}] \union
       [pc : {"got", "times", "insert", "delete"}, copy : Copy, stored : BOOLEAN]
Find == [target : Targets, origin : {"spider", "hot", "renew", "next"}]

TablesOK ==
    /\ crawling \subseteq Targets
    /\ times \in [Targets -> 0..(Times + 1)]
    /\ banned \in [Targets -> BOOLEAN]
    /\ crawled \subseteq Targets
ListsOK ==
    /\ picked \in Seq(Copy)
    /\ queue \in Seq(Copy)
    /\ refill \subseteq Targets
CountersOK ==
    /\ rows \in [Targets -> 0..(MaxFinds + 1)]
    /\ failures \in [Targets -> 0..(Times + 1)]
    /\ crashes \in 0..MaxCrashes
    /\ faults \in 0..MaxFaults
    /\ fills \in 0..MaxFills

TypeOK ==
    /\ TablesOK
    /\ found \in [Find -> 0..MaxFinds]
    /\ ListsOK
    /\ job \in [Workers -> Job]
    /\ CountersOK

Init ==
    /\ crawling = {} /\ crawled = {}
    /\ times = [t \in Targets |-> 0]
    /\ banned = [t \in Targets |-> FALSE]
    /\ found = [f \in Find |-> 0]
    /\ picked = <<>> /\ queue = <<>> /\ refill = {}
    /\ job = [w \in Workers |-> [pc |-> "idle"]]
    /\ rows = [t \in Targets |-> 0]
    /\ failures = [t \in Targets |-> 0]
    /\ crashes = 0 /\ faults = 0 /\ fills = 0

-----------------------------------------------------------------------------
(* Where targets come from                                                 *)

(* A find becomes a statement of its own: two spiders, or a spider whose   *)
(* data name a target twice, may hold the same one.                        *)
Holds(f) ==
    /\ f.origin \in Origins
    /\ found[f] < MaxFinds
    /\ found' = [found EXCEPT ![f] = @ + 1]
LetGo(f) ==
    /\ found[f] > 0
    /\ found' = [found EXCEPT ![f] = @ - 1]
NoRow(t) ==
    /\ crawling' = crawling \ {t}
    /\ times' = [times EXCEPT ![t] = 0]
    /\ banned' = [banned EXCEPT ![t] = FALSE]

(* Wrong on purpose: a spider does not look into the table crawled.        *)
BadScan(t, origin) ==
    /\ origin # "renew"
    /\ origin = "spider" => t \notin crawling
    /\ Holds([target |-> t, origin |-> origin])
    /\ UNCHANGED <<tableVars, listVars, job, historyVars, bounds>>

(* A spider looks into both tables, nextToRedis of a session into crawled, *)
(* and the job of the hot topics into neither.                             *)
Scan(t, origin) ==
    /\ origin # "renew"
    /\ origin = "spider" => t \notin crawling
    /\ origin # "hot" => t \notin crawled
    /\ Holds([target |-> t, origin |-> origin])
    /\ UNCHANGED <<tableVars, listVars, job, historyVars, bounds>>

(* The spider of the insurance data takes the row out of crawling, whatever*)
(* is in crawled, and holds the target until its batch is written.         *)
Renew(t) ==
    /\ Holds([target |-> t, origin |-> "renew"])
    /\ NoRow(t)
    /\ UNCHANGED <<crawled, listVars, job, historyVars, bounds>>

(* The insert comes later; a row that is there already stays as it is.     *)
AddRow(f) ==
    /\ f.origin # "next"
    /\ LetGo(f)
    /\ crawling' = crawling \union {f.target}
    /\ rows' = [rows EXCEPT ![f.target] =
                  IF f.target \notin crawling /\ @ <= MaxFinds THEN @ + 1 ELSE @]
    /\ UNCHANGED <<times, banned, crawled, listVars, job, failures, bounds>>

(* nextToRedis pushes a copy of no row, to the end that is taken first     *)
(* when the step says priority.                                            *)
PushNext(f, first) ==
    /\ f.origin = "next"
    /\ Len(queue) < MaxQueue
    /\ LetGo(f)
    /\ LET copy == [target |-> f.target, times |-> 0, priority |-> TRUE] IN
         queue' = IF first THEN <<copy>> \o queue ELSE Append(queue, copy)
    /\ UNCHANGED <<tableVars, picked, refill, job, historyVars, bounds>>

(* A spider stops, an error or a row that is there already breaks its      *)
(* batch off, or a session ends before the push.                           *)
Lose(f) ==
    /\ LetGo(f)
    /\ UNCHANGED <<tableVars, listVars, job, historyVars, bounds>>

-----------------------------------------------------------------------------
(* The producers                                                           *)

Orders(S) ==
    {f \in [1..Cardinality(S) -> S] : \A t \in S : \E i \in DOMAIN f : f[i] = t}

(* sched_job reads at most JobCount rows, in the order the database likes; *)
(* no task of conf.yaml has a priority to give to the copies.              *)
JobSelect ==
    /\ Source # "circle"
    /\ picked = <<>>
    /\ LET ready == {t \in crawling : ~banned[t]} IN
         \E batch \in SUBSET ready :
            /\ batch # {}
            /\ \/ batch = ready /\ Cardinality(ready) <= JobCount
               \/ Cardinality(batch) = JobCount
            /\ \E order \in Orders(batch) :
                 picked' = [i \in 1..Cardinality(batch) |->
                              [target |-> order[i], times |-> times[order[i]],
                               priority |-> FALSE]]
    /\ UNCHANGED <<tableVars, found, queue, refill, job, historyVars, bounds>>

(* Wrong on purpose: the copies are pushed to the end that is taken first. *)
BadJobPush ==
    /\ picked # <<>>
    /\ Len(queue) + Len(picked) <= MaxQueue
    /\ queue' = picked \o queue
    /\ picked' = <<>>
    /\ UNCHANGED <<tableVars, found, refill, job, historyVars, bounds>>

JobPush ==
    /\ picked # <<>>
    /\ Len(queue) + Len(picked) <= MaxQueue
    /\ queue' = queue \o picked
    /\ picked' = <<>>
    /\ UNCHANGED <<tableVars, found, refill, job, historyVars, bounds>>

(* update_spider deletes the list of a circle and fills it again.          *)
ClearCircle ==
    /\ Source = "circle"
    /\ refill = {}
    /\ fills < MaxFills
    /\ fills' = fills + 1
    /\ queue' = <<>>
    /\ refill' = Targets
    /\ UNCHANGED <<tableVars, found, picked, job, historyVars, crashes, faults>>

FillCircle(t) ==
    /\ t \in refill
    /\ refill' = refill \ {t}
    /\ queue' = Append(queue, [target |-> t, times |-> 0, priority |-> TRUE])
    /\ UNCHANGED <<tableVars, found, picked, job, historyVars, bounds>>

-----------------------------------------------------------------------------
(* The scheduler                                                           *)

Goto(w, to) == job' = [job EXCEPT ![w].pc = to]
Rest(w) == job' = [job EXCEPT ![w] = [pc |-> "idle"]]
At(w, here) == job[w].pc = here
Target(w) == job[w].copy.target

(* A statement that fails is logged, and the handler goes on.              *)
Fault ==
    /\ faults < MaxFaults
    /\ faults' = faults + 1
    /\ UNCHANGED tableVars

(* Wrong on purpose: the circle loses what it takes ...                    *)
BadPop(w) ==
    /\ At(w, "idle")
    /\ queue # <<>>
    /\ job' = [job EXCEPT ![w] = [pc |-> "got", copy |-> Head(queue), stored |-> FALSE]]
    /\ queue' = Tail(queue)
    /\ UNCHANGED <<tableVars, found, picked, refill, historyVars, bounds>>

(* ... or puts it back at the end it was taken from.                       *)
BadCircle(w) ==
    /\ At(w, "idle")
    /\ queue # <<>>
    /\ job' = [job EXCEPT ![w] = [pc |-> "got", copy |-> Head(queue), stored |-> FALSE]]
    /\ queue' = IF Source = "circle" THEN queue ELSE Tail(queue)
    /\ UNCHANGED <<tableVars, found, picked, refill, historyVars, bounds>>

(* BRPOP takes the copy out of the list, BRPOPLPUSH turns the list.        *)
Pop(w) ==
    /\ At(w, "idle")
    /\ queue # <<>>
    /\ job' = [job EXCEPT ![w] = [pc |-> "got", copy |-> Head(queue), stored |-> FALSE]]
    /\ queue' = IF Source = "circle" THEN Append(Tail(queue), Head(queue))
                                     ELSE Tail(queue)
    /\ UNCHANGED <<tableVars, found, picked, refill, historyVars, bounds>>

(* A copy older than an hour is thrown away, unless it has priority.       *)
DropStale(w) ==
    /\ At(w, "got")
    /\ ~job[w].copy.priority
    /\ Rest(w)
    /\ UNCHANGED <<tableVars, found, listVars, historyVars, bounds>>

(* getNextUrl: the request and the polls while the answer is in_crawling.  *)
(* Every other answer but finish_fetch_data is a failure.                  *)
Request(w) ==
    /\ At(w, "got")
    /\ job[w].copy.times <= Times
    /\ \/ Goto(w, "insert") /\ UNCHANGED failures
       \/ Goto(w, "times") /\ failures' = [failures EXCEPT ![Target(w)] =
                                             IF @ <= Times THEN @ + 1 ELSE @]
    /\ UNCHANGED <<tableVars, found, listVars, rows, bounds>>

(* Wrong on purpose: a row is banned one try too early.                    *)
BadBan(w) ==
    /\ At(w, "got")
    /\ job[w].copy.times >= Times
    /\ Rest(w)
    /\ banned' = [banned EXCEPT ![Target(w)] = @ \/ Target(w) \in crawling]
    /\ UNCHANGED <<crawling, times, crawled, faults, found, listVars, historyVars,
                   crashes, fills>>

Ban(w) ==
    /\ At(w, "got")
    /\ job[w].copy.times > Times
    /\ Rest(w)
    /\ \/ /\ banned' = [banned EXCEPT ![Target(w)] = @ \/ Target(w) \in crawling]
          /\ UNCHANGED <<crawling, times, crawled, faults>>
       \/ Fault
    /\ UNCHANGED <<found, listVars, historyVars, crashes, fills>>

(* Wrong on purpose: the tries are written as they were read.              *)
BadUpdateTimes(w) ==
    /\ At(w, "times")
    /\ Rest(w)
    /\ times' = [times EXCEPT ![Target(w)] =
                   IF Target(w) \in crawling THEN job[w].copy.times ELSE @]
    /\ UNCHANGED <<crawling, banned, crawled, faults, found, listVars, historyVars,
                   crashes, fills>>

(* The number of tries is written, not increased.                          *)
UpdateTimes(w) ==
    /\ At(w, "times")
    /\ Rest(w)
    /\ \/ /\ times' = [times EXCEPT ![Target(w)] =
                         IF Target(w) \in crawling THEN job[w].copy.times + 1 ELSE @]
          /\ UNCHANGED <<crawling, banned, crawled, faults>>
       \/ Fault
    /\ UNCHANGED <<found, listVars, historyVars, crashes, fills>>

(* Wrong on purpose: the row is deleted before the other is inserted.      *)
BadInsert(w) ==
    /\ At(w, "insert")
    /\ job' = [job EXCEPT ![w].pc = "delete", ![w].stored = TRUE]
    /\ crawling' = crawling \ {Target(w)}
    /\ UNCHANGED <<times, banned, crawled, faults, found, listVars, historyVars,
                   crashes, fills>>

Insert(w) ==
    /\ At(w, "insert")
    /\ \/ /\ job' = [job EXCEPT ![w].pc = "delete", ![w].stored = TRUE]
          /\ crawled' = crawled \union {Target(w)}
          /\ UNCHANGED <<crawling, times, banned, faults>>
       \/ Goto(w, "delete") /\ Fault
    /\ UNCHANGED <<found, listVars, historyVars, crashes, fills>>

Delete(w) ==
    /\ At(w, "delete")
    /\ Rest(w)
    /\ \/ NoRow(Target(w)) /\ UNCHANGED <<crawled, faults>>
       \/ Fault
    /\ UNCHANGED <<found, listVars, historyVars, crashes, fills>>

(* What is being handled is lost.  A consumer of Kafka starts again at the *)
(* newest message, so that what waited is lost too.                        *)
Crash ==
    /\ crashes < MaxCrashes
    /\ crashes' = crashes + 1
    /\ job' = [w \in Workers |-> [pc |-> "idle"]]
    /\ queue' = IF Source = "kafka" THEN <<>> ELSE queue
    /\ UNCHANGED <<tableVars, found, picked, refill, historyVars, faults, fills>>

Handle(w) ==
    \/ DropStale(w) \/ Request(w) \/ Ban(w)
    \/ UpdateTimes(w) \/ Insert(w) \/ Delete(w)

Next ==
    \/ \E t \in Targets : Renew(t) \/ \E o \in Origins : Scan(t, o)
    \/ \E f \in Find : AddRow(f) \/ Lose(f) \/ \E first \in BOOLEAN : PushNext(f, first)
    \/ JobSelect \/ JobPush
    \/ ClearCircle \/ \E t \in Targets : FillCircle(t)
    \/ \E w \in Workers : Pop(w) \/ Handle(w)
    \/ Crash

Spec == Init /\ [][Next]_vars

(* The cron job runs again and again, and the scheduler works as long as   *)
(* there is work: a request has a timeout, and the service answers every   *)
(* poll with something else than in_crawling in the end.  Nobody has to    *)
(* find targets, and nothing has to crash.                                 *)
Fairness ==
    /\ WF_vars(JobSelect \/ JobPush)
    /\ WF_vars(\E t \in Targets : FillCircle(t))
    /\ \A w \in Workers : WF_vars(Pop(w) \/ Handle(w))

FairSpec == Spec /\ Fairness

-----------------------------------------------------------------------------
(* Properties                                                              *)

(* No row is banned before Times + 1 requests for its target have failed:  *)
(* copies that are stale, doubled or lost, and updates that overwrite each *)
(* other, may delay the ban and never bring it forward.                    *)
BanEarned == \A t \in crawling : banned[t] => failures[t] > Times

(* A target is never forgotten once it has had a row: it is in crawling,   *)
(* in crawled, or held by the spider that has taken its row out, whatever  *)
(* crashes.  It is lost in two ways only: its insert into crawled fails    *)
(* and the row is deleted all the same (scheduler.go:116-117), or that     *)
(* spider ends with its batch not written (insurance_mysql.py:22, 57).     *)
Known == crawling \union crawled
         \union {t \in Targets : found[[target |-> t, origin |-> "renew"]] > 0}
Unsaved(t) == \E w \in Workers : At(w, "delete") /\ Target(w) = t /\ ~job[w].stored
NotForgotten ==
    [][\A t \in Known : \/ t \in Known'
                        \/ Unsaved(t)
                        \/ Lose([target |-> t, origin |-> "renew"])]_vars

(* One handler at a time, first in, first out: the copies of a row,        *)
(* doubled or stale as they are, never turn its number of tries back, as   *)
(* long as it is the only row the target ever had.  With a second one, of  *)
(* a late find or written by the spider that took the first out, they do.  *)
TimesNeverDecrease ==
    [][\A t \in crawling \intersect crawling' :
          rows[t] <= 1 => times'[t] >= times[t]]_vars

(* A target whose spiders look into both tables gets no row but for finds  *)
(* made before the first: from then on it is in one of the tables, while   *)
(* it is moved too, and is not found again.  The finds that were held then *)
(* may write a row each, and have the target crawled again, long after it  *)
(* was moved (itjuzi/tmp.py:16, 34; itjuzi_company_increment_mysql.py:16). *)
RowsBounded == faults = 0 => \A t \in Targets : rows[t] <= MaxFinds

(* A circle holds each target once, crashes or not, except those that are  *)
(* still to be filled in.                                                  *)
CircleKeeps ==
    Source = "circle" /\ queue # <<>> =>
        /\ {queue[i].target : i \in DOMAIN queue} = Targets \ refill
        /\ Len(queue) = Cardinality(Targets \ refill)

(* In a full circle every target has its turn.                             *)
EveryTurn ==
    \A t \in Targets :
        (Source = "circle" /\ queue # <<>>) ~>
            (\E w \in Workers : At(w, "got") /\ Target(w) = t)

(* Every row comes to an end: its target is crawled or banned, whichever   *)
(* rows the limit of the query prefers; unless copies grow older than an   *)
(* hour before their turn, again and again (scheduler.go:86).              *)
Settles ==
    \A t \in Targets :
        \/ []<>(t \notin crawling \/ banned[t])
        \/ []<><<\E w \in Workers : DropStale(w)>>_vars

-----------------------------------------------------------------------------
(* The inductive invariant behind BanEarned and NotForgotten: no number of *)
(* tries, in a row, in a copy or about to be written, is above the failed  *)
(* requests for the target, and what a handler has stored is in crawled.   *)

Earned == {c \in Copy : c.times <= failures[c.target]}

CountInv ==
    /\ \A t \in Targets : times[t] <= failures[t] /\ (banned[t] => failures[t] > Times)
    /\ picked \in Seq(Earned)
    /\ queue \in Seq(Earned)
    /\ \A w \in Workers :
         /\ ~At(w, "idle") => job[w].copy \in Earned
         /\ At(w, "times") => job[w].copy.times < failures[Target(w)]

StoredInv ==
    \A w \in Workers :
        ~At(w, "idle") /\ job[w].stored => At(w, "delete") /\ Target(w) \in crawled

IInv == TypeOK /\ CountInv /\ StoredInv
=============================================================================
