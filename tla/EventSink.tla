----------------------------- MODULE EventSink -----------------------------
(***************************************************************************)
(* The buffer of events of flume.FlumeEvents, and of hbase.HbaseEvents,    *)
(* which is written the same way: sessions append under a lock, a          *)
(* goroutine woken by a ticker copies and empties the buffer under the     *)
(* lock and sends the batch, up to Retries times.  A request may be lost,  *)
(* or arrive after the sender has given it up, with a second one on its    *)
(* way; an answer may be lost, or be no.                                   *)
(*                                                                         *)
(* Events are numbered as they are accepted.                               *)
(***************************************************************************)
EXTENDS Naturals, Sequences, FiniteSets

CONSTANTS
    Retries,     \* sends of one batch (5 in the code)
    OnLine,      \* config: OnLine
    MaxEvents,   \* bound: events
    MaxCrashes   \* bound: crashes of the service

ASSUME SinkAssumption ==
    /\ Retries \in Nat \ {0}
    /\ OnLine \in BOOLEAN
    /\ MaxEvents \in Nat
    /\ MaxCrashes \in Nat

(* A request: the batch first..last, sent for the n-th time.               *)
Event == 1..MaxEvents
Request == [first : Event, last : Event, n : 1..Retries]

VARIABLES
    accepted,    \* number of events accepted
    events,      \* the buffer
    sender,      \* where SendAll is
    batch,       \* what SendAll has copied
    n,           \* which send of the batch it is
    net,         \* requests on their way
    received,    \* requests that have arrived
    abandoned,   \* history: requests SendAll has given up
    lost,        \* history: events given up with their batch, or in a crash
    crashes

history == <<abandoned, lost>>
senderVars == <<sender, batch, n>>
vars == <<accepted, events, senderVars, net, received, history, crashes>>

TypeOK ==
    /\ accepted \in 0..MaxEvents
    /\ events \in Seq(Event)
    /\ sender \in {"idle", "copy", "send", "wait"}
    /\ batch \in Seq(Event)
    /\ n \in 1..Retries
    /\ net \in SUBSET Request
    /\ received \in SUBSET Request
    /\ abandoned \in SUBSET Request
    /\ lost \in SUBSET Event
    /\ crashes \in 0..MaxCrashes

Init ==
    /\ accepted = 0
    /\ events = <<>>
    /\ sender = "idle" /\ batch = <<>> /\ n = 1
    /\ net = {} /\ received = {}
    /\ abandoned = {} /\ lost = {}
    /\ crashes = 0

InSeq(s) == {s[i] : i \in DOMAIN s}
Covered(r) == r.first..r.last

-----------------------------------------------------------------------------
(* The actions                                                             *)

(* What hbase.Send refuses (an empty or unknown parameter) is not accepted. *)
Send ==
    /\ accepted < MaxEvents
    /\ accepted' = accepted + 1
    /\ events' = Append(events, accepted + 1)
    /\ UNCHANGED <<senderVars, net, received, history, crashes>>

(* The length is read without the lock: when it is read too early SendAll  *)
(* returns, as it does when the buffer is empty.                           *)
Tick ==
    /\ OnLine
    /\ sender = "idle"
    /\ events # <<>>
    /\ sender' = "copy"
    /\ UNCHANGED <<accepted, events, batch, n, net, received, history, crashes>>

(* Wrong on purpose: a copy that was made before the last event came ...   *)
BadCopyEvents ==
    /\ sender = "copy"
    /\ Len(events) > 1
    /\ batch' = SubSeq(events, 1, Len(events) - 1)
    /\ events' = <<>>
    /\ n' = 1
    /\ sender' = "send"
    /\ UNCHANGED <<accepted, net, received, history, crashes>>

(* ... or without emptying the buffer.                                     *)
BadReset ==
    /\ sender = "copy"
    /\ batch' = events
    /\ n' = 1
    /\ sender' = "send"
    /\ UNCHANGED <<accepted, events, net, received, history, crashes>>

CopyEvents ==
    /\ sender = "copy"
    /\ batch' = events
    /\ events' = <<>>
    /\ n' = 1
    /\ sender' = "send"
    /\ UNCHANGED <<accepted, net, received, history, crashes>>

ThisRequest == [first |-> Head(batch), last |-> batch[Len(batch)], n |-> n]

Done ==
    /\ sender' = "idle"
    /\ batch' = <<>>
    /\ n' = 1

(* Wrong on purpose: the answer is not waited for.                         *)
BadPost ==
    /\ sender = "send"
    /\ net' = net \union {ThisRequest}
    /\ Done
    /\ UNCHANGED <<accepted, events, received, history, crashes>>

Post ==
    /\ sender = "send"
    /\ net' = net \union {ThisRequest}
    /\ sender' = "wait"
    /\ UNCHANGED <<accepted, events, batch, n, received, history, crashes>>

(* Wrong on purpose: a failed try is not counted.                         *)
BadTryAgain ==
    /\ sender' = "send"
    /\ UNCHANGED <<batch, n, lost>>

(* The loop ends after the last try, whether it succeeded or not.          *)
TryAgain ==
    IF n < Retries
    THEN /\ n' = n + 1
         /\ sender' = "send"
         /\ UNCHANGED <<batch, lost>>
    ELSE /\ Done
         /\ lost' = lost \union InSeq(batch)

(* No connection, or an error before anything was sent.                    *)
ConnectFails ==
    /\ sender = "send"
    /\ TryAgain
    /\ UNCHANGED <<accepted, events, net, received, abandoned, crashes>>

(* A timeout, a broken connection, or an answer other than yes.            *)
NoAnswer ==
    /\ sender = "wait"
    /\ TryAgain
    /\ abandoned' = abandoned \union {ThisRequest}
    /\ UNCHANGED <<accepted, events, net, received, crashes>>

Answered ==
    /\ sender = "wait"
    /\ ThisRequest \in received
    /\ Done
    /\ UNCHANGED <<accepted, events, net, received, history, crashes>>

Receive(r) ==
    /\ r \in net
    /\ net' = net \ {r}
    /\ received' = received \union {r}
    /\ UNCHANGED <<accepted, events, senderVars, history, crashes>>

LoseRequest(r) ==
    /\ r \in net
    /\ net' = net \ {r}
    /\ UNCHANGED <<accepted, events, senderVars, received, history, crashes>>

(* The buffer is only in memory, and so is the batch.                      *)
Crash ==
    /\ crashes < MaxCrashes
    /\ crashes' = crashes + 1
    /\ events' = <<>>
    /\ Done
    /\ lost' = lost \union InSeq(events) \union InSeq(batch)
    /\ abandoned' = IF sender = "wait" THEN abandoned \union {ThisRequest}
                                       ELSE abandoned
    /\ UNCHANGED <<accepted, net, received>>

SendAll == Tick \/ CopyEvents \/ Post \/ ConnectFails \/ NoAnswer \/ Answered

Next ==
    \/ Send
    \/ SendAll
    \/ \E r \in net : Receive(r) \/ LoseRequest(r)
    \/ Crash

(* The ticker ticks and every send ends, with an answer or a timeout.      *)
Spec == Init /\ [][Next]_vars
FairSpec == Spec /\ WF_vars(SendAll)

-----------------------------------------------------------------------------
(* Properties                                                              *)

(* No event is received more than Retries times, however many requests     *)
(* were given up while they were still on their way (flume.go:67-83).      *)
CopiesBounded ==
    \A e \in Event : Cardinality({r \in received : e \in Covered(r)}) <= Retries

(* An accepted event waits, is being sent, has been received or is lost in *)
(* one of the known ways, five sends that failed and a crash: none falls   *)
(* between the buffer and the copy of it (flume.go:94-97).                 *)
NothingForgotten ==
    \A e \in 1..accepted :
        \/ e \in InSeq(events) \union InSeq(batch) \union lost
        \/ \E r \in received : e \in Covered(r)

(* Unless a request was given up, requests arrive in the order in which    *)
(* their events were accepted: a later batch never overtakes one whose     *)
(* sender still waits (flume.go:76-82; an older value that arrives late    *)
(* would replace a newer one under the same rowkey of hbase).              *)
LateOnlyIfAbandoned ==
    [][\A r \in received' \ received :
        r \notin abandoned => \A q \in received : q.first <= r.first]_vars

(* The buffer and its sender implement EventQueue: batches arrive whole,   *)
(* with the events of one emptying of the buffer and no others.            *)
Queue == INSTANCE EventQueue WITH taken <- accepted - Len(events),
                                  arrived <- received
Contract == Queue!Spec

(* What waits in the buffer is taken from it, whatever becomes of the      *)
(* batches before it (flume.go:36-40).                                     *)
BufferDrains ==
    \A e \in Event : OnLine /\ e \in InSeq(events) ~> e \notin InSeq(events)

-----------------------------------------------------------------------------
(* The inductive invariant behind the safety properties                    *)

Left == accepted - Len(events)
Sending == sender \in {"send", "wait"}

(* The buffer holds the events accepted last, in order; the batch some     *)
(* events before them, in order.                                           *)
BufferInv ==
    /\ Len(events) <= accepted
    /\ \A i \in DOMAIN events : events[i] = Left + i
    /\ sender = "copy" => events # <<>>
BatchInv ==
    /\ Sending <=> batch # <<>>
    /\ \A i \in DOMAIN batch : batch[i] = batch[1] + i - 1 /\ batch[i] <= Left

(* Requests were made from what has left the buffer; two of them have the  *)
(* same events or none in common, and those of the batch were sent before. *)
Requests == net \union received \union abandoned
Older(r) ==
    Sending => \/ r.last < batch[1]
               \/ /\ r.first = batch[1] /\ r.last = batch[Len(batch)]
                  /\ r.n < n \/ (r.n = n /\ sender = "wait")
RequestInv ==
    /\ \A r \in Requests : r.first <= r.last /\ r.last <= Left /\ Older(r)
    /\ \A q, r \in Requests : Queue!Same(q, r) \/ Queue!Apart(q, r)
    /\ net \intersect received = {}

Awaited(r) == sender = "wait" /\ r = ThisRequest
LateInv == \A r \in net : r \in abandoned \/ Awaited(r)

IInv == TypeOK /\ BufferInv /\ BatchInv /\ RequestInv /\ LateInv /\ NothingForgotten
=============================================================================
