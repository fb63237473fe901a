-------------------------- MODULE EventSinkProofs --------------------------
(* What EventSink promises, for every number of tries, events and crashes. *)
EXTENDS EventSink, FiniteSetTheorems, SequenceTheorems, TLAPS

-----------------------------------------------------------------------------
(* What is known of the batch while it is being sent                       *)

LEMMA BatchFacts ==
    ASSUME TypeOK, BufferInv, BatchInv, Sending
    PROVE  /\ Len(batch) \in Nat \ {0} /\ DOMAIN batch = 1..Len(batch)
           /\ batch[1] \in Event /\ batch[Len(batch)] \in Event
           /\ batch[Len(batch)] = batch[1] + Len(batch) - 1
           /\ batch[Len(batch)] <= Left
           /\ ThisRequest = [first |-> batch[1], last |-> batch[Len(batch)], n |-> n]
           /\ ThisRequest \in Request
  <1>1. /\ batch \in Seq(Event) /\ batch # <<>>
    BY DEF TypeOK, BatchInv
  <1>2. Len(batch) \in Nat \ {0} /\ DOMAIN batch = 1..Len(batch) /\ Head(batch) = batch[1]
    BY <1>1, EmptySeq, HeadTailProperties, ElementOfSeq, SMT
  <1>3. batch[1] \in Event /\ batch[Len(batch)] \in Event
    BY <1>1, <1>2, ElementOfSeq
  <1>4. batch[Len(batch)] = batch[1] + Len(batch) - 1 /\ batch[Len(batch)] <= Left
    BY <1>2 DEF BatchInv
  <1>5. ThisRequest = [first |-> batch[1], last |-> batch[Len(batch)], n |-> n]
    BY <1>2 DEF ThisRequest
  <1>6. n \in 1..Retries
    BY DEF TypeOK
  <1>7. ThisRequest \in Request
    BY <1>3, <1>5, <1>6 DEF Request
  <1> QED BY <1>2, <1>3, <1>4, <1>5, <1>7

(* A request has the events of the batch.                                  *)
LEMMA CoveredBatch ==
    ASSUME TypeOK, BufferInv, BatchInv, Sending
    PROVE  Covered(ThisRequest) = InSeq(batch)
  <1>1. /\ Len(batch) \in Nat \ {0} /\ DOMAIN batch = 1..Len(batch)
        /\ batch[1] \in Nat
        /\ Covered(ThisRequest) = batch[1]..(batch[1] + Len(batch) - 1)
    BY BatchFacts, SinkAssumption DEF Covered, Event, SinkAssumption
  <1>2. \A i \in 1..Len(batch) : batch[i] = batch[1] + i - 1
    BY <1>1 DEF BatchInv
  <1>3. ASSUME NEW e \in Covered(ThisRequest) PROVE e \in InSeq(batch)
    <2>1. e \in Nat /\ e - batch[1] + 1 \in 1..Len(batch)
      BY <1>1, <1>3
    <2>2. batch[e - batch[1] + 1] = e
      BY <1>1, <1>2, <2>1
    <2> QED BY <1>1, <2>1, <2>2 DEF InSeq
  <1>4. ASSUME NEW e \in InSeq(batch) PROVE e \in Covered(ThisRequest)
    <2>1. PICK i \in 1..Len(batch) : e = batch[i]
      BY <1>1, <1>4 DEF InSeq
    <2> QED BY <1>1, <1>2, <2>1
  <1> QED BY <1>3, <1>4

-----------------------------------------------------------------------------
(* Each action preserves the invariant                                     *)

LEMMA SendKeeps ==
    ASSUME IInv, Send PROVE IInv'
  <1> DEFINE e == accepted + 1
  <1>1. /\ accepted \in Nat /\ e \in Event /\ MaxEvents \in Nat
        /\ events \in Seq(Event) /\ events' = Append(events, e)
    BY SinkAssumption DEF SinkAssumption, IInv, TypeOK, Send, Event
  <1>2. /\ events' \in Seq(Event)
        /\ Len(events) \in Nat /\ Len(events') = Len(events) + 1
        /\ DOMAIN events = 1..Len(events) /\ DOMAIN events' = 1..(Len(events) + 1)
        /\ \A i \in 1..Len(events) : events'[i] = events[i]
        /\ events'[Len(events) + 1] = e
    BY <1>1, AppendProperties, LenProperties, SMT
  <1>3. Left' = Left /\ Left \in Int
    BY <1>1, <1>2 DEF Left, Send
  <1>4. TypeOK'
    BY <1>1, <1>2 DEF IInv, TypeOK, Send, senderVars, history
  <1>5. BufferInv'
    <2>1. Len(events') <= accepted'
      BY <1>1, <1>2 DEF IInv, BufferInv, Send
    <2>2. \A i \in DOMAIN events' : events'[i] = Left' + i
      BY <1>1, <1>2, <1>3 DEF IInv, BufferInv, Left
    <2>3. events' # <<>>
      BY <1>2
    <2> QED BY <2>1, <2>2, <2>3 DEF BufferInv
  <1>6. BatchInv'
    BY <1>3 DEF IInv, BatchInv, Send, senderVars, Sending
  <1>7. RequestInv'
    BY <1>3 DEF IInv, RequestInv, Requests, Older, Send, senderVars, history, Sending
  <1>8. LateInv'
    BY DEF IInv, LateInv, Awaited, ThisRequest, Send, senderVars, history
  <1>9. NothingForgotten'
    <2> SUFFICES ASSUME NEW d \in 1..accepted'
                 PROVE  \/ d \in InSeq(events') \union InSeq(batch') \union lost'
                        \/ \E r \in received' : d \in Covered(r)
      BY DEF NothingForgotten
    <2>1. batch' = batch /\ lost' = lost /\ received' = received /\ accepted' = accepted + 1
      BY DEF Send, senderVars, history
    <2>2. InSeq(events) \subseteq InSeq(events') /\ e \in InSeq(events')
      BY <1>2 DEF InSeq
    <2>3. d \in 1..accepted \/ d = e
      BY <1>1, <2>1
    <2> QED BY <2>1, <2>2, <2>3 DEF IInv, NothingForgotten
  <1> QED BY <1>4, <1>5, <1>6, <1>7, <1>8, <1>9 DEF IInv

LEMMA TickKeeps ==
    ASSUME IInv, Tick PROVE IInv'
  BY DEF IInv, TypeOK, BufferInv, BatchInv, RequestInv, LateInv, NothingForgotten,
         Left, Sending, Requests, Older, Awaited, Tick, history

(* What is copied was accepted after everything that had left the buffer.  *)
LEMMA CopyKeeps ==
    ASSUME IInv, CopyEvents PROVE IInv'
  <1>1. /\ accepted \in Nat /\ events \in Seq(Event) /\ events # <<>>
        /\ Len(events) \in Nat \ {0} /\ DOMAIN events = 1..Len(events)
        /\ sender = "copy" /\ sender' = "send" /\ batch' = events /\ events' = <<>>
        /\ n' = 1 /\ accepted' = accepted
    BY LenProperties, EmptySeq, SMT
       DEF IInv, TypeOK, BufferInv, CopyEvents
  <1>2. /\ Left \in Int /\ Left' = accepted /\ Left <= accepted
        /\ Left = accepted - Len(events)
    BY <1>1 DEF Left
  <1>3. \A i \in 1..Len(events) : events[i] = Left + i
    BY <1>1 DEF IInv, BufferInv
  <1>4. TypeOK'
    BY <1>1, SinkAssumption DEF SinkAssumption, IInv, TypeOK, CopyEvents, history
  <1>5. BufferInv'
    BY <1>1 DEF BufferInv
  <1>6. BatchInv'
    BY <1>1, <1>2, <1>3 DEF BatchInv, Sending
  <1>7. RequestInv'
    <2>1. Requests' = Requests /\ net' = net /\ received' = received
      BY DEF Requests, CopyEvents, history
    <2>2. ASSUME NEW r \in Requests
          PROVE  r.first <= r.last /\ r.last <= Left' /\ Older(r)'
      <3>1. r \in Request /\ r.first <= r.last /\ r.last <= Left
        BY <2>2 DEF IInv, TypeOK, RequestInv, Requests
      <3>2. r.last \in Int
        BY <3>1 DEF Request, Event
      <3>3. r.last < batch'[1]
        BY <1>1, <1>2, <1>3, <3>1, <3>2
      <3> QED BY <1>2, <3>1, <3>2, <3>3, <1>1 DEF Older
    <2> QED BY <2>1, <2>2 DEF IInv, RequestInv
  <1>8. LateInv'
    BY DEF IInv, LateInv, Awaited, CopyEvents, history
  <1>9. NothingForgotten'
    <2>1. ~Sending
      BY <1>1 DEF Sending
    <2>2. InSeq(batch) = {}
      BY <2>1, EmptySeq DEF IInv, BatchInv, InSeq
    <2> QED BY <1>1, <2>2 DEF IInv, NothingForgotten, CopyEvents, history
  <1> QED BY <1>4, <1>5, <1>6, <1>7, <1>8, <1>9 DEF IInv

-----------------------------------------------------------------------------
(* The requests there are and the one that is made of the batch            *)

LEMMA RequestsWithThis ==
    ASSUME IInv, Sending,
           NEW q \in Requests \union {ThisRequest}, NEW r \in Requests \union {ThisRequest}
    PROVE  /\ r \in Request
           /\ r.first <= r.last /\ r.last <= Left
           /\ Queue!Same(q, r) \/ Queue!Apart(q, r)
  <1>1. /\ Len(batch) \in Nat \ {0}
        /\ batch[1] \in Event /\ batch[Len(batch)] \in Event
        /\ batch[Len(batch)] = batch[1] + Len(batch) - 1
        /\ batch[Len(batch)] <= Left
        /\ ThisRequest \in Request
        /\ ThisRequest.first = batch[1] /\ ThisRequest.last = batch[Len(batch)]
    BY BatchFacts DEF IInv
  <1>2. \A s \in Requests : s \in Request
    BY DEF IInv, TypeOK, Requests
  <1>3. \A s \in Request : s.first \in Nat /\ s.last \in Nat
    BY SinkAssumption DEF Request, Event, SinkAssumption
  <1>4. ThisRequest.first <= ThisRequest.last /\ ThisRequest.last <= Left
    BY <1>1, <1>3
  <1>5. ASSUME NEW s \in Requests
        PROVE  /\ Queue!Same(s, ThisRequest) \/ Queue!Apart(s, ThisRequest)
               /\ Queue!Same(ThisRequest, s) \/ Queue!Apart(ThisRequest, s)
    <2>1. s.last < batch[1] \/ (s.first = batch[1] /\ s.last = batch[Len(batch)])
      BY DEF IInv, RequestInv, Older
    <2> QED BY <1>1, <2>1 DEF Queue!Same, Queue!Apart
  <1>6. Queue!Same(ThisRequest, ThisRequest)
    BY DEF Queue!Same
  <1>7. r \in Request
    BY <1>1, <1>2
  <1>8. r.first <= r.last /\ r.last <= Left
    BY <1>4 DEF IInv, RequestInv
  <1>9. Queue!Same(q, r) \/ Queue!Apart(q, r)
    BY <1>5, <1>6 DEF IInv, RequestInv
  <1> QED BY <1>7, <1>8, <1>9

(* What the buffer accepted stays where it can be found.                   *)
LEMMA StillFound ==
    ASSUME NothingForgotten, accepted' = accepted,
           InSeq(events) \union InSeq(batch) \union lost
               \subseteq InSeq(events') \union InSeq(batch') \union lost',
           received \subseteq received'
    PROVE  NothingForgotten'
  BY DEF NothingForgotten

LEMMA PostKeeps ==
    ASSUME IInv, Post PROVE IInv'
  <1> Sending
    BY DEF Post, Sending
  <1>1. /\ ThisRequest \in Request
        /\ ThisRequest = [first |-> batch[1], last |-> batch[Len(batch)], n |-> n]
        /\ batch[1] \in Event /\ batch[Len(batch)] \in Event
        /\ n \in Nat /\ n \in 1..Retries
    BY BatchFacts, SinkAssumption DEF IInv, TypeOK, SinkAssumption
  <1>2. /\ sender = "send" /\ sender' = "wait"
        /\ UNCHANGED <<accepted, events, batch, n, received, abandoned, lost, crashes>>
        /\ Left' = Left /\ ThisRequest' = ThisRequest
        /\ net' = net \union {ThisRequest}
        /\ Requests' = Requests \union {ThisRequest}
    BY DEF Post, history, Left, ThisRequest, Requests
  <1>3. TypeOK'
    BY <1>1, <1>2 DEF IInv, TypeOK
  <1>4. BufferInv'
    BY <1>2 DEF IInv, BufferInv
  <1>5. BatchInv'
    BY <1>2 DEF IInv, BatchInv, Sending
  <1>6. RequestInv'
    <2>1. ASSUME NEW r \in Requests' PROVE r.first <= r.last /\ r.last <= Left' /\ Older(r)'
      <3>1. CASE r = ThisRequest
        BY <1>1, <1>2, <3>1, RequestsWithThis DEF Older
      <3>2. CASE r \in Requests
        BY <1>2, <3>2 DEF IInv, RequestInv, Older, Sending
      <3> QED BY <1>2, <2>1, <3>1, <3>2
    <2>2. \A q, r \in Requests' : Queue!Same(q, r) \/ Queue!Apart(q, r)
      BY <1>2, RequestsWithThis
    <2>3. ThisRequest \notin received
      <3> SUFFICES ASSUME ThisRequest \in received PROVE FALSE
        OBVIOUS
      <3>1. Older(ThisRequest)
        BY DEF IInv, RequestInv, Requests
      <3>2. batch[1] \in Nat /\ batch[Len(batch)] \in Nat
        BY <1>1, SinkAssumption DEF Event, SinkAssumption
      <3>3. batch[1] <= batch[Len(batch)]
        BY <1>1, RequestsWithThis
      <3> QED BY <1>1, <1>2, <3>1, <3>2, <3>3 DEF Older
    <2> QED BY <1>2, <2>1, <2>2, <2>3 DEF IInv, RequestInv
  <1>7. LateInv'
    BY <1>2 DEF IInv, LateInv, Awaited
  <1>8. NothingForgotten'
    BY <1>2, StillFound DEF IInv
  <1> QED BY <1>3, <1>4, <1>5, <1>6, <1>7, <1>8 DEF IInv

(* A try that failed, and the batch given up after the last one: what      *)
(* there is of the request may be among the requests given up, or not.     *)
LEMMA TryAgainKeeps ==
    ASSUME IInv, Sending, TryAgain,
           abandoned' = abandoned \/ (sender = "wait" /\ abandoned' = abandoned \union {ThisRequest}),
           sender = "wait" => abandoned' = abandoned \union {ThisRequest},
           UNCHANGED <<accepted, events, net, received, crashes>>
    PROVE  IInv'
  <1>1. /\ ThisRequest \in Request
        /\ ThisRequest = [first |-> batch[1], last |-> batch[Len(batch)], n |-> n]
        /\ batch[1] \in Event /\ batch[Len(batch)] \in Event
        /\ n \in Nat /\ n \in 1..Retries /\ Retries \in Nat \ {0}
        /\ batch \in Seq(Event) /\ batch # <<>>
    BY BatchFacts, SinkAssumption DEF IInv, TypeOK, BatchInv, SinkAssumption
  <1>2. /\ Left' = Left
        /\ Requests' \subseteq Requests \union {ThisRequest}
    BY DEF Left, Requests
  <1>3. \/ /\ n < Retries /\ n' = n + 1 /\ sender' = "send"
           /\ batch' = batch /\ lost' = lost
        \/ /\ sender' = "idle" /\ batch' = <<>> /\ n' = 1
           /\ lost' = lost \union InSeq(batch)
    BY DEF TryAgain, Done
  <1>4. InSeq(batch) \subseteq Event
    BY <1>1, ElementOfSeq, LenProperties DEF InSeq
  <1>5. TypeOK'
    <2>1. abandoned' \in SUBSET Request
      BY <1>1 DEF IInv, TypeOK
    <2>2. lost' \in SUBSET Event /\ batch' \in Seq(Event)
      BY <1>1, <1>3, <1>4, EmptySeq DEF IInv, TypeOK
    <2>3. n' \in 1..Retries /\ sender' \in {"idle", "copy", "send", "wait"}
      BY <1>1, <1>3
    <2> QED BY <2>1, <2>2, <2>3 DEF IInv, TypeOK
  <1>6. BufferInv'
    BY <1>2, <1>3 DEF IInv, BufferInv
  <1>7. BatchInv'
    BY <1>1, <1>2, <1>3 DEF IInv, BatchInv, Sending
  <1>8. RequestInv'
    <2>1. ASSUME NEW r \in Requests' PROVE Older(r)'
      <3>1. CASE sender' = "idle"
        BY <3>1 DEF Older, Sending
      <3>2. CASE r \in Requests /\ sender' # "idle"
        <4>1. r \in Request /\ Older(r)
          BY <3>2 DEF IInv, TypeOK, RequestInv, Requests
        <4>2. r.n \in Nat
          BY <4>1, <1>1 DEF Request
        <4> QED BY <1>1, <1>3, <3>2, <4>1, <4>2 DEF Older
      <3>3. CASE r = ThisRequest /\ sender' # "idle"
        BY <1>1, <1>3, <3>3 DEF Older
      <3> QED BY <1>2, <2>1, <3>1, <3>2, <3>3
    <2>2. ASSUME NEW r \in Requests' PROVE r.first <= r.last /\ r.last <= Left'
      BY <1>2, <2>2, RequestsWithThis
    <2>3. \A q, r \in Requests' : Queue!Same(q, r) \/ Queue!Apart(q, r)
      BY <1>2, RequestsWithThis
    <2> QED BY <2>1, <2>2, <2>3 DEF IInv, RequestInv
  <1>9. LateInv'
    BY DEF IInv, LateInv, Awaited, Sending
  <1>10. NothingForgotten'
    BY <1>3, StillFound DEF IInv
  <1> QED BY <1>5, <1>6, <1>7, <1>8, <1>9, <1>10 DEF IInv

LEMMA FailureKeeps ==
    ASSUME IInv, ConnectFails \/ NoAnswer PROVE IInv'
  <1>1. CASE ConnectFails
    BY <1>1, TryAgainKeeps DEF ConnectFails, Sending
  <1>2. CASE NoAnswer
    BY <1>2, TryAgainKeeps DEF NoAnswer, Sending
  <1> QED BY <1>1, <1>2

(* What is answered has been received, so none of it is forgotten, and it  *)
(* is not on its way any more.                                             *)
LEMMA AnsweredKeeps ==
    ASSUME IInv, Answered PROVE IInv'
  <1> Sending
    BY DEF Answered, Sending
  <1>1. /\ ThisRequest \in received /\ sender' = "idle" /\ batch' = <<>> /\ n' = 1
        /\ UNCHANGED <<accepted, events, net, received, abandoned, lost, crashes>>
        /\ Left' = Left /\ Requests' = Requests
    BY DEF Answered, Done, history, Left, Requests
  <1>2. TypeOK'
    BY <1>1, SinkAssumption, EmptySeq DEF IInv, TypeOK, SinkAssumption
  <1>3. BufferInv' /\ BatchInv'
    BY <1>1 DEF IInv, BufferInv, BatchInv, Sending
  <1>4. RequestInv'
    BY <1>1 DEF IInv, RequestInv, Older, Sending
  <1>5. LateInv'
    BY <1>1 DEF IInv, LateInv, RequestInv, Awaited
  <1>6. NothingForgotten'
    <2>1. InSeq(batch) = Covered(ThisRequest)
      BY CoveredBatch DEF IInv
    <2> QED BY <1>1, <2>1 DEF IInv, NothingForgotten
  <1> QED BY <1>2, <1>3, <1>4, <1>5, <1>6 DEF IInv

LEMMA NetworkKeeps ==
    ASSUME IInv, NEW r \in net, Receive(r) \/ LoseRequest(r) PROVE IInv'
  <1>1. /\ UNCHANGED <<accepted, events, sender, batch, n, abandoned, lost, crashes>>
        /\ net' = net \ {r}
        /\ received' = received \/ received' = received \union {r}
        /\ Left' = Left /\ Requests' \subseteq Requests /\ ThisRequest' = ThisRequest
    BY DEF Receive, LoseRequest, senderVars, history, Left, Requests, ThisRequest
  <1>2. TypeOK'
    BY <1>1 DEF IInv, TypeOK
  <1>3. BufferInv' /\ BatchInv'
    BY <1>1 DEF IInv, BufferInv, BatchInv, Sending
  <1>4. RequestInv'
    BY <1>1 DEF IInv, RequestInv, Older, Sending
  <1>5. LateInv'
    BY <1>1 DEF IInv, LateInv, Awaited
  <1>6. NothingForgotten'
    BY <1>1, StillFound DEF IInv
  <1> QED BY <1>2, <1>3, <1>4, <1>5, <1>6 DEF IInv

LEMMA CrashKeeps ==
    ASSUME IInv, Crash PROVE IInv'
  <1>1. /\ crashes < MaxCrashes /\ crashes' = crashes + 1
        /\ events' = <<>> /\ sender' = "idle" /\ batch' = <<>> /\ n' = 1
        /\ lost' = lost \union InSeq(events) \union InSeq(batch)
        /\ UNCHANGED <<accepted, net, received>>
    BY DEF Crash, Done
  <1>2. /\ events \in Seq(Event) /\ batch \in Seq(Event) /\ accepted \in Nat
        /\ crashes \in Nat /\ MaxCrashes \in Nat /\ Retries \in Nat \ {0}
    BY SinkAssumption DEF IInv, TypeOK, SinkAssumption
  <1>3. InSeq(events) \subseteq Event /\ InSeq(batch) \subseteq Event
    BY <1>2, ElementOfSeq, LenProperties DEF InSeq
  <1>4. /\ Len(events) \in Nat /\ Len(events') = 0
        /\ Left' = accepted /\ Left <= Left' /\ Left \in Int
    BY <1>1, <1>2, LenProperties DEF Left
  <1>5. /\ sender = "wait" => Sending /\ abandoned' = abandoned \union {ThisRequest}
        /\ sender # "wait" => abandoned' = abandoned
    BY DEF Crash, Sending
  <1>6. abandoned' \in SUBSET Request
    BY <1>5, RequestsWithThis DEF IInv, TypeOK
  <1>7. TypeOK'
    BY <1>1, <1>2, <1>3, <1>6, EmptySeq DEF IInv, TypeOK
  <1>8. BufferInv' /\ BatchInv'
    BY <1>1, <1>2, <1>4 DEF BufferInv, BatchInv, Sending
  <1>9. RequestInv'
    <2>1. \A r \in Requests' : Older(r)'
      BY <1>1 DEF Older, Sending
    <2>2. CASE sender = "wait"
      <3>1. Requests' = Requests \union {ThisRequest}
        BY <1>1, <1>5, <2>2 DEF Requests
      <3>2. ASSUME NEW r \in Requests' PROVE r.first <= r.last /\ r.last <= Left'
        <4>1. r \in Request /\ r.first <= r.last /\ r.last <= Left
          BY <1>5, <2>2, <3>1, <3>2, RequestsWithThis
        <4>2. r.last \in Int
          BY <4>1 DEF Request, Event
        <4> QED BY <1>4, <1>2, <4>1, <4>2
      <3>3. \A q, r \in Requests' : Queue!Same(q, r) \/ Queue!Apart(q, r)
        BY <1>5, <2>2, <3>1, RequestsWithThis
      <3> QED BY <1>1, <2>1, <3>2, <3>3 DEF IInv, RequestInv
    <2>3. CASE sender # "wait"
      <3>1. Requests' = Requests
        BY <1>1, <1>5, <2>3 DEF Requests
      <3>2. ASSUME NEW r \in Requests PROVE r.first <= r.last /\ r.last <= Left'
        <4>1. r \in Request /\ r.first <= r.last /\ r.last <= Left
          BY DEF IInv, TypeOK, RequestInv, Requests
        <4>2. r.last \in Int
          BY <4>1 DEF Request, Event
        <4> QED BY <1>4, <1>2, <4>1, <4>2
      <3> QED BY <1>1, <2>1, <3>1, <3>2 DEF IInv, RequestInv
    <2> QED BY <2>2, <2>3
  <1>10. LateInv'
    BY <1>1, <1>5 DEF IInv, LateInv, Awaited
  <1>11. NothingForgotten'
    BY <1>1, StillFound DEF IInv
  <1> QED BY <1>7, <1>8, <1>9, <1>10, <1>11 DEF IInv

-----------------------------------------------------------------------------
(* The invariant                                                           *)

LEMMA InitHasIInv == Init => IInv
  <1> SUFFICES ASSUME Init PROVE IInv
    OBVIOUS
  <1>1. TypeOK
    BY SinkAssumption, EmptySeq DEF SinkAssumption, Init, TypeOK
  <1>2. BufferInv /\ BatchInv
    BY DEF Init, BufferInv, BatchInv, Sending
  <1>3. RequestInv /\ LateInv
    BY DEF Init, RequestInv, LateInv, Requests
  <1>4. NothingForgotten
    BY DEF Init, NothingForgotten
  <1> QED BY <1>1, <1>2, <1>3, <1>4 DEF IInv

LEMMA NextKeepsIInv == IInv /\ [Next]_vars => IInv'
  <1> SUFFICES ASSUME IInv, [Next]_vars PROVE IInv'
    OBVIOUS
  <1>1. CASE Send
    BY <1>1, SendKeeps
  <1>2. CASE SendAll
    BY <1>2, TickKeeps, CopyKeeps, PostKeeps, FailureKeeps, AnsweredKeeps DEF SendAll
  <1>3. CASE \E r \in net : Receive(r) \/ LoseRequest(r)
    BY <1>3, NetworkKeeps
  <1>4. CASE Crash
    BY <1>4, CrashKeeps
  <1>5. CASE UNCHANGED vars
    BY <1>5 DEF vars, senderVars, history, IInv, TypeOK, BufferInv, BatchInv, RequestInv,
                LateInv, NothingForgotten, Left, Sending, Requests, Older, Awaited, ThisRequest
  <1> QED BY <1>1, <1>2, <1>3, <1>4, <1>5 DEF Next

(* The inductive invariant: buffer, batch and requests fit together        *)
(* (flume.go:45-98).                                                       *)
THEOREM Invariance == Spec => []IInv
  BY InitHasIInv, NextKeepsIInv, PTL DEF Spec

-----------------------------------------------------------------------------
(* What follows from it                                                    *)

LEMMA IInvBoundsCopies == IInv => CopiesBounded
  <1> SUFFICES ASSUME IInv, NEW e \in Event
               PROVE  Cardinality({r \in received : e \in Covered(r)}) <= Retries
    BY DEF CopiesBounded
  <1> DEFINE S == {r \in received : e \in Covered(r)}
             f == [r \in S |-> r.n]
  <1>1. Retries \in Nat \ {0}
    BY SinkAssumption DEF SinkAssumption
  <1>2. \A r \in S : r \in Request /\ r \in Requests /\ r.first <= e /\ e <= r.last
    BY DEF IInv, TypeOK, Requests, Covered
  <1>3. \A r \in Request : r.first \in Nat /\ r.last \in Nat /\ r.n \in 1..Retries
    BY SinkAssumption DEF Request, Event, SinkAssumption
  <1>4. f \in [S -> 1..Retries]
    BY <1>2, <1>3
  <1>5. ASSUME NEW q \in S, NEW r \in S, q.n = r.n PROVE q = r
    <2>1. Queue!Same(q, r) \/ Queue!Apart(q, r)
      BY <1>2 DEF IInv, RequestInv
    <2>2. e \in Nat
      BY SinkAssumption DEF Event, SinkAssumption
    <2>3. q.first = r.first /\ q.last = r.last
      BY <1>2, <1>3, <2>1, <2>2 DEF Queue!Same, Queue!Apart
    <2> QED BY <1>2, <1>5, <2>3 DEF Request
  <1>6. f \in Injection(S, 1..Retries)
    BY <1>4, <1>5 DEF Injection, IsInjective
  <1>7. IsFiniteSet(1..Retries) /\ Cardinality(1..Retries) = Retries
    BY <1>1, FS_Interval
  <1> HIDE DEF f
  <1>8. Cardinality(S) <= Cardinality(1..Retries)
    BY <1>6, <1>7, FS_Injection
  <1> QED BY <1>7, <1>8

(* No event is received more often than it is sent by its one batch        *)
(* (flume.go:67-83).                                                       *)
THEOREM CopiesAreBounded == Spec => []CopiesBounded
  BY Invariance, IInvBoundsCopies, PTL

(* No accepted event falls between the buffer and the copy of it           *)
(* (flume.go:94-97).                                                       *)
THEOREM NothingIsForgotten == Spec => []NothingForgotten
  <1>1. IInv => NothingForgotten
    BY DEF IInv
  <1> QED BY <1>1, Invariance, PTL

(* Who receives a request that was not given up receives it in order: it   *)
(* is the one that is awaited, and the others are older.                   *)
LEMMA StepReceives ==
    ASSUME IInv, [Next]_vars
    PROVE  received' = received \/ \E r \in net : Receive(r)
  <1>1. CASE Next
    BY <1>1 DEF Next, Send, SendAll, Tick, CopyEvents, Post, ConnectFails, NoAnswer,
                Answered, LoseRequest, Crash
  <1>2. CASE UNCHANGED vars
    BY <1>2 DEF vars
  <1> QED BY <1>1, <1>2

THEOREM LateOnlyWhenAbandoned == Spec => LateOnlyIfAbandoned
  <1> DEFINE InOrder == \A r \in received' \ received :
                           r \notin abandoned => \A q \in received : q.first <= r.first
  <1>1. ASSUME IInv, [Next]_vars PROVE InOrder
    <2> SUFFICES ASSUME NEW r \in received' \ received, r \notin abandoned,
                        NEW q \in received
                 PROVE  q.first <= r.first
      OBVIOUS
    <2>1. r \in net
      BY <1>1, StepReceives DEF Receive
    <2>2. Sending /\ r = ThisRequest /\ sender = "wait"
      BY <1>1, <2>1 DEF IInv, LateInv, Awaited, Sending
    <2>3. batch[1] \in Event /\ r.first = batch[1]
      BY <1>1, <2>2, BatchFacts DEF IInv
    <2>4. /\ q \in Request /\ q.first <= q.last
          /\ q.last < batch[1] \/ q.first = batch[1]
      BY <1>1, <2>2 DEF IInv, TypeOK, RequestInv, Requests, Older
    <2> QED BY <2>3, <2>4, SinkAssumption DEF Request, Event, SinkAssumption
  <1>2. IInv /\ [Next]_vars => [InOrder]_vars
    BY <1>1
  <1> QED BY <1>2, Invariance, PTL DEF Spec, LateOnlyIfAbandoned

-----------------------------------------------------------------------------
(* The buffer and its sender implement EventQueue                          *)

LEMMA InitMeetsContract == Init => Queue!Init
  <1> SUFFICES ASSUME Init PROVE Queue!Init
    OBVIOUS
  <1>1. events = <<>> /\ accepted = 0 /\ received = {}
    BY DEF Init
  <1>2. Len(events) = 0
    BY <1>1, EmptySeq
  <1>3. accepted = 0
    BY <1>1
  <1>4. accepted - Len(events) = 0
    BY <1>2, <1>3
  <1> QED BY <1>1, <1>4 DEF Queue!Init

LEMMA StepMeetsContract == IInv /\ [Next]_vars => [Queue!Next]_(Queue!queueVars)
  <1> SUFFICES ASSUME IInv, [Next]_vars PROVE [Queue!Next]_(Queue!queueVars)
    OBVIOUS
  <1> USE DEF Queue!queueVars, Queue!Next
  <1>1. CASE Send
    <2>1. /\ accepted \in Nat /\ events \in Seq(Event) /\ accepted + 1 \in Event
      BY <1>1, SinkAssumption DEF SinkAssumption, IInv, TypeOK, Send, Event
    <2>2. Len(events') = Len(events) + 1 /\ Len(events) \in Nat
      BY <1>1, <2>1, AppendProperties, LenProperties DEF Send
    <2>3. accepted' - Len(events') = accepted - Len(events)
      BY <1>1, <2>1, <2>2 DEF Send
    <2>4. Queue!Accept
      BY <1>1, <2>3 DEF Send, Queue!Accept
    <2> QED BY <2>4
  <1>2. CASE CopyEvents \/ Crash
    <2>1. events' = <<>> /\ accepted' = accepted /\ received' = received /\ accepted \in Nat
      BY <1>2, SinkAssumption DEF CopyEvents, Crash, IInv, TypeOK, SinkAssumption
    <2>2. accepted' - Len(events') = accepted
      BY <2>1
    <2>3. Queue!Take
      BY <2>1, <2>2 DEF Queue!Take
    <2> QED BY <2>3
  <1>3. CASE \E r \in net : Receive(r)
    <2>1. PICK r \in net : Receive(r)
      BY <1>3
    <2>2. /\ r \in Request /\ r \in Requests /\ r \notin received
          /\ received' = received \union {r}
          /\ accepted' = accepted /\ events' = events
      BY <2>1 DEF IInv, TypeOK, Requests, RequestInv, Receive
    <2>3. /\ r.first <= r.last /\ r.last <= accepted - Len(events)
          /\ \A q \in received : Queue!Same(q, r) \/ Queue!Apart(q, r)
      BY <2>2 DEF IInv, RequestInv, Requests, Left
    <2>4. Queue!Arrive(r)
      BY <2>2, <2>3 DEF Queue!Arrive
    <2> QED BY <2>2, <2>4 DEF Request, Event
  <1>4. CASE \/ Tick \/ Post \/ ConnectFails \/ NoAnswer \/ Answered
             \/ \E r \in net : LoseRequest(r)
    BY <1>4 DEF Tick, Post, ConnectFails, NoAnswer, Answered, LoseRequest
  <1>5. CASE UNCHANGED vars
    BY <1>5 DEF vars
  <1> QED BY <1>1, <1>2, <1>3, <1>4, <1>5 DEF Next, SendAll

(* The two buffers keep the contract of EventQueue: batches whole, none    *)
(* that overlap, and each a bounded number of times.                       *)
THEOREM KeepsContract == Spec => Contract
  BY InitMeetsContract, StepMeetsContract, Invariance, PTL DEF Spec, Contract, Queue!Spec
=============================================================================
