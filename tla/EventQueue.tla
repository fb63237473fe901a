----------------------------- MODULE EventQueue -----------------------------
(***************************************************************************)
(* What the buffers of flume and hbase promise, without timers, tries and  *)
(* answers: events are numbered as they are accepted and leave the buffer  *)
(* all at once, in order or forgotten in a crash.  Events arrive in        *)
(* batches, as they left: two arrivals have the same events or none in     *)
(* common, and a batch arrives Retries times at most.  EventSink           *)
(* implements this.                                                        *)
(***************************************************************************)
EXTENDS Naturals

CONSTANTS Retries, MaxEvents

VARIABLES
    accepted,   \* events accepted
    taken,      \* events that have left the buffer
    arrived     \* requests that have arrived

queueVars == <<accepted, taken, arrived>>

Init == accepted = 0 /\ taken = 0 /\ arrived = {}

Accept ==
    /\ accepted < MaxEvents
    /\ accepted' = accepted + 1
    /\ UNCHANGED <<taken, arrived>>

Take ==
    /\ taken' = accepted
    /\ UNCHANGED <<accepted, arrived>>

Same(q, r) == q.first = r.first /\ q.last = r.last
Apart(q, r) == q.last < r.first \/ r.last < q.first

Arrive(r) ==
    /\ r.first <= r.last /\ r.last <= taken
    /\ \A q \in arrived : Same(q, r) \/ Apart(q, r)
    /\ r \notin arrived
    /\ arrived' = arrived \union {r}
    /\ UNCHANGED <<accepted, taken>>

Next ==
    \/ Accept
    \/ Take
    \/ \E r \in [first : 1..MaxEvents, last : 1..MaxEvents, n : 1..Retries] : Arrive(r)

Spec == Init /\ [][Next]_queueVars
=============================================================================
