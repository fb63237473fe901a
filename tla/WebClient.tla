----------------------------- MODULE WebClient -----------------------------
(***************************************************************************)
(* The web pages of the service (site/app.js, site/app-qr.js) and the      *)
(* sessions behind /submit.  A page polls by callback: the answer to one   *)
(* request decides the next, and a question of a session is a form that    *)
(* the user may send, or leave, or send again.  One global, id, holds the  *)
(* session of the last answer; the globals with the credentials are those  *)
(* of the last press of the button.                                        *)
(*                                                                         *)
(* A session is seen from outside: it asks, goes on, and ends once; a      *)
(* request waits in its handler until there is a message (TaskSession has  *)
(* the inside).  Session k is the one that the k-th press starts.          *)
(***************************************************************************)
EXTENDS Naturals, Sequences, FiniteSets

CONSTANTS
    Pages,       \* the pages that are opened: "app", "qr"
    Codes,       \* what the sessions ask for
    MaxCrawls,   \* bound: presses of the button
    MaxSends,    \* bound: forms the user sends
    MaxTimeouts, \* bound: requests the page gives up
    MaxSays      \* bound: messages of the sessions between their first and last

ASSUME ClientAssumption ==
    /\ Pages \subseteq {"app", "qr"}
    /\ Codes \subseteq {"image", "password2", "phone", "tradecode"}
    /\ {MaxCrawls, MaxSends, MaxTimeouts, MaxSays} \subseteq Nat

Sessions == 1..MaxCrawls

(* What a session asks the user for.  The statuses of its messages are     *)
(* these and "publickey", "qrcode", "progress" (in_crawling, login_success *)
(* and begin_fetch_data), "over" (finish_fetch_data and fail) and          *)
(* "strange", every status that neither page knows, as need_send_sms.      *)
Param == Codes \union {"credentials"}

Blank == [kind |-> "none", of |-> 0, no |-> 0, sent |-> FALSE]   \* no form

NoData == [asked |-> [k \in Codes |-> 0], input |-> <<>>, args |-> {}]

VARIABLES
    page,      \* the page
    id,        \* its global id (0: empty)
    presses,   \* how often the button has been pressed
    typed,     \* the press its global credentials are of
    form,      \* the form it shows: kind, session and number of the question,
               \* and whether the user has sent it
    open,      \* the requests it waits for, by their numbers
    sends,     \* forms the user has sent
    timeouts,  \* requests the page has given up
    held,      \* requests in their handlers
    back,      \* answers on their way to the page
    cache,     \* the sessions in the command cache
    stage,     \* what each session waits for, or "work", "none", "over", "closed"
    queue,     \* its messages
    data,      \* what it keeps as it runs: the questions it has asked, and its
               \* parameters not read yet (input) or read (args)
    says,      \* messages of the sessions between their first and last
    used,      \* history: parameters used for another question than their own
    told,      \* history: sessions whose end the page knows
    odd        \* history: what was out of the ordinary, and in which session

pageVars == <<page, id, presses, typed, form, open, sends, timeouts>>
netVars == <<held, back>>
sessionVars == <<cache, stage, queue, data, says, used>>
histVars == <<told, odd>>
vars == <<pageVars, netVars, sessionVars, histVars>>

Init ==
    /\ page \in Pages
    /\ id = 0 /\ presses = 0 /\ typed = 0 /\ form = Blank
    /\ open = {} /\ sends = 0 /\ timeouts = 0
    /\ held = {} /\ back = {}
    /\ stage = [s \in Sessions |-> "none"]
    /\ cache = {}
    /\ queue = [s \in Sessions |-> <<>>]
    /\ data = [s \in Sessions |-> NoData]
    /\ says = 0
    /\ used = {}
    /\ told = {} /\ odd = {}

-----------------------------------------------------------------------------
(* The pages                                                               *)

(* Which answers a page follows with a request of its own, and which it    *)
(* makes a form of.                                                        *)
BadAppPolls == {}      \* wrong on purpose
AppPolls == {"progress"}
AppForms == {"image", "password2", "phone"}
QrPolls == {"progress", "publickey", "qrcode"}
QrForms == {"password2", "phone", "tradecode"}
Polls == IF page = "app" THEN AppPolls ELSE QrPolls
Forms == IF page = "app" THEN AppForms ELSE QrForms

(* $.ajax and Process: request r to session r.to, which it creates or to   *)
(* which it brings what the user typed for question r.no of session        *)
(* r.from, and then it waits for a message.  It is at the server at once:  *)
(* one that is late meets what it would meet if it were sent later.        *)
(* answered is the request whose answer the page has just got, if any.     *)
Ajax(answered, r) ==
    LET left == back \ {b \in back : b.n \in answered}
        flying == {x.n : x \in held \union left}
        n == CHOOSE i \in 1..Cardinality(flying) + 1 : i \notin flying
        s == r.to
    IN
    /\ open' = (open \ answered) \union {n}
    /\ \/ /\ r.says # "crawl" /\ s \notin cache
          /\ back' = left \union {[n |-> n, to |-> s, status |-> "gone", no |-> 0]}
          /\ UNCHANGED <<held, cache, stage, queue, data>>
       \/ /\ r.says # "crawl" /\ s \in cache
          /\ held' = held \union {[n |-> n, to |-> s, says |-> r.says]}
          /\ back' = left
          /\ data' = IF stage[s] = "over" \/ r.says = "nothing" THEN data
                     ELSE [data EXCEPT ![s].input = Append(@, r)]
          /\ UNCHANGED <<cache, stage, queue>>
       \/ /\ r.says = "crawl"
          /\ held' = held \union {[n |-> n, to |-> s, says |-> r.says]}
          /\ back' = left
          /\ cache' = cache \union {s}
          /\ stage' = [stage EXCEPT ![s] = IF page = "app" THEN "credentials" ELSE "work"]
          /\ queue' = [queue EXCEPT ![s] = <<[status |-> "publickey", no |-> 0]>>]
          /\ UNCHANGED data

Request(s, what, from, no) == [to |-> s, says |-> what, from |-> from, no |-> no]

(* The sessions whose question is taken off the page before it is sent.    *)
Covers(s) == {<<"covered", t>> : t \in IF form.sent THEN {} ELSE {form.of} \ {0, s}}

(* Wrong on purpose: what was typed first is kept.                         *)
BadRemember(k) == typed' = IF typed = 0 THEN k ELSE typed

(* The first lines of crawl: the global credentials are those of press k.  *)
Remember(k) == typed' = k

(* crawl: the globals are overwritten before the fields are looked at, and *)
(* an empty one is only reported.                                          *)
Crawl ==
    /\ presses < MaxCrawls
    /\ presses' = presses + 1
    /\ Remember(presses + 1)
    /\ \/ /\ form' = Blank
          /\ odd' = odd \union Covers(0)
          /\ Ajax({}, Request(presses + 1, "crawl", presses + 1, 0))
       \/ /\ page = "app"
          /\ UNCHANGED <<form, odd, open, netVars, cache, stage, queue, data>>
    /\ UNCHANGED <<page, id, sends, timeouts, says, used, told>>

(* sendRandcode, sendPassword2, sendPhone and sendTradecode: what the user *)
(* typed goes to the session of the last answer.  The form stays.          *)
Send ==
    /\ form # Blank /\ id # 0
    /\ sends < MaxSends
    /\ sends' = sends + 1
    /\ Ajax({}, Request(id, form.kind, form.of, form.no))
    /\ form' = [form EXCEPT !.sent = TRUE]
    /\ odd' = odd \union (IF id # form.of THEN {"crossed"} \X {id, form.of} ELSE {})
                  \union (IF form.sent THEN {<<"again", id>>} ELSE {})
    /\ UNCHANGED <<page, id, presses, typed, timeouts, says, used, told>>

(* Wrong on purpose: the messages of an action carry no id.                *)
BadNewId(b) == IF b.status \in {"gone"} \union Forms THEN 0 ELSE b.to

(* An answer of no session has an empty id.                                *)
NewId(b) == IF b.status = "gone" THEN 0 ELSE b.to

(* The success callback.                                                   *)
Success(b) ==
    /\ b \in back
    /\ id' = NewId(b)
    /\ LET s == b.to
           Last == /\ open' = open \ {b.n} /\ back' = back \ {b}
                   /\ UNCHANGED <<held, cache, stage, queue, data>>
       IN
       CASE b.status = "publickey" /\ page = "app" ->
                 /\ Ajax({b.n}, Request(s, "credentials", typed, 0))
                 /\ UNCHANGED <<form, histVars>>
         [] b.status \in Polls ->
                 /\ Ajax({b.n}, Request(s, "nothing", s, 0))
                 /\ IF b.status = "qrcode"
                    THEN form' = Blank /\ odd' = odd \union Covers(s)
                    ELSE UNCHANGED <<form, odd>>
                 /\ UNCHANGED told
         [] b.status \in Forms ->
                 /\ Last
                 /\ form' = [kind |-> b.status, of |-> s, no |-> b.no, sent |-> FALSE]
                 /\ odd' = odd \union Covers(s)
                 /\ UNCHANGED told
         [] b.status \in {"over", "gone"} ->
                 /\ Last
                 /\ told' = told \union {s}
                 /\ UNCHANGED <<form, odd>>
         [] OTHER ->
                 /\ Last
                 /\ odd' = odd \union (IF b.status = "progress" THEN {} ELSE {<<"unknown", s>>})
                 /\ UNCHANGED <<form, told>>
    /\ UNCHANGED <<page, presses, typed, sends, timeouts, says, used>>

(* The error callback: two minutes without an answer.  The handler of the  *)
(* request does not know, and its answer is lost.                          *)
Timeout(r) ==
    /\ r \in held /\ r.n \in open /\ queue[r.to] = <<>>
    /\ timeouts < MaxTimeouts
    /\ timeouts' = timeouts + 1
    /\ open' = open \ {r.n}
    /\ odd' = odd \union {<<"timeout", r.to>>}
    /\ UNCHANGED <<page, id, presses, typed, form, sends, netVars, sessionVars, told>>

-----------------------------------------------------------------------------
(* The server                                                              *)

(* An answer to a request the page has given up is lost.                   *)
Reply(r, m) == back' = IF r.n \notin open THEN back
                       ELSE back \union {[n |-> r.n, to |-> r.to,
                                          status |-> m.status, no |-> m.no]}

(* Wrong on purpose: a handler waits on when the live time is over.        *)
BadGetMessage(r) ==
    /\ queue[r.to] # <<>>
    /\ queue' = [queue EXCEPT ![r.to] = Tail(@)]
    /\ Reply(r, Head(queue[r.to]))

(* The next message, or a fail when the channel is closed and empty.       *)
GetMessage(r) ==
    \/ /\ queue[r.to] # <<>>
       /\ queue' = [queue EXCEPT ![r.to] = Tail(@)]
       /\ Reply(r, Head(queue[r.to]))
    \/ /\ queue[r.to] = <<>> /\ stage[r.to] = "closed"
       /\ Reply(r, [status |-> "over", no |-> 0])
       /\ UNCHANGED queue

(* Any handler that waits may get the next message; the one that gets the  *)
(* last forgets the session, as long as its request had an id.             *)
Answer(r) ==
    /\ r \in held
    /\ GetMessage(r)
    /\ held' = held \ {r}
    /\ cache' = IF r.says # "crawl" /\ queue[r.to] # <<>>
                   /\ Head(queue[r.to]).status = "over"
                THEN cache \ {r.to} ELSE cache
    /\ UNCHANGED <<pageVars, stage, data, says, used, histVars>>

(* The live time of the session is over: it is closed and forgotten.       *)
Expire(s) ==
    /\ stage[s] \notin {"none", "closed"}
    /\ stage' = [stage EXCEPT ![s] = "closed"]
    /\ cache' = cache \ {s}
    /\ data' = [data EXCEPT ![s] = NoData]
    /\ UNCHANGED <<pageVars, netVars, queue, says, used, histVars>>

-----------------------------------------------------------------------------
(* The sessions                                                            *)

Say(s, status, no, waits) ==
    /\ queue' = [queue EXCEPT ![s] = Append(@, [status |-> status, no |-> no])]
    /\ stage' = [stage EXCEPT ![s] = waits]
    /\ UNCHANGED <<pageVars, netVars, cache, used, histVars>>

(* A question, with a status that a page may not know.  The action that    *)
(* asks again has the old value deleted (delete_context).                  *)
Ask(s) ==
    /\ stage[s] = "work" /\ says < MaxSays
    /\ \E k \in Codes :
          /\ data' = [data EXCEPT ![s].asked[k] = @ + 1,
                            ![s].args = {a \in @ : a.says = k => data[s].asked[k] = 0}]
          /\ says' = says + 1
          /\ \E status \in {k, "strange"} : Say(s, status, data[s].asked[k] + 1, k)

(* A message that asks for nothing; to "app" a qrcode is a strange one.    *)
Tell(s) ==
    /\ stage[s] = "work" /\ says < MaxSays
    /\ says' = says + 1
    /\ UNCHANGED data
    /\ \E status \in {"progress", "strange"} \union (Polls \intersect {"qrcode"}) : Say(s, status, 0, "work")

(* The last message, when the template ends, wherever that is: what run    *)
(* has not read nobody reads any more.                                     *)
End(s) ==
    /\ stage[s] \notin {"none", "over", "closed"}
    /\ data' = [data EXCEPT ![s] = NoData]
    /\ Say(s, "over", 0, "over")
    /\ UNCHANGED says

(* readInputArgs, as long as the parameter that is needed has not come: a  *)
(* later value of a name replaces the earlier one.                         *)
ReadInputArgs(s) ==
    /\ stage[s] \in Param /\ data[s].input # <<>>
    /\ \A a \in data[s].args : a.says # stage[s]
    /\ LET r == Head(data[s].input) IN
       data' = [data EXCEPT ![s].input = Tail(@),
                            ![s].args = {a \in @ : a.says # r.says} \union {r}]
    /\ UNCHANGED <<pageVars, netVars, cache, stage, queue, says, used, histVars>>

Meets(a, s) == a.from = s /\ (a.says = "credentials" \/ a.no = data[s].asked[a.says])

(* GetArgsValue and the delete after it: the value of that name, whatever  *)
(* it was typed for.                                                       *)
GetArgsValue(s) ==
    /\ \E a \in data[s].args :
          /\ a.says = stage[s]
          /\ data' = [data EXCEPT ![s].args = @ \ {a}]
          /\ used' = used \union
                (IF Meets(a, s) THEN {} ELSE {[by |-> s, what |-> a.says, from |-> a.from]})
    /\ stage' = [stage EXCEPT ![s] = "work"]
    /\ UNCHANGED <<pageVars, netVars, cache, queue, says, histVars>>

-----------------------------------------------------------------------------
User == Crawl \/ Send
Browser == \E b \in back : Success(b)
Server == \E r \in held : Answer(r)
Session == \E s \in Sessions :
              Ask(s) \/ Tell(s) \/ End(s) \/ ReadInputArgs(s) \/ GetArgsValue(s)

Timers == \E s \in Sessions : Expire(s)

Next == User \/ Browser \/ Server \/ Session
        \/ (\E r \in held : Timeout(r)) \/ Timers

(* Messages arrive, callbacks run, and the live time of every session is   *)
(* over some day.  Nobody has to press a button, and a session may wait    *)
(* for its parameters, or for a page, as long as it lives.                 *)
FairSpec == /\ Init /\ [][Next]_vars
            /\ WF_vars(Browser)
            /\ WF_vars(Server)
            /\ WF_vars(Timers)

-----------------------------------------------------------------------------
(* Properties                                                              *)

Waits(s) == \E r \in held \union back : r.to = s /\ r.n \in open
Dropped(s) == \E why \in {"covered", "crossed", "timeout", "unknown"} : <<why, s>> \in odd
Accounted(s) == s \in told \/ (form.of = s /\ ~form.sent) \/ Dropped(s)
Started == {s \in Sessions : stage[s] # "none"}

(* No crawl is left alone: as long as its end is not known, the page waits *)
(* for an answer of its session or shows a question of it that the user    *)
(* has not answered, unless an answer other than of progress was unknown   *)
(* to the page, a request was given up, or another crawl came between      *)
(* (app.js:21, 64-90, 98-110: one page, one form, one id).                 *)
Followed == \A s \in Started : Accounted(s) \/ Waits(s)

(* A session uses a parameter for the question it was typed for, unless    *)
(* the user sent the form twice, or another session had answered since the *)
(* form was shown (app.js:21, 148) - which leaves the session a question   *)
(* ahead of its forms from then on -, or - credentials - pressed the       *)
(* button again before the key had come (app.js:96-97, 83).                *)
MeetsItsQuestion ==
    \A u \in used :
        IF u.what = "credentials" THEN u.from > u.by
        ELSE \/ <<"crossed", u.by>> \in odd
             \/ <<"again", u.by>> \in odd /\ u.from = u.by

(* One page and one crawl: what the user sends reaches the session that    *)
(* asked, as long as it is there.                                          *)
FormReaches ==
    form # Blank /\ presses = 1 => id = form.of \/ form.of \notin cache

(* In the end nothing is waited for: every crawl has come to an end the    *)
(* page knows of, or to a form it shows, or was dropped as above.          *)
Settles == <>[](\A s \in Started : Accounted(s))
=============================================================================
