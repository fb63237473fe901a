-------------------------- MODULE WebClientProofs --------------------------
(***************************************************************************)
(* Proofs about WebClient: no crawl is left alone, what a session uses was *)
(* typed for its question, and a form reaches the session that asked, in   *)
(* any number of crawls, forms and messages, but for the named exceptions. *)
(***************************************************************************)
EXTENDS WebClient, FiniteSetTheorems, SequenceTheorems, TLAPS

(***************************************************************************)
(* Types                                                                   *)
(***************************************************************************)

Status == Codes \union {"publickey", "qrcode", "progress", "over", "strange"}
Message == [status : Status, no : Nat]
Parameter == [to : Sessions, says : Param, from : Sessions, no : Nat]
Data == [asked : [Codes -> Nat], input : Seq(Parameter), args : SUBSET Parameter]

(* The sessions there are, and what is on its way to and from them.        *)
Crawled == 1..presses
Held == [n : Nat, to : Crawled, says : Codes \union {"crawl", "credentials", "nothing"}]
Back == [n : Nat, to : Crawled, status : Status \union {"gone"}, no : Nat]

Typed ==
    /\ page \in {"app", "qr"}
    /\ presses \in 0..MaxCrawls /\ typed = presses /\ id \in 0..presses
    /\ form # Blank => form \in [kind : Codes, of : Crawled, no : Nat, sent : BOOLEAN]
    /\ held \subseteq Held /\ IsFiniteSet(held)
    /\ back \subseteq Back /\ IsFiniteSet(back)
    /\ stage \in [Sessions -> Param \union {"none", "work", "over", "closed"}]
    /\ queue \in [Sessions -> Seq(Message)]
    /\ data \in [Sessions -> Data]

(* A session that does not exist yet is not in the cache and has no data.  *)
Unborn ==
    /\ cache \subseteq Crawled
    /\ \A s \in Sessions :
          /\ s \in cache => stage[s] # "none"
          /\ s \notin Crawled => stage[s] = "none"
          /\ stage[s] = "none" => data[s].input = <<>> /\ data[s].args = {}

TInv == Typed /\ Unborn

LEMMA CodesKnown ==
    /\ Codes \subseteq {"image", "password2", "phone", "tradecode"}
    /\ MaxCrawls \in Nat
    /\ Sessions = 1..MaxCrawls
BY ClientAssumption DEF ClientAssumption, Sessions

(***************************************************************************)
(* A request                                                               *)
(***************************************************************************)

(* A finite set of numbers leaves one of the first numbers out.            *)
LEMMA Unused ==
    ASSUME NEW S, IsFiniteSet(S)
    PROVE  \E i \in 1..Cardinality(S) + 1 : i \notin S
<1> DEFINE k == Cardinality(S)
<1>1. k \in Nat
  BY FS_CardinalityType
<1>2. SUFFICES ASSUME 1..k + 1 \subseteq S PROVE FALSE
  OBVIOUS
<1>3. Cardinality(1..k + 1) = k + 1
  BY <1>1, FS_Interval
<1>4. Cardinality(1..k + 1) <= k
  BY <1>2, FS_Subset
<1> QED
  BY <1>1, <1>3, <1>4

Left(answered) == back \ {b \in back : b.n \in answered}
Gone(n, s) == [n |-> n, to |-> s, status |-> "gone", no |-> 0]

(* What becomes of a request: its session is gone, or it brings what the   *)
(* user typed, or it creates the session.                                  *)
Lost(r) ==
    /\ r.to \notin cache
    /\ UNCHANGED <<held, cache, stage, queue, data>>
Comes(r) ==
    /\ r.to \in cache
    /\ data' = IF stage[r.to] = "over" \/ r.says = "nothing" THEN data
               ELSE [data EXCEPT ![r.to].input = Append(@, r)]
    /\ UNCHANGED <<cache, stage, queue>>
Creates(r) ==
    /\ cache' = cache \union {r.to}
    /\ stage' = [stage EXCEPT ![r.to] = IF page = "app" THEN "credentials" ELSE "work"]
    /\ queue' = [queue EXCEPT ![r.to] = <<[status |-> "publickey", no |-> 0]>>]
    /\ UNCHANGED data

(* Its number is that of no other request or answer.                       *)
LEMMA AjaxUnfolds ==
    ASSUME IsFiniteSet(held), IsFiniteSet(back), NEW answered, NEW r, Ajax(answered, r)
    PROVE  \E n \in Nat :
              /\ \A x \in held \union Left(answered) : x.n # n
              /\ open' = (open \ answered) \union {n}
              /\ \/ /\ r.says # "crawl" /\ Lost(r)
                    /\ back' = Left(answered) \union {Gone(n, r.to)}
                 \/ /\ held' = held \union {[n |-> n, to |-> r.to, says |-> r.says]}
                    /\ back' = Left(answered)
                    /\ IF r.says = "crawl" THEN Creates(r) ELSE Comes(r)
<1> DEFINE U == held \union Left(answered)
           flying == {x.n : x \in U}
           n == CHOOSE i \in 1..Cardinality(flying) + 1 : i \notin flying
<1>1. IsFiniteSet(U)
  <2>1. Left(answered) \subseteq back
    BY DEF Left
  <2> QED
    BY <2>1, FS_Subset, FS_Union
<1>2. IsFiniteSet(flying)
  <2> DEFINE f == [x \in U |-> x.n]
  <2>1. f \in Surjection(U, flying)
    BY DEF Surjection
  <2> QED
    BY <1>1, <2>1, FS_Surjection
<1>3. Cardinality(flying) \in Nat
  BY <1>2, FS_CardinalityType
<1>4. n \in 1..Cardinality(flying) + 1 /\ n \notin flying
  BY <1>2, Unused
<1>5. n \in Nat
  BY <1>3, <1>4
<1>6. \A x \in U : x.n # n
  BY <1>4
<1>7. /\ open' = (open \ answered) \union {n}
      /\ \/ /\ r.says # "crawl" /\ Lost(r)
            /\ back' = Left(answered) \union {Gone(n, r.to)}
         \/ /\ held' = held \union {[n |-> n, to |-> r.to, says |-> r.says]}
            /\ back' = Left(answered)
            /\ IF r.says = "crawl" THEN Creates(r) ELSE Comes(r)
  BY DEF Ajax, Left, Gone, Lost, Comes, Creates
<1> HIDE DEF n
<1> QED
  BY <1>5, <1>6, <1>7

(***************************************************************************)
(* An answer                                                               *)
(***************************************************************************)

(* What Success does but for id: it sends the credentials, polls on, shows *)
(* a form, or does nothing more.                                           *)
Last(b) == /\ open' = open \ {b.n} /\ back' = back \ {b}
           /\ UNCHANGED <<held, cache, stage, queue, data>>
SendsKey(b) ==
    /\ b.status = "publickey"
    /\ Ajax({b.n}, Request(b.to, "credentials", typed, 0))
    /\ UNCHANGED <<form, odd, told>>
PollsOn(b) ==
    /\ b.status \in Polls
    /\ Ajax({b.n}, Request(b.to, "nothing", b.to, 0))
    /\ UNCHANGED told
    /\ \/ form' = Blank /\ odd' = odd \union Covers(b.to)
       \/ UNCHANGED <<form, odd>>
ShowsForm(b) ==
    /\ b.status \in Forms
    /\ Last(b)
    /\ form' = [kind |-> b.status, of |-> b.to, no |-> b.no, sent |-> FALSE]
    /\ odd' = odd \union Covers(b.to)
    /\ UNCHANGED told
Stops(b) ==
    /\ b.status \notin Forms
    /\ Last(b)
    /\ UNCHANGED form
    /\ \/ UNCHANGED odd /\ told' = told \union {b.to}
       \/ UNCHANGED told /\ odd' = odd \union {<<"unknown", b.to>>}

LEMMA SuccessUnfolds ==
    ASSUME NEW b, page \in {"app", "qr"}, Success(b)
    PROVE  /\ b \in back
           /\ id' = IF b.status = "gone" THEN 0 ELSE b.to
           /\ SendsKey(b) \/ PollsOn(b) \/ ShowsForm(b) \/ Stops(b)
           /\ UNCHANGED <<page, presses, typed, sends, timeouts, says, used>>
<1>0. /\ Polls \intersect Forms = {} /\ "publickey" \notin Forms
      /\ {"over", "gone"} \intersect (Polls \union Forms) = {}
      /\ "progress" \in Polls
      /\ page = "app" => "publickey" \notin Polls
  BY DEF Forms, Polls, AppForms, QrForms, AppPolls, QrPolls
<1>1. CASE b.status = "publickey" /\ page = "app"
  BY <1>0, <1>1 DEF Success, SendsKey, NewId, histVars
<1>2. CASE b.status \in Polls
  BY <1>0, <1>2 DEF Success, PollsOn, NewId, histVars
<1>3. CASE b.status \in Forms
  BY <1>0, <1>3 DEF Success, ShowsForm, Last, NewId, histVars
<1>4. CASE b.status \in {"over", "gone"}
  BY <1>0, <1>4 DEF Success, Stops, Last, NewId, histVars
<1>5. CASE /\ b.status \notin Polls \union Forms \union {"over", "gone"}
           /\ ~(b.status = "publickey" /\ page = "app")
  BY <1>0, <1>5 DEF Success, Stops, Last, NewId, histVars
<1> QED
  BY <1>1, <1>2, <1>3, <1>4, <1>5

(***************************************************************************)
(* The types are kept                                                      *)
(***************************************************************************)

LEMMA TInit == Init => TInv
<1> SUFFICES ASSUME Init PROVE TInv
  OBVIOUS
<1> USE CodesKnown, ClientAssumption DEF Init, ClientAssumption
<1>1. IsFiniteSet({})
  BY FS_EmptySet
<1>2. <<>> \in Seq(Message) /\ <<>> \in Seq(Parameter)
  BY EmptySeq
<1>3. NoData \in Data
  BY <1>2 DEF NoData, Data
<1>4. Typed
  BY <1>1, <1>2, <1>3 DEF Typed
<1>5. Unborn
  BY DEF Unborn, NoData, Crawled
<1> QED
  BY <1>4, <1>5 DEF TInv

Asked == [to : Sessions, says : Param \union {"crawl", "nothing"}, from : Sessions, no : Nat]

LEMMA DataChanged ==
    ASSUME NEW d \in Data
    PROVE  /\ d.asked \in [Codes -> Nat] /\ d.input \in Seq(Parameter)
           /\ d.args \subseteq Parameter
           /\ \A i \in Seq(Parameter) : [d EXCEPT !.input = i] \in Data
           /\ \A a \in SUBSET Parameter : [d EXCEPT !.args = a] \in Data
           /\ \A i \in Seq(Parameter), a \in SUBSET Parameter :
                  [d EXCEPT !.input = i, !.args = a] \in Data
           /\ \A k \in [Codes -> Nat], a \in SUBSET Parameter :
                  [d EXCEPT !.asked = k, !.args = a] \in Data
<1> DEFINE P == Seq(Parameter)
           A == SUBSET Parameter
           K == [Codes -> Nat]
<1>1. Data = [asked : K, input : P, args : A]
  BY DEF Data
<1> HIDE DEF P, A, K
<1>2. d.asked \in K /\ d.input \in P /\ d.args \in A
  BY <1>1
<1>3. /\ \A i \in P : [d EXCEPT !.input = i] \in Data
      /\ \A a \in A : [d EXCEPT !.args = a] \in Data
      /\ \A i \in P, a \in A : [d EXCEPT !.input = i, !.args = a] \in Data
      /\ \A k \in K, a \in A : [d EXCEPT !.asked = k, !.args = a] \in Data
  BY <1>1
<1> QED
  BY <1>2, <1>3 DEF P, A, K

LEMMA AjaxTyped ==
    ASSUME TInv, NEW answered, NEW r \in Asked, Ajax(answered, r),
           presses' \in presses..MaxCrawls, r.to \in Crawled'
    PROVE  /\ held' \subseteq Held' /\ IsFiniteSet(held')
           /\ back' \subseteq Back' /\ IsFiniteSet(back')
           /\ stage' \in [Sessions -> Param \union {"none", "work", "over", "closed"}]
           /\ queue' \in [Sessions -> Seq(Message)]
           /\ data' \in [Sessions -> Data]
           /\ Unborn'
<1> USE CodesKnown
<1>0. Typed /\ Unborn
  BY DEF TInv
<1>1. PICK n \in Nat :
        /\ \/ /\ r.says # "crawl" /\ Lost(r)
              /\ back' = Left(answered) \union {Gone(n, r.to)}
           \/ /\ held' = held \union {[n |-> n, to |-> r.to, says |-> r.says]}
              /\ back' = Left(answered)
              /\ IF r.says = "crawl" THEN Creates(r) ELSE Comes(r)
  BY <1>0, AjaxUnfolds DEF Typed
<1>2. Held \subseteq Held' /\ Back \subseteq Back' /\ Crawled \subseteq Crawled'
  BY <1>0 DEF Typed, Held, Back, Crawled
<1>3. Gone(n, r.to) \in Back'
  BY <1>1 DEF Gone, Back, Status
<1>4. [n |-> n, to |-> r.to, says |-> r.says] \in Held'
  BY <1>1 DEF Held, Asked, Param
<1>5. Left(answered) \subseteq Back' /\ IsFiniteSet(Left(answered))
  <2>1. Left(answered) \subseteq back
    BY DEF Left
  <2> QED
    BY <1>0, <1>2, <2>1, FS_Subset DEF Typed
<1>6. held' \subseteq Held' /\ IsFiniteSet(held')
  <2> DEFINE h == [n |-> n, to |-> r.to, says |-> r.says]
  <2>1. held \subseteq Held' /\ IsFiniteSet(held) /\ h \in Held'
    BY <1>0, <1>2, <1>4 DEF Typed
  <2>2. held' = held \/ held' = held \union {h}
    BY <1>1 DEF Lost
  <2> HIDE DEF h
  <2> QED
    BY <2>1, <2>2, FS_AddElement
<1>7. back' \subseteq Back' /\ IsFiniteSet(back')
  BY <1>1, <1>3, <1>5, FS_AddElement
<1>8. r.to \in Sessions
  BY DEF Asked
<1>9. stage' \in [Sessions -> Param \union {"none", "work", "over", "closed"}]
  BY <1>0, <1>1, <1>8 DEF Typed, Lost, Comes, Creates, Param
<1>10. queue' \in [Sessions -> Seq(Message)]
  <2>1. [status |-> "publickey", no |-> 0] \in Message
    BY DEF Message, Status
  <2>2. <<[status |-> "publickey", no |-> 0]>> \in Seq(Message)
    BY <2>1
  <2>3. queue' = queue \/ queue' = [queue EXCEPT ![r.to] = <<[status |-> "publickey", no |-> 0]>>]
    BY <1>1 DEF Lost, Comes, Creates
  <2> HIDE DEF Message
  <2> QED
    BY <1>0, <2>2, <2>3 DEF Typed
<1>11. ASSUME r.says \notin {"crawl", "nothing"}
       PROVE  [data EXCEPT ![r.to].input = Append(@, r)] \in [Sessions -> Data]
  <2>1. r \in Parameter
    BY <1>11 DEF Asked, Parameter
  <2>2. Append(data[r.to].input, r) \in Seq(Parameter)
    BY <1>0, <1>8, <2>1, AppendProperties DEF Typed, Data
  <2> DEFINE d == [data[r.to] EXCEPT !.input = Append(@, r)]
  <2>3. d \in Data
    BY <1>0, <1>8, <2>2, DataChanged DEF Typed
  <2>4. [data EXCEPT ![r.to].input = Append(@, r)] = [data EXCEPT ![r.to] = d]
    BY <1>0, <1>8 DEF Typed
  <2> HIDE DEF d
  <2> QED
    BY <1>0, <2>3, <2>4 DEF Typed
<1>12. data' \in [Sessions -> Data]
  BY <1>0, <1>1, <1>11 DEF Typed, Lost, Comes, Creates
<1>13. cache' \subseteq Crawled'
  BY <1>0, <1>1, <1>2 DEF Unborn, Lost, Comes, Creates
<1>14. ASSUME NEW s \in Sessions
       PROVE  /\ s \in cache' => stage'[s] # "none"
              /\ s \notin Crawled' => stage'[s] = "none"
              /\ stage'[s] = "none" => data'[s].input = <<>> /\ data'[s].args = {}
  <2>1. CASE Lost(r)
    BY <1>0, <1>2, <2>1 DEF Unborn, Lost
  <2>2. CASE r.says # "crawl" /\ Comes(r)
    BY <1>0, <1>2, <1>8, <2>2 DEF Unborn, Comes, Typed
  <2>3. CASE r.says = "crawl" /\ Creates(r)
    BY <1>0, <1>2, <1>8, <2>3 DEF Unborn, Creates, Typed
  <2> QED
    BY <1>1, <2>1, <2>2, <2>3
<1> QED
  BY <1>6, <1>7, <1>9, <1>10, <1>12, <1>13, <1>14 DEF Unborn

LEMMA SayTyped ==
    ASSUME TInv, NEW s \in Sessions, NEW status \in Status, NEW no \in Nat,
           NEW waits \in Param \union {"work", "over"},
           stage[s] # "none", Say(s, status, no, waits)
    PROVE  /\ queue' \in [Sessions -> Seq(Message)]
           /\ stage' \in [Sessions -> Param \union {"none", "work", "over", "closed"}]
           /\ \A t \in Sessions : stage'[t] = "none" <=> stage[t] = "none"
<1> DEFINE m == [status |-> status, no |-> no]
<1>1. m \in Message
  BY DEF Message
<1>2. queue[s] \in Seq(Message) /\ queue \in [Sessions -> Seq(Message)]
  BY DEF TInv, Typed
<1>3. Append(queue[s], m) \in Seq(Message)
  BY <1>1, <1>2, AppendProperties
<1>4. queue' = [queue EXCEPT ![s] = Append(queue[s], m)]
  BY DEF Say
<1> HIDE DEF m, Message
<1>5. queue' \in [Sessions -> Seq(Message)]
  BY <1>2, <1>3, <1>4
<1> QED
  BY <1>5, CodesKnown DEF Say, TInv, Typed, Param

(* Data and stages that change without a session being born.               *)
LEMMA DataTyped ==
    ASSUME TInv, NEW s \in Sessions, stage[s] # "none", NEW d \in Data,
           data' = [data EXCEPT ![s] = d], cache' \subseteq cache, presses' = presses,
           \A t \in Sessions : stage'[t] = "none" <=> stage[t] = "none"
    PROVE  data' \in [Sessions -> Data] /\ Unborn'
<1>1. data' \in [Sessions -> Data]
  BY DEF TInv, Typed
<1>2. Unborn'
  BY DEF TInv, Typed, Unborn, Crawled
<1> QED
  BY <1>1, <1>2

LEMMA TStep == TInv /\ [Next]_vars => TInv'
<1> SUFFICES ASSUME TInv, [Next]_vars PROVE TInv'
  OBVIOUS
<1> USE CodesKnown DEF pageVars, netVars, sessionVars, histVars
<1>0. Typed /\ Unborn
  BY DEF TInv
<1>a. ASSUME presses' = presses
      PROVE  Crawled' = Crawled /\ Held' = Held /\ Back' = Back
  BY <1>a DEF Crawled, Held, Back
<1>1. CASE Crawl
  <2>0. presses' = presses + 1 /\ presses' \in presses..MaxCrawls /\ typed' = presses'
    BY <1>0, <1>1 DEF Crawl, Remember, Typed
  <2>1. CASE form' = Blank /\ Ajax({}, Request(presses + 1, "crawl", presses + 1, 0))
    <3> DEFINE r == Request(presses + 1, "crawl", presses + 1, 0)
    <3>1. r \in Asked /\ r.to \in Crawled'
      BY <1>0, <2>0 DEF Request, Asked, Crawled, Typed
    <3> HIDE DEF r
    <3>2. /\ held' \subseteq Held' /\ IsFiniteSet(held')
          /\ back' \subseteq Back' /\ IsFiniteSet(back')
          /\ stage' \in [Sessions -> Param \union {"none", "work", "over", "closed"}]
          /\ queue' \in [Sessions -> Seq(Message)]
          /\ data' \in [Sessions -> Data]
          /\ Unborn'
      BY <2>0, <2>1, <3>1, AjaxTyped DEF r
    <3> QED
      BY <1>0, <1>1, <2>0, <2>1, <3>2 DEF Crawl, Typed, TInv
  <2>2. CASE UNCHANGED <<form, odd, open, netVars, cache, stage, queue, data>>
    <3>1. Crawled \subseteq Crawled' /\ Held \subseteq Held' /\ Back \subseteq Back'
      BY <1>0, <2>0 DEF Crawled, Held, Back, Typed
    <3>2. Unborn'
      BY <1>0, <2>2, <3>1 DEF Unborn
    <3>3. form' # Blank => form' \in [kind : Codes, of : Crawled', no : Nat, sent : BOOLEAN]
      BY <1>0, <2>2, <3>1 DEF Typed
    <3>4. /\ held' \subseteq Held' /\ IsFiniteSet(held')
          /\ back' \subseteq Back' /\ IsFiniteSet(back')
      BY <1>0, <2>2, <3>1 DEF Typed
    <3>5. page' = page /\ id' = id
      BY <1>1 DEF Crawl
    <3> HIDE DEF Message, Data, Held, Back
    <3> QED
      BY <1>0, <2>0, <2>2, <3>2, <3>3, <3>4, <3>5 DEF Typed, TInv
  <2> QED
    BY <1>1, <2>1, <2>2 DEF Crawl
<1>2. CASE Send
  <2> DEFINE r == Request(id, form.kind, form.of, form.no)
  <2>1. /\ form # Blank /\ id # 0 /\ Ajax({}, r)
        /\ form' = [form EXCEPT !.sent = TRUE]
        /\ UNCHANGED <<page, id, presses, typed>>
    BY <1>2 DEF Send
  <2>2. form \in [kind : Codes, of : Crawled, no : Nat, sent : BOOLEAN]
    BY <1>0, <2>1 DEF Typed
  <2>3. presses' \in presses..MaxCrawls /\ r.to \in Crawled'
    BY <1>0, <2>1 DEF Typed, Request, Crawled
  <2>4. r \in Asked
    BY <1>0, <2>1, <2>2 DEF Asked, Request, Crawled, Typed, Param
  <2>5. form' \in [kind : Codes, of : Crawled', no : Nat, sent : BOOLEAN]
    BY <1>a, <2>1, <2>2
  <2> HIDE DEF r
  <2>6. /\ held' \subseteq Held' /\ IsFiniteSet(held')
        /\ back' \subseteq Back' /\ IsFiniteSet(back')
        /\ stage' \in [Sessions -> Param \union {"none", "work", "over", "closed"}]
        /\ queue' \in [Sessions -> Seq(Message)]
        /\ data' \in [Sessions -> Data]
        /\ Unborn'
    BY <2>1, <2>3, <2>4, AjaxTyped
  <2> QED
    BY <1>0, <2>1, <2>5, <2>6 DEF Typed, TInv
<1>3. ASSUME NEW b \in back, Success(b) PROVE TInv'
  <2>1. /\ id' = IF b.status = "gone" THEN 0 ELSE b.to
        /\ SendsKey(b) \/ PollsOn(b) \/ ShowsForm(b) \/ Stops(b)
        /\ UNCHANGED <<page, presses, typed, sends, timeouts, says, used>>
    BY <1>0, <1>3, SuccessUnfolds DEF Typed
  <2>2. b \in Back /\ b.to \in Crawled /\ presses \in Nat
    BY <1>0 DEF Typed, Back
  <2>3. id' \in 0..presses'
    BY <2>1, <2>2 DEF Crawled
  <2>4. form' # Blank => form' \in [kind : Codes, of : Crawled', no : Nat, sent : BOOLEAN]
    <3>1. CASE ShowsForm(b)
      <4>1. b.status \in Codes
        BY <2>2, <3>1 DEF ShowsForm, Back, Status, Forms, AppForms, QrForms
      <4> QED
        BY <1>a, <2>1, <2>2, <3>1, <4>1 DEF ShowsForm, Back
    <3>2. CASE ~ShowsForm(b)
      BY <1>0, <1>a, <2>1, <3>2 DEF Typed, SendsKey, PollsOn, Stops
    <3> QED
      BY <3>1, <3>2
  <2>5. ASSUME NEW r \in Asked, r.to = b.to, Ajax({b.n}, r) PROVE TInv'
    <3>1. presses' \in presses..MaxCrawls /\ r.to \in Crawled'
      BY <1>0, <2>1, <2>2, <2>5 DEF Typed, Crawled
    <3>2. /\ held' \subseteq Held' /\ IsFiniteSet(held')
          /\ back' \subseteq Back' /\ IsFiniteSet(back')
          /\ stage' \in [Sessions -> Param \union {"none", "work", "over", "closed"}]
          /\ queue' \in [Sessions -> Seq(Message)]
          /\ data' \in [Sessions -> Data]
          /\ Unborn'
      BY <2>5, <3>1, AjaxTyped
    <3> QED
      BY <1>0, <2>1, <2>3, <2>4, <3>2 DEF Typed, TInv
  <2>6. CASE Last(b)
    <3>1. back' \subseteq back /\ IsFiniteSet(back')
      BY <1>0, <2>6, FS_RemoveElement DEF Typed, Last
    <3>2. UNCHANGED <<held, cache, stage, queue, data>>
      BY <2>6 DEF Last
    <3>3. Unborn'
      BY <1>0, <1>a, <2>1, <3>2 DEF Unborn
    <3> HIDE DEF Message, Data, Held, Back, Crawled
    <3>4. back' \subseteq Back' /\ held' \subseteq Held' /\ IsFiniteSet(held')
      BY <1>0, <1>a, <2>1, <3>1, <3>2 DEF Typed
    <3> QED
      BY <1>0, <2>1, <2>3, <2>4, <3>1, <3>2, <3>3, <3>4 DEF Typed, TInv
  <2>7. CASE SendsKey(b)
    <3>1. Request(b.to, "credentials", typed, 0) \in Asked
      BY <1>0, <2>2 DEF Request, Asked, Param, Crawled, Typed
    <3> QED
      BY <2>5, <2>7, <3>1 DEF SendsKey, Request
  <2>8. CASE PollsOn(b)
    <3>1. Request(b.to, "nothing", b.to, 0) \in Asked
      BY <1>0, <2>2 DEF Request, Asked, Crawled, Typed
    <3> QED
      BY <2>5, <2>8, <3>1 DEF PollsOn, Request
  <2> QED
    BY <2>1, <2>6, <2>7, <2>8 DEF ShowsForm, Stops
<1>4. ASSUME NEW r \in held, Timeout(r) PROVE TInv'
  BY <1>0, <1>4, <1>a DEF Timeout, Typed, TInv, Unborn
<1>5. ASSUME NEW r \in held, Answer(r) PROVE TInv'
  <2>1. UNCHANGED <<page, id, presses, typed, form, stage, data>> /\ cache' \subseteq cache
    BY <1>5 DEF Answer
  <2>2. r \in Held /\ r.to \in Sessions
    BY <1>0 DEF Typed, Held, Crawled
  <2>3. Unborn'
    BY <1>0, <1>a, <2>1 DEF Unborn
  <2>4. held' \subseteq Held' /\ IsFiniteSet(held')
    BY <1>0, <1>5, <1>a, <2>1, FS_RemoveElement DEF Typed, Answer
  <2>5. PICK m \in Message : Reply(r, m)
    <3>1. queue[r.to] # <<>> => Head(queue[r.to]) \in Message
      BY <1>0, <2>2, HeadTailProperties DEF Typed
    <3>2. [status |-> "over", no |-> 0] \in Message
      BY DEF Message, Status
    <3> QED
      BY <1>5, <3>1, <3>2 DEF Answer, GetMessage
  <2>6. back' \subseteq Back' /\ IsFiniteSet(back')
    <3> DEFINE b == [n |-> r.n, to |-> r.to, status |-> m.status, no |-> m.no]
    <3>1. b \in Back
      BY <2>2, <2>5 DEF Held, Back, Message
    <3>2. back' = back \/ back' = back \union {b}
      BY <2>5 DEF Reply
    <3>3. Back' = Back /\ back \subseteq Back /\ IsFiniteSet(back)
      BY <1>0, <1>a, <2>1 DEF Typed
    <3> HIDE DEF b, Back
    <3> QED
      BY <3>1, <3>2, <3>3, FS_AddElement
  <2>7. queue' \in [Sessions -> Seq(Message)]
    <3>1. CASE UNCHANGED queue
      BY <1>0, <3>1 DEF Typed
    <3>2. CASE queue[r.to] # <<>> /\ queue' = [queue EXCEPT ![r.to] = Tail(@)]
      <4>1. Tail(queue[r.to]) \in Seq(Message)
        BY <1>0, <2>2, <3>2, HeadTailProperties DEF Typed
      <4> HIDE DEF Message
      <4> QED
        BY <1>0, <2>2, <3>2, <4>1 DEF Typed
    <3> QED
      BY <1>5, <3>1, <3>2 DEF Answer, GetMessage
  <2> QED
    BY <1>0, <1>a, <2>1, <2>3, <2>4, <2>6, <2>7 DEF Typed, TInv
<1>b. ASSUME UNCHANGED <<pageVars, netVars>>, cache' \subseteq cache,
             NEW s \in Sessions, stage[s] # "none",
             NEW d \in Data, data' = [data EXCEPT ![s] = d],
             queue' \in [Sessions -> Seq(Message)],
             stage' \in [Sessions -> Param \union {"none", "work", "over", "closed"}],
             \A t \in Sessions : stage'[t] = "none" <=> stage[t] = "none"
      PROVE  TInv'
  <2>1. data' \in [Sessions -> Data] /\ Unborn'
    BY <1>b, DataTyped
  <2> HIDE DEF Data, Message
  <2> QED
    BY <1>0, <1>a, <1>b, <2>1 DEF Typed, TInv
<1>c. \A s \in Sessions : data[s] \in Data /\ data = [data EXCEPT ![s] = data[s]]
  BY <1>0 DEF Typed
<1>6. ASSUME NEW s \in Sessions, Expire(s) PROVE TInv'
  <2>1. NoData \in Data
    <3>1. <<>> \in Seq(Parameter)
      BY EmptySeq
    <3> QED
      BY <3>1 DEF NoData, Data
  <2>2. /\ stage' = [stage EXCEPT ![s] = "closed"] /\ queue' = queue
        /\ data' = [data EXCEPT ![s] = NoData] /\ cache' \subseteq cache
        /\ stage[s] # "none" /\ UNCHANGED <<pageVars, netVars>>
    BY <1>6 DEF Expire
  <2>3. /\ stage' \in [Sessions -> Param \union {"none", "work", "over", "closed"}]
        /\ \A t \in Sessions : stage'[t] = "none" <=> stage[t] = "none"
    BY <1>0, <2>2 DEF Typed
  <2>4. queue' \in [Sessions -> Seq(Message)]
    BY <1>0, <2>2 DEF Typed
  <2> QED
    BY <1>b, <2>1, <2>2, <2>3, <2>4
<1>d. ASSUME NEW s \in Sessions, NEW status \in Status, NEW no \in Nat,
             NEW waits \in Param \union {"work", "over"}, stage[s] # "none",
             Say(s, status, no, waits), NEW d \in Data, data' = [data EXCEPT ![s] = d]
      PROVE  TInv'
  <2>1. /\ queue' \in [Sessions -> Seq(Message)]
        /\ stage' \in [Sessions -> Param \union {"none", "work", "over", "closed"}]
        /\ \A t \in Sessions : stage'[t] = "none" <=> stage[t] = "none"
    BY <1>d, SayTyped
  <2>2. UNCHANGED <<pageVars, netVars, cache>>
    BY <1>d DEF Say
  <2> QED
    BY <1>b, <1>d, <2>1, <2>2
<1>7. ASSUME NEW s \in Sessions, Ask(s) PROVE TInv'
  <2>0. PICK k \in Codes :
            /\ data' = [data EXCEPT ![s].asked[k] = @ + 1,
                          ![s].args = {a \in @ : a.says = k => data[s].asked[k] = 0}]
            /\ \E status \in {k, "strange"} : Say(s, status, data[s].asked[k] + 1, k)
    BY <1>7 DEF Ask
  <2>1. PICK status \in {k, "strange"} : Say(s, status, data[s].asked[k] + 1, k)
    BY <2>0
  <2> DEFINE j == [data[s].asked EXCEPT ![k] = @ + 1]
             g == {a \in data[s].args : a.says = k => data[s].asked[k] = 0}
             d == [data[s] EXCEPT !.asked = j, !.args = g]
  <2>2. data[s] \in Data
    BY <1>c
  <2>3. j \in [Codes -> Nat] /\ g \in SUBSET Parameter /\ data[s].asked[k] + 1 \in Nat
    <3>1. data[s].asked \in [Codes -> Nat] /\ data[s].args \subseteq Parameter
      BY <2>2, DataChanged
    <3> HIDE DEF Parameter
    <3> QED
      BY <3>1
  <2>4. data' = [data EXCEPT ![s] = d]
    BY <1>0, <2>0 DEF Typed
  <2> HIDE DEF j, g
  <2>5. d \in Data
    BY <2>2, <2>3, DataChanged
  <2> HIDE DEF d
  <2>6. status \in Status /\ k \in Param /\ stage[s] # "none"
    BY <1>7, <2>1 DEF Status, Param, Ask
  <2> QED
    BY <1>d, <2>1, <2>3, <2>4, <2>5, <2>6
<1>8. ASSUME NEW s \in Sessions, Tell(s) PROVE TInv'
  <2>1. PICK status \in {"progress", "strange", "qrcode"} : Say(s, status, 0, "work")
    BY <1>8 DEF Tell
  <2>2. /\ status \in Status /\ stage[s] # "none" /\ data' = [data EXCEPT ![s] = data[s]]
        /\ data[s] \in Data
    BY <1>8, <1>c DEF Tell, Status
  <2> QED
    BY <1>d, <2>1, <2>2
<1>9. ASSUME NEW s \in Sessions, End(s) PROVE TInv'
  <2>1. NoData \in Data
    <3>1. <<>> \in Seq(Parameter)
      BY EmptySeq
    <3> QED
      BY <3>1 DEF NoData, Data
  <2>2. "over" \in Status
    BY DEF Status
  <2> QED
    BY <1>9, <1>d, <2>1, <2>2 DEF End
<1>10. ASSUME NEW s \in Sessions, ReadInputArgs(s) PROVE TInv'
  <2> DEFINE r == Head(data[s].input)
             i == Tail(data[s].input)
             g == {a \in data[s].args : a.says # r.says} \union {r}
             d == [data[s] EXCEPT !.input = i, !.args = g]
  <2>1. data[s] \in Data /\ data[s].input # <<>>
    BY <1>10, <1>c DEF ReadInputArgs
  <2>2. r \in Parameter /\ i \in Seq(Parameter)
    BY <2>1, DataChanged, HeadTailProperties
  <2>3. g \in SUBSET Parameter
    BY <2>1, <2>2, DataChanged
  <2>4. data' = [data EXCEPT ![s] = d]
    BY <1>0, <1>10 DEF Typed, ReadInputArgs
  <2> HIDE DEF i, g
  <2>5. d \in Data
    BY <2>1, <2>2, <2>3, DataChanged
  <2> HIDE DEF d
  <2>6. UNCHANGED <<pageVars, netVars, cache, stage, queue>> /\ stage[s] # "none"
    BY <1>10 DEF ReadInputArgs, Param
  <2>7. /\ queue' \in [Sessions -> Seq(Message)]
        /\ stage' \in [Sessions -> Param \union {"none", "work", "over", "closed"}]
    BY <1>0, <2>6 DEF Typed
  <2> QED
    BY <1>b, <2>4, <2>5, <2>6, <2>7
<1>11. ASSUME NEW s \in Sessions, GetArgsValue(s) PROVE TInv'
  <2>1. PICK a \in data[s].args :
            /\ a.says = stage[s]
            /\ data' = [data EXCEPT ![s].args = @ \ {a}]
    BY <1>11 DEF GetArgsValue
  <2> DEFINE g == data[s].args \ {a}
             d == [data[s] EXCEPT !.args = g]
  <2>2. data[s] \in Data
    BY <1>c
  <2>3. g \in SUBSET Parameter
    BY <2>2, DataChanged
  <2>4. data' = [data EXCEPT ![s] = d]
    BY <1>0, <2>1 DEF Typed
  <2>5. stage[s] # "none"
    BY <2>1, <2>2, DataChanged DEF Parameter, Param
  <2> HIDE DEF g
  <2>6. d \in Data
    BY <2>2, <2>3, DataChanged
  <2> HIDE DEF d
  <2>7. UNCHANGED <<pageVars, netVars, cache, queue>> /\ stage' = [stage EXCEPT ![s] = "work"]
    BY <1>11 DEF GetArgsValue
  <2>8. /\ queue' \in [Sessions -> Seq(Message)]
        /\ stage' \in [Sessions -> Param \union {"none", "work", "over", "closed"}]
        /\ \A t \in Sessions : stage'[t] = "none" <=> stage[t] = "none"
    BY <1>0, <2>5, <2>7 DEF Typed
  <2> QED
    BY <1>b, <2>4, <2>5, <2>6, <2>7, <2>8
<1>12. CASE UNCHANGED vars
  BY <1>0, <1>12, <1>a DEF vars, TInv, Typed, Unborn
<1> QED
  BY <1>1, <1>2, <1>3, <1>4, <1>5, <1>6, <1>7, <1>8, <1>9, <1>10, <1>11, <1>12
  DEF Next, User, Browser, Server, Session, Timers

(* The types hold in every state, for any number of sessions.              *)
THEOREM WebClientTyped == FairSpec => []TInv
BY TInit, TStep, PTL DEF FairSpec

(***************************************************************************)
(* No crawl is left alone                                                  *)
(***************************************************************************)

(* Numbers tell requests and answers apart, and the page waits for every   *)
(* answer that is on its way.                                              *)
Numbered ==
    /\ \A x, y \in held : x.n = y.n => x = y
    /\ \A x, y \in back : x.n = y.n => x = y
    /\ \A x \in held, y \in back : x.n # y.n
    /\ \A b \in back : b.n \in open

(* A request that a press, a form or an answer of its session brings: the  *)
(* page waits for it, and for the other sessions as before.                *)
LEMMA AjaxWaits ==
    ASSUME TInv, Numbered, NEW answered, NEW r, Ajax(answered, r),
           answered = {} \/ \E b \in back : b.to = r.to /\ answered = {b.n}
    PROVE  /\ Numbered'
           /\ \A s : s = r.to \/ Waits(s) => Waits(s)'
<1>1. PICK n \in Nat :
        /\ \A x \in held \union Left(answered) : x.n # n
        /\ open' = (open \ answered) \union {n}
        /\ \/ held' = held /\ back' = Left(answered) \union {Gone(n, r.to)}
           \/ /\ held' = held \union {[n |-> n, to |-> r.to, says |-> r.says]}
              /\ back' = Left(answered)
  BY AjaxUnfolds DEF TInv, Typed, Lost
<1>2. \A x \in Left(answered) : x \in back /\ x.n \notin answered
  BY DEF Left
<1>3. \A x \in held : x.n \notin answered
  BY DEF Numbered
<1>4. Gone(n, r.to).n = n /\ Gone(n, r.to).to = r.to
  BY DEF Gone
<1>5. Numbered'
  <2>1. \A x, y \in held' : x.n = y.n => x = y
    BY <1>1 DEF Numbered
  <2>2. \A x, y \in back' : x.n = y.n => x = y
    BY <1>1, <1>2, <1>4 DEF Numbered
  <2>3. \A x \in held', y \in back' : x.n # y.n
    BY <1>1, <1>2, <1>4 DEF Numbered
  <2>4. \A b \in back' : b.n \in open'
    BY <1>1, <1>2, <1>4 DEF Numbered
  <2> QED
    BY <2>1, <2>2, <2>3, <2>4 DEF Numbered
<1>6. Waits(r.to)'
  <2> DEFINE h == [n |-> n, to |-> r.to, says |-> r.says]
  <2>1. h.n = n /\ h.to = r.to
    OBVIOUS
  <2>2. h \in held' \/ Gone(n, r.to) \in back'
    BY <1>1
  <2> HIDE DEF h
  <2>3. \E x \in held' \union back' : x.to = r.to /\ x.n = n
    BY <1>4, <2>1, <2>2
  <2> QED
    BY <1>1, <2>3 DEF Waits
<1>7. ASSUME NEW s, Waits(s), s # r.to PROVE Waits(s)'
  <2>1. PICK x \in held \union back : x.to = s /\ x.n \in open
    BY <1>7 DEF Waits
  <2>2. x.n \notin answered
    BY <1>3, <1>7, <2>1 DEF Numbered
  <2>3. x \in held' \union back'
    BY <1>1, <2>2 DEF Left
  <2> QED
    BY <1>1, <2>1, <2>2, <2>3 DEF Waits
<1> QED
  BY <1>5, <1>6, <1>7

(* What the page knows of a session stays known.                           *)
LEMMA DroppedStays ==
    ASSUME odd \subseteq odd', NEW s, Dropped(s) PROVE Dropped(s)'
BY DEF Dropped

FollowInv == Numbered /\ Followed

LEMMA FollowStep == TInv /\ FollowInv /\ [Next]_vars => FollowInv'
<1> SUFFICES ASSUME TInv, FollowInv, [Next]_vars PROVE FollowInv'
  OBVIOUS
<1> USE CodesKnown DEF pageVars, netVars, sessionVars, histVars
<1>0. Typed /\ Numbered /\ Followed
  BY DEF TInv, FollowInv
<1>a. ASSUME Started' \subseteq Started, odd \subseteq odd', told \subseteq told', UNCHANGED form,
             \A s \in Started : Waits(s) => Accounted(s)' \/ Waits(s)'
      PROVE  Followed'
  <2> SUFFICES ASSUME NEW s \in Started' PROVE Accounted(s)' \/ Waits(s)'
    BY DEF Followed
  <2>1. s \in Started /\ (Accounted(s) \/ Waits(s))
    BY <1>0, <1>a DEF Followed
  <2>2. Dropped(s) => Dropped(s)'
    BY <1>a, DroppedStays
  <2>3. Accounted(s) => Accounted(s)'
    BY <1>a, <2>2 DEF Accounted
  <2> QED
    BY <1>a, <2>1, <2>3
<1>1. CASE Crawl
  <2>1. CASE form' = Blank /\ odd' = odd \union Covers(0)
             /\ Ajax({}, Request(presses + 1, "crawl", presses + 1, 0))
    <3> DEFINE r == Request(presses + 1, "crawl", presses + 1, 0)
    <3>1. r.to = presses + 1 /\ r.says = "crawl"
      BY DEF Request
    <3> HIDE DEF r
    <3>2. Numbered' /\ (\A s : s = r.to \/ Waits(s) => Waits(s)')
      BY <1>0, <2>1, AjaxWaits DEF r
    <3>3. Started' \subseteq Started \union {r.to}
      <4>1. stage' = [stage EXCEPT ![r.to] = IF page = "app" THEN "credentials" ELSE "work"]
        BY <1>0, <2>1, <3>1, AjaxUnfolds DEF r, Typed, Creates
      <4> QED
        BY <1>0, <4>1 DEF Started, Typed
    <3>4. ASSUME NEW s \in Started, Accounted(s) PROVE Accounted(s)'
      <4>1. odd \subseteq odd' /\ told' = told
        BY <1>1, <2>1 DEF Crawl
      <4>2. CASE s \in told \/ Dropped(s)
        BY <4>1, <4>2, DroppedStays DEF Accounted
      <4>3. CASE form.of = s /\ ~form.sent
        <5>1. s # 0
          BY DEF Started
        <5>2. <<"covered", s>> \in odd'
          BY <2>1, <4>3, <5>1 DEF Covers
        <5> QED
          BY <5>2 DEF Accounted, Dropped
      <4> QED
        BY <3>4, <4>2, <4>3 DEF Accounted
    <3> QED
      BY <1>0, <3>2, <3>3, <3>4 DEF FollowInv, Followed
  <2>2. CASE UNCHANGED <<form, odd, open, netVars, cache, stage, queue, data>>
    <3>1. told' = told
      BY <1>1 DEF Crawl
    <3>2. Followed'
      BY <1>a, <2>2, <3>1 DEF Started, Waits
    <3> QED
      BY <1>0, <2>2, <3>2 DEF FollowInv, Numbered
  <2> QED
    BY <1>1, <2>1, <2>2 DEF Crawl
<1>2. CASE Send
  <2> DEFINE r == Request(id, form.kind, form.of, form.no)
  <2>1. /\ form # Blank /\ Ajax({}, r) /\ form' = [form EXCEPT !.sent = TRUE]
        /\ odd' = odd \union (IF id # form.of THEN {"crossed"} \X {id, form.of} ELSE {})
                      \union (IF form.sent THEN {<<"again", id>>} ELSE {})
        /\ told' = told
    BY <1>2 DEF Send
  <2>2. r.to = id /\ r.says = form.kind
    BY DEF Request
  <2>3. form \in [kind : Codes, of : Crawled, no : Nat, sent : BOOLEAN]
    BY <1>0, <2>1 DEF Typed
  <2>4. form'.of = form.of /\ r.says # "crawl"
    BY <2>1, <2>2, <2>3
  <2> HIDE DEF r
  <2>5. Numbered' /\ (\A s : s = id \/ Waits(s) => Waits(s)')
    BY <1>0, <2>1, <2>2, AjaxWaits
  <2>6. stage' = stage
    BY <1>0, <2>1, <2>4, AjaxUnfolds DEF Typed, Lost, Comes
  <2>7. ASSUME NEW s \in Started, Accounted(s) PROVE Accounted(s)' \/ Waits(s)'
    <3>1. CASE s \in told \/ Dropped(s)
      BY <2>1, <3>1, DroppedStays DEF Accounted
    <3>2. CASE form.of = s /\ id = s
      BY <2>5, <3>2
    <3>3. CASE form.of = s /\ id # s
      <4>1. <<"crossed", s>> \in odd'
        BY <2>1, <3>3
      <4> QED
        BY <4>1 DEF Accounted, Dropped
    <3> QED
      BY <2>7, <3>1, <3>2, <3>3 DEF Accounted
  <2> QED
    BY <1>0, <2>5, <2>6, <2>7 DEF FollowInv, Followed, Started
<1>3. ASSUME NEW b \in back, Success(b) PROVE FollowInv'
  <2>1. SendsKey(b) \/ PollsOn(b) \/ ShowsForm(b) \/ Stops(b)
    BY <1>0, <1>3, SuccessUnfolds DEF Typed
  <2>2. ASSUME Last(b)
        PROVE  /\ Numbered' /\ Started' = Started
               /\ \A s : s # b.to /\ Waits(s) => Waits(s)'
    <3>1. /\ open' = open \ {b.n} /\ back' = back \ {b} /\ held' = held /\ stage' = stage
      BY <2>2 DEF Last
    <3>2. Numbered'
      BY <1>0, <3>1 DEF Numbered
    <3>3. ASSUME NEW s, s # b.to, Waits(s) PROVE Waits(s)'
      <4>1. PICK x \in held \union back : x.to = s /\ x.n \in open
        BY <3>3 DEF Waits
      <4>2. x.n # b.n /\ x # b
        BY <1>0, <3>3, <4>1 DEF Numbered
      <4> QED
        BY <3>1, <4>1, <4>2 DEF Waits
    <3> QED
      BY <3>1, <3>2, <3>3 DEF Started
  <2>3. ASSUME odd' = odd \union Covers(b.to), told' = told, NEW s \in Started, s # b.to,
               Accounted(s)
        PROVE  Accounted(s)'
    <3>1. CASE s \in told \/ Dropped(s)
      BY <2>3, <3>1, DroppedStays DEF Accounted
    <3>2. CASE form.of = s /\ ~form.sent
      <4>1. <<"covered", s>> \in odd'
        BY <2>3, <3>2 DEF Covers, Started
      <4> QED
        BY <4>1 DEF Accounted, Dropped
    <3> QED
      BY <2>3, <3>1, <3>2 DEF Accounted
  <2>4. ASSUME NEW r, r.to = b.to, r.says # "crawl", Ajax({b.n}, r)
        PROVE  /\ Numbered' /\ Started' = Started
               /\ \A s : s = b.to \/ Waits(s) => Waits(s)'
    <3>1. stage' = stage
      BY <1>0, <2>4, AjaxUnfolds DEF Typed, Lost, Comes
    <3> QED
      BY <1>0, <2>4, <3>1, AjaxWaits DEF Started
  <2>5. CASE SendsKey(b)
    <3> DEFINE r == Request(b.to, "credentials", typed, 0)
    <3>1. r.to = b.to /\ r.says # "crawl" /\ Ajax({b.n}, r)
      BY <2>5 DEF SendsKey, Request
    <3> HIDE DEF r
    <3>2. Numbered' /\ Started' = Started /\ (\A s : Waits(s) => Waits(s)')
      BY <2>4, <3>1
    <3>3. Followed'
      BY <1>a, <2>5, <3>2 DEF SendsKey
    <3> QED
      BY <3>2, <3>3 DEF FollowInv
  <2>6. CASE PollsOn(b)
    <3> DEFINE r == Request(b.to, "nothing", b.to, 0)
    <3>1. r.to = b.to /\ r.says # "crawl" /\ Ajax({b.n}, r)
      BY <2>6 DEF PollsOn, Request
    <3> HIDE DEF r
    <3>2. /\ Numbered' /\ Started' = Started
          /\ \A s : s = b.to \/ Waits(s) => Waits(s)'
      BY <2>4, <3>1
    <3>3. CASE UNCHANGED <<form, odd>>
      BY <1>a, <2>6, <3>2, <3>3 DEF PollsOn, FollowInv
    <3>4. CASE odd' = odd \union Covers(b.to)
      <4>1. \A s \in Started : s # b.to /\ Accounted(s) => Accounted(s)'
        BY <2>3, <2>6, <3>4 DEF PollsOn
      <4> QED
        BY <1>0, <3>2, <4>1 DEF FollowInv, Followed
    <3> QED
      BY <2>6, <3>3, <3>4 DEF PollsOn
  <2>7. CASE ShowsForm(b)
    <3>1. \A s \in Started : s # b.to /\ Accounted(s) => Accounted(s)'
      BY <2>3, <2>7 DEF ShowsForm
    <3>2. form'.of = b.to /\ ~form'.sent /\ Last(b)
      BY <2>7 DEF ShowsForm
    <3>3. Accounted(b.to)'
      BY <3>2 DEF Accounted
    <3> QED
      BY <1>0, <2>2, <3>1, <3>2, <3>3 DEF FollowInv, Followed
  <2>8. CASE Stops(b)
    <3>1. Last(b) /\ form' = form /\ odd \subseteq odd' /\ told \subseteq told'
      BY <2>8 DEF Stops
    <3>2. Accounted(b.to)'
      BY <2>8 DEF Stops, Accounted, Dropped
    <3>3. Followed'
      BY <1>a, <2>2, <3>1, <3>2
    <3> QED
      BY <2>2, <3>1, <3>3 DEF FollowInv
  <2> QED
    BY <2>1, <2>5, <2>6, <2>7, <2>8
<1>4. ASSUME NEW r \in held, Timeout(r) PROVE FollowInv'
  <2>1. /\ open' = open \ {r.n} /\ odd' = odd \union {<<"timeout", r.to>>}
        /\ UNCHANGED <<form, held, back, stage, told>>
    BY <1>4 DEF Timeout
  <2>2. Numbered'
    BY <1>0, <2>1 DEF Numbered
  <2>3. ASSUME NEW s, Waits(s) PROVE Accounted(s)' \/ Waits(s)'
    <3>1. PICK x \in held \union back : x.to = s /\ x.n \in open
      BY <2>3 DEF Waits
    <3>2. CASE x.n = r.n
      <4>1. x = r
        BY <1>0, <3>1, <3>2 DEF Numbered
      <4> QED
        BY <2>1, <3>1, <4>1 DEF Accounted, Dropped
    <3>3. CASE x.n # r.n
      BY <2>1, <3>1, <3>3 DEF Waits
    <3> QED
      BY <3>2, <3>3
  <2>4. Followed'
    BY <1>a, <2>1, <2>3 DEF Started
  <2> QED
    BY <2>2, <2>4 DEF FollowInv
<1>5. ASSUME NEW r \in held, Answer(r) PROVE FollowInv'
  <2>1. held' = held \ {r} /\ UNCHANGED <<form, open, stage, odd, told>>
    BY <1>5 DEF Answer
  <2>2. PICK b : /\ b.n = r.n /\ b.to = r.to
                 /\ back' = IF r.n \notin open THEN back ELSE back \union {b}
    <3>1. PICK m : Reply(r, m)
      BY <1>5 DEF Answer, GetMessage
    <3> DEFINE c == [n |-> r.n, to |-> r.to, status |-> m.status, no |-> m.no]
    <3>2. c.n = r.n /\ c.to = r.to
      OBVIOUS
    <3>3. back' = IF r.n \notin open THEN back ELSE back \union {c}
      BY <3>1 DEF Reply
    <3> HIDE DEF c
    <3> QED
      BY <3>2, <3>3
  <2>3. Numbered'
    <3>1. \A x, y \in held' : x.n = y.n => x = y
      BY <1>0, <2>1 DEF Numbered
    <3>2. \A x, y \in back' : x.n = y.n => x = y
      BY <1>0, <2>2 DEF Numbered
    <3>3. \A x \in held', y \in back' : x.n # y.n
      BY <1>0, <2>1, <2>2 DEF Numbered
    <3>4. \A y \in back' : y.n \in open'
      BY <1>0, <2>1, <2>2 DEF Numbered
    <3> QED
      BY <3>1, <3>2, <3>3, <3>4 DEF Numbered
  <2>4. ASSUME NEW s, Waits(s) PROVE Waits(s)'
    <3>1. PICK x \in held \union back : x.to = s /\ x.n \in open
      BY <2>4 DEF Waits
    <3>2. CASE x = r
      BY <2>1, <2>2, <3>1, <3>2 DEF Waits
    <3>3. CASE x # r
      BY <2>1, <2>2, <3>1, <3>3 DEF Waits
    <3> QED
      BY <3>2, <3>3
  <2>5. Followed'
    BY <1>a, <2>1, <2>4 DEF Started
  <2> QED
    BY <2>3, <2>5 DEF FollowInv
<1>b. ASSUME UNCHANGED <<form, open, netVars, histVars>>, Started' \subseteq Started PROVE FollowInv'
  <2>1. Numbered' /\ \A s : Waits(s) => Waits(s)'
    BY <1>0, <1>b DEF Numbered, Waits
  <2> QED
    BY <1>a, <1>b, <2>1 DEF FollowInv
<1>6. ASSUME NEW s \in Sessions, Expire(s) PROVE FollowInv'
  BY <1>0, <1>6, <1>b DEF Expire, Started, Typed
<1>c. ASSUME NEW s \in Sessions, NEW status, NEW no, NEW waits, stage[s] # "none",
             Say(s, status, no, waits)
      PROVE  FollowInv'
  BY <1>0, <1>b, <1>c DEF Say, Started, Typed
<1>7. ASSUME NEW s \in Sessions, Ask(s) PROVE FollowInv'
  BY <1>7, <1>c DEF Ask
<1>8. ASSUME NEW s \in Sessions, Tell(s) PROVE FollowInv'
  BY <1>8, <1>c DEF Tell
<1>9. ASSUME NEW s \in Sessions, End(s) PROVE FollowInv'
  BY <1>9, <1>c DEF End
<1>10. ASSUME NEW s \in Sessions, ReadInputArgs(s) PROVE FollowInv'
  BY <1>10, <1>b DEF ReadInputArgs, Started
<1>11. ASSUME NEW s \in Sessions, GetArgsValue(s) PROVE FollowInv'
  <2>1. /\ UNCHANGED <<form, open, netVars, histVars>> /\ stage' = [stage EXCEPT ![s] = "work"]
        /\ \E a \in data[s].args : a.says = stage[s]
    BY <1>11 DEF GetArgsValue
  <2>2. stage[s] # "none"
    <3>1. data[s] \in Data
      BY <1>0 DEF Typed
    <3> QED
      BY <2>1, <3>1, DataChanged DEF Parameter, Param
  <2>3. Started' \subseteq Started
    BY <1>0, <2>1, <2>2 DEF Started, Typed
  <2> QED
    BY <1>b, <2>1, <2>3
<1>12. CASE UNCHANGED vars
  BY <1>b, <1>12 DEF vars, Started
<1> QED
  BY <1>1, <1>2, <1>3, <1>4, <1>5, <1>6, <1>7, <1>8, <1>9, <1>10, <1>11, <1>12
  DEF Next, User, Browser, Server, Session, Timers

(* No crawl is left alone: the page waits for its session, shows a form of *)
(* it or knows its end, unless an answer, a timeout or another crawl came  *)
(* between in one of the four ways (app.js:21, 64-90, 98-110), whatever    *)
(* the number of crawls, forms and messages.                               *)
THEOREM FollowedHolds == FairSpec => []Followed
<1>1. Init => FollowInv
  BY DEF Init, FollowInv, Numbered, Followed, Started
<1>2. FollowInv => Followed
  BY DEF FollowInv
<1> QED
  BY <1>1, <1>2, WebClientTyped, FollowStep, PTL DEF FairSpec

(***************************************************************************)
(* A form reaches its session                                              *)
(***************************************************************************)

(* A session that is gone does not come back.                              *)
FormInv ==
    /\ \A b \in back : b.status = "gone" => b.to \notin cache
    /\ FormReaches

LEMMA AjaxGone ==
    ASSUME TInv, FormInv, NEW answered, NEW r, Ajax(answered, r), r.says # "crawl"
    PROVE  cache' = cache /\ \A b \in back' : b.status = "gone" => b.to \notin cache
<1>1. PICK n \in Nat :
        /\ cache' = cache
        /\ \/ r.to \notin cache /\ back' = Left(answered) \union {Gone(n, r.to)}
           \/ back' = Left(answered)
  BY AjaxUnfolds DEF TInv, Typed, Lost, Comes
<1>2. Left(answered) \subseteq back /\ Gone(n, r.to).to = r.to
  BY DEF Left, Gone
<1> QED
  BY <1>1, <1>2 DEF FormInv

LEMMA FormStep == TInv /\ FormInv /\ [Next]_vars => FormInv'
<1> SUFFICES ASSUME TInv, FormInv, [Next]_vars PROVE FormInv'
  OBVIOUS
<1> USE CodesKnown DEF pageVars, netVars, sessionVars, histVars
<1>0. Typed /\ Unborn
  BY DEF TInv
<1>a. ASSUME UNCHANGED <<id, presses, form>>, cache' \subseteq cache,
             \A b \in back' : b.status = "gone" => b.to \notin cache
      PROVE  FormInv'
  BY <1>a DEF FormInv, FormReaches
<1>b. \A b \in back : b.status = "gone" => b.to \notin cache
  BY DEF FormInv
<1>1. CASE Crawl
  <2>0. presses' = presses + 1 /\ presses \in Nat
    BY <1>0, <1>1 DEF Crawl, Typed
  <2>1. FormReaches'
    <3> SUFFICES ASSUME form' # Blank, presses' = 1 PROVE FALSE
      BY DEF FormReaches
    <3>1. form' = form /\ presses = 0
      BY <1>1, <2>0 DEF Crawl
    <3> QED
      BY <1>0, <3>1 DEF Typed, Crawled
  <2>2. ASSUME NEW b \in back', b.status = "gone" PROVE b.to \notin cache'
    <3>1. CASE Ajax({}, Request(presses + 1, "crawl", presses + 1, 0))
      <4> DEFINE r == Request(presses + 1, "crawl", presses + 1, 0)
      <4>1. r.says = "crawl" /\ r.to = presses + 1
        BY DEF Request
      <4> HIDE DEF r
      <4>2. back' = Left({}) /\ cache' = cache \union {presses + 1}
        BY <1>0, <3>1, <4>1, AjaxUnfolds DEF Typed, Creates, r
      <4>3. b \in back
        BY <4>2 DEF Left
      <4>4. b.to # presses + 1
        BY <1>0, <2>0, <4>3 DEF Typed, Back, Crawled
      <4> QED
        BY <1>b, <2>2, <4>2, <4>3, <4>4
    <3>2. CASE UNCHANGED <<form, odd, open, netVars, cache, stage, queue, data>>
      BY <1>b, <2>2, <3>2
    <3> QED
      BY <1>1, <3>1, <3>2 DEF Crawl
  <2> QED
    BY <2>1, <2>2 DEF FormInv
<1>2. CASE Send
  <2> DEFINE r == Request(id, form.kind, form.of, form.no)
  <2>1. /\ form # Blank /\ Ajax({}, r) /\ form' = [form EXCEPT !.sent = TRUE]
        /\ UNCHANGED <<id, presses>>
    BY <1>2 DEF Send
  <2>2. form \in [kind : Codes, of : Crawled, no : Nat, sent : BOOLEAN]
    BY <1>0, <2>1 DEF Typed
  <2>3. form'.of = form.of /\ r.says # "crawl"
    BY <2>1, <2>2 DEF Request
  <2> HIDE DEF r
  <2>4. cache' = cache /\ \A b \in back' : b.status = "gone" => b.to \notin cache
    BY <2>1, <2>3, AjaxGone
  <2> QED
    BY <2>1, <2>3, <2>4 DEF FormInv, FormReaches
<1>3. ASSUME NEW b \in back, Success(b) PROVE FormInv'
  <2>1. /\ id' = IF b.status = "gone" THEN 0 ELSE b.to
        /\ SendsKey(b) \/ PollsOn(b) \/ ShowsForm(b) \/ Stops(b)
        /\ presses' = presses
    BY <1>0, <1>3, SuccessUnfolds DEF Typed
  <2>2. cache' = cache /\ \A x \in back' : x.status = "gone" => x.to \notin cache
    <3>1. CASE SendsKey(b)
      <4>1. Request(b.to, "credentials", typed, 0).says # "crawl"
        BY DEF Request
      <4> QED
        BY <3>1, <4>1, AjaxGone DEF SendsKey
    <3>2. CASE PollsOn(b)
      <4>1. Request(b.to, "nothing", b.to, 0).says # "crawl"
        BY DEF Request
      <4> QED
        BY <3>2, <4>1, AjaxGone DEF PollsOn
    <3>3. CASE Last(b)
      BY <1>b, <3>3 DEF Last
    <3> QED
      BY <2>1, <3>1, <3>2, <3>3 DEF ShowsForm, Stops
  <2>3. FormReaches'
    <3> SUFFICES ASSUME form' # Blank, presses' = 1
                 PROVE  id' = form'.of \/ form'.of \notin cache'
      BY DEF FormReaches
    <3>1. b.to = 1
      BY <1>0, <2>1 DEF Typed, Back, Crawled
    <3>2. CASE ShowsForm(b)
      <4>1. b.status # "gone"
        BY <3>2 DEF ShowsForm, Forms, AppForms, QrForms
      <4> QED
        BY <2>1, <3>2, <4>1 DEF ShowsForm
    <3>3. CASE ~ShowsForm(b)
      <4>1. form' = form
        BY <2>1, <3>3 DEF SendsKey, PollsOn, Stops
      <4>2. form.of = 1
        BY <1>0, <2>1, <4>1 DEF Typed, Crawled
      <4> QED
        BY <1>b, <2>1, <2>2, <3>1, <4>1, <4>2
    <3> QED
      BY <3>2, <3>3
  <2> QED
    BY <2>2, <2>3 DEF FormInv
<1>4. ASSUME NEW r \in held, Timeout(r) PROVE FormInv'
  BY <1>4, <1>a, <1>b DEF Timeout
<1>5. ASSUME NEW r \in held, Answer(r) PROVE FormInv'
  <2>1. UNCHANGED <<id, presses, form>> /\ cache' \subseteq cache
    BY <1>5 DEF Answer
  <2>2. PICK m : m.status # "gone" /\ Reply(r, m)
    <3>0. r.to \in Sessions
      BY <1>0 DEF Typed, Held, Crawled
    <3>1. queue[r.to] # <<>> => Head(queue[r.to]) \in Message
      BY <1>0, <3>0, HeadTailProperties DEF Typed
    <3>2. \A m \in Message : m.status # "gone"
      BY DEF Message, Status
    <3>3. [status |-> "over", no |-> 0].status # "gone"
      OBVIOUS
    <3> QED
      BY <1>5, <3>1, <3>2, <3>3 DEF Answer, GetMessage
  <2> DEFINE c == [n |-> r.n, to |-> r.to, status |-> m.status, no |-> m.no]
  <2>3. c.status # "gone" /\ back' \subseteq back \union {c}
    BY <2>2 DEF Reply
  <2> HIDE DEF c
  <2>4. \A b \in back' : b.status = "gone" => b.to \notin cache
    BY <1>b, <2>3
  <2> QED
    BY <1>a, <2>1, <2>4
<1>6. ASSUME NEW s \in Sessions, Expire(s) PROVE FormInv'
  BY <1>6, <1>a, <1>b DEF Expire
<1>7. ASSUME NEW s \in Sessions, Ask(s) PROVE FormInv'
  BY <1>7, <1>a, <1>b DEF Ask, Say
<1>8. ASSUME NEW s \in Sessions, Tell(s) PROVE FormInv'
  BY <1>8, <1>a, <1>b DEF Tell, Say
<1>9. ASSUME NEW s \in Sessions, End(s) PROVE FormInv'
  BY <1>9, <1>a, <1>b DEF End, Say
<1>10. ASSUME NEW s \in Sessions, ReadInputArgs(s) PROVE FormInv'
  BY <1>10, <1>a, <1>b DEF ReadInputArgs
<1>11. ASSUME NEW s \in Sessions, GetArgsValue(s) PROVE FormInv'
  BY <1>11, <1>a, <1>b DEF GetArgsValue
<1>12. CASE UNCHANGED vars
  BY <1>12, <1>a, <1>b DEF vars
<1> QED
  BY <1>1, <1>2, <1>3, <1>4, <1>5, <1>6, <1>7, <1>8, <1>9, <1>10, <1>11, <1>12
  DEF Next, User, Browser, Server, Session, Timers

(* With one press of the button, what the user sends reaches the session   *)
(* that asked, or nobody (app.js:21, 148): an answer without an id does    *)
(* not lead a form to where it does not belong.                            *)
THEOREM FormReachesHolds == FairSpec => []FormReaches
<1>1. Init => FormInv
  BY DEF Init, FormInv, FormReaches
<1>2. FormInv => FormReaches
  BY DEF FormInv
<1> QED
  BY <1>1, <1>2, WebClientTyped, FormStep, PTL DEF FairSpec

(***************************************************************************)
(* A parameter meets its question                                          *)
(***************************************************************************)

LEMMA Grown ==
    ASSUME NEW S, NEW q \in Seq(S), NEW x \in S
    PROVE  /\ \A i \in DOMAIN Append(q, x) :
                  \/ i \in DOMAIN q /\ i # Len(q) + 1 /\ Append(q, x)[i] = q[i]
                  \/ i = Len(q) + 1 /\ Append(q, x)[i] = x
<1>1. Len(q) \in Nat /\ DOMAIN q = 1..Len(q)
  BY LenProperties
<1>2. /\ Append(q, x) \in Seq(S) /\ Len(Append(q, x)) = Len(q) + 1
      /\ \A i \in 1..Len(q) : Append(q, x)[i] = q[i]
      /\ Append(q, x)[Len(q) + 1] = x
  BY AppendProperties
<1>3. DOMAIN Append(q, x) = 1..Len(q) + 1
  BY <1>2, LenProperties
<1> QED
  BY <1>1, <1>2, <1>3

LEMMA Shrunk ==
    ASSUME NEW S, NEW q \in Seq(S), q # <<>>
    PROVE  /\ 1 \in DOMAIN q /\ Head(q) = q[1]
           /\ \A i \in DOMAIN Tail(q) :
                  i \in Nat /\ i + 1 \in DOMAIN q /\ i + 1 # 1 /\ Tail(q)[i] = q[i + 1]
<1>1. Len(q) \in Nat \ {0} /\ DOMAIN q = 1..Len(q)
  BY EmptySeq, LenProperties
<1>2. /\ Head(q) = q[1] /\ Tail(q) \in Seq(S) /\ Len(Tail(q)) = Len(q) - 1
      /\ \A i \in 1..Len(Tail(q)) : Tail(q)[i] = q[i + 1]
  BY HeadTailProperties
<1>3. DOMAIN Tail(q) = 1..Len(Tail(q))
  BY <1>2, LenProperties
<1> QED
  BY <1>1, <1>2, <1>3

(* What was sent to a session: credentials of its press or a later one,    *)
(* and what was typed for a form of its own, unless it was crossed.        *)
SentFor(a, s, o) ==
    IF a.says = "credentials" THEN a.from >= s ELSE a.from = s \/ <<"crossed", s>> \in o
ParamInv ==
    \A s \in Sessions :
        /\ \A a \in data[s].args : SentFor(a, s, odd)
        /\ \A i \in DOMAIN data[s].input : SentFor(data[s].input[i], s, odd)

(* Where a question of kind k of session s, or the answer to it, may be.   *)
Queued(s, k) == {i \in DOMAIN queue[s] : queue[s][i].status = k}
Coming(s, k) == {b \in back : b.to = s /\ b.status = k}
Shown(s, k) == form.kind = k /\ form.of = s /\ ~form.sent
Brought(s, k) == {i \in DOMAIN data[s].input : data[s].input[i].says = k}
ReadIn(s, k) == {a \in data[s].args : a.says = k}

Nowhere(s, k) ==
    /\ Queued(s, k) = {} /\ Coming(s, k) = {} /\ ~Shown(s, k)
    /\ Brought(s, k) = {} /\ ReadIn(s, k) = {}

Single(S) == \A x, y \in S : x = y

(* It is in one place, and is the last one the session has asked.          *)
OnePlace(s, k) ==
    /\ Single(Queued(s, k)) /\ Single(Coming(s, k))
    /\ Single(Brought(s, k)) /\ Single(ReadIn(s, k))
    /\ Queued(s, k) = {} \/ (Coming(s, k) = {} /\ ~Shown(s, k) /\ Brought(s, k) = {} /\ ReadIn(s, k) = {})
    /\ Coming(s, k) = {} \/ (~Shown(s, k) /\ Brought(s, k) = {} /\ ReadIn(s, k) = {})
    /\ Shown(s, k) => Brought(s, k) = {} /\ ReadIn(s, k) = {}
    /\ Brought(s, k) = {} \/ ReadIn(s, k) = {}
Current(s, k) ==
    LET n == data[s].asked[k] IN
    /\ \A i \in Queued(s, k) : queue[s][i].no = n
    /\ \A b \in Coming(s, k) : b.no = n
    /\ Shown(s, k) => form.no = n
    /\ \A i \in Brought(s, k) : data[s].input[i].no = n
    /\ \A a \in ReadIn(s, k) : a.no = n

Working(s) == stage[s] \notin {"none", "over", "closed"}
Undisturbed(s) == <<"again", s>> \notin odd /\ <<"crossed", s>> \notin odd

(* A session that works, and whose forms were neither sent twice nor       *)
(* crossed, waits for the answer to one question at a time.                *)
FreshAt(s, k) ==
    Working(s) /\ Undisturbed(s) =>
        IF stage[s] = k THEN OnePlace(s, k) /\ Current(s, k) ELSE Nowhere(s, k)

MeetInv ==
    /\ ParamInv
    /\ \A s \in Sessions, k \in Codes : FreshAt(s, k)
    /\ MeetsItsQuestion

(* A request with what the user typed, or with nothing.                    *)
LEMMA AjaxBrings ==
    ASSUME Typed, NEW answered, NEW r, Ajax(answered, r), r.says # "crawl"
    PROVE  /\ UNCHANGED <<cache, stage, queue>>
           /\ \A x \in back' : x \in back \/ x.status = "gone"
           /\ \/ data' = data
              \/ /\ r.to \in cache /\ stage[r.to] # "over" /\ r.says # "nothing"
                 /\ data' = [data EXCEPT ![r.to].input = Append(@, r)]
<1>1. PICK n \in Nat :
        \/ Lost(r) /\ back' = Left(answered) \union {Gone(n, r.to)}
        \/ Comes(r) /\ back' = Left(answered)
  BY AjaxUnfolds DEF Typed
<1>2. Left(answered) \subseteq back /\ Gone(n, r.to).status = "gone"
  BY DEF Left, Gone
<1> QED
  BY <1>1, <1>2 DEF Lost, Comes

(* What does not bring a question of kind k of session s, or its answer,   *)
(* to where it was not; the queue and the input may lose their heads.      *)
LEMMA FreshShrinks ==
    ASSUME NEW s \in Sessions, NEW k \in Codes, FreshAt(s, k),
           NEW p \in Nat, NEW q \in Nat,
           \A i \in Queued(s, k)' : /\ i \in Nat /\ i + p \in Queued(s, k)
                                    /\ queue'[s][i].no = queue[s][i + p].no,
           \A i \in Brought(s, k)' : /\ i \in Nat /\ i + q \in Brought(s, k)
                                     /\ data'[s].input[i].no = data[s].input[i + q].no,
           Coming(s, k)' \subseteq Coming(s, k), ReadIn(s, k)' \subseteq ReadIn(s, k),
           Shown(s, k)' => Shown(s, k) /\ form'.no = form.no,
           data'[s].asked[k] = data[s].asked[k],
           stage'[s] = stage[s], odd \subseteq odd'
    PROVE  FreshAt(s, k)'
<1> SUFFICES ASSUME Working(s)', Undisturbed(s)'
             PROVE  IF stage'[s] = k THEN OnePlace(s, k)' /\ Current(s, k)' ELSE Nowhere(s, k)'
  BY DEF FreshAt
<1>2. Working(s) /\ Undisturbed(s)
  BY DEF Working, Undisturbed
<1>3. CASE stage[s] = k
  <2>1. OnePlace(s, k) /\ Current(s, k)
    BY <1>2, <1>3 DEF FreshAt
  <2>2. Single(Queued(s, k)') /\ Single(Brought(s, k)')
    BY <2>1 DEF OnePlace, Single
  <2>3. Single(Coming(s, k)') /\ Single(ReadIn(s, k)')
    BY <2>1 DEF OnePlace, Single
  <2>4. /\ Queued(s, k) = {} => Queued(s, k)' = {}
        /\ Coming(s, k) = {} => Coming(s, k)' = {}
        /\ Brought(s, k) = {} => Brought(s, k)' = {}
        /\ ReadIn(s, k) = {} => ReadIn(s, k)' = {}
    OBVIOUS
  <2>5. OnePlace(s, k)'
    BY <2>1, <2>2, <2>3, <2>4 DEF OnePlace
  <2>6. Current(s, k)'
    BY <2>1 DEF Current
  <2> QED
    BY <1>3, <2>5, <2>6
<1>4. CASE stage[s] # k
  <2>1. Nowhere(s, k)
    BY <1>2, <1>4 DEF FreshAt
  <2> QED
    BY <1>4, <2>1 DEF Nowhere
<1> QED
  BY <1>3, <1>4

(* What another session, a lost answer or a form of another session does   *)
(* not change.                                                             *)
LEMMA FreshStays ==
    ASSUME Typed, NEW s \in Sessions, NEW k \in Codes, FreshAt(s, k),
           queue'[s] = queue[s], data'[s] = data[s], stage'[s] = stage[s],
           odd \subseteq odd', Coming(s, k)' \subseteq Coming(s, k),
           Shown(s, k)' => Shown(s, k) /\ form'.no = form.no
    PROVE  FreshAt(s, k)'
<1>1. /\ Queued(s, k)' = Queued(s, k) /\ Brought(s, k)' = Brought(s, k)
      /\ ReadIn(s, k)' = ReadIn(s, k)
  BY DEF Queued, Brought, ReadIn
<1>2. queue[s] \in Seq(Message) /\ data[s].input \in Seq(Parameter)
  BY DataChanged DEF Typed
<1>3. Queued(s, k) \subseteq Nat /\ Brought(s, k) \subseteq Nat
  BY <1>2, LenProperties DEF Queued, Brought
<1>4. \A i \in Nat : i + 0 = i
  OBVIOUS
<1>5. /\ \A i \in Queued(s, k)' : i \in Nat /\ i + 0 \in Queued(s, k)
                                /\ queue'[s][i].no = queue[s][i + 0].no
      /\ \A i \in Brought(s, k)' : i \in Nat /\ i + 0 \in Brought(s, k)
                                 /\ data'[s].input[i].no = data[s].input[i + 0].no
  BY <1>1, <1>3, <1>4
<1>6. ReadIn(s, k)' \subseteq ReadIn(s, k) /\ data'[s].asked[k] = data[s].asked[k] /\ 0 \in Nat
  BY <1>1
<1> QED
  BY <1>5, <1>6, FreshShrinks

(* The steps that touch the parameters of a session.                       *)
LEMMA DataSteps ==
    ASSUME TInv, NEW s \in Sessions
    PROVE  /\ data[s] \in Data /\ data[s].input \in Seq(Parameter)
           /\ data[s].args \subseteq Parameter
           /\ \A d : data' = [data EXCEPT ![s] = d] =>
                  data'[s] = d /\ \A t \in Sessions \ {s} : data'[t] = data[t]
           /\ \A r : data' = [data EXCEPT ![s].input = Append(@, r)] =>
                  /\ data'[s].input = Append(data[s].input, r)
                  /\ data'[s].args = data[s].args /\ data'[s].asked = data[s].asked
                  /\ \A t \in Sessions \ {s} : data'[t] = data[t]
           /\ ReadInputArgs(s) =>
                  /\ data[s].input # <<>> /\ data'[s].input = Tail(data[s].input)
                  /\ data'[s].args = {a \in data[s].args : a.says # Head(data[s].input).says}
                                        \union {Head(data[s].input)}
                  /\ data'[s].asked = data[s].asked
                  /\ \A t \in Sessions \ {s} : data'[t] = data[t]
           /\ \A a : data' = [data EXCEPT ![s].args = @ \ {a}] =>
                  /\ data'[s].args = data[s].args \ {a} /\ data'[s].input = data[s].input
                  /\ data'[s].asked = data[s].asked
                  /\ \A t \in Sessions \ {s} : data'[t] = data[t]
<1>1. data \in [Sessions -> Data] /\ data[s] \in Data
  BY DEF TInv, Typed
<1>2. data[s].input \in Seq(Parameter) /\ data[s].args \subseteq Parameter
  BY <1>1, DataChanged
<1>4. \A d : data' = [data EXCEPT ![s] = d] =>
          data'[s] = d /\ \A t \in Sessions \ {s} : data'[t] = data[t]
  BY <1>1
<1>5. ASSUME NEW r, data' = [data EXCEPT ![s].input = Append(@, r)]
      PROVE  /\ data'[s].input = Append(data[s].input, r)
             /\ data'[s].args = data[s].args /\ data'[s].asked = data[s].asked
             /\ \A t \in Sessions \ {s} : data'[t] = data[t]
  <2>1. data'[s] = [data[s] EXCEPT !.input = Append(data[s].input, r)]
    BY <1>1, <1>5
  <2> HIDE DEF Parameter
  <2>2. \A t \in Sessions \ {s} : data'[t] = data[t]
    BY <1>1, <1>5
  <2> QED
    BY <1>1, <2>1, <2>2 DEF Data
<1>6. ASSUME ReadInputArgs(s)
      PROVE  /\ data[s].input # <<>> /\ data'[s].input = Tail(data[s].input)
             /\ data'[s].args = {a \in data[s].args : a.says # Head(data[s].input).says}
                                   \union {Head(data[s].input)}
             /\ data'[s].asked = data[s].asked
             /\ \A t \in Sessions \ {s} : data'[t] = data[t]
  <2> DEFINE r == Head(data[s].input)
             g == {a \in data[s].args : a.says # r.says} \union {r}
             d == [data[s] EXCEPT !.input = Tail(data[s].input), !.args = g]
  <2>1. data[s].input # <<>> /\ data' = [data EXCEPT ![s] = d]
    BY <1>1, <1>6 DEF ReadInputArgs
  <2> HIDE DEF g
  <2>2. d.input = Tail(data[s].input) /\ d.args = g /\ d.asked = data[s].asked
    BY <1>1 DEF Data
  <2> HIDE DEF d
  <2> QED
    BY <1>4, <2>1, <2>2 DEF g
<1>7. ASSUME NEW a, data' = [data EXCEPT ![s].args = @ \ {a}]
      PROVE  /\ data'[s].args = data[s].args \ {a} /\ data'[s].input = data[s].input
             /\ data'[s].asked = data[s].asked
             /\ \A t \in Sessions \ {s} : data'[t] = data[t]
  <2>1. data'[s] = [data[s] EXCEPT !.args = data[s].args \ {a}]
    BY <1>1, <1>7
  <2> HIDE DEF Parameter
  <2>2. \A t \in Sessions \ {s} : data'[t] = data[t]
    BY <1>1, <1>7
  <2> QED
    BY <1>1, <2>1, <2>2 DEF Data
<1> QED
  BY <1>1, <1>2, <1>4, <1>5, <1>6, <1>7

(* The history of oddities only grows.                                     *)
LEMMA OddGrows == TInv /\ [Next]_vars => odd \subseteq odd'
<1> SUFFICES ASSUME TInv, [Next]_vars PROVE odd \subseteq odd'
  OBVIOUS
<1>1. ASSUME NEW b \in back, Success(b) PROVE odd \subseteq odd'
  <2>1. SendsKey(b) \/ PollsOn(b) \/ ShowsForm(b) \/ Stops(b)
    BY <1>1, SuccessUnfolds DEF TInv, Typed
  <2> QED
    BY <2>1 DEF SendsKey, PollsOn, ShowsForm, Stops
<1>2. CASE User
  BY <1>2 DEF User, Crawl, Send
<1>3. CASE Session \/ Timers
  BY <1>3 DEF Session, Timers, Ask, Tell, End, Say, ReadInputArgs, GetArgsValue, Expire, histVars
<1>4. ASSUME NEW r \in held, Timeout(r) \/ Answer(r) PROVE odd \subseteq odd'
  BY <1>4 DEF Timeout, Answer, histVars
<1>5. CASE UNCHANGED vars
  BY <1>5 DEF vars, histVars
<1> QED
  BY <1>1, <1>2, <1>3, <1>4, <1>5 DEF Next, Browser, Server

LEMMA ParamStep == TInv /\ ParamInv /\ [Next]_vars => ParamInv'
<1> SUFFICES ASSUME TInv, ParamInv, [Next]_vars PROVE ParamInv'
  OBVIOUS
<1> USE CodesKnown DEF pageVars, netVars, sessionVars, histVars
<1>0. Typed /\ odd \subseteq odd'
  BY OddGrows DEF TInv
<1>1. \A a, s : SentFor(a, s, odd) => SentFor(a, s, odd')
  BY <1>0 DEF SentFor
<1>a. ASSUME NEW s \in Sessions, \A t \in Sessions \ {s} : data'[t] = data[t],
             \A a \in data'[s].args : a \in data[s].args \/ SentFor(a, s, odd'),
             \A i \in DOMAIN data'[s].input : SentFor(data'[s].input[i], s, odd')
      PROVE  ParamInv'
  BY <1>1, <1>a DEF ParamInv
<1>b. ASSUME data' = data PROVE ParamInv'
  BY <1>1, <1>b DEF ParamInv
<1>c. ASSUME NEW s \in Sessions, data' = [data EXCEPT ![s] = NoData] PROVE ParamInv'
  <2>1. data'[s] = NoData /\ \A t \in Sessions \ {s} : data'[t] = data[t]
    BY <1>c, DataSteps
  <2>2. DOMAIN <<>> = {}
    OBVIOUS
  <2> QED
    BY <1>a, <2>1, <2>2 DEF NoData
<1>d. ASSUME NEW s \in Sessions, NEW r \in Parameter, SentFor(r, s, odd'),
             data' = [data EXCEPT ![s].input = Append(@, r)]
      PROVE  ParamInv'
  <2>1. /\ data[s].input \in Seq(Parameter)
        /\ data'[s].input = Append(data[s].input, r)
        /\ data'[s].args = data[s].args
        /\ \A t \in Sessions \ {s} : data'[t] = data[t]
    BY <1>d, DataSteps
  <2>2. ASSUME NEW i \in DOMAIN data'[s].input PROVE SentFor(data'[s].input[i], s, odd')
    <3>1. \/ i \in DOMAIN data[s].input /\ data'[s].input[i] = data[s].input[i]
          \/ data'[s].input[i] = r
      BY <2>1, Grown
    <3> QED
      BY <1>1, <1>d, <3>1 DEF ParamInv
  <2> QED
    BY <1>a, <2>1, <2>2
<1>2. CASE Crawl
  <2>1. CASE Ajax({}, Request(presses + 1, "crawl", presses + 1, 0))
    <3> DEFINE r == Request(presses + 1, "crawl", presses + 1, 0)
    <3>1. r.says = "crawl"
      BY DEF Request
    <3> HIDE DEF r
    <3>2. data' = data
      BY <1>0, <2>1, <3>1, AjaxUnfolds DEF Typed, Creates, r
    <3> QED
      BY <1>b, <3>2
  <2>2. CASE data' = data
    BY <1>b, <2>2
  <2> QED
    BY <1>2, <2>1, <2>2 DEF Crawl
<1>3. CASE Send
  <2> DEFINE r == Request(id, form.kind, form.of, form.no)
  <2>1. /\ form # Blank /\ id # 0 /\ Ajax({}, r)
        /\ id # form.of => <<"crossed", id>> \in odd'
    BY <1>3 DEF Send
  <2>2. form \in [kind : Codes, of : Crawled, no : Nat, sent : BOOLEAN] /\ id \in Sessions
    BY <1>0, <2>1 DEF Typed
  <2>3. r \in Parameter /\ SentFor(r, id, odd') /\ r.says # "crawl" /\ r.to = id
    BY <1>0, <2>1, <2>2 DEF Request, Parameter, Param, Crawled, SentFor, Typed
  <2> HIDE DEF r
  <2>4. data' = data \/ data' = [data EXCEPT ![id].input = Append(@, r)]
    BY <1>0, <2>1, <2>3, AjaxBrings
  <2> QED
    BY <1>b, <1>d, <2>2, <2>3, <2>4
<1>4. ASSUME NEW b \in back, Success(b) PROVE ParamInv'
  <2>1. SendsKey(b) \/ PollsOn(b) \/ ShowsForm(b) \/ Stops(b)
    BY <1>0, <1>4, SuccessUnfolds DEF Typed
  <2>2. b.to \in 1..presses /\ presses \in 0..MaxCrawls /\ typed = presses
    BY <1>0 DEF Typed, Back, Crawled
  <2>3. CASE SendsKey(b)
    <3> DEFINE r == Request(b.to, "credentials", typed, 0)
    <3>1. r \in Parameter /\ SentFor(r, b.to, odd') /\ r.says # "crawl" /\ r.to = b.to
      BY <2>2 DEF Request, Parameter, Param, SentFor
    <3> HIDE DEF r
    <3>2. data' = data \/ data' = [data EXCEPT ![b.to].input = Append(@, r)]
      BY <1>0, <2>3, <3>1, AjaxBrings DEF SendsKey, r
    <3>3. b.to \in Sessions
      BY <2>2
    <3> QED
      BY <1>b, <1>d, <3>1, <3>2, <3>3
  <2>4. CASE PollsOn(b)
    <3> DEFINE r == Request(b.to, "nothing", b.to, 0)
    <3>1. r.says = "nothing"
      BY DEF Request
    <3> HIDE DEF r
    <3>2. data' = data
      BY <1>0, <2>4, <3>1, AjaxBrings DEF PollsOn, r
    <3> QED
      BY <1>b, <3>2
  <2> QED
    BY <1>b, <2>1, <2>3, <2>4 DEF ShowsForm, Stops, Last
<1>5. ASSUME NEW r \in held, Timeout(r) \/ Answer(r) PROVE ParamInv'
  BY <1>5, <1>b DEF Timeout, Answer
<1>6. ASSUME NEW s \in Sessions, Expire(s) \/ End(s) PROVE ParamInv'
  BY <1>6, <1>c DEF Expire, End
<1>7. ASSUME NEW s \in Sessions, Tell(s) PROVE ParamInv'
  BY <1>7, <1>b DEF Tell
<1>8. ASSUME NEW s \in Sessions, Ask(s) PROVE ParamInv'
  <2>1. PICK k \in Codes :
            data' = [data EXCEPT ![s].asked[k] = @ + 1,
                          ![s].args = {a \in @ : a.says = k => data[s].asked[k] = 0}]
    BY <1>8 DEF Ask
  <2>2. data \in [Sessions -> Data] /\ data[s] \in Data
    BY <1>0 DEF Typed
  <2>3. /\ data'[s].input = data[s].input /\ data'[s].args \subseteq data[s].args
        /\ \A t \in Sessions \ {s} : data'[t] = data[t]
    BY <2>1, <2>2 DEF Data
  <2> QED
    BY <1>1, <1>a, <2>3 DEF ParamInv
<1>9. ASSUME NEW s \in Sessions, ReadInputArgs(s) PROVE ParamInv'
  <2>1. /\ data[s].input \in Seq(Parameter) /\ data[s].input # <<>>
        /\ data'[s].input = Tail(data[s].input)
        /\ data'[s].args \subseteq data[s].args \union {Head(data[s].input)}
        /\ \A t \in Sessions \ {s} : data'[t] = data[t]
    BY <1>9, DataSteps
  <2>2. SentFor(Head(data[s].input), s, odd)
    BY <2>1, Shrunk DEF ParamInv
  <2>3. ASSUME NEW i \in DOMAIN data'[s].input PROVE SentFor(data'[s].input[i], s, odd)
    <3>1. i + 1 \in DOMAIN data[s].input /\ data'[s].input[i] = data[s].input[i + 1]
      BY <2>1, Shrunk
    <3> QED
      BY <3>1 DEF ParamInv
  <2> QED
    BY <1>1, <1>a, <2>1, <2>2, <2>3
<1>10. ASSUME NEW s \in Sessions, GetArgsValue(s) PROVE ParamInv'
  <2>1. PICK a : data' = [data EXCEPT ![s].args = @ \ {a}]
    BY <1>10 DEF GetArgsValue
  <2>2. /\ data'[s].input = data[s].input /\ data'[s].args \subseteq data[s].args
        /\ \A t \in Sessions \ {s} : data'[t] = data[t]
    BY <2>1, DataSteps
  <2> QED
    BY <1>1, <1>a, <2>2 DEF ParamInv
<1>11. CASE UNCHANGED vars
  BY <1>11, <1>b DEF vars
<1> QED
  BY <1>2, <1>3, <1>4, <1>5, <1>6, <1>7, <1>8, <1>9, <1>10, <1>11
  DEF Next, User, Browser, Server, Session, Timers

(***************************************************************************)
(* A question is in one place                                              *)
(***************************************************************************)

(* What a session says goes to the end of its queue.                       *)
LEMMA SaidAt ==
    ASSUME Typed, NEW s \in Sessions, NEW status \in Status, NEW no \in Nat, NEW waits,
           Say(s, status, no, waits), NEW k \in Codes, Queued(s, k) = {}
    PROVE  /\ stage'[s] = waits
           /\ status # k => Queued(s, k)' = {}
           /\ Single(Queued(s, k)') /\ \A i \in Queued(s, k)' : queue'[s][i].no = no
<1> DEFINE m == [status |-> status, no |-> no]
<1>1. /\ queue[s] \in Seq(Message) /\ m \in Message
      /\ queue'[s] = Append(queue[s], m) /\ stage'[s] = waits
  BY DEF Typed, Say, Message
<1>2. m.status = status /\ m.no = no
  OBVIOUS
<1> HIDE DEF m, Message
<1>3. \A i \in DOMAIN queue'[s] :
          \/ i \in DOMAIN queue[s] /\ queue'[s][i] = queue[s][i]
          \/ i = Len(queue[s]) + 1 /\ queue'[s][i] = m
  BY <1>1, Grown
<1>4. \A i \in Queued(s, k)' : i = Len(queue[s]) + 1 /\ queue'[s][i] = m /\ m.status = k
  BY <1>3 DEF Queued
<1> QED
  BY <1>1, <1>2, <1>4 DEF Single

LEMMA FreshAsk ==
    ASSUME TInv, NEW s \in Sessions, Ask(s), NEW k \in Codes, FreshAt(s, k)
    PROVE  FreshAt(s, k)'
<1> USE CodesKnown
<1>0. Typed
  BY DEF TInv
<1>1. stage[s] = "work" /\ UNCHANGED <<pageVars, netVars, cache, used, histVars>>
  BY DEF Ask, Say
<1> SUFFICES ASSUME Working(s)', Undisturbed(s)'
             PROVE  IF stage'[s] = k THEN OnePlace(s, k)' /\ Current(s, k)' ELSE Nowhere(s, k)'
  BY DEF FreshAt
<1>2. Nowhere(s, k)
  <2>1. Undisturbed(s) /\ Working(s) /\ stage[s] # k
    BY <1>1 DEF Undisturbed, Working, histVars
  <2> QED
    BY <2>1 DEF FreshAt
<1>3. PICK c \in Codes :
        /\ data' = [data EXCEPT ![s].asked[c] = @ + 1,
                       ![s].args = {a \in @ : a.says = c => data[s].asked[c] = 0}]
        /\ \E status \in {c, "strange"} : Say(s, status, data[s].asked[c] + 1, c)
  BY DEF Ask
<1>4. PICK status \in {c, "strange"} : Say(s, status, data[s].asked[c] + 1, c)
  BY <1>3
<1>5. /\ data'[s].asked[c] = data[s].asked[c] + 1 /\ data[s].asked[c] \in Nat
      /\ data'[s].input = data[s].input /\ data'[s].args \subseteq data[s].args
  BY <1>0, <1>3 DEF Typed, Data
<1>6. Coming(s, k)' = {} /\ ~Shown(s, k)' /\ Brought(s, k)' = {} /\ ReadIn(s, k)' = {}
  BY <1>1, <1>2, <1>5 DEF Nowhere, Coming, Shown, Brought, ReadIn, pageVars, netVars
<1>7. /\ stage'[s] = c
      /\ status # k => Queued(s, k)' = {}
      /\ Single(Queued(s, k)')
      /\ \A i \in Queued(s, k)' : queue'[s][i].no = data[s].asked[c] + 1
  BY <1>0, <1>2, <1>4, <1>5, SaidAt DEF Nowhere, Status
<1>8. CASE c = k
  <2>1. OnePlace(s, k)'
    BY <1>6, <1>7 DEF OnePlace, Single
  <2>2. Current(s, k)'
    BY <1>5, <1>6, <1>7, <1>8 DEF Current
  <2> QED
    BY <1>7, <1>8, <2>1, <2>2
<1>9. CASE c # k
  BY <1>6, <1>7, <1>9 DEF Nowhere
<1> QED
  BY <1>8, <1>9

LEMMA FreshTell ==
    ASSUME TInv, NEW s \in Sessions, Tell(s), NEW k \in Codes, FreshAt(s, k)
    PROVE  FreshAt(s, k)'
<1> USE CodesKnown
<1>0. Typed
  BY DEF TInv
<1>1. /\ stage[s] = "work" /\ UNCHANGED data
      /\ UNCHANGED <<pageVars, netVars, cache, used, histVars>>
  BY DEF Tell, Say
<1> SUFFICES ASSUME Working(s)', Undisturbed(s)'
             PROVE  IF stage'[s] = k THEN OnePlace(s, k)' /\ Current(s, k)' ELSE Nowhere(s, k)'
  BY DEF FreshAt
<1>2. Nowhere(s, k)
  <2>1. Undisturbed(s) /\ Working(s) /\ stage[s] # k
    BY <1>1 DEF Undisturbed, Working, histVars
  <2> QED
    BY <2>1 DEF FreshAt
<1>3. PICK status \in {"progress", "strange", "qrcode"} : Say(s, status, 0, "work")
  BY DEF Tell
<1>4. stage'[s] = "work" /\ Queued(s, k)' = {}
  BY <1>0, <1>2, <1>3, SaidAt DEF Nowhere, Status
<1> QED
  BY <1>1, <1>2, <1>4
  DEF Nowhere, Coming, Shown, Brought, ReadIn, pageVars, netVars

(* The head of the queue comes to the page, or is lost.                    *)
LEMMA FreshAnswer ==
    ASSUME TInv, NEW s \in Sessions, NEW r \in held, r.to = s, Answer(r),
           NEW k \in Codes, FreshAt(s, k)
    PROVE  FreshAt(s, k)'
<1> USE CodesKnown
<1>0. Typed
  BY DEF TInv
<1>1. UNCHANGED <<pageVars, stage, data, histVars>> /\ GetMessage(r)
  BY DEF Answer
<1> SUFFICES ASSUME Working(s)', Undisturbed(s)'
             PROVE  FreshAt(s, k)'
  BY DEF FreshAt
<1>2. Undisturbed(s) /\ Working(s)
  BY <1>1 DEF Undisturbed, Working, histVars
<1> DEFINE m == Head(queue[s])
           c == [n |-> r.n, to |-> s, status |-> m.status, no |-> m.no]
<1>3. /\ queue[s] # <<>> /\ queue'[s] = Tail(queue[s]) /\ queue[s] \in Seq(Message)
      /\ back' \subseteq back \union {c}
  BY <1>0, <1>1, <1>2 DEF Typed, GetMessage, Reply, Working
<1>4. c.to = s /\ c.status = m.status /\ c.no = m.no
  OBVIOUS
<1>5. /\ 1 \in DOMAIN queue[s] /\ queue[s][1] = m
      /\ \A i \in DOMAIN queue'[s] : /\ i \in Nat /\ i + 1 \in DOMAIN queue[s] /\ i + 1 # 1
                                     /\ queue'[s][i] = queue[s][i + 1]
  BY <1>3, Shrunk
<1> HIDE DEF c, m
<1>6. \A i \in Queued(s, k)' : /\ i \in Nat /\ i + 1 \in Queued(s, k) /\ i + 1 # 1
                               /\ queue'[s][i].no = queue[s][i + 1].no
  BY <1>5 DEF Queued
<1>7. /\ Shown(s, k)' = Shown(s, k) /\ form' = form
      /\ Brought(s, k)' = Brought(s, k) /\ ReadIn(s, k)' = ReadIn(s, k)
  BY <1>1 DEF Shown, Brought, ReadIn, pageVars
<1>8. CASE m.status = k
  <2>1. 1 \in Queued(s, k)
    BY <1>5, <1>8 DEF Queued
  <2>2. stage[s] = k /\ OnePlace(s, k) /\ Current(s, k)
    BY <1>2, <2>1 DEF FreshAt, Nowhere
  <2>3. Queued(s, k)' = {}
    BY <1>6, <2>1, <2>2 DEF OnePlace, Single
  <2>4. Coming(s, k)' \subseteq {c}
    BY <1>3, <2>1, <2>2 DEF OnePlace, Coming
  <2>5. ~Shown(s, k)' /\ Brought(s, k)' = {} /\ ReadIn(s, k)' = {}
    BY <1>7, <2>1, <2>2 DEF OnePlace
  <2>6. c.no = data[s].asked[k]
    BY <1>4, <1>5, <2>1, <2>2 DEF Current
  <2>7. OnePlace(s, k)'
    BY <2>3, <2>4, <2>5 DEF OnePlace, Single
  <2>8. Current(s, k)'
    BY <1>1, <2>3, <2>4, <2>5, <2>6 DEF Current
  <2> QED
    BY <1>1, <2>2, <2>7, <2>8 DEF FreshAt
<1>9. CASE m.status # k
  <2>1. Coming(s, k)' \subseteq Coming(s, k)
    BY <1>3, <1>4, <1>9 DEF Coming
  <2>2. \A i \in Brought(s, k)' : /\ i \in Nat /\ i + 0 \in Brought(s, k)
                                  /\ data'[s].input[i].no = data[s].input[i + 0].no
    <3>1. data[s].input \in Seq(Parameter)
      BY <1>0, DataChanged DEF Typed
    <3>2. Brought(s, k) \subseteq Nat
      BY <3>1, LenProperties DEF Brought
    <3>3. \A i \in Nat : i + 0 = i
      OBVIOUS
    <3> QED
      BY <1>1, <1>7, <3>2, <3>3
  <2>3. /\ data'[s].asked[k] = data[s].asked[k] /\ stage'[s] = stage[s] /\ odd' = odd
        /\ 0 \in Nat /\ 1 \in Nat
    BY <1>1 DEF histVars
  <2> QED
    BY <1>6, <1>7, <2>1, <2>2, <2>3, FreshShrinks
<1> QED
  BY <1>8, <1>9

(* A parameter of another kind comes.                                      *)
LEMMA FreshBrought ==
    ASSUME TInv, NEW s \in Sessions, NEW k \in Codes, FreshAt(s, k),
           NEW r \in Parameter, r.says # k,
           data' = [data EXCEPT ![s].input = Append(@, r)],
           queue'[s] = queue[s], stage'[s] = stage[s], odd \subseteq odd',
           Coming(s, k)' \subseteq Coming(s, k),
           Shown(s, k)' => Shown(s, k) /\ form'.no = form.no
    PROVE  FreshAt(s, k)'
<1>1. /\ data[s].input \in Seq(Parameter) /\ queue[s] \in Seq(Message)
      /\ data'[s].input = Append(data[s].input, r)
      /\ data'[s].args = data[s].args /\ data'[s].asked = data[s].asked
  BY DataSteps DEF TInv, Typed
<1>2. \A i \in Nat : i + 0 = i
  OBVIOUS
<1>3. ASSUME NEW i \in Brought(s, k)'
      PROVE  /\ i \in Nat /\ i + 0 \in Brought(s, k)
             /\ data'[s].input[i].no = data[s].input[i + 0].no
  <2>1. i \in DOMAIN data'[s].input /\ data'[s].input[i].says = k
    BY DEF Brought
  <2>2. i \in DOMAIN data[s].input /\ data'[s].input[i] = data[s].input[i]
    BY <1>1, <2>1, Grown
  <2>3. i \in Nat
    BY <1>1, <2>2, LenProperties
  <2> QED
    BY <1>2, <2>1, <2>2, <2>3 DEF Brought
<1>4. ASSUME NEW i \in Queued(s, k)'
      PROVE  /\ i \in Nat /\ i + 0 \in Queued(s, k)
             /\ queue'[s][i].no = queue[s][i + 0].no
  <2>1. i \in DOMAIN queue[s] /\ queue[s][i].status = k
    BY DEF Queued
  <2>2. i \in Nat
    BY <1>1, <2>1, LenProperties
  <2> QED
    BY <1>2, <2>1, <2>2 DEF Queued
<1>5. ReadIn(s, k)' = ReadIn(s, k) /\ data'[s].asked[k] = data[s].asked[k] /\ 0 \in Nat
  BY <1>1 DEF ReadIn
<1> QED
  BY <1>3, <1>4, <1>5, FreshShrinks

LEMMA FreshReads ==
    ASSUME TInv, NEW s \in Sessions, ReadInputArgs(s), NEW k \in Codes, FreshAt(s, k)
    PROVE  FreshAt(s, k)'
<1> DEFINE r == Head(data[s].input)
<1>1. /\ data[s].input \in Seq(Parameter) /\ data[s].input # <<>>
      /\ data'[s].input = Tail(data[s].input)
      /\ data'[s].args = {a \in data[s].args : a.says # r.says} \union {r}
      /\ data'[s].asked = data[s].asked
      /\ queue[s] \in Seq(Message)
  BY DataSteps DEF TInv, Typed
<1>2. UNCHANGED <<pageVars, netVars, stage, queue, histVars>>
  BY DEF ReadInputArgs
<1> SUFFICES ASSUME Working(s)', Undisturbed(s)'
             PROVE  FreshAt(s, k)'
  BY DEF FreshAt
<1>3. Undisturbed(s) /\ Working(s)
  BY <1>2 DEF Undisturbed, Working, histVars
<1>4. /\ 1 \in DOMAIN data[s].input /\ data[s].input[1] = r
      /\ \A i \in DOMAIN data'[s].input :
            /\ i \in Nat /\ i + 1 \in DOMAIN data[s].input /\ i + 1 # 1
            /\ data'[s].input[i] = data[s].input[i + 1]
  BY <1>1, Shrunk
<1> HIDE DEF r
<1>5. \A i \in Brought(s, k)' : /\ i \in Nat /\ i + 1 \in Brought(s, k) /\ i + 1 # 1
                                /\ data'[s].input[i].no = data[s].input[i + 1].no
  BY <1>4 DEF Brought
<1>6. /\ Queued(s, k)' = Queued(s, k) /\ queue' = queue /\ Coming(s, k)' = Coming(s, k)
      /\ Shown(s, k)' = Shown(s, k) /\ form' = form
  BY <1>2 DEF Queued, Coming, Shown, pageVars, netVars
<1>7. CASE r.says = k
  <2>1. 1 \in Brought(s, k)
    BY <1>4, <1>7 DEF Brought
  <2>2. stage[s] = k /\ OnePlace(s, k) /\ Current(s, k)
    BY <1>3, <2>1 DEF FreshAt, Nowhere
  <2>3. Brought(s, k)' = {}
    BY <1>5, <2>1, <2>2 DEF OnePlace, Single
  <2>4. ReadIn(s, k)' \subseteq {r}
    BY <1>1, <1>7 DEF ReadIn
  <2>5. Queued(s, k)' = {} /\ Coming(s, k)' = {} /\ ~Shown(s, k)'
    BY <1>6, <2>1, <2>2 DEF OnePlace
  <2>6. r.no = data[s].asked[k]
    BY <1>4, <2>1, <2>2 DEF Current
  <2>7. OnePlace(s, k)'
    BY <2>3, <2>4, <2>5 DEF OnePlace, Single
  <2>8. Current(s, k)'
    BY <1>1, <2>3, <2>4, <2>5, <2>6 DEF Current
  <2> QED
    BY <1>2, <2>2, <2>7, <2>8 DEF FreshAt
<1>8. CASE r.says # k
  <2>1. ReadIn(s, k)' \subseteq ReadIn(s, k)
    BY <1>1, <1>8 DEF ReadIn
  <2>2. \A i \in Queued(s, k)' : /\ i \in Nat /\ i + 0 \in Queued(s, k)
                                 /\ queue'[s][i].no = queue[s][i + 0].no
    <3>1. Queued(s, k) \subseteq Nat
      BY <1>1, LenProperties DEF Queued
    <3>2. \A i \in Nat : i + 0 = i
      OBVIOUS
    <3> QED
      BY <1>6, <3>1, <3>2
  <2>3. /\ data'[s].asked[k] = data[s].asked[k] /\ stage'[s] = stage[s] /\ odd' = odd
        /\ 0 \in Nat /\ 1 \in Nat
    BY <1>1, <1>2 DEF histVars
  <2> QED
    BY <1>5, <1>6, <2>1, <2>2, <2>3, FreshShrinks
<1> QED
  BY <1>7, <1>8

LEMMA FreshGets ==
    ASSUME TInv, NEW s \in Sessions, GetArgsValue(s), NEW k \in Codes, FreshAt(s, k)
    PROVE  FreshAt(s, k)'
<1> USE CodesKnown
<1>1. PICK a \in data[s].args :
        a.says = stage[s] /\ data' = [data EXCEPT ![s].args = @ \ {a}]
  BY DEF GetArgsValue
<1>2. /\ data'[s].args = data[s].args \ {a} /\ data'[s].input = data[s].input
      /\ data[s].args \subseteq Parameter
  BY <1>1, DataSteps
<1>3. stage'[s] = "work" /\ UNCHANGED <<pageVars, netVars, queue, histVars>>
  BY DEF GetArgsValue, TInv, Typed
<1> SUFFICES ASSUME Working(s)', Undisturbed(s)'
             PROVE  Nowhere(s, k)'
  BY <1>3 DEF FreshAt
<1>4. Undisturbed(s)
  BY <1>3 DEF Undisturbed, histVars
<1>5. Working(s)
  <2>1. stage[s] \in Param
    BY <1>1, <1>2 DEF Parameter
  <2> QED
    BY <2>1 DEF Working, Param
<1>6. /\ Queued(s, k)' = Queued(s, k) /\ Coming(s, k)' = Coming(s, k)
      /\ Shown(s, k)' = Shown(s, k) /\ Brought(s, k)' = Brought(s, k)
      /\ ReadIn(s, k)' = ReadIn(s, k) \ {a}
  BY <1>2, <1>3 DEF Queued, Coming, Shown, Brought, ReadIn, pageVars, netVars
<1>7. CASE stage[s] = k
  <2>1. OnePlace(s, k) /\ a \in ReadIn(s, k)
    BY <1>1, <1>4, <1>5, <1>7 DEF FreshAt, ReadIn
  <2>2. ReadIn(s, k) \subseteq {a}
    BY <2>1 DEF OnePlace, Single
  <2>3. Queued(s, k) = {} /\ Coming(s, k) = {} /\ ~Shown(s, k) /\ Brought(s, k) = {}
    BY <2>1 DEF OnePlace
  <2> QED
    BY <1>6, <2>2, <2>3 DEF Nowhere
<1>8. CASE stage[s] # k
  BY <1>4, <1>5, <1>6, <1>8 DEF FreshAt, Nowhere
<1> QED
  BY <1>7, <1>8

(* A new session has asked nothing; the others are left alone.             *)
LEMMA FreshCrawl ==
    ASSUME TInv, Crawl, odd \subseteq odd', NEW s \in Sessions, NEW k \in Codes, FreshAt(s, k)
    PROVE  FreshAt(s, k)'
<1> USE CodesKnown
<1>0. Typed /\ Unborn
  BY DEF TInv
<1> DEFINE r == Request(presses + 1, "crawl", presses + 1, 0)
<1>1. CASE form' = Blank /\ Ajax({}, r)
  <2>1. r.says = "crawl" /\ r.to = presses + 1
    BY DEF Request
  <2> HIDE DEF r
  <2>2. Creates(r) /\ back' = Left({})
    BY <1>0, <1>1, <2>1, AjaxUnfolds DEF Typed
  <2>3. back' \subseteq back /\ ~Shown(s, k)'
    BY <1>1, <2>2 DEF Left, Shown, Blank
  <2>4. Coming(s, k)' \subseteq Coming(s, k)
    BY <2>3 DEF Coming
  <2>5. CASE s # presses + 1
    <3>1. queue'[s] = queue[s] /\ data'[s] = data[s] /\ stage'[s] = stage[s]
      BY <1>0, <2>1, <2>2, <2>5 DEF Creates, Typed
    <3> QED
      BY <1>0, <2>3, <2>4, <3>1, FreshStays
  <2>6. CASE s = presses + 1
    <3>1. /\ stage'[s] \in {"credentials", "work"}
          /\ queue'[s] = <<[status |-> "publickey", no |-> 0]>> /\ data' = data
      BY <1>0, <2>1, <2>2, <2>6 DEF Creates, Typed
    <3>2. s \notin Crawled
      BY <1>0, <2>6 DEF Typed, Crawled
    <3>3. Coming(s, k)' = {}
      BY <1>0, <2>4, <3>2 DEF Typed, Back, Coming
    <3>4. data[s].input = <<>> /\ data[s].args = {}
      BY <1>0, <3>2 DEF Unborn
    <3>5. Brought(s, k)' = {} /\ ReadIn(s, k)' = {}
      BY <3>1, <3>4 DEF Brought, ReadIn
    <3>6. Queued(s, k)' = {}
      BY <3>1 DEF Queued
    <3> QED
      BY <2>3, <3>1, <3>3, <3>5, <3>6 DEF FreshAt, Nowhere
  <2> QED
    BY <2>5, <2>6
<1>2. CASE UNCHANGED <<form, odd, open, netVars, cache, stage, queue, data>>
  <2>1. UNCHANGED <<form, back, stage, queue, data>>
    BY <1>2 DEF netVars
  <2>2. Coming(s, k)' \subseteq Coming(s, k) /\ (Shown(s, k)' => Shown(s, k))
    BY <2>1 DEF Coming, Shown
  <2> QED
    BY <1>0, <2>1, <2>2, FreshStays
<1> QED
  BY <1>1, <1>2 DEF Crawl

(* A question comes onto the page.                                         *)
LEMMA FreshSuccess ==
    ASSUME TInv, NEW b \in back, Success(b), odd \subseteq odd',
           NEW s \in Sessions, NEW k \in Codes, FreshAt(s, k)
    PROVE  FreshAt(s, k)'
<1> USE CodesKnown
<1>0. Typed
  BY DEF TInv
<1>1. SendsKey(b) \/ PollsOn(b) \/ ShowsForm(b) \/ Stops(b)
  BY <1>0, SuccessUnfolds DEF Typed
<1>2. b.to \in 1..presses /\ presses \in 0..MaxCrawls /\ typed = presses
  BY <1>0 DEF Typed, Back, Crawled
<1>3. CASE SendsKey(b)
  <2> DEFINE r == Request(b.to, "credentials", typed, 0)
  <2>1. r \in Parameter /\ r.says = "credentials" /\ r.to = b.to
    BY <1>2 DEF Request, Parameter, Param
  <2>2. Ajax({b.n}, r) /\ UNCHANGED form
    BY <1>3 DEF SendsKey
  <2> HIDE DEF r
  <2>3. /\ UNCHANGED <<cache, stage, queue>>
        /\ \A x \in back' : x \in back \/ x.status = "gone"
        /\ data' = data \/ data' = [data EXCEPT ![b.to].input = Append(@, r)]
    BY <1>0, <2>1, <2>2, AjaxBrings
  <2>4. Coming(s, k)' \subseteq Coming(s, k) /\ (Shown(s, k)' => Shown(s, k))
    BY <2>2, <2>3 DEF Coming, Shown
  <2>5. CASE data'[s] = data[s]
    BY <1>0, <2>2, <2>3, <2>4, <2>5, FreshStays
  <2>6. CASE b.to = s /\ data' = [data EXCEPT ![b.to].input = Append(@, r)]
    <3>1. r.says # k /\ data' = [data EXCEPT ![s].input = Append(@, r)]
      BY <2>1, <2>6
    <3> QED
      BY <2>1, <2>2, <2>3, <2>4, <3>1, FreshBrought
  <2> QED
    BY <1>0, <2>3, <2>5, <2>6 DEF Typed
<1>4. CASE PollsOn(b)
  <2> DEFINE r == Request(b.to, "nothing", b.to, 0)
  <2>1. r.says = "nothing"
    BY DEF Request
  <2>2. Ajax({b.n}, r) /\ (form' = form \/ form' = Blank)
    BY <1>4 DEF PollsOn
  <2> HIDE DEF r
  <2>3. /\ UNCHANGED <<cache, stage, queue, data>>
        /\ \A x \in back' : x \in back \/ x.status = "gone"
    BY <1>0, <2>1, <2>2, AjaxBrings
  <2>4. Coming(s, k)' \subseteq Coming(s, k)
    BY <2>3 DEF Coming
  <2>5. Shown(s, k)' => Shown(s, k) /\ form'.no = form.no
    BY <2>2 DEF Shown, Blank
  <2> QED
    BY <1>0, <2>3, <2>4, <2>5, FreshStays
<1>5. CASE ShowsForm(b)
  <2>1. /\ form' = [kind |-> b.status, of |-> b.to, no |-> b.no, sent |-> FALSE]
        /\ back' = back \ {b} /\ UNCHANGED <<cache, stage, queue, data>>
    BY <1>5 DEF ShowsForm, Last
  <2>2. Coming(s, k)' = Coming(s, k) \ {b}
    BY <2>1 DEF Coming
  <2>3. CASE ~Shown(s, k)'
    BY <1>0, <2>1, <2>2, <2>3, FreshStays
  <2>4. CASE Shown(s, k)'
    <3>1. b \in Coming(s, k) /\ form'.no = b.no
      BY <2>1, <2>4 DEF Coming, Shown
    <3> SUFFICES ASSUME Working(s)', Undisturbed(s)'
                 PROVE  FreshAt(s, k)'
      BY DEF FreshAt
    <3>2. stage[s] = k /\ OnePlace(s, k) /\ Current(s, k)
      <4>1. Working(s) /\ Undisturbed(s)
        BY <2>1 DEF Working, Undisturbed
      <4> QED
        BY <3>1, <4>1 DEF FreshAt, Nowhere
    <3>3. Coming(s, k)' = {}
      BY <2>2, <3>1, <3>2 DEF OnePlace, Single
    <3>4. Queued(s, k)' = {} /\ Brought(s, k)' = {} /\ ReadIn(s, k)' = {}
      BY <2>1, <3>1, <3>2 DEF OnePlace, Queued, Brought, ReadIn
    <3>5. OnePlace(s, k)'
      BY <3>3, <3>4 DEF OnePlace, Single
    <3>6. Current(s, k)'
      BY <2>1, <3>1, <3>2, <3>3, <3>4 DEF Current
    <3> QED
      BY <2>1, <3>2, <3>5, <3>6 DEF FreshAt
  <2> QED
    BY <2>3, <2>4
<1>6. CASE Stops(b)
  <2>1. back' \subseteq back /\ UNCHANGED <<form, stage, queue, data>>
    BY <1>6 DEF Stops, Last
  <2>2. Coming(s, k)' \subseteq Coming(s, k) /\ (Shown(s, k)' => Shown(s, k))
    BY <2>1 DEF Coming, Shown
  <2> QED
    BY <1>0, <2>1, <2>2, FreshStays
<1> QED
  BY <1>1, <1>3, <1>4, <1>5, <1>6

(* What the user typed is brought to the session that asked, or the form   *)
(* was crossed or sent before.                                             *)
LEMMA FreshSend ==
    ASSUME TInv, Send, odd \subseteq odd', NEW s \in Sessions, NEW k \in Codes, FreshAt(s, k)
    PROVE  FreshAt(s, k)'
<1> USE CodesKnown
<1>0. Typed
  BY DEF TInv
<1> DEFINE r == Request(id, form.kind, form.of, form.no)
<1>1. /\ form # Blank /\ id # 0 /\ Ajax({}, r)
      /\ form' = [form EXCEPT !.sent = TRUE]
      /\ id # form.of => <<"crossed", id>> \in odd'
      /\ form.sent => <<"again", id>> \in odd'
  BY DEF Send
<1>2. form \in [kind : Codes, of : Crawled, no : Nat, sent : BOOLEAN] /\ id \in Sessions
  BY <1>0, <1>1 DEF Typed
<1>3. /\ r \in Parameter /\ r.says = form.kind /\ r.to = id /\ r.no = form.no
      /\ r.says # "crawl"
  BY <1>0, <1>2 DEF Request, Parameter, Param, Crawled, Typed
<1> HIDE DEF r
<1>4. /\ UNCHANGED <<cache, stage, queue>>
      /\ \A x \in back' : x \in back \/ x.status = "gone"
      /\ data' = data \/ data' = [data EXCEPT ![id].input = Append(@, r)]
  BY <1>0, <1>1, <1>3, AjaxBrings
<1>5. Coming(s, k)' \subseteq Coming(s, k) /\ ~Shown(s, k)'
  BY <1>1, <1>2, <1>4 DEF Coming, Shown
<1>6. CASE data'[s] = data[s]
  BY <1>0, <1>4, <1>5, <1>6, FreshStays
<1>7. CASE id = s /\ data' = [data EXCEPT ![id].input = Append(@, r)]
  <2>1. data' = [data EXCEPT ![s].input = Append(@, r)]
    BY <1>7
  <2>2. CASE form.kind # k
    BY <1>3, <1>4, <1>5, <2>1, <2>2, FreshBrought
  <2>3. CASE form.kind = k
    <3> SUFFICES ASSUME Working(s)', Undisturbed(s)'
                 PROVE  FreshAt(s, k)'
      BY DEF FreshAt
    <3>1. Shown(s, k)
      BY <1>1, <1>2, <1>7, <2>3 DEF Undisturbed, Shown
    <3>2. stage[s] = k /\ OnePlace(s, k) /\ Current(s, k)
      <4>1. Working(s) /\ Undisturbed(s)
        BY <1>4 DEF Working, Undisturbed
      <4> QED
        BY <3>1, <4>1 DEF FreshAt, Nowhere
    <3>3. /\ data[s].input \in Seq(Parameter)
          /\ data'[s].input = Append(data[s].input, r)
          /\ data'[s].args = data[s].args /\ data'[s].asked = data[s].asked
      BY <1>3, <2>1, DataSteps
    <3>4. /\ Queued(s, k) = {} /\ Coming(s, k) = {} /\ Brought(s, k) = {} /\ ReadIn(s, k) = {}
          /\ form.no = data[s].asked[k]
      BY <3>1, <3>2 DEF OnePlace, Current
    <3>5. /\ Queued(s, k)' = {} /\ Coming(s, k)' = {} /\ ReadIn(s, k)' = {}
      BY <1>4, <1>5, <3>3, <3>4 DEF Queued, ReadIn
    <3>6. \A i \in Brought(s, k)' : i = Len(data[s].input) + 1 /\ data'[s].input[i] = r
      <4>1. \A i \in DOMAIN data'[s].input :
                \/ i \in DOMAIN data[s].input /\ data'[s].input[i] = data[s].input[i]
                \/ i = Len(data[s].input) + 1 /\ data'[s].input[i] = r
        BY <1>3, <3>3, Grown
      <4> QED
        BY <3>4, <4>1 DEF Brought
    <3>7. OnePlace(s, k)'
      BY <1>5, <3>5, <3>6 DEF OnePlace, Single
    <3>8. Current(s, k)'
      BY <1>3, <1>5, <3>3, <3>4, <3>5, <3>6 DEF Current
    <3> QED
      BY <1>4, <3>2, <3>7, <3>8 DEF FreshAt
  <2> QED
    BY <2>2, <2>3
<1> QED
  BY <1>0, <1>4, <1>6, <1>7 DEF Typed

LEMMA FreshStep ==
    ASSUME TInv, [Next]_vars, NEW s \in Sessions, NEW k \in Codes, FreshAt(s, k)
    PROVE  FreshAt(s, k)'
<1> USE CodesKnown DEF pageVars, netVars, sessionVars, histVars
<1>0. Typed /\ odd \subseteq odd'
  BY OddGrows DEF TInv
<1>a. /\ UNCHANGED back => Coming(s, k)' \subseteq Coming(s, k)
      /\ UNCHANGED form => (Shown(s, k)' => Shown(s, k) /\ form'.no = form.no)
  BY DEF Coming, Shown
<1>b. ASSUME NEW t \in Sessions, t # s, UNCHANGED <<form, back>>,
             \/ queue' = queue
             \/ \E m : queue' = [queue EXCEPT ![t] = Append(@, m)],
             stage' = stage \/ \E w : stage' = [stage EXCEPT ![t] = w],
             data'[s] = data[s]
      PROVE  FreshAt(s, k)'
  <2>1. queue'[s] = queue[s] /\ stage'[s] = stage[s]
    BY <1>0, <1>b DEF Typed
  <2> QED
    BY <1>0, <1>a, <1>b, <2>1, FreshStays
<1>1. CASE User
  BY <1>0, <1>1, FreshCrawl, FreshSend DEF User
<1>2. CASE Browser
  BY <1>0, <1>2, FreshSuccess DEF Browser
<1>3. ASSUME NEW r \in held, Answer(r) PROVE FreshAt(s, k)'
  <2>1. CASE r.to = s
    BY <1>3, <2>1, FreshAnswer
  <2>2. CASE r.to # s
    <3>1. UNCHANGED <<form, stage, data>> /\ queue'[s] = queue[s]
      BY <1>0, <1>3, <2>2 DEF Answer, GetMessage, Typed
    <3>2. \E c : c.to = r.to /\ back' \subseteq back \union {c}
      BY <1>3 DEF Answer, GetMessage, Reply
    <3>3. Coming(s, k)' \subseteq Coming(s, k)
      BY <2>2, <3>2 DEF Coming
    <3> QED
      BY <1>0, <1>a, <3>1, <3>3, FreshStays
  <2> QED
    BY <2>1, <2>2
<1>4. ASSUME NEW r \in held, Timeout(r) PROVE FreshAt(s, k)'
  <2>1. UNCHANGED <<form, back, queue, data, stage>>
    BY <1>4 DEF Timeout
  <2> QED
    BY <1>0, <1>a, <2>1, FreshStays
<1>5. ASSUME NEW t \in Sessions, Expire(t) \/ End(t) PROVE FreshAt(s, k)'
  <2>1. /\ UNCHANGED <<form, back>> /\ data' = [data EXCEPT ![t] = NoData]
        /\ queue' = queue \/ \E m : queue' = [queue EXCEPT ![t] = Append(@, m)]
        /\ \E w \in {"closed", "over"} : stage' = [stage EXCEPT ![t] = w]
    BY <1>5 DEF Expire, End, Say
  <2>2. CASE t # s
    <3>1. data'[s] = data[s]
      BY <1>0, <2>1, <2>2 DEF Typed
    <3> QED
      BY <1>b, <2>1, <2>2, <3>1
  <2>3. CASE t = s
    <3>1. ~Working(s)'
      BY <1>0, <2>1, <2>3 DEF Typed, Working
    <3> QED
      BY <3>1 DEF FreshAt
  <2> QED
    BY <2>2, <2>3
<1>6. ASSUME NEW t \in Sessions, Ask(t) PROVE FreshAt(s, k)'
  <2>1. CASE t = s
    BY <1>6, <2>1, FreshAsk
  <2>2. CASE t # s
    <3>1. /\ UNCHANGED <<form, back>> /\ data'[s] = data[s]
          /\ \E m : queue' = [queue EXCEPT ![t] = Append(@, m)]
          /\ \E w : stage' = [stage EXCEPT ![t] = w]
      BY <1>0, <1>6, <2>2 DEF Ask, Say, Typed
    <3> QED
      BY <1>b, <2>2, <3>1
  <2> QED
    BY <2>1, <2>2
<1>7. ASSUME NEW t \in Sessions, Tell(t) PROVE FreshAt(s, k)'
  <2>1. CASE t = s
    BY <1>7, <2>1, FreshTell
  <2>2. CASE t # s
    <3>1. /\ UNCHANGED <<form, back>> /\ data'[s] = data[s]
          /\ \E m : queue' = [queue EXCEPT ![t] = Append(@, m)]
          /\ \E w : stage' = [stage EXCEPT ![t] = w]
      BY <1>7 DEF Tell, Say
    <3> QED
      BY <1>b, <2>2, <3>1
  <2> QED
    BY <2>1, <2>2
<1>8. ASSUME NEW t \in Sessions, ReadInputArgs(t) PROVE FreshAt(s, k)'
  <2>1. CASE t = s
    BY <1>8, <2>1, FreshReads
  <2>2. CASE t # s
    <3>1. data'[s] = data[s] /\ UNCHANGED <<form, back, queue, stage>>
      BY <1>8, <2>2, DataSteps DEF ReadInputArgs
    <3> QED
      BY <1>b, <2>2, <3>1
  <2> QED
    BY <2>1, <2>2
<1>9. ASSUME NEW t \in Sessions, GetArgsValue(t) PROVE FreshAt(s, k)'
  <2>1. CASE t = s
    BY <1>9, <2>1, FreshGets
  <2>2. CASE t # s
    <3>1. UNCHANGED <<form, back, queue>> /\ \E w : stage' = [stage EXCEPT ![t] = w]
      BY <1>9 DEF GetArgsValue
    <3>2. data'[s] = data[s]
      BY <1>9, <2>2, DataSteps DEF GetArgsValue
    <3> QED
      BY <1>b, <2>2, <3>1, <3>2
  <2> QED
    BY <2>1, <2>2
<1>10. CASE UNCHANGED vars
  BY <1>0, <1>10, <1>a, FreshStays DEF vars
<1> QED
  BY <1>1, <1>2, <1>3, <1>4, <1>5, <1>6, <1>7, <1>8, <1>9, <1>10
  DEF Next, Server, Session, Timers

(* What a session uses met its question, or the exception is in odd.       *)
LEMMA MeetStep == TInv /\ MeetInv /\ [Next]_vars => MeetsItsQuestion'
<1> SUFFICES ASSUME TInv, MeetInv, [Next]_vars PROVE MeetsItsQuestion'
  OBVIOUS
<1>0. odd \subseteq odd' /\ MeetsItsQuestion
  BY OddGrows DEF MeetInv
<1>1. CASE UNCHANGED used
  BY <1>0, <1>1 DEF MeetsItsQuestion
<1>2. ASSUME NEW s \in Sessions, GetArgsValue(s) PROVE MeetsItsQuestion'
  <2>1. PICK a \in data[s].args :
          /\ a.says = stage[s]
          /\ used' = used \union
                (IF Meets(a, s) THEN {} ELSE {[by |-> s, what |-> a.says, from |-> a.from]})
    BY <1>2 DEF GetArgsValue
  <2>2. a \in Parameter /\ SentFor(a, s, odd)
    BY DataSteps DEF MeetInv, ParamInv
  <2>3. a.says \in Codes \union {"credentials"} /\ a.from \in Nat /\ s \in Nat
    BY <2>2, CodesKnown DEF Parameter, Param
  <2>4. CASE Meets(a, s)
    BY <1>0, <2>1, <2>4 DEF MeetsItsQuestion
  <2>5. CASE ~Meets(a, s)
    <3> DEFINE u == [by |-> s, what |-> a.says, from |-> a.from]
    <3>1. used' = used \union {u}
      BY <2>1, <2>5
    <3>2. u.by = s /\ u.what = a.says /\ u.from = a.from
      OBVIOUS
    <3> HIDE DEF u
    <3>3. CASE a.says = "credentials"
      <4>1. a.from > s
        BY <2>2, <2>3, <2>5, <3>3 DEF SentFor, Meets
      <4> QED
        BY <1>0, <3>1, <3>2, <3>3, <4>1 DEF MeetsItsQuestion
    <3>4. CASE a.says # "credentials"
      <4>1. a.says \in Codes
        BY <2>3, <3>4
      <4>2. \/ <<"crossed", s>> \in odd
            \/ <<"again", s>> \in odd /\ a.from = s
        <5> SUFFICES ASSUME <<"crossed", s>> \notin odd PROVE <<"again", s>> \in odd /\ a.from = s
          OBVIOUS
        <5>1. a.from = s
          BY <2>2, <3>4 DEF SentFor
        <5>2. a.no # data[s].asked[a.says]
          BY <2>5, <5>1 DEF Meets
        <5>3. ~Current(s, a.says)
          BY <5>2 DEF Current, ReadIn
        <5>4. FreshAt(s, stage[s])
          BY <2>1, <4>1 DEF MeetInv
        <5>5. Working(s)
          BY <2>1, <4>1, CodesKnown DEF Working
        <5> QED
          BY <2>1, <5>1, <5>3, <5>4, <5>5 DEF FreshAt, Undisturbed
      <4> QED
        BY <1>0, <3>1, <3>2, <3>4, <4>2 DEF MeetsItsQuestion
    <3> QED
      BY <3>3, <3>4
  <2> QED
    BY <2>4, <2>5
<1>3. ASSUME NEW b \in back, Success(b) PROVE UNCHANGED used
  BY <1>3, SuccessUnfolds DEF TInv, Typed
<1> QED
  BY <1>1, <1>2, <1>3
  DEF Next, User, Crawl, Send, Browser, Server, Answer, Timeout, Session, Ask, Tell, End, Say,
      ReadInputArgs, Timers, Expire, vars, sessionVars

(* A session uses a parameter for the question it was typed for, in any    *)
(* number of crawls, forms, messages and requests given up, but for a form *)
(* sent twice or crossed with another session, and for the credentials of  *)
(* a later press (app.js:21, 83, 96-97, 148; task_cmd.go's readInputArgs). *)
THEOREM MeetsItsQuestionHolds == FairSpec => []MeetsItsQuestion
<1>1. Init => MeetInv
  <2> SUFFICES ASSUME Init PROVE MeetInv
    OBVIOUS
  <2>1. /\ \A s \in Sessions : data[s] = NoData /\ stage[s] = "none"
        /\ used = {}
    BY DEF Init
  <2>2. DOMAIN <<>> = {}
    OBVIOUS
  <2>3. ParamInv
    BY <2>1, <2>2 DEF ParamInv, NoData
  <2>4. \A s \in Sessions, k \in Codes : FreshAt(s, k)
    BY <2>1 DEF FreshAt, Working
  <2> QED
    BY <2>1, <2>3, <2>4 DEF MeetInv, MeetsItsQuestion
<1>2. TInv /\ MeetInv /\ [Next]_vars => MeetInv'
  <2> SUFFICES ASSUME TInv, MeetInv, [Next]_vars PROVE MeetInv'
    OBVIOUS
  <2>1. ParamInv'
    BY ParamStep DEF MeetInv
  <2>2. ASSUME NEW s \in Sessions, NEW k \in Codes PROVE FreshAt(s, k)'
    BY FreshStep DEF MeetInv
  <2>3. MeetsItsQuestion'
    BY MeetStep
  <2> QED
    BY <2>1, <2>2, <2>3 DEF MeetInv
<1>3. MeetInv => MeetsItsQuestion
  BY DEF MeetInv
<1> QED
  BY <1>1, <1>2, <1>3, WebClientTyped, PTL DEF FairSpec
=============================================================================
