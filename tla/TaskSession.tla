---------------------------- MODULE TaskSession ----------------------------
(***************************************************************************)
(* One crawling session: the TaskCmd created by the first /submit request, *)
(* the CommandCache entry under its id, and the four kinds of goroutines   *)
(* that share it without a lock:                                           *)
(*   - the request handlers (CasperServer.Process), one per client;        *)
(*   - the interpreter of the template (TaskCmd.run);                      *)
(*   - the keep-alive ticker (TaskCmd.returnMessage);                      *)
(*   - the expiry timer of CommandCache.SetCommand, which calls Close.     *)
(* They talk through two buffered channels, message and input, and the     *)
(* plain fields finished, needParam and message (Close sets it to nil).    *)
(* A Go channel that is closed still delivers what is buffered, then nil;  *)
(* sending on it panics; a nil channel blocks for ever.                    *)
(***************************************************************************)
EXTENDS Naturals, Sequences, FiniteSets

CONSTANTS
    Clients,      \* goroutines of callers that send requests, one at a time each
    Keys,         \* names of parameters the template may need
    Cap,          \* capacity of both channels (30 in the code)
    MaxTicks,     \* ticks of the keep-alive ticker (120 in the code)
    MaxRequests,  \* bound: requests of one client
    MaxSteps,     \* bound: template operations before only deletes and an ending are left
    OutPubKey,    \* the template does not set disable_outpubkey
    InCrawling    \* the template does not set disable_in_crawling

ASSUME SessionAssumption ==
    /\ IsFiniteSet(Clients)
    /\ Cap \in Nat \ {0}
    /\ MaxTicks \in Nat
    /\ MaxRequests \in Nat
    /\ MaxSteps \in Nat
    /\ OutPubKey \in BOOLEAN
    /\ InCrawling \in BOOLEAN

(* Statuses of the messages of a session.  "progress" stands for every     *)
(* status of a template message that does not end the session, such as     *)
(* need_param or output_verifycode.                                        *)
Terminal == {"fail", "finish_fetch_data"}
Status == Terminal \union {"output_publickey", "in_crawling", "progress"}

(* What a caller was answered last: a message; "unknown" (the fail made up *)
(* when the message is nil); "gone" (not get command); "empty" (the        *)
(* handler panicked); "none" before the first answer.                      *)
Answer == Status \union {"unknown", "gone", "empty", "none"}

(* The ways run returns, named for the code that sends the last message.   *)
Ending == {"action", "goto", "step", "python", "finish"}

VARIABLES
    pc,            \* where each client's handler is
    byId,          \* the handler serves a request that carries an id
    params,        \* parameters of the request
    answer,        \* last answer of each client
    requests,      \* requests sent by each client
    idKnown,       \* the creator has been told the id
    cached,        \* CommandCache.data has the id
    timer,         \* where the expiry goroutine is
    message,       \* buffer of channel p.message
    messageClosed,
    messageNil,    \* the field p.message is nil
    input,         \* buffer of channel p.input
    inputClosed,
    finished, needParam, writeResult, browser,
    args, ctx,     \* keys with a value in p.args and in the downloader's Context
    run,           \* where TaskCmd.run is: pc, message to send, how it goes on
    steps,         \* operations run has interpreted
    ticker,        \* where returnMessage is
    ticks

clientVars == <<pc, byId, params, answer, requests, idKnown>>
cacheVars  == <<cached, timer>>
chanVars   == <<message, messageClosed, messageNil, input, inputClosed>>
taskVars   == <<finished, needParam, writeResult, browser, args, ctx>>
runVars    == <<run, steps>>
tickVars   == <<ticker, ticks>>
vars == <<clientVars, cacheVars, chanVars, taskVars, runVars, tickVars>>

-----------------------------------------------------------------------------
(* Types                                                                   *)

RunState == [pc   : {"none", "start", "ready", "read", "needed", "check",
                     "load", "send", "after", "blocked", "exit"},
             msg  : Status,
             key  : Keys \union {"-"},
             then : Ending \union {"continue", "guarded", "need", "panic"}]

ClientsOK ==
    /\ pc \in [Clients -> {"idle", "set", "check", "push", "load", "recv",
                           "nil", "reply"}]
    /\ byId \in [Clients -> BOOLEAN]
    /\ params \in [Clients -> SUBSET Keys]
    /\ answer \in [Clients -> Answer]
    /\ requests \in [Clients -> 0..MaxRequests]
    /\ idKnown \in BOOLEAN

CacheOK ==
    /\ cached \in BOOLEAN
    /\ timer \in {"none", "armed", "close", "setnil", "closeinput", "delete",
                  "done"}

ChannelsOK ==
    /\ message \in Seq(Status) /\ Len(message) <= Cap
    /\ messageClosed \in BOOLEAN
    /\ messageNil \in BOOLEAN
    /\ input \in Seq(SUBSET Keys) /\ Len(input) <= Cap
    /\ inputClosed \in BOOLEAN

TaskOK ==
    /\ finished \in BOOLEAN
    /\ needParam \in BOOLEAN
    /\ writeResult \in BOOLEAN
    /\ browser \in BOOLEAN
    /\ args \in SUBSET Keys
    /\ ctx \in SUBSET Keys

RunOK == run \in RunState /\ steps \in 0..MaxSteps

TickerOK ==
    /\ ticker \in {"none", "tick", "load", "send", "blocked", "exit"}
    /\ ticks \in 0..(MaxTicks + 1)

TypeOK == ClientsOK /\ CacheOK /\ ChannelsOK /\ TaskOK /\ RunOK /\ TickerOK

Init ==
    /\ pc = [c \in Clients |-> "idle"]
    /\ byId = [c \in Clients |-> FALSE]
    /\ params = [c \in Clients |-> {}]
    /\ answer = [c \in Clients |-> "none"]
    /\ requests = [c \in Clients |-> 0]
    /\ idKnown = FALSE
    /\ cached = FALSE
    /\ timer = "none"
    /\ message = <<>> /\ messageClosed = FALSE /\ messageNil = FALSE
    /\ input = <<>> /\ inputClosed = FALSE
    /\ finished = FALSE /\ needParam = FALSE
    /\ writeResult = FALSE /\ browser = FALSE
    /\ args = {} /\ ctx = {}
    /\ run = [pc |-> "none", msg |-> "progress", key |-> "-", then |-> "continue"]
    /\ steps = 0
    /\ ticker = "none"
    /\ ticks = 0

-----------------------------------------------------------------------------
(* Request handlers                                                        *)

(* A caller follows the protocol of the statuses: it sends one request at  *)
(* a time, and none after an answer that ends the session for it.          *)
MayRequest(c) ==
    /\ pc[c] = "idle"
    /\ requests[c] < MaxRequests
    /\ answer[c] \notin Terminal \union {"unknown", "gone"}

(* Process without an id: createCommandWithPrivateKey builds the TaskCmd   *)
(* and starts run before the command is in the cache.                      *)
CreateCommand(c) ==
    /\ MayRequest(c)
    /\ run.pc = "none"
    /\ run' = [run EXCEPT !.pc = "start"]
    /\ pc' = [pc EXCEPT ![c] = "set"]
    /\ requests' = [requests EXCEPT ![c] = @ + 1]
    /\ \E ps \in SUBSET Keys : params' = [params EXCEPT ![c] = ps]
    /\ UNCHANGED <<byId, answer, idKnown, cacheVars, chanVars, taskVars,
                   steps, tickVars>>

SetCommand(c) ==
    /\ pc[c] = "set"
    /\ cached' = TRUE
    /\ timer' = "armed"
    /\ pc' = [pc EXCEPT ![c] = "check"]
    /\ UNCHANGED <<byId, params, answer, requests, idKnown, chanVars,
                   taskVars, runVars, tickVars>>

(* Process with an id: the caller learnt it from an earlier answer.        *)
GetCommand(c) ==
    /\ MayRequest(c)
    /\ idKnown
    /\ requests' = [requests EXCEPT ![c] = @ + 1]
    /\ \/ /\ cached
          /\ pc' = [pc EXCEPT ![c] = "check"]
          /\ byId' = [byId EXCEPT ![c] = TRUE]
          /\ \E ps \in SUBSET Keys : params' = [params EXCEPT ![c] = ps]
          /\ UNCHANGED answer
       \/ /\ ~cached
          /\ answer' = [answer EXCEPT ![c] = "gone"]
          /\ UNCHANGED <<pc, byId, params>>
    /\ UNCHANGED <<idKnown, cacheVars, chanVars, taskVars, runVars, tickVars>>

(* SetInputArgs: the test of finished and the send are two steps.          *)
CheckFinished(c) ==
    /\ pc[c] = "check"
    /\ pc' = [pc EXCEPT ![c] = IF finished THEN "load" ELSE "push"]
    /\ UNCHANGED <<byId, params, answer, requests, idKnown, cacheVars,
                   chanVars, taskVars, runVars, tickVars>>

PushInput(c) ==
    /\ pc[c] = "push"
    /\ ~inputClosed
    /\ Len(input) < Cap
    /\ input' = Append(input, params[c])
    /\ params' = [params EXCEPT ![c] = {}]
    /\ pc' = [pc EXCEPT ![c] = "load"]
    /\ UNCHANGED <<byId, answer, requests, idKnown, cacheVars,
                   message, messageClosed, messageNil, inputClosed,
                   taskVars, runVars, tickVars>>

(* A send on the closed channel panics; ServeHTTP recovers and writes      *)
(* nothing.                                                                *)
PushPanics(c) ==
    /\ pc[c] = "push"
    /\ inputClosed
    /\ pc' = [pc EXCEPT ![c] = "idle"]
    /\ answer' = [answer EXCEPT ![c] = "empty"]
    /\ UNCHANGED <<byId, params, requests, idKnown, cacheVars, chanVars,
                   taskVars, runVars, tickVars>>

(* GetMessage reads the field first, then receives from what it holds.     *)
LoadMessage(c) ==
    /\ pc[c] = "load"
    /\ pc' = [pc EXCEPT ![c] = IF messageNil THEN "nil" ELSE "recv"]
    /\ UNCHANGED <<byId, params, answer, requests, idKnown, cacheVars,
                   chanVars, taskVars, runVars, tickVars>>

Receive(c) ==
    /\ pc[c] = "recv"
    /\ \/ /\ message # <<>>
          /\ answer' = [answer EXCEPT ![c] = Head(message)]
          /\ message' = Tail(message)
       \/ /\ message = <<>>
          /\ messageClosed
          /\ answer' = [answer EXCEPT ![c] = "unknown"]
          /\ UNCHANGED message
    /\ pc' = [pc EXCEPT ![c] = "reply"]
    /\ UNCHANGED <<byId, params, requests, idKnown, cacheVars, messageClosed,
                   messageNil, input, inputClosed, taskVars, runVars, tickVars>>

(* Wrong on purpose: the id is dropped after any answer.                   *)
BadReply(c) ==
    /\ pc[c] = "reply"
    /\ pc' = [pc EXCEPT ![c] = "idle"]
    /\ byId' = [byId EXCEPT ![c] = FALSE]
    /\ params' = [params EXCEPT ![c] = {}]
    /\ idKnown' = TRUE
    /\ cached' = (cached /\ ~byId[c])
    /\ UNCHANGED <<answer, requests, timer, chanVars, taskVars, runVars, tickVars>>

(* The end of Process: only a request with an id drops the command.        *)
Reply(c) ==
    /\ pc[c] = "reply"
    /\ pc' = [pc EXCEPT ![c] = "idle"]
    /\ byId' = [byId EXCEPT ![c] = FALSE]
    /\ params' = [params EXCEPT ![c] = {}]
    /\ idKnown' = TRUE
    /\ cached' = (cached /\ ~(byId[c] /\ answer[c] \in Terminal \union {"unknown"}))
    /\ UNCHANGED <<answer, requests, timer, chanVars, taskVars, runVars, tickVars>>

Handler(c) ==
    \/ SetCommand(c) \/ CheckFinished(c) \/ PushInput(c) \/ PushPanics(c)
    \/ LoadMessage(c) \/ Receive(c) \/ Reply(c)

-----------------------------------------------------------------------------
(* Expiry: the timer goroutine of SetCommand and the steps of Close        *)

TimerStep(from, to) ==
    /\ timer = from
    /\ timer' = to
    /\ UNCHANGED <<clientVars, args, ctx, needParam, writeResult, browser,
                   runVars, tickVars>>

Expire ==
    /\ TimerStep("armed", "close")
    /\ finished' = TRUE
    /\ UNCHANGED <<cached, chanVars>>

(* Wrong on purpose: the channel of the messages is not closed.            *)
BadCloseMessage ==
    /\ TimerStep("close", "setnil")
    /\ UNCHANGED <<cached, finished, chanVars>>

CloseMessage ==
    /\ TimerStep("close", "setnil")
    /\ messageClosed' = TRUE
    /\ UNCHANGED <<cached, finished, message, messageNil, input, inputClosed>>

SetMessageNil ==
    /\ TimerStep("setnil", "closeinput")
    /\ messageNil' = TRUE
    /\ UNCHANGED <<cached, finished, message, messageClosed, input, inputClosed>>

(* Wrong on purpose: the channel of the input is not closed.               *)
BadCloseInput ==
    /\ TimerStep("closeinput", "delete")
    /\ UNCHANGED <<cached, finished, chanVars>>

CloseInput ==
    /\ TimerStep("closeinput", "delete")
    /\ inputClosed' = TRUE
    /\ UNCHANGED <<cached, finished, message, messageClosed, messageNil, input>>

(* Wrong on purpose: an expired command stays in the cache.                *)
BadDeleteExpired ==
    /\ TimerStep("delete", "done")
    /\ UNCHANGED <<cached, finished, chanVars>>

DeleteExpired ==
    /\ TimerStep("delete", "done")
    /\ cached' = FALSE
    /\ UNCHANGED <<finished, chanVars>>

Close == CloseMessage \/ SetMessageNil \/ CloseInput \/ DeleteExpired

-----------------------------------------------------------------------------
(* Keep-alive: returnMessage                                               *)

(* One tick of five seconds.  Whether 20 seconds have passed since the     *)
(* last message is left open.                                              *)
Tick ==
    /\ ticker = "tick"
    /\ \/ /\ finished \/ ticks > MaxTicks
          /\ ticker' = "exit"
          /\ UNCHANGED ticks
       \/ /\ ~finished /\ ticks <= MaxTicks
          /\ ticks' = ticks + 1
          /\ ticker' \in {"tick"} \union (IF needParam THEN {} ELSE {"load"})
    /\ UNCHANGED <<clientVars, cacheVars, chanVars, taskVars, runVars>>

TickLoad ==
    /\ ticker = "load"
    /\ ticker' = IF messageNil THEN "blocked" ELSE "send"
    /\ UNCHANGED <<clientVars, cacheVars, chanVars, taskVars, runVars, ticks>>

TickSend ==
    /\ ticker = "send"
    /\ \/ /\ messageClosed            \* panic, recovered
          /\ ticker' = "exit"
          /\ UNCHANGED message
       \/ /\ ~messageClosed
          /\ Len(message) < Cap
          /\ message' = Append(message, "in_crawling")
          /\ ticker' = "tick"
    /\ UNCHANGED <<clientVars, cacheVars, messageClosed, messageNil, input,
                   inputClosed, taskVars, runVars, ticks>>

ReturnMessage == Tick \/ TickLoad \/ TickSend

-----------------------------------------------------------------------------
(* The interpreter: run.  A template is data, so any sequence of the       *)
(* operations below is the run of some template.                           *)

RunStart ==
    /\ run.pc = "start"
    /\ finished' = FALSE
    /\ ticker' = IF InCrawling THEN "tick" ELSE "none"
    /\ run' = [run EXCEPT !.pc = IF OutPubKey THEN "load" ELSE "ready",
                          !.msg = IF OutPubKey THEN "output_publickey" ELSE "progress"]
    /\ UNCHANGED <<clientVars, cacheVars, chanVars, needParam, writeResult,
                   browser, args, ctx, steps, ticks>>

(* need_param: nothing to do, a value already in args, or wait for input.  *)
NeedParam(k, optional) ==
    /\ run.pc = "ready" /\ steps < MaxSteps
    /\ steps' = steps + 1
    /\ \/ /\ k \in ctx \union args \/ optional
          /\ run' = [run EXCEPT !.pc = "needed"]
          /\ ctx' = ctx \union {k}
          /\ args' = IF k \in ctx THEN args ELSE args \ {k}
          /\ UNCHANGED needParam
       \/ /\ k \notin ctx \union args /\ ~optional
          /\ run' = [run EXCEPT !.pc = "read", !.key = k]
          /\ needParam' = TRUE
          /\ UNCHANGED <<args, ctx>>
    /\ UNCHANGED <<clientVars, cacheVars, chanVars, finished, writeResult,
                   browser, tickVars>>

(* One turn of the loop in GetArgsValue around readInputArgs.              *)
ReadInputArgs ==
    /\ run.pc = "read"
    /\ \/ /\ input # <<>>
          /\ input' = Tail(input)
          /\ LET all == args \union Head(input) IN
               \/ /\ run.key \in all
                  /\ args' = all \ {run.key}
                  /\ ctx' = ctx \union {run.key}
                  /\ needParam' = FALSE
                  /\ run' = [run EXCEPT !.pc = "needed"]
               \/ /\ run.key \notin all
                  /\ args' = all
                  /\ needParam' = ~finished
                  /\ run' = [run EXCEPT !.pc = IF finished THEN "needed" ELSE "read"]
                  /\ UNCHANGED ctx
          /\ UNCHANGED finished
       \/ /\ input = <<>> /\ inputClosed
          /\ finished' = TRUE
          /\ needParam' = FALSE
          /\ run' = [run EXCEPT !.pc = "needed"]
          /\ UNCHANGED <<input, args, ctx>>
    /\ UNCHANGED <<clientVars, cacheVars, message, messageClosed, messageNil,
                   inputClosed, writeResult, browser, steps, tickVars>>

(* After each parameter: an expired session stops here, saying nothing.    *)
AfterNeed ==
    /\ run.pc = "needed"
    /\ \/ /\ finished
          /\ writeResult' = TRUE
          /\ browser' = FALSE
          /\ run' = [run EXCEPT !.pc = "exit", !.then = "need"]
       \/ /\ ~finished
          /\ run' = [run EXCEPT !.pc = "ready", !.key = "-"]
          /\ UNCHANGED <<writeResult, browser>>
    /\ UNCHANGED <<clientVars, cacheVars, chanVars, finished, needParam, args,
                   ctx, steps, tickVars>>

OpenBrowser ==
    /\ run.pc = "ready" /\ steps < MaxSteps
    /\ ~browser
    /\ browser' = TRUE
    /\ steps' = steps + 1
    /\ UNCHANGED <<clientVars, cacheVars, chanVars, finished, needParam,
                   writeResult, args, ctx, run, tickVars>>

(* delete_context of a fired action.                                       *)
DeleteContext(k) ==
    /\ run.pc = "ready"
    /\ k \in ctx \union args
    /\ args' = args \ {k}
    /\ ctx' = ctx \ {k}
    /\ UNCHANGED <<clientVars, cacheVars, chanVars, finished, needParam,
                   writeResult, browser, run, steps, tickVars>>

(* A message that does not end the session: of an action (sent as it is)   *)
(* or of a step (sent unless the field is nil).                            *)
Progress(guarded) ==
    /\ run.pc = "ready" /\ steps < MaxSteps
    /\ steps' = steps + 1
    /\ run' = [run EXCEPT !.pc = IF guarded THEN "check" ELSE "load",
                          !.msg = "progress",
                          !.then = IF guarded THEN "guarded" ELSE "continue"]
    /\ UNCHANGED <<clientVars, cacheVars, chanVars, taskVars, tickVars>>

(* The last message: an action that fails or finishes, a goto taken too    *)
(* often, a step that fails, a script that fails, the end of the steps.    *)
EndWith(ending, msg) ==
    /\ run.pc = "ready"
    /\ ending = "action" \/ msg = (IF ending = "finish" THEN "finish_fetch_data" ELSE "fail")
    /\ writeResult' = (writeResult \/ ending = "finish")
    /\ browser' = (browser /\ ending # "finish")
    /\ run' = [run EXCEPT !.pc = IF ending = "step" THEN "check" ELSE "load",
                          !.msg = msg, !.then = ending]
    /\ UNCHANGED <<clientVars, cacheVars, chanVars, finished, needParam, args,
                   ctx, steps, tickVars>>

(* A step panics, as nextToRedis does on a failed SELECT: run recovers and *)
(* returns; it has said nothing and the session is not finished.           *)
StepPanics ==
    /\ run.pc = "ready"
    /\ run' = [run EXCEPT !.pc = "exit", !.then = "panic"]
    /\ UNCHANGED <<clientVars, cacheVars, chanVars, taskVars, steps, tickVars>>

(* Wrong on purpose: a session that fails is finished before its message.  *)
BadRunCheck ==
    /\ run.pc = "check"
    /\ finished' = (finished \/ run.then \in Ending)
    /\ run' = [run EXCEPT !.pc = IF messageNil THEN "after" ELSE "load"]
    /\ UNCHANGED <<clientVars, cacheVars, chanVars, needParam, writeResult,
                   browser, args, ctx, steps, tickVars>>

(* if p.message != nil, before the message of a step.                      *)
RunCheck ==
    /\ run.pc = "check"
    /\ run' = [run EXCEPT !.pc = IF messageNil THEN "after" ELSE "load"]
    /\ UNCHANGED <<clientVars, cacheVars, chanVars, taskVars, steps, tickVars>>

RunLoad ==
    /\ run.pc = "load"
    /\ run' = [run EXCEPT !.pc = IF messageNil THEN "blocked" ELSE "send"]
    /\ UNCHANGED <<clientVars, cacheVars, chanVars, taskVars, steps, tickVars>>

(* Wrong on purpose: a message that finds the channel full is dropped.     *)
BadRunSend ==
    /\ run.pc = "send"
    /\ \/ /\ messageClosed
          /\ run' = [run EXCEPT !.pc = "exit", !.then = "panic"]
          /\ UNCHANGED message
       \/ /\ ~messageClosed
          /\ message' = IF Len(message) < Cap THEN Append(message, run.msg) ELSE message
          /\ run' = [run EXCEPT !.pc = "after"]
    /\ UNCHANGED <<clientVars, cacheVars, messageClosed, messageNil, input,
                   inputClosed, taskVars, steps, tickVars>>

RunSend ==
    /\ run.pc = "send"
    /\ \/ /\ messageClosed            \* panic: recovered, nothing is released
          /\ run' = [run EXCEPT !.pc = "exit", !.then = "panic"]
          /\ UNCHANGED message
       \/ /\ ~messageClosed
          /\ Len(message) < Cap
          /\ message' = Append(message, run.msg)
          /\ run' = [run EXCEPT !.pc = "after"]
    /\ UNCHANGED <<clientVars, cacheVars, messageClosed, messageNil, input,
                   inputClosed, taskVars, steps, tickVars>>

(* Wrong on purpose: run goes on after a step that failed ...              *)
BadRunAfter ==
    /\ run.pc = "after"
    /\ \/ /\ run.then \in {"continue", "guarded", "step"}
          /\ run' = [run EXCEPT !.pc = "ready", !.msg = "progress", !.then = "continue"]
          /\ UNCHANGED <<finished, writeResult, browser>>
       \/ /\ run.then \in Ending \ {"step"}
          /\ finished' = TRUE
          /\ writeResult' = (writeResult \/ run.then = "action")
          /\ browser' = (browser /\ run.then \notin {"action", "goto"})
          /\ run' = [run EXCEPT !.pc = "exit"]
    /\ UNCHANGED <<clientVars, cacheVars, chanVars, needParam, args, ctx, steps,
                   tickVars>>

(* ... or leaves the browser open.                                         *)
BadRelease ==
    /\ run.pc = "after"
    /\ \/ /\ run.then \in {"continue", "guarded"}
          /\ run' = [run EXCEPT !.pc = "ready", !.msg = "progress", !.then = "continue"]
          /\ UNCHANGED <<finished, writeResult>>
       \/ /\ run.then \in Ending
          /\ finished' = TRUE
          /\ writeResult' = (writeResult \/ run.then \in {"action", "step"})
          /\ run' = [run EXCEPT !.pc = "exit"]
    /\ UNCHANGED <<clientVars, cacheVars, chanVars, needParam, browser, args, ctx,
                   steps, tickVars>>

(* What run does between its last message and its return.                  *)
RunAfter ==
    /\ run.pc = "after"
    /\ \/ /\ run.then \in {"continue", "guarded"}
          /\ run' = [run EXCEPT !.pc = "ready", !.msg = "progress", !.then = "continue"]
          /\ UNCHANGED <<finished, writeResult, browser>>
       \/ /\ run.then \in Ending
          /\ finished' = TRUE
          /\ writeResult' = (writeResult \/ run.then \in {"action", "step"})
          /\ browser' = (browser /\ run.then \notin {"action", "goto", "step"})
          /\ run' = [run EXCEPT !.pc = "exit"]
    /\ UNCHANGED <<clientVars, cacheVars, chanVars, needParam, args, ctx, steps,
                   tickVars>>

(* What run does by itself once its step has said what to do ...           *)
RunProceeds ==
    \/ RunStart \/ ReadInputArgs \/ AfterNeed
    \/ RunCheck \/ RunLoad \/ RunSend \/ RunAfter

(* ... and what the next step asks for, if the step ever comes to its end. *)
TemplateStep ==
    \/ OpenBrowser
    \/ \E k \in Keys : DeleteContext(k) \/ \E o \in BOOLEAN : NeedParam(k, o)
    \/ \E g \in BOOLEAN : Progress(g)
    \/ \E e \in Ending, m \in Terminal : EndWith(e, m)
    \/ StepPanics

-----------------------------------------------------------------------------
(* A deadlocked state is one where every goroutine is gone, or blocked for *)
(* ever on the nil channel: the process lives on.                          *)
Next ==
    \/ \E c \in Clients : CreateCommand(c) \/ GetCommand(c) \/ Handler(c)
    \/ Expire \/ Close
    \/ ReturnMessage
    \/ RunProceeds \/ TemplateStep

Spec == Init /\ [][Next]_vars

(* The Go scheduler runs every goroutine that is ready, and a timer fires. *)
(* Nothing forces callers to send requests, and a step of a template may   *)
(* hang (a download without a timeout, the pipe of a casperjs process).    *)
Fairness ==
    /\ \A c \in Clients : WF_vars(Handler(c))
    /\ WF_vars(Expire) /\ WF_vars(Close)
    /\ WF_vars(ReturnMessage)
    /\ WF_vars(RunProceeds)

FairSpec == Spec /\ Fairness

-----------------------------------------------------------------------------
(* Properties                                                              *)

Buffered(statuses) == {i \in DOMAIN message : message[i] \in statuses}
Taken == {c \in Clients : answer[c] \in Terminal}

(* At most one outcome ("fail" or "finish_fetch_data" written by run) ever *)
(* exists, in the channel or in the hands of one caller: every ending of   *)
(* run returns after its message, whatever else is sent or read meanwhile. *)
OneOutcome == Cardinality(Buffered(Terminal)) + Cardinality(Taken) <= 1

(* While the session lives, an outcome that waits in the channel can still *)
(* be fetched: Process has not dropped the id for an earlier answer.       *)
OutcomeReachable ==
    (Buffered(Terminal) # {} /\ timer = "armed") => cached

(* A live session that has turned finished, and so ignores its input, has  *)
(* said so: its outcome is in the channel or was taken.                    *)
FinishedIsAnnounced ==
    (finished /\ timer \in {"none", "armed"}) => (Buffered(Terminal) # {} \/ Taken # {})

(* Only keep-alive messages can be behind the outcome in the channel: the  *)
(* ticker tests finished before it sends.  They mislead nobody but a       *)
(* second caller.                                                          *)
OnlyCrawlingAfterOutcome ==
    \A i \in Buffered(Terminal) : \A j \in DOMAIN message :
        j > i => message[j] = "in_crawling"

(* A handler waits in vain for a session that is over but not yet expired  *)
(* only if another caller took its outcome or a step panicked and run left *)
(* without one (task_cmd.go:468, 937): a caller that polls alone is never  *)
(* left waiting for the live time by an ending that run knows of.          *)
Stranded(c) ==
    /\ pc[c] \in {"load", "recv"}
    /\ run.pc = "exit"
    /\ message = <<>>
    /\ timer \in {"none", "armed"}

StrandedIsKnown ==
    \A c \in Clients :
        Stranded(c) => run.then = "panic" \/ \E d \in Clients \ {c} : d \in Taken

(* A parameter that arrived before the template needed it is not overlooked *)
(* and asked for again: run waits only for a key it has no value of.       *)
WaitsOnlyForMissing == run.pc = "read" => run.key \notin args \union ctx

(* What run leaves behind when it has returned: a browser only after a     *)
(* failed script or a panic, the periodic writer of extractor results also *)
(* after a goto taken too often.                                           *)
LeaksAreKnown ==
    run.pc = "exit" =>
        /\ browser => run.then \in {"python", "panic"}
        /\ ~writeResult => run.then \in {"python", "panic", "goto"}

(* The session keeps the contract: one listing, one outcome taken at most  *)
(* once, the id dropped only after the outcome was taken or the live time  *)
(* is over.                                                                *)
listing ==
    IF cached THEN "listed" ELSE IF timer = "none" THEN "new" ELSE "dropped"
outcome ==
    IF Taken # {} THEN "taken" ELSE IF Buffered(Terminal) # {} THEN "published" ELSE "none"
expired == timer \notin {"none", "armed"}

SessionPromise == INSTANCE SessionContract
Contract == SessionPromise!Spec

(* A request that waits for a message is answered, if only by the expiry,  *)
(* and one that waits at a full input channel gets on: it too ends, unless *)
(* Close overtakes it and sets the field message to nil before GetMessage  *)
(* reads it (task_cmd.go:291, 358; no recover and no timeout ends that):   *)
(* such a handler is lost, it stays at the nil channel for ever.           *)
Lost(c) == pc[c] = "nil" /\ messageNil

RequestsEnd ==
    \A c \in Clients :
        /\ pc[c] = "recv" ~> pc[c] = "idle"
        /\ pc[c] \in {"check", "push", "load"} ~> pc[c] = "idle" \/ Lost(c)

(* Only requests that Close overtakes are lost: once the expired id has    *)
(* left the cache, no request that comes later ever meets the nil channel. *)
NoneLostAfterExpiry ==
    \A c \in Clients :
        [](timer = "done" /\ pc[c] = "idle" => [](pc[c] # "nil"))

(* run never stays for ever at a channel it has got hold of: a parameter   *)
(* nobody sends and a message nobody reads end with the live time.         *)
RunUnblocks == run.pc \in {"read", "send"} ~> run.pc \notin {"read", "send"}

(* The cache does not keep a session for ever.                             *)
CacheDrains == cached ~> ~cached

-----------------------------------------------------------------------------
(* The inductive invariant behind the theorems of TaskSessionProofs        *)

(* Close works through its steps in order, and only for a listed session.  *)
CloseInv ==
    /\ cached => timer \notin {"none", "done"}
    /\ messageClosed => timer \in {"setnil", "closeinput", "delete", "done"}
    /\ messageNil => timer \in {"closeinput", "delete", "done"}
    /\ inputClosed => timer \in {"delete", "done"}

(* Nothing happens before the creator's request; until SetCommand the      *)
(* creator is alone; a caller that waits has no outcome yet; "unknown" is  *)
(* answered from a closed channel only.                                    *)
CallerInv ==
    /\ timer # "none" => run.pc # "none"
    /\ idKnown => timer # "none"
    /\ \A c, d \in Clients : pc[c] = "set" /\ pc[d] = "set" => c = d
    /\ \A c \in Clients :
         /\ pc[c] = "set" => timer = "none" /\ run.pc # "none"
         /\ pc[c] \notin {"idle", "set"} => timer # "none"
         /\ pc[c] \notin {"idle", "reply"} => answer[c] \notin Terminal
         /\ pc[c] = "reply" /\ answer[c] = "unknown" => timer \notin {"none", "armed"}

(* run holds an outcome to send exactly on its way to an ending.           *)
RunInv ==
    /\ run.pc \in {"check", "load", "send"} => (run.msg \in Terminal <=> run.then \in Ending)
    /\ run.pc \in {"none", "start", "ready", "read", "needed"} => run.then \notin Ending

HasOutcome == \E i \in DOMAIN message : message[i] \in Terminal
IsTaken == \E c \in Clients : answer[c] \in Terminal

(* One outcome: it is sent once, is in one place, and is announced before  *)
(* the session turns finished; the id is dropped after it was taken.       *)
SentOnce == \A i, j \in DOMAIN message :
                message[i] \in Terminal /\ message[j] \in Terminal => i = j
TakenOnce == \A c, d \in Clients :
                answer[c] \in Terminal /\ answer[d] \in Terminal => c = d
OnePlace == ~(HasOutcome /\ IsTaken)
SentAtEnding ==
    HasOutcome \/ IsTaken => run.pc \in {"after", "exit"} /\ run.then \in Ending
EndingSends ==
    run.pc = "after" /\ run.then \in Ending => HasOutcome \/ IsTaken \/ messageNil
Announced == finished /\ timer \in {"none", "armed"} => HasOutcome \/ IsTaken
DroppedTaken == timer = "armed" /\ ~cached => IsTaken

OutcomeInv ==
    SentOnce /\ TakenOnce /\ OnePlace /\ SentAtEnding /\ EndingSends /\ Announced
    /\ DroppedTaken

IInv == TypeOK /\ CloseInv /\ CallerInv /\ RunInv /\ OutcomeInv
=============================================================================
