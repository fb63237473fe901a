---------------------------- MODULE CasperDialog ----------------------------
(***************************************************************************)
(* A session's dialog with a casperjs script: the script, CasperJS.Run and *)
(* the template, with the lines that each of them really writes.  It       *)
(* implements CasperBridge, where script and template are free.            *)
(*                                                                         *)
(* script is the one the template names; what it writes after a line it    *)
(* has read is chosen when it reads, as the page decides it.  PhantomJS is *)
(* stopped while readLine blocks: no timer and no page event fires there.  *)
(***************************************************************************)
EXTENDS CasperScripts

CONSTANTS
    Started,   \* the scripts that are started
    Cap,       \* capacity of both channels (10 in the code)
    PipeCap,   \* bound: lines the pipe of the process holds
    MaxLines   \* bound: lines the process writes

(* A script asks once at most before it reads.                             *)
AsksOnce(say) == \A i, j \in DOMAIN say : say[i] \in Ask /\ say[j] \in Ask => i = j

ASSUME DialogAssumption ==
    /\ Started \subseteq Scripts
    /\ Cap \in Nat \ {0} /\ PipeCap \in Nat /\ MaxLines \in Nat
    /\ \A s \in Started :
          /\ \A o \in Opening(s) : o \in Outcome /\ AsksOnce(o.say)
          /\ \A r \in 1..Rounds(s), a \in Answer \union {"finish"} :
                \A o \in Round(s, r, a) : o \in Outcome /\ AsksOnce(o.say)

(* A line: its name, the number of the question it is (0 for others), and  *)
(* how many answers the script had read when it wrote it.  An answer: its  *)
(* name and its question.                                                  *)
Line == [name : Name, of : 0..MaxLines, after : Nat]
Reply == [name : Answer, of : 0..MaxLines]
Finish == [name |-> "finish", of |-> MaxLines + 2]  \* Run's own, or a caller's
None == [name |-> "", of |-> MaxLines + 1]          \* no line for the script

VARIABLES
    script,     \* the script
    proc,       \* its process
    todo,       \* what it is going to write before it reads
    end,        \* whether it ends then: "no", "yes", or it is "dying"
    open,       \* it has written a question and read no line since
    earned,     \* history: it has written a result
    round,      \* lines it has read
    asked,      \* its questions
    lines,      \* its lines
    pipe,       \* its stdout
    stdin,      \* the line written to it and not read yet
    bridge,     \* where Run is
    line,       \* the line Run has read
    gaveUp,     \* why Run ended without a last line
    output,     \* outputChan
    input,      \* inputChan
    session,    \* where the template is
    question,   \* the line it is about to answer
    given,      \* history: answers it has given
    tries,      \* its counters
    outcome     \* what became of the login

procVars == <<proc, todo, end, open, earned, round, asked, lines>>
bridgeVars == <<bridge, line, gaveUp>>
sessionVars == <<session, question, given, tries, outcome>>
vars == <<script, procVars, pipe, stdin, bridgeVars, output, input, sessionVars>>

NoLine == [name |-> "html", of |-> 0, after |-> 0]

TypeOK ==
    /\ script \in Started
    /\ proc \in {"none", "running", "reading", "gone"}
    /\ todo \in Seq(Name) /\ {open, earned} \subseteq BOOLEAN /\ end \in {"no", "yes", "dying"} /\ round \in Nat
    /\ asked \in 0..lines /\ lines \in 0..MaxLines
    /\ pipe \in Seq(Line)
    /\ stdin \in Reply \union {Finish, None}
    /\ bridge \in {"start", "read", "send", "wait", "kill", "reap", "ended"}
    /\ line \in Line
    /\ gaveUp \in {"no", "start", "timeout", "caller"}
    /\ output \in Seq(Line) /\ input \in Seq(Reply \union {Finish})
    /\ session \in {"away", "reading", "answering", "done"}
    /\ question \in Line
    /\ given \in Nat
    /\ tries \in [{"picture", "message"} -> Nat]
    /\ outcome \in {"none", "won", "lost"}

Init ==
    /\ script \in Started
    /\ \E o \in Opening(script) : todo = o.say /\ end = IF o.end THEN "yes" ELSE "no"
    /\ open = FALSE /\ earned = FALSE
    /\ proc = "none" /\ round = 0 /\ asked = 0 /\ lines = 0
    /\ pipe = <<>> /\ stdin = None
    /\ bridge = "start" /\ line = NoLine /\ gaveUp = "no"
    /\ output = <<>> /\ input = <<>>
    /\ session = "away" /\ question = NoLine /\ given = 0
    /\ tries = [n \in {"picture", "message"} |-> 0]
    /\ outcome = "none"

-----------------------------------------------------------------------------
(* The script                                                              *)

Write ==
    /\ proc = "running"
    /\ todo # <<>>
    /\ lines < MaxLines
    /\ Len(pipe) < PipeCap
    /\ asked' = IF Head(todo) \in Ask THEN asked + 1 ELSE asked
    /\ pipe' = Append(pipe, [name |-> Head(todo),
                             of |-> IF Head(todo) \in Ask THEN asked + 1 ELSE 0,
                             after |-> round])
    /\ todo' = Tail(todo)
    /\ lines' = lines + 1
    /\ open' = (open \/ Head(todo) \in Ask)
    /\ earned' = (earned \/ Head(todo) \in Result)
    /\ UNCHANGED <<script, proc, end, round, stdin, bridgeVars, output, input,
                   sessionVars>>

(* Wrong on purpose: exit is not looked at before the next line is read.   *)
BadBlock ==
    /\ proc = "running"
    /\ todo = <<>>
    /\ round < Rounds(script)
    /\ proc' = "reading"
    /\ UNCHANGED <<script, todo, end, open, earned, round, asked, lines, pipe, stdin,
                   bridgeVars, output, input, sessionVars>>

(* readLine: the script stands still until there is a line.                *)
Block ==
    /\ proc = "running"
    /\ todo = <<>> /\ end = "no"
    /\ round < Rounds(script)
    /\ proc' = "reading"
    /\ UNCHANGED <<script, todo, end, open, earned, round, asked, lines, pipe, stdin,
                   bridgeVars, output, input, sessionVars>>

ReadLine ==
    /\ proc = "reading"
    /\ stdin # None
    /\ \E o \in Round(script, round + 1, stdin.name) :
          todo' = o.say /\ end' = IF o.end THEN "yes" ELSE "no"
    /\ proc' = "running"
    /\ round' = round + 1
    /\ stdin' = None
    /\ open' = FALSE
    /\ UNCHANGED <<script, earned, asked, lines, pipe, bridgeVars, output, input,
                   sessionVars>>

Exit ==
    /\ proc = "running"
    /\ todo = <<>>
    /\ end # "no" \/ round = Rounds(script)
    /\ proc' = "gone"
    /\ UNCHANGED <<script, todo, end, open, earned, round, asked, lines, pipe, stdin,
                   bridgeVars, output, input, sessionVars>>

(* A wait that is over, the timeout of the whole script or an error of it: *)
(* casper prints why, or nothing, and ends.  gjp_login tells Run when the  *)
(* page has an alert or an error.                                          *)
Die ==
    /\ proc = "running"
    /\ end # "dying"
    /\ todo' \in {<<>>, <<"noise">>}
                 \union (IF script = "gjp_login" THEN {<<"fail">>} ELSE {})
    /\ end' = "dying"
    /\ UNCHANGED <<script, proc, open, earned, round, asked, lines, pipe, stdin, bridgeVars,
                   output, input, sessionVars>>

-----------------------------------------------------------------------------
(* CasperJS.Run                                                            *)

Start ==
    /\ bridge = "start"
    /\ \/ bridge' = "read" /\ proc' = "running" /\ UNCHANGED gaveUp
       \/ bridge' = "ended" /\ gaveUp' = "start" /\ UNCHANGED proc
    /\ UNCHANGED <<script, todo, end, open, earned, round, asked, lines, pipe, stdin, line,
                   output, input, sessionVars>>

ReadPipe ==
    /\ bridge = "read"
    /\ pipe # <<>>
    /\ line' = Head(pipe)
    /\ pipe' = Tail(pipe)
    /\ bridge' = "send"
    /\ UNCHANGED <<script, procVars, stdin, output, input, sessionVars, gaveUp>>

ToOutput(l) ==
    /\ Len(output) < Cap
    /\ output' = Append(output, l)
    /\ UNCHANGED <<script, procVars, pipe, stdin, line, input, sessionVars, gaveUp>>

(* Wrong on purpose: the end of the pipe is taken for the end of the work. *)
BadReadError ==
    /\ bridge = "read"
    /\ pipe = <<>> /\ proc = "gone"
    /\ ToOutput([name |-> "finish", of |-> 0, after |-> round])
    /\ bridge' = "kill"

ReadError ==
    /\ bridge = "read"
    /\ pipe = <<>> /\ proc = "gone"
    /\ ToOutput([name |-> "fail", of |-> 0, after |-> round])
    /\ bridge' = "kill"

Send ==
    /\ bridge = "send"
    /\ ToOutput(IF line.name = "noise" THEN [line EXCEPT !.name = "fail"] ELSE line)
    /\ bridge' = CASE KindOf(line.name) = "tell" -> "read"
                   [] KindOf(line.name) = "need" -> "wait"
                   [] OTHER                      -> "reap"

TakeAnswer ==
    /\ bridge = "wait"
    /\ input # <<>>
    /\ stdin' = Head(input)
    /\ input' = Tail(input)
    /\ IF Head(input) = Finish
       THEN bridge' = "reap" /\ gaveUp' = "caller"
       ELSE bridge' = "read" /\ UNCHANGED gaveUp
    /\ UNCHANGED <<script, procVars, pipe, line, output, sessionVars>>

(* Wrong on purpose: there is no timeout ...                               *)
BadNoTimeout ==
    /\ bridge = "wait"
    /\ input # <<>>
    /\ stdin' = Finish
    /\ bridge' = "reap"
    /\ gaveUp' = "timeout"
    /\ UNCHANGED <<script, procVars, pipe, line, output, input, sessionVars>>

(* ... or Run reads the next line after it.                                *)
BadTimeout ==
    /\ bridge = "wait"
    /\ stdin' = Finish
    /\ bridge' = "read"
    /\ gaveUp' = "timeout"
    /\ UNCHANGED <<script, procVars, pipe, line, output, input, sessionVars>>

Timeout ==
    /\ bridge = "wait"
    /\ stdin' = Finish
    /\ bridge' = "reap"
    /\ gaveUp' = "timeout"
    /\ UNCHANGED <<script, procVars, pipe, line, output, input, sessionVars>>

Reap ==
    /\ bridge = "reap"
    /\ proc = "gone"
    /\ bridge' = "ended"
    /\ UNCHANGED <<script, procVars, pipe, stdin, line, gaveUp, output, input,
                   sessionVars>>

Kill ==
    /\ bridge = "kill"
    /\ bridge' = "ended"
    /\ proc' = "gone"
    /\ UNCHANGED <<script, todo, end, open, earned, round, asked, lines, pipe, stdin, line,
                   gaveUp, output, input, sessionVars>>

-----------------------------------------------------------------------------
(* The template                                                            *)

ReadCasper ==
    /\ session = "away" /\ outcome = "none"
    /\ session' = "reading"
    /\ UNCHANGED <<script, procVars, pipe, stdin, bridgeVars, output, input,
                   question, given, tries, outcome>>

(* Wrong on purpose: a wrong answer is not counted.                        *)
BadCount(l) ==
    /\ tries' = IF l.name \in {"need_randcode", "need_password2", "need_sms"}
                THEN [tries EXCEPT ![CounterOf(script, l.name)] = @ + 1] ELSE tries
    /\ outcome' = outcome

(* A question adds to its counter, unless the counter is above the limit,  *)
(* which ends the session.                                                 *)
Count(l) ==
    LET n == CounterOf(script, l.name) IN
    IF n = "none" THEN UNCHANGED <<tries, outcome>>
    ELSE IF tries[n] > Limit(l.name)
    THEN outcome' = "lost" /\ UNCHANGED tries
    ELSE tries' = [tries EXCEPT ![n] = @ + 1] /\ UNCHANGED outcome

ReadChan ==
    /\ session = "reading"
    /\ output # <<>>
    /\ LET l == Head(output) IN
       IF l.name \in Ask
       THEN session' = "answering" /\ question' = l /\ Count(l)
       ELSE /\ session' = IF l.name \in Final THEN "done" ELSE "away"
            /\ outcome' = Verdict(script, l.name)
            /\ UNCHANGED <<question, tries>>
    /\ output' = Tail(output)
    /\ UNCHANGED <<script, procVars, pipe, stdin, bridgeVars, input, given>>

WriteCasper ==
    /\ session = "answering" /\ outcome = "none"
    /\ Len(input) < Cap
    /\ \E a \in Answers(script, question.name) :
          input' = Append(input, IF a = "finish" THEN Finish
                                 ELSE [name |-> a, of |-> question.of])
    /\ given' = given + 1
    /\ session' = "away"
    /\ UNCHANGED <<script, procVars, pipe, stdin, bridgeVars, output, question,
                   tries, outcome>>

(* The session ends, or goes on without casperjs.                          *)
Leave ==
    /\ session \in {"away", "answering"}
    /\ session' = "done"
    /\ UNCHANGED <<script, procVars, pipe, stdin, bridgeVars, output, input,
                   question, given, tries, outcome>>

-----------------------------------------------------------------------------
GoesOn == Write \/ Block \/ ReadLine \/ Exit
Run == Start \/ ReadPipe \/ ReadError \/ Send \/ TakeAnswer \/ Timeout \/ Reap \/ Kill
Template == ReadCasper \/ ReadChan \/ WriteCasper \/ Leave

Next == GoesOn \/ Die \/ Run \/ Template

(* The page answers or the timers of the script end it; Run and its timer  *)
(* run when they can.  Nothing makes a template go on.                     *)
Spec == Init /\ [][Next]_vars /\ WF_vars(GoesOn) /\ WF_vars(Run)

-----------------------------------------------------------------------------
(* Properties                                                              *)

(* What the template reads when it has answered was written by the script  *)
(* after it had read that answer, or says that the script is at its end:   *)
(* no line is taken for the verdict on an answer it does not know          *)
(* (gjp_login.js:129-147 writes a verdict right behind its question).      *)
VerdictIsFresh ==
    session = "reading" /\ output # <<>> =>
        \/ Head(output).after >= given
        \/ Head(output).name = "fail" /\ (end # "no" \/ proc = "gone")
VerdictIsFreshButGjp == script # "gjp_login" => VerdictIsFresh

(* Run waits for the exit of a process that will never read another line.  *)
Hangs == proc = "reading" /\ stdin = None /\ bridge = "reap"

(* Which scripts that happens to: those that take finish for an answer     *)
(* when a question before the last has timed out (taobaoSearch.js:19-25,   *)
(* tianyancha_long.js:149-152, chinatax.js:41-44), or when the caller gave *)
(* finish for the first of them (shop_rate_ali_search_page.json:31,        *)
(* chinatax.json:35; casperjs.go:152), the one that says finish and asks   *)
(* on (tianyancha_long.js:237), and the one that reads on after fail       *)
(* (gjp_login.js:113, 145).  The logins of jd, lagou and the long ones     *)
(* end, whatever the page, the caller and the template do.                 *)
HangsAreKnown ==
    Hangs => \/ gaveUp = "timeout"
                  /\ script \in {"taobaoSearch", "tianyancha_long", "chinatax"}
             \/ gaveUp = "caller" /\ script \in {"taobaoSearch", "chinatax"}
             \/ gaveUp = "no" /\ script \in {"tianyancha_long", "gjp_login"}

(* A question is asked only when a round is left to read its answer, so    *)
(* that no code of the caller is thrown away: the counters of the template *)
(* are below the 20 rounds of the script.  jd.json counts nothing.         *)
RoundsSuffice ==
    proc = "running" /\ todo = <<>> /\ end = "no" /\ script # "jd_shop"
        => round < Rounds(script)

(* Nobody goes on as if logged in, or with a result, before the script has *)
(* written one (casperjs.go:101, 175 make up a fail for whatever else).    *)
(* lagou_login.json:15-34 and taobao_ua.json:15-36 have no action for a    *)
(* fail, which falls through to their last step.                           *)
SuccessIsEarned == outcome = "won" => earned
SuccessIsEarnedButTwice == script \notin {"lagou", "taobao_ua"} => SuccessIsEarned

(* Every process ends, or hangs in one of the known ways, whatever the     *)
(* page, the caller and the template do.                                   *)
ProcessEnds == <>(bridge = "ended" \/ Hangs)

-----------------------------------------------------------------------------
(* The dialog implements the bridge: every line is its kind, and the       *)
(* process asks from the question it has written to the line it reads.     *)
AbsLine(l) == [kind |-> KindOf(l.name), of |-> l.of]
AbsLines(s) == [i \in DOMAIN s |-> AbsLine(s[i])]
AbsReplies(s) == [i \in DOMAIN s |-> s[i].of]
AbsProc == IF proc \in {"none", "gone"} THEN proc
           ELSE IF open THEN "asking" ELSE "running"

Bridge == INSTANCE CasperBridge WITH
    proc <- AbsProc, pipe <- AbsLines(pipe), stdin <- stdin.of,
    line <- AbsLine(line), output <- AbsLines(output),
    input <- AbsReplies(input), question <- question.of

ImplementsBridge == Bridge!Init /\ [][Bridge!Next]_Bridge!vars
=============================================================================
