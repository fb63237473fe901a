---------------------------- MODULE CasperBridge ----------------------------
(***************************************************************************)
(* The bridge between a session and its casperjs process: CasperJS.Run, a  *)
(* goroutine that reads the lines the process writes, hands them to the    *)
(* template through outputChan (readCasper), and hands the answers of the  *)
(* template (writeCasper, inputChan) to the process.  A question of the    *)
(* process waits for its answer for five minutes, need_path for eight      *)
(* seconds, while the template may first ask its own caller.               *)
(*                                                                         *)
(* The process and the template are what the scripts in etc/casperjs and   *)
(* the templates with casperjs_script do: the process asks no question     *)
(* before it has read the line that answers the one before; the template   *)
(* reads in a loop, answers a question it has read once, with what its     *)
(* caller wrote (the word finish even), and stops reading after the last   *)
(* line.  Either may stop at any moment.  CasperDialog has  *)
(* the scripts and templates themselves and is shown to implement this.    *)
(***************************************************************************)
EXTENDS Naturals, Sequences

CONSTANTS
    Cap,       \* capacity of both channels (10 in the code)
    PipeCap,   \* bound: lines the pipe of the process holds
    MaxLines   \* bound: lines the process writes

ASSUME BridgeAssumption == Cap \in Nat \ {0} /\ PipeCap \in Nat /\ MaxLines \in Nat

(* What Run makes of a line, in the order of its tests: "tell" (set_params,*)
(* html, version) goes on; "need" (need, wrong) waits for an answer with a *)
(* timeout; "randcode" waits for one without; "last" (finish, fail, skip,  *)
(* cookie###) ends; "strange" is every other line.                         *)
Kind == {"tell", "need", "randcode", "last", "strange"}
Question == {"need", "randcode"}

(* Lines and answers carry the number of the question they belong to.      *)
Line == [kind : Kind, of : 0..MaxLines]
None == MaxLines + 1    \* no line for the process
Finish == MaxLines + 2  \* the answer Run makes up when the time is over, or a
                        \* caller's that reads the same
Answers == (0..MaxLines) \union {Finish}

VARIABLES
    proc,       \* the process
    asked,      \* number of the question it asked last
    lines,      \* lines it has written
    pipe,       \* its stdout
    stdin,      \* the line written to it and not read yet
    bridge,     \* where Run is
    line,       \* the line Run has read
    output,     \* outputChan
    input,      \* inputChan
    session,    \* where the template is
    question,   \* the question the template is about to answer
    gaveUp      \* why Run ended without a last line

procVars == <<proc, asked, lines>>
bridgeVars == <<bridge, line, gaveUp>>
sessionVars == <<session, question>>
vars == <<procVars, pipe, stdin, bridgeVars, output, input, sessionVars>>

TypeOK ==
    /\ proc \in {"none", "running", "asking", "gone"}
    /\ asked \in 0..lines
    /\ lines \in 0..MaxLines
    /\ pipe \in Seq(Line) /\ Len(pipe) <= PipeCap
    /\ stdin \in 0..MaxLines + 2
    /\ bridge \in {"start", "read", "send", "wait", "waitlong", "kill", "reap",
                   "ended"}
    /\ line \in Line
    /\ output \in Seq(Line) /\ Len(output) <= Cap
    /\ input \in Seq(Answers) /\ Len(input) <= Cap
    /\ session \in {"away", "reading", "answering", "done"}
    /\ question \in 0..MaxLines
    /\ gaveUp \in {"no", "start", "timeout", "caller"}

Init ==
    /\ proc = "none" /\ asked = 0 /\ lines = 0
    /\ pipe = <<>> /\ stdin = None
    /\ bridge = "start" /\ line = [kind |-> "tell", of |-> 0]
    /\ output = <<>> /\ input = <<>>
    /\ session = "away" /\ question = 0
    /\ gaveUp = "no"

-----------------------------------------------------------------------------
(* The process                                                             *)

Emit(kind, n) ==
    /\ lines < MaxLines
    /\ Len(pipe) < PipeCap
    /\ pipe' = Append(pipe, [kind |-> kind, of |-> n])
    /\ lines' = lines + 1
    /\ UNCHANGED <<stdin, bridgeVars, output, input, sessionVars>>

(* A script may go on after any line: after its last one, after a line     *)
(* nobody expects from it, and after its question, before it reads.        *)
Say(kind) ==
    /\ proc \in {"running", "asking"}
    /\ Emit(kind, 0)
    /\ UNCHANGED <<proc, asked>>

Ask(kind) ==
    /\ proc = "running"
    /\ Emit(kind, asked + 1)
    /\ asked' = asked + 1
    /\ proc' = "asking"

ReadLine ==
    /\ proc \in {"running", "asking"}
    /\ stdin # None
    /\ proc' = "running"
    /\ stdin' = None
    /\ UNCHANGED <<asked, lines, pipe, bridgeVars, output, input, sessionVars>>

Exit ==
    /\ proc \in {"running", "asking"}
    /\ proc' = "gone"
    /\ UNCHANGED <<asked, lines, pipe, stdin, bridgeVars, output, input,
                   sessionVars>>

-----------------------------------------------------------------------------
(* CasperJS.Run                                                            *)

(* An error of Start ends Run; nobody looks at it.                         *)
Start ==
    /\ bridge = "start"
    /\ \/ bridge' = "read" /\ proc' = "running" /\ UNCHANGED gaveUp
       \/ bridge' = "ended" /\ gaveUp' = "start" /\ UNCHANGED proc
    /\ UNCHANGED <<asked, lines, pipe, stdin, line, output, input, sessionVars>>

ReadPipe ==
    /\ bridge = "read"
    /\ pipe # <<>>
    /\ line' = Head(pipe)
    /\ pipe' = Tail(pipe)
    /\ bridge' = "send"
    /\ UNCHANGED <<procVars, stdin, output, input, sessionVars, gaveUp>>

ToOutput(l) ==
    /\ Len(output) < Cap
    /\ output' = Append(output, l)
    /\ UNCHANGED <<procVars, pipe, stdin, line, input, sessionVars, gaveUp>>

(* Wrong on purpose: the end of the pipe ends Run without a last line.     *)
BadReadError ==
    /\ bridge = "read"
    /\ pipe = <<>> /\ proc = "gone"
    /\ bridge' = "kill"
    /\ UNCHANGED <<procVars, pipe, stdin, line, output, input, sessionVars, gaveUp>>

(* The end of the pipe: Run makes up a last line, then kills.              *)
ReadError ==
    /\ bridge = "read"
    /\ pipe = <<>> /\ proc = "gone"
    /\ ToOutput([kind |-> "last", of |-> 0])
    /\ bridge' = "kill"

(* A strange line is replaced by a last one.                               *)
Send ==
    /\ bridge = "send"
    /\ ToOutput(IF line.kind = "strange" THEN [line EXCEPT !.kind = "last"]
                                         ELSE line)
    /\ bridge' = CASE line.kind = "tell"     -> "read"
                   [] line.kind = "need"     -> "wait"
                   [] line.kind = "randcode" -> "waitlong"
                   [] OTHER                  -> "reap"

Write(answer) ==
    /\ stdin' = answer
    /\ UNCHANGED <<procVars, pipe, line, output, sessionVars>>

(* Run passes the answer on.  Where it waits with a timeout, finish ends   *)
(* it, whoever said so; a randcode is not looked at.                       *)
TakeAnswer ==
    /\ bridge \in {"wait", "waitlong"}
    /\ input # <<>>
    /\ Write(Head(input))
    /\ input' = Tail(input)
    /\ IF bridge = "wait" /\ Head(input) = Finish
       THEN bridge' = "reap" /\ gaveUp' = "caller"
       ELSE bridge' = "read" /\ UNCHANGED gaveUp

(* Wrong on purpose: after the timeout Run reads the next line.           *)
BadTimeout ==
    /\ bridge = "wait"
    /\ Write(Finish)
    /\ bridge' = "read"
    /\ gaveUp' = "timeout"
    /\ UNCHANGED input

(* select chooses freely when an answer has come as well.                  *)
Timeout ==
    /\ bridge = "wait"
    /\ Write(Finish)
    /\ bridge' = "reap"
    /\ gaveUp' = "timeout"
    /\ UNCHANGED input

(* Process.Wait, then Kill.                                                *)
Reap ==
    /\ bridge = "reap"
    /\ proc = "gone"
    /\ bridge' = "ended"
    /\ UNCHANGED <<procVars, pipe, stdin, line, output, input, sessionVars,
                   gaveUp>>

Kill ==
    /\ bridge = "kill"
    /\ bridge' = "ended"
    /\ proc' = "gone"
    /\ UNCHANGED <<asked, lines, pipe, stdin, line, output, input, sessionVars,
                   gaveUp>>

-----------------------------------------------------------------------------
(* The template                                                            *)

ReadCasper ==
    /\ session = "away"
    /\ session' = "reading"
    /\ UNCHANGED <<procVars, pipe, stdin, bridgeVars, output, input, question>>

ReadChan ==
    /\ session = "reading"
    /\ output # <<>>
    /\ LET l == Head(output) IN
       /\ session' = CASE l.kind \in Question -> "answering"
                       [] l.kind = "last"     -> "done"
                       [] OTHER               -> "away"
       /\ question' = IF l.kind \in Question THEN l.of ELSE question
    /\ output' = Tail(output)
    /\ UNCHANGED <<procVars, pipe, stdin, bridgeVars, input>>

WriteCasper ==
    /\ session = "answering"
    /\ Len(input) < Cap
    /\ \E a \in {question, Finish} : input' = Append(input, a)
    /\ session' = "away"
    /\ UNCHANGED <<procVars, pipe, stdin, bridgeVars, output, question>>

(* The session ends, for whatever reason, without reading on.              *)
Leave ==
    /\ session \in {"away", "answering"}
    /\ session' = "done"
    /\ UNCHANGED <<procVars, pipe, stdin, bridgeVars, output, input, question>>

-----------------------------------------------------------------------------
Process ==
    \/ \E k \in Kind \ Question : Say(k)
    \/ \E k \in Question : Ask(k)
    \/ ReadLine
    \/ Exit

Run == Start \/ ReadPipe \/ ReadError \/ Send \/ TakeAnswer \/ Timeout \/ Reap \/ Kill

Template == ReadCasper \/ ReadChan \/ WriteCasper \/ Leave

Next == Process \/ Run \/ Template

(* The goroutine and its timer run when they can, and a process that waits *)
(* for a line reads it.  Nothing makes a process or a template go on.      *)
Spec == Init /\ [][Next]_vars /\ WF_vars(Run) /\ WF_vars(ReadLine)

-----------------------------------------------------------------------------
(* Properties                                                              *)

(* The line the process reads as the answer of a question is the answer to *)
(* that question, or finish (casperjs.go:140-154).  An answer that comes   *)
(* after the timeout must never be taken for the answer to a later one.    *)
RightAnswer ==
    /\ stdin # None => proc = "asking" \/ proc = "gone"
    /\ stdin \notin {None, Finish} => stdin = asked

(* Nothing closes outputChan: a template that reads when Run has nothing   *)
(* more to send blocks for ever (casperjs.go:66).  That happens only after *)
(* a timeout or an answer of the caller that reads finish, both of which   *)
(* go to the process and not to the template (casperjs.go:147, 152), or    *)
(* when the process could not be started; every other way Run ends sends a *)
(* last line first, which stops the template (casperjs.go:101, 109, 165,   *)
(* 175).                                                                   *)
NoLineLeft == output = <<>> /\ bridge \in {"kill", "reap", "ended"}
BlocksOnlyAfterGivingUp ==
    session = "reading" /\ NoLineLeft => gaveUp \in {"timeout", "start", "caller"}

-----------------------------------------------------------------------------
(* The inductive invariant behind the safety properties                    *)

Live == bridge \in {"start", "read", "send", "wait", "waitlong"}
Waiting == bridge \in {"wait", "waitlong"}

NoQuestion(s) == \A i \in DOMAIN s : s[i].kind \notin Question
OneAsks(s) ==
    \A i, j \in DOMAIN s :
        s[i].kind \in Question /\ s[j].kind \in Question => i = j /\ s[i].of = asked
OnlyLastAsks(s) ==
    \A i \in DOMAIN s : s[i].kind \in Question => i = Len(s) /\ s[i].of = asked

(* While Run lives there is one question at most on its way, and it is the *)
(* one asked last: in the pipe, with Run, in outputChan, with the template *)
(* or, as an answer, in inputChan.                                         *)
InPipe ==
    /\ OneAsks(pipe)
    /\ ~ NoQuestion(pipe) => stdin = None /\ proc \in {"asking", "gone"}
InRun ==
    bridge = "send" /\ line.kind \in Question =>
        /\ NoQuestion(pipe)
        /\ line.of = asked
        /\ stdin = None /\ proc \in {"asking", "gone"}
BeforeTheWait ==
    ~ Waiting => NoQuestion(output) /\ session # "answering" /\ input = <<>>
InTheWait ==
    Waiting =>
        /\ NoQuestion(pipe) /\ stdin = None /\ proc \in {"asking", "gone"}
        /\ OnlyLastAsks(output)
        /\ NoQuestion(output) \/ (session # "answering" /\ input = <<>>)
        /\ session = "answering" => question = asked /\ input = <<>>
        /\ input \in {<<>>, <<asked>>, <<Finish>>}
OneQuestion == Live => InPipe /\ InRun /\ BeforeTheWait /\ InTheWait

(* Once Run sends no more, the last line is in outputChan, behind whatever *)
(* else is there, or the template has stopped reading.                     *)
LastLineComes ==
    ~ Live /\ gaveUp = "no" =>
        \/ session = "done"
        \/ output # <<>> /\ output[Len(output)].kind = "last"

ProcessKnown ==
    /\ bridge = "start" => proc = "none"
    /\ bridge = "ended" => proc \in {"none", "gone"}

IInv == TypeOK /\ RightAnswer /\ OneQuestion /\ LastLineComes /\ ProcessKnown

=============================================================================
