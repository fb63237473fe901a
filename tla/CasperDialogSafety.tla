------------------------- MODULE CasperDialogSafety -------------------------
(***************************************************************************)
(* Proofs about what CasperDialog adds to CasperBridge: the lines that the *)
(* scripts and templates really write.  A verdict is on the last answer, a *)
(* process hangs only in the known ways, and the rounds of a script are    *)
(* enough for its questions.  The invariant of CasperBridge comes with the *)
(* refinement.                                                             *)
(***************************************************************************)
EXTENDS CasperDialogProofs

BP == INSTANCE CasperBridgeProofs WITH
    proc <- AbsProc, pipe <- AbsLines(pipe), stdin <- stdin.of,
    line <- AbsLine(line), output <- AbsLines(output),
    input <- AbsReplies(input), question <- question.of

(***************************************************************************)
(* The invariant of the bridge                                             *)
(***************************************************************************)

(* Bridge and BP are the same instance, without and with its proofs.       *)
LEMMA SameNext == [Bridge!Next]_Bridge!vars => [BP!Next]_BP!vars
BY ONLY DEF Bridge!Kind, BP!Kind, Bridge!Question, BP!Question, Bridge!Line, BP!Line,
               Bridge!None, BP!None, Bridge!Finish, BP!Finish, Bridge!procVars, BP!procVars,
               Bridge!bridgeVars, BP!bridgeVars, Bridge!sessionVars, BP!sessionVars,
               Bridge!vars, BP!vars, Bridge!Emit, BP!Emit, Bridge!Say, BP!Say,
               Bridge!Ask, BP!Ask, Bridge!ReadLine, BP!ReadLine, Bridge!Exit, BP!Exit,
               Bridge!Start, BP!Start, Bridge!ReadPipe, BP!ReadPipe,
               Bridge!ToOutput, BP!ToOutput, Bridge!ReadError, BP!ReadError,
               Bridge!Send, BP!Send, Bridge!Write, BP!Write,
               Bridge!TakeAnswer, BP!TakeAnswer, Bridge!Timeout, BP!Timeout,
               Bridge!Reap, BP!Reap, Bridge!Kill, BP!Kill, Bridge!ReadCasper, BP!ReadCasper,
               Bridge!ReadChan, BP!ReadChan, Bridge!WriteCasper, BP!WriteCasper,
               Bridge!Leave, BP!Leave, Bridge!Process, BP!Process, Bridge!Run, BP!Run,
               Bridge!Template, BP!Template, Bridge!Next, BP!Next

LEMMA BridgeInit == Init => BP!IInv
<1>1. Bridge!Init => BP!Init
  BY DEF Bridge!Init, BP!Init, Bridge!None, BP!None
<1>2. BP!Init => BP!IInv
  BY BP!InitIInv, DialogAssumption DEF DialogAssumption, BP!BridgeAssumption
<1> QED
  BY <1>1, <1>2, InitMeetsBridge

LEMMA BridgeStep == DInv /\ BP!IInv /\ [Next]_vars => BP!IInv'
<1>1. BP!IInv /\ [BP!Next]_BP!vars => BP!IInv'
  BY BP!StepIInv, DialogAssumption DEF DialogAssumption, BP!BridgeAssumption
<1> QED
  BY <1>1, SameNext, StepMeetsBridge

(* The scripts and templates as they are keep what CasperBridge promises    *)
(* of any: the line a script reads as an answer is the answer to the       *)
(* question it has written last, or finish; a template reads for ever only *)
(* after a timeout, after it has given the answer finish itself, or when   *)
(* the process did not start (casperjs.go:140-154).                        *)
THEOREM DialogKeepsBridge ==
    Spec => [](DInv /\ BP!IInv /\ BP!RightAnswer /\ BP!BlocksOnlyAfterGivingUp)
<1>1. BP!IInv => BP!RightAnswer
  BY DEF BP!IInv
<1>2. BP!IInv => BP!BlocksOnlyAfterGivingUp
  BY DEF BP!IInv, BP!TypeOK, BP!LastLineComes, BP!BlocksOnlyAfterGivingUp,
         BP!NoLineLeft, BP!Live
<1> QED
  BY <1>1, <1>2, BridgeInit, BridgeStep, DialogInvariant, PTL DEF Spec

NoAskIn(s) == \A i \in DOMAIN s : s[i].name \notin Ask

LEMMA NoQuestionMeans ==
    ASSUME NEW s \in Seq(Line)
    PROVE  BP!NoQuestion(AbsLines(s)) <=> NoAskIn(s)
<1>1. DOMAIN AbsLines(s) = DOMAIN s
  BY DEF AbsLines
<1>2. ASSUME NEW i \in DOMAIN s
      PROVE  AbsLines(s)[i].kind \in BP!Question <=> s[i].name \in Ask
  <2>1. s[i] \in Line
    BY <1>2, LenProperties, ElementOfSeq
  <2>2. s[i].name \in Name
    BY <2>1 DEF Line
  <2>3. /\ KindOf(s[i].name) \in {"tell", "need", "last", "strange"}
        /\ KindOf(s[i].name) = "need" <=> s[i].name \in Ask
    BY <2>2, KindKnown
  <2>4. AbsLines(s)[i].kind = KindOf(s[i].name)
    BY <1>2 DEF AbsLines, AbsLine
  <2> QED
    BY <2>3, <2>4 DEF BP!Question
<1> QED
  BY <1>1, <1>2 DEF BP!NoQuestion, NoAskIn

(* A process that has a line to read has asked and not read since, and a   *)
(* question that is out, or with the template, is the only one.            *)
Live == bridge \in {"start", "read", "send", "wait"}

LEMMA OneAsked ==
    ASSUME Typed, BP!IInv
    PROVE  /\ stdin # None => open \/ proc = "gone"
           /\ Live /\ (session = "answering" \/ ~NoAskIn(output)) =>
                  /\ bridge = "wait" /\ stdin = None /\ input = <<>> /\ NoAskIn(pipe)
                  /\ open \/ proc = "gone"
           /\ Live /\ session = "answering" => NoAskIn(output)
           /\ Live /\ output # <<>> /\ Head(output).name \in Ask => Tail(output) = <<>>
<1>1. /\ BP!NoQuestion(AbsLines(pipe)) <=> NoAskIn(pipe)
      /\ BP!NoQuestion(AbsLines(output)) <=> NoAskIn(output)
  BY NoQuestionMeans DEF Typed
<1>2. AbsProc \in {"asking", "gone"} => open \/ proc = "gone"
  BY DEF AbsProc
<1>3. stdin.of = BP!None <=> stdin = None
  <2>1. BP!None = MaxLines + 1 /\ MaxLines \in Nat
    BY DialogAssumption DEF DialogAssumption, BP!None
  <2>2. stdin \in Reply => stdin.of \in 0..MaxLines
    BY DEF Reply
  <2>3. Finish.of = MaxLines + 2 /\ None.of = MaxLines + 1
    BY DEF Finish, None
  <2>4. stdin \in Reply \/ stdin = Finish \/ stdin = None
    BY DEF Typed
  <2> QED
    BY <2>1, <2>2, <2>3, <2>4
<1>4. AbsReplies(input) = <<>> => input = <<>>
  BY AbsRepliesFacts DEF Typed
<1>5. stdin # None => open \/ proc = "gone"
  BY <1>2, <1>3 DEF BP!IInv, BP!RightAnswer
<1>6. Live => BP!InTheWait /\ BP!BeforeTheWait /\ (BP!Waiting <=> bridge = "wait")
  BY DEF BP!IInv, BP!OneQuestion, Live, BP!Live, BP!Waiting
<1>7. ASSUME Live, session = "answering" \/ ~NoAskIn(output)
      PROVE  /\ bridge = "wait" /\ stdin = None /\ input = <<>> /\ NoAskIn(pipe)
             /\ open \/ proc = "gone"
             /\ session = "answering" => NoAskIn(output)
  BY <1>1, <1>2, <1>3, <1>4, <1>6, <1>7 DEF BP!InTheWait, BP!BeforeTheWait
<1>8. ASSUME Live, output # <<>>, Head(output).name \in Ask
      PROVE  Tail(output) = <<>>
  <2>1. /\ Len(output) \in Nat \ {0} /\ DOMAIN output = 1..Len(output)
        /\ Head(output) = output[1] /\ Len(Tail(output)) = Len(output) - 1
        /\ Tail(output) \in Seq(Line) /\ output[1] \in Line
    BY <1>8, EmptySeq, LenProperties, HeadTailProperties, ElementOfSeq DEF Typed
  <2>2. ~NoAskIn(output)
    BY <1>8, <2>1 DEF NoAskIn
  <2>3. BP!OnlyLastAsks(AbsLines(output))
    BY <1>6, <1>7, <1>8, <2>2 DEF BP!InTheWait
  <2>4. /\ 1 \in DOMAIN AbsLines(output) /\ Len(AbsLines(output)) = Len(output)
        /\ AbsLines(output)[1].kind = KindOf(output[1].name)
    BY <2>1, AbsLinesFacts DEF AbsLines, AbsLine, Typed
  <2>5. KindOf(output[1].name) \in BP!Question
    BY <1>8, <2>1 DEF KindOf, BP!Question
  <2>6. Len(output) = 1
    BY <2>3, <2>4, <2>5 DEF BP!OnlyLastAsks
  <2>7. Tail(output) \in Seq(Line) /\ Len(Tail(output)) = 0
    BY <2>1, <2>6
  <2> QED
    BY <2>7, EmptySeq
<1> QED
  BY <1>5, <1>7, <1>8

(***************************************************************************)
(* Sequences of what belongs to a set                                      *)
(***************************************************************************)

LEMMA SeqPut ==
    ASSUME NEW S, NEW s \in Seq(S), NEW x \in S
    PROVE  Append(s, x) \in Seq(S)
BY AppendProperties

LEMMA SeqTake ==
    ASSUME NEW S, NEW s \in Seq(S), s # <<>>
    PROVE  Head(s) \in S /\ Tail(s) \in Seq(S)
BY HeadTailProperties

LEMMA SeqAll ==
    ASSUME NEW S, NEW R, NEW s \in Seq(R), \A i \in DOMAIN s : s[i] \in S
    PROVE  s \in Seq(S)
BY LenProperties

LEMMA SeqAt ==
    ASSUME NEW S, NEW s \in Seq(S), NEW i \in DOMAIN s
    PROVE  s[i] \in S
BY LenProperties, ElementOfSeq

(***************************************************************************)
(* What the scripts of jd say                                              *)
(***************************************************************************)

Jds == {"jd_buyer", "jd_shop"}
JdAsk(s) == {"need_path", "need_username", "need_randcode", "wrong_randcode",
             "need_password2", "wrong_password2"}
            \union (IF s = "jd_shop" THEN {"need_password3", "wrong_password3"} ELSE {})
JdAnswer(s) == {"path", "username", "randcode", "password2"}
               \union (IF s = "jd_shop" THEN {"password3"} ELSE {})
JdName(s) == (Name \ Ask) \union JdAsk(s)
JdLine(s) == {l \in Line : l.name \in JdName(s)}
JdReply(s) == {r \in Reply : r.name \in JdAnswer(s)}

(* Nobody writes to a script of jd what it has no branch for.              *)
JdInv ==
    script \in Jds =>
        /\ todo \in Seq(JdName(script))
        /\ pipe \in Seq(JdLine(script)) /\ line \in JdLine(script)
        /\ output \in Seq(JdLine(script))
        /\ session = "answering" => question \in JdLine(script)
        /\ input \in Seq(JdReply(script))
        /\ stdin \in JdReply(script) \union {Finish, None}

(* A say of one line, or of none.                                          *)
LEMMA SayOne ==
    /\ \A S : <<>> \in Seq(S)
    /\ \A S, n : n \in S => <<n>> \in Seq(S)
    /\ DOMAIN <<>> = {}
    /\ \A n : DOMAIN <<n>> = {1} /\ <<n>>[1] = n
OBVIOUS

(* What a script of jd says to an answer it knows.                         *)
LEMMA JdSays ==
    ASSUME NEW s \in Jds, NEW r \in Nat, NEW a \in JdAnswer(s) \union {"finish"},
           NEW o \in Round(s, r, a)
    PROVE  \/ o.end = TRUE /\ o.say \in {<<>>, <<"fail">>, <<"cookie">>}
           \/ o.end = FALSE /\ \E n \in JdAsk(s) : o.say = <<n>>
<1>1. Round(s, r, a) = JdRound(s, a)
  BY DEF Round, Jds
<1>2. o \in {End(<<>>), End(<<"fail">>), End(<<"cookie">>)} \union {On(<<n>>) : n \in JdAsk(s)}
  BY <1>1 DEF JdRound, HandleText, JdAsk, JdAnswer, Jds
<1>3. CASE o \in {End(<<>>), End(<<"fail">>), End(<<"cookie">>)}
  BY <1>3 DEF End
<1>4. CASE \E n \in JdAsk(s) : o = On(<<n>>)
  BY <1>4 DEF On
<1> QED
  BY <1>2, <1>3, <1>4

(* What the template of jd answers.                                        *)
LEMMA JdReplies ==
    ASSUME NEW s \in Jds, NEW name \in JdAsk(s), NEW a \in Answers(s, name)
    PROVE  a \in JdAnswer(s)
BY DEF Answers, JdAsk, JdAnswer, Jds

LEMMA JdInit == Init => JdInv
<1> SUFFICES ASSUME Init, script \in Jds PROVE JdInv
  BY DEF JdInv
<1>1. todo = <<"need_path">>
  BY DEF Init, Opening, Jds, On
<1>2. "need_path" \in JdName(script)
  BY DEF JdName, JdAsk
<1>3. todo \in Seq(JdName(script))
  BY <1>1, <1>2, SayOne
<1>4. NoLine \in JdLine(script)
  BY InitTyped DEF Init, DInv, Typed, JdLine, NoLine, JdName, Name, Told, Ask
<1> QED
  BY <1>3, <1>4, SayOne DEF Init, JdInv

LEMMA ScriptStays == [Next]_vars => script' = script
<1> SUFFICES ASSUME [Next]_vars PROVE script' = script
  OBVIOUS
<1>1. GoesOn \/ Die => script' = script
  BY DEF GoesOn, Write, Block, ReadLine, Exit, Die
<1>2. Run => script' = script
  BY DEF Run, Start, ReadPipe, ReadError, Send, ToOutput, TakeAnswer, Timeout, Reap, Kill
<1>3. Template => script' = script
  BY DEF Template, ReadCasper, ReadChan, WriteCasper, Leave
<1> QED
  BY <1>1, <1>2, <1>3 DEF Next, vars

(* What Run says itself: a fail for a line it does not know, or for the    *)
(* end of the pipe.                                                        *)
Fail == [name |-> "fail", of |-> 0, after |-> round]
Renamed == [line EXCEPT !.name = "fail"]

LEMMA FailTyped ==
    ASSUME Typed
    PROVE  /\ Fail \in Line /\ Fail.name = "fail" /\ Fail.after = round
           /\ Renamed \in Line /\ Renamed.name = "fail" /\ Renamed.after = line.after
<1>1. MaxLines \in Nat /\ "fail" \in Name /\ line \in Line /\ round \in Nat
  BY DialogAssumption DEF DialogAssumption, Typed, Name, Final
<1> HIDE DEF Name
<1> QED
  BY <1>1 DEF Fail, Renamed, Line

LEMMA JdStep == DInv /\ JdInv /\ [Next]_vars => JdInv'
<1> SUFFICES ASSUME Typed, Open, JdInv, [Next]_vars, script \in Jds PROVE JdInv'
  BY ScriptStays DEF DInv, JdInv
<1> USE DEF procVars, bridgeVars, sessionVars
<1>0. \A n \in Name \ Ask : n \in JdName(script)
  BY DEF JdName
<1>a. "fail" \in Name \ Ask /\ "noise" \in Name \ Ask
  BY DEF Name, Final, Ask
<1>1. CASE Write
  <2> DEFINE l == [name |-> Head(todo),
                   of |-> IF Head(todo) \in Ask THEN asked + 1 ELSE 0, after |-> round]
  <2>1. Head(todo) \in JdName(script) /\ Tail(todo) \in Seq(JdName(script))
    BY <1>1, SeqTake DEF JdInv, Write
  <2>2. Head(todo) \in Name
    BY <1>1, SeqTake DEF Typed, Write
  <2>3. l \in JdLine(script)
    BY <1>1, <2>1, <2>2, DialogAssumption DEF Write, JdLine, Line, Typed, DialogAssumption
  <2>4. pipe' = Append(pipe, l)
    BY <1>1 DEF Write
  <2> HIDE DEF l
  <2>5. pipe' \in Seq(JdLine(script))
    BY <2>3, <2>4, SeqPut DEF JdInv
  <2> QED
    BY <1>1, <2>1, <2>5 DEF JdInv, Write
<1>2. CASE ReadLine
  <2>1. PICK o \in Round(script, round + 1, stdin.name) : todo' = o.say
    BY <1>2 DEF ReadLine
  <2>2. stdin.name \in JdAnswer(script) \union {"finish"} /\ round + 1 \in Nat
    BY <1>2 DEF ReadLine, JdInv, JdReply, Finish, Typed
  <2>3. o.say \in {<<>>, <<"fail">>, <<"cookie">>} \/ \E n \in JdAsk(script) : o.say = <<n>>
    BY <2>2, JdSays
  <2>4. /\ "fail" \in JdName(script) /\ "cookie" \in JdName(script)
        /\ \A n \in JdAsk(script) : n \in JdName(script)
    BY DEF JdName, Name, Final, Ask
  <2>5. /\ <<>> \in Seq(JdName(script))
        /\ \A n \in JdName(script) : <<n>> \in Seq(JdName(script))
    BY SayOne
  <2>6. todo' \in Seq(JdName(script))
    BY <2>1, <2>3, <2>4, <2>5
  <2> QED
    BY <1>2, <2>6 DEF JdInv, ReadLine
<1>3. CASE Block \/ Exit
  BY <1>3 DEF Block, Exit, JdInv
<1>4. CASE Die
  <2>1. todo' \in {<<>>, <<"noise">>}
    BY <1>4 DEF Die, Jds
  <2>2. <<>> \in Seq(JdName(script)) /\ <<"noise">> \in Seq(JdName(script))
    BY <1>0, <1>a, SayOne
  <2>3. todo' \in Seq(JdName(script))
    BY <2>1, <2>2
  <2> QED
    BY <1>4, <2>3 DEF Die, JdInv
<1>5. CASE Start \/ Reap \/ Kill \/ Timeout
  BY <1>5 DEF Start, Reap, Kill, Timeout, JdInv
<1>6. CASE ReadPipe
  <2>1. line' \in JdLine(script) /\ pipe' \in Seq(JdLine(script))
    BY <1>6, SeqTake DEF ReadPipe, JdInv
  <2> QED
    BY <1>6, <2>1 DEF ReadPipe, JdInv
<1>7. CASE ReadError \/ Send
  <2>1. Fail \in JdLine(script) /\ Renamed \in JdLine(script)
    BY <1>0, <1>a, FailTyped DEF JdLine
  <2>2. \E l \in {line, Fail, Renamed} : output' = Append(output, l)
    BY <1>7 DEF ReadError, Send, ToOutput, Fail, Renamed
  <2>3. output' \in Seq(JdLine(script))
    BY <2>1, <2>2, SeqPut DEF JdInv
  <2>4. UNCHANGED <<script, procVars, pipe, stdin, line, input, sessionVars>>
    BY <1>7 DEF ReadError, Send, ToOutput
  <2> QED
    BY <2>3, <2>4 DEF JdInv
<1>8. CASE TakeAnswer
  <2>1. stdin' \in JdReply(script) /\ input' \in Seq(JdReply(script))
    BY <1>8, SeqTake DEF TakeAnswer, JdInv
  <2> QED
    BY <1>8, <2>1 DEF TakeAnswer, JdInv
<1>9. CASE ReadChan
  <2>1. Head(output) \in JdLine(script) /\ output' \in Seq(JdLine(script))
    BY <1>9, SeqTake DEF ReadChan, JdInv
  <2>2. session' = "answering" => question' = Head(output)
    BY <1>9 DEF ReadChan
  <2>3. UNCHANGED <<script, procVars, pipe, stdin, line, input>>
    BY <1>9 DEF ReadChan
  <2> QED
    BY <2>1, <2>2, <2>3 DEF JdInv
<1>10. CASE WriteCasper
  <2>1. PICK a \in Answers(script, question.name) : input' = Append(input, ReplyOf(a))
    BY <1>10 DEF WriteCasper, ReplyOf
  <2>2. question.name \in JdAsk(script)
    BY <1>10 DEF WriteCasper, Open, JdInv, JdLine, JdName
  <2>a. a \in JdAnswer(script) /\ a # "finish"
    BY <2>2, JdReplies DEF JdAnswer
  <2>3. ReplyOf(a) \in JdReply(script)
    BY <1>10, <2>1, <2>a, ReplyTyped DEF WriteCasper, JdReply, ReplyOf
  <2>4. input' \in Seq(JdReply(script))
    BY <2>1, <2>3, SeqPut DEF JdInv
  <2> QED
    BY <1>10, <2>4 DEF WriteCasper, JdInv
<1>11. CASE ReadCasper \/ Leave
  BY <1>11 DEF ReadCasper, Leave, JdInv
<1>12. CASE UNCHANGED vars
  BY <1>12 DEF vars, JdInv
<1> QED
  BY <1>1, <1>2, <1>3, <1>4, <1>5, <1>6, <1>7, <1>8, <1>9, <1>10, <1>11, <1>12
  DEF Next, GoesOn, Run, Template

(***************************************************************************)
(* What tianyancha_long says before it has read its path                   *)
(***************************************************************************)

(* It asks its caller for a key only, and that is its second question.     *)
Free == {"need_url", "need_key", "need_code", "need_token"}
FixedLine == {l \in Line : l.name \notin Free}
LongInv ==
    script = "tianyancha_long" /\ round = 0 =>
        /\ todo \in Seq(Name \ Free)
        /\ pipe \in Seq(FixedLine) /\ line \in FixedLine
        /\ output \in Seq(FixedLine)
        /\ session = "answering" => question \in FixedLine
        /\ input \in Seq(Reply)
        /\ gaveUp # "caller"

LEMMA FreeAnswers ==
    ASSUME NEW s \in Scripts, NEW name \in Ask \ Free, NEW a \in Answers(s, name)
    PROVE  a # "finish"
BY DEF Answers, Ask, Free

LEMMA LongInit == Init => LongInv
<1> SUFFICES ASSUME Init, script = "tianyancha_long" PROVE LongInv
  BY DEF LongInv
<1>1. "need_path" \in Name \ Free /\ "finish" \in Name \ Free
  BY DEF Name, Ask, Final, Free
<1>2. todo \in {<<"need_path">>, <<"finish", "need_path">>, <<"finish", "finish", "need_path">>}
  BY DEF Init, Opening, On
<1>3. todo \in Seq(Name \ Free)
  <2> DEFINE N == Name \ Free
  <2> HIDE DEF N
  <2>1. \A m, n \in N : <<n>> \in Seq(N) /\ <<m, n>> \in Seq(N) /\ <<m, m, n>> \in Seq(N)
    OBVIOUS
  <2> QED
    BY <1>1, <1>2, <2>1 DEF N
<1>4. NoLine \in FixedLine
  BY InitTyped DEF Init, DInv, Typed, FixedLine, NoLine, Free
<1> QED
  BY <1>3, <1>4, SayOne DEF Init, LongInv

LEMMA LongStep == DInv /\ LongInv /\ [Next]_vars => LongInv'
<1> SUFFICES ASSUME Typed, Open, LongInv, [Next]_vars,
                    script = "tianyancha_long", round' = 0
             PROVE  LongInv'
  BY ScriptStays DEF DInv, LongInv
<1> USE DEF procVars, bridgeVars, sessionVars
<1>a. "fail" \in Name \ Free /\ "noise" \in Name \ Free
  BY DEF Name, Final, Free
<1>1. CASE Write
  <2> DEFINE l == [name |-> Head(todo),
                   of |-> IF Head(todo) \in Ask THEN asked + 1 ELSE 0, after |-> round]
  <2>1. Head(todo) \in Name \ Free /\ Tail(todo) \in Seq(Name \ Free)
    BY <1>1, SeqTake DEF LongInv, Write
  <2>2. l \in FixedLine
    BY <1>1, <2>1, DialogAssumption DEF Write, FixedLine, Line, Typed, DialogAssumption
  <2>3. pipe' = Append(pipe, l)
    BY <1>1 DEF Write
  <2> HIDE DEF l
  <2>4. pipe' \in Seq(FixedLine)
    BY <1>1, <2>2, <2>3, SeqPut DEF LongInv, Write
  <2> QED
    BY <1>1, <2>1, <2>4 DEF LongInv, Write
<1>2. CASE ReadLine
  BY <1>2 DEF ReadLine, Typed
<1>3. CASE Block \/ Exit
  BY <1>3 DEF Block, Exit, LongInv
<1>4. CASE Die
  <2>1. todo' \in {<<>>, <<"noise">>}
    BY <1>4 DEF Die
  <2>2. <<>> \in Seq(Name \ Free) /\ <<"noise">> \in Seq(Name \ Free)
    BY <1>a, SayOne
  <2> QED
    BY <1>4, <2>1, <2>2 DEF Die, LongInv
<1>5. CASE Start \/ Reap \/ Kill \/ Timeout
  BY <1>5 DEF Start, Reap, Kill, Timeout, LongInv
<1>6. CASE ReadPipe
  <2>1. line' \in FixedLine /\ pipe' \in Seq(FixedLine)
    BY <1>6, SeqTake DEF ReadPipe, LongInv
  <2> QED
    BY <1>6, <2>1 DEF ReadPipe, LongInv
<1>7. CASE ReadError \/ Send
  <2>1. Fail \in FixedLine /\ Renamed \in FixedLine
    BY <1>a, FailTyped DEF FixedLine
  <2>2. \E l \in {line, Fail, Renamed} : output' = Append(output, l)
    BY <1>7 DEF ReadError, Send, ToOutput, Fail, Renamed
  <2>3. UNCHANGED <<script, procVars, pipe, stdin, line, input, sessionVars, gaveUp>>
    BY <1>7 DEF ReadError, Send, ToOutput
  <2>4. output' \in Seq(FixedLine)
    BY <2>1, <2>2, <2>3, SeqPut DEF LongInv
  <2> QED
    BY <2>3, <2>4 DEF LongInv
<1>8. CASE TakeAnswer
  <2>1. round = 0
    BY <1>8 DEF TakeAnswer
  <2>2. Head(input) \in Reply /\ input' \in Seq(Reply)
    BY <1>8, <2>1, SeqTake DEF TakeAnswer, LongInv
  <2>3. Head(input) # Finish
    BY <2>2, DialogAssumption DEF Reply, Finish, DialogAssumption
  <2> QED
    BY <1>8, <2>2, <2>3 DEF TakeAnswer, LongInv
<1>9. CASE ReadChan
  <2>1. UNCHANGED <<script, procVars, pipe, stdin, bridgeVars, input>>
    BY <1>9 DEF ReadChan
  <2>2. Head(output) \in FixedLine /\ output' \in Seq(FixedLine)
    BY <1>9, <2>1, SeqTake DEF ReadChan, LongInv
  <2>3. session' = "answering" => question' = Head(output)
    BY <1>9 DEF ReadChan
  <2> QED
    BY <2>1, <2>2, <2>3 DEF LongInv
<1>10. CASE WriteCasper
  <2>1. PICK a \in Answers(script, question.name) : input' = Append(input, ReplyOf(a))
    BY <1>10 DEF WriteCasper, ReplyOf
  <2>2. question.name \in Ask \ Free
    BY <1>10 DEF WriteCasper, Open, LongInv, FixedLine
  <2>3. a # "finish"
    BY <2>1, <2>2, FreeAnswers DEF Scripts
  <2>4. ReplyOf(a) \in Reply
    BY <1>10, <2>1, <2>3, ReplyTyped DEF WriteCasper, ReplyOf
  <2>5. input' \in Seq(Reply)
    BY <1>10, <2>1, <2>4, SeqPut DEF LongInv, WriteCasper
  <2> QED
    BY <1>10, <2>5 DEF WriteCasper, LongInv
<1>11. CASE ReadCasper \/ Leave
  BY <1>11 DEF ReadCasper, Leave, LongInv
<1>12. CASE UNCHANGED vars
  BY <1>12 DEF vars, LongInv
<1> QED
  BY <1>1, <1>2, <1>3, <1>4, <1>5, <1>6, <1>7, <1>8, <1>9, <1>10, <1>11, <1>12
  DEF Next, GoesOn, Run, Template

(***************************************************************************)
(* A process hangs only in the known ways                                  *)
(***************************************************************************)

FinishEnds == {"jd_buyer", "jd_shop", "gjp_login", "lagou", "taobao_ua",
               "tianyancha_longtime"}
AsksOnAfterLast == {"tianyancha_long", "gjp_login"}

(* The lines that make Run wait for the end of the process.                *)
LastName == Final \union {"noise"}
Going == {l \in Line : l.name \notin LastName}
Over == end # "no" \/ proc = "gone"

(* With finish on its stdin a script ends that takes it for what it is,    *)
(* and tianyancha_long when its caller said so; and but for two scripts,   *)
(* who has said his last line reads no more.                               *)
Finished == gaveUp \in {"timeout", "caller"}
EndsThen == \/ script \in FinishEnds
            \/ gaveUp = "caller" /\ script = "tianyancha_long"
HangInv ==
    /\ gaveUp \in {"no", "start", "timeout", "caller"}
    /\ proc = "reading" => end = "no"
    /\ Finished => bridge \in {"reap", "ended"}
    /\ gaveUp = "start" => bridge = "ended"
    /\ Finished /\ EndsThen => stdin = Finish \/ Over
    /\ script \notin AsksOnAfterLast /\ ~Over =>
          /\ todo \in Seq(Name \ LastName) /\ pipe \in Seq(Going)
          /\ bridge = "send" => line \in Going
          /\ bridge = "reap" => gaveUp # "no"

LEMMA FinishIsTheEnd ==
    ASSUME NEW s \in FinishEnds, NEW r \in Nat, NEW o \in Round(s, r, "finish")
    PROVE  o.end = TRUE
<1>1. CASE s \in {"jd_buyer", "jd_shop"}
  BY <1>1 DEF Round, JdRound, End
<1>2. CASE s = "gjp_login"
  BY <1>2 DEF Round, GjpRound, End
<1>3. CASE s \in {"lagou", "taobao_ua", "tianyancha_longtime"}
  BY <1>3 DEF Round, LongtimeRound, End
<1> QED
  BY <1>1, <1>2, <1>3 DEF FinishEnds

LEMMA KeyIsTheEnd ==
    ASSUME NEW r \in Nat, r # 1, NEW a, NEW o \in Round("tianyancha_long", r, a)
    PROVE  o.end = TRUE
BY DEF Round, LongRound, Loop, End

LEMMA AfterLastNothing ==
    ASSUME NEW s \in Scripts \ AsksOnAfterLast, NEW r \in Nat, NEW a,
           s \in Jds => a \in JdAnswer(s) \union {"finish"},
           NEW o \in Round(s, r, a), o.end = FALSE
    PROVE  o.say \in Seq(Name \ LastName)
<1>0. /\ JdAsk(s) \subseteq Name \ LastName
      /\ {"need_time", "need_path", "need_randcode", "html", "html4"} \subseteq Name \ LastName
  BY DEF JdAsk, Name, Ask, Told, Final, LastName
<1>00. \A n \in Name \ LastName : <<n>> \in Seq(Name \ LastName)
  BY SayOne
<1>1. CASE s \in Jds
  BY <1>0, <1>00, <1>1, JdSays
<1>2. CASE s \in {"lagou", "taobao_ua", "tianyancha_longtime"}
  BY <1>2 DEF Round, LongtimeRound, End
<1>3. CASE s = "taobaoSearch"
  <2>1. o.say = <<"need_path">>
    BY <1>3 DEF Round, SearchRound, End, On
  <2> QED
    BY <1>0, <1>00, <2>1
<1>4. CASE s = "chinatax"
  <2>1. o.say \in {<<"need_time">>, <<"html", "html", "html", "html4", "need_randcode">>}
    BY <1>4 DEF Round, ChinataxRound, End, On
  <2>2. <<"html", "html", "html", "html4", "need_randcode">> \in Seq(Name \ LastName)
    BY <1>0
  <2> QED
    BY <1>0, <1>00, <2>1, <2>2
<1> QED
  BY <1>1, <1>2, <1>3, <1>4 DEF Scripts, AsksOnAfterLast, Jds

LEMMA HangInit == Init => HangInv
<1> SUFFICES ASSUME Init PROVE HangInv
  OBVIOUS
<1>1. ASSUME script \notin AsksOnAfterLast
      PROVE  todo \in Seq(Name \ LastName)
  <2>1. script \in Scripts
    BY DialogAssumption DEF DialogAssumption, Init
  <2>2. \E n \in {"need_path", "need_username", "need_token", "need_url", "need_code"} :
            todo = <<n>>
    BY <1>1, <2>1 DEF Init, Opening, On, AsksOnAfterLast, Scripts
  <2>3. {"need_path", "need_username", "need_token", "need_url", "need_code"}
            \subseteq Name \ LastName
    BY DEF Name, Ask, LastName, Final
  <2> QED
    BY <2>2, <2>3, SayOne
<1>2. pipe \in Seq(Going)
  BY SayOne DEF Init
<1> QED
  BY <1>1, <1>2 DEF Init, HangInv, Finished

LEMMA HangStep == DInv /\ JdInv /\ LongInv /\ HangInv /\ [Next]_vars => HangInv'
<1> SUFFICES ASSUME Typed, Open, JdInv, LongInv, HangInv, [Next]_vars PROVE HangInv'
  BY DEF DInv
<1> USE DEF procVars, bridgeVars, sessionVars, Finished, EndsThen
<1>1. CASE Write
  <2> DEFINE l == [name |-> Head(todo),
                   of |-> IF Head(todo) \in Ask THEN asked + 1 ELSE 0, after |-> round]
  <2>1. pipe' = Append(pipe, l) /\ todo' = Tail(todo) /\ todo # <<>>
    BY <1>1 DEF Write
  <2>2. l \in Line /\ l.name = Head(todo)
    <3>1. Head(todo) \in Name
      BY <2>1, SeqTake DEF Typed
    <3> QED
      BY <1>1, <3>1, DialogAssumption DEF Write, Line, Typed, DialogAssumption
  <2> HIDE DEF l
  <2>3. ASSUME todo \in Seq(Name \ LastName), pipe \in Seq(Going)
        PROVE  todo' \in Seq(Name \ LastName) /\ pipe' \in Seq(Going)
    <3>1. Head(todo) \in Name \ LastName /\ Tail(todo) \in Seq(Name \ LastName)
      BY <2>1, <2>3, SeqTake
    <3>2. l \in Going
      BY <2>2, <3>1 DEF Going
    <3> QED
      BY <2>1, <2>3, <3>1, <3>2, SeqPut
  <2> QED
    BY <1>1, <2>3 DEF Write, HangInv, Over
<1>2. CASE ReadLine
  <2>1. PICK o \in Round(script, round + 1, stdin.name) :
            todo' = o.say /\ end' = IF o.end THEN "yes" ELSE "no"
    BY <1>2 DEF ReadLine
  <2>2. round + 1 \in Nat /\ ~Over /\ script \in Scripts
    BY <1>2, DialogAssumption DEF DialogAssumption, ReadLine, Typed, HangInv, Over
  <2>3. ASSUME Finished, EndsThen
        PROVE  Over'
    <3>1. stdin.name = "finish"
      BY <2>2, <2>3 DEF HangInv, Finish
    <3>2. CASE script \in FinishEnds
      BY <2>1, <2>2, <3>1, <3>2, FinishIsTheEnd DEF Over
    <3>3. CASE gaveUp = "caller" /\ script = "tianyancha_long"
      <4>1. round + 1 # 1
        BY <2>2, <3>3 DEF LongInv, Typed
      <4> QED
        BY <2>1, <2>2, <3>3, <4>1, KeyIsTheEnd DEF Over
    <3> QED
      BY <2>3, <3>2, <3>3
  <2>4. ASSUME script \notin AsksOnAfterLast, ~Over'
        PROVE  todo' \in Seq(Name \ LastName)
    <3>1. script \in Jds => stdin.name \in JdAnswer(script) \union {"finish"}
      BY <1>2 DEF ReadLine, JdInv, JdReply, Finish
    <3>2. o.end = FALSE
      <4>1. \A r \in 1..Rounds(script), b \in Answer \union {"finish"} :
              \A q \in Round(script, r, b) : q \in Outcome
        BY DialogAssumption DEF DialogAssumption, Typed
      <4>2. round + 1 \in 1..Rounds(script) /\ stdin.name \in Answer \union {"finish"}
        BY <1>2, RoundsCount, ReplyOfAnswer, DialogAssumption
        DEF ReadLine, Open, Typed, DialogAssumption
      <4>3. o \in Outcome
        BY <4>1, <4>2
      <4> QED
        BY <2>1, <2>4, <4>3 DEF Over, Outcome
    <3> QED
      BY <2>1, <2>2, <2>4, <3>1, <3>2, AfterLastNothing
  <2> QED
    BY <1>2, <2>2, <2>3, <2>4 DEF ReadLine, HangInv
<1>3. CASE Block \/ Exit
  BY <1>3 DEF Block, Exit, HangInv, Over
<1>4. CASE Die
  BY <1>4 DEF Die, HangInv, Over
<1>5. CASE Start
  BY <1>5 DEF Start, HangInv, Over, Open
<1>6. CASE ReadPipe
  <2>1. pipe \in Seq(Going) => line' \in Going /\ pipe' \in Seq(Going)
    BY <1>6, SeqTake DEF ReadPipe
  <2> QED
    BY <1>6, <2>1 DEF ReadPipe, HangInv, Over
<1>7. CASE ReadError
  BY <1>7 DEF ReadError, ToOutput, HangInv, Over
<1>8. CASE Send
  <2>1. line.name \in Name /\ line \in Line
    BY DEF Typed, Line
  <2>2. /\ bridge = "send" /\ bridge' \in {"read", "wait", "reap"}
        /\ bridge' = "reap" => KindOf(line.name) \notin {"tell", "need"}
        /\ UNCHANGED <<script, procVars, pipe, stdin, line, gaveUp>>
    BY <1>8 DEF Send, ToOutput
  <2>3. bridge' = "reap" => line \notin Going
    BY <2>1, <2>2, KindKnown DEF Going, LastName
  <2> QED
    BY <2>2, <2>3 DEF HangInv, Over
<1>9. CASE TakeAnswer
  BY <1>9 DEF TakeAnswer, HangInv, Over
<1>10. CASE Timeout
  BY <1>10 DEF Timeout, HangInv, Over
<1>11. CASE Reap \/ Kill
  BY <1>11 DEF Reap, Kill, HangInv, Over
<1>12. CASE Template
  BY <1>12 DEF Template, ReadCasper, ReadChan, WriteCasper, Leave, HangInv, Over
<1>13. CASE UNCHANGED vars
  BY <1>13 DEF vars, HangInv, Over
<1> QED
  BY <1>1, <1>2, <1>3, <1>4, <1>5, <1>6, <1>7, <1>8, <1>9, <1>10, <1>11, <1>12, <1>13
  DEF Next, GoesOn, Run

(* Run waits in vain for the end of a process only after a timeout, with   *)
(* the three scripts that take finish for an answer, after a finish of the *)
(* caller, with two of them, or after a last line of the two scripts that  *)
(* go on after it (casperjs.go:140-154, 165-179).                          *)
THEOREM HangsAreKnownHolds == Spec => []HangsAreKnown
<1>1. DInv /\ HangInv => HangsAreKnown
  <2> SUFFICES ASSUME Typed, HangInv, Hangs
               PROVE  \/ gaveUp = "timeout"
                             /\ script \in {"taobaoSearch", "tianyancha_long", "chinatax"}
                      \/ gaveUp = "caller" /\ script \in {"taobaoSearch", "chinatax"}
                      \/ gaveUp = "no" /\ script \in {"tianyancha_long", "gjp_login"}
    BY DEF DInv, HangsAreKnown
  <2>1. ~Over /\ stdin # Finish /\ bridge = "reap"
    BY DialogAssumption DEF DialogAssumption, Hangs, HangInv, Over, None, Finish
  <2>2. script \in Scripts
    BY DialogAssumption DEF DialogAssumption, Typed
  <2>3. CASE Finished
    BY <2>1, <2>2, <2>3 DEF HangInv, Finished, EndsThen, FinishEnds, Scripts
  <2>4. CASE gaveUp = "no"
    BY <2>1, <2>4 DEF HangInv, AsksOnAfterLast
  <2> QED
    BY <2>1, <2>3, <2>4 DEF HangInv, Finished
<1> QED
  BY <1>1, JdInit, JdStep, LongInit, LongStep, HangInit, HangStep, DialogInvariant, PTL
  DEF Spec

(***************************************************************************)
(* The lines between a script and its template, in their order             *)
(***************************************************************************)

(* Written when t answers had been read, or after which nothing can come   *)
(* (over); a question is one of the first q and follows as many answers.   *)
Given(l, over) == l.name \in {"fail", "noise"} /\ over
Fresh(t, q, over) ==
    {l \in Line : /\ t <= l.after \/ Given(l, over)
                  /\ l.name \in Ask => l.of = l.after + 1 /\ l.of <= q}
Heard(t, q, over) == {l \in Fresh(t, q, over) : l.name # "noise"}

(* What is written after a question was written after its answer.          *)
Behind(a, b, over) == a.name \in Ask => a.after < b.after \/ Given(b, over)
Ordered(s, over) == \A i, j \in DOMAIN s : i < j => Behind(s[i], s[j], over)
AllBehind(s, b, over) == \A i \in DOMAIN s : Behind(s[i], b, over)
AllAhead(a, s, over) == \A i \in DOMAIN s : Behind(a, s[i], over)
Follows(s, r, over) == \A i \in DOMAIN s : AllAhead(s[i], r, over)

(* out is before the line ln, which Run holds if held, and that before p.  *)
Stream(t, q, over, out, held, ln, p) ==
    /\ out \in Seq(Heard(t, q, over)) /\ p \in Seq(Fresh(t, q, over))
    /\ Ordered(out, over) /\ Ordered(p, over) /\ Follows(out, p, over)
    /\ held => /\ ln \in Fresh(t, q, over)
               /\ AllBehind(out, ln, over) /\ AllAhead(ln, p, over)

LEMMA AtAppend ==
    ASSUME NEW S, NEW s \in Seq(S), NEW x \in S
    PROVE  \A i \in DOMAIN Append(s, x) :
              /\ i \in Nat
              /\ \/ i \in DOMAIN s /\ Append(s, x)[i] = s[i]
                 \/ Append(s, x)[i] = x /\ \A j \in DOMAIN s : j < i
<1>1. /\ Append(s, x) \in Seq(S) /\ Len(Append(s, x)) = Len(s) + 1
      /\ \A i \in 1..Len(s) : Append(s, x)[i] = s[i]
      /\ Append(s, x)[Len(s) + 1] = x
  BY AppendProperties
<1>2. DOMAIN s = 1..Len(s) /\ Len(s) \in Nat
  BY LenProperties
<1>3. DOMAIN Append(s, x) = 1..Len(s) + 1
  BY <1>1, LenProperties
<1> QED
  BY <1>1, <1>2, <1>3

LEMMA AtTail ==
    ASSUME NEW S, NEW s \in Seq(S), s # <<>>
    PROVE  /\ 1 \in DOMAIN s /\ s[1] = Head(s)
           /\ \A i \in DOMAIN Tail(s) :
                 /\ i \in Nat /\ i + 1 \in DOMAIN s /\ 1 < i + 1
                 /\ Tail(s)[i] = s[i + 1]
<1>1. /\ Head(s) = s[1] /\ Tail(s) \in Seq(S) /\ Len(Tail(s)) = Len(s) - 1
      /\ \A i \in 1..Len(Tail(s)) : Tail(s)[i] = s[i + 1]
  BY HeadTailProperties
<1>2. DOMAIN s = 1..Len(s) /\ Len(s) \in Nat /\ Len(s) # 0
  BY LenProperties, EmptySeq
<1>3. DOMAIN Tail(s) = 1..Len(Tail(s))
  BY <1>1, LenProperties
<1> QED
  BY <1>1, <1>2, <1>3

LEMMA OrderedAppend ==
    ASSUME NEW S, NEW s \in Seq(S), NEW x \in S, NEW over,
           Ordered(s, over), AllBehind(s, x, over)
    PROVE  Ordered(Append(s, x), over)
<1>1. \A j \in DOMAIN s : j \in Nat
  BY LenProperties
<1> QED
  BY <1>1, AtAppend DEF Ordered, AllBehind

LEMMA OrderedTail ==
    ASSUME NEW S, NEW s \in Seq(S), s # <<>>, NEW over, Ordered(s, over)
    PROVE  /\ Ordered(Tail(s), over) /\ AllAhead(Head(s), Tail(s), over)
           /\ \A r : Follows(s, r, over) =>
                  Follows(Tail(s), r, over) /\ AllAhead(Head(s), r, over)
           /\ \A x : AllBehind(s, x, over) => AllBehind(Tail(s), x, over)
           /\ \A x : AllAhead(x, s, over) =>
                  AllAhead(x, Tail(s), over) /\ Behind(x, Head(s), over)
BY AtTail DEF Ordered, AllAhead, Follows, AllBehind

(* More questions are written, the script ends, or the template leaves.    *)
LEMMA StreamKept ==
    ASSUME NEW t \in Nat, NEW q \in Nat, NEW over \in BOOLEAN, NEW out, NEW held, NEW ln,
           NEW p, Stream(t, q, over, out, held, ln, p),
           NEW t2 \in Nat, t2 <= t, NEW q2 \in Nat, q <= q2,
           NEW over2 \in BOOLEAN, over => over2
    PROVE  Stream(t2, q2, over2, out, held, ln, p)
<1>1. ASSUME NEW l \in Fresh(t, q, over) PROVE l \in Fresh(t2, q2, over2)
  <2>1. l.after \in Nat /\ l.of \in Nat
    BY DialogAssumption DEF DialogAssumption, Fresh, Line
  <2> QED
    BY <2>1 DEF Fresh, Given
<1>2. \A a, b : Behind(a, b, over) => Behind(a, b, over2)
  BY DEF Behind, Given
<1>3. out \in Seq(Heard(t2, q2, over2)) /\ p \in Seq(Fresh(t2, q2, over2))
  <2>1. out \in Seq(Heard(t, q, over)) /\ p \in Seq(Fresh(t, q, over))
    BY DEF Stream
  <2>2. /\ \A i \in DOMAIN out : out[i] \in Heard(t2, q2, over2)
        /\ \A i \in DOMAIN p : p[i] \in Fresh(t2, q2, over2)
    BY <1>1, <2>1, SeqAt DEF Heard
  <2> QED
    BY <2>1, <2>2, SeqAll
<1>4. Ordered(out, over2) /\ Ordered(p, over2) /\ Follows(out, p, over2)
  BY <1>2 DEF Stream, Ordered, Follows, AllAhead
<1>5. held => /\ ln \in Fresh(t2, q2, over2)
              /\ AllBehind(out, ln, over2) /\ AllAhead(ln, p, over2)
  BY <1>1, <1>2 DEF Stream, AllBehind, AllAhead
<1> QED
  BY <1>3, <1>4, <1>5 DEF Stream

(* The process writes a line.                                              *)
LEMMA StreamWrite ==
    ASSUME NEW t \in Nat, NEW q \in Nat, NEW q2 \in Nat, q <= q2, NEW over \in BOOLEAN,
           NEW out, NEW held, NEW ln, NEW p, Stream(t, q, over, out, held, ln, p),
           NEW l \in Fresh(t, q2, over),
           \A a \in Fresh(t, q, over) : Behind(a, l, over)
    PROVE  Stream(t, q2, over, out, held, ln, Append(p, l))
<1>1. /\ out \in Seq(Heard(t, q, over)) /\ p \in Seq(Fresh(t, q, over))
      /\ held => ln \in Fresh(t, q, over)
  BY DEF Stream
<1>2. AllBehind(p, l, over) /\ AllBehind(out, l, over) /\ (held => Behind(ln, l, over))
  BY <1>1, SeqAt DEF AllBehind, Heard
<1>3. Stream(t, q2, over, out, held, ln, p)
  BY StreamKept
<1>4. p \in Seq(Fresh(t, q2, over))
  BY <1>3 DEF Stream
<1>5. Append(p, l) \in Seq(Fresh(t, q2, over)) /\ Ordered(Append(p, l), over)
  BY <1>2, <1>3, <1>4, SeqPut, OrderedAppend DEF Stream
<1>6. \A a : AllAhead(a, p, over) /\ Behind(a, l, over) => AllAhead(a, Append(p, l), over)
  BY <1>4, AtAppend DEF AllAhead
<1>7. Follows(out, Append(p, l), over)
  BY <1>2, <1>3, <1>6 DEF Follows, AllBehind, Stream
<1> QED
  BY <1>2, <1>3, <1>5, <1>6, <1>7 DEF Stream

(* Run reads a line.                                                       *)
LEMMA StreamRead ==
    ASSUME NEW t \in Nat, NEW q \in Nat, NEW over \in BOOLEAN, NEW out, NEW ln,
           NEW p, p # <<>>, Stream(t, q, over, out, FALSE, ln, p)
    PROVE  Stream(t, q, over, out, TRUE, Head(p), Tail(p))
<1>1. p \in Seq(Fresh(t, q, over)) /\ Ordered(p, over)
  BY DEF Stream
<1>2. /\ Head(p) \in Fresh(t, q, over) /\ Tail(p) \in Seq(Fresh(t, q, over))
      /\ Ordered(Tail(p), over) /\ AllAhead(Head(p), Tail(p), over)
  BY <1>1, SeqTake, OrderedTail
<1>3. Follows(out, Tail(p), over) /\ AllBehind(out, Head(p), over)
  BY <1>1, OrderedTail DEF Follows, Stream, AllBehind
<1> QED
  BY <1>2, <1>3 DEF Stream

(* Run sends a line: the one it holds, or a fail behind everything.        *)
LEMMA StreamSend ==
    ASSUME NEW t \in Nat, NEW q \in Nat, NEW over \in BOOLEAN, NEW out, NEW held, NEW ln,
           NEW p, Stream(t, q, over, out, held, ln, p),
           NEW l \in Heard(t, q, over),
           AllBehind(out, l, over), AllAhead(l, p, over)
    PROVE  Stream(t, q, over, Append(out, l), FALSE, ln, p)
<1>1. out \in Seq(Heard(t, q, over)) /\ Ordered(out, over)
  BY DEF Stream
<1>2. Append(out, l) \in Seq(Heard(t, q, over)) /\ Ordered(Append(out, l), over)
  BY <1>1, SeqPut, OrderedAppend
<1>3. Follows(Append(out, l), p, over)
  BY <1>1, AtAppend DEF Follows, Stream
<1> QED
  BY <1>2, <1>3 DEF Stream

(* The template reads a line; after a question it waits for what comes     *)
(* after the answer.                                                       *)
LEMMA StreamTake ==
    ASSUME NEW t \in Nat, NEW q \in Nat, NEW over \in BOOLEAN, NEW out, NEW held, NEW ln,
           NEW p, out # <<>>, Stream(t, q, over, out, held, ln, p)
    PROVE  /\ Stream(t, q, over, Tail(out), held, ln, p)
           /\ Head(out).name \in Ask =>
                 t + 1 <= q /\ Stream(t + 1, q, over, Tail(out), held, ln, p)
<1> DEFINE h == Head(out)
           r == Tail(out)
<1>1. out \in Seq(Heard(t, q, over)) /\ Ordered(out, over)
  BY DEF Stream
<1>2. /\ h \in Heard(t, q, over) /\ r \in Seq(Heard(t, q, over))
      /\ Ordered(r, over) /\ AllAhead(h, r, over)
      /\ Follows(r, p, over) /\ AllAhead(h, p, over)
      /\ held => AllBehind(r, ln, over) /\ Behind(h, ln, over)
  <2>1. held => Behind(h, ln, over)
    BY <1>1, AtTail DEF Stream, AllBehind
  <2> QED
    BY <1>1, <2>1, SeqTake, OrderedTail DEF Stream
<1>3. Stream(t, q, over, r, held, ln, p)
  BY <1>2 DEF Stream
<1>4. ASSUME h.name \in Ask
      PROVE  t + 1 <= q /\ Stream(t + 1, q, over, r, held, ln, p)
  <2>1. h \in Line /\ h.name \notin {"fail", "noise"} /\ h.after \in Nat
    BY <1>2, <1>4 DEF Heard, Fresh, Line, Ask
  <2>2. t <= h.after /\ h.of = h.after + 1 /\ h.of <= q
    BY <1>2, <1>4, <2>1 DEF Heard, Fresh, Given
  <2>3. ASSUME NEW m \in Fresh(t, q, over), Behind(h, m, over)
        PROVE  m \in Fresh(t + 1, q, over)
    <3>1. m.after \in Nat
      BY DEF Fresh, Line
    <3> QED
      BY <1>4, <2>1, <2>2, <2>3, <3>1 DEF Fresh, Behind
  <2>4. ASSUME NEW i \in DOMAIN r PROVE r[i] \in Heard(t + 1, q, over)
    <3>1. r[i] \in Heard(t, q, over)
      BY <1>2, SeqAt
    <3> QED
      BY <1>2, <2>3, <3>1 DEF AllAhead, Heard
  <2>5. ASSUME NEW i \in DOMAIN p PROVE p[i] \in Fresh(t + 1, q, over)
    <3>1. p \in Seq(Fresh(t, q, over))
      BY DEF Stream
    <3>2. p[i] \in Fresh(t, q, over)
      BY <3>1, SeqAt
    <3> QED
      BY <1>2, <2>3, <3>2 DEF AllAhead
  <2>6. r \in Seq(Heard(t + 1, q, over)) /\ p \in Seq(Fresh(t + 1, q, over))
    BY <1>2, <2>4, <2>5, SeqAll DEF Stream
  <2>7. held => ln \in Fresh(t + 1, q, over)
    BY <1>2, <2>3 DEF Stream
  <2> QED
    BY <1>3, <2>1, <2>2, <2>6, <2>7 DEF Stream
<1> QED
  BY <1>3, <1>4

(***************************************************************************)
(* A verdict is on the last answer                                         *)
(***************************************************************************)

AskLast(say) == \A i \in DOMAIN say : say[i] \in Ask => i = Len(say)

LEMMA AskLastTail ==
    ASSUME NEW say \in Seq(Name), say # <<>>, AskLast(say)
    PROVE  /\ AskLast(Tail(say))
           /\ Head(say) \in Ask => Tail(say) = <<>>
<1>1. /\ Head(say) = say[1] /\ Tail(say) \in Seq(Name) /\ Len(Tail(say)) = Len(say) - 1
      /\ Len(say) \in Nat
  BY HeadTailProperties, LenProperties
<1>2. AskLast(Tail(say))
  BY <1>1, AtTail DEF AskLast
<1>3. ASSUME Head(say) \in Ask PROVE Tail(say) = <<>>
  <2>1. Len(say) = 1
    BY <1>3, AtTail DEF AskLast
  <2>2. Tail(say) \in Seq(Name) /\ Len(Tail(say)) = 0
    BY <1>1, <2>1
  <2> QED
    BY <2>2, EmptySeq
<1> QED
  BY <1>2, <1>3

LEMMA AskLastSays ==
    /\ AskLast(<<>>) /\ \A n : AskLast(<<n>>)
    /\ \A say \in Seq(Name \ Ask) : AskLast(say)
<1>1. ASSUME NEW say \in Seq(Name \ Ask) PROVE AskLast(say)
  BY SeqAt DEF AskLast
<1>2. AskLast(<<>>)
  BY DEF AskLast
<1>3. ASSUME NEW n PROVE AskLast(<<n>>)
  BY DEF AskLast
<1> QED
  BY <1>1, <1>2, <1>3

(* Every script but gjp_login asks last.                                   *)
LEMMA OpeningAsksLast ==
    ASSUME NEW s \in Scripts, NEW o \in Opening(s)
    PROVE  AskLast(o.say)
<1>1. CASE s = "tianyancha_long"
  <2>1. o.say \in {<<"need_path">>, <<"finish", "need_path">>,
                   <<"finish", "finish", "need_path">>}
    BY <1>1 DEF Opening, On
  <2>2. "finish" \notin Ask
    BY DEF Ask
  <2>3. AskLast(<<"finish", "need_path">>)
    BY <2>2 DEF AskLast
  <2>4. AskLast(<<"finish", "finish", "need_path">>)
    BY <2>2 DEF AskLast
  <2> QED
    BY <2>1, <2>3, <2>4, AskLastSays
<1>2. CASE s # "tianyancha_long"
  <2>1. \E n : o.say = <<n>>
    BY <1>2 DEF Opening, On, Scripts
  <2> QED
    BY <2>1, AskLastSays
<1> QED
  BY <1>1, <1>2

LEMMA RoundAsksLast ==
    ASSUME NEW s \in Scripts \ {"gjp_login"}, NEW r \in Nat, NEW a, NEW o \in Round(s, r, a)
    PROVE  AskLast(o.say)
<1> DEFINE Told2 == Name \ Ask
<1>0. {"finish", "fail", "cookie", "noise", "html", "html4", "html8", "set_params"}
          \subseteq Name \ Ask
  BY DEF Name, Ask, Told, Final
<1>1. CASE s \in Jds
  <2>1. o = End(<<>>) \/ \E n : o = End(<<n>>) \/ o = On(<<n>>)
    BY <1>1 DEF Round, JdRound, HandleText, Jds
  <2>2. o.say = <<>> \/ \E n : o.say = <<n>>
    BY <2>1 DEF End, On
  <2> QED
    BY <2>2, AskLastSays
<1>2. CASE s \in {"lagou", "taobao_ua", "taobaoSearch"}
  <2>1. \E n : o.say = <<n>>
    BY <1>2 DEF Round, SearchRound, End, On
  <2> QED
    BY <2>1, AskLastSays
<1>3. CASE s = "tianyancha_longtime"
  <2>1. o.say \in {<<"cookie">>, <<"fail", "cookie">>, <<"fail", "fail", "cookie">>}
    BY <1>3 DEF Round, LongtimeRound, End
  <2>2. /\ <<"cookie">> \in Seq(Name \ Ask) /\ <<"fail", "cookie">> \in Seq(Name \ Ask)
        /\ <<"fail", "fail", "cookie">> \in Seq(Name \ Ask)
    BY <1>0
  <2> QED
    BY <2>1, <2>2, AskLastSays
<1>4. CASE s = "chinatax"
  <2>1. CASE r = 1
    BY <1>4, <2>1, AskLastSays DEF Round, ChinataxRound, On
  <2>2. CASE r = 2
    <3>1. o.say = <<"html", "html", "html", "html4", "need_randcode">>
      BY <1>4, <2>2 DEF Round, ChinataxRound, On
    <3>2. "html" \notin Ask /\ "html4" \notin Ask
      BY DEF Ask
    <3>3. AskLast(<<"html", "html", "html", "html4", "need_randcode">>)
      BY <3>2 DEF AskLast
    <3> QED
      BY <3>1, <3>3
  <2>3. CASE r \notin {1, 2}
    <3> DEFINE parsed == <<"html", "html", "html", "html8", "html8", "finish">>
    <3>1. parsed \in Seq(Name \ Ask) /\ <<"finish">> \in Seq(Name \ Ask)
      BY <1>0
    <3>2. <<"finish">> \o parsed \in Seq(Name \ Ask)
      BY <3>1, ConcatProperties
    <3>3. o.say \in {parsed, <<"finish">>, <<"finish">> \o parsed}
      BY <1>4, <2>3 DEF Round, ChinataxRound, End
    <3> QED
      BY <3>1, <3>2, <3>3, AskLastSays
  <2> QED
    BY <2>1, <2>2, <2>3
<1>5. CASE s = "tianyancha_long"
  <2>1. CASE r = 1
    BY <1>5, <2>1, AskLastSays DEF Round, LongRound, On
  <2>2. CASE r # 1
    <3> DEFINE S == Seq(Name \ Ask)
    <3>1. /\ <<>> \in S /\ <<"finish">> \in S /\ <<"set_params">> \in S
          /\ <<"noise">> \in S /\ <<"html", "finish">> \in S
      BY <1>0
    <3>2. \A x, y \in S : x \o y \in S
      BY ConcatProperties
    <3> HIDE DEF S
    <3>3. Loop \subseteq S /\ {<<>>, <<"html", "finish">>} \subseteq S
      BY <3>1 DEF Loop
    <3>4. \/ o \in {End(l \o <<"finish">>) : l \in Loop}
          \/ o \in {End(l) : l \in Loop}
          \/ o \in {End(l \o <<"set_params">> \o m \o <<"noise">> \o rest) :
                      l \in Loop, m \in Loop, rest \in {<<>>, <<"html", "finish">>}}
      BY <1>5, <2>2 DEF Round, LongRound
    <3>5. CASE o \in {End(l \o <<"finish">>) : l \in Loop}
      <4>1. PICK l \in Loop : o = End(l \o <<"finish">>)
        BY <3>5
      <4> QED
        BY <3>1, <3>2, <3>3, <4>1, AskLastSays DEF End, S
    <3>6. CASE o \in {End(l) : l \in Loop}
      <4>1. PICK l \in Loop : o = End(l)
        BY <3>6
      <4> QED
        BY <3>3, <4>1, AskLastSays DEF End, S
    <3>7. CASE o \in {End(l \o <<"set_params">> \o m \o <<"noise">> \o rest) :
                      l \in Loop, m \in Loop, rest \in {<<>>, <<"html", "finish">>}}
      <4>1. PICK l \in Loop, m \in Loop, rest \in {<<>>, <<"html", "finish">>} :
                o = End(l \o <<"set_params">> \o m \o <<"noise">> \o rest)
        BY <3>7
      <4>2. l \o <<"set_params">> \o m \o <<"noise">> \o rest \in S
        BY <3>1, <3>2, <3>3
      <4> QED
        BY <4>1, <4>2, AskLastSays DEF End, S
    <3> QED
      BY <3>4, <3>5, <3>6, <3>7
  <2> QED
    BY <2>1, <2>2
<1> QED
  BY <1>1, <1>2, <1>3, <1>4, <1>5 DEF Scripts, Jds

(* Answers that are given or that the template is about to give.           *)
Due == given + IF session = "answering" THEN 1 ELSE 0

(* A script has read an answer to every question but an open one.          *)
CountInv == given \in Nat /\ asked = round + IF open THEN 1 ELSE 0

FreshInv ==
    script # "gjp_login" =>
        /\ AskLast(todo)
        /\ open => todo = <<>> \/ end = "dying"
        /\ end = "dying" => todo \in {<<>>, <<"noise">>}
        /\ Due <= asked
        /\ Stream(Due, asked, Over, output, bridge = "send", line, pipe)

LEMMA FreshInit == Init => CountInv /\ FreshInv
<1> SUFFICES ASSUME Init PROVE CountInv /\ FreshInv
  OBVIOUS
<1>1. AskLast(todo)
  <2>1. script \in Scripts
    BY DialogAssumption DEF DialogAssumption, Init
  <2> QED
    BY <2>1, OpeningAsksLast DEF Init
<1>2. Stream(Due, asked, Over, output, bridge = "send", line, pipe)
  <2>1. DOMAIN <<>> = {}
    OBVIOUS
  <2> QED
    BY <2>1, SayOne DEF Init, Stream, Ordered, Follows, AllAhead
<1> QED
  BY <1>1, <1>2 DEF Init, CountInv, FreshInv, Due

(* The script reads a line only when it has asked.                         *)
LEMMA CountStep == DInv /\ CountInv /\ BP!IInv /\ [Next]_vars => CountInv'
<1> SUFFICES ASSUME Typed, Open, CountInv, BP!IInv, [Next]_vars PROVE CountInv'
  BY DEF DInv
<1> USE DEF procVars, bridgeVars, sessionVars
<1>1. CASE Write
  <2>1. open => Head(todo) \notin Ask
    BY <1>1, TailOfSay DEF Write, Open, Typed
  <2>2. /\ asked \in Nat /\ round \in Nat /\ open \in BOOLEAN
        /\ asked = round + IF open THEN 1 ELSE 0
        /\ given \in Nat
    BY DialogAssumption DEF DialogAssumption, CountInv, Typed
  <2>3. /\ asked' = IF Head(todo) \in Ask THEN asked + 1 ELSE asked
        /\ open' = (open \/ Head(todo) \in Ask) /\ round' = round /\ given' = given
    BY <1>1 DEF Write
  <2>4. CASE Head(todo) \in Ask
    <3>1. open = FALSE /\ open' = TRUE
      BY <2>1, <2>2, <2>3, <2>4
    <3> QED
      BY <2>2, <2>3, <2>4, <3>1 DEF CountInv
  <2>5. CASE Head(todo) \notin Ask
    <3>1. open' = open
      BY <2>2, <2>3, <2>5
    <3> QED
      BY <2>2, <2>3, <2>5, <3>1 DEF CountInv
  <2> QED
    BY <2>4, <2>5
<1>2. CASE ReadLine
  <2>1. open
    BY <1>2, OneAsked DEF ReadLine
  <2> QED
    BY <1>2, <2>1 DEF ReadLine, CountInv, Typed
<1>3. CASE Block \/ Exit \/ Die
  BY <1>3 DEF Block, Exit, Die, CountInv
<1>4. CASE Run
  BY <1>4 DEF Run, Start, ReadPipe, ReadError, Send, ToOutput, TakeAnswer, Timeout, Reap,
              Kill, CountInv
<1>5. CASE Template
  BY <1>5 DEF Template, ReadCasper, ReadChan, WriteCasper, Leave, CountInv
<1>6. CASE UNCHANGED vars
  BY <1>6 DEF vars, CountInv
<1> QED
  BY <1>1, <1>2, <1>3, <1>4, <1>5, <1>6 DEF Next, GoesOn

LEMMA FreshStep == DInv /\ HangInv /\ CountInv /\ FreshInv /\ BP!IInv /\ [Next]_vars => FreshInv'
<1> SUFFICES ASSUME Typed, Open, HangInv, CountInv, FreshInv, BP!IInv, [Next]_vars,
                    script # "gjp_login"
             PROVE  FreshInv'
  BY ScriptStays DEF DInv, FreshInv
<1> USE DEF procVars, bridgeVars, sessionVars
<1>0. /\ AskLast(todo)
      /\ open => todo = <<>> \/ end = "dying"
      /\ end = "dying" => todo \in {<<>>, <<"noise">>}
      /\ Due <= asked
      /\ Stream(Due, asked, Over, output, bridge = "send", line, pipe)
  BY DEF FreshInv
<1>n. /\ Due \in Nat /\ asked \in Nat /\ round \in Nat /\ Over \in BOOLEAN
      /\ asked = round + IF open THEN 1 ELSE 0
  BY DialogAssumption DEF DialogAssumption, CountInv, Due, Typed, Over
<1>1. CASE Write
  <2> DEFINE l == [name |-> Head(todo),
                   of |-> IF Head(todo) \in Ask THEN asked + 1 ELSE 0, after |-> round]
  <2>1. /\ pipe' = Append(pipe, l) /\ todo' = Tail(todo) /\ todo # <<>>
        /\ asked' = IF Head(todo) \in Ask THEN asked + 1 ELSE asked
        /\ open' = (open \/ Head(todo) \in Ask)
        /\ UNCHANGED <<script, proc, end, bridge, line, output, session, given>>
    BY <1>1 DEF Write
  <2>2. /\ Head(todo) \in Name /\ AskLast(Tail(todo))
        /\ open => Head(todo) \notin Ask
        /\ Head(todo) \in Ask => Tail(todo) = <<>>
    BY <1>0, <2>1, TailOfSay, AskLastTail DEF Open, Typed
  <2>3. open => Head(todo) = "noise" /\ Over /\ Tail(todo) = <<>>
    <3>1. Head(<<"noise">>) = "noise" /\ Tail(<<"noise">>) = <<>>
      OBVIOUS
    <3> QED
      BY <1>0, <2>1, <3>1 DEF Over
  <2>4. l \in Line
    BY <1>1, <2>2, DialogAssumption DEF Write, Line, Typed, DialogAssumption
  <2>5. l.name = Head(todo) /\ l.after = round /\ l.of = IF Head(todo) \in Ask THEN asked + 1 ELSE 0
    OBVIOUS
  <2> HIDE DEF l
  <2>6. asked' \in Nat /\ asked <= asked'
    BY <1>n, <2>1
  <2>7. l \in Fresh(Due, asked', Over)
    <3>1. Due <= l.after \/ Given(l, Over)
      <4>1. CASE open
        BY <2>3, <2>5, <4>1 DEF Given
      <4>2. CASE ~open
        BY <1>0, <1>n, <2>5, <4>2
      <4> QED
        BY <4>1, <4>2
    <3>2. l.name \in Ask => l.of = l.after + 1 /\ l.of <= asked'
      <4> SUFFICES ASSUME l.name \in Ask PROVE l.of = l.after + 1 /\ l.of <= asked'
        OBVIOUS
      <4>1. ~open
        BY <2>2, <2>5
      <4> QED
        BY <1>n, <2>1, <2>5, <4>1
    <3> QED
      BY <2>4, <3>1, <3>2 DEF Fresh
  <2>8. ASSUME NEW a \in Fresh(Due, asked, Over)
        PROVE  Behind(a, l, Over)
    <3>1. a.after \in Nat /\ (a.name \in Ask => a.of = a.after + 1 /\ a.of <= asked)
      BY <2>8 DEF Fresh, Line
    <3> QED
      BY <1>n, <2>3, <2>5, <3>1 DEF Behind, Given
  <2>9. Stream(Due, asked', Over, output, bridge = "send", line, Append(pipe, l))
    BY <1>0, <1>n, <2>6, <2>7, <2>8, StreamWrite
  <2>10. Due' = Due /\ Over' = Over
    BY <2>1 DEF Due, Over
  <2>11. Stream(Due, asked, Over, output, bridge = "send", line, pipe)'
    BY <2>1, <2>9, <2>10
  <2>12. AskLast(todo)'
    BY <2>1, <2>2
  <2>13. Due' <= asked'
    BY <1>0, <1>n, <2>6, <2>10
  <2>15. open' => todo' = <<>>
    <3>1. open \/ Head(todo) \in Ask => Tail(todo) = <<>>
      BY <2>2, <2>3
    <3> QED
      BY <2>1, <3>1
  <2>14. end' = "dying" => todo' \in {<<>>, <<"noise">>}
    <3>1. Tail(<<"noise">>) = <<>>
      OBVIOUS
    <3> QED
      BY <1>0, <2>1, <3>1
  <2> QED
    BY <2>11, <2>12, <2>13, <2>14, <2>15 DEF FreshInv
<1>2. CASE ReadLine
  <2>1. PICK o \in Round(script, round + 1, stdin.name) :
            todo' = o.say /\ end' = IF o.end THEN "yes" ELSE "no"
    BY <1>2 DEF ReadLine
  <2>2. script \in Scripts \ {"gjp_login"} /\ round + 1 \in Nat
    BY <1>n, DialogAssumption DEF DialogAssumption, Typed
  <2>3. AskLast(todo)'
    BY <2>1, <2>2, RoundAsksLast
  <2>4. /\ UNCHANGED <<asked, bridge, line, output, pipe, session, given>> /\ open' = FALSE
        /\ end' # "dying" /\ Due' = Due
    BY <1>2, <2>1 DEF ReadLine, Due
  <2>5. ~Over /\ Over' \in BOOLEAN
    BY <1>2 DEF ReadLine, HangInv, Over
  <2>6. Stream(Due, asked, Over', output, bridge = "send", line, pipe)
    BY <1>0, <1>n, <2>5, StreamKept
  <2> QED
    BY <1>0, <2>3, <2>4, <2>6 DEF FreshInv
<1>3. CASE Block \/ Exit \/ Kill \/ Start
  <2>1. /\ UNCHANGED <<todo, end, open, asked, line, output, pipe, session, given>>
        /\ (Over => Over') /\ Over' \in BOOLEAN /\ Due' = Due
        /\ bridge' = "send" => bridge = "send"
    BY <1>3 DEF Block, Exit, Kill, Start, Over, Due, Open
  <2>2. Stream(Due, asked, Over', output, bridge = "send", line, pipe)
    BY <1>0, <1>n, <2>1, StreamKept
  <2>3. Stream(Due, asked, Over, output, bridge = "send", line, pipe)'
    BY <2>1, <2>2 DEF Stream
  <2> QED
    BY <1>0, <2>1, <2>3 DEF FreshInv
<1>4. CASE Die
  <2>1. /\ UNCHANGED <<open, asked, bridge, line, output, pipe, session, given>>
        /\ todo' \in {<<>>, <<"noise">>} /\ end' = "dying" /\ Due' = Due
        /\ (Over => Over') /\ Over' \in BOOLEAN
    BY <1>4 DEF Die, Over, Due
  <2>2. Stream(Due, asked, Over', output, bridge = "send", line, pipe)
    BY <1>0, <1>n, <2>1, StreamKept
  <2>3. AskLast(todo)'
    BY <2>1, AskLastSays
  <2> QED
    BY <1>0, <2>1, <2>2, <2>3 DEF FreshInv
<1>5. CASE TakeAnswer \/ Timeout \/ Reap
  <2>1. /\ UNCHANGED <<todo, end, open, proc, asked, line, output, pipe, session, given>>
        /\ Over' = Over /\ Due' = Due /\ bridge # "send" /\ bridge' # "send"
    BY <1>5 DEF TakeAnswer, Timeout, Reap, Over, Due
  <2> QED
    BY <1>0, <2>1 DEF FreshInv
<1>6. CASE ReadPipe
  <2>1. /\ UNCHANGED <<todo, end, open, proc, asked, output, session, given>>
        /\ Over' = Over /\ Due' = Due /\ (bridge = "send") = FALSE /\ (bridge' = "send") = TRUE
        /\ line' = Head(pipe) /\ pipe' = Tail(pipe) /\ pipe # <<>>
    BY <1>6 DEF ReadPipe, Over, Due
  <2>2. Stream(Due, asked, Over, output, TRUE, Head(pipe), Tail(pipe))
    <3>1. Stream(Due, asked, Over, output, FALSE, line, pipe)
      BY <1>0, <2>1
    <3> QED
      BY <1>n, <2>1, <3>1, StreamRead
  <2>3. Stream(Due, asked, Over, output, bridge = "send", line, pipe)'
    BY <2>1, <2>2
  <2> QED
    BY <1>0, <2>1, <2>3 DEF FreshInv
<1>7. CASE ReadError
  <2>1. /\ UNCHANGED <<todo, end, open, proc, asked, line, pipe, session, given>>
        /\ Over' = Over /\ Due' = Due /\ (bridge' = "send") = FALSE
        /\ output' = Append(output, Fail) /\ Over = TRUE
    BY <1>7 DEF ReadError, ToOutput, Over, Due, Fail
  <2>2. /\ Fail \in Heard(Due, asked, Over)
        /\ \A a : Behind(a, Fail, Over)
        /\ \A a : Behind(Fail, a, Over)
    BY <2>1, FailTyped DEF Heard, Fresh, Given, Behind, Ask
  <2>3. Stream(Due, asked, Over, Append(output, Fail), FALSE, line, pipe)
    BY <1>0, <1>n, <2>2, StreamSend DEF AllBehind, AllAhead
  <2>4. Stream(Due, asked, Over, output, bridge = "send", line, pipe)'
    BY <2>1, <2>3
  <2> QED
    BY <1>0, <2>1, <2>4 DEF FreshInv
<1>8. CASE Send
  <2> DEFINE l == IF line.name = "noise" THEN Renamed ELSE line
  <2>1. /\ UNCHANGED <<todo, end, open, proc, asked, line, pipe, session, given>>
        /\ Over' = Over /\ Due' = Due
        /\ output' = Append(output, l) /\ bridge = "send"
        /\ bridge' \in {"read", "wait", "reap"}
    BY <1>8 DEF Send, ToOutput, Over, Due, Renamed
  <2>2. /\ line \in Fresh(Due, asked, Over)
        /\ AllBehind(output, line, Over) /\ AllAhead(line, pipe, Over)
    BY <1>0, <2>1 DEF Stream
  <2>3. ASSUME line.name = "noise"
        PROVE  Stream(Due, asked, Over, Append(output, Renamed), FALSE, line, pipe)
    <3>1. Renamed \in Heard(Due, asked, Over)
      BY <2>2, <2>3, FailTyped DEF Heard, Fresh, Given, Ask
    <3>2. \A a : Behind(a, line, Over) => Behind(a, Renamed, Over)
      BY <2>3, FailTyped DEF Behind, Given
    <3>3. AllBehind(output, Renamed, Over) /\ AllAhead(Renamed, pipe, Over)
      BY <2>2, <3>2, FailTyped DEF AllBehind, AllAhead, Behind, Ask
    <3> QED
      BY <1>0, <1>n, <2>3, <3>1, <3>3, StreamSend
  <2>4. ASSUME line.name # "noise"
        PROVE  Stream(Due, asked, Over, Append(output, line), FALSE, line, pipe)
    BY <1>0, <1>n, <2>2, <2>4, StreamSend DEF Heard
  <2>5. Stream(Due, asked, Over, Append(output, l), FALSE, line, pipe)
    BY <2>3, <2>4
  <2>6. (bridge' = "send") = FALSE
    BY <2>1
  <2> HIDE DEF l
  <2>7. Stream(Due, asked, Over, output, bridge = "send", line, pipe)'
    BY <2>1, <2>5, <2>6
  <2> QED
    BY <1>0, <2>1, <2>7 DEF FreshInv
<1>9. CASE ReadChan
  <2>1. /\ UNCHANGED <<todo, end, open, proc, asked, line, bridge, pipe, given>>
        /\ Over' = Over /\ output' = Tail(output) /\ output # <<>> /\ session = "reading"
        /\ IF Head(output).name \in Ask THEN session' = "answering"
                                         ELSE session' \in {"done", "away"}
    BY <1>9 DEF ReadChan, Over
  <2>2. /\ Stream(Due, asked, Over, Tail(output), bridge = "send", line, pipe)
        /\ Head(output).name \in Ask =>
              /\ Due + 1 <= asked
              /\ Stream(Due + 1, asked, Over, Tail(output), bridge = "send", line, pipe)
    BY <1>0, <1>n, <2>1, StreamTake
  <2>3. Due' = IF Head(output).name \in Ask THEN Due + 1 ELSE Due
    BY <2>1 DEF Due, CountInv
  <2>4. Due' <= asked /\ Stream(Due', asked, Over, Tail(output), bridge = "send", line, pipe)
    BY <1>0, <2>2, <2>3
  <2> QED
    BY <1>0, <2>1, <2>4 DEF FreshInv
<1>10. CASE WriteCasper \/ ReadCasper \/ Leave
  <2>1. /\ UNCHANGED <<todo, end, open, proc, asked, line, bridge, pipe, output>>
        /\ Over' = Over /\ Due' \in Nat /\ Due' <= Due
    BY <1>10 DEF WriteCasper, ReadCasper, Leave, Over, Due, CountInv
  <2>2. Stream(Due', asked, Over, output, bridge = "send", line, pipe)
    BY <1>0, <1>n, <2>1, StreamKept
  <2> QED
    BY <1>0, <1>n, <2>1, <2>2 DEF FreshInv
<1>11. CASE UNCHANGED vars
  <2>1. Due' = Due /\ Over' = Over
    BY <1>11 DEF vars, Due, Over
  <2> QED
    BY <1>0, <1>11, <2>1 DEF vars, FreshInv
<1> QED
  BY <1>1, <1>2, <1>3, <1>4, <1>5, <1>6, <1>7, <1>8, <1>9, <1>10, <1>11
  DEF Next, GoesOn, Run, Template

(* What a template reads after an answer was written after the script had  *)
(* read that answer, or is the fail of a script at its end: but for        *)
(* gjp_login, no verdict is on an answer that was not read                 *)
(* (casperjs.go:81-180 passes on whatever is written, in its order).       *)
THEOREM VerdictIsFreshHolds == Spec => []VerdictIsFreshButGjp
<1>1. DInv /\ CountInv /\ FreshInv => VerdictIsFreshButGjp
  <2> SUFFICES ASSUME Typed, CountInv, FreshInv, script # "gjp_login",
                      session = "reading", output # <<>>
               PROVE  \/ Head(output).after >= given
                      \/ Head(output).name = "fail" /\ (end # "no" \/ proc = "gone")
    BY DEF DInv, VerdictIsFreshButGjp, VerdictIsFresh
  <2>1. Due = given /\ given \in Nat
    BY DEF Due, CountInv
  <2>2. output \in Seq(Heard(Due, asked, Over))
    BY DEF FreshInv, Stream
  <2>3. Head(output) \in Heard(Due, asked, Over)
    BY <2>2, SeqTake
  <2>4. Head(output).after \in Nat
    BY <2>3 DEF Heard, Fresh, Line
  <2> QED
    BY <2>1, <2>3, <2>4 DEF Heard, Fresh, Given, Over
<1> QED
  BY <1>1, BridgeInit, BridgeStep, JdInit, JdStep, LongInit, LongStep, HangInit, HangStep,
     FreshInit, CountStep, FreshStep, DialogInvariant, PTL DEF Spec

(***************************************************************************)
(* The rounds of a script are enough for its questions                     *)
(***************************************************************************)

Counting == {"jd_buyer", "gjp_login"}  \* the scripts with a counting template

(* The scripts of few rounds end in their last one.                        *)
RestInv ==
    script \notin Counting \union {"jd_shop"} /\ end = "no" => round < Rounds(script)

LEMMA LastRoundEnds ==
    ASSUME NEW s \in Scripts \ (Counting \union {"jd_shop"}), NEW a,
           NEW o \in Round(s, Rounds(s), a)
    PROVE  o.end = TRUE
<1>1. CASE s \in {"lagou", "taobao_ua", "tianyancha_longtime"}
  BY <1>1 DEF Round, LongtimeRound, End
<1>2. CASE s = "taobaoSearch"
  BY <1>2 DEF Rounds, Round, SearchRound, End
<1>3. CASE s = "chinatax"
  <2>1. Rounds(s) = 3
    BY <1>3 DEF Rounds
  <2> QED
    BY <1>3, <2>1 DEF Round, ChinataxRound, End
<1>4. CASE s = "tianyancha_long"
  <2>1. Rounds(s) = 2
    BY <1>4 DEF Rounds
  <2>2. Round(s, Rounds(s), a) = LongRound(2)
    BY <1>4, <2>1 DEF Round
  <2>3. \E say : o = End(say)
    BY <2>2 DEF LongRound
  <2> QED
    BY <2>3 DEF End
<1> QED
  BY <1>1, <1>2, <1>3, <1>4 DEF Scripts, Counting

LEMMA RestStep == DInv /\ HangInv /\ RestInv /\ [Next]_vars => RestInv'
<1> SUFFICES ASSUME Typed, Open, HangInv, RestInv, [Next]_vars,
                    script \notin Counting \union {"jd_shop"}
             PROVE  end' = "no" => round' < Rounds(script)
  BY ScriptStays DEF DInv, RestInv
<1> USE DEF procVars, bridgeVars, sessionVars
<1>1. CASE ReadLine
  <2>1. PICK o \in Round(script, round + 1, stdin.name) :
            end' = (IF o.end THEN "yes" ELSE "no") /\ round' = round + 1
    BY <1>1 DEF ReadLine
  <2>2. /\ script \in Scripts /\ round \in Nat
        /\ Rounds(script) \in Nat /\ round < Rounds(script)
    BY <1>1, RoundsCount, DialogAssumption DEF DialogAssumption, ReadLine, Open, Typed
  <2>3. round + 1 = Rounds(script) => o.end = TRUE
    BY <2>2, LastRoundEnds
  <2> QED
    BY <2>1, <2>2, <2>3
<1>2. CASE Write \/ Block \/ Exit \/ Die
  BY <1>2 DEF Write, Block, Exit, Die, RestInv
<1>3. CASE Run
  BY <1>3 DEF Run, Start, ReadPipe, ReadError, Send, ToOutput, TakeAnswer, Timeout, Reap,
              Kill, RestInv
<1>4. CASE Template
  BY <1>4 DEF Template, ReadCasper, ReadChan, WriteCasper, Leave, RestInv
<1>5. CASE UNCHANGED vars
  BY <1>5 DEF vars, RestInv
<1> QED
  BY <1>1, <1>2, <1>3, <1>4, <1>5 DEF Next, GoesOn

(* With g answers given, and p and m on the counters of the template: what *)
(* a script may ask, what the template may answer and what it may have     *)
(* answered.  Every answer but the first two is to a question that has     *)
(* been counted.                                                           *)
MayAsk(n, g, p, m) ==
    \/ n = "need_path" /\ g = 0 /\ p = 0 /\ m = 0
    \/ n = "need_username" /\ g <= 1 /\ p = 0 /\ m = 0
    \/ n = "need_randcode" /\ p = 0 /\ m = 0
    \/ n \in {"wrong_randcode", "need_password2", "need_sms"} /\ m = 0
    \/ n = "wrong_password2"
MayAnswer(n, g, p, m) ==
    \/ n = "need_path" /\ g = 0 /\ p = 0 /\ m = 0
    \/ n = "need_username" /\ g <= 1 /\ p = 0 /\ m = 0
    \/ n \in {"need_randcode", "wrong_randcode"} /\ m = 0 /\ g + 1 <= 2 + p + m
    \/ n \in {"need_password2", "need_sms", "wrong_password2"} /\ g + 1 <= 2 + p + m
MayRead(n, g, p, m) ==
    \/ n = "path" /\ g <= 1 /\ p = 0 /\ m = 0
    \/ n = "username" /\ p = 0 /\ m = 0
    \/ n = "randcode" /\ m = 0
    \/ n \in {"sms", "password2"}

FewName(g, p, m) == {n \in Name : n \in Ask => MayAsk(n, g, p, m)}
FewLine(g, p, m) == {l \in Line : l.name \in Ask => MayAsk(l.name, g, p, m)}
FewReply(g, p, m) == {r \in Reply : MayRead(r.name, g, p, m)}

Pictures == tries["picture"]
Messages == tries["message"]
Pending == IF stdin # None THEN 1 ELSE 0

FewLive ==
    /\ given <= 2 + Pictures + Messages /\ Pictures <= 4 /\ Messages <= 4
    /\ round + Pending + Len(input) <= given
    /\ proc # "gone" => todo \in Seq(FewName(given, Pictures, Messages))
    /\ pipe \in Seq(FewLine(given, Pictures, Messages))
    /\ output \in Seq(FewLine(given, Pictures, Messages))
    /\ bridge = "send" => line \in FewLine(given, Pictures, Messages)
    /\ session = "answering" /\ outcome = "none"
           => MayAnswer(question.name, given, Pictures, Messages)
    /\ input \in Seq(FewReply(given, Pictures, Messages))
    /\ stdin # None => stdin \in FewReply(given, Pictures, Messages)

(* A script reads ten answers at most, and finish after a timeout.         *)
FewInv ==
    script \in Counting =>
        /\ tries \in [{"picture", "message"} -> Nat] /\ given \in Nat
        /\ round + Pending <= 10 + IF gaveUp = "timeout" THEN 1 ELSE 0
        /\ Live => FewLive

LEMMA FewSays ==
    ASSUME NEW s \in Counting, NEW r \in Nat, NEW g \in Nat, NEW p \in Nat, NEW m \in Nat,
           NEW a, MayRead(a, g, p, m), NEW o \in Round(s, r, a)
    PROVE  o.say \in Seq(FewName(g, p, m))
<1> DEFINE F == FewName(g, p, m)
<1>0. \A n \in Name \ Ask : n \in F
  BY DEF FewName
<1>00. /\ "fail" \in F /\ "cookie" \in F /\ "version" \in F
       /\ "wrong_password2" \in F
  BY DEF FewName, Name, Told, Final, Ask, MayAsk
<1>01. /\ a = "path" => "need_username" \in F
       /\ a = "username" => {"need_randcode", "need_sms"} \subseteq F
       /\ a \in {"username", "randcode"} => {"wrong_randcode", "need_password2"} \subseteq F
  BY DEF MayRead, FewName, Name, Ask, MayAsk
<1> HIDE DEF F
<1>1. CASE s = "jd_buyer"
  <2>1. \E n \in F : o.say = <<n>>
    BY <1>1, <1>00, <1>01 DEF MayRead, Round, JdRound, HandleText, End, On
  <2> QED
    BY <2>1, SayOne DEF F
<1>2. CASE s = "gjp_login"
  <2> DEFINE S == Seq(F)
  <2>1. /\ <<>> \in S /\ <<"wrong_password2">> \in S /\ <<"fail">> \in S
        /\ <<"version", "cookie">> \in S
        /\ a = "path" => <<"need_username">> \in S
        /\ a = "username" => <<"need_sms">> \in S
    BY <1>00, <1>01
  <2>2. \A x, y \in S : x \o y \in S
    BY ConcatProperties
  <2> HIDE DEF S
  <2>3. ASSUME NEW said \in S, NEW v \in GjpVerdict(said) PROVE v.say \in S
    <3>1. said \o <<"version", "cookie">> \in S /\ said \o <<"fail">> \in S
      BY <2>1, <2>2
    <3>2. v = End(said \o <<"version", "cookie">>) \/ v = On(said \o <<"fail">>)
      BY DEF GjpVerdict
    <3>3. \A say : End(say).say = say /\ On(say).say = say
      BY DEF End, On
    <3> QED
      BY <3>1, <3>2, <3>3, Zenon
  <2>4. o \in GjpRound(a)
    BY <1>2 DEF Round
  <2>5. o.say \in S
    BY <2>1, <2>3, <2>4 DEF GjpRound, MayRead, End, On
  <2> QED
    BY <2>5 DEF S, F
<1> QED
  BY <1>1, <1>2 DEF Counting

(* What the template does with a question it may be asked.                 *)
LEMMA FewCounts ==
    ASSUME script \in Counting, NEW l, l.name \in Ask, Count(l),
           tries \in [{"picture", "message"} -> Nat], given \in Nat,
           MayAsk(l.name, given, Pictures, Messages),
           given <= 2 + Pictures + Messages, Pictures <= 4, Messages <= 4
    PROVE  /\ tries' \in [{"picture", "message"} -> Nat]
           /\ given <= 2 + Pictures' + Messages' /\ Pictures' <= 4 /\ Messages' <= 4
           /\ outcome' = "none" => MayAnswer(l.name, given, Pictures', Messages')
<1> DEFINE n == l.name
           c == CounterOf(script, n)
<1>0. /\ c = IF n \in {"need_randcode", "wrong_randcode"} THEN "picture"
            ELSE IF n \in {"need_password2", "wrong_password2", "need_sms"} THEN "message"
            ELSE "none"
      /\ n = "wrong_randcode" => Limit(n) = 3
      /\ n = "wrong_password2" => Limit(n) = 2
      /\ n \notin {"wrong_randcode", "wrong_password2"} => Limit(n) = 99
  BY DEF CounterOf, Counting, Limit
<1>1. IF c = "none" THEN UNCHANGED <<tries, outcome>>
      ELSE IF tries[c] > Limit(n)
      THEN outcome' = "lost" /\ UNCHANGED tries
      ELSE tries' = [tries EXCEPT ![c] = @ + 1] /\ UNCHANGED outcome
  BY DEF Count
<1>2. Pictures \in Nat /\ Messages \in Nat
  BY DEF Pictures, Messages
<1> HIDE DEF c
<1>3. CASE n \in {"need_path", "need_username"}
  <2>1. tries' = tries /\ Pictures' = Pictures /\ Messages' = Messages
    BY <1>0, <1>1, <1>3 DEF Pictures, Messages
  <2> QED
    BY <1>2, <1>3, <2>1 DEF MayAsk, MayAnswer
<1>4. CASE n \in {"need_randcode", "wrong_randcode"}
  <2>1. c = "picture"
    BY <1>0, <1>4
  <2>2. CASE tries[c] > Limit(n)
    BY <1>1, <1>2, <2>1, <2>2 DEF Pictures, Messages
  <2>3. CASE ~(tries[c] > Limit(n))
    <3>1. /\ tries' \in [{"picture", "message"} -> Nat]
          /\ Pictures' = Pictures + 1 /\ Messages' = Messages
      BY <1>1, <2>1, <2>3 DEF Pictures, Messages
    <3>2. Pictures <= 3 /\ Messages = 0
      BY <1>0, <1>2, <1>4, <2>1, <2>3 DEF MayAsk, Pictures
    <3> QED
      BY <1>2, <1>4, <3>1, <3>2 DEF MayAnswer
  <2> QED
    BY <2>2, <2>3
<1>5. CASE n \in {"need_password2", "wrong_password2", "need_sms"}
  <2>1. c = "message"
    BY <1>0, <1>5
  <2>2. CASE tries[c] > Limit(n)
    BY <1>1, <1>2, <2>1, <2>2 DEF Pictures, Messages
  <2>3. CASE ~(tries[c] > Limit(n))
    <3>1. /\ tries' \in [{"picture", "message"} -> Nat]
          /\ Messages' = Messages + 1 /\ Pictures' = Pictures
      BY <1>1, <2>1, <2>3 DEF Pictures, Messages
    <3>2. Messages <= 3
      BY <1>0, <1>2, <1>5, <2>1, <2>3 DEF MayAsk, Messages
    <3> QED
      BY <1>2, <1>5, <3>1, <3>2 DEF MayAnswer
  <2> QED
    BY <2>2, <2>3
<1> QED
  BY <1>3, <1>4, <1>5 DEF MayAsk

LEMMA FewReplies ==
    ASSUME NEW s \in Counting, NEW n, NEW g \in Nat, NEW p \in Nat, NEW m \in Nat,
           MayAnswer(n, g, p, m), NEW a \in Answers(s, n)
    PROVE  MayRead(a, g + 1, p, m) /\ g + 1 <= 2 + p + m
<1>1. g + 1 <= 2 + p + m
  BY DEF MayAnswer
<1>2. CASE n = "need_path"
  BY <1>2 DEF MayAnswer, MayRead, Answers
<1>3. CASE n = "need_username"
  BY <1>3 DEF MayAnswer, MayRead, Answers
<1>4. CASE n \in {"need_randcode", "wrong_randcode"}
  BY <1>4 DEF MayAnswer, MayRead, Answers, Counting
<1>5. CASE n \in {"need_password2", "need_sms", "wrong_password2"}
  <2>1. CASE n = "need_sms"
    <3>1. a = "sms"
      BY <2>1 DEF Answers
    <3> QED
      BY <1>1, <3>1 DEF MayRead
  <2>2. CASE n \in {"need_password2", "wrong_password2"}
    <3>1. a \in {"sms", "password2"}
      BY <2>2 DEF Answers
    <3> QED
      BY <1>1, <3>1 DEF MayRead
  <2> QED
    BY <1>5, <2>1, <2>2
<1> QED
  BY <1>1, <1>2, <1>3, <1>4, <1>5 DEF MayAnswer

LEMMA FewInit == Init => RestInv /\ FewInv
<1> SUFFICES ASSUME Init PROVE RestInv /\ FewInv
  OBVIOUS
<1>1. RestInv
  <2>1. script \in Scripts
    BY DialogAssumption DEF DialogAssumption, Init
  <2> QED
    BY <2>1, RoundsCount DEF Init, RestInv
<1>2. ASSUME script \in Counting PROVE todo \in Seq(FewName(0, 0, 0))
  <2>1. todo = <<"need_path">>
    BY <1>2 DEF Init, Opening, Counting, On
  <2>2. "need_path" \in FewName(0, 0, 0)
    BY DEF FewName, MayAsk, Name, Ask
  <2> QED
    BY <2>1, <2>2, SayOne
<1>3. Pictures = 0 /\ Messages = 0 /\ given = 0 /\ Pending = 0
  BY DEF Init, Pictures, Messages, Pending
<1>4. FewInv
  BY <1>2, <1>3, SayOne DEF Init, FewInv, FewLive
<1> QED
  BY <1>1, <1>4

(* When the template has or gets a question no other is on its way.        *)
LEMMA NothingAsked ==
    ASSUME Typed, Open, BP!IInv, Live, session = "answering" \/ ~NoAskIn(output),
           NEW g, NEW p, NEW m
    PROVE  /\ bridge = "wait" /\ stdin = None /\ input = <<>>
           /\ proc # "gone" => todo \in Seq(FewName(g, p, m))
           /\ pipe \in Seq(FewLine(g, p, m))
<1>1. /\ bridge = "wait" /\ stdin = None /\ input = <<>> /\ NoAskIn(pipe)
      /\ open \/ proc = "gone"
  BY OneAsked
<1>2. pipe \in Seq(FewLine(g, p, m))
  <2>1. ASSUME NEW i \in DOMAIN pipe PROVE pipe[i] \in FewLine(g, p, m)
    <3>1. pipe[i] \in Line
      BY SeqAt DEF Typed
    <3> QED
      BY <1>1, <3>1 DEF NoAskIn, FewLine
  <2> QED
    BY <2>1, SeqAll DEF Typed
<1>3. ASSUME proc # "gone" PROVE todo \in Seq(FewName(g, p, m))
  <2>1. NoAsk(todo)
    BY <1>1, <1>3 DEF Open
  <2>2. ASSUME NEW i \in DOMAIN todo PROVE todo[i] \in FewName(g, p, m)
    <3>1. todo[i] \in Name
      BY SeqAt DEF Typed
    <3> QED
      BY <2>1, <3>1 DEF NoAsk, FewName
  <2> QED
    BY <2>2, SeqAll DEF Typed
<1> QED
  BY <1>1, <1>2, <1>3

LEMMA NoAskLines ==
    ASSUME NEW s \in Seq(Line), NoAskIn(s), NEW g, NEW p, NEW m
    PROVE  s \in Seq(FewLine(g, p, m))
<1>1. ASSUME NEW i \in DOMAIN s PROVE s[i] \in FewLine(g, p, m)
  <2>1. s[i] \in Line
    BY SeqAt
  <2> QED
    BY <2>1 DEF NoAskIn, FewLine
<1> QED
  BY <1>1, SeqAll

LEMMA FewStep ==
    DInv /\ BP!IInv /\ HangInv /\ FewInv /\ [Next]_vars => FewInv'
<1> SUFFICES ASSUME Typed, Open, BP!IInv, HangInv, FewInv, [Next]_vars, script \in Counting
             PROVE  FewInv'
  BY ScriptStays DEF DInv, FewInv
<1> USE DEF procVars, bridgeVars, sessionVars
<1> DEFINE N == FewName(given, Pictures, Messages)
           L == FewLine(given, Pictures, Messages)
           R == FewReply(given, Pictures, Messages)
<1>0. /\ tries \in [{"picture", "message"} -> Nat] /\ given \in Nat
      /\ Pictures \in Nat /\ Messages \in Nat /\ round \in Nat /\ Pending \in Nat /\ Pending <= 1
      /\ round + Pending <= 10 + IF gaveUp = "timeout" THEN 1 ELSE 0
      /\ Live => FewLive
      /\ script' = script
      /\ Len(input) \in Nat
  BY ScriptStays, LenProperties DEF FewInv, Pictures, Messages, Pending, Typed
<1>1. CASE Write
  <2> DEFINE l == [name |-> Head(todo),
                   of |-> IF Head(todo) \in Ask THEN asked + 1 ELSE 0, after |-> round]
  <2>1. /\ pipe' = Append(pipe, l) /\ todo' = Tail(todo) /\ todo # <<>>
        /\ proc = "running"
        /\ UNCHANGED <<proc, round, stdin, bridge, line, gaveUp, output, input, session,
                       question, given, tries, outcome>>
    BY <1>1 DEF Write
  <2>2. Head(todo) \in Name
    BY <2>1, SeqTake DEF Typed
  <2>3. l \in Line /\ l.name = Head(todo)
    BY <1>1, <2>2, DialogAssumption DEF Write, Line, Typed, DialogAssumption
  <2> HIDE DEF l
  <2>4. ASSUME Live PROVE pipe' \in Seq(L) /\ todo' \in Seq(N)
    <3>1. todo \in Seq(N) /\ pipe \in Seq(L)
      BY <1>0, <2>1, <2>4 DEF FewLive
    <3>2. Head(todo) \in N /\ Tail(todo) \in Seq(N)
      BY <2>1, <3>1, SeqTake
    <3>3. l \in L
      BY <2>3, <3>2 DEF FewLine, FewName
    <3> HIDE DEF N, L
    <3> QED
      BY <2>1, <3>1, <3>2, <3>3, SeqPut
  <2> QED
    BY <1>0, <2>1, <2>4 DEF FewInv, FewLive, Live, Pictures, Messages, Pending
<1>2. CASE ReadLine
  <2>1. PICK o \in Round(script, round + 1, stdin.name) : todo' = o.say
    BY <1>2 DEF ReadLine
  <2>2. /\ stdin # None /\ stdin' = None /\ round' = round + 1
        /\ UNCHANGED <<pipe, bridge, line, gaveUp, output, input, session,
                       question, given, tries, outcome>>
    BY <1>2 DEF ReadLine
  <2>3. ASSUME Live PROVE todo' \in Seq(N)
    <3>1. MayRead(stdin.name, given, Pictures, Messages)
      BY <1>0, <2>2, <2>3 DEF FewLive, FewReply
    <3> QED
      BY <1>0, <2>1, <3>1, FewSays
  <2>4. Pending = 1 /\ Pending' = 0
    BY <2>2 DEF Pending
  <2> QED
    BY <1>0, <2>2, <2>3, <2>4 DEF FewInv, FewLive, Live, Pictures, Messages
<1>3. CASE Block \/ Exit
  BY <1>0, <1>3 DEF Block, Exit, FewInv, FewLive, Live, Pictures, Messages, Pending
<1>4. CASE Die
  <2>1. /\ todo' \in {<<>>, <<"noise">>, <<"fail">>}
        /\ UNCHANGED <<proc, round, pipe, stdin, bridge, line, gaveUp, output, input, session,
                       question, given, tries, outcome>>
    BY <1>4 DEF Die
  <2>2. "noise" \in N /\ "fail" \in N
    BY DEF FewName, Name, Final, Ask
  <2>4. <<>> \in Seq(N) /\ <<"noise">> \in Seq(N) /\ <<"fail">> \in Seq(N)
    BY <2>2, SayOne
  <2>3. todo' \in Seq(N)
    BY <2>1, <2>4
  <2> QED
    BY <1>0, <2>1, <2>3 DEF FewInv, FewLive, Live, Pictures, Messages, Pending
<1>5. CASE Start \/ Reap \/ Kill
  <2>1. /\ UNCHANGED <<todo, round, pipe, stdin, line, output, input, session,
                       question, given, tries, outcome>>
        /\ gaveUp = "timeout" <=> gaveUp' = "timeout"
        /\ Live' => Live /\ bridge' = "read" /\ proc # "gone"
    BY <1>5 DEF Start, Reap, Kill, Live, Open, HangInv, Finished
  <2> QED
    BY <1>0, <2>1 DEF FewInv, FewLive, Pictures, Messages, Pending
<1>6. CASE Timeout
  <2>1. /\ bridge = "wait" /\ gaveUp' = "timeout" /\ bridge' = "reap"
        /\ UNCHANGED <<round, given, tries>>
    BY <1>6 DEF Timeout
  <2>2. gaveUp # "timeout"
    BY <2>1 DEF HangInv, Finished
  <2>3. round \in Nat /\ round <= 10 /\ round' = round
    BY <1>0, <2>1, <2>2
  <2>4. Pending' \in Nat /\ Pending' <= 1
    BY DEF Pending
  <2>5. round' + Pending' <= 11
    BY <2>3 DEF Pending
  <2>6. ~Live'
    BY <2>1 DEF Live
  <2> QED
    BY <1>0, <2>1, <2>5, <2>6 DEF FewInv
<1>7. CASE ReadPipe
  <2>1. /\ UNCHANGED <<todo, proc, round, stdin, gaveUp, output, input, session,
                       question, given, tries, outcome>>
        /\ bridge = "read" /\ pipe # <<>> /\ line' = Head(pipe) /\ pipe' = Tail(pipe)
    BY <1>7 DEF ReadPipe
  <2>2. Live /\ FewLive
    BY <1>0, <2>1 DEF Live
  <2>3. line' \in L /\ pipe' \in Seq(L)
    BY <2>1, <2>2, SeqTake DEF FewLive
  <2> QED
    BY <1>0, <2>1, <2>2, <2>3 DEF FewInv, FewLive, Pictures, Messages, Pending
<1>8. CASE ReadError \/ Send
  <2>1. /\ UNCHANGED <<todo, proc, round, pipe, stdin, line, gaveUp, input, session,
                       question, given, tries, outcome>>
        /\ bridge \in {"read", "send"} /\ bridge' # "send"
        /\ \/ \E l \in {Fail, Renamed} : output' = Append(output, l)
           \/ bridge = "send" /\ output' = Append(output, line)
    BY <1>8 DEF ReadError, Send, ToOutput, Fail, Renamed
  <2>2. Live /\ FewLive
    BY <1>0, <2>1 DEF Live
  <2>3. Fail \in L /\ Renamed \in L /\ (bridge = "send" => line \in L)
    BY <2>2, FailTyped DEF FewLine, Ask, FewLive
  <2>4. output' \in Seq(L)
    BY <2>1, <2>2, <2>3, SeqPut DEF FewLive
  <2> QED
    BY <1>0, <2>1, <2>2, <2>4 DEF FewInv, FewLive, Pictures, Messages, Pending
<1>9. CASE TakeAnswer
  <2>a. bridge = "wait" /\ input # <<>>
    BY <1>9 DEF TakeAnswer
  <2>2. Live /\ FewLive
    BY <1>0, <2>a DEF Live
  <2>b. Head(input) \in Reply
    BY <2>a, <2>2, SeqTake DEF FewLive, FewReply
  <2>c. Head(input) # Finish
    BY <2>b, DialogAssumption DEF Reply, Finish, DialogAssumption
  <2>1. /\ UNCHANGED <<todo, proc, round, pipe, line, gaveUp, output, session,
                       question, given, tries, outcome>>
        /\ bridge = "wait" /\ bridge' = "read"
        /\ input # <<>> /\ stdin' = Head(input) /\ input' = Tail(input)
    BY <1>9, <2>c DEF TakeAnswer
  <2>3. stdin' \in R /\ input' \in Seq(R)
    BY <2>1, <2>2, SeqTake DEF FewLive
  <2>4. Len(input') = Len(input) - 1
    BY <2>1, HeadTailProperties DEF Typed
  <2>5. Pending' \in Nat /\ Pending' <= 1
    BY DEF Pending
  <2>6. round + Pending' + Len(input') <= given /\ round + Pending' <= 10
    <3>1. Len(input) >= 1
      BY <1>0, <2>1, EmptySeq DEF Typed
    <3>2. /\ round + Pending + Len(input) <= given
          /\ given <= 2 + Pictures + Messages /\ Pictures <= 4 /\ Messages <= 4
      BY <2>2 DEF FewLive
    <3> QED
      BY <1>0, <2>4, <3>1, <3>2 DEF Pending
  <2>7. Pictures' = Pictures /\ Messages' = Messages
    BY <2>1 DEF Pictures, Messages
  <2>8. FewLive'
    BY <2>1, <2>2, <2>3, <2>6, <2>7 DEF FewLive
  <2>9. round' + Pending' <= 10 + IF gaveUp' = "timeout" THEN 1 ELSE 0
    BY <1>0, <2>1, <2>6 DEF HangInv, Pending
  <2> QED
    BY <1>0, <2>1, <2>8, <2>9 DEF FewInv
<1>10. CASE ReadChan
  <2>1. /\ UNCHANGED <<todo, proc, round, pipe, stdin, bridge, line, gaveUp, input, given>>
        /\ session = "reading" /\ output # <<>> /\ output' = Tail(output)
    BY <1>10 DEF ReadChan
  <2>2. Live' = Live /\ Pending' = Pending
    BY <2>1 DEF Live, Pending
  <2>3. CASE Head(output).name \notin Ask
    <3>1. UNCHANGED <<question, tries>> /\ session' # "answering"
      BY <1>10, <2>3 DEF ReadChan
    <3>2. Live => output' \in Seq(L)
      BY <1>0, <2>1, SeqTake DEF FewLive
    <3>3. Pictures' = Pictures /\ Messages' = Messages
      BY <3>1 DEF Pictures, Messages
    <3> QED
      BY <1>0, <2>1, <2>2, <3>1, <3>2, <3>3 DEF FewInv, FewLive
  <2>4. CASE Head(output).name \in Ask /\ ~Live
    <3>1. tries' \in [{"picture", "message"} -> Nat]
      BY <1>0, <1>10, <2>4 DEF ReadChan, Count
    <3> QED
      BY <1>0, <2>1, <2>2, <2>4, <3>1 DEF FewInv
  <2>5. CASE Head(output).name \in Ask /\ Live
    <3>1. session' = "answering" /\ question' = Head(output) /\ Count(Head(output))
      BY <1>10, <2>5 DEF ReadChan
    <3>2. MayAsk(Head(output).name, given, Pictures, Messages)
      <4>1. Head(output) \in L
        BY <1>0, <2>1, <2>5, SeqTake DEF FewLive
      <4> QED
        BY <2>5, <4>1 DEF FewLine
    <3>3. /\ tries' \in [{"picture", "message"} -> Nat]
          /\ given <= 2 + Pictures' + Messages' /\ Pictures' <= 4 /\ Messages' <= 4
          /\ outcome' = "none" => MayAnswer(Head(output).name, given, Pictures', Messages')
      BY <1>0, <2>5, <3>1, <3>2, FewCounts DEF FewLive
    <3>4. ~NoAskIn(output)
      BY <2>1, <2>5, AtTail DEF NoAskIn, Typed
    <3>5. /\ bridge = "wait" /\ stdin = None /\ input = <<>>
          /\ proc # "gone" => todo \in Seq(FewName(given, Pictures', Messages'))
          /\ pipe \in Seq(FewLine(given, Pictures', Messages'))
      BY <2>5, <3>4, NothingAsked
    <3>6. Tail(output) = <<>>
      BY <2>1, <2>5, OneAsked
    <3>7. output' \in Seq(FewLine(given, Pictures', Messages'))
      BY <2>1, <3>6, SayOne
    <3>8. input \in Seq(FewReply(given, Pictures', Messages'))
      BY <3>5, SayOne
    <3>9. round + Pending + Len(input) <= given
      BY <1>0, <2>5 DEF FewLive
    <3> QED
      BY <1>0, <2>1, <2>2, <3>1, <3>3, <3>5, <3>7, <3>8, <3>9 DEF FewInv, FewLive
  <2> QED
    BY <2>3, <2>4, <2>5
<1>11. CASE WriteCasper
  <2>1. /\ UNCHANGED <<todo, proc, round, pipe, stdin, bridge, line, gaveUp, output,
                       question, tries, outcome>>
        /\ session = "answering" /\ outcome = "none" /\ session' = "away"
        /\ given' = given + 1
    BY <1>11 DEF WriteCasper
  <2>2. PICK a \in Answers(script, question.name) : input' = Append(input, ReplyOf(a))
    BY <1>11 DEF WriteCasper, ReplyOf
  <2>3. Live' = Live /\ Pending' = Pending /\ Pictures' = Pictures /\ Messages' = Messages
    BY <2>1 DEF Live, Pending, Pictures, Messages
  <2>4. ASSUME Live PROVE FewLive'
    <3> DEFINE r == ReplyOf(a)
    <3>1. MayRead(a, given + 1, Pictures, Messages) /\ given + 1 <= 2 + Pictures + Messages
      BY <1>0, <2>1, <2>4, FewReplies DEF FewLive
    <3>n. r = [name |-> a, of |-> question.of] /\ a # "finish"
      BY <3>1 DEF MayRead, ReplyOf
    <3>2. r \in Reply
      BY <2>1, <2>2, <3>n, ReplyTyped
    <3>3. r \in FewReply(given', Pictures, Messages) /\ r \in Reply
      BY <2>1, <3>1, <3>2, <3>n DEF FewReply
    <3>4. /\ bridge = "wait" /\ stdin = None /\ input = <<>>
          /\ proc # "gone" => todo \in Seq(FewName(given', Pictures, Messages))
          /\ pipe \in Seq(FewLine(given', Pictures, Messages))
      BY <2>1, <2>4, NothingAsked
    <3>5. NoAskIn(output)
      BY <2>1, <2>4, OneAsked
    <3>6. output \in Seq(FewLine(given', Pictures, Messages))
      BY <3>5, NoAskLines DEF Typed
    <3> HIDE DEF r
    <3>7. input' \in Seq(FewReply(given', Pictures, Messages)) /\ Len(input') = Len(input) + 1
      <4>1. Append(input, r) = <<r>> /\ Len(<<r>>) = 1 /\ Len(<<>>) = 0
        BY <3>4
      <4>2. input' = <<r>>
        BY <2>2, <4>1 DEF r
      <4> QED
        BY <3>3, <3>4, <4>1, <4>2, SayOne
    <3>8. round + Pending + Len(input') <= given'
      BY <1>0, <2>1, <2>4, <3>7 DEF FewLive
    <3> QED
      BY <1>0, <2>1, <2>3, <2>4, <3>1, <3>4, <3>6, <3>7, <3>8 DEF FewLive
  <2> QED
    BY <1>0, <2>1, <2>3, <2>4 DEF FewInv
<1>12. CASE ReadCasper \/ Leave
  BY <1>0, <1>12 DEF ReadCasper, Leave, FewInv, FewLive, Live, Pictures, Messages, Pending
<1>13. CASE UNCHANGED vars
  BY <1>0, <1>13 DEF vars, FewInv, FewLive, Live, Pictures, Messages, Pending
<1> QED
  BY <1>1, <1>2, <1>3, <1>4, <1>5, <1>6, <1>7, <1>8, <1>9, <1>10, <1>11, <1>12, <1>13
  DEF Next, GoesOn, Run, Template

(* A script asks only what it has a round left to read the answer to: the  *)
(* counters of the templates allow ten answers, casper.repeat twenty       *)
(* (jd_buyer.js:25, gjp_login.js:43), and the shorter scripts end in     *)
(* their last round.                                                       *)
THEOREM RoundsSufficeHolds == Spec => []RoundsSuffice
<1>1. DInv /\ RestInv /\ FewInv => RoundsSuffice
  <2> SUFFICES ASSUME Typed, RestInv, FewInv, end = "no", script # "jd_shop"
               PROVE  round < Rounds(script)
    BY DEF DInv, RoundsSuffice
  <2>1. CASE script \in Counting
    <3>1. Rounds(script) = 20
      BY <2>1 DEF Rounds, Counting
    <3>2. round \in Nat /\ Pending \in Nat /\ Pending <= 1
      BY DEF Typed, Pending
    <3> QED
      BY <2>1, <3>1, <3>2 DEF FewInv
  <2>2. CASE script \notin Counting
    BY <2>2 DEF RestInv
  <2> QED
    BY <2>1, <2>2
<1> QED
  BY <1>1, BridgeInit, BridgeStep, JdInit, JdStep, LongInit, LongStep, HangInit, HangStep,
     FewInit, RestStep,
     FewStep, DialogInvariant, PTL DEF Spec
=============================================================================
