------------------------- MODULE CasperBridgeProofs -------------------------
(***************************************************************************)
(* Proofs about CasperBridge, for every capacity and every number of       *)
(* lines: a question gets its own answer, and a template blocks for ever   *)
(* only in the named cases.                                                *)
(***************************************************************************)
EXTENDS CasperBridge, SequenceTheorems, TLAPS

-----------------------------------------------------------------------------
(* Lemmas about the sequences of lines                                     *)

LEMMA AppendLine ==
  ASSUME NEW s \in Seq(Line), NEW l \in Line
  PROVE  /\ Append(s, l) \in Seq(Line)
         /\ Len(Append(s, l)) = Len(s) + 1
         /\ Append(s, l)[Len(Append(s, l))] = l
         /\ Append(s, l) # <<>>
         /\ NoQuestion(s) /\ l.kind \notin Question => NoQuestion(Append(s, l))
         /\ NoQuestion(s) /\ (l.kind \in Question => l.of = asked)
                => OnlyLastAsks(Append(s, l))
         /\ OneAsks(s) /\ l.kind \notin Question => OneAsks(Append(s, l))
         /\ ~ NoQuestion(Append(s, l)) /\ l.kind \notin Question => ~ NoQuestion(s)
<1> DEFINE t == Append(s, l)
<1>1. /\ t \in Seq(Line) /\ Len(t) = Len(s) + 1
      /\ \A i \in 1..Len(s) : t[i] = s[i]
      /\ t[Len(s) + 1] = l
  BY AppendProperties
<1>2. DOMAIN t = 1..Len(s) + 1 /\ DOMAIN s = 1..Len(s) /\ Len(s) \in Nat
  BY <1>1
<1> HIDE DEF t
<1>3. \A i \in DOMAIN t : i = Len(t) \/ (i \in DOMAIN s /\ t[i] = s[i])
  BY <1>1, <1>2
<1>4. NoQuestion(s) /\ l.kind \notin Question => NoQuestion(t)
  BY <1>1, <1>3 DEF NoQuestion
<1>5. NoQuestion(s) /\ (l.kind \in Question => l.of = asked) => OnlyLastAsks(t)
  BY <1>1, <1>3 DEF NoQuestion, OnlyLastAsks, OneAsks
<1>6. t # <<>>
  BY <1>1, <1>2
<1>7. OneAsks(s) /\ l.kind \notin Question => OneAsks(t)
  BY <1>1, <1>3 DEF OneAsks
<1> QED BY <1>1, <1>4, <1>5, <1>6, <1>7 DEF t

LEMMA HeadLine ==
  ASSUME NEW s \in Seq(Line), s # <<>>
  PROVE  /\ Head(s) \in Line
         /\ Tail(s) \in Seq(Line)
         /\ Len(Tail(s)) = Len(s) - 1
         /\ Len(s) >= 1
         /\ NoQuestion(s) => NoQuestion(Tail(s)) /\ Head(s).kind \notin Question
         /\ OnlyLastAsks(s) => OnlyLastAsks(Tail(s))
         /\ OnlyLastAsks(s) /\ Head(s).kind \in Question
                => Head(s).of = asked /\ Tail(s) = <<>> /\ NoQuestion(Tail(s))
         /\ ~ NoQuestion(Tail(s)) => ~ NoQuestion(s)
         /\ OneAsks(s) => OneAsks(Tail(s))
         /\ OneAsks(s) /\ Head(s).kind \in Question
                => Head(s).of = asked /\ NoQuestion(Tail(s)) /\ ~ NoQuestion(s)
         /\ Tail(s) # <<>> => Tail(s)[Len(Tail(s))] = s[Len(s)]
         /\ Tail(s) = <<>> => Head(s) = s[Len(s)]
<1> DEFINE t == Tail(s)
<1>1. /\ Head(s) = s[1] /\ t \in Seq(Line) /\ Len(t) = Len(s) - 1
      /\ \A i \in 1..Len(t) : t[i] = s[i + 1]
  BY HeadTailProperties
<1>2. Len(s) \in Nat /\ Len(s) >= 1 /\ DOMAIN s = 1..Len(s) /\ DOMAIN t = 1..Len(t)
  BY <1>1, EmptySeq
<1>3. Head(s) \in Line
  BY <1>1, <1>2
<1> HIDE DEF t
<1>4. \A i \in DOMAIN t : i + 1 \in DOMAIN s /\ t[i] = s[i + 1] /\ i \in Nat
  BY <1>1, <1>2
<1>5. NoQuestion(s) => NoQuestion(t) /\ Head(s).kind \notin Question
  BY <1>1, <1>2, <1>4 DEF NoQuestion
<1>6. OnlyLastAsks(s) => OnlyLastAsks(t)
  BY <1>1, <1>2, <1>4 DEF OnlyLastAsks
<1>7. ASSUME OnlyLastAsks(s), Head(s).kind \in Question
      PROVE  Head(s).of = asked /\ t = <<>> /\ NoQuestion(t)
  <2>1. Len(s) = 1 /\ Head(s).of = asked
    BY <1>1, <1>2, <1>7 DEF OnlyLastAsks
  <2>2. t = <<>>
    BY <1>1, <2>1
  <2> QED BY <2>1, <2>2 DEF NoQuestion
<1>8. ~ NoQuestion(t) => ~ NoQuestion(s)
  BY <1>5
<1>9. t # <<>> => t[Len(t)] = s[Len(s)]
  BY <1>1, <1>2
<1>10. t = <<>> => Head(s) = s[Len(s)]
  BY <1>1, <1>2
<1>11. OneAsks(s) => OneAsks(t)
  <2> SUFFICES ASSUME OneAsks(s), NEW i \in DOMAIN t, NEW j \in DOMAIN t,
                      t[i].kind \in Question, t[j].kind \in Question
               PROVE  i = j /\ t[i].of = asked
    BY DEF OneAsks
  <2>1. i + 1 = j + 1 /\ s[i + 1].of = asked
    BY <1>4 DEF OneAsks
  <2> QED BY <1>4, <2>1
<1>12. ASSUME OneAsks(s), Head(s).kind \in Question
       PROVE  Head(s).of = asked /\ NoQuestion(t) /\ ~ NoQuestion(s)
  <2>1. 1 \in DOMAIN s /\ s[1].kind \in Question /\ ~ NoQuestion(s)
    BY <1>1, <1>2, <1>12 DEF NoQuestion
  <2>2. \A i \in DOMAIN t : i + 1 # 1
    BY <1>4
  <2>3. NoQuestion(t)
    BY <1>4, <1>12, <2>1, <2>2 DEF OneAsks, NoQuestion
  <2> QED BY <1>1, <1>12, <2>1, <2>3 DEF OneAsks
<1> QED BY <1>1, <1>2, <1>3, <1>5, <1>6, <1>7, <1>8, <1>9, <1>10, <1>11, <1>12 DEF t

(* inputChan holds answers.                                                *)
LEMMA InputOps ==
  ASSUME NEW s \in Seq(Answers)
  PROVE  /\ \A q \in Answers : /\ Append(s, q) \in Seq(Answers)
                               /\ Len(Append(s, q)) = Len(s) + 1
                               /\ s = <<>> => Append(s, q) = <<q>>
         /\ s # <<>> => /\ Head(s) \in Answers
                        /\ Tail(s) \in Seq(Answers)
                        /\ Len(Tail(s)) = Len(s) - 1
<1>1. ASSUME NEW q \in Answers
      PROVE  /\ Append(s, q) \in Seq(Answers)
             /\ Len(Append(s, q)) = Len(s) + 1
             /\ s = <<>> => Append(s, q) = <<q>>
  <2>1. Append(s, q) \in Seq(Answers) /\ Len(Append(s, q)) = Len(s) + 1
    BY AppendProperties
  <2>2. Append(<<>>, q) = <<q>>
    OBVIOUS
  <2> QED BY <2>1, <2>2
<1>2. s # <<>> => /\ Tail(s) \in Seq(Answers)
                  /\ Len(Tail(s)) = Len(s) - 1
                  /\ Head(s) = s[1]
  BY HeadTailProperties
<1>3. ASSUME s # <<>> PROVE s[1] \in Answers
  <2>1. Len(s) \in Nat /\ Len(s) # 0
    BY <1>3, EmptySeq
  <2>2. 1 \in 1..Len(s)
    BY <2>1
  <2> QED BY <2>2, ElementOfSeq
<1> QED BY <1>1, <1>2, <1>3

(* A process that runs has no question on its way.                         *)
LEMMA NoneRunning ==
  ASSUME IInv, Live, proc = "running"
  PROVE  /\ NoQuestion(pipe) /\ NoQuestion(output) /\ ~ Waiting
         /\ bridge = "send" => line.kind \notin Question
         /\ session # "answering" /\ input = <<>>
<1>1. InPipe /\ InRun /\ BeforeTheWait /\ InTheWait
  BY DEF IInv, OneQuestion
<1>2. ~ Waiting /\ NoQuestion(pipe)
  BY <1>1 DEF InTheWait, InPipe
<1> QED BY <1>1, <1>2 DEF InRun, BeforeTheWait

(* The line of a new question comes last in the pipe.                      *)
LEMMA AppendAsked ==
  ASSUME NEW s \in Seq(Line), NEW l \in Line, NoQuestion(s), l.of = asked',
         pipe' = Append(s, l)
  PROVE  OneAsks(pipe)'
<1>1. /\ Append(s, l) \in Seq(Line) /\ Len(Append(s, l)) = Len(s) + 1
      /\ \A i \in 1..Len(s) : Append(s, l)[i] = s[i]
      /\ Append(s, l)[Len(s) + 1] = l
  BY AppendProperties
<1>2. DOMAIN pipe' = 1..Len(s) + 1 /\ DOMAIN s = 1..Len(s) /\ Len(s) \in Nat
      /\ Len(pipe') = Len(s) + 1
  BY <1>1
<1>3. \A i \in DOMAIN pipe' : i = Len(s) + 1 \/ (i \in DOMAIN s /\ pipe'[i] = s[i])
  BY <1>1, <1>2
<1>4. pipe'[Len(s) + 1].of = asked'
  BY <1>1
<1> QED BY <1>2, <1>3, <1>4 DEF OneAsks, NoQuestion

-----------------------------------------------------------------------------
LEMMA InitIInv == Init => IInv
<1> SUFFICES ASSUME Init PROVE IInv
  OBVIOUS
<1> USE BridgeAssumption DEF BridgeAssumption
<1>1. TypeOK
  <2>1. <<>> \in Seq(Line) /\ <<>> \in Seq(Answers) /\ Len(<<>>) = 0
    OBVIOUS
  <2>2. line \in Line
    BY DEF Init, Line, Kind
  <2> QED BY <2>1, <2>2 DEF Init, TypeOK, None
<1>2. RightAnswer
  BY DEF Init, RightAnswer
<1>3. OneQuestion
  BY DEF Init, OneQuestion, InPipe, InRun, BeforeTheWait, InTheWait, Waiting,
         NoQuestion, OnlyLastAsks, OneAsks
<1>4. LastLineComes /\ ProcessKnown
  BY DEF Init, LastLineComes, ProcessKnown, Live
<1> QED BY <1>1, <1>2, <1>3, <1>4 DEF IInv

LEMMA StepIInv == IInv /\ [Next]_vars => IInv'
<1> SUFFICES ASSUME IInv, [Next]_vars PROVE IInv'
  OBVIOUS
<1> USE BridgeAssumption DEF BridgeAssumption
<1>types. /\ pipe \in Seq(Line) /\ output \in Seq(Line) /\ line \in Line
          /\ input \in Seq(Answers) /\ Len(pipe) \in Nat /\ Len(output) \in Nat
          /\ Len(input) \in Nat
  BY DEF IInv, TypeOK
<1> USE DEF bridgeVars, sessionVars, procVars
<1>1. ASSUME NEW k \in Kind \ Question, Say(k) PROVE IInv'
  <2> DEFINE l == [kind |-> k, of |-> 0]
  <2>1. l \in Line /\ l.kind \notin Question
    BY DEF Line
  <2>2. /\ proc \in {"running", "asking"} /\ lines < MaxLines /\ Len(pipe) < PipeCap
        /\ pipe' = Append(pipe, l) /\ lines' = lines + 1
        /\ UNCHANGED <<proc, asked, stdin, bridgeVars, output, input, sessionVars>>
    BY <1>1 DEF Say, Emit
  <2> HIDE DEF l
  <2>3. TypeOK'
    BY <1>types, <2>1, <2>2, AppendLine DEF IInv, TypeOK
  <2>4. /\ OneAsks(pipe) => OneAsks(pipe')
        /\ NoQuestion(pipe) => NoQuestion(pipe')
        /\ ~ NoQuestion(pipe') => ~ NoQuestion(pipe)
    BY <1>types, <2>1, <2>2, AppendLine
  <2>5. OneQuestion'
    BY <2>2, <2>4 DEF IInv, OneQuestion, InPipe, InRun, BeforeTheWait, InTheWait, Live, Waiting, OnlyLastAsks, OneAsks, NoQuestion
  <2>6. RightAnswer' /\ LastLineComes' /\ ProcessKnown'
    BY <2>2 DEF IInv, RightAnswer, LastLineComes, ProcessKnown, Live
  <2> QED BY <2>3, <2>5, <2>6 DEF IInv
<1>2. ASSUME NEW k \in Question, Ask(k) PROVE IInv'
  <2> DEFINE l == [kind |-> k, of |-> asked + 1]
  <2>1. /\ proc = "running" /\ lines < MaxLines /\ Len(pipe) < PipeCap
        /\ pipe' = Append(pipe, l) /\ lines' = lines + 1
        /\ asked' = asked + 1 /\ proc' = "asking"
        /\ UNCHANGED <<stdin, bridgeVars, output, input, sessionVars>>
    BY <1>2 DEF Ask, Emit
  <2>2. l \in Line /\ l.of = asked'
    BY <2>1 DEF Line, Question, Kind, IInv, TypeOK
  <2> HIDE DEF l
  <2>3. TypeOK'
    BY <1>types, <2>1, <2>2, AppendLine DEF IInv, TypeOK
  <2>4. stdin = None
    BY <2>1 DEF IInv, RightAnswer
  <2>5. Live => OneAsks(pipe)'
    BY <1>types, <2>1, <2>2, NoneRunning, AppendAsked
  <2>6. OneQuestion'
    BY <2>1, <2>4, <2>5, NoneRunning DEF IInv, OneQuestion, InPipe, InRun, BeforeTheWait, InTheWait, Live, Waiting
  <2>7. RightAnswer' /\ LastLineComes' /\ ProcessKnown'
    BY <2>1, <2>4 DEF IInv, RightAnswer, LastLineComes, ProcessKnown, Live
  <2> QED BY <2>3, <2>6, <2>7 DEF IInv
<1>3. CASE ReadLine
  <2>0. proc = "asking"
    BY <1>3 DEF ReadLine, IInv, RightAnswer
  <2>1. TypeOK' /\ RightAnswer' /\ LastLineComes' /\ ProcessKnown'
    BY <1>3, <2>0 DEF ReadLine, IInv, TypeOK, None, RightAnswer, LastLineComes, ProcessKnown, Live
  <2>2. OneQuestion'
    BY <1>3, <2>0 DEF ReadLine, IInv, OneQuestion, InPipe, InRun, BeforeTheWait, InTheWait, Live, Waiting, OnlyLastAsks, OneAsks
  <2> QED BY <2>1, <2>2 DEF IInv
<1>4. CASE Exit
  <2>1. TypeOK' /\ RightAnswer' /\ LastLineComes' /\ ProcessKnown'
    BY <1>4 DEF Exit, IInv, TypeOK, RightAnswer, LastLineComes, ProcessKnown, Live
  <2>2. OneQuestion'
    BY <1>4 DEF Exit, IInv, OneQuestion, InPipe, InRun, BeforeTheWait, InTheWait, Live, Waiting, OnlyLastAsks, OneAsks
  <2> QED BY <2>1, <2>2 DEF IInv
<1>5. CASE Start
  <2>1. TypeOK' /\ RightAnswer' /\ LastLineComes' /\ ProcessKnown'
    BY <1>5 DEF Start, IInv, TypeOK, RightAnswer, LastLineComes, ProcessKnown, Live
  <2>2. OneQuestion'
    BY <1>5 DEF Start, IInv, ProcessKnown, RightAnswer, OneQuestion, InPipe, InRun, BeforeTheWait, InTheWait, Live, Waiting, OnlyLastAsks, OneAsks
  <2> QED BY <2>1, <2>2 DEF IInv
<1>6. CASE ReadPipe
  <2>1. /\ bridge = "read" /\ bridge' = "send"
        /\ line' = Head(pipe) /\ pipe' = Tail(pipe) /\ pipe # <<>>
        /\ UNCHANGED <<procVars, stdin, output, input, sessionVars, gaveUp>>
    BY <1>6 DEF ReadPipe
  <2>2. TypeOK'
    BY <1>types, <2>1, HeadLine DEF IInv, TypeOK
  <2>3. RightAnswer' /\ LastLineComes' /\ ProcessKnown'
    BY <2>1 DEF IInv, RightAnswer, LastLineComes, ProcessKnown, Live
  <2>4. InPipe
    BY <2>1 DEF IInv, OneQuestion, Live
  <2>5. OneAsks(pipe)' /\ (~ NoQuestion(pipe)' => ~ NoQuestion(pipe))
    BY <1>types, <2>1, <2>4, HeadLine DEF InPipe, OneAsks
  <2>6. line'.kind \in Question =>
          line'.of = asked /\ NoQuestion(pipe)' /\ ~ NoQuestion(pipe)
    BY <1>types, <2>1, <2>4, HeadLine DEF InPipe
  <2>7. OneQuestion'
    BY <2>1, <2>4, <2>5, <2>6 DEF IInv, OneQuestion, InPipe, InRun, BeforeTheWait, InTheWait, Live, Waiting
  <2> QED BY <2>2, <2>3, <2>7 DEF IInv
<1>7. CASE ReadError
  <2> DEFINE l == [kind |-> "last", of |-> 0]
  <2>1. l \in Line /\ l.kind = "last"
    BY DEF Line, Kind
  <2>2. /\ bridge = "read" /\ bridge' = "kill" /\ Len(output) < Cap
        /\ output' = Append(output, l)
        /\ UNCHANGED <<procVars, pipe, stdin, line, input, sessionVars, gaveUp>>
    BY <1>7 DEF ReadError, ToOutput
  <2> HIDE DEF l
  <2>3. TypeOK' /\ LastLineComes'
    BY <1>types, <2>1, <2>2, AppendLine DEF IInv, TypeOK, LastLineComes
  <2>4. RightAnswer' /\ ProcessKnown' /\ OneQuestion'
    BY <2>2 DEF IInv, RightAnswer, ProcessKnown, OneQuestion, Live
  <2> QED BY <2>3, <2>4 DEF IInv
<1>8. CASE Send
  <2> DEFINE l == IF line.kind = "strange" THEN [line EXCEPT !.kind = "last"] ELSE line
  <2>1. /\ l \in Line
        /\ l.kind \in Question <=> line.kind \in Question
        /\ line.kind \in Question => l = line
        /\ line.kind \notin {"tell", "need", "randcode"} => l.kind = "last"
    BY <1>types DEF Line, Kind, Question
  <2>2. /\ bridge = "send" /\ Len(output) < Cap
        /\ output' = Append(output, l)
        /\ UNCHANGED <<procVars, pipe, stdin, line, input, sessionVars, gaveUp>>
    BY <1>8 DEF Send, ToOutput
  <2>3. /\ line.kind = "tell" => bridge' = "read"
        /\ line.kind = "need" => bridge' = "wait"
        /\ line.kind = "randcode" => bridge' = "waitlong"
        /\ line.kind \notin {"tell", "need", "randcode"} => bridge' = "reap"
    BY <1>8 DEF Send
  <2> HIDE DEF l
  <2>4. bridge' \in {"read", "wait", "waitlong", "reap"}
    BY <2>3
  <2>5. /\ TypeOK'
    BY <1>types, <2>1, <2>2, <2>4, AppendLine DEF IInv, TypeOK
  <2>6. LastLineComes'
    BY <1>types, <2>1, <2>2, <2>3, AppendLine DEF LastLineComes, Live
  <2>7. RightAnswer' /\ ProcessKnown'
    BY <2>2, <2>4 DEF IInv, RightAnswer, ProcessKnown
  <2>8. InPipe /\ InRun /\ NoQuestion(output) /\ session # "answering" /\ input = <<>>
    BY <2>2 DEF IInv, OneQuestion, InPipe, InRun, BeforeTheWait, InTheWait, Live, Waiting
  <2>9. CASE line.kind \in Question
    <3>1. OnlyLastAsks(output)' /\ Waiting'
      BY <1>types, <2>1, <2>2, <2>3, <2>8, <2>9, AppendLine
         DEF InRun, Waiting, Question, OnlyLastAsks
    <3>2. OneQuestion'
      BY <2>2, <2>8, <2>9, <3>1 DEF OneQuestion, InPipe, InRun, BeforeTheWait, InTheWait, Live, Waiting, OnlyLastAsks, OneAsks, NoQuestion
    <3> QED BY <2>5, <2>6, <2>7, <3>2 DEF IInv
  <2>10. CASE line.kind \notin Question
    <3>1. NoQuestion(output)' /\ ~ Waiting' /\ bridge' # "send"
      BY <1>types, <2>1, <2>2, <2>3, <2>8, <2>10, AppendLine
         DEF Waiting, Question, NoQuestion
    <3>2. OneQuestion'
      BY <2>2, <2>8, <3>1 DEF OneQuestion, InPipe, InRun, BeforeTheWait, InTheWait, Live, Waiting, OnlyLastAsks, OneAsks, NoQuestion
    <3> QED BY <2>5, <2>6, <2>7, <3>2 DEF IInv
  <2> QED BY <2>9, <2>10
<1>9. CASE TakeAnswer
  <2>1. /\ Waiting /\ input # <<>>
        /\ stdin' = Head(input) /\ input' = Tail(input)
        /\ UNCHANGED <<procVars, pipe, line, output, sessionVars>>
    BY <1>9 DEF TakeAnswer, Write, Waiting
  <2>2. Live /\ InPipe /\ InTheWait /\ input \in {<<asked>>, <<Finish>>}
    BY <2>1 DEF IInv, OneQuestion, Live, Waiting, InTheWait
  <2>3. /\ asked \in 0..MaxLines /\ Tail(input) = <<>>
        /\ Head(input) = asked \/ Head(input) = Finish
    <3>1. asked \in 0..MaxLines
      BY DEF IInv, TypeOK
    <3>2. CASE input = <<asked>>
      BY <3>1, <3>2
    <3>3. CASE input = <<Finish>>
      BY <3>1, <3>3
    <3> QED BY <2>2, <3>2, <3>3
  <2>4. NoQuestion(pipe) /\ NoQuestion(output) /\ session # "answering"
        /\ proc \in {"asking", "gone"}
    BY <2>1, <2>2 DEF InTheWait
  <2>5. \/ bridge' = "read" /\ gaveUp' = gaveUp
        \/ bridge' = "reap" /\ gaveUp' = "caller"
    BY <1>9 DEF TakeAnswer
  <2>6. TypeOK'
    BY <1>types, <2>1, <2>3, <2>5, InputOps DEF IInv, TypeOK, Finish
  <2>7. RightAnswer'
    BY <2>1, <2>3, <2>4 DEF RightAnswer
  <2>8. LastLineComes' /\ ProcessKnown'
    BY <2>1, <2>2, <2>5 DEF IInv, LastLineComes, ProcessKnown, Live
  <2>9. OneQuestion'
    BY <2>1, <2>3, <2>4, <2>5 DEF OneQuestion, InPipe, InRun, BeforeTheWait, InTheWait, Live, Waiting, OnlyLastAsks, OneAsks, NoQuestion
  <2> QED BY <2>6, <2>7, <2>8, <2>9 DEF IInv
<1>10. CASE Timeout
  <2>1. /\ bridge = "wait" /\ bridge' = "reap" /\ gaveUp' = "timeout"
        /\ stdin' = Finish
        /\ UNCHANGED <<procVars, pipe, line, output, sessionVars, input>>
    BY <1>10 DEF Timeout, Write
  <2>2. proc \in {"asking", "gone"}
    BY <2>1 DEF IInv, OneQuestion, Live, Waiting, InTheWait
  <2>3. TypeOK' /\ OneQuestion' /\ LastLineComes' /\ ProcessKnown'
    BY <2>1 DEF IInv, TypeOK, OneQuestion, LastLineComes, ProcessKnown, Live, Finish
  <2>4. RightAnswer'
    BY <2>1, <2>2 DEF RightAnswer
  <2> QED BY <2>3, <2>4 DEF IInv
<1>11. CASE Reap
  BY <1>11 DEF Reap, IInv, TypeOK, RightAnswer, OneQuestion, LastLineComes, ProcessKnown, Live
<1>12. CASE Kill
  BY <1>12 DEF Kill, IInv, TypeOK, RightAnswer, OneQuestion, LastLineComes, ProcessKnown, Live
<1>13. CASE ReadCasper
  <2>1. TypeOK' /\ RightAnswer' /\ LastLineComes' /\ ProcessKnown'
    BY <1>13 DEF ReadCasper, IInv, TypeOK, RightAnswer, LastLineComes, ProcessKnown, Live
  <2>2. OneQuestion'
    BY <1>13 DEF ReadCasper, IInv, OneQuestion, InPipe, InRun, BeforeTheWait, InTheWait, Live, Waiting, OnlyLastAsks, OneAsks
  <2> QED BY <2>1, <2>2 DEF IInv
<1>14. CASE ReadChan
  <2> DEFINE l == Head(output)
  <2>1. /\ session = "reading" /\ output # <<>> /\ output' = Tail(output)
        /\ UNCHANGED <<procVars, pipe, stdin, bridgeVars, input>>
    BY <1>14 DEF ReadChan
  <2>2. /\ l.kind \in Question => session' = "answering" /\ question' = l.of
        /\ l.kind = "last" => session' = "done"
        /\ l.kind \notin Question => session' \in {"done", "away"} /\ question' = question
    BY <1>14 DEF ReadChan, Question
  <2>3. l \in Line
    BY <1>types, <2>1, HeadLine
  <2> HIDE DEF l
  <2>4. l.of \in 0..MaxLines /\ session' \in {"away", "reading", "answering", "done"}
    BY <2>2, <2>3 DEF Line
  <2>5. TypeOK'
    BY <1>types, <2>1, <2>2, <2>4, HeadLine DEF IInv, TypeOK
  <2>6. RightAnswer' /\ ProcessKnown'
    BY <2>1 DEF IInv, RightAnswer, ProcessKnown
  <2>7. LastLineComes'
    BY <1>types, <2>1, <2>2, HeadLine DEF l, IInv, LastLineComes, Live
  <2>8. OneQuestion'
    <3>1. CASE Waiting
      <4>1. Live /\ InTheWait
        BY <3>1 DEF IInv, OneQuestion, Live, Waiting
      <4>2. OnlyLastAsks(output)'
        BY <1>types, <2>1, <3>1, <4>1, HeadLine DEF InTheWait, OnlyLastAsks
      <4>3. l.kind \in Question =>
              l.of = asked /\ NoQuestion(output)' /\ ~ NoQuestion(output)
        BY <1>types, <2>1, <3>1, <4>1, HeadLine DEF InTheWait, l, NoQuestion
      <4>4. NoQuestion(output) => NoQuestion(output)'
        BY <1>types, <2>1, HeadLine DEF NoQuestion
      <4> QED BY <2>1, <2>2, <3>1, <4>1, <4>2, <4>3, <4>4
              DEF IInv, OneQuestion, InPipe, InRun, BeforeTheWait, InTheWait, Live, Waiting, OnlyLastAsks, OneAsks
    <3>2. CASE ~ Waiting
      <4>1. Live => l.kind \notin Question /\ NoQuestion(output)'
        BY <1>types, <2>1, <3>2, HeadLine
           DEF l, IInv, OneQuestion, BeforeTheWait, NoQuestion
      <4> QED BY <2>1, <2>2, <3>2, <4>1 DEF IInv, OneQuestion, InPipe, InRun, BeforeTheWait, InTheWait, Live, Waiting, OnlyLastAsks, OneAsks
    <3> QED BY <3>1, <3>2
  <2> QED BY <2>5, <2>6, <2>7, <2>8 DEF IInv
<1>15. CASE WriteCasper
  <2>0. PICK a \in {question, Finish} : input' = Append(input, a)
    BY <1>15 DEF WriteCasper
  <2>1. /\ session = "answering" /\ session' = "away" /\ Len(input) < Cap
        /\ UNCHANGED <<procVars, pipe, stdin, bridgeVars, output, question>>
    BY <1>15 DEF WriteCasper
  <2>a. a \in Answers
    BY DEF IInv, TypeOK, Answers
  <2>2. TypeOK'
    BY <1>types, <2>0, <2>1, <2>a, InputOps DEF IInv, TypeOK
  <2>3. RightAnswer' /\ LastLineComes' /\ ProcessKnown'
    BY <2>1 DEF IInv, RightAnswer, LastLineComes, ProcessKnown, Live
  <2>4. Live => Waiting /\ InTheWait
    BY <2>1 DEF IInv, OneQuestion, BeforeTheWait
  <2>5. Live => input = <<>> /\ question = asked /\ NoQuestion(output)
    BY <2>1, <2>4 DEF InTheWait
  <2>6. Live => input' \in {<<asked>>, <<Finish>>}
    BY <1>types, <2>0, <2>5
  <2>7. OneQuestion'
    BY <2>1, <2>4, <2>5, <2>6 DEF IInv, OneQuestion, InPipe, InRun, BeforeTheWait, InTheWait, Live, Waiting, OnlyLastAsks, OneAsks, NoQuestion
  <2> QED BY <2>2, <2>3, <2>7 DEF IInv
<1>16. CASE Leave
  <2>1. TypeOK' /\ RightAnswer' /\ LastLineComes' /\ ProcessKnown'
    BY <1>16 DEF Leave, IInv, TypeOK, RightAnswer, LastLineComes, ProcessKnown, Live
  <2>2. OneQuestion'
    BY <1>16 DEF Leave, IInv, OneQuestion, InPipe, InRun, BeforeTheWait, InTheWait, Live, Waiting, OnlyLastAsks, OneAsks
  <2> QED BY <2>1, <2>2 DEF IInv
<1>17. CASE UNCHANGED vars
  BY <1>17 DEF vars, IInv, TypeOK, RightAnswer, LastLineComes, ProcessKnown, Live, OneQuestion, InPipe, InRun, BeforeTheWait, InTheWait, Live, Waiting, OnlyLastAsks, OneAsks
<1> QED BY <1>1, <1>2, <1>3, <1>4, <1>5, <1>6, <1>7, <1>8, <1>9, <1>10, <1>11,
           <1>12, <1>13, <1>14, <1>15, <1>16, <1>17
        DEF Next, Process, Run, Template

THEOREM BridgeInductive == Spec => []IInv
<1> QED BY InitIInv, StepIInv, PTL DEF Spec

-----------------------------------------------------------------------------
(* The properties                                                          *)

(* No late answer is ever taken for the answer to another question.        *)
THEOREM RightAnswerHolds == Spec => []RightAnswer
<1>1. IInv => RightAnswer
  BY DEF IInv
<1> QED BY BridgeInductive, <1>1, PTL

(* A template is left reading for ever only when Run ended without a line  *)
(* for it: after a timeout or an answer finish of the caller, or because   *)
(* the process did not start.                                              *)
THEOREM BlocksOnlyAfterGivingUpHolds == Spec => []BlocksOnlyAfterGivingUp
<1>1. IInv => BlocksOnlyAfterGivingUp
  BY DEF IInv, TypeOK, LastLineComes, BlocksOnlyAfterGivingUp, NoLineLeft, Live
<1> QED BY BridgeInductive, <1>1, PTL
=============================================================================
