------------------------- MODULE CasperDialogProofs -------------------------
(***************************************************************************)
(* Proofs about CasperDialog: whatever the tables of CasperScripts say, as *)
(* long as no script asks twice before it reads, every step of the dialog  *)
(* is a step of CasperBridge or leaves it alone.                           *)
(***************************************************************************)
EXTENDS CasperDialog, SequenceTheorems, TLAPS

(***************************************************************************)
(* A function applied to every element of a sequence                       *)
(***************************************************************************)

Mapped(f, s) == [i \in DOMAIN s |-> f[s[i]]]
Image(f, S) == {f[x] : x \in S}

LEMMA MappedTyped ==
    ASSUME NEW S, NEW f, NEW s \in Seq(S)
    PROVE  /\ Mapped(f, s) \in Seq(Image(f, S))
           /\ Len(Mapped(f, s)) = Len(s)
<1>1. DOMAIN s = 1..Len(s) /\ Len(s) \in Nat
    BY LenProperties
<1>2. \A i \in 1..Len(s) : s[i] \in S
    BY ElementOfSeq
<1>3. Mapped(f, s) = [i \in 1..Len(s) |-> f[s[i]]]
    BY <1>1 DEF Mapped
<1>4. Mapped(f, s) \in [1..Len(s) -> Image(f, S)]
    BY <1>2, <1>3 DEF Image
<1>5. Mapped(f, s) \in Seq(Image(f, S))
  <2>1. Mapped(f, s) \in UNION {[1..n -> Image(f, S)] : n \in Nat}
    BY <1>1, <1>4
  <2> QED
    BY <2>1, SeqDef, Zenon
<1>6. Len(Mapped(f, s)) = Len(s)
    BY <1>1, <1>4, <1>5, LenProperties
<1> QED
    BY <1>5, <1>6

LEMMA MappedLen ==
    ASSUME NEW S, NEW f, NEW s \in Seq(S)
    PROVE  Len(Mapped(f, s)) = Len(s)
BY MappedTyped

LEMMA MappedAt ==
    ASSUME NEW S, NEW f, NEW s \in Seq(S), NEW i \in 1..Len(s)
    PROVE  Mapped(f, s)[i] = f[s[i]]
BY LenProperties DEF Mapped

LEMMA MappedEmpty ==
    ASSUME NEW S, NEW f, NEW s \in Seq(S)
    PROVE  Mapped(f, s) = <<>> <=> s = <<>>
<1>1. Mapped(f, s) \in Seq(Image(f, S)) /\ Len(Mapped(f, s)) = Len(s)
    BY MappedTyped
<1> QED
    BY <1>1, EmptySeq, SeqEqual

LEMMA MappedAppend ==
    ASSUME NEW S, NEW f, NEW s \in Seq(S), NEW l \in S
    PROVE  Mapped(f, Append(s, l)) = Append(Mapped(f, s), f[l])
<1> DEFINE t == Append(s, l)
           b == Append(Mapped(f, s), f[l])
<1>1. /\ t \in Seq(S) /\ Len(t) = Len(s) + 1
      /\ \A i \in 1..Len(s) : t[i] = s[i]
      /\ t[Len(s) + 1] = l
    BY AppendProperties
<1>2. /\ Mapped(f, s) \in Seq(Image(f, S)) /\ Len(Mapped(f, s)) = Len(s) /\ Len(s) \in Nat
    BY MappedTyped, LenProperties
<1>3. f[l] \in Image(f, S)
    BY DEF Image
<1>4. /\ b \in Seq(Image(f, S)) /\ Len(b) = Len(s) + 1
      /\ \A i \in 1..Len(s) : b[i] = Mapped(f, s)[i]
      /\ b[Len(s) + 1] = f[l]
    BY <1>2, <1>3, AppendProperties
<1> HIDE DEF t, b
<1>5. Mapped(f, t) \in Seq(Image(f, S)) /\ Len(Mapped(f, t)) = Len(s) + 1
    BY <1>1, MappedTyped
<1>6. \A i \in 1..Len(s) + 1 : Mapped(f, t)[i] = b[i]
  <2> SUFFICES ASSUME NEW i \in 1..Len(s) + 1 PROVE Mapped(f, t)[i] = b[i]
    OBVIOUS
  <2>0. Mapped(f, t)[i] = f[t[i]]
    BY <1>1, MappedAt
  <2>1. CASE i = Len(s) + 1
    BY <2>0, <2>1, <1>1, <1>4
  <2>2. CASE i # Len(s) + 1
    <3>1. i \in 1..Len(s)
        BY <2>2, <1>2
    <3>2. Mapped(f, s)[i] = f[s[i]]
        BY <3>1, MappedAt
    <3> QED
        BY <2>0, <3>1, <3>2, <1>1, <1>4
  <2> QED
    BY <2>1, <2>2
<1>7. Mapped(f, t) = b
    BY <1>4, <1>5, <1>6, SeqEqual
<1> QED
    BY <1>7 DEF t, b

LEMMA MappedTake ==
    ASSUME NEW S, NEW f, NEW s \in Seq(S), s # <<>>
    PROVE  /\ Head(Mapped(f, s)) = f[Head(s)]
           /\ Tail(Mapped(f, s)) = Mapped(f, Tail(s))
<1> DEFINE a == Mapped(f, s)
           r == Tail(s)
<1>1. a \in Seq(Image(f, S)) /\ Len(a) = Len(s)
    BY MappedTyped
<1>2. Len(s) \in Nat \ {0} /\ a # <<>>
    BY MappedEmpty, EmptySeq
<1>0. ASSUME NEW i \in 1..Len(s) PROVE a[i] = f[s[i]]
    BY MappedAt
<1> HIDE DEF a, r
<1>3. /\ Head(s) = s[1] /\ r \in Seq(S) /\ Len(r) = Len(s) - 1
      /\ \A i \in 1..Len(r) : r[i] = s[i + 1]
    BY HeadTailProperties DEF r
<1>4. /\ Head(a) = a[1] /\ Tail(a) \in Seq(Image(f, S)) /\ Len(Tail(a)) = Len(s) - 1
      /\ \A i \in 1..Len(Tail(a)) : Tail(a)[i] = a[i + 1]
    BY <1>1, HeadTailProperties
<1>5. Head(a) = f[Head(s)]
    BY <1>0, <1>2, <1>3, <1>4
<1>6. Mapped(f, r) \in Seq(Image(f, S)) /\ Len(Mapped(f, r)) = Len(s) - 1
    BY <1>3, MappedTyped
<1>7. \A i \in 1..Len(s) - 1 : Tail(a)[i] = Mapped(f, r)[i]
  <2> SUFFICES ASSUME NEW i \in 1..Len(s) - 1
               PROVE  Tail(a)[i] = Mapped(f, r)[i]
    OBVIOUS
  <2>1. i + 1 \in 1..Len(s) /\ i \in 1..Len(r)
    BY <1>2, <1>3
  <2>2. r \in Seq(S)
    BY <1>3
  <2>3. Mapped(f, r)[i] = f[r[i]]
    BY <2>1, <2>2, MappedAt
  <2> QED
    BY <2>1, <2>3, <1>0, <1>3, <1>4
<1>8. Tail(a) = Mapped(f, r)
    BY <1>4, <1>6, <1>7, SeqEqual
<1> QED
    BY <1>5, <1>8 DEF a, r

(***************************************************************************)
(* Lines as kinds, answers as the numbers of their questions               *)
(***************************************************************************)

LEMMA KindKnown ==
    ASSUME NEW name \in Name
    PROVE  /\ KindOf(name) \in {"tell", "need", "last", "strange"}
           /\ KindOf(name) = "need" <=> name \in Ask
           /\ KindOf(name) = "last" <=> name \in Final
           /\ KindOf(name) = "strange" <=> name = "noise"
BY DEF KindOf, Name, Ask, Told, Final

LEMMA AbsLineTyped ==
    ASSUME NEW l \in Line
    PROVE  AbsLine(l) \in Bridge!Line
BY KindKnown DEF AbsLine, Line, Bridge!Line, Bridge!Kind

LineMap == [l \in Line |-> AbsLine(l)]
(* What inputChan holds: answers of the template, which may read finish.   *)
Said == Reply \union {Finish}
ReplyMap == [r \in Said |-> r.of]

LEMMA AbsLinesMapped ==
    ASSUME NEW s \in Seq(Line)
    PROVE  AbsLines(s) = Mapped(LineMap, s)
BY ElementOfSeq, LenProperties DEF AbsLines, Mapped, LineMap

LEMMA AbsRepliesMapped ==
    ASSUME NEW s \in Seq(Said)
    PROVE  AbsReplies(s) = Mapped(ReplyMap, s)
BY ElementOfSeq, LenProperties DEF AbsReplies, Mapped, ReplyMap

LEMMA AbsLinesFacts ==
    ASSUME NEW s \in Seq(Line)
    PROVE  /\ Len(AbsLines(s)) = Len(s)
           /\ AbsLines(s) = <<>> <=> s = <<>>
           /\ \A l \in Line : AbsLines(Append(s, l)) = Append(AbsLines(s), AbsLine(l))
           /\ s # <<>> => /\ Head(AbsLines(s)) = AbsLine(Head(s))
                          /\ Tail(AbsLines(s)) = AbsLines(Tail(s))
<1>1. AbsLines(s) = Mapped(LineMap, s)
    BY AbsLinesMapped
<1>2. ASSUME NEW l \in Line
      PROVE  AbsLines(Append(s, l)) = Append(AbsLines(s), AbsLine(l))
  <2>1. Append(s, l) \in Seq(Line)
    BY AppendProperties
  <2>2. AbsLines(Append(s, l)) = Mapped(LineMap, Append(s, l))
    BY <2>1, AbsLinesMapped
  <2>3. LineMap[l] = AbsLine(l)
    BY DEF LineMap
  <2> QED
    BY <1>1, <2>2, <2>3, MappedAppend
<1>3. ASSUME s # <<>>
      PROVE  /\ Head(AbsLines(s)) = AbsLine(Head(s))
             /\ Tail(AbsLines(s)) = AbsLines(Tail(s))
  <2>1. Tail(s) \in Seq(Line) /\ Head(s) \in Line
    BY <1>3, HeadTailProperties
  <2>2. AbsLines(Tail(s)) = Mapped(LineMap, Tail(s))
    BY <2>1, AbsLinesMapped
  <2>3. LineMap[Head(s)] = AbsLine(Head(s))
    BY <2>1 DEF LineMap
  <2> QED
    BY <1>1, <1>3, <2>2, <2>3, MappedTake
<1>4. Len(AbsLines(s)) = Len(s)
    BY <1>1, MappedLen
<1>5. AbsLines(s) = <<>> <=> s = <<>>
    BY <1>1, MappedEmpty
<1> QED
    BY <1>2, <1>3, <1>4, <1>5

LEMMA AbsRepliesFacts ==
    ASSUME NEW s \in Seq(Said)
    PROVE  /\ Len(AbsReplies(s)) = Len(s)
           /\ AbsReplies(s) = <<>> <=> s = <<>>
           /\ \A r \in Said : AbsReplies(Append(s, r)) = Append(AbsReplies(s), r.of)
           /\ s # <<>> => /\ Head(AbsReplies(s)) = Head(s).of
                          /\ Tail(AbsReplies(s)) = AbsReplies(Tail(s))
<1>1. AbsReplies(s) = Mapped(ReplyMap, s)
    BY AbsRepliesMapped
<1>2. ASSUME NEW r \in Said
      PROVE  AbsReplies(Append(s, r)) = Append(AbsReplies(s), r.of)
  <2>1. Append(s, r) \in Seq(Said)
    BY AppendProperties
  <2>2. AbsReplies(Append(s, r)) = Mapped(ReplyMap, Append(s, r))
    BY <2>1, AbsRepliesMapped
  <2>3. ReplyMap[r] = r.of
    BY DEF ReplyMap
  <2> QED
    BY <1>1, <2>2, <2>3, MappedAppend
<1>3. ASSUME s # <<>>
      PROVE  /\ Head(AbsReplies(s)) = Head(s).of
             /\ Tail(AbsReplies(s)) = AbsReplies(Tail(s))
  <2>1. Tail(s) \in Seq(Said) /\ Head(s) \in Said
    BY <1>3, HeadTailProperties
  <2>2. AbsReplies(Tail(s)) = Mapped(ReplyMap, Tail(s))
    BY <2>1, AbsRepliesMapped
  <2>3. ReplyMap[Head(s)] = Head(s).of
    BY <2>1 DEF ReplyMap
  <2> QED
    BY <1>1, <1>3, <2>2, <2>3, MappedTake
<1>4. Len(AbsReplies(s)) = Len(s)
    BY <1>1, MappedLen
<1>5. AbsReplies(s) = <<>> <=> s = <<>>
    BY <1>1, MappedEmpty
<1> QED
    BY <1>2, <1>3, <1>4, <1>5

(***************************************************************************)
(* What the refinement needs to know of the dialog                         *)
(***************************************************************************)

NoAsk(say) == \A i \in DOMAIN say : say[i] \notin Ask

Typed ==
    /\ script \in Started
    /\ proc \in {"none", "running", "reading", "gone"}
    /\ todo \in Seq(Name) /\ open \in BOOLEAN
    /\ round \in Nat /\ lines \in 0..MaxLines /\ asked \in 0..lines
    /\ pipe \in Seq(Line)
    /\ stdin \in Reply \union {Finish, None}
    /\ line \in Line
    /\ output \in Seq(Line) /\ input \in Seq(Said)
    /\ question \in Line

(* The process has not run before Start, has a round left when it reads,   *)
(* and asks nothing when its last question is still open.                  *)
Open ==
    /\ bridge = "start" => proc = "none"
    /\ proc = "none" => ~ open
    /\ proc = "reading" => round < Rounds(script)
    /\ AsksOnce(todo)
    /\ open => NoAsk(todo)
    /\ session = "answering" => question.name \in Ask

DInv == Typed /\ Open

LEMMA TailOfSay ==
    ASSUME NEW say \in Seq(Name), say # <<>>, AsksOnce(say)
    PROVE  /\ Head(say) \in Name /\ Tail(say) \in Seq(Name)
           /\ AsksOnce(Tail(say))
           /\ Head(say) \in Ask => NoAsk(Tail(say))
           /\ NoAsk(say) => Head(say) \notin Ask /\ NoAsk(Tail(say))
<1>1. /\ Len(say) \in Nat \ {0} /\ DOMAIN say = 1..Len(say)
    BY EmptySeq, LenProperties
<1> DEFINE t == Tail(say)
<1>2. /\ Head(say) \in Name /\ Head(say) = say[1] /\ t \in Seq(Name)
      /\ Len(t) = Len(say) - 1
      /\ \A i \in 1..Len(t) : t[i] = say[i + 1]
    BY HeadTailProperties
<1> HIDE DEF t
<1>3. DOMAIN t = 1..Len(t)
    BY <1>2, LenProperties
<1>4. \A i \in DOMAIN t : i + 1 \in DOMAIN say /\ t[i] = say[i + 1] /\ i \in Nat /\ i # 0
    BY <1>1, <1>2, <1>3
<1>5. AsksOnce(t)
    BY <1>4 DEF AsksOnce
<1>6. Head(say) \in Ask => NoAsk(t)
    BY <1>1, <1>2, <1>4 DEF AsksOnce, NoAsk
<1>7. NoAsk(say) => Head(say) \notin Ask /\ NoAsk(t)
    BY <1>1, <1>2, <1>4 DEF NoAsk
<1> QED
    BY <1>2, <1>5, <1>6, <1>7 DEF t

LEMMA SayNothing ==
    /\ <<>> \in Seq(Name) /\ AsksOnce(<<>>) /\ NoAsk(<<>>)
    /\ \A n \in Name \ Ask : <<n>> \in Seq(Name) /\ AsksOnce(<<n>>) /\ NoAsk(<<n>>)
<1>1. <<>> \in Seq(Name) /\ DOMAIN <<>> = {}
    BY EmptySeq
<1>2. ASSUME NEW n \in Name \ Ask
      PROVE  <<n>> \in Seq(Name) /\ AsksOnce(<<n>>) /\ NoAsk(<<n>>)
  <2>1. DOMAIN <<n>> = {1} /\ <<n>>[1] = n /\ <<n>> \in Seq(Name)
    OBVIOUS
  <2> QED
    BY <1>2, <2>1 DEF AsksOnce, NoAsk
<1> QED
    BY <1>1, <1>2 DEF AsksOnce, NoAsk

LEMMA RoundsCount == \A s \in Scripts : Rounds(s) \in Nat /\ Rounds(s) >= 1
BY DEF Rounds, Scripts

LEMMA InitTyped == Init => DInv
<1> SUFFICES ASSUME Init PROVE DInv
    OBVIOUS
<1>1. PICK o \in Opening(script) : todo = o.say
    BY DEF Init
<1>2. o \in Outcome /\ AsksOnce(o.say) /\ MaxLines \in Nat
    BY <1>1, DialogAssumption DEF DialogAssumption, Init
<1>3. todo \in Seq(Name)
    BY <1>1, <1>2 DEF Outcome
<1>4. NoLine \in Line
    BY <1>2 DEF NoLine, Line, Name, Told
<1>5. <<>> \in Seq(Line) /\ <<>> \in Seq(Said)
    BY EmptySeq
<1>6. stdin = None /\ asked \in 0..lines /\ lines \in 0..MaxLines
    BY <1>2 DEF Init
<1>7. Typed
    BY <1>3, <1>4, <1>5, <1>6 DEF Init, Typed
<1>8. Open
    BY <1>1, <1>2 DEF Init, Open
<1> QED
    BY <1>7, <1>8 DEF DInv

LEMMA ReplyOfAnswer ==
    ASSUME Typed, stdin # None
    PROVE  stdin.name \in Answer \union {"finish"}
BY DEF Typed, Reply, Finish

(* An answer as WriteCasper writes it.                                     *)
ReplyOf(a) == IF a = "finish" THEN Finish ELSE [name |-> a, of |-> question.of]

LEMMA ReplyTyped ==
    ASSUME Typed, Open, session = "answering",
           NEW a \in Answers(script, question.name)
    PROVE  /\ ReplyOf(a) \in Said
           /\ a # "finish" => [name |-> a, of |-> question.of] \in Reply
<1>1. question.name \in Ask /\ question.of \in 0..MaxLines
    BY DEF Open, Typed, Line
<1>2. a \in Answer \union {"finish"}
    BY <1>1 DEF Answers, Answer, Ask
<1> QED
    BY <1>1, <1>2 DEF Reply, ReplyOf, Said

LEMMA StepTyped == DInv /\ [Next]_vars => DInv'
<1> SUFFICES ASSUME Typed, Open, [Next]_vars PROVE Typed' /\ Open'
    BY DEF DInv
<1> USE DEF procVars, bridgeVars, sessionVars
<1>1. CASE Write
  <2> DEFINE n == Head(todo)
             q == IF n \in Ask THEN asked + 1 ELSE 0
             l == [name |-> n, of |-> q, after |-> round]
  <2>1. todo \in Seq(Name) /\ todo # <<>> /\ AsksOnce(todo)
    BY <1>1 DEF Write, Typed, Open
  <2>2. /\ n \in Name /\ Tail(todo) \in Seq(Name) /\ AsksOnce(Tail(todo))
        /\ n \in Ask => NoAsk(Tail(todo))
        /\ NoAsk(todo) => n \notin Ask /\ NoAsk(Tail(todo))
    BY <2>1, TailOfSay
  <2>3. /\ lines' = lines + 1 /\ lines' \in 0..MaxLines
        /\ asked' \in 0..lines' /\ q \in 0..MaxLines
    BY <1>1, DialogAssumption DEF DialogAssumption, Write, Typed
  <2>4. l \in Line
    BY <2>2, <2>3 DEF Line, Typed
  <2>5. pipe' = Append(pipe, l)
    BY <1>1 DEF Write
  <2> HIDE DEF l, q, n
  <2>6. pipe' \in Seq(Line)
    BY <2>4, <2>5, AppendProperties DEF Typed
  <2>7. todo' = Tail(todo) /\ open' = (open \/ n \in Ask)
    BY <1>1 DEF Write, n
  <2>8. Open'
    BY <1>1, <2>2, <2>7 DEF Open, Write
  <2>9. Typed'
    BY <1>1, <2>2, <2>3, <2>6, <2>7 DEF Typed, Write
  <2> QED
    BY <2>8, <2>9
<1>2. CASE Block
  <2>1. Open'
    BY <1>2 DEF Block, Open
  <2> QED
    BY <1>2, <2>1 DEF Block, Typed
<1>3. CASE ReadLine
  <2>1. PICK o \in Round(script, round + 1, stdin.name) : todo' = o.say
    BY <1>3 DEF ReadLine
  <2>2. round + 1 \in 1..Rounds(script) /\ stdin.name \in Answer \union {"finish"}
    BY <1>3, RoundsCount, ReplyOfAnswer, DialogAssumption
    DEF ReadLine, Open, Typed, DialogAssumption
  <2>3. o \in Outcome /\ AsksOnce(o.say)
    BY <2>1, <2>2, DialogAssumption DEF DialogAssumption, Typed
  <2>4. todo' \in Seq(Name) /\ AsksOnce(todo')
    BY <2>1, <2>3 DEF Outcome
  <2>5. round' \in Nat /\ proc' = "running" /\ ~ open' /\ bridge' = bridge
    BY <1>3 DEF ReadLine, Typed
  <2>6. Open'
    BY <1>3, <2>4, <2>5 DEF Open, ReadLine
  <2>7. Typed'
    BY <1>3, <2>4, <2>5 DEF Typed, ReadLine
  <2> QED
    BY <2>6, <2>7
<1>4. CASE Exit
  <2>1. Open'
    BY <1>4 DEF Exit, Open
  <2> QED
    BY <1>4, <2>1 DEF Exit, Typed
<1>5. CASE Die
  <2>1. todo' = <<>> \/ \E n \in Name \ Ask : todo' = <<n>>
    BY <1>5 DEF Die, Name, Ask, Final
  <2>2. todo' \in Seq(Name) /\ AsksOnce(todo') /\ NoAsk(todo')
    BY <2>1, SayNothing
  <2>3. Open'
    BY <1>5, <2>2 DEF Die, Open
  <2> QED
    BY <1>5, <2>2, <2>3 DEF Die, Typed
<1>6. CASE Start
  <2>1. Open'
    BY <1>6 DEF Start, Open
  <2> QED
    BY <1>6, <2>1 DEF Start, Typed
<1>7. CASE ReadPipe
  <2>1. line' \in Line /\ pipe' \in Seq(Line)
    BY <1>7, HeadTailProperties DEF ReadPipe, Typed
  <2>2. Open'
    BY <1>7 DEF ReadPipe, Open
  <2> QED
    BY <1>7, <2>1, <2>2 DEF ReadPipe, Typed
<1>8. CASE ReadError \/ Send
  <2> DEFINE m == [name |-> "fail", of |-> 0, after |-> round]
             r == [line EXCEPT !.name = "fail"]
  <2>1. m \in Line
    BY DialogAssumption DEF DialogAssumption, Line, Typed, Name, Final
  <2>2. r \in Line
    BY DEF Line, Typed, Name, Final
  <2> HIDE DEF m, r
  <2>3. \E l \in {line, m, r} : output' = Append(output, l)
    BY <1>8 DEF ReadError, Send, ToOutput, m, r
  <2>4. output' \in Seq(Line)
    BY <2>1, <2>2, <2>3, AppendProperties DEF Typed
  <2>5. /\ UNCHANGED <<script, procVars, pipe, stdin, line, input, sessionVars>>
        /\ bridge # "start" /\ bridge' # "start"
    BY <1>8 DEF ReadError, Send, ToOutput
  <2>6. Open'
    BY <2>5 DEF Open
  <2> QED
    BY <2>4, <2>5, <2>6 DEF Typed
<1>9. CASE TakeAnswer
  <2>1. stdin' \in Said /\ input' \in Seq(Said)
    BY <1>9, HeadTailProperties DEF TakeAnswer, Typed
  <2>2. Open'
    BY <1>9 DEF TakeAnswer, Open
  <2> QED
    BY <1>9, <2>1, <2>2 DEF TakeAnswer, Typed, Said
<1>10. CASE Timeout \/ Reap \/ Kill
  <2>1. Open'
    BY <1>10 DEF Timeout, Reap, Kill, Open
  <2> QED
    BY <1>10, <2>1 DEF Timeout, Reap, Kill, Typed
<1>11. CASE ReadChan
  <2>1. output' \in Seq(Line) /\ Head(output) \in Line
    BY <1>11, HeadTailProperties DEF ReadChan, Typed
  <2>2. question' \in {question, Head(output)}
    BY <1>11 DEF ReadChan
  <2>3. UNCHANGED <<script, procVars, pipe, stdin, bridgeVars, input>>
    BY <1>11 DEF ReadChan
  <2>4. session' = "answering" => question' = Head(output) /\ Head(output).name \in Ask
    BY <1>11 DEF ReadChan
  <2>5. Open'
    BY <2>3, <2>4 DEF Open
  <2> QED
    BY <2>1, <2>2, <2>3, <2>5 DEF Typed
<1>12. CASE WriteCasper
  <2>1. PICK a \in Answers(script, question.name) : input' = Append(input, ReplyOf(a))
    BY <1>12 DEF WriteCasper, ReplyOf
  <2>4. ReplyOf(a) \in Said
    BY <1>12, <2>1, ReplyTyped DEF WriteCasper
  <2>5. input' \in Seq(Said)
    BY <2>1, <2>4, AppendProperties DEF Typed
  <2>6. Open'
    BY <1>12 DEF WriteCasper, Open
  <2> QED
    BY <1>12, <2>5, <2>6 DEF WriteCasper, Typed
<1>13. CASE ReadCasper \/ Leave
  <2>1. Open'
    BY <1>13 DEF ReadCasper, Leave, Open
  <2> QED
    BY <1>13, <2>1 DEF ReadCasper, Leave, Typed
<1>14. CASE UNCHANGED vars
  <2>1. Open'
    BY <1>14 DEF vars, Open
  <2> QED
    BY <1>14, <2>1 DEF vars, Typed
<1> QED
    BY <1>1, <1>2, <1>3, <1>4, <1>5, <1>6, <1>7, <1>8, <1>9, <1>10, <1>11, <1>12,
       <1>13, <1>14 DEF Next, GoesOn, Run, Template

(* No script asks twice before it reads, reads in more rounds than it has, *)
(* or asks again while a question is open: the facts that make a dialog of *)
(* scripts and templates one of CasperBridge.                              *)
THEOREM DialogInvariant == Spec => []DInv
<1> QED
    BY InitTyped, StepTyped, PTL DEF Spec

(***************************************************************************)
(* Every step of the dialog is one of the bridge                           *)
(***************************************************************************)

LEMMA InitMeetsBridge == Init => Bridge!Init
<1> SUFFICES ASSUME Init PROVE Bridge!Init
    OBVIOUS
<1>1. <<>> \in Seq(Line) /\ <<>> \in Seq(Said)
    BY EmptySeq
<1>2. AbsLines(<<>>) = <<>> /\ AbsReplies(<<>>) = <<>>
    BY <1>1, AbsLinesFacts, AbsRepliesFacts
<1>3. AbsProc = "none" /\ stdin.of = Bridge!None /\ question.of = 0
    BY DEF Init, AbsProc, None, Bridge!None, NoLine
<1>4. AbsLine(line) = [kind |-> "tell", of |-> 0]
    BY DEF Init, AbsLine, NoLine, KindOf, Ask, Told
<1> QED
    BY <1>2, <1>3, <1>4 DEF Init, Bridge!Init

LEMMA StepMeetsBridge == DInv /\ [Next]_vars => [Bridge!Next]_Bridge!vars
<1> SUFFICES ASSUME Typed, Open, [Next]_vars PROVE [Bridge!Next]_Bridge!vars
    BY DEF DInv
<1> USE DEF procVars, bridgeVars, sessionVars, Bridge!procVars, Bridge!bridgeVars,
            Bridge!sessionVars
<1>1. CASE Write
  <2> DEFINE n == Head(todo)
             q == IF n \in Ask THEN asked + 1 ELSE 0
             l == [name |-> n, of |-> q, after |-> round]
             k == KindOf(n)
  <2>1. todo \in Seq(Name) /\ todo # <<>> /\ AsksOnce(todo)
    BY <1>1 DEF Write, Typed, Open
  <2>2. n \in Name /\ (NoAsk(todo) => n \notin Ask)
    BY <2>1, TailOfSay
  <2>3. /\ k \in {"tell", "need", "last", "strange"}
        /\ k = "need" <=> n \in Ask
    BY <2>2, KindKnown
  <2>4. q \in 0..MaxLines
    BY <1>1, DialogAssumption DEF DialogAssumption, Write, Typed
  <2>5. l \in Line
    BY <2>2, <2>4 DEF Line, Typed
  <2>6. pipe' = Append(pipe, l) /\ AbsLine(l) = [kind |-> k, of |-> q]
    BY <1>1 DEF Write, AbsLine
  <2> HIDE DEF l, k
  <2>7. AbsLines(pipe') = Append(AbsLines(pipe), [kind |-> k, of |-> q])
    BY <2>5, <2>6, AbsLinesFacts DEF Typed
  <2>8. Len(AbsLines(pipe)) = Len(pipe)
    BY AbsLinesFacts DEF Typed
  <2>9. Bridge!Emit(k, q)
    BY <1>1, <2>7, <2>8 DEF Write, Bridge!Emit, AbsLines, AbsReplies, AbsLine
  <2>10. CASE n \in Ask
    <3>1. AbsProc = "running" /\ AbsProc' = "asking" /\ asked' = asked + 1
        BY <1>1, <2>2, <2>10 DEF Write, AbsProc, Open
    <3>2. Bridge!Ask("need")
        BY <2>3, <2>9, <2>10, <3>1 DEF Bridge!Ask
    <3> QED
        BY <3>2 DEF Bridge!Next, Bridge!Process, Bridge!Question
  <2>11. CASE n \notin Ask
    <3>1. AbsProc \in {"running", "asking"} /\ AbsProc' = AbsProc /\ asked' = asked
        BY <1>1, <2>11 DEF Write, AbsProc
    <3>2. Bridge!Say(k)
        BY <2>9, <2>11, <3>1 DEF Bridge!Say
    <3> QED
        BY <2>3, <2>11, <3>2 DEF Bridge!Next, Bridge!Process, Bridge!Question, Bridge!Kind
  <2> QED
    BY <2>10, <2>11
<1>2. CASE Block \/ Die
  <2>1. AbsProc' = AbsProc
    BY <1>2 DEF Block, Die, AbsProc
  <2> QED
    BY <1>2, <2>1 DEF Block, Die, Bridge!vars, AbsLines, AbsReplies, AbsLine
<1>3. CASE ReadLine
  <2>1. AbsProc \in {"running", "asking"} /\ AbsProc' = "running"
    BY <1>3 DEF ReadLine, AbsProc
  <2>2. stdin \in Reply \union {Finish} /\ stdin' = None /\ MaxLines \in Nat
    BY <1>3, DialogAssumption DEF DialogAssumption, ReadLine, Typed
  <2>3. stdin \in Reply => stdin.of # Bridge!None
    BY <2>2 DEF Reply, Bridge!None
  <2>4. Finish.of # Bridge!None
    BY <2>2 DEF Finish, Bridge!None
  <2>5. stdin'.of = Bridge!None
    BY <2>2 DEF None, Bridge!None
  <2> QED
    BY <1>3, <2>1, <2>2, <2>3, <2>4, <2>5 DEF ReadLine, Bridge!ReadLine, Bridge!Next, Bridge!Process,
        AbsLines, AbsReplies, AbsLine
<1>4. CASE Exit
  <2>1. AbsProc \in {"running", "asking"} /\ AbsProc' = "gone"
    BY <1>4 DEF Exit, AbsProc
  <2> QED
    BY <1>4, <2>1 DEF Exit, Bridge!Exit, Bridge!Next, Bridge!Process,
        AbsLines, AbsReplies, AbsLine
<1>5. CASE Start
  <2>1. AbsProc' = IF bridge' = "read" THEN "running" ELSE AbsProc
    BY <1>5 DEF Start, AbsProc, Open
  <2> QED
    BY <1>5, <2>1 DEF Start, Bridge!Start, Bridge!Next, Bridge!Run,
        AbsLines, AbsReplies, AbsLine
<1>6. CASE ReadPipe
  <2>1. /\ AbsLines(pipe) # <<>>
        /\ AbsLines(pipe') = Tail(AbsLines(pipe))
        /\ AbsLine(line') = Head(AbsLines(pipe))
    BY <1>6, AbsLinesFacts DEF ReadPipe, Typed
  <2> QED
    BY <1>6, <2>1 DEF ReadPipe, Bridge!ReadPipe, Bridge!Next, Bridge!Run,
        AbsProc, AbsReplies
<1>7. CASE ReadError
  <2> DEFINE m == [name |-> "fail", of |-> 0, after |-> round]
  <2>1. m \in Line
    BY DialogAssumption DEF DialogAssumption, Line, Typed, Name, Final
  <2>2. AbsLine(m) = [kind |-> "last", of |-> 0]
    BY DEF AbsLine, KindOf, Ask, Told, Final
  <2>3. output' = Append(output, m)
    BY <1>7 DEF ReadError, ToOutput
  <2> HIDE DEF m
  <2>4. /\ AbsLines(output') = Append(AbsLines(output), [kind |-> "last", of |-> 0])
        /\ Len(AbsLines(output)) = Len(output)
    BY <2>1, <2>2, <2>3, AbsLinesFacts DEF Typed
  <2>5. AbsLines(pipe) = <<>>
    BY <1>7, AbsLinesFacts DEF Typed, ReadError
  <2> QED
    BY <1>7, <2>4, <2>5 DEF ReadError, ToOutput, Bridge!ReadError, Bridge!ToOutput,
        Bridge!Next, Bridge!Run, AbsProc, AbsReplies, AbsLine, AbsLines
<1>8. CASE Send
  <2> DEFINE r == IF line.name = "noise" THEN [line EXCEPT !.name = "fail"] ELSE line
             k == KindOf(line.name)
             a == [kind |-> k, of |-> line.of]
             b == IF k = "strange" THEN [a EXCEPT !.kind = "last"] ELSE a
  <2>1. r \in Line
    BY DEF Line, Typed, Name, Final
  <2>2. line.name \in Name
    BY DEF Line, Typed
  <2>3. /\ k \in {"tell", "need", "last", "strange"}
        /\ k = "strange" <=> line.name = "noise"
    BY <2>2, KindKnown
  <2>4. AbsLine(r) = b
    <3>1. CASE line.name = "noise"
      <4>1. r.name = "fail" /\ r.of = line.of
        BY <3>1 DEF Typed, Line
      <4>2. KindOf(r.name) = "last"
        BY <4>1 DEF KindOf, Ask, Told, Final
      <4> HIDE DEF r, k
      <4> QED
        BY <2>3, <3>1, <4>1, <4>2 DEF AbsLine
    <3>2. CASE line.name # "noise"
      <4> HIDE DEF k
      <4>1. r = line /\ b = a
        BY <2>3, <3>2
      <4> QED
        BY <4>1 DEF AbsLine, k
    <3> QED
        BY <3>1, <3>2
  <2>5. output' = Append(output, r) /\ AbsLine(line) = a /\ a.kind = k
    BY <1>8 DEF Send, ToOutput, AbsLine
  <2> HIDE DEF r
  <2>6. AbsLines(output') = Append(AbsLines(output), b)
    BY <2>1, <2>4, <2>5, AbsLinesFacts DEF Typed
  <2>7. Len(AbsLines(output)) = Len(output)
    BY AbsLinesFacts DEF Typed
  <2>8. bridge' = CASE k = "tell" -> "read" [] k = "need" -> "wait" [] OTHER -> "reap"
    BY <1>8 DEF Send
  <2>9. AbsLine(line)' = AbsLine(line) /\ AbsProc' = AbsProc
    BY <1>8 DEF Send, ToOutput, AbsLine, AbsProc
  <2> HIDE DEF k
  <2>10. bridge' = CASE a.kind = "tell" -> "read" [] a.kind = "need" -> "wait"
                     [] a.kind = "randcode" -> "waitlong" [] OTHER -> "reap"
    BY <2>3, <2>8
  <2>11. Bridge!ToOutput(b)
    BY <1>8, <2>6, <2>7, <2>9 DEF Send, ToOutput, Bridge!ToOutput, AbsLines, AbsReplies
  <2> HIDE DEF a
  <2>12. Bridge!Send
    BY <1>8, <2>5, <2>10, <2>11 DEF Send, Bridge!Send
  <2> QED
    BY <2>12 DEF Bridge!Next, Bridge!Run
<1>9. CASE TakeAnswer
  <2>1. /\ AbsReplies(input) # <<>>
        /\ AbsReplies(input') = Tail(AbsReplies(input))
        /\ stdin'.of = Head(AbsReplies(input))
    BY <1>9, AbsRepliesFacts DEF TakeAnswer, Typed
  <2>2. Head(input) \in Said
    BY <1>9, HeadTailProperties DEF TakeAnswer, Typed
  <2>3. Head(input) = Finish <=> Head(AbsReplies(input)) = Bridge!Finish
    BY <1>9, <2>1, <2>2, DialogAssumption
    DEF TakeAnswer, Said, Reply, Finish, Bridge!Finish, DialogAssumption
  <2> QED
    BY <1>9, <2>1, <2>3 DEF TakeAnswer, Bridge!TakeAnswer, Bridge!Write, Bridge!Next,
        Bridge!Run, AbsProc, AbsLines, AbsLine
<1>10. CASE Timeout
  <2>1. stdin'.of = Bridge!Finish
    BY <1>10 DEF Timeout, Finish, Bridge!Finish
  <2> QED
    BY <1>10, <2>1 DEF Timeout, Bridge!Timeout, Bridge!Write, Bridge!Next,
        Bridge!Run, AbsProc, AbsLines, AbsReplies, AbsLine
<1>11. CASE Reap \/ Kill
  <2>1. AbsProc = "gone" <=> proc = "gone"
    BY DEF AbsProc
  <2>2. Kill => AbsProc' = "gone"
    BY DEF Kill, AbsProc
  <2>3. Reap => Bridge!Reap
    BY <2>1 DEF Reap, Bridge!Reap, AbsProc, AbsLines, AbsReplies, AbsLine
  <2>4. Kill => Bridge!Kill
    BY <2>2 DEF Kill, Bridge!Kill, AbsLines, AbsReplies, AbsLine
  <2> QED
    BY <1>11, <2>3, <2>4 DEF Bridge!Next, Bridge!Run
<1>12. CASE ReadChan
  <2> DEFINE l == Head(output)
             k == KindOf(l.name)
  <2>0. l \in Line
    BY <1>12, HeadTailProperties DEF ReadChan, Typed
  <2>1. l \in Line /\ l.name \in Name
    BY <2>0 DEF Line
  <2>2. k = "need" <=> l.name \in Ask
    BY <2>1, KindKnown
  <2>3. k = "last" <=> l.name \in Final
    BY <2>1, KindKnown
  <2>4. k \in {"tell", "need", "last", "strange"}
    BY <2>1, KindKnown
  <2>5. /\ AbsLines(output) # <<>>
        /\ AbsLines(output') = Tail(AbsLines(output))
        /\ Head(AbsLines(output)) = AbsLine(l)
    BY <1>12, AbsLinesFacts DEF ReadChan, Typed
  <2>6. AbsLine(l).kind = k /\ AbsLine(l).of = l.of
    BY DEF AbsLine
  <2> HIDE DEF k
  <2>7. /\ session = "reading"
        /\ session' = CASE k = "need" -> "answering" [] k = "last" -> "done"
                         [] OTHER -> "away"
        /\ question' = IF k = "need" THEN l ELSE question
    BY <1>12, <2>2, <2>3 DEF ReadChan, Ask, Final
  <2>8. session' = CASE k \in Bridge!Question -> "answering" [] k = "last" -> "done"
                     [] OTHER -> "away"
    BY <2>4, <2>7 DEF Bridge!Question
  <2>9. question'.of = IF k \in Bridge!Question THEN l.of ELSE question.of
    BY <2>4, <2>7 DEF Bridge!Question
  <2>10. /\ UNCHANGED <<script, procVars, pipe, stdin, bridgeVars, input>>
         /\ AbsProc' = AbsProc /\ AbsLine(line)' = AbsLine(line)
    BY <1>12 DEF ReadChan, AbsProc, AbsLine
  <2> HIDE DEF l
  <2>11. Bridge!ReadChan
    BY <2>5, <2>6, <2>7, <2>8, <2>9, <2>10 DEF Bridge!ReadChan, AbsLines, AbsReplies
  <2> QED
    BY <2>11 DEF Bridge!Next, Bridge!Template
<1>13. CASE WriteCasper
  <2>1. PICK a \in Answers(script, question.name) : input' = Append(input, ReplyOf(a))
    BY <1>13 DEF WriteCasper, ReplyOf
  <2>2. ReplyOf(a) \in Said /\ ReplyOf(a).of \in {question.of, Bridge!Finish}
    BY <1>13, <2>1, ReplyTyped DEF WriteCasper, ReplyOf, Finish, Bridge!Finish
  <2>3. /\ AbsReplies(input') = Append(AbsReplies(input), ReplyOf(a).of)
        /\ Len(AbsReplies(input)) = Len(input)
    BY <2>1, <2>2, AbsRepliesFacts DEF Typed
  <2>4. Bridge!WriteCasper
    BY <1>13, <2>2, <2>3 DEF WriteCasper, Bridge!WriteCasper, AbsProc, AbsLines, AbsLine
  <2> QED
    BY <2>4 DEF Bridge!Next, Bridge!Template
<1>14. CASE ReadCasper
  <2>1. Bridge!ReadCasper
    BY <1>14 DEF ReadCasper, Bridge!ReadCasper, AbsProc, AbsLines, AbsReplies, AbsLine
  <2> QED
    BY <2>1 DEF Bridge!Next, Bridge!Template
<1>15. CASE Leave
  <2>1. Bridge!Leave
    BY <1>15 DEF Leave, Bridge!Leave, AbsProc, AbsLines, AbsReplies, AbsLine
  <2> QED
    BY <2>1 DEF Bridge!Next, Bridge!Template
<1>16. CASE UNCHANGED vars
  BY <1>16 DEF vars, Bridge!vars, AbsProc, AbsLines, AbsReplies, AbsLine
<1> QED
    BY <1>1, <1>2, <1>3, <1>4, <1>5, <1>6, <1>7, <1>8, <1>9, <1>10, <1>11, <1>12,
       <1>13, <1>14, <1>15, <1>16 DEF Next, GoesOn, Run, Template

(* The dialog of every script with its template implements CasperBridge:   *)
(* what is shown there of Run, for any process and template that keep to   *)
(* its protocol, holds for these.                                          *)
THEOREM DialogImplementsBridge == Spec => ImplementsBridge
<1> QED
    BY InitMeetsBridge, StepMeetsBridge, DialogInvariant, PTL DEF Spec, ImplementsBridge

(***************************************************************************)
(* A success is earned                                                     *)
(***************************************************************************)

(* A result among these lines means that the script has written one.       *)
Backed(s, written) == \A i \in DOMAIN s : s[i].name \in Result => written

LEMMA BackedAppend ==
    ASSUME NEW s \in Seq(Line), NEW l \in Line, NEW old, NEW new, Backed(s, old),
           old => new, l.name \in Result => new
    PROVE  Backed(Append(s, l), new)
<1>1. /\ Len(s) \in Nat /\ DOMAIN s = 1..Len(s)
      /\ DOMAIN Append(s, l) = 1..(Len(s) + 1)
      /\ \A i \in 1..Len(s) : Append(s, l)[i] = s[i]
      /\ Append(s, l)[Len(s) + 1] = l
    BY AppendProperties
<1> QED
    BY <1>1 DEF Backed

LEMMA BackedTake ==
    ASSUME NEW s \in Seq(Line), s # <<>>, NEW old, Backed(s, old)
    PROVE  /\ Backed(Tail(s), old)
           /\ Head(s).name \in Result => old
<1>1. /\ Len(s) \in Nat \ {0} /\ DOMAIN s = 1..Len(s)
      /\ DOMAIN Tail(s) = 1..(Len(s) - 1)
      /\ \A i \in 1..(Len(s) - 1) : Tail(s)[i] = s[i + 1]
      /\ Head(s) = s[1]
    BY HeadTailProperties, EmptySeq
<1> QED
    BY <1>1 DEF Backed

(* Every result on its way from the script to the template was written, and *)
(* the template calls nothing else a success but in the two known cases.   *)
EarnedInv ==
    /\ Backed(pipe, earned)
    /\ line.name \in Result => earned
    /\ Backed(output, earned)
    /\ SuccessIsEarnedButTwice

LEMMA StepEarned == DInv /\ EarnedInv /\ [Next]_vars => EarnedInv'
<1> SUFFICES ASSUME Typed, EarnedInv, [Next]_vars PROVE EarnedInv'
    BY DEF DInv
<1> USE DEF EarnedInv, SuccessIsEarnedButTwice, SuccessIsEarned, procVars, bridgeVars,
        sessionVars
<1>1. CASE Write
  <2> DEFINE n == Head(todo)
             l == [name |-> n, of |-> IF n \in Ask THEN asked + 1 ELSE 0, after |-> round]
  <2>1. n \in Name
    BY <1>1, HeadTailProperties DEF Write, Typed
  <2>2. (IF n \in Ask THEN asked + 1 ELSE 0) \in 0..MaxLines
    BY <1>1, DialogAssumption DEF DialogAssumption, Write, Typed
  <2>3. l \in Line /\ l.name = n
    BY <2>1, <2>2 DEF Line, Typed
  <2>4. pipe' = Append(pipe, l) /\ earned' = (earned \/ n \in Result)
    BY <1>1 DEF Write
  <2> HIDE DEF n, l
  <2>5. (earned => earned') /\ (l.name \in Result => earned')
    BY <2>3, <2>4, Zenon
  <2>6. Backed(pipe', earned')
    BY <2>3, <2>4, <2>5, BackedAppend DEF Typed
  <2>7. UNCHANGED <<script, line, output, outcome>>
    BY <1>1 DEF Write
  <2> QED
    BY <2>5, <2>6, <2>7 DEF Backed
<1>2. CASE ReadPipe
  <2>1. Backed(pipe', earned) /\ (line'.name \in Result => earned)
    BY <1>2, BackedTake DEF ReadPipe, Typed
  <2> QED
    BY <1>2, <2>1 DEF ReadPipe
<1>3. CASE ReadError \/ Send
  <2> DEFINE m == [name |-> "fail", of |-> 0, after |-> round]
             r == [line EXCEPT !.name = "fail"]
  <2>1. m \in Line /\ m.name = "fail"
    BY DialogAssumption DEF DialogAssumption, Line, Typed, Name, Final
  <2>2. r \in Line /\ r.name = "fail"
    BY DEF Line, Typed, Name, Final
  <2>3. "fail" \notin Result
    BY DEF Result
  <2> HIDE DEF m, r
  <2>4. PICK l \in {line, m, r} : output' = Append(output, l)
    BY <1>3 DEF ReadError, Send, ToOutput, m, r
  <2>5. l \in Line /\ (l.name \in Result => earned)
    BY <2>1, <2>2, <2>3 DEF Typed
  <2>6. Backed(output', earned)
    BY <2>4, <2>5, BackedAppend DEF Typed
  <2>7. UNCHANGED <<script, pipe, line, earned, outcome>>
    BY <1>3 DEF ReadError, Send, ToOutput
  <2> QED
    BY <2>6, <2>7
<1>4. CASE ReadChan
  <2>1. Backed(output', earned) /\ (Head(output).name \in Result => earned)
    BY <1>4, BackedTake DEF ReadChan, Typed
  <2>2. UNCHANGED <<script, pipe, line, earned>>
    BY <1>4 DEF ReadChan
  <2>3. outcome' = outcome \/ outcome' = "lost"
        \/ outcome' = Verdict(script, Head(output).name)
    BY <1>4 DEF ReadChan, Count
  <2>4. Verdict(script, Head(output).name) = "won" =>
            Head(output).name \in Result \/ script \in {"lagou", "taobao_ua"}
    BY DEF Verdict
  <2> QED
    BY <2>1, <2>2, <2>3, <2>4
<1>5. CASE Block \/ ReadLine \/ Exit \/ Die
  BY <1>5 DEF Block, ReadLine, Exit, Die
<1>6. CASE Start \/ TakeAnswer \/ Timeout \/ Reap \/ Kill
  BY <1>6 DEF Start, TakeAnswer, Timeout, Reap, Kill
<1>7. CASE ReadCasper \/ WriteCasper \/ Leave
  BY <1>7 DEF ReadCasper, WriteCasper, Leave
<1>8. CASE UNCHANGED vars
  BY <1>8 DEF vars
<1> QED
    BY <1>1, <1>2, <1>3, <1>4, <1>5, <1>6, <1>7, <1>8 DEF Next, GoesOn, Run, Template

(* But for the two templates that take a fail for success, no login or     *)
(* result is believed before the script has written one: neither Run nor   *)
(* the channels turn another line into it (casperjs.go:101, 175).          *)
THEOREM SuccessIsEarnedHolds == Spec => []SuccessIsEarnedButTwice
<1>1. Init => EarnedInv
  <2> SUFFICES ASSUME Init PROVE EarnedInv
      OBVIOUS
  <2>1. Backed(<<>>, earned)
    BY DEF Backed
  <2>2. "html" \notin Result
    BY DEF Result
  <2> QED
    BY <2>1, <2>2 DEF Init, EarnedInv, NoLine, SuccessIsEarnedButTwice, SuccessIsEarned
<1>2. DInv /\ EarnedInv /\ [Next]_vars => EarnedInv'
    BY StepEarned
<1>3. EarnedInv => SuccessIsEarnedButTwice
    BY DEF EarnedInv
<1> QED
    BY <1>1, <1>2, <1>3, DialogInvariant, PTL DEF Spec
=============================================================================
