------------------------- MODULE TaskSessionProofs -------------------------
(* Theorems about TaskSession, for every set of clients, every capacity    *)
(* and every bound.                                                        *)
EXTENDS TaskSession, SequenceTheorems, FiniteSetTheorems, TLAPS

USE DEF Terminal, Status, Answer, Ending

(* The two ways a channel's buffer changes.                                *)
LEMMA Sent ==
    ASSUME NEW S, NEW q \in Seq(S), NEW x \in S, Len(q) < Cap
    PROVE  Append(q, x) \in Seq(S) /\ Len(Append(q, x)) <= Cap
BY AppendProperties, SessionAssumption DEF SessionAssumption

LEMMA Received ==
    ASSUME NEW S, NEW q \in Seq(S), q # <<>>, Len(q) <= Cap
    PROVE  Head(q) \in S /\ Tail(q) \in Seq(S) /\ Len(Tail(q)) <= Cap
BY HeadTailProperties, SessionAssumption DEF SessionAssumption

LEMMA TypeStep == TypeOK /\ [Next]_vars => TypeOK'
<1> SUFFICES ASSUME TypeOK, [Next]_vars PROVE TypeOK'
  OBVIOUS
<1> USE SessionAssumption DEF SessionAssumption, TypeOK
<1>1. ASSUME NEW c \in Clients, CreateCommand(c) PROVE TypeOK'
  <2>1. ClientsOK'
    BY <1>1 DEF ClientsOK, CreateCommand, MayRequest
  <2>2. RunOK'
    BY <1>1 DEF RunOK, RunState, CreateCommand, MayRequest
  <2> QED
    BY <1>1, <2>1, <2>2 DEF CreateCommand, MayRequest, CacheOK, ChannelsOK,
       TaskOK, TickerOK, cacheVars, chanVars, taskVars, tickVars
<1>2. ASSUME NEW c \in Clients, GetCommand(c) PROVE TypeOK'
  <2>1. ClientsOK'
    <3>1. requests' \in [Clients -> 0..MaxRequests]
      BY <1>2 DEF ClientsOK, GetCommand, MayRequest
    <3>2. /\ pc' \in [Clients -> {"idle", "set", "check", "push", "load", "recv",
                                  "nil", "reply"}]
          /\ byId' \in [Clients -> BOOLEAN]
          /\ answer' \in [Clients -> Answer]
      BY <1>2 DEF ClientsOK, GetCommand
    <3>3. params' \in [Clients -> SUBSET Keys]
      BY <1>2 DEF ClientsOK, GetCommand
    <3> QED
      BY <1>2, <3>1, <3>2, <3>3 DEF ClientsOK, GetCommand
  <2> QED
    BY <1>2, <2>1 DEF GetCommand, MayRequest, CacheOK, ChannelsOK, TaskOK,
       RunOK, TickerOK, cacheVars, chanVars, taskVars, runVars, tickVars
<1>3. ASSUME NEW c \in Clients, SetCommand(c) PROVE TypeOK'
  <2>1. ClientsOK'
    BY <1>3 DEF ClientsOK, SetCommand
  <2>2. CacheOK'
    BY <1>3 DEF CacheOK, SetCommand
  <2> QED
    BY <1>3, <2>1, <2>2 DEF SetCommand, ChannelsOK, TaskOK, RunOK, TickerOK,
       chanVars, taskVars, runVars, tickVars
<1>4. ASSUME NEW c \in Clients, CheckFinished(c) PROVE TypeOK'
  <2>1. ClientsOK'
    BY <1>4 DEF ClientsOK, CheckFinished
  <2> QED
    BY <1>4, <2>1 DEF CheckFinished, CacheOK, ChannelsOK, TaskOK, RunOK,
       TickerOK, cacheVars, chanVars, taskVars, runVars, tickVars
<1>5. ASSUME NEW c \in Clients, PushInput(c) PROVE TypeOK'
  <2>1. ClientsOK'
    BY <1>5 DEF ClientsOK, PushInput
  <2>2. ChannelsOK'
    <3>1. params[c] \in SUBSET Keys
      BY DEF ClientsOK
    <3>2. input' \in Seq(SUBSET Keys) /\ Len(input') <= Cap
      BY <1>5, <3>1, Sent DEF ChannelsOK, PushInput
    <3> QED
      BY <1>5, <3>2 DEF ChannelsOK, PushInput
  <2> QED
    BY <1>5, <2>1, <2>2 DEF PushInput, CacheOK, TaskOK, RunOK, TickerOK,
       cacheVars, taskVars, runVars, tickVars
<1>6. ASSUME NEW c \in Clients, PushPanics(c) PROVE TypeOK'
  <2>1. ClientsOK'
    BY <1>6 DEF ClientsOK, PushPanics
  <2> QED
    BY <1>6, <2>1 DEF PushPanics, CacheOK, ChannelsOK, TaskOK, RunOK, TickerOK,
       cacheVars, chanVars, taskVars, runVars, tickVars
<1>7. ASSUME NEW c \in Clients, LoadMessage(c) PROVE TypeOK'
  <2>1. ClientsOK'
    BY <1>7 DEF ClientsOK, LoadMessage
  <2> QED
    BY <1>7, <2>1 DEF LoadMessage, CacheOK, ChannelsOK, TaskOK, RunOK, TickerOK,
       cacheVars, chanVars, taskVars, runVars, tickVars
<1>8. ASSUME NEW c \in Clients, Receive(c) PROVE TypeOK'
  <2>0. message # <<>> => /\ Head(message) \in Status
                          /\ Tail(message) \in Seq(Status)
                          /\ Len(Tail(message)) <= Cap
    BY Received DEF ChannelsOK
  <2>1. ClientsOK'
    BY <1>8, <2>0 DEF ClientsOK, Receive
  <2>2. ChannelsOK'
    BY <1>8, <2>0 DEF ChannelsOK, Receive
  <2> QED
    BY <1>8, <2>1, <2>2 DEF Receive, CacheOK, TaskOK, RunOK, TickerOK,
       cacheVars, taskVars, runVars, tickVars
<1>9. ASSUME NEW c \in Clients, Reply(c) PROVE TypeOK'
  <2>1. ClientsOK'
    BY <1>9 DEF ClientsOK, Reply
  <2>2. CacheOK'
    BY <1>9 DEF CacheOK, Reply
  <2> QED
    BY <1>9, <2>1, <2>2 DEF Reply, ChannelsOK, TaskOK, RunOK, TickerOK,
       chanVars, taskVars, runVars, tickVars
<1>10. CASE Expire
  <2>1. CacheOK'
    BY <1>10 DEF CacheOK, Expire, TimerStep
  <2>2. TaskOK'
    BY <1>10 DEF TaskOK, Expire, TimerStep
  <2> QED
    BY <1>10, <2>1, <2>2 DEF Expire, TimerStep, ClientsOK, ChannelsOK, RunOK,
       TickerOK, clientVars, chanVars, runVars, tickVars
<1>11. CASE CloseMessage
  <2>1. CacheOK'
    BY <1>11 DEF CacheOK, CloseMessage, TimerStep
  <2>2. ChannelsOK'
    BY <1>11 DEF ChannelsOK, CloseMessage, TimerStep
  <2> QED
    BY <1>11, <2>1, <2>2 DEF CloseMessage, TimerStep, ClientsOK, TaskOK, RunOK,
       TickerOK, clientVars, taskVars, runVars, tickVars
<1>12. CASE SetMessageNil
  <2>1. CacheOK'
    BY <1>12 DEF CacheOK, SetMessageNil, TimerStep
  <2>2. ChannelsOK'
    BY <1>12 DEF ChannelsOK, SetMessageNil, TimerStep
  <2> QED
    BY <1>12, <2>1, <2>2 DEF SetMessageNil, TimerStep, ClientsOK, TaskOK, RunOK,
       TickerOK, clientVars, taskVars, runVars, tickVars
<1>13. CASE CloseInput
  <2>1. CacheOK'
    BY <1>13 DEF CacheOK, CloseInput, TimerStep
  <2>2. ChannelsOK'
    BY <1>13 DEF ChannelsOK, CloseInput, TimerStep
  <2> QED
    BY <1>13, <2>1, <2>2 DEF CloseInput, TimerStep, ClientsOK, TaskOK, RunOK,
       TickerOK, clientVars, taskVars, runVars, tickVars
<1>14. CASE DeleteExpired
  <2>1. CacheOK'
    BY <1>14 DEF CacheOK, DeleteExpired, TimerStep
  <2> QED
    BY <1>14, <2>1 DEF DeleteExpired, TimerStep, ClientsOK, ChannelsOK, TaskOK,
       RunOK, TickerOK, clientVars, chanVars, taskVars, runVars, tickVars
<1>15. CASE Tick
  <2>1. TickerOK'
    BY <1>15 DEF TickerOK, Tick
  <2> QED
    BY <1>15, <2>1 DEF Tick, ClientsOK, CacheOK, ChannelsOK, TaskOK, RunOK,
       clientVars, cacheVars, chanVars, taskVars, runVars
<1>16. CASE TickLoad
  <2>1. TickerOK'
    BY <1>16 DEF TickerOK, TickLoad
  <2> QED
    BY <1>16, <2>1 DEF TickLoad, ClientsOK, CacheOK, ChannelsOK, TaskOK, RunOK,
       clientVars, cacheVars, chanVars, taskVars, runVars
<1>17. CASE TickSend
  <2>1. ChannelsOK'
    BY <1>17 DEF ChannelsOK, TickSend
  <2>2. TickerOK'
    BY <1>17 DEF TickerOK, TickSend
  <2> QED
    BY <1>17, <2>1, <2>2 DEF TickSend, ClientsOK, CacheOK, TaskOK, RunOK,
       clientVars, cacheVars, taskVars, runVars
<1>18. CASE RunStart
  <2>1. TaskOK'
    BY <1>18 DEF TaskOK, RunStart
  <2>2. RunOK'
    BY <1>18 DEF RunOK, RunState, RunStart
  <2>3. TickerOK'
    BY <1>18 DEF TickerOK, RunStart
  <2> QED
    BY <1>18, <2>1, <2>2, <2>3 DEF RunStart, ClientsOK, CacheOK, ChannelsOK,
       clientVars, cacheVars, chanVars
<1>19. CASE ReadInputArgs
  <2>0. /\ input \in Seq(SUBSET Keys) /\ Len(input) <= Cap
        /\ input # <<>> => /\ Head(input) \in SUBSET Keys
                           /\ Tail(input) \in Seq(SUBSET Keys)
                           /\ Len(Tail(input)) <= Cap
    BY Received DEF ChannelsOK
  <2>1. ChannelsOK'
    BY <1>19, <2>0 DEF ChannelsOK, ReadInputArgs
  <2>2. TaskOK'
    <3>1. run.key \in Keys \union {"-"}
      BY DEF RunOK, RunState
    <3>2. args' \in SUBSET Keys
      BY <1>19, <2>0 DEF TaskOK, ReadInputArgs
    <3>3. ctx' \in SUBSET Keys
      BY <1>19, <2>0, <3>1 DEF TaskOK, ReadInputArgs
    <3>4. finished' \in BOOLEAN /\ needParam' \in BOOLEAN
      BY <1>19 DEF TaskOK, ReadInputArgs
    <3> QED
      BY <1>19, <3>2, <3>3, <3>4 DEF TaskOK, ReadInputArgs
  <2>3. RunOK'
    BY <1>19 DEF RunOK, RunState, ReadInputArgs
  <2> QED
    BY <1>19, <2>1, <2>2, <2>3 DEF ReadInputArgs, ClientsOK, CacheOK, TickerOK,
       clientVars, cacheVars, tickVars
<1>20. CASE AfterNeed
  <2>1. TaskOK'
    BY <1>20 DEF TaskOK, AfterNeed
  <2>2. RunOK'
    BY <1>20 DEF RunOK, RunState, AfterNeed
  <2> QED
    BY <1>20, <2>1, <2>2 DEF AfterNeed, ClientsOK, CacheOK, ChannelsOK,
       TickerOK, clientVars, cacheVars, chanVars, tickVars
<1>21. CASE RunCheck
  <2>1. RunOK'
    BY <1>21 DEF RunOK, RunState, RunCheck
  <2> QED
    BY <1>21, <2>1 DEF RunCheck, ClientsOK, CacheOK, ChannelsOK, TaskOK,
       TickerOK, clientVars, cacheVars, chanVars, taskVars, tickVars
<1>22. CASE RunLoad
  <2>1. RunOK'
    BY <1>22 DEF RunOK, RunState, RunLoad
  <2> QED
    BY <1>22, <2>1 DEF RunLoad, ClientsOK, CacheOK, ChannelsOK, TaskOK,
       TickerOK, clientVars, cacheVars, chanVars, taskVars, tickVars
<1>23. CASE RunSend
  <2>1. ChannelsOK'
    <3>1. run.msg \in Status
      BY DEF RunOK, RunState
    <3>2. message' \in Seq(Status) /\ Len(message') <= Cap
      <4>1. message \in Seq(Status) /\ Len(message) <= Cap
        BY DEF ChannelsOK
      <4>2. CASE UNCHANGED message
        BY <4>1, <4>2
      <4>3. CASE Len(message) < Cap /\ message' = Append(message, run.msg)
        BY <3>1, <4>1, <4>3, Sent
      <4> QED
        BY <1>23, <4>2, <4>3 DEF RunSend
    <3> QED
      BY <1>23, <3>2 DEF ChannelsOK, RunSend
  <2>2. RunOK'
    BY <1>23 DEF RunOK, RunState, RunSend
  <2> QED
    BY <1>23, <2>1, <2>2 DEF RunSend, ClientsOK, CacheOK, TaskOK, TickerOK,
       clientVars, cacheVars, taskVars, tickVars
<1>24. CASE RunAfter
  <2>1. TaskOK'
    BY <1>24 DEF TaskOK, RunAfter
  <2>2. RunOK'
    BY <1>24 DEF RunOK, RunState, RunAfter
  <2> QED
    BY <1>24, <2>1, <2>2 DEF RunAfter, ClientsOK, CacheOK, ChannelsOK, TickerOK,
       clientVars, cacheVars, chanVars, tickVars
<1>25. CASE OpenBrowser
  <2>1. TaskOK'
    BY <1>25 DEF TaskOK, OpenBrowser
  <2>2. RunOK'
    BY <1>25 DEF RunOK, RunState, OpenBrowser
  <2> QED
    BY <1>25, <2>1, <2>2 DEF OpenBrowser, ClientsOK, CacheOK, ChannelsOK,
       TickerOK, clientVars, cacheVars, chanVars, tickVars
<1>26. ASSUME NEW k \in Keys, DeleteContext(k) PROVE TypeOK'
  <2>1. TaskOK'
    BY <1>26 DEF TaskOK, DeleteContext
  <2>2. RunOK'
    BY <1>26 DEF RunOK, RunState, DeleteContext
  <2> QED
    BY <1>26, <2>1, <2>2 DEF DeleteContext, ClientsOK, CacheOK, ChannelsOK,
       TickerOK, clientVars, cacheVars, chanVars, tickVars
<1>27. ASSUME NEW k \in Keys, NEW o \in BOOLEAN, NeedParam(k, o) PROVE TypeOK'
  <2>1. TaskOK'
    BY <1>27 DEF TaskOK, NeedParam
  <2>2. RunOK'
    <3>1. run' \in RunState
      BY <1>27 DEF RunOK, RunState, NeedParam
    <3>2. steps' \in 0..MaxSteps
      BY <1>27 DEF RunOK, NeedParam
    <3> QED
      BY <3>1, <3>2 DEF RunOK
  <2> QED
    BY <1>27, <2>1, <2>2 DEF NeedParam, ClientsOK, CacheOK, ChannelsOK,
       TickerOK, clientVars, cacheVars, chanVars, tickVars
<1>28. ASSUME NEW g \in BOOLEAN, Progress(g) PROVE TypeOK'
  <2>1. RunOK'
    <3>1. run' \in RunState
      BY <1>28 DEF RunOK, RunState, Progress
    <3>2. steps' \in 0..MaxSteps
      BY <1>28 DEF RunOK, Progress
    <3> QED
      BY <3>1, <3>2 DEF RunOK
  <2> QED
    BY <1>28, <2>1 DEF Progress, ClientsOK, CacheOK, ChannelsOK, TaskOK,
       TickerOK, clientVars, cacheVars, chanVars, taskVars, tickVars
<1>29. ASSUME NEW e \in Ending, NEW m \in Terminal, EndWith(e, m) PROVE TypeOK'
  <2>1. TaskOK'
    BY <1>29 DEF TaskOK, EndWith
  <2>2. RunOK'
    BY <1>29 DEF RunOK, RunState, EndWith
  <2> QED
    BY <1>29, <2>1, <2>2 DEF EndWith, ClientsOK, CacheOK, ChannelsOK, TickerOK,
       clientVars, cacheVars, chanVars, tickVars
<1>30. CASE StepPanics
  <2>1. RunOK'
    BY <1>30 DEF RunOK, RunState, StepPanics
  <2> QED
    BY <1>30, <2>1 DEF StepPanics, ClientsOK, CacheOK, ChannelsOK, TaskOK,
       TickerOK, clientVars, cacheVars, chanVars, taskVars, tickVars
<1>31. CASE UNCHANGED vars
  BY <1>31 DEF vars, ClientsOK, CacheOK, ChannelsOK, TaskOK, RunOK, TickerOK,
     clientVars, cacheVars, chanVars, taskVars, runVars, tickVars
<1> QED
  BY <1>1, <1>2, <1>3, <1>4, <1>5, <1>6, <1>7, <1>8, <1>9, <1>10, <1>11, <1>12,
     <1>13, <1>14, <1>15, <1>16, <1>17, <1>18, <1>19, <1>20, <1>21, <1>22,
     <1>23, <1>24, <1>25, <1>26, <1>27, <1>28, <1>29, <1>30, <1>31
  DEF Next, Handler, Close, ReturnMessage, RunProceeds, TemplateStep

LEMMA TypeInit == Init => TypeOK
<1> SUFFICES ASSUME Init PROVE TypeOK
  OBVIOUS
<1>1. ClientsOK /\ CacheOK /\ TaskOK
  <2>1. 0 \in 0..MaxRequests
    BY SessionAssumption DEF SessionAssumption
  <2>2. ClientsOK
    BY <2>1 DEF Init, ClientsOK
  <2> QED
    BY <2>2 DEF Init, CacheOK, TaskOK
<1>2. ChannelsOK
  <2>1. /\ <<>> \in Seq(Status) /\ <<>> \in Seq(SUBSET Keys)
        /\ Len(<<>>) = 0
    OBVIOUS
  <2>2. 0 <= Cap
    BY SessionAssumption DEF SessionAssumption
  <2> QED
    BY <2>1, <2>2 DEF Init, ChannelsOK
<1>3. RunOK /\ TickerOK
  BY SessionAssumption DEF Init, RunOK, RunState, TickerOK, SessionAssumption
<1> QED
  BY <1>1, <1>2, <1>3 DEF TypeOK

(* The state of a session always has its type: the channels hold at most   *)
(* what they have room for, whoever sends (makes of the two channels in    *)
(* createCommandWithPrivateKey).                                           *)
THEOREM TypeCorrect == Spec => []TypeOK
<1> QED
  BY TypeInit, TypeStep, PTL DEF Spec

-----------------------------------------------------------------------------
(* The steps of Close come in order; SetCommand finds the timer unarmed.    *)
LEMMA CloseStep == CloseInv /\ CallerInv /\ [Next]_vars => CloseInv'
<1> SUFFICES ASSUME CloseInv, CallerInv, [Next]_vars PROVE CloseInv'
  OBVIOUS
<1> USE DEF CloseInv, CallerInv
<1>1. ASSUME NEW c \in Clients, CreateCommand(c) PROVE CloseInv'
  BY <1>1 DEF CreateCommand, MayRequest, cacheVars, chanVars, taskVars, tickVars
<1>2. ASSUME NEW c \in Clients, GetCommand(c) PROVE CloseInv'
  BY <1>2 DEF GetCommand, MayRequest, cacheVars, chanVars, taskVars, runVars,
     tickVars
<1>3. ASSUME NEW c \in Clients, SetCommand(c) PROVE CloseInv'
  BY <1>3 DEF SetCommand, chanVars, taskVars, runVars, tickVars
<1>4. ASSUME NEW c \in Clients, CheckFinished(c) PROVE CloseInv'
  BY <1>4 DEF CheckFinished, cacheVars, chanVars, taskVars, runVars, tickVars
<1>5. ASSUME NEW c \in Clients, PushInput(c) PROVE CloseInv'
  BY <1>5 DEF PushInput, cacheVars, taskVars, runVars, tickVars
<1>6. ASSUME NEW c \in Clients, PushPanics(c) PROVE CloseInv'
  BY <1>6 DEF PushPanics, cacheVars, chanVars, taskVars, runVars, tickVars
<1>7. ASSUME NEW c \in Clients, LoadMessage(c) PROVE CloseInv'
  BY <1>7 DEF LoadMessage, cacheVars, chanVars, taskVars, runVars, tickVars
<1>8. ASSUME NEW c \in Clients, Receive(c) PROVE CloseInv'
  BY <1>8 DEF Receive, cacheVars, taskVars, runVars, tickVars
<1>9. ASSUME NEW c \in Clients, Reply(c) PROVE CloseInv'
  BY <1>9 DEF Reply, chanVars, taskVars, runVars, tickVars
<1>10. CASE Expire
  BY <1>10 DEF Expire, TimerStep, clientVars, chanVars, runVars, tickVars
<1>11. CASE CloseMessage
  BY <1>11 DEF CloseMessage, TimerStep, clientVars, runVars, tickVars
<1>12. CASE SetMessageNil
  BY <1>12 DEF SetMessageNil, TimerStep, clientVars, runVars, tickVars
<1>13. CASE CloseInput
  BY <1>13 DEF CloseInput, TimerStep, clientVars, runVars, tickVars
<1>14. CASE DeleteExpired
  BY <1>14 DEF DeleteExpired, TimerStep, clientVars, chanVars, runVars, tickVars
<1>15. CASE Tick
  BY <1>15 DEF Tick, clientVars, cacheVars, chanVars, taskVars, runVars
<1>16. CASE TickLoad
  BY <1>16 DEF TickLoad, clientVars, cacheVars, chanVars, taskVars, runVars
<1>17. CASE TickSend
  BY <1>17 DEF TickSend, clientVars, cacheVars, taskVars, runVars
<1>18. CASE RunStart
  BY <1>18 DEF RunStart, clientVars, cacheVars, chanVars
<1>19. CASE ReadInputArgs
  BY <1>19 DEF ReadInputArgs, clientVars, cacheVars, tickVars
<1>20. CASE AfterNeed
  BY <1>20 DEF AfterNeed, clientVars, cacheVars, chanVars, tickVars
<1>21. CASE RunCheck
  BY <1>21 DEF RunCheck, clientVars, cacheVars, chanVars, taskVars, tickVars
<1>22. CASE RunLoad
  BY <1>22 DEF RunLoad, clientVars, cacheVars, chanVars, taskVars, tickVars
<1>23. CASE RunSend
  BY <1>23 DEF RunSend, clientVars, cacheVars, taskVars, tickVars
<1>24. CASE RunAfter
  BY <1>24 DEF RunAfter, clientVars, cacheVars, chanVars, tickVars
<1>25. CASE OpenBrowser
  BY <1>25 DEF OpenBrowser, clientVars, cacheVars, chanVars, tickVars
<1>26. ASSUME NEW k \in Keys, DeleteContext(k) PROVE CloseInv'
  BY <1>26 DEF DeleteContext, clientVars, cacheVars, chanVars, tickVars
<1>27. ASSUME NEW k \in Keys, NEW o \in BOOLEAN, NeedParam(k, o) PROVE CloseInv'
  BY <1>27 DEF NeedParam, clientVars, cacheVars, chanVars, tickVars
<1>28. ASSUME NEW g \in BOOLEAN, Progress(g) PROVE CloseInv'
  BY <1>28 DEF Progress, clientVars, cacheVars, chanVars, taskVars, tickVars
<1>29. ASSUME NEW e \in Ending, NEW m \in Terminal, EndWith(e, m) PROVE
   CloseInv'
  BY <1>29 DEF EndWith, clientVars, cacheVars, chanVars, tickVars
<1>30. CASE StepPanics
  BY <1>30 DEF StepPanics, clientVars, cacheVars, chanVars, taskVars, tickVars
<1>31. CASE UNCHANGED vars
  BY <1>31 DEF vars, clientVars, cacheVars, chanVars, taskVars, runVars,
     tickVars
<1> QED
  BY <1>1, <1>2, <1>3, <1>4, <1>5, <1>6, <1>7, <1>8, <1>9, <1>10, <1>11, <1>12,
     <1>13, <1>14, <1>15, <1>16, <1>17, <1>18, <1>19, <1>20, <1>21, <1>22,
     <1>23, <1>24, <1>25, <1>26, <1>27, <1>28, <1>29, <1>30, <1>31
     DEF Next, Handler, Close, ReturnMessage, RunProceeds, TemplateStep

(* Callers, the cache and the expiry agree on how far the session is.      *)
LEMMA CallerStep == TypeOK /\ CloseInv /\ CallerInv /\ [Next]_vars => CallerInv'
<1> SUFFICES ASSUME TypeOK, CloseInv, CallerInv, [Next]_vars PROVE CallerInv'
  OBVIOUS
<1> USE DEF CloseInv, CallerInv, TypeOK, ClientsOK, CacheOK
<1>1. ASSUME NEW c \in Clients, CreateCommand(c) PROVE CallerInv'
  BY <1>1 DEF CreateCommand, MayRequest, cacheVars, chanVars, taskVars, tickVars
<1>2. ASSUME NEW c \in Clients, GetCommand(c) PROVE CallerInv'
  BY <1>2 DEF GetCommand, MayRequest, cacheVars, chanVars, taskVars, runVars,
     tickVars
<1>3. ASSUME NEW c \in Clients, SetCommand(c) PROVE CallerInv'
  BY <1>3 DEF SetCommand, chanVars, taskVars, runVars, tickVars
<1>4. ASSUME NEW c \in Clients, CheckFinished(c) PROVE CallerInv'
  BY <1>4 DEF CheckFinished, cacheVars, chanVars, taskVars, runVars, tickVars
<1>5. ASSUME NEW c \in Clients, PushInput(c) PROVE CallerInv'
  BY <1>5 DEF PushInput, cacheVars, taskVars, runVars, tickVars
<1>6. ASSUME NEW c \in Clients, PushPanics(c) PROVE CallerInv'
  BY <1>6 DEF PushPanics, cacheVars, chanVars, taskVars, runVars, tickVars
<1>7. ASSUME NEW c \in Clients, LoadMessage(c) PROVE CallerInv'
  BY <1>7 DEF LoadMessage, cacheVars, chanVars, taskVars, runVars, tickVars
<1>8. ASSUME NEW c \in Clients, Receive(c) PROVE CallerInv'
  <2>1. message # <<>> => Head(message) \in Status
    BY Received DEF ChannelsOK
  <2> QED
    BY <1>8, <2>1 DEF Receive, cacheVars, taskVars, runVars, tickVars
<1>9. ASSUME NEW c \in Clients, Reply(c) PROVE CallerInv'
  BY <1>9 DEF Reply, chanVars, taskVars, runVars, tickVars
<1>10. CASE Expire
  BY <1>10 DEF Expire, TimerStep, clientVars, chanVars, runVars, tickVars
<1>11. CASE CloseMessage
  BY <1>11 DEF CloseMessage, TimerStep, clientVars, runVars, tickVars
<1>12. CASE SetMessageNil
  BY <1>12 DEF SetMessageNil, TimerStep, clientVars, runVars, tickVars
<1>13. CASE CloseInput
  BY <1>13 DEF CloseInput, TimerStep, clientVars, runVars, tickVars
<1>14. CASE DeleteExpired
  BY <1>14 DEF DeleteExpired, TimerStep, clientVars, chanVars, runVars, tickVars
<1>15. CASE Tick
  BY <1>15 DEF Tick, clientVars, cacheVars, chanVars, taskVars, runVars
<1>16. CASE TickLoad
  BY <1>16 DEF TickLoad, clientVars, cacheVars, chanVars, taskVars, runVars
<1>17. CASE TickSend
  BY <1>17 DEF TickSend, clientVars, cacheVars, taskVars, runVars
<1>18. CASE RunStart
  <2>1. run.pc # "none" /\ run'.pc # "none"
    BY <1>18 DEF RunOK, RunState, RunStart
  <2> QED
    BY <1>18, <2>1 DEF RunStart, clientVars, cacheVars, chanVars
<1>19. CASE ReadInputArgs
  <2>1. run.pc # "none" /\ run'.pc # "none"
    BY <1>19 DEF RunOK, RunState, ReadInputArgs
  <2> QED
    BY <1>19, <2>1 DEF ReadInputArgs, clientVars, cacheVars, tickVars
<1>20. CASE AfterNeed
  <2>1. run.pc # "none" /\ run'.pc # "none"
    BY <1>20 DEF RunOK, RunState, AfterNeed
  <2> QED
    BY <1>20, <2>1 DEF AfterNeed, clientVars, cacheVars, chanVars, tickVars
<1>21. CASE RunCheck
  <2>1. run.pc # "none" /\ run'.pc # "none"
    BY <1>21 DEF RunOK, RunState, RunCheck
  <2> QED
    BY <1>21, <2>1 DEF RunCheck, clientVars, cacheVars, chanVars, taskVars, tickVars
<1>22. CASE RunLoad
  <2>1. run.pc # "none" /\ run'.pc # "none"
    BY <1>22 DEF RunOK, RunState, RunLoad
  <2> QED
    BY <1>22, <2>1 DEF RunLoad, clientVars, cacheVars, chanVars, taskVars, tickVars
<1>23. CASE RunSend
  <2>1. run.pc # "none" /\ run'.pc # "none"
    BY <1>23 DEF RunOK, RunState, RunSend
  <2> QED
    BY <1>23, <2>1 DEF RunSend, clientVars, cacheVars, taskVars, tickVars
<1>24. CASE RunAfter
  <2>1. run.pc # "none" /\ run'.pc # "none"
    BY <1>24 DEF RunOK, RunState, RunAfter
  <2> QED
    BY <1>24, <2>1 DEF RunAfter, clientVars, cacheVars, chanVars, tickVars
<1>25. CASE OpenBrowser
  BY <1>25 DEF OpenBrowser, clientVars, cacheVars, chanVars, tickVars
<1>26. ASSUME NEW k \in Keys, DeleteContext(k) PROVE CallerInv'
  BY <1>26 DEF DeleteContext, clientVars, cacheVars, chanVars, tickVars
<1>27. ASSUME NEW k \in Keys, NEW o \in BOOLEAN, NeedParam(k, o) PROVE
   CallerInv'
  <2>1. run.pc # "none" /\ run'.pc # "none"
    BY <1>27 DEF RunOK, RunState, NeedParam
  <2> QED
    BY <1>27, <2>1 DEF NeedParam, clientVars, cacheVars, chanVars, tickVars
<1>28. ASSUME NEW g \in BOOLEAN, Progress(g) PROVE CallerInv'
  <2>1. run.pc # "none" /\ run'.pc # "none"
    BY <1>28 DEF RunOK, RunState, Progress
  <2> QED
    BY <1>28, <2>1 DEF Progress, clientVars, cacheVars, chanVars, taskVars, tickVars
<1>29. ASSUME NEW e \in Ending, NEW m \in Terminal, EndWith(e, m) PROVE
   CallerInv'
  <2>1. run.pc # "none" /\ run'.pc # "none"
    BY <1>29 DEF RunOK, RunState, EndWith
  <2> QED
    BY <1>29, <2>1 DEF EndWith, clientVars, cacheVars, chanVars, tickVars
<1>30. CASE StepPanics
  <2>1. run.pc # "none" /\ run'.pc # "none"
    BY <1>30 DEF RunOK, RunState, StepPanics
  <2> QED
    BY <1>30, <2>1 DEF StepPanics, clientVars, cacheVars, chanVars, taskVars, tickVars
<1>31. CASE UNCHANGED vars
  BY <1>31 DEF vars, clientVars, cacheVars, chanVars, taskVars, runVars,
     tickVars
<1> QED
  BY <1>1, <1>2, <1>3, <1>4, <1>5, <1>6, <1>7, <1>8, <1>9, <1>10, <1>11, <1>12,
     <1>13, <1>14, <1>15, <1>16, <1>17, <1>18, <1>19, <1>20, <1>21, <1>22,
     <1>23, <1>24, <1>25, <1>26, <1>27, <1>28, <1>29, <1>30, <1>31
     DEF Next, Handler, Close, ReturnMessage, RunProceeds, TemplateStep

(* run holds an outcome exactly on its way to an ending.                   *)
LEMMA RunStep == TypeOK /\ RunInv /\ [Next]_vars => RunInv'
<1> SUFFICES ASSUME TypeOK, RunInv, [Next]_vars PROVE RunInv'
  OBVIOUS
<1> USE DEF RunInv, TypeOK, RunOK, RunState
<1>1. ASSUME NEW c \in Clients, CreateCommand(c) PROVE RunInv'
  BY <1>1 DEF CreateCommand, MayRequest, cacheVars, chanVars, taskVars, tickVars
<1>2. ASSUME NEW c \in Clients, GetCommand(c) PROVE RunInv'
  BY <1>2 DEF GetCommand, MayRequest, cacheVars, chanVars, taskVars, runVars,
     tickVars
<1>3. ASSUME NEW c \in Clients, SetCommand(c) PROVE RunInv'
  BY <1>3 DEF SetCommand, chanVars, taskVars, runVars, tickVars
<1>4. ASSUME NEW c \in Clients, CheckFinished(c) PROVE RunInv'
  BY <1>4 DEF CheckFinished, cacheVars, chanVars, taskVars, runVars, tickVars
<1>5. ASSUME NEW c \in Clients, PushInput(c) PROVE RunInv'
  BY <1>5 DEF PushInput, cacheVars, taskVars, runVars, tickVars
<1>6. ASSUME NEW c \in Clients, PushPanics(c) PROVE RunInv'
  BY <1>6 DEF PushPanics, cacheVars, chanVars, taskVars, runVars, tickVars
<1>7. ASSUME NEW c \in Clients, LoadMessage(c) PROVE RunInv'
  BY <1>7 DEF LoadMessage, cacheVars, chanVars, taskVars, runVars, tickVars
<1>8. ASSUME NEW c \in Clients, Receive(c) PROVE RunInv'
  BY <1>8 DEF Receive, cacheVars, taskVars, runVars, tickVars
<1>9. ASSUME NEW c \in Clients, Reply(c) PROVE RunInv'
  BY <1>9 DEF Reply, chanVars, taskVars, runVars, tickVars
<1>10. CASE Expire
  BY <1>10 DEF Expire, TimerStep, clientVars, chanVars, runVars, tickVars
<1>11. CASE CloseMessage
  BY <1>11 DEF CloseMessage, TimerStep, clientVars, runVars, tickVars
<1>12. CASE SetMessageNil
  BY <1>12 DEF SetMessageNil, TimerStep, clientVars, runVars, tickVars
<1>13. CASE CloseInput
  BY <1>13 DEF CloseInput, TimerStep, clientVars, runVars, tickVars
<1>14. CASE DeleteExpired
  BY <1>14 DEF DeleteExpired, TimerStep, clientVars, chanVars, runVars, tickVars
<1>15. CASE Tick
  BY <1>15 DEF Tick, clientVars, cacheVars, chanVars, taskVars, runVars
<1>16. CASE TickLoad
  BY <1>16 DEF TickLoad, clientVars, cacheVars, chanVars, taskVars, runVars
<1>17. CASE TickSend
  BY <1>17 DEF TickSend, clientVars, cacheVars, taskVars, runVars
<1>18. CASE RunStart
  BY <1>18 DEF RunStart, clientVars, cacheVars, chanVars
<1>19. CASE ReadInputArgs
  BY <1>19 DEF ReadInputArgs, clientVars, cacheVars, tickVars
<1>20. CASE AfterNeed
  BY <1>20 DEF AfterNeed, clientVars, cacheVars, chanVars, tickVars
<1>21. CASE RunCheck
  BY <1>21 DEF RunCheck, clientVars, cacheVars, chanVars, taskVars, tickVars
<1>22. CASE RunLoad
  BY <1>22 DEF RunLoad, clientVars, cacheVars, chanVars, taskVars, tickVars
<1>23. CASE RunSend
  BY <1>23 DEF RunSend, clientVars, cacheVars, taskVars, tickVars
<1>24. CASE RunAfter
  BY <1>24 DEF RunAfter, clientVars, cacheVars, chanVars, tickVars
<1>25. CASE OpenBrowser
  BY <1>25 DEF OpenBrowser, clientVars, cacheVars, chanVars, tickVars
<1>26. ASSUME NEW k \in Keys, DeleteContext(k) PROVE RunInv'
  BY <1>26 DEF DeleteContext, clientVars, cacheVars, chanVars, tickVars
<1>27. ASSUME NEW k \in Keys, NEW o \in BOOLEAN, NeedParam(k, o) PROVE RunInv'
  BY <1>27 DEF NeedParam, clientVars, cacheVars, chanVars, tickVars
<1>28. ASSUME NEW g \in BOOLEAN, Progress(g) PROVE RunInv'
  BY <1>28 DEF Progress, clientVars, cacheVars, chanVars, taskVars, tickVars
<1>29. ASSUME NEW e \in Ending, NEW m \in Terminal, EndWith(e, m) PROVE RunInv'
  BY <1>29 DEF EndWith, clientVars, cacheVars, chanVars, tickVars
<1>30. CASE StepPanics
  BY <1>30 DEF StepPanics, Ending, clientVars, cacheVars, chanVars, taskVars, tickVars
<1>31. CASE UNCHANGED vars
  BY <1>31 DEF vars, clientVars, cacheVars, chanVars, taskVars, runVars,
     tickVars
<1> QED
  BY <1>1, <1>2, <1>3, <1>4, <1>5, <1>6, <1>7, <1>8, <1>9, <1>10, <1>11, <1>12,
     <1>13, <1>14, <1>15, <1>16, <1>17, <1>18, <1>19, <1>20, <1>21, <1>22,
     <1>23, <1>24, <1>25, <1>26, <1>27, <1>28, <1>29, <1>30, <1>31
     DEF Next, Handler, Close, ReturnMessage, RunProceeds, TemplateStep

-----------------------------------------------------------------------------
(* How a send, a receive and an answer move the outcome.                   *)
LEMMA OutcomeSent ==
    ASSUME message \in Seq(Status), NEW x \in Status, message' = Append(message, x)
    PROVE  /\ HasOutcome' <=> HasOutcome \/ x \in Terminal
           /\ SentOnce /\ ~(HasOutcome /\ x \in Terminal) => SentOnce'
<1>1. /\ Len(message') = Len(message) + 1 /\ Len(message) \in Nat
      /\ \A i \in 1..Len(message) : message'[i] = message[i]
      /\ message'[Len(message) + 1] = x
      /\ DOMAIN message' = 1..(Len(message) + 1)
      /\ DOMAIN message = 1..Len(message)
  BY AppendProperties
<1> QED
  BY <1>1 DEF HasOutcome, SentOnce

LEMMA OutcomeReceived ==
    ASSUME message \in Seq(Status), message # <<>>, message' = Tail(message)
    PROVE  /\ HasOutcome' => HasOutcome
           /\ Head(message) \in Terminal => HasOutcome
           /\ Head(message) \notin Terminal /\ HasOutcome => HasOutcome'
           /\ SentOnce => SentOnce'
           /\ SentOnce /\ Head(message) \in Terminal => ~HasOutcome'
<1>1. /\ Len(message') = Len(message) - 1 /\ Len(message) \in Nat \ {0}
      /\ \A i \in 1..Len(message') : message'[i] = message[i + 1]
      /\ Head(message) = message[1]
      /\ DOMAIN message' = 1..(Len(message) - 1)
      /\ DOMAIN message = 1..Len(message)
  BY HeadTailProperties, EmptySeq
<1>2. \A i \in DOMAIN message' : i + 1 \in DOMAIN message /\ message'[i] = message[i + 1]
                                 /\ i + 1 # 1
  BY <1>1
<1>3. \A i \in DOMAIN message : i # 1 => i - 1 \in DOMAIN message' /\ message'[i - 1] = message[i]
  BY <1>1
<1>4. 1 \in DOMAIN message
  BY <1>1
<1>5. HasOutcome' => HasOutcome
  BY <1>2 DEF HasOutcome
<1>6. Head(message) \in Terminal => HasOutcome
  BY <1>1, <1>4 DEF HasOutcome
<1>7. Head(message) \notin Terminal /\ HasOutcome => HasOutcome'
  BY <1>1, <1>3 DEF HasOutcome
<1>8. SentOnce => SentOnce'
  <2> SUFFICES ASSUME SentOnce, NEW i \in DOMAIN message', NEW j \in DOMAIN message',
                      message'[i] \in Terminal, message'[j] \in Terminal
               PROVE  i = j
    BY DEF SentOnce
  <2>1. i + 1 = j + 1
    BY <1>2 DEF SentOnce
  <2> QED
    BY <2>1, <1>1
<1>9. SentOnce /\ Head(message) \in Terminal => ~HasOutcome'
  BY <1>1, <1>2, <1>4 DEF SentOnce, HasOutcome
<1> QED
  BY <1>5, <1>6, <1>7, <1>8, <1>9

LEMMA Answered ==
    ASSUME ClientsOK, NEW c \in Clients, NEW a, answer[c] \notin Terminal,
           answer' = [answer EXCEPT ![c] = a]
    PROVE  /\ IsTaken' <=> IsTaken \/ a \in Terminal
           /\ TakenOnce /\ ~(IsTaken /\ a \in Terminal) => TakenOnce'
BY DEF ClientsOK, IsTaken, TakenOnce

LEMMA OutcomeStays ==
    /\ UNCHANGED message => (HasOutcome' <=> HasOutcome) /\ (SentOnce => SentOnce')
    /\ UNCHANGED answer => (IsTaken' <=> IsTaken) /\ (TakenOnce => TakenOnce')
BY DEF HasOutcome, SentOnce, IsTaken, TakenOnce

(* The outcome is sent once, taken once, and announced in time.            *)
LEMMA OutcomeStep == IInv /\ [Next]_vars => OutcomeInv'
<1> SUFFICES ASSUME IInv, [Next]_vars PROVE OutcomeInv'
  OBVIOUS
<1> USE DEF IInv, OutcomeInv, TypeOK
<1>1. ASSUME NEW c \in Clients, CreateCommand(c) PROVE OutcomeInv'
  <2>1. (HasOutcome' <=> HasOutcome) /\ SentOnce' /\ (IsTaken' <=> IsTaken) /\ TakenOnce'
    BY <1>1, OutcomeStays DEF CreateCommand, MayRequest, chanVars
  <2> QED
    BY <1>1, <2>1 DEF CreateCommand, MayRequest, cacheVars, chanVars, taskVars,
       tickVars, CallerInv, CloseInv, RunInv, RunOK, RunState, OnePlace,
       SentAtEnding, EndingSends, Announced, DroppedTaken
<1>2. ASSUME NEW c \in Clients, GetCommand(c) PROVE OutcomeInv'
  <2>1. (HasOutcome' <=> HasOutcome) /\ SentOnce'
    BY <1>2, OutcomeStays DEF GetCommand, chanVars
  <2>2. (IsTaken' <=> IsTaken) /\ TakenOnce'
    BY <1>2, Answered, OutcomeStays DEF GetCommand, MayRequest, CallerInv
  <2> QED
    BY <1>2, <2>1, <2>2 DEF GetCommand, MayRequest, cacheVars, chanVars,
       taskVars, runVars, tickVars, OnePlace, SentAtEnding, EndingSends,
       Announced, DroppedTaken
<1>3. ASSUME NEW c \in Clients, SetCommand(c) PROVE OutcomeInv'
  <2>1. (HasOutcome' <=> HasOutcome) /\ SentOnce' /\ (IsTaken' <=> IsTaken) /\ TakenOnce'
    BY <1>3, OutcomeStays DEF SetCommand, chanVars
  <2> QED
    BY <1>3, <2>1 DEF SetCommand, chanVars, taskVars, runVars, tickVars,
       CallerInv, CloseInv, RunInv, RunOK, RunState, OnePlace, SentAtEnding,
       EndingSends, Announced, DroppedTaken
<1>4. ASSUME NEW c \in Clients, CheckFinished(c) PROVE OutcomeInv'
  <2>1. (HasOutcome' <=> HasOutcome) /\ SentOnce' /\ (IsTaken' <=> IsTaken) /\ TakenOnce'
    BY <1>4, OutcomeStays DEF CheckFinished, chanVars
  <2> QED
    BY <1>4, <2>1 DEF CheckFinished, cacheVars, chanVars, taskVars, runVars,
       tickVars, CallerInv, CloseInv, RunInv, RunOK, RunState, OnePlace,
       SentAtEnding, EndingSends, Announced, DroppedTaken
<1>5. ASSUME NEW c \in Clients, PushInput(c) PROVE OutcomeInv'
  <2>1. (HasOutcome' <=> HasOutcome) /\ SentOnce' /\ (IsTaken' <=> IsTaken) /\ TakenOnce'
    BY <1>5, OutcomeStays DEF PushInput
  <2> QED
    BY <1>5, <2>1 DEF PushInput, cacheVars, taskVars, runVars, tickVars,
       CallerInv, CloseInv, RunInv, RunOK, RunState, OnePlace, SentAtEnding,
       EndingSends, Announced, DroppedTaken
<1>6. ASSUME NEW c \in Clients, PushPanics(c) PROVE OutcomeInv'
  <2>1. (HasOutcome' <=> HasOutcome) /\ SentOnce'
    BY <1>6, OutcomeStays DEF PushPanics, chanVars
  <2>2. (IsTaken' <=> IsTaken) /\ TakenOnce'
    <3>1. answer[c] \notin Terminal /\ "empty" \notin Terminal
      BY <1>6 DEF PushPanics, CallerInv
    <3>2. answer' = [answer EXCEPT ![c] = "empty"]
      BY <1>6 DEF PushPanics
    <3> QED
      BY <3>1, <3>2, Answered
  <2> QED
    BY <1>6, <2>1, <2>2 DEF PushPanics, cacheVars, chanVars, taskVars, runVars,
       tickVars, OnePlace, SentAtEnding, EndingSends, Announced, DroppedTaken
<1>7. ASSUME NEW c \in Clients, LoadMessage(c) PROVE OutcomeInv'
  <2>1. (HasOutcome' <=> HasOutcome) /\ SentOnce' /\ (IsTaken' <=> IsTaken) /\ TakenOnce'
    BY <1>7, OutcomeStays DEF LoadMessage, chanVars
  <2> QED
    BY <1>7, <2>1 DEF LoadMessage, cacheVars, chanVars, taskVars, runVars,
       tickVars, CallerInv, CloseInv, RunInv, RunOK, RunState, OnePlace,
       SentAtEnding, EndingSends, Announced, DroppedTaken
<1>8. ASSUME NEW c \in Clients, Receive(c) PROVE OutcomeInv'
  <2>0. /\ message \in Seq(Status)
        /\ answer[c] \notin Terminal
    BY <1>8 DEF Receive, ChannelsOK, CallerInv
  <2>1. CASE message # <<>>
    <3>1. /\ message' = Tail(message)
          /\ answer' = [answer EXCEPT ![c] = Head(message)]
      BY <1>8, <2>1 DEF Receive
    <3>2. CASE Head(message) \in Terminal
      <4>1. HasOutcome /\ ~HasOutcome' /\ SentOnce' /\ ~IsTaken
        BY <2>0, <2>1, <3>1, <3>2, OutcomeReceived DEF OnePlace
      <4>2. IsTaken' /\ TakenOnce'
        BY <2>0, <3>1, <3>2, <4>1, Answered
      <4> QED
        BY <1>8, <4>1, <4>2 DEF Receive, cacheVars, taskVars, runVars, OnePlace,
           SentAtEnding, EndingSends, Announced, DroppedTaken
    <3>3. CASE Head(message) \notin Terminal
      <4>1. (HasOutcome' <=> HasOutcome) /\ SentOnce'
        BY <2>0, <2>1, <3>1, <3>3, OutcomeReceived
      <4>2. (IsTaken' <=> IsTaken) /\ TakenOnce'
        BY <2>0, <3>1, <3>3, Answered
      <4> QED
        BY <1>8, <4>1, <4>2 DEF Receive, cacheVars, taskVars, runVars, OnePlace,
           SentAtEnding, EndingSends, Announced, DroppedTaken
    <3> QED
      BY <3>2, <3>3
  <2>2. CASE message = <<>>
    <3>1. UNCHANGED message /\ answer' = [answer EXCEPT ![c] = "unknown"]
      BY <1>8, <2>2 DEF Receive
    <3>2. (HasOutcome' <=> HasOutcome) /\ SentOnce'
      BY <3>1, OutcomeStays
    <3>3. (IsTaken' <=> IsTaken) /\ TakenOnce'
      <4>1. "unknown" \notin Terminal
        OBVIOUS
      <4> QED
        BY <2>0, <3>1, <4>1, Answered
    <3> QED
      BY <1>8, <3>2, <3>3 DEF Receive, cacheVars, taskVars, runVars, OnePlace,
         SentAtEnding, EndingSends, Announced, DroppedTaken
  <2> QED
    BY <2>1, <2>2
<1>9. ASSUME NEW c \in Clients, Reply(c) PROVE OutcomeInv'
  <2>1. (HasOutcome' <=> HasOutcome) /\ SentOnce' /\ (IsTaken' <=> IsTaken) /\ TakenOnce'
    BY <1>9, OutcomeStays DEF Reply, chanVars
  <2> QED
    <3>1. UNCHANGED <<timer, messageNil, finished, run>>
      BY <1>9 DEF Reply, chanVars, taskVars, runVars
    <3>2. ASSUME timer = "armed", ~cached' PROVE IsTaken
      <4>1. CASE ~cached
        BY <3>2, <4>1 DEF DroppedTaken
      <4>2. CASE answer[c] \in Terminal
        BY <4>2 DEF IsTaken
      <4>3. answer[c] # "unknown"
        BY <1>9, <3>2 DEF Reply, CallerInv
      <4> QED
        BY <1>9, <3>2, <4>1, <4>2, <4>3 DEF Reply
    <3> QED
      BY <2>1, <3>1, <3>2 DEF OnePlace, SentAtEnding, EndingSends, Announced,
         DroppedTaken
<1>10. CASE Expire
  <2>1. (HasOutcome' <=> HasOutcome) /\ SentOnce' /\ (IsTaken' <=> IsTaken) /\ TakenOnce'
    BY <1>10, OutcomeStays DEF Expire, TimerStep, clientVars, chanVars
  <2> QED
    BY <1>10, <2>1 DEF Expire, TimerStep, clientVars, chanVars, runVars,
       tickVars, CallerInv, CloseInv, RunInv, RunOK, RunState, OnePlace,
       SentAtEnding, EndingSends, Announced, DroppedTaken
<1>11. CASE CloseMessage
  <2>1. (HasOutcome' <=> HasOutcome) /\ SentOnce' /\ (IsTaken' <=> IsTaken) /\ TakenOnce'
    BY <1>11, OutcomeStays DEF CloseMessage, TimerStep, clientVars
  <2> QED
    BY <1>11, <2>1 DEF CloseMessage, TimerStep, clientVars, runVars, tickVars,
       CallerInv, CloseInv, RunInv, RunOK, RunState, OnePlace, SentAtEnding,
       EndingSends, Announced, DroppedTaken
<1>12. CASE SetMessageNil
  <2>1. (HasOutcome' <=> HasOutcome) /\ SentOnce' /\ (IsTaken' <=> IsTaken) /\ TakenOnce'
    BY <1>12, OutcomeStays DEF SetMessageNil, TimerStep, clientVars
  <2> QED
    BY <1>12, <2>1 DEF SetMessageNil, TimerStep, clientVars, runVars, tickVars,
       CallerInv, CloseInv, RunInv, RunOK, RunState, OnePlace, SentAtEnding,
       EndingSends, Announced, DroppedTaken
<1>13. CASE CloseInput
  <2>1. (HasOutcome' <=> HasOutcome) /\ SentOnce' /\ (IsTaken' <=> IsTaken) /\ TakenOnce'
    BY <1>13, OutcomeStays DEF CloseInput, TimerStep, clientVars
  <2> QED
    BY <1>13, <2>1 DEF CloseInput, TimerStep, clientVars, runVars, tickVars,
       CallerInv, CloseInv, RunInv, RunOK, RunState, OnePlace, SentAtEnding,
       EndingSends, Announced, DroppedTaken
<1>14. CASE DeleteExpired
  <2>1. (HasOutcome' <=> HasOutcome) /\ SentOnce' /\ (IsTaken' <=> IsTaken) /\ TakenOnce'
    BY <1>14, OutcomeStays DEF DeleteExpired, TimerStep, clientVars, chanVars
  <2> QED
    BY <1>14, <2>1 DEF DeleteExpired, TimerStep, clientVars, chanVars, runVars,
       tickVars, CallerInv, CloseInv, RunInv, RunOK, RunState, OnePlace,
       SentAtEnding, EndingSends, Announced, DroppedTaken
<1>15. CASE Tick
  <2>1. (HasOutcome' <=> HasOutcome) /\ SentOnce' /\ (IsTaken' <=> IsTaken) /\ TakenOnce'
    BY <1>15, OutcomeStays DEF Tick, clientVars, chanVars
  <2> QED
    BY <1>15, <2>1 DEF Tick, clientVars, cacheVars, chanVars, taskVars, runVars,
       CallerInv, CloseInv, RunInv, RunOK, RunState, OnePlace, SentAtEnding,
       EndingSends, Announced, DroppedTaken
<1>16. CASE TickLoad
  <2>1. (HasOutcome' <=> HasOutcome) /\ SentOnce' /\ (IsTaken' <=> IsTaken) /\ TakenOnce'
    BY <1>16, OutcomeStays DEF TickLoad, clientVars, chanVars
  <2> QED
    BY <1>16, <2>1 DEF TickLoad, clientVars, cacheVars, chanVars, taskVars,
       runVars, CallerInv, CloseInv, RunInv, RunOK, RunState, OnePlace,
       SentAtEnding, EndingSends, Announced, DroppedTaken
<1>17. CASE TickSend
  <2>1. /\ HasOutcome' <=> HasOutcome \/ (message' # message /\ "in_crawling" \in Terminal)
        /\ SentOnce'
    <3>1. "in_crawling" \in Status \ Terminal
      OBVIOUS
    <3>2. message \in Seq(Status)
      BY DEF ChannelsOK
    <3>3. CASE UNCHANGED message
      BY <3>3, OutcomeStays
    <3>4. CASE message' = Append(message, "in_crawling")
      <4>1. message' # message
        BY <3>1, <3>2, <3>4, AppendProperties
      <4> QED
        BY <3>1, <3>2, <3>4, <4>1, OutcomeSent
    <3> QED
      BY <1>17, <3>3, <3>4 DEF TickSend
  <2>2. (IsTaken' <=> IsTaken) /\ TakenOnce'
    BY <1>17, OutcomeStays DEF TickSend, clientVars
  <2> QED
    BY <1>17, <2>1, <2>2 DEF TickSend, clientVars, cacheVars, taskVars, runVars,
       RunInv, CloseInv, RunOK, RunState, OnePlace, SentAtEnding, EndingSends,
       Announced, DroppedTaken
<1>18. CASE RunStart
  <2>1. (HasOutcome' <=> HasOutcome) /\ SentOnce' /\ (IsTaken' <=> IsTaken) /\ TakenOnce'
    BY <1>18, OutcomeStays DEF RunStart, clientVars, chanVars
  <2> QED
    BY <1>18, <2>1 DEF RunStart, clientVars, cacheVars, chanVars, CallerInv,
       CloseInv, RunInv, RunOK, RunState, OnePlace, SentAtEnding, EndingSends,
       Announced, DroppedTaken
<1>19. CASE ReadInputArgs
  <2>1. (HasOutcome' <=> HasOutcome) /\ SentOnce' /\ (IsTaken' <=> IsTaken) /\ TakenOnce'
    BY <1>19, OutcomeStays DEF ReadInputArgs, clientVars
  <2> QED
    BY <1>19, <2>1 DEF ReadInputArgs, clientVars, cacheVars, tickVars,
       CallerInv, CloseInv, RunInv, RunOK, RunState, OnePlace, SentAtEnding,
       EndingSends, Announced, DroppedTaken
<1>20. CASE AfterNeed
  <2>1. (HasOutcome' <=> HasOutcome) /\ SentOnce' /\ (IsTaken' <=> IsTaken) /\ TakenOnce'
    BY <1>20, OutcomeStays DEF AfterNeed, clientVars, chanVars
  <2> QED
    BY <1>20, <2>1 DEF AfterNeed, clientVars, cacheVars, chanVars, tickVars,
       CallerInv, CloseInv, RunInv, RunOK, RunState, OnePlace, SentAtEnding,
       EndingSends, Announced, DroppedTaken
<1>21. CASE RunCheck
  <2>1. (HasOutcome' <=> HasOutcome) /\ SentOnce' /\ (IsTaken' <=> IsTaken) /\ TakenOnce'
    BY <1>21, OutcomeStays DEF RunCheck, clientVars, chanVars
  <2> QED
    BY <1>21, <2>1 DEF RunCheck, clientVars, cacheVars, chanVars, taskVars,
       tickVars, CallerInv, CloseInv, RunInv, RunOK, RunState, OnePlace,
       SentAtEnding, EndingSends, Announced, DroppedTaken
<1>22. CASE RunLoad
  <2>1. (HasOutcome' <=> HasOutcome) /\ SentOnce' /\ (IsTaken' <=> IsTaken) /\ TakenOnce'
    BY <1>22, OutcomeStays DEF RunLoad, clientVars, chanVars
  <2> QED
    BY <1>22, <2>1 DEF RunLoad, clientVars, cacheVars, chanVars, taskVars,
       tickVars, CallerInv, CloseInv, RunInv, RunOK, RunState, OnePlace,
       SentAtEnding, EndingSends, Announced, DroppedTaken
<1>23. CASE RunSend
  <2>1. /\ HasOutcome' <=> HasOutcome \/ (message' # message /\ run.msg \in Terminal)
        /\ SentOnce'
    <3>1. run.msg \in Status /\ ~(HasOutcome /\ run.msg \in Terminal)
      BY <1>23 DEF RunSend, RunOK, RunState, SentAtEnding
    <3>2. message \in Seq(Status)
      BY DEF ChannelsOK
    <3>3. CASE UNCHANGED message
      BY <3>3, OutcomeStays
    <3>4. CASE message' = Append(message, run.msg)
      <4>1. message' # message
        BY <3>1, <3>2, <3>4, AppendProperties
      <4> QED
        BY <3>1, <3>2, <3>4, <4>1, OutcomeSent
    <3> QED
      BY <1>23, <3>3, <3>4 DEF RunSend
  <2>2. (IsTaken' <=> IsTaken) /\ TakenOnce'
    BY <1>23, OutcomeStays DEF RunSend, clientVars
  <2> QED
    <3>1. UNCHANGED <<timer, cached, messageNil, finished>>
      BY <1>23 DEF RunSend, cacheVars, taskVars
    <3>2. ~HasOutcome /\ ~IsTaken
      BY <1>23 DEF RunSend, SentAtEnding
    <3>3. run.msg \in Terminal <=> run.then \in Ending
      BY <1>23 DEF RunSend, RunInv
    <3>4. CASE messageClosed
      <4>1. UNCHANGED message /\ run'.pc = "exit"
        BY <1>23, <3>4 DEF RunSend, RunOK, RunState
      <4>2. timer \notin {"none", "armed"}
        BY <3>4 DEF CloseInv
      <4> QED
        BY <2>1, <2>2, <3>1, <3>2, <4>1, <4>2 DEF OnePlace, SentAtEnding,
           EndingSends, Announced, DroppedTaken
    <3>5. CASE ~messageClosed
      <4>1. /\ message' # message
            /\ run'.pc = "after" /\ run'.then = run.then
        <5>1. run.msg \in Status /\ message \in Seq(Status)
          BY DEF RunOK, RunState, ChannelsOK
        <5> QED
          BY <1>23, <3>5, <5>1, AppendProperties DEF RunSend, RunOK, RunState
      <4> QED
        BY <2>1, <2>2, <3>1, <3>2, <3>3, <4>1 DEF OnePlace, SentAtEnding,
           EndingSends, Announced, DroppedTaken
    <3> QED
      BY <3>4, <3>5
<1>24. CASE RunAfter
  <2>1. (HasOutcome' <=> HasOutcome) /\ SentOnce' /\ (IsTaken' <=> IsTaken) /\ TakenOnce'
    BY <1>24, OutcomeStays DEF RunAfter, clientVars, chanVars
  <2> QED
    <3>1. UNCHANGED <<timer, cached, messageNil>>
      BY <1>24 DEF RunAfter, cacheVars, chanVars
    <3>2. CASE run.then \in {"continue", "guarded"}
      <4>1. run'.pc = "ready" /\ UNCHANGED finished
        BY <1>24, <3>2 DEF RunAfter, RunOK, RunState
      <4>2. ~HasOutcome /\ ~IsTaken
        BY <3>2 DEF SentAtEnding
      <4> QED
        BY <2>1, <3>1, <4>1, <4>2 DEF OnePlace, SentAtEnding, EndingSends,
           Announced, DroppedTaken
    <3>3. CASE run.then \in Ending
      <4>1. run'.pc = "exit" /\ run'.then = run.then
        BY <1>24, <3>3 DEF RunAfter, RunOK, RunState
      <4>2. timer \in {"none", "armed"} => HasOutcome \/ IsTaken
        BY <1>24, <3>3 DEF RunAfter, EndingSends, CloseInv
      <4> QED
        BY <2>1, <3>1, <3>3, <4>1, <4>2 DEF OnePlace, SentAtEnding,
           EndingSends, Announced, DroppedTaken
    <3> QED
      BY <1>24, <3>2, <3>3 DEF RunAfter
<1>25. CASE OpenBrowser
  <2>1. (HasOutcome' <=> HasOutcome) /\ SentOnce' /\ (IsTaken' <=> IsTaken) /\ TakenOnce'
    BY <1>25, OutcomeStays DEF OpenBrowser, clientVars, chanVars
  <2> QED
    BY <1>25, <2>1 DEF OpenBrowser, clientVars, cacheVars, chanVars, tickVars,
       CallerInv, CloseInv, RunInv, RunOK, RunState, OnePlace, SentAtEnding,
       EndingSends, Announced, DroppedTaken
<1>26. ASSUME NEW k \in Keys, DeleteContext(k) PROVE OutcomeInv'
  <2>1. (HasOutcome' <=> HasOutcome) /\ SentOnce' /\ (IsTaken' <=> IsTaken) /\ TakenOnce'
    BY <1>26, OutcomeStays DEF DeleteContext, clientVars, chanVars
  <2> QED
    BY <1>26, <2>1 DEF DeleteContext, clientVars, cacheVars, chanVars, tickVars,
       CallerInv, CloseInv, RunInv, RunOK, RunState, OnePlace, SentAtEnding,
       EndingSends, Announced, DroppedTaken
<1>27. ASSUME NEW k \in Keys, NEW o \in BOOLEAN, NeedParam(k, o) PROVE
   OutcomeInv'
  <2>1. (HasOutcome' <=> HasOutcome) /\ SentOnce' /\ (IsTaken' <=> IsTaken) /\ TakenOnce'
    BY <1>27, OutcomeStays DEF NeedParam, clientVars, chanVars
  <2> QED
    BY <1>27, <2>1 DEF NeedParam, clientVars, cacheVars, chanVars, tickVars,
       CallerInv, CloseInv, RunInv, RunOK, RunState, OnePlace, SentAtEnding,
       EndingSends, Announced, DroppedTaken
<1>28. ASSUME NEW g \in BOOLEAN, Progress(g) PROVE OutcomeInv'
  <2>1. (HasOutcome' <=> HasOutcome) /\ SentOnce' /\ (IsTaken' <=> IsTaken) /\ TakenOnce'
    BY <1>28, OutcomeStays DEF Progress, clientVars, chanVars
  <2> QED
    BY <1>28, <2>1 DEF Progress, clientVars, cacheVars, chanVars, taskVars,
       tickVars, CallerInv, CloseInv, RunInv, RunOK, RunState, OnePlace,
       SentAtEnding, EndingSends, Announced, DroppedTaken
<1>29. ASSUME NEW e \in Ending, NEW m \in Terminal, EndWith(e, m) PROVE
   OutcomeInv'
  <2>1. (HasOutcome' <=> HasOutcome) /\ SentOnce' /\ (IsTaken' <=> IsTaken) /\ TakenOnce'
    BY <1>29, OutcomeStays DEF EndWith, clientVars, chanVars
  <2> QED
    BY <1>29, <2>1 DEF EndWith, clientVars, cacheVars, chanVars, tickVars,
       CallerInv, CloseInv, RunInv, RunOK, RunState, OnePlace, SentAtEnding,
       EndingSends, Announced, DroppedTaken
<1>30. CASE StepPanics
  <2>1. (HasOutcome' <=> HasOutcome) /\ SentOnce' /\ (IsTaken' <=> IsTaken) /\ TakenOnce'
    BY <1>30, OutcomeStays DEF StepPanics, clientVars, chanVars
  <2> QED
    BY <1>30, <2>1 DEF StepPanics, clientVars, cacheVars, chanVars, taskVars,
       tickVars, CallerInv, CloseInv, RunInv, RunOK, RunState, OnePlace,
       SentAtEnding, EndingSends, Announced, DroppedTaken
<1>31. CASE UNCHANGED vars
  <2>1. (HasOutcome' <=> HasOutcome) /\ SentOnce' /\ (IsTaken' <=> IsTaken) /\ TakenOnce'
    BY <1>31, OutcomeStays DEF vars, clientVars, chanVars
  <2> QED
    BY <1>31, <2>1 DEF vars, clientVars, cacheVars, chanVars, taskVars, runVars,
       tickVars, OnePlace, SentAtEnding, EndingSends, Announced, DroppedTaken
<1> QED
  BY <1>1, <1>2, <1>3, <1>4, <1>5, <1>6, <1>7, <1>8, <1>9, <1>10, <1>11, <1>12,
     <1>13, <1>14, <1>15, <1>16, <1>17, <1>18, <1>19, <1>20, <1>21, <1>22,
     <1>23, <1>24, <1>25, <1>26, <1>27, <1>28, <1>29, <1>30, <1>31
     DEF Next, Handler, Close, ReturnMessage, RunProceeds, TemplateStep

-----------------------------------------------------------------------------
LEMMA InvariantInit == Init => IInv
<1> SUFFICES ASSUME Init PROVE IInv
  OBVIOUS
<1>1. TypeOK
  BY TypeInit
<1>2. CloseInv /\ CallerInv
  BY DEF Init, CloseInv, CallerInv
<1>3. RunInv
  BY DEF Init, RunInv
<1>4. ~HasOutcome /\ SentOnce
  BY DEF Init, HasOutcome, SentOnce
<1>5. ~IsTaken /\ TakenOnce
  BY DEF Init, IsTaken, TakenOnce
<1>6. OutcomeInv
  BY <1>4, <1>5 DEF Init, OutcomeInv, OnePlace, SentAtEnding, EndingSends,
     Announced, DroppedTaken
<1> QED
  BY <1>1, <1>2, <1>3, <1>6 DEF IInv

(* The inductive invariant: the steps of Close, the callers, the           *)
(* interpreter and the one outcome of a session always fit together, in    *)
(* every interleaving of the goroutines of a TaskCmd.                      *)
THEOREM Inductive == Spec => []IInv
<1>1. Init => IInv
  BY InvariantInit
<1>2. IInv /\ [Next]_vars => IInv'
  BY TypeStep, CloseStep, CallerStep, RunStep, OutcomeStep DEF IInv
<1> QED
  BY <1>1, <1>2, PTL DEF Spec

LEMMA BufferedTaken ==
    /\ Buffered(Terminal) # {} <=> HasOutcome
    /\ Taken # {} <=> IsTaken
BY DEF Buffered, HasOutcome, Taken, IsTaken

(* At most one outcome exists, in the channel or with one caller: run      *)
(* returns after every message that ends the session.                      *)
THEOREM OneOutcomeHolds == Spec => []OneOutcome
<1>1. ASSUME IInv PROVE OneOutcome
  <2>1. Buffered(Terminal) = {} \/ \E i : Buffered(Terminal) = {i}
    BY <1>1 DEF IInv, OutcomeInv, SentOnce, Buffered
  <2>2. Taken = {} \/ \E c : Taken = {c}
    BY <1>1 DEF IInv, OutcomeInv, TakenOnce, Taken
  <2>3. Buffered(Terminal) = {} \/ Taken = {}
    BY <1>1, BufferedTaken DEF IInv, OutcomeInv, OnePlace
  <2>4. Cardinality({}) = 0 /\ \A x : Cardinality({x}) = 1
    BY FS_EmptySet, FS_Singleton
  <2>5. CASE Buffered(Terminal) = {}
    <3>1. Cardinality(Taken) \in {0, 1}
      BY <2>2, <2>4
    <3> QED
      BY <2>4, <2>5, <3>1 DEF OneOutcome
  <2>6. CASE Taken = {}
    <3>1. Cardinality(Buffered(Terminal)) \in {0, 1}
      BY <2>1, <2>4
    <3> QED
      BY <2>4, <2>6, <3>1 DEF OneOutcome
  <2> QED
    BY <2>3, <2>5, <2>6
<1> QED
  BY <1>1, Inductive, PTL

(* While the session lives, the outcome that waits in the channel can be   *)
(* fetched: Process has not dropped the id for an earlier answer.          *)
THEOREM OutcomeReachableHolds == Spec => []OutcomeReachable
<1>1. IInv => OutcomeReachable
  BY BufferedTaken DEF IInv, OutcomeInv, OnePlace, DroppedTaken,
     OutcomeReachable
<1> QED
  BY <1>1, Inductive, PTL

(* A live session that ignores its input has announced its outcome first.  *)
THEOREM FinishedIsAnnouncedHolds == Spec => []FinishedIsAnnounced
<1>1. IInv => FinishedIsAnnounced
  BY BufferedTaken DEF IInv, OutcomeInv, Announced, FinishedIsAnnounced
<1> QED
  BY <1>1, Inductive, PTL

-----------------------------------------------------------------------------
(* The refinement: how each step of the session is a step of its contract. *)

LEMMA OutcomeValue ==
    /\ outcome = IF IsTaken THEN "taken" ELSE IF HasOutcome THEN "published" ELSE "none"
    /\ outcome' = IF IsTaken' THEN "taken" ELSE IF HasOutcome' THEN "published" ELSE "none"
BY BufferedTaken DEF outcome, Buffered, HasOutcome, Taken, IsTaken

LEMMA ContractStep ==
    ASSUME IInv, IInv', [Next]_vars
    PROVE  [SessionPromise!Next]_(SessionPromise!contractVars)
<1> DEFINE Goal == [SessionPromise!Next]_(SessionPromise!contractVars)
<1> USE DEF SessionPromise!Next, SessionPromise!contractVars
<1>1. ASSUME NEW c \in Clients, CreateCommand(c) PROVE Goal
  <2>1. UNCHANGED outcome
    BY <1>1, OutcomeStays, OutcomeValue DEF CreateCommand, MayRequest, chanVars
  <2> QED
    BY <1>1, <2>1 DEF CreateCommand, cacheVars, listing, expired
<1>2. ASSUME NEW c \in Clients, GetCommand(c) PROVE Goal
  <2>1. UNCHANGED <<listing, expired, message>>
    BY <1>2 DEF GetCommand, cacheVars, chanVars, listing, expired
  <2>2. answer[c] \notin Terminal /\ "gone" \notin Terminal /\ ClientsOK
    BY <1>2 DEF GetCommand, MayRequest, IInv, TypeOK, CallerInv
  <2>3. UNCHANGED answer \/ answer' = [answer EXCEPT ![c] = "gone"]
    BY <1>2 DEF GetCommand
  <2>4. IsTaken' <=> IsTaken
    BY <2>2, <2>3, Answered, OutcomeStays
  <2> QED
    BY <2>1, <2>4, OutcomeStays, OutcomeValue
<1>3. ASSUME NEW c \in Clients, SetCommand(c) PROVE Goal
  <2>1. UNCHANGED outcome
    BY <1>3, OutcomeStays, OutcomeValue DEF SetCommand, chanVars
  <2>2. timer = "none" /\ ~cached /\ timer' = "armed" /\ cached'
    BY <1>3 DEF SetCommand, IInv, CallerInv, CloseInv
  <2> QED
    BY <2>1, <2>2 DEF SessionPromise!List, listing, expired
<1>4. ASSUME NEW c \in Clients, CheckFinished(c) PROVE Goal
  <2>1. UNCHANGED outcome
    BY <1>4, OutcomeStays, OutcomeValue DEF CheckFinished, chanVars
  <2> QED
    BY <1>4, <2>1 DEF CheckFinished, cacheVars, listing, expired
<1>5. ASSUME NEW c \in Clients, PushInput(c) PROVE Goal
  <2>1. UNCHANGED outcome
    BY <1>5, OutcomeStays, OutcomeValue DEF PushInput
  <2> QED
    BY <1>5, <2>1 DEF PushInput, cacheVars, listing, expired
<1>6. ASSUME NEW c \in Clients, PushPanics(c) PROVE Goal
  <2>1. UNCHANGED <<listing, expired, message>>
    BY <1>6 DEF PushPanics, cacheVars, chanVars, listing, expired
  <2>2. answer[c] \notin Terminal /\ "empty" \notin Terminal /\ ClientsOK
    BY <1>6 DEF PushPanics, MayRequest, IInv, TypeOK, CallerInv
  <2>3. UNCHANGED answer \/ answer' = [answer EXCEPT ![c] = "empty"]
    BY <1>6 DEF PushPanics
  <2>4. IsTaken' <=> IsTaken
    BY <2>2, <2>3, Answered, OutcomeStays
  <2> QED
    BY <2>1, <2>4, OutcomeStays, OutcomeValue
<1>7. ASSUME NEW c \in Clients, LoadMessage(c) PROVE Goal
  <2>1. UNCHANGED outcome
    BY <1>7, OutcomeStays, OutcomeValue DEF LoadMessage, chanVars
  <2> QED
    BY <1>7, <2>1 DEF LoadMessage, cacheVars, listing, expired
<1>8. ASSUME NEW c \in Clients, Receive(c) PROVE Goal
  <2>1. UNCHANGED <<listing, expired>>
    BY <1>8 DEF Receive, cacheVars, listing, expired
  <2>2. /\ message \in Seq(Status)
        /\ answer[c] \notin Terminal /\ ClientsOK
    BY <1>8 DEF Receive, IInv, TypeOK, ChannelsOK, CallerInv
  <2>3. CASE message # <<>>
    <3>1. /\ message' = Tail(message)
          /\ answer' = [answer EXCEPT ![c] = Head(message)]
      BY <1>8, <2>3 DEF Receive
    <3>2. CASE Head(message) \in Terminal
      <4>1. HasOutcome /\ ~IsTaken /\ IsTaken'
        BY <2>2, <2>3, <3>1, <3>2, OutcomeReceived, Answered DEF IInv,
           OutcomeInv, OnePlace
      <4> QED
        BY <2>1, <4>1, OutcomeValue DEF SessionPromise!Take
    <3>3. CASE Head(message) \notin Terminal
      <4>1. (HasOutcome' <=> HasOutcome) /\ (IsTaken' <=> IsTaken)
        BY <2>2, <2>3, <3>1, <3>3, OutcomeReceived, Answered
      <4> QED
        BY <2>1, <4>1, OutcomeValue
    <3> QED
      BY <3>2, <3>3
  <2>4. CASE message = <<>>
    <3>1. UNCHANGED message /\ answer' = [answer EXCEPT ![c] = "unknown"]
      BY <1>8, <2>4 DEF Receive
    <3>2. "unknown" \notin Terminal
      OBVIOUS
    <3>3. (HasOutcome' <=> HasOutcome) /\ (IsTaken' <=> IsTaken)
      BY <2>2, <3>1, <3>2, OutcomeStays, Answered
    <3> QED
      BY <2>1, <3>3, OutcomeValue
  <2> QED
    BY <2>3, <2>4
<1>9. ASSUME NEW c \in Clients, Reply(c) PROVE Goal
  <2>1. UNCHANGED <<outcome, expired, timer>>
    BY <1>9, OutcomeStays, OutcomeValue DEF Reply, chanVars, expired
  <2>2. CASE UNCHANGED cached
    BY <2>1, <2>2 DEF listing
  <2>3. CASE cached /\ ~cached'
    <3>1. timer # "none"
      BY <2>3 DEF IInv, CloseInv
    <3>2. IsTaken \/ timer # "armed"
      BY <1>9, <2>3 DEF Reply, IInv, CallerInv, IsTaken
    <3> QED
      BY <2>1, <2>3, <3>1, <3>2, OutcomeValue DEF SessionPromise!Drop, listing,
         expired
  <2> QED
    BY <1>9, <2>2, <2>3 DEF Reply, IInv, TypeOK, CacheOK
<1>10. CASE Expire
  <2>1. UNCHANGED outcome
    BY <1>10, OutcomeStays, OutcomeValue DEF Expire, TimerStep, clientVars,
       chanVars
  <2> QED
    BY <1>10, <2>1 DEF Expire, TimerStep, SessionPromise!Expire, listing,
       expired
<1>11. CASE CloseMessage
  <2>1. UNCHANGED outcome
    BY <1>11, OutcomeStays, OutcomeValue DEF CloseMessage, TimerStep, clientVars
  <2> QED
    BY <1>11, <2>1 DEF CloseMessage, TimerStep, listing, expired
<1>12. CASE SetMessageNil
  <2>1. UNCHANGED outcome
    BY <1>12, OutcomeStays, OutcomeValue DEF SetMessageNil, TimerStep,
       clientVars
  <2> QED
    BY <1>12, <2>1 DEF SetMessageNil, TimerStep, listing, expired
<1>13. CASE CloseInput
  <2>1. UNCHANGED outcome
    BY <1>13, OutcomeStays, OutcomeValue DEF CloseInput, TimerStep, clientVars
  <2> QED
    BY <1>13, <2>1 DEF CloseInput, TimerStep, listing, expired
<1>14. CASE DeleteExpired
  <2>1. UNCHANGED outcome
    BY <1>14, OutcomeStays, OutcomeValue DEF DeleteExpired, TimerStep,
       clientVars, chanVars
  <2> QED
    BY <1>14, <2>1 DEF DeleteExpired, TimerStep, SessionPromise!Drop, listing,
       expired
<1>15. CASE Tick
  <2>1. UNCHANGED outcome
    BY <1>15, OutcomeStays, OutcomeValue DEF Tick, clientVars, chanVars
  <2> QED
    BY <1>15, <2>1 DEF Tick, cacheVars, listing, expired
<1>16. CASE TickLoad
  <2>1. UNCHANGED outcome
    BY <1>16, OutcomeStays, OutcomeValue DEF TickLoad, clientVars, chanVars
  <2> QED
    BY <1>16, <2>1 DEF TickLoad, cacheVars, listing, expired
<1>17. CASE TickSend
  <2>1. UNCHANGED <<listing, expired, answer>>
    BY <1>17 DEF TickSend, cacheVars, clientVars, listing, expired
  <2>2. IsTaken' <=> IsTaken
    BY <2>1, OutcomeStays
  <2>3. CASE UNCHANGED message
    BY <2>1, <2>2, <2>3, OutcomeStays, OutcomeValue
  <2>4. CASE message' = Append(message, "in_crawling")
    <3>1. "in_crawling" \in Status \ Terminal /\ message \in Seq(Status)
      BY DEF IInv, TypeOK, ChannelsOK
    <3>2. HasOutcome' <=> HasOutcome
      BY <2>4, <3>1, OutcomeSent
    <3> QED
      BY <2>1, <2>2, <3>2, OutcomeValue
  <2> QED
    BY <1>17, <2>3, <2>4 DEF TickSend
<1>18. CASE RunStart
  <2>1. UNCHANGED outcome
    BY <1>18, OutcomeStays, OutcomeValue DEF RunStart, clientVars, chanVars
  <2> QED
    BY <1>18, <2>1 DEF RunStart, cacheVars, listing, expired
<1>19. CASE ReadInputArgs
  <2>1. UNCHANGED outcome
    BY <1>19, OutcomeStays, OutcomeValue DEF ReadInputArgs, clientVars
  <2> QED
    BY <1>19, <2>1 DEF ReadInputArgs, cacheVars, listing, expired
<1>20. CASE AfterNeed
  <2>1. UNCHANGED outcome
    BY <1>20, OutcomeStays, OutcomeValue DEF AfterNeed, clientVars, chanVars
  <2> QED
    BY <1>20, <2>1 DEF AfterNeed, cacheVars, listing, expired
<1>21. CASE RunCheck
  <2>1. UNCHANGED outcome
    BY <1>21, OutcomeStays, OutcomeValue DEF RunCheck, clientVars, chanVars
  <2> QED
    BY <1>21, <2>1 DEF RunCheck, cacheVars, listing, expired
<1>22. CASE RunLoad
  <2>1. UNCHANGED outcome
    BY <1>22, OutcomeStays, OutcomeValue DEF RunLoad, clientVars, chanVars
  <2> QED
    BY <1>22, <2>1 DEF RunLoad, cacheVars, listing, expired
<1>23. CASE RunSend
  <2>1. UNCHANGED <<listing, expired, answer>>
    BY <1>23 DEF RunSend, cacheVars, clientVars, listing, expired
  <2>2. IsTaken' <=> IsTaken
    BY <2>1, OutcomeStays
  <2>3. CASE UNCHANGED message
    BY <2>1, <2>2, <2>3, OutcomeStays, OutcomeValue
  <2>4. CASE message' = Append(message, run.msg)
    <3>1. run.msg \in Status /\ message \in Seq(Status)
      BY DEF IInv, TypeOK, RunOK, RunState, ChannelsOK
    <3>2. ~HasOutcome /\ ~IsTaken
      BY <1>23 DEF RunSend, IInv, OutcomeInv, SentAtEnding
    <3>3. HasOutcome' <=> run.msg \in Terminal
      BY <2>4, <3>1, <3>2, OutcomeSent
    <3> QED
      BY <2>1, <2>2, <3>2, <3>3, OutcomeValue DEF SessionPromise!Publish
  <2> QED
    BY <1>23, <2>3, <2>4 DEF RunSend
<1>24. CASE RunAfter
  <2>1. UNCHANGED outcome
    BY <1>24, OutcomeStays, OutcomeValue DEF RunAfter, clientVars, chanVars
  <2> QED
    BY <1>24, <2>1 DEF RunAfter, cacheVars, listing, expired
<1>25. CASE OpenBrowser
  <2>1. UNCHANGED outcome
    BY <1>25, OutcomeStays, OutcomeValue DEF OpenBrowser, clientVars, chanVars
  <2> QED
    BY <1>25, <2>1 DEF OpenBrowser, cacheVars, listing, expired
<1>26. ASSUME NEW k \in Keys, DeleteContext(k) PROVE Goal
  <2>1. UNCHANGED outcome
    BY <1>26, OutcomeStays, OutcomeValue DEF DeleteContext, clientVars, chanVars
  <2> QED
    BY <1>26, <2>1 DEF DeleteContext, cacheVars, listing, expired
<1>27. ASSUME NEW k \in Keys, NEW o \in BOOLEAN, NeedParam(k, o) PROVE Goal
  <2>1. UNCHANGED outcome
    BY <1>27, OutcomeStays, OutcomeValue DEF NeedParam, clientVars, chanVars
  <2> QED
    BY <1>27, <2>1 DEF NeedParam, cacheVars, listing, expired
<1>28. ASSUME NEW g \in BOOLEAN, Progress(g) PROVE Goal
  <2>1. UNCHANGED outcome
    BY <1>28, OutcomeStays, OutcomeValue DEF Progress, clientVars, chanVars
  <2> QED
    BY <1>28, <2>1 DEF Progress, cacheVars, listing, expired
<1>29. ASSUME NEW e \in Ending, NEW m \in Terminal, EndWith(e, m) PROVE Goal
  <2>1. UNCHANGED outcome
    BY <1>29, OutcomeStays, OutcomeValue DEF EndWith, clientVars, chanVars
  <2> QED
    BY <1>29, <2>1 DEF EndWith, cacheVars, listing, expired
<1>30. CASE StepPanics
  <2>1. UNCHANGED outcome
    BY <1>30, OutcomeStays, OutcomeValue DEF StepPanics, clientVars, chanVars
  <2> QED
    BY <1>30, <2>1 DEF StepPanics, cacheVars, listing, expired
<1>31. CASE UNCHANGED vars
  <2>1. UNCHANGED outcome
    BY <1>31, OutcomeStays, OutcomeValue DEF vars, clientVars, chanVars
  <2> QED
    BY <1>31, <2>1 DEF vars, cacheVars, listing, expired
<1> QED
  BY <1>1, <1>2, <1>3, <1>4, <1>5, <1>6, <1>7, <1>8, <1>9, <1>10, <1>11, <1>12,
     <1>13, <1>14, <1>15, <1>16, <1>17, <1>18, <1>19, <1>20, <1>21, <1>22,
     <1>23, <1>24, <1>25, <1>26, <1>27, <1>28, <1>29, <1>30, <1>31
     DEF Next, Handler, Close, ReturnMessage, RunProceeds, TemplateStep

(* TaskSession implements SessionContract: one outcome per session, taken  *)
(* at most once, and an id that is dropped only after its outcome was      *)
(* taken or its live time is over (CommandCache and CasperServer.Process). *)
THEOREM Implements == Spec => Contract
<1>1. Init => SessionPromise!Init
  <2> SUFFICES ASSUME Init PROVE SessionPromise!Init
    OBVIOUS
  <2>1. ~IsTaken /\ ~HasOutcome
    BY DEF Init, IsTaken, HasOutcome
  <2> QED
    BY <2>1, OutcomeValue DEF Init, SessionPromise!Init, listing, expired
<1>2. IInv /\ IInv' /\ [Next]_vars => [SessionPromise!Next]_(SessionPromise!contractVars)
  BY ContractStep
<1> QED
  BY <1>1, <1>2, Inductive, PTL DEF Spec, Contract, SessionPromise!Spec

-----------------------------------------------------------------------------
(* What the other goroutines leave alone of the state run works on.        *)
Aside ==
    /\ UNCHANGED <<run, writeResult, browser, args, ctx>>
    /\ finished => finished'
    /\ messageClosed => messageClosed'

LEMMA OthersStandAside ==
    ASSUME [Next]_vars
    PROVE  \/ \E c \in Clients : CreateCommand(c)
           \/ RunProceeds \/ TemplateStep
           \/ Aside
<1>1. ASSUME NEW c \in Clients, GetCommand(c) PROVE Aside
  BY <1>1 DEF Aside, GetCommand, chanVars, taskVars, runVars
<1>2. ASSUME NEW c \in Clients, Handler(c) PROVE Aside
  BY <1>2 DEF Aside, Handler, SetCommand, CheckFinished, PushInput, PushPanics,
     LoadMessage, Receive, Reply, chanVars, taskVars, runVars
<1>3. CASE Expire
  BY <1>3 DEF Aside, Expire, TimerStep, chanVars, runVars
<1>4. CASE Close
  BY <1>4 DEF Aside, Close, CloseMessage, SetMessageNil, CloseInput, DeleteExpired,
     TimerStep, chanVars, runVars
<1>5. CASE ReturnMessage
  BY <1>5 DEF Aside, ReturnMessage, Tick, TickLoad, TickSend, chanVars, taskVars,
     runVars
<1>6. CASE UNCHANGED vars
  BY <1>6 DEF Aside, vars, chanVars, taskVars, runVars
<1> QED
  BY <1>1, <1>2, <1>3, <1>4, <1>5, <1>6 DEF Next

(* What run is sure of by itself: but for a panic, it returns only when    *)
(* the session is finished or its channel closed; its normal end has       *)
(* released everything; it waits only for a key nobody has sent.           *)
EndInv ==
    /\ run.pc = "exit" => finished \/ run.then = "panic"
    /\ run.then = "finish" => writeResult /\ ~browser
    /\ LeaksAreKnown
    /\ WaitsOnlyForMissing

LEMMA EndStep == TypeOK /\ RunInv /\ EndInv /\ [Next]_vars => EndInv'
<1> SUFFICES ASSUME TypeOK, RunInv, EndInv, [Next]_vars PROVE EndInv'
  OBVIOUS
<1> USE DEF EndInv, LeaksAreKnown, WaitsOnlyForMissing, RunInv, TypeOK, TaskOK, RunOK,
    RunState
<1>1. ASSUME NEW c \in Clients, CreateCommand(c) PROVE EndInv'
  BY <1>1 DEF CreateCommand, taskVars, chanVars
<1>2. CASE Aside
  BY <1>2 DEF Aside
<1>3. CASE RunStart
  BY <1>3 DEF RunStart, chanVars
<1>4. CASE ReadInputArgs
  <2>1. run'.pc \in {"read", "needed"} /\ run'.then = run.then
    BY <1>4 DEF ReadInputArgs
  <2>2. run'.pc = "read" => run'.key \notin args' \union ctx'
    BY <1>4 DEF ReadInputArgs
  <2> QED
    BY <1>4, <2>1, <2>2 DEF ReadInputArgs
<1>5. CASE AfterNeed
  BY <1>5 DEF AfterNeed, chanVars
<1>6. CASE RunCheck
  BY <1>6 DEF RunCheck, taskVars, chanVars
<1>7. CASE RunLoad
  BY <1>7 DEF RunLoad, taskVars, chanVars
<1>8. CASE RunSend
  BY <1>8 DEF RunSend, taskVars
<1>9. CASE RunAfter
  BY <1>9 DEF RunAfter, chanVars
<1>10. CASE OpenBrowser
  BY <1>10 DEF OpenBrowser, chanVars
<1>11. ASSUME NEW k \in Keys, DeleteContext(k) PROVE EndInv'
  BY <1>11 DEF DeleteContext, chanVars
<1>12. ASSUME NEW k \in Keys, NEW o \in BOOLEAN, NeedParam(k, o) PROVE EndInv'
  BY <1>12 DEF NeedParam, chanVars
<1>13. ASSUME NEW g \in BOOLEAN, Progress(g) PROVE EndInv'
  BY <1>13 DEF Progress, taskVars, chanVars
<1>14. ASSUME NEW e \in Ending, NEW m \in Terminal, EndWith(e, m) PROVE EndInv'
  BY <1>14 DEF EndWith, chanVars
<1>15. CASE StepPanics
  BY <1>15 DEF StepPanics, taskVars, chanVars
<1> QED
  BY <1>1, <1>2, <1>3, <1>4, <1>5, <1>6, <1>7, <1>8, <1>9, <1>10, <1>11, <1>12,
     <1>13, <1>14, <1>15, OthersStandAside DEF RunProceeds, TemplateStep

(* EndInv holds in every state: none of the properties it adds to IInv is  *)
(* ever disturbed by an action of a caller, of run or of Close.            *)
THEOREM EndInductive == Spec => []EndInv
<1>1. Init => EndInv
  BY DEF Init, EndInv, LeaksAreKnown, WaitsOnlyForMissing
<1>2. IInv /\ EndInv /\ [Next]_vars => EndInv'
  BY EndStep DEF IInv
<1> QED
  BY <1>1, <1>2, Inductive, PTL DEF Spec

(* A browser outlives run only after a failed script or a panic, the       *)
(* periodic writer also after a goto taken too often.                      *)
THEOREM LeaksAreKnownHolds == Spec => []LeaksAreKnown
BY EndInductive, PTL DEF EndInv

(* A parameter that came before it was needed is not asked for again.      *)
THEOREM WaitsOnlyForMissingHolds == Spec => []WaitsOnlyForMissing
BY EndInductive, PTL DEF EndInv

(* Before the expiry a handler finds neither message nor sender only when  *)
(* another caller holds the outcome of the session, or a step panicked.    *)
THEOREM StrandedIsKnownHolds == Spec => []StrandedIsKnown
<1>1. ASSUME IInv, EndInv PROVE StrandedIsKnown
  <2> SUFFICES ASSUME NEW c \in Clients, Stranded(c),
                      run.then # "panic"
               PROVE  \E d \in Clients \ {c} : d \in Taken
    BY DEF StrandedIsKnown
  <2>1. finished
    BY <1>1 DEF Stranded, EndInv, IInv, CloseInv
  <2>2. HasOutcome \/ IsTaken
    BY <1>1, <2>1 DEF Stranded, IInv, OutcomeInv, Announced
  <2>3. ~HasOutcome
    BY DEF Stranded, HasOutcome
  <2>4. answer[c] \notin Terminal
    BY <1>1 DEF Stranded, IInv, CallerInv
  <2> QED
    BY <2>2, <2>3, <2>4 DEF IsTaken, Taken
<1> QED
  BY <1>1, Inductive, EndInductive, PTL

(* Once Close is through and the id is out of the cache, a caller that is  *)
(* not inside a request stays out of the session: its next request is told *)
(* "gone" and never comes to the nil channel.                              *)
THEOREM NoneLostAfterExpiryHolds == Spec => NoneLostAfterExpiry
<1> SUFFICES ASSUME NEW c \in Clients
             PROVE  Spec => [](timer = "done" /\ pc[c] = "idle" => [](pc[c] # "nil"))
  BY DEF NoneLostAfterExpiry
<1> DEFINE Out == timer = "done" /\ pc[c] = "idle"
<1>1. IInv /\ Out /\ [Next]_vars => Out'
  <2> SUFFICES ASSUME IInv, Out, [Next]_vars PROVE Out'
    OBVIOUS
  <2>0. ~cached /\ pc \in [Clients -> {"idle", "set", "check", "push", "load", "recv",
                                       "nil", "reply"}] /\ run.pc # "none"
    BY DEF IInv, TypeOK, ClientsOK, CloseInv, CallerInv
  <2>1. ASSUME NEW d \in Clients, CreateCommand(d) PROVE Out'
    BY <2>0, <2>1 DEF CreateCommand
  <2>2. ASSUME NEW d \in Clients, GetCommand(d) PROVE Out'
    BY <2>0, <2>2 DEF GetCommand, cacheVars
  <2>3. ASSUME NEW d \in Clients, Handler(d) PROVE Out'
    <3>1. timer' = "done"
      <4>1. ~SetCommand(d)
        BY DEF IInv, CallerInv, SetCommand
      <4> QED BY <2>3, <4>1 DEF Handler, CheckFinished, PushInput, PushPanics, LoadMessage,
                 Receive, Reply, cacheVars
    <3>2. pc'[c] = "idle"
      <4>1. pc[d] # "idle" /\ \E x : pc' = [pc EXCEPT ![d] = x]
        BY <2>3 DEF Handler, SetCommand, CheckFinished, PushInput, PushPanics,
           LoadMessage, Receive, Reply
      <4> QED BY <2>0, <4>1
    <3> QED BY <3>1, <3>2
  <2>4. CASE Expire \/ Close
    BY <2>4 DEF Expire, Close, CloseMessage, SetMessageNil, CloseInput, DeleteExpired,
       TimerStep
  <2>5. CASE ReturnMessage \/ RunProceeds
    BY <2>5 DEF ReturnMessage, Tick, TickLoad, TickSend, RunProceeds, RunStart,
       ReadInputArgs, AfterNeed, RunCheck, RunLoad, RunSend, RunAfter, clientVars, cacheVars
  <2>6. CASE TemplateStep
    BY <2>6 DEF TemplateStep, OpenBrowser, DeleteContext, NeedParam, Progress, EndWith,
       StepPanics, clientVars, cacheVars
  <2>7. CASE UNCHANGED vars
    BY <2>7 DEF vars, clientVars, cacheVars
  <2> QED
    BY <2>1, <2>2, <2>3, <2>4, <2>5, <2>6, <2>7 DEF Next
<1>2. Out => pc[c] # "nil"
  OBVIOUS
<1> QED
  BY <1>1, <1>2, Inductive, PTL DEF Spec

-----------------------------------------------------------------------------
(* Who touches the buffer of the messages, and how.                        *)
LEMMA MessageMoves ==
    ASSUME [Next]_vars
    PROVE  \/ UNCHANGED message
           \/ message # <<>> /\ message' = Tail(message)
           \/ message' = Append(message, "in_crawling")
           \/ run.pc = "send" /\ message' = Append(message, run.msg)
<1>1. ASSUME NEW c \in Clients, CreateCommand(c) \/ GetCommand(c) PROVE UNCHANGED message
  BY <1>1 DEF CreateCommand, GetCommand, chanVars
<1>2. ASSUME NEW c \in Clients, Handler(c)
      PROVE  UNCHANGED message \/ (message # <<>> /\ message' = Tail(message))
  BY <1>2 DEF Handler, SetCommand, CheckFinished, PushInput, PushPanics,
     LoadMessage, Receive, Reply, chanVars
<1>3. ASSUME Expire \/ Close PROVE UNCHANGED message
  BY <1>3 DEF Expire, Close, CloseMessage, SetMessageNil, CloseInput, DeleteExpired,
     chanVars
<1>4. ASSUME ReturnMessage
      PROVE  UNCHANGED message \/ message' = Append(message, "in_crawling")
  BY <1>4 DEF ReturnMessage, Tick, TickLoad, TickSend, chanVars
<1>5. ASSUME RunProceeds
      PROVE  UNCHANGED message \/ (run.pc = "send" /\ message' = Append(message, run.msg))
  BY <1>5 DEF RunProceeds, RunStart, ReadInputArgs, AfterNeed, RunCheck, RunLoad,
     RunSend, RunAfter, chanVars
<1>6. ASSUME TemplateStep PROVE UNCHANGED message
  BY <1>6 DEF TemplateStep, OpenBrowser, DeleteContext, NeedParam, Progress, EndWith,
     StepPanics, chanVars
<1>7. CASE UNCHANGED vars
  BY <1>7 DEF vars, chanVars
<1> QED
  BY <1>1, <1>2, <1>3, <1>4, <1>5, <1>6, <1>7 DEF Next

(* The order of the channel, with HasOutcome's reading of its buffer.      *)
LEMMA CrawlingOrder ==
    OnlyCrawlingAfterOutcome <=>
        \A i, j \in DOMAIN message :
            message[i] \in Terminal /\ j > i => message[j] = "in_crawling"
BY DEF OnlyCrawlingAfterOutcome, Buffered

LEMMA CrawlingStep ==
    IInv /\ OnlyCrawlingAfterOutcome /\ [Next]_vars => OnlyCrawlingAfterOutcome'
<1> SUFFICES ASSUME IInv, OnlyCrawlingAfterOutcome, [Next]_vars
             PROVE  OnlyCrawlingAfterOutcome'
  OBVIOUS
<1>0. message \in Seq(Status) /\ run.msg \in Status
  BY DEF IInv, TypeOK, ChannelsOK, RunOK, RunState
<1>1. CASE UNCHANGED message
  BY <1>1 DEF OnlyCrawlingAfterOutcome, Buffered
<1>2. CASE message # <<>> /\ message' = Tail(message)
  <2>1. /\ Len(message) \in Nat /\ Len(message') = Len(message) - 1
        /\ DOMAIN message = 1..Len(message) /\ DOMAIN message' = 1..(Len(message) - 1)
        /\ \A i \in 1..(Len(message) - 1) : message'[i] = message[i + 1]
    BY <1>0, <1>2, HeadTailProperties
  <2>2. SUFFICES ASSUME NEW i \in DOMAIN message', NEW j \in DOMAIN message',
                        message'[i] \in Terminal, j > i
                 PROVE  message'[j] = "in_crawling"
    BY DEF OnlyCrawlingAfterOutcome, Buffered
  <2>3. /\ i + 1 \in DOMAIN message /\ j + 1 \in DOMAIN message /\ j + 1 > i + 1
        /\ message[i + 1] \in Terminal /\ message'[j] = message[j + 1]
    BY <2>1, <2>2
  <2> QED
    BY <2>3, CrawlingOrder
<1>3. ASSUME NEW x \in Status, message' = Append(message, x), x = "in_crawling" \/ ~HasOutcome
      PROVE  OnlyCrawlingAfterOutcome'
  <2>1. /\ Len(message) \in Nat
        /\ DOMAIN message = 1..Len(message) /\ DOMAIN message' = 1..(Len(message) + 1)
        /\ \A i \in 1..Len(message) : message'[i] = message[i]
        /\ message'[Len(message) + 1] = x
    BY <1>0, <1>3, AppendProperties
  <2>2. SUFFICES ASSUME NEW i \in DOMAIN message', NEW j \in DOMAIN message',
                        message'[i] \in Terminal, j > i
                 PROVE  message'[j] = "in_crawling"
    BY DEF OnlyCrawlingAfterOutcome, Buffered
  <2>3. i \in DOMAIN message /\ message[i] \in Terminal
    BY <2>1, <2>2
  <2>4. CASE j \in DOMAIN message
    BY <2>1, <2>2, <2>3, <2>4, CrawlingOrder
  <2>5. CASE j = Len(message) + 1
    BY <1>3, <2>1, <2>3, <2>5 DEF HasOutcome
  <2> QED
    BY <2>1, <2>4, <2>5
<1>4. run.pc = "send" => ~HasOutcome
  BY DEF IInv, OutcomeInv, SentAtEnding
<1> QED
  BY <1>0, <1>1, <1>2, <1>3, <1>4, MessageMoves

(* Behind the outcome in the channel there are keep-alive messages only:   *)
(* run sends nothing after its last message.                               *)
THEOREM OnlyCrawlingHolds == Spec => []OnlyCrawlingAfterOutcome
<1>1. Init => OnlyCrawlingAfterOutcome
  BY DEF Init, OnlyCrawlingAfterOutcome, Buffered
<1> QED
  BY <1>1, CrawlingStep, Inductive, PTL DEF Spec
=============================================================================
