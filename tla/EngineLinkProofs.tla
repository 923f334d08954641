--------------------------- MODULE EngineLinkProofs ---------------------------
(***************************************************************************)
(* Theorems about the engine link, for any number of commands, of engine   *)
(* generations and any limits: main never runs two engines, nobody waits   *)
(* on an engine that is gone, what is over stays over, the link implements *)
(* CommandService, and an engine that keeps its protocol is not accused.   *)
(***************************************************************************)
EXTENDS EngineLink, FiniteSetTheorems, TLAPS

USE ReqsAssumption, MaxGenAssumption, BoundaryAssumption, SupervisorAssumption,
    ControllerAssumption

------------------------------------------------------------------------------
(* What the helpers of the boundary and of the supervisor leave well typed.  *)

LEMMA MessageTypes ==
    /\ \A t \in {"initialize", "ping", "shutdown"} : Control(t) \in ParentMessages
    /\ \A t \in {"ready", "pong", "event", "stopped", "invalid"} : Control(t) \in ChildMessages
    /\ \A r \in Reqs : Execute(r) \in ParentMessages
    /\ \A w \in {"handshake", "ping"} : Failed(w) \in ChildMessages
    /\ \A r \in Reqs, c \in ResultCodes : Result(r, c) \in ChildMessages
BY DEF Control, Execute, Failed, Result, ParentMessages, ChildMessages

LEMMA PostedType ==
    ASSUME ChannelTypeOK, NEW g \in Gens, NEW msg \in ParentMessages
    PROVE  Posted(g, msg) \in [Gens -> Seq(ParentMessages)]
BY DEF ChannelTypeOK, Posted

LEMMA SentType ==
    ASSUME ChannelTypeOK, NEW g \in Gens, NEW msg \in ChildMessages
    PROVE  Sent(g, msg) \in [Gens -> Seq(ChildMessages)]
BY DEF ChannelTypeOK, Sent

LEMMA SentMessages ==
    ASSUME ChannelTypeOK, NEW g \in Gens
    PROVE  /\ \A r \in Reqs, c \in ResultCodes :
                 Sent(g, Result(r, c)) \in [Gens -> Seq(ChildMessages)]
           /\ \A t \in {"ready", "pong", "event", "stopped", "invalid"} :
                 Sent(g, Control(t)) \in [Gens -> Seq(ChildMessages)]
           /\ \A w \in {"handshake", "ping"} :
                 Sent(g, Failed(w)) \in [Gens -> Seq(ChildMessages)]
BY SentType, MessageTypes

\* A kill is only ever of the held child, and only signals a running process.
LEMMA KillStep ==
    ASSUME ChannelTypeOK, Kill
    PROVE  /\ os' \in [Gens -> OsStates]
           /\ \A g \in Gens : Live(g)' <=> Live(g)
           /\ \A g \in Gens : os'[g] = "gone" <=> os[g] = "gone"
           /\ \A g \in Gens : os'[g] = "none" <=> os[g] = "none"
<1>1. PICK accepted \in KillOutcomes : os' = Signalled(proc, accepted)
      BY DEF Kill
<1> QED
  BY <1>1 DEF Signalled, ChannelTypeOK, OsStates, Live

LEMMA RememberedType ==
    ASSUME SupervisorTypeOK, NEW ids \in SUBSET Reqs
    PROVE  Remembered(ids) \subseteq SUBSET Reqs
BY DEF SupervisorTypeOK, Remembered

LEMMA SettlePendingType ==
    ASSUME SupervisorTypeOK, NEW retire \in BOOLEAN, SettlePending(retire)
    PROVE  /\ pending' \in SUBSET Reqs
           /\ outcome' \in [Reqs -> Outcomes]
           /\ retired' \in SUBSET Reqs
<1>1. pending \in SUBSET Reqs /\ outcome \in [Reqs -> Outcomes]
      BY DEF SupervisorTypeOK
<1>2. pending' \in SUBSET Reqs /\ outcome' \in [Reqs -> Outcomes]
      BY <1>1 DEF SettlePending, Outcomes
<1>3. retired' \in SUBSET Reqs
      BY <1>1, RememberedType DEF SettlePending, SupervisorTypeOK
<1> QED  BY <1>2, <1>3

LEMMA AnswerType ==
    ASSUME SupervisorTypeOK, NEW r, NEW code \in Outcomes, Answer(r, code)
    PROVE  outcome' \in [Reqs -> Outcomes]
BY DEF SupervisorTypeOK, Answer

LEMMA TerminateType ==
    ASSUME ChannelTypeOK, SupervisorTypeOK, Terminate
    PROVE  /\ os' \in [Gens -> OsStates]
           /\ timers' \in SUBSET Timers
           /\ pendingPing' \in BOOLEAN /\ condemned' \in BOOLEAN
BY KillStep DEF Terminate, SupervisorTypeOK

LEMMA FailProtocolType ==
    ASSUME ChannelTypeOK, SupervisorTypeOK, FailProtocol
    PROVE  os' \in [Gens -> OsStates] /\ SupervisorTypeOK'
<1>1. CASE protocolFailed /\ UNCHANGED <<os, supervisorVars>>
      BY <1>1 DEF ChannelTypeOK, SupervisorTypeOK, supervisorVars
<1>2. CASE ~protocolFailed /\ Kill /\ SettlePending(TRUE)
  <2>1. os' \in [Gens -> OsStates]
        BY <1>2, KillStep
  <2>2. pending' \in SUBSET Reqs /\ outcome' \in [Reqs -> Outcomes] /\ retired' \in SUBSET Reqs
        BY <1>2, SettlePendingType
  <2> QED
    BY <1>2, <2>1, <2>2 DEF FailProtocol, SupervisorTypeOK, Statuses, Stopped
<1> QED  BY <1>1, <1>2 DEF FailProtocol

LEMMA SpawnType ==
    ASSUME TypeOK, NEW count \in {0, 1}, Spawn(count), stopping' \in BOOLEAN
    PROVE  ChannelTypeOK' /\ SupervisorTypeOK'
<1>1. gen + 1 \in Gens /\ gen' = gen + 1 /\ gen' \in 0..MaxGen
      BY DEF Spawn, TypeOK, SupervisorTypeOK, Gens
<1>2. ChannelTypeOK'
      BY <1>1 DEF Spawn, TypeOK, ChannelTypeOK, OsStates
<1> QED
  BY <1>1, <1>2 DEF Spawn, TypeOK, SupervisorTypeOK, Statuses, Stopped

\* Taking a message off the held child's port leaves the ports well typed.
LEMMA HandleType ==
    ASSUME ChannelTypeOK, SupervisorTypeOK, NEW type, Handle(type)
    PROVE  /\ toMain' \in [Gens -> Seq(ChildMessages)]
           /\ toEngine' \in [Gens -> Seq(ParentMessages)]
           /\ proc \in Gens /\ Head(toMain[proc]) \in ChildMessages
           /\ Head(toMain[proc]).type = type
BY DEF Handle, ChannelTypeOK, SupervisorTypeOK, NoProc

LEMMA ResultHeadType ==
    ASSUME NEW msg \in ChildMessages, msg.type = "result"
    PROVE  msg.req \in Reqs /\ msg.code \in ResultCodes
BY DEF ChildMessages

------------------------------------------------------------------------------
(* Type correctness.                                                         *)

LEMMA SupervisorTypeStep ==
    ASSUME TypeOK, SupervisorNext
    PROVE  ChannelTypeOK' /\ SupervisorTypeOK'
<1> USE DEF TypeOK
<1> DEFINE Goal == ChannelTypeOK' /\ SupervisorTypeOK'
<1>1. ASSUME Start PROVE Goal
      BY <1>1, SpawnType DEF Start, SupervisorTypeOK
<1>2. ASSUME Restart PROVE Goal
      BY <1>2, SpawnType DEF Restart
<1>3. ASSUME Stop PROVE Goal
  <2>1. pending' \in SUBSET Reqs /\ outcome' \in [Reqs -> Outcomes] /\ retired' \in SUBSET Reqs
        BY <1>3, SettlePendingType DEF Stop
  <2>2. os' \in [Gens -> OsStates]
        BY <1>3, KillStep DEF Stop, ForceShutdown, ChannelTypeOK
  <2>3. toEngine' \in [Gens -> Seq(ParentMessages)]
        BY <1>3, PostedType, MessageTypes DEF Stop, ChannelTypeOK, SupervisorTypeOK
  <2>4. timers' \in SUBSET Timers /\ stopState' \in StopStates
        BY <1>3 DEF Stop, ForceShutdown, SupervisorTypeOK, Timers, StopTimers,
                    ArmedOnForce, StopStates
  <2> QED
    BY <1>3, <2>1, <2>2, <2>3, <2>4
       DEF Stop, ForceShutdown, ChannelTypeOK, SupervisorTypeOK
<1>4. ASSUME NEW r \in Reqs, RefuseExecute(r) PROVE Goal
      BY <1>4, AnswerType DEF RefuseExecute, Outcomes, ResultCodes, channelVars, ChannelTypeOK, SupervisorTypeOK
<1>5. ASSUME NEW r \in Reqs, AcceptExecute(r) PROVE Goal
  <2>1. outcome' \in [Reqs -> Outcomes]
        BY <1>5, AnswerType DEF AcceptExecute, Outcomes
  <2>2. toEngine' \in [Gens -> Seq(ParentMessages)]
        BY <1>5, PostedType, MessageTypes DEF AcceptExecute, CanExecute, ChannelTypeOK, SupervisorTypeOK
  <2> QED
    BY <1>5, <2>1, <2>2 DEF AcceptExecute, ChannelTypeOK, SupervisorTypeOK
<1>6. ASSUME SpawnEvent PROVE Goal
  <2>1. toEngine' \in [Gens -> Seq(ParentMessages)]
        BY <1>6, PostedType, MessageTypes DEF SpawnEvent, ChannelTypeOK, SupervisorTypeOK
  <2>2. os' \in [Gens -> OsStates] /\ timers' \in SUBSET Timers
        /\ pendingPing' \in BOOLEAN /\ condemned' \in BOOLEAN
        BY <1>6, TerminateType
           DEF SpawnEvent, ArmedOnSpawn, Timers, RunTimers, ChannelTypeOK, SupervisorTypeOK
  <2> QED
    BY <1>6, <2>1, <2>2 DEF SpawnEvent, ChannelTypeOK, SupervisorTypeOK
<1>7. ASSUME FatalErrorEvent PROVE Goal
      BY <1>7, TerminateType DEF FatalErrorEvent, ChannelTypeOK, SupervisorTypeOK
<1>8. ASSUME ExitEvent PROVE Goal
  <2>1. pending' \in SUBSET Reqs /\ outcome' \in [Reqs -> Outcomes] /\ retired' \in SUBSET Reqs
        BY <1>8, SettlePendingType DEF ExitEvent
  <2>2. os' \in [Gens -> OsStates]
        BY <1>8 DEF ExitEvent, ChannelTypeOK, OsStates
  <2>3. /\ timers' \in SUBSET Timers /\ stopState' \in StopStates
        /\ status' \in Statuses /\ restartCount' \in {0, 1}
        BY <1>8 DEF ExitEvent, SupervisorTypeOK, Timers, StopStates, Statuses, Stopped
  <2> QED
    BY <1>8, <2>1, <2>2, <2>3 DEF ExitEvent, ChannelTypeOK, SupervisorTypeOK
<1>9. ASSUME NEW g \in Gens, StaleMessage(g) PROVE Goal
      BY <1>9 DEF StaleMessage, ChannelTypeOK, SupervisorTypeOK, supervisorVars
<1>10. ASSUME HandleInvalid PROVE Goal
      BY <1>10, HandleType, FailProtocolType DEF HandleInvalid, ChannelTypeOK
<1>11. ASSUME HandleReady PROVE Goal
  <2>1. CASE FailProtocol
        BY <1>11, <2>1, HandleType, FailProtocolType DEF HandleReady, ChannelTypeOK
  <2>2. CASE status' = "ready"
        BY <1>11, <2>2, HandleType, FailProtocolType
           DEF HandleReady, ChannelTypeOK, SupervisorTypeOK, Statuses, ArmedOnReady, Timers, RunTimers
  <2> QED  BY <1>11, <2>1, <2>2 DEF HandleReady
<1>12. ASSUME HandlePong PROVE Goal
      BY <1>12, HandleType, FailProtocolType DEF HandlePong, ChannelTypeOK, SupervisorTypeOK
<1>13. ASSUME HandleEvent PROVE Goal
      BY <1>13, HandleType, FailProtocolType DEF HandleEvent, ChannelTypeOK, SupervisorTypeOK, supervisorVars
<1>14. ASSUME HandleStopped PROVE Goal
      BY <1>14, HandleType, FailProtocolType DEF HandleStopped, ChannelTypeOK, SupervisorTypeOK, supervisorVars
<1>15. ASSUME HandleFailed PROVE Goal
  <2>1. CASE FailProtocol
        BY <1>15, <2>1, HandleType, FailProtocolType DEF HandleFailed, ChannelTypeOK
  <2>2. CASE ~FailProtocol
    <3>1. Terminate /\ SettlePending(TRUE)
          BY <1>15, <2>2 DEF HandleFailed
    <3>2. pending' \in SUBSET Reqs /\ outcome' \in [Reqs -> Outcomes] /\ retired' \in SUBSET Reqs
          BY <3>1, SettlePendingType
    <3> QED
      BY <1>15, <2>2, <3>1, <3>2, HandleType, TerminateType
         DEF HandleFailed, ChannelTypeOK, SupervisorTypeOK
  <2> QED  BY <2>1, <2>2
<1>16. ASSUME HandleResult PROVE Goal
  <2>1. /\ Head(toMain[proc]).req \in Reqs
        /\ Head(toMain[proc]).code \in Outcomes
        BY <1>16, HandleType, ResultHeadType DEF HandleResult, Outcomes
  <2>2. CASE FailProtocol
        BY <1>16, <2>2, HandleType, FailProtocolType DEF HandleResult, ChannelTypeOK
  <2>3. CASE ~FailProtocol
        BY <1>16, <2>1, <2>3, HandleType, AnswerType
           DEF HandleResult, DropLate, ChannelTypeOK, SupervisorTypeOK
  <2> QED  BY <2>2, <2>3
<1>17. ASSUME NEW r \in Reqs, OperationTimeout(r) PROVE Goal
  <2>1. outcome' \in [Reqs -> Outcomes]
        BY <1>17, AnswerType DEF OperationTimeout, Outcomes, ResultCodes
  <2>2. retired' \in SUBSET Reqs
        BY <1>17, RememberedType DEF OperationTimeout
  <2> QED
    BY <1>17, <2>1, <2>2 DEF OperationTimeout, channelVars, ChannelTypeOK, SupervisorTypeOK
<1>18. ASSUME StartupTimer PROVE Goal
      BY <1>18, TerminateType DEF StartupTimer, ChannelTypeOK, SupervisorTypeOK
<1>19. ASSUME HeartbeatTimer PROVE Goal
  <2>1. toEngine' \in [Gens -> Seq(ParentMessages)]
        BY <1>19, PostedType, MessageTypes DEF HeartbeatTimer, ChannelTypeOK, SupervisorTypeOK
  <2>2. os' \in [Gens -> OsStates] /\ timers' \in SUBSET Timers
        /\ pendingPing' \in BOOLEAN /\ condemned' \in BOOLEAN
        BY <1>19, TerminateType
           DEF HeartbeatTimer, Timers, RunTimers, ChannelTypeOK, SupervisorTypeOK
  <2> QED
    BY <1>19, <2>1, <2>2 DEF HeartbeatTimer, ChannelTypeOK, SupervisorTypeOK
<1>20. ASSUME HeartbeatTimeout PROVE Goal
      BY <1>20, TerminateType DEF HeartbeatTimeout, ChannelTypeOK, SupervisorTypeOK
<1>21. ASSUME StableTimer PROVE Goal
      BY <1>21 DEF StableTimer, channelVars, ChannelTypeOK, SupervisorTypeOK
<1>22. ASSUME RestartTimer PROVE Goal
      BY <1>22, SpawnType DEF RestartTimer, SupervisorTypeOK
<1>23. ASSUME ShutdownTimer PROVE Goal
      BY <1>23, KillStep
         DEF ShutdownTimer, ArmedOnForce, Timers, StopTimers, StopStates, ChannelTypeOK, SupervisorTypeOK
<1>24. ASSUME ForcedExitTimer PROVE Goal
      BY <1>24 DEF ForcedExitTimer, StopStates, channelVars, ChannelTypeOK, SupervisorTypeOK
<1> QED
  BY <1>1, <1>2, <1>3, <1>4, <1>5, <1>6, <1>7, <1>8, <1>9, <1>10, <1>11, <1>12,
     <1>13, <1>14, <1>15, <1>16, <1>17, <1>18, <1>19, <1>20, <1>21, <1>22, <1>23, <1>24
     DEF SupervisorNext, ChildEvent, TimerFires

LEMMA ControllerTypeStep ==
    ASSUME TypeOK, NEW g \in Gens, ControllerNext(g)
    PROVE  ChannelTypeOK' /\ ControllerTypeOK'
<1> USE DEF TypeOK
<1> DEFINE Goal == ChannelTypeOK' /\ ControllerTypeOK'
<1>1. ASSUME NEW type, Receive(g, type)
      PROVE  /\ toEngine' \in [Gens -> Seq(ParentMessages)] /\ os' = os
             /\ Head(toEngine[g]) \in ParentMessages /\ Head(toEngine[g]).type = type
      BY <1>1 DEF Receive, ChannelTypeOK
<1>2. ASSUME ReceiveBeforeInitialize(g) PROVE Goal
      BY <1>1, <1>2 DEF ReceiveBeforeInitialize, GoTo, Phases, ChannelTypeOK, ControllerTypeOK
<1>3. ASSUME ReceiveInitialize(g) PROVE Goal
      BY <1>1, <1>3, SentMessages
         DEF ReceiveInitialize, GoTo, Phases, ChannelTypeOK, ControllerTypeOK
<1>4. ASSUME ProveRuntime(g) PROVE Goal
  <2>1. toMain' \in [Gens -> Seq(ChildMessages)]
        BY <1>4, SentMessages DEF ProveRuntime
  <2> QED
    BY <1>4, <2>1 DEF ProveRuntime, GoTo, Phases, ChannelTypeOK, ControllerTypeOK
<1>5. ASSUME ReceivePing(g) PROVE Goal
      BY <1>1, <1>5, SentMessages
         DEF ReceivePing, controllerVars, ChannelTypeOK, ControllerTypeOK
<1>6. ASSUME ReceiveExecute(g) PROVE Goal
  <2>1. Head(toEngine[g]).req \in Reqs
        BY <1>1, <1>6 DEF ReceiveExecute, ParentMessages
  <2>2. toMain' \in [Gens -> Seq(ChildMessages)]
    <3>1. toMain \in [Gens -> Seq(ChildMessages)]
          BY DEF ChannelTypeOK
    <3>2. \A c \in ResultCodes :
             Sent(g, Result(Head(toEngine[g]).req, c)) \in [Gens -> Seq(ChildMessages)]
          BY <2>1, SentMessages
    <3> QED  BY <1>6, <3>1, <3>2 DEF ReceiveExecute, ResultCodes
  <2>3. lane' \in [Gens -> Seq(Reqs)]
    <3>1. lane \in [Gens -> Seq(Reqs)]
          BY DEF ControllerTypeOK
    <3>2. lane' = lane \/ lane' = [lane EXCEPT ![g] = Append(lane[g], Head(toEngine[g]).req)]
          BY <1>6 DEF ReceiveExecute
    <3> QED  BY <2>1, <3>1, <3>2
  <2> QED
    BY <1>1, <1>6, <2>2, <2>3 DEF ReceiveExecute, ChannelTypeOK, ControllerTypeOK
<1>7. ASSUME ReceiveShutdown(g) PROVE Goal
      BY <1>1, <1>7 DEF ReceiveShutdown, GoTo, Phases, ChannelTypeOK, ControllerTypeOK
<1>8. ASSUME Begin(g) PROVE Goal
  <2>1. lane[g] \in Seq(Reqs) /\ lane[g] # <<>> /\ Head(lane[g]) \in Reqs /\ Tail(lane[g]) \in Seq(Reqs)
        BY <1>8 DEF Begin, ControllerTypeOK
  <2>2. ControllerTypeOK'
    <3>1. lane' \in [Gens -> Seq(Reqs)]
          BY <1>8, <2>1 DEF Begin, ControllerTypeOK
    <3>2. timedOut' \in [Gens -> SUBSET Reqs]
          BY <1>8 DEF Begin, ControllerTypeOK
    <3>3. running' \in [Gens -> BOOLEAN]
          BY <1>8 DEF Begin, ControllerTypeOK
    <3>4. runs' \in [Reqs -> Nat]
          BY <1>8, <2>1 DEF Begin, ControllerTypeOK
    <3> QED  BY <1>8, <3>1, <3>2, <3>3, <3>4 DEF Begin, ControllerTypeOK
  <2> QED
    BY <1>8, <2>2 DEF Begin, channelVars, ChannelTypeOK
<1>9. ASSUME Finish(g) PROVE Goal
  <2>1. lane[g] # <<>> /\ Head(lane[g]) \in Reqs /\ Tail(lane[g]) \in Seq(Reqs)
        BY <1>9 DEF Finish, ControllerTypeOK
  <2>2. toMain' \in [Gens -> Seq(ChildMessages)]
    <3>1. toMain \in [Gens -> Seq(ChildMessages)]
          BY DEF ChannelTypeOK
    <3>2. \A c \in ResultCodes :
             Sent(g, Result(Head(lane[g]), c)) \in [Gens -> Seq(ChildMessages)]
          BY <2>1, SentMessages
    <3> QED  BY <1>9, <3>1, <3>2 DEF Finish, ResultCodes
  <2>3. ControllerTypeOK'
        BY <1>9, <2>1 DEF Finish, ControllerTypeOK
  <2> QED
    BY <1>9, <2>2, <2>3 DEF Finish, ChannelTypeOK
<1>10. ASSUME FinishInvalid(g) PROVE Goal
      BY <1>10 DEF FinishInvalid, GoTo, Phases, channelVars, ChannelTypeOK, ControllerTypeOK
<1>11. ASSUME Emit(g) PROVE Goal
      BY <1>11, SentMessages DEF Emit, controllerVars, ChannelTypeOK, ControllerTypeOK
<1>12. ASSUME NEW r \in Reqs, Deadline(g, r) PROVE Goal
      BY <1>12, SentMessages DEF Deadline, ResultCodes, ChannelTypeOK, ControllerTypeOK
<1>13. ASSUME ShutdownComplete(g) PROVE Goal
      BY <1>13, SentMessages
         DEF ShutdownComplete, GoTo, Phases, ChannelTypeOK, ControllerTypeOK
<1>14. ASSUME Misbehave(g) PROVE Goal
      BY <1>14, SentType DEF Misbehave, ChannelTypeOK, ControllerTypeOK
<1>15. ASSUME Hang(g) PROVE Goal
      BY <1>15 DEF Hang, GoTo, Phases, channelVars, ChannelTypeOK, ControllerTypeOK
<1>16. ASSUME Dies(g) PROVE Goal
  <2>1. PICK n \in 0..Len(toMain[g]) : toMain' = [toMain EXCEPT ![g] = SubSeq(@, 1, n)]
        BY <1>16 DEF Dies
  <2>2. SubSeq(toMain[g], 1, n) \in Seq(ChildMessages)
        BY DEF ChannelTypeOK
  <2> QED
    BY <1>16, <2>1, <2>2 DEF Dies, GoTo, Phases, OsStates, ChannelTypeOK, ControllerTypeOK
<1> QED
  BY <1>2, <1>3, <1>4, <1>5, <1>6, <1>7, <1>8, <1>9, <1>10, <1>11, <1>12, <1>13,
     <1>14, <1>15, <1>16 DEF ControllerNext

\* Every variable of the link keeps its type (TypeOK).
THEOREM LinkTypeCorrect == Spec => []TypeOK
<1>1. Init => TypeOK
  <2>1. ChannelInit => ChannelTypeOK
        BY DEF ChannelInit, ChannelTypeOK, OsStates
  <2>2. SupervisorInit => SupervisorTypeOK
    <3>1. "unused" \in Outcomes /\ "starting" \in Statuses /\ "none" \in StopStates
          BY DEF Outcomes, Statuses, StopStates
    <3>2. 0 \in 0..MaxGen
          OBVIOUS
    <3> QED  BY <3>1, <3>2 DEF SupervisorInit, SupervisorTypeOK
  <2>3. ControllerInit => ControllerTypeOK
        BY DEF ControllerInit, ControllerTypeOK, Phases
  <2> QED  BY <2>1, <2>2, <2>3 DEF Init, TypeOK
<1>2. TypeOK /\ [Next]_vars => TypeOK'
  <2> SUFFICES ASSUME TypeOK, [Next]_vars PROVE TypeOK'
      OBVIOUS
  <2>1. CASE MainStep
        BY <2>1, SupervisorTypeStep DEF MainStep, TypeOK, ControllerTypeOK, controllerVars
  <2>2. CASE \E g \in Gens : EngineStep(g)
        BY <2>2, ControllerTypeStep DEF EngineStep, TypeOK, SupervisorTypeOK, supervisorVars
  <2>3. CASE UNCHANGED vars
        BY <2>3 DEF vars, channelVars, supervisorVars, controllerVars, TypeOK,
                    ChannelTypeOK, SupervisorTypeOK, ControllerTypeOK
  <2> QED  BY <2>1, <2>2, <2>3 DEF Next
<1> QED  BY <1>1, <1>2, PTL DEF Spec

------------------------------------------------------------------------------
(* One engine.                                                               *)

LEMMA FailProtocolHolds ==
    ASSUME TypeOK, HeldInv, FailProtocol
    PROVE  HeldInv'
<1>1. CASE UNCHANGED <<os, supervisorVars>>
      BY <1>1 DEF HeldInv, supervisorVars, Live, HasExited
<1>2. CASE ~protocolFailed
  <2>1. \A g \in Gens : (Live(g) <=> Live(g)') /\ (HasExited(g)' => HasExited(g))
        BY <1>2, KillStep DEF FailProtocol, TypeOK, Kill, Signalled, HasExited, ChannelTypeOK
  <2> QED
    BY <1>2, <2>1 DEF FailProtocol, HeldInv
<1> QED  BY <1>1, <1>2 DEF FailProtocol

\* A step that only may kill the held child and may only disarm "restart".
LEMMA QuietStepHolds ==
    ASSUME TypeOK, HeldInv, os' = os \/ Kill, UNCHANGED <<proc, gen>>,
           "restart" \in timers' => "restart" \in timers
    PROVE  HeldInv'
<1>1. \A g \in Gens : (Live(g) <=> Live(g)') /\ (HasExited(g)' => HasExited(g))
      BY KillStep DEF TypeOK, Kill, Signalled, HasExited, ChannelTypeOK, Live
<1> QED  BY <1>1 DEF HeldInv

LEMMA SpawnHolds ==
    ASSUME TypeOK, HeldInv, NEW count, Spawn(count), proc = NoProc
    PROVE  HeldInv'
<1>1. gen' = gen + 1 /\ gen' # 0 /\ gen' \in Gens /\ "restart" \notin timers'
      BY DEF Spawn, TypeOK, SupervisorTypeOK, Gens
<1>2. \A g \in Gens : ~Live(g) /\ ~HasExited(g)
      BY DEF HeldInv, TypeOK, SupervisorTypeOK, NoProc, Gens
<1>3. CASE os' = os /\ proc' = proc
      BY <1>1, <1>2, <1>3 DEF HeldInv, Live, HasExited
<1>4. CASE proc' = gen' /\ os' = [os EXCEPT ![gen'] = "up"]
      BY <1>1, <1>2, <1>4 DEF HeldInv, Live, HasExited, TypeOK, ChannelTypeOK
<1> QED  BY <1>3, <1>4 DEF Spawn

LEMMA HeldStep ==
    ASSUME TypeOK, HeldInv, [Next]_vars
    PROVE  HeldInv'
<1>1. CASE MainStep
  <2>1. CASE Start \/ Restart \/ RestartTimer
        BY <2>1, SpawnHolds DEF Start, Restart, RestartTimer, HeldInv
  <2>2. CASE Stop \/ \E r \in Reqs : RefuseExecute(r) \/ AcceptExecute(r)
    <3>1. os' = os \/ Kill
          BY <2>2 DEF Stop, ForceShutdown, RefuseExecute, AcceptExecute, channelVars
    <3>2. UNCHANGED <<proc, gen>>
          BY <2>2 DEF Stop, RefuseExecute, AcceptExecute
    <3>3. "restart" \in timers' => "restart" \in timers
      <4>1. \/ timers' = timers
            \/ timers' = timers \ ClearedTimers
            \/ timers' = (timers \ ClearedTimers) \cup {"shutdown"}
            \/ timers' = (timers \ ClearedTimers) \cup ArmedOnForce
            BY <2>2 DEF Stop, ForceShutdown, RefuseExecute, AcceptExecute
      <4> QED  BY <4>1 DEF ArmedOnForce, ClearedTimers
    <3> QED  BY <3>1, <3>2, <3>3, QuietStepHolds
  <2>3. CASE ExitEvent
    <3>1. proc' = NoProc /\ proc \in Gens /\ HasExited(proc)
          BY <2>3 DEF ExitEvent, TypeOK, SupervisorTypeOK
    <3>2. os' = [os EXCEPT ![proc] = "gone"]
          BY <2>3, <3>1 DEF ExitEvent, HasExited
    <3>3. \A g \in Gens : ~Live(g)' /\ ~HasExited(g)'
          BY <3>1, <3>2 DEF HeldInv, Live, HasExited, TypeOK, ChannelTypeOK
    <3> QED  BY <3>1, <3>3 DEF HeldInv
  <2>4. CASE \/ SpawnEvent \/ FatalErrorEvent \/ StartupTimer \/ HeartbeatTimer
             \/ HeartbeatTimeout \/ StableTimer \/ ShutdownTimer \/ ForcedExitTimer
             \/ \E r \in Reqs : OperationTimeout(r)
             \/ \E g \in Gens : StaleMessage(g)
    <3>1. os' = os \/ Kill
          BY <2>4
             DEF SpawnEvent, FatalErrorEvent, StartupTimer, HeartbeatTimer,
                 HeartbeatTimeout, StableTimer, ShutdownTimer, ForcedExitTimer,
                 OperationTimeout, StaleMessage, Terminate, channelVars
    <3>2. UNCHANGED <<proc, gen>>
          BY <2>4
             DEF SpawnEvent, FatalErrorEvent, StartupTimer, HeartbeatTimer,
                 HeartbeatTimeout, StableTimer, ShutdownTimer, ForcedExitTimer,
                 OperationTimeout, StaleMessage, supervisorVars
    <3>3. "restart" \in timers' => "restart" \in timers
      <4>1. timers' \subseteq timers \cup ArmedOnSpawn \cup ArmedOnForce \cup {"heartbeatTimeout"}
        <5>1. CASE SpawnEvent \/ FatalErrorEvent \/ StartupTimer
              BY <5>1 DEF SpawnEvent, FatalErrorEvent, StartupTimer, Terminate
        <5>2. CASE HeartbeatTimer \/ HeartbeatTimeout \/ StableTimer
              BY <5>2 DEF HeartbeatTimer, HeartbeatTimeout, StableTimer, Terminate
        <5>3. CASE ShutdownTimer \/ ForcedExitTimer
              BY <5>3 DEF ShutdownTimer, ForcedExitTimer
        <5>4. CASE (\E r \in Reqs : OperationTimeout(r)) \/ \E g \in Gens : StaleMessage(g)
              BY <5>4 DEF OperationTimeout, StaleMessage, supervisorVars
        <5> QED  BY <2>4, <5>1, <5>2, <5>3, <5>4
      <4> QED  BY <4>1 DEF ArmedOnSpawn, ArmedOnForce
    <3> QED  BY <3>1, <3>2, <3>3, QuietStepHolds
  <2>5. CASE \/ HandleInvalid \/ HandleReady \/ HandlePong \/ HandleEvent
             \/ HandleStopped \/ HandleFailed \/ HandleResult
    <3>1. CASE FailProtocol
          BY <3>1, FailProtocolHolds
    <3>2. CASE ~FailProtocol
      <4>1. (os' = os \/ Kill) /\ UNCHANGED <<proc, gen>>
            BY <2>5, <3>2
               DEF HandleInvalid, HandleReady, HandlePong, HandleEvent, HandleStopped,
                   HandleFailed, HandleResult, Terminate, supervisorVars
      <4>2. "restart" \in timers' => "restart" \in timers
        <5>1. timers' \subseteq timers \cup ArmedOnReady
          <6>1. CASE HandleReady
                BY <3>2, <6>1 DEF HandleReady
          <6>2. CASE HandlePong \/ HandleFailed
                BY <3>2, <6>2 DEF HandlePong, HandleFailed, Terminate
          <6>3. CASE HandleResult
                BY <3>2, <6>3 DEF HandleResult
          <6>4. CASE HandleInvalid \/ HandleEvent \/ HandleStopped
                BY <3>2, <6>4 DEF HandleInvalid, HandleEvent, HandleStopped, supervisorVars
          <6> QED  BY <2>5, <6>1, <6>2, <6>3, <6>4
        <5> QED  BY <5>1 DEF ArmedOnReady
      <4> QED  BY <4>1, <4>2, QuietStepHolds
    <3> QED  BY <3>1, <3>2
  <2> QED
    BY <1>1, <2>1, <2>2, <2>3, <2>4, <2>5
       DEF MainStep, SupervisorNext, ChildEvent, TimerFires
<1>2. CASE \E g \in Gens : EngineStep(g)
  <2>1. PICK g \in Gens : ControllerNext(g) /\ UNCHANGED supervisorVars
        BY <1>2 DEF EngineStep
  <2>2. os' = os \/ (Live(g) /\ os' = [os EXCEPT ![g] = "dead"])
        BY <2>1
           DEF ControllerNext, ReceiveBeforeInitialize, ReceiveInitialize, ReceivePing,
               ReceiveExecute, ReceiveShutdown, Receive, ProveRuntime, Begin, Finish,
               FinishInvalid, Emit, Deadline, ShutdownComplete, Misbehave, Hang, Dies,
               channelVars
  <2> QED
    BY <2>1, <2>2 DEF HeldInv, Live, HasExited, supervisorVars, TypeOK, ChannelTypeOK
<1>3. CASE UNCHANGED vars
      BY <1>3 DEF vars, channelVars, supervisorVars, HeldInv, Live, HasExited
<1> QED  BY <1>1, <1>2, <1>3 DEF Next

\* At most one engine process exists, the one main holds (OneEngine).
THEOREM LinkOneEngine == Spec => []OneEngine
<1>1. Init => HeldInv
      BY DEF Init, ChannelInit, SupervisorInit, HeldInv, Live, HasExited
<1>2. HeldInv => OneEngine
      BY DEF HeldInv, OneEngine
<1>3. Spec => [](TypeOK /\ HeldInv)
      BY <1>1, HeldStep, LinkTypeCorrect, PTL DEF Spec
<1> QED  BY <1>2, <1>3, PTL

------------------------------------------------------------------------------
(* Nobody waits on an engine that is not there.                              *)

LEMMA SettlingHolds ==
    ASSUME TypeOK, WaitersInv, NEW retire, SettlePending(retire)
    PROVE  WaitersInv'
BY DEF SettlePending, WaitersInv, TypeOK, SupervisorTypeOK

\* A step that answers nobody and takes no engine away.
LEMMA WaitersUntouched ==
    ASSUME WaitersInv, UNCHANGED <<outcome, pending>>,
           pending # {} => UNCHANGED <<status, proc, stopping>>
    PROVE  WaitersInv'
BY DEF WaitersInv

\* A step that answers one caller.
LEMMA AnswerHolds ==
    ASSUME TypeOK, WaitersInv, NEW r \in Reqs, NEW code, code # "waiting",
           Answer(r, code), pending' = pending \ {r},
           UNCHANGED <<status, proc, stopping>>
    PROVE  WaitersInv'
BY DEF WaitersInv, Answer, TypeOK, SupervisorTypeOK

LEMMA WaitersFailProtocol ==
    ASSUME TypeOK, WaitersInv, FailProtocol
    PROVE  WaitersInv'
BY SettlingHolds, WaitersUntouched DEF FailProtocol, supervisorVars

LEMMA WaitersStep ==
    ASSUME TypeOK, HeldInv, WaitersInv, [Next]_vars
    PROVE  WaitersInv'
<1>1. CASE MainStep
  <2>1. CASE Start \/ Restart \/ RestartTimer
    <3>1. proc = NoProc /\ UNCHANGED <<outcome, pending>>
          BY <2>1 DEF Start, Restart, RestartTimer, HeldInv, Spawn
    <3> QED  BY <3>1, WaitersUntouched DEF WaitersInv
  <2>2. CASE Stop \/ ExitEvent
        BY <2>2, SettlingHolds DEF Stop, ExitEvent
  <2>3. CASE \E r \in Reqs : RefuseExecute(r)
    <3>1. PICK r \in Reqs : RefuseExecute(r)
          BY <2>3
    <3>2. PICK code \in {"NOT_READY", "BUSY"} : Answer(r, code)
          BY <3>1 DEF RefuseExecute
    <3>3. r \notin pending
          BY <3>1 DEF RefuseExecute, CallIsNext, WaitersInv
    <3> QED  BY <3>1, <3>2, <3>3, AnswerHolds DEF RefuseExecute
  <2>4. CASE \E r \in Reqs : AcceptExecute(r)
    <3>1. PICK r \in Reqs : AcceptExecute(r)
          BY <2>4
    <3>2. CASE Answer(r, "ABORTED") /\ pending' = pending
      <4>1. r \notin pending
            BY <3>1 DEF AcceptExecute, CallIsNext, WaitersInv
      <4> QED  BY <3>1, <3>2, <4>1, AnswerHolds DEF AcceptExecute
    <3>3. CASE Answer(r, "waiting") /\ pending' = pending \cup {r}
          BY <3>1, <3>3
             DEF AcceptExecute, CanExecute, Answer, WaitersInv, TypeOK, SupervisorTypeOK
    <3> QED  BY <3>1, <3>2, <3>3 DEF AcceptExecute
  <2>5. CASE SpawnEvent \/ FatalErrorEvent \/ \E g \in Gens : StaleMessage(g)
        BY <2>5, WaitersUntouched DEF SpawnEvent, FatalErrorEvent, StaleMessage, supervisorVars
  <2>6. CASE \/ StartupTimer \/ HeartbeatTimer \/ HeartbeatTimeout \/ StableTimer
             \/ ShutdownTimer \/ ForcedExitTimer
        BY <2>6, WaitersUntouched
           DEF StartupTimer, HeartbeatTimer, HeartbeatTimeout, StableTimer,
               ShutdownTimer, ForcedExitTimer
  <2>7. CASE \E r \in Reqs : OperationTimeout(r)
        BY <2>7, AnswerHolds DEF OperationTimeout
  <2>8. CASE FailProtocol
        BY <2>8, WaitersFailProtocol
  <2>9. CASE ~FailProtocol /\ (HandleInvalid \/ HandlePong \/ HandleEvent \/ HandleStopped)
        BY <2>9, WaitersUntouched
           DEF HandleInvalid, HandlePong, HandleEvent, HandleStopped, supervisorVars
  <2>10. CASE ~FailProtocol /\ HandleReady
    <3>1. pending = {} /\ UNCHANGED <<outcome, pending>>
          BY <2>10 DEF HandleReady, WaitersInv
    <3> QED  BY <3>1, WaitersUntouched
  <2>11. CASE ~FailProtocol /\ HandleFailed
        BY <2>11, SettlingHolds DEF HandleFailed
  <2>12. CASE ~FailProtocol /\ HandleResult
    <3> DEFINE r == Head(toMain[proc]).req
               code == Head(toMain[proc]).code
    <3>1. r \in Reqs /\ code \in ResultCodes
          BY <2>12, HandleType, ResultHeadType DEF HandleResult, TypeOK
    <3>2. code # "waiting"
          BY <3>1 DEF ResultCodes
    <3>3. CASE r \in pending
          BY <2>12, <3>1, <3>2, <3>3, AnswerHolds DEF HandleResult
    <3>4. CASE r \notin pending
          BY <2>12, <3>4, WaitersUntouched DEF HandleResult, DropLate
    <3> QED  BY <3>3, <3>4
  <2> QED
    BY <1>1, <2>1, <2>2, <2>3, <2>4, <2>5, <2>6, <2>7, <2>8, <2>9, <2>10, <2>11, <2>12
       DEF MainStep, SupervisorNext, ChildEvent, TimerFires
<1>2. CASE (\E g \in Gens : EngineStep(g)) \/ UNCHANGED vars
      BY <1>2, WaitersUntouched DEF EngineStep, vars, supervisorVars
<1> QED  BY <1>1, <1>2 DEF Next

\* Whoever waits is pending on a ready engine that main holds and does not stop
\* (WaitersHaveAnEngine).
THEOREM LinkWaitersHaveAnEngine == Spec => []WaitersHaveAnEngine
<1>1. Init => WaitersInv
      BY DEF Init, SupervisorInit, WaitersInv
<1>2. WaitersInv => WaitersHaveAnEngine
      BY DEF WaitersInv, WaitersHaveAnEngine
<1>3. Init => HeldInv
      BY DEF Init, ChannelInit, SupervisorInit, HeldInv, Live, HasExited
<1>4. Spec => [](TypeOK /\ HeldInv /\ WaitersInv)
      BY <1>1, <1>3, HeldStep, WaitersStep, LinkTypeCorrect, PTL DEF Spec
<1> QED  BY <1>2, <1>4, PTL

------------------------------------------------------------------------------
(* What is over stays over.                                                  *)

\* The strengthening that makes the second part of EndsAreFinal inductive: a
\* stop() disarms the restart for good, and its own two timers are armed by it
\* alone.
StopInv ==
    /\ stopState # "none" => gen > 0 /\ stopping /\ "restart" \notin timers
    /\ timers \cap StopTimers # {} => stopState # "none"

\* A step that does not touch the promise of stop() and arms none of its timers,
\* nor the restart.
LEMMA StopUntouched ==
    ASSUME StopInv, UNCHANGED <<gen, stopState>>,
           stopState # "none" => stopping',
           timers' \subseteq timers \cup RunTimers
    PROVE  StopInv'
BY DEF StopInv, RunTimers, StopTimers

LEMMA StopFailProtocol ==
    ASSUME StopInv, FailProtocol
    PROVE  StopInv'
<1>1. UNCHANGED <<gen, stopState>> /\ timers' \subseteq timers \cup RunTimers
      BY DEF FailProtocol, supervisorVars
<1>2. stopping' = TRUE \/ stopping' = stopping
      BY DEF FailProtocol, supervisorVars
<1> QED  BY <1>1, <1>2, StopUntouched DEF StopInv

LEMMA StopStep ==
    ASSUME TypeOK, StopInv, [Next]_vars
    PROVE  StopInv'
<1>1. CASE MainStep
  <2>1. CASE Start
        BY <2>1 DEF Start, Spawn, StopInv, StopTimers, TypeOK, SupervisorTypeOK
  <2>2. CASE Restart \/ RestartTimer
    <3>1. stopState = "none" /\ stopState' = stopState /\ timers' = timers \ {"restart"}
          BY <2>2 DEF Restart, RestartTimer, Spawn, StopInv
    <3> QED  BY <3>1 DEF StopInv, StopTimers
  <2>3. CASE Stop
    <3>1. gen > 0 /\ gen' = gen /\ stopping' /\ stopState' # "none"
          BY <2>3 DEF Stop, ForceShutdown
    <3>2. timers' \subseteq (timers \ ClearedTimers) \cup StopTimers
          BY <2>3 DEF Stop, ForceShutdown, ArmedOnForce, StopTimers
    <3> QED  BY <3>1, <3>2 DEF StopInv, ClearedTimers, StopTimers
  <2>4. CASE ExitEvent
    <3>1. gen' = gen /\ stopping' = stopping /\ (stopState' = "none" <=> stopState = "none")
          BY <2>4 DEF ExitEvent
    <3>2. /\ timers' \subseteq (timers \ StopTimers) \cup {"restart"}
          /\ stopping => timers' \subseteq timers \ StopTimers
          BY <2>4 DEF ExitEvent
    <3> QED  BY <3>1, <3>2 DEF StopInv, StopTimers
  <2>5. CASE ShutdownTimer \/ ForcedExitTimer
    <3>1. /\ stopState # "none" /\ stopState' # "none" /\ UNCHANGED <<gen, stopping>>
          /\ timers' \subseteq timers \cup {"forcedExit"}
          BY <2>5 DEF ShutdownTimer, ForcedExitTimer, StopInv, StopTimers, ArmedOnForce
    <3> QED  BY <3>1 DEF StopInv
  <2>6. CASE FailProtocol
        BY <2>6, StopFailProtocol
  <2>7. CASE \/ \E r \in Reqs : RefuseExecute(r) \/ AcceptExecute(r) \/ OperationTimeout(r)
             \/ \E g \in Gens : StaleMessage(g)
        BY <2>7, StopUntouched
           DEF RefuseExecute, AcceptExecute, OperationTimeout, StaleMessage, supervisorVars, StopInv
  <2>8. CASE \/ SpawnEvent \/ FatalErrorEvent \/ StartupTimer \/ HeartbeatTimer
             \/ HeartbeatTimeout \/ StableTimer
    <3>1. UNCHANGED <<gen, stopState, stopping>>
          BY <2>8 DEF SpawnEvent, FatalErrorEvent, StartupTimer, HeartbeatTimer,
                      HeartbeatTimeout, StableTimer
    <3>2. timers' \subseteq timers \cup RunTimers
          BY <2>8 DEF SpawnEvent, FatalErrorEvent, StartupTimer, HeartbeatTimer,
                      HeartbeatTimeout, StableTimer, Terminate, ArmedOnSpawn, RunTimers
    <3> QED  BY <3>1, <3>2, StopUntouched DEF StopInv
  <2>9. CASE /\ ~FailProtocol
             /\ \/ HandleInvalid \/ HandleReady \/ HandlePong \/ HandleEvent
                \/ HandleStopped \/ HandleFailed \/ HandleResult
    <3>1. UNCHANGED <<gen, stopState, stopping>>
          BY <2>9 DEF HandleInvalid, HandleReady, HandlePong, HandleEvent,
                      HandleStopped, HandleFailed, HandleResult, supervisorVars
    <3>2. timers' \subseteq timers \cup RunTimers
          BY <2>9 DEF HandleInvalid, HandleReady, HandlePong, HandleEvent, HandleStopped,
                      HandleFailed, HandleResult, supervisorVars, Terminate, ArmedOnReady, RunTimers
    <3> QED  BY <3>1, <3>2, StopUntouched DEF StopInv
  <2> QED
    BY <1>1, <2>1, <2>2, <2>3, <2>4, <2>5, <2>6, <2>7, <2>8, <2>9
       DEF MainStep, SupervisorNext, ChildEvent, TimerFires
<1>2. CASE (\E g \in Gens : EngineStep(g)) \/ UNCHANGED vars
      BY <1>2, StopUntouched DEF EngineStep, vars, supervisorVars, StopInv
<1> QED  BY <1>1, <1>2 DEF Next

\* What a caller may be told next: who has been answered is told nothing more.
Hears(r) ==
    \/ outcome'[r] = outcome[r]
    \/ outcome[r] = "unused"
    \/ outcome[r] = "waiting" /\ outcome'[r] # "unused"

LEMMA SettlingIsHeard ==
    ASSUME TypeOK, WaitersInv, NEW retire, SettlePending(retire), NEW r \in Reqs
    PROVE  Hears(r)
BY DEF SettlePending, WaitersInv, Hears

LEMMA FailProtocolIsHeard ==
    ASSUME TypeOK, WaitersInv, FailProtocol, NEW r \in Reqs
    PROVE  Hears(r)
BY SettlingIsHeard DEF FailProtocol, supervisorVars, Hears

LEMMA AnswerIsHeard ==
    ASSUME TypeOK, NEW q \in Reqs, NEW code \in Outcomes \ {"unused"}, Answer(q, code),
           outcome[q] \in {"unused", "waiting"}, NEW r \in Reqs
    PROVE  Hears(r)
BY DEF Answer, Hears, TypeOK, SupervisorTypeOK

LEMMA AnswersHeard ==
    ASSUME TypeOK, HeldInv, WaitersInv, [Next]_vars, NEW r \in Reqs
    PROVE  Hears(r)
<1>1. CASE MainStep
  <2>1. CASE UNCHANGED outcome
        BY <2>1 DEF Hears
  <2>2. CASE FailProtocol
        BY <2>2, FailProtocolIsHeard
  <2>3. CASE Stop \/ ExitEvent
        BY <2>3, SettlingIsHeard DEF Stop, ExitEvent
  <2>4. CASE HandleFailed /\ ~FailProtocol
        BY <2>4, SettlingIsHeard DEF HandleFailed
  <2>5. CASE HandleResult /\ ~FailProtocol
    <3> DEFINE q == Head(toMain[proc]).req
               code == Head(toMain[proc]).code
    <3>1. q \in Reqs /\ code \in Outcomes \ {"unused"}
          BY <2>5, HandleType, ResultHeadType DEF HandleResult, TypeOK, ResultCodes, Outcomes
    <3>2. CASE q \in pending /\ Answer(q, code)
          BY <3>1, <3>2, AnswerIsHeard DEF WaitersInv
    <3>3. CASE UNCHANGED outcome
          BY <3>3 DEF Hears
    <3> QED  BY <2>5, <3>2, <3>3 DEF HandleResult, DropLate
  <2>6. CASE \E q \in Reqs : RefuseExecute(q) \/ AcceptExecute(q)
    <3>1. PICK q \in Reqs : RefuseExecute(q) \/ AcceptExecute(q)
          BY <2>6
    <3>2. outcome[q] = "unused"
          BY <3>1 DEF RefuseExecute, AcceptExecute, CallIsNext
    <3>3. PICK code \in {"NOT_READY", "BUSY", "waiting", "ABORTED"} : Answer(q, code)
          BY <3>1 DEF RefuseExecute, AcceptExecute
    <3> QED  BY <3>2, <3>3, AnswerIsHeard DEF Outcomes, ResultCodes
  <2>7. CASE \E q \in Reqs : OperationTimeout(q)
        BY <2>7, AnswerIsHeard DEF OperationTimeout, WaitersInv, Outcomes, ResultCodes
  <2>8. CASE \/ Start \/ Restart \/ RestartTimer \/ SpawnEvent \/ FatalErrorEvent
             \/ \E g \in Gens : StaleMessage(g)
        BY <2>8, <2>1 DEF Start, Restart, RestartTimer, Spawn, SpawnEvent,
                          FatalErrorEvent, StaleMessage, supervisorVars
  <2>9. CASE \/ StartupTimer \/ HeartbeatTimer \/ HeartbeatTimeout \/ StableTimer
             \/ ShutdownTimer \/ ForcedExitTimer
        BY <2>9, <2>1 DEF StartupTimer, HeartbeatTimer, HeartbeatTimeout, StableTimer,
                          ShutdownTimer, ForcedExitTimer
  <2>10. CASE /\ ~FailProtocol
              /\ HandleInvalid \/ HandleReady \/ HandlePong \/ HandleEvent \/ HandleStopped
        BY <2>10, <2>1 DEF HandleInvalid, HandleReady, HandlePong, HandleEvent,
                           HandleStopped, supervisorVars
  <2> QED
    BY <1>1, <2>2, <2>3, <2>4, <2>5, <2>6, <2>7, <2>8, <2>9, <2>10
       DEF MainStep, SupervisorNext, ChildEvent, TimerFires
<1>2. CASE (\E g \in Gens : EngineStep(g)) \/ UNCHANGED vars
      BY <1>2 DEF EngineStep, vars, supervisorVars, Hears
<1> QED  BY <1>1, <1>2 DEF Next

LEMMA ForksBeforeStop ==
    ASSUME StopInv, Next, stopState # "none"
    PROVE  gen' = gen
<1>1. CASE MainStep
  <2>1. ~Start /\ ~Restart /\ ~RestartTimer
    <3>1. gen > 0 /\ "restart" \notin timers
          BY DEF StopInv
    <3>2. ~Start
          BY <3>1 DEF Start
    <3>3. ~Restart
          BY DEF Restart
    <3>4. ~RestartTimer
          BY <3>1 DEF RestartTimer
    <3> QED  BY <3>2, <3>3, <3>4
  <2>2. FailProtocol => gen' = gen
        BY DEF FailProtocol, supervisorVars
  <2>3. CASE \/ Stop \/ SpawnEvent \/ FatalErrorEvent \/ ExitEvent
             \/ \E r \in Reqs : RefuseExecute(r) \/ AcceptExecute(r)
             \/ \E g \in Gens : StaleMessage(g)
        BY <2>3 DEF Stop, RefuseExecute, AcceptExecute, SpawnEvent, FatalErrorEvent,
                    ExitEvent, StaleMessage, supervisorVars
  <2>4. CASE \/ HandleInvalid \/ HandleReady \/ HandlePong \/ HandleEvent
             \/ HandleStopped \/ HandleFailed \/ HandleResult
        BY <2>2, <2>4
           DEF HandleInvalid, HandleReady, HandlePong, HandleEvent, HandleStopped,
               HandleFailed, HandleResult, supervisorVars
  <2>5. CASE TimerFires
        BY <2>1, <2>5
           DEF TimerFires, StartupTimer, HeartbeatTimer, HeartbeatTimeout, StableTimer,
               ShutdownTimer, ForcedExitTimer, OperationTimeout
  <2> QED  BY <1>1, <2>1, <2>3, <2>4, <2>5 DEF MainStep, SupervisorNext, ChildEvent
<1>2. CASE \E g \in Gens : EngineStep(g)
      BY <1>2 DEF EngineStep, supervisorVars
<1> QED  BY <1>1, <1>2 DEF Next

\* The strengthening that makes the third part of EndsAreFinal inductive: each
\* of stop()'s two timers is armed only while its promise can still be settled.
StopTimersInv ==
    /\ "shutdown" \in timers => stopState = "waiting"
    /\ "forcedExit" \in timers => stopState = "forced"

\* What a step does to the promise of stop(): a settled one is left alone.
StopStands == StopTimersInv' /\ (stopState \in StopSettled => stopState' = stopState)

LEMMA StopTimersUntouched ==
    ASSUME StopTimersInv, UNCHANGED stopState,
           timers' \subseteq timers \cup (RunTimers \cup {"restart"})
    PROVE  StopStands
BY DEF StopTimersInv, StopStands, RunTimers

LEMMA StopStandsStep ==
    ASSUME TypeOK, StopInv, StopTimersInv, [Next]_vars
    PROVE  StopStands
<1>1. CASE MainStep
  <2>1. CASE Start \/ Restart \/ RestartTimer
    <3>1. UNCHANGED stopState /\ timers' \subseteq timers
          BY <2>1 DEF Start, Restart, RestartTimer, Spawn
    <3> QED  BY <3>1, StopTimersUntouched
  <2>2. CASE Stop
    <3>1. stopState = "none" /\ timers \cap StopTimers = {}
          BY <2>2 DEF Stop, StopTimersInv, StopTimers
    <3>2. \/ stopState' = "notRunning" /\ timers' \subseteq timers
          \/ stopState' = "waiting" /\ timers' \subseteq timers \cup {"shutdown"}
          \/ stopState' = "forced" /\ timers' \subseteq timers \cup {"forcedExit"}
          BY <2>2 DEF Stop, ForceShutdown, ArmedOnForce
    <3> QED  BY <3>1, <3>2 DEF StopTimersInv, StopStands, StopSettled, StopTimers
  <2>3. CASE ExitEvent
    <3>1. timers' \cap StopTimers = {}
          BY <2>3 DEF ExitEvent, StopTimers
    <3>2. stopState \in StopSettled => stopState' = stopState
          BY <2>3 DEF ExitEvent, StopSettled
    <3> QED  BY <3>1, <3>2 DEF StopTimersInv, StopStands, StopTimers
  <2>4. CASE ShutdownTimer
    <3>1. stopState = "waiting" /\ stopState' = "forced"
          BY <2>4 DEF ShutdownTimer, StopTimersInv
    <3>2. timers' = (timers \ {"shutdown"}) \cup {"forcedExit"}
          BY <2>4 DEF ShutdownTimer, ArmedOnForce
    <3> QED  BY <3>1, <3>2 DEF StopTimersInv, StopStands, StopSettled
  <2>5. CASE ForcedExitTimer
    <3>1. stopState = "forced" /\ stopState' = "timedOut"
          BY <2>5 DEF ForcedExitTimer, StopTimersInv
    <3>2. timers' = timers \ {"forcedExit"}
          BY <2>5 DEF ForcedExitTimer
    <3> QED  BY <3>1, <3>2 DEF StopTimersInv, StopStands, StopSettled
  <2>6. CASE FailProtocol
    <3>1. UNCHANGED stopState /\ timers' \subseteq timers
          BY <2>6 DEF FailProtocol, supervisorVars
    <3> QED  BY <3>1, StopTimersUntouched
  <2>7. CASE \/ \E r \in Reqs : RefuseExecute(r) \/ AcceptExecute(r) \/ OperationTimeout(r)
             \/ \E g \in Gens : StaleMessage(g)
    <3>1. UNCHANGED <<stopState, timers>>
          BY <2>7 DEF RefuseExecute, AcceptExecute, OperationTimeout, StaleMessage, supervisorVars
    <3> QED  BY <3>1, StopTimersUntouched
  <2>8. CASE \/ SpawnEvent \/ FatalErrorEvent \/ StartupTimer \/ HeartbeatTimer
             \/ HeartbeatTimeout \/ StableTimer
    <3>1. UNCHANGED stopState
          BY <2>8 DEF SpawnEvent, FatalErrorEvent, StartupTimer, HeartbeatTimer,
                      HeartbeatTimeout, StableTimer
    <3>2. timers' \subseteq timers \cup RunTimers
          BY <2>8 DEF SpawnEvent, FatalErrorEvent, StartupTimer, HeartbeatTimer,
                      HeartbeatTimeout, StableTimer, Terminate, ArmedOnSpawn, RunTimers
    <3> QED  BY <3>1, <3>2, StopTimersUntouched
  <2>9. CASE /\ ~FailProtocol
             /\ \/ HandleInvalid \/ HandleReady \/ HandlePong \/ HandleEvent
                \/ HandleStopped \/ HandleFailed \/ HandleResult
    <3>1. UNCHANGED stopState
          BY <2>9 DEF HandleInvalid, HandleReady, HandlePong, HandleEvent,
                      HandleStopped, HandleFailed, HandleResult, supervisorVars
    <3>2. timers' \subseteq timers \cup RunTimers
          BY <2>9 DEF HandleInvalid, HandleReady, HandlePong, HandleEvent, HandleStopped,
                      HandleFailed, HandleResult, supervisorVars, Terminate, ArmedOnReady, RunTimers
    <3> QED  BY <3>1, <3>2, StopTimersUntouched
  <2> QED
    BY <1>1, <2>1, <2>2, <2>3, <2>4, <2>5, <2>6, <2>7, <2>8, <2>9
       DEF MainStep, SupervisorNext, ChildEvent, TimerFires
<1>2. CASE (\E g \in Gens : EngineStep(g)) \/ UNCHANGED vars
      BY <1>2, StopTimersUntouched DEF EngineStep, vars, supervisorVars
<1> QED  BY <1>1, <1>2 DEF Next

\* Whoever has been answered is told nothing else, whatever comes late; no engine
\* is forked once stop() has been called; and stop() settles once (EndsAreFinal).
THEOREM LinkEndsAreFinal == Spec => EndsAreFinal
<1>1. Init => HeldInv /\ WaitersInv /\ StopInv /\ StopTimersInv
      BY DEF Init, ChannelInit, SupervisorInit, HeldInv, Live, HasExited, WaitersInv, StopInv,
             StopTimersInv
<1>2. TypeOK /\ HeldInv /\ WaitersInv /\ [Next]_vars
        => [\A r \in Reqs : outcome[r] \notin {"unused", "waiting"} => outcome'[r] = outcome[r]]_vars
      BY AnswersHeard DEF Hears
<1>3. StopInv /\ [Next]_vars => [stopState # "none" => gen' = gen]_vars
      BY ForksBeforeStop
<1>4. TypeOK /\ StopInv /\ StopTimersInv /\ [Next]_vars
        => StopTimersInv' /\ [(stopState \in StopSettled) => stopState' = stopState]_vars
      BY StopStandsStep DEF StopStands
<1>5. Spec => [](TypeOK /\ HeldInv /\ WaitersInv /\ StopInv /\ StopTimersInv)
      BY <1>1, <1>4, HeldStep, WaitersStep, StopStep, LinkTypeCorrect, PTL DEF Spec
<1>6. Spec => [][\A r \in Reqs : outcome[r] \notin {"unused", "waiting"} => outcome'[r] = outcome[r]]_vars
      BY <1>2, <1>5, PTL DEF Spec
<1>7. Spec => [][stopState # "none" => gen' = gen]_vars
      BY <1>3, <1>5, PTL DEF Spec
<1>8. Spec => [][(stopState \in StopSettled) => stopState' = stopState]_vars
      BY <1>4, <1>5, PTL DEF Spec
<1> QED  BY <1>6, <1>7, <1>8 DEF EndsAreFinal, AnswerStands, NoForkAfterStop, StopSettlesOnce

------------------------------------------------------------------------------
(* The link implements the service of CommandService.                        *)

\* The strengthening.  A command is in the hands of generation g while it waits
\* on the port or in the lane (the one that runs stays at the lane's head).
Queued(g, i) == toEngine[g][i].type = "execute"

InHand(g, r) ==
    \/ \E i \in DOMAIN lane[g] : lane[g][i] = r
    \/ \E i \in DOMAIN toEngine[g] : Queued(g, i) /\ toEngine[g][i].req = r

\* A result on its way to main tells what became of its command, for good.
TrueResult(m) ==
    /\ outcome[m.req] # "unused"
    /\ m.code \in {"ok", "error"} => runs[m.req] = 1
    /\ m.code \in {"NOT_READY", "BUSY"} => runs[m.req] = 0
    /\ m.code # "TIMEOUT" => \A g \in Gens : ~InHand(g, m.req)

TrueMessages == {m \in ChildMessages : m.type = "result" => TrueResult(m)}

DeadHoldNothing == \A g \in Gens : ~Live(g) => toEngine[g] = <<>> /\ lane[g] = <<>>

CalledInOrder ==
    \A r, q \in Reqs : q < r /\ outcome[r] # "unused" => outcome[q] # "unused"

NothingBeforeTheCall == \A r \in Reqs : outcome[r] = "unused" => runs[r] = 0

Undecided == {"waiting", "TIMEOUT", "ABORTED"}
InHandIsUndecided == \A g \in Gens, r \in Reqs : InHand(g, r) => outcome[r] \in Undecided

ResultsAreTrue == \A g \in Gens : toMain[g] \in Seq(TrueMessages)

\* The lane and behind it the port hold commands in the order of their calls, and
\* neither they nor any later command have taken effect, but for the one that runs.
Orderly(g) ==
    /\ \A i, j \in DOMAIN lane[g] : i < j => lane[g][i] < lane[g][j]
    /\ \A i, j \in DOMAIN toEngine[g] :
          i < j /\ Queued(g, i) /\ Queued(g, j) => toEngine[g][i].req < toEngine[g][j].req
    /\ \A i \in DOMAIN lane[g], j \in DOMAIN toEngine[g] :
          Queued(g, j) => lane[g][i] < toEngine[g][j].req
    /\ \A i \in DOMAIN lane[g], q \in Reqs :
          (i > 1 \/ ~running[g]) /\ q >= lane[g][i] => runs[q] = 0
    /\ \A j \in DOMAIN toEngine[g], q \in Reqs :
          Queued(g, j) /\ q >= toEngine[g][j].req => runs[q] = 0
    /\ running[g] => lane[g] # <<>> /\ runs[lane[g][1]] = 1

InOrder == \A g \in Gens : Orderly(g)

ServiceInv ==
    /\ DeadHoldNothing /\ CalledInOrder /\ NothingBeforeTheCall
    /\ InHandIsUndecided /\ ResultsAreTrue /\ InOrder

\* What Append, Tail and SubSeq do to a queue.
LEMMA AppendFacts ==
    ASSUME NEW S, NEW s \in Seq(S), NEW e
    PROVE  /\ DOMAIN s = 1..Len(s) /\ Len(s) \in Nat
           /\ Len(Append(s, e)) = Len(s) + 1
           /\ DOMAIN Append(s, e) = 1..(Len(s) + 1)
           /\ Append(s, e)[Len(s) + 1] = e
           /\ \A i \in 1..Len(s) : Append(s, e)[i] = s[i]
OBVIOUS

LEMMA TailFacts ==
    ASSUME NEW S, NEW s \in Seq(S), s # <<>>
    PROVE  /\ DOMAIN s = 1..Len(s) /\ Len(s) \in Nat \ {0} /\ Head(s) = s[1] /\ Head(s) \in S
           /\ Tail(s) \in Seq(S) /\ Len(Tail(s)) = Len(s) - 1
           /\ DOMAIN Tail(s) = 1..(Len(s) - 1)
           /\ \A i \in 1..(Len(s) - 1) : Tail(s)[i] = s[i + 1]
OBVIOUS

LEMMA SeqAppends ==
    ASSUME NEW S, NEW s \in Seq(S), NEW e \in S
    PROVE  Append(s, e) \in Seq(S)
OBVIOUS

LEMMA LaneTypes ==
    ASSUME NEW g \in Gens, lane[g] \in Seq(Reqs)
    PROVE  \A i \in DOMAIN lane[g] : lane[g][i] \in Reqs /\ lane[g][i] \in Nat /\ i \in Nat
<1>1. \A i \in DOMAIN lane[g] : lane[g][i] \in Reqs /\ i \in Nat
      OBVIOUS
<1> QED  BY <1>1

LEMMA PortTypes ==
    ASSUME NEW g \in Gens, toEngine[g] \in Seq(ParentMessages)
    PROVE  \A i \in DOMAIN toEngine[g] :
              Queued(g, i) => toEngine[g][i].req \in Reqs /\ toEngine[g][i].req \in Nat
<1>1. \A i \in DOMAIN toEngine[g] : toEngine[g][i] \in ParentMessages
      OBVIOUS
<1> QED  BY <1>1 DEF Queued, ParentMessages

LEMMA SeqGrows ==
    ASSUME NEW S, NEW T, S \subseteq T, NEW s \in Seq(S)
    PROVE  s \in Seq(T)
OBVIOUS

\* What the order of one generation survives.
LEMMA OrderKept ==
    ASSUME NEW g \in Gens, Orderly(g), runs' = runs, toEngine'[g] = toEngine[g],
           lane'[g] = lane[g], running'[g] = running[g]
    PROVE  Orderly(g)' /\ \A r : InHand(g, r)' => InHand(g, r)
BY DEF Orderly, InHand, Queued

LEMMA OrderEmpty ==
    ASSUME NEW g \in Gens, toEngine'[g] = <<>>, lane'[g] = <<>>, ~running'[g]
    PROVE  Orderly(g)' /\ \A r : ~InHand(g, r)'
BY DEF Orderly, InHand

LEMMA OrderControl ==
    ASSUME NEW g \in Gens, Orderly(g), runs' = runs, toEngine[g] \in Seq(ParentMessages),
           NEW t \in {"initialize", "ping", "shutdown"},
           toEngine'[g] = Append(toEngine[g], Control(t)),
           lane'[g] = lane[g], running'[g] = running[g]
    PROVE  Orderly(g)' /\ \A r : InHand(g, r)' => InHand(g, r)
<1> DEFINE n == Len(toEngine[g])
<1>1. /\ n \in Nat /\ DOMAIN toEngine[g] = 1..n /\ DOMAIN toEngine'[g] = 1..(n + 1)
      /\ \A i \in 1..n : toEngine'[g][i] = toEngine[g][i]
      /\ toEngine'[g][n + 1].type # "execute"
      BY AppendFacts DEF Control
<1>2. \A i \in DOMAIN toEngine'[g] :
         Queued(g, i)' => i \in DOMAIN toEngine[g] /\ Queued(g, i) /\ toEngine'[g][i] = toEngine[g][i]
      BY <1>1 DEF Queued
<1> HIDE DEF n
<1>3. Orderly(g)'
      BY <1>2 DEF Orderly
<1> QED  BY <1>2, <1>3 DEF InHand

LEMMA OrderTaken ==
    ASSUME NEW g \in Gens, Orderly(g), runs' = runs, toEngine[g] \in Seq(ParentMessages),
           toEngine[g] # <<>>, toEngine'[g] = Tail(toEngine[g]),
           lane'[g] = lane[g], running'[g] = running[g]
    PROVE  Orderly(g)' /\ \A r : InHand(g, r)' => InHand(g, r)
<1> DEFINE n == Len(toEngine[g])
<1>1. /\ n \in Nat /\ DOMAIN toEngine[g] = 1..n /\ DOMAIN toEngine'[g] = 1..(n - 1)
      /\ \A i \in 1..(n - 1) : toEngine'[g][i] = toEngine[g][i + 1]
      BY TailFacts
<1>2. \A i \in DOMAIN toEngine'[g] :
         /\ i \in Nat /\ i + 1 \in DOMAIN toEngine[g] /\ toEngine'[g][i] = toEngine[g][i + 1]
         /\ Queued(g, i)' <=> Queued(g, i + 1)
      BY <1>1 DEF Queued
<1> HIDE DEF n
<1>3. Orderly(g)'
  <2>1. \A i, j \in DOMAIN toEngine'[g] :
           i < j /\ Queued(g, i)' /\ Queued(g, j)' => toEngine'[g][i].req < toEngine'[g][j].req
    <3> SUFFICES ASSUME NEW i \in DOMAIN toEngine'[g], NEW j \in DOMAIN toEngine'[g],
                        i < j, Queued(g, i)', Queued(g, j)'
                 PROVE  toEngine'[g][i].req < toEngine'[g][j].req
        OBVIOUS
    <3>1. i + 1 < j + 1
          BY <1>2
    <3> QED  BY <1>2, <3>1 DEF Orderly
  <2> QED  BY <1>2, <2>1 DEF Orderly
<1> QED  BY <1>2, <1>3 DEF InHand

\* A new command goes behind all that are there.
LEMMA OrderExecute ==
    ASSUME NEW g \in Gens, Orderly(g), runs' = runs, toEngine[g] \in Seq(ParentMessages),
           NEW r \in Reqs, toEngine'[g] = Append(toEngine[g], Execute(r)),
           lane'[g] = lane[g], running'[g] = running[g],
           \A q \in Reqs : InHand(g, q) => q < r,
           lane[g] \in Seq(Reqs),
           \A q \in Reqs : q >= r => runs[q] = 0
    PROVE  Orderly(g)' /\ \A q : InHand(g, q)' => InHand(g, q) \/ q = r
<1> DEFINE n == Len(toEngine[g])
<1>1. /\ n \in Nat /\ DOMAIN toEngine[g] = 1..n /\ DOMAIN toEngine'[g] = 1..(n + 1)
      /\ \A i \in 1..n : toEngine'[g][i] = toEngine[g][i]
      /\ toEngine'[g][n + 1].req = r
      BY AppendFacts DEF Execute
<1>2. \A i \in DOMAIN toEngine'[g] :
         /\ i \in Nat
         /\ Queued(g, i)' =>
              \/ i = n + 1 /\ toEngine'[g][i].req = r
              \/ i \in 1..n /\ Queued(g, i) /\ toEngine'[g][i] = toEngine[g][i]
      BY <1>1 DEF Queued
<1>3. \A i \in 1..n : Queued(g, i) => toEngine[g][i].req \in Reqs /\ toEngine[g][i].req < r
      BY <1>1, PortTypes DEF InHand
<1>4. \A i \in DOMAIN lane[g] : lane[g][i] \in Reqs /\ lane[g][i] < r
      BY LaneTypes DEF InHand
<1>5. \A i \in 1..n : i \in DOMAIN toEngine[g] /\ i < n + 1
      BY <1>1
<1> HIDE DEF n
<1>6. \A i, j \in DOMAIN toEngine'[g] :
         i < j /\ Queued(g, i)' /\ Queued(g, j)' => toEngine'[g][i].req < toEngine'[g][j].req
  <2> SUFFICES ASSUME NEW i \in DOMAIN toEngine'[g], NEW j \in DOMAIN toEngine'[g],
                      i < j, Queued(g, i)', Queued(g, j)'
               PROVE  toEngine'[g][i].req < toEngine'[g][j].req
      OBVIOUS
  <2>1. i # n + 1
        BY <1>1, <1>2
  <2>2. i \in 1..n /\ Queued(g, i) /\ toEngine'[g][i] = toEngine[g][i]
        BY <1>2, <2>1
  <2>3. CASE j = n + 1 /\ toEngine'[g][j].req = r
        BY <1>3, <2>2, <2>3
  <2>4. CASE j \in 1..n /\ Queued(g, j) /\ toEngine'[g][j] = toEngine[g][j]
        BY <1>5, <2>2, <2>4 DEF Orderly
  <2> QED  BY <1>2, <2>3, <2>4
<1>7. \A i \in DOMAIN lane'[g], j \in DOMAIN toEngine'[g] :
         Queued(g, j)' => lane'[g][i] < toEngine'[g][j].req
      BY <1>2, <1>4, <1>5 DEF Orderly
<1>8. \A j \in DOMAIN toEngine'[g], q \in Reqs :
         Queued(g, j)' /\ q >= toEngine'[g][j].req => runs'[q] = 0
      BY <1>2, <1>5 DEF Orderly
<1>9. Orderly(g)'
      BY <1>6, <1>7, <1>8 DEF Orderly
<1> QED  BY <1>2, <1>5, <1>9 DEF InHand

\* The command at the head of the port enters the lane.
LEMMA OrderAdmitted ==
    ASSUME NEW g \in Gens, Orderly(g), runs' = runs, toEngine[g] \in Seq(ParentMessages),
           lane[g] \in Seq(Reqs), toEngine[g] # <<>>, Queued(g, 1), NEW r \in Reqs,
           toEngine[g][1].req = r, toEngine'[g] = Tail(toEngine[g]),
           lane'[g] = Append(lane[g], r), running'[g] = running[g]
    PROVE  Orderly(g)' /\ \A q : InHand(g, q)' => InHand(g, q)
<1> DEFINE n == Len(toEngine[g])
           m == Len(lane[g])
<1>1. /\ n \in Nat \ {0} /\ DOMAIN toEngine[g] = 1..n /\ DOMAIN toEngine'[g] = 1..(n - 1)
      /\ \A i \in 1..(n - 1) : toEngine'[g][i] = toEngine[g][i + 1]
      BY TailFacts
<1>2. /\ m \in Nat /\ DOMAIN lane[g] = 1..m /\ DOMAIN lane'[g] = 1..(m + 1)
      /\ lane'[g][m + 1] = r /\ \A i \in 1..m : lane'[g][i] = lane[g][i]
      BY AppendFacts
<1>3. \A i \in DOMAIN toEngine'[g] :
         /\ i \in Nat /\ i + 1 \in DOMAIN toEngine[g] /\ 1 < i + 1
         /\ toEngine'[g][i] = toEngine[g][i + 1]
         /\ Queued(g, i)' <=> Queued(g, i + 1)
      BY <1>1 DEF Queued
<1>4. \A i \in DOMAIN lane'[g] :
         /\ i \in Nat
         /\ \/ i = m + 1 /\ lane'[g][i] = r
            \/ i \in DOMAIN lane[g] /\ i < m + 1 /\ lane'[g][i] = lane[g][i]
      BY <1>2
<1>5. 1 \in DOMAIN toEngine[g]
      BY <1>1
<1>6. /\ \A i \in DOMAIN lane[g] : lane[g][i] < r
      /\ \A q \in Reqs : q >= r => runs[q] = 0
      /\ \A j \in DOMAIN toEngine'[g] : Queued(g, j)' => r < toEngine'[g][j].req
      BY <1>3, <1>5 DEF Orderly
<1>7. \A q : InHand(g, q)' => InHand(g, q)
  <2>1. \A q : (\E i \in DOMAIN lane'[g] : lane'[g][i] = q) => InHand(g, q)
        BY <1>4, <1>5 DEF InHand
  <2>2. \A q : (\E i \in DOMAIN toEngine'[g] : Queued(g, i)' /\ toEngine'[g][i].req = q) => InHand(g, q)
        BY <1>3 DEF InHand
  <2> QED  BY <2>1, <2>2 DEF InHand
<1>8. lane'[g] # <<>> /\ (running[g] => lane'[g][1] = lane[g][1])
  <2>1. lane[g] # <<>> => m >= 1
        OBVIOUS
  <2>2. lane'[g] # <<>>
        OBVIOUS
  <2> QED  BY <1>2, <2>1, <2>2 DEF Orderly
<1>9. \A i, j \in DOMAIN lane'[g] : i < j => lane'[g][i] < lane'[g][j]
  <2> SUFFICES ASSUME NEW i \in DOMAIN lane'[g], NEW j \in DOMAIN lane'[g], i < j
               PROVE  lane'[g][i] < lane'[g][j]
      OBVIOUS
  <2>1. i \in DOMAIN lane[g] /\ lane'[g][i] = lane[g][i]
        BY <1>2, <1>4
  <2> QED  BY <1>4, <1>6, <2>1 DEF Orderly
<1>10. \A i, j \in DOMAIN toEngine'[g] :
          i < j /\ Queued(g, i)' /\ Queued(g, j)' => toEngine'[g][i].req < toEngine'[g][j].req
  <2> SUFFICES ASSUME NEW i \in DOMAIN toEngine'[g], NEW j \in DOMAIN toEngine'[g],
                      i < j, Queued(g, i)', Queued(g, j)'
               PROVE  toEngine'[g][i].req < toEngine'[g][j].req
      OBVIOUS
  <2>1. i + 1 < j + 1
        BY <1>3
  <2> QED  BY <1>3, <2>1 DEF Orderly
<1>11. \A i \in DOMAIN lane'[g], j \in DOMAIN toEngine'[g] :
          Queued(g, j)' => lane'[g][i] < toEngine'[g][j].req
      BY <1>3, <1>4, <1>6 DEF Orderly
<1>12. \A i \in DOMAIN lane'[g], q \in Reqs :
          (i > 1 \/ ~running'[g]) /\ q >= lane'[g][i] => runs'[q] = 0
      BY <1>4, <1>6 DEF Orderly
<1>13. \A j \in DOMAIN toEngine'[g], q \in Reqs :
          Queued(g, j)' /\ q >= toEngine'[g][j].req => runs'[q] = 0
      BY <1>3 DEF Orderly
<1>14. running'[g] => lane'[g] # <<>> /\ runs'[lane'[g][1]] = 1
      BY <1>8 DEF Orderly
<1>15. Orderly(g)'
      BY <1>9, <1>10, <1>11, <1>12, <1>13, <1>14 DEF Orderly
<1> QED  BY <1>7, <1>15

\* The head of the lane leaves it, and nothing runs.
LEMMA OrderDropped ==
    ASSUME NEW g \in Gens, Orderly(g), runs' = runs, toEngine'[g] = toEngine[g],
           lane[g] \in Seq(Reqs), lane[g] # <<>>, lane'[g] = Tail(lane[g]), ~running'[g],
           NEW r \in Reqs, lane[g][1] = r
    PROVE  /\ Orderly(g)' /\ \A q : InHand(g, q)' => InHand(g, q)
           /\ ~InHand(g, r)'
<1> DEFINE m == Len(lane[g])
<1>1. /\ m \in Nat \ {0} /\ DOMAIN lane[g] = 1..m /\ DOMAIN lane'[g] = 1..(m - 1)
      /\ \A i \in 1..(m - 1) : lane'[g][i] = lane[g][i + 1]
      BY TailFacts
<1>2. \A i \in DOMAIN lane'[g] :
         /\ i \in Nat /\ i + 1 \in DOMAIN lane[g] /\ 1 < i + 1
         /\ lane'[g][i] = lane[g][i + 1]
      BY <1>1
<1>3. 1 \in DOMAIN lane[g] /\ r \in Nat
      BY <1>1
<1>4. \A i, j \in DOMAIN lane'[g] : i < j => lane'[g][i] < lane'[g][j]
  <2> SUFFICES ASSUME NEW i \in DOMAIN lane'[g], NEW j \in DOMAIN lane'[g], i < j
               PROVE  lane'[g][i] < lane'[g][j]
      OBVIOUS
  <2>1. i + 1 < j + 1
        BY <1>2
  <2> QED  BY <1>2, <2>1 DEF Orderly
<1>5. \A i \in DOMAIN toEngine'[g] : Queued(g, i)' <=> Queued(g, i)
      BY DEF Queued
<1>6. Orderly(g)'
      BY <1>2, <1>4, <1>5 DEF Orderly
<1>7. \A q : InHand(g, q)' => InHand(g, q)
      BY <1>2, <1>5 DEF InHand
<1>8. ~InHand(g, r)'
  <2>1. \A i \in DOMAIN lane'[g] : r < lane'[g][i]
        BY <1>2, <1>3 DEF Orderly
  <2>2. \A j \in DOMAIN toEngine'[g] : Queued(g, j)' => r < toEngine'[g][j].req
        BY <1>3, <1>5 DEF Orderly
  <2> QED  BY <1>3, <2>1, <2>2 DEF InHand
<1> QED  BY <1>6, <1>7, <1>8

\* The head of the lane takes effect.
LEMMA OrderBegun ==
    ASSUME NEW g \in Gens, Orderly(g), toEngine'[g] = toEngine[g],
           toEngine[g] \in Seq(ParentMessages),
           lane[g] \in Seq(Reqs), lane[g] # <<>>, lane'[g] = lane[g],
           ~running[g], running'[g], runs \in [Reqs -> Nat],
           runs' = [runs EXCEPT ![lane[g][1]] = @ + 1]
    PROVE  /\ Orderly(g)' /\ \A q : InHand(g, q)' <=> InHand(g, q)
           /\ \A q \in Reqs : q >= lane[g][1] => runs[q] = 0
<1> DEFINE r == lane[g][1]
<1>1. 1 \in DOMAIN lane[g] /\ r \in Reqs /\ r \in Nat
      BY TailFacts
<1>2. /\ \A q \in Reqs : q >= r => runs[q] = 0
      /\ runs'[r] = 1 /\ \A q \in Reqs : q > r => runs'[q] = 0
  <2>1. \A q \in Reqs : q >= r => runs[q] = 0
        BY <1>1 DEF Orderly
  <2>2. r >= r /\ runs' = [runs EXCEPT ![r] = @ + 1]
        BY <1>1
  <2> HIDE DEF r
  <2>3. runs'[r] = 1
        BY <1>1, <2>1, <2>2
  <2> QED  BY <1>1, <2>1, <2>2, <2>3
<1>3. \A i \in DOMAIN lane[g] : i > 1 => lane[g][i] > r /\ lane[g][i] \in Nat
  <2>1. \A i \in DOMAIN lane[g] : i > 1 => r < lane[g][i]
        BY <1>1, LaneTypes DEF Orderly
  <2> QED  BY <1>1, <2>1, LaneTypes
<1>4. \A j \in DOMAIN toEngine[g] :
         Queued(g, j) => toEngine[g][j].req > r /\ toEngine[g][j].req \in Nat
  <2>1. \A j \in DOMAIN toEngine[g] : Queued(g, j) => r < toEngine[g][j].req
        BY <1>1 DEF Orderly
  <2> QED  BY <1>1, <2>1, PortTypes
<1>5. \A i \in DOMAIN toEngine'[g] : Queued(g, i)' <=> Queued(g, i)
      BY DEF Queued
<1> HIDE DEF r
<1>6. \A i \in DOMAIN lane'[g], q \in Reqs :
         (i > 1 \/ ~running'[g]) /\ q >= lane'[g][i] => runs'[q] = 0
      BY <1>1, <1>2, <1>3
<1>7. \A j \in DOMAIN toEngine'[g], q \in Reqs :
         Queued(g, j)' /\ q >= toEngine'[g][j].req => runs'[q] = 0
  <2> SUFFICES ASSUME NEW j \in DOMAIN toEngine'[g], NEW q \in Reqs,
                      Queued(g, j)', q >= toEngine'[g][j].req
               PROVE  runs'[q] = 0
      OBVIOUS
  <2> QED  BY <1>1, <1>2, <1>4, <1>5
<1>8. Orderly(g)'
      BY <1>1, <1>2, <1>5, <1>6, <1>7 DEF Orderly, r
<1> QED  BY <1>2, <1>5, <1>8 DEF InHand, r

\* Only the held generation has anything in hand.
LEMMA OthersHoldNothing ==
    ASSUME HeldInv, ServiceInv, NEW g \in Gens, Live(g), NEW h \in Gens, h # g
    PROVE  /\ toEngine[h] = <<>> /\ lane[h] = <<>> /\ ~running[h]
           /\ \A r : ~InHand(h, r)
<1>1. ~Live(h)
      BY DEF HeldInv
<1>2. toEngine[h] = <<>> /\ lane[h] = <<>>
      BY <1>1 DEF ServiceInv, DeadHoldNothing
<1> QED  BY <1>2 DEF ServiceInv, InOrder, Orderly, InHand

\* A true message stays true.
LEMMA TruthStays ==
    ASSUME \A r \in Reqs : outcome[r] # "unused" =>
              outcome'[r] # "unused" /\ \A g \in Gens : InHand(g, r)' => InHand(g, r),
           \A r \in Reqs :
              runs'[r] = runs[r] \/ (runs[r] = 0 /\ \E g \in Gens : InHand(g, r))
    PROVE  TrueMessages \subseteq TrueMessages'
<1> SUFFICES ASSUME NEW m \in ChildMessages, m.type = "result", TrueResult(m)
             PROVE  TrueResult(m)'
    BY DEF TrueMessages
<1>1. m.req \in Reqs
      BY ResultHeadType
<1>2. \A r : r = m.req /\ (\A g \in Gens : ~InHand(g, r)) => \A g \in Gens : ~InHand(g, r)'
      BY <1>1 DEF TrueResult
<1> DEFINE r == m.req
<1>3. /\ r \in Reqs /\ outcome[r] # "unused" /\ outcome'[r] # "unused"
      /\ m.code \in {"ok", "error"} => runs[r] = 1
      /\ m.code \in {"NOT_READY", "BUSY"} => runs[r] = 0 /\ \A g \in Gens : ~InHand(g, r)
      /\ m.code # "TIMEOUT" => \A g \in Gens : ~InHand(g, r)'
      BY <1>1, <1>2 DEF TrueResult
<1>4. /\ m.code \in {"ok", "error"} => runs'[r] = 1
      /\ m.code \in {"NOT_READY", "BUSY"} => runs'[r] = 0
  <2>1. runs'[r] = runs[r] \/ (runs[r] = 0 /\ \E g \in Gens : InHand(g, r))
        BY <1>3
  <2> HIDE DEF r
  <2>2. CASE m.code \in {"ok", "error"}
        BY <1>3, <2>1, <2>2
  <2>3. CASE m.code \in {"NOT_READY", "BUSY"}
        BY <1>3, <2>1, <2>3
  <2> QED  BY <2>2, <2>3
<1> QED  BY <1>3, <1>4 DEF TrueResult

\* What a step of main may tell a caller: nothing, or an answer that leaves the
\* command undecided, or one given to a command that no engine has in hand.
Tells(r) ==
    \/ outcome'[r] = outcome[r]
    \/ /\ outcome'[r] # "unused"
       /\ outcome[r] = "unused" => \A q \in Reqs : q < r => outcome[q] # "unused"
       /\ outcome'[r] \in Undecided \/ \A g \in Gens : ~InHand(g, r)

PostsControl ==
    \A g \in Gens :
        \/ toEngine'[g] = toEngine[g]
        \/ /\ Live(g)
           /\ \E t \in {"initialize", "ping", "shutdown"} :
                 toEngine'[g] = Append(toEngine[g], Control(t))

TakesMessages ==
    \A g \in Gens :
        \/ toMain'[g] = toMain[g]
        \/ toMain[g] # <<>> /\ toMain'[g] = Tail(toMain[g])

\* A step of main that posts no command.
QuietMain ==
    /\ UNCHANGED controllerVars
    /\ \A g \in Gens : Live(g) => Live(g)'
    /\ PostsControl /\ TakesMessages
    /\ \A r \in Reqs : Tells(r)

LEMMA ToldHolds ==
    ASSUME ServiceInv, \A r \in Reqs : Tells(r), runs' = runs,
           \A g \in Gens, r \in Reqs : InHand(g, r)' => InHand(g, r)
    PROVE  CalledInOrder' /\ NothingBeforeTheCall' /\ InHandIsUndecided'
<1>1. \A r \in Reqs : outcome[r] # "unused" => outcome'[r] # "unused"
      BY DEF Tells
<1>2. CalledInOrder'
      BY <1>1 DEF ServiceInv, CalledInOrder, Tells
<1>3. NothingBeforeTheCall'
      BY <1>1 DEF ServiceInv, NothingBeforeTheCall
<1>4. InHandIsUndecided'
      BY DEF ServiceInv, InHandIsUndecided, Tells, Undecided
<1> QED  BY <1>2, <1>3, <1>4

LEMMA MessagesTaken ==
    ASSUME ResultsAreTrue, TakesMessages, TrueMessages \subseteq TrueMessages'
    PROVE  ResultsAreTrue'
<1> SUFFICES ASSUME NEW g \in Gens PROVE toMain'[g] \in Seq(TrueMessages')
    BY DEF ResultsAreTrue
<1>1. toMain[g] \in Seq(TrueMessages)
      BY DEF ResultsAreTrue
<1>2. toMain'[g] \in Seq(TrueMessages)
      BY <1>1, TailFacts DEF TakesMessages
<1> QED  BY <1>2, SeqGrows

LEMMA QuietMainHolds ==
    ASSUME TypeOK, ServiceInv, QuietMain
    PROVE  ServiceInv'
<1>1. \A g \in Gens : Orderly(g)' /\ \A r : InHand(g, r)' => InHand(g, r)
  <2> SUFFICES ASSUME NEW g \in Gens
               PROVE  Orderly(g)' /\ \A r : InHand(g, r)' => InHand(g, r)
      OBVIOUS
  <2>1. Orderly(g) /\ runs' = runs /\ lane'[g] = lane[g] /\ running'[g] = running[g]
        BY DEF QuietMain, controllerVars, ServiceInv, InOrder
  <2>2. toEngine[g] \in Seq(ParentMessages)
        BY DEF TypeOK, ChannelTypeOK
  <2>3. CASE toEngine'[g] = toEngine[g]
        BY <2>1, <2>3, OrderKept
  <2>4. CASE \E t \in {"initialize", "ping", "shutdown"} :
                 toEngine'[g] = Append(toEngine[g], Control(t))
        BY <2>1, <2>2, <2>4, OrderControl
  <2> QED  BY <2>3, <2>4 DEF QuietMain, PostsControl
<1>2. DeadHoldNothing'
      BY DEF QuietMain, PostsControl, controllerVars, ServiceInv, DeadHoldNothing
<1>3. runs' = runs /\ \A r \in Reqs : outcome[r] # "unused" => outcome'[r] # "unused"
      BY DEF QuietMain, controllerVars, Tells
<1>4. CalledInOrder' /\ NothingBeforeTheCall' /\ InHandIsUndecided'
      BY <1>1, <1>3, ToldHolds DEF QuietMain
<1>5. TrueMessages \subseteq TrueMessages'
      BY <1>1, <1>3, TruthStays
<1>6. ResultsAreTrue'
      BY <1>5, MessagesTaken DEF ServiceInv, QuietMain
<1> QED  BY <1>1, <1>2, <1>4, <1>6 DEF ServiceInv, InOrder

\* A command is posted to the live engine.
LEMMA PostedHolds ==
    ASSUME TypeOK, HeldInv, ServiceInv, NEW r \in Reqs, CallIsNext(r),
           NEW g \in Gens, Live(g), toEngine' = Posted(g, Execute(r)),
           Answer(r, "waiting"), UNCHANGED <<os, toMain, controllerVars>>
    PROVE  ServiceInv'
<1>1. /\ outcome[r] = "unused" /\ \A q \in Reqs : q < r => outcome[q] # "unused"
      /\ outcome'[r] = "waiting" /\ \A q \in Reqs : q # r => outcome'[q] = outcome[q]
      BY DEF CallIsNext, Answer, TypeOK, SupervisorTypeOK
<1>2. /\ toEngine'[g] = Append(toEngine[g], Execute(r))
      /\ \A h \in Gens : h # g => toEngine'[h] = toEngine[h]
      /\ toEngine[g] \in Seq(ParentMessages) /\ lane[g] \in Seq(Reqs)
      BY DEF Posted, TypeOK, ChannelTypeOK, ControllerTypeOK
<1>3. UNCHANGED <<lane, running, runs>> /\ \A h \in Gens : Live(h)' <=> Live(h)
      BY DEF controllerVars, Live
<1>4. \A q \in Reqs : q >= r => outcome[q] = "unused" /\ runs[q] = 0
  <2> SUFFICES ASSUME NEW q \in Reqs, q >= r PROVE outcome[q] = "unused" /\ runs[q] = 0
      OBVIOUS
  <2>1. q = r \/ r < q
        OBVIOUS
  <2>2. outcome[q] = "unused"
        BY <1>1, <2>1 DEF ServiceInv, CalledInOrder
  <2> QED  BY <2>2 DEF ServiceInv, NothingBeforeTheCall
<1>5. \A q \in Reqs : InHand(g, q) => q < r
  <2> SUFFICES ASSUME NEW q \in Reqs, InHand(g, q) PROVE q < r
      OBVIOUS
  <2>1. outcome[q] # "unused"
        BY DEF ServiceInv, InHandIsUndecided, Undecided
  <2> QED  BY <1>4, <2>1
<1>6. Orderly(g)' /\ \A q : InHand(g, q)' => InHand(g, q) \/ q = r
      BY <1>2, <1>3, <1>4, <1>5, OrderExecute DEF ServiceInv, InOrder
<1>7. \A h \in Gens : h # g => Orderly(h)' /\ \A q : InHand(h, q)' => InHand(h, q)
      BY <1>2, <1>3, OrderKept DEF ServiceInv, InOrder
<1>8. \A h \in Gens, q \in Reqs : InHand(h, q)' => InHand(h, q) \/ q = r
      BY <1>6, <1>7
<1>9. DeadHoldNothing'
      BY <1>2, <1>3 DEF ServiceInv, DeadHoldNothing
<1>10. CalledInOrder'
      BY <1>1, <1>4 DEF ServiceInv, CalledInOrder
<1>11. NothingBeforeTheCall'
      BY <1>1, <1>3 DEF ServiceInv, NothingBeforeTheCall
<1>12. InHandIsUndecided'
      BY <1>1, <1>8 DEF ServiceInv, InHandIsUndecided, Undecided
<1>13. TrueMessages \subseteq TrueMessages'
      BY <1>1, <1>3, <1>8, TruthStays
<1>14. ResultsAreTrue'
      BY <1>13, MessagesTaken DEF ServiceInv, TakesMessages
<1> QED
  BY <1>6, <1>7, <1>9, <1>10, <1>11, <1>12, <1>14 DEF ServiceInv, InOrder

LEMMA SettlingTells ==
    ASSUME TypeOK, WaitersInv, NEW retire, SettlePending(retire)
    PROVE  \A r \in Reqs : Tells(r)
BY DEF SettlePending, WaitersInv, Tells, Undecided

LEMMA UndecidedTells ==
    ASSUME TypeOK, NEW q \in Reqs, NEW code \in Undecided, Answer(q, code),
           outcome[q] = "waiting"
    PROVE  \A r \in Reqs : Tells(r)
BY DEF Answer, Tells, Undecided, TypeOK, SupervisorTypeOK

\* The first answer to a call.
LEMMA CallTells ==
    ASSUME TypeOK, ServiceInv, NEW q \in Reqs, CallIsNext(q),
           NEW code \in Outcomes \ {"unused"}, Answer(q, code)
    PROVE  \A r \in Reqs : Tells(r)
<1>1. /\ outcome[q] = "unused" /\ \A p \in Reqs : p < q => outcome[p] # "unused"
      /\ outcome'[q] = code /\ code # "unused" /\ \A p \in Reqs : p # q => outcome'[p] = outcome[p]
      BY DEF CallIsNext, Answer, TypeOK, SupervisorTypeOK
<1>2. \A g \in Gens : ~InHand(g, q)
      BY <1>1 DEF ServiceInv, InHandIsUndecided, Undecided
<1> QED  BY <1>1, <1>2 DEF Tells

\* The engine's answer to a command that waits is a true one.
LEMMA ResultTells ==
    ASSUME TypeOK, WaitersInv, ServiceInv, Handle("result"),
           NEW q \in pending, q = Head(toMain[proc]).req,
           NEW code, code = Head(toMain[proc]).code, Answer(q, code)
    PROVE  /\ \A r \in Reqs : Tells(r)
           /\ q \in Reqs /\ outcome[q] = "waiting" /\ code \in ResultCodes
           /\ code \in {"ok", "error"} => runs[q] = 1
           /\ code \in {"NOT_READY", "BUSY"} => runs[q] = 0
<1>1. q \in Reqs /\ outcome[q] = "waiting"
      BY DEF TypeOK, SupervisorTypeOK, WaitersInv
<1>2. proc \in Gens /\ toMain[proc] # <<>> /\ Head(toMain[proc]).type = "result"
      BY DEF Handle, TypeOK, SupervisorTypeOK
<1>3. Head(toMain[proc]) \in TrueMessages
  <2>1. toMain[proc] \in Seq(TrueMessages)
        BY <1>2 DEF ServiceInv, ResultsAreTrue
  <2> QED  BY <1>2, <2>1, TailFacts
<1>4. TrueResult(Head(toMain[proc])) /\ code \in ResultCodes
      BY <1>2, <1>3, ResultHeadType DEF TrueMessages
<1>5. /\ code \in {"ok", "error"} => runs[q] = 1
      /\ code \in {"NOT_READY", "BUSY"} => runs[q] = 0
      /\ code # "TIMEOUT" => \A g \in Gens : ~InHand(g, q)
      BY <1>4 DEF TrueResult
<1>6. outcome'[q] = code /\ \A r \in Reqs : r # q => outcome'[r] = outcome[r]
      BY <1>1 DEF Answer, TypeOK, SupervisorTypeOK
<1>7. \A r \in Reqs : Tells(r)
      BY <1>1, <1>4, <1>5, <1>6 DEF Tells, Undecided, ResultCodes
<1> QED  BY <1>1, <1>4, <1>5, <1>7

\* A step of the link, seen by the callers.
ServiceStep == [Service!Next]_(Service!serviceVars)

LEMMA NothingSeen ==
    ASSUME UNCHANGED <<outcome, runs>>
    PROVE  ServiceStep
BY DEF ServiceStep, Service!serviceVars

LEMMA SettlingSeen ==
    ASSUME TypeOK, WaitersInv, NEW retire, SettlePending(retire), runs' = runs
    PROVE  ServiceStep
<1>1. outcome' = [r \in Reqs |-> IF outcome[r] = "waiting" THEN "ABORTED" ELSE outcome[r]]
      BY DEF SettlePending, WaitersInv
<1>2. CASE \E r \in Reqs : outcome[r] = "waiting"
  <2>1. Service!AbortWaiting
        BY <1>1, <1>2 DEF Service!AbortWaiting
  <2> QED  BY <2>1 DEF ServiceStep, Service!Next
<1>3. CASE ~\E r \in Reqs : outcome[r] = "waiting"
  <2>1. outcome' = outcome
        BY <1>1, <1>3 DEF TypeOK, SupervisorTypeOK
  <2> QED  BY <2>1, NothingSeen
<1> QED  BY <1>2, <1>3

LEMMA CallSeen ==
    ASSUME NEW r \in Reqs, CallIsNext(r), runs' = runs,
           NEW code \in {"waiting", "ABORTED", "NOT_READY", "BUSY"}, Answer(r, code)
    PROVE  ServiceStep
<1>1. Service!Call(r)
      BY DEF CallIsNext, Answer, Service!Call, Service!Tell, Service!Refusals
<1> QED  BY <1>1 DEF ServiceStep, Service!Next

LEMMA TimeOutSeen ==
    ASSUME NEW r \in Reqs, outcome[r] = "waiting", Answer(r, "TIMEOUT"), runs' = runs
    PROVE  ServiceStep
<1>1. Service!TimeOut(r)
      BY DEF Answer, Service!TimeOut, Service!Tell
<1> QED  BY <1>1 DEF ServiceStep, Service!Next

LEMMA ResultSeen ==
    ASSUME NEW r \in Reqs, outcome[r] = "waiting", NEW code \in ResultCodes,
           Answer(r, code), runs' = runs,
           code \in {"ok", "error"} => runs[r] = 1,
           code \in {"NOT_READY", "BUSY"} => runs[r] = 0
    PROVE  ServiceStep
<1>1. CASE code = "TIMEOUT"
      BY <1>1, TimeOutSeen
<1>2. CASE code \in {"ok", "error"}
  <2>1. Service!Acknowledge(r)
        BY <1>2 DEF Answer, Service!Acknowledge, Service!Tell
  <2> QED  BY <2>1 DEF ServiceStep, Service!Next
<1>3. CASE code \in {"NOT_READY", "BUSY"}
  <2>1. Service!Refuse(r)
        BY <1>3 DEF Answer, Service!Refuse, Service!Tell, Service!Refusals
  <2> QED  BY <2>1 DEF ServiceStep, Service!Next
<1> QED  BY <1>1, <1>2, <1>3 DEF ResultCodes

\* The parts of a step of main.
LEMMA ControlPosted ==
    ASSUME TypeOK, toEngine' = toEngine
              \/ \E t \in {"initialize", "ping", "shutdown"} : toEngine' = Posted(proc, Control(t)),
           proc # NoProc \/ toEngine' = toEngine
    PROVE  PostsControl
BY DEF PostsControl, Posted, TypeOK, ChannelTypeOK, SupervisorTypeOK

LEMMA MessageTaken ==
    ASSUME TypeOK, NEW g \in Gens, toMain[g] # <<>>, toMain' = [toMain EXCEPT ![g] = Tail(@)]
    PROVE  TakesMessages
BY DEF TakesMessages, TypeOK, ChannelTypeOK

LEMMA HandleTakes ==
    ASSUME TypeOK, NEW type, Handle(type)
    PROVE  TakesMessages /\ PostsControl
<1>1. TakesMessages
      BY MessageTaken DEF Handle, TypeOK, SupervisorTypeOK
<1> QED  BY <1>1, ControlPosted DEF Handle

LEMMA LivingStay ==
    ASSUME TypeOK, os' = os \/ Kill
    PROVE  \A g \in Gens : Live(g) => Live(g)'
BY KillStep DEF TypeOK, Live

LEMMA NothingTold ==
    ASSUME outcome' = outcome
    PROVE  \A r \in Reqs : Tells(r)
BY DEF Tells

LEMMA FailProtocolQuiet ==
    ASSUME TypeOK, WaitersInv, FailProtocol, NEW type, Handle(type), UNCHANGED controllerVars
    PROVE  QuietMain /\ ServiceStep
<1>1. runs' = runs
      BY DEF controllerVars
<1>2. CASE UNCHANGED <<os, supervisorVars>>
  <2>1. outcome' = outcome
        BY <1>2 DEF supervisorVars
  <2> QED  BY <1>1, <1>2, <2>1, HandleTakes, LivingStay, NothingTold, NothingSeen DEF QuietMain
<1>3. CASE Kill /\ SettlePending(TRUE)
      BY <1>1, <1>3, HandleTakes, LivingStay, SettlingTells, SettlingSeen DEF QuietMain
<1> QED  BY <1>2, <1>3 DEF FailProtocol

LEMMA SupervisorServes ==
    ASSUME TypeOK, HeldInv, WaitersInv, ServiceInv, SupervisorNext, UNCHANGED controllerVars
    PROVE  ServiceInv' /\ ServiceStep
<1> DEFINE Goal == ServiceInv' /\ ServiceStep
<1>0. /\ QuietMain /\ ServiceStep => Goal
      /\ runs' = runs
      BY QuietMainHolds DEF controllerVars
<1>1. CASE Start \/ Restart \/ RestartTimer
  <2>1. PICK count : Spawn(count)
        BY <1>1 DEF Start, Restart, RestartTimer
  <2>2. UNCHANGED <<toEngine, toMain, outcome>>
        BY <2>1 DEF Spawn
  <2>3. \A g \in Gens : Live(g) => Live(g)'
        BY <2>1 DEF Spawn, Live, TypeOK, ChannelTypeOK
  <2>4. PostsControl /\ TakesMessages
        BY <2>2 DEF PostsControl, TakesMessages
  <2> QED  BY <1>0, <2>2, <2>3, <2>4, NothingTold, NothingSeen DEF QuietMain
<1>2. CASE Stop
  <2>1. SettlePending(TRUE) /\ toMain' = toMain /\ (os' = os \/ Kill)
        BY <1>2 DEF Stop, ForceShutdown
  <2>2. toEngine' = toEngine \/ (proc # NoProc /\ toEngine' = Posted(proc, Control("shutdown")))
        BY <1>2 DEF Stop
  <2>3. PostsControl /\ TakesMessages
        BY <2>1, <2>2, ControlPosted DEF TakesMessages
  <2> QED  BY <1>0, <2>1, <2>3, LivingStay, SettlingTells, SettlingSeen DEF QuietMain
<1>3. CASE \E r \in Reqs : RefuseExecute(r)
  <2>1. PICK r \in Reqs : RefuseExecute(r)
        BY <1>3
  <2>2. PICK code \in {"NOT_READY", "BUSY"} : Answer(r, code)
        BY <2>1 DEF RefuseExecute
  <2>3. CallIsNext(r) /\ UNCHANGED <<os, toEngine, toMain>>
        BY <2>1 DEF RefuseExecute, channelVars
  <2>4. \A q \in Reqs : Tells(q)
        BY <2>2, <2>3, CallTells DEF Outcomes, ResultCodes
  <2>5. PostsControl /\ TakesMessages
        BY <2>3 DEF PostsControl, TakesMessages
  <2> QED  BY <1>0, <2>2, <2>3, <2>4, <2>5, LivingStay, CallSeen DEF QuietMain
<1>4. CASE \E r \in Reqs : AcceptExecute(r)
  <2>1. PICK r \in Reqs : AcceptExecute(r)
        BY <1>4
  <2>2. CallIsNext(r) /\ UNCHANGED <<os, toMain>> /\ proc # NoProc
        BY <2>1 DEF AcceptExecute, CanExecute
  <2>3. CASE Answer(r, "ABORTED") /\ toEngine' = toEngine
    <3>1. \A q \in Reqs : Tells(q)
          BY <2>2, <2>3, CallTells DEF Outcomes, ResultCodes
    <3>2. PostsControl /\ TakesMessages
          BY <2>2, <2>3 DEF PostsControl, TakesMessages
    <3> QED  BY <1>0, <2>2, <2>3, <3>1, <3>2, LivingStay, CallSeen DEF QuietMain
  <2>4. CASE Answer(r, "waiting") /\ toEngine' = Posted(proc, Execute(r))
    <3>1. PICK g \in Gens : g = proc
          BY <2>2 DEF TypeOK, SupervisorTypeOK
    <3>2. ServiceStep
          BY <1>0, <2>2, <2>4, CallSeen
    <3>3. CASE Live(g)
          BY <2>2, <2>4, <3>1, <3>2, <3>3, PostedHolds
    <3>4. CASE ~Live(g)
      <4>1. \A q \in Reqs : Tells(q)
            BY <2>2, <2>4, CallTells DEF Outcomes
      <4>2. toEngine' = toEngine
            BY <2>4, <3>1, <3>4 DEF Posted
      <4>3. PostsControl /\ TakesMessages
            BY <2>2, <4>2 DEF PostsControl, TakesMessages
      <4> QED  BY <1>0, <2>2, <3>2, <4>1, <4>3, LivingStay DEF QuietMain
    <3> QED  BY <3>3, <3>4
  <2> QED  BY <2>1, <2>3, <2>4 DEF AcceptExecute
<1>5. CASE SpawnEvent \/ HeartbeatTimer
  <2>1. proc # NoProc /\ toMain' = toMain /\ outcome' = outcome /\ (os' = os \/ Kill)
        BY <1>5 DEF SpawnEvent, HeartbeatTimer, Terminate
  <2>2. \/ toEngine' = toEngine
        \/ \E t \in {"initialize", "ping", "shutdown"} : toEngine' = Posted(proc, Control(t))
        BY <1>5 DEF SpawnEvent, HeartbeatTimer
  <2>3. PostsControl /\ TakesMessages
        BY <2>1, <2>2, ControlPosted DEF TakesMessages
  <2> QED  BY <1>0, <2>1, <2>3, LivingStay, NothingTold, NothingSeen DEF QuietMain
<1>6. CASE \/ FatalErrorEvent \/ StartupTimer \/ HeartbeatTimeout \/ StableTimer
           \/ ShutdownTimer \/ ForcedExitTimer
  <2>1. UNCHANGED <<toEngine, toMain, outcome>> /\ (os' = os \/ Kill)
        BY <1>6 DEF FatalErrorEvent, StartupTimer, HeartbeatTimeout, StableTimer,
                    ShutdownTimer, ForcedExitTimer, Terminate, channelVars
  <2>2. PostsControl /\ TakesMessages
        BY <2>1 DEF PostsControl, TakesMessages
  <2> QED  BY <1>0, <2>1, <2>2, LivingStay, NothingTold, NothingSeen DEF QuietMain
<1>7. CASE ExitEvent
  <2>1. SettlePending(FALSE) /\ UNCHANGED <<toEngine, toMain>>
        BY <1>7 DEF ExitEvent
  <2>2. \A g \in Gens : Live(g) => Live(g)'
        BY <1>7 DEF ExitEvent, Live, TypeOK, ChannelTypeOK
  <2>3. PostsControl /\ TakesMessages
        BY <2>1 DEF PostsControl, TakesMessages
  <2> QED  BY <1>0, <2>1, <2>2, <2>3, SettlingTells, SettlingSeen DEF QuietMain
<1>8. CASE \E g \in Gens : StaleMessage(g)
  <2>1. UNCHANGED <<os, toEngine, outcome>> /\ TakesMessages
        BY <1>8, MessageTaken DEF StaleMessage, supervisorVars
  <2>2. PostsControl
        BY <2>1 DEF PostsControl
  <2> QED  BY <1>0, <2>1, <2>2, LivingStay, NothingTold, NothingSeen DEF QuietMain
<1>9. CASE \E r \in Reqs : OperationTimeout(r)
  <2>1. PICK r \in Reqs : OperationTimeout(r)
        BY <1>9
  <2>2. outcome[r] = "waiting" /\ Answer(r, "TIMEOUT") /\ UNCHANGED <<os, toEngine, toMain>>
        BY <2>1 DEF OperationTimeout, WaitersInv, channelVars
  <2>3. PostsControl /\ TakesMessages
        BY <2>2 DEF PostsControl, TakesMessages
  <2>4. \A q \in Reqs : Tells(q)
        BY <2>2, UndecidedTells DEF Undecided
  <2> QED  BY <1>0, <2>2, <2>3, <2>4, LivingStay, TimeOutSeen DEF QuietMain
<1>10. CASE \/ HandleInvalid \/ HandleReady \/ HandlePong \/ HandleEvent
            \/ HandleStopped \/ HandleFailed \/ HandleResult
  <2>1. PICK type : Handle(type)
        BY <1>10 DEF HandleInvalid, HandleReady, HandlePong, HandleEvent, HandleStopped,
                     HandleFailed, HandleResult
  <2>2. CASE FailProtocol
        BY <1>0, <2>1, <2>2, FailProtocolQuiet
  <2>3. CASE /\ ~FailProtocol
             /\ HandleInvalid \/ HandleReady \/ HandlePong \/ HandleEvent \/ HandleStopped
    <3>1. UNCHANGED <<os, outcome>>
          BY <2>3 DEF HandleInvalid, HandleReady, HandlePong, HandleEvent, HandleStopped,
                      supervisorVars
    <3> QED  BY <1>0, <2>1, <3>1, HandleTakes, LivingStay, NothingTold, NothingSeen DEF QuietMain
  <2>4. CASE ~FailProtocol /\ HandleFailed
    <3>1. Kill /\ SettlePending(TRUE)
          BY <2>4 DEF HandleFailed, Terminate
    <3> QED  BY <1>0, <2>1, <3>1, HandleTakes, LivingStay, SettlingTells, SettlingSeen DEF QuietMain
  <2>5. CASE ~FailProtocol /\ HandleResult
    <3> DEFINE r == Head(toMain[proc]).req
               code == Head(toMain[proc]).code
    <3>1. os' = os /\ Handle("result")
          BY <2>5 DEF HandleResult
    <3>2. CASE r \in pending /\ Answer(r, code)
      <4>1. /\ \A q \in Reqs : Tells(q)
            /\ r \in Reqs /\ outcome[r] = "waiting" /\ code \in ResultCodes
            /\ code \in {"ok", "error"} => runs[r] = 1
            /\ code \in {"NOT_READY", "BUSY"} => runs[r] = 0
            BY <3>1, <3>2, ResultTells
      <4>2. ServiceStep
            BY <1>0, <3>2, <4>1, ResultSeen
      <4> QED  BY <1>0, <3>1, <4>1, <4>2, HandleTakes, LivingStay DEF QuietMain
    <3>3. CASE outcome' = outcome
          BY <1>0, <3>1, <3>3, HandleTakes, LivingStay, NothingTold, NothingSeen DEF QuietMain
    <3> QED  BY <2>5, <3>2, <3>3 DEF HandleResult, DropLate
  <2> QED  BY <1>10, <2>2, <2>3, <2>4, <2>5
<1> QED
  BY <1>1, <1>2, <1>3, <1>4, <1>5, <1>6, <1>7, <1>8, <1>9, <1>10
     DEF SupervisorNext, ChildEvent, TimerFires

\* A step of the engine that leaves its lane and the commands' effects alone: it
\* may take one message and may post one that is true when the step is done.
QuietEngine(g) ==
    /\ UNCHANGED <<os, supervisorVars, lane, running, runs>>
    /\ \/ toEngine' = toEngine
       \/ toEngine[g] # <<>> /\ toEngine' = [toEngine EXCEPT ![g] = Tail(@)]
    /\ toMain' = toMain \/ \E m \in TrueMessages' : toMain' = Sent(g, m)

\* Nothing is said to the callers, and nothing more comes in hand.
LEMMA UntoldHolds ==
    ASSUME ServiceInv, outcome' = outcome, runs' = runs,
           \A h \in Gens, r \in Reqs : InHand(h, r)' => InHand(h, r)
    PROVE  /\ CalledInOrder' /\ NothingBeforeTheCall' /\ InHandIsUndecided'
           /\ TrueMessages \subseteq TrueMessages'
<1>1. \A r \in Reqs : Tells(r)
      BY DEF Tells
<1>2. TrueMessages \subseteq TrueMessages'
      BY TruthStays
<1> QED  BY <1>1, <1>2, ToldHolds

LEMMA ResultsSent ==
    ASSUME TypeOK, ResultsAreTrue, NEW g \in Gens, TrueMessages \subseteq TrueMessages',
           toMain' = toMain \/ \E m \in TrueMessages' : toMain' = Sent(g, m)
    PROVE  ResultsAreTrue'
<1> SUFFICES ASSUME NEW h \in Gens PROVE toMain'[h] \in Seq(TrueMessages')
    BY DEF ResultsAreTrue
<1>1. toMain[h] \in Seq(TrueMessages')
      BY SeqGrows DEF ResultsAreTrue
<1>2. \/ toMain'[h] = toMain[h]
      \/ \E m \in TrueMessages' : toMain'[h] = Append(toMain[h], m)
      BY DEF Sent, TypeOK, ChannelTypeOK
<1> QED  BY <1>1, <1>2, SeqAppends

LEMMA TakenHolds ==
    ASSUME TypeOK, ServiceInv, NEW g \in Gens, UNCHANGED <<lane, running, runs>>,
           \/ toEngine' = toEngine
           \/ toEngine[g] # <<>> /\ toEngine' = [toEngine EXCEPT ![g] = Tail(@)]
    PROVE  /\ InOrder' /\ (UNCHANGED os => DeadHoldNothing')
           /\ \A h \in Gens, r \in Reqs : InHand(h, r)' => InHand(h, r)
<1>1. \A h \in Gens : Orderly(h)' /\ \A r : InHand(h, r)' => InHand(h, r)
  <2> SUFFICES ASSUME NEW h \in Gens
               PROVE  Orderly(h)' /\ \A r : InHand(h, r)' => InHand(h, r)
      OBVIOUS
  <2>1. Orderly(h) /\ lane'[h] = lane[h] /\ running'[h] = running[h]
        BY DEF ServiceInv, InOrder
  <2>2. toEngine[h] \in Seq(ParentMessages)
        BY DEF TypeOK, ChannelTypeOK
  <2>3. CASE toEngine'[h] = toEngine[h]
        BY <2>1, <2>3, OrderKept
  <2>4. CASE toEngine[h] # <<>> /\ toEngine'[h] = Tail(toEngine[h])
        BY <2>1, <2>2, <2>4, OrderTaken
  <2> QED  BY <2>3, <2>4 DEF TypeOK, ChannelTypeOK
<1>2. UNCHANGED os => DeadHoldNothing'
      BY DEF ServiceInv, DeadHoldNothing, Live, TypeOK, ChannelTypeOK
<1> QED  BY <1>1, <1>2 DEF InOrder

LEMMA QuietEngineHolds ==
    ASSUME TypeOK, ServiceInv, NEW g \in Gens, QuietEngine(g)
    PROVE  ServiceInv' /\ ServiceStep
<1>1. outcome' = outcome /\ runs' = runs
      BY DEF QuietEngine, supervisorVars
<1>2. /\ InOrder' /\ DeadHoldNothing'
      /\ \A h \in Gens, r \in Reqs : InHand(h, r)' => InHand(h, r)
      BY TakenHolds DEF QuietEngine
<1>3. /\ CalledInOrder' /\ NothingBeforeTheCall' /\ InHandIsUndecided'
      /\ TrueMessages \subseteq TrueMessages'
      BY <1>1, <1>2, UntoldHolds
<1>4. ResultsAreTrue'
      BY <1>3, ResultsSent DEF ServiceInv, QuietEngine
<1> QED  BY <1>1, <1>2, <1>3, <1>4, NothingSeen DEF ServiceInv

\* A message that is no result is true; so is the TIMEOUT of a command that was
\* called.
LEMMA OthersAreTrue ==
    /\ \A t \in {"ready", "pong", "event", "stopped", "invalid"} : Control(t) \in TrueMessages'
    /\ \A w \in {"handshake", "ping"} : Failed(w) \in TrueMessages'
    /\ \A r \in Reqs : outcome'[r] # "unused" => Result(r, "TIMEOUT") \in TrueMessages'
<1>1. \A t \in {"ready", "pong", "event", "stopped", "invalid"} : Control(t).type # "result"
      BY DEF Control
<1>2. \A w \in {"handshake", "ping"} : Failed(w).type # "result"
      BY DEF Failed
<1>3. \A r \in Reqs :
         /\ Result(r, "TIMEOUT").req = r /\ Result(r, "TIMEOUT").code = "TIMEOUT"
         /\ Result(r, "TIMEOUT") \in ChildMessages
  <2>1. "TIMEOUT" \in ResultCodes
        BY DEF ResultCodes
  <2>2. \A r \in Reqs : Result(r, "TIMEOUT").req = r /\ Result(r, "TIMEOUT").code = "TIMEOUT"
        BY DEF Result
  <2> QED  BY <2>1, <2>2, MessageTypes
<1>4. \A r \in Reqs : outcome'[r] # "unused" => TrueResult(Result(r, "TIMEOUT"))'
      BY <1>3 DEF TrueResult
<1> QED  BY <1>1, <1>2, <1>3, <1>4, MessageTypes DEF TrueMessages

LEMMA DecidedIsTrue ==
    ASSUME NEW r \in Reqs, NEW c \in ResultCodes, outcome'[r] # "unused",
           c \in {"ok", "error"} => runs'[r] = 1,
           c \in {"NOT_READY", "BUSY"} => runs'[r] = 0,
           \A g \in Gens : ~InHand(g, r)'
    PROVE  Result(r, c) \in TrueMessages'
<1>1. Result(r, c).req = r /\ Result(r, c).code = c
      BY DEF Result
<1>2. TrueResult(Result(r, c))'
      BY <1>1 DEF TrueResult
<1> QED  BY <1>2, MessageTypes DEF TrueMessages

\* The lane lets its head go, and its answer may be posted.
LEMMA LeavesLaneHolds ==
    ASSUME TypeOK, HeldInv, ServiceInv, NEW g \in Gens, Live(g), lane[g] # <<>>,
           lane' = [lane EXCEPT ![g] = Tail(@)], ~running'[g],
           \A h \in Gens : h # g => running'[h] = running[h],
           UNCHANGED <<os, toEngine, supervisorVars, runs>>,
           NEW r \in Reqs, r = lane[g][1],
           \/ toMain' = toMain
           \/ /\ runs[r] = 1
              /\ \E c \in {"ok", "error", "TIMEOUT"} : toMain' = Sent(g, Result(r, c))
    PROVE  ServiceInv' /\ ServiceStep
<1>1. lane[g] \in Seq(Reqs) /\ lane'[g] = Tail(lane[g]) /\ \A h \in Gens : h # g => lane'[h] = lane[h]
      BY DEF TypeOK, ControllerTypeOK
<1>2. Orderly(g)' /\ (\A q : InHand(g, q)' => InHand(g, q)) /\ ~InHand(g, r)'
      BY <1>1, OrderDropped DEF ServiceInv, InOrder
<1>3. \A h \in Gens : h # g =>
         Orderly(h)' /\ (\A q : InHand(h, q)' => InHand(h, q)) /\ ~InHand(h, r)'
      BY <1>1, OthersHoldNothing, OrderKept DEF ServiceInv, InOrder
<1>4. outcome' = outcome /\ runs' = runs
      BY DEF supervisorVars
<1>5. /\ CalledInOrder' /\ NothingBeforeTheCall' /\ InHandIsUndecided'
      /\ TrueMessages \subseteq TrueMessages'
      BY <1>2, <1>3, <1>4, UntoldHolds
<1>6. outcome[r] # "unused"
  <2>1. InHand(g, r)
        BY <1>1, TailFacts DEF InHand
  <2> QED  BY <2>1 DEF ServiceInv, InHandIsUndecided, Undecided
<1>7. toMain' = toMain \/ \E m \in TrueMessages' : toMain' = Sent(g, m)
  <2>1. ASSUME NEW c \in {"ok", "error", "TIMEOUT"}, runs[r] = 1
        PROVE  Result(r, c) \in TrueMessages'
        BY <1>2, <1>3, <1>4, <1>6, <2>1, DecidedIsTrue DEF ResultCodes
  <2> QED  BY <2>1
<1>8. ResultsAreTrue'
      BY <1>5, <1>7, ResultsSent DEF ServiceInv
<1>9. DeadHoldNothing'
      BY <1>1 DEF ServiceInv, DeadHoldNothing, Live
<1> QED  BY <1>2, <1>3, <1>4, <1>5, <1>8, <1>9, NothingSeen DEF ServiceInv, InOrder

\* A command is handed to the executor.
LEMMA BeginsHolds ==
    ASSUME TypeOK, HeldInv, ServiceInv, NEW g \in Gens, Live(g), lane[g] # <<>>, ~running[g],
           NEW r \in Reqs, r = lane[g][1],
           running' = [running EXCEPT ![g] = TRUE], runs' = [runs EXCEPT ![r] = @ + 1],
           UNCHANGED <<channelVars, supervisorVars, lane>>
    PROVE  ServiceInv' /\ ServiceStep
<1>1. /\ toEngine[g] \in Seq(ParentMessages) /\ lane[g] \in Seq(Reqs)
      /\ runs \in [Reqs -> Nat] /\ running'[g]
      /\ \A h \in Gens : h # g => running'[h] = running[h]
      BY DEF TypeOK, ChannelTypeOK, ControllerTypeOK
<1>2. UNCHANGED <<os, toEngine, toMain, outcome>>
      BY DEF channelVars, supervisorVars
<1>3. /\ Orderly(g)' /\ \A q : InHand(g, q)' <=> InHand(g, q)
      /\ \A q \in Reqs : q >= r => runs[q] = 0
      BY <1>1, <1>2, OrderBegun DEF ServiceInv, InOrder
<1>4. \A h \in Gens : h # g => Orderly(h)' /\ \A q : ~InHand(h, q)'
      BY <1>1, <1>2, OthersHoldNothing, OrderEmpty
<1>5. InHand(g, r) /\ outcome[r] \in Undecided
  <2>1. InHand(g, r)
        BY <1>1, TailFacts DEF InHand
  <2> QED  BY <2>1 DEF ServiceInv, InHandIsUndecided
<1>6. runs[r] = 0 /\ (\A q \in Reqs : q > r => runs[q] = 0) /\ runs' = [runs EXCEPT ![r] = 1]
  <2>0. r \in Nat /\ \A q \in Reqs : q \in Nat
        OBVIOUS
  <2>1. r >= r /\ \A q \in Reqs : q > r => q >= r
        BY <2>0
  <2>2. runs[r] = 0 /\ \A q \in Reqs : q > r => runs[q] = 0
        BY <1>3, <2>1
  <2> QED  BY <1>1, <2>2
<1>7. \A q \in Reqs : runs'[q] = runs[q] \/ (runs[q] = 0 /\ \E h \in Gens : InHand(h, q))
      BY <1>5, <1>6, <1>1
<1>8. TrueMessages \subseteq TrueMessages'
      BY <1>2, <1>3, <1>4, <1>7, TruthStays
<1>9. ResultsAreTrue'
      BY <1>2, <1>8, MessagesTaken DEF ServiceInv, TakesMessages
<1>10. CalledInOrder' /\ InHandIsUndecided' /\ DeadHoldNothing'
      BY <1>2, <1>3, <1>4 DEF ServiceInv, CalledInOrder, InHandIsUndecided, DeadHoldNothing, Live
<1>11. NothingBeforeTheCall'
      BY <1>1, <1>2, <1>5, <1>6 DEF ServiceInv, NothingBeforeTheCall, Undecided
<1>12. ServiceStep
  <2>1. Service!TakeEffect(r)
        BY <1>2, <1>5, <1>6 DEF Service!TakeEffect, Service!Indeterminate, Undecided
  <2> QED  BY <2>1 DEF ServiceStep, Service!Next
<1> QED
  BY <1>3, <1>4, <1>9, <1>10, <1>11, <1>12 DEF ServiceInv, InOrder

\* The command taken off the port was there once and in no other place.
LEMMA TakesLastOfIt ==
    ASSUME TypeOK, ServiceInv, NEW g \in Gens, toEngine[g] # <<>>, Queued(g, 1),
           toEngine' = [toEngine EXCEPT ![g] = Tail(@)], lane' = lane,
           NEW r \in Reqs, r = toEngine[g][1].req
    PROVE  ~InHand(g, r)' /\ \A h \in Gens : h # g => (InHand(h, r)' <=> InHand(h, r))
<1>1. toEngine[g] \in Seq(ParentMessages) /\ lane[g] \in Seq(Reqs) /\ toEngine'[g] = Tail(toEngine[g])
      BY DEF TypeOK, ChannelTypeOK, ControllerTypeOK
<1> DEFINE n == Len(toEngine[g])
<1>2a. /\ n \in Nat \ {0} /\ DOMAIN toEngine[g] = 1..n /\ DOMAIN toEngine'[g] = 1..(n - 1)
       /\ \A i \in 1..(n - 1) : toEngine'[g][i] = toEngine[g][i + 1]
       BY <1>1, TailFacts
<1> HIDE DEF n
<1>2. 1 \in DOMAIN toEngine[g] /\ r \in Nat
  <2>1. 1 \in DOMAIN toEngine[g]
        BY <1>2a
  <2>2. r \in Nat
        OBVIOUS
  <2> QED  BY <2>1, <2>2
<1>3. \A j \in DOMAIN toEngine'[g] :
         Queued(g, j)' => Queued(g, j + 1) /\ j + 1 \in DOMAIN toEngine[g] /\ 1 < j + 1
                          /\ toEngine'[g][j] = toEngine[g][j + 1]
      BY <1>2a DEF Queued
<1>4. \A j \in DOMAIN toEngine'[g] : Queued(g, j)' => r < toEngine'[g][j].req
      BY <1>2, <1>3 DEF ServiceInv, InOrder, Orderly
<1>5. \A i \in DOMAIN lane'[g] : lane'[g][i] < r
      BY <1>2 DEF ServiceInv, InOrder, Orderly
<1>6. ~InHand(g, r)'
      BY <1>2, <1>4, <1>5 DEF InHand
<1>7. \A h \in Gens : h # g => toEngine'[h] = toEngine[h] /\ lane'[h] = lane[h]
      BY DEF TypeOK, ChannelTypeOK
<1> QED  BY <1>6, <1>7 DEF InHand, Queued

LEMMA AdmittedHolds ==
    ASSUME TypeOK, ServiceInv, NEW g \in Gens, Live(g), toEngine[g] # <<>>, Queued(g, 1),
           toEngine' = [toEngine EXCEPT ![g] = Tail(@)],
           NEW r \in Reqs, r = toEngine[g][1].req, lane' = [lane EXCEPT ![g] = Append(@, r)],
           UNCHANGED <<os, toMain, outcome, running, runs>>
    PROVE  ServiceInv' /\ ServiceStep
<1>1. /\ toEngine[g] \in Seq(ParentMessages) /\ lane[g] \in Seq(Reqs)
      /\ toEngine'[g] = Tail(toEngine[g]) /\ lane'[g] = Append(lane[g], r)
      /\ \A h \in Gens : h # g => toEngine'[h] = toEngine[h] /\ lane'[h] = lane[h]
      BY DEF TypeOK, ChannelTypeOK, ControllerTypeOK
<1>2. Orderly(g)' /\ \A q : InHand(g, q)' => InHand(g, q)
      BY <1>1, OrderAdmitted DEF ServiceInv, InOrder
<1>3. \A h \in Gens : h # g => Orderly(h)' /\ \A q : InHand(h, q)' => InHand(h, q)
      BY <1>1, OrderKept DEF ServiceInv, InOrder
<1>4. /\ CalledInOrder' /\ NothingBeforeTheCall' /\ InHandIsUndecided'
      /\ TrueMessages \subseteq TrueMessages'
      BY <1>2, <1>3, UntoldHolds
<1>5. ResultsAreTrue'
      BY <1>4, MessagesTaken DEF ServiceInv, TakesMessages
<1>6. DeadHoldNothing'
      BY <1>1 DEF ServiceInv, DeadHoldNothing, Live
<1> QED  BY <1>2, <1>3, <1>4, <1>5, <1>6, NothingSeen DEF ServiceInv, InOrder

LEMMA DiesHolds ==
    ASSUME TypeOK, ServiceInv, NEW g \in Gens, Dies(g), outcome' = outcome
    PROVE  ServiceInv' /\ ServiceStep
<1>1. /\ toEngine'[g] = <<>> /\ lane'[g] = <<>> /\ ~running'[g] /\ runs' = runs
      /\ \A h \in Gens : h # g =>
            /\ toEngine'[h] = toEngine[h] /\ lane'[h] = lane[h] /\ running'[h] = running[h]
            /\ os'[h] = os[h]
      BY DEF Dies, TypeOK, ChannelTypeOK, ControllerTypeOK
<1>2. Orderly(g)' /\ \A q : ~InHand(g, q)'
      BY <1>1, OrderEmpty
<1>3. \A h \in Gens : h # g => Orderly(h)' /\ \A q : InHand(h, q)' => InHand(h, q)
      BY <1>1, OrderKept DEF ServiceInv, InOrder
<1>4. /\ CalledInOrder' /\ NothingBeforeTheCall' /\ InHandIsUndecided'
      /\ TrueMessages \subseteq TrueMessages'
      BY <1>1, <1>2, <1>3, UntoldHolds
<1>5. ResultsAreTrue'
  <2> SUFFICES ASSUME NEW h \in Gens PROVE toMain'[h] \in Seq(TrueMessages')
      BY DEF ResultsAreTrue
  <2>1. toMain[h] \in Seq(TrueMessages)
        BY DEF ServiceInv, ResultsAreTrue
  <2>2. \/ toMain'[h] = toMain[h]
        \/ \E n \in 0..Len(toMain[h]) : toMain'[h] = SubSeq(toMain[h], 1, n)
        BY DEF Dies, TypeOK, ChannelTypeOK
  <2>3. toMain'[h] \in Seq(TrueMessages)
        BY <2>1, <2>2
  <2> QED  BY <1>4, <2>3, SeqGrows
<1>6. DeadHoldNothing'
      BY <1>1 DEF ServiceInv, DeadHoldNothing, Live
<1> QED  BY <1>1, <1>2, <1>3, <1>4, <1>5, <1>6, NothingSeen DEF ServiceInv, InOrder

LEMMA ControllerServes ==
    ASSUME FaultyEngine = FALSE, TypeOK, HeldInv, ServiceInv, NEW g \in Gens,
           ControllerNext(g), UNCHANGED supervisorVars
    PROVE  ServiceInv' /\ ServiceStep
<1>0. outcome' = outcome
      BY DEF supervisorVars
<1>1. CASE \/ ReceiveBeforeInitialize(g) \/ ReceiveInitialize(g) \/ ReceiveShutdown(g)
           \/ ReceivePing(g)
  <2>1. UNCHANGED <<os, lane, running, runs>>
        BY <1>1 DEF ReceiveBeforeInitialize, ReceiveInitialize, ReceiveShutdown, ReceivePing,
                    Receive, controllerVars
  <2>2. toEngine[g] # <<>> /\ toEngine' = [toEngine EXCEPT ![g] = Tail(@)]
        BY <1>1 DEF ReceiveBeforeInitialize, ReceiveInitialize, ReceiveShutdown, ReceivePing,
                    Receive
  <2>3. toMain' = toMain \/ \E m \in TrueMessages' : toMain' = Sent(g, m)
        BY <1>1, OthersAreTrue
           DEF ReceiveBeforeInitialize, ReceiveInitialize, ReceiveShutdown, ReceivePing
  <2> QED  BY <2>1, <2>2, <2>3, QuietEngineHolds DEF QuietEngine
<1>2. CASE \/ ProveRuntime(g) \/ FinishInvalid(g) \/ Emit(g) \/ ShutdownComplete(g) \/ Hang(g)
  <2>1. UNCHANGED <<os, toEngine, lane, running, runs>>
        BY <1>2 DEF ProveRuntime, FinishInvalid, Emit, ShutdownComplete, Hang,
                    channelVars, controllerVars
  <2>2. toMain' = toMain \/ \E m \in TrueMessages' : toMain' = Sent(g, m)
        BY <1>2, OthersAreTrue
           DEF ProveRuntime, FinishInvalid, Emit, ShutdownComplete, Hang, channelVars
  <2> QED  BY <2>1, <2>2, QuietEngineHolds DEF QuietEngine
<1>3. CASE \E r \in Reqs : Deadline(g, r)
  <2>1. PICK r \in Reqs : Deadline(g, r)
        BY <1>3
  <2>2. outcome'[r] # "unused"
        BY <1>0, <2>1 DEF Deadline, InHand, ServiceInv, InHandIsUndecided, Undecided
  <2>3. toMain' = toMain \/ \E m \in TrueMessages' : toMain' = Sent(g, m)
        BY <2>1, <2>2, OthersAreTrue DEF Deadline
  <2> QED  BY <2>1, <2>3, QuietEngineHolds DEF QuietEngine, Deadline
<1>4. CASE ReceiveExecute(g)
  <2>0. PICK r \in Reqs : r = Head(toEngine[g]).req
    <3>1. /\ toEngine[g] # <<>> /\ toEngine[g] \in Seq(ParentMessages)
          /\ Head(toEngine[g]).type = "execute"
          BY <1>4 DEF ReceiveExecute, Receive, TypeOK, ChannelTypeOK
    <3>2. Head(toEngine[g]) \in ParentMessages
          BY <3>1, TailFacts
    <3> QED  BY <3>1, <3>2 DEF ParentMessages
  <2>1. /\ Live(g) /\ toEngine[g] # <<>> /\ toEngine' = [toEngine EXCEPT ![g] = Tail(@)]
        /\ toEngine[g] \in Seq(ParentMessages) /\ lane[g] \in Seq(Reqs)
        /\ UNCHANGED <<os, running, runs>>
        BY <1>4 DEF ReceiveExecute, Receive, Turns, TypeOK, ChannelTypeOK, ControllerTypeOK
  <2>2. /\ 1 \in DOMAIN toEngine[g] /\ Queued(g, 1) /\ r = toEngine[g][1].req /\ r \in Reqs
    <3>1. 1 \in DOMAIN toEngine[g] /\ Head(toEngine[g]) = toEngine[g][1]
          BY <2>1, TailFacts
    <3>2. Queued(g, 1)
          BY <1>4, <3>1 DEF ReceiveExecute, Receive, Queued
    <3> QED  BY <2>0, <3>1, <3>2
  <2>3. InHand(g, r) /\ outcome'[r] # "unused" /\ runs[r] = 0
    <3>1. InHand(g, r)
          BY <2>2 DEF InHand
    <3>2. runs[r] = 0
      <4>1. r >= toEngine[g][1].req
            BY <2>2
      <4> QED  BY <2>2, <4>1 DEF ServiceInv, InOrder, Orderly
    <3> QED  BY <1>0, <2>2, <3>1, <3>2 DEF ServiceInv, InHandIsUndecided, Undecided
  <2>4. CASE lane' = lane /\ toMain' = Sent(g, Result(r, "TIMEOUT"))
    <3>1. Result(r, "TIMEOUT") \in TrueMessages'
          BY <2>2, <2>3, OthersAreTrue
    <3> QED  BY <2>1, <2>4, <3>1, QuietEngineHolds DEF QuietEngine
  <2>5. CASE lane' = lane /\ \E c \in {"NOT_READY", "BUSY"} : toMain' = Sent(g, Result(r, c))
    <3>0. \A h \in Gens : h # g => ~InHand(h, r)
          BY <2>1, OthersHoldNothing
    <3>1. \A h \in Gens : ~InHand(h, r)'
      <4>1. ~InHand(g, r)' /\ \A h \in Gens : h # g => (InHand(h, r)' <=> InHand(h, r))
            BY <2>1, <2>2, <2>5, TakesLastOfIt
      <4> QED  BY <3>0, <4>1
    <3>2. \A c \in {"NOT_READY", "BUSY"} : Result(r, c) \in TrueMessages'
          BY <2>1, <2>2, <2>3, <3>1, DecidedIsTrue DEF ResultCodes
    <3> QED  BY <2>1, <2>5, <3>2, QuietEngineHolds DEF QuietEngine
  <2>6. CASE lane' = [lane EXCEPT ![g] = Append(@, r)] /\ toMain' = toMain
        BY <1>0, <2>1, <2>2, <2>6, AdmittedHolds
  <2> QED  BY <1>4, <2>0, <2>4, <2>5, <2>6 DEF ReceiveExecute
<1>5. CASE Begin(g) \/ Finish(g)
  <2> DEFINE r == Head(lane[g])
  <2>1. /\ Live(g) /\ lane[g] # <<>> /\ lane[g] \in Seq(Reqs) /\ r = lane[g][1] /\ r \in Reqs
        /\ running \in [Gens -> BOOLEAN]
        BY <1>5, TailFacts DEF Begin, Finish, Turns, TypeOK, ControllerTypeOK
  <2>2. CASE Finish(g)
    <3>1. runs[r] = 1
          BY <2>1, <2>2 DEF Finish, ServiceInv, InOrder, Orderly
    <3>2. /\ lane' = [lane EXCEPT ![g] = Tail(@)] /\ running' = [running EXCEPT ![g] = FALSE]
          /\ UNCHANGED <<os, toEngine, runs>>
          /\ toMain' = toMain \/ \E c \in {"ok", "error", "TIMEOUT"} : toMain' = Sent(g, Result(r, c))
          BY <2>2 DEF Finish
    <3>3. ~running'[g] /\ \A h \in Gens : h # g => running'[h] = running[h]
          BY <2>1, <3>2
    <3> HIDE DEF r
    <3> QED  BY <2>1, <3>1, <3>2, <3>3, LeavesLaneHolds
  <2>3. CASE Begin(g) /\ lane' = [lane EXCEPT ![g] = Tail(@)] /\ UNCHANGED <<running, runs>>
        BY <2>1, <2>3, LeavesLaneHolds DEF Begin, channelVars
  <2>4. CASE /\ Begin(g) /\ lane' = lane /\ running' = [running EXCEPT ![g] = TRUE]
             /\ runs' = [runs EXCEPT ![r] = @ + 1]
        BY <2>1, <2>4, BeginsHolds DEF Begin
  <2> QED  BY <1>5, <2>2, <2>3, <2>4 DEF Begin
<1>6. CASE Dies(g)
      BY <1>0, <1>6, DiesHolds
<1> QED
  BY <1>1, <1>2, <1>3, <1>4, <1>5, <1>6 DEF ControllerNext, Misbehave

LEMMA LinkServes ==
    ASSUME FaultyEngine = FALSE, TypeOK, HeldInv, WaitersInv, ServiceInv, [Next]_vars
    PROVE  ServiceInv' /\ ServiceStep
<1>1. CASE MainStep
      BY <1>1, SupervisorServes DEF MainStep
<1>2. CASE \E g \in Gens : EngineStep(g)
      BY <1>2, ControllerServes DEF EngineStep
<1>3. CASE UNCHANGED vars
  <2>1. UNCHANGED <<os, toEngine, toMain, outcome, lane, running, runs, controllerVars>>
        BY <1>3 DEF vars, channelVars, supervisorVars, controllerVars
  <2>2. QuietMain
        BY <2>1 DEF QuietMain, Live, PostsControl, TakesMessages, Tells
  <2> QED  BY <2>1, <2>2, QuietMainHolds, NothingSeen
<1> QED  BY <1>1, <1>2, <1>3 DEF Next

\* An engine that keeps its protocol, its supervisor and the port between them are
\* a service of commands: each takes effect at most once and in the order of the
\* calls, and its caller's answer is true of it (ImplementsCommandService).
THEOREM LinkImplementsCommandService ==
    ASSUME FaultyEngine = FALSE
    PROVE  Spec => ImplementsCommandService
<1>1. Init => HeldInv /\ WaitersInv
      BY DEF Init, ChannelInit, SupervisorInit, HeldInv, Live, HasExited, WaitersInv
<1>2. Init => ServiceInv
  <2>1. Init => \A g \in Gens : toEngine[g] = <<>> /\ toMain[g] = <<>> /\ lane[g] = <<>> /\ ~running[g]
        BY DEF Init, ChannelInit, ControllerInit
  <2>2. Init => \A r \in Reqs : outcome[r] = "unused" /\ runs[r] = 0
        BY DEF Init, SupervisorInit, ControllerInit
  <2>3. Init => DeadHoldNothing /\ InOrder /\ InHandIsUndecided
        BY <2>1 DEF DeadHoldNothing, InHandIsUndecided, InHand, InOrder, Orderly
  <2>4. Init => CalledInOrder /\ NothingBeforeTheCall
        BY <2>2 DEF CalledInOrder, NothingBeforeTheCall
  <2>5. Init => ResultsAreTrue
    <3>1. <<>> \in Seq(TrueMessages)
          OBVIOUS
    <3> QED  BY <2>1, <3>1 DEF ResultsAreTrue
  <2> QED  BY <2>3, <2>4, <2>5 DEF ServiceInv
<1>3. Init => Service!Init
      BY DEF Init, SupervisorInit, ControllerInit, Service!Init
<1>4. TypeOK /\ HeldInv /\ WaitersInv /\ ServiceInv /\ [Next]_vars
        => ServiceInv' /\ [Service!Next]_(Service!serviceVars)
      BY LinkServes DEF ServiceStep
<1>5. Spec => [](TypeOK /\ HeldInv /\ WaitersInv)
      BY <1>1, HeldStep, WaitersStep, LinkTypeCorrect, PTL DEF Spec
<1> QED  BY <1>2, <1>3, <1>4, <1>5, PTL DEF Spec, ImplementsCommandService, Service!Spec

------------------------------------------------------------------------------
(* An engine that keeps its protocol is never accused of breaking it.        *)

\* Every message that asks for an answer, and the answer, carry the key of the
\* exchange they belong to: 0 the handshake, 1 the ping, r + 2 the command r.
Keyed(m) == m.type \notin {"shutdown", "event", "stopped", "invalid"}

Key(m) ==
    IF m.type \in {"execute", "result"} THEN m.req + 2
    ELSE IF m.type = "failed" THEN (IF m.of = "handshake" THEN 0 ELSE 1)
    ELSE IF m.type \in {"initialize", "ready"} THEN 0 ELSE 1

Keys(s) == {Key(s[i]) : i \in {j \in DOMAIN s : Keyed(s[j])}}
Distinct(s) ==
    \A i, j \in DOMAIN s : Keyed(s[i]) /\ Keyed(s[j]) /\ Key(s[i]) = Key(s[j]) => i = j

Types(s) == {s[i].type : i \in DOMAIN s}
EventsFollowReady(s) ==
    \A j \in DOMAIN s : s[j].type = "event" => \E i \in DOMAIN s : i < j /\ s[i].type = "ready"

Members(s) == {s[i] : i \in DOMAIN s}
NoRepeats(s) == \A i, j \in DOMAIN s : s[i] = s[j] => i = j

LEMMA AppendKeeps ==
    ASSUME NEW S, NEW s \in Seq(S), NEW m
    PROVE  /\ Types(Append(s, m)) = Types(s) \cup {m.type}
           /\ Keyed(m) => Keys(Append(s, m)) = Keys(s) \cup {Key(m)}
           /\ ~Keyed(m) => Keys(Append(s, m)) = Keys(s)
           /\ Distinct(s) /\ (Keyed(m) => Key(m) \notin Keys(s)) => Distinct(Append(s, m))
           /\ EventsFollowReady(s) /\ (m.type = "event" => "ready" \in Types(s))
                => EventsFollowReady(Append(s, m))
           /\ Members(Append(s, m)) = Members(s) \cup {m}
           /\ NoRepeats(s) /\ m \notin Members(s) => NoRepeats(Append(s, m))
<1> DEFINE t == Append(s, m)
           n == Len(s)
<1>1. /\ n \in Nat /\ DOMAIN s = 1..n /\ DOMAIN t = 1..(n + 1) /\ t[n + 1] = m
      /\ \A i \in 1..n : t[i] = s[i]
      BY AppendFacts
<1> HIDE DEF t, n
<1>2. /\ n + 1 \in DOMAIN t /\ n + 1 \notin DOMAIN s /\ t[n + 1] = m
      /\ \A i \in DOMAIN s : i \in DOMAIN t /\ t[i] = s[i] /\ i < n + 1
      /\ \A i \in DOMAIN t : i = n + 1 \/ i \in DOMAIN s
      BY <1>1
<1>3. Types(t) = Types(s) \cup {m.type}
      BY <1>2 DEF Types
<1>4. Members(t) = Members(s) \cup {m}
      BY <1>2 DEF Members
<1>5. /\ Keyed(m) => Keys(t) = Keys(s) \cup {Key(m)}
      /\ ~Keyed(m) => Keys(t) = Keys(s)
      BY <1>2 DEF Keys
<1>6. Distinct(s) /\ (Keyed(m) => Key(m) \notin Keys(s)) => Distinct(t)
      BY <1>2 DEF Distinct, Keys
<1>7. ASSUME EventsFollowReady(s), m.type = "event" => "ready" \in Types(s)
      PROVE  EventsFollowReady(t)
  <2> SUFFICES ASSUME NEW j \in DOMAIN t, t[j].type = "event"
               PROVE  \E i \in DOMAIN t : i < j /\ t[i].type = "ready"
      BY DEF EventsFollowReady
  <2>1. CASE j \in DOMAIN s
        BY <1>2, <1>7, <2>1 DEF EventsFollowReady
  <2>2. CASE j = n + 1
    <3>1. PICK i \in DOMAIN s : s[i].type = "ready"
          BY <1>2, <1>7, <2>2 DEF Types
    <3> QED  BY <1>2, <2>2, <3>1
  <2> QED  BY <1>2, <2>1, <2>2
<1>8. NoRepeats(s) /\ m \notin Members(s) => NoRepeats(t)
      BY <1>2 DEF NoRepeats, Members
<1> QED  BY <1>3, <1>4, <1>5, <1>6, <1>7, <1>8 DEF t

LEMMA TailKeeps ==
    ASSUME NEW S, NEW s \in Seq(S), s # <<>>
    PROVE  /\ Types(Tail(s)) \subseteq Types(s) /\ Types(s) = Types(Tail(s)) \cup {Head(s).type}
           /\ Keys(Tail(s)) \subseteq Keys(s)
           /\ Keyed(Head(s)) => Key(Head(s)) \in Keys(s)
           /\ Distinct(s) => Distinct(Tail(s))
           /\ Distinct(s) /\ Keyed(Head(s)) => Key(Head(s)) \notin Keys(Tail(s))
           /\ EventsFollowReady(s) => Head(s).type # "event"
           /\ EventsFollowReady(s) /\ Head(s).type # "ready" => EventsFollowReady(Tail(s))
           /\ Members(Tail(s)) \subseteq Members(s) /\ Head(s) \in Members(s)
           /\ NoRepeats(s) => NoRepeats(Tail(s)) /\ Head(s) \notin Members(Tail(s))
<1> DEFINE t == Tail(s)
           n == Len(s)
           m == Head(s)
<1>1. /\ n \in Nat \ {0} /\ DOMAIN s = 1..n /\ DOMAIN t = 1..(n - 1) /\ m = s[1]
      /\ \A i \in 1..(n - 1) : t[i] = s[i + 1]
      BY TailFacts
<1> HIDE DEF t, n, m
<1>2. /\ 1 \in DOMAIN s /\ s[1] = m
      /\ \A i \in DOMAIN t : i \in Nat /\ i + 1 \in DOMAIN s /\ t[i] = s[i + 1] /\ i + 1 # 1
      /\ \A i \in DOMAIN s : i \in Nat /\ (i = 1 \/ (i - 1 \in DOMAIN t /\ t[i - 1] = s[i]))
      /\ \A i \in DOMAIN s : ~(i < 1)
      BY <1>1
<1>3. Types(t) \subseteq Types(s) /\ Types(s) = Types(t) \cup {m.type}
      BY <1>2 DEF Types
<1>4. Members(t) \subseteq Members(s) /\ m \in Members(s)
      BY <1>2 DEF Members
<1>5. Keys(t) \subseteq Keys(s) /\ (Keyed(m) => Key(m) \in Keys(s))
      BY <1>2 DEF Keys
<1>6. ASSUME Distinct(s) PROVE Distinct(t) /\ (Keyed(m) => Key(m) \notin Keys(t))
  <2>1. \A i, j \in DOMAIN t : i + 1 = j + 1 => i = j
        BY <1>2
  <2>2. Distinct(t)
        BY <1>2, <1>6, <2>1 DEF Distinct
  <2>3. Keyed(m) => Key(m) \notin Keys(t)
        BY <1>2, <1>6 DEF Distinct, Keys
  <2> QED  BY <2>2, <2>3
<1>7. ASSUME EventsFollowReady(s) PROVE m.type # "event"
      BY <1>2, <1>7 DEF EventsFollowReady
<1>8. ASSUME EventsFollowReady(s), m.type # "ready" PROVE EventsFollowReady(t)
  <2> SUFFICES ASSUME NEW j \in DOMAIN t, t[j].type = "event"
               PROVE  \E i \in DOMAIN t : i < j /\ t[i].type = "ready"
      BY DEF EventsFollowReady
  <2>1. PICK i \in DOMAIN s : i < j + 1 /\ s[i].type = "ready"
        BY <1>2, <1>8 DEF EventsFollowReady
  <2>2. i - 1 \in DOMAIN t /\ t[i - 1] = s[i]
        BY <1>2, <1>8, <2>1
  <2>3. i - 1 < j
        BY <1>2, <2>1
  <2> QED  BY <2>1, <2>2, <2>3
<1>9. ASSUME NoRepeats(s) PROVE NoRepeats(t) /\ m \notin Members(t)
  <2>1. \A i, j \in DOMAIN t : i + 1 = j + 1 => i = j
        BY <1>2
  <2> QED  BY <1>2, <1>9, <2>1 DEF NoRepeats, Members
<1> QED  BY <1>3, <1>4, <1>5, <1>6, <1>7, <1>8, <1>9 DEF t, m

LEMMA PrefixKeeps ==
    ASSUME NEW S, NEW s \in Seq(S), NEW n \in 0..Len(s)
    PROVE  LET t == SubSeq(s, 1, n)
           IN  /\ Types(t) \subseteq Types(s) /\ Keys(t) \subseteq Keys(s)
               /\ Distinct(s) => Distinct(t)
               /\ EventsFollowReady(s) => EventsFollowReady(t)
<1> DEFINE t == SubSeq(s, 1, n)
<1>1. /\ Len(s) \in Nat /\ DOMAIN s = 1..Len(s) /\ DOMAIN t = 1..n
      /\ \A i \in 1..n : t[i] = s[i]
      OBVIOUS
<1> HIDE DEF t
<1>2. /\ \A i \in DOMAIN t : i \in DOMAIN s /\ t[i] = s[i]
      /\ \A i \in DOMAIN t, j \in DOMAIN s : j < i => j \in DOMAIN t /\ t[j] = s[j]
      BY <1>1
<1>3. Types(t) \subseteq Types(s) /\ Keys(t) \subseteq Keys(s)
      BY <1>2 DEF Types, Keys
<1>4. Distinct(s) => Distinct(t)
      BY <1>2 DEF Distinct
<1>5. EventsFollowReady(s) => EventsFollowReady(t)
      BY <1>2 DEF EventsFollowReady
<1> QED  BY <1>3, <1>4, <1>5 DEF t

\* The exchanges of generation g that are asked, being worked on and answered.
Asked(g) == Keys(toEngine[g])
Answered(g) == Keys(toMain[g])
Admitted(g) == {r + 2 : r \in Members(lane[g])}
Owed(g) ==
    {r + 2 : r \in Members(lane[g]) \ timedOut[g]} \cup
    (IF phase[g] = "proving" THEN {0} ELSE {})

\* What main is prepared to hear.
Expected(k) ==
    /\ k = 0 => status = "starting" /\ ~spawnDue
    /\ k = 1 => pendingPing
    /\ \A r \in Reqs : k = r + 2 => r \in pending \cup retired

OnceEach(g) ==
    /\ Distinct(toEngine[g]) /\ Distinct(toMain[g]) /\ NoRepeats(lane[g])
    /\ Asked(g) \cap (Admitted(g) \cup Owed(g)) = {}
    /\ Asked(g) \cap Answered(g) = {} /\ Owed(g) \cap Answered(g) = {}

AllExpected(g) == \A k \in Asked(g) \cup Owed(g) \cup Answered(g) : Expected(k)

Initialized == {"proving", "unproven", "ready", "closing"}

HandshakeInStep(g) ==
    /\ spawnDue => status = "starting"
    /\ phase[g] \in Initialized => ~spawnDue /\ 0 \notin Asked(g)
    /\ phase[g] = "ready" => status = "ready" \/ "ready" \in Types(toMain[g])
    /\ status = "ready" \/ EventsFollowReady(toMain[g])

ShutdownInStep(g) ==
    \/ stopping /\ shutdownSent
    \/ /\ phase[g] # "closing" /\ "shutdown" \notin Types(toEngine[g])
       /\ "stopped" \notin Types(toMain[g])

PingInStep ==
    /\ status = "starting" => ~pendingPing /\ "heartbeat" \notin timers
    /\ "heartbeat" \in timers /\ pendingPing => "heartbeatTimeout" \in timers

\* The strengthening that makes HonestEngineTrusted inductive: whatever an honest
\* engine has on its way to main, main is prepared to hear, once.
InStep(g) ==
    /\ ~protocolFailed
    /\ OnceEach(g) /\ AllExpected(g)
    /\ HandshakeInStep(g) /\ ShutdownInStep(g) /\ PingInStep
    /\ "invalid" \notin Types(toMain[g])

Honest(g) == g = proc /\ ~misbehaved[g] /\ ~condemned
HonestInStep == \A g \in Gens : Honest(g) => InStep(g)

Unborn ==
    \A g \in Gens : g > gen =>
        /\ os[g] = "none" /\ phase[g] = "fresh"
        /\ toEngine[g] = <<>> /\ toMain[g] = <<>> /\ lane[g] = <<>>

IdleTimers == proc = NoProc => timers \cap RunTimers = {}

\* No id is evicted from the retired ones before its late result has come: the
\* ones main keeps, and the ones it may yet have to, fit.
RoomForRetired == Cardinality(retired \cup pending) <= MaxRetired

LEMMA KeyOf ==
    /\ Keyed(Control("initialize")) /\ Key(Control("initialize")) = 0
    /\ Keyed(Control("ping")) /\ Key(Control("ping")) = 1
    /\ Keyed(Control("ready")) /\ Key(Control("ready")) = 0
    /\ Keyed(Control("pong")) /\ Key(Control("pong")) = 1
    /\ Keyed(Failed("handshake")) /\ Key(Failed("handshake")) = 0
    /\ Keyed(Failed("ping")) /\ Key(Failed("ping")) = 1
    /\ \A r : Keyed(Execute(r)) /\ Key(Execute(r)) = r + 2
    /\ \A r, c : Keyed(Result(r, c)) /\ Key(Result(r, c)) = r + 2
    /\ \A t \in {"shutdown", "event", "stopped", "invalid"} : ~Keyed(Control(t))
BY DEF Keyed, Key, Control, Failed, Execute, Result

LEMMA TypeOf ==
    /\ \A t : Control(t).type = t
    /\ \A w : Failed(w).type = "failed"
    /\ \A r : Execute(r).type = "execute"
    /\ \A r, c : Result(r, c).type = "result"
BY DEF Control, Failed, Execute, Result

LEMMA LaneMembers ==
    ASSUME TypeOK, NEW g \in Gens
    PROVE  /\ Members(lane[g]) \subseteq Reqs
           /\ \A r \in Reqs : r + 2 # 0 /\ r + 2 # 1
           /\ \A r, q \in Reqs : r + 2 = q + 2 => r = q
<1>1. lane[g] \in Seq(Reqs)
      BY DEF TypeOK, ControllerTypeOK
<1>2. \A i \in DOMAIN lane[g] : lane[g][i] \in Reqs
      BY <1>1
<1>3. \A r \in Reqs : r \in Nat
      OBVIOUS
<1> QED  BY <1>2, <1>3 DEF Members

LEMMA OwedKeys ==
    ASSUME TypeOK, NEW g \in Gens
    PROVE  /\ \A r \in Reqs : r + 2 \in Owed(g) <=> r \in Members(lane[g]) /\ r \notin timedOut[g]
           /\ \A r \in Reqs : r + 2 \in Admitted(g) <=> r \in Members(lane[g])
           /\ 0 \in Owed(g) <=> phase[g] = "proving"
           /\ 1 \notin Owed(g) /\ 0 \notin Admitted(g) /\ 1 \notin Admitted(g)
           /\ Owed(g) \subseteq Admitted(g) \cup {0}
<1> DEFINE late == timedOut[g]
           in == Members(lane[g])
           proving == phase[g] = "proving"
<1>1. /\ in \subseteq Reqs
      /\ \A r \in Reqs : r + 2 # 0 /\ r + 2 # 1
      /\ \A r, q \in Reqs : r + 2 = q + 2 => r = q
      BY LaneMembers
<1>2. /\ Owed(g) = {r + 2 : r \in in \ late} \cup (IF proving THEN {0} ELSE {})
      /\ Admitted(g) = {r + 2 : r \in in}
      BY DEF Owed, Admitted
<1> HIDE DEF late, in, proving
<1>3. \A r \in Reqs : r + 2 \in Admitted(g) <=> r \in in
      BY <1>1, <1>2
<1>4. \A r \in Reqs : r + 2 \in {q + 2 : q \in in \ late} <=> r \in in \ late
      BY <1>1
<1>5. \A r \in Reqs : r + 2 \in Owed(g) <=> r \in in \ late
      BY <1>1, <1>2, <1>4
<1>6. /\ 0 \in Owed(g) <=> proving
      /\ 1 \notin Owed(g)
  <2>1. 0 \notin {q + 2 : q \in in \ late} /\ 1 \notin {q + 2 : q \in in \ late}
        BY <1>1
  <2> QED  BY <1>2, <2>1
<1>7. 0 \notin Admitted(g) /\ 1 \notin Admitted(g)
      BY <1>1, <1>2
<1>8. Owed(g) \subseteq Admitted(g) \cup {0}
      BY <1>2
<1> QED  BY <1>3, <1>5, <1>6, <1>7, <1>8 DEF late, in, proving

\* One step of an engine: it takes at most one message, works, and posts at most
\* one, which closes an exchange that was open.
Takes(g) ==
    \/ toEngine'[g] = toEngine[g]
    \/ toEngine[g] # <<>> /\ toEngine'[g] = Tail(toEngine[g])

Posts(g) ==
    \/ toMain'[g] = toMain[g]
    \/ \E m : /\ toMain'[g] = Append(toMain[g], m)
              /\ Keyed(m) => /\ Key(m) \in Asked(g) \cup Owed(g)
                             /\ Key(m) \notin Asked(g)' \cup Owed(g)'
              /\ m.type # "invalid"
              /\ m.type = "stopped" => stopping /\ shutdownSent
              /\ m.type = "event" => status = "ready" \/ "ready" \in Types(toMain[g])

Works(g) ==
    /\ NoRepeats(lane'[g])
    /\ Owed(g)' \subseteq Owed(g) \cup Asked(g)
    /\ Asked(g)' \cap (Admitted(g)' \cup Owed(g)') = {}

Goes(g) ==
    /\ phase'[g] \in Initialized => ~spawnDue /\ 0 \notin Asked(g)'
    /\ phase'[g] = "ready" => status = "ready" \/ "ready" \in Types(toMain'[g])
    /\ phase'[g] = "closing" => stopping /\ shutdownSent

LEMMA EngineKeepsStep ==
    ASSUME TypeOK, NEW g \in Gens, InStep(g), UNCHANGED supervisorVars,
           Takes(g), Works(g), Posts(g), Goes(g)
    PROVE  InStep(g)'
<1>1. toEngine[g] \in Seq(ParentMessages) /\ toMain[g] \in Seq(ChildMessages)
      BY DEF TypeOK, ChannelTypeOK
<1>2. /\ Distinct(toEngine'[g]) /\ Asked(g)' \subseteq Asked(g)
      /\ Types(toEngine'[g]) \subseteq Types(toEngine[g])
      BY <1>1, TailKeeps DEF Takes, InStep, OnceEach, Asked
<1>3. /\ Distinct(toMain'[g])
      /\ Answered(g)' \cap (Asked(g)' \cup Owed(g)') = {}
      /\ Answered(g)' \subseteq Answered(g) \cup Asked(g) \cup Owed(g)
  <2>1. /\ Distinct(toMain[g])
        /\ Answered(g) \cap (Asked(g) \cup Owed(g)) = {}
        BY DEF InStep, OnceEach
  <2>2. Answered(g) \cap (Asked(g)' \cup Owed(g)') = {}
        BY <1>2, <2>1 DEF Works
  <2>3. CASE toMain'[g] = toMain[g]
        BY <2>1, <2>2, <2>3 DEF Answered
  <2>4. CASE toMain'[g] # toMain[g]
    <3>1. PICK m : /\ toMain'[g] = Append(toMain[g], m)
                   /\ Keyed(m) => /\ Key(m) \in Asked(g) \cup Owed(g)
                                  /\ Key(m) \notin Asked(g)' \cup Owed(g)'
          BY <2>4 DEF Posts
    <3>2. /\ Keyed(m) => Answered(g)' = Answered(g) \cup {Key(m)}
          /\ ~Keyed(m) => Answered(g)' = Answered(g)
          BY <1>1, <3>1, AppendKeeps DEF Answered
    <3>3. Distinct(toMain'[g])
          BY <1>1, <2>1, <3>1, AppendKeeps DEF Answered
    <3> QED  BY <2>1, <2>2, <3>1, <3>2, <3>3
  <2> QED  BY <2>3, <2>4
<1>4. OnceEach(g)'
      BY <1>2, <1>3 DEF OnceEach, Works
<1>5. /\ UNCHANGED <<spawnDue, status, pendingPing, pending, retired, stopping, shutdownSent,
                     timers, protocolFailed>>
      BY DEF supervisorVars
<1>6. AllExpected(g)'
  <2>1. \A k : Expected(k)' <=> Expected(k)
        BY <1>5 DEF Expected
  <2>2. Asked(g)' \cup Owed(g)' \cup Answered(g)' \subseteq Asked(g) \cup Owed(g) \cup Answered(g)
        BY <1>2, <1>3 DEF Works
  <2>3. \A k \in Asked(g) \cup Owed(g) \cup Answered(g) : Expected(k)
        BY DEF InStep, AllExpected
  <2> QED  BY <2>1, <2>2, <2>3 DEF AllExpected
<1>7. /\ status = "ready" \/ EventsFollowReady(toMain'[g])
      /\ "invalid" \notin Types(toMain'[g])
      /\ "stopped" \in Types(toMain'[g]) =>
            (stopping /\ shutdownSent) \/ "stopped" \in Types(toMain[g])
  <2>1. /\ status = "ready" \/ EventsFollowReady(toMain[g])
        /\ "invalid" \notin Types(toMain[g])
        BY DEF InStep, HandshakeInStep
  <2>2. CASE toMain'[g] = toMain[g]
        BY <2>1, <2>2
  <2>3. CASE toMain'[g] # toMain[g]
    <3>1. PICK m : /\ toMain'[g] = Append(toMain[g], m)
                   /\ m.type # "invalid"
                   /\ m.type = "stopped" => stopping /\ shutdownSent
                   /\ m.type = "event" => status = "ready" \/ "ready" \in Types(toMain[g])
          BY <2>3 DEF Posts
    <3>2. Types(toMain'[g]) = Types(toMain[g]) \cup {m.type}
          BY <1>1, <3>1, AppendKeeps
    <3>3. status = "ready" \/ EventsFollowReady(toMain'[g])
          BY <1>1, <2>1, <3>1, AppendKeeps
    <3> QED  BY <2>1, <3>1, <3>2, <3>3
  <2> QED  BY <2>2, <2>3
<1>8. HandshakeInStep(g)'
      BY <1>5, <1>7 DEF InStep, HandshakeInStep, Goes
<1>9. ShutdownInStep(g)'
  <2>1. CASE stopping /\ shutdownSent
        BY <1>5, <2>1 DEF ShutdownInStep
  <2>2. CASE ~(stopping /\ shutdownSent)
    <3>1. /\ "shutdown" \notin Types(toEngine'[g]) /\ "stopped" \notin Types(toMain'[g])
          BY <1>2, <1>7, <2>2 DEF InStep, ShutdownInStep
    <3>2. phase'[g] # "closing"
          BY <2>2 DEF Goes
    <3> QED  BY <3>1, <3>2 DEF ShutdownInStep
  <2> QED  BY <2>1, <2>2
<1>10. PingInStep' /\ ~protocolFailed'
       BY <1>5 DEF InStep, PingInStep
<1> QED  BY <1>4, <1>6, <1>7, <1>8, <1>9, <1>10 DEF InStep

\* What taking a message off the port opens and closes.
LEMMA ReceiveTakes ==
    ASSUME TypeOK, NEW g \in Gens, InStep(g), NEW type, Receive(g, type)
    PROVE  /\ Takes(g) /\ Turns(g) /\ os' = os
           /\ Asked(g)' \subseteq Asked(g)
           /\ Head(toEngine[g]) \in ParentMessages /\ Head(toEngine[g]).type = type
           /\ type \in Types(toEngine[g])
           /\ Keyed(Head(toEngine[g])) =>
                 Key(Head(toEngine[g])) \in Asked(g) /\ Key(Head(toEngine[g])) \notin Asked(g)'
<1>1. /\ toEngine[g] \in Seq(ParentMessages) /\ toEngine[g] # <<>>
      /\ toEngine'[g] = Tail(toEngine[g])
      /\ Head(toEngine[g]).type = type
      BY DEF Receive, TypeOK, ChannelTypeOK
<1>2. Head(toEngine[g]) \in ParentMessages
      BY <1>1, TailFacts
<1>3. Distinct(toEngine[g])
      BY DEF InStep, OnceEach
<1> QED  BY <1>1, <1>2, <1>3, TailKeeps DEF Takes, Receive, Asked

\* The lane stays; the phase may leave "proving".
LEMMA LaneStays ==
    ASSUME TypeOK, NEW g \in Gens, InStep(g), lane'[g] = lane[g], timedOut'[g] = timedOut[g],
           Asked(g)' \subseteq Asked(g), phase'[g] = "proving" => phase[g] = "proving"
    PROVE  /\ Works(g) /\ Admitted(g)' = Admitted(g) /\ Owed(g)' \subseteq Owed(g)
<1>1. Admitted(g)' = Admitted(g) /\ Owed(g)' \subseteq Owed(g)
      BY DEF Admitted, Owed
<1>2. /\ NoRepeats(lane'[g])
      /\ Asked(g) \cap (Admitted(g) \cup Owed(g)) = {}
      BY DEF InStep, OnceEach
<1> QED  BY <1>1, <1>2 DEF Works

LEMMA HandshakeStep ==
    ASSUME TypeOK, NEW g \in Gens, InStep(g), UNCHANGED supervisorVars,
           ReceiveBeforeInitialize(g) \/ ReceiveInitialize(g) \/ ProveRuntime(g)
    PROVE  InStep(g)'
<1>0. /\ lane' = lane /\ timedOut' = timedOut
      /\ lane[g] \in Seq(Reqs) /\ phase \in [Gens -> Phases]
      BY DEF ReceiveBeforeInitialize, ReceiveInitialize, ProveRuntime, TypeOK, ControllerTypeOK
<1>1. CASE ReceiveBeforeInitialize(g)
  <2>1. PICK type : Receive(g, type)
        BY <1>1 DEF ReceiveBeforeInitialize
  <2>2. phase'[g] = "exited" /\ toMain' = toMain
        BY <1>0, <1>1 DEF ReceiveBeforeInitialize, GoTo
  <2>3. Takes(g) /\ Asked(g)' \subseteq Asked(g)
        BY <2>1, ReceiveTakes
  <2> QED
    BY <1>0, <2>2, <2>3, LaneStays, EngineKeepsStep DEF Posts, Goes, Initialized
<1>2. CASE ReceiveInitialize(g)
  <2>1. Receive(g, "initialize")
        BY <1>2 DEF ReceiveInitialize
  <2>2. /\ Takes(g) /\ Asked(g)' \subseteq Asked(g) /\ Turns(g)
        /\ 0 \in Asked(g) /\ 0 \notin Asked(g)'
    <3>1. Keyed(Head(toEngine[g])) /\ Key(Head(toEngine[g])) = 0
          BY <2>1 DEF Receive, Keyed, Key
    <3> QED  BY <2>1, <3>1, ReceiveTakes
  <2>3. phase[g] = "fresh" /\ ~spawnDue
    <3>1. phase[g] \notin Initialized
          BY <2>2 DEF InStep, HandshakeInStep
    <3>2. phase[g] \in Phases
          BY <1>0
    <3>3. Expected(0)
          BY <2>2 DEF InStep, AllExpected
    <3> QED  BY <2>2, <3>1, <3>2, <3>3 DEF Turns, Initialized, Phases, Expected
  <2>4. phase'[g] = "proving" /\ toMain' = toMain
        BY <1>0, <1>2, <2>3 DEF ReceiveInitialize, GoTo
  <2>5. Admitted(g)' = Admitted(g) /\ Owed(g)' = Owed(g) \cup {0}
        BY <1>0, <2>3, <2>4 DEF Admitted, Owed
  <2>6. Works(g)
    <3>1. NoRepeats(lane[g]) /\ Asked(g) \cap (Admitted(g) \cup Owed(g)) = {}
          BY DEF InStep, OnceEach
    <3> QED  BY <1>0, <2>2, <2>5, <3>1 DEF Works
  <2> QED  BY <2>2, <2>3, <2>4, <2>6, EngineKeepsStep DEF Posts, Goes
<1>3. CASE ProveRuntime(g)
  <2>1. phase[g] = "proving" /\ toEngine' = toEngine
        BY <1>3 DEF ProveRuntime
  <2>2. phase'[g] \in {"ready", "unproven"}
        BY <1>0, <1>3 DEF ProveRuntime, GoTo
  <2>3. Asked(g)' = Asked(g) /\ 0 \notin Asked(g) /\ ~spawnDue
        BY <2>1 DEF Asked, InStep, HandshakeInStep, Initialized
  <2>4. 0 \in Owed(g) /\ 0 \notin Owed(g)'
    <3>1. 0 \notin Admitted(g)
          BY OwedKeys
    <3>2. Owed(g)' \subseteq Admitted(g)
          BY <1>0, <2>2 DEF Owed, Admitted
    <3> QED  BY <2>1, <3>1, <3>2, OwedKeys
  <2>5. Works(g)
        BY <1>0, <2>2, <2>3, LaneStays
  <2>6. PICK m \in {Control("ready"), Failed("handshake")} :
           /\ toMain'[g] = Append(toMain[g], m)
           /\ phase'[g] = "ready" => m.type = "ready"
        BY <1>0, <1>3, TypeOf DEF ProveRuntime, Sent, GoTo, TypeOK, ChannelTypeOK
  <2>7. Keyed(m) /\ Key(m) = 0 /\ m.type \in {"ready", "failed"}
        BY <2>6, KeyOf, TypeOf
  <2>8. Posts(g)
        BY <2>3, <2>4, <2>6, <2>7 DEF Posts
  <2>9. Types(toMain'[g]) = Types(toMain[g]) \cup {m.type}
        BY <2>6, AppendKeeps DEF TypeOK, ChannelTypeOK
  <2>10. Goes(g)
        BY <2>2, <2>3, <2>6, <2>9 DEF Goes
  <2> QED  BY <2>1, <2>5, <2>8, <2>10, EngineKeepsStep DEF Takes
<1> QED  BY <1>1, <1>2, <1>3

LEMMA ControlStep ==
    ASSUME TypeOK, NEW g \in Gens, InStep(g), UNCHANGED supervisorVars,
           \/ ReceivePing(g) \/ ReceiveShutdown(g) \/ FinishInvalid(g) \/ Emit(g)
           \/ ShutdownComplete(g) \/ Hang(g)
    PROVE  InStep(g)'
<1>0. /\ lane' = lane /\ timedOut' = timedOut
      /\ phase \in [Gens -> Phases] /\ phase[g] \in Phases
      BY DEF ReceivePing, ReceiveShutdown, FinishInvalid, Emit, ShutdownComplete, Hang,
             controllerVars, TypeOK, ControllerTypeOK
<1>a. \A m : toMain' = Sent(g, m) => toMain'[g] = Append(toMain[g], m)
      BY DEF Sent, TypeOK, ChannelTypeOK
<1>1. CASE ReceivePing(g)
  <2>1. Receive(g, "ping") /\ phase' = phase
        BY <1>1 DEF ReceivePing, controllerVars
  <2>2. Takes(g) /\ Asked(g)' \subseteq Asked(g) /\ 1 \in Asked(g) /\ 1 \notin Asked(g)'
    <3>1. Keyed(Head(toEngine[g])) /\ Key(Head(toEngine[g])) = 1
          BY <2>1 DEF Receive, Keyed, Key
    <3> QED  BY <2>1, <3>1, ReceiveTakes
  <2>3. Works(g) /\ 1 \notin Owed(g)'
        BY <1>0, <2>1, <2>2, LaneStays, OwedKeys
  <2>4. PICK m \in {Control("pong"), Failed("ping")} : toMain'[g] = Append(toMain[g], m)
        BY <1>1, <1>a DEF ReceivePing
  <2>5. Keyed(m) /\ Key(m) = 1 /\ m.type \in {"pong", "failed"}
        BY <2>4, KeyOf, TypeOf
  <2>6. Posts(g)
        BY <2>2, <2>3, <2>4, <2>5 DEF Posts
  <2>7. Types(toMain[g]) \subseteq Types(toMain'[g])
        BY <2>4, AppendKeeps DEF TypeOK, ChannelTypeOK
  <2>8. Goes(g)
    <3>1. phase[g] = "closing" => stopping /\ shutdownSent
          BY DEF InStep, ShutdownInStep
    <3> QED  BY <2>1, <2>2, <2>7, <3>1 DEF Goes, InStep, HandshakeInStep
  <2> QED  BY <2>2, <2>3, <2>6, <2>8, EngineKeepsStep
<1>2. CASE ReceiveShutdown(g)
  <2>1. Receive(g, "shutdown") /\ phase'[g] = "closing" /\ toMain' = toMain /\ phase[g] # "fresh"
        BY <1>0, <1>2 DEF ReceiveShutdown, GoTo
  <2>2. Takes(g) /\ Asked(g)' \subseteq Asked(g) /\ Turns(g) /\ "shutdown" \in Types(toEngine[g])
        BY <2>1, ReceiveTakes
  <2>3. Works(g)
        BY <1>0, <2>1, <2>2, LaneStays
  <2>4. ~spawnDue /\ 0 \notin Asked(g)
        BY <1>0, <2>1, <2>2 DEF Turns, Phases, Initialized, InStep, HandshakeInStep
  <2>5. stopping /\ shutdownSent
        BY <2>2 DEF InStep, ShutdownInStep
  <2> QED  BY <2>1, <2>2, <2>3, <2>4, <2>5, EngineKeepsStep DEF Posts, Goes
<1>3. CASE FinishInvalid(g) \/ Hang(g)
  <2>1. phase'[g] \in {"exited", "hung"} /\ toMain' = toMain /\ toEngine' = toEngine
        BY <1>0, <1>3 DEF FinishInvalid, Hang, GoTo, channelVars
  <2>2. Works(g)
        BY <1>0, <2>1, LaneStays DEF Asked
  <2> QED  BY <2>1, <2>2, EngineKeepsStep DEF Takes, Posts, Goes, Initialized
<1>4. CASE Emit(g)
  <2>1. /\ phase' = phase /\ phase[g] = "ready" /\ toEngine' = toEngine
        /\ toMain'[g] = Append(toMain[g], Control("event"))
        BY <1>4, <1>a DEF Emit, controllerVars
  <2>2. Works(g)
        BY <1>0, <2>1, LaneStays DEF Asked
  <2>3. status = "ready" \/ "ready" \in Types(toMain[g])
        BY <2>1 DEF InStep, HandshakeInStep
  <2>4. Posts(g)
        BY <2>1, <2>3, KeyOf, TypeOf DEF Posts
  <2>5. Types(toMain[g]) \subseteq Types(toMain'[g])
        BY <2>1, AppendKeeps DEF TypeOK, ChannelTypeOK
  <2>6. Goes(g)
        BY <2>1, <2>3, <2>5 DEF Goes, Asked, Initialized, InStep, HandshakeInStep
  <2> QED  BY <2>1, <2>2, <2>4, <2>6, EngineKeepsStep DEF Takes
<1>5. CASE ShutdownComplete(g)
  <2>1. phase'[g] = "exited" /\ phase[g] = "closing" /\ toEngine' = toEngine
        BY <1>0, <1>5 DEF ShutdownComplete, GoTo
  <2>2. Works(g)
        BY <1>0, <2>1, LaneStays DEF Asked
  <2>3. stopping /\ shutdownSent
        BY <2>1 DEF InStep, ShutdownInStep
  <2>4. toMain'[g] = toMain[g] \/ toMain'[g] = Append(toMain[g], Control("stopped"))
        BY <1>5, <1>a DEF ShutdownComplete
  <2>5. Posts(g)
        BY <2>3, <2>4, KeyOf, TypeOf DEF Posts
  <2> QED  BY <2>1, <2>2, <2>5, EngineKeepsStep DEF Takes, Goes, Initialized
<1> QED  BY <1>1, <1>2, <1>3, <1>4, <1>5

\* The phase stays, and what it says goes on to hold.
LEMMA PhaseStays ==
    ASSUME TypeOK, NEW g \in Gens, InStep(g), phase' = phase,
           Asked(g)' \subseteq Asked(g), Types(toMain[g]) \subseteq Types(toMain'[g])
    PROVE  Goes(g)
<1>1. phase[g] = "closing" => stopping /\ shutdownSent
      BY DEF InStep, ShutdownInStep
<1> QED  BY <1>1 DEF Goes, InStep, HandshakeInStep

LEMMA OneMore ==
    ASSUME TypeOK, NEW g \in Gens,
           toMain' = toMain \/ \E m : toMain' = Sent(g, m)
    PROVE  Types(toMain[g]) \subseteq Types(toMain'[g])
<1>1. toMain[g] \in Seq(ChildMessages)
      BY DEF TypeOK, ChannelTypeOK
<1>2. CASE toMain' = toMain
      BY <1>2
<1>3. CASE \E m : toMain' = Sent(g, m)
  <2>1. PICK m : toMain'[g] = Append(toMain[g], m)
        BY <1>3 DEF Sent, TypeOK, ChannelTypeOK
  <2> QED  BY <1>1, <2>1, AppendKeeps
<1> QED  BY <1>2, <1>3

LEMMA ExecuteStep ==
    ASSUME TypeOK, NEW g \in Gens, InStep(g), UNCHANGED supervisorVars, ReceiveExecute(g)
    PROVE  InStep(g)'
<1>1. Receive(g, "execute") /\ phase' = phase /\ timedOut' = timedOut
      BY DEF ReceiveExecute
<1>2. PICK r \in Reqs : r = Head(toEngine[g]).req
      BY <1>1, ReceiveTakes DEF ParentMessages
<1>3. Takes(g) /\ Asked(g)' \subseteq Asked(g) /\ r + 2 \in Asked(g) /\ r + 2 \notin Asked(g)'
  <2>1. Keyed(Head(toEngine[g])) /\ Key(Head(toEngine[g])) = r + 2
        BY <1>1, <1>2 DEF Receive, Keyed, Key
  <2> QED  BY <1>1, <2>1, ReceiveTakes
<1>4. /\ NoRepeats(lane[g]) /\ Asked(g) \cap (Admitted(g) \cup Owed(g)) = {}
      BY DEF InStep, OnceEach
<1>5. Goes(g)
      BY <1>1, <1>3, OneMore, PhaseStays DEF ReceiveExecute
<1>6. CASE lane' = lane /\ \E c \in ResultCodes : toMain' = Sent(g, Result(r, c))
  <2>1. Works(g) /\ Owed(g)' \subseteq Owed(g)
        BY <1>1, <1>3, <1>6, LaneStays
  <2>2. PICK c \in ResultCodes : toMain'[g] = Append(toMain[g], Result(r, c))
        BY <1>6 DEF Sent, TypeOK, ChannelTypeOK
  <2>3. r + 2 \notin Owed(g)'
        BY <1>3, <1>4, <2>1
  <2>4. Posts(g)
        BY <1>3, <2>2, <2>3, KeyOf, TypeOf DEF Posts
  <2> QED  BY <1>3, <1>5, <2>1, <2>4, EngineKeepsStep
<1>7. CASE lane' = [lane EXCEPT ![g] = Append(@, r)] /\ toMain' = toMain
  <2>1. lane[g] \in Seq(Reqs) /\ lane'[g] = Append(lane[g], r)
        BY <1>7 DEF TypeOK, ControllerTypeOK
  <2>2. Members(lane'[g]) = Members(lane[g]) \cup {r}
        BY <2>1, AppendKeeps
  <2>3. r \notin Members(lane[g])
        BY <1>3, <1>4, OwedKeys
  <2>4. NoRepeats(lane'[g])
        BY <1>4, <2>1, <2>3, AppendKeeps
  <2>5. Admitted(g)' = Admitted(g) \cup {r + 2} /\ Owed(g)' \subseteq Owed(g) \cup {r + 2}
        BY <1>1, <2>2 DEF Admitted, Owed
  <2>6. Works(g)
        BY <1>3, <1>4, <2>4, <2>5 DEF Works
  <2> QED  BY <1>3, <1>5, <1>7, <2>6, EngineKeepsStep DEF Posts
<1> QED  BY <1>2, <1>6, <1>7 DEF ReceiveExecute, ResultCodes

\* The head of the lane leaves it.
LEMMA LeavesLane ==
    ASSUME TypeOK, NEW g \in Gens, InStep(g), lane[g] # <<>>,
           lane' = [lane EXCEPT ![g] = Tail(@)],
           NEW r \in Reqs, r = Head(lane[g]),
           timedOut' = [timedOut EXCEPT ![g] = @ \ {r}],
           phase' = phase, toEngine' = toEngine
    PROVE  /\ Works(g) /\ Takes(g) /\ Asked(g)' = Asked(g)
           /\ r + 2 \notin Owed(g)' /\ r + 2 \notin Asked(g)
           /\ r \notin timedOut[g] => r + 2 \in Owed(g)
<1>1. /\ lane[g] \in Seq(Reqs) /\ lane'[g] = Tail(lane[g]) /\ timedOut'[g] = timedOut[g] \ {r}
      BY DEF TypeOK, ControllerTypeOK
<1>2. /\ NoRepeats(lane[g]) /\ Asked(g) \cap (Admitted(g) \cup Owed(g)) = {}
      BY DEF InStep, OnceEach
<1>3. /\ NoRepeats(lane'[g]) /\ r \notin Members(lane'[g])
      /\ Members(lane'[g]) \subseteq Members(lane[g]) /\ r \in Members(lane[g])
      BY <1>1, <1>2, TailKeeps
<1>4. Members(lane'[g]) \ timedOut'[g] \subseteq (Members(lane[g]) \ timedOut[g]) \ {r}
      BY <1>1, <1>3
<1>5. Admitted(g)' \subseteq Admitted(g) /\ Owed(g)' \subseteq Owed(g)
      BY <1>3, <1>4 DEF Admitted, Owed
<1>6. r + 2 \notin Owed(g)'
  <2>1. Owed(g)' = {q + 2 : q \in Members(lane'[g]) \ timedOut'[g]} \cup
                   (IF phase[g] = "proving" THEN {0} ELSE {})
        BY DEF Owed
  <2>2. \A q \in Reqs : q + 2 = r + 2 => q = r
        BY LaneMembers
  <2>3. r + 2 # 0
        BY LaneMembers
  <2>4. \A q \in Members(lane'[g]) \ timedOut'[g] : q \in Reqs /\ q # r
        BY <1>3, <1>4, LaneMembers
  <2> QED  BY <2>1, <2>2, <2>3, <2>4
<1>7. Asked(g)' = Asked(g)
      BY DEF Asked
<1>8. r + 2 \in Admitted(g) /\ r + 2 \notin Asked(g)
      BY <1>2, <1>3, OwedKeys
<1>9. r \notin timedOut[g] => r + 2 \in Owed(g)
      BY <1>3, OwedKeys
<1> QED  BY <1>2, <1>3, <1>5, <1>6, <1>7, <1>8, <1>9 DEF Works, Takes

LEMMA LaneStep ==
    ASSUME TypeOK, NEW g \in Gens, InStep(g), UNCHANGED supervisorVars, Begin(g) \/ Finish(g)
    PROVE  InStep(g)'
<1>1. /\ lane[g] # <<>> /\ lane[g] \in Seq(Reqs) /\ phase' = phase /\ toEngine' = toEngine
      BY DEF Begin, Finish, channelVars, TypeOK, ControllerTypeOK
<1>2. PICK r \in Reqs : r = Head(lane[g])
      BY <1>1, TailFacts
<1>3. Goes(g)
      BY <1>1, OneMore, PhaseStays DEF Begin, Finish, channelVars, Asked
<1>4. CASE Begin(g) /\ UNCHANGED <<lane, timedOut>>
  <2>1. Works(g)
        BY <1>1, <1>4, LaneStays DEF Asked
  <2> QED  BY <1>1, <1>3, <1>4, <2>1, EngineKeepsStep DEF Begin, channelVars, Takes, Posts
<1>5. CASE /\ Begin(g) /\ lane' = [lane EXCEPT ![g] = Tail(@)]
           /\ timedOut' = [timedOut EXCEPT ![g] = @ \ {r}]
      BY <1>1, <1>2, <1>3, <1>5, LeavesLane, EngineKeepsStep DEF Begin, channelVars, Posts
<1>6. CASE Finish(g)
  <2>1. /\ lane' = [lane EXCEPT ![g] = Tail(@)] /\ timedOut' = [timedOut EXCEPT ![g] = @ \ {r}]
        /\ \/ toMain' = toMain
           \/ r \notin timedOut[g] /\ \E c \in ResultCodes : toMain' = Sent(g, Result(r, c))
        BY <1>2, <1>6 DEF Finish, ResultCodes
  <2>2. /\ Works(g) /\ Takes(g) /\ Asked(g)' = Asked(g)
        /\ r + 2 \notin Owed(g)' /\ r + 2 \notin Asked(g)
        /\ r \notin timedOut[g] => r + 2 \in Owed(g)
        BY <1>1, <1>2, <2>1, LeavesLane
  <2>3. Posts(g)
    <3>1. CASE toMain' = toMain
          BY <3>1 DEF Posts
    <3>2. CASE r \notin timedOut[g] /\ \E c \in ResultCodes : toMain' = Sent(g, Result(r, c))
      <4>1. PICK c \in ResultCodes : toMain'[g] = Append(toMain[g], Result(r, c))
            BY <3>2 DEF Sent, TypeOK, ChannelTypeOK
      <4> QED  BY <2>2, <3>2, <4>1, KeyOf, TypeOf DEF Posts
    <3> QED  BY <2>1, <3>1, <3>2
  <2> QED  BY <1>3, <2>2, <2>3, EngineKeepsStep
<1> QED  BY <1>2, <1>4, <1>5, <1>6 DEF Begin

LEMMA DeadlineStep ==
    ASSUME TypeOK, NEW g \in Gens, InStep(g), UNCHANGED supervisorVars,
           NEW r \in Reqs, Deadline(g, r)
    PROVE  InStep(g)'
<1>1. /\ lane' = lane /\ phase' = phase /\ toEngine' = toEngine /\ r \notin timedOut[g]
      /\ timedOut' = [timedOut EXCEPT ![g] = @ \cup {r}]
      /\ r \in Members(lane[g])
      BY DEF Deadline, Members
<1>2. timedOut'[g] = timedOut[g] \cup {r}
      BY <1>1 DEF TypeOK, ControllerTypeOK
<1>3. Goes(g)
      BY <1>1, OneMore, PhaseStays DEF Deadline, Asked
<1>4. /\ NoRepeats(lane[g]) /\ Asked(g) \cap (Admitted(g) \cup Owed(g)) = {}
      BY DEF InStep, OnceEach
<1>5. r + 2 \in Owed(g) /\ Asked(g)' = Asked(g) /\ r + 2 \notin Asked(g)
      BY <1>1, <1>4, OwedKeys DEF Asked
<1>6. Owed(g)' \subseteq Owed(g) /\ Admitted(g)' = Admitted(g)
      BY <1>1, <1>2 DEF Owed, Admitted
<1>7. r + 2 \notin Owed(g)'
  <2>1. Owed(g)' = {q + 2 : q \in Members(lane[g]) \ timedOut'[g]} \cup
                   (IF phase[g] = "proving" THEN {0} ELSE {})
        BY <1>1 DEF Owed
  <2>2. \A q \in Members(lane[g]) \ timedOut'[g] : q \in Reqs /\ q # r
        BY <1>2, LaneMembers
  <2>3. (\A q \in Reqs : q + 2 = r + 2 => q = r) /\ r + 2 # 0
        BY LaneMembers
  <2> QED  BY <2>1, <2>2, <2>3
<1>8. Works(g)
      BY <1>1, <1>4, <1>5, <1>6 DEF Works
<1>9. toMain' = toMain \/ toMain'[g] = Append(toMain[g], Result(r, "TIMEOUT"))
      BY DEF Deadline, Sent, TypeOK, ChannelTypeOK
<1>10. Posts(g)
       BY <1>5, <1>7, <1>9, KeyOf, TypeOf DEF Posts
<1> QED  BY <1>1, <1>3, <1>8, <1>10, EngineKeepsStep DEF Takes

\* The dying process loses all but a first part of what it had posted.
LEMMA DyingStep ==
    ASSUME TypeOK, NEW g \in Gens, InStep(g), UNCHANGED supervisorVars, Dies(g)
    PROVE  InStep(g)'
<1>1. /\ toMain[g] \in Seq(ChildMessages)
      /\ toEngine'[g] = <<>> /\ lane'[g] = <<>> /\ phase'[g] = "exited"
      BY DEF Dies, GoTo, TypeOK, ChannelTypeOK, ControllerTypeOK
<1>2. PICK n \in 0..Len(toMain[g]) : toMain'[g] = SubSeq(toMain[g], 1, n)
      BY DEF Dies, TypeOK, ChannelTypeOK
<1>3. /\ Types(toMain'[g]) \subseteq Types(toMain[g]) /\ Answered(g)' \subseteq Answered(g)
      /\ Distinct(toMain[g]) => Distinct(toMain'[g])
      /\ EventsFollowReady(toMain[g]) => EventsFollowReady(toMain'[g])
      BY <1>1, <1>2, PrefixKeeps DEF Answered
<1>4. /\ Asked(g)' = {} /\ Owed(g)' = {} /\ NoRepeats(lane'[g]) /\ Distinct(toEngine'[g])
      /\ "shutdown" \notin Types(toEngine'[g])
      BY <1>1 DEF Asked, Owed, Keys, Members, NoRepeats, Distinct, Types
<1>5. /\ UNCHANGED <<spawnDue, status, pendingPing, pending, retired, stopping, shutdownSent,
                     timers, protocolFailed>>
      BY DEF supervisorVars
<1>6. OnceEach(g)'
      BY <1>3, <1>4 DEF InStep, OnceEach
<1>7. AllExpected(g)'
      BY <1>3, <1>4, <1>5 DEF InStep, AllExpected, Expected
<1>8. HandshakeInStep(g)'
      BY <1>1, <1>3, <1>5 DEF InStep, HandshakeInStep, Initialized
<1>9. ShutdownInStep(g)'
      BY <1>1, <1>3, <1>4, <1>5 DEF InStep, ShutdownInStep
<1> QED  BY <1>3, <1>5, <1>6, <1>7, <1>8, <1>9 DEF InStep, PingInStep

\* What the engine in question does not touch.
LEMMA OtherEngineKeeps ==
    ASSUME TypeOK, NEW g \in Gens, NEW h \in Gens, h # g, ControllerNext(h)
    PROVE  /\ toEngine'[g] = toEngine[g] /\ toMain'[g] = toMain[g] /\ lane'[g] = lane[g]
           /\ timedOut'[g] = timedOut[g] /\ phase'[g] = phase[g]
           /\ os'[g] = os[g] /\ misbehaved'[g] = misbehaved[g]
<1>1. CASE ReceiveBeforeInitialize(h) \/ ReceiveInitialize(h) \/ ProveRuntime(h) \/ ReceivePing(h)
      BY <1>1 DEF ReceiveBeforeInitialize, ReceiveInitialize, ProveRuntime, ReceivePing, Receive,
                  GoTo, Sent, controllerVars, TypeOK, ChannelTypeOK, ControllerTypeOK
<1>2. CASE ReceiveExecute(h) \/ ReceiveShutdown(h)
      BY <1>2 DEF ReceiveExecute, ReceiveShutdown, Receive, GoTo, Sent,
                  TypeOK, ChannelTypeOK, ControllerTypeOK
<1>3. CASE Begin(h)
      BY <1>3 DEF Begin, channelVars, TypeOK, ChannelTypeOK, ControllerTypeOK
<1>4. CASE Finish(h)
      BY <1>4 DEF Finish, Sent, TypeOK, ChannelTypeOK, ControllerTypeOK
<1>5. CASE FinishInvalid(h) \/ Emit(h) \/ ShutdownComplete(h) \/ Hang(h)
      BY <1>5 DEF FinishInvalid, Emit, ShutdownComplete, Hang, GoTo, Sent, channelVars,
                  controllerVars, TypeOK, ChannelTypeOK, ControllerTypeOK
<1>6. CASE (\E r \in Reqs : Deadline(h, r)) \/ Misbehave(h)
      BY <1>6 DEF Deadline, Misbehave, Sent, TypeOK, ChannelTypeOK, ControllerTypeOK
<1>7. CASE Dies(h)
      BY <1>7 DEF Dies, GoTo, TypeOK, ChannelTypeOK, ControllerTypeOK
<1> QED  BY <1>1, <1>2, <1>3, <1>4, <1>5, <1>6, <1>7 DEF ControllerNext

\* A step that leaves all of an engine's state, and what main expects of it.
LEMMA InStepKept ==
    ASSUME NEW g \in Gens, InStep(g), toEngine'[g] = toEngine[g], toMain'[g] = toMain[g],
           lane'[g] = lane[g], timedOut'[g] = timedOut[g], phase'[g] = phase[g],
           UNCHANGED <<spawnDue, status, pendingPing, protocolFailed>>,
           pending \cup retired \subseteq pending' \cup retired',
           stopping /\ shutdownSent => stopping' /\ shutdownSent',
           "heartbeat" \in timers' => "heartbeat" \in timers,
           "heartbeatTimeout" \in timers /\ "heartbeat" \in timers' => "heartbeatTimeout" \in timers'
    PROVE  InStep(g)'
<1>1. Asked(g)' = Asked(g) /\ Answered(g)' = Answered(g) /\ Owed(g)' = Owed(g) /\ Admitted(g)' = Admitted(g)
      BY DEF Asked, Answered, Owed, Admitted
<1>2. OnceEach(g)'
      BY <1>1 DEF InStep, OnceEach
<1>3. AllExpected(g)'
  <2>1. \A k : Expected(k) => Expected(k)'
        BY DEF Expected
  <2> QED  BY <1>1, <2>1 DEF InStep, AllExpected
<1>4. HandshakeInStep(g)'
      BY <1>1 DEF InStep, HandshakeInStep
<1>5. ShutdownInStep(g)'
      BY DEF InStep, ShutdownInStep
<1>6. PingInStep'
      BY DEF InStep, PingInStep
<1> QED  BY <1>2, <1>3, <1>4, <1>5, <1>6 DEF InStep

\* Main asks: a message is posted to the held engine, and lost if it is dead.
LEMMA AskKeeps ==
    ASSUME TypeOK, NEW g \in Gens, InStep(g), g = proc, UNCHANGED controllerVars,
           NEW m \in ParentMessages, toEngine' = Posted(proc, m), toMain' = toMain,
           Keyed(m) => Key(m) \notin Asked(g) \cup Admitted(g) \cup Owed(g) \cup Answered(g)
    PROVE  /\ OnceEach(g)' /\ Owed(g)' = Owed(g) /\ Answered(g)' = Answered(g)
           /\ Keyed(m) => Asked(g)' \subseteq Asked(g) \cup {Key(m)}
           /\ ~Keyed(m) => Asked(g)' \subseteq Asked(g)
           /\ Types(toEngine'[g]) \subseteq Types(toEngine[g]) \cup {m.type}
<1>1. /\ Owed(g)' = Owed(g) /\ Answered(g)' = Answered(g) /\ Admitted(g)' = Admitted(g)
      /\ lane' = lane
      BY DEF Owed, Answered, Admitted, controllerVars
<1>2. /\ Distinct(toEngine[g]) /\ Distinct(toMain[g]) /\ NoRepeats(lane[g])
      /\ Asked(g) \cap (Admitted(g) \cup Owed(g)) = {}
      /\ Asked(g) \cap Answered(g) = {} /\ Owed(g) \cap Answered(g) = {}
      BY DEF InStep, OnceEach
<1>3. toEngine[g] \in Seq(ParentMessages)
      /\ (toEngine'[g] = toEngine[g] \/ toEngine'[g] = Append(toEngine[g], m))
      BY DEF Posted, TypeOK, ChannelTypeOK
<1>4. /\ Keyed(m) => Asked(g)' \subseteq Asked(g) \cup {Key(m)}
      /\ ~Keyed(m) => Asked(g)' \subseteq Asked(g)
      /\ Types(toEngine'[g]) \subseteq Types(toEngine[g]) \cup {m.type}
      /\ Distinct(toEngine'[g])
  <2>1. CASE toEngine'[g] = toEngine[g]
        BY <1>2, <2>1 DEF Asked
  <2>2. CASE toEngine'[g] = Append(toEngine[g], m)
    <3>1. Asked(g)' = Keys(Append(toEngine[g], m)) /\ Asked(g) = Keys(toEngine[g])
          BY <2>2 DEF Asked
    <3>2. Distinct(Append(toEngine[g], m))
          BY <1>2, <1>3, <3>1, AppendKeeps
    <3> QED  BY <1>3, <2>2, <3>1, <3>2, AppendKeeps
  <2> QED  BY <1>3, <2>1, <2>2
<1>5. OnceEach(g)'
      BY <1>1, <1>2, <1>4 DEF OnceEach
<1> QED  BY <1>1, <1>4, <1>5

\* The handshake: nothing of it can be under way before 'spawn'.
LEMMA SpawnEventInStep ==
    ASSUME TypeOK, NEW g \in Gens, Honest(g), InStep(g), UNCHANGED controllerVars, SpawnEvent
    PROVE  condemned' \/ InStep(g)'
<1> SUFFICES ASSUME ~condemned' PROVE InStep(g)'
    OBVIOUS
<1> DEFINE m == Control("initialize")
<1>1. /\ toEngine' = Posted(proc, m) /\ timers' = timers \cup {"startup"}
      /\ pendingPing' = pendingPing /\ spawnDue /\ ~spawnDue' /\ toMain' = toMain
      /\ UNCHANGED <<status, stopping, shutdownSent, protocolFailed, pending, retired>>
      BY DEF SpawnEvent, Terminate, ArmedOnSpawn
<1>2. g = proc /\ m \in ParentMessages /\ Keyed(m) /\ Key(m) = 0 /\ m.type = "initialize"
      BY KeyOf, TypeOf, MessageTypes DEF Honest
<1>3. 0 \notin Asked(g) \cup Owed(g) \cup Answered(g) \cup Admitted(g)
      BY <1>1, OwedKeys DEF InStep, AllExpected, Expected
<1>4. status = "starting" /\ phase[g] \notin Initialized /\ phase' = phase
      BY <1>1 DEF InStep, HandshakeInStep, controllerVars
<1> HIDE DEF m
<1>5. /\ OnceEach(g)' /\ Owed(g)' = Owed(g) /\ Answered(g)' = Answered(g)
      /\ Asked(g)' \subseteq Asked(g) \cup {0}
      /\ Types(toEngine'[g]) \subseteq Types(toEngine[g]) \cup {"initialize"}
      BY <1>1, <1>2, <1>3, AskKeeps
<1>6. AllExpected(g)'
  <2>1. \A k : Expected(k) => Expected(k)'
        BY <1>1, <1>4 DEF Expected
  <2>2. Expected(0)'
        BY <1>1, <1>4, LaneMembers DEF Expected
  <2> QED  BY <1>5, <2>1, <2>2 DEF InStep, AllExpected
<1>7. HandshakeInStep(g)'
      BY <1>1, <1>4 DEF InStep, HandshakeInStep, Initialized
<1>8. ShutdownInStep(g)'
      BY <1>1, <1>4, <1>5 DEF InStep, ShutdownInStep
<1>9. PingInStep'
      BY <1>1 DEF InStep, PingInStep
<1> QED  BY <1>1, <1>5, <1>6, <1>7, <1>8, <1>9 DEF InStep

\* The heartbeat: the ping before was answered, or its timer would be armed.
LEMMA HeartbeatInStep ==
    ASSUME TypeOK, NEW g \in Gens, Honest(g), InStep(g), UNCHANGED controllerVars, HeartbeatTimer
    PROVE  condemned' \/ InStep(g)'
<1> SUFFICES ASSUME ~condemned' PROVE InStep(g)'
    OBVIOUS
<1> DEFINE m == Control("ping")
<1>1. /\ toEngine' = Posted(proc, m) /\ timers' = timers \cup {"heartbeatTimeout"}
      /\ "heartbeat" \in timers /\ "heartbeatTimeout" \notin timers
      /\ pendingPing' = TRUE /\ toMain' = toMain
      /\ UNCHANGED <<spawnDue, status, stopping, shutdownSent, protocolFailed, pending, retired>>
      BY DEF HeartbeatTimer, Terminate
<1>2. g = proc /\ m \in ParentMessages /\ Keyed(m) /\ Key(m) = 1 /\ m.type = "ping"
      BY KeyOf, TypeOf, MessageTypes DEF Honest
<1>3. ~pendingPing /\ status # "starting"
      BY <1>1 DEF InStep, PingInStep, TypeOK, SupervisorTypeOK
<1>4. 1 \notin Asked(g) \cup Owed(g) \cup Answered(g) \cup Admitted(g)
      BY <1>3, OwedKeys DEF InStep, AllExpected, Expected
<1> HIDE DEF m
<1>5. /\ OnceEach(g)' /\ Owed(g)' = Owed(g) /\ Answered(g)' = Answered(g)
      /\ Asked(g)' \subseteq Asked(g) \cup {1}
      /\ Types(toEngine'[g]) \subseteq Types(toEngine[g]) \cup {"ping"}
      BY <1>1, <1>2, <1>4, AskKeeps
<1>6. AllExpected(g)'
  <2>1. \A k : Expected(k) => Expected(k)'
        BY <1>1 DEF Expected
  <2>2. Expected(1)'
        BY <1>1, LaneMembers DEF Expected
  <2> QED  BY <1>5, <2>1, <2>2 DEF InStep, AllExpected
<1>7. phase' = phase
      BY DEF controllerVars
<1>8. HandshakeInStep(g)'
      BY <1>1, <1>5, <1>7 DEF InStep, HandshakeInStep
<1>9. ShutdownInStep(g)'
      BY <1>1, <1>5, <1>7 DEF InStep, ShutdownInStep
<1>10. PingInStep'
       BY <1>1, <1>3 DEF PingInStep
<1> QED  BY <1>1, <1>5, <1>6, <1>8, <1>9, <1>10 DEF InStep

\* What was asked of an engine, main has called.
CalledFirst ==
    /\ \A r \in retired : outcome[r] # "unused"
    /\ \A g \in Gens : Honest(g) => \A r \in Members(lane[g]) : outcome[r] # "unused"

LEMMA AcceptInStep ==
    ASSUME TypeOK, WaitersInv, CalledFirst, NEW g \in Gens, Honest(g), InStep(g),
           UNCHANGED controllerVars, NEW r \in Reqs, AcceptExecute(r)
    PROVE  InStep(g)'
<1>1. /\ toMain' = toMain /\ outcome[r] = "unused"
      /\ UNCHANGED <<spawnDue, status, stopping, shutdownSent, protocolFailed, retired,
                     pendingPing, timers>>
      /\ UNCHANGED <<phase, lane, timedOut>>
      BY DEF AcceptExecute, CallIsNext, controllerVars
<1>2. CASE toEngine' = toEngine /\ pending' = pending
      BY <1>1, <1>2, InStepKept
<1>3. CASE toEngine' = Posted(proc, Execute(r)) /\ pending' = pending \cup {r}
  <2> DEFINE m == Execute(r)
  <2>1. g = proc /\ m \in ParentMessages /\ Keyed(m) /\ Key(m) = r + 2 /\ m.type = "execute"
        BY KeyOf, TypeOf, MessageTypes DEF Honest
  <2>2. r \notin pending /\ r \notin retired /\ r \notin Members(lane[g])
        BY <1>1 DEF WaitersInv, CalledFirst
  <2>3. r + 2 \notin Asked(g) \cup Owed(g) \cup Answered(g) \cup Admitted(g)
        BY <2>2, OwedKeys DEF InStep, AllExpected, Expected
  <2> HIDE DEF m
  <2>4. /\ OnceEach(g)' /\ Owed(g)' = Owed(g) /\ Answered(g)' = Answered(g)
        /\ Asked(g)' \subseteq Asked(g) \cup {r + 2}
        /\ Types(toEngine'[g]) \subseteq Types(toEngine[g]) \cup {"execute"}
        BY <1>1, <1>3, <2>1, <2>3, AskKeeps DEF m
  <2>5. AllExpected(g)'
    <3>1. \A k : Expected(k) => Expected(k)'
          BY <1>1, <1>3 DEF Expected
    <3>2. Expected(r + 2)'
          BY <1>3, LaneMembers DEF Expected
    <3> QED  BY <2>4, <3>1, <3>2 DEF InStep, AllExpected
  <2>6. r + 2 # 0
        BY LaneMembers
  <2>7. HandshakeInStep(g)'
        BY <1>1, <2>4, <2>6 DEF InStep, HandshakeInStep
  <2>8. ShutdownInStep(g)'
        BY <1>1, <2>4 DEF InStep, ShutdownInStep
  <2>9. PingInStep'
        BY <1>1 DEF InStep, PingInStep
  <2> QED  BY <1>1, <2>4, <2>5, <2>7, <2>8, <2>9 DEF InStep
<1> QED  BY <1>2, <1>3 DEF AcceptExecute

\* Main hears the next message: its exchange is over.
LEMMA HearKeeps ==
    ASSUME TypeOK, NEW g \in Gens, Honest(g), InStep(g), UNCHANGED controllerVars,
           NEW type, Handle(type)
    PROVE  LET m == Head(toMain[g])
           IN  /\ m \in ChildMessages /\ m.type = type
               /\ Keyed(m) => /\ Expected(Key(m))
                              /\ Key(m) \notin Asked(g) \cup Owed(g) \cup Answered(g)'
               /\ OnceEach(g)' /\ Answered(g)' \subseteq Answered(g)
               /\ Asked(g)' = Asked(g) /\ Owed(g)' = Owed(g)
               /\ Types(toMain[g]) = Types(toMain'[g]) \cup {type}
               /\ EventsFollowReady(toMain[g]) => type # "event"
               /\ EventsFollowReady(toMain[g]) /\ type # "ready" => EventsFollowReady(toMain'[g])
<1> DEFINE m == Head(toMain[g])
<1>1. /\ toMain[g] \in Seq(ChildMessages) /\ toMain[g] # <<>>
      /\ toMain'[g] = Tail(toMain[g]) /\ toEngine'[g] = toEngine[g]
      /\ m.type = type
      BY DEF Handle, Honest, TypeOK, ChannelTypeOK
<1>2. m \in ChildMessages
      BY <1>1, TailFacts
<1>3. Asked(g)' = Asked(g) /\ Owed(g)' = Owed(g) /\ Admitted(g)' = Admitted(g) /\ lane' = lane
      BY <1>1 DEF Asked, Owed, Admitted, controllerVars
<1>4. OnceEach(g) /\ AllExpected(g)
      BY DEF InStep
<1>5. /\ Answered(g)' \subseteq Answered(g) /\ Distinct(toMain'[g])
      /\ Keyed(m) => Key(m) \in Answered(g) /\ Key(m) \notin Answered(g)'
      BY <1>1, <1>4, TailKeeps DEF Answered, OnceEach
<1>6. OnceEach(g)'
      BY <1>1, <1>3, <1>4, <1>5 DEF OnceEach
<1>7. Keyed(m) => Expected(Key(m)) /\ Key(m) \notin Asked(g) \cup Owed(g) \cup Answered(g)'
      BY <1>4, <1>5 DEF OnceEach, AllExpected
<1>8. /\ Types(toMain[g]) = Types(toMain'[g]) \cup {type}
      /\ EventsFollowReady(toMain[g]) => type # "event"
      /\ EventsFollowReady(toMain[g]) /\ type # "ready" => EventsFollowReady(toMain'[g])
      BY <1>1, TailKeeps
<1> QED  BY <1>1, <1>2, <1>3, <1>5, <1>6, <1>7, <1>8

\* ... and what main still expects, it may still hear.
LEMMA HeardInStep ==
    ASSUME TypeOK, NEW g \in Gens, Honest(g), InStep(g), UNCHANGED controllerVars,
           NEW type, Handle(type), UNCHANGED <<spawnDue, stopping, shutdownSent, protocolFailed>>,
           \A k : Expected(k) /\ (Keyed(Head(toMain[g])) => k # Key(Head(toMain[g])))
                    => Expected(k)',
           \/ status' = status /\ type # "ready"
           \/ status' = "ready" /\ ~spawnDue,
           PingInStep'
    PROVE  InStep(g)'
<1> DEFINE m == Head(toMain[g])
<1>1. /\ Keyed(m) => Key(m) \notin Asked(g) \cup Owed(g) \cup Answered(g)'
      /\ OnceEach(g)' /\ Answered(g)' \subseteq Answered(g)
      /\ Asked(g)' = Asked(g) /\ Owed(g)' = Owed(g)
      /\ Types(toMain[g]) = Types(toMain'[g]) \cup {type}
      /\ EventsFollowReady(toMain[g]) /\ type # "ready" => EventsFollowReady(toMain'[g])
      BY HearKeeps
<1>2. phase' = phase /\ toEngine' = toEngine
      BY DEF controllerVars, Handle
<1> HIDE DEF m
<1>3. AllExpected(g)'
  <2> SUFFICES ASSUME NEW k \in Asked(g)' \cup Owed(g)' \cup Answered(g)' PROVE Expected(k)'
      BY DEF AllExpected
  <2>1. Expected(k) /\ (Keyed(m) => k # Key(m))
        BY <1>1 DEF InStep, AllExpected
  <2> QED  BY <2>1 DEF m
<1>4. HandshakeInStep(g)'
  <2>1. HandshakeInStep(g)
        BY DEF InStep
  <2>2. CASE status' = status /\ type # "ready"
        BY <1>1, <1>2, <2>1, <2>2 DEF HandshakeInStep
  <2>3. CASE status' = "ready" /\ ~spawnDue
        BY <1>1, <1>2, <2>1, <2>3 DEF HandshakeInStep
  <2> QED  BY <2>2, <2>3
<1>5. ShutdownInStep(g)'
      BY <1>1, <1>2 DEF InStep, ShutdownInStep
<1> QED  BY <1>1, <1>3, <1>4, <1>5 DEF InStep

LEMMA HeardUnchanged ==
    ASSUME TypeOK, NEW g \in Gens, Honest(g), InStep(g), UNCHANGED controllerVars,
           NEW type, Handle(type), type # "ready", UNCHANGED supervisorVars
    PROVE  InStep(g)'
<1>1. UNCHANGED <<spawnDue, stopping, shutdownSent, protocolFailed, status, pendingPing, timers,
                  pending, retired>>
      BY DEF supervisorVars
<1>2. PingInStep'
      BY <1>1 DEF InStep, PingInStep
<1>3. \A k : Expected(k) => Expected(k)'
      BY <1>1 DEF Expected
<1> QED  BY <1>1, <1>2, <1>3, HeardInStep

LEMMA ReadyInStep ==
    ASSUME TypeOK, NEW g \in Gens, Honest(g), InStep(g), UNCHANGED controllerVars, HandleReady
    PROVE  InStep(g)'
<1> DEFINE m == Head(toMain[g])
<1>1. Handle("ready")
      BY DEF HandleReady
<1>2. m.type = "ready" /\ (Keyed(m) => Expected(Key(m)))
      BY <1>1, HearKeeps
<1>3. Keyed(m) /\ Key(m) = 0
      BY <1>2 DEF Keyed, Key
<1>4. status = "starting" /\ ~spawnDue
      BY <1>2, <1>3 DEF Expected
<1>5. /\ status' = "ready"
      /\ UNCHANGED <<spawnDue, stopping, shutdownSent, protocolFailed, pendingPing, pending,
                     retired>>
      BY <1>4 DEF HandleReady
<1>6. PingInStep'
      BY <1>4, <1>5 DEF InStep, PingInStep
<1>7. \A k : Expected(k) /\ (Keyed(m) => k # Key(m)) => Expected(k)'
      BY <1>3, <1>5 DEF Expected
<1> QED  BY <1>1, <1>4, <1>5, <1>6, <1>7, HeardInStep

LEMMA PongInStep ==
    ASSUME TypeOK, NEW g \in Gens, Honest(g), InStep(g), UNCHANGED controllerVars, HandlePong
    PROVE  InStep(g)'
<1> DEFINE m == Head(toMain[g])
<1>1. Handle("pong")
      BY DEF HandlePong
<1>2. m.type = "pong" /\ (Keyed(m) => Expected(Key(m)))
      BY <1>1, HearKeeps
<1>3. Keyed(m) /\ Key(m) = 1
      BY <1>2 DEF Keyed, Key
<1>4. pendingPing
      BY <1>2, <1>3 DEF Expected
<1>5. /\ ~pendingPing' /\ timers' = timers \ {"heartbeatTimeout"}
      /\ UNCHANGED <<spawnDue, status, stopping, shutdownSent, protocolFailed, pending, retired>>
      BY <1>4 DEF HandlePong
<1>6. PingInStep'
      BY <1>5 DEF InStep, PingInStep
<1>7. \A k : Expected(k) /\ (Keyed(m) => k # Key(m)) => Expected(k)'
      BY <1>3, <1>5 DEF Expected
<1> QED  BY <1>1, <1>5, <1>6, <1>7, HeardInStep

\* Messages that change nothing in main: an event, and the word that it stopped.
LEMMA NewsInStep ==
    ASSUME TypeOK, NEW g \in Gens, Honest(g), InStep(g), UNCHANGED controllerVars,
           HandleEvent \/ HandleStopped
    PROVE  InStep(g)'
<1> DEFINE m == Head(toMain[g])
<1>1. PICK type \in {"event", "stopped"} :
         Handle(type) /\ (type = "event" => HandleEvent) /\ (type = "stopped" => HandleStopped)
  <2>1. CASE HandleEvent
        BY <2>1 DEF HandleEvent
  <2>2. CASE HandleStopped
        BY <2>2 DEF HandleStopped
  <2> QED  BY <2>1, <2>2
<1>2. /\ m.type = type /\ type \in Types(toMain[g])
      /\ EventsFollowReady(toMain[g]) => type # "event"
      BY <1>1, HearKeeps
<1>3. CASE type = "event"
  <2>1. status = "ready"
        BY <1>2, <1>3 DEF InStep, HandshakeInStep
  <2> QED  BY <1>1, <1>2, <1>3, <2>1, HeardUnchanged DEF HandleEvent
<1>4. CASE type = "stopped"
  <2>1. stopping /\ shutdownSent
        BY <1>2, <1>4 DEF InStep, ShutdownInStep
  <2> QED  BY <1>1, <1>2, <1>4, <2>1, HeardUnchanged DEF HandleStopped
<1> QED  BY <1>3, <1>4

LEMMA ResultInStep ==
    ASSUME TypeOK, WaitersInv, NEW g \in Gens, Honest(g), InStep(g), UNCHANGED controllerVars,
           HandleResult
    PROVE  InStep(g)'
<1> DEFINE m == Head(toMain[g])
<1>1. Handle("result")
      BY DEF HandleResult
<1>2. m \in ChildMessages /\ m.type = "result" /\ (Keyed(m) => Expected(Key(m)))
      BY <1>1, HearKeeps
<1>3. PICK r \in Reqs : r = m.req
      BY <1>2, ResultHeadType
<1>4. Keyed(m) /\ Key(m) = r + 2
      BY <1>2, <1>3 DEF Keyed, Key
<1>5. r \in pending \cup retired
      BY <1>2, <1>3, <1>4 DEF Expected
<1>6. r = Head(toMain[proc]).req
      BY <1>3 DEF Honest
<1>7. r \in pending => status = "ready"
      BY DEF WaitersInv
<1>8. /\ (pending \cup retired) \ {r} \subseteq pending' \cup retired'
      /\ UNCHANGED <<spawnDue, status, stopping, shutdownSent, protocolFailed, pendingPing, timers>>
      BY <1>5, <1>6, <1>7 DEF HandleResult, DropLate
<1>9. PingInStep'
      BY <1>8 DEF InStep, PingInStep
<1>10. \A k : Expected(k) /\ (Keyed(m) => k # Key(m)) => Expected(k)'
       BY <1>4, <1>8 DEF Expected
<1> QED  BY <1>1, <1>8, <1>9, <1>10, HeardInStep, <1>2

\* It posts nothing invalid, and a failure it reports is one main waits for.
LEMMA FailureInStep ==
    ASSUME TypeOK, NEW g \in Gens, Honest(g), InStep(g), UNCHANGED controllerVars,
           HandleInvalid \/ HandleFailed
    PROVE  condemned'
<1> DEFINE m == Head(toMain[g])
<1>1. CASE HandleInvalid
      BY <1>1, HearKeeps DEF HandleInvalid, InStep
<1>2. CASE HandleFailed
  <2>1. m \in ChildMessages /\ m.type = "failed" /\ (Keyed(m) => Expected(Key(m)))
        BY <1>2, HearKeeps DEF HandleFailed
  <2>2. m.of \in {"handshake", "ping"} /\ m.of = Head(toMain[proc]).of
        BY <2>1 DEF ChildMessages, Honest
  <2>3. Keyed(m) /\ Key(m) = IF m.of = "handshake" THEN 0 ELSE 1
        BY <2>1 DEF Keyed, Key
  <2>4. FailureExpected(m.of)
        BY <2>1, <2>2, <2>3 DEF Expected, FailureExpected
  <2> QED  BY <1>2, <2>2, <2>4 DEF HandleFailed, Terminate
<1> QED  BY <1>1, <1>2

LEMMA AllRemembered ==
    ASSUME TypeOK, RoomForRetired, NEW ids \in SUBSET pending
    PROVE  Remembered(ids) = {retired \cup ids}
<1> DEFINE all == retired \cup ids
<1>1. /\ IsFiniteSet(retired \cup pending) /\ all \subseteq retired \cup pending
      BY FS_Subset DEF TypeOK, SupervisorTypeOK
<1>2. Cardinality(all) <= Cardinality(retired \cup pending)
      BY <1>1, FS_Subset
<1>3. Cardinality(all) \in Nat /\ Cardinality(retired \cup pending) \in Nat
      BY <1>1, FS_Subset, FS_CardinalityType
<1>4. Cardinality(all) <= MaxRetired
      BY <1>2, <1>3 DEF RoomForRetired
<1> QED  BY <1>4 DEF Remembered

LEMMA StopInStep ==
    ASSUME TypeOK, RoomForRetired, NEW g \in Gens, Honest(g), InStep(g), UNCHANGED controllerVars,
           Stop
    PROVE  condemned' \/ InStep(g)'
<1> SUFFICES ASSUME ~condemned' PROVE InStep(g)'
    OBVIOUS
<1> DEFINE m == Control("shutdown")
<1>1. g = proc /\ proc # NoProc
      BY DEF Honest, Gens, NoProc
<1>2. /\ toEngine' = Posted(proc, m) /\ toMain' = toMain /\ SettlePending(TRUE)
      /\ stopping' = TRUE /\ shutdownSent' = TRUE
      /\ timers' = (timers \ ClearedTimers) \cup {"shutdown"}
      /\ UNCHANGED <<spawnDue, status, protocolFailed, pendingPing>>
      BY <1>1 DEF Stop, ForceShutdown
<1>3. retired' = retired \cup pending /\ pending' = {}
  <2>1. retired' \in Remembered(pending) /\ pending' = {}
        BY <1>2 DEF SettlePending
  <2> QED  BY <2>1, AllRemembered
<1>4. m \in ParentMessages /\ ~Keyed(m) /\ m.type = "shutdown"
      BY KeyOf, TypeOf, MessageTypes
<1> HIDE DEF m
<1>5. /\ OnceEach(g)' /\ Owed(g)' = Owed(g) /\ Answered(g)' = Answered(g)
      /\ Asked(g)' \subseteq Asked(g)
      BY <1>1, <1>2, <1>4, AskKeeps
<1>6. AllExpected(g)'
  <2>1. \A k : Expected(k) => Expected(k)'
        BY <1>2, <1>3 DEF Expected
  <2> QED  BY <1>5, <2>1 DEF InStep, AllExpected
<1>7. phase' = phase
      BY DEF controllerVars
<1>8. HandshakeInStep(g)'
      BY <1>2, <1>5, <1>7 DEF InStep, HandshakeInStep
<1>9. PingInStep'
  <2>1. "heartbeat" \notin timers'
        BY <1>2 DEF ClearedTimers, RunTimers
  <2> QED  BY <1>2, <2>1 DEF InStep, PingInStep
<1> QED  BY <1>2, <1>5, <1>6, <1>8, <1>9 DEF InStep, ShutdownInStep

\* Steps that touch neither the ports nor what main expects of this engine.
LEMMA AsideInStep ==
    ASSUME TypeOK, RoomForRetired, NEW g \in Gens, Honest(g), InStep(g), UNCHANGED controllerVars,
           \/ \E r \in Reqs : RefuseExecute(r) \/ OperationTimeout(r)
           \/ \E h \in Gens : StaleMessage(h)
           \/ StableTimer \/ ForcedExitTimer
    PROVE  InStep(g)'
<1>1. UNCHANGED <<phase, lane, timedOut>>
      BY DEF controllerVars
<1>2. CASE \E r \in Reqs : RefuseExecute(r)
      BY <1>1, <1>2, InStepKept DEF RefuseExecute, channelVars
<1>3. CASE \E r \in Reqs : OperationTimeout(r)
  <2>1. PICK r \in Reqs : OperationTimeout(r)
        BY <1>3
  <2>2. retired' = retired \cup {r} /\ pending' = pending \ {r}
    <3>1. r \in pending /\ retired' \in Remembered({r})
          BY <2>1 DEF OperationTimeout
    <3> QED  BY <2>1, <3>1, AllRemembered DEF OperationTimeout
  <2>3. pending \cup retired \subseteq pending' \cup retired'
        BY <2>2
  <2> QED  BY <1>1, <2>1, <2>3, InStepKept DEF OperationTimeout, channelVars
<1>4. CASE \E h \in Gens : StaleMessage(h)
  <2>1. PICK h \in Gens : StaleMessage(h)
        BY <1>4
  <2>2. toMain'[g] = toMain[g] /\ toEngine' = toEngine
        BY <2>1 DEF StaleMessage, Honest, TypeOK, ChannelTypeOK
  <2>3. UNCHANGED <<spawnDue, status, pendingPing, protocolFailed, pending, retired, stopping,
                    shutdownSent, timers>>
        BY <2>1 DEF StaleMessage, supervisorVars
  <2> QED  BY <1>1, <2>2, <2>3, InStepKept
<1>5. CASE StableTimer \/ ForcedExitTimer
  <2>1. /\ UNCHANGED <<toEngine, toMain, spawnDue, status, pendingPing, protocolFailed, pending,
                       retired, stopping, shutdownSent>>
        /\ timers' = timers \ {"stable"} \/ timers' = timers \ {"forcedExit"}
        BY <1>5 DEF StableTimer, ForcedExitTimer, channelVars
  <2> QED  BY <1>1, <2>1, InStepKept
<1> QED  BY <1>2, <1>3, <1>4, <1>5

\* A generation that is forked starts with empty ports and a main that waits for
\* its 'spawn' event.
LEMMA BornInStep ==
    ASSUME TypeOK, WaitersInv, Unborn, IdleTimers, proc = NoProc, UNCHANGED controllerVars,
           NEW count, Spawn(count), NEW g \in Gens, Honest(g)'
    PROVE  InStep(g)'
<1>1. /\ g = gen + 1 /\ spawnDue' = TRUE /\ status' = "starting"
      /\ ~pendingPing' /\ ~protocolFailed' /\ timers' \subseteq timers
      /\ UNCHANGED <<toEngine, toMain>>
      BY DEF Honest, Spawn, Gens, NoProc
<1>2. g > gen
      BY <1>1 DEF TypeOK, SupervisorTypeOK
<1>3. /\ phase'[g] = "fresh" /\ toEngine'[g] = <<>> /\ toMain'[g] = <<>> /\ lane'[g] = <<>>
      BY <1>1, <1>2 DEF Unborn, controllerVars
<1>4. "heartbeat" \notin timers'
      BY <1>1 DEF IdleTimers, RunTimers
<1>5. Asked(g)' = {} /\ Answered(g)' = {} /\ Admitted(g)' = {} /\ Owed(g)' = {}
      BY <1>3 DEF Asked, Answered, Admitted, Owed, Keys, Members
<1>6. OnceEach(g)'
      BY <1>3, <1>5 DEF OnceEach, Distinct, NoRepeats
<1>7. HandshakeInStep(g)'
      BY <1>1, <1>3 DEF HandshakeInStep, Initialized, EventsFollowReady
<1>8. ShutdownInStep(g)'
      BY <1>3 DEF ShutdownInStep, Types
<1>9. "invalid" \notin Types(toMain'[g])
      BY <1>3 DEF Types
<1> QED  BY <1>1, <1>4, <1>5, <1>6, <1>7, <1>8, <1>9 DEF InStep, AllExpected, PingInStep

\* The steps of main by what they may do to the engines.
Forks == Start \/ Restart \/ RestartTimer
Hearings ==
    HandleInvalid \/ HandleReady \/ HandlePong \/ HandleEvent \/ HandleStopped \/ HandleFailed
      \/ HandleResult
Endings ==
    FatalErrorEvent \/ StartupTimer \/ HeartbeatTimeout \/ ShutdownTimer
Asides ==
    \/ \E r \in Reqs : RefuseExecute(r) \/ OperationTimeout(r)
    \/ \E h \in Gens : StaleMessage(h)
    \/ StableTimer \/ ForcedExitTimer
Askings == SpawnEvent \/ HeartbeatTimer \/ Stop \/ \E r \in Reqs : AcceptExecute(r)

LEMMA MainSteps ==
    ASSUME SupervisorNext
    PROVE  Forks \/ Hearings \/ Endings \/ Asides \/ Askings \/ ExitEvent
BY DEF SupervisorNext, ChildEvent, TimerFires, Forks, Hearings, Endings, Asides, Askings

LEMMA HearingsHandle ==
    ASSUME Hearings
    PROVE  \E type : Handle(type)
BY DEF Hearings, HandleInvalid, HandleReady, HandlePong, HandleEvent, HandleStopped, HandleFailed,
       HandleResult

\* Only a fork makes an engine honest again.
LEMMA HonestBefore ==
    ASSUME SupervisorNext, ~Forks, UNCHANGED controllerVars, NEW g \in Gens, Honest(g)'
    PROVE  Honest(g)
<1>1. proc' = proc \/ proc' = NoProc
  <2>1. CASE Hearings
    <3>1. CASE FailProtocol
          BY <3>1 DEF FailProtocol, supervisorVars
    <3>2. CASE ~FailProtocol
          BY <2>1, <3>2
             DEF Hearings, HandleInvalid, HandleReady, HandlePong, HandleEvent, HandleStopped,
                 HandleFailed, HandleResult, supervisorVars
    <3> QED  BY <3>1, <3>2
  <2>2. CASE Endings
        BY <2>2 DEF Endings, FatalErrorEvent, StartupTimer, HeartbeatTimeout, ShutdownTimer
  <2>3. CASE Asides
        BY <2>3 DEF Asides, RefuseExecute, OperationTimeout, StaleMessage, StableTimer,
                    ForcedExitTimer, supervisorVars
  <2>4. CASE Askings
        BY <2>4 DEF Askings, SpawnEvent, HeartbeatTimer, Stop, AcceptExecute
  <2>5. CASE ExitEvent
        BY <2>5 DEF ExitEvent
  <2> QED  BY <2>1, <2>2, <2>3, <2>4, <2>5, MainSteps
<1>2. condemned' = condemned \/ condemned' = TRUE
  <2>1. CASE Hearings
    <3>1. CASE FailProtocol
          BY <3>1 DEF FailProtocol, supervisorVars
    <3>2. CASE ~FailProtocol
          BY <2>1, <3>2
             DEF Hearings, HandleInvalid, HandleReady, HandlePong, HandleEvent, HandleStopped,
                 HandleFailed, HandleResult, Terminate, supervisorVars
    <3> QED  BY <3>1, <3>2
  <2>2. CASE Endings
        BY <2>2 DEF Endings, FatalErrorEvent, StartupTimer, HeartbeatTimeout, ShutdownTimer,
                    Terminate
  <2>3. CASE Asides
        BY <2>3 DEF Asides, RefuseExecute, OperationTimeout, StaleMessage, StableTimer,
                    ForcedExitTimer, supervisorVars
  <2>4. CASE Askings
        BY <2>4 DEF Askings, SpawnEvent, HeartbeatTimer, Stop, AcceptExecute, Terminate,
                    ForceShutdown
  <2>5. CASE ExitEvent
        BY <2>5 DEF ExitEvent
  <2> QED  BY <2>1, <2>2, <2>3, <2>4, <2>5, MainSteps
<1> QED  BY <1>1, <1>2 DEF Honest, controllerVars, Gens, NoProc

LEMMA SupervisorInStep ==
    ASSUME TypeOK, HeldInv, WaitersInv, HonestInStep, Unborn, IdleTimers, CalledFirst,
           RoomForRetired, SupervisorNext, UNCHANGED controllerVars
    PROVE  HonestInStep'
<1> SUFFICES ASSUME NEW g \in Gens, Honest(g)' PROVE InStep(g)'
    BY DEF HonestInStep
<1>0. ~condemned' /\ proc' # NoProc
      BY DEF Honest, Gens, NoProc
<1>1. CASE Forks
  <2>1. proc = NoProc
        BY <1>1 DEF Forks, Start, Restart, RestartTimer, HeldInv
  <2>2. PICK count : Spawn(count)
        BY <1>1 DEF Forks, Start, Restart, RestartTimer
  <2> QED  BY <2>1, <2>2, BornInStep
<1>2. CASE ~Forks
  <2>1. Honest(g) /\ InStep(g)
        BY <1>2, HonestBefore DEF HonestInStep
  <2>2. CASE Hearings
    <3>1. CASE HandleReady
          BY <2>1, <3>1, ReadyInStep
    <3>2. CASE HandlePong
          BY <2>1, <3>2, PongInStep
    <3>3. CASE HandleEvent \/ HandleStopped
          BY <2>1, <3>3, NewsInStep
    <3>4. CASE HandleResult
          BY <2>1, <3>4, ResultInStep
    <3>5. CASE HandleInvalid \/ HandleFailed
          BY <1>0, <2>1, <3>5, FailureInStep
    <3> QED  BY <2>2, <3>1, <3>2, <3>3, <3>4, <3>5 DEF Hearings
  <2>3. CASE Endings
        BY <1>0, <2>3 DEF Endings, FatalErrorEvent, StartupTimer, HeartbeatTimeout, ShutdownTimer,
                          Terminate
  <2>4. CASE Asides
        BY <2>1, <2>4, AsideInStep DEF Asides
  <2>5. CASE Askings
    <3>1. CASE SpawnEvent
          BY <1>0, <2>1, <3>1, SpawnEventInStep
    <3>2. CASE HeartbeatTimer
          BY <1>0, <2>1, <3>2, HeartbeatInStep
    <3>3. CASE Stop
          BY <1>0, <2>1, <3>3, StopInStep
    <3>4. CASE \E r \in Reqs : AcceptExecute(r)
          BY <2>1, <3>4, AcceptInStep
    <3> QED  BY <2>5, <3>1, <3>2, <3>3, <3>4 DEF Askings
  <2>6. CASE ExitEvent
        BY <1>0, <2>6 DEF ExitEvent
  <2> QED  BY <1>2, <2>2, <2>3, <2>4, <2>5, <2>6, MainSteps
<1> QED  BY <1>1, <1>2

LEMMA ControllerInStep ==
    ASSUME TypeOK, HonestInStep, NEW h \in Gens, ControllerNext(h), UNCHANGED supervisorVars
    PROVE  HonestInStep'
<1> SUFFICES ASSUME NEW g \in Gens, Honest(g)' PROVE InStep(g)'
    BY DEF HonestInStep
<1>1. proc' = proc /\ condemned' = condemned
      BY DEF supervisorVars
<1>2. CASE g # h
  <2>1. /\ toEngine'[g] = toEngine[g] /\ toMain'[g] = toMain[g] /\ lane'[g] = lane[g]
        /\ timedOut'[g] = timedOut[g] /\ phase'[g] = phase[g]
        /\ misbehaved'[g] = misbehaved[g]
        BY <1>2, OtherEngineKeeps
  <2>2. InStep(g)
        BY <1>1, <2>1 DEF HonestInStep, Honest
  <2>3. UNCHANGED <<spawnDue, status, pendingPing, protocolFailed, pending, retired, stopping,
                    shutdownSent, timers>>
        BY DEF supervisorVars
  <2> QED  BY <2>1, <2>2, <2>3, InStepKept
<1>3. CASE g = h /\ Misbehave(h)
  <2>1. misbehaved'[g]
        BY <1>3 DEF Misbehave, TypeOK, ControllerTypeOK
  <2> QED  BY <2>1 DEF Honest
<1>4. CASE g = h /\ ~Misbehave(h)
  <2>1. misbehaved' = misbehaved
        BY <1>4
           DEF ControllerNext, ReceiveBeforeInitialize, ReceiveInitialize, ReceivePing,
               ReceiveExecute, ReceiveShutdown, ProveRuntime, Begin, Finish, FinishInvalid, Emit,
               Deadline, ShutdownComplete, Hang, Dies, controllerVars
  <2>2. InStep(g)
        BY <1>1, <2>1 DEF HonestInStep, Honest
  <2>3. CASE ReceiveBeforeInitialize(g) \/ ReceiveInitialize(g) \/ ProveRuntime(g)
        BY <2>2, <2>3, HandshakeStep
  <2>4. CASE \/ ReceivePing(g) \/ ReceiveShutdown(g) \/ FinishInvalid(g) \/ Hang(g) \/ Emit(g)
             \/ ShutdownComplete(g)
        BY <2>2, <2>4, ControlStep
  <2>5. CASE ReceiveExecute(g)
        BY <2>2, <2>5, ExecuteStep
  <2>6. CASE Begin(g) \/ Finish(g)
        BY <2>2, <2>6, LaneStep
  <2>7. CASE \E r \in Reqs : Deadline(g, r)
        BY <2>2, <2>7, DeadlineStep
  <2>8. CASE Dies(g)
        BY <2>2, <2>8, DyingStep
  <2> QED  BY <1>4, <2>3, <2>4, <2>5, <2>6, <2>7, <2>8 DEF ControllerNext
<1> QED  BY <1>2, <1>3, <1>4

\* What a step of main does to the ports and the processes.
MainTouches ==
    /\ toEngine' = toEngine \/ \E m : toEngine' = Posted(proc, m)
    /\ \/ toMain' = toMain
       \/ \E h \in Gens : toMain[h] # <<>> /\ toMain' = [toMain EXCEPT ![h] = Tail(@)]

LEMMA MainPorts ==
    ASSUME TypeOK, SupervisorNext
    PROVE  MainTouches
<1>1. CASE Forks
      BY <1>1 DEF Forks, Start, Restart, RestartTimer, Spawn, MainTouches
<1>2. CASE Hearings
  <2>1. PICK type : Handle(type)
        BY <1>2, HearingsHandle
  <2> QED  BY <2>1 DEF Handle, MainTouches, TypeOK, SupervisorTypeOK
<1>3. CASE Endings
      BY <1>3 DEF Endings, FatalErrorEvent, StartupTimer, HeartbeatTimeout, ShutdownTimer,
                  MainTouches
<1>4. CASE Asides
      BY <1>4 DEF Asides, RefuseExecute, OperationTimeout, StaleMessage, StableTimer,
                  ForcedExitTimer, channelVars, MainTouches
<1>5. CASE Askings
  <2>1. toMain' = toMain
        BY <1>5 DEF Askings, SpawnEvent, HeartbeatTimer, Stop, AcceptExecute
  <2>2. toEngine' = toEngine \/ \E m : toEngine' = Posted(proc, m)
        BY <1>5 DEF Askings, SpawnEvent, HeartbeatTimer, Stop, AcceptExecute
  <2> QED  BY <2>1, <2>2 DEF MainTouches
<1>6. CASE ExitEvent
      BY <1>6 DEF ExitEvent, MainTouches
<1> QED  BY <1>1, <1>2, <1>3, <1>4, <1>5, <1>6, MainSteps

LEMMA MainProcesses ==
    ASSUME TypeOK, SupervisorNext
    PROVE  /\ gen' \in {gen, gen + 1}
           /\ \A g \in Gens : os[g] = "none" /\ g > gen' => os'[g] = "none"
<1>1. CASE Forks
  <2>1. PICK count : Spawn(count)
        BY <1>1 DEF Forks, Start, Restart, RestartTimer
  <2> QED  BY <2>1 DEF Spawn, TypeOK, ChannelTypeOK, SupervisorTypeOK
<1>2. CASE Hearings
  <2>1. CASE FailProtocol
        BY <2>1, KillStep DEF FailProtocol, supervisorVars, TypeOK
  <2>2. CASE ~FailProtocol
    <3>1. gen' = gen /\ (os' = os \/ Kill)
          BY <1>2, <2>2
             DEF Hearings, HandleInvalid, HandleReady, HandlePong, HandleEvent, HandleStopped,
                 HandleFailed, HandleResult, Terminate, supervisorVars
    <3> QED  BY <3>1, KillStep DEF TypeOK
  <2> QED  BY <2>1, <2>2
<1>3. CASE Endings
  <2>1. gen' = gen /\ Kill
        BY <1>3 DEF Endings, FatalErrorEvent, StartupTimer, HeartbeatTimeout, ShutdownTimer,
                    Terminate
  <2> QED  BY <2>1, KillStep DEF TypeOK
<1>4. CASE Asides
  <2>1. gen' = gen /\ os' = os
        BY <1>4 DEF Asides, RefuseExecute, OperationTimeout, StaleMessage, StableTimer,
                    ForcedExitTimer, channelVars, supervisorVars
  <2> QED  BY <2>1
<1>5. CASE Askings
  <2>1. gen' = gen /\ (os' = os \/ Kill)
        BY <1>5 DEF Askings, SpawnEvent, HeartbeatTimer, Stop, AcceptExecute, Terminate,
                    ForceShutdown
  <2> QED  BY <2>1, KillStep DEF TypeOK
<1>6. CASE ExitEvent
      BY <1>6 DEF ExitEvent, HasExited, TypeOK, ChannelTypeOK
<1> QED  BY <1>1, <1>2, <1>3, <1>4, <1>5, <1>6, MainSteps

LEMMA UnbornStep ==
    ASSUME TypeOK, Unborn, [Next]_vars
    PROVE  Unborn'
<1>1. CASE MainStep
  <2> SUFFICES ASSUME NEW g \in Gens, g > gen'
               PROVE  /\ os'[g] = "none" /\ phase'[g] = "fresh"
                      /\ toEngine'[g] = <<>> /\ toMain'[g] = <<>> /\ lane'[g] = <<>>
      BY DEF Unborn
  <2>1. MainTouches /\ gen' \in {gen, gen + 1} /\ UNCHANGED controllerVars
        BY <1>1, MainPorts, MainProcesses DEF MainStep
  <2>2. g > gen
        BY <2>1 DEF TypeOK, SupervisorTypeOK, Gens
  <2>3. /\ os[g] = "none" /\ phase[g] = "fresh"
        /\ toEngine[g] = <<>> /\ toMain[g] = <<>> /\ lane[g] = <<>>
        BY <2>2 DEF Unborn
  <2>4. os'[g] = "none"
        BY <1>1, <2>3, MainProcesses DEF MainStep
  <2>5. toEngine'[g] = toEngine[g]
        BY <2>1, <2>3 DEF MainTouches, Posted, Live, TypeOK, ChannelTypeOK
  <2>6. toMain'[g] = toMain[g]
        BY <2>1, <2>3 DEF MainTouches, TypeOK, ChannelTypeOK
  <2> QED  BY <2>1, <2>3, <2>4, <2>5, <2>6 DEF controllerVars
<1>2. CASE \E h \in Gens : EngineStep(h)
  <2> SUFFICES ASSUME NEW g \in Gens, g > gen'
               PROVE  /\ os'[g] = "none" /\ phase'[g] = "fresh"
                      /\ toEngine'[g] = <<>> /\ toMain'[g] = <<>> /\ lane'[g] = <<>>
      BY DEF Unborn
  <2>1. PICK h \in Gens : ControllerNext(h) /\ UNCHANGED supervisorVars
        BY <1>2 DEF EngineStep
  <2>2. Live(h)
        BY <2>1
           DEF ControllerNext, ReceiveBeforeInitialize, ReceiveInitialize, ReceivePing,
               ReceiveExecute, ReceiveShutdown, Receive, ProveRuntime, Begin, Finish,
               FinishInvalid, Emit, Deadline, ShutdownComplete, Misbehave, Hang, Dies, Turns
  <2>3. gen' = gen
        BY <2>1 DEF supervisorVars
  <2>4. /\ os[g] = "none" /\ phase[g] = "fresh"
        /\ toEngine[g] = <<>> /\ toMain[g] = <<>> /\ lane[g] = <<>>
        BY <2>3 DEF Unborn
  <2>5. h # g
        BY <2>2, <2>4 DEF Live
  <2> QED  BY <2>1, <2>4, <2>5, OtherEngineKeeps
<1>3. CASE UNCHANGED vars
      BY <1>3 DEF vars, channelVars, supervisorVars, controllerVars, Unborn
<1> QED  BY <1>1, <1>2, <1>3 DEF Next

LEMMA IdleTimersStep ==
    ASSUME TypeOK, HeldInv, IdleTimers, [Next]_vars
    PROVE  IdleTimers'
<1> SUFFICES ASSUME proc' = NoProc PROVE timers' \cap RunTimers = {}
    BY DEF IdleTimers
<1>1. CASE MainStep
  <2>1. SupervisorNext
        BY <1>1 DEF MainStep
  <2>2. CASE ExitEvent
        BY <2>2 DEF ExitEvent, RunTimers
  <2>3. CASE Forks
    <3>1. proc = NoProc
          BY <2>3 DEF Forks, Start, Restart, RestartTimer, HeldInv
    <3>2. timers' \subseteq timers
          BY <2>3 DEF Forks, Start, Restart, RestartTimer, Spawn
    <3> QED  BY <3>1, <3>2 DEF IdleTimers
  <2>4. CASE ~ExitEvent /\ ~Forks
    <3>1. proc' = proc
      <4>1. CASE Hearings
        <5>1. CASE FailProtocol
              BY <5>1 DEF FailProtocol, supervisorVars
        <5>2. CASE ~FailProtocol
              BY <4>1, <5>2
                 DEF Hearings, HandleInvalid, HandleReady, HandlePong, HandleEvent, HandleStopped,
                     HandleFailed, HandleResult, supervisorVars
        <5> QED  BY <5>1, <5>2
      <4>2. CASE Endings
            BY <4>2 DEF Endings, FatalErrorEvent, StartupTimer, HeartbeatTimeout, ShutdownTimer
      <4>3. CASE Asides
            BY <4>3 DEF Asides, RefuseExecute, OperationTimeout, StaleMessage, StableTimer,
                        ForcedExitTimer, supervisorVars
      <4>4. CASE Askings
            BY <4>4 DEF Askings, SpawnEvent, HeartbeatTimer, Stop, AcceptExecute
      <4> QED  BY <2>1, <2>4, <4>1, <4>2, <4>3, <4>4, MainSteps
    <3>2. timers \cap RunTimers = {} /\ proc = NoProc
          BY <3>1 DEF IdleTimers
    <3>3. timers' \subseteq timers \cup {"shutdown", "forcedExit"}
      <4>1. ~Hearings
        <5>1. \A type : ~Handle(type)
              BY <3>2 DEF Handle
        <5> QED  BY <5>1, HearingsHandle
      <4>2. CASE Endings
            BY <4>2 DEF Endings, FatalErrorEvent, StartupTimer, HeartbeatTimeout, ShutdownTimer,
                        Terminate, ArmedOnForce
      <4>3. CASE Asides
            BY <4>3 DEF Asides, RefuseExecute, OperationTimeout, StaleMessage, StableTimer,
                        ForcedExitTimer, supervisorVars
      <4>4. CASE Askings
            BY <3>2, <4>4 DEF Askings, SpawnEvent, HeartbeatTimer, Stop, AcceptExecute
      <4> QED  BY <2>1, <2>4, <4>1, <4>2, <4>3, <4>4, MainSteps
    <3> QED  BY <3>2, <3>3 DEF RunTimers
  <2> QED  BY <2>2, <2>3, <2>4
<1>2. CASE (\E g \in Gens : EngineStep(g)) \/ UNCHANGED vars
  <2>1. proc' = proc /\ timers' = timers
        BY <1>2 DEF EngineStep, vars, supervisorVars
  <2> QED  BY <2>1 DEF IdleTimers
<1> QED  BY <1>1, <1>2 DEF Next

LEMMA CallsAreKept ==
    ASSUME TypeOK, WaitersInv, \A r \in retired : outcome[r] # "unused", SupervisorNext
    PROVE  /\ \A r \in Reqs : outcome'[r] = "unused" => outcome[r] = "unused"
           /\ \A r \in retired' : outcome'[r] # "unused"
<1> DEFINE Kept == \A r \in Reqs : outcome'[r] = "unused" => outcome[r] = "unused"
           Fewer == retired' \subseteq retired \cup pending
<1>1. ASSUME NEW retire, SettlePending(retire) PROVE Kept /\ Fewer
      BY <1>1 DEF SettlePending, Remembered, TypeOK, SupervisorTypeOK
<1>2. ASSUME UNCHANGED <<outcome, retired>> PROVE Kept /\ Fewer
      BY <1>2
<1>3. Kept /\ Fewer
  <2>1. CASE Forks
        BY <2>1 DEF Forks, Start, Restart, RestartTimer, Spawn
  <2>2. CASE Hearings
    <3>1. CASE FailProtocol
          BY <1>1, <1>2, <3>1 DEF FailProtocol, supervisorVars
    <3>2. CASE HandleFailed /\ ~FailProtocol
          BY <1>1, <3>2 DEF HandleFailed
    <3>3. CASE HandleResult /\ ~FailProtocol
      <4>1. PICK r \in Reqs, code \in ResultCodes :
               r = Head(toMain[proc]).req /\ code = Head(toMain[proc]).code
        <5>1. Handle("result")
              BY <3>3 DEF HandleResult
        <5>2. Head(toMain[proc]) \in ChildMessages /\ Head(toMain[proc]).type = "result"
              BY <5>1, HandleType DEF TypeOK
        <5> QED  BY <5>2, ResultHeadType
      <4>2. \/ Answer(r, code) /\ retired' = retired
            \/ outcome' = outcome /\ retired' = retired \ {r}
            BY <3>3, <4>1 DEF HandleResult, DropLate
      <4>3. code # "unused"
            BY DEF ResultCodes
      <4> QED  BY <4>2, <4>3 DEF Answer, TypeOK, SupervisorTypeOK
    <3>4. CASE HandleReady /\ ~FailProtocol
          BY <1>2, <3>4 DEF HandleReady
    <3>5. CASE (HandleInvalid \/ HandlePong \/ HandleEvent \/ HandleStopped) /\ ~FailProtocol
          BY <1>2, <3>5 DEF HandleInvalid, HandlePong, HandleEvent, HandleStopped, supervisorVars
    <3> QED  BY <2>2, <3>1, <3>2, <3>3, <3>4, <3>5 DEF Hearings
  <2>3. CASE Endings
        BY <1>2, <2>3 DEF Endings, FatalErrorEvent, StartupTimer, HeartbeatTimeout, ShutdownTimer
  <2>4. CASE \/ \E h \in Gens : StaleMessage(h)
             \/ StableTimer \/ ForcedExitTimer \/ SpawnEvent \/ HeartbeatTimer
        BY <1>2, <2>4 DEF StaleMessage, StableTimer, ForcedExitTimer, SpawnEvent, HeartbeatTimer,
                          supervisorVars
  <2>5. CASE \E r \in Reqs : RefuseExecute(r) \/ AcceptExecute(r)
        BY <2>5 DEF RefuseExecute, AcceptExecute, Answer, TypeOK, SupervisorTypeOK
  <2>6. CASE \E r \in Reqs : OperationTimeout(r)
    <3>1. PICK r \in Reqs : OperationTimeout(r)
          BY <2>6
    <3>2. Kept
          BY <3>1 DEF OperationTimeout, Answer, TypeOK, SupervisorTypeOK
    <3>3. Fewer
          BY <3>1 DEF OperationTimeout, Remembered
    <3> QED  BY <3>2, <3>3
  <2>7. CASE Stop
        BY <1>1, <2>7 DEF Stop
  <2>8. CASE ExitEvent
        BY <1>1, <2>8 DEF ExitEvent
  <2> QED  BY <2>1, <2>2, <2>3, <2>4, <2>5, <2>6, <2>7, <2>8, MainSteps DEF Asides, Askings
<1>4. \A r \in retired \cup pending : r \in Reqs /\ outcome[r] # "unused"
      BY DEF WaitersInv, TypeOK, SupervisorTypeOK
<1> QED  BY <1>3, <1>4

LEMMA CalledFirstStep ==
    ASSUME TypeOK, HeldInv, WaitersInv, HonestInStep, Unborn, CalledFirst, [Next]_vars
    PROVE  CalledFirst'
<1>1. CASE MainStep
  <2>1. SupervisorNext /\ UNCHANGED controllerVars
        BY <1>1 DEF MainStep
  <2>2. /\ \A r \in Reqs : outcome'[r] = "unused" => outcome[r] = "unused"
        /\ \A r \in retired' : outcome'[r] # "unused"
        BY <2>1, CallsAreKept DEF CalledFirst
  <2>3. ASSUME NEW g \in Gens, Honest(g)'
        PROVE  \A r \in Members(lane'[g]) : outcome'[r] # "unused"
    <3>1. lane'[g] = lane[g] /\ Members(lane[g]) \subseteq Reqs
          BY <2>1, LaneMembers DEF controllerVars
    <3>2. CASE Forks
      <4>1. PICK count : Spawn(count)
            BY <3>2 DEF Forks, Start, Restart, RestartTimer
      <4>2. proc = NoProc
            BY <3>2 DEF Forks, Start, Restart, RestartTimer, HeldInv
      <4>3. g > gen
            BY <2>3, <4>1, <4>2 DEF Spawn, Honest, Gens, NoProc, TypeOK, SupervisorTypeOK
      <4>4. lane[g] = <<>>
            BY <4>3 DEF Unborn
      <4> QED  BY <3>1, <4>4 DEF Members
    <3>3. CASE ~Forks
      <4>1. Honest(g)
            BY <2>1, <2>3, <3>3, HonestBefore
      <4> QED  BY <2>2, <3>1, <4>1 DEF CalledFirst
    <3> QED  BY <3>2, <3>3
  <2> QED  BY <2>2, <2>3 DEF CalledFirst
<1>2. CASE \E h \in Gens : EngineStep(h)
  <2>1. PICK h \in Gens : ControllerNext(h) /\ UNCHANGED supervisorVars
        BY <1>2 DEF EngineStep
  <2>2. outcome' = outcome /\ retired' = retired /\ proc' = proc /\ condemned' = condemned
        BY <2>1 DEF supervisorVars
  <2>3. ASSUME NEW g \in Gens, Honest(g)'
        PROVE  \A r \in Members(lane'[g]) : outcome[r] # "unused"
    <3>1. CASE h # g
      <4>1. lane'[g] = lane[g] /\ misbehaved'[g] = misbehaved[g]
            BY <2>1, <3>1, OtherEngineKeeps
      <4> QED  BY <2>2, <2>3, <4>1 DEF CalledFirst, Honest
    <3>2. CASE h = g
      <4>1. Honest(g) /\ InStep(g)
        <5>1. misbehaved'[g] = misbehaved[g] \/ misbehaved'[g]
              BY <2>1, <3>2
                 DEF ControllerNext, ReceiveBeforeInitialize, ReceiveInitialize, ReceivePing,
                     ReceiveExecute, ReceiveShutdown, ProveRuntime, Begin, Finish, FinishInvalid,
                     Emit, Deadline, ShutdownComplete, Misbehave, Hang, Dies, controllerVars,
                     TypeOK, ControllerTypeOK
        <5> QED  BY <2>2, <2>3, <5>1 DEF Honest, HonestInStep
      <4>2. \A r \in Members(lane[g]) : outcome[r] # "unused"
            BY <4>1 DEF CalledFirst
      <4>3. CASE ReceiveExecute(g) /\ lane' # lane
        <5>1. Receive(g, "execute")
              BY <4>3 DEF ReceiveExecute
        <5>2. PICK r \in Reqs : r = Head(toEngine[g]).req
              BY <4>1, <5>1, ReceiveTakes DEF ParentMessages
        <5>3. Keyed(Head(toEngine[g])) /\ Key(Head(toEngine[g])) = r + 2
              BY <5>1, <5>2 DEF Receive, Keyed, Key
        <5>4. r + 2 \in Asked(g)
              BY <4>1, <5>1, <5>3, ReceiveTakes
        <5>5. r \in pending \cup retired
              BY <4>1, <5>4 DEF InStep, AllExpected, Expected
        <5>6. outcome[r] # "unused"
              BY <5>5 DEF CalledFirst, WaitersInv
        <5>7. lane[g] \in Seq(Reqs) /\ lane'[g] = Append(lane[g], r)
              BY <4>3, <5>2 DEF ReceiveExecute, TypeOK, ControllerTypeOK
        <5>8. Members(lane'[g]) = Members(lane[g]) \cup {r}
              BY <5>7, AppendKeeps
        <5> QED  BY <4>2, <5>6, <5>8
      <4>4. CASE ~(ReceiveExecute(g) /\ lane' # lane)
        <5>1. lane[g] \in Seq(Reqs)
              BY DEF TypeOK, ControllerTypeOK
        <5>2. \/ lane'[g] = lane[g] \/ lane'[g] = <<>>
              \/ lane[g] # <<>> /\ lane'[g] = Tail(lane[g])
              BY <2>1, <3>2, <4>4
                 DEF ControllerNext, ReceiveBeforeInitialize, ReceiveInitialize, ReceivePing,
                     ReceiveShutdown, ProveRuntime, Begin, Finish, FinishInvalid,
                     Emit, Deadline, ShutdownComplete, Misbehave, Hang, Dies, controllerVars,
                     TypeOK, ControllerTypeOK
        <5>3. Members(<<>>) = {}
              BY DEF Members
        <5> QED  BY <4>2, <5>1, <5>2, <5>3, TailKeeps
      <4> QED  BY <4>3, <4>4
    <3> QED  BY <3>1, <3>2
  <2> QED  BY <2>2, <2>3 DEF CalledFirst
<1>3. CASE UNCHANGED vars
      BY <1>3 DEF vars, channelVars, supervisorVars, controllerVars, CalledFirst, Honest, Members
<1> QED  BY <1>1, <1>2, <1>3 DEF Next

HonestInv == HonestInStep /\ Unborn /\ IdleTimers /\ CalledFirst

LEMMA HonestStep ==
    ASSUME TypeOK, HeldInv, WaitersInv, HonestInv, RoomForRetired, [Next]_vars
    PROVE  HonestInv'
<1> USE DEF HonestInv
<1>1. HonestInStep'
  <2>1. CASE MainStep
        BY <2>1, SupervisorInStep DEF MainStep
  <2>2. CASE \E h \in Gens : EngineStep(h)
        BY <2>2, ControllerInStep DEF EngineStep
  <2>3. CASE UNCHANGED vars
    <3> SUFFICES ASSUME NEW g \in Gens, Honest(g)' PROVE InStep(g)'
        BY DEF HonestInStep
    <3>1. UNCHANGED supervisorVars /\ UNCHANGED channelVars /\ UNCHANGED controllerVars
          BY <2>3 DEF vars
    <3>2. InStep(g)
          BY <3>1 DEF HonestInStep, Honest, supervisorVars, controllerVars
    <3> QED  BY <3>1, <3>2, InStepKept DEF supervisorVars, controllerVars, channelVars
  <2> QED  BY <2>1, <2>2, <2>3 DEF Next
<1>2. Unborn' /\ IdleTimers' /\ CalledFirst'
      BY UnbornStep, IdleTimersStep, CalledFirstStep
<1> QED  BY <1>1, <1>2

\* Main never takes an engine for broken that keeps its protocol, unless it had
\* already signalled it to die (HonestEngineTrusted): for as long as no id had to
\* be evicted from the retired ones.
THEOREM LinkHonestEngineTrusted ==
    Spec /\ []RoomForRetired => []HonestEngineTrusted
<1>1. Init => HonestInv
      BY DEF Init, ChannelInit, SupervisorInit, ControllerInit, HonestInv, HonestInStep, Honest,
             Unborn, IdleTimers, CalledFirst, Members, Gens, NoProc
<1>2. TypeOK /\ HeldInv /\ WaitersInv /\ HonestInv /\ RoomForRetired /\ [Next]_vars => HonestInv'
      BY HonestStep
<1>3. TypeOK /\ HonestInv => HonestEngineTrusted
      BY DEF HonestInv, HonestInStep, HonestEngineTrusted, Honest, InStep, TypeOK, SupervisorTypeOK
<1>4. Init => HeldInv /\ WaitersInv
      BY DEF Init, ChannelInit, SupervisorInit, HeldInv, WaitersInv, Live, HasExited
<1>5. Spec => [](TypeOK /\ HeldInv /\ WaitersInv)
      BY <1>4, HeldStep, WaitersStep, LinkTypeCorrect, PTL DEF Spec
<1> QED  BY <1>1, <1>2, <1>3, <1>5, PTL DEF Spec

\* ... so an application that never calls more commands than main remembers ids
\* has nothing to fear.
COROLLARY HonestEngineTrustedInARun ==
    ASSUME Cardinality(Reqs) <= MaxRetired
    PROVE  Spec => []HonestEngineTrusted
<1>1. TypeOK => RoomForRetired
  <2> SUFFICES ASSUME TypeOK PROVE RoomForRetired
      OBVIOUS
  <2>1. retired \cup pending \in SUBSET Reqs
        BY DEF TypeOK, SupervisorTypeOK
  <2>2. Cardinality(retired \cup pending) <= Cardinality(Reqs) /\ IsFiniteSet(retired \cup pending)
        BY <2>1, FS_Subset
  <2> QED  BY <2>2, FS_CardinalityType DEF RoomForRetired
<1> QED  BY <1>1, LinkTypeCorrect, LinkHonestEngineTrusted, PTL

------------------------------------------------------------------------------
(* Main never waits in vain: the safety half of CallsSettle and of           *)
(* EngineComesBack.                                                          *)

LimboIsTimed ==
    /\ status = "starting" /\ gen > 0 =>
          proc # NoProc /\ (spawnDue \/ "startup" \in timers \/ condemned)
    /\ status = "restarting" => proc = NoProc /\ "restart" \in timers

ReadyIsWatched ==
    /\ status = "ready" => proc # NoProc /\ (condemned \/ "heartbeat" \in timers)
    /\ pendingPing => "heartbeatTimeout" \in timers

StopIsTimed ==
    /\ stopState = "waiting" => "shutdown" \in timers
    /\ stopState = "forced" => "forcedExit" \in timers

\* Whenever main waits for its engine, the engine is due to spawn, was told to
\* die, or a timer is armed that ends the wait.
NeverWaitsInVain ==
    /\ stopState = "none" => LimboIsTimed /\ ReadyIsWatched
    /\ StopIsTimed

\* What it needs: main stops by itself only into a visible stopped state, and a
\* restart is due only while it has not.
WatchInv ==
    /\ NeverWaitsInVain
    /\ stopping /\ stopState = "none" => status \in Stopped
    /\ "restart" \in timers => ~stopping
    /\ gen = 0 => status = "starting" /\ stopState = "none"

LEMMA WatchUntouched ==
    ASSUME WatchInv,
           UNCHANGED <<gen, status, proc, spawnDue, stopState, stopping>>,
           condemned => condemned', pendingPing' => pendingPing,
           "restart" \in timers <=> "restart" \in timers',
           \A t \in {"startup", "heartbeat"} : t \in timers => t \in timers' \/ condemned',
           pendingPing' /\ "heartbeatTimeout" \in timers => "heartbeatTimeout" \in timers',
           \A t \in {"shutdown", "forcedExit"} : t \in timers => t \in timers'
    PROVE  WatchInv'
<1>1. LimboIsTimed => LimboIsTimed'
      BY DEF LimboIsTimed
<1>2. ReadyIsWatched => ReadyIsWatched'
      BY DEF ReadyIsWatched
<1>3. StopIsTimed => StopIsTimed'
      BY DEF StopIsTimed
<1> QED  BY <1>1, <1>2, <1>3 DEF WatchInv, NeverWaitsInVain

LEMMA WatchTerminates ==
    ASSUME WatchInv, Terminate, UNCHANGED <<gen, status, proc, spawnDue, stopState, stopping>>
    PROVE  WatchInv'
BY WatchUntouched DEF Terminate, RunTimers

\* Once the protocol has failed main has stopped, visibly.
LEMMA WatchFails ==
    ASSUME TypeOK, HeldInv, WatchInv, proc # NoProc, FailProtocol
    PROVE  WatchInv'
<1>1. CASE UNCHANGED supervisorVars
  <2>1. /\ UNCHANGED <<gen, status, proc, spawnDue, stopState, stopping, condemned, pendingPing,
                       timers>>
        BY <1>1 DEF supervisorVars
  <2> QED  BY <2>1, WatchUntouched
<1>2. CASE ~protocolFailed
  <2>1. /\ stopping' = TRUE /\ timers' = timers \ ClearedTimers /\ ~pendingPing'
        /\ status' = (IF stopping THEN status ELSE "protocolError")
        /\ UNCHANGED <<gen, stopState>>
        BY <1>2 DEF FailProtocol
  <2>2. "restart" \notin timers' /\ gen # 0
        BY <2>1 DEF ClearedTimers, HeldInv
  <2>3. StopIsTimed => StopIsTimed'
        BY <2>1 DEF StopIsTimed, ClearedTimers, RunTimers
  <2>4. stopState = "none" => status' \in Stopped
        BY <2>1 DEF WatchInv, Stopped
  <2>5. stopState = "none" => LimboIsTimed' /\ ReadyIsWatched'
        BY <2>1, <2>4 DEF LimboIsTimed, ReadyIsWatched, Stopped
  <2> QED  BY <2>1, <2>2, <2>3, <2>4, <2>5 DEF WatchInv, NeverWaitsInVain
<1> QED  BY <1>1, <1>2 DEF FailProtocol

LEMMA WatchForks ==
    ASSUME TypeOK, HeldInv, StopInv, WatchInv, Forks
    PROVE  WatchInv'
<1>1. PICK count : Spawn(count)
      BY DEF Forks, Start, Restart, RestartTimer
<1>2. ~stopping' /\ stopState = "none"
  <2>1. CASE Start
        BY <2>1 DEF Start, WatchInv
  <2>2. CASE Restart
        BY <2>2 DEF Restart
  <2>3. CASE RestartTimer
        BY <2>3 DEF RestartTimer, WatchInv, StopInv
  <2> QED  BY <2>1, <2>2, <2>3 DEF Forks
<1>3. /\ gen' = gen + 1 /\ gen' # 0 /\ gen' \in Gens /\ ~pendingPing' /\ stopState' = stopState
      /\ timers' = timers \ {"restart"}
      BY <1>1 DEF Spawn, TypeOK, SupervisorTypeOK, Gens
<1>4. CASE proc' = gen' /\ spawnDue' = TRUE /\ status' = "starting"
  <2>1. proc' # NoProc
        BY <1>3, <1>4 DEF NoProc, Gens
  <2> QED  BY <1>2, <1>3, <1>4, <2>1
              DEF WatchInv, NeverWaitsInVain, LimboIsTimed, ReadyIsWatched, StopIsTimed
<1>5. CASE status' = "startFailed"
      BY <1>2, <1>3, <1>5
         DEF WatchInv, NeverWaitsInVain, LimboIsTimed, ReadyIsWatched, StopIsTimed
<1> QED  BY <1>1, <1>4, <1>5 DEF Spawn

LEMMA WatchStops ==
    ASSUME TypeOK, WatchInv, Stop
    PROVE  WatchInv'
<1>1. stopping' = TRUE /\ stopState' \in {"notRunning", "waiting", "forced"} /\ gen' = gen /\ gen > 0
      BY DEF Stop, ForceShutdown
<1>2. "restart" \notin timers' /\ StopIsTimed'
      BY DEF Stop, ForceShutdown, StopIsTimed, ArmedOnForce, ClearedTimers
<1> QED  BY <1>1, <1>2 DEF WatchInv, NeverWaitsInVain, TypeOK, SupervisorTypeOK

LEMMA WatchAsks ==
    ASSUME TypeOK, WatchInv,
           SpawnEvent \/ HeartbeatTimer \/ \E r \in Reqs : AcceptExecute(r)
    PROVE  WatchInv'
<1>1. UNCHANGED <<gen, status, proc, stopState, stopping>>
      BY DEF SpawnEvent, HeartbeatTimer, AcceptExecute
<1>2. CASE SpawnEvent
  <2>1. CASE /\ timers' = timers \cup ArmedOnSpawn /\ spawnDue' = FALSE
             /\ UNCHANGED <<pendingPing, condemned>>
        BY <1>1, <2>1 DEF ArmedOnSpawn, WatchInv, NeverWaitsInVain, LimboIsTimed, ReadyIsWatched,
                          StopIsTimed
  <2>2. CASE Terminate
        BY <1>1, <2>2 DEF Terminate, RunTimers, WatchInv, NeverWaitsInVain, LimboIsTimed,
                          ReadyIsWatched, StopIsTimed
  <2> QED  BY <1>2, <2>1, <2>2 DEF SpawnEvent
<1>3. CASE HeartbeatTimer
  <2>1. CASE timers' = timers \cup {"heartbeatTimeout"} /\ UNCHANGED <<spawnDue, condemned>>
        BY <1>1, <2>1 DEF WatchInv, NeverWaitsInVain, LimboIsTimed, ReadyIsWatched, StopIsTimed
  <2>2. CASE Terminate /\ UNCHANGED spawnDue
        BY <1>1, <2>2, WatchTerminates
  <2> QED  BY <1>3, <2>1, <2>2 DEF HeartbeatTimer
<1>4. CASE \E r \in Reqs : AcceptExecute(r)
      BY <1>1, <1>4, WatchUntouched DEF AcceptExecute
<1> QED  BY <1>2, <1>3, <1>4

LEMMA WatchTimers ==
    ASSUME TypeOK, StopInv, WatchInv, Asides \/ Endings
    PROVE  WatchInv'
<1>1. CASE \E r \in Reqs : RefuseExecute(r) \/ OperationTimeout(r)
  <2>1. UNCHANGED <<gen, status, proc, spawnDue, stopState, stopping, condemned, pendingPing,
                    timers>>
        BY <1>1 DEF RefuseExecute, OperationTimeout
  <2> QED  BY <2>1, WatchUntouched
<1>2. CASE \E h \in Gens : StaleMessage(h)
  <2>1. UNCHANGED <<gen, status, proc, spawnDue, stopState, stopping, condemned, pendingPing,
                    timers>>
        BY <1>2 DEF StaleMessage, supervisorVars
  <2> QED  BY <2>1, WatchUntouched
<1>3. CASE StableTimer
  <2>1. /\ timers' = timers \ {"stable"}
        /\ UNCHANGED <<gen, status, proc, spawnDue, stopState, stopping, condemned, pendingPing>>
        BY <1>3 DEF StableTimer
  <2> QED  BY <2>1, WatchUntouched
<1>4. CASE FatalErrorEvent \/ StartupTimer \/ HeartbeatTimeout
      BY <1>4, WatchTerminates DEF FatalErrorEvent, StartupTimer, HeartbeatTimeout
<1>5. CASE ForcedExitTimer
  <2>1. /\ timers' = timers \ {"forcedExit"} /\ stopState' = "timedOut" /\ stopState # "none"
        /\ UNCHANGED <<gen, stopping>>
        BY <1>5 DEF ForcedExitTimer, StopInv, StopTimers
  <2> QED  BY <2>1 DEF WatchInv, NeverWaitsInVain, StopIsTimed
<1>6. CASE ShutdownTimer
  <2>1. /\ timers' = (timers \ {"shutdown"}) \cup {"forcedExit"} /\ stopState' = "forced"
        /\ stopState # "none" /\ UNCHANGED <<gen, stopping>>
        BY <1>6 DEF ShutdownTimer, ArmedOnForce, StopInv, StopTimers
  <2> QED  BY <2>1 DEF WatchInv, NeverWaitsInVain, StopIsTimed
<1> QED  BY <1>1, <1>2, <1>3, <1>4, <1>5, <1>6 DEF Asides, Endings

LEMMA WatchHears ==
    ASSUME TypeOK, HeldInv, WatchInv, Hearings
    PROVE  WatchInv'
<1>0. proc # NoProc
      BY HearingsHandle DEF Handle
<1>1. CASE FailProtocol
      BY <1>0, <1>1, WatchFails
<1>2. CASE ~FailProtocol
  <2>1. CASE HandleReady
    <3>1. /\ status' = "ready" /\ timers' = (timers \ {"startup"}) \cup ArmedOnReady
          /\ UNCHANGED <<proc, gen, spawnDue, stopping, pendingPing, stopState, condemned>>
          /\ status = "starting"
          BY <1>2, <2>1 DEF HandleReady
    <3>2. gen # 0
          BY <1>0 DEF HeldInv
    <3>3. stopping => stopState # "none"
          BY <3>1 DEF WatchInv, Stopped
    <3> QED  BY <1>0, <3>1, <3>2, <3>3
                DEF ArmedOnReady, WatchInv, NeverWaitsInVain, LimboIsTimed, ReadyIsWatched,
                    StopIsTimed
  <2>2. CASE HandlePong
    <3>1. /\ pendingPing' = FALSE /\ timers' = timers \ {"heartbeatTimeout"}
          /\ UNCHANGED <<proc, gen, spawnDue, status, stopping, stopState, condemned>>
          BY <1>2, <2>2 DEF HandlePong
    <3> QED  BY <3>1, WatchUntouched
  <2>3. CASE HandleFailed
        BY <1>2, <2>3, WatchTerminates DEF HandleFailed
  <2>4. CASE HandleResult
        BY <1>2, <2>4, WatchUntouched DEF HandleResult
  <2>5. CASE HandleEvent \/ HandleStopped \/ HandleInvalid
    <3>1. UNCHANGED <<gen, status, proc, spawnDue, stopState, stopping, condemned, pendingPing,
                      timers>>
          BY <1>2, <2>5 DEF HandleEvent, HandleStopped, HandleInvalid, supervisorVars
    <3> QED  BY <3>1, WatchUntouched
  <2> QED  BY <2>1, <2>2, <2>3, <2>4, <2>5 DEF Hearings
<1> QED  BY <1>1, <1>2

LEMMA WatchExit ==
    ASSUME TypeOK, HeldInv, WatchInv, ExitEvent
    PROVE  WatchInv'
<1>1. /\ proc' = NoProc /\ ~pendingPing' /\ gen' = gen /\ stopping' = stopping /\ gen # 0
      /\ stopState' \notin {"waiting", "forced"}
      /\ stopState' = "none" <=> stopState = "none"
      BY DEF ExitEvent, HeldInv
<1>2. CASE stopping
      BY <1>1, <1>2 DEF ExitEvent, WatchInv, NeverWaitsInVain, LimboIsTimed, ReadyIsWatched,
                        StopIsTimed, Stopped, RunTimers, StopTimers
<1>3. CASE ~stopping /\ status' = "restarting" /\ "restart" \in timers'
      BY <1>1, <1>3 DEF WatchInv, NeverWaitsInVain, LimboIsTimed, ReadyIsWatched, StopIsTimed
<1>4. CASE ~stopping /\ status' = "crashLoop"
      BY <1>1, <1>4 DEF WatchInv, NeverWaitsInVain, LimboIsTimed, ReadyIsWatched, StopIsTimed
<1> QED  BY <1>2, <1>3, <1>4 DEF ExitEvent

LEMMA WatchStep ==
    ASSUME TypeOK, HeldInv, StopInv, WatchInv, [Next]_vars
    PROVE  WatchInv'
<1>1. CASE SupervisorNext
      BY <1>1, MainSteps, WatchForks, WatchHears, WatchTimers, WatchStops, WatchAsks, WatchExit
         DEF Askings
<1>2. CASE (\E g \in Gens : EngineStep(g)) \/ UNCHANGED vars
  <2>1. UNCHANGED <<gen, status, proc, spawnDue, stopState, stopping, condemned, pendingPing,
                    timers>>
        BY <1>2 DEF EngineStep, vars, supervisorVars
  <2> QED  BY <2>1, WatchUntouched
<1> QED  BY <1>1, <1>2 DEF Next, MainStep

\* Main never shows "starting", "restarting" or "ready", and stop() never waits,
\* with nothing left that could end it: an engine that is due, that was told to
\* die, or an armed timer.
THEOREM LinkNeverWaitsInVain == Spec => []NeverWaitsInVain
<1>1. Init => HeldInv /\ StopInv /\ WatchInv
      BY DEF Init, ChannelInit, SupervisorInit, HeldInv, StopInv, WatchInv, NeverWaitsInVain,
             LimboIsTimed, ReadyIsWatched, StopIsTimed, Live, HasExited
<1>2. WatchInv => NeverWaitsInVain
      BY DEF WatchInv
<1> QED  BY <1>1, <1>2, HeldStep, StopStep, WatchStep, LinkTypeCorrect, PTL DEF Spec
==============================================================================
