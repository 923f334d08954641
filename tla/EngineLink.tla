------------------------------ MODULE EngineLink ------------------------------
(***************************************************************************)
(* The supervisor and the controllers of its engine generations, over      *)
(* their message ports: what an execute() of the main process promises.    *)
(***************************************************************************)
EXTENDS EngineSupervisor, ProtocolController

vars == <<channelVars, supervisorVars, controllerVars>>

TypeOK == ChannelTypeOK /\ SupervisorTypeOK /\ ControllerTypeOK

Init == ChannelInit /\ SupervisorInit /\ ControllerInit

MainStep == SupervisorNext /\ UNCHANGED controllerVars
EngineStep(g) == ControllerNext(g) /\ UNCHANGED supervisorVars

Next == MainStep \/ \E g \in Gens : EngineStep(g)

Spec == Init /\ [][Next]_vars

\* Electron delivers 'spawn' and 'exit', the main process's timers fire, and a
\* process that exits or was killed dies.  Nothing is assumed of a live engine.
Fairness ==
    /\ WF_vars(SpawnEvent /\ UNCHANGED controllerVars)
    /\ WF_vars(ExitEvent /\ UNCHANGED controllerVars)
    /\ WF_vars(StartupTimer /\ UNCHANGED controllerVars)
    /\ WF_vars(HeartbeatTimer /\ UNCHANGED controllerVars)
    /\ WF_vars(HeartbeatTimeout /\ UNCHANGED controllerVars)
    /\ WF_vars(RestartTimer /\ UNCHANGED controllerVars)
    /\ WF_vars(ShutdownTimer /\ UNCHANGED controllerVars)
    /\ WF_vars(ForcedExitTimer /\ UNCHANGED controllerVars)
    /\ \A r \in Reqs : WF_vars(OperationTimeout(r) /\ UNCHANGED controllerVars)
    /\ \A g \in Gens : WF_vars(DiesSurely(g) /\ UNCHANGED supervisorVars)

FairSpec == Spec /\ Fairness

------------------------------------------------------------------------------
(* Properties.                                                               *)

\* At most one engine process exists, and it is the one main holds: a restart
\* never overlaps the generation it replaces (plan.md, "Main supervises the
\* process").
OneEngine == \A g \in Gens : Live(g) => g = proc

\* The strengthening that makes OneEngine inductive: a process that has not been
\* reported gone is the held one, and a restart is scheduled only with none held.
HeldInv ==
    /\ \A g \in Gens : Live(g) \/ HasExited(g) => g = proc
    /\ "restart" \in timers \/ gen = 0 => proc = NoProc

\* The strengthening that makes WaitersHaveAnEngine inductive.
WaitersInv ==
    /\ \A r \in Reqs : outcome[r] = "waiting" <=> r \in pending
    /\ pending # {} => status = "ready" /\ proc # NoProc /\ ~stopping

\* The link implements the service its callers rely on.
Service == INSTANCE CommandService
ImplementsCommandService == Service!Spec

\* A caller is answered once and the answer stands.
AnswerStands ==
    [][\A r \in Reqs : outcome[r] \notin {"unused", "waiting"}
                          => outcome'[r] = outcome[r]]_vars

\* Nobody waits on a generation that is gone: a waiting caller has a timer and a
\* child that may still answer.
WaitersHaveAnEngine ==
    \A r \in Reqs : outcome[r] = "waiting" =>
        r \in pending /\ status = "ready" /\ proc # NoProc /\ ~stopping

\* An engine that keeps the protocol is never accused of breaking it, unless main
\* had already signalled it to die.
HonestEngineTrusted ==
    proc # NoProc /\ protocolFailed => misbehaved[proc] \/ condemned

\* After stop() nothing is forked.
NoForkAfterStop == [][stopState # "none" => gen' = gen]_vars

\* stop() settles once: neither an exit nor a timer that comes late changes what
\* the application that quits was told.
StopSettled == {"exited", "exitedForced", "timedOut", "notRunning"}
StopSettlesOnce == [][(stopState \in StopSettled) => stopState' = stopState]_vars

\* What is over stays over, whatever comes late: an answer, the engine once
\* stop() has been called, and what stop() answered.
EndsAreFinal == AnswerStands /\ NoForkAfterStop /\ StopSettlesOnce

\* stop() settles even when the engine hangs and cannot be killed.
StopSettles == stopState \in {"waiting", "forced"} ~> stopState \in {"exited", "exitedForced", "timedOut"}

\* Main wants its engine gone and kill() has said that it did nothing.
KillRefused == proc # NoProc /\ condemned /\ os[proc] = "up"

\* A restart is due, and the bound on the generations leaves none to fork.
AtTheBound == "restart" \in timers /\ gen = MaxGen

\* The window shows "starting" or "restarting" forever only if a kill is refused.
NeverInLimbo ==
    status \in {"starting", "restarting"} /\ gen > 0
      ~> \/ status \in {"ready"} \cup Stopped \/ stopState # "none"
         \/ KillRefused \/ AtTheBound

\* A ready engine whose event loop hangs is taken away, if it can be killed.
HungEngineReplaced ==
    \A g \in Gens : (proc = g /\ phase[g] = "hung") ~> (proc # g \/ KillRefused)

\* Every execute() settles.
EveryCallSettles == \A r \in Reqs : outcome[r] = "waiting" ~> outcome[r] # "waiting"

\* Nobody is left waiting, whoever hangs, crashes or cannot be killed: neither
\* the caller of a command nor the application that quits.
CallsSettle == EveryCallSettles /\ StopSettles

\* Whatever happens to an engine, main ends with one that is ready, or stopped
\* and saying so, unless a kill was refused.
EngineComesBack == NeverInLimbo /\ HungEngineReplaced
==============================================================================
