--------------------------- MODULE EngineSupervisor ---------------------------
(***************************************************************************)
(* main/engine-supervisor.ts: the main process's side of the engine link.  *)
(* It forks one engine, shakes hands with it, pings it, correlates command *)
(* results, restarts it once after an unexpected exit and stops it when    *)
(* the application quits.                                                  *)
(***************************************************************************)
EXTENDS EngineChannel

CONSTANTS
    MaxPending,    \* MAX_PENDING_OPERATIONS
    MaxRetired     \* MAX_RETIRED_REQUEST_IDS

ASSUME SupervisorAssumption == MaxPending \in Nat /\ MaxRetired \in Nat

VARIABLES
    proc,            \* #process: the generation whose child is held, or NoProc
    gen,             \* #generationId, counted
    spawnDue,        \* the child's 'spawn' event has not been delivered yet
    status,          \* #status
    restartCount,    \* #restartCount
    stopping,        \* #stopping
    protocolFailed,  \* #protocolFailed
    pendingPing,     \* #pendingPingRequestId is not null
    shutdownSent,    \* #shutdownRequestId is not null
    timers,          \* the armed timers
    pending,         \* #pendingOperations
    retired,         \* #retiredRequestIds
    outcome,         \* what each caller of execute() has been told so far
    stopState,       \* the promise of stop()
    condemned        \* main killed this generation for what it did (ghost)

supervisorVars ==
    <<proc, gen, spawnDue, status, restartCount, stopping, protocolFailed,
      pendingPing, shutdownSent, timers, pending, retired, outcome, stopState,
      condemned>>

NoProc == 0

RunTimers == {"startup", "heartbeat", "heartbeatTimeout", "stable"}
StopTimers == {"shutdown", "forcedExit"}

\* What #clearTimers clears: the stop() promise keeps its own two timers.
OnlyRunTimers == RunTimers
ClearedTimers == RunTimers \cup {"restart"}

\* What the 'spawn' event, a ready message and a forced shutdown arm.
NoTimers == {}
ArmedOnSpawn == {"startup"}
StableOnly == {"stable"}
ArmedOnReady == {"stable", "heartbeat"}
ArmedOnForce == {"forcedExit"}
Timers == RunTimers \cup StopTimers \cup {"restart"}

\* The three ways to be in the visible stopped state.
Stopped == {"startFailed", "protocolError", "crashLoop"}
Statuses == {"starting", "ready", "restarting"} \cup Stopped

Outcomes == ResultCodes \cup {"unused", "waiting", "ABORTED"}
StopStates ==
    {"none", "waiting", "forced", "exited", "exitedForced", "timedOut",
     "notRunning"}

SupervisorTypeOK ==
    /\ proc \in Gens \cup {NoProc}
    /\ gen \in 0..MaxGen
    /\ spawnDue \in BOOLEAN
    /\ status \in Statuses
    /\ restartCount \in {0, 1}
    /\ stopping \in BOOLEAN
    /\ protocolFailed \in BOOLEAN
    /\ pendingPing \in BOOLEAN
    /\ shutdownSent \in BOOLEAN
    /\ timers \in SUBSET Timers
    /\ pending \in SUBSET Reqs
    /\ retired \in SUBSET Reqs
    /\ outcome \in [Reqs -> Outcomes]
    /\ stopState \in StopStates
    /\ condemned \in BOOLEAN

SupervisorInit ==
    /\ proc = NoProc /\ gen = 0 /\ spawnDue = FALSE
    /\ status = "starting" /\ restartCount = 0
    /\ stopping = FALSE /\ protocolFailed = FALSE
    /\ pendingPing = FALSE /\ shutdownSent = FALSE
    /\ timers = {} /\ pending = {} /\ retired = {}
    /\ outcome = [r \in Reqs |-> "unused"]
    /\ stopState = "none" /\ condemned = FALSE

------------------------------------------------------------------------------
(* Helpers of the class.                                                     *)

\* #rememberRetiredRequestId for every id of ids: beyond MaxRetired an id is
\* evicted (the code takes the oldest, here any one may go).
Remembered(ids) ==
    LET all == retired \cup ids
    IN  IF Cardinality(all) <= MaxRetired
        THEN {all}
        ELSE {kept \in SUBSET all : Cardinality(kept) = MaxRetired}

\* Mutant: the callers of a dead engine are forgotten.
SettlePendingSilently(retire) ==
    /\ pending' = {}
    /\ UNCHANGED <<outcome, retired>>

\* #settlePendingOperations.
SettlePending(retire) ==
    /\ pending' = {}
    /\ outcome' = [r \in Reqs |-> IF r \in pending THEN "ABORTED" ELSE outcome[r]]
    /\ IF retire THEN retired' \in Remembered(pending) ELSE retired' = retired

\* #kill on the held child.
Kill == \E accepted \in KillOutcomes : os' = Signalled(proc, accepted)

\* #clearRunTimers followed by #kill, as every supervised termination does.
Terminate ==
    /\ timers' = timers \ RunTimers
    /\ pendingPing' = FALSE
    /\ condemned' = TRUE
    /\ Kill

\* #failProtocol: once per generation.
FailProtocol ==
    \/ /\ protocolFailed
       /\ UNCHANGED <<os, supervisorVars>>
    \/ /\ ~protocolFailed
       /\ protocolFailed' = TRUE
       /\ stopping' = TRUE
       /\ timers' = timers \ ClearedTimers
       /\ pendingPing' = FALSE
       /\ SettlePending(TRUE)
       /\ Kill
       /\ status' = IF stopping THEN status ELSE "protocolError"
       /\ UNCHANGED <<proc, gen, spawnDue, restartCount, shutdownSent, stopState,
                      condemned>>

\* #spawn: fork a new generation, or fail to and stop visibly.
Spawn(count) ==
    /\ gen < MaxGen
    /\ gen' = gen + 1
    /\ restartCount' = count
    /\ pendingPing' = FALSE /\ shutdownSent' = FALSE /\ protocolFailed' = FALSE
    /\ retired' = {} /\ condemned' = FALSE
    /\ timers' = timers \ {"restart"}
    /\ \/ /\ proc' = gen'
          /\ os' = [os EXCEPT ![gen'] = "up"]
          /\ spawnDue' = TRUE
          /\ status' = "starting"
       \/ /\ status' = "startFailed"
          /\ UNCHANGED <<proc, os, spawnDue>>
    /\ UNCHANGED <<toEngine, toMain, pending, outcome, stopState>>

\* A message of the held child has been taken off its port.
Handle(type) ==
    /\ proc # NoProc
    /\ toMain[proc] # <<>>
    /\ Head(toMain[proc]).type = type
    /\ toMain' = [toMain EXCEPT ![proc] = Tail(@)]
    /\ UNCHANGED toEngine

------------------------------------------------------------------------------
(* The commands main gives the supervisor.                                   *)

\* execute(): the commands are numbered in the order they are called.
CallIsNext(r) ==
    /\ outcome[r] = "unused"
    /\ \A q \in Reqs : q < r => outcome[q] # "unused"

Answer(r, code) == outcome' = [outcome EXCEPT ![r] = code]

CanExecute == status = "ready" /\ proc # NoProc /\ ~stopping

RefuseExecute(r) ==
    /\ CallIsNext(r)
    /\ \/ ~CanExecute /\ Answer(r, "NOT_READY")
       \/ CanExecute /\ Cardinality(pending) >= MaxPending /\ Answer(r, "BUSY")
    /\ UNCHANGED <<channelVars, proc, gen, spawnDue, status, restartCount,
                   stopping, protocolFailed, pendingPing, shutdownSent, timers,
                   pending, retired, stopState,
                   condemned>>

AcceptExecute(r) ==
    /\ CallIsNext(r)
    /\ CanExecute
    /\ Cardinality(pending) < MaxPending
    /\ \E posted \in PostOutcomes :
          IF posted
          THEN /\ toEngine' = Posted(proc, Execute(r))
               /\ pending' = pending \cup {r}
               /\ Answer(r, "waiting")
          ELSE Answer(r, "ABORTED") /\ UNCHANGED <<toEngine, pending>>
    /\ UNCHANGED <<os, toMain, proc, gen, spawnDue, status, restartCount,
                   stopping, protocolFailed, pendingPing, shutdownSent, timers,
                   retired, stopState,
                   condemned>>

\* start(), which the application calls once.
Start ==
    /\ gen = 0
    /\ stopping' = FALSE
    /\ Spawn(restartCount)

\* Mutant: the button does not wait for the exit of the engine it replaces.
RestartAtOnce ==
    /\ status \in Stopped /\ "restart" \notin timers
    /\ stopState = "none"
    /\ stopping' = FALSE
    /\ Spawn(0)

\* restart(), from the window's button; the IPC is unregistered before stop().
Restart ==
    /\ status \in Stopped /\ proc = NoProc /\ "restart" \notin timers
    /\ stopState = "none"
    /\ stopping' = FALSE
    /\ Spawn(0)

ForceShutdown ==
    /\ timers' = (timers \ ClearedTimers) \cup ArmedOnForce
    /\ stopState' = "forced"
    /\ condemned' = TRUE
    /\ Kill

\* stop(): the first call only, the promise is kept.
Stop ==
    /\ gen > 0 /\ stopState = "none"
    /\ stopping' = TRUE
    /\ SettlePending(TRUE)
    /\ \/ /\ proc = NoProc
          /\ stopState' = "notRunning"
          /\ timers' = timers \ ClearedTimers
          /\ UNCHANGED <<os, toEngine, shutdownSent, condemned>>
       \/ /\ proc # NoProc
          /\ shutdownSent' = TRUE
          /\ \E posted \in PostOutcomes :
                IF posted
                THEN /\ toEngine' = Posted(proc, Control("shutdown"))
                     /\ timers' = (timers \ ClearedTimers) \cup {"shutdown"}
                     /\ stopState' = "waiting"
                     /\ UNCHANGED <<os, condemned>>
                ELSE ForceShutdown /\ UNCHANGED toEngine
    /\ UNCHANGED <<toMain, proc, gen, spawnDue, status, restartCount,
                   protocolFailed, pendingPing>>

------------------------------------------------------------------------------
(* Events of the child.                                                      *)

\* 'spawn': initialize the child and arm the startup timer, stopping or not.
SpawnEvent ==
    /\ proc # NoProc /\ spawnDue
    /\ spawnDue' = FALSE
    /\ \E posted \in PostOutcomes :
          IF posted
          THEN /\ toEngine' = Posted(proc, Control("initialize"))
               /\ timers' = timers \cup ArmedOnSpawn
               /\ UNCHANGED <<os, pendingPing, condemned>>
          ELSE Terminate /\ UNCHANGED toEngine
    /\ UNCHANGED <<toMain, proc, gen, status, restartCount, stopping,
                   protocolFailed, shutdownSent, pending, retired, outcome,
                   stopState>>

\* 'error' of the child, and terminateForSmokeTest().
FatalErrorEvent ==
    /\ proc # NoProc /\ Live(proc)
    /\ Terminate
    /\ UNCHANGED <<toEngine, toMain, proc, gen, spawnDue, status, restartCount,
                   stopping, protocolFailed, shutdownSent, pending, retired,
                   outcome, stopState>>

\* Mutant: a kill that was accepted is taken for the exit.
HasExitedOrWill(g) == os[g] \in {"killed", "dead"}

HasExited(g) == os[g] = "dead"

\* 'exit': #handleExit, then the exit listener of stop().
ExitEvent ==
    /\ proc # NoProc /\ HasExited(proc)
    /\ os' = [os EXCEPT ![proc] = IF @ = "dead" THEN "gone" ELSE @]
    /\ proc' = NoProc
    /\ spawnDue' = FALSE
    /\ pendingPing' = FALSE
    /\ shutdownSent' = FALSE
    /\ SettlePending(FALSE)
    /\ LET rest == timers \ (RunTimers \cup StopTimers)
       IN  IF stopping
           THEN timers' = rest /\ UNCHANGED <<status, restartCount>>
           ELSE IF restartCount = 0
           THEN timers' = rest \cup {"restart"} /\ status' = "restarting" /\ restartCount' = 1
           ELSE timers' = rest /\ status' = "crashLoop" /\ UNCHANGED restartCount
    /\ stopState' = CASE stopState = "waiting" -> "exited"
                      [] stopState = "forced" -> "exitedForced"
                      [] OTHER -> stopState
    /\ UNCHANGED <<toEngine, toMain, gen, stopping, protocolFailed, condemned>>

\* A message of a child that is no longer held is ignored.
StaleMessage(g) ==
    /\ g # proc /\ toMain[g] # <<>>
    /\ toMain' = [toMain EXCEPT ![g] = Tail(@)]
    /\ UNCHANGED <<os, toEngine, supervisorVars>>

HandleInvalid == Handle("invalid") /\ FailProtocol

\* #handleReady.
HandleReady ==
    /\ Handle("ready")
    /\ \/ /\ status # "starting"
          /\ FailProtocol
       \/ /\ status = "starting"
          /\ status' = "ready"
          /\ timers' = (timers \ {"startup"}) \cup ArmedOnReady
          /\ UNCHANGED <<os, proc, gen, spawnDue, restartCount, stopping,
                         protocolFailed, pendingPing, shutdownSent, pending,
                         retired, outcome, stopState, condemned>>

\* A pong answers the pending ping or breaks the protocol.  The heartbeat
\* interval outlasts the timeout, so at most one ping is unanswered and the
\* request id is the flag pendingPing.
HandlePong ==
    /\ Handle("pong")
    /\ \/ ~pendingPing /\ FailProtocol
       \/ /\ pendingPing
          /\ pendingPing' = FALSE
          /\ timers' = timers \ {"heartbeatTimeout"}
          /\ UNCHANGED <<os, proc, gen, spawnDue, status, restartCount, stopping,
                         protocolFailed, shutdownSent, pending, retired, outcome,
                         stopState, condemned>>

\* An event reaches the application only from a ready engine that is not
\* being stopped.
HandleEvent ==
    /\ Handle("event")
    /\ \/ ~stopping /\ status # "ready" /\ FailProtocol
       \/ (stopping \/ status = "ready") /\ UNCHANGED <<os, supervisorVars>>

HandleStopped ==
    /\ Handle("stopped")
    /\ \/ ~(stopping /\ shutdownSent) /\ FailProtocol
       \/ stopping /\ shutdownSent /\ UNCHANGED <<os, supervisorVars>>

\* The child reports that it failed the handshake or a ping.
FailureExpected(what) ==
    \/ what = "handshake" /\ status = "starting"
    \/ what = "ping" /\ pendingPing

HandleFailed ==
    /\ Handle("failed")
    /\ \/ ~FailureExpected(Head(toMain[proc]).of) /\ FailProtocol
       \/ /\ FailureExpected(Head(toMain[proc]).of)
          /\ Terminate
          /\ SettlePending(TRUE)
          /\ UNCHANGED <<proc, gen, spawnDue, status, restartCount, stopping,
                         protocolFailed, shutdownSent, stopState>>

\* What is done with the result of a command that is no longer pending.
\* Mutant: its caller is answered once more.
AnswerLate(r, code) == r \in retired /\ Answer(r, code)

DropLate(r, code) == r \in retired /\ UNCHANGED outcome

\* #handleOperationResult: the pending command is answered, the one late
\* result of a retired command is dropped, anything else breaks the protocol.
HandleResult ==
    /\ Handle("result")
    /\ LET r == Head(toMain[proc]).req
           code == Head(toMain[proc]).code
       IN  \/ /\ r \in pending /\ status = "ready"
              /\ pending' = pending \ {r}
              /\ Answer(r, code)
              /\ UNCHANGED <<os, proc, gen, spawnDue, status, restartCount,
                             stopping, protocolFailed, pendingPing, shutdownSent,
                             timers, retired, stopState, condemned>>
           \/ /\ r \notin pending /\ DropLate(r, code)
              /\ retired' = retired \ {r}
              /\ UNCHANGED <<os, proc, gen, spawnDue, status, restartCount,
                             stopping, protocolFailed, pendingPing, shutdownSent,
                             timers, pending, stopState, condemned>>
           \/ /\ IF r \in pending THEN status # "ready" ELSE r \notin retired
              /\ FailProtocol

------------------------------------------------------------------------------
(* Timers.                                                                   *)

\* Mutant: the id of a command that timed out is forgotten.
OperationTimeoutForgets(r) ==
    /\ r \in pending
    /\ pending' = pending \ {r}
    /\ Answer(r, "TIMEOUT")
    /\ UNCHANGED <<channelVars, proc, gen, spawnDue, status, restartCount,
                   stopping, protocolFailed, pendingPing, shutdownSent, timers,
                   retired, stopState, condemned>>

\* A command's own timer: its caller is told and its id is retired.
OperationTimeout(r) ==
    /\ r \in pending
    /\ pending' = pending \ {r}
    /\ retired' \in Remembered({r})
    /\ Answer(r, "TIMEOUT")
    /\ UNCHANGED <<channelVars, proc, gen, spawnDue, status, restartCount,
                   stopping, protocolFailed, pendingPing, shutdownSent, timers,
                   stopState,
                   condemned>>

StartupTimer ==
    /\ "startup" \in timers
    /\ proc # NoProc
    /\ Terminate
    /\ UNCHANGED <<toEngine, toMain, proc, gen, spawnDue, status, restartCount,
                   stopping, protocolFailed, shutdownSent, pending, retired,
                   outcome, stopState>>

\* The interval fires 15 s after ready: later than a ping's 3 s timeout, and
\* later than both 5 s timers of a stop() that came before ready.
HeartbeatTimer ==
    /\ "heartbeat" \in timers
    /\ proc # NoProc
    /\ timers \cap ({"heartbeatTimeout"} \cup StopTimers) = {}
    /\ \E posted \in PostOutcomes :
          IF posted
          THEN /\ toEngine' = Posted(proc, Control("ping"))
               /\ pendingPing' = TRUE
               /\ timers' = timers \cup {"heartbeatTimeout"}
               /\ UNCHANGED <<os, condemned>>
          ELSE Terminate /\ UNCHANGED toEngine
    /\ UNCHANGED <<toMain, proc, gen, spawnDue, status, restartCount, stopping,
                   protocolFailed, shutdownSent, pending, retired, outcome,
                   stopState>>

HeartbeatTimeout ==
    /\ "heartbeatTimeout" \in timers
    /\ pendingPing
    /\ Terminate
    /\ UNCHANGED <<toEngine, toMain, proc, gen, spawnDue, status, restartCount,
                   stopping, protocolFailed, shutdownSent, pending, retired,
                   outcome, stopState>>

\* Five minutes of readiness earn a new automatic restart.
StableTimer ==
    /\ "stable" \in timers
    /\ timers' = timers \ {"stable"}
    /\ restartCount' = IF status = "ready" THEN 0 ELSE restartCount
    /\ UNCHANGED <<channelVars, proc, gen, spawnDue, status, stopping,
                   protocolFailed, pendingPing, shutdownSent, pending, retired,
                   outcome, stopState,
                   condemned>>

\* Mutant: the restart is counted when it is scheduled and when it happens.
RestartTimerCounts ==
    /\ "restart" \in timers
    /\ Spawn(restartCount + 1)
    /\ UNCHANGED stopping

RestartTimer ==
    /\ "restart" \in timers
    /\ Spawn(restartCount)
    /\ UNCHANGED stopping

ShutdownTimer ==
    /\ "shutdown" \in timers
    /\ timers' = (timers \ {"shutdown"}) \cup ArmedOnForce
    /\ stopState' = "forced"
    /\ condemned' = TRUE
    /\ Kill
    /\ UNCHANGED <<toEngine, toMain, proc, gen, spawnDue, status, restartCount,
                   stopping, protocolFailed, pendingPing, shutdownSent, pending,
                   retired, outcome>>

ForcedExitTimer ==
    /\ "forcedExit" \in timers
    /\ timers' = timers \ {"forcedExit"}
    /\ stopState' = "timedOut"
    /\ UNCHANGED <<channelVars, proc, gen, spawnDue, status, restartCount,
                   stopping, protocolFailed, pendingPing, shutdownSent, pending,
                   retired, outcome,
                   condemned>>

------------------------------------------------------------------------------
ChildEvent ==
    \/ SpawnEvent \/ FatalErrorEvent \/ ExitEvent
    \/ HandleInvalid \/ HandleReady \/ HandlePong \/ HandleEvent
    \/ HandleStopped \/ HandleFailed \/ HandleResult
    \/ \E g \in Gens : StaleMessage(g)

TimerFires ==
    \/ StartupTimer \/ HeartbeatTimer \/ HeartbeatTimeout \/ StableTimer
    \/ RestartTimer \/ ShutdownTimer \/ ForcedExitTimer
    \/ \E r \in Reqs : OperationTimeout(r)

SupervisorNext ==
    \/ Start \/ Restart \/ Stop
    \/ \E r \in Reqs : RefuseExecute(r) \/ AcceptExecute(r)
    \/ ChildEvent
    \/ TimerFires
==============================================================================
