-------------------------- MODULE ProtocolController --------------------------
(***************************************************************************)
(* engine/protocol-controller.ts and engine/operation-queue.ts: the engine *)
(* side of the link, one controller per generation.  Control messages are  *)
(* handled at once; commands wait in one serial lane.                      *)
(***************************************************************************)
EXTENDS EngineChannel

CONSTANTS
    MaxActive,     \* MAX_ACTIVE_OPERATIONS
    MaxUnread,     \* bound: unread messages up to which the runtime emits events
    FaultyEngine   \* the engine may break its own protocol

ASSUME ControllerAssumption ==
    MaxActive \in Nat /\ MaxUnread \in Nat /\ FaultyEngine \in BOOLEAN

VARIABLES
    phase,         \* #generationId, #initializing, #initialized, #shuttingDown, #exited
    lane,          \* the admitted commands of the queue's one key, in order
    running,       \* the head of the lane is inside the executor
    timedOut,      \* commands of the lane whose deadline has been answered
    runs,          \* how often a command was handed to the executor (ghost)
    misbehaved     \* this engine broke its protocol (ghost)

controllerVars == <<phase, lane, running, timedOut, runs, misbehaved>>

\* "fresh": no message yet; "proving": initialize received; "unproven": the
\* capability check failed; "ready": initialized; "closing": shutting down;
\* "exited": exit() was called; "hung": the event loop no longer turns.
Phases ==
    {"fresh", "proving", "unproven", "ready", "closing", "exited", "hung"}

ControllerTypeOK ==
    /\ phase \in [Gens -> Phases]
    /\ lane \in [Gens -> Seq(Reqs)]
    /\ running \in [Gens -> BOOLEAN]
    /\ timedOut \in [Gens -> SUBSET Reqs]
    /\ runs \in [Reqs -> Nat]
    /\ misbehaved \in [Gens -> BOOLEAN]

ControllerInit ==
    /\ phase = [g \in Gens |-> "fresh"]
    /\ lane = [g \in Gens |-> <<>>]
    /\ running = [g \in Gens |-> FALSE]
    /\ timedOut = [g \in Gens |-> {}]
    /\ runs = [r \in Reqs |-> 0]
    /\ misbehaved = [g \in Gens |-> FALSE]

------------------------------------------------------------------------------
Turns(g) == Live(g) /\ phase[g] \notin {"exited", "hung"}

GoTo(g, p) == phase' = [phase EXCEPT ![g] = p]

\* #receive: one message is taken off the port; anything but initialize is
\* fatal to a controller that knows no generation yet.
Receive(g, type) ==
    /\ Turns(g)
    /\ toEngine[g] # <<>>
    /\ Head(toEngine[g]).type = type
    /\ toEngine' = [toEngine EXCEPT ![g] = Tail(@)]
    /\ UNCHANGED os

ReceiveBeforeInitialize(g) ==
    /\ phase[g] = "fresh"
    /\ \E type \in {"ping", "execute", "shutdown"} : Receive(g, type)
    /\ GoTo(g, "exited")
    /\ UNCHANGED <<toMain, lane, running, timedOut, runs, misbehaved>>

\* #initialize: only the first one starts the capability check.
ReceiveInitialize(g) ==
    /\ Receive(g, "initialize")
    /\ \/ phase[g] = "fresh" /\ GoTo(g, "proving") /\ UNCHANGED toMain
       \/ /\ phase[g] = "unproven"
          /\ GoTo(g, "proving") /\ UNCHANGED toMain
       \/ /\ phase[g] \in {"proving", "ready", "closing"}
          /\ toMain' = Sent(g, Failed("handshake"))
          /\ UNCHANGED phase
    /\ UNCHANGED <<lane, running, timedOut, runs, misbehaved>>

\* proveRuntime() settles; after shutdown began nobody listens to it.
ProveRuntime(g) ==
    /\ Turns(g) /\ phase[g] = "proving"
    /\ \/ GoTo(g, "ready") /\ toMain' = Sent(g, Control("ready"))
       \/ GoTo(g, "unproven") /\ toMain' = Sent(g, Failed("handshake"))
    /\ UNCHANGED <<os, toEngine, lane, running, timedOut, runs, misbehaved>>

\* #ping
ReceivePing(g) ==
    /\ phase[g] # "fresh"
    /\ Receive(g, "ping")
    /\ toMain' = Sent(g, IF phase[g] = "ready" THEN Control("pong") ELSE Failed("ping"))
    /\ UNCHANGED controllerVars

\* #dispatchOperation: refuse, answer a deadline that has already passed, or
\* admit to the lane.
ReceiveExecute(g) ==
    /\ phase[g] # "fresh"
    /\ Receive(g, "execute")
    /\ LET r == Head(toEngine[g]).req
       IN  \/ /\ phase[g] # "ready"
              /\ toMain' = Sent(g, Result(r, "NOT_READY"))
              /\ UNCHANGED lane
           \/ /\ phase[g] = "ready" /\ Len(lane[g]) >= MaxActive
              /\ toMain' = Sent(g, Result(r, "BUSY"))
              /\ UNCHANGED lane
           \/ /\ phase[g] = "ready" /\ Len(lane[g]) < MaxActive
              /\ toMain' = Sent(g, Result(r, "TIMEOUT"))
              /\ UNCHANGED lane
           \/ /\ phase[g] = "ready" /\ Len(lane[g]) < MaxActive
              /\ lane' = [lane EXCEPT ![g] = Append(@, r)]
              /\ UNCHANGED toMain
    /\ UNCHANGED <<phase, running, timedOut, runs, misbehaved>>

\* The head of the lane reaches its turn.  It is handed to the executor unless
\* its deadline passed or the queue closed while it waited.
Begin(g) ==
    /\ Turns(g) /\ lane[g] # <<>> /\ ~running[g]
    /\ LET r == Head(lane[g])
       IN  IF phase[g] = "closing" \/ r \in timedOut[g]
           THEN /\ lane' = [lane EXCEPT ![g] = Tail(@)]
                /\ timedOut' = [timedOut EXCEPT ![g] = @ \ {r}]
                /\ UNCHANGED <<running, runs>>
           ELSE /\ running' = [running EXCEPT ![g] = TRUE]
                /\ runs' = [runs EXCEPT ![r] = @ + 1]
                /\ UNCHANGED <<lane, timedOut>>
    /\ UNCHANGED <<channelVars, phase, misbehaved>>

\* The executor settles.  Its result is posted unless the deadline already
\* answered or shutdown began; a result that is itself too late says TIMEOUT.
Finish(g) ==
    /\ Turns(g) /\ lane[g] # <<>> /\ running[g]
    /\ LET r == Head(lane[g])
       IN  /\ lane' = [lane EXCEPT ![g] = Tail(@)]
           /\ running' = [running EXCEPT ![g] = FALSE]
           /\ timedOut' = [timedOut EXCEPT ![g] = @ \ {r}]
           /\ IF phase[g] = "closing" \/ r \in timedOut[g]
              THEN UNCHANGED toMain
              ELSE \E code \in {"ok", "error", "TIMEOUT"} :
                      toMain' = Sent(g, Result(r, code))
    /\ UNCHANGED <<os, toEngine, phase, runs, misbehaved>>

\* The executor's result does not validate: #fatalExit.
FinishInvalid(g) ==
    /\ FaultyEngine
    /\ Turns(g) /\ lane[g] # <<>> /\ running[g]
    /\ GoTo(g, "exited")
    /\ UNCHANGED <<channelVars, lane, running, timedOut, runs, misbehaved>>

\* A deadline fires: the caller is answered, the command keeps its place in
\* the lane until the executor honours its signal.
Deadline(g, r) ==
    /\ Turns(g)
    /\ \E i \in DOMAIN lane[g] : lane[g][i] = r
    /\ r \notin timedOut[g]
    /\ timedOut' = [timedOut EXCEPT ![g] = @ \cup {r}]
    /\ toMain' = IF phase[g] = "closing" THEN toMain ELSE Sent(g, Result(r, "TIMEOUT"))
    /\ UNCHANGED <<os, toEngine, phase, lane, running, runs, misbehaved>>

\* emit(): the runtime's events, suppressed before ready and after shutdown.
Emit(g) ==
    /\ Turns(g) /\ phase[g] = "ready"
    /\ Len(toMain[g]) < MaxUnread
    /\ toMain' = Sent(g, Control("event"))
    /\ UNCHANGED <<os, toEngine, controllerVars>>

\* #shutdown: the queue closes at once; a second request is ignored.
ReceiveShutdown(g) ==
    /\ phase[g] # "fresh"
    /\ Receive(g, "shutdown")
    /\ GoTo(g, "closing")
    /\ UNCHANGED <<toMain, lane, running, timedOut, runs, misbehaved>>

\* ... and when the lane has drained and the runtime's own shutdown settled the
\* controller says so and exits, or exits fatally.
ShutdownComplete(g) ==
    /\ Turns(g) /\ phase[g] = "closing" /\ lane[g] = <<>>
    /\ GoTo(g, "exited")
    /\ toMain' \in {Sent(g, Control("stopped")), toMain}
    /\ UNCHANGED <<os, toEngine, lane, running, timedOut, runs, misbehaved>>

------------------------------------------------------------------------------
(* The process around the controller (external).                             *)

\* A faulty engine puts any message on the port, among them one that does not
\* validate.  Bound: one such message in a behaviour.
Misbehave(g) ==
    /\ FaultyEngine /\ \A h \in Gens : ~misbehaved[h]
    /\ Turns(g)
    /\ \E m \in ChildMessages : toMain' = Sent(g, m)
    /\ misbehaved' = [misbehaved EXCEPT ![g] = TRUE]
    /\ UNCHANGED <<os, toEngine, phase, lane, running, timedOut, runs>>

\* The event loop stops turning for good.  Bound: not in a faulty engine.
Hang(g) ==
    /\ ~FaultyEngine
    /\ Turns(g)
    /\ GoTo(g, "hung")
    /\ UNCHANGED <<channelVars, lane, running, timedOut, runs, misbehaved>>

\* The process is gone, with what it had not read and any tail of what it had
\* written.
Dies(g) ==
    /\ Live(g)
    /\ os' = [os EXCEPT ![g] = "dead"]
    /\ toEngine' = [toEngine EXCEPT ![g] = <<>>]
    /\ \E n \in 0..Len(toMain[g]) : toMain' = [toMain EXCEPT ![g] = SubSeq(@, 1, n)]
    /\ GoTo(g, "exited")
    /\ lane' = [lane EXCEPT ![g] = <<>>]
    /\ running' = [running EXCEPT ![g] = FALSE]
    /\ timedOut' = [timedOut EXCEPT ![g] = {}]
    /\ UNCHANGED <<runs, misbehaved>>

\* exit() was called or a signal is on its way: this death is certain.
DiesSurely(g) == (phase[g] = "exited" \/ os[g] = "killed") /\ Dies(g)

ControllerNext(g) ==
    \/ ReceiveBeforeInitialize(g) \/ ReceiveInitialize(g) \/ ProveRuntime(g)
    \/ ReceivePing(g) \/ ReceiveExecute(g) \/ ReceiveShutdown(g)
    \/ Begin(g) \/ Finish(g) \/ FinishInvalid(g) \/ Emit(g)
    \/ \E r \in Reqs : Deadline(g, r)
    \/ ShutdownComplete(g)
    \/ Misbehave(g) \/ Hang(g) \/ Dies(g)
==============================================================================
