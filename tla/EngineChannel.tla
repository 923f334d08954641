---------------------------- MODULE EngineChannel ----------------------------
(***************************************************************************)
(* The boundary between the main process and the engine's utility process: *)
(* the operating-system process of every engine generation and the two     *)
(* message queues of its port.  The wire envelope's sequence numbers and   *)
(* generation identifiers hold by construction here: a port is first in,   *)
(* first out, and a child sends on its own port only.                      *)
(***************************************************************************)
EXTENDS Naturals, Sequences, FiniteSets

CONSTANTS
    Reqs,          \* the commands that may be executed, numbered in call order
    MaxGen,        \* bound: engine generations ever forked
    KillMayFail,   \* utilityProcess.kill() may report that it did nothing
    PostMayFail    \* utilityProcess.postMessage() may throw

ASSUME ReqsAssumption == Reqs \subseteq Nat /\ IsFiniteSet(Reqs)
ASSUME MaxGenAssumption == MaxGen \in Nat /\ MaxGen >= 2
ASSUME BoundaryAssumption == KillMayFail \in BOOLEAN /\ PostMayFail \in BOOLEAN

VARIABLES
    os,            \* what the operating system knows of each generation
    toEngine,      \* messages posted to a generation and not yet received
    toMain         \* messages a generation posted and main has not yet handled

channelVars == <<os, toEngine, toMain>>

Gens == 1..MaxGen

\* "killed" has been signalled and has not died yet; "dead" has died and its
\* 'exit' event is still to be delivered; "gone" is dead and reported.
OsStates == {"none", "up", "killed", "dead", "gone"}
Live(g) == os[g] \in {"up", "killed"}

ResultCodes == {"ok", "error", "TIMEOUT", "NOT_READY", "BUSY"}

ParentMessages ==
    [type : {"initialize", "ping", "shutdown"}] \cup
    [type : {"execute"}, req : Reqs]

ChildMessages ==
    [type : {"ready", "pong", "event", "stopped", "invalid"}] \cup
    [type : {"failed"}, of : {"handshake", "ping"}] \cup
    [type : {"result"}, req : Reqs, code : ResultCodes]

Control(t) == [type |-> t]
Execute(r) == [type |-> "execute", req |-> r]
Failed(what) == [type |-> "failed", of |-> what]
Result(r, c) == [type |-> "result", req |-> r, code |-> c]

ChannelTypeOK ==
    /\ os \in [Gens -> OsStates]
    /\ toEngine \in [Gens -> Seq(ParentMessages)]
    /\ toMain \in [Gens -> Seq(ChildMessages)]

ChannelInit ==
    /\ os = [g \in Gens |-> "none"]
    /\ toEngine = [g \in Gens |-> <<>>]
    /\ toMain = [g \in Gens |-> <<>>]

KillOutcomes == IF KillMayFail THEN BOOLEAN ELSE {TRUE}
PostOutcomes == IF PostMayFail THEN BOOLEAN ELSE {TRUE}

\* A process that has already died takes no signal.
Signalled(g, accepted) ==
    IF accepted /\ os[g] = "up" THEN [os EXCEPT ![g] = "killed"] ELSE os

\* A message posted to a process that is no longer there is lost.
Posted(g, m) ==
    IF Live(g) THEN [toEngine EXCEPT ![g] = Append(@, m)] ELSE toEngine

\* The engine's messages, in the order in which it posts them.
Sent(g, m) == [toMain EXCEPT ![g] = Append(@, m)]
==============================================================================
