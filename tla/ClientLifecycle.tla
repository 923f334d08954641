---------------------------- MODULE ClientLifecycle ----------------------------
(* The two long-lived clients of an engine generation (client-lifecycle.ts),   *)
(* the handshake that starts them and the shutdown that ends them after        *)
(* everything else (engine/index.ts startClients, shutdown), up to the exit of *)
(* a process whose client is lost (failEngine).                                *)
EXTENDS Integers, Sequences, FiniteSets

Owners == {"public", "private"}

VARIABLES
    \* @type: Owner -> {"none", "opening", "listening", "lost", "destroyed", "left"}
    clients,
    \* @type: {"new", "starting", "ready", "failed"}
    startState,
    \* @type: Set(Owner); waiters of start that are not settled
    listenWaits,
    \* @type: Owner or {"none", "done"}; the client close is destroying
    closing,
    \* @type: Bool
    clientsReady,
    \* @type: {"no", "asked", "gone"}
    exiting,
    \* @type: Seq(Phase); the phases of shutdown that are over
    shutdownDone,
    \* @type: {"running", "shutting", "shut"}
    engineState,
    \* @type: Set(Owner); history: lost while start still waited for the other
    unheard

lifecycleVars == <<clients, startState, listenWaits, closing, clientsReady,
                   exiting, shutdownDone, engineState, unheard>>

\* The order of the phases; each is waited for before the next.
Phases == <<"runtime", "staging", "media", "dht", "clients">>

LifecycleInit ==
    /\ clients = [o \in Owners |-> "none"]
    /\ startState = "new"
    /\ listenWaits = {}
    /\ closing = "none"
    /\ clientsReady = FALSE
    /\ exiting = "no"
    /\ shutdownDone = << >>
    /\ engineState = "running"
    /\ unheard = {}

LifecycleTypeOK ==
    /\ clients \in
         [Owners -> {"none", "opening", "listening", "lost", "destroyed", "left"}]
    /\ startState \in {"new", "starting", "ready", "failed"}
    /\ listenWaits \subseteq Owners
    /\ closing \in Owners \union {"none", "done"}
    /\ clientsReady \in BOOLEAN
    /\ exiting \in {"no", "asked", "gone"}
    /\ shutdownDone \in Seq({Phases[i] : i \in DOMAIN Phases})
    /\ engineState \in {"running", "shutting", "shut"}
    /\ unheard \subseteq Owners

---------------------------------------------------------------------------------
(* Starting. *)

\* Both clients are created before either is waited for, the public one first;
\* either constructor may throw.
Spawn(fails) ==
    /\ startState = "new"
    /\ closing = "none"
    /\ exiting # "gone" /\ engineState = "running"
    /\ clients' = [o \in Owners |->
                      IF fails \in {o, "public"} THEN "none" ELSE "opening"]
    /\ IF fails # "none"
       THEN /\ startState' = "failed"
            /\ closing' = IF fails = "public" THEN "done" ELSE "public"
            /\ UNCHANGED listenWaits
       ELSE /\ startState' = "starting"
            /\ listenWaits' = Owners
            /\ UNCHANGED closing
    /\ UNCHANGED <<clientsReady, exiting, shutdownDone, engineState, unheard>>

\* The first client to destroy, and the one after it.
FirstToClose == IF clients["public"] = "none" THEN "done" ELSE "public"

\* Mutant: start is ready although close has begun.
ListeningWhileClosing(o) ==
    /\ o \in listenWaits
    /\ clients[o] = "opening"
    /\ clients' = [clients EXCEPT ![o] = "listening"]
    /\ listenWaits' = listenWaits \ {o}
    /\ IF listenWaits' = {} /\ startState = "starting"
       THEN /\ clientsReady' = TRUE
            /\ startState' = "ready"
       ELSE UNCHANGED <<clientsReady, startState>>
    /\ UNCHANGED <<closing, exiting, shutdownDone, engineState, unheard>>

\* A client listens; with the second one start is over, unless close has begun.
Listening(o) ==
    /\ o \in listenWaits
    /\ clients[o] = "opening"
    /\ clients' = [clients EXCEPT ![o] = "listening"]
    /\ listenWaits' = listenWaits \ {o}
    /\ IF listenWaits' = {} /\ startState = "starting"
       THEN /\ clientsReady' = (closing = "none")
            /\ startState' = IF closing = "none" THEN "ready" ELSE "failed"
       ELSE UNCHANGED <<clientsReady, startState>>
    /\ UNCHANGED <<closing, exiting, shutdownDone, engineState, unheard>>

\* A client reports an error or no port, or never listens in time: start fails
\* and closes both.
ListenFails(o, errs) ==
    /\ o \in listenWaits
    /\ startState = "starting"
    /\ errs => clients[o] = "opening"
    /\ clients' = IF errs THEN [clients EXCEPT ![o] = "lost"] ELSE clients
    /\ listenWaits' = listenWaits \ {o}
    /\ startState' = "failed"
    /\ closing' = IF closing = "none" THEN FirstToClose ELSE closing
    /\ UNCHANGED <<clientsReady, exiting, shutdownDone, engineState, unheard>>

---------------------------------------------------------------------------------
(* Losing a client. *)

\* A client errs, or is destroyed by no call of the engine's: once both were
\* ready that ends the process, and before it nobody takes notice.
Lost(o, destroyed) ==
    /\ clients[o] = "listening"
    /\ closing # o
    /\ clients' = [clients EXCEPT ![o] = IF destroyed THEN "destroyed" ELSE "lost"]
    /\ exiting' = IF clientsReady /\ exiting = "no" THEN "asked" ELSE exiting
    /\ unheard' = IF startState = "starting" THEN unheard \union {o} ELSE unheard
    /\ UNCHANGED <<startState, listenWaits, closing, clientsReady,
                   shutdownDone, engineState>>

Exit ==
    /\ exiting = "asked"
    /\ exiting' = "gone"
    /\ clients' = [o \in Owners |-> IF clients[o] = "none" THEN "none" ELSE "destroyed"]
    /\ clientsReady' = FALSE
    /\ listenWaits' = {}
    /\ UNCHANGED <<startState, closing, shutdownDone, engineState, unheard>>

---------------------------------------------------------------------------------
(* Closing. *)

\* A client is destroyed, or could not be within its time: the other follows
\* either way.
Destroy(ok) ==
    /\ closing \in Owners
    /\ clients' = [clients EXCEPT ![closing] = IF ok THEN "destroyed" ELSE "left"]
    /\ closing' = IF closing = "public" /\ clients["private"] # "none"
                  THEN "private" ELSE "done"
    /\ UNCHANGED <<startState, listenWaits, clientsReady, exiting,
                   shutdownDone, engineState, unheard>>

\* The engine is told to shut down, at any time.
BeginShutdown ==
    /\ engineState = "running"
    /\ exiting # "gone"
    /\ engineState' = "shutting"
    /\ UNCHANGED <<clients, startState, listenWaits, closing, clientsReady,
                   exiting, shutdownDone, unheard>>

\* A phase before the last ends.  One that throws ends the others as well,
\* except the first: cleanup goes on after a runtime that failed to close.
PhaseEnds(fails) ==
    LET n == Len(shutdownDone) + 1 IN
    /\ engineState = "shutting"
    /\ exiting # "gone"
    /\ n < Len(Phases)
    /\ fails => Phases[n] = "staging"
    /\ shutdownDone' = Append(shutdownDone, Phases[n])
    /\ engineState' = IF fails THEN "shut" ELSE engineState
    /\ IF n + 1 = Len(Phases)
       THEN /\ clientsReady' = FALSE
            /\ closing' = IF closing = "none" THEN FirstToClose ELSE closing
       ELSE UNCHANGED <<clientsReady, closing>>
    /\ UNCHANGED <<clients, startState, listenWaits, exiting, unheard>>

ShutdownEnds ==
    /\ engineState = "shutting"
    /\ Len(shutdownDone) = Len(Phases) - 1
    /\ closing = "done"
    /\ shutdownDone' = Append(shutdownDone, "clients")
    /\ engineState' = "shut"
    /\ UNCHANGED <<clients, startState, listenWaits, closing, clientsReady,
                   exiting, unheard>>

LifecycleNext ==
    \/ \E fails \in Owners \union {"none"} : Spawn(fails)
    \/ \E fails \in BOOLEAN : PhaseEnds(fails)
    \/ \E o \in Owners, hard \in BOOLEAN : ListenFails(o, hard) \/ Lost(o, hard)
    \/ \E o \in Owners : Listening(o)
    \/ \E ok \in BOOLEAN : Destroy(ok)
    \/ Exit \/ BeginShutdown \/ ShutdownEnds

---------------------------------------------------------------------------------
(* Properties. *)

\* Additions are open only while both clients live: a client lost after both
\* were ready has the process leave, a closing engine takes none, and no start
\* that fails or is overtaken by close opens them
\* (client-lifecycle.ts "Additions stay closed until both clients own a live listener").
\* Only the loss of a client that listened while start still waited for the other
\* goes unnoticed: start is ready without it.
ReadyMeansBoth ==
    clientsReady =>
        /\ closing = "none"
        /\ \/ \A o \in Owners : clients[o] = "listening" \/ o \in unheard
           \/ exiting = "asked"

\* A closed lifecycle leaves no client running that it did not try to destroy,
\* however the start ended (client-lifecycle.ts "the second one is never left
\* running").
NoClientLeftRunning ==
    closing = "done" => \A o \in Owners : clients[o] \in {"none", "destroyed", "left"}

================================================================================
