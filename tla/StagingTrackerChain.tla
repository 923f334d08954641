-------------------------- MODULE StagingTrackerChain --------------------------
(***************************************************************************)
(* The tracker chain of a metadata acquisition (staging-tracker-chain.ts).  *)
(* It tries one endpoint after another, each once, until the acquisition   *)
(* freezes it.  An attempt is an object whose stop() settles, after which  *)
(* nothing of it is left.  The acquisitions are those of the client pool.  *)
(***************************************************************************)
EXTENDS StagingClientPool

CONSTANT Endpoints   \* acquisition -> how many trackers its magnet names

ASSUME StagingAssumption == Endpoints \in [Acquisitions -> Nat]

VARIABLE chain     \* acquisition -> its chain

\* at: "idle" (not built), "trying" in the races of #runOnce, the awaits of
\* attempt.stop() ("retiring", "ending"), "stopped" after the first, and "done".
\* endpoint counts from 1; admitting is whether the attempt still takes peers;
\* ready is the chain's promise.
Chains == [at : {"idle", "trying", "retiring", "ending", "stopped", "done"},
           endpoint : Nat, admitting : BOOLEAN, closed : BOOLEAN,
           ready : {"pending", "ok", "rejected"}]

NoChain == [at |-> "idle", endpoint |-> 0, admitting |-> FALSE, closed |-> FALSE,
            ready |-> "pending"]

ChainTypeOK ==
    /\ chain \in [Acquisitions -> Chains]
    /\ \A a \in Acquisitions : chain[a].endpoint <= Endpoints[a]

ChainInit == chain = [a \in Acquisitions |-> NoChain]

\* createAttempt and attempt.start().
Attempt(c, e) == [c EXCEPT !.at = "trying", !.endpoint = e, !.admitting = TRUE]

\* start(); a magnet without trackers has no chain.
Started(a) == IF Endpoints[a] = 0 THEN chain[a] ELSE Attempt(chain[a], 1)

Settle(c, result) == IF c.ready = "pending" THEN [c EXCEPT !.ready = result] ELSE c

\* freeze(): synchronous, and startup counts as complete from here on.
Frozen(c) == [Settle(c, "ok") EXCEPT !.closed = TRUE, !.admitting = FALSE]

\* The endpoint has completed its started announce.
Activated(a) ==
    /\ chain[a].at = "trying" /\ ~chain[a].closed
    /\ chain' = [chain EXCEPT ![a] = Settle(@, "ok")]

\* The endpoint has failed: freeze it and await its stop().
EndpointFailed(a) ==
    /\ chain[a].at = "trying" /\ ~chain[a].closed
    /\ chain' = [chain EXCEPT ![a].at = "retiring", ![a].admitting = FALSE]

\* The race is won by the freeze: the finally block stops the attempt.
ClosedSeen(a) ==
    /\ chain[a].at = "trying" /\ chain[a].closed
    /\ chain' = [chain EXCEPT ![a].at = "ending", ![a].admitting = FALSE]

\* Mutant: the next attempt does not look for the freeze.
MovesOnFrozen(a) == chain[a].endpoint < Endpoints[a]

MovesOn(a) == ~chain[a].closed /\ chain[a].endpoint < Endpoints[a]

\* attempt.stop() has settled.
AttemptStopped(a) ==
    \/ chain[a].at = "retiring" /\ chain' = [chain EXCEPT ![a].at = "stopped"]
    \/ chain[a].at = "ending" /\ chain' = [chain EXCEPT ![a].at = "done"]

\* The next endpoint, or the end of the chain, which rejects ready when no endpoint
\* was ever active.
Continues(a) ==
    /\ chain[a].at = "stopped"
    /\ chain' = [chain EXCEPT ![a] =
         IF MovesOn(a) THEN Attempt(@, @.endpoint + 1)
         ELSE [(IF @.closed THEN @ ELSE Settle(@, "rejected")) EXCEPT !.at = "done"]]

\* An attempt's sockets, peers and signaling exist until its stop() has settled.
Held(a) == IF chain[a].at \in {"idle", "stopped", "done"} THEN {} ELSE {chain[a].endpoint}

===============================================================================
