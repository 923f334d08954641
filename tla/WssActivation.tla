----------------------------- MODULE WssActivation -----------------------------
(* One torrent's WebSocket trackers (wss-activation.ts), their endpoints        *)
(* (wss-tracker.ts) and the engine's sockets (wss-socket.ts).  Each url is      *)
(* opened once; several loops that fill free places may run side by side, each  *)
(* waiting for the url it is opening.                                           *)
EXTENDS Integers, SequencesExt

CONSTANTS Urls, Candidates, TierOf,
          MaxLiveEndpoints, MaxLivePerTier, MaxSockets,
          WssPrivate, SerialRetirement

ASSUME WssAssumption ==
    /\ Candidates \in Seq(Urls) /\ IsInjective(Candidates) /\ ToSet(Candidates) = Urls
    /\ TierOf \in [Urls -> Nat]
    /\ {MaxLiveEndpoints, MaxLivePerTier, MaxSockets} \subseteq Nat \ {0}
    /\ {WssPrivate, SerialRetirement} \subseteq BOOLEAN

VARIABLES
    \* @type: {"new", "on", "off"}
    wss,
    \* @type: Set(Url); opened once, never again
    attempted,
    \* @type: Set(Url)
    wssLive,
    \* @type: Url -> WssStage
    socketOf,
    \* @type: Set(Url); opens that a loop waits for
    opening,
    \* @type: Set(Url)
    wssContacted,
    \* @type: Set(Url)
    wssTold

wssVars == <<wss, attempted, wssLive, socketOf, opening, wssContacted, wssTold>>

\* The socket of a url: being approved, upgrading, making offers for its
\* announce, waiting for the answer, waiting for its interval; making offers for
\* nobody; closing within its grace, and before a replacement; gone.
WssStage == {"none", "approving", "connecting", "offering", "announcing", "idle",
             "orphan", "closing", "retiring", "gone"}

WssInit ==
    /\ wss = "new"
    /\ attempted = {} /\ wssLive = {} /\ opening = {}
    /\ socketOf = [u \in Urls |-> "none"]
    /\ wssContacted = {} /\ wssTold = {}

WssTypeOK ==
    /\ wss \in {"new", "on", "off"}
    /\ UNION {attempted, wssLive, opening, wssContacted, wssTold} \subseteq Urls
    /\ socketOf \in [Urls -> WssStage]

---------------------------------------------------------------------------------
(* Filling free places. *)

LiveLimit == IF WssPrivate THEN 1 ELSE MaxLiveEndpoints

InTier(t, live) == {u \in live : TierOf[u] = t}

\* #nextCandidate(): the untried urls of tiers with a free place, if any place
\* is free.
Eligible(live, tried) ==
    IF wss # "on" \/ Cardinality(live) >= LiveLimit THEN {}
    ELSE {u \in Urls \ tried :
            Cardinality(InTier(TierOf[u], live)) < MaxLivePerTier}

FirstOf(us) == Candidates[CHOOSE i \in DOMAIN Candidates :
                   /\ Candidates[i] \in us
                   /\ \A j \in 1..(i - 1) : Candidates[j] \notin us]

\* WssSocketFactory: what holds one of the engine's sockets.
Sockets(sockets) == {u \in Urls : sockets[u] \notin {"none", "gone"}}

\* #fill() until it waits or finds nothing: with no socket to be had every url
\* that is eligible is tried, fails, and is not tried again.
Fill(live, sockets, waits) ==
    LET us == Eligible(live, attempted) IN
    IF us = {}
    THEN /\ attempted' = attempted
         /\ socketOf' = sockets
         /\ opening' = waits
    ELSE IF Cardinality(Sockets(sockets)) >= MaxSockets
    THEN /\ attempted' = attempted \union us
         /\ socketOf' = sockets
         /\ opening' = waits
    ELSE LET u == FirstOf(us) IN
         /\ attempted' = attempted \union {u}
         /\ socketOf' = [sockets EXCEPT ![u] = "approving"]
         /\ opening' = waits \union {u}

\* start(): the first candidate, if there is one.
StartWss ==
    /\ wss = "new"
    /\ wss' = "on"
    /\ \/ Urls = {} /\ UNCHANGED <<attempted, socketOf, opening>>
       \/ Urls # {} /\ LET u == FirstOf(Urls) IN
             /\ attempted' = {u}
             /\ socketOf' = [socketOf EXCEPT ![u] = "approving"]
             /\ opening' = {u}
    /\ UNCHANGED <<wssLive, wssContacted, wssTold>>

---------------------------------------------------------------------------------
(* Opening an endpoint. *)

\* The address is approved: the endpoint is live while its socket upgrades.  An
\* activation stopped meanwhile ends the socket instead.
Approved(u) ==
    /\ socketOf[u] = "approving"
    /\ IF wss = "on"
       THEN /\ wssLive' = wssLive \union {u}
            /\ socketOf' = [socketOf EXCEPT ![u] = "connecting"]
            /\ UNCHANGED opening
       ELSE /\ socketOf' = [socketOf EXCEPT ![u] = "closing"]
            /\ opening' = opening \ {u}
            /\ UNCHANGED wssLive
    /\ UNCHANGED <<wss, attempted, wssContacted, wssTold>>

\* No address, or no socket: the loop goes on to the next url.
Refused(u) ==
    /\ socketOf[u] = "approving"
    /\ Fill(wssLive, [socketOf EXCEPT ![u] = "gone"], opening \ {u})
    /\ UNCHANGED <<wss, wssLive, wssContacted, wssTold>>

Upgraded(u) ==
    /\ socketOf[u] = "connecting"
    /\ socketOf' = [socketOf EXCEPT ![u] = "offering"]
    /\ UNCHANGED <<wss, attempted, wssLive, opening, wssContacted, wssTold>>

OffersMade(u) ==
    /\ socketOf[u] = "offering"
    /\ socketOf' = [socketOf EXCEPT ![u] = "announcing"]
    /\ UNCHANGED <<wss, attempted, wssLive, opening, wssContacted, wssTold>>

\* The tracker answers; after the first answer the loop that opened the
\* endpoint looks for another.
Answered(u) ==
    /\ socketOf[u] = "announcing"
    /\ wssContacted' = wssContacted \union {u}
    /\ IF u \in opening
       THEN Fill(wssLive, [socketOf EXCEPT ![u] = "idle"], opening \ {u})
       ELSE /\ socketOf' = [socketOf EXCEPT ![u] = "idle"]
            /\ UNCHANGED <<attempted, opening>>
    /\ UNCHANGED <<wss, wssLive, wssTold>>

IntervalPasses(u) ==
    /\ socketOf[u] = "idle"
    /\ socketOf' = [socketOf EXCEPT ![u] = "offering"]
    /\ UNCHANGED <<wss, attempted, wssLive, opening, wssContacted, wssTold>>

---------------------------------------------------------------------------------
(* Losing one. *)

\* #retire(): the endpoint's place is free, and its loop or a new one fills it,
\* after the close where a replacement must wait for it.
Retires(u, sockets, waits) ==
    /\ wssLive' = wssLive \ {u}
    /\ wssTold' = IF u \in wssContacted THEN wssTold \union {u} ELSE wssTold
    /\ IF SerialRetirement /\ sockets[u] # "orphan"
       THEN /\ socketOf' = [sockets EXCEPT ![u] = "retiring"]
            /\ opening' = waits
            /\ UNCHANGED attempted
       ELSE Fill(wssLive \ {u}, sockets, waits)

\* The socket fails, is closed or quarantined, the tracker reports a failure or
\* does not answer in time; a dead socket needs no close.
EndpointFails(u, dead) ==
    /\ u \in wssLive
    /\ socketOf[u] \in {"connecting", "announcing", "idle"}
    /\ Retires(u, [socketOf EXCEPT ![u] =
                     IF dead /\ ~ SerialRetirement THEN "gone" ELSE "closing"],
               opening \ {u})
    /\ UNCHANGED <<wss, wssContacted>>

\* It fails while its offers are made: it is retired at once, and its loop, if
\* one waits, goes on when the offers are there.
FailsWhileOffering(u) ==
    /\ u \in wssLive
    /\ socketOf[u] = "offering"
    /\ Retires(u, [socketOf EXCEPT ![u] = "orphan"], opening)
    /\ UNCHANGED <<wss, wssContacted>>

OrphanEnds(u) ==
    /\ socketOf[u] = "orphan"
    /\ IF u \in opening
       THEN Fill(wssLive, [socketOf EXCEPT ![u] = "gone"], opening \ {u})
       ELSE /\ socketOf' = [socketOf EXCEPT ![u] = "gone"]
            /\ UNCHANGED <<attempted, opening>>
    /\ UNCHANGED <<wss, wssLive, wssContacted, wssTold>>

\* The socket's close is over, or its grace is.
SocketClosed(u) ==
    /\ socketOf[u] \in {"closing", "retiring"}
    /\ IF socketOf[u] = "retiring"
       THEN Fill(wssLive, [socketOf EXCEPT ![u] = "gone"], opening \ {u})
       ELSE /\ socketOf' = [socketOf EXCEPT ![u] = "gone"]
            /\ UNCHANGED <<attempted, opening>>
    /\ UNCHANGED <<wss, wssLive, wssContacted, wssTold>>

\* Mutant: an endpoint that is still being opened is left to its opener.
StopLeavesOpening ==
    /\ wss = "on"
    /\ wss' = "off"
    /\ wssLive' = {}
    /\ wssTold' = wssTold \union (wssLive \intersect wssContacted)
    /\ socketOf' = [u \in Urls |->
           IF u \in wssLive \ opening THEN "closing" ELSE socketOf[u]]
    /\ opening' = {u \in opening : socketOf[u] \in {"approving", "orphan"}}
    /\ UNCHANGED <<attempted, wssContacted>>

\* stop(): every live endpoint is told if it was ever contacted, and closed.
StopWss ==
    /\ wss = "on"
    /\ wss' = "off"
    /\ wssLive' = {}
    /\ wssTold' = wssTold \union (wssLive \intersect wssContacted)
    /\ socketOf' = [u \in Urls |-> IF u \in wssLive THEN "closing" ELSE socketOf[u]]
    /\ opening' = {u \in opening : socketOf[u] \in {"approving", "orphan"}}
    /\ UNCHANGED <<attempted, wssContacted>>

WssNext ==
    \/ StartWss \/ StopWss
    \/ \E u \in Urls :
          \/ Approved(u) \/ Refused(u) \/ Upgraded(u) \/ OffersMade(u) \/ Answered(u)
          \/ IntervalPasses(u) \/ FailsWhileOffering(u) \/ OrphanEnds(u)
          \/ SocketClosed(u) \/ EndpointFails(u, FALSE) \/ EndpointFails(u, TRUE)

---------------------------------------------------------------------------------
(* Properties. *)

\* No free place is forgotten: while a url could still be opened for a tier
\* that has no endpoint, some loop is under way that will look again
\* (wss-activation.ts #fill, "its slot given to the next dormant one").
NoPlaceForgotten ==
    Eligible(wssLive, attempted) # {} =>
        opening # {} \/ \E u \in Urls : socketOf[u] = "retiring"

\* What is live is what has a working socket: an endpoint that is gone, closing
\* or stopped is not live, one that works is, and the engine's sockets are
\* never more than its bound, those closing and those opening included.  (Of a
\* tier there may be more than one: two loops may be opening it at once.)
LiveIsConnected ==
    /\ wssLive = {u \in Urls : socketOf[u] \in
                    {"connecting", "offering", "announcing", "idle"}}
    /\ Cardinality(Sockets(socketOf)) <= MaxSockets

================================================================================
