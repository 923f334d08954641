---------------------------- MODULE WebrtcSignaling ----------------------------
(* The peers that are signaled through WebSocket trackers and not yet handed to *)
(* their torrents (webrtc-signaling.ts), and the engine-wide budget they share. *)
(* A peer is made for one endpoint of one torrent; every wait of it has a time. *)
EXTENDS Integers, FiniteSets

CONSTANTS Signalers,      \* the torrents
          SignalEndpoints, EndpointSignaler,
          SignalPeers,    \* peers that may ever be made
          MaxPendingPerEndpoint, MaxPendingPerTorrent, MaxPendingEngineWide

ASSUME SignalingAssumption ==
    /\ EndpointSignaler \in [SignalEndpoints -> Signalers]
    /\ {MaxPendingPerEndpoint, MaxPendingPerTorrent, MaxPendingEngineWide}
         \subseteq Nat \ {0}

VARIABLES
    \* @type: SignalPeer -> SignalStage
    signaling,
    \* @type: SignalPeer -> Endpoint
    madeFor,
    \* @type: Set(SignalPeer); entries of #pending, by their offer
    pendingSignals,
    \* @type: Nat; PendingSignalingBudget.live
    pendingLive,
    \* @type: Nat; leases taken for a peer that could not be made
    leaked,
    \* @type: Set(Signaler)
    signalingClosed

signalVars == <<signaling, madeFor, pendingSignals, pendingLive, leaked, signalingClosed>>

\* A peer makes its offer, waits for the answer to it, makes its answer, or
\* connects; its lease was released, the peer handed over or destroyed, or
\* destroyed while it made its offer.
SignalStage == {"unmade", "offering", "offered", "answering", "connecting",
                "handed", "destroyed", "ghost"}

SignalInit ==
    /\ signaling = [p \in SignalPeers |-> "unmade"]
    /\ madeFor \in [SignalPeers -> SignalEndpoints]
    /\ pendingSignals = {}
    /\ pendingLive = 0
    /\ leaked = 0
    /\ signalingClosed = {}

SignalTypeOK ==
    /\ signaling \in [SignalPeers -> SignalStage]
    /\ madeFor \in [SignalPeers -> SignalEndpoints]
    /\ pendingSignals \subseteq SignalPeers
    /\ pendingLive \in Nat
    /\ leaked \in Nat
    /\ signalingClosed \subseteq Signalers

Leased == {p \in SignalPeers :
             signaling[p] \in {"offering", "offered", "answering", "connecting"}}

TorrentOf(p) == EndpointSignaler[madeFor[p]]

\* #allowance() for one more peer of an endpoint.
Allows(e) ==
    /\ EndpointSignaler[e] \notin signalingClosed
    /\ Cardinality({p \in Leased : madeFor[p] = e}) < MaxPendingPerEndpoint
    /\ Cardinality({p \in Leased : TorrentOf(p) = EndpointSignaler[e]})
         < MaxPendingPerTorrent
    /\ pendingLive < MaxPendingEngineWide

\* #createOffer(), as often as the allowance says, and acceptOffer() of a remote
\* peer that is not this engine.
MakePeer(p, initiator) ==
    /\ signaling[p] = "unmade"
    /\ Allows(madeFor[p])
    /\ signaling' = [signaling EXCEPT ![p] = IF initiator THEN "offering" ELSE "answering"]
    /\ pendingSignals' = IF initiator THEN pendingSignals ELSE pendingSignals \union {p}
    /\ pendingLive' = pendingLive + 1
    /\ UNCHANGED <<madeFor, leaked, signalingClosed>>

\* createPeer() throws once the lease is taken: no entry remembers the lease, so
\* nobody gives it back.
MakeFails(e) ==
    /\ Allows(e)
    /\ pendingLive' = pendingLive + 1
    /\ leaked' = leaked + 1
    /\ UNCHANGED <<signaling, madeFor, pendingSignals, signalingClosed>>

\* The offer is there: it waits for its answer, even one that was retired with
\* its endpoint while it was made.
OfferMade(p) ==
    /\ signaling[p] \in {"offering", "ghost"}
    /\ signaling' = [signaling EXCEPT ![p] =
                       IF @ = "ghost" THEN "destroyed" ELSE "offered"]
    /\ pendingSignals' = IF TorrentOf(p) \in signalingClosed THEN pendingSignals
                         ELSE pendingSignals \union {p}
    /\ UNCHANGED <<madeFor, pendingLive, leaked, signalingClosed>>

\* acceptAnswer(): the first answer of an offer, or this engine's own answer to
\* a remote one: the peer has one chance to connect.
Signaled(p) ==
    /\ p \in pendingSignals
    /\ pendingSignals' = pendingSignals \ {p}
    /\ signaling' = [signaling EXCEPT ![p] =
                       IF @ \in {"offered", "answering"} THEN "connecting" ELSE @]
    /\ UNCHANGED <<madeFor, pendingLive, leaked, signalingClosed>>

\* #discard(): a deadline, an error, an answer of this engine to itself, or a
\* peer the torrent refuses.
Discard(p) ==
    /\ p \in Leased
    /\ signaling' = [signaling EXCEPT ![p] = "destroyed"]
    /\ pendingSignals' = pendingSignals \ {p}
    /\ pendingLive' = pendingLive - 1
    /\ UNCHANGED <<madeFor, leaked, signalingClosed>>

\* The peer connects and its torrent takes it.
HandOver(p) ==
    /\ signaling[p] = "connecting"
    /\ TorrentOf(p) \notin signalingClosed
    /\ signaling' = [signaling EXCEPT ![p] = "handed"]
    /\ pendingLive' = pendingLive - 1
    /\ UNCHANGED <<madeFor, pendingSignals, leaked, signalingClosed>>

\* Mutant: the peers that are still connecting are not discarded.
DiscardsPending(ps) == ps \intersect pendingSignals

Discards(ps) == ps \intersect Leased

\* close() and retireEndpoint(): the peers of a torrent, or of one endpoint.
RetireSignals(ps) ==
    /\ signaling' = [p \in SignalPeers |->
           IF p \notin Discards(ps) THEN signaling[p]
           ELSE IF signaling[p] = "offering" THEN "ghost" ELSE "destroyed"]
    /\ pendingSignals' = pendingSignals \ ps
    /\ pendingLive' = pendingLive - Cardinality(Discards(ps))
    /\ UNCHANGED <<madeFor, leaked>>

CloseSignaling(t) ==
    /\ t \notin signalingClosed
    /\ RetireSignals({p \in SignalPeers : TorrentOf(p) = t})
    /\ signalingClosed' = signalingClosed \union {t}

RetireSignalEndpoint(e) ==
    /\ RetireSignals({p \in Leased : madeFor[p] = e})
    /\ UNCHANGED signalingClosed

SignalNext ==
    \/ \E p \in SignalPeers :
          \/ \E initiator \in BOOLEAN : MakePeer(p, initiator)
          \/ OfferMade(p) \/ Signaled(p) \/ Discard(p) \/ HandOver(p)
    \/ \E t \in Signalers : CloseSignaling(t)
    \/ \E e \in SignalEndpoints : RetireSignalEndpoint(e) \/ MakeFails(e)

---------------------------------------------------------------------------------
(* Properties. *)

\* However a peer that was made ends (handed over, timed out, failed, retired or
\* closed, #discard() and #release()), its lease is given back once: the
\* engine-wide budget counts the peers that hold one, and besides them only the
\* leases whose peer could not be made, which stay taken for ever. No endpoint,
\* torrent or engine has more peers than it may.
LeasesCounted ==
    /\ pendingLive = Cardinality(Leased) + leaked
    /\ pendingLive <= MaxPendingEngineWide
    /\ \A t \in Signalers :
         Cardinality({p \in Leased : TorrentOf(p) = t}) <= MaxPendingPerTorrent
    /\ \A e \in SignalEndpoints :
         Cardinality({p \in Leased : madeFor[p] = e}) <= MaxPendingPerEndpoint

\* A closed torrent keeps no peer that could still be handed to it.
NothingAfterClose ==
    \A p \in Leased : TorrentOf(p) \notin signalingClosed

================================================================================
