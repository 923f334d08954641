--------------------------- MODULE EngineServicesProofs ---------------------------
(* What the engine's services promise, for any instance of them: each service's *)
(* invariant is kept by its own steps, and every step of the composition is one  *)
(* service's and leaves the others as they are.                                  *)
EXTENDS EngineServices, FiniteSetTheorems, SequenceTheorems, TLAPS

USE SignalingAssumption

(* --------------------------------- signaling -------------------------------- *)

LeasedOf(t) == {p \in Leased : TorrentOf(p) = t}

LeasedAt(e) == {p \in Leased : madeFor[p] = e}

SignalInv ==
    /\ SignalTypeOK
    /\ IsFiniteSet(Leased)
    /\ LeasesCounted
    /\ NothingAfterClose

\* With no peer made nothing is leased.
LEMMA SignalStarts == SignalInit => SignalInv
<1> SUFFICES ASSUME SignalInit PROVE SignalInv
  OBVIOUS
<1>1. SignalTypeOK
  BY DEF SignalInit, SignalTypeOK, SignalStage
<1>2. Leased = {}
  BY DEF SignalInit, Leased
<1>3. IsFiniteSet(Leased) /\ Cardinality(Leased) = 0
  BY <1>2, FS_EmptySet
<1>4. \A t \in Signalers : LeasedOf(t) = {}
  BY <1>2 DEF LeasedOf
<1>5. \A e \in SignalEndpoints : LeasedAt(e) = {}
  BY <1>2 DEF LeasedAt
<1>6. \A t \in Signalers : Cardinality(LeasedOf(t)) <= MaxPendingPerTorrent
  BY <1>4, FS_EmptySet
<1>7. \A e \in SignalEndpoints : Cardinality(LeasedAt(e)) <= MaxPendingPerEndpoint
  BY <1>5, FS_EmptySet
<1>8. LeasesCounted
  BY <1>3, <1>6, <1>7 DEF LeasesCounted, LeasedOf, LeasedAt, SignalInit
<1>9. NothingAfterClose
  BY <1>2 DEF NothingAfterClose
<1> QED
  BY <1>1, <1>3, <1>8, <1>9 DEF SignalInv

\* Leases that are given back, as many as the budget is told, leave the count
\* and every bound true.
LEMMA LeasesGivenBack ==
    ASSUME SignalInv, NEW gone \in SUBSET Leased, SignalTypeOK',
           Leased' = Leased \ gone, UNCHANGED <<madeFor, leaked>>,
           pendingLive' = pendingLive - Cardinality(gone),
           \A p \in Leased' : TorrentOf(p) \notin signalingClosed'
    PROVE  SignalInv'
<1>1. /\ IsFiniteSet(Leased) /\ IsFiniteSet(gone)
      /\ Cardinality(gone) \in Nat /\ Cardinality(gone) <= Cardinality(Leased)
      /\ Cardinality(Leased) \in Nat
  BY FS_Subset, FS_CardinalityType DEF SignalInv
<1>2. Leased \cap gone = gone
  OBVIOUS
<1>3. /\ IsFiniteSet(Leased')
      /\ Cardinality(Leased') = Cardinality(Leased) - Cardinality(gone)
  BY <1>1, <1>2, FS_Difference
<1>4. /\ pendingLive = Cardinality(Leased) + leaked /\ leaked \in Nat
      /\ pendingLive <= MaxPendingEngineWide
      /\ \A t \in Signalers : Cardinality(LeasedOf(t)) <= MaxPendingPerTorrent
      /\ \A e \in SignalEndpoints : Cardinality(LeasedAt(e)) <= MaxPendingPerEndpoint
  BY DEF SignalInv, SignalTypeOK, LeasesCounted, LeasedOf, LeasedAt
<1>5. pendingLive' = Cardinality(Leased') + leaked' /\ pendingLive' <= MaxPendingEngineWide
  BY <1>1, <1>3, <1>4
<1>6. ASSUME NEW t \in Signalers
      PROVE  Cardinality(LeasedOf(t)') <= MaxPendingPerTorrent
  <2>1. LeasedOf(t)' \subseteq LeasedOf(t) /\ LeasedOf(t) \subseteq Leased
    BY DEF LeasedOf, TorrentOf
  <2>2. IsFiniteSet(LeasedOf(t))
    BY <1>1, <2>1, FS_Subset
  <2>3. /\ Cardinality(LeasedOf(t)') <= Cardinality(LeasedOf(t))
        /\ Cardinality(LeasedOf(t)') \in Nat /\ Cardinality(LeasedOf(t)) \in Nat
    BY <2>1, <2>2, FS_Subset, FS_CardinalityType
  <2> QED
    BY <2>3, <1>4
<1>7. ASSUME NEW e \in SignalEndpoints
      PROVE  Cardinality(LeasedAt(e)') <= MaxPendingPerEndpoint
  <2>1. LeasedAt(e)' \subseteq LeasedAt(e) /\ LeasedAt(e) \subseteq Leased
    BY DEF LeasedAt
  <2>2. IsFiniteSet(LeasedAt(e))
    BY <1>1, <2>1, FS_Subset
  <2>3. /\ Cardinality(LeasedAt(e)') <= Cardinality(LeasedAt(e))
        /\ Cardinality(LeasedAt(e)') \in Nat /\ Cardinality(LeasedAt(e)) \in Nat
    BY <2>1, <2>2, FS_Subset, FS_CardinalityType
  <2> QED
    BY <2>3, <1>4
<1>8. LeasesCounted'
  BY <1>5, <1>6, <1>7 DEF LeasesCounted, LeasedOf, LeasedAt
<1>9. NothingAfterClose'
  BY DEF NothingAfterClose, TorrentOf
<1> QED
  BY <1>3, <1>8, <1>9 DEF SignalInv

\* The same for one peer.
LEMMA LeaseGivenBack ==
    ASSUME SignalInv, NEW p \in Leased, SignalTypeOK',
           Leased' = Leased \ {p}, UNCHANGED <<madeFor, leaked>>,
           pendingLive' = pendingLive - 1, signalingClosed' = signalingClosed
    PROVE  SignalInv'
<1>1. Cardinality({p}) = 1
  BY FS_Singleton
<1>2. \A q \in Leased' : TorrentOf(q) \notin signalingClosed'
  BY DEF SignalInv, NothingAfterClose
<1> QED
  BY <1>1, <1>2, LeasesGivenBack

\* A step that makes, ends and closes nothing.
LEMMA LeasesStay ==
    ASSUME SignalInv, SignalTypeOK', Leased' = Leased,
           UNCHANGED <<madeFor, pendingLive, leaked, signalingClosed>>
    PROVE  SignalInv'
BY DEF SignalInv, LeasesCounted, NothingAfterClose, TorrentOf

\* One more lease, where the allowance left room for it.
LEMMA LeaseTaken ==
    ASSUME SignalInv, NEW p \in SignalPeers, p \notin Leased, Allows(madeFor[p]),
           SignalTypeOK', Leased' = Leased \cup {p},
           pendingLive' = pendingLive + 1, UNCHANGED <<madeFor, leaked, signalingClosed>>
    PROVE  SignalInv'
<1>1. IsFiniteSet(Leased) /\ Cardinality(Leased) \in Nat
  BY FS_CardinalityType DEF SignalInv
<1>2. IsFiniteSet(Leased') /\ Cardinality(Leased') = Cardinality(Leased) + 1
  BY <1>1, FS_AddElement
<1>3. /\ pendingLive = Cardinality(Leased) + leaked /\ leaked \in Nat
      /\ pendingLive <= MaxPendingEngineWide
      /\ \A t \in Signalers : Cardinality(LeasedOf(t)) <= MaxPendingPerTorrent
      /\ \A e \in SignalEndpoints : Cardinality(LeasedAt(e)) <= MaxPendingPerEndpoint
      /\ madeFor[p] \in SignalEndpoints
  BY DEF SignalInv, LeasesCounted, LeasedOf, LeasedAt, SignalTypeOK
<1>4. /\ TorrentOf(p) \notin signalingClosed
      /\ Cardinality(LeasedAt(madeFor[p])) < MaxPendingPerEndpoint
      /\ Cardinality(LeasedOf(TorrentOf(p))) < MaxPendingPerTorrent
      /\ pendingLive < MaxPendingEngineWide
  BY DEF Allows, TorrentOf, LeasedAt, LeasedOf
<1>5. pendingLive' = Cardinality(Leased') + leaked' /\ pendingLive' <= MaxPendingEngineWide
  BY <1>1, <1>2, <1>3, <1>4
<1>6. ASSUME NEW t \in Signalers
      PROVE  Cardinality(LeasedOf(t)') <= MaxPendingPerTorrent
  <2>1. LeasedOf(t) \subseteq Leased /\ p \notin LeasedOf(t)
    BY DEF LeasedOf
  <2>2. IsFiniteSet(LeasedOf(t)) /\ Cardinality(LeasedOf(t)) \in Nat
    BY <1>1, <2>1, FS_Subset, FS_CardinalityType
  <2>3. CASE TorrentOf(p) = t
    <3>1. LeasedOf(t)' = LeasedOf(t) \cup {p}
      BY <2>3 DEF LeasedOf, TorrentOf
    <3>2. Cardinality(LeasedOf(t)') = Cardinality(LeasedOf(t)) + 1
      BY <3>1, <2>1, <2>2, FS_AddElement
    <3> QED
      BY <3>2, <2>2, <2>3, <1>4
  <2>4. CASE TorrentOf(p) # t
    <3>1. LeasedOf(t)' = LeasedOf(t)
      BY <2>4 DEF LeasedOf, TorrentOf
    <3> QED
      BY <3>1, <1>3
  <2> QED
    BY <2>3, <2>4
<1>7. ASSUME NEW e \in SignalEndpoints
      PROVE  Cardinality(LeasedAt(e)') <= MaxPendingPerEndpoint
  <2>1. LeasedAt(e) \subseteq Leased /\ p \notin LeasedAt(e)
    BY DEF LeasedAt
  <2>2. IsFiniteSet(LeasedAt(e)) /\ Cardinality(LeasedAt(e)) \in Nat
    BY <1>1, <2>1, FS_Subset, FS_CardinalityType
  <2>3. CASE madeFor[p] = e
    <3>1. LeasedAt(e)' = LeasedAt(e) \cup {p}
      BY <2>3 DEF LeasedAt
    <3>2. Cardinality(LeasedAt(e)') = Cardinality(LeasedAt(e)) + 1
      BY <3>1, <2>1, <2>2, FS_AddElement
    <3> QED
      BY <3>2, <2>2, <2>3, <1>4
  <2>4. CASE madeFor[p] # e
    <3>1. LeasedAt(e)' = LeasedAt(e)
      BY <2>4 DEF LeasedAt
    <3> QED
      BY <3>1, <1>3
  <2> QED
    BY <2>3, <2>4
<1>8. LeasesCounted'
  BY <1>5, <1>6, <1>7 DEF LeasesCounted, LeasedOf, LeasedAt
<1>9. NothingAfterClose'
  BY <1>4 DEF NothingAfterClose, SignalInv, TorrentOf
<1> QED
  BY <1>2, <1>8, <1>9 DEF SignalInv

\* Retiring the peers of a torrent or an endpoint gives back what they leased.
LEMMA Retiring ==
    ASSUME SignalInv, NEW ps \in SUBSET SignalPeers, RetireSignals(ps),
           signalingClosed' \in SUBSET Signalers,
           \A p \in Leased \ ps : TorrentOf(p) \notin signalingClosed'
    PROVE  SignalInv'
<1>1. Leased' = Leased \ Discards(ps)
  BY DEF RetireSignals, Discards, Leased, SignalInv, SignalTypeOK
<1>2. IsFiniteSet(Leased) /\ pendingLive = Cardinality(Leased) + leaked /\ leaked \in Nat
  BY DEF SignalInv, SignalTypeOK, LeasesCounted
<1>3. /\ Cardinality(Discards(ps)) \in Nat /\ Cardinality(Leased) \in Nat
      /\ Cardinality(Discards(ps)) <= Cardinality(Leased)
  BY <1>2, FS_Subset, FS_CardinalityType DEF Discards
<1>4. pendingLive' \in Nat
  BY <1>2, <1>3 DEF RetireSignals
<1>5. SignalTypeOK'
  BY <1>4 DEF RetireSignals, SignalInv, SignalTypeOK, SignalStage
<1>6. \A p \in Leased' : TorrentOf(p) \notin signalingClosed'
  BY <1>1 DEF Discards, Leased
<1>7. /\ Discards(ps) \in SUBSET Leased /\ UNCHANGED <<madeFor, leaked>>
      /\ pendingLive' = pendingLive - Cardinality(Discards(ps))
  BY DEF RetireSignals, Discards
<1> QED
  BY <1>1, <1>5, <1>6, <1>7, LeasesGivenBack

\* Every step of the signaling keeps its invariant.
LEMMA SignalSteps == SignalInv /\ [SignalNext]_signalVars => SignalInv'
<1> SUFFICES ASSUME SignalInv, [SignalNext]_signalVars PROVE SignalInv'
  OBVIOUS
<1>0. /\ SignalTypeOK /\ IsFiniteSet(Leased)
      /\ pendingLive = Cardinality(Leased) + leaked /\ leaked \in Nat
  BY DEF SignalInv, SignalTypeOK, LeasesCounted
<1>1. ASSUME NEW p \in SignalPeers, NEW initiator \in BOOLEAN, MakePeer(p, initiator)
      PROVE  SignalInv'
  <2>1. SignalTypeOK'
    BY <1>0, <1>1 DEF MakePeer, SignalTypeOK, SignalStage
  <2>2. p \notin Leased /\ Leased' = Leased \cup {p}
    BY <1>0, <1>1 DEF MakePeer, SignalTypeOK, Leased
  <2> QED
    BY <1>1, <2>1, <2>2, LeaseTaken DEF MakePeer
<1>2. ASSUME NEW p \in SignalPeers, OfferMade(p) PROVE SignalInv'
  <2>1. SignalTypeOK'
    BY <1>0, <1>2 DEF OfferMade, SignalTypeOK, SignalStage
  <2>2. Leased' = Leased
    BY <1>0, <1>2 DEF OfferMade, SignalTypeOK, Leased
  <2> QED
    BY <1>2, <2>1, <2>2, LeasesStay DEF OfferMade
<1>3. ASSUME NEW p \in SignalPeers, Signaled(p) PROVE SignalInv'
  <2>1. SignalTypeOK'
    BY <1>0, <1>3 DEF Signaled, SignalTypeOK, SignalStage
  <2>2. Leased' = Leased
    BY <1>0, <1>3 DEF Signaled, SignalTypeOK, Leased
  <2> QED
    BY <1>3, <2>1, <2>2, LeasesStay DEF Signaled
<1>4. ASSUME NEW p \in SignalPeers, p \in Leased PROVE pendingLive - 1 \in Nat
  <2>1. Cardinality(Leased) \in Nat /\ Cardinality(Leased) # 0
    BY <1>0, <1>4, FS_CardinalityType, FS_EmptySet
  <2> QED
    BY <1>0, <2>1
<1>5. ASSUME NEW p \in SignalPeers, Discard(p) PROVE SignalInv'
  <2>1. SignalTypeOK'
    BY <1>0, <1>4, <1>5 DEF Discard, SignalTypeOK, SignalStage
  <2>2. Leased' = Leased \ {p}
    BY <1>0, <1>5 DEF Discard, SignalTypeOK, Leased
  <2> QED
    BY <1>5, <2>1, <2>2, LeaseGivenBack DEF Discard
<1>6. ASSUME NEW p \in SignalPeers, HandOver(p) PROVE SignalInv'
  <2>1. p \in Leased
    BY <1>6 DEF HandOver, Leased
  <2>2. SignalTypeOK'
    BY <1>0, <1>4, <1>6, <2>1 DEF HandOver, SignalTypeOK, SignalStage
  <2>3. Leased' = Leased \ {p}
    BY <1>0, <1>6 DEF HandOver, SignalTypeOK, Leased
  <2> QED
    BY <1>6, <2>1, <2>2, <2>3, LeaseGivenBack DEF HandOver
<1>7. ASSUME NEW t \in Signalers, CloseSignaling(t) PROVE SignalInv'
  <2> DEFINE ps == {p \in SignalPeers : TorrentOf(p) = t}
  <2>1. RetireSignals(ps) /\ signalingClosed' \in SUBSET Signalers
    BY <1>0, <1>7 DEF CloseSignaling, SignalTypeOK
  <2>2. \A p \in Leased \ ps : TorrentOf(p) \notin signalingClosed'
    BY <1>7 DEF CloseSignaling, SignalInv, NothingAfterClose, Leased
  <2>3. ps \in SUBSET SignalPeers
    OBVIOUS
  <2> HIDE DEF ps
  <2> QED
    BY <2>1, <2>2, <2>3, Retiring
<1>8. ASSUME NEW e \in SignalEndpoints, RetireSignalEndpoint(e) PROVE SignalInv'
  <2> DEFINE ps == {p \in Leased : madeFor[p] = e}
  <2>1. RetireSignals(ps) /\ signalingClosed' \in SUBSET Signalers
    BY <1>0, <1>8 DEF RetireSignalEndpoint, SignalTypeOK
  <2>2. \A p \in Leased \ ps : TorrentOf(p) \notin signalingClosed'
    BY <1>8 DEF RetireSignalEndpoint, SignalInv, NothingAfterClose
  <2>3. ps \in SUBSET SignalPeers
    BY DEF Leased
  <2> HIDE DEF ps
  <2> QED
    BY <2>1, <2>2, <2>3, Retiring
<1>9. ASSUME NEW e \in SignalEndpoints, MakeFails(e) PROVE SignalInv'
  <2>1. SignalTypeOK' /\ Leased' = Leased
    BY <1>0, <1>9, FS_CardinalityType DEF MakeFails, SignalTypeOK, Leased
  <2>2. LeasesCounted'
    <3>1. pendingLive < MaxPendingEngineWide
      BY <1>9 DEF MakeFails, Allows
    <3>2. /\ pendingLive' = Cardinality(Leased') + leaked'
          /\ pendingLive' <= MaxPendingEngineWide
      BY <1>0, <1>9, <2>1, <3>1, FS_CardinalityType DEF MakeFails
    <3>3. madeFor' = madeFor /\ \A p : TorrentOf(p)' = TorrentOf(p)
      BY <1>9 DEF MakeFails, TorrentOf
    <3> QED
      BY <2>1, <3>2, <3>3 DEF SignalInv, LeasesCounted
  <2>3. NothingAfterClose'
    BY <1>9, <2>1 DEF MakeFails, NothingAfterClose, SignalInv, TorrentOf
  <2> QED
    BY <1>0, <2>1, <2>2, <2>3 DEF SignalInv
<1>10. CASE UNCHANGED signalVars
  <2>1. SignalTypeOK' /\ Leased' = Leased
    BY <1>0, <1>10 DEF signalVars, SignalTypeOK, Leased
  <2> QED
    BY <1>10, <2>1, LeasesStay DEF signalVars
<1> QED
  BY <1>1, <1>2, <1>3, <1>5, <1>6, <1>7, <1>8, <1>9, <1>10 DEF SignalNext

(* ---------------------------------- sockets --------------------------------- *)

WssInv ==
    /\ WssTypeOK
    /\ IsFiniteSet(Sockets(socketOf))
    /\ wss = "new" => attempted = {}
    /\ \A u \in Urls \ attempted : socketOf[u] = "none"
    /\ wss = "on" => \A u \in Urls : socketOf[u] = "approving" => u \in opening
    /\ NoPlaceForgotten
    /\ LiveIsConnected

\* The urls whose endpoint works.
Working(sockets) ==
    {u \in Urls : sockets[u] \in {"connecting", "offering", "announcing", "idle"}}

\* Of some of the first numbers one is the least.
LEMMA LeastOfSome ==
    ASSUME NEW n \in Nat, NEW some \in SUBSET (1..n), some # {}
    PROVE  \E i \in some : \A j \in some : i <= j
<1> DEFINE R == StrictSubsetOrdering(1..n)
           Parts == FiniteSubsetsOf(1..n)
           Below == {1..i : i \in some}
<1>1. IsWellFoundedOn(R, Parts)
  BY FS_StrictSubsetOrderingWellFounded
<1>2. Below \subseteq Parts
  <2>1. ASSUME NEW i \in some PROVE IsFiniteSet(1..i) /\ 1..i \subseteq 1..n
    <3>1. i \in Nat /\ i <= n
      OBVIOUS
    <3> QED
      BY <3>1, FS_Interval
  <2> QED
    BY <2>1 DEF FiniteSubsetsOf
<1>3. Below # {}
  OBVIOUS
<1>4. \E b \in Below : \A c \in Below : <<c, b>> \notin R
  <2> HIDE DEF Below, R, Parts
  <2> QED
    BY <1>1, <1>2, <1>3, WFMin
<1>5. PICK i \in some : \A j \in some : <<1..j, 1..i>> \notin R
  BY <1>4
<1>6. ASSUME NEW j \in some, j < i PROVE FALSE
  <2>1. 1..j \subseteq 1..i /\ 1..i \subseteq 1..n /\ 1..j \subseteq 1..n
    BY <1>6
  <2>2. i \in 1..i /\ i \notin 1..j
    BY <1>6
  <2> QED
    BY <2>1, <2>2, <1>5 DEF StrictSubsetOrdering
<1> QED
  BY <1>6

\* The first candidate of some urls is one of them.
LEMMA FirstIsOneOfThem ==
    ASSUME NEW us \in SUBSET Urls, us # {}
    PROVE  FirstOf(us) \in us
<1> DEFINE places == {i \in 1..Len(Candidates) : Candidates[i] \in us}
<1>1. /\ Candidates \in Seq(Urls) /\ ToSet(Candidates) = Urls
      /\ Len(Candidates) \in Nat /\ DOMAIN Candidates = 1..Len(Candidates)
  BY WssAssumption
<1>2. places # {}
  BY <1>1 DEF ToSet
<1>3. PICK i \in places : \A j \in places : i <= j
  <2>1. places \in SUBSET (1..Len(Candidates))
    OBVIOUS
  <2> HIDE DEF places
  <2> QED
    BY <2>1, <1>1, <1>2, LeastOfSome
<1>4. \A j \in 1..(i - 1) : Candidates[j] \notin us
  BY <1>1, <1>3
<1>5. \E k \in DOMAIN Candidates :
         /\ Candidates[k] \in us
         /\ \A j \in 1..(k - 1) : Candidates[j] \notin us
  BY <1>1, <1>4
<1> QED
  BY <1>5 DEF FirstOf

\* A place that is filled, or looked at in vain, is not forgotten.
LEMMA Filling ==
    ASSUME NEW live \in SUBSET Urls, NEW sockets \in [Urls -> WssStage],
           NEW waits \in SUBSET Urls, Fill(live, sockets, waits),
           WssTypeOK, wss # "new", UNCHANGED wss, wssLive' = live,
           wssContacted' \in SUBSET Urls, wssTold' \in SUBSET Urls,
           \A u \in Urls \ attempted : sockets[u] = "none",
           wss = "on" => \A u \in Urls : sockets[u] = "approving" => u \in waits,
           live = Working(sockets), IsFiniteSet(Sockets(sockets)),
           Cardinality(Sockets(sockets)) <= MaxSockets
    PROVE  WssInv'
<1> DEFINE us == Eligible(live, attempted)
           u == FirstOf(us)
<1>1. us \subseteq Urls \ attempted
  BY DEF Eligible
<1>2. Eligible(wssLive, attempted)' = Eligible(live, attempted')
  BY DEF Eligible
<1>3. Eligible(live, attempted \union us) = {}
  BY DEF Eligible
<1>4. MaxSockets \in Nat /\ Cardinality(Sockets(sockets)) \in Nat
  BY WssAssumption, FS_CardinalityType
<1>5. CASE us = {}
  <2>1. attempted' = attempted /\ socketOf' = sockets /\ opening' = waits
    BY <1>5 DEF Fill
  <2>2. NoPlaceForgotten'
    BY <2>1, <1>2, <1>5 DEF NoPlaceForgotten
  <2>3. LiveIsConnected'
    BY <2>1 DEF LiveIsConnected, Working, Sockets
  <2>4. WssTypeOK'
    BY <2>1 DEF WssTypeOK
  <2> QED
    BY <2>1, <2>2, <2>3, <2>4 DEF WssInv, Sockets
<1>6. CASE us # {} /\ Cardinality(Sockets(sockets)) >= MaxSockets
  <2>1. attempted' = attempted \union us /\ socketOf' = sockets /\ opening' = waits
    BY <1>6 DEF Fill
  <2>2. NoPlaceForgotten'
    BY <2>1, <1>2, <1>3 DEF NoPlaceForgotten
  <2>3. LiveIsConnected'
    BY <2>1 DEF LiveIsConnected, Working, Sockets
  <2>4. WssTypeOK'
    BY <2>1, <1>1 DEF WssTypeOK
  <2>5. \A v \in Urls \ attempted' : socketOf'[v] = "none"
    BY <2>1
  <2> QED
    BY <2>1, <2>2, <2>3, <2>4, <2>5 DEF WssInv, Sockets
<1>7. CASE us # {} /\ Cardinality(Sockets(sockets)) < MaxSockets
  <2>1. /\ attempted' = attempted \union {u}
        /\ socketOf' = [sockets EXCEPT ![u] = "approving"]
        /\ opening' = waits \union {u}
    BY <1>4, <1>7 DEF Fill
  <2>2. u \in Urls /\ u \notin attempted /\ sockets[u] = "none"
    BY <1>1, <1>7, FirstIsOneOfThem
  <2> HIDE DEF us, u
  <2>3. NoPlaceForgotten'
    BY <2>1 DEF NoPlaceForgotten
  <2>4. WssTypeOK'
    BY <2>1, <2>2 DEF WssTypeOK, WssStage
  <2>5. Working(socketOf') = Working(sockets)
    BY <2>1, <2>2 DEF Working
  <2>6. Sockets(socketOf)' = Sockets(sockets) \cup {u} /\ u \notin Sockets(sockets)
    BY <2>1, <2>2 DEF Sockets
  <2>7. /\ IsFiniteSet(Sockets(socketOf)')
        /\ Cardinality(Sockets(socketOf)') = Cardinality(Sockets(sockets)) + 1
    BY <2>6, FS_AddElement
  <2>8. Cardinality(Sockets(socketOf)') <= MaxSockets
    BY <2>7, <1>4, <1>7
  <2>9. LiveIsConnected'
    BY <2>5, <2>8 DEF LiveIsConnected, Working
  <2>10. \A v \in Urls \ attempted' : socketOf'[v] = "none"
    BY <2>1, <2>2
  <2>11. \A v \in Urls : wss' = "on" /\ socketOf'[v] = "approving" => v \in opening'
    BY <2>1, <2>2
  <2> QED
    BY <2>3, <2>4, <2>7, <2>9, <2>10, <2>11 DEF WssInv
<1> QED
  BY <1>4, <1>5, <1>6, <1>7

\* A socket that changes its stage takes no new place.
LEMMA OneSocketFewer ==
    ASSUME WssInv, NEW u \in Urls, NEW stage \in WssStage,
           socketOf[u] \notin {"none", "gone"}
    PROVE  LET sockets == [socketOf EXCEPT ![u] = stage]
           IN  /\ sockets \in [Urls -> WssStage]
               /\ IsFiniteSet(Sockets(sockets))
               /\ Cardinality(Sockets(sockets)) <= MaxSockets
               /\ u \in attempted
               /\ \A v \in Urls \ attempted : sockets[v] = "none"
               /\ wss # "new"
<1> DEFINE sockets == [socketOf EXCEPT ![u] = stage]
<1>1. sockets \in [Urls -> WssStage] /\ u \in attempted /\ wss # "new"
  BY DEF WssInv, WssTypeOK
<1>2. Sockets(sockets) \subseteq Sockets(socketOf)
  BY DEF WssInv, WssTypeOK, Sockets
<1>3. /\ IsFiniteSet(Sockets(sockets))
      /\ Cardinality(Sockets(sockets)) <= Cardinality(Sockets(socketOf))
      /\ Cardinality(Sockets(sockets)) \in Nat /\ Cardinality(Sockets(socketOf)) \in Nat
  BY <1>2, FS_Subset, FS_CardinalityType DEF WssInv
<1>4. Cardinality(Sockets(sockets)) <= MaxSockets
  BY <1>3, WssAssumption DEF WssInv, LiveIsConnected
<1>5. \A v \in Urls \ attempted : sockets[v] = "none"
  BY <1>1 DEF WssInv, WssTypeOK
<1> QED
  BY <1>1, <1>3, <1>4, <1>5

\* A socket that goes on from one stage to the next, where none is awaited less
\* and none retires less.
LEMMA GoingOn ==
    ASSUME WssInv, NEW u \in Urls, NEW stage \in WssStage \ {"none", "approving"},
           socketOf[u] \notin {"none", "gone", "retiring"},
           socketOf' = [socketOf EXCEPT ![u] = stage],
           wssLive' = Working(socketOf'),
           wssLive' = wssLive \/ opening' # {} \/ wss # "on",
           wss = "on" => opening' = opening,
           opening' \in SUBSET Urls,
           UNCHANGED <<wss, attempted>>,
           wssContacted' \in SUBSET Urls, wssTold' \in SUBSET Urls
    PROVE  WssInv'
<1>1. /\ socketOf' \in [Urls -> WssStage]
      /\ IsFiniteSet(Sockets(socketOf)') /\ Cardinality(Sockets(socketOf)') <= MaxSockets
      /\ \A v \in Urls \ attempted : socketOf'[v] = "none"
      /\ wss # "new"
  BY OneSocketFewer DEF Sockets
<1>2. WssTypeOK'
  BY <1>1 DEF WssInv, WssTypeOK, Working
<1>3. wss' = "on" => \A v \in Urls : socketOf'[v] = "approving" => v \in opening'
  BY DEF WssInv, WssTypeOK
<1>4. wss # "on" => Eligible(wssLive, attempted)' = {}
  BY DEF Eligible
<1>5. wssLive' = wssLive => Eligible(wssLive, attempted)' = Eligible(wssLive, attempted)
  BY DEF Eligible
<1>6. ASSUME NEW v \in Urls, socketOf[v] = "retiring" PROVE socketOf'[v] = "retiring"
  BY <1>6 DEF WssInv, WssTypeOK
<1>7. NoPlaceForgotten'
  BY <1>4, <1>5, <1>6 DEF NoPlaceForgotten, WssInv
<1>8. LiveIsConnected'
  BY <1>1 DEF LiveIsConnected, Working
<1> QED
  BY <1>1, <1>2, <1>3, <1>7, <1>8 DEF WssInv

\* Every socket is in its place before the activation starts.
LEMMA WssStarts == WssInit => WssInv
<1> SUFFICES ASSUME WssInit PROVE WssInv
  OBVIOUS
<1>1. Sockets(socketOf) = {} /\ Working(socketOf) = {}
  BY DEF WssInit, Sockets, Working
<1>2. IsFiniteSet(Sockets(socketOf)) /\ Cardinality(Sockets(socketOf)) = 0
  BY <1>1, FS_EmptySet
<1>3. WssTypeOK
  BY DEF WssInit, WssTypeOK, WssStage
<1>4. NoPlaceForgotten
  BY DEF WssInit, NoPlaceForgotten, Eligible
<1>5. LiveIsConnected
  BY <1>1, <1>2, WssAssumption DEF WssInit, LiveIsConnected, Working
<1> QED
  BY <1>2, <1>3, <1>4, <1>5 DEF WssInit, WssInv

\* An endpoint that fails frees its place, which is filled then or later.
LEMMA EndpointRetires ==
    ASSUME WssInv, NEW u \in wssLive, UNCHANGED <<wss, wssContacted>>,
           NEW stage \in {"gone", "closing", "orphan"}, NEW waits \in SUBSET Urls,
           opening \ {u} \subseteq waits,
           Retires(u, [socketOf EXCEPT ![u] = stage], waits)
    PROVE  WssInv'
<1> DEFINE sockets == [socketOf EXCEPT ![u] = stage]
<1>0. WssTypeOK /\ wssLive = Working(socketOf) /\ u \in Urls
  BY DEF WssInv, WssTypeOK, LiveIsConnected, Working
<1>1. /\ socketOf[u] \notin {"none", "gone", "retiring", "approving"}
      /\ wssLive \ {u} = Working(sockets)
      /\ wssLive' = wssLive \ {u}
      /\ wssContacted' \in SUBSET Urls /\ wssTold' \in SUBSET Urls
  BY <1>0 DEF Retires, Working, WssTypeOK
<1>2. CASE SerialRetirement /\ stage # "orphan"
  <2>1. /\ socketOf' = [socketOf EXCEPT ![u] = "retiring"]
        /\ opening' = waits /\ attempted' = attempted
    BY <1>0, <1>2 DEF Retires, WssTypeOK
  <2>2. /\ socketOf' \in [Urls -> WssStage]
        /\ IsFiniteSet(Sockets(socketOf)') /\ Cardinality(Sockets(socketOf)') <= MaxSockets
        /\ \A v \in Urls \ attempted : socketOf'[v] = "none"
        /\ wss # "new"
    <3>1. "retiring" \in WssStage
      BY DEF WssStage
    <3>2. Sockets(socketOf)' = Sockets(socketOf')
      BY DEF Sockets
    <3> QED
      BY <1>0, <1>1, <2>1, <3>1, <3>2, OneSocketFewer
  <2>3. socketOf'[u] = "retiring"
    BY <1>0, <2>1 DEF WssTypeOK
  <2>4. NoPlaceForgotten'
    BY <1>0, <2>3 DEF NoPlaceForgotten
  <2>5. wssLive' = Working(socketOf')
    BY <1>0, <1>1, <2>1 DEF Working, WssTypeOK
  <2>6. LiveIsConnected'
    BY <2>2, <2>5 DEF LiveIsConnected, Working
  <2>7. wss' = "on" => \A v \in Urls : socketOf'[v] = "approving" => v \in opening'
    BY <1>0, <1>1, <2>1 DEF WssInv, WssTypeOK
  <2>8. WssTypeOK'
    BY <1>0, <1>1, <2>1, <2>2 DEF WssTypeOK
  <2> QED
    BY <2>1, <2>2, <2>4, <2>6, <2>7, <2>8 DEF WssInv
<1>3. CASE ~ (SerialRetirement /\ stage # "orphan")
  <2>1. Fill(wssLive \ {u}, sockets, waits)
    BY <1>0, <1>3 DEF Retires, WssTypeOK
  <2>2. wss = "on" => \A v \in Urls : sockets[v] = "approving" => v \in waits
    BY <1>0 DEF WssInv, WssTypeOK
  <2>3. /\ sockets \in [Urls -> WssStage]
        /\ IsFiniteSet(Sockets(sockets)) /\ Cardinality(Sockets(sockets)) <= MaxSockets
        /\ \A v \in Urls \ attempted : sockets[v] = "none"
        /\ wss # "new"
    <3>1. stage \in WssStage
      BY DEF WssStage
    <3> QED
      BY <1>0, <1>1, <3>1, OneSocketFewer
  <2>4. wssLive \ {u} \in SUBSET Urls
    BY <1>0 DEF WssTypeOK
  <2> HIDE DEF sockets
  <2> QED
    BY <1>0, <1>1, <2>1, <2>2, <2>3, <2>4, Filling
<1> QED
  BY <1>2, <1>3

\* The loop that waited for a socket goes on once it is done with it.
LEMMA LoopGoesOn ==
    ASSUME WssInv, NEW u \in Urls, NEW stage \in WssStage,
           socketOf[u] \notin {"none", "gone"}, Fill(wssLive,
               [socketOf EXCEPT ![u] = stage], opening \ {u}),
           stage \in {"gone", "idle"},
           Working([socketOf EXCEPT ![u] = stage]) = wssLive,
           UNCHANGED <<wss, wssLive, wssTold>>, wssContacted' \in SUBSET Urls
    PROVE  WssInv'
<1> DEFINE sockets == [socketOf EXCEPT ![u] = stage]
<1>1. /\ WssTypeOK /\ wssLive \in SUBSET Urls /\ opening \ {u} \in SUBSET Urls
      /\ wssTold' \in SUBSET Urls
  BY DEF WssInv, WssTypeOK
<1>2. /\ sockets \in [Urls -> WssStage]
      /\ IsFiniteSet(Sockets(sockets)) /\ Cardinality(Sockets(sockets)) <= MaxSockets
      /\ \A v \in Urls \ attempted : sockets[v] = "none"
      /\ wss # "new"
  BY OneSocketFewer
<1>3. wss = "on" => \A v \in Urls : sockets[v] = "approving" => v \in opening \ {u}
  BY DEF WssInv, WssTypeOK
<1> HIDE DEF sockets
<1> QED
  BY <1>1, <1>2, <1>3, Filling DEF sockets

\* Every step of the sockets keeps their invariant.
LEMMA WssSteps == WssInv /\ [WssNext]_wssVars => WssInv'
<1> SUFFICES ASSUME WssInv, [WssNext]_wssVars PROVE WssInv'
  OBVIOUS
<1>0. WssTypeOK /\ wssLive = Working(socketOf)
  BY DEF WssInv, LiveIsConnected, Working
<1>1. CASE StartWss
  <2>1. /\ wss' = "on" /\ wssLive' = {} /\ \A v \in Urls : socketOf[v] = "none"
        /\ UNCHANGED <<wssContacted, wssTold>>
    BY <1>0, <1>1 DEF StartWss, WssInv, Working
  <2>2. CASE Urls = {}
    <3>1. /\ Sockets(socketOf)' = {} /\ Working(socketOf') = {}
          /\ Eligible(wssLive, attempted)' = {}
      BY <2>2 DEF Sockets, Working, Eligible
    <3>2. UNCHANGED <<attempted, socketOf, opening>>
      BY <1>1, <2>2 DEF StartWss
    <3>3. IsFiniteSet(Sockets(socketOf)') /\ Cardinality(Sockets(socketOf)') = 0
      BY <3>1, FS_EmptySet
    <3>4. LiveIsConnected'
      BY <2>1, <3>1, <3>3, WssAssumption DEF LiveIsConnected, Working
    <3>5. NoPlaceForgotten'
      BY <3>1 DEF NoPlaceForgotten
    <3>6. WssTypeOK'
      BY <1>0, <2>1, <3>2 DEF WssTypeOK
    <3> QED
      BY <2>1, <2>2, <3>3, <3>4, <3>5, <3>6 DEF WssInv
  <2>3. CASE Urls # {}
    <3> DEFINE u == FirstOf(Urls)
    <3>1. u \in Urls
      BY <2>3, FirstIsOneOfThem
    <3>2. /\ attempted' = {u} /\ opening' = {u}
          /\ socketOf' = [socketOf EXCEPT ![u] = "approving"]
      BY <1>1, <2>3 DEF StartWss
    <3> HIDE DEF u
    <3>3. /\ Sockets(socketOf)' = {u} /\ Working(socketOf') = {}
      BY <1>0, <2>1, <3>1, <3>2 DEF Sockets, Working, WssTypeOK
    <3>4. IsFiniteSet(Sockets(socketOf)') /\ Cardinality(Sockets(socketOf)') = 1
      BY <3>3, FS_Singleton
    <3>5. LiveIsConnected'
      BY <2>1, <3>3, <3>4, WssAssumption DEF LiveIsConnected, Working
    <3>6. NoPlaceForgotten'
      BY <3>2 DEF NoPlaceForgotten
    <3>7. WssTypeOK'
      BY <1>0, <2>1, <3>1, <3>2 DEF WssTypeOK, WssStage
    <3>8. \A v \in Urls \ attempted' : socketOf'[v] = "none"
      BY <1>0, <2>1, <3>1, <3>2 DEF WssTypeOK
    <3>9. \A v \in Urls : socketOf'[v] = "approving" => v \in opening'
      BY <1>0, <2>1, <3>1, <3>2 DEF WssTypeOK
    <3> QED
      BY <2>1, <3>4, <3>5, <3>6, <3>7, <3>8, <3>9 DEF WssInv
  <2> QED
    BY <2>2, <2>3
<1>2. ASSUME NEW u \in Urls, Approved(u) PROVE WssInv'
  <2>1. socketOf[u] = "approving"
    BY <1>2 DEF Approved
  <2>2. CASE wss = "on"
    <3>1. /\ socketOf' = [socketOf EXCEPT ![u] = "connecting"]
          /\ wssLive' = wssLive \union {u} /\ u \in opening
          /\ UNCHANGED <<wss, attempted, opening, wssContacted, wssTold>>
      BY <1>2, <2>1, <2>2 DEF Approved, WssInv
    <3>2. wssLive' = Working(socketOf')
      BY <1>0, <3>1 DEF Working, WssTypeOK
    <3> QED
      BY <1>0, <2>1, <3>1, <3>2, GoingOn DEF WssTypeOK, WssStage
  <2>3. CASE wss # "on"
    <3>1. /\ socketOf' = [socketOf EXCEPT ![u] = "closing"]
          /\ opening' = opening \ {u}
          /\ UNCHANGED <<wss, attempted, wssLive, wssContacted, wssTold>>
      BY <1>2, <2>3 DEF Approved
    <3>2. wssLive' = Working(socketOf')
      BY <1>0, <2>1, <3>1 DEF Working, WssTypeOK
    <3> QED
      BY <1>0, <2>1, <2>3, <3>1, <3>2, GoingOn DEF WssTypeOK, WssStage
  <2> QED
    BY <2>2, <2>3
<1>3. ASSUME NEW u \in Urls, Refused(u) PROVE WssInv'
  <2>1. Working([socketOf EXCEPT ![u] = "gone"]) = wssLive
    BY <1>0, <1>3 DEF Refused, Working, WssTypeOK
  <2> QED
    BY <1>0, <1>3, <2>1, LoopGoesOn DEF Refused, WssTypeOK, WssStage
<1>4. ASSUME NEW u \in Urls, Upgraded(u) \/ OffersMade(u) \/ IntervalPasses(u)
      PROVE  WssInv'
  <2>1. PICK stage \in {"offering", "announcing"} :
           /\ socketOf[u] \in {"connecting", "offering", "idle"}
           /\ socketOf' = [socketOf EXCEPT ![u] = stage]
    BY <1>4 DEF Upgraded, OffersMade, IntervalPasses
  <2>2. UNCHANGED <<wss, attempted, wssLive, opening, wssContacted, wssTold>>
    BY <1>4 DEF Upgraded, OffersMade, IntervalPasses
  <2>3. wssLive' = Working(socketOf')
    BY <1>0, <2>1, <2>2 DEF Working, WssTypeOK
  <2> QED
    BY <1>0, <2>1, <2>2, <2>3, GoingOn DEF WssTypeOK, WssStage
<1>5. ASSUME NEW u \in Urls, Answered(u) PROVE WssInv'
  <2>1. /\ socketOf[u] = "announcing" /\ UNCHANGED <<wss, wssLive, wssTold>>
        /\ wssContacted' \in SUBSET Urls
    BY <1>0, <1>5 DEF Answered, WssTypeOK
  <2>2. Working([socketOf EXCEPT ![u] = "idle"]) = wssLive
    BY <1>0, <2>1 DEF Working, WssTypeOK
  <2>3. CASE u \in opening
    BY <1>5, <2>1, <2>2, <2>3, LoopGoesOn DEF Answered, WssStage
  <2>4. CASE u \notin opening
    BY <1>0, <1>5, <2>1, <2>2, <2>4, GoingOn DEF Answered, WssTypeOK, WssStage
  <2> QED
    BY <2>3, <2>4
<1>6. ASSUME NEW u \in Urls, NEW dead \in BOOLEAN, EndpointFails(u, dead)
      PROVE  WssInv'
  <2>1. opening \ {u} \in SUBSET Urls
    BY <1>0 DEF WssTypeOK
  <2> QED
    BY <1>6, <2>1, EndpointRetires DEF EndpointFails
<1>7. ASSUME NEW u \in Urls, FailsWhileOffering(u) PROVE WssInv'
  <2>1. opening \in SUBSET Urls
    BY <1>0 DEF WssTypeOK
  <2> QED
    BY <1>7, <2>1, EndpointRetires DEF FailsWhileOffering
<1>8. ASSUME NEW u \in Urls, OrphanEnds(u) PROVE WssInv'
  <2>1. socketOf[u] = "orphan" /\ UNCHANGED <<wss, wssLive, wssContacted, wssTold>>
    BY <1>8 DEF OrphanEnds
  <2>2. Working([socketOf EXCEPT ![u] = "gone"]) = wssLive
    BY <1>0, <2>1 DEF Working, WssTypeOK
  <2>3. CASE u \in opening
    BY <1>0, <1>8, <2>1, <2>2, <2>3, LoopGoesOn DEF OrphanEnds, WssTypeOK, WssStage
  <2>4. CASE u \notin opening
    BY <1>0, <1>8, <2>1, <2>2, <2>4, GoingOn DEF OrphanEnds, WssTypeOK, WssStage
  <2> QED
    BY <2>3, <2>4
<1>9. ASSUME NEW u \in Urls, SocketClosed(u) PROVE WssInv'
  <2>1. /\ socketOf[u] \in {"closing", "retiring"}
        /\ UNCHANGED <<wss, wssLive, wssContacted, wssTold>>
    BY <1>9 DEF SocketClosed
  <2>2. Working([socketOf EXCEPT ![u] = "gone"]) = wssLive
    BY <1>0, <2>1 DEF Working, WssTypeOK
  <2>3. CASE socketOf[u] = "retiring"
    BY <1>0, <1>9, <2>1, <2>2, <2>3, LoopGoesOn DEF SocketClosed, WssTypeOK, WssStage
  <2>4. CASE socketOf[u] # "retiring"
    BY <1>0, <1>9, <2>1, <2>2, <2>4, GoingOn DEF SocketClosed, WssTypeOK, WssStage
  <2> QED
    BY <2>3, <2>4
<1>10. CASE StopWss
  <2>1. /\ wss' = "off" /\ attempted' = attempted /\ wssLive' = {}
        /\ socketOf' = [u \in Urls |-> IF u \in wssLive THEN "closing" ELSE socketOf[u]]
    BY <1>10 DEF StopWss
  <2>2. WssTypeOK'
    BY <1>0, <1>10 DEF StopWss, WssTypeOK, WssStage
  <2>3. Sockets(socketOf)' \subseteq Sockets(socketOf) /\ Working(socketOf') = {}
    BY <1>0, <2>1 DEF Sockets, Working, WssTypeOK
  <2>4. /\ IsFiniteSet(Sockets(socketOf)')
        /\ Cardinality(Sockets(socketOf)') <= Cardinality(Sockets(socketOf))
        /\ Cardinality(Sockets(socketOf)') \in Nat /\ Cardinality(Sockets(socketOf)) \in Nat
    BY <2>3, FS_Subset, FS_CardinalityType DEF WssInv
  <2>5. Cardinality(Sockets(socketOf)') <= MaxSockets
    BY <2>4, WssAssumption DEF WssInv, LiveIsConnected
  <2>6. LiveIsConnected'
    BY <2>1, <2>3, <2>5 DEF LiveIsConnected, Working
  <2>7. NoPlaceForgotten'
    BY <2>1 DEF NoPlaceForgotten, Eligible
  <2>8. \A v \in Urls \ attempted' : socketOf'[v] = "none"
    BY <1>0, <2>1 DEF WssInv, Working
  <2> QED
    BY <2>1, <2>2, <2>4, <2>6, <2>7, <2>8 DEF WssInv
<1>11. CASE UNCHANGED wssVars
  <2>1. WssTypeOK' /\ Sockets(socketOf)' = Sockets(socketOf)
    BY <1>0, <1>11 DEF wssVars, WssTypeOK, Sockets
  <2>2. NoPlaceForgotten' /\ LiveIsConnected'
    BY <1>11 DEF wssVars, WssInv, NoPlaceForgotten, LiveIsConnected, Eligible, InTier,
                 LiveLimit, Sockets
  <2> QED
    BY <1>11, <2>1, <2>2 DEF wssVars, WssInv
<1> QED
  BY <1>1, <1>2, <1>3, <1>4, <1>5, <1>6, <1>7, <1>8, <1>9, <1>10, <1>11 DEF WssNext

(* -------------------------------- the clients ------------------------------- *)

Ended == {"none", "destroyed", "left"}

LifecycleInv ==
    /\ LifecycleTypeOK
    /\ clients["public"] = "none" => clients["private"] = "none"
    /\ closing = "private" => clients["public"] \in {"destroyed", "left"}
    /\ NoClientLeftRunning
    /\ exiting # "no" => startState = "ready"
    /\ exiting = "gone" => ~ clientsReady
    /\ clientsReady => startState = "ready" /\ closing = "none"
    /\ startState = "ready" => listenWaits = {}
    /\ ReadyMeansBoth
    /\ startState = "starting" /\ closing = "none" =>
          \A o \in Owners \ listenWaits : clients[o] = "listening" \/ o \in unheard

LEMMA LifecycleStarts == LifecycleInit => LifecycleInv
<1> SUFFICES ASSUME LifecycleInit PROVE LifecycleInv
  OBVIOUS
<1>1. LifecycleTypeOK
  <2> DEFINE PhaseNames == {Phases[i] : i \in DOMAIN Phases}
  <2>1. shutdownDone \in Seq(PhaseNames)
    <3> HIDE DEF PhaseNames
    <3> QED
      BY DEF LifecycleInit
  <2>2. /\ clients \in [Owners -> {"none", "opening", "listening", "lost", "destroyed", "left"}]
        /\ listenWaits \subseteq Owners
    BY DEF LifecycleInit
  <2> HIDE DEF PhaseNames
  <2> QED
    BY <2>1, <2>2 DEF LifecycleInit, LifecycleTypeOK, PhaseNames
<1>2. NoClientLeftRunning /\ ReadyMeansBoth
  BY DEF LifecycleInit, NoClientLeftRunning, ReadyMeansBoth
<1> QED
  BY <1>1, <1>2 DEF LifecycleInit, LifecycleInv, Owners

\* The phases of a shutdown.
LEMMA PhasesKnown ==
    /\ Len(Phases) = 5 /\ \A n \in 1..5 : Phases[n] \in {Phases[i] : i \in DOMAIN Phases}
    /\ "clients" \in {Phases[i] : i \in DOMAIN Phases}
BY DEF Phases

\* Every step of the clients keeps their invariant.
LEMMA LifecycleSteps == LifecycleInv /\ [LifecycleNext]_lifecycleVars => LifecycleInv'
<1> SUFFICES ASSUME LifecycleInv, [LifecycleNext]_lifecycleVars PROVE LifecycleInv'
  OBVIOUS
<1> DEFINE PhaseNames == {Phases[i] : i \in DOMAIN Phases}
<1> USE DEF LifecycleInv, NoClientLeftRunning, ReadyMeansBoth, Owners, Ended
<1>0. LifecycleTypeOK /\ shutdownDone \in Seq(PhaseNames)
  BY DEF LifecycleTypeOK
<1> HIDE DEF PhaseNames
<1>1. ASSUME NEW fails \in Owners \union {"none"}, Spawn(fails) PROVE LifecycleInv'
  <2>1. LifecycleTypeOK'
    BY <1>0, <1>1 DEF Spawn, LifecycleTypeOK
  <2> QED
    BY <1>0, <1>1, <2>1 DEF Spawn, LifecycleTypeOK
<1>2. ASSUME NEW o \in Owners, Listening(o) PROVE LifecycleInv'
  <2>1. LifecycleTypeOK'
    BY <1>0, <1>2 DEF Listening, LifecycleTypeOK
  <2> QED
    BY <1>0, <1>2, <2>1 DEF Listening, LifecycleTypeOK
<1>3. ASSUME NEW o \in Owners, NEW errs \in BOOLEAN, ListenFails(o, errs)
      PROVE  LifecycleInv'
  <2>1. LifecycleTypeOK'
    BY <1>0, <1>3 DEF ListenFails, LifecycleTypeOK, FirstToClose
  <2> QED
    BY <1>0, <1>3, <2>1 DEF ListenFails, LifecycleTypeOK, FirstToClose
<1>4. ASSUME NEW o \in Owners, NEW destroyed \in BOOLEAN, Lost(o, destroyed)
      PROVE  LifecycleInv'
  <2>1. LifecycleTypeOK'
    BY <1>0, <1>4 DEF Lost, LifecycleTypeOK
  <2> QED
    BY <1>0, <1>4, <2>1 DEF Lost, LifecycleTypeOK
<1>5. CASE Exit
  <2>1. LifecycleTypeOK'
    BY <1>0, <1>5 DEF Exit, LifecycleTypeOK
  <2> QED
    BY <1>0, <1>5, <2>1 DEF Exit, LifecycleTypeOK
<1>6. ASSUME NEW ok \in BOOLEAN, Destroy(ok) PROVE LifecycleInv'
  <2>1. LifecycleTypeOK'
    BY <1>0, <1>6 DEF Destroy, LifecycleTypeOK
  <2> QED
    BY <1>0, <1>6, <2>1 DEF Destroy, LifecycleTypeOK
<1>7. CASE BeginShutdown
  BY <1>0, <1>7 DEF BeginShutdown, LifecycleTypeOK
<1>8. ASSUME NEW fails \in BOOLEAN, PhaseEnds(fails) PROVE LifecycleInv'
  <2>1. shutdownDone' \in Seq(PhaseNames)
    <3>1. Len(shutdownDone) + 1 \in 1..5 /\ shutdownDone' = Append(shutdownDone, Phases[Len(shutdownDone) + 1])
      BY <1>0, <1>8, PhasesKnown DEF PhaseEnds
    <3>2. Phases[Len(shutdownDone) + 1] \in PhaseNames
      BY <3>1, PhasesKnown DEF PhaseNames
    <3> QED
      BY <1>0, <3>1, <3>2
  <2>2. closing' \in Owners \union {"none", "done"}
    BY <1>0, <1>8 DEF PhaseEnds, LifecycleTypeOK, FirstToClose
  <2>3. LifecycleTypeOK'
    BY <1>0, <1>8, <2>1, <2>2 DEF PhaseEnds, LifecycleTypeOK, PhaseNames
  <2> QED
    BY <1>0, <1>8, <2>3 DEF PhaseEnds, LifecycleTypeOK, FirstToClose
<1>9. CASE ShutdownEnds
  <2>1. shutdownDone' \in Seq(PhaseNames)
    BY <1>0, <1>9, PhasesKnown DEF ShutdownEnds, PhaseNames
  <2>2. LifecycleTypeOK'
    BY <1>0, <1>9, <2>1 DEF ShutdownEnds, LifecycleTypeOK, PhaseNames
  <2> QED
    BY <1>0, <1>9, <2>2 DEF ShutdownEnds
<1>10. CASE UNCHANGED lifecycleVars
  BY <1>0, <1>10 DEF lifecycleVars, LifecycleTypeOK
<1> QED
  BY <1>1, <1>2, <1>3, <1>4, <1>5, <1>6, <1>7, <1>8, <1>9, <1>10 DEF LifecycleNext

(* -------------------------------- the leases -------------------------------- *)

MediaCommands ==
    {NoMediaCmd}
    \cup [kind : {"audio", "leaving"}, t : MediaTorrents]
    \cup [kind : {"subtitles"}, t : MediaTorrents, opened : SUBSET Leases]

MediaInv ==
    /\ MediaTypeOK /\ mediaCmd \in MediaCommands
    /\ IsFiniteSet(Live)
    /\ mediaCmd.kind \in {"audio", "subtitles"} => mediaCmd.t \in playable
    /\ mediaCmd.kind = "leaving" => \A l \in Live : lease[l] # mediaCmd.t
    /\ LeasesOwned

LEMMA MediaStarts == MediaInit => MediaInv
<1> SUFFICES ASSUME MediaInit PROVE MediaInv
  OBVIOUS
<1>1. Live = {}
  BY MediaAssumption DEF MediaInit, Live, Unused
<1>2. IsFiniteSet(Live) /\ Cardinality(Live) = 0
  BY <1>1, FS_EmptySet
<1>3. MediaTypeOK /\ mediaCmd \in MediaCommands
  BY DEF MediaInit, MediaTypeOK, MediaCommands, NoMediaCmd
<1>4. LeasesOwned
  BY <1>1, <1>2, MediaAssumption DEF LeasesOwned
<1> QED
  BY <1>1, <1>2, <1>3, <1>4 DEF MediaInv, MediaInit, NoMediaCmd

\* What an operation finds left over.
LEMMA LeftOverIsOccupied ==
    ASSUME MediaInv
    PROVE  /\ LeftOver \in [Leases -> MediaTorrents \cup {Unused, Revoked}]
           /\ \A l \in Leases : LeftOver[l] \in MediaTorrents => l \in Live /\ LeftOver[l] = lease[l]
           /\ Occupied = {l \in Leases : LeftOver[l] \in MediaTorrents}
BY MediaAssumption DEF MediaInv, MediaTypeOK, LeftOver, Live, Occupied

\* Of leases that end nothing else comes to matter.
LEMMA LeasesEnd ==
    ASSUME MediaInv, MediaTypeOK', mediaCmd' \in MediaCommands,
           \A l \in Live' : l \in Live /\ lease'[l] = lease[l],
           \A l \in Live' : lease[l] \in playable',
           \A l \in Live' : \/ l \in named'
                            \/ mediaCmd'.kind = "subtitles" /\ l \in mediaCmd'.opened,
           mediaCmd'.kind \in {"audio", "subtitles"} => mediaCmd'.t \in playable',
           mediaCmd'.kind = "leaving" => \A l \in Live' : lease'[l] # mediaCmd'.t,
           proxy' = "closed" => Live' = {}
    PROVE  MediaInv'
<1>1. Live' \subseteq Live
  OBVIOUS
<1>2. /\ IsFiniteSet(Live') /\ Cardinality(Live') <= Cardinality(Live)
      /\ Cardinality(Live') \in Nat /\ Cardinality(Live) \in Nat
  BY <1>1, FS_Subset, FS_CardinalityType DEF MediaInv
<1>3. Cardinality(Live') <= MaxLeases
  BY <1>2, MediaAssumption DEF MediaInv, LeasesOwned
<1>4. LeasesOwned'
  BY <1>3 DEF LeasesOwned
<1> QED
  BY <1>2, <1>4 DEF MediaInv

\* A lease that is opened for a torrent the manager has, where there is room.
LEMMA LeaseOpened ==
    ASSUME MediaInv, NEW t \in playable, NEW l \in Leases, Opens(t, l),
           UNCHANGED <<proxy, playable, leaseDue>>, named' \in SUBSET Leases,
           mediaCmd' \in MediaCommands,
           \A k \in Occupied \cup {l} :
              \/ k \in named'
              \/ mediaCmd'.kind = "subtitles" /\ k \in mediaCmd'.opened,
           mediaCmd'.kind \in {"audio", "subtitles"} => mediaCmd'.t \in playable,
           mediaCmd'.kind # "leaving"
    PROVE  MediaInv'
<1>0. MediaTypeOK /\ t \in MediaTorrents
  BY DEF MediaInv, MediaTypeOK
<1>1. /\ lease' = [LeftOver EXCEPT ![l] = t]
      /\ lease' \in [Leases -> MediaTorrents \cup {Unused, Revoked}]
  BY <1>0, LeftOverIsOccupied DEF Opens
<1>2. Live' = Occupied \cup {l} /\ l \notin Occupied
  BY <1>0, <1>1, LeftOverIsOccupied, MediaAssumption DEF Opens, Live, Occupied, Unused
<1>3. /\ IsFiniteSet(Occupied) /\ Cardinality(Occupied) \in Nat
      /\ IsFiniteSet(Live') /\ Cardinality(Live') = Cardinality(Occupied) + 1
  BY <1>2, FS_Subset, FS_AddElement, FS_CardinalityType DEF MediaInv, Occupied
<1>4. Cardinality(Live') <= MaxLeases
  BY <1>3, MediaAssumption DEF Opens, Full
<1>5. \A k \in Live' : lease'[k] \in playable
  BY <1>0, <1>1, <1>2, LeftOverIsOccupied DEF MediaInv, LeasesOwned
<1>6. MediaTypeOK'
  BY <1>0, <1>1 DEF MediaTypeOK, MediaCommands, NoMediaCmd
<1>7. LeasesOwned'
  BY <1>2, <1>4, <1>5 DEF LeasesOwned, Opens
<1> QED
  BY <1>3, <1>6, <1>7 DEF MediaInv

\* The kinds of commands.
LEMMA KindsOfCommands ==
    ASSUME NEW c \in MediaCommands
    PROVE  /\ c.kind \in {"idle", "audio", "leaving", "subtitles"}
           /\ c.kind = "idle" => c = NoMediaCmd
           /\ c.kind \in {"audio", "leaving", "subtitles"} => c.t \in MediaTorrents
           /\ c.kind = "subtitles" => c.opened \in SUBSET Leases
BY DEF MediaCommands, NoMediaCmd

\* Every step of the proxy and of the commands that use it.
LEMMA MediaSteps == MediaInv /\ [MediaNext]_mediaVars => MediaInv'
<1> SUFFICES ASSUME MediaInv, [MediaNext]_mediaVars PROVE MediaInv'
  OBVIOUS
<1>0. /\ MediaTypeOK /\ mediaCmd \in MediaCommands /\ LeasesOwned
      /\ NoMediaCmd \in MediaCommands /\ NoMediaCmd.kind = "idle"
  BY DEF MediaInv, MediaCommands, NoMediaCmd
<1>1. ASSUME NEW t \in MediaTorrents, Loads(t) PROVE MediaInv'
  <2>1. MediaTypeOK' /\ Live' = Live
    BY <1>0, <1>1 DEF Loads, TakesMedia, MediaTypeOK, Live
  <2> QED
    BY <1>0, <1>1, <2>1, LeasesEnd DEF Loads, TakesMedia, LeasesOwned
<1>2. ASSUME NEW t \in MediaTorrents, OpenMedia(t) PROVE MediaInv'
  <2>1. /\ t \in playable /\ mediaCmd' = NoMediaCmd
        /\ mediaCmd.kind \in {"idle", "audio"}
        /\ UNCHANGED <<proxy, playable, leaseDue>>
    BY <1>0, <1>2 DEF OpenMedia, TakesMedia, MediaInv
  <2>2. ASSUME NEW l \in Leases, Opens(t, l), named' = named \cup {l} PROVE MediaInv'
    <3>1. named' \in SUBSET Leases /\ \A k \in Occupied \cup {l} : k \in named'
      BY <1>0, <2>1, <2>2 DEF MediaTypeOK, LeasesOwned, Occupied
    <3> QED
      BY <1>0, <2>1, <2>2, <3>1, LeaseOpened
  <2>3. CASE lease' = LeftOver /\ named' = named
    <3>1. MediaTypeOK'
      BY <1>0, <2>1, <2>3, LeftOverIsOccupied DEF MediaTypeOK
    <3>2. \A l \in Live' : l \in Live /\ lease'[l] = lease[l]
      BY <2>3, LeftOverIsOccupied DEF Live
    <3> QED
      BY <1>0, <2>1, <2>3, <3>1, <3>2, LeasesEnd DEF LeasesOwned
  <2>4. CASE UNCHANGED <<lease, named>>
    <3>1. MediaTypeOK' /\ Live' = Live
      BY <1>0, <2>1, <2>4 DEF MediaTypeOK, Live
    <3> QED
      BY <1>0, <2>1, <2>4, <3>1, LeasesEnd DEF LeasesOwned
  <2> QED
    BY <1>2, <2>2, <2>3, <2>4 DEF OpenMedia
<1>3. ASSUME NEW t \in MediaTorrents, OpenSlowly(t) PROVE MediaInv'
  <2>1. /\ t \in playable /\ mediaCmd = NoMediaCmd
        /\ \/ mediaCmd' = [kind |-> "audio", t |-> t]
           \/ mediaCmd' = [kind |-> "subtitles", t |-> t, opened |-> {}]
        /\ UNCHANGED <<proxy, playable, lease, leaseDue, named>>
    BY <1>3 DEF OpenSlowly, TakesMedia
  <2>2. mediaCmd' \in MediaCommands /\ mediaCmd'.kind \in {"audio", "subtitles"}
        /\ mediaCmd'.t = t
    BY <2>1 DEF MediaCommands
  <2>3. MediaTypeOK' /\ Live' = Live
    BY <1>0, <2>1, <2>2 DEF MediaTypeOK, Live
  <2>4. \A l \in Live : l \in named
    BY <1>0, <2>1 DEF LeasesOwned
  <2> QED
    BY <1>0, <2>1, <2>2, <2>3, <2>4, LeasesEnd DEF LeasesOwned
<1>4. ASSUME NEW l \in Leases, TouchLease(l) PROVE MediaInv'
  <2>1. /\ mediaCmd = NoMediaCmd /\ mediaCmd' = NoMediaCmd
        /\ proxy = "up" /\ UNCHANGED <<proxy, playable, leaseDue, named>>
        /\ \/ lease' = LeftOver
           \/ lease' = IF l \in Live THEN [lease EXCEPT ![l] = Revoked] ELSE lease
    BY <1>4 DEF TouchLease, TakesMedia
  <2>2. MediaTypeOK'
    BY <1>0, <2>1, LeftOverIsOccupied DEF MediaTypeOK
  <2>3. \A k \in Live' : k \in Live /\ lease'[k] = lease[k]
    BY <1>0, <2>1, LeftOverIsOccupied, MediaAssumption DEF Live, MediaTypeOK
  <2> QED
    BY <1>0, <2>1, <2>2, <2>3, LeasesEnd DEF LeasesOwned
<1>5. CASE SubtitleRead
  <2>1. /\ mediaCmd.kind = "subtitles" /\ mediaCmd.t \in playable
        /\ mediaCmd.t \in MediaTorrents /\ mediaCmd.opened \in SUBSET Leases
        /\ UNCHANGED <<proxy, playable, leaseDue>>
    BY <1>0, <1>5, KindsOfCommands DEF SubtitleRead, MediaInv
  <2>2. ASSUME NEW l \in Leases, Opens(mediaCmd.t, l), named' = named,
               mediaCmd' = [mediaCmd EXCEPT !.opened = @ \cup {l}]
        PROVE  MediaInv'
    <3>1. /\ mediaCmd' \in [kind : {"subtitles"}, t : MediaTorrents, opened : SUBSET Leases]
          /\ mediaCmd'.t = mediaCmd.t /\ mediaCmd'.opened = mediaCmd.opened \cup {l}
          /\ mediaCmd'.kind = "subtitles"
      BY <1>0, <2>1, <2>2 DEF MediaCommands, NoMediaCmd
    <3>2. mediaCmd' \in MediaCommands
      BY <3>1 DEF MediaCommands
    <3>3. \A k \in Occupied \cup {l} : k \in named' \/ k \in mediaCmd'.opened
      BY <1>0, <2>2, <3>1 DEF LeasesOwned, Occupied
    <3>4. named' \in SUBSET Leases
      BY <1>0, <2>2 DEF MediaTypeOK
    <3> QED
      BY <2>1, <2>2, <3>1, <3>2, <3>3, <3>4, LeaseOpened
  <2>3. CASE /\ lease' = ClosesOpened(mediaCmd.opened)
             /\ mediaCmd' = NoMediaCmd /\ named' = named
    <3>1. MediaTypeOK'
      BY <1>0, <2>1, <2>3, LeftOverIsOccupied DEF MediaTypeOK, ClosesOpened
    <3>2. \A l \in Live' : l \in Live /\ lease'[l] = lease[l] /\ l \notin mediaCmd.opened
      BY <2>3, LeftOverIsOccupied, MediaAssumption DEF Live, ClosesOpened
    <3> QED
      BY <1>0, <2>1, <2>3, <3>1, <3>2, LeasesEnd DEF LeasesOwned
  <2>4. CASE /\ named' = named \cup mediaCmd.opened
             /\ mediaCmd' = NoMediaCmd /\ lease' = lease
    <3>1. MediaTypeOK' /\ Live' = Live
      BY <1>0, <2>1, <2>4 DEF MediaTypeOK, Live
    <3> QED
      BY <1>0, <2>1, <2>4, <3>1, LeasesEnd DEF LeasesOwned
  <2> QED
    BY <1>5, <2>2, <2>3, <2>4 DEF SubtitleRead
<1>6. CASE Requested
  <2>1. MediaTypeOK'
    BY <1>0, <1>6, LeftOverIsOccupied DEF MediaTypeOK, Requested
  <2>2. \A k \in Live' : k \in Live /\ lease'[k] = lease[k]
    BY <1>6, LeftOverIsOccupied DEF Live, Requested
  <2> QED
    BY <1>0, <1>6, <2>1, <2>2, LeasesEnd DEF Requested, LeasesOwned, MediaInv
<1>7. ASSUME NEW t \in MediaTorrents, Leaves(t) PROVE MediaInv'
  <2>1. /\ mediaCmd = NoMediaCmd /\ mediaCmd' = [kind |-> "leaving", t |-> t]
        /\ lease' = RevokesAll(t) /\ proxy = "up"
        /\ UNCHANGED <<proxy, playable, leaseDue, named>>
    BY <1>7 DEF Leaves, TakesMedia
  <2>2. /\ mediaCmd' \in MediaCommands /\ mediaCmd'.kind = "leaving" /\ mediaCmd'.t = t
    BY <2>1 DEF MediaCommands
  <2>3. MediaTypeOK'
    BY <1>0, <2>1, <2>2 DEF MediaTypeOK, RevokesAll
  <2>4. \A k \in Live' : k \in Live /\ lease'[k] = lease[k] /\ lease'[k] # t
    BY <1>0, <2>1, MediaAssumption DEF Live, RevokesAll, MediaTypeOK
  <2> QED
    BY <1>0, <2>1, <2>2, <2>3, <2>4, LeasesEnd DEF LeasesOwned
<1>8. CASE Left
  <2>1. /\ mediaCmd.kind = "leaving" /\ mediaCmd' = NoMediaCmd
        /\ UNCHANGED <<proxy, lease, leaseDue, named>>
        /\ playable' \in {playable, playable \ {mediaCmd.t}}
    BY <1>8 DEF Left
  <2>2. MediaTypeOK' /\ Live' = Live
    BY <1>0, <2>1 DEF MediaTypeOK, Live
  <2>3. \A l \in Live : lease[l] # mediaCmd.t
    BY <2>1 DEF MediaInv
  <2> QED
    BY <1>0, <2>1, <2>2, <2>3, LeasesEnd DEF LeasesOwned
<1>9. CASE LeaseTimePasses
  <2>1. MediaTypeOK' /\ Live' = Live
    BY <1>0, <1>9 DEF LeaseTimePasses, MediaTypeOK, Live
  <2> QED
    BY <1>0, <1>9, <2>1, LeasesEnd DEF LeaseTimePasses, LeasesOwned, MediaInv
<1>10. CASE ProxyStarts
  <2>1. MediaTypeOK' /\ Live' = Live
    BY <1>0, <1>10 DEF ProxyStarts, MediaTypeOK, Live
  <2> QED
    BY <1>0, <1>10, <2>1, LeasesEnd DEF ProxyStarts, LeasesOwned, MediaInv
<1>11. CASE ProxyShutsDown
  <2>1. MediaTypeOK' /\ Live' = {}
    BY <1>0, <1>11, MediaAssumption DEF ProxyShutsDown, MediaTypeOK, Live
  <2> QED
    BY <1>0, <1>11, <2>1, LeasesEnd DEF ProxyShutsDown
<1>12. CASE UNCHANGED mediaVars
  <2>1. MediaTypeOK' /\ Live' = Live
    BY <1>0, <1>12 DEF mediaVars, MediaTypeOK, Live
  <2> QED
    BY <1>0, <1>12, <2>1, LeasesEnd DEF mediaVars, LeasesOwned, MediaInv
<1> QED
  BY <1>1, <1>2, <1>3, <1>4, <1>5, <1>6, <1>7, <1>8, <1>9, <1>10, <1>11, <1>12 DEF MediaNext

(* ------------------------------- the announces ------------------------------ *)

TrackerInv ==
    /\ TrackerTypeOK
    /\ order \in [Units -> Seq(Endpoints)] /\ activeIndex \in [Units -> Nat]
    /\ AnnouncingGoesOn /\ UntoldForAReason /\ NotAskedWhileRetired
    /\ present \subseteq contacted
    /\ present \intersect stoppedAttempted \subseteq stopLost \union askedAgain
    /\ \A u \in Units : announcing[u] # "no" => Active(u) \in contacted
    /\ activation = "off" =>
          \A u \in Units : ~ unitTimer[u] /\ announcing[u] \in {"no", "rotating"}
    /\ activation # "off" =>
          \A e \in stopping : \E u \in Units : announcing[u] = "rotating" /\ Active(u) = e

\* The elements of a sequence are finitely many.
LEMMA FinitelyManyElements ==
    ASSUME NEW S, NEW s \in Seq(S)
    PROVE  IsFiniteSet(ToSet(s))
<1>1. s \in Surjection(1..Len(s), ToSet(s))
  BY DEF Surjection, ToSet
<1>2. IsFiniteSet(1..Len(s))
  BY FS_Interval
<1> QED
  BY <1>1, <1>2, FS_Surjection

\* Moving an element to the front loses and doubles none.
LEMMA FrontedIsAPermutation ==
    ASSUME NEW S, NEW s \in Seq(S), IsInjective(s), NEW i \in DOMAIN s
    PROVE  /\ Fronted(s, i) \in Seq(S) /\ IsInjective(Fronted(s, i))
           /\ ToSet(Fronted(s, i)) = ToSet(s)
           /\ DOMAIN Fronted(s, i) = DOMAIN s
           /\ 1 \in DOMAIN s /\ Fronted(s, i)[1] = s[i]
<1> DEFINE f == Fronted(s, i)
<1>1. DOMAIN s = 1..Len(s) /\ Len(s) \in Nat /\ 1 \in DOMAIN s
  OBVIOUS
<1>2. DOMAIN f = 1..Len(s) /\ \A j \in 1..Len(s) : f[j] \in S
  BY <1>1 DEF Fronted
<1>3. f \in [1..Len(s) -> S]
  BY <1>1, <1>2 DEF Fronted
<1>4. f \in Seq(S)
  BY <1>1, <1>3
<1>5. ASSUME NEW a \in 1..Len(s), NEW b \in 1..Len(s), f[a] = f[b] PROVE a = b
  <2> DEFINE from(j) == IF j = 1 THEN i ELSE IF j <= i THEN j - 1 ELSE j
  <2>1. from(a) \in 1..Len(s) /\ from(b) \in 1..Len(s)
    BY <1>1
  <2>2. f[a] = s[from(a)] /\ f[b] = s[from(b)]
    BY <1>1 DEF Fronted
  <2>3. from(a) = from(b)
    <3> HIDE DEF from
    <3> QED
      BY <1>1, <1>5, <2>1, <2>2 DEF IsInjective
  <2> QED
    BY <2>3
<1>6. ASSUME NEW j \in 1..Len(s) PROVE \E k \in 1..Len(s) : f[k] = s[j]
  <2> DEFINE k == IF j = i THEN 1 ELSE IF j < i THEN j + 1 ELSE j
  <2>1. k \in 1..Len(s) /\ f[k] = s[j]
    BY <1>1 DEF Fronted
  <2> QED
    BY <2>1
<1>7. ASSUME NEW j \in 1..Len(s) PROVE \E k \in 1..Len(s) : s[k] = f[j]
  <2> DEFINE k == IF j = 1 THEN i ELSE IF j <= i THEN j - 1 ELSE j
  <2>1. k \in 1..Len(s) /\ s[k] = f[j]
    BY <1>1 DEF Fronted
  <2> QED
    BY <2>1
<1>8. ToSet(f) = ToSet(s)
  <2> HIDE DEF f
  <2>1. ToSet(f) \subseteq ToSet(s)
    BY <1>1, <1>2, <1>7 DEF ToSet
  <2>2. ToSet(s) \subseteq ToSet(f)
    BY <1>1, <1>2, <1>6 DEF ToSet
  <2> QED
    BY <2>1, <2>2
<1>9. f[1] = s[i]
  BY <1>1 DEF Fronted
<1> QED
  BY <1>1, <1>2, <1>4, <1>5, <1>8, <1>9 DEF IsInjective

\* An endpoint is one unit's.
LEMMA ActiveIsItsUnits ==
    ASSUME TrackerTypeOK, NEW u \in Units, NEW v \in Units, Active(u) = Active(v)
    PROVE  u = v /\ Active(u) \in Endpoints
<1>1. Active(u) \in ToSet(UnitEndpoints[u]) /\ Active(v) \in ToSet(UnitEndpoints[v])
  BY DEF TrackerTypeOK, Active, ToSet
<1> QED
  BY <1>1, TrackerAssumption DEF Endpoints

LEMMA TrackerStarts == TrackerInit => TrackerInv
<1> SUFFICES ASSUME TrackerInit PROVE TrackerInv
  OBVIOUS
<1>1. ASSUME NEW u \in Units
      PROVE  /\ order[u] \in Seq(Endpoints) /\ IsInjective(order[u])
             /\ ToSet(order[u]) = ToSet(UnitEndpoints[u]) /\ 1 \in DOMAIN order[u]
  <2>1. PICK v \in Units : order[u] \in SetToSeqs(ToSet(UnitEndpoints[v]))
    BY DEF TrackerInit
  <2>2. Cardinality(ToSet(UnitEndpoints[v])) \in Nat
    BY FinitelyManyElements, FS_CardinalityType, TrackerAssumption
  <2>3. ToSet(UnitEndpoints[v]) \subseteq Endpoints
    BY DEF Endpoints
  <2>4. /\ order[u] \in [1..Cardinality(ToSet(UnitEndpoints[v])) -> ToSet(UnitEndpoints[v])]
        /\ IsInjective(order[u])
    BY <2>1 DEF SetToSeqs, IsInjective
  <2> DEFINE c == Cardinality(ToSet(UnitEndpoints[v]))
  <2>5. order[u] \in [1..c -> Endpoints] /\ c \in Nat
    BY <2>2, <2>3, <2>4
  <2> HIDE DEF c
  <2>6. order[u] \in Seq(Endpoints)
    BY <2>5
  <2>7. ToSet(order[u]) = ToSet(UnitEndpoints[u])
    BY DEF TrackerInit
  <2>8. ToSet(UnitEndpoints[u]) # {}
    <3>1. UnitEndpoints[u] \in Seq(Endpoints) /\ UnitEndpoints[u] # << >>
      BY TrackerAssumption
    <3>2. 1 \in DOMAIN UnitEndpoints[u]
      BY <3>1
    <3> QED
      BY <3>2 DEF ToSet
  <2>9. DOMAIN order[u] # {}
    BY <2>7, <2>8 DEF ToSet
  <2>10. 1 \in DOMAIN order[u]
    BY <2>5, <2>9
  <2> QED
    BY <2>4, <2>6, <2>7, <2>10
<1>2. order \in [Units -> Seq(Endpoints)]
  BY <1>1 DEF TrackerInit
<1>3. TrackerTypeOK
  BY <1>1 DEF TrackerInit, TrackerTypeOK
<1>4. AnnouncingGoesOn /\ UntoldForAReason /\ NotAskedWhileRetired
  BY DEF TrackerInit, AnnouncingGoesOn, UntoldForAReason, NotAskedWhileRetired, Announces
<1> QED
  BY <1>2, <1>3, <1>4 DEF TrackerInit, TrackerInv

\* Every step of the announces keeps their invariant.
LEMMA TrackerSteps == TrackerInv /\ [TrackerNext]_trackerVars => TrackerInv'
<1> SUFFICES ASSUME TrackerInv, [TrackerNext]_trackerVars PROVE TrackerInv'
  OBVIOUS
<1>0. /\ TrackerTypeOK
      /\ order \in [Units -> Seq(Endpoints)] /\ activeIndex \in [Units -> Nat]
  BY DEF TrackerInv
<1>a. UNCHANGED <<order, activeIndex>> => \A u \in Units : Active(u)' = Active(u)
  BY DEF Active
<1> USE DEF TrackerInv, AnnouncingGoesOn, UntoldForAReason, NotAskedWhileRetired, Announces
<1>1. CASE StartTracker
  <2>1. TrackerTypeOK'
    BY <1>0, <1>1 DEF StartTracker, TrackerTypeOK, untoldVars
  <2> QED
    BY <1>0, <1>a, <1>1, <2>1 DEF StartTracker, TrackerTypeOK, untoldVars
<1>2. ASSUME NEW u \in Units, Run(u) PROVE TrackerInv'
  <2>1. /\ Active(u) \in Endpoints
        /\ \A v \in Units : Active(v) = Active(u) => v = u
        /\ \A v \in Units : Active(v)' = Active(v)
    BY <1>0, <1>a, <1>2, ActiveIsItsUnits DEF Run
  <2>2. /\ unitTimer[u] /\ activation # "off"
        /\ UNCHANGED <<activation, order, activeIndex, unitClosed, succeeded,
                       pendingCompleted, completedSent, stoppedAttempted, stopping, stopLost>>
    BY <1>2 DEF Run
  <2> DEFINE asks == /\ announcing[u] = "no" /\ InGate < GateSize
                     /\ contacted' = contacted \union {Active(u)}
                     /\ announcing' = [announcing EXCEPT ![u] =
                            IF Active(u) \notin contacted THEN "started"
                            ELSE IF pendingCompleted[u] THEN "completed" ELSE "regular"]
                     /\ unitTimer' = [unitTimer EXCEPT ![u] = FALSE]
                     /\ present' = present \union {Active(u)}
                     /\ askedAgain' = askedAgain \union ({Active(u)} \intersect stoppedAttempted)
             putOff == /\ announcing[u] = "no"
                       /\ contacted' = contacted \union {Active(u)}
                       /\ UNCHANGED <<announcing, unitTimer, present, askedAgain>>
             busy == /\ announcing[u] # "no"
                     /\ unitTimer' = [unitTimer EXCEPT ![u] = FALSE]
                     /\ UNCHANGED <<announcing, contacted, present, askedAgain>>
  <2>6. asks \/ putOff \/ busy
    BY <1>2 DEF Run
  <2>3. CASE asks
    <3>1. PICK as \in {"started", "completed", "regular"} :
             announcing' = [announcing EXCEPT ![u] = as]
      BY <2>3
    <3>2. /\ contacted' = contacted \union {Active(u)} /\ announcing[u] = "no"
          /\ unitTimer' = [unitTimer EXCEPT ![u] = FALSE]
          /\ present' = present \union {Active(u)}
          /\ askedAgain' = askedAgain \union ({Active(u)} \intersect stoppedAttempted)
      BY <2>3
    <3> HIDE DEF asks, putOff, busy
    <3>3. Active(u) \notin stopping
      BY <2>1, <2>2, <3>2
    <3>4. TrackerTypeOK'
      <4>1. announcing' \in [Units -> {"no", "started", "completed", "regular", "rotating"}]
        BY <1>0, <3>1 DEF TrackerTypeOK
      <4>2. unitTimer' \in [Units -> BOOLEAN]
        BY <1>0, <3>2 DEF TrackerTypeOK
      <4>3. UNION {contacted', stoppedAttempted, stopping, present', askedAgain', stopLost}
               \subseteq Endpoints
        BY <1>0, <2>1, <3>2 DEF TrackerTypeOK
      <4> QED
        BY <1>0, <2>2, <4>1, <4>2, <4>3 DEF TrackerTypeOK
    <3>5. \A v \in Units : v # u => announcing'[v] = announcing[v] /\ unitTimer'[v] = unitTimer[v]
      BY <1>0, <3>1, <3>2 DEF TrackerTypeOK
    <3>6. announcing'[u] \in Announces
      BY <1>0, <3>1 DEF TrackerTypeOK
    <3>7. AnnouncingGoesOn' /\ UntoldForAReason' /\ NotAskedWhileRetired'
      BY <2>1, <2>2, <3>2, <3>3, <3>5, <3>6
    <3>10. /\ present' \subseteq contacted'
           /\ present' \intersect stoppedAttempted \subseteq stopLost \union askedAgain'
      BY <2>2, <3>2
    <3>8. \A v \in Units : announcing'[v] # "no" => Active(v)' \in contacted'
      BY <2>1, <3>2, <3>5
    <3>9. \A e \in stopping' : \E v \in Units : announcing'[v] = "rotating" /\ Active(v)' = e
      BY <2>1, <2>2, <3>2, <3>5
    <3> QED
      BY <1>0, <2>2, <3>4, <3>7, <3>8, <3>9, <3>10
  <2>4. CASE putOff
    <3>1. /\ contacted' = contacted \union {Active(u)} /\ announcing[u] = "no"
          /\ UNCHANGED <<announcing, unitTimer, present, askedAgain>>
      BY <2>4
    <3> HIDE DEF asks, putOff, busy
    <3>2. TrackerTypeOK'
      BY <1>0, <2>1, <2>2, <3>1 DEF TrackerTypeOK
    <3> QED
      BY <1>0, <2>1, <2>2, <3>1, <3>2
  <2>5. CASE busy
    <3>1. /\ unitTimer' = [unitTimer EXCEPT ![u] = FALSE] /\ announcing[u] # "no"
          /\ UNCHANGED <<announcing, contacted, present, askedAgain>>
      BY <2>5
    <3> HIDE DEF asks, putOff, busy
    <3>2. TrackerTypeOK'
      BY <1>0, <2>1, <2>2, <3>1 DEF TrackerTypeOK
    <3> QED
      BY <1>0, <2>1, <2>2, <3>1, <3>2 DEF TrackerTypeOK
  <2> HIDE DEF asks, putOff, busy
  <2> QED
    BY <2>3, <2>4, <2>5, <2>6
<1>3. ASSUME NEW u \in Units, AnnounceSucceeds(u) PROVE TrackerInv'
  <2>1. /\ activation = "on" /\ announcing[u] \in Announces
        /\ order' = [order EXCEPT ![u] = Fronted(@, activeIndex[u])]
        /\ activeIndex' = [activeIndex EXCEPT ![u] = 1]
        /\ announcing' = [announcing EXCEPT ![u] = "no"]
        /\ unitTimer' = [unitTimer EXCEPT ![u] = TRUE]
        /\ succeeded' = [succeeded EXCEPT ![u] = TRUE]
        /\ pendingCompleted' = [pendingCompleted EXCEPT ![u] = @ /\ announcing[u] # "completed"]
        /\ UNCHANGED <<activation, unitClosed, completedSent, contacted,
                       stoppedAttempted, stopping, untoldVars>>
    BY <1>3 DEF AnnounceSucceeds
  <2>2. /\ Fronted(order[u], activeIndex[u]) \in Seq(Endpoints)
        /\ IsInjective(Fronted(order[u], activeIndex[u]))
        /\ ToSet(Fronted(order[u], activeIndex[u])) = ToSet(UnitEndpoints[u])
        /\ 1 \in DOMAIN Fronted(order[u], activeIndex[u])
    BY <1>0, FrontedIsAPermutation DEF TrackerTypeOK
  <2>3. /\ order' \in [Units -> Seq(Endpoints)] /\ activeIndex' \in [Units -> Nat]
        /\ \A v \in Units : /\ IsInjective(order'[v])
                            /\ ToSet(order'[v]) = ToSet(UnitEndpoints[v])
                            /\ activeIndex'[v] \in DOMAIN order'[v]
    BY <1>0, <2>1, <2>2 DEF TrackerTypeOK
  <2>4. pendingCompleted' \in [Units -> BOOLEAN]
    BY <1>0, <2>1, Zenon DEF TrackerTypeOK
  <2>5. TrackerTypeOK'
    BY <1>0, <2>1, <2>3, <2>4 DEF TrackerTypeOK, untoldVars
  <2>6. \A v \in Units : v # u => /\ Active(v)' = Active(v)
                                  /\ announcing'[v] = announcing[v]
                                  /\ unitTimer'[v] = unitTimer[v]
    BY <1>0, <2>1 DEF Active, TrackerTypeOK
  <2>7. announcing'[u] = "no" /\ unitTimer'[u]
    BY <1>0, <2>1 DEF TrackerTypeOK
  <2>8. AnnouncingGoesOn'
    BY <2>1, <2>6, <2>7
  <2>9. UntoldForAReason' /\ activation' # "off"
    BY <2>1
  <2>10. NotAskedWhileRetired'
    BY <2>1, <2>6, <2>7
  <2>11. \A v \in Units : announcing'[v] # "no" => Active(v)' \in contacted'
    BY <2>1, <2>6, <2>7
  <2>12. \A e \in stopping' : \E v \in Units : announcing'[v] = "rotating" /\ Active(v)' = e
    <3>1. ASSUME NEW e \in stopping
          PROVE  \E v \in Units : announcing[v] = "rotating" /\ Active(v) = e /\ v # u
      BY <2>1
    <3> QED
      BY <2>1, <2>6, <3>1
  <2>13. /\ present' \subseteq contacted'
         /\ present' \intersect stoppedAttempted' \subseteq stopLost' \union askedAgain'
    BY <2>1 DEF untoldVars
  <2> QED
    BY <2>3, <2>5, <2>8, <2>9, <2>10, <2>11, <2>12, <2>13
<1>4. ASSUME NEW u \in Units, AnnounceFails(u) PROVE TrackerInv'
  <2>1. /\ Active(u) \in Endpoints
        /\ \A v \in Units : Active(v) = Active(u) => v = u
        /\ \A v \in Units : Active(v)' = Active(v)
    BY <1>0, <1>a, <1>4, ActiveIsItsUnits DEF AnnounceFails
  <2>2. /\ activation = "on" /\ announcing[u] \in Announces
        /\ announcing' = [announcing EXCEPT ![u] = "rotating"]
        /\ unitTimer' = [unitTimer EXCEPT ![u] = FALSE]
        /\ stoppedAttempted' = stoppedAttempted \union {Active(u)}
        /\ \/ Active(u) \in stoppedAttempted /\ UNCHANGED <<stopping, present>>
           \/ /\ stopping' = stopping \union {Active(u)}
              /\ present' = present \ {Active(u)}
        /\ UNCHANGED <<activation, order, activeIndex, unitClosed, succeeded,
                       pendingCompleted, completedSent, contacted, askedAgain, stopLost>>
    BY <1>4 DEF AnnounceFails
  <2>3. TrackerTypeOK'
    BY <1>0, <2>1, <2>2 DEF TrackerTypeOK
  <2>4. \A v \in Units : v # u => announcing'[v] = announcing[v] /\ unitTimer'[v] = unitTimer[v]
    BY <1>0, <2>2 DEF TrackerTypeOK
  <2>5. announcing'[u] = "rotating"
    BY <1>0, <2>2 DEF TrackerTypeOK
  <2>6. /\ present' \subseteq contacted'
        /\ present' \intersect stoppedAttempted' \subseteq stopLost' \union askedAgain'
        /\ UntoldForAReason'
    BY <2>2
  <2>7. stopping' \subseteq stopping \union {Active(u)}
    BY <2>2
  <2>8. AnnouncingGoesOn' /\ NotAskedWhileRetired'
    BY <2>1, <2>2, <2>4, <2>5, <2>7
  <2>9. \A e \in stopping' : \E v \in Units : announcing'[v] = "rotating" /\ Active(v)' = e
    <3>1. ASSUME NEW e \in stopping
          PROVE  \E v \in Units : announcing[v] = "rotating" /\ Active(v) = e /\ v # u
      BY <2>2
    <3>2. ASSUME NEW e \in stopping
          PROVE  \E v \in Units : announcing'[v] = "rotating" /\ Active(v)' = e
      BY <2>1, <2>4, <3>1
    <3>3. announcing'[u] = "rotating" /\ Active(u)' = Active(u)
      BY <2>1, <2>5
    <3> QED
      BY <2>7, <3>2, <3>3
  <2>10. \A v \in Units : announcing'[v] # "no" => Active(v)' \in contacted'
    BY <2>1, <2>2, <2>4
  <2> QED
    BY <1>0, <2>2, <2>3, <2>6, <2>8, <2>9, <2>10
<1>5. ASSUME NEW u \in Units, Rotated(u) PROVE TrackerInv'
  <2>1. /\ announcing[u] = "rotating"
        /\ announcing' = [announcing EXCEPT ![u] = "no"]
        /\ stopping' = stopping \ {Active(u)}
        /\ UNCHANGED <<activation, order, succeeded, pendingCompleted, completedSent,
                       contacted, stoppedAttempted, untoldVars>>
    BY <1>5 DEF Rotated
  <2>2. /\ \A v \in Units : v # u => announcing'[v] = announcing[v]
        /\ announcing'[u] = "no"
    BY <1>0, <2>1 DEF TrackerTypeOK
  <2>3. CASE activation = "off"
    <3>1. UNCHANGED <<activeIndex, unitTimer, unitClosed>>
      BY <1>5, <2>3 DEF Rotated
    <3>2. TrackerTypeOK'
      BY <1>0, <2>1, <3>1 DEF TrackerTypeOK, untoldVars
    <3> QED
      BY <1>0, <1>a, <2>1, <2>2, <2>3, <3>1, <3>2 DEF untoldVars
  <2>4. CASE activation # "off"
    <3> DEFINE last == activeIndex[u] = Len(order[u])
               next == IF last THEN 1 ELSE activeIndex[u] + 1
    <3>1. /\ activeIndex' = [activeIndex EXCEPT ![u] = next]
          /\ unitClosed' = [unitClosed EXCEPT ![u] = last /\ SinglePass]
          /\ unitTimer' = [unitTimer EXCEPT ![u] = ~ (last /\ SinglePass)]
      BY <1>5, <2>4 DEF Rotated
    <3>2. next \in DOMAIN order[u] /\ next \in Nat
      BY <1>0 DEF TrackerTypeOK
    <3> HIDE DEF next, last
    <3>3. activeIndex' \in [Units -> Nat]
      BY <1>0, <3>1, <3>2
    <3>4. unitClosed' \in [Units -> BOOLEAN] /\ unitTimer' \in [Units -> BOOLEAN]
      BY <1>0, <3>1, Zenon DEF TrackerTypeOK
    <3>5. TrackerTypeOK'
      BY <1>0, <2>1, <3>1, <3>2, <3>4 DEF TrackerTypeOK, untoldVars
    <3>6. \A v \in Units : v # u => /\ Active(v)' = Active(v)
                                    /\ unitTimer'[v] = unitTimer[v]
                                    /\ unitClosed'[v] = unitClosed[v]
      BY <1>0, <2>1, <3>1 DEF Active, TrackerTypeOK
    <3>7. unitTimer'[u] \/ unitClosed'[u]
      BY <1>0, <3>1 DEF TrackerTypeOK
    <3>8. AnnouncingGoesOn'
      BY <2>1, <2>2, <3>6, <3>7
    <3>9. UntoldForAReason' /\ activation' # "off"
      BY <2>1, <2>4
    <3>10. NotAskedWhileRetired'
      BY <2>1, <2>2, <3>6
    <3>11. \A v \in Units : announcing'[v] # "no" => Active(v)' \in contacted'
      BY <2>1, <2>2, <3>6
    <3>12. \A e \in stopping' : \E v \in Units : announcing'[v] = "rotating" /\ Active(v)' = e
      <4>1. ASSUME NEW e \in stopping, e # Active(u)
            PROVE  \E v \in Units : announcing[v] = "rotating" /\ Active(v) = e /\ v # u
        BY <2>4, <4>1
      <4> QED
        BY <2>1, <2>2, <3>6, <4>1
    <3>13. /\ present' \subseteq contacted'
           /\ present' \intersect stoppedAttempted' \subseteq stopLost' \union askedAgain'
      BY <2>1 DEF untoldVars
    <3> QED
      BY <1>0, <2>1, <3>3, <3>5, <3>8, <3>9, <3>10, <3>11, <3>12, <3>13
  <2> QED
    BY <2>3, <2>4
<1>6. CASE NotifyCompleted
  <2>1. TrackerTypeOK'
    BY <1>0, <1>6 DEF NotifyCompleted, TrackerTypeOK, untoldVars
  <2>2. \A u \in Units : unitTimer[u] => unitTimer'[u]
    BY <1>0, <1>6 DEF NotifyCompleted, TrackerTypeOK
  <2> QED
    BY <1>0, <1>a, <1>6, <2>1, <2>2 DEF NotifyCompleted, untoldVars
<1>7. CASE StopTracker
  <2>1. /\ activation' = "off"
        /\ unitTimer' = [u \in Units |-> FALSE] /\ unitClosed' = [u \in Units |-> TRUE]
        /\ announcing' = [u \in Units |->
               IF announcing[u] = "rotating" THEN "rotating" ELSE "no"]
        /\ stoppedAttempted' = stoppedAttempted \union contacted
        /\ UNCHANGED <<order, activeIndex, succeeded, pendingCompleted, completedSent,
                       contacted, askedAgain>>
    BY <1>7 DEF StopTracker
  <2>2. PICK sent \in SUBSET (contacted \ stoppedAttempted) :
          /\ stopping' = stopping \union sent
          /\ present' = present \ sent
          /\ stopLost' = stopLost \union ((contacted \ stoppedAttempted) \ sent)
    BY <1>7 DEF StopTracker, Sends
  <2>3. TrackerTypeOK'
    <3>1. UNION {contacted', stoppedAttempted', stopping', present', askedAgain', stopLost'}
             \subseteq Endpoints
      BY <1>0, <2>1, <2>2 DEF TrackerTypeOK
    <3> QED
      BY <1>0, <2>1, <3>1 DEF TrackerTypeOK
  <2>4. /\ present' \subseteq contacted'
        /\ present' \intersect stoppedAttempted' \subseteq stopLost' \union askedAgain'
        /\ UntoldForAReason'
    BY <2>1, <2>2
  <2> QED
    BY <1>0, <1>a, <2>1, <2>3, <2>4
<1>8. ASSUME NEW e \in Endpoints, StoppedEnds(e) PROVE TrackerInv'
  <2>1. TrackerTypeOK'
    BY <1>0, <1>8 DEF StoppedEnds, TrackerTypeOK, untoldVars
  <2> QED
    BY <1>0, <1>a, <1>8, <2>1 DEF StoppedEnds, untoldVars
<1>9. CASE UNCHANGED trackerVars
  <2>1. TrackerTypeOK'
    BY <1>0, <1>9 DEF trackerVars, TrackerTypeOK
  <2> QED
    BY <1>0, <1>a, <1>9, <2>1 DEF trackerVars
<1> QED
  BY <1>1, <1>2, <1>3, <1>4, <1>5, <1>6, <1>7, <1>8, <1>9 DEF TrackerNext

(* ---------------------------- the DHT participant --------------------------- *)

Calls == [opening : Nat, reopening : Nat, querying : Nat]

Activations == [gen : Gens \union {NoGen}, running : BOOLEAN, timer : BOOLEAN]

\* The activation of a torrent is looked at again, unless its socket threw.
LookedAtAgain(h) ==
    \/ activations[h].running \/ activations[h].timer
    \/ dhtWork[activations[h].gen].opening > 0
    \/ dhtWork[activations[h].gen].reopening > 0
    \/ h \in stranded

SearchedFor(h) ==
    /\ \A g \in Gens :
          g \in {activations[h].gen, dhtSessions[h], stagingDhtSessions[h]}
             => HashOfGen[g] = h
    /\ activations[h].gen \in {NoGen, dhtSessions[h], stagingDhtSessions[h]}
    /\ pendingCommittedDht[h] \in {NoGen, dhtSessions[h]}
    /\ dhtSessions[h] # NoGen =>
          \/ activations[h].gen = dhtSessions[h]
          \/ pendingCommittedDht[h] = dhtSessions[h] /\ CanWait(h)
          \/ h \in turnedAway
    /\ activations[h].gen # NoGen => LookedAtAgain(h)

DhtInv ==
    /\ DhtTypeOK
    /\ \A h \in Hashes : SearchedFor(h)
    /\ dhtClosed => \A h \in Hashes : activations[h].gen = NoGen
    /\ SilentWhenIdle

\* What DhtInv says of the service's own properties.
LEMMA DhtInvMeans ==
    ASSUME DhtInv
    PROVE  DhtTypeOK /\ SilentWhenIdle /\ DhtServesItsOwner /\ SearchGoesOn
BY DEF DhtInv, SearchedFor, LookedAtAgain, DhtServesItsOwner, SearchGoesOn, OpenIn

LEMMA DhtStarts == DhtInit => DhtInv
<1> SUFFICES ASSUME DhtInit PROVE DhtInv
  OBVIOUS
<1>1. DhtTypeOK
  <2>1. activations \in
          [Hashes -> [gen : Gens \union {NoGen}, running : BOOLEAN, timer : BOOLEAN]]
    BY DEF DhtInit, NoActivation
  <2>2. dhtWork \in [Gens -> Calls]
    BY DEF DhtInit, Calls
  <2> QED
    BY <2>1, <2>2 DEF DhtInit, DhtTypeOK, Calls
<1>2. \A h \in Hashes : SearchedFor(h)
  BY DhtAssumption DEF DhtInit, SearchedFor, NoActivation, Gens
<1> QED
  BY <1>1, <1>2 DEF DhtInit, DhtInv, NoActivation, SilentWhenIdle

\* A step that is about one torrent.
LEMMA StepOfOneTorrent ==
    ASSUME DhtInv, NEW h \in Hashes, DhtTypeOK', SearchedFor(h)',
           \A k \in Hashes \ {h} :
              UNCHANGED <<activations[k], dhtSessions[k], stagingDhtSessions[k],
                          pendingCommittedDht[k]>>,
           \A g \in Gens : HashOfGen[g] # h => dhtWork'[g] = dhtWork[g],
           turnedAway \ {h} \subseteq turnedAway',
           (stranded \cap OpenIn(activations)) \ {h} \subseteq stranded',
           dhtSocket' => OpenIn(activations') # {},
           dhtClosed' => \A k \in Hashes : activations'[k].gen = NoGen
    PROVE  DhtInv'
<1>1. ASSUME NEW k \in Hashes, k # h PROVE SearchedFor(k)'
  <2>1. SearchedFor(k) /\ activations[k].gen \in Gens \union {NoGen}
    BY DEF DhtInv, DhtTypeOK
  <2>2. UNCHANGED <<activations[k], dhtSessions[k], stagingDhtSessions[k],
                    pendingCommittedDht[k]>>
    BY <1>1
  <2>3. activations[k].gen # NoGen => dhtWork'[activations[k].gen] = dhtWork[activations[k].gen]
    BY <1>1, <2>1 DEF SearchedFor
  <2>4. activations[k].gen # NoGen /\ LookedAtAgain(k) => LookedAtAgain(k)'
    BY <1>1, <2>2, <2>3 DEF LookedAtAgain, OpenIn
  <2>5. k \in turnedAway => k \in turnedAway'
    BY <1>1
  <2> QED
    BY <2>1, <2>2, <2>4, <2>5 DEF SearchedFor, CanWait
<1> QED
  BY <1>1 DEF DhtInv, SilentWhenIdle

\* A cycle leaves its activation with another look at it.
LEMMA CycleGoesOn ==
    ASSUME DhtInv, NEW h \in Hashes, NEW opens \in BOOLEAN,
           NEW work \in [Gens -> Calls], Cycle(h, opens, work), UNCHANGED sessionVars,
           \A g \in Gens : HashOfGen[g] # h => work[g] = dhtWork[g]
    PROVE  DhtInv'
<1> DEFINE a == activations[h]
           rests == [activations EXCEPT ![h].timer = FALSE]
<1>0. /\ DhtTypeOK /\ SearchedFor(h) /\ SilentWhenIdle
      /\ a \in [gen : Gens \union {NoGen}, running : BOOLEAN, timer : BOOLEAN]
      /\ a.gen # NoGen => a.gen \in Gens /\ HashOfGen[a.gen] = h
      /\ dhtClosed => a.gen = NoGen
  BY DEF DhtInv, DhtTypeOK, SearchedFor
<1>1. /\ activations' \in
           [Hashes -> [gen : Gens \union {NoGen}, running : BOOLEAN, timer : BOOLEAN]]
      /\ activations'[h].gen = a.gen
      /\ \A k \in Hashes \ {h} : activations'[k] = activations[k]
      /\ dhtSocket' \in BOOLEAN
      /\ dhtWork' \in [Gens -> Calls]
      /\ \A g \in Gens : HashOfGen[g] # h => dhtWork'[g] = dhtWork[g]
      /\ a.gen # NoGen =>
           \/ activations'[h].running \/ activations'[h].timer
           \/ dhtWork'[a.gen].reopening > 0
      /\ dhtSocket' => dhtSocket \/ a.gen # NoGen
  <2>1. CASE a.gen = NoGen \/ a.running \/ dhtClosed
    <3>1. activations' = rests /\ dhtWork' = work /\ dhtSocket' = dhtSocket
      BY <2>1 DEF Cycle
    <3> QED
      BY <1>0, <2>1, <3>1 DEF DhtTypeOK
  <2>2. CASE /\ ~ (a.gen = NoGen \/ a.running \/ dhtClosed)
             /\ activations' = [activations EXCEPT ![h].timer = TRUE]
             /\ dhtWork' = work /\ dhtSocket' = dhtSocket
    BY <1>0, <2>2 DEF DhtTypeOK
  <2>3. CASE /\ ~ (a.gen = NoGen \/ a.running \/ dhtClosed)
             /\ CallsUnderWay(work[a.gen]) < MaxCalls[a.gen]
             /\ dhtSocket' = opens /\ activations' = rests
             /\ dhtWork' = [work EXCEPT ![a.gen].reopening = @ + 1]
    <3>1. dhtWork' \in [Gens -> Calls] /\ dhtWork'[a.gen].reopening > 0
      BY <1>0, <2>3 DEF Calls
    <3>2. \A g \in Gens : HashOfGen[g] # h => dhtWork'[g] = dhtWork[g]
      BY <1>0, <2>3
    <3> QED
      BY <1>0, <2>3, <3>1, <3>2 DEF DhtTypeOK
  <2>4. CASE /\ ~ (a.gen = NoGen \/ a.running \/ dhtClosed)
             /\ CallsUnderWay(work[a.gen]) < MaxCalls[a.gen]
             /\ activations' = [rests EXCEPT ![h].running = TRUE]
             /\ dhtWork' = [work EXCEPT ![a.gen].querying = @ + 1]
             /\ dhtSocket' = dhtSocket
    <3>1. dhtWork' \in [Gens -> Calls]
      BY <1>0, <2>4 DEF Calls
    <3>2. \A g \in Gens : HashOfGen[g] # h => dhtWork'[g] = dhtWork[g]
      BY <1>0, <2>4
    <3>3. activations'[h].running
      BY <1>0, <2>4 DEF DhtTypeOK
    <3> QED
      BY <1>0, <2>4, <3>1, <3>2, <3>3 DEF DhtTypeOK
  <2> QED
    BY <2>1, <2>2, <2>3, <2>4 DEF Cycle
<1>2. DhtTypeOK'
  BY <1>0, <1>1 DEF DhtTypeOK, sessionVars, Calls
<1>3. SearchedFor(h)'
  BY <1>0, <1>1 DEF SearchedFor, LookedAtAgain, sessionVars, CanWait
<1>4. dhtSocket' => OpenIn(activations') # {}
  <2>1. OpenIn(activations') = OpenIn(activations)
    BY <1>1 DEF OpenIn
  <2>2. a.gen # NoGen => h \in OpenIn(activations)
    BY DEF OpenIn
  <2> QED
    BY <1>0, <1>1, <2>1, <2>2 DEF SilentWhenIdle
<1>5. dhtClosed' => \A k \in Hashes : activations'[k].gen = NoGen
  BY <1>1 DEF sessionVars, DhtInv
<1> HIDE DEF a
<1> QED
  BY <1>1, <1>2, <1>3, <1>4, <1>5, StepOfOneTorrent DEF sessionVars

\* What is made is looked at again, by its socket or because that threw.
LEMMA Making ==
    ASSUME NEW g \in Gens, NEW opens \in BOOLEAN,
           NEW left \in [Hashes -> Activations], NEW socket \in BOOLEAN,
           dhtWork \in [Gens -> Calls], stranded \subseteq Hashes,
           Made(g, opens, left, socket)
    PROVE  /\ activations' \in [Hashes -> Activations] /\ dhtSocket' \in BOOLEAN
           /\ dhtWork' \in [Gens -> Calls] /\ stranded' \subseteq Hashes
           /\ activations'[HashOfGen[g]].gen = g
           /\ \A k \in Hashes \ {HashOfGen[g]} : activations'[k] = left[k]
           /\ \A x \in Gens \ {g} : dhtWork'[x] = dhtWork[x]
           /\ stranded \ {HashOfGen[g]} \subseteq stranded'
           /\ HashOfGen[g] \in stranded' \/ dhtWork'[g].opening > 0
           /\ OpenIn(activations') # {}
<1> DEFINE h == HashOfGen[g]
<1>1. h \in Hashes /\ g # NoGen
  BY DhtAssumption DEF Gens
<1>2. /\ activations' = [left EXCEPT ![h] = [NoActivation EXCEPT !.gen = g]]
      /\ dhtSocket' = (socket \/ opens)
  BY DEF Made
<1>3. [NoActivation EXCEPT !.gen = g] \in Activations /\ [NoActivation EXCEPT !.gen = g].gen = g
  BY DEF NoActivation, Activations
<1> HIDE DEF h
<1>4. /\ activations' \in [Hashes -> Activations] /\ activations'[h].gen = g
      /\ \A k \in Hashes \ {h} : activations'[k] = left[k]
  BY <1>1, <1>2, <1>3
<1>5. h \in OpenIn(activations')
  BY <1>1, <1>4 DEF OpenIn
<1>6. CASE opens
  <2>1. /\ dhtWork' = [dhtWork EXCEPT ![g].opening = @ + 1] /\ stranded' = stranded \ {h}
    BY <1>6 DEF Made, h
  <2>2. /\ dhtWork' \in [Gens -> Calls] /\ \A x \in Gens \ {g} : dhtWork'[x] = dhtWork[x]
        /\ dhtWork'[g].opening > 0
    BY <2>1 DEF Calls
  <2> QED
    BY <1>2, <1>4, <1>5, <2>1, <2>2 DEF h
<1>7. CASE ~ opens
  <2>1. dhtWork' = dhtWork /\ stranded' = stranded \cup {h}
    BY <1>7 DEF Made, h
  <2> QED
    BY <1>1, <1>2, <1>4, <1>5, <2>1 DEF h
<1> QED
  BY <1>6, <1>7

\* A generation whose torrent is not searched for is activated, and looked at
\* again unless its socket threw, or a full queue turns it away.
LEMMA Activating ==
    ASSUME DhtInv, NEW g \in Gens, NEW opens \in BOOLEAN, Activate(g, opens),
           ~ dhtClosed, activations[HashOfGen[g]].gen = NoGen
    PROVE  /\ activations' \in [Hashes -> Activations]
           /\ dhtSocket' \in BOOLEAN /\ dhtWork' \in [Gens -> Calls]
           /\ refusedGens' \subseteq StagingGens
           /\ stranded' \subseteq Hashes /\ turnedAway' \subseteq Hashes
           /\ \A k \in Hashes \ {HashOfGen[g]} : activations'[k] = activations[k]
           /\ \A x \in Gens \ {g} : dhtWork'[x] = dhtWork[x]
           /\ \/ activations'[HashOfGen[g]].gen = g
              \/ /\ activations'[HashOfGen[g]].gen = NoGen
                 /\ g \in CommittedGens => HashOfGen[g] \in turnedAway'
           /\ activations'[HashOfGen[g]].gen = g =>
                 HashOfGen[g] \in stranded' \/ dhtWork'[g].opening > 0
           /\ turnedAway \subseteq turnedAway'
           /\ stranded \ {HashOfGen[g]} \subseteq stranded'
           /\ dhtSocket' => OpenIn(activations') # {}
<1> DEFINE h == HashOfGen[g]
<1>0. /\ DhtTypeOK /\ h \in Hashes /\ SilentWhenIdle /\ g # NoGen
      /\ activations \in [Hashes -> Activations] /\ dhtSocket \in BOOLEAN
      /\ dhtWork \in [Gens -> Calls]
      /\ stranded \subseteq Hashes /\ turnedAway \subseteq Hashes
  BY DhtAssumption DEF DhtInv, Gens, DhtTypeOK, Calls, Activations
<1>1. CASE ~ IsFull(activations)
  <2>1. /\ Made(g, opens, activations, dhtSocket)
        /\ refusedGens' = IF opens THEN refusedGens
                          ELSE refusedGens \union ({g} \intersect StagingGens)
        /\ turnedAway' = turnedAway
    BY <1>1 DEF Activate
  <2>2. refusedGens' \subseteq StagingGens
    BY <1>0, <2>1 DEF DhtTypeOK
  <2> HIDE DEF h
  <2> QED
    BY <1>0, <2>1, <2>2, Making
<1>2. CASE IsFull(activations)
  <2>1. /\ UNCHANGED <<activations, dhtSocket, dhtWork, stranded>>
        /\ turnedAway' = IF g \in CommittedGens THEN turnedAway \union {h} ELSE turnedAway
    BY <1>0, <1>2 DEF Activate
  <2>2. refusedGens' \subseteq StagingGens
    BY <1>0, <1>2 DEF Activate, DhtTypeOK
  <2> QED
    BY <1>0, <2>1, <2>2 DEF SilentWhenIdle
<1> QED
  BY <1>1, <1>2

\* Every step of the participant and of those who use it.
LEMMA DhtSteps == DhtInv /\ [DhtNext]_dhtVars => DhtInv'
<1> SUFFICES ASSUME DhtInv, [DhtNext]_dhtVars PROVE DhtInv'
  OBVIOUS
<1>0. /\ DhtTypeOK /\ SilentWhenIdle /\ (\A h \in Hashes : SearchedFor(h))
      /\ dhtClosed => \A h \in Hashes : activations[h].gen = NoGen
      /\ \A g \in Gens : HashOfGen[g] \in Hashes /\ g # NoGen
      /\ NoGen \notin Gens /\ CommittedGens \subseteq Gens /\ StagingGens \subseteq Gens
      /\ \A c \in CommittedGens : c \notin StagingGens
      /\ dhtWork \in [Gens -> Calls]
  BY DhtAssumption DEF DhtInv, Gens, DhtTypeOK, Calls
<1>1. ASSUME NEW g \in Gens, NEW opens \in BOOLEAN, StartDht(g, opens) PROVE DhtInv'
  <2> DEFINE h == HashOfGen[g]
  <2>1. /\ g \in CommittedGens /\ h \in Hashes /\ ~ dhtClosed /\ dhtSessions[h] = NoGen
        /\ dhtSessions' = [dhtSessions EXCEPT ![h] = g]
        /\ UNCHANGED <<dhtClosed, stagingDhtSessions, frozenGens>>
    BY <1>0, <1>1 DEF StartDht
  <2>2. /\ dhtSessions' \in [Hashes -> CommittedGens \union {NoGen}] /\ dhtSessions'[h] = g
        /\ \A k \in Hashes \ {h} : dhtSessions'[k] = dhtSessions[k]
    BY <1>0, <2>1 DEF DhtTypeOK
  <2>3. CASE CanWait(h)
    <3>1. /\ pendingCommittedDht' = [pendingCommittedDht EXCEPT ![h] = g]
          /\ UNCHANGED <<activations, dhtSocket, dhtWork, refusedGens, stranded, turnedAway>>
      BY <1>1, <2>3 DEF StartDht
    <3>2. DhtTypeOK'
      BY <1>0, <2>1, <2>2, <3>1 DEF DhtTypeOK
    <3>3. SearchedFor(h)'
      BY <1>0, <2>1, <2>2, <2>3, <3>1
         DEF SearchedFor, DhtTypeOK, CanWait, LookedAtAgain
    <3>4. dhtSocket' => OpenIn(activations') # {}
      BY <1>0, <3>1 DEF SilentWhenIdle
    <3>5. \A k \in Hashes \ {h} : pendingCommittedDht'[k] = pendingCommittedDht[k]
      BY <1>0, <3>1 DEF DhtTypeOK
    <3> HIDE DEF h
    <3> QED
      BY <2>1, <2>2, <3>1, <3>2, <3>3, <3>4, <3>5, StepOfOneTorrent
  <2>4. CASE ~ CanWait(h)
    <3>1. Activate(g, opens) /\ pendingCommittedDht' = pendingCommittedDht
      BY <1>1, <2>4 DEF StartDht
    <3>2. activations[h].gen = NoGen /\ stagingDhtSessions[h] = NoGen
      BY <1>0, <2>1, <2>4 DEF SearchedFor, CanWait
    <3>3. /\ activations' \in [Hashes -> Activations]
          /\ dhtSocket' \in BOOLEAN /\ dhtWork' \in [Gens -> Calls]
          /\ refusedGens' \subseteq StagingGens
          /\ stranded' \subseteq Hashes /\ turnedAway' \subseteq Hashes
          /\ \A k \in Hashes \ {h} : activations'[k] = activations[k]
          /\ \A x \in Gens \ {g} : dhtWork'[x] = dhtWork[x]
          /\ \/ activations'[h].gen = g
             \/ activations'[h].gen = NoGen /\ (g \in CommittedGens => h \in turnedAway')
          /\ activations'[h].gen = g => h \in stranded' \/ dhtWork'[g].opening > 0
          /\ turnedAway \subseteq turnedAway' /\ stranded \ {h} \subseteq stranded'
          /\ dhtSocket' => OpenIn(activations') # {}
      BY <2>1, <3>1, <3>2, Activating
    <3>4. DhtTypeOK'
      BY <1>0, <2>1, <2>2, <3>1, <3>3 DEF DhtTypeOK, Calls, Activations
    <3>5. SearchedFor(h)'
      BY <1>0, <2>1, <2>2, <3>1, <3>2, <3>3
         DEF SearchedFor, CanWait, LookedAtAgain
    <3> QED
      BY <2>1, <2>2, <3>1, <3>3, <3>4, <3>5, StepOfOneTorrent
  <2> QED
    BY <2>3, <2>4
<1>2. ASSUME NEW g \in Gens, NEW opens \in BOOLEAN, OpenStagingDht(g, opens) PROVE DhtInv'
  <2> DEFINE h == HashOfGen[g]
  <2>1. /\ g \in StagingGens /\ h \in Hashes /\ ~ dhtClosed
        /\ UNCHANGED <<dhtClosed, dhtSessions, pendingCommittedDht, frozenGens>>
    BY <1>0, <1>2 DEF OpenStagingDht
  <2>2. CASE dhtSessions[h] # NoGen \/ CanWait(h)
    <3>1. /\ refusedGens' = refusedGens \union {g}
          /\ UNCHANGED <<activations, dhtSocket, dhtWork, stagingDhtSessions, stranded,
                         turnedAway>>
      BY <1>2, <2>2 DEF OpenStagingDht
    <3>2. DhtTypeOK'
      BY <1>0, <2>1, <3>1 DEF DhtTypeOK
    <3>3. SearchedFor(h)'
      BY <1>0, <2>1, <3>1 DEF SearchedFor, CanWait, LookedAtAgain
    <3>4. dhtSocket' => OpenIn(activations') # {}
      BY <1>0, <3>1 DEF SilentWhenIdle
    <3> HIDE DEF h
    <3> QED
      BY <2>1, <3>1, <3>2, <3>3, <3>4, StepOfOneTorrent
  <2>3. CASE ~ (dhtSessions[h] # NoGen \/ CanWait(h))
    <3>1. /\ stagingDhtSessions' = [stagingDhtSessions EXCEPT ![h] = g]
          /\ Activate(g, opens)
      BY <1>2, <2>3 DEF OpenStagingDht
    <3>2. activations[h].gen = NoGen /\ dhtSessions[h] = NoGen
      BY <1>0, <2>1, <2>3 DEF SearchedFor, CanWait
    <3>3. /\ activations' \in [Hashes -> Activations]
          /\ dhtSocket' \in BOOLEAN /\ dhtWork' \in [Gens -> Calls]
          /\ refusedGens' \subseteq StagingGens
          /\ stranded' \subseteq Hashes /\ turnedAway' \subseteq Hashes
          /\ \A k \in Hashes \ {h} : activations'[k] = activations[k]
          /\ \A x \in Gens \ {g} : dhtWork'[x] = dhtWork[x]
          /\ \/ activations'[h].gen = g
             \/ activations'[h].gen = NoGen /\ (g \in CommittedGens => h \in turnedAway')
          /\ activations'[h].gen = g => h \in stranded' \/ dhtWork'[g].opening > 0
          /\ turnedAway \subseteq turnedAway' /\ stranded \ {h} \subseteq stranded'
          /\ dhtSocket' => OpenIn(activations') # {}
      BY <2>1, <3>1, <3>2, Activating
    <3>4. /\ stagingDhtSessions' \in [Hashes -> StagingGens \union {NoGen}]
          /\ stagingDhtSessions'[h] = g
          /\ \A k \in Hashes \ {h} : stagingDhtSessions'[k] = stagingDhtSessions[k]
      BY <1>0, <2>1, <3>1 DEF DhtTypeOK
    <3>5. DhtTypeOK'
      BY <1>0, <2>1, <3>3, <3>4 DEF DhtTypeOK, Calls, Activations
    <3>6. SearchedFor(h)'
      BY <1>0, <2>1, <3>2, <3>3, <3>4
         DEF SearchedFor, CanWait, LookedAtAgain
    <3> QED
      BY <2>1, <3>3, <3>4, <3>5, <3>6, StepOfOneTorrent
  <2> QED
    BY <2>2, <2>3
<1>3. ASSUME NEW g \in Gens, NEW opens \in BOOLEAN, Freeze(g, opens) PROVE DhtInv'
  <2> DEFINE h == HashOfGen[g]
             c == pendingCommittedDht[h]
             left == Deactivated(activations, g)
             socket == dhtSocket /\ (activations[h].gen = g => OpenIn(left) # {})
             waits == c # NoGen /\ c = dhtSessions[h] /\ left[h].gen = NoGen
             next == waits /\ ~ IsFull(left)
  <2>1. /\ g \in StagingGens /\ h \in Hashes /\ ~ dhtClosed /\ stagingDhtSessions[h] = g
        /\ frozenGens' = frozenGens \union {g} /\ refusedGens' = refusedGens \ {g}
        /\ UNCHANGED <<dhtClosed, dhtSessions>>
        /\ stagingDhtSessions' = [stagingDhtSessions EXCEPT ![h] = NoGen]
        /\ pendingCommittedDht' = IF c = dhtSessions[h]
                                  THEN [pendingCommittedDht EXCEPT ![h] = NoGen]
                                  ELSE pendingCommittedDht
        /\ next => Made(c, opens, left, socket) /\ turnedAway' = turnedAway
        /\ ~ next => /\ activations' = left /\ dhtSocket' = socket /\ dhtWork' = dhtWork
                     /\ turnedAway' = (IF waits THEN turnedAway \union {h} ELSE turnedAway)
                     /\ stranded' = stranded \cap OpenIn(left)
    BY <1>0, <1>3 DEF Freeze, ReleaseStaging
  <2>2. /\ c \in {NoGen, dhtSessions[h]} /\ c \in CommittedGens \union {NoGen}
        /\ dhtSessions[h] \in CommittedGens \union {NoGen}
        /\ activations[h].gen \in {NoGen, dhtSessions[h], g}
        /\ dhtSessions[h] # g /\ (c # NoGen => c \in Gens /\ HashOfGen[c] = h)
    BY <1>0, <2>1 DEF SearchedFor, DhtTypeOK
  <2>3. /\ left \in [Hashes -> [gen : Gens \union {NoGen}, running : BOOLEAN, timer : BOOLEAN]]
        /\ left[h] = IF activations[h].gen = g THEN NoActivation ELSE activations[h]
        /\ \A k \in Hashes \ {h} : left[k] = activations[k]
    BY <1>0, <2>1 DEF Deactivated, NoActivation, DhtTypeOK
  <2>4. /\ stagingDhtSessions' \in [Hashes -> StagingGens \union {NoGen}]
        /\ stagingDhtSessions'[h] = NoGen
        /\ \A k \in Hashes \ {h} : stagingDhtSessions'[k] = stagingDhtSessions[k]
    BY <1>0, <2>1 DEF DhtTypeOK
  <2>5. /\ pendingCommittedDht' \in [Hashes -> CommittedGens \union {NoGen}]
        /\ pendingCommittedDht'[h] = NoGen
        /\ \A k \in Hashes \ {h} : pendingCommittedDht'[k] = pendingCommittedDht[k]
    BY <1>0, <2>1, <2>2 DEF DhtTypeOK
  <2>9. stranded \subseteq Hashes /\ turnedAway \subseteq Hashes
    BY <1>0 DEF DhtTypeOK
  <2>6. socket => dhtSocket /\ OpenIn(left) # {}
    <3>1. activations[h].gen # g => left = activations
      BY DEF Deactivated
    <3> QED
      BY <1>0, <3>1 DEF SilentWhenIdle
  <2>7. CASE next
    <3>0. /\ Made(c, opens, left, socket) /\ turnedAway' = turnedAway
          /\ c \in Gens /\ HashOfGen[c] = h /\ c = dhtSessions[h] /\ c # NoGen
      BY <2>1, <2>2, <2>7
    <3>9. left \in [Hashes -> Activations] /\ socket \in BOOLEAN
      BY <2>3 DEF Activations
    <3> HIDE DEF h, c, left, socket, next, waits
    <3>1. /\ activations' \in [Hashes -> Activations] /\ dhtSocket' \in BOOLEAN
          /\ dhtWork' \in [Gens -> Calls] /\ stranded' \subseteq Hashes
          /\ activations'[h].gen = c
          /\ \A k \in Hashes \ {h} : activations'[k] = left[k]
          /\ \A x \in Gens \ {c} : dhtWork'[x] = dhtWork[x]
          /\ stranded \ {h} \subseteq stranded'
          /\ h \in stranded' \/ dhtWork'[c].opening > 0
          /\ OpenIn(activations') # {}
      BY <1>0, <2>9, <3>0, <3>9, Making
    <3>2. \A k \in Hashes \ {h} : activations'[k] = activations[k]
      BY <2>3, <3>1
    <3>4. DhtTypeOK'
      BY <1>0, <2>1, <2>4, <2>5, <2>9, <3>0, <3>1 DEF DhtTypeOK, Calls, Activations
    <3>5. SearchedFor(h)'
      <4>1. dhtSessions'[h] = c /\ stagingDhtSessions'[h] = NoGen /\ pendingCommittedDht'[h] = NoGen
        BY <2>1, <2>4, <2>5, <3>0
      <4>2. NoGen \notin Gens
        BY <1>0
      <4> QED
        BY <3>0, <3>1, <4>1, <4>2 DEF SearchedFor, LookedAtAgain
    <3>6. \A x \in Gens : HashOfGen[x] # h => dhtWork'[x] = dhtWork[x]
      <4>1. ASSUME NEW x \in Gens, HashOfGen[x] # h PROVE dhtWork'[x] = dhtWork[x]
        <5>1. c \in Gens /\ HashOfGen[c] = h
          BY <3>0
        <5>2. x # c
          BY <4>1, <5>1
        <5> QED
          BY <3>1, <4>1, <5>2
      <4> QED
        BY <4>1
    <3>7. \A k \in Hashes \ {h} :
             UNCHANGED <<activations[k], dhtSessions[k], stagingDhtSessions[k],
                         pendingCommittedDht[k]>>
      BY <2>1, <2>4, <2>5, <3>2
    <3>8. dhtClosed' = FALSE
      BY <1>0, <2>1 DEF DhtTypeOK
    <3> QED
      BY <2>1, <3>0, <3>1, <3>4, <3>5, <3>6, <3>7, <3>8, StepOfOneTorrent
  <2>8. CASE ~ next
    <3>1. /\ activations' = left /\ dhtWork' = dhtWork /\ dhtSocket' = socket
          /\ stranded' = stranded \cap OpenIn(left)
          /\ turnedAway' = (IF waits THEN turnedAway \union {h} ELSE turnedAway)
      BY <2>1, <2>8
    <3>8. stranded' \subseteq Hashes /\ turnedAway' \subseteq Hashes /\ turnedAway \subseteq turnedAway'
      BY <2>1, <2>9, <3>1
    <3>2. DhtTypeOK'
      BY <1>0, <2>1, <2>3, <2>4, <2>5, <3>1, <3>8 DEF DhtTypeOK
    <3>3. c = NoGen \/ left[h].gen = dhtSessions[h] \/ h \in turnedAway'
      BY <2>2, <2>3, <3>1 DEF NoActivation
    <3>4. dhtSessions[h] # NoGen => left[h].gen = dhtSessions[h] \/ h \in turnedAway'
      BY <1>0, <2>1, <2>2, <2>3, <3>3, <3>8 DEF SearchedFor
    <3>9. (stranded \cap OpenIn(activations)) \ {h} \subseteq stranded'
      BY <2>3, <3>1 DEF OpenIn
    <3>5. SearchedFor(h)'
      <4>1. /\ left[h].gen \in {NoGen, dhtSessions[h]}
            /\ left[h].gen # NoGen => left[h] = activations[h]
        BY <2>2, <2>3 DEF NoActivation
      <4>2. \A x \in Gens : x \in {left[h].gen, dhtSessions[h], NoGen} => HashOfGen[x] = h
        BY <1>0, <2>1, <4>1 DEF SearchedFor
      <4>3. left[h].gen # NoGen => LookedAtAgain(h)'
        <5>1. left[h].gen # NoGen /\ h \in stranded => h \in stranded'
          BY <2>1, <3>1 DEF OpenIn
        <5> QED
          BY <1>0, <2>1, <3>1, <4>1, <5>1 DEF SearchedFor, LookedAtAgain
      <4> HIDE DEF left, h, c, waits, next, socket
      <4> QED
        BY <2>1, <2>4, <2>5, <3>1, <3>4, <4>1, <4>2, <4>3 DEF SearchedFor
    <3>6. \A k \in Hashes \ {h} : activations'[k] = activations[k]
      BY <2>3, <3>1
    <3>7. dhtSocket' => OpenIn(activations') # {}
      BY <2>6, <3>1
    <3> HIDE DEF h, c, left, socket, next, waits
    <3> QED
      BY <2>1, <2>4, <2>5, <3>1, <3>2, <3>5, <3>6, <3>7, <3>8, <3>9, StepOfOneTorrent
  <2> QED
    BY <2>7, <2>8
<1>4. ASSUME NEW g \in Gens, NEW opens \in BOOLEAN, Opened(g, opens) PROVE DhtInv'
  <2> DEFINE work == [dhtWork EXCEPT ![g].opening = @ - 1]
  <2>1. Cycle(HashOfGen[g], opens, work) /\ UNCHANGED sessionVars /\ dhtWork[g].opening > 0
    BY <1>4 DEF Opened
  <2>2. work \in [Gens -> Calls]
    BY <1>0, <2>1 DEF Calls
  <2>3. \A x \in Gens : HashOfGen[x] # HashOfGen[g] => work[x] = dhtWork[x]
    BY <1>0
  <2> HIDE DEF work
  <2> QED
    BY <1>0, <2>1, <2>2, <2>3, CycleGoesOn
<1>5. ASSUME NEW h \in Hashes, NEW opens \in BOOLEAN, CycleTimer(h, opens) PROVE DhtInv'
  BY <1>0, <1>5, CycleGoesOn DEF CycleTimer
<1>6. ASSUME NEW g \in Gens, StopDht(g) PROVE DhtInv'
  <2> DEFINE h == HashOfGen[g]
  <2>1. /\ h \in Hashes /\ dhtSessions[h] = g
        /\ dhtSessions' = [dhtSessions EXCEPT ![h] = NoGen]
        /\ pendingCommittedDht' = [pendingCommittedDht EXCEPT ![h] = NoGen]
        /\ activations' = Deactivated(activations, g)
        /\ dhtSocket' = (dhtSocket /\ (activations[h].gen = g => OpenIn(activations') # {}))
        /\ turnedAway' = turnedAway \ {h} /\ stranded' = stranded \cap OpenIn(activations')
        /\ UNCHANGED <<dhtClosed, dhtWork, stagingDhtSessions, refusedGens, frozenGens>>
    BY <1>0, <1>6 DEF StopDht
  <2>2. /\ activations' \in
             [Hashes -> [gen : Gens \union {NoGen}, running : BOOLEAN, timer : BOOLEAN]]
        /\ activations'[h] = IF activations[h].gen = g THEN NoActivation ELSE activations[h]
        /\ \A k \in Hashes \ {h} : activations'[k] = activations[k]
    BY <1>0, <2>1 DEF Deactivated, NoActivation, DhtTypeOK
  <2>3. /\ dhtSessions' \in [Hashes -> CommittedGens \union {NoGen}] /\ dhtSessions'[h] = NoGen
        /\ pendingCommittedDht' \in [Hashes -> CommittedGens \union {NoGen}]
        /\ pendingCommittedDht'[h] = NoGen
        /\ \A k \in Hashes \ {h} : /\ dhtSessions'[k] = dhtSessions[k]
                                   /\ pendingCommittedDht'[k] = pendingCommittedDht[k]
    BY <1>0, <2>1 DEF DhtTypeOK
  <2>4. DhtTypeOK'
    BY <1>0, <2>1, <2>2, <2>3 DEF DhtTypeOK
  <2>5. SearchedFor(h)'
    <3>1. activations'[h].gen # NoGen => h \in OpenIn(activations')
      BY <2>1 DEF OpenIn
    <3> QED
      BY <1>0, <2>1, <2>2, <2>3, <3>1 DEF SearchedFor, LookedAtAgain, NoActivation
  <2>8. (stranded \cap OpenIn(activations)) \ {h} \subseteq stranded'
    BY <2>1, <2>2 DEF OpenIn
  <2>6. dhtSocket' => OpenIn(activations') # {}
    <3>1. activations[h].gen # g => activations' = activations
      BY <2>1 DEF Deactivated
    <3> QED
      BY <1>0, <2>1, <3>1 DEF SilentWhenIdle
  <2>7. dhtClosed' => \A k \in Hashes : activations'[k].gen = NoGen
    BY <1>0, <2>1, <2>2 DEF NoActivation
  <2> HIDE DEF h
  <2> QED
    BY <2>1, <2>2, <2>3, <2>4, <2>5, <2>6, <2>7, <2>8, StepOfOneTorrent
<1>7. ASSUME NEW g \in Gens, Reopened(g) PROVE DhtInv'
  <2> DEFINE h == HashOfGen[g]
  <2>1. /\ h \in Hashes /\ dhtWork[g].reopening > 0
        /\ UNCHANGED <<dhtSocket, sessionVars>>
    BY <1>0, <1>7 DEF Reopened
  <2>2. /\ dhtWork' \in [Gens -> Calls]
        /\ \A x \in Gens \ {g} : dhtWork'[x] = dhtWork[x]
        /\ activations' \in
             [Hashes -> [gen : Gens \union {NoGen}, running : BOOLEAN, timer : BOOLEAN]]
        /\ activations'[h].gen = activations[h].gen
        /\ \A k \in Hashes \ {h} : activations'[k] = activations[k]
        /\ IF dhtClosed \/ activations[h].gen # g
           THEN activations'[h] = activations[h]
           ELSE activations'[h].timer \/ activations'[h].running
    <3>1. CASE dhtClosed \/ activations[h].gen # g
      <4>1. dhtWork' = [dhtWork EXCEPT ![g].reopening = @ - 1] /\ activations' = activations
        BY <1>7, <3>1 DEF Reopened
      <4> QED
        BY <1>0, <2>1, <3>1, <4>1 DEF Calls, DhtTypeOK
    <3>2. CASE ~ (dhtClosed \/ activations[h].gen # g) /\ ~ dhtSocket
      <4>1. /\ dhtWork' = [dhtWork EXCEPT ![g].reopening = @ - 1]
            /\ activations' = [activations EXCEPT ![h].timer = TRUE]
        BY <1>7, <3>2 DEF Reopened
      <4>2. dhtWork' \in [Gens -> Calls] /\ \A x \in Gens \ {g} : dhtWork'[x] = dhtWork[x]
        BY <1>0, <2>1, <4>1 DEF Calls
      <4>3. /\ activations' = [activations EXCEPT ![h] = [activations[h] EXCEPT !.timer = TRUE]]
            /\ activations \in
                [Hashes -> [gen : Gens \union {NoGen}, running : BOOLEAN, timer : BOOLEAN]]
        BY <1>0, <4>1 DEF DhtTypeOK
      <4>4. [activations[h] EXCEPT !.timer = TRUE] \in
                [gen : Gens \union {NoGen}, running : BOOLEAN, timer : BOOLEAN]
        BY <2>1, <4>3
      <4>5. /\ activations'[h] = [activations[h] EXCEPT !.timer = TRUE]
            /\ activations'[h].gen = activations[h].gen /\ activations'[h].timer
        BY <2>1, <4>3
      <4>6. /\ activations' \in
                [Hashes -> [gen : Gens \union {NoGen}, running : BOOLEAN, timer : BOOLEAN]]
            /\ \A k \in Hashes \ {h} : activations'[k] = activations[k]
        BY <2>1, <4>3, <4>4
      <4> QED
        BY <3>2, <4>2, <4>5, <4>6
    <3>3. CASE ~ (dhtClosed \/ activations[h].gen # g) /\ dhtSocket
      <4>1. /\ dhtWork' = [dhtWork EXCEPT ![g].reopening = @ - 1, ![g].querying = @ + 1]
            /\ activations' = [activations EXCEPT ![h].running = TRUE]
        BY <1>7, <3>3 DEF Reopened
      <4>2. dhtWork' \in [Gens -> Calls] /\ \A x \in Gens \ {g} : dhtWork'[x] = dhtWork[x]
        BY <1>0, <2>1, <4>1 DEF Calls
      <4> QED
        BY <1>0, <2>1, <3>3, <4>1, <4>2 DEF DhtTypeOK
    <3> QED
      BY <3>1, <3>2, <3>3
  <2>3. DhtTypeOK'
    BY <1>0, <2>1, <2>2 DEF DhtTypeOK, Calls, sessionVars
  <2>4. SearchedFor(h)'
    BY <1>0, <2>1, <2>2 DEF SearchedFor, LookedAtAgain, sessionVars, CanWait, DhtTypeOK
  <2>5. dhtSocket' => OpenIn(activations') # {}
    <3>1. OpenIn(activations') = OpenIn(activations)
      BY <2>2 DEF OpenIn
    <3> QED
      BY <1>0, <2>1, <3>1 DEF SilentWhenIdle
  <2>6. dhtClosed' => \A k \in Hashes : activations'[k].gen = NoGen
    BY <1>0, <2>1, <2>2 DEF sessionVars
  <2> HIDE DEF h
  <2> QED
    BY <2>1, <2>2, <2>3, <2>4, <2>5, <2>6, StepOfOneTorrent DEF sessionVars, h
<1>8. ASSUME NEW g \in Gens, CycleEnds(g) PROVE DhtInv'
  <2> DEFINE h == HashOfGen[g]
             due == [gen |-> g, running |-> FALSE, timer |-> TRUE]
  <2>1. /\ h \in Hashes /\ dhtWork[g].querying > 0
        /\ dhtWork' = [dhtWork EXCEPT ![g].querying = @ - 1]
        /\ activations' = IF activations[h].gen = g
                          THEN [activations EXCEPT ![h] = due] ELSE activations
        /\ UNCHANGED <<dhtSocket, sessionVars>>
    BY <1>0, <1>8 DEF CycleEnds
  <2>2. /\ dhtWork' \in [Gens -> Calls]
        /\ \A x \in Gens : /\ dhtWork'[x].opening = dhtWork[x].opening
                           /\ dhtWork'[x].reopening = dhtWork[x].reopening
        /\ \A x \in Gens \ {g} : dhtWork'[x] = dhtWork[x]
    BY <1>0, <2>1 DEF Calls
  <2>3. /\ activations' \in
             [Hashes -> [gen : Gens \union {NoGen}, running : BOOLEAN, timer : BOOLEAN]]
        /\ activations'[h] = IF activations[h].gen = g THEN due ELSE activations[h]
        /\ activations'[h].gen = activations[h].gen
        /\ \A k \in Hashes \ {h} : activations'[k] = activations[k]
    BY <1>0, <2>1 DEF DhtTypeOK
  <2>4. DhtTypeOK'
    BY <1>0, <2>1, <2>2, <2>3 DEF DhtTypeOK, Calls, sessionVars
  <2>5. activations'[h].gen # NoGen => LookedAtAgain(h)'
    <3>1. activations[h].gen \in Gens \union {NoGen}
      BY <1>0, <2>1 DEF DhtTypeOK
    <3> QED
      BY <1>0, <2>1, <2>2, <2>3, <3>1 DEF SearchedFor, LookedAtAgain, sessionVars
  <2>6. SearchedFor(h)'
    BY <1>0, <2>1, <2>3, <2>5 DEF SearchedFor, sessionVars, CanWait
  <2>7. dhtSocket' => OpenIn(activations') # {}
    <3>1. OpenIn(activations') = OpenIn(activations)
      BY <2>3 DEF OpenIn
    <3> QED
      BY <1>0, <2>1, <3>1 DEF SilentWhenIdle
  <2>8. dhtClosed' => \A k \in Hashes : activations'[k].gen = NoGen
    BY <1>0, <2>1, <2>3 DEF sessionVars
  <2> HIDE DEF due
  <2> QED
    BY <2>1, <2>2, <2>3, <2>4, <2>6, <2>7, <2>8, StepOfOneTorrent DEF sessionVars
<1>9. CASE SocketFails
  <2>1. DhtTypeOK' /\ \A h \in Hashes : SearchedFor(h)'
    BY <1>0, <1>9 DEF SocketFails, DhtTypeOK, sessionVars, SearchedFor, LookedAtAgain, CanWait
  <2> QED
    BY <1>0, <1>9, <2>1 DEF SocketFails, DhtInv, SilentWhenIdle, sessionVars
<1>10. CASE CloseDht
  <2>1. /\ activations' = [h \in Hashes |-> NoActivation]
        /\ dhtSessions' = [h \in Hashes |-> NoGen]
        /\ stagingDhtSessions' = [h \in Hashes |-> NoGen]
        /\ pendingCommittedDht' = [h \in Hashes |-> NoGen]
        /\ dhtSocket' = FALSE /\ dhtClosed' = TRUE /\ stranded' = {} /\ turnedAway' = {}
        /\ UNCHANGED <<dhtWork, refusedGens, frozenGens>>
    BY <1>10 DEF CloseDht
  <2>2. activations' \in
          [Hashes -> [gen : Gens \union {NoGen}, running : BOOLEAN, timer : BOOLEAN]]
    BY <2>1 DEF NoActivation
  <2>3. DhtTypeOK'
    BY <1>0, <2>1, <2>2 DEF DhtTypeOK
  <2>4. \A h \in Hashes : SearchedFor(h)'
    BY <1>0, <2>1 DEF SearchedFor, NoActivation
  <2> QED
    BY <2>1, <2>3, <2>4 DEF DhtInv, SilentWhenIdle, NoActivation
<1>11. CASE UNCHANGED dhtVars
  <2>1. DhtTypeOK' /\ \A h \in Hashes : SearchedFor(h)'
    BY <1>0, <1>11 DEF dhtVars, DhtTypeOK, SearchedFor, LookedAtAgain, CanWait
  <2> QED
    BY <1>0, <1>11, <2>1 DEF dhtVars, DhtInv, SilentWhenIdle, OpenIn
<1> QED
  BY <1>1, <1>2, <1>3, <1>4, <1>5, <1>6, <1>7, <1>8, <1>9, <1>10, <1>11 DEF DhtNext


HIDE SignalingAssumption

(* ------------------------------ bounded fetches ----------------------------- *)

\* The bits of one of an address's numbers that a range keeps, and the agreement
\* of two numbers in them.
KeptOf(bits, i) == IF bits >= 8 * i THEN 8 ELSE IF bits <= 8 * (i - 1) THEN 0 ELSE bits % 8

AgreeIn(x, y, kept) == x \div 2^(8 - kept) = y \div 2^(8 - kept)

LEMMA EachNumberAgrees ==
    ASSUME NEW a, NEW bits, NEW n1, NEW n2, NEW n3, NEW n4
    PROVE  InRange(a, <<n1, n2, n3, n4>>, bits) <=>
              /\ AgreeIn(a[1], n1, KeptOf(bits, 1)) /\ AgreeIn(a[2], n2, KeptOf(bits, 2))
              /\ AgreeIn(a[3], n3, KeptOf(bits, 3)) /\ AgreeIn(a[4], n4, KeptOf(bits, 4))
<1> DEFINE b == <<n1, n2, n3, n4>>
<1>1. b[1] = n1 /\ b[2] = n2 /\ b[3] = n3 /\ b[4] = n4
  OBVIOUS
<1> HIDE DEF b
<1>2. InRange(a, b, bits) <=> \A i \in 1..4 : AgreeIn(a[i], b[i], KeptOf(bits, i))
  BY DEF InRange, AgreeIn, KeptOf
<1>3. 1..4 = {1, 2, 3, 4}
  OBVIOUS
<1>4. InRange(a, b, bits) <=>
              /\ AgreeIn(a[1], b[1], KeptOf(bits, 1)) /\ AgreeIn(a[2], b[2], KeptOf(bits, 2))
              /\ AgreeIn(a[3], b[3], KeptOf(bits, 3)) /\ AgreeIn(a[4], b[4], KeptOf(bits, 4))
  BY <1>2, <1>3
<1> QED
  BY <1>1, <1>4 DEF b

LEMMA AgreeInAll ==
    ASSUME NEW x \in Nat, NEW y \in Nat
    PROVE  AgreeIn(x, y, 8) <=> x = y
BY DEF AgreeIn

LEMMA AgreeInNone ==
    ASSUME NEW x \in Nat, NEW y \in Nat, x <= 255, y <= 255
    PROVE  AgreeIn(x, y, 0)
BY DEF AgreeIn

LEMMA AgreeInSome ==
    ASSUME NEW x \in Nat
    PROVE  /\ AgreeIn(x, 64, 2) <=> 64 <= x /\ x <= 127
           /\ AgreeIn(x, 16, 4) <=> 16 <= x /\ x <= 31
           /\ AgreeIn(x, 18, 7) <=> 18 <= x /\ x <= 19
           /\ AgreeIn(x, 224, 4) <=> 224 <= x /\ x <= 239
           /\ AgreeIn(x, 240, 4) <=> 240 <= x /\ x <= 255
<1>1. AgreeIn(x, 64, 2) <=> 64 <= x /\ x <= 127
  BY DEF AgreeIn
<1>2. AgreeIn(x, 16, 4) <=> 16 <= x /\ x <= 31
  BY DEF AgreeIn
<1>3. AgreeIn(x, 18, 7) <=> 18 <= x /\ x <= 19
  BY DEF AgreeIn
<1>4. AgreeIn(x, 224, 4) <=> 224 <= x /\ x <= 239
  BY DEF AgreeIn
<1>5. AgreeIn(x, 240, 4) <=> 240 <= x /\ x <= 255
  BY DEF AgreeIn
<1> QED
  BY <1>1, <1>2, <1>3, <1>4, <1>5

\* An IPv4 address is four numbers of a byte.
FourBytes(a) ==
    \E w, x, y, z \in Nat :
        /\ a = <<w, x, y, z>>
        /\ a[1] = w /\ a[2] = x /\ a[3] = y /\ a[4] = z
        /\ w <= 255 /\ x <= 255 /\ y <= 255 /\ z <= 255

LEMMA NumbersAreBytes ==
    ASSUME NEW a, IsIpv4(a)
    PROVE  a[1] \in 0..255 /\ a[2] \in 0..255 /\ a[3] \in 0..255 /\ a[4] \in 0..255
BY DEF IsIpv4

LEMMA FourNumbers ==
    ASSUME NEW a \in Seq(Nat), Len(a) = 4
    PROVE  a = <<a[1], a[2], a[3], a[4]>>
OBVIOUS

LEMMA Ipv4IsFourBytes ==
    ASSUME NEW a \in Seq(Nat), IsIpv4(a)
    PROVE  FourBytes(a)
<1>1. a = <<a[1], a[2], a[3], a[4]>>
  BY FourNumbers DEF IsIpv4
<1>2. ASSUME NEW n \in 0..255 PROVE n \in Nat /\ n <= 255
  OBVIOUS
<1>3. /\ a[1] \in Nat /\ a[1] <= 255 /\ a[2] \in Nat /\ a[2] <= 255
      /\ a[3] \in Nat /\ a[3] <= 255 /\ a[4] \in Nat /\ a[4] <= 255
  BY <1>2, NumbersAreBytes, Zenon
<1> QED
  BY <1>1, <1>3, Zenon DEF FourBytes

\* Agreeing in the first bits is having the first numbers in common.
LEMMA RangeOfOne ==
    ASSUME NEW a, FourBytes(a), NEW n \in Nat
    PROVE  InRange(a, <<n, 0, 0, 0>>, 8) <=> a[1] = n
<1>1. KeptOf(8, 1) = 8 /\ KeptOf(8, 2) = 0 /\ KeptOf(8, 3) = 0 /\ KeptOf(8, 4) = 0
  BY DEF KeptOf
<1>2. PICK w \in Nat, x \in Nat, y \in Nat, z \in Nat :
         /\ a[1] = w /\ a[2] = x /\ a[3] = y /\ a[4] = z
         /\ w <= 255 /\ x <= 255 /\ y <= 255 /\ z <= 255
  BY DEF FourBytes
<1>3. InRange(a, <<n, 0, 0, 0>>, 8) <=>
         /\ AgreeIn(w, n, 8) /\ AgreeIn(x, 0, 0) /\ AgreeIn(y, 0, 0) /\ AgreeIn(z, 0, 0)
  BY <1>1, <1>2, EachNumberAgrees
<1>4. AgreeIn(x, 0, 0) /\ AgreeIn(y, 0, 0) /\ AgreeIn(z, 0, 0)
  BY <1>2, AgreeInNone
<1>5. AgreeIn(w, n, 8) <=> w = n
  BY AgreeInAll
<1> QED
  BY <1>2, <1>3, <1>4, <1>5

LEMMA RangeOfTwo ==
    ASSUME NEW a, FourBytes(a), NEW n \in Nat, NEW m \in Nat
    PROVE  InRange(a, <<n, m, 0, 0>>, 16) <=> a[1] = n /\ a[2] = m
<1>1. KeptOf(16, 1) = 8 /\ KeptOf(16, 2) = 8 /\ KeptOf(16, 3) = 0 /\ KeptOf(16, 4) = 0
  BY DEF KeptOf
<1>2. PICK w \in Nat, x \in Nat, y \in Nat, z \in Nat :
         /\ a[1] = w /\ a[2] = x /\ a[3] = y /\ a[4] = z
         /\ w <= 255 /\ x <= 255 /\ y <= 255 /\ z <= 255
  BY DEF FourBytes
<1>3. InRange(a, <<n, m, 0, 0>>, 16) <=>
         /\ AgreeIn(w, n, 8) /\ AgreeIn(x, m, 8) /\ AgreeIn(y, 0, 0) /\ AgreeIn(z, 0, 0)
  BY <1>1, <1>2, EachNumberAgrees
<1>4. AgreeIn(y, 0, 0) /\ AgreeIn(z, 0, 0)
  BY <1>2, AgreeInNone
<1>5. AgreeIn(w, n, 8) <=> w = n
  BY AgreeInAll
<1>6. AgreeIn(x, m, 8) <=> x = m
  BY AgreeInAll
<1> QED
  BY <1>2, <1>3, <1>4, <1>5, <1>6

LEMMA RangeOfThree ==
    ASSUME NEW a, FourBytes(a), NEW n \in Nat, NEW m \in Nat, NEW k \in Nat
    PROVE  InRange(a, <<n, m, k, 0>>, 24) <=> a[1] = n /\ a[2] = m /\ a[3] = k
<1>1. KeptOf(24, 1) = 8 /\ KeptOf(24, 2) = 8 /\ KeptOf(24, 3) = 8 /\ KeptOf(24, 4) = 0
  BY DEF KeptOf
<1>2. PICK w \in Nat, x \in Nat, y \in Nat, z \in Nat :
         /\ a[1] = w /\ a[2] = x /\ a[3] = y /\ a[4] = z
         /\ w <= 255 /\ x <= 255 /\ y <= 255 /\ z <= 255
  BY DEF FourBytes
<1>3. InRange(a, <<n, m, k, 0>>, 24) <=>
         /\ AgreeIn(w, n, 8) /\ AgreeIn(x, m, 8) /\ AgreeIn(y, k, 8) /\ AgreeIn(z, 0, 0)
  BY <1>1, <1>2, EachNumberAgrees
<1>4. AgreeIn(z, 0, 0)
  BY <1>2, AgreeInNone
<1>5. AgreeIn(w, n, 8) <=> w = n
  BY AgreeInAll
<1>6. AgreeIn(x, m, 8) <=> x = m
  BY AgreeInAll
<1>7. AgreeIn(y, k, 8) <=> y = k
  BY AgreeInAll
<1> QED
  BY <1>2, <1>3, <1>4, <1>5, <1>6, <1>7

\* The ranges that end within a number.
LEMMA RangesWithinOctets ==
    ASSUME NEW a, FourBytes(a)
    PROVE  /\ InRange(a, <<100, 64, 0, 0>>, 10) <=> a[1] = 100 /\ 64 <= a[2] /\ a[2] <= 127
           /\ InRange(a, <<172, 16, 0, 0>>, 12) <=> a[1] = 172 /\ 16 <= a[2] /\ a[2] <= 31
           /\ InRange(a, <<198, 18, 0, 0>>, 15) <=> a[1] = 198 /\ 18 <= a[2] /\ a[2] <= 19
           /\ InRange(a, <<224, 0, 0, 0>>, 4) <=> 224 <= a[1] /\ a[1] <= 239
           /\ InRange(a, <<240, 0, 0, 0>>, 4) <=> 240 <= a[1] /\ a[1] <= 255
<1>1. /\ KeptOf(10, 1) = 8 /\ KeptOf(10, 2) = 2 /\ KeptOf(10, 3) = 0 /\ KeptOf(10, 4) = 0
      /\ KeptOf(12, 1) = 8 /\ KeptOf(12, 2) = 4 /\ KeptOf(12, 3) = 0 /\ KeptOf(12, 4) = 0
      /\ KeptOf(15, 1) = 8 /\ KeptOf(15, 2) = 7 /\ KeptOf(15, 3) = 0 /\ KeptOf(15, 4) = 0
      /\ KeptOf(4, 1) = 4 /\ KeptOf(4, 2) = 0 /\ KeptOf(4, 3) = 0 /\ KeptOf(4, 4) = 0
  BY DEF KeptOf
<1>2. PICK w \in Nat, x \in Nat, y \in Nat, z \in Nat :
         /\ a[1] = w /\ a[2] = x /\ a[3] = y /\ a[4] = z
         /\ w <= 255 /\ x <= 255 /\ y <= 255 /\ z <= 255
  BY DEF FourBytes
<1>3. AgreeIn(x, 0, 0) /\ AgreeIn(y, 0, 0) /\ AgreeIn(z, 0, 0)
  BY <1>2, AgreeInNone
<1>4. InRange(a, <<100, 64, 0, 0>>, 10) <=> a[1] = 100 /\ 64 <= a[2] /\ a[2] <= 127
  <2>1. InRange(a, <<100, 64, 0, 0>>, 10) <=>
           /\ AgreeIn(w, 100, 8) /\ AgreeIn(x, 64, 2) /\ AgreeIn(y, 0, 0) /\ AgreeIn(z, 0, 0)
    BY <1>1, <1>2, EachNumberAgrees
  <2>2. AgreeIn(w, 100, 8) <=> w = 100
    BY AgreeInAll
  <2>3. AgreeIn(x, 64, 2) <=> 64 <= x /\ x <= 127
    BY AgreeInSome
  <2> QED
    BY <1>2, <1>3, <2>1, <2>2, <2>3
<1>5. InRange(a, <<172, 16, 0, 0>>, 12) <=> a[1] = 172 /\ 16 <= a[2] /\ a[2] <= 31
  <2>1. InRange(a, <<172, 16, 0, 0>>, 12) <=>
           /\ AgreeIn(w, 172, 8) /\ AgreeIn(x, 16, 4) /\ AgreeIn(y, 0, 0) /\ AgreeIn(z, 0, 0)
    BY <1>1, <1>2, EachNumberAgrees
  <2>2. AgreeIn(w, 172, 8) <=> w = 172
    BY AgreeInAll
  <2>3. AgreeIn(x, 16, 4) <=> 16 <= x /\ x <= 31
    BY AgreeInSome
  <2> QED
    BY <1>2, <1>3, <2>1, <2>2, <2>3
<1>6. InRange(a, <<198, 18, 0, 0>>, 15) <=> a[1] = 198 /\ 18 <= a[2] /\ a[2] <= 19
  <2>1. InRange(a, <<198, 18, 0, 0>>, 15) <=>
           /\ AgreeIn(w, 198, 8) /\ AgreeIn(x, 18, 7) /\ AgreeIn(y, 0, 0) /\ AgreeIn(z, 0, 0)
    BY <1>1, <1>2, EachNumberAgrees
  <2>2. AgreeIn(w, 198, 8) <=> w = 198
    BY AgreeInAll
  <2>3. AgreeIn(x, 18, 7) <=> 18 <= x /\ x <= 19
    BY AgreeInSome
  <2> QED
    BY <1>2, <1>3, <2>1, <2>2, <2>3
<1>7. InRange(a, <<224, 0, 0, 0>>, 4) <=> AgreeIn(w, 224, 4)
  BY <1>1, <1>2, <1>3, EachNumberAgrees
<1>8. InRange(a, <<240, 0, 0, 0>>, 4) <=> AgreeIn(w, 240, 4)
  BY <1>1, <1>2, <1>3, EachNumberAgrees
<1>9. /\ AgreeIn(w, 224, 4) <=> 224 <= w /\ w <= 239
      /\ AgreeIn(w, 240, 4) <=> 240 <= w /\ w <= 255
  BY AgreeInSome
<1> QED
  BY <1>2, <1>4, <1>5, <1>6, <1>7, <1>8, <1>9

\* One address is at most another when the first number in which they differ is
\* the less, and between the ends of a block when it begins as both do.
Four(u) ==
    /\ u[1] \in Nat /\ u[2] \in Nat /\ u[3] \in Nat /\ u[4] \in Nat
    /\ u = <<u[1], u[2], u[3], u[4]>>

LEMMA InOrder ==
    ASSUME NEW u, NEW v, Four(u), Four(v)
    PROVE  AtMost(u, v) <=>
              \/ u[1] < v[1]
              \/ u[1] = v[1] /\ u[2] < v[2]
              \/ u[1] = v[1] /\ u[2] = v[2] /\ u[3] < v[3]
              \/ u[1] = v[1] /\ u[2] = v[2] /\ u[3] = v[3] /\ u[4] <= v[4]
<1> DEFINE Differ(i) == u[i] < v[i] /\ \A j \in 1..(i - 1) : u[j] = v[j]
<1>1. /\ u[1] \in Nat /\ u[2] \in Nat /\ u[3] \in Nat /\ u[4] \in Nat
      /\ v[1] \in Nat /\ v[2] \in Nat /\ v[3] \in Nat /\ v[4] \in Nat
  BY DEF Four
<1>2. u = v <=> u[1] = v[1] /\ u[2] = v[2] /\ u[3] = v[3] /\ u[4] = v[4]
  BY DEF Four
<1>3. AtMost(u, v) <=> u = v \/ \E i \in 1..4 : Differ(i)
  BY DEF AtMost
<1>4. /\ 1..4 = {1, 2, 3, 4} /\ 1..(4 - 1) = {1, 2, 3}
      /\ 1..(3 - 1) = {1, 2} /\ 1..(2 - 1) = {1} /\ 1..(1 - 1) = {}
  OBVIOUS
<1>5. /\ Differ(1) <=> u[1] < v[1]
      /\ Differ(2) <=> u[2] < v[2] /\ u[1] = v[1]
      /\ Differ(3) <=> u[3] < v[3] /\ u[1] = v[1] /\ u[2] = v[2]
      /\ Differ(4) <=> u[4] < v[4] /\ u[1] = v[1] /\ u[2] = v[2] /\ u[3] = v[3]
  BY <1>4
<1> HIDE DEF Differ
<1>6. AtMost(u, v) <=> u = v \/ Differ(1) \/ Differ(2) \/ Differ(3) \/ Differ(4)
  BY <1>3, <1>4
<1> QED
  BY <1>1, <1>2, <1>5, <1>6

LEMMA BetweenOne ==
    ASSUME NEW a, FourBytes(a), NEW n \in Nat
    PROVE  Within(a, <<n, 0, 0, 0>>, <<n, 255, 255, 255>>) <=> a[1] = n
<1> DEFINE f == <<n, 0, 0, 0>>
           g == <<n, 255, 255, 255>>
<1>1. /\ Four(a) /\ a[1] \in Nat /\ a[2] \in Nat /\ a[3] \in Nat /\ a[4] \in Nat
      /\ a[1] <= 255 /\ a[2] <= 255 /\ a[3] <= 255 /\ a[4] <= 255
  BY DEF FourBytes, Four
<1>2. /\ Four(f) /\ f[1] = n /\ f[2] = 0 /\ f[3] = 0 /\ f[4] = 0
      /\ Four(g) /\ g[1] = n /\ g[2] = 255 /\ g[3] = 255 /\ g[4] = 255
  BY DEF Four
<1> HIDE DEF f, g
<1>3. AtMost(f, a) <=> n <= a[1]
  BY <1>1, <1>2, InOrder
<1>4. AtMost(a, g) <=> a[1] <= n
  BY <1>1, <1>2, InOrder
<1>5. Within(a, f, g) <=> a[1] = n
  BY <1>1, <1>3, <1>4 DEF Within
<1> QED
  BY <1>5 DEF f, g

LEMMA BetweenTwo ==
    ASSUME NEW a, FourBytes(a), NEW n \in Nat, NEW m \in Nat, NEW l \in Nat, m <= l
    PROVE  Within(a, <<n, m, 0, 0>>, <<n, l, 255, 255>>) <=> a[1] = n /\ m <= a[2] /\ a[2] <= l
<1> DEFINE f == <<n, m, 0, 0>>
           g == <<n, l, 255, 255>>
<1>1. /\ Four(a) /\ a[1] \in Nat /\ a[2] \in Nat /\ a[3] \in Nat /\ a[4] \in Nat
      /\ a[1] <= 255 /\ a[2] <= 255 /\ a[3] <= 255 /\ a[4] <= 255
  BY DEF FourBytes, Four
<1>2. /\ Four(f) /\ f[1] = n /\ f[2] = m /\ f[3] = 0 /\ f[4] = 0
      /\ Four(g) /\ g[1] = n /\ g[2] = l /\ g[3] = 255 /\ g[4] = 255
  BY DEF Four
<1> HIDE DEF f, g
<1>3. AtMost(f, a) <=> n < a[1] \/ (n = a[1] /\ m <= a[2])
  BY <1>1, <1>2, InOrder
<1>4. AtMost(a, g) <=> a[1] < n \/ (a[1] = n /\ a[2] <= l)
  BY <1>1, <1>2, InOrder
<1>5. Within(a, f, g) <=> a[1] = n /\ m <= a[2] /\ a[2] <= l
  BY <1>1, <1>3, <1>4 DEF Within
<1> QED
  BY <1>5 DEF f, g

LEMMA BetweenThree ==
    ASSUME NEW a, FourBytes(a), NEW n \in Nat, NEW m \in Nat, NEW k \in Nat
    PROVE  Within(a, <<n, m, k, 0>>, <<n, m, k, 255>>) <=> a[1] = n /\ a[2] = m /\ a[3] = k
<1> DEFINE f == <<n, m, k, 0>>
           g == <<n, m, k, 255>>
<1>1. /\ Four(a) /\ a[1] \in Nat /\ a[2] \in Nat /\ a[3] \in Nat /\ a[4] \in Nat
      /\ a[1] <= 255 /\ a[2] <= 255 /\ a[3] <= 255 /\ a[4] <= 255
  BY DEF FourBytes, Four
<1>2. /\ Four(f) /\ f[1] = n /\ f[2] = m /\ f[3] = k /\ f[4] = 0
      /\ Four(g) /\ g[1] = n /\ g[2] = m /\ g[3] = k /\ g[4] = 255
  BY DEF Four
<1> HIDE DEF f, g
<1>3. AtMost(f, a) <=> n < a[1] \/ (n = a[1] /\ m < a[2]) \/ (n = a[1] /\ m = a[2] /\ k <= a[3])
  BY <1>1, <1>2, InOrder
<1>4. AtMost(a, g) <=> a[1] < n \/ (a[1] = n /\ a[2] < m) \/ (a[1] = n /\ a[2] = m /\ a[3] <= k)
  BY <1>1, <1>2, InOrder
<1>5. Within(a, f, g) <=> a[1] = n /\ a[2] = m /\ a[3] = k
  BY <1>1, <1>3, <1>4 DEF Within
<1> QED
  BY <1>5 DEF f, g

\* The three private networks, and all special-purpose blocks, by the first
\* numbers of an address.
PrivateNumbers(a) ==
    \/ a[1] = 10
    \/ a[1] = 172 /\ 16 <= a[2] /\ a[2] <= 31
    \/ a[1] = 192 /\ a[2] = 168

SpecialNumbers(a) ==
    \/ PrivateNumbers(a)
    \/ a[1] = 0
    \/ a[1] = 100 /\ 64 <= a[2] /\ a[2] <= 127
    \/ a[1] = 127
    \/ a[1] = 169 /\ a[2] = 254
    \/ a[1] = 192 /\ a[2] = 0 /\ a[3] = 0
    \/ a[1] = 192 /\ a[2] = 0 /\ a[3] = 2
    \/ a[1] = 198 /\ 18 <= a[2] /\ a[2] <= 19
    \/ a[1] = 198 /\ a[2] = 51 /\ a[3] = 100
    \/ a[1] = 203 /\ a[2] = 0 /\ a[3] = 113
    \/ 224 <= a[1]

LEMMA BlocksByNumbers ==
    ASSUME NEW a, FourBytes(a)
    PROVE  /\ PrivateUse(a) <=> PrivateNumbers(a)
           /\ SpecialPurpose(a) <=> SpecialNumbers(a)
<1>1. /\ a[1] \in Nat /\ a[1] <= 255 /\ a[2] \in Nat /\ a[2] <= 255
      /\ a[3] \in Nat /\ a[3] <= 255 /\ Four(a)
  BY DEF FourBytes, Four
<1>2. /\ Within(a, <<10, 0, 0, 0>>, <<10, 255, 255, 255>>) <=> a[1] = 10
      /\ Within(a, <<0, 0, 0, 0>>, <<0, 255, 255, 255>>) <=> a[1] = 0
      /\ Within(a, <<127, 0, 0, 0>>, <<127, 255, 255, 255>>) <=> a[1] = 127
  BY BetweenOne
<1>3. Within(a, <<172, 16, 0, 0>>, <<172, 31, 255, 255>>) <=>
         a[1] = 172 /\ 16 <= a[2] /\ a[2] <= 31
  <2>1. 172 \in Nat /\ 16 \in Nat /\ 31 \in Nat /\ 16 <= 31
    OBVIOUS
  <2> QED
    BY <2>1, BetweenTwo
<1>4. Within(a, <<192, 168, 0, 0>>, <<192, 168, 255, 255>>) <=>
         a[1] = 192 /\ 168 <= a[2] /\ a[2] <= 168
  <2>1. 192 \in Nat /\ 168 \in Nat /\ 168 <= 168
    OBVIOUS
  <2> QED
    BY <2>1, BetweenTwo
<1>5. Within(a, <<100, 64, 0, 0>>, <<100, 127, 255, 255>>) <=>
         a[1] = 100 /\ 64 <= a[2] /\ a[2] <= 127
  <2>1. 100 \in Nat /\ 64 \in Nat /\ 127 \in Nat /\ 64 <= 127
    OBVIOUS
  <2> QED
    BY <2>1, BetweenTwo
<1>6. Within(a, <<169, 254, 0, 0>>, <<169, 254, 255, 255>>) <=>
         a[1] = 169 /\ 254 <= a[2] /\ a[2] <= 254
  <2>1. 169 \in Nat /\ 254 \in Nat /\ 254 <= 254
    OBVIOUS
  <2> QED
    BY <2>1, BetweenTwo
<1>7. Within(a, <<198, 18, 0, 0>>, <<198, 19, 255, 255>>) <=>
         a[1] = 198 /\ 18 <= a[2] /\ a[2] <= 19
  <2>1. 198 \in Nat /\ 18 \in Nat /\ 19 \in Nat /\ 18 <= 19
    OBVIOUS
  <2> QED
    BY <2>1, BetweenTwo
<1>8. /\ Within(a, <<192, 0, 0, 0>>, <<192, 0, 0, 255>>) <=> a[1] = 192 /\ a[2] = 0 /\ a[3] = 0
      /\ Within(a, <<192, 0, 2, 0>>, <<192, 0, 2, 255>>) <=> a[1] = 192 /\ a[2] = 0 /\ a[3] = 2
      /\ Within(a, <<198, 51, 100, 0>>, <<198, 51, 100, 255>>) <=>
            a[1] = 198 /\ a[2] = 51 /\ a[3] = 100
      /\ Within(a, <<203, 0, 113, 0>>, <<203, 0, 113, 255>>) <=>
            a[1] = 203 /\ a[2] = 0 /\ a[3] = 113
  BY BetweenThree
<1>9. Within(a, <<224, 0, 0, 0>>, <<255, 255, 255, 255>>) <=> 224 <= a[1]
  <2> DEFINE first == <<224, 0, 0, 0>>
             last == <<255, 255, 255, 255>>
  <2>1. /\ Four(first) /\ first[1] = 224 /\ first[2] = 0 /\ first[3] = 0 /\ first[4] = 0
        /\ Four(last) /\ last[1] = 255 /\ last[2] = 255 /\ last[3] = 255 /\ last[4] = 255
    BY DEF Four
  <2> HIDE DEF first, last
  <2>2. a[4] \in Nat /\ a[4] <= 255
    BY DEF FourBytes
  <2>3. AtMost(first, a) <=> 224 <= a[1]
    BY <1>1, <2>1, <2>2, InOrder
  <2>4. AtMost(a, last)
    BY <1>1, <2>1, <2>2, InOrder
  <2> QED
    BY <2>3, <2>4 DEF Within, first, last
<1>10. PrivateUse(a) <=> PrivateNumbers(a)
  <2>1. 168 <= a[2] /\ a[2] <= 168 <=> a[2] = 168
    BY <1>1
  <2> QED
    BY <1>2, <1>3, <1>4, <2>1 DEF PrivateUse, PrivateNumbers
<1>11. SpecialPurpose(a) <=> SpecialNumbers(a)
  <2>1. 254 <= a[2] /\ a[2] <= 254 <=> a[2] = 254
    BY <1>1
  <2> QED
    BY <1>2, <1>5, <1>6, <1>7, <1>8, <1>9, <1>10, <2>1 DEF SpecialPurpose, SpecialNumbers
<1> QED
  BY <1>10, <1>11

LEMMA RangesByNumbers ==
    ASSUME NEW a, FourBytes(a), IsIpv4(a)
    PROVE  /\ IsPrivateNetworkIpv4(a) <=> PrivateNumbers(a)
           /\ IsPublicIpv4(a) <=> ~ SpecialNumbers(a)
<1>1. /\ a[1] \in Nat /\ a[1] <= 255 /\ a[2] \in Nat /\ a[2] <= 255
      /\ a[3] \in Nat /\ a[3] <= 255
  BY DEF FourBytes
<1>2. /\ InRange(a, <<0, 0, 0, 0>>, 8) <=> a[1] = 0
      /\ InRange(a, <<10, 0, 0, 0>>, 8) <=> a[1] = 10
      /\ InRange(a, <<127, 0, 0, 0>>, 8) <=> a[1] = 127
  BY RangeOfOne
<1>3. /\ InRange(a, <<169, 254, 0, 0>>, 16) <=> a[1] = 169 /\ a[2] = 254
      /\ InRange(a, <<192, 168, 0, 0>>, 16) <=> a[1] = 192 /\ a[2] = 168
  BY RangeOfTwo
<1>4. /\ InRange(a, <<192, 0, 0, 0>>, 24) <=> a[1] = 192 /\ a[2] = 0 /\ a[3] = 0
      /\ InRange(a, <<192, 0, 2, 0>>, 24) <=> a[1] = 192 /\ a[2] = 0 /\ a[3] = 2
      /\ InRange(a, <<198, 51, 100, 0>>, 24) <=> a[1] = 198 /\ a[2] = 51 /\ a[3] = 100
      /\ InRange(a, <<203, 0, 113, 0>>, 24) <=> a[1] = 203 /\ a[2] = 0 /\ a[3] = 113
  BY RangeOfThree
<1>5. /\ InRange(a, <<100, 64, 0, 0>>, 10) <=> a[1] = 100 /\ 64 <= a[2] /\ a[2] <= 127
      /\ InRange(a, <<172, 16, 0, 0>>, 12) <=> a[1] = 172 /\ 16 <= a[2] /\ a[2] <= 31
      /\ InRange(a, <<198, 18, 0, 0>>, 15) <=> a[1] = 198 /\ 18 <= a[2] /\ a[2] <= 19
      /\ InRange(a, <<224, 0, 0, 0>>, 4) <=> 224 <= a[1] /\ a[1] <= 239
      /\ InRange(a, <<240, 0, 0, 0>>, 4) <=> 240 <= a[1] /\ a[1] <= 255
  BY RangesWithinOctets
<1>6. IsPrivateNetworkIpv4(a) <=> PrivateNumbers(a)
  BY <1>2, <1>3, <1>5 DEF IsPrivateNetworkIpv4, PrivateNumbers
<1>7. ASSUME NEW b, NEW n
      PROVE  InRange(a, <<b, n>>[1], <<b, n>>[2]) <=> InRange(a, b, n)
  <2>1. <<b, n>>[1] = b /\ <<b, n>>[2] = n
    OBVIOUS
  <2> QED
    BY <2>1
<1>8. IsPublicIpv4(a) <=>
        ~ (\/ InRange(a, <<0, 0, 0, 0>>, 8) \/ InRange(a, <<10, 0, 0, 0>>, 8)
           \/ InRange(a, <<100, 64, 0, 0>>, 10) \/ InRange(a, <<127, 0, 0, 0>>, 8)
           \/ InRange(a, <<169, 254, 0, 0>>, 16) \/ InRange(a, <<172, 16, 0, 0>>, 12)
           \/ InRange(a, <<192, 0, 0, 0>>, 24) \/ InRange(a, <<192, 0, 2, 0>>, 24)
           \/ InRange(a, <<192, 168, 0, 0>>, 16) \/ InRange(a, <<198, 18, 0, 0>>, 15)
           \/ InRange(a, <<198, 51, 100, 0>>, 24) \/ InRange(a, <<203, 0, 113, 0>>, 24)
           \/ InRange(a, <<224, 0, 0, 0>>, 4) \/ InRange(a, <<240, 0, 0, 0>>, 4))
  <2> DEFINE In(r) == InRange(a, r[1], r[2])
  <2>1. IsPublicIpv4(a) <=> ~ \E r \in BlockedRanges : In(r)
    BY DEF IsPublicIpv4
  <2>2. /\ In(<<<<0, 0, 0, 0>>, 8>>) <=> InRange(a, <<0, 0, 0, 0>>, 8)
        /\ In(<<<<10, 0, 0, 0>>, 8>>) <=> InRange(a, <<10, 0, 0, 0>>, 8)
        /\ In(<<<<100, 64, 0, 0>>, 10>>) <=> InRange(a, <<100, 64, 0, 0>>, 10)
        /\ In(<<<<127, 0, 0, 0>>, 8>>) <=> InRange(a, <<127, 0, 0, 0>>, 8)
        /\ In(<<<<169, 254, 0, 0>>, 16>>) <=> InRange(a, <<169, 254, 0, 0>>, 16)
        /\ In(<<<<172, 16, 0, 0>>, 12>>) <=> InRange(a, <<172, 16, 0, 0>>, 12)
        /\ In(<<<<192, 0, 0, 0>>, 24>>) <=> InRange(a, <<192, 0, 0, 0>>, 24)
        /\ In(<<<<192, 0, 2, 0>>, 24>>) <=> InRange(a, <<192, 0, 2, 0>>, 24)
        /\ In(<<<<192, 168, 0, 0>>, 16>>) <=> InRange(a, <<192, 168, 0, 0>>, 16)
        /\ In(<<<<198, 18, 0, 0>>, 15>>) <=> InRange(a, <<198, 18, 0, 0>>, 15)
        /\ In(<<<<198, 51, 100, 0>>, 24>>) <=> InRange(a, <<198, 51, 100, 0>>, 24)
        /\ In(<<<<203, 0, 113, 0>>, 24>>) <=> InRange(a, <<203, 0, 113, 0>>, 24)
        /\ In(<<<<224, 0, 0, 0>>, 4>>) <=> InRange(a, <<224, 0, 0, 0>>, 4)
        /\ In(<<<<240, 0, 0, 0>>, 4>>) <=> InRange(a, <<240, 0, 0, 0>>, 4)
    BY <1>7
  <2> HIDE DEF In
  <2>3. (\E r \in BlockedRanges : In(r)) <=>
           \/ In(<<<<0, 0, 0, 0>>, 8>>) \/ In(<<<<10, 0, 0, 0>>, 8>>)
           \/ In(<<<<100, 64, 0, 0>>, 10>>) \/ In(<<<<127, 0, 0, 0>>, 8>>)
           \/ In(<<<<169, 254, 0, 0>>, 16>>) \/ In(<<<<172, 16, 0, 0>>, 12>>)
           \/ In(<<<<192, 0, 0, 0>>, 24>>) \/ In(<<<<192, 0, 2, 0>>, 24>>)
           \/ In(<<<<192, 168, 0, 0>>, 16>>) \/ In(<<<<198, 18, 0, 0>>, 15>>)
           \/ In(<<<<198, 51, 100, 0>>, 24>>) \/ In(<<<<203, 0, 113, 0>>, 24>>)
           \/ In(<<<<224, 0, 0, 0>>, 4>>) \/ In(<<<<240, 0, 0, 0>>, 4>>)
    BY DEF BlockedRanges
  <2> QED
    BY <2>1, <2>2, <2>3
<1>9. SpecialNumbers(a) <=>
        \/ a[1] = 0 \/ a[1] = 10 \/ a[1] = 127 \/ 224 <= a[1]
        \/ a[1] = 100 /\ 64 <= a[2] /\ a[2] <= 127
        \/ a[1] = 169 /\ a[2] = 254
        \/ a[1] = 172 /\ 16 <= a[2] /\ a[2] <= 31
        \/ a[1] = 192 /\ a[2] = 0 /\ a[3] = 0
        \/ a[1] = 192 /\ a[2] = 0 /\ a[3] = 2
        \/ a[1] = 192 /\ a[2] = 168
        \/ a[1] = 198 /\ 18 <= a[2] /\ a[2] <= 19
        \/ a[1] = 198 /\ a[2] = 51 /\ a[3] = 100
        \/ a[1] = 203 /\ a[2] = 0 /\ a[3] = 113
  BY Zenon DEF SpecialNumbers, PrivateNumbers
<1>10. 224 <= a[1] <=> (224 <= a[1] /\ a[1] <= 239) \/ (240 <= a[1] /\ a[1] <= 255)
  BY <1>1
<1> QED
  BY <1>2, <1>3, <1>4, <1>5, <1>6, <1>8, <1>9, <1>10

\* The code's ranges of bits and the blocks are the same addresses.
LEMMA RangesAreTheBlocks ==
    ASSUME NEW a \in Seq(Nat), IsIpv4(a)
    PROVE  /\ IsPrivateNetworkIpv4(a) <=> PrivateUse(a)
           /\ IsPublicIpv4(a) <=> ~ SpecialPurpose(a)
<1>1. FourBytes(a)
  BY Ipv4IsFourBytes
<1> QED
  BY <1>1, BlocksByNumbers, RangesByNumbers, Zenon

\* What a fetch may connect to is a public address, or one of a private network
\* where that is allowed.
LEMMA AllowedIsOrdinary ==
    ASSUME NEW a \in Seq(Nat), Allowed(a)
    PROVE  SpecialPurpose(a) => AllowPrivate /\ PrivateUse(a)
<1>1. /\ IsIpv4(a)
      /\ IsPublicIpv4(a) \/ (AllowPrivate /\ IsPrivateNetworkIpv4(a))
  BY DEF Allowed, AddressAllowed, IsPublicIpv4, IsPrivateNetworkIpv4, IsLoopbackIpv4
<1> QED
  BY <1>1, RangesAreTheBlocks, Zenon

Profiles == {"remote-torrent", "tracker-http"}

Hops == {"none", "redirect", "success", "REFUSED", "BODY_TOO_LARGE", "ABORTED",
         "REQUEST_FAILED", "REQUEST_TIMEOUT"}

Codes == Hops \union {"waiting", "OK", "CONCURRENCY_LIMIT", "INVALID", "TIMEOUT",
                       "NETWORK_FAILED"}

FetchRecord ==
    [kind : Profiles, stage : FetchStages, url : FetchUrls, http : BOOLEAN,
     redirects : 0..MaxRedirects, answer : Seq(Seq(Nat)), address : Seq(Nat),
     bytes : 0..MaxBytes, hop : Hops, aborted : BOOLEAN, late : BOOLEAN,
     call : Codes, secure : BOOLEAN]

Works(r) == r.stage \notin {"idle", "done"}

\* What holds of each fetch by itself.
FetchSound(r) ==
    /\ r.stage \in {"requesting", "body"} =>
          /\ \A i \in 1..Len(r.answer) : Allowed(r.answer[i])
          /\ \E i \in 1..Len(r.answer) : r.answer[i] = r.address
    /\ Works(r) /\ r.secure => r.url.scheme = "https"
    /\ Works(r) \/ r.aborted \/ r.late => r.call # "OK"

\* The fetches that hold a slot of their profile.
Slots(kind) == {f \in Fetches : Works(fetch[f]) /\ fetch[f].kind = kind}

FetchInv ==
    /\ fetch \in [Fetches -> FetchRecord]
    /\ \A f \in Fetches : FetchSound(fetch[f])
    /\ remoteActive = Cardinality(Slots("remote-torrent")) /\ remoteActive <= MaxRemote
    /\ gateActive = Cardinality(Slots("tracker-http")) /\ gateActive <= GateMaximum

LEMMA FetchInvMeans == FetchInv => FetchesStayWithinPolicy
<1> SUFFICES ASSUME FetchInv PROVE FetchTypeOK /\ FetchStaysAllowed /\ SlotsFollowConnections
  BY DEF FetchesStayWithinPolicy
<1>1. ASSUME NEW kind
      PROVE  /\ IsFiniteSet(Slots(kind)) /\ Cardinality(Slots(kind)) \in 0..Cardinality(Fetches)
             /\ Slots(kind) = {f \in Fetches : Running(f) /\ Is(f, kind)}
  <2>1. Slots(kind) \subseteq Fetches
    BY DEF Slots
  <2>2. Cardinality(Slots(kind)) \in Nat /\ Cardinality(Fetches) \in Nat
        /\ Cardinality(Slots(kind)) <= Cardinality(Fetches) /\ IsFiniteSet(Slots(kind))
    BY <2>1, FetchAssumption, FS_Subset, FS_CardinalityType
  <2> QED
    BY <2>2 DEF Slots, Works, Running, Is
<1>2. \A f \in Fetches : /\ fetch[f] \in FetchRecord /\ FetchSound(fetch[f])
                         /\ Running(f) <=> Works(fetch[f])
  BY DEF FetchInv, Running, Works
<1>3. FetchTypeOK
  BY <1>1, <1>2 DEF FetchTypeOK, FetchInv, FetchRecord
<1>4. SlotsFollowConnections
  BY <1>1, <1>2 DEF SlotsFollowConnections, FetchInv, FetchSound
<1>5. FetchStaysAllowed
  <2>1. ASSUME NEW f \in Fetches, fetch[f].stage \in {"requesting", "body"},
               NEW i \in 1..Len(fetch[f].answer), SpecialPurpose(fetch[f].answer[i])
        PROVE  AllowPrivate /\ PrivateUse(fetch[f].answer[i])
    <3>1. fetch[f].answer[i] \in Seq(Nat) /\ Allowed(fetch[f].answer[i])
      BY <1>2, <2>1 DEF FetchRecord, FetchSound
    <3> QED
      BY <2>1, <3>1, AllowedIsOrdinary
  <2> QED
    BY <1>2, <2>1 DEF FetchStaysAllowed, FetchSound
<1> QED
  BY <1>3, <1>4, <1>5

LEMMA IdleIsAFetch ==
    ASSUME NEW kind \in Profiles
    PROVE  Idle(kind) \in FetchRecord /\ FetchSound(Idle(kind)) /\ ~ Works(Idle(kind))
           /\ Idle(kind).kind = kind
<1>1. (CHOOSE u \in FetchUrls : TRUE) \in FetchUrls
  BY FetchAssumption
<1>2. 0 \in 0..MaxRedirects /\ 0 \in 0..MaxBytes /\ <<>> \in Seq(Nat) /\ <<>> \in Seq(Seq(Nat))
  BY FetchAssumption
<1>3. "idle" \in FetchStages /\ "none" \in Hops /\ "none" \in Codes
  BY DEF FetchStages, Hops, Codes
<1>4. Idle(kind) \in FetchRecord
  BY <1>1, <1>2, <1>3 DEF Idle, FetchRecord
<1> QED
  BY <1>4 DEF Idle, FetchSound, Works

LEMMA FetchStarts == FetchInit => FetchInv
<1> SUFFICES ASSUME FetchInit PROVE FetchInv
  OBVIOUS
<1>1. PICK k \in [Fetches -> {"remote-torrent", "tracker-http"}] :
          fetch = [f \in Fetches |-> Idle(k[f])]
  BY DEF FetchInit
<1>2. \A f \in Fetches : fetch[f] \in FetchRecord /\ FetchSound(fetch[f]) /\ ~ Works(fetch[f])
  BY <1>1, IdleIsAFetch DEF Profiles
<1>3. \A kind : Slots(kind) = {}
  BY <1>2 DEF Slots
<1>4. fetch \in [Fetches -> FetchRecord]
  BY <1>1, <1>2
<1>5. Cardinality(Slots("remote-torrent")) = 0 /\ Cardinality(Slots("tracker-http")) = 0
  BY <1>3, FS_EmptySet
<1> QED
  BY <1>2, <1>4, <1>5, FetchAssumption DEF FetchInv, FetchInit

\* A step of one fetch, which takes a slot as it begins and gives it back as it
\* ends.
LEMMA StepOfOneFetch ==
    ASSUME FetchInv, NEW f \in Fetches, NEW r \in FetchRecord, FetchSound(r),
           fetch' = [fetch EXCEPT ![f] = r], r.kind = fetch[f].kind,
           NEW d \in {-1, 0, 1},
           \/ d = 0 /\ Works(r) = Works(fetch[f])
           \/ d = 1 /\ Works(r) /\ ~ Works(fetch[f])
           \/ d = -1 /\ ~ Works(r) /\ Works(fetch[f]),
           remoteActive' = remoteActive + (IF fetch[f].kind = "remote-torrent" THEN d ELSE 0),
           gateActive' = gateActive + (IF fetch[f].kind = "tracker-http" THEN d ELSE 0),
           d = 1 => IF fetch[f].kind = "remote-torrent" THEN remoteActive < MaxRemote
                                                        ELSE gateActive < GateMaximum
    PROVE  FetchInv'
<1>0. fetch[f] \in FetchRecord /\ fetch[f].kind \in Profiles /\ Works(r) \in BOOLEAN
      /\ Works(fetch[f]) \in BOOLEAN
  BY DEF FetchInv, FetchRecord, Works
<1>1. /\ fetch' \in [Fetches -> FetchRecord] /\ fetch'[f] = r
      /\ \A g \in Fetches \ {f} : fetch'[g] = fetch[g]
  BY DEF FetchInv
<1>2. \A g \in Fetches : FetchSound(fetch'[g])
  BY <1>1 DEF FetchInv
<1>3. \A kind : IsFiniteSet(Slots(kind))
  BY FetchAssumption, FS_Subset DEF Slots
<1>4. ASSUME NEW kind \in Profiles
      PROVE  Cardinality(Slots(kind)') = Cardinality(Slots(kind)) +
                (IF fetch[f].kind = kind THEN d ELSE 0)
  <2>0. Cardinality(Slots(kind)) \in Int
    BY <1>3, FS_CardinalityType
  <2>1. Slots(kind)' = {g \in Fetches : Works(fetch'[g]) /\ fetch'[g].kind = kind}
    BY DEF Slots, Works
  <2>2. CASE fetch[f].kind # kind \/ d = 0
    <3>0. fetch[f].kind # kind \/ Works(r) = Works(fetch[f])
      BY <2>2
    <3>1. Slots(kind)' = Slots(kind)
      BY <1>1, <2>1, <3>0 DEF Slots
    <3> QED
      BY <2>0, <2>2, <3>1
  <2>3. CASE fetch[f].kind = kind /\ d = 1
    <3>0. Works(r) /\ ~ Works(fetch[f])
      BY <2>3
    <3>1. Slots(kind)' = Slots(kind) \union {f} /\ f \notin Slots(kind)
      BY <1>1, <2>1, <2>3, <3>0 DEF Slots
    <3>2. Cardinality(Slots(kind)') = Cardinality(Slots(kind)) + 1
      BY <1>3, <3>1, FS_AddElement
    <3> QED
      BY <2>3, <3>2
  <2>4. CASE fetch[f].kind = kind /\ d = -1
    <3>0. ~ Works(r) /\ Works(fetch[f])
      BY <2>4
    <3>1. Slots(kind)' = Slots(kind) \ {f} /\ f \in Slots(kind)
      BY <1>1, <2>1, <2>4, <3>0 DEF Slots
    <3>2. Cardinality(Slots(kind)') = Cardinality(Slots(kind)) - 1
      BY <1>3, <3>1, FS_RemoveElement
    <3> QED
      BY <2>0, <2>4, <3>2
  <2> QED
    BY <2>2, <2>3, <2>4
<1>5. /\ Cardinality(Slots("remote-torrent")) \in Nat /\ Cardinality(Slots("tracker-http")) \in Nat
      /\ MaxRemote \in Nat /\ GateMaximum \in Nat
  BY <1>3, FetchAssumption, FS_CardinalityType
<1>6. /\ remoteActive = Cardinality(Slots("remote-torrent")) /\ remoteActive <= MaxRemote
      /\ gateActive = Cardinality(Slots("tracker-http")) /\ gateActive <= GateMaximum
  BY DEF FetchInv
<1>9. /\ Cardinality(Slots("remote-torrent")') = Cardinality(Slots("remote-torrent")) +
             (IF fetch[f].kind = "remote-torrent" THEN d ELSE 0)
      /\ Cardinality(Slots("tracker-http")') = Cardinality(Slots("tracker-http")) +
             (IF fetch[f].kind = "tracker-http" THEN d ELSE 0)
  BY <1>4, Zenon DEF Profiles
<1>10. fetch[f].kind = "remote-torrent" \/ fetch[f].kind = "tracker-http"
  BY <1>0 DEF Profiles
<1>7. remoteActive' = Cardinality(Slots("remote-torrent")') /\ remoteActive' <= MaxRemote
  BY <1>9, <1>5, <1>6, <1>10
<1>8. gateActive' = Cardinality(Slots("tracker-http")') /\ gateActive' <= GateMaximum
  BY <1>9, <1>5, <1>6, <1>10
<1> QED
  BY <1>1, <1>2, <1>7, <1>8 DEF FetchInv


\* A fetch that goes on keeps its slot.
LEMMA FetchGoesOn ==
    ASSUME FetchInv, NEW f \in Fetches, NEW r \in FetchRecord, FetchSound(r),
           fetch' = [fetch EXCEPT ![f] = r], r.kind = fetch[f].kind,
           Works(r) = Works(fetch[f]), UNCHANGED <<remoteActive, gateActive>>
    PROVE  FetchInv'
<1>1. remoteActive \in Int /\ gateActive \in Int
  <2>1. \A kind : IsFiniteSet(Slots(kind))
    BY FetchAssumption, FS_Subset DEF Slots
  <2> QED
    BY <2>1, FS_CardinalityType DEF FetchInv
<1>2. /\ remoteActive' = remoteActive + (IF fetch[f].kind = "remote-torrent" THEN 0 ELSE 0)
      /\ gateActive' = gateActive + (IF fetch[f].kind = "tracker-http" THEN 0 ELSE 0)
  BY <1>1
<1>3. 0 \in {-1, 0, 1} /\ 0 # 1
  OBVIOUS
<1> QED
  BY <1>2, <1>3, StepOfOneFetch

LEMMA Settling ==
    ASSUME FetchInv, NEW f \in Fetches, NEW code \in Codes, Settle(f, code),
           Works(fetch[f]), code = "OK" => ~ fetch[f].aborted /\ ~ fetch[f].late
    PROVE  FetchInv'
<1> DEFINE r == [Idle(fetch[f].kind) EXCEPT
                    !.stage = "done", !.aborted = fetch[f].aborted, !.late = fetch[f].late,
                    !.call = IF fetch[f].call = "waiting" THEN Told(f, code)
                                                          ELSE fetch[f].call]
<1>0. /\ fetch \in [Fetches -> FetchRecord] /\ fetch[f] \in FetchRecord
      /\ FetchSound(fetch[f])
  BY DEF FetchInv
<1>1. /\ fetch[f].kind \in Profiles /\ fetch[f].aborted \in BOOLEAN /\ fetch[f].late \in BOOLEAN
      /\ fetch[f].call \in Codes
  BY <1>0 DEF FetchRecord
<1>2. /\ Idle(fetch[f].kind) \in FetchRecord
      /\ Idle(fetch[f].kind).kind = fetch[f].kind
  BY <1>1, IdleIsAFetch
<1>3. Told(f, code) \in Codes /\ (Told(f, code) = "OK" => code = "OK")
  <2>1. Told(f, code) \in Codes
    BY DEF Told, Codes
  <2>2. Told(f, code) = "OK" => code = "OK"
    BY DEF Told
  <2> QED
    BY <2>1, <2>2
<1>4. r \in FetchRecord
  BY <1>1, <1>2, <1>3 DEF FetchRecord, FetchStages
<1>5. /\ r.kind = fetch[f].kind /\ r.stage = "done" /\ ~ Works(r)
      /\ r.aborted = fetch[f].aborted /\ r.late = fetch[f].late
      /\ r.call = IF fetch[f].call = "waiting" THEN Told(f, code) ELSE fetch[f].call
  BY <1>2 DEF FetchRecord, Works
<1>6. FetchSound(r)
  <2>1. fetch[f].call # "OK"
    BY <1>0 DEF FetchSound
  <2> HIDE DEF r
  <2> QED
    BY <1>3, <1>5, <2>1 DEF FetchSound
<1>7. fetch' = [fetch EXCEPT ![f] = r]
  BY <1>0 DEF Settle
<1>8. /\ remoteActive' = remoteActive - (IF fetch[f].kind = "remote-torrent" THEN 1 ELSE 0)
      /\ gateActive' = gateActive - (IF fetch[f].kind = "tracker-http" THEN 1 ELSE 0)
  BY DEF Settle, Is
<1>9. remoteActive \in Int /\ gateActive \in Int
  <2>1. \A kind : IsFiniteSet(Slots(kind))
    BY FetchAssumption, FS_Subset DEF Slots
  <2> QED
    BY <2>1, FS_CardinalityType DEF FetchInv
<1> HIDE DEF r
<1>10. /\ remoteActive' = remoteActive + (IF fetch[f].kind = "remote-torrent" THEN -1 ELSE 0)
       /\ gateActive' = gateActive + (IF fetch[f].kind = "tracker-http" THEN -1 ELSE 0)
  BY <1>8, <1>9
<1>11. -1 \in {-1, 0, 1} /\ -1 # 1
  OBVIOUS
<1> QED
  BY <1>4, <1>5, <1>6, <1>7, <1>10, <1>11, StepOfOneFetch

LEMMA HopEnds ==
    ASSUME FetchInv, NEW f \in Fetches, NEW hop \in Hops, EndHop(f, hop), Works(fetch[f])
    PROVE  FetchInv'
<1> DEFINE r == [fetch[f] EXCEPT !.stage = "closing", !.hop = hop, !.bytes = 0,
                                 !.answer = <<>>, !.address = <<>>]
<1>0. /\ fetch \in [Fetches -> FetchRecord] /\ fetch[f] \in FetchRecord
      /\ FetchSound(fetch[f])
  BY DEF FetchInv
<1>1. 0 \in 0..MaxBytes /\ <<>> \in Seq(Nat) /\ <<>> \in Seq(Seq(Nat)) /\ "closing" \in FetchStages
  BY FetchAssumption DEF FetchStages
<1>2. r \in FetchRecord
  BY <1>0, <1>1 DEF FetchRecord
<1>3. /\ r.kind = fetch[f].kind /\ r.stage = "closing" /\ r.secure = fetch[f].secure
      /\ r.url = fetch[f].url /\ r.call = fetch[f].call
      /\ Works(r) = TRUE
  BY <1>0 DEF FetchRecord, Works
<1>4. fetch' = [fetch EXCEPT ![f] = r]
  BY <1>0 DEF EndHop
<1> HIDE DEF r
<1>5. FetchSound(r)
  BY <1>0, <1>3 DEF FetchSound
<1>6. Works(fetch[f]) = TRUE
  BY DEF Works
<1> QED
  BY <1>2, <1>3, <1>4, <1>5, <1>6, FetchGoesOn DEF EndHop


\* The addresses of an answer that passed are all allowed, and one is chosen.
LEMMA Approving ==
    ASSUME FetchInv, NEW f \in Fetches, NEW answer \in Seq(Seq(Nat)), Approve(f, answer),
           fetch[f].stage = "resolving"
    PROVE  FetchInv'
<1> DEFINE r == [fetch[f] EXCEPT !.stage = "requesting", !.answer = answer,
                                 !.address = answer[1], !.bytes = 0]
<1>0. /\ fetch \in [Fetches -> FetchRecord] /\ fetch[f] \in FetchRecord
      /\ FetchSound(fetch[f]) /\ Works(fetch[f]) = TRUE
  BY DEF FetchInv, Works
<1>1. CASE /\ Len(answer) \in 1..MaxDnsAnswers
           /\ \A i \in 1..Len(answer) : Allowed(answer[i])
  <2>1. 1 \in 1..Len(answer) /\ answer[1] \in Seq(Nat)
    BY <1>1
  <2>2. 0 \in 0..MaxBytes /\ "requesting" \in FetchStages
    BY FetchAssumption DEF FetchStages
  <2>3. r \in FetchRecord
    BY <1>0, <2>1, <2>2 DEF FetchRecord
  <2>4. /\ r.kind = fetch[f].kind /\ r.stage = "requesting" /\ r.secure = fetch[f].secure
        /\ r.url = fetch[f].url /\ r.call = fetch[f].call
        /\ r.answer = answer /\ r.address = answer[1] /\ Works(r) = TRUE
    BY <1>0 DEF FetchRecord, Works
  <2>5. fetch' = [fetch EXCEPT ![f] = r] /\ UNCHANGED <<remoteActive, gateActive>>
    BY <1>0, <1>1 DEF Approve
  <2> HIDE DEF r
  <2>6. FetchSound(r)
    BY <1>0, <1>1, <2>1, <2>4 DEF FetchSound
  <2> QED
    BY <1>0, <2>3, <2>4, <2>5, <2>6, FetchGoesOn
<1>2. CASE ~ (/\ Len(answer) \in 1..MaxDnsAnswers
              /\ \A i \in 1..Len(answer) : Allowed(answer[i]))
  <2>1. Settle(f, "REFUSED")
    BY <1>2, Zenon DEF Approve
  <2>2. "REFUSED" \in Codes /\ "REFUSED" # "OK"
    BY DEF Codes, Hops
  <2> QED
    BY <1>0, <2>1, <2>2, Settling
<1> QED
  BY <1>1, <1>2

LEMMA FetchSteps == FetchInv /\ [FetchNext]_fetchVars => FetchInv'
<1> SUFFICES ASSUME FetchInv, [FetchNext]_fetchVars PROVE FetchInv'
  OBVIOUS
<1>0. /\ fetch \in [Fetches -> FetchRecord]
      /\ \A f \in Fetches : fetch[f] \in FetchRecord /\ FetchSound(fetch[f])
  BY DEF FetchInv
<1>00. remoteActive \in Int /\ gateActive \in Int
  <2>1. \A kind : IsFiniteSet(Slots(kind))
    BY FetchAssumption, FS_Subset DEF Slots
  <2> QED
    BY <2>1, FS_CardinalityType DEF FetchInv
<1>1. ASSUME NEW f \in Fetches, NEW url \in FetchUrls, NEW http \in BOOLEAN, Fetch(f, url, http)
      PROVE  FetchInv'
  <2>1. fetch[f].stage = "idle" /\ Works(fetch[f]) = FALSE /\ fetch[f].kind \in Profiles
    BY <1>0, <1>1 DEF Fetch, Works, FetchRecord
  <2>2. CASE NoSlot(f) \/ ~ UrlAllowed(f, url, http)
    <3> DEFINE told == IF NoSlot(f) THEN "CONCURRENCY_LIMIT" ELSE "INVALID"
               r == [fetch[f] EXCEPT !.stage = "done", !.call = told]
    <3>0. fetch' = [fetch EXCEPT ![f] = r] /\ UNCHANGED <<remoteActive, gateActive>>
      BY <1>0, <1>1, <2>2 DEF Fetch
    <3>4. told \in Codes /\ told # "OK" /\ "done" \in FetchStages
      BY DEF Codes, FetchStages
    <3> HIDE DEF told
    <3>1. r \in FetchRecord /\ r.kind = fetch[f].kind /\ r.stage = "done" /\ r.call # "OK"
          /\ Works(r) = FALSE
      BY <1>0, <3>4 DEF FetchRecord, Works
    <3> HIDE DEF r
    <3>3. FetchSound(r)
      BY <3>1 DEF FetchSound, Works
    <3> QED
      BY <2>1, <3>0, <3>1, <3>3, FetchGoesOn
  <2>3. CASE ~ (NoSlot(f) \/ ~ UrlAllowed(f, url, http))
    <3> DEFINE sure == url.scheme = "https"
               r == [fetch[f] EXCEPT !.stage = "resolving", !.url = url, !.http = http,
                                     !.call = "waiting", !.secure = sure]
    <3>1. sure \in BOOLEAN /\ "resolving" \in FetchStages /\ "waiting" \in Codes
      BY DEF FetchStages, Codes
    <3>5. fetch' = [fetch EXCEPT ![f] = r]
      BY <1>0, <1>1, <2>3 DEF Fetch
    <3> HIDE DEF sure
    <3>2. r \in FetchRecord
      BY <1>0, <3>1 DEF FetchRecord
    <3>3. /\ r.kind = fetch[f].kind /\ r.stage = "resolving" /\ r.url = url
          /\ r.call = "waiting" /\ r.secure = sure /\ Works(r) = TRUE
      BY <1>0 DEF FetchRecord, Works
    <3>6. /\ remoteActive' = remoteActive + (IF fetch[f].kind = "remote-torrent" THEN 1 ELSE 0)
          /\ gateActive' = gateActive + (IF fetch[f].kind = "tracker-http" THEN 1 ELSE 0)
          /\ IF fetch[f].kind = "remote-torrent" THEN ~ (remoteActive >= MaxRemote)
                                                 ELSE ~ (gateActive >= GateMaximum)
      BY <1>1, <2>3 DEF Fetch, Is, NoSlot
    <3> HIDE DEF r
    <3>7. FetchSound(r)
      BY <3>3 DEF FetchSound, sure
    <3>9. IF fetch[f].kind = "remote-torrent" THEN remoteActive < MaxRemote
                                              ELSE gateActive < GateMaximum
      BY <1>00, <3>6, FetchAssumption
    <3>10. 1 \in {-1, 0, 1}
      OBVIOUS
    <3> QED
      BY <2>1, <3>2, <3>3, <3>5, <3>6, <3>7, <3>9, <3>10, StepOfOneFetch
  <2> QED
    BY <2>2, <2>3
<1>2. ASSUME NEW f \in Fetches, Resolve(f) PROVE FetchInv'
  <2> DEFINE host == fetch[f].url.host
  <2>1. /\ fetch[f].stage = "resolving" /\ ~ fetch[f].aborted /\ ~ fetch[f].late
        /\ \/ Settle(f, "REFUSED")
           \/ host \in DOMAIN Literals /\ Approve(f, <<Literals[host]>>)
           \/ \E answer \in DnsAnswers : Approve(f, answer)
    BY <1>2 DEF Resolve
  <2>2. CASE Settle(f, "REFUSED")
    <3>1. "REFUSED" \in Codes /\ "REFUSED" # "OK"
      BY DEF Codes, Hops
    <3>2. Works(fetch[f])
      BY <2>1 DEF Works
    <3> QED
      BY <2>2, <3>1, <3>2, Settling
  <2>3. CASE host \in DOMAIN Literals /\ Approve(f, <<Literals[host]>>)
    <3>1. <<Literals[host]>> \in Seq(Seq(Nat))
      BY <2>3, FetchAssumption
    <3> QED
      BY <2>1, <2>3, <3>1, Approving
  <2>4. ASSUME NEW answer \in DnsAnswers, Approve(f, answer) PROVE FetchInv'
    BY <2>1, <2>4, Approving, FetchAssumption
  <2> QED
    BY <2>1, <2>2, <2>3, <2>4
<1>3. ASSUME NEW f \in Fetches, Respond(f) PROVE FetchInv'
  <2>1. /\ fetch[f].stage = "requesting" /\ Works(fetch[f]) = TRUE
        /\ \/ EndHop(f, "REFUSED") \/ EndHop(f, "BODY_TOO_LARGE") \/ EndHop(f, "redirect")
           \/ /\ fetch' = [fetch EXCEPT ![f].stage = "body"]
              /\ UNCHANGED <<remoteActive, gateActive>>
    BY <1>3 DEF Respond, Works
  <2>2. CASE EndHop(f, "REFUSED") \/ EndHop(f, "BODY_TOO_LARGE") \/ EndHop(f, "redirect")
    BY <2>1, <2>2, HopEnds DEF Hops
  <2>3. CASE /\ fetch' = [fetch EXCEPT ![f].stage = "body"]
             /\ UNCHANGED <<remoteActive, gateActive>>
    <3> DEFINE r == [fetch[f] EXCEPT !.stage = "body"]
    <3>1. r \in FetchRecord
      BY <1>0 DEF FetchRecord, FetchStages
    <3>2. /\ r.kind = fetch[f].kind /\ r.stage = "body" /\ r.secure = fetch[f].secure
          /\ r.url = fetch[f].url /\ r.call = fetch[f].call
          /\ r.answer = fetch[f].answer /\ r.address = fetch[f].address /\ Works(r) = TRUE
      BY <1>0 DEF FetchRecord, Works
    <3>3. fetch' = [fetch EXCEPT ![f] = r]
      BY <1>0, <2>3
    <3> HIDE DEF r
    <3>4. FetchSound(r)
      BY <1>0, <2>1, <3>2 DEF FetchSound
    <3> QED
      BY <2>1, <2>3, <3>1, <3>2, <3>3, <3>4, FetchGoesOn
  <2> QED
    BY <2>1, <2>2, <2>3
<1>4. ASSUME NEW f \in Fetches, ReadBody(f) PROVE FetchInv'
  <2>1. /\ fetch[f].stage = "body" /\ Works(fetch[f]) = TRUE
        /\ \/ EndHop(f, "BODY_TOO_LARGE") \/ EndHop(f, "success") \/ EndHop(f, "REFUSED")
           \/ \E n \in ChunkSizes : /\ ~ (fetch[f].bytes + n > MaxBytes)
                                    /\ fetch' = [fetch EXCEPT ![f].bytes = @ + n]
                                    /\ UNCHANGED <<remoteActive, gateActive>>
    BY <1>4 DEF ReadBody, Works
  <2>2. CASE EndHop(f, "BODY_TOO_LARGE") \/ EndHop(f, "success") \/ EndHop(f, "REFUSED")
    BY <2>1, <2>2, HopEnds DEF Hops
  <2>3. ASSUME NEW n \in ChunkSizes, ~ (fetch[f].bytes + n > MaxBytes),
               fetch' = [fetch EXCEPT ![f].bytes = @ + n], UNCHANGED <<remoteActive, gateActive>>
        PROVE  FetchInv'
    <3> DEFINE r == [fetch[f] EXCEPT !.bytes = @ + n]
    <3>1. fetch[f].bytes + n \in 0..MaxBytes
      BY <1>0, <2>3, FetchAssumption DEF FetchRecord
    <3>2. r \in FetchRecord
      BY <1>0, <3>1 DEF FetchRecord
    <3>3. /\ r.kind = fetch[f].kind /\ r.stage = fetch[f].stage /\ r.secure = fetch[f].secure
          /\ r.url = fetch[f].url /\ r.call = fetch[f].call
          /\ r.answer = fetch[f].answer /\ r.address = fetch[f].address
      BY <1>0 DEF FetchRecord
    <3>4. fetch' = [fetch EXCEPT ![f] = r]
      BY <1>0, <2>3
    <3> HIDE DEF r
    <3>5. FetchSound(r) /\ Works(r) = TRUE
      BY <1>0, <2>1, <3>3 DEF FetchSound, Works
    <3> QED
      BY <2>1, <2>3, <3>2, <3>3, <3>4, <3>5, FetchGoesOn
  <2> QED
    BY <2>1, <2>2, <2>3
<1>5. ASSUME NEW f \in Fetches, Closed(f) PROVE FetchInv'
  <2>1. /\ fetch[f].stage = "closing" /\ Works(fetch[f]) = TRUE /\ fetch[f].hop \in Hops
    <3>1. fetch[f].stage = "closing"
      BY <1>5, Zenon DEF Closed
    <3> QED
      BY <1>0, <3>1 DEF Works, FetchRecord
  <2>2. ASSUME NEW url \in FetchUrls, Redirects(f, url),
               fetch' = [fetch EXCEPT
                  ![f].stage = "resolving", ![f].url = url, ![f].redirects = @ + 1,
                  ![f].hop = "none", ![f].address = <<>>, ![f].answer = <<>>],
               UNCHANGED <<remoteActive, gateActive>>
        PROVE  FetchInv'
    <3> DEFINE r == [fetch[f] EXCEPT !.stage = "resolving", !.url = url, !.redirects = @ + 1,
                                     !.hop = "none", !.address = <<>>, !.answer = <<>>]
    <3>1. /\ fetch[f].redirects + 1 \in 0..MaxRedirects /\ <<>> \in Seq(Nat)
          /\ <<>> \in Seq(Seq(Nat)) /\ "resolving" \in FetchStages /\ "none" \in Hops
      BY <1>0, <2>2, FetchAssumption DEF FetchRecord, Redirects, FetchStages, Hops
    <3>2. r \in FetchRecord
      BY <1>0, <3>1 DEF FetchRecord
    <3>3. /\ r.kind = fetch[f].kind /\ r.stage = "resolving" /\ r.secure = fetch[f].secure
          /\ r.url = url /\ r.call = fetch[f].call /\ Works(r) = TRUE
      BY <1>0 DEF FetchRecord, Works
    <3>4. fetch' = [fetch EXCEPT ![f] = r]
      BY <1>0, <2>2
    <3>5. url.scheme \in {"https", "http"}
          /\ ~ (fetch[f].url.scheme = "https" /\ url.scheme = "http")
      BY <2>2 DEF Redirects, UrlAllowed
    <3> HIDE DEF r
    <3>6. FetchSound(r)
      BY <1>0, <2>1, <3>3, <3>5 DEF FetchSound
    <3> QED
      BY <2>1, <2>2, <3>2, <3>3, <3>4, <3>6, FetchGoesOn
  <2>3. ASSUME NEW code \in Codes, Settle(f, code),
               code = "OK" => ~ fetch[f].aborted /\ ~ fetch[f].late
        PROVE  FetchInv'
    BY <2>1, <2>3, Settling
  <2>4. Hops \subseteq Codes /\ "OK" \notin Hops /\ "REFUSED" \in Hops
    BY DEF Hops, Codes
  <2>5. CASE fetch[f].hop = "redirect"
    <3>1. PICK url \in FetchUrls :
             IF Redirects(f, url)
             THEN /\ fetch' = [fetch EXCEPT
                        ![f].stage = "resolving", ![f].url = url, ![f].redirects = @ + 1,
                        ![f].hop = "none", ![f].address = <<>>, ![f].answer = <<>>]
                  /\ UNCHANGED <<remoteActive, gateActive>>
             ELSE Settle(f, "REFUSED")
      BY <1>5, <2>5, Zenon DEF Closed
    <3>2. CASE Redirects(f, url)
      BY <2>2, <3>1, <3>2, Zenon
    <3>3. CASE ~ Redirects(f, url)
      BY <2>3, <2>4, <3>1, <3>3
    <3> QED
      BY <3>2, <3>3
  <2>6. CASE fetch[f].hop = "success"
    <3> DEFINE code == IF fetch[f].aborted THEN AbortCode(f)
                       ELSE IF fetch[f].late THEN "REQUEST_TIMEOUT" ELSE "OK"
    <3>1. AbortCode(f) \in Codes /\ AbortCode(f) # "OK"
      BY DEF AbortCode, Codes, Hops
    <3>2. code \in Codes /\ (code = "OK" => ~ fetch[f].aborted /\ ~ fetch[f].late)
      BY <3>1 DEF Codes, Hops
    <3>3. Settle(f, code)
      BY <1>5, <2>6, Zenon DEF Closed
    <3> HIDE DEF code
    <3> QED
      BY <2>3, <3>2, <3>3
  <2>7. CASE fetch[f].hop \notin {"redirect", "success"}
    <3>1. Settle(f, fetch[f].hop)
      BY <1>5, <2>7, Zenon DEF Closed
    <3> QED
      BY <2>1, <2>3, <2>4, <3>1
  <2> QED
    BY <2>5, <2>6, <2>7
<1>6. ASSUME NEW f \in Fetches, Stop(f) PROVE FetchInv'
  <2> DEFINE code == IF fetch[f].aborted THEN AbortCode(f) ELSE "REQUEST_TIMEOUT"
  <2>1. code \in Hops /\ code \in Codes /\ code # "OK"
    <3>1. AbortCode(f) \in {"ABORTED", "REQUEST_FAILED"}
      BY DEF AbortCode
    <3> QED
      BY <3>1 DEF Hops, Codes
  <2>2. \/ fetch[f].stage = "resolving" /\ Settle(f, code)
        \/ fetch[f].stage \in {"requesting", "body"} /\ EndHop(f, code)
    BY <1>6 DEF Stop
  <2> HIDE DEF code
  <2>3. Works(fetch[f])
    BY <2>2 DEF Works
  <2> QED
    BY <2>1, <2>2, <2>3, Settling, HopEnds
<1>7. ASSUME NEW f \in Fetches, NEW code \in {"ABORTED", "TIMEOUT"}, Abort(f, code)
      PROVE  FetchInv'
  <2> DEFINE told == IF fetch[f].call = "waiting" /\ Is(f, "tracker-http")
                     THEN code ELSE fetch[f].call
             r == [fetch[f] EXCEPT !.aborted = TRUE, !.call = told]
  <2>1. Works(fetch[f]) = TRUE /\ UNCHANGED <<remoteActive, gateActive>>
    BY <1>7 DEF Abort, Running, Works
  <2>2. told \in Codes /\ told # "OK"
    <3>1. fetch[f].call \in Codes /\ fetch[f].call # "OK"
      BY <1>0, <2>1 DEF FetchRecord, FetchSound
    <3>2. code \in Codes /\ code # "OK"
      BY DEF Codes, Hops
    <3> QED
      BY <3>1, <3>2
  <2>3. fetch' = [fetch EXCEPT ![f] = r]
    BY <1>0, <1>7 DEF Abort
  <2> HIDE DEF told
  <2>4. r \in FetchRecord
    BY <1>0, <2>2 DEF FetchRecord
  <2>5. /\ r.kind = fetch[f].kind /\ r.stage = fetch[f].stage /\ r.secure = fetch[f].secure
        /\ r.url = fetch[f].url /\ r.call = told
        /\ r.answer = fetch[f].answer /\ r.address = fetch[f].address
    BY <1>0 DEF FetchRecord
  <2> HIDE DEF r
  <2>6. FetchSound(r) /\ Works(r) = TRUE
    BY <1>0, <2>1, <2>2, <2>5 DEF FetchSound, Works
  <2> QED
    BY <2>1, <2>3, <2>4, <2>5, <2>6, FetchGoesOn
<1>8. ASSUME NEW f \in Fetches, DeadlinePasses(f) PROVE FetchInv'
  <2> DEFINE r == [fetch[f] EXCEPT !.late = TRUE]
  <2>1. Works(fetch[f]) = TRUE /\ UNCHANGED <<remoteActive, gateActive>>
    BY <1>8 DEF DeadlinePasses, Running, Works
  <2>2. fetch' = [fetch EXCEPT ![f] = r]
    BY <1>0, <1>8 DEF DeadlinePasses
  <2>3. r \in FetchRecord
    BY <1>0 DEF FetchRecord
  <2>4. /\ r.kind = fetch[f].kind /\ r.stage = fetch[f].stage /\ r.secure = fetch[f].secure
        /\ r.url = fetch[f].url /\ r.call = fetch[f].call
        /\ r.answer = fetch[f].answer /\ r.address = fetch[f].address
    BY <1>0 DEF FetchRecord
  <2> HIDE DEF r
  <2>5. FetchSound(r) /\ Works(r) = TRUE
    BY <1>0, <2>1, <2>4 DEF FetchSound, Works
  <2> QED
    BY <2>1, <2>2, <2>3, <2>4, <2>5, FetchGoesOn
<1>9. CASE UNCHANGED fetchVars
  BY <1>9 DEF fetchVars, FetchInv, Slots
<1> QED
  BY <1>1, <1>2, <1>3, <1>4, <1>5, <1>6, <1>7, <1>8, <1>9 DEF FetchNext


(* ------------------------------- the peer budget ---------------------------- *)

\* A sequence without its i-th element.
LEMMA WithoutOneElement ==
    ASSUME NEW S, NEW s \in Seq(S), NEW i \in 1..Len(s)
    PROVE  /\ RemoveAt(s, i) \in Seq(S) /\ Len(RemoveAt(s, i)) = Len(s) - 1
           /\ \A j \in 1..(Len(s) - 1) :
                 RemoveAt(s, i)[j] = IF j < i THEN s[j] ELSE s[j + 1]
<1> DEFINE a == SubSeq(s, 1, i - 1)
           b == SubSeq(s, i + 1, Len(s))
<1>1. /\ a \in Seq(S) /\ Len(a) = i - 1 /\ \A j \in 1..(i - 1) : a[j] = s[j]
  BY SubSeqProperties
<1>2. /\ b \in Seq(S) /\ Len(b) = Len(s) - i /\ \A j \in 1..(Len(s) - i) : b[j] = s[j + i]
  BY SubSeqProperties
<1>3. /\ a \o b \in Seq(S) /\ Len(a \o b) = Len(a) + Len(b)
      /\ \A j \in 1..(Len(a) + Len(b)) :
            (a \o b)[j] = IF j <= Len(a) THEN a[j] ELSE b[j - Len(a)]
  BY <1>1, <1>2, ConcatProperties
<1>4. RemoveAt(s, i) = a \o b
  BY DEF RemoveAt
<1>5. Len(s) \in Nat /\ i \in Nat /\ 1 <= i /\ i <= Len(s)
  OBVIOUS
<1> HIDE DEF a, b
<1>6. Len(a \o b) = Len(s) - 1
  BY <1>1, <1>2, <1>3, <1>5
<1>7. ASSUME NEW j \in 1..(Len(s) - 1) PROVE (a \o b)[j] = IF j < i THEN s[j] ELSE s[j + 1]
  <2>1. j \in 1..(Len(a) + Len(b))
    BY <1>1, <1>2, <1>5
  <2>2. CASE j < i
    <3>1. j <= Len(a) /\ j \in 1..(i - 1)
      BY <1>1, <1>5, <2>2
    <3> QED
      BY <1>1, <1>3, <2>1, <2>2, <3>1
  <2>3. CASE ~ (j < i)
    <3>1. ~ (j <= Len(a)) /\ j - Len(a) \in 1..(Len(s) - i) /\ (j - Len(a)) + i = j + 1
      BY <1>1, <1>5, <2>3
    <3>2. (a \o b)[j] = b[j - Len(a)]
      BY <1>3, <2>1, <3>1
    <3>3. b[j - Len(a)] = s[(j - Len(a)) + i]
      BY <1>2, <3>1
    <3> QED
      BY <2>3, <3>1, <3>2, <3>3
  <2> QED
    BY <2>2, <2>3
<1> QED
  BY <1>3, <1>4, <1>6, <1>7

LEMMA DroppedLosesOne ==
    ASSUME NEW S, NEW s \in Seq(S), IsInjective(s), NEW e
    PROVE  /\ Dropped(s, e) \in Seq(S) /\ IsInjective(Dropped(s, e))
           /\ ToSet(Dropped(s, e)) = ToSet(s) \ {e}
<1>0. DOMAIN s = 1..Len(s) /\ Len(s) \in Nat
  OBVIOUS
<1>1. CASE e \notin ToSet(s)
  BY <1>1 DEF Dropped
<1>2. CASE e \in ToSet(s)
  <2> DEFINE i == CHOOSE j \in DOMAIN s : s[j] = e
             d == RemoveAt(s, i)
  <2>1. i \in 1..Len(s) /\ s[i] = e
    BY <1>2 DEF ToSet
  <2>2. Dropped(s, e) = d
    BY <1>2 DEF Dropped
  <2> HIDE DEF i
  <2>3. /\ d \in Seq(S) /\ Len(d) = Len(s) - 1 /\ DOMAIN d = 1..(Len(s) - 1)
        /\ \A j \in 1..(Len(s) - 1) : d[j] = IF j < i THEN s[j] ELSE s[j + 1]
    BY <2>1, WithoutOneElement
  <2> HIDE DEF d
  <2>4. \A j \in 1..Len(s) : s[j] = e => j = i
    BY <1>0, <2>1 DEF IsInjective
  <2>5. ASSUME NEW j \in 1..(Len(s) - 1) PROVE d[j] # e /\ d[j] \in ToSet(s)
    <3>1. CASE j < i
      <4>1. d[j] = s[j] /\ j \in 1..Len(s) /\ j # i
        BY <1>0, <2>1, <2>3, <3>1
      <4> QED
        BY <1>0, <2>4, <4>1 DEF ToSet
    <3>2. CASE ~ (j < i)
      <4>1. d[j] = s[j + 1] /\ j + 1 \in 1..Len(s) /\ j + 1 # i
        BY <1>0, <2>1, <2>3, <3>2
      <4> QED
        BY <1>0, <2>4, <4>1 DEF ToSet
    <3> QED
      BY <3>1, <3>2
  <2>6. ASSUME NEW j \in 1..Len(s), s[j] # e PROVE \E k \in 1..(Len(s) - 1) : d[k] = s[j]
    <3> DEFINE k == IF j < i THEN j ELSE j - 1
    <3>1. k \in 1..(Len(s) - 1) /\ d[k] = s[j]
      BY <1>0, <2>1, <2>3, <2>6
    <3> QED
      BY <3>1
  <2>7. ToSet(d) = ToSet(s) \ {e}
    <3>1. ToSet(d) = {d[j] : j \in 1..(Len(s) - 1)} /\ ToSet(s) = {s[j] : j \in 1..Len(s)}
      BY <1>0, <2>3 DEF ToSet
    <3> QED
      BY <2>5, <2>6, <3>1
  <2>8. ASSUME NEW j \in 1..(Len(s) - 1), NEW k \in 1..(Len(s) - 1), d[j] = d[k] PROVE j = k
    <3> DEFINE from(n) == IF n < i THEN n ELSE n + 1
    <3>1. /\ from(j) \in 1..Len(s) /\ from(k) \in 1..Len(s)
          /\ d[j] = s[from(j)] /\ d[k] = s[from(k)]
      BY <1>0, <2>1, <2>3
    <3>2. from(j) = from(k)
      <4> HIDE DEF from
      <4> QED
        BY <1>0, <2>8, <3>1 DEF IsInjective
    <3> QED
      BY <2>1, <3>2
  <2> QED
    BY <2>2, <2>3, <2>7, <2>8 DEF IsInjective
<1> QED
  BY <1>1, <1>2

LEMMA AppendedGainsOne ==
    ASSUME NEW S, NEW s \in Seq(S), IsInjective(s), NEW e \in S, e \notin ToSet(s)
    PROVE  /\ Append(s, e) \in Seq(S) /\ IsInjective(Append(s, e))
           /\ ToSet(Append(s, e)) = ToSet(s) \union {e}
<1> DEFINE t == Append(s, e)
<1>1. /\ t \in Seq(S) /\ Len(t) = Len(s) + 1 /\ DOMAIN t = 1..(Len(s) + 1)
      /\ \A j \in 1..Len(s) : t[j] = s[j]
      /\ t[Len(s) + 1] = e /\ DOMAIN s = 1..Len(s) /\ Len(s) \in Nat
  OBVIOUS
<1> HIDE DEF t
<1>2. \A j \in 1..Len(s) : s[j] # e
  BY <1>1 DEF ToSet
<1>3. IsInjective(t)
  BY <1>1, <1>2 DEF IsInjective
<1>4. ToSet(t) = {t[j] : j \in 1..(Len(s) + 1)} /\ ToSet(s) = {s[j] : j \in 1..Len(s)}
  BY <1>1 DEF ToSet
<1>5. ToSet(t) = ToSet(s) \union {e}
  <2>1. ASSUME NEW j \in 1..(Len(s) + 1) PROVE t[j] \in ToSet(s) \union {e}
    BY <1>1, <1>4
  <2>2. ASSUME NEW j \in 1..Len(s) PROVE s[j] \in ToSet(t)
    BY <1>1, <1>4
  <2>3. e \in ToSet(t)
    BY <1>1, <1>4
  <2> QED
    BY <1>4, <2>1, <2>2, <2>3
<1> QED
  BY <1>1, <1>3, <1>5 DEF t


Pairs(of, ks) == {kp \in ks \X Peers : kp[2] \in of[kp[1]]}

LEMMA PairsAreFinite ==
    ASSUME NEW of, NEW ks, ks \subseteq Holders
    PROVE  IsFiniteSet(Pairs(of, ks)) /\ Total(of, ks) = Cardinality(Pairs(of, ks))
           /\ Total(of, ks) \in Nat
<1>1. IsFiniteSet(ks) /\ IsFiniteSet(Peers)
  BY BudgetAssumption, FS_Subset
<1>2. IsFiniteSet(ks \X Peers)
  BY <1>1, FS_Product
<1>3. IsFiniteSet(Pairs(of, ks))
  BY <1>2, FS_Subset DEF Pairs
<1> QED
  BY <1>3, FS_CardinalityType DEF Pairs, Total

\* Where no holder has more, there are no more in all.
LEMMA NoMoreInAll ==
    ASSUME NEW of, NEW less, NEW ks, ks \subseteq Holders,
           \A k \in ks, p \in Peers : p \in less[k] => p \in of[k]
    PROVE  Total(less, ks) <= Total(of, ks)
<1>1. Pairs(less, ks) \subseteq Pairs(of, ks)
  BY DEF Pairs
<1> QED
  BY <1>1, PairsAreFinite, FS_Subset

\* One peer of one holder more is at most one more in all.
LEMMA OneMoreInAll ==
    ASSUME NEW of, NEW more, NEW ks, ks \subseteq Holders, NEW h, NEW q,
           \A k \in ks, p \in Peers : p \in more[k] => p \in of[k] \/ (k = h /\ p = q)
    PROVE  Total(more, ks) <= Total(of, ks) + 1
<1>1. Pairs(more, ks) \subseteq Pairs(of, ks) \union {<<h, q>>}
  BY DEF Pairs
<1>2. /\ IsFiniteSet(Pairs(of, ks) \union {<<h, q>>})
      /\ \/ Cardinality(Pairs(of, ks) \union {<<h, q>>}) = Cardinality(Pairs(of, ks))
         \/ Cardinality(Pairs(of, ks) \union {<<h, q>>}) = Cardinality(Pairs(of, ks)) + 1
  BY PairsAreFinite, FS_AddElement
<1>3. Cardinality(Pairs(more, ks)) <= Cardinality(Pairs(of, ks) \union {<<h, q>>})
  BY <1>1, <1>2, FS_Subset
<1>4. /\ Total(more, ks) = Cardinality(Pairs(more, ks)) /\ Total(more, ks) \in Nat
      /\ Total(of, ks) = Cardinality(Pairs(of, ks)) /\ Total(of, ks) \in Nat
  BY PairsAreFinite
<1> QED
  BY <1>2, <1>3, <1>4

\* What is one or the other is no more than both together.
LEMMA BothTogether ==
    ASSUME NEW of, NEW one, NEW other, NEW ks, ks \subseteq Holders,
           \A k \in ks, p \in Peers : p \in of[k] => p \in one[k] \/ p \in other[k]
    PROVE  Total(of, ks) <= Total(one, ks) + Total(other, ks)
<1> DEFINE a == Pairs(one, ks)
           b == Pairs(other, ks)
<1>1. Pairs(of, ks) \subseteq a \union b
  BY DEF Pairs
<1>2. IsFiniteSet(a) /\ IsFiniteSet(b)
  BY PairsAreFinite
<1>3. /\ IsFiniteSet(a \union b) /\ IsFiniteSet(a \intersect b)
      /\ Cardinality(a \union b) = Cardinality(a) + Cardinality(b) - Cardinality(a \intersect b)
  BY <1>2, FS_Union, FS_Intersection
<1>4. Cardinality(Pairs(of, ks)) <= Cardinality(a \union b)
  BY <1>1, <1>3, FS_Subset
<1>5. /\ Total(of, ks) = Cardinality(Pairs(of, ks)) /\ Total(of, ks) \in Nat
      /\ Total(one, ks) = Cardinality(a) /\ Total(one, ks) \in Nat
      /\ Total(other, ks) = Cardinality(b) /\ Total(other, ks) \in Nat
      /\ Cardinality(a \intersect b) \in Nat
  BY <1>3, PairsAreFinite, FS_CardinalityType
<1> QED
  BY <1>3, <1>4, <1>5

BudgetInv ==
    /\ BudgetTypeOK
    /\ \A k \in Holders : IsInjective(records[k])
    /\ BudgetIsTrue
    /\ BudgetHolds

UpPeers == [k \in Holders |-> {p \in Peers : peerOf[k][p] # "none"}]

\* The budget counts what WebTorrent has: its bounds hold where no more is
\* recorded, and where no more is of PEX.
LEMMA WithinBounds ==
    ASSUME BudgetTypeOK, BudgetIsTrue,
           Total(Seen, Holders) <= MaxLiveTransports,
           Total(UpPeers, StagingHolders) <= MaxStagingLiveTransports,
           Total(UpPeers, Holders) <= MaxRecords,
           Total(UpPeers, StagingHolders) <= MaxStagingRecords,
           Total(pex, Holders) <= MaxPexRecords
    PROVE  BudgetHolds
<1>1. UpPeers = Recorded
  BY DEF UpPeers, Recorded, BudgetIsTrue
<1> QED
  BY <1>1 DEF BudgetHolds, UpPeers

LEMMA BoundsOfUp ==
    ASSUME BudgetInv
    PROVE  /\ UpPeers = Recorded
           /\ Total(Seen, Holders) <= MaxLiveTransports
           /\ Total(UpPeers, StagingHolders) <= MaxStagingLiveTransports
           /\ Total(UpPeers, Holders) <= MaxRecords
           /\ Total(UpPeers, StagingHolders) <= MaxStagingRecords
           /\ Total(pex, Holders) <= MaxPexRecords
<1>1. UpPeers = Recorded
  BY DEF UpPeers, Recorded, BudgetIsTrue, BudgetInv
<1> QED
  BY <1>1 DEF BudgetInv, BudgetHolds, UpPeers

LEMMA BudgetShrinks ==
    ASSUME BudgetInv, BudgetTypeOK', BudgetIsTrue',
           \A k \in Holders, p \in Peers : p \in Seen'[k] => p \in Seen[k],
           \A k \in Holders : /\ IsInjective(records'[k])
                              /\ ToSet(records'[k]) \subseteq ToSet(records[k])
                              /\ pex'[k] \subseteq pex[k]
    PROVE  BudgetInv'
<1>0. /\ StagingHolders \subseteq Holders
      /\ \A n \in {MaxLiveTransports, MaxRecords, MaxPexRecords, MaxStagingLiveTransports,
                   MaxStagingRecords} : n \in Nat
  BY BudgetAssumption
<1>1. \A k \in Holders, p \in Peers : p \in UpPeers'[k] => p \in UpPeers[k]
  <2>1. \A k \in Holders : UpPeers'[k] = ToSet(records'[k]) /\ UpPeers[k] = ToSet(records[k])
    BY DEF UpPeers, BudgetIsTrue, BudgetInv
  <2> QED
    BY <2>1
<1>2. /\ Total(UpPeers', Holders) <= Total(UpPeers, Holders)
      /\ Total(Seen', Holders) <= Total(Seen, Holders)
      /\ Total(UpPeers', StagingHolders) <= Total(UpPeers, StagingHolders)
      /\ Total(pex', Holders) <= Total(pex, Holders)
  BY <1>0, <1>1, NoMoreInAll
<1>3. \A of : /\ Total(of, Holders) \in Nat /\ Total(of, StagingHolders) \in Nat
  BY <1>0, PairsAreFinite
<1>4. /\ Total(Seen', Holders) <= MaxLiveTransports
      /\ Total(UpPeers', StagingHolders) <= MaxStagingLiveTransports
      /\ Total(UpPeers', Holders) <= MaxRecords
      /\ Total(UpPeers', StagingHolders) <= MaxStagingRecords
      /\ Total(pex', Holders) <= MaxPexRecords
  BY <1>0, <1>2, <1>3, BoundsOfUp
<1>5. UpPeers' = Recorded'
  BY DEF UpPeers, Recorded, BudgetIsTrue
<1>6. BudgetHolds'
  BY <1>4, <1>5 DEF BudgetHolds, UpPeers
<1> QED
  BY <1>6 DEF BudgetInv

LEMMA BudgetStarts == BudgetInit => BudgetInv
<1> SUFFICES ASSUME BudgetInit PROVE BudgetInv
  OBVIOUS
<1>0. /\ StagingHolders \subseteq Holders
      /\ \A n \in {MaxLiveTransports, MaxRecords, MaxPexRecords, MaxStagingLiveTransports,
                   MaxStagingRecords} : n \in Nat
  BY BudgetAssumption
<1>1. BudgetTypeOK
  <2>1. holders \in Seq(Holders) /\ IsInjective(holders)
    BY DEF BudgetInit, IsInjective
  <2>2. /\ records \in [Holders -> Seq(Peers)] /\ pex \in [Holders -> SUBSET Peers]
        /\ transports \in [Holders -> SUBSET Peers]
        /\ inbound \in [Holders -> SUBSET Peers]
    BY DEF BudgetInit
  <2>3. /\ peerOf \in [Holders -> [Peers -> {"none", "connecting", "live"}]]
        /\ swept \in BOOLEAN /\ retired \subseteq Holders
    BY DEF BudgetInit
  <2> QED
    BY <2>1, <2>2, <2>3 DEF BudgetTypeOK
<1>2. \A k \in Holders : ToSet(records[k]) = {} /\ IsInjective(records[k])
  BY DEF BudgetInit, ToSet, IsInjective
<1>3. BudgetIsTrue
  BY <1>2 DEF BudgetInit, BudgetIsTrue
<1>4. \A k \in Holders : UpPeers[k] = {} /\ Seen[k] = {} /\ pex[k] = {}
  BY DEF UpPeers, Seen, BudgetInit
<1>5. \A ks \in SUBSET Holders :
         Pairs(UpPeers, ks) = {} /\ Pairs(Seen, ks) = {} /\ Pairs(pex, ks) = {}
  BY <1>4 DEF Pairs
<1>6. /\ Total(UpPeers, Holders) = 0 /\ Total(Seen, Holders) = 0 /\ Total(UpPeers, StagingHolders) = 0
      /\ Total(pex, Holders) = 0
  BY <1>0, <1>5, PairsAreFinite, FS_EmptySet
<1>7. BudgetHolds
  BY <1>0, <1>1, <1>3, <1>6, WithinBounds
<1> QED
  BY <1>1, <1>2, <1>3, <1>7 DEF BudgetInv


LEMMA CreatedHolders ==
    ASSUME BudgetInv, NEW k \in Holders
    PROVE  Created(k) \in Seq(Holders) /\ IsInjective(Created(k))
<1>1. holders \in Seq(Holders) /\ IsInjective(holders)
  BY DEF BudgetInv, BudgetTypeOK
<1> QED
  BY <1>1, AppendedGainsOne DEF Created

LEMMA BudgetUntouched ==
    ASSUME BudgetInv, UNCHANGED <<records, pex, transports, peerOf, retired>>,
           holders' \in Seq(Holders), IsInjective(holders'),
           inbound' \in [Holders -> SUBSET Peers], swept' \in BOOLEAN, swept => swept',
           \A k \in Holders : inbound'[k] \intersect ToSet(records[k]) = {}
    PROVE  BudgetInv'
<1>1. BudgetTypeOK'
  BY DEF BudgetInv, BudgetTypeOK
<1>2. BudgetIsTrue'
  BY DEF BudgetInv, BudgetIsTrue
<1>3. Asked' \subseteq Asked
  BY BudgetAssumption DEF Asked
<1>4. \A k \in Holders, p \in Peers : p \in Seen'[k] => p \in Seen[k]
  BY <1>3 DEF Seen
<1> QED
  BY <1>1, <1>2, <1>4, BudgetShrinks DEF BudgetInv

\* A peer of one holder is forgotten by the budget and by WebTorrent alike.
LEMMA PeerGone ==
    ASSUME BudgetInv, NEW k \in Holders, NEW p,
           holders' \in Seq(Holders), IsInjective(holders'),
           UNCHANGED <<inbound, swept, retired>>,
           peerOf' = [peerOf EXCEPT ![k][p] = "none"],
           records' = [records EXCEPT ![k] = Dropped(@, p)],
           pex' = [pex EXCEPT ![k] = @ \ {p}],
           transports' = [transports EXCEPT ![k] = @ \ {p}]
    PROVE  BudgetInv'
<1>0. BudgetTypeOK /\ BudgetIsTrue
  BY DEF BudgetInv
<1>1. /\ Dropped(records[k], p) \in Seq(Peers) /\ IsInjective(Dropped(records[k], p))
      /\ ToSet(Dropped(records[k], p)) = ToSet(records[k]) \ {p}
  BY DroppedLosesOne DEF BudgetInv, BudgetTypeOK
<1>2. /\ records' \in [Holders -> Seq(Peers)] /\ records'[k] = Dropped(records[k], p)
      /\ \A h \in Holders \ {k} : records'[h] = records[h]
  BY <1>0, <1>1 DEF BudgetTypeOK
<1>3. /\ pex' \in [Holders -> SUBSET Peers] /\ pex'[k] = pex[k] \ {p}
      /\ \A h \in Holders \ {k} : pex'[h] = pex[h]
      /\ transports' \in [Holders -> SUBSET Peers] /\ transports'[k] = transports[k] \ {p}
      /\ \A h \in Holders \ {k} : transports'[h] = transports[h]
  BY <1>0 DEF BudgetTypeOK
<1>4. /\ peerOf' \in [Holders -> [Peers -> {"none", "connecting", "live"}]]
      /\ \A q \in Peers : peerOf'[k][q] = IF q = p THEN "none" ELSE peerOf[k][q]
      /\ \A h \in Holders \ {k} : peerOf'[h] = peerOf[h]
  BY <1>0 DEF BudgetTypeOK
<1>5. BudgetTypeOK'
  BY <1>0, <1>2, <1>3, <1>4 DEF BudgetTypeOK
<1>6. BudgetIsTrue'
  <2>1. ASSUME NEW h \in Holders
        PROVE  /\ ToSet(records'[h]) = {q \in Peers : peerOf'[h][q] # "none"}
               /\ transports'[h] = {q \in Peers : peerOf'[h][q] = "connecting"}
               /\ pex'[h] \subseteq ToSet(records'[h])
               /\ inbound[h] \intersect ToSet(records'[h]) = {}
    <3>1. /\ ToSet(records[h]) = {q \in Peers : peerOf[h][q] # "none"}
          /\ transports[h] = {q \in Peers : peerOf[h][q] = "connecting"}
          /\ pex[h] \subseteq ToSet(records[h])
          /\ inbound[h] \intersect ToSet(records[h]) = {}
      BY <1>0 DEF BudgetIsTrue
    <3>2. CASE h = k
      BY <1>1, <1>2, <1>3, <1>4, <3>1, <3>2
    <3>3. CASE h # k
      BY <1>2, <1>3, <1>4, <3>1, <3>3
    <3> QED
      BY <3>2, <3>3
  <2> QED
    BY <2>1 DEF BudgetIsTrue
<1>7. \A h \in Holders : /\ IsInjective(records'[h])
                         /\ ToSet(records'[h]) \subseteq ToSet(records[h])
                         /\ pex'[h] \subseteq pex[h]
  BY <1>1, <1>2, <1>3 DEF BudgetInv
<1>8. \A h \in Holders, q \in Peers : q \in Seen'[h] => q \in Seen[h]
  <2>1. \A h \in Holders, q \in Peers :
           peerOf'[h][q] = "none" \/ peerOf'[h][q] = peerOf[h][q]
    BY <1>4
  <2> QED
    BY <2>1 DEF Seen, Asked
<1> QED
  BY <1>5, <1>6, <1>7, <1>8, BudgetShrinks

\* Whatever the budget takes on, its bounds had room for.
LEMMA HandingOff ==
    ASSUME BudgetInv, NEW k \in Holders, NEW p \in Peers, NEW viaPex \in BOOLEAN,
           NEW connected \in BOOLEAN, Handoff(k, p, viaPex, connected)
    PROVE  BudgetInv'
<1>0. /\ BudgetTypeOK /\ BudgetIsTrue /\ StagingHolders \subseteq Holders
      /\ \A n \in {MaxLiveTransports, MaxRecords, MaxPexRecords, MaxStagingLiveTransports,
                   MaxStagingRecords} : n \in Nat
  BY BudgetAssumption DEF BudgetInv
<1>1. /\ k \notin retired /\ p \notin ToSet(records[k]) /\ p \notin inbound[k]
      /\ AdmitsTransport(k) /\ AdmitsHolder(k) /\ ~ RecordsFull
      /\ viaPex => k \notin StagingHolders /\ AdmitsPex(k)
      /\ holders' = Created(k) /\ UNCHANGED <<inbound, swept, retired>>
      /\ records' = [records EXCEPT ![k] = Append(@, p)]
      /\ pex' = [pex EXCEPT ![k] = IF viaPex THEN @ \union {p} ELSE @]
      /\ peerOf' = [peerOf EXCEPT ![k][p] = IF connected THEN "live" ELSE "connecting"]
      /\ transports' = [transports EXCEPT ![k] = IF connected THEN @ ELSE @ \union {p}]
  BY DEF Handoff
<1>2. /\ Append(records[k], p) \in Seq(Peers) /\ IsInjective(Append(records[k], p))
      /\ ToSet(Append(records[k], p)) = ToSet(records[k]) \union {p}
  BY <1>0, <1>1, AppendedGainsOne DEF BudgetInv, BudgetTypeOK
<1>3. /\ records' \in [Holders -> Seq(Peers)] /\ records'[k] = Append(records[k], p)
      /\ \A h \in Holders \ {k} : records'[h] = records[h]
  BY <1>0, <1>1, <1>2 DEF BudgetTypeOK
<1>4. /\ pex' \in [Holders -> SUBSET Peers]
      /\ pex'[k] = IF viaPex THEN pex[k] \union {p} ELSE pex[k]
      /\ \A h \in Holders \ {k} : pex'[h] = pex[h]
      /\ transports' \in [Holders -> SUBSET Peers]
      /\ transports'[k] = IF connected THEN transports[k] ELSE transports[k] \union {p}
      /\ \A h \in Holders \ {k} : transports'[h] = transports[h]
  BY <1>0, <1>1 DEF BudgetTypeOK
<1>5. /\ peerOf' \in [Holders -> [Peers -> {"none", "connecting", "live"}]]
      /\ \A q \in Peers : peerOf'[k][q] = IF q = p
                                          THEN IF connected THEN "live" ELSE "connecting"
                                          ELSE peerOf[k][q]
      /\ \A h \in Holders \ {k} : peerOf'[h] = peerOf[h]
  BY <1>0, <1>1 DEF BudgetTypeOK
<1>6. BudgetTypeOK'
  BY <1>0, <1>1, <1>3, <1>4, <1>5, CreatedHolders DEF BudgetTypeOK
<1>7. BudgetIsTrue'
  <2>1. ASSUME NEW h \in Holders
        PROVE  /\ ToSet(records'[h]) = {q \in Peers : peerOf'[h][q] # "none"}
               /\ transports'[h] = {q \in Peers : peerOf'[h][q] = "connecting"}
               /\ pex'[h] \subseteq ToSet(records'[h])
               /\ inbound'[h] \intersect ToSet(records'[h]) = {}
    <3>1. /\ ToSet(records[h]) = {q \in Peers : peerOf[h][q] # "none"}
          /\ transports[h] = {q \in Peers : peerOf[h][q] = "connecting"}
          /\ pex[h] \subseteq ToSet(records[h])
          /\ inbound[h] \intersect ToSet(records[h]) = {} /\ inbound'[h] = inbound[h]
      BY <1>0, <1>1 DEF BudgetIsTrue
    <3>2. CASE h = k
      <4>1. peerOf[k][p] = "none"
        BY <1>1, <3>1, <3>2
      <4>2. ToSet(records'[k]) = ToSet(records[k]) \union {p}
        BY <1>2, <1>3
      <4>3. {q \in Peers : peerOf'[k][q] # "none"} = {q \in Peers : peerOf[k][q] # "none"} \union {p}
        BY <1>5
      <4>4. {q \in Peers : peerOf'[k][q] = "connecting"} =
               IF connected THEN {q \in Peers : peerOf[k][q] = "connecting"}
               ELSE {q \in Peers : peerOf[k][q] = "connecting"} \union {p}
        <5>1. CASE connected
          BY <1>5, <4>1, <5>1
        <5>2. CASE ~ connected
          BY <1>5, <5>2
        <5> QED
          BY <5>1, <5>2
      <4>5. pex'[k] \subseteq ToSet(records[k]) \union {p}
        BY <1>4, <3>1, <3>2
      <4>6. inbound[k] \intersect (ToSet(records[k]) \union {p}) = {}
        BY <1>1, <3>1, <3>2
      <4> QED
        BY <1>4, <3>1, <3>2, <4>2, <4>3, <4>4, <4>5, <4>6
    <3>3. CASE h # k
      <4>1. /\ records'[h] = records[h] /\ pex'[h] = pex[h]
            /\ transports'[h] = transports[h] /\ peerOf'[h] = peerOf[h]
        BY <1>3, <1>4, <1>5, <3>3
      <4> QED
        BY <3>1, <4>1
    <3> QED
      BY <3>2, <3>3
  <2> QED
    BY <2>1 DEF BudgetIsTrue
<1>8. \A h \in Holders : IsInjective(records'[h])
  BY <1>2, <1>3 DEF BudgetInv
<1>9. \A h \in Holders, q \in Peers :
         /\ q \in UpPeers'[h] => q \in UpPeers[h] \/ (h = k /\ q = p)
         /\ q \in Seen'[h] => q \in Seen[h] \/ (h = k /\ q = p)
         /\ q \in UpPeers[h] => q \in LivePeers[h] \/ q \in transports[h]
         /\ q \in Seen[h] => (q \in LivePeers[h] /\ h \in Asked) \/ q \in transports[h]
  <2>1. \A h \in Holders, q \in Peers :
           /\ q \in UpPeers'[h] <=> peerOf'[h][q] # "none"
           /\ q \in UpPeers[h] <=> peerOf[h][q] # "none"
           /\ peerOf[h][q] = "live" => q \in LivePeers[h]
           /\ q \in transports[h] <=> peerOf[h][q] = "connecting"
           /\ peerOf[h][q] \in {"none", "connecting", "live"}
    BY <1>0 DEF UpPeers, LivePeers, BudgetIsTrue, BudgetTypeOK
  <2>2. \A h \in Holders, q \in Peers :
           /\ q \in Seen[h] <=>
                 peerOf[h][q] = "connecting" \/ (peerOf[h][q] = "live" /\ h \in Asked)
           /\ q \in Seen'[h] <=>
                 peerOf'[h][q] = "connecting" \/ (peerOf'[h][q] = "live" /\ h \in Asked)
    BY <1>1 DEF Seen, Asked
  <2>3. \A h \in Holders, q \in Peers :
           (h = k /\ q = p) \/ peerOf'[h][q] = peerOf[h][q]
    BY <1>5
  <2> QED
    BY <2>1, <2>2, <2>3
<1>10. \A of : Total(of, Holders) \in Nat /\ Total(of, StagingHolders) \in Nat
  BY <1>0, PairsAreFinite
<1>11. /\ Total(UpPeers', Holders) <= Total(UpPeers, Holders) + 1
       /\ Total(Seen', Holders) <= Total(Seen, Holders) + 1
       /\ Total(UpPeers', StagingHolders) <= Total(UpPeers, StagingHolders) + 1
       /\ k \notin StagingHolders =>
             Total(UpPeers', StagingHolders) <= Total(UpPeers, StagingHolders)
  <2>1. \A h \in StagingHolders : h \in Holders
    BY <1>0
  <2>2. Total(UpPeers', Holders) <= Total(UpPeers, Holders) + 1
    BY <1>9, OneMoreInAll
  <2>5. Total(Seen', Holders) <= Total(Seen, Holders) + 1
    <3>1. \A h \in Holders, q \in Peers :
             q \in Seen'[h] => q \in Seen[h] \/ (h = k /\ q = p)
      BY <1>9
    <3> QED
      BY <3>1, OneMoreInAll
  <2>3. Total(UpPeers', StagingHolders) <= Total(UpPeers, StagingHolders) + 1
    BY <1>0, <1>9, <2>1, OneMoreInAll
  <2>4. ASSUME k \notin StagingHolders
        PROVE  Total(UpPeers', StagingHolders) <= Total(UpPeers, StagingHolders)
    BY <1>0, <1>9, <2>1, <2>4, NoMoreInAll
  <2> QED
    BY <2>2, <2>3, <2>4, <2>5
<1>12. /\ Total(Seen, Holders) <= Total(LivePeers, Asked) + Total(transports, Holders)
       /\ Total(UpPeers, StagingHolders)
             <= Total(LivePeers, StagingHolders) + Total(transports, StagingHolders)
  <2>1. \A h \in StagingHolders : h \in Holders
    BY <1>0
  <2>2. Total(UpPeers, StagingHolders)
           <= Total(LivePeers, StagingHolders) + Total(transports, StagingHolders)
    BY <1>0, <1>9, <2>1, BothTogether
  <2> DEFINE sampled == [h \in Holders |-> IF h \in Asked THEN LivePeers[h] ELSE {}]
  <2>3. \A h \in Holders, q \in Peers :
           q \in Seen[h] => q \in sampled[h] \/ q \in transports[h]
    BY <1>9
  <2>4. Asked \subseteq Holders
    BY <1>0 DEF Asked
  <2>5. Total(sampled, Holders) = Total(LivePeers, Asked)
    <3>1. Pairs(sampled, Holders) = Pairs(LivePeers, Asked)
      BY <2>4 DEF Pairs
    <3>2. /\ Total(sampled, Holders) = Cardinality(Pairs(sampled, Holders))
          /\ Total(LivePeers, Asked) = Cardinality(Pairs(LivePeers, Asked))
      BY <2>4, PairsAreFinite
    <3> QED
      BY <3>1, <3>2
  <2> HIDE DEF sampled
  <2>6. Total(Seen, Holders) <= Total(sampled, Holders) + Total(transports, Holders)
    BY <2>3, BothTogether
  <2> QED
    BY <2>2, <2>5, <2>6
<1>13. /\ Total(Seen', Holders) <= MaxLiveTransports
       /\ Total(UpPeers', StagingHolders) <= MaxStagingLiveTransports
  <2>0. Asked \subseteq Holders
    BY <1>0 DEF Asked
  <2>1. /\ Total(LivePeers, Asked) + Total(transports, Holders) < MaxLiveTransports
        /\ Total(LivePeers, Asked) \in Nat
    BY <1>1, <2>0, PairsAreFinite DEF AdmitsTransport
  <2>2. k \in StagingHolders =>
          Total(LivePeers, StagingHolders) + Total(transports, StagingHolders)
             < MaxStagingLiveTransports
    BY <1>1 DEF AdmitsTransport
  <2> QED
    BY <1>0, <1>10, <1>11, <1>12, <2>1, <2>2, BoundsOfUp
<1>14. /\ Total(UpPeers', Holders) <= MaxRecords
       /\ Total(UpPeers', StagingHolders) <= MaxStagingRecords
  <2>1. ~ (Total(UpPeers, Holders) >= MaxRecords)
    BY <1>1, BoundsOfUp DEF RecordsFull
  <2>2. k \in StagingHolders => Total(UpPeers, StagingHolders) < MaxStagingRecords
    BY <1>1, BoundsOfUp DEF AdmitsHolder
  <2> QED
    BY <1>0, <1>10, <1>11, <2>1, <2>2, BoundsOfUp
<1>15. Total(pex', Holders) <= MaxPexRecords
  <2>1. CASE ~ viaPex
    <3>1. \A h \in Holders, q \in Peers : q \in pex'[h] => q \in pex[h]
      BY <1>4, <2>1
    <3>2. Total(pex', Holders) <= Total(pex, Holders)
      BY <3>1, NoMoreInAll
    <3> QED
      BY <1>0, <1>10, <3>2, BoundsOfUp
  <2>2. CASE viaPex
    <3>1. Total(pex, Holders) < MaxPexRecords
      BY <1>1, <2>2 DEF AdmitsPex
    <3>2. \A h \in Holders, q \in Peers : q \in pex'[h] => q \in pex[h] \/ (h = k /\ q = p)
      BY <1>4
    <3>3. Total(pex', Holders) <= Total(pex, Holders) + 1
      BY <3>2, OneMoreInAll
    <3> QED
      BY <1>0, <1>10, <3>1, <3>3
  <2> QED
    BY <2>1, <2>2
<1>16. UpPeers' = Recorded'
  BY <1>7 DEF UpPeers, Recorded, BudgetIsTrue
<1>17. BudgetHolds'
  BY <1>13, <1>14, <1>15, <1>16 DEF BudgetHolds, UpPeers
<1> QED
  BY <1>6, <1>7, <1>8, <1>17 DEF BudgetInv

\* A budget given back whole leaves the rest as it was.
LEMMA GivenBack ==
    ASSUME BudgetInv, NEW k \in Holders, GivesBack(k), retired' \subseteq Holders
    PROVE  BudgetInv'
<1>0. BudgetTypeOK /\ BudgetIsTrue
  BY DEF BudgetInv
<1>1. /\ holders' = Dropped(holders, k)
      /\ records' = [records EXCEPT ![k] = << >>] /\ pex' = [pex EXCEPT ![k] = {}]
      /\ transports' = [transports EXCEPT ![k] = {}]
      /\ peerOf' = [peerOf EXCEPT ![k] = [p \in Peers |-> "none"]]
      /\ inbound' = [inbound EXCEPT ![k] = {}] /\ swept' = swept
  BY DEF GivesBack
<1>2. holders' \in Seq(Holders) /\ IsInjective(holders')
  BY <1>0, <1>1, DroppedLosesOne DEF BudgetTypeOK
<1>3. /\ records' \in [Holders -> Seq(Peers)] /\ records'[k] = << >>
      /\ pex' \in [Holders -> SUBSET Peers] /\ pex'[k] = {}
      /\ transports' \in [Holders -> SUBSET Peers] /\ transports'[k] = {}
      /\ inbound' \in [Holders -> SUBSET Peers] /\ inbound'[k] = {}
      /\ peerOf' \in [Holders -> [Peers -> {"none", "connecting", "live"}]]
      /\ peerOf'[k] = [p \in Peers |-> "none"]
      /\ \A h \in Holders \ {k} :
            /\ records'[h] = records[h] /\ pex'[h] = pex[h]
            /\ transports'[h] = transports[h] /\ peerOf'[h] = peerOf[h]
            /\ inbound'[h] = inbound[h]
  BY <1>0, <1>1 DEF BudgetTypeOK
<1>4. BudgetTypeOK'
  BY <1>0, <1>1, <1>2, <1>3 DEF BudgetTypeOK
<1>5. ToSet(<< >>) = {} /\ IsInjective(<< >>)
  BY DEF ToSet, IsInjective
<1>6. BudgetIsTrue'
  <2>1. ASSUME NEW h \in Holders
        PROVE  /\ ToSet(records'[h]) = {p \in Peers : peerOf'[h][p] # "none"}
               /\ transports'[h] = {p \in Peers : peerOf'[h][p] = "connecting"}
               /\ pex'[h] \subseteq ToSet(records'[h])
               /\ inbound'[h] \intersect ToSet(records'[h]) = {}
    <3>1. CASE h = k
      <4>1. \A p \in Peers : peerOf'[k][p] = "none"
        BY <1>3
      <4> QED
        BY <1>3, <1>5, <3>1, <4>1
    <3>2. CASE h # k
      <4>1. /\ ToSet(records[h]) = {p \in Peers : peerOf[h][p] # "none"}
            /\ transports[h] = {p \in Peers : peerOf[h][p] = "connecting"}
            /\ pex[h] \subseteq ToSet(records[h])
            /\ inbound[h] \intersect ToSet(records[h]) = {}
        BY <1>0 DEF BudgetIsTrue
      <4>2. /\ records'[h] = records[h] /\ pex'[h] = pex[h]
            /\ transports'[h] = transports[h] /\ peerOf'[h] = peerOf[h]
            /\ inbound'[h] = inbound[h]
        BY <1>3, <3>2
      <4> QED
        BY <4>1, <4>2
    <3> QED
      BY <3>1, <3>2
  <2> QED
    BY <2>1 DEF BudgetIsTrue
<1>7. \A h \in Holders : /\ IsInjective(records'[h])
                         /\ ToSet(records'[h]) \subseteq ToSet(records[h])
                         /\ pex'[h] \subseteq pex[h]
  BY <1>3, <1>5 DEF BudgetInv
<1>8. \A h \in Holders, q \in Peers : q \in Seen'[h] => q \in Seen[h]
  <2>1. \A h \in Holders, q \in Peers :
           peerOf'[h][q] = "none" \/ peerOf'[h][q] = peerOf[h][q]
    BY <1>3
  <2> QED
    BY <1>1, <2>1 DEF Seen, Asked
<1> QED
  BY <1>4, <1>6, <1>7, <1>8, BudgetShrinks

LEMMA BudgetSteps == BudgetInv /\ [BudgetNext]_budgetVars => BudgetInv'
<1> SUFFICES ASSUME BudgetInv, [BudgetNext]_budgetVars PROVE BudgetInv'
  OBVIOUS
<1>0. BudgetTypeOK /\ BudgetIsTrue
  BY DEF BudgetInv
<1>1. ASSUME NEW k \in Holders, NEW p \in Peers, NEW viaPex \in BOOLEAN, Refuse(k, p, viaPex)
      PROVE  BudgetInv'
  BY <1>0, <1>1, BudgetUntouched, CreatedHolders DEF Refuse, BudgetTypeOK, BudgetIsTrue
<1>2. ASSUME NEW k \in Holders, NEW p \in Peers, NEW viaPex \in BOOLEAN, MakeRoom(k, p, viaPex)
      PROVE  BudgetInv'
  <2> DEFINE v == Largest(Created(k))
             gone == Head(records[v])
  <2>1. /\ holders' = Created(k) /\ UNCHANGED <<inbound, swept, retired>>
        /\ transports' = [transports EXCEPT ![v] = @ \ {gone}]
        /\ pex' = [pex EXCEPT ![v] = @ \ {gone}]
        /\ peerOf' = [peerOf EXCEPT ![v][gone] = "none"]
        /\ records' = [records EXCEPT ![v] = Dropped(@, gone)]
    BY <1>2 DEF MakeRoom, Evicts
  <2> HIDE DEF v, gone
  <2>2. CASE v \in Holders
    BY <2>1, <2>2, CreatedHolders, PeerGone
  <2>3. CASE v \notin Holders
    <3>1. UNCHANGED <<records, pex, transports, peerOf, retired>>
      BY <1>0, <2>1, <2>3 DEF BudgetTypeOK
    <3> QED
      BY <1>0, <2>1, <3>1, CreatedHolders, BudgetUntouched DEF BudgetTypeOK, BudgetIsTrue
  <2> QED
    BY <2>2, <2>3
<1>3. ASSUME NEW k \in Holders, NEW p \in Peers, Connected(k, p) PROVE BudgetInv'
  <2>1. /\ peerOf[k][p] = "connecting" /\ peerOf' = [peerOf EXCEPT ![k][p] = "live"]
        /\ transports' = [transports EXCEPT ![k] = @ \ {p}]
        /\ UNCHANGED <<holders, records, pex, inbound, swept, retired>>
    BY <1>3 DEF Connected
  <2>2. /\ transports' \in [Holders -> SUBSET Peers] /\ transports'[k] = transports[k] \ {p}
        /\ \A h \in Holders \ {k} : transports'[h] = transports[h]
        /\ peerOf' \in [Holders -> [Peers -> {"none", "connecting", "live"}]]
        /\ \A q \in Peers : peerOf'[k][q] = IF q = p THEN "live" ELSE peerOf[k][q]
        /\ \A h \in Holders \ {k} : peerOf'[h] = peerOf[h]
    BY <1>0, <2>1 DEF BudgetTypeOK
  <2>3. BudgetTypeOK'
    BY <1>0, <2>1, <2>2 DEF BudgetTypeOK
  <2>4. BudgetIsTrue'
    <3>1. ASSUME NEW h \in Holders
          PROVE  /\ ToSet(records[h]) = {q \in Peers : peerOf'[h][q] # "none"}
                 /\ transports'[h] = {q \in Peers : peerOf'[h][q] = "connecting"}
      <4>1. /\ ToSet(records[h]) = {q \in Peers : peerOf[h][q] # "none"}
            /\ transports[h] = {q \in Peers : peerOf[h][q] = "connecting"}
        BY <1>0 DEF BudgetIsTrue
      <4>2. CASE h = k
        BY <2>1, <2>2, <4>1, <4>2
      <4>3. CASE h # k
        BY <2>2, <4>1, <4>3
      <4> QED
        BY <4>2, <4>3
    <3> QED
      BY <1>0, <2>1, <3>1 DEF BudgetIsTrue
  <2>5. \A h \in Holders, q \in Peers : q \in Seen'[h] => q \in Seen[h]
    <3>1. \A h \in Holders, q \in Peers :
             peerOf'[h][q] = peerOf[h][q] \/ peerOf[h][q] = "connecting"
      BY <2>1, <2>2
    <3> QED
      BY <2>1, <3>1 DEF Seen, Asked
  <2> QED
    BY <2>1, <2>3, <2>4, <2>5, BudgetShrinks DEF BudgetInv
<1>4. ASSUME NEW k \in Holders, NEW p \in Peers, Destroyed(k, p) PROVE BudgetInv'
  BY <1>0, <1>4, PeerGone DEF Destroyed, BudgetTypeOK
<1>5. ASSUME NEW k \in Holders, ReleaseHolder(k) \/ RetireTracker(k) PROVE BudgetInv'
  BY <1>0, <1>5, GivenBack DEF ReleaseHolder, RetireTracker, BudgetTypeOK
<1>7. ASSUME NEW k \in Holders, NEW p \in Peers, DialsIn(k, p) \/ DialedLeaves(k, p)
      PROVE  BudgetInv'
  <2>1. /\ UNCHANGED <<holders, records, pex, transports, peerOf, swept, retired>>
        /\ inbound' \in [Holders -> SUBSET Peers]
        /\ \A h \in Holders :
              \/ inbound'[h] \subseteq inbound[h]
              \/ h = k /\ peerOf[h][p] = "none" /\ inbound'[h] = inbound[h] \union {p}
    <3>1. CASE DialsIn(k, p)
      BY <1>0, <3>1 DEF DialsIn, BudgetTypeOK
    <3>2. CASE DialedLeaves(k, p)
      BY <1>0, <3>2 DEF DialedLeaves, BudgetTypeOK
    <3> QED
      BY <1>7, <3>1, <3>2
  <2>2. \A h \in Holders : inbound'[h] \intersect ToSet(records[h]) = {}
    <3>1. ASSUME NEW h \in Holders PROVE inbound'[h] \intersect ToSet(records[h]) = {}
      <4>1. /\ inbound[h] \intersect ToSet(records[h]) = {}
            /\ ToSet(records[h]) = {q \in Peers : peerOf[h][q] # "none"}
        BY <1>0 DEF BudgetIsTrue
      <4> QED
        BY <2>1, <4>1
    <3> QED
      BY <3>1
  <2> QED
    BY <1>0, <2>1, <2>2, BudgetUntouched DEF BudgetTypeOK
<1>8. CASE SweepSessions
  BY <1>0, <1>8, BudgetUntouched DEF SweepSessions, BudgetTypeOK, BudgetIsTrue
<1>6. CASE UNCHANGED budgetVars
  BY <1>0, <1>6, BudgetUntouched DEF budgetVars, BudgetTypeOK, BudgetIsTrue
<1> QED
  BY <1>1, <1>2, <1>3, <1>4, <1>5, <1>6, <1>7, <1>8, HandingOff DEF BudgetNext

(* -------------------------- the ingress of the DHT -------------------------- *)

(* A bucket can hold no more than its burst and what the time since it was made *)
(* adds, less what was let in: whoever is let in takes a token, and a refill    *)
(* adds no more than the time that passed.  The sources stand in the order they *)
(* were last touched, so that those too old are at the front.                   *)

Buckets == [source : Sources, tokens : Nat, at : Nat]

Ghosts == [all : Nat, from : Nat, of : [Sources -> Nat], since : [Sources -> Nat]]

\* What of the window was over when the bucket was last refilled.
Since(at, start) == IF at < start THEN 0 ELSE at - start

\* A bucket holds no more than its burst; before its first refill in a window
\* nothing was let in, and after it what was let in and what it holds are no
\* more than the burst and what the window refilled.
Affords(used, tokens, at, start, refill, burst) ==
    /\ tokens <= burst
    /\ at < start => used = 0
    /\ used + tokens <= burst + refill * Since(at, start)

Metered(b, ghost, time) ==
    /\ b.at <= time /\ time - b.at < SourceExpiry
    /\ Affords(ghost.of[b.source], b.tokens, b.at, ghost.since[b.source],
              SourceRefill, SourceBurst)

Touched(sources) ==
    /\ \A i, j \in 1..Len(sources) : i <= j => sources[i].at <= sources[j].at
    /\ \A i, j \in 1..Len(sources) : sources[i].source = sources[j].source => i = j

SourcesSound(sources, ghost, time) ==
    /\ sources \in Seq(Buckets) /\ Touched(sources)
    /\ \A i \in 1..Len(sources) : Metered(sources[i], ghost, time)

GlobalSound(bucket, ghost, time) ==
    /\ bucket \in [tokens : Nat, at : Nat] /\ bucket.at <= time
    /\ Affords(ghost.all, bucket.tokens, bucket.at, ghost.from, GlobalRefill, GlobalBurst)

\* The windows have begun.
Begun(ghost, time) ==
    ghost.from <= time /\ \A s \in Sources : ghost.since[s] <= time

IngressInv ==
    /\ now \in Nat /\ asked \in Nat /\ asked <= now
    /\ accepted \in Ghosts /\ Begun(accepted, now)
    /\ GlobalSound(global, accepted, now)
    /\ SourcesSound(tracked, accepted, asked)
    /\ Len(tracked) <= MaxSources

\* A refill up to now adds no more than the time that passed.
LEMMA RefillAddsTime ==
    ASSUME NEW tokens \in Nat, NEW at \in Nat, NEW refill \in Nat, NEW burst \in Nat,
           now \in Nat, at <= now, NEW used \in Nat, NEW start \in Nat, start <= now,
           Affords(used, tokens, at, start, refill, burst)
    PROVE  LET more == tokens + (now - at) * refill
               full == IF more < burst THEN more ELSE burst
           IN  /\ full \in Nat /\ full <= burst
               /\ used + full <= burst + refill * (now - start)
<1> DEFINE passed == now - at
           before == Since(at, start)
<1>1. passed \in Nat /\ before \in Nat /\ now - start \in Nat
  BY DEF Since
<1>2. used + tokens <= burst + refill * before /\ tokens <= burst
  BY DEF Affords
<1>3. PICK added \in Nat : added = passed * refill
  BY <1>1
<1>4. PICK more \in Nat : more = tokens + added
  OBVIOUS
<1>5. PICK full \in Nat : /\ full = IF more < burst THEN more ELSE burst
                         /\ full <= burst /\ full <= tokens + added
  BY <1>4
<1>6. (now - at) * refill = added
  BY <1>3 DEF passed
<1>7. used + full <= burst + refill * (now - start)
  <2>1. CASE at < start
    <3>1. used = 0
      BY <2>1 DEF Affords
    <3>2. refill * (now - start) \in Nat
      BY <1>1
    <3> QED
      BY <1>5, <3>1, <3>2
  <2>2. CASE ~ (at < start)
    <3>1. now - start = before + passed
      BY <2>2 DEF Since
    <3> HIDE DEF passed, before
    <3>2. PICK had \in Nat : had = refill * before
      BY <1>1
    <3>3. refill * (before + passed) = had + added
      BY <1>1, <1>3, <3>2
    <3>4. used + tokens <= burst + had
      BY <1>2, <3>2
    <3>5. used + full <= burst + (had + added)
      BY <1>5, <3>4
    <3> QED
      BY <3>1, <3>3, <3>5
  <2> QED
    BY <2>1, <2>2
<1> HIDE DEF passed, before
<1> QED
  BY <1>4, <1>5, <1>6, <1>7

\* Part of the sources, in their order, is as sound as all of them.
PartOf(part, sources, place) ==
    /\ place \in [1..Len(part) -> 1..Len(sources)]
    /\ \A i \in 1..Len(part) : part[i] = sources[place[i]]
    /\ \A i, j \in 1..Len(part) : i < j => place[i] < place[j]

LEMMA PartIsSound ==
    ASSUME NEW sources, NEW ghost, NEW time, SourcesSound(sources, ghost, time),
           NEW part \in Seq(Buckets), NEW place, PartOf(part, sources, place)
    PROVE  SourcesSound(part, ghost, time)
<1> USE DEF PartOf
<1>0. Len(part) \in Nat /\ Len(sources) \in Nat /\ \A i \in 1..Len(part) : place[i] \in Int
  BY DEF SourcesSound
<1>1. ASSUME NEW i \in 1..Len(part), NEW j \in 1..Len(part), i <= j
      PROVE  part[i].at <= part[j].at
  <2>1. place[i] <= place[j]
    BY <1>0, <1>1
  <2>2. /\ place[i] \in 1..Len(sources) /\ place[j] \in 1..Len(sources)
        /\ part[i] = sources[place[i]] /\ part[j] = sources[place[j]]
    OBVIOUS
  <2>3. \A a, b \in 1..Len(sources) : a <= b => sources[a].at <= sources[b].at
    BY DEF SourcesSound, Touched
  <2> HIDE DEF PartOf
  <2> QED
    BY <2>1, <2>2, <2>3
<1>2. ASSUME NEW i \in 1..Len(part), NEW j \in 1..Len(part), part[i].source = part[j].source
      PROVE  i = j
  <2>1. place[i] = place[j]
    BY <1>2 DEF SourcesSound, Touched
  <2> QED
    BY <1>0, <1>2, <2>1
<1>3. \A i \in 1..Len(part) : Metered(part[i], ghost, time)
  BY DEF SourcesSound
<1> QED
  BY <1>1, <1>2, <1>3 DEF SourcesSound, Touched

\* What is forgotten of a source that is not remembered starts anew.
LEMMA ForgettingIsSound ==
    ASSUME now \in Nat, NEW ghost \in Ghosts, NEW known
    PROVE  LET forgot == Forgets(ghost, known) IN
           /\ forgot \in Ghosts /\ forgot.all = ghost.all /\ forgot.from = ghost.from
           /\ Begun(ghost, now) => Begun(forgot, now)
           /\ \A s \in Sources : IF s \in known
                 THEN forgot.of[s] = ghost.of[s] /\ forgot.since[s] = ghost.since[s]
                 ELSE forgot.of[s] = 0 /\ forgot.since[s] = now
<1> DEFINE of == [s \in Sources |-> IF s \in known THEN ghost.of[s] ELSE 0]
           since == [s \in Sources |-> IF s \in known THEN ghost.since[s] ELSE now]
<1>1. /\ ghost.all \in Nat /\ ghost.from \in Nat
      /\ ghost.of \in [Sources -> Nat] /\ ghost.since \in [Sources -> Nat]
  BY DEF Ghosts
<1>2. of \in [Sources -> Nat] /\ since \in [Sources -> Nat]
  BY <1>1
<1>3. /\ Forgets(ghost, known) \in Ghosts
      /\ Forgets(ghost, known).all = ghost.all /\ Forgets(ghost, known).from = ghost.from
      /\ Forgets(ghost, known).of = of /\ Forgets(ghost, known).since = since
  <2> HIDE DEF of, since
  <2>1. Forgets(ghost, known) = [ghost EXCEPT !.of = of, !.since = since]
    BY DEF Forgets, of, since
  <2> QED
    BY <1>1, <1>2, <2>1 DEF Ghosts
<1>4. ASSUME Begun(ghost, now) PROVE Begun(Forgets(ghost, known), now)
  <2>1. \A s \in Sources : since[s] <= now
    BY <1>4 DEF Begun
  <2> QED
    BY <1>3, <1>4, <2>1 DEF Begun
<1> QED
  BY <1>3, <1>4

\* Sources remembered stay sound where the rest is forgotten.
LEMMA RememberedStaySound ==
    ASSUME now \in Nat, NEW ghost \in Ghosts, NEW sources, SourcesSound(sources, ghost, now)
    PROVE  SourcesSound(sources, Forgets(ghost, Names(sources)), now)
<1> DEFINE forgot == Forgets(ghost, Names(sources))
<1>1. ASSUME NEW i \in 1..Len(sources) PROVE Metered(sources[i], forgot, now)
  <2>1. sources[i] \in Buckets /\ Metered(sources[i], ghost, now)
    BY DEF SourcesSound
  <2>2. sources[i].source \in Sources /\ sources[i].source \in Names(sources)
    BY <2>1 DEF Buckets, Names
  <2>3. /\ forgot.of[sources[i].source] = ghost.of[sources[i].source]
        /\ forgot.since[sources[i].source] = ghost.since[sources[i].source]
    BY <2>2, ForgettingIsSound
  <2> QED
    BY <2>1, <2>3 DEF Metered
<1> QED
  BY <1>1 DEF SourcesSound

\* The sources from some place on are as sound as all of them.
LEMMA RestIsSound ==
    ASSUME NEW sources, NEW ghost, NEW time, SourcesSound(sources, ghost, time),
           NEW first \in 1..(Len(sources) + 1)
    PROVE  LET rest == SubSeq(sources, first, Len(sources)) IN
           /\ rest \in Seq(Buckets) /\ Len(rest) = Len(sources) + 1 - first
           /\ \A i \in 1..Len(rest) : rest[i] = sources[i + first - 1]
           /\ SourcesSound(rest, ghost, time)
<1> DEFINE rest == SubSeq(sources, first, Len(sources))
           place == [i \in 1..Len(rest) |-> i + first - 1]
<1>1. sources \in Seq(Buckets)
  BY DEF SourcesSound
<1>2. Len(sources) \in Nat /\ first \in Nat /\ 1 <= first /\ first <= Len(sources) + 1
  BY <1>1
<1>3. /\ rest \in Seq(Buckets) /\ Len(rest) = Len(sources) + 1 - first
      /\ \A i \in 1..Len(rest) : rest[i] = sources[first + i - 1]
  BY <1>1, <1>2, SubSeqProperties
<1> HIDE DEF rest
<1>4. \A i \in 1..Len(rest) : i + first - 1 \in 1..Len(sources) /\ i + first - 1 = first + i - 1
  BY <1>2, <1>3
<1>5. place \in [1..Len(rest) -> 1..Len(sources)]
  BY <1>4
<1>6. \A i \in 1..Len(rest) : rest[i] = sources[place[i]]
  BY <1>3, <1>4
<1>7. \A i, j \in 1..Len(rest) : i < j => place[i] < place[j]
  BY <1>2, <1>3
<1>10. PartOf(rest, sources, place)
  BY <1>5, <1>6, <1>7 DEF PartOf
<1> HIDE DEF place
<1>8. SourcesSound(rest, ghost, time)
  BY <1>3, <1>10, PartIsSound
<1>9. \A i \in 1..Len(rest) : rest[i] = sources[i + first - 1]
  BY <1>3, <1>4
<1> QED
  BY <1>3, <1>8, <1>9 DEF rest

\* The sources that are not too old are the ones from some place on.
LEMMA UnexpiredAreSound ==
    ASSUME IngressInv
    PROVE  /\ SourcesSound(Unexpired(tracked), accepted, now)
           /\ Len(Unexpired(tracked)) <= MaxSources
<1>00. /\ MaxSources \in Nat /\ SourceExpiry \in Nat
  BY IngressAssumption
<1>01. tracked \in Seq(Buckets)
  BY DEF IngressInv, SourcesSound
<1>02. /\ now \in Nat /\ asked \in Nat /\ asked <= now /\ Len(tracked) <= MaxSources
  BY DEF IngressInv
<1>03. Len(tracked) \in Nat /\ \A i \in 1..Len(tracked) : tracked[i] \in Buckets
  BY <1>01
<1>04. \A i \in 1..Len(tracked) : tracked[i].at \in Nat
  BY <1>03 DEF Buckets
<1>0. /\ tracked \in Seq(Buckets) /\ Len(tracked) \in Nat /\ now \in Nat /\ asked \in Nat
      /\ asked <= now /\ Len(tracked) <= MaxSources /\ MaxSources \in Nat
      /\ SourceExpiry \in Nat
      /\ \A i \in 1..Len(tracked) : tracked[i] \in Buckets /\ tracked[i].at \in Nat
  BY <1>00, <1>01, <1>02, <1>03, <1>04
<1> DEFINE Fresh(i) == i <= Len(tracked) => now - tracked[i].at < SourceExpiry
           Starts(i) == /\ Fresh(i)
                        /\ \A j \in 1..(i - 1) : now - tracked[j].at >= SourceExpiry
           fresh == {i \in 1..(Len(tracked) + 1) : Fresh(i)}
           first == CHOOSE i \in 1..(Len(tracked) + 1) : Starts(i)
           kept == SubSeq(tracked, first, Len(tracked))
<1>1. first \in 1..(Len(tracked) + 1) /\ Starts(first)
  <2>1. Len(tracked) + 1 \in fresh
    BY <1>0
  <2>2. PICK i \in fresh : \A j \in fresh : i <= j
    <3> HIDE DEF fresh
    <3>1. fresh # {} /\ fresh \subseteq 1..(Len(tracked) + 1) /\ Len(tracked) + 1 \in Nat
      BY <1>0, <2>1 DEF fresh
    <3> QED
      BY <3>1, LeastOfSome
  <2>3. ASSUME NEW j \in 1..(i - 1) PROVE now - tracked[j].at >= SourceExpiry
    <3>1. j \in 1..Len(tracked) /\ j \notin fresh
      BY <1>0, <2>2
    <3> QED
      BY <1>0, <3>1
  <2> QED
    BY <2>2, <2>3
<1>2. Unexpired(tracked) = kept
  BY DEF Unexpired
<1>9. first <= Len(tracked) => now - tracked[first].at < SourceExpiry
  BY <1>1
<1> HIDE DEF Fresh, Starts, fresh, first
<1>3. /\ kept \in Seq(Buckets) /\ Len(kept) = Len(tracked) + 1 - first
      /\ \A i \in 1..Len(kept) : kept[i] = tracked[i + first - 1]
      /\ SourcesSound(kept, accepted, asked)
  BY <1>1, RestIsSound DEF IngressInv
<1> HIDE DEF kept
<1>4. Len(kept) \in Nat /\ first \in Nat /\ 1 <= first
  BY <1>0, <1>1, <1>3
<1>6. ASSUME NEW i \in 1..Len(kept) PROVE Metered(kept[i], accepted, now)
  <2>1. Metered(kept[i], accepted, asked) /\ kept[i].at \in Nat
    <3>1. kept[i] \in Buckets
      BY <1>3
    <3> QED
      BY <1>3, <3>1 DEF SourcesSound, Buckets
  <2>2. kept[1] = tracked[first] /\ first <= Len(tracked) /\ 1 \in 1..Len(kept)
    <3>1. 1 \in 1..Len(kept) /\ first <= Len(tracked) /\ 1 + first - 1 = first
      BY <1>0, <1>3, <1>4
    <3> QED
      BY <1>3, <3>1
  <2>3. now - kept[1].at < SourceExpiry /\ kept[1].at \in Nat
    <3>1. tracked[first] \in Buckets
      BY <1>0, <1>1, <2>2
    <3> QED
      BY <1>9, <2>2, <3>1 DEF Buckets
  <2>4. kept[1].at <= kept[i].at
    BY <1>3, <1>4, <2>2 DEF SourcesSound, Touched
  <2>5. kept[i].at <= now /\ now - kept[i].at < SourceExpiry
    BY <1>0, <2>1, <2>3, <2>4 DEF Metered
  <2> QED
    BY <2>1, <2>5 DEF Metered
<1>7. Len(kept) <= MaxSources
  BY <1>0, <1>3, <1>4
<1> QED
  BY <1>2, <1>3, <1>6, <1>7 DEF SourcesSound

\* The bucket a source draws from, its own or a full one, keeps to the bounds.
LEMMA BucketIsSound ==
    ASSUME now \in Nat, NEW ghost \in Ghosts, NEW sources, SourcesSound(sources, ghost, now),
           NEW source \in Sources,
           source \notin Names(sources) => ghost.of[source] = 0 /\ ghost.since[source] = now
    PROVE  LET b == BucketOf(source, sources) IN
           b \in Buckets /\ b.source = source /\ Metered(b, ghost, now)
<1>0. /\ SourceBurst \in Nat /\ SourceRefill \in Nat /\ SourceExpiry \in Nat \ {0}
  BY IngressAssumption
<1>1. CASE source \in Names(sources)
  <2>1. \E i \in 1..Len(sources) : sources[i].source = source
    BY <1>1 DEF Names
  <2>2. PlaceOf(source, sources) \in 1..Len(sources)
        /\ sources[PlaceOf(source, sources)].source = source
    BY <2>1 DEF PlaceOf
  <2> QED
    BY <1>1, <2>2 DEF BucketOf, SourcesSound
<1>2. CASE source \notin Names(sources)
  <2> DEFINE b == [source |-> source, tokens |-> SourceBurst, at |-> now]
  <2>1. BucketOf(source, sources) = b
    BY <1>2 DEF BucketOf
  <2>2. b \in Buckets /\ b.source = source /\ b.tokens = SourceBurst /\ b.at = now
    BY <1>0 DEF Buckets
  <2>3. SourceRefill * Since(now, now) = 0 /\ ~ (now < now)
    BY <1>0 DEF Since
  <2> HIDE DEF b
  <2>4. Metered(b, ghost, now)
    BY <1>0, <1>2, <2>2, <2>3 DEF Metered, Affords
  <2> QED
    BY <2>1, <2>2, <2>4
<1> QED
  BY <1>1, <1>2

\* The other sources, in their order.
LEMMA OthersAreSound ==
    ASSUME NEW ghost, NEW time, NEW sources, SourcesSound(sources, ghost, time), NEW source
    PROVE  LET others == OthersThan(source, sources) IN
           /\ SourcesSound(others, ghost, time) /\ Len(others) <= Len(sources)
           /\ source \notin Names(others)
<1>0. sources \in Seq(Buckets) /\ Len(sources) \in Nat
  BY DEF SourcesSound
<1>1. CASE source \in Names(sources)
  <2> DEFINE i == PlaceOf(source, sources)
             others == RemoveAt(sources, i)
  <2>1. \E k \in 1..Len(sources) : sources[k].source = source
    BY <1>1 DEF Names
  <2>2. i \in 1..Len(sources) /\ sources[i].source = source
    BY <2>1 DEF PlaceOf
  <2> HIDE DEF i
  <2>3. /\ others \in Seq(Buckets) /\ Len(others) = Len(sources) - 1
        /\ \A j \in 1..(Len(sources) - 1) :
              others[j] = IF j < i THEN sources[j] ELSE sources[j + 1]
    BY <1>0, <2>2, WithoutOneElement
  <2>4. OthersThan(source, sources) = others
    BY <1>1 DEF OthersThan, i
  <2> HIDE DEF others
  <2> DEFINE place == [j \in 1..Len(others) |-> IF j < i THEN j ELSE j + 1]
  <2>5. /\ place \in [1..Len(others) -> 1..Len(sources)]
        /\ \A j \in 1..Len(others) : others[j] = sources[place[j]] /\ place[j] # i
        /\ \A j, k \in 1..Len(others) : j < k => place[j] < place[k]
    BY <1>0, <2>2, <2>3
  <2> HIDE DEF place
  <2>9. PartOf(others, sources, place)
    BY <2>5 DEF PartOf
  <2>6. SourcesSound(others, ghost, time)
    BY <2>3, <2>9, PartIsSound
  <2>7. ASSUME NEW j \in 1..Len(others) PROVE others[j].source # source
    BY <2>2, <2>5 DEF SourcesSound, Touched
  <2>8. source \notin Names(others)
    BY <2>7 DEF Names
  <2> QED
    BY <1>0, <2>3, <2>4, <2>6, <2>8
<1>2. CASE source \notin Names(sources)
  BY <1>0, <1>2 DEF OthersThan
<1> QED
  BY <1>1, <1>2

\* The bucket drawn from moves to the end, and the first makes room.
LEMMA MovedIsSound ==
    ASSUME NEW ghost, now \in Nat, NEW others, SourcesSound(others, ghost, now),
           NEW b \in Buckets, b.at = now, Metered(b, ghost, now), b.source \notin Names(others),
           Len(others) <= MaxSources
    PROVE  LET moved == Append(others, b)
               fitted == IF Len(moved) > MaxSources THEN Tail(moved) ELSE moved
           IN  SourcesSound(fitted, ghost, now) /\ Len(fitted) <= MaxSources
<1> DEFINE moved == Append(others, b)
<1>0. others \in Seq(Buckets) /\ Len(others) \in Nat /\ MaxSources \in Nat \ {0}
  BY IngressAssumption DEF SourcesSound
<1>1. /\ moved \in Seq(Buckets) /\ Len(moved) = Len(others) + 1 /\ moved[Len(others) + 1] = b
      /\ \A i \in 1..Len(others) : moved[i] = others[i]
  BY <1>0
<1> HIDE DEF moved
<1>2. ASSUME NEW i \in 1..Len(moved), NEW j \in 1..Len(moved), i <= j
      PROVE  moved[i].at <= moved[j].at
  <2>1. ASSUME NEW k \in 1..Len(others) PROVE others[k].at <= now
    BY DEF SourcesSound, Metered
  <2>2. CASE j = Len(others) + 1
    BY <1>0, <1>1, <2>1, <2>2
  <2>3. CASE j # Len(others) + 1
    BY <1>0, <1>1, <1>2, <2>3 DEF SourcesSound, Touched
  <2> QED
    BY <2>2, <2>3
<1>3. ASSUME NEW i \in 1..Len(moved), NEW j \in 1..Len(moved),
             moved[i].source = moved[j].source
      PROVE  i = j
  <2>1. ASSUME NEW k \in 1..Len(others) PROVE others[k].source # b.source
    BY DEF Names
  <2> QED
    BY <1>0, <1>1, <1>3, <2>1 DEF SourcesSound, Touched
<1>4. \A i \in 1..Len(moved) : Metered(moved[i], ghost, now)
  BY <1>0, <1>1 DEF SourcesSound
<1>5. SourcesSound(moved, ghost, now)
  BY <1>1, <1>2, <1>3, <1>4 DEF SourcesSound, Touched
<1>6. CASE Len(moved) > MaxSources
  <2> DEFINE rest == Tail(moved)
             place == [i \in 1..Len(rest) |-> i + 1]
  <2>1. /\ rest \in Seq(Buckets) /\ Len(rest) = Len(moved) - 1
        /\ \A i \in 1..Len(rest) : rest[i] = moved[i + 1]
    BY <1>0, <1>1, <1>6
  <2> HIDE DEF rest
  <2>2. PartOf(rest, moved, place)
    BY <1>0, <1>1, <2>1 DEF PartOf
  <2> HIDE DEF place
  <2>3. SourcesSound(rest, ghost, now)
    BY <1>5, <2>1, <2>2, PartIsSound
  <2> QED
    BY <1>0, <1>1, <1>6, <2>1, <2>3 DEF moved, rest
<1>7. CASE ~ (Len(moved) > MaxSources)
  BY <1>0, <1>1, <1>5, <1>7 DEF moved
<1> QED
  BY <1>6, <1>7 DEF moved

LEMMA IngressStarts == IngressInit => IngressInv
<1> SUFFICES ASSUME IngressInit PROVE IngressInv
  OBVIOUS
<1>0. GlobalBurst \in Nat /\ GlobalRefill \in Nat /\ MaxSources \in Nat
  BY IngressAssumption
<1>1. accepted \in Ghosts /\ Begun(accepted, now)
  BY DEF IngressInit, Ghosts, Begun, Window
<1>2. GlobalSound(global, accepted, now)
  <2>1. GlobalRefill * Since(0, 0) = 0
    BY <1>0 DEF Since
  <2> QED
    BY <1>0, <2>1 DEF IngressInit, GlobalSound, Window, Affords
<1>3. SourcesSound(tracked, accepted, asked) /\ Len(tracked) <= MaxSources
  BY <1>0 DEF IngressInit, SourcesSound, Touched
<1> QED
  BY <1>1, <1>2, <1>3 DEF IngressInv, IngressInit

LEMMA AcceptSteps ==
    ASSUME IngressInv, NEW source \in Sources, Accept(source)
    PROVE  IngressInv'
<1> DEFINE kept == Unexpired(tracked)
           drawn == Refilled(global, GlobalRefill, GlobalBurst)
           known == Forgets(accepted, Names(kept))
           bucket == BucketOf(source, kept)
           own == Refilled(bucket, SourceRefill, SourceBurst)
           others == OthersThan(source, kept)
           moved == Append(others, Drained(own))
           fitted == IF Len(moved) > MaxSources THEN Tail(moved) ELSE moved
           counted == IF own.tokens < 1 THEN known
                      ELSE [known EXCEPT !.all = @ + 1, !.of[source] = @ + 1]
<1>0. /\ now \in Nat /\ accepted \in Ghosts /\ GlobalSound(global, accepted, now)
      /\ {GlobalBurst, GlobalRefill, SourceBurst, SourceRefill} \subseteq Nat
      /\ accepted.all \in Nat /\ accepted.from \in Nat /\ Begun(accepted, now)
  BY IngressAssumption DEF IngressInv, Ghosts
<1>1. SourcesSound(kept, accepted, now) /\ Len(kept) <= MaxSources
  BY UnexpiredAreSound
<1>2. /\ known \in Ghosts /\ SourcesSound(kept, known, now) /\ known.all = accepted.all
      /\ known.from = accepted.from /\ Begun(known, now)
      /\ source \notin Names(kept) => known.of[source] = 0 /\ known.since[source] = now
  BY <1>0, <1>1, ForgettingIsSound, RememberedStaySound
<1>3. /\ drawn \in [tokens : Nat, at : Nat] /\ drawn.at = now /\ drawn.tokens <= GlobalBurst
      /\ accepted.all + drawn.tokens <= GlobalBurst + GlobalRefill * (now - accepted.from)
  <2>1. /\ global \in [tokens : Nat, at : Nat] /\ global.at <= now
        /\ Affords(accepted.all, global.tokens, global.at, accepted.from,
                   GlobalRefill, GlobalBurst)
    BY <1>0 DEF GlobalSound
  <2> DEFINE full == LET more == global.tokens + (now - global.at) * GlobalRefill
                     IN  IF more < GlobalBurst THEN more ELSE GlobalBurst
  <2>2. /\ full \in Nat /\ full <= GlobalBurst
        /\ accepted.all + full <= GlobalBurst + GlobalRefill * (now - accepted.from)
    <3>1. /\ global.tokens \in Nat /\ global.at \in Nat /\ accepted.from <= now
          /\ GlobalRefill \in Nat /\ GlobalBurst \in Nat
      BY <1>0, <2>1 DEF Begun
    <3> QED
      BY <1>0, <2>1, <3>1, RefillAddsTime
  <2>3. drawn = [global EXCEPT !.tokens = full, !.at = now]
    BY DEF Refilled
  <2> HIDE DEF full
  <2>5. drawn \in [tokens : Nat, at : Nat] /\ drawn.at = now /\ drawn.tokens = full
    BY <1>0, <2>1, <2>2, <2>3
  <2> HIDE DEF drawn
  <2> QED
    BY <2>2, <2>5
<1>4. /\ global' = Drained(drawn) /\ asked' = now /\ now' = now
      /\ IF drawn.tokens < 1
         THEN tracked' = kept /\ accepted' = known
         ELSE tracked' = fitted /\ accepted' = Forgets(counted, Names(fitted))
  BY DEF Accept
<1> HIDE DEF kept, drawn, known
<1>5. ASSUME NEW ghost \in Ghosts, ghost.from = accepted.from,
             ghost.all + (IF drawn.tokens >= 1 THEN drawn.tokens - 1 ELSE drawn.tokens)
               <= GlobalBurst + GlobalRefill * (now - accepted.from)
      PROVE  GlobalSound(global', ghost, now)
  <2>1. /\ global' \in [tokens : Nat, at : Nat] /\ global'.at = now
        /\ global'.tokens = IF drawn.tokens >= 1 THEN drawn.tokens - 1 ELSE drawn.tokens
    <3>1. drawn \in [tokens : Nat, at : Nat] /\ drawn.at = now
      BY <1>3
    <3>2. global' = [drawn EXCEPT !.tokens = IF drawn.tokens >= 1 THEN drawn.tokens - 1
                                             ELSE drawn.tokens]
      BY <1>4 DEF Drained
    <3>3. CASE drawn.tokens < 1
      BY <3>1, <3>2, <3>3
    <3>4. CASE ~ (drawn.tokens < 1)
      <4>1. drawn.tokens \in Nat /\ drawn.tokens - 1 \in Nat
        BY <3>1, <3>4
      <4> QED
        BY <3>1, <3>2, <3>4, <4>1
    <3> QED
      BY <3>3, <3>4
  <2>2. now <= now /\ accepted.from <= now
    BY <1>0 DEF Begun
  <2>3. Since(now, accepted.from) = now - accepted.from /\ ~ (now < accepted.from)
    BY <1>0, <2>2 DEF Since
  <2>4. global'.tokens <= GlobalBurst
    BY <1>0, <1>3, <2>1
  <2>5. Affords(ghost.all, global'.tokens, global'.at, ghost.from, GlobalRefill, GlobalBurst)
    BY <1>5, <2>1, <2>3, <2>4 DEF Affords
  <2> QED
    BY <2>1, <2>2, <2>5 DEF GlobalSound
<1>6. CASE drawn.tokens < 1
  <2>1. GlobalSound(global', accepted', now)
    BY <1>0, <1>2, <1>3, <1>4, <1>5, <1>6
  <2> QED
    BY <1>0, <1>1, <1>2, <1>4, <1>6, <2>1 DEF IngressInv
<1>7. CASE ~ (drawn.tokens < 1)
  <2>1. bucket \in Buckets /\ bucket.source = source /\ Metered(bucket, known, now)
    BY <1>0, <1>2, BucketIsSound
  <2>2. SourcesSound(others, known, now) /\ Len(others) <= MaxSources /\ source \notin Names(others)
    <3>1. SourcesSound(others, known, now) /\ Len(others) <= Len(kept) /\ source \notin Names(others)
      BY <1>2, OthersAreSound
    <3>2. Len(others) \in Nat /\ Len(kept) \in Nat /\ MaxSources \in Nat
      BY <1>1, <3>1, IngressAssumption DEF SourcesSound
    <3> QED
      BY <1>1, <3>1, <3>2
  <2> HIDE DEF bucket, others
  <2>3. /\ known.of \in [Sources -> Nat] /\ known.since \in [Sources -> Nat] /\ known.all \in Nat
    BY <1>2 DEF Ghosts
  <2>4. /\ own \in Buckets /\ own.source = source /\ own.at = now /\ known.since[source] <= now
        /\ own.tokens <= SourceBurst
        /\ known.of[source] + own.tokens
             <= SourceBurst + SourceRefill * (now - known.since[source])
    <3> DEFINE full == LET more == bucket.tokens + (now - bucket.at) * SourceRefill
                       IN  IF more < SourceBurst THEN more ELSE SourceBurst
    <3>1. /\ bucket.tokens \in Nat /\ bucket.at \in Nat /\ bucket.at <= now
          /\ known.since[source] \in Nat /\ known.since[source] <= now
          /\ known.of[source] \in Nat
          /\ Affords(known.of[source], bucket.tokens, bucket.at, known.since[source],
                    SourceRefill, SourceBurst)
      BY <1>2, <2>1, <2>3 DEF Buckets, Metered, Begun
    <3>2. /\ full \in Nat /\ full <= SourceBurst
          /\ known.of[source] + full <= SourceBurst + SourceRefill * (now - known.since[source])
      BY <1>0, <3>1, RefillAddsTime
    <3>3. own = [bucket EXCEPT !.tokens = full, !.at = now]
      BY DEF Refilled
    <3> HIDE DEF full, own
    <3>4. own \in Buckets /\ own.source = source /\ own.at = now /\ own.tokens = full
      BY <1>0, <2>1, <3>2, <3>3 DEF Buckets
    <3> QED
      BY <1>0, <3>1, <3>2, <3>4
  <2> DEFINE drained == Drained(own)
  <2> HIDE DEF own
  <2>5. /\ drained \in Buckets /\ drained.source = source /\ drained.at = now
        /\ drained.tokens = IF own.tokens >= 1 THEN own.tokens - 1 ELSE own.tokens
        /\ own.tokens \in Nat
    BY <1>0, <2>4 DEF Drained, Buckets
  <2>6. /\ counted \in Ghosts /\ counted.since = known.since /\ counted.from = known.from
        /\ counted.of[source] + drained.tokens = known.of[source] + own.tokens
        /\ \A s \in Sources \ {source} : counted.of[s] = known.of[s]
        /\ counted.all = IF own.tokens < 1 THEN known.all ELSE known.all + 1
    <3>1. CASE own.tokens < 1
      BY <1>2, <2>3, <2>5, <3>1
    <3>2. CASE ~ (own.tokens < 1)
      <4> DEFINE of == [known.of EXCEPT ![source] = @ + 1]
      <4>1. /\ of \in [Sources -> Nat] /\ of[source] = known.of[source] + 1
            /\ \A s \in Sources \ {source} : of[s] = known.of[s]
        BY <2>3
      <4> HIDE DEF of
      <4>2. counted = [known EXCEPT !.all = @ + 1, !.of = of]
        BY <1>2, <3>2 DEF Ghosts, of
      <4> HIDE DEF counted
      <4>3. counted \in Ghosts /\ counted.since = known.since /\ counted.of = of
            /\ counted.all = known.all + 1 /\ counted.from = known.from
        <5>1. known \in [all : Nat, from : Nat, of : [Sources -> Nat], since : [Sources -> Nat]]
              /\ known.all + 1 \in Nat /\ of \in [Sources -> Nat]
          BY <1>2, <2>3, <4>1 DEF Ghosts
        <5>2. /\ counted.since = known.since /\ counted.of = of
              /\ counted.all = known.all + 1 /\ counted.from = known.from
          BY <4>2, <5>1
        <5>3. counted \in [all : Nat, from : Nat, of : [Sources -> Nat], since : [Sources -> Nat]]
          BY <4>2, <5>1
        <5> QED
          BY <5>2, <5>3 DEF Ghosts
      <4>4. known.of[source] \in Nat
        BY <2>3
      <4> QED
        BY <2>5, <3>2, <4>1, <4>3, <4>4
    <3> QED
      BY <3>1, <3>2
  <2> HIDE DEF drained, counted
  <2>7. SourcesSound(others, counted, now)
    <3>1. ASSUME NEW i \in 1..Len(others) PROVE Metered(others[i], counted, now)
      <4>1. others[i] \in Buckets /\ Metered(others[i], known, now)
        BY <2>2 DEF SourcesSound
      <4>2. others[i].source \in Sources \ {source}
        BY <2>2, <4>1 DEF Names, Buckets
      <4> QED
        BY <2>6, <4>1, <4>2 DEF Metered
    <3> QED
      BY <2>2, <3>1 DEF SourcesSound
  <2>8. Metered(drained, counted, now)
    <3>1. /\ now - now = 0 /\ SourceExpiry \in Nat \ {0} /\ now <= now
          /\ known.since[source] \in Nat
      BY <1>0, <2>3, IngressAssumption
    <3>2. /\ Since(now, known.since[source]) = now - known.since[source]
          /\ ~ (now < known.since[source])
      BY <1>0, <2>4, <3>1 DEF Since
    <3>3. drained.tokens <= SourceBurst
      BY <1>0, <2>4, <2>5
    <3>4. Affords(counted.of[source], drained.tokens, now, known.since[source],
                 SourceRefill, SourceBurst)
      BY <2>4, <2>6, <3>2, <3>3 DEF Affords
    <3> QED
      BY <1>0, <2>5, <2>6, <3>1, <3>4 DEF Metered
  <2>9. SourcesSound(fitted, counted, now) /\ Len(fitted) <= MaxSources
    BY <1>0, <2>2, <2>5, <2>7, <2>8, MovedIsSound DEF drained
  <2> HIDE DEF fitted
  <2>10. /\ accepted' \in Ghosts /\ accepted'.all = counted.all
         /\ accepted'.from = accepted.from /\ Begun(accepted', now)
         /\ SourcesSound(fitted, accepted', now)
    <3>1. Begun(counted, now)
      BY <1>2, <2>6 DEF Begun
    <3> QED
      BY <1>0, <1>2, <1>4, <1>7, <2>6, <2>9, <3>1, ForgettingIsSound, RememberedStaySound
  <2>11. GlobalSound(global', accepted', now)
    <3>1. drawn.tokens \in Nat
      BY <1>3
    <3>2. counted.all \in Nat /\ counted.all <= known.all + 1
      BY <2>3, <2>6
    <3>3. counted.all + (drawn.tokens - 1)
            <= GlobalBurst + GlobalRefill * (now - accepted.from)
      <4>1. PICK bound \in Nat : bound = GlobalBurst + GlobalRefill * (now - accepted.from)
        BY <1>0 DEF Begun
      <4> QED
        BY <1>0, <1>2, <1>3, <3>1, <3>2, <4>1
    <3> QED
      BY <1>5, <1>7, <2>10, <3>1, <3>2, <3>3
  <2> QED
    BY <1>0, <1>4, <1>7, <2>9, <2>10, <2>11 DEF IngressInv
<1> QED
  BY <1>6, <1>7

LEMMA IngressSteps == IngressInv /\ [IngressNext]_ingressVars => IngressInv'
<1> SUFFICES ASSUME IngressInv, [IngressNext]_ingressVars PROVE IngressInv'
  OBVIOUS
<1>1. CASE Tick
  <2>1. now \in Nat /\ now' = now + 1 /\ asked <= now /\ asked \in Nat
        /\ UNCHANGED <<global, tracked, asked>>
    BY <1>1 DEF Tick, IngressInv
  <2>2. CASE accepted' = accepted
    <3>1. GlobalSound(global', accepted', now')
      BY <2>1, <2>2 DEF IngressInv, GlobalSound
    <3>2. Begun(accepted', now')
      BY <2>1, <2>2 DEF IngressInv, Begun, Ghosts
    <3>3. SourcesSound(tracked', accepted', asked')
      BY <2>1, <2>2 DEF IngressInv
    <3> QED
      BY <2>1, <2>2, <3>1, <3>2, <3>3 DEF IngressInv
  <2>3. CASE accepted' = Window(now')
    <3>1. /\ accepted' \in Ghosts /\ Begun(accepted', now')
          /\ accepted'.all = 0 /\ accepted'.from = now'
          /\ \A s \in Sources : accepted'.of[s] = 0 /\ accepted'.since[s] = now'
      BY <2>1, <2>3 DEF Window, Ghosts, Begun
    <3>2. ASSUME NEW tokens \in Nat, NEW at \in Nat, at <= now,
                 NEW refill \in Nat, NEW burst \in Nat, tokens <= burst
          PROVE  Affords(0, tokens, at, now', refill, burst)
      <4>1. at < now' /\ Since(at, now') = 0
        BY <2>1, <3>2 DEF Since
      <4> QED
        BY <3>2, <4>1 DEF Affords
    <3>3. GlobalSound(global', accepted', now')
      BY <2>1, <3>1, <3>2, IngressAssumption DEF IngressInv, GlobalSound, Affords
    <3>4. ASSUME NEW i \in 1..Len(tracked) PROVE Metered(tracked[i], accepted', asked)
      <4>1. tracked[i] \in Buckets /\ Metered(tracked[i], accepted, asked)
        BY DEF IngressInv, SourcesSound
      <4>2. /\ tracked[i].source \in Sources /\ tracked[i].tokens \in Nat
            /\ tracked[i].at \in Nat /\ tracked[i].at <= now
            /\ tracked[i].tokens <= SourceBurst
        BY <2>1, <4>1 DEF Buckets, Metered, Affords
      <4>3. Affords(0, tracked[i].tokens, tracked[i].at, now', SourceRefill, SourceBurst)
        BY <3>2, <4>2, IngressAssumption
      <4> QED
        BY <3>1, <4>1, <4>2, <4>3 DEF Metered
    <3>5. SourcesSound(tracked', accepted', asked')
      BY <2>1, <3>4 DEF IngressInv, SourcesSound
    <3> QED
      BY <2>1, <3>1, <3>3, <3>5 DEF IngressInv
  <2> QED
    BY <1>1, <2>2, <2>3 DEF Tick
<1>2. CASE \E source \in Sources : Accept(source)
  BY <1>2, AcceptSteps
<1>3. CASE UNCHANGED ingressVars
  BY <1>3 DEF ingressVars, IngressInv
<1> QED
  BY <1>1, <1>2, <1>3 DEF IngressNext

LEMMA LongerIsMore ==
    ASSUME NEW n \in Nat, NEW a \in Nat, NEW b \in Nat, a <= b
    PROVE  n * a <= n * b
<1>1. PICK d \in Nat : b = a + d
  <2>1. b - a \in Nat /\ b = a + (b - a)
    OBVIOUS
  <2> QED
    BY <2>1
<1>2. n * b = n * a + n * d /\ n * d \in Nat /\ n * a \in Nat
  BY <1>1
<1> QED
  BY <1>2

\* What was let in is no more than the burst and what the window refills.
LEMMA WithinItsWindow ==
    ASSUME NEW used \in Nat, NEW tokens \in Nat, NEW at \in Nat, NEW start \in Nat,
           NEW refill \in Nat, NEW burst \in Nat, now \in Nat, at <= now, start <= now,
           Affords(used, tokens, at, start, refill, burst)
    PROVE  used <= burst + refill * (now - start)
<1> DEFINE had == Since(at, start)
           has == now - start
<1>1. had \in Nat /\ has \in Nat /\ had <= has
  BY DEF Since
<1>2. used + tokens <= burst + refill * had
  BY DEF Affords
<1> HIDE DEF had, has
<1>3. refill * had <= refill * has
  BY <1>1, LongerIsMore
<1>4. PICK x \in Nat : x = refill * had
  BY <1>1
<1>5. PICK y \in Nat : y = refill * has
  BY <1>1
<1>6. x <= y /\ used + tokens <= burst + x
  BY <1>2, <1>3, <1>4, <1>5
<1>7. used <= burst + y
  BY <1>6
<1> QED
  BY <1>5, <1>7 DEF has

LEMMA IngressInvMeans == IngressInv => IngressIsMetered
<1> SUFFICES ASSUME IngressInv PROVE IngressIsMetered
  OBVIOUS
<1>0. /\ now \in Nat /\ asked \in Nat /\ asked <= now
      /\ GlobalBurst \in Nat /\ GlobalRefill \in Nat
      /\ SourceBurst \in Nat /\ SourceRefill \in Nat
      /\ SourcesSound(tracked, accepted, asked) /\ Len(tracked) \in Nat
  BY IngressAssumption DEF IngressInv, SourcesSound
<1>1. accepted.all <= GlobalBurst + GlobalRefill * (now - accepted.from)
  BY <1>0, WithinItsWindow DEF IngressInv, GlobalSound, Ghosts, Begun
<1>2. ASSUME NEW s \in Names(tracked)
      PROVE  accepted.of[s] <= SourceBurst + SourceRefill * (now - accepted.since[s])
  <2>1. PICK i \in 1..Len(tracked) : tracked[i].source = s
    BY DEF Names
  <2>2. tracked[i] \in Buckets /\ Metered(tracked[i], accepted, asked)
    BY <1>0 DEF SourcesSound
  <2>3. /\ s \in Sources /\ tracked[i].tokens \in Nat /\ tracked[i].at \in Nat
        /\ tracked[i].at <= now
    BY <1>0, <2>1, <2>2 DEF Buckets, Metered
  <2>4. accepted.of[s] \in Nat /\ accepted.since[s] \in Nat /\ accepted.since[s] <= now
    BY <2>3 DEF IngressInv, Ghosts, Begun
  <2>5. Affords(accepted.of[s], tracked[i].tokens, tracked[i].at, accepted.since[s],
               SourceRefill, SourceBurst)
    BY <2>1, <2>2 DEF Metered
  <2> QED
    BY <1>0, <2>3, <2>4, <2>5, WithinItsWindow
<1>3. Cardinality(Names(tracked)) = Len(tracked)
  <2> DEFINE f == [i \in 1..Len(tracked) |-> tracked[i].source]
  <2>1. f \in Bijection(1..Len(tracked), Names(tracked))
    <3>1. \A i, j \in 1..Len(tracked) : tracked[i].source = tracked[j].source => i = j
      BY <1>0 DEF SourcesSound, Touched
    <3>2. f \in [1..Len(tracked) -> Names(tracked)]
      BY DEF Names
    <3>3. \A t \in Names(tracked) : \E i \in 1..Len(tracked) : f[i] = t
      BY DEF Names
    <3> QED
      BY <3>1, <3>2, <3>3 DEF Bijection, Injection, Surjection, IsInjective
  <2>2. ExistsBijection(1..Len(tracked), Names(tracked))
    BY <2>1 DEF ExistsBijection
  <2>3. IsFiniteSet(1..Len(tracked)) /\ Cardinality(1..Len(tracked)) = Len(tracked)
    <3>1. CASE Len(tracked) = 0
      <4>1. 1..Len(tracked) = {}
        BY <3>1
      <4> QED
        BY <3>1, <4>1, FS_EmptySet
    <3>2. CASE Len(tracked) # 0
      <4>1. 1 \in Int /\ Len(tracked) \in Int /\ ~ (1 > Len(tracked)) /\ Len(tracked) - 1 + 1 = Len(tracked)
        BY <1>0, <3>2
      <4> QED
        BY <4>1, FS_Interval
    <3> QED
      BY <3>1, <3>2
  <2> QED
    BY <2>2, <2>3, FS_Bijection
<1>4. \A i \in 1..Len(tracked) : asked - tracked[i].at < SourceExpiry
  BY <1>0 DEF SourcesSound, Metered
<1>5. \A i, j \in 1..Len(tracked) : i <= j => tracked[i].at <= tracked[j].at
  BY <1>0 DEF SourcesSound, Touched
<1>6. Len(tracked) <= MaxSources
  BY DEF IngressInv
<1> QED
  BY <1>1, <1>2, <1>3, <1>4, <1>5, <1>6 DEF IngressIsMetered

(* ------------------------------ the composition ----------------------------- *)

\* A step of the composition is a step of any one service, or leaves it alone.
LEMMA OneServiceAtATime ==
    [Next]_vars =>
        /\ UNCHANGED subject
        /\ [MediaNext]_mediaVars /\ [DhtNext]_dhtVars /\ [LifecycleNext]_lifecycleVars
        /\ [TrackerNext]_trackerVars /\ [WssNext]_wssVars /\ [SignalNext]_signalVars
        /\ [FetchNext]_fetchVars /\ [BudgetNext]_budgetVars /\ [IngressNext]_ingressVars
BY DEF Next, vars

LEMMA ServicesStart ==
    Init => /\ MediaInit /\ DhtInit /\ LifecycleInit
            /\ TrackerInit /\ WssInit /\ SignalInit
            /\ FetchInit /\ BudgetInit /\ IngressInit
BY DEF Init

\* The media proxy: a lease belongs to a torrent the manager has, never outlives
\* it or the proxy, and is known to whoever could close it.
THEOREM MediaHolds == Spec => []LeasesOwned
<1>1. Init => MediaInv
  BY ServicesStart, MediaStarts
<1>2. MediaInv /\ [Next]_vars => MediaInv'
  BY OneServiceAtATime, MediaSteps
<1>3. MediaInv => LeasesOwned
  BY DEF MediaInv
<1> QED
  BY <1>1, <1>2, <1>3, PTL DEF Spec

\* The two clients: the engine is ready only with both, unless one was lost while
\* start still waited for the other, and stops with neither running.
THEOREM ClientsHold == Spec => []ClientsStartAndStopTogether
<1>1. Init => LifecycleInv
  BY ServicesStart, LifecycleStarts
<1>2. LifecycleInv /\ [Next]_vars => LifecycleInv'
  BY OneServiceAtATime, LifecycleSteps
<1>3. LifecycleInv => ClientsStartAndStopTogether
  BY DEF LifecycleInv, ClientsStartAndStopTogether
<1> QED
  BY <1>1, <1>2, <1>3, PTL DEF Spec

\* A torrent's HTTP announces: one is always under way or due, a tracker is not
\* asked while it is being told to stop, and who is left untold had its attempt
\* met by a full gate or was asked again after it.
THEOREM AnnouncesHold == Spec => []AnnouncesAreKept
<1>1. Init => TrackerInv
  BY ServicesStart, TrackerStarts
<1>2. TrackerInv /\ [Next]_vars => TrackerInv'
  BY OneServiceAtATime, TrackerSteps
<1>3. TrackerInv => AnnouncesAreKept
  BY DEF TrackerInv, AnnouncesAreKept
<1> QED
  BY <1>1, <1>2, <1>3, PTL DEF Spec

\* A torrent's WebSocket announces: every place is filled or waits for a
\* candidate, and what is live has a working socket.
THEOREM SocketsHold == Spec => []SocketsAccountedFor
<1>1. Init => WssInv
  BY ServicesStart, WssStarts
<1>2. WssInv /\ [Next]_vars => WssInv'
  BY OneServiceAtATime, WssSteps
<1>3. WssInv => SocketsAccountedFor
  BY DEF WssInv, SocketsAccountedFor
<1> QED
  BY <1>1, <1>2, <1>3, PTL DEF Spec

\* The signaling of peers: the leases counted are the peers being signaled and
\* those that could not be made, within every bound, and none is a closed torrent's.
THEOREM SignalsHold == Spec => []SignalingAccountedFor
<1>1. Init => SignalInv
  BY ServicesStart, SignalStarts
<1>2. SignalInv /\ [Next]_vars => SignalInv'
  BY OneServiceAtATime, SignalSteps
<1>3. SignalInv => SignalingAccountedFor
  BY DEF SignalInv, SignalingAccountedFor
<1> QED
  BY <1>1, <1>2, <1>3, PTL DEF Spec

\* The bounded fetches: no connection is to an address that is off limits or
\* over plain http after https, and a slot is held as long as a connection may be.
THEOREM FetchesHold == Spec => []FetchesStayWithinPolicy
<1>1. Init => FetchInv
  BY ServicesStart, FetchStarts
<1>2. FetchInv /\ [Next]_vars => FetchInv'
  BY OneServiceAtATime, FetchSteps
<1>3. FetchInv => FetchesStayWithinPolicy
  BY FetchInvMeans DEF FetchesStayWithinPolicy
<1> QED
  BY <1>1, <1>2, <1>3, PTL DEF Spec

\* The peers of the engine: those counted are those it was handed, and the bounds
\* on records, and on the transports that admission sees, hold however many
\* torrents and acquisitions there are.
THEOREM PeersHold == Spec => []PeersWithinBudget
<1>1. Init => BudgetInv
  BY ServicesStart, BudgetStarts
<1>2. BudgetInv /\ [Next]_vars => BudgetInv'
  BY OneServiceAtATime, BudgetSteps
<1>3. BudgetInv => PeersWithinBudget
  BY DEF BudgetInv, PeersWithinBudget
<1> QED
  BY <1>1, <1>2, <1>3, PTL DEF Spec

\* The datagrams let in: over any window no more than a burst and the window's
\* refill, of all sources and of each, from a bounded memory of them.
THEOREM IngressHolds == Spec => []IngressIsMetered
<1>1. Init => IngressInv
  BY ServicesStart, IngressStarts
<1>2. IngressInv /\ [Next]_vars => IngressInv'
  BY OneServiceAtATime, IngressSteps
<1>3. IngressInv => IngressIsMetered
  BY IngressInvMeans
<1> QED
  BY <1>1, <1>2, <1>3, PTL DEF Spec

\* The DHT participant searches for exactly the torrents that asked, but for the
\* sessions a full queue turned away, and goes on searching, but for those whose
\* first socket threw.
THEOREM DhtHolds == Spec => []DhtFollowsItsTorrents
<1>1. Init => DhtInv
  BY ServicesStart, DhtStarts
<1>2. DhtInv /\ [Next]_vars => DhtInv'
  BY OneServiceAtATime, DhtSteps
<1>3. DhtInv => DhtFollowsItsTorrents
  BY DhtInvMeans DEF DhtFollowsItsTorrents
<1> QED
  BY <1>1, <1>2, <1>3, PTL DEF Spec

================================================================================
