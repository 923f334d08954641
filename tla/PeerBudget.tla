------------------------------- MODULE PeerBudget -------------------------------
(* The shared bound on peers (peer-budget.ts) and the handoffs that go through  *)
(* it: a torrent session's (disk-torrent.ts) and a metadata acquisition's       *)
(* (engine/index.ts).  A holder is one generation of one torrent.  WebTorrent   *)
(* keeps the peers; a peer it drops calls the destroy the engine wrapped.  Its  *)
(* second, late destroy of a peer that was taken on again since is left out.    *)
(* Peers that dial in are WebTorrent's alone: the budget sees them only where   *)
(* it asks how many transports are up, and it asks nothing of a torrent that    *)
(* TorrentManager.closeAll has taken off its map.                               *)
EXTENDS Integers, FiniteSets, SequencesExt

CONSTANTS Holders, StagingHolders, Peers,
          MaxLiveTransports, MaxRecords, MaxRecordsPerTorrent,
          MaxPexRecords, MaxPexRecordsPerTorrent,
          MaxStagingLiveTransports, MaxStagingRecords,
          MaxStagingRecordsPerAcquisition

ASSUME BudgetAssumption ==
    /\ IsFiniteSet(Holders) /\ IsFiniteSet(Peers)
    /\ StagingHolders \subseteq Holders
    /\ \A n \in {MaxLiveTransports, MaxRecords, MaxRecordsPerTorrent,
                 MaxPexRecords, MaxPexRecordsPerTorrent, MaxStagingLiveTransports,
                 MaxStagingRecords, MaxStagingRecordsPerAcquisition} :
         n \in Nat \ {0}

VARIABLES
    \* @type: Seq(Holder); in the order they were created
    holders,
    \* @type: Holder -> Seq(Peer); in the order they were admitted
    records,
    \* @type: Holder -> Set(Peer)
    pex,
    \* @type: Holder -> Set(Peer)
    transports,
    \* @type: Holder -> [Peer -> {"none", "connecting", "live"}]; WebTorrent's
    peerOf,
    \* @type: Holder -> Set(Peer); connected, and never handed over
    inbound,
    \* @type: Bool; closeAll has cleared the manager's map of sessions
    swept,
    \* @type: Set(Holder); the generations that are over
    retired

budgetVars == <<holders, records, pex, transports, peerOf, inbound, swept, retired>>

BudgetInit ==
    /\ holders = << >>
    /\ records = [k \in Holders |-> << >>]
    /\ pex = [k \in Holders |-> {}]
    /\ transports = [k \in Holders |-> {}]
    /\ peerOf = [k \in Holders |-> [p \in Peers |-> "none"]]
    /\ inbound = [k \in Holders |-> {}]
    /\ swept = FALSE
    /\ retired = {}

BudgetTypeOK ==
    /\ holders \in Seq(Holders) /\ IsInjective(holders)
    /\ records \in [Holders -> Seq(Peers)]
    /\ pex \in [Holders -> SUBSET Peers]
    /\ transports \in [Holders -> SUBSET Peers]
    /\ peerOf \in [Holders -> [Peers -> {"none", "connecting", "live"}]]
    /\ inbound \in [Holders -> SUBSET Peers]
    /\ swept \in BOOLEAN
    /\ retired \subseteq Holders

---------------------------------------------------------------------------------
(* What the budget counts. *)

\* The peers each of some holders has, counted together.
Total(of, ks) == Cardinality({kp \in ks \X Peers : kp[2] \in of[kp[1]]})

Recorded == [k \in Holders |-> ToSet(records[k])]

\* The transports WebTorrent counts as connected, whoever dialed.
LivePeers ==
    [k \in Holders |-> {p \in Peers : peerOf[k][p] = "live" \/ p \in inbound[k]}]

\* The holders liveTransports asks: the manager's sessions while it has them,
\* and every staging client.
Asked == IF swept THEN StagingHolders ELSE Holders

AdmitsTransport(k) ==
    /\ Total(LivePeers, Asked) + Total(transports, Holders) < MaxLiveTransports
    /\ \/ k \notin StagingHolders
       \/ Total(LivePeers, StagingHolders) + Total(transports, StagingHolders)
              < MaxStagingLiveTransports

AdmitsPex(k) ==
    /\ Cardinality(pex[k]) < MaxPexRecordsPerTorrent
    /\ Total(pex, Holders) < MaxPexRecords

\* The bounds of one holder and of staging, which nothing is evicted for.
AdmitsHolder(k) ==
    IF k \in StagingHolders
    THEN /\ Len(records[k]) < MaxStagingRecordsPerAcquisition
         /\ Total(Recorded, StagingHolders) < MaxStagingRecords
    ELSE Len(records[k]) < MaxRecordsPerTorrent

RecordsFull == Total(Recorded, Holders) >= MaxRecords

\* The holder of most records, the first of them to have been created.
Largest(hs) ==
    hs[CHOOSE i \in DOMAIN hs :
        \A j \in DOMAIN hs :
            /\ Len(records[hs[j]]) <= Len(records[hs[i]])
            /\ j < i => Len(records[hs[j]]) < Len(records[hs[i]])]

MayEvict(k, hs) ==
    /\ Len(records[Largest(hs)]) > 0
    /\ Largest(hs) = k => Len(hs) = 1

\* A sequence without one of its elements.
Dropped(s, e) ==
    IF e \in ToSet(s) THEN RemoveAt(s, CHOOSE i \in DOMAIN s : s[i] = e) ELSE s

Created(k) == IF k \in ToSet(holders) THEN holders ELSE Append(holders, k)

---------------------------------------------------------------------------------
(* Handoffs. *)

\* A record is taken back and its peer removed from WebTorrent.
Evicts(v, p) ==
    /\ transports' = [transports EXCEPT ![v] = @ \ {p}]
    /\ pex' = [pex EXCEPT ![v] = @ \ {p}]
    /\ peerOf' = [peerOf EXCEPT ![v][p] = "none"]
    /\ records' = [records EXCEPT ![v] = Dropped(@, p)]

\* A peer that is recorded already, that the budget has no room for, or that has
\* dialed in before: only the holder may be new.  WebTorrent refuses a peer it has.
Refuse(k, p, viaPex) ==
    /\ k \notin retired
    /\ \/ p \in ToSet(records[k]) \union inbound[k]
       \/ ~ AdmitsTransport(k)
       \/ viaPex /\ k \notin StagingHolders /\ ~ AdmitsPex(k)
       \/ ~ AdmitsHolder(k)
       \/ RecordsFull /\ ~ MayEvict(k, Created(k))
    /\ holders' = Created(k)
    /\ UNCHANGED <<records, pex, transports, peerOf, inbound, swept, retired>>

\* Room is made where the budget is full.  The same call goes on to Handoff:
\* nothing runs between the two, but a second record may be lost to a peer
\* that WebTorrent then refuses.
MakeRoom(k, p, viaPex) ==
    /\ k \notin retired
    /\ p \notin ToSet(records[k])
    /\ AdmitsTransport(k)
    /\ viaPex /\ k \notin StagingHolders => AdmitsPex(k)
    /\ AdmitsHolder(k)
    /\ RecordsFull
    /\ MayEvict(k, Created(k))
    /\ LET v == Largest(Created(k)) IN Evicts(v, Head(records[v]))
    /\ holders' = Created(k)
    /\ UNCHANGED <<inbound, swept, retired>>

\* Mutant: an accepted peer takes no reservation.
HandoffUnreserved(k, p, viaPex, connected) ==
    /\ k \notin retired
    /\ p \notin ToSet(records[k]) \union inbound[k]
    /\ AdmitsTransport(k)
    /\ viaPex => k \notin StagingHolders /\ AdmitsPex(k)
    /\ AdmitsHolder(k)
    /\ ~ RecordsFull
    /\ holders' = Created(k)
    /\ records' = [records EXCEPT ![k] = Append(@, p)]
    /\ pex' = [pex EXCEPT ![k] = IF viaPex THEN @ \union {p} ELSE @]
    /\ peerOf' = [peerOf EXCEPT ![k][p] = IF connected THEN "live" ELSE "connecting"]
    /\ UNCHANGED <<transports, inbound, swept, retired>>

\* An accepted peer: recorded, and its transport reserved until WebTorrent
\* counts it.  One that WebTorrent refuses is forgotten at once (Refuse).
Handoff(k, p, viaPex, connected) ==
    /\ k \notin retired
    /\ p \notin ToSet(records[k]) \union inbound[k]
    /\ AdmitsTransport(k)
    /\ viaPex => k \notin StagingHolders /\ AdmitsPex(k)
    /\ AdmitsHolder(k)
    /\ ~ RecordsFull
    /\ holders' = Created(k)
    /\ records' = [records EXCEPT ![k] = Append(@, p)]
    /\ pex' = [pex EXCEPT ![k] = IF viaPex THEN @ \union {p} ELSE @]
    /\ peerOf' = [peerOf EXCEPT ![k][p] = IF connected THEN "live" ELSE "connecting"]
    /\ transports' = [transports EXCEPT ![k] = IF connected THEN @ ELSE @ \union {p}]
    /\ UNCHANGED <<inbound, swept, retired>>

---------------------------------------------------------------------------------
(* What WebTorrent and the sessions do with a peer afterwards. *)

\* WebTorrent counts the peer and releases its reservation in one event.
Connected(k, p) ==
    /\ peerOf[k][p] = "connecting"
    /\ peerOf' = [peerOf EXCEPT ![k][p] = "live"]
    /\ transports' = [transports EXCEPT ![k] = @ \ {p}]
    /\ UNCHANGED <<holders, records, pex, inbound, swept, retired>>

\* The wrapped destroy: the peer's record, mark and reservation go with it.
Destroyed(k, p) ==
    /\ peerOf[k][p] # "none"
    /\ peerOf' = [peerOf EXCEPT ![k][p] = "none"]
    /\ records' = [records EXCEPT ![k] = Dropped(@, p)]
    /\ pex' = [pex EXCEPT ![k] = @ \ {p}]
    /\ transports' = [transports EXCEPT ![k] = @ \ {p}]
    /\ UNCHANGED <<holders, inbound, swept, retired>>

\* A peer dials a committed torrent; a staging client has closed its listener.
DialsIn(k, p) ==
    /\ k \notin retired \union StagingHolders
    /\ peerOf[k][p] = "none"
    /\ p \notin inbound[k]
    /\ inbound' = [inbound EXCEPT ![k] = @ \union {p}]
    /\ UNCHANGED <<holders, records, pex, transports, peerOf, swept, retired>>

DialedLeaves(k, p) ==
    /\ p \in inbound[k]
    /\ inbound' = [inbound EXCEPT ![k] = @ \ {p}]
    /\ UNCHANGED <<holders, records, pex, transports, peerOf, swept, retired>>

\* The holder's budget is given back after its peers were destroyed with its
\* torrent, or removed one by one from a staging torrent.
GivesBack(k) ==
    /\ holders' = Dropped(holders, k)
    /\ records' = [records EXCEPT ![k] = << >>]
    /\ pex' = [pex EXCEPT ![k] = {}]
    /\ transports' = [transports EXCEPT ![k] = {}]
    /\ peerOf' = [peerOf EXCEPT ![k] = [p \in Peers |-> "none"]]
    /\ inbound' = [inbound EXCEPT ![k] = {}]
    /\ UNCHANGED swept

\* A generation ends.
ReleaseHolder(k) ==
    /\ k \notin retired
    /\ GivesBack(k)
    /\ retired' = retired \union {k}

\* An acquisition leaves a tracker; the next one fills the same budget.
RetireTracker(k) ==
    /\ k \in StagingHolders \ retired
    /\ GivesBack(k)
    /\ UNCHANGED retired

\* closeAll clears its map first; each session takes peers on until its turn.
SweepSessions ==
    /\ ~ swept
    /\ swept' = TRUE
    /\ UNCHANGED <<holders, records, pex, transports, peerOf, inbound, retired>>

BudgetNext ==
    \/ \E k \in Holders, p \in Peers, viaPex \in BOOLEAN :
          \/ Refuse(k, p, viaPex)
          \/ MakeRoom(k, p, viaPex)
          \/ \E connected \in BOOLEAN : Handoff(k, p, viaPex, connected)
    \/ \E k \in Holders, p \in Peers : Connected(k, p) \/ Destroyed(k, p)
    \/ \E k \in Holders, p \in Peers : DialsIn(k, p) \/ DialedLeaves(k, p)
    \/ \E k \in Holders : ReleaseHolder(k) \/ RetireTracker(k)
    \/ SweepSessions

---------------------------------------------------------------------------------
(* Properties. *)

\* The budget and WebTorrent agree: a generation's records are the peers
\* WebTorrent was handed for it, and the transports reserved are those of the
\* peers still connecting, so no capacity leaks however a peer ends
\* (disk-torrent.ts #handoffBudgeted, #releaseReservationWhenCounted).
BudgetIsTrue ==
    \A k \in Holders :
        /\ ToSet(records[k]) = {p \in Peers : peerOf[k][p] # "none"}
        /\ transports[k] = {p \in Peers : peerOf[k][p] = "connecting"}
        /\ pex[k] \subseteq ToSet(records[k])
        /\ inbound[k] \intersect ToSet(records[k]) = {}

\* The transports handed over that admission takes into account: those on
\* their way, and those up in a torrent it still asks.
Seen ==
    [k \in Holders |->
        {p \in Peers : \/ peerOf[k][p] = "connecting"
                       \/ peerOf[k][p] = "live" /\ k \in Asked}]

\* Whatever the torrents ask for together, the records stay within the engine's
\* bounds and the acquisitions within their own, in records and in transports.
\* The engine's bound on transports is kept by what admission sees of those it
\* handed over: all of them until closeAll, fewer after it, and never the peers
\* that dialed in (PeerBudget.#admitsTransport, #admitsRecord).
BudgetHolds ==
    LET Up == [k \in Holders |-> {p \in Peers : peerOf[k][p] # "none"}]
    IN /\ Total(Seen, Holders) <= MaxLiveTransports
       /\ Total(Up, StagingHolders) <= MaxStagingLiveTransports
       /\ Total(Recorded, Holders) <= MaxRecords
       /\ Total(Recorded, StagingHolders) <= MaxStagingRecords
       /\ Total(pex, Holders) <= MaxPexRecords

===============================================================================
