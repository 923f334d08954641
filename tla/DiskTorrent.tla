------------------------------ MODULE DiskTorrent ------------------------------
(***************************************************************************)
(* DiskTorrentSession: one registry generation of a torrent on disk, with  *)
(* the WebTorrent torrent it owns and the tracker activation it starts.    *)
(* WebTorrent and the activation are external: their events are actions of *)
(* their own, each carrying the listener the session attached.  A method   *)
(* that awaits is split where it awaits; TorrentManager says when the next *)
(* part runs.                                                              *)
(***************************************************************************)
EXTENDS TorrentRegistry

CONSTANT NoHash
ASSUME NoHashAssumption == NoHash \notin Hashes

VARIABLES
    session,       \* the fields of each generation's session
    wt,            \* its WebTorrent torrent, external
    peers,         \* it has peers attached, external
    tracker        \* its activation, external: "none", "live" or "stopping"

diskVars == <<session, wt, peers, tracker>>

SessionStates == {"unborn", "adding", "paused", "running", "removing", "removed"}

\* "unborn" is a generation that was not reserved yet.  `ready' is the promise
\* of the ready phase, `holds' that #torrent is set, `activation' that
\* #activation is, and `wanted' that the desired selection is not empty.
Sessions ==
    [hash : Hashes \cup {NoHash}, state : SessionStates,
     ready : {"waiting", "ok", "failed"}, committed : BOOLEAN,
     holds : BOOLEAN, activation : BOOLEAN, wanted : BOOLEAN]

\* "destroying" is destroyed with its cleanup still running.
Torrents ==
    [phase : {"none", "added", "metadata", "ready", "destroying", "destroyed"},
     matches : BOOLEAN, paused : BOOLEAN, selected : BOOLEAN]

Unborn ==
    [hash |-> NoHash, state |-> "unborn", ready |-> "waiting", committed |-> FALSE,
     holds |-> FALSE, activation |-> FALSE, wanted |-> FALSE]

NoTorrent == [phase |-> "none", matches |-> FALSE, paused |-> TRUE, selected |-> FALSE]

HashOf(g) == session[g].hash
Alive(g) == wt[g].phase \in {"added", "metadata", "ready"}
Dead(g) == wt[g].phase \in {"destroying", "destroyed"}

DiskInit ==
    /\ session = [g \in Gens |-> Unborn]
    /\ wt = [g \in Gens |-> NoTorrent]
    /\ peers = [g \in Gens |-> FALSE]
    /\ tracker = [g \in Gens |-> "none"]

-----------------------------------------------------------------------------
(* WebTorrent's torrent as the session uses it.                            *)

\* torrent.destroy(): the peers go and cleanup starts.  A second call does nothing.
DestroyTorrent(g) ==
    /\ wt' = IF Alive(g) THEN [wt EXCEPT ![g].phase = "destroying", ![g].selected = FALSE]
             ELSE wt
    /\ peers' = [peers EXCEPT ![g] = FALSE]

\* torrent.deselect() and torrent.select(): a destroyed torrent may refuse by throwing.
SelectOutcomes(g) == IF Dead(g) THEN {"done", "throws"} ELSE {"done"}

Selected(g, some) == IF Alive(g) THEN [wt EXCEPT ![g].selected = some] ELSE wt

-----------------------------------------------------------------------------
(* add() and the listeners of #run.                                        *)

\* The reservation and client.add.  A refused reservation, a refused store
\* grant and a client.add that throws leave no record, no torrent and no
\* session behind, and are not steps here.
BeginAdd(h, g, some) ==
    /\ session[g].state = "unborn"
    /\ Reserve(h, g)
    /\ session' = [session EXCEPT ![g] =
                      [hash |-> h, state |-> "adding", ready |-> "waiting",
                       committed |-> FALSE, holds |-> TRUE, activation |-> FALSE,
                       wanted |-> some]]
    /\ wt' = [wt EXCEPT ![g].phase = "added"]
    /\ UNCHANGED <<peers, tracker>>

Failed(s) == [s EXCEPT !.ready = "failed", !.holds = FALSE, !.state = "removed"]

\* A failure after the barrier tears the record down the way removal does.
GiveBack(g) ==
    IF session[g].committed
    THEN records[HashOf(g)].state \in {"committed", "tombstoned"} /\ RemoveRecord(HashOf(g))
    ELSE Rollback(HashOf(g), g)

\* Mutant: the torrent of a failed add is left running.
FailKeepsTorrent(g) ==
    /\ session[g].ready = "waiting"
    /\ session' = [session EXCEPT ![g] = Failed(@)]
    /\ GiveBack(g)
    /\ UNCHANGED <<wt, peers>>

\* fail(): the first failure before ready.  The torrent is destroyed without
\* waiting for its callback and the hash is given back at once.
Fail(g) ==
    /\ session[g].ready = "waiting"
    /\ session' = [session EXCEPT ![g] = Failed(@)]
    /\ GiveBack(g)
    /\ DestroyTorrent(g)

\* The ready timer.
ReadyTimeout(g) ==
    /\ session[g].state = "adding" /\ session[g].ready = "waiting"
    /\ Fail(g)
    /\ UNCHANGED tracker

\* Mutant: the barrier commits whatever it observed.
MetadataUnchecked(g) ==
    /\ wt[g].phase = "added"
    /\ \E good \in BOOLEAN :
         /\ Commit(HashOf(g), g)
         /\ session' = [session EXCEPT ![g].committed = TRUE]
         /\ wt' = [wt EXCEPT ![g].phase = "metadata", ![g].matches = good]
    /\ UNCHANGED <<peers, tracker>>

\* 'metadata': the commit barrier either commits the reservation or destroys
\* the torrent, in the same handler.
Metadata(g) ==
    /\ wt[g].phase = "added"
    /\ \/ /\ Commit(HashOf(g), g)
          /\ session' = [session EXCEPT ![g].committed = TRUE]
          /\ wt' = [wt EXCEPT ![g].phase = "metadata", ![g].matches = TRUE]
          /\ UNCHANGED peers
       \/ Fail(g)
    /\ UNCHANGED tracker

\* 'ready', which WebTorrent emits after 'metadata' and the verification.
Ready(g) ==
    /\ wt[g].phase = "metadata"
    /\ wt' = [wt EXCEPT ![g].phase = "ready"]
    /\ session' = [session EXCEPT ![g].ready = "ok"]
    /\ UNCHANGED <<registryVars, peers, tracker>>

\* 'error' and 'close': WebTorrent destroyed the torrent itself.  After ready
\* the listeners have nothing left to settle.
TorrentError(g) ==
    /\ Alive(g)
    /\ \/ /\ session[g].ready = "waiting"
          /\ Fail(g)
       \/ /\ session[g].ready # "waiting"
          /\ DestroyTorrent(g)
          /\ UNCHANGED <<session, registryVars>>
    /\ UNCHANGED tracker

CleanupDone(g) ==
    /\ wt[g].phase = "destroying"
    /\ wt' = [wt EXCEPT ![g].phase = "destroyed"]
    /\ UNCHANGED <<session, registryVars, peers, tracker>>

\* The end of #run: materializeSelected either finishes, or rejects and leaves
\* the session as it was.
Materialized(g) == session' = [session EXCEPT ![g].state = "paused"]

-----------------------------------------------------------------------------
(* Peers.                                                                  *)

\* Mutant: the registry and the session's state are not consulted.
AdmitPeerUngated(g) ==
    /\ session[g].holds
    /\ Alive(g)
    /\ peers' = [peers EXCEPT ![g] = TRUE]
    /\ UNCHANGED <<session, registryVars, wt, tracker>>

\* admitPeer(), admitConnection(): the address filter and the budget may
\* refuse, and so does a destroyed torrent; then nothing changes.
AdmitPeer(g) ==
    /\ session[g].holds /\ session[g].state = "running"
    /\ Admits(HashOf(g), g)
    /\ Alive(g)
    /\ peers' = [peers EXCEPT ![g] = TRUE]
    /\ UNCHANGED <<session, registryVars, wt, tracker>>

\* WebTorrent's own discovery through the peers it has, past the wrapped
\* addPeer, and a connection to its listener: a paused torrent takes none.
DiscoveredPeer(g) ==
    /\ wt[g].phase = "ready"
    /\ \/ peers[g] /\ session[g].state = "running"
       \/ ~wt[g].paused
    /\ peers' = [peers EXCEPT ![g] = TRUE]
    /\ UNCHANGED <<session, registryVars, wt, tracker>>

\* Every peer disconnects or is evicted.
PeersLeave(g) ==
    /\ peers[g]
    /\ peers' = [peers EXCEPT ![g] = FALSE]
    /\ UNCHANGED <<session, registryVars, wt, tracker>>

\* stop() of the activation settles, fulfilled or rejected.
TrackerStopped(g) ==
    /\ tracker[g] = "stopping"
    /\ tracker' = [tracker EXCEPT ![g] = "none"]
    /\ UNCHANGED <<session, registryVars, wt, peers>>

-----------------------------------------------------------------------------
(* The commands of a session.                                              *)

StopActivation(g) ==
    tracker' = IF session[g].activation THEN [tracker EXCEPT ![g] = "stopping"] ELSE tracker

\* Mutant: the stop of the activation is not awaited.
ActivationIgnored(g) == TRUE

\* What `await this.#stopActivation()` waits for.
ActivationStopped(g) == tracker[g] # "stopping"

BeginPause(g) ==
    /\ session[g].state = "running"
    /\ StopActivation(g)
    /\ session' = [session EXCEPT ![g].state = "paused", ![g].activation = FALSE]
    /\ UNCHANGED <<registryVars, wt, peers>>

FinishPause(g) ==
    /\ ActivationStopped(g)
    /\ \/ wt' = [Selected(g, FALSE) EXCEPT ![g].paused = TRUE]
       \/ "throws" \in SelectOutcomes(g) /\ UNCHANGED wt
    /\ UNCHANGED <<session, registryVars, peers, tracker>>

\* resume(): select may throw before the torrent and its activation start.
Resume(g) ==
    /\ session[g].state = "paused"
    /\ \/ /\ session' = [session EXCEPT ![g].state = "running", ![g].activation = TRUE]
          /\ wt' = [Selected(g, session[g].wanted) EXCEPT ![g].paused = FALSE]
          /\ tracker' = [tracker EXCEPT ![g] = "live"]
       \/ /\ "throws" \in SelectOutcomes(g)
          /\ session' = [session EXCEPT ![g].state = "running"]
          /\ UNCHANGED <<wt, tracker>>
    /\ UNCHANGED <<registryVars, peers>>

\* Mutant: the new selection is applied in every state.
UpdateSelectionAlways(g, some) ==
    /\ session[g].state \notin {"removing", "removed"}
    /\ session' = [session EXCEPT ![g].wanted = some]
    /\ wt' = Selected(g, some)
    /\ UNCHANGED <<registryVars, peers, tracker>>

\* updateSelection(): applied at once only while running.
UpdateSelection(g, some) ==
    /\ session[g].state \notin {"removing", "removed"}
    /\ session' = [session EXCEPT ![g].wanted = some]
    /\ \/ wt' = IF session[g].state = "running" THEN Selected(g, some) ELSE wt
       \/ "throws" \in SelectOutcomes(g) /\ UNCHANGED wt
    /\ UNCHANGED <<registryVars, peers, tracker>>

\* Mutant: the record is not tombstoned.
BeginRemoveOpen(g) ==
    /\ session[g].state \notin {"removing", "removed"}
    /\ StopActivation(g)
    /\ session' = [session EXCEPT ![g].state = "removing", ![g].activation = FALSE]
    /\ UNCHANGED <<registryVars, wt, peers>>

BeginRemove(g) ==
    /\ session[g].state \notin {"removing", "removed"}
    /\ IF session[g].committed THEN BeginTeardown(HashOf(g)) ELSE UNCHANGED registryVars
    /\ StopActivation(g)
    /\ session' = [session EXCEPT ![g].state = "removing", ![g].activation = FALSE]
    /\ UNCHANGED <<wt, peers>>

\* Between the two awaits of remove(): clear the selection, then destroy.
RemoveDestroy(g) ==
    /\ ActivationStopped(g)
    /\ session' = [session EXCEPT ![g].holds = FALSE]
    /\ DestroyTorrent(g)
    /\ UNCHANGED <<registryVars, tracker>>

\* Clearing the selection throws: remove() rejects with the session "removing".
RemoveThrows(g) ==
    /\ ActivationStopped(g)
    /\ "throws" \in SelectOutcomes(g)

FinishRemove(g) ==
    /\ IF session[g].committed THEN Release(HashOf(g)) ELSE UNCHANGED registryVars
    /\ session' = [session EXCEPT ![g].state = "removed"]
    /\ UNCHANGED <<wt, peers, tracker>>

=============================================================================
