---------------------------- MODULE TorrentManager ----------------------------
(***************************************************************************)
(* TorrentManager over its sessions.  The engine's operation queue runs    *)
(* one command at a time, so `lane' is the command being executed and the  *)
(* await it is at; WebTorrent's events, peers and trackers come between    *)
(* any two of its steps.  Shutdown closes the queue, lets the running      *)
(* command end and then sweeps every session.  Resume sidecars are the     *)
(* subject of ResumeStore.                                                 *)
(***************************************************************************)
EXTENDS DiskTorrent

VARIABLES
    managed,       \* #sessions: the generation managed for each hash, or 0
    lane,          \* the running command: where it awaits, and its generation
    sweep,         \* closeAll: the generations still to be removed
    closing        \* "open", "draining" (queue closed), "sweeping", "closed"

managerVars == <<managed, lane, sweep, closing>>
vars == <<registryVars, diskVars, managerVars>>

Idle == [at |-> "idle", gen |-> 0]
At(place, g) == [at |-> place, gen |-> g]
Lanes ==
    [at : {"addReady", "addStore", "pauseStop", "removeStop", "removeDestroy", "removeStore"},
     gen : Gens] \cup {Idle}

Init ==
    /\ RegistryInit /\ DiskInit
    /\ managed = [h \in Hashes |-> 0]
    /\ lane = Idle
    /\ sweep = {}
    /\ closing = "open"

NextGen == Cardinality({g \in Gens : session[g].state # "unborn"}) + 1

\* A command may start: the queue is open and the previous command has ended.
Free == lane = Idle /\ closing = "open"

-----------------------------------------------------------------------------
(* Commands.  #require refuses one whose hash has no session.              *)

Add(h, some) ==
    /\ Free /\ NextGen \in Gens
    /\ BeginAdd(h, NextGen, some)
    /\ lane' = At("addReady", NextGen)
    /\ UNCHANGED <<managed, sweep, closing>>

\* The ready promise settled.
AddSettled(g) ==
    /\ lane = At("addReady", g)
    /\ \/ session[g].ready = "ok" /\ lane' = At("addStore", g)
       \/ session[g].ready = "failed" /\ lane' = Idle
    /\ UNCHANGED <<registryVars, diskVars, managed, sweep, closing>>

AddDone(g) ==
    /\ lane = At("addStore", g)
    /\ Materialized(g)
    /\ managed' = [managed EXCEPT ![HashOf(g)] = g]
    /\ lane' = Idle
    /\ UNCHANGED <<registryVars, wt, peers, tracker, sweep, closing>>

\* materializeSelected rejects: the command fails and the session is dropped.
AddStoreFails(g) ==
    /\ lane = At("addStore", g)
    /\ lane' = Idle
    /\ UNCHANGED <<registryVars, diskVars, managed, sweep, closing>>

Pause(h) ==
    /\ Free /\ managed[h] # 0
    /\ BeginPause(managed[h])
    /\ lane' = At("pauseStop", managed[h])
    /\ UNCHANGED <<managed, sweep, closing>>

PauseDone(g) ==
    /\ lane = At("pauseStop", g)
    /\ FinishPause(g)
    /\ lane' = Idle
    /\ UNCHANGED <<managed, sweep, closing>>

ResumeTorrent(h) ==
    /\ Free /\ managed[h] # 0
    /\ Resume(managed[h])
    /\ UNCHANGED managerVars

SetSelection(h, some) ==
    /\ Free /\ managed[h] # 0
    /\ UpdateSelection(managed[h], some)
    /\ UNCHANGED managerVars

Remove(h) ==
    /\ Free /\ managed[h] # 0
    /\ BeginRemove(managed[h])
    /\ lane' = At("removeStop", managed[h])
    /\ UNCHANGED <<managed, sweep, closing>>

RemoveStopped(g) ==
    /\ lane = At("removeStop", g)
    /\ \/ RemoveDestroy(g) /\ lane' = At("removeDestroy", g)
       \/ RemoveThrows(g) /\ lane' = Idle /\ UNCHANGED <<registryVars, diskVars>>
    /\ UNCHANGED <<managed, sweep, closing>>

\* The destroy callback, or its timer: either may be first.
RemoveDestroyed(g) ==
    /\ lane = At("removeDestroy", g)
    /\ lane' = At("removeStore", g)
    /\ UNCHANGED <<registryVars, diskVars, managed, sweep, closing>>

\* The store has closed.  closeAll has already cleared the map.
RemoveDone(g) ==
    /\ lane = At("removeStore", g)
    /\ FinishRemove(g)
    /\ managed' = [h \in Hashes |-> IF managed[h] = g THEN 0 ELSE managed[h]]
    /\ lane' = Idle
    /\ UNCHANGED <<sweep, closing>>

-----------------------------------------------------------------------------
(* Shutdown.                                                               *)

Shutdown ==
    /\ closing = "open"
    /\ closing' = "draining"
    /\ UNCHANGED <<registryVars, diskVars, managed, lane, sweep>>

CloseAll ==
    /\ closing = "draining" /\ lane = Idle
    /\ closing' = "sweeping"
    /\ sweep' = {g \in Gens : \E h \in Hashes : managed[h] = g}
    /\ managed' = [h \in Hashes |-> 0]
    /\ UNCHANGED <<registryVars, diskVars, lane>>

\* The next session of the sweep; one that cannot be removed is passed over.
CloseNext(g) ==
    /\ closing = "sweeping" /\ lane = Idle
    /\ g \in sweep
    /\ sweep' = sweep \ {g}
    /\ \/ BeginRemove(g) /\ lane' = At("removeStop", g)
       \/ /\ session[g].state \in {"removing", "removed"}
          /\ UNCHANGED <<registryVars, diskVars, lane>>
    /\ UNCHANGED <<managed, closing>>

CloseDone ==
    /\ closing = "sweeping" /\ lane = Idle /\ sweep = {}
    /\ closing' = "closed"
    /\ UNCHANGED <<registryVars, diskVars, managed, lane, sweep>>

-----------------------------------------------------------------------------

Commands ==
    \/ \E h \in Hashes :
         \/ \E some \in BOOLEAN : Add(h, some) \/ SetSelection(h, some)
         \/ Pause(h) \/ ResumeTorrent(h) \/ Remove(h)
    \/ Shutdown \/ CloseAll \/ CloseDone \/ \E g \in Gens : CloseNext(g)

LaneStep(g) ==
    \/ AddSettled(g) \/ AddDone(g) \/ AddStoreFails(g)
    \/ PauseDone(g)
    \/ RemoveStopped(g) \/ RemoveDestroyed(g) \/ RemoveDone(g)

TorrentEvent(g) ==
    /\ \/ Metadata(g) \/ Ready(g) \/ ReadyTimeout(g) \/ TorrentError(g) \/ CleanupDone(g)
       \/ AdmitPeer(g) \/ DiscoveredPeer(g) \/ PeersLeave(g)
       \/ TrackerStopped(g)
    /\ UNCHANGED managerVars

Next == Commands \/ \E g \in Gens : LaneStep(g) \/ TorrentEvent(g)

Spec == Init /\ [][Next]_vars

\* A settled promise is continued; timers fire, so the ready phase ends and a
\* destroy is not waited for longer than its timeout; stop() of an activation
\* settles; the sweep goes on.
Fairness ==
    /\ \A g \in Gens :
         /\ WF_vars(LaneStep(g))
         /\ WF_vars(ReadyTimeout(g) /\ UNCHANGED managerVars)
         /\ WF_vars(TrackerStopped(g) /\ UNCHANGED managerVars)
         /\ WF_vars(CloseNext(g))
    /\ WF_vars(CloseAll) /\ WF_vars(CloseDone)

FairSpec == Spec /\ Fairness

-----------------------------------------------------------------------------
(* Properties.                                                             *)

TypeOK ==
    /\ records \in [Hashes -> Records]
    /\ fileEntries \in Nat
    /\ session \in [Gens -> Sessions]
    /\ wt \in [Gens -> Torrents]
    /\ peers \in [Gens -> BOOLEAN]
    /\ tracker \in [Gens -> {"none", "live", "stopping"}]
    /\ managed \in [Hashes -> Gens \cup {0}]
    /\ lane \in Lanes
    /\ sweep \in SUBSET Gens
    /\ closing \in {"open", "draining", "sweeping", "closed"}

\* The state the registry must be in for a session's next call to be accepted.
RecordOf(g) ==
    [gen |-> g,
     state |-> IF session[g].state = "removing" THEN "tombstoned"
               ELSE IF session[g].committed THEN "committed" ELSE "reserved"]

\* As long as a session is not removed the registry holds its hash for it, in
\* the state its next commit, teardown or release expects, so none of them is
\* ever refused: the add that fails late and the removal that is slow included.
OwnsItsHash ==
    \A g \in Gens : session[g].state \in {"adding", "paused", "running", "removing"} =>
        /\ HashOf(g) \in Hashes
        /\ records[HashOf(g)] = RecordOf(g)

\* Whatever a failed add, a pause, a removal or shutdown interleave with, one
\* info hash has at most one WebTorrent torrent that is not being destroyed.
OneTorrentPerHash ==
    \A g1, g2 \in Gens : Alive(g1) /\ Alive(g2) /\ HashOf(g1) = HashOf(g2) => g1 = g2

\* Two generations of one torrent never announce at the same time: the next
\* one cannot start before the previous activation has stopped.
OneActivation ==
    \A g1, g2 \in Gens :
        tracker[g1] # "none" /\ tracker[g2] # "none" /\ HashOf(g1) = HashOf(g2) => g1 = g2

\* A torrent has peers only after the barrier matched its metadata and while
\* the registry still holds the hash for its generation.
PeersBelong ==
    \A g \in Gens : peers[g] =>
        /\ wt[g].matches /\ session[g].committed
        /\ records[HashOf(g)].gen = g

\* A torrent takes a new peer only while its session runs, or in the window in
\* which its pause or removal still waits for the trackers to stop.
PeersJoinRunning ==
    [][\A g \in Gens : ~peers[g] /\ peers'[g] =>
          \/ session[g].state = "running"
          \/ lane \in {At("pauseStop", g), At("removeStop", g)}]_vars

\* Once a pause has completed nothing of the torrent goes on: no tracker
\* activation, no selected piece, and WebTorrent's torrent is paused, also
\* when the selection is edited meanwhile.
QuietWhenPaused ==
    \A g \in Gens : session[g].state = "paused" /\ lane # At("pauseStop", g) =>
        /\ tracker[g] = "none" /\ ~session[g].activation
        /\ Alive(g) => wt[g].paused /\ ~wt[g].selected

\* A running session transfers what is wanted: the whole desired selection is
\* applied to a torrent that is not paused, with its trackers started.
RunningTransfers ==
    \A g \in Gens : session[g].state = "running" /\ Alive(g) =>
        /\ ~wt[g].paused /\ wt[g].selected = session[g].wanted
        /\ tracker[g] = "live"

\* A command finds a session exactly as long as it can act on it: the map has
\* no removed session, and none of another hash.
ManagedAreLive ==
    \A h \in Hashes : managed[h] # 0 =>
        /\ HashOf(managed[h]) = h
        /\ session[managed[h]].state \in {"paused", "running", "removing"}

\* A removed generation never comes back, whatever is still delivered to it.
StaleNeverResumes ==
    [][\A g \in Gens : session[g].state = "removed" =>
          session'[g].state = "removed" /\ ~peers'[g] /\ tracker'[g] # "live"]_vars

\* The two limits hold for what is loaded, and the counter is exactly the
\* files of the loaded torrents however their adds ended.
FilesCounted ==
    /\ fileEntries = FilesOf(Loaded)
    /\ fileEntries <= MaxEntries /\ Cardinality(Loaded) <= MaxLoaded

\* Every command ends, also when WebTorrent never becomes ready, never calls
\* back from destroy, or has destroyed the torrent on its own.
EveryCommandSettles == lane # Idle ~> lane = Idle

\* Shutdown completes after the running command and every removal.
ShutdownSettles == closing = "draining" ~> closing = "closed"

\* Registry, session, WebTorrent's torrent and its trackers agree on what goes on
\* and on how much there is, through pause, resume, selections, errors and
\* failed adds.
SessionInStep == QuietWhenPaused /\ RunningTransfers /\ FilesCounted

\* A command does what it says and then ends: while none lets them in no peer
\* joins, and neither a command nor the shutdown hangs.
CommandsTakeEffect == PeersJoinRunning /\ EveryCommandSettles /\ ShutdownSettles

\* disk-torrent.ts:662: after a failed add the hash can be added again.
FailedAddGivesHashBack ==
    Free => \A h \in Hashes : records[h] # NoRecord => managed[h] = records[h].gen

=============================================================================
