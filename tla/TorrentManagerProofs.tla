------------------------- MODULE TorrentManagerProofs -------------------------
(***************************************************************************)
(* Theorems about TorrentManager, for any info hashes, limits and number   *)
(* of generations.                                                         *)
(***************************************************************************)
EXTENDS TorrentManager, FiniteSetTheorems, TLAPS

Active(g) == session[g].state \in {"adding", "paused", "running", "removing"}

\* What holds of one generation: its record, its torrent, its peers and its
\* activation as far as its session's state and flags tell.
Consistent(g) ==
    /\ Active(g) => HashOf(g) \in Hashes /\ records[HashOf(g)] = RecordOf(g)
    /\ Alive(g) => Active(g)
    /\ session[g].ready = "ok" => session[g].committed
    /\ session[g].state \in {"paused", "running", "removing"} => session[g].ready = "ok"
    /\ session[g].committed => wt[g].matches
    /\ wt[g].phase \in {"metadata", "ready"} => session[g].committed
    /\ peers[g] => Alive(g) /\ session[g].committed
    /\ tracker[g] # "none" => session[g].state \in {"paused", "running", "removing"}
    /\ tracker[g] = "live" => session[g].activation
    /\ session[g].activation => session[g].state = "running"

AllConsistent == \A g \in Gens : Consistent(g)

\* How far the running command has brought its generation.
LaneFollows ==
    /\ lane.at = "addReady" /\ session[lane.gen].ready = "ok" =>
            session[lane.gen].state = "adding"
    /\ lane.at = "addStore" =>
            session[lane.gen].state = "adding" /\ session[lane.gen].ready = "ok"
    /\ lane.at \in {"removeStop", "removeDestroy", "removeStore"} =>
            session[lane.gen].state = "removing"
    /\ lane.at \in {"removeDestroy", "removeStore"} =>
            ~Alive(lane.gen) /\ tracker[lane.gen] = "none"

SweepFollows ==
    \A g \in sweep : session[g].state \in {"paused", "running", "removing", "removed"}

IInv == TypeOK /\ AllConsistent /\ LaneFollows /\ ManagedAreLive /\ SweepFollows

USE HashesAssumption, RegistryBounds, FileCountAssumption, NoHashAssumption

-----------------------------------------------------------------------------
(* Facts about the state that every step uses.                             *)

\* Two sessions that hold a hash hold different ones.
LEMMA HashesDiffer ==
    ASSUME IInv, NEW g \in Gens, NEW x \in Gens, Active(g), Active(x), g # x
    PROVE  HashOf(g) # HashOf(x)
<1>1. records[HashOf(g)] = RecordOf(g) /\ records[HashOf(x)] = RecordOf(x)
  BY DEF IInv, AllConsistent, Consistent
<1>2. RecordOf(g).gen = g /\ RecordOf(x).gen = x
  BY DEF RecordOf
<1> QED
  BY <1>1, <1>2

\* A step of one generation leaves the other ones consistent when it keeps
\* their fields and the records they hold.
LEMMA OthersKept ==
    ASSUME IInv, NEW g \in Gens,
           \A x \in Gens : x # g =>
               /\ session'[x] = session[x] /\ wt'[x] = wt[x]
               /\ peers'[x] = peers[x] /\ tracker'[x] = tracker[x]
               /\ Active(x) => records'[HashOf(x)] = records[HashOf(x)]
    PROVE  \A x \in Gens : x # g => Consistent(x)'
BY DEF IInv, AllConsistent, Consistent, Active, Alive, HashOf, RecordOf

\* A change of a session's own record is no change of another session's.
LEMMA OwnRecord ==
    ASSUME IInv, NEW g \in Gens, Active(g),
           \A h \in Hashes : h # HashOf(g) => records'[h] = records[h]
    PROVE  \A x \in Gens : x # g /\ Active(x) =>
               records'[HashOf(x)] = records[HashOf(x)]
BY HashesDiffer DEF IInv, AllConsistent, Consistent

LEMMA InitInv == Init => IInv
<1> SUFFICES ASSUME Init PROVE IInv
    OBVIOUS
<1>1. TypeOK
  BY DEF Init, RegistryInit, DiskInit, TypeOK, Records, Unborn, NoTorrent, Sessions,
         Torrents, SessionStates, Lanes, Idle
<1>2. AllConsistent
  BY DEF Init, DiskInit, Unborn, NoTorrent, AllConsistent, Consistent, Active, Alive
<1>3. LaneFollows /\ ManagedAreLive /\ SweepFollows
  BY DEF Init, Idle, LaneFollows, ManagedAreLive, SweepFollows
<1> QED
  BY <1>1, <1>2, <1>3 DEF IInv

-----------------------------------------------------------------------------
(* Events of a torrent.                                                    *)

\* An add that fails gives back its own hash, and no other session's.
LEMMA FailInv ==
    ASSUME IInv, NEW g \in Gens, session[g].state = "adding", Fail(g),
           UNCHANGED <<tracker, managerVars>>
    PROVE  IInv'
<1> DEFINE h == HashOf(g)
<1>1. /\ h \in Hashes /\ Active(g) /\ records[h] = RecordOf(g)
      /\ session[g] \in Sessions /\ wt[g] \in Torrents /\ fileEntries \in Nat
      /\ FileCount[h] \in Nat
  BY DEF IInv, TypeOK, AllConsistent, Consistent, Active
<1>2. RemoveRecord(h)
  BY DEF Fail, GiveBack, Rollback
<1>3. TypeOK'
  <2>1. Failed(session[g]) \in Sessions
    BY <1>1 DEF Failed, Sessions, SessionStates
  <2>2. records' \in [Hashes -> Records] /\ fileEntries' \in Nat
    BY <1>1, <1>2 DEF RemoveRecord, IInv, TypeOK, Records, NoRecord
  <2>3. wt' \in [Gens -> Torrents] /\ peers' \in [Gens -> BOOLEAN]
    BY DEF Fail, DestroyTorrent, IInv, TypeOK, Torrents
  <2> QED
    BY <2>1, <2>2, <2>3 DEF Fail, IInv, TypeOK, managerVars
<1>4. ASSUME NEW x \in Gens PROVE Consistent(x)'
  <2>1. CASE x = g
    BY <2>1, <1>1 DEF IInv, TypeOK, AllConsistent, Consistent, Fail, Failed, DestroyTorrent,
        Alive, Active, Sessions, Torrents
  <2>2. CASE x # g
    <3>1. \A k \in Hashes : k # h => records'[k] = records[k]
      BY <1>2 DEF RemoveRecord, IInv, TypeOK
    <3>2. \A y \in Gens : y # g => session'[y] = session[y] /\ wt'[y] = wt[y] /\ peers'[y] = peers[y]
      BY DEF Fail, DestroyTorrent, IInv, TypeOK
    <3> QED
      BY <2>2, <1>1, <3>1, <3>2, OwnRecord, OthersKept
  <2> QED
    BY <2>1, <2>2
<1>5. LaneFollows'
  BY <1>1 DEF Fail, Failed, DestroyTorrent, IInv, TypeOK, LaneFollows, Alive, Sessions,
      Torrents, managerVars, Lanes, Idle
<1>6. ManagedAreLive' /\ SweepFollows'
  BY <1>1 DEF Fail, Failed, IInv, TypeOK, ManagedAreLive, SweepFollows, HashOf, Sessions,
      managerVars
<1> QED
  BY <1>3, <1>4, <1>5, <1>6 DEF IInv, AllConsistent

LEMMA MetadataInv ==
    ASSUME IInv, NEW g \in Gens, Metadata(g), UNCHANGED managerVars
    PROVE  IInv'
<1> DEFINE h == HashOf(g)
<1>1. /\ h \in Hashes /\ Active(g) /\ records[h] = RecordOf(g)
      /\ session[g] \in Sessions /\ wt[g] \in Torrents
  BY DEF Metadata, IInv, TypeOK, AllConsistent, Consistent, Alive
<1>2. CASE Fail(g)
  <2>1. session[g].state = "adding"
    BY <1>1, <1>2 DEF Fail, Active, IInv, AllConsistent, Consistent
  <2> QED
    BY <2>1, <1>2, FailInv DEF Metadata
<1>3. CASE /\ Commit(h, g)
           /\ session' = [session EXCEPT ![g].committed = TRUE]
           /\ wt' = [wt EXCEPT ![g].phase = "metadata", ![g].matches = TRUE]
           /\ UNCHANGED peers
  <2>1. TypeOK'
    <3>1. records' \in [Hashes -> Records]
      BY <1>1, <1>3 DEF Commit, IInv, TypeOK, Records, NoRecord
    <3>2. session' \in [Gens -> Sessions] /\ wt' \in [Gens -> Torrents]
      BY <1>1, <1>3 DEF IInv, TypeOK, Sessions, Torrents
    <3> QED
      BY <1>3, <3>1, <3>2 DEF Metadata, Commit, IInv, TypeOK, managerVars
  <2>2. \A x \in Gens : x # g => Consistent(x)'
    <3>1. \A k \in Hashes : k # h => records'[k] = records[k]
      BY <1>3 DEF Commit, IInv, TypeOK
    <3> QED
      BY <1>1, <1>3, <3>1, OwnRecord, OthersKept DEF Metadata, IInv, TypeOK
  <2>3. Consistent(g)'
    <3>1. session[g].state # "removing" /\ ~session[g].committed
      BY <1>1, <1>3 DEF Commit, RecordOf
    <3>2. /\ session'[g].state = session[g].state /\ session'[g].hash = session[g].hash
          /\ session'[g].ready = session[g].ready /\ session'[g].committed
          /\ session'[g].activation = session[g].activation
          /\ wt'[g].phase = "metadata" /\ wt'[g].matches
      BY <1>1, <1>3 DEF IInv, TypeOK, Sessions, Torrents
    <3>3. records'[h] = [state |-> "committed", gen |-> g]
      BY <1>1, <1>3 DEF Commit, IInv, TypeOK
    <3> QED
      BY <1>1, <1>3, <3>1, <3>2, <3>3
      DEF Metadata, IInv, TypeOK, AllConsistent, Consistent, Active, Alive, HashOf, RecordOf
  <2>4. LaneFollows' /\ ManagedAreLive' /\ SweepFollows'
    BY <1>1, <1>3 DEF Metadata, IInv, TypeOK, LaneFollows, ManagedAreLive, SweepFollows,
        Alive, HashOf, Sessions, Torrents, managerVars, Lanes, Idle
  <2> QED
    BY <2>1, <2>2, <2>3, <2>4 DEF IInv, AllConsistent
<1> QED
  BY <1>2, <1>3 DEF Metadata

LEMMA ReadyInv ==
    ASSUME IInv, NEW g \in Gens, Ready(g), UNCHANGED managerVars
    PROVE  IInv'
<1>1. /\ Active(g) /\ session[g].committed /\ session[g] \in Sessions /\ wt[g] \in Torrents
  BY DEF Ready, IInv, TypeOK, AllConsistent, Consistent, Alive
<1>2. TypeOK'
  BY <1>1 DEF Ready, IInv, TypeOK, Sessions, Torrents, managerVars, registryVars
<1>3. \A x \in Gens : x # g => Consistent(x)'
  BY OthersKept DEF Ready, IInv, TypeOK, registryVars
<1>4. Consistent(g)'
  BY <1>1 DEF Ready, IInv, TypeOK, AllConsistent, Consistent, Active, Alive, HashOf,
      RecordOf, Sessions, Torrents, registryVars
<1>5. LaneFollows'
  BY <1>1 DEF Ready, IInv, TypeOK, AllConsistent, Consistent, LaneFollows, Active, Alive,
      Sessions, Torrents, managerVars, Lanes, Idle
<1>6. ManagedAreLive' /\ SweepFollows'
  BY <1>1 DEF Ready, IInv, TypeOK, ManagedAreLive, SweepFollows, HashOf, Sessions, managerVars
<1> QED
  BY <1>2, <1>3, <1>4, <1>5, <1>6 DEF IInv, AllConsistent

LEMMA TorrentErrorInv ==
    ASSUME IInv, NEW g \in Gens, TorrentError(g), UNCHANGED managerVars
    PROVE  IInv'
<1>1. Active(g) /\ wt[g] \in Torrents
  BY DEF TorrentError, IInv, TypeOK, AllConsistent, Consistent
<1>2. CASE session[g].ready = "waiting" /\ Fail(g)
  <2>1. session[g].state = "adding"
    BY <1>1, <1>2 DEF Active, IInv, AllConsistent, Consistent
  <2> QED
    BY <2>1, <1>2, FailInv DEF TorrentError
<1>3. CASE DestroyTorrent(g) /\ UNCHANGED <<session, registryVars>>
  <2>1. TypeOK'
    BY <1>1, <1>3 DEF TorrentError, DestroyTorrent, IInv, TypeOK, Torrents, managerVars, registryVars
  <2>2. \A x \in Gens : x # g => Consistent(x)'
    BY <1>3, OthersKept DEF TorrentError, DestroyTorrent, IInv, TypeOK, registryVars
  <2>3. Consistent(g)'
    BY <1>1, <1>3 DEF TorrentError, DestroyTorrent, IInv, TypeOK, AllConsistent, Consistent,
        Active, Alive, HashOf, RecordOf, Torrents, registryVars
  <2>4. LaneFollows' /\ ManagedAreLive' /\ SweepFollows'
    BY <1>1, <1>3 DEF TorrentError, DestroyTorrent, IInv, TypeOK, LaneFollows,
        ManagedAreLive, SweepFollows, Alive, HashOf, Torrents, managerVars, Lanes, Idle
  <2> QED
    BY <2>1, <2>2, <2>3, <2>4 DEF IInv, AllConsistent
<1> QED
  BY <1>2, <1>3 DEF TorrentError

LEMMA CleanupDoneInv ==
    ASSUME IInv, NEW g \in Gens, CleanupDone(g), UNCHANGED managerVars
    PROVE  IInv'
<1>1. wt[g] \in Torrents
  BY DEF IInv, TypeOK
<1>2. TypeOK'
  BY <1>1 DEF CleanupDone, IInv, TypeOK, Torrents, managerVars, registryVars
<1>3. \A x \in Gens : x # g => Consistent(x)'
  BY OthersKept DEF CleanupDone, IInv, TypeOK, registryVars
<1>4. Consistent(g)'
  BY <1>1 DEF CleanupDone, IInv, TypeOK, AllConsistent, Consistent, Active, Alive, HashOf,
      RecordOf, Torrents, registryVars
<1>5. LaneFollows' /\ ManagedAreLive' /\ SweepFollows'
  BY <1>1 DEF CleanupDone, IInv, TypeOK, LaneFollows, ManagedAreLive, SweepFollows, Alive,
      HashOf, Torrents, managerVars, Lanes, Idle
<1> QED
  BY <1>2, <1>3, <1>4, <1>5 DEF IInv, AllConsistent

\* Peers and activations come and go without touching a session.
LEMMA PeersInv ==
    ASSUME IInv, NEW g \in Gens,
           AdmitPeer(g) \/ DiscoveredPeer(g) \/ PeersLeave(g) \/ TrackerStopped(g),
           UNCHANGED managerVars
    PROVE  IInv'
<1>1. UNCHANGED <<session, registryVars, wt, managerVars>>
  BY DEF AdmitPeer, DiscoveredPeer, PeersLeave, TrackerStopped
<1>2. \A x \in Gens : x # g => peers'[x] = peers[x] /\ tracker'[x] = tracker[x]
  BY DEF AdmitPeer, DiscoveredPeer, PeersLeave, TrackerStopped, IInv, TypeOK
<1>3. TypeOK'
  BY <1>1 DEF AdmitPeer, DiscoveredPeer, PeersLeave, TrackerStopped, IInv, TypeOK,
      managerVars, registryVars
<1>4. /\ peers'[g] => peers[g] \/ (Alive(g) /\ session[g].committed)
      /\ tracker'[g] = tracker[g] \/ tracker'[g] = "none"
  BY DEF AdmitPeer, DiscoveredPeer, PeersLeave, TrackerStopped, IInv, TypeOK,
      AllConsistent, Consistent, Alive
<1>5. \A x \in Gens : x # g => Consistent(x)'
  BY <1>1, <1>2, OthersKept DEF registryVars
<1>6. Consistent(g)'
  BY <1>1, <1>4 DEF IInv, AllConsistent, Consistent, Active, Alive, HashOf, RecordOf,
      registryVars
<1>7. LaneFollows' /\ ManagedAreLive' /\ SweepFollows'
  BY <1>1, <1>2, <1>4 DEF IInv, TypeOK, LaneFollows, ManagedAreLive, SweepFollows, Alive,
      HashOf, managerVars, Lanes, Idle
<1> QED
  BY <1>3, <1>5, <1>6, <1>7 DEF IInv, AllConsistent

LEMMA TorrentEventInv ==
    ASSUME IInv, NEW g \in Gens, TorrentEvent(g)
    PROVE  IInv'
<1>1. CASE ReadyTimeout(g)
  BY <1>1, FailInv DEF ReadyTimeout, TorrentEvent
<1> QED
  BY <1>1, MetadataInv, ReadyInv, TorrentErrorInv, CleanupDoneInv, PeersInv DEF TorrentEvent

-----------------------------------------------------------------------------
(* The commands and their later steps.                                     *)

LEMMA AddInv ==
    ASSUME IInv, NEW h \in Hashes, NEW some \in BOOLEAN, Add(h, some)
    PROVE  IInv'
<1> PICK g \in Gens : g = NextGen
  BY DEF Add
<1>1. /\ g \in Gens /\ session[g].state = "unborn" /\ records[h] = NoRecord
      /\ wt[g] \in Torrents /\ fileEntries \in Nat /\ FileCount[h] \in Nat
  BY DEF Add, BeginAdd, Reserve, CanReserve, IInv, TypeOK
<1>2. session'[g] = [hash |-> h, state |-> "adding", ready |-> "waiting",
                     committed |-> FALSE, holds |-> TRUE, activation |-> FALSE,
                     wanted |-> some]
  BY <1>1 DEF Add, BeginAdd, IInv, TypeOK
<1>3. TypeOK'
  <2>1. session' \in [Gens -> Sessions]
    BY <1>1, <1>2 DEF Add, BeginAdd, IInv, TypeOK, Sessions, SessionStates
  <2>2. wt' \in [Gens -> Torrents]
    BY <1>1 DEF Add, BeginAdd, IInv, TypeOK, Torrents
  <2>3. records' \in [Hashes -> Records] /\ fileEntries' \in Nat
    BY <1>1 DEF Add, BeginAdd, Reserve, IInv, TypeOK, Records
  <2>4. lane' \in Lanes
    BY <1>1 DEF Add, At, Lanes
  <2> QED
    BY <2>1, <2>2, <2>3, <2>4 DEF Add, BeginAdd, IInv, TypeOK
<1>4. \A x \in Gens : x # g => Consistent(x)'
  <2>1. \A x \in Gens : Active(x) => HashOf(x) # h /\ HashOf(x) \in Hashes
    <3>1. \A x \in Gens : RecordOf(x).state # NoRecord.state
      BY DEF RecordOf, NoRecord
    <3> QED
      BY <3>1, <1>1 DEF IInv, AllConsistent, Consistent
  <2> QED
    BY <1>1, <2>1, OthersKept DEF Add, BeginAdd, Reserve, IInv, TypeOK
<1>5. Consistent(g)'
  <2>1. /\ ~peers[g] /\ tracker[g] = "none"
    BY <1>1 DEF IInv, AllConsistent, Consistent, Active
  <2>2. records'[h] = [state |-> "reserved", gen |-> g] /\ wt'[g].phase = "added"
    BY <1>1 DEF Add, BeginAdd, Reserve, IInv, TypeOK, Torrents
  <2> QED
    BY <1>1, <1>2, <2>1, <2>2 DEF Add, BeginAdd, Consistent, Active, Alive, HashOf, RecordOf
<1>6. LaneFollows' /\ SweepFollows'
  BY <1>1, <1>2 DEF Add, At, BeginAdd, IInv, TypeOK, LaneFollows, SweepFollows
<1>7. ManagedAreLive'
  BY <1>1, <1>2 DEF Add, BeginAdd, IInv, TypeOK, ManagedAreLive, HashOf
<1> QED
  BY <1>3, <1>4, <1>5, <1>6, <1>7 DEF IInv, AllConsistent

\* Steps that leave the sessions, their torrents and the registry alone.
LEMMA QuietInv ==
    ASSUME IInv, UNCHANGED <<registryVars, diskVars>>, TypeOK', LaneFollows',
           ManagedAreLive', SweepFollows'
    PROVE  IInv'
<1>1. \A x \in Gens : Consistent(x)'
  BY DEF IInv, AllConsistent, Consistent, Active, Alive, HashOf, RecordOf, registryVars, diskVars
<1> QED
  BY <1>1 DEF IInv, AllConsistent

LEMMA LaneInv ==
    ASSUME IInv, NEW g \in Gens,
           AddSettled(g) \/ AddStoreFails(g) \/ RemoveDestroyed(g)
    PROVE  IInv'
<1>1. /\ UNCHANGED <<registryVars, diskVars, managed, sweep, closing>>
      /\ \/ lane = At("addReady", g) /\ session[g].ready = "ok" /\ lane' = At("addStore", g)
         \/ lane = At("removeDestroy", g) /\ lane' = At("removeStore", g)
         \/ lane' = Idle
  BY DEF AddSettled, AddStoreFails, RemoveDestroyed
<1>2. TypeOK'
  BY <1>1 DEF IInv, TypeOK, At, Idle, Lanes, registryVars, diskVars
<1>3. LaneFollows'
  BY <1>1 DEF IInv, LaneFollows, At, Idle, Alive, diskVars
<1>4. ManagedAreLive' /\ SweepFollows'
  BY <1>1 DEF IInv, ManagedAreLive, SweepFollows, HashOf, diskVars
<1> QED
  BY <1>1, <1>2, <1>3, <1>4, QuietInv

LEMMA ShutdownInv ==
    ASSUME IInv, Shutdown \/ CloseAll \/ CloseDone
    PROVE  IInv'
<1>1. UNCHANGED <<registryVars, diskVars, lane>>
  BY DEF Shutdown, CloseAll, CloseDone
<1>2. TypeOK'
  BY DEF Shutdown, CloseAll, CloseDone, IInv, TypeOK, registryVars, diskVars
<1>3. LaneFollows'
  BY <1>1 DEF IInv, LaneFollows, Alive, diskVars
<1>4. CASE CloseAll
  <2>1. ManagedAreLive'
    BY <1>4 DEF CloseAll, ManagedAreLive
  <2>2. ASSUME NEW g \in sweep'
        PROVE  session'[g].state \in {"paused", "running", "removing"}
    <3>1. PICK h \in Hashes : managed[h] = g
      BY <1>4, <2>2 DEF CloseAll
    <3>2. g \in Gens /\ g # 0
      BY <1>4, <2>2 DEF CloseAll, Gens
    <3> QED
      BY <1>1, <3>1, <3>2 DEF IInv, ManagedAreLive, diskVars
  <2> QED
    BY <1>1, <1>2, <1>3, <2>1, <2>2, QuietInv DEF SweepFollows
<1>5. CASE Shutdown \/ CloseDone
  <2>1. ManagedAreLive' /\ SweepFollows'
    BY <1>1, <1>5 DEF Shutdown, CloseDone, IInv, ManagedAreLive, SweepFollows, HashOf, diskVars
  <2> QED
    BY <1>1, <1>2, <1>3, <2>1, QuietInv
<1> QED
  BY <1>4, <1>5

LEMMA AddDoneInv ==
    ASSUME IInv, NEW g \in Gens, AddDone(g)
    PROVE  IInv'
<1>1. /\ session[g].state = "adding" /\ session[g].ready = "ok" /\ session[g].committed
      /\ HashOf(g) \in Hashes /\ session[g] \in Sessions /\ Active(g)
  BY DEF AddDone, At, IInv, TypeOK, LaneFollows, AllConsistent, Consistent, Active
<1>2. session' = [session EXCEPT ![g].state = "paused"]
  BY DEF AddDone, Materialized
<1>3. TypeOK'
  BY <1>1, <1>2 DEF AddDone, IInv, TypeOK, Sessions, SessionStates, Idle, Lanes, registryVars
<1>4. \A x \in Gens : x # g => Consistent(x)'
  BY <1>2, OthersKept DEF AddDone, IInv, TypeOK, registryVars
<1>5. Consistent(g)'
  BY <1>1, <1>2 DEF AddDone, IInv, TypeOK, AllConsistent, Consistent, Active, Alive, HashOf,
      RecordOf, Sessions, registryVars
<1>6. LaneFollows' /\ SweepFollows'
  BY <1>1, <1>2 DEF AddDone, Idle, IInv, TypeOK, LaneFollows, SweepFollows, Sessions
<1>7. ManagedAreLive'
  BY <1>1, <1>2 DEF AddDone, IInv, TypeOK, ManagedAreLive, HashOf, Sessions
<1> QED
  BY <1>3, <1>4, <1>5, <1>6, <1>7 DEF IInv, AllConsistent

\* A session that is neither added nor gone changes between its live states,
\* or only in what it wants.
LEMMA SwitchInv ==
    ASSUME IInv, NEW g \in Gens,
           session[g].state \in {"paused", "running"},
           session'[g].state \in {"paused", "running"},
           session' \in [Gens -> Sessions], wt' \in [Gens -> Torrents],
           tracker' \in [Gens -> {"none", "live", "stopping"}], lane' \in Lanes,
           UNCHANGED <<registryVars, peers, managed, sweep, closing>>,
           \A x \in Gens : x # g =>
               session'[x] = session[x] /\ wt'[x] = wt[x] /\ tracker'[x] = tracker[x],
           session'[g].hash = session[g].hash, session'[g].ready = session[g].ready,
           session'[g].committed = session[g].committed,
           wt'[g].phase = wt[g].phase, wt'[g].matches = wt[g].matches,
           session'[g].activation => session'[g].state = "running",
           tracker'[g] = "live" => session'[g].activation,
           lane = Idle, lane'.at \in {"idle", "pauseStop"}
    PROVE  IInv'
<1>1. Active(g)
  BY DEF Active
<1>2. TypeOK'
  BY DEF IInv, TypeOK, registryVars
<1>3. \A x \in Gens : x # g => Consistent(x)'
  BY OthersKept DEF registryVars
<1>4. Consistent(g)'
  BY <1>1 DEF IInv, AllConsistent, Consistent, Active, Alive, HashOf, RecordOf, registryVars
<1>5. LaneFollows' /\ ManagedAreLive' /\ SweepFollows'
  BY DEF IInv, TypeOK, LaneFollows, ManagedAreLive, SweepFollows, HashOf
<1> QED
  BY <1>2, <1>3, <1>4, <1>5 DEF IInv, AllConsistent

LEMMA ManagedSession ==
    ASSUME IInv, NEW h \in Hashes, managed[h] # 0
    PROVE  /\ managed[h] \in Gens
           /\ session[managed[h]].state \in {"paused", "running", "removing"}
BY DEF IInv, TypeOK, ManagedAreLive

LEMMA PauseInv ==
    ASSUME IInv, NEW h \in Hashes, Pause(h)
    PROVE  IInv'
<1> PICK g \in Gens : g = managed[h]
  BY ManagedSession DEF Pause
<1>1. session[g].state = "running" /\ session[g] \in Sessions
  BY DEF Pause, BeginPause, IInv, TypeOK
<1>2. session' = [session EXCEPT ![g].state = "paused", ![g].activation = FALSE]
  BY DEF Pause, BeginPause
<1>3. tracker' = IF session[g].activation THEN [tracker EXCEPT ![g] = "stopping"] ELSE tracker
  BY DEF Pause, BeginPause, StopActivation
<1>4. lane' = At("pauseStop", g) /\ lane' \in Lanes /\ lane'.at = "pauseStop"
  BY DEF Pause, At, Lanes
<1>5. /\ session' \in [Gens -> Sessions] /\ session'[g].state = "paused"
      /\ session'[g].hash = session[g].hash /\ session'[g].ready = session[g].ready
      /\ session'[g].committed = session[g].committed /\ ~session'[g].activation
      /\ \A x \in Gens : x # g => session'[x] = session[x]
  BY <1>1, <1>2 DEF IInv, TypeOK, Sessions, SessionStates
<1>6. /\ tracker' \in [Gens -> {"none", "live", "stopping"}] /\ tracker'[g] # "live"
      /\ \A x \in Gens : x # g => tracker'[x] = tracker[x]
  BY <1>3 DEF IInv, TypeOK, AllConsistent, Consistent
<1>7. UNCHANGED <<registryVars, wt, peers, managed, sweep, closing>> /\ lane = Idle
  BY DEF Pause, BeginPause, Free
<1> QED
  BY <1>1, <1>4, <1>5, <1>6, <1>7, SwitchInv DEF IInv, TypeOK

LEMMA SelectedKeeps ==
    ASSUME IInv, NEW g \in Gens, NEW some \in BOOLEAN
    PROVE  /\ Selected(g, some) \in [Gens -> Torrents]
           /\ \A x \in Gens : x # g => Selected(g, some)[x] = wt[x]
           /\ Selected(g, some)[g].phase = wt[g].phase
           /\ Selected(g, some)[g].matches = wt[g].matches
<1>1. wt[g] \in Torrents /\ wt \in [Gens -> Torrents]
  BY DEF IInv, TypeOK
<1> QED
  BY <1>1 DEF Selected, Torrents

LEMMA PausedKeeps ==
    ASSUME NEW g \in Gens, NEW w \in [Gens -> Torrents], NEW p \in BOOLEAN
    PROVE  /\ [w EXCEPT ![g].paused = p] \in [Gens -> Torrents]
           /\ \A x \in Gens : x # g => [w EXCEPT ![g].paused = p][x] = w[x]
           /\ [w EXCEPT ![g].paused = p][g].phase = w[g].phase
           /\ [w EXCEPT ![g].paused = p][g].matches = w[g].matches
<1>1. w[g] \in Torrents
  OBVIOUS
<1> QED
  BY <1>1 DEF Torrents

LEMMA PauseDoneInv ==
    ASSUME IInv, NEW g \in Gens, PauseDone(g)
    PROVE  IInv'
<1>1. /\ UNCHANGED <<session, registryVars, peers, tracker, managed, sweep, closing>>
      /\ lane' = Idle
  BY DEF PauseDone, FinishPause
<1>2. /\ wt' \in [Gens -> Torrents]
      /\ \A x \in Gens : wt'[x].phase = wt[x].phase /\ wt'[x].matches = wt[x].matches
  <2>1. CASE wt' = wt
    BY <2>1 DEF IInv, TypeOK
  <2>2. CASE wt' = [Selected(g, FALSE) EXCEPT ![g].paused = TRUE]
    <3> DEFINE s == Selected(g, FALSE)
    <3>1. /\ s \in [Gens -> Torrents] /\ \A x \in Gens : x # g => s[x] = wt[x]
          /\ s[g].phase = wt[g].phase /\ s[g].matches = wt[g].matches
      BY SelectedKeeps
    <3>2. wt' = [s EXCEPT ![g].paused = TRUE]
      BY <2>2
    <3> HIDE DEF s
    <3> QED
      BY <3>1, <3>2, PausedKeeps
  <2> QED
    BY <2>1, <2>2 DEF PauseDone, FinishPause
<1>3. TypeOK'
  BY <1>1, <1>2 DEF IInv, TypeOK, Idle, Lanes, registryVars
<1>4. \A x \in Gens : Consistent(x)'
  BY <1>1, <1>2 DEF IInv, AllConsistent, Consistent, Active, Alive, HashOf, RecordOf,
      registryVars
<1>5. LaneFollows' /\ ManagedAreLive' /\ SweepFollows'
  BY <1>1 DEF IInv, Idle, LaneFollows, ManagedAreLive, SweepFollows, HashOf
<1> QED
  BY <1>3, <1>4, <1>5 DEF IInv, AllConsistent

LEMMA ResumeInv ==
    ASSUME IInv, NEW h \in Hashes, ResumeTorrent(h)
    PROVE  IInv'
<1> PICK g \in Gens : g = managed[h]
  BY ManagedSession DEF ResumeTorrent
<1>1. /\ session[g].state = "paused" /\ session[g] \in Sessions /\ wt[g] \in Torrents
      /\ session[g].wanted \in BOOLEAN
  BY DEF ResumeTorrent, Resume, IInv, TypeOK, Sessions
<1>2. UNCHANGED <<registryVars, peers, managed, sweep, closing, lane>> /\ lane = Idle
  BY DEF ResumeTorrent, Resume, Free, managerVars
<1>3. CASE /\ session' = [session EXCEPT ![g].state = "running", ![g].activation = TRUE]
           /\ wt' = [Selected(g, session[g].wanted) EXCEPT ![g].paused = FALSE]
           /\ tracker' = [tracker EXCEPT ![g] = "live"]
  <2>1. /\ session' \in [Gens -> Sessions] /\ session'[g].state = "running"
        /\ session'[g].hash = session[g].hash /\ session'[g].ready = session[g].ready
        /\ session'[g].committed = session[g].committed /\ session'[g].activation
        /\ \A x \in Gens : x # g => session'[x] = session[x]
    BY <1>1, <1>3 DEF IInv, TypeOK, Sessions, SessionStates
  <2>2. /\ wt' \in [Gens -> Torrents]
        /\ \A x \in Gens : x # g => wt'[x] = wt[x]
        /\ wt'[g].phase = wt[g].phase /\ wt'[g].matches = wt[g].matches
    <3> DEFINE s == Selected(g, session[g].wanted)
    <3>1. /\ s \in [Gens -> Torrents] /\ \A x \in Gens : x # g => s[x] = wt[x]
          /\ s[g].phase = wt[g].phase /\ s[g].matches = wt[g].matches
      BY <1>1, SelectedKeeps
    <3>2. wt' = [s EXCEPT ![g].paused = FALSE]
      BY <1>3
    <3> HIDE DEF s
    <3>3. /\ wt' \in [Gens -> Torrents] /\ \A x \in Gens : x # g => wt'[x] = s[x]
          /\ wt'[g].phase = s[g].phase /\ wt'[g].matches = s[g].matches
      <4>1. s[g] \in Torrents
        BY <3>1
      <4> QED
        BY <3>1, <3>2, <4>1 DEF Torrents
    <3> QED
      BY <3>1, <3>3
  <2>3. /\ tracker' \in [Gens -> {"none", "live", "stopping"}]
        /\ \A x \in Gens : x # g => tracker'[x] = tracker[x]
    BY <1>3 DEF IInv, TypeOK
  <2> QED
    BY <1>1, <1>2, <2>1, <2>2, <2>3, SwitchInv DEF IInv, TypeOK, Idle
<1>4. CASE /\ session' = [session EXCEPT ![g].state = "running"]
           /\ UNCHANGED <<wt, tracker>>
  <2>1. /\ session' \in [Gens -> Sessions] /\ session'[g].state = "running"
        /\ session'[g].hash = session[g].hash /\ session'[g].ready = session[g].ready
        /\ session'[g].committed = session[g].committed
        /\ session'[g].activation = session[g].activation
        /\ \A x \in Gens : x # g => session'[x] = session[x]
    BY <1>1, <1>4 DEF IInv, TypeOK, Sessions, SessionStates
  <2>2. ~session[g].activation /\ tracker[g] # "live"
    BY <1>1 DEF IInv, AllConsistent, Consistent
  <2> QED
    BY <1>1, <1>2, <1>4, <2>1, <2>2, SwitchInv DEF IInv, TypeOK, Idle
<1> QED
  BY <1>3, <1>4 DEF ResumeTorrent, Resume

LEMMA SetSelectionInv ==
    ASSUME IInv, NEW h \in Hashes, NEW some \in BOOLEAN, SetSelection(h, some)
    PROVE  IInv'
<1> PICK g \in Gens : g = managed[h]
  BY ManagedSession DEF SetSelection
<1>1. session[g].state \in {"paused", "running"} /\ session[g] \in Sessions
  BY ManagedSession DEF SetSelection, UpdateSelection, IInv, TypeOK
<1>2. /\ UNCHANGED <<registryVars, peers, tracker, managed, sweep, closing, lane>>
      /\ lane = Idle
  BY DEF SetSelection, UpdateSelection, Free, managerVars
<1>3. /\ session' \in [Gens -> Sessions] /\ session'[g].state = session[g].state
      /\ session'[g].hash = session[g].hash /\ session'[g].ready = session[g].ready
      /\ session'[g].committed = session[g].committed
      /\ session'[g].activation = session[g].activation
      /\ \A x \in Gens : x # g => session'[x] = session[x]
  BY <1>1 DEF SetSelection, UpdateSelection, IInv, TypeOK, Sessions
<1>4. /\ wt' \in [Gens -> Torrents]
      /\ \A x \in Gens : x # g => wt'[x] = wt[x]
      /\ wt'[g].phase = wt[g].phase /\ wt'[g].matches = wt[g].matches
  <2>1. wt' = wt \/ wt' = Selected(g, some)
    BY DEF SetSelection, UpdateSelection
  <2> QED
    BY <2>1, SelectedKeeps DEF IInv, TypeOK
<1> QED
  BY <1>1, <1>2, <1>3, <1>4, SwitchInv DEF IInv, TypeOK, AllConsistent, Consistent, Idle

\* The removal of a live session tombstones its own record.
LEMMA BeginRemoveInv ==
    ASSUME IInv, NEW g \in Gens, session[g].state \in {"paused", "running"},
           BeginRemove(g), lane = Idle, lane' = At("removeStop", g),
           UNCHANGED <<managed, closing>>, sweep' \in SUBSET sweep
    PROVE  IInv'
<1> DEFINE h == HashOf(g)
<1>1. /\ Active(g) /\ h \in Hashes /\ records[h] = RecordOf(g)
      /\ session[g].committed /\ session[g] \in Sessions
      /\ session[g].ready = "ok" /\ wt[g].matches
  BY DEF Active, IInv, TypeOK, AllConsistent, Consistent
<1>2. /\ session' \in [Gens -> Sessions] /\ session'[g].state = "removing"
      /\ session'[g].hash = h /\ session'[g].ready = session[g].ready
      /\ session'[g].committed = session[g].committed /\ ~session'[g].activation
      /\ \A x \in Gens : x # g => session'[x] = session[x]
  BY <1>1 DEF BeginRemove, HashOf, IInv, TypeOK, Sessions, SessionStates
<1>3. /\ records' = [records EXCEPT ![h].state = "tombstoned"] /\ UNCHANGED fileEntries
  BY <1>1 DEF BeginRemove, BeginTeardown
<1>4. /\ tracker' \in [Gens -> {"none", "live", "stopping"}] /\ tracker'[g] # "live"
      /\ \A x \in Gens : x # g => tracker'[x] = tracker[x]
  BY DEF BeginRemove, StopActivation, IInv, TypeOK, AllConsistent, Consistent
<1>5. records[h] = [gen |-> g, state |-> "committed"]
  BY <1>1 DEF RecordOf
<1>6. TypeOK'
  <2>1. records' \in [Hashes -> Records]
    BY <1>1, <1>3, <1>5 DEF IInv, TypeOK, Records
  <2>2. lane' \in Lanes /\ sweep' \in SUBSET Gens
    BY DEF At, Lanes, IInv, TypeOK
  <2> QED
    BY <1>2, <1>3, <1>4, <2>1, <2>2 DEF BeginRemove, IInv, TypeOK
<1>7. \A x \in Gens : x # g => Consistent(x)'
  <2>1. \A k \in Hashes : k # h => records'[k] = records[k]
    BY <1>3 DEF IInv, TypeOK
  <2> QED
    BY <1>1, <1>2, <1>4, <2>1, OwnRecord, OthersKept DEF BeginRemove
<1>8. Consistent(g)'
  <2>1. records'[h] = [gen |-> g, state |-> "tombstoned"]
    BY <1>1, <1>3, <1>5 DEF IInv, TypeOK
  <2> QED
    BY <1>1, <1>2, <1>4, <2>1
    DEF BeginRemove, IInv, AllConsistent, Consistent, Active, Alive, HashOf, RecordOf
<1>9. LaneFollows' /\ ManagedAreLive' /\ SweepFollows'
  BY <1>1, <1>2 DEF At, IInv, TypeOK, LaneFollows, ManagedAreLive, SweepFollows, HashOf
<1> QED
  BY <1>6, <1>7, <1>8, <1>9 DEF IInv, AllConsistent

LEMMA RemoveInv ==
    ASSUME IInv, NEW h \in Hashes, Remove(h)
    PROVE  IInv'
<1> PICK g \in Gens : g = managed[h]
  BY ManagedSession DEF Remove
<1>1. session[g].state \in {"paused", "running"}
  BY ManagedSession DEF Remove, BeginRemove
<1> QED
  BY <1>1, BeginRemoveInv DEF Remove, Free

LEMMA CloseNextInv ==
    ASSUME IInv, NEW g \in Gens, CloseNext(g)
    PROVE  IInv'
<1>1. CASE BeginRemove(g) /\ lane' = At("removeStop", g)
  <2>1. session[g].state \in {"paused", "running"}
    BY <1>1 DEF CloseNext, BeginRemove, IInv, SweepFollows
  <2>2. sweep' \in SUBSET sweep
    BY DEF CloseNext
  <2> QED
    BY <1>1, <2>1, <2>2, BeginRemoveInv DEF CloseNext
<1>2. CASE UNCHANGED <<registryVars, diskVars, lane>>
  <2>1. TypeOK'
    BY <1>2 DEF CloseNext, IInv, TypeOK, registryVars, diskVars
  <2>2. LaneFollows' /\ ManagedAreLive' /\ SweepFollows'
    BY <1>2 DEF CloseNext, IInv, LaneFollows, ManagedAreLive, SweepFollows, Alive, HashOf,
        diskVars
  <2> QED
    BY <1>2, <2>1, <2>2, QuietInv
<1> QED
  BY <1>1, <1>2 DEF CloseNext

LEMMA RemoveStoppedInv ==
    ASSUME IInv, NEW g \in Gens, RemoveStopped(g)
    PROVE  IInv'
<1>1. /\ lane.at = "removeStop" /\ lane.gen = g /\ session[g].state = "removing"
      /\ Active(g) /\ session[g] \in Sessions /\ wt[g] \in Torrents
  BY DEF RemoveStopped, At, IInv, TypeOK, LaneFollows, Active
<1>2. CASE RemoveDestroy(g) /\ lane' = At("removeDestroy", g)
  <2>1. tracker[g] = "none"
    BY <1>1, <1>2 DEF RemoveDestroy, ActivationStopped, IInv, TypeOK, AllConsistent, Consistent
  <2>2. /\ session' \in [Gens -> Sessions] /\ session'[g].state = "removing"
        /\ session'[g].hash = session[g].hash /\ session'[g].ready = session[g].ready
        /\ session'[g].committed = session[g].committed
        /\ session'[g].activation = session[g].activation
        /\ \A x \in Gens : x # g => session'[x] = session[x]
    BY <1>1, <1>2 DEF RemoveDestroy, IInv, TypeOK, Sessions
  <2>3. /\ wt' \in [Gens -> Torrents] /\ wt'[g].phase \notin {"added", "metadata", "ready"}
        /\ wt'[g].matches = wt[g].matches /\ peers' \in [Gens -> BOOLEAN] /\ ~peers'[g]
        /\ \A x \in Gens : x # g => wt'[x] = wt[x] /\ peers'[x] = peers[x]
    BY <1>1, <1>2 DEF RemoveDestroy, DestroyTorrent, Alive, IInv, TypeOK, Torrents
  <2>4. UNCHANGED <<registryVars, tracker, managed, sweep, closing>>
    BY <1>2 DEF RemoveStopped, RemoveDestroy
  <2>5. TypeOK'
    BY <1>2, <2>2, <2>3, <2>4 DEF IInv, TypeOK, At, Lanes, registryVars
  <2>6. \A x \in Gens : x # g => Consistent(x)'
    BY <2>2, <2>3, <2>4, OthersKept DEF registryVars
  <2>7. Consistent(g)'
    BY <1>1, <2>1, <2>2, <2>3, <2>4 DEF IInv, AllConsistent, Consistent, Active, Alive,
        HashOf, RecordOf, registryVars
  <2>8. LaneFollows'
    BY <1>2, <2>1, <2>2, <2>3, <2>4 DEF At, LaneFollows, Alive
  <2>9. ManagedAreLive' /\ SweepFollows'
    BY <1>1, <2>2, <2>4 DEF IInv, TypeOK, ManagedAreLive, SweepFollows, HashOf
  <2> QED
    BY <2>5, <2>6, <2>7, <2>8, <2>9 DEF IInv, AllConsistent
<1>3. CASE lane' = Idle /\ UNCHANGED <<registryVars, diskVars>>
  <2>1. TypeOK'
    BY <1>3 DEF RemoveStopped, IInv, TypeOK, Idle, Lanes, registryVars, diskVars
  <2>2. LaneFollows' /\ ManagedAreLive' /\ SweepFollows'
    BY <1>3 DEF RemoveStopped, IInv, Idle, LaneFollows, ManagedAreLive, SweepFollows,
        HashOf, diskVars
  <2> QED
    BY <1>3, <2>1, <2>2, QuietInv
<1> QED
  BY <1>2, <1>3 DEF RemoveStopped

\* The end of a removal releases the hash its own session holds.
LEMMA RemoveDoneInv ==
    ASSUME IInv, NEW g \in Gens, RemoveDone(g)
    PROVE  IInv'
<1> DEFINE h == HashOf(g)
<1>1. /\ lane.at = "removeStore" /\ lane.gen = g /\ session[g].state = "removing"
      /\ ~Alive(g) /\ tracker[g] = "none" /\ Active(g) /\ h \in Hashes
      /\ session[g].committed /\ session[g] \in Sessions /\ wt[g] \in Torrents
      /\ fileEntries \in Nat /\ FileCount[h] \in Nat
  BY DEF RemoveDone, At, IInv, TypeOK, LaneFollows, AllConsistent, Consistent, Active
<1>2. records[h] = [gen |-> g, state |-> "tombstoned"]
  BY <1>1 DEF IInv, AllConsistent, Consistent, RecordOf
<1>3. RemoveRecord(h)
  BY <1>1, <1>2 DEF RemoveDone, FinishRemove, Release, NoRecord
<1>4. /\ session' \in [Gens -> Sessions] /\ session'[g].state = "removed"
      /\ session'[g].hash = h /\ session'[g].ready = session[g].ready
      /\ session'[g].committed /\ session'[g].activation = session[g].activation
      /\ \A x \in Gens : x # g => session'[x] = session[x]
  BY <1>1 DEF RemoveDone, FinishRemove, HashOf, IInv, TypeOK, Sessions, SessionStates
<1>5. UNCHANGED <<wt, peers, tracker, sweep, closing>> /\ lane' = Idle
  BY DEF RemoveDone, FinishRemove
<1>6. managed' = [k \in Hashes |-> IF managed[k] = g THEN 0 ELSE managed[k]]
  BY DEF RemoveDone
<1>7. TypeOK'
  <2>1. records' \in [Hashes -> Records] /\ fileEntries' \in Nat
    BY <1>1, <1>3 DEF RemoveRecord, IInv, TypeOK, Records, NoRecord
  <2>2. managed' \in [Hashes -> Gens \cup {0}]
    BY <1>6 DEF IInv, TypeOK
  <2> QED
    BY <1>4, <1>5, <2>1, <2>2 DEF IInv, TypeOK, Idle, Lanes
<1>8. \A x \in Gens : x # g => Consistent(x)'
  <2>1. \A k \in Hashes : k # h => records'[k] = records[k]
    BY <1>3 DEF RemoveRecord, IInv, TypeOK
  <2> QED
    BY <1>1, <1>4, <1>5, <2>1, OwnRecord, OthersKept
<1>9. Consistent(g)'
  BY <1>1, <1>4, <1>5 DEF IInv, AllConsistent, Consistent, Active, Alive
<1>10. LaneFollows' /\ SweepFollows'
  BY <1>4, <1>5 DEF IInv, TypeOK, Idle, LaneFollows, SweepFollows
<1>11. ManagedAreLive'
  BY <1>4, <1>6 DEF IInv, TypeOK, ManagedAreLive, HashOf, Gens
<1> QED
  BY <1>7, <1>8, <1>9, <1>10, <1>11 DEF IInv, AllConsistent

LEMMA StutterInv == IInv /\ UNCHANGED vars => IInv'
<1> SUFFICES ASSUME IInv, UNCHANGED vars PROVE IInv'
    OBVIOUS
<1>1. TypeOK'
  BY DEF IInv, TypeOK, vars, registryVars, diskVars, managerVars
<1>2. LaneFollows' /\ ManagedAreLive' /\ SweepFollows'
  BY DEF IInv, LaneFollows, ManagedAreLive, SweepFollows, Alive, HashOf, vars, diskVars,
      managerVars
<1> QED
  BY <1>1, <1>2, QuietInv DEF vars

LEMMA StepInv == IInv /\ [Next]_vars => IInv'
<1> SUFFICES ASSUME IInv, Next PROVE IInv'
    BY StutterInv
<1>1. CASE Commands
  BY <1>1, AddInv, SetSelectionInv, PauseInv, ResumeInv, RemoveInv, ShutdownInv, CloseNextInv
  DEF Commands
<1>2. ASSUME NEW g \in Gens, LaneStep(g) PROVE IInv'
  BY <1>2, LaneInv, AddDoneInv, PauseDoneInv, RemoveStoppedInv, RemoveDoneInv DEF LaneStep
<1>3. ASSUME NEW g \in Gens, TorrentEvent(g) PROVE IInv'
  BY <1>3, TorrentEventInv
<1> QED
  BY <1>1, <1>2, <1>3 DEF Next

LEMMA Invariance == Spec => []IInv
BY InitInv, StepInv, PTL DEF Spec

-----------------------------------------------------------------------------
(* What goes on in a torrent follows its session's state.                  *)

\* A torrent is paused and selects nothing until its session first runs and
\* again after each pause, transfers what is wanted while it runs, and is gone
\* once its removal has stopped waiting for the trackers.
Steady(g) ==
    /\ session[g].state = "unborn" => wt[g] = NoTorrent
    /\ session[g].state = "adding" => wt[g].paused /\ ~wt[g].selected
    /\ session[g].state = "paused" /\ lane # At("pauseStop", g) =>
          tracker[g] = "none" /\ (Alive(g) => wt[g].paused /\ ~wt[g].selected)
    /\ session[g].state = "running" /\ Alive(g) =>
          ~wt[g].paused /\ wt[g].selected = session[g].wanted /\ tracker[g] = "live"
    /\ session[g].state = "removing" /\ lane # At("removeStop", g) => ~Alive(g)
    /\ lane = At("pauseStop", g) => session[g].state = "paused"

AllSteady == \A g \in Gens : Steady(g)

\* The counter is the files of what is loaded, which are finitely many.
Files(some) == UNION {{h} \X (1..FileCount[h]) : h \in some}
Counted == FilesCounted /\ IsFiniteSet(Files(Loaded))

\* A step that leaves a generation's state, selection, pause and activation
\* alone leaves it steady; WebTorrent may destroy the torrent meanwhile.
LEMMA SteadyKept ==
    ASSUME NEW g \in Gens, Steady(g),
           session'[g].state = session[g].state, session'[g].wanted = session[g].wanted,
           session[g].state = "unborn" => wt'[g] = wt[g],
           wt'[g].paused = wt[g].paused,
           wt'[g].selected = wt[g].selected \/ (~Alive(g)' /\ ~wt'[g].selected),
           Alive(g)' => Alive(g), tracker'[g] = tracker[g],
           (lane' = At("pauseStop", g)) <=> (lane = At("pauseStop", g)),
           (lane' = At("removeStop", g)) <=> (lane = At("removeStop", g))
    PROVE  Steady(g)'
BY DEF Steady, At

\* The same for a generation of which the step changes nothing.
LEMMA SteadyUntouched ==
    ASSUME NEW g \in Gens, Steady(g),
           session'[g] = session[g], wt'[g] = wt[g], tracker'[g] = tracker[g],
           (lane' = At("pauseStop", g)) <=> (lane = At("pauseStop", g)),
           (lane' = At("removeStop", g)) <=> (lane = At("removeStop", g))
    PROVE  Steady(g)'
BY DEF Steady, At, Alive

\* The places of the lane that matter here, told apart.
LEMMA Places ==
    ASSUME NEW g \in Gens, NEW x \in Gens
    PROVE  /\ Idle # At("pauseStop", x) /\ Idle # At("removeStop", x)
           /\ \A p \in {"addReady", "addStore", "removeDestroy", "removeStore"} :
                 At(p, g) # At("pauseStop", x) /\ At(p, g) # At("removeStop", x)
           /\ At("pauseStop", g) # At("removeStop", x)
           /\ x # g => /\ At("pauseStop", g) # At("pauseStop", x)
                       /\ At("removeStop", g) # At("removeStop", x)
BY DEF Idle, At

LEMMA InitSteady == Init => AllSteady
BY Places DEF Init, DiskInit, Unborn, AllSteady, Steady

\* An add that failed is a removed session.
LEMMA FailSteady ==
    ASSUME IInv, AllSteady, NEW g \in Gens, Active(g), Fail(g),
           UNCHANGED <<tracker, managerVars>>
    PROVE  AllSteady'
<1>1. session[g].state = "adding"
  BY DEF Fail, Active, IInv, AllConsistent, Consistent
<1>2. session'[g].state = "removed" /\ \A x \in Gens : x # g => session'[x] = session[x]
  BY DEF Fail, Failed, IInv, TypeOK, Sessions
<1>3. \A x \in Gens : x # g => wt'[x] = wt[x]
  BY DEF Fail, DestroyTorrent, IInv, TypeOK
<1>4. lane' = lane /\ tracker' = tracker /\ lane # At("pauseStop", g)
  BY <1>1 DEF AllSteady, Steady, managerVars
<1>5. Steady(g)'
  BY <1>2, <1>4 DEF Steady
<1>6. ASSUME NEW x \in Gens, x # g PROVE Steady(x)'
  BY <1>2, <1>3, <1>4, <1>6, SteadyUntouched DEF AllSteady
<1> QED
  BY <1>5, <1>6 DEF AllSteady

LEMMA EventSteady ==
    ASSUME IInv, AllSteady, NEW g \in Gens, TorrentEvent(g)
    PROVE  AllSteady'
<1>1. /\ session[g] \in Sessions /\ wt[g] \in Torrents /\ session \in [Gens -> Sessions]
      /\ wt \in [Gens -> Torrents]
  BY DEF IInv, TypeOK
<1>2. UNCHANGED managerVars /\ lane' = lane
  BY DEF TorrentEvent, managerVars
<1>3. CASE Fail(g) /\ UNCHANGED tracker /\ (Alive(g) \/ session[g].state = "adding")
  <2>1. Active(g)
    BY <1>3 DEF Active, IInv, AllConsistent, Consistent
  <2> QED
    BY <1>2, <1>3, <2>1, FailSteady
<1>4. CASE /\ wt[g].phase = "added" /\ UNCHANGED tracker
           /\ session' = [session EXCEPT ![g].committed = TRUE]
           /\ wt' = [wt EXCEPT ![g].phase = "metadata", ![g].matches = TRUE]
  <2>1. session[g].state # "unborn"
    BY <1>1, <1>4 DEF AllSteady, Steady, NoTorrent
  <2>2. ASSUME NEW x \in Gens PROVE Steady(x)'
    BY <1>1, <1>2, <1>4, <2>1, SteadyKept DEF AllSteady, Alive, Sessions, Torrents
  <2> QED
    BY <2>2 DEF AllSteady
<1>5. CASE Ready(g)
  <2>1. session[g].state # "unborn"
    BY <1>1, <1>5 DEF Ready, AllSteady, Steady, NoTorrent
  <2>2. ASSUME NEW x \in Gens PROVE Steady(x)'
    BY <1>1, <1>2, <1>5, <2>1, SteadyKept DEF Ready, AllSteady, Alive, Sessions, Torrents
  <2> QED
    BY <2>2 DEF AllSteady
<1>6. CASE Alive(g) /\ DestroyTorrent(g) /\ UNCHANGED <<session, tracker>>
  <2>1. session[g].state # "unborn"
    BY <1>1, <1>6 DEF AllSteady, Steady, NoTorrent, Alive
  <2>2. ASSUME NEW x \in Gens PROVE Steady(x)'
    BY <1>1, <1>2, <1>6, <2>1, SteadyKept DEF DestroyTorrent, AllSteady, Alive, Torrents
  <2> QED
    BY <2>2 DEF AllSteady
<1>7. CASE CleanupDone(g)
  <2>1. session[g].state # "unborn"
    BY <1>1, <1>7 DEF CleanupDone, AllSteady, Steady, NoTorrent
  <2>2. ASSUME NEW x \in Gens PROVE Steady(x)'
    BY <1>1, <1>2, <1>7, <2>1, SteadyKept DEF CleanupDone, AllSteady, Alive, Torrents
  <2> QED
    BY <2>2 DEF AllSteady
<1>8. CASE UNCHANGED <<session, wt, tracker>>
  <2>1. ASSUME NEW x \in Gens PROVE Steady(x)'
    BY <1>2, <1>8, SteadyUntouched DEF AllSteady
  <2> QED
    BY <2>1 DEF AllSteady
<1>9. CASE TrackerStopped(g)
  <2>1. ASSUME NEW x \in Gens, x # g PROVE Steady(x)'
    BY <1>2, <1>9, <2>1, SteadyUntouched DEF TrackerStopped, AllSteady, IInv, TypeOK
  <2>2. Steady(g)'
    BY <1>1, <1>2, <1>9 DEF TrackerStopped, AllSteady, Steady, Alive, IInv, TypeOK
  <2> QED
    BY <2>1, <2>2 DEF AllSteady
<1> QED
  <2>1. CASE Metadata(g)
    BY <2>1, <1>3, <1>4 DEF Metadata, Alive
  <2>2. CASE TorrentError(g)
    BY <2>2, <1>3, <1>6 DEF TorrentError
  <2>3. CASE ReadyTimeout(g)
    BY <2>3, <1>3 DEF ReadyTimeout
  <2>4. CASE AdmitPeer(g) \/ DiscoveredPeer(g) \/ PeersLeave(g)
    BY <2>4, <1>8 DEF AdmitPeer, DiscoveredPeer, PeersLeave
  <2> QED
    BY <1>5, <1>7, <1>9, <2>1, <2>2, <2>3, <2>4 DEF TorrentEvent

LEMMA AddSteady ==
    ASSUME IInv, AllSteady, NEW h \in Hashes, NEW some \in BOOLEAN, Add(h, some)
    PROVE  AllSteady'
<1> PICK g \in Gens : g = NextGen
  BY DEF Add
<1>1. /\ session[g].state = "unborn" /\ wt[g] = NoTorrent /\ lane = Idle
      /\ lane' = At("addReady", g) /\ tracker' = tracker
      /\ wt' = [wt EXCEPT ![g].phase = "added"]
  BY DEF Add, BeginAdd, Free, AllSteady, Steady
<1>2. session'[g].state = "adding" /\ \A x \in Gens : x # g => session'[x] = session[x]
  BY DEF Add, BeginAdd, IInv, TypeOK
<1>3. wt'[g].paused /\ ~wt'[g].selected /\ \A x \in Gens : x # g => wt'[x] = wt[x]
  BY <1>1 DEF NoTorrent, IInv, TypeOK
<1>4. ASSUME NEW x \in Gens, x # g PROVE Steady(x)'
  BY <1>1, <1>2, <1>3, <1>4, Places, SteadyUntouched DEF AllSteady
<1>5. Steady(g)'
  BY <1>1, <1>2, <1>3, Places DEF Steady
<1> QED
  BY <1>4, <1>5 DEF AllSteady

\* What selecting and pausing do to the torrent, when it is still there.
LEMMA SelectedSays ==
    ASSUME IInv, NEW g \in Gens, NEW some \in BOOLEAN
    PROVE  /\ Selected(g, some)[g].paused = wt[g].paused
           /\ Alive(g) => Selected(g, some)[g].selected = some
<1>1. wt[g] \in Torrents /\ wt \in [Gens -> Torrents]
  BY DEF IInv, TypeOK
<1> QED
  BY <1>1 DEF Selected, Torrents

LEMMA SetSelectionSteady ==
    ASSUME IInv, AllSteady, NEW h \in Hashes, NEW some \in BOOLEAN, SetSelection(h, some)
    PROVE  AllSteady'
<1> PICK g \in Gens : g = managed[h]
  BY ManagedSession DEF SetSelection
<1>1. session[g].state \in {"paused", "running"} /\ session[g] \in Sessions
  BY ManagedSession DEF SetSelection, UpdateSelection, IInv, TypeOK
<1>2. lane' = lane /\ lane = Idle /\ tracker' = tracker
  BY DEF SetSelection, UpdateSelection, Free, managerVars
<1>3. /\ session'[g].state = session[g].state /\ session'[g].wanted = some
      /\ \A x \in Gens : x # g => session'[x] = session[x]
  BY <1>1 DEF SetSelection, UpdateSelection, IInv, TypeOK, Sessions
<1>4. /\ wt'[g].paused = wt[g].paused /\ wt'[g].phase = wt[g].phase
      /\ \A x \in Gens : x # g => wt'[x] = wt[x]
      /\ session[g].state = "paused" => wt' = wt
      /\ session[g].state = "running" /\ Alive(g) => wt'[g].selected = some
  <2>1. \/ wt' = wt /\ (session[g].state = "paused" \/ Dead(g))
        \/ wt' = Selected(g, some) /\ session[g].state = "running"
    BY <1>1 DEF SetSelection, UpdateSelection, SelectOutcomes
  <2> QED
    BY <2>1, SelectedKeeps, SelectedSays DEF Alive, Dead
<1>5. ASSUME NEW x \in Gens, x # g PROVE Steady(x)'
  BY <1>2, <1>3, <1>4, <1>5, SteadyUntouched DEF AllSteady
<1>6. Steady(g)'
  BY <1>1, <1>2, <1>3, <1>4, Places DEF AllSteady, Steady, Alive
<1> QED
  BY <1>5, <1>6 DEF AllSteady

LEMMA PauseSteady ==
    ASSUME IInv, AllSteady, NEW h \in Hashes, Pause(h)
    PROVE  AllSteady'
<1> PICK g \in Gens : g = managed[h]
  BY ManagedSession DEF Pause
<1>1. session'[g].state = "paused" /\ \A x \in Gens : x # g => session'[x] = session[x]
  BY DEF Pause, BeginPause, IInv, TypeOK, Sessions
<1>2. \A x \in Gens : x # g => tracker'[x] = tracker[x]
  BY DEF Pause, BeginPause, StopActivation, IInv, TypeOK
<1>3. lane = Idle /\ lane' = At("pauseStop", g) /\ wt' = wt
  BY DEF Pause, BeginPause, Free
<1>4. ASSUME NEW x \in Gens, x # g PROVE Steady(x)'
  BY <1>1, <1>2, <1>3, <1>4, Places, SteadyUntouched DEF AllSteady
<1>5. Steady(g)'
  BY <1>1, <1>3 DEF Steady
<1> QED
  BY <1>4, <1>5 DEF AllSteady

LEMMA PauseDoneSteady ==
    ASSUME IInv, AllSteady, NEW g \in Gens, PauseDone(g)
    PROVE  AllSteady'
<1>1. /\ lane = At("pauseStop", g) /\ lane' = Idle /\ session' = session
      /\ tracker' = tracker /\ session[g].state = "paused" /\ tracker[g] = "none"
  BY DEF PauseDone, FinishPause, ActivationStopped, AllSteady, Steady, IInv, TypeOK,
      AllConsistent, Consistent
<1>2. \/ wt' = wt /\ Dead(g)
      \/ wt' = [Selected(g, FALSE) EXCEPT ![g].paused = TRUE]
  BY DEF PauseDone, FinishPause, SelectOutcomes
<1>3. /\ \A x \in Gens : x # g => wt'[x] = wt[x]
      /\ Alive(g)' => wt'[g].paused /\ ~wt'[g].selected
  <2>1. CASE wt' = wt /\ Dead(g)
    BY <2>1 DEF Alive, Dead
  <2>2. CASE wt' = [Selected(g, FALSE) EXCEPT ![g].paused = TRUE]
    <3> DEFINE s == Selected(g, FALSE)
    <3>1. /\ s \in [Gens -> Torrents] /\ \A x \in Gens : x # g => s[x] = wt[x]
          /\ s[g].phase = wt[g].phase /\ s[g] \in Torrents
          /\ Alive(g) => s[g].selected = FALSE
      BY SelectedKeeps, SelectedSays
    <3>2. wt' = [s EXCEPT ![g].paused = TRUE]
      BY <2>2
    <3> HIDE DEF s
    <3>3. /\ wt'[g].paused /\ wt'[g].selected = s[g].selected /\ wt'[g].phase = s[g].phase
          /\ \A x \in Gens : x # g => wt'[x] = s[x]
      BY <3>1, <3>2 DEF Torrents
    <3> QED
      BY <3>1, <3>3 DEF Alive
  <2> QED
    BY <1>2, <2>1, <2>2
<1>4. ASSUME NEW x \in Gens, x # g PROVE Steady(x)'
  BY <1>1, <1>3, <1>4, Places, SteadyUntouched DEF AllSteady
<1>5. Steady(g)'
  BY <1>1, <1>3, Places DEF Steady
<1> QED
  BY <1>4, <1>5 DEF AllSteady

LEMMA ResumeSteady ==
    ASSUME IInv, AllSteady, NEW h \in Hashes, ResumeTorrent(h)
    PROVE  AllSteady'
<1> PICK g \in Gens : g = managed[h]
  BY ManagedSession DEF ResumeTorrent
<1>1. /\ session[g] \in Sessions /\ wt[g] \in Torrents /\ session[g].wanted \in BOOLEAN
      /\ lane = Idle /\ lane' = lane
  BY DEF ResumeTorrent, Resume, Free, managerVars, IInv, TypeOK, Sessions
<1>2. /\ session'[g].state = "running" /\ session'[g].wanted = session[g].wanted
      /\ \A x \in Gens : x # g => session'[x] = session[x]
  BY <1>1 DEF ResumeTorrent, Resume, IInv, TypeOK, Sessions
<1>3. /\ \A x \in Gens : x # g => wt'[x] = wt[x] /\ tracker'[x] = tracker[x]
      /\ Alive(g)' => /\ ~wt'[g].paused /\ wt'[g].selected = session[g].wanted
                      /\ tracker'[g] = "live"
  <2>1. CASE UNCHANGED <<wt, tracker>> /\ Dead(g)
    BY <2>1 DEF Alive, Dead
  <2>2. CASE /\ wt' = [Selected(g, session[g].wanted) EXCEPT ![g].paused = FALSE]
             /\ tracker' = [tracker EXCEPT ![g] = "live"]
    <3> DEFINE s == Selected(g, session[g].wanted)
    <3>1. /\ s \in [Gens -> Torrents] /\ \A x \in Gens : x # g => s[x] = wt[x]
          /\ s[g].phase = wt[g].phase /\ s[g] \in Torrents
          /\ Alive(g) => s[g].selected = session[g].wanted
      BY <1>1, SelectedKeeps, SelectedSays
    <3>2. wt' = [s EXCEPT ![g].paused = FALSE]
      BY <2>2
    <3> HIDE DEF s
    <3>3. /\ ~wt'[g].paused /\ wt'[g].selected = s[g].selected /\ wt'[g].phase = s[g].phase
          /\ \A x \in Gens : x # g => wt'[x] = s[x]
      BY <3>1, <3>2 DEF Torrents
    <3>4. tracker'[g] = "live" /\ \A x \in Gens : x # g => tracker'[x] = tracker[x]
      BY <2>2 DEF IInv, TypeOK
    <3> QED
      BY <3>1, <3>3, <3>4 DEF Alive
  <2> QED
    BY <2>1, <2>2 DEF ResumeTorrent, Resume, SelectOutcomes
<1>4. ASSUME NEW x \in Gens, x # g PROVE Steady(x)'
  BY <1>1, <1>2, <1>3, <1>4, SteadyUntouched DEF AllSteady
<1>5. Steady(g)'
  BY <1>1, <1>2, <1>3, Places DEF Steady
<1> QED
  BY <1>4, <1>5 DEF AllSteady

LEMMA BeginRemoveSteady ==
    ASSUME IInv, AllSteady, NEW g \in Gens, BeginRemove(g), lane = Idle,
           lane' = At("removeStop", g)
    PROVE  AllSteady'
<1>1. session'[g].state = "removing" /\ \A x \in Gens : x # g => session'[x] = session[x]
  BY DEF BeginRemove, IInv, TypeOK, Sessions
<1>2. wt' = wt /\ \A x \in Gens : x # g => tracker'[x] = tracker[x]
  BY DEF BeginRemove, StopActivation, IInv, TypeOK
<1>3. ASSUME NEW x \in Gens, x # g PROVE Steady(x)'
  BY <1>1, <1>2, <1>3, Places, SteadyUntouched DEF AllSteady
<1>4. Steady(g)'
  BY <1>1, Places DEF Steady
<1> QED
  BY <1>3, <1>4 DEF AllSteady

LEMMA LaneSteady ==
    ASSUME IInv, AllSteady, NEW g \in Gens,
           AddSettled(g) \/ AddDone(g) \/ AddStoreFails(g)
             \/ RemoveStopped(g) \/ RemoveDestroyed(g) \/ RemoveDone(g)
    PROVE  AllSteady'
<1>1. session[g] \in Sessions /\ wt[g] \in Torrents
  BY DEF IInv, TypeOK
<1>2. CASE AddSettled(g) \/ AddStoreFails(g) \/ RemoveDestroyed(g)
  <2>1. /\ UNCHANGED <<session, wt, tracker>>
        /\ \E p \in {"addReady", "addStore", "removeDestroy"} : lane = At(p, g)
        /\ lane' = Idle \/ \E p \in {"addStore", "removeStore"} : lane' = At(p, g)
    BY <1>2 DEF AddSettled, AddStoreFails, RemoveDestroyed, diskVars
  <2>2. ASSUME NEW x \in Gens PROVE Steady(x)'
    BY <2>1, Places, SteadyUntouched DEF AllSteady
  <2> QED
    BY <2>2 DEF AllSteady
<1>3. CASE AddDone(g)
  <2>1. /\ lane = At("addStore", g) /\ lane' = Idle /\ UNCHANGED <<wt, tracker>>
        /\ session[g].state = "adding"
    BY <1>3 DEF AddDone, At, IInv, LaneFollows
  <2>2. session'[g].state = "paused" /\ \A x \in Gens : x # g => session'[x] = session[x]
    BY <1>1, <1>3 DEF AddDone, Materialized, IInv, TypeOK, Sessions
  <2>3. tracker[g] = "none" /\ wt[g].paused /\ ~wt[g].selected
    BY <2>1 DEF IInv, AllConsistent, Consistent, AllSteady, Steady
  <2>4. ASSUME NEW x \in Gens, x # g PROVE Steady(x)'
    BY <2>1, <2>2, <2>4, Places, SteadyUntouched DEF AllSteady
  <2>5. Steady(g)'
    BY <2>1, <2>2, <2>3, Places DEF Steady
  <2> QED
    BY <2>4, <2>5 DEF AllSteady
<1>4. CASE RemoveStopped(g)
  <2>1. lane = At("removeStop", g) /\ session[g].state = "removing"
    BY <1>4 DEF RemoveStopped, At, IInv, LaneFollows
  <2>2. /\ tracker' = tracker /\ (lane' = Idle \/ lane' = At("removeDestroy", g))
        /\ session'[g].state = session[g].state
        /\ \A x \in Gens : x # g => session'[x] = session[x] /\ wt'[x] = wt[x]
        /\ ~Alive(g)'
    <3>1. CASE RemoveDestroy(g) /\ lane' = At("removeDestroy", g)
      BY <1>1, <3>1 DEF RemoveDestroy, DestroyTorrent, IInv, TypeOK, Alive, Sessions, Torrents
    <3>2. CASE RemoveThrows(g) /\ lane' = Idle /\ UNCHANGED <<registryVars, diskVars>>
      BY <3>2 DEF RemoveThrows, SelectOutcomes, Dead, Alive, diskVars
    <3> QED
      BY <1>4, <3>1, <3>2 DEF RemoveStopped
  <2>3. ASSUME NEW x \in Gens, x # g PROVE Steady(x)'
    BY <2>1, <2>2, <2>3, Places, SteadyUntouched DEF AllSteady
  <2>4. Steady(g)'
    BY <2>1, <2>2, Places DEF Steady
  <2> QED
    BY <2>3, <2>4 DEF AllSteady
<1>5. CASE RemoveDone(g)
  <2>1. /\ lane = At("removeStore", g) /\ lane' = Idle /\ UNCHANGED <<wt, tracker>>
        /\ session'[g].state = "removed"
        /\ \A x \in Gens : x # g => session'[x] = session[x]
    BY <1>1, <1>5 DEF RemoveDone, FinishRemove, IInv, TypeOK, Sessions
  <2>2. ASSUME NEW x \in Gens, x # g PROVE Steady(x)'
    BY <2>1, <2>2, Places, SteadyUntouched DEF AllSteady
  <2>3. Steady(g)'
    BY <2>1, Places DEF Steady
  <2> QED
    BY <2>2, <2>3 DEF AllSteady
<1> QED
  BY <1>2, <1>3, <1>4, <1>5

LEMMA StepSteady == IInv /\ AllSteady /\ [Next]_vars => AllSteady'
<1> SUFFICES ASSUME IInv, AllSteady, [Next]_vars PROVE AllSteady'
    OBVIOUS
<1>1. CASE UNCHANGED <<session, wt, tracker, lane>>
  <2>1. ASSUME NEW x \in Gens PROVE Steady(x)'
    BY <1>1, SteadyUntouched DEF AllSteady
  <2> QED
    BY <2>1 DEF AllSteady
<1>2. ASSUME NEW h \in Hashes, Remove(h) PROVE AllSteady'
  <2>1. managed[h] \in Gens
    BY <1>2, ManagedSession DEF Remove
  <2> QED
    BY <1>2, <2>1, BeginRemoveSteady DEF Remove, Free
<1>3. ASSUME NEW g \in Gens, CloseNext(g) PROVE AllSteady'
  BY <1>1, <1>3, BeginRemoveSteady DEF CloseNext, diskVars
<1>4. CASE Commands
  <2>1. CASE Shutdown \/ CloseAll \/ CloseDone
    BY <1>1, <2>1 DEF Shutdown, CloseAll, CloseDone, diskVars
  <2> QED
    BY <1>2, <1>3, <1>4, <2>1, AddSteady, SetSelectionSteady, PauseSteady, ResumeSteady
    DEF Commands
<1>5. ASSUME NEW g \in Gens, LaneStep(g) \/ TorrentEvent(g) PROVE AllSteady'
  BY <1>5, LaneSteady, PauseDoneSteady, EventSteady DEF LaneStep
<1>6. CASE UNCHANGED vars
  BY <1>1, <1>6 DEF vars, diskVars, managerVars
<1> QED
  BY <1>4, <1>5, <1>6 DEF Next

LEMMA Steadiness == Spec => []AllSteady
BY InitSteady, StepSteady, Invariance, PTL DEF Spec

-----------------------------------------------------------------------------
(* The count of files.                                                     *)

LEMMA FilesMember ==
    ASSUME NEW some \in SUBSET Hashes, NEW x
    PROVE  x \in Files(some) <=> \E h \in some : \E f \in 1..FileCount[h] : x = <<h, f>>
  BY DEF Files

LEMMA FilesOfOne ==
    ASSUME NEW h \in Hashes
    PROVE  IsFiniteSet(Files({h})) /\ Cardinality(Files({h})) = FileCount[h]
<1> DEFINE f == 1..FileCount[h]
<1>1. Files({h}) = {h} \X f
  BY DEF Files
<1>2. IsFiniteSet({h}) /\ Cardinality({h}) = 1
  BY FS_Singleton
<1>3. FileCount[h] \in Nat
  OBVIOUS
<1>4. IsFiniteSet(f) /\ Cardinality(f) = FileCount[h]
  BY <1>3, FS_Interval
<1> HIDE DEF f
<1>5. IsFiniteSet({h} \X f) /\ Cardinality({h} \X f) = Cardinality({h}) * Cardinality(f)
  BY <1>2, <1>4, FS_Product
<1>6. Cardinality({h}) * Cardinality(f) = FileCount[h]
  BY <1>2, <1>3, <1>4
<1> QED
  BY <1>1, <1>5, <1>6

\* A torrent brings its files to those of the others, and takes them along.
LEMMA FilesWithOneMore ==
    ASSUME NEW some \in SUBSET Hashes, IsFiniteSet(Files(some)),
           NEW h \in Hashes, h \notin some
    PROVE  /\ IsFiniteSet(Files(some \cup {h}))
           /\ FilesOf(some) \in Nat
           /\ FilesOf(some \cup {h}) = FilesOf(some) + FileCount[h]
<1>1. Files(some \cup {h}) = Files(some) \cup Files({h})
  BY FilesMember
<1>2. Files(some) \cap Files({h}) = {}
  BY FilesMember
<1>3. IsFiniteSet(Files({h})) /\ Cardinality(Files({h})) = FileCount[h]
  BY FilesOfOne
<1>4. /\ IsFiniteSet(Files(some) \cup Files({h}))
      /\ Cardinality(Files(some) \cup Files({h}))
            = Cardinality(Files(some)) + Cardinality(Files({h}))
              - Cardinality(Files(some) \cap Files({h}))
  BY <1>3, FS_Union
<1>5. Cardinality(Files(some) \cap Files({h})) = 0
  BY <1>2, FS_EmptySet
<1>6. Cardinality(Files(some)) \in Nat
  BY FS_CardinalityType
<1>7. /\ FilesOf(some) = Cardinality(Files(some))
      /\ FilesOf(some \cup {h}) = Cardinality(Files(some \cup {h}))
  BY DEF FilesOf, Files
<1>8. FileCount[h] \in Nat
  OBVIOUS
<1>9. Cardinality(Files(some \cup {h})) = Cardinality(Files(some)) + FileCount[h] - 0
  BY <1>1, <1>3, <1>4, <1>5
<1>10. IsFiniteSet(Files(some \cup {h}))
  BY <1>1, <1>4
<1> QED
  BY <1>6, <1>7, <1>8, <1>9, <1>10

LEMMA FilesOfFewer ==
    ASSUME NEW some \in SUBSET Hashes, IsFiniteSet(Files(some)), NEW fewer \in SUBSET some
    PROVE  IsFiniteSet(Files(fewer))
<1>1. ASSUME NEW x \in Files(fewer) PROVE x \in Files(some)
  BY FilesMember
<1> QED
  BY <1>1, FS_Subset

LEMMA InitCounted == Init => Counted
<1> SUFFICES ASSUME Init PROVE Counted
    OBVIOUS
<1>1. Loaded = {} /\ fileEntries = 0
  BY DEF Init, RegistryInit, Loaded
<1>2. Files({}) = {}
  BY DEF Files
<1>3. FilesOf({}) = 0 /\ IsFiniteSet({}) /\ Cardinality({}) = 0
  BY <1>2, FS_EmptySet DEF FilesOf, Files
<1> QED
  BY <1>1, <1>2, <1>3 DEF Counted, FilesCounted

\* No call of the registry that a step makes is refused, and each adds one
\* record, takes one away or leaves the same hashes loaded.
RegistryCall ==
    \/ UNCHANGED registryVars
    \/ \E h \in Hashes, g \in Gens : Reserve(h, g) \/ Commit(h, g)
    \/ \E h \in Hashes : BeginTeardown(h)
    \/ \E h \in Hashes : records[h] # NoRecord /\ RemoveRecord(h)

LEMMA GiveBackIsCall ==
    ASSUME IInv, NEW g \in Gens, Active(g), GiveBack(g)
    PROVE  RegistryCall
<1>1. HashOf(g) \in Hashes /\ records[HashOf(g)] = RecordOf(g)
  BY DEF IInv, AllConsistent, Consistent
<1>2. records[HashOf(g)] # NoRecord /\ RemoveRecord(HashOf(g))
  BY <1>1 DEF GiveBack, Rollback, RecordOf, NoRecord
<1> QED
  BY <1>1, <1>2 DEF RegistryCall

LEMMA EventIsCall ==
    ASSUME IInv, NEW g \in Gens, TorrentEvent(g)
    PROVE  RegistryCall
<1>1. CASE Fail(g) /\ (Alive(g) \/ session[g].state = "adding")
  BY <1>1, GiveBackIsCall DEF Fail, Active, IInv, AllConsistent, Consistent
<1>2. CASE Metadata(g)
  <2>1. HashOf(g) \in Hashes
    BY <1>2 DEF Metadata, Alive, IInv, AllConsistent, Consistent
  <2> QED
    BY <1>1, <1>2, <2>1 DEF Metadata, Alive, RegistryCall
<1>3. CASE UNCHANGED registryVars
  BY <1>3 DEF RegistryCall
<1> QED
  BY <1>1, <1>2, <1>3 DEF TorrentEvent, Ready, ReadyTimeout, TorrentError, CleanupDone,
      AdmitPeer, DiscoveredPeer, PeersLeave, TrackerStopped

LEMMA BeginRemoveIsCall ==
    ASSUME IInv, NEW g \in Gens, BeginRemove(g),
           session[g].state \in {"paused", "running", "removing", "removed"}
    PROVE  RegistryCall
<1>1. CASE session[g].committed
  <2>1. HashOf(g) \in Hashes
    BY DEF BeginRemove, IInv, AllConsistent, Consistent, Active
  <2> QED
    BY <1>1, <2>1 DEF BeginRemove, RegistryCall
<1> QED
  BY <1>1 DEF BeginRemove, RegistryCall

LEMMA StepIsCall ==
    ASSUME IInv, [Next]_vars
    PROVE  RegistryCall
<1>1. CASE UNCHANGED registryVars
  BY <1>1 DEF RegistryCall
<1>2. ASSUME NEW h \in Hashes, NEW some \in BOOLEAN, Add(h, some) PROVE RegistryCall
  BY <1>2 DEF Add, BeginAdd, RegistryCall
<1>3. ASSUME NEW h \in Hashes, Remove(h) PROVE RegistryCall
  BY <1>3, ManagedSession, BeginRemoveIsCall DEF Remove
<1>4. ASSUME NEW g \in Gens, CloseNext(g) PROVE RegistryCall
  <2>1. CASE BeginRemove(g)
    BY <1>4, <2>1, BeginRemoveIsCall DEF CloseNext, IInv, SweepFollows
  <2> QED
    BY <1>1, <1>4, <2>1 DEF CloseNext
<1>5. ASSUME NEW g \in Gens, RemoveDone(g) PROVE RegistryCall
  <2>1. /\ HashOf(g) \in Hashes
    BY <1>5 DEF RemoveDone, At, IInv, LaneFollows, AllConsistent, Consistent, Active
  <2> QED
    BY <1>1, <1>5, <2>1 DEF RemoveDone, FinishRemove, Release, NoRecord, RegistryCall
<1>6. ASSUME NEW g \in Gens, LaneStep(g) PROVE RegistryCall
  BY <1>1, <1>5, <1>6 DEF LaneStep, AddSettled, AddDone, Materialized, AddStoreFails,
      PauseDone, FinishPause, RemoveStopped, RemoveDestroy, RemoveDestroyed
<1>7. CASE Commands
  <2>1. ASSUME NEW h \in Hashes,
               Pause(h) \/ ResumeTorrent(h) \/ \E some \in BOOLEAN : SetSelection(h, some)
        PROVE  RegistryCall
    BY <1>1, <2>1 DEF Pause, BeginPause, ResumeTorrent, Resume, SetSelection, UpdateSelection
  <2>2. CASE Shutdown \/ CloseAll \/ CloseDone
    BY <1>1, <2>2 DEF Shutdown, CloseAll, CloseDone
  <2> QED
    BY <1>2, <1>3, <1>4, <1>7, <2>1, <2>2 DEF Commands
<1> QED
  BY <1>1, <1>6, <1>7, EventIsCall DEF Next, vars

LEMMA CallKeepsCount ==
    ASSUME IInv, Counted, RegistryCall
    PROVE  Counted'
<1>1. /\ records \in [Hashes -> Records] /\ fileEntries \in Nat
      /\ fileEntries = FilesOf(Loaded) /\ IsFiniteSet(Files(Loaded))
      /\ fileEntries <= MaxEntries /\ Cardinality(Loaded) <= MaxLoaded
      /\ Loaded \in SUBSET Hashes
  BY DEF IInv, TypeOK, Counted, FilesCounted, Loaded
<1>2. IsFiniteSet(Loaded) /\ Cardinality(Loaded) \in Nat
  BY <1>1, FS_Subset, FS_CardinalityType
<1>3. CASE Loaded' = Loaded /\ fileEntries' = fileEntries
  BY <1>1, <1>3 DEF Counted, FilesCounted
<1>4. ASSUME NEW h \in Hashes, NEW g \in Gens, Reserve(h, g) PROVE Counted'
  <2>1. h \notin Loaded
    BY <1>4 DEF Reserve, CanReserve, Loaded
  <2>2. Loaded' = Loaded \cup {h}
    <3>1. [state |-> "reserved", gen |-> g] # NoRecord
      BY DEF NoRecord
    <3> QED
      BY <1>1, <1>4, <3>1 DEF Reserve, Loaded
  <2>3. IsFiniteSet(Files(Loaded')) /\ FilesOf(Loaded') = fileEntries + FileCount[h]
    BY <1>1, <2>1, <2>2, FilesWithOneMore
  <2>4. Cardinality(Loaded') = Cardinality(Loaded) + 1
    BY <1>2, <2>1, <2>2, FS_AddElement
  <2>5. Cardinality(Loaded) < MaxLoaded /\ fileEntries + FileCount[h] <= MaxEntries
    BY <1>4 DEF Reserve, CanReserve
  <2>6. fileEntries' = fileEntries + FileCount[h]
    BY <1>4 DEF Reserve
  <2>7. Cardinality(Loaded') <= MaxLoaded
    BY <1>2, <2>4, <2>5
  <2> QED
    BY <2>3, <2>5, <2>6, <2>7 DEF Counted, FilesCounted
<1>5. ASSUME NEW h \in Hashes, NEW g \in Gens, Commit(h, g) PROVE Counted'
  <2>1. Loaded' = Loaded
    BY <1>1, <1>5 DEF Commit, Loaded, NoRecord
  <2> QED
    BY <1>3, <1>5, <2>1 DEF Commit
<1>6. ASSUME NEW h \in Hashes, BeginTeardown(h) PROVE Counted'
  <2>1. Loaded' = Loaded
    BY <1>1, <1>6 DEF BeginTeardown, Loaded, NoRecord, Records
  <2> QED
    BY <1>3, <1>6, <2>1 DEF BeginTeardown
<1>7. ASSUME NEW h \in Hashes, records[h] # NoRecord, RemoveRecord(h) PROVE Counted'
  <2>1. Loaded' = Loaded \ {h} /\ h \in Loaded
    BY <1>1, <1>7 DEF RemoveRecord, Loaded
  <2>2. Loaded = Loaded' \cup {h} /\ h \notin Loaded' /\ Loaded' \in SUBSET Loaded
    BY <2>1
  <2>3. IsFiniteSet(Files(Loaded'))
    BY <1>1, <2>2, FilesOfFewer
  <2>4. FilesOf(Loaded') \in Nat /\ fileEntries = FilesOf(Loaded') + FileCount[h]
    BY <1>1, <2>2, <2>3, FilesWithOneMore
  <2>5. FileCount[h] \in Nat
    OBVIOUS
  <2>6. fileEntries' = FilesOf(Loaded') /\ fileEntries' <= fileEntries
    BY <1>1, <1>7, <2>4, <2>5 DEF RemoveRecord
  <2>7. Cardinality(Loaded') <= Cardinality(Loaded) /\ Cardinality(Loaded') \in Nat
    BY <1>2, <2>2, FS_Subset, FS_CardinalityType
  <2>8. fileEntries' <= MaxEntries /\ Cardinality(Loaded') <= MaxLoaded
    BY <1>1, <1>2, <2>4, <2>6, <2>7
  <2> QED
    BY <2>3, <2>6, <2>8 DEF Counted, FilesCounted
<1>8. CASE UNCHANGED registryVars
  BY <1>3, <1>8 DEF registryVars, Loaded
<1> QED
  BY <1>4, <1>5, <1>6, <1>7, <1>8 DEF RegistryCall

LEMMA Counting == Spec => []Counted
<1>1. IInv /\ Counted /\ [Next]_vars => Counted'
  BY StepIsCall, CallKeepsCount
<1> QED
  BY <1>1, InitCounted, Invariance, PTL DEF Spec

-----------------------------------------------------------------------------
(* Theorems.                                                               *)

\* The registry, the sessions, WebTorrent's torrents and the manager keep
\* their types through every command and every event.
THEOREM TorrentTypeCorrect == Spec => []TypeOK
<1>1. IInv => TypeOK
  BY DEF IInv
<1> QED
  BY <1>1, Invariance, PTL

\* disk-torrent.ts and torrent-registry.ts: the registry holds the hash of a
\* session that is not removed, in the state its next call expects, so commit,
\* teardown, rollback and release are never refused.
THEOREM TorrentOwnsItsHash == Spec => []OwnsItsHash
<1>1. IInv => OwnsItsHash
  BY DEF IInv, AllConsistent, Consistent, Active, OwnsItsHash
<1> QED
  BY <1>1, Invariance, PTL

\* WebTorrent is never given a second torrent of a hash while the first one
\* is not being destroyed.
THEOREM TorrentOnePerHash == Spec => []OneTorrentPerHash
<1>1. ASSUME IInv PROVE OneTorrentPerHash
  BY <1>1, HashesDiffer DEF IInv, AllConsistent, Consistent, OneTorrentPerHash
<1> QED
  BY <1>1, Invariance, PTL

\* Two generations of one torrent never announce at the same time.
THEOREM TorrentOneActivation == Spec => []OneActivation
<1>1. ASSUME IInv PROVE OneActivation
  BY <1>1, HashesDiffer DEF IInv, AllConsistent, Consistent, Active, OneActivation
<1> QED
  BY <1>1, Invariance, PTL

\* Peers are attached only to a torrent whose metadata matched and whose
\* generation the registry still holds.
THEOREM TorrentPeersBelong == Spec => []PeersBelong
<1>1. ASSUME IInv, NEW g \in Gens, peers[g]
      PROVE  wt[g].matches /\ session[g].committed /\ records[HashOf(g)].gen = g
  <2>1. /\ wt[g].matches /\ session[g].committed /\ records[HashOf(g)] = RecordOf(g)
    BY <1>1 DEF IInv, AllConsistent, Consistent
  <2>2. RecordOf(g).gen = g
    BY DEF RecordOf
  <2> QED
    BY <2>1, <2>2
<1>2. IInv => PeersBelong
  BY <1>1 DEF PeersBelong
<1> QED
  BY <1>2, Invariance, PTL

\* A command finds a session exactly as long as it can act on it.
THEOREM TorrentManagedAreLive == Spec => []ManagedAreLive
<1>1. IInv => ManagedAreLive
  BY DEF IInv
<1> QED
  BY <1>1, Invariance, PTL

\* A removed generation never comes back, whatever is still delivered to it.
THEOREM TorrentStaleNeverResumes == Spec => StaleNeverResumes
<1>1. ASSUME IInv, IInv', [Next]_vars, NEW g \in Gens, session[g].state = "removed"
      PROVE  session'[g].state = "removed"
  <2>1. CASE UNCHANGED vars
    BY <2>1, <1>1 DEF vars, diskVars
  <2>2. ASSUME NEW h \in Hashes, NEW some \in BOOLEAN, Add(h, some)
        PROVE  session'[g].state = "removed"
    BY <1>1, <2>2 DEF Add, BeginAdd, IInv, TypeOK
  <2>3. ASSUME NEW h \in Hashes, NEW some \in BOOLEAN,
               SetSelection(h, some) \/ Pause(h) \/ ResumeTorrent(h) \/ Remove(h)
        PROVE  session'[g].state = "removed"
    BY <1>1, <2>3 DEF SetSelection, Pause, ResumeTorrent, Remove, UpdateSelection,
        BeginPause, Resume, BeginRemove, IInv, TypeOK
  <2>4. ASSUME NEW x \in Gens, LaneStep(x) \/ CloseNext(x)
        PROVE  session'[g].state = "removed"
    <3>1. CASE AddDone(x)
      BY <3>1, <1>1 DEF AddDone, At, Materialized, IInv, TypeOK, LaneFollows
    <3>2. CASE RemoveStopped(x)
      <4>1. session[x].state = "removing"
        BY <3>2, <1>1 DEF RemoveStopped, At, IInv, LaneFollows
      <4>2. session' = [session EXCEPT ![x].holds = FALSE] \/ session' = session
        BY <3>2 DEF RemoveStopped, RemoveDestroy, diskVars
      <4> QED
        BY <4>1, <4>2, <1>1 DEF IInv, TypeOK
    <3>3. CASE RemoveDone(x)
      <4>1. session' = [session EXCEPT ![x].state = "removed"]
        BY <3>3 DEF RemoveDone, FinishRemove
      <4> QED
        BY <4>1, <1>1 DEF IInv, TypeOK, Sessions
    <3>4. CASE CloseNext(x)
      <4>1. CASE BeginRemove(x)
        BY <4>1, <1>1 DEF BeginRemove, IInv, TypeOK
      <4> QED
        BY <3>4, <4>1, <1>1 DEF CloseNext, diskVars
    <3>5. CASE AddSettled(x) \/ AddStoreFails(x) \/ PauseDone(x) \/ RemoveDestroyed(x)
      BY <3>5, <1>1 DEF AddSettled, AddStoreFails, PauseDone, FinishPause, RemoveDestroyed, diskVars
    <3> QED
      BY <2>4, <3>1, <3>2, <3>3, <3>4, <3>5 DEF LaneStep
  <2>5. ASSUME NEW x \in Gens, TorrentEvent(x)
        PROVE  session'[g].state = "removed"
    <3>1. \/ UNCHANGED session
          \/ session' = [session EXCEPT ![x] = Failed(@)]
          \/ session' = [session EXCEPT ![x].committed = TRUE]
          \/ session' = [session EXCEPT ![x].ready = "ok"]
      BY <2>5 DEF TorrentEvent, Metadata, Ready, ReadyTimeout, TorrentError, CleanupDone,
          AdmitPeer, DiscoveredPeer, PeersLeave, TrackerStopped, Fail
    <3>2. session \in [Gens -> Sessions] /\ session[g] \in Sessions
      BY <1>1 DEF IInv, TypeOK
    <3>3. Failed(session[g]).state = "removed"
      BY <3>2 DEF Failed, Sessions
    <3>4. CASE session' = [session EXCEPT ![x] = Failed(@)]
      BY <3>2, <3>3, <3>4, <1>1
    <3>5. CASE session' = [session EXCEPT ![x].committed = TRUE]
      BY <3>2, <3>5, <1>1 DEF Sessions
    <3>6. CASE session' = [session EXCEPT ![x].ready = "ok"]
      BY <3>2, <3>6, <1>1 DEF Sessions
    <3> QED
      BY <3>1, <3>4, <3>5, <3>6, <1>1
  <2>6. CASE Shutdown \/ CloseAll \/ CloseDone
    BY <2>6, <1>1 DEF Shutdown, CloseAll, CloseDone, diskVars
  <2> QED
    BY <1>1, <2>1, <2>2, <2>3, <2>4, <2>5, <2>6 DEF Next, Commands
<1>2. ASSUME IInv', NEW g \in Gens, session'[g].state = "removed"
      PROVE  ~peers'[g] /\ tracker'[g] # "live"
  BY <1>2 DEF IInv, AllConsistent, Consistent, Active
<1>3. IInv /\ IInv' /\ [Next]_vars =>
        [\A g \in Gens : session[g].state = "removed" =>
            session'[g].state = "removed" /\ ~peers'[g] /\ tracker'[g] # "live"]_vars
  BY <1>1, <1>2
<1> QED
  BY <1>3, Invariance, PTL DEF Spec, StaleNeverResumes

\* disk-torrent.ts and torrent-registry.ts: registry, session, WebTorrent's
\* torrent and its trackers agree.  A paused torrent is quiet once its pause
\* has ended, a running one transfers what is wanted with its trackers live,
\* and the counter is the files of what is loaded, within both limits.
THEOREM TorrentSessionInStep == Spec => []SessionInStep
<1>1. IInv /\ AllSteady /\ Counted => SessionInStep
  BY DEF IInv, AllConsistent, Consistent, AllSteady, Steady, Counted, SessionInStep,
      QuietWhenPaused, RunningTransfers
<1> QED
  BY <1>1, Invariance, Steadiness, Counting, PTL

\* admitPeer, and WebTorrent's own discovery behind it: a peer joins only a
\* running session's torrent, or one whose pause or removal still waits for
\* its trackers to stop.
THEOREM TorrentPeersJoinRunning == Spec => PeersJoinRunning
<1>1. ASSUME IInv, AllSteady, [Next]_vars, NEW g \in Gens, ~peers[g], peers'[g]
      PROVE  session[g].state = "running" \/ lane \in {At("pauseStop", g), At("removeStop", g)}
  <2>1. PICK x \in Gens : AdmitPeer(x) \/ DiscoveredPeer(x)
    <3>1. CASE UNCHANGED peers \/ \E x \in Gens : peers' = [peers EXCEPT ![x] = FALSE]
      BY <1>1, <3>1 DEF IInv, TypeOK
    <3>2. ASSUME NEW x \in Gens, CloseNext(x) PROVE UNCHANGED peers
      BY <3>2 DEF CloseNext, BeginRemove, diskVars
    <3>3. CASE Commands
      BY <1>1, <3>1, <3>2, <3>3 DEF Commands, Add, BeginAdd, SetSelection, UpdateSelection, Pause,
          BeginPause, ResumeTorrent, Resume, Remove, BeginRemove, Shutdown, CloseAll,
          CloseDone, diskVars
    <3>4. ASSUME NEW x \in Gens, LaneStep(x)
          PROVE  UNCHANGED peers \/ peers' = [peers EXCEPT ![x] = FALSE]
      BY <3>4 DEF LaneStep, AddSettled, AddDone, AddStoreFails, PauseDone, FinishPause,
          RemoveStopped, RemoveDestroy, DestroyTorrent, RemoveDestroyed, RemoveDone,
          FinishRemove, diskVars
    <3>5. ASSUME NEW x \in Gens, TorrentEvent(x)
          PROVE  \/ AdmitPeer(x) \/ DiscoveredPeer(x)
                 \/ UNCHANGED peers \/ peers' = [peers EXCEPT ![x] = FALSE]
      BY <3>5 DEF TorrentEvent, Metadata, Ready, ReadyTimeout, TorrentError, CleanupDone,
          Fail, DestroyTorrent, PeersLeave, TrackerStopped
    <3>6. CASE UNCHANGED vars
      BY <3>1, <3>6 DEF vars, diskVars
    <3> QED
      BY <1>1, <3>1, <3>3, <3>4, <3>5, <3>6 DEF Next
  <2>2. x = g
    BY <1>1, <2>1 DEF AdmitPeer, DiscoveredPeer, IInv, TypeOK
  <2>3. CASE AdmitPeer(g)
    BY <2>3 DEF AdmitPeer
  <2>4. CASE DiscoveredPeer(g)
    <3>1. Alive(g) /\ ~wt[g].paused
      BY <1>1, <2>4 DEF DiscoveredPeer, Alive
    <3>2. Active(g) /\ Steady(g)
      BY <1>1, <3>1 DEF IInv, AllConsistent, Consistent, AllSteady
    <3> QED
      BY <3>1, <3>2 DEF Active, Steady
  <2> QED
    BY <2>1, <2>2, <2>3, <2>4
<1>2. IInv /\ AllSteady /\ [Next]_vars =>
        [\A g \in Gens : ~peers[g] /\ peers'[g] =>
            \/ session[g].state = "running"
            \/ lane \in {At("pauseStop", g), At("removeStop", g)}]_vars
  BY <1>1
<1> QED
  BY <1>2, Invariance, Steadiness, PTL DEF Spec, PeersJoinRunning

=============================================================================
