------------------------------ MODULE EngineRuntime ------------------------------
(***************************************************************************)
(* engine/runtime.ts with the preparation service (torrent-preparation-    *)
(* service.ts).  Commands come one at a time from the controller's lane;   *)
(* an acquisition, started by one command and asked about by others, runs  *)
(* beside them.                                                            *)
(*                                                                         *)
(* A preparation is named after the open that creates it.  Times are sets: *)
(* a preparation or an acquisition is due once its time is over.           *)
(***************************************************************************)
EXTENDS PreparationStore

CONSTANTS
    Remote,          \* the opens whose source is a remote torrent file
    MaxFetches,      \* MAX_CONCURRENT_REMOTE_FETCHES
    MaxTracked       \* MAX_TRACKED_ACQUISITIONS

ASSUME RuntimeAssumption ==
    Remote \subseteq Preparations /\ {MaxFetches, MaxTracked} \subseteq Nat

VARIABLES
    store,       \* #preparationStore
    due,         \* preparations whose time is over
    phase,       \* open -> where the preparation service is with it
    aborted,     \* opens whose signal is aborted
    fetching,    \* #activeRemoteFetches
    tracked,     \* #acquisitions: its keys
    acqDue,      \* those of them whose time is over
    told,        \* preparations some answer has named (ghost)
    missed,      \* ready acquisitions nobody asked about in time (ghost)
    cmd,         \* the command in the lane
    loaded,      \* info hashes of the manager's torrents
    adds,        \* preparation -> torrents added from it (ghost)
    life         \* "open", "draining" (queue closed), "closing", "closed"

openVars == <<phase, aborted, fetching, tracked, acqDue>>
vars == <<store, due, openVars, told, missed, cmd, loaded, adds, life>>

Idle == [kind |-> "idle"]

TypeOK ==
    /\ StoreOK(store) /\ due \subseteq Preparations
    /\ phase \in [Preparations ->
                    {"none", "reading", "validating", "stored", "ready", "failed"}]
    /\ aborted \subseteq Preparations /\ fetching \in Nat
    /\ tracked \subseteq Preparations /\ acqDue \subseteq tracked
    /\ told \subseteq Preparations /\ missed \subseteq Preparations /\ loaded \subseteq InfoHashes
    /\ adds \in [Preparations -> Nat]
    /\ cmd.kind \in {"idle", "open", "add", "archive", "remove"}
    /\ life \in {"open", "draining", "closing", "closed"}

Init ==
    /\ store = EmptyStore /\ due = {}
    /\ phase = [p \in Preparations |-> "none"]
    /\ aborted = {} /\ fetching = 0 /\ tracked = {} /\ acqDue = {}
    /\ told = {} /\ missed = {} /\ cmd = Idle /\ loaded = {}
    /\ adds = [p \in Preparations |-> 0]
    /\ life = "open"

-------------------------------------------------------------------------------
(* The preparation service: open(), from its source to the store.          *)

Goes(p, place) == phase' = [phase EXCEPT ![p] = place]

\* open() as far as its first await.  A third remote fetch is refused at once; a
\* staged acquisition that cannot start fails in the next step.
Begin(p) ==
    IF p \in Remote /\ fetching >= MaxFetches
    THEN Goes(p, "failed") /\ UNCHANGED fetching
    ELSE /\ Goes(p, "reading")
         /\ fetching' = IF p \in Remote THEN fetching + 1 ELSE fetching

\* The finally of a fetch.
FetchOver(p, good) == IF p \in Remote THEN fetching - 1 ELSE fetching

\* The bytes are there, or the local read, the fetch, the magnet or its
\* acquisition has failed; an aborted open goes no further.
ReadEnds(p) ==
    /\ phase[p] = "reading"
    /\ \E good \in BOOLEAN :
         /\ fetching' = FetchOver(p, good)
         /\ Goes(p, IF good /\ p \notin aborted THEN "validating" ELSE "failed")
    /\ acqDue' = IF phase'[p] = "failed" THEN acqDue \ {p} ELSE acqDue
    /\ cmd' = IF phase'[p] = "failed" /\ cmd = [kind |-> "open", p |-> p] THEN Idle ELSE cmd
    /\ UNCHANGED <<missed, store, due, aborted, tracked, told, loaded, adds, life>>

\* #validateAndStore: the metadata is validated and, if nobody has aborted the
\* open meanwhile, stored.  create() expires first.  The files a magnet selects are
\* selected at once; one that it does not have takes the preparation back.
ValidateEnds(p) ==
    /\ phase[p] = "validating"
    /\ \/ /\ p \notin aborted
          /\ LET s == Expired(store, due)
             IN  \/ /\ CreateAnswer(s, p) = "ok"
                    /\ Goes(p, "stored")
                    /\ \E files \in {{}, FilesOf[p]} :
                          store' = Selected(Created(s, p), p, files, {})
                 \/ Goes(p, "failed") /\ store' = s
       \/ Goes(p, "failed") /\ UNCHANGED store
    /\ acqDue' = IF phase'[p] = "failed" THEN acqDue \ {p} ELSE acqDue
    /\ cmd' = IF phase'[p] = "failed" /\ cmd = [kind |-> "open", p |-> p] THEN Idle ELSE cmd
    /\ UNCHANGED <<missed, due, aborted, fetching, tracked, told, loaded, adds, life>>

\* signal.aborted || #closed, when open() has answered.
Unwanted(p) == p \in aborted \/ life \in {"closing", "closed"}

\* Mutant: an open that is aborted once it is stored is not answered.
OpenEndsUnanswered(p) ==
    /\ phase[p] = "stored"
    /\ Goes(p, IF Unwanted(p) THEN "failed" ELSE "ready")
    /\ store' = IF Unwanted(p) THEN Discarded(Expired(store, due), p) ELSE store
    /\ acqDue' = acqDue \ {p}
    /\ IF cmd = [kind |-> "open", p |-> p] /\ ~ Unwanted(p)
       THEN cmd' = Idle /\ told' = told \cup {p}
       ELSE UNCHANGED <<cmd, told>>
    /\ UNCHANGED <<missed, due, aborted, fetching, tracked, loaded, adds, life>>

\* The snapshot reaches whoever opened it: the command, whose answer names it, or
\* the acquisition.  An unwanted preparation is discarded.
OpenEnds(p) ==
    /\ phase[p] = "stored"
    /\ Goes(p, IF Unwanted(p) THEN "failed" ELSE "ready")
    /\ store' = IF Unwanted(p) THEN Discarded(Expired(store, due), p) ELSE store
    /\ acqDue' = acqDue \ {p}
    /\ IF cmd = [kind |-> "open", p |-> p]
       THEN cmd' = Idle /\ told' = IF Unwanted(p) THEN told ELSE told \cup {p}
       ELSE UNCHANGED <<cmd, told>>
    /\ UNCHANGED <<missed, due, aborted, fetching, tracked, loaded, adds, life>>

-------------------------------------------------------------------------------
(* Commands.  Every one first expires preparations (#expirePreparations).  *)

Takes(command) ==
    /\ cmd = Idle /\ life = "open"
    /\ cmd' = command

S == Expired(store, due)

\* open-preparation
OpenPreparation(p) ==
    /\ phase[p] = "none"
    /\ Begin(p)
    /\ Takes(IF phase'[p] = "failed" THEN Idle ELSE [kind |-> "open", p |-> p])
    /\ store' = S
    /\ UNCHANGED <<missed, due, aborted, tracked, acqDue, told, loaded, adds, life>>

\* #expireAcquisitions: forgotten, and aborted if still under way.  A preparation
\* that was ready stays in the store without anyone to name it.
Forgets ==
    /\ aborted' = aborted \cup acqDue
    /\ acqDue' = {}
    /\ missed' = missed \cup {p \in acqDue : phase[p] = "ready"}

\* start-acquisition, answered before anything is known.
StartAcquisition(p) ==
    /\ phase[p] = "none" /\ Takes(Idle) /\ store' = S
    /\ Forgets
    /\ IF Cardinality(tracked \ acqDue) < MaxTracked
       THEN Begin(p) /\ tracked' = (tracked \ acqDue) \cup {p}
       ELSE tracked' = tracked \ acqDue /\ UNCHANGED <<phase, fetching>>
    /\ UNCHANGED <<due, told, loaded, adds, life>>

Settled(p) == phase[p] \in {"ready", "failed"}

\* get-acquisition: one that has settled is reported once, and forgotten.
GetAcquisition(p) ==
    /\ p \in tracked /\ Takes(Idle) /\ store' = S
    /\ Forgets
    /\ tracked' = (tracked \ acqDue) \ (IF Settled(p) THEN {p} ELSE {})
    /\ told' = IF p \notin acqDue /\ phase[p] = "ready" THEN told \cup {p} ELSE told
    /\ UNCHANGED <<due, phase, fetching, loaded, adds, life>>

\* update-preparation-selection, and discard-preparation; of what is not there,
\* or being committed, they change nothing.
ChangePreparation(p) ==
    /\ p \in told /\ Takes(Idle)
    /\ \/ /\ Active(store, due, p)
          /\ \E f \in FilesOf[p] :
               \/ MaySelect(S, p, {f}, {}) /\ store' = Selected(S, p, {f}, {})
               \/ MaySelect(S, p, {}, {f}) /\ store' = Selected(S, p, {}, {f})
       \/ store' = Discarded(S, p)
    /\ UNCHANGED <<missed, due, openVars, told, loaded, adds, life>>

\* commit-preparation, as far as the manager's add.
Commit(p) ==
    /\ p \in told /\ S.state[p] = "open"
    /\ Takes([kind |-> "add", p |-> p])
    /\ store' = Committing(S, p)
    /\ UNCHANGED <<missed, due, openVars, told, loaded, adds, life>>

\* What becomes of the reservation.
SettledStore(added, p) == IF added THEN Consumed(store, p) ELSE RolledBack(store, due, p)

\* The add succeeds, and its bytes are archived before the answer, or it fails.
AddEnds ==
    /\ cmd.kind = "add"
    /\ \E added \in BOOLEAN :
         /\ added => HashOf[cmd.p] \notin loaded
         /\ store' = SettledStore(added, cmd.p)
         /\ loaded' = IF added THEN loaded \cup {HashOf[cmd.p]} ELSE loaded
         /\ adds' = IF added THEN [adds EXCEPT ![cmd.p] = @ + 1] ELSE adds
         /\ cmd' = IF added THEN [kind |-> "archive", h |-> HashOf[cmd.p]] ELSE Idle
    /\ UNCHANGED <<missed, due, openVars, told, life>>

\* archive.save(), whose failure is swallowed; or archive.remove().
ArchiveEnds ==
    /\ cmd.kind = "archive"
    /\ cmd' = Idle
    /\ UNCHANGED <<missed, store, due, openVars, told, loaded, adds, life>>

\* remove-torrent, which the archive follows.
RemoveTorrent(h) ==
    /\ h \in loaded /\ store' = S
    /\ Takes([kind |-> "remove", h |-> h])
    /\ UNCHANGED <<missed, due, openVars, told, loaded, adds, life>>

RemoveEnds ==
    /\ cmd.kind = "remove"
    /\ \/ loaded' = loaded \ {cmd.h} /\ cmd' = [cmd EXCEPT !.kind = "archive"]
       \/ cmd' = Idle /\ UNCHANGED loaded
    /\ UNCHANGED <<missed, store, due, openVars, told, adds, life>>

-------------------------------------------------------------------------------
(* Time, deadlines and the shutdown.                                       *)

\* The time of a preparation, or an acquisition is over.
TimePasses ==
    /\ \/ /\ \E p \in Kept(store) \ due : due' = due \cup {p}
          /\ UNCHANGED acqDue
       \/ /\ \E p \in tracked \ acqDue : acqDue' = acqDue \cup {p}
          /\ UNCHANGED due
    /\ UNCHANGED <<missed, store, phase, aborted, fetching, tracked, told, cmd, loaded, adds, life>>

\* The deadline of the command in the lane: only an open listens to its signal.
Deadline ==
    /\ cmd.kind = "open" /\ cmd.p \notin aborted
    /\ aborted' = aborted \cup {cmd.p}
    /\ UNCHANGED <<missed, store, due, phase, fetching, tracked, acqDue, told, cmd, loaded, adds, life>>

\* The controller closes its queue, and waits for the command in the lane.
QueueCloses ==
    /\ life = "open" /\ life' = "draining"
    /\ aborted' = aborted \cup (IF cmd.kind = "open" THEN {cmd.p} ELSE {})
    /\ UNCHANGED <<missed, store, due, phase, fetching, tracked, acqDue, told, cmd, loaded, adds>>

\* close(): the acquisitions are aborted and awaited, those already forgotten not.
Close ==
    /\ life = "draining" /\ cmd = Idle
    /\ life' = "closing"
    /\ aborted' = aborted \cup tracked
    /\ store' = Cleared(store)
    /\ UNCHANGED <<missed, due, phase, fetching, tracked, acqDue, told, cmd, loaded, adds>>

\* Then the torrents are destroyed, and the store is cleared again.
CloseEnds ==
    /\ life = "closing" /\ \A p \in tracked : Settled(p)
    /\ life' = "closed"
    /\ tracked' = {} /\ acqDue' = {}
    /\ store' = Cleared(store) /\ loaded' = {}
    /\ UNCHANGED <<missed, due, phase, aborted, fetching, told, cmd, adds>>

\* What ends of its own accord: reads, fetches and adds have time limits of theirs.
Works(p) == ReadEnds(p) \/ ValidateEnds(p) \/ OpenEnds(p)

LaneWorks == AddEnds \/ ArchiveEnds \/ RemoveEnds

Next ==
    \/ \E p \in Preparations :
         \/ OpenPreparation(p) \/ StartAcquisition(p) \/ GetAcquisition(p)
         \/ ChangePreparation(p) \/ Commit(p) \/ Works(p)
    \/ \E h \in InfoHashes : RemoveTorrent(h)
    \/ LaneWorks \/ TimePasses \/ Deadline \/ QueueCloses \/ Close \/ CloseEnds

Spec == Init /\ [][Next]_vars

Fairness ==
    /\ \A p \in Preparations : WF_vars(Works(p))
    /\ WF_vars(LaneWorks) /\ WF_vars(Close) /\ WF_vars(CloseEnds)

FairSpec == Spec /\ Fairness

-------------------------------------------------------------------------------

\* The index by hash and the byte count of the store agree with its records, and
\* the limits hold, whatever the order of creations, commits, expiry and close.
StoreConsistent == StoreAgrees(store)

\* A reservation is held exactly while its own add runs, so it can neither be
\* stuck (expiry and discard pass it over) nor be taken twice; a preparation
\* becomes one torrent at most.
ReservedWhileAdding ==
    /\ \A p \in Preparations :
         store.state[p] = "committing" => cmd = [kind |-> "add", p |-> p]
    /\ cmd.kind = "add" => store.state[cmd.p] = "committing"
    /\ \A p \in Preparations : adds[p] <= 1

\* Whatever is kept can still be asked for: the preparation was named in an answer,
\* is about to be, or belongs to an acquisition that can be asked about, or that
\* nobody asked about in time.  After the shutdown nothing is kept.
NothingUnnamed ==
    /\ \A p \in Kept(store) :
         \/ p \in told \/ phase[p] = "stored" \/ p \in tracked
         \/ p \in missed
    /\ life = "closed" /\ (\A p \in Preparations : phase[p] # "stored") => Kept(store) = {}

\* The store, the lane and the acquisitions tell one story of each preparation,
\* whoever expires, commits, aborts or closes first.
PreparationsAccounted == TypeOK /\ StoreConsistent /\ ReservedWhileAdding /\ NothingUnnamed

\* An open, an acquisition or the shutdown that has begun and is not over.
UnderWay ==
    \/ \E p \in Preparations : phase[p] \notin {"none", "ready", "failed"}
    \/ life \in {"draining", "closing"}

\* The lane is given back; and every open and acquisition settles, and the
\* shutdown ends: each of them begins once, so all of them are over in the end.
RuntimeSettles ==
    /\ cmd # Idle ~> cmd = Idle
    /\ UnderWay ~> ~UnderWay

===============================================================================
