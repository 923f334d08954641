----------------------------- MODULE TorrentLibrary -----------------------------
(***************************************************************************)
(* The owner's library: the records main keeps (TorrentLibrary over        *)
(* AppStateStore), the bytes the engine archives (TorrentArchive) and the  *)
(* sessions it holds, kept in step by the replies of commands alone.  The  *)
(* engine runs one command at a time and loses its sessions when it dies;  *)
(* each generation is sent one restore-torrent per record, while the owner *)
(* goes on giving commands.  TorrentManager models what a command does     *)
(* inside the engine.                                                      *)
(***************************************************************************)
EXTENDS Naturals, Sequences

CONSTANTS
    Hashes,        \* info hashes
    Callers,       \* bound: the owner's commands in flight at once
    MaxCrash,      \* bound: exits of the engine
    MaxLane,       \* bound: commands between main and the engine when one is given
    Faults,        \* what may fail: "add" "restore" "save" "unlink" "read" "full"
                   \* (the other records reach MAX_LIBRARY_TORRENTS) "timeout"
    None           \* no caller

ASSUME LibraryAssumption ==
    /\ None \notin Callers \cup {"sweep"} /\ "sweep" \notin Callers
    /\ MaxCrash \in Nat /\ MaxLane \in Nat
    /\ Faults \subseteq {"add", "restore", "save", "unlink", "read", "full", "timeout"}

VARIABLES
    library,       \* the durable records: their paused intent, or "none"
    archive,       \* the hashes whose bytes are archived
    session,       \* the engine's torrents
    lane,          \* the commands the engine has, the first of them running
    acted,         \* the running command has changed the session
    replies,       \* the results on their way to main
    todo,          \* the records this generation has still to restore
    engine,        \* "ready" or "down"
    crashes,
    gone,          \* history: removals the owner was told of
    unrestored,    \* history: torrents whose restore failed in this generation
    unheard        \* history: torrents whose result, save or unlink was lost

durable == <<library, archive>>
traffic == <<lane, acted, replies>>
history == <<gone, unrestored, unheard>>
libraryVars == <<library, archive, session, traffic, todo, engine, crashes, history>>

Intents == {"none", "paused", "running"}
Commands == {"commit", "pause", "resume", "remove", "restore"}
Requests == [cmd : Commands, hash : Hashes, intent : Intents,
             by : Callers \cup {"sweep", None}]
Results == [request : Requests,
            code : {"ok", "NOT_FOUND", "ALREADY_EXISTS", "INTERNAL"}]

Entries(seq) == {seq[i] : i \in DOMAIN seq}
InFlight == {q.by : q \in Entries(lane)} \cup {r.request.by : r \in Entries(replies)}

\* No command is in flight or due.
Quiet == /\ engine = "ready"
         /\ InFlight = {}
         /\ \A h \in Hashes : todo[h] = "none"

LibraryTypeOK ==
    /\ library \in [Hashes -> Intents]
    /\ archive \in SUBSET Hashes
    /\ session \in [Hashes -> Intents]
    /\ lane \in Seq(Requests)
    /\ acted \in BOOLEAN
    /\ replies \in Seq(Results)
    /\ todo \in [Hashes -> Intents]
    /\ engine \in {"ready", "down"}
    /\ crashes \in 0..MaxCrash
    /\ gone \in SUBSET Hashes /\ unrestored \in SUBSET Hashes /\ unheard \in SUBSET Hashes

LibraryInit ==
    /\ library = [h \in Hashes |-> "none"]
    /\ archive = {}
    /\ session = [h \in Hashes |-> "none"]
    /\ lane = <<>> /\ acted = FALSE /\ replies = <<>>
    /\ todo = [h \in Hashes |-> "none"]
    /\ engine = "ready"
    /\ crashes = 0
    /\ gone = {} /\ unrestored = {} /\ unheard = {}

-----------------------------------------------------------------------------
(* The engine: the head of the lane runs.                                  *)

Running(cmd) == lane # <<>> /\ Head(lane).cmd = cmd
Hash == Head(lane).hash

Reply(code) ==
    /\ replies' = Append(replies, [request |-> Head(lane), code |-> code])
    /\ lane' = Tail(lane)
    /\ acted' = FALSE

\* The command is refused, or fails before it has changed anything.
Refuse(cmd, code) ==
    /\ Running(cmd) /\ ~acted
    /\ Reply(code)
    /\ UNCHANGED <<durable, session, todo, engine, crashes, history>>

Fails(cmd) == "add" \in Faults /\ cmd # "restore" /\ Refuse(cmd, "INTERNAL")

\* A command whose deadline has passed before its turn is not begun.
GivenUp(cmd) == Running(cmd) /\ Head(lane).by = None /\ Refuse(cmd, "INTERNAL")

Become(intent) == session' = [session EXCEPT ![Hash] = intent]

\* commit-preparation, create-torrent and import-legacy-torrent add the
\* session paused, and then archive its bytes.
CommitAdds ==
    /\ Running("commit") /\ ~acted
    /\ session[Hash] = "none"
    /\ Become("paused")
    /\ acted' = TRUE
    /\ UNCHANGED <<durable, lane, replies, todo, engine, crashes, history>>

CommitDuplicate ==
    Running("commit") /\ session[Hash] # "none" /\ Refuse("commit", "ALREADY_EXISTS")

\* A failed archive does not fail the command.
CommitArchives ==
    /\ Running("commit") /\ acted
    /\ \/ /\ archive' = archive \cup {Hash}
          /\ unheard' = unheard
       \/ /\ "save" \in Faults
          /\ unheard' = unheard \cup {Hash}
          /\ archive' = archive
    /\ Reply("ok")
    /\ UNCHANGED <<library, session, todo, engine, crashes, gone, unrestored>>

SetPaused(cmd) ==
    /\ Running(cmd)
    /\ session[Hash] # "none"
    /\ Become(IF cmd = "pause" THEN "paused" ELSE "running")
    /\ Reply("ok")
    /\ UNCHANGED <<durable, todo, engine, crashes, history>>

Missing(cmd) ==
    Running(cmd) /\ session[Hash] = "none" /\ Refuse(cmd, "NOT_FOUND")

RemoveSession ==
    /\ Running("remove") /\ ~acted
    /\ session[Hash] # "none"
    /\ Become("none")
    /\ acted' = TRUE
    /\ UNCHANGED <<durable, lane, replies, todo, engine, crashes, history>>

\* Mutant: the archived bytes are left behind.
RemoveArchiveKept ==
    /\ Running("remove") /\ acted
    /\ Reply("ok")
    /\ UNCHANGED <<durable, session, todo, engine, crashes, history>>

RemoveArchive ==
    /\ Running("remove") /\ acted
    /\ \/ /\ archive' = archive \ {Hash}
          /\ unheard' = unheard
       \/ /\ "unlink" \in Faults
          /\ unheard' = unheard \cup {Hash}
          /\ archive' = archive
    /\ Reply("ok")
    /\ UNCHANGED <<library, session, todo, engine, crashes, gone, unrestored>>

\* Bytes that cannot be read are taken for bytes that are not there.
RestoreMissing ==
    /\ Running("restore")
    /\ Hash \notin archive \/ "read" \in Faults
    /\ ~acted /\ Reply("NOT_FOUND")
    /\ unheard' = IF Hash \in archive THEN unheard \cup {Hash} ELSE unheard
    /\ UNCHANGED <<durable, session, todo, engine, crashes, gone, unrestored>>

RestoreDuplicate ==
    /\ Running("restore")
    /\ Hash \in archive /\ session[Hash] # "none"
    /\ Refuse("restore", "ALREADY_EXISTS")

\* The bytes are no longer valid, or the add fails.
RestoreFails ==
    /\ "restore" \in Faults
    /\ Running("restore") /\ Hash \in archive
    /\ ~acted /\ Reply("INTERNAL")
    /\ unrestored' = unrestored \cup {Hash}
    /\ UNCHANGED <<durable, session, todo, engine, crashes, gone, unheard>>

Restore ==
    /\ Running("restore")
    /\ Hash \in archive /\ session[Hash] = "none"
    /\ Become(Head(lane).intent)
    /\ Reply("ok")
    /\ UNCHANGED <<durable, todo, engine, crashes, history>>

EngineStep ==
    \/ CommitAdds \/ CommitDuplicate \/ CommitArchives
    \/ RemoveSession \/ RemoveArchive
    \/ RestoreMissing \/ RestoreDuplicate \/ RestoreFails \/ Restore
    \/ \E cmd \in {"pause", "resume"} : SetPaused(cmd)
    \/ \E cmd \in {"pause", "resume", "remove"} : Missing(cmd)
    \/ \E cmd \in Commands : Fails(cmd) \/ GivenUp(cmd)

-----------------------------------------------------------------------------
(* Main: commands, replies, the sweep.                                     *)

Send(request) == lane' = Append(lane, request)

\* The owner gives a command from the window or a torrent's menu.
Call(c, cmd, h) ==
    /\ engine = "ready" /\ c \notin InFlight
    /\ Len(lane) + Len(replies) < MaxLane
    /\ Send([cmd |-> cmd, hash |-> h, intent |-> "none", by |-> c])
    /\ gone' = IF cmd = "commit" THEN gone \ {h} ELSE gone
    /\ UNCHANGED <<durable, session, acted, replies, todo, engine, crashes, unrestored, unheard>>

Recorded(h) == library[h] # "none"

\* upsertTorrent: a new record needs the others to leave it room.
Upsert(h, intent) ==
    {[library EXCEPT ![h] = intent]} \cup
        (IF "full" \in Faults /\ ~Recorded(h) THEN {library} ELSE {})

\* record(): only a command that succeeded changes the library.
Record(q, code) ==
    IF code # "ok" THEN {library}
    ELSE CASE q.cmd = "commit" -> Upsert(q.hash, "paused")
           [] q.cmd = "remove" -> {[library EXCEPT ![q.hash] = "none"]}
           [] q.cmd \in {"pause", "resume"} /\ Recorded(q.hash) ->
                 Upsert(q.hash, IF q.cmd = "pause" THEN "paused" ELSE "running")
           [] OTHER -> {library}

\* Mutant: a torrent that was not restored is dropped whatever the reason.
SweptAlways(q, code) ==
    IF code # "ok" THEN [library EXCEPT ![q.hash] = "none"] ELSE library

\* restore(): a torrent the engine has no bytes of is dropped.
Swept(q, code) ==
    IF code = "NOT_FOUND" THEN [library EXCEPT ![q.hash] = "none"] ELSE library

HandleReply ==
    /\ replies # <<>>
    /\ LET q == Head(replies).request
           code == Head(replies).code IN
       /\ library' \in CASE q.by = None -> {library}
                         [] q.by = "sweep" -> {Swept(q, code)}
                         [] OTHER -> Record(q, code)
       /\ gone' = IF q.by \in Callers /\ q.cmd = "remove" /\ code = "ok"
                     /\ ~\E r \in Entries(lane) \cup
                                  {x.request : x \in Entries(Tail(replies))} :
                            r.cmd = "commit" /\ r.hash = q.hash
                  THEN gone \cup {q.hash} ELSE gone
       /\ unheard' = IF q.by # None /\ q.cmd = "commit" /\ code = "ok"
                        /\ library'[q.hash] = "none"
                     THEN unheard \cup {q.hash} ELSE unheard
    /\ replies' = Tail(replies)
    /\ UNCHANGED <<archive, session, lane, acted, todo, engine, crashes, unrestored>>

\* execute() gives up: its caller hears TIMEOUT, the engine goes on, and the
\* result is dropped when it comes.
Orphan(q, c) == IF q.by = c THEN [q EXCEPT !.by = None] ELSE q

Timeout(c) ==
    /\ "timeout" \in Faults
    /\ c \in InFlight
    /\ unheard' = unheard \cup {q.hash : q \in {x \in Entries(lane) \cup
                        {y.request : y \in Entries(replies)} : x.by = c}}
    /\ lane' = [i \in DOMAIN lane |-> Orphan(lane[i], c)]
    /\ replies' = [i \in DOMAIN replies |->
                    [replies[i] EXCEPT !.request = Orphan(@, c)]]
    /\ UNCHANGED <<durable, session, acted, todo, engine, crashes, gone, unrestored>>

\* The sweep restores one record after another, from the list it took.
SweepNext(h) ==
    /\ engine = "ready" /\ "sweep" \notin InFlight
    /\ todo[h] # "none"
    /\ Send([cmd |-> "restore", hash |-> h, intent |-> todo[h], by |-> "sweep"])
    /\ todo' = [todo EXCEPT ![h] = "none"]
    /\ UNCHANGED <<durable, session, acted, replies, engine, crashes, history>>

-----------------------------------------------------------------------------

\* The engine exits, alone or with the application: every command in flight is
\* aborted, and so is the rest of the sweep.
Crash ==
    /\ engine = "ready" /\ crashes < MaxCrash
    /\ crashes' = crashes + 1
    /\ engine' = "down"
    /\ session' = [h \in Hashes |-> "none"]
    /\ lane' = <<>> /\ acted' = FALSE /\ replies' = <<>>
    /\ todo' = [h \in Hashes |-> "none"]
    /\ unrestored' = {}
    /\ UNCHANGED <<durable, gone, unheard>>

\* The next generation is ready: restoreLibrary().
Ready ==
    /\ engine = "down"
    /\ engine' = "ready"
    /\ todo' = library
    /\ UNCHANGED <<durable, session, traffic, crashes, history>>

LibraryNext ==
    \/ EngineStep
    \/ \E c \in Callers, h \in Hashes, cmd \in Commands \ {"restore"} : Call(c, cmd, h)
    \/ HandleReply
    \/ \E c \in Callers \cup {"sweep"} : Timeout(c)
    \/ \E h \in Hashes : SweepNext(h)
    \/ Crash \/ Ready

LibrarySpec == LibraryInit /\ [][LibraryNext]_libraryVars

\* The engine finishes what it has, main reads its port and goes on with the
\* sweep, and the supervisor starts the next generation.
LibraryFairness ==
    /\ WF_libraryVars(EngineStep) /\ WF_libraryVars(HandleReply) /\ WF_libraryVars(Ready)
    /\ \A h \in Hashes : WF_libraryVars(SweepNext(h))

LibraryLiveSpec == LibrarySpec /\ LibraryFairness

-----------------------------------------------------------------------------
(* Properties.                                                             *)

\* torrent-library.ts:16: once everything in flight is over, every torrent the
\* engine holds is recorded, and with the intent it has.  (Not when a result of
\* it was lost to a timeout or a full library, or its archived bytes were not
\* written or unlinked.)
LoadedIsRecorded ==
    Quiet => \A h \in Hashes \ unheard : session[h] # "none" => library[h] = session[h]

\* A torrent whose removal the owner was told of is not there, and no record,
\* restart or restore in progress brings it back, if its archive was unlinked.
RemovedStaysGone == \A h \in gone \ unheard : session[h] = "none" /\ library[h] = "none"

\* The success of a command for a torrent is on its way to main.
Told(cmd, h) ==
    \E r \in Entries(replies) :
        r.code = "ok" /\ r.request.cmd = cmd /\ r.request.hash = h

\* torrent-library.ts:89: a record goes when its owner removes the torrent, or
\* when no archived bytes of it are left, whatever else fails in a restore.
\* (The owner may be adding the torrent again by then, and it is recorded again;
\* and bytes that could not be read are taken for bytes that are not there.)
DroppedWhenGone ==
    [][\A h \in Hashes \ unheard : Recorded(h) /\ library'[h] = "none" =>
          h \notin archive \/ Told("remove", h) \/ Told("commit", h)]_libraryVars

\* main/index.ts:456: every generation gets back what was recorded and archived,
\* unless its restore failed or timed out.
LibraryComesBack ==
    \A h \in Hashes :
        Recorded(h) /\ h \in archive
            ~> session[h] # "none" \/ ~Recorded(h) \/ h \in unheard
               \/ h \in unrestored

\* At rest main's records and the engine's sessions are the same torrents, across
\* exits, timeouts and sweeps, and what was removed stays away.
RecordsAgree == LibraryTypeOK /\ LoadedIsRecorded /\ RemovedStaysGone

\* No torrent is lost: none is forgotten while its bytes exist, and each engine
\* is given back what is recorded.
NothingIsLost == DroppedWhenGone /\ LibraryComesBack

===============================================================================
