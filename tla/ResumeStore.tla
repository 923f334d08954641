------------------------------ MODULE ResumeStore ------------------------------
(***************************************************************************)
(* The resume sidecar of one torrent, from ResumeStore and the             *)
(* TorrentManager calls around it, through crashes of the engine.  A save  *)
(* awaits between stat, open, write and rename, and set-torrent-selection  *)
(* does not wait for its own; so saves of one torrent overlap on the one   *)
(* temporary file all of them use.  Files are inodes: a rename moves the   *)
(* name, and an open handle keeps writing where it was opened.  What       *)
(* TorrentManager models of the session is one step here.                  *)
(***************************************************************************)
EXTENDS Naturals, FiniteSets

CONSTANTS
    Savers,        \* bound: saves in progress at once
    Selections,    \* the selections that may be set, by path
    Whole,         \* every file is selected
    Nothing,       \* no file is selected
    Files,         \* bound: files at once
    MaxStamp,      \* bound: changes of the payload, one fewer for downloads
    MaxCrash,      \* bound: crashes of the engine
    IOFails,       \* file operations may fail
    None           \* no file, no saver, no selection

ASSUME SelectionsAssumption == Whole \in Selections /\ None \notin Selections
ASSUME SaversAssumption == IsFiniteSet(Savers) /\ None \notin Savers
ASSUME StoreBounds ==
    /\ MaxStamp \in Nat /\ MaxCrash \in Nat /\ IOFails \in BOOLEAN
    /\ IsFiniteSet(Files) /\ Cardinality(Files) >= Cardinality(Savers) + 2
    /\ None \notin Files

VARIABLES
    content,       \* what each file holds
    temp,          \* the file behind the temporary name, or None
    target,        \* the file behind the sidecar's name, or None
    saver,         \* each save in progress
    trouble,       \* history: whether saves have overlapped, or one has failed
    payload,       \* the torrent's own files: their fingerprint and good pieces
    torrent,       \* the loaded session, as far as the sidecar is concerned
    lane,          \* the save the running command awaits, or None
    engine,        \* "up", "closing" or "down"
    chosen,        \* history: the selection the owner last set, or None
    crashes

storeVars == <<content, temp, target, saver, trouble>>
managerVars == <<torrent, lane, engine, chosen>>
resumeVars == <<storeVars, payload, managerVars, crashes>>

Stamps == 0..MaxStamp
Sidecars == [sel : Selections, clean : BOOLEAN, stamp : Stamps, bits : Stamps]
Blank == [sel |-> Whole, clean |-> FALSE, stamp |-> 0, bits |-> 0]

\* A file holds a sidecar, nothing, or a sidecar with the tail of another.
Holding(side) == [kind |-> "sidecar", side |-> side]
Empty == [kind |-> "empty", side |-> Blank]
Torn == [kind |-> "torn", side |-> Blank]
Contents == [kind : {"sidecar"}, side : Sidecars] \cup {Empty, Torn}

NoSave == [at |-> "idle", side |-> Blank, file |-> None]
NotLoaded == [loaded |-> FALSE, sel |-> Whole, bits |-> 0, edited |-> FALSE]

ResumeTypeOK ==
    /\ content \in [Files -> Contents]
    /\ temp \in Files \cup {None} /\ target \in Files \cup {None}
    /\ saver \in [Savers -> [at : {"idle", "describe", "open", "write", "rename"},
                             side : Sidecars, file : Files \cup {None}]]
    /\ trouble \in SUBSET {"overlap", "failure"}
    /\ payload \in [stamp : Stamps, good : Stamps]
    /\ torrent \in [loaded : BOOLEAN, sel : Selections, bits : Stamps, edited : BOOLEAN]
    /\ lane \in Savers \cup {None}
    /\ engine \in {"up", "closing", "down"}
    /\ chosen \in Selections \cup {None}
    /\ crashes \in 0..MaxCrash

ResumeInit ==
    /\ content = [f \in Files |-> Empty]
    /\ temp = None /\ target = None
    /\ saver = [w \in Savers |-> NoSave]
    /\ trouble = {}
    /\ payload = [stamp |-> 0, good |-> 0]
    /\ torrent = NotLoaded
    /\ lane = None
    /\ engine = "up"
    /\ chosen = None
    /\ crashes = 0

-----------------------------------------------------------------------------
(* persistResume(): describe() and save().                                 *)

Persist(w, clean, sel) ==
    /\ saver[w].at = "idle"
    /\ saver' = [saver EXCEPT ![w] =
                    [at |-> "describe", file |-> None,
                     side |-> [sel |-> sel, clean |-> clean, stamp |-> 0,
                               bits |-> torrent.bits]]]
    /\ trouble' = IF \E x \in Savers : saver[x].at # "idle"
                  THEN trouble \cup {"overlap"} ELSE trouble
    /\ UNCHANGED <<content, temp, target>>

\* The fingerprints are awaited; the bitfield is copied after them, from the
\* buffer that a session still loaded goes on filling.
Describe(w) ==
    /\ saver[w].at = "describe"
    /\ LET described == [saver[w].side EXCEPT
                            !.stamp = payload.stamp,
                            !.bits = IF torrent.loaded THEN torrent.bits ELSE @]
       IN  saver' = [saver EXCEPT ![w] = [@ EXCEPT !.at = "open", !.side = described]]
    /\ UNCHANGED <<content, temp, target, trouble, payload, managerVars, crashes>>

\* open(name, 'w'): the file of that name, or else one that no name and no
\* handle refers to.
OpenedFor(name) ==
    IF name # None THEN {name}
    ELSE Files \ ({temp, target} \cup {saver[x].file : x \in Savers})

\* What is still reachable once the names and handles have changed.
Reachable ==
    [f \in Files |-> IF f \in {temp', target'} \cup {saver'[x].file : x \in Savers}
                     THEN content[f] ELSE Empty]

\* open(temporary, 'w') creates the file or truncates the one that is there.
Open(w) ==
    /\ saver[w].at = "open"
    /\ \E f \in OpenedFor(temp) :
         /\ content' = [content EXCEPT ![f] = Empty]
         /\ temp' = f
         /\ saver' = [saver EXCEPT ![w].at = "write", ![w].file = f]
    /\ UNCHANGED <<target, trouble, payload, managerVars, crashes>>

\* The handle writes from the start: over another sidecar it leaves that one's
\* tail when that one is longer.
Write(w) ==
    /\ saver[w].at = "write"
    /\ LET f == saver[w].file
           mine == Holding(saver[w].side) IN
       \E left \in IF content[f] \in {Empty, mine} THEN {mine} ELSE {mine, Torn} :
           content' = [content EXCEPT ![f] = left]
    /\ saver' = [saver EXCEPT ![w].at = "rename"]
    /\ UNCHANGED <<temp, target, trouble, payload, managerVars, crashes>>

EndSave(w) == saver' = [saver EXCEPT ![w] = NoSave]

\* Whatever the temporary name refers to by then becomes the sidecar; when
\* another save has taken the name away the rename fails.
Rename(w) ==
    /\ saver[w].at = "rename"
    /\ target' = IF temp = None THEN target ELSE temp
    /\ temp' = None
    /\ EndSave(w)
    /\ UNCHANGED <<trouble, payload, managerVars, crashes>>
    /\ content' = Reachable

\* A failed operation removes the temporary name and ends the save.
SaveFails(w) ==
    /\ IOFails
    /\ saver[w].at \in {"open", "write", "rename"}
    /\ temp' = None
    /\ EndSave(w)
    /\ trouble' = trouble \cup {"failure"}
    /\ UNCHANGED <<target, payload, managerVars, crashes>>
    /\ content' = Reachable

-----------------------------------------------------------------------------
(* load() and evaluate().                                                  *)

Readable == target # None /\ content[target].kind = "sidecar"
Saved == content[target].side

\* Mutant: the files' fingerprints are not compared.
UsableAnyFiles(sel) ==
    /\ Readable
    /\ Saved.clean
    /\ Saved.sel = sel

Usable(sel) ==
    /\ Readable
    /\ Saved.clean
    /\ Saved.sel = sel
    /\ Saved.stamp = payload.stamp

\* Without a usable bitfield every piece on disk is verified.
Load(sel) ==
    torrent' = [loaded |-> TRUE, sel |-> sel, edited |-> FALSE,
                bits |-> IF Usable(sel) THEN Saved.bits ELSE payload.good]

-----------------------------------------------------------------------------
(* The manager's commands, one at a time.                                  *)

Free == engine = "up" /\ lane = None

CommitSelection(sel) ==
    /\ Free /\ ~torrent.loaded
    /\ Load(sel)
    /\ chosen' = sel
    /\ UNCHANGED <<storeVars, payload, lane, engine, crashes>>

\* The saved selection; a torrent with none, or an empty one, restores whole.
SavedSelection ==
    IF Readable /\ Saved.sel # Nothing THEN Saved.sel ELSE Whole

\* restore-torrent of a torrent main has recorded.
Restore ==
    /\ Free /\ ~torrent.loaded
    /\ chosen # None
    /\ Load(SavedSelection)
    /\ UNCHANGED <<storeVars, payload, lane, engine, chosen, crashes>>

\* pause-torrent waits for its save.
Pause(w) ==
    /\ Free /\ torrent.loaded
    /\ Persist(w, TRUE, torrent.sel)
    /\ lane' = w
    /\ UNCHANGED <<payload, torrent, engine, chosen, crashes>>

\* Mutant: the sidecar is described before the new selection is recorded.
SetSelectionEarly(w, sel) ==
    /\ Free /\ torrent.loaded
    /\ Persist(w, FALSE, torrent.sel)
    /\ torrent' = [torrent EXCEPT !.sel = sel, !.edited = TRUE]
    /\ chosen' = sel
    /\ UNCHANGED <<payload, lane, engine, crashes>>

\* set-torrent-selection answers while its save goes on.
SetSelection(w, sel) ==
    /\ Free /\ torrent.loaded
    /\ Persist(w, FALSE, sel)
    /\ torrent' = [torrent EXCEPT !.sel = sel, !.edited = TRUE]
    /\ chosen' = sel
    /\ UNCHANGED <<payload, lane, engine, crashes>>

\* The awaited save has ended, well or not.
SaveAwaited ==
    /\ lane # None /\ saver[lane].at = "idle"
    /\ lane' = None
    /\ IF engine = "closing" THEN engine' = "down" /\ torrent' = NotLoaded
                             ELSE UNCHANGED <<engine, torrent>>
    /\ saver' = IF engine = "closing" THEN [w \in Savers |-> NoSave] ELSE saver
    /\ temp' = IF engine = "closing" THEN None ELSE temp
    /\ UNCHANGED <<target, trouble, payload, chosen, crashes>>
    /\ content' = Reachable

\* remove-torrent: the session goes, then the sidecar's name.
Remove ==
    /\ Free /\ torrent.loaded
    /\ torrent' = NotLoaded
    /\ target' = None
    /\ chosen' = None
    /\ UNCHANGED <<temp, saver, trouble, payload, lane, engine, crashes>>
    /\ content' = Reachable

\* closeAll() saves each session before it removes it; then the process exits.
Shutdown(w) ==
    /\ Free /\ torrent.loaded
    /\ engine' = "closing"
    /\ Persist(w, TRUE, torrent.sel)
    /\ lane' = w
    /\ UNCHANGED <<payload, torrent, chosen, crashes>>

\* The process dies.  The next one has another temporary name.
Crash ==
    /\ engine # "down" /\ crashes < MaxCrash
    /\ crashes' = crashes + 1
    /\ engine' = "down" /\ lane' = None
    /\ torrent' = NotLoaded
    /\ saver' = [w \in Savers |-> NoSave]
    /\ temp' = None
    /\ UNCHANGED <<target, trouble, payload, chosen>>
    /\ content' = Reachable

Start ==
    /\ engine = "down"
    /\ engine' = "up"
    /\ UNCHANGED <<storeVars, payload, torrent, lane, chosen, crashes>>

-----------------------------------------------------------------------------
(* The payload, external.                                                  *)

\* A verified piece reaches the disk and the bitfield.
Download ==
    /\ torrent.loaded /\ payload.stamp + 1 < MaxStamp
    /\ payload' = [stamp |-> payload.stamp + 1, good |-> payload.good + 1]
    /\ torrent' = [torrent EXCEPT !.bits = @ + 1]
    /\ UNCHANGED <<storeVars, lane, engine, chosen, crashes>>

\* Somebody else changes the files of a torrent that is not loaded.
Damage ==
    /\ ~torrent.loaded /\ payload.stamp < MaxStamp
    /\ payload' = [stamp |-> payload.stamp + 1, good |-> 0]
    /\ UNCHANGED <<storeVars, managerVars, crashes>>

-----------------------------------------------------------------------------

ResumeNext ==
    \/ \E sel \in Selections : CommitSelection(sel)
    \/ \E w \in Savers :
         \/ \E sel \in Selections : SetSelection(w, sel)
         \/ Pause(w) \/ Shutdown(w)
         \/ Describe(w) \/ Open(w) \/ Write(w) \/ Rename(w) \/ SaveFails(w)
    \/ Restore \/ SaveAwaited \/ Remove \/ Crash \/ Start
    \/ Download \/ Damage

ResumeSpec == ResumeInit /\ [][ResumeNext]_resumeVars

-----------------------------------------------------------------------------
(* Properties.                                                             *)

\* A bitfield given to WebTorrent never claims a piece that is not on disk,
\* whatever crashed, overlapped, or changed the files while they were closed.
BitfieldIsTrue == torrent.loaded => torrent.bits <= payload.good

\* resume-store.ts:212: unless saves overlapped, a good sidecar is only ever
\* replaced by a good one, also when an operation fails or the engine crashes.
SidecarReadable == "overlap" \notin trouble /\ target # None => Readable

\* A restore trusts no more than what is on disk: the sidecar it reads is one
\* that was completed, and the bitfield taken from it is true.
RestoresAreSound == ResumeTypeOK /\ BitfieldIsTrue /\ SidecarReadable

\* torrent-manager.ts:276: once the saves have ended, the sidecar carries the
\* selection the owner set last, which is what a restore reads back.
LastSelectionSaved ==
    torrent.edited /\ lane = None /\ (\A w \in Savers : saver[w].at = "idle") =>
        Readable /\ Saved.sel = torrent.sel

\* It does, whatever crashes, as long as every save succeeded and none began
\* before the one before it had ended.
SelectionSavedInTurn == trouble = {} => LastSelectionSaved

=============================================================================
