---------------------------- MODULE TorrentRegistry ----------------------------
(***************************************************************************)
(* The authority for which info hashes the engine owns.  A record's token  *)
(* and generation id are both minted with it, so one generation number     *)
(* stands for the pair.  A call whose precondition fails throws and        *)
(* changes nothing; the owner of the records must show that it never makes *)
(* such a call.                                                            *)
(***************************************************************************)
EXTENDS Naturals, FiniteSets

CONSTANTS
    Hashes,        \* the info hashes that may be added
    MaxGen,        \* bound: generations ever reserved
    MaxLoaded,     \* TORRENT_REGISTRY_LIMITS.loadedTorrents
    MaxEntries,    \* TORRENT_REGISTRY_LIMITS.aggregateFileEntries
    FileCount      \* the files of each torrent

ASSUME HashesAssumption == IsFiniteSet(Hashes)
ASSUME RegistryBounds == MaxGen \in Nat /\ MaxLoaded \in Nat /\ MaxEntries \in Nat
ASSUME FileCountAssumption == FileCount \in [Hashes -> Nat]

VARIABLES
    records,       \* #records: the record of each hash, or NoRecord
    fileEntries    \* #fileEntryCount

registryVars == <<records, fileEntries>>

Gens == 1..MaxGen
NoRecord == [state |-> "none", gen |-> 0]
Records == [state : {"reserved", "committed", "tombstoned"}, gen : Gens] \cup {NoRecord}

Loaded == {h \in Hashes : records[h] # NoRecord}

\* The files of some torrents, counted one by one.
FilesOf(some) == Cardinality(UNION {{h} \X (1..FileCount[h]) : h \in some})

RegistryInit ==
    /\ records = [h \in Hashes |-> NoRecord]
    /\ fileEntries = 0

-----------------------------------------------------------------------------

\* Duplicate, too many torrents, or too many files: the add is refused.
CanReserve(h) ==
    /\ records[h] = NoRecord
    /\ Cardinality(Loaded) < MaxLoaded
    /\ fileEntries + FileCount[h] <= MaxEntries

Reserve(h, g) ==
    /\ CanReserve(h)
    /\ records' = [records EXCEPT ![h] = [state |-> "reserved", gen |-> g]]
    /\ fileEntries' = fileEntries + FileCount[h]

Commit(h, g) ==
    /\ records[h] = [state |-> "reserved", gen |-> g]
    /\ records' = [records EXCEPT ![h].state = "committed"]
    /\ UNCHANGED fileEntries

\* Mutant: the files are given back twice and the count is not clamped.
RemoveRecordTwice(h) ==
    /\ records' = [records EXCEPT ![h] = NoRecord]
    /\ fileEntries' = fileEntries - 2 * FileCount[h]

RemoveRecord(h) ==
    /\ records' = [records EXCEPT ![h] = NoRecord]
    /\ fileEntries' = IF fileEntries < FileCount[h] THEN 0 ELSE fileEntries - FileCount[h]

Rollback(h, g) ==
    /\ records[h] = [state |-> "reserved", gen |-> g]
    /\ RemoveRecord(h)

\* The hash stays unavailable until Release.
BeginTeardown(h) ==
    /\ records[h] # NoRecord /\ records[h].state # "reserved"
    /\ records' = [records EXCEPT ![h].state = "tombstoned"]
    /\ UNCHANGED fileEntries

\* Idempotent: a hash that has no record stays without one.
Release(h) ==
    \/ /\ records[h] = NoRecord
       /\ UNCHANGED registryVars
    \/ /\ records[h].state = "tombstoned"
       /\ RemoveRecord(h)

Admits(h, g) == records[h] = [state |-> "committed", gen |-> g]

=============================================================================
