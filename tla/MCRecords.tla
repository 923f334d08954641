------------------------------ MODULE MCRecords ------------------------------
(* Small instances of the two keepers of records: main's library of the     *)
(* torrents the engine has, and the engine runtime's preparations and       *)
(* acquisitions, two of one torrent and one of another, of different sizes. *)
(* They share no state: one of them, the subject, takes every step of a     *)
(* behaviour, and the states add up instead of multiplying.                 *)
EXTENDS EngineRuntime, TorrentLibrary, TLC

CONSTANTS
    Subjects,      \* those that take steps: "library", "runtime"
    p1, p2, p3

VARIABLE subject

allVars == <<subject, vars, libraryVars>>

\* The runtime's preparations.
TwoTorrents == (p1 :> "a" @@ p2 :> "a" @@ p3 :> "b")
OneAndTwo == (p1 :> 1 @@ p2 :> 2 @@ p3 :> 2)
OneFile == [p \in {p1, p2, p3} |-> IF p = p2 THEN {0} ELSE {}]
LastTwo == {p2, p3}

RecordsInit == subject \in Subjects /\ Init /\ LibraryInit

RecordsNext ==
    /\ UNCHANGED subject
    /\ \/ subject = "library" /\ LibraryNext /\ UNCHANGED vars
       \/ subject = "runtime" /\ Next /\ UNCHANGED libraryVars

\* What is not the subject stays in its initial state, in which nothing that
\* fairness asks for is enabled.
RecordsSpec ==
    RecordsInit /\ [][RecordsNext]_allVars /\ Fairness /\ LibraryFairness

==============================================================================
