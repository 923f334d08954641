------------------------------ MODULE MCTorrents ------------------------------
(* Small instances of the torrents: the owned ones of the TorrentManager,   *)
(* the staging ones of metadata acquisitions, and one private torrent's     *)
(* chain of trackers.  They share no state: one of them, the subject, takes *)
(* every step of a behaviour, and the states add up instead of multiplying. *)
EXTENDS TorrentManager, MetadataAcquisition, PrivateTrackerChain

CONSTANTS
    Subjects,      \* those that take steps: "owned", "staging", "private"
    h1, h2, a1, a2

VARIABLE subject

allVars == <<subject, vars, acquisitionVars, privateVars>>

\* One file each, or one torrent with twice as many files as the others.
OneHash == {h1}
TwoHashes == {h1, h2}
OneFile == [h \in Hashes |-> 1]
Uneven == [h \in Hashes |-> IF h = h1 THEN 2 ELSE 1]

\* A magnet with two trackers, and one that names none.
TwoAcquisitions == {a1, a2}
TwoAndNone == [a \in TwoAcquisitions |-> IF a = a1 THEN 2 ELSE 0]

TorrentsInit ==
    /\ subject \in Subjects
    /\ Init /\ AcquisitionInit /\ PrivateInit

TorrentsNext ==
    /\ UNCHANGED subject
    /\ \/ /\ subject = "owned" /\ Next
          /\ UNCHANGED <<acquisitionVars, privateVars>>
       \/ /\ subject = "staging" /\ AcquisitionNext
          /\ UNCHANGED <<vars, privateVars>>
       \/ /\ subject = "private" /\ PrivateNext
          /\ UNCHANGED <<vars, acquisitionVars>>

TorrentsSpec == TorrentsInit /\ [][TorrentsNext]_allVars

\* What is not the subject stays in its initial state, in which nothing that
\* fairness asks for is enabled.
TorrentsFairSpec ==
    TorrentsSpec /\ Fairness /\ AcquisitionFairness /\ PrivateFairness

===============================================================================
