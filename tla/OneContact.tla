------------------------------ MODULE OneContact ------------------------------
(***************************************************************************)
(* What a tracker chain promises a torrent that must not tell more than    *)
(* one tracker who and where it is: a tracker is contacted only when the   *)
(* one before it has been left, and none once the chain has been closed.   *)
(***************************************************************************)
CONSTANT Contacts      \* what the chain contacts trackers with

VARIABLES
    contact,           \* those that still speak to their tracker: requests or sockets
    open               \* the chain has not been closed

vars == <<contact, open>>

Init == contact = {} /\ open = TRUE

Begin(c) ==
    /\ open /\ contact = {}
    /\ contact' = {c}
    /\ UNCHANGED open

Leave(c) ==
    /\ c \in contact
    /\ contact' = contact \ {c}
    /\ UNCHANGED open

Close ==
    /\ open' = FALSE
    /\ UNCHANGED contact

Next ==
    \/ \E c \in Contacts : Begin(c) \/ Leave(c)
    \/ Close

Spec == Init /\ [][Next]_vars

===============================================================================
