--------------------------- MODULE StagingClientPool ---------------------------
(***************************************************************************)
(* The staging clients (staging-client.ts): one disposable WebTorrent      *)
(* client for each acquisition, a bounded number of them at a time, each   *)
(* destroyed by its lease or by close().  A client whose destruction is    *)
(* not confirmed makes the pool unhealthy and keeps its place in it.       *)
(***************************************************************************)
EXTENDS Naturals, FiniteSets

CONSTANTS
    Acquisitions,  \* the acquisitions of metadata
    MaxClients     \* clients that may exist at once, 2 in the code

ASSUME PoolAssumption == MaxClients \in Nat \ {0}

VARIABLES
    client,        \* acquisition -> its client
    leased,        \* #active: the acquisitions whose client has a place
    poolClosed,    \* #closed
    poolUnhealthy  \* #unhealthy

poolVars == <<client, leased, poolClosed, poolUnhealthy>>

\* "spawning" until it listens and its inbound side is shut, "aborting" when it
\* did not; "destroying" between destroy() and its callback, "overdue" (for an
\* aborted one "abandoned") when the callback is later than its timeout, "late"
\* when it came after that.  A "broken" client was destroyed by an error of its
\* own, or its destruction failed.
Clients == {"none", "spawning", "aborting", "up", "destroying", "overdue",
            "abandoned", "late", "broken", "gone"}

\* No callback has said that the client is gone.
ClientExists(a) == client[a] \notin {"none", "late", "gone"}

PoolTypeOK ==
    /\ client \in [Acquisitions -> Clients]
    /\ leased \in SUBSET Acquisitions
    /\ poolClosed \in BOOLEAN /\ poolUnhealthy \in BOOLEAN

PoolInit ==
    /\ client = [a \in Acquisitions |-> "none"]
    /\ leased = {}
    /\ poolClosed = FALSE /\ poolUnhealthy = FALSE

MayLease == ~poolClosed /\ ~poolUnhealthy /\ Cardinality(leased) < MaxClients

Spawn(a) ==
    /\ client' = [client EXCEPT ![a] = "spawning"]
    /\ leased' = leased \cup {a}
    /\ UNCHANGED <<poolClosed, poolUnhealthy>>

\* The client listens and its inbound side is shut: its acquisition keeps it, or
\* it is released at once.
Listening(a, kept) ==
    /\ client[a] = "spawning"
    /\ client' = [client EXCEPT ![a] = IF kept THEN "up" ELSE "destroying"]
    /\ UNCHANGED <<leased, poolClosed, poolUnhealthy>>

\* It does not listen in time, or its inbound side cannot be shut.
SpawnFails(a) ==
    /\ client[a] = "spawning"
    /\ client' = [client EXCEPT ![a] = "aborting"]
    /\ UNCHANGED <<leased, poolClosed, poolUnhealthy>>

\* An error of the client destroys it and its torrent.
ClientFails(a) ==
    /\ client[a] = "up"
    /\ client' = [client EXCEPT ![a] = "broken"]
    /\ UNCHANGED <<leased, poolClosed, poolUnhealthy>>

\* A lease's release(): what it awaits, and destroy() the first time.
ReleaseAnswer(a) ==
    CASE client[a] \in {"up", "destroying"} -> "waits"
      [] client[a] = "gone" -> "released"
      [] OTHER -> "fails"

ReleaseClient(a) ==
    /\ client' = IF client[a] = "up" THEN [client EXCEPT ![a] = "destroying"] ELSE client
    /\ poolUnhealthy' = (poolUnhealthy \/ client[a] = "broken")
    /\ UNCHANGED <<leased, poolClosed>>

\* The destroy callback in time or with an error, or the end of its time.  A
\* client that failed to spawn gives its place back only in a healthy pool.
DestroyEnds(a) ==
    /\ client[a] \in {"aborting", "destroying"}
    /\ \E end \in {"gone", "broken",
                   IF client[a] = "aborting" THEN "abandoned" ELSE "overdue"} :
         /\ client' = [client EXCEPT ![a] = end]
         /\ poolUnhealthy' = (poolUnhealthy \/ end # "gone")
         /\ leased' = IF end = "gone" /\ (client[a] = "destroying" \/ ~poolUnhealthy)
                      THEN leased \ {a} ELSE leased
    /\ UNCHANGED poolClosed

\* The callback after its time: a lease's client leaves the pool.
DestroyLate(a) ==
    /\ client[a] \in {"overdue", "abandoned"}
    /\ client' = [client EXCEPT ![a] = "late"]
    /\ leased' = IF client[a] = "overdue" THEN leased \ {a} ELSE leased
    /\ UNCHANGED <<poolClosed, poolUnhealthy>>

\* close(): every client is destroyed, whoever has it.
PoolClose ==
    /\ poolClosed' = TRUE
    /\ client' = [a \in Acquisitions |->
                    IF client[a] = "up" THEN "destroying" ELSE client[a]]
    /\ poolUnhealthy' = (poolUnhealthy \/ \E a \in leased : client[a] = "broken")
    /\ UNCHANGED leased

===============================================================================
