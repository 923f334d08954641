-------------------------- MODULE MetadataAcquisition --------------------------
(***************************************************************************)
(* The acquisition of a magnet's metadata (metadata-acquisition.ts, and    *)
(* the discovery the engine gives it): a slot, a staging client, a torrent *)
(* and a tracker chain, taken in that order and given up in the opposite   *)
(* one, whatever ends the acquisition first.                               *)
(*                                                                         *)
(* The engine exits soon after an acquisition becomes unhealthy.  The      *)
(* model goes on, which covers every moment at which it may exit.          *)
(***************************************************************************)
EXTENDS StagingTrackerChain

CONSTANT MaxConcurrent   \* acquisitions at once, 2 in the code

ASSUME AcquisitionAssumption == MaxConcurrent \in Nat \ {0}

VARIABLES
    pc,          \* acquisition -> where acquire() is
    torrent,     \* acquisition -> its staging torrent
    outcome,     \* acquisition -> what acquire() answers, or is about to
    slots,       \* the acquisitions #active counts
    deferred,    \* those whose slot waits for a late teardown
    aborted,     \* those whose signal was aborted before they had a client
    unhealthy    \* #unhealthy

acqVars == <<pc, torrent, outcome, slots, deferred, aborted, unhealthy>>
acquisitionVars == <<chain, poolVars, acqVars>>

\* As a client's; "taken" is destroyed, but not by the acquisition.
StagingTorrents == {"none", "up", "destroying", "overdue", "late", "failed", "gone", "taken"}

AcquisitionTypeOK ==
    /\ ChainTypeOK /\ PoolTypeOK
    /\ pc \in [Acquisitions -> {"idle", "leasing", "running", "stopping",
                                "destroying", "releasing", "ended"}]
    /\ torrent \in [Acquisitions -> StagingTorrents]
    /\ outcome \in [Acquisitions -> {"none", "metadata", "error", "teardown"}]
    /\ slots \in SUBSET Acquisitions /\ deferred \in SUBSET slots
    /\ aborted \in SUBSET Acquisitions
    /\ unhealthy \in BOOLEAN

AcquisitionInit ==
    /\ ChainInit /\ PoolInit
    /\ pc = [a \in Acquisitions |-> "idle"]
    /\ torrent = [a \in Acquisitions |-> "none"]
    /\ outcome = [a \in Acquisitions |-> "none"]
    /\ slots = {} /\ deferred = {} /\ aborted = {}
    /\ unhealthy = FALSE

-------------------------------------------------------------------------------
(* The end of an acquisition, and of its slot.                             *)

\* acquire() goes on to "place" and will answer "result".
Goes(a, place, result) ==
    /\ pc' = [pc EXCEPT ![a] = place]
    /\ outcome' = [outcome EXCEPT ![a] = result]

\* acquire() settles and its slot is free.
Ends(a, result) ==
    /\ Goes(a, "ended", result)
    /\ slots' = slots \ {a}
    /\ UNCHANGED <<deferred, unhealthy>>

\* Mutant: the finally block frees the slot whatever was deferred.
FailsFreed(a, waits) ==
    /\ Goes(a, "ended", "teardown")
    /\ slots' = slots \ {a}
    /\ UNCHANGED deferred
    /\ unhealthy' = TRUE

\* A teardown that is not confirmed: TEARDOWN_FAILED and markUnhealthy.  The slot
\* is kept, until a callback that may still come or for ever.
Fails(a, waits) ==
    /\ Goes(a, "ended", "teardown")
    /\ slots' = slots \cup {a}
    /\ deferred' = IF waits THEN deferred \cup {a} ELSE deferred
    /\ unhealthy' = TRUE

\* await lease.release().
Releases(a, result) ==
    /\ ReleaseClient(a)
    /\ CASE ReleaseAnswer(a) = "waits" -> /\ Goes(a, "releasing", result)
                                          /\ UNCHANGED <<slots, deferred, unhealthy>>
         [] ReleaseAnswer(a) = "released" -> Ends(a, result)
         [] ReleaseAnswer(a) = "fails" -> Fails(a, FALSE)

-------------------------------------------------------------------------------
(* From the call to the torrent.                                           *)

Refused(a) ==
    poolClosed \/ unhealthy \/ a \in aborted \/ Cardinality(slots) >= MaxConcurrent

\* acquire(), and lease() as far as the spawn of the client, which may throw.
Acquire(a) ==
    /\ pc[a] = "idle"
    /\ \/ /\ ~Refused(a) /\ MayLease
          /\ Spawn(a)
          /\ Goes(a, "leasing", "none")
          /\ slots' = slots \cup {a}
          /\ UNCHANGED <<deferred, unhealthy>>
       \/ /\ ~Refused(a) => ~poolUnhealthy
          /\ Ends(a, IF unhealthy THEN "teardown" ELSE "error")
          /\ UNCHANGED poolVars
       \/ /\ ~Refused(a) /\ poolUnhealthy
          /\ Fails(a, FALSE)
          /\ UNCHANGED poolVars
    /\ UNCHANGED <<chain, torrent, aborted>>

\* The lease has come, or the pool has been closed.  An aborted acquisition gives
\* it back, as does one whose torrent cannot be added; any other has a torrent,
\* and a discovery unless discover() throws.
ClientListens(a) ==
    /\ \/ /\ Listening(a, FALSE)
          /\ IF poolClosed THEN Goes(a, "leasing", "none") ELSE Goes(a, "releasing", "error")
          /\ UNCHANGED <<torrent, chain>>
       \/ /\ ~poolClosed /\ a \notin aborted
          /\ Listening(a, TRUE)
          /\ torrent' = [torrent EXCEPT ![a] = "up"]
          /\ \/ Goes(a, "running", "none") /\ chain' = [chain EXCEPT ![a] = Started(a)]
             \/ Goes(a, "stopping", "error") /\ UNCHANGED chain
    /\ UNCHANGED <<slots, deferred, aborted, unhealthy>>

ClientDoesNotListen(a) ==
    /\ SpawnFails(a)
    /\ UNCHANGED <<chain, acqVars>>

-------------------------------------------------------------------------------
(* What ends the wait for the metadata.                                    *)

\* finish(), the first time: discovery is frozen in the same step.
Finishes(a, result) ==
    /\ Goes(a, "stopping", result)
    /\ chain' = [chain EXCEPT ![a] = Frozen(@)]
    /\ UNCHANGED <<slots, deferred, unhealthy>>

\* The timer; the failure of a DHT activation ends the wait alike.
TimesOut(a) ==
    /\ pc[a] = "running"
    /\ Finishes(a, "error")
    /\ UNCHANGED <<torrent, aborted, poolVars>>

\* The chain's ready has been rejected.
DiscoveryFails(a) ==
    /\ pc[a] = "running" /\ chain[a].ready = "rejected"
    /\ Finishes(a, "error")
    /\ UNCHANGED <<torrent, aborted, poolVars>>

\* An error of the torrent has destroyed it.
TorrentFails(a) ==
    /\ pc[a] \in {"running", "stopping"} /\ torrent[a] = "up"
    /\ torrent' = [torrent EXCEPT ![a] = "taken"]
    /\ IF pc[a] = "running" THEN Finishes(a, "error")
       ELSE UNCHANGED <<chain, pc, outcome, slots, deferred, unhealthy>>
    /\ UNCHANGED <<aborted, poolVars>>

\* The caller's signal.
Abort(a) ==
    /\ \/ /\ pc[a] = "running"
          /\ Finishes(a, "error")
          /\ UNCHANGED aborted
       \/ /\ pc[a] \in {"idle", "leasing"}
          /\ aborted' = aborted \cup {a}
          /\ UNCHANGED <<chain, pc, outcome, slots, deferred, unhealthy>>
    /\ UNCHANGED <<torrent, poolVars>>

\* The metadata handler: admission is closed and the torrent destroyed before
\* WebTorrent goes on, and what the acquisition answers is settled, unless
\* something else has ended it or does before the torrent is gone.
MetadataArrives(a) ==
    /\ pc[a] \in {"running", "stopping"} /\ torrent[a] = "up"
    /\ chain' = [chain EXCEPT ![a] = Frozen(@)]
    /\ torrent' = [torrent EXCEPT ![a] = "destroying"]
    /\ IF pc[a] = "running"
       THEN \E found \in {"metadata", "error"} : Goes(a, "running", found)
       ELSE UNCHANGED <<pc, outcome>>
    /\ UNCHANGED <<slots, deferred, aborted, unhealthy, poolVars>>

-------------------------------------------------------------------------------
(* The teardown: discovery, the torrent, the client.                       *)

\* discovery.stop() has settled.
Stopped(a) == chain[a].at \in {"idle", "done"}

\* Discovery has stopped: the torrent is next, or has been destroyed.
Teardown(a) ==
    /\ pc[a] = "stopping" /\ Stopped(a)
    /\ \/ /\ torrent[a] \in {"up", "destroying"}
          /\ torrent' = [torrent EXCEPT ![a] = "destroying"]
          /\ Goes(a, "destroying", outcome[a])
          /\ UNCHANGED <<slots, deferred, unhealthy, poolVars>>
       \/ torrent[a] = "gone" /\ Releases(a, outcome[a]) /\ UNCHANGED torrent
       \/ /\ torrent[a] \in {"overdue", "late", "failed", "taken"}
          /\ Fails(a, torrent[a] \in {"overdue", "late"})
          /\ UNCHANGED <<torrent, poolVars>>
    /\ UNCHANGED <<chain, aborted>>

\* The torrent's destroy callback, in time or with an error (a destroy() that
\* throws is one), or the end of its time.
TorrentDestroyed(a) ==
    /\ torrent[a] = "destroying"
    /\ \E end \in {"gone", "failed", "overdue"} :
         /\ torrent' = [torrent EXCEPT ![a] = end]
         /\ CASE pc[a] = "running" -> /\ Finishes(a, IF end = "gone" THEN outcome[a]
                                                     ELSE "teardown")
                                      /\ UNCHANGED poolVars
              [] pc[a] = "stopping" -> UNCHANGED <<chain, poolVars, pc, outcome, slots,
                                                   deferred, unhealthy>>
              [] pc[a] = "destroying" -> /\ IF end = "gone" THEN Releases(a, outcome[a])
                                            ELSE Fails(a, end = "overdue") /\ UNCHANGED poolVars
                                         /\ UNCHANGED chain
    /\ UNCHANGED aborted

\* The callback after its time.
TorrentDestroyedLate(a) ==
    /\ torrent[a] = "overdue"
    /\ \E end \in {"late", "failed"} :
         /\ torrent' = [torrent EXCEPT ![a] = end]
         /\ deferred' = IF end = "failed" THEN deferred \ {a} ELSE deferred
    /\ UNCHANGED <<chain, poolVars, pc, outcome, slots, aborted, unhealthy>>

\* The deferred slot of a late torrent: its client goes before it is freed.
ReleasesDeferred(a) ==
    /\ a \in deferred /\ torrent[a] = "late" /\ client[a] # "destroying"
    /\ ReleaseClient(a)
    /\ deferred' = IF ReleaseAnswer(a) = "waits" THEN deferred ELSE deferred \ {a}
    /\ slots' = IF ReleaseAnswer(a) = "released" THEN slots \ {a} ELSE slots
    /\ UNCHANGED <<chain, pc, torrent, outcome, aborted, unhealthy>>

\* The client's destroy callback, or the end of its time, for whoever awaits it.
ClientDestroyed(a) ==
    /\ DestroyEnds(a)
    /\ IF pc[a] \in {"leasing", "releasing"}
       THEN \/ /\ client'[a] = "gone"
               /\ Ends(a, IF pc[a] = "leasing" THEN "error" ELSE outcome[a])
            \/ client'[a] # "gone" /\ Fails(a, FALSE)
       ELSE /\ deferred' = IF torrent[a] = "late" THEN deferred \ {a} ELSE deferred
            /\ slots' = IF a \in deferred /\ torrent[a] = "late" /\ client'[a] = "gone"
                        THEN slots \ {a} ELSE slots
            /\ UNCHANGED <<pc, outcome, unhealthy>>
    /\ UNCHANGED <<chain, torrent, aborted>>

ClientDestroyedLate(a) ==
    /\ DestroyLate(a)
    /\ UNCHANGED <<chain, acqVars>>

\* A client's error destroys its torrent with it.
Taken(as) ==
    torrent' = [a \in Acquisitions |->
                  IF a \in as /\ torrent[a] = "up" THEN "taken" ELSE torrent[a]]

ClientError(a) ==
    /\ ClientFails(a)
    /\ Taken({a})
    /\ UNCHANGED <<chain, pc, outcome, slots, deferred, aborted, unhealthy>>

-------------------------------------------------------------------------------

\* close() aborts the signal of every acquisition under way.
AbortedByClose == {a \in Acquisitions : pc[a] = "leasing"}

\* The engine's shutdown closes the acquisitions, aborting each, and then the pool
\* in one step; an acquisition that expired is not awaited before it.
ShutdownAcquisitions ==
    /\ ~poolClosed
    /\ PoolClose
    /\ aborted' = aborted \cup AbortedByClose
    /\ pc' = [a \in Acquisitions |-> IF pc[a] = "running" THEN "stopping" ELSE pc[a]]
    /\ outcome' = [a \in Acquisitions |-> IF pc[a] = "running" THEN "error" ELSE outcome[a]]
    /\ chain' = [a \in Acquisitions |->
                   IF pc[a] = "running" THEN Frozen(chain[a]) ELSE chain[a]]
    /\ Taken(Acquisitions)
    /\ UNCHANGED <<slots, deferred, unhealthy>>

\* What an endpoint does of its own accord.
EndpointAnswers(a) ==
    /\ Activated(a) \/ EndpointFailed(a)
    /\ UNCHANGED <<poolVars, acqVars>>

\* What the chain's loop does about it.
ChainRuns(a) ==
    /\ ClosedSeen(a) \/ AttemptStopped(a) \/ Continues(a)
    /\ UNCHANGED <<poolVars, acqVars>>

\* What timers and the end of awaited work bring about in any case.
Bounded(a) ==
    \/ ClientListens(a) \/ ClientDoesNotListen(a) \/ ClientDestroyed(a)
    \/ TimesOut(a) \/ DiscoveryFails(a) \/ ChainRuns(a)
    \/ Teardown(a) \/ TorrentDestroyed(a) \/ ReleasesDeferred(a)

AcquisitionNext ==
    \/ \E a \in Acquisitions :
         \/ Acquire(a) \/ Abort(a) \/ MetadataArrives(a) \/ TorrentFails(a) \/ ClientError(a)
         \/ TorrentDestroyedLate(a) \/ ClientDestroyedLate(a) \/ EndpointAnswers(a)
         \/ Bounded(a)
    \/ ShutdownAcquisitions

AcquisitionSpec == AcquisitionInit /\ [][AcquisitionNext]_acquisitionVars

\* Timers end every wait for the client, the metadata and the torrent; attempts
\* notice a freeze and settle their stop().  An acquisition never takes one of
\* these steps twice from the same state, so fairness to all of them is fairness
\* to each.
AcquisitionFairness == \A a \in Acquisitions : WF_acquisitionVars(Bounded(a))

AcquisitionFairSpec == AcquisitionSpec /\ AcquisitionFairness

-------------------------------------------------------------------------------

\* Each chain contacts one tracker at a time, the next only when every trace of
\* the one before it is gone, and none once its acquisition has been frozen.
Contact(a) == INSTANCE OneContact WITH
    Contacts <- 1..Endpoints[a],
    contact <- Held(a),
    open <- ~chain[a].closed

OneTrackerAtATime ==
    [][\A a \in Acquisitions : [Contact(a)!Next]_(Contact(a)!vars)]_chain

\* Whatever of an acquisition may still run (its client, its torrent, its chain)
\* is counted: it holds one of the few slots, and in a healthy pool the pool's
\* places are those of acquisitions that hold one.
AtWork(a) ==
    \/ ClientExists(a)
    \/ torrent[a] \in {"up", "destroying", "overdue"}
    \/ ~Stopped(a)

WorkHoldsSlots ==
    /\ \A a \in Acquisitions : AtWork(a) => a \in slots
    /\ Cardinality(slots) <= MaxConcurrent \/ unhealthy
    /\ poolUnhealthy \/ leased \subseteq slots

\* From the moment the acquisition destroys its torrent, no attempt hands it
\* another peer.
FrozenBeforeDestroyed ==
    \A a \in Acquisitions :
       torrent[a] \in {"destroying", "overdue", "late", "failed", "gone"}
          => ~chain[a].admitting

\* Every acquisition answers, and its slot comes back unless its teardown failed.
EveryAcquisitionSettles ==
    \A a \in Acquisitions :
       a \in slots ~> pc[a] = "ended" /\ (a \notin slots \/ unhealthy)

\* Nothing of an acquisition runs uncounted or goes on taking peers, however
\* late, failed or missing its destroy callbacks are.
TeardownIsComplete == AcquisitionTypeOK /\ WorkHoldsSlots /\ FrozenBeforeDestroyed

\* Each acquisition contacts its trackers one by one, and ends.
AcquisitionsRunTheirCourse == OneTrackerAtATime /\ EveryAcquisitionSettles

===============================================================================
