-------------------------- MODULE TrackerChainProofs ---------------------------
(***************************************************************************)
(* Theorems about the owners of a chain of trackers: MetadataAcquisition,  *)
(* for any acquisitions, trackers and limits, and PrivateTrackerChain, for *)
(* any number of endpoints and of members that still exist.                *)
(***************************************************************************)
EXTENDS MetadataAcquisition, PrivateTrackerChain, FiniteSetTheorems, TLAPS

(* ------------------------ the acquisition of metadata ----------------------- *)

\* An acquisition has nothing before its client, then a client only, then a torrent
\* and a discovery as well, which are gone or given up in the opposite order.
Staged(a) ==
    /\ pc[a] = "idle" => /\ client[a] = "none" /\ torrent[a] = "none" /\ chain[a] = NoChain
                         /\ a \notin slots /\ a \notin leased
    /\ pc[a] = "leasing" => /\ client[a] \in {"spawning", "aborting", "destroying"}
                            /\ torrent[a] = "none" /\ chain[a] = NoChain
    /\ pc[a] = "running" => torrent[a] \in {"up", "destroying", "taken"}
    /\ pc[a] = "stopping" => torrent[a] # "none"
    /\ pc[a] = "destroying" => torrent[a] = "destroying" /\ Stopped(a)
    /\ pc[a] = "releasing" => /\ torrent[a] \in {"none", "gone"} /\ Stopped(a)
                              /\ client[a] = "destroying"
    /\ pc[a] = "ended" => torrent[a] \notin {"up", "destroying"} /\ Stopped(a)
    /\ client[a] \in {"spawning", "aborting"} => pc[a] = "leasing"

\* An acquisition that has given its slot back has nothing that may still run.
Slotted(a) ==
    /\ pc[a] \notin {"idle", "ended"} => a \in slots
    /\ pc[a] = "ended" /\ a \notin slots => /\ client[a] \in {"none", "gone"}
                                            /\ torrent[a] \in {"none", "gone", "late"}
    /\ a \in deferred => pc[a] = "ended" /\ a \in slots

\* A healthy pool's place is given up with the client, before the slot.
Pooled(a) ==
    /\ client[a] = "gone" => a \notin leased \/ poolUnhealthy
    /\ a \in leased => a \in slots \/ poolUnhealthy

\* Only a chain that is open and trying takes peers, and a torrent is destroyed
\* when its chain can try no more.
Chained(a) ==
    /\ chain[a].admitting => chain[a].at = "trying" /\ ~chain[a].closed
    /\ chain[a].at # "idle" => chain[a].endpoint \in 1..Endpoints[a]
    /\ torrent[a] \in {"destroying", "overdue", "late", "failed", "gone"}
          => chain[a].closed \/ Stopped(a)

Sound(a) == Staged(a) /\ Slotted(a) /\ Pooled(a) /\ Chained(a)

\* The slots are few while every teardown has been confirmed.
Few == IsFiniteSet(slots) /\ (Cardinality(slots) <= MaxConcurrent \/ unhealthy)

IInv == AcquisitionTypeOK /\ Few /\ \A a \in Acquisitions : Sound(a)

USE StagingAssumption, PoolAssumption, AcquisitionAssumption

-----------------------------------------------------------------------------
(* What a step leaves of the acquisitions it is not about.                 *)

Same(q) ==
    /\ pc'[q] = pc[q] /\ torrent'[q] = torrent[q]
    /\ client'[q] = client[q] /\ chain'[q] = chain[q]
    /\ q \in slots' <=> q \in slots
    /\ q \in leased' <=> q \in leased
    /\ q \in deferred' <=> q \in deferred

LEMMA SameSound ==
    ASSUME NEW q \in Acquisitions, Sound(q), Same(q), poolUnhealthy => poolUnhealthy'
    PROVE  Sound(q)'
<1>1. Staged(q)'
  BY DEF Sound, Staged, Same, Stopped
<1>2. Slotted(q)'
  BY DEF Sound, Slotted, Same
<1>3. Pooled(q)'
  BY DEF Sound, Pooled, Same
<1>4. Chained(q)'
  BY DEF Sound, Chained, Same, Stopped
<1> QED
  BY <1>1, <1>2, <1>3, <1>4 DEF Sound

LEMMA OneAcquisition ==
    ASSUME IInv, NEW a \in Acquisitions, AcquisitionTypeOK', Few', Sound(a)',
           \A q \in Acquisitions : q # a => Same(q),
           poolUnhealthy => poolUnhealthy'
    PROVE  IInv'
<1>1. ASSUME NEW q \in Acquisitions PROVE Sound(q)'
  BY <1>1, SameSound DEF IInv
<1> QED
  BY <1>1 DEF IInv

\* Slots that are given back, or kept by a teardown that failed, leave them few.
LEMMA FewerSlots ==
    ASSUME Few, NEW a, slots' \subseteq slots \/ (slots' = slots \cup {a} /\ unhealthy'),
           unhealthy => unhealthy'
    PROVE  Few'
<1>1. IsFiniteSet(slots) /\ Cardinality(slots) \in Nat
  BY FS_CardinalityType DEF Few
<1>2. CASE slots' \subseteq slots
  <2>1. /\ IsFiniteSet(slots') /\ Cardinality(slots') <= Cardinality(slots)
        /\ Cardinality(slots') \in Nat
    BY <1>1, <1>2, FS_Subset, FS_CardinalityType
  <2> QED
    BY <1>1, <2>1 DEF Few
<1>3. CASE slots' = slots \cup {a} /\ unhealthy'
  BY <1>1, <1>3, FS_AddElement DEF Few
<1> QED
  BY <1>2, <1>3

-----------------------------------------------------------------------------
(* The chain's operators.                                                  *)

LEMMA FrozenChain ==
    ASSUME NEW c \in Chains
    PROVE  /\ Frozen(c) \in Chains
           /\ Frozen(c).at = c.at /\ Frozen(c).endpoint = c.endpoint
           /\ Frozen(c).closed = TRUE /\ Frozen(c).admitting = FALSE
<1>1. /\ Settle(c, "ok") \in Chains
      /\ Settle(c, "ok").at = c.at /\ Settle(c, "ok").endpoint = c.endpoint
  BY DEF Settle, Chains
<1> DEFINE s == Settle(c, "ok")
<1> HIDE DEF s
<1>2. s \in Chains
  BY <1>1 DEF s
<1>3. /\ [s EXCEPT !.closed = TRUE, !.admitting = FALSE] \in Chains
      /\ [s EXCEPT !.closed = TRUE, !.admitting = FALSE].at = s.at
      /\ [s EXCEPT !.closed = TRUE, !.admitting = FALSE].endpoint = s.endpoint
      /\ [s EXCEPT !.closed = TRUE, !.admitting = FALSE].closed = TRUE
      /\ [s EXCEPT !.closed = TRUE, !.admitting = FALSE].admitting = FALSE
  BY <1>2 DEF Chains
<1> QED
  BY <1>1, <1>3 DEF Frozen, s

LEMMA SettledChain ==
    ASSUME NEW c \in Chains, NEW result \in {"ok", "rejected"}
    PROVE  /\ Settle(c, result) \in Chains
           /\ Settle(c, result).at = c.at /\ Settle(c, result).endpoint = c.endpoint
           /\ Settle(c, result).closed = c.closed
           /\ Settle(c, result).admitting = c.admitting
  BY DEF Settle, Chains

LEMMA AttemptChain ==
    ASSUME NEW c \in Chains, NEW e \in Nat
    PROVE  /\ Attempt(c, e) \in Chains
           /\ Attempt(c, e).at = "trying" /\ Attempt(c, e).endpoint = e
           /\ Attempt(c, e).closed = c.closed /\ Attempt(c, e).admitting = TRUE
  BY DEF Attempt, Chains

\* A freeze leaves the place and the endpoint, and closes admission.
LEMMA FreezeSound ==
    ASSUME IInv, NEW a \in Acquisitions, chain' = [chain EXCEPT ![a] = Frozen(@)]
    PROVE  /\ ChainTypeOK'
           /\ chain'[a].at = chain[a].at /\ chain'[a].endpoint = chain[a].endpoint
           /\ chain'[a].closed /\ ~chain'[a].admitting
           /\ \A q \in Acquisitions : q # a => chain'[q] = chain[q]
           /\ Chained(a)'
<1>1. chain \in [Acquisitions -> Chains] /\ chain[a] \in Chains
  BY DEF IInv, AcquisitionTypeOK, ChainTypeOK
<1>2. /\ Frozen(chain[a]) \in Chains
      /\ Frozen(chain[a]).at = chain[a].at /\ Frozen(chain[a]).endpoint = chain[a].endpoint
      /\ Frozen(chain[a]).closed = TRUE /\ Frozen(chain[a]).admitting = FALSE
  BY <1>1, FrozenChain
<1>3. chain'[a] = Frozen(chain[a]) /\ \A q \in Acquisitions : q # a => chain'[q] = chain[q]
  BY <1>1
<1>4. ChainTypeOK'
  <2>1. \A q \in Acquisitions : chain[q].endpoint <= Endpoints[q]
    BY DEF IInv, AcquisitionTypeOK, ChainTypeOK
  <2> QED
    BY <1>1, <1>2, <1>3, <2>1 DEF ChainTypeOK
<1>5. Chained(a)'
  BY <1>2, <1>3 DEF IInv, Sound, Chained, Stopped
<1> QED
  BY <1>2, <1>3, <1>4, <1>5

-----------------------------------------------------------------------------
(* What acquire() does when it goes on or settles.                         *)

Places == {"idle", "leasing", "running", "stopping", "destroying", "releasing", "ended"}
Answers == {"none", "metadata", "error", "teardown"}

LEMMA GoesOn ==
    ASSUME IInv, NEW a \in Acquisitions, NEW place \in Places, NEW result \in Answers,
           Goes(a, place, result)
    PROVE  /\ pc' \in [Acquisitions -> Places] /\ outcome' \in [Acquisitions -> Answers]
           /\ pc'[a] = place /\ \A q \in Acquisitions : q # a => pc'[q] = pc[q]
  BY DEF IInv, AcquisitionTypeOK, Goes, Places, Answers

\* The slot is given back, ...
LEMMA EndsSound ==
    ASSUME IInv, NEW a \in Acquisitions, NEW result \in Answers, Ends(a, result),
           pc[a] # "ended"
    PROVE  /\ pc' \in [Acquisitions -> Places] /\ outcome' \in [Acquisitions -> Answers]
           /\ pc'[a] = "ended" /\ slots' = slots \ {a}
           /\ deferred' = deferred /\ deferred' \in SUBSET slots' /\ unhealthy' = unhealthy
           /\ slots' \in SUBSET Acquisitions
           /\ \A q \in Acquisitions : q # a => pc'[q] = pc[q] /\ (q \in slots' <=> q \in slots)
           /\ a \notin deferred /\ Few'
<1>1. Goes(a, "ended", result) /\ slots' = slots \ {a} /\ UNCHANGED <<deferred, unhealthy>>
  BY DEF Ends
<1>2. /\ pc' \in [Acquisitions -> Places] /\ outcome' \in [Acquisitions -> Answers]
      /\ pc'[a] = "ended" /\ \A q \in Acquisitions : q # a => pc'[q] = pc[q]
  BY <1>1, GoesOn DEF Places
<1>3. a \notin deferred
  BY DEF IInv, Sound, Slotted
<1>4. Few'
  BY <1>1, FewerSlots DEF IInv
<1> QED
  BY <1>1, <1>2, <1>3, <1>4 DEF IInv, AcquisitionTypeOK

\* ... or kept by a teardown that nothing has confirmed.
LEMMA FailsSound ==
    ASSUME IInv, NEW a \in Acquisitions, NEW waits \in BOOLEAN, Fails(a, waits)
    PROVE  /\ pc' \in [Acquisitions -> Places] /\ outcome' \in [Acquisitions -> Answers]
           /\ pc'[a] = "ended" /\ slots' = slots \cup {a} /\ unhealthy' = TRUE
           /\ slots' \in SUBSET Acquisitions /\ deferred' \in SUBSET slots'
           /\ deferred' = deferred \/ deferred' = deferred \cup {a}
           /\ \A q \in Acquisitions : q # a => pc'[q] = pc[q] /\ (q \in slots' <=> q \in slots)
           /\ Few'
<1>1. /\ Goes(a, "ended", "teardown") /\ slots' = slots \cup {a} /\ unhealthy' = TRUE
      /\ deferred' = deferred \/ deferred' = deferred \cup {a}
  BY DEF Fails
<1>2. /\ pc' \in [Acquisitions -> Places] /\ outcome' \in [Acquisitions -> Answers]
      /\ pc'[a] = "ended" /\ \A q \in Acquisitions : q # a => pc'[q] = pc[q]
  BY <1>1, GoesOn DEF Places, Answers
<1>3. Few'
  BY <1>1, FewerSlots DEF IInv
<1> QED
  BY <1>1, <1>2, <1>3 DEF IInv, AcquisitionTypeOK

\* Of an acquisition whose torrent is gone, the release leaves at most its client.
LEMMA ReleasesSound ==
    ASSUME IInv, NEW a \in Acquisitions, NEW result \in Answers, Releases(a, result),
           pc[a] \in {"stopping", "destroying"}, Stopped(a),
           chain' = chain, aborted' \in SUBSET Acquisitions,
           torrent' \in [Acquisitions -> StagingTorrents], torrent'[a] = "gone",
           \A q \in Acquisitions : q # a => torrent'[q] = torrent[q]
    PROVE  IInv'
<1>1. /\ client' \in [Acquisitions -> Clients] /\ poolUnhealthy' \in BOOLEAN
      /\ poolUnhealthy => poolUnhealthy'
      /\ \A q \in Acquisitions : q # a => client'[q] = client[q]
      /\ client'[a] = IF client[a] = "up" THEN "destroying" ELSE client[a]
      /\ leased' = leased /\ poolClosed' = poolClosed
  BY DEF IInv, AcquisitionTypeOK, PoolTypeOK, ReleaseClient, Releases, Clients
<1>2. PoolTypeOK' /\ ChainTypeOK'
  BY <1>1 DEF IInv, AcquisitionTypeOK, PoolTypeOK, ChainTypeOK
<1>3. /\ Sound(a) /\ a \in slots /\ client[a] \notin {"spawning", "aborting"} /\ a \notin deferred
      /\ pc[a] # "ended"
  BY DEF IInv, Sound, Slotted, Staged
<1>4. Pooled(a)'
  <2>1. client'[a] = "gone" => client[a] = "gone"
    BY <1>1
  <2>2. client'[a] = "gone" \/ a \in slots' \/ a \notin leased \/ poolUnhealthy
    BY <1>1, <1>3, EndsSound, FailsSound, <2>1 DEF Releases, ReleaseAnswer
  <2> QED
    BY <1>1, <1>3, <2>1, <2>2 DEF Sound, Pooled
<1>5. Chained(a)'
  BY <1>3 DEF Sound, Chained, Stopped
<1>6. Stopped(a)'
  BY DEF Stopped
<1>7. CASE ReleaseAnswer(a) = "waits"
  <2>1. /\ Goes(a, "releasing", result) /\ UNCHANGED <<slots, deferred, unhealthy>>
        /\ client[a] \in {"up", "destroying"}
    BY <1>7 DEF Releases, ReleaseAnswer
  <2>2. /\ pc' \in [Acquisitions -> Places] /\ outcome' \in [Acquisitions -> Answers]
        /\ pc'[a] = "releasing" /\ \A q \in Acquisitions : q # a => pc'[q] = pc[q]
    BY <2>1, GoesOn DEF Places
  <2>3. AcquisitionTypeOK'
    BY <1>2, <2>1, <2>2 DEF IInv, AcquisitionTypeOK, Places, Answers
  <2>4. Few'
    BY <2>1 DEF IInv, Few
  <2>5. Staged(a)' /\ Slotted(a)'
    BY <1>1, <1>3, <1>6, <2>1, <2>2 DEF Staged, Slotted
  <2>6. \A q \in Acquisitions : q # a => Same(q)
    BY <1>1, <2>1, <2>2 DEF Same
  <2> QED
    BY <1>1, <1>4, <1>5, <2>3, <2>4, <2>5, <2>6, OneAcquisition DEF Sound
<1>8. CASE ReleaseAnswer(a) = "released"
  <2>1. Ends(a, result) /\ client[a] = "gone"
    BY <1>8 DEF Releases, ReleaseAnswer
  <2>2. /\ pc' \in [Acquisitions -> Places] /\ outcome' \in [Acquisitions -> Answers]
        /\ pc'[a] = "ended" /\ slots' = slots \ {a}
        /\ deferred' = deferred /\ deferred' \in SUBSET slots' /\ unhealthy' = unhealthy
        /\ slots' \in SUBSET Acquisitions
        /\ \A q \in Acquisitions : q # a => pc'[q] = pc[q] /\ (q \in slots' <=> q \in slots)
        /\ a \notin deferred /\ Few'
    BY <1>3, <2>1, EndsSound
  <2>3. AcquisitionTypeOK'
    BY <1>2, <2>2 DEF IInv, AcquisitionTypeOK, Places, Answers
  <2>4. Staged(a)' /\ Slotted(a)'
    BY <1>1, <1>3, <1>6, <2>1, <2>2 DEF Staged, Slotted
  <2>5. \A q \in Acquisitions : q # a => Same(q)
    BY <1>1, <2>2 DEF Same
  <2> QED
    BY <1>1, <1>4, <1>5, <2>2, <2>3, <2>4, <2>5, OneAcquisition DEF Sound
<1>9. CASE ReleaseAnswer(a) = "fails"
  <2>1. Fails(a, FALSE) /\ client[a] \notin {"up", "destroying", "gone"}
    BY <1>9 DEF Releases, ReleaseAnswer
  <2>2. /\ pc' \in [Acquisitions -> Places] /\ outcome' \in [Acquisitions -> Answers]
        /\ pc'[a] = "ended" /\ slots' = slots \cup {a} /\ unhealthy' = TRUE
        /\ slots' \in SUBSET Acquisitions /\ deferred' \in SUBSET slots'
        /\ \A q \in Acquisitions : q # a => pc'[q] = pc[q] /\ (q \in slots' <=> q \in slots)
        /\ Few'
    BY <2>1, FailsSound
  <2>3. deferred' = deferred
    BY <2>1 DEF Fails
  <2>4. AcquisitionTypeOK'
    BY <1>2, <2>2 DEF IInv, AcquisitionTypeOK, Places, Answers
  <2>5. Staged(a)' /\ Slotted(a)'
    BY <1>1, <1>3, <1>6, <2>1, <2>2, <2>3 DEF Staged, Slotted
  <2>6. \A q \in Acquisitions : q # a => Same(q)
    BY <1>1, <2>2, <2>3 DEF Same
  <2> QED
    BY <1>1, <1>4, <1>5, <2>2, <2>4, <2>5, <2>6, OneAcquisition DEF Sound
<1> QED
  BY <1>7, <1>8, <1>9 DEF ReleaseAnswer

\* A torrent whose destruction is not confirmed keeps its slot.
LEMMA TeardownFails ==
    ASSUME IInv, NEW a \in Acquisitions, NEW waits \in BOOLEAN, Fails(a, waits),
           pc[a] \in {"stopping", "destroying"}, Stopped(a),
           chain' = chain, aborted' \in SUBSET Acquisitions, UNCHANGED poolVars,
           torrent' \in [Acquisitions -> StagingTorrents],
           torrent'[a] \in {"overdue", "late", "failed", "taken"},
           \A q \in Acquisitions : q # a => torrent'[q] = torrent[q]
    PROVE  IInv'
<1>1. /\ pc' \in [Acquisitions -> Places] /\ outcome' \in [Acquisitions -> Answers]
      /\ pc'[a] = "ended" /\ slots' = slots \cup {a} /\ unhealthy' = TRUE
      /\ slots' \in SUBSET Acquisitions /\ deferred' \in SUBSET slots'
      /\ deferred' = deferred \/ deferred' = deferred \cup {a}
      /\ \A q \in Acquisitions : q # a => pc'[q] = pc[q] /\ (q \in slots' <=> q \in slots)
      /\ Few'
  BY FailsSound
<1>2. UNCHANGED <<client, leased, poolClosed, poolUnhealthy>>
  BY DEF poolVars
<1>3. AcquisitionTypeOK'
  BY <1>1, <1>2 DEF IInv, AcquisitionTypeOK, Places, Answers, PoolTypeOK, ChainTypeOK
<1>4. /\ Sound(a) /\ client[a] \notin {"spawning", "aborting"}
      /\ Stopped(a)'
  BY DEF IInv, Sound, Staged, Stopped
<1>5. Staged(a)' /\ Slotted(a)' /\ Pooled(a)' /\ Chained(a)'
  BY <1>1, <1>2, <1>4 DEF Sound, Staged, Slotted, Pooled, Chained
<1>6. \A q \in Acquisitions : q # a => Same(q)
  BY <1>1, <1>2 DEF Same
<1> QED
  BY <1>1, <1>2, <1>3, <1>5, <1>6, OneAcquisition DEF Sound

-----------------------------------------------------------------------------
(* The steps, up to the end of the wait.                                   *)

LEMMA AcquireInv ==
    ASSUME IInv, NEW a \in Acquisitions, Acquire(a)
    PROVE  IInv'
<1>1. /\ pc[a] = "idle" /\ UNCHANGED <<chain, torrent, aborted>>
      /\ client[a] = "none" /\ torrent[a] = "none" /\ chain[a] = NoChain
      /\ a \notin slots /\ a \notin leased /\ Stopped(a)' /\ a \notin deferred
  BY DEF Acquire, IInv, Sound, Staged, Slotted, Stopped, NoChain
<1>2. Chained(a)'
  BY <1>1 DEF Chained, NoChain
<1>3. CASE ~Refused(a) /\ MayLease /\ Spawn(a) /\ Goes(a, "leasing", "none")
           /\ slots' = slots \cup {a} /\ UNCHANGED <<deferred, unhealthy>>
  <2>1. /\ pc' \in [Acquisitions -> Places] /\ outcome' \in [Acquisitions -> Answers]
        /\ pc'[a] = "leasing" /\ \A q \in Acquisitions : q # a => pc'[q] = pc[q]
    BY <1>3, GoesOn DEF Places, Answers
  <2>2. /\ client' \in [Acquisitions -> Clients] /\ client'[a] = "spawning"
        /\ \A q \in Acquisitions : q # a => client'[q] = client[q]
        /\ leased' = leased \cup {a} /\ UNCHANGED <<poolClosed, poolUnhealthy>>
    BY <1>3 DEF Spawn, IInv, AcquisitionTypeOK, PoolTypeOK, Clients
  <2>3. AcquisitionTypeOK'
    BY <1>1, <1>3, <2>1, <2>2 DEF IInv, AcquisitionTypeOK, Places, Answers, PoolTypeOK, ChainTypeOK
  <2>4. Few'
    <3>1. IsFiniteSet(slots) /\ Cardinality(slots) \in Nat
      BY FS_CardinalityType DEF IInv, Few
    <3>2. ~(Cardinality(slots) >= MaxConcurrent)
      BY <1>3 DEF Refused
    <3>3. IsFiniteSet(slots') /\ Cardinality(slots') = Cardinality(slots) + 1
      BY <1>1, <1>3, <3>1, FS_AddElement
    <3> QED
      BY <3>1, <3>2, <3>3 DEF Few
  <2>5. Staged(a)' /\ Slotted(a)' /\ Pooled(a)'
    BY <1>1, <1>3, <2>1, <2>2 DEF Staged, Slotted, Pooled
  <2>6. \A q \in Acquisitions : q # a => Same(q)
    BY <1>1, <1>3, <2>1, <2>2 DEF Same
  <2> QED
    BY <1>2, <2>2, <2>3, <2>4, <2>5, <2>6, OneAcquisition DEF Sound
<1>4. ASSUME NEW result \in Answers, Ends(a, result), UNCHANGED poolVars
      PROVE  IInv'
  <2>1. /\ pc' \in [Acquisitions -> Places] /\ outcome' \in [Acquisitions -> Answers]
        /\ pc'[a] = "ended" /\ slots' = slots \ {a}
        /\ deferred' = deferred /\ deferred' \in SUBSET slots' /\ unhealthy' = unhealthy
        /\ slots' \in SUBSET Acquisitions
        /\ \A q \in Acquisitions : q # a => pc'[q] = pc[q] /\ (q \in slots' <=> q \in slots)
        /\ Few'
    BY <1>1, <1>4, EndsSound
  <2>2. UNCHANGED <<client, leased, poolClosed, poolUnhealthy>>
    BY <1>4 DEF poolVars
  <2>3. AcquisitionTypeOK'
    BY <1>1, <2>1, <2>2 DEF IInv, AcquisitionTypeOK, Places, Answers, PoolTypeOK, ChainTypeOK
  <2>4. Staged(a)' /\ Slotted(a)' /\ Pooled(a)'
    BY <1>1, <2>1, <2>2 DEF Staged, Slotted, Pooled
  <2>5. \A q \in Acquisitions : q # a => Same(q)
    BY <1>1, <2>1, <2>2 DEF Same
  <2> QED
    BY <1>2, <2>1, <2>2, <2>3, <2>4, <2>5, OneAcquisition DEF Sound
<1>5. CASE Fails(a, FALSE) /\ UNCHANGED poolVars
  <2>1. /\ pc' \in [Acquisitions -> Places] /\ outcome' \in [Acquisitions -> Answers]
        /\ pc'[a] = "ended" /\ slots' = slots \cup {a} /\ unhealthy' = TRUE
        /\ slots' \in SUBSET Acquisitions /\ deferred' \in SUBSET slots'
        /\ \A q \in Acquisitions : q # a => pc'[q] = pc[q] /\ (q \in slots' <=> q \in slots)
        /\ Few'
    BY <1>5, FailsSound
  <2>2. UNCHANGED <<client, leased, poolClosed, poolUnhealthy, deferred>>
    BY <1>5 DEF poolVars, Fails
  <2>3. AcquisitionTypeOK'
    BY <1>1, <2>1, <2>2 DEF IInv, AcquisitionTypeOK, Places, Answers, PoolTypeOK, ChainTypeOK
  <2>4. Staged(a)' /\ Slotted(a)' /\ Pooled(a)'
    BY <1>1, <2>1, <2>2 DEF Staged, Slotted, Pooled
  <2>5. \A q \in Acquisitions : q # a => Same(q)
    BY <1>1, <2>1, <2>2 DEF Same
  <2> QED
    BY <1>2, <2>1, <2>2, <2>3, <2>4, <2>5, OneAcquisition DEF Sound
<1>6. (IF unhealthy THEN "teardown" ELSE "error") \in Answers
  BY DEF Answers
<1> QED
  BY <1>3, <1>4, <1>5, <1>6 DEF Acquire

LEMMA ClientListensInv ==
    ASSUME IInv, NEW a \in Acquisitions, ClientListens(a)
    PROVE  IInv'
<1>1. /\ client[a] = "spawning" /\ pc[a] = "leasing" /\ torrent[a] = "none"
      /\ chain[a] = NoChain /\ a \in slots /\ a \notin deferred /\ Pooled(a)
      /\ UNCHANGED <<slots, deferred, aborted, unhealthy>>
  BY DEF ClientListens, Listening, IInv, Sound, Staged, Slotted
<1>2. Few'
  BY <1>1 DEF IInv, Few
<1>3. ASSUME NEW kept \in BOOLEAN, Listening(a, kept)
      PROVE  /\ client' \in [Acquisitions -> Clients]
             /\ client'[a] = IF kept THEN "up" ELSE "destroying"
             /\ \A q \in Acquisitions : q # a => client'[q] = client[q]
             /\ UNCHANGED <<leased, poolClosed, poolUnhealthy>>
  BY <1>3 DEF Listening, IInv, AcquisitionTypeOK, PoolTypeOK, Clients
<1>4. CASE /\ Listening(a, FALSE)
           /\ IF poolClosed THEN Goes(a, "leasing", "none") ELSE Goes(a, "releasing", "error")
           /\ UNCHANGED <<torrent, chain>>
  <2>1. /\ pc' \in [Acquisitions -> Places] /\ outcome' \in [Acquisitions -> Answers]
        /\ pc'[a] \in {"leasing", "releasing"} /\ \A q \in Acquisitions : q # a => pc'[q] = pc[q]
    <3>1. CASE poolClosed
      <4>1. Goes(a, "leasing", "none")
        BY <1>4, <3>1
      <4> QED
        BY <4>1, GoesOn DEF Places, Answers
    <3>2. CASE ~poolClosed
      <4>1. Goes(a, "releasing", "error")
        BY <1>4, <3>2
      <4> QED
        BY <4>1, GoesOn DEF Places, Answers
    <3> QED
      BY <3>1, <3>2
  <2>2. /\ client' \in [Acquisitions -> Clients] /\ client'[a] = "destroying"
        /\ \A q \in Acquisitions : q # a => client'[q] = client[q]
        /\ UNCHANGED <<leased, poolClosed, poolUnhealthy>>
    BY <1>3, <1>4
  <2>3. AcquisitionTypeOK'
    BY <1>1, <1>4, <2>1, <2>2 DEF IInv, AcquisitionTypeOK, Places, Answers, PoolTypeOK, ChainTypeOK
  <2>4. Staged(a)' /\ Slotted(a)' /\ Pooled(a)' /\ Chained(a)'
    BY <1>1, <1>4, <2>1, <2>2 DEF Staged, Slotted, Pooled, Chained, NoChain, Stopped
  <2>5. \A q \in Acquisitions : q # a => Same(q)
    BY <1>1, <1>4, <2>1, <2>2 DEF Same
  <2> QED
    BY <1>2, <2>2, <2>3, <2>4, <2>5, OneAcquisition DEF Sound
<1>5. CASE /\ Listening(a, TRUE)
           /\ torrent' = [torrent EXCEPT ![a] = "up"]
           /\ \/ Goes(a, "running", "none") /\ chain' = [chain EXCEPT ![a] = Started(a)]
              \/ Goes(a, "stopping", "error") /\ UNCHANGED chain
  <2>1. /\ pc' \in [Acquisitions -> Places] /\ outcome' \in [Acquisitions -> Answers]
        /\ pc'[a] \in {"running", "stopping"} /\ \A q \in Acquisitions : q # a => pc'[q] = pc[q]
    <3>1. Goes(a, "running", "none") \/ Goes(a, "stopping", "error")
      BY <1>5
    <3> QED
      BY <3>1, GoesOn DEF Places, Answers
  <2>2. /\ client' \in [Acquisitions -> Clients] /\ client'[a] = "up"
        /\ \A q \in Acquisitions : q # a => client'[q] = client[q]
        /\ UNCHANGED <<leased, poolClosed, poolUnhealthy>>
    BY <1>3, <1>5
  <2>3. /\ torrent' \in [Acquisitions -> StagingTorrents] /\ torrent'[a] = "up"
        /\ \A q \in Acquisitions : q # a => torrent'[q] = torrent[q]
    BY <1>5 DEF IInv, AcquisitionTypeOK, StagingTorrents
  <2>4. /\ ChainTypeOK' /\ \A q \in Acquisitions : q # a => chain'[q] = chain[q]
        /\ Chained(a)'
    <3>1. ChainTypeOK /\ chain[a] \in Chains /\ Endpoints[a] \in Nat
      BY DEF IInv, AcquisitionTypeOK, ChainTypeOK
    <3>2. CASE chain' = chain
      BY <1>1, <2>3, <3>1, <3>2 DEF ChainTypeOK, Chained, NoChain
    <3>3. CASE chain' = [chain EXCEPT ![a] = Started(a)]
      <4>1. /\ Started(a) \in Chains /\ Started(a).endpoint <= Endpoints[a]
            /\ Started(a).admitting => Started(a).at = "trying" /\ ~Started(a).closed
            /\ Started(a).at # "idle" => Started(a).endpoint \in 1..Endpoints[a]
        <5>1. CASE Endpoints[a] = 0
          BY <1>1, <3>1, <5>1 DEF Started, NoChain, Chains
        <5>2. CASE Endpoints[a] # 0
          <6>1. Started(a) = Attempt(chain[a], 1)
            BY <5>2 DEF Started
          <6>2. /\ Attempt(chain[a], 1) \in Chains
                /\ Attempt(chain[a], 1).at = "trying" /\ Attempt(chain[a], 1).endpoint = 1
                /\ Attempt(chain[a], 1).closed = chain[a].closed
            <7>1. 1 \in Nat
              OBVIOUS
            <7> QED
              BY <3>1, <7>1, AttemptChain, Zenon
          <6>3. chain[a].closed = FALSE
            BY <1>1 DEF NoChain
          <6> QED
            BY <3>1, <5>2, <6>1, <6>2, <6>3
        <5> QED
          BY <5>1, <5>2
      <4>2. chain'[a] = Started(a) /\ \A q \in Acquisitions : q # a => chain'[q] = chain[q]
        BY <3>1, <3>3 DEF ChainTypeOK
      <4> QED
        BY <2>3, <3>1, <3>3, <4>1, <4>2 DEF ChainTypeOK, Chained
    <3> QED
      BY <1>5, <3>2, <3>3
  <2>5. AcquisitionTypeOK'
    BY <1>1, <2>1, <2>2, <2>3, <2>4 DEF IInv, AcquisitionTypeOK, Places, Answers, PoolTypeOK
  <2>6. Staged(a)' /\ Slotted(a)' /\ Pooled(a)'
    BY <1>1, <2>1, <2>2, <2>3 DEF Staged, Slotted, Pooled
  <2>7. \A q \in Acquisitions : q # a => Same(q)
    BY <1>1, <2>1, <2>2, <2>3, <2>4 DEF Same
  <2> QED
    BY <1>2, <2>2, <2>4, <2>5, <2>6, <2>7, OneAcquisition DEF Sound
<1> QED
  BY <1>4, <1>5 DEF ClientListens

\* What ends the wait freezes the discovery in the same step.
LEMMA FinishesSound ==
    ASSUME IInv, NEW a \in Acquisitions, NEW result \in Answers, Finishes(a, result),
           pc[a] = "running", UNCHANGED poolVars, aborted' = aborted,
           torrent' \in [Acquisitions -> StagingTorrents], torrent'[a] # "none",
           \A q \in Acquisitions : q # a => torrent'[q] = torrent[q]
    PROVE  IInv'
<1>1. /\ Goes(a, "stopping", result) /\ chain' = [chain EXCEPT ![a] = Frozen(@)]
      /\ UNCHANGED <<slots, deferred, unhealthy>>
      /\ UNCHANGED <<client, leased, poolClosed, poolUnhealthy>>
  BY DEF Finishes, poolVars
<1>2. /\ pc' \in [Acquisitions -> Places] /\ outcome' \in [Acquisitions -> Answers]
      /\ pc'[a] = "stopping" /\ \A q \in Acquisitions : q # a => pc'[q] = pc[q]
  BY <1>1, GoesOn DEF Places
<1>3. /\ ChainTypeOK' /\ chain'[a].closed /\ ~chain'[a].admitting
      /\ chain'[a].at = chain[a].at /\ chain'[a].endpoint = chain[a].endpoint
      /\ \A q \in Acquisitions : q # a => chain'[q] = chain[q]
      /\ Chained(a)'
  BY <1>1, FreezeSound
<1>4. AcquisitionTypeOK'
  BY <1>1, <1>2, <1>3 DEF IInv, AcquisitionTypeOK, Places, Answers, PoolTypeOK
<1>5. Few'
  BY <1>1 DEF IInv, Few
<1>6. Staged(a)' /\ Slotted(a)' /\ Pooled(a)'
  BY <1>1, <1>2 DEF IInv, Sound, Staged, Slotted, Pooled
<1>7. \A q \in Acquisitions : q # a => Same(q)
  BY <1>1, <1>2, <1>3 DEF Same
<1> QED
  BY <1>1, <1>3, <1>4, <1>5, <1>6, <1>7, OneAcquisition DEF Sound

LEMMA WaitEndsInv ==
    ASSUME IInv, NEW a \in Acquisitions, TimesOut(a) \/ DiscoveryFails(a)
    PROVE  IInv'
<1>1. /\ pc[a] = "running" /\ Finishes(a, "error")
      /\ UNCHANGED <<torrent, aborted, poolVars>>
  BY DEF TimesOut, DiscoveryFails
<1>2. torrent' \in [Acquisitions -> StagingTorrents] /\ torrent'[a] # "none"
  BY <1>1 DEF IInv, AcquisitionTypeOK, Sound, Staged
<1> QED
  BY <1>1, <1>2, FinishesSound DEF Answers

LEMMA TorrentFailsInv ==
    ASSUME IInv, NEW a \in Acquisitions, TorrentFails(a)
    PROVE  IInv'
<1>1. /\ pc[a] \in {"running", "stopping"} /\ torrent[a] = "up"
      /\ torrent' \in [Acquisitions -> StagingTorrents] /\ torrent'[a] = "taken"
      /\ \A q \in Acquisitions : q # a => torrent'[q] = torrent[q]
      /\ aborted' = aborted /\ UNCHANGED poolVars
  BY DEF TorrentFails, IInv, AcquisitionTypeOK, StagingTorrents
<1>2. CASE pc[a] = "running"
  BY <1>1, <1>2, FinishesSound DEF TorrentFails, Answers
<1>3. CASE pc[a] = "stopping"
  <2>1. /\ UNCHANGED <<chain, pc, outcome, slots, deferred, unhealthy>>
        /\ UNCHANGED <<client, leased, poolClosed, poolUnhealthy>>
    BY <1>1, <1>3 DEF TorrentFails, poolVars
  <2>2. AcquisitionTypeOK' /\ Few'
    BY <1>1, <2>1 DEF IInv, AcquisitionTypeOK, Few, PoolTypeOK, ChainTypeOK
  <2>3. Sound(a)
    BY DEF IInv
  <2>4. Staged(a)' /\ Slotted(a)' /\ Pooled(a)' /\ Chained(a)'
    BY <1>1, <1>3, <2>1, <2>3 DEF Sound, Staged, Slotted, Pooled, Chained
  <2>5. \A q \in Acquisitions : q # a => Same(q)
    BY <1>1, <2>1 DEF Same
  <2> QED
    BY <2>1, <2>2, <2>4, <2>5, OneAcquisition DEF Sound
<1> QED
  BY <1>1, <1>2, <1>3

LEMMA AbortInv ==
    ASSUME IInv, NEW a \in Acquisitions, Abort(a)
    PROVE  IInv'
<1>1. CASE pc[a] = "running" /\ Finishes(a, "error") /\ UNCHANGED aborted
  <2>1. UNCHANGED <<torrent, poolVars>>
    BY DEF Abort
  <2>2. torrent' \in [Acquisitions -> StagingTorrents] /\ torrent'[a] # "none"
    BY <1>1, <2>1 DEF IInv, AcquisitionTypeOK, Sound, Staged
  <2> QED
    BY <1>1, <2>1, <2>2, FinishesSound DEF Answers
<1>2. CASE /\ aborted' = aborted \cup {a}
           /\ UNCHANGED <<chain, pc, outcome, slots, deferred, unhealthy>>
  <2>1. UNCHANGED <<torrent, client, leased, poolClosed, poolUnhealthy>>
    BY DEF Abort, poolVars
  <2>2. AcquisitionTypeOK' /\ Few'
    BY <1>2, <2>1 DEF IInv, AcquisitionTypeOK, Few, PoolTypeOK, ChainTypeOK
  <2>3. \A q \in Acquisitions : Same(q)
    BY <1>2, <2>1 DEF Same
  <2>4. Sound(a)'
    BY <2>1, <2>3, SameSound DEF IInv
  <2> QED
    BY <2>1, <2>2, <2>3, <2>4, OneAcquisition
<1> QED
  BY <1>1, <1>2 DEF Abort

LEMMA MetadataInv ==
    ASSUME IInv, NEW a \in Acquisitions, MetadataArrives(a)
    PROVE  IInv'
<1>1. /\ pc[a] \in {"running", "stopping"} /\ torrent[a] = "up"
      /\ chain' = [chain EXCEPT ![a] = Frozen(@)]
      /\ torrent' \in [Acquisitions -> StagingTorrents] /\ torrent'[a] = "destroying"
      /\ \A q \in Acquisitions : q # a => torrent'[q] = torrent[q]
      /\ UNCHANGED <<slots, deferred, aborted, unhealthy>>
      /\ UNCHANGED <<client, leased, poolClosed, poolUnhealthy>>
  BY DEF MetadataArrives, poolVars, IInv, AcquisitionTypeOK, StagingTorrents
<1>2. /\ pc' \in [Acquisitions -> Places] /\ outcome' \in [Acquisitions -> Answers]
      /\ pc'[a] = pc[a] /\ \A q \in Acquisitions : q # a => pc'[q] = pc[q]
  <2>1. CASE pc[a] = "running"
    <3>1. PICK told \in {"metadata", "error"} : Goes(a, "running", told)
      BY <2>1 DEF MetadataArrives
    <3>2. told \in Answers /\ "running" \in Places
      BY DEF Answers, Places
    <3> QED
      BY <2>1, <3>1, <3>2, GoesOn
  <2>2. CASE pc[a] # "running"
    BY <2>2 DEF MetadataArrives, IInv, AcquisitionTypeOK, Places, Answers
  <2> QED
    BY <2>1, <2>2
<1>3. /\ ChainTypeOK' /\ chain'[a].closed /\ ~chain'[a].admitting
      /\ \A q \in Acquisitions : q # a => chain'[q] = chain[q]
      /\ Chained(a)'
  BY <1>1, FreezeSound
<1>4. AcquisitionTypeOK' /\ Few'
  BY <1>1, <1>2, <1>3 DEF IInv, AcquisitionTypeOK, Few, Places, Answers, PoolTypeOK
<1>5. Staged(a)' /\ Slotted(a)' /\ Pooled(a)'
  BY <1>1, <1>2 DEF IInv, Sound, Staged, Slotted, Pooled
<1>6. \A q \in Acquisitions : q # a => Same(q)
  BY <1>1, <1>2, <1>3 DEF Same
<1> QED
  BY <1>1, <1>3, <1>4, <1>5, <1>6, OneAcquisition DEF Sound

-----------------------------------------------------------------------------
(* The teardown.                                                           *)

LEMMA TeardownInv ==
    ASSUME IInv, NEW a \in Acquisitions, Teardown(a)
    PROVE  IInv'
<1>1. /\ pc[a] = "stopping" /\ Stopped(a) /\ chain' = chain /\ aborted' \in SUBSET Acquisitions
      /\ torrent \in [Acquisitions -> StagingTorrents] /\ outcome[a] \in Answers
  BY DEF Teardown, IInv, AcquisitionTypeOK, Answers
<1>2. CASE /\ torrent[a] \in {"up", "destroying"}
           /\ torrent' = [torrent EXCEPT ![a] = "destroying"]
           /\ Goes(a, "destroying", outcome[a])
           /\ UNCHANGED <<slots, deferred, unhealthy, poolVars>>
  <2>1. /\ pc' \in [Acquisitions -> Places] /\ outcome' \in [Acquisitions -> Answers]
        /\ pc'[a] = "destroying" /\ \A q \in Acquisitions : q # a => pc'[q] = pc[q]
    BY <1>1, <1>2, GoesOn DEF Places
  <2>2. /\ torrent' \in [Acquisitions -> StagingTorrents] /\ torrent'[a] = "destroying"
        /\ \A q \in Acquisitions : q # a => torrent'[q] = torrent[q]
        /\ UNCHANGED <<client, leased, poolClosed, poolUnhealthy>>
        /\ UNCHANGED <<slots, deferred, unhealthy>>
    BY <1>1, <1>2 DEF StagingTorrents, poolVars
  <2>3. AcquisitionTypeOK' /\ Few'
    BY <1>1, <2>1, <2>2 DEF IInv, AcquisitionTypeOK, Few, Places, Answers, PoolTypeOK, ChainTypeOK
  <2>4. Sound(a) /\ Stopped(a)'
    BY <1>1 DEF IInv, Stopped
  <2>5. Staged(a)' /\ Slotted(a)' /\ Pooled(a)' /\ Chained(a)'
    BY <1>1, <2>1, <2>2, <2>4 DEF Sound, Staged, Slotted, Pooled, Chained
  <2>6. \A q \in Acquisitions : q # a => Same(q)
    BY <1>1, <2>1, <2>2 DEF Same
  <2> QED
    BY <2>2, <2>3, <2>5, <2>6, OneAcquisition DEF Sound
<1>3. CASE torrent[a] = "gone" /\ Releases(a, outcome[a]) /\ UNCHANGED torrent
  BY <1>1, <1>3, ReleasesSound
<1>4. CASE /\ torrent[a] \in {"overdue", "late", "failed", "taken"}
           /\ Fails(a, torrent[a] \in {"overdue", "late"})
           /\ UNCHANGED <<torrent, poolVars>>
  <2>1. (torrent[a] \in {"overdue", "late"}) \in BOOLEAN
    OBVIOUS
  <2> QED
    BY <1>1, <1>4, <2>1, TeardownFails
<1> QED
  BY <1>2, <1>3, <1>4 DEF Teardown

LEMMA TorrentDestroyedInv ==
    ASSUME IInv, NEW a \in Acquisitions, TorrentDestroyed(a)
    PROVE  IInv'
<1>1. torrent[a] = "destroying" /\ aborted' = aborted /\ aborted' \in SUBSET Acquisitions
  BY DEF TorrentDestroyed, IInv, AcquisitionTypeOK
<1>2. pc[a] \in {"running", "stopping", "destroying"}
  BY <1>1 DEF IInv, AcquisitionTypeOK, Sound, Staged
<1>3. PICK end \in {"gone", "failed", "overdue"} :
         /\ torrent' = [torrent EXCEPT ![a] = end]
         /\ CASE pc[a] = "running" -> /\ Finishes(a, IF end = "gone" THEN outcome[a]
                                                     ELSE "teardown")
                                      /\ UNCHANGED poolVars
              [] pc[a] = "stopping" -> UNCHANGED <<chain, poolVars, pc, outcome, slots,
                                                   deferred, unhealthy>>
              [] pc[a] = "destroying" -> /\ IF end = "gone" THEN Releases(a, outcome[a])
                                            ELSE Fails(a, end = "overdue") /\ UNCHANGED poolVars
                                         /\ UNCHANGED chain
  BY DEF TorrentDestroyed
<1>4. /\ torrent' \in [Acquisitions -> StagingTorrents] /\ torrent'[a] = end
      /\ \A q \in Acquisitions : q # a => torrent'[q] = torrent[q]
      /\ outcome[a] \in Answers
  BY <1>3 DEF IInv, AcquisitionTypeOK, StagingTorrents, Answers
<1>5. CASE pc[a] = "running"
  <2>1. Finishes(a, IF end = "gone" THEN outcome[a] ELSE "teardown") /\ UNCHANGED poolVars
    BY <1>3, <1>5
  <2>2. (IF end = "gone" THEN outcome[a] ELSE "teardown") \in Answers
    BY <1>4 DEF Answers
  <2> QED
    BY <1>1, <1>4, <1>5, <2>1, <2>2, FinishesSound
<1>6. CASE pc[a] = "stopping"
  <2>1. UNCHANGED <<chain, poolVars, pc, outcome, slots, deferred, unhealthy>>
    BY <1>3, <1>6
  <2>2. /\ UNCHANGED <<chain, pc, outcome, slots, deferred, unhealthy>>
        /\ UNCHANGED <<client, leased, poolClosed, poolUnhealthy>>
    BY <2>1 DEF poolVars
  <2>3. AcquisitionTypeOK' /\ Few'
    BY <1>1, <1>4, <2>2 DEF IInv, AcquisitionTypeOK, Few, PoolTypeOK, ChainTypeOK
  <2>4. Sound(a)
    BY DEF IInv
  <2>5. Staged(a)' /\ Slotted(a)' /\ Pooled(a)' /\ Chained(a)'
    BY <1>1, <1>4, <1>6, <2>2, <2>4 DEF Sound, Staged, Slotted, Pooled, Chained, Stopped
  <2>6. \A q \in Acquisitions : q # a => Same(q)
    BY <1>4, <2>2 DEF Same
  <2> QED
    BY <2>2, <2>3, <2>5, <2>6, OneAcquisition DEF Sound
<1>7. CASE pc[a] = "destroying"
  <2>1. /\ IF end = "gone" THEN Releases(a, outcome[a])
           ELSE Fails(a, end = "overdue") /\ UNCHANGED poolVars
        /\ chain' = chain
    BY <1>3, <1>7
  <2>2. Stopped(a)
    BY <1>7 DEF IInv, Sound, Staged
  <2>3. CASE end = "gone"
    BY <1>1, <1>4, <1>7, <2>1, <2>2, <2>3, ReleasesSound
  <2>4. CASE end # "gone"
    <3>1. (end = "overdue") \in BOOLEAN /\ end \in {"overdue", "late", "failed", "taken"}
      BY <2>4
    <3> QED
      BY <1>1, <1>4, <1>7, <2>1, <2>2, <2>4, <3>1, TeardownFails
  <2> QED
    BY <2>3, <2>4
<1> QED
  BY <1>2, <1>5, <1>6, <1>7

LEMMA TorrentDestroyedLateInv ==
    ASSUME IInv, NEW a \in Acquisitions, TorrentDestroyedLate(a)
    PROVE  IInv'
<1>1. /\ torrent[a] = "overdue"
      /\ torrent' \in [Acquisitions -> StagingTorrents] /\ torrent'[a] \in {"late", "failed"}
      /\ \A q \in Acquisitions : q # a => torrent'[q] = torrent[q]
      /\ deferred' \subseteq deferred
      /\ \A q \in Acquisitions : q # a => (q \in deferred' <=> q \in deferred)
      /\ UNCHANGED <<chain, pc, outcome, slots, aborted, unhealthy>>
      /\ UNCHANGED <<client, leased, poolClosed, poolUnhealthy>>
  BY DEF TorrentDestroyedLate, poolVars, IInv, AcquisitionTypeOK, StagingTorrents
<1>2. AcquisitionTypeOK' /\ Few'
  BY <1>1 DEF IInv, AcquisitionTypeOK, Few, PoolTypeOK, ChainTypeOK
<1>3. Sound(a)
  BY DEF IInv
<1>4. Staged(a)' /\ Slotted(a)' /\ Pooled(a)' /\ Chained(a)'
  BY <1>1, <1>3 DEF Sound, Staged, Slotted, Pooled, Chained, Stopped
<1>5. \A q \in Acquisitions : q # a => Same(q)
  BY <1>1 DEF Same
<1> QED
  BY <1>1, <1>2, <1>4, <1>5, OneAcquisition DEF Sound

LEMMA ReleasesDeferredInv ==
    ASSUME IInv, NEW a \in Acquisitions, ReleasesDeferred(a)
    PROVE  IInv'
<1>1. /\ a \in deferred /\ torrent[a] = "late" /\ client[a] # "destroying"
      /\ ReleaseClient(a)
      /\ deferred' = (IF ReleaseAnswer(a) = "waits" THEN deferred ELSE deferred \ {a})
      /\ slots' = (IF ReleaseAnswer(a) = "released" THEN slots \ {a} ELSE slots)
      /\ UNCHANGED <<chain, pc, torrent, outcome, aborted, unhealthy>>
  BY DEF ReleasesDeferred
<1>2. /\ client' \in [Acquisitions -> Clients] /\ poolUnhealthy' \in BOOLEAN
      /\ poolUnhealthy => poolUnhealthy'
      /\ \A q \in Acquisitions : q # a => client'[q] = client[q]
      /\ client'[a] = IF client[a] = "up" THEN "destroying" ELSE client[a]
      /\ leased' = leased /\ poolClosed' = poolClosed
  BY <1>1 DEF IInv, AcquisitionTypeOK, PoolTypeOK, ReleaseClient, Clients
<1>3. pc[a] = "ended" /\ a \in slots /\ Sound(a)
  BY <1>1 DEF IInv, Sound, Slotted
<1>4. ReleaseAnswer(a) = "released" => client[a] = "gone"
  BY DEF ReleaseAnswer
<1>5. AcquisitionTypeOK'
  <2>1. deferred' \in SUBSET slots' /\ slots' \in SUBSET Acquisitions
    BY <1>1 DEF IInv, AcquisitionTypeOK
  <2> QED
    BY <1>1, <1>2, <2>1 DEF IInv, AcquisitionTypeOK, PoolTypeOK, ChainTypeOK
<1>6. Few'
  BY <1>1, FewerSlots DEF IInv
<1>7. Staged(a)' /\ Chained(a)'
  BY <1>1, <1>2, <1>3 DEF Sound, Staged, Chained, Stopped
<1>8. Slotted(a)'
  BY <1>1, <1>2, <1>3, <1>4 DEF Slotted
<1>9. Pooled(a)'
  BY <1>1, <1>2, <1>3, <1>4 DEF Sound, Pooled
<1>10. \A q \in Acquisitions : q # a => Same(q)
  BY <1>1, <1>2 DEF Same
<1> QED
  BY <1>2, <1>5, <1>6, <1>7, <1>8, <1>9, <1>10, OneAcquisition DEF Sound

\* What is left when a client's destroy() is over.
LEMMA DestroyEndsSound ==
    ASSUME IInv, NEW a \in Acquisitions, DestroyEnds(a)
    PROVE  /\ client[a] \in {"aborting", "destroying"}
           /\ client' \in [Acquisitions -> Clients]
           /\ client'[a] \in {"gone", "broken", "abandoned", "overdue"}
           /\ \A q \in Acquisitions : q # a =>
                 client'[q] = client[q] /\ (q \in leased' <=> q \in leased)
           /\ leased' \subseteq leased /\ poolClosed' = poolClosed
           /\ poolUnhealthy' \in BOOLEAN /\ (poolUnhealthy => poolUnhealthy')
           /\ client'[a] = "gone" => a \notin leased' \/ poolUnhealthy'
           /\ client'[a] # "gone" => poolUnhealthy'
<1>1. PICK end \in {"gone", "broken", IF client[a] = "aborting" THEN "abandoned" ELSE "overdue"} :
         /\ client' = [client EXCEPT ![a] = end]
         /\ poolUnhealthy' = (poolUnhealthy \/ end # "gone")
         /\ leased' = IF end = "gone" /\ (client[a] = "destroying" \/ ~poolUnhealthy)
                      THEN leased \ {a} ELSE leased
  BY DEF DestroyEnds
<1>2. client[a] \in {"aborting", "destroying"} /\ poolClosed' = poolClosed
  BY DEF DestroyEnds
<1>3. client \in [Acquisitions -> Clients] /\ poolUnhealthy \in BOOLEAN
  BY DEF IInv, AcquisitionTypeOK, PoolTypeOK
<1>4. end \in {"gone", "broken", "abandoned", "overdue"}
  BY <1>1
<1>5. /\ client' \in [Acquisitions -> Clients] /\ client'[a] = end
      /\ \A q \in Acquisitions : q # a => client'[q] = client[q]
  BY <1>1, <1>3, <1>4 DEF Clients
<1> QED
  BY <1>1, <1>2, <1>3, <1>4, <1>5

LEMMA ClientDestroyedInv ==
    ASSUME IInv, NEW a \in Acquisitions, ClientDestroyed(a)
    PROVE  IInv'
<1>1. /\ DestroyEnds(a) /\ UNCHANGED <<chain, torrent, aborted>>
      /\ Sound(a) /\ outcome[a] \in Answers
  BY DEF ClientDestroyed, IInv, AcquisitionTypeOK, Answers
<1>2. /\ client[a] \in {"aborting", "destroying"}
      /\ client' \in [Acquisitions -> Clients]
      /\ client'[a] \in {"gone", "broken", "abandoned", "overdue"}
      /\ \A q \in Acquisitions : q # a =>
            client'[q] = client[q] /\ (q \in leased' <=> q \in leased)
      /\ leased' \subseteq leased /\ poolClosed' = poolClosed
      /\ poolUnhealthy' \in BOOLEAN /\ (poolUnhealthy => poolUnhealthy')
      /\ client'[a] = "gone" => a \notin leased' \/ poolUnhealthy'
      /\ client'[a] # "gone" => poolUnhealthy'
  BY <1>1, DestroyEndsSound
<1>3. PoolTypeOK' /\ ChainTypeOK'
  BY <1>1, <1>2 DEF IInv, AcquisitionTypeOK, PoolTypeOK, ChainTypeOK
<1>4. Pooled(a)'
  BY <1>2 DEF Pooled
<1>5. Chained(a)'
  BY <1>1 DEF Sound, Chained, Stopped
<1>6. CASE pc[a] \in {"leasing", "releasing"}
  <2>1. torrent[a] \in {"none", "gone"} /\ Stopped(a) /\ Stopped(a)' /\ a \notin deferred
    BY <1>1, <1>6 DEF Sound, Staged, Slotted, Stopped, NoChain
  <2>2. \/ /\ client'[a] = "gone"
           /\ Ends(a, IF pc[a] = "leasing" THEN "error" ELSE outcome[a])
        \/ client'[a] # "gone" /\ Fails(a, FALSE)
    BY <1>6 DEF ClientDestroyed
  <2>3. (IF pc[a] = "leasing" THEN "error" ELSE outcome[a]) \in Answers
    BY <1>1 DEF Answers
  <2>4. CASE client'[a] = "gone" /\ Ends(a, IF pc[a] = "leasing" THEN "error" ELSE outcome[a])
    <3>1. /\ pc' \in [Acquisitions -> Places] /\ outcome' \in [Acquisitions -> Answers]
          /\ pc'[a] = "ended" /\ slots' = slots \ {a}
          /\ deferred' = deferred /\ deferred' \in SUBSET slots' /\ unhealthy' = unhealthy
          /\ slots' \in SUBSET Acquisitions
          /\ \A q \in Acquisitions : q # a => pc'[q] = pc[q] /\ (q \in slots' <=> q \in slots)
          /\ Few'
      BY <1>6, <2>3, <2>4, EndsSound
    <3>2. AcquisitionTypeOK'
      BY <1>1, <1>3, <3>1 DEF IInv, AcquisitionTypeOK, Places, Answers
    <3>3. Staged(a)' /\ Slotted(a)'
      BY <1>1, <2>1, <2>4, <3>1 DEF Staged, Slotted
    <3>4. \A q \in Acquisitions : q # a => Same(q)
      BY <1>1, <1>2, <3>1 DEF Same
    <3> QED
      BY <1>2, <1>4, <1>5, <3>1, <3>2, <3>3, <3>4, OneAcquisition DEF Sound
  <2>5. CASE client'[a] # "gone" /\ Fails(a, FALSE)
    <3>1. /\ pc' \in [Acquisitions -> Places] /\ outcome' \in [Acquisitions -> Answers]
          /\ pc'[a] = "ended" /\ slots' = slots \cup {a} /\ unhealthy' = TRUE
          /\ slots' \in SUBSET Acquisitions /\ deferred' \in SUBSET slots'
          /\ \A q \in Acquisitions : q # a => pc'[q] = pc[q] /\ (q \in slots' <=> q \in slots)
          /\ Few'
      BY <2>5, FailsSound
    <3>2. deferred' = deferred
      BY <2>5 DEF Fails
    <3>3. AcquisitionTypeOK'
      BY <1>1, <1>3, <3>1 DEF IInv, AcquisitionTypeOK, Places, Answers
    <3>4. Staged(a)' /\ Slotted(a)'
      BY <1>1, <1>2, <2>1, <3>1, <3>2 DEF Staged, Slotted
    <3>5. \A q \in Acquisitions : q # a => Same(q)
      BY <1>1, <1>2, <3>1, <3>2 DEF Same
    <3> QED
      BY <1>2, <1>4, <1>5, <3>1, <3>3, <3>4, <3>5, OneAcquisition DEF Sound
  <2> QED
    BY <2>2, <2>4, <2>5
<1>7. CASE pc[a] \notin {"leasing", "releasing"}
  <2>1. /\ deferred' = (IF torrent[a] = "late" THEN deferred \ {a} ELSE deferred)
        /\ slots' = (IF a \in deferred /\ torrent[a] = "late" /\ client'[a] = "gone"
                     THEN slots \ {a} ELSE slots)
        /\ UNCHANGED <<pc, outcome, unhealthy>>
    BY <1>7 DEF ClientDestroyed
  <2>2. AcquisitionTypeOK'
    <3>1. deferred' \in SUBSET slots' /\ slots' \in SUBSET Acquisitions
      BY <2>1 DEF IInv, AcquisitionTypeOK
    <3> QED
      BY <1>1, <1>3, <2>1, <3>1 DEF IInv, AcquisitionTypeOK
  <2>3. Few'
    BY <2>1, FewerSlots DEF IInv
  <2>4. Staged(a)'
    BY <1>1, <1>2, <1>7, <2>1 DEF Sound, Staged, Stopped
  <2>5. Slotted(a)'
    <3>1. a \in slots' \/ (pc[a] = "ended" /\ torrent[a] = "late" /\ client'[a] = "gone")
      <4>1. a \in slots
        BY <1>1, <1>2 DEF Sound, Staged, Slotted, IInv, AcquisitionTypeOK
      <4>2. a \in deferred => pc[a] = "ended"
        BY <1>1 DEF Sound, Slotted
      <4> QED
        BY <2>1, <4>1, <4>2
    <3>2. a \in deferred' => pc[a] = "ended" /\ a \in slots'
      BY <1>1, <2>1 DEF Sound, Slotted
    <3> QED
      BY <1>1, <2>1, <3>1, <3>2 DEF Slotted
  <2>6. \A q \in Acquisitions : q # a => Same(q)
    BY <1>1, <1>2, <2>1 DEF Same
  <2> QED
    BY <1>2, <1>4, <1>5, <2>2, <2>3, <2>4, <2>5, <2>6, OneAcquisition DEF Sound
<1> QED
  BY <1>6, <1>7

-----------------------------------------------------------------------------
(* Clients, endpoints and the shutdown.                                    *)

\* What a client does alone concerns nobody's slot.
LEMMA ClientAlone ==
    ASSUME IInv, NEW a \in Acquisitions, client' \in [Acquisitions -> Clients],
           \A q \in Acquisitions : q # a =>
              client'[q] = client[q] /\ (q \in leased' <=> q \in leased),
           leased' \subseteq leased, UNCHANGED <<poolClosed, poolUnhealthy>>,
           UNCHANGED <<chain, pc, outcome, slots, deferred, aborted, unhealthy>>,
           torrent' \in [Acquisitions -> StagingTorrents],
           \A q \in Acquisitions : q # a => torrent'[q] = torrent[q],
           torrent'[a] = torrent[a] \/ (torrent[a] = "up" /\ torrent'[a] = "taken"),
           \/ client[a] = "spawning" /\ client'[a] = "aborting"
           \/ client[a] \in {"up", "overdue", "abandoned"} /\ client'[a] \in {"broken", "late"}
    PROVE  IInv'
<1>1. AcquisitionTypeOK' /\ Few'
  BY DEF IInv, AcquisitionTypeOK, Few, PoolTypeOK, ChainTypeOK
<1>2. Sound(a)
  BY DEF IInv
<1>3. Staged(a)'
  BY <1>2 DEF Sound, Staged, Stopped
<1>4. Slotted(a)' /\ Pooled(a)'
  BY <1>2 DEF Sound, Slotted, Pooled, Staged
<1>5. Chained(a)'
  BY <1>2 DEF Sound, Chained, Stopped
<1>6. \A q \in Acquisitions : q # a => Same(q)
  BY DEF Same
<1> QED
  BY <1>1, <1>3, <1>4, <1>5, <1>6, OneAcquisition DEF Sound

LEMMA ClientAloneInv ==
    ASSUME IInv, NEW a \in Acquisitions,
           ClientDoesNotListen(a) \/ ClientDestroyedLate(a) \/ ClientError(a)
    PROVE  IInv'
<1>1. /\ client \in [Acquisitions -> Clients] /\ torrent \in [Acquisitions -> StagingTorrents]
      /\ UNCHANGED <<chain, pc, outcome, slots, deferred, aborted, unhealthy>>
      /\ UNCHANGED <<poolClosed, poolUnhealthy>>
  BY DEF IInv, AcquisitionTypeOK, PoolTypeOK, ClientDoesNotListen, ClientDestroyedLate, ClientError,
         SpawnFails, DestroyLate, ClientFails, acqVars
<1>2. CASE ClientDoesNotListen(a)
  <2>1. /\ client[a] = "spawning" /\ client' = [client EXCEPT ![a] = "aborting"]
        /\ leased' = leased /\ torrent' = torrent
    BY <1>2 DEF ClientDoesNotListen, SpawnFails, acqVars
  <2>2. client' \in [Acquisitions -> Clients] /\ client'[a] = "aborting"
    BY <1>1, <2>1 DEF Clients
  <2> QED
    BY <1>1, <2>1, <2>2, ClientAlone
<1>3. CASE ClientDestroyedLate(a)
  <2>1. /\ client[a] \in {"overdue", "abandoned"} /\ client' = [client EXCEPT ![a] = "late"]
        /\ leased' = leased \/ leased' = leased \ {a}
        /\ torrent' = torrent
    BY <1>3 DEF ClientDestroyedLate, DestroyLate, acqVars
  <2>2. client' \in [Acquisitions -> Clients] /\ client'[a] = "late"
    BY <1>1, <2>1 DEF Clients
  <2> QED
    BY <1>1, <2>1, <2>2, ClientAlone
<1>4. CASE ClientError(a)
  <2>1. /\ client[a] = "up" /\ client' = [client EXCEPT ![a] = "broken"] /\ leased' = leased
        /\ torrent' = [q \in Acquisitions |->
                         IF q \in {a} /\ torrent[q] = "up" THEN "taken" ELSE torrent[q]]
    BY <1>4 DEF ClientError, ClientFails, Taken
  <2>2. client' \in [Acquisitions -> Clients] /\ client'[a] = "broken"
    BY <1>1, <2>1 DEF Clients
  <2>3. /\ torrent' \in [Acquisitions -> StagingTorrents]
        /\ \A q \in Acquisitions : q # a => torrent'[q] = torrent[q]
        /\ torrent'[a] = torrent[a] \/ (torrent[a] = "up" /\ torrent'[a] = "taken")
    BY <1>1, <2>1 DEF StagingTorrents
  <2> QED
    BY <1>1, <2>1, <2>2, <2>3, ClientAlone
<1> QED
  BY <1>2, <1>3, <1>4

\* A step of a chain that is under way, after which it may have settled, is closed
\* if it was, and takes peers only while it is open and trying.
LEMMA ChainAlone ==
    ASSUME IInv, NEW a \in Acquisitions, NEW c \in Chains, chain' = [chain EXCEPT ![a] = c],
           UNCHANGED <<poolVars, acqVars>>, chain[a].at \in {"trying", "retiring", "ending", "stopped"},
           chain[a].closed => c.closed,
           c.at # "idle", c.endpoint \in 1..Endpoints[a],
           c.admitting => c.at = "trying" /\ ~c.closed
    PROVE  IInv'
<1>1. /\ UNCHANGED <<pc, torrent, outcome, slots, deferred, aborted, unhealthy>>
      /\ UNCHANGED <<client, leased, poolClosed, poolUnhealthy>>
  BY DEF poolVars, acqVars
<1>2. /\ chain \in [Acquisitions -> Chains] /\ Endpoints[a] \in Nat
      /\ chain'[a] = c /\ \A q \in Acquisitions : q # a => chain'[q] = chain[q]
  BY DEF IInv, AcquisitionTypeOK, ChainTypeOK
<1>3. ChainTypeOK'
  BY <1>2 DEF IInv, AcquisitionTypeOK, ChainTypeOK
<1>4. AcquisitionTypeOK' /\ Few'
  BY <1>1, <1>3 DEF IInv, AcquisitionTypeOK, Few, PoolTypeOK
<1>5. Sound(a) /\ ~Stopped(a) /\ pc[a] \in {"running", "stopping"}
  <2>1. ~Stopped(a) /\ chain[a].at # "idle"
    BY DEF Stopped
  <2> QED
    BY <2>1 DEF IInv, AcquisitionTypeOK, Sound, Staged, NoChain
<1>6. Staged(a)' /\ Slotted(a)' /\ Pooled(a)'
  BY <1>1, <1>5 DEF Sound, Staged, Slotted, Pooled
<1>7. Chained(a)'
  BY <1>1, <1>2, <1>5 DEF Sound, Chained
<1>8. \A q \in Acquisitions : q # a => Same(q)
  BY <1>1, <1>2 DEF Same
<1> QED
  BY <1>1, <1>4, <1>6, <1>7, <1>8, OneAcquisition DEF Sound

LEMMA ChainInv ==
    ASSUME IInv, NEW a \in Acquisitions, EndpointAnswers(a) \/ ChainRuns(a)
    PROVE  IInv'
<1> DEFINE c == chain[a]
<1>1. /\ c \in Chains /\ Endpoints[a] \in Nat
      /\ c.endpoint \in Nat /\ UNCHANGED <<poolVars, acqVars>>
      /\ c.at # "idle" => c.endpoint \in 1..Endpoints[a]
      /\ c.admitting => c.at = "trying" /\ ~c.closed
  BY DEF IInv, AcquisitionTypeOK, ChainTypeOK, Chains, Sound, Chained, EndpointAnswers, ChainRuns
<1>2. CASE Activated(a)
  <2>1. c.at = "trying" /\ chain' = [chain EXCEPT ![a] = Settle(c, "ok")]
    BY <1>2 DEF Activated
  <2>2. /\ Settle(c, "ok") \in Chains
        /\ Settle(c, "ok").at = c.at /\ Settle(c, "ok").endpoint = c.endpoint
        /\ Settle(c, "ok").closed = c.closed
        /\ Settle(c, "ok").admitting = c.admitting
    BY <1>1, SettledChain
  <2> DEFINE d == Settle(c, "ok")
  <2> HIDE DEF c, d
  <2> QED
    BY <1>1, <2>1, <2>2, ChainAlone DEF c, d
<1>3. ASSUME NEW place \in {"retiring", "ending"}, c.at = "trying",
             chain' = [chain EXCEPT ![a].at = place, ![a].admitting = FALSE]
      PROVE  IInv'
  <2> DEFINE d == [c EXCEPT !.at = place, !.admitting = FALSE]
  <2>1. /\ d \in Chains /\ d.at = place /\ d.admitting = FALSE
        /\ d.endpoint = c.endpoint /\ d.closed = c.closed
    BY <1>1 DEF Chains
  <2>2. chain' = [chain EXCEPT ![a] = d]
    BY <1>3 DEF IInv, AcquisitionTypeOK, ChainTypeOK
  <2> HIDE DEF d
  <2> QED
    BY <1>1, <1>3, <2>1, <2>2, ChainAlone
<1>4. ASSUME NEW place \in {"stopped", "done"}, c.at \in {"retiring", "ending"},
             chain' = [chain EXCEPT ![a].at = place]
      PROVE  IInv'
  <2> DEFINE d == [c EXCEPT !.at = place]
  <2>1. /\ d \in Chains /\ d.at = place /\ d.admitting = c.admitting
        /\ d.endpoint = c.endpoint /\ d.closed = c.closed
    BY <1>1 DEF Chains
  <2>2. chain' = [chain EXCEPT ![a] = d]
    BY <1>4 DEF IInv, AcquisitionTypeOK, ChainTypeOK
  <2> HIDE DEF d
  <2> QED
    BY <1>1, <1>4, <2>1, <2>2, ChainAlone
<1>5. CASE Continues(a) /\ MovesOn(a)
  <2>1. /\ c.at = "stopped" /\ c.closed = FALSE /\ c.endpoint < Endpoints[a]
        /\ chain' = [chain EXCEPT ![a] = Attempt(c, c.endpoint + 1)]
        /\ c.endpoint + 1 \in Nat
    BY <1>1, <1>5 DEF Continues, MovesOn, Chains
  <2> DEFINE d == Attempt(c, c.endpoint + 1)
  <2>2. /\ d \in Chains
        /\ d.at = "trying" /\ d.endpoint = c.endpoint + 1
        /\ d.closed = c.closed /\ d.admitting = TRUE
    BY <1>1, <2>1, AttemptChain, Zenon
  <2>3. d.endpoint \in 1..Endpoints[a]
    BY <1>1, <2>1, <2>2
  <2> HIDE DEF d
  <2> QED
    BY <1>1, <2>1, <2>2, <2>3, ChainAlone DEF d
<1>6. CASE Continues(a) /\ ~MovesOn(a)
  <2> DEFINE e == IF c.closed THEN c ELSE Settle(c, "rejected")
  <2> DEFINE d == [e EXCEPT !.at = "done"]
  <2>1. c.at = "stopped" /\ chain' = [chain EXCEPT ![a] = d]
    BY <1>6 DEF Continues
  <2>2. /\ e \in Chains /\ e.endpoint = c.endpoint /\ e.closed = c.closed
        /\ e.admitting = c.admitting
    BY <1>1, SettledChain
  <2> HIDE DEF e
  <2>3. /\ d \in Chains /\ d.at = "done" /\ d.endpoint = c.endpoint /\ d.closed = c.closed
        /\ d.admitting = c.admitting
    BY <2>2 DEF Chains
  <2> HIDE DEF d
  <2> QED
    BY <1>1, <2>1, <2>3, ChainAlone
<1>7. EndpointFailed(a) => c.at = "trying"
                           /\ chain' = [chain EXCEPT ![a].at = "retiring", ![a].admitting = FALSE]
  BY DEF EndpointFailed
<1>8. ClosedSeen(a) => c.at = "trying"
                       /\ chain' = [chain EXCEPT ![a].at = "ending", ![a].admitting = FALSE]
  BY DEF ClosedSeen
<1>9. AttemptStopped(a) =>
        c.at \in {"retiring", "ending"}
        /\ \E place \in {"stopped", "done"} : chain' = [chain EXCEPT ![a].at = place]
  BY DEF AttemptStopped
<1> QED
  BY <1>2, <1>3, <1>4, <1>5, <1>6, <1>7, <1>8, <1>9 DEF EndpointAnswers, ChainRuns

LEMMA ShutdownInv ==
    ASSUME IInv, ShutdownAcquisitions
    PROVE  IInv'
<1>1. /\ client' = [a \in Acquisitions |-> IF client[a] = "up" THEN "destroying" ELSE client[a]]
      /\ poolUnhealthy' \in BOOLEAN /\ (poolUnhealthy => poolUnhealthy')
      /\ poolClosed' = TRUE /\ leased' = leased
      /\ aborted' = aborted \cup AbortedByClose
      /\ pc' = [a \in Acquisitions |-> IF pc[a] = "running" THEN "stopping" ELSE pc[a]]
      /\ outcome' = [a \in Acquisitions |-> IF pc[a] = "running" THEN "error" ELSE outcome[a]]
      /\ chain' = [a \in Acquisitions |->
                     IF pc[a] = "running" THEN Frozen(chain[a]) ELSE chain[a]]
      /\ torrent' = [a \in Acquisitions |->
                       IF a \in Acquisitions /\ torrent[a] = "up" THEN "taken" ELSE torrent[a]]
      /\ UNCHANGED <<slots, deferred, unhealthy>>
  BY DEF ShutdownAcquisitions, PoolClose, Taken, IInv, AcquisitionTypeOK, PoolTypeOK
<1>2. /\ client \in [Acquisitions -> Clients] /\ torrent \in [Acquisitions -> StagingTorrents]
      /\ chain \in [Acquisitions -> Chains]
      /\ \A a \in Acquisitions : chain[a].endpoint <= Endpoints[a]
      /\ pc \in [Acquisitions -> Places] /\ outcome \in [Acquisitions -> Answers]
      /\ aborted \in SUBSET Acquisitions /\ slots \in SUBSET Acquisitions
      /\ deferred \in SUBSET slots /\ unhealthy \in BOOLEAN /\ leased \in SUBSET Acquisitions
  BY DEF IInv, AcquisitionTypeOK, PoolTypeOK, ChainTypeOK, Places, Answers
<1>3. ASSUME NEW a \in Acquisitions
      PROVE  /\ chain'[a] \in Chains /\ chain'[a].endpoint = chain[a].endpoint
             /\ chain'[a].at = chain[a].at
             /\ \/ chain'[a] = chain[a] /\ pc[a] # "running"
                \/ chain'[a].closed /\ ~chain'[a].admitting /\ pc[a] = "running"
  BY <1>1, <1>2, FrozenChain
<1>4. AcquisitionTypeOK'
  <2>1. ChainTypeOK'
    <3>1. chain' \in [Acquisitions -> Chains]
      BY <1>1, <1>3
    <3>2. \A a \in Acquisitions : chain'[a].endpoint <= Endpoints[a]
      BY <1>2, <1>3
    <3> QED
      BY <3>1, <3>2 DEF ChainTypeOK
  <2>2. PoolTypeOK'
    BY <1>1, <1>2 DEF PoolTypeOK, Clients
  <2>3. pc' \in [Acquisitions -> Places] /\ outcome' \in [Acquisitions -> Answers]
    BY <1>1, <1>2 DEF Places, Answers
  <2>4. torrent' \in [Acquisitions -> StagingTorrents]
    BY <1>1, <1>2 DEF StagingTorrents
  <2>5. aborted' \in SUBSET Acquisitions
    BY <1>1, <1>2 DEF AbortedByClose
  <2> QED
    BY <1>1, <1>2, <2>1, <2>2, <2>3, <2>4, <2>5 DEF AcquisitionTypeOK, Places, Answers
<1>5. Few'
  BY <1>1 DEF IInv, Few
<1>6. ASSUME NEW a \in Acquisitions PROVE Sound(a)'
  <2>1. /\ Sound(a)
        /\ client'[a] = IF client[a] = "up" THEN "destroying" ELSE client[a]
        /\ pc'[a] = IF pc[a] = "running" THEN "stopping" ELSE pc[a]
        /\ torrent'[a] = IF torrent[a] = "up" THEN "taken" ELSE torrent[a]
    BY <1>1 DEF IInv
  <2>2. Stopped(a)' = Stopped(a)
    BY <1>3 DEF Stopped
  <2>3. Staged(a)'
    BY <1>1, <1>3, <2>1, <2>2 DEF Sound, Staged
  <2>4. Slotted(a)' /\ Pooled(a)'
    BY <1>1, <2>1 DEF Sound, Slotted, Pooled
  <2>5. Chained(a)'
    BY <1>3, <2>1, <2>2 DEF Sound, Chained
  <2> QED
    BY <2>3, <2>4, <2>5 DEF Sound
<1> QED
  BY <1>4, <1>5, <1>6 DEF IInv

-----------------------------------------------------------------------------

LEMMA InitIInv == AcquisitionInit => IInv
<1> SUFFICES ASSUME AcquisitionInit PROVE IInv
  OBVIOUS
<1>1. AcquisitionTypeOK
  <2>1. NoChain \in Chains
    BY DEF NoChain, Chains
  <2>2. ChainTypeOK
    BY <2>1 DEF AcquisitionInit, ChainInit, ChainTypeOK, NoChain
  <2>3. PoolTypeOK
    BY DEF AcquisitionInit, PoolInit, PoolTypeOK, Clients
  <2> QED
    BY <2>2, <2>3 DEF AcquisitionInit, AcquisitionTypeOK, StagingTorrents
<1>2. Few
  <2>1. IsFiniteSet({}) /\ Cardinality({}) = 0
    BY FS_EmptySet
  <2> QED
    BY <2>1 DEF AcquisitionInit, Few
<1>3. ASSUME NEW a \in Acquisitions PROVE Sound(a)
  BY DEF AcquisitionInit, ChainInit, PoolInit, Sound, Staged, Slotted, Pooled, Chained, NoChain, Stopped
<1> QED
  BY <1>1, <1>2, <1>3 DEF IInv

LEMMA StutterIInv == IInv /\ UNCHANGED acquisitionVars => IInv'
<1> SUFFICES ASSUME IInv, UNCHANGED acquisitionVars PROVE IInv'
  OBVIOUS
<1>1. /\ UNCHANGED <<pc, torrent, outcome, slots, deferred, aborted, unhealthy, chain>>
      /\ UNCHANGED <<client, leased, poolClosed, poolUnhealthy>>
  BY DEF acquisitionVars, poolVars, acqVars
<1>2. AcquisitionTypeOK' /\ Few'
  BY <1>1 DEF IInv, AcquisitionTypeOK, Few, PoolTypeOK, ChainTypeOK
<1>3. ASSUME NEW a \in Acquisitions PROVE Sound(a)'
  BY <1>1, SameSound DEF IInv, Same
<1> QED
  BY <1>2, <1>3 DEF IInv

LEMMA NextIInv == IInv /\ [AcquisitionNext]_acquisitionVars => IInv'
<1> SUFFICES ASSUME IInv, AcquisitionNext PROVE IInv'
  BY StutterIInv
<1>1. ASSUME NEW a \in Acquisitions,
             Acquire(a) \/ Abort(a) \/ MetadataArrives(a) \/ TorrentFails(a) \/ ClientError(a)
             \/ TorrentDestroyedLate(a) \/ ClientDestroyedLate(a) \/ EndpointAnswers(a)
      PROVE  IInv'
  BY <1>1, AcquireInv, AbortInv, MetadataInv, TorrentFailsInv, ClientAloneInv,
     TorrentDestroyedLateInv, ChainInv
<1>2. ASSUME NEW a \in Acquisitions, Bounded(a) PROVE IInv'
  BY <1>2, ClientListensInv, ClientAloneInv, ClientDestroyedInv, WaitEndsInv, ChainInv,
     TeardownInv, TorrentDestroyedInv, ReleasesDeferredInv DEF Bounded
<1>3. ASSUME ShutdownAcquisitions PROVE IInv'
  BY <1>3, ShutdownInv
<1> QED
  BY <1>1, <1>2, <1>3 DEF AcquisitionNext

\* Each acquisition's client, torrent and chain are taken and given up in order,
\* and its slot and its place in the pool with them, for any number of them.
THEOREM AcquisitionInductive == AcquisitionSpec => []IInv
<1> QED
  BY InitIInv, NextIInv, PTL DEF AcquisitionSpec

\* What may still run of an acquisition is counted by #active of
\* metadata-acquisition.ts, and takes no peers once its torrent is destroyed,
\* however late, failed or missing the destroy callbacks are.
THEOREM TeardownComplete == AcquisitionSpec => []TeardownIsComplete
<1>1. IInv => TeardownIsComplete
  <2> SUFFICES ASSUME IInv PROVE TeardownIsComplete
    OBVIOUS
  <2>1. ASSUME NEW a \in Acquisitions, AtWork(a) PROVE a \in slots
    BY <2>1 DEF IInv, AcquisitionTypeOK, Sound, Staged, Slotted, AtWork, ClientExists, Stopped, NoChain
  <2>2. poolUnhealthy \/ leased \subseteq slots
    BY DEF IInv, AcquisitionTypeOK, PoolTypeOK, Sound, Pooled
  <2>3. FrozenBeforeDestroyed
    BY DEF IInv, Sound, Chained, Stopped, FrozenBeforeDestroyed
  <2> QED
    BY <2>1, <2>2, <2>3 DEF IInv, Few, TeardownIsComplete, WorkHoldsSlots
<1> QED
  BY <1>1, AcquisitionInductive, PTL

-----------------------------------------------------------------------------
(* One tracker at a time.                                                  *)

\* What a step may do to the contacts of one chain.
ContactStep(a) ==
    \/ Held(a)' = Held(a) /\ (chain'[a].closed = chain[a].closed \/ chain'[a].closed = TRUE)
    \/ /\ chain'[a].closed = chain[a].closed /\ ~chain[a].closed /\ Held(a) = {}
       /\ \E e \in 1..Endpoints[a] : Held(a)' = {e}
    \/ /\ chain'[a].closed = chain[a].closed
       /\ \E e \in Held(a) : Held(a)' = Held(a) \ {e}

LEMMA ContactStepIsNext ==
    ASSUME NEW a \in Acquisitions, ContactStep(a),
           chain[a].closed \in BOOLEAN, Held(a) \subseteq 1..Endpoints[a]
    PROVE  [Contact(a)!Next]_(Contact(a)!vars)
<1>1. CASE Held(a)' = Held(a) /\ chain'[a].closed = chain[a].closed
  BY <1>1 DEF Contact!vars
<1>2. CASE Held(a)' = Held(a) /\ chain'[a].closed = TRUE
  BY <1>2 DEF Contact!Next, Contact!Close
<1>3. CASE /\ chain'[a].closed = chain[a].closed /\ ~chain[a].closed /\ Held(a) = {}
           /\ \E e \in 1..Endpoints[a] : Held(a)' = {e}
  BY <1>3 DEF Contact!Next, Contact!Begin
<1>4. CASE /\ chain'[a].closed = chain[a].closed
           /\ \E e \in Held(a) : Held(a)' = Held(a) \ {e}
  BY <1>4 DEF Contact!Next, Contact!Leave
<1> QED
  BY <1>1, <1>2, <1>3, <1>4 DEF ContactStep

\* A chain that keeps its place and its endpoint keeps its contact.
LEMMA SamePlace ==
    ASSUME NEW a \in Acquisitions, chain'[a].at = chain[a].at,
           chain'[a].endpoint = chain[a].endpoint,
           chain'[a].closed = chain[a].closed \/ chain'[a].closed = TRUE
    PROVE  ContactStep(a)
  BY DEF ContactStep, Held

LEMMA FreezeContacts ==
    ASSUME IInv, NEW a \in Acquisitions, chain' = [chain EXCEPT ![a] = Frozen(@)],
           NEW q \in Acquisitions
    PROVE  ContactStep(q)
<1>1. /\ chain'[a].at = chain[a].at /\ chain'[a].endpoint = chain[a].endpoint
      /\ chain'[a].closed = TRUE
      /\ q # a => chain'[q] = chain[q]
  <2>1. chain \in [Acquisitions -> Chains]
    BY DEF IInv, AcquisitionTypeOK, ChainTypeOK
  <2> QED
    BY <2>1, FrozenChain
<1> QED
  BY <1>1, SamePlace

LEMMA ChainContacts ==
    ASSUME IInv, NEW a \in Acquisitions, EndpointAnswers(a) \/ ChainRuns(a),
           NEW q \in Acquisitions
    PROVE  ContactStep(q)
<1> DEFINE c == chain[a]
<1>1. /\ chain \in [Acquisitions -> Chains] /\ c \in Chains /\ Endpoints[a] \in Nat
      /\ c.endpoint \in Nat
      /\ c.at # "idle" => c.endpoint \in 1..Endpoints[a]
  BY DEF IInv, AcquisitionTypeOK, ChainTypeOK, Chains, Sound, Chained
<1>2. CASE q # a
  <2>1. chain'[q] = chain[q]
    BY <1>1, <1>2 DEF EndpointAnswers, ChainRuns, Activated, EndpointFailed, ClosedSeen,
                      AttemptStopped, Continues
  <2> QED
    BY <2>1, SamePlace
<1>3. CASE q = a /\ Activated(a)
  <2>1. chain'[a] = Settle(c, "ok")
    BY <1>1, <1>3 DEF Activated
  <2> QED
    BY <1>1, <1>3, <2>1, SettledChain, SamePlace
<1>4. CASE q = a /\ (EndpointFailed(a) \/ ClosedSeen(a))
  <2>1. /\ c.at = "trying" /\ chain'[a].at \in {"retiring", "ending"}
        /\ chain'[a].endpoint = c.endpoint /\ chain'[a].closed = c.closed
    BY <1>1, <1>4 DEF EndpointFailed, ClosedSeen, Chains
  <2> QED
    BY <1>4, <2>1 DEF ContactStep, Held
<1>5. CASE q = a /\ AttemptStopped(a)
  <2>1. /\ c.at \in {"retiring", "ending"} /\ chain'[a].at \in {"stopped", "done"}
        /\ chain'[a].closed = c.closed
    BY <1>1, <1>5 DEF AttemptStopped, Chains
  <2>2. Held(a) = {c.endpoint} /\ Held(a)' = {}
    BY <2>1 DEF Held
  <2> QED
    BY <1>5, <2>1, <2>2 DEF ContactStep
<1>6. CASE q = a /\ Continues(a) /\ MovesOn(a)
  <2>1. /\ c.at = "stopped" /\ c.closed = FALSE /\ c.endpoint < Endpoints[a]
        /\ chain'[a] = Attempt(c, c.endpoint + 1) /\ c.endpoint + 1 \in Nat
    BY <1>1, <1>6 DEF Continues, MovesOn, Chains
  <2>2. /\ Attempt(c, c.endpoint + 1).at = "trying"
        /\ Attempt(c, c.endpoint + 1).endpoint = c.endpoint + 1
        /\ Attempt(c, c.endpoint + 1).closed = c.closed
    BY <1>1, <2>1, AttemptChain, Zenon
  <2>3. /\ chain'[a].at = "trying" /\ chain'[a].endpoint = c.endpoint + 1
        /\ chain'[a].closed = c.closed
    BY <2>1, <2>2, Zenon
  <2>4. Held(a) = {} /\ Held(a)' = {c.endpoint + 1} /\ c.endpoint + 1 \in 1..Endpoints[a]
    BY <1>1, <2>1, <2>3 DEF Held
  <2> QED
    BY <1>6, <2>1, <2>3, <2>4 DEF ContactStep
<1>7. CASE q = a /\ Continues(a) /\ ~MovesOn(a)
  <2> DEFINE e == IF c.closed THEN c ELSE Settle(c, "rejected")
  <2>1. c.at = "stopped" /\ chain'[a] = [e EXCEPT !.at = "done"]
    BY <1>1, <1>7 DEF Continues
  <2>2. e \in Chains /\ e.closed = c.closed
    BY <1>1, SettledChain
  <2> HIDE DEF e
  <2>3. chain'[a].at = "done" /\ chain'[a].closed = c.closed
    BY <2>1, <2>2 DEF Chains
  <2> QED
    BY <1>7, <2>1, <2>3 DEF ContactStep, Held
<1> QED
  BY <1>2, <1>3, <1>4, <1>5, <1>6, <1>7 DEF EndpointAnswers, ChainRuns

LEMMA StartContacts ==
    ASSUME IInv, NEW a \in Acquisitions, ClientListens(a), NEW q \in Acquisitions
    PROVE  ContactStep(q)
<1>1. /\ chain \in [Acquisitions -> Chains] /\ Endpoints[a] \in Nat
      /\ chain[a] = NoChain /\ chain[a] \in Chains
  BY DEF IInv, AcquisitionTypeOK, ChainTypeOK, ClientListens, Listening, Sound, Staged
<1>2. chain' = chain \/ chain' = [chain EXCEPT ![a] = Started(a)]
  BY DEF ClientListens
<1>3. CASE chain'[q] = chain[q]
  BY <1>3, SamePlace
<1>4. CASE q = a /\ chain'[a] = Started(a) /\ Endpoints[a] # 0
  <2>1. chain'[a] = Attempt(chain[a], 1) /\ 1 \in Nat /\ 1 \in 1..Endpoints[a]
    BY <1>1, <1>4 DEF Started
  <2>2. /\ Attempt(chain[a], 1).at = "trying" /\ Attempt(chain[a], 1).endpoint = 1
        /\ Attempt(chain[a], 1).closed = chain[a].closed
    BY <1>1, <2>1, AttemptChain, Zenon
  <2>3. /\ chain'[a].at = "trying" /\ chain'[a].endpoint = 1
        /\ chain'[a].closed = chain[a].closed
    BY <2>1, <2>2, Zenon
  <2>4. Held(a) = {} /\ Held(a)' = {1} /\ ~chain[a].closed
    BY <1>1, <2>3 DEF Held, NoChain
  <2> QED
    BY <1>4, <2>1, <2>3, <2>4 DEF ContactStep
<1>5. CASE q = a /\ chain'[a] = Started(a) /\ Endpoints[a] = 0
  BY <1>5, <1>3 DEF Started
<1> QED
  BY <1>1, <1>2, <1>3, <1>4, <1>5

LEMMA NextContacts ==
    ASSUME IInv, AcquisitionNext, NEW q \in Acquisitions
    PROVE  ContactStep(q)
<1>1. ASSUME chain' = chain PROVE ContactStep(q)
  BY <1>1, SamePlace
<1>2. ASSUME NEW a \in Acquisitions,
             TimesOut(a) \/ DiscoveryFails(a) \/ Abort(a) \/ TorrentFails(a) \/ MetadataArrives(a)
             \/ TorrentDestroyed(a)
      PROVE  ContactStep(q)
  <2>1. chain' = chain \/ chain' = [chain EXCEPT ![a] = Frozen(@)]
    <3>1. TorrentDestroyed(a) => pc[a] \in {"running", "stopping", "destroying"}
      BY DEF IInv, AcquisitionTypeOK, Sound, Staged, TorrentDestroyed
    <3>2. TorrentDestroyed(a) => chain' = chain \/ chain' = [chain EXCEPT ![a] = Frozen(@)]
      BY <3>1 DEF TorrentDestroyed, Finishes
    <3> QED
      BY <1>2, <3>2 DEF TimesOut, DiscoveryFails, Abort, TorrentFails, MetadataArrives, Finishes
  <2> QED
    BY <1>1, <2>1, FreezeContacts
<1>3. ASSUME NEW a \in Acquisitions,
             Acquire(a) \/ ClientError(a) \/ TorrentDestroyedLate(a) \/ ClientDestroyedLate(a)
             \/ ClientDoesNotListen(a) \/ ClientDestroyed(a) \/ Teardown(a) \/ ReleasesDeferred(a)
      PROVE  ContactStep(q)
  <2>1. chain' = chain
    BY <1>3 DEF Acquire, ClientError, TorrentDestroyedLate, ClientDestroyedLate,
                ClientDoesNotListen, ClientDestroyed, Teardown, ReleasesDeferred
  <2> QED
    BY <1>1, <2>1
<1>4. ASSUME NEW a \in Acquisitions, ClientListens(a) \/ EndpointAnswers(a) \/ ChainRuns(a)
      PROVE  ContactStep(q)
  BY <1>4, StartContacts, ChainContacts
<1>5. ASSUME ShutdownAcquisitions PROVE ContactStep(q)
  <2>1. chain'[q] = IF pc[q] = "running" THEN Frozen(chain[q]) ELSE chain[q]
    BY <1>5 DEF ShutdownAcquisitions
  <2>2. chain[q] \in Chains
    BY DEF IInv, AcquisitionTypeOK, ChainTypeOK
  <2> QED
    BY <2>1, <2>2, FrozenChain, SamePlace
<1> QED
  BY <1>2, <1>3, <1>4, <1>5 DEF AcquisitionNext, Bounded

\* Each step of an acquisition's chain is one of OneContact's, or none: a tracker
\* is contacted only when nothing is left of the one before it (the await of
\* attempt.stop() in staging-tracker-chain.ts), and none after freeze().
THEOREM StagingContactsOne == AcquisitionSpec => OneTrackerAtATime
<1>1. IInv /\ [AcquisitionNext]_acquisitionVars =>
        [\A a \in Acquisitions : [Contact(a)!Next]_(Contact(a)!vars)]_chain
  <2> SUFFICES ASSUME IInv, [AcquisitionNext]_acquisitionVars, chain' # chain, NEW a \in Acquisitions
               PROVE  [Contact(a)!Next]_(Contact(a)!vars)
    OBVIOUS
  <2>1. AcquisitionNext
    BY DEF acquisitionVars
  <2>2. ContactStep(a)
    BY <2>1, NextContacts
  <2>3. chain[a].closed \in BOOLEAN /\ Held(a) \subseteq 1..Endpoints[a]
    BY DEF IInv, AcquisitionTypeOK, ChainTypeOK, Chains, Sound, Chained, Held
  <2> QED
    BY <2>2, <2>3, ContactStepIsNext
<1> QED
  BY <1>1, AcquisitionInductive, PTL DEF AcquisitionSpec, OneTrackerAtATime

(* ------------------------- the private tracker chain ------------------------ *)

Retiring(s) == member[s].advance = "retiring"

\* A member is alive exactly until its failure is heard, and is the active one.
ActiveLives ==
    \A s \in Slots :
        /\ member[s].sockets = "live" => ~member[s].advanced
        /\ ~member[s].advanced => active = s /\ member[s].next = None

\* What is being stopped, an advance awaits: its own member's.
StoppedIsAwaited ==
    \A s \in Slots : member[s].sockets = "stopping" => Retiring(s)

\* One advance at a time retires, between two members and before any backoff.
OneRetires ==
    \A s \in Slots : Retiring(s) =>
        /\ active = None /\ timer = "none" /\ started
        /\ \A r \in Slots : Retiring(r) => r = s

\* A backoff, like a chain that has not been started, has no member.
BackoffIsEmpty ==
    /\ timer # "none" \/ ~started => active = None
    /\ timer # "none" => started

\* An advance awaits a start only after its retirement.
AwaitsActivation ==
    \A s \in Slots : member[s].next # None => member[s].advance = "activating"

OpenInv ==
    /\ ActiveLives /\ StoppedIsAwaited /\ OneRetires
    /\ BackoffIsEmpty /\ AwaitsActivation

\* Once the chain is closed nothing is begun, and nothing more is needed.
PrivateInv == ControlTypeOK /\ (stopper # "none" => closed) /\ (~closed => OpenInv)

USE ChainAssumption

-----------------------------------------------------------------------------

LEMMA PrivateInitInv == PrivateInit => PrivateInv
<1> SUFFICES ASSUME PrivateInit PROVE PrivateInv
    OBVIOUS
<1>1. Vacant \in Members
  BY DEF Vacant, Members
<1>2. ControlTypeOK
  <2>1. 1 \in 1..PrivateEndpoints
    OBVIOUS
  <2>2. member \in [Slots -> Members]
    BY <1>1 DEF PrivateInit
  <2> QED
    BY <2>1, <2>2 DEF PrivateInit, ControlTypeOK
<1>3. OpenInv
  BY DEF PrivateInit, Vacant, OpenInv, ActiveLives, StoppedIsAwaited, OneRetires, BackoffIsEmpty,
      AwaitsActivation, Retiring
<1> QED
  BY <1>2, <1>3 DEF PrivateInit, PrivateInv

\* A failure that has been heard is one more fact about a member.
LEMMA HeardMember ==
    ASSUME NEW r \in Members
    PROVE  /\ [r EXCEPT !.advanced = TRUE] \in Members
           /\ [r EXCEPT !.advanced = TRUE, !.advance = "retiring"] \in Members
BY DEF Members

\* What the return of a start leaves of each member.
LEMMA SettledKeeps ==
    ASSUME ControlTypeOK, NEW s \in Slots
    PROVE  /\ Settled(member, s) \in [Slots -> Members]
           /\ \A r \in Slots :
                /\ Settled(member, s)[r].sockets = member[r].sockets
                /\ Settled(member, s)[r].advanced = member[r].advanced
                /\ \/ /\ Settled(member, s)[r].advance = member[r].advance
                      /\ Settled(member, s)[r].next = member[r].next
                   \/ /\ r # s /\ member[r].next = s
                      /\ Settled(member, s)[r].advance = "none"
                      /\ Settled(member, s)[r].next = None
<1> SUFFICES ASSUME NEW r \in Slots
             PROVE  /\ Settled(member, s)[r] \in Members
                    /\ Settled(member, s)[r].sockets = member[r].sockets
                    /\ Settled(member, s)[r].advanced = member[r].advanced
                    /\ \/ /\ Settled(member, s)[r].advance = member[r].advance
                          /\ Settled(member, s)[r].next = member[r].next
                       \/ /\ r # s /\ member[r].next = s
                          /\ Settled(member, s)[r].advance = "none"
                          /\ Settled(member, s)[r].next = None
  BY DEF Settled
<1>1. member[r] \in Members
  BY DEF ControlTypeOK
<1>2. CASE r = s
  BY <1>1, <1>2 DEF Settled, Members
<1>3. CASE r # s /\ member[r].next = s
  BY <1>1, <1>3 DEF Settled, Members
<1>4. CASE r # s /\ member[r].next # s
  BY <1>1, <1>4 DEF Settled, Members
<1> QED
  BY <1>2, <1>3, <1>4

\* What #retire() leaves of each member.
LEMMA StoppingKeeps ==
    ASSUME NEW m \in [Slots -> Members], NEW a \in Slots \cup {None}
    PROVE  /\ Stopping(m, a) \in [Slots -> Members]
           /\ \A r \in Slots :
                /\ Stopping(m, a)[r].advanced = m[r].advanced
                /\ Stopping(m, a)[r].advance = m[r].advance
                /\ Stopping(m, a)[r].next = m[r].next
                /\ Stopping(m, a)[r].sockets =
                     IF r = a /\ m[r].sockets = "live" THEN "stopping" ELSE m[r].sockets
<1>1. CASE a = None
  BY <1>1 DEF Stopping
<1>2. CASE a # None
  <2>1. Stopping(m, a) = [m EXCEPT ![a].sockets = IF @ = "live" THEN "stopping" ELSE @]
    BY <1>2 DEF Stopping
  <2>2. a \in Slots /\ m[a] \in Members
    BY <1>2
  <2> QED
    BY <2>1, <2>2 DEF Members
<1> QED
  BY <1>1, <1>2

-----------------------------------------------------------------------------
(* The steps.                                                              *)

\* A new member where there is none.
LEMMA StartInv ==
    ASSUME PrivateInv, NEW s \in Slots, Start(s) \/ TimerFires(s)
    PROVE  PrivateInv'
<1>1. New \in Members
  BY DEF New, Members
<1>2. ControlTypeOK'
  BY <1>1 DEF PrivateInv, ControlTypeOK, Start, TimerFires, stopVars
<1>3. /\ ~closed /\ active = None /\ active' = s /\ started' /\ timer' = "none"
      /\ \A r \in Slots : ~Retiring(r) /\ member[r].next # s
  BY DEF PrivateInv, ControlTypeOK, OpenInv, BackoffIsEmpty, OneRetires, Start, TimerFires, Vacated
<1>4. member'[s] = New /\ \A r \in Slots : r # s => member'[r] = member[r]
  BY DEF PrivateInv, ControlTypeOK, Start, TimerFires
<1> QED
  <2>1. closed' = closed /\ stopper' = stopper
    BY DEF Start, TimerFires, stopVars
  <2>2. PrivateInv /\ OpenInv
    BY <1>3 DEF PrivateInv
  <2>3. ActiveLives' /\ StoppedIsAwaited'
    BY <1>3, <1>4, <2>2 DEF OpenInv, ActiveLives, StoppedIsAwaited, Retiring, New
  <2>4. OneRetires'
    BY <1>3, <1>4 DEF OneRetires, Retiring, New
  <2>5. BackoffIsEmpty' /\ AwaitsActivation'
    BY <1>3, <1>4, <2>2 DEF OpenInv, BackoffIsEmpty, AwaitsActivation, New
  <2> QED
    BY <1>2, <2>1, <2>2, <2>3, <2>4, <2>5 DEF PrivateInv, OpenInv

LEMMA StartReturnsInv ==
    ASSUME PrivateInv, NEW s \in Slots, StartReturns(s)
    PROVE  PrivateInv'
<1>1. ControlTypeOK'
  BY SettledKeeps DEF PrivateInv, ControlTypeOK, StartReturns, chainVars, stopVars
<1>2. ASSUME ~closed PROVE OpenInv'
  <2>1. OpenInv /\ ControlTypeOK
    BY <1>2 DEF PrivateInv
  <2>2. \A r \in Slots :
          /\ member'[r].sockets = member[r].sockets
          /\ member'[r].advanced = member[r].advanced
          /\ \/ member'[r].advance = member[r].advance /\ member'[r].next = member[r].next
             \/ member[r].next = s /\ member'[r].advance = "none" /\ member'[r].next = None
    BY <2>1, SettledKeeps DEF StartReturns
  <2> QED
    BY <2>1, <2>2 DEF OpenInv, ActiveLives, StoppedIsAwaited, OneRetires, BackoffIsEmpty,
        AwaitsActivation, Retiring, StartReturns, chainVars
<1> QED
  BY <1>1, <1>2 DEF PrivateInv, StartReturns, stopVars

\* A failure stops the active member, whose own it is.
LEMMA FailsInv ==
    ASSUME PrivateInv, NEW s \in Slots, MemberFails(s)
    PROVE  PrivateInv'
<1>1. PICK m \in {member, Settled(member, s)} : Advance(m, s)
  BY DEF MemberFails
<1>2. /\ m \in [Slots -> Members]
      /\ \A r \in Slots :
           /\ m[r].sockets = member[r].sockets /\ m[r].advanced = member[r].advanced
           /\ \/ m[r].advance = member[r].advance /\ m[r].next = member[r].next
              \/ r # s /\ member[r].next = s /\ m[r].advance = "none" /\ m[r].next = None
  BY <1>1, SettledKeeps DEF PrivateInv, ControlTypeOK
<1>3. CASE closed
  <2>1. member' = [m EXCEPT ![s].advanced = TRUE]
    BY <1>1, <1>3 DEF Advance
  <2>2. member' \in [Slots -> Members]
    BY <2>1, <1>2, HeardMember
  <2> QED
    BY <2>2, <1>1, <1>3 DEF PrivateInv, ControlTypeOK, Advance, MemberFails, stopVars
<1>4. CASE ~closed
  <2> DEFINE n == [m EXCEPT ![s].advanced = TRUE, ![s].advance = "retiring"]
  <2>1. n \in [Slots -> Members]
    BY <1>2, HeardMember
  <2>2. /\ n[s].sockets = m[s].sockets /\ n[s].advanced /\ n[s].advance = "retiring"
        /\ n[s].next = m[s].next
        /\ \A r \in Slots : r # s => n[r] = m[r]
    BY <1>2 DEF Members
  <2>3. member' = Stopping(n, active) /\ advancing' = s /\ active' = None
    BY <1>1, <1>4 DEF Advance
  <2>4. OpenInv /\ ControlTypeOK /\ active = s /\ member[s].next = None
    BY <1>4 DEF PrivateInv, OpenInv, ActiveLives, MemberFails
  <2> HIDE DEF n
  <2>5. /\ member' \in [Slots -> Members]
        /\ \A r \in Slots :
             /\ member'[r].advanced = n[r].advanced
             /\ member'[r].advance = n[r].advance
             /\ member'[r].next = n[r].next
             /\ member'[r].sockets =
                  IF r = s /\ n[r].sockets = "live" THEN "stopping" ELSE n[r].sockets
    BY <2>1, <2>3, <2>4, StoppingKeeps
  <2>6. ControlTypeOK'
    BY <2>3, <2>4, <2>5 DEF ControlTypeOK, MemberFails, stopVars
  <2>7. \A r \in Slots : ~Retiring(r)
    BY <2>4 DEF OpenInv, OneRetires
  <2>8. /\ timer' = "none" /\ started' /\ active' = None
        /\ timer = "none" /\ started
    BY <2>3, <2>4 DEF OpenInv, BackoffIsEmpty, ControlTypeOK, MemberFails
  <2>9. /\ member'[s].advanced /\ member'[s].next = None /\ Retiring(s)'
        /\ member'[s].sockets # "live"
    BY <2>2, <2>4, <2>5, <1>2 DEF Retiring
  <2>10. \A r \in Slots : r # s =>
           /\ member'[r].sockets = member[r].sockets /\ member'[r].advanced = member[r].advanced
           /\ \/ member'[r].advance = member[r].advance /\ member'[r].next = member[r].next
              \/ member'[r].advance = "none" /\ member'[r].next = None
    BY <2>2, <2>5, <1>2
  <2>11. OpenInv'
    <3>1. ActiveLives'
      BY <2>4, <2>9, <2>10 DEF OpenInv, ActiveLives
    <3>2. StoppedIsAwaited' /\ OneRetires'
      BY <2>4, <2>7, <2>8, <2>9, <2>10 DEF OpenInv, StoppedIsAwaited, OneRetires, Retiring
    <3>3. BackoffIsEmpty' /\ AwaitsActivation'
      BY <2>4, <2>8, <2>9, <2>10 DEF OpenInv, BackoffIsEmpty, AwaitsActivation
    <3> QED
      BY <3>1, <3>2, <3>3 DEF OpenInv
  <2> QED
    BY <2>6, <2>11 DEF PrivateInv, MemberFails, stopVars
<1> QED
  BY <1>3, <1>4

LEMMA MemberStoppedInv ==
    ASSUME PrivateInv, NEW s \in Slots, MemberStopped(s)
    PROVE  PrivateInv'
<1>1. member \in [Slots -> Members] /\ member' = [member EXCEPT ![s].sockets = "idle"]
  BY DEF PrivateInv, ControlTypeOK, MemberStopped
<1>2. /\ member' \in [Slots -> Members] /\ member'[s].sockets = "idle"
      /\ member'[s].advanced = member[s].advanced /\ member'[s].advance = member[s].advance
      /\ member'[s].next = member[s].next
      /\ \A r \in Slots : r # s => member'[r] = member[r]
  BY <1>1 DEF Members
<1>3. ControlTypeOK'
  BY <1>2 DEF PrivateInv, ControlTypeOK, MemberStopped, chainVars, stopVars
<1> QED
  BY <1>2, <1>3 DEF PrivateInv, OpenInv, ActiveLives, StoppedIsAwaited, OneRetires, BackoffIsEmpty,
      AwaitsActivation, Retiring, MemberStopped, chainVars, stopVars

\* The end of a retirement: no member has anything left.
LEMMA NothingLeft ==
    ASSUME PrivateInv, NEW s \in Slots, MayAdvance(s)
    PROVE  /\ active = None /\ timer = "none" /\ started /\ ~closed
           /\ \A r \in Slots : member[r].sockets = "idle" /\ member[r].advanced
           /\ \A r \in Slots : Retiring(r) => r = s
<1>1. ControlTypeOK /\ OpenInv /\ ~closed /\ started /\ Retiring(s) /\ member[s].sockets = "idle"
  BY DEF MayAdvance, Retired, Retiring, PrivateInv
<1>2. active = None /\ timer = "none" /\ \A r \in Slots : Retiring(r) => r = s
  BY <1>1 DEF OpenInv, OneRetires
<1>3. ASSUME NEW r \in Slots PROVE member[r].sockets = "idle" /\ member[r].advanced
  <2>1. member[r].advanced
    BY <1>1, <1>2 DEF OpenInv, ActiveLives
  <2>2. member[r].sockets # "live" /\ member[r].sockets # "stopping"
    BY <1>1, <1>2, <2>1 DEF OpenInv, ActiveLives, StoppedIsAwaited
  <2>3. member[r].sockets \in {"idle", "live", "stopping"}
    BY <1>1 DEF ControlTypeOK, Members
  <2> QED
    BY <2>1, <2>2, <2>3
<1> QED
  BY <1>1, <1>2, <1>3

LEMMA AdvanceNextInv ==
    ASSUME PrivateInv, NEW s \in Slots, NEW t \in Slots, AdvanceNext(s, t)
    PROVE  PrivateInv'
<1>1. /\ MayAdvance(s) /\ Vacated(t) /\ member \in [Slots -> Members] /\ ControlTypeOK /\ OpenInv
      /\ member[s].advance = "retiring" /\ member[t].advance = "none" /\ s # t
      /\ New \in Members
  BY DEF AdvanceNext, MayAdvance, Retired, Vacated, PrivateInv, ControlTypeOK, New, Members
<1>2. /\ member' \in [Slots -> Members] /\ member'[t] = New
      /\ member'[s].sockets = member[s].sockets /\ member'[s].advanced = member[s].advanced
      /\ member'[s].advance = "activating" /\ member'[s].next = t
      /\ \A r \in Slots : r \notin {s, t} => member'[r] = member[r]
  <2>1. member' = [member EXCEPT ![s].advance = "activating", ![s].next = t, ![t] = New]
    BY DEF AdvanceNext
  <2> QED
    BY <1>1, <2>1 DEF Members
<1>3. index' \in 1..PrivateEndpoints
  BY <1>1 DEF AdvanceNext, HasNext, ControlTypeOK
<1>4. ControlTypeOK'
  BY <1>1, <1>2, <1>3 DEF ControlTypeOK, AdvanceNext, stopVars
<1>5. active' = t /\ timer' = "none" /\ started'
  BY <1>1, NothingLeft DEF AdvanceNext
<1>6. OpenInv'
  <2>1. /\ \A r \in Slots : r # t => member'[r].sockets = "idle" /\ member'[r].advanced
        /\ \A r \in Slots : ~Retiring(r)'
    BY <1>1, <1>2, NothingLeft DEF Retiring, New
  <2>2. AwaitsActivation'
    BY <1>1, <1>2 DEF OpenInv, AwaitsActivation, New
  <2> QED
    BY <1>2, <1>5, <2>1, <2>2 DEF OpenInv, ActiveLives, StoppedIsAwaited, OneRetires,
        BackoffIsEmpty, New
<1> QED
  BY <1>4, <1>6 DEF PrivateInv, AdvanceNext, stopVars

LEMMA AdvanceOverInv ==
    ASSUME PrivateInv, NEW s \in Slots, AdvanceEnds(s) \/ AdvanceWaits(s)
    PROVE  PrivateInv'
<1>1. member \in [Slots -> Members] /\ member' = Over(s) /\ member[s].advance = "retiring"
  BY DEF PrivateInv, ControlTypeOK, AdvanceEnds, AdvanceWaits, MayAdvance, Retired
<1>2. /\ member' \in [Slots -> Members] /\ member'[s].advance = "none"
      /\ member'[s].sockets = member[s].sockets /\ member'[s].advanced = member[s].advanced
      /\ member'[s].next = member[s].next
      /\ \A r \in Slots : r # s => member'[r] = member[r]
  BY <1>1 DEF Over, Members
<1>3. ControlTypeOK'
  BY <1>2 DEF PrivateInv, ControlTypeOK, AdvanceEnds, AdvanceWaits, chainVars, stopVars
<1>4. ASSUME ~closed PROVE OpenInv'
  <2>1. OpenInv /\ ControlTypeOK
    BY <1>4 DEF PrivateInv
  <2>2. started
    BY <1>1, <2>1 DEF OpenInv, OneRetires, Retiring
  <2>3. AdvanceWaits(s) /\ MayAdvance(s)
    BY <1>4, <2>2 DEF AdvanceEnds, AdvanceWaits
  <2>4. active' = None /\ started' /\ \A r \in Slots : ~Retiring(r)'
    BY <1>2, <2>3, NothingLeft DEF AdvanceWaits, Retiring
  <2>5. \A r \in Slots : member'[r].sockets = "idle" /\ member'[r].advanced
    BY <1>2, <2>3, NothingLeft
  <2>6. AwaitsActivation'
    BY <1>1, <1>2, <2>1 DEF OpenInv, AwaitsActivation
  <2> QED
    BY <2>4, <2>5, <2>6 DEF OpenInv, ActiveLives, StoppedIsAwaited, OneRetires, BackoffIsEmpty
<1> QED
  BY <1>3, <1>4 DEF PrivateInv, AdvanceEnds, AdvanceWaits, stopVars

LEMMA ClockInv ==
    ASSUME PrivateInv, ClockSetBack \/ TimerFiresEarly
    PROVE  PrivateInv'
<1>1. ControlTypeOK'
  BY DEF PrivateInv, ControlTypeOK, ClockSetBack, TimerFiresEarly, stopVars
<1> QED
  BY <1>1 DEF PrivateInv, OpenInv, ActiveLives, StoppedIsAwaited, OneRetires, BackoffIsEmpty,
      AwaitsActivation, Retiring, ClockSetBack, TimerFiresEarly, stopVars

LEMMA StopInv ==
    ASSUME PrivateInv, Stop
    PROVE  PrivateInv'
BY DEF PrivateInv, ControlTypeOK, Stop

\* stop() is called before it retires.
LEMMA StopGoesOnInv ==
    ASSUME PrivateInv, closed, StopAdvanced \/ StopDone
    PROVE  PrivateInv'
<1>1. Stopping(member, active) \in [Slots -> Members]
  BY StoppingKeeps DEF PrivateInv, ControlTypeOK
<1> QED
  BY <1>1 DEF PrivateInv, ControlTypeOK, StopAdvanced, StopDone, chainVars

LEMMA PrivateNextInv == PrivateInv /\ [ChainStep]_controlVars => PrivateInv'
<1> SUFFICES ASSUME PrivateInv, [ChainStep]_controlVars PROVE PrivateInv'
    OBVIOUS
<1>1. CASE UNCHANGED controlVars
  BY <1>1 DEF controlVars, chainVars, stopVars, PrivateInv, ControlTypeOK, OpenInv, ActiveLives, StoppedIsAwaited,
      OneRetires, BackoffIsEmpty, AwaitsActivation, Retiring
<1>2. ASSUME NEW s \in Slots,
             \/ Start(s) \/ StartReturns(s) \/ MemberFails(s) \/ MemberStopped(s)
             \/ AdvanceEnds(s) \/ AdvanceWaits(s) \/ TimerFires(s)
             \/ \E t \in Slots : AdvanceNext(s, t)
      PROVE  PrivateInv'
  BY <1>2, StartInv, StartReturnsInv, FailsInv, MemberStoppedInv, AdvanceOverInv, AdvanceNextInv
<1>3. CASE ClockSetBack \/ TimerFiresEarly
  BY <1>3, ClockInv
<1>4. CASE Stop
  BY <1>4, StopInv
<1>5. CASE StopAdvanced \/ StopDone
  BY <1>5, StopGoesOnInv DEF PrivateInv, StopAdvanced, StopDone
<1> QED
  BY <1>1, <1>2, <1>3, <1>4, <1>5 DEF ChainStep

\* What the torrent has through its trackers decides nothing of the chain.
LEMMA PeersStandAside == [PrivateNext]_privateVars => [ChainStep]_controlVars
BY DEF PrivateNext, privateVars

LEMMA Invariance == PrivateSpec => []PrivateInv
BY PrivateInitInv, PrivateNextInv, PeersStandAside, PTL DEF PrivateSpec

-----------------------------------------------------------------------------
(* The theorems.                                                           *)

\* Every variable of the chain, and every member's record, keeps its type.
THEOREM ChainTypeCorrect == PrivateSpec => []PrivateTypeOK
<1> DEFINE FoundTyped == found \subseteq 1..PrivateEndpoints
<1>1. PrivateInit => FoundTyped
  BY DEF PrivateInit
<1>2. ASSUME PrivateInv, FoundTyped, [PrivateNext]_privateVars
      PROVE  FoundTyped'
  BY <1>2 DEF PrivateInv, ControlTypeOK, PrivateNext, MemberFinds, LastLeaves, privateVars
<1>3. PrivateInv /\ FoundTyped => PrivateTypeOK
  BY DEF PrivateInv, PrivateTypeOK
<1> QED
  BY <1>1, <1>2, <1>3, Invariance, PTL DEF PrivateSpec

\* The members that still speak to their tracker.
InUse == {s \in Slots : member[s].sockets # "idle"}

\* A new member is the only one in use.
LEMMA BeginsAlone ==
    ASSUME PrivateInv, NEW s \in Slots,
           Start(s) \/ TimerFires(s) \/ \E r \in Slots : AdvanceNext(r, s)
    PROVE  ~closed /\ ~closed' /\ InUse = {} /\ InUse' = {s}
<1>1. CASE Start(s) \/ TimerFires(s)
  <2>1. ~closed /\ closed' = closed /\ ControlTypeOK /\ OpenInv
    BY <1>1 DEF PrivateInv, Start, TimerFires, stopVars
  <2>2. active = None /\ \A r \in Slots : ~Retiring(r)
    BY <1>1, <2>1 DEF OpenInv, BackoffIsEmpty, OneRetires, Start, TimerFires
  <2>3. \A r \in Slots : member[r].sockets = "idle"
    BY <2>1, <2>2 DEF OpenInv, ActiveLives, StoppedIsAwaited, ControlTypeOK, Members
  <2>4. member'[s] = New /\ \A r \in Slots : r # s => member'[r] = member[r]
    BY <1>1, <2>1 DEF ControlTypeOK, Start, TimerFires
  <2> QED
    BY <2>1, <2>3, <2>4 DEF InUse, New
<1>2. ASSUME NEW r \in Slots, AdvanceNext(r, s)
      PROVE  ~closed /\ ~closed' /\ InUse = {} /\ InUse' = {s}
  <2>1. MayAdvance(r) /\ closed' = closed /\ member \in [Slots -> Members]
    BY <1>2 DEF AdvanceNext, stopVars, PrivateInv, ControlTypeOK
  <2>2. ~closed /\ \A x \in Slots : member[x].sockets = "idle"
    BY <2>1, NothingLeft
  <2>3. /\ member'[s].sockets = "live"
        /\ \A x \in Slots : x # s => member'[x].sockets = member[x].sockets
    <3>1. member' = [member EXCEPT ![r].advance = "activating", ![r].next = s, ![s] = New]
      BY <1>2 DEF AdvanceNext
    <3> QED
      BY <2>1, <3>1 DEF Members, New
  <2> QED
    BY <2>1, <2>2, <2>3 DEF InUse
<1> QED
  BY <1>1, <1>2

\* Every other step but the end of a stop leaves the same members in use.
LEMMA SameInUse ==
    ASSUME PrivateInv, NEW s \in Slots,
           StartReturns(s) \/ MemberFails(s) \/ AdvanceEnds(s) \/ AdvanceWaits(s)
    PROVE  InUse' = InUse /\ closed' = closed
<1>1. ControlTypeOK /\ closed' = closed
  BY DEF PrivateInv, StartReturns, MemberFails, AdvanceEnds, AdvanceWaits, stopVars
<1> SUFFICES ASSUME NEW r \in Slots
             PROVE  member'[r].sockets = "idle" <=> member[r].sockets = "idle"
  BY <1>1 DEF InUse
<1>2. CASE StartReturns(s)
  BY <1>1, <1>2, SettledKeeps DEF StartReturns
<1>3. CASE MemberFails(s)
  <2>1. PICK m \in {member, Settled(member, s)} : Advance(m, s)
    BY <1>3 DEF MemberFails
  <2>2. m \in [Slots -> Members] /\ m[r].sockets = member[r].sockets
    BY <1>1, <2>1, SettledKeeps DEF ControlTypeOK
  <2>3. CASE closed
    <3>1. member' = [m EXCEPT ![s].advanced = TRUE]
      BY <2>1, <2>3 DEF Advance
    <3> QED
      BY <2>2, <3>1 DEF Members
  <2>4. CASE ~closed
    <3> DEFINE n == [m EXCEPT ![s].advanced = TRUE, ![s].advance = "retiring"]
    <3>1. n \in [Slots -> Members]
      BY <2>2, HeardMember
    <3>2. n[r].sockets = m[r].sockets
      BY <2>2 DEF Members
    <3>3. member' = Stopping(n, active) /\ active \in Slots \cup {None}
      BY <1>1, <2>1, <2>4 DEF Advance, ControlTypeOK
    <3> HIDE DEF n
    <3>4. member'[r].sockets =
            IF r = active /\ n[r].sockets = "live" THEN "stopping" ELSE n[r].sockets
      BY <3>1, <3>3, StoppingKeeps
    <3> QED
      BY <2>2, <3>2, <3>4
  <2> QED
    BY <2>3, <2>4
<1>4. CASE AdvanceEnds(s) \/ AdvanceWaits(s)
  BY <1>1, <1>4 DEF AdvanceEnds, AdvanceWaits, Over, ControlTypeOK, Members
<1> QED
  BY <1>2, <1>3, <1>4

\* Each step of the chain begins or leaves one contact, closes, or stutters.
LEMMA StepRefines == PrivateInv /\ [ChainStep]_controlVars => [PrivateContact!Next]_(PrivateContact!vars)
<1> SUFFICES ASSUME PrivateInv, [ChainStep]_controlVars PROVE [PrivateContact!Next]_(PrivateContact!vars)
    OBVIOUS
<1> DEFINE SameMembers == InUse' = InUse /\ closed' = closed
<1>1. ASSUME SameMembers PROVE UNCHANGED PrivateContact!vars
  BY <1>1 DEF InUse, PrivateContact!vars
<1>2. ASSUME NEW s \in Slots, Start(s) \/ TimerFires(s) \/ \E r \in Slots : AdvanceNext(r, s)
      PROVE  PrivateContact!Begin(s)
  BY <1>2, BeginsAlone DEF InUse, PrivateContact!Begin
<1>3. ASSUME NEW s \in Slots, MemberStopped(s) PROVE PrivateContact!Leave(s)
  <2>1. /\ member \in [Slots -> Members] /\ member[s].sockets = "stopping"
        /\ member' = [member EXCEPT ![s].sockets = "idle"] /\ closed' = closed
    BY <1>3 DEF PrivateInv, ControlTypeOK, MemberStopped, stopVars
  <2>2. s \in InUse /\ InUse' = InUse \ {s}
    BY <2>1 DEF InUse, Members
  <2> QED
    BY <2>1, <2>2 DEF InUse, PrivateContact!Leave
<1>4. ASSUME Stop PROVE PrivateContact!Close
  BY <1>4 DEF Stop, InUse, PrivateContact!Close
<1>5. ASSUME StopAdvanced PROVE UNCHANGED PrivateContact!vars
  <2>1. member' = Stopping(member, active) /\ closed' = closed /\ ControlTypeOK
    BY <1>5 DEF StopAdvanced, PrivateInv
  <2>2. \A r \in Slots :
          member'[r].sockets =
            IF r = active /\ member[r].sockets = "live" THEN "stopping" ELSE member[r].sockets
    BY <2>1, StoppingKeeps DEF ControlTypeOK
  <2>3. SameMembers
    BY <2>1, <2>2 DEF InUse
  <2> QED
    BY <1>1, <2>3
<1>6. ASSUME StopDone \/ ClockSetBack \/ TimerFiresEarly \/ UNCHANGED controlVars
      PROVE  UNCHANGED PrivateContact!vars
  <2>1. SameMembers
    BY <1>6 DEF StopDone, ClockSetBack, TimerFiresEarly, controlVars, stopVars, InUse
  <2> QED
    BY <1>1, <2>1
<1>7. ASSUME NEW s \in Slots, StartReturns(s) \/ MemberFails(s) \/ AdvanceEnds(s) \/ AdvanceWaits(s)
      PROVE  UNCHANGED PrivateContact!vars
  BY <1>1, <1>7, SameInUse
<1> QED
  BY <1>2, <1>3, <1>4, <1>5, <1>6, <1>7 DEF ChainStep, PrivateContact!Next

\* private-tracker-chain.ts:41: a tracker is spoken to only when the member of the
\* one before it has been stopped, and none after stop().
THEOREM ChainContactsOne == PrivateSpec => ImplementsOneContact
<1>1. PrivateInit => PrivateContact!Init
  BY DEF PrivateInit, Vacant, PrivateContact!Init
<1> QED
  BY <1>1, Invariance, StepRefines, PeersStandAside, PTL DEF PrivateSpec, ImplementsOneContact, PrivateContact!Spec

-----------------------------------------------------------------------------
(* The chain never stands still.                                           *)

\* A chain that runs contacts a tracker, leaves one to go on to the next, or waits
\* for its backoff timer (which the clock, set back, may spend for nothing).
AdvanceGoesOn == started /\ ~closed => InContact \/ (\E s \in Slots : Retiring(s)) \/ timer # "none"

LEMMA GoesOnStep ==
    ASSUME PrivateInv, AdvanceGoesOn, [ChainStep]_controlVars
    PROVE  AdvanceGoesOn'
<1> SUFFICES ASSUME started', ~closed'
             PROVE  InContact' \/ (\E s \in Slots : Retiring(s)') \/ timer' # "none"
    BY DEF AdvanceGoesOn
<1>0. ControlTypeOK /\ member \in [Slots -> Members]
  BY DEF PrivateInv, ControlTypeOK
<1>1. ASSUME NEW s \in Slots, Start(s) \/ TimerFires(s) \/ \E t \in Slots : AdvanceNext(t, s)
      PROVE  InContact'
  <2>1. New \in Members /\ New.sockets = "live"
    BY DEF New, Members
  <2>2. member'[s] = New
    BY <1>0, <1>1 DEF Start, TimerFires, AdvanceNext
  <2> QED
    BY <2>1, <2>2 DEF InContact
<1>2. ASSUME NEW s \in Slots, StartReturns(s)
      PROVE  InContact' \/ (\E r \in Slots : Retiring(r)') \/ timer' # "none"
  <2>1. closed' = closed /\ started' = started /\ timer' = timer /\ OpenInv
    BY <1>2 DEF StartReturns, chainVars, stopVars, PrivateInv
  <2>2. \A r \in Slots : /\ member'[r].sockets = member[r].sockets
                         /\ Retiring(r) => Retiring(r)'
    BY <1>0, <1>2, <2>1, SettledKeeps DEF StartReturns, OpenInv, AwaitsActivation, Retiring
  <2> QED
    BY <2>1, <2>2 DEF AdvanceGoesOn, InContact
<1>3. ASSUME NEW s \in Slots, MemberFails(s)
      PROVE  Retiring(s)'
  <2>1. ~closed /\ active \in Slots \cup {None}
    BY <1>0, <1>3 DEF MemberFails, stopVars, ControlTypeOK
  <2>2. PICK m \in {member, Settled(member, s)} : Advance(m, s)
    BY <1>3 DEF MemberFails
  <2> DEFINE n == [m EXCEPT ![s].advanced = TRUE, ![s].advance = "retiring"]
  <2>3. m \in [Slots -> Members]
    BY <1>0, <2>2, SettledKeeps
  <2>4. n \in [Slots -> Members] /\ n[s].advance = "retiring"
    <3>1. m[s] \in Members
      BY <2>3
    <3>2. n[s] = [m[s] EXCEPT !.advanced = TRUE, !.advance = "retiring"]
      BY <2>3, <3>1 DEF Members
    <3>3. n[s].advance = "retiring"
      BY <3>1, <3>2 DEF Members
    <3>4. n \in [Slots -> Members]
      BY <2>3, HeardMember
    <3> QED
      BY <3>3, <3>4
  <2>5. member' = Stopping(n, active)
    BY <2>1, <2>2 DEF Advance
  <2> HIDE DEF n
  <2> QED
    BY <2>1, <2>4, <2>5, StoppingKeeps DEF Retiring
<1>4. ASSUME NEW s \in Slots, MemberStopped(s)
      PROVE  InContact' \/ (\E r \in Slots : Retiring(r)') \/ timer' # "none"
  <2>1. closed' = closed /\ started' = started /\ timer' = timer
    BY <1>4 DEF MemberStopped, chainVars, stopVars
  <2>2. \A r \in Slots : /\ member[r].sockets = "live" => member'[r].sockets = "live"
                         /\ member'[r].advance = member[r].advance
    BY <1>0, <1>4 DEF MemberStopped, Members
  <2> QED
    BY <2>1, <2>2 DEF AdvanceGoesOn, InContact, Retiring
<1>5. ASSUME NEW s \in Slots, AdvanceEnds(s) \/ AdvanceWaits(s)
      PROVE  timer' # "none"
  <2>1. closed' = closed /\ started' = started
    BY <1>5 DEF AdvanceEnds, AdvanceWaits, chainVars, stopVars
  <2>2. AdvanceWaits(s)
    BY <1>5, <2>1 DEF AdvanceEnds
  <2> QED
    BY <2>2 DEF AdvanceWaits
<1>6. CASE ClockSetBack \/ TimerFiresEarly
  BY <1>6 DEF ClockSetBack, TimerFiresEarly
<1>7. CASE Stop \/ StopAdvanced \/ StopDone
  BY <1>7 DEF Stop, StopAdvanced, StopDone, chainVars, PrivateInv
<1>8. CASE UNCHANGED controlVars
  BY <1>8 DEF controlVars, chainVars, stopVars, AdvanceGoesOn, InContact, Retiring
<1> QED
  BY <1>1, <1>2, <1>3, <1>4, <1>5, <1>6, <1>7, <1>8 DEF ChainStep

\* private-tracker-chain.ts:51: the chain never gives up by itself. However its
\* trackers fail, there is always something that carries it on.
THEOREM ChainGoesOn == PrivateSpec => []AdvanceGoesOn
<1>1. PrivateInit => AdvanceGoesOn
  BY DEF PrivateInit, AdvanceGoesOn
<1> QED
  BY <1>1, Invariance, GoesOnStep, PeersStandAside, PTL DEF PrivateSpec

================================================================================
