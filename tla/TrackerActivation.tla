--------------------------- MODULE TrackerActivation ---------------------------
(* One torrent's HTTP announces (tracker-activation.ts) over the shared         *)
(* transport and its gate (tracker-http.ts), which announces of other torrents  *)
(* may fill at any time.  A unit is a tier of a public torrent, or all the      *)
(* endpoints of a private one.  Delays are left out: a timer fires at any time. *)
EXTENDS Integers, SequencesExt

CONSTANTS Units, UnitEndpoints,
          GateSize,     \* TrackerHttpRequestGate: announces at a time
          SinglePass    \* a unit ends once every endpoint has failed

Endpoints == UNION {ToSet(UnitEndpoints[u]) : u \in Units}

ASSUME TrackerAssumption ==
    /\ UnitEndpoints \in [Units -> Seq(Endpoints)]
    /\ \A u \in Units : UnitEndpoints[u] # << >> /\ IsInjective(UnitEndpoints[u])
    /\ \A u, v \in Units :
         u # v => ToSet(UnitEndpoints[u]) \intersect ToSet(UnitEndpoints[v]) = {}
    /\ GateSize \in Nat \ {0}
    /\ SinglePass \in BOOLEAN

VARIABLES
    \* @type: {"new", "on", "off"}
    activation,
    \* @type: Unit -> Seq(Endpoint); the one that answered is first
    order,
    \* @type: Unit -> Nat
    activeIndex,
    \* @type: Unit -> {"no", "started", "completed", "regular", "rotating"}
    announcing,
    \* @type: Unit -> Bool
    unitTimer,
    \* @type: Unit -> Bool
    unitClosed,
    \* @type: Unit -> Bool
    succeeded,
    \* @type: Unit -> Bool
    pendingCompleted,
    \* @type: Bool
    completedSent,
    \* @type: Set(Endpoint); those an announce was tried for
    contacted,
    \* @type: Set(Endpoint)
    stoppedAttempted,
    \* @type: Set(Endpoint); stopped announces on their way
    stopping,
    \* History, of what went through the gate.
    \* @type: Set(Endpoint); those whose last announce was not a stopped one
    present,
    \* @type: Set(Endpoint); those announced to after their stopped attempt
    askedAgain,
    \* @type: Set(Endpoint); those whose stopped attempt met a full gate
    stopLost

trackerVars == <<activation, order, activeIndex, announcing, unitTimer, unitClosed,
                 succeeded, pendingCompleted, completedSent, contacted,
                 stoppedAttempted, stopping, present, askedAgain, stopLost>>

untoldVars == <<present, askedAgain, stopLost>>

TrackerInit ==
    /\ activation = "new"
    \* Each tier is shuffled once.
    /\ order \in {f \in [Units -> UNION {SetToSeqs(ToSet(UnitEndpoints[u])) : u \in Units}] :
                    \A u \in Units : ToSet(f[u]) = ToSet(UnitEndpoints[u])}
    /\ activeIndex = [u \in Units |-> 1]
    /\ announcing = [u \in Units |-> "no"]
    /\ unitTimer = [u \in Units |-> FALSE]
    /\ unitClosed = [u \in Units |-> FALSE]
    /\ succeeded = [u \in Units |-> FALSE]
    /\ pendingCompleted = [u \in Units |-> FALSE]
    /\ completedSent = FALSE
    /\ contacted = {} /\ stoppedAttempted = {} /\ stopping = {}
    /\ present = {} /\ askedAgain = {} /\ stopLost = {}

TrackerTypeOK ==
    /\ activation \in {"new", "on", "off"}
    /\ \A u \in Units : /\ IsInjective(order[u])
                        /\ ToSet(order[u]) = ToSet(UnitEndpoints[u])
                        /\ activeIndex[u] \in DOMAIN order[u]
    /\ announcing \in [Units -> {"no", "started", "completed", "regular", "rotating"}]
    /\ {unitTimer, unitClosed, succeeded, pendingCompleted} \subseteq [Units -> BOOLEAN]
    /\ completedSent \in BOOLEAN
    /\ UNION {contacted, stoppedAttempted, stopping, present, askedAgain, stopLost}
         \subseteq Endpoints

Active(u) == order[u][activeIndex[u]]

Announces == {"started", "completed", "regular"}

\* The announces the gate counts: those under way and the stopped ones.
InGate == Cardinality({u \in Units : announcing[u] \in Announces})
            + Cardinality(stopping)

---------------------------------------------------------------------------------

\* start(): every unit is due at once.
StartTracker ==
    /\ activation = "new"
    /\ activation' = "on"
    /\ unitTimer' = [u \in Units |-> TRUE]
    /\ UNCHANGED <<order, activeIndex, announcing, unitClosed, succeeded,
                   pendingCompleted, completedSent, contacted, stoppedAttempted,
                   stopping, untoldVars>>

\* A unit is due: its active endpoint is asked, unless the unit is busy.  With
\* the gate full the announce is put off, but the endpoint counts as contacted.
Run(u) ==
    /\ unitTimer[u]
    /\ \/ /\ announcing[u] = "no" /\ InGate < GateSize
          /\ contacted' = contacted \union {Active(u)}
          /\ announcing' = [announcing EXCEPT ![u] =
                 IF Active(u) \notin contacted THEN "started"
                 ELSE IF pendingCompleted[u] THEN "completed" ELSE "regular"]
          /\ unitTimer' = [unitTimer EXCEPT ![u] = FALSE]
          /\ present' = present \union {Active(u)}
          /\ askedAgain' = askedAgain \union ({Active(u)} \intersect stoppedAttempted)
       \/ /\ announcing[u] = "no"
          /\ contacted' = contacted \union {Active(u)}
          /\ UNCHANGED <<announcing, unitTimer, present, askedAgain>>
       \/ /\ announcing[u] # "no"
          /\ unitTimer' = [unitTimer EXCEPT ![u] = FALSE]
          /\ UNCHANGED <<announcing, contacted, present, askedAgain>>
    /\ UNCHANGED <<activation, order, activeIndex, unitClosed, succeeded,
                   pendingCompleted, completedSent, stoppedAttempted, stopping,
                   stopLost>>

\* The sequence with its i-th element first.
Fronted(s, i) ==
    [j \in DOMAIN s |-> IF j = 1 THEN s[i] ELSE IF j <= i THEN s[j - 1] ELSE s[j]]

\* The endpoint answers: it becomes the unit's first and the next announce has
\* its time.
AnnounceSucceeds(u) ==
    /\ activation = "on"
    /\ announcing[u] \in Announces
    /\ pendingCompleted' = [pendingCompleted EXCEPT
                              ![u] = @ /\ announcing[u] # "completed"]
    /\ succeeded' = [succeeded EXCEPT ![u] = TRUE]
    /\ order' = [order EXCEPT ![u] = Fronted(@, activeIndex[u])]
    /\ activeIndex' = [activeIndex EXCEPT ![u] = 1]
    /\ announcing' = [announcing EXCEPT ![u] = "no"]
    /\ unitTimer' = [unitTimer EXCEPT ![u] = TRUE]
    /\ UNCHANGED <<activation, unitClosed, completedSent, contacted,
                   stoppedAttempted, stopping, untoldVars>>

\* A failure retires the endpoint: it is told once, in the place the failed
\* announce had in the gate.
AnnounceFails(u) ==
    LET e == Active(u) IN
    /\ activation = "on"
    /\ announcing[u] \in Announces
    /\ announcing' = [announcing EXCEPT ![u] = "rotating"]
    /\ unitTimer' = [unitTimer EXCEPT ![u] = FALSE]
    /\ stoppedAttempted' = stoppedAttempted \union {e}
    /\ IF e \in stoppedAttempted
       THEN UNCHANGED <<stopping, present>>
       ELSE stopping' = stopping \union {e} /\ present' = present \ {e}
    /\ UNCHANGED <<activation, order, activeIndex, unitClosed, succeeded,
                   pendingCompleted, completedSent, contacted, askedAgain, stopLost>>

\* The stopped announce is over or its grace is, and with it, for a private
\* torrent, the generation of the endpoint: the next endpoint is due, or the
\* first again after a pause.
Rotated(u) ==
    LET e == Active(u)
        last == activeIndex[u] = Len(order[u])
    IN /\ announcing[u] = "rotating"
       /\ announcing' = [announcing EXCEPT ![u] = "no"]
       /\ stopping' = stopping \ {e}
       /\ IF activation = "off"
          THEN UNCHANGED <<activeIndex, unitTimer, unitClosed>>
          ELSE /\ activeIndex' = [activeIndex EXCEPT ![u] = IF last THEN 1 ELSE @ + 1]
               /\ unitClosed' = [unitClosed EXCEPT ![u] = last /\ SinglePass]
               /\ unitTimer' = [unitTimer EXCEPT ![u] = ~ (last /\ SinglePass)]
       /\ UNCHANGED <<activation, order, succeeded, pendingCompleted, completedSent,
                      contacted, stoppedAttempted, untoldVars>>

\* notifyCompleted(), of a torrent that was not complete when it started.
NotifyCompleted ==
    /\ activation # "off"
    /\ ~ completedSent
    /\ completedSent' = TRUE
    /\ pendingCompleted' = [u \in Units |->
           pendingCompleted[u] \/ (succeeded[u] /\ ~ unitClosed[u])]
    /\ unitTimer' = [u \in Units |->
           unitTimer[u] \/ (succeeded[u] /\ ~ unitClosed[u])]
    /\ UNCHANGED <<activation, order, activeIndex, announcing, unitClosed, succeeded,
                   contacted, stoppedAttempted, stopping, untoldVars>>

\* The stopped announces that pass the gate; the others are over at once.
Sends(es) ==
    \E sent \in SUBSET es :
        /\ InGate + Cardinality(sent) <= GateSize \/ sent = {}
        /\ stopping' = stopping \union sent
        /\ present' = present \ sent
        /\ stopLost' = stopLost \union (es \ sent)

\* Mutant: stop tells only the endpoints of units that were answered.
StopTellsAnswered ==
    /\ activation # "off"
    /\ activation' = "off"
    /\ unitTimer' = [u \in Units |-> FALSE]
    /\ unitClosed' = [u \in Units |-> TRUE]
    /\ announcing' = [u \in Units |->
           IF announcing[u] = "rotating" THEN "rotating" ELSE "no"]
    /\ LET told == {e \in contacted : \E u \in Units : succeeded[u] /\ e \in ToSet(order[u])}
       IN /\ stoppedAttempted' = stoppedAttempted \union told
          /\ Sends(told \ stoppedAttempted)
    /\ UNCHANGED <<order, activeIndex, succeeded, pendingCompleted, completedSent,
                   contacted, askedAgain>>

\* stop(): nothing new is announced, what is under way is given up, and every
\* endpoint that was asked and not yet told is told.
StopTracker ==
    /\ activation # "off"
    /\ activation' = "off"
    /\ unitTimer' = [u \in Units |-> FALSE]
    /\ unitClosed' = [u \in Units |-> TRUE]
    /\ announcing' = [u \in Units |->
           IF announcing[u] = "rotating" THEN "rotating" ELSE "no"]
    /\ stoppedAttempted' = stoppedAttempted \union contacted
    /\ Sends(contacted \ stoppedAttempted)
    /\ UNCHANGED <<order, activeIndex, succeeded, pendingCompleted, completedSent,
                   contacted, askedAgain>>

\* A stopped announce is answered, fails or is given up after its grace.
StoppedEnds(e) ==
    /\ e \in stopping
    /\ stopping' = stopping \ {e}
    /\ UNCHANGED <<activation, order, activeIndex, announcing, unitTimer, unitClosed,
                   succeeded, pendingCompleted, completedSent, contacted,
                   stoppedAttempted, untoldVars>>

TrackerNext ==
    \/ StartTracker \/ NotifyCompleted \/ StopTracker
    \/ \E u \in Units : \/ Run(u) \/ AnnounceSucceeds(u) \/ AnnounceFails(u)
                        \/ Rotated(u)
    \/ \E e \in Endpoints : StoppedEnds(e)

---------------------------------------------------------------------------------
(* Properties. *)

\* A running activation never falls silent: each of its units is announcing,
\* retiring an endpoint, due again, or has come to the end of a single pass,
\* whatever is put off, failing or overtaken by a completion.
AnnouncingGoesOn ==
    activation = "on" =>
        \A u \in Units : unitTimer[u] \/ unitClosed[u] \/ announcing[u] # "no"

\* Once stopped, every tracker asked before has had its one attempt at a stopped
\* announce, and one that still counts the torrent is one of two: its attempt met
\* a full gate, or it was asked again after it and is not told twice
\* (tracker-activation.ts #attemptStopped, whose comment promises best effort).
UntoldForAReason ==
    /\ stopping \subseteq contacted \intersect stoppedAttempted
    /\ activation = "off" =>
          /\ contacted \subseteq stoppedAttempted
          /\ present \subseteq stopLost \union askedAgain

\* An endpoint that is being told to stop is not asked again before that is
\* over, not even by a unit that comes back to it.
NotAskedWhileRetired ==
    \A u \in Units : announcing[u] \in Announces => Active(u) \notin stopping

================================================================================
