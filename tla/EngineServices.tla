----------------------------- MODULE EngineServices -----------------------------
(* The engine's smaller services side by side: the media proxy's leases, the    *)
(* peer budget, the DHT participant, the two clients, a torrent's HTTP and its   *)
(* WebSocket announces, the signaling of peers, bounded fetches and the DHT's    *)
(* ingress.  They share no state and answer to different callers, so one of      *)
(* them, the subject, takes every step of a behaviour: the states add up instead *)
(* of multiplying.  A reader of what comes from outside (EngineReaders) keeps    *)
(* nothing between two inputs: its behaviour is the one input it was given.      *)
EXTENDS MediaLeases, PeerBudget, DhtBoundary, ClientLifecycle,
        TrackerActivation, WssActivation, WebrtcSignaling, EgressFetch

CONSTANTS
    Subjects,  \* the services that take steps
    Inputs     \* the readers, and of each the sets of inputs it may be given

VARIABLES subject, input

vars == <<subject, input, mediaVars, budgetVars, dhtVars, lifecycleVars,
          trackerVars, wssVars, signalVars, fetchVars, ingressVars>>

Nothing == <<>>

Init ==
    /\ \/ subject \in Subjects /\ input = Nothing
       \/ /\ subject \in DOMAIN Inputs
          /\ \E k \in DOMAIN Inputs[subject] : input \in Inputs[subject][k]
    \* What only one subject chooses is fixed for the others.
    /\ subject # "announces" => order = UnitEndpoints
    /\ subject # "signals" =>
          madeFor = [p \in SignalPeers |-> CHOOSE e \in SignalEndpoints : TRUE]
    /\ subject # "fetches" => fetch = [f \in Fetches |-> Idle("tracker-http")]
    /\ MediaInit /\ BudgetInit /\ DhtInit /\ LifecycleInit
    /\ TrackerInit /\ WssInit /\ SignalInit /\ FetchInit /\ IngressInit

Next ==
    /\ UNCHANGED <<subject, input>>
    /\ \/ /\ subject = "media" /\ MediaNext
          /\ UNCHANGED <<budgetVars, dhtVars, lifecycleVars, trackerVars,
                         wssVars, signalVars, fetchVars, ingressVars>>
       \/ /\ subject = "peers" /\ BudgetNext
          /\ UNCHANGED <<mediaVars, dhtVars, lifecycleVars, trackerVars,
                         wssVars, signalVars, fetchVars, ingressVars>>
       \/ /\ subject = "dht" /\ DhtNext
          /\ UNCHANGED <<mediaVars, budgetVars, lifecycleVars, trackerVars,
                         wssVars, signalVars, fetchVars, ingressVars>>
       \/ /\ subject = "clients" /\ LifecycleNext
          /\ UNCHANGED <<mediaVars, budgetVars, dhtVars, trackerVars,
                         wssVars, signalVars, fetchVars, ingressVars>>
       \/ /\ subject = "announces" /\ TrackerNext
          /\ UNCHANGED <<mediaVars, budgetVars, dhtVars, lifecycleVars,
                         wssVars, signalVars, fetchVars, ingressVars>>
       \/ /\ subject = "sockets" /\ WssNext
          /\ UNCHANGED <<mediaVars, budgetVars, dhtVars, lifecycleVars,
                         trackerVars, signalVars, fetchVars, ingressVars>>
       \/ /\ subject = "signals" /\ SignalNext
          /\ UNCHANGED <<mediaVars, budgetVars, dhtVars, lifecycleVars,
                         trackerVars, wssVars, fetchVars, ingressVars>>
       \/ /\ subject = "fetches" /\ FetchNext
          /\ UNCHANGED <<mediaVars, budgetVars, dhtVars, lifecycleVars,
                         trackerVars, wssVars, signalVars, ingressVars>>
       \/ /\ subject = "ingress" /\ IngressNext
          /\ UNCHANGED <<mediaVars, budgetVars, dhtVars, lifecycleVars,
                         trackerVars, wssVars, signalVars, fetchVars>>

Spec == Init /\ [][Next]_vars

(* ------------------------------- properties --------------------------------- *)

\* The peers the engine counts are the ones it was handed; its records stay within
\* the budget in all and of what is only being looked up, and so do the transports
\* handed over that admission still sees (BudgetHolds says which it does not).
PeersWithinBudget ==
    subject = "peers" => BudgetTypeOK /\ BudgetIsTrue /\ BudgetHolds

\* The one DHT participant searches for the torrents that asked, unless a full
\* queue turned them away, goes on searching while one is there, unless its first
\* socket threw, and is silent when none is.
DhtFollowsItsTorrents ==
    subject = "dht" =>
        DhtTypeOK /\ DhtServesItsOwner /\ SilentWhenIdle /\ SearchGoesOn

\* The engine is ready only with both clients, unless one was lost while start
\* waited for the other, and stops with neither running.
ClientsStartAndStopTogether ==
    subject = "clients" => LifecycleTypeOK /\ ReadyMeansBoth /\ NoClientLeftRunning

\* While a torrent announces over HTTP something is always under way or due, a
\* tracker is not asked while it is being told to stop, and after the end only a
\* full gate, or an announce after its one stopped attempt, leaves one untold.
AnnouncesAreKept ==
    subject = "announces" =>
        TrackerTypeOK /\ AnnouncingGoesOn /\ UntoldForAReason /\ NotAskedWhileRetired

\* Every WebSocket place is filled or waits for a candidate, and an endpoint is
\* called live only while its socket is open.
SocketsAccountedFor ==
    subject = "sockets" => WssTypeOK /\ NoPlaceForgotten /\ LiveIsConnected

\* Every lease on pending signaling belongs to a peer that is being signaled or
\* was lost with one that could not be made, and after a close none is made.
SignalingAccountedFor ==
    subject = "signals" => SignalTypeOK /\ LeasesCounted /\ NothingAfterClose

\* A fetch never reaches an address that is off limits nor falls back to plain
\* http, and holds its slot exactly as long as it may hold a connection.
FetchesStayWithinPolicy ==
    subject = "fetches" => FetchTypeOK /\ FetchStaysAllowed /\ SlotsFollowConnections

================================================================================
