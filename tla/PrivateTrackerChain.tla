-------------------------- MODULE PrivateTrackerChain --------------------------
(***************************************************************************)
(* The announce chain of a private torrent (private-tracker-chain.ts).     *)
(* One member serves one endpoint.  A member is an object whose start() and *)
(* stop() are awaited and which may report failure at any moment from then *)
(* on, also while it starts and after it was stopped.  The modelled slots  *)
(* are reused once nothing of the member that held them is left.           *)
(***************************************************************************)
EXTENDS Naturals, FiniteSets

CONSTANTS
    PrivateEndpoints,  \* how many endpoints the torrent declares
    Slots,             \* bound: members that still exist, retired ones included
    None               \* no member

ASSUME ChainAssumption ==
    /\ PrivateEndpoints \in Nat \ {0}
    /\ IsFiniteSet(Slots) /\ None \notin Slots

VARIABLES
    member,        \* the slots
    active,        \* #active
    index,         \* #index, counting from 1
    advancing,     \* #advancing: the member whose failure began the last advance
    timer,         \* #timer: "none", "armed", or "early" with the clock set back; "missed"
                   \* when it has fired early and nothing is armed any more
    started,       \* #started
    closed,        \* #closed
    stopper,       \* stop(): "none", "advancing", "retiring" or "done"
    found          \* the endpoints whose peers or pending offers the torrent has

chainVars == <<active, index, advancing, timer, started>>
stopVars == <<closed, stopper>>
controlVars == <<member, chainVars, stopVars>>
privateVars == <<controlVars, found>>

\* A slot: the member's sockets ("idle": none yet or none left), its pending
\* start(), whether its failure has been heard (`advanced`), and how far the
\* advance it caused has come: the member retired, then whose start is awaited.
Members == [sockets : {"idle", "live", "stopping"}, starting : BOOLEAN,
            advanced : BOOLEAN, advance : {"none", "retiring", "activating"},
            next : Slots \cup {None}]
Vacant == [sockets |-> "idle", starting |-> FALSE, advanced |-> TRUE,
           advance |-> "none", next |-> None]

ControlTypeOK ==
    /\ member \in [Slots -> Members]
    /\ active \in Slots \cup {None}
    /\ index \in 1..PrivateEndpoints
    /\ advancing \in Slots \cup {None}
    /\ timer \in {"none", "armed", "early", "missed"}
    /\ started \in BOOLEAN /\ closed \in BOOLEAN
    /\ stopper \in {"none", "advancing", "retiring", "done"}

PrivateTypeOK == ControlTypeOK /\ found \subseteq 1..PrivateEndpoints

PrivateInit ==
    /\ member = [s \in Slots |-> Vacant]
    /\ active = None /\ index = 1 /\ advancing = None
    /\ timer = "none" /\ started = FALSE
    /\ closed = FALSE /\ stopper = "none"
    /\ found = {}

\* The slot of a member of which nothing is left to happen.
Vacated(s) ==
    /\ member[s].sockets = "idle" /\ ~member[s].starting
    /\ member[s].advance = "none" /\ s # active
    /\ \A r \in Slots : member[r].next # s

-----------------------------------------------------------------------------

\* createMember and member.start(): the member is the active one from here on.
New == [sockets |-> "live", starting |-> TRUE, advanced |-> FALSE,
        advance |-> "none", next |-> None]

\* start(): a chain is started once.
Start(s) ==
    /\ ~started /\ ~closed /\ Vacated(s)
    /\ started' = TRUE
    /\ member' = [member EXCEPT ![s] = New]
    /\ active' = s
    /\ UNCHANGED <<index, advancing, timer, stopVars>>

\* member.start() settles, and with it an advance that awaited it.
Settled(m, s) == [r \in Slots |->
    CASE r = s -> [m[r] EXCEPT !.starting = FALSE]
      [] r # s /\ m[r].next = s -> [m[r] EXCEPT !.advance = "none", !.next = None]
      [] OTHER -> m[r]]

\* start() resolves, or rejects when the failure has already been heard.
StartReturns(s) ==
    /\ member[s].starting
    /\ member' = Settled(member, s)
    /\ UNCHANGED <<chainVars, stopVars>>

\* #retire(): the active member is forgotten before its stop() is awaited.
Stopping(m, s) ==
    IF s = None THEN m
    ELSE [m EXCEPT ![s].sockets = IF @ = "live" THEN "stopping" ELSE @]

\* #advance(), for the first failure of a member.
Advance(m, s) ==
    IF closed
    THEN /\ member' = [m EXCEPT ![s].advanced = TRUE]
         /\ UNCHANGED <<active, advancing>>
    ELSE /\ member' = Stopping([m EXCEPT ![s].advanced = TRUE,
                                         ![s].advance = "retiring"], active)
         /\ advancing' = s
         /\ active' = None

\* The member reports failure, through onFailed or by rejecting start().
MemberFails(s) ==
    /\ ~member[s].advanced
    /\ \/ Advance(member, s)
       \/ member[s].starting /\ Advance(Settled(member, s), s)
    /\ UNCHANGED <<index, timer, started, stopVars>>

\* member.stop() settles: its requests and sockets are gone.  What it found is
\* not: no member is built with a callback that retires its peers, and the
\* signaling of a WebSocket member is the chain's own.
MemberStopped(s) ==
    /\ member[s].sockets = "stopping"
    /\ member' = [member EXCEPT ![s].sockets = "idle"]
    /\ UNCHANGED <<chainVars, stopVars>>

Over(s) == [member EXCEPT ![s].advance = "none"]

\* Mutant: the retiring member is not awaited.
RetiredAtOnce(s) == member[s].advance = "retiring"

Retired(s) == member[s].advance = "retiring" /\ member[s].sockets = "idle"

\* The advance goes on after #retire(), unless the chain was closed meanwhile.
MayAdvance(s) == Retired(s) /\ ~closed /\ started

AdvanceEnds(s) ==
    /\ Retired(s) /\ (closed \/ ~started)
    /\ member' = Over(s)
    /\ UNCHANGED <<chainVars, stopVars>>

\* Mutant: one endpoint too many.
HasNextOffByOne == index <= PrivateEndpoints

HasNext == index < PrivateEndpoints

\* The next endpoint; the advance lasts until its member's start() settles.
AdvanceNext(s, t) ==
    /\ MayAdvance(s) /\ HasNext /\ Vacated(t)
    /\ index' = index + 1
    /\ member' = [member EXCEPT ![s].advance = "activating", ![s].next = t, ![t] = New]
    /\ active' = t
    /\ UNCHANGED <<advancing, timer, started, stopVars>>

\* Mutant: an exhausted sequence is not started again.
AdvanceGivesUp(s) ==
    /\ MayAdvance(s) /\ ~HasNext
    /\ index' = 1
    /\ member' = Over(s)
    /\ UNCHANGED <<active, advancing, timer, started, stopVars>>

\* The sequence is exhausted: it starts again after a backoff.
AdvanceWaits(s) ==
    /\ MayAdvance(s) /\ ~HasNext
    /\ index' = 1
    /\ timer' = "armed"
    /\ member' = Over(s)
    /\ UNCHANGED <<active, advancing, started, stopVars>>

\* The wall clock is set back while the timer, which runs on another, is armed.
ClockSetBack ==
    /\ timer = "armed"
    /\ timer' = "early"
    /\ UNCHANGED <<member, active, index, advancing, started, stopVars>>

TimerFires(s) ==
    /\ timer = "armed" /\ started /\ ~closed /\ Vacated(s)
    /\ timer' = "none"
    /\ member' = [member EXCEPT ![s] = New]
    /\ active' = s
    /\ UNCHANGED <<index, advancing, started, stopVars>>

\* now() < resumeAtMs: the timer returns, and is not armed again.
TimerFiresEarly ==
    /\ timer = "early"
    /\ timer' = "missed"
    /\ UNCHANGED <<member, active, index, advancing, started, stopVars>>

-----------------------------------------------------------------------------

\* stop(): await the last advance, then retire the active member.
Stop ==
    /\ stopper = "none"
    /\ closed' = TRUE /\ started' = FALSE
    /\ timer' = "none"
    /\ stopper' = "advancing"
    /\ UNCHANGED <<member, active, index, advancing>>

StopAdvanced ==
    /\ stopper = "advancing"
    /\ \A s \in {advancing} \ {None} : member[s].advance = "none"
    /\ stopper' = "retiring"
    /\ member' = Stopping(member, active)
    /\ active' = None
    /\ UNCHANGED <<index, advancing, timer, started, closed>>

StopDone ==
    /\ stopper = "retiring"
    /\ \A s \in Slots : member[s].sockets # "stopping"
    /\ stopper' = "done"
    /\ UNCHANGED <<member, chainVars, closed>>

-----------------------------------------------------------------------------
(* What the torrent has through its trackers.                              *)

\* The active member's tracker names a peer or answers an offer.
MemberFinds(s) ==
    /\ s = active /\ member[s].sockets = "live"
    /\ found' = found \cup {index}

\* The last peer and the last pending offer of an endpoint are gone.
LastLeaves(e) == found' = found \ {e}

ChainStep ==
    \/ \E s \in Slots :
         \/ Start(s) \/ StartReturns(s) \/ MemberFails(s)
         \/ MemberStopped(s) \/ AdvanceEnds(s) \/ AdvanceWaits(s) \/ TimerFires(s)
         \/ \E t \in Slots : AdvanceNext(s, t)
    \/ ClockSetBack \/ TimerFiresEarly
    \/ Stop \/ StopAdvanced \/ StopDone

PrivateNext ==
    \/ ChainStep /\ UNCHANGED found
    \/ /\ \/ \E s \in Slots : MemberFinds(s)
          \/ \E e \in found : LastLeaves(e)
       /\ UNCHANGED controlVars

PrivateSpec == PrivateInit /\ [][PrivateNext]_privateVars

\* Every start() and stop() of a member is bounded by a timeout of its own, and
\* promises and timers are served.
PrivateFairness ==
    /\ \A s \in Slots :
         /\ WF_controlVars(StartReturns(s)) /\ WF_controlVars(MemberStopped(s))
         /\ WF_controlVars(AdvanceEnds(s)) /\ WF_controlVars(AdvanceWaits(s))
         /\ WF_controlVars(\E t \in Slots : AdvanceNext(s, t))
    /\ WF_controlVars(\E s \in Slots : TimerFires(s)) /\ WF_controlVars(TimerFiresEarly)
    /\ WF_controlVars(StopAdvanced) /\ WF_controlVars(StopDone)

PrivateFairSpec == PrivateSpec /\ PrivateFairness

-----------------------------------------------------------------------------
(* Properties.                                                             *)

\* private-tracker-chain.ts:41: one tracker is spoken to at a time, the failing
\* one stopped before the next is built, and none after stop().  What a tracker
\* that was left has brought is not part of this: see below.
PrivateContact == INSTANCE OneContact WITH
    Contacts <- Slots,
    contact <- {s \in Slots : member[s].sockets # "idle"},
    open <- ~closed
ImplementsOneContact == PrivateContact!Spec

\* private-tracker-chain.ts:44 goes further: the active member is stopped "and
\* its peers and sockets retired with it, before the next endpoint is ever
\* constructed" (and tracker-activation.ts:54 "must destroy every peer").
PeersRetiredWithTheirTracker ==
    \A s \in Slots : member[s].sockets = "live" => found \subseteq {index}

InContact == \E s \in Slots : member[s].sockets = "live"

\* A chain that is not stopped keeps contacting its trackers, one after another
\* and round after round, however they fail, while the clock is not set back.
KeepsTrying == started ~> InContact \/ closed \/ timer \in {"early", "missed"}

\* stop() settles, whatever it meets.
StopSettles == stopper # "none" ~> stopper = "done"

\* private-tracker-chain.ts:51: the chain never gives up by itself ("a torrent
\* whose only tracker is temporarily down keeps retrying that tracker"), and
\* gives up when told to.
KeepsTryingUntilStopped == KeepsTrying /\ StopSettles

===============================================================================
