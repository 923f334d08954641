---------------------------- MODULE CommandService ----------------------------
(***************************************************************************)
(* What main/engine-supervisor.ts promises the callers of execute(): each  *)
(* command takes effect at most once and in the order of issue, and each   *)
(* caller is answered once.  An acknowledged command has taken effect; a   *)
(* refused one has not and never will; one that timed out or was aborted   *)
(* may have taken effect, or may still do so.                              *)
(***************************************************************************)
EXTENDS Naturals

CONSTANT Reqs

VARIABLES
    outcome,   \* what the caller has been told
    runs       \* how often the command took effect

serviceVars == <<outcome, runs>>

Refusals == {"NOT_READY", "BUSY"}
Indeterminate == {"TIMEOUT", "ABORTED"}

Init ==
    /\ outcome = [r \in Reqs |-> "unused"]
    /\ runs = [r \in Reqs |-> 0]

Tell(r, code) == outcome' = [outcome EXCEPT ![r] = code] /\ UNCHANGED runs

Call(r) ==
    /\ outcome[r] = "unused"
    /\ \E code \in {"waiting", "ABORTED"} \cup Refusals : Tell(r, code)

TakeEffect(r) ==
    /\ outcome[r] \in {"waiting"} \cup Indeterminate
    /\ runs[r] = 0
    /\ \A q \in Reqs : q > r => runs[q] = 0
    /\ runs' = [runs EXCEPT ![r] = 1]
    /\ UNCHANGED outcome

Acknowledge(r) ==
    /\ outcome[r] = "waiting" /\ runs[r] = 1
    /\ \E code \in {"ok", "error"} : Tell(r, code)

Refuse(r) ==
    /\ outcome[r] = "waiting" /\ runs[r] = 0
    /\ \E code \in Refusals : Tell(r, code)

TimeOut(r) == outcome[r] = "waiting" /\ Tell(r, "TIMEOUT")

\* The engine of all waiting callers is lost or being stopped.
AbortWaiting ==
    /\ \E r \in Reqs : outcome[r] = "waiting"
    /\ outcome' = [r \in Reqs |-> IF outcome[r] = "waiting" THEN "ABORTED" ELSE outcome[r]]
    /\ UNCHANGED runs

Next ==
    \/ \E r \in Reqs :
          Call(r) \/ TakeEffect(r) \/ Acknowledge(r) \/ Refuse(r) \/ TimeOut(r)
    \/ AbortWaiting

Spec == Init /\ [][Next]_serviceVars
==============================================================================
