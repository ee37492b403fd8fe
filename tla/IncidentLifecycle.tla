------------------------- MODULE IncidentLifecycle -------------------------
(***************************************************************************)
(* What the monitoring service promises about a monitor, seen from outside:*)
(* checks happen one after the other, each judged against the previous one,*)
(* and move the incident and the notifications in one atomic step.  There  *)
(* are no workers, claims, leases or snapshots here; Monitoring implements *)
(* this specification with them.                                           *)
(***************************************************************************)
CONSTANT Monitors

VARIABLES
    last,      \* outcome of the last check
    incident,  \* the monitor's latest incident
    notified   \* the last two events announced

vars == <<last, incident, notified>>

Reasons == {"monitoring_disabled", "site_deactivated"}

Init ==
    /\ last = [m \in Monitors |-> "none"]
    /\ incident = [m \in Monitors |-> "none"]
    /\ notified = [m \in Monitors |-> <<"none", "none">>]

\* The first failure opens an incident and announces it.  A further failure
\* keeps the incident open; if an operator has closed it, the failure opens a
\* new one unless it was already being saved when the operator acted, and
\* announces nothing either way.
CheckFails(m) ==
    /\ last' = [last EXCEPT ![m] = "down"]
    /\ \/ /\ last[m] # "down"
          /\ incident[m] # "open"
          /\ incident' = [incident EXCEPT ![m] = "open"]
          /\ notified' = [notified EXCEPT ![m] = <<notified[m][2], "failure">>]
       \/ /\ last[m] = "down"
          /\ \/ incident' = [incident EXCEPT ![m] = "open"]
             \/ incident[m] \in Reasons /\ UNCHANGED incident
          /\ UNCHANGED notified

\* A success resolves an open incident, and is announced if it ends a failure.
CheckPasses(m) ==
    /\ last' = [last EXCEPT ![m] = "up"]
    /\ \/ /\ last[m] = "down"
          /\ incident' = [incident EXCEPT ![m] = IF incident[m] = "open"
                                                 THEN "recovered" ELSE incident[m]]
          /\ notified' = [notified EXCEPT ![m] = <<notified[m][2], "recovery">>]
       \/ /\ last[m] # "down"
          /\ incident[m] # "open"
          /\ UNCHANGED <<incident, notified>>

\* An operator turns monitoring off: open incidents are closed, nothing is
\* announced.
OperatorCloses(S, reason) ==
    /\ incident' = [m \in Monitors |-> IF m \in S /\ incident[m] = "open"
                                       THEN reason ELSE incident[m]]
    /\ UNCHANGED <<last, notified>>

\* A site is deleted with its monitors and their incidents.
SiteDeleted(S) ==
    /\ last' = [m \in Monitors |-> IF m \in S THEN "none" ELSE last[m]]
    /\ incident' = [m \in Monitors |-> IF m \in S THEN "none" ELSE incident[m]]
    /\ notified' = [m \in Monitors |-> IF m \in S THEN <<"none", "none">> ELSE notified[m]]

Next ==
    \/ \E m \in Monitors : CheckFails(m) \/ CheckPasses(m)
    \/ \E S \in SUBSET Monitors :
          \/ SiteDeleted(S)
          \/ \E reason \in Reasons : OperatorCloses(S, reason)

Spec == Init /\ [][Next]_vars
=============================================================================
