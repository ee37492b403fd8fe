----------------------------- MODULE Monitoring -----------------------------
(***************************************************************************)
(* Workers and API handlers over the shared database: the specification    *)
(* and what it promises.                                                   *)
(***************************************************************************)
EXTENDS MonitoringApi

vars == <<dbVars, workerVars, resolving>>

Init == DbInit /\ WorkerInit /\ ApiInit

\* Time passes: intervals elapse, and leases that nobody renews in time.
Tick ==
    \/ \E m \in Monitors : IntervalElapses(m) /\ UNCHANGED <<workerVars, resolving>>
    \/ \E m \in Monitors : /\ MayElapse(m)
                           /\ LeaseElapses(m)
                           /\ UNCHANGED <<workerVars, resolving>>

Next ==
    \/ Tick
    \/ \E w \in Workers : WorkerStep(w) /\ UNCHANGED resolving
    \/ ApiStep

Spec == Init /\ [][Next]_vars

\* Futures are polled and leases elapse; nothing obliges a process to crash or
\* an operator to act.
Fairness ==
    /\ \A w \in Workers :
          /\ WF_vars(Claim(w) /\ UNCHANGED resolving)
          /\ WF_vars(Exit(w) /\ UNCHANGED resolving)
          /\ \A m \in Monitors :
                /\ WF_vars(TaskStep(w, m) /\ UNCHANGED resolving)
                /\ WF_vars(CancelCheck(w, m) /\ UNCHANGED resolving)
    /\ \A m \in Monitors :
          WF_vars(MayElapse(m) /\ LeaseElapses(m) /\ UNCHANGED <<workerVars, resolving>>)

FairSpec == Spec /\ Fairness

-----------------------------------------------------------------------------
TypeOK == DbTypeOK /\ WorkerTypeOK /\ ApiTypeOK

\* The result a worker is about to save is judged against the health the row
\* still has: as long as its claim is not stolen, the last_is_success it read
\* when it claimed the monitor is the current one, whatever crashes, expired
\* leases, re-claims and API calls came in between.
SnapshotFresh ==
    \A w \in Workers, m \in Monitors :
        claimedBy[m] = w /\ task[w][m].phase # "idle" => task[w][m].snap = last[m]

\* An incident is open only while the last saved check failed, and a monitor
\* whose last saved check failed has an incident that is open or was closed by
\* an operator, never one that recovered (README: failures open incidents,
\* recoveries resolve them).
IncidentTracksHealth ==
    \A m \in Monitors :
        /\ incident[m] = "open" => last[m] = "down"
        /\ last[m] = "down" => incident[m] \in {"open"} \cup OperatorReasons

\* The partial unique index never makes the owner of a claim lose a result:
\* when it is about to insert an incident, none is open.
OwnerInsertNeverConflicts ==
    \A w \in Workers, m \in Monitors :
        task[w][m].phase = "saving" /\ Owns(w, m) => ~InsertConflicts(m, task[w][m].act)

\* Failure and recovery notifications of a monitor strictly alternate,
\* beginning with a failure: no state change is announced twice or skipped,
\* although enqueueing compares with a snapshot taken before the check.
NotificationsAlternate ==
    \A m \in Monitors :
        /\ notified[m] \in {<<"none", "none">>, <<"none", "failure">>,
                            <<"failure", "recovery">>, <<"recovery", "failure">>}
        /\ notified[m][2] = "failure" <=> last[m] = "down"

\* What a save transaction decided still fits what it will find when it writes:
\* the strengthening under which the invariants above are inductive.
DecisionFits(w, m) ==
    LET t == task[w][m]
    IN  /\ t.phase \in {"completed", "saving"} => t.result \in {"up", "down"}
        /\ t.phase = "saving" =>
             /\ t.snap # "down" /\ t.result = "down" => t.act = "Open"
             /\ t.snap # "down" /\ t.result = "up" => t.act = "None"
             /\ t.snap = "down" /\ t.result = "down" =>
                    t.act \in {"UpdateExisting", "ReopenMissing"}
             /\ t.snap = "down" /\ t.result = "up" => t.act \in {"Resolve", "None"}
             /\ t.snap = "down" /\ t.act \in {"ReopenMissing", "None"} /\ claimedBy[m] = w
                    => incident[m] # "open"

SaveDecisionFits == \A w \in Workers, m \in Monitors : DecisionFits(w, m)

IInv == TypeOK /\ SnapshotFresh /\ SaveDecisionFits /\ IncidentTracksHealth
               /\ NotificationsAlternate

\* A monitor that is on and due is checked, or stops being on or due:
\* claims of crashed workers expire, and neither the claim limit nor other due
\* monitors starve it.
Schedulable(m) == status[m] = "active" /\ siteStatus[SiteOf[m]] = "active" /\ due[m]

EveryDueMonitorIsChecked == \A m \in Monitors : Schedulable(m) ~> ~Schedulable(m)

\* Graceful shutdown ends: every in-flight check is saved or cancelled.
ShutdownCompletes == \A w \in Workers : worker[w] = "stopping" ~> worker[w] = "down"

-----------------------------------------------------------------------------
\* Concurrent workers with leases, snapshots and two-step handlers implement
\* checks that happen one at a time: every step of the system is a step of
\* IncidentLifecycle or leaves health, incidents and announcements alone.
Lifecycle == INSTANCE IncidentLifecycle

ImplementsIncidentLifecycle == Lifecycle!Spec

-----------------------------------------------------------------------------
\* Once the handler that turned a monitor off has returned, the monitor has no
\* open incident (tests/v1_routes.rs pauses a failing monitor and expects its
\* incident to be resolved).
PausedMonitorHasNoOpenIncident ==
    \A m \in Monitors :
        status[m] = "inactive" /\ (\A c \in resolving : m \notin Covered(c))
            => incident[m] # "open"
=============================================================================
