-------------------------- MODULE MonitoringProofs --------------------------
(***************************************************************************)
(* Theorems about Monitoring, for any sets of sites, monitors and workers, *)
(* any claim limit and any number of attempts, with database faults and    *)
(* crashes.                                                                *)
(***************************************************************************)
EXTENDS Monitoring, TLAPS

\* The idle future is well typed.
LEMMA IdleIsTask == Idle \in Task
BY WorkerAssumption DEF Idle, Task, Phase, Health, IncidentAction

\* Replacing one future by a well-typed one keeps the type of task.
LEMMA TaskUpdate ==
  ASSUME WorkerTypeOK, NEW w \in Workers, NEW m \in Monitors, NEW t \in Task,
         task' = [task EXCEPT ![w][m] = t]
  PROVE  task' \in [Workers -> [Monitors -> Task]]
BY DEF WorkerTypeOK

\* The pending second statements of the handlers are well typed.
LEMMA CallsAreTyped ==
  /\ \A m \in Monitors : MonitorCall(m) \in ResolveCall
  /\ \A s \in Sites, k \in Kinds : KindCall(s, k) \in ResolveCall
  /\ \A s \in Sites : SiteCall(s) \in ResolveCall
  /\ \A c \in ResolveCall : c.reason \in OperatorReasons
BY DEF MonitorCall, KindCall, SiteCall, ResolveCall, OperatorReasons

\* LIMIT only drops rows.
LEMMA BatchIsSubset == ASSUME NEW C PROVE Batch(C) \subseteq C
BY DEF Batch

\* The steps of a worker keep the types.
LEMMA WorkerStepType ==
  ASSUME TypeOK, NEW w \in Workers, WorkerStep(w), UNCHANGED resolving
  PROVE  TypeOK'
<1> USE DEF TypeOK, ApiTypeOK
<1>0. ApiTypeOK'
  OBVIOUS
<1> SUFFICES DbTypeOK' /\ WorkerTypeOK'
  BY <1>0
<1> DEFINE S == Batch(Claimable \ Locked)
<1>s. S \subseteq Monitors
  BY BatchIsSubset DEF Claimable
<1>1. CASE Claim(w)
  <2>1. DbTypeOK'
    BY <1>1, <1>s DEF Claim, ClaimRows, DbTypeOK, LeaseState, registry, schedule, health
  <2>2. ASSUME NEW m \in Monitors
        PROVE  [Idle EXCEPT !.phase = "claimed", !.snap = last[m]] \in Task
    BY IdleIsTask DEF Idle, Task, Phase, DbTypeOK
  <2>3. WorkerTypeOK'
    BY <1>1, <2>2, IdleIsTask DEF Claim, WorkerTypeOK
  <2>q. QED
    BY <2>1, <2>3
<1>2. CASE ClaimReplyLost(w)
  BY <1>2, <1>s DEF ClaimReplyLost, ClaimRows, DbTypeOK, WorkerTypeOK, LeaseState,
                    registry, schedule, health, workerVars
<1>3. CASE RequestShutdown(w) \/ Exit(w) \/ Crash(w)
  <2>1. DbTypeOK'
    BY <1>3 DEF RequestShutdown, Exit, Crash, dbVars, DbTypeOK
  <2>2. worker' \in [Workers -> {"up", "stopping", "down"}]
    BY <1>3 DEF RequestShutdown, Exit, Crash, WorkerTypeOK
  <2>3. task' \in [Workers -> [Monitors -> Task]]
    BY <1>3, IdleIsTask DEF RequestShutdown, Exit, Crash, WorkerTypeOK
  <2>q. QED
    BY <2>1, <2>2, <2>3 DEF WorkerTypeOK
<1>4. ASSUME NEW m \in Monitors,
             \/ TaskStep(w, m)
             \/ InitialLeaseError(w, m)
             \/ HeartbeatExtends(w, m)
             \/ CancelCheck(w, m)
             \/ ReleaseError(w, m)
             \/ SaveError(w, m)
      PROVE  DbTypeOK' /\ WorkerTypeOK'
  <2> DEFINE t == task[w][m]
  <2>t. t \in Task
    BY DEF WorkerTypeOK
  <2>n. 0 \in 0..MaxAttempts /\ 1 \in 0..MaxAttempts
    BY WorkerAssumption
  <2>f. Finish(w, m) /\ UNCHANGED worker => WorkerTypeOK'
    BY IdleIsTask, TaskUpdate DEF Finish, WorkerTypeOK
  <2>1. CASE EnsureInitialLease(w, m)
    <3>1. DbTypeOK'
      BY <2>1 DEF EnsureInitialLease, ExtendClaim, DbTypeOK, LeaseState,
                  registry, schedule, health
    <3>2. CASE claimedBy[m] = w
      <4>1. [t EXCEPT !.phase = "checking", !.attempt = 1] \in Task
        BY <2>t, <2>n DEF Task, Phase
      <4>2. task' = [task EXCEPT ![w][m] = [t EXCEPT !.phase = "checking", !.attempt = 1]]
        BY <2>1, <3>2 DEF EnsureInitialLease, WorkerTypeOK
      <4>3. worker' = worker
        BY <2>1 DEF EnsureInitialLease
      <4>q. QED
        BY <3>1, <4>1, <4>2, <4>3, TaskUpdate DEF WorkerTypeOK
    <3>3. CASE claimedBy[m] # w
      BY <2>1, <2>f, <3>1, <3>3 DEF EnsureInitialLease
    <3>q. QED
      BY <3>2, <3>3
  <2>2. ASSUME NEW outcome \in Outcome, AttemptEnds(w, m, outcome)
        PROVE  DbTypeOK' /\ WorkerTypeOK'
    <3> DEFINE u == IF ShouldRetry(t, outcome)
                    THEN [t EXCEPT !.attempt = t.attempt + 1]
                    ELSE [t EXCEPT !.phase = "completed", !.attempt = 0,
                                   !.result = IF outcome = "up" THEN "up" ELSE "down"]
    <3>1. u \in Task
      <4>1. CASE ShouldRetry(t, outcome)
        <5>1. t.attempt \in 0..MaxAttempts /\ t.attempt < MaxAttempts
          BY <2>t, <4>1 DEF Task, ShouldRetry
        <5>2. t.attempt + 1 \in 0..MaxAttempts
          BY <5>1, WorkerAssumption
        <5>3. u = [t EXCEPT !.attempt = t.attempt + 1]
          BY <4>1
        <5>q. QED
          BY <2>t, <5>2, <5>3 DEF Task
      <4>2. CASE ~ShouldRetry(t, outcome)
        BY <2>t, <2>n, <4>2 DEF Task, Phase, Health
      <4>q. QED
        BY <4>1, <4>2
    <3>2. task' = [task EXCEPT ![w][m] = u] /\ worker' = worker
      BY <2>2 DEF AttemptEnds
    <3>3. WorkerTypeOK'
      BY <3>1, <3>2, TaskUpdate DEF WorkerTypeOK
    <3>q. QED
      BY <2>2, <3>3 DEF AttemptEnds, dbVars, DbTypeOK
  <2>3. CASE ReleaseCancelled(w, m)
    <3>1. WorkerTypeOK'
      BY <2>3, <2>f DEF ReleaseCancelled
    <3>2. DbTypeOK'
      BY <2>3 DEF ReleaseCancelled, ReleaseClaim, ClearClaim, DbTypeOK, LeaseState, claims,
                  registry, schedule, health
    <3>q. QED
      BY <3>1, <3>2
  <2>4. CASE SaveBegins(w, m)
    <3>1. DbTypeOK' /\ worker' = worker
      BY <2>4 DEF SaveBegins, dbVars, DbTypeOK
    <3> DEFINE a == classify_incident_action(t.snap, t.result,
                                             t.snap = "down" /\ incident[m] = "open")
               u == [t EXCEPT !.phase = "saving", !.act = a]
    <3>2. a \in IncidentAction
      BY DEF classify_incident_action, IncidentAction
    <3>3. u \in Task
      BY <2>t, <3>2 DEF Task, Phase
    <3>4. CASE Exists(m)
      <4>1. task' = [task EXCEPT ![w][m] = u]
        BY <2>4, <3>4 DEF SaveBegins
      <4>q. QED
        BY <3>1, <3>3, <4>1, TaskUpdate DEF WorkerTypeOK
    <3>5. CASE ~Exists(m)
      BY <2>4, <2>f, <3>1, <3>5 DEF SaveBegins
    <3>q. QED
      BY <3>4, <3>5
  <2>5. CASE SaveCommits(w, m)
    <3>1. WorkerTypeOK'
      BY <2>5, <2>f DEF SaveCommits
    <3>2. incident' \in [Monitors -> IncidentState]
      BY <2>5 DEF SaveCommits, ApplyIncidentAction, DbTypeOK, IncidentState
    <3>3. notified' \in [Monitors -> Event \X Event]
      <4>1. determine_event_type(t.snap, t.result) \in Event
        BY DEF determine_event_type, Event
      <4>2. notified[m][2] \in Event
        BY DEF DbTypeOK
      <4>q. QED
        BY <2>5, <4>1, <4>2 DEF SaveCommits, EnqueueNotifications, DbTypeOK
    <3>4. /\ last' \in [Monitors -> Health]
          /\ due' \in [Monitors -> BOOLEAN]
          /\ claimedBy' \in [Monitors -> Workers \cup {NoWorker}]
          /\ lease' \in [Monitors -> LeaseState]
      BY <2>5, <2>t DEF SaveCommits, UpdateLastCheck, ClearClaim, DbTypeOK, LeaseState, Task
    <3>5. older' \in SUBSET (Monitors \X Monitors)
      BY <2>5 DEF SaveCommits, UpdateLastCheck, DbTypeOK
    <3>6. UNCHANGED <<siteStatus, status>>
      BY <2>5 DEF SaveCommits, registry
    <3>q. QED
      BY <3>1, <3>2, <3>3, <3>4, <3>5, <3>6 DEF DbTypeOK
  <2>6. CASE CancelCheck(w, m)
    <3>1. [t EXCEPT !.phase = "cancelled", !.attempt = 0] \in Task
      BY <2>t, <2>n DEF Task, Phase
    <3>2. task' = [task EXCEPT ![w][m] = [t EXCEPT !.phase = "cancelled", !.attempt = 0]]
      BY <2>6 DEF CancelCheck, WorkerTypeOK
    <3>3. WorkerTypeOK'
      BY <2>6, <3>1, <3>2, TaskUpdate DEF CancelCheck, WorkerTypeOK
    <3>q. QED
      BY <2>6, <3>3 DEF CancelCheck, dbVars, DbTypeOK
  <2>7. CASE HeartbeatExtends(w, m)
    BY <2>7 DEF HeartbeatExtends, ExtendClaim, DbTypeOK, WorkerTypeOK, LeaseState,
                registry, schedule, health, workerVars
  <2>8. CASE SaveRollsBack(w, m) \/ InitialLeaseError(w, m) \/ ReleaseError(w, m)
               \/ SaveError(w, m)
    <3>1. WorkerTypeOK'
      BY <2>8, <2>f DEF SaveRollsBack, InitialLeaseError, ReleaseError, SaveError
    <3>2. DbTypeOK'
      BY <2>8 DEF SaveRollsBack, InitialLeaseError, ReleaseError, SaveError, dbVars, DbTypeOK
    <3>q. QED
      BY <3>1, <3>2
  <2>q. QED
    BY <1>4, <2>1, <2>2, <2>3, <2>4, <2>5, <2>6, <2>7, <2>8 DEF TaskStep
<1>q. QED
  BY <1>1, <1>2, <1>3, <1>4 DEF WorkerStep

\* The steps of API handlers and of time keep the types.
LEMMA ApiStepType ==
  ASSUME TypeOK, ApiStep
  PROVE  TypeOK'
<1> USE DEF TypeOK
<1>w. WorkerTypeOK'
  BY DEF ApiStep, CreateSite, DeleteSite, UpdateSite, DisableKind, DisableMonitor, PauseMonitor,
         ResumeMonitor, CreateMonitor, UpdateMonitor, ResolveIncidents, ResolveLost,
         workerVars, WorkerTypeOK
<1>1. ASSUME NEW s \in Sites, CreateSite(s)
      PROVE  DbTypeOK' /\ ApiTypeOK'
  BY <1>1 DEF CreateSite, DbTypeOK, ApiTypeOK, RowStatus, schedule, claims, health
<1>2. ASSUME NEW s \in Sites, DeleteSite(s)
      PROVE  DbTypeOK' /\ ApiTypeOK'
  BY <1>2 DEF DeleteSite, DeleteRows, DbTypeOK, ApiTypeOK, RowStatus, Health, LeaseState,
              IncidentState, Event
<1>3. ASSUME NEW s \in Sites, NEW on \in BOOLEAN, UpdateSite(s, on)
      PROVE  DbTypeOK' /\ ApiTypeOK'
  BY <1>3, CallsAreTyped DEF UpdateSite, Schedules, DbTypeOK, ApiTypeOK, RowStatus,
                             schedule, claims, health
<1>4. ASSUME NEW s \in Sites, NEW k \in Kinds, DisableKind(s, k)
      PROVE  DbTypeOK' /\ ApiTypeOK'
  BY <1>4, CallsAreTyped DEF DisableKind, Schedules, SetActive, DbTypeOK, ApiTypeOK, RowStatus,
                             schedule, claims, health
<1>5. ASSUME NEW m \in Monitors, DisableMonitor(m) \/ PauseMonitor(m) \/ ResumeMonitor(m)
      PROVE  DbTypeOK' /\ ApiTypeOK'
  BY <1>5, CallsAreTyped DEF DisableMonitor, PauseMonitor, ResumeMonitor, Schedules, SetActive,
                             DbTypeOK, ApiTypeOK, RowStatus, schedule, claims, health
<1>6. ASSUME NEW m \in Monitors, NEW on \in BOOLEAN, CreateMonitor(m, on)
      PROVE  DbTypeOK' /\ ApiTypeOK'
  BY <1>6, CallsAreTyped DEF CreateMonitor, InsertMonitor, NeverChecked, Schedules, DbTypeOK, ApiTypeOK,
                             RowStatus, claims, health
<1>7. ASSUME NEW m \in Monitors, NEW on \in BOOLEAN, NEW isDue \in BOOLEAN,
             UpdateMonitor(m, on, isDue)
      PROVE  DbTypeOK' /\ ApiTypeOK'
  BY <1>7, CallsAreTyped DEF UpdateMonitor, SetActive, Schedules, DbTypeOK, ApiTypeOK, RowStatus,
                             claims, health
<1>8. ASSUME NEW c \in resolving, ResolveIncidents(c) \/ ResolveLost(c)
      PROVE  DbTypeOK' /\ ApiTypeOK'
  <2>1. ApiTypeOK' /\ c.reason \in IncidentState
    BY <1>8, CallsAreTyped DEF ResolveIncidents, ResolveLost, ApiTypeOK, IncidentState
  <2>2. DbTypeOK'
    BY <1>8, <2>1 DEF ResolveIncidents, ResolveLost, ResolveOpen, DbTypeOK,
                      registry, schedule, claims, dbVars
  <2>q. QED
    BY <2>1, <2>2
<1>q. QED
  BY <1>w, <1>1, <1>2, <1>3, <1>4, <1>5, <1>6, <1>7, <1>8 DEF ApiStep

\* The passage of time keeps the types.
LEMMA TickType ==
  ASSUME TypeOK, Tick
  PROVE  TypeOK'
BY DEF TypeOK, Tick, IntervalElapses, LeaseElapses, DbTypeOK, WorkerTypeOK, ApiTypeOK, LeaseState,
       workerVars, registry, schedule, claims, health

\* An empty database and idle workers are well typed.
LEMMA InitType == Init => TypeOK
BY IdleIsTask
   DEF Init, DbInit, WorkerInit, ApiInit, TypeOK, DbTypeOK, WorkerTypeOK, ApiTypeOK,
       RowStatus, Health, LeaseState, IncidentState, Event

\* Every step keeps the types.
LEMMA NextType == TypeOK /\ [Next]_vars => TypeOK'
<1>1. CASE UNCHANGED vars
  BY <1>1 DEF vars, dbVars, workerVars, TypeOK, DbTypeOK, WorkerTypeOK, ApiTypeOK
<1>q. QED
  BY <1>1, WorkerStepType, ApiStepType, TickType DEF Next

\* Every variable keeps its type: rows, claims, leases, futures and handlers.
THEOREM TypeCorrect == Spec => []TypeOK
BY InitType, NextType, PTL DEF Spec

-----------------------------------------------------------------------------
(* The inductive invariant.  Steps fall into three classes: the commit of a *)
(* result, the only one that writes health; steps that leave health and     *)
(* claims alone or take them away; and the deletion of a site.              *)

\* The inductive invariant holds initially.
LEMMA InitIInv == Init => IInv
<1> SUFFICES ASSUME Init PROVE IInv
  OBVIOUS
<1>1. TypeOK
  BY InitType
<1>2. SnapshotFresh /\ SaveDecisionFits
  BY DEF Init, WorkerInit, Idle, SnapshotFresh, SaveDecisionFits, DecisionFits
<1>3. IncidentTracksHealth /\ NotificationsAlternate
  BY DEF Init, DbInit, IncidentTracksHealth, NotificationsAlternate
<1>q. QED
  BY <1>1, <1>2, <1>3 DEF IInv

\* Steps that do not touch last, incident and notified keep what relates them.
LEMMA HealthKept ==
  ASSUME IncidentTracksHealth, NotificationsAlternate, UNCHANGED health
  PROVE  IncidentTracksHealth' /\ NotificationsAlternate'
BY DEF IncidentTracksHealth, NotificationsAlternate, health

\* Futures survive a step that changes no health, gives no claim away and
\* changes only the future of w for m, into one that is idle or in order.
LEMMA FutureStep ==
  ASSUME TypeOK, SnapshotFresh, SaveDecisionFits, UNCHANGED health,
         NEW w \in Workers, NEW m \in Monitors, NEW t \in Task,
         task' = [task EXCEPT ![w][m] = t],
         \A n \in Monitors : claimedBy'[n] \in {claimedBy[n], NoWorker},
         \/ t.phase = "idle"
         \/ /\ task[w][m].phase # "idle"
            /\ t.snap = task[w][m].snap
            /\ t.phase \notin {"completed", "saving"}
  PROVE  SnapshotFresh' /\ SaveDecisionFits'
<1> USE DEF TypeOK, WorkerTypeOK, DbTypeOK
<1>1. ASSUME NEW v \in Workers, NEW n \in Monitors, <<v, n>> # <<w, m>>
      PROVE  task'[v][n] = task[v][n]
  BY <1>1
<1>2. task'[w][m] = t
  OBVIOUS
<1>3. SnapshotFresh'
  BY <1>1, <1>2, WorkersAssumption DEF SnapshotFresh, health
<1>4. SaveDecisionFits'
  BY <1>1, <1>2, WorkersAssumption DEF SaveDecisionFits, DecisionFits, health
<1>q. QED
  BY <1>3, <1>4

\* The decision taken from the open incident fits the row it was read from.
LEMMA SaveBeginsKeeps ==
  ASSUME IInv, NEW w \in Workers, NEW m \in Monitors, SaveBegins(w, m), Exists(m)
  PROVE  SnapshotFresh' /\ SaveDecisionFits'
<1> USE DEF IInv, TypeOK, WorkerTypeOK, DbTypeOK
<1> DEFINE t == task[w][m]
           hasOpen == t.snap = "down" /\ incident[m] = "open"
           a == classify_incident_action(t.snap, t.result, hasOpen)
           u == [t EXCEPT !.phase = "saving", !.act = a]
<1>1. t \in Task /\ t.phase = "completed" /\ task' = [task EXCEPT ![w][m] = u] /\ UNCHANGED dbVars
  BY DEF SaveBegins
<1>2. /\ task'[w][m] = u
      /\ u.phase = "saving" /\ u.snap = t.snap /\ u.result = t.result /\ u.act = a
  BY <1>1 DEF Task
<1>3. ASSUME NEW v \in Workers, NEW n \in Monitors, <<v, n>> # <<w, m>>
      PROVE  task'[v][n] = task[v][n]
  BY <1>1, <1>3
<1>4. t.result \in {"up", "down"}
  BY <1>1 DEF SaveDecisionFits, DecisionFits
<1>5. /\ t.snap # "down" /\ t.result = "down" => a = "Open"
      /\ t.snap # "down" /\ t.result = "up" => a = "None"
      /\ t.snap = "down" /\ t.result = "down" => a \in {"UpdateExisting", "ReopenMissing"}
      /\ t.snap = "down" /\ t.result = "up" => a \in {"Resolve", "None"}
      /\ t.snap = "down" /\ a \in {"ReopenMissing", "None"} => incident[m] # "open"
  BY <1>4 DEF classify_incident_action
<1>6. SnapshotFresh'
  BY <1>1, <1>2, <1>3 DEF SnapshotFresh, dbVars
<1>7. DecisionFits(w, m)'
  BY <1>1, <1>2, <1>4, <1>5 DEF DecisionFits, dbVars
<1>8. ASSUME NEW v \in Workers, NEW n \in Monitors, <<v, n>> # <<w, m>>
      PROVE  DecisionFits(v, n)'
  <2>1. DecisionFits(v, n)
    BY DEF SaveDecisionFits
  <2> QED BY <1>1, <1>3, <1>8, <2>1 DEF DecisionFits, dbVars
<1>9. SaveDecisionFits'
  <2> SUFFICES ASSUME NEW v \in Workers, NEW n \in Monitors
               PROVE  DecisionFits(v, n)'
    BY DEF SaveDecisionFits
  <2>1. CASE <<v, n>> = <<w, m>>
    BY <1>7, <2>1
  <2>2. CASE <<v, n>> # <<w, m>>
    BY <1>8, <2>2
  <2> QED BY <2>1, <2>2
<1>q. QED
  BY <1>6, <1>9

\* What the commit of a result does, in terms of the row alone: the snapshot
\* it was judged against is the row's last_is_success.
LEMMA CommitEffect ==
  ASSUME IInv, NEW w \in Workers, NEW m \in Monitors, SaveCommits(w, m)
  PROVE  LET r == task[w][m].result IN
         /\ r \in {"up", "down"}
         /\ last' = [last EXCEPT ![m] = r]
         /\ r = "down" /\ last[m] # "down" =>
               /\ incident[m] # "open"
               /\ incident' = [incident EXCEPT ![m] = "open"]
               /\ notified' = [notified EXCEPT ![m] = <<notified[m][2], "failure">>]
         /\ r = "down" /\ last[m] = "down" =>
               /\ \/ incident' = [incident EXCEPT ![m] = "open"]
                  \/ incident' = incident
               /\ notified' = notified
         /\ r = "up" /\ last[m] = "down" =>
               /\ incident' = [incident EXCEPT ![m] = IF incident[m] = "open"
                                                       THEN "recovered" ELSE incident[m]]
               /\ notified' = [notified EXCEPT ![m] = <<notified[m][2], "recovery">>]
         /\ r = "up" /\ last[m] # "down" =>
               /\ incident[m] # "open"
               /\ incident' = incident
               /\ notified' = notified
<1> USE DEF IInv, TypeOK, WorkerTypeOK, DbTypeOK
<1> DEFINE t == task[w][m]
           r == t.result
<1>1. /\ t \in Task
      /\ t.phase = "saving"
      /\ claimedBy[m] = w
      /\ ~InsertConflicts(m, t.act)
      /\ ApplyIncidentAction(m, t.act)
      /\ EnqueueNotifications(m, determine_event_type(t.snap, r))
      /\ last' = [last EXCEPT ![m] = r]
  BY DEF SaveCommits, Owns, UpdateLastCheck
<1>2. t.snap = last[m]
  BY <1>1 DEF SnapshotFresh
<1>3. r \in {"up", "down"}
  BY <1>1 DEF SaveDecisionFits, DecisionFits
<1>4. last[m] # "down" => incident[m] # "open"
  BY DEF IncidentTracksHealth
<1>5. CASE r = "down" /\ last[m] # "down"
  <2>1. t.act = "Open" /\ determine_event_type(t.snap, r) = "failure"
    BY <1>1, <1>2, <1>5 DEF SaveDecisionFits, DecisionFits, determine_event_type
  <2>q. QED
    BY <1>1, <1>3, <1>4, <1>5, <2>1 DEF ApplyIncidentAction, EnqueueNotifications
<1>6. CASE r = "down" /\ last[m] = "down"
  <2>1. t.act \in {"UpdateExisting", "ReopenMissing"} /\ determine_event_type(t.snap, r) = "none"
    BY <1>1, <1>2, <1>6 DEF SaveDecisionFits, DecisionFits, determine_event_type
  <2>q. QED
    BY <1>1, <1>3, <1>6, <2>1 DEF ApplyIncidentAction, EnqueueNotifications
<1>7. CASE r = "up" /\ last[m] = "down"
  <2>1. /\ t.act \in {"Resolve", "None"}
        /\ t.act = "None" => incident[m] # "open"
        /\ determine_event_type(t.snap, r) = "recovery"
    BY <1>1, <1>2, <1>7 DEF SaveDecisionFits, DecisionFits, determine_event_type
  <2>2. incident' = [incident EXCEPT ![m] = IF incident[m] = "open"
                                            THEN "recovered" ELSE incident[m]]
    BY <1>1, <2>1 DEF ApplyIncidentAction
  <2>q. QED
    BY <1>1, <1>3, <1>7, <2>1, <2>2 DEF EnqueueNotifications
<1>8. CASE r = "up" /\ last[m] # "down"
  <2>1. t.act = "None" /\ determine_event_type(t.snap, r) = "none"
    BY <1>1, <1>2, <1>8 DEF SaveDecisionFits, DecisionFits, determine_event_type
  <2>q. QED
    BY <1>1, <1>3, <1>4, <1>8, <2>1 DEF ApplyIncidentAction, EnqueueNotifications
<1>q. QED
  BY <1>3, <1>5, <1>6, <1>7, <1>8

\* The commit of a result (save_check_result) keeps the invariant.
LEMMA SaveCommitsKeeps ==
  ASSUME IInv, NEW w \in Workers, NEW m \in Monitors, SaveCommits(w, m)
  PROVE  SnapshotFresh' /\ SaveDecisionFits' /\ IncidentTracksHealth' /\ NotificationsAlternate'
<1> USE DEF IInv, TypeOK, WorkerTypeOK, DbTypeOK
<1> DEFINE r == task[w][m].result
<1>1. /\ task' = [task EXCEPT ![w][m] = Idle]
      /\ claimedBy' = [claimedBy EXCEPT ![m] = NoWorker]
  BY DEF SaveCommits, Finish, UpdateLastCheck, ClearClaim
<1>2. /\ r \in {"up", "down"}
      /\ last' = [last EXCEPT ![m] = r]
      /\ \A n \in Monitors \ {m} : incident'[n] = incident[n] /\ notified'[n] = notified[n]
  BY CommitEffect
<1>3. ASSUME NEW v \in Workers, NEW n \in Monitors, <<v, n>> # <<w, m>>
      PROVE  task'[v][n] = task[v][n]
  BY <1>1, <1>3
<1>4. task'[w][m].phase = "idle" /\ NoWorker \notin Workers
  BY <1>1, WorkersAssumption DEF Idle
<1>5. SnapshotFresh'
  BY <1>1, <1>2, <1>3, <1>4 DEF SnapshotFresh
<1>6. SaveDecisionFits'
  <2>1. ASSUME NEW v \in Workers, NEW n \in Monitors, claimedBy'[n] = v
        PROVE  n # m /\ claimedBy[n] = v /\ incident'[n] = incident[n]
    BY <1>1, <1>2, <1>4, <2>1
  <2>2. DecisionFits(w, m)'
    BY <1>4 DEF DecisionFits
  <2>3. ASSUME NEW v \in Workers, NEW n \in Monitors, <<v, n>> # <<w, m>>
        PROVE  DecisionFits(v, n)'
    <3>1. task'[v][n] = task[v][n] /\ DecisionFits(v, n)
      BY <1>3, <2>3 DEF SaveDecisionFits
    <3>q. QED
      BY <2>1, <3>1 DEF DecisionFits
  <2>q. QED
    BY <2>2, <2>3 DEF SaveDecisionFits
<1>7. /\ incident'[m] = "open" => r = "down"
      /\ r = "down" => incident'[m] \in {"open"} \cup OperatorReasons
  <2>1. CASE r = "down" /\ last[m] # "down"
    BY <2>1, CommitEffect DEF IncidentTracksHealth
  <2>2. CASE r = "down" /\ last[m] = "down"
    BY <2>2, CommitEffect DEF IncidentTracksHealth
  <2>3. CASE r = "up" /\ last[m] = "down"
    BY <2>3, CommitEffect DEF IncidentTracksHealth
  <2>4. CASE r = "up" /\ last[m] # "down"
    BY <2>4, CommitEffect DEF IncidentTracksHealth
  <2>q. QED
    BY <1>2, <2>1, <2>2, <2>3, <2>4
<1>8. IncidentTracksHealth'
  BY <1>2, <1>7 DEF IncidentTracksHealth
<1> DEFINE Window == {<<"none", "none">>, <<"none", "failure">>,
                      <<"failure", "recovery">>, <<"recovery", "failure">>}
<1>9. notified'[m] \in Window /\ (notified'[m][2] = "failure" <=> r = "down")
  <2>1. notified[m] \in Window /\ (notified[m][2] = "failure" <=> last[m] = "down")
    BY DEF NotificationsAlternate
  <2>2. CASE r = "down" /\ last[m] # "down"
    BY <2>1, <2>2, CommitEffect
  <2>3. CASE r = "up" /\ last[m] = "down"
    BY <2>1, <2>3, CommitEffect
  <2>4. CASE (r = "up" /\ last[m] # "down") \/ (r = "down" /\ last[m] = "down")
    BY <2>1, <2>4, CommitEffect
  <2>q. QED
    BY <1>2, <2>2, <2>3, <2>4
<1>10. NotificationsAlternate'
  BY <1>2, <1>9 DEF NotificationsAlternate
<1>q. QED
  BY <1>5, <1>6, <1>8, <1>10

\* A claim statement hands out current snapshots and keeps the invariant.
LEMMA ClaimKeeps ==
  ASSUME IInv, NEW w \in Workers, Claim(w) \/ ClaimReplyLost(w)
  PROVE  SnapshotFresh' /\ SaveDecisionFits'
<1> USE DEF IInv, TypeOK, WorkerTypeOK, DbTypeOK
<1> DEFINE S == Batch(Claimable \ Locked)
<1>1. /\ claimedBy' = [n \in Monitors |-> IF n \in S THEN w ELSE claimedBy[n]]
      /\ UNCHANGED <<last, incident>>
      /\ \A n \in Monitors : task[w][n].phase = "idle"
  BY DEF Claim, ClaimReplyLost, ClaimRows, health, AllIdle
<1>2. ASSUME NEW v \in Workers \ {w}
      PROVE  task'[v] = task[v]
  BY DEF Claim, ClaimReplyLost, workerVars
<1>3. ASSUME NEW n \in Monitors
      PROVE  \/ task'[w][n].phase = "idle"
             \/ task'[w][n].phase = "claimed" /\ task'[w][n].snap = last[n]
  <2>1. CASE Claim(w)
    <3>1. task'[w][n] = IF n \in S THEN [Idle EXCEPT !.phase = "claimed", !.snap = last[n]]
                                   ELSE Idle
      BY <2>1 DEF Claim
    <3>q. QED
      BY <3>1 DEF Idle
  <2>2. CASE ClaimReplyLost(w)
    BY <1>1, <2>2 DEF ClaimReplyLost, workerVars
  <2>q. QED
    BY <2>1, <2>2
<1>4. SnapshotFresh'
  BY <1>1, <1>2, <1>3 DEF SnapshotFresh
<1>5. SaveDecisionFits'
  <2>1. ASSUME NEW n \in Monitors
        PROVE  DecisionFits(w, n)'
    BY <1>3 DEF DecisionFits
  <2>2. ASSUME NEW v \in Workers \ {w}, NEW n \in Monitors
        PROVE  DecisionFits(v, n)'
    <3>1. DecisionFits(v, n) /\ task'[v][n] = task[v][n] /\ (claimedBy'[n] = v => claimedBy[n] = v)
      BY <1>1, <1>2 DEF SaveDecisionFits
    <3>q. QED
      BY <1>1, <3>1 DEF DecisionFits
  <2>q. QED
    BY <2>1, <2>2 DEF SaveDecisionFits
<1>q. QED
  BY <1>4, <1>5

\* Every step of a worker keeps the invariant.
LEMMA WorkerStepKeeps ==
  ASSUME IInv, NEW w \in Workers, WorkerStep(w)
  PROVE  SnapshotFresh' /\ SaveDecisionFits' /\ IncidentTracksHealth' /\ NotificationsAlternate'
<1> USE DEF IInv, TypeOK, WorkerTypeOK
<1>1. CASE Claim(w) \/ ClaimReplyLost(w)
  BY <1>1, ClaimKeeps, HealthKept DEF Claim, ClaimReplyLost
<1>2. CASE RequestShutdown(w) \/ Exit(w) \/ Crash(w)
  <2>1. UNCHANGED dbVars /\ UNCHANGED health
    BY <1>2 DEF RequestShutdown, Exit, Crash, dbVars, health
  <2>2. ASSUME NEW v \in Workers, NEW n \in Monitors
        PROVE  task'[v][n] = task[v][n] \/ task'[v][n].phase = "idle"
    BY <1>2 DEF RequestShutdown, Exit, Crash, Idle
  <2>3. SnapshotFresh' /\ SaveDecisionFits'
    BY <2>1, <2>2 DEF SnapshotFresh, SaveDecisionFits, DecisionFits, dbVars
  <2>q. QED
    BY <2>1, <2>3, HealthKept
<1>3. ASSUME NEW m \in Monitors,
             \/ TaskStep(w, m)
             \/ InitialLeaseError(w, m)
             \/ HeartbeatExtends(w, m)
             \/ CancelCheck(w, m)
             \/ ReleaseError(w, m)
             \/ SaveError(w, m)
      PROVE  SnapshotFresh' /\ SaveDecisionFits' /\ IncidentTracksHealth'
                /\ NotificationsAlternate'
  <2> DEFINE t == task[w][m]
             Kept == \A n \in Monitors : claimedBy'[n] \in {claimedBy[n], NoWorker}
  <2>t. t \in Task
    OBVIOUS
  <2>f. ASSUME Finish(w, m), Kept, UNCHANGED health
        PROVE  SnapshotFresh' /\ SaveDecisionFits'
    BY <2>f, FutureStep, IdleIsTask DEF Finish, Idle
  <2>n. 0 \in 0..MaxAttempts /\ 1 \in 0..MaxAttempts
    BY WorkerAssumption
  <2>1. CASE EnsureInitialLease(w, m)
    <3>1. UNCHANGED <<health, claimedBy>> /\ t.phase = "claimed"
      BY <2>1 DEF EnsureInitialLease
    <3>2. CASE claimedBy[m] = w
      <4> DEFINE u == [t EXCEPT !.phase = "checking", !.attempt = 1]
      <4>1. u \in Task /\ u.phase = "checking" /\ u.snap = t.snap
        BY <2>t, <2>n DEF Task, Phase
      <4>2. task' = [task EXCEPT ![w][m] = u]
        BY <2>1, <3>2 DEF EnsureInitialLease
      <4>3. SnapshotFresh' /\ SaveDecisionFits'
        <5> HIDE DEF u
        <5>q. QED
          BY <3>1, <4>1, <4>2, FutureStep
      <4>q. QED
        BY <3>1, <4>3, HealthKept
    <3>3. CASE claimedBy[m] # w
      BY <2>1, <2>f, <3>1, <3>3, HealthKept DEF EnsureInitialLease
    <3>q. QED
      BY <3>2, <3>3
  <2>2. ASSUME NEW outcome \in Outcome, AttemptEnds(w, m, outcome)
        PROVE  SnapshotFresh' /\ SaveDecisionFits' /\ IncidentTracksHealth'
                  /\ NotificationsAlternate'
    <3> DEFINE u == task'[w][m]
    <3>1. UNCHANGED dbVars /\ UNCHANGED health /\ t.phase = "checking"
      BY <2>2 DEF AttemptEnds, dbVars, health
    <3>2. /\ u.snap = t.snap
          /\ u.phase \in {"checking", "completed"}
          /\ u.phase = "completed" => u.result \in {"up", "down"}
      BY <2>2, <2>t DEF AttemptEnds, Task
    <3>3. ASSUME NEW v \in Workers, NEW n \in Monitors, <<v, n>> # <<w, m>>
          PROVE  task'[v][n] = task[v][n]
      BY <2>2, <3>3 DEF AttemptEnds
    <3>4. SnapshotFresh'
      BY <3>1, <3>2, <3>3 DEF SnapshotFresh, dbVars
    <3>5. SaveDecisionFits'
      BY <3>1, <3>2, <3>3 DEF SaveDecisionFits, DecisionFits, dbVars
    <3>q. QED
      BY <3>1, <3>4, <3>5, HealthKept
  <2>3. CASE ReleaseCancelled(w, m)
    <3>1. Kept /\ UNCHANGED health /\ Finish(w, m)
      BY <2>3 DEF ReleaseCancelled, ReleaseClaim, ClearClaim, claims, DbTypeOK
    <3>q. QED
      BY <3>1, <2>f, HealthKept
  <2>4. CASE SaveBegins(w, m)
    <3>1. UNCHANGED health /\ Kept
      BY <2>4 DEF SaveBegins, dbVars, health
    <3>2. CASE Exists(m)
      BY <2>4, <3>1, <3>2, SaveBeginsKeeps, HealthKept
    <3>3. CASE ~Exists(m)
      BY <2>4, <2>f, <3>1, <3>3, HealthKept DEF SaveBegins
    <3>q. QED
      BY <3>2, <3>3
  <2>5. CASE SaveCommits(w, m)
    BY <2>5, SaveCommitsKeeps
  <2>6. CASE CancelCheck(w, m)
    <3> DEFINE u == [t EXCEPT !.phase = "cancelled", !.attempt = 0]
    <3>1. UNCHANGED health /\ Kept /\ t.phase = "checking"
      BY <2>6 DEF CancelCheck, dbVars, health
    <3>2. u \in Task /\ u.phase = "cancelled" /\ u.snap = t.snap
      BY <2>t, <2>n DEF Task, Phase
    <3>3. task' = [task EXCEPT ![w][m] = u]
      BY <2>6 DEF CancelCheck
    <3>4. SnapshotFresh' /\ SaveDecisionFits'
      <4> HIDE DEF u
      <4>q. QED
        BY <3>1, <3>2, <3>3, FutureStep
    <3>q. QED
      BY <3>1, <3>4, HealthKept
  <2>7. CASE HeartbeatExtends(w, m)
    <3>1. UNCHANGED <<health, claimedBy, task, last, incident>>
      BY <2>7 DEF HeartbeatExtends, workerVars, health
    <3>q. QED
      BY <3>1, HealthKept DEF SnapshotFresh, SaveDecisionFits, DecisionFits
  <2>8. CASE SaveRollsBack(w, m) \/ InitialLeaseError(w, m) \/ ReleaseError(w, m)
               \/ SaveError(w, m)
    <3>1. UNCHANGED health /\ Kept /\ Finish(w, m)
      BY <2>8 DEF SaveRollsBack, InitialLeaseError, ReleaseError, SaveError, dbVars, health
    <3>q. QED
      BY <3>1, <2>f, HealthKept
  <2>q. QED
    BY <1>3, <2>1, <2>2, <2>3, <2>4, <2>5, <2>6, <2>7, <2>8 DEF TaskStep
<1>q. QED
  BY <1>1, <1>2, <1>3 DEF WorkerStep

\* Every statement of a handler keeps the invariant.
LEMMA ApiStepKeeps ==
  ASSUME IInv, ApiStep
  PROVE  SnapshotFresh' /\ SaveDecisionFits' /\ IncidentTracksHealth' /\ NotificationsAlternate'
<1> USE DEF IInv, TypeOK, WorkerTypeOK, DbTypeOK
<1>1. UNCHANGED task
  BY DEF ApiStep, CreateSite, DeleteSite, UpdateSite, DisableKind, DisableMonitor, PauseMonitor,
         ResumeMonitor, CreateMonitor, UpdateMonitor, ResolveIncidents, ResolveLost, workerVars
<1>2. ASSUME NEW s \in Sites, DeleteSite(s)
      PROVE  SnapshotFresh' /\ SaveDecisionFits' /\ IncidentTracksHealth'
                /\ NotificationsAlternate'
  <2>1. ASSUME NEW n \in Monitors
        PROVE  \/ /\ last'[n] = "none" /\ incident'[n] = "none" /\ claimedBy'[n] = NoWorker
                  /\ notified'[n] = <<"none", "none">>
               \/ /\ last'[n] = last[n] /\ incident'[n] = incident[n]
                  /\ claimedBy'[n] = claimedBy[n] /\ notified'[n] = notified[n]
    BY <1>2 DEF DeleteSite, DeleteRows
  <2>2. SnapshotFresh'
    BY <1>1, <2>1, WorkersAssumption DEF SnapshotFresh
  <2>3. SaveDecisionFits'
    <3>1. ASSUME NEW v \in Workers, NEW n \in Monitors
          PROVE  DecisionFits(v, n)'
      <4>1. DecisionFits(v, n) /\ NoWorker # v
        BY WorkersAssumption DEF SaveDecisionFits
      <4>q. QED
        BY <1>1, <2>1, <4>1 DEF DecisionFits
    <3>q. QED
      BY <3>1 DEF SaveDecisionFits
  <2>4. IncidentTracksHealth'
    BY <2>1 DEF IncidentTracksHealth
  <2>5. NotificationsAlternate'
    BY <2>1 DEF NotificationsAlternate
  <2>q. QED
    BY <2>2, <2>3, <2>4, <2>5
<1>3. ASSUME NEW c \in resolving, ResolveIncidents(c)
      PROVE  SnapshotFresh' /\ SaveDecisionFits' /\ IncidentTracksHealth'
                /\ NotificationsAlternate'
  <2>1. c.reason \in OperatorReasons
    BY CallsAreTyped DEF ApiTypeOK
  <2>2. /\ UNCHANGED <<last, notified, claimedBy>>
        /\ \A n \in Monitors : \/ incident'[n] = incident[n]
                               \/ incident[n] = "open" /\ incident'[n] \in OperatorReasons
    BY <1>3, <2>1 DEF ResolveIncidents, ResolveOpen, claims
  <2>3. "open" \notin OperatorReasons
    BY DEF OperatorReasons
  <2>4. SnapshotFresh' /\ SaveDecisionFits'
    BY <1>1, <2>2, <2>3 DEF SnapshotFresh, SaveDecisionFits, DecisionFits
  <2>5. IncidentTracksHealth' /\ NotificationsAlternate'
    BY <2>2, <2>3 DEF IncidentTracksHealth, NotificationsAlternate
  <2>q. QED
    BY <2>4, <2>5
<1>4. ASSUME ~\E s \in Sites : DeleteSite(s), ~\E c \in resolving : ResolveIncidents(c)
      PROVE  SnapshotFresh' /\ SaveDecisionFits' /\ IncidentTracksHealth'
                /\ NotificationsAlternate'
  <2>1. UNCHANGED <<health, claimedBy, last, incident>>
    BY <1>4 DEF ApiStep, CreateSite, UpdateSite, DisableKind, DisableMonitor, PauseMonitor,
                ResumeMonitor, CreateMonitor, UpdateMonitor, ResolveLost, health, claims, dbVars
  <2>q. QED
    BY <1>1, <2>1, HealthKept DEF SnapshotFresh, SaveDecisionFits, DecisionFits
<1>q. QED
  BY <1>2, <1>3, <1>4

\* The invariant is inductive.
LEMMA NextIInv == IInv /\ [Next]_vars => IInv'
<1> SUFFICES ASSUME IInv, [Next]_vars
             PROVE  IInv'
  OBVIOUS
<1>0. TypeOK'
  BY NextType DEF IInv
<1>1. CASE Tick \/ UNCHANGED vars
  <2>1. UNCHANGED <<task, health, claimedBy, last, incident>>
    BY <1>1 DEF Tick, IntervalElapses, LeaseElapses, vars, dbVars, workerVars, health, claims
  <2>2. SnapshotFresh' /\ SaveDecisionFits'
    BY <2>1 DEF IInv, SnapshotFresh, SaveDecisionFits, DecisionFits
  <2>q. QED
    BY <1>0, <2>1, <2>2, HealthKept DEF IInv
<1>q. QED
  BY <1>0, <1>1, WorkerStepKeeps, ApiStepKeeps DEF Next, IInv

\* The inductive invariant holds throughout.
LEMMA Invariance == Spec => []IInv
BY InitIInv, NextIInv, PTL DEF Spec

-----------------------------------------------------------------------------
\* A worker that still owns its claim judges its result against the current
\* health of the monitor (save_check_result).
THEOREM OwnersSnapshotIsFresh == Spec => []SnapshotFresh
BY Invariance, PTL DEF IInv

\* Open incidents belong to failing monitors, and failing monitors have an
\* incident that is open or was closed by an operator.
THEOREM IncidentsFollowHealth == Spec => []IncidentTracksHealth
BY Invariance, PTL DEF IInv

\* Failure and recovery notifications alternate, beginning with a failure.
THEOREM NotificationsAreNotRepeated == Spec => []NotificationsAlternate
BY Invariance, PTL DEF IInv

\* The unique index on open incidents never rejects the result of the worker
\* that owns the claim.
THEOREM UniqueIndexNeverHitByOwner == Spec => []OwnerInsertNeverConflicts
<1>1. IInv => OwnerInsertNeverConflicts
  BY DEF IInv, OwnerInsertNeverConflicts, SnapshotFresh, SaveDecisionFits, DecisionFits, IncidentTracksHealth,
         Owns, InsertConflicts, TypeOK, WorkerTypeOK, Task
<1>q. QED
  BY <1>1, Invariance, PTL

-----------------------------------------------------------------------------
(* Implementation of IncidentLifecycle.                                    *)

\* A commit is a check of the abstract specification.
LEMMA CommitImplementsCheck ==
  ASSUME IInv, NEW w \in Workers, NEW m \in Monitors, SaveCommits(w, m)
  PROVE  Lifecycle!CheckFails(m) \/ Lifecycle!CheckPasses(m)
<1> DEFINE r == task[w][m].result
<1>1. r \in {"up", "down"} /\ last' = [last EXCEPT ![m] = r]
  BY CommitEffect
<1>2. CASE r = "down" /\ last[m] # "down"
  BY <1>1, <1>2, CommitEffect DEF Lifecycle!CheckFails
<1>3. CASE r = "down" /\ last[m] = "down"
  <2>1. incident[m] \in {"open"} \cup Lifecycle!Reasons
    BY <1>3 DEF IInv, IncidentTracksHealth, OperatorReasons, Lifecycle!Reasons
  <2>2. incident \in [Monitors -> IncidentState]
    BY DEF IInv, TypeOK, DbTypeOK
  <2>3. notified' = notified /\ (\/ incident' = [incident EXCEPT ![m] = "open"]
                                \/ incident' = incident)
    BY <1>3, CommitEffect
  <2>4. incident' = [incident EXCEPT ![m] = "open"]
          \/ (incident[m] \in Lifecycle!Reasons /\ incident' = incident)
    BY <2>1, <2>2, <2>3
  <2>q. QED
    BY <1>1, <1>3, <2>3, <2>4 DEF Lifecycle!CheckFails
<1>4. CASE r = "up" /\ last[m] = "down"
  BY <1>1, <1>4, CommitEffect DEF Lifecycle!CheckPasses
<1>5. CASE r = "up" /\ last[m] # "down"
  BY <1>1, <1>5, CommitEffect DEF Lifecycle!CheckPasses
<1>q. QED
  BY <1>1, <1>2, <1>3, <1>4, <1>5

\* Every step is a step of the abstract specification or a stutter.
LEMMA StepImplementsLifecycle ==
  ASSUME IInv, [Next]_vars
  PROVE  [Lifecycle!Next]_(Lifecycle!vars)
<1>h. UNCHANGED health => UNCHANGED Lifecycle!vars
  BY DEF health, Lifecycle!vars
<1>1. ASSUME NEW w \in Workers, WorkerStep(w)
      PROVE  [Lifecycle!Next]_(Lifecycle!vars)
  <2>1. ASSUME NEW m \in Monitors, SaveCommits(w, m)
        PROVE  Lifecycle!Next
    BY <2>1, CommitImplementsCheck DEF Lifecycle!Next
  <2>2. CASE ~\E m \in Monitors : SaveCommits(w, m)
    BY <1>1, <1>h, <2>2
       DEF WorkerStep, TaskStep, Claim, ClaimReplyLost, RequestShutdown, Exit, Crash,
           EnsureInitialLease, InitialLeaseError, HeartbeatExtends, AttemptEnds, CancelCheck,
           ReleaseCancelled, ReleaseError, SaveBegins, SaveRollsBack, SaveError, dbVars, health
  <2>q. QED
    BY <2>1, <2>2
<1>2. ASSUME NEW s \in Sites, DeleteSite(s)
      PROVE  Lifecycle!Next
  <2>1. MonitorsOf(s) \in SUBSET Monitors
    BY DEF MonitorsOf
  <2>2. Lifecycle!SiteDeleted(MonitorsOf(s))
    BY <1>2 DEF DeleteSite, DeleteRows, Lifecycle!SiteDeleted
  <2>q. QED
    BY <2>1, <2>2 DEF Lifecycle!Next
<1>3. ASSUME NEW c \in resolving, ResolveIncidents(c)
      PROVE  Lifecycle!Next
  <2>1. c \in ResolveCall /\ c.reason \in Lifecycle!Reasons
    BY CallsAreTyped DEF IInv, TypeOK, ApiTypeOK, OperatorReasons, Lifecycle!Reasons
  <2>2. Covered(c) \in SUBSET Monitors
    BY <2>1 DEF Covered, MonitorsOf, ResolveCall
  <2>3. Lifecycle!OperatorCloses(Covered(c), c.reason)
    BY <1>3 DEF ResolveIncidents, ResolveOpen, Lifecycle!OperatorCloses
  <2>q. QED
    BY <2>1, <2>2, <2>3 DEF Lifecycle!Next
<1>4. ASSUME ApiStep, ~\E s \in Sites : DeleteSite(s), ~\E c \in resolving : ResolveIncidents(c)
      PROVE  UNCHANGED Lifecycle!vars
  BY <1>4, <1>h DEF ApiStep, CreateSite, UpdateSite, DisableKind, DisableMonitor, PauseMonitor,
                    ResumeMonitor, CreateMonitor, UpdateMonitor, ResolveLost, health, dbVars
<1>5. CASE Tick \/ UNCHANGED vars
  BY <1>5, <1>h DEF Tick, IntervalElapses, LeaseElapses, vars, dbVars, health
<1>q. QED
  BY <1>1, <1>2, <1>3, <1>4, <1>5 DEF Next

\* Workers racing over leases, with crashes, stalls, database faults and
\* handlers in two statements, implement one check at a time per monitor.
THEOREM Implementation == Spec => ImplementsIncidentLifecycle
<1>1. Init => Lifecycle!Init
  BY DEF Init, DbInit, Lifecycle!Init
<1>2. IInv /\ [Next]_vars => [Lifecycle!Next]_(Lifecycle!vars)
  BY StepImplementsLifecycle
<1>q. QED
  BY <1>1, <1>2, Invariance, PTL DEF Spec, ImplementsIncidentLifecycle, Lifecycle!Spec
=============================================================================
