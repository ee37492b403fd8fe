----------------------------- MODULE SiteWorker -----------------------------
(***************************************************************************)
(* The worker process of src/worker/site_worker.rs: it claims a batch of   *)
(* due monitors, checks them concurrently under renewed leases, and saves  *)
(* each result in one transaction that also moves the incident and         *)
(* enqueues the notifications.                                             *)
(*                                                                         *)
(* task[w][m] is the future that check_site_monitors runs for m in w.      *)
(*   claimed    returned by the claim statement, initial lease not yet set *)
(*   checking   running attempt `attempt', or waiting to retry             *)
(*   completed  a final result is known, the heartbeat task has been joined*)
(*   saving     the save transaction has inserted the check row and decided*)
(*              the incident action                                        *)
(*   cancelled  shutdown interrupted the check, the claim is to be released*)
(* `snap' is last_is_success as returned by the claim statement.           *)
(***************************************************************************)
EXTENDS SiteMonitors

CONSTANTS
    MaxAttempts,    \* http_check_max_attempts, or the monitor's override
    HasRetryDelays, \* the resolved retry delay list is not empty
    Reliable,       \* workers that neither crash, stop nor outlive a lease
    Faults          \* may database calls fail

ASSUME WorkerAssumption ==
    /\ MaxAttempts \in Nat \ {0}
    /\ HasRetryDelays \in BOOLEAN
    /\ Reliable \subseteq Workers
    /\ Faults \in BOOLEAN

VARIABLES
    worker,  \* per worker: "up", "stopping" (shutdown requested), "down"
    task     \* per worker and monitor: the check future

workerVars == <<worker, task>>

Phase          == {"idle", "claimed", "checking", "completed", "saving", "cancelled"}
IncidentAction == {"Open", "UpdateExisting", "ReopenMissing", "Resolve", "None"}
Outcome        == {"up", "down", "transient"}  \* transient: timeout, connect_error

Task == [phase : Phase, snap : Health, attempt : 0..MaxAttempts,
         result : Health, act : IncidentAction]

Idle == [phase |-> "idle", snap |-> "none", attempt |-> 0,
         result |-> "none", act |-> "None"]

WorkerTypeOK ==
    /\ worker \in [Workers -> {"up", "stopping", "down"}]
    /\ task \in [Workers -> [Monitors -> Task]]

WorkerInit ==
    /\ worker = [w \in Workers |-> "up"]
    /\ task = [w \in Workers |-> [m \in Monitors |-> Idle]]

AllIdle(w) == \A m \in Monitors : task[w][m].phase = "idle"

Finish(w, m) == task' = [task EXCEPT ![w][m] = Idle]

\* The save transaction's INSERT of the check row holds a FOR KEY SHARE lock
\* on the monitor row (foreign key), which FOR UPDATE SKIP LOCKED skips and a
\* DELETE waits for.
Locked == {m \in Monitors : \E w \in Workers : task[w][m].phase = "saving"}

-----------------------------------------------------------------------------
(* run, check_site_monitors                                                *)

\* The worker claims only between batches: check_site_monitors awaits every
\* future of the previous batch.
Claim(w) ==
    LET S == Batch(Claimable \ Locked)
    IN  /\ worker[w] = "up"
        /\ AllIdle(w)
        /\ S # {}
        /\ ClaimRows(w, S)
        /\ task' = [task EXCEPT ![w] =
                      [m \in Monitors |->
                         IF m \in S THEN [Idle EXCEPT !.phase = "claimed", !.snap = last[m]]
                                    ELSE Idle]]
        /\ UNCHANGED <<registry, schedule, health, worker>>

\* The claim statement takes effect but the worker gets an error instead of
\* the rows: they stay claimed, with no future, until the lease elapses.
ClaimReplyLost(w) ==
    LET S == Batch(Claimable \ Locked)
    IN  /\ Faults
        /\ worker[w] = "up"
        /\ AllIdle(w)
        /\ S # {}
        /\ ClaimRows(w, S)
        /\ UNCHANGED <<registry, schedule, health, workerVars>>

\* ensure_site_monitor_initial_lease; on zero rows the future returns.
EnsureInitialLease(w, m) ==
    /\ task[w][m].phase = "claimed"
    /\ ExtendClaim(w, m)
    /\ IF claimedBy[m] = w
       THEN task' = [task EXCEPT ![w][m] = [@ EXCEPT !.phase = "checking", !.attempt = 1]]
       ELSE Finish(w, m)
    /\ UNCHANGED <<registry, schedule, health, claimedBy, worker>>

InitialLeaseError(w, m) ==
    /\ Faults
    /\ task[w][m].phase = "claimed"
    /\ Finish(w, m)
    /\ UNCHANGED <<dbVars, worker>>

\* Mutation of HeartbeatExtends: the UPDATE takes the claim whoever holds it.
HeartbeatSteals(w, m) ==
    /\ task[w][m].phase = "checking"
    /\ claimedBy' = [claimedBy EXCEPT ![m] = w]
    /\ lease' = [lease EXCEPT ![m] = "live"]
    /\ UNCHANGED <<registry, schedule, health, workerVars>>

\* heartbeat_site_monitor_claim: renews even a lease that has elapsed, as long
\* as nobody else has claimed the row.
HeartbeatExtends(w, m) ==
    /\ task[w][m].phase = "checking"
    /\ ExtendClaim(w, m)
    /\ UNCHANGED <<registry, schedule, health, claimedBy, workerVars>>

\* Mutation of ShouldRetry: one attempt too many.
RetriesOnceMore(t, outcome) ==
    outcome = "transient" /\ t.attempt <= MaxAttempts /\ HasRetryDelays

\* The end of one attempt in run_monitor_check_with_retries.
ShouldRetry(t, outcome) ==
    /\ outcome = "transient"
    /\ t.attempt < MaxAttempts
    /\ HasRetryDelays

AttemptEnds(w, m, outcome) ==
    LET t == task[w][m]
    IN  /\ t.phase = "checking"
        /\ task' = [task EXCEPT ![w][m] =
                      IF ShouldRetry(t, outcome)
                      THEN [t EXCEPT !.attempt = t.attempt + 1]
                      ELSE [t EXCEPT !.phase = "completed", !.attempt = 0,
                                     !.result = IF outcome = "up" THEN "up" ELSE "down"]]
        /\ UNCHANGED <<dbVars, worker>>

\* Shutdown interrupts the attempt or the wait before a retry.
CancelCheck(w, m) ==
    /\ worker[w] = "stopping"
    /\ task[w][m].phase = "checking"
    /\ task' = [task EXCEPT ![w][m] = [@ EXCEPT !.phase = "cancelled", !.attempt = 0]]
    /\ UNCHANGED <<dbVars, worker>>

\* Mutation of ReleaseCancelled: the future waits until its release succeeds.
ReleasesOnlyOwnClaim(w, m) ==
    /\ task[w][m].phase = "cancelled"
    /\ claimedBy[m] = w
    /\ ClearClaim(m)
    /\ Finish(w, m)
    /\ UNCHANGED <<registry, schedule, health, worker>>

ReleaseCancelled(w, m) ==
    /\ task[w][m].phase = "cancelled"
    /\ ReleaseClaim(w, m)
    /\ Finish(w, m)
    /\ UNCHANGED <<registry, schedule, health, worker>>

ReleaseError(w, m) ==
    /\ Faults
    /\ task[w][m].phase = "cancelled"
    /\ Finish(w, m)
    /\ UNCHANGED <<dbVars, worker>>

-----------------------------------------------------------------------------
(* save_check_result, one READ COMMITTED transaction in two steps: up to   *)
(* the read of the open incident, and from the incident write to COMMIT.   *)

\* Mutation of classify_incident_action: the open incident is not looked up.
ReopensAlways(previous, current, hasOpen) ==
    CASE current = "down" -> IF previous = "down" THEN "ReopenMissing" ELSE "Open"
      [] current = "up" /\ previous = "down" /\ hasOpen -> "Resolve"
      [] OTHER -> "None"

classify_incident_action(previous, current, hasOpen) ==
    CASE previous # "down" /\ current = "down" -> "Open"
      [] previous = "down" /\ current = "down" ->
            IF hasOpen THEN "UpdateExisting" ELSE "ReopenMissing"
      [] previous = "down" /\ current = "up" ->
            IF hasOpen THEN "Resolve" ELSE "None"
      [] OTHER -> "None"

\* Mutation of determine_event_type: every failed check is announced.
AnnouncesEveryFailure(previous, current) ==
    IF current = "down" THEN "failure" ELSE IF previous = "down" THEN "recovery" ELSE "none"

determine_event_type(previous, current) ==
    CASE previous # "down" /\ current = "down" -> "failure"
      [] previous = "down" /\ current = "up" -> "recovery"
      [] OTHER -> "none"

\* BEGIN, INSERT the check row (fails when the monitor is gone), and read the
\* open incident, which only a failing snapshot asks for.
SaveBegins(w, m) ==
    LET t == task[w][m]
        hasOpen == t.snap = "down" /\ incident[m] = "open"
    IN  /\ t.phase = "completed"
        /\ IF Exists(m)
           THEN task' = [task EXCEPT ![w][m] =
                   [t EXCEPT !.phase = "saving",
                             !.act = classify_incident_action(t.snap, t.result, hasOpen)]]
           ELSE Finish(w, m)
        /\ UNCHANGED <<dbVars, worker>>

\* Mutation of ApplyIncidentAction: resolve_incident without status = 'open'.
ResolvesUnguarded(m, act) ==
    incident' = CASE act \in {"Open", "ReopenMissing"} -> [incident EXCEPT ![m] = "open"]
                  [] act = "Resolve" -> [incident EXCEPT ![m] = "recovered"]
                  [] OTHER -> incident

\* The INSERT or the guarded UPDATE of manage_incident_lifecycle.
ApplyIncidentAction(m, act) ==
    incident' = CASE act \in {"Open", "ReopenMissing"} -> [incident EXCEPT ![m] = "open"]
                  [] act = "Resolve" /\ incident[m] = "open" ->
                        [incident EXCEPT ![m] = "recovered"]
                  [] OTHER -> incident

\* The unique index refuses a second open incident.
InsertConflicts(m, act) == act \in {"Open", "ReopenMissing"} /\ incident[m] = "open"

EnqueueNotifications(m, event) ==
    notified' = IF event = "none" THEN notified
                ELSE [notified EXCEPT ![m] = <<@[2], event>>]

\* Mutation of Owns: UPDATE without AND check_claimed_by.
OwnsAnyRow(w, m) == TRUE

\* update_site_monitor_last_check affects one row only for the claim's owner.
Owns(w, m) == claimedBy[m] = w

SaveCommits(w, m) ==
    LET t == task[w][m]
    IN  /\ t.phase = "saving"
        /\ Owns(w, m)
        /\ ~InsertConflicts(m, t.act)
        /\ ApplyIncidentAction(m, t.act)
        /\ EnqueueNotifications(m, determine_event_type(t.snap, t.result))
        /\ UpdateLastCheck(m, t.result)
        /\ Finish(w, m)
        /\ UNCHANGED <<registry, worker>>

\* Not the owner any more, or the unique index is violated: the error drops
\* the transaction, which rolls back; the claim is left as it is.
SaveRollsBack(w, m) ==
    LET t == task[w][m]
    IN  /\ t.phase = "saving"
        /\ ~Owns(w, m) \/ InsertConflicts(m, t.act)
        /\ Finish(w, m)
        /\ UNCHANGED <<dbVars, worker>>

\* Any statement of the transaction, or BEGIN, fails.
SaveError(w, m) ==
    /\ Faults
    /\ task[w][m].phase \in {"completed", "saving"}
    /\ Finish(w, m)
    /\ UNCHANGED <<dbVars, worker>>

-----------------------------------------------------------------------------
(* Process life cycle.  A restarted process has a fresh id, so an id that  *)
(* is down stays down.                                                     *)

RequestShutdown(w) ==
    /\ w \notin Reliable
    /\ worker[w] = "up"
    /\ worker' = [worker EXCEPT ![w] = "stopping"]
    /\ UNCHANGED <<dbVars, task>>

Exit(w) ==
    /\ worker[w] = "stopping"
    /\ AllIdle(w)
    /\ worker' = [worker EXCEPT ![w] = "down"]
    /\ UNCHANGED <<dbVars, task>>

\* The connection of an open transaction drops, so PostgreSQL rolls it back.
Crash(w) ==
    /\ w \notin Reliable
    /\ worker[w] # "down"
    /\ worker' = [worker EXCEPT ![w] = "down"]
    /\ task' = [task EXCEPT ![w] = [m \in Monitors |-> Idle]]
    /\ UNCHANGED dbVars

\* A lease elapses under a running future only if the worker cannot renew it
\* in time (stalled process, unreachable database).
MayElapse(m) ==
    claimedBy[m] \in Reliable => task[claimedBy[m]][m].phase = "idle"

\* What the runtime is bound to do next for a future, database faults aside.
TaskStep(w, m) ==
    \/ EnsureInitialLease(w, m)
    \/ \E outcome \in Outcome : AttemptEnds(w, m, outcome)
    \/ ReleaseCancelled(w, m)
    \/ SaveBegins(w, m)
    \/ SaveCommits(w, m)
    \/ SaveRollsBack(w, m)

WorkerStep(w) ==
    \/ Claim(w)
    \/ ClaimReplyLost(w)
    \/ RequestShutdown(w)
    \/ Exit(w)
    \/ Crash(w)
    \/ \E m \in Monitors :
          \/ TaskStep(w, m)
          \/ InitialLeaseError(w, m)
          \/ HeartbeatExtends(w, m)
          \/ CancelCheck(w, m)
          \/ ReleaseError(w, m)
          \/ SaveError(w, m)
=============================================================================
