---------------------------- MODULE Notifications ----------------------------
(***************************************************************************)
(* Delivery of notifications, src/notifications/service.rs: a worker       *)
(* claims a batch of due deliveries, sends them concurrently under renewed *)
(* leases, and records each outcome if it still owns the claim.  The       *)
(* enqueueing transaction (SiteWorker) and the handlers that change        *)
(* channels and overrides run at any time.                                 *)
(*                                                                         *)
(* task[w][d] is the future deliver_due_notifications runs for d in w:     *)
(*   claimed    returned by the claim statement, nothing done yet          *)
(*   sending    the request to the channel is in flight                    *)
(*   sent       the channel accepted, the outcome is to be recorded        *)
(*   refused    the send failed; `retry' is should_retry_delivery_error    *)
(*   cancelled  shutdown, the claim is to be released                      *)
(* `snap' is attempts as returned by the claim statement.                  *)
(***************************************************************************)
EXTENDS NotificationDeliveries

CONSTANTS
    Unreadable,  \* checks whose payload no longer parses as NotificationPayload
    Reliable,    \* workers that neither crash, stop nor outlive a lease
    Faults       \* may database calls fail

ASSUME WorkerAssumption ==
    /\ Unreadable \subseteq Checks
    /\ Reliable \subseteq Workers
    /\ Faults \in BOOLEAN

VARIABLES
    worker,   \* per worker: "up", "stopping" (shutdown requested), "down"
    task,     \* per worker and delivery: the send future
    accepted  \* history: sends the channel has acknowledged, at most 2 counted

workerVars == <<worker, task>>
vars       == <<dbVars, workerVars, accepted>>

Task == [phase : {"idle", "claimed", "sending", "sent", "refused", "cancelled"},
         snap : 0..MaxAttempts, retry : BOOLEAN]

Idle == [phase |-> "idle", snap |-> 0, retry |-> FALSE]

TypeOK ==
    /\ DbTypeOK
    /\ worker \in [Workers -> {"up", "stopping", "down"}]
    /\ task \in [Workers -> [Deliveries -> Task]]
    /\ accepted \in [Deliveries -> 0..2]

Init ==
    /\ DbInit
    /\ worker = [w \in Workers |-> "up"]
    /\ task = [w \in Workers |-> [d \in Deliveries |-> Idle]]
    /\ accepted = [d \in Deliveries |-> 0]

AllIdle(w) == \A d \in Deliveries : task[w][d].phase = "idle"

Finish(w, d) == task' = [task EXCEPT ![w][d] = Idle]

MovesTo(w, d, phase) == task' = [task EXCEPT ![w][d].phase = phase]

-----------------------------------------------------------------------------
(* deliver_due_notifications                                               *)

\* The previous batch is awaited before the next claim.
Claim(w) ==
    /\ worker[w] = "up"
    /\ AllIdle(w)
    /\ \E S \in Batches :
          /\ ClaimRows(w, S)
          /\ task' = [task EXCEPT ![w] =
                [d \in Deliveries |->
                   IF d \in S THEN [Idle EXCEPT !.phase = "claimed", !.snap = attempts[d]]
                              ELSE Idle]]
    /\ UNCHANGED <<channels, outcome, worker, accepted>>

\* The claim statement takes effect but the worker gets an error instead of
\* the rows.
ClaimReplyLost(w) ==
    /\ Faults
    /\ worker[w] = "up"
    /\ AllIdle(w)
    /\ \E S \in Batches : ClaimRows(w, S)
    /\ UNCHANGED <<channels, outcome, workerVars, accepted>>

\* The beginning of deliver_one_notification.  A payload that does not parse
\* ends the future with an error that nobody records: the claim stays, and
\* the delivery is claimed again when the lease has elapsed.
StartSend(w, d) ==
    /\ task[w][d].phase = "claimed"
    /\ IF worker[w] = "stopping" THEN MovesTo(w, d, "cancelled")
       ELSE IF d[1] \in Unreadable THEN Finish(w, d)
       ELSE MovesTo(w, d, "sending")
    /\ UNCHANGED <<dbVars, worker, accepted>>

\* Mutation of HeartbeatExtends: the UPDATE takes the claim whoever holds it.
HeartbeatSteals(w, d) ==
    /\ task[w][d].phase = "sending"
    /\ claimedBy' = [claimedBy EXCEPT ![d] = w]
    /\ lease' = [lease EXCEPT ![d] = "live"]
    /\ UNCHANGED <<channels, outcome, workerVars, accepted>>

\* The lease is renewed every third of it; losing it cancels the send.
HeartbeatExtends(w, d) ==
    /\ task[w][d].phase = "sending"
    /\ ExtendClaim(w, d)
    /\ IF Owns(w, d) THEN UNCHANGED task ELSE Finish(w, d)
    /\ UNCHANGED <<channels, outcome, claimedBy, worker, accepted>>

\* Renewals have failed until the local deadline: the send is cancelled and
\* the claim left as it is.
HeartbeatGivesUp(w, d) ==
    /\ Faults
    /\ task[w][d].phase = "sending"
    /\ Finish(w, d)
    /\ UNCHANGED <<dbVars, worker, accepted>>

SendSucceeds(w, d) ==
    /\ task[w][d].phase = "sending"
    /\ MovesTo(w, d, "sent")
    /\ accepted' = [accepted EXCEPT ![d] = IF @ < 2 THEN @ + 1 ELSE @]
    /\ UNCHANGED <<dbVars, worker>>

SendFails(w, d, retry) ==
    /\ task[w][d].phase = "sending"
    /\ task' = [task EXCEPT ![w][d] = [@ EXCEPT !.phase = "refused", !.retry = retry]]
    /\ UNCHANGED <<dbVars, worker, accepted>>

CancelSend(w, d) ==
    /\ worker[w] = "stopping"
    /\ task[w][d].phase = "sending"
    /\ MovesTo(w, d, "cancelled")
    /\ UNCHANGED <<dbVars, worker, accepted>>

MarkDelivered(w, d) ==
    /\ task[w][d].phase = "sent"
    /\ SetDelivered(w, d)
    /\ Finish(w, d)
    /\ UNCHANGED <<channels, worker, accepted>>

\* Mutation of Retries: compares the attempts before this one.
RetriesOnceMore(t) == t.retry /\ t.snap < MaxAttempts

\* handle_delivery_failure: is this attempt, number snap + 1, the last?
Retries(t) == t.retry /\ t.snap + 1 < MaxAttempts

MarkFailed(w, d) ==
    /\ task[w][d].phase = "refused"
    /\ SetFailed(w, d, IF Retries(task[w][d]) THEN "future" ELSE "null")
    /\ Finish(w, d)
    /\ UNCHANGED <<channels, worker, accepted>>

\* The UPDATE that records the outcome fails, so the delivery will be sent
\* again.
MarkError(w, d) ==
    /\ Faults
    /\ task[w][d].phase \in {"sent", "refused"}
    /\ Finish(w, d)
    /\ UNCHANGED <<dbVars, worker, accepted>>

ReleaseCancelled(w, d) ==
    /\ task[w][d].phase = "cancelled"
    /\ ReleaseClaim(w, d)
    /\ Finish(w, d)
    /\ UNCHANGED <<channels, outcome, worker, accepted>>

ReleaseError(w, d) ==
    /\ Faults
    /\ task[w][d].phase = "cancelled"
    /\ Finish(w, d)
    /\ UNCHANGED <<dbVars, worker, accepted>>

RequestShutdown(w) ==
    /\ w \notin Reliable
    /\ worker[w] = "up"
    /\ worker' = [worker EXCEPT ![w] = "stopping"]
    /\ UNCHANGED <<dbVars, task, accepted>>

Exit(w) ==
    /\ worker[w] = "stopping"
    /\ AllIdle(w)
    /\ worker' = [worker EXCEPT ![w] = "down"]
    /\ UNCHANGED <<dbVars, task, accepted>>

Crash(w) ==
    /\ w \notin Reliable
    /\ worker[w] # "down"
    /\ worker' = [worker EXCEPT ![w] = "down"]
    /\ task' = [task EXCEPT ![w] = [d \in Deliveries |-> Idle]]
    /\ UNCHANGED <<dbVars, accepted>>

-----------------------------------------------------------------------------
(* enqueue_site_monitor_notifications, within the transaction that saves   *)
(* check k: the channels that want the event, among those effectively      *)
(* active for the site.                                                    *)
Enqueue(k) ==
    /\ \A c \in Channels : status[<<k, c>>] = "absent"
    /\ \E C \in SUBSET {c \in Channels : EffectivelyActive(SiteOf[k], c)} :
          C # {} /\ InsertDeliveries({<<k, c>> : c \in C})
    /\ UNCHANGED <<channels, attempts, claims, workerVars, accepted>>

\* The check is pruned, or its monitor or site deleted.
DeleteCheck(k) ==
    /\ DeleteRows({<<k, c>> : c \in Channels})
    /\ UNCHANGED <<channels, workerVars, accepted>>

CreateChannel(c, on) ==
    /\ channel[c] = "absent"
    /\ channel' = [channel EXCEPT ![c] = IF on THEN "active" ELSE "inactive"]
    /\ UNCHANGED <<override, outcome, claims, workerVars, accepted>>

UpdateChannel(c, on) ==
    /\ ChannelExists(c)
    /\ channel' = [channel EXCEPT ![c] = IF on THEN "active" ELSE "inactive"]
    /\ UNCHANGED <<override, outcome, claims, workerVars, accepted>>

\* Overrides and deliveries go with their channel.
DeleteChannel(c) ==
    /\ ChannelExists(c)
    /\ channel' = [channel EXCEPT ![c] = "deleted"]
    /\ override' = [p \in Sites \X Channels |-> IF p[2] = c THEN "none" ELSE override[p]]
    /\ DeleteRows({<<k, c>> : k \in Checks})
    /\ UNCHANGED <<workerVars, accepted>>

\* upsert_for_site, delete_for_site
SetOverride(s, c, value) ==
    /\ ChannelExists(c)
    /\ override' = [override EXCEPT ![<<s, c>>] = value]
    /\ UNCHANGED <<channel, outcome, claims, workerVars, accepted>>

-----------------------------------------------------------------------------
\* A lease elapses under a running future only if the worker cannot renew it
\* in time (stalled process, unreachable database).
MayElapse(d) ==
    claimedBy[d] \in Reliable => task[claimedBy[d]][d].phase = "idle"

\* What the runtime is bound to do next for a future, database faults aside.
TaskStep(w, d) ==
    \/ StartSend(w, d)
    \/ SendSucceeds(w, d)
    \/ \E retry \in BOOLEAN : SendFails(w, d, retry)
    \/ MarkDelivered(w, d)
    \/ MarkFailed(w, d)
    \/ ReleaseCancelled(w, d)

WorkerStep(w) ==
    \/ Claim(w)
    \/ ClaimReplyLost(w)
    \/ RequestShutdown(w)
    \/ Exit(w)
    \/ Crash(w)
    \/ \E d \in Deliveries :
          \/ TaskStep(w, d)
          \/ HeartbeatExtends(w, d)
          \/ HeartbeatGivesUp(w, d)
          \/ CancelSend(w, d)
          \/ MarkError(w, d)
          \/ ReleaseError(w, d)

ChannelStep ==
    \E c \in Channels :
       \/ DeleteChannel(c)
       \/ \E on \in BOOLEAN : CreateChannel(c, on) \/ UpdateChannel(c, on)
       \/ \E s \in Sites, value \in {"none", "on", "off"} : SetOverride(s, c, value)

Tick ==
    \E d \in Deliveries :
       \/ RetryDelayElapses(d) /\ UNCHANGED <<workerVars, accepted>>
       \/ MayElapse(d) /\ LeaseElapses(d) /\ UNCHANGED <<workerVars, accepted>>

Next ==
    \/ \E w \in Workers : WorkerStep(w)
    \/ \E k \in Checks : Enqueue(k) \/ DeleteCheck(k)
    \/ ChannelStep
    \/ Tick

Spec == Init /\ [][Next]_vars

\* Futures are polled, sends end (they have a timeout) and time passes;
\* nothing obliges a process to crash or an operator to act.
Fairness ==
    /\ \A w \in Workers :
          /\ WF_vars(Claim(w))
          /\ \A d \in Deliveries : WF_vars(TaskStep(w, d))
    /\ \A d \in Deliveries :
          /\ WF_vars(RetryDelayElapses(d) /\ UNCHANGED <<workerVars, accepted>>)
          /\ WF_vars(MayElapse(d) /\ LeaseElapses(d) /\ UNCHANGED <<workerVars, accepted>>)

FairSpec == Spec /\ Fairness

-----------------------------------------------------------------------------
\* As long as its claim is not stolen, the attempts a worker counts from are
\* the attempts of the row, whatever crashes, expired leases and other workers'
\* attempts came in between.
AttemptsFresh ==
    \A w \in Workers, d \in Deliveries :
        Owns(w, d) /\ task[w][d].phase # "idle" => task[w][d].snap = attempts[d]

\* A delivery that will be attempted has attempts left, one that was delivered
\* used at least one, and no row is claimed once it is settled, so no late
\* worker can attempt it again.
RetriesWithinBudget ==
    \A d \in Deliveries :
        /\ Waiting(d) => attempts[d] < MaxAttempts
        /\ status[d] \in {"failed", "delivered"} => attempts[d] > 0
        /\ claimedBy[d] # NoWorker => Waiting(d)

\* Where no worker crashes, stops or outlives its lease and the database
\* answers, a channel acknowledges a delivery at most once.
Undisturbed == Reliable = Workers /\ ~Faults

AcknowledgedOnce == Undisturbed => \A d \in Deliveries : accepted[d] <= 1

\* The strengthening under which the invariants above are inductive.
UntriedUntilEnqueued == \A d \in Deliveries : status[d] = "absent" => attempts[d] = 0

IInv == TypeOK /\ AttemptsFresh /\ RetriesWithinBudget /\ UntriedUntilEnqueued

\* The same for AcknowledgedOnce: one future per delivery, which owns the claim
\* under a live lease unless the row is gone; and an acknowledgement is either
\* about to be recorded or has been.
Running(w, d) == task[w][d].phase # "idle"

OneOwner ==
    /\ \A w \in Workers : worker[w] = "up"
    /\ \A w, v \in Workers, d \in Deliveries : Running(w, d) /\ Running(v, d) => w = v
    /\ \A w \in Workers, d \in Deliveries :
          Running(w, d) => \/ Owns(w, d) /\ lease[d] = "live"
                          \/ status[d] = "deleted"

Unacknowledged ==
    \A d \in Deliveries :
        /\ accepted[d] <= 1
        /\ status[d] = "absent" \/ Waiting(d) =>
              accepted[d] = 0 \/ \E w \in Workers : task[w][d].phase = "sent"
        /\ \A w \in Workers :
              task[w][d].phase \in {"claimed", "sending", "refused", "cancelled"}
                 => accepted[d] = 0

OnceInv == Undisturbed => OneOwner /\ Unacknowledged

\* A delivery to an active channel is settled: delivered, or given up after
\* MaxAttempts or a permanent error; or its channel is deactivated or deleted.
Deliverable(d) == Waiting(d) /\ channel[d[2]] = "active"

EveryDeliverySettles == \A d \in Deliveries : Deliverable(d) ~> ~Deliverable(d)

-----------------------------------------------------------------------------
\* Each delivery goes through attempts one at a time, within its budget, and
\* stays as it is settled, although leases let several workers attempt it.
Lifecycle == INSTANCE DeliveryLifecycle WITH
    state <- [d \in Deliveries |-> IF status[d] = "failed"
                                   THEN IF nextAttempt[d] = "null" THEN "abandoned"
                                                                   ELSE "waiting"
                                   ELSE IF status[d] = "pending" THEN "waiting"
                                   ELSE status[d]],
    tries <- attempts

ImplementsDeliveryLifecycle == Lifecycle!Spec

-----------------------------------------------------------------------------
\* A delivery enqueued for a channel that the override makes active for the
\* site is settled, unless the channel ceases to be active for the site (the
\* README lists per-site overrides for routing alerts to channels).
Routed(d) == Waiting(d) /\ EffectivelyActive(SiteOf[d[1]], d[2])

OverriddenChannelsAreServed == \A d \in Deliveries : Routed(d) ~> ~Routed(d)
=============================================================================
