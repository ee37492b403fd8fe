------------------------- MODULE NotificationProofs -------------------------
(***************************************************************************)
(* Theorems about Notifications, for any sets of checks, channels, sites   *)
(* and workers, any claim limit and any number of attempts.                *)
(***************************************************************************)
EXTENDS Notifications, TLAPS

\* The idle future is well typed.
LEMMA IdleIsTask == Idle \in Task /\ Idle.phase = "idle"
BY LimitsAssumption DEF Idle, Task

\* A claim statement hands out rows that are waiting and under no live lease.
LEMMA BatchesAreClaimable ==
  ASSUME NEW S \in Batches, NEW d \in S
  PROVE  d \in Deliveries /\ Waiting(d) /\ lease[d] # "live"
BY DEF Batches, Claimable

\* A claim of the rows in S is well typed.
LEMMA ClaimRowsType ==
  ASSUME DbTypeOK, NEW w \in Workers, NEW S \in Batches, ClaimRows(w, S)
  PROVE  /\ claimedBy' \in [Deliveries -> Workers \cup {NoWorker}]
         /\ lease' \in [Deliveries -> {"null", "live", "expired"}]
BY DEF DbTypeOK, ClaimRows

\* The invariant survives a step that changes only the future of w for d, into
\* one that is idle or goes on with its snapshot, and gives no claim away.
LEMMA FutureStep ==
  ASSUME IInv, NEW w \in Workers, NEW d \in Deliveries, NEW t \in Task,
         task' = [task EXCEPT ![w][d] = t],
         \/ t.phase = "idle"
         \/ task[w][d].phase # "idle" /\ t.snap = task[w][d].snap,
         UNCHANGED <<channels, outcome, worker>>,
         \/ UNCHANGED claimedBy
         \/ claimedBy' = [claimedBy EXCEPT ![d] = NoWorker],
         lease' \in [Deliveries -> {"null", "live", "expired"}],
         accepted' \in [Deliveries -> 0..2]
  PROVE  IInv'
<1> USE DEF IInv, TypeOK, DbTypeOK, channels, outcome
<1>1. TypeOK'
  OBVIOUS
<1>2. AttemptsFresh'
  <2> SUFFICES ASSUME NEW v \in Workers, NEW e \in Deliveries,
                      claimedBy'[e] = v, task'[v][e].phase # "idle"
               PROVE  task'[v][e].snap = attempts[e]
    BY DEF AttemptsFresh, Owns
  <2>1. claimedBy[e] = v
    BY ClaimersAssumption
  <2>2. CASE v = w /\ e = d
    BY <2>1, <2>2 DEF AttemptsFresh, Owns
  <2>3. CASE ~(v = w /\ e = d)
    <3>1. task'[v][e] = task[v][e]
      BY <2>3
    <3>q. QED
      BY <2>1, <3>1 DEF AttemptsFresh, Owns
  <2>q. QED
    BY <2>2, <2>3
<1>3. RetriesWithinBudget' /\ UntriedUntilEnqueued'
  BY DEF RetriesWithinBudget, UntriedUntilEnqueued, Waiting
<1>q. QED
  BY <1>1, <1>2, <1>3

\* The steps that FutureStep covers.
LEMMA SendingStep ==
  ASSUME IInv, NEW w \in Workers, NEW d \in Deliveries,
         \/ StartSend(w, d)
         \/ HeartbeatExtends(w, d)
         \/ HeartbeatGivesUp(w, d)
         \/ SendSucceeds(w, d)
         \/ \E retry \in BOOLEAN : SendFails(w, d, retry)
         \/ CancelSend(w, d)
         \/ MarkError(w, d)
         \/ ReleaseCancelled(w, d)
         \/ ReleaseError(w, d)
  PROVE  IInv'
<1> USE DEF dbVars, MovesTo, Finish
<1>t. task[w][d] \in Task /\ task \in [Workers -> [Deliveries -> Task]]
  BY DEF IInv, TypeOK
<1>f. ASSUME NEW p \in {"sending", "sent", "cancelled"}
      PROVE  /\ [task[w][d] EXCEPT !.phase = p] \in Task
             /\ [task[w][d] EXCEPT !.phase = p].snap = task[w][d].snap
             /\ [task EXCEPT ![w][d].phase = p]
                   = [task EXCEPT ![w][d] = [task[w][d] EXCEPT !.phase = p]]
  BY <1>t DEF Task
<1>l. /\ lease \in [Deliveries -> {"null", "live", "expired"}]
      /\ accepted \in [Deliveries -> 0..2]
  BY DEF IInv, TypeOK, DbTypeOK
<1>1. CASE StartSend(w, d)
  <2>1. UNCHANGED <<dbVars, worker, accepted>> /\ task[w][d].phase # "idle"
    BY <1>1 DEF StartSend
  <2>2. CASE MovesTo(w, d, "cancelled")
    BY <2>1, <2>2, <1>l, <1>f, FutureStep DEF channels, outcome
  <2>3. CASE MovesTo(w, d, "sending")
    BY <2>1, <2>3, <1>l, <1>f, FutureStep DEF channels, outcome
  <2>4. CASE Finish(w, d)
    BY <2>1, <2>4, <1>l, FutureStep, IdleIsTask DEF channels, outcome
  <2>q. QED
    BY <1>1, <2>2, <2>3, <2>4 DEF StartSend
<1>2. CASE HeartbeatExtends(w, d)
  <2>1. task' = [task EXCEPT ![w][d] = task[w][d]] \/ Finish(w, d)
    BY <1>2, <1>t DEF HeartbeatExtends
  <2>2. lease' \in [Deliveries -> {"null", "live", "expired"}]
    BY <1>2, <1>l DEF HeartbeatExtends, ExtendClaim
  <2>3. /\ UNCHANGED <<channels, outcome, claimedBy, worker, accepted>>
        /\ task[w][d].phase # "idle"
    BY <1>2 DEF HeartbeatExtends
  <2>4. CASE Finish(w, d)
    BY <2>2, <2>3, <2>4, <1>l, FutureStep, IdleIsTask
  <2>5. CASE task' = [task EXCEPT ![w][d] = task[w][d]]
    BY <2>2, <2>3, <2>5, <1>l, <1>t, FutureStep
  <2>q. QED
    BY <2>1, <2>4, <2>5
<1>3. CASE HeartbeatGivesUp(w, d) \/ MarkError(w, d) \/ ReleaseError(w, d)
  <2>1. UNCHANGED <<dbVars, worker, accepted>> /\ task' = [task EXCEPT ![w][d] = Idle]
    BY <1>3 DEF HeartbeatGivesUp, MarkError, ReleaseError
  <2>q. QED
    BY <2>1, <1>l, IdleIsTask, FutureStep DEF channels, outcome
<1>4. CASE SendSucceeds(w, d)
  <2>1. accepted' \in [Deliveries -> 0..2]
    BY <1>4, <1>l DEF SendSucceeds
  <2>q. QED
    BY <1>4, <2>1, <1>l, <1>f, FutureStep DEF SendSucceeds, channels, outcome
<1>5. CASE \E retry \in BOOLEAN : SendFails(w, d, retry)
  <2>1. PICK retry \in BOOLEAN : SendFails(w, d, retry)
    BY <1>5
  <2> DEFINE t == [task[w][d] EXCEPT !.phase = "refused", !.retry = retry]
  <2>2. t \in Task /\ t.snap = task[w][d].snap
    BY <1>t DEF Task
  <2>3. task' = [task EXCEPT ![w][d] = t] /\ task[w][d].phase # "idle"
    BY <2>1 DEF SendFails
  <2>4. UNCHANGED <<channels, outcome, claimedBy, lease, worker, accepted>>
    BY <2>1 DEF SendFails, channels, outcome
  <2> HIDE DEF t
  <2>q. QED
    BY <2>2, <2>3, <2>4, <1>l, FutureStep
<1>6. CASE CancelSend(w, d)
  BY <1>6, <1>l, <1>f, FutureStep DEF CancelSend, channels, outcome
<1>7. CASE ReleaseCancelled(w, d)
  <2>1. /\ \/ UNCHANGED claims
           \/ /\ claimedBy' = [claimedBy EXCEPT ![d] = NoWorker]
              /\ lease' = [lease EXCEPT ![d] = "null"]
        /\ UNCHANGED <<channels, outcome, worker, accepted>>
        /\ task' = [task EXCEPT ![w][d] = Idle]
    BY <1>7 DEF ReleaseCancelled, ReleaseClaim, ClearClaim
  <2>2. lease' \in [Deliveries -> {"null", "live", "expired"}]
    BY <2>1, <1>l DEF claims
  <2>q. QED
    BY <2>1, <2>2, <1>l, FutureStep, IdleIsTask DEF claims
<1>q. QED
  BY <1>1, <1>2, <1>3, <1>4, <1>5, <1>6, <1>7

\* What recording an outcome does: nothing, unless w owns the claim; then the
\* attempt it counts is one the delivery was still waiting for.
LEMMA RecordEffect ==
  ASSUME IInv, NEW w \in Workers, NEW d \in Deliveries,
         MarkDelivered(w, d) \/ MarkFailed(w, d)
  PROVE  /\ task' = [task EXCEPT ![w][d] = Idle]
         /\ UNCHANGED <<channels, worker, accepted>>
         /\ \/ ~Owns(w, d) /\ UNCHANGED <<outcome, claims>>
            \/ /\ Owns(w, d)
               /\ Waiting(d)
               /\ attempts[d] < MaxAttempts
               /\ attempts' = [attempts EXCEPT ![d] = attempts[d] + 1]
               /\ claimedBy' = [claimedBy EXCEPT ![d] = NoWorker]
               /\ lease' = [lease EXCEPT ![d] = "null"]
               /\ \/ /\ status' = [status EXCEPT ![d] = "delivered"]
                     /\ UNCHANGED nextAttempt
                  \/ /\ status' = [status EXCEPT ![d] = "failed"]
                     /\ nextAttempt' = [nextAttempt EXCEPT ![d] = "null"]
                  \/ /\ status' = [status EXCEPT ![d] = "failed"]
                     /\ nextAttempt' = [nextAttempt EXCEPT ![d] = "future"]
                     /\ attempts[d] + 1 < MaxAttempts
<1> USE DEF Finish, ClearClaim
<1>1. Owns(w, d) => Waiting(d) /\ attempts[d] < MaxAttempts
  BY ClaimersAssumption DEF IInv, RetriesWithinBudget, Owns
<1>2. CASE MarkDelivered(w, d)
  BY <1>1, <1>2 DEF MarkDelivered, SetDelivered
<1>3. CASE MarkFailed(w, d)
  <2>1. Owns(w, d) => task[w][d].snap = attempts[d]
    BY <1>3 DEF MarkFailed, IInv, AttemptsFresh
  <2>2. Owns(w, d) /\ Retries(task[w][d]) => attempts[d] + 1 < MaxAttempts
    BY <2>1 DEF Retries
  <2>q. QED
    BY <1>1, <1>3, <2>2 DEF MarkFailed, SetFailed
<1>q. QED
  BY <1>2, <1>3

\* Recording an outcome keeps the invariant.
LEMMA RecordStep ==
  ASSUME IInv, NEW w \in Workers, NEW d \in Deliveries,
         MarkDelivered(w, d) \/ MarkFailed(w, d)
  PROVE  IInv'
<1>1. CASE ~Owns(w, d)
  <2>1. /\ task' = [task EXCEPT ![w][d] = Idle]
        /\ UNCHANGED <<channels, worker, accepted, outcome, claims>>
    BY <1>1, RecordEffect
  <2>2. /\ lease' \in [Deliveries -> {"null", "live", "expired"}]
        /\ accepted' \in [Deliveries -> 0..2]
    BY <2>1 DEF IInv, TypeOK, DbTypeOK, claims
  <2>q. QED
    BY <2>1, <2>2, FutureStep, IdleIsTask DEF claims
<1>2. CASE Owns(w, d)
  <2> USE DEF IInv, TypeOK, DbTypeOK
  <2>1. /\ task' = [task EXCEPT ![w][d] = Idle]
        /\ UNCHANGED <<channels, worker, accepted>>
        /\ Waiting(d)
        /\ attempts[d] < MaxAttempts
        /\ attempts' = [attempts EXCEPT ![d] = attempts[d] + 1]
        /\ claimedBy' = [claimedBy EXCEPT ![d] = NoWorker]
        /\ lease' = [lease EXCEPT ![d] = "null"]
    BY <1>2, RecordEffect
  <2>2. \/ /\ status' = [status EXCEPT ![d] = "delivered"]
           /\ UNCHANGED nextAttempt
        \/ /\ status' = [status EXCEPT ![d] = "failed"]
           /\ nextAttempt' = [nextAttempt EXCEPT ![d] = "null"]
        \/ /\ status' = [status EXCEPT ![d] = "failed"]
           /\ nextAttempt' = [nextAttempt EXCEPT ![d] = "future"]
           /\ attempts[d] + 1 < MaxAttempts
    BY <1>2, RecordEffect
  <2>3. TypeOK'
    <3>1. attempts' \in [Deliveries -> 0..MaxAttempts]
      BY <2>1, LimitsAssumption
    <3>2. status' \in [Deliveries -> {"absent", "pending", "failed", "delivered", "deleted"}]
      BY <2>2
    <3>3. nextAttempt' \in [Deliveries -> {"null", "future", "now"}]
      BY <2>2
    <3>q. QED
      BY <2>1, <3>1, <3>2, <3>3, IdleIsTask DEF channels
  <2>4. AttemptsFresh'
    <3> SUFFICES ASSUME NEW v \in Workers, NEW e \in Deliveries,
                        claimedBy'[e] = v, task'[v][e].phase # "idle"
                 PROVE  task'[v][e].snap = attempts'[e]
      BY DEF AttemptsFresh, Owns
    <3>1. e # d /\ claimedBy[e] = v
      BY <2>1, ClaimersAssumption
    <3>q. QED
      BY <2>1, <3>1 DEF AttemptsFresh, Owns
  <2>5. ASSUME NEW e \in Deliveries, e # d
        PROVE  UNCHANGED <<status[e], attempts[e], nextAttempt[e], claimedBy[e]>>
    BY <2>1, <2>2, <2>5
  <2>6. RetriesWithinBudget'
    <3> SUFFICES ASSUME NEW e \in Deliveries
                 PROVE  /\ Waiting(e)' => attempts'[e] < MaxAttempts
                        /\ status'[e] \in {"failed", "delivered"} => attempts'[e] > 0
                        /\ claimedBy'[e] # NoWorker => Waiting(e)'
      BY DEF RetriesWithinBudget
    <3>1. CASE e = d
      <4>1. attempts'[d] = attempts[d] + 1 /\ attempts[d] \in Nat /\ claimedBy'[d] = NoWorker
        BY <2>1, LimitsAssumption
      <4>2. \/ status'[d] = "delivered"
            \/ status'[d] = "failed" /\ nextAttempt'[d] = "null"
            \/ status'[d] = "failed" /\ attempts[d] + 1 < MaxAttempts
        BY <2>2
      <4>q. QED
        BY <3>1, <4>1, <4>2 DEF Waiting
    <3>2. CASE e # d
      BY <2>5, <3>2 DEF RetriesWithinBudget, Waiting
    <3>q. QED
      BY <3>1, <3>2
  <2>7. UntriedUntilEnqueued'
    BY <2>2, <2>5 DEF UntriedUntilEnqueued
  <2>q. QED
    BY <2>3, <2>4, <2>6, <2>7
<1>q. QED
  BY <1>1, <1>2

\* A claim statement, whether or not its reply arrives, keeps the invariant.
LEMMA ClaimStep ==
  ASSUME IInv, NEW w \in Workers, Claim(w) \/ ClaimReplyLost(w)
  PROVE  IInv'
<1> USE DEF IInv, TypeOK
<1> DEFINE fresh(d) == [Idle EXCEPT !.phase = "claimed", !.snap = attempts[d]]
<1>1. PICK S \in Batches :
        /\ ClaimRows(w, S)
        /\ AllIdle(w)
        /\ UNCHANGED <<channels, outcome, worker, accepted>>
        /\ \/ UNCHANGED task
           \/ task' = [task EXCEPT ![w] =
                 [d \in Deliveries |-> IF d \in S THEN fresh(d) ELSE Idle]]
  BY DEF Claim, ClaimReplyLost, workerVars
<1>2. ASSUME NEW d \in Deliveries
      PROVE  fresh(d) \in Task /\ fresh(d).snap = attempts[d]
  BY IdleIsTask DEF Idle, Task, DbTypeOK
<1> HIDE DEF fresh
<1>3. TypeOK'
  <2>1. DbTypeOK'
    BY <1>1, ClaimRowsType DEF DbTypeOK, channels, outcome
  <2>2. task' \in [Workers -> [Deliveries -> Task]]
    BY <1>1, <1>2, IdleIsTask
  <2>q. QED
    BY <1>1, <2>1, <2>2
<1>4. AttemptsFresh'
  <2> SUFFICES ASSUME NEW v \in Workers, NEW e \in Deliveries,
                      claimedBy'[e] = v, task'[v][e].phase # "idle"
               PROVE  task'[v][e].snap = attempts[e]
    BY <1>1 DEF AttemptsFresh, Owns, outcome
  <2>1. CASE v = w
    <3>1. task[w][e].phase = "idle"
      BY <1>1 DEF AllIdle
    <3>2. task'[w][e] = fresh(e)
      BY <1>1, <2>1, <3>1, IdleIsTask
    <3>q. QED
      BY <2>1, <3>2, <1>2
  <2>2. CASE v # w
    <3>1. claimedBy[e] = v /\ task'[v][e] = task[v][e]
      BY <1>1, <2>2 DEF ClaimRows
    <3>q. QED
      BY <3>1 DEF AttemptsFresh, Owns
  <2>q. QED
    BY <2>1, <2>2
<1>5. ASSUME NEW d \in Deliveries, claimedBy'[d] # NoWorker
      PROVE  Waiting(d)
  <2>1. d \in S => Waiting(d)
    BY BatchesAreClaimable
  <2>2. d \notin S => claimedBy'[d] = claimedBy[d]
    BY <1>1 DEF ClaimRows
  <2>q. QED
    BY <1>5, <2>1, <2>2 DEF RetriesWithinBudget
<1>6. RetriesWithinBudget' /\ UntriedUntilEnqueued'
  BY <1>1, <1>5 DEF RetriesWithinBudget, UntriedUntilEnqueued, Waiting, outcome
<1>q. QED
  BY <1>3, <1>4, <1>6

\* Shutdown, exit and crash of a worker keep the invariant.
LEMMA LifeCycleStep ==
  ASSUME IInv, NEW w \in Workers, RequestShutdown(w) \/ Exit(w) \/ Crash(w)
  PROVE  IInv'
<1> USE DEF IInv, TypeOK, DbTypeOK
<1>1. /\ UNCHANGED <<dbVars, accepted>>
      /\ worker' \in [Workers -> {"up", "stopping", "down"}]
      /\ \/ UNCHANGED task
         \/ task' = [task EXCEPT ![w] = [d \in Deliveries |-> Idle]]
  BY DEF RequestShutdown, Exit, Crash
<1>2. TypeOK'
  <2> DEFINE idle == [d \in Deliveries |-> Idle]
  <2>1. idle \in [Deliveries -> Task]
    BY IdleIsTask
  <2>2. UNCHANGED task \/ task' = [task EXCEPT ![w] = idle]
    BY <1>1
  <2> HIDE DEF idle
  <2>3. task' \in [Workers -> [Deliveries -> Task]]
    BY <2>1, <2>2
  <2>q. QED
    BY <1>1, <2>3 DEF dbVars
<1>3. ASSUME NEW v \in Workers, NEW d \in Deliveries, task'[v][d].phase # "idle"
      PROVE  task'[v][d] = task[v][d]
  <2>1. CASE v = w
    BY <1>1, <1>3, <2>1, IdleIsTask
  <2>2. CASE v # w
    BY <1>1, <2>2
  <2>q. QED
    BY <2>1, <2>2
<1>4. AttemptsFresh'
  BY <1>1, <1>3 DEF AttemptsFresh, Owns, dbVars
<1>5. RetriesWithinBudget' /\ UntriedUntilEnqueued'
  BY <1>1 DEF RetriesWithinBudget, UntriedUntilEnqueued, Waiting, dbVars
<1>q. QED
  BY <1>2, <1>4, <1>5

\* The deletion of some deliveries, whoever is sending them, keeps the
\* invariant.
LEMMA DeleteStep ==
  ASSUME IInv, NEW D \in SUBSET Deliveries, DeleteRows(D), UNCHANGED <<workerVars, accepted>>,
         channel' \in [Channels -> {"absent", "active", "inactive", "deleted"}],
         override' \in [Sites \X Channels -> {"none", "on", "off"}]
  PROVE  IInv'
<1> USE DEF IInv, TypeOK, DbTypeOK
<1>1. /\ status' = [d \in Deliveries |->
                      IF d \in D /\ status[d] # "absent" THEN "deleted" ELSE status[d]]
      /\ attempts' = [d \in Deliveries |-> IF d \in D THEN 0 ELSE attempts[d]]
      /\ nextAttempt' = [d \in Deliveries |-> IF d \in D THEN "null" ELSE nextAttempt[d]]
      /\ claimedBy' = [d \in Deliveries |-> IF d \in D THEN NoWorker ELSE claimedBy[d]]
      /\ lease' = [d \in Deliveries |-> IF d \in D THEN "null" ELSE lease[d]]
      /\ UNCHANGED <<worker, task, accepted>>
  BY DEF DeleteRows, workerVars
<1>2. TypeOK'
  <2>1. attempts' \in [Deliveries -> 0..MaxAttempts]
    BY <1>1, LimitsAssumption
  <2>q. QED
    BY <1>1, <2>1
<1>3. AttemptsFresh'
  BY <1>1, ClaimersAssumption DEF AttemptsFresh, Owns
<1>4. ASSUME NEW d \in Deliveries, d \in D
      PROVE  status'[d] \in {"absent", "deleted"} /\ attempts'[d] = 0 /\ claimedBy'[d] = NoWorker
  BY <1>1, <1>4
<1>5. ASSUME NEW d \in Deliveries, d \notin D
      PROVE  UNCHANGED <<status[d], attempts[d], nextAttempt[d], claimedBy[d]>>
  BY <1>1, <1>5
<1>6. RetriesWithinBudget'
  <2> SUFFICES ASSUME NEW d \in Deliveries
               PROVE  /\ Waiting(d)' => attempts'[d] < MaxAttempts
                      /\ status'[d] \in {"failed", "delivered"} => attempts'[d] > 0
                      /\ claimedBy'[d] # NoWorker => Waiting(d)'
    BY DEF RetriesWithinBudget
  <2>1. CASE d \in D
    BY <1>4, <2>1 DEF Waiting
  <2>2. CASE d \notin D
    BY <1>5, <2>2 DEF RetriesWithinBudget, Waiting
  <2>q. QED
    BY <2>1, <2>2
<1>7. UntriedUntilEnqueued'
  BY <1>4, <1>5 DEF UntriedUntilEnqueued
<1>q. QED
  BY <1>2, <1>3, <1>6, <1>7

\* The steps of handlers, of the enqueueing transaction and of time keep the
\* invariant.
LEMMA OtherStep ==
  ASSUME IInv,
         \/ \E k \in Checks : Enqueue(k) \/ DeleteCheck(k)
         \/ ChannelStep
         \/ Tick
  PROVE  IInv'
<1> USE DEF IInv, TypeOK
<1>1. ASSUME NEW k \in Checks, Enqueue(k)
      PROVE  IInv'
  <2>1. PICK C \in SUBSET Channels : InsertDeliveries({<<k, c>> : c \in C})
    BY <1>1 DEF Enqueue
  <2> DEFINE D == {<<k, c>> : c \in C}
  <2>2. D \subseteq Deliveries /\ \A d \in D : status[d] = "absent"
    BY <1>1 DEF Enqueue, Deliveries
  <2>3. /\ status' = [d \in Deliveries |-> IF d \in D THEN "pending" ELSE status[d]]
        /\ nextAttempt' = [d \in Deliveries |-> IF d \in D THEN "now" ELSE nextAttempt[d]]
        /\ UNCHANGED <<channel, override, attempts, claimedBy, lease, worker, task, accepted>>
    BY <1>1, <2>1 DEF Enqueue, InsertDeliveries, channels, claims, workerVars
  <2> HIDE DEF D
  <2>4. TypeOK'
    BY <2>3 DEF DbTypeOK
  <2>5. AttemptsFresh'
    BY <2>3 DEF AttemptsFresh, Owns
  <2>6. RetriesWithinBudget'
    <3> SUFFICES ASSUME NEW d \in Deliveries
                 PROVE  /\ Waiting(d)' => attempts[d] < MaxAttempts
                        /\ status'[d] \in {"failed", "delivered"} => attempts[d] > 0
                        /\ claimedBy[d] # NoWorker => Waiting(d)'
      BY <2>3 DEF RetriesWithinBudget
    <3>1. CASE d \in D
      <4>1. attempts[d] = 0 /\ status'[d] = "pending"
        BY <2>2, <2>3, <3>1 DEF UntriedUntilEnqueued
      <4>q. QED
        BY <4>1, LimitsAssumption DEF Waiting
    <3>2. CASE d \notin D
      <4>1. UNCHANGED <<status[d], nextAttempt[d]>>
        BY <2>3, <3>2
      <4>q. QED
        BY <4>1 DEF RetriesWithinBudget, Waiting
    <3>q. QED
      BY <3>1, <3>2
  <2>7. UntriedUntilEnqueued'
    BY <2>3 DEF UntriedUntilEnqueued
  <2>q. QED
    BY <2>4, <2>5, <2>6, <2>7
<1>2. ASSUME NEW k \in Checks, DeleteCheck(k)
      PROVE  IInv'
  <2>1. {<<k, c>> : c \in Channels} \in SUBSET Deliveries
    BY DEF Deliveries
  <2>q. QED
    BY <1>2, <2>1, DeleteStep DEF DeleteCheck, channels, DbTypeOK
<1>3. ASSUME NEW c \in Channels, DeleteChannel(c)
      PROVE  IInv'
  <2>1. {<<k, c>> : k \in Checks} \in SUBSET Deliveries
    BY DEF Deliveries
  <2>2. /\ channel' \in [Channels -> {"absent", "active", "inactive", "deleted"}]
        /\ override' \in [Sites \X Channels -> {"none", "on", "off"}]
    BY <1>3 DEF DeleteChannel, DbTypeOK
  <2>q. QED
    BY <1>3, <2>1, <2>2, DeleteStep DEF DeleteChannel
<1>4. ASSUME NEW c \in Channels,
             \/ \E on \in BOOLEAN : CreateChannel(c, on) \/ UpdateChannel(c, on)
             \/ \E s \in Sites, value \in {"none", "on", "off"} : SetOverride(s, c, value)
      PROVE  IInv'
  <2>1. /\ UNCHANGED <<outcome, claims, workerVars, accepted>>
        /\ channel' \in [Channels -> {"absent", "active", "inactive", "deleted"}]
        /\ override' \in [Sites \X Channels -> {"none", "on", "off"}]
    BY <1>4 DEF CreateChannel, UpdateChannel, SetOverride, DbTypeOK
  <2>q. QED
    BY <2>1 DEF outcome, claims, workerVars, DbTypeOK, AttemptsFresh, Owns,
                RetriesWithinBudget, UntriedUntilEnqueued, Waiting
<1>5. ASSUME NEW d \in Deliveries, RetryDelayElapses(d), UNCHANGED <<workerVars, accepted>>
      PROVE  IInv'
  BY <1>5 DEF RetryDelayElapses, channels, claims, workerVars, DbTypeOK, AttemptsFresh, Owns,
              RetriesWithinBudget, UntriedUntilEnqueued, Waiting
<1>6. ASSUME NEW d \in Deliveries, LeaseElapses(d), UNCHANGED <<workerVars, accepted>>
      PROVE  IInv'
  BY <1>6 DEF LeaseElapses, channels, outcome, workerVars, DbTypeOK, AttemptsFresh, Owns,
              RetriesWithinBudget, UntriedUntilEnqueued, Waiting
<1>q. QED
  BY <1>1, <1>2, <1>3, <1>4, <1>5, <1>6 DEF ChannelStep, Tick

\* The invariant holds in an empty database.
LEMMA InitIInv == Init => IInv
BY IdleIsTask, LimitsAssumption, ClaimersAssumption
   DEF Init, DbInit, IInv, TypeOK, DbTypeOK, AttemptsFresh, RetriesWithinBudget,
       UntriedUntilEnqueued, Waiting, Owns

\* The invariant is inductive.
LEMMA NextIInv == IInv /\ [Next]_vars => IInv'
<1> SUFFICES ASSUME IInv, [Next]_vars PROVE IInv'
  OBVIOUS
<1>1. CASE UNCHANGED vars
  BY <1>1 DEF vars, dbVars, workerVars, IInv, TypeOK, DbTypeOK, AttemptsFresh, Owns,
              RetriesWithinBudget, UntriedUntilEnqueued, Waiting
<1>2. ASSUME NEW w \in Workers, WorkerStep(w)
      PROVE  IInv'
  BY <1>2, ClaimStep, LifeCycleStep, RecordStep, SendingStep DEF WorkerStep, TaskStep
<1>q. QED
  BY <1>1, <1>2, OtherStep DEF Next

\* The inductive invariant holds throughout.
LEMMA Invariance == Spec => []IInv
BY InitIInv, NextIInv, PTL DEF Spec

\* Every variable keeps its type; that attempts stays within MaxAttempts rests
\* on the retry budget.
THEOREM TypeCorrect == Spec => []TypeOK
BY Invariance, PTL DEF IInv

\* A worker that still owns its claim counts from the attempts of the row
\* (handle_delivery_failure uses the attempts that the claim returned).
THEOREM OwnersAttemptsAreFresh == Spec => []AttemptsFresh
BY Invariance, PTL DEF IInv

\* A delivery waits for another attempt only while it has attempts left, and
\* no settled delivery is under a claim.
THEOREM RetryBudgetIsKept == Spec => []RetriesWithinBudget
BY Invariance, PTL DEF IInv

-----------------------------------------------------------------------------
(* Implementation of DeliveryLifecycle.                                    *)

\* The outcome of an attempt that is recorded is an attempt of the abstract
\* specification; one that is not recorded is a stutter.
LEMMA RecordImplementsAttempt ==
  ASSUME IInv, NEW w \in Workers, NEW d \in Deliveries,
         MarkDelivered(w, d) \/ MarkFailed(w, d)
  PROVE  [Lifecycle!Next]_Lifecycle!vars
<1> USE DEF IInv, TypeOK, DbTypeOK
<1>1. CASE ~Owns(w, d)
  BY <1>1, RecordEffect DEF Lifecycle!vars, outcome
<1>2. CASE Owns(w, d)
  <2>0. PICK result \in {"waiting", "delivered", "abandoned"} :
           result = IF status'[d] = "delivered" THEN "delivered"
                    ELSE IF nextAttempt'[d] = "null" THEN "abandoned" ELSE "waiting"
    OBVIOUS
  <2>1. /\ attempts' = [attempts EXCEPT ![d] = attempts[d] + 1]
        /\ Waiting(d)
    BY <1>2, RecordEffect
  <2>2. \/ /\ status' = [status EXCEPT ![d] = "delivered"]
           /\ UNCHANGED nextAttempt
        \/ /\ status' = [status EXCEPT ![d] = "failed"]
           /\ nextAttempt' = [nextAttempt EXCEPT ![d] = "null"]
        \/ /\ status' = [status EXCEPT ![d] = "failed"]
           /\ nextAttempt' = [nextAttempt EXCEPT ![d] = "future"]
           /\ attempts[d] + 1 < MaxAttempts
    BY <1>2, RecordEffect
  <2>3. result = "waiting" => attempts[d] + 1 < MaxAttempts
    BY <2>0, <2>2
  <2>4. ASSUME NEW e \in Deliveries, e # d
        PROVE  status'[e] = status[e] /\ nextAttempt'[e] = nextAttempt[e]
    BY <2>2, <2>4
  <2>5. status'[d] \in {"delivered", "failed"}
    BY <2>2
  <2> DEFINE abstract == [e \in Deliveries |->
                            IF status[e] = "failed"
                            THEN IF nextAttempt[e] = "null" THEN "abandoned" ELSE "waiting"
                            ELSE IF status[e] = "pending" THEN "waiting" ELSE status[e]]
  <2>6. abstract[d] = "waiting"
    BY <2>1 DEF Waiting
  <2>7. abstract'[d] = result
    BY <2>0, <2>5
  <2>8. ASSUME NEW e \in Deliveries, e # d
        PROVE  abstract'[e] = abstract[e]
    BY <2>4, <2>8
  <2>9. abstract' = [abstract EXCEPT ![d] = result]
    BY <2>7, <2>8
  <2>a. Lifecycle!Attempt(d, result)
    BY <2>1, <2>3, <2>6, <2>9 DEF Lifecycle!Attempt
  <2>q. QED
    BY <2>a DEF Lifecycle!Next
<1>q. QED
  BY <1>1, <1>2

\* The deletion of rows is the deletion of the abstract specification.
LEMMA DeleteImplementsDelete ==
  ASSUME IInv, NEW D \in SUBSET Deliveries, DeleteRows(D)
  PROVE  Lifecycle!Next
<1>1. Lifecycle!Delete(D)
  BY DEF DeleteRows, Lifecycle!Delete, IInv, TypeOK, DbTypeOK
<1>q. QED
  BY <1>1 DEF Lifecycle!Next

\* Every step is a step of the abstract specification or a stutter.
LEMMA StepImplementsLifecycle ==
  IInv /\ [Next]_vars => [Lifecycle!Next]_Lifecycle!vars
<1> SUFFICES ASSUME IInv, [Next]_vars PROVE [Lifecycle!Next]_Lifecycle!vars
  OBVIOUS
<1>s. ASSUME UNCHANGED outcome PROVE [Lifecycle!Next]_Lifecycle!vars
  BY <1>s DEF outcome, Lifecycle!vars
<1>1. CASE UNCHANGED vars
  BY <1>1, <1>s DEF vars, dbVars, outcome
<1>2. ASSUME NEW w \in Workers, WorkerStep(w)
      PROVE  [Lifecycle!Next]_Lifecycle!vars
  <2>1. CASE Claim(w) \/ ClaimReplyLost(w)
    BY <2>1, <1>s DEF Claim, ClaimReplyLost
  <2>2. CASE RequestShutdown(w) \/ Exit(w) \/ Crash(w)
    BY <2>2, <1>s DEF RequestShutdown, Exit, Crash, dbVars, outcome
  <2>3. ASSUME NEW d \in Deliveries, MarkDelivered(w, d) \/ MarkFailed(w, d)
        PROVE  [Lifecycle!Next]_Lifecycle!vars
    BY <2>3, RecordImplementsAttempt
  <2>4. ASSUME NEW d \in Deliveries,
               \/ StartSend(w, d)
               \/ HeartbeatExtends(w, d)
               \/ HeartbeatGivesUp(w, d)
               \/ SendSucceeds(w, d)
               \/ \E retry \in BOOLEAN : SendFails(w, d, retry)
               \/ CancelSend(w, d)
               \/ MarkError(w, d)
               \/ ReleaseCancelled(w, d)
               \/ ReleaseError(w, d)
        PROVE  [Lifecycle!Next]_Lifecycle!vars
    <3>1. UNCHANGED outcome
      BY <2>4 DEF StartSend, HeartbeatExtends, HeartbeatGivesUp, SendSucceeds, SendFails,
                  CancelSend, MarkError, ReleaseCancelled, ReleaseError, dbVars, outcome
    <3>q. QED
      BY <3>1, <1>s
  <2>q. QED
    BY <1>2, <2>1, <2>2, <2>3, <2>4 DEF WorkerStep, TaskStep
<1>3. ASSUME NEW k \in Checks, Enqueue(k)
      PROVE  [Lifecycle!Next]_Lifecycle!vars
  <2>1. PICK C \in SUBSET Channels : InsertDeliveries({<<k, c>> : c \in C})
    BY <1>3 DEF Enqueue
  <2> DEFINE D == {<<k, c>> : c \in C}
  <2>2. D \in SUBSET Deliveries /\ \A d \in D : status[d] = "absent"
    BY <1>3 DEF Enqueue, Deliveries
  <2>3. /\ status' = [d \in Deliveries |-> IF d \in D THEN "pending" ELSE status[d]]
        /\ nextAttempt' = [d \in Deliveries |-> IF d \in D THEN "now" ELSE nextAttempt[d]]
        /\ UNCHANGED attempts
    BY <1>3, <2>1 DEF Enqueue, InsertDeliveries
  <2> HIDE DEF D
  <2>4. Lifecycle!Announce(D)
    BY <2>2, <2>3 DEF Lifecycle!Announce, IInv, TypeOK, DbTypeOK
  <2>q. QED
    BY <2>2, <2>4 DEF Lifecycle!Next
<1>4. ASSUME NEW k \in Checks, DeleteCheck(k)
      PROVE  [Lifecycle!Next]_Lifecycle!vars
  <2>1. {<<k, c>> : c \in Channels} \in SUBSET Deliveries
    BY DEF Deliveries
  <2>q. QED
    BY <1>4, <2>1, DeleteImplementsDelete DEF DeleteCheck
<1>5. CASE ChannelStep
  <2>1. ASSUME NEW c \in Channels, DeleteChannel(c)
        PROVE  [Lifecycle!Next]_Lifecycle!vars
    <3>1. {<<k, c>> : k \in Checks} \in SUBSET Deliveries
      BY DEF Deliveries
    <3>q. QED
      BY <2>1, <3>1, DeleteImplementsDelete DEF DeleteChannel
  <2>2. ASSUME NEW c \in Channels,
               \/ \E on \in BOOLEAN : CreateChannel(c, on) \/ UpdateChannel(c, on)
               \/ \E s \in Sites, value \in {"none", "on", "off"} : SetOverride(s, c, value)
        PROVE  UNCHANGED outcome
    BY <2>2 DEF CreateChannel, UpdateChannel, SetOverride
  <2>q. QED
    BY <1>5, <2>1, <2>2, <1>s DEF ChannelStep
<1>6. CASE Tick
  <2>1. ASSUME NEW d \in Deliveries, RetryDelayElapses(d)
        PROVE  UNCHANGED Lifecycle!vars
    BY <2>1 DEF RetryDelayElapses, Lifecycle!vars, IInv, TypeOK, DbTypeOK
  <2>2. ASSUME NEW d \in Deliveries, LeaseElapses(d)
        PROVE  UNCHANGED outcome
    BY <2>2 DEF LeaseElapses
  <2>q. QED
    BY <1>6, <2>1, <2>2, <1>s DEF Tick
<1>q. QED
  BY <1>1, <1>2, <1>3, <1>4, <1>5, <1>6 DEF Next

\* Workers racing over leases, with crashes, stalls and database faults,
\* implement one attempt at a time within the budget, and what is settled stays
\* settled.
THEOREM Implementation == Spec => ImplementsDeliveryLifecycle
<1>1. Init => Lifecycle!Init
  BY DEF Init, DbInit, Lifecycle!Init
<1>q. QED
  BY <1>1, StepImplementsLifecycle, Invariance, PTL
     DEF Spec, ImplementsDeliveryLifecycle, Lifecycle!Spec

-----------------------------------------------------------------------------
(* Acknowledgements when nothing goes wrong.                               *)

\* A step of the future of w for d, the only one running for d, that touches
\* no other delivery and agrees with what it has sent.
LEMMA OnceFuture ==
  ASSUME IInv, OneOwner, Unacknowledged, UNCHANGED worker,
         NEW w \in Workers, NEW d \in Deliveries, Running(w, d),
         NEW t \in Task, task' = [task EXCEPT ![w][d] = t],
         \A e \in Deliveries \ {d} :
            /\ status'[e] = status[e] /\ nextAttempt'[e] = nextAttempt[e]
            /\ claimedBy'[e] = claimedBy[e] /\ lease'[e] = lease[e]
            /\ accepted'[e] = accepted[e],
         \/ t.phase = "idle"
         \/ /\ status'[d] = status[d] /\ claimedBy'[d] = claimedBy[d]
            /\ lease'[d] = lease[d] \/ lease'[d] = "live",
         accepted'[d] <= 1,
         status'[d] \in {"absent", "pending", "failed"} =>
            accepted'[d] = 0 \/ t.phase = "sent",
         t.phase \in {"claimed", "sending", "refused", "cancelled"} => accepted'[d] = 0
  PROVE  OneOwner' /\ Unacknowledged'
<1> USE DEF Running
<1>t. task \in [Workers -> [Deliveries -> Task]]
  BY DEF IInv, TypeOK
<1>1. /\ task'[w][d] = t
      /\ \A v \in Workers : v # w => task'[v][d] = task[v][d] /\ ~Running(v, d)
  BY <1>t DEF OneOwner
<1>2. \A v \in Workers, e \in Deliveries \ {d} : task'[v][e] = task[v][e]
  BY <1>t
<1>3. OneOwner'
  <2>1. \A v, u \in Workers, e \in Deliveries : Running(v, e)' /\ Running(u, e)' => v = u
    BY <1>1, <1>2 DEF OneOwner
  <2>2. ASSUME NEW v \in Workers, NEW e \in Deliveries, Running(v, e)'
        PROVE  (Owns(v, e)' /\ lease'[e] = "live") \/ status'[e] = "deleted"
    <3>1. CASE e = d
      BY <1>1, <2>2, <3>1 DEF OneOwner, Owns
    <3>2. CASE e # d
      BY <1>2, <2>2, <3>2 DEF OneOwner, Owns
    <3>q. QED
      BY <3>1, <3>2
  <2>q. QED
    BY <2>1, <2>2 DEF OneOwner
<1>4. ASSUME NEW e \in Deliveries
      PROVE  /\ accepted'[e] <= 1
             /\ status'[e] = "absent" \/ Waiting(e)' =>
                   accepted'[e] = 0 \/ \E v \in Workers : task'[v][e].phase = "sent"
             /\ \A v \in Workers :
                   task'[v][e].phase \in {"claimed", "sending", "refused", "cancelled"}
                      => accepted'[e] = 0
  <2>1. CASE e = d
    BY <1>1, <2>1 DEF Waiting
  <2>2. CASE e # d
    <3>1. UNCHANGED <<status[e], nextAttempt[e], accepted[e]>>
      BY <2>2
    <3>2. Waiting(e)' <=> Waiting(e)
      BY <3>1 DEF Waiting
    <3>q. QED
      BY <1>2, <2>2, <3>1, <3>2 DEF Unacknowledged
  <2>q. QED
    BY <2>1, <2>2
<1>q. QED
  BY <1>3, <1>4 DEF Unacknowledged

\* The steps of a future keep the two invariants.
LEMMA OnceTaskStep ==
  ASSUME IInv, OneOwner, Unacknowledged, NEW w \in Workers, NEW d \in Deliveries,
         TaskStep(w, d) \/ HeartbeatExtends(w, d)
  PROVE  OneOwner' /\ Unacknowledged'
<1> USE DEF MovesTo, Finish
<1> DEFINE Others == \A e \in Deliveries \ {d} :
              /\ status'[e] = status[e] /\ nextAttempt'[e] = nextAttempt[e]
              /\ claimedBy'[e] = claimedBy[e] /\ lease'[e] = lease[e]
              /\ accepted'[e] = accepted[e]
<1>t. /\ task[w][d] \in Task
      /\ task \in [Workers -> [Deliveries -> Task]]
      /\ claimedBy \in [Deliveries -> Workers \cup {NoWorker}]
      /\ lease \in [Deliveries -> {"null", "live", "expired"}]
      /\ accepted \in [Deliveries -> 0..2]
      /\ status \in [Deliveries -> {"absent", "pending", "failed", "delivered", "deleted"}]
      /\ nextAttempt \in [Deliveries -> {"null", "future", "now"}]
  BY DEF IInv, TypeOK, DbTypeOK
<1>f. ASSUME NEW p \in {"sending", "sent", "cancelled"}
      PROVE  \E t \in Task : /\ t.phase = p
                             /\ [task EXCEPT ![w][d].phase = p] = [task EXCEPT ![w][d] = t]
  <2>1. [task[w][d] EXCEPT !.phase = p] \in Task
    BY <1>t DEF Task
  <2>q. QED
    BY <2>1, <1>t DEF Task
<1>z. task[w][d].phase \in {"claimed", "sending", "refused", "cancelled"} => accepted[d] = 0
  BY DEF Unacknowledged
<1>1. CASE StartSend(w, d)
  <2>1. /\ UNCHANGED <<dbVars, worker, accepted>>
        /\ task[w][d].phase = "claimed"
    BY <1>1 DEF StartSend
  <2>2. PICK t \in Task : /\ task' = [task EXCEPT ![w][d] = t]
                          /\ t.phase \in {"sending", "cancelled", "idle"}
    BY <1>1, <1>f, IdleIsTask DEF StartSend
  <2>3. /\ accepted'[d] = 0 /\ accepted'[d] <= 1
        /\ status'[d] = status[d] /\ claimedBy'[d] = claimedBy[d] /\ lease'[d] = lease[d]
        /\ Others
        /\ Running(w, d)
    BY <2>1, <1>z DEF dbVars, Running
  <2>q. QED
    BY <2>1, <2>2, <2>3, OnceFuture
<1>2. CASE HeartbeatExtends(w, d)
  <2>1. /\ UNCHANGED <<channels, outcome, claimedBy, worker, accepted>>
        /\ task[w][d].phase = "sending"
        /\ lease' = IF claimedBy[d] = w THEN [lease EXCEPT ![d] = "live"] ELSE lease
    BY <1>2 DEF HeartbeatExtends, ExtendClaim, Owns
  <2>2. PICK t \in Task : /\ task' = [task EXCEPT ![w][d] = t]
                          /\ t.phase \in {"sending", "idle"}
    BY <1>2, <1>t, <2>1, IdleIsTask DEF HeartbeatExtends
  <2>3. Others /\ (lease'[d] = lease[d] \/ lease'[d] = "live")
    BY <2>1, <1>t DEF outcome
  <2>4. /\ accepted'[d] = 0 /\ accepted'[d] <= 1
        /\ status'[d] = status[d] /\ claimedBy'[d] = claimedBy[d]
        /\ Running(w, d)
    BY <2>1, <1>z DEF outcome, Running
  <2>q. QED
    BY <2>1, <2>2, <2>3, <2>4, OnceFuture
<1>3. CASE SendSucceeds(w, d)
  <2>1. PICK t \in Task : task' = [task EXCEPT ![w][d] = t] /\ t.phase = "sent"
    BY <1>3, <1>f DEF SendSucceeds
  <2>2. accepted' = [accepted EXCEPT ![d] = 1]
    BY <1>3, <1>t, <1>z DEF SendSucceeds
  <2>3. /\ accepted'[d] <= 1
        /\ status'[d] = status[d] /\ claimedBy'[d] = claimedBy[d] /\ lease'[d] = lease[d]
        /\ Others
        /\ Running(w, d)
        /\ worker' = worker
    BY <1>3, <1>t, <2>2 DEF SendSucceeds, dbVars, Running
  <2>q. QED
    BY <2>1, <2>3, OnceFuture
<1>4. ASSUME NEW retry \in BOOLEAN, SendFails(w, d, retry)
      PROVE  OneOwner' /\ Unacknowledged'
  <2> DEFINE t == [task[w][d] EXCEPT !.phase = "refused", !.retry = retry]
  <2>1. t \in Task /\ t.phase = "refused"
    BY <1>t DEF Task
  <2>2. task' = [task EXCEPT ![w][d] = t] /\ task[w][d].phase = "sending"
    BY <1>4 DEF SendFails
  <2>3. /\ accepted'[d] = 0 /\ accepted'[d] <= 1
        /\ status'[d] = status[d] /\ claimedBy'[d] = claimedBy[d] /\ lease'[d] = lease[d]
        /\ Others
        /\ Running(w, d)
        /\ worker' = worker
    BY <1>4, <2>2, <1>z DEF SendFails, dbVars, Running
  <2> HIDE DEF t
  <2>q. QED
    BY <2>1, <2>2, <2>3, OnceFuture
<1>5. CASE MarkDelivered(w, d) \/ MarkFailed(w, d)
  <2>1. /\ task' = [task EXCEPT ![w][d] = Idle]
        /\ UNCHANGED <<channels, worker, accepted>>
    BY <1>5, RecordEffect
  <2>2. Running(w, d) /\ accepted'[d] <= 1
    BY <1>5, <2>1 DEF MarkDelivered, MarkFailed, Unacknowledged, Running
  <2>3. Others
    BY <1>5, <1>t, <2>1, RecordEffect DEF outcome, claims
  <2>4. CASE MarkFailed(w, d)
    <3>1. accepted'[d] = 0
      BY <2>1, <2>4, <1>z DEF MarkFailed
    <3>q. QED
      BY <2>1, <2>2, <2>3, <3>1, IdleIsTask, OnceFuture
  <2>5. CASE MarkDelivered(w, d)
    <3>1. status'[d] \in {"delivered", "deleted"}
      <4>1. CASE Owns(w, d)
        BY <4>1, <2>5, <1>t DEF MarkDelivered, SetDelivered
      <4>2. CASE ~Owns(w, d)
        BY <4>2, <2>2, <2>5 DEF MarkDelivered, SetDelivered, OneOwner, outcome
      <4>q. QED
        BY <4>1, <4>2
    <3>q. QED
      BY <2>1, <2>2, <2>3, <3>1, IdleIsTask, OnceFuture
  <2>q. QED
    BY <1>5, <2>4, <2>5
<1>6. CASE ReleaseCancelled(w, d)
  <2>1. /\ \/ UNCHANGED claims
           \/ /\ claimedBy' = [claimedBy EXCEPT ![d] = NoWorker]
              /\ lease' = [lease EXCEPT ![d] = "null"]
        /\ UNCHANGED <<channels, outcome, worker, accepted>>
        /\ task' = [task EXCEPT ![w][d] = Idle]
        /\ task[w][d].phase = "cancelled"
    BY <1>6 DEF ReleaseCancelled, ReleaseClaim, ClearClaim
  <2>2. Others /\ Running(w, d) /\ accepted'[d] = 0 /\ accepted'[d] <= 1
    BY <2>1, <1>t, <1>z DEF outcome, claims, Running
  <2>q. QED
    BY <2>1, <2>2, IdleIsTask, OnceFuture
<1>q. QED
  BY <1>1, <1>2, <1>3, <1>4, <1>5, <1>6 DEF TaskStep

\* A waiting delivery that may be claimed has no running future, so it has not
\* been acknowledged.
LEMMA OnceClaim ==
  ASSUME IInv, OneOwner, Unacknowledged, NEW w \in Workers, Claim(w)
  PROVE  OneOwner' /\ Unacknowledged'
<1> USE DEF Running
<1>t. task \in [Workers -> [Deliveries -> Task]]
  BY DEF IInv, TypeOK
<1> DEFINE fresh(d) == [Idle EXCEPT !.phase = "claimed", !.snap = attempts[d]]
<1>1. PICK S \in Batches :
        /\ ClaimRows(w, S)
        /\ task' = [task EXCEPT ![w] =
              [d \in Deliveries |-> IF d \in S THEN fresh(d) ELSE Idle]]
  BY DEF Claim
<1>2. AllIdle(w) /\ UNCHANGED <<outcome, worker, accepted>>
  BY DEF Claim
<1>3. \A d \in Deliveries : fresh(d).phase = "claimed"
  BY DEF Idle
<1> HIDE DEF fresh
<1>4. /\ \A d \in Deliveries :
            task'[w][d].phase = IF d \in S THEN "claimed" ELSE task[w][d].phase
      /\ \A v \in Workers, d \in Deliveries : v # w => task'[v][d] = task[v][d]
  BY <1>t, <1>1, <1>2, <1>3, IdleIsTask DEF AllIdle
<1>5. ASSUME NEW d \in S
      PROVE  /\ d \in Deliveries /\ Waiting(d)
             /\ \A v \in Workers : ~Running(v, d)
             /\ accepted[d] = 0
  <2>1. d \in Deliveries /\ Waiting(d) /\ lease[d] # "live"
    BY BatchesAreClaimable
  <2>2. status[d] # "deleted"
    BY <2>1 DEF Waiting
  <2>3. \A v \in Workers : ~Running(v, d)
    BY <2>1, <2>2 DEF OneOwner
  <2>q. QED
    BY <2>1, <2>3 DEF Unacknowledged
<1>6. ASSUME NEW v \in Workers, NEW d \in Deliveries, d \notin S
      PROVE  /\ task'[v][d].phase = task[v][d].phase
             /\ claimedBy'[d] = claimedBy[d] /\ lease'[d] = lease[d]
  BY <1>1, <1>4, <1>6 DEF ClaimRows
<1>7. ASSUME NEW v \in Workers, NEW d \in S
      PROVE  /\ task'[v][d].phase = IF v = w THEN "claimed" ELSE "idle"
             /\ claimedBy'[d] = w /\ lease'[d] = "live"
  BY <1>1, <1>4, <1>5 DEF ClaimRows
<1>8. OneOwner'
  <2>1. ASSUME NEW v \in Workers, NEW u \in Workers, NEW d \in Deliveries,
               Running(v, d)', Running(u, d)'
        PROVE  v = u
    <3>1. CASE d \in S
      BY <1>7, <2>1, <3>1
    <3>2. CASE d \notin S
      BY <1>6, <2>1, <3>2 DEF OneOwner
    <3>q. QED
      BY <3>1, <3>2
  <2>2. ASSUME NEW v \in Workers, NEW d \in Deliveries, Running(v, d)'
        PROVE  (Owns(v, d)' /\ lease'[d] = "live") \/ status'[d] = "deleted"
    <3>1. CASE d \in S
      BY <1>7, <2>2, <3>1 DEF Owns
    <3>2. CASE d \notin S
      BY <1>2, <1>6, <2>2, <3>2 DEF OneOwner, Owns, outcome
    <3>q. QED
      BY <3>1, <3>2
  <2>q. QED
    BY <1>2, <2>1, <2>2 DEF OneOwner
<1>9. ASSUME NEW d \in Deliveries
      PROVE  /\ accepted'[d] <= 1
             /\ status'[d] = "absent" \/ Waiting(d)' =>
                   accepted'[d] = 0 \/ \E v \in Workers : task'[v][d].phase = "sent"
             /\ \A v \in Workers :
                   task'[v][d].phase \in {"claimed", "sending", "refused", "cancelled"}
                      => accepted'[d] = 0
  <2>1. accepted'[d] = accepted[d] /\ status'[d] = status[d] /\ (Waiting(d)' <=> Waiting(d))
    BY <1>2 DEF outcome, Waiting
  <2>2. CASE d \in S
    BY <1>5, <2>1, <2>2
  <2>3. CASE d \notin S
    BY <1>6, <2>1, <2>3 DEF Unacknowledged
  <2>q. QED
    BY <2>2, <2>3
<1>q. QED
  BY <1>8, <1>9 DEF Unacknowledged

\* A step that leaves the futures alone, deletes some deliveries, and makes no
\* other difference but that absent ones become pending.
LEMMA OnceRowStep ==
  ASSUME IInv, OneOwner, Unacknowledged, UNCHANGED <<worker, task, accepted>>,
         \A d \in Deliveries :
            \/ status'[d] \in {"absent", "deleted"} /\ (status[d] = "absent" <=> status'[d] = "absent")
            \/ /\ claimedBy'[d] = claimedBy[d]
               /\ \/ lease'[d] = lease[d]
                  \/ \A w \in Workers : Owns(w, d) => ~Running(w, d)
               /\ \/ status'[d] = status[d] /\ (Waiting(d)' <=> Waiting(d))
                  \/ status'[d] = "pending" /\ status[d] = "absent"
  PROVE  OneOwner' /\ Unacknowledged'
<1> USE DEF Running
<1>1. ASSUME NEW w \in Workers, NEW d \in Deliveries, Running(w, d), status[d] = "absent"
      PROVE  FALSE
  BY <1>1, ClaimersAssumption DEF OneOwner, Owns, IInv, RetriesWithinBudget, Waiting
<1>2. ASSUME NEW w \in Workers, NEW d \in Deliveries, Running(w, d)
      PROVE  (Owns(w, d)' /\ lease'[d] = "live") \/ status'[d] = "deleted"
  BY <1>1, <1>2 DEF OneOwner, Owns
<1>3. OneOwner'
  BY <1>2 DEF OneOwner
<1>4. Unacknowledged'
  BY DEF Unacknowledged, Waiting
<1>q. QED
  BY <1>3, <1>4

\* Deleting rows is such a step.
LEMMA OnceDelete ==
  ASSUME IInv, OneOwner, Unacknowledged, UNCHANGED <<workerVars, accepted>>,
         NEW D \in SUBSET Deliveries, DeleteRows(D)
  PROVE  OneOwner' /\ Unacknowledged'
<1>1. ASSUME NEW d \in Deliveries, d \in D
      PROVE  /\ status'[d] \in {"absent", "deleted"}
             /\ status[d] = "absent" <=> status'[d] = "absent"
  BY <1>1 DEF DeleteRows
<1>2. ASSUME NEW d \in Deliveries, d \notin D
      PROVE  /\ status'[d] = status[d] /\ claimedBy'[d] = claimedBy[d] /\ lease'[d] = lease[d]
             /\ Waiting(d)' <=> Waiting(d)
  BY <1>2 DEF DeleteRows, Waiting
<1>q. QED
  BY <1>1, <1>2, OnceRowStep DEF workerVars

\* When every worker is reliable and the database answers, the invariant of
\* one future per delivery is inductive.
LEMMA OnceStep ==
  ASSUME Undisturbed, IInv, OneOwner, Unacknowledged, [Next]_vars
  PROVE  OneOwner' /\ Unacknowledged'
<1>1. CASE UNCHANGED vars
  BY <1>1 DEF vars, dbVars, workerVars, OneOwner, Unacknowledged, Running, Owns, Waiting
<1>2. ASSUME NEW w \in Workers, WorkerStep(w)
      PROVE  OneOwner' /\ Unacknowledged'
  <2>1. w \in Reliable /\ ~Faults /\ worker[w] = "up"
    BY DEF Undisturbed, OneOwner
  <2>2. \/ Claim(w)
        \/ \E d \in Deliveries : TaskStep(w, d) \/ HeartbeatExtends(w, d)
    BY <1>2, <2>1 DEF WorkerStep, ClaimReplyLost, RequestShutdown, Exit, Crash,
                      HeartbeatGivesUp, CancelSend, MarkError, ReleaseError
  <2>q. QED
    BY <2>2, OnceClaim, OnceTaskStep
<1>3. ASSUME NEW k \in Checks, Enqueue(k)
      PROVE  OneOwner' /\ Unacknowledged'
  <2>1. PICK C \in SUBSET Channels : InsertDeliveries({<<k, c>> : c \in C})
    BY <1>3 DEF Enqueue
  <2> DEFINE D == {<<k, c>> : c \in C}
  <2>2. \A d \in D : d \in Deliveries /\ status[d] = "absent"
    BY <1>3 DEF Enqueue, Deliveries
  <2>3. /\ status' = [d \in Deliveries |-> IF d \in D THEN "pending" ELSE status[d]]
        /\ nextAttempt' = [d \in Deliveries |-> IF d \in D THEN "now" ELSE nextAttempt[d]]
        /\ UNCHANGED <<claimedBy, lease, worker, task, accepted>>
    BY <1>3, <2>1 DEF Enqueue, InsertDeliveries, claims, workerVars
  <2> HIDE DEF D
  <2>4. ASSUME NEW d \in Deliveries
        PROVE  \/ status'[d] = status[d] /\ (Waiting(d)' <=> Waiting(d))
               \/ status'[d] = "pending" /\ status[d] = "absent"
    BY <2>2, <2>3 DEF Waiting
  <2>q. QED
    BY <2>3, <2>4, OnceRowStep
<1>4. ASSUME NEW k \in Checks, DeleteCheck(k)
      PROVE  OneOwner' /\ Unacknowledged'
  <2>1. {<<k, c>> : c \in Channels} \in SUBSET Deliveries
    BY DEF Deliveries
  <2>q. QED
    BY <1>4, <2>1, OnceDelete DEF DeleteCheck
<1>5. CASE ChannelStep
  <2>1. ASSUME NEW c \in Channels, DeleteChannel(c)
        PROVE  OneOwner' /\ Unacknowledged'
    <3>1. {<<k, c>> : k \in Checks} \in SUBSET Deliveries
      BY DEF Deliveries
    <3>q. QED
      BY <2>1, <3>1, OnceDelete DEF DeleteChannel
  <2>2. ASSUME NEW c \in Channels,
               \/ \E on \in BOOLEAN : CreateChannel(c, on) \/ UpdateChannel(c, on)
               \/ \E s \in Sites, value \in {"none", "on", "off"} : SetOverride(s, c, value)
        PROVE  OneOwner' /\ Unacknowledged'
    <3>1. UNCHANGED <<outcome, claims, workerVars, accepted>>
      BY <2>2 DEF CreateChannel, UpdateChannel, SetOverride
    <3>q. QED
      BY <3>1 DEF outcome, claims, workerVars, OneOwner, Unacknowledged, Running, Owns, Waiting
  <2>q. QED
    BY <1>5, <2>1, <2>2 DEF ChannelStep
<1>6. CASE Tick
  <2>1. ASSUME NEW d \in Deliveries, RetryDelayElapses(d), UNCHANGED <<workerVars, accepted>>
        PROVE  OneOwner' /\ Unacknowledged'
    <3>1. ASSUME NEW e \in Deliveries
          PROVE  Waiting(e)' <=> Waiting(e)
      BY <2>1 DEF RetryDelayElapses, Waiting, IInv, TypeOK, DbTypeOK
    <3>q. QED
      BY <2>1, <3>1 DEF RetryDelayElapses, claims, workerVars, OneOwner, Unacknowledged,
                        Running, Owns
  <2>2. ASSUME NEW d \in Deliveries, MayElapse(d), LeaseElapses(d),
               UNCHANGED <<workerVars, accepted>>
        PROVE  OneOwner' /\ Unacknowledged'
    <3>1. \A w \in Workers : Owns(w, d) => ~Running(w, d)
      BY <2>2 DEF MayElapse, Undisturbed, Owns, Running
    <3>2. \A e \in Deliveries : e # d => lease'[e] = lease[e]
      BY <2>2 DEF LeaseElapses, IInv, TypeOK, DbTypeOK
    <3>3. \A e \in Deliveries : /\ status'[e] = status[e] /\ claimedBy'[e] = claimedBy[e]
                                /\ Waiting(e)' <=> Waiting(e)
      BY <2>2 DEF LeaseElapses, outcome, Waiting
    <3>q. QED
      BY <2>2, <3>1, <3>2, <3>3, OnceRowStep DEF workerVars
  <2>q. QED
    BY <1>6, <2>1, <2>2 DEF Tick
<1>q. QED
  BY <1>1, <1>2, <1>3, <1>4, <1>5, <1>6 DEF Next

\* Without crashes, stalls, shutdowns and database faults, a channel never
\* acknowledges the same notification twice.
THEOREM AcknowledgedAtMostOnce == Spec => []AcknowledgedOnce
<1>1. Init => OnceInv
  BY IdleIsTask DEF Init, DbInit, OnceInv, OneOwner, Unacknowledged, Running
<1>2. IInv /\ OnceInv /\ [Next]_vars => OnceInv'
  <2>1. Undisturbed' <=> Undisturbed
    BY DEF Undisturbed
  <2>q. QED
    BY <2>1, OnceStep DEF OnceInv
<1>3. OnceInv => AcknowledgedOnce
  BY DEF OnceInv, AcknowledgedOnce, Unacknowledged
<1>q. QED
  BY <1>1, <1>2, <1>3, Invariance, PTL DEF Spec
=============================================================================
