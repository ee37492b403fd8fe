----------------------------- MODULE WorkerLoop -----------------------------
(***************************************************************************)
(* The loop of one worker (src/worker/site_worker.rs, run): claim and      *)
(* check the due monitors, deliver the due notifications, prune the check  *)
(* history, and when there was nothing to do sleep until the earliest      *)
(* moment at which there may be.                                           *)
(*                                                                         *)
(* The claim's batch is one monitor here: the checks of a batch share      *)
(* nothing but the loop, which waits for all of them.  The monitor, the    *)
(* notification and the rows of the check history are shared with the API  *)
(* and with the other workers, the environment of this one.                *)
(*                                                                         *)
(* Only the checks, the deliveries and the sleep take time.                *)
(***************************************************************************)
EXTENDS CheckExecution

CONSTANTS
    CheckInterval,  \* check_interval_seconds of the monitor
    MaxPoll,        \* worker_max_poll_interval_ms
    Backoff,        \* ticks from a failed delivery to its next attempt
    DeliveryTime,   \* bound: ticks a delivery phase takes
    PruneInterval,  \* site_monitor_check_retention_interval_seconds
    PruneBatch,     \* site_monitor_check_retention_batch_size
    MaxOld          \* bound: expired rows of the check history

ASSUME LoopAssumption ==
    /\ CheckInterval \in Nat /\ MaxPoll \in Nat \ {0} /\ Backoff \in Nat /\ DeliveryTime \in Nat
    /\ PruneInterval \in Nat /\ PruneBatch \in Nat \ {0} /\ MaxOld \in Nat
    /\ None \notin Nat

VARIABLES
    loop,        \* the loop: its phase, and what it did since the last claim
    stop,        \* shutdown has been requested
    active,      \* the monitor and its site are active
    dueIn,       \* ticks until the monitor's interval has passed
    deliveryIn,  \* ticks until a notification is claimable, or None
    pruneIn,     \* ticks until next_check_history_retention_at
    old,         \* rows of the check history older than the retention
    watch        \* history: how long work has waited during the idle delay

loopVars == <<loop, stop, active, dueIn, deliveryIn, pruneIn, old, watch>>
vars     == <<checkVars, loopVars>>
shared   == <<active, dueIn, deliveryIn, old>>

Phases == {"claiming", "checking", "delivering", "pruning", "planning", "idle", "stopped"}

Claimable == active /\ dueIn = 0 /\ lease = 0

\* surprised: the work came up during the idle delay, or the delay could not
\* be derived.
NoWait == [surprised |-> FALSE, waited |-> 0]

Init ==
    /\ CheckInit
    /\ loop = [phase |-> "claiming", processed |-> FALSE, left |-> 0]
    /\ stop = FALSE
    /\ active \in BOOLEAN
    /\ dueIn = 0
    /\ deliveryIn = None
    /\ pruneIn = 0
    /\ old \in 0..MaxOld
    /\ watch = NoWait

-----------------------------------------------------------------------------
(* The phases of the loop.                                                 *)

ClaimMonitor(m) ==
    /\ loop.phase = "claiming" /\ ~stop
    /\ Claimable
    /\ StartCheck(m)
    /\ loop' = [phase |-> "checking", processed |-> TRUE, left |-> 0]
    /\ UNCHANGED <<stop, shared, pruneIn, watch>>

\* Nothing is due, or the statement fails.
ClaimNothing ==
    /\ loop.phase = "claiming" /\ ~stop
    /\ loop' = [phase |-> "delivering", processed |-> FALSE, left |-> DeliveryTime]
    /\ UNCHANGED <<checkVars, stop, shared, pruneIn, watch>>

\* A step of the check; a save that is not lost starts the next interval.
CheckStep ==
    /\ loop.phase = "checking"
    /\ \/ ensure_site_monitor_initial_lease
       \/ InitialLeaseFails
       \/ \E o \in Observations : AttemptEnds(o)
       \/ RetryStarts
       \/ BeatCalls \/ BeatExtends \/ BeatFails \/ BeatLost
       \/ SaveEnds
       \/ stop /\ CancelCheck
    /\ dueIn' = IF check.phase = "saving" /\ owner = "self" /\ owner' = "none"
                THEN CheckInterval ELSE dueIn
    /\ UNCHANGED <<loop, stop, active, deliveryIn, pruneIn, old, watch>>

ChecksEnd ==
    /\ loop.phase = "checking"
    /\ check.phase = "none" /\ beat.phase = "off"
    /\ loop' = [loop EXCEPT !.phase = IF stop THEN "stopped" ELSE "delivering", !.left = DeliveryTime]
    /\ UNCHANGED <<checkVars, stop, shared, pruneIn, watch>>

\* deliver_due_notifications: a delivery that is claimed succeeds, or fails and
\* is due again later or never; or nothing is claimed, or the claim fails.
Deliver ==
    /\ loop.phase = "delivering"
    /\ \E claimed \in BOOLEAN :
          /\ IF claimed THEN deliveryIn = 0 /\ deliveryIn' \in {None, Backoff}
             ELSE UNCHANGED deliveryIn
          /\ loop' = [loop EXCEPT !.phase = IF stop THEN "stopped" ELSE "pruning",
                                  !.processed = @ \/ claimed, !.left = 0]
    /\ UNCHANGED <<checkVars, stop, active, dueIn, pruneIn, old, watch>>

\* An iteration that did something is followed by the next at once.
Pruned(deleted) ==
    /\ loop.phase = "pruning"
    /\ old' = old - deleted
    /\ loop' = [loop EXCEPT !.phase = IF loop.processed \/ deleted > 0
                                      THEN "claiming" ELSE "planning"]
    /\ UNCHANGED <<checkVars, stop, active, dueIn, deliveryIn, watch>>

Batch == IF old < PruneBatch THEN old ELSE PruneBatch

\* The oldest rows go first; after a full batch there may be more.
PruneHistory ==
    /\ pruneIn = 0
    /\ Pruned(Batch)
    /\ pruneIn' = IF Batch = PruneBatch THEN 0 ELSE PruneInterval

\* Another worker holds the advisory lock, and prunes.
PruneLocked ==
    /\ pruneIn = 0
    /\ Pruned(0)
    /\ pruneIn' = PruneInterval

\* It is not time to prune, or a statement fails and it stays time.
PruneNothing ==
    /\ Pruned(0)
    /\ UNCHANGED pruneIn

\* next_claimable_check_at, next_claimable_delivery_at and the next pruning.
CheckWakeUps    == IF active THEN {AtLeast(dueIn, lease)} ELSE {}
DeliveryWakeUps == {deliveryIn} \ {None}

Earliest(moments) == CHOOSE n \in moments : \A k \in moments : n <= k

\* Mutation of derive_worker_idle_delay: the deliveries are forgotten.
DelayWithoutDeliveries == Earliest(CheckWakeUps \cup {pruneIn, MaxPoll})

derive_worker_idle_delay == Earliest(CheckWakeUps \cup DeliveryWakeUps \cup {pruneIn, MaxPoll})

Sleep(delay, surprised) ==
    /\ loop.phase = "planning"
    /\ loop' = [loop EXCEPT !.phase = "idle", !.left = delay]
    /\ watch' = [surprised |-> surprised, waited |-> 0]
    /\ UNCHANGED <<checkVars, stop, shared, pruneIn>>

Plan == Sleep(derive_worker_idle_delay, FALSE)

\* A statement of next_worker_idle_delay fails.
PlanFails == Sleep(MaxPoll, TRUE)

Wake ==
    /\ loop.phase = "idle" /\ loop.left = 0
    /\ loop' = [loop EXCEPT !.phase = "claiming"]
    /\ UNCHANGED <<checkVars, stop, shared, pruneIn, watch>>

\* Shutdown is looked for before each phase, and ends the sleep.
Stop ==
    /\ stop
    /\ loop.phase \in {"claiming", "idle"}
    /\ loop' = [loop EXCEPT !.phase = "stopped"]
    /\ UNCHANGED <<checkVars, stop, shared, pruneIn, watch>>

WorkerStep ==
    \/ \E m \in Monitors : ClaimMonitor(m)
    \/ ClaimNothing \/ CheckStep \/ ChecksEnd \/ Deliver
    \/ PruneHistory \/ PruneLocked \/ PruneNothing
    \/ Plan \/ PlanFails \/ Wake \/ Stop

-----------------------------------------------------------------------------
(* The environment: the API and the other workers.                         *)

\* Work that comes up while this worker sleeps could not be planned for.
Surprise == watch' = [watch EXCEPT !.surprised = @ \/ loop.phase = "idle"]

\* pause, resume, update, disable and delete: active changes, no claim does.
SetActive ==
    /\ active' = ~active
    /\ Surprise
    /\ UNCHANGED <<checkVars, loop, stop, dueIn, deliveryIn, pruneIn, old>>

EnqueueDelivery ==
    /\ deliveryIn = None
    /\ deliveryIn' = 0
    /\ Surprise
    /\ UNCHANGED <<checkVars, loop, stop, active, dueIn, pruneIn, old>>

OtherDelivers ==
    /\ deliveryIn = 0
    /\ deliveryIn' \in {None, Backoff}
    /\ UNCHANGED <<checkVars, loop, stop, active, dueIn, pruneIn, old, watch>>

\* Another worker claims the monitor; this one's check may still be running.
OtherClaims ==
    /\ Claimable
    /\ lease' = LeaseSeconds
    /\ owner' = "other"
    /\ UNCHANGED <<check, beat, loopVars>>

\* It saves, or it releases the claim on shutdown.
OtherEnds ==
    /\ owner = "other"
    /\ lease' = 0
    /\ owner' = "none"
    /\ dueIn' \in {dueIn, CheckInterval}
    /\ Surprise
    /\ UNCHANGED <<check, beat, loop, stop, active, deliveryIn, pruneIn, old>>

RowAges ==
    /\ old < MaxOld
    /\ old' = old + 1
    /\ UNCHANGED <<checkVars, loop, stop, active, dueIn, deliveryIn, pruneIn, watch>>

OtherPrunes ==
    /\ old' = old - Batch
    /\ UNCHANGED <<checkVars, loop, stop, active, dueIn, deliveryIn, pruneIn, watch>>

RequestStop ==
    /\ stop' = TRUE
    /\ UNCHANGED <<checkVars, loop, active, dueIn, deliveryIn, pruneIn, old, watch>>

Environment ==
    \/ SetActive \/ EnqueueDelivery \/ OtherDelivers \/ OtherClaims \/ OtherEnds
    \/ RowAges \/ OtherPrunes \/ RequestStop

-----------------------------------------------------------------------------
(* Time.  Shutdown ends a check and the sleep at once.                     *)

Later(n) == IF n > 0 THEN n - 1 ELSE 0

\* The worker has something it could do now.
WorkIsReady == Claimable \/ deliveryIn = 0 \/ pruneIn = 0

Tick ==
    /\ CheckTick
    /\ \/ loop.phase = "checking" /\ check.phase # "none" /\ ~(stop /\ Checking)
       \/ loop.phase \in {"delivering", "idle"} /\ loop.left > 0 /\ ~(stop /\ loop.phase = "idle")
    /\ loop' = [loop EXCEPT !.left = Later(@)]
    /\ dueIn' = Later(dueIn)
    /\ deliveryIn' = IF deliveryIn = None THEN None ELSE Later(deliveryIn)
    /\ pruneIn' = Later(pruneIn)
    /\ watch' = [watch EXCEPT !.waited =
                    IF loop.phase = "idle" /\ WorkIsReady THEN @ + 1 ELSE @]
    /\ UNCHANGED <<stop, active, old>>

Next == WorkerStep \/ Environment \/ Tick

Spec == Init /\ [][Next]_vars

-----------------------------------------------------------------------------
(* Properties.                                                             *)

\* Type correctness: the loop, the check and what they share with the others
\* stay in their domains; a check exists in the checking phase only.
TypeOK ==
    /\ loop \in [phase : Phases, processed : BOOLEAN, left : 0..AtLeast(MaxPoll, DeliveryTime)]
    /\ stop \in BOOLEAN /\ active \in BOOLEAN
    /\ dueIn \in 0..CheckInterval
    /\ deliveryIn \in 0..Backoff \cup {None}
    /\ pruneIn \in 0..PruneInterval
    /\ old \in 0..MaxOld
    /\ watch \in [surprised : BOOLEAN, waited : Nat]
    /\ lease \in Nat /\ (lease > LeaseSeconds => \E m \in Monitors : lease <= initial_lease(m))
    /\ owner \in {"none", "self", "other"}
    /\ check.phase \in {"none", "starting", "attempt", "waiting", "saving"}
    /\ check.attempt \in Nat /\ check.spent \in Nat /\ check.delay \in Nat
    /\ check.phase # "none" =>
          check.mon \in Monitors /\ check.attempt <= resolve_monitor_check_policy(check.mon).max_attempts
    /\ check.phase = "saving" => <<check.mon, check.seen>> \in MayObserve
    /\ beat.phase \in {"off", "sleeping", "calling"}
    /\ beat.spent \in Nat /\ beat.failing \in 0..MaxMisses /\ beat.missed \in 0..MaxMisses
    /\ check.phase = "none" => beat.phase = "off"
    /\ loop.phase # "checking" => check.phase = "none"

\* An attempt of the check takes no longer than the plan counts for it.
AttemptsCounted == AttemptMax(check.mon) <= resolve_monitor_check_policy(check.mon).timeout

\* While a check runs its lease does not run out, so no other worker checks the
\* monitor too: neither if renewals fail one at a time, nor at all if an
\* attempt takes no longer than the timeout the plan counts for it, whatever
\* policy the monitor's overrides give (resolve_monitor_check_policy,
\* derive_site_monitor_lease_plan, heartbeat_site_monitor_claim).
LeaseOutlastsCheck ==
    Checking /\ (beat.missed <= 1 \/ AttemptsCounted) => lease > 0 /\ owner = "self"

TargetAllowed(names) == names = "public" \/ (names = "private" /\ AllowPrivateTargets)

\* What a target has to show for its check to be reported as a success.
Deserved(m, o) ==
    CASE m.kind = "http" ->
            /\ TargetAllowed(o.names)
            /\ o.sent = "ok" /\ o.status = "expected" /\ ~(m.timed /\ o.slow)
            /\ evaluate_header_assertion(m.header, o.header)
            /\ m.contains \subseteq o.head \cup o.tail /\ m.lacks \cap o.head = {}
            /\ \A path \in m.exists : \E pair \in o.json : pair[1] = path
            /\ m.equals \subseteq o.json
            /\ \A pair \in m.differs : \E p \in o.json : p[1] = pair[1] /\ p[2] # pair[2]
      [] m.kind = "ssl" ->
            /\ TargetAllowed(o.names)
            /\ m.https
            /\ \E i \in DOMAIN o.inspect : o.inspect[i] = "ok"
            /\ \E i \in DOMAIN o.validate : o.validate[i] = "ok"
            /\ o.left >= (CriticalDays + 2) * Day /\ o.left >= (m.warning + 1) * Day
      [] m.kind = "tcp" -> o.names = "public" /\ o.sent = "ok"
      [] m.kind = "dns" ->
            \E r \in o.records : m.expected = {} \/ r \in m.expected
      [] m.kind = "heartbeat" -> o.age <= m.interval + m.grace

\* A check is saved as a success only if its last attempt saw all that the
\* monitor asks for (check_url, check_ssl_certificate, check_tcp, check_dns,
\* check_heartbeat): no test is skipped on the way to "ok".
SuccessIsDeserved ==
    check.phase = "saving" /\ check.reason = "ok" => Deserved(check.mon, check.seen)

\* What an observation needs so that all a target shows is seen: a body that is
\* read and not cut, no address that times out, a query that can be made.
SeenWhole(m, o) ==
    CASE m.kind = "http" -> BodyWanted(m) => o.read /\ o.tail = {}
      [] m.kind = "ssl"  ->
            /\ \A i \in DOMAIN o.inspect : o.inspect[i] # "timeout"
            /\ \A i \in DOMAIN o.validate : o.validate[i] # "timeout"
      [] m.kind = "dns"  -> m.supported /\ build_resolver(m.nameserver) /\ o.answered
      [] m.kind \in {"tcp", "heartbeat"} -> TRUE

\* A check is saved as a failure only if its last attempt missed something that
\* the monitor asks for, or could not see the target whole; and a failure that
\* may pass is saved only after the last attempt of the monitor's policy, or
\* because that policy has no delay to wait before another: the verdicts are
\* exact but for the limits that SeenWhole names (check_url ... check_heartbeat,
\* the loop of run_monitor_check_with_retries).
FailureIsDeserved ==
    check.phase = "saving" /\ check.reason # "ok" =>
        /\ ~(Deserved(check.mon, check.seen) /\ SeenWhole(check.mon, check.seen))
        /\ is_retryable_check_result(check.reason) =>
              LET p == resolve_monitor_check_policy(check.mon)
              IN  check.attempt = p.max_attempts \/ p.retry_delays = <<>>

\* The worker does not sleep while there is work it can do, unless the work
\* came up during the sleep, and then no longer than the longest poll interval
\* (derive_worker_idle_delay).
IdleSleepIsShort ==
    watch.waited <= IF watch.surprised THEN MaxPoll ELSE 0
=============================================================================
