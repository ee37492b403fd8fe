--------------------------- MODULE CheckExecution ---------------------------
(***************************************************************************)
(* One check of one claimed monitor, in time: attempts that take time and  *)
(* may be retried after a jittered delay, a lease long enough for them,    *)
(* and the task that renews the lease meanwhile                            *)
(* (src/worker/site_worker.rs from check_site_monitors on).                *)
(*                                                                         *)
(* Durations are in ticks.  No action but Tick takes time; a call to the   *)
(* database takes up to CallMax of them.  check.phase:                     *)
(*   none      no check is running                                         *)
(*   starting  claimed; the lease is being set to the length of the plan   *)
(*   attempt   an attempt is running, for `spent' ticks                    *)
(*   waiting   a retry waits, `spent' of `delay' ticks                     *)
(*   saving    the result `reason' of the observation `seen' is saved,     *)
(*             once the task that renews the lease has ended               *)
(* A lease that has run out is still its owner's until another worker      *)
(* claims the monitor.                                                     *)
(***************************************************************************)
EXTENDS Checkers, FiniteSets

CONSTANTS
    Monitors,       \* configurations of a monitor
    Observations,   \* what a check may observe of a target
    MayObserve,     \* pairs <<m, o>>: a check of m may observe o
    Timeout,        \* http_check_timeout_seconds
    MaxAttempts,    \* http_check_max_attempts
    RetryDelays,    \* http_check_retry_delays_ms
    JitterPercent,  \* http_check_retry_jitter_percent
    Override,       \* what a monitor sets instead: 0 and <<>> where it sets nothing
    LeaseSeconds,   \* lease_site_check_seconds, the lease a claim sets
    MinBuffer,      \* the two seconds of the safety buffer
    MinHeartbeat,   \* the second a heartbeat interval lasts at least
    NameMax,        \* bound: ticks to resolve a name
    AddrMax,        \* bound: addresses of a name
    QueryMax,       \* bound: queries of one lookup: retries, servers, names to search
    CallMax,        \* bound: ticks a call to the database takes
    MaxMisses,      \* bound: renewals that fail one after another
    None

\* What the configuration is checked for when the process starts.  It binds no
\* monitor that overrides one of the two.
validate_http_check_retry_policy         == Len(RetryDelays) >= MaxAttempts - 1
validate_http_check_retry_jitter_percent == JitterPercent <= 100

ASSUME ExecutionAssumption ==
    /\ MayObserve \subseteq Monitors \X Observations
    /\ Timeout \in Nat \ {0} /\ MaxAttempts \in Nat \ {0}
    /\ RetryDelays \in Seq(Nat) /\ JitterPercent \in Nat
    /\ validate_http_check_retry_policy
    /\ validate_http_check_retry_jitter_percent
    /\ Override \in [Monitors -> [timeout : Nat, max_attempts : Nat, retry_delays : Seq(Nat \ {0})]]
    /\ LeaseSeconds \in Nat \ {0} /\ MinBuffer \in Nat \ {0} /\ MinHeartbeat \in Nat \ {0}
    /\ NameMax \in Nat /\ AddrMax \in Nat /\ QueryMax \in Nat /\ CallMax \in Nat /\ MaxMisses \in Nat
    /\ None \notin Monitors \cup Observations
    /\ \A m \in Monitors : m.kind \in {"http", "ssl", "tcp", "dns", "heartbeat"}

\* What a check of each kind may observe.
ObservationFits(m, o) ==
    CASE m.kind = "http" ->
            /\ o.names \in {"public", "private", "unresolved"}
            /\ o.sent \in {"ok", "unreachable", "late", "broken"} /\ o.read \in BOOLEAN
            /\ \A pair \in m.equals \cup o.json : pair = <<pair[1], pair[2]>>
            /\ \A p, q \in o.json : p[1] = q[1] => p = q
      [] m.kind = "ssl" ->
            /\ m.https \in BOOLEAN /\ m.warning \in Nat /\ o.left \in Int
            /\ o.names \in {"public", "private", "unresolved"}
            /\ {o.inspect, o.validate} \subseteq
                  Seq({"ok", "timeout", "connect_error", "ssl_certificate_invalid"}) \ {<<>>}
      [] m.kind = "tcp" ->
            /\ o.names \in {"public", "private", "unresolved"}
            /\ o.sent \in {"ok", "unreachable", "late"}
      [] m.kind = "dns" -> m.supported \in BOOLEAN /\ o.answered \in BOOLEAN
      [] m.kind = "heartbeat" -> {o.age, m.interval, m.grace} \subseteq Nat

ASSUME ObservationAssumption == \A pair \in MayObserve : ObservationFits(pair[1], pair[2])

VARIABLES
    check,  \* the check of the claimed monitor
    lease,  \* ticks until check_lease_until, 0 when it is null or has passed
    owner,  \* check_claimed_by: "none", "self", or "other" workers
    beat    \* the task that renews the lease

checkVars == <<check, lease, owner, beat>>

-----------------------------------------------------------------------------
(* The policy and the lease plan.                                          *)

\* The monitor's own values where it sets them.  A policy may ask for retries
\* and have no delay for them.
resolve_monitor_check_policy(m) ==
    LET own == Override[m]
    IN  [timeout      |-> IF own.timeout > 0 THEN own.timeout ELSE Timeout,
         max_attempts |-> IF own.max_attempts > 0 THEN own.max_attempts ELSE MaxAttempts,
         retry_delays |-> IF own.retry_delays # <<>> THEN own.retry_delays ELSE RetryDelays]

\* The delay of the list for the retry after attempt n, or the last; there is
\* none if the list is empty.
base_retry_delay_for_attempt(p, n) ==
    IF n \in DOMAIN p.retry_delays THEN p.retry_delays[n] ELSE p.retry_delays[Len(p.retry_delays)]

JitterWindow(delay) == (delay * JitterPercent) \div 100

worst_case_retry_delay(delay) == delay + JitterWindow(delay)

jitter_retry_delay(delay) == (delay - JitterWindow(delay)) .. worst_case_retry_delay(delay)

WorstDelay(p, n) ==
    IF p.retry_delays = <<>> THEN 0 ELSE worst_case_retry_delay(base_retry_delay_for_attempt(p, n))

\* The worst delays after the first n attempts, together.
WorstDelays(p) ==
    LET sum[n \in 0..p.max_attempts - 1] == IF n = 0 THEN 0 ELSE sum[n - 1] + WorstDelay(p, n)
    IN  sum

AtLeast(bound, n) == IF n < bound THEN bound ELSE n

SafetyBuffer(p) == AtLeast(MinBuffer, p.timeout \div 2)

\* Mutation of DerivedLease: the delays are not counted.
DerivedWithoutDelays(p) == p.timeout * p.max_attempts + SafetyBuffer(p)

DerivedLease(p) == p.timeout * p.max_attempts + WorstDelays(p)[p.max_attempts - 1] + SafetyBuffer(p)

initial_lease(m) == AtLeast(LeaseSeconds, DerivedLease(resolve_monitor_check_policy(m)))

heartbeat_interval(m) == AtLeast(MinHeartbeat, initial_lease(m) \div 3)

\* The environment: calls to the database are short, next to the buffer and to
\* what two heartbeat intervals leave of the lease.
ASSUME CallsAreShort == \A m \in Monitors :
    /\ CallMax < SafetyBuffer(resolve_monitor_check_policy(m))
    /\ 3 * CallMax + 2 * heartbeat_interval(m) < initial_lease(m)

\* The longest an attempt takes.  Names are resolved without a timeout for
\* http and ssl; every address of an ssl target may take a connection and a
\* handshake, in each of two rounds; the timeout of a lookup is for each of its
\* queries.
AttemptMax(m) ==
    LET timeout == resolve_monitor_check_policy(m).timeout
    IN  CASE m.kind = "http"      -> NameMax + timeout
          [] m.kind = "ssl"       -> NameMax + 4 * timeout * AddrMax
          [] m.kind = "tcp"       -> NameMax + timeout
          [] m.kind = "dns"       -> QueryMax * timeout
          [] m.kind = "heartbeat" -> 0

-----------------------------------------------------------------------------
(* Steps.                                                                  *)

NoCheck == [phase |-> "none", mon |-> None, attempt |-> 0, spent |-> 0, delay |-> 0,
            reason |-> "none", seen |-> None]

\* missed: the most renewals in a row that have failed during this check.
NoBeat == [phase |-> "off", spent |-> 0, failing |-> 0, missed |-> 0]

CheckInit == check = NoCheck /\ lease = 0 /\ owner = "none" /\ beat = NoBeat

Checking == check.phase \in {"attempt", "waiting"}

\* claim_site_monitors_due_for_check of a monitor configured as m.
StartCheck(m) ==
    /\ check' = [NoCheck EXCEPT !.phase = "starting", !.mon = m]
    /\ lease' = LeaseSeconds
    /\ owner' = "self"
    /\ UNCHANGED beat

\* extend_site_monitor_claim took effect `age' ticks ago, if it was still ours.
extend_site_monitor_claim(age) ==
    /\ owner = "self"
    /\ lease' = initial_lease(check.mon) - age
    /\ UNCHANGED owner

ensure_site_monitor_initial_lease ==
    /\ check.phase = "starting"
    /\ \E age \in 0..check.spent : extend_site_monitor_claim(age)
    /\ check' = [check EXCEPT !.phase = "attempt", !.attempt = 1, !.spent = 0]
    /\ beat' = [NoBeat EXCEPT !.phase = "sleeping"]

\* The claim is another worker's, or the call fails: the check is not made.
InitialLeaseFails ==
    /\ check.phase = "starting"
    /\ check' = NoCheck
    /\ UNCHANGED <<lease, owner, beat>>

\* The attempt ends with one observation.  A result that is retried waits for
\* the jittered delay; any other, or one with no delay to wait for, stops the
\* renewal, after the call it is in.
AttemptEnds(o) ==
    LET p == resolve_monitor_check_policy(check.mon)
        reason == Check(check.mon, o)
        should_retry == check.attempt < p.max_attempts /\ is_retryable_check_result(reason)
    IN  /\ check.phase = "attempt"
        /\ <<check.mon, o>> \in MayObserve
        /\ IF should_retry /\ p.retry_delays # <<>>
           THEN /\ \E delay \in jitter_retry_delay(base_retry_delay_for_attempt(p, check.attempt)) :
                      check' = [check EXCEPT !.phase = "waiting", !.spent = 0, !.delay = delay]
                /\ UNCHANGED beat
           ELSE /\ check' = [check EXCEPT !.phase = "saving", !.spent = 0,
                                          !.reason = reason, !.seen = o]
                /\ beat' = IF beat.phase = "calling" THEN beat ELSE NoBeat
        /\ UNCHANGED <<lease, owner>>

RetryStarts ==
    /\ check.phase = "waiting"
    /\ check.spent = check.delay
    /\ check' = [check EXCEPT !.phase = "attempt", !.attempt = @ + 1, !.spent = 0, !.delay = 0]
    /\ UNCHANGED <<lease, owner, beat>>

\* heartbeat_site_monitor_claim: after the interval, the lease is set anew at
\* some moment of the call.  A call that fails is not repeated before the next
\* interval has passed; a claim that is lost ends the task.
BeatCalls ==
    /\ beat.phase = "sleeping"
    /\ beat.spent = heartbeat_interval(check.mon)
    /\ beat' = [beat EXCEPT !.phase = "calling", !.spent = 0]
    /\ UNCHANGED <<check, lease, owner>>

AfterCall(b) == IF check.phase = "saving" THEN NoBeat ELSE b

BeatExtends ==
    /\ beat.phase = "calling"
    /\ \E age \in 0..beat.spent : extend_site_monitor_claim(age)
    /\ beat' = AfterCall([beat EXCEPT !.phase = "sleeping", !.spent = 0, !.failing = 0])
    /\ UNCHANGED check

BeatFails ==
    /\ beat.phase = "calling"
    /\ beat.failing < MaxMisses
    /\ beat' = AfterCall([beat EXCEPT !.phase = "sleeping", !.spent = 0, !.failing = @ + 1,
                                      !.missed = AtLeast(beat.missed, beat.failing + 1)])
    /\ UNCHANGED <<check, lease, owner>>

BeatLost ==
    /\ beat.phase = "calling"
    /\ owner # "self"
    /\ beat' = [NoBeat EXCEPT !.missed = beat.missed]
    /\ UNCHANGED <<check, lease, owner>>

\* The claim's last statement clears it, unless the call fails or the claim is
\* another worker's by now.
EndClaim ==
    \/ owner = "self" /\ owner' = "none" /\ lease' = 0
    \/ UNCHANGED <<lease, owner>>

SaveEnds ==
    /\ check.phase = "saving"
    /\ beat.phase = "off"
    /\ check' = NoCheck
    /\ EndClaim
    /\ UNCHANGED beat

\* Mutation of CancelCheck: the renewal is not stopped first.
CancelWithoutJoin ==
    /\ Checking
    /\ check' = NoCheck
    /\ EndClaim
    /\ UNCHANGED beat

\* Shutdown: the check is dropped and the claim released.
CancelCheck ==
    /\ Checking
    /\ check' = NoCheck
    /\ beat' = NoBeat
    /\ EndClaim

\* What bounds the passing of time: timeouts, delays and calls end.
MayPass ==
    /\ check.phase = "starting" => check.spent < CallMax
    /\ check.phase = "saving" => check.spent < 2 * CallMax
    /\ check.phase = "attempt" => check.spent < AttemptMax(check.mon)
    /\ check.phase = "waiting" => check.spent < check.delay
    /\ beat.phase = "sleeping" => beat.spent < heartbeat_interval(check.mon)
    /\ beat.phase = "calling" => beat.spent < CallMax

CheckTick ==
    /\ MayPass
    /\ check' = IF check.phase = "none" THEN check ELSE [check EXCEPT !.spent = @ + 1]
    /\ beat' = IF beat.phase = "off" THEN beat ELSE [beat EXCEPT !.spent = @ + 1]
    /\ lease' = IF lease > 0 THEN lease - 1 ELSE 0
    /\ UNCHANGED owner
=============================================================================
