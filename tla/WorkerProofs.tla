---------------------------- MODULE WorkerProofs ----------------------------
(***************************************************************************)
(* Proofs about WorkerLoop, for any retry policy that the configuration    *)
(* and the overrides of a monitor give it, any monitors, and any bounds of *)
(* the environment that leave calls to the database short (CallsAreShort). *)
(***************************************************************************)
EXTENDS WorkerLoop, CommonLemmas, TLAPS

-----------------------------------------------------------------------------
(* The retry policies.                                                     *)

Policies == [timeout : Nat \ {0}, max_attempts : Nat \ {0}, retry_delays : Seq(Nat)]

\* The policy of the check.
P == resolve_monitor_check_policy(check.mon)

LEMMA PolicyFits ==
  ASSUME NEW m \in Monitors
  PROVE  resolve_monitor_check_policy(m) \in Policies
<1> DEFINE own == Override[m]
<1>1. own \in [timeout : Nat, max_attempts : Nat, retry_delays : Seq(Nat \ {0})]
  BY ExecutionAssumption
<1>2. own.timeout \in Nat /\ own.max_attempts \in Nat /\ own.retry_delays \in Seq(Nat \ {0})
  BY <1>1
<1>3. own.retry_delays \in Seq(Nat)
  <2> DEFINE s == own.retry_delays
  <2>1. s \in Seq(Nat \ {0})
    BY <1>2
  <2> HIDE DEF s
  <2>2. s \in [1..Len(s) -> Nat] /\ Len(s) \in Nat
    BY <2>1
  <2>3. s \in Seq(Nat)
    BY <2>2
  <2> QED BY <2>3 DEF s
<1>4. Timeout \in Nat \ {0} /\ MaxAttempts \in Nat \ {0} /\ RetryDelays \in Seq(Nat)
  BY ExecutionAssumption
<1> HIDE DEF own
<1>5. resolve_monitor_check_policy(m) =
        [timeout      |-> IF own.timeout > 0 THEN own.timeout ELSE Timeout,
         max_attempts |-> IF own.max_attempts > 0 THEN own.max_attempts ELSE MaxAttempts,
         retry_delays |-> IF own.retry_delays # <<>> THEN own.retry_delays ELSE RetryDelays]
  BY DEF resolve_monitor_check_policy, own
<1> QED BY <1>2, <1>3, <1>4, <1>5 DEF Policies

LEMMA JitterFits ==
  ASSUME NEW delay \in Nat
  PROVE  /\ JitterWindow(delay) \in Nat /\ JitterWindow(delay) <= delay
         /\ worst_case_retry_delay(delay) \in Nat
         /\ \A d \in jitter_retry_delay(delay) : d \in Nat /\ d <= worst_case_retry_delay(delay)
<1>1. JitterPercent \in Nat /\ JitterPercent <= 100
  BY ExecutionAssumption DEF validate_http_check_retry_jitter_percent
<1>2. delay * JitterPercent \in Nat /\ delay * JitterPercent <= delay * 100
  BY <1>1
<1>3. JitterWindow(delay) \in Nat /\ JitterWindow(delay) <= delay
  <2> DEFINE x == delay * JitterPercent
  <2> HIDE DEF x
  <2>1. x \in Nat /\ x <= delay * 100
    BY <1>2 DEF x
  <2>2. x \div 100 \in Nat /\ x \div 100 <= delay
    BY <2>1
  <2> QED BY <2>2 DEF x, JitterWindow
<1> QED BY <1>3 DEF worst_case_retry_delay, jitter_retry_delay

LEMMA DelaysFit ==
  ASSUME NEW p \in Policies, NEW n \in Nat \ {0}
  PROVE  /\ WorstDelay(p, n) \in Nat
         /\ p.retry_delays # <<>> =>
               /\ base_retry_delay_for_attempt(p, n) \in Nat
               /\ WorstDelay(p, n) = worst_case_retry_delay(base_retry_delay_for_attempt(p, n))
<1>1. ASSUME p.retry_delays # <<>> PROVE base_retry_delay_for_attempt(p, n) \in Nat
  <2> DEFINE s == p.retry_delays
  <2>1. s \in Seq(Nat) /\ s # <<>>
    BY <1>1 DEF Policies
  <2> HIDE DEF s
  <2>2. Len(s) \in DOMAIN s /\ \A i \in DOMAIN s : s[i] \in Nat
    BY <2>1
  <2>3. (IF n \in DOMAIN s THEN s[n] ELSE s[Len(s)]) \in Nat
    BY <2>2
  <2> QED BY <2>3 DEF base_retry_delay_for_attempt, s
<1> QED BY <1>1, JitterFits DEF WorstDelay

\* WorstDelays is what its equation says.
LEMMA WorstDelaysUnfold ==
  ASSUME NEW p \in Policies
  PROVE  WorstDelays(p) = [n \in 0..p.max_attempts - 1 |->
                              IF n = 0 THEN 0 ELSE WorstDelays(p)[n - 1] + WorstDelay(p, n)]
<1> DEFINE M == p.max_attempts
           f == [k \in 0..M - 1 - 1 |-> WorstDelay(p, k + 1)]
<1>1. M - 1 \in Nat
  BY DEF Policies
<1>2. f \in [0..M - 1 - 1 -> Nat]
  <2>1. \A k \in 0..M - 1 - 1 : WorstDelay(p, k + 1) \in Nat
    BY <1>1, DelaysFit
  <2> QED BY <2>1
<1> HIDE DEF M
<1>3. PICK g \in [0..M - 1 -> Nat] : IsSums(g, f, M - 1)
  <2> HIDE DEF f
  <2> QED BY <1>1, <1>2, SumsExist
<1>4. \A n \in 1..M - 1 : f[n - 1] = WorstDelay(p, n)
  BY <1>1
<1>5. g = [n \in 0..M - 1 |-> IF n = 0 THEN 0 ELSE g[n - 1] + WorstDelay(p, n)]
  <2> HIDE DEF f
  <2>1. \A n \in 0..M - 1 : g[n] = IF n = 0 THEN 0 ELSE g[n - 1] + WorstDelay(p, n)
    BY <1>1, <1>3, <1>4 DEF IsSums
  <2> QED BY <2>1
<1>6. WorstDelays(p) = CHOOSE h :
         h = [n \in 0..M - 1 |-> IF n = 0 THEN 0 ELSE h[n - 1] + WorstDelay(p, n)]
  BY DEF WorstDelays, M
<1>7. WorstDelays(p) = [n \in 0..M - 1 |-> IF n = 0 THEN 0 ELSE WorstDelays(p)[n - 1] + WorstDelay(p, n)]
  BY <1>5, <1>6
<1> QED BY <1>7 DEF M

LEMMA WorstDelaysFit ==
  ASSUME NEW p \in Policies
  PROVE  /\ WorstDelays(p)[0] = 0
         /\ \A n \in 0..p.max_attempts - 1 :
               WorstDelays(p)[n] \in Nat /\ WorstDelays(p)[n] <= WorstDelays(p)[p.max_attempts - 1]
         /\ \A n \in 1..p.max_attempts - 1 : WorstDelays(p)[n] = WorstDelays(p)[n - 1] + WorstDelay(p, n)
<1> DEFINE M == p.max_attempts
           W == WorstDelays(p)
<1>0. M \in Nat \ {0}
  BY DEF Policies
<1>1. /\ W[0] = 0
      /\ \A n \in 1..M - 1 : W[n] = W[n - 1] + WorstDelay(p, n)
  BY <1>0, WorstDelaysUnfold
<1>2. \A n \in 1..M - 1 : WorstDelay(p, n) \in Nat
  BY <1>0, DelaysFit
<1> HIDE DEF M, W
<1>3. \A n \in 0..M - 1 : W[n] \in Nat
  <2> DEFINE T == {n \in Nat : n <= M - 1 => W[n] \in Nat}
  <2>1. 0 \in T
    BY <1>1
  <2>2. ASSUME NEW n \in Nat, n \in T PROVE n + 1 \in T
    BY <1>0, <1>1, <1>2, <2>2
  <2>3. Nat \subseteq T
    <3> HIDE DEF T
    <3> QED BY <2>1, <2>2, AllNaturals
  <2> QED BY <1>0, <2>3
<1>4. \A n \in 0..M - 1 : W[n] <= W[M - 1]
  <2> DEFINE T == {n \in Nat : n <= M - 1 => W[M - 1 - n] <= W[M - 1]}
  <2>1. 0 \in T
    BY <1>0, <1>3
  <2>2. ASSUME NEW n \in Nat, n \in T PROVE n + 1 \in T
    <3> SUFFICES ASSUME n + 1 <= M - 1 PROVE W[M - 1 - (n + 1)] <= W[M - 1]
      OBVIOUS
    <3> DEFINE k == M - 1 - n
    <3>1. k \in 1..M - 1 /\ M - 1 - (n + 1) = k - 1 /\ k - 1 \in 0..M - 1
      BY <1>0
    <3>2. W[k] <= W[M - 1]
      BY <1>0, <2>2
    <3>3. W[k] = W[k - 1] + WorstDelay(p, k) /\ WorstDelay(p, k) \in Nat
      BY <1>1, <1>2, <3>1
    <3>4. W[k] \in Nat /\ W[k - 1] \in Nat /\ W[M - 1] \in Nat
      BY <1>0, <1>3, <3>1
    <3> HIDE DEF k
    <3> QED BY <3>1, <3>2, <3>3, <3>4
  <2>3. Nat \subseteq T
    <3> HIDE DEF T
    <3> QED BY <2>1, <2>2, AllNaturals
  <2> SUFFICES ASSUME NEW n \in 0..M - 1 PROVE W[n] <= W[M - 1]
    OBVIOUS
  <2>4. M - 1 - n \in T
    BY <1>0, <2>3
  <2> QED BY <1>0, <2>4
<1> QED BY <1>1, <1>3, <1>4 DEF M, W

-----------------------------------------------------------------------------
(* The lease plans.                                                        *)

LEMMA PlanFits ==
  ASSUME NEW m \in Monitors
  PROVE  LET p == resolve_monitor_check_policy(m)
         IN  /\ p \in Policies /\ p.timeout \in Nat /\ p.max_attempts \in Nat /\ p.max_attempts > 0
             /\ SafetyBuffer(p) \in Nat /\ initial_lease(m) \in Nat /\ heartbeat_interval(m) \in Nat
             /\ CallMax \in Nat /\ CallMax < SafetyBuffer(p)
             /\ 3 * CallMax + 2 * heartbeat_interval(m) < initial_lease(m)
             /\ p.timeout * p.max_attempts \in Nat
             /\ p.timeout * p.max_attempts + WorstDelays(p)[p.max_attempts - 1] + SafetyBuffer(p)
                   <= initial_lease(m)
             /\ LeaseSeconds \in Nat /\ LeaseSeconds <= initial_lease(m)
<1> DEFINE p == resolve_monitor_check_policy(m)
<1>1. p \in Policies /\ CallMax \in Nat /\ LeaseSeconds \in Nat /\ MinBuffer \in Nat /\ MinHeartbeat \in Nat
  BY PolicyFits, ExecutionAssumption
<1>2. initial_lease(m) = AtLeast(LeaseSeconds, DerivedLease(p))
  BY DEF initial_lease
<1>3. CallMax < SafetyBuffer(p) /\ 3 * CallMax + 2 * heartbeat_interval(m) < initial_lease(m)
  BY CallsAreShort
<1> HIDE DEF p
<1>4. p.timeout \in Nat /\ p.max_attempts \in Nat /\ p.max_attempts > 0 /\ p.timeout \div 2 \in Nat
  BY <1>1 DEF Policies
<1>5. SafetyBuffer(p) \in Nat
  BY <1>1, <1>4 DEF SafetyBuffer, AtLeast
<1>6. WorstDelays(p)[p.max_attempts - 1] \in Nat
  BY <1>1, <1>4, WorstDelaysFit
<1>7. p.timeout * p.max_attempts \in Nat
  BY <1>4
<1>8. /\ DerivedLease(p) = p.timeout * p.max_attempts + WorstDelays(p)[p.max_attempts - 1] + SafetyBuffer(p)
      /\ DerivedLease(p) \in Nat
  BY <1>5, <1>6, <1>7 DEF DerivedLease
<1>9. initial_lease(m) \in Nat /\ DerivedLease(p) <= initial_lease(m) /\ LeaseSeconds <= initial_lease(m)
  BY <1>1, <1>2, <1>8 DEF AtLeast
<1>10. initial_lease(m) \div 3 \in Nat
  BY <1>9
<1>11. heartbeat_interval(m) \in Nat
  BY <1>1, <1>10 DEF heartbeat_interval, AtLeast
<1>12. p.timeout * p.max_attempts + WorstDelays(p)[p.max_attempts - 1] + SafetyBuffer(p) <= initial_lease(m)
  BY <1>8, <1>9
<1> QED BY <1>1, <1>3, <1>4, <1>5, <1>7, <1>9, <1>11, <1>12 DEF p

\* The time that n attempts take is counted by the plan.
LEMMA AttemptsFit ==
  ASSUME NEW p \in Policies, NEW n \in Nat, n < p.max_attempts
  PROVE  n * p.timeout \in Nat /\ (n + 1) * p.timeout = n * p.timeout + p.timeout
         /\ n * p.timeout + p.timeout <= p.timeout * p.max_attempts
<1> DEFINE t == p.timeout
           M == p.max_attempts
<1>1. t \in Nat /\ M \in Nat /\ n < M
  BY DEF Policies
<1> HIDE DEF t, M
<1>2. (n + 1) * t = n * t + t /\ n * t \in Nat
  BY <1>1
<1>3. PICK d \in Nat : M = n + 1 + d
  <2>1. M - n - 1 \in Nat /\ M = n + 1 + (M - n - 1)
    BY <1>1
  <2> QED BY <2>1
<1>4. t * M = (n + 1) * t + d * t /\ d * t \in Nat
  BY <1>1, <1>3
<1>5. n * t + t <= t * M
  <2> DEFINE q == n * t
             r == d * t
             a == t * M
             b == (n + 1) * t
  <2>1. q \in Nat /\ r \in Nat /\ b = q + t /\ a = b + r
    BY <1>2, <1>4
  <2> HIDE DEF q, r, a, b
  <2>2. q + t <= a
    BY <1>1, <2>1
  <2> QED BY <2>2 DEF q, a
<1> QED BY <1>2, <1>5 DEF t, M

LEMMA AttemptMaxFits ==
  ASSUME NEW m \in Monitors
  PROVE  AttemptMax(m) \in Nat
<1> DEFINE t == resolve_monitor_check_policy(m).timeout
<1>1. NameMax \in Nat /\ AddrMax \in Nat /\ QueryMax \in Nat /\ t \in Nat
      /\ m.kind \in {"http", "ssl", "tcp", "dns", "heartbeat"}
  BY PlanFits, ExecutionAssumption
<1> HIDE DEF t
<1>2. 4 * t * AddrMax \in Nat /\ QueryMax * t \in Nat
  BY <1>1
<1> QED BY <1>1, <1>2 DEF AttemptMax, t

-----------------------------------------------------------------------------
(* The inductive invariant.                                                *)

Reports == {"none"} \cup {Check(pair[1], pair[2]) : pair \in MayObserve}

CheckRecord ==
    [phase : {"none", "starting", "attempt", "waiting", "saving"}, mon : Monitors \cup {None},
     attempt : Nat, spent : Nat, delay : Nat, reason : Reports,
     seen : Observations \cup {None}]

BeatRecord ==
    [phase : {"off", "sleeping", "calling"}, spent : Nat, failing : 0..MaxMisses, missed : 0..MaxMisses]

\* No step of a check lasts longer than the plan and the environment allow.
CheckFits ==
    /\ check \in CheckRecord
    /\ check.phase # "none" => check.mon \in Monitors
    /\ check.phase # "none" => check.attempt <= P.max_attempts
    /\ check.phase = "starting" => check.spent <= CallMax
    /\ Checking => check.attempt \in 1..P.max_attempts
    /\ check.phase = "attempt" => check.spent <= AttemptMax(check.mon)
    /\ check.phase = "waiting" =>
          /\ check.attempt < P.max_attempts /\ P.retry_delays # <<>>
          /\ check.spent <= check.delay /\ check.delay <= WorstDelay(P, check.attempt)
    /\ check.phase = "saving" =>
          /\ <<check.mon, check.seen>> \in MayObserve /\ check.reason = Check(check.mon, check.seen)
          /\ is_retryable_check_result(check.reason) =>
                check.attempt = P.max_attempts \/ P.retry_delays = <<>>

BeatFits ==
    /\ beat \in BeatRecord
    /\ check.phase \in {"none", "starting"} => beat.phase = "off"
    /\ beat.phase = "sleeping" => beat.spent <= heartbeat_interval(check.mon)
    /\ beat.phase = "calling" => beat.spent <= CallMax
    /\ beat.failing <= beat.missed

\* No claim lasts longer than the default or the longest plan.
LeaseFits ==
    /\ lease \in Nat /\ (lease > LeaseSeconds => \E m \in Monitors : lease <= initial_lease(m))
    /\ owner \in {"none", "self", "other"}

\* What has passed since the first attempt began, if attempts last no longer
\* than the timeout.
Used ==
    (check.attempt - 1) * P.timeout + WorstDelays(P)[check.attempt - 1] + check.spent
    + IF check.phase = "waiting" THEN P.timeout ELSE 0

\* What has passed since the lease was set, while renewals fail one at a time.
SinceRenewal ==
    CASE beat.phase = "sleeping" /\ beat.failing = 0 -> beat.spent
      [] beat.phase = "calling" /\ beat.failing = 0  -> heartbeat_interval(check.mon) + beat.spent
      [] beat.phase = "sleeping" /\ beat.failing = 1 -> heartbeat_interval(check.mon) + CallMax + beat.spent
      [] OTHER -> 2 * heartbeat_interval(check.mon) + CallMax + beat.spent

\* The lease is longer than either, by the call that set it.
LeaseKept ==
    Checking =>
        /\ AttemptsCounted => owner = "self" /\ lease + CallMax + Used >= initial_lease(check.mon)
        /\ beat.missed <= 1 => /\ owner = "self" /\ beat.phase # "off"
                               /\ lease + CallMax + SinceRenewal >= initial_lease(check.mon)

WInv == CheckFits /\ BeatFits /\ LeaseFits /\ LeaseKept

\* The plan of the check.
LEMMA PlanNow ==
  ASSUME WInv, check.phase # "none" \/ beat.phase # "off"
  PROVE  /\ check.mon \in Monitors
         /\ P \in Policies /\ P.timeout \in Nat /\ P.max_attempts \in Nat /\ P.max_attempts > 0
         /\ SafetyBuffer(P) \in Nat /\ initial_lease(check.mon) \in Nat
         /\ heartbeat_interval(check.mon) \in Nat
         /\ CallMax \in Nat /\ CallMax < SafetyBuffer(P)
         /\ 3 * CallMax + 2 * heartbeat_interval(check.mon) < initial_lease(check.mon)
         /\ P.timeout * P.max_attempts \in Nat
         /\ P.timeout * P.max_attempts + WorstDelays(P)[P.max_attempts - 1] + SafetyBuffer(P)
               <= initial_lease(check.mon)
         /\ LeaseSeconds \in Nat /\ LeaseSeconds <= initial_lease(check.mon)
<1>1. check.mon \in Monitors
  BY DEF WInv, CheckFits, BeatFits
<1> QED BY <1>1, PlanFits DEF P

\* A step that leaves the monitor leaves the plan.
LEMMA SamePlan ==
  ASSUME check'.mon = check.mon
  PROVE  P' = P /\ (AttemptsCounted' <=> AttemptsCounted)
BY DEF P, AttemptsCounted

\* While a check is kept in either way its lease has not run out.
LEMMA LeaseLasts ==
  ASSUME WInv, Checking, beat.missed <= 1 \/ AttemptsCounted
  PROVE  lease > 0 /\ owner = "self"
<1>1. lease \in Nat /\ check.spent \in Nat /\ beat.spent \in Nat /\ beat.missed \in Nat
  BY ExecutionAssumption DEF WInv, LeaseFits, CheckFits, BeatFits, CheckRecord, BeatRecord
<1>0. check.phase # "none"
  BY DEF Checking
<1>2. CASE beat.missed <= 1
  <2>1. lease + CallMax + SinceRenewal >= initial_lease(check.mon) /\ beat.phase # "off" /\ owner = "self"
    BY <1>2 DEF WInv, LeaseKept
  <2>2. beat.failing \in {0, 1} /\ beat.phase \in {"sleeping", "calling"}
    BY <1>2, <2>1 DEF WInv, BeatFits, BeatRecord
  <2>3. SinceRenewal \in Nat /\ SinceRenewal <= 2 * heartbeat_interval(check.mon) + 2 * CallMax
    BY <1>0, <1>1, <2>2, PlanNow DEF SinceRenewal, WInv, BeatFits
  <2> QED BY <1>0, <1>1, <2>1, <2>3, PlanNow
<1>3. CASE AttemptsCounted
  <2> DEFINE n == check.attempt - 1
  <2>1. n \in Nat /\ n < P.max_attempts /\ n \in 0..P.max_attempts - 1 /\ check.mon \in Monitors
    BY <1>0, PlanNow DEF WInv, CheckFits, Checking
  <2>2. /\ n * P.timeout \in Nat /\ n * P.timeout + P.timeout <= P.timeout * P.max_attempts
        /\ WorstDelays(P)[n] \in Nat /\ WorstDelays(P)[n] <= WorstDelays(P)[P.max_attempts - 1]
        /\ WorstDelays(P)[P.max_attempts - 1] \in Nat
    <3>1. P.max_attempts - 1 \in 0..P.max_attempts - 1 /\ P \in Policies
      BY <1>0, PlanNow
    <3> QED BY <2>1, <3>1, AttemptsFit, WorstDelaysFit
  <2>3. lease + CallMax + Used >= initial_lease(check.mon) /\ owner = "self"
    BY <1>3 DEF WInv, LeaseKept
  <2>4. CASE check.phase = "attempt"
    <3>1. check.spent <= P.timeout
      BY <1>1, <1>3, <2>1, <2>4, AttemptMaxFits, PlanNow DEF WInv, CheckFits, AttemptsCounted, P
    <3>2. Used = n * P.timeout + WorstDelays(P)[n] + check.spent
      BY <1>1, <2>2, <2>4 DEF Used
    <3> HIDE DEF n
    <3> QED BY <1>0, <1>1, <2>2, <2>3, <3>1, <3>2, PlanNow
  <2>5. CASE check.phase = "waiting"
    <3>0. /\ check.attempt \in Nat \ {0} /\ check.attempt < P.max_attempts /\ P \in Policies
          /\ P.max_attempts \in Nat /\ check.delay \in Nat
          /\ check.spent <= check.delay /\ check.delay <= WorstDelay(P, check.attempt)
      BY <1>0, <1>1, <2>5, PlanNow DEF WInv, CheckFits, CheckRecord, Checking
    <3>1. n + 1 = check.attempt /\ n + 1 \in 1..P.max_attempts - 1 /\ check.spent <= WorstDelay(P, n + 1)
          /\ check.delay \in Nat
      <4>1. WorstDelay(P, check.attempt) \in Nat
        BY <3>0, DelaysFit
      <4>2. check.spent <= WorstDelay(P, check.attempt)
        BY <1>1, <3>0, <4>1
      <4>3. n + 1 = check.attempt /\ check.attempt \in 1..P.max_attempts - 1
        BY <3>0
      <4> HIDE DEF n
      <4> QED BY <3>0, <4>2, <4>3
    <3>2. WorstDelays(P)[n + 1] = WorstDelays(P)[n] + WorstDelay(P, n + 1) /\ WorstDelay(P, n + 1) \in Nat
          /\ WorstDelays(P)[n + 1] <= WorstDelays(P)[P.max_attempts - 1]
      <4>1. n + 1 \in 0..P.max_attempts - 1 /\ (n + 1) - 1 = n /\ P \in Policies
        BY <1>0, <2>1, <3>1, PlanNow
      <4> HIDE DEF n
      <4> QED BY <3>1, <4>1, DelaysFit, WorstDelaysFit
    <3>3. Used = n * P.timeout + WorstDelays(P)[n] + check.spent + P.timeout
      BY <1>1, <2>2, <2>5 DEF Used
    <3> HIDE DEF n
    <3> QED BY <1>0, <1>1, <2>2, <2>3, <3>1, <3>2, <3>3, PlanNow
  <2> QED BY <2>4, <2>5 DEF Checking
<1> QED BY <1>2, <1>3

-----------------------------------------------------------------------------
(* The steps of a check.                                                   *)

LEMMA NoneFits ==
  /\ NoCheck \in CheckRecord /\ NoBeat \in BeatRecord
  /\ NoCheck.phase = "none" /\ NoBeat.phase = "off" /\ NoBeat.failing = 0 /\ NoBeat.missed = 0
<1>1. MaxMisses \in Nat
  BY ExecutionAssumption
<1>2. "none" \in Reports
  BY DEF Reports
<1> HIDE DEF Reports
<1> QED BY <1>1, <1>2 DEF NoCheck, NoBeat, CheckRecord, BeatRecord

LEMMA Typed ==
  ASSUME WInv
  PROVE  /\ check \in CheckRecord /\ beat \in BeatRecord
         /\ lease \in Nat /\ CallMax \in Nat
         /\ check.phase # "none" => check.mon \in Monitors
         /\ check.spent \in Nat /\ check.delay \in Nat
         /\ check.attempt \in Nat
         /\ beat.spent \in Nat /\ beat.failing \in Nat /\ beat.missed \in Nat
         /\ MaxMisses \in Nat
BY ExecutionAssumption DEF WInv, CheckFits, BeatFits, LeaseFits, CheckRecord, BeatRecord

\* No check runs after the step.
LEMMA CheckGone ==
  ASSUME WInv, check' = NoCheck, beat' = NoBeat,
         (lease' = 0 /\ owner' = "none") \/ UNCHANGED <<lease, owner>>
  PROVE  WInv'
<1>1. LeaseSeconds \in Nat
  BY ExecutionAssumption
<1>2. check'.phase = "none" /\ beat'.phase = "off" /\ check' \in CheckRecord /\ beat' \in BeatRecord
      /\ beat'.failing = 0 /\ beat'.missed = 0
  BY NoneFits
<1> QED BY <1>1, <1>2 DEF WInv, CheckFits, BeatFits, LeaseFits, LeaseKept, Checking

LEMMA StartKeeps ==
  ASSUME WInv, check.phase = "none", NEW m \in Monitors, StartCheck(m)
  PROVE  WInv'
<1> DEFINE c == [NoCheck EXCEPT !.phase = "starting", !.mon = m]
<1>1. check' = c /\ lease' = LeaseSeconds /\ owner' = "self" /\ beat' = beat
  BY DEF StartCheck
<1>2. c \in CheckRecord /\ c.phase = "starting" /\ c.mon = m /\ c.spent = 0
  BY NoneFits DEF CheckRecord, NoCheck
<1>3. c.attempt = 0
  BY DEF NoCheck
<1> HIDE DEF c
<1>4. P' \in Policies /\ P'.max_attempts \in Nat /\ LeaseSeconds \in Nat /\ CallMax \in Nat
  BY <1>1, <1>2, PolicyFits, ExecutionAssumption DEF P, Policies
<1> QED BY <1>1, <1>2, <1>3, <1>4 DEF WInv, CheckFits, BeatFits, LeaseFits, LeaseKept, Checking

LEMMA FirstAttempt ==
  ASSUME WInv, ensure_site_monitor_initial_lease
  PROVE  WInv'
<1> DEFINE c == [check EXCEPT !.phase = "attempt", !.attempt = 1, !.spent = 0]
           b == [NoBeat EXCEPT !.phase = "sleeping"]
<1>1. PICK age \in 0..check.spent : extend_site_monitor_claim(age)
  BY DEF ensure_site_monitor_initial_lease
<1>2. /\ check.phase = "starting" /\ check' = c /\ beat' = b
      /\ lease' = initial_lease(check.mon) - age /\ owner' = "self"
  BY <1>1 DEF ensure_site_monitor_initial_lease, extend_site_monitor_claim
<1>3. age \in Nat /\ age <= CallMax /\ check.mon \in Monitors
  BY <1>2, Typed, PlanNow DEF WInv, CheckFits
<1>4. /\ c \in CheckRecord /\ c.phase = "attempt" /\ c.attempt = 1 /\ c.spent = 0 /\ c.mon = check.mon
  <2>1. check \in CheckRecord
    BY Typed
  <2> QED BY <2>1 DEF CheckRecord
<1>5. b \in BeatRecord /\ b.phase = "sleeping" /\ b.spent = 0 /\ b.failing = 0 /\ b.missed = 0
  BY NoneFits DEF BeatRecord, NoBeat
<1> HIDE DEF c, b
<1>11. P' = P
  BY <1>2, <1>4, SamePlan
<1>6. CheckFits'
  BY <1>2, <1>3, <1>4, <1>11, AttemptMaxFits, PlanNow DEF CheckFits, Checking
<1>7. BeatFits' /\ LeaseFits'
  BY <1>2, <1>3, <1>4, <1>5, PlanNow DEF BeatFits, LeaseFits
<1>8. Used' = 0 /\ SinceRenewal' = 0
  <2>1. (1 - 1) * P.timeout = 0 /\ WorstDelays(P)[1 - 1] = 0
    BY <1>2, PlanNow, WorstDelaysFit
  <2> QED BY <1>2, <1>4, <1>5, <1>11, <2>1 DEF Used, SinceRenewal
<1>9. lease' + CallMax >= initial_lease(check.mon)
  BY <1>2, <1>3, PlanNow
<1>10. LeaseKept'
  BY <1>2, <1>3, <1>4, <1>5, <1>8, <1>9, PlanNow DEF LeaseKept
<1> QED BY <1>6, <1>7, <1>10 DEF WInv

LEMMA InitialLeaseFailsKeeps ==
  ASSUME WInv, InitialLeaseFails
  PROVE  WInv'
BY NoneFits DEF InitialLeaseFails, WInv, CheckFits, BeatFits, LeaseFits, LeaseKept, Checking

LEMMA AttemptEndsKeeps ==
  ASSUME WInv, NEW o \in Observations, AttemptEnds(o)
  PROVE  WInv'
<1> DEFINE reason == Check(check.mon, o)
           base   == base_retry_delay_for_attempt(P, check.attempt)
           again  == check.attempt < P.max_attempts /\ is_retryable_check_result(reason)
                     /\ P.retry_delays # <<>>
<1>1. /\ check.phase = "attempt" /\ <<check.mon, o>> \in MayObserve
      /\ UNCHANGED <<lease, owner>>
  BY DEF AttemptEnds
<1>2. /\ check.attempt \in Nat /\ check.attempt >= 1 /\ check.attempt <= P.max_attempts
      /\ check.mon \in Monitors /\ P \in Policies
  BY <1>1, Typed, PlanNow DEF WInv, CheckFits, Checking
<1>3. CASE again
  <2>1. PICK delay \in jitter_retry_delay(base) :
           check' = [check EXCEPT !.phase = "waiting", !.spent = 0, !.delay = delay] /\ beat' = beat
    BY <1>3 DEF AttemptEnds, P
  <2> DEFINE c == [check EXCEPT !.phase = "waiting", !.spent = 0, !.delay = delay]
  <2>2. check.attempt \in 1..P.max_attempts - 1
    BY <1>1, <1>2, <1>3, PlanNow
  <2>3. delay \in Nat /\ delay <= WorstDelay(P, check.attempt)
    <3>1. /\ base \in Nat /\ WorstDelay(P, check.attempt) = worst_case_retry_delay(base)
      BY <1>2, <1>3, DelaysFit
    <3> HIDE DEF base
    <3> QED BY <2>1, <3>1, JitterFits
  <2>4. /\ c \in CheckRecord /\ c.phase = "waiting" /\ c.attempt = check.attempt /\ c.spent = 0
        /\ c.delay = delay /\ c.mon = check.mon
    BY <2>3, Typed DEF CheckRecord
  <2> HIDE DEF c
  <2>5. P' = P /\ (AttemptsCounted' <=> AttemptsCounted)
    BY <2>1, <2>4, SamePlan DEF c
  <2>6. CheckFits' /\ BeatFits' /\ LeaseFits'
    BY <1>1, <1>2, <1>3, <2>1, <2>3, <2>4, <2>5 DEF WInv, CheckFits, BeatFits, LeaseFits, Checking, c
  <2>7. AttemptsCounted => lease + CallMax + Used' >= initial_lease(check.mon)
    <3> SUFFICES ASSUME AttemptsCounted
                 PROVE  lease + CallMax + Used' >= initial_lease(check.mon)
      OBVIOUS
    <3> DEFINE n == check.attempt - 1
               p == n * P.timeout
               w == WorstDelays(P)[n]
    <3>1. n \in 0..P.max_attempts - 1 /\ n \in Nat /\ n < P.max_attempts
      BY <1>1, <2>2, PlanNow
    <3>2. p \in Nat /\ w \in Nat
      BY <1>2, <3>1, AttemptsFit, WorstDelaysFit
    <3>3. Used = p + w + check.spent /\ Used' = p + w + P.timeout
      BY <1>1, <2>1, <2>4, <2>5, <3>2, Typed, PlanNow DEF Used, c
    <3>4. check.spent <= P.timeout
      BY <1>1, <1>2, Typed, AttemptMaxFits, PlanNow DEF WInv, CheckFits, AttemptsCounted, P
    <3>5. lease + CallMax + Used >= initial_lease(check.mon)
      BY <1>1 DEF WInv, LeaseKept, Checking
    <3> HIDE DEF p, w
    <3> QED BY <1>1, <3>2, <3>3, <3>4, <3>5, Typed, PlanNow
  <2>8. SinceRenewal' = SinceRenewal
    BY <2>1, <2>4 DEF SinceRenewal, c
  <2>9. LeaseKept'
    BY <1>1, <2>1, <2>4, <2>5, <2>7, <2>8 DEF WInv, LeaseKept, Checking, c
  <2> QED BY <2>6, <2>9 DEF WInv
<1>4. CASE ~again
  <2> DEFINE c == [check EXCEPT !.phase = "saving", !.spent = 0, !.reason = reason, !.seen = o]
  <2>1. check' = c /\ ((beat' = beat /\ beat.phase = "calling") \/ beat' = NoBeat)
    BY <1>4 DEF AttemptEnds, P
  <2>2. reason \in Reports
    BY <1>1 DEF Reports
  <2>3. is_retryable_check_result(reason) => check.attempt = P.max_attempts \/ P.retry_delays = <<>>
    BY <1>1, <1>2, <1>4, PlanNow
  <2> HIDE DEF reason
  <2>4. /\ c \in CheckRecord /\ c.phase = "saving" /\ c.reason = reason /\ c.seen = o /\ c.spent = 0
        /\ c.mon = check.mon /\ c.attempt = check.attempt
    <3> HIDE DEF Reports
    <3> QED BY <2>2, Typed DEF CheckRecord
  <2> HIDE DEF c
  <2>5. P' = P
    BY <2>1, <2>4, SamePlan
  <2>6. CheckFits'
    BY <1>1, <1>2, <2>1, <2>3, <2>4, <2>5 DEF CheckFits, Checking, reason
  <2>7. BeatFits' /\ LeaseFits' /\ LeaseKept'
    BY <1>1, <2>1, <2>4, NoneFits DEF WInv, BeatFits, LeaseFits, LeaseKept, Checking
  <2> QED BY <2>6, <2>7 DEF WInv
<1> QED BY <1>3, <1>4

LEMMA RetryStartsKeeps ==
  ASSUME WInv, RetryStarts
  PROVE  WInv'
<1> DEFINE c == [check EXCEPT !.phase = "attempt", !.attempt = @ + 1, !.spent = 0, !.delay = 0]
<1>1. /\ check.phase = "waiting" /\ check.spent = check.delay /\ check' = c
      /\ UNCHANGED <<lease, owner, beat>>
  BY DEF RetryStarts
<1>2. /\ check.attempt \in 1..P.max_attempts - 1 /\ check.mon \in Monitors /\ P \in Policies
      /\ check.delay <= WorstDelay(P, check.attempt)
  <2>1. /\ check.attempt \in 1..P.max_attempts /\ check.attempt < P.max_attempts
        /\ check.delay <= WorstDelay(P, check.attempt)
    BY <1>1 DEF WInv, CheckFits, Checking
  <2>2. check.mon \in Monitors /\ P \in Policies /\ P.max_attempts \in Nat
    BY <1>1, PlanNow
  <2> QED BY <2>1, <2>2
<1>3. /\ c \in CheckRecord /\ c.phase = "attempt" /\ c.attempt = check.attempt + 1 /\ c.spent = 0
      /\ c.mon = check.mon
  <2>1. check.attempt + 1 \in Nat
    BY <1>2
  <2>2. check \in CheckRecord
    BY Typed
  <2>3. c = [check EXCEPT !.phase = "attempt", !.attempt = check.attempt + 1, !.spent = 0, !.delay = 0]
    BY <2>2 DEF CheckRecord
  <2> HIDE DEF c
  <2> QED BY <2>1, <2>2, <2>3 DEF CheckRecord
<1> HIDE DEF c
<1>9. P' = P /\ (AttemptsCounted' <=> AttemptsCounted)
  BY <1>1, <1>3, SamePlan
<1>4. CheckFits'
  BY <1>1, <1>2, <1>3, <1>9, AttemptMaxFits, PlanNow DEF WInv, CheckFits, Checking
<1>5. BeatFits' /\ LeaseFits'
  BY <1>1, <1>3 DEF WInv, BeatFits, LeaseFits
<1>6. Used' >= Used /\ Used \in Nat /\ Used' \in Nat
  <2> DEFINE n == check.attempt - 1
             p == n * P.timeout
             w == WorstDelays(P)[n]
  <2>1. n \in 0..P.max_attempts - 1 /\ n \in Nat /\ n < P.max_attempts /\ n + 1 = check.attempt
    <3>1. P.max_attempts \in Nat
      BY <1>1, PlanNow
    <3> QED BY <1>2, <3>1
  <2>2. p \in Nat /\ w \in Nat /\ check.attempt * P.timeout = p + P.timeout
    BY <1>2, <2>1, AttemptsFit, WorstDelaysFit
  <2>3. WorstDelays(P)[check.attempt] = w + WorstDelay(P, check.attempt) /\ WorstDelay(P, check.attempt) \in Nat
    BY <1>2, <2>1, WorstDelaysFit, DelaysFit
  <2>4. Used = p + w + check.spent + P.timeout
    BY <1>1, <2>2, Typed, PlanNow DEF Used
  <2>5. Used' = check.attempt * P.timeout + WorstDelays(P)[check.attempt]
    <3>1. (check.attempt + 1) - 1 = check.attempt
      BY <1>2
    <3>2. check.attempt * P.timeout \in Nat /\ WorstDelays(P)[check.attempt] \in Nat
      BY <1>1, <2>2, <2>3, PlanNow
    <3> HIDE DEF n, p, w
    <3> QED BY <1>1, <1>3, <1>9, <3>1, <3>2 DEF Used
  <2> HIDE DEF n, p, w
  <2> QED BY <1>1, <1>2, <2>2, <2>3, <2>4, <2>5, Typed, PlanNow
<1>7. SinceRenewal' = SinceRenewal
  BY <1>1, <1>3 DEF SinceRenewal
<1>8. LeaseKept'
  BY <1>1, <1>3, <1>6, <1>7, <1>9, Typed, PlanNow DEF WInv, LeaseKept, Checking
<1> QED BY <1>4, <1>5, <1>8 DEF WInv

-----------------------------------------------------------------------------
(* The task that renews the lease.                                         *)

LEMMA UsedFits ==
  ASSUME WInv, Checking
  PROVE  /\ Used \in Nat
         /\ Used = (check.attempt - 1) * P.timeout + WorstDelays(P)[check.attempt - 1]
                   + (IF check.phase = "waiting" THEN P.timeout ELSE 0) + check.spent
         /\ check.attempt \in 1..P.max_attempts
<1> DEFINE n == check.attempt - 1
           p == n * P.timeout
           w == WorstDelays(P)[n]
           t == IF check.phase = "waiting" THEN P.timeout ELSE 0
<1>0. check.phase # "none"
  BY DEF Checking
<1>1. /\ n \in 0..P.max_attempts - 1 /\ n \in Nat /\ n < P.max_attempts
      /\ check.attempt \in 1..P.max_attempts /\ P \in Policies
  BY <1>0, PlanNow DEF WInv, CheckFits
<1>2. p \in Nat /\ w \in Nat /\ t \in Nat
  BY <1>0, <1>1, AttemptsFit, WorstDelaysFit, PlanNow
<1>3. Used = p + w + check.spent + t
  BY DEF Used
<1> HIDE DEF p, w, t
<1>4. Used \in Nat /\ Used = p + w + t + check.spent
  BY <1>2, <1>3, Typed
<1> QED BY <1>1, <1>4 DEF p, w, t

LEMMA BeatCallsKeeps ==
  ASSUME WInv, BeatCalls
  PROVE  WInv'
<1> DEFINE b == [beat EXCEPT !.phase = "calling", !.spent = 0]
<1>1. /\ beat.phase = "sleeping" /\ beat.spent = heartbeat_interval(check.mon) /\ beat' = b
      /\ UNCHANGED <<check, lease, owner>>
  BY DEF BeatCalls
<1>2. /\ b \in BeatRecord /\ b.phase = "calling" /\ b.spent = 0
      /\ b.failing = beat.failing /\ b.missed = beat.missed
  BY Typed DEF BeatRecord
<1> HIDE DEF b
<1>6. P' = P /\ (AttemptsCounted' <=> AttemptsCounted)
  BY <1>1, SamePlan
<1>3. CheckFits' /\ BeatFits' /\ LeaseFits' /\ Checking' = Checking /\ Used' = Used
  BY <1>1, <1>2, <1>6, Typed DEF WInv, CheckFits, BeatFits, LeaseFits, Checking, Used
<1>4. beat.missed <= 1 => SinceRenewal' >= SinceRenewal /\ SinceRenewal \in Nat /\ SinceRenewal' \in Nat
  <2> SUFFICES ASSUME beat.missed <= 1
               PROVE  SinceRenewal' >= SinceRenewal /\ SinceRenewal \in Nat /\ SinceRenewal' \in Nat
    OBVIOUS
  <2>1. beat.failing \in {0, 1}
    BY Typed DEF WInv, BeatFits
  <2> QED BY <1>1, <1>2, <2>1, Typed, PlanNow DEF SinceRenewal
<1>5. LeaseKept'
  BY <1>1, <1>2, <1>3, <1>4, <1>6, Typed, PlanNow DEF WInv, LeaseKept, Checking
<1> QED BY <1>3, <1>5 DEF WInv

LEMMA BeatExtendsKeeps ==
  ASSUME WInv, BeatExtends
  PROVE  WInv'
<1> DEFINE b == [beat EXCEPT !.phase = "sleeping", !.spent = 0, !.failing = 0]
<1>1. PICK age \in 0..beat.spent : extend_site_monitor_claim(age)
  BY DEF BeatExtends
<1>2. /\ beat.phase = "calling" /\ owner = "self" /\ lease' = initial_lease(check.mon) - age /\ owner' = "self"
      /\ check' = check /\ beat' = IF check.phase = "saving" THEN NoBeat ELSE b
  BY <1>1 DEF BeatExtends, extend_site_monitor_claim, AfterCall
<1>3. age \in Nat /\ age <= CallMax
  BY <1>2, Typed, PlanNow DEF WInv, BeatFits
<1>4. b \in BeatRecord /\ b.phase = "sleeping" /\ b.spent = 0 /\ b.failing = 0 /\ b.missed = beat.missed
  <2>1. beat \in BeatRecord /\ 0 \in 0..MaxMisses
    BY Typed
  <2> QED BY <2>1 DEF BeatRecord
<1> HIDE DEF b
<1>9. P' = P /\ (AttemptsCounted' <=> AttemptsCounted)
  BY <1>2, SamePlan
<1>10. check.phase # "none" /\ check.mon \in Monitors
  BY <1>2, PlanNow DEF WInv, BeatFits
<1>5. CheckFits' /\ BeatFits' /\ LeaseFits'
  <2>1. CheckFits'
    BY <1>2, <1>9 DEF WInv, CheckFits, Checking
  <2>2. BeatFits'
    BY <1>2, <1>4, Typed, NoneFits, PlanNow DEF WInv, BeatFits
  <2>3. LeaseFits'
    BY <1>2, <1>3, <1>10, PlanNow DEF LeaseFits
  <2> QED BY <2>1, <2>2, <2>3
<1>6. ASSUME Checking PROVE beat' = b /\ SinceRenewal' = 0 /\ Used' = Used /\ Used \in Nat
  BY <1>2, <1>4, <1>6, <1>9, UsedFits DEF Checking, SinceRenewal, Used
<1>7. lease' + CallMax >= initial_lease(check.mon) /\ lease' \in Nat
  BY <1>2, <1>3, PlanNow
<1>8. LeaseKept'
  BY <1>2, <1>4, <1>6, <1>7, <1>10, PlanNow DEF LeaseKept, Checking
<1> QED BY <1>5, <1>8 DEF WInv

LEMMA BeatFailsKeeps ==
  ASSUME WInv, BeatFails
  PROVE  WInv'
<1> DEFINE worst == AtLeast(beat.missed, beat.failing + 1)
           b == [beat EXCEPT !.phase = "sleeping", !.spent = 0, !.failing = beat.failing + 1,
                             !.missed = worst]
<1>1. beat \in BeatRecord
  BY Typed
<1>2. /\ beat.phase = "calling" /\ beat.failing < MaxMisses /\ UNCHANGED <<check, lease, owner>>
      /\ beat' = IF check.phase = "saving" THEN NoBeat ELSE b
  BY <1>1 DEF BeatFails, AfterCall, BeatRecord
<1>3. /\ beat.failing + 1 \in 0..MaxMisses /\ worst \in 0..MaxMisses
      /\ worst >= beat.missed /\ worst >= beat.failing + 1
  BY <1>1, <1>2, Typed DEF BeatRecord, AtLeast
<1> HIDE DEF worst
<1>4. b \in BeatRecord /\ b.phase = "sleeping" /\ b.spent = 0 /\ b.failing = beat.failing + 1 /\ b.missed = worst
  BY <1>1, <1>3 DEF BeatRecord
<1> HIDE DEF b
<1>10. P' = P /\ (AttemptsCounted' <=> AttemptsCounted)
  BY <1>2, SamePlan
<1>5. CheckFits' /\ BeatFits' /\ LeaseFits'
  <2>1. CheckFits' /\ LeaseFits'
    BY <1>2, <1>10 DEF WInv, CheckFits, LeaseFits, Checking
  <2>2. BeatFits'
    BY <1>2, <1>3, <1>4, Typed, NoneFits, PlanNow DEF WInv, BeatFits
  <2> QED BY <2>1, <2>2
<1>6. ASSUME Checking, worst <= 1
      PROVE  /\ beat' = b /\ beat.missed <= 1
             /\ SinceRenewal' \in Nat /\ SinceRenewal \in Nat /\ SinceRenewal' >= SinceRenewal
  <2>1. beat' = b /\ beat.missed <= 1 /\ beat.failing = 0
    BY <1>2, <1>3, <1>6, Typed DEF Checking
  <2>2. beat.spent <= CallMax
    BY <1>2 DEF WInv, BeatFits
  <2> QED BY <1>2, <1>4, <2>1, <2>2, Typed, PlanNow DEF SinceRenewal
<1>7. Checking' = Checking /\ Used' = Used
  BY <1>2, <1>10 DEF Checking, Used
<1>8. ASSUME Checking PROVE beat' = b
  BY <1>2, <1>8 DEF Checking
<1>9. LeaseKept'
  BY <1>2, <1>4, <1>6, <1>7, <1>8, <1>10, Typed, PlanNow DEF WInv, LeaseKept, Checking
<1> QED BY <1>5, <1>9 DEF WInv

LEMMA BeatLostKeeps ==
  ASSUME WInv, BeatLost
  PROVE  WInv'
<1> DEFINE b == [NoBeat EXCEPT !.missed = beat.missed]
<1>1. /\ beat.phase = "calling" /\ owner # "self" /\ beat' = b /\ UNCHANGED <<check, lease, owner>>
  BY DEF BeatLost
<1>2. b \in BeatRecord /\ b.phase = "off" /\ b.missed = beat.missed /\ b.failing = 0
  BY Typed, NoneFits DEF BeatRecord, NoBeat
<1> HIDE DEF b
<1>5. P' = P /\ (AttemptsCounted' <=> AttemptsCounted)
  BY <1>1, SamePlan
<1>3. CheckFits' /\ BeatFits' /\ LeaseFits'
  BY <1>1, <1>2, <1>5, Typed DEF WInv, CheckFits, BeatFits, LeaseFits, Checking
<1>4. LeaseKept'
  BY <1>1, <1>2, <1>5 DEF WInv, LeaseKept, Checking, Used
<1> QED BY <1>3, <1>4 DEF WInv

-----------------------------------------------------------------------------
(* The end of a check, the other workers, and time.                        *)

LEMMA SaveEndsKeeps ==
  ASSUME WInv, SaveEnds
  PROVE  WInv'
<1>1. /\ check' = NoCheck /\ beat' = beat /\ beat.phase = "off"
      /\ (lease' = 0 /\ owner' = "none") \/ UNCHANGED <<lease, owner>>
  BY DEF SaveEnds, EndClaim
<1>2. LeaseSeconds \in Nat
  BY ExecutionAssumption
<1>3. CheckFits' /\ BeatFits' /\ LeaseKept'
  BY <1>1, NoneFits DEF WInv, CheckFits, BeatFits, LeaseKept, Checking
<1>4. LeaseFits'
  BY <1>1, <1>2 DEF WInv, LeaseFits
<1> QED BY <1>3, <1>4 DEF WInv

LEMMA CancelKeeps ==
  ASSUME WInv, CancelCheck
  PROVE  WInv'
BY CheckGone DEF CancelCheck, EndClaim

\* Another worker claims the monitor when the lease has run out, or ends a
\* claim of its own.
LEMMA OthersKeep ==
  ASSUME WInv, UNCHANGED <<check, beat>>,
         \/ lease = 0 /\ lease' = LeaseSeconds /\ owner' = "other"
         \/ owner = "other" /\ lease' = 0 /\ owner' = "none"
         \/ UNCHANGED <<lease, owner>>
  PROVE  WInv'
<1>4. P' = P /\ (AttemptsCounted' <=> AttemptsCounted) /\ LeaseSeconds \in Nat
  BY SamePlan, ExecutionAssumption
<1>1. CheckFits' /\ BeatFits' /\ LeaseFits'
  BY <1>4 DEF WInv, CheckFits, BeatFits, LeaseFits, Checking
<1>2. Checking' = Checking /\ Used' = Used /\ SinceRenewal' = SinceRenewal
  BY <1>4 DEF Checking, Used, SinceRenewal
<1>3. LeaseKept'
  BY <1>2, <1>4, LeaseLasts DEF WInv, LeaseKept, Checking
<1> QED BY <1>1, <1>3 DEF WInv

LEMMA CheckTickKeeps ==
  ASSUME WInv, CheckTick
  PROVE  WInv'
<1> DEFINE c == [check EXCEPT !.spent = check.spent + 1]
           b == [beat EXCEPT !.spent = beat.spent + 1]
<1>1. check \in CheckRecord /\ beat \in BeatRecord
  BY Typed
<1>2. /\ MayPass /\ owner' = owner
      /\ check' = IF check.phase = "none" THEN check ELSE c
      /\ beat' = IF beat.phase = "off" THEN beat ELSE b
      /\ lease' = IF lease > 0 THEN lease - 1 ELSE 0
  BY <1>1 DEF CheckTick, CheckRecord, BeatRecord
<1>3. /\ c \in CheckRecord /\ c.phase = check.phase /\ c.mon = check.mon /\ c.attempt = check.attempt
      /\ c.spent = check.spent + 1 /\ c.delay = check.delay /\ c.reason = check.reason /\ c.seen = check.seen
  BY <1>1 DEF CheckRecord
<1>4. /\ b \in BeatRecord /\ b.phase = beat.phase /\ b.spent = beat.spent + 1
      /\ b.failing = beat.failing /\ b.missed = beat.missed
  BY <1>1 DEF BeatRecord
<1> HIDE DEF c, b
<1>8. check'.mon = check.mon /\ P' = P /\ (AttemptsCounted' <=> AttemptsCounted)
  BY <1>2, <1>3, SamePlan
<1>5. CheckFits'
  <2>1. CASE check.phase = "none"
    BY <1>2, <1>8, <2>1 DEF WInv, CheckFits, Checking
  <2>2. CASE check.phase # "none"
    <3>1. check' = c /\ check.mon \in Monitors /\ AttemptMax(check.mon) \in Nat
      BY <1>2, <2>2, AttemptMaxFits DEF WInv, CheckFits
    <3>2. /\ check.phase = "starting" => check.spent + 1 <= CallMax
          /\ check.phase = "attempt" => check.spent + 1 <= AttemptMax(check.mon)
          /\ check.phase = "waiting" => check.spent + 1 <= check.delay
      BY <1>2, <3>1, Typed DEF MayPass
    <3>3. /\ check.attempt <= P.max_attempts
          /\ Checking => check.attempt \in 1..P.max_attempts
          /\ check.phase = "waiting" =>
                /\ check.attempt < P.max_attempts /\ P.retry_delays # <<>>
                /\ check.delay <= WorstDelay(P, check.attempt)
          /\ check.phase = "saving" =>
                /\ <<check.mon, check.seen>> \in MayObserve /\ check.reason = Check(check.mon, check.seen)
                /\ is_retryable_check_result(check.reason) =>
                      check.attempt = P.max_attempts \/ P.retry_delays = <<>>
      BY <2>2 DEF WInv, CheckFits
    <3> QED BY <1>3, <1>8, <2>2, <3>1, <3>2, <3>3 DEF CheckFits, Checking
  <2> QED BY <2>1, <2>2
<1>6. BeatFits' /\ LeaseFits'
  <2>1. BeatFits'
    BY <1>2, <1>3, <1>4, <1>8, Typed, PlanNow DEF WInv, BeatFits, MayPass
  <2>2. LeaseFits'
    <3>1. \A m \in Monitors : initial_lease(m) \in Nat
      BY PlanFits
    <3>2. lease' \in Nat /\ lease' <= lease /\ LeaseSeconds \in Nat
      BY <1>2, Typed, ExecutionAssumption
    <3> QED BY <1>2, <3>1, <3>2, Typed DEF WInv, LeaseFits
  <2> QED BY <2>1, <2>2
<1>7. LeaseKept'
  <2> SUFFICES ASSUME Checking' PROVE
        /\ AttemptsCounted =>
              owner' = "self" /\ lease' + CallMax + Used' >= initial_lease(check.mon)
        /\ beat'.missed <= 1 => /\ owner' = "self" /\ beat'.phase # "off"
                                /\ lease' + CallMax + SinceRenewal' >= initial_lease(check.mon)
    BY <1>8 DEF LeaseKept
  <2>1. Checking /\ check' = c
    BY <1>2, <1>3 DEF Checking
  <2>5. check.phase # "none" /\ P \in Policies /\ P.max_attempts \in Nat /\ P.timeout \in Nat
        /\ heartbeat_interval(check.mon) \in Nat /\ initial_lease(check.mon) \in Nat
    BY <2>1, PlanNow DEF Checking
  <2>2. ASSUME AttemptsCounted
        PROVE  owner' = "self" /\ lease' + CallMax + Used' >= initial_lease(check.mon)
    <3>1. Used \in Nat /\ Used' = Used + 1
      <4> DEFINE p == (check.attempt - 1) * P.timeout
                 w == WorstDelays(P)[check.attempt - 1]
                 t == IF check.phase = "waiting" THEN P.timeout ELSE 0
      <4>1. Used \in Nat /\ Used = p + w + t + check.spent
        BY <2>1, UsedFits
      <4>2. check.attempt - 1 \in 0..P.max_attempts - 1 /\ check.attempt - 1 \in Nat /\ check.attempt - 1 < P.max_attempts
        BY <2>1, <2>5, UsedFits
      <4>3. p \in Nat /\ w \in Nat /\ t \in Nat
        BY <2>5, <4>2, AttemptsFit, WorstDelaysFit
      <4>4. Used' = p + w + (check.spent + 1) + t
        BY <1>3, <1>8, <2>1 DEF Used
      <4> HIDE DEF p, w, t
      <4> QED BY <4>1, <4>3, <4>4, Typed
    <3>2. lease > 0 /\ owner = "self" /\ lease + CallMax + Used >= initial_lease(check.mon)
      BY <2>1, <2>2, LeaseLasts DEF WInv, LeaseKept
    <3> QED BY <1>2, <2>5, <3>1, <3>2, Typed
  <2>3. ASSUME beat.missed <= 1
        PROVE  owner' = "self" /\ beat'.phase # "off" /\ lease' + CallMax + SinceRenewal' >= initial_lease(check.mon)
    <3>1. /\ lease > 0 /\ owner = "self" /\ lease + CallMax + SinceRenewal >= initial_lease(check.mon)
          /\ beat.phase # "off"
      BY <2>1, <2>3, LeaseLasts DEF WInv, LeaseKept
    <3>2. beat' = b
      BY <1>2, <3>1
    <3>3. SinceRenewal \in Nat /\ SinceRenewal' = SinceRenewal + 1
      BY <1>4, <1>8, <2>5, <3>2, Typed DEF SinceRenewal
    <3> QED BY <1>2, <1>4, <2>5, <3>1, <3>2, <3>3, Typed
  <2>4. check'.mon = check.mon /\ beat'.missed = beat.missed
    BY <1>2, <1>3, <1>4, <2>1
  <2> QED BY <2>2, <2>3, <2>4
<1> QED BY <1>5, <1>6, <1>7 DEF WInv

-----------------------------------------------------------------------------
(* The loop.                                                               *)

LoopRecord == [phase : Phases, processed : BOOLEAN, left : 0..AtLeast(MaxPoll, DeliveryTime)]

LoopFits ==
    /\ loop \in LoopRecord
    /\ stop \in BOOLEAN /\ active \in BOOLEAN
    /\ dueIn \in 0..CheckInterval
    /\ deliveryIn \in 0..Backoff \cup {None}
    /\ pruneIn \in 0..PruneInterval
    /\ old \in 0..MaxOld
    /\ watch \in [surprised : BOOLEAN, waited : Nat]
    /\ loop.phase # "checking" => check.phase = "none"

\* Until it is surprised the worker wakes before there is anything to do.
WakesInTime ==
    /\ loop.left <= pruneIn
    /\ deliveryIn # None => loop.left <= deliveryIn
    /\ active => loop.left <= AtLeast(dueIn, lease)

IdleFits ==
    loop.phase = "idle" =>
        IF watch.surprised THEN watch.waited + loop.left <= MaxPoll
        ELSE watch.waited = 0 /\ loop.left <= MaxPoll /\ WakesInTime

LInv == WInv /\ LoopFits /\ IdleFits /\ IdleSleepIsShort

LEMMA LoopTyped ==
  ASSUME LInv
  PROVE  /\ loop \in LoopRecord /\ loop.left \in Nat
         /\ watch \in [surprised : BOOLEAN, waited : Nat] /\ watch.waited \in Nat
         /\ dueIn \in Nat /\ pruneIn \in Nat /\ old \in Nat /\ lease \in Nat
         /\ deliveryIn # None => deliveryIn \in Nat
         /\ MaxPoll \in Nat /\ Backoff \in Nat /\ CheckInterval \in Nat /\ PruneInterval \in Nat
         /\ PruneBatch \in Nat /\ MaxOld \in Nat /\ DeliveryTime \in Nat /\ None \notin Nat
BY LoopAssumption, Typed DEF LInv, LoopFits, LoopRecord, AtLeast

\* The loop enters a phase in which it does not sleep.
LEMMA PhaseKeeps ==
  ASSUME LInv, WInv', NEW phase \in Phases \ {"idle"}, NEW processed \in BOOLEAN,
         NEW left \in 0..AtLeast(MaxPoll, DeliveryTime),
         loop' = [phase |-> phase, processed |-> processed, left |-> left],
         phase # "checking" => check'.phase = "none",
         UNCHANGED <<active, watch>>, stop' \in BOOLEAN,
         dueIn' \in 0..CheckInterval, deliveryIn' \in 0..Backoff \cup {None},
         pruneIn' \in 0..PruneInterval, old' \in 0..MaxOld
  PROVE  LInv'
<1>1. loop' \in LoopRecord /\ loop'.phase = phase
  BY DEF LoopRecord, Phases
<1>2. LoopFits' /\ IdleFits'
  BY <1>1 DEF LInv, LoopFits, IdleFits
<1>3. IdleSleepIsShort'
  BY DEF LInv, IdleSleepIsShort
<1> QED BY <1>2, <1>3 DEF LInv

LEMMA LoopIs ==
  ASSUME LInv
  PROVE  loop = [phase |-> loop.phase, processed |-> loop.processed, left |-> loop.left]
         /\ loop.processed \in BOOLEAN /\ loop.phase \in Phases
         /\ loop.left \in 0..AtLeast(MaxPoll, DeliveryTime) /\ 0 \in 0..AtLeast(MaxPoll, DeliveryTime)
         /\ DeliveryTime \in 0..AtLeast(MaxPoll, DeliveryTime)
         /\ MaxPoll \in 0..AtLeast(MaxPoll, DeliveryTime)
BY LoopTyped DEF LoopRecord, AtLeast

LEMMA ClaimKeeps ==
  ASSUME LInv, NEW m \in Monitors, ClaimMonitor(m)
  PROVE  LInv'
<1>1. WInv'
  BY StartKeeps DEF ClaimMonitor, LInv, LoopFits
<1> QED BY <1>1, LoopIs, PhaseKeeps DEF ClaimMonitor, shared, Phases, LInv, LoopFits

LEMMA ClaimNothingKeeps ==
  ASSUME LInv, ClaimNothing
  PROVE  LInv'
<1>1. WInv' /\ check'.phase = "none"
  BY OthersKeep DEF ClaimNothing, checkVars, LInv, LoopFits
<1> QED BY <1>1, LoopIs, PhaseKeeps DEF ClaimNothing, shared, Phases, LInv, LoopFits

LEMMA CheckStepKeeps ==
  ASSUME LInv, CheckStep
  PROVE  LInv'
<1>1. WInv'
  BY FirstAttempt, InitialLeaseFailsKeeps, AttemptEndsKeeps, RetryStartsKeeps, BeatCallsKeeps,
     BeatExtendsKeeps, BeatFailsKeeps, BeatLostKeeps, SaveEndsKeeps, CancelKeeps DEF CheckStep, LInv
<1>2. loop.phase = "checking" /\ UNCHANGED <<loop, stop, active, deliveryIn, pruneIn, old, watch>>
      /\ dueIn' \in {dueIn, CheckInterval}
  BY DEF CheckStep
<1>3. dueIn' \in 0..CheckInterval
  BY <1>2, LoopTyped DEF LInv, LoopFits
<1> QED BY <1>1, <1>2, <1>3 DEF LInv, LoopFits, IdleFits, IdleSleepIsShort

LEMMA ChecksEndKeeps ==
  ASSUME LInv, ChecksEnd
  PROVE  LInv'
<1>1. WInv' /\ check'.phase = "none"
  BY OthersKeep DEF ChecksEnd, checkVars, LInv
<1>2. loop' = [phase |-> IF stop THEN "stopped" ELSE "delivering", processed |-> loop.processed,
               left |-> DeliveryTime]
  BY LoopIs DEF ChecksEnd
<1> QED BY <1>1, <1>2, LoopIs, PhaseKeeps DEF ChecksEnd, shared, Phases, LInv, LoopFits

LEMMA DeliverKeeps ==
  ASSUME LInv, Deliver
  PROVE  LInv'
<1>1. loop.phase = "delivering" /\ UNCHANGED <<checkVars, stop, active, dueIn, pruneIn, old, watch>>
  BY DEF Deliver
<1>2. WInv' /\ check'.phase = "none"
  BY <1>1, OthersKeep DEF checkVars, LInv, LoopFits
<1>3. PICK claimed \in BOOLEAN :
        /\ IF claimed THEN deliveryIn = 0 /\ deliveryIn' \in {None, Backoff}
           ELSE UNCHANGED deliveryIn
        /\ loop' = [loop EXCEPT !.phase = IF stop THEN "stopped" ELSE "pruning",
                                !.processed = @ \/ claimed, !.left = 0]
  BY DEF Deliver
<1>4. loop' = [phase |-> IF stop THEN "stopped" ELSE "pruning",
               processed |-> loop.processed \/ claimed, left |-> 0]
  BY <1>3, LoopIs
<1>5. deliveryIn' \in 0..Backoff \cup {None}
  BY <1>3, LoopTyped DEF LInv, LoopFits
<1>6. (loop.processed \/ claimed) \in BOOLEAN
  OBVIOUS
<1> QED BY <1>1, <1>2, <1>4, <1>5, <1>6, LoopIs, PhaseKeeps DEF Phases, LInv, LoopFits

LEMMA BatchFits ==
  ASSUME LInv
  PROVE  Batch \in Nat /\ Batch <= old
BY LoopTyped DEF Batch

LEMMA PruneKeeps ==
  ASSUME LInv, PruneHistory \/ PruneLocked \/ PruneNothing
  PROVE  LInv'
<1>1. PICK deleted \in {0, Batch} : Pruned(deleted) /\ pruneIn' \in {0, PruneInterval, pruneIn}
  BY DEF PruneHistory, PruneLocked, PruneNothing
<1>2. /\ loop.phase = "pruning" /\ old' = old - deleted
      /\ UNCHANGED <<checkVars, stop, active, dueIn, deliveryIn, watch>>
  BY <1>1 DEF Pruned
<1>3. WInv' /\ check'.phase = "none"
  BY <1>2, OthersKeep DEF checkVars, LInv, LoopFits
<1>4. old' \in 0..MaxOld /\ pruneIn' \in 0..PruneInterval
  BY <1>1, <1>2, BatchFits, LoopTyped DEF LInv, LoopFits
<1>5. loop' = [phase |-> IF loop.processed \/ deleted > 0 THEN "claiming" ELSE "planning",
               processed |-> loop.processed, left |-> loop.left]
  BY <1>1, LoopIs DEF Pruned
<1> QED BY <1>2, <1>3, <1>4, <1>5, LoopIs, PhaseKeeps DEF Phases, LInv, LoopFits

\* The idle delay is no longer than any of what it is derived from.
LEMMA EarliestFits ==
  ASSUME NEW moments \in SUBSET Nat, moments # {}
  PROVE  Earliest(moments) \in moments /\ \A k \in moments : Earliest(moments) <= k
BY LeastMember DEF Earliest

LEMMA SleepKeeps ==
  ASSUME LInv, Plan \/ PlanFails
  PROVE  LInv'
<1> DEFINE delay == derive_worker_idle_delay
           moments == CheckWakeUps \cup DeliveryWakeUps \cup {pruneIn, MaxPoll}
<1>1. moments \in SUBSET Nat /\ MaxPoll \in moments /\ pruneIn \in moments
  BY LoopTyped DEF CheckWakeUps, DeliveryWakeUps, AtLeast
<1>2. /\ delay \in Nat /\ delay <= MaxPoll /\ delay <= pruneIn
      /\ deliveryIn # None => delay <= deliveryIn
      /\ active => delay <= AtLeast(dueIn, lease)
  <2>1. delay \in moments /\ \A k \in moments : delay <= k
    <3> HIDE DEF moments
    <3>1. delay = Earliest(moments)
      BY DEF derive_worker_idle_delay, moments
    <3> QED BY <1>1, <3>1, EarliestFits
  <2> QED BY <1>1, <2>1 DEF CheckWakeUps, DeliveryWakeUps
<1> HIDE DEF delay, moments
<1>3. PICK n \in {delay, MaxPoll}, surprised \in BOOLEAN :
        Sleep(n, surprised) /\ (surprised \/ n = delay)
  BY DEF Plan, PlanFails, delay
<1>4. /\ loop.phase = "planning" /\ UNCHANGED <<checkVars, stop, shared, pruneIn>>
      /\ loop' = [phase |-> "idle", processed |-> loop.processed, left |-> n]
      /\ watch' = [surprised |-> surprised, waited |-> 0]
  BY <1>3, LoopIs DEF Sleep
<1>5. WInv' /\ check'.phase = "none" /\ lease' = lease
  BY <1>4, OthersKeep DEF checkVars, LInv, LoopFits
<1>6. n \in Nat /\ n <= MaxPoll /\ n \in 0..AtLeast(MaxPoll, DeliveryTime)
  BY <1>2, LoopTyped DEF AtLeast
<1>7. LoopFits'
  BY <1>4, <1>5, <1>6, LoopIs DEF LInv, LoopFits, LoopRecord, Phases, shared
<1>8. IdleFits'
  BY <1>2, <1>3, <1>4, <1>5, <1>6, LoopTyped DEF IdleFits, WakesInTime, shared
<1>9. IdleSleepIsShort'
  BY <1>4, LoopTyped DEF IdleSleepIsShort
<1> QED BY <1>5, <1>7, <1>8, <1>9 DEF LInv

LEMMA WakeKeeps ==
  ASSUME LInv, Wake \/ Stop
  PROVE  LInv'
<1>1. loop.phase \in {"idle", "claiming"} /\ UNCHANGED <<checkVars, stop, shared, pruneIn, watch>>
  BY DEF Wake, Stop
<1>2. WInv' /\ check'.phase = "none"
  BY <1>1, OthersKeep DEF checkVars, LInv, LoopFits
<1>3. PICK phase \in {"claiming", "stopped"} :
        loop' = [phase |-> phase, processed |-> loop.processed, left |-> loop.left]
  BY LoopIs DEF Wake, Stop
<1> QED BY <1>1, <1>2, <1>3, LoopIs, PhaseKeeps DEF shared, Phases, LInv, LoopFits

-----------------------------------------------------------------------------
(* The environment and time.                                               *)

\* Whatever comes up during the sleep, the sleep was to end soon.
LEMMA SurpriseFits ==
  ASSUME LInv, Surprise, loop' = loop
  PROVE  /\ watch' \in [surprised : BOOLEAN, waited : Nat]
         /\ IdleFits' /\ IdleSleepIsShort'
<1>1. watch' = [surprised |-> watch.surprised \/ loop.phase = "idle", waited |-> watch.waited]
  BY LoopTyped DEF Surprise
<1>2. watch' \in [surprised : BOOLEAN, waited : Nat]
  BY <1>1, LoopTyped
<1>3. ASSUME loop.phase = "idle"
      PROVE  /\ watch'.surprised = TRUE /\ watch'.waited = watch.waited
             /\ watch.waited + loop.left <= MaxPoll
  <2>1. watch' = [surprised |-> TRUE, waited |-> watch.waited]
    BY <1>1, <1>3
  <2>2. CASE watch.surprised
    BY <1>3, <2>1, <2>2 DEF LInv, IdleFits
  <2>3. CASE ~watch.surprised
    BY <1>3, <2>1, <2>3, LoopTyped DEF LInv, IdleFits
  <2> QED BY <2>2, <2>3
<1>4. IdleFits'
  BY <1>3 DEF IdleFits
<1>5. IdleSleepIsShort'
  BY <1>1, LoopTyped DEF LInv, IdleSleepIsShort
<1> QED BY <1>2, <1>4, <1>5

LEMMA EnvironmentKeeps ==
  ASSUME LInv, Environment
  PROVE  LInv'
<1>1. ASSUME SetActive \/ EnqueueDelivery PROVE LInv'
  <2>1. WInv'
    BY <1>1, OthersKeep DEF SetActive, EnqueueDelivery, checkVars, LInv
  <2>2. IdleFits' /\ IdleSleepIsShort' /\ watch' \in [surprised : BOOLEAN, waited : Nat]
    BY <1>1, SurpriseFits DEF SetActive, EnqueueDelivery
  <2>3. UNCHANGED <<loop, stop, dueIn, pruneIn, old, check>>
    BY <1>1 DEF SetActive, EnqueueDelivery, checkVars
  <2>4. active' \in BOOLEAN
    BY <1>1 DEF SetActive, EnqueueDelivery, LInv, LoopFits
  <2>5. deliveryIn' \in 0..Backoff \cup {None}
    <3>1. CASE SetActive
      BY <3>1 DEF SetActive, LInv, LoopFits
    <3>2. CASE EnqueueDelivery
      <4>1. deliveryIn' = 0
        BY <3>2 DEF EnqueueDelivery
      <4> QED BY <4>1, LoopTyped
    <3> QED BY <1>1, <3>1, <3>2
  <2>6. LoopFits'
    BY <2>2, <2>3, <2>4, <2>5 DEF LInv, LoopFits
  <2> QED BY <2>1, <2>2, <2>6 DEF LInv
<1>2. ASSUME OtherEnds PROVE LInv'
  <2>1. WInv'
    BY <1>2, OthersKeep DEF OtherEnds, LInv
  <2>2. IdleFits' /\ IdleSleepIsShort' /\ watch' \in [surprised : BOOLEAN, waited : Nat]
    BY <1>2, SurpriseFits DEF OtherEnds
  <2>3. LoopFits'
    BY <1>2, <2>2, LoopTyped DEF OtherEnds, LInv, LoopFits
  <2> QED BY <2>1, <2>2, <2>3 DEF LInv
<1>3. ASSUME OtherClaims PROVE LInv'
  <2>1. WInv'
    BY <1>3, OthersKeep DEF OtherClaims, Claimable, LInv
  <2>2. UNCHANGED loopVars /\ check' = check /\ dueIn = 0 /\ lease = 0 /\ active /\ lease' = LeaseSeconds
    BY <1>3 DEF OtherClaims, Claimable
  <2>3. LoopFits' /\ IdleSleepIsShort'
    BY <2>2 DEF loopVars, LInv, LoopFits, IdleSleepIsShort
  <2>4. AtLeast(dueIn', lease') >= 0 /\ AtLeast(dueIn, lease) = 0
    BY <2>2, ExecutionAssumption DEF loopVars, AtLeast
  <2>5. IdleFits'
    BY <2>2, <2>4, LoopTyped, ExecutionAssumption DEF loopVars, LInv, IdleFits, WakesInTime, AtLeast
  <2> QED BY <2>1, <2>3, <2>5 DEF LInv
<1>4. ASSUME OtherDelivers PROVE LInv'
  <2>1. WInv' /\ lease' = lease /\ check' = check
    BY <1>4, OthersKeep DEF OtherDelivers, checkVars, LInv
  <2>2. deliveryIn = 0 /\ deliveryIn' \in {None, Backoff}
        /\ UNCHANGED <<loop, stop, active, dueIn, pruneIn, old, watch>>
    BY <1>4 DEF OtherDelivers
  <2>3. LoopFits' /\ IdleSleepIsShort'
    BY <2>1, <2>2, LoopTyped DEF LInv, LoopFits, IdleSleepIsShort
  <2>4. IdleFits'
    BY <2>1, <2>2, LoopTyped DEF LInv, IdleFits, WakesInTime
  <2> QED BY <2>1, <2>3, <2>4 DEF LInv
<1>5. ASSUME RowAges \/ OtherPrunes \/ RequestStop PROVE LInv'
  <2>1. WInv' /\ lease' = lease /\ check' = check
    BY <1>5, OthersKeep DEF RowAges, OtherPrunes, RequestStop, checkVars, LInv
  <2>2. /\ UNCHANGED <<loop, active, dueIn, deliveryIn, pruneIn, watch>>
        /\ old' \in 0..MaxOld /\ stop' \in BOOLEAN
    <3>1. CASE RowAges
      BY <3>1, LoopTyped DEF RowAges, LInv, LoopFits
    <3>2. CASE OtherPrunes
      BY <3>2, BatchFits, LoopTyped DEF OtherPrunes, LInv, LoopFits
    <3>3. CASE RequestStop
      BY <3>3 DEF RequestStop, LInv, LoopFits
    <3> QED BY <1>5, <3>1, <3>2, <3>3
  <2> QED BY <2>1, <2>2 DEF LInv, LoopFits, IdleFits, WakesInTime, IdleSleepIsShort
<1> QED BY <1>1, <1>2, <1>3, <1>4, <1>5 DEF Environment

LEMMA TickKeeps ==
  ASSUME LInv, Tick
  PROVE  LInv'
<1>1. WInv' /\ lease' = (IF lease > 0 THEN lease - 1 ELSE 0)
  BY CheckTickKeeps DEF Tick, CheckTick, LInv
<1>2. /\ dueIn' = Later(dueIn) /\ pruneIn' = Later(pruneIn)
      /\ deliveryIn' = IF deliveryIn = None THEN None ELSE Later(deliveryIn)
      /\ UNCHANGED <<stop, active, old>>
      /\ check.phase = "none" => check'.phase = "none"
  BY DEF Tick, CheckTick
<1> DEFINE left == Later(loop.left)
           waited == IF loop.phase = "idle" /\ WorkIsReady THEN watch.waited + 1 ELSE watch.waited
<1>3. /\ loop' = [phase |-> loop.phase, processed |-> loop.processed, left |-> left]
      /\ watch' = [surprised |-> watch.surprised, waited |-> waited]
  BY LoopIs, LoopTyped DEF Tick
<1>4. left \in Nat /\ left <= loop.left /\ (loop.left > 0 => left = loop.left - 1)
  BY LoopTyped DEF Later
<1>5. waited \in Nat
  BY LoopTyped
<1>6. LoopFits'
  <2>1. left \in 0..AtLeast(MaxPoll, DeliveryTime)
    BY <1>4, LoopIs, LoopTyped DEF AtLeast
  <2>2. dueIn' \in 0..CheckInterval /\ pruneIn' \in 0..PruneInterval /\ deliveryIn' \in 0..Backoff \cup {None}
    BY <1>2, LoopTyped DEF Later, LInv, LoopFits
  <2> HIDE DEF left, waited
  <2>3. loop' \in LoopRecord /\ watch' \in [surprised : BOOLEAN, waited : Nat] /\ loop'.phase = loop.phase
    BY <1>3, <1>5, <2>1, LoopIs, LoopTyped DEF LoopRecord
  <2> QED BY <1>2, <2>2, <2>3 DEF LInv, LoopFits
<1>7. CASE loop.phase # "idle"
  <2>1. waited = watch.waited
    BY <1>7
  <2>2. IdleFits' /\ IdleSleepIsShort'
    BY <1>3, <1>7, <2>1 DEF LInv, IdleFits, IdleSleepIsShort
  <2> QED BY <1>1, <1>6, <2>2 DEF LInv
<1>8. CASE loop.phase = "idle"
  <2>1. loop.left > 0 /\ left = loop.left - 1
    BY <1>4, <1>8 DEF Tick
  <2>2. CASE watch.surprised
    <3>1. watch.waited + loop.left <= MaxPoll /\ waited <= watch.waited + 1
      BY <1>8, <2>2, LoopTyped DEF LInv, IdleFits
    <3> HIDE DEF left, waited
    <3>2. waited + left <= MaxPoll /\ waited <= MaxPoll
      BY <1>4, <1>5, <2>1, <3>1, LoopTyped
    <3> QED BY <1>1, <1>3, <1>6, <2>2, <3>2 DEF LInv, IdleFits, IdleSleepIsShort
  <2>3. CASE ~watch.surprised
    <3>1. watch.waited = 0 /\ loop.left <= MaxPoll /\ WakesInTime
      BY <1>8, <2>3 DEF LInv, IdleFits
    <3>2. ~WorkIsReady
      BY <2>1, <3>1, LoopTyped DEF WorkIsReady, Claimable, WakesInTime, AtLeast
    <3>3. waited = 0
      BY <3>1, <3>2
    <3>4. left <= pruneIn' /\ (deliveryIn' # None => left <= deliveryIn')
          /\ (active' => left <= AtLeast(dueIn', lease'))
      BY <1>1, <1>2, <2>1, <3>1, LoopTyped DEF WakesInTime, Later, AtLeast
    <3>5. left <= MaxPoll
      BY <1>4, <3>1, LoopTyped
    <3> HIDE DEF left, waited
    <3> QED BY <1>1, <1>3, <1>6, <2>3, <3>3, <3>4, <3>5 DEF LInv, IdleFits, WakesInTime, IdleSleepIsShort
  <2> QED BY <2>2, <2>3
<1> QED BY <1>7, <1>8

-----------------------------------------------------------------------------
(* The theorems.                                                           *)

LEMMA InitFits == Init => LInv
<1> SUFFICES ASSUME Init PROVE LInv
  OBVIOUS
<1>1. WInv
  <2>1. check = NoCheck /\ beat = NoBeat /\ lease = 0 /\ owner = "none" /\ LeaseSeconds \in Nat
    BY ExecutionAssumption DEF Init, CheckInit
  <2> QED BY <2>1, NoneFits DEF WInv, CheckFits, BeatFits, LeaseFits, LeaseKept, Checking
<1>2. 0 \in 0..AtLeast(MaxPoll, DeliveryTime) /\ MaxPoll \in Nat /\ CheckInterval \in Nat /\ PruneInterval \in Nat
  BY LoopAssumption DEF AtLeast
<1>3. LoopFits
  <2>1. loop \in LoopRecord /\ loop.phase = "claiming"
    BY <1>2 DEF Init, LoopRecord, Phases
  <2>2. watch \in [surprised : BOOLEAN, waited : Nat]
    BY DEF Init, NoWait
  <2>3. dueIn \in 0..CheckInterval /\ pruneIn \in 0..PruneInterval
    BY <1>2 DEF Init
  <2>4. deliveryIn \in 0..Backoff \cup {None} /\ old \in 0..MaxOld
    BY DEF Init
  <2>5. check.phase = "none"
    BY DEF Init, CheckInit, NoCheck
  <2> QED BY <2>1, <2>2, <2>3, <2>4, <2>5 DEF Init, LoopFits
<1> QED BY <1>1, <1>2, <1>3 DEF LInv, Init, IdleFits, IdleSleepIsShort, NoWait

LEMMA NextKeeps == LInv /\ [Next]_vars => LInv'
<1> SUFFICES ASSUME LInv, [Next]_vars PROVE LInv'
  OBVIOUS
<1>1. CASE WorkerStep
  BY <1>1, ClaimKeeps, ClaimNothingKeeps, CheckStepKeeps, ChecksEndKeeps, DeliverKeeps, PruneKeeps,
     SleepKeeps, WakeKeeps DEF WorkerStep
<1>2. CASE UNCHANGED vars
  <2>1. WInv'
    BY <1>2, OthersKeep DEF vars, checkVars, LInv
  <2> QED BY <1>2, <2>1 DEF vars, checkVars, loopVars, LInv, LoopFits, IdleFits, WakesInTime, IdleSleepIsShort
<1> QED BY <1>1, <1>2, EnvironmentKeeps, TickKeeps DEF Next

LEMMA LoopInvariant == Spec => []LInv
BY InitFits, NextKeeps, PTL DEF Spec

\* Every variable keeps its type; in particular no check makes more attempts
\* than its monitor's policy allows, and a check exists in the checking phase only.
THEOREM WorkerTyped == Spec => []TypeOK
<1>1. ASSUME LInv PROVE TypeOK
  <2>1. WInv /\ LoopFits
    BY <1>1 DEF LInv
  <2>2. /\ check.phase \in {"none", "starting", "attempt", "waiting", "saving"}
        /\ beat.phase \in {"off", "sleeping", "calling"}
        /\ beat.failing \in 0..MaxMisses /\ beat.missed \in 0..MaxMisses
    BY <2>1, Typed DEF CheckRecord, BeatRecord
  <2>3. /\ check.phase # "none" =>
              check.mon \in Monitors /\ check.attempt <= resolve_monitor_check_policy(check.mon).max_attempts
        /\ check.phase = "saving" => <<check.mon, check.seen>> \in MayObserve
        /\ check.phase = "none" => beat.phase = "off"
    BY <2>1 DEF WInv, CheckFits, BeatFits, P
  <2>4. /\ lease \in Nat /\ (lease > LeaseSeconds => \E m \in Monitors : lease <= initial_lease(m))
        /\ owner \in {"none", "self", "other"}
    BY <2>1 DEF WInv, LeaseFits
  <2> QED BY <2>1, <2>2, <2>3, <2>4, Typed DEF LoopFits, LoopRecord, TypeOK
<1> QED BY <1>1, LoopInvariant, PTL

\* For every policy that the configuration and a monitor's overrides resolve
\* to, a lease is at least as long as the check it is for:
\* with renewals that fail one at a time, and without any renewal if attempts
\* keep to their timeout (derive_site_monitor_lease_plan).
THEOREM LeaseOutlasts == Spec => []LeaseOutlastsCheck
<1>1. LInv => LeaseOutlastsCheck
  BY LeaseLasts DEF LInv, LeaseOutlastsCheck
<1> QED BY <1>1, LoopInvariant, PTL

\* The worker never sleeps over work it could have planned for, and over no
\* other for longer than the longest poll interval (derive_worker_idle_delay).
THEOREM IdleSleepShort == Spec => []IdleSleepIsShort
<1>1. LInv => IdleSleepIsShort
  BY DEF LInv
<1> QED BY <1>1, LoopInvariant, PTL
=============================================================================
