----------------------- MODULE NotificationDeliveries -----------------------
(***************************************************************************)
(* The tables notification_channels, site_notification_channel_overrides   *)
(* and notification_deliveries, and the SQL statements of their            *)
(* repository.rs that change them.  Every operator that primes a variable  *)
(* is one statement; Notifications builds its actions from them.           *)
(*                                                                         *)
(* A delivery is named by what its unique constraint names: the check that *)
(* triggered it (which fixes the event type) and the channel.  Time is     *)
(* abstracted as in SiteMonitors: a lease is "null", "live" or "expired",  *)
(* next_attempt_at is "null", "future" or "now" (not after NOW()).         *)
(***************************************************************************)
EXTENDS Naturals, FiniteSets

CONSTANTS
    Checks,      \* ids of saved checks that announce a failure or a recovery
    Channels,    \* ids of notification channels
    Sites,       \* ids of sites
    SiteOf,      \* the site a check belongs to
    Workers,     \* ids of worker processes, never reused
    NoWorker,    \* claimed_by IS NULL
    ClaimLimit,  \* notification_delivery_claim_limit(config)
    MaxAttempts  \* config.notification_max_attempts

ASSUME ChecksAssumption == SiteOf \in [Checks -> Sites]

ASSUME ClaimersAssumption == NoWorker \notin Workers

ASSUME LimitsAssumption == ClaimLimit \in Nat \ {0} /\ MaxAttempts \in Nat \ {0}

VARIABLES
    channel,      \* does the row exist, notification_channels.is_active
    override,     \* site override of is_active: "none" (no row, or NULL), "on", "off"
    status,       \* per delivery: does the row exist, its status
    attempts,     \* attempts
    nextAttempt,  \* next_attempt_at
    claimedBy,    \* claimed_by
    lease         \* lease_until

channels == <<channel, override>>
outcome  == <<status, attempts, nextAttempt>>
claims   == <<claimedBy, lease>>
dbVars   == <<channel, override, status, attempts, nextAttempt, claimedBy, lease>>

Deliveries == Checks \X Channels

DbTypeOK ==
    /\ channel \in [Channels -> {"absent", "active", "inactive", "deleted"}]
    /\ override \in [Sites \X Channels -> {"none", "on", "off"}]
    /\ status \in [Deliveries -> {"absent", "pending", "failed", "delivered", "deleted"}]
    /\ attempts \in [Deliveries -> 0..MaxAttempts]
    /\ nextAttempt \in [Deliveries -> {"null", "future", "now"}]
    /\ claimedBy \in [Deliveries -> Workers \cup {NoWorker}]
    /\ lease \in [Deliveries -> {"null", "live", "expired"}]

DbInit ==
    /\ channel = [c \in Channels |-> "absent"]
    /\ override = [p \in Sites \X Channels |-> "none"]
    /\ status = [d \in Deliveries |-> "absent"]
    /\ attempts = [d \in Deliveries |-> 0]
    /\ nextAttempt = [d \in Deliveries |-> "null"]
    /\ claimedBy = [d \in Deliveries |-> NoWorker]
    /\ lease = [d \in Deliveries |-> "null"]

-----------------------------------------------------------------------------
ChannelExists(c) == channel[c] \in {"active", "inactive"}

\* list_effective_by_site_id: COALESCE(override.is_active, channel.is_active).
EffectivelyActive(s, c) ==
    /\ ChannelExists(c)
    /\ CASE override[<<s, c>>] = "on"  -> TRUE
         [] override[<<s, c>>] = "off" -> FALSE
         [] OTHER -> channel[c] = "active"

\* What is left to be attempted: the status part of claim_due_deliveries.
Waiting(d) ==
    \/ status[d] = "pending"
    \/ status[d] = "failed" /\ nextAttempt[d] # "null"

\* Mutation of Claimable: only deliveries that have not been attempted.
ClaimableOnce ==
    {d \in Deliveries : /\ channel[d[2]] = "active"
                        /\ status[d] = "pending"
                        /\ nextAttempt[d] = "now"
                        /\ lease[d] # "live"}

\* Mutation of Claimable: leases are ignored.
ClaimableUnderLease ==
    {d \in Deliveries : /\ channel[d[2]] = "active"
                        /\ Waiting(d)
                        /\ nextAttempt[d] = "now"}

\* The WHERE clause of claim_due_deliveries.
Claimable ==
    {d \in Deliveries : /\ channel[d[2]] = "active"
                        /\ Waiting(d)
                        /\ nextAttempt[d] = "now"
                        /\ lease[d] # "live"}

\* ORDER BY next_attempt_at, id LIMIT ClaimLimit, in any order: a delivery is
\* attempted at most MaxAttempts times, so the order starves none.
Batches ==
    {S \in SUBSET Claimable :
        /\ S # {}
        /\ Cardinality(S) <= ClaimLimit
        /\ Cardinality(S) = ClaimLimit \/ S = Claimable}

\* UPDATE ... SET claimed_by, lease_until of the rows in S.
ClaimRows(w, S) ==
    /\ claimedBy' = [d \in Deliveries |-> IF d \in S THEN w ELSE claimedBy[d]]
    /\ lease' = [d \in Deliveries |-> IF d \in S THEN "live" ELSE lease[d]]

\* Each of the next four is a statement WHERE id = d AND claimed_by = w.
Owns(w, d) == claimedBy[d] = w

\* extend_delivery_claim
ExtendClaim(w, d) ==
    lease' = IF Owns(w, d) THEN [lease EXCEPT ![d] = "live"] ELSE lease

\* Mutation of ClearClaim: claimed_by is not reset.
KeepsClaimedBy(d) == lease' = [lease EXCEPT ![d] = "null"] /\ UNCHANGED claimedBy

ClearClaim(d) ==
    /\ claimedBy' = [claimedBy EXCEPT ![d] = NoWorker]
    /\ lease' = [lease EXCEPT ![d] = "null"]

\* release_delivery_claim
ReleaseClaim(w, d) ==
    IF Owns(w, d) THEN ClearClaim(d) ELSE UNCHANGED claims

\* mark_delivered
SetDelivered(w, d) ==
    IF Owns(w, d)
    THEN /\ status' = [status EXCEPT ![d] = "delivered"]
         /\ attempts' = [attempts EXCEPT ![d] = @ + 1]
         /\ ClearClaim(d)
         /\ UNCHANGED nextAttempt
    ELSE UNCHANGED <<outcome, claims>>

\* Mutation of SetFailed: UPDATE without AND claimed_by.
FailsAnyRow(w, d, next) ==
    /\ status' = [status EXCEPT ![d] = "failed"]
    /\ attempts' = [attempts EXCEPT ![d] = IF @ < MaxAttempts THEN @ + 1 ELSE @]
    /\ nextAttempt' = [nextAttempt EXCEPT ![d] = next]
    /\ ClearClaim(d)

\* mark_failed
SetFailed(w, d, next) ==
    IF Owns(w, d)
    THEN /\ status' = [status EXCEPT ![d] = "failed"]
         /\ attempts' = [attempts EXCEPT ![d] = @ + 1]
         /\ nextAttempt' = [nextAttempt EXCEPT ![d] = next]
         /\ ClearClaim(d)
    ELSE UNCHANGED <<outcome, claims>>

\* enqueue_deliveries: status, attempts and next_attempt_at take the defaults
\* of the table; the unique constraint is not met by a new check.
InsertDeliveries(D) ==
    /\ status' = [d \in Deliveries |-> IF d \in D THEN "pending" ELSE status[d]]
    /\ nextAttempt' = [d \in Deliveries |-> IF d \in D THEN "now" ELSE nextAttempt[d]]

\* ON DELETE CASCADE from the channel or the check of the deliveries D.
DeleteRows(D) ==
    LET Reset(f, v) == [d \in Deliveries |-> IF d \in D THEN v ELSE f[d]]
    IN  /\ status' = [d \in Deliveries |->
                        IF d \in D /\ status[d] # "absent" THEN "deleted" ELSE status[d]]
        /\ attempts' = Reset(attempts, 0)
        /\ nextAttempt' = Reset(nextAttempt, "null")
        /\ claimedBy' = Reset(claimedBy, NoWorker)
        /\ lease' = Reset(lease, "null")

-----------------------------------------------------------------------------
(* The passage of time.                                                    *)

LeaseElapses(d) ==
    /\ lease[d] = "live"
    /\ lease' = [lease EXCEPT ![d] = "expired"]
    /\ UNCHANGED <<channels, outcome, claimedBy>>

RetryDelayElapses(d) ==
    /\ nextAttempt[d] = "future"
    /\ nextAttempt' = [nextAttempt EXCEPT ![d] = "now"]
    /\ UNCHANGED <<channels, status, attempts, claims>>
=============================================================================
