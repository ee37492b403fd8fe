---------------------------- MODULE SiteMonitors ----------------------------
(***************************************************************************)
(* The part of the PostgreSQL schema that API handlers and workers share   *)
(* (sites, site_monitors, site_monitor_incidents) and the SQL statements   *)
(* of src/domain/{sites,site_monitors,site_monitor_incidents}/             *)
(* repository.rs that change it.  Every operator below that primes a       *)
(* variable is one statement; the modules SiteWorker and MonitoringApi     *)
(* build their actions from them.                                          *)
(*                                                                         *)
(* Time is abstracted: a row's lease is "null", "live" (check_lease_until  *)
(* in the future) or "expired", and `due' says whether                     *)
(* check_interval_seconds have passed since last_checked_at.               *)
(***************************************************************************)
EXTENDS Naturals, FiniteSets

CONSTANTS
    Sites,       \* ids of sites
    Monitors,    \* ids of site monitors
    Kinds,       \* monitor types: http, ssl, heartbeat, tcp, dns
    SiteOf,      \* the site a monitor belongs to
    KindOf,      \* the type of a monitor
    Workers,     \* ids of worker processes, never reused
    NoWorker,    \* check_claimed_by IS NULL
    ClaimLimit   \* site_monitor_claim_limit(config)

ASSUME RegistryAssumption ==
    /\ SiteOf \in [Monitors -> Sites]
    /\ KindOf \in [Monitors -> Kinds]

ASSUME WorkersAssumption == NoWorker \notin Workers

ASSUME ClaimLimitAssumption == ClaimLimit \in Nat \ {0}

VARIABLES
    siteStatus,  \* per site: does the row exist, sites.is_active
    status,      \* per monitor: does the row exist, site_monitors.is_active
    last,        \* last_is_success: "none" (NULL), "up", "down"
    due,         \* the check interval has elapsed (or last_checked_at is NULL)
    older,       \* pairs <<m, n>>: m precedes n in ORDER BY last_checked_at, id
    claimedBy,   \* check_claimed_by
    lease,       \* check_lease_until
    incident,    \* status or resolved_reason of the monitor's latest incident
    notified     \* the last two notification events enqueued for the monitor

registry == <<siteStatus, status>>
schedule == <<due, older>>
claims   == <<claimedBy, lease>>
health   == <<last, incident, notified>>
dbVars   == <<siteStatus, status, last, due, older, claimedBy, lease,
              incident, notified>>

RowStatus       == {"absent", "active", "inactive", "deleted"}
Health          == {"none", "up", "down"}
LeaseState      == {"null", "live", "expired"}
OperatorReasons == {"monitoring_disabled", "site_deactivated"}
IncidentState   == {"none", "open", "recovered"} \cup OperatorReasons
Event           == {"none", "failure", "recovery"}

DbTypeOK ==
    /\ siteStatus \in [Sites -> RowStatus]
    /\ status \in [Monitors -> RowStatus]
    /\ last \in [Monitors -> Health]
    /\ due \in [Monitors -> BOOLEAN]
    /\ older \in SUBSET (Monitors \X Monitors)
    /\ claimedBy \in [Monitors -> Workers \cup {NoWorker}]
    /\ lease \in [Monitors -> LeaseState]
    /\ incident \in [Monitors -> IncidentState]
    /\ notified \in [Monitors -> Event \X Event]

DbInit ==
    /\ siteStatus = [s \in Sites |-> "absent"]
    /\ status = [m \in Monitors |-> "absent"]
    /\ last = [m \in Monitors |-> "none"]
    /\ due = [m \in Monitors |-> FALSE]
    /\ older = {}
    /\ claimedBy = [m \in Monitors |-> NoWorker]
    /\ lease = [m \in Monitors |-> "null"]
    /\ incident = [m \in Monitors |-> "none"]
    /\ notified = [m \in Monitors |-> <<"none", "none">>]

-----------------------------------------------------------------------------
(* site_monitors: rows, claims and the schedule.                           *)

Exists(m) == status[m] \in {"active", "inactive"}

MonitorsOf(s) == {m \in Monitors : SiteOf[m] = s}

\* The WHERE clause of claim_site_monitors_due_for_check.
Claimable ==
    {m \in Monitors : /\ status[m] = "active"
                      /\ siteStatus[SiteOf[m]] = "active"
                      /\ due[m]
                      /\ lease[m] # "live"}

\* Mutation of Batch: ORDER BY id.
BatchById(C) == IF C = {} THEN {} ELSE {CHOOSE m \in C : TRUE}

\* ORDER BY last_checked_at NULLS FIRST, id LIMIT ClaimLimit, over the rows C
\* that FOR UPDATE SKIP LOCKED leaves.
Batch(C) ==
    {m \in C : Cardinality({n \in C : <<n, m>> \in older}) < ClaimLimit}

\* UPDATE ... SET check_claimed_by, check_lease_until of the rows in S.
ClaimRows(w, S) ==
    /\ claimedBy' = [m \in Monitors |-> IF m \in S THEN w ELSE claimedBy[m]]
    /\ lease' = [m \in Monitors |-> IF m \in S THEN "live" ELSE lease[m]]

\* extend_site_monitor_claim: zero rows when the claim has been lost.
ExtendClaim(w, m) ==
    lease' = IF claimedBy[m] = w THEN [lease EXCEPT ![m] = "live"] ELSE lease

ClearClaim(m) ==
    /\ claimedBy' = [claimedBy EXCEPT ![m] = NoWorker]
    /\ lease' = [lease EXCEPT ![m] = "null"]

\* release_site_monitor_claim: zero rows when the claim has been lost.
ReleaseClaim(w, m) ==
    IF claimedBy[m] = w THEN ClearClaim(m) ELSE UNCHANGED claims

\* update_site_monitor_last_check, where check_claimed_by is the caller.  Rows
\* are ordered by commit here, by the start of the transaction (NOW()) there:
\* saves that overlap may end up in the other order.
UpdateLastCheck(m, result) ==
    /\ last' = [last EXCEPT ![m] = result]
    /\ due' = [due EXCEPT ![m] = FALSE]
    /\ older' = {p \in older : p[1] # m}
                  \cup {<<n, m>> : n \in {k \in Monitors \ {m} : Exists(k)}}
    /\ ClearClaim(m)

\* last_checked_at IS NULL: a heartbeat is inserted with NOW().
NeverChecked == {m \in Monitors : Exists(m) /\ last[m] = "none" /\ KindOf[m] # "heartbeat"}

\* INSERT INTO site_monitors: a row without last_checked_at is due, and ordered
\* before every row that has one and after the older rows that have none.
InsertMonitor(m, on) ==
    LET isNew == KindOf[m] # "heartbeat" IN
    /\ status' = [status EXCEPT ![m] = IF on THEN "active" ELSE "inactive"]
    /\ due' = [due EXCEPT ![m] = isNew]
    /\ older' = older
          \cup {<<m, n>> : n \in {k \in Monitors : isNew /\ Exists(k) /\ k \notin NeverChecked}}
          \cup {<<n, m>> : n \in {k \in Monitors : Exists(k) /\ (isNew => k \in NeverChecked)}}

\* SET is_active of the rows in S.
SetActive(S, on) ==
    status' = [m \in Monitors |-> IF m \in S THEN (IF on THEN "active" ELSE "inactive")
                                             ELSE status[m]]

-----------------------------------------------------------------------------
(* site_monitor_incidents: at most one open incident per monitor, enforced *)
(* by a partial unique index; `incident' is the latest one.                *)

\* resolve_open_incidents_for_monitor / _for_site: WHERE status = 'open'.
ResolveOpen(S, reason) ==
    incident' = [m \in Monitors |-> IF m \in S /\ incident[m] = "open"
                                    THEN reason ELSE incident[m]]

\* DELETE FROM sites: the foreign keys cascade to monitors and incidents.
DeleteRows(s) ==
    LET gone == MonitorsOf(s)
        Reset(f, v) == [m \in Monitors |-> IF m \in gone THEN v ELSE f[m]]
    IN  /\ siteStatus' = [siteStatus EXCEPT ![s] = "deleted"]
        /\ status' = Reset(status, "deleted")
        /\ last' = Reset(last, "none")
        /\ due' = Reset(due, FALSE)
        /\ claimedBy' = Reset(claimedBy, NoWorker)
        /\ lease' = Reset(lease, "null")
        /\ incident' = Reset(incident, "none")
        /\ notified' = Reset(notified, <<"none", "none">>)
        /\ older' = {p \in older : p[1] \notin gone /\ p[2] \notin gone}

-----------------------------------------------------------------------------
(* The passage of time.                                                    *)

LeaseElapses(m) ==
    /\ lease[m] = "live"
    /\ lease' = [lease EXCEPT ![m] = "expired"]
    /\ UNCHANGED <<registry, schedule, health, claimedBy>>

IntervalElapses(m) ==
    /\ Exists(m)
    /\ ~due[m]
    /\ due' = [due EXCEPT ![m] = TRUE]
    /\ UNCHANGED <<registry, older, claims, health>>
=============================================================================
