--------------------------- MODULE MonitoringApi ---------------------------
(***************************************************************************)
(* The API handlers of src/api/routes/sites that change monitored state.   *)
(* They run without a transaction: one statement changes is_active, and a  *)
(* second one, which may come much later or not at all, resolves the open  *)
(* incidents.  `resolving' holds the handlers that are between the two.    *)
(***************************************************************************)
EXTENDS SiteWorker

CONSTANT MaxApiCalls  \* bound on the handlers between their two statements

ASSUME ApiAssumption == MaxApiCalls \in Nat

VARIABLE resolving

\* The second statement: which rows it covers and the reason it records.
\* `by' is the handler: a monitor, a kind of a site, or a whole site.
ResolveCall ==
    [by : {"monitor"}, of : Monitors, kinds : {{}},
     reason : {"monitoring_disabled"}]
      \cup [by : {"kind"}, of : Sites, kinds : {{k} : k \in Kinds},
            reason : {"monitoring_disabled"}]
      \cup [by : {"site"}, of : Sites, kinds : {Kinds},
            reason : {"site_deactivated"}]

ApiTypeOK == resolving \in SUBSET ResolveCall

ApiInit == resolving = {}

MonitorCall(m) == [by |-> "monitor", of |-> m, kinds |-> {},
                   reason |-> "monitoring_disabled"]
KindCall(s, k) == [by |-> "kind", of |-> s, kinds |-> {k},
                   reason |-> "monitoring_disabled"]
SiteCall(s)    == [by |-> "site", of |-> s, kinds |-> Kinds,
                   reason |-> "site_deactivated"]

\* The rows of a call's WHERE clause: disabling one kind of monitor of a site
\* goes through resolve_open_incidents_for_site, which names no kind.
Covered(c) == IF c.by = "monitor" THEN {c.of} ELSE MonitorsOf(c.of)

Schedules(c) ==
    /\ Cardinality(resolving) < MaxApiCalls
    /\ resolving' = resolving \cup {c}

-----------------------------------------------------------------------------
CreateSite(s) ==
    /\ siteStatus[s] = "absent"
    /\ siteStatus' = [siteStatus EXCEPT ![s] = "active"]
    /\ UNCHANGED <<status, schedule, claims, health, workerVars, resolving>>

\* update_site
UpdateSite(s, on) ==
    /\ siteStatus[s] \in {"active", "inactive"}
    /\ siteStatus' = [siteStatus EXCEPT ![s] = IF on THEN "active" ELSE "inactive"]
    /\ IF on THEN UNCHANGED resolving ELSE Schedules(SiteCall(s))
    /\ UNCHANGED <<status, schedule, claims, health, workerVars>>

\* delete_site waits for the row locks of save transactions.
DeleteSite(s) ==
    /\ siteStatus[s] \in {"active", "inactive"}
    /\ MonitorsOf(s) \cap Locked = {}
    /\ DeleteRows(s)
    /\ UNCHANGED <<workerVars, resolving>>

\* The upsert handlers (and create_heartbeat) inserting a new row.
CreateMonitor(m, on) ==
    /\ status[m] = "absent"
    /\ siteStatus[SiteOf[m]] \in {"active", "inactive"}
    /\ InsertMonitor(m, on)
    /\ IF on THEN UNCHANGED resolving ELSE Schedules(MonitorCall(m))
    /\ UNCHANGED <<siteStatus, claims, health, workerVars>>

\* The upsert handlers finding the row, and the update handlers.  A changed
\* check_interval_seconds may make a monitor due or not due, unless its
\* last_checked_at is NULL.
UpdateMonitor(m, on, isDue) ==
    /\ Exists(m)
    /\ m \in NeverChecked => isDue
    /\ SetActive({m}, on)
    /\ due' = [due EXCEPT ![m] = isDue]
    /\ IF on THEN UNCHANGED resolving ELSE Schedules(MonitorCall(m))
    /\ UNCHANGED <<siteStatus, older, claims, health, workerVars>>

\* disable_*_site_monitor_by_id: 404 unless the row is active.
DisableMonitor(m) ==
    /\ status[m] = "active"
    /\ SetActive({m}, FALSE)
    /\ Schedules(MonitorCall(m))
    /\ UNCHANGED <<siteStatus, schedule, claims, health, workerVars>>

PauseMonitor(m) ==
    /\ Exists(m)
    /\ SetActive({m}, FALSE)
    /\ Schedules(MonitorCall(m))
    /\ UNCHANGED <<siteStatus, schedule, claims, health, workerVars>>

ResumeMonitor(m) ==
    /\ Exists(m)
    /\ SetActive({m}, TRUE)
    /\ UNCHANGED <<siteStatus, schedule, claims, health, workerVars, resolving>>

\* disable_*_site_monitor: all active monitors of one kind, 404 if there are
\* none.
DisableKind(s, k) ==
    LET S == {m \in MonitorsOf(s) : KindOf[m] = k /\ status[m] = "active"}
    IN  /\ S # {}
        /\ SetActive(S, FALSE)
        /\ Schedules(KindCall(s, k))
        /\ UNCHANGED <<siteStatus, schedule, claims, health, workerVars>>

\* The second statement of a handler.
ResolveIncidents(c) ==
    /\ c \in resolving
    /\ resolving' = resolving \ {c}
    /\ ResolveOpen(Covered(c), c.reason)
    /\ UNCHANGED <<registry, schedule, claims, last, notified, workerVars>>

\* The second statement fails or the API process dies before it.
ResolveLost(c) ==
    /\ Faults
    /\ c \in resolving
    /\ resolving' = resolving \ {c}
    /\ UNCHANGED <<dbVars, workerVars>>

ApiStep ==
    \/ \E s \in Sites :
          \/ CreateSite(s)
          \/ DeleteSite(s)
          \/ \E on \in BOOLEAN : UpdateSite(s, on)
          \/ \E k \in Kinds : DisableKind(s, k)
    \/ \E m \in Monitors :
          \/ DisableMonitor(m)
          \/ PauseMonitor(m)
          \/ ResumeMonitor(m)
          \/ \E on \in BOOLEAN : CreateMonitor(m, on)
          \/ \E on, isDue \in BOOLEAN : UpdateMonitor(m, on, isDue)
    \/ \E c \in resolving : ResolveIncidents(c) \/ ResolveLost(c)
=============================================================================
