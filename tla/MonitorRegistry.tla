--------------------------- MODULE MonitorRegistry ---------------------------
(***************************************************************************)
(* The handlers that configure the ssl, tcp, dns and heartbeat monitors of *)
(* a site (src/api/routes/sites/monitors), statement by statement, several *)
(* requests at a time.  The four files differ in what identifies a monitor *)
(* on its site: a URL, a host and port, a host name and record type, or    *)
(* nothing: a heartbeat monitor is looked up by its site, and its target   *)
(* is the ping path of a token of its own.                                 *)
(*                                                                         *)
(* A statement is atomic, a handler of several is not: between two of its  *)
(* statements other requests and the workers' checks go on, and each       *)
(* statement after the first may fail when the first has been committed.   *)
(* Rows are not deleted here; the deletion of a site is in MonitoringApi.  *)
(***************************************************************************)

CONSTANTS
    Sites,      \* sites that exist
    PathSites,  \* ids of sites that requests name
    Monitors,   \* bound: ids of monitors
    Targets,    \* what identifies a monitor other than a heartbeat's
    Requests,   \* bound: handlers that run at a time
    None

UrlKinds == {"ssl", "tcp", "dns"}
Kinds    == UrlKinds \cup {"heartbeat"}

ASSUME RegistryAssumption ==
    /\ Sites \subseteq PathSites
    /\ None \notin PathSites \cup Monitors \cup Targets
    /\ Monitors \cap Targets = {}

VARIABLES
    row,         \* per monitor: its row of site_monitors, or Absent
    failing,     \* monitors with an open incident
    checking,    \* monitors that a worker has claimed for a check
    request,     \* per request: what its handler has still to do
    abandoned,   \* history: monitors whose incident a handler failed to close, or
                 \* a check opened after the handler had closed what there was
    overlapped   \* history: sites where two PUTs of a heartbeat monitor overlapped

vars == <<row, failing, checking, request, abandoned, overlapped>>

Absent == [site |-> None, kind |-> None, target |-> None, active |-> FALSE]
Idle   == [step |-> "idle", site |-> None, mon |-> None, kind |-> None, target |-> None,
           on |-> FALSE]

Init ==
    /\ row = [m \in Monitors |-> Absent]
    /\ failing = {}
    /\ checking = {}
    /\ request = [q \in Requests |-> Idle]
    /\ abandoned = {}
    /\ overlapped = {}

Existing == {m \in Monitors : row[m] # Absent}

Of(s, kind) == {m \in Existing : row[m].site = s /\ row[m].kind = kind}

\* The WHERE clause that every statement with a monitor's id has.
IsOne(m, s, kind) == m \in Of(s, kind)

Having(s, kind, t) == {m \in Of(s, kind) : row[m].target = t}

-----------------------------------------------------------------------------
(* Steps of a handler.                                                     *)

Goes(q, state) == request' = [request EXCEPT ![q] = state]
Answers(q)     == Goes(q, Idle)

\* The handler ends with an error, before anything is stored.
Refuses(q) == Answers(q) /\ UNCHANGED <<row, failing, checking, abandoned, overlapped>>

\* A statement has made the monitors M inactive: their open incidents are
\* resolved next, as those of one monitor or of a whole site.
ThenResolves(q, s, m, M) ==
    /\ Goes(q, [Idle EXCEPT !.step = "resolve", !.site = s, !.mon = m])
    /\ abandoned' = abandoned \ M

\* Mutation of Stored: a payload that disables the monitor leaves its incident.
StoredOnly(q, m, on) == Answers(q) /\ UNCHANGED abandoned

\* The payload is in the row of m.
Stored(q, m, on) ==
    IF on THEN Answers(q) /\ UNCHANGED abandoned ELSE ThenResolves(q, None, m, {m})

InsertRow(m, s, kind, t, on) ==
    /\ m \notin Existing
    /\ row' = [row EXCEPT ![m] = [site |-> s, kind |-> kind, target |-> t, active |-> on]]

SetActive(M, on) == row' = [m \in Monitors |-> IF m \in M THEN [row[m] EXCEPT !.active = on] ELSE row[m]]

\* PUT: one statement, INSERT ... ON CONFLICT (site_id, monitor_type,
\* target_url) DO UPDATE.
Upsert(q, kind, s, t, on) ==
    IF s \notin Sites THEN Refuses(q)
    ELSE /\ \E m \in Monitors :
               /\ IF Having(s, kind, t) = {} THEN InsertRow(m, s, kind, t, on)
                  ELSE m \in Having(s, kind, t) /\ SetActive({m}, on)
               /\ Stored(q, m, on)
         /\ UNCHANGED <<failing, checking, overlapped>>

\* PATCH: another monitor of the site must not have the target ...
LookupOther(q, kind, s, m, t, on) ==
    IF s \notin Sites \/ Having(s, kind, t) \ {m} # {} THEN Refuses(q)
    ELSE /\ Goes(q, [step |-> "replace", site |-> s, mon |-> m, kind |-> kind, target |-> t, on |-> on])
         /\ UNCHANGED <<row, failing, checking, abandoned, overlapped>>

\* Mutation of Replace: there is no unique constraint.
ReplaceUnconstrained(q) ==
    LET r == request[q] IN
    /\ r.step = "replace"
    /\ IF ~IsOne(r.mon, r.site, r.kind) THEN Refuses(q)
       ELSE /\ row' = [row EXCEPT ![r.mon].target = r.target, ![r.mon].active = r.on]
            /\ Stored(q, r.mon, r.on)
            /\ UNCHANGED <<failing, checking, overlapped>>

\* ... when the row is updated: none by then is not sure, and the unique
\* constraint makes the statement fail.
Replace(q) ==
    LET r == request[q] IN
    /\ r.step = "replace"
    /\ IF ~IsOne(r.mon, r.site, r.kind) \/ Having(r.site, r.kind, r.target) \ {r.mon} # {}
       THEN Refuses(q)
       ELSE /\ row' = [row EXCEPT ![r.mon].target = r.target, ![r.mon].active = r.on]
            /\ Stored(q, r.mon, r.on)
            /\ UNCHANGED <<failing, checking, overlapped>>

\* DELETE: the active monitors of one kind, or one active monitor.
DisableKind(q, kind, s) ==
    LET on == {m \in Of(s, kind) : row[m].active} IN
    IF on = {} THEN Refuses(q)
    ELSE /\ SetActive(on, FALSE)
         /\ ThenResolves(q, s, None, on)
         /\ UNCHANGED <<failing, checking, overlapped>>

DisableOne(q, kind, s, m) ==
    IF ~IsOne(m, s, kind) \/ ~row[m].active THEN Refuses(q)
    ELSE /\ SetActive({m}, FALSE)
         /\ ThenResolves(q, None, m, {m})
         /\ UNCHANGED <<failing, checking, overlapped>>

\* POST .../pause: also of a monitor that is paused, POST .../resume.
Pause(q, kind, s, m) ==
    IF ~IsOne(m, s, kind) THEN Refuses(q)
    ELSE /\ SetActive({m}, FALSE)
         /\ ThenResolves(q, None, m, {m})
         /\ UNCHANGED <<failing, checking, overlapped>>

Resume(q, kind, s, m) ==
    IF ~IsOne(m, s, kind) THEN Refuses(q)
    ELSE /\ SetActive({m}, TRUE)
         /\ Answers(q)
         /\ UNCHANGED <<failing, checking, abandoned, overlapped>>

\* resolve_open_incidents_for_monitor, resolve_open_incidents_for_site.
Covered(r) == {m \in Existing : IF r.mon = None THEN row[m].site = r.site ELSE m = r.mon}

Resolve(q) ==
    /\ request[q].step = "resolve"
    /\ failing' = failing \ Covered(request[q])
    /\ Answers(q)
    /\ abandoned' = abandoned \ Covered(request[q])
    /\ UNCHANGED <<row, checking, overlapped>>

\* The call fails: the answer is an internal error, the row stays inactive.
ResolveFails(q) ==
    /\ request[q].step = "resolve"
    /\ abandoned' = abandoned \cup (Covered(request[q]) \cap failing)
    /\ Answers(q)
    /\ UNCHANGED <<row, failing, checking, overlapped>>

-----------------------------------------------------------------------------
(* ssl.rs                                                                  *)

upsert_ssl_site_monitor(q, s, t, on)     == Upsert(q, "ssl", s, t, on)
update_ssl_site_monitor(q, s, m, t, on)  == LookupOther(q, "ssl", s, m, t, on)
disable_ssl_site_monitor(q, s)           == DisableKind(q, "ssl", s)
disable_ssl_site_monitor_by_id(q, s, m)  == DisableOne(q, "ssl", s, m)
pause_ssl_site_monitor_by_id(q, s, m)    == Pause(q, "ssl", s, m)
resume_ssl_site_monitor_by_id(q, s, m)   == Resume(q, "ssl", s, m)

(* tcp.rs                                                                  *)

upsert_tcp_site_monitor(q, s, t, on)     == Upsert(q, "tcp", s, t, on)
update_tcp_site_monitor(q, s, m, t, on)  == LookupOther(q, "tcp", s, m, t, on)
disable_tcp_site_monitor(q, s)           == DisableKind(q, "tcp", s)
disable_tcp_site_monitor_by_id(q, s, m)  == DisableOne(q, "tcp", s, m)
pause_tcp_site_monitor_by_id(q, s, m)    == Pause(q, "tcp", s, m)
resume_tcp_site_monitor_by_id(q, s, m)   == Resume(q, "tcp", s, m)

(* dns.rs                                                                  *)

upsert_dns_site_monitor(q, s, t, on)     == Upsert(q, "dns", s, t, on)
update_dns_site_monitor(q, s, m, t, on)  == LookupOther(q, "dns", s, m, t, on)
disable_dns_site_monitor(q, s)           == DisableKind(q, "dns", s)
disable_dns_site_monitor_by_id(q, s, m)  == DisableOne(q, "dns", s, m)
pause_dns_site_monitor_by_id(q, s, m)    == Pause(q, "dns", s, m)
resume_dns_site_monitor_by_id(q, s, m)   == Resume(q, "dns", s, m)

(* heartbeat.rs                                                            *)

update_heartbeat_site_monitor(q, s, m, on) ==
    IF s \notin Sites \/ ~IsOne(m, s, "heartbeat") THEN Refuses(q)
    ELSE /\ SetActive({m}, on)
         /\ Stored(q, m, on)
         /\ UNCHANGED <<failing, checking, overlapped>>

\* PUT: the site's monitor is looked up, and updated or created.
Creating(s) == {q \in Requests : request[q].step = "create" /\ request[q].site = s}

\* Mutation of upsert_heartbeat_site_monitor: the active monitor is looked up.
UpsertActiveHeartbeat(q, s, on) ==
    IF s \notin Sites THEN Refuses(q)
    ELSE LET found == {m \in Of(s, "heartbeat") : row[m].active} IN
         /\ \/ /\ found = {}
               /\ Goes(q, [Idle EXCEPT !.step = "create", !.site = s, !.on = on])
            \/ \E m \in found :
                  Goes(q, [Idle EXCEPT !.step = "update", !.site = s, !.mon = m, !.on = on])
         /\ overlapped' = IF found = {} /\ Creating(s) # {} THEN overlapped \cup {s} ELSE overlapped
         /\ UNCHANGED <<row, failing, checking, abandoned>>

upsert_heartbeat_site_monitor(q, s, on) ==
    IF s \notin Sites THEN Refuses(q)
    ELSE LET found == Of(s, "heartbeat") IN
         /\ \/ /\ found = {}
               /\ Goes(q, [Idle EXCEPT !.step = "create", !.site = s, !.on = on])
            \/ \E m \in found :
                  Goes(q, [Idle EXCEPT !.step = "update", !.site = s, !.mon = m, !.on = on])
         /\ overlapped' = IF found = {} /\ Creating(s) # {} THEN overlapped \cup {s} ELSE overlapped
         /\ UNCHANGED <<row, failing, checking, abandoned>>

UpdateFound(q) ==
    /\ request[q].step = "update"
    /\ update_heartbeat_site_monitor(q, request[q].site, request[q].mon, request[q].on)

\* The token is new, and so is the target.
CreateMissing(q) ==
    /\ request[q].step = "create"
    /\ \E m \in Monitors :
          /\ InsertRow(m, request[q].site, "heartbeat", m, request[q].on)
          /\ Stored(q, m, request[q].on)
    /\ UNCHANGED <<failing, checking, overlapped>>

\* A statement in the middle of a handler fails.
Fails(q) == request[q].step \in {"replace", "update", "create"} /\ Refuses(q)

disable_heartbeat_site_monitor(q, s)           == DisableKind(q, "heartbeat", s)
disable_heartbeat_site_monitor_by_id(q, s, m)  == DisableOne(q, "heartbeat", s, m)
pause_heartbeat_site_monitor_by_id(q, s, m)    == Pause(q, "heartbeat", s, m)
resume_heartbeat_site_monitor_by_id(q, s, m)   == Resume(q, "heartbeat", s, m)

-----------------------------------------------------------------------------

\* Requests with a target.
Put(q, s, t, on) ==
    \/ upsert_ssl_site_monitor(q, s, t, on)
    \/ upsert_tcp_site_monitor(q, s, t, on)
    \/ upsert_dns_site_monitor(q, s, t, on)

Patch(q, s, m, t, on) ==
    \/ update_ssl_site_monitor(q, s, m, t, on)
    \/ update_tcp_site_monitor(q, s, m, t, on)
    \/ update_dns_site_monitor(q, s, m, t, on)

\* Requests for all monitors of a kind, and for one.
Disable(q, s) ==
    \/ disable_ssl_site_monitor(q, s) \/ disable_tcp_site_monitor(q, s)
    \/ disable_dns_site_monitor(q, s) \/ disable_heartbeat_site_monitor(q, s)

DisableById(q, s, m) ==
    \/ disable_ssl_site_monitor_by_id(q, s, m) \/ disable_tcp_site_monitor_by_id(q, s, m)
    \/ disable_dns_site_monitor_by_id(q, s, m) \/ disable_heartbeat_site_monitor_by_id(q, s, m)

PauseOrResume(q, s, m) ==
    \/ pause_ssl_site_monitor_by_id(q, s, m)       \/ resume_ssl_site_monitor_by_id(q, s, m)
    \/ pause_tcp_site_monitor_by_id(q, s, m)       \/ resume_tcp_site_monitor_by_id(q, s, m)
    \/ pause_dns_site_monitor_by_id(q, s, m)       \/ resume_dns_site_monitor_by_id(q, s, m)
    \/ pause_heartbeat_site_monitor_by_id(q, s, m) \/ resume_heartbeat_site_monitor_by_id(q, s, m)

Begin(q) ==
    /\ request[q] = Idle
    /\ \E s \in PathSites :
          \/ Disable(q, s)
          \/ \E on \in BOOLEAN : upsert_heartbeat_site_monitor(q, s, on)
          \/ \E t \in Targets, on \in BOOLEAN : Put(q, s, t, on)
          \/ \E m \in Monitors :
                \/ DisableById(q, s, m) \/ PauseOrResume(q, s, m)
                \/ \E on \in BOOLEAN : update_heartbeat_site_monitor(q, s, m, on)
                \/ \E t \in Targets, on \in BOOLEAN : Patch(q, s, m, t, on)

Continue(q) ==
    \/ Replace(q) \/ UpdateFound(q) \/ CreateMissing(q)
    \/ Fails(q) \/ Resolve(q) \/ ResolveFails(q)

-----------------------------------------------------------------------------
(* The workers.  Only the claim asks whether the monitor is active.        *)

ClaimCheck(m) ==
    /\ m \in Existing \ checking /\ row[m].active
    /\ checking' = checking \cup {m}
    /\ UNCHANGED <<row, failing, request, abandoned, overlapped>>

\* save_check_result: the incident of the monitor opens, or recovers.
SaveCheck(m) ==
    /\ m \in checking
    /\ checking' = checking \ {m}
    /\ \/ /\ failing' = failing \cup {m}
          /\ abandoned' = IF row[m].active THEN abandoned ELSE abandoned \cup {m}
       \/ /\ failing' = failing \ {m}
          /\ abandoned' = abandoned \ {m}
    /\ UNCHANGED <<row, request, overlapped>>

\* The check is dropped, or its save fails: the claim lapses.
LoseCheck(m) ==
    /\ m \in checking
    /\ checking' = checking \ {m}
    /\ UNCHANGED <<row, failing, request, abandoned, overlapped>>

Next ==
    \/ \E q \in Requests : Begin(q) \/ Continue(q)
    \/ \E m \in Monitors : ClaimCheck(m) \/ SaveCheck(m) \/ LoseCheck(m)

Spec == Init /\ [][Next]_vars

-----------------------------------------------------------------------------
(* Properties.                                                             *)

Steps == {"idle", "replace", "update", "create", "resolve"}

\* Type correctness: rows are of a kind and a site, a heartbeat monitor has a
\* target of its own, and no two rows of a site and kind have the same target
\* (uq_site_monitors_site_id_monitor_type_target_url).
TypeOK ==
    /\ row \in [Monitors -> [site : Sites, kind : Kinds, target : Targets \cup Monitors,
                             active : BOOLEAN] \cup {Absent}]
    /\ failing \subseteq Existing /\ checking \subseteq Existing
    /\ request \in [Requests -> [step : Steps, site : PathSites \cup {None},
                                 mon : Monitors \cup {None}, kind : Kinds \cup {None},
                                 target : Targets \cup {None}, on : BOOLEAN]]
    /\ abandoned \subseteq failing
    /\ overlapped \subseteq Sites
    /\ \A m \in Existing : row[m].target = m <=> row[m].kind = "heartbeat"
    /\ \A m, n \in Existing :
          /\ row[m].site = row[n].site /\ row[m].kind = row[n].kind
          /\ row[m].target = row[n].target
          => m = n

\* The incident of a monitor that is inactive is closed, or a handler is about
\* to close it, or the handler that should have failed half way, or a check
\* opened it that had been claimed before the handler and was saved after it:
\* save_check_result does not ask whether the monitor is still active.  A PUT,
\* PATCH or pause that is repeated closes it then; a DELETE is not enough, for it
\* answers that there is no such active monitor
\* (upsert_*, update_*, pause_*, disable_*).
InactiveIncidentsAreClosed ==
    \A m \in failing :
        \/ row[m].active
        \/ m \in abandoned
        \/ \E q \in Requests : request[q].step = "resolve" /\ m \in Covered(request[q])

\* A site has one heartbeat monitor, so one ping path, unless the first PUTs of
\* its heartbeat monitor overlapped (upsert_heartbeat_site_monitor: the lookup
\* and the creation are two statements, and no constraint covers them).
HeartbeatIsUnique ==
    \A s \in Sites \ overlapped : \A m, n \in Of(s, "heartbeat") : m = n
=============================================================================
