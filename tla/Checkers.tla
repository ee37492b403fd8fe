------------------------------ MODULE Checkers ------------------------------
(***************************************************************************)
(* The checks of src/monitoring: what each of them reports of a target, as *)
(* a function of the monitor's configuration and of what the check         *)
(* observes of the target.  A report is a failure_reason, or "ok".         *)
(*                                                                         *)
(* Texts, header values and JSON values are members of small sets; a JSON  *)
(* document is the map from its paths to the values found there, empty     *)
(* where there is no valid document.                                       *)
(***************************************************************************)
EXTENDS Integers, Sequences

CONSTANTS
    CriticalDays,         \* SSL_EXPIRY_CRITICAL_DAYS
    Day,                  \* length of a day, in units of a certificate's validity
    AllowPrivateTargets   \* http_monitor_allow_private_targets

ASSUME CheckersAssumption ==
    /\ CriticalDays \in Nat
    /\ Day \in Nat \ {0}
    /\ AllowPrivateTargets \in BOOLEAN

-----------------------------------------------------------------------------
(* A check is a series of tests, and the first that fails is reported.     *)

Test(passes, reason) == [passes |-> passes, reason |-> reason]

FirstFailure(tests) ==
    LET failed == {i \in DOMAIN tests : ~tests[i].passes}
    IN  IF failed = {} THEN "ok"
        ELSE tests[CHOOSE i \in failed : \A j \in failed : i <= j].reason

\* resolve_runtime_target: one address that is not public blocks the target.
resolve_runtime_target(names) == <<
    Test(names # "unresolved", "connect_error"),
    Test(names # "private" \/ AllowPrivateTargets, "blocked_address")>>

-----------------------------------------------------------------------------
(* HTTP.  m: expectations; o: what one request observes.  Its status is     *)
(* "expected", or what kind of status it is instead.                        *)

\* The texts found in the first max_response_body_bytes of the body.
BodyRead(o) == o.head

BodyWanted(m) == m.contains # {} \/ m.lacks # {} \/ m.exists # {} \/ m.equals # {} \/ m.differs # {}

classify_request_error(sent) == <<
    Test(sent # "unreachable", "connect_error"),
    Test(sent # "late", "timeout"),
    Test(sent # "broken", "request_error")>>

evaluate_header_assertion(want, got) ==
    \/ want = "none"
    \/ want = "present" /\ got # "missing"
    \/ want = "contains" /\ got \in {"partial", "exact"}
    \/ want = "equals" /\ got = "exact"

\* o.json: what the part of the body that is read says, if it is valid JSON.
JsonRead(o) == o.json # {}

\* The values at a path; resolve_json_path finds one or none.
resolve_json_path(o, path) == {v \in {pair[2] : pair \in o.json} : <<path, v>> \in o.json}

\* Mutation of JsonTests: a path that leads nowhere differs from every value.
JsonTestsLax(m, o) ==
    IF m.exists = {} /\ m.equals = {} /\ m.differs = {} THEN <<>> ELSE <<
    Test(JsonRead(o), "assertion_failed:json_body"),
    Test(\A path \in m.exists : resolve_json_path(o, path) # {}, "assertion_failed:json_path_exists"),
    Test(\A pair \in m.equals : resolve_json_path(o, pair[1]) = {pair[2]},
         "assertion_failed:json_path_equals"),
    Test(\A pair \in m.differs : pair[2] \notin resolve_json_path(o, pair[1]),
         "assertion_failed:json_path_not_equals")>>

\* A path that leads nowhere fails all three kinds of assertion.
JsonTests(m, o) ==
    IF m.exists = {} /\ m.equals = {} /\ m.differs = {} THEN <<>> ELSE <<
    Test(JsonRead(o), "assertion_failed:json_body"),
    Test(\A path \in m.exists : resolve_json_path(o, path) # {}, "assertion_failed:json_path_exists"),
    Test(\A pair \in m.equals : resolve_json_path(o, pair[1]) = {pair[2]},
         "assertion_failed:json_path_equals"),
    Test(\A pair \in m.differs :
            resolve_json_path(o, pair[1]) # {} /\ pair[2] \notin resolve_json_path(o, pair[1]),
         "assertion_failed:json_path_not_equals")>>

BodyTests(m, o) ==
    IF ~BodyWanted(m) THEN <<>> ELSE <<
    Test(o.read, "response_read_error"),
    Test(m.contains \subseteq BodyRead(o), "assertion_failed:body_must_contain"),
    Test(m.lacks \cap BodyRead(o) = {}, "assertion_failed:body_must_not_contain")>>
    \o JsonTests(m, o)

check_url(m, o) == FirstFailure(
    resolve_runtime_target(o.names) \o classify_request_error(o.sent) \o <<
    Test(o.status # "redirect", "redirect_blocked"),
    Test(o.status = "expected", "unexpected_status"),
    Test(~m.timed \/ ~o.slow, "assertion_failed:max_response_time_ms"),
    Test(evaluate_header_assertion(m.header, o.header), "assertion_failed:header")>>
    \o BodyTests(m, o))

-----------------------------------------------------------------------------
(* SSL.  m: warning; o: two rounds of connections, and the certificate.    *)

\* Mutation of connect_tls_with_config: the first address decides.
ConnectFirst(outcomes) == outcomes[1]

\* Per resolved address in turn: a connection or a handshake that fails goes
\* on to the next address, one that times out ends the round.
connect_tls_with_config(outcomes) ==
    LET ends == {i \in DOMAIN outcomes : outcomes[i] \in {"ok", "timeout"}}
    IN  IF ends = {} THEN outcomes[Len(outcomes)]
        ELSE outcomes[CHOOSE i \in ends : \A j \in ends : i <= j]

\* num_seconds() / 86_400 rounds towards zero.
days_remaining(left) == IF left >= 0 THEN left \div Day ELSE -((-left) \div Day)

\* A warning never comes later than the day before the critical one.
WarningDays(warning) == IF warning > CriticalDays THEN warning ELSE CriticalDays + 1

evaluate_certificate_expiry(left, warning) == <<
    Test(days_remaining(left) > CriticalDays, "ssl_certificate_expiring_critical"),
    Test(days_remaining(left) > WarningDays(warning), "ssl_certificate_expiring_warning")>>

\* inspect_tls_certificate with a verifier that accepts every certificate, and
\* validate_tls_certificate with the platform's.
probe_tls_certificate(o) ==
    LET inspected == connect_tls_with_config(o.inspect)
        validated == connect_tls_with_config(o.validate)
    IN  << Test(inspected = "ok", inspected),
           Test(validated = "ok",
                IF days_remaining(o.left) < 0 THEN "ssl_certificate_expired" ELSE validated)>>

check_ssl_certificate(m, o) == FirstFailure(
    resolve_runtime_target(o.names)
    \o << Test(m.https, "ssl_certificate_invalid") >>
    \o probe_tls_certificate(o)
    \o evaluate_certificate_expiry(o.left, m.warning))

-----------------------------------------------------------------------------
(* TCP, DNS and heartbeats.                                                *)

\* Only the first address is tried.
check_tcp(o) == FirstFailure(<<
    Test(o.names # "unresolved", "dns_error"),
    Test(o.names # "private", "ssrf_blocked"),
    Test(o.sent # "unreachable", "connect_error"),
    Test(o.sent # "late", "connect_timeout")>>)

build_resolver(nameserver) == nameserver \in {"default", "public"}

check_dns(m, o) == FirstFailure(<<
    Test(m.supported, "config_error"),
    Test(build_resolver(m.nameserver), "config_error"),
    Test(o.answered, "lookup_error"),
    Test(o.records # {}, "no_records"),
    Test(m.expected = {} \/ m.expected \cap o.records # {}, "value_mismatch")>>)

\* o.age: time since the last ping the claim returned, or since the monitor
\* was created.
check_heartbeat(m, o) == FirstFailure(<<Test(o.age <= m.interval + m.grace, "heartbeat_overdue")>>)

-----------------------------------------------------------------------------

\* The check of a monitor by its type.
Check(m, o) ==
    CASE m.kind = "http"      -> check_url(m, o)
      [] m.kind = "ssl"       -> check_ssl_certificate(m, o)
      [] m.kind = "tcp"       -> check_tcp(o)
      [] m.kind = "dns"       -> check_dns(m, o)
      [] m.kind = "heartbeat" -> check_heartbeat(m, o)

\* Only the two reasons an http check gives to a transient failure.
is_retryable_check_result(reason) == reason \in {"timeout", "connect_error"}
=============================================================================
