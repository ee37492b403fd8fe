---------------------------- MODULE CheckerProofs ----------------------------
(***************************************************************************)
(* Proofs that the verdicts of the checkers are deserved: a check that is   *)
(* saved as a success has seen all that its monitor asks for, and one that *)
(* is saved as a failure has not, for any monitors and any observations of *)
(* the types that ObservationFits states.                                  *)
(***************************************************************************)
EXTENDS WorkerProofs

-----------------------------------------------------------------------------
(* Series of tests.                                                        *)

\* The reasons of a failure.
Reason == {
    "connect_error", "blocked_address", "timeout", "request_error", "redirect_blocked",
    "unexpected_status", "response_read_error", "assertion_failed:max_response_time_ms",
    "assertion_failed:header", "assertion_failed:body_must_contain",
    "assertion_failed:body_must_not_contain", "assertion_failed:json_body",
    "assertion_failed:json_path_exists", "assertion_failed:json_path_equals",
    "assertion_failed:json_path_not_equals", "ssl_certificate_invalid",
    "ssl_certificate_expired", "ssl_certificate_expiring_critical",
    "ssl_certificate_expiring_warning", "dns_error", "ssrf_blocked", "connect_timeout",
    "config_error", "lookup_error", "no_records", "value_mismatch", "heartbeat_overdue"}

\* A test that fails has a reason to report.
Sound == {t \in [passes : BOOLEAN, reason : Reason \cup {"ok"}] : t.passes = TRUE \/ t.reason # "ok"}

AllPass(tests) == \A i \in 1..Len(tests) : tests[i].passes = TRUE

LEMMA NoFailure ==
  ASSUME NEW tests \in Seq(Sound)
  PROVE  FirstFailure(tests) = "ok" <=> AllPass(tests)
<1> DEFINE failed == {i \in DOMAIN tests : ~tests[i].passes}
<1>1. DOMAIN tests = 1..Len(tests) /\ Len(tests) \in Nat /\ \A i \in 1..Len(tests) : tests[i] \in Sound
  OBVIOUS
<1>2. ASSUME failed # {} PROVE FirstFailure(tests) # "ok"
  <2>1. failed \in SUBSET Nat
    BY <1>1
  <2>2. \E i \in failed : \A j \in failed : i <= j
    <3> HIDE DEF failed
    <3> QED BY <1>2, <2>1, LeastMember
  <2>3. PICK i \in failed : FirstFailure(tests) = tests[i].reason
    BY <1>2, <2>2 DEF FirstFailure
  <2>4. tests[i] \in Sound /\ ~tests[i].passes
    BY <1>1, <2>3
  <2>5. tests[i].reason # "ok"
    BY <2>4 DEF Sound
  <2> QED BY <2>3, <2>5
<1>3. failed = {} => FirstFailure(tests) = "ok"
  BY DEF FirstFailure
<1>4. failed = {} <=> \A i \in 1..Len(tests) : tests[i].passes
  BY <1>1
<1>5. (\A i \in 1..Len(tests) : tests[i].passes) <=> AllPass(tests)
  BY <1>1 DEF AllPass, Sound
<1> QED BY <1>2, <1>3, <1>4, <1>5

LEMMA Concatenation ==
  ASSUME NEW s \in Seq(Sound), NEW t \in Seq(Sound)
  PROVE  /\ s \o t \in Seq(Sound)
         /\ AllPass(s \o t) <=> AllPass(s) /\ AllPass(t)
<1>1. s \o t \in Seq(Sound) /\ Len(s \o t) = Len(s) + Len(t) /\ Len(s) \in Nat /\ Len(t) \in Nat
  OBVIOUS
<1>2. \A i \in 1..Len(s) : (s \o t)[i] = s[i]
  OBVIOUS
<1>3. \A i \in 1..Len(t) : (s \o t)[i + Len(s)] = t[i]
  OBVIOUS
<1>4. ASSUME AllPass(s \o t) PROVE AllPass(s) /\ AllPass(t)
  <2>1. ASSUME NEW i \in 1..Len(s) PROVE s[i].passes = TRUE
    <3>1. i \in 1..Len(s \o t)
      BY <1>1
    <3> QED BY <1>2, <1>4, <3>1 DEF AllPass
  <2>2. ASSUME NEW i \in 1..Len(t) PROVE t[i].passes = TRUE
    <3>1. i + Len(s) \in 1..Len(s \o t)
      BY <1>1
    <3> QED BY <1>3, <1>4, <3>1 DEF AllPass
  <2> QED BY <2>1, <2>2 DEF AllPass
<1>5. ASSUME AllPass(s), AllPass(t) PROVE AllPass(s \o t)
  <2> SUFFICES ASSUME NEW i \in 1..Len(s) + Len(t) PROVE (s \o t)[i].passes = TRUE
    BY <1>1 DEF AllPass
  <2>1. CASE i \in 1..Len(s)
    BY <1>2, <1>5, <2>1 DEF AllPass
  <2>2. CASE i \notin 1..Len(s)
    <3>1. i - Len(s) \in 1..Len(t) /\ (i - Len(s)) + Len(s) = i
      BY <1>1, <2>2
    <3>2. (s \o t)[i] = t[i - Len(s)]
      BY <1>3, <3>1
    <3> QED BY <1>5, <3>1, <3>2 DEF AllPass
  <2> QED BY <1>1, <2>1, <2>2
<1> QED BY <1>1, <1>4, <1>5

\* Series of given tests.
LEMMA Series ==
  /\ <<>> \in Seq(Sound)
  /\ \A a \in Sound : <<a>> \in Seq(Sound) /\ (AllPass(<<a>>) <=> a.passes = TRUE)
  /\ \A a, b \in Sound :
        /\ <<a, b>> \in Seq(Sound)
        /\ AllPass(<<a, b>>) <=> a.passes = TRUE /\ b.passes = TRUE
  /\ \A a, b, c \in Sound :
        /\ <<a, b, c>> \in Seq(Sound)
        /\ AllPass(<<a, b, c>>) <=> a.passes = TRUE /\ b.passes = TRUE /\ c.passes = TRUE
  /\ \A a, b, c, d \in Sound :
        /\ <<a, b, c, d>> \in Seq(Sound)
        /\ AllPass(<<a, b, c, d>>) <=>
              a.passes = TRUE /\ b.passes = TRUE /\ c.passes = TRUE /\ d.passes = TRUE
  /\ \A a, b, c, d, e \in Sound :
        /\ <<a, b, c, d, e>> \in Seq(Sound)
        /\ AllPass(<<a, b, c, d, e>>) <=>
              /\ a.passes = TRUE /\ b.passes = TRUE /\ c.passes = TRUE
              /\ d.passes = TRUE /\ e.passes = TRUE
<1>1. \A a \in Sound : AllPass(<<a>>) <=> a.passes = TRUE
  BY DEF AllPass
<1>2. \A a, b \in Sound : AllPass(<<a, b>>) <=> a.passes = TRUE /\ b.passes = TRUE
  BY DEF AllPass
<1>3. \A a, b, c \in Sound :
        AllPass(<<a, b, c>>) <=> a.passes = TRUE /\ b.passes = TRUE /\ c.passes = TRUE
  BY DEF AllPass
<1>4. \A a, b, c, d \in Sound :
        AllPass(<<a, b, c, d>>) <=> a.passes = TRUE /\ b.passes = TRUE /\ c.passes = TRUE /\ d.passes = TRUE
  BY DEF AllPass
<1>5. \A a, b, c, d, e \in Sound :
        AllPass(<<a, b, c, d, e>>) <=> /\ a.passes = TRUE /\ b.passes = TRUE /\ c.passes = TRUE
                                       /\ d.passes = TRUE /\ e.passes = TRUE
  BY DEF AllPass
<1> HIDE DEF Sound
<1> QED BY <1>1, <1>2, <1>3, <1>4, <1>5

LEMMA TestIsSound ==
  ASSUME NEW p \in BOOLEAN, NEW reason \in Reason \cup {"ok"}, p = TRUE \/ reason # "ok"
  PROVE  Test(p, reason) \in Sound /\ Test(p, reason).passes = p
BY DEF Test, Sound

-----------------------------------------------------------------------------
(* The checkers.                                                           *)

LEMMA TcpVerdict ==
  ASSUME NEW m, NEW o, m.kind = "tcp", ObservationFits(m, o)
  PROVE  check_tcp(o) = "ok" <=> Deserved(m, o)
<1> DEFINE a == Test(o.names # "unresolved", "dns_error")
           b == Test(o.names # "private", "ssrf_blocked")
           c == Test(o.sent # "unreachable", "connect_error")
           d == Test(o.sent # "late", "connect_timeout")
<1>1. a \in Sound /\ b \in Sound /\ c \in Sound /\ d \in Sound
  BY TestIsSound DEF Reason
<1>2. /\ a.passes = TRUE <=> o.names # "unresolved"
      /\ b.passes = TRUE <=> o.names # "private"
      /\ c.passes = TRUE <=> o.sent # "unreachable"
      /\ d.passes = TRUE <=> o.sent # "late"
  BY DEF Test
<1>3. check_tcp(o) = FirstFailure(<<a, b, c, d>>)
  BY DEF check_tcp
<1> HIDE DEF a, b, c, d
<1>4. <<a, b, c, d>> \in Seq(Sound)
  BY <1>1, Series
<1>5. check_tcp(o) = "ok" <=> AllPass(<<a, b, c, d>>)
  BY <1>3, <1>4, NoFailure
<1>6. AllPass(<<a, b, c, d>>)
        <=> o.names \notin {"unresolved", "private"} /\ o.sent \notin {"unreachable", "late"}
  BY <1>1, <1>2, Series
<1> QED BY <1>5, <1>6 DEF ObservationFits, Deserved

LEMMA DnsVerdict ==
  ASSUME NEW m, NEW o, m.kind = "dns", ObservationFits(m, o)
  PROVE  check_dns(m, o) = "ok" <=> SeenWhole(m, o) /\ Deserved(m, o)
<1> DEFINE a == Test(m.supported, "config_error")
           b == Test(build_resolver(m.nameserver), "config_error")
           c == Test(o.answered, "lookup_error")
           d == Test(o.records # {}, "no_records")
           e == Test(m.expected = {} \/ m.expected \cap o.records # {}, "value_mismatch")
<1>1. a \in Sound /\ b \in Sound /\ c \in Sound /\ d \in Sound /\ e \in Sound
  <2>1. m.supported \in BOOLEAN /\ o.answered \in BOOLEAN
    BY DEF ObservationFits
  <2>2. a \in Sound /\ c \in Sound
    BY <2>1, TestIsSound DEF Reason
  <2>3. b \in Sound
    BY DEF Test, Sound, Reason, build_resolver
  <2>4. d \in Sound /\ e \in Sound
    BY TestIsSound DEF Reason
  <2> QED BY <2>2, <2>3, <2>4
<1>2. /\ a.passes = TRUE <=> m.supported
      /\ b.passes = TRUE <=> build_resolver(m.nameserver)
      /\ c.passes = TRUE <=> o.answered
      /\ d.passes = TRUE <=> o.records # {}
      /\ e.passes = TRUE <=> m.expected = {} \/ m.expected \cap o.records # {}
  BY DEF Test, build_resolver, ObservationFits
<1>3. check_dns(m, o) = FirstFailure(<<a, b, c, d, e>>)
  BY DEF check_dns
<1> HIDE DEF a, b, c, d, e
<1>4. <<a, b, c, d, e>> \in Seq(Sound)
  BY <1>1, Series
<1>5. check_dns(m, o) = "ok" <=> AllPass(<<a, b, c, d, e>>)
  BY <1>3, <1>4, NoFailure
<1>6. check_dns(m, o) = "ok"
        <=> /\ a.passes = TRUE /\ b.passes = TRUE
            /\ c.passes = TRUE /\ d.passes = TRUE /\ e.passes = TRUE
  BY <1>1, <1>5, Series
<1>7. (o.records # {} /\ (m.expected = {} \/ m.expected \cap o.records # {}))
        <=> \E r \in o.records : m.expected = {} \/ r \in m.expected
  OBVIOUS
<1> QED BY <1>2, <1>6, <1>7 DEF Deserved, SeenWhole

LEMMA HeartbeatVerdict ==
  ASSUME NEW m, NEW o, m.kind = "heartbeat", ObservationFits(m, o)
  PROVE  check_heartbeat(m, o) = "ok" <=> Deserved(m, o)
<1> DEFINE a == Test(o.age <= m.interval + m.grace, "heartbeat_overdue")
<1>1. a \in Sound
  BY DEF Test, Sound, Reason
<1>2. a.passes = TRUE <=> o.age <= m.interval + m.grace
  BY DEF Test
<1>3. check_heartbeat(m, o) = FirstFailure(<<a>>)
  BY DEF check_heartbeat
<1> HIDE DEF a
<1>4. check_heartbeat(m, o) = "ok" <=> a.passes = TRUE
  BY <1>1, <1>3, NoFailure, Series
<1> QED BY <1>2, <1>4 DEF Deserved

LEMMA TargetResolved ==
  ASSUME NEW names \in {"public", "private", "unresolved"}
  PROVE  /\ resolve_runtime_target(names) \in Seq(Sound)
         /\ AllPass(resolve_runtime_target(names)) <=> TargetAllowed(names)
<1> DEFINE a == Test(names # "unresolved", "connect_error")
           b == Test(names # "private" \/ AllowPrivateTargets, "blocked_address")
<1>1. AllowPrivateTargets \in BOOLEAN
  BY CheckersAssumption
<1>2. a \in Sound /\ b \in Sound
  BY <1>1, TestIsSound DEF Reason
<1>3. /\ a.passes = TRUE <=> names # "unresolved"
      /\ b.passes = TRUE <=> names # "private" \/ AllowPrivateTargets
  BY DEF Test
<1>4. resolve_runtime_target(names) = <<a, b>>
  BY DEF resolve_runtime_target
<1> HIDE DEF a, b
<1> QED BY <1>2, <1>3, <1>4, Series DEF TargetAllowed

LEMMA RequestClassified ==
  ASSUME NEW sent \in {"ok", "unreachable", "late", "broken"}
  PROVE  /\ classify_request_error(sent) \in Seq(Sound)
         /\ AllPass(classify_request_error(sent)) <=> sent = "ok"
<1> DEFINE a == Test(sent # "unreachable", "connect_error")
           b == Test(sent # "late", "timeout")
           c == Test(sent # "broken", "request_error")
<1>1. a \in Sound /\ b \in Sound /\ c \in Sound
  BY TestIsSound DEF Reason
<1>2. /\ a.passes = TRUE <=> sent # "unreachable"
      /\ b.passes = TRUE <=> sent # "late"
      /\ c.passes = TRUE <=> sent # "broken"
  BY DEF Test
<1>3. classify_request_error(sent) = <<a, b, c>>
  BY DEF classify_request_error
<1> HIDE DEF a, b, c
<1> QED BY <1>1, <1>2, <1>3, Series

\* What the JSON assertions of m ask of the document o.json.
Documented(m, o) ==
    /\ \A path \in m.exists : \E pair \in o.json : pair[1] = path
    /\ m.equals \subseteq o.json
    /\ \A pair \in m.differs : \E p \in o.json : p[1] = pair[1] /\ p[2] # pair[2]

\* Pairs, of which o.json has one for a path.
PairsFit(m, o) ==
    /\ \A pair \in m.equals \cup o.json : pair = <<pair[1], pair[2]>>
    /\ \A p, q \in o.json : p[1] = q[1] => p = q

LEMMA PathResolves ==
  ASSUME NEW m, NEW o, PairsFit(m, o)
  PROVE  /\ \A path, v : v \in resolve_json_path(o, path) <=> <<path, v>> \in o.json
         /\ \A path : resolve_json_path(o, path) # {} <=> \E pair \in o.json : pair[1] = path
         /\ \A pair \in m.equals : resolve_json_path(o, pair[1]) = {pair[2]} <=> pair \in o.json
         /\ \A pair : (/\ resolve_json_path(o, pair[1]) # {}
                       /\ pair[2] \notin resolve_json_path(o, pair[1]))
                      <=> \E p \in o.json : p[1] = pair[1] /\ p[2] # pair[2]
<1>1. \A path, v : v \in resolve_json_path(o, path) <=> <<path, v>> \in o.json
  <2> TAKE path, v
  <2>1. <<path, v>>[2] = v
    OBVIOUS
  <2> QED BY <2>1 DEF resolve_json_path
<1>2. \A p \in o.json : p[2] \in resolve_json_path(o, p[1])
  BY <1>1 DEF PairsFit
<1>3. \A path, v, w : v \in resolve_json_path(o, path) /\ w \in resolve_json_path(o, path) => v = w
  <2> SUFFICES ASSUME NEW path, NEW v, NEW w,
                      v \in resolve_json_path(o, path), w \in resolve_json_path(o, path)
               PROVE  v = w
    OBVIOUS
  <2>1. <<path, v>> \in o.json /\ <<path, w>> \in o.json
    BY <1>1
  <2>2. <<path, v>>[1] = path /\ <<path, w>>[1] = path
    OBVIOUS
  <2>3. <<path, v>> = <<path, w>>
    BY <2>1, <2>2 DEF PairsFit
  <2> QED BY <2>3
<1>4. \A path, v : v \in resolve_json_path(o, path) => \E p \in o.json : p[1] = path /\ p[2] = v
  <2> TAKE path, v
  <2>1. <<path, v>>[1] = path /\ <<path, v>>[2] = v
    OBVIOUS
  <2> QED BY <1>1, <2>1
<1>5. \A path : resolve_json_path(o, path) # {} <=> \E pair \in o.json : pair[1] = path
  BY <1>2, <1>4
<1>6. ASSUME NEW pair \in m.equals
      PROVE  resolve_json_path(o, pair[1]) = {pair[2]} <=> pair \in o.json
  <2>1. pair = <<pair[1], pair[2]>>
    BY DEF PairsFit
  <2>2. pair[2] \in resolve_json_path(o, pair[1]) <=> pair \in o.json
    BY <1>1, <2>1
  <2> QED BY <1>3, <2>2
<1>7. ASSUME NEW pair
      PROVE  (/\ resolve_json_path(o, pair[1]) # {}
              /\ pair[2] \notin resolve_json_path(o, pair[1]))
             <=> \E p \in o.json : p[1] = pair[1] /\ p[2] # pair[2]
  BY <1>2, <1>3, <1>4
<1> QED BY <1>1, <1>5, <1>6, <1>7

LEMMA JsonVerdict ==
  ASSUME NEW m, NEW o, PairsFit(m, o)
  PROVE  /\ JsonTests(m, o) \in Seq(Sound)
         /\ AllPass(JsonTests(m, o)) => Documented(m, o)
         /\ Documented(m, o) /\ o.tail = {} => AllPass(JsonTests(m, o))
<1>1. CASE m.exists = {} /\ m.equals = {} /\ m.differs = {}
  <2>1. JsonTests(m, o) = <<>>
    BY <1>1 DEF JsonTests
  <2>2. AllPass(<<>>) /\ <<>> \in Seq(Sound)
    BY Series DEF AllPass
  <2> QED BY <1>1, <2>1, <2>2 DEF Documented
<1>2. CASE ~(m.exists = {} /\ m.equals = {} /\ m.differs = {})
  <2> DEFINE a == Test(JsonRead(o), "assertion_failed:json_body")
             b == Test(\A path \in m.exists : resolve_json_path(o, path) # {},
                       "assertion_failed:json_path_exists")
             c == Test(\A pair \in m.equals : resolve_json_path(o, pair[1]) = {pair[2]},
                       "assertion_failed:json_path_equals")
             d == Test(\A pair \in m.differs :
                          resolve_json_path(o, pair[1]) # {} /\ pair[2] \notin resolve_json_path(o, pair[1]),
                       "assertion_failed:json_path_not_equals")
  <2>1. a \in Sound
    BY DEF Test, Sound, Reason, JsonRead
  <2>2. b \in Sound
    BY DEF Test, Sound, Reason
  <2>3. c \in Sound
    BY DEF Test, Sound, Reason
  <2>4. d \in Sound
    BY DEF Test, Sound, Reason
  <2>5. a.passes = TRUE <=> o.json # {}
    BY DEF Test, JsonRead
  <2>6. b.passes = TRUE <=> \A path \in m.exists : \E pair \in o.json : pair[1] = path
    <3>1. b.passes = TRUE <=> \A path \in m.exists : resolve_json_path(o, path) # {}
      BY DEF Test
    <3>2. \A path : resolve_json_path(o, path) # {} <=> \E pair \in o.json : pair[1] = path
      BY PathResolves
    <3> HIDE DEF a, b, c, d
    <3> QED BY <3>1, <3>2
  <2>7. c.passes = TRUE <=> m.equals \subseteq o.json
    <3>1. c.passes = TRUE <=> \A pair \in m.equals : resolve_json_path(o, pair[1]) = {pair[2]}
      BY DEF Test
    <3>2. \A pair \in m.equals : resolve_json_path(o, pair[1]) = {pair[2]} <=> pair \in o.json
      BY PathResolves
    <3> HIDE DEF a, b, c, d
    <3> QED BY <3>1, <3>2
  <2>8. d.passes = TRUE
          <=> \A pair \in m.differs : \E p \in o.json : p[1] = pair[1] /\ p[2] # pair[2]
    <3>1. d.passes = TRUE
            <=> \A pair \in m.differs :
                   resolve_json_path(o, pair[1]) # {} /\ pair[2] \notin resolve_json_path(o, pair[1])
      BY DEF Test
    <3>2. \A pair : (/\ resolve_json_path(o, pair[1]) # {}
                     /\ pair[2] \notin resolve_json_path(o, pair[1]))
                    <=> \E p \in o.json : p[1] = pair[1] /\ p[2] # pair[2]
      BY PathResolves
    <3> HIDE DEF a, b, c, d
    <3> QED BY <3>1, <3>2
  <2>9. JsonTests(m, o) = <<a, b, c, d>>
    BY <1>2 DEF JsonTests
  <2> HIDE DEF a, b, c, d
  <2>10. /\ <<a, b, c, d>> \in Seq(Sound)
         /\ AllPass(<<a, b, c, d>>)
              <=> a.passes = TRUE /\ b.passes = TRUE /\ c.passes = TRUE /\ d.passes = TRUE
    BY <2>1, <2>2, <2>3, <2>4, Series
  <2>11. Documented(m, o) => o.json # {}
    BY <1>2 DEF Documented
  <2> QED BY <2>5, <2>6, <2>7, <2>8, <2>9, <2>10, <2>11 DEF Documented
<1> QED BY <1>1, <1>2

\* What the assertions on the body ask of it.
BodyFits(m, o) == m.contains \subseteq o.head /\ m.lacks \cap o.head = {} /\ Documented(m, o)

LEMMA BodyVerdict ==
  ASSUME NEW m, NEW o, o.read \in BOOLEAN, PairsFit(m, o)
  PROVE  /\ BodyTests(m, o) \in Seq(Sound)
         /\ AllPass(BodyTests(m, o)) => BodyFits(m, o)
         /\ BodyFits(m, o) /\ (BodyWanted(m) => o.read /\ o.tail = {}) => AllPass(BodyTests(m, o))
<1>1. CASE ~BodyWanted(m)
  <2>1. BodyTests(m, o) = <<>>
    BY <1>1 DEF BodyTests
  <2>2. AllPass(<<>>) /\ <<>> \in Seq(Sound)
    BY Series DEF AllPass
  <2> QED BY <1>1, <2>1, <2>2 DEF BodyFits, Documented, BodyWanted
<1>2. CASE BodyWanted(m)
  <2> DEFINE a == Test(o.read, "response_read_error")
             b == Test(m.contains \subseteq BodyRead(o), "assertion_failed:body_must_contain")
             c == Test(m.lacks \cap BodyRead(o) = {}, "assertion_failed:body_must_not_contain")
             json == JsonTests(m, o)
  <2>1. a \in Sound
    BY TestIsSound DEF Reason
  <2>2. b \in Sound
    BY DEF Test, Sound, Reason, BodyRead
  <2>3. c \in Sound
    BY DEF Test, Sound, Reason, BodyRead
  <2>4. /\ a.passes = TRUE <=> o.read
        /\ b.passes = TRUE <=> m.contains \subseteq o.head
        /\ c.passes = TRUE <=> m.lacks \cap o.head = {}
    BY DEF Test, BodyRead
  <2>5. BodyTests(m, o) = <<a, b, c>> \o json
    BY <1>2 DEF BodyTests
  <2> HIDE DEF a, b, c
  <2>6. <<a, b, c>> \in Seq(Sound) /\ json \in Seq(Sound)
    BY <2>1, <2>2, <2>3, Series, JsonVerdict
  <2>7. AllPass(json) => Documented(m, o)
    BY JsonVerdict
  <2>8. Documented(m, o) /\ o.tail = {} => AllPass(json)
    BY JsonVerdict
  <2> HIDE DEF json
  <2>9. /\ BodyTests(m, o) \in Seq(Sound)
        /\ AllPass(BodyTests(m, o)) <=> AllPass(<<a, b, c>>) /\ AllPass(json)
    BY <2>5, <2>6, Concatenation
  <2>10. AllPass(<<a, b, c>>) <=> a.passes = TRUE /\ b.passes = TRUE /\ c.passes = TRUE
    BY <2>1, <2>2, <2>3, Series
  <2> QED BY <1>2, <2>4, <2>7, <2>8, <2>9, <2>10 DEF BodyFits
<1> QED BY <1>1, <1>2

LEMMA HttpVerdict ==
  ASSUME NEW m, NEW o, m.kind = "http", ObservationFits(m, o)
  PROVE  /\ check_url(m, o) = "ok" => Deserved(m, o)
         /\ Deserved(m, o) /\ SeenWhole(m, o) => check_url(m, o) = "ok"
<1>1. /\ o.names \in {"public", "private", "unresolved"}
      /\ o.sent \in {"ok", "unreachable", "late", "broken"} /\ o.read \in BOOLEAN
      /\ PairsFit(m, o)
  BY DEF ObservationFits, PairsFit
<1> DEFINE a == Test(o.status # "redirect", "redirect_blocked")
           b == Test(o.status = "expected", "unexpected_status")
           c == Test(~m.timed \/ ~o.slow, "assertion_failed:max_response_time_ms")
           d == Test(evaluate_header_assertion(m.header, o.header), "assertion_failed:header")
           target  == resolve_runtime_target(o.names)
           request == classify_request_error(o.sent)
           body    == BodyTests(m, o)
<1>2. a \in Sound /\ b \in Sound
  BY TestIsSound DEF Reason
<1>3. c \in Sound
  BY DEF Test, Sound, Reason
<1>4. d \in Sound
  BY DEF Test, Sound, Reason, evaluate_header_assertion
<1>5. /\ a.passes = TRUE <=> o.status # "redirect"
      /\ b.passes = TRUE <=> o.status = "expected"
      /\ c.passes = TRUE <=> ~(m.timed /\ o.slow)
  BY DEF Test
<1>6. d.passes = TRUE <=> evaluate_header_assertion(m.header, o.header)
  BY DEF Test, evaluate_header_assertion
<1>7. check_url(m, o) = FirstFailure(target \o request \o <<a, b, c, d>> \o body)
  BY DEF check_url
<1>8. target \in Seq(Sound) /\ (AllPass(target) <=> TargetAllowed(o.names))
  BY <1>1, TargetResolved
<1>9. request \in Seq(Sound) /\ (AllPass(request) <=> o.sent = "ok")
  BY <1>1, RequestClassified
<1>10. body \in Seq(Sound) /\ (AllPass(body) => BodyFits(m, o))
  BY <1>1, BodyVerdict
<1>11. BodyFits(m, o) /\ (BodyWanted(m) => o.read /\ o.tail = {}) => AllPass(body)
  BY <1>1, BodyVerdict
<1> HIDE DEF a, b, c, d, target, request, body
<1>12. /\ <<a, b, c, d>> \in Seq(Sound)
       /\ AllPass(<<a, b, c, d>>)
            <=> a.passes = TRUE /\ b.passes = TRUE /\ c.passes = TRUE /\ d.passes = TRUE
  BY <1>2, <1>3, <1>4, Series
<1>13. check_url(m, o) = "ok"
         <=> AllPass(target) /\ AllPass(request) /\ AllPass(<<a, b, c, d>>) /\ AllPass(body)
  <2>1. target \o request \in Seq(Sound)
    BY <1>8, <1>9, Concatenation
  <2>2. target \o request \o <<a, b, c, d>> \in Seq(Sound)
    BY <1>12, <2>1, Concatenation
  <2>3. target \o request \o <<a, b, c, d>> \o body \in Seq(Sound)
    BY <1>10, <2>2, Concatenation
  <2>4. check_url(m, o) = "ok" <=> AllPass(target \o request \o <<a, b, c, d>>) /\ AllPass(body)
    BY <1>7, <1>10, <2>2, <2>3, NoFailure, Concatenation
  <2>5. AllPass(target \o request \o <<a, b, c, d>>)
          <=> AllPass(target \o request) /\ AllPass(<<a, b, c, d>>)
    BY <1>12, <2>1, Concatenation
  <2> QED BY <1>8, <1>9, <2>4, <2>5, Concatenation
<1>14. Deserved(m, o)
         <=> /\ TargetAllowed(o.names) /\ o.sent = "ok" /\ o.status = "expected"
             /\ ~(m.timed /\ o.slow) /\ evaluate_header_assertion(m.header, o.header)
             /\ m.contains \subseteq o.head \cup o.tail /\ m.lacks \cap o.head = {}
             /\ Documented(m, o)
  BY DEF Deserved, Documented
<1>15. SeenWhole(m, o) <=> (BodyWanted(m) => o.read /\ o.tail = {})
  BY DEF SeenWhole
<1>16. ASSUME check_url(m, o) = "ok" PROVE Deserved(m, o)
  BY <1>5, <1>6, <1>8, <1>9, <1>10, <1>12, <1>13, <1>14, <1>16 DEF BodyFits
<1>17. ASSUME Deserved(m, o), SeenWhole(m, o) PROVE check_url(m, o) = "ok"
  <2>1. BodyFits(m, o)
    BY <1>14, <1>15, <1>17 DEF BodyFits, BodyWanted
  <2>2. AllPass(<<a, b, c, d>>)
    BY <1>5, <1>6, <1>12, <1>14, <1>17
  <2> QED BY <1>8, <1>9, <1>11, <1>13, <1>14, <1>15, <1>17, <2>1, <2>2
<1> QED BY <1>16, <1>17

\* A round of connections that ends well has one that does, and a round without
\* one that times out ends well if one of its connections does.
LEMMA RoundEnds ==
  ASSUME NEW outcomes \in Seq({"ok", "timeout", "connect_error", "ssl_certificate_invalid"}),
         outcomes # <<>>
  PROVE  /\ connect_tls_with_config(outcomes) \in {"ok", "timeout", "connect_error", "ssl_certificate_invalid"}
         /\ connect_tls_with_config(outcomes) = "ok" => \E i \in DOMAIN outcomes : outcomes[i] = "ok"
         /\ (/\ \E i \in DOMAIN outcomes : outcomes[i] = "ok"
             /\ \A i \in DOMAIN outcomes : outcomes[i] # "timeout")
            => connect_tls_with_config(outcomes) = "ok"
<1> DEFINE ends == {i \in DOMAIN outcomes : outcomes[i] \in {"ok", "timeout"}}
<1>1. DOMAIN outcomes = 1..Len(outcomes) /\ Len(outcomes) \in Nat /\ Len(outcomes) \in DOMAIN outcomes
  OBVIOUS
<1>2. ends # {} => \E i \in ends : connect_tls_with_config(outcomes) = outcomes[i]
  <2> SUFFICES ASSUME ends # {} PROVE \E i \in ends : connect_tls_with_config(outcomes) = outcomes[i]
    OBVIOUS
  <2>1. ends \in SUBSET Nat
    BY <1>1
  <2>2. \E i \in ends : \A j \in ends : i <= j
    <3> HIDE DEF ends
    <3> QED BY <2>1, LeastMember
  <2> QED BY <2>2 DEF connect_tls_with_config
<1>3. ends = {} => connect_tls_with_config(outcomes) = outcomes[Len(outcomes)]
  BY DEF connect_tls_with_config
<1>4. \E i \in DOMAIN outcomes : connect_tls_with_config(outcomes) = outcomes[i]
  BY <1>1, <1>2, <1>3
<1> QED BY <1>2, <1>4

\* A number of days that remains is reached in full, and only that.
LEMMA DaysRemain ==
  ASSUME NEW left \in Int, NEW days \in Nat
  PROVE  days_remaining(left) > days <=> left >= (days + 1) * Day
<1>1. Day \in Nat /\ Day > 0
  BY CheckersAssumption
<1>2. CASE left < 0
  <2>1. PICK n \in Nat : n = (-left) \div Day
    BY <1>1, <1>2
  <2>2. days_remaining(left) = -n
    BY <1>2, <2>1 DEF days_remaining
  <2>3. (days + 1) * Day \in Nat
    BY <1>1
  <2> QED BY <1>2, <2>1, <2>2, <2>3
<1>3. CASE left >= 0
  <2>1. PICK n \in Nat : n = left \div Day
    BY <1>1, <1>3
  <2>2. n * Day <= left /\ left < (n + 1) * Day
    BY <1>1, <1>3, <2>1
  <2>3. days_remaining(left) = n
    BY <1>3, <2>1 DEF days_remaining
  <2>4. n > days => (days + 1) * Day <= n * Day
    BY <1>1
  <2>5. n <= days => (n + 1) * Day <= (days + 1) * Day
    BY <1>1
  <2>6. n * Day \in Nat /\ (n + 1) * Day \in Nat /\ (days + 1) * Day \in Nat
    BY <1>1
  <2> QED BY <2>2, <2>3, <2>4, <2>5, <2>6
<1> QED BY <1>2, <1>3

\* The two thresholds, in units of a certificate's validity.
LastsEnough(left, warning) == left >= (CriticalDays + 2) * Day /\ left >= (warning + 1) * Day

LEMMA ExpiryVerdict ==
  ASSUME NEW left \in Int, NEW warning \in Nat
  PROVE  /\ evaluate_certificate_expiry(left, warning) \in Seq(Sound)
         /\ AllPass(evaluate_certificate_expiry(left, warning)) <=> LastsEnough(left, warning)
<1> DEFINE a == Test(days_remaining(left) > CriticalDays, "ssl_certificate_expiring_critical")
           b == Test(days_remaining(left) > WarningDays(warning), "ssl_certificate_expiring_warning")
<1>1. CriticalDays \in Nat /\ Day \in Nat \ {0}
  BY CheckersAssumption
<1>2. a \in Sound
  BY DEF Test, Sound, Reason
<1>3. b \in Sound
  BY DEF Test, Sound, Reason
<1>4. a.passes = TRUE <=> days_remaining(left) > CriticalDays
  BY DEF Test
<1>5. b.passes = TRUE <=> days_remaining(left) > WarningDays(warning)
  BY DEF Test
<1>6. evaluate_certificate_expiry(left, warning) = <<a, b>>
  BY DEF evaluate_certificate_expiry
<1> HIDE DEF a, b
<1>7. PICK w \in Nat : /\ w = WarningDays(warning) /\ w >= CriticalDays + 1 /\ w >= warning
                       /\ w = CriticalDays + 1 \/ w = warning
  BY <1>1 DEF WarningDays
<1>8. /\ a.passes = TRUE <=> left >= (CriticalDays + 1) * Day
      /\ b.passes = TRUE <=> left >= (w + 1) * Day
  BY <1>1, <1>4, <1>5, <1>7, DaysRemain
<1>9. /\ (CriticalDays + 1) * Day <= (w + 1) * Day
      /\ (CriticalDays + 2) * Day <= (w + 1) * Day
      /\ (warning + 1) * Day <= (w + 1) * Day
      /\ w = CriticalDays + 1 => (w + 1) * Day = (CriticalDays + 2) * Day
  BY <1>1, <1>7
<1>10. /\ (CriticalDays + 1) * Day \in Nat /\ (CriticalDays + 2) * Day \in Nat
       /\ (warning + 1) * Day \in Nat /\ (w + 1) * Day \in Nat
  BY <1>1
<1>11. a.passes = TRUE /\ b.passes = TRUE <=> LastsEnough(left, warning)
  BY <1>7, <1>8, <1>9, <1>10 DEF LastsEnough
<1> QED BY <1>2, <1>3, <1>6, <1>11, Series

LEMMA SslVerdict ==
  ASSUME NEW m, NEW o, m.kind = "ssl", ObservationFits(m, o)
  PROVE  /\ check_ssl_certificate(m, o) = "ok" => Deserved(m, o)
         /\ Deserved(m, o) /\ SeenWhole(m, o) => check_ssl_certificate(m, o) = "ok"
<1> DEFINE Outcomes  == {"ok", "timeout", "connect_error", "ssl_certificate_invalid"}
           inspected == connect_tls_with_config(o.inspect)
           validated == connect_tls_with_config(o.validate)
           reason    == IF days_remaining(o.left) < 0 THEN "ssl_certificate_expired" ELSE validated
           a == Test(m.https, "ssl_certificate_invalid")
           b == Test(inspected = "ok", inspected)
           c == Test(validated = "ok", reason)
           target == resolve_runtime_target(o.names)
           expiry == evaluate_certificate_expiry(o.left, m.warning)
<1>1. /\ m.https \in BOOLEAN /\ m.warning \in Nat /\ o.left \in Int
      /\ o.names \in {"public", "private", "unresolved"}
      /\ o.inspect \in Seq(Outcomes) /\ o.inspect # <<>>
      /\ o.validate \in Seq(Outcomes) /\ o.validate # <<>>
  BY DEF ObservationFits
<1>2. /\ inspected \in Outcomes /\ validated \in Outcomes
      /\ inspected = "ok" => \E i \in DOMAIN o.inspect : o.inspect[i] = "ok"
      /\ validated = "ok" => \E i \in DOMAIN o.validate : o.validate[i] = "ok"
  BY <1>1, RoundEnds
<1>3. /\ (/\ \E i \in DOMAIN o.inspect : o.inspect[i] = "ok"
          /\ \A i \in DOMAIN o.inspect : o.inspect[i] # "timeout") => inspected = "ok"
      /\ (/\ \E i \in DOMAIN o.validate : o.validate[i] = "ok"
          /\ \A i \in DOMAIN o.validate : o.validate[i] # "timeout") => validated = "ok"
  BY <1>1, RoundEnds
<1>4. check_ssl_certificate(m, o) = FirstFailure(target \o <<a>> \o <<b, c>> \o expiry)
  BY DEF check_ssl_certificate, probe_tls_certificate
<1>5. a \in Sound /\ (a.passes = TRUE <=> m.https)
  BY <1>1, TestIsSound DEF Reason, Test
<1> HIDE DEF inspected, validated
<1>6. b \in Sound
  BY <1>2 DEF Test, Sound, Reason
<1>7. c \in Sound
  <2>1. reason \in Reason \cup {"ok"} /\ (validated = "ok" \/ reason # "ok")
    BY <1>2 DEF Reason
  <2> HIDE DEF reason
  <2> QED BY <2>1 DEF Test, Sound
<1>8. /\ b.passes = TRUE <=> inspected = "ok"
      /\ c.passes = TRUE <=> validated = "ok"
  BY DEF Test
<1>9. target \in Seq(Sound) /\ (AllPass(target) <=> TargetAllowed(o.names))
  BY <1>1, TargetResolved
<1>10. expiry \in Seq(Sound) /\ (AllPass(expiry) <=> LastsEnough(o.left, m.warning))
  BY <1>1, ExpiryVerdict
<1> HIDE DEF a, b, c, target, expiry
<1>11. /\ <<a>> \in Seq(Sound) /\ <<b, c>> \in Seq(Sound)
       /\ AllPass(<<a>>) <=> a.passes = TRUE
       /\ AllPass(<<b, c>>) <=> b.passes = TRUE /\ c.passes = TRUE
  BY <1>5, <1>6, <1>7, Series
<1>12. check_ssl_certificate(m, o) = "ok"
         <=> AllPass(target) /\ AllPass(<<a>>) /\ AllPass(<<b, c>>) /\ AllPass(expiry)
  <2>1. target \o <<a>> \in Seq(Sound)
    BY <1>9, <1>11, Concatenation
  <2>2. target \o <<a>> \o <<b, c>> \in Seq(Sound)
    BY <1>11, <2>1, Concatenation
  <2>3. target \o <<a>> \o <<b, c>> \o expiry \in Seq(Sound)
    BY <1>10, <2>2, Concatenation
  <2>4. check_ssl_certificate(m, o) = "ok" <=> AllPass(target \o <<a>> \o <<b, c>>) /\ AllPass(expiry)
    BY <1>4, <1>10, <2>2, <2>3, NoFailure, Concatenation
  <2>5. AllPass(target \o <<a>> \o <<b, c>>) <=> AllPass(target \o <<a>>) /\ AllPass(<<b, c>>)
    BY <1>11, <2>1, Concatenation
  <2> QED BY <1>9, <1>11, <2>4, <2>5, Concatenation
<1>13. Deserved(m, o)
         <=> /\ TargetAllowed(o.names) /\ m.https
             /\ \E i \in DOMAIN o.inspect : o.inspect[i] = "ok"
             /\ \E i \in DOMAIN o.validate : o.validate[i] = "ok"
             /\ LastsEnough(o.left, m.warning)
  BY DEF Deserved, LastsEnough
<1>14. SeenWhole(m, o)
         <=> /\ \A i \in DOMAIN o.inspect : o.inspect[i] # "timeout"
             /\ \A i \in DOMAIN o.validate : o.validate[i] # "timeout"
  BY DEF SeenWhole
<1> QED BY <1>2, <1>3, <1>5, <1>8, <1>9, <1>10, <1>11, <1>12, <1>13, <1>14

\* The verdict of every kind of check.
LEMMA Verdict ==
  ASSUME NEW m, NEW o, m.kind \in {"http", "ssl", "tcp", "dns", "heartbeat"}, ObservationFits(m, o)
  PROVE  /\ Check(m, o) = "ok" => Deserved(m, o)
         /\ Deserved(m, o) /\ SeenWhole(m, o) => Check(m, o) = "ok"
<1>1. CASE m.kind = "http"
  BY <1>1, HttpVerdict DEF Check
<1>2. CASE m.kind = "ssl"
  BY <1>2, SslVerdict DEF Check
<1>3. CASE m.kind = "tcp"
  BY <1>3, TcpVerdict DEF Check
<1>4. CASE m.kind = "dns"
  BY <1>4, DnsVerdict DEF Check
<1>5. CASE m.kind = "heartbeat"
  BY <1>5, HeartbeatVerdict DEF Check
<1> QED BY <1>1, <1>2, <1>3, <1>4, <1>5

\* The worker saves what the checker said of the last observation.
LEMMA SavedVerdict ==
  ASSUME LInv, check.phase = "saving"
  PROVE  /\ check.reason = Check(check.mon, check.seen)
         /\ check.reason = "ok" => Deserved(check.mon, check.seen)
         /\ Deserved(check.mon, check.seen) /\ SeenWhole(check.mon, check.seen) => check.reason = "ok"
         /\ is_retryable_check_result(check.reason) => check.attempt = P.max_attempts \/ P.retry_delays = <<>>
<1>1. /\ <<check.mon, check.seen>> \in MayObserve /\ check.mon \in Monitors
      /\ check.reason = Check(check.mon, check.seen)
      /\ is_retryable_check_result(check.reason) => check.attempt = P.max_attempts \/ P.retry_delays = <<>>
  BY DEF LInv, WInv, CheckFits
<1>2. ObservationFits(check.mon, check.seen)
  BY <1>1, ObservationAssumption
<1>3. check.mon.kind \in {"http", "ssl", "tcp", "dns", "heartbeat"}
  BY <1>1, ExecutionAssumption
<1> QED BY <1>1, <1>2, <1>3, Verdict

-----------------------------------------------------------------------------

\* For any monitors and targets, a check is saved as a success only if what its
\* last attempt observed is all that the monitor asks for (check_url,
\* check_ssl_certificate, check_tcp, check_dns, check_heartbeat).
THEOREM SuccessDeserved == Spec => []SuccessIsDeserved
<1>1. LInv => SuccessIsDeserved
  BY SavedVerdict DEF SuccessIsDeserved
<1> QED BY <1>1, LoopInvariant, PTL

\* For any monitors and targets, a check is saved as a failure only if its last
\* attempt missed something of that, or did not see the target whole, and a
\* transient failure only after the last attempt of whatever policy the
\* monitor's overrides give it, or for want of a delay in that policy (the same
\* checkers, and the loop of run_monitor_check_with_retries).
THEOREM FailureDeserved == Spec => []FailureIsDeserved
<1>1. LInv => FailureIsDeserved
  BY SavedVerdict DEF FailureIsDeserved, P
<1> QED BY <1>1, LoopInvariant, PTL
=============================================================================
