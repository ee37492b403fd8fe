--------------------------- MODULE RegistryProofs ---------------------------
(***************************************************************************)
(* Proofs about MonitorRegistry, for any number of sites, monitors, targets*)
(* and requests.  The rows change in three ways only: one is inserted, some*)
(* are made active or inactive, or the target of one is replaced; what is  *)
(* proved of each is then used for the handlers of every kind.             *)
(***************************************************************************)
EXTENDS MonitorRegistry, TLAPS

\* The part of the type invariant about the rows.
RowsFit ==
    /\ row \in [Monitors -> [site : Sites, kind : Kinds, target : Targets \cup Monitors,
                             active : BOOLEAN] \cup {Absent}]
    /\ \A m \in Existing : row[m].target = m <=> row[m].kind = "heartbeat"
    /\ \A m, n \in Existing :
          /\ row[m].site = row[n].site /\ row[m].kind = row[n].kind
          /\ row[m].target = row[n].target
          => m = n

\* What a handler has still to do names what it needs.
RequestFits(r) ==
    /\ r \in [step : Steps, site : PathSites \cup {None}, mon : Monitors \cup {None},
              kind : Kinds \cup {None}, target : Targets \cup {None}, on : BOOLEAN]
    /\ r.step = "replace" => r.mon \in Monitors /\ r.kind \in UrlKinds /\ r.target \in Targets
    /\ r.step = "update" => r.mon \in Monitors
    /\ r.step = "create" => r.site \in Sites

RequestsFit ==
    /\ request \in [Requests -> [step : Steps, site : PathSites \cup {None},
                                 mon : Monitors \cup {None}, kind : Kinds \cup {None},
                                 target : Targets \cup {None}, on : BOOLEAN]]
    /\ \A q \in Requests : RequestFits(request[q])

HistoryFits ==
    /\ failing \subseteq Existing /\ checking \subseteq Existing
    /\ abandoned \subseteq failing /\ overlapped \subseteq Sites

\* Who creates a site's heartbeat monitor found none, and is alone.
CreatorsAreAlone ==
    \A s \in Sites \ overlapped : \A q \in Creating(s) :
        Of(s, "heartbeat") = {} /\ Creating(s) = {q}

RInv == /\ RowsFit /\ RequestsFit /\ HistoryFits
        /\ InactiveIncidentsAreClosed /\ HeartbeatIsUnique /\ CreatorsAreAlone

-----------------------------------------------------------------------------
(* The ways in which rows change.                                          *)

\* No row disappears or moves to another site or kind; `new' are the rows that
\* come into being.
RowsStay(new) ==
    /\ Existing' = Existing \cup new
    /\ \A m \in Existing : row'[m].site = row[m].site /\ row'[m].kind = row[m].kind

LEMMA SetActiveRows ==
  ASSUME RowsFit, NEW M \in SUBSET Existing, NEW on \in BOOLEAN, SetActive(M, on)
  PROVE  /\ RowsFit' /\ RowsStay({})
         /\ \A m \in M : row'[m].active = on
         /\ \A m \in Monitors \ M : row'[m] = row[m]
<1>1. \A m \in Existing : row[m] \in [site : Sites, kind : Kinds, target : Targets \cup Monitors,
                                      active : BOOLEAN]
  BY DEF RowsFit, Existing
<1>2. \A m \in M : /\ row'[m] \in [site : Sites, kind : Kinds, target : Targets \cup Monitors,
                                   active : BOOLEAN]
                   /\ row'[m].active = on /\ row'[m].site = row[m].site
                   /\ row'[m].kind = row[m].kind /\ row'[m].target = row[m].target
  BY <1>1 DEF SetActive, Existing
<1>3. \A m \in Monitors \ M : row'[m] = row[m]
  BY DEF SetActive
<1>4. row' \in [Monitors -> [site : Sites, kind : Kinds, target : Targets \cup Monitors,
                             active : BOOLEAN] \cup {Absent}]
  BY <1>2, <1>3 DEF SetActive, RowsFit, Existing
<1>5. Existing' = Existing
  <2>1. \A m \in M : row'[m] # Absent
    BY <1>2, RegistryAssumption DEF Absent
  <2> QED BY <2>1, <1>3 DEF Existing
<1>6. \A m \in Existing : /\ row'[m].site = row[m].site /\ row'[m].kind = row[m].kind
                          /\ row'[m].target = row[m].target
  BY <1>2, <1>3 DEF Existing
<1> QED BY <1>2, <1>3, <1>4, <1>5, <1>6 DEF RowsFit, RowsStay

LEMMA InsertRows ==
  ASSUME RowsFit, NEW m \in Monitors, NEW s \in Sites, NEW kind \in Kinds,
         NEW t \in Targets \cup Monitors, NEW on \in BOOLEAN, InsertRow(m, s, kind, t, on),
         kind = "heartbeat" => t = m,
         kind # "heartbeat" => t \in Targets /\ Having(s, kind, t) = {}
  PROVE  /\ RowsFit' /\ RowsStay({m}) /\ m \notin Existing
         /\ row'[m].site = s /\ row'[m].kind = kind
         /\ \A n \in Monitors \ {m} : row'[n] = row[n]
<1>1. /\ row'[m] = [site |-> s, kind |-> kind, target |-> t, active |-> on]
      /\ \A n \in Monitors \ {m} : row'[n] = row[n]
      /\ m \notin Existing
  BY DEF InsertRow, RowsFit
<1>2. t \in Targets \cup Monitors /\ (t = m <=> kind = "heartbeat")
  BY RegistryAssumption
<1>3. row' \in [Monitors -> [site : Sites, kind : Kinds, target : Targets \cup Monitors,
                             active : BOOLEAN] \cup {Absent}]
  BY <1>1, <1>2 DEF InsertRow, RowsFit
<1>4. row'[m] # Absent
  BY <1>1, RegistryAssumption DEF Absent
<1>5. Existing' = Existing \cup {m}
  BY <1>1, <1>4 DEF Existing
<1>6. \A n \in Existing : row'[n] = row[n]
  BY <1>1 DEF Existing
<1>7. \A n \in Existing : (row'[n].target = n <=> row'[n].kind = "heartbeat")
  BY <1>6 DEF RowsFit
<1>8. \A n \in Existing : ~(row[n].site = s /\ row[n].kind = kind /\ row[n].target = t)
  <2>1. CASE kind = "heartbeat"
    BY <2>1, <1>1 DEF RowsFit
  <2>2. CASE kind # "heartbeat"
    BY <2>2 DEF Having, Of
  <2> QED BY <2>1, <2>2
<1>9. \A n, o \in Existing' :
        /\ row'[n].site = row'[o].site /\ row'[n].kind = row'[o].kind
        /\ row'[n].target = row'[o].target
        => n = o
  BY <1>1, <1>5, <1>6, <1>8 DEF RowsFit
<1> QED BY <1>1, <1>2, <1>3, <1>5, <1>6, <1>7, <1>9 DEF RowsFit, RowsStay

LEMMA ReplaceRows ==
  ASSUME RowsFit, NEW m \in Monitors, NEW s, NEW kind \in UrlKinds, NEW t \in Targets,
         NEW on \in BOOLEAN, IsOne(m, s, kind), Having(s, kind, t) \ {m} = {},
         row' = [row EXCEPT ![m].target = t, ![m].active = on]
  PROVE  /\ RowsFit' /\ RowsStay({})
         /\ row'[m].active = on
         /\ \A n \in Monitors \ {m} : row'[n] = row[n]
<1>1. /\ m \in Existing /\ row[m].site = s /\ row[m].kind = kind
      /\ row[m] \in [site : Sites, kind : Kinds, target : Targets \cup Monitors, active : BOOLEAN]
  BY DEF IsOne, Of, RowsFit, Existing
<1>2. /\ row'[m] \in [site : Sites, kind : Kinds, target : Targets \cup Monitors, active : BOOLEAN]
      /\ row'[m].site = s /\ row'[m].kind = kind /\ row'[m].target = t /\ row'[m].active = on
  BY <1>1 DEF RowsFit
<1>3. \A n \in Monitors \ {m} : row'[n] = row[n]
  BY DEF RowsFit
<1>4. row' \in [Monitors -> [site : Sites, kind : Kinds, target : Targets \cup Monitors,
                             active : BOOLEAN] \cup {Absent}]
  BY <1>2, <1>3 DEF RowsFit
<1>5. Existing' = Existing
  <2>1. row'[m] # Absent
    BY <1>2, <1>1, RegistryAssumption DEF Absent
  <2> QED BY <2>1, <1>1, <1>3 DEF Existing
<1>6. t # m /\ kind # "heartbeat"
  BY RegistryAssumption DEF UrlKinds
<1>7. \A n \in Existing \ {m} : ~(row[n].site = s /\ row[n].kind = kind /\ row[n].target = t)
  BY DEF Having, Of
<1>8. \A n \in Existing : row'[n].target = n <=> row'[n].kind = "heartbeat"
  BY <1>2, <1>3, <1>6 DEF RowsFit, Existing
<1>9. \A n, o \in Existing :
        /\ row'[n].site = row'[o].site /\ row'[n].kind = row'[o].kind
        /\ row'[n].target = row'[o].target
        => n = o
  <2>1. \A n \in Existing \ {m} : n \in Monitors \ {m}
    BY DEF Existing
  <2> QED BY <2>1, <1>1, <1>2, <1>3, <1>7 DEF RowsFit
<1>10. \A n \in Existing : row'[n].site = row[n].site /\ row'[n].kind = row[n].kind
  BY <1>1, <1>2, <1>3 DEF Existing
<1> QED BY <1>2, <1>3, <1>4, <1>5, <1>8, <1>9, <1>10 DEF RowsFit, RowsStay

-----------------------------------------------------------------------------
(* What a handler does to a row.                                           *)

LEMMA IdleFits == RequestFits(Idle) /\ Idle.step = "idle"
BY DEF RequestFits, Idle, Steps

\* A handler that resolves incidents next.
GoingToResolve(s, m) == [Idle EXCEPT !.step = "resolve", !.site = s, !.mon = m]

LEMMA ResolveFits ==
  ASSUME NEW s \in PathSites \cup {None}, NEW m \in Monitors \cup {None}
  PROVE  LET st == GoingToResolve(s, m) IN
         RequestFits(st) /\ st.step = "resolve" /\ st.site = s /\ st.mon = m
BY DEF GoingToResolve, RequestFits, Idle, Steps

\* A step of a handler that goes on to st, and is going to resolve the incidents
\* of what it makes inactive.
LEMMA HandlerStores ==
  ASSUME RInv, NEW q \in Requests, request[q].step # "resolve",
         NEW st, RequestFits(st), Goes(q, st),
         NEW new \in SUBSET (Monitors \ Existing), RowsStay(new),
         failing' = failing, checking' = checking, overlapped' \subseteq Sites, abandoned' \subseteq abandoned,
         \A m \in failing :
            ~row'[m].active =>
               \/ ~row[m].active /\ (m \in abandoned => m \in abandoned')
               \/ st.step = "resolve" /\ IF st.mon = None THEN row[m].site = st.site ELSE m = st.mon
  PROVE  RequestsFit' /\ HistoryFits' /\ InactiveIncidentsAreClosed'
<1>1. /\ request'[q] = st
      /\ \A p \in Requests \ {q} : request'[p] = request[p]
  BY DEF Goes, RInv, RequestsFit
<1>2. RequestsFit'
  <2>1. request' \in [Requests -> [step : Steps, site : PathSites \cup {None},
                                  mon : Monitors \cup {None}, kind : Kinds \cup {None},
                                  target : Targets \cup {None}, on : BOOLEAN]]
    BY DEF Goes, RInv, RequestsFit, RequestFits
  <2>2. \A p \in Requests : RequestFits(request'[p])
    BY <1>1 DEF RInv, RequestsFit
  <2> QED BY <2>1, <2>2 DEF RequestsFit, RequestFits
<1>3. HistoryFits'
  BY DEF RInv, HistoryFits, RowsStay
<1>4. ASSUME NEW m \in failing, ~row'[m].active, m \notin abandoned'
      PROVE  \E p \in Requests : request'[p].step = "resolve" /\ m \in Covered(request[p])'
  <2>1. m \in Existing /\ m \in Existing' /\ row'[m].site = row[m].site
    BY DEF RInv, HistoryFits, RowsStay
  <2>2. CASE ~row[m].active /\ m \notin abandoned
    <3>1. PICK p \in Requests : request[p].step = "resolve" /\ m \in Covered(request[p])
      BY <2>2 DEF RInv, InactiveIncidentsAreClosed
    <3>2. request'[p] = request[p]
      BY <3>1, <1>1
    <3> QED BY <2>1, <3>1, <3>2 DEF Covered
  <2>3. CASE st.step = "resolve" /\ IF st.mon = None THEN row[m].site = st.site ELSE m = st.mon
    BY <2>1, <2>3, <1>1 DEF Covered
  <2> QED BY <1>4, <2>2, <2>3
<1> QED BY <1>2, <1>3, <1>4 DEF InactiveIncidentsAreClosed

\* If it creates no heartbeat monitor either, the invariant holds.
LEMMA HandlerStep ==
  ASSUME RInv, NEW q \in Requests, request[q].step # "resolve",
         NEW st, RequestFits(st), st.step # "create", Goes(q, st),
         NEW new \in SUBSET (Monitors \ Existing), RowsFit', RowsStay(new),
         \A m \in new : row'[m].kind # "heartbeat",
         failing' = failing, checking' = checking, overlapped' = overlapped, abandoned' \subseteq abandoned,
         \A m \in failing :
            ~row'[m].active =>
               \/ ~row[m].active /\ (m \in abandoned => m \in abandoned')
               \/ st.step = "resolve" /\ IF st.mon = None THEN row[m].site = st.site ELSE m = st.mon
  PROVE  RInv'
<1>1. RequestsFit' /\ HistoryFits' /\ InactiveIncidentsAreClosed'
  BY HandlerStores DEF RInv, HistoryFits
<1>2. \A s \in Sites : Of(s, "heartbeat")' = Of(s, "heartbeat")
  BY DEF Of, RowsStay
<1>3. HeartbeatIsUnique'
  BY <1>2 DEF RInv, HeartbeatIsUnique
<1>4. \A s \in Sites : Creating(s)' \subseteq Creating(s)
  BY DEF Goes, RInv, RequestsFit, Creating
<1>5. CreatorsAreAlone'
  BY <1>2, <1>4 DEF RInv, CreatorsAreAlone
<1> QED BY <1>1, <1>3, <1>5 DEF RInv

\* The handler ends, or goes on to another statement; nothing has changed.
LEMMA NothingStored ==
  ASSUME RInv, NEW q \in Requests, request[q].step # "resolve",
         NEW st, RequestFits(st), st.step # "create", Goes(q, st),
         UNCHANGED <<row, failing, checking, abandoned, overlapped>>
  PROVE  RInv'
<1>1. RowsFit' /\ RowsStay({})
  BY DEF RInv, RowsFit, RowsStay, Existing
<1> QED BY <1>1, HandlerStep

LEMMA RefusesKeeps ==
  ASSUME RInv, NEW q \in Requests, request[q].step # "resolve", Refuses(q)
  PROVE  RInv'
BY NothingStored, IdleFits DEF Refuses, Answers

\* The monitors M are made inactive, and the incidents of a site or of the one
\* monitor in M are resolved next.
LEMMA TurnsOff ==
  ASSUME RInv, NEW q \in Requests, request[q].step # "resolve", NEW M \in SUBSET Existing,
         NEW s \in PathSites \cup {None}, NEW m \in Monitors \cup {None},
         \A n \in M : IF m = None THEN row[n].site = s ELSE n = m,
         SetActive(M, FALSE), ThenResolves(q, s, m, M), UNCHANGED <<failing, checking, overlapped>>
  PROVE  RInv'
<1> DEFINE st == GoingToResolve(s, m)
<1>1. RequestFits(st) /\ st.step = "resolve" /\ st.site = s /\ st.mon = m
  BY ResolveFits
<1>2. Goes(q, st) /\ abandoned' = abandoned \ M
  BY DEF ThenResolves, GoingToResolve
<1>3. /\ RowsFit' /\ RowsStay({})
      /\ \A n \in Monitors \ M : row'[n] = row[n]
  BY SetActiveRows DEF RInv
<1>4. failing \subseteq Monitors
  BY DEF RInv, HistoryFits, Existing
<1> HIDE DEF st
<1> QED BY <1>1, <1>2, <1>3, <1>4, HandlerStep

\* The rows have become what the payload for monitor m says.
LEMMA StoredKeeps ==
  ASSUME RInv, NEW q \in Requests, request[q].step # "resolve", NEW m \in Monitors, NEW on \in BOOLEAN,
         NEW new \in SUBSET (Monitors \ Existing), RowsFit', RowsStay(new),
         \A n \in new : row'[n].kind # "heartbeat",
         \A n \in Monitors \ {m} : row'[n] = row[n],
         m \in Existing => row'[m].active = on,
         Stored(q, m, on), UNCHANGED <<failing, checking, overlapped>>
  PROVE  RInv'
<1>1. failing \subseteq Existing /\ failing \subseteq Monitors
  BY DEF RInv, HistoryFits, Existing
<1>2. CASE on
  <2>1. Goes(q, Idle) /\ abandoned' = abandoned
    BY <1>2 DEF Stored, Answers
  <2>2. \A n \in failing : ~row'[n].active => ~row[n].active
    BY <1>1, <1>2
  <2> QED BY <2>1, <2>2, <1>1, IdleFits, HandlerStep
<1>3. CASE ~on
  <2> DEFINE st == GoingToResolve(None, m)
  <2>1. RequestFits(st) /\ st.step = "resolve" /\ st.mon = m
    <3>1. None \in PathSites \cup {None} /\ m \in Monitors \cup {None}
      OBVIOUS
    <3> QED BY <3>1, ResolveFits
  <2>2. Goes(q, st) /\ abandoned' = abandoned \ {m}
    BY <1>3 DEF Stored, ThenResolves, GoingToResolve
  <2>3. \A n \in failing : n # m => row'[n] = row[n]
    BY <1>1
  <2>4. m # None
    BY RegistryAssumption
  <2> HIDE DEF st
  <2> QED BY <2>1, <2>2, <2>3, <2>4, HandlerStep
<1> QED BY <1>2, <1>3

-----------------------------------------------------------------------------
(* The handlers.  A request begins from the idle state, and the statements *)
(* of a later step from a step of their own: never from "resolve".         *)

LEMMA UpsertKeeps ==
  ASSUME RInv, NEW q \in Requests, request[q].step # "resolve",
         NEW kind \in UrlKinds, NEW s \in PathSites, NEW t \in Targets, NEW on \in BOOLEAN,
         Upsert(q, kind, s, t, on)
  PROVE  RInv'
<1>1. CASE s \notin Sites
  BY <1>1, RefusesKeeps DEF Upsert
<1>2. CASE s \in Sites
  <2>1. PICK m \in Monitors :
          /\ IF Having(s, kind, t) = {} THEN InsertRow(m, s, kind, t, on)
             ELSE m \in Having(s, kind, t) /\ SetActive({m}, on)
          /\ Stored(q, m, on) /\ UNCHANGED <<failing, checking, overlapped>>
    BY <1>2 DEF Upsert
  <2>2. CASE Having(s, kind, t) = {}
    <3>1. kind \in Kinds /\ kind # "heartbeat"
      BY DEF Kinds, UrlKinds
    <3>2. /\ RowsFit' /\ RowsStay({m}) /\ m \notin Existing /\ row'[m].kind = kind
          /\ \A n \in Monitors \ {m} : row'[n] = row[n]
      BY <1>2, <2>1, <2>2, <3>1, InsertRows DEF RInv
    <3> QED BY <2>1, <3>1, <3>2, StoredKeeps
  <2>3. CASE Having(s, kind, t) # {}
    <3>1. m \in Existing /\ SetActive({m}, on)
      BY <2>1, <2>3 DEF Having, Of
    <3>2. /\ RowsFit' /\ RowsStay({}) /\ row'[m].active = on
          /\ \A n \in Monitors \ {m} : row'[n] = row[n]
      BY <3>1, SetActiveRows DEF RInv
    <3> QED BY <2>1, <3>1, <3>2, StoredKeeps
  <2> QED BY <2>2, <2>3
<1> QED BY <1>1, <1>2

LEMMA LookupOtherKeeps ==
  ASSUME RInv, NEW q \in Requests, request[q].step # "resolve",
         NEW kind \in UrlKinds, NEW s \in PathSites, NEW m \in Monitors, NEW t \in Targets,
         NEW on \in BOOLEAN, LookupOther(q, kind, s, m, t, on)
  PROVE  RInv'
<1>1. CASE s \notin Sites \/ Having(s, kind, t) \ {m} # {}
  BY <1>1, RefusesKeeps DEF LookupOther
<1>2. CASE ~(s \notin Sites \/ Having(s, kind, t) \ {m} # {})
  <2> DEFINE st == [step |-> "replace", site |-> s, mon |-> m, kind |-> kind, target |-> t, on |-> on]
  <2>1. RequestFits(st) /\ st.step # "create"
    BY DEF RequestFits, Steps, Kinds
  <2>2. Goes(q, st) /\ UNCHANGED <<row, failing, checking, abandoned, overlapped>>
    BY <1>2 DEF LookupOther
  <2> HIDE DEF st
  <2> QED BY <2>1, <2>2, NothingStored
<1> QED BY <1>1, <1>2

LEMMA ReplaceKeeps ==
  ASSUME RInv, NEW q \in Requests, Replace(q)
  PROVE  RInv'
<1> DEFINE r == request[q]
<1>1. r.step = "replace" /\ r.mon \in Monitors /\ r.kind \in UrlKinds /\ r.target \in Targets
      /\ r.on \in BOOLEAN
  BY DEF Replace, RInv, RequestsFit, RequestFits
<1>2. r.step # "resolve"
  BY <1>1
<1>3. CASE ~IsOne(r.mon, r.site, r.kind) \/ Having(r.site, r.kind, r.target) \ {r.mon} # {}
  BY <1>2, <1>3, RefusesKeeps DEF Replace
<1>4. CASE ~(~IsOne(r.mon, r.site, r.kind) \/ Having(r.site, r.kind, r.target) \ {r.mon} # {})
  <2>1. /\ row' = [row EXCEPT ![r.mon].target = r.target, ![r.mon].active = r.on]
        /\ Stored(q, r.mon, r.on) /\ UNCHANGED <<failing, checking, overlapped>>
    BY <1>4 DEF Replace
  <2> HIDE DEF r
  <2>2. /\ RowsFit' /\ RowsStay({}) /\ row'[r.mon].active = r.on
        /\ \A n \in Monitors \ {r.mon} : row'[n] = row[n]
    BY <1>1, <1>4, <2>1, ReplaceRows DEF RInv
  <2> QED BY <1>1, <1>2, <2>1, <2>2, StoredKeeps DEF r
<1> QED BY <1>3, <1>4

LEMMA DisableKindKeeps ==
  ASSUME RInv, NEW q \in Requests, request[q].step # "resolve",
         NEW kind \in Kinds, NEW s \in PathSites, DisableKind(q, kind, s)
  PROVE  RInv'
<1> DEFINE on == {m \in Of(s, kind) : row[m].active}
<1>1. CASE on = {}
  BY <1>1, RefusesKeeps DEF DisableKind
<1>2. CASE on # {}
  <2>1. SetActive(on, FALSE) /\ ThenResolves(q, s, None, on) /\ UNCHANGED <<failing, checking, overlapped>>
    BY <1>2 DEF DisableKind
  <2>2. on \in SUBSET Existing /\ \A n \in on : row[n].site = s
    BY DEF Of
  <2> HIDE DEF on
  <2> QED BY <2>1, <2>2, TurnsOff
<1> QED BY <1>1, <1>2

LEMMA TurnOneOff ==
  ASSUME RInv, NEW q \in Requests, request[q].step # "resolve", NEW m \in Existing,
         SetActive({m}, FALSE), ThenResolves(q, None, m, {m}), UNCHANGED <<failing, checking, overlapped>>
  PROVE  RInv'
<1>1. m \in Monitors /\ m # None
  BY RegistryAssumption DEF Existing
<1>2. {m} \in SUBSET Existing /\ \A n \in {m} : n = m
  OBVIOUS
<1> QED BY <1>1, <1>2, TurnsOff

LEMMA DisableOneKeeps ==
  ASSUME RInv, NEW q \in Requests, request[q].step # "resolve",
         NEW kind \in Kinds, NEW s \in PathSites, NEW m \in Monitors, DisableOne(q, kind, s, m)
  PROVE  RInv'
<1>1. CASE ~IsOne(m, s, kind) \/ ~row[m].active
  BY <1>1, RefusesKeeps DEF DisableOne
<1>2. CASE IsOne(m, s, kind) /\ row[m].active
  BY <1>2, TurnOneOff DEF DisableOne, IsOne, Of
<1> QED BY <1>1, <1>2

LEMMA PauseKeeps ==
  ASSUME RInv, NEW q \in Requests, request[q].step # "resolve",
         NEW kind \in Kinds, NEW s \in PathSites, NEW m \in Monitors, Pause(q, kind, s, m)
  PROVE  RInv'
<1>1. CASE ~IsOne(m, s, kind)
  BY <1>1, RefusesKeeps DEF Pause
<1>2. CASE IsOne(m, s, kind)
  BY <1>2, TurnOneOff DEF Pause, IsOne, Of
<1> QED BY <1>1, <1>2

\* One monitor is made active or inactive, as a payload says.
LEMMA SetOne ==
  ASSUME RInv, NEW q \in Requests, request[q].step # "resolve",
         NEW m \in Existing, NEW on \in BOOLEAN,
         SetActive({m}, on), Stored(q, m, on), UNCHANGED <<failing, checking, overlapped>>
  PROVE  RInv'
<1>1. m \in Monitors
  BY DEF Existing
<1>2. /\ RowsFit' /\ RowsStay({}) /\ row'[m].active = on
      /\ \A n \in Monitors \ {m} : row'[n] = row[n]
  BY SetActiveRows DEF RInv
<1> QED BY <1>1, <1>2, StoredKeeps

LEMMA ResumeKeeps ==
  ASSUME RInv, NEW q \in Requests, request[q].step # "resolve",
         NEW kind \in Kinds, NEW s \in PathSites, NEW m \in Monitors, Resume(q, kind, s, m)
  PROVE  RInv'
<1>1. CASE ~IsOne(m, s, kind)
  BY <1>1, RefusesKeeps DEF Resume
<1>2. CASE IsOne(m, s, kind)
  <2>1. m \in Existing /\ SetActive({m}, TRUE) /\ Stored(q, m, TRUE)
        /\ UNCHANGED <<failing, checking, overlapped>>
    BY <1>2 DEF Resume, IsOne, Of, Stored
  <2> QED BY <2>1, SetOne
<1> QED BY <1>1, <1>2

LEMMA UpdateHeartbeatKeeps ==
  ASSUME RInv, NEW q \in Requests, request[q].step # "resolve",
         NEW s, NEW m \in Monitors, NEW on \in BOOLEAN, update_heartbeat_site_monitor(q, s, m, on)
  PROVE  RInv'
<1>1. CASE s \notin Sites \/ ~IsOne(m, s, "heartbeat")
  BY <1>1, RefusesKeeps DEF update_heartbeat_site_monitor
<1>2. CASE s \in Sites /\ IsOne(m, s, "heartbeat")
  <2>1. m \in Existing /\ SetActive({m}, on) /\ Stored(q, m, on)
        /\ UNCHANGED <<failing, checking, overlapped>>
    BY <1>2 DEF update_heartbeat_site_monitor, IsOne, Of
  <2> QED BY <2>1, SetOne
<1> QED BY <1>1, <1>2

LEMMA UpdateFoundKeeps ==
  ASSUME RInv, NEW q \in Requests, UpdateFound(q)
  PROVE  RInv'
<1>1. /\ request[q].step # "resolve" /\ request[q].mon \in Monitors
      /\ request[q].on \in BOOLEAN
  BY DEF UpdateFound, RInv, RequestsFit, RequestFits
<1> QED BY <1>1, UpdateHeartbeatKeeps DEF UpdateFound

LEMMA FailsKeeps ==
  ASSUME RInv, NEW q \in Requests, Fails(q)
  PROVE  RInv'
BY RefusesKeeps DEF Fails

\* The lookup before a heartbeat monitor is updated or created: if it finds none,
\* q is the only one to create it unless the site is overlapped from now on.
LEMMA UpsertHeartbeatKeeps ==
  ASSUME RInv, NEW q \in Requests, request[q] = Idle, NEW s \in PathSites, NEW on \in BOOLEAN,
         upsert_heartbeat_site_monitor(q, s, on)
  PROVE  RInv'
<1> DEFINE found == Of(s, "heartbeat")
<1>1. request[q].step # "resolve" /\ request[q].step # "create"
  BY DEF Idle
<1>2. CASE s \notin Sites
  BY <1>1, <1>2, RefusesKeeps DEF upsert_heartbeat_site_monitor
<1>3. CASE s \in Sites /\ found # {}
  <2>1. PICK m \in found :
          Goes(q, [Idle EXCEPT !.step = "update", !.site = s, !.mon = m, !.on = on])
    BY <1>3 DEF upsert_heartbeat_site_monitor
  <2> DEFINE st == [Idle EXCEPT !.step = "update", !.site = s, !.mon = m, !.on = on]
  <2>2. RequestFits(st) /\ st.step # "create"
    BY DEF RequestFits, Idle, Steps, Of, Existing
  <2>3. UNCHANGED <<row, failing, checking, abandoned, overlapped>>
    BY <1>3 DEF upsert_heartbeat_site_monitor
  <2> HIDE DEF st
  <2> QED BY <1>1, <2>1, <2>2, <2>3, NothingStored DEF st
<1>4. CASE s \in Sites /\ found = {}
  <2> DEFINE st == [Idle EXCEPT !.step = "create", !.site = s, !.on = on]
  <2>1. /\ Goes(q, st)
        /\ overlapped' = IF Creating(s) # {} THEN overlapped \cup {s} ELSE overlapped
        /\ UNCHANGED <<row, failing, checking, abandoned>>
    BY <1>4 DEF upsert_heartbeat_site_monitor
  <2>2. RequestFits(st) /\ st.step = "create" /\ st.site = s
    BY <1>4 DEF RequestFits, Idle, Steps
  <2> HIDE DEF st
  <2>3. RowsFit' /\ RowsStay({}) /\ \A o \in Sites : Of(o, "heartbeat")' = Of(o, "heartbeat")
    BY <2>1 DEF RInv, RowsFit, RowsStay, Existing, Of
  <2>4. overlapped' \subseteq Sites /\ overlapped \subseteq overlapped'
    BY <1>4, <2>1 DEF RInv, HistoryFits
  <2>5. RequestsFit' /\ HistoryFits' /\ InactiveIncidentsAreClosed'
    BY <1>1, <2>1, <2>2, <2>3, <2>4, HandlerStores
  <2>6. HeartbeatIsUnique'
    BY <2>3, <2>4 DEF RInv, HeartbeatIsUnique
  <2>7. /\ \A o \in Sites \ {s} : Creating(o)' = Creating(o)
        /\ Creating(s)' = Creating(s) \cup {q}
    BY <1>1, <2>1, <2>2 DEF Creating, Goes, RInv, RequestsFit
  <2>8. CreatorsAreAlone'
    BY <1>4, <2>1, <2>3, <2>4, <2>7 DEF RInv, CreatorsAreAlone
  <2> QED BY <2>3, <2>5, <2>6, <2>8 DEF RInv
<1> QED BY <1>2, <1>3, <1>4

LEMMA CreateMissingKeeps ==
  ASSUME RInv, NEW q \in Requests, CreateMissing(q)
  PROVE  RInv'
<1>1. PICK s \in Sites : /\ request[q].step = "create" /\ s = request[q].site
                        /\ request[q].on \in BOOLEAN /\ q \in Creating(s)
  BY DEF CreateMissing, RInv, RequestsFit, RequestFits, Creating
<1>2. PICK m \in Monitors : InsertRow(m, s, "heartbeat", m, request[q].on) /\ Stored(q, m, request[q].on)
  BY <1>1 DEF CreateMissing
<1>3. failing' = failing /\ checking' = checking /\ overlapped' = overlapped
  BY DEF CreateMissing
<1>4. /\ RowsFit' /\ RowsStay({m}) /\ m \notin Existing
      /\ row'[m].site = s /\ row'[m].kind = "heartbeat"
      /\ \A n \in Monitors \ {m} : row'[n] = row[n]
  <2>1. "heartbeat" \in Kinds /\ RowsFit
    BY DEF Kinds, RInv
  <2>2. PICK kind \in Kinds, t \in Targets \cup Monitors, on \in BOOLEAN :
           kind = "heartbeat" /\ t = m /\ InsertRow(m, s, kind, t, on)
    BY <1>1, <1>2, <2>1
  <2>3. /\ m \notin Existing
        /\ row'[m].site = s /\ row'[m].kind = "heartbeat"
        /\ \A n \in Monitors \ {m} : row'[n] = row[n]
    BY <1>2, <2>1 DEF InsertRow, RowsFit
  <2>4. RowsFit'
    BY <2>1, <2>2, InsertRows
  <2>5. RowsStay({m})
    BY <2>1, <2>2, InsertRows
  <2> QED BY <2>3, <2>4, <2>5
<1>5. \A n \in failing : ~row'[n].active => ~row[n].active
  BY <1>4 DEF RInv, HistoryFits, Existing
<1>6. \E st : /\ Goes(q, st) /\ RequestFits(st) /\ st.step # "create"
              /\ abandoned' = abandoned
  <2>1. CASE request[q].on
    BY <1>2, <2>1, IdleFits DEF Stored, Answers
  <2>2. CASE ~request[q].on
    <3>1. /\ Goes(q, GoingToResolve(None, m))
          /\ abandoned' = abandoned \ {m}
      BY <1>2, <2>2 DEF Stored, ThenResolves, GoingToResolve
    <3>2. abandoned' = abandoned
      BY <1>4, <3>1 DEF RInv, HistoryFits
    <3> DEFINE st == GoingToResolve(None, m)
    <3>3. RequestFits(st) /\ st.step = "resolve"
      BY ResolveFits
    <3> HIDE DEF st
    <3> QED BY <3>1, <3>2, <3>3 DEF st
  <2> QED BY <2>1, <2>2
<1>7. PICK st : /\ Goes(q, st) /\ RequestFits(st) /\ st.step # "create"
                /\ abandoned' = abandoned
  BY <1>6
<1>8. RequestsFit' /\ HistoryFits' /\ InactiveIncidentsAreClosed'
  BY <1>1, <1>3, <1>4, <1>5, <1>7, HandlerStores DEF RInv, HistoryFits
<1>9. /\ \A o \in Sites \ {s} : Of(o, "heartbeat")' = Of(o, "heartbeat")
      /\ Of(s, "heartbeat")' = Of(s, "heartbeat") \cup {m}
  BY <1>4 DEF Of, RowsStay
<1>10. /\ \A o \in Sites : Creating(o)' \subseteq Creating(o)
       /\ q \notin Creating(s)'
  BY <1>7 DEF Creating, Goes, RInv, RequestsFit
<1>11. s \notin overlapped => Of(s, "heartbeat") = {} /\ Creating(s)' = {}
  BY <1>1, <1>10 DEF RInv, CreatorsAreAlone
<1>12. HeartbeatIsUnique' /\ CreatorsAreAlone'
  BY <1>3, <1>9, <1>10, <1>11 DEF RInv, HeartbeatIsUnique, CreatorsAreAlone
<1> QED BY <1>4, <1>8, <1>12 DEF RInv

-----------------------------------------------------------------------------
(* The second statement of a handler, and the checks.                      *)

\* The rows stay as they are; an incident that is open and of an inactive
\* monitor is one that was.
LEMMA IncidentStep ==
  ASSUME RInv, row' = row, overlapped' = overlapped, HistoryFits', RequestsFit',
         InactiveIncidentsAreClosed', \A s \in Sites : Creating(s)' \subseteq Creating(s)
  PROVE  RInv'
<1>1. RowsFit' /\ \A s \in Sites : Of(s, "heartbeat")' = Of(s, "heartbeat")
  BY DEF RInv, RowsFit, Existing, Of
<1> QED BY <1>1 DEF RInv, HeartbeatIsUnique, CreatorsAreAlone

LEMMA ResolveKeeps ==
  ASSUME RInv, NEW q \in Requests, Resolve(q) \/ ResolveFails(q)
  PROVE  RInv'
<1>1. /\ request'[q] = Idle
      /\ \A p \in Requests \ {q} : request'[p] = request[p]
      /\ row' = row /\ overlapped' = overlapped /\ Existing' = Existing
  BY DEF Resolve, ResolveFails, Answers, Goes, RInv, RequestsFit, Existing
<1>2. RequestsFit' /\ \A s \in Sites : Creating(s)' \subseteq Creating(s)
  <2>1. \A p \in Requests : RequestFits(request'[p])
    BY <1>1, IdleFits DEF RInv, RequestsFit
  <2>2. request' \in [Requests -> [step : Steps, site : PathSites \cup {None},
                                  mon : Monitors \cup {None}, kind : Kinds \cup {None},
                                  target : Targets \cup {None}, on : BOOLEAN]]
    BY IdleFits DEF Resolve, ResolveFails, Answers, Goes, RInv, RequestsFit, RequestFits
  <2>3. \A s \in Sites : Creating(s)' \subseteq Creating(s)
    BY <1>1, IdleFits DEF Creating
  <2> QED BY <2>1, <2>2, <2>3 DEF RequestsFit, RequestFits
<1>3. HistoryFits'
  BY <1>1 DEF Resolve, ResolveFails, RInv, HistoryFits, Covered
<1>4. ASSUME NEW m \in failing', ~row'[m].active, m \notin abandoned'
      PROVE  \E p \in Requests : request'[p].step = "resolve" /\ m \in Covered(request[p])'
  <2>1. m \in failing /\ m \notin abandoned /\ m \notin Covered(request[q])
    BY <1>4 DEF Resolve, ResolveFails
  <2>2. PICK p \in Requests : request[p].step = "resolve" /\ m \in Covered(request[p])
    BY <2>1, <1>1, <1>4 DEF RInv, InactiveIncidentsAreClosed
  <2>3. request'[p] = request[p]
    BY <2>1, <2>2, <1>1
  <2> QED BY <1>1, <2>2, <2>3 DEF Covered
<1> QED BY <1>1, <1>2, <1>3, <1>4, IncidentStep DEF InactiveIncidentsAreClosed

LEMMA ClaimKeeps ==
  ASSUME RInv, NEW m \in Monitors, ClaimCheck(m) \/ LoseCheck(m)
  PROVE  RInv'
<1>1. /\ Existing' = Existing /\ checking' \subseteq Existing
      /\ UNCHANGED <<row, failing, request, abandoned, overlapped>>
  BY DEF ClaimCheck, LoseCheck, Existing, RInv, HistoryFits
<1>2. RequestsFit' /\ HistoryFits' /\ \A s \in Sites : Creating(s)' = Creating(s)
  BY <1>1 DEF RInv, RequestsFit, RequestFits, HistoryFits, Creating
<1>3. InactiveIncidentsAreClosed'
  BY <1>1 DEF RInv, InactiveIncidentsAreClosed, Covered
<1> QED BY <1>1, <1>2, <1>3, IncidentStep

\* What is saved of a monitor that is inactive by now is written down.
LEMMA SaveCheckKeeps ==
  ASSUME RInv, NEW m \in Monitors, SaveCheck(m)
  PROVE  RInv'
<1>1. /\ m \in Existing /\ Existing' = Existing /\ checking' \subseteq Existing
      /\ UNCHANGED <<row, request, overlapped>>
  BY DEF SaveCheck, Existing, RInv, HistoryFits
<1>2. \/ /\ failing' = failing \cup {m}
         /\ abandoned' = IF row[m].active THEN abandoned ELSE abandoned \cup {m}
      \/ /\ failing' = failing \ {m}
         /\ abandoned' = abandoned \ {m}
  BY DEF SaveCheck
<1>3. RequestsFit' /\ HistoryFits' /\ \A s \in Sites : Creating(s)' = Creating(s)
  BY <1>1, <1>2 DEF RInv, RequestsFit, RequestFits, HistoryFits, Creating
<1>4. InactiveIncidentsAreClosed'
  BY <1>1, <1>2 DEF RInv, InactiveIncidentsAreClosed, Covered
<1> QED BY <1>1, <1>3, <1>4, IncidentStep

-----------------------------------------------------------------------------
(* The theorems.                                                           *)

LEMMA BeginKeeps ==
  ASSUME RInv, NEW q \in Requests, Begin(q)
  PROVE  RInv'
<1>1. request[q] = Idle /\ request[q].step # "resolve"
  BY DEF Begin, Idle
<1>2. PICK s \in PathSites :
          \/ Disable(q, s)
          \/ \E on \in BOOLEAN : upsert_heartbeat_site_monitor(q, s, on)
          \/ \E t \in Targets, on \in BOOLEAN : Put(q, s, t, on)
          \/ \E m \in Monitors :
                \/ DisableById(q, s, m) \/ PauseOrResume(q, s, m)
                \/ \E on \in BOOLEAN : update_heartbeat_site_monitor(q, s, m, on)
                \/ \E t \in Targets, on \in BOOLEAN : Patch(q, s, m, t, on)
  BY DEF Begin
<1>3. {"ssl", "tcp", "dns"} = UrlKinds /\ {"ssl", "tcp", "dns", "heartbeat"} \subseteq Kinds
  BY DEF UrlKinds, Kinds
<1>4. CASE Disable(q, s)
  BY <1>1, <1>3, <1>4, DisableKindKeeps
     DEF Disable, disable_ssl_site_monitor, disable_tcp_site_monitor, disable_dns_site_monitor,
         disable_heartbeat_site_monitor
<1>5. CASE \E on \in BOOLEAN : upsert_heartbeat_site_monitor(q, s, on)
  BY <1>1, <1>5, UpsertHeartbeatKeeps
<1>6. CASE \E t \in Targets, on \in BOOLEAN : Put(q, s, t, on)
  BY <1>1, <1>3, <1>6, UpsertKeeps
     DEF Put, upsert_ssl_site_monitor, upsert_tcp_site_monitor, upsert_dns_site_monitor
<1>7. ASSUME NEW m \in Monitors, DisableById(q, s, m)
      PROVE  RInv'
  BY <1>1, <1>3, <1>7, DisableOneKeeps
     DEF DisableById, disable_ssl_site_monitor_by_id, disable_tcp_site_monitor_by_id,
         disable_dns_site_monitor_by_id, disable_heartbeat_site_monitor_by_id
<1>8. ASSUME NEW m \in Monitors, PauseOrResume(q, s, m)
      PROVE  RInv'
  BY <1>1, <1>3, <1>8, PauseKeeps, ResumeKeeps
     DEF PauseOrResume, pause_ssl_site_monitor_by_id, pause_tcp_site_monitor_by_id,
         pause_dns_site_monitor_by_id, pause_heartbeat_site_monitor_by_id,
         resume_ssl_site_monitor_by_id, resume_tcp_site_monitor_by_id,
         resume_dns_site_monitor_by_id, resume_heartbeat_site_monitor_by_id
<1>9. ASSUME NEW m \in Monitors, NEW on \in BOOLEAN, update_heartbeat_site_monitor(q, s, m, on)
      PROVE  RInv'
  BY <1>1, <1>9, UpdateHeartbeatKeeps
<1>10. ASSUME NEW m \in Monitors, NEW t \in Targets, NEW on \in BOOLEAN, Patch(q, s, m, t, on)
       PROVE  RInv'
  BY <1>1, <1>3, <1>10, LookupOtherKeeps
     DEF Patch, update_ssl_site_monitor, update_tcp_site_monitor, update_dns_site_monitor
<1> QED BY <1>2, <1>4, <1>5, <1>6, <1>7, <1>8, <1>9, <1>10

LEMMA InitEstablishes == Init => RInv
<1> SUFFICES ASSUME Init PROVE RInv
  OBVIOUS
<1>1. Existing = {} /\ \A s \in Sites : Creating(s) = {}
  BY IdleFits DEF Init, Existing, Creating
<1>2. RowsFit /\ HistoryFits
  BY <1>1 DEF Init, RowsFit, HistoryFits
<1>3. RequestsFit
  BY IdleFits DEF Init, RequestsFit, RequestFits
<1> QED BY <1>1, <1>2, <1>3
        DEF Init, RInv, InactiveIncidentsAreClosed, HeartbeatIsUnique, CreatorsAreAlone, Of

LEMMA NextKeeps == RInv /\ [Next]_vars => RInv'
<1> SUFFICES ASSUME RInv, [Next]_vars PROVE RInv'
  OBVIOUS
<1>1. ASSUME NEW q \in Requests, Begin(q) PROVE RInv'
  BY <1>1, BeginKeeps
<1>2. ASSUME NEW q \in Requests, Continue(q) PROVE RInv'
  BY <1>2, ReplaceKeeps, UpdateFoundKeeps, CreateMissingKeeps, FailsKeeps, ResolveKeeps DEF Continue
<1>3. ASSUME NEW m \in Monitors, ClaimCheck(m) \/ SaveCheck(m) \/ LoseCheck(m) PROVE RInv'
  BY <1>3, ClaimKeeps, SaveCheckKeeps
<1>4. CASE UNCHANGED vars
  <2>1. row' = row /\ overlapped' = overlapped /\ Existing' = Existing
    BY <1>4 DEF vars, Existing
  <2>2. RequestsFit' /\ HistoryFits' /\ InactiveIncidentsAreClosed'
    BY <1>4, <2>1 DEF vars, RInv, RequestsFit, RequestFits, HistoryFits, InactiveIncidentsAreClosed, Covered
  <2> QED BY <1>4, <2>1, <2>2, IncidentStep DEF vars, Creating
<1> QED BY <1>1, <1>2, <1>3, <1>4 DEF Next

LEMMA RegistryInvariant == Spec => []RInv
BY InitEstablishes, NextKeeps, PTL DEF Spec

\* The rows, and what the handlers have still to do, are well formed; no two rows
\* of a site and kind have the same target (the handlers of the four files).
THEOREM RegistryTyped == Spec => []TypeOK
<1>1. RInv => TypeOK
  BY DEF RInv, RowsFit, RequestsFit, HistoryFits, TypeOK
<1> QED BY <1>1, RegistryInvariant, PTL

\* However many requests and checks interleave, an inactive monitor has an open
\* incident only while a handler is to resolve it, after a handler failed to, or
\* when a check claimed before it became inactive was saved afterwards
\* (upsert_*, update_*, pause_*, disable_*, save_check_result).
THEOREM InactiveClosed == Spec => []InactiveIncidentsAreClosed
<1>1. RInv => InactiveIncidentsAreClosed
  BY DEF RInv
<1> QED BY <1>1, RegistryInvariant, PTL

\* A site's heartbeat monitor is one, unless its first PUTs overlapped
\* (upsert_heartbeat_site_monitor).
THEOREM HeartbeatUnique == Spec => []HeartbeatIsUnique
<1>1. RInv => HeartbeatIsUnique
  BY DEF RInv
<1> QED BY <1>1, RegistryInvariant, PTL
=============================================================================
