---------------------------- MODULE AccessProofs ----------------------------
(***************************************************************************)
(* Proofs about Access, for any number of accounts, roles, tokens,         *)
(* processes and requests, any capacity and times.  A right that a request *)
(* carries, or a cache holds, has been lacking for at most as long as the  *)
(* request has had it, or the entry has been there and a request had it    *)
(* before.                                                                 *)
(***************************************************************************)
EXTENDS Access, CommonLemmas, TLAPS

\* What a request holds at each stage.
Fits(r) ==
    /\ r \in Request
    /\ r.stage \notin {"idle", "credentials"} => r.proc \in Processes /\ r.tok \in Tokens
    /\ r.stage = "credentials" => r.tok \in Tokens
    /\ r.stage \in {"user_updated", "roles_open", "deleting", "dropped"} => r.subject \in Users
    /\ r.stage \in {"role_updated", "role_listed", "grants_open", "role_doomed"} => r.subject \in Roles
    /\ r.stage = "client_created" => r.subject \in Clients /\ r.wanted \subseteq Scope
    /\ r.stage \in {"user_updated", "roles_open"} => r.wanted \subseteq Roles
    /\ r.stage \in {"role_updated", "role_listed", "grants_open"} => r.wanted \subseteq Permission
    /\ r.stage = "found" => "session" \in r.keys

RequestsFit ==
    /\ DOMAIN req = Requests /\ req = [q \in Requests |-> req[q]]
    /\ \A q \in Requests : Fits(req[q])

LackingFits == lacking \in [Tokens -> [Key -> 0..Bound]]

\* A cached right has been lacking no longer than the entry is old and a
\* lookup took.
CachedAreRecent ==
    \A p \in Processes, t \in Tokens : \A k \in cache[p][t].keys :
        lacking[t][k] <= cache[p][t].age + LookupMax

\* A right that was found has been lacking since it was found at most.
FoundAreRecent ==
    \A q \in Requests : req[q].stage = "found" =>
        \A k \in req[q].keys : lacking[req[q].tok][k] <= req[q].age

AInv ==
    /\ TablesTypeOK
    /\ CacheTypeOK
    /\ RequestsFit
    /\ provisioning \in Users \cup {None}
    /\ LackingFits
    /\ CachedAreRecent
    /\ FoundAreRecent

\* What the two action properties ask of a step.
Recent == RightsAreRecent /\ ExpiryIsObserved

-----------------------------------------------------------------------------

LEMMA BoundFits == Bound \in Nat /\ TTL \in Nat /\ TTL > 0 /\ LookupMax \in Nat /\ Bound = TTL + LookupMax
BY CacheAssumption, AccessAssumption DEF Bound

LEMMA KeysFit ==
  ASSUME TablesTypeOK, NEW t \in Tokens
  PROVE  /\ authenticate_any_bearer_token(t) \subseteq Key
         /\ authenticate_admin_bearer_token(t) \subseteq authenticate_any_bearer_token(t)
         /\ authenticate_any_bearer_token(t) # {} => "session" \in authenticate_any_bearer_token(t)
         /\ authenticate_admin_bearer_token(t) # {} => "session" \in authenticate_admin_bearer_token(t)
<1>1. OwnerOf[t] \in Users \cup Clients
  BY AccountsAssumption DEF Accounts
<1>2. get_admin_access_token_auth_context(t) \subseteq Permission \/ ~IsAdminToken(t)
  <2> SUFFICES ASSUME IsAdminToken(t), NEW r \in userRoles[OwnerOf[t]] PROVE grants[r] \subseteq Permission
    BY DEF get_admin_access_token_auth_context
  <2> QED BY DEF TablesTypeOK, IsAdminToken
<1>3. permissions_from_api_client_scopes(get_access_token_auth_context(t)) \subseteq Permission
  BY DEF permissions_from_api_client_scopes
<1> QED BY <1>2, <1>3 DEF authenticate_any_bearer_token, authenticate_admin_bearer_token,
                          authenticate_bearer_token, Key

\* Nothing is lacking for longer than a step has taken.
LEMMA LackingStep ==
  ASSUME LackingFits, NEW step \in {0, 1}, Remember(step)
  PROVE  /\ LackingFits'
         /\ \A t \in Tokens, k \in Key : /\ lacking[t][k] \in Nat /\ lacking'[t][k] \in Nat
                                         /\ lacking'[t][k] <= lacking[t][k] + step
                                         /\ lacking'[t][k] <= Bound
         /\ \A t \in Tokens, k \in Key : k \in authenticate_any_bearer_token(t)' => lacking'[t][k] = 0
BY BoundFits DEF LackingFits, Remember

-----------------------------------------------------------------------------
(* What a request's step may do.                                           *)

\* Entries stay or go.
CacheShrinks == \A p \in Processes, t \in Tokens : cache'[p][t] \in {cache[p][t], Absent}

LEMMA PopShrinks ==
  ASSUME CacheTypeOK, NEW p \in Processes, NEW gone, Pop(p, gone)
  PROVE  CacheTypeOK' /\ CacheShrinks
<1>1. Absent \in Entry
  BY BoundFits DEF Absent, Entry
<1>2. ForgetOrder(p, gone) \subseteq recent[p]
  BY DEF ForgetOrder
<1> QED BY <1>1, <1>2 DEF CacheTypeOK, CacheShrinks, Pop

LEMMA NoCacheShrinks ==
  ASSUME CacheTypeOK, NoCache
  PROVE  CacheTypeOK' /\ CacheShrinks
BY DEF CacheTypeOK, CacheShrinks, NoCache, cacheVars

LEMMA CacheStays ==
  ASSUME AInv, CacheTypeOK', CacheShrinks, Remember(0)
  PROVE  CachedAreRecent'
<1> SUFFICES ASSUME NEW p \in Processes, NEW t \in Tokens, NEW k \in cache'[p][t].keys
             PROVE  lacking'[t][k] <= cache'[p][t].age + LookupMax
  BY DEF CachedAreRecent
<1>1. cache'[p][t] = cache[p][t]
  BY DEF CacheShrinks, Absent
<1>2. cache[p][t] \in Entry /\ k \in Key
  BY <1>1 DEF AInv, CacheTypeOK, Entry
<1>3. lacking[t][k] \in Nat /\ lacking'[t][k] \in Nat /\ lacking'[t][k] <= lacking[t][k] + 0
  BY <1>2, LackingStep DEF AInv
<1>4. lacking[t][k] <= cache[p][t].age + LookupMax
  BY <1>1 DEF AInv, CachedAreRecent
<1> QED BY <1>1, <1>2, <1>3, <1>4, BoundFits DEF Entry

LEMMA FoundStays ==
  ASSUME AInv, NEW q \in Requests, req'[q] = req[q], Remember(0), req[q].stage = "found",
         NEW k \in req[q].keys
  PROVE  lacking'[req'[q].tok][k] <= req'[q].age
<1>1. req[q].tok \in Tokens /\ k \in Key /\ req[q].age \in Nat
  BY BoundFits DEF AInv, RequestsFit, Fits, Request
<1>2. lacking[req[q].tok][k] <= req[q].age
  BY DEF AInv, FoundAreRecent
<1> QED BY <1>1, <1>2, LackingStep DEF AInv

\* A request that goes on to a stage where it holds no right.
LEMMA Harmless ==
  ASSUME AInv, NEW q \in Requests, NEW r, Become(q, r), Fits(r), r.stage \notin {"found", "accepted"},
         TablesTypeOK', CacheTypeOK', CacheShrinks, UNCHANGED provisioning, Remember(0)
  PROVE  AInv' /\ Recent
<1>1. \A o \in Requests : req'[o] = IF o = q THEN r ELSE req[o]
  BY DEF Become, AInv, RequestsFit
<1>2. RequestsFit'
  BY <1>1 DEF Become, AInv, RequestsFit, Fits
<1>3. FoundAreRecent'
  BY <1>1, FoundStays DEF FoundAreRecent
<1>4. Recent
  BY <1>1 DEF Recent, RightsAreRecent, ExpiryIsObserved, LetIn
<1>5. LackingFits'
  BY LackingStep DEF AInv
<1> QED BY <1>2, <1>3, <1>4, <1>5, CacheStays DEF AInv

-----------------------------------------------------------------------------
(* Stages.                                                                 *)

LEMMA IdleFits == Fits(Idle)
BY AccessAssumption DEF Fits, Idle, Request, Stage

LEMMA FinishKeeps ==
  ASSUME AInv, NEW q \in Requests, Finish(q), TablesTypeOK', CacheTypeOK', CacheShrinks,
         UNCHANGED provisioning, Remember(0)
  PROVE  AInv' /\ Recent
BY IdleFits, Harmless DEF Finish, Idle

\* The request's process and token, and nothing else.
LEMMA OnlyFits ==
  ASSUME AInv, NEW q \in Requests, NEW stage \in Stage
  PROVE  /\ Only(q, stage) \in Request
         /\ Only(q, stage).stage = stage
         /\ Only(q, stage).proc = req[q].proc /\ Only(q, stage).tok = req[q].tok
<1>1. req[q].proc \in Processes \cup {None} /\ req[q].tok \in Tokens \cup {None}
  BY DEF AInv, RequestsFit, Fits, Request
<1>2. Idle \in Request
  BY IdleFits DEF Fits
<1> HIDE DEF Stage
<1> QED BY <1>1, <1>2 DEF Only, Request

\* The fields that the lookup of a context sets.
LEMMA LookupFits ==
  ASSUME NEW r \in Request, NEW stage \in Stage, NEW keys \in SUBSET Key, NEW age \in 0..LookupMax
  PROVE  [r EXCEPT !.stage = stage, !.keys = keys, !.age = age] \in Request
<1> HIDE DEF Stage
<1> QED BY DEF Request

LEMMA RequestFits ==
  ASSUME AInv, NEW q \in Requests
  PROVE  Fits(req[q]) /\ req[q] \in Request
BY DEF AInv, RequestsFit, Fits

LEMMA TablesStay ==
  ASSUME TablesTypeOK, NoTables
  PROVE  TablesTypeOK'
BY DEF TablesTypeOK, NoTables, tables

LEMMA AbandonKeeps ==
  ASSUME AInv, NEW q \in Requests, Abandon(q) \/ Serve(q), UNCHANGED provisioning, Remember(0)
  PROVE  AInv' /\ Recent
BY FinishKeeps, TablesStay, NoCacheShrinks DEF Abandon, Serve, AInv

-----------------------------------------------------------------------------
(* The extractors.                                                         *)

LEMMA ArriveKeeps ==
  ASSUME AInv, NEW q \in Requests, NEW p \in Processes, NEW t \in Tokens, NEW admin \in BOOLEAN,
         Arrive(q, p, t, admin), UNCHANGED provisioning, Remember(0)
  PROVE  AInv' /\ Recent
<1> DEFINE keys == IF admin /\ ~IsAdminToken(t) THEN {} ELSE CachedKeys(p, t)
           asks == [Idle EXCEPT !.proc = p, !.tok = t, !.admin = admin]
           r    == IF keys = {} THEN [asks EXCEPT !.stage = "lookup"]
                   ELSE [asks EXCEPT !.stage = "accepted", !.keys = keys]
<1>1. Become(q, r) /\ get_bearer_context(p, t) /\ NoTables /\ req[q].stage = "idle"
  BY DEF Arrive, At
<1>2. CacheTypeOK /\ cache[p][t] \in Entry
  BY DEF AInv, CacheTypeOK
<1>3. CacheTypeOK' /\ CacheShrinks
  <2>1. CASE t \notin Held(p)
    BY <1>1, <2>1, NoCacheShrinks, <1>2 DEF get_bearer_context, NoCache, Fresh
  <2>2. CASE t \in Held(p) /\ Stale(p, t)
    <3>1. Pop(p, {t})
      BY <1>1, <2>2 DEF get_bearer_context, Fresh
    <3> QED BY <1>2, <3>1, PopShrinks
  <2>3. CASE Fresh(p, t)
    <3>1. recent' = [recent EXCEPT ![p] = UsedLast(p, t)] /\ cache' = cache
      BY <1>1, <2>3 DEF get_bearer_context, Fresh
    <3>2. UsedLast(p, t) \subseteq Tokens \X Tokens
      BY <1>2 DEF UsedLast, Held, CacheTypeOK
    <3>3. CacheShrinks
      BY <3>1 DEF CacheShrinks
    <3> QED BY <1>2, <3>1, <3>2, <3>3 DEF CacheTypeOK
  <2> QED BY <2>1, <2>2, <2>3 DEF Fresh
<1>4. TablesTypeOK'
  BY <1>1, TablesStay DEF AInv
<1>5. keys \subseteq Key
  BY <1>2 DEF CachedKeys, Entry
<1>6. CASE keys = {}
  <2>1. Fits(r) /\ r.stage = "lookup"
    BY <1>6, IdleFits DEF Fits, Request, Stage, Idle
  <2> HIDE DEF r
  <2> QED BY <1>1, <1>3, <1>4, <2>1, Harmless
<1>7. CASE keys # {}
  <2>1. /\ Fits(r) /\ r.stage = "accepted" /\ r.tok = t /\ r.keys = keys
    BY <1>5, <1>7, IdleFits DEF Fits, Request, Stage, Idle
  <2>2. keys = cache[p][t].keys /\ ~Stale(p, t)
    BY <1>7 DEF CachedKeys
  <2>3. cache[p][t].age < TTL /\ cache[p][t].age \in Nat /\ t \notin expired
    BY <1>2, <2>2, BoundFits DEF Stale, is_expired, Entry
  <2>4. \A k \in keys : lacking[t][k] < Bound
    <3> SUFFICES ASSUME NEW k \in keys PROVE lacking[t][k] < Bound
      OBVIOUS
    <3>1. lacking[t][k] <= cache[p][t].age + LookupMax
      BY <2>2 DEF AInv, CachedAreRecent
    <3>2. lacking[t][k] \in Nat
      BY <1>5, LackingStep DEF AInv
    <3> QED BY <2>3, <3>1, <3>2, BoundFits
  <2> HIDE DEF keys, r
  <2>5. \A o \in Requests : req'[o] = IF o = q THEN r ELSE req[o]
    BY <1>1 DEF Become, AInv, RequestsFit
  <2>6. RequestsFit'
    BY <1>1, <2>1, <2>5 DEF Become, AInv, RequestsFit, Fits
  <2>7. FoundAreRecent'
    BY <2>1, <2>5, FoundStays DEF FoundAreRecent
  <2>8. Recent
    <3>1. \A o \in Requests : LetIn(o) => o = q
      BY <2>5 DEF LetIn
    <3> QED BY <2>1, <2>3, <2>4, <2>5, <3>1 DEF Recent, RightsAreRecent, ExpiryIsObserved
  <2>9. LackingFits'
    BY LackingStep DEF AInv
  <2> QED BY <1>3, <1>4, <2>6, <2>7, <2>8, <2>9, CacheStays DEF AInv
<1> QED BY <1>6, <1>7

LEMMA ReadContextKeeps ==
  ASSUME AInv, NEW q \in Requests, ReadContext(q), UNCHANGED provisioning, Remember(0)
  PROVE  AInv' /\ Recent
<1> DEFINE keys == IF req[q].admin THEN authenticate_admin_bearer_token(req[q].tok)
                   ELSE authenticate_any_bearer_token(req[q].tok)
           r    == [req[q] EXCEPT !.stage = "found", !.keys = keys]
<1>1. TablesTypeOK' /\ CacheTypeOK' /\ CacheShrinks
  BY TablesStay, NoCacheShrinks DEF ReadContext, AInv
<1>2. CASE keys = {}
  BY <1>1, <1>2, FinishKeeps DEF ReadContext
<1>3. CASE keys # {}
  <2>1. Become(q, r) /\ req[q].stage = "lookup" /\ NoTables
    BY <1>3 DEF ReadContext, At
  <2>2. Fits(req[q]) /\ req[q].tok \in Tokens
    BY <2>1, RequestFits DEF Fits
  <2>3. /\ keys \subseteq Key /\ "session" \in keys
        /\ keys \subseteq authenticate_any_bearer_token(req[q].tok)
    BY <1>3, <2>2, KeysFit DEF AInv
  <2> HIDE DEF keys
  <2>4. req[q] \in Request /\ req[q].proc \in Processes
    BY <2>1, <2>2 DEF Fits
  <2>12. /\ r \in Request /\ r.stage = "found" /\ r.tok = req[q].tok /\ r.keys = keys
         /\ r.proc = req[q].proc /\ r.age \in Nat
    <3>1. req[q].age \in 0..LookupMax /\ req[q].age \in Nat
      BY <2>4, BoundFits DEF Request
    <3>2. r = [req[q] EXCEPT !.stage = "found", !.keys = keys, !.age = req[q].age]
      BY <2>4 DEF Request
    <3>3. r \in Request
      BY <2>3, <2>4, <3>1, <3>2, LookupFits DEF Stage
    <3> QED BY <2>4, <3>1, <3>3 DEF Request
  <2>5. Fits(r)
    BY <2>2, <2>3, <2>4, <2>12 DEF Fits
  <2>6. \A k \in keys : lacking'[req[q].tok][k] = 0
    <3>1. \A t \in Tokens : authenticate_any_bearer_token(t)' = authenticate_any_bearer_token(t)
      BY <2>1 DEF NoTables, tables, authenticate_any_bearer_token, authenticate_admin_bearer_token,
                  authenticate_bearer_token, get_admin_access_token_auth_context,
                  get_access_token_auth_context, TokenAccepted
    <3> QED BY <2>2, <2>3, <3>1, LackingStep DEF AInv
  <2> HIDE DEF r
  <2>7. \A o \in Requests : req'[o] = IF o = q THEN r ELSE req[o]
    BY <2>1 DEF Become, AInv, RequestsFit
  <2>8. RequestsFit'
    BY <2>1, <2>5, <2>7 DEF Become, AInv, RequestsFit, Fits
  <2>9. FoundAreRecent'
    BY <2>5, <2>6, <2>7, <2>12, FoundStays DEF FoundAreRecent
  <2>10. Recent
    BY <2>7, <2>12 DEF Recent, RightsAreRecent, ExpiryIsObserved, LetIn
  <2>11. LackingFits'
    BY LackingStep DEF AInv
  <2> QED BY <1>1, <2>8, <2>9, <2>10, <2>11, CacheStays DEF AInv
<1> QED BY <1>2, <1>3

LEMMA InsertFits ==
  ASSUME CacheTypeOK, NEW p \in Processes, NEW t \in Tokens, NEW keys \in SUBSET Key,
         insert_bearer_context(p, t, keys)
  PROVE  /\ CacheTypeOK'
         /\ \A o \in Processes, n \in Tokens :
               IF o = p /\ n = t THEN cache'[o][n] = [keys |-> keys, age |-> 0]
               ELSE cache'[o][n] \in {cache[o][n], Absent}
<1>1. [keys |-> keys, age |-> 0] \in Entry /\ Absent \in Entry
  BY BoundFits DEF Entry, Absent
<1>2. UsedLast(p, t) \subseteq Tokens \X Tokens
  BY DEF CacheTypeOK, UsedLast, Held
<1> QED BY <1>1, <1>2 DEF CacheTypeOK, insert_bearer_context

LEMMA FillCacheKeeps ==
  ASSUME AInv, NEW q \in Requests, FillCache(q), UNCHANGED provisioning, Remember(0)
  PROVE  AInv' /\ Recent
<1> DEFINE r == [req[q] EXCEPT !.stage = "accepted", !.age = 0]
           p == req[q].proc
           t == req[q].tok
<1>1. /\ Become(q, r) /\ req[q].stage = "found" /\ NoTables
      /\ insert_bearer_context(p, t, req[q].keys)
  BY DEF FillCache, At
<1>2. /\ Fits(req[q]) /\ t \in Tokens /\ p \in Processes
      /\ req[q].keys \subseteq Key /\ "session" \in req[q].keys
      /\ req[q].age \in Nat /\ req[q].age <= LookupMax
  BY <1>1, RequestFits, BoundFits DEF Fits, Request
<1>12. req[q] \in Request
  BY <1>2 DEF Fits
<1>13. /\ r \in Request /\ r.stage = "accepted" /\ r.tok = t /\ r.keys = req[q].keys /\ r.proc = p
  <2>1. r = [req[q] EXCEPT !.stage = "accepted", !.keys = req[q].keys, !.age = 0]
    BY <1>12 DEF Request
  <2>2. r \in Request
    <3>1. req[q].keys \in SUBSET Key /\ 0 \in 0..LookupMax /\ "accepted" \in Stage
      BY <1>2, BoundFits DEF Stage
    <3> HIDE DEF r
    <3> QED BY <1>12, <2>1, <3>1, LookupFits
  <2> QED BY <1>12, <2>2 DEF Request
<1>3. Fits(r) /\ r.stage = "accepted" /\ r.tok = t /\ r.keys = req[q].keys
  BY <1>2, <1>13 DEF Fits
<1>4. \A k \in req[q].keys : lacking[t][k] \in Nat /\ lacking[t][k] <= LookupMax
  <2> SUFFICES ASSUME NEW k \in req[q].keys PROVE lacking[t][k] \in Nat /\ lacking[t][k] <= LookupMax
    OBVIOUS
  <2>1. lacking[t][k] <= req[q].age
    BY <1>1 DEF AInv, FoundAreRecent
  <2>2. lacking[t][k] \in Nat
    BY <1>2, LackingStep DEF AInv
  <2> QED BY <1>2, <2>1, <2>2, BoundFits
<1>5. /\ CacheTypeOK'
      /\ \A o \in Processes, n \in Tokens :
            IF o = p /\ n = t THEN cache'[o][n] = [keys |-> req[q].keys, age |-> 0]
            ELSE cache'[o][n] \in {cache[o][n], Absent}
  BY <1>1, <1>2, InsertFits DEF AInv
<1> HIDE DEF r
<1>6. CachedAreRecent'
  <2> SUFFICES ASSUME NEW o \in Processes, NEW n \in Tokens, NEW k \in cache'[o][n].keys
               PROVE  lacking'[n][k] <= cache'[o][n].age + LookupMax
    BY DEF CachedAreRecent
  <2>1. CASE o = p /\ n = t
    <3>1. cache'[o][n] = [keys |-> req[q].keys, age |-> 0]
      BY <1>5, <2>1
    <3>2. lacking'[n][k] \in Nat /\ lacking'[n][k] <= lacking[n][k] + 0
      BY <1>2, <2>1, <3>1, LackingStep DEF AInv
    <3> QED BY <1>4, <2>1, <3>1, <3>2, BoundFits
  <2>2. CASE ~(o = p /\ n = t)
    <3>1. cache'[o][n] = cache[o][n]
      BY <1>5, <2>2 DEF Absent
    <3>2. cache[o][n] \in Entry /\ k \in Key
      BY <3>1 DEF AInv, CacheTypeOK, Entry
    <3>3. lacking[n][k] \in Nat /\ lacking'[n][k] \in Nat /\ lacking'[n][k] <= lacking[n][k] + 0
      BY <3>2, LackingStep DEF AInv
    <3>4. lacking[n][k] <= cache[o][n].age + LookupMax
      BY <3>1 DEF AInv, CachedAreRecent
    <3> QED BY <3>1, <3>2, <3>3, <3>4, BoundFits DEF Entry
  <2> QED BY <2>1, <2>2
<1>7. \A o \in Requests : req'[o] = IF o = q THEN r ELSE req[o]
  BY <1>1 DEF Become, AInv, RequestsFit
<1>8. RequestsFit'
  BY <1>1, <1>3, <1>7 DEF Become, AInv, RequestsFit, Fits
<1>9. FoundAreRecent'
  BY <1>3, <1>7, FoundStays DEF FoundAreRecent
<1>10. Recent
  <2>1. \A o \in Requests : LetIn(o) => o = q
    BY <1>7 DEF LetIn
  <2>2. \A k \in req[q].keys : lacking[t][k] < Bound
    BY <1>4, BoundFits
  <2> QED BY <1>2, <1>3, <1>4, <1>7, <2>1, <2>2 DEF Recent, RightsAreRecent, ExpiryIsObserved
<1>11. LackingFits' /\ TablesTypeOK'
  BY <1>1, LackingStep, TablesStay DEF AInv
<1> QED BY <1>5, <1>6, <1>8, <1>9, <1>10, <1>11 DEF AInv

-----------------------------------------------------------------------------
(* Handlers that end, or go on with a subject of their own.                *)

\* The statement keeps the tables' types; the cache is left alone.
LEMMA EndsAfterStatement ==
  ASSUME AInv, NEW q \in Requests, Finish(q), TablesTypeOK', NoCache,
         UNCHANGED provisioning, Remember(0)
  PROVE  AInv' /\ Recent
BY FinishKeeps, NoCacheShrinks DEF AInv

Quiet == Stage \ {"idle", "credentials", "found", "accepted", "client_created"}

LEMMA GoesOn ==
  ASSUME AInv, NEW q \in Requests, req[q].stage \notin {"idle", "credentials"},
         NEW r \in Request, Become(q, r), r.stage \in Quiet \cup {"client_created"},
         r.proc = req[q].proc, r.tok = req[q].tok,
         r.stage \in {"user_updated", "roles_open", "deleting", "dropped"} => r.subject \in Users,
         r.stage \in {"user_updated", "roles_open"} => r.wanted \subseteq Roles,
         r.stage \in {"role_updated", "role_listed", "grants_open", "role_doomed"} => r.subject \in Roles,
         r.stage \in {"role_updated", "role_listed", "grants_open"} => r.wanted \subseteq Permission,
         r.stage = "client_created" => r.subject \in Clients /\ r.wanted \subseteq Scope,
         TablesTypeOK', CacheTypeOK', CacheShrinks, UNCHANGED provisioning, Remember(0)
  PROVE  AInv' /\ Recent
<1>1. req[q].proc \in Processes /\ req[q].tok \in Tokens
  BY RequestFits DEF Fits
<1>2. r.stage \notin {"idle", "credentials", "found", "accepted"}
  BY DEF Quiet
<1>3. Fits(r)
  BY <1>1, <1>2 DEF Fits
<1> QED BY <1>2, <1>3, Harmless

LEMMA OldSubject ==
  ASSUME AInv, NEW q \in Requests
  PROVE  /\ req[q].subject \in Accounts \cup Roles \cup {None}
         /\ req[q].wanted \in SUBSET (Roles \cup Permission \cup Scope)
         /\ req[q].todo \in SUBSET Users /\ req[q].seen \in SUBSET (Roles \cup Permission)
         /\ req[q].stage \in Stage
<1> HIDE DEF Stage
<1> QED BY RequestFits DEF Request

\* What is left of a request that keeps its process and token only.
LEMMA OnlyRest ==
  ASSUME AInv, NEW q \in Requests, NEW stage \in Stage
  PROVE  /\ Only(q, stage).subject = None /\ Only(q, stage).wanted = {}
         /\ Only(q, stage).todo = {} /\ Only(q, stage).seen = {}
BY DEF Only, Idle

-----------------------------------------------------------------------------
(* routes/auth.rs                                                          *)

LEMMA CheckCredentialsKeeps ==
  ASSUME AInv, NEW q \in Requests, NEW t \in Tokens, CheckCredentials(q, t),
         UNCHANGED provisioning, Remember(0)
  PROVE  AInv' /\ Recent
<1> DEFINE r == [Idle EXCEPT !.stage = "credentials", !.tok = t]
<1>1. Become(q, r) /\ NoTables /\ NoCache
  BY DEF CheckCredentials
<1>2. Fits(r) /\ r.stage = "credentials"
  BY IdleFits DEF Fits, Idle, Request, Stage
<1>3. TablesTypeOK' /\ CacheTypeOK' /\ CacheShrinks
  BY <1>1, TablesStay, NoCacheShrinks DEF AInv
<1> HIDE DEF r
<1> QED BY <1>1, <1>2, <1>3, Harmless

LEMMA TokenStatements ==
  ASSUME TablesTypeOK, NEW t,
         \/ create_access_token(t) \/ create_admin_access_token(t)
         \/ revoke_access_token(t) \/ revoke_admin_access_token(t)
         \/ t \in Tokens /\ ExpiryPasses(t)
  PROVE  TablesTypeOK'
BY DEF TablesTypeOK, TokenStatus, create_access_token, create_admin_access_token,
       revoke_access_token, revoke_admin_access_token, ExpiryPasses

LEMMA IssueKeeps ==
  ASSUME AInv, NEW q \in Requests, issue_access_token(q) \/ issue_admin_access_token(q),
         UNCHANGED provisioning, Remember(0)
  PROVE  AInv' /\ Recent
<1>1. TablesTypeOK'
  BY TokenStatements, TablesStay DEF issue_access_token, issue_admin_access_token, AInv
<1> QED BY <1>1, EndsAfterStatement DEF issue_access_token, issue_admin_access_token

LEMMA RevokeKeeps ==
  ASSUME AInv, NEW q \in Requests, revoke_token(q) \/ logout_admin(q),
         UNCHANGED provisioning, Remember(0)
  PROVE  AInv' /\ Recent
<1> DEFINE r == Only(q, "revoked")
<1>1. Become(q, r) /\ NoCache /\ req[q].stage = "accepted"
  BY DEF revoke_token, logout_admin, At
<1>2. TablesTypeOK'
  BY TokenStatements DEF revoke_token, logout_admin, AInv
<1>3. r \in Request /\ r.stage = "revoked" /\ r.proc = req[q].proc /\ r.tok = req[q].tok
  BY OnlyFits DEF Stage
<1>4. "revoked" \in Quiet
  BY DEF Quiet, Stage
<1>5. CacheTypeOK' /\ CacheShrinks
  BY <1>1, NoCacheShrinks DEF AInv
<1> HIDE DEF r
<1> QED BY <1>1, <1>2, <1>3, <1>4, <1>5, GoesOn

\* The cached contexts of some tokens go, and the request ends.
LEMMA PopAndFinish ==
  ASSUME AInv, NEW q \in Requests, req[q].stage \notin {"idle", "credentials"}, NEW gone,
         Pop(req[q].proc, gone), Finish(q), NoTables, UNCHANGED provisioning, Remember(0)
  PROVE  AInv' /\ Recent
<1>1. req[q].proc \in Processes
  BY RequestFits DEF Fits
<1>2. TablesTypeOK' /\ CacheTypeOK' /\ CacheShrinks
  BY <1>1, PopShrinks, TablesStay DEF AInv
<1> QED BY <1>2, FinishKeeps

LEMMA FinishRevocationKeeps ==
  ASSUME AInv, NEW q \in Requests, FinishRevocation(q), UNCHANGED provisioning, Remember(0)
  PROVE  AInv' /\ Recent
BY PopAndFinish DEF FinishRevocation, At

-----------------------------------------------------------------------------
(* routes/admin.rs: users.                                                 *)

LEMMA AdministersAt ==
  ASSUME NEW q \in Requests, Administers(q)
  PROVE  req[q].stage = "accepted"
BY DEF Administers, At

LEMMA UserStatements ==
  ASSUME TablesTypeOK, NEW u \in Users,
         \/ \E on \in BOOLEAN, wanted \in SUBSET Roles : CreateUserRow(u, on, wanted)
         \/ \E on \in BOOLEAN : UpdateUserRow(u, on)
         \/ DeleteUserRow(u)
         \/ \E seen, wanted \in SUBSET Roles : ReplaceUserRoles(u, seen, wanted)
         \/ upsert_admin_user(u)
         \/ \E r \in Roles : assign_role_to_admin_user(u, r)
  PROVE  TablesTypeOK'
<1>1. \A on \in BOOLEAN : ActiveIf(on) \in AccountStatus
  BY DEF ActiveIf, AccountStatus
<1>2. "deleted" \in AccountStatus /\ "active" \in AccountStatus /\ "deleted" \in TokenStatus
  BY DEF AccountStatus, TokenStatus
<1>3. u \in Accounts
  BY DEF Accounts
<1> HIDE DEF AccountStatus, TokenStatus
<1>4. ASSUME NEW on \in BOOLEAN, NEW wanted \in SUBSET Roles, CreateUserRow(u, on, wanted)
      PROVE  TablesTypeOK'
  BY <1>1, <1>3, <1>4 DEF TablesTypeOK, CreateUserRow, NewUserRow, SetAccount,
                          replace_roles_for_admin_user_in_tx
<1>5. ASSUME NEW on \in BOOLEAN, UpdateUserRow(u, on)
      PROVE  TablesTypeOK'
  BY <1>1, <1>3, <1>5 DEF TablesTypeOK, UpdateUserRow, SetAccount
<1>6. ASSUME DeleteUserRow(u) PROVE TablesTypeOK'
  BY <1>2, <1>3, <1>6 DEF TablesTypeOK, DeleteUserRow, SetAccount, DeleteTokensOf
<1>7. ASSUME NEW seen, NEW wanted \in SUBSET Roles, ReplaceUserRoles(u, seen, wanted)
      PROVE  TablesTypeOK'
  BY <1>7 DEF TablesTypeOK, ReplaceUserRoles
<1>8. ASSUME upsert_admin_user(u) PROVE TablesTypeOK'
  BY <1>2, <1>3, <1>8 DEF TablesTypeOK, upsert_admin_user, SetAccount
<1>9. ASSUME NEW r \in Roles, assign_role_to_admin_user(u, r) PROVE TablesTypeOK'
  BY <1>9 DEF TablesTypeOK, assign_role_to_admin_user
<1> QED BY <1>4, <1>5, <1>6, <1>7, <1>8, <1>9

LEMMA CreateUserKeeps ==
  ASSUME AInv, NEW q \in Requests, NEW u \in Users, NEW on \in BOOLEAN, NEW wanted \in RoleSets,
         create_admin_user(q, u, on, wanted), UNCHANGED provisioning, Remember(0)
  PROVE  AInv' /\ Recent
<1>1. wanted \in SUBSET Roles
  BY AccessAssumption
<1>2. TablesTypeOK'
  BY <1>1, UserStatements DEF create_admin_user, AInv
<1> QED BY <1>2, EndsAfterStatement DEF create_admin_user

LEMMA UpdateUserKeeps ==
  ASSUME AInv, NEW q \in Requests, NEW u \in Users, NEW on \in BOOLEAN, NEW wanted \in RoleSets,
         update_admin_user(q, u, on, wanted), UNCHANGED provisioning, Remember(0)
  PROVE  AInv' /\ Recent
<1> DEFINE x == Only(q, "user_updated")
           r == [x EXCEPT !.subject = u, !.wanted = wanted]
<1>1. wanted \in SUBSET Roles
  BY AccessAssumption
<1>2. TablesTypeOK' /\ CacheTypeOK' /\ CacheShrinks
  BY UserStatements, NoCacheShrinks DEF update_admin_user, AInv
<1>3. Become(q, r) /\ req[q].stage = "accepted"
  BY AdministersAt DEF update_admin_user
<1>4. /\ x \in Request /\ x.stage = "user_updated" /\ x.proc = req[q].proc /\ x.tok = req[q].tok
      /\ x.seen = {} /\ x.todo = {}
  BY OnlyFits, OnlyRest DEF Stage
<1>5. "user_updated" \in Stage /\ "user_updated" \in Quiet
  BY DEF Quiet, Stage
<1> HIDE DEF x
<1>6. /\ r \in Request /\ r.stage = "user_updated" /\ r.proc = x.proc /\ r.tok = x.tok
      /\ r.subject = u /\ r.wanted = wanted
  <2>1. /\ u \in Accounts \cup Roles \cup {None} /\ {} \in SUBSET Users
        /\ wanted \in SUBSET (Roles \cup Permission \cup Scope) /\ {} \in SUBSET (Roles \cup Permission)
    BY <1>1 DEF Accounts
  <2> QED BY <1>4, <1>5, <2>1 DEF Request
<1> HIDE DEF r
<1> QED BY <1>1, <1>2, <1>3, <1>4, <1>5, <1>6, GoesOn

LEMMA BeginReplaceRolesKeeps ==
  ASSUME AInv, NEW q \in Requests, BeginReplaceRoles(q), UNCHANGED provisioning, Remember(0)
  PROVE  AInv' /\ Recent
<1> DEFINE x == req[q]
           r == [x EXCEPT !.stage = "roles_open", !.seen = userRoles[x.subject]]
<1>1. Become(q, r) /\ x.stage = "user_updated" /\ NoTables /\ NoCache
  BY DEF BeginReplaceRoles, At
<1>2. TablesTypeOK' /\ CacheTypeOK' /\ CacheShrinks
  BY <1>1, TablesStay, NoCacheShrinks DEF AInv
<1>3. x \in Request /\ x.subject \in Users /\ x.wanted \subseteq Roles
  BY <1>1, RequestFits DEF Fits
<1>4. userRoles[x.subject] \in SUBSET (Roles \cup Permission)
  BY <1>3 DEF AInv, TablesTypeOK
<1>5. "roles_open" \in Stage /\ "roles_open" \in Quiet
  BY DEF Quiet, Stage
<1>6. /\ r \in Request /\ r.stage = "roles_open" /\ r.proc = x.proc /\ r.tok = x.tok
      /\ r.subject = x.subject /\ r.wanted = x.wanted
  BY <1>3, <1>4, <1>5 DEF Request
<1> HIDE DEF r
<1> QED BY <1>1, <1>2, <1>3, <1>5, <1>6, GoesOn

\* The users whose cached tokens are to be dropped.
LEMMA InvalidatingKeeps ==
  ASSUME AInv, NEW q \in Requests, req[q].stage \notin {"idle", "credentials"},
         NEW todo \in SUBSET Users,
         Become(q, [Only(q, "invalidating") EXCEPT !.todo = todo]),
         TablesTypeOK', NoCache, UNCHANGED provisioning, Remember(0)
  PROVE  AInv' /\ Recent
<1> DEFINE x == Only(q, "invalidating")
           r == [x EXCEPT !.todo = todo]
<1>1. CacheTypeOK' /\ CacheShrinks
  BY NoCacheShrinks DEF AInv
<1>2. /\ x \in Request /\ x.stage = "invalidating" /\ x.proc = req[q].proc /\ x.tok = req[q].tok
  BY OnlyFits DEF Stage
<1>3. "invalidating" \in Quiet
  BY DEF Quiet, Stage
<1> HIDE DEF x
<1>4. r \in Request /\ r.stage = "invalidating" /\ r.proc = x.proc /\ r.tok = x.tok
  BY <1>2 DEF Request
<1> HIDE DEF r
<1>5. Become(q, r)
  BY DEF r, x
<1> QED BY <1>1, <1>2, <1>3, <1>4, <1>5, GoesOn

LEMMA CommitReplaceRolesKeeps ==
  ASSUME AInv, NEW q \in Requests, CommitReplaceRoles(q), UNCHANGED provisioning, Remember(0)
  PROVE  AInv' /\ Recent
<1>1. req[q].stage = "roles_open" /\ NoCache
  BY DEF CommitReplaceRoles, At
<1>2. req[q].subject \in Users /\ req[q].wanted \in SUBSET Roles
  BY <1>1, RequestFits DEF Fits
<1>3. CASE UserRolesReferenceRows(req[q].subject, req[q].wanted)
  <2>1. ReplaceUserRoles(req[q].subject, req[q].seen, req[q].wanted)
    BY <1>3 DEF CommitReplaceRoles
  <2>2. TablesTypeOK'
    BY <1>2, <2>1 DEF AInv, TablesTypeOK, ReplaceUserRoles
  <2>3. {req[q].subject} \in SUBSET Users
    BY <1>2
  <2>4. Become(q, [Only(q, "invalidating") EXCEPT !.todo = {req[q].subject}])
    BY <1>3 DEF CommitReplaceRoles
  <2> QED BY <1>1, <2>2, <2>3, <2>4, InvalidatingKeeps
<1>4. CASE ~UserRolesReferenceRows(req[q].subject, req[q].wanted)
  <2>1. TablesTypeOK' /\ Finish(q)
    BY <1>4, TablesStay DEF CommitReplaceRoles, AInv
  <2> QED BY <1>1, <2>1, EndsAfterStatement
<1> QED BY <1>3, <1>4

LEMMA InvalidateKeeps ==
  ASSUME AInv, NEW q \in Requests, NEW u \in Users, invalidate_tokens_for_user(q, u),
         UNCHANGED provisioning, Remember(0)
  PROVE  AInv' /\ Recent
<1> DEFINE x    == req[q]
           rest == x.todo \ {u}
           r    == [x EXCEPT !.todo = rest]
<1>1. /\ x.stage = "invalidating" /\ NoTables
      /\ Pop(x.proc, list_active_tokens_for_admin_user(u))
  BY DEF invalidate_tokens_for_user, At
<1>2. CASE rest = {}
  BY <1>1, <1>2, PopAndFinish DEF invalidate_tokens_for_user
<1>3. CASE rest # {}
  <2>1. Become(q, r)
    BY <1>3 DEF invalidate_tokens_for_user
  <2>2. x \in Request /\ x.proc \in Processes
    BY <1>1, RequestFits DEF Fits
  <2>3. TablesTypeOK' /\ CacheTypeOK' /\ CacheShrinks
    BY <1>1, <2>2, PopShrinks, TablesStay DEF AInv
  <2>4. "invalidating" \in Quiet
    BY DEF Quiet, Stage
  <2>5. r \in Request /\ r.stage = "invalidating" /\ r.proc = x.proc /\ r.tok = x.tok
    <3>1. x.todo \in SUBSET Users
      BY OldSubject
    <3> QED BY <1>1, <2>2, <3>1 DEF Request
  <2> HIDE DEF r
  <2> QED BY <1>1, <2>1, <2>3, <2>4, <2>5, GoesOn
<1> QED BY <1>2, <1>3

LEMMA DeleteUserKeeps ==
  ASSUME AInv, NEW q \in Requests, NEW u \in Users, delete_admin_user(q, u),
         UNCHANGED provisioning, Remember(0)
  PROVE  AInv' /\ Recent
<1> DEFINE x == Only(q, "deleting")
           r == [x EXCEPT !.subject = u]
<1>1. Become(q, r) /\ req[q].stage = "accepted" /\ NoTables /\ NoCache
  BY AdministersAt DEF delete_admin_user
<1>2. TablesTypeOK' /\ CacheTypeOK' /\ CacheShrinks
  BY <1>1, TablesStay, NoCacheShrinks DEF AInv
<1>3. /\ x \in Request /\ x.stage = "deleting" /\ x.proc = req[q].proc /\ x.tok = req[q].tok
  BY OnlyFits DEF Stage
<1>4. "deleting" \in Quiet /\ u \in Accounts
  BY DEF Quiet, Stage, Accounts
<1> HIDE DEF x
<1>5. /\ r \in Request /\ r.stage = "deleting" /\ r.proc = x.proc /\ r.tok = x.tok /\ r.subject = u
  BY <1>3, <1>4 DEF Request
<1> HIDE DEF r
<1> QED BY <1>1, <1>2, <1>3, <1>4, <1>5, GoesOn

LEMMA DropTokensKeeps ==
  ASSUME AInv, NEW q \in Requests, DropTokensBeforeDelete(q), UNCHANGED provisioning, Remember(0)
  PROVE  AInv' /\ Recent
<1> DEFINE x == req[q]
           r == [x EXCEPT !.stage = "dropped"]
<1>1. /\ x.stage = "deleting" /\ NoTables /\ Become(q, r)
      /\ Pop(x.proc, list_active_tokens_for_admin_user(x.subject))
  BY DEF DropTokensBeforeDelete, At, GoTo
<1>2. x \in Request /\ x.proc \in Processes /\ x.subject \in Users
  BY <1>1, RequestFits DEF Fits
<1>3. TablesTypeOK' /\ CacheTypeOK' /\ CacheShrinks
  BY <1>1, <1>2, PopShrinks, TablesStay DEF AInv
<1>4. "dropped" \in Quiet /\ "dropped" \in Stage
  BY DEF Quiet, Stage
<1>5. r \in Request /\ r.stage = "dropped" /\ r.proc = x.proc /\ r.tok = x.tok /\ r.subject = x.subject
  BY <1>2, <1>4 DEF Request
<1> HIDE DEF r
<1> QED BY <1>1, <1>2, <1>3, <1>4, <1>5, GoesOn

LEMMA DeleteDroppedKeeps ==
  ASSUME AInv, NEW q \in Requests, DeleteDroppedUser(q), UNCHANGED provisioning, Remember(0)
  PROVE  AInv' /\ Recent
<1>1. req[q].stage = "dropped" /\ NoCache /\ Finish(q)
  BY DEF DeleteDroppedUser, At
<1>2. req[q].subject \in Users
  BY <1>1, RequestFits DEF Fits
<1>3. TablesTypeOK'
  BY <1>2, UserStatements, TablesStay DEF DeleteDroppedUser, AInv
<1> QED BY <1>1, <1>3, EndsAfterStatement

LEMMA UserHandlerKeeps ==
  ASSUME AInv, NEW q \in Requests, UserHandler(q), UNCHANGED provisioning, Remember(0)
  PROVE  AInv' /\ Recent
BY CreateUserKeeps, UpdateUserKeeps, DeleteUserKeeps, InvalidateKeeps, BeginReplaceRolesKeeps,
   CommitReplaceRolesKeeps, DropTokensKeeps, DeleteDroppedKeeps DEF UserHandler

-----------------------------------------------------------------------------
(* routes/admin.rs: roles.                                                 *)

LEMMA RoleStatements ==
  ASSUME TablesTypeOK, NEW r \in Roles,
         \/ CreateRoleRow(r) \/ DeleteRoleRow(r)
         \/ \E seen, wanted \in SUBSET Permission : ReplaceRolePermissions(r, seen, wanted)
  PROVE  TablesTypeOK'
<1>1. "custom" \in RoleStatus /\ "deleted" \in RoleStatus
  BY DEF RoleStatus
<1> HIDE DEF RoleStatus
<1>2. ASSUME CreateRoleRow(r) \/ DeleteRoleRow(r) PROVE TablesTypeOK'
  BY <1>1, <1>2 DEF TablesTypeOK, CreateRoleRow, DeleteRoleRow
<1>3. ASSUME NEW seen, NEW wanted \in SUBSET Permission, ReplaceRolePermissions(r, seen, wanted)
      PROVE  TablesTypeOK'
  BY <1>3 DEF TablesTypeOK, ReplaceRolePermissions
<1> QED BY <1>2, <1>3

\* The handler goes on with role `r0' and what it has to change.
LEMMA RoleGoesOn ==
  ASSUME AInv, NEW q \in Requests, req[q].stage = "accepted", NEW r0 \in Roles,
         NEW stage \in {"role_updated", "role_listed", "role_doomed"},
         NEW wanted \in SUBSET Permission, NEW todo \in SUBSET Users,
         NEW r, Become(q, r),
         \/ r = [Only(q, stage) EXCEPT !.subject = r0, !.wanted = wanted]
         \/ r = [Only(q, stage) EXCEPT !.subject = r0, !.todo = todo] /\ stage = "role_doomed",
         TablesTypeOK', NoCache, UNCHANGED provisioning, Remember(0)
  PROVE  AInv' /\ Recent
<1> DEFINE x == Only(q, stage)
<1>1. stage \in Stage /\ stage \in Quiet
  BY DEF Quiet, Stage
<1>2. /\ x \in Request /\ x.stage = stage /\ x.proc = req[q].proc /\ x.tok = req[q].tok
  BY <1>1, OnlyFits
<1>3. CacheTypeOK' /\ CacheShrinks
  BY NoCacheShrinks DEF AInv
<1> HIDE DEF x
<1>4. /\ r \in Request /\ r.stage = stage /\ r.proc = x.proc /\ r.tok = x.tok /\ r.subject = r0
      /\ stage # "role_doomed" => r.wanted = wanted
  <2>1. CASE r = [x EXCEPT !.subject = r0, !.wanted = wanted]
    <3>1. wanted \in SUBSET (Roles \cup Permission \cup Scope)
      OBVIOUS
    <3> QED BY <1>2, <2>1, <3>1 DEF Request
  <2>2. CASE r = [x EXCEPT !.subject = r0, !.todo = todo] /\ stage = "role_doomed"
    BY <1>2, <2>2 DEF Request
  <2> QED BY <2>1, <2>2 DEF x
<1>5. stage = "role_doomed" \/ r.wanted \subseteq Permission
  BY <1>4
<1> QED BY <1>1, <1>2, <1>3, <1>4, <1>5, GoesOn

LEMMA CreateRoleKeeps ==
  ASSUME AInv, NEW q \in Requests, NEW r \in Roles, NEW wanted \in RoleGrants,
         create_role(q, r, wanted) \/ update_role(q, r, wanted),
         UNCHANGED provisioning, Remember(0)
  PROVE  AInv' /\ Recent
<1>1. wanted \in SUBSET Permission /\ req[q].stage = "accepted"
  BY AccessAssumption, AdministersAt DEF create_role, update_role
<1>2. TablesTypeOK' /\ NoCache
  BY RoleStatements, TablesStay DEF create_role, update_role, AInv
<1>3. PICK stage \in {"role_updated", "role_listed"} :
        Become(q, [Only(q, stage) EXCEPT !.subject = r, !.wanted = wanted])
  BY DEF create_role, update_role
<1> QED BY <1>1, <1>2, <1>3, RoleGoesOn

LEMMA DeleteRoleKeeps ==
  ASSUME AInv, NEW q \in Requests, NEW r \in Roles, delete_role(q, r),
         UNCHANGED provisioning, Remember(0)
  PROVE  AInv' /\ Recent
<1>1. req[q].stage = "accepted" /\ list_admin_user_ids_for_role(r) \in SUBSET Users
  BY AdministersAt DEF delete_role, list_admin_user_ids_for_role
<1>2. TablesTypeOK' /\ NoCache
  BY TablesStay DEF delete_role, AInv
<1>3. Become(q, [Only(q, "role_doomed") EXCEPT !.subject = r, !.todo = list_admin_user_ids_for_role(r)])
  BY DEF delete_role
<1>4. {} \in SUBSET Permission
  OBVIOUS
<1> QED BY <1>1, <1>2, <1>3, <1>4, RoleGoesOn

LEMMA ListAffectedKeeps ==
  ASSUME AInv, NEW q \in Requests, ListAffectedUsers(q) \/ BeginReplacePermissions(q),
         UNCHANGED provisioning, Remember(0)
  PROVE  AInv' /\ Recent
<1> DEFINE x == req[q]
<1>1. /\ x.stage \in {"role_updated", "role_listed"} /\ NoTables /\ NoCache
  BY DEF ListAffectedUsers, BeginReplacePermissions, At
<1>2. TablesTypeOK' /\ CacheTypeOK' /\ CacheShrinks
  BY <1>1, TablesStay, NoCacheShrinks DEF AInv
<1>3. x \in Request /\ x.subject \in Roles /\ x.wanted \subseteq Permission
  BY <1>1, RequestFits DEF Fits
<1>4. {"role_listed", "grants_open"} \subseteq Stage \cap Quiet
  BY DEF Quiet, Stage
<1>5. CASE ListAffectedUsers(q)
  <2> DEFINE todo == list_admin_user_ids_for_role(x.subject)
             r    == [x EXCEPT !.stage = "role_listed", !.todo = todo]
  <2>1. Become(q, r) /\ todo \in SUBSET Users
    BY <1>5 DEF ListAffectedUsers, list_admin_user_ids_for_role
  <2> HIDE DEF todo
  <2>2. /\ r \in Request /\ r.stage = "role_listed" /\ r.proc = x.proc /\ r.tok = x.tok
        /\ r.subject = x.subject /\ r.wanted = x.wanted
    BY <1>3, <1>4, <2>1 DEF Request
  <2> HIDE DEF r
  <2> QED BY <1>1, <1>2, <1>3, <1>4, <2>1, <2>2, GoesOn
<1>6. CASE BeginReplacePermissions(q)
  <2> DEFINE seen == grants[x.subject]
             r    == [x EXCEPT !.stage = "grants_open", !.seen = seen]
  <2>1. Become(q, r)
    BY <1>6 DEF BeginReplacePermissions
  <2>2. seen \in SUBSET (Roles \cup Permission)
    BY <1>3 DEF AInv, TablesTypeOK
  <2> HIDE DEF seen
  <2>3. /\ r \in Request /\ r.stage = "grants_open" /\ r.proc = x.proc /\ r.tok = x.tok
        /\ r.subject = x.subject /\ r.wanted = x.wanted
    BY <1>3, <1>4, <2>2 DEF Request
  <2> HIDE DEF r
  <2> QED BY <1>1, <1>2, <1>3, <1>4, <2>1, <2>3, GoesOn
<1> QED BY <1>5, <1>6

LEMMA CommitReplacePermissionsKeeps ==
  ASSUME AInv, NEW q \in Requests, CommitReplacePermissions(q), UNCHANGED provisioning, Remember(0)
  PROVE  AInv' /\ Recent
<1>1. req[q].stage = "grants_open" /\ NoCache
  BY DEF CommitReplacePermissions, At
<1>2. req[q].subject \in Roles /\ req[q].wanted \in SUBSET Permission /\ req[q].todo \in SUBSET Users
  BY <1>1, RequestFits, OldSubject DEF Fits
<1>3. TablesTypeOK'
  <2>1. ReplaceRolePermissions(req[q].subject, req[q].seen, req[q].wanted) \/ NoTables
    BY DEF CommitReplacePermissions
  <2> QED BY <1>2, <2>1, TablesStay DEF AInv, TablesTypeOK, ReplaceRolePermissions
<1>4. Finish(q) \/ Become(q, [Only(q, "invalidating") EXCEPT !.todo = req[q].todo])
  BY DEF CommitReplacePermissions
<1> QED BY <1>1, <1>2, <1>3, <1>4, InvalidatingKeeps, EndsAfterStatement

LEMMA DeleteDoomedKeeps ==
  ASSUME AInv, NEW q \in Requests, DeleteDoomedRole(q), UNCHANGED provisioning, Remember(0)
  PROVE  AInv' /\ Recent
<1>1. req[q].stage = "role_doomed" /\ NoCache
  BY DEF DeleteDoomedRole, At
<1>2. req[q].subject \in Roles /\ req[q].todo \in SUBSET Users
  BY <1>1, RequestFits, OldSubject DEF Fits
<1>3. TablesTypeOK'
  BY <1>2, RoleStatements, TablesStay DEF DeleteDoomedRole, AInv
<1>4. Finish(q) \/ Become(q, [Only(q, "invalidating") EXCEPT !.todo = req[q].todo])
  BY DEF DeleteDoomedRole
<1> QED BY <1>1, <1>2, <1>3, <1>4, InvalidatingKeeps, EndsAfterStatement

LEMMA RoleHandlerKeeps ==
  ASSUME AInv, NEW q \in Requests, RoleHandler(q), UNCHANGED provisioning, Remember(0)
  PROVE  AInv' /\ Recent
BY CreateRoleKeeps, DeleteRoleKeeps, ListAffectedKeeps, CommitReplacePermissionsKeeps,
   DeleteDoomedKeeps DEF RoleHandler

-----------------------------------------------------------------------------
(* routes/admin.rs: API clients.                                           *)

LEMMA ClientStatements ==
  ASSUME TablesTypeOK, NEW c \in Clients,
         \/ CreateClientRow(c) \/ upsert_api_client(c) \/ DeleteClientRow(c)
         \/ \E on \in BOOLEAN : UpdateClientRow(c, on)
         \/ \E wanted \in SUBSET Scope : ReplaceScopes(c, wanted)
         \/ \E s \in Scope : create_api_client_scope(c, s)
  PROVE  TablesTypeOK'
<1>1. /\ "active" \in AccountStatus /\ "deleted" \in AccountStatus /\ "deleted" \in TokenStatus
      /\ \A on \in BOOLEAN : ActiveIf(on) \in AccountStatus
  BY DEF AccountStatus, TokenStatus, ActiveIf
<1>2. c \in Accounts
  BY DEF Accounts
<1> HIDE DEF AccountStatus, TokenStatus
<1>3. ASSUME CreateClientRow(c) \/ upsert_api_client(c) PROVE TablesTypeOK'
  BY <1>1, <1>2, <1>3 DEF TablesTypeOK, CreateClientRow, upsert_api_client, SetAccount
<1>4. ASSUME DeleteClientRow(c) PROVE TablesTypeOK'
  BY <1>1, <1>2, <1>4 DEF TablesTypeOK, DeleteClientRow, SetAccount, DeleteTokensOf
<1>5. ASSUME NEW on \in BOOLEAN, UpdateClientRow(c, on) PROVE TablesTypeOK'
  BY <1>1, <1>2, <1>5 DEF TablesTypeOK, UpdateClientRow, SetAccount
<1>6. ASSUME NEW wanted \in SUBSET Scope, ReplaceScopes(c, wanted) PROVE TablesTypeOK'
  BY <1>6 DEF TablesTypeOK, ReplaceScopes
<1>7. ASSUME NEW s \in Scope, create_api_client_scope(c, s) PROVE TablesTypeOK'
  BY <1>7 DEF TablesTypeOK, create_api_client_scope
<1> QED BY <1>3, <1>4, <1>5, <1>6, <1>7

LEMMA CreateClientKeeps ==
  ASSUME AInv, NEW q \in Requests, NEW c \in Clients, NEW wanted \in ScopeGrants,
         create_api_client(q, c, wanted), UNCHANGED provisioning, Remember(0)
  PROVE  AInv' /\ Recent
<1> DEFINE x == Only(q, "client_created")
           r == [x EXCEPT !.subject = c, !.wanted = wanted]
<1>1. wanted \in SUBSET Scope /\ wanted \in SUBSET (Roles \cup Permission \cup Scope)
  BY AccessAssumption
<1>2. TablesTypeOK' /\ CacheTypeOK' /\ CacheShrinks
  BY ClientStatements, NoCacheShrinks DEF create_api_client, AInv
<1>3. Become(q, r) /\ req[q].stage = "accepted"
  BY AdministersAt DEF create_api_client
<1>4. "client_created" \in Stage /\ c \in Accounts
  BY DEF Stage, Accounts
<1>5. /\ x \in Request /\ x.stage = "client_created" /\ x.proc = req[q].proc /\ x.tok = req[q].tok
  BY <1>4, OnlyFits
<1> HIDE DEF x
<1>6. /\ r \in Request /\ r.stage = "client_created" /\ r.proc = x.proc /\ r.tok = x.tok
      /\ r.subject = c /\ r.wanted = wanted
  BY <1>1, <1>4, <1>5 DEF Request
<1> HIDE DEF r
<1> QED BY <1>1, <1>2, <1>3, <1>5, <1>6, GoesOn

LEMMA ClientHandlerKeeps ==
  ASSUME AInv, NEW q \in Requests, ClientHandler(q), UNCHANGED provisioning, Remember(0)
  PROVE  AInv' /\ Recent
<1>1. ASSUME NEW c \in Clients, NEW on \in BOOLEAN, update_api_client(q, c, on)
      PROVE  AInv' /\ Recent
  <2>1. TablesTypeOK'
    BY <1>1, ClientStatements DEF update_api_client, AInv
  <2> QED BY <1>1, <2>1, EndsAfterStatement DEF update_api_client
<1>2. ASSUME NEW c \in Clients, delete_api_client(q, c)
      PROVE  AInv' /\ Recent
  <2>1. TablesTypeOK'
    BY <1>2, ClientStatements DEF delete_api_client, AInv
  <2> QED BY <1>2, <2>1, EndsAfterStatement DEF delete_api_client
<1>3. ASSUME GrantScopes(q)
      PROVE  AInv' /\ Recent
  <2>1. req[q].stage = "client_created" /\ Finish(q) /\ NoCache
    BY <1>3 DEF GrantScopes, At
  <2>2. req[q].subject \in Clients /\ req[q].wanted \in SUBSET Scope
    BY <2>1, RequestFits DEF Fits
  <2>3. TablesTypeOK'
    BY <1>3, <2>2, ClientStatements, TablesStay DEF GrantScopes, AInv
  <2> QED BY <2>1, <2>3, EndsAfterStatement
<1> QED BY <1>1, <1>2, <1>3, CreateClientKeeps DEF ClientHandler

-----------------------------------------------------------------------------
(* The tools, the tokens' expiry and time: no request changes stage.       *)

\* Rows change, and no request or cache.
LEMMA OthersKeep ==
  ASSUME AInv, TablesTypeOK', UNCHANGED <<cacheVars, req>>, provisioning' \in Users \cup {None},
         Remember(0)
  PROVE  AInv' /\ Recent
<1>1. CacheTypeOK' /\ CacheShrinks
  BY DEF AInv, CacheTypeOK, CacheShrinks, cacheVars
<1>2. RequestsFit'
  BY DEF AInv, RequestsFit, Fits
<1>3. FoundAreRecent'
  BY FoundStays DEF FoundAreRecent
<1>4. Recent
  BY DEF Recent, RightsAreRecent, ExpiryIsObserved, LetIn
<1>5. LackingFits'
  BY LackingStep DEF AInv
<1> QED BY <1>1, <1>2, <1>3, <1>4, <1>5, CacheStays DEF AInv

LEMMA ToolKeeps ==
  ASSUME AInv, Tool \/ \E t \in Tokens : Expire(t), Remember(0)
  PROVE  AInv' /\ Recent
<1>1. ASSUME NEW c \in Clients, ProvisionClient(c) \/ \E s \in Scope : ProvisionScope(c, s)
      PROVE  AInv' /\ Recent
  BY <1>1, ClientStatements, OthersKeep DEF ProvisionClient, ProvisionScope, AInv
<1>2. ASSUME NEW u \in Users, ProvisionUser(u)
      PROVE  AInv' /\ Recent
  BY <1>2, UserStatements, OthersKeep DEF ProvisionUser, AInv
<1>3. ASSUME NEW r \in Roles, ProvisionRole(r)
      PROVE  AInv' /\ Recent
  <2>1. provisioning \in Users
    BY <1>3 DEF ProvisionRole, AInv
  <2>2. TablesTypeOK'
    BY <1>3, <2>1, UserStatements, TablesStay DEF ProvisionRole, AInv
  <2> QED BY <1>3, <2>2, OthersKeep DEF ProvisionRole
<1>4. ASSUME NEW r \in Roles, SeedRolePermissions(r)
      PROVE  AInv' /\ Recent
  <2>1. grants[r] \in SUBSET Permission
    BY DEF AInv, TablesTypeOK
  <2>2. TablesTypeOK'
    BY <1>4, <2>1, RoleStatements DEF SeedRolePermissions, AInv
  <2> QED BY <1>4, <2>2, OthersKeep DEF SeedRolePermissions, AInv
<1>5. ASSUME NEW t \in Tokens, Expire(t)
      PROVE  AInv' /\ Recent
  BY <1>5, TokenStatements, OthersKeep DEF Expire, AInv
<1> QED BY <1>1, <1>2, <1>3, <1>4, <1>5 DEF Tool

LEMMA TickKeeps ==
  ASSUME AInv, Tick, Remember(1)
  PROVE  AInv' /\ Recent
<1>1. TablesTypeOK'
  BY DEF Tick, AInv, TablesTypeOK, tables
<1>2. \A p \in Processes, t \in Tokens :
        /\ cache[p][t] \in Entry /\ cache'[p][t] \in Entry
        /\ cache'[p][t].keys = cache[p][t].keys
        /\ cache[p][t].keys # {} =>
              cache'[p][t].age = TTL \/ cache'[p][t].age = cache[p][t].age + 1
  <2> SUFFICES ASSUME NEW p \in Processes, NEW t \in Tokens
               PROVE  /\ cache[p][t] \in Entry /\ cache'[p][t] \in Entry
                      /\ cache'[p][t].keys = cache[p][t].keys
                      /\ cache[p][t].keys # {} =>
                            cache'[p][t].age = TTL \/ cache'[p][t].age = cache[p][t].age + 1
    OBVIOUS
  <2>1. cache'[p][t] = Older(cache[p][t]) /\ cache[p][t] \in Entry
    BY DEF Tick, CacheAges, AInv, CacheTypeOK
  <2> QED BY <2>1, BoundFits DEF Older, Entry
<1>3. CacheTypeOK'
  <2>1. cache' = [p \in Processes |-> [t \in Tokens |-> cache'[p][t]]] /\ recent' = recent
    BY DEF Tick, CacheAges
  <2> QED BY <1>2, <2>1 DEF AInv, CacheTypeOK
<1>4. CachedAreRecent'
  <2> SUFFICES ASSUME NEW p \in Processes, NEW t \in Tokens, NEW k \in cache'[p][t].keys
               PROVE  lacking'[t][k] <= cache'[p][t].age + LookupMax
    BY DEF CachedAreRecent
  <2>1. k \in cache[p][t].keys /\ k \in Key
    BY <1>2 DEF Entry
  <2>2. lacking[t][k] <= cache[p][t].age + LookupMax
    BY <2>1 DEF AInv, CachedAreRecent
  <2>3. /\ lacking[t][k] \in Nat /\ lacking'[t][k] \in Nat
        /\ lacking'[t][k] <= lacking[t][k] + 1 /\ lacking'[t][k] <= Bound
    BY <2>1, LackingStep DEF AInv
  <2> QED BY <1>2, <2>1, <2>2, <2>3, BoundFits DEF Entry
<1>5. \A q \in Requests :
        IF req[q].stage = "found"
        THEN req'[q] = [req[q] EXCEPT !.age = @ + 1] /\ req[q].age < LookupMax
        ELSE req'[q] = req[q]
  BY DEF Tick, At
<1>6. \A q \in Requests : Fits(req'[q]) /\ req'[q].stage = req[q].stage
  <2> SUFFICES ASSUME NEW q \in Requests PROVE Fits(req'[q]) /\ req'[q].stage = req[q].stage
    OBVIOUS
  <2> DEFINE x == req[q]
             r == [x EXCEPT !.age = @ + 1]
  <2>1. x \in Request /\ Fits(x)
    BY RequestFits
  <2>2. CASE x.stage = "found"
    <3>1. req'[q] = r /\ x.age + 1 \in 0..LookupMax
      BY <1>5, <2>1, <2>2, BoundFits DEF Request
    <3>2. /\ r \in Request /\ r.stage = "found" /\ r.proc = x.proc /\ r.tok = x.tok /\ r.keys = x.keys
      BY <2>1, <2>2, <3>1 DEF Request
    <3> QED BY <2>1, <2>2, <3>1, <3>2 DEF Fits
  <2>3. CASE x.stage # "found"
    BY <1>5, <2>1, <2>3
  <2> QED BY <2>2, <2>3
<1>7. RequestsFit'
  <2>1. req' = [q \in Requests |-> req'[q]]
    BY DEF Tick
  <2> QED BY <1>6, <2>1 DEF RequestsFit, Fits
<1>8. FoundAreRecent'
  <2> SUFFICES ASSUME NEW q \in Requests, req'[q].stage = "found", NEW k \in req'[q].keys
               PROVE  lacking'[req'[q].tok][k] <= req'[q].age
    BY DEF FoundAreRecent
  <2>1. req[q].stage = "found" /\ req[q] \in Request /\ Fits(req[q])
    BY <1>6, RequestFits
  <2>2. /\ req'[q].keys = req[q].keys /\ req'[q].tok = req[q].tok /\ req'[q].age = req[q].age + 1
        /\ req[q].age \in Nat
    <3>1. req'[q] = [req[q] EXCEPT !.age = @ + 1] /\ req[q].age \in Nat
      BY <1>5, <2>1, BoundFits DEF Request
    <3> QED BY <2>1, <3>1 DEF Request
  <2>3. req[q].tok \in Tokens /\ k \in Key
    BY <2>1, <2>2 DEF Fits, Request
  <2>4. lacking[req[q].tok][k] <= req[q].age
    BY <2>1, <2>2 DEF AInv, FoundAreRecent
  <2>5. /\ lacking[req[q].tok][k] \in Nat /\ lacking'[req[q].tok][k] \in Nat
        /\ lacking'[req[q].tok][k] <= lacking[req[q].tok][k] + 1
    BY <2>3, LackingStep DEF AInv
  <2> QED BY <2>2, <2>4, <2>5
<1>9. Recent
  BY <1>6 DEF Recent, RightsAreRecent, ExpiryIsObserved, LetIn
<1>10. LackingFits' /\ provisioning' \in Users \cup {None}
  BY LackingStep DEF AInv, Tick
<1> QED BY <1>1, <1>3, <1>4, <1>7, <1>8, <1>9, <1>10 DEF AInv

-----------------------------------------------------------------------------
(* The capacity of the cache.                                              *)

\* The order of use is an order of the contexts a process holds, which fit in
\* its capacity.
OrderFits(p) ==
    /\ IsFiniteSet(Held(p)) /\ Cardinality(Held(p)) <= CacheCapacity
    /\ Orders(recent[p], Held(p))

OInv == \A p \in Processes : OrderFits(p)

\* What a step may do to the cache.
CacheStep ==
    \/ UNCHANGED cacheVars
    \/ \E p, gone : Pop(p, gone)
    \/ \E p, t : get_bearer_context(p, t)
    \/ \E p, t, keys : insert_bearer_context(p, t, keys)
    \/ CacheAges

LEMMA OrderStays ==
  ASSUME NEW p, OrderFits(p), cache'[p] = cache[p], recent'[p] = recent[p]
  PROVE  OrderFits(p)'
BY DEF OrderFits, Held

\* A process that holds fewer contexts, in the order they had.
LEMMA FewerFit ==
  ASSUME NEW p \in Processes, OrderFits(p), Held(p)' \subseteq Held(p),
         \A x, y \in Held(p)' : <<x, y>> \in recent'[p] <=> <<x, y>> \in recent[p]
  PROVE  OrderFits(p)'
<1>1. /\ IsFiniteSet(Held(p)') /\ Cardinality(Held(p)') <= Cardinality(Held(p))
      /\ Cardinality(Held(p)) \in Nat /\ Cardinality(Held(p)) <= CacheCapacity
  BY FS_Subset, FS_CardinalityType DEF OrderFits
<1>2. Cardinality(Held(p)') \in Nat
  BY <1>1, FS_CardinalityType
<1>3. Cardinality(Held(p)') <= CacheCapacity
  BY <1>1, <1>2, CacheAssumption
<1>4. Orders(recent'[p], Held(p)')
  BY DEF Orders, OrderFits
<1> QED BY <1>1, <1>3, <1>4 DEF OrderFits

LEMMA PopKeepsOrder ==
  ASSUME CacheTypeOK, NEW p \in Processes, OrderFits(p), NEW o, NEW gone, Pop(o, gone)
  PROVE  OrderFits(p)'
<1>1. CASE o = p
  <2>1. /\ cache'[p] = [t \in Tokens |-> IF t \in gone THEN Absent ELSE cache[p][t]]
        /\ recent'[p] = ForgetOrder(p, gone)
    BY <1>1 DEF Pop, CacheTypeOK
  <2>2. \A t \in Held(p)' : t \in Held(p) /\ t \notin gone
    BY <2>1 DEF Held, Absent
  <2>3. \A x, y \in Held(p)' : <<x, y>> \in recent'[p] <=> <<x, y>> \in recent[p]
    BY <2>1, <2>2 DEF ForgetOrder
  <2> QED BY <2>2, <2>3, FewerFit
<1>2. CASE o # p
  BY <1>2, OrderStays DEF Pop, CacheTypeOK
<1> QED BY <1>1, <1>2

LEMMA InUsedLast ==
  ASSUME NEW p, NEW t, NEW x \in Held(p) \cup {t}, NEW y \in Held(p) \cup {t}
  PROVE  <<x, y>> \in UsedLast(p, t) <=> \/ x # t /\ y # t /\ <<x, y>> \in recent[p]
                                         \/ x = t /\ y # t
BY DEF UsedLast

LEMMA GetKeepsOrder ==
  ASSUME CacheTypeOK, NEW p \in Processes, OrderFits(p), NEW o, NEW t, get_bearer_context(o, t)
  PROVE  OrderFits(p)'
<1>1. CASE t \notin Held(o)
  <2>1. UNCHANGED cacheVars
    BY <1>1 DEF get_bearer_context, Fresh
  <2>2. cache'[p] = cache[p] /\ recent'[p] = recent[p]
    BY <2>1 DEF cacheVars
  <2> QED BY <2>2, OrderStays
<1>2. CASE t \in Held(o) /\ Stale(o, t)
  <2>1. Pop(o, {t})
    BY <1>2 DEF get_bearer_context, Fresh
  <2> QED BY <2>1, PopKeepsOrder
<1>3. CASE Fresh(o, t)
  <2>1. recent' = [recent EXCEPT ![o] = UsedLast(o, t)] /\ cache' = cache /\ t \in Held(o)
    BY <1>3 DEF get_bearer_context, Fresh
  <2>2. CASE o = p
    <3>1. recent'[p] = UsedLast(p, t) /\ Held(p)' = Held(p) /\ t \in Held(p)
      BY <2>1, <2>2 DEF CacheTypeOK, Held
    <3>2. Promotes(UsedLast(p, t), recent[p], t, Held(p))
      BY <3>1, InUsedLast DEF Promotes
    <3>3. Orders(UsedLast(p, t), Held(p))
      BY <3>2, OrderAfterUse DEF OrderFits
    <3> QED BY <3>1, <3>3 DEF OrderFits
  <2>3. CASE o # p
    BY <2>1, <2>3, OrderStays DEF CacheTypeOK
  <2> QED BY <2>2, <2>3
<1> QED BY <1>1, <1>2, <1>3 DEF Fresh

\* A full cache has a context that is given up first: of those that have expired
\* the one used last, of all the one used first.
LEMMA VictimExists ==
  ASSUME NEW p \in Processes, OrderFits(p), Held(p) # {}
  PROVE  /\ evict_prefer_expired_entry(p) \subseteq Held(p)
         /\ \E v \in Held(p) : v \in evict_prefer_expired_entry(p)
<1> DEFINE stale == {t \in Held(p) : Stale(p, t)}
<1>1. evict_prefer_expired_entry(p) \subseteq Held(p)
  BY DEF evict_prefer_expired_entry
<1>2. CASE stale # {}
  <2>1. Orders(recent[p], stale) /\ IsFiniteSet(stale)
    BY FS_Subset DEF OrderFits, Orders
  <2> HIDE DEF stale
  <2>2. PICK v : LastUsed(recent[p], stale, v)
    BY <1>2, <2>1, OrderHasEnds
  <2>3. v \in evict_prefer_expired_entry(p)
    BY <1>2, <2>2 DEF evict_prefer_expired_entry, LastUsed, stale
  <2> QED BY <1>1, <2>3
<1>3. CASE stale = {}
  <2>1. PICK v : FirstUsed(recent[p], Held(p), v)
    BY OrderHasEnds DEF OrderFits
  <2>2. v \in evict_prefer_expired_entry(p)
    BY <1>3, <2>1 DEF evict_prefer_expired_entry, FirstUsed
  <2> QED BY <1>1, <2>2
<1> QED BY <1>1, <1>2, <1>3

LEMMA InsertKeepsOrder ==
  ASSUME CacheTypeOK, NEW p \in Processes, OrderFits(p), NEW o, NEW t, NEW keys,
         insert_bearer_context(o, t, keys)
  PROVE  OrderFits(p)'
<1> DEFINE victims == IF t \notin Held(o) /\ Cardinality(Held(o)) >= CacheCapacity
                      THEN evict_prefer_expired_entry(o) ELSE {}
<1>1. /\ cache' = [cache EXCEPT ![o] = [n \in Tokens |->
                     IF n = t THEN [keys |-> keys, age |-> 0]
                     ELSE IF n \in victims THEN Absent ELSE @[n]]]
      /\ recent' = [recent EXCEPT ![o] =
                        {pair \in UsedLast(o, t) : pair[1] \notin victims /\ pair[2] \notin victims}]
  BY DEF insert_bearer_context
<1>2. CASE o # p
  BY <1>1, <1>2, OrderStays DEF CacheTypeOK
<1>3. CASE o = p
  <2>1. /\ victims \subseteq Held(p) /\ t \notin victims
        /\ t \in Held(p) \/ Cardinality(Held(p)) < CacheCapacity \/ \E v \in Held(p) : v \in victims
    <3>1. CASE t \in Held(o) \/ ~(Cardinality(Held(o)) >= CacheCapacity)
      <4>1. Cardinality(Held(p)) \in Nat
        BY FS_CardinalityType DEF OrderFits
      <4> QED BY <1>3, <3>1, <4>1, CacheAssumption
    <3>2. CASE t \notin Held(o) /\ Cardinality(Held(o)) >= CacheCapacity
      <4>1. Held(p) # {}
        BY <1>3, <3>2, FS_EmptySet, CacheAssumption
      <4>2. victims = evict_prefer_expired_entry(p)
        BY <1>3, <3>2
      <4> QED BY <1>3, <3>2, <4>1, <4>2, VictimExists
    <3> QED BY <3>1, <3>2
  <2> HIDE DEF victims
  <2>2. /\ cache'[p] = [n \in Tokens |-> IF n = t THEN [keys |-> keys, age |-> 0]
                                        ELSE IF n \in victims THEN Absent ELSE cache[p][n]]
        /\ recent'[p] = {pair \in UsedLast(p, t) : pair[1] \notin victims /\ pair[2] \notin victims}
    BY <1>1, <1>3 DEF CacheTypeOK
  <2>3. \A n \in Held(p)' : n = t \/ (n \in Held(p) /\ n \notin victims)
    BY <2>2 DEF Held, Absent
  <2>4. Held(p)' \subseteq Held(p) \cup {t} /\ \A n \in victims : n \notin Held(p)'
    BY <2>1, <2>3
  <2>5. Orders(recent'[p], Held(p)')
    <3>1. \A x, y \in Held(p)' : <<x, y>> \in recent'[p] <=> <<x, y>> \in UsedLast(p, t)
      BY <2>2, <2>4
    <3>2. Promotes(recent'[p], recent[p], t, Held(p)')
      BY <2>4, <3>1, InUsedLast DEF Promotes
    <3> QED BY <2>4, <3>2, OrderAfterUse DEF OrderFits
  <2>6. IsFiniteSet(Held(p)') /\ Cardinality(Held(p)') <= CacheCapacity
    <3>1. t \in Held(p) \/ Cardinality(Held(p)) < CacheCapacity \/ \E v \in Held(p) : v \notin Held(p)'
      BY <2>1, <2>4
    <3> QED BY <2>4, <3>1, CapacityKept, CacheAssumption DEF OrderFits
  <2> QED BY <2>5, <2>6 DEF OrderFits
<1> QED BY <1>2, <1>3

LEMMA AgingKeepsOrder ==
  ASSUME CacheTypeOK, NEW p \in Processes, OrderFits(p), CacheAges
  PROVE  OrderFits(p)'
<1>1. recent' = recent /\ cache'[p] = [t \in Tokens |-> Older(cache[p][t])]
  BY DEF CacheAges
<1>2. \A t \in Tokens : Older(cache[p][t]).keys = cache[p][t].keys
  BY DEF Older, CacheTypeOK, Entry
<1>3. Held(p)' = Held(p)
  BY <1>1, <1>2 DEF Held
<1> QED BY <1>1, <1>3 DEF OrderFits

\* Every step that touches the cache does so through its operations.
LEMMA NextStepsCache == [Next]_vars => CacheStep
<1>1. ASSUME NEW q \in Requests, RequestStep(q) PROVE CacheStep
  <2>1. ASSUME Authenticate(q) PROVE CacheStep
    BY <2>1 DEF Authenticate, Arrive, ReadContext, FillCache, NoCache, CacheStep
  <2>2. ASSUME AuthHandler(q) PROVE CacheStep
    BY <2>2 DEF AuthHandler, CheckCredentials, issue_access_token, issue_admin_access_token,
                revoke_token, logout_admin, FinishRevocation, NoCache, CacheStep
  <2>3. ASSUME UserHandler(q) PROVE CacheStep
    BY <2>3 DEF UserHandler, create_admin_user, update_admin_user, delete_admin_user,
                invalidate_tokens_for_user, BeginReplaceRoles, CommitReplaceRoles,
                DropTokensBeforeDelete, DeleteDroppedUser, NoCache, CacheStep
  <2>4. ASSUME RoleHandler(q) PROVE CacheStep
    BY <2>4 DEF RoleHandler, create_role, update_role, delete_role, ListAffectedUsers,
                BeginReplacePermissions, CommitReplacePermissions, DeleteDoomedRole, NoCache, CacheStep
  <2>5. ASSUME ClientHandler(q) PROVE CacheStep
    BY <2>5 DEF ClientHandler, create_api_client, update_api_client, delete_api_client,
                GrantScopes, NoCache, CacheStep
  <2>6. ASSUME Serve(q) \/ Abandon(q) PROVE CacheStep
    BY <2>6 DEF Serve, Abandon, NoCache, CacheStep
  <2> QED BY <1>1, <2>1, <2>2, <2>3, <2>4, <2>5, <2>6 DEF RequestStep
<1>2. ASSUME Tool PROVE CacheStep
  BY <1>2 DEF Tool, ProvisionClient, ProvisionScope, ProvisionUser, ProvisionRole,
              SeedRolePermissions, CacheStep
<1>3. ASSUME NEW t \in Tokens, Expire(t) PROVE CacheStep
  BY <1>3 DEF Expire, CacheStep
<1>4. ASSUME Tick PROVE CacheStep
  BY <1>4 DEF Tick, CacheStep
<1>5. CASE UNCHANGED vars
  BY <1>5 DEF vars, CacheStep
<1> QED BY <1>1, <1>2, <1>3, <1>4, <1>5 DEF Next, Act

LEMMA NextKeepsOrder == AInv /\ OInv /\ [Next]_vars => OInv'
<1> SUFFICES ASSUME AInv, OInv, [Next]_vars, NEW p \in Processes PROVE OrderFits(p)'
  BY DEF OInv
<1>1. CacheTypeOK /\ OrderFits(p) /\ CacheStep
  BY NextStepsCache DEF AInv, OInv
<1>2. CASE UNCHANGED cacheVars
  BY <1>1, <1>2, OrderStays DEF cacheVars
<1> QED BY <1>1, <1>2, PopKeepsOrder, GetKeepsOrder, InsertKeepsOrder, AgingKeepsOrder DEF CacheStep

-----------------------------------------------------------------------------
(* The theorems.                                                           *)

LEMMA InitFits == Init => AInv
<1> SUFFICES ASSUME Init PROVE AInv
  OBVIOUS
<1>1. TablesTypeOK
  BY DEF Init, TablesTypeOK, AccountStatus, RoleStatus, TokenStatus
<1>2. CacheTypeOK /\ CachedAreRecent
  <2>1. Absent \in Entry /\ Absent.keys = {}
    BY BoundFits DEF Absent, Entry
  <2> QED BY <2>1 DEF Init, CacheInit, CacheTypeOK, CachedAreRecent
<1>3. RequestsFit /\ FoundAreRecent
  <2>1. Idle.stage = "idle"
    BY DEF Idle
  <2> QED BY <2>1, IdleFits DEF Init, RequestsFit, FoundAreRecent
<1>4. LackingFits
  BY BoundFits DEF Init, LackingFits
<1> QED BY <1>1, <1>2, <1>3, <1>4 DEF AInv, Init

LEMMA NextKeeps == AInv /\ [Next]_vars => AInv' /\ [Recent]_vars
<1> SUFFICES ASSUME AInv, [Next]_vars PROVE AInv' /\ [Recent]_vars
  OBVIOUS
<1>1. ASSUME NEW q \in Requests, RequestStep(q), UNCHANGED provisioning, Remember(0)
      PROVE  AInv' /\ Recent
  <2>1. ASSUME Authenticate(q) PROVE AInv' /\ Recent
    BY <1>1, <2>1, ArriveKeeps, ReadContextKeeps, FillCacheKeeps DEF Authenticate
  <2>2. ASSUME AuthHandler(q) PROVE AInv' /\ Recent
    BY <1>1, <2>2, CheckCredentialsKeeps, IssueKeeps, RevokeKeeps, FinishRevocationKeeps DEF AuthHandler
  <2> QED BY <1>1, <2>1, <2>2, UserHandlerKeeps, RoleHandlerKeeps, ClientHandlerKeeps, AbandonKeeps
          DEF RequestStep
<1>2. CASE Next
  BY <1>1, <1>2, ToolKeeps, TickKeeps DEF Next, Act
<1>3. CASE UNCHANGED vars
  <2>1. UNCHANGED <<tables, cacheVars, req, provisioning, lacking>>
    BY <1>3 DEF vars
  <2>2. TablesTypeOK' /\ CacheTypeOK' /\ CachedAreRecent'
    BY <2>1 DEF tables, cacheVars, AInv, TablesTypeOK, CacheTypeOK, CachedAreRecent
  <2>3. RequestsFit' /\ LackingFits' /\ FoundAreRecent' /\ provisioning' \in Users \cup {None}
    BY <2>1 DEF AInv, RequestsFit, Fits, LackingFits, FoundAreRecent
  <2> QED BY <1>3, <2>2, <2>3 DEF AInv
<1> QED BY <1>2, <1>3

LEMMA AccessInvariant == Spec => []AInv
<1>1. AInv /\ [Next]_vars => AInv'
  BY NextKeeps
<1> QED BY <1>1, InitFits, PTL DEF Spec

\* Every variable keeps its type; in particular a request that changes the
\* roles of a user or the permissions of a role was given rows of the right
\* tables (routes/admin.rs).
THEOREM AccessTyped == Spec => []TypeOK
<1>1. ASSUME AInv PROVE TypeOK
  <2>1. req \in [Requests -> Request]
    BY <1>1 DEF AInv, RequestsFit, Fits
  <2> QED BY <1>1, <2>1 DEF AInv, TypeOK, AccessTypeOK, LackingFits
<1> QED BY <1>1, AccessInvariant, PTL

\* Whatever the handlers fail to invalidate, and in whichever order they do, a
\* request is let in with a right that the tables granted less than TTL +
\* LookupMax ticks ago (get_bearer_context, insert_bearer_context).
THEOREM RightsRecent == Spec => AcceptedRightsAreRecent
<1>1. AInv /\ [Next]_vars => [RightsAreRecent]_vars
  BY NextKeeps DEF Recent
<1> QED BY <1>1, AccessInvariant, PTL DEF Spec, AcceptedRightsAreRecent

\* A token that has expired lets in only a request whose lookup had begun
\* before (is_context_token_expired).
THEOREM ExpiredRefused == Spec => ExpiredTokensAreRefused
<1>1. AInv /\ [Next]_vars => [ExpiryIsObserved]_vars
  BY NextKeeps DEF Recent
<1> QED BY <1>1, AccessInvariant, PTL DEF Spec, ExpiredTokensAreRefused

\* A process never caches more contexts than its capacity: a full cache has one
\* to give up for the next, expired or used least recently
\* (insert_bearer_context, evict_prefer_expired_entry).
THEOREM CacheBounded == Spec => []CacheIsBounded
<1>1. Init => OInv
  <2> SUFFICES ASSUME Init, NEW p \in Processes PROVE OrderFits(p)
    BY DEF OInv
  <2>1. Held(p) = {}
    BY DEF Init, CacheInit, Held, Absent
  <2>2. IsFiniteSet(Held(p)) /\ Cardinality(Held(p)) <= CacheCapacity
    BY <2>1, FS_EmptySet, CacheAssumption
  <2> QED BY <2>1, <2>2 DEF OrderFits, Orders
<1>2. OInv => CacheIsBounded
  BY DEF OInv, OrderFits, CacheIsBounded
<1>3. AInv /\ [Next]_vars => AInv'
  BY NextKeeps
<1> QED BY <1>1, <1>2, <1>3, InitFits, NextKeepsOrder, PTL DEF Spec
=============================================================================
