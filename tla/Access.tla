------------------------------- MODULE Access -------------------------------
(***************************************************************************)
(* Requests to the API: how a token is turned into a context by the        *)
(* extractors of src/api/extractors.rs and src/auth/service.rs, through    *)
(* the process's token cache or the database, and the handlers of          *)
(* src/api/routes/{auth,admin}.rs that change what a token gives.          *)
(*                                                                         *)
(* A request runs one statement per step, and other requests, the          *)
(* provisioning tools and time run in between.  req[q].stage says what q   *)
(* does next:                                                              *)
(*   lookup            read the context of tok from the database           *)
(*   found             it has read `keys', `age' ticks ago, and must still *)
(*                     record the use of the token and fill the cache      *)
(*   accepted          the handler runs with the permissions `keys'        *)
(*   credentials       issue a token: the owner was found active           *)
(*   revoked           revoke a token: the cache holds it yet              *)
(*   user_updated, roles_open                replace roles of `subject'    *)
(*   role_updated, role_listed, grants_open  replace its permissions       *)
(*   role_doomed       delete the role `subject'                           *)
(*   invalidating      drop the cached tokens of the users `todo'          *)
(*   deleting, dropped delete the user `subject'                           *)
(*   client_created    give the new client its scopes                      *)
(* `seen' holds the rows an open transaction has deleted.                  *)
(***************************************************************************)
EXTENDS TokenCache

CONSTANTS
    Requests,     \* requests that may be in progress at once
    Managers,     \* those of them that may be sent to routes/admin.rs
    SystemRoles,  \* roles the migrations insert
    RoleSets,     \* sets of roles a request may ask for a user
    RoleGrants,   \* sets of permissions a request may ask for a role
    ScopeGrants,  \* sets of scopes a request may ask for a client
    LookupMax,    \* bound: ticks between reading a context and caching it
    None

ASSUME AccessAssumption ==
    /\ Managers \subseteq Requests
    /\ SystemRoles \subseteq Roles
    /\ RoleSets \subseteq SUBSET Roles
    /\ RoleGrants \subseteq SUBSET Permission
    /\ ScopeGrants \subseteq SUBSET Scope
    /\ LookupMax \in Nat
    /\ None \notin Accounts \cup Roles \cup Tokens \cup Processes

VARIABLES
    req,           \* per request: what it is doing
    provisioning,  \* the admin user that provision_admin_user has created
    lacking        \* history: ticks since the database last gave a token a key

vars == <<tables, cacheVars, req, provisioning, lacking>>

Stage == {"idle", "lookup", "found", "accepted", "credentials", "revoked",
          "user_updated", "roles_open", "role_updated", "role_listed",
          "grants_open", "role_doomed", "invalidating", "deleting", "dropped",
          "client_created"}

Request ==
    [stage : Stage, proc : Processes \cup {None}, tok : Tokens \cup {None},
     admin : BOOLEAN, keys : SUBSET Key, age : 0..LookupMax,
     subject : Accounts \cup Roles \cup {None},
     wanted : SUBSET (Roles \cup Permission \cup Scope),
     seen : SUBSET (Roles \cup Permission), todo : SUBSET Users]

Idle == [stage |-> "idle", proc |-> None, tok |-> None, admin |-> FALSE,
         keys |-> {}, age |-> 0, subject |-> None, wanted |-> {},
         seen |-> {}, todo |-> {}]

\* The oldest a right can be when a request is let in with it.
Bound == TTL + LookupMax

AccessTypeOK ==
    /\ req \in [Requests -> Request]
    /\ provisioning \in Users \cup {None}
    /\ lacking \in [Tokens -> [Key -> 0..Bound]]

TypeOK == TablesTypeOK /\ CacheTypeOK /\ AccessTypeOK

\* The database as the migrations leave it.
Init ==
    /\ account = [a \in Accounts |-> "absent"]
    /\ role = [r \in Roles |-> IF r \in SystemRoles THEN "system" ELSE "absent"]
    /\ userRoles = [u \in Users |-> {}]
    /\ grants = [r \in Roles |-> IF r \in SystemRoles THEN Permission ELSE {}]
    /\ scopes = [c \in Clients |-> {}]
    /\ token = [t \in Tokens |-> "absent"]
    /\ expired = {}
    /\ CacheInit
    /\ req = [q \in Requests |-> Idle]
    /\ provisioning = None
    /\ lacking = [t \in Tokens |-> [k \in Key |-> Bound]]

-----------------------------------------------------------------------------
(* Requests.                                                               *)

Become(q, r)    == req' = [req EXCEPT ![q] = r]
Finish(q)       == Become(q, Idle)
At(q, stage)    == req[q].stage = stage
GoTo(q, stage)  == Become(q, [req[q] EXCEPT !.stage = stage])
Only(q, stage)  == [Idle EXCEPT !.stage = stage, !.proc = req[q].proc, !.tok = req[q].tok]
NoTables        == UNCHANGED tables
NoCache         == UNCHANGED cacheVars

\* A statement fails, or the client goes away and the handler's future is
\* dropped where it waits: whatever it has done so far stays done.
Abandon(q) ==
    /\ ~At(q, "idle")
    /\ Finish(q)
    /\ NoTables /\ NoCache

-----------------------------------------------------------------------------
(* The extractors.                                                         *)

\* A request presents t to an endpoint for administrators (`admin') or to one
\* for any bearer; get_admin_context ignores the context of an API client.
Arrive(q, p, t, admin) ==
    LET keys == IF admin /\ ~IsAdminToken(t) THEN {} ELSE CachedKeys(p, t)
        asks == [Idle EXCEPT !.proc = p, !.tok = t, !.admin = admin]
    IN  /\ At(q, "idle")
        /\ token[t] # "absent"
        /\ get_bearer_context(p, t)
        /\ Become(q, IF keys = {} THEN [asks EXCEPT !.stage = "lookup"]
                     ELSE [asks EXCEPT !.stage = "accepted", !.keys = keys])
        /\ NoTables

\* The context row and its checks, by the kind of endpoint.
ReadContext(q) ==
    LET r == req[q]
        keys == IF r.admin THEN authenticate_admin_bearer_token(r.tok)
                ELSE authenticate_any_bearer_token(r.tok)
    IN  /\ At(q, "lookup")
        /\ IF keys = {} THEN Finish(q)
           ELSE Become(q, [r EXCEPT !.stage = "found", !.keys = keys])
        /\ NoTables /\ NoCache

\* The use of the token is recorded; authenticate_cached_bearer_token and
\* authenticate_cached_admin_bearer_token insert the context and return it.
FillCache(q) ==
    LET r == req[q]
    IN  /\ At(q, "found")
        /\ insert_bearer_context(r.proc, r.tok, r.keys)
        /\ Become(q, [r EXCEPT !.stage = "accepted", !.age = 0])
        /\ NoTables

\* The handler only reads these tables, or refuses.
Serve(q) ==
    /\ At(q, "accepted")
    /\ Finish(q)
    /\ NoTables /\ NoCache

\* require_permission for the handlers of administrators.
Administers(q) == q \in Managers /\ At(q, "accepted") /\ req[q].admin /\ "admin" \in req[q].keys

-----------------------------------------------------------------------------
(* routes/auth.rs                                                          *)

\* authenticate_client_credentials, authenticate_admin_credentials: the owner
\* exists and is active.
CheckCredentials(q, t) ==
    /\ At(q, "idle")
    /\ token[t] = "absent"
    /\ \A o \in Requests : ~(At(o, "credentials") /\ req[o].tok = t)
    /\ account[OwnerOf[t]] = "active"
    /\ Become(q, [Idle EXCEPT !.stage = "credentials", !.tok = t])
    /\ NoTables /\ NoCache

issue_access_token(q) ==
    LET t == req[q].tok
    IN  /\ At(q, "credentials")
        /\ ~IsAdminToken(t)
        /\ IF AccountExists(OwnerOf[t]) THEN create_access_token(t) ELSE NoTables
        /\ Finish(q)
        /\ NoCache

issue_admin_access_token(q) ==
    LET t == req[q].tok
    IN  /\ At(q, "credentials")
        /\ IsAdminToken(t)
        /\ IF AccountExists(OwnerOf[t]) THEN create_admin_access_token(t) ELSE NoTables
        /\ Finish(q)
        /\ NoCache

\* An API client revokes the token it presents.
revoke_token(q) ==
    /\ At(q, "accepted")
    /\ ~req[q].admin
    /\ ~IsAdminToken(req[q].tok)
    /\ revoke_access_token(req[q].tok)
    /\ Become(q, Only(q, "revoked"))
    /\ NoCache

logout_admin(q) ==
    /\ At(q, "accepted")
    /\ req[q].admin
    /\ revoke_admin_access_token(req[q].tok)
    /\ Become(q, Only(q, "revoked"))
    /\ NoCache

\* The audit row references the client, so a client deleted meanwhile ends the
\* handler here (Abandon).
FinishRevocation(q) ==
    LET t == req[q].tok
    IN  /\ At(q, "revoked")
        /\ IsAdminToken(t) \/ AccountExists(OwnerOf[t])
        /\ Pop(req[q].proc, {t})
        /\ Finish(q)
        /\ NoTables

-----------------------------------------------------------------------------
(* routes/admin.rs: users.                                                 *)

create_admin_user(q, u, on, wanted) ==
    /\ Administers(q)
    /\ account[u] = "absent"
    /\ \A r \in wanted : RoleExists(r)
    /\ CreateUserRow(u, on, wanted)
    /\ Finish(q)
    /\ NoCache

\* resolve_role_ids and the UPDATE of the row.
update_admin_user(q, u, on, wanted) ==
    /\ Administers(q)
    /\ AccountExists(u)
    /\ \A r \in wanted : RoleExists(r)
    /\ UpdateUserRow(u, on)
    /\ Become(q, [Only(q, "user_updated") EXCEPT !.subject = u, !.wanted = wanted])
    /\ NoCache

BeginReplaceRoles(q) ==
    /\ At(q, "user_updated")
    /\ Become(q, [req[q] EXCEPT !.stage = "roles_open", !.seen = userRoles[req[q].subject]])
    /\ NoTables /\ NoCache

\* A violated foreign key returns before the tokens are invalidated.
CommitReplaceRoles(q) ==
    LET r == req[q]
    IN  /\ At(q, "roles_open")
        /\ IF UserRolesReferenceRows(r.subject, r.wanted)
           THEN /\ ReplaceUserRoles(r.subject, r.seen, r.wanted)
                /\ Become(q, [Only(q, "invalidating") EXCEPT !.todo = {r.subject}])
           ELSE NoTables /\ Finish(q)
        /\ NoCache

\* invalidate_tokens_for_user: lists the usable tokens, drops them from this
\* process's cache.
invalidate_tokens_for_user(q, u) ==
    LET rest == req[q].todo \ {u}
    IN  /\ At(q, "invalidating")
        /\ u \in req[q].todo
        /\ Pop(req[q].proc, list_active_tokens_for_admin_user(u))
        /\ IF rest = {} THEN Finish(q) ELSE Become(q, [req[q] EXCEPT !.todo = rest])
        /\ NoTables

\* Not one's own account, and not the last active one.
delete_admin_user(q, u) ==
    /\ Administers(q)
    /\ u # OwnerOf[req[q].tok]
    /\ count_active_admin_users > 1
    /\ Become(q, [Only(q, "deleting") EXCEPT !.subject = u])
    /\ NoTables /\ NoCache

DropTokensBeforeDelete(q) ==
    /\ At(q, "deleting")
    /\ Pop(req[q].proc, list_active_tokens_for_admin_user(req[q].subject))
    /\ GoTo(q, "dropped")
    /\ NoTables

DeleteDroppedUser(q) ==
    LET u == req[q].subject
    IN  /\ At(q, "dropped")
        /\ IF AccountExists(u) THEN DeleteUserRow(u) ELSE NoTables
        /\ Finish(q)
        /\ NoCache

-----------------------------------------------------------------------------
(* routes/admin.rs: roles.                                                 *)

create_role(q, r, wanted) ==
    /\ Administers(q)
    /\ role[r] = "absent"
    /\ CreateRoleRow(r)
    /\ Become(q, [Only(q, "role_listed") EXCEPT !.subject = r, !.wanted = wanted])
    /\ NoCache

\* The UPDATE changes the name only.
update_role(q, r, wanted) ==
    /\ Administers(q)
    /\ RoleExists(r)
    /\ Become(q, [Only(q, "role_updated") EXCEPT !.subject = r, !.wanted = wanted])
    /\ NoTables /\ NoCache

ListAffectedUsers(q) ==
    LET r == req[q]
    IN  /\ At(q, "role_updated")
        /\ Become(q, [r EXCEPT !.stage = "role_listed",
                               !.todo = list_admin_user_ids_for_role(r.subject)])
        /\ NoTables /\ NoCache

BeginReplacePermissions(q) ==
    /\ At(q, "role_listed")
    /\ Become(q, [req[q] EXCEPT !.stage = "grants_open", !.seen = grants[req[q].subject]])
    /\ NoTables /\ NoCache

CommitReplacePermissions(q) ==
    LET r == req[q]
    IN  /\ At(q, "grants_open")
        /\ IF r.wanted # {} => RoleExists(r.subject)
           THEN ReplaceRolePermissions(r.subject, r.seen, r.wanted) /\
                IF r.todo = {} THEN Finish(q)
                ELSE Become(q, [Only(q, "invalidating") EXCEPT !.todo = r.todo])
           ELSE NoTables /\ Finish(q)
        /\ NoCache

\* get_role_by_id and list_admin_user_ids_for_role; is_system never changes.
delete_role(q, r) ==
    /\ Administers(q)
    /\ role[r] = "custom"
    /\ Become(q, [Only(q, "role_doomed") EXCEPT !.subject = r,
                                                !.todo = list_admin_user_ids_for_role(r)])
    /\ NoTables /\ NoCache

DeleteDoomedRole(q) ==
    LET r == req[q]
    IN  /\ At(q, "role_doomed")
        /\ IF RoleExists(r.subject) THEN DeleteRoleRow(r.subject) ELSE NoTables
        /\ IF r.todo = {} THEN Finish(q)
           ELSE Become(q, [Only(q, "invalidating") EXCEPT !.todo = r.todo])
        /\ NoCache

-----------------------------------------------------------------------------
(* routes/admin.rs: API clients.  None of them touches the cache.          *)

create_api_client(q, c, wanted) ==
    /\ Administers(q)
    /\ account[c] = "absent"
    /\ CreateClientRow(c)
    /\ Become(q, [Only(q, "client_created") EXCEPT !.subject = c, !.wanted = wanted])
    /\ NoCache

GrantScopes(q) ==
    LET r == req[q]
    IN  /\ At(q, "client_created")
        /\ IF AccountExists(r.subject) THEN ReplaceScopes(r.subject, r.wanted) ELSE NoTables
        /\ Finish(q)
        /\ NoCache

update_api_client(q, c, on) ==
    /\ Administers(q)
    /\ AccountExists(c)
    /\ UpdateClientRow(c, on)
    /\ Finish(q)
    /\ NoCache

delete_api_client(q, c) ==
    /\ Administers(q)
    /\ AccountExists(c)
    /\ DeleteClientRow(c)
    /\ Finish(q)
    /\ NoCache

-----------------------------------------------------------------------------
(* The tools of src/bin: other processes, which reach no cache.            *)

\* provision_client: upsert_api_client, then one row per required scope.
ProvisionClient(c) ==
    /\ account[c] # "deleted"
    /\ upsert_api_client(c)
    /\ UNCHANGED <<cacheVars, req, provisioning>>

ProvisionScope(c, s) ==
    /\ AccountExists(c)
    /\ create_api_client_scope(c, s)
    /\ UNCHANGED <<cacheVars, req, provisioning>>

\* provision_admin_user: only when there is no user of that email; the role is
\* looked up and assigned after the user is there.
ProvisionUser(u) ==
    /\ provisioning = None
    /\ account[u] = "absent"
    /\ upsert_admin_user(u)
    /\ provisioning' = u
    /\ UNCHANGED <<cacheVars, req>>

ProvisionRole(r) ==
    /\ provisioning # None
    /\ IF AccountExists(provisioning) /\ RoleExists(r)
       THEN assign_role_to_admin_user(provisioning, r) ELSE NoTables
    /\ provisioning' = None
    /\ UNCHANGED <<cacheVars, req>>

\* seed_admin_role_permissions: every permission there is.
SeedRolePermissions(r) ==
    /\ RoleExists(r)
    /\ ReplaceRolePermissions(r, grants[r], Permission)
    /\ UNCHANGED <<cacheVars, req, provisioning>>

-----------------------------------------------------------------------------
(* Time.                                                                   *)

\* LookupMax bounds how long a request holds a context it has not cached yet.
Tick ==
    /\ \A q \in Requests : At(q, "found") => req[q].age < LookupMax
    /\ CacheAges
    /\ req' = [q \in Requests |-> IF At(q, "found") THEN [req[q] EXCEPT !.age = @ + 1]
                                  ELSE req[q]]
    /\ UNCHANGED <<tables, provisioning>>

Authenticate(q) ==
    \/ \E p \in Processes, t \in Tokens, admin \in BOOLEAN : Arrive(q, p, t, admin)
    \/ ReadContext(q)
    \/ FillCache(q)

AuthHandler(q) ==
    \/ \E t \in Tokens : CheckCredentials(q, t)
    \/ issue_access_token(q)
    \/ issue_admin_access_token(q)
    \/ revoke_token(q)
    \/ logout_admin(q)
    \/ FinishRevocation(q)

UserHandler(q) ==
    \/ \E u \in Users :
          \/ \E on \in BOOLEAN, wanted \in RoleSets :
                create_admin_user(q, u, on, wanted) \/ update_admin_user(q, u, on, wanted)
          \/ delete_admin_user(q, u)
          \/ invalidate_tokens_for_user(q, u)
    \/ BeginReplaceRoles(q)
    \/ CommitReplaceRoles(q)
    \/ DropTokensBeforeDelete(q)
    \/ DeleteDroppedUser(q)

RoleHandler(q) ==
    \/ \E r \in Roles :
          \/ \E wanted \in RoleGrants : create_role(q, r, wanted) \/ update_role(q, r, wanted)
          \/ delete_role(q, r)
    \/ ListAffectedUsers(q)
    \/ BeginReplacePermissions(q)
    \/ CommitReplacePermissions(q)
    \/ DeleteDoomedRole(q)

ClientHandler(q) ==
    \/ \E c \in Clients :
          \/ \E wanted \in ScopeGrants : create_api_client(q, c, wanted)
          \/ \E on \in BOOLEAN : update_api_client(q, c, on)
          \/ delete_api_client(q, c)
    \/ GrantScopes(q)

RequestStep(q) ==
    \/ Authenticate(q)
    \/ AuthHandler(q)
    \/ UserHandler(q)
    \/ RoleHandler(q)
    \/ ClientHandler(q)
    \/ Serve(q)
    \/ Abandon(q)

Tool ==
    \/ \E c \in Clients : ProvisionClient(c) \/ \E s \in Scope : ProvisionScope(c, s)
    \/ \E u \in Users : ProvisionUser(u)
    \/ \E r \in Roles : ProvisionRole(r) \/ SeedRolePermissions(r)

Expire(t) == ExpiryPasses(t) /\ UNCHANGED <<cacheVars, req, provisioning>>

\* Everything but the passing of a tick.
Act ==
    \/ \E q \in Requests : RequestStep(q) /\ UNCHANGED provisioning
    \/ Tool
    \/ \E t \in Tokens : Expire(t)

Remember(step) ==
    lacking' = [t \in Tokens |-> [k \in Key |->
        IF k \in authenticate_any_bearer_token(t)' THEN 0
        ELSE IF lacking[t][k] + step > Bound THEN Bound ELSE lacking[t][k] + step]]

Next ==
    \/ Act /\ Remember(0)
    \/ Tick /\ Remember(1)

Fairness ==
    /\ WF_vars(Tick /\ Remember(1))
    /\ \A q \in Requests : WF_vars(FillCache(q) /\ UNCHANGED provisioning /\ Remember(0))

Spec     == Init /\ [][Next]_vars
FairSpec == Spec /\ Fairness

-----------------------------------------------------------------------------
(* Properties.                                                             *)

\* q is let into its handler by this step.
LetIn(q) == req[q].stage # "accepted" /\ req'[q].stage = "accepted"

\* A request is let in with a right only if the database granted it to the
\* token less than a time to live and a lookup ago, whatever the handlers have
\* failed to invalidate and whichever process changed the tables.
RightsAreRecent ==
    \A q \in Requests :
        LetIn(q) => \A k \in req'[q].keys : lacking[req'[q].tok][k] < Bound

AcceptedRightsAreRecent == [][RightsAreRecent]_vars

\* No context outlives its token: once a token has expired only a lookup that
\* was already under way lets a request in with it.
ExpiryIsObserved ==
    \A q \in Requests :
        LetIn(q) /\ req'[q].tok \in expired => lacking[req'[q].tok]["session"] <= LookupMax

ExpiredTokensAreRefused == [][ExpiryIsObserved]_vars

\* The cache of a process never outgrows its capacity.
CacheIsBounded == \A p \in Processes : Cardinality(Held(p)) <= CacheCapacity

\* A token that was revoked or deleted is in the end refused for good, though
\* every use promotes its cached context and the process may never have been
\* told.
Usable(t) ==
    \/ \E p \in Processes : Fresh(p, t)
    \/ \E q \in Requests : At(q, "found") /\ req[q].tok = t

DeadTokensAreForgotten ==
    \A t \in Tokens : token[t] \in {"revoked", "deleted"} ~> [](~Usable(t))
=============================================================================
