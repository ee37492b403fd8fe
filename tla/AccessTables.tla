---------------------------- MODULE AccessTables ----------------------------
(***************************************************************************)
(* The tables that decide what a request may do: admin_users, roles,       *)
(* admin_user_roles, role_permissions, api_clients, api_client_scopes, and *)
(* the two tables of access tokens, with the SQL statements of             *)
(* src/domain/{admin_users,roles,permissions,admin_auth,api_auth}/         *)
(* repository.rs that change them.  Every operator that primes a variable  *)
(* is one statement or one committed transaction.                          *)
(*                                                                         *)
(* The permission keys are grouped in those on sites, which the scopes of  *)
(* an API client grant as well, and administration.  Being authenticated   *)
(* at all is the key "session".                                            *)
(***************************************************************************)
EXTENDS Naturals, FiniteSets

CONSTANTS
    Users,    \* ids of admin users
    Clients,  \* ids of API clients
    Roles,    \* ids of roles
    SitePermissions, \* classes of permissions on sites
    Tokens,   \* access tokens that may be issued, each once
    OwnerOf   \* the user or client a token is issued to

Accounts == Users \cup Clients

ASSUME AccountsAssumption ==
    /\ Users \cap Clients = {}
    /\ OwnerOf \in [Tokens -> Accounts]

VARIABLES
    account,    \* per user and client: does the row exist, is_active
    role,       \* per role: does the row exist, is_system
    userRoles,  \* admin_user_roles
    grants,     \* role_permissions
    scopes,     \* api_client_scopes
    token,      \* per token: does the row exist, revoked_at
    expired     \* tokens whose expires_at has passed

tables == <<account, role, userRoles, grants, scopes, token, expired>>

Permission    == SitePermissions \cup {"admin"}
Scope         == SitePermissions
Key           == {"session"} \cup Permission
AccountStatus == {"absent", "active", "inactive", "deleted"}
RoleStatus    == {"absent", "custom", "system", "deleted"}
TokenStatus   == {"absent", "live", "revoked", "deleted"}

TablesTypeOK ==
    /\ account \in [Accounts -> AccountStatus]
    /\ role \in [Roles -> RoleStatus]
    /\ userRoles \in [Users -> SUBSET Roles]
    /\ grants \in [Roles -> SUBSET Permission]
    /\ scopes \in [Clients -> SUBSET Scope]
    /\ token \in [Tokens -> TokenStatus]
    /\ expired \in SUBSET Tokens

AccountExists(a) == account[a] \in {"active", "inactive"}
RoleExists(r)    == role[r] \in {"custom", "system"}
TokenExists(t)   == token[t] \in {"live", "revoked"}
IsAdminToken(t)  == OwnerOf[t] \in Users

-----------------------------------------------------------------------------
(* What a token gives, as one query over these tables computes it.         *)

\* PermissionSet::from_strs of the permission_keys of the owner's roles.
get_admin_access_token_auth_context(t) == UNION {grants[r] : r \in userRoles[OwnerOf[t]]}

get_access_token_auth_context(t) == scopes[OwnerOf[t]]

\* A scope grants the permissions on sites that bear its name, and nothing to
\* administer with.
permissions_from_api_client_scopes(held) == {k \in Permission : k \in held}

\* The row is not revoked, not expired, and its owner is active.
TokenAccepted(t) ==
    /\ token[t] = "live"
    /\ t \notin expired
    /\ account[OwnerOf[t]] = "active"

\* The keys of the context each function builds; {} when it refuses.
authenticate_bearer_token(t) ==
    IF ~IsAdminToken(t) /\ TokenAccepted(t)
    THEN {"session"} \cup permissions_from_api_client_scopes(get_access_token_auth_context(t))
    ELSE {}

authenticate_admin_bearer_token(t) ==
    IF IsAdminToken(t) /\ TokenAccepted(t)
    THEN {"session"} \cup get_admin_access_token_auth_context(t)
    ELSE {}

\* Whichever table lookup_bearer_token_kind finds the token in.
authenticate_any_bearer_token(t) ==
    IF IsAdminToken(t) THEN authenticate_admin_bearer_token(t) ELSE authenticate_bearer_token(t)

count_active_admin_users == Cardinality({u \in Users : account[u] = "active"})

list_admin_user_ids_for_role(r) == {u \in Users : r \in userRoles[u]}

list_active_tokens_for_admin_user(u) ==
    {t \in Tokens : OwnerOf[t] = u /\ token[t] = "live" /\ t \notin expired}

-----------------------------------------------------------------------------
(* Users.                                                                  *)

SetAccount(a, status) == account' = [account EXCEPT ![a] = status]

ActiveIf(on) == IF on THEN "active" ELSE "inactive"

\* create_admin_user_in_tx and update_admin_user_in_tx.
NewUserRow(u, on) == SetAccount(u, ActiveIf(on))

replace_roles_for_admin_user_in_tx(u, wanted) == userRoles' = [userRoles EXCEPT ![u] = wanted]

\* Committed together.
CreateUserRow(u, on, wanted) ==
    /\ NewUserRow(u, on)
    /\ replace_roles_for_admin_user_in_tx(u, wanted)
    /\ UNCHANGED <<role, grants, scopes, token, expired>>

UpdateUserRow(u, on) ==
    /\ SetAccount(u, ActiveIf(on))
    /\ UNCHANGED <<role, userRoles, grants, scopes, token, expired>>

\* DELETE FROM an account table: the foreign keys cascade.
DeleteTokensOf(a) ==
    token' = [t \in Tokens |-> IF OwnerOf[t] = a /\ TokenExists(t)
                               THEN "deleted" ELSE token[t]]

DeleteUserRow(u) ==
    /\ SetAccount(u, "deleted")
    /\ userRoles' = [userRoles EXCEPT ![u] = {}]
    /\ DeleteTokensOf(u)
    /\ UNCHANGED <<role, grants, scopes, expired>>

\* The commit of replace_roles_for_admin_user: READ COMMITTED deletes the rows
\* `seen' that existed when the transaction began, not those that another
\* transaction has inserted since.
ReplaceUserRoles(u, seen, wanted) ==
    /\ userRoles' = [userRoles EXCEPT ![u] = (@ \ seen) \cup wanted]
    /\ UNCHANGED <<account, role, grants, scopes, token, expired>>

\* upsert_admin_user of a new email.
upsert_admin_user(u) ==
    /\ SetAccount(u, "active")
    /\ UNCHANGED <<role, userRoles, grants, scopes, token, expired>>

\* The INSERTs of replace_roles_for_admin_user need the rows of the user and of the roles.
UserRolesReferenceRows(u, wanted) ==
    wanted # {} => AccountExists(u) /\ \A r \in wanted : RoleExists(r)

assign_role_to_admin_user(u, r) ==
    /\ userRoles' = [userRoles EXCEPT ![u] = @ \cup {r}]
    /\ UNCHANGED <<account, role, grants, scopes, token, expired>>

-----------------------------------------------------------------------------
(* Roles.                                                                  *)

CreateRoleRow(r) ==
    /\ role' = [role EXCEPT ![r] = "custom"]
    /\ UNCHANGED <<account, userRoles, grants, scopes, token, expired>>

DeleteRoleRow(r) ==
    /\ role' = [role EXCEPT ![r] = "deleted"]
    /\ userRoles' = [u \in Users |-> userRoles[u] \ {r}]
    /\ grants' = [grants EXCEPT ![r] = {}]
    /\ UNCHANGED <<account, scopes, token, expired>>

\* replace_permissions_for_role, with the same READ COMMITTED window.
ReplaceRolePermissions(r, seen, wanted) ==
    /\ grants' = [grants EXCEPT ![r] = (@ \ seen) \cup wanted]
    /\ UNCHANGED <<account, role, userRoles, scopes, token, expired>>

-----------------------------------------------------------------------------
(* API clients.                                                            *)

CreateClientRow(c) ==
    /\ SetAccount(c, "active")
    /\ UNCHANGED <<role, userRoles, grants, scopes, token, expired>>

\* upsert_api_client: ON CONFLICT makes the client active again.
upsert_api_client(c) ==
    /\ SetAccount(c, "active")
    /\ UNCHANGED <<role, userRoles, grants, scopes, token, expired>>

UpdateClientRow(c, on) ==
    /\ SetAccount(c, ActiveIf(on))
    /\ UNCHANGED <<role, userRoles, grants, scopes, token, expired>>

ReplaceScopes(c, wanted) ==
    /\ scopes' = [scopes EXCEPT ![c] = wanted]
    /\ UNCHANGED <<account, role, userRoles, grants, token, expired>>

create_api_client_scope(c, s) ==
    /\ scopes' = [scopes EXCEPT ![c] = @ \cup {s}]
    /\ UNCHANGED <<account, role, userRoles, grants, token, expired>>

DeleteClientRow(c) ==
    /\ SetAccount(c, "deleted")
    /\ scopes' = [scopes EXCEPT ![c] = {}]
    /\ DeleteTokensOf(c)
    /\ UNCHANGED <<role, userRoles, grants, expired>>

-----------------------------------------------------------------------------
(* Tokens.                                                                 *)

create_access_token(t) ==
    /\ token' = [token EXCEPT ![t] = "live"]
    /\ UNCHANGED <<account, role, userRoles, grants, scopes, expired>>

create_admin_access_token(t) ==
    /\ token' = [token EXCEPT ![t] = "live"]
    /\ UNCHANGED <<account, role, userRoles, grants, scopes, expired>>

\* UPDATE ... SET revoked_at WHERE id: nothing to do when the row is gone.
revoke_access_token(t) ==
    /\ token' = [token EXCEPT ![t] = IF TokenExists(t) THEN "revoked" ELSE @]
    /\ UNCHANGED <<account, role, userRoles, grants, scopes, expired>>

revoke_admin_access_token(t) ==
    /\ token' = [token EXCEPT ![t] = IF TokenExists(t) THEN "revoked" ELSE @]
    /\ UNCHANGED <<account, role, userRoles, grants, scopes, expired>>

\* NOW() passes expires_at.
ExpiryPasses(t) ==
    /\ token[t] = "live"
    /\ t \notin expired
    /\ expired' = expired \cup {t}
    /\ UNCHANGED <<account, role, userRoles, grants, scopes, token>>
=============================================================================
