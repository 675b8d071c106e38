------------------------------ MODULE Identity ------------------------------
(***************************************************************************)
(* pkg/api/auth_handlers.go over pkg/auth: users, API tokens, the          *)
(* organizations of the auth schema with their members, and module         *)
(* permissions, each handler one statement; and the authentication         *)
(* middleware, whose token lookup is a stub that refuses every token.      *)
(***************************************************************************)
EXTENDS Naturals, FiniteSets, TLC

CONSTANTS
    Null,      \* a row that does not exist, a value that is not given
    Uids,       \* ids of rows of users
    Logins,     \* user names; an e-mail address is the user name's, or Blank
    Blank,      \* the empty string
    TokenIds, OrgNames, Modules,
    MaxEdits    \* bound: requests that change something

Scopes == {"module:read", "*"}
MemberRoles == {"admin", "developer", "viewer"}
ModulePerms == {"read", "write", "delete", "admin"}
\* The rows of users.
UserRows ==
    [name : Logins \cup {Blank}, email : Logins \cup {Blank}, bot : BOOLEAN, active : BOOLEAN]
ASSUME IdentityAssumption == IsFiniteSet(Uids) /\ Null \notin Uids /\ Null \notin UserRows

VARIABLES
    users,       \* [Uids -> Null, or name, email, bot, active]
    tokens,      \* [TokenIds -> Null, or user, revoked, expired]
    orgRows,     \* names of organizations
    memberRows,  \* [OrgNames \X Uids -> role, or Null]
    permRows,    \* module_permissions: set of module, org, permission
    edits,
    reply        \* the answer this step gave
identityVars == <<users, tokens, orgRows, memberRows, permRows, edits, reply>>

IdentityInit ==
    /\ users = [u \in Uids |-> Null] /\ tokens = [t \in TokenIds |-> Null]
    /\ orgRows = {} /\ memberRows = [k \in OrgNames \X Uids |-> Null] /\ permRows = {}
    /\ edits = 0 /\ reply = Null

Reply(code, what) == reply' = <<code, what>>
Shows(what, body) == reply' = <<200, what, body>>
Edit == edits < MaxEdits /\ edits' = edits + 1
Only(rest) == Edit /\ UNCHANGED rest
Look == UNCHANGED <<users, tokens, orgRows, memberRows, permRows, edits>>

\* UNIQUE (username), UNIQUE (email).
Fits(row) ==
    \A u \in Uids : users[u] # Null => users[u].name # row.name /\ users[u].email # row.email
InsertUser(id, row) == users[id] = Null /\ Fits(row) /\ users' = [users EXCEPT ![id] = row]

\* The e-mail address of a bot is the empty string: the second such bot is refused.
createUser ==
    /\ Only(<<tokens, orgRows, memberRows, permRows>>)
    /\ \E name \in Logins \cup {Blank}, bot \in BOOLEAN, mail \in BOOLEAN :
          LET row == [name |-> name, email |-> IF mail THEN name ELSE Blank,
                      bot |-> bot, active |-> TRUE]
          IN  IF name = Blank \/ (~bot /\ row.email = Blank)
              THEN Reply(400, "user") /\ UNCHANGED users
              ELSE \/ Reply(201, "user") /\ \E id \in Uids : InsertUser(id, row)
                   \/ ~Fits(row) /\ Reply(500, "user") /\ UNCHANGED users
getUser ==
    Look /\ \E id \in Uids :
        IF users[id] = Null THEN Reply(404, "user") ELSE Shows("user", {id})
updateUser ==
    /\ Only(<<tokens, orgRows, memberRows, permRows>>) /\ Reply(200, "user")
    /\ \E id \in Uids, active \in BOOLEAN :
          users' = IF users[id] = Null THEN users ELSE [users EXCEPT ![id].active = active]
\* A soft delete: the row, its tokens and its sessions stay.
deleteUser ==
    /\ Only(<<tokens, orgRows, memberRows, permRows>>) /\ Reply(204, "user")
    /\ \E id \in Uids :
          users' = IF users[id] = Null THEN users ELSE [users EXCEPT ![id].active = FALSE]

\* The token is random, its hash is stored, its prefix is for display.
GenerateToken(t) == tokens[t] = Null
createToken ==
    /\ Only(<<users, orgRows, memberRows, permRows>>)
    /\ \E t \in TokenIds, u \in Uids \cup {Null}, expired \in BOOLEAN :
          IF u = Null THEN Reply(400, "token") /\ UNCHANGED tokens
          ELSE IF users[u] = Null THEN Reply(500, "token") /\ UNCHANGED tokens
          ELSE /\ GenerateToken(t) /\ Reply(201, "token")
               /\ tokens' = [tokens EXCEPT ![t] =
                                [user |-> u, revoked |-> FALSE, expired |-> expired]]
listTokens ==
    Look /\ \E u \in Uids :
        Shows("tokens", {t \in TokenIds : tokens[t] # Null /\ tokens[t].user = u
                                        /\ ~tokens[t].revoked})
getToken ==
    Look /\ \E t \in TokenIds :
        IF tokens[t] = Null THEN Reply(404, "token") ELSE Shows("token", {t})
revokeToken ==
    /\ Only(<<users, orgRows, memberRows, permRows>>) /\ Reply(204, "token")
    /\ \E t \in TokenIds :
          tokens' = IF tokens[t] = Null THEN tokens ELSE [tokens EXCEPT ![t].revoked = TRUE]

createOrganization ==
    /\ Only(<<users, tokens, memberRows, permRows>>)
    /\ \E n \in OrgNames :
          \/ n \notin orgRows /\ orgRows' = orgRows \cup {n} /\ Reply(201, "organization")
          \/ n \in orgRows /\ UNCHANGED orgRows /\ Reply(500, "organization")
getOrganization ==
    Look /\ \E n \in OrgNames :
        Reply(IF n \in orgRows THEN 200 ELSE 404, "organization")
listOrganizationMembers ==
    Look /\ \E n \in OrgNames :
        Shows("members", {u \in Uids : memberRows[<<n, u>>] # Null})
UpsertMember(org, u, role) == memberRows' = [memberRows EXCEPT ![<<org, u>>] = role]
addOrganizationMember ==
    /\ Only(<<users, tokens, orgRows, permRows>>)
    /\ \E n \in OrgNames, u \in Uids, role \in MemberRoles \cup {"owner"} :
          IF role \notin MemberRoles THEN Reply(400, "member") /\ UNCHANGED memberRows
          ELSE IF n \notin orgRows \/ users[u] = Null
               THEN Reply(500, "member") /\ UNCHANGED memberRows
          ELSE Reply(201, "member") /\ UpsertMember(n, u, role)
removeOrganizationMember ==
    /\ Only(<<users, tokens, orgRows, permRows>>) /\ Reply(204, "member")
    /\ \E n \in OrgNames, u \in Uids : UpsertMember(n, u, Null)

listModulePermissions ==
    Look /\ \E m \in Modules : Shows("permissions", {x \in permRows : x[1] = m})
grantModulePermission ==
    /\ Only(<<users, tokens, orgRows, memberRows>>)
    /\ \E m \in Modules, n \in OrgNames, x \in ModulePerms \cup {"own"} :
          IF x \notin ModulePerms THEN Reply(400, "permission") /\ UNCHANGED permRows
          ELSE IF n \notin orgRows \/ <<m, n, x>> \in permRows
               THEN Reply(500, "permission") /\ UNCHANGED permRows
          ELSE Reply(201, "permission") /\ permRows' = permRows \cup {<<m, n, x>>}
revokeModulePermission ==
    /\ Only(<<users, tokens, orgRows, memberRows>>) /\ Reply(204, "permission")
    /\ \E x \in permRows : permRows' = permRows \ {x}

\* An Authorization header is absent, malformed, or a bearer token in a good
\* or a bad format; ValidateToken ends in "not implemented".
ValidateTokenFormat(h) == h = "token"
ValidateToken(h) == ValidateTokenFormat(h) /\ FALSE
AuthMiddlewareHandler ==
    Look /\ \E h \in {"none", "malformed", "garbage", "token"}, optional \in BOOLEAN :
        Reply(IF (h = "none" /\ optional) \/ (h \in {"garbage", "token"} /\ ValidateToken(h))
              THEN 200 ELSE 401, "auth")
\* The scope, role and module guards behind it, for a context with these scopes.
HasScope(scopes, scope) == "*" \in scopes \/ scope \in scopes
HasRole == FALSE
HasPermission == FALSE
RequireScope ==
    Look /\ \E scopes \in SUBSET Scopes \cup {Null} :
        Reply(IF scopes # Null /\ HasScope(scopes, "module:read") THEN 200 ELSE 403, "scope")
RequireOrgRole == Look /\ Reply(IF HasRole THEN 200 ELSE 403, "role")
RequireModuleAccess == Look /\ Reply(IF HasPermission THEN 200 ELSE 403, "module")

IdentityNext ==
    \/ createUser \/ getUser \/ updateUser \/ deleteUser
    \/ createToken \/ listTokens \/ getToken \/ revokeToken
    \/ createOrganization \/ getOrganization
    \/ listOrganizationMembers \/ addOrganizationMember \/ removeOrganizationMember
    \/ listModulePermissions \/ grantModulePermission \/ revokeModulePermission
    \/ AuthMiddlewareHandler \/ RequireScope \/ RequireOrgRole \/ RequireModuleAccess
=============================================================================
