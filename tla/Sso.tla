-------------------------------- MODULE Sso ---------------------------------
(***************************************************************************)
(* pkg/sso: provider configurations, the login redirect and its callback,  *)
(* just-in-time provisioning into the users of Identity, and sessions.     *)
(* A callback is the job of a browser's request: it verifies the state,    *)
(* reads the provider, exchanges the answer of the identity provider for   *)
(* claims, looks the mapping up, writes the user in a transaction and      *)
(* creates the session, each in a step of its own.                         *)
(***************************************************************************)
EXTENDS Identity

CONSTANTS
    Browsers,
    Providers,   \* names of providers
    People,      \* external ids at the identity provider
    GroupRole,   \* [SSO group -> Spoke role]: the group mapping
    MaxStates    \* bound: state tokens generated

ASSUME SsoAssumption ==
    /\ \A g \in DOMAIN GroupRole : GroupRole[g] \in MemberRoles
    /\ Null \notin Providers \X People

SsoOrg == "sso-users"
Types == {"saml", "oauth2", "oidc"}

VARIABLES
    provider,  \* [Providers -> Null, or type, enabled, auto]
    mapping,   \* sso_user_mappings: [Providers \X People -> user, or Null]
    session,   \* the row of sso_sessions under this server's session id, or Null
    cookie,    \* [Browsers -> state, session: what the browser's cookies hold]
    pending,   \* answers of identity providers on the way: browser, provider, state, person
    states,    \* state tokens generated so far
    flow,      \* [Browsers -> the callback in progress]
    born,      \* history: [Uids -> the identity whose first login made the user]
    unmapped   \* history: [Providers \X People -> mappings deleted]
ssoVars == <<provider, mapping, session, cookie, pending, states, flow, born, unmapped>>

Waiting == [step |-> "idle"]
SsoInit ==
    /\ \E type \in Types :
          provider = [n \in Providers |-> [type |-> type, enabled |-> TRUE, auto |-> TRUE]]
    /\ mapping = [k \in Providers \X People |-> Null] /\ session = Null
    /\ cookie = [b \in Browsers |-> [state |-> 0, session |-> FALSE]]
    /\ pending = {} /\ states = 0 /\ flow = [b \in Browsers |-> Waiting]
    /\ born = [u \in Uids |-> Null] /\ unmapped = [k \in Providers \X People |-> 0]

Others == UNCHANGED <<tokens, permRows>>
Accounts == UNCHANGED <<users, orgRows, memberRows, edits>> /\ Others

-----------------------------------------------------------------------------
(* Storage and the providers.                                              *)

GetProvider(n) == provider[n]
ListProviders(enabledOnly) ==
    {n \in Providers : provider[n] # Null /\ (enabledOnly => provider[n].enabled)}
\* CreateProvider refuses a disabled provider and one without its type's config.
CreateProvider(row) == row.enabled
ValidateConfig(row, good) == good
Config == UNCHANGED <<session, cookie, pending, states, flow, born>>
     /\ UNCHANGED <<users, orgRows, memberRows>> /\ Others
SaveProvider(n, row) == provider' = [provider EXCEPT ![n] = row]
Rows == [type : Types, enabled : BOOLEAN, auto : BOOLEAN]
createProvider ==
    /\ Edit /\ Config /\ UNCHANGED <<mapping, unmapped>>
    /\ \E n \in Providers, row \in Rows, good \in BOOLEAN :
          IF GetProvider(n) # Null THEN Reply(409, "provider") /\ UNCHANGED provider
          ELSE IF ~CreateProvider(row) \/ ~ValidateConfig(row, good)
               THEN Reply(400, "provider") /\ UNCHANGED provider
          ELSE Reply(201, "provider") /\ SaveProvider(n, row)
\* An update is validated by creating the provider, so none can be disabled.
updateProvider ==
    /\ Edit /\ Config /\ UNCHANGED <<mapping, unmapped>>
    /\ \E n \in Providers, row \in Rows, good \in BOOLEAN :
          IF GetProvider(n) = Null THEN Reply(404, "provider") /\ UNCHANGED provider
          ELSE IF ~CreateProvider(row) \/ ~ValidateConfig(row, good)
               THEN Reply(400, "provider") /\ UNCHANGED provider
          ELSE Reply(200, "provider") /\ SaveProvider(n, row)
\* The mappings and sessions of the provider go with its row.
deleteProvider ==
    /\ Edit /\ Reply(204, "provider")
    /\ \E n \in Providers :
          /\ provider' = [provider EXCEPT ![n] = Null]
          /\ mapping' = [k \in DOMAIN mapping |-> IF k[1] = n THEN Null ELSE mapping[k]]
          /\ unmapped' = [k \in DOMAIN mapping |->
                IF k[1] = n /\ mapping[k] # Null THEN unmapped[k] + 1 ELSE unmapped[k]]
          /\ session' = IF session # Null /\ session.provider = n THEN Null ELSE session
    /\ UNCHANGED <<cookie, pending, states, flow, born, users, orgRows, memberRows>> /\ Others
getProvider ==
    /\ \E n \in Providers :
          IF GetProvider(n) = Null THEN Reply(404, "provider") ELSE Shows("provider", {n})
    /\ UNCHANGED ssoVars /\ Accounts
listProviders ==
    /\ \E enabledOnly \in BOOLEAN : Shows("providers", ListProviders(enabledOnly))
    /\ UNCHANGED ssoVars /\ Accounts
getSAMLMetadata ==
    /\ \E n \in Providers :
          Reply(IF GetProvider(n) = Null THEN 404 ELSE IF GetProvider(n).type # "saml" THEN 400
                ELSE IF ~CreateProvider(GetProvider(n)) THEN 500 ELSE 200, "metadata")
    /\ UNCHANGED ssoVars /\ Accounts

\* What the identity provider says of a person: [id, sub, name, email, groups];
\* id, name and email are what the attribute mapping finds, or Blank.
Named(c) == IF c.name = Blank THEN c.email ELSE c.name
Valid(u) == u.id # Blank /\ u.email # Blank
SamlUser(c, info) == [id |-> IF c.id = Blank THEN c.sub ELSE c.id,
                      name |-> Named(c), email |-> c.email, groups |-> c.groups]
\* The userinfo endpoint, if it is configured and answers, overrides the token.
OidcUser(c, info) ==
    LET d == IF info = Null THEN c
             ELSE [c EXCEPT !.email = IF info.email = Blank THEN @ ELSE info.email,
                            !.groups = IF info.groups = {} THEN @ ELSE info.groups]
    IN  SamlUser(d, Null)
OAuth2User(c, info) ==
    [id |-> c.id, name |-> Named(c), email |-> c.email, groups |-> c.groups]
HandleCallback(type, c, info) ==
    CASE type = "saml" -> SamlUser(c, info) [] type = "oidc" -> OidcUser(c, info)
      [] type = "oauth2" -> OAuth2User(c, info)

\* The highest role the groups map to; no role at all changes nothing.
FinalRole(groups) ==
    LET mapped == {GroupRole[g] : g \in groups \cap DOMAIN GroupRole} IN
    IF "admin" \in mapped THEN "admin" ELSE IF "developer" \in mapped THEN "developer"
    ELSE IF "viewer" \in mapped THEN "viewer" ELSE Null
applyGroupMappings(u, groups) ==
    IF FinalRole(groups) = Null THEN UNCHANGED <<orgRows, memberRows>>
    ELSE orgRows' = orgRows \cup {SsoOrg} /\ UpsertMember(SsoOrg, u, FinalRole(groups))

-----------------------------------------------------------------------------
(* Login and callback.                                                     *)

Quiet == reply' = Null
Advance(b, step) == flow' = [flow EXCEPT ![b].step = step]
End(b) == flow' = [flow EXCEPT ![b] = Waiting]

initiateLogin(b) ==
    /\ \E n \in Providers :
          LET row == GetProvider(n) IN
          IF row = Null \/ (row # Null /\ ~row.enabled)
          THEN /\ Reply(IF row = Null THEN 404 ELSE 403, "login")
               /\ UNCHANGED <<cookie, pending, states>>
          ELSE /\ states < MaxStates /\ states' = states + 1 /\ Reply(302, "login")
               /\ cookie' = [cookie EXCEPT ![b].state = states + 1]
               /\ \E who \in People :
                     pending' = pending \cup {[browser |-> b, provider |-> n,
                                               state |-> states + 1, who |-> who]}
    /\ UNCHANGED <<provider, mapping, session, flow, born, unmapped>> /\ Accounts
\* A later login of the browser has replaced the cookie: the answer is refused.
handleCallback(b) ==
    /\ flow[b] = Waiting
    /\ \E a \in pending :
          /\ a.browser = b /\ pending' = pending \ {a}
          /\ IF a.state # cookie[b].state
             THEN Reply(400, "callback") /\ UNCHANGED flow
             ELSE LET row == GetProvider(a.provider) IN
                  IF row = Null THEN Reply(404, "callback") /\ UNCHANGED flow
                  ELSE IF ~CreateProvider(row) THEN Reply(500, "callback") /\ UNCHANGED flow
                  ELSE /\ Quiet
                       /\ flow' = [flow EXCEPT ![b] = [step |-> "exchange", user |-> Null, uid |-> Null,
                              provider |-> a.provider, row |-> row, who |-> a.who]]
    /\ UNCHANGED <<provider, mapping, session, cookie, states, born, unmapped>> /\ Accounts
\* The person's user name at the identity provider may have changed since.
Exchange(b) ==
    /\ flow[b].step = "exchange"
    /\ \E id \in {flow[b].who, Blank}, name \in Logins \cup {Blank}, mail \in Logins \cup {Blank},
          groups \in SUBSET DOMAIN GroupRole, asked \in BOOLEAN :
          LET c == [id |-> id, sub |-> flow[b].who, name |-> name, email |-> mail,
                    groups |-> groups]
              u == HandleCallback(flow[b].row.type, c,
                       IF asked THEN [email |-> mail, groups |-> groups] ELSE Null)
          IN  IF ~Valid(u) THEN Reply(401, "callback") /\ End(b)
              ELSE IF ~flow[b].row.auto THEN Reply(500, "callback") /\ End(b)
              ELSE /\ Quiet
                   /\ flow' = [flow EXCEPT ![b].step = "lookup", ![b].user = u]
    /\ UNCHANGED <<provider, mapping, session, cookie, pending, states, born, unmapped>>
    /\ Accounts
Key(b) == <<flow[b].provider, flow[b].user.id>>
ProvisionUser(b) ==
    /\ flow[b].step = "lookup" /\ Quiet
    /\ flow' = [flow EXCEPT ![b].step = IF mapping[Key(b)] = Null THEN "create" ELSE "update",
                            ![b].uid = mapping[Key(b)]]
    /\ UNCHANGED <<provider, mapping, session, cookie, pending, states, born, unmapped>>
    /\ Accounts

Row(b) == [name |-> flow[b].user.name, email |-> flow[b].user.email, bot |-> FALSE, active |-> TRUE]
\* One transaction: the user, the mapping and the group's role, or nothing.
Provisioned(b, u) ==
    /\ provider[flow[b].provider] # Null /\ mapping[Key(b)] = Null
    /\ mapping' = [mapping EXCEPT ![Key(b)] = u]
    /\ applyGroupMappings(u, flow[b].user.groups)
\* The mutant commits the user by itself.
RolledBackPartly(b) ==
    /\ \E u \in Uids : InsertUser(u, Row(b)) /\ born' = [born EXCEPT ![u] = Key(b)]
    /\ UNCHANGED <<mapping, orgRows, memberRows>> /\ Reply(500, "callback") /\ End(b)
RolledBack(b) ==
    /\ UNCHANGED <<users, born, mapping, orgRows, memberRows>> /\ Reply(500, "callback") /\ End(b)
createSsoUser(b) ==
    /\ flow[b].step = "create"
    /\ \/ \E u \in Uids :
             /\ InsertUser(u, Row(b)) /\ Provisioned(b, u)
             /\ born' = [born EXCEPT ![u] = Key(b)]
             /\ Quiet /\ flow' = [flow EXCEPT ![b].step = "session", ![b].uid = u]
       \/ RolledBack(b)
    /\ UNCHANGED <<provider, session, cookie, pending, states, unmapped, edits>> /\ Others
\* The mapping may have been deleted since it was read: its UPDATE then
\* changes no row and the login goes on.
updateSsoUser(b) ==
    LET u == flow[b].uid IN
    /\ flow[b].step = "update"
    /\ \/ /\ \A x \in Uids \ {u} : users[x] # Null => users[x].email # flow[b].user.email
          /\ users' = [users EXCEPT ![u].email = flow[b].user.email]
          /\ applyGroupMappings(u, flow[b].user.groups)
          /\ Quiet /\ Advance(b, "session") /\ UNCHANGED <<mapping, born>>
       \/ RolledBack(b)
    /\ UNCHANGED <<provider, session, cookie, pending, states, unmapped, edits>> /\ Others
\* The session id is drawn once per process: while its row is there the
\* insert violates the primary key and the login fails.
CreateSession(b) ==
    /\ flow[b].step = "session" /\ End(b)
    /\ IF session = Null /\ provider[flow[b].provider] # Null
       THEN /\ session' = [provider |-> flow[b].provider, user |-> flow[b].uid,
                           person |-> flow[b].user.id]
            /\ cookie' = [cookie EXCEPT ![b] = [state |-> 0, session |-> TRUE]]
            /\ Reply(302, "callback")
       ELSE UNCHANGED <<session, cookie>> /\ Reply(500, "callback")
    /\ UNCHANGED <<provider, mapping, pending, states, born, unmapped>> /\ Accounts
logout(b) ==
    /\ session' = IF cookie[b].session THEN Null ELSE session
    /\ cookie' = [cookie EXCEPT ![b].session = FALSE] /\ Reply(302, "logout")
    /\ UNCHANGED <<provider, mapping, pending, states, flow, born, unmapped>> /\ Accounts
\* 24 hours pass.
CleanupExpiredSessions ==
    /\ session # Null /\ session' = Null /\ Quiet
    /\ UNCHANGED <<provider, mapping, cookie, pending, states, flow, born, unmapped>> /\ Accounts
GetAuthContext(b) ==
    /\ Reply(IF cookie[b].session /\ session # Null THEN 200 ELSE 401, "context")
    /\ UNCHANGED ssoVars /\ Accounts
DeleteUserMapping ==
    /\ Edit /\ Quiet
    /\ \E k \in DOMAIN mapping :
          /\ mapping[k] # Null /\ mapping' = [mapping EXCEPT ![k] = Null]
          /\ unmapped' = [unmapped EXCEPT ![k] = @ + 1]
    /\ UNCHANGED <<provider, session, cookie, pending, states, flow, born>>
    /\ UNCHANGED <<users, orgRows, memberRows>> /\ Others

ConfigNext == createProvider \/ updateProvider \/ getProvider \/ listProviders \/ getSAMLMetadata
LoginNext ==
    \/ \E b \in Browsers :
          \/ initiateLogin(b) \/ handleCallback(b) \/ Exchange(b) \/ ProvisionUser(b)
          \/ createSsoUser(b) \/ updateSsoUser(b) \/ CreateSession(b) \/ logout(b)
          \/ GetAuthContext(b)
    \/ CleanupExpiredSessions \/ DeleteUserMapping \/ deleteProvider

-----------------------------------------------------------------------------
(* However the first logins of one person overlap, and wherever they fail, *)
(* they make one user: a second one only appears after the mapping was     *)
(* deleted, and a mapping leads to the user its own login made.            *)
OneUserPerIdentity ==
    \A k \in DOMAIN mapping :
       /\ Cardinality({u \in Uids : born[u] = k}) <= 1 + unmapped[k]
       /\ mapping[k] # Null => born[mapping[k]] = k
=============================================================================
