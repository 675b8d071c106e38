------------------------------ MODULE MCAccess ------------------------------
(* Rbac, RbacSetup and Sso over Identity, one group of operations at a time: *)
(* the groups share no table that a property of another group reads.         *)
EXTENDS Rbac, RbacSetup, Sso

CONSTANTS u1, x1
VARIABLE group

MCMigrations == <<1, 2, 3>>
MCBuiltIn == <<"org_admin", "org_viewer">>
MCGroupRole == "ops" :> "admin"

vars == <<rbacVars, setupVars, identityVars, ssoVars, group>>
MCInit ==
    /\ group \in {"roles", "require", "setup", "identity", "login", "config"}
    /\ RbacInit /\ SetupInit /\ IdentityInit /\ SsoInit
    /\ group \notin {"roles", "require"} => teamRoles = {}
    /\ group \notin {"login", "config"} => \A n \in Providers : provider[n].type = "saml"
\* The checks of these groups are one user's, and in "roles" for one permission.
Focus ==
    \A p \in Procs : work'[p] # Idle =>
        work'[p].user = u1 /\ (group = "roles" => work'[p].perm = x1)
MCNext ==
    /\ UNCHANGED group
    /\ \/ group = "roles" /\ RbacNext /\ Focus /\ UNCHANGED <<setupVars, identityVars, ssoVars>>
       \/ /\ group = "require" /\ RequirementsNext /\ Focus /\ changes' <= 1
          /\ UNCHANGED <<setupVars, identityVars, ssoVars>>
       \/ group = "setup" /\ SetupNext /\ UNCHANGED <<rbacVars, identityVars, ssoVars>>
       \/ group = "identity" /\ IdentityNext /\ UNCHANGED <<rbacVars, setupVars, ssoVars>>
       \/ group = "login" /\ LoginNext /\ edits' <= 1 /\ UNCHANGED <<rbacVars, setupVars>>
       \/ group = "config" /\ ConfigNext /\ UNCHANGED <<rbacVars, setupVars>>
RbacFair == UNCHANGED <<setupVars, identityVars, ssoVars, group>>
Spec == MCInit /\ [][MCNext]_vars
        /\ \A p \in Procs : WF_vars(CheckStep(p) /\ History /\ RbacFair)
=============================================================================
