----------------------------- MODULE RbacSetup ------------------------------
(***************************************************************************)
(* Manager.Initialize of pkg/rbac: the servers of a deployment start, run  *)
(* the pending migrations, each in a transaction with its record, and then *)
(* insert the built-in roles that are missing.  A server may crash between *)
(* any two statements and start again.                                     *)
(***************************************************************************)
EXTENDS Naturals, Sequences, FiniteSets

CONSTANTS
    Servers,
    Migrations,   \* GetMigrations: the versions, in order
    BuiltInNames, \* BuiltInRoles: the names, in order
    MaxCrashes    \* bound

Elements(s) == {s[i] : i \in DOMAIN s}
\* No applied version and no role name twice.
ASSUME SetupAssumption ==
    /\ IsFiniteSet(Servers) /\ Migrations \in Seq(Nat) /\ BuiltInNames \in Seq(STRING)
    /\ Cardinality(Elements(Migrations)) = Len(Migrations)
    /\ Cardinality(Elements(BuiltInNames)) = Len(BuiltInNames)

VARIABLES
    applied,  \* versions in rbac_migrations
    rows,     \* [names -> rows of roles with that name and no organization]
    server,   \* [Servers -> step of Initialize, versions seen, position]
    crashes
setupVars == <<applied, rows, server, crashes>>

Down == [step |-> "down", seen |-> {}, at |-> 1]
SetupInit ==
    /\ applied = {} /\ rows = [n \in Elements(BuiltInNames) |-> 0]
    /\ server = [s \in Servers |-> Down] /\ crashes = 0

To(s, step, at) == server' = [server EXCEPT ![s].step = step, ![s].at = at]
Initialize(s) ==
    /\ server[s].step = "down"
    /\ server' = [server EXCEPT ![s] = [step |-> "migrate", seen |-> applied, at |-> 1]]
    /\ UNCHANGED <<applied, rows, crashes>>
\* The transaction of one migration.  A version another server has applied
\* since this one looked fails: its indexes and its record exist.
RunMigrations(s) ==
    LET i == server[s].at IN
    /\ server[s].step = "migrate"
    /\ \/ /\ i > Len(Migrations)
          /\ To(s, "role", 1) /\ UNCHANGED applied
       \/ /\ i <= Len(Migrations) /\ Migrations[i] \in server[s].seen
          /\ To(s, "migrate", i + 1) /\ UNCHANGED applied
       \/ /\ i <= Len(Migrations) /\ Migrations[i] \notin server[s].seen
          /\ IF Migrations[i] \in applied THEN To(s, "failed", 1) /\ UNCHANGED applied
             ELSE To(s, "migrate", i + 1) /\ applied' = applied \cup {Migrations[i]}
    /\ UNCHANGED <<rows, crashes>>
\* GetRoleByName: an existing role is skipped.
LookRoleStops(s) ==
    LET i == server[s].at IN
    /\ server[s].step = "role"
    /\ IF i > Len(BuiltInNames) \/ (i <= Len(BuiltInNames) /\ rows[BuiltInNames[i]] > 0)
       THEN To(s, "ready", 1) ELSE To(s, "insert", i)
    /\ UNCHANGED <<applied, rows, crashes>>
LookRole(s) ==
    LET i == server[s].at IN
    /\ server[s].step = "role"
    /\ IF i > Len(BuiltInNames) THEN To(s, "ready", 1)
       ELSE IF rows[BuiltInNames[i]] > 0 THEN To(s, "role", i + 1) ELSE To(s, "insert", i)
    /\ UNCHANGED <<applied, rows, crashes>>
\* A row without an organization never violates UNIQUE (name, organization_id).
InitializeBuiltInRoles(s) ==
    /\ server[s].step = "insert"
    /\ rows' = [rows EXCEPT ![BuiltInNames[server[s].at]] = @ + 1]
    /\ To(s, "role", server[s].at + 1) /\ UNCHANGED <<applied, crashes>>
Crash(s) ==
    /\ server[s].step # "down" /\ crashes < MaxCrashes /\ crashes' = crashes + 1
    /\ server' = [server EXCEPT ![s] = Down] /\ UNCHANGED <<applied, rows>>
Restart(s) ==
    /\ server[s].step = "failed"
    /\ server' = [server EXCEPT ![s] = Down] /\ UNCHANGED <<applied, rows, crashes>>

SetupNext == \E s \in Servers :
    Initialize(s) \/ RunMigrations(s) \/ LookRole(s) \/ InitializeBuiltInRoles(s)
    \/ Crash(s) \/ Restart(s)

(* A server that has finished Initialize finds the whole schema and every  *)
(* built-in role, whatever crashed before and whoever started beside it,   *)
(* and a built-in role has at most one row per start that could overlap.   *)
ReadyIsComplete ==
    /\ \A s \in Servers : server[s].step = "ready" =>
          /\ applied = Elements(Migrations)
          /\ \A n \in DOMAIN rows : rows[n] > 0
    /\ \A n \in DOMAIN rows : rows[n] <= Cardinality(Servers)
=============================================================================
