---------------------------- MODULE AccessProofs ----------------------------
(***************************************************************************)
(* Access control for any number of servers, roles, users, teams, caches   *)
(* and identities: a server that is ready has its schema and its roles, a  *)
(* permission outlives its revocation by the TTL of the cache at most, and *)
(* the logins of one person make one user.                                 *)
(***************************************************************************)
EXTENDS Rbac, RbacSetup, Sso, FiniteSetTheorems, TLAPS

-----------------------------------------------------------------------------
(* Manager.Initialize.                                                     *)
SetupSteps == {"down", "migrate", "role", "insert", "ready", "failed"}
SetupType ==
    /\ applied \subseteq Elements(Migrations)
    /\ rows \in [Elements(BuiltInNames) -> Nat]
    /\ server \in [Servers -> [step : SetupSteps, seen : SUBSET applied, at : Nat \ {0}]]

\* How far each server has come.
Progress(s) ==
    /\ server[s].step = "migrate" =>
         \A j \in DOMAIN Migrations : j < server[s].at => Migrations[j] \in applied
    /\ server[s].step \in {"role", "insert", "ready"} => applied = Elements(Migrations)
    /\ server[s].step \in {"role", "insert"} =>
         \A j \in DOMAIN BuiltInNames : j < server[s].at => rows[BuiltInNames[j]] > 0
    /\ server[s].step = "insert" => server[s].at \in DOMAIN BuiltInNames
    /\ server[s].step = "ready" => \A n \in DOMAIN rows : rows[n] > 0

\* The servers that are about to insert a row of role n, having seen none.
Inserting(n) == {s \in Servers : server[s].step = "insert" /\ BuiltInNames[server[s].at] = n}
SetupInv ==
    /\ SetupType
    /\ \A s \in Servers : Progress(s)
    /\ \A n \in Elements(BuiltInNames) :
         rows[n] + Cardinality(Inserting(n)) <= Cardinality(Servers)

\* Some of the servers, as a number.
LEMMA InsertingFinite ==
    ASSUME NEW n
    PROVE  /\ IsFiniteSet(Inserting(n)) /\ Cardinality(Inserting(n)) \in Nat
           /\ Cardinality(Inserting(n)) <= Cardinality(Servers) /\ Cardinality(Servers) \in Nat
BY FS_Subset, FS_CardinalityType, SetupAssumption DEF Inserting

\* A server moves on: rows and versions are only added, and no row is owed more
\* than before.
LEMMA SetupMoves ==
    ASSUME SetupInv, NEW s \in Servers, UNCHANGED rows, applied \subseteq applied',
           applied' \subseteq Elements(Migrations),
           NEW r \in [step : SetupSteps, seen : SUBSET applied', at : Nat \ {0}],
           server' = [server EXCEPT ![s] = r],
           r.step = "insert" => rows[BuiltInNames[r.at]] = 0,
           Progress(s)'
    PROVE  SetupInv'
<1>1. /\ server'[s] = r /\ \A v \in Servers \ {s} : server'[v] = server[v]
  BY DEF SetupInv, SetupType
<1>2. SetupType'
  BY DEF SetupInv, SetupType
<1>3. \A v \in Servers : Progress(v)'
  <2> SUFFICES ASSUME NEW v \in Servers, v # s PROVE Progress(v)'
    OBVIOUS
  <2> QED
    BY <1>1 DEF SetupInv, SetupType, Progress
<1>4. ASSUME NEW n \in Elements(BuiltInNames)
      PROVE  rows'[n] + Cardinality(Inserting(n)') <= Cardinality(Servers)
  <2>1. CASE s \in Inserting(n)'
    <3>1. rows'[n] = 0
      BY <1>1, <2>1 DEF Inserting
    <3>2. Inserting(n)' \subseteq Servers
      BY DEF Inserting
    <3>3. Cardinality(Inserting(n)') <= Cardinality(Servers) /\ Cardinality(Inserting(n)') \in Nat
      BY <3>2, FS_Subset, FS_CardinalityType, SetupAssumption
    <3> QED
      BY <3>1, <3>3, InsertingFinite
  <2>2. CASE s \notin Inserting(n)'
    <3>1. Inserting(n)' \subseteq Inserting(n)
      BY <1>1, <2>2 DEF Inserting
    <3>2. /\ Cardinality(Inserting(n)') <= Cardinality(Inserting(n))
          /\ Cardinality(Inserting(n)') \in Nat
      BY <3>1, InsertingFinite, FS_Subset, FS_CardinalityType
    <3>3. rows[n] \in Nat /\ rows[n] + Cardinality(Inserting(n)) <= Cardinality(Servers)
      BY DEF SetupInv, SetupType
    <3> QED
      BY <3>2, <3>3, InsertingFinite
  <2> QED
    BY <2>1, <2>2
<1> QED
  BY <1>2, <1>3, <1>4 DEF SetupInv

\* To, on the record of one server.
LEMMA SetupRecord ==
    ASSUME NEW S, NEW T, S \subseteq T, NEW q \in [step : SetupSteps, seen : SUBSET S, at : Nat \ {0}],
           NEW step \in SetupSteps, NEW k \in Nat \ {0},
           NEW r, r = [q EXCEPT !.step = step, !.at = k]
    PROVE  /\ r \in [step : SetupSteps, seen : SUBSET T, at : Nat \ {0}]
           /\ r.step = step /\ r.at = k
OBVIOUS

\* Every step but the insertion of a row.
LEMMA SetupMigrates ==
    ASSUME SetupInv, NEW s \in Servers, RunMigrations(s)
    PROVE  SetupInv'
<1>1. PICK i \in Nat \ {0} : i = server[s].at
  BY DEF SetupInv, SetupType
<1>2. /\ server[s].step = "migrate" /\ server[s].seen \subseteq applied
      /\ UNCHANGED rows /\ Progress(s) /\ server[s] \in [step : SetupSteps, seen : SUBSET applied, at : Nat \ {0}]
  BY DEF SetupInv, SetupType, RunMigrations
<1>3. DOMAIN Migrations = 1..Len(Migrations) /\ Len(Migrations) \in Nat
  BY SetupAssumption
<1>4. CASE i > Len(Migrations) /\ To(s, "role", 1) /\ UNCHANGED applied
  <2>1. PICK r : r = [server[s] EXCEPT !.step = "role", !.at = 1]
    OBVIOUS
  <2>2. r \in [step : SetupSteps, seen : SUBSET applied, at : Nat \ {0}] /\ r.step = "role" /\ r.at = 1
    <3>1. 1 \in Nat \ {0} /\ "role" \in SetupSteps
      BY DEF SetupSteps
    <3> QED
      BY <1>2, <2>1, <3>1, SetupRecord
  <2>3. server' = [server EXCEPT ![s] = r] /\ server'[s] = r
    BY <1>4, <2>1 DEF To, SetupInv, SetupType
  <2>4. applied = Elements(Migrations)
    BY <1>1, <1>2, <1>3, <1>4 DEF Progress, Elements, SetupInv, SetupType
  <2>5. Progress(s)'
    BY <1>4, <2>2, <2>3, <2>4, SetupAssumption DEF Progress
  <2> QED
    BY <1>2, <1>4, <2>2, <2>3, <2>4, <2>5, SetupMoves
<1>5. CASE /\ i <= Len(Migrations) /\ To(s, "migrate", i + 1)
           /\ applied \subseteq applied' /\ Migrations[i] \in applied'
           /\ applied' \subseteq Elements(Migrations)
  <2>1. PICK r : r = [server[s] EXCEPT !.step = "migrate", !.at = i + 1]
    OBVIOUS
  <2>2. r \in [step : SetupSteps, seen : SUBSET applied', at : Nat \ {0}] /\ r.step = "migrate" /\ r.at = i + 1
    <3>1. i + 1 \in Nat \ {0} /\ "migrate" \in SetupSteps
      BY DEF SetupSteps
    <3> QED
      BY <1>2, <1>5, <2>1, <3>1, SetupRecord
  <2>3. server' = [server EXCEPT ![s] = r] /\ server'[s] = r
    BY <1>5, <2>1 DEF To, SetupInv, SetupType
  <2>4. \A j \in DOMAIN Migrations : j < i + 1 => Migrations[j] \in applied'
    <3>1. SUFFICES ASSUME NEW j \in DOMAIN Migrations, j < i + 1 PROVE Migrations[j] \in applied'
      OBVIOUS
    <3>2. j = i \/ j < i
      BY <1>3, <3>1
    <3> QED
      BY <1>1, <1>2, <1>5, <3>1, <3>2 DEF Progress
  <2>5. Progress(s)'
    BY <2>2, <2>3, <2>4 DEF Progress
  <2> QED
    BY <1>2, <1>5, <2>2, <2>3, <2>5, SetupMoves
<1>6. CASE To(s, "failed", 1) /\ UNCHANGED applied
  <2>1. PICK r : r = [server[s] EXCEPT !.step = "failed", !.at = 1]
    OBVIOUS
  <2>2. r \in [step : SetupSteps, seen : SUBSET applied, at : Nat \ {0}] /\ r.step = "failed"
    <3>1. 1 \in Nat \ {0} /\ "failed" \in SetupSteps
      BY DEF SetupSteps
    <3> QED
      BY <1>2, <2>1, <3>1, SetupRecord
  <2>3. server' = [server EXCEPT ![s] = r] /\ server'[s] = r
    BY <1>6, <2>1 DEF To, SetupInv, SetupType
  <2>4. Progress(s)'
    BY <2>2, <2>3 DEF Progress
  <2>5. applied \subseteq Elements(Migrations)
    BY DEF SetupInv, SetupType
  <2> QED
    BY <1>2, <1>6, <2>2, <2>3, <2>4, <2>5, SetupMoves
<1>7. applied \subseteq Elements(Migrations)
  BY DEF SetupInv, SetupType
<1>8. i <= Len(Migrations) => Migrations[i] \in Elements(Migrations)
  BY <1>3 DEF Elements
<1> QED
  BY <1>1, <1>2, <1>4, <1>5, <1>6, <1>7, <1>8 DEF RunMigrations

LEMMA SetupLooks ==
    ASSUME SetupInv, NEW s \in Servers, LookRole(s)
    PROVE  SetupInv'
<1>1. PICK i \in Nat \ {0} : i = server[s].at
  BY DEF SetupInv, SetupType
<1>2. /\ server[s].step = "role"
      /\ UNCHANGED rows /\ UNCHANGED applied /\ Progress(s)
      /\ server[s] \in [step : SetupSteps, seen : SUBSET applied, at : Nat \ {0}]
      /\ applied \subseteq Elements(Migrations) /\ rows \in [Elements(BuiltInNames) -> Nat]
  BY DEF SetupInv, SetupType, LookRole
<1>3. DOMAIN BuiltInNames = 1..Len(BuiltInNames) /\ Len(BuiltInNames) \in Nat
  BY SetupAssumption
<1>4. ASSUME NEW step \in {"role", "ready", "insert"}, NEW k \in Nat \ {0}, To(s, step, k),
             /\ step = "role" => k = i + 1 /\ i <= Len(BuiltInNames) /\ rows[BuiltInNames[i]] > 0
             /\ step = "ready" => i > Len(BuiltInNames)
             /\ step = "insert" => k = i /\ i <= Len(BuiltInNames) /\ ~(rows[BuiltInNames[i]] > 0)
      PROVE  SetupInv'
  <2>1. PICK r : r = [server[s] EXCEPT !.step = step, !.at = k]
    OBVIOUS
  <2>2. r \in [step : SetupSteps, seen : SUBSET applied, at : Nat \ {0}] /\ r.step = step /\ r.at = k
    BY <1>2, <2>1, SetupRecord DEF SetupSteps
  <2>3. server' = [server EXCEPT ![s] = r] /\ server'[s] = r
    BY <1>4, <2>1 DEF To, SetupInv, SetupType
  <2>4. i <= Len(BuiltInNames) => BuiltInNames[i] \in Elements(BuiltInNames)
    BY <1>3 DEF Elements
  <2>5. \A j \in DOMAIN BuiltInNames : j < i => rows[BuiltInNames[j]] > 0
    BY <1>1, <1>2 DEF Progress
  <2>6. step = "ready" => \A n \in DOMAIN rows : rows[n] > 0
    BY <1>2, <1>3, <1>4, <2>5 DEF Elements
  <2>7. step \in {"role", "insert"} =>
          \A j \in DOMAIN BuiltInNames : j < k => rows[BuiltInNames[j]] > 0
    <3>1. SUFFICES ASSUME step \in {"role", "insert"}, NEW j \in DOMAIN BuiltInNames, j < k
                   PROVE  rows[BuiltInNames[j]] > 0
      OBVIOUS
    <3>2. j = i \/ j < i
      BY <1>3, <1>4, <3>1
    <3> QED
      BY <1>4, <2>5, <3>1, <3>2
  <2>8. step = "insert" => k \in DOMAIN BuiltInNames
    BY <1>3, <1>4
  <2>9. applied = Elements(Migrations)
    BY <1>2 DEF Progress
  <2>10. Progress(s)'
    BY <1>2, <1>4, <2>2, <2>3, <2>6, <2>7, <2>8, <2>9 DEF Progress
  <2>11. r.step = "insert" => rows[BuiltInNames[r.at]] = 0
    BY <1>2, <1>4, <2>2, <2>4
  <2> QED
    BY <1>2, <2>2, <2>3, <2>10, <2>11, SetupMoves
<1> QED
  BY <1>1, <1>2, <1>3, <1>4 DEF LookRole

\* A row more, and a server less that owes one.
LEMMA SetupInserts ==
    ASSUME SetupInv, NEW s \in Servers, InitializeBuiltInRoles(s)
    PROVE  SetupInv'
<1>1. PICK i \in Nat \ {0} : i = server[s].at
  BY DEF SetupInv, SetupType
<1>2. /\ server[s].step = "insert" /\ UNCHANGED applied /\ Progress(s)
      /\ server[s] \in [step : SetupSteps, seen : SUBSET applied, at : Nat \ {0}]
      /\ rows \in [Elements(BuiltInNames) -> Nat]
      /\ rows' = [rows EXCEPT ![BuiltInNames[i]] = @ + 1] /\ To(s, "role", i + 1)
  BY <1>1 DEF SetupInv, SetupType, InitializeBuiltInRoles
<1>3. i \in DOMAIN BuiltInNames /\ BuiltInNames[i] \in Elements(BuiltInNames)
  BY <1>1, <1>2 DEF Progress, Elements
<1>4. PICK m \in Elements(BuiltInNames) : m = BuiltInNames[i]
  BY <1>3
<1>5. /\ rows' \in [Elements(BuiltInNames) -> Nat] /\ rows'[m] = rows[m] + 1
      /\ \A n \in Elements(BuiltInNames) \ {m} : rows'[n] = rows[n]
  BY <1>2, <1>4
<1>6. \A n \in Elements(BuiltInNames) : rows[n] > 0 => rows'[n] > 0
  BY <1>2, <1>5
<1>7. PICK r : r = [server[s] EXCEPT !.step = "role", !.at = i + 1]
  OBVIOUS
<1>8. r \in [step : SetupSteps, seen : SUBSET applied, at : Nat \ {0}] /\ r.step = "role" /\ r.at = i + 1
  <2>1. i + 1 \in Nat \ {0} /\ "role" \in SetupSteps
    BY DEF SetupSteps
  <2> QED
    BY <1>2, <1>7, <2>1, SetupRecord
<1>9. /\ server' = [server EXCEPT ![s] = r] /\ server'[s] = r
      /\ \A v \in Servers \ {s} : server'[v] = server[v]
  BY <1>2, <1>7 DEF To, SetupInv, SetupType
<1>10. SetupType'
  BY <1>2, <1>5, <1>8, <1>9 DEF SetupInv, SetupType
<1>11. \A j \in DOMAIN BuiltInNames : BuiltInNames[j] \in Elements(BuiltInNames)
  BY DEF Elements
<1>12. ASSUME NEW v \in Servers PROVE Progress(v)'
  <2>1. CASE v = s
    <3>1. \A j \in DOMAIN BuiltInNames : j < i + 1 => rows'[BuiltInNames[j]] > 0
      <4>1. SUFFICES ASSUME NEW j \in DOMAIN BuiltInNames, j < i + 1
                     PROVE  rows'[BuiltInNames[j]] > 0
        OBVIOUS
      <4>2. j = i \/ j < i
        BY <4>1, SetupAssumption
      <4> QED
        BY <1>1, <1>2, <1>4, <1>5, <1>6, <1>11, <4>1, <4>2 DEF Progress
    <3> QED
      BY <1>2, <1>8, <1>9, <2>1, <3>1 DEF Progress
  <2>2. CASE v # s
    <3>1. server'[v] = server[v] /\ Progress(v) /\ DOMAIN rows' = DOMAIN rows
      BY <1>2, <1>5, <1>9, <2>2 DEF SetupInv
    <3> QED
      BY <1>2, <1>6, <1>11, <3>1 DEF Progress
  <2> QED
    BY <2>1, <2>2
<1>13. ASSUME NEW n \in Elements(BuiltInNames)
       PROVE  rows'[n] + Cardinality(Inserting(n)') <= Cardinality(Servers)
  <2>1. rows[n] \in Nat /\ rows[n] + Cardinality(Inserting(n)) <= Cardinality(Servers)
    BY DEF SetupInv, SetupType
  <2>2. Inserting(n)' = Inserting(n) \ {s}
    BY <1>8, <1>9 DEF Inserting
  <2>3. CASE n = m
    <3>1. s \in Inserting(n)
      BY <1>1, <1>2, <1>4, <2>3 DEF Inserting
    <3>2. Cardinality(Inserting(n)') = Cardinality(Inserting(n)) - 1
      BY <2>2, <3>1, InsertingFinite, FS_RemoveElement
    <3> QED
      BY <1>5, <2>1, <2>3, <3>2, InsertingFinite
  <2>4. CASE n # m
    <3>1. /\ Cardinality(Inserting(n)') <= Cardinality(Inserting(n))
          /\ Cardinality(Inserting(n)') \in Nat
      BY <2>2, InsertingFinite, FS_Subset, FS_CardinalityType
    <3> QED
      BY <1>5, <2>1, <2>4, <3>1, InsertingFinite
  <2> QED
    BY <2>3, <2>4
<1> QED
  BY <1>10, <1>12, <1>13 DEF SetupInv

(* Servers that start side by side, crash and start again never leave one  *)
(* that answers requests without its schema or its built-in roles, and     *)
(* insert a role at most once each.                                        *)
THEOREM ReadyMeansComplete == SetupInit /\ [][SetupNext]_setupVars => []ReadyIsComplete
<1>1. SetupInit => SetupInv
  <2> SUFFICES ASSUME SetupInit PROVE SetupInv
    OBVIOUS
  <2>1. Down \in [step : SetupSteps, seen : SUBSET applied, at : Nat \ {0}]
    BY DEF Down, SetupSteps
  <2>2. SetupType /\ \A s \in Servers : server[s] = Down
    BY <2>1 DEF SetupInit, SetupType
  <2>3. \A s \in Servers : Progress(s)
    BY <2>2 DEF Progress, Down
  <2>4. \A n \in Elements(BuiltInNames) : rows[n] = 0
    BY DEF SetupInit
  <2>5. \A n \in Elements(BuiltInNames) :
          rows[n] + Cardinality(Inserting(n)) <= Cardinality(Servers)
    BY <2>4, InsertingFinite
  <2> QED
    BY <2>2, <2>3, <2>5 DEF SetupInv
<1>2. SetupInv /\ [SetupNext]_setupVars => SetupInv'
  <2> SUFFICES ASSUME SetupInv, [SetupNext]_setupVars PROVE SetupInv'
    OBVIOUS
  <2>1. ASSUME NEW s \in Servers, Initialize(s) PROVE SetupInv'
    <3>1. PICK r : r = [step |-> "migrate", seen |-> applied, at |-> 1]
      OBVIOUS
    <3>2. r \in [step : SetupSteps, seen : SUBSET applied', at : Nat \ {0}] /\ r.step = "migrate" /\ r.at = 1
      BY <2>1, <3>1 DEF Initialize, SetupSteps
    <3>3. server' = [server EXCEPT ![s] = r] /\ server'[s] = r /\ UNCHANGED <<rows, applied>>
      BY <2>1, <3>1 DEF Initialize, SetupInv, SetupType
    <3>4. Progress(s)'
      BY <3>2, <3>3, SetupAssumption DEF Progress
    <3>5. applied \subseteq Elements(Migrations)
      BY DEF SetupInv, SetupType
    <3> QED
      BY <3>2, <3>3, <3>4, <3>5, SetupMoves
  <2>2. ASSUME NEW s \in Servers, Crash(s) \/ Restart(s) PROVE SetupInv'
    <3>1. Down \in [step : SetupSteps, seen : SUBSET applied', at : Nat \ {0}] /\ Down.step = "down"
      BY DEF Down, SetupSteps
    <3>2. server' = [server EXCEPT ![s] = Down] /\ server'[s] = Down /\ UNCHANGED <<rows, applied>>
      BY <2>2 DEF Crash, Restart, SetupInv, SetupType
    <3>3. Progress(s)'
      BY <3>1, <3>2 DEF Progress
    <3>4. applied \subseteq Elements(Migrations)
      BY DEF SetupInv, SetupType
    <3>5. PICK r : r = Down
      OBVIOUS
    <3> QED
      BY <3>1, <3>2, <3>3, <3>4, <3>5, SetupMoves
  <2>3. CASE UNCHANGED setupVars
    BY <2>3 DEF setupVars, SetupInv, SetupType, Progress, Inserting
  <2> QED
    BY <2>1, <2>2, <2>3, SetupMigrates, SetupLooks, SetupInserts DEF SetupNext
<1>3. SetupInv => ReadyIsComplete
  <2> SUFFICES ASSUME SetupInv PROVE ReadyIsComplete
    OBVIOUS
  <2>1. \A n \in DOMAIN rows : rows[n] <= Cardinality(Servers)
    BY InsertingFinite DEF SetupInv, SetupType
  <2> QED
    BY <2>1 DEF SetupInv, Progress, ReadyIsComplete
<1> QED
  BY <1>1, <1>2, <1>3, PTL

-----------------------------------------------------------------------------
(* The permission checker and its cache.                                   *)
Single == {"one", "any", "all"}
CheckRecords ==
    [op : {"check"}, user : Users, org : Orgs \cup {NoRow}, mode : Single \cup {"role", "permissions"},
     left : SUBSET Perms, perm : Perms \cup {NoRow},
     step : {"cache", "direct", "team", "rows", "parents"}, ids : SUBSET RoleIds,
     up : SUBSET RoleIds, names : SUBSET (Names \cup {"org_admin"}), perms : SUBSET Perms, began : Nat]
CacheRecords == [allowed : BOOLEAN, expires : Nat, began : Nat]

TablesType ==
    /\ roles \in [RoleIds -> RoleRows \cup {NoRow}]
    /\ \A g \in grants : g.role \in RoleIds
    /\ \A t \in Teams, r \in RoleIds : <<t, r>> \in teamRoles => roles[r] # NoRow
ClockType ==
    /\ now \in Nat
    /\ linkedAt \in [Users -> Nat] /\ \A u \in Users : linkedAt[u] <= now
    /\ carriedAt \in [Perms -> Nat] /\ \A x \in Perms : carriedAt[x] <= now
\* What a check in progress holds was there after the check began.
Evidence(w) ==
    /\ w \in CheckRecords /\ w.began <= now
    /\ w.perms # {} \/ w.ids # {} \/ w.up # {} => linkedAt[w.user] >= w.began
    /\ \A x \in w.perms : carriedAt[x] >= w.began
    /\ w.mode \in Single => w.perm \in Perms
    /\ w.step = "cache" => w.mode \in Single
Sound(w) == w.op = "check" => Evidence(w)
\* So was what a cached permission was computed from.
Backed(u, x, e) ==
    /\ e \in CacheRecords
    /\ e.allowed => linkedAt[u] >= e.began /\ carriedAt[x] >= e.began
CacheBacked ==
    /\ cache = [k \in Users \X Perms |-> cache[k]]
    /\ \A u \in Users, x \in Perms :
         cache[<<u, x>>] # NoRow => Backed(u, x, cache[<<u, x>>])
WorkSound ==
    /\ work = [p \in Procs \cup Admins |-> work[p]]
    /\ \A p \in Procs \cup Admins : Sound(work[p])
StaleInv == TablesType /\ ClockType /\ CacheBacked /\ WorkSound /\ StaleBounded

\* History remembers the last moment, and the clock does not run back.
LEMMA HistoryGrows ==
    ASSUME ClockType, History, now' \in Nat, now' >= now
    PROVE  /\ ClockType'
           /\ \A u \in Users : linkedAt'[u] >= linkedAt[u] /\ (Linked(u) => linkedAt'[u] >= now)
           /\ \A x \in Perms : carriedAt'[x] >= carriedAt[x] /\ (Carried(x) => carriedAt'[x] >= now)
<1>1. ASSUME NEW u \in Users
      PROVE  /\ linkedAt'[u] \in Nat /\ linkedAt'[u] <= now' /\ linkedAt'[u] >= linkedAt[u]
             /\ Linked(u) => linkedAt'[u] >= now
  <2>1. linkedAt'[u] = IF Linked(u)' THEN now' ELSE IF Linked(u) THEN now ELSE linkedAt[u]
    BY DEF History
  <2> QED
    BY <2>1 DEF ClockType
<1>2. ASSUME NEW x \in Perms
      PROVE  /\ carriedAt'[x] \in Nat /\ carriedAt'[x] <= now' /\ carriedAt'[x] >= carriedAt[x]
             /\ Carried(x) => carriedAt'[x] >= now
  <2>1. carriedAt'[x] = IF Carried(x)' THEN now' ELSE IF Carried(x) THEN now ELSE carriedAt[x]
    BY DEF History
  <2> QED
    BY <2>1 DEF ClockType
<1>3. linkedAt' \in [Users -> Nat]
  <2>1. linkedAt' = [u \in Users |-> linkedAt'[u]]
    BY DEF History
  <2> QED
    BY <1>1, <2>1
<1>4. carriedAt' \in [Perms -> Nat]
  <2>1. carriedAt' = [x \in Perms |-> carriedAt'[x]]
    BY DEF History
  <2> QED
    BY <1>2, <2>1
<1> QED
  BY <1>1, <1>2, <1>3, <1>4 DEF ClockType

\* So evidence stays evidence.
LEMMA EvidenceStays ==
    ASSUME ClockType, History, now' \in Nat, now' >= now, NEW w, Sound(w)
    PROVE  Sound(w)'
<1> SUFFICES ASSUME w.op = "check" PROVE Evidence(w)'
  BY DEF Sound
<1>1. Evidence(w)
  BY DEF Sound
<1>2. w.user \in Users /\ w.perms \subseteq Perms /\ w.began \in Nat
  BY <1>1 DEF Evidence, CheckRecords
<1>3. w.began <= now'
  BY <1>1, <1>2 DEF Evidence, ClockType
<1>4. linkedAt[w.user] >= w.began => linkedAt'[w.user] >= w.began
  <2>1. linkedAt[w.user] \in Nat /\ linkedAt'[w.user] \in Nat /\ linkedAt'[w.user] >= linkedAt[w.user]
    BY <1>2, HistoryGrows DEF ClockType
  <2> QED
    BY <1>2, <2>1
<1>5. \A x \in w.perms : carriedAt'[x] >= w.began
  <2> TAKE x \in w.perms
  <2>1. carriedAt[x] \in Nat /\ carriedAt'[x] \in Nat /\ carriedAt'[x] >= carriedAt[x]
    BY <1>2, HistoryGrows DEF ClockType
  <2> QED
    BY <1>1, <1>2, <2>1 DEF Evidence
<1> QED
  BY <1>1, <1>3, <1>4, <1>5 DEF Evidence

LEMMA BackedStays ==
    ASSUME ClockType, History, now' \in Nat, now' >= now,
           NEW u \in Users, NEW x \in Perms, NEW e, Backed(u, x, e)
    PROVE  Backed(u, x, e)'
<1>1. /\ linkedAt[u] \in Nat /\ linkedAt'[u] \in Nat /\ linkedAt'[u] >= linkedAt[u]
      /\ carriedAt[x] \in Nat /\ carriedAt'[x] \in Nat /\ carriedAt'[x] >= carriedAt[x]
  BY HistoryGrows DEF ClockType
<1> QED
  BY <1>1 DEF Backed, CacheRecords

\* What a step owes: one goroutine's record, the tables, the cache, the verdict.
LEMMA StaleMoves ==
    ASSUME StaleInv, History, now' \in Nat, now' >= now, TablesType', StaleBounded',
           NEW p \in Procs \cup Admins, NEW w, work' = [work EXCEPT ![p] = w], Sound(w)',
           cache' = [k \in Users \X Perms |-> cache'[k]],
           \A u \in Users, x \in Perms : \/ cache'[<<u, x>>] \in {NoRow, cache[<<u, x>>]}
                                         \/ Backed(u, x, cache[<<u, x>>])'
    PROVE  StaleInv'
<1>1. ClockType'
  BY HistoryGrows DEF StaleInv
<1>2. WorkSound'
  <2>1. work' = [v \in Procs \cup Admins |-> work'[v]]
    BY DEF StaleInv, WorkSound
  <2>2. ASSUME NEW v \in Procs \cup Admins PROVE Sound(work[v])'
    <3>1. CASE v = p
      <4>1. work'[v] = w
        BY <3>1 DEF StaleInv, WorkSound
      <4> QED
        BY <4>1 DEF Sound
    <3>2. CASE v # p
      <4>1. PICK o : o = work[v]
        OBVIOUS
      <4>2. Sound(o)
        BY <4>1 DEF StaleInv, WorkSound
      <4>3. Sound(o)'
        BY <4>2, EvidenceStays DEF StaleInv
      <4>4. work'[v] = o
        BY <3>2, <4>1 DEF StaleInv, WorkSound
      <4> QED
        BY <4>3, <4>4 DEF Sound
    <3> QED
      BY <3>1, <3>2
  <2> QED
    BY <2>1, <2>2 DEF WorkSound
<1>3. CacheBacked'
  <2>1. ASSUME NEW u \in Users, NEW x \in Perms, cache'[<<u, x>>] # NoRow
        PROVE  Backed(u, x, cache[<<u, x>>])'
    <3>1. PICK e : e = cache'[<<u, x>>]
      OBVIOUS
    <3>2. CASE e = cache[<<u, x>>]
      <4>1. Backed(u, x, e)
        BY <2>1, <3>1, <3>2 DEF StaleInv, CacheBacked
      <4>2. Backed(u, x, e)'
        BY <4>1, BackedStays DEF StaleInv
      <4> QED
        BY <3>1, <4>2 DEF Backed
    <3> QED
      BY <2>1, <3>1, <3>2
  <2> QED
    BY <2>1 DEF CacheBacked
<1> QED
  BY <1>1, <1>2, <1>3 DEF StaleInv

LEMMA UnchangedTables == ASSUME TablesType, UNCHANGED tables PROVE TablesType'
<1>1. UNCHANGED <<roles, grants, teams, inTeam, teamRoles>>
  BY DEF tables
<1> QED
  BY <1>1 DEF TablesType

\* A turn of one goroutine that writes nothing.
LEMMA StaleTurns ==
    ASSUME StaleInv, History, Keep, StaleBounded',
           NEW p \in Procs \cup Admins, NEW w, work' = [work EXCEPT ![p] = w], Sound(w)'
    PROVE  StaleInv'
<1>1. UNCHANGED tables /\ UNCHANGED cache /\ UNCHANGED now
  BY DEF Keep
<1>2. TablesType'
  BY <1>1, UnchangedTables DEF StaleInv
<1>3. now' \in Nat /\ now' >= now
  BY <1>1 DEF StaleInv, ClockType
<1>4. cache' = [k \in Users \X Perms |-> cache'[k]]
  BY <1>1 DEF StaleInv, CacheBacked
<1> QED
  BY <1>1, <1>2, <1>3, <1>4, StaleMoves

\* A check that begins has no evidence to account for.
LEMMA CheckBegins ==
    ASSUME ClockType, History, UNCHANGED now, NEW u \in Users, NEW org \in Orgs \cup {NoRow},
           NEW mode \in Single \cup {"role", "permissions"}, NEW left \in SUBSET Perms,
           NEW x \in Perms \cup {NoRow}, mode \in Single => x \in Perms,
           NEW w, w = Check(u, org, mode, left, x)
    PROVE  Sound(w)'
<1>1. PICK step : step = IF mode \in {"role", "permissions"} THEN "direct" ELSE "cache"
  OBVIOUS
<1>2. w = [op |-> "check", user |-> u, org |-> org, mode |-> mode, left |-> left, perm |-> x,
           step |-> step, ids |-> {}, up |-> {}, names |-> {}, perms |-> {}, began |-> now]
  BY <1>1 DEF Check
<1>3. step \in {"cache", "direct"} /\ now \in Nat /\ (step = "cache" => mode \in Single)
  BY <1>1 DEF ClockType
<1>4. w \in CheckRecords
  BY <1>2, <1>3 DEF CheckRecords
<1> QED
  BY <1>2, <1>3, <1>4 DEF Sound, Evidence

LEMMA IdleSound == ASSUME NEW w, w = Idle PROVE Sound(w)'
BY DEF Sound, Idle

\* A result is delivered, and the middleware's loop may go on.
LEMMA DeliverSound ==
    ASSUME StaleInv, History, UNCHANGED now, NEW p \in Procs \cup Admins, Evidence(work[p]),
           work[p].mode \in Single, NEW allowed, Deliver(p, allowed)
    PROVE  \E w : work' = [work EXCEPT ![p] = w] /\ Sound(w)'
<1>1. PICK w : w = work[p]
  OBVIOUS
<1>2. w \in CheckRecords /\ w.mode \in Single
  BY <1>1 DEF Evidence
<1>3. CASE work' = [work EXCEPT ![p] = Idle]
  BY <1>3, IdleSound
<1>4. CASE \E x \in w.left :
             work' = [work EXCEPT ![p] = Check(w.user, w.org, w.mode, w.left \ {x}, x)]
  <2>1. PICK x \in w.left :
               work' = [work EXCEPT ![p] = Check(w.user, w.org, w.mode, w.left \ {x}, x)]
    BY <1>4
  <2>2. PICK v : v = Check(w.user, w.org, w.mode, w.left \ {x}, x)
    OBVIOUS
  <2>3. /\ w.user \in Users /\ w.org \in Orgs \cup {NoRow} /\ w.left \ {x} \in SUBSET Perms
        /\ x \in Perms
    BY <1>2 DEF CheckRecords
  <2>4. Sound(v)'
    BY <1>2, <2>2, <2>3, CheckBegins DEF StaleInv
  <2> QED
    BY <2>1, <2>2, <2>4
<1> QED
  BY <1>1, <1>3, <1>4 DEF Deliver, Finish

LEMMA AbortSound ==
    ASSUME StaleInv, History, UNCHANGED now, NEW p \in Procs \cup Admins, Evidence(work[p]), Abort(p)
    PROVE  \E w : work' = [work EXCEPT ![p] = w] /\ Sound(w)'
<1>1. CASE work' = [work EXCEPT ![p] = Idle]
  BY <1>1, IdleSound
<1>2. CASE work[p].mode = "any" /\ Deliver(p, FALSE)
  BY <1>2, DeliverSound DEF Single
<1> QED
  BY <1>1, <1>2 DEF Abort, Finish

\* What the rows of existing roles add to a check is evidence, for a user who
\* is linked to a role.
LEMMA CollectSound ==
    ASSUME StaleInv, History, UNCHANGED now, NEW w, Evidence(w),
           NEW rs \in SUBSET RoleIds, \A r \in rs : roles[r] # NoRow,
           rs # {} => Linked(w.user) \/ linkedAt[w.user] >= w.began,
           NEW v, v = Collect(w, {roles[r] : r \in rs})
    PROVE  Evidence(v)' /\ v.ids = w.ids
<1>1. \A r \in rs : roles[r] \in RoleRows
  BY DEF StaleInv, TablesType
<1>2. PICK P : P = w.perms \cup UNION {r.perms : r \in {roles[r] : r \in rs}}
  OBVIOUS
<1>3. PICK N : N = IF w.mode = "role" THEN w.names \cup {r.name : r \in {roles[r] : r \in rs}} ELSE w.names
  OBVIOUS
<1>4. PICK U : U = w.up \cup ({r.parent : r \in {roles[r] : r \in rs}} \ {NoRow})
  OBVIOUS
<1>5. w \in CheckRecords
  BY DEF Evidence
<1>6. v = [w EXCEPT !.perms = P, !.names = N, !.up = U]
  BY <1>2, <1>3, <1>4, <1>5 DEF Collect, CheckRecords
<1>7. \A x \in P : x \in w.perms \/ \E r \in rs : x \in roles[r].perms
  BY <1>2
<1>8. P \in SUBSET Perms
  BY <1>1, <1>5, <1>7 DEF CheckRecords, RoleRows
<1>9. N \in SUBSET (Names \cup {"org_admin"})
  BY <1>1, <1>3, <1>5 DEF CheckRecords, RoleRows
<1>10. U \in SUBSET RoleIds
  BY <1>1, <1>4, <1>5 DEF CheckRecords, RoleRows
<1>11. /\ v \in CheckRecords /\ v.perms = P /\ v.up = U /\ v.ids = w.ids /\ v.user = w.user
       /\ v.began = w.began /\ v.mode = w.mode /\ v.perm = w.perm /\ v.step = w.step
  BY <1>5, <1>6, <1>8, <1>9, <1>10 DEF CheckRecords
<1>12. w.user \in Users /\ w.began \in Nat /\ now \in Nat
  BY <1>5 DEF CheckRecords, StaleInv, ClockType
<1>13. P # {} \/ w.ids # {} \/ U # {} => linkedAt'[w.user] >= w.began
  <2>1. CASE rs = {}
    <3>1. P = w.perms /\ U = w.up
      BY <1>2, <1>4, <2>1
    <3> QED
      BY <1>12, <3>1, HistoryGrows DEF Evidence, StaleInv, ClockType
  <2>2. CASE rs # {}
    BY <1>12, <2>2, HistoryGrows DEF Evidence, StaleInv, ClockType
  <2> QED
    BY <2>1, <2>2
<1>14. ASSUME NEW x \in P PROVE carriedAt'[x] >= w.began
  <2>1. x \in Perms
    BY <1>8
  <2>2. /\ now' \in Nat /\ now' >= now /\ ClockType
        /\ carriedAt[x] \in Nat /\ carriedAt'[x] \in Nat
    BY <1>12, <2>1, HistoryGrows DEF StaleInv, ClockType
  <2>3. CASE x \in w.perms
    <3>1. carriedAt[x] >= w.began /\ carriedAt'[x] >= carriedAt[x]
      BY <2>1, <2>2, <2>3, HistoryGrows DEF Evidence
    <3> QED
      BY <1>12, <2>2, <3>1
  <2>4. CASE \E r \in rs : x \in roles[r].perms
    <3>1. Carried(x)
      BY <2>4 DEF Carried
    <3>2. carriedAt'[x] >= now /\ w.began <= now
      BY <2>1, <2>2, <3>1, HistoryGrows DEF Evidence
    <3> QED
      BY <1>12, <2>2, <3>2
  <2> QED
    BY <1>7, <2>3, <2>4
<1>15. w.began <= now /\ (w.mode \in Single => w.perm \in Perms) /\ (w.step = "cache" => w.mode \in Single)
  BY DEF Evidence
<1> QED
  BY <1>11, <1>12, <1>13, <1>14, <1>15 DEF Evidence

\* Moving on to another step of the check, with roles to read for a user who
\* is linked to them.
LEMMA StepSound ==
    ASSUME StaleInv, History, UNCHANGED now, NEW w, Evidence(w),
           NEW step \in {"direct", "team", "rows", "parents"}, NEW ids \in SUBSET RoleIds,
           ids # {} => Linked(w.user) \/ linkedAt[w.user] >= w.began,
           NEW v, v = [w EXCEPT !.step = step, !.ids = ids]
    PROVE  Evidence(v)'
<1>1. w \in CheckRecords
  BY DEF Evidence
<1>2. /\ v \in CheckRecords /\ v.perms = w.perms /\ v.up = w.up /\ v.ids = ids /\ v.user = w.user
      /\ v.began = w.began /\ v.mode = w.mode /\ v.perm = w.perm /\ v.step = step
  BY <1>1 DEF CheckRecords
<1>3. /\ w.user \in Users /\ w.began \in Nat /\ now \in Nat /\ now' >= now /\ ClockType
      /\ w.perms \subseteq Perms
  BY <1>1 DEF CheckRecords, StaleInv, ClockType
<1>4. Sound(w)'
  BY <1>3, EvidenceStays DEF StaleInv, Sound
<1>5. Evidence(w)'
  BY <1>1, <1>4 DEF Sound, CheckRecords
<1>6. v.perms # {} \/ v.ids # {} \/ v.up # {} => linkedAt'[v.user] >= v.began
  BY <1>2, <1>3, <1>5, HistoryGrows DEF Evidence, ClockType
<1> QED
  BY <1>2, <1>5, <1>6 DEF Evidence

LEMMA NoVerdict == ASSUME verdict' = NoRow PROVE StaleBounded'
BY DEF StaleBounded

LEMMA StaleCached ==
    ASSUME StaleInv, History, NEW p \in Procs \cup Admins, getCachedPermission(p)
    PROVE  StaleInv'
<1>1. PICK w : w = work[p]
  OBVIOUS
<1>2. At(p, "cache") /\ Keep /\ UNCHANGED now
  BY DEF getCachedPermission, Keep
<1>3. Evidence(w) /\ w.mode \in Single /\ w \in CheckRecords /\ w.user \in Users /\ w.perm \in Perms
  BY <1>1, <1>2 DEF At, StaleInv, WorkSound, Sound, Evidence, CheckRecords
<1>4. PICK e : e = cache[<<w.user, w.perm>>]
  OBVIOUS
<1>5. CASE Fresh(e)
  <2>1. /\ Deliver(p, e.allowed)
        /\ verdict' = [user |-> w.user, perm |-> w.perm, allowed |-> e.allowed,
                       began |-> e.began, age |-> now + TTL - e.expires]
    BY <1>1, <1>4, <1>5 DEF getCachedPermission
  <2>2. PICK v : work' = [work EXCEPT ![p] = v] /\ Sound(v)'
    BY <1>1, <1>2, <1>3, <2>1, DeliverSound
  <2>3. Backed(w.user, w.perm, e) /\ e.expires > now
    BY <1>3, <1>4, <1>5 DEF Fresh, StaleInv, CacheBacked
  <2>4. Backed(w.user, w.perm, e)'
    BY <1>2, <1>3, <2>3, BackedStays DEF StaleInv, ClockType
  <2>5. now + TTL - e.expires < TTL
    BY <2>3, RbacAssumption DEF Backed, CacheRecords, StaleInv, ClockType
  <2>6. StaleBounded'
    BY <2>1, <2>4, <2>5 DEF StaleBounded, Backed
  <2> QED
    BY <1>2, <2>2, <2>6, StaleTurns
<1>6. CASE ~Fresh(e)
  <2>1. work' = [work EXCEPT ![p].step = "direct"] /\ verdict' = NoRow
    BY <1>1, <1>4, <1>6 DEF getCachedPermission
  <2>2. PICK v : v = [w EXCEPT !.step = "direct", !.ids = w.ids]
    OBVIOUS
  <2>3. work' = [work EXCEPT ![p] = v]
    BY <1>1, <1>3, <2>1, <2>2 DEF CheckRecords
  <2>4. /\ w.ids \in SUBSET RoleIds
        /\ w.ids # {} => Linked(w.user) \/ linkedAt[w.user] >= w.began
    BY <1>3 DEF Evidence, CheckRecords
  <2>5. Evidence(v)'
    BY <1>2, <1>3, <2>2, <2>4, StepSound
  <2> QED
    BY <1>2, <2>1, <2>3, <2>5, NoVerdict, StaleTurns DEF Sound
<1> QED
  BY <1>5, <1>6

LEMMA StaleDirect ==
    ASSUME StaleInv, History, NEW p \in Procs \cup Admins, DirectRoles(p)
    PROVE  StaleInv'
<1>1. PICK w : w = work[p]
  OBVIOUS
<1>2. At(p, "direct") /\ Keep /\ UNCHANGED now /\ verdict' = NoRow
  BY DEF DirectRoles, Keep
<1>3. Evidence(w) /\ w \in CheckRecords
  BY <1>1, <1>2 DEF At, StaleInv, WorkSound, Sound, Evidence
<1>4. PICK ids : ids = {g.role : g \in GetUserRoles(w.user, w.org)}
  OBVIOUS
<1>5. PICK v : v = [w EXCEPT !.step = "team", !.ids = ids]
  OBVIOUS
<1>6. work' = [work EXCEPT ![p] = v]
  BY <1>1, <1>4, <1>5 DEF DirectRoles
<1>7. ids \in SUBSET RoleIds
  BY <1>4 DEF GetUserRoles, StaleInv, TablesType
<1>8. ids # {} => Linked(w.user)
  BY <1>4 DEF GetUserRoles, Linked
<1>9. Evidence(v)'
  BY <1>2, <1>3, <1>5, <1>7, <1>8, StepSound
<1> QED
  BY <1>2, <1>6, <1>9, NoVerdict, StaleTurns DEF Sound

LEMMA StaleTeam ==
    ASSUME StaleInv, History, NEW p \in Procs \cup Admins, TeamRoles(p)
    PROVE  StaleInv'
<1>1. PICK w : w = work[p]
  OBVIOUS
<1>2. At(p, "team") /\ Keep /\ UNCHANGED now /\ verdict' = NoRow
  BY DEF TeamRoles, Keep
<1>3. Evidence(w) /\ w \in CheckRecords
  BY <1>1, <1>2 DEF At, StaleInv, WorkSound, Sound, Evidence
<1>4. PICK team : team = getUserTeamRoles(w.user, w.org)
  OBVIOUS
<1>5. /\ team \in SUBSET RoleIds /\ (team # {} => Linked(w.user)) /\ \A r \in team : roles[r] # NoRow
  BY <1>4 DEF getUserTeamRoles, Linked, StaleInv, TablesType
<1>6. PICK u : u = [w EXCEPT !.step = "rows", !.ids = w.ids \ team]
  OBVIOUS
<1>7. PICK v : v = Collect(w, {roles[r] : r \in team})
  OBVIOUS
<1>8. PICK z : z = [v EXCEPT !.step = "rows", !.ids = w.ids \ team]
  OBVIOUS
<1>9. work' = [work EXCEPT ![p] = z]
  BY <1>1, <1>4, <1>7, <1>8 DEF TeamRoles
<1>10. Evidence(v)' /\ v.ids = w.ids
  BY <1>2, <1>3, <1>5, <1>7, CollectSound
<1>11. /\ v \in CheckRecords /\ z \in CheckRecords /\ z.perms = v.perms /\ z.up = v.up
       /\ z.ids = w.ids \ team /\ v.ids = w.ids /\ z.user = v.user /\ z.began = v.began /\ z.mode = v.mode
       /\ z.perm = v.perm /\ z.step = "rows"
  BY <1>3, <1>8, <1>10 DEF Evidence, CheckRecords
<1>12. Evidence(z)'
  BY <1>10, <1>11 DEF Evidence
<1> QED
  BY <1>2, <1>9, <1>12, NoVerdict, StaleTurns DEF Sound

LEMMA StaleCombine ==
    ASSUME StaleInv, History, NEW p \in Procs \cup Admins, CombineRoles(p)
    PROVE  StaleInv'
<1>1. PICK w : w = work[p]
  OBVIOUS
<1>2. At(p, "rows") /\ Keep /\ UNCHANGED now /\ verdict' = NoRow
  BY DEF CombineRoles, Keep
<1>3. Evidence(w) /\ w \in CheckRecords
  BY <1>1, <1>2 DEF At, StaleInv, WorkSound, Sound, Evidence
<1>4. CASE work' = [work EXCEPT ![p].step = "parents"]
  <2>1. PICK v : v = [w EXCEPT !.step = "parents", !.ids = w.ids]
    OBVIOUS
  <2>2. work' = [work EXCEPT ![p] = v]
    BY <1>1, <1>3, <1>4, <2>1 DEF CheckRecords
  <2>3. /\ w.ids \in SUBSET RoleIds
        /\ w.ids # {} => Linked(w.user) \/ linkedAt[w.user] >= w.began
    BY <1>3 DEF Evidence, CheckRecords
  <2>4. Evidence(v)'
    BY <1>2, <1>3, <2>1, <2>3, StepSound
  <2> QED
    BY <1>2, <2>2, <2>4, NoVerdict, StaleTurns DEF Sound
<1>5. ASSUME NEW id \in w.ids,
             work' = [work EXCEPT ![p] = [Collect(w, {GetRole(id)} \ {NoRow}) EXCEPT !.ids = w.ids \ {id}]]
      PROVE  StaleInv'
  <2>1. PICK rs : rs = {r \in {id} : roles[r] # NoRow}
    OBVIOUS
  <2>2. {GetRole(id)} \ {NoRow} = {roles[r] : r \in rs}
    BY <2>1 DEF GetRole
  <2>3. rs \in SUBSET RoleIds /\ (\A r \in rs : roles[r] # NoRow) /\ linkedAt[w.user] >= w.began
    BY <1>3, <2>1 DEF Evidence, CheckRecords
  <2>4. PICK v : v = Collect(w, {roles[r] : r \in rs})
    OBVIOUS
  <2>5. Evidence(v)' /\ v.ids = w.ids
    BY <1>2, <1>3, <2>3, <2>4, CollectSound
  <2>6. PICK z : z = [v EXCEPT !.ids = w.ids \ {id}]
    OBVIOUS
  <2>7. work' = [work EXCEPT ![p] = z]
    BY <1>1, <1>5, <2>2, <2>4, <2>6, Zenon
  <2>8. /\ v \in CheckRecords /\ z \in CheckRecords /\ z.perms = v.perms /\ z.up = v.up
        /\ z.ids = w.ids \ {id} /\ v.ids = w.ids /\ z.user = v.user /\ z.began = v.began /\ z.mode = v.mode
        /\ z.perm = v.perm /\ z.step = v.step
    BY <1>3, <2>5, <2>6 DEF Evidence, CheckRecords
  <2>9. Evidence(z)'
    BY <2>5, <2>8 DEF Evidence
  <2> QED
    BY <1>2, <2>7, <2>9, NoVerdict, StaleTurns DEF Sound
<1> QED
  BY <1>1, <1>4, <1>5 DEF CombineRoles

LEMMA StaleParents ==
    ASSUME StaleInv, History, NEW p \in Procs \cup Admins, resolveRoleInheritance(p)
    PROVE  StaleInv'
<1>1. PICK w : w = work[p]
  OBVIOUS
<1>2. At(p, "parents") /\ Keep /\ UNCHANGED now /\ verdict' = NoRow
  BY DEF resolveRoleInheritance, Keep
<1>3. Evidence(w) /\ w \in CheckRecords
  BY <1>1, <1>2 DEF At, StaleInv, WorkSound, Sound, Evidence
<1>4. CASE Abort(p)
  <2>1. PICK v : work' = [work EXCEPT ![p] = v] /\ Sound(v)'
    BY <1>1, <1>2, <1>3, <1>4, AbortSound
  <2> QED
    BY <1>2, <2>1, NoVerdict, StaleTurns
<1>5. ASSUME NEW id \in w.up, GetRole(id) # NoRow,
             work' = [work EXCEPT ![p] = Collect([w EXCEPT !.up = w.up \ {id}], {GetRole(id)})]
      PROVE  StaleInv'
  <2>1. PICK rs : rs = {id}
    OBVIOUS
  <2>2. {GetRole(id)} = {roles[r] : r \in rs}
    BY <2>1 DEF GetRole
  <2>3. PICK y : y = [w EXCEPT !.up = w.up \ {id}]
    OBVIOUS
  <2>4. /\ y \in CheckRecords /\ y.perms = w.perms /\ y.up = w.up \ {id}
        /\ y.ids = w.ids /\ y.user = w.user /\ y.began = w.began /\ y.mode = w.mode
        /\ y.perm = w.perm /\ y.step = w.step
    BY <1>3, <2>3 DEF CheckRecords
  <2>5. Evidence(y)
    BY <1>3, <2>4 DEF Evidence
  <2>6. rs \in SUBSET RoleIds /\ (\A r \in rs : roles[r] # NoRow) /\ linkedAt[y.user] >= y.began
    BY <1>3, <1>5, <2>1, <2>4 DEF Evidence, CheckRecords, GetRole
  <2>7. PICK v : v = Collect(y, {roles[r] : r \in rs})
    OBVIOUS
  <2>8. Evidence(v)'
    BY <1>2, <2>5, <2>6, <2>7, CollectSound
  <2>9. work' = [work EXCEPT ![p] = v]
    BY <1>1, <1>5, <2>2, <2>3, <2>7, Zenon
  <2> QED
    BY <1>2, <2>8, <2>9, NoVerdict, StaleTurns DEF Sound
<1> QED
  BY <1>1, <1>4, <1>5 DEF resolveRoleInheritance

\* The result of a check, which goes to the cache with the time it began.
LEMMA StaleChecked ==
    ASSUME StaleInv, History, NEW p \in Procs \cup Admins, CheckPermission(p)
    PROVE  StaleInv'
<1>1. PICK w : w = work[p]
  OBVIOUS
<1>2. PICK allowed \in BOOLEAN : allowed = (roleHasPermission(w) /\ roleScopeMatches(w))
  BY DEF roleHasPermission, roleScopeMatches
<1>3. /\ At(p, "parents") /\ w.mode \in Single /\ UNCHANGED tables /\ UNCHANGED now
      /\ cachePermissionResult(w, allowed) /\ Deliver(p, allowed)
      /\ verdict' = [user |-> w.user, perm |-> w.perm, allowed |-> allowed,
                     began |-> w.began, age |-> 0]
  BY <1>1, <1>2 DEF CheckPermission, Single
<1>4. Evidence(w) /\ w \in CheckRecords /\ w.user \in Users /\ w.perm \in Perms /\ w.began \in Nat
  BY <1>1, <1>3 DEF At, StaleInv, WorkSound, Sound, Evidence, CheckRecords
<1>5. now \in Nat /\ now' \in Nat /\ now' >= now /\ ClockType
  BY <1>3 DEF StaleInv, ClockType
<1>6. Evidence(w)'
  BY <1>3, <1>4, <1>5, EvidenceStays DEF Sound, At, CheckRecords
<1>7. allowed => linkedAt'[w.user] >= w.began /\ carriedAt'[w.perm] >= w.began
  BY <1>2, <1>6 DEF Evidence, roleHasPermission
<1>8. StaleBounded'
  BY <1>3, <1>7, RbacAssumption DEF StaleBounded
<1>9. PICK v : work' = [work EXCEPT ![p] = v] /\ Sound(v)'
  BY <1>1, <1>3, <1>4, DeliverSound
<1>10. PICK e : e = [allowed |-> allowed, expires |-> now + TTL, began |-> w.began]
  OBVIOUS
<1>11. Backed(w.user, w.perm, e)'
  BY <1>4, <1>5, <1>7, <1>10, RbacAssumption DEF Backed, CacheRecords
<1>12. cache' = [cache EXCEPT ![<<w.user, w.perm>>] = e] /\ cache = [k \in Users \X Perms |-> cache[k]]
  BY <1>3, <1>10 DEF cachePermissionResult, StaleInv, CacheBacked
<1>13. cache' = [k \in Users \X Perms |-> cache'[k]]
  BY <1>12
<1>14. ASSUME NEW u \in Users, NEW x \in Perms
       PROVE  \/ cache'[<<u, x>>] = cache[<<u, x>>]
              \/ Backed(u, x, cache[<<u, x>>])'
  <2>1. CASE u = w.user /\ x = w.perm
    <3>1. cache'[<<u, x>>] = e
      BY <1>12, <2>1
    <3> QED
      BY <1>11, <2>1, <3>1 DEF Backed
  <2>2. CASE ~(u = w.user /\ x = w.perm)
    BY <1>12, <2>2
  <2> QED
    BY <2>1, <2>2
<1>15. TablesType'
  BY <1>3, UnchangedTables DEF StaleInv
<1> QED
  BY <1>5, <1>8, <1>9, <1>13, <1>14, <1>15, StaleMoves

\* Steps of requests that end or begin no check: the goroutine is idle after
\* or as it was before.
LEMMA StaleQuiet ==
    ASSUME StaleInv, History, Keep, verdict' = NoRow, NEW p \in Procs \cup Admins,
           Finish(p) \/ UNCHANGED work
    PROVE  StaleInv'
<1>1. CASE Finish(p)
  <2>1. PICK w : w = Idle
    OBVIOUS
  <2>2. work' = [work EXCEPT ![p] = w]
    BY <1>1, <2>1 DEF Finish
  <2> QED
    BY <2>1, <2>2, IdleSound, NoVerdict, StaleTurns
<1>2. CASE UNCHANGED work
  <2>1. PICK w : w = work[p]
    OBVIOUS
  <2>2. work' = [work EXCEPT ![p] = w] /\ Sound(w)
    BY <1>2, <2>1 DEF StaleInv, WorkSound
  <2>3. Sound(w)'
    BY <2>2, EvidenceStays DEF Keep, StaleInv, ClockType
  <2> QED
    BY <2>2, <2>3, NoVerdict, StaleTurns
<1> QED
  BY <1>1, <1>2

LEMMA StaleRequire ==
    ASSUME StaleInv, History, NEW p \in Procs \cup Admins,
           NEW mode \in Single \cup {"role", "permissions"}, NEW left \in SUBSET Perms,
           NEW x \in Perms \cup {NoRow}, mode \in Single => x \in Perms, Require(p, mode, left, x)
    PROVE  StaleInv'
<1>1. PICK u \in Users, org \in Orgs \cup {NoRow} : Begin(p, Check(u, org, mode, left, x))
  BY DEF Require
<1>2. PICK w : w = Check(u, org, mode, left, x)
  OBVIOUS
<1>3. work' = [work EXCEPT ![p] = w] /\ Keep /\ verdict' = NoRow /\ UNCHANGED now
  BY <1>1, <1>2 DEF Begin, Require, Keep
<1>4. Sound(w)'
  BY <1>2, <1>3, CheckBegins DEF StaleInv
<1> QED
  BY <1>3, <1>4, NoVerdict, StaleTurns

LEMMA StaleCheckStep ==
    ASSUME StaleInv, History, NEW p \in Procs \cup Admins, CheckStep(p)
    PROVE  StaleInv'
<1>1. CASE GetEffectivePermissions(p)
  BY <1>1, StaleQuiet DEF GetEffectivePermissions
<1>2. CASE RoleCheck(p)
  BY <1>2, StaleQuiet DEF RoleCheck
<1> QED
  BY <1>1, <1>2, StaleCached, StaleDirect, StaleTeam, StaleCombine, StaleParents, StaleChecked
  DEF CheckStep

LEMMA StaleRequirements ==
    ASSUME StaleInv, History, NEW p \in Procs \cup Admins,
           RequirePermission(p) \/ Requirements(p)
    PROVE  StaleInv'
<1>1. CASE RequirePermission(p)
  BY <1>1, StaleRequire DEF RequirePermission, Single
<1>2. CASE RequireAnyPermission(p)
  BY <1>2, StaleRequire DEF RequireAnyPermission, Single
<1>3. CASE RequireAllPermissions(p)
  BY <1>3, StaleRequire DEF RequireAllPermissions, Single
<1>4. CASE RequireRole(p)
  BY <1>4, StaleRequire DEF RequireRole, Single
<1>5. CASE HandleGetUserPermissions(p)
  BY <1>5, StaleRequire DEF HandleGetUserPermissions, Single
<1>6. CASE verdict' = NoRow /\ Keep /\ UNCHANGED work
  BY <1>6, StaleQuiet
<1> QED
  BY <1>1, <1>2, <1>3, <1>4, <1>5, <1>6
  DEF Requirements, RequireModulePermission, Unauthenticated

LEMMA StaleReads ==
    ASSUME StaleInv, History, NEW p \in Procs \cup Admins, RoleReads(p)
    PROVE  StaleInv'
<1>1. Reads(p)
  BY DEF RoleReads, HandleListRoles, HandleGetRole, HandleGetUserRoles, HandleListTeams,
         HandleGetTeam, HandleGetTeamMembers, HandleGetRoleTemplates, GetStats
<1> QED
  BY <1>1, StaleQuiet DEF Reads

\* Steps that only drop entries of the cache.
LEMMA StaleDrops ==
    ASSUME StaleInv, History, NEW p \in Procs \cup Admins, UNCHANGED tables, UNCHANGED now,
           verdict' = NoRow, NEW w, work' = [work EXCEPT ![p] = w], Sound(w)',
           cache' = [k \in Users \X Perms |-> cache'[k]],
           \A k \in Users \X Perms : cache'[k] \in {NoRow, cache[k]}
    PROVE  StaleInv'
<1>1. TablesType'
  BY UnchangedTables DEF StaleInv
<1>2. now' \in Nat /\ now' >= now
  BY DEF StaleInv, ClockType
<1>3. \A u \in Users, x \in Perms : cache'[<<u, x>>] \in {NoRow, cache[<<u, x>>]}
  OBVIOUS
<1> QED
  BY <1>1, <1>2, <1>3, NoVerdict, StaleMoves

LEMMA ThenSound ==
    ASSUME NEW p \in Procs \cup Admins, NEW S, Then(p, S)
    PROVE  \E w : work' = [work EXCEPT ![p] = w] /\ Sound(w)'
<1>1. PICK w : w = IF S = {} THEN Idle ELSE [op |-> "invalidate", users |-> S]
  OBVIOUS
<1>2. w.op \in {"idle", "invalidate"}
  BY <1>1 DEF Idle
<1> QED
  BY <1>1, <1>2 DEF Then, Sound

LEMMA StaleInvalidate ==
    ASSUME StaleInv, History, NEW p \in Procs \cup Admins, InvalidateCache(p)
    PROVE  StaleInv'
<1>1. PICK u \in work[p].users :
          /\ cache' = [k \in Users \X Perms |-> IF k[1] = u THEN NoRow ELSE cache[k]]
          /\ Then(p, work[p].users \ {u})
  BY DEF InvalidateCache
<1>2. PICK w : work' = [work EXCEPT ![p] = w] /\ Sound(w)'
  BY <1>1, ThenSound
<1>3. \A k \in Users \X Perms : cache'[k] \in {NoRow, cache[k]}
  BY <1>1
<1>4. cache' = [k \in Users \X Perms |-> cache'[k]]
  BY <1>1
<1>5. UNCHANGED tables /\ UNCHANGED now /\ verdict' = NoRow
  BY DEF InvalidateCache
<1> QED
  BY <1>2, <1>3, <1>4, <1>5, StaleDrops

LEMMA StaleCleanup ==
    ASSUME StaleInv, History, NEW p \in Procs \cup Admins, CleanupExpiredPermissions(p)
    PROVE  StaleInv'
<1>1. cache' = [k \in Users \X Perms |-> IF Fresh(cache[k]) THEN cache[k] ELSE NoRow]
  BY DEF CleanupExpiredPermissions
<1>2. /\ UNCHANGED tables /\ UNCHANGED now /\ UNCHANGED work /\ verdict' = NoRow
      /\ work[p] = Idle
  BY DEF CleanupExpiredPermissions
<1>3. PICK w : w = work[p]
  OBVIOUS
<1>4. work' = [work EXCEPT ![p] = w] /\ Sound(w)'
  BY <1>2, <1>3, IdleSound DEF StaleInv, WorkSound
<1>5. cache' = [k \in Users \X Perms |-> cache'[k]]
  BY <1>1
<1>6. \A k \in Users \X Perms : cache'[k] \in {NoRow, cache[k]}
  BY <1>1
<1> QED
  BY <1>2, <1>4, <1>5, <1>6, StaleDrops

\* A statement of an administrator leaves the cache to a later one.
LEMMA StaleChanges ==
    ASSUME StaleInv, History, NEW p \in Procs \cup Admins, Change(p), \E S : Then(p, S), TablesType'
    PROVE  StaleInv'
<1>1. PICK w : work' = [work EXCEPT ![p] = w] /\ Sound(w)'
  BY ThenSound
<1>2. UNCHANGED cache /\ UNCHANGED now /\ verdict' = NoRow
  BY DEF Change
<1>3. now' \in Nat /\ now' >= now /\ cache' = [k \in Users \X Perms |-> cache'[k]]
  BY <1>2 DEF StaleInv, ClockType, CacheBacked
<1> QED
  BY <1>1, <1>2, <1>3, NoVerdict, StaleMoves

\* The statements keep the tables well-formed: a team has no role that does not exist.
LEMMA RolesKept ==
    ASSUME TablesType, NEW id \in RoleIds,
           \/ \E row \in RoleRows : CreateRole(id, row)
           \/ \E perms \in SUBSET Perms, parent \in RoleIds \cup {NoRow} :
                GetRole(id) # NoRow /\ UpdateRole(id, perms, parent)
           \/ DeleteRole(id)
    PROVE  TablesType'
<1>1. CASE \E row \in RoleRows : CreateRole(id, row)
  <2>1. PICK row \in RoleRows : CreateRole(id, row)
    BY <1>1
  <2>2. UNCHANGED <<grants, teamRoles>> /\ roles[id] = NoRow /\ roles' = [roles EXCEPT ![id] = row]
    BY <2>1 DEF CreateRole
  <2> QED
    BY <2>2 DEF TablesType
<1>2. CASE \E perms \in SUBSET Perms, parent \in RoleIds \cup {NoRow} :
             GetRole(id) # NoRow /\ UpdateRole(id, perms, parent)
  <2>1. PICK perms \in SUBSET Perms, parent \in RoleIds \cup {NoRow} :
             GetRole(id) # NoRow /\ UpdateRole(id, perms, parent)
    BY <1>2
  <2>2. PICK row : row = [roles[id] EXCEPT !.perms = perms, !.parent = parent]
    OBVIOUS
  <2>3. /\ UNCHANGED <<grants, teamRoles>> /\ roles[id] \in RoleRows
        /\ roles' = [roles EXCEPT ![id] = row]
    BY <2>1, <2>2 DEF UpdateRole, GetRole, TablesType
  <2>4. row \in RoleRows
    BY <2>2, <2>3 DEF RoleRows
  <2> QED
    BY <2>3, <2>4, RbacAssumption DEF TablesType
<1>3. CASE DeleteRole(id)
  <2>1. \A r \in RoleIds \ {id} : IF roles[r] = NoRow THEN roles'[r] = NoRow ELSE roles'[r] \in RoleRows
    <3> SUFFICES ASSUME NEW r \in RoleIds \ {id}
                 PROVE  IF roles[r] = NoRow THEN roles'[r] = NoRow ELSE roles'[r] \in RoleRows
      OBVIOUS
    <3>1. CASE roles[r] = NoRow
      BY <1>3, <3>1 DEF DeleteRole
    <3>2. CASE roles[r] # NoRow
      <4>1. PICK parent : parent = IF roles[r].parent = id THEN NoRow ELSE roles[r].parent
        OBVIOUS
      <4>2. roles'[r] = [roles[r] EXCEPT !.parent = parent] /\ roles[r] \in RoleRows
        BY <1>3, <3>2, <4>1 DEF DeleteRole, TablesType
      <4>3. parent \in RoleIds \cup {NoRow}
        BY <4>1, <4>2 DEF RoleRows
      <4> QED
        BY <3>2, <4>2, <4>3 DEF RoleRows
    <3> QED
      BY <3>1, <3>2
  <2>2. roles'[id] = NoRow /\ roles' = [r \in RoleIds |-> roles'[r]]
    BY <1>3 DEF DeleteRole
  <2>3. roles' \in [RoleIds -> RoleRows \cup {NoRow}]
    BY <2>1, <2>2
  <2>4. grants' \subseteq grants /\ teamRoles' = {tr \in teamRoles : tr[2] # id}
    BY <1>3 DEF DeleteRole
  <2>5. ASSUME NEW t \in Teams, NEW r \in RoleIds, <<t, r>> \in teamRoles' PROVE roles'[r] # NoRow
    <3>1. r # id /\ <<t, r>> \in teamRoles
      BY <2>4, <2>5
    <3> QED
      BY <2>1, <3>1, RbacAssumption DEF TablesType
  <2> QED
    BY <2>3, <2>4, <2>5 DEF TablesType
<1> QED
  BY <1>1, <1>2, <1>3

LEMMA AssignmentsKept ==
    ASSUME TablesType,
           \/ \E u, org, until : \E r \in RoleIds :
                AssignRoleToUser([user |-> u, role |-> r, org |-> org, until |-> until])
           \/ \E g \in grants : RevokeRoleFromUser(g)
           \/ \E t \in Teams : \/ \E org : CreateTeam(t, org)
                               \/ DeleteTeam(t)
                               \/ \E u : AddTeamMember(t, u) \/ RemoveTeamMember(t, u)
                               \/ \E r \in RoleIds : AssignRoleToTeam(t, r) \/ RevokeRoleFromTeam(t, r)
    PROVE  TablesType'
<1>1. CASE \E u, org, until : \E r \in RoleIds :
             AssignRoleToUser([user |-> u, role |-> r, org |-> org, until |-> until])
  <2>1. PICK u, org, until : \E r \in RoleIds :
             AssignRoleToUser([user |-> u, role |-> r, org |-> org, until |-> until])
    BY <1>1
  <2>2. PICK r \in RoleIds : AssignRoleToUser([user |-> u, role |-> r, org |-> org, until |-> until])
    BY <2>1
  <2>3. PICK g : g = [user |-> u, role |-> r, org |-> org, until |-> until]
    OBVIOUS
  <2>4. grants' = grants \cup {g} /\ UNCHANGED <<roles, teamRoles>> /\ g.role \in RoleIds
    BY <2>2, <2>3 DEF AssignRoleToUser
  <2> QED
    BY <2>4 DEF TablesType
<1>2. CASE \E g \in grants : RevokeRoleFromUser(g)
  BY <1>2 DEF RevokeRoleFromUser, TablesType
<1>3. ASSUME NEW t \in Teams, \E org : CreateTeam(t, org) PROVE TablesType'
  BY <1>3 DEF CreateTeam, TablesType
<1>4. ASSUME NEW t \in Teams, DeleteTeam(t) PROVE TablesType'
  <2>1. teamRoles' \subseteq teamRoles /\ UNCHANGED <<roles, grants>>
    BY <1>4 DEF DeleteTeam
  <2> QED
    BY <2>1 DEF TablesType
<1>5. ASSUME NEW t \in Teams, NEW u, AddTeamMember(t, u) \/ RemoveTeamMember(t, u) PROVE TablesType'
  BY <1>5 DEF AddTeamMember, RemoveTeamMember, TablesType
<1>6. ASSUME NEW t \in Teams, NEW r \in RoleIds, AssignRoleToTeam(t, r) \/ RevokeRoleFromTeam(t, r)
      PROVE  TablesType'
  <2>1. UNCHANGED <<roles, grants>>
    BY <1>6 DEF AssignRoleToTeam, RevokeRoleFromTeam
  <2>2. teamRoles' \subseteq teamRoles \cup {<<t, r>>} /\ (roles[r] # NoRow \/ teamRoles' \subseteq teamRoles)
    BY <1>6 DEF AssignRoleToTeam, RevokeRoleFromTeam
  <2> QED
    BY <2>1, <2>2 DEF TablesType
<1> QED
  BY <1>1, <1>2, <1>3, <1>4, <1>5, <1>6

LEMMA StaleAdministers ==
    ASSUME StaleInv, History, NEW p \in Procs \cup Admins, Administration(p)
    PROVE  StaleInv'
<1> USE DEF StaleInv
<1>1. CASE RejectedStatement(p)
  BY <1>1, StaleChanges, UnchangedTables DEF RejectedStatement
<1>2. CASE CreateCustomRole(p)
  <2>1. PICK id \in RoleIds, name \in Names, org \in Orgs \cup {NoRow}, perms \in SUBSET Perms,
             parent \in RoleIds \cup {NoRow} :
          CreateRole(id, [name |-> name, org |-> org, perms |-> perms,
                          parent |-> parent, builtin |-> FALSE])
    BY <1>2 DEF CreateCustomRole, HandleCreateRole
  <2>2. [name |-> name, org |-> org, perms |-> perms, parent |-> parent, builtin |-> FALSE] \in RoleRows
    BY DEF RoleRows
  <2>3. TablesType'
    BY <2>1, <2>2, RolesKept
  <2> QED
    BY <1>2, <2>3, StaleChanges DEF CreateCustomRole, HandleCreateRole
<1>3. CASE HandleUpdateRole(p)
  <2>1. PICK id \in RoleIds, perms \in SUBSET Perms, parent \in RoleIds \cup {NoRow} :
          UNCHANGED tables \/ (GetRole(id) # NoRow /\ UpdateRole(id, perms, parent))
    BY <1>3 DEF HandleUpdateRole
  <2>2. TablesType'
    BY <2>1, RolesKept, UnchangedTables
  <2> QED
    BY <1>3, <2>2, StaleChanges DEF HandleUpdateRole
<1>4. CASE HandleDeleteRole(p)
  <2>1. PICK id \in RoleIds : UNCHANGED tables \/ DeleteRole(id)
    BY <1>4 DEF HandleDeleteRole
  <2>2. TablesType'
    BY <2>1, RolesKept, UnchangedTables
  <2> QED
    BY <1>4, <2>2, StaleChanges DEF HandleDeleteRole
<1>5. CASE ManagerAssignRoleToUser(p)
  <2>1. TablesType'
    BY <1>5, AssignmentsKept DEF ManagerAssignRoleToUser, HandleAssignRoleToUser
  <2> QED
    BY <1>5, <2>1, StaleChanges DEF ManagerAssignRoleToUser, HandleAssignRoleToUser
<1>6. CASE HandleRevokeRoleFromUser(p)
  <2>1. TablesType'
    BY <1>6, AssignmentsKept DEF HandleRevokeRoleFromUser
  <2> QED
    BY <1>6, <2>1, StaleChanges DEF HandleRevokeRoleFromUser
<1>7. CASE ManagerCreateTeam(p)
  <2>1. TablesType'
    BY <1>7, AssignmentsKept DEF ManagerCreateTeam, HandleCreateTeam
  <2> QED
    BY <1>7, <2>1, StaleChanges DEF ManagerCreateTeam, HandleCreateTeam
<1>8. CASE HandleUpdateTeam(p)
  <2>1. TablesType'
    BY <1>8, UnchangedTables DEF HandleUpdateTeam, UpdateTeam
  <2> QED
    BY <1>8, <2>1, StaleChanges DEF HandleUpdateTeam
<1>9. CASE HandleDeleteTeam(p)
  <2>1. TablesType'
    BY <1>9, AssignmentsKept DEF HandleDeleteTeam
  <2> QED
    BY <1>9, <2>1, StaleChanges DEF HandleDeleteTeam
<1>10. CASE HandleAddTeamMember(p) \/ ManagerAddTeamMember(p) \/ HandleRemoveTeamMember(p)
  <2>1. TablesType'
    BY <1>10, AssignmentsKept DEF HandleAddTeamMember, ManagerAddTeamMember, HandleRemoveTeamMember
  <2> QED
    BY <1>10, <2>1, StaleChanges
    DEF HandleAddTeamMember, ManagerAddTeamMember, HandleRemoveTeamMember
<1>11. CASE HandleAssignRoleToTeam(p) \/ ManagerAssignRoleToTeam(p) \/ HandleRevokeRoleFromTeam(p)
  <2>1. TablesType'
    BY <1>11, AssignmentsKept
    DEF HandleAssignRoleToTeam, ManagerAssignRoleToTeam, HandleRevokeRoleFromTeam
  <2> QED
    BY <1>11, <2>1, StaleChanges
    DEF HandleAssignRoleToTeam, ManagerAssignRoleToTeam, HandleRevokeRoleFromTeam
<1>12. CASE BootstrapOrganization(p) \/ BootstrapModule(p)
  <2>1. PICK name \in {"org_admin", "module_owner"}, u \in Users, org \in Orgs \cup {NoRow} :
          \E r \in GetRoleByName(name, org) :
             AssignRoleToUser([user |-> u, role |-> r, org |-> org, until |-> NoRow])
    BY <1>12 DEF BootstrapOrganization, BootstrapModule
  <2>2. GetRoleByName(name, org) \subseteq RoleIds
    BY DEF GetRoleByName
  <2>3. TablesType'
    BY <2>1, <2>2, AssignmentsKept
  <2> QED
    BY <1>12, <2>3, StaleChanges DEF BootstrapOrganization, BootstrapModule
<1> QED
  BY <1>1, <1>2, <1>3, <1>4, <1>5, <1>6, <1>7, <1>8, <1>9, <1>10, <1>11, <1>12, StaleInvalidate
  DEF Administration

LEMMA StaleTick ==
    ASSUME StaleInv, History, Tick
    PROVE  StaleInv'
<1>1. UNCHANGED tables /\ UNCHANGED cache /\ UNCHANGED work /\ now' = now + 1 /\ verdict' = NoRow
  BY DEF Tick
<1>2. now' \in Nat /\ now' >= now
  BY <1>1 DEF StaleInv, ClockType
<1>3. TablesType' /\ ClockType' /\ StaleBounded'
  BY <1>1, <1>2, UnchangedTables, HistoryGrows, NoVerdict DEF StaleInv
<1>4. CacheBacked'
  <2>1. ASSUME NEW u \in Users, NEW x \in Perms, cache'[<<u, x>>] # NoRow
        PROVE  Backed(u, x, cache[<<u, x>>])'
    <3>1. PICK e : e = cache[<<u, x>>]
      OBVIOUS
    <3>2. Backed(u, x, e)
      BY <1>1, <2>1, <3>1 DEF StaleInv, CacheBacked
    <3>3. Backed(u, x, e)'
      BY <1>2, <3>2, BackedStays DEF StaleInv
    <3> QED
      BY <1>1, <3>1, <3>3 DEF Backed
  <2> QED
    BY <1>1, <2>1 DEF StaleInv, CacheBacked
<1>5. WorkSound'
  <2>1. ASSUME NEW p \in Procs \cup Admins PROVE Sound(work[p])'
    <3>1. PICK w : w = work[p]
      OBVIOUS
    <3>2. Sound(w)
      BY <3>1 DEF StaleInv, WorkSound
    <3>3. Sound(w)'
      BY <1>2, <3>2, EvidenceStays DEF StaleInv
    <3> QED
      BY <1>1, <3>1, <3>3 DEF Sound
  <2> QED
    BY <1>1, <2>1 DEF StaleInv, WorkSound
<1> QED
  BY <1>3, <1>4, <1>5 DEF StaleInv

(* A revoked permission is granted no longer than the TTL of the cache and  *)
(* the check that was in progress allow, whichever handlers forget to clear *)
(* the cache and whichever checks write it back afterwards.                 *)
THEOREM StalenessIsBounded ==
    RbacInit /\ [][RbacNext \/ RequirementsNext]_rbacVars => []StaleBounded
<1>1. RbacInit => StaleInv
  <2> SUFFICES ASSUME RbacInit PROVE StaleInv
    OBVIOUS
  <2>1. roles \in [RoleIds -> RoleRows \cup {NoRow}]
    <3>1. BuiltIn("org_admin", Perms) \in RoleRows
      BY DEF BuiltIn, RoleRows
    <3> QED
      BY <3>1 DEF RbacInit
  <2>2. TablesType
    BY <2>1 DEF RbacInit, TablesType
  <2>3. ClockType /\ CacheBacked /\ StaleBounded
    BY DEF RbacInit, ClockType, CacheBacked, StaleBounded
  <2>4. WorkSound
    BY DEF RbacInit, WorkSound, Sound, Idle
  <2> QED
    BY <2>2, <2>3, <2>4 DEF StaleInv
<1>2. StaleInv /\ [RbacNext \/ RequirementsNext]_rbacVars => StaleInv'
  <2> SUFFICES ASSUME StaleInv, [RbacNext \/ RequirementsNext]_rbacVars PROVE StaleInv'
    OBVIOUS
  <2>1. CASE RbacNext
    BY <2>1, StaleCheckStep, StaleRequirements, StaleCleanup, StaleAdministers, StaleTick
    DEF RbacNext, Checking
  <2>2. CASE RequirementsNext
    BY <2>2, StaleCheckStep, StaleRequirements, StaleReads, StaleAdministers DEF RequirementsNext
  <2>3. CASE UNCHANGED rbacVars
    <3>1. UNCHANGED tables /\ UNCHANGED <<cache, now, work, verdict, linkedAt, carriedAt>>
      BY <2>3 DEF rbacVars
    <3>2. TablesType'
      BY <3>1, UnchangedTables DEF StaleInv
    <3> QED
      BY <3>1, <3>2 DEF StaleInv, ClockType, CacheBacked, WorkSound, StaleBounded, Sound, Evidence, Backed
  <2> QED
    BY <2>1, <2>2, <2>3
<1>3. StaleInv => StaleBounded
  BY DEF StaleInv
<1> QED
  BY <1>1, <1>2, <1>3, PTL

-----------------------------------------------------------------------------
(* Single sign-on.                                                         *)
Identities == Providers \X People
Texts == Logins \cup {Blank}
Claims == [id : People, name : Texts, email : Texts, groups : SUBSET DOMAIN GroupRole]
Flows ==
    [step : {"exchange", "lookup", "create", "update", "session"}, user : Claims \cup {Null},
     uid : Uids \cup {Null}, provider : Providers, row : Rows, who : People]

\* A user a login made has a row.
UsersInv ==
    /\ users \in [Uids -> UserRows \cup {Null}]
    /\ born \in [Uids -> Identities \cup {Null}]
    /\ \A u \in Uids : born[u] # Null => users[u] # Null
\* Every user of an identity but the mapped one has lost its mapping.
Made(k) == {u \in Uids : born[u] = k}
MappedTo(k) ==
    /\ mapping[k] # Null => mapping[k] \in Uids /\ born[mapping[k]] = k
    /\ Cardinality(Made(k)) <= unmapped[k] + (IF mapping[k] = Null THEN 0 ELSE 1)
MappingInv ==
    /\ mapping = [k \in Identities |-> mapping[k]] /\ unmapped \in [Identities -> Nat]
    /\ \A k \in Identities : MappedTo(k)
\* What the callbacks in progress hold.
FlowFits(f) ==
    f.step # "idle" =>
        /\ f \in Flows
        /\ f.step # "exchange" => f.user \in Claims
        /\ f.step = "update" => f.uid \in Uids /\ born[f.uid] # Null
FlowsInv ==
    /\ provider \in [Providers -> Rows \cup {Null}]
    /\ \A a \in pending : a.provider \in Providers /\ a.who \in People
    /\ flow = [b \in Browsers |-> flow[b]] /\ \A b \in Browsers : FlowFits(flow[b])
SsoInv == UsersInv /\ MappingInv /\ FlowsInv

LEMMA MadeFinite ==
    ASSUME NEW k
    PROVE  IsFiniteSet(Made(k)) /\ Cardinality(Made(k)) \in Nat
BY FS_Subset, FS_CardinalityType, IdentityAssumption DEF Made

\* Users come and change, no login makes one.
LEMMA UsersKeep ==
    ASSUME UsersInv, users' \in [Uids -> UserRows \cup {Null}], UNCHANGED born,
           \A u \in Uids : users[u] # Null => users'[u] # Null
    PROVE  UsersInv'
BY DEF UsersInv

LEMMA MappingKeeps ==
    ASSUME MappingInv, UNCHANGED <<mapping, unmapped, born>>
    PROVE  MappingInv'
BY DEF MappingInv, MappedTo, Made

\* A mapping that goes is counted.
LEMMA MappingGoes ==
    ASSUME MappingInv, UNCHANGED born, NEW K \in SUBSET Identities,
           mapping' = [k \in Identities |-> IF k \in K THEN Null ELSE mapping[k]],
           unmapped' = [k \in Identities |->
               IF k \in K /\ mapping[k] # Null THEN unmapped[k] + 1 ELSE unmapped[k]]
    PROVE  MappingInv'
<1>1. unmapped' \in [Identities -> Nat]
  BY DEF MappingInv
<1>2. ASSUME NEW k \in Identities PROVE MappedTo(k)'
  <2>1. MappedTo(k) /\ unmapped[k] \in Nat /\ Made(k)' = Made(k) /\ Cardinality(Made(k)) \in Nat
    BY MadeFinite DEF MappingInv, Made
  <2>2. CASE k \in K
    <3>1. mapping'[k] = Null
      BY <2>2
    <3>2. unmapped'[k] = IF mapping[k] # Null THEN unmapped[k] + 1 ELSE unmapped[k]
      BY <2>2
    <3> QED
      BY <2>1, <3>1, <3>2 DEF MappedTo
  <2>3. CASE k \notin K
    <3>1. mapping'[k] = mapping[k] /\ unmapped'[k] = unmapped[k]
      BY <2>3
    <3> QED
      BY <2>1, <3>1 DEF MappedTo
  <2> QED
    BY <2>2, <2>3
<1> QED
  BY <1>1, <1>2 DEF MappingInv

\* The transaction of a first login: a free user id, an identity without a mapping.
LEMMA MappingComes ==
    ASSUME UsersInv, MappingInv, NEW u \in Uids, users[u] = Null, NEW key \in Identities,
           mapping[key] = Null, mapping' = [mapping EXCEPT ![key] = u],
           born' = [born EXCEPT ![u] = key], UNCHANGED unmapped
    PROVE  MappingInv' /\ born[u] = Null
<1>1. born[u] = Null /\ key # Null /\ u # Null
  BY SsoAssumption, IdentityAssumption DEF UsersInv, Identities
<1>2. ASSUME NEW k \in Identities PROVE MappedTo(k)'
  <2>1. MappedTo(k) /\ unmapped[k] \in Nat /\ k # Null
    BY SsoAssumption DEF MappingInv, Identities
  <2>2. CASE k = key
    <3>1. mapping'[k] = u /\ born'[u] = k
      BY <2>2 DEF MappingInv, UsersInv
    <3>2. Made(k)' = Made(k) \cup {u} /\ u \notin Made(k)
      BY <1>1, <2>2 DEF Made, UsersInv
    <3>3. Cardinality(Made(k)') = Cardinality(Made(k)) + 1
      BY <3>2, MadeFinite, FS_AddElement
    <3> QED
      BY <1>1, <2>1, <2>2, <3>1, <3>3, MadeFinite DEF MappedTo
  <2>3. CASE k # key
    <3>1. mapping'[k] = mapping[k] /\ Made(k)' = Made(k)
      BY <1>1, <2>1, <2>3 DEF MappingInv, Made, UsersInv
    <3>2. mapping[k] # Null => mapping[k] # u /\ born'[mapping[k]] = k
      BY <1>1, <2>1 DEF MappedTo, UsersInv
    <3> QED
      BY <2>1, <3>1, <3>2 DEF MappedTo
  <2> QED
    BY <2>2, <2>3
<1>3. mapping' = [k \in Identities |-> mapping'[k]]
  BY DEF MappingInv
<1> QED
  BY <1>1, <1>2, <1>3 DEF MappingInv

\* A callback moves on, and the others keep what they hold.
LEMMA FlowMoves ==
    ASSUME FlowsInv, UsersInv, NEW b \in Browsers, NEW f, flow' = [flow EXCEPT ![b] = f], FlowFits(f)',
           provider' \in [Providers -> Rows \cup {Null}],
           \A a \in pending' : a.provider \in Providers /\ a.who \in People,
           \A u \in Uids : born[u] # Null => born'[u] # Null
    PROVE  FlowsInv'
<1>1. flow' = [v \in Browsers |-> flow'[v]]
  BY DEF FlowsInv
<1>2. ASSUME NEW v \in Browsers PROVE FlowFits(flow[v])'
  <2>1. CASE v = b
    <3>1. flow'[v] = f
      BY <2>1 DEF FlowsInv
    <3> QED
      BY <3>1 DEF FlowFits
  <2>2. CASE v # b
    <3>1. flow'[v] = flow[v] /\ FlowFits(flow[v])
      BY <2>2 DEF FlowsInv
    <3> QED
      BY <3>1 DEF FlowFits
  <2> QED
    BY <2>1, <2>2
<1> QED
  BY <1>1, <1>2 DEF FlowsInv

LEMMA FlowStands ==
    ASSUME FlowsInv, UNCHANGED flow, UNCHANGED born,
           provider' \in [Providers -> Rows \cup {Null}],
           \A a \in pending' : a.provider \in Providers /\ a.who \in People
    PROVE  FlowsInv'
BY DEF FlowsInv, FlowFits

\* Steps that leave the users and the mappings alone.
LEMMA SsoCalm ==
    ASSUME SsoInv, UNCHANGED <<users, mapping, unmapped, born>>, FlowsInv'
    PROVE  SsoInv'
<1>1. UsersInv' /\ MappingInv'
  BY UsersKeep, MappingKeeps DEF SsoInv, UsersInv
<1> QED
  BY <1>1 DEF SsoInv

LEMMA SsoStill ==
    ASSUME SsoInv, UNCHANGED ssoVars, UNCHANGED users
    PROVE  SsoInv'
<1>1. UNCHANGED <<provider, mapping, pending, flow, born, unmapped>>
  BY DEF ssoVars
<1>2. FlowsInv'
  BY <1>1, FlowStands DEF SsoInv, FlowsInv
<1> QED
  BY <1>1, <1>2, SsoCalm

LEMMA WaitingFits == ASSUME NEW f, f = Waiting PROVE FlowFits(f)'
BY DEF FlowFits, Waiting

\* The end of a callback without a trace in the accounts.
LEMMA SsoEnds ==
    ASSUME SsoInv, NEW b \in Browsers, End(b), UNCHANGED <<users, mapping, unmapped, born>>,
           UNCHANGED <<provider, pending>>
    PROVE  SsoInv'
<1>1. PICK f : f = Waiting
  OBVIOUS
<1>2. flow' = [flow EXCEPT ![b] = f] /\ FlowFits(f)'
  BY <1>1, WaitingFits DEF End
<1>3. FlowsInv'
  BY <1>2, FlowMoves DEF SsoInv, FlowsInv
<1> QED
  BY <1>3, SsoCalm

LEMMA SsoConfigures ==
    ASSUME SsoInv, createProvider \/ updateProvider
    PROVE  SsoInv'
<1>1. UNCHANGED <<users, mapping, unmapped, born>> /\ UNCHANGED <<pending, flow>>
  BY DEF createProvider, updateProvider, Config
<1>2. provider' \in [Providers -> Rows \cup {Null}]
  BY DEF createProvider, updateProvider, SaveProvider, SsoInv, FlowsInv
<1>3. FlowsInv'
  BY <1>1, <1>2, FlowStands DEF SsoInv, FlowsInv
<1> QED
  BY <1>1, <1>3, SsoCalm

LEMMA SsoDeletes ==
    ASSUME SsoInv, deleteProvider \/ DeleteUserMapping
    PROVE  SsoInv'
<1>1. CASE deleteProvider
  <2>1. PICK n \in Providers :
          /\ provider' = [provider EXCEPT ![n] = Null]
          /\ mapping' = [k \in DOMAIN mapping |-> IF k[1] = n THEN Null ELSE mapping[k]]
          /\ unmapped' = [k \in DOMAIN mapping |->
                IF k[1] = n /\ mapping[k] # Null THEN unmapped[k] + 1 ELSE unmapped[k]]
    BY <1>1 DEF deleteProvider
  <2>2. UNCHANGED <<users, born, pending, flow>>
    BY <1>1 DEF deleteProvider
  <2>3. PICK K \in SUBSET Identities : K = {k \in Identities : k[1] = n}
    OBVIOUS
  <2>4. DOMAIN mapping = Identities
    BY DEF SsoInv, MappingInv
  <2>5. mapping' = [k \in Identities |-> IF k \in K THEN Null ELSE mapping[k]]
    BY <2>1, <2>3, <2>4
  <2>6. unmapped' = [k \in Identities |->
                IF k \in K /\ mapping[k] # Null THEN unmapped[k] + 1 ELSE unmapped[k]]
    BY <2>1, <2>3, <2>4
  <2>7. MappingInv'
    BY <2>2, <2>5, <2>6, MappingGoes DEF SsoInv
  <2>8. provider' \in [Providers -> Rows \cup {Null}]
    BY <2>1 DEF SsoInv, FlowsInv
  <2>9. FlowsInv' /\ UsersInv'
    BY <2>2, <2>8, FlowStands, UsersKeep DEF SsoInv, FlowsInv, UsersInv
  <2> QED
    BY <2>7, <2>9 DEF SsoInv
<1>2. CASE DeleteUserMapping
  <2>1. PICK key \in DOMAIN mapping :
          /\ mapping[key] # Null /\ mapping' = [mapping EXCEPT ![key] = Null]
          /\ unmapped' = [unmapped EXCEPT ![key] = @ + 1]
    BY <1>2 DEF DeleteUserMapping
  <2>2. UNCHANGED <<users, born, pending, flow, provider>>
    BY <1>2 DEF DeleteUserMapping
  <2>3. /\ key \in Identities /\ mapping = [k \in Identities |-> mapping[k]]
        /\ unmapped \in [Identities -> Nat]
    BY DEF SsoInv, MappingInv
  <2>4. PICK K \in SUBSET Identities : K = {key}
    BY <2>3
  <2>5. mapping' = [k \in Identities |-> IF k \in K THEN Null ELSE mapping[k]]
    BY <2>1, <2>3, <2>4
  <2>6. unmapped' = [k \in Identities |->
                IF k \in K /\ mapping[k] # Null THEN unmapped[k] + 1 ELSE unmapped[k]]
    BY <2>1, <2>3, <2>4
  <2>7. MappingInv'
    BY <2>2, <2>5, <2>6, MappingGoes DEF SsoInv
  <2>8. FlowsInv' /\ UsersInv'
    BY <2>2, FlowStands, UsersKeep DEF SsoInv, FlowsInv, UsersInv
  <2> QED
    BY <2>7, <2>8 DEF SsoInv
<1> QED
  BY <1>1, <1>2

LEMMA SsoInitiates ==
    ASSUME SsoInv, NEW b \in Browsers, initiateLogin(b)
    PROVE  SsoInv'
<1>1. UNCHANGED <<users, mapping, unmapped, born>> /\ UNCHANGED <<flow, provider>>
  BY DEF initiateLogin, Accounts
<1>2. PICK n \in Providers :
        \/ UNCHANGED pending
        \/ \E who \in People :
              pending' = pending \cup {[browser |-> b, provider |-> n,
                                        state |-> states + 1, who |-> who]}
  BY DEF initiateLogin
<1>3. \A a \in pending' : a.provider \in Providers /\ a.who \in People
  BY <1>2 DEF SsoInv, FlowsInv
<1>4. FlowsInv'
  BY <1>1, <1>3, FlowStands DEF SsoInv, FlowsInv
<1> QED
  BY <1>1, <1>4, SsoCalm

LEMMA SsoCallback ==
    ASSUME SsoInv, NEW b \in Browsers, handleCallback(b)
    PROVE  SsoInv'
<1>1. UNCHANGED <<users, mapping, unmapped, born>> /\ UNCHANGED provider
  BY DEF handleCallback, Accounts
<1>2. PICK a \in pending :
        /\ pending' = pending \ {a}
        /\ \/ UNCHANGED flow
           \/ /\ provider[a.provider] # Null
              /\ flow' = [flow EXCEPT ![b] = [step |-> "exchange", user |-> Null, uid |-> Null,
                              provider |-> a.provider, row |-> provider[a.provider], who |-> a.who]]
  BY DEF handleCallback, GetProvider
<1>3. \A c \in pending' : c.provider \in Providers /\ c.who \in People
  BY <1>2 DEF SsoInv, FlowsInv
<1>4. provider' \in [Providers -> Rows \cup {Null}]
  BY <1>1 DEF SsoInv, FlowsInv
<1>5. CASE UNCHANGED flow
  <2>1. FlowsInv'
    BY <1>1, <1>3, <1>4, <1>5, FlowStands DEF SsoInv
  <2> QED
    BY <1>1, <2>1, SsoCalm
<1>6. CASE ~UNCHANGED flow
  <2>1. PICK f : f = [step |-> "exchange", user |-> Null, uid |-> Null,
                      provider |-> a.provider, row |-> provider[a.provider], who |-> a.who]
    OBVIOUS
  <2>2. flow' = [flow EXCEPT ![b] = f]
    BY <1>2, <1>6, <2>1
  <2>3. a.provider \in Providers /\ a.who \in People /\ provider[a.provider] \in Rows
    BY <1>2, <1>6 DEF SsoInv, FlowsInv
  <2>4. f \in Flows /\ f.step = "exchange"
    BY <2>1, <2>3 DEF Flows
  <2>5. FlowFits(f)'
    BY <2>4 DEF FlowFits
  <2>6. FlowsInv'
    BY <1>1, <1>3, <1>4, <2>2, <2>5, FlowMoves DEF SsoInv
  <2> QED
    BY <1>1, <2>6, SsoCalm
<1> QED
  BY <1>5, <1>6

\* Whatever the type of the provider, accepted claims name the person.
LEMMA ClaimsNamePerson ==
    ASSUME NEW type \in Types, NEW who \in People, NEW id \in {who, Blank}, NEW name \in Texts,
           NEW mail \in Texts, NEW groups \in SUBSET DOMAIN GroupRole, NEW c,
           c = [id |-> id, sub |-> who, name |-> name, email |-> mail, groups |-> groups],
           NEW info, info \in {Null, [email |-> mail, groups |-> groups]},
           NEW u, u = HandleCallback(type, c, info), Valid(u)
    PROVE  u \in Claims
<1>1. PICK d : d = [id |-> IF id = Blank THEN who ELSE id,
                    name |-> IF name = Blank THEN mail ELSE name, email |-> mail, groups |-> groups]
  OBVIOUS
<1>2. d \in Claims
  BY <1>1 DEF Claims, Texts
<1>3. CASE type = "saml"
  BY <1>1, <1>2, <1>3 DEF HandleCallback, SamlUser, Named
<1>4. CASE type = "oidc"
  <2>1. u = OidcUser(c, info)
    BY <1>4 DEF HandleCallback
  <2>2. CASE info = Null
    BY <1>1, <1>2, <2>1, <2>2 DEF OidcUser, SamlUser, Named
  <2>3. CASE info # Null
    <3>1. info.email = mail /\ info.groups = groups /\ c.email = mail /\ c.groups = groups
      BY <2>3
    <3>2. PICK e : e = [c EXCEPT !.email = IF info.email = Blank THEN @ ELSE info.email,
                                 !.groups = IF info.groups = {} THEN @ ELSE info.groups]
      OBVIOUS
    <3>3. e = c
      <4>1. e = [c EXCEPT !.email = mail, !.groups = groups]
        BY <3>1, <3>2
      <4>2. c \in [id : {id}, sub : {who}, name : {name}, email : {mail}, groups : {groups}]
        OBVIOUS
      <4>3. e \in [id : {id}, sub : {who}, name : {name}, email : {mail}, groups : {groups}]
        BY <4>1, <4>2
      <4> QED
        BY <4>2, <4>3
    <3>4. u = SamlUser(c, Null)
      BY <2>1, <2>3, <3>2, <3>3 DEF OidcUser
    <3> QED
      BY <1>1, <1>2, <3>4 DEF SamlUser, Named
  <2> QED
    BY <2>2, <2>3
<1>5. CASE type = "oauth2"
  <2>1. u = OAuth2User(c, info) /\ id # Blank
    BY <1>5 DEF HandleCallback, OAuth2User, Valid
  <2> QED
    BY <1>1, <1>2, <2>1 DEF OAuth2User, Named
<1> QED
  BY <1>3, <1>4, <1>5 DEF Types

LEMMA SsoExchanges ==
    ASSUME SsoInv, NEW b \in Browsers, Exchange(b)
    PROVE  SsoInv'
<1>1. UNCHANGED <<users, mapping, unmapped, born>> /\ UNCHANGED <<provider, pending>>
  BY DEF Exchange, Accounts
<1>2. PICK f : f = flow[b]
  OBVIOUS
<1>3. f \in Flows /\ f.step = "exchange"
  BY <1>2 DEF Exchange, SsoInv, FlowsInv, FlowFits
<1>4. f.row.type \in Types /\ f.who \in People
  BY <1>3 DEF Flows, Rows
<1>5. CASE End(b)
  BY <1>1, <1>5, SsoEnds
<1>6. CASE ~End(b)
  <2>1. PICK id \in {flow[b].who, Blank}, name \in Logins \cup {Blank}, mail \in Logins \cup {Blank},
             groups \in SUBSET DOMAIN GroupRole, asked \in BOOLEAN :
          LET c == [id |-> id, sub |-> flow[b].who, name |-> name, email |-> mail,
                    groups |-> groups]
              u == HandleCallback(flow[b].row.type, c,
                       IF asked THEN [email |-> mail, groups |-> groups] ELSE Null)
          IN  IF ~Valid(u) THEN Reply(401, "callback") /\ End(b)
              ELSE IF ~flow[b].row.auto THEN Reply(500, "callback") /\ End(b)
              ELSE /\ Quiet
                   /\ flow' = [flow EXCEPT ![b].step = "lookup", ![b].user = u]
    BY Zenon DEF Exchange
  <2>2. PICK c : c = [id |-> id, sub |-> f.who, name |-> name, email |-> mail, groups |-> groups]
    OBVIOUS
  <2>3. PICK info : info = IF asked THEN [email |-> mail, groups |-> groups] ELSE Null
    OBVIOUS
  <2>4. PICK u : u = HandleCallback(f.row.type, c, info)
    OBVIOUS
  <2>5. Valid(u) /\ flow' = [flow EXCEPT ![b] = [f EXCEPT !.step = "lookup", !.user = u]]
    <3>1. IF ~Valid(u) THEN Reply(401, "callback") /\ End(b)
          ELSE IF ~f.row.auto THEN Reply(500, "callback") /\ End(b)
          ELSE Quiet /\ flow' = [flow EXCEPT ![b].step = "lookup", ![b].user = u]
      BY <1>2, <2>1, <2>2, <2>3, <2>4
    <3> QED
      BY <1>2, <1>6, <3>1
  <2>6. u \in Claims
    <3>1. id \in {f.who, Blank} /\ name \in Texts /\ mail \in Texts
      BY <1>2 DEF Texts
    <3>2. info \in {Null, [email |-> mail, groups |-> groups]}
      BY <2>3
    <3>3. PICK type \in Types, who \in People : type = f.row.type /\ who = f.who
      BY <1>4
    <3>4. /\ c = [id |-> id, sub |-> who, name |-> name, email |-> mail, groups |-> groups]
          /\ u = HandleCallback(type, c, info) /\ Valid(u) /\ id \in {who, Blank}
      BY <2>2, <2>4, <2>5, <3>1, <3>3
    <3> QED
      BY <3>1, <3>2, <3>4, ClaimsNamePerson, SMTT(30)
  <2>7. PICK g : g = [f EXCEPT !.step = "lookup", !.user = u]
    OBVIOUS
  <2>8. g \in Flows /\ g.step = "lookup" /\ g.user \in Claims
    BY <1>3, <2>6, <2>7 DEF Flows
  <2>9. FlowFits(g)'
    BY <2>8 DEF FlowFits
  <2>10. FlowsInv'
    BY <1>1, <2>5, <2>7, <2>9, FlowMoves DEF SsoInv, FlowsInv
  <2> QED
    BY <1>1, <2>10, SsoCalm
<1> QED
  BY <1>5, <1>6

\* The key of a callback past the exchange is an identity.
LEMMA KeyIsIdentity ==
    ASSUME SsoInv, NEW b \in Browsers, flow[b].step \in {"lookup", "create", "update", "session"}
    PROVE  /\ flow[b] \in Flows /\ flow[b].user \in Claims /\ Key(b) \in Identities
           /\ Row(b) \in UserRows
<1>1. flow[b] \in Flows /\ flow[b].user \in Claims
  BY DEF SsoInv, FlowsInv, FlowFits
<1>2. flow[b].provider \in Providers
  BY <1>1 DEF Flows
<1>3. /\ flow[b].user.id \in People /\ flow[b].user.name \in Texts /\ flow[b].user.email \in Texts
  BY <1>1 DEF Claims
<1> QED
  BY <1>1, <1>2, <1>3 DEF Key, Identities, Row, UserRows, Texts

LEMMA SsoLooks ==
    ASSUME SsoInv, NEW b \in Browsers, ProvisionUser(b)
    PROVE  SsoInv'
<1>1. UNCHANGED <<users, mapping, unmapped, born>> /\ UNCHANGED <<provider, pending>>
  BY DEF ProvisionUser, Accounts
<1>2. PICK f : f = flow[b]
  OBVIOUS
<1>3. f \in Flows /\ f.user \in Claims /\ Key(b) \in Identities
  BY <1>2, KeyIsIdentity DEF ProvisionUser
<1>4. PICK m : m = mapping[Key(b)]
  OBVIOUS
<1>5. m # Null => m \in Uids /\ born[m] # Null
  <2>1. MappedTo(Key(b)) /\ Key(b) # Null
    BY <1>3, SsoAssumption DEF SsoInv, MappingInv, Identities
  <2> QED
    BY <1>4, <2>1 DEF MappedTo
<1>6. PICK step : step = IF m = Null THEN "create" ELSE "update"
  OBVIOUS
<1>7. PICK g : g = [f EXCEPT !.step = step, !.uid = m]
  OBVIOUS
<1>8. flow' = [flow EXCEPT ![b] = g]
  BY <1>2, <1>4, <1>6, <1>7 DEF ProvisionUser
<1>9. g \in Flows /\ g.step = step /\ g.user \in Claims /\ g.uid = m
  BY <1>3, <1>5, <1>6, <1>7 DEF Flows
<1>10. FlowFits(g)'
  BY <1>1, <1>5, <1>6, <1>9 DEF FlowFits
<1>11. FlowsInv'
  BY <1>1, <1>8, <1>10, FlowMoves DEF SsoInv, FlowsInv
<1> QED
  BY <1>1, <1>11, SsoCalm

LEMMA SsoCreates ==
    ASSUME SsoInv, NEW b \in Browsers, createSsoUser(b)
    PROVE  SsoInv'
<1>1. UNCHANGED <<unmapped, provider, pending>> /\ flow[b].step = "create"
  BY DEF createSsoUser
<1>2. CASE RolledBack(b)
  BY <1>1, <1>2, SsoEnds DEF RolledBack
<1>3. CASE ~RolledBack(b)
  <2>1. PICK u \in Uids :
          /\ InsertUser(u, Row(b)) /\ Provisioned(b, u)
          /\ born' = [born EXCEPT ![u] = Key(b)]
          /\ flow' = [flow EXCEPT ![b].step = "session", ![b].uid = u]
    BY <1>3 DEF createSsoUser
  <2>2. PICK f : f = flow[b]
    OBVIOUS
  <2>3. PICK key : key = Key(b)
    OBVIOUS
  <2>4. f \in Flows /\ f.user \in Claims /\ key \in Identities /\ Row(b) \in UserRows
    BY <1>1, <2>2, <2>3, KeyIsIdentity
  <2>5. /\ users[u] = Null /\ users' = [users EXCEPT ![u] = Row(b)] /\ mapping[key] = Null
        /\ mapping' = [mapping EXCEPT ![key] = u] /\ born' = [born EXCEPT ![u] = key]
    BY <2>1, <2>3 DEF InsertUser, Provisioned
  <2>6. MappingInv' /\ born[u] = Null
    BY <1>1, <2>4, <2>5, MappingComes DEF SsoInv
  <2>7. UsersInv'
    BY <2>4, <2>5, IdentityAssumption DEF SsoInv, UsersInv
  <2>8. \A v \in Uids : born[v] # Null => born'[v] # Null
    BY <2>5, <2>6 DEF SsoInv, UsersInv
  <2>9. PICK g : g = [f EXCEPT !.step = "session", !.uid = u]
    OBVIOUS
  <2>10. flow' = [flow EXCEPT ![b] = g]
    BY <2>1, <2>2, <2>9
  <2>11. g \in Flows /\ g.step = "session" /\ g.user \in Claims
    BY <2>4, <2>9 DEF Flows
  <2>12. FlowFits(g)'
    BY <2>11 DEF FlowFits
  <2>13. FlowsInv'
    BY <1>1, <2>8, <2>10, <2>12, FlowMoves DEF SsoInv, FlowsInv
  <2> QED
    BY <2>6, <2>7, <2>13 DEF SsoInv
<1> QED
  BY <1>2, <1>3

LEMMA SsoUpdates ==
    ASSUME SsoInv, NEW b \in Browsers, updateSsoUser(b)
    PROVE  SsoInv'
<1>1. UNCHANGED <<unmapped, provider, pending>> /\ flow[b].step = "update"
  BY DEF updateSsoUser
<1>2. CASE RolledBack(b)
  BY <1>1, <1>2, SsoEnds DEF RolledBack
<1>3. CASE ~RolledBack(b)
  <2>1. PICK f : f = flow[b]
    OBVIOUS
  <2>2. f \in Flows /\ f.user \in Claims /\ f.uid \in Uids /\ born[f.uid] # Null
    BY <1>1, <2>1, KeyIsIdentity DEF SsoInv, FlowsInv, FlowFits
  <2>3. /\ users' = [users EXCEPT ![f.uid].email = f.user.email]
        /\ flow' = [flow EXCEPT ![b].step = "session"] /\ UNCHANGED <<mapping, born>>
    BY <1>3, <2>1 DEF updateSsoUser, Advance
  <2>4. PICK row : row = [users[f.uid] EXCEPT !.email = f.user.email]
    OBVIOUS
  <2>5. users[f.uid] \in UserRows /\ f.user.email \in Texts
    BY <2>2 DEF SsoInv, UsersInv, Claims
  <2>6. row \in UserRows
    BY <2>4, <2>5 DEF UserRows, Texts
  <2>7. users' = [users EXCEPT ![f.uid] = row]
    BY <2>3, <2>4
  <2>8. UsersInv' /\ MappingInv'
    BY <1>1, <2>2, <2>3, <2>6, <2>7, UsersKeep, MappingKeeps, IdentityAssumption DEF SsoInv, UsersInv
  <2>9. PICK g : g = [f EXCEPT !.step = "session"]
    OBVIOUS
  <2>10. flow' = [flow EXCEPT ![b] = g]
    BY <2>1, <2>3, <2>9
  <2>11. g \in Flows /\ g.step = "session" /\ g.user \in Claims
    BY <2>2, <2>9 DEF Flows
  <2>12. FlowFits(g)'
    BY <2>11 DEF FlowFits
  <2>13. FlowsInv'
    BY <1>1, <2>3, <2>10, <2>12, FlowMoves DEF SsoInv, FlowsInv
  <2> QED
    BY <2>8, <2>13 DEF SsoInv
<1> QED
  BY <1>2, <1>3

\* Handlers of pkg/api: rows of users are added and changed, never removed.
LEMMA SsoBeside ==
    ASSUME SsoInv, IdentityNext, UNCHANGED ssoVars
    PROVE  SsoInv'
<1>1. CASE UNCHANGED users
  BY <1>1, SsoStill
<1>2. ASSUME users' \in [Uids -> UserRows \cup {Null}],
             \A u \in Uids : users[u] # Null => users'[u] # Null
      PROVE  SsoInv'
  <2>1. UNCHANGED <<mapping, unmapped, born, flow, provider, pending>>
    BY DEF ssoVars
  <2>2. UsersInv' /\ MappingInv' /\ FlowsInv'
    BY <1>2, <2>1, UsersKeep, MappingKeeps, FlowStands DEF SsoInv, FlowsInv
  <2> QED
    BY <2>2 DEF SsoInv
<1>3. CASE createUser
  <2>1. SUFFICES ASSUME ~UNCHANGED users PROVE SsoInv'
    BY <1>1
  <2>2. PICK name \in Logins \cup {Blank}, bot \in BOOLEAN, mail \in BOOLEAN :
          LET r == [name |-> name, email |-> IF mail THEN name ELSE Blank,
                    bot |-> bot, active |-> TRUE]
          IN  IF name = Blank \/ (~bot /\ r.email = Blank)
              THEN Reply(400, "user") /\ UNCHANGED users
              ELSE \/ Reply(201, "user") /\ \E id \in Uids : InsertUser(id, r)
                   \/ ~Fits(r) /\ Reply(500, "user") /\ UNCHANGED users
    BY <1>3 DEF createUser
  <2>3. PICK row : row = [name |-> name, email |-> IF mail THEN name ELSE Blank,
                          bot |-> bot, active |-> TRUE]
    OBVIOUS
  <2>4. row \in UserRows
    BY <2>3 DEF UserRows
  <2>5. PICK id \in Uids : users[id] = Null /\ users' = [users EXCEPT ![id] = row]
    BY <2>1, <2>2, <2>3 DEF InsertUser
  <2>6. users' \in [Uids -> UserRows \cup {Null}] /\ \A u \in Uids : users[u] # Null => users'[u] # Null
    BY <2>4, <2>5 DEF SsoInv, UsersInv
  <2> QED
    BY <1>2, <2>6
<1>4. CASE updateUser \/ deleteUser
  <2>1. SUFFICES ASSUME ~UNCHANGED users PROVE SsoInv'
    BY <1>1
  <2>2. PICK id \in Uids, active \in BOOLEAN :
          users[id] # Null /\ users' = [users EXCEPT ![id].active = active]
    BY <1>4, <2>1 DEF updateUser, deleteUser
  <2>3. PICK row : row = [users[id] EXCEPT !.active = active]
    OBVIOUS
  <2>4. users[id] \in UserRows /\ users' = [users EXCEPT ![id] = row]
    BY <2>2, <2>3 DEF SsoInv, UsersInv
  <2>5. row \in UserRows
    BY <2>3, <2>4 DEF UserRows
  <2>6. users' \in [Uids -> UserRows \cup {Null}] /\ \A u \in Uids : users[u] # Null => users'[u] # Null
    BY <2>4, <2>5, IdentityAssumption DEF SsoInv, UsersInv
  <2> QED
    BY <1>2, <2>6
<1>5. UNCHANGED users \/ createUser \/ updateUser \/ deleteUser
  BY DEF IdentityNext, getUser, createToken, listTokens, getToken, revokeToken, createOrganization,
         getOrganization, listOrganizationMembers, addOrganizationMember, removeOrganizationMember,
         listModulePermissions, grantModulePermission, revokeModulePermission,
         AuthMiddlewareHandler, RequireScope, RequireOrgRole, RequireModuleAccess, Look, Only
<1> QED
  BY <1>1, <1>3, <1>4, <1>5

(* However the first logins of one person overlap and wherever they fail,  *)
(* one user is made for each time the identity had no mapping, and a       *)
(* mapping leads to the user its own login made.                           *)
THEOREM OneUserForEachIdentity ==
    IdentityInit /\ SsoInit
      /\ [][LoginNext \/ ConfigNext \/ (IdentityNext /\ UNCHANGED ssoVars)]_<<identityVars, ssoVars>>
    => []OneUserPerIdentity
<1>1. IdentityInit /\ SsoInit => SsoInv
  <2> SUFFICES ASSUME IdentityInit, SsoInit PROVE SsoInv
    OBVIOUS
  <2>1. UsersInv
    BY DEF IdentityInit, SsoInit, UsersInv
  <2>2. ASSUME NEW k \in Identities PROVE MappedTo(k)
    <3>1. Made(k) = {}
      BY SsoAssumption DEF SsoInit, Made, Identities
    <3>2. mapping[k] = Null /\ unmapped[k] = 0
      BY DEF SsoInit, Identities
    <3> QED
      BY <3>1, <3>2, FS_EmptySet DEF MappedTo
  <2>3. MappingInv
    BY <2>2 DEF SsoInit, MappingInv, Identities
  <2>4. FlowsInv
    BY DEF SsoInit, FlowsInv, FlowFits, Waiting, Rows
  <2> QED
    BY <2>1, <2>3, <2>4 DEF SsoInv
<1>2. ASSUME SsoInv, [LoginNext \/ ConfigNext \/ (IdentityNext /\ UNCHANGED ssoVars)]_<<identityVars, ssoVars>>
      PROVE  SsoInv'
  <2>1. CASE ConfigNext
    <3>1. CASE getProvider \/ listProviders \/ getSAMLMetadata
      BY <1>2, <3>1, SsoStill DEF getProvider, listProviders, getSAMLMetadata, Accounts
    <3> QED
      BY <1>2, <2>1, <3>1, SsoConfigures DEF ConfigNext
  <2>2. CASE LoginNext
    <3>1. ASSUME NEW b \in Browsers, CreateSession(b) PROVE SsoInv'
      BY <1>2, <3>1, SsoEnds DEF CreateSession, Accounts
    <3>2. ASSUME UNCHANGED <<users, mapping, unmapped, born>>, UNCHANGED <<provider, pending, flow>>
          PROVE  SsoInv'
      <4>1. FlowsInv'
        BY <1>2, <3>2, FlowStands DEF SsoInv, FlowsInv
      <4> QED
        BY <1>2, <3>2, <4>1, SsoCalm
    <3>3. ASSUME NEW b \in Browsers, logout(b) \/ GetAuthContext(b) PROVE SsoInv'
      BY <3>2, <3>3 DEF logout, GetAuthContext, Accounts, ssoVars
    <3>4. CASE CleanupExpiredSessions
      BY <3>2, <3>4 DEF CleanupExpiredSessions, Accounts
    <3> QED
      BY <1>2, <2>2, <3>1, <3>3, <3>4, SsoInitiates, SsoCallback, SsoExchanges, SsoLooks, SsoCreates,
         SsoUpdates, SsoDeletes DEF LoginNext
  <2>3. CASE UNCHANGED <<identityVars, ssoVars>>
    <3>1. UNCHANGED identityVars /\ UNCHANGED ssoVars
      BY <2>3
    <3>2. UNCHANGED users
      BY <3>1 DEF identityVars
    <3> QED
      BY <1>2, <3>1, <3>2, SsoStill
  <2> QED
    BY <1>2, <2>1, <2>2, <2>3, SsoBeside
<1>3. SsoInv => OneUserPerIdentity
  <2> SUFFICES ASSUME SsoInv, NEW k \in Identities
               PROVE  /\ Cardinality({u \in Uids : born[u] = k}) <= 1 + unmapped[k]
                      /\ mapping[k] # Null => born[mapping[k]] = k
    BY DEF OneUserPerIdentity, SsoInv, MappingInv
  <2>1. MappedTo(k) /\ unmapped[k] \in Nat /\ Made(k) = {u \in Uids : born[u] = k}
    BY DEF SsoInv, MappingInv, Made
  <2> QED
    BY <2>1, MadeFinite DEF MappedTo
<1> QED
  BY <1>1, <1>2, <1>3, PTL
=============================================================================
