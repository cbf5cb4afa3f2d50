--------------------------- MODULE IdentityProofs ---------------------------
(***************************************************************************)
(* Proofs about Identity, for any number of users, keys, tokens, roles and *)
(* requests between their check and their handler, and any bound on what   *)
(* administrators do.                                                      *)
(***************************************************************************)
EXTENDS Identity, FiniteSetTheorems, TLAPS

\* A token that was issued enrolls a user.
Held == \A t \in Tokens : tok[t] # "none" => holder[t] \in Users

\* The types, and the tokens' holders.
Typed == TypeOK /\ Held

\* Everything that the handlers keep.
Inv == Typed /\ AuditorsApart /\ CacheAgrees

-----------------------------------------------------------------------------
(* Types. *)

\* The initial state is typed.
LEMMA InitTyped == Init => Typed
BY Distinct, StepsAssumption DEF Init, Typed, TypeOK, Held, Status, Titles, Tiers, Rows, TokenState, Known, Exists,
   AdminRole, Callers

\* Ceremonies keep the types.
LEMMA CeremonyTyped == Typed /\ (Ceremony) => Typed'
<1> SUFFICES ASSUME Typed, Ceremony PROVE Typed'
  OBVIOUS
<1> USE Distinct, StepsAssumption DEF Typed, TypeOK, Held, Status, Titles, Tiers, Rows, TokenState, Ceremonies, Callers,
        Known, Exists, AdminRole, people, roles, keys, tokens, logins
<1>1. ASSUME NEW c \in Chals, Abandon(c) PROVE Typed'
  BY <1>1 DEF Abandon
<1>2. ASSUME NEW c \in Chals, NEW u \in Users \cup {None}, LoginStart(c, u) PROVE Typed'
  BY <1>2 DEF LoginStart, Challenge
<1>3. ASSUME NEW c \in Chals, NEW k \in Keys, LoginComplete(c, k) PROVE Typed'
  BY <1>3 DEF LoginComplete, Claims, Authenticates
<1>4. ASSUME NEW c \in Chals, NEW t \in Tokens, EnrollStart(t, c) PROVE Typed'
  BY <1>4 DEF EnrollStart, Startable, Challenge
<1>5. ASSUME NEW c \in Chals, NEW t \in Tokens, NEW k \in Keys, EnrollComplete(t, c, k) PROVE Typed'
  BY <1>5 DEF EnrollComplete, Claims, SameUser, Registers
<1>6. ASSUME NEW c \in Chals, NEW u \in Users, InitCore(u, c) PROVE Typed'
  <2> DEFINE stale == Roster \ enrolled
  <2>1. /\ title' \in [Roles -> Titles] /\ tier' \in [Roles -> Tiers]
        /\ \A q, r \in Roles : title'[q] = "admin" /\ title'[r] = "admin" => q = r
        /\ \A r \in Roles : title[r] # "none" => title'[r] # "none"
    BY <1>6 DEF InitCore, Seeded
  <2>2. status' \in [Users -> Status] /\ member' \in [Users -> SUBSET Roles]
    BY <1>6 DEF InitCore
  <2>3. stale \subseteq Users
    BY DEF Roster
  <2>4. /\ enrolled' = enrolled \ stale /\ code' = code \ stale /\ touched' = touched \ stale
        /\ session' = [v \in Users |-> IF v \in stale THEN None ELSE session[v]]
        /\ status' = [v \in Users |-> IF v = u THEN "pending_enrollment"
                                      ELSE IF v \in stale THEN "none" ELSE status[v]]
        /\ member' = [v \in Users |-> IF v = u THEN {r \in Roles : title'[r] = "admin"}
                                      ELSE IF v \in stale THEN {} ELSE member[v]]
        /\ Known(u) => u \in stale
    BY <1>6 DEF InitCore, Purge
  <2>5. (enrolled \cup code \cup touched \subseteq {v \in Users : Known(v)})'
    BY <2>2, <2>4
  <2>6. (\A v \in Users : /\ member[v] \subseteq {r \in Roles : Exists(r)}
                          /\ ~Known(v) => member[v] = {} /\ session[v] = None)'
    <3> SUFFICES ASSUME NEW v \in Users
                 PROVE  /\ member'[v] \subseteq {r \in Roles : title'[r] # "none"}
                        /\ status'[v] = "none" => member'[v] = {} /\ session'[v] = None
      OBVIOUS
    <3>1. CASE v = u
      BY <2>4, <3>1
    <3>2. CASE v # u
      BY <2>1, <2>4, <3>2
    <3> QED
      BY <3>1, <3>2
  <2>7. /\ key' \in [Keys -> Rows] /\ tok' \in [Tokens -> TokenState]
        /\ session' \in [Users -> Keys \cup {None}]
        /\ \A t \in Tokens : tok'[t] # "none" => tok[t] # "none" \/ holder[t] \in Users
    BY <1>6, <2>3 DEF InitCore, Purge
  <2>8. chal' \in [Chals -> Ceremonies \cup {None}] /\ steps' \in 0..Steps
    BY <1>6 DEF InitCore, Challenge, Handled
  <2>9. UNCHANGED <<owner, mem, holder, gate>>
    BY <1>6 DEF InitCore
  <2> QED
    BY <2>1, <2>2, <2>5, <2>6, <2>7, <2>8, <2>9
<1>7. ASSUME NEW c \in Chals, NEW u \in Users, AddKeyStart(u, c) PROVE Typed'
  BY <1>7 DEF AddKeyStart, Spends, Challenge
<1>8. ASSUME NEW c \in Chals, NEW u \in Users, NEW k \in Keys, InitComplete(u, c, k) PROVE Typed'
  BY <1>8 DEF InitComplete, Claims, Registers, Roster
<1>9. ASSUME NEW c \in Chals, NEW u \in Users, NEW k \in Keys, AddKeyComplete(u, c, k) PROVE Typed'
  BY <1>9 DEF AddKeyComplete, Spends, Claims, Registers
<1> HIDE DEF Typed, TypeOK, Held, Status, Titles, Tiers, Rows, TokenState, Ceremonies, Callers,
        Known, Exists, AdminRole, people, roles, keys, tokens, logins
<1> QED
  BY <1>1, <1>2, <1>3, <1>4, <1>5, <1>6, <1>7, <1>8, <1>9 DEF Ceremony

\* So does what a user does about the own account.
LEMMA PersonalTyped == Typed /\ (Personal) => Typed'
<1> SUFFICES ASSUME Typed, Personal PROVE Typed'
  OBVIOUS
<1> USE Distinct, StepsAssumption DEF Typed, TypeOK, Held, Status, Titles, Tiers, Rows, TokenState, Ceremonies, Callers,
        Known, Exists, AdminRole, people, roles, keys, tokens, logins
<1>1. ASSUME NEW u \in Users, Logout(u) PROVE Typed'
  BY <1>1 DEF Logout
<1>2. ASSUME NEW u \in Users, Touch(u) PROVE Typed'
  BY <1>2 DEF Touch, SignedIn
<1>3. ASSUME NEW u \in Users, Wasted(u) PROVE Typed'
  BY <1>3 DEF Wasted
<1>4. ASSUME NEW u \in Users, InitClash(u) PROVE Typed'
  BY <1>4 DEF InitClash, Handled, Purge, Roster
<1>5. ASSUME NEW u \in Users, ReissueCode(u) PROVE Typed'
  BY <1>5 DEF ReissueCode, Roster, Spends
<1>6. ASSUME NEW u \in Users, NEW k \in Keys, RemoveKey(u, k) PROVE Typed'
  BY <1>6 DEF RemoveKey, Spends
<1>7. ASSUME NEW u \in Users, NEW v \in Users, Recovery(u, v) PROVE Typed'
  BY <1>7 DEF Recovery, Handled, ClaimsCode
<1>8. ASSUME NEW t \in Tokens, TokenLapses(t) PROVE Typed'
  BY <1>8 DEF TokenLapses
<1> HIDE DEF Typed, TypeOK, Held, Status, Titles, Tiers, Rows, TokenState, Ceremonies, Callers,
        Known, Exists, AdminRole, people, roles, keys, tokens, logins
<1> QED
  BY <1>1, <1>2, <1>3, <1>4, <1>5, <1>6, <1>7, <1>8 DEF Personal

\* So do the gate of a reset and a restart.
LEMMA ProcessTyped == Typed /\ (GateReset \/ Restart) => Typed'
<1> SUFFICES ASSUME Typed, GateReset \/ Restart PROVE Typed'
  OBVIOUS
<1> USE Distinct, StepsAssumption DEF Typed, TypeOK, Held, Status, Titles, Tiers, Rows, TokenState, Ceremonies, Callers,
        Known, Exists, AdminRole, people, roles, keys, tokens, logins
<1>1. CASE GateReset
  BY <1>1 DEF GateReset
<1>2. CASE Restart
  BY <1>2 DEF Restart, Handled, Seeded, Loaded
<1> HIDE DEF Typed, TypeOK, Held, Status, Titles, Tiers, Rows, TokenState, Ceremonies, Callers,
        Known, Exists, AdminRole, people, roles, keys, tokens, logins
<1> QED
  BY <1>1, <1>2

\* So do the administrator's handlers.
LEMMA AdministrationTyped == Typed /\ (Administration) => Typed'
<1> SUFFICES ASSUME Typed, Administration PROVE Typed'
  OBVIOUS
<1> USE Distinct, StepsAssumption DEF Typed, TypeOK, Held, Status, Titles, Tiers, Rows, TokenState, Ceremonies, Callers,
        Known, Exists, AdminRole, people, roles, keys, tokens, logins, Admitted, Handled
<1>1. ASSUME NEW x \in Callers, Gate(x) PROVE Typed'
  BY <1>1 DEF Gate
<1>2. ASSUME NEW x \in Callers, Refused(x) PROVE Typed'
  BY <1>2 DEF Refused
<1>3. ASSUME NEW x \in Callers, Reset(x) PROVE Typed'
  BY <1>3 DEF Reset, Handled, Purge
<1>4. ASSUME NEW x \in Callers, NEW u \in Users, NEW t \in Tokens, AdminEnroll(x, u, t) PROVE Typed'
  BY <1>4 DEF AdminEnroll, NewUser, Issues
<1>5. ASSUME NEW x \in Callers, NEW u \in Users, NEW t \in Tokens, NEW R \in SUBSET Roles, CreateUser(x, u, R, t) PROVE Typed'
  <2>1. \A r \in R : Exists(r)
    BY <1>5 DEF CreateUser, JoinsApart
  <2>2. Admitted(x) /\ NewUser(u, R, t)
    BY <1>5 DEF CreateUser
  <2> QED
    BY <2>1, <2>2 DEF NewUser, Issues
<1>6. ASSUME NEW x \in Callers, NEW u \in Users, RemoveUser(x, u) PROVE Typed'
  BY <1>6 DEF RemoveUser, Purge
<1>7. ASSUME NEW x \in Callers, NEW u \in Users, NEW s \in Status \ {"none"}, ConfigureUser(x, u, s) PROVE Typed'
  BY <1>7 DEF ConfigureUser
<1>8. ASSUME NEW x \in Callers, NEW u \in Users, NEW t \in Tokens, ReEnroll(x, u, t) PROVE Typed'
  BY <1>8 DEF ReEnroll, Issues, Revoked
<1>9. ASSUME NEW x \in Callers, NEW u \in Users, NEW t \in Tokens, NewToken(x, u, t) PROVE Typed'
  BY <1>9 DEF NewToken, Issues, Revoked
<1>10. ASSUME NEW x \in Callers, NEW t \in Tokens, RevokeToken(x, t) PROVE Typed'
  BY <1>10 DEF RevokeToken
<1>11. ASSUME NEW x \in Callers, NEW r \in Roles, NEW n \in Titles \ {"none"}, NEW p \in Tiers, CreateRole(x, r, n, p) PROVE Typed'
  BY <1>11 DEF CreateRole, NameFree
<1>12. ASSUME NEW x \in Callers, NEW r \in Roles, NEW n \in Titles \ {"none"}, NEW p \in Tiers, UpdateRole(x, r, n, p) PROVE Typed'
  BY <1>12 DEF UpdateRole, NameFree
<1>13. ASSUME NEW x \in Callers, NEW r \in Roles, DeleteRole(x, r) PROVE Typed'
  BY <1>13 DEF DeleteRole
<1>14. ASSUME NEW x \in Callers, NEW u \in Users, NEW r \in Roles, AddMember(x, u, r) PROVE Typed'
  BY <1>14 DEF AddMember, JoinsApart
<1>15. ASSUME NEW x \in Callers, NEW u \in Users, NEW r \in Roles, RemoveMember(x, u, r) PROVE Typed'
  BY <1>15 DEF RemoveMember
<1> HIDE DEF Typed, TypeOK, Held, Status, Titles, Tiers, Rows, TokenState, Ceremonies, Callers,
        Known, Exists, AdminRole, people, roles, keys, tokens, logins, Admitted, Handled
<1> QED
  BY <1>1, <1>2, <1>3, <1>4, <1>5, <1>6, <1>7, <1>8, <1>9, <1>10, <1>11, <1>12, <1>13, <1>14, <1>15 DEF Administration

\* The types are an invariant of every step.
LEMMA StepTyped == Typed /\ [Next]_vars => Typed'
<1>1. Typed /\ UNCHANGED vars => Typed'
  BY DEF Typed, TypeOK, Held, vars, people, roles, keys, tokens, logins, Known, Exists, AdminRole
<1> QED
  BY <1>1, CeremonyTyped, PersonalTyped, ProcessTyped, AdministrationTyped DEF Next

-----------------------------------------------------------------------------
(* Separation of duties. *)

\* Tiers do not mix when one auditor's tier makes all of them auditor's.
LEMMA MixedPointwise ==
  ASSUME NEW R, NEW f
  PROVE  ~Mixed({f[r] : r \in R}) <=> \A q, r \in R : f[q] = "auditor" => f[r] = "auditor"
BY DEF Mixed

\* The handlers that write memberships, names of roles or tiers.
RoleStep ==
  \/ \E u \in Users, c \in Chals : InitCore(u, c)
  \/ \E u \in Users : InitClash(u)
  \/ \E u, v \in Users : Recovery(u, v)
  \/ Restart
  \/ \E x \in Callers :
       \/ Reset(x)
       \/ \E u \in Users, t \in Tokens :
            AdminEnroll(x, u, t) \/ \E R \in SUBSET Roles : CreateUser(x, u, R, t)
       \/ \E u \in Users : RemoveUser(x, u)
       \/ \E r \in Roles, n \in Titles \ {"none"}, p \in Tiers :
            CreateRole(x, r, n, p) \/ UpdateRole(x, r, n, p)
       \/ \E r \in Roles : DeleteRole(x, r)
       \/ \E u \in Users, r \in Roles : AddMember(x, u, r) \/ RemoveMember(x, u, r)

\* Nobody else does.
LEMMA OthersSpareRoles == [Next]_vars => RoleStep \/ UNCHANGED roles
<1>1. Ceremony => RoleStep \/ UNCHANGED roles
  BY DEF Ceremony, RoleStep, Abandon, LoginStart, LoginComplete, EnrollStart, EnrollComplete,
         AddKeyStart, InitComplete, AddKeyComplete
<1>2. Personal => RoleStep \/ UNCHANGED roles
  BY DEF Personal, RoleStep, Logout, Touch, Wasted, ReissueCode, RemoveKey, TokenLapses
<1>3. GateReset \/ Restart => RoleStep \/ UNCHANGED roles
  BY DEF GateReset, RoleStep
<1>4. Administration => RoleStep \/ UNCHANGED roles
  BY DEF Administration, RoleStep, Gate, Refused, ConfigureUser, ReEnroll, NewToken, RevokeToken
<1>5. UNCHANGED vars => UNCHANGED roles
  BY DEF vars
<1> QED
  BY <1>1, <1>2, <1>3, <1>4, <1>5 DEF Next

\* Every way to a membership or to a tier keeps auditors apart.
LEMMA StepApart == Typed /\ AuditorsApart /\ [Next]_vars => AuditorsApart'
<1> SUFFICES ASSUME Typed, AuditorsApart, [Next]_vars PROVE AuditorsApart'
  OBVIOUS
<1> DEFINE Alike(m, t) == \A u \in Users : \A q, r \in m[u] : t[q] = "auditor" => t[r] = "auditor"
<1>1. Alike(member, tier)
  BY MixedPointwise DEF AuditorsApart, TiersOf
<1>2. SUFFICES Alike(member', tier')
  BY MixedPointwise DEF AuditorsApart, TiersOf
<1>3. /\ member \in [Users -> SUBSET Roles]
      /\ \A u \in Users : member[u] \subseteq {r \in Roles : Exists(r)}
      /\ title \in [Roles -> Titles] /\ tier \in [Roles -> Tiers]
      /\ \A q, r \in Roles : {q, r} \subseteq AdminRole => q = r
  BY DEF Typed, TypeOK
<1>4. /\ title' \in [Roles -> Titles]
      /\ \A q, r \in Roles : title'[q] = "admin" /\ title'[r] = "admin" => q = r
  BY StepTyped DEF Typed, TypeOK, AdminRole
\* Seeding gives a role that nobody holds its tier.
<1>5. ASSUME Seeded, NEW r \in Roles, title[r] # "none" PROVE tier'[r] = tier[r]
  BY <1>3, <1>5 DEF Seeded, Exists
<1>6. ASSUME NEW u \in Users, NEW c \in Chals, InitCore(u, c) PROVE Alike(member', tier')
  <2>1. Seeded /\ member' = [v \in Users |-> IF v = u THEN {r \in Roles : title'[r] = "admin"}
                               ELSE IF v \in Roster \ enrolled THEN {} ELSE member[v]]
    BY <1>6 DEF InitCore
  <2> QED
    BY <1>1, <1>3, <1>4, <1>5, <2>1 DEF Exists
<1>7. ASSUME NEW u \in Users, InitClash(u) PROVE Alike(member', tier')
  BY <1>1, <1>7 DEF InitClash
<1>8. ASSUME NEW u \in Users, NEW v \in Users, Recovery(u, v) PROVE Alike(member', tier')
  BY <1>1, <1>3, <1>8 DEF Recovery, AdminRole
<1>9. ASSUME Restart PROVE Alike(member', tier')
  BY <1>1, <1>3, <1>5, <1>9 DEF Restart, Exists
<1>10. ASSUME NEW x \in Callers, Reset(x) PROVE Alike(member', tier')
  BY <1>10 DEF Reset
<1>11. ASSUME NEW x \in Callers, NEW u \in Users, NEW t \in Tokens, AdminEnroll(x, u, t)
       PROVE  Alike(member', tier')
  BY <1>1, <1>3, <1>11 DEF AdminEnroll, NewUser
<1>12. ASSUME NEW x \in Callers, NEW u \in Users, NEW t \in Tokens, NEW R \in SUBSET Roles,
              CreateUser(x, u, R, t)
       PROVE  Alike(member', tier')
  <2>1. \A r \in R : ~Mixed(TiersOf(R \cup {r}))
    BY <1>12 DEF CreateUser, JoinsApart
  <2>2. \A q, r \in R : tier[q] = "auditor" => tier[r] = "auditor"
    BY <2>1, MixedPointwise DEF TiersOf
  <2> QED
    BY <1>1, <1>3, <1>12, <2>2 DEF CreateUser, NewUser
<1>13. ASSUME NEW x \in Callers, NEW u \in Users, RemoveUser(x, u) PROVE Alike(member', tier')
  BY <1>1, <1>3, <1>13 DEF RemoveUser
<1>14. ASSUME NEW x \in Callers, NEW r \in Roles, NEW n \in Titles \ {"none"}, NEW p \in Tiers,
              CreateRole(x, r, n, p)
       PROVE  Alike(member', tier')
  BY <1>1, <1>3, <1>14 DEF CreateRole, Exists
<1>15. ASSUME NEW x \in Callers, NEW r \in Roles, NEW n \in Titles \ {"none"}, NEW p \in Tiers,
              UpdateRole(x, r, n, p)
       PROVE  Alike(member', tier')
  <2>1. member' = member /\ tier' = [tier EXCEPT ![r] = p]
    BY <1>15 DEF UpdateRole
  <2>2. CASE p = tier[r]
    BY <1>1, <1>3, <2>1, <2>2
  <2>3. CASE RetierApart(r, p)
    <3> SUFFICES ASSUME NEW u \in Users, NEW q \in member[u], NEW s \in member[u],
                        tier'[q] = "auditor"
                 PROVE  tier'[s] = "auditor"
      BY <2>1
    <3>1. CASE r \notin member[u]
      BY <1>1, <1>3, <2>1, <3>1
    <3>2. CASE r \in member[u]
      <4>1. ~Mixed({tier[o] : o \in member[u] \ {r}} \cup {p})
        BY <2>3, <3>2 DEF RetierApart, TiersOf
      <4>2. {tier'[o] : o \in member[u]} = {tier[o] : o \in member[u] \ {r}} \cup {p}
        BY <1>3, <2>1, <3>2
      <4>3. ~Mixed({tier'[o] : o \in member[u]})
        BY <4>1, <4>2
      <4>4. \A o, w \in member[u] : tier'[o] = "auditor" => tier'[w] = "auditor"
        BY <4>3, MixedPointwise
      <4> QED
        BY <4>4
    <3> QED
      BY <3>1, <3>2
  <2> QED
    BY <1>15, <2>2, <2>3 DEF UpdateRole
<1>16. ASSUME NEW x \in Callers, NEW r \in Roles, DeleteRole(x, r) PROVE Alike(member', tier')
  BY <1>1, <1>3, <1>16 DEF DeleteRole
<1>17. ASSUME NEW x \in Callers, NEW u \in Users, NEW r \in Roles, AddMember(x, u, r)
       PROVE  Alike(member', tier')
  <2>1. ~Mixed(TiersOf(member[u] \cup {r}))
    BY <1>17 DEF AddMember, JoinsApart
  <2>2. \A q, s \in member[u] \cup {r} : tier[q] = "auditor" => tier[s] = "auditor"
    BY <2>1, MixedPointwise DEF TiersOf
  <2> QED
    BY <1>1, <1>3, <1>17, <2>2 DEF AddMember
<1>18. ASSUME NEW x \in Callers, NEW u \in Users, NEW r \in Roles, RemoveMember(x, u, r)
       PROVE  Alike(member', tier')
  BY <1>1, <1>3, <1>18 DEF RemoveMember
<1>19. CASE UNCHANGED roles
  BY <1>1, <1>19 DEF roles
<1> HIDE DEF Alike
<1> QED
  BY <1>6, <1>7, <1>8, <1>9, <1>10, <1>11, <1>12, <1>13, <1>14, <1>15, <1>16, <1>17, <1>18, <1>19,
     OthersSpareRoles DEF RoleStep

-----------------------------------------------------------------------------
(* The cache of keys. *)

\* Rows change and the cache stays, where a user goes or is enrolled again: no
\* key becomes active by that.
LEMMA PurgeAgrees ==
  ASSUME CacheAgrees, NEW S, Purge(S), UNCHANGED <<owner, mem>>
  PROVE  CacheAgrees'
BY DEF CacheAgrees, Purge

\* A new key is stored in the cache under the user it is committed for.
LEMMA RegistersAgrees ==
  ASSUME Typed, CacheAgrees, NEW k \in Keys, NEW c, Registers(k, chal[c].user, c)
  PROVE  CacheAgrees'
BY DEF CacheAgrees, Registers, Typed, TypeOK

\* Every handler keeps the cache in step with the rows that count.
LEMMA StepAgrees == Typed /\ CacheAgrees /\ [Next]_vars => CacheAgrees'
<1> SUFFICES ASSUME Typed, CacheAgrees, [Next]_vars PROVE CacheAgrees'
  OBVIOUS
<1>1. CASE UNCHANGED keys
  BY <1>1 DEF keys, CacheAgrees
<1>2. ASSUME NEW c \in Chals, NEW t \in Tokens, NEW k \in Keys, EnrollComplete(t, c, k)
      PROVE  CacheAgrees'
  BY <1>2, RegistersAgrees DEF EnrollComplete, SameUser
<1>3. ASSUME NEW c \in Chals, NEW u \in Users, NEW k \in Keys, InitComplete(u, c, k)
      PROVE  CacheAgrees'
  BY <1>3, RegistersAgrees DEF InitComplete
<1>4. ASSUME NEW c \in Chals, NEW u \in Users, NEW k \in Keys, AddKeyComplete(u, c, k)
      PROVE  CacheAgrees'
  BY <1>4, RegistersAgrees DEF AddKeyComplete
<1>5. ASSUME NEW c \in Chals, NEW u \in Users, InitCore(u, c) PROVE CacheAgrees'
  BY <1>5, PurgeAgrees DEF InitCore
<1>6. ASSUME NEW u \in Users, InitClash(u) PROVE CacheAgrees'
  BY <1>6, PurgeAgrees DEF InitClash
<1>7. ASSUME NEW u \in Users, NEW k \in Keys, RemoveKey(u, k) PROVE CacheAgrees'
  BY <1>7 DEF RemoveKey, CacheAgrees, Typed, TypeOK
<1>8. ASSUME Restart PROVE CacheAgrees'
  BY <1>8 DEF Restart, Loaded, CacheAgrees
<1>9. ASSUME NEW x \in Callers, Reset(x) PROVE CacheAgrees'
  BY <1>9, PurgeAgrees DEF Reset
<1>10. ASSUME NEW x \in Callers, NEW u \in Users, RemoveUser(x, u) PROVE CacheAgrees'
  BY <1>10, PurgeAgrees DEF RemoveUser
<1>11. ASSUME NEW x \in Callers, NEW u \in Users, NEW t \in Tokens, ReEnroll(x, u, t)
       PROVE  CacheAgrees'
  BY <1>11 DEF ReEnroll, CacheAgrees
<1>12. CASE Ceremony
  BY <1>12, <1>1, <1>2, <1>3, <1>4, <1>5
     DEF Ceremony, Abandon, LoginStart, LoginComplete, EnrollStart, AddKeyStart
<1>13. CASE Personal
  BY <1>13, <1>1, <1>6, <1>7
     DEF Personal, Logout, Touch, Wasted, ReissueCode, Recovery, TokenLapses
<1>14. CASE GateReset
  BY <1>14, <1>1 DEF GateReset
<1>15. CASE Administration
  BY <1>15, <1>1, <1>9, <1>10, <1>11
     DEF Administration, Gate, Refused, AdminEnroll, CreateUser, NewUser, ConfigureUser, NewToken,
         RevokeToken, CreateRole, UpdateRole, DeleteRole, AddMember, RemoveMember
<1>16. CASE UNCHANGED vars
  BY <1>16, <1>1 DEF vars
<1> QED
  BY <1>8, <1>12, <1>13, <1>14, <1>15, <1>16 DEF Next

-----------------------------------------------------------------------------
(* The invariants. *)

\* Types, separation and the cache are kept together.
THEOREM Invariance == Spec => []Inv
<1>1. Init => Inv
  BY InitTyped DEF Init, Inv, AuditorsApart, CacheAgrees, TiersOf, Mixed
<1>2. Inv /\ [Next]_vars => Inv'
  BY StepTyped, StepApart, StepAgrees DEF Inv
<1> QED
  BY <1>1, <1>2, PTL DEF Spec

\* Rows refer to rows, whatever handlers run between the check of a request
\* and its own: TypeOK of Identity.
THEOREM TypeCorrect == Spec => []TypeOK
<1>1. Inv => TypeOK
  BY DEF Inv, Typed
<1> QED
  BY <1>1, Invariance, PTL

\* Nobody ever holds the auditor's tier with another one: creating users,
\* joining roles, changing a role's tier, seeding and recovery all keep it.
THEOREM AuditorsStayApart == Spec => []AuditorsApart
<1>1. Inv => AuditorsApart
  BY DEF Inv
<1> QED
  BY <1>1, Invariance, PTL

\* An active key signs in its owner, with the cache the routes keep by hand.
THEOREM CacheStaysInStep == Spec => []CacheAgrees
<1>1. Inv => CacheAgrees
  BY DEF Inv
<1> QED
  BY <1>1, Invariance, PTL

-----------------------------------------------------------------------------
(* What a step never does. *)

\* A step that opens no session leaves u's as it is or ends it.
Settled == \A u \in Users : session'[u] \in {session[u], None}

\* Purge ends sessions at most.
LEMMA PurgeSettled ==
  ASSUME Typed, NEW S, Purge(S)
  PROVE  Settled
BY DEF Settled, Purge, Typed, TypeOK

\* A session opens for a key that is active: the row has the last word in
\* finish_authentication, and an enrollment has just committed it.
THEOREM RetiredKeysOpenNothing == Spec => RetiredKeysStayOut
<1> DEFINE P == \A u \in Users : session'[u] \notin {session[u], None} => key'[session'[u]] = "active"
<1>1. Inv /\ [Next]_vars =>
        [\A u \in Users : session'[u] \notin {session[u], None} => key'[session'[u]] = "active"]_vars
  <2> SUFFICES ASSUME Inv, [Next]_vars PROVE P
    OBVIOUS
  <2>1. Typed
    BY DEF Inv
  <2>2. CASE Settled
    BY <2>2 DEF Settled
  <2>3. CASE UNCHANGED session
    BY <2>3
  <2>4. ASSUME NEW c \in Chals, NEW k \in Keys, LoginComplete(c, k) PROVE P
    BY <2>1, <2>4 DEF LoginComplete, Authenticates, Typed, TypeOK, keys
  <2>5. ASSUME NEW c \in Chals, NEW t \in Tokens, NEW k \in Keys, EnrollComplete(t, c, k) PROVE P
    BY <2>1, <2>5 DEF EnrollComplete, Registers, Typed, TypeOK
  <2>6. ASSUME NEW u \in Users, Logout(u) PROVE P
    BY <2>1, <2>6 DEF Logout, Typed, TypeOK
  <2> HIDE DEF P
  <2>7. CASE Ceremony
    BY <2>1, <2>2, <2>3, <2>4, <2>5, <2>7, PurgeSettled
       DEF Ceremony, Abandon, LoginStart, EnrollStart, InitCore, AddKeyStart, InitComplete,
           AddKeyComplete, logins
  <2>8. CASE Personal
    BY <2>1, <2>2, <2>3, <2>6, <2>8, PurgeSettled
       DEF Personal, Touch, Wasted, InitClash, ReissueCode, RemoveKey, Recovery, TokenLapses, logins
  <2>9. CASE GateReset \/ Restart \/ UNCHANGED vars
    BY <2>3, <2>9 DEF GateReset, Restart, vars, logins
  <2>10. CASE Administration
    <3>1. ASSUME NEW x \in Callers, Reset(x) PROVE P
      BY <2>1, <2>2, <3>1, PurgeSettled DEF Reset
    <3>2. ASSUME NEW x \in Callers, NEW u \in Users, RemoveUser(x, u) PROVE P
      BY <2>1, <2>2, <3>2, PurgeSettled DEF RemoveUser
    <3>3. \A x : Gate(x) \/ Refused(x) => UNCHANGED session
      BY DEF Gate, Refused, logins
    <3>4. \A x, u, t, R : AdminEnroll(x, u, t) \/ CreateUser(x, u, R, t) => UNCHANGED session
      BY DEF AdminEnroll, CreateUser, NewUser, logins
    <3>5. \A x, u, t, s : ConfigureUser(x, u, s) \/ ReEnroll(x, u, t) \/ NewToken(x, u, t) \/ RevokeToken(x, t)
                          => UNCHANGED session
      BY DEF ConfigureUser, ReEnroll, NewToken, RevokeToken, logins
    <3>6. \A x, u, r, n, p : \/ CreateRole(x, r, n, p) \/ UpdateRole(x, r, n, p) \/ DeleteRole(x, r)
                             \/ AddMember(x, u, r) \/ RemoveMember(x, u, r)
                             => UNCHANGED session
      BY DEF CreateRole, UpdateRole, DeleteRole, AddMember, RemoveMember, logins
    <3> QED
      BY <2>3, <2>10, <3>1, <3>2, <3>3, <3>4, <3>5, <3>6 DEF Administration
  <2> QED
    BY <2>7, <2>8, <2>9, <2>10 DEF Next
<1> QED
  BY <1>1, Invariance, PTL DEF RetiredKeysStayOut, Spec

\* The caller whom nobody signed in looks again under the lock, so a reset that
\* was admitted too early wipes no core that has an owner by then.
THEOREM BootstrapWipesNoOwnedCore == Spec => BootstrapSparesOwners
<1>1. [Next]_vars => [Initialized /\ Bootstrap \in gate \ gate' => status' = status]_vars
  <2> SUFFICES ASSUME [Next]_vars, Initialized, Bootstrap \in gate, Bootstrap \notin gate'
               PROVE  status' = status
    OBVIOUS
  <2>1. ~Ceremony
    BY DEF Ceremony, Abandon, LoginStart, LoginComplete, EnrollStart, EnrollComplete, InitCore,
           AddKeyStart, InitComplete, AddKeyComplete
  <2>2. ~Personal
    BY DEF Personal, Logout, Touch, Wasted, InitClash, ReissueCode, RemoveKey, Recovery, TokenLapses
  <2>3. CASE GateReset \/ Restart \/ UNCHANGED vars
    BY <2>3 DEF GateReset, Restart, people, vars
  <2>4. ASSUME NEW x \in Callers PROVE ~Admitted(x) /\ ~Gate(x) /\ ~Reset(x)
    BY DEF Admitted, Gate, Reset, MayReset
  <2>5. CASE Administration
    BY <2>4, <2>5
       DEF Administration, Refused, AdminEnroll, CreateUser, RemoveUser, ConfigureUser, ReEnroll,
           NewToken, RevokeToken, CreateRole, UpdateRole, DeleteRole, AddMember, RemoveMember, people
  <2> QED
    BY <2>1, <2>2, <2>3, <2>5 DEF Next
<1> QED
  BY <1>1, PTL DEF BootstrapSparesOwners, Spec

\* The members that a handler takes from the role named admin leave one over,
\* unless nobody of them had enrolled.
LEMMA RosterKept ==
  ASSUME Typed, [Next]_vars, Roster # {}, AdminRole' = AdminRole, EnrolledAdmin
  PROVE  Roster' # {}
<1>1. /\ member \in [Users -> SUBSET Roles]
      /\ \A u \in Users : ~Known(u) => member[u] = {}
      /\ \A q, r \in AdminRole : q = r
  BY DEF Typed, TypeOK, AdminRole
<1>2. SUFFICES \E u \in Users : member'[u] \cap AdminRole # {}
  BY DEF Roster
<1>3. PICK w \in Users : member[w] \cap AdminRole # {}
  BY DEF Roster
<1>4. ASSUME \A u \in Users : member[u] \subseteq member'[u]
      PROVE  \E u \in Users : member'[u] \cap AdminRole # {}
  BY <1>3, <1>4
\* One of several members is taken.
<1>5. ASSUME NEW u \in Users, u \in Roster => Cardinality(Roster) > 1,
             \A v \in Users \ {u} : member'[v] = member[v]
      PROVE  \E v \in Users : member'[v] \cap AdminRole # {}
  <2>1. Roster # {u}
    <3> SUFFICES ASSUME Roster = {u} PROVE FALSE
      OBVIOUS
    <3>1. Cardinality({u}) = 1
      BY FS_Singleton
    <3> QED
      BY <1>5, <3>1
  <2>2. PICK v \in Roster : v # u
    BY <2>1
  <2> QED
    BY <1>5, <2>2 DEF Roster
<1>6. \A u, c : ~InitCore(u, c) /\ ~InitClash(u)
  BY DEF InitCore, InitClash
<1>7. ASSUME NEW u \in Users, NEW v \in Users, Recovery(u, v)
      PROVE  \E o \in Users : member'[o] \cap AdminRole # {}
  BY <1>1, <1>4, <1>7 DEF Recovery
<1>8. ASSUME NEW x \in Callers PROVE ~Reset(x)
  <2> SUFFICES ASSUME Reset(x) PROVE FALSE
    OBVIOUS
  <2>1. PICK r \in Roles : title[r] = "admin"
    BY <1>3 DEF AdminRole
  <2>2. title'[r] = "none"
    BY <2>1 DEF Reset, AdminRole
  <2> QED
    BY <2>1, <2>2 DEF AdminRole
<1>9. ASSUME NEW u \in Users, NEW R, NEW t, NewUser(u, R, t)
      PROVE  \E o \in Users : member'[o] \cap AdminRole # {}
  BY <1>1, <1>4, <1>9 DEF NewUser
<1>10. ASSUME NEW x \in Callers, NEW u \in Users, RemoveUser(x, u)
       PROVE  \E o \in Users : member'[o] \cap AdminRole # {}
  <2>1. AdminRole # {} /\ AdminRole \subseteq Roles
    BY <1>3 DEF AdminRole
  <2>2. u \in Roster => Cardinality(Roster) > 1
    BY <1>10, <2>1 DEF RemoveUser, RemovalKeepsAdmin
  <2>3. \A v \in Users \ {u} : member'[v] = member[v]
    BY <1>1, <1>10 DEF RemoveUser
  <2> QED
    BY <1>5, <2>2, <2>3
<1>11. ASSUME NEW x \in Callers, NEW u \in Users, NEW r \in Roles, AddMember(x, u, r)
       PROVE  \E o \in Users : member'[o] \cap AdminRole # {}
  BY <1>1, <1>4, <1>11 DEF AddMember
<1>12. ASSUME NEW x \in Callers, NEW u \in Users, NEW r \in Roles, RemoveMember(x, u, r)
       PROVE  \E o \in Users : member'[o] \cap AdminRole # {}
  <2>1. member' = [member EXCEPT ![u] = @ \ {r}] /\ RemovalKeepsAdmin(x, u, {r})
    BY <1>12 DEF RemoveMember
  <2>2. CASE r \in AdminRole
    <3>1. AdminRole # {} /\ AdminRole \subseteq {r}
      BY <1>1, <2>2
    <3>2. u \in Roster => Cardinality(Roster) > 1
      BY <2>1, <3>1 DEF RemovalKeepsAdmin
    <3>3. \A v \in Users \ {u} : member'[v] = member[v]
      BY <1>1, <2>1
    <3> QED
      BY <1>5, <3>2, <3>3
  <2>3. CASE r \notin AdminRole
    BY <1>1, <1>3, <2>1, <2>3
  <2> QED
    BY <2>2, <2>3
<1>13. CASE UNCHANGED member
  BY <1>3, <1>13
<1>14. CASE RoleStep
  <2>1. ASSUME NEW x, NEW u \in Users, NEW t, NEW R, AdminEnroll(x, u, t) \/ CreateUser(x, u, R, t)
        PROVE  \E o \in Users : member'[o] \cap AdminRole # {}
    BY <1>9, <2>1 DEF AdminEnroll, CreateUser
  <2>2. \A x, r, n, p : Restart \/ CreateRole(x, r, n, p) \/ UpdateRole(x, r, n, p) \/ DeleteRole(x, r)
                        => UNCHANGED member
    BY DEF Restart, CreateRole, UpdateRole, DeleteRole
  <2> QED
    BY <1>6, <1>7, <1>8, <1>10, <1>11, <1>12, <1>13, <1>14, <2>1, <2>2 DEF RoleStep
<1> QED
  BY <1>13, <1>14, OthersSpareRoles DEF roles

\* An account becomes disabled only by admin_configure_user, which leaves some
\* usable administrator.
LEMMA UsableKept ==
  ASSUME Typed, [Next]_vars, NEW u \in Usable, status'[u] = "disabled"
  PROVE  Usable' # {}
<1>1. /\ u \in Users /\ status[u] = "active"
      /\ status \in [Users -> Status]
  BY DEF Usable, Roster, Typed, TypeOK
<1>2. ~UNCHANGED status
  BY <1>1
<1>3. \A S : status' # [v \in Users |-> IF v \in S THEN "none" ELSE status[v]]
  BY <1>1
<1>4. \A v \in Users : \A s \in {"active", "pending_enrollment", "none"} :
        status' # [status EXCEPT ![v] = s]
  BY <1>1
<1>5. ASSUME NEW c \in Chals PROVE \A v \in Users : ~InitCore(v, c)
  BY <1>1 DEF InitCore
<1>6. ASSUME NEW x \in Callers PROVE ~Reset(x)
  BY <1>1 DEF Reset
<1>7. ASSUME NEW c \in Chals, NEW t \in Tokens, NEW k \in Keys PROVE ~EnrollComplete(t, c, k)
  BY <1>1 DEF EnrollComplete
<1>8. ~Ceremony
  BY <1>2, <1>4, <1>5, <1>7
     DEF Ceremony, Abandon, LoginStart, LoginComplete, EnrollStart, AddKeyStart, InitComplete,
         AddKeyComplete, people
<1>9. ~Personal
  BY <1>2, <1>3, <1>4
     DEF Personal, Logout, Touch, Wasted, InitClash, ReissueCode, RemoveKey, Recovery, TokenLapses,
         people
<1>10. ~GateReset /\ ~Restart /\ ~UNCHANGED vars
  BY <1>2 DEF GateReset, Restart, vars, people
<1>11. PICK x \in Callers, v \in Users, s \in Status \ {"none"} : ConfigureUser(x, v, s)
  <2>1. Administration
    BY <1>8, <1>9, <1>10 DEF Next
  <2>2. \A y : ~Gate(y) /\ ~Refused(y)
    BY <1>2 DEF Gate, Refused, people
  <2>3. \A y, t, R : \A o \in Users : ~AdminEnroll(y, o, t) /\ ~CreateUser(y, o, R, t)
    BY <1>4 DEF AdminEnroll, CreateUser, NewUser
  <2>4. \A y, t : \A o \in Users : ~RemoveUser(y, o) /\ ~ReEnroll(y, o, t)
    BY <1>4 DEF RemoveUser, ReEnroll
  <2>5. \A y, o, t : ~NewToken(y, o, t) /\ ~RevokeToken(y, t)
    BY <1>2 DEF NewToken, RevokeToken, people
  <2>6. \A y, o, r, n, p : /\ ~CreateRole(y, r, n, p) /\ ~UpdateRole(y, r, n, p) /\ ~DeleteRole(y, r)
                           /\ ~AddMember(y, o, r) /\ ~RemoveMember(y, o, r)
    BY <1>2 DEF CreateRole, UpdateRole, DeleteRole, AddMember, RemoveMember, people
  <2> QED
    BY <1>6, <2>1, <2>2, <2>3, <2>4, <2>5, <2>6 DEF Administration
<1>12. /\ status' = [status EXCEPT ![v] = s] /\ StatusKeepsAdmin(v, s)
       /\ UNCHANGED <<member, title>>
  BY <1>11 DEF ConfigureUser, roles
<1>13. v = u /\ s = "disabled"
  BY <1>1, <1>12
<1>14. PICK w \in Usable : w # u
  BY <1>12, <1>13 DEF StatusKeepsAdmin
<1>15. w \in Usable'
  BY <1>1, <1>12, <1>13, <1>14 DEF Usable, Roster, AdminRole
<1> QED
  BY <1>15

\* AdminLockoutError holds its promise: the role named admin is emptied only by
\* a reset, by a new name or before anyone enrolled, and the last usable
\* administrator is not disabled.
THEOREM AdministratorsRemain == Spec => AdminKept
<1>1. Inv /\ [Next]_vars =>
        [/\ Roster # {} /\ Roster' = {} => AdminRole' # AdminRole \/ ~EnrolledAdmin
         /\ Usable # {} /\ Usable' = {} => \A u \in Usable : status'[u] # "disabled"]_vars
  BY RosterKept, UsableKept DEF Inv
<1> QED
  BY <1>1, Invariance, PTL DEF AdminKept, Spec

=============================================================================
