------------------------------ MODULE Identity ------------------------------
(***************************************************************************)
(* Who is who in the core: users and their roles, the first administrator, *)
(* enrollment tokens, security keys and the recovery code.                 *)
(*                                                                         *)
(* The handlers are coroutines without an await, so each is one step; the  *)
(* administrator's check is a synchronous dependency that runs in a worker *)
(* thread before the handler (gate), and the handler trusts its answer.    *)
(* Security keys live twice: as rows, and in a cache of the process that   *)
(* is loaded at start and that the routes keep up to date by hand.  A      *)
(* ceremony is a stored challenge that the first attempt to finish claims. *)
(***************************************************************************)
EXTENDS FiniteSets, Naturals

CONSTANTS Users,     \* user names
          Keys,      \* security-key credentials
          Tokens,    \* enrollment tokens
          Chals,     \* stored registration and login challenges
          Roles,     \* role rows
          Machine,   \* an administrator certificate of the machine plane
          Bootstrap, \* the caller of a reset nobody had to sign in for
          None,
          MaxTokens, \* active enrollment tokens a user may have
          MaxGate,   \* bound on requests between their check and their handler
          Steps      \* bound on what administrators do, and on restarts

ASSUME Distinct == {Machine, Bootstrap, None} \cap Users = {}
ASSUME StepsAssumption == Steps \in Nat

VARIABLES
    status,    \* users.status
    enrolled,  \* users whose enrolled_at is set
    code,      \* users who have a recovery code
    member,    \* role_members
    title,     \* a role's name, as far as the code tells names apart
    tier,      \* a role's permissions
    key,       \* webauthn_credentials.is_active
    owner,     \* webauthn_credentials.user_id
    mem,       \* the process's credential cache: the user a key signs in
    tok,       \* an enrollment token's state
    holder,    \* the user it enrolls
    chal,      \* pending ceremonies
    session,   \* the key that opened the user's session
    touched,   \* users who hold an unused elevation token
    gate,      \* callers admitted, not yet handled
    steps      \* how many of those there were

people == <<status, enrolled, code>>
roles  == <<member, title, tier>>
keys   == <<key, owner, mem>>
tokens == <<tok, holder>>
logins == <<session, touched>>
vars   == <<people, roles, keys, tokens, chal, logins, gate, steps>>

Callers == Users \cup {Machine, Bootstrap}
Status  == {"none", "pending_enrollment", "active", "disabled"}
Titles  == {"none", "admin", "custom"}
Tiers   == {"read", "read-write", "auditor"}
Rows    == {"fresh", "active", "inactive", "deleted"}
TokenState == {"none", "created", "in_progress", "completed", "revoked", "lapsed", "deleted"}
Ceremonies == [kind : {"register", "login"}, user : Users \cup {None}]

Known(u)  == status[u] # "none"
Exists(r) == title[r] # "none"

\* _admin_role_and_members: the role named admin, if there is one, and its
\* members; usable_admin_ids: those with an active account.
AdminRole == {r \in Roles : title[r] = "admin"}
Roster    == {u \in Users : member[u] \cap AdminRole # {}}
Usable    == {u \in Roster : status[u] = "active"}

Init == /\ status = [u \in Users |-> "none"]
        /\ enrolled = {}
        /\ code = {}
        /\ member = [u \in Users |-> {}]
        /\ \E r \in Roles :
             /\ title = [q \in Roles |-> IF q = r THEN "admin" ELSE "none"]
             /\ tier = [q \in Roles |-> IF q = r THEN "read-write" ELSE "read"]
        /\ key = [k \in Keys |-> "fresh"]
        /\ owner = [k \in Keys |-> None]
        /\ mem = [k \in Keys |-> None]
        /\ tok = [t \in Tokens |-> "none"]
        /\ holder = [t \in Tokens |-> None]
        /\ chal = [c \in Chals |-> None]
        /\ session = [u \in Users |-> None]
        /\ touched = {}
        /\ gate = {}
        /\ steps = 0

\* A handler that the bound counts.
Handled == steps < Steps /\ steps' = steps + 1

-----------------------------------------------------------------------------
(* Ceremonies. *)

\* start_registration and start_authentication: the challenge is committed.
Challenge(c, kind, u) ==
    /\ chal[c] = None
    /\ chal' = [chal EXCEPT ![c] = [kind |-> kind, user |-> u]]

\* get_challenge claims the row before anything about the answer is verified.
Claims(c, kind) == /\ chal[c] # None
                   /\ chal[c].kind = kind
                   /\ chal' = [chal EXCEPT ![c] = None]

\* The new credential is committed for u, then stored in the cache under the
\* user the challenge was issued for.
Registers(k, u, c) == /\ key[k] = "fresh"
                      /\ key' = [key EXCEPT ![k] = "active"]
                      /\ owner' = [owner EXCEPT ![k] = u]
                      /\ mem' = [mem EXCEPT ![k] = chal[c].user]

\* A ceremony is refused after the claim, or nobody answers in time.
Abandon(c) == /\ chal[c] # None
              /\ chal' = [chal EXCEPT ![c] = None]
              /\ UNCHANGED <<people, roles, keys, tokens, logins, gate, steps>>

\* auth_login_start and browser_login_start: for a user, or for whoever owns
\* the key that answers.
LoginStart(c, u) == /\ Challenge(c, "login", u)
                    /\ UNCHANGED <<people, roles, keys, tokens, logins, gate, steps>>

\* Mutation: the row is not asked.
AuthenticatesFromCache(k, c) == /\ mem[k] # None
                                /\ chal[c].user \in {None, mem[k]}

\* finish_authentication: the cache knows the key and whose it is, the row
\* has the last word on whether it still counts.
Authenticates(k, c) == /\ mem[k] # None
                       /\ chal[c].user \in {None, mem[k]}
                       /\ key[k] = "active"

\* auth_login_complete and browser_login_complete: create_session refuses a
\* user who is not active.
LoginComplete(c, k) == /\ Claims(c, "login")
                       /\ Authenticates(k, c)
                       /\ status[mem[k]] = "active"
                       /\ session' = [session EXCEPT ![mem[k]] = k]
                       /\ UNCHANGED <<people, roles, keys, tokens, touched, gate, steps>>

\* The bearer middleware accepts u's session while the account is active.
SignedIn(u) == session[u] # None /\ status[u] = "active"

\* auth_logout and browser_logout; the session's elevations go with it.
Logout(u) == /\ session[u] # None
             /\ session' = [session EXCEPT ![u] = None]
             /\ touched' = touched \ {u}
             /\ UNCHANGED <<people, roles, keys, tokens, chal, gate, steps>>

\* elevate_assert: a touch of one of the user's own keys.
Touch(u) == /\ SignedIn(u)
            /\ \E k \in Keys : mem[k] = u /\ key[k] = "active"
            /\ touched' = touched \cup {u}
            /\ UNCHANGED <<people, roles, keys, tokens, chal, session, gate, steps>>

\* The elevation is committed as used before the handler looks further.
Spends(u) == /\ SignedIn(u)
             /\ u \in touched
             /\ touched' = touched \ {u}

\* _verify_elevation passes and the handler refuses all the same, or the
\* elevation expires.
Wasted(u) == /\ u \in touched
             /\ touched' = touched \ {u}
             /\ UNCHANGED <<people, roles, keys, tokens, chal, session, gate, steps>>

-----------------------------------------------------------------------------
(* The first administrator. *)

\* ensure_seed_roles: the role named admin, where it is missing.  The other
\* seeded role, user, is a custom one here: a reset deletes it and a start
\* puts it back, without members both times.
Seeded ==
    \/ AdminRole # {} /\ UNCHANGED <<title, tier>>
    \/ /\ AdminRole = {}
       /\ \E r \in Roles : /\ ~Exists(r)
                           /\ title' = [title EXCEPT ![r] = "admin"]
                           /\ tier' = [tier EXCEPT ![r] = "read-write"]

\* _enrolled_admin_present, and the count init_core refuses on.
EnrolledAdmin == Roster \cap enrolled # {}

\* deployment_is_initialized: a user has enrolled, or a key row exists.
Initialized == enrolled # {} \/ \E k \in Keys : key[k] \in {"active", "inactive"}

\* Mutation: the elevations are left to their expiry.
PurgeSparing(S) ==
    /\ enrolled' = enrolled \ S
    /\ code' = code \ S
    /\ key' = [k \in Keys |-> IF owner[k] \in S /\ key[k] # "fresh" THEN "deleted" ELSE key[k]]
    /\ tok' = [t \in Tokens |-> IF holder[t] \in S THEN "deleted" ELSE tok[t]]
    /\ session' = [u \in Users |-> IF u \in S THEN None ELSE session[u]]
    /\ UNCHANGED touched

\* What goes with the rows of the users in S: the database cascades.
Purge(S) ==
    /\ enrolled' = enrolled \ S
    /\ code' = code \ S
    /\ key' = [k \in Keys |-> IF owner[k] \in S /\ key[k] # "fresh" THEN "deleted" ELSE key[k]]
    /\ tok' = [t \in Tokens |-> IF holder[t] \in S THEN "deleted" ELSE tok[t]]
    /\ session' = [u \in Users |-> IF u \in S THEN None ELSE session[u]]
    /\ touched' = touched \ S

\* init_core: refused once an administrator has enrolled.  Otherwise pending
\* administrators give way to the new one, who gets a registration challenge.
InitCore(u, c) ==
    LET stale == Roster \ enrolled IN
    /\ Handled
    /\ ~EnrolledAdmin
    /\ Known(u) => u \in stale
    /\ Purge(stale)
    /\ Seeded
    /\ status' = [v \in Users |-> IF v = u THEN "pending_enrollment"
                                  ELSE IF v \in stale THEN "none" ELSE status[v]]
    /\ member' = [v \in Users |-> IF v = u THEN {r \in Roles : title'[r] = "admin"}
                                  ELSE IF v \in stale THEN {} ELSE member[v]]
    /\ Challenge(c, "register", u)
    /\ UNCHANGED <<owner, mem, holder, gate>>

\* init_core when the new name is taken: the stale administrators are already
\* deleted and committed, the rest is rolled back.
InitClash(u) ==
    LET stale == Roster \ enrolled IN
    /\ Handled
    /\ ~EnrolledAdmin
    /\ Known(u) /\ u \notin stale
    /\ Purge(stale)
    /\ status' = [v \in Users |-> IF v \in stale THEN "none" ELSE status[v]]
    /\ member' = [v \in Users |-> IF v \in stale THEN {} ELSE member[v]]
    /\ UNCHANGED <<title, tier, owner, mem, holder, chal, gate>>

\* init_complete: the challenge is claimed, then the pending administrator
\* must still be there and nobody must have enrolled meanwhile.
InitComplete(u, c, k) ==
    /\ Claims(c, "register")
    /\ chal[c].user = u
    /\ u \in Roster \ enrolled
    /\ ~EnrolledAdmin
    /\ Registers(k, u, c)
    /\ status' = [status EXCEPT ![u] = "active"]
    /\ enrolled' = enrolled \cup {u}
    /\ code' = code \cup {u}
    /\ UNCHANGED <<roles, tokens, logins, gate, steps>>

\* require_admin_when_initialized lets anyone reset a core that nobody owns.
GateReset == /\ ~Initialized
             /\ Cardinality(gate) < MaxGate
             /\ gate' = gate \cup {Bootstrap}
             /\ UNCHANGED <<people, roles, keys, tokens, chal, logins, steps>>

\* Mutation: the answer of the gate is trusted.
MayResetAsGated(x) == x \in gate

\* The caller nobody signed in looks again under the lock.
MayReset(x) == x \in gate /\ (x = Bootstrap => ~Initialized)

\* init_reset: every user, key, token, session and membership goes, with the
\* role named admin; the process's cache and the stored challenges stay.
Reset(x) ==
    /\ Handled
    /\ MayReset(x)
    /\ Purge(Users)
    /\ status' = [u \in Users |-> "none"]
    /\ member' = [u \in Users |-> {}]
    /\ title' = [r \in Roles |-> IF r \in AdminRole THEN "none" ELSE title[r]]
    /\ tier' = [r \in Roles |-> IF r \in AdminRole THEN "read" ELSE tier[r]]
    /\ gate' = gate \ {x}
    /\ UNCHANGED <<owner, mem, holder, chal>>

\* _load_credentials_from_db
Loaded == [k \in Keys |-> IF key[k] = "active" THEN owner[k] ELSE None]

\* lifespan: the cache is loaded from the active rows, the seeded roles are
\* completed, whatever was under way is gone.
Restart ==
    /\ Handled
    /\ mem' = Loaded
    /\ Seeded
    /\ gate' = {}
    /\ UNCHANGED <<people, member, key, owner, tokens, chal, logins>>

-----------------------------------------------------------------------------
(* Enrollment tokens. *)

\* create_enrollment_token, on top of the tokens T.
Issues(t, u, T) ==
    /\ tok[t] = "none"
    /\ Cardinality({s \in Tokens : holder[s] = u /\ T[s] \in {"created", "in_progress"}}) < MaxTokens
    /\ tok' = [T EXCEPT ![t] = "created"]
    /\ holder' = [holder EXCEPT ![t] = u]

\* revoke_all_active_tokens
Revoked(u) == [t \in Tokens |-> IF holder[t] = u /\ tok[t] \in {"created", "in_progress"}
                                THEN "revoked" ELSE tok[t]]

TokenLapses(t) == /\ tok[t] \in {"created", "in_progress"}
                  /\ tok' = [tok EXCEPT ![t] = "lapsed"]
                  /\ UNCHANGED <<people, roles, keys, holder, chal, logins, gate, steps>>

\* validate_token_for_start
Startable(t) == /\ tok[t] \in {"created", "in_progress"}
                /\ status[holder[t]] = "pending_enrollment"

\* browser_enroll_start: again and again until the token is completed.
EnrollStart(t, c) ==
    /\ Startable(t)
    /\ tok' = [tok EXCEPT ![t] = "in_progress"]
    /\ Challenge(c, "register", holder[t])
    /\ UNCHANGED <<people, roles, keys, holder, logins, gate, steps>>

\* Mutation: any registration challenge will do.
AnyUser(t, c) == chal[c].user # None

\* The registration challenge must have been issued for the token's user.
SameUser(t, c) == chal[c].user = holder[t]

\* browser_enroll_complete: the account's status is not looked at again.
EnrollComplete(t, c, k) ==
    LET u == holder[t] IN
    /\ tok[t] = "in_progress"
    /\ Claims(c, "register")
    /\ SameUser(t, c)
    /\ Known(u)
    /\ Registers(k, u, c)
    /\ tok' = [tok EXCEPT ![t] = "completed"]
    /\ status' = [status EXCEPT ![u] = "active"]
    /\ enrolled' = enrolled \cup {u}
    /\ session' = [session EXCEPT ![u] = k]
    /\ UNCHANGED <<code, roles, holder, touched, gate, steps>>

-----------------------------------------------------------------------------
(* What a user does about the own account. *)

\* credentials_add_start
AddKeyStart(u, c) == /\ Spends(u)
                     /\ Challenge(c, "register", u)
                     /\ UNCHANGED <<people, roles, keys, tokens, session, gate, steps>>

\* credentials_add_complete, with an elevation of its own.
AddKeyComplete(u, c, k) == /\ Spends(u)
                           /\ Claims(c, "register")
                           /\ chal[c].user = u
                           /\ Registers(k, u, c)
                           /\ UNCHANGED <<people, roles, tokens, session, gate, steps>>

\* credentials_remove: the last active key stays.  The row may be one that is
\* inactive already.
RemoveKey(u, k) ==
    /\ Spends(u)
    /\ owner[k] = u /\ key[k] \in {"active", "inactive"}
    /\ Cardinality({j \in Keys : owner[j] = u /\ key[j] = "active"}) > 1
    /\ key' = [key EXCEPT ![k] = "inactive"]
    /\ mem' = [mem EXCEPT ![k] = None]
    /\ UNCHANGED <<people, roles, owner, tokens, chal, session, gate, steps>>

\* admin_reissue_recovery_code
ReissueCode(u) == /\ u \in Roster
                  /\ Spends(u)
                  /\ code' = code \cup {u}
                  /\ UNCHANGED <<status, enrolled, roles, keys, tokens, chal, session, gate, steps>>

\* claim_recovery_code: the code is gone with the statement that matches it.
ClaimsCode(u) == u \in code /\ code' = code \ {u}

\* recovery: the code of an administrator makes another one, who is enrolled
\* in name only; it is used up unless the new name is taken.
Recovery(u, v) ==
    /\ Handled
    /\ u \in Roster
    /\ ClaimsCode(u)
    /\ ~Known(v)
    /\ status' = [status EXCEPT ![v] = "pending_enrollment"]
    /\ enrolled' = enrolled \cup {v}
    /\ member' = [member EXCEPT ![v] = AdminRole]
    /\ UNCHANGED <<title, tier, keys, tokens, chal, logins, gate>>

-----------------------------------------------------------------------------
(* What an administrator does. *)

\* require_admin: the machine plane needs no role, a person a session and the
\* read-write tier of the role named admin.
Gate(x) == /\ Cardinality(gate) < MaxGate
           /\ \/ x = Machine
              \/ /\ x \in Users
                 /\ SignedIn(x)
                 /\ \E r \in member[x] \cap AdminRole : tier[r] = "read-write"
           /\ gate' = gate \cup {x}
           /\ UNCHANGED <<people, roles, keys, tokens, chal, logins, steps>>

\* An admitted request reaches its handler, the process that admitted it.
Admitted(x) == /\ Handled
               /\ x \in gate \ {Bootstrap}
               /\ gate' = gate \ {x}

\* The handler refuses and changes nothing.
Refused(x) == /\ x \in gate
              /\ gate' = gate \ {x}
              /\ UNCHANGED <<people, roles, keys, tokens, chal, logins, steps>>

\* _mixed_auditor_tiers: an auditor holds no other tier.
Mixed(T) == "auditor" \in T /\ T # {"auditor"}

TiersOf(R) == {tier[r] : r \in R}

\* A pending user with the roles R and a token, in one commit.
NewUser(u, R, t) ==
    /\ ~Known(u)
    /\ status' = [status EXCEPT ![u] = "pending_enrollment"]
    /\ member' = [member EXCEPT ![u] = R]
    /\ Issues(t, u, tok)
    /\ UNCHANGED <<enrolled, code, title, tier, keys, chal, logins>>

\* admin_enroll
AdminEnroll(x, u, t) == Admitted(x) /\ NewUser(u, {}, t)

\* add_member: what u holds and what r adds do not mix.
JoinsApart(held, r) == Exists(r) /\ ~Mixed(TiersOf(held \cup {r}))

\* admin_create_user: the roles go through add_member; a refused one leaves
\* nothing behind.
CreateUser(x, u, R, t) == /\ Admitted(x)
                          /\ R # {} /\ \A r \in R : JoinsApart(R, r)
                          /\ NewUser(u, R, t)

\* Mutation: only the own account is protected.
RemovalKeepsSelf(x, u, R) == x # u

\* assert_removal_keeps_admin for the whole account (R is every role) or for
\* the memberships in R: the last administrator stays, and nobody removes the
\* own account or the own administrator's role.
RemovalKeepsAdmin(x, u, R) ==
    IF AdminRole = {} THEN R = Roles => x # u
    ELSE AdminRole \subseteq R =>
           /\ u \in Roster => Cardinality(Roster) > 1
           /\ x = u => R # Roles /\ u \notin Roster

\* admin_remove, with what hangs on the user's row.  The cache keeps the keys.
RemoveUser(x, u) ==
    /\ Admitted(x)
    /\ Known(u)
    /\ RemovalKeepsAdmin(x, u, Roles)
    /\ Purge({u})
    /\ status' = [status EXCEPT ![u] = "none"]
    /\ member' = [member EXCEPT ![u] = {}]
    /\ UNCHANGED <<title, tier, owner, mem, holder, chal>>

\* assert_status_change_keeps_admin: some usable administrator remains.
StatusKeepsAdmin(u, s) == s = "active" \/ u \notin Usable \/ Usable \ {u} # {}

\* admin_configure_user
ConfigureUser(x, u, s) ==
    /\ Admitted(x)
    /\ Known(u)
    /\ StatusKeepsAdmin(u, s)
    /\ status' = [status EXCEPT ![u] = s]
    /\ UNCHANGED <<enrolled, code, roles, keys, tokens, chal, logins>>

\* admin_re_enroll: the keys' rows are deactivated, the tokens revoked, the
\* account is pending with a new token.  Sessions and the cache stay, and the
\* last administrator is not protected.
ReEnroll(x, u, t) ==
    /\ Admitted(x)
    /\ Known(u)
    /\ key' = [k \in Keys |-> IF owner[k] = u /\ key[k] = "active" THEN "inactive" ELSE key[k]]
    /\ Issues(t, u, Revoked(u))
    /\ status' = [status EXCEPT ![u] = "pending_enrollment"]
    /\ UNCHANGED <<enrolled, code, roles, owner, mem, chal, logins>>

\* admin_create_user_token
NewToken(x, u, t) ==
    /\ Admitted(x)
    /\ Known(u)
    /\ Issues(t, u, Revoked(u))
    /\ UNCHANGED <<people, roles, keys, chal, logins>>

\* admin_revoke_token
RevokeToken(x, t) ==
    /\ Admitted(x)
    /\ tok[t] \in {"created", "in_progress", "lapsed"}
    /\ tok' = [tok EXCEPT ![t] = "revoked"]
    /\ UNCHANGED <<people, roles, keys, holder, chal, logins>>

\* Names are unique; a custom one that is free can always be found.
NameFree(r, n) == n = "custom" \/ \A q \in Roles \ {r} : title[q] # n

\* roles_create
CreateRole(x, r, n, p) ==
    /\ Admitted(x)
    /\ ~Exists(r)
    /\ NameFree(r, n)
    /\ title' = [title EXCEPT ![r] = n]
    /\ tier' = [tier EXCEPT ![r] = p]
    /\ UNCHANGED <<people, member, keys, tokens, chal, logins>>

\* Mutation: the new tier is checked against the role's own members only.
RetierAlone(r, p) == ~Mixed({p})

\* update_role checks every member against the tiers the change results in.
RetierApart(r, p) ==
    \A u \in Users : r \in member[u] => ~Mixed(TiersOf(member[u] \ {r}) \cup {p})

\* roles_update: a name nobody has, even for the role named admin; a tier.
UpdateRole(x, r, n, p) ==
    /\ Admitted(x)
    /\ Exists(r)
    /\ NameFree(r, n)
    /\ p = tier[r] \/ RetierApart(r, p)
    /\ title' = [title EXCEPT ![r] = n]
    /\ tier' = [tier EXCEPT ![r] = p]
    /\ UNCHANGED <<people, member, keys, tokens, chal, logins>>

\* roles_delete: not while it has members.
DeleteRole(x, r) ==
    /\ Admitted(x)
    /\ Exists(r)
    /\ \A u \in Users : r \notin member[u]
    /\ title' = [title EXCEPT ![r] = "none"]
    /\ tier' = [tier EXCEPT ![r] = "read"]
    /\ UNCHANGED <<people, member, keys, tokens, chal, logins>>

\* roles_member_add
AddMember(x, u, r) ==
    /\ Admitted(x)
    /\ Known(u)
    /\ r \notin member[u]
    /\ JoinsApart(member[u], r)
    /\ member' = [member EXCEPT ![u] = @ \cup {r}]
    /\ UNCHANGED <<people, title, tier, keys, tokens, chal, logins>>

\* roles_member_remove
RemoveMember(x, u, r) ==
    /\ Admitted(x)
    /\ r \in member[u]
    /\ RemovalKeepsAdmin(x, u, {r})
    /\ member' = [member EXCEPT ![u] = @ \ {r}]
    /\ UNCHANGED <<people, title, tier, keys, tokens, chal, logins>>

-----------------------------------------------------------------------------
Ceremony == \E c \in Chals :
    \/ Abandon(c)
    \/ \E u \in Users \cup {None} : LoginStart(c, u)
    \/ \E k \in Keys : LoginComplete(c, k)
    \/ \E t \in Tokens : EnrollStart(t, c)
    \/ \E t \in Tokens, k \in Keys : EnrollComplete(t, c, k)
    \/ \E u \in Users : InitCore(u, c) \/ AddKeyStart(u, c)
    \/ \E u \in Users, k \in Keys : InitComplete(u, c, k) \/ AddKeyComplete(u, c, k)

Personal == \/ \E u \in Users : \/ Logout(u) \/ Touch(u) \/ Wasted(u)
                                \/ InitClash(u) \/ ReissueCode(u)
                                \/ \E k \in Keys : RemoveKey(u, k)
                                \/ \E v \in Users : Recovery(u, v)
            \/ \E t \in Tokens : TokenLapses(t)

Administration == \E x \in Callers :
    \/ Gate(x) \/ Refused(x) \/ Reset(x)
    \/ \E u \in Users, t \in Tokens :
         AdminEnroll(x, u, t) \/ \E R \in SUBSET Roles : CreateUser(x, u, R, t)
    \/ \E u \in Users : RemoveUser(x, u)
    \/ \E u \in Users, s \in Status \ {"none"} : ConfigureUser(x, u, s)
    \/ \E u \in Users, t \in Tokens : ReEnroll(x, u, t) \/ NewToken(x, u, t)
    \/ \E t \in Tokens : RevokeToken(x, t)
    \/ \E r \in Roles, n \in Titles \ {"none"}, p \in Tiers :
         CreateRole(x, r, n, p) \/ UpdateRole(x, r, n, p)
    \/ \E r \in Roles : DeleteRole(x, r)
    \/ \E u \in Users, r \in Roles : AddMember(x, u, r) \/ RemoveMember(x, u, r)

Next == Ceremony \/ Personal \/ GateReset \/ Restart \/ Administration

Spec == Init /\ [][Next]_vars

-----------------------------------------------------------------------------
(* Properties. *)

\* Rows refer to rows: a user who does not exist has no role, no session, no
\* elevation and no code, and names stand for at most one role.
TypeOK ==
    /\ status \in [Users -> Status]
    /\ enrolled \cup code \cup touched \subseteq {u \in Users : Known(u)}
    /\ member \in [Users -> SUBSET Roles]
    /\ \A u \in Users : /\ member[u] \subseteq {r \in Roles : Exists(r)}
                        /\ ~Known(u) => member[u] = {} /\ session[u] = None
    /\ title \in [Roles -> Titles] /\ tier \in [Roles -> Tiers]
    /\ \A q, r \in Roles : {q, r} \subseteq AdminRole => q = r
    /\ key \in [Keys -> Rows] /\ owner \in [Keys -> Users \cup {None}]
    /\ mem \in [Keys -> Users \cup {None}]
    /\ tok \in [Tokens -> TokenState] /\ holder \in [Tokens -> Users \cup {None}]
    /\ chal \in [Chals -> Ceremonies \cup {None}]
    /\ session \in [Users -> Keys \cup {None}]
    /\ gate \subseteq Callers /\ steps \in 0..Steps

\* Separation of duties (role_manager: _mixed_auditor_tiers): along every
\* route to a membership or to a tier, no user holds auditor with another one.
AuditorsApart == \A u \in Users : ~Mixed(TiersOf(member[u]))

\* The cache of keys agrees with the rows that count: an active key signs in
\* its owner, and signs in at all without a restart.
CacheAgrees == \A k \in Keys : key[k] = "active" => mem[k] = owner[k]

\* A key that was removed, deactivated by a re-enrollment or deleted with its
\* user opens no session, although the cache may still hold it.
RetiredKeysStayOut ==
    [][\A u \in Users : session'[u] \notin {session[u], None} => key'[session'[u]] = "active"]_vars

\* AdminLockoutError: the role named admin loses its last member only to a
\* reset, to a new name, or to init_core while no administrator has enrolled;
\* and the last usable administrator is never disabled.
AdminKept ==
    [][/\ Roster # {} /\ Roster' = {} => AdminRole' # AdminRole \/ ~EnrolledAdmin
       /\ Usable # {} /\ Usable' = {} => \A u \in Usable : status'[u] # "disabled"]_vars

\* init_reset: a caller who was admitted because nobody owned the core does
\* not wipe a core that somebody owns by then.
BootstrapSparesOwners ==
    [][Initialized /\ Bootstrap \in gate \ gate' => status' = status]_vars

=============================================================================
