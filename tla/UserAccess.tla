----------------------------- MODULE UserAccess -----------------------------
(***************************************************************************)
(* One user's sessions and elevations in the core.  A login opens a        *)
(* session with a sliding idle deadline, a short-lived bearer token and a  *)
(* hard cap counted from its creation; the bearer middleware slides the    *)
(* idle deadline, a refresh rotates the token and may revive an idle       *)
(* session, the maintenance pass deletes what is past the cap.  Unmasking  *)
(* a secret needs an elevation: a stored challenge, an assertion on the    *)
(* security key, and a token that is used once.                            *)
(*                                                                         *)
(* The middleware establishes who the caller is before it awaits the rest  *)
(* of the stack; the handler acts on that answer later (ctx), whatever has *)
(* happened to the session in between.  Each of the two is one step of the *)
(* event loop.                                                             *)
(***************************************************************************)
EXTENDS Integers

CONSTANTS Sessions,    \* session rows of the user
          Ceremonies,  \* elevation ceremonies: a challenge and the token it earns
          Idle,        \* session_timeout
          MaxSession,  \* max_session_duration, the hard cap
          Tolerance,   \* clock_skew.token_tolerance_seconds
          TokenTtl,    \* access_token_ttl
          Margin,      \* the middleware extends a session closer than this to its end
          ElevTtl,     \* ELEVATION_TOKEN_TTL_SECONDS
          NoSession,   \* owner of a ceremony that has not begun
          Horizon      \* bound on the clock

ASSUME Durations == /\ Idle \in Nat /\ MaxSession \in Nat /\ Tolerance \in Nat
                    /\ TokenTtl \in Nat /\ Margin \in Nat /\ ElevTtl \in Nat
                    /\ Horizon \in Nat
ASSUME NoSessionIsNone == NoSession \notin Sessions

VARIABLES
    now,       \* the clock
    account,   \* users.status, or removed
    life,      \* a session's row
    created,   \* created_at
    expires,   \* expires_at, the sliding idle deadline
    tokenDue,  \* access_token_expires_at
    ctx,       \* requests past the middleware, not yet handled
    stage,     \* where a ceremony is
    owner,     \* the session the challenge, then the token, is bound to
    due,       \* expires_at of the challenge, then of the token
    tries,     \* answers to the challenge that were looked at
    shown      \* secret values disclosed against the ceremony

svars == <<life, created, expires, tokenDue>>
evars == <<stage, owner, due, tries, shown>>
vars  == <<now, account, svars, ctx, evars>>

\* How a row goes away is kept: by logout, by the sweep, with the user.
Life    == {"absent", "live", "loggedout", "swept", "removed"}
Account == {"active", "inactive", "removed"}
Kinds   == {"challenge", "assert", "unmask"}

\* A request says what it wants, who asks, and which ceremony it begins,
\* answers or spends.
Requests == Kinds \X Sessions \X Ceremonies

\* created and consumed are states of the challenge row, granted and used of
\* the token row; removed says that the row is deleted.
Stage == {"none", "created", "consumed", "granted", "used", "removed"}

Init == /\ now = 0
        /\ account = "active"
        /\ life = [s \in Sessions |-> "absent"]
        /\ created = [s \in Sessions |-> 0]
        /\ expires = [s \in Sessions |-> 0]
        /\ tokenDue = [s \in Sessions |-> 0]
        /\ ctx = {}
        /\ stage = [c \in Ceremonies |-> "none"]
        /\ owner = [c \in Ceremonies |-> NoSession]
        /\ due = [c \in Ceremonies |-> 0]
        /\ tries = [c \in Ceremonies |-> 0]
        /\ shown = [c \in Ceremonies |-> 0]

Tick == /\ now < Horizon
        /\ now' = now + 1
        /\ UNCHANGED <<account, svars, ctx, evars>>

-----------------------------------------------------------------------------
(* Sessions. *)

\* check_refresh_window: the hard cap and nothing else.
InWindow(s) == created[s] + MaxSession >= now

\* check_expiry: the hard cap, and the idle deadline with its tolerance.
Fresh(s) == InWindow(s) /\ expires[s] >= now - Tolerance

\* finish_authentication succeeded: create_session, one commit.  Logins late
\* enough for the clock bound to hide the cap are left out.
Login(s) ==
    /\ now + MaxSession + Tolerance < Horizon
    /\ life[s] = "absent"
    /\ account = "active"
    /\ life' = [life EXCEPT ![s] = "live"]
    /\ created' = [created EXCEPT ![s] = now]
    /\ expires' = [expires EXCEPT ![s] = now + Idle]
    /\ tokenDue' = [tokenDue EXCEPT ![s] = now + TokenTtl]
    /\ UNCHANGED <<now, account, ctx, evars>>

\* What a client can ask about a ceremony: to begin a new one, to answer a
\* challenge it has been given, to spend a token it has been given.
CanAsk(k, c) == \/ k = "challenge" /\ stage[c] = "none"
                \/ k = "assert" /\ stage[c] # "none"
                \/ k = "unmask" /\ stage[c] \in {"granted", "used"}

\* _validate_token accepts the session's bearer and slides the idle deadline
\* when it is near; the caller's identity travels on with the request.
Validate(k, s, c) ==
    /\ CanAsk(k, c)
    /\ life[s] = "live"
    /\ Fresh(s)
    /\ tokenDue[s] >= now
    /\ account = "active"
    /\ ctx' = ctx \cup {<<k, s, c>>}
    /\ expires' = [expires EXCEPT ![s] = IF @ < now + Margin THEN now + Idle ELSE @]
    /\ UNCHANGED <<now, account, life, created, tokenDue, evars>>

\* auth_refresh and browser_refresh: the token is rotated and the idle
\* deadline starts again, even when it had passed.
Refresh(s) ==
    /\ life[s] = "live"
    /\ InWindow(s)
    /\ account = "active"
    /\ expires' = [expires EXCEPT ![s] = now + Idle]
    /\ tokenDue' = [tokenDue EXCEPT ![s] = now + TokenTtl]
    /\ UNCHANGED <<now, account, life, created, ctx, evars>>

\* The elevation token rows of the sessions in S are deleted.
TokensDropped(S) ==
    stage' = [c \in Ceremonies |->
                IF owner[c] \in S /\ stage[c] \in {"granted", "used"}
                THEN "removed" ELSE stage[c]]

\* revoke_session: the tokens the session earned go with its row, expired or
\* not (browser_logout, _logout_when_session_unresolved).
Logout(s) ==
    /\ life[s] = "live"
    /\ life' = [life EXCEPT ![s] = "loggedout"]
    /\ TokensDropped({s})
    /\ UNCHANGED <<now, account, created, expires, tokenDue, ctx, owner, due, tries, shown>>

\* Mutation: the tolerance is applied on the wrong side.
SweepableEarly(s) ==
    /\ life[s] = "live"
    /\ \/ expires[s] < now - (MaxSession - Idle) + Tolerance + 1
       \/ created[s] < now - (MaxSession + Tolerance)

\* Mutation: the pass looks at the sessions of active users only.
SweepableActive(s) ==
    /\ life[s] = "live" /\ account = "active"
    /\ \/ expires[s] < now - (MaxSession - Idle) - Tolerance
       \/ created[s] < now - (MaxSession + Tolerance)

\* The WHERE of cleanup_expired_sessions: its idle leg and its cap leg.
Sweepable(s) ==
    /\ life[s] = "live"
    /\ \/ expires[s] < now - (MaxSession - Idle) - Tolerance
       \/ created[s] < now - (MaxSession + Tolerance)

\* One maintenance pass.  It does not look at elevation tokens.
Sweep ==
    /\ \E s \in Sessions : Sweepable(s)
    /\ life' = [s \in Sessions |-> IF Sweepable(s) THEN "swept" ELSE life[s]]
    /\ UNCHANGED <<now, account, created, expires, tokenDue, ctx, evars>>

\* admin_configure_user changes the status; sessions stay as they are.
SetStatus(st) ==
    /\ account # "removed"
    /\ st \in {"active", "inactive"}
    /\ st # account
    /\ account' = st
    /\ UNCHANGED <<now, svars, ctx, evars>>

\* admin_remove: rows, tokens and, by cascade, challenges go with the user.
RemoveUser ==
    /\ account # "removed"
    /\ account' = "removed"
    /\ life' = [s \in Sessions |-> IF life[s] = "live" THEN "removed" ELSE life[s]]
    /\ stage' = [c \in Ceremonies |-> IF stage[c] = "none" THEN "none" ELSE "removed"]
    /\ UNCHANGED <<now, created, expires, tokenDue, ctx, owner, due, tries, shown>>

-----------------------------------------------------------------------------
(* Elevation.  Every handler takes its caller from ctx. *)

Handles(k, s, c) == <<k, s, c>> \in ctx /\ ctx' = ctx \ {<<k, s, c>>}

\* A handler that refuses (no credential, unknown or expired challenge or
\* token, auditor-only caller, foreign key to a removed user).
Denied(k, s, c) ==
    /\ Handles(k, s, c)
    /\ UNCHANGED <<now, account, svars, evars>>

\* Mutation: the row of a challenge does not reference its user's.
StoreUnreferenced(c, s) ==
    /\ Handles("challenge", s, c)
    /\ stage[c] = "none"
    /\ stage' = [stage EXCEPT ![c] = "created"]
    /\ owner' = [owner EXCEPT ![c] = s]
    /\ due' = [due EXCEPT ![c] = now + 5 * ElevTtl]
    /\ UNCHANGED <<now, account, svars, tries, shown>>

\* elevate_challenge: expired challenges are pruned, a new one is stored for
\* this session.
StoreChallenge(c, s) ==
    /\ Handles("challenge", s, c)
    /\ account # "removed"
    /\ stage[c] = "none"
    /\ stage' = [d \in Ceremonies |->
                   IF d = c THEN "created"
                   ELSE IF stage[d] \in {"created", "consumed"} /\ due[d] < now
                   THEN "removed" ELSE stage[d]]
    /\ owner' = [owner EXCEPT ![c] = s]
    /\ due' = [due EXCEPT ![c] = now + 5 * ElevTtl]
    /\ UNCHANGED <<now, account, svars, tries, shown>>

\* Mutation: the claim is rolled back with the refusal.
AssertFailsUnclaimed(c, s) ==
    /\ Handles("assert", s, c)
    /\ stage[c] = "created"
    /\ due[c] > now
    /\ tries' = [tries EXCEPT ![c] = @ + 1]
    /\ UNCHANGED <<now, account, svars, stage, owner, due, shown>>

\* _claim_elevation_challenge matched and committed; then the challenge turns
\* out to be another session's, the assertion does not verify or the caller
\* is an auditor.  The challenge is spent all the same.
AssertFails(c, s) ==
    /\ Handles("assert", s, c)
    /\ stage[c] = "created"
    /\ due[c] > now
    /\ stage' = [stage EXCEPT ![c] = "consumed"]
    /\ tries' = [tries EXCEPT ![c] = @ + 1]
    /\ UNCHANGED <<now, account, svars, owner, due, shown>>

\* elevate_assert grants: the token is bound to the session that asked.
AssertGrants(c, s) ==
    /\ Handles("assert", s, c)
    /\ account # "removed"
    /\ stage[c] = "created"
    /\ due[c] > now
    /\ owner[c] = s
    /\ stage' = [stage EXCEPT ![c] = "granted"]
    /\ due' = [due EXCEPT ![c] = now + ElevTtl]
    /\ tries' = [tries EXCEPT ![c] = @ + 1]
    /\ UNCHANGED <<now, account, svars, owner, shown>>

\* Mutation: the used flag is set in memory only.
UnmaskUnspent(c, s) ==
    /\ Handles("unmask", s, c)
    /\ account # "removed"
    /\ stage[c] = "granted"
    /\ due[c] > now - Tolerance
    /\ shown' = [shown EXCEPT ![c] = @ + 1]
    /\ UNCHANGED <<now, account, svars, stage, owner, due, tries>>

\* secrets_get with unmask: the conditional UPDATE spends the token and the
\* disclosure commits with it.  The token is not compared with the session.
\* A failure of the read rolls the UPDATE back: that is Denied.
Unmask(c, s) ==
    /\ Handles("unmask", s, c)
    /\ account # "removed"
    /\ stage[c] = "granted"
    /\ due[c] > now - Tolerance
    /\ stage' = [stage EXCEPT ![c] = "used"]
    /\ shown' = [shown EXCEPT ![c] = @ + 1]
    /\ UNCHANGED <<now, account, svars, owner, due, tries>>

-----------------------------------------------------------------------------
SessionStep(s) ==
    \/ Login(s)
    \/ Refresh(s)
    \/ Logout(s)

ElevationStep(c, s) ==
    \/ \E k \in Kinds : Validate(k, s, c) \/ Denied(k, s, c)
    \/ StoreChallenge(c, s)
    \/ AssertFails(c, s)
    \/ AssertGrants(c, s)
    \/ Unmask(c, s)

Next ==
    \/ Tick
    \/ \E s \in Sessions : SessionStep(s)
    \/ \E c \in Ceremonies, s \in Sessions : ElevationStep(c, s)
    \/ Sweep
    \/ \E st \in Account : SetStatus(st)
    \/ RemoveUser

Spec == Init /\ [][Next]_vars

\* Time passes and session_cleanup_loop comes round for ever.
FairSpec == Spec /\ WF_vars(Tick) /\ WF_vars(Sweep)

-----------------------------------------------------------------------------
(* Properties. *)

\* Types of every row.  A removed user keeps no session, challenge or token,
\* although requests that were let through before the removal are handled after
\* it: their inserts find no user to refer to.
TypeOK ==
    /\ now \in Nat
    /\ account \in Account
    /\ life \in [Sessions -> Life]
    /\ created \in [Sessions -> Nat]
    /\ expires \in [Sessions -> Nat]
    /\ tokenDue \in [Sessions -> Nat]
    /\ ctx \subseteq Requests
    /\ stage \in [Ceremonies -> Stage]
    /\ owner \in [Ceremonies -> Sessions \cup {NoSession}]
    /\ due \in [Ceremonies -> Nat]
    /\ tries \in [Ceremonies -> Nat]
    /\ shown \in [Ceremonies -> Nat]
    /\ account = "removed" => /\ \A s \in Sessions : life[s] # "live"
                              /\ \A c \in Ceremonies : stage[c] \in {"none", "removed"}

\* The maintenance pass only ever deletes sessions that a refresh would
\* refuse: whatever mix of activity, idleness and revival a session has had,
\* neither leg of cleanup_expired_sessions matches inside the hard cap.
SweptIsDead == \A s \in Sessions : Sweepable(s) => ~InWindow(s)

\* One touch of the security key discloses at most one value, through
\* failed reads, retries, concurrent unmasks, logouts and sweeps.
OneDisclosurePerTouch ==
    \A c \in Ceremonies :
        /\ shown[c] <= 1
        /\ shown[c] = 1 => stage[c] \in {"used", "removed"}

\* A challenge is answered once: a wrong answer, a foreign session or a caller
\* who may not elevate never puts it back into play ("a denied or abandoned
\* ceremony never re-arms the challenge"), whatever answers were let through.
OneAnswerPerChallenge ==
    \A c \in Ceremonies :
        /\ tries[c] <= 1
        /\ tries[c] = 1 => stage[c] \notin {"none", "created"}

\* A session that is not ended otherwise is swept in the end, however often
\* it was refreshed ("the gate closed the door, nothing took the body out").
EverySessionEnds == \A s \in Sessions : life[s] = "live" ~> life[s] # "live"

=============================================================================
