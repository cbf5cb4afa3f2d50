-------------------------- MODULE UserAccessProofs --------------------------
(***************************************************************************)
(* Type correctness of UserAccess, that the maintenance pass deletes only  *)
(* dead sessions, that a challenge is answered once and that a touch of    *)
(* the security key discloses at most one value, for all durations and any *)
(* number of sessions and ceremonies.                                      *)
(***************************************************************************)
EXTENDS UserAccess, TLAPS

\* A session's idle deadline is never earlier than its first one.  This is
\* what ties the idle leg of the sweep, which does not look at created_at,
\* to the hard cap, which does.
DeadlineGrows == \A s \in Sessions :
    life[s] = "live" => created[s] <= now /\ expires[s] >= created[s] + Idle

IInv == TypeOK /\ DeadlineGrows /\ OneDisclosurePerTouch

\* The initial state: no session, no ceremony.
LEMMA IInvInit == Init => IInv
<1>1. Init => TypeOK
  BY Durations DEF Init, TypeOK, Account, Life, Stage, Requests
<1>2. Init => DeadlineGrows /\ OneDisclosurePerTouch
  BY DEF Init, DeadlineGrows, OneDisclosurePerTouch
<1> QED BY <1>1, <1>2 DEF IInv

\* Handling a request only takes it out of the requests under way.
LEMMA HandlesType ==
    ASSUME ctx \subseteq Requests, NEW k, NEW s, NEW c, Handles(k, s, c)
    PROVE  ctx' \subseteq Requests
BY DEF Handles

\* Time, and the account's administration.
LEMMA OutsideStep ==
    ASSUME IInv, Tick \/ Sweep \/ RemoveUser \/ (\E st \in Account : SetStatus(st))
    PROVE  IInv'
<1> USE DEF IInv
<1>1. CASE Tick
  <2>1. TypeOK' BY <1>1 DEF Tick, TypeOK, svars, evars
  <2>2. DeadlineGrows' BY <1>1 DEF Tick, TypeOK, DeadlineGrows, svars, evars
  <2>3. OneDisclosurePerTouch' BY <1>1 DEF Tick, OneDisclosurePerTouch, svars, evars
  <2> QED BY <2>1, <2>2, <2>3
<1>2. CASE Sweep
  <2>1. TypeOK' BY <1>2 DEF Sweep, TypeOK, Life, evars
  <2>2. DeadlineGrows' BY <1>2 DEF Sweep, TypeOK, DeadlineGrows, Life, evars
  <2>3. OneDisclosurePerTouch' BY <1>2 DEF Sweep, OneDisclosurePerTouch, evars
  <2> QED BY <2>1, <2>2, <2>3
<1>3. CASE RemoveUser
  <2>1. TypeOK' BY <1>3 DEF RemoveUser, TypeOK, Life, Stage, Account
  <2>2. DeadlineGrows' BY <1>3 DEF RemoveUser, TypeOK, DeadlineGrows, Life
  <2>3. OneDisclosurePerTouch'
    BY <1>3 DEF RemoveUser, TypeOK, OneDisclosurePerTouch, Stage
  <2> QED BY <2>1, <2>2, <2>3
<1>4. CASE \E st \in Account : SetStatus(st)
  <2>1. TypeOK' BY <1>4 DEF SetStatus, TypeOK, Account, svars, evars
  <2>2. DeadlineGrows' BY <1>4 DEF SetStatus, DeadlineGrows, svars
  <2>3. OneDisclosurePerTouch' BY <1>4 DEF SetStatus, OneDisclosurePerTouch, evars
  <2> QED BY <2>1, <2>2, <2>3
<1> QED BY <1>1, <1>2, <1>3, <1>4

\* Login, refresh and logout.
LEMMA SessionPreserves ==
    ASSUME IInv, NEW s \in Sessions, SessionStep(s)
    PROVE  IInv'
<1> USE DEF IInv
<1>1. CASE Login(s)
  <2>1. TypeOK' BY <1>1, Durations DEF Login, TypeOK, Life, evars
  <2>2. DeadlineGrows' BY <1>1, Durations DEF Login, TypeOK, DeadlineGrows
  <2>3. OneDisclosurePerTouch' BY <1>1 DEF Login, OneDisclosurePerTouch, evars
  <2> QED BY <2>1, <2>2, <2>3
<1>2. CASE Refresh(s)
  <2>1. TypeOK' BY <1>2, Durations DEF Refresh, TypeOK, evars
  <2>2. DeadlineGrows' BY <1>2, Durations DEF Refresh, TypeOK, DeadlineGrows
  <2>3. OneDisclosurePerTouch' BY <1>2 DEF Refresh, OneDisclosurePerTouch, evars
  <2> QED BY <2>1, <2>2, <2>3
<1>3. CASE Logout(s)
  <2>1. TypeOK' BY <1>3 DEF Logout, TokensDropped, TypeOK, Life, Stage
  <2>2. DeadlineGrows' BY <1>3 DEF Logout, TypeOK, DeadlineGrows
  <2>3. OneDisclosurePerTouch'
    BY <1>3 DEF Logout, TokensDropped, TypeOK, OneDisclosurePerTouch
  <2> QED BY <2>1, <2>2, <2>3
<1> QED BY <1>1, <1>2, <1>3 DEF SessionStep

\* The middleware and the elevation handlers.
LEMMA ElevationPreserves ==
    ASSUME IInv, NEW c \in Ceremonies, NEW s \in Sessions, ElevationStep(c, s)
    PROVE  IInv'
<1> USE DEF IInv
<1>0. ctx \subseteq Requests BY DEF TypeOK
<1>1. CASE \E k \in Kinds : Validate(k, s, c)
  <2> PICK k \in Kinds : Validate(k, s, c) BY <1>1
  <2>1. ctx' \subseteq Requests BY <1>0 DEF Validate, Requests
  <2>2. TypeOK' BY <2>1, Durations DEF Validate, TypeOK, evars
  <2>3. DeadlineGrows' BY Durations DEF Validate, TypeOK, DeadlineGrows
  <2>4. OneDisclosurePerTouch' BY DEF Validate, OneDisclosurePerTouch, evars
  <2> QED BY <2>2, <2>3, <2>4
<1>2. CASE \E k \in Kinds : Denied(k, s, c)
  <2> PICK k \in Kinds : Denied(k, s, c) BY <1>2
  <2>1. ctx' \subseteq Requests BY <1>0, HandlesType DEF Denied
  <2>2. TypeOK' BY <2>1 DEF Denied, TypeOK, svars, evars
  <2>3. DeadlineGrows' /\ OneDisclosurePerTouch'
    BY DEF Denied, DeadlineGrows, OneDisclosurePerTouch, svars, evars
  <2> QED BY <2>2, <2>3
<1>3. CASE StoreChallenge(c, s)
  <2>1. ctx' \subseteq Requests BY <1>0, <1>3, HandlesType DEF StoreChallenge
  <2>2. now + 5 * ElevTtl \in Nat BY Durations DEF TypeOK
  <2>3. stage' \in [Ceremonies -> Stage] BY <1>3 DEF StoreChallenge, TypeOK, Stage
  <2>4. TypeOK' BY <1>3, <2>1, <2>2, <2>3 DEF StoreChallenge, TypeOK, svars
  <2>5. DeadlineGrows' BY <1>3 DEF StoreChallenge, DeadlineGrows, svars
  <2>6. OneDisclosurePerTouch'
    BY <1>3 DEF StoreChallenge, TypeOK, OneDisclosurePerTouch
  <2> QED BY <2>4, <2>5, <2>6
<1>4. CASE AssertFails(c, s)
  <2>1. ctx' \subseteq Requests BY <1>0, <1>4, HandlesType DEF AssertFails
  <2>2. TypeOK' BY <1>4, <2>1 DEF AssertFails, TypeOK, Stage, svars
  <2>3. DeadlineGrows' BY <1>4 DEF AssertFails, DeadlineGrows, svars
  <2>4. OneDisclosurePerTouch'
    BY <1>4 DEF AssertFails, TypeOK, OneDisclosurePerTouch
  <2> QED BY <2>2, <2>3, <2>4
<1>5. CASE AssertGrants(c, s)
  <2>1. ctx' \subseteq Requests BY <1>0, <1>5, HandlesType DEF AssertGrants
  <2>2. TypeOK' BY <1>5, <2>1, Durations DEF AssertGrants, TypeOK, Stage, svars
  <2>3. DeadlineGrows' BY <1>5 DEF AssertGrants, DeadlineGrows, svars
  <2>4. OneDisclosurePerTouch'
    BY <1>5 DEF AssertGrants, TypeOK, OneDisclosurePerTouch
  <2> QED BY <2>2, <2>3, <2>4
<1>6. CASE Unmask(c, s)
  <2>1. ctx' \subseteq Requests BY <1>0, <1>6, HandlesType DEF Unmask
  <2>2. TypeOK' BY <1>6, <2>1 DEF Unmask, TypeOK, Stage, svars
  <2>3. DeadlineGrows' BY <1>6 DEF Unmask, DeadlineGrows, svars
  <2>4. shown[c] = 0 BY <1>6 DEF Unmask, TypeOK, OneDisclosurePerTouch
  <2>5. OneDisclosurePerTouch'
    BY <1>6, <2>4 DEF Unmask, TypeOK, OneDisclosurePerTouch
  <2> QED BY <2>2, <2>3, <2>5
<1> QED BY <1>1, <1>2, <1>3, <1>4, <1>5, <1>6 DEF ElevationStep

\* The three parts are preserved together by every step.
LEMMA Invariance == Spec => []IInv
<1>1. IInv /\ [Next]_vars => IInv'
  <2> SUFFICES ASSUME IInv, [Next]_vars PROVE IInv' OBVIOUS
  <2>1. CASE Next
    BY <2>1, OutsideStep, SessionPreserves, ElevationPreserves DEF Next
  <2>2. CASE UNCHANGED vars
    BY <2>2 DEF vars, svars, evars, IInv, TypeOK, DeadlineGrows, OneDisclosurePerTouch
  <2> QED BY <2>1, <2>2
<1> QED BY <1>1, IInvInit, PTL DEF Spec

\* Sessions, requests and elevation rows keep their types, and nothing of a
\* removed user is left, whatever of its requests was still to be handled:
\* TypeOK of UserAccess.
THEOREM TypeCorrect == Spec => []TypeOK
BY Invariance, PTL DEF IInv

\* cleanup_expired_sessions never matches a session that refresh_token would
\* still accept, for all values of session_timeout, max_session_duration and
\* the tolerance: neither leg fires inside the hard cap.
THEOREM SweptSessionsAreDead == Spec => []SweptIsDead
<1>1. IInv => SweptIsDead
  BY Durations DEF IInv, TypeOK, DeadlineGrows, SweptIsDead, Sweepable, InWindow
<1> QED BY <1>1, Invariance, PTL

\* The single-use UPDATE of secrets_get: a ceremony discloses at most one
\* value, and one that did can never be spent again.
THEOREM DisclosuresAreSingle == Spec => []OneDisclosurePerTouch
BY Invariance, PTL DEF IInv

\* A challenge that was answered is out of play, and what a step does to a
\* challenge never brings it back.
LEMMA AnswersKept == IInv /\ OneAnswerPerChallenge /\ [Next]_vars => OneAnswerPerChallenge'
<1> SUFFICES ASSUME IInv, OneAnswerPerChallenge, [Next]_vars
             PROVE  OneAnswerPerChallenge'
  OBVIOUS
<1> USE DEF OneAnswerPerChallenge
<1>1. CASE UNCHANGED <<stage, tries>>
  BY <1>1
<1>2. CASE RemoveUser
  BY <1>2 DEF RemoveUser, IInv, TypeOK
<1>3. ASSUME NEW s \in Sessions, Logout(s) PROVE OneAnswerPerChallenge'
  BY <1>3 DEF Logout, TokensDropped, IInv, TypeOK
<1>4. ASSUME NEW c \in Ceremonies, NEW s \in Sessions, StoreChallenge(c, s)
      PROVE  OneAnswerPerChallenge'
  BY <1>4 DEF StoreChallenge, IInv, TypeOK
<1>5. ASSUME NEW c \in Ceremonies, NEW s \in Sessions, AssertFails(c, s) \/ AssertGrants(c, s)
      PROVE  OneAnswerPerChallenge'
  <2>1. tries[c] = 0 /\ tries' = [tries EXCEPT ![c] = 1]
    BY <1>5 DEF AssertFails, AssertGrants, IInv, TypeOK
  <2>2. stage'[c] \in {"consumed", "granted"} /\ \A d \in Ceremonies \ {c} : stage'[d] = stage[d]
    BY <1>5 DEF AssertFails, AssertGrants, IInv, TypeOK
  <2> QED
    BY <2>1, <2>2 DEF IInv, TypeOK
<1>6. ASSUME NEW c \in Ceremonies, NEW s \in Sessions, Unmask(c, s)
      PROVE  OneAnswerPerChallenge'
  BY <1>6 DEF Unmask, IInv, TypeOK
<1> HIDE DEF OneAnswerPerChallenge
<1> QED
  BY <1>1, <1>2, <1>3, <1>4, <1>5, <1>6 DEF Next, SessionStep, ElevationStep, Tick, Sweep,
     SetStatus, Login, Refresh, Validate, Denied, vars, evars

\* _claim_elevation_challenge commits before it checks: a challenge is answered
\* once, for any number of sessions, ceremonies and answers let through.
THEOREM AnswersAreSingle == Spec => []OneAnswerPerChallenge
<1>1. Init => OneAnswerPerChallenge
  BY DEF Init, OneAnswerPerChallenge
<1> QED
  BY <1>1, AnswersKept, Invariance, PTL DEF Spec

=============================================================================
