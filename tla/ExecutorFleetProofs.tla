------------------------- MODULE ExecutorFleetProofs -------------------------
(***************************************************************************)
(* Proofs about ExecutorFleet, for any number of tokens, certificates and  *)
(* registrations in flight.                                                *)
(***************************************************************************)
EXTENDS ExecutorFleet, TLAPS

\* What the core's record must satisfy for a step to preserve it: the two
\* properties support each other, because revoking an identity revokes one
\* serial only and relies on the others being revoked already.
CoreInv == OneLiveSerial /\ NoIdentityNoCredential

-----------------------------------------------------------------------------
(* Type correctness. *)

\* The types of the core's record and of the registrations in flight.
CoreTypes == /\ token \in [Tokens -> {"none", "created", "spent"}]
             /\ row \in {"absent", "active", "revoked"}
             /\ issued \in Nat
             /\ cert \in 0 .. issued
             /\ revoked \subseteq Serials
             /\ asks \subseteq Asks

\* The types of what the daemon holds and is told.
DaemonTypes == /\ snap \subseteq 0 .. issued
               /\ boot \in Tokens \cup {NoToken}
               /\ certF \in 0 .. issued /\ keyF \in 0 .. issued
               /\ reply \in 0 .. issued /\ serial \in 0 .. issued /\ cli \in 0 .. issued
               /\ seen \subseteq SUBSET (0 .. issued) /\ sent \subseteq SUBSET (0 .. issued)
               /\ pc \in {"down"} \cup Booting \cup InLoop
               /\ failures \in Nat /\ failures < MaxFailures

Flags == fresh \in BOOLEAN /\ late \in BOOLEAN /\ beat \in BOOLEAN /\ flag \in BOOLEAN

\* The initial state is typed.
LEMMA InitTypes == Init => TypeOK
<1> SUFFICES ASSUME Init PROVE TypeOK
  OBVIOUS
<1>1. CoreTypes
  BY DEF Init, CoreTypes, Serials
<1>2. DaemonTypes
  BY Bounds DEF Init, DaemonTypes, Booting, InLoop
<1>3. Flags
  BY DEF Init, Flags
<1> QED
  BY <1>1, <1>2, <1>3 DEF TypeOK, CoreTypes, DaemonTypes, Flags

\* The administrator and the registration handler keep the types.
LEMMA CoreKeepsTypes == TypeOK /\ (Admin \/ Register) => TypeOK'
<1> SUFFICES ASSUME TypeOK, Admin \/ Register PROVE TypeOK'
  OBVIOUS
<1> USE DEF TypeOK, Serials, Asks, Booting, InLoop, list, disk, memory
<1>1. ASSUME NEW t \in Tokens, Mint(t) PROVE TypeOK'
  BY <1>1 DEF Mint
<1>2. ASSUME NEW t \in Tokens, Expire(t) PROVE TypeOK'
  BY <1>2 DEF Expire
<1>a. CASE RevokeSerial
  BY <1>a DEF RevokeSerial
<1>b. CASE RevokeIdentity
  BY <1>b DEF RevokeIdentity
<1>c. CASE Remove
  BY <1>c DEF Remove
<1>3. ASSUME NEW a \in asks, Enroll(a) PROVE TypeOK'
  BY <1>3 DEF Enroll, Issue, NextSerial, TokenOpen
<1>4. ASSUME NEW a \in asks, Exempt(a) PROVE TypeOK'
  BY <1>4 DEF Exempt, core
<1>5. ASSUME NEW a \in asks, Renew(a) PROVE TypeOK'
  BY <1>5 DEF Renew, Issue, NextSerial
<1>6. ASSUME NEW a \in asks, Refuse(a) \/ Unavailable(a) PROVE TypeOK'
  BY <1>6 DEF Refuse, Unavailable, TurnedAway, core
<1> QED
  BY <1>1, <1>2, <1>a, <1>b, <1>c, <1>3, <1>4, <1>5, <1>6 DEF Admin, Register

\* A process that ends, or a rotation that is given up, leaves typed state: the
\* registrations in flight lose their listener only.
LEMMA UnheardTypes == TypeOK => Unheard \subseteq Asks
<1> SUFFICES ASSUME TypeOK, NEW b \in Unheard PROVE b \in Asks
  OBVIOUS
<1>1. PICK a \in asks : b = [a EXCEPT !.heard = FALSE]
  BY DEF Unheard
<1>2. a \in Asks
  BY DEF TypeOK
<1> QED
  BY <1>1, <1>2 DEF Asks

LEMMA DownKeepsTypes == TypeOK /\ Down => TypeOK'
<1> SUFFICES ASSUME TypeOK, Down PROVE TypeOK'
  OBVIOUS
<1> USE DEF Down, core, list, disk
<1>1. CoreTypes'
  BY UnheardTypes DEF TypeOK, CoreTypes, Serials, Asks
<1>2. DaemonTypes'
  BY Bounds DEF TypeOK, DaemonTypes
<1>3. Flags'
  BY DEF TypeOK, Flags
<1> QED
  BY <1>1, <1>2, <1>3 DEF TypeOK, CoreTypes, DaemonTypes, Flags

\* The publisher and a restart of the core keep the types.
LEMMA ListKeepsTypes == TypeOK /\ (Publisher \/ CoreCrash) => TypeOK'
<1> SUFFICES ASSUME TypeOK, Publisher \/ CoreCrash PROVE TypeOK'
  OBVIOUS
<1> USE DEF TypeOK, Serials, Asks, Booting, InLoop, core, disk, memory
<1>1. CASE Publish
  BY <1>1 DEF Publish, Id
<1>2. CASE GoesStale
  BY <1>2 DEF GoesStale
<1>3. CASE CoreCrash
  BY <1>3 DEF CoreCrash
<1> QED
  BY <1>1, <1>2, <1>3 DEF Publisher

\* Installation, boot and enrollment keep the types.
LEMMA HostKeepsTypes == TypeOK /\ Host => TypeOK'
<1> SUFFICES ASSUME TypeOK, Host PROVE TypeOK'
  OBVIOUS
<1>1. CASE Crash
  BY <1>1, DownKeepsTypes DEF Crash
<1> USE DEF TypeOK, Serials, Asks, Booting, InLoop, core, list, disk, memory
<1>2. ASSUME NEW t \in Tokens, Install(t) PROVE TypeOK'
  BY <1>2 DEF Install
<1>3. CASE ClearPair
  BY <1>3 DEF ClearPair
<1>4. CASE BootKnown
  BY <1>4 DEF BootKnown, ClearBootstrapToken
<1>5. CASE BootEnroll
  <2>1. Ask(boot, 0) \in Asks
    BY DEF Ask
  <2> QED
    BY <1>5, <2>1 DEF BootEnroll
<1>6. CASE EnrollCert
  BY <1>6 DEF EnrollCert
<1>7. CASE EnrollKey
  BY <1>7 DEF EnrollKey, ClearBootstrapToken
<1> QED
  BY <1>1, <1>2, <1>3, <1>4, <1>5, <1>6, <1>7 DEF Host

\* A rotation keeps the types.
LEMMA RotateKeepsTypes == TypeOK /\ Rotate => TypeOK'
<1> SUFFICES ASSUME TypeOK, Rotate PROVE TypeOK'
  OBVIOUS
<1> USE DEF TypeOK, Serials, Asks, Booting, InLoop, core, list, disk, memory
<1>1. CASE RotateAsk
  <2>1. Ask(NoToken, cli) \in Asks
    BY DEF Ask
  <2> QED
    BY <1>1, <2>1 DEF RotateAsk
<1>2. CASE RotateKey
  BY <1>2 DEF RotateKey
<1>3. CASE RotateCert
  BY <1>3 DEF RotateCert
<1>4. CASE RotateAdopt
  BY <1>4 DEF RotateAdopt
<1>5. CASE RotateClientFails
  BY <1>5 DEF RotateClientFails
<1>6. CASE RotateFails
  BY <1>6, UnheardTypes DEF RotateFails
<1> QED
  BY <1>1, <1>2, <1>3, <1>4, <1>5, <1>6 DEF Rotate

\* The check and its threshold keep the types: the count of failures never
\* reaches the threshold in a running loop.
LEMMA CheckKeepsTypes == TypeOK /\ Check => TypeOK'
<1> SUFFICES ASSUME TypeOK, Check PROVE TypeOK'
  OBVIOUS
<1>1. CASE LoopExit \/ CheckRevoked \/ CheckFault
  BY <1>1, DownKeepsTypes DEF LoopExit, CheckRevoked, CheckFault
<1> USE DEF TypeOK, Serials, Asks, Booting, InLoop, core, list, disk, memory
<1>2. CASE CheckStarts
  BY <1>2 DEF CheckStarts
<1>3. CASE CheckLive
  BY <1>3, Bounds DEF CheckLive, SnapshotAnswers
<1>4. CASE CheckFails
  BY <1>4 DEF CheckFails, Strike
<1>5. CASE CheckTimesOut
  BY <1>5 DEF CheckTimesOut, Strike
<1> QED
  BY <1>1, <1>2, <1>3, <1>4, <1>5 DEF Check

\* The pool's workers keep the types.
LEMMA PoolKeepsTypes == TypeOK /\ Pool => TypeOK'
<1> SUFFICES ASSUME TypeOK, Pool PROVE TypeOK'
  OBVIOUS
<1> USE DEF TypeOK, Serials, Asks, Booting, InLoop, core, list, disk
<1>1. CASE LateAnswer
  <2>1. seen' \subseteq SUBSET (0 .. issued)'
    BY <1>1 DEF LateAnswer
  <2> QED
    BY <1>1, <2>1 DEF LateAnswer
<1>2. CASE LateFails
  BY <1>2 DEF LateFails
<1>3. CASE BeatAnswered
  BY <1>3 DEF BeatAnswered, Recognised, RecordRevoked
<1>4. CASE BeatFails
  BY <1>4 DEF BeatFails
<1> QED
  BY <1>1, <1>2, <1>3, <1>4 DEF Pool

\* Nothing happens.
LEMMA StutterKeepsTypes == TypeOK /\ UNCHANGED vars => TypeOK'
BY DEF TypeOK, vars, Serials, Asks, core, list, disk, memory

\* The daemon and the core only ever hold serials that have been issued, and the
\* loop runs below the failure threshold.
THEOREM TypeCorrect == Spec => []TypeOK
<1>1. TypeOK /\ [Next]_vars => TypeOK'
  BY CoreKeepsTypes, ListKeepsTypes, HostKeepsTypes, RotateKeepsTypes, CheckKeepsTypes,
     PoolKeepsTypes, StutterKeepsTypes DEF Next
<1> QED
  BY InitTypes, <1>1, PTL DEF Spec

-----------------------------------------------------------------------------
(* The record of the identity. *)

\* Steps that leave the record alone leave its invariant alone.
LEMMA RecordUntouched == CoreInv /\ UNCHANGED <<row, cert, issued, revoked>> => CoreInv'
BY DEF CoreInv, OneLiveSerial, NoIdentityNoCredential, Serials

\* A certificate is issued while the identity is not revoked.
LEMMA IssueKeepsRecord ==
    ASSUME TypeOK, CoreInv, NEW a, Issue(a), row # "revoked"
    PROVE  CoreInv'
<1> USE DEF TypeOK, CoreInv, OneLiveSerial, NoIdentityNoCredential, Serials, Issue, NextSerial
<1>1. OneLiveSerial'
  <2> SUFFICES ASSUME NEW s \in Serials', s # cert' PROVE s \in revoked'
    OBVIOUS
  <2>1. s \in Serials
    OBVIOUS
  <2> QED
    BY <2>1
<1>2. row' = "active"
  OBVIOUS
<1> QED
  BY <1>1, <1>2

\* What the administrator does to the record.
LEMMA AdminKeepsRecord ==
    TypeOK /\ CoreInv /\ (RevokeSerial \/ RevokeIdentity \/ Remove) => CoreInv'
<1> SUFFICES ASSUME TypeOK, CoreInv, RevokeSerial \/ RevokeIdentity \/ Remove PROVE CoreInv'
  OBVIOUS
<1> USE DEF TypeOK, CoreInv, OneLiveSerial, NoIdentityNoCredential, Serials
<1>1. CASE RevokeSerial
  BY <1>1 DEF RevokeSerial
<1>2. CASE RevokeIdentity
  BY <1>2 DEF RevokeIdentity
<1>3. CASE Remove
  BY <1>3 DEF Remove
<1> QED
  BY <1>1, <1>2, <1>3

\* Every step preserves the record's invariant.
LEMMA StepKeepsRecord == TypeOK /\ CoreInv /\ [Next]_vars => CoreInv'
<1> SUFFICES ASSUME TypeOK, CoreInv, [Next]_vars PROVE CoreInv'
  OBVIOUS
<1>1. CASE RevokeSerial \/ RevokeIdentity \/ Remove
  BY <1>1, AdminKeepsRecord
<1>2. ASSUME NEW t \in Tokens, Mint(t) \/ Expire(t) PROVE CoreInv'
  BY <1>2, RecordUntouched DEF Mint, Expire
<1>3. ASSUME NEW a \in asks, Enroll(a) \/ Renew(a) PROVE CoreInv'
  BY <1>3, IssueKeepsRecord DEF Enroll, Renew
<1>4. ASSUME NEW a \in asks, Exempt(a) \/ Refuse(a) \/ Unavailable(a) PROVE CoreInv'
  BY <1>4, RecordUntouched DEF Exempt, Refuse, Unavailable, TurnedAway, core
<1>5. CASE Publisher \/ CoreCrash
  BY <1>5, RecordUntouched DEF Publisher, Publish, GoesStale, CoreCrash, core
<1>6. CASE Host
  BY <1>6, RecordUntouched DEF Host, Install, ClearPair, Crash, Down, BootKnown, BootEnroll,
     EnrollCert, EnrollKey, core
<1>7. CASE Rotate
  BY <1>7, RecordUntouched DEF Rotate, RotateAsk, RotateKey, RotateCert, RotateAdopt,
     RotateClientFails, RotateFails, core
<1>8. CASE Check
  BY <1>8, RecordUntouched DEF Check, LoopExit, CheckStarts, CheckLive, CheckRevoked,
     CheckFails, CheckTimesOut, CheckFault, Strike, Down, core
<1>9. CASE Pool
  BY <1>9, RecordUntouched DEF Pool, LateAnswer, LateFails, BeatAnswered, BeatFails, core
<1>10. CASE UNCHANGED vars
  BY <1>10, RecordUntouched DEF vars, core
<1> QED
  BY <1>1, <1>2, <1>3, <1>4, <1>5, <1>6, <1>7, <1>8, <1>9, <1>10 DEF Next, Admin, Register

\* The record's invariant holds for every number of tokens, certificates and
\* registrations in flight.
THEOREM RecordInvariant == Spec => []CoreInv
<1>1. Init => CoreInv
  BY DEF Init, CoreInv, OneLiveSerial, NoIdentityNoCredential, Serials
<1> QED
  BY <1>1, TypeCorrect, StepKeepsRecord, PTL DEF Spec

\* No certificate but the recorded one is ever left valid.
THEOREM OneLiveSerialHolds == Spec => []OneLiveSerial
BY RecordInvariant, PTL DEF CoreInv

\* A revoked or removed identity has no valid certificate, whatever rotation was
\* under way.
THEOREM NoIdentityNoCredentialHolds == Spec => []NoIdentityNoCredential
BY RecordInvariant, PTL DEF CoreInv

=============================================================================
