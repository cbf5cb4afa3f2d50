---------------------------- MODULE ExecutorFleet ----------------------------
(***************************************************************************)
(* One executor identity from enrollment to removal: the core's record of  *)
(* it, the revocation list the core publishes, and the daemon that holds   *)
(* the credential.                                                         *)
(*                                                                         *)
(* A serial is the number of the certificate among those issued for the    *)
(* identity; a key on disk is named by the certificate it belongs to.  A   *)
(* revocation list is the set of the serials it names, with Id in it when  *)
(* the identity itself is revoked.  Other identities only make the list    *)
(* change more often.                                                      *)
(*                                                                         *)
(* The core runs its handlers on one event loop, so a registration with a  *)
(* token is one step; a rotation awaits the read of its exemption and      *)
(* commits later.  Tokens are required (the default).                      *)
(***************************************************************************)
EXTENDS Integers, FiniteSets

CONSTANTS Tokens,       \* enrollment tokens an administrator may mint
          NoToken,      \* a registration or a host without one
          MaxFailures,  \* cert_rotation.max_revocation_failures
          MaxIssue,     \* bound on the certificates issued
          MaxAsks       \* bound on the registrations in flight

ASSUME NoTokenIsNone == NoToken \notin Tokens
ASSUME Bounds == MaxFailures \in Nat \ {0} /\ MaxIssue \in Nat /\ MaxAsks \in Nat

VARIABLES
    token,    \* executor_enrollment_tokens.state, spent when consumed or expired
    row,      \* the executors row: absent, active, or with revoked_at set
    cert,     \* serial of the executor_certs record, 0 when there is none
    issued,   \* certificates signed so far
    revoked,  \* executor_cert_revocations
    asks,     \* registrations sent and not answered
    snap,     \* the published revocation snapshot
    fresh,    \* a snapshot is published and younger than the ceiling
    boot,     \* the bootstrap token on the executor's disk
    certF,    \* the certificate on disk
    keyF,     \* the key on disk
    pc,       \* where the daemon is
    reply,    \* serial of a certificate that arrived and is not installed
    serial,   \* CertificateManager.serial
    cli,      \* the certificate the HTTP client was built with
    seen,     \* the list _last_revocation_etag stands for, {} without one
    sent,     \* the ETag the running check sent, as a list
    failures, \* _consecutive_revocation_failures
    late,     \* an abandoned check is still running in the pool
    beat,     \* a heartbeat is in flight
    flag      \* state.revoked

core   == <<token, row, cert, issued, revoked>>
list   == <<snap, fresh>>
disk   == <<boot, certF, keyF>>
memory == <<serial, cli, seen, sent, failures, late, beat, flag>>
vars   == <<core, asks, list, disk, pc, reply, memory>>

Id == 0   \* stands for the identity in a revocation list

\* Where the daemon is: enrolling and writing what it got (ecert), or in the
\* main loop: at its head, rotating and writing the new pair (keyw, certw),
\* about to check, waiting for the check.
Booting == {"enroll", "ecert"}
InLoop  == {"top", "rotate", "keyw", "certw", "check", "poll"}
Running == pc \in InLoop

\* A registration: its token, or the serial of the client certificate it came
\* with (0 for none); whether the exemption has been granted; whether the
\* daemon still waits for the answer.
Ask(t, s) == [tok |-> t, by |-> s, ok |-> FALSE, heard |-> TRUE]

Init == /\ token = [t \in Tokens |-> "none"]
        /\ row = "absent"
        /\ cert = 0
        /\ issued = 0
        /\ revoked = {}
        /\ asks = {}
        /\ snap = {}
        /\ fresh = FALSE
        /\ boot = NoToken
        /\ certF = 0
        /\ keyF = 0
        /\ pc = "down"
        /\ reply = 0
        /\ serial = 0
        /\ cli = 0
        /\ seen = {}
        /\ sent = {}
        /\ failures = 0
        /\ late = FALSE
        /\ beat = FALSE
        /\ flag = FALSE

-----------------------------------------------------------------------------
(* The administrator. *)

\* admin_enroll_executor.
Mint(t) == /\ token[t] = "none"
           /\ token' = [token EXCEPT ![t] = "created"]
           /\ UNCHANGED <<row, cert, issued, revoked, asks, list, disk, pc, reply, memory>>

\* token_ttl_seconds, with the clock tolerance, have passed.
Expire(t) == /\ token[t] = "created"
             /\ token' = [token EXCEPT ![t] = "spent"]
             /\ UNCHANGED <<row, cert, issued, revoked, asks, list, disk, pc, reply, memory>>

\* admin_revoke_executor, serial form: only the record's serial is found among
\* the certificates, and a second revocation changes nothing.
RevokeSerial == /\ cert # 0
                /\ cert \notin revoked
                /\ revoked' = revoked \cup {cert}
                /\ UNCHANGED <<token, row, cert, issued, asks, list, disk, pc, reply, memory>>

\* admin_revoke_executor, identity form: the identity and its record serial.
RevokeIdentity == /\ cert # 0
                  /\ row' = IF row = "absent" THEN row ELSE "revoked"
                  /\ revoked' = revoked \cup {cert}
                  /\ UNCHANGED <<token, cert, issued, asks, list, disk, pc, reply, memory>>

\* admin_remove_executor, for an identity without retained sessions.
Remove == /\ row # "absent"
          /\ revoked' = revoked \cup ({cert} \ {0})
          /\ cert' = 0
          /\ row' = "absent"
          /\ UNCHANGED <<token, issued, asks, list, disk, pc, reply, memory>>

-----------------------------------------------------------------------------
(* register_executor. *)

\* executor_revocation_state for a presented serial, and the record's match.
Incumbent(s) == row # "revoked" /\ s \notin revoked /\ cert = s

\* CAManager.sign_csr: a serial no certificate has had, drawn at random there.
NextSerial == issued + 1

\* Mutation: the predecessor stays valid.
IssueKeepingOld(a) ==
    /\ a \in asks
    /\ issued < MaxIssue
    /\ issued' = issued + 1
    /\ cert' = issued + 1
    /\ UNCHANGED revoked
    /\ row' = IF row = "absent" THEN "active" ELSE row
    /\ asks' = asks \ {a}
    /\ reply' = IF a.heard THEN issued + 1 ELSE reply

\* The tail of every accepted registration, one transaction: the certificate
\* is signed, the record moves to it, the predecessor is revoked, the executor
\* row is created if it is missing; revoked_at is never cleared.
Issue(a) ==
    /\ a \in asks
    /\ issued < MaxIssue
    /\ issued' = NextSerial
    /\ cert' = NextSerial
    /\ revoked' = revoked \cup ({cert} \ {0})
    /\ row' = IF row = "absent" THEN "active" ELSE row
    /\ asks' = asks \ {a}
    /\ reply' = IF a.heard THEN NextSerial ELSE reply

TokenOpen(t) == t \in Tokens /\ token[t] = "created"

\* A registration with a token: validation, the terminal check and the commit
\* run without an await; the conditional UPDATE spends the token.
Enroll(a) ==
    /\ a.by = 0
    /\ TokenOpen(a.tok)
    /\ row # "revoked"
    /\ token' = [token EXCEPT ![a.tok] = "spent"]
    /\ Issue(a)
    /\ UNCHANGED <<list, disk, pc, memory>>

\* _incumbent_exemption_offloaded: the read is made in a worker thread and the
\* handler goes on when the loop gets to it.
Exempt(a) ==
    /\ a \in asks
    /\ a.by # 0
    /\ ~a.ok
    /\ Incumbent(a.by)
    /\ asks' = (asks \ {a}) \cup {[a EXCEPT !.ok = TRUE]}
    /\ UNCHANGED <<core, list, disk, pc, reply, memory>>

\* Mutation: the exemption is taken for the whole check.
RenewUnchecked(a) ==
    /\ a.ok
    /\ Issue(a)
    /\ UNCHANGED <<token, list, disk, pc, memory>>

\* The rest of a rotation: the terminal check looks at the identity again,
\* not at the presented serial.
Renew(a) ==
    /\ a.ok
    /\ row # "revoked"
    /\ Issue(a)
    /\ UNCHANGED <<token, list, disk, pc, memory>>

\* An answer without a certificate: enrollment gives up and the process ends,
\* a rotation is logged and the loop goes on.
TurnedAway(a) ==
    /\ a \in asks
    /\ asks' = asks \ {a}
    /\ pc' = IF ~a.heard THEN pc ELSE IF pc = "rotate" THEN "check" ELSE "down"
    /\ UNCHANGED <<core, list, disk, reply, memory>>

\* 400, 401, 403, 409; what the handler had written is rolled back.
Refuse(a) == /\ \/ a.by = 0 /\ ~TokenOpen(a.tok)
                \/ a.by # 0 /\ ~a.ok /\ ~Incumbent(a.by)
                \/ (a.by = 0 \/ a.ok) /\ row = "revoked"
             /\ TurnedAway(a)

\* 5xx after the last retry: the revocation read, the CA or the database.
Unavailable(a) == TurnedAway(a)

-----------------------------------------------------------------------------
(* The revocation list. *)

\* publish_snapshot, in a thread of its own; a failed tick leaves the old
\* snapshot.  The serials and the identities are two queries: a commit between
\* them leaves a list that names what the older or the newer one names.
Publish == /\ snap' = revoked \cup (IF row = "revoked" THEN {Id} ELSE {})
           /\ fresh' = TRUE
           /\ UNCHANGED <<core, asks, disk, pc, reply, memory>>

\* The snapshot reaches REVOCATION_SNAPSHOT_MAX_AGE_SECONDS.
GoesStale == /\ fresh
             /\ fresh' = FALSE
             /\ UNCHANGED <<core, asks, snap, disk, pc, reply, memory>>

\* The core restarts: handlers are cut off and rolled back, no snapshot yet.
CoreCrash == /\ asks' = {}
             /\ fresh' = FALSE
             /\ UNCHANGED <<core, snap, disk, pc, reply, memory>>

-----------------------------------------------------------------------------
(* The daemon: boot and enrollment. *)

\* Nobody waits for the answers to come.
Unheard == {[a EXCEPT !.heard = FALSE] : a \in asks}

\* The process ends, its memory with it.
Down == /\ pc' = "down"
        /\ asks' = Unheard
        /\ reply' = 0
        /\ serial' = 0
        /\ cli' = 0
        /\ seen' = {}
        /\ sent' = {}
        /\ failures' = 0
        /\ late' = FALSE
        /\ beat' = FALSE
        /\ flag' = FALSE
        /\ UNCHANGED <<core, list, disk>>

\* A kill, a signal, an uncaught exception, a refused boot.
Crash == pc # "down" /\ Down

\* The installer leaves a token on the host; the operator clears the pair.
Install(t) == /\ pc = "down"
              /\ token[t] # "none"
              /\ boot # t
              /\ boot' = t
              /\ UNCHANGED <<core, asks, list, certF, keyF, pc, reply, memory>>

ClearPair == /\ pc = "down"
             /\ certF # 0
             /\ certF' = 0
             /\ keyF' = 0
             /\ UNCHANGED <<core, asks, list, boot, pc, reply, memory>>

\* _cert_key_pair_matches, on files that exist.
PairUsable == certF # 0 /\ certF = keyF

\* _clear_bootstrap_token
ClearBootstrapToken == boot' = NoToken

\* register() finds a usable pair and the core recognises it, or is out of
\* reach, which proves nothing: the daemon starts on it.  A revoked one is
\* recognised too: the probe reads the status code only.
BootKnown ==
    /\ pc = "down"
    /\ PairUsable
    /\ pc' = "top"
    /\ serial' = certF
    /\ cli' = certF
    /\ ClearBootstrapToken
    /\ UNCHANGED <<core, asks, list, certF, keyF, reply, seen, sent, failures, late, beat, flag>>

\* No pair, or half of an interrupted one: a new key and a registration with
\* the bootstrap token, from a client without a certificate.
BootEnroll ==
    /\ pc = "down"
    /\ ~PairUsable
    /\ Cardinality(asks) < MaxAsks
    /\ asks' = asks \cup {Ask(boot, 0)}
    /\ pc' = "enroll"
    /\ UNCHANGED <<core, list, disk, reply, memory>>

\* register() writes the certificate, then the key; the token is cleared and
\* the client built when both are on disk.
EnrollCert ==
    /\ pc = "enroll"
    /\ reply # 0
    /\ certF' = reply
    /\ pc' = "ecert"
    /\ UNCHANGED <<core, asks, list, boot, keyF, reply, memory>>

EnrollKey ==
    /\ pc = "ecert"
    /\ keyF' = reply
    /\ serial' = reply
    /\ cli' = reply
    /\ reply' = 0
    /\ ClearBootstrapToken
    /\ pc' = "top"
    /\ UNCHANGED <<core, asks, list, certF, seen, sent, failures, late, beat, flag>>

-----------------------------------------------------------------------------
(* The daemon: rotation. *)

\* needs_rotation, and rotate() asks under the client's certificate.
RotateAsk ==
    /\ pc = "top"
    /\ ~flag
    /\ Cardinality(asks) < MaxAsks
    /\ asks' = asks \cup {Ask(NoToken, cli)}
    /\ pc' = "rotate"
    /\ UNCHANGED <<core, list, disk, reply, memory>>

\* The key is replaced first, the certificate second.
RotateKey ==
    /\ pc = "rotate"
    /\ reply # 0
    /\ keyF' = reply
    /\ pc' = "keyw"
    /\ UNCHANGED <<core, asks, list, boot, certF, reply, memory>>

RotateCert ==
    /\ pc = "keyw"
    /\ certF' = reply
    /\ pc' = "certw"
    /\ UNCHANGED <<core, asks, list, boot, keyF, reply, memory>>

\* The CA file is written, the serial adopted and the client replaced.
RotateAdopt ==
    /\ pc = "certw"
    /\ serial' = reply
    /\ cli' = reply
    /\ reply' = 0
    /\ pc' = "check"
    /\ UNCHANGED <<core, asks, list, disk, seen, sent, failures, late, beat, flag>>

\* The new client cannot be built: the old one stays, the serial is the new.
RotateClientFails ==
    /\ pc = "certw"
    /\ serial' = reply
    /\ reply' = 0
    /\ pc' = "check"
    /\ UNCHANGED <<core, asks, list, disk, cli, seen, sent, failures, late, beat, flag>>

\* No answer in time, a certificate that does not validate, a failed write:
\* the exception is logged and what was written stays.
RotateFails ==
    /\ pc \in {"rotate", "keyw", "certw"}
    /\ asks' = Unheard
    /\ reply' = 0
    /\ pc' = "check"
    /\ UNCHANGED <<core, list, disk, memory>>

-----------------------------------------------------------------------------
(* The daemon: revocation check and heartbeat. *)

LoopExit == pc = "top" /\ flag /\ Down

\* check_revocation is submitted to the pool; the loop waits for it.
CheckStarts ==
    /\ pc = "check" \/ (pc = "top" /\ ~flag)
    /\ pc' = "poll"
    /\ sent' = seen
    /\ UNCHANGED <<core, asks, list, disk, reply, serial, cli, seen, failures, late, beat, flag>>

\* The list names the identity or the serial.
Names(l, s) == l \cap {Id, s} # {}

\* read_populations: from a fresh snapshot, or the refusal that is a failure.
SnapshotAnswers == fresh

\* 304: the ETag sent is the one of the snapshot.
NotModified == sent = {snap}

\* The core answers in time and the credential is taken for live; the
\* iteration ends with a heartbeat, unless one is in flight.
CheckLive ==
    /\ pc = "poll"
    /\ SnapshotAnswers
    /\ NotModified \/ ~Names(snap, serial)
    /\ seen' = {snap}
    /\ sent' = {}
    /\ failures' = 0
    /\ beat' = TRUE
    /\ pc' = "top"
    /\ UNCHANGED <<core, asks, list, disk, reply, serial, cli, late, flag>>

\* The core answers in time with a list that names the credential.
CheckRevoked ==
    /\ pc = "poll"
    /\ SnapshotAnswers
    /\ ~NotModified
    /\ Names(snap, serial)
    /\ Down

\* Mutation: the threshold is one failure late.
StrikeOneMore ==
    /\ pc = "poll"
    /\ failures + 1 <= MaxFailures
    /\ failures' = failures + 1
    /\ beat' = TRUE
    /\ sent' = {}
    /\ pc' = "top"
    /\ UNCHANGED <<core, asks, list, disk, reply, serial, cli, seen, flag>>

\* Out of reach, 503 (no fresh snapshot), an unreadable body: one more failure,
\* and at the threshold the loop ends.
Strike ==
    /\ pc = "poll"
    /\ failures + 1 < MaxFailures
    /\ failures' = failures + 1
    /\ beat' = TRUE
    /\ sent' = {}
    /\ pc' = "top"
    /\ UNCHANGED <<core, asks, list, disk, reply, serial, cli, seen, flag>>

CheckFails == Strike /\ UNCHANGED late

\* result(timeout) gives up on the check, which goes on in the pool.
CheckTimesOut == Strike /\ late' = TRUE

CheckFault == pc = "poll" /\ failures + 1 >= MaxFailures /\ Down

\* The abandoned check is answered: it stores the ETag, and nobody reads its
\* verdict.
LateAnswer ==
    /\ late
    /\ SnapshotAnswers
    /\ seen' = {snap}
    /\ late' = FALSE
    /\ UNCHANGED <<core, asks, list, disk, pc, reply, serial, cli, sent, failures, beat, flag>>

LateFails ==
    /\ late
    /\ late' = FALSE
    /\ UNCHANGED <<core, asks, list, disk, pc, reply, serial, cli, seen, sent, failures, beat, flag>>

\* _validate_executor_mtls: the identity has a row.  A revoked one passes on the
\* heartbeat's path.
Recognised == row # "absent"

\* executor_revocation_state without a presented serial.
RecordRevoked == row = "revoked" \/ cert \in revoked

\* Mutation: the advisory flag looks for the credential among the revoked ones
\* of an identity in good standing.
BeatAnsweredActive ==
    /\ beat
    /\ flag' = (flag \/ (row = "active" /\ cert \in revoked))
    /\ beat' = FALSE
    /\ UNCHANGED <<core, asks, list, disk, pc, reply, serial, cli, seen, sent, failures, late>>

\* heartbeat: the answer says whether the identity or its record serial is
\* revoked; a 403 says nothing.
BeatAnswered ==
    /\ beat
    /\ flag' = (flag \/ (Recognised /\ RecordRevoked))
    /\ beat' = FALSE
    /\ UNCHANGED <<core, asks, list, disk, pc, reply, serial, cli, seen, sent, failures, late>>

BeatFails ==
    /\ beat
    /\ beat' = FALSE
    /\ UNCHANGED <<core, asks, list, disk, pc, reply, serial, cli, seen, sent, failures, late, flag>>

-----------------------------------------------------------------------------
Admin == \/ \E t \in Tokens : Mint(t) \/ Expire(t)
         \/ RevokeSerial \/ RevokeIdentity \/ Remove

Register == \E a \in asks : \/ Enroll(a) \/ Exempt(a) \/ Renew(a)
                            \/ Refuse(a) \/ Unavailable(a)

Publisher == Publish \/ GoesStale

Host == (\E t \in Tokens : Install(t)) \/ ClearPair \/ Crash \/ BootKnown \/ BootEnroll
            \/ EnrollCert \/ EnrollKey

Rotate == RotateAsk \/ RotateKey \/ RotateCert \/ RotateAdopt \/ RotateClientFails
              \/ RotateFails

Check == LoopExit \/ CheckStarts \/ CheckLive \/ CheckRevoked \/ CheckFails \/ CheckTimesOut
             \/ CheckFault

Pool == LateAnswer \/ LateFails \/ BeatAnswered \/ BeatFails

Next == Admin \/ Register \/ Publisher \/ CoreCrash \/ Host \/ Rotate \/ Check \/ Pool

Spec == Init /\ [][Next]_vars

\* The loop does not stop by itself, and of the heartbeats sent every 30 s not
\* all are lost.
FairSpec == Spec /\ WF_vars(Rotate \/ Check) /\ SF_vars(BeatAnswered)

-----------------------------------------------------------------------------
Serials == 1 .. issued
Asks == [tok : Tokens \cup {NoToken}, by : 0 .. issued, ok : BOOLEAN, heard : BOOLEAN]

TypeOK == /\ token \in [Tokens -> {"none", "created", "spent"}]
          /\ row \in {"absent", "active", "revoked"}
          /\ issued \in Nat
          /\ cert \in 0 .. issued
          /\ revoked \subseteq Serials
          /\ asks \subseteq Asks
          /\ snap \subseteq 0 .. issued
          /\ boot \in Tokens \cup {NoToken}
          /\ certF \in 0 .. issued /\ keyF \in 0 .. issued
          /\ reply \in 0 .. issued /\ serial \in 0 .. issued /\ cli \in 0 .. issued
          /\ seen \subseteq SUBSET (0 .. issued) /\ sent \subseteq SUBSET (0 .. issued)
          /\ pc \in {"down"} \cup Booting \cup InLoop
          /\ failures \in Nat /\ failures < MaxFailures
          /\ fresh \in BOOLEAN /\ late \in BOOLEAN /\ beat \in BOOLEAN /\ flag \in BOOLEAN

\* Registration revokes the predecessor in its own transaction and removal the
\* last one, so whatever order registrations, rotations, revocations and
\* removals commit in, no certificate but the recorded one was left valid: the
\* core mints no valid certificate that it has lost track of.
OneLiveSerial == \A s \in Serials : s # cert => s \in revoked

\* Once an identity is revoked or removed, none of the certificates ever issued
\* for it is valid, even if a rotation had its exemption granted before: the
\* terminal check is made again at commit.
NoIdentityNoCredential == row # "active" => \A s \in Serials : s \in revoked

\* A daemon whose identity is revoked stops: by the list, by the heartbeat's
\* advisory flag, or by the failures it counts.
RevokedDaemonStops == (Running /\ row = "revoked") ~> (~Running \/ row # "revoked")

\* check_revocation says of a 304 that "the list is unchanged since a check that
\* said live, and a revoked credential would already have stopped the loop".
UnchangedMeansLive == [][CheckLive /\ NotModified => ~Names(snap, serial)]_vars

=============================================================================
