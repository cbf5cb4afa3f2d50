------------------------------ MODULE ExecRelay ------------------------------
(***************************************************************************)
(* The path of a secret through one relayed command: the core's execution  *)
(* sessions and the executor's relay listener, joined by the POST between  *)
(* them, with what travels on it.  A session binds the secret's value of   *)
(* its creation; a claim loads it; the engine puts it in a sandbox, masks  *)
(* the output, removes its directory and asks the core to revoke the       *)
(* binding; the reaper removes what a dead run left behind.                *)
(*                                                                         *)
(* Core and executor share nothing but messages: the core may stop waiting *)
(* while the run goes on, a retry may queue behind the run it retries, and *)
(* any call of the executor to the core may fail.  Events nobody waits for *)
(* (a changed secret or executor record, a crash, a restart, a stop) are   *)
(* bounded: a behaviour has at most MaxEvents of them.                     *)
(***************************************************************************)
EXTENDS RelaySlots

CONSTANTS Sessions, None, Maint, Removal,
          TtlCoversWait,  \* reaper.secret_ttl_seconds is no less than the 300 s
                          \* the core waits for a reply (the shipped default)
          MaxEvents       \* bound on outside events in one behaviour

\* As in ExecutionSessions.
ASSUME TasksDistinct == /\ {None, Maint, Removal} \cap Requests = {}
                        /\ None # Maint /\ None # Removal /\ Maint # Removal
                        /\ None \notin Sessions
ASSUME RelayConfig == MaxEvents \in Nat /\ TtlCoversWait \in BOOLEAN

VARIABLES row, lapsed, claim, loop, doomed, target, pc, standing, trail,
          secret,   \* what the secret row holds now
          bound,    \* the value wrapped in the session's SessionSecret row
          payload,  \* the value the relayed request carries
          run,      \* where the engine is with a command
          out,      \* what the engine's result shows of the secret
          dir,      \* the run's secret directory on the executor's tmpfs
          events    \* outside events so far

cvars == <<row, lapsed, claim, loop, doomed, target, pc, standing, trail>>
evars == <<payload, run, out, dir>>
vars  == <<cvars, lvars, evars, secret, bound, events>>

Core == INSTANCE ExecutionSessions

\* One secret: its first value, a replacement, or deleted.  A session that
\* binds nothing, or whose binding was revoked, has no value.
NoValue == "none"
Value   == {"old", "new"}

\* "ran" covers a finished, a failed and a timed-out sandbox run alike.
Run == {"idle", "prepared", "ran", "torn"}

\* none: the engine has no result; clean: it does not show the secret.
Out == {"none", "clean", "masked", "raw"}

\* aged: older than reaper.secret_ttl_seconds; reaped: the reaper deleted it
\* while its command had not ended.
Dir == {"none", "fresh", "aged", "reaped"}
Plaintext == {"fresh", "aged"}

Init == /\ Core!Init
        /\ InitSlots
        /\ secret = "old"
        /\ bound = [s \in Sessions |-> NoValue]
        /\ payload = [r \in Requests |-> NoValue]
        /\ run = [r \in Requests |-> "idle"]
        /\ out = [r \in Requests |-> "none"]
        /\ dir = [r \in Requests |-> "none"]
        /\ events = 0

OutsideEvent == events < MaxEvents /\ events' = events + 1

-----------------------------------------------------------------------------
(* The core: sessions, secrets, the execute handler. *)

\* create_execution_session with or without a secret key: get_for_injection
\* reads the value of the moment, and row and binding commit together.
CreateSession(s, withSecret) ==
    /\ Core!CreateSession(s)
    /\ withSecret => secret # "gone"
    /\ bound' = [bound EXCEPT ![s] = IF withSecret THEN secret ELSE NoValue]
    /\ UNCHANGED <<lvars, evars, secret, events>>

\* Core.put on an existing key replaces the value in place.
PutSecret ==
    /\ OutsideEvent
    /\ loop = None
    /\ secret = "old"
    /\ secret' = "new"
    /\ UNCHANGED <<cvars, lvars, evars, bound>>

\* Mutation: the bindings of a deleted secret stay.
DeleteSecretOnly ==
    /\ OutsideEvent
    /\ loop = None
    /\ secret # "gone"
    /\ secret' = "gone"
    /\ UNCHANGED <<cvars, lvars, evars, bound>>

\* Core.delete takes the session bindings of the secret with it.
DeleteSecret ==
    /\ OutsideEvent
    /\ loop = None
    /\ secret # "gone"
    /\ secret' = "gone"
    /\ bound' = [s \in Sessions |-> NoValue]
    /\ UNCHANGED <<cvars, lvars, evars>>

\* The claim matches and the bindings are loaded into the payload.
ExecuteClaims(r, s) ==
    /\ Core!ExecuteClaims(r, s)
    /\ payload' = [payload EXCEPT ![r] = bound[s]]
    /\ UNCHANGED <<lvars, run, out, dir, secret, bound, events>>

\* The same for a claim that had to wait for the lock.
ExecuteResumes(r) ==
    /\ Core!ExecuteResumes(r, TRUE)
    /\ payload' = [payload EXCEPT ![r] = bound[target[r]]]
    /\ UNCHANGED <<lvars, run, out, dir, secret, bound, events>>

\* Steps of the core that touch neither secret nor executor.  Only a bound
\* secret has a shape to refuse.
CoreAlone ==
    /\ \/ \E s \in Sessions : Core!Lapse(s)
       \/ \E r \in Requests, s \in Sessions :
            \/ \E mine \in BOOLEAN : Core!ExecuteRefused(r, s, mine)
            \/ bound[s] # NoValue /\ Core!ExecuteUnprocessable(r, s)
            \/ Core!ExecuteReplay(r, s)
            \/ Core!ExecuteBlocks(r, s)
       \/ \E r \in Requests :
            \/ Core!ExecuteResumes(r, FALSE) /\ bound[target[r]] # NoValue
            \/ Core!MintDone(r)
            \/ Core!MintFails(r)
            \/ Core!RollbackStarts(r)
            \/ Core!RolledBack(r)
       \/ Core!StatementTimeout
       \/ Core!SweepBlocks
    /\ UNCHANGED <<lvars, evars, secret, bound, events>>

\* admin_remove of the user: sessions, bindings and secret go in one commit.
RemoveOwner ==
    /\ OutsideEvent
    /\ Core!RemoveOwner(Sessions)
    /\ secret' = "gone"
    /\ bound' = [s \in Sessions |-> NoValue]
    /\ UNCHANGED <<lvars, evars>>

\* The executor's record changes, a removal meets a claimed row, or the core
\* process dies.
CoreEvent ==
    /\ OutsideEvent
    /\ \/ \E st \in Core!Standing : Core!ExecutorChanges(st)
       \/ Core!RemoveOwnerBlocks(Sessions)
       \/ Core!CoreCrash
    /\ UNCHANGED <<lvars, evars, secret, bound>>

\* The sweep deletes the bindings of the rows it deletes, in one commit.
Sweep ==
    /\ Core!Sweep
    /\ bound' = [s \in Sessions |-> IF Core!Dead(s) THEN NoValue ELSE bound[s]]
    /\ UNCHANGED <<lvars, evars, secret, events>>

\* A sweep or a removal that waited for a lock gets through.
DeleteResumes ==
    /\ Core!DeleteResumes
    /\ secret' = IF loop = Removal THEN "gone" ELSE secret
    /\ bound' = [s \in Sessions |->
                   IF loop = Removal \/ s \in doomed THEN NoValue ELSE bound[s]]
    /\ UNCHANGED <<lvars, evars, events>>

\* The executor's reply is on the wire once the handler has written it.
Replied(r) == job[r] \in {"replying", "closed"} /\ code[r] # "none"

\* How the relay leg may fail, given where the listener is with it.
Fits(r, why) ==
    \/ why = "timeout"
    \/ why \in {"connect", "lost"} /\ ~Replied(r) /\ job[r] \in {"none", "closed", "lost"}
    \/ why = "rejected" /\ Replied(r) /\ code[r] = "rejected"
    \/ why = "error" /\ Replied(r) /\ code[r] \notin {"ok", "rejected"}

\* The core takes the executor's answer, or gives up on it.
Answer(r) ==
    /\ \/ Replied(r) /\ code[r] = "ok" /\ Core!RelayOk(r)
       \/ \E why \in Core!RelayFault : Fits(r, why) /\ Core!RelayRaises(r, why)
    /\ UNCHANGED <<lvars, evars, secret, bound, events>>

-----------------------------------------------------------------------------
(* The executor: listener, engine, reaper. *)

\* A connection needs a core that is still waiting for it; the other steps
\* of a handler thread need nobody.
ListenerAlone ==
    /\ \/ \E r \in Requests :
            \/ \E v \in Verdicts : pc[r] = "relaying" /\ Accept(r, v)
            \/ \E c \in Codes : Screen(r, c)
            \/ Acquire(r)
            \/ Admit(r)
            \/ Release(r)
       \/ AcceptLoopEnds
       \/ StopTakes
       \/ StopIdle
       \/ StopOverflow
    /\ UNCHANGED <<cvars, evars, secret, bound, events>>

\* The daemon is asked to stop, or its process is replaced.
ListenerEvent ==
    /\ OutsideEvent
    /\ BeginStop \/ Restart
    /\ UNCHANGED <<cvars, evars, secret, bound>>

\* CommandRejected, or a preparation that raises: nothing was injected, the
\* directory is gone, and the finally has no secret id to revoke.
Reject(r, answer) ==
    /\ run[r] = "idle"
    /\ answer \in {"rejected", "failed"}
    /\ EngineEnds(r, answer)
    /\ run' = [run EXCEPT ![r] = "torn"]
    /\ UNCHANGED <<cvars, payload, out, dir, secret, bound, events>>

\* _prepare_injections: the plaintext is written to a new directory.
Prepare(r) ==
    /\ job[r] = "running"
    /\ run[r] = "idle"
    /\ run' = [run EXCEPT ![r] = "prepared"]
    /\ dir' = [dir EXCEPT ![r] = "fresh"]
    /\ UNCHANGED <<cvars, lvars, payload, out, secret, bound, events>>

\* The sandbox cannot be made, copied into or confined: execute raises.
RunFails(r) ==
    /\ job[r] = "running"
    /\ run[r] = "prepared"
    /\ run' = [run EXCEPT ![r] = "ran"]
    /\ UNCHANGED <<cvars, lvars, payload, out, dir, secret, bound, events>>

\* A call of the executor to the core can be answered with a 200: the loop
\* runs, and the executor's certificate still opens the door.
CoreAnswers == loop = None /\ standing = "active"

\* filter_session_output decrypts what the bound secret rows hold now.
Stage2Masks(r) == bound[target[r]] # NoValue /\ secret = payload[r]

\* Mutation: Stage 2 masks with the values of other sessions only.
FilterWithoutBinding(r, prints, reached) ==
    /\ job[r] = "running"
    /\ run[r] = "prepared"
    /\ reached => CoreAnswers /\ Core!Exists(target[r])
    /\ run' = [run EXCEPT ![r] = "ran"]
    /\ out' = [out EXCEPT ![r] =
                 IF ~prints \/ payload[r] = NoValue THEN "clean"
                 ELSE IF reached THEN "raw" ELSE "masked"]
    /\ UNCHANGED <<cvars, lvars, payload, dir, secret, bound, events>>

\* The command ends and its output, which may show the secret, is filtered:
\* Stage 1 masks the injected values; Stage 2 is sent the unmasked output,
\* and when it answers 200 its output replaces that of Stage 1.
Filter(r, prints, reached) ==
    /\ job[r] = "running"
    /\ run[r] = "prepared"
    /\ reached => CoreAnswers /\ Core!Exists(target[r])
    /\ run' = [run EXCEPT ![r] = "ran"]
    /\ out' = [out EXCEPT ![r] =
                 IF ~prints \/ payload[r] = NoValue THEN "clean"
                 ELSE IF reached /\ ~Stage2Masks(r) THEN "raw" ELSE "masked"]
    /\ UNCHANGED <<cvars, lvars, payload, dir, secret, bound, events>>

\* POST /sessions/{id}/secrets/revoke for the run's secrets, if it arrives.
Revoke(r, arrives) ==
    /\ arrives => CoreAnswers /\ payload[r] # NoValue
    /\ bound' = IF arrives THEN [bound EXCEPT ![target[r]] = NoValue] ELSE bound

\* The finally of execute: the directory is removed (errors are ignored),
\* then the binding is revoked (errors are journalled).
Teardown(r, removed, arrives) ==
    /\ job[r] = "running"
    /\ run[r] = "ran"
    /\ run' = [run EXCEPT ![r] = "torn"]
    /\ dir' = [dir EXCEPT ![r] = IF removed /\ dir[r] # "reaped" THEN "none" ELSE dir[r]]
    /\ Revoke(r, arrives)
    /\ UNCHANGED <<cvars, lvars, payload, out, secret, events>>

\* execute returns or raises to the handler thread.
EngineReturns(r) ==
    /\ run[r] = "torn"
    /\ EngineEnds(r, IF out[r] = "none" THEN "failed" ELSE "ok")
    /\ UNCHANGED <<cvars, evars, secret, bound, events>>

\* secret_ttl_seconds pass.  The directory is younger than the core's own wait
\* for the reply: with a ttl that covers the wait the core has given up by
\* then.  Nothing in the configuration demands such a ttl.
Age(r) ==
    /\ dir[r] = "fresh"
    /\ TtlCoversWait => pc[r] # "relaying"
    /\ dir' = [dir EXCEPT ![r] = "aged"]
    /\ UNCHANGED <<cvars, lvars, payload, run, out, secret, bound, events>>

\* Mutation: the reaper never looks at a directory of a run it remembers.
ReapForgotten(r, arrives) ==
    /\ dir[r] = "aged"
    /\ job[r] = "lost"
    /\ dir' = [dir EXCEPT ![r] = IF run[r] = "prepared" THEN "reaped" ELSE "none"]
    /\ Revoke(r, arrives)
    /\ UNCHANGED <<cvars, lvars, payload, run, out, secret, events>>

\* _check_orphaned: an aged directory is deleted, whoever it belongs to, and
\* the secrets named by its files are revoked for its session.
Reap(r, arrives) ==
    /\ dir[r] = "aged"
    /\ dir' = [dir EXCEPT ![r] = IF run[r] = "prepared" THEN "reaped" ELSE "none"]
    /\ Revoke(r, arrives)
    /\ UNCHANGED <<cvars, lvars, payload, run, out, secret, events>>

-----------------------------------------------------------------------------
Engine(r) ==
    \/ \E c \in {"rejected", "failed"} : Reject(r, c)
    \/ Prepare(r)
    \/ RunFails(r)
    \/ \E prints, reached \in BOOLEAN : Filter(r, prints, reached)
    \/ \E removed, arrives \in BOOLEAN : Teardown(r, removed, arrives)
    \/ EngineReturns(r)

Reaper(r) == Age(r) \/ \E arrives \in BOOLEAN : Reap(r, arrives)

Next ==
    \/ \E s \in Sessions, b \in BOOLEAN : CreateSession(s, b)
    \/ \E r \in Requests, s \in Sessions : ExecuteClaims(r, s)
    \/ \E r \in Requests : ExecuteResumes(r) \/ Answer(r) \/ Engine(r) \/ Reaper(r)
    \/ PutSecret
    \/ DeleteSecret
    \/ RemoveOwner
    \/ Sweep
    \/ DeleteResumes
    \/ CoreAlone
    \/ CoreEvent
    \/ ListenerAlone
    \/ ListenerEvent

Spec == Init /\ [][Next]_vars

(***************************************************************************)
(* Fairness of the cleanup: the reaper thread scans for ever, a directory  *)
(* grows old, the engine's deadlines end every step of a run, and the core *)
(* gives up on a reply after its client timeout once the loop lets it.     *)
(***************************************************************************)
CoreGivesUp(r) == Core!RelayRaises(r, "timeout") /\ UNCHANGED <<lvars, evars, secret, bound, events>>
CoreUnfreezes  == Core!StatementTimeout /\ UNCHANGED <<lvars, evars, secret, bound, events>>

FairSpec == /\ Spec
            /\ WF_vars(CoreUnfreezes)
            /\ \A r \in Requests : /\ SF_vars(CoreGivesUp(r))
                                   /\ WF_vars(Reaper(r))
-----------------------------------------------------------------------------
(* Properties. *)

TypeOK ==
    /\ secret \in Value \cup {"gone"}
    /\ bound \in [Sessions -> Value \cup {NoValue}]
    /\ payload \in [Requests -> Value \cup {NoValue}]
    /\ run \in [Requests -> Run]
    /\ out \in [Requests -> Out]
    /\ dir \in [Requests -> Dir]
    /\ events \in 0..MaxEvents

\* A binding exists only under a session row and over a secret that exist:
\* creation, the sweep, the revocations and the deletion of a secret keep the
\* three tables consistent in every order.
BindingsAreLive ==
    \A s \in Sessions : bound[s] # NoValue => Core!Exists(s) /\ secret # "gone"

\* A delivered result shows the secret only if the secret changed after the
\* session bound it, or an earlier attempt of the same session had already
\* been given the secret (its teardown, or the reaper, revoked the binding
\* that Stage 2 masks with), or, with a reaper ttl shorter than the core's
\* wait, the reaper took the running command's own directory.  Otherwise the
\* first attempt of an unchanged secret is masked, whatever fails on the way.
UndisturbedIsMasked ==
    \A r \in Requests :
        pc[r] = "ok" /\ out[r] = "raw" =>
            \/ secret # payload[r]
            \/ \E q \in Requests \ {r} :
                 target[q] = target[r] /\ payload[q] # NoValue /\ run[q] # "idle"
            \/ ~TtlCoversWait /\ dir[r] = "reaped"

\* Plaintext left on the executor's tmpfs is removed in the end, by the run
\* that wrote it or, when that run was killed or its cleanup failed, by the
\* reaper.
PlaintextDies ==
    \A r \in Requests : dir[r] \in Plaintext ~> dir[r] \notin Plaintext

\* What the architecture document says of a delivered result: it never
\* carries the raw bytes of an injected secret.
NoRawDelivery == \A r \in Requests : pc[r] = "ok" => out[r] # "raw"

=============================================================================
