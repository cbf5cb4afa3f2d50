------------------------- MODULE ExecutionSessions -------------------------
(***************************************************************************)
(* Execution sessions in the core server: the rows of execution_sessions,  *)
(* the execute handler that consumes one before relaying a command, the    *)
(* maintenance sweep, and the single event loop all of them run on.        *)
(*                                                                         *)
(* The core is one uvicorn process.  A handler is a coroutine, but every   *)
(* SQLAlchemy call in it is synchronous: between two awaits a handler is   *)
(* one atomic step of the loop, and a statement that waits for a row lock  *)
(* stops the loop, and with it every other handler, until PostgreSQL       *)
(* answers or cancels the statement (statement_timeout).  The claim of a   *)
(* session is an uncommitted UPDATE: its row lock is held over the awaits  *)
(* of the relay.  A raise does not release it: the exit of get_db, a       *)
(* synchronous dependency, first has to be handed to a worker thread, and  *)
(* that thread rolls back while the loop serves others, or stands still.   *)
(*                                                                         *)
(* Wall-clock time is abstracted: a row's expires_at may pass at any time  *)
(* (Lapse) and a deadline may fire at any time after it is armed.          *)
(***************************************************************************)
CONSTANTS Sessions,  \* execution-session ids
          Requests,  \* submissions to the execute route, one use each
          None,      \* no request, no session
          Maint,     \* the cleanup pass, as a task of the loop
          Removal    \* the removal of a user, as a task of the loop

ASSUME TasksDistinct == /\ {None, Maint, Removal} \cap Requests = {}
                        /\ None # Maint /\ None # Removal /\ Maint # Removal
                        /\ None \notin Sessions

VARIABLES
    row,      \* committed state of the session's row
    lapsed,   \* expires_at is in the past
    claim,    \* the request whose open transaction stamped completed_at
    loop,     \* the task whose synchronous statement blocks the loop, or None
    doomed,   \* the rows a stopped DELETE is to remove
    target,   \* the session a request named
    pc,       \* where a request's handler is
    standing, \* what the database says of the executor
    trail     \* committed audit events, as <<event type, outcome, request>>

vars == <<row, lapsed, claim, loop, doomed, target, pc, standing, trail>>

RowState == {"absent", "open", "done", "deleted"}

\* Awaiting the CRL store or the executor.  A handler that has raised waits
\* for a worker thread, and is unwinding while that thread rolls back; until
\* then its transaction keeps the row lock.  A blocked handler is inside the
\* claim statement.
Holding  == {"minting", "relaying"}
Locking  == Holding \cup {"raised", "unwinding"}
InFlight == Locking \cup {"blocked"}

\* Answered: 2xx, 4xx/503 before the claim, 409, any raise after the claim,
\* 500 from a cancelled statement, and no answer because the core died.
Answered == {"ok", "refused", "replay", "failed", "cancelled", "crashed"}

\* The executor is enrolled, its identity or current certificate is revoked,
\* or it has no certificate that is still valid.
Standing == {"active", "revoked", "uncertified"}

\* Two kinds of command_executed rows: with the exit code of a result, and,
\* for a relay that timed out, with no exit code and outcome relay_timeout.
Events == { <<"command_executed", "exit_code">>,
            <<"command_executed", "relay_timeout">>,
            <<"execution_session_replay_refused", "refused">>,
            <<"relay_refused", "refused">>,
            <<"command_rejected", "rejected">> }

\* What the audit writers add for request r; event is a member of Events.
Entry(event, r) == <<event[1], event[2], r>>

\* The ways the relay leg raises (every one rolls the request back).
RelayFault == {"connect", "timeout", "lost", "rejected", "error", "invalid"}

Init == /\ row = [s \in Sessions |-> "absent"]
        /\ lapsed = [s \in Sessions |-> FALSE]
        /\ claim = [s \in Sessions |-> None]
        /\ loop = None
        /\ doomed = {}
        /\ target = [r \in Requests |-> None]
        /\ pc = [r \in Requests |-> "idle"]
        /\ standing = "active"
        /\ trail = {}

Exists(s) == row[s] \in {"open", "done"}

-----------------------------------------------------------------------------
(* Creating a session, and time passing. *)

\* create_execution_session: one synchronous handler, one commit.  Refusals
\* (unknown or revoked executor, unreadable secret) change nothing.
CreateSession(s) ==
    /\ loop = None
    /\ row[s] = "absent"
    /\ standing # "revoked"
    /\ row' = [row EXCEPT ![s] = "open"]
    /\ UNCHANGED <<lapsed, claim, loop, doomed, target, pc, standing, trail>>

\* The ten minutes of a session's expires_at run out.
Lapse(s) ==
    /\ Exists(s)
    /\ ~lapsed[s]
    /\ lapsed' = [lapsed EXCEPT ![s] = TRUE]
    /\ UNCHANGED <<row, claim, loop, doomed, target, pc, standing, trail>>

\* The executor's record changes under the sessions: an administrator revokes
\* it, its certificate runs out, a registration repairs what it can (a
\* revoked identity stays revoked, a revoked or expired certificate is
\* replaced).
ExecutorChanges(st) ==
    /\ loop = None
    /\ standing' = st
    /\ st # standing
    /\ UNCHANGED <<row, lapsed, claim, loop, doomed, target, pc, trail>>

-----------------------------------------------------------------------------
(* execute_command_on_executor, up to its first await. *)

\* The checks in front of the claim; mine says that the session belongs to
\* the caller and names this executor.
Admissible(s, mine) ==
    /\ Exists(s)
    /\ ~lapsed[s]
    /\ mine
    /\ standing = "active"

\* 404, 400, 403 or 503 before the claim.  Only the certificate refusals are
\* audited, in a transaction of their own.
ExecuteRefused(r, s, mine) ==
    /\ loop = None
    /\ pc[r] = "idle"
    /\ ~Admissible(s, mine)
    /\ target' = [target EXCEPT ![r] = s]
    /\ pc' = [pc EXCEPT ![r] = "refused"]
    /\ trail' = IF Exists(s) /\ ~lapsed[s] /\ mine /\ standing = "uncertified"
                THEN trail \cup {Entry(<<"relay_refused", "refused">>, r)}
                ELSE trail
    /\ UNCHANGED <<row, lapsed, claim, loop, doomed, standing>>

\* Mutation: the claim does not test completed_at IS NULL.
ClaimsIgnoringMarker(r, s) ==
    /\ loop = None
    /\ pc[r] = "idle"
    /\ Admissible(s, TRUE)
    /\ claim[s] = None
    /\ claim' = [claim EXCEPT ![s] = r]
    /\ target' = [target EXCEPT ![r] = s]
    /\ pc' = [pc EXCEPT ![r] = "minting"]
    /\ UNCHANGED <<row, lapsed, loop, doomed, standing, trail>>

\* _claim_execution_session matches the row: completed_at is stamped in the
\* open transaction and the handler goes on to await the CRL store.
ExecuteClaims(r, s) ==
    /\ loop = None
    /\ pc[r] = "idle"
    /\ Admissible(s, TRUE)
    /\ claim[s] = None
    /\ row[s] = "open"
    /\ claim' = [claim EXCEPT ![s] = r]
    /\ target' = [target EXCEPT ![r] = s]
    /\ pc' = [pc EXCEPT ![r] = "minting"]
    /\ UNCHANGED <<row, lapsed, loop, doomed, standing, trail>>

\* The claim matches, then a secret's shape is refused (422) before any
\* await: the handler raises with the claim in its open transaction.
ExecuteUnprocessable(r, s) ==
    /\ loop = None
    /\ pc[r] = "idle"
    /\ Admissible(s, TRUE)
    /\ claim[s] = None
    /\ row[s] = "open"
    /\ claim' = [claim EXCEPT ![s] = r]
    /\ target' = [target EXCEPT ![r] = s]
    /\ pc' = [pc EXCEPT ![r] = "raised"]
    /\ UNCHANGED <<row, lapsed, loop, doomed, standing, trail>>

\* The claim matches no row because the committed marker is set: the refusal
\* is committed to the audit trail before the 409 is raised.
ExecuteReplay(r, s) ==
    /\ loop = None
    /\ pc[r] = "idle"
    /\ Admissible(s, TRUE)
    /\ claim[s] = None
    /\ row[s] = "done"
    /\ target' = [target EXCEPT ![r] = s]
    /\ pc' = [pc EXCEPT ![r] = "replay"]
    /\ trail' = trail \cup {Entry(<<"execution_session_replay_refused", "refused">>, r)}
    /\ UNCHANGED <<row, lapsed, claim, loop, doomed, standing>>

\* Mutation: the claim is awaited in a worker thread, so that the loop runs on.
ExecuteBlocksOffLoop(r, s) ==
    /\ loop = None
    /\ pc[r] = "idle"
    /\ Admissible(s, TRUE)
    /\ claim[s] # None
    /\ target' = [target EXCEPT ![r] = s]
    /\ pc' = [pc EXCEPT ![r] = "blocked"]
    /\ UNCHANGED <<row, lapsed, claim, loop, doomed, standing, trail>>

\* Another request's open transaction holds the row lock: the UPDATE waits
\* inside PostgreSQL, and the loop waits with it.
ExecuteBlocks(r, s) ==
    /\ loop = None
    /\ pc[r] = "idle"
    /\ Admissible(s, TRUE)
    /\ claim[s] # None
    /\ target' = [target EXCEPT ![r] = s]
    /\ pc' = [pc EXCEPT ![r] = "blocked"]
    /\ loop' = r
    /\ UNCHANGED <<row, lapsed, claim, doomed, standing, trail>>

\* The lock is released while the statement waits.  Its holder can only have
\* rolled back (a commit needs the loop), so the UPDATE matches after all and
\* the handler goes on as if it had come second; fit says that the secrets'
\* shapes are accepted.
ExecuteResumes(r, fit) ==
    /\ loop = r
    /\ claim[target[r]] = None
    /\ claim' = [claim EXCEPT ![target[r]] = r]
    /\ pc' = [pc EXCEPT ![r] = IF fit THEN "minting" ELSE "raised"]
    /\ loop' = None
    /\ UNCHANGED <<row, lapsed, doomed, target, standing, trail>>

\* Mutation: the maintenance connection carries no statement_timeout.
TimeoutSparesMaint ==
    /\ loop \in Requests
    /\ pc' = [pc EXCEPT ![loop] = "cancelled"]
    /\ loop' = None
    /\ UNCHANGED <<row, lapsed, claim, doomed, target, standing, trail>>

\* statement_timeout cancels the statement the loop waits in: a handler
\* answers 500, the deleting task rolls back and logs.
StatementTimeout ==
    /\ loop # None
    /\ pc' = IF loop \in Requests THEN [pc EXCEPT ![loop] = "cancelled"] ELSE pc
    /\ loop' = None
    /\ doomed' = {}
    /\ UNCHANGED <<row, lapsed, claim, target, standing, trail>>

-----------------------------------------------------------------------------
(* execute_command_on_executor, after the awaits. *)

\* A raise after the claim leaves the transaction open: the exit of get_db is
\* queued for a worker thread.
Raise(r) ==
    /\ loop = None
    /\ pc' = [pc EXCEPT ![r] = "raised"]
    /\ UNCHANGED <<row, lapsed, claim, loop, doomed, target, standing>>

\* The loop hands get_db's exit to a worker thread.
RollbackStarts(r) ==
    /\ loop = None
    /\ pc[r] = "raised"
    /\ pc' = [pc EXCEPT ![r] = "unwinding"]
    /\ UNCHANGED <<row, lapsed, claim, loop, doomed, target, standing, trail>>

\* Mutation: get_db commits what the handler had written.
CommittedInstead(r) ==
    /\ pc[r] = "unwinding"
    /\ claim' = [claim EXCEPT ![target[r]] = None]
    /\ row' = [row EXCEPT ![target[r]] = "done"]
    /\ pc' = [pc EXCEPT ![r] = "failed"]
    /\ UNCHANGED <<lapsed, loop, doomed, target, standing, trail>>

\* Mutation: get_db neither rolls back nor closes, so the connection keeps
\* its transaction open.
ConnectionLeaked(r) ==
    /\ pc[r] = "unwinding"
    /\ pc' = [pc EXCEPT ![r] = "failed"]
    /\ UNCHANGED <<row, lapsed, claim, loop, doomed, target, standing, trail>>

\* The thread rolls back and closes the session, whatever the loop is doing.
RolledBack(r) ==
    /\ pc[r] = "unwinding"
    /\ claim' = [claim EXCEPT ![target[r]] = None]
    /\ pc' = [pc EXCEPT ![r] = "failed"]
    /\ UNCHANGED <<row, lapsed, loop, doomed, target, standing, trail>>

\* _dial_crl_store_offloaded returns and the POST to the executor starts.
MintDone(r) ==
    /\ loop = None
    /\ pc[r] = "minting"
    /\ pc' = [pc EXCEPT ![r] = "relaying"]
    /\ UNCHANGED <<row, lapsed, claim, loop, doomed, target, standing, trail>>

\* The list is unavailable or the TLS material is unusable: 503.
MintFails(r) ==
    /\ pc[r] = "minting"
    /\ Raise(r)
    /\ UNCHANGED trail

\* The row a failed relay leaves.  It is written by a session of its own, so
\* it survives the rollback, but a failure to write it is swallowed.
Recorded(why) ==
    CASE why = "timeout"  -> {<<"command_executed", "relay_timeout">>}
      [] why = "rejected" -> {<<"command_rejected", "rejected">>}
      [] OTHER            -> {}

\* The POST raises or its body does not validate.
RelayRaises(r, why) ==
    /\ pc[r] = "relaying"
    /\ Raise(r)
    /\ \E written \in SUBSET Recorded(why) :
           trail' = trail \cup {Entry(event, r) : event \in written}

\* 200 from the executor: the audit event, the completion fields and the
\* claim's marker are committed together.
RelayOk(r) ==
    /\ loop = None
    /\ pc[r] = "relaying"
    /\ trail' = trail \cup {Entry(<<"command_executed", "exit_code">>, r)}
    /\ row' = [row EXCEPT ![target[r]] = "done"]
    /\ claim' = [claim EXCEPT ![target[r]] = None]
    /\ pc' = [pc EXCEPT ![r] = "ok"]
    /\ UNCHANGED <<lapsed, loop, doomed, target, standing>>

-----------------------------------------------------------------------------
(* The maintenance pass and the loss of the process. *)

\* Mutation: only completed sessions are swept.
DeadWhenDone(s) == row[s] = "done" /\ lapsed[s]

\* expires_at < now, completed or not.
Dead(s) == Exists(s) /\ lapsed[s]

\* Mutation: the sweep takes rows out from under a relay in flight.
SweepIgnoringLocks ==
    /\ loop = None
    /\ \E s \in Sessions : Dead(s)
    /\ row' = [s \in Sessions |-> IF Dead(s) THEN "deleted" ELSE row[s]]
    /\ UNCHANGED <<lapsed, claim, loop, doomed, target, pc, standing, trail>>

\* The DELETE meets a locked row and waits, and the loop waits with it.
DeleteWaits(task, wanted) ==
    /\ loop = None
    /\ \E s \in wanted : claim[s] # None
    /\ loop' = task
    /\ doomed' = wanted
    /\ UNCHANGED <<row, lapsed, claim, target, pc, standing, trail>>

\* The locks are released in time: the stopped DELETE removes the rows it
\* picked when it started, lapsed since or not.
DeleteResumes ==
    /\ loop \in {Maint, Removal}
    /\ \A s \in doomed : claim[s] = None
    /\ row' = [s \in Sessions |-> IF s \in doomed THEN "deleted" ELSE row[s]]
    /\ loop' = None
    /\ doomed' = {}
    /\ UNCHANGED <<lapsed, claim, target, pc, standing, trail>>

\* cleanup_expired_execution_sessions, when no dead row is locked.
Sweep ==
    /\ loop = None
    /\ \E s \in Sessions : Dead(s)
    /\ \A s \in Sessions : Dead(s) => claim[s] = None
    /\ row' = [s \in Sessions |-> IF Dead(s) THEN "deleted" ELSE row[s]]
    /\ UNCHANGED <<lapsed, claim, loop, doomed, target, pc, standing, trail>>

\* The same pass when a dead row is locked by a submission in flight.
SweepBlocks == DeleteWaits(Maint, {s \in Sessions : Dead(s)})

\* admin_remove deletes the execution sessions of the user it removes.
RemoveOwner(owned) ==
    /\ loop = None
    /\ \A s \in owned : claim[s] = None
    /\ row' = [s \in Sessions |-> IF s \in owned /\ Exists(s) THEN "deleted" ELSE row[s]]
    /\ UNCHANGED <<lapsed, claim, loop, doomed, target, pc, standing, trail>>

\* The same removal while the user's command is being relayed.
RemoveOwnerBlocks(owned) == DeleteWaits(Removal, {s \in owned : Exists(s)})

\* The core process dies: PostgreSQL aborts every open transaction.
CoreCrash ==
    /\ loop # None \/ \E r \in Requests : pc[r] \in InFlight
    /\ pc' = [r \in Requests |-> IF pc[r] \in InFlight THEN "crashed" ELSE pc[r]]
    /\ claim' = [s \in Sessions |-> None]
    /\ loop' = None
    /\ doomed' = {}
    /\ UNCHANGED <<row, lapsed, target, standing, trail>>

-----------------------------------------------------------------------------
Execute(r, s) ==
    \/ \E mine \in BOOLEAN : ExecuteRefused(r, s, mine)
    \/ ExecuteClaims(r, s)
    \/ ExecuteUnprocessable(r, s)
    \/ ExecuteReplay(r, s)
    \/ ExecuteBlocks(r, s)

Next ==
    \/ \E s \in Sessions : CreateSession(s) \/ Lapse(s)
    \/ \E st \in Standing : ExecutorChanges(st)
    \/ \E r \in Requests, s \in Sessions : Execute(r, s)
    \/ \E r \in Requests, fit \in BOOLEAN : ExecuteResumes(r, fit)
    \/ \E r \in Requests : MintDone(r) \/ MintFails(r) \/ RelayOk(r)
    \/ \E r \in Requests : RollbackStarts(r) \/ RolledBack(r)
    \/ \E r \in Requests, why \in RelayFault : RelayRaises(r, why)
    \/ StatementTimeout
    \/ Sweep
    \/ SweepBlocks
    \/ DeleteResumes
    \/ \E owned \in SUBSET Sessions : RemoveOwner(owned) \/ RemoveOwnerBlocks(owned)
    \/ CoreCrash

Spec == Init /\ [][Next]_vars

(***************************************************************************)
(* Fairness.  statement_timeout is a server-side timer and a rollback a    *)
(* thread's last call (weak).  The CRL mint is a bounded read in a worker  *)
(* thread and the POST has a 300 s client timeout: their continuations,    *)
(* and the handing of an exit to a thread, are due on the loop's ready     *)
(* queue, which the loop drains each time it runs again, so they cannot be *)
(* passed over for ever by a pass that freezes the loop again (strong).    *)
(* Nothing is assumed of users, of the executor's answer or of             *)
(* maintenance.                                                            *)
(***************************************************************************)
MintEnds(r) == MintDone(r) \/ MintFails(r)
RelayTimesOut(r) == RelayRaises(r, "timeout")

Fairness == /\ WF_vars(StatementTimeout)
            /\ \A r \in Requests : /\ SF_vars(MintEnds(r))
                                   /\ SF_vars(RelayTimesOut(r))
                                   /\ SF_vars(RollbackStarts(r))
                                   /\ WF_vars(RolledBack(r))

FairSpec == Spec /\ Fairness

\* Time passes, and session_cleanup_loop comes round for ever, whatever one
\* pass ran into.
SweepFairness == /\ \A s \in Sessions : WF_vars(Lapse(s))
                 /\ SF_vars(Sweep)

-----------------------------------------------------------------------------
(* Properties. *)

\* A request is inside the claim statement exactly when the loop stands still
\* on its account, and rows are doomed only while a DELETE stands still.
TypeOK ==
    /\ row \in [Sessions -> RowState]
    /\ lapsed \in [Sessions -> BOOLEAN]
    /\ claim \in [Sessions -> Requests \cup {None}]
    /\ loop \in Requests \cup {None, Maint, Removal}
    /\ doomed \subseteq Sessions
    /\ target \in [Requests -> Sessions \cup {None}]
    /\ pc \in [Requests -> {"idle"} \cup InFlight \cup Answered]
    /\ standing \in Standing
    /\ trail \subseteq {Entry(event, r) : event \in Events, r \in Requests}
    /\ \A r \in Requests : pc[r] = "blocked" <=> loop = r
    /\ doomed # {} <=> loop \in {Maint, Removal}

\* The submissions of s whose result, or whose timeout, is on the trail as a
\* committed command_executed row.
Executed(s) == {r \in Requests : target[r] = s
                                 /\ Entry(<<"command_executed", "exit_code">>, r) \in trail}
TimedOut(s) == {r \in Requests : target[r] = s
                                 /\ Entry(<<"command_executed", "relay_timeout">>, r) \in trail}

\* Of the command_executed rows of a session at most one reports a result,
\* whatever was retried before it, and that row and the completion marker
\* stand or fall together; the others are timeouts of submissions that have
\* no result ("one command per session", the 409 of
\* execute_command_on_executor, and the honest row of
\* _record_relay_timeout_audit).  A reader who counts rows by event type
\* alone counts attempts, not results.
OneResult ==
    \A s \in Sessions :
        /\ \A q, r \in Executed(s) : q = r
        /\ row[s] = "done" => Executed(s) # {}
        /\ row[s] \in {"absent", "open"} => Executed(s) = {}
        /\ Executed(s) \cap TimedOut(s) = {}

\* Two submissions of one session are never both between their claim and
\* their commit or rollback: the claim is the only way to the relay.
SingleFlight ==
    \A q, r \in Requests :
        pc[q] \in Holding /\ pc[r] \in Holding /\ target[q] = target[r] => q = r

\* A claimed row is still there, and still unmarked for everyone else, when
\* its relay returns: the zero-row arm of _mark_execution_session_completed
\* cannot be taken.
ClaimedRowKept == \A s \in Sessions : claim[s] # None => row[s] = "open"

\* The rows the stopped statement needs.
Wanted == IF loop \in Requests THEN {target[loop]} ELSE doomed

\* Whenever the event loop is stopped inside a statement, every lock the
\* statement waits for belongs to another submission that is still to
\* commit or roll back: the loop may wait for a handler that needs the loop,
\* or for a worker thread in get_db's exit, but never for a transaction
\* whose request was answered, and never for its own.
NoOrphanedLock ==
    loop # None =>
        \A s \in Wanted : claim[s] # None =>
            /\ claim[s] # loop
            /\ pc[claim[s]] \in Locking
            /\ target[claim[s]] = s

\* Every submission is answered, however often the loop freezes on the way:
\* no request stays between its claim and its answer for ever.
EveryRequestAnswered ==
    \A r \in Requests : pc[r] \in InFlight ~> pc[r] \in Answered

\* Every session row, completed or abandoned, with its wrapped secrets, is
\* gone in the end, although a sweep that meets a claimed row freezes, is
\* cancelled and takes nothing: claims of dead rows end and none is renewed.
EveryRowReaped ==
    SweepFairness => \A s \in Sessions : Exists(s) ~> row[s] = "deleted"

\* The detailed protocol implements OneShotSession: a row whose claim is
\* open is "claimed", whatever the committed row says.
Abstract == INSTANCE OneShotSession WITH
    status  <- [s \in Sessions |-> IF claim[s] # None THEN "claimed" ELSE row[s]],
    results <- [s \in Sessions |-> Executed(s)]

\* Sessions are one-shot as OneShotSession states it: claimed before the
\* relay, completed at most once, never reaped while claimed.
ImplementsOneShot == Abstract!AbsSpec

=============================================================================
