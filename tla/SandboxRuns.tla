----------------------------- MODULE SandboxRuns -----------------------------
(***************************************************************************)
(* The executor's runs: a command is validated against the policy in force,*)
(* its secrets are laid out, a microVM is created, filled, fenced, used and *)
(* removed, and what happens goes to the spool of AuditSpool.               *)
(*                                                                         *)
(* Runs go on side by side, one step per call of the sbx command; the      *)
(* daemon may die between any two, and cleans up when it starts.  The      *)
(* registry of live sandboxes is in its memory.  All runs send one command,*)
(* well formed or not, and a policy is what it says of that command.       *)
(***************************************************************************)
EXTENDS AuditSpool

CONSTANTS None,
          Runs,      \* runs ever relayed to the executor
          Boot,      \* the logger of the daemon itself
          Policies,  \* policies an administrator sets
          Toml,      \* the policy of executor.toml
          Builtin,   \* the built-in dangerous patterns match the command
          Trusted,   \* the command is under DEFAULT_TRUSTED_PATHS
          Accidents  \* bound on failures of sbx and of the disk and on crashes

\* A policy has a preset; the command is on its allowlist; its dangerous
\* patterns match the command.
Policy == [preset : {"permissive", "balanced", "strict"}, listed : BOOLEAN, danger : BOOLEAN]

ASSUME RunsAssumption == /\ Accidents \in Nat
                         /\ Builtin \in BOOLEAN /\ Trusted \in BOOLEAN
                         /\ Policies \subseteq Policy /\ Toml \in Policy
                         /\ Loggers \subseteq Runs \cup {Boot} /\ Boot \in Loggers \ Runs
                         /\ Events = {"injected", "executed", "rejected"} \X Runs

VARIABLES
    daemon,    \* "up" or "down"
    pc,        \* where a run stands
    result,    \* runs that have a result to report
    vm,        \* the microVM of a run, as the host has it
    claimed,   \* _LIVE_SANDBOX_SESSIONS
    workspace, \* directories under WORKSPACE_BASE
    todo,      \* names a run's reap pass has still to remove
    ran,       \* runs whose command was started in its microVM
    row,       \* the default command policy of the core
    applied,   \* the server policy that the daemon applied last
    accidents

host    == <<vm, claimed, workspace, todo, ran>>
policy  == <<row, applied>>
runvars == <<daemon, pc, result, host, policy, accidents>>
vars    == <<spoolvars, runvars>>

\* The stages of a run that is going on.
Active == {"preset", "create", "claim", "copy", "fence", "teardown", "reap", "report"}

Init == /\ InitSpool
        /\ daemon = "up"
        /\ pc = [r \in Runs |-> "new"]
        /\ result = {}
        /\ vm = [r \in Runs |-> "none"]
        /\ claimed = {} /\ workspace = {}
        /\ todo = [r \in Runs |-> {}]
        /\ ran = {}
        /\ row = None /\ applied = None
        /\ accidents = 0

Accident == accidents < Accidents /\ accidents' = accidents + 1
Goes(r, from, to) == pc[r] = from /\ pc' = [pc EXCEPT ![r] = to]

-----------------------------------------------------------------------------
(* Validation. *)

Enforced == IF applied = None THEN Toml ELSE applied

\* _validate_strict looks at the allowlist, _validate_balanced at the trusted
\* paths alone; the permissive preset looks at neither.
PathRefused == \/ Enforced.preset = "strict" /\ ~Enforced.listed
               \/ Enforced.preset = "balanced" /\ ~Trusted

\* A refusal is recorded, then raised.
Rejects(r, from) == /\ Goes(r, from, "ended")
                    /\ Emit(<<"rejected", r>>)
                    /\ UNCHANGED <<daemon, result, host, policy, accidents>>

\* _validate_command_structure: shell metacharacters in an argument, but for
\* the redirect from a bound secret, whatever the policy says.
CheckStructure(r) == /\ daemon = "up"
                     /\ Rejects(r, "new")

\* create_executor has made the run's executor and the shape of the command
\* passes: CommandValidator.validate looks at the policy's patterns.
CheckPatterns(r) ==
    /\ daemon = "up"
    /\ \/ /\ Enforced.danger
          /\ Rejects(r, "new")
       \/ /\ ~Enforced.danger
          /\ Goes(r, "new", "preset")
          /\ UNCHANGED <<spoolvars, daemon, result, host, policy, accidents>>

\* Then at its preset, which may be another policy's by now.
CheckPreset(r) == PathRefused /\ Rejects(r, "preset")

-----------------------------------------------------------------------------
(* The microVM of a run. *)

\* _prepare_injections and _resolve_env_vars, then the record of it: no
\* microVM is asked for before.
Inject(r) ==
    /\ ~PathRefused
    /\ Goes(r, "preset", "create")
    /\ Emit(<<"injected", r>>)
    /\ UNCHANGED <<daemon, result, host, policy, accidents>>

\* The secrets or the variables are refused, or the record cannot be written.
InjectFails(r) ==
    /\ ~PathRefused
    /\ Accident
    /\ Goes(r, "preset", "ended")
    /\ UNCHANGED spoolvars \/ EmitCut(<<"injected", r>>)
    /\ UNCHANGED <<daemon, result, host, policy>>

\* create_sandbox: the directory, then sbx create, which makes the microVM
\* before it returns.
Create(r) == /\ Goes(r, "create", "claim")
             /\ vm' = [vm EXCEPT ![r] = "bare"]
             /\ workspace' = workspace \cup {r}
             /\ UNCHANGED <<spoolvars, daemon, result, claimed, todo, ran, policy, accidents>>

\* register_live_sandbox, once sbx create has returned
Claim(r) == /\ Goes(r, "claim", "copy")
            /\ claimed' = claimed \cup {r}
            /\ UNCHANGED <<spoolvars, daemon, result, vm, workspace, todo, ran, policy, accidents>>

\* sbx create refuses, and the run fails; or it times out, which is a result
\* and may leave a microVM that nobody claims.
CreateFails(r) ==
    /\ Accident
    /\ workspace' = workspace \ {r}
    /\ \/ Goes(r, "create", "ended") /\ UNCHANGED result
       \/ /\ Goes(r, "create", "report") \/ Goes(r, "claim", "report")
          /\ result' = result \cup {r}
    /\ UNCHANGED <<spoolvars, daemon, vm, claimed, todo, ran, policy>>

\* A call of sbx fails when the microVM is gone; otherwise that is an
\* accident.  A timeout is a result, another failure is not.
CallFails(r, from) ==
    /\ Goes(r, from, "teardown")
    /\ result' \in {result, result \cup {r}}
    /\ IF vm[r] = "none" THEN UNCHANGED accidents ELSE Accident

\* copy_secrets_into_sandbox
Copy(r) == /\ Goes(r, "copy", "fence")
           /\ vm[r] # "none"
           /\ vm' = [vm EXCEPT ![r] = "secrets"]
           /\ UNCHANGED <<spoolvars, daemon, result, claimed, workspace, todo, ran, policy, accidents>>

\* What was copied is removed again, as far as that succeeds.
CopyFails(r) == /\ CallFails(r, "copy")
                /\ vm' \in {vm, [vm EXCEPT ![r] = IF @ = "none" THEN @ ELSE "secrets"]}
                /\ UNCHANGED <<spoolvars, daemon, claimed, workspace, todo, ran, policy>>

\* write_askpass_helper or, after it, apply_network_policy fails.
SetupFails(r) == /\ CallFails(r, "fence")
                 /\ UNCHANGED <<spoolvars, daemon, host, policy>>

\* apply_network_policy has allowed every host of the list: only then is the
\* command started.
Fenced(r) == pc[r] = "fence" /\ vm[r] # "none"

\* execute_command: whatever sbx exec answers, and its timeout, is the result.
Exec(r) == /\ Fenced(r)
           /\ Goes(r, "fence", "teardown")
           /\ ran' = ran \cup {r}
           /\ result' = result \cup {r}
           /\ UNCHANGED <<spoolvars, daemon, vm, claimed, workspace, todo, policy, accidents>>

After(r) == IF r \in result THEN "report" ELSE "ended"

\* remove_sandbox: sbx rm succeeds.
Teardown(r) == /\ Goes(r, "teardown", After(r))
               /\ vm' = [vm EXCEPT ![r] = "none"]
               /\ claimed' = claimed \ {r}
               /\ workspace' = workspace \ {r}
               /\ UNCHANGED <<spoolvars, daemon, result, todo, ran, policy, accidents>>

\* Mutation: the claim goes with the call, whatever it answered.
DropsClaim(r) == claimed' = claimed \ {r}

\* release_live_sandbox is only called when sbx rm succeeded.
Unreleased(r) == UNCHANGED claimed

\* sbx rm fails, or it is not answered in time, whatever it did, and then the
\* directory stays too.  The run begins a reap pass: sbx ls, less the claimed.
TeardownFails(r) ==
    /\ Accident
    /\ Goes(r, "teardown", "reap")
    /\ Unreleased(r)
    /\ \/ workspace' = workspace \ {r} /\ UNCHANGED vm
       \/ vm' \in {vm, [vm EXCEPT ![r] = "none"]} /\ UNCHANGED workspace
    /\ todo' = [todo EXCEPT ![r] = {x \in Runs : vm[x] # "none"} \ claimed]
    /\ UNCHANGED <<spoolvars, daemon, result, ran, policy>>

\* reap_orphan_sandboxes removes a name it decided on before.
Reap(r, x) == /\ pc[r] = "reap"
              /\ x \in todo[r]
              /\ todo' = [todo EXCEPT ![r] = @ \ {x}]
              /\ vm' = [vm EXCEPT ![x] = "none"]
              /\ UNCHANGED <<spoolvars, daemon, pc, result, claimed, workspace, ran, policy, accidents>>

\* The pass ends; what it could not remove is left.
ReapEnds(r) == /\ Goes(r, "reap", After(r))
               /\ todo' = [todo EXCEPT ![r] = {}]
               /\ UNCHANGED <<spoolvars, daemon, result, vm, claimed, workspace, ran, policy, accidents>>

\* The result is recorded, whatever it is, and the executor closed.
Report(r) == /\ Goes(r, "report", "ended")
             /\ Emit(<<"executed", r>>)
             /\ result' = result \ {r}
             /\ UNCHANGED <<daemon, host, policy, accidents>>

\* The record cannot be written: the run fails although its command ran.
ReportFails(r) == /\ Accident
                  /\ Goes(r, "report", "ended")
                  /\ EmitCut(<<"executed", r>>)
                  /\ result' = result \ {r}
                  /\ UNCHANGED <<daemon, host, policy>>

-----------------------------------------------------------------------------
(* The daemon and the core. *)

\* The daemon dies; what it had is residue then.
Crash == /\ daemon = "up"
         /\ Accident
         /\ daemon' = "down"
         /\ pc' = [r \in Runs |-> IF pc[r] = "new" THEN "new" ELSE "dead"]
         /\ claimed' = {} /\ result' = {}
         /\ todo' = [r \in Runs |-> {}]
         /\ applied' = None
         /\ SpoolDies
         /\ UNCHANGED <<vm, workspace, ran, row>>

\* ExecutorDaemon.start: sweep_workspace_base, and a reap pass of which a call
\* may fail, before the listener is there; the policy is the file's.
Restart == /\ daemon = "down"
           /\ daemon' = "up"
           /\ workspace' = {}
           /\ \E left \in SUBSET Runs :
                 vm' = [r \in Runs |-> IF r \in left THEN vm[r] ELSE "none"]
           /\ UNCHANGED <<spoolvars, pc, result, claimed, todo, ran, policy, accidents>>

\* The row is changed, in the transaction that audits it.
SetsRow(p) == /\ row' = p
              /\ UNCHANGED <<spoolvars, daemon, pc, result, host, applied, accidents>>

\* admin_set_command_policy: what the call leaves out stays as it was.
SetCommandPolicy(p) == SetsRow(p)

\* admin_add_allowed_command: the preset stays, so that the list may mean
\* nothing; where there is no row, one with the balanced preset is made.
AddAllowedCommand ==
    SetsRow(IF row = None THEN [preset |-> "balanced", listed |-> TRUE, danger |-> Builtin]
            ELSE [row EXCEPT !.listed = TRUE])

\* Mutation: only another preset counts as a change.
ChangedPreset(p) == p.preset # Enforced.preset

\* _maybe_apply_server_policy tells a changed row by its contents.
Changed(p) == p # applied

\* _send_heartbeat: the row rides the answer.
Heartbeat == /\ daemon = "up"
             /\ row # None
             /\ Changed(row)
             /\ applied' = row
             /\ UNCHANGED <<spoolvars, daemon, pc, result, host, row, accidents>>

-----------------------------------------------------------------------------
RunSteps(r) == \/ CheckStructure(r) \/ CheckPatterns(r) \/ CheckPreset(r) \/ Inject(r) \/ InjectFails(r)
               \/ Create(r) \/ Claim(r) \/ CreateFails(r) \/ Copy(r) \/ CopyFails(r) \/ SetupFails(r)
               \/ Exec(r) \/ Teardown(r) \/ TeardownFails(r) \/ ReapEnds(r)
               \/ Report(r) \/ ReportFails(r)
               \/ \E x \in Runs : Reap(r, x)

\* A logger drains while its run is there, the daemon's own always.
Draining(d) == daemon = "up" /\ d \in {Boot} \cup {r \in Runs : pc[r] \in Active}

DrainSteps(d) == /\ \/ Draining(d) /\ DrainBegins(d)
                    \/ Halve(d) \/ Ingest(d) \/ SentRemoved(d) \/ DrainFails(d)
                 /\ UNCHANGED runvars

Next == \/ \E r \in Runs : RunSteps(r)
        \/ \E d \in Loggers : DrainSteps(d)
        \/ Crash \/ Restart \/ Heartbeat \/ AddAllowedCommand
        \/ \E p \in Policies : SetCommandPolicy(p)

\* The daemon is started again, its main loop goes on, its own logger looks at
\* the spool every second, and the core answers again and again.
Fairness == /\ WF_vars(Restart)
            /\ WF_vars(Heartbeat)
            /\ WF_vars(Draining(Boot) /\ DrainBegins(Boot) /\ UNCHANGED runvars)
            /\ SF_vars(Halve(Boot) /\ UNCHANGED runvars)
            /\ SF_vars(Ingest(Boot) /\ UNCHANGED runvars)
            /\ SF_vars(SentRemoved(Boot) /\ UNCHANGED runvars)

Spec == Init /\ [][Next]_vars /\ Fairness

-----------------------------------------------------------------------------
(* Properties. *)

\* A command that was started in a microVM left a record of what it was given,
\* and no record that was written is lost: not by a crash, not by another
\* logger's drain, not by a drop that nobody counted.
OnRecord == /\ NothingLost
            /\ \A r \in ran : <<"injected", r>> \in written

\* While the daemon lives, a microVM of one of its runs that holds secrets is
\* claimed, so that it is not lost track of: through failed copies, failed
\* removals and reap passes of other runs.
SecretsAreClaimed ==
    \A r \in Runs : vm[r] = "secrets" /\ pc[r] # "dead" => r \in claimed

\* The spool is emptied again and again, to the ledger or by drops, whatever
\* fails, crashes or overlaps, unless a line that was cut short stops every
\* batch it is in.
Drains == []<>(spool = <<>> \/ Broken)

\* A command policy that stays is enforced in the end: however often it was
\* changed before, and across restarts that fall back to executor.toml.
PolicyReaches == []<>(row = None \/ Enforced = row)

=============================================================================
