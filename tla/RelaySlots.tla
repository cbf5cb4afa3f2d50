----------------------------- MODULE RelaySlots -----------------------------
(***************************************************************************)
(* The executor's relay listener: one accept loop, one thread per accepted *)
(* connection, a counting semaphore of Cap permits around the engine call, *)
(* and the cooperative, bounded stop that proves the engine idle by taking *)
(* every permit itself.                                                    *)
(*                                                                         *)
(* Each labelled point of a handler thread is a step of its own: the drain *)
(* flag is read without a lock, before the queue and again after the       *)
(* permit, and stop() sets it at any time in between.                      *)
(***************************************************************************)
EXTENDS Integers, FiniteSets

CONSTANTS Requests,  \* relayed commands, one connection each
          Cap        \* executor.max_concurrent_commands, as _read_cap returns it

ASSUME CapAssumption == Cap \in Nat \ {0}
ASSUME RequestsFinite == IsFiniteSet(Requests)

VARIABLES
    draining,  \* RelayListener._draining
    accepting, \* serve_forever is running
    free,      \* the semaphore's value
    held,      \* permits _wait_for_idle has taken so far
    job,       \* where a connection's handler thread is
    code,      \* the status it answers with, "none" until it has one
    stopper    \* where stop() is

lvars == <<draining, accepting, free, held, job, code, stopper>>

\* none: not connected; lost: the process ended under the handler.
JobState == {"none", "accepted", "queued", "admitted", "running", "replying",
             "closed", "lost"}
Live     == {"accepted", "queued", "admitted", "running", "replying"}

\* A handler holds a permit from acquire() to the release in its finally.
Holders == {r \in Requests : job[r] \in {"admitted", "running", "replying"}}

Stopper == {"off", "joining", "counting", "idle", "overflow"}

\* The replies: 200, the 422 of a rejected command, the 503 of a failed
\* execution, the 503 of the drain, and the 400, 403, 404 and 413 of the
\* gates before the queue.
EngineCodes == {"ok", "rejected", "failed"}
Codes       == EngineCodes \cup {"none", "drained", "screened"}

\* Why get_request turns a completed handshake away: the revocation verdict
\* the daemon publishes, or the peer's own serial on a revoked list.
Verdicts == {"clear", "not_wired", "revoked", "no_answer", "peer_revoked"}

InitSlots == /\ draining = FALSE
             /\ accepting = TRUE
             /\ free = Cap
             /\ held = 0
             /\ job = [r \in Requests |-> "none"]
             /\ code = [r \in Requests |-> "none"]
             /\ stopper = "off"

Goto(r, st) == job' = [job EXCEPT ![r] = st]

-----------------------------------------------------------------------------
(* One connection. *)

\* get_request: the handshake completes, the gate consults the verdict, and
\* only a clear one reaches a handler thread.
Accept(r, verdict) ==
    /\ accepting
    /\ job[r] = "none"
    /\ Goto(r, IF verdict = "clear" THEN "accepted" ELSE "closed")
    /\ UNCHANGED <<draining, accepting, free, held, code, stopper>>

\* do_POST up to the semaphore: path, peer name, drain flag and body, each
\* with a reply of its own; what passes goes on to wait for a permit.
Screen(r, answer) ==
    /\ job[r] = "accepted"
    /\ \/ /\ answer = "drained"
          /\ draining
          /\ Goto(r, "closed")
       \/ /\ answer = "screened"
          /\ Goto(r, "closed")
       \/ /\ answer = "none"
          /\ ~draining
          /\ Goto(r, "queued")
    /\ code' = [code EXCEPT ![r] = answer]
    /\ UNCHANGED <<draining, accepting, free, held, stopper>>

\* slots.acquire(), without a timeout.
Acquire(r) ==
    /\ job[r] = "queued"
    /\ free > 0
    /\ free' = free - 1
    /\ Goto(r, "admitted")
    /\ UNCHANGED <<draining, accepting, held, code, stopper>>

\* Mutation: no second look at the drain flag once the permit is held.
AdmitBlindly(r) ==
    /\ job[r] = "admitted"
    /\ Goto(r, "running")
    /\ UNCHANGED <<draining, accepting, free, held, code, stopper>>

\* Mutation: the drain refusal returns past the release.
AdmitLeaking(r) ==
    /\ job[r] = "admitted"
    /\ IF draining
       THEN Goto(r, "closed") /\ code' = [code EXCEPT ![r] = "drained"]
       ELSE Goto(r, "running") /\ UNCHANGED code
    /\ UNCHANGED <<draining, accepting, free, held, stopper>>

\* The drain flag is read again under the permit: a command that queued
\* before the stop must not start after it.
Admit(r) ==
    /\ job[r] = "admitted"
    /\ IF draining
       THEN Goto(r, "replying") /\ code' = [code EXCEPT ![r] = "drained"]
       ELSE Goto(r, "running") /\ UNCHANGED code
    /\ UNCHANGED <<draining, accepting, free, held, stopper>>

\* Mutation: the arm of a rejected command releases the permit itself, and
\* the finally releases it again.
EngineEndsReleasing(r, answer) ==
    /\ job[r] = "running"
    /\ answer \in EngineCodes
    /\ Goto(r, "replying")
    /\ code' = [code EXCEPT ![r] = answer]
    /\ free' = IF answer = "rejected" THEN free + 1 ELSE free
    /\ UNCHANGED <<draining, accepting, held, stopper>>

\* The engine returns a result, rejects the command or raises; close() runs
\* in the finally either way, and the reply is written.
EngineEnds(r, answer) ==
    /\ job[r] = "running"
    /\ answer \in EngineCodes
    /\ Goto(r, "replying")
    /\ code' = [code EXCEPT ![r] = answer]
    /\ UNCHANGED <<draining, accepting, free, held, stopper>>

\* The reply is written, or its peer has hung up; the finally returns the
\* permit in both cases.
Release(r) ==
    /\ job[r] = "replying"
    /\ free' = free + 1
    /\ Goto(r, "closed")
    /\ UNCHANGED <<draining, accepting, held, code, stopper>>

-----------------------------------------------------------------------------
(* stop() and the end of the process. *)

\* The drain flag first, then the request to end serve_forever.
BeginStop ==
    /\ stopper = "off"
    /\ draining' = TRUE
    /\ stopper' = "joining"
    /\ UNCHANGED <<accepting, free, held, job, code>>

\* serve_forever notices, and the waiter thread joins within the budget.
AcceptLoopEnds ==
    /\ stopper = "joining"
    /\ accepting' = FALSE
    /\ stopper' = "counting"
    /\ UNCHANGED <<draining, free, held, job, code>>

\* _wait_for_idle takes the next permit, in competition with the queue.
StopTakes ==
    /\ stopper = "counting"
    /\ held < Cap
    /\ free > 0
    /\ free' = free - 1
    /\ held' = held + 1
    /\ UNCHANGED <<draining, accepting, job, code, stopper>>

\* Every permit is held: nothing is in flight.  The finally gives them back
\* and the socket is closed.
StopIdle ==
    /\ stopper = "counting"
    /\ held = Cap
    /\ free' = free + held
    /\ held' = 0
    /\ stopper' = "idle"
    /\ UNCHANGED <<draining, accepting, job, code>>

\* Mutation: the permits taken before the deadline are not given back.
StopOverflowKeeping ==
    /\ stopper \in {"joining", "counting"}
    /\ accepting' = FALSE
    /\ stopper' = "overflow"
    /\ UNCHANGED <<draining, free, held, job, code>>

\* The deadline passes first, while joining the accept loop or while
\* counting: the permits taken so far go back and the stop returns anyway.
StopOverflow ==
    /\ stopper \in {"joining", "counting"}
    /\ accepting' = FALSE
    /\ free' = free + held
    /\ held' = 0
    /\ stopper' = "overflow"
    /\ UNCHANGED <<draining, job, code>>

\* The process exits, after a stop or by a crash, and systemd starts another:
\* daemon threads die where they stand, start() builds a new semaphore.
Restart ==
    /\ draining' = FALSE
    /\ accepting' = TRUE
    /\ free' = Cap
    /\ held' = 0
    /\ job' = [r \in Requests |-> IF job[r] \in Live THEN "lost" ELSE job[r]]
    /\ stopper' = "off"
    /\ UNCHANGED code

-----------------------------------------------------------------------------
Handler(r) ==
    \/ \E v \in Verdicts : Accept(r, v)
    \/ \E c \in Codes : Screen(r, c)
    \/ Acquire(r)
    \/ Admit(r)
    \/ \E c \in EngineCodes : EngineEnds(r, c)
    \/ Release(r)

Stop == BeginStop \/ AcceptLoopEnds \/ StopTakes \/ StopIdle \/ StopOverflow

NextSlots == (\E r \in Requests : Handler(r)) \/ Stop \/ Restart

SlotsSpec == InitSlots /\ [][NextSlots]_lvars

(***************************************************************************)
(* Fairness: threads are scheduled, the engine's own deadlines end every   *)
(* run, and stop() is bounded by its budget.  Nothing is assumed of peers, *)
(* of operators asking for a stop, or of the accept loop.                  *)
(***************************************************************************)
Works(r) == \/ \E c \in Codes : Screen(r, c)
            \/ Acquire(r)
            \/ Admit(r)
            \/ \E c \in EngineCodes : EngineEnds(r, c)
            \/ Release(r)

StopReturns == StopIdle \/ StopOverflow

FairSlots == /\ SlotsSpec
             /\ \A r \in Requests : WF_lvars(Works(r))
             /\ WF_lvars(StopReturns)

-----------------------------------------------------------------------------
(* Properties. *)

SlotsTypeOK ==
    /\ draining \in BOOLEAN
    /\ accepting \in BOOLEAN
    /\ free \in 0..Cap
    /\ held \in 0..Cap
    /\ job \in [Requests -> JobState]
    /\ code \in [Requests -> Codes]
    /\ stopper \in Stopper

\* No permit is lost and none is minted: what is free, what stop() has taken
\* and what handler threads hold always add up to the cap, across drain
\* refusals, engine failures, hang-ups and an overflowing stop.
SlotsConserved == free + held + Cardinality(Holders) = Cap

\* A stop that reported idle is final: no command runs and none can start,
\* although handler threads that queued before the drain are still there to
\* acquire the permits stop() gave back ("holding all of them is the proof
\* that nothing is in flight").
IdleIsFinal ==
    stopper = "idle" =>
        \A r \in Requests :
            /\ job[r] # "running"
            /\ job[r] = "replying" => code[r] = "drained"

\* Every connection that reached a handler thread is answered or dies with
\* the process: neither the queue nor a stop that competes with it for the
\* permits starves a waiting command for ever.
EveryJobEnds == \A r \in Requests : job[r] \in Live ~> job[r] \in {"closed", "lost"}

=============================================================================
