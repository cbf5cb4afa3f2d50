--------------------------- MODULE ExecRelayProofs ---------------------------
(***************************************************************************)
(* Proofs about the relay: its listener (RelaySlots), for every finite set *)
(* of commands and every cap, and the composition of listener and core     *)
(* (ExecRelay), for every set of sessions and every number of outside      *)
(* events.                                                                 *)
(*                                                                         *)
(* Conservation of the permits is not inductive alone and the type of the  *)
(* counters needs it: the two are proved together, with the two facts      *)
(* about stop() that make an idle stop final.  The composition is first    *)
(* shown to step as its parts do; then the path of a secret through it is  *)
(* followed, from the binding to the delivered output.                     *)
(***************************************************************************)
EXTENDS ExecRelay, FiniteSetTheorems, TLAPS

-----------------------------------------------------------------------------
(* The listener. *)

\* stop() raises the drain flag before anything else.
DrainFirst == stopper # "off" => draining

\* Permits are in stop()'s hands only while it counts them.
HeldWhileCounting == held # 0 => stopper = "counting"

SlotInv == /\ SlotsTypeOK
           /\ SlotsConserved
           /\ DrainFirst
           /\ HeldWhileCounting
           /\ IdleIsFinal

-----------------------------------------------------------------------------

\* The set of permit holders is finite, so it has a cardinality.
LEMMA HoldersFinite == IsFiniteSet(Holders) /\ Cardinality(Holders) \in Nat
  <1>1. Holders \subseteq Requests
    BY DEF Holders
  <1>2. IsFiniteSet(Holders)
    BY <1>1, RequestsFinite, FS_Subset
  <1> QED
    BY <1>2, FS_CardinalityType

\* acquire(): the thread that takes a permit is one holder more.
LEMMA HolderJoins ==
  ASSUME SlotsTypeOK, NEW r \in Requests, job[r] = "queued", Goto(r, "admitted")
  PROVE  Cardinality(Holders') = Cardinality(Holders) + 1
  <1>1. Holders' = Holders \cup {r} /\ r \notin Holders
    BY DEF Holders, Goto, SlotsTypeOK
  <1>2. IsFiniteSet(Holders)
    BY HoldersFinite
  <1> QED
    BY <1>1, <1>2, FS_AddElement

\* release(): the thread that returns its permit is one holder less.
LEMMA HolderLeaves ==
  ASSUME SlotsTypeOK, NEW r \in Requests, job[r] = "replying", Goto(r, "closed")
  PROVE  Cardinality(Holders') = Cardinality(Holders) - 1
  <1>1. Holders' = Holders \ {r} /\ r \in Holders
    BY DEF Holders, Goto, SlotsTypeOK
  <1>2. IsFiniteSet(Holders)
    BY HoldersFinite
  <1> QED
    BY <1>1, <1>2, FS_RemoveElement

\* A listener that has just been started has no permit out.
LEMMA NobodyHolds ==
  ASSUME \A r \in Requests : job[r] \notin {"admitted", "running", "replying"}
  PROVE  Cardinality(Holders) = 0
  <1>1. Holders = {}
    BY DEF Holders
  <1> QED
    BY <1>1, FS_EmptySet

-----------------------------------------------------------------------------

\* The invariant holds of a listener that has just been started.
LEMMA SlotInvInit == InitSlots => SlotInv
  <1> SUFFICES ASSUME InitSlots PROVE SlotInv
    OBVIOUS
  <1>1. SlotsTypeOK
    <2>1. draining \in BOOLEAN /\ accepting \in BOOLEAN
      BY Zenon DEF InitSlots
    <2>2. free \in 0..Cap /\ held \in 0..Cap
      BY CapAssumption DEF InitSlots
    <2>3. /\ job \in [Requests -> JobState]
          /\ code \in [Requests -> Codes]
          /\ stopper \in Stopper
      BY DEF InitSlots, JobState, Codes, Stopper
    <2> QED
      BY <2>1, <2>2, <2>3 DEF SlotsTypeOK
  <1>2. Cardinality(Holders) = 0
    BY NobodyHolds DEF InitSlots
  <1>3. SlotsConserved
    BY <1>2, CapAssumption DEF InitSlots, SlotsConserved
  <1>4. DrainFirst /\ HeldWhileCounting /\ IdleIsFinal
    BY DEF InitSlots, DrainFirst, HeldWhileCounting, IdleIsFinal
  <1> QED
    BY <1>1, <1>3, <1>4 DEF SlotInv

\* Steps of a handler thread keep the invariant.
LEMMA HandlerStep ==
  ASSUME SlotInv, NEW r \in Requests, Handler(r)
  PROVE  SlotInv'
  <1> USE CapAssumption DEF SlotInv
  <1>0. Cardinality(Holders) \in Nat
    BY HoldersFinite
  <1>1. ASSUME NEW v \in Verdicts, Accept(r, v) PROVE SlotInv'
    <2>1. Holders' = Holders
      BY <1>1 DEF Accept, Goto, Holders, SlotsTypeOK
    <2> QED
      BY <1>1, <2>1 DEF Accept, Goto, SlotsTypeOK, JobState, SlotsConserved,
                        DrainFirst, HeldWhileCounting, IdleIsFinal
  <1>2. ASSUME NEW c \in Codes, Screen(r, c) PROVE SlotInv'
    <2>1. Holders' = Holders
      BY <1>2 DEF Screen, Goto, Holders, SlotsTypeOK
    <2> QED
      BY <1>2, <2>1 DEF Screen, Goto, SlotsTypeOK, JobState, SlotsConserved,
                        DrainFirst, HeldWhileCounting, IdleIsFinal
  <1>3. CASE Acquire(r)
    <2>1. Cardinality(Holders') = Cardinality(Holders) + 1
      BY <1>3, HolderJoins DEF Acquire
    <2> QED
      BY <1>0, <1>3, <2>1 DEF Acquire, Goto, SlotsTypeOK, JobState, SlotsConserved,
                              DrainFirst, HeldWhileCounting, IdleIsFinal
  <1>4. CASE Admit(r)
    <2>1. Holders' = Holders
      BY <1>4 DEF Admit, Goto, Holders, SlotsTypeOK
    <2>2. SlotsTypeOK' /\ SlotsConserved' /\ DrainFirst' /\ HeldWhileCounting'
      BY <1>4, <2>1 DEF Admit, Goto, SlotsTypeOK, JobState, Codes,
                        SlotsConserved, DrainFirst, HeldWhileCounting
    <2>3. IdleIsFinal'
      BY <1>4 DEF Admit, Goto, SlotsTypeOK, DrainFirst, IdleIsFinal
    <2> QED
      BY <2>2, <2>3
  <1>5. ASSUME NEW c \in EngineCodes, EngineEnds(r, c) PROVE SlotInv'
    <2>1. Holders' = Holders
      BY <1>5 DEF EngineEnds, Goto, Holders, SlotsTypeOK
    <2>2. SlotsTypeOK' /\ SlotsConserved' /\ DrainFirst' /\ HeldWhileCounting'
      BY <1>5, <2>1 DEF EngineEnds, Goto, SlotsTypeOK, JobState, Codes,
                        SlotsConserved, DrainFirst, HeldWhileCounting
    <2>3. IdleIsFinal'
      BY <1>5 DEF EngineEnds, IdleIsFinal
    <2> QED
      BY <2>2, <2>3
  <1>6. CASE Release(r)
    <2>1. Cardinality(Holders') = Cardinality(Holders) - 1
      BY <1>6, HolderLeaves DEF Release
    <2>2. Cardinality(Holders') \in Nat
      <3>1. Holders' \subseteq Requests
        BY DEF Holders
      <3> QED
        BY <3>1, RequestsFinite, FS_Subset, FS_CardinalityType
    <2> QED
      BY <1>0, <1>6, <2>1, <2>2 DEF Release, Goto, SlotsTypeOK, JobState,
                SlotsConserved, DrainFirst, HeldWhileCounting, IdleIsFinal
  <1> QED
    BY <1>1, <1>2, <1>3, <1>4, <1>5, <1>6 DEF Handler

\* Steps of stop() keep the invariant.  The last permit is the argument of
\* IdleIsFinal: with all of them in stop()'s hands no thread holds one.
LEMMA StopStep ==
  ASSUME SlotInv, Stop
  PROVE  SlotInv'
  <1> USE CapAssumption DEF SlotInv
  <1>0. Cardinality(Holders) \in Nat
    BY HoldersFinite
  <1>h. Holders' = Holders
    BY DEF Holders, Stop, BeginStop, AcceptLoopEnds, StopTakes, StopIdle,
           StopOverflow
  <1>1. CASE BeginStop
    BY <1>1, <1>h DEF BeginStop, SlotsTypeOK, Stopper, SlotsConserved, DrainFirst,
                      HeldWhileCounting, IdleIsFinal
  <1>2. CASE AcceptLoopEnds
    BY <1>2, <1>h DEF AcceptLoopEnds, SlotsTypeOK, Stopper, SlotsConserved,
                      DrainFirst, HeldWhileCounting, IdleIsFinal
  <1>3. CASE StopTakes
    BY <1>3, <1>h, <1>0 DEF StopTakes, SlotsTypeOK, Stopper, SlotsConserved,
                      DrainFirst, HeldWhileCounting, IdleIsFinal
  <1>4. CASE StopIdle
    <2>1. Cardinality(Holders) = 0
      BY <1>4, <1>0 DEF StopIdle, SlotsTypeOK, SlotsConserved
    <2>2. Holders = {}
      BY <2>1, HoldersFinite, FS_EmptySet
    <2>3. IdleIsFinal'
      BY <1>4, <2>2 DEF StopIdle, Holders, IdleIsFinal
    <2>4. SlotsTypeOK'
      BY <1>4, <1>0, <2>1 DEF StopIdle, SlotsTypeOK, Stopper, SlotsConserved
    <2>5. SlotsConserved'
      BY <1>4, <1>h, <1>0, <2>1 DEF StopIdle, SlotsTypeOK, SlotsConserved
    <2>6. DrainFirst' /\ HeldWhileCounting'
      BY <1>4 DEF StopIdle, SlotsTypeOK, DrainFirst, HeldWhileCounting
    <2> QED
      BY <2>3, <2>4, <2>5, <2>6
  <1>5. CASE StopOverflow
    <2>1. free' \in 0..Cap /\ held' \in 0..Cap /\ SlotsConserved'
      BY <1>5, <1>h, <1>0 DEF StopOverflow, SlotsTypeOK, SlotsConserved
    <2>2. SlotsTypeOK'
      <3>1. accepting' \in BOOLEAN
        BY <1>5, Zenon DEF StopOverflow
      <3> QED
        BY <1>5, <2>1, <3>1 DEF StopOverflow, SlotsTypeOK, Stopper
    <2>3. DrainFirst' /\ HeldWhileCounting' /\ IdleIsFinal'
      BY <1>5 DEF StopOverflow, DrainFirst, HeldWhileCounting, IdleIsFinal
    <2> QED
      BY <2>1, <2>2, <2>3
  <1> QED
    BY <1>1, <1>2, <1>3, <1>4, <1>5 DEF Stop

\* A new process starts with every permit free and every old thread gone.
LEMMA RestartStep ==
  ASSUME SlotInv, Restart
  PROVE  SlotInv'
  <1>1. \A r \in Requests : job'[r] \notin {"admitted", "running", "replying"}
    BY DEF SlotInv, SlotsTypeOK, JobState, Live, Restart
  <1>2. Holders' = {}
    BY <1>1 DEF Holders
  <1>3. Cardinality(Holders') = 0
    BY <1>2, FS_EmptySet
  <1>4. SlotsTypeOK'
    <2>1. draining' \in BOOLEAN /\ accepting' \in BOOLEAN
      BY Zenon DEF Restart
    <2>2. free' \in 0..Cap /\ held' \in 0..Cap
      BY CapAssumption DEF Restart
    <2>3. /\ job' \in [Requests -> JobState]
          /\ code' \in [Requests -> Codes]
          /\ stopper' \in Stopper
      BY DEF Restart, SlotInv, SlotsTypeOK, JobState, Stopper
    <2> QED
      BY <2>1, <2>2, <2>3 DEF SlotsTypeOK
  <1>5. SlotsConserved'
    BY <1>3, CapAssumption DEF Restart, SlotsConserved
  <1>6. DrainFirst' /\ HeldWhileCounting' /\ IdleIsFinal'
    BY DEF Restart, DrainFirst, HeldWhileCounting, IdleIsFinal
  <1> QED
    BY <1>4, <1>5, <1>6 DEF SlotInv

\* Every step of the listener keeps the invariant.
LEMMA SlotStep ==
  ASSUME SlotInv, [NextSlots]_lvars
  PROVE  SlotInv'
  <1>1. CASE UNCHANGED lvars
    BY <1>1 DEF lvars, SlotInv, SlotsTypeOK, SlotsConserved, DrainFirst,
                HeldWhileCounting, IdleIsFinal, Holders
  <1> QED
    BY <1>1, HandlerStep, StopStep, RestartStep DEF NextSlots

\* SlotInv is an inductive invariant of the listener.
LEMMA SlotsInvariance == SlotsSpec => []SlotInv
  BY SlotInvInit, SlotStep, PTL DEF SlotsSpec

-----------------------------------------------------------------------------

\* The listener's variables keep their types; in particular the semaphore
\* never exceeds the cap it was built with.
THEOREM SlotsTypeCorrect == SlotsSpec => []SlotsTypeOK
  BY SlotsInvariance, PTL DEF SlotInv

\* Permits are conserved, for every cap and every number of commands.
THEOREM PermitsAreConserved == SlotsSpec => []SlotsConserved
  BY SlotsInvariance, PTL DEF SlotInv

\* A stop that reported idle is final, for every cap and number of commands:
\* no command runs and none can start in that process.
THEOREM IdleStopIsFinal == SlotsSpec => []IdleIsFinal
  BY SlotsInvariance, PTL DEF SlotInv

-----------------------------------------------------------------------------
(* The composition: every step of it is a step of its parts. *)

\* What happens to the core's state is a step of ExecutionSessions.
LEMMA CoreProjection == [Next]_vars => [Core!Next]_(Core!vars)
  <1> SUFFICES ASSUME [Next]_vars PROVE [Core!Next]_(Core!vars)
    OBVIOUS
  <1> USE DEF cvars, Core!vars
  <1>1. ASSUME NEW s \in Sessions, NEW b \in BOOLEAN, CreateSession(s, b)
        PROVE  Core!Next
    BY <1>1 DEF CreateSession, Core!Next
  <1>2. ASSUME NEW r \in Requests, NEW s \in Sessions, ExecuteClaims(r, s)
        PROVE  Core!Next
    BY <1>2 DEF ExecuteClaims, Core!Next, Core!Execute
  <1>3. ASSUME NEW r \in Requests, ExecuteResumes(r) \/ Answer(r) PROVE Core!Next
    BY <1>3 DEF ExecuteResumes, Answer, Core!Next
  <1>4. ASSUME NEW r \in Requests, Engine(r) \/ Reaper(r) PROVE UNCHANGED cvars
    BY <1>4 DEF Engine, Reaper, Reject, Prepare, RunFails, Filter, Teardown,
                EngineReturns, Age, Reap
  <1>5. CASE PutSecret \/ DeleteSecret \/ ListenerAlone \/ ListenerEvent
    BY <1>5 DEF PutSecret, DeleteSecret, ListenerAlone, ListenerEvent
  <1>6. CASE RemoveOwner
    <2>1. Core!RemoveOwner(Sessions) /\ Sessions \in SUBSET Sessions
      BY <1>6 DEF RemoveOwner
    <2> QED
      BY <2>1 DEF Core!Next
  <1>7. CASE Sweep \/ DeleteResumes
    BY <1>7 DEF Sweep, DeleteResumes, Core!Next
  <1>8. CASE CoreAlone
    BY <1>8 DEF CoreAlone, Core!Next, Core!Execute
  <1>9. CASE CoreEvent
    <2>1. Sessions \in SUBSET Sessions
      OBVIOUS
    <2> QED
      BY <1>9, <2>1 DEF CoreEvent, Core!Next
  <1>10. CASE UNCHANGED vars
    BY <1>10 DEF vars
  <1> QED
    BY <1>1, <1>2, <1>3, <1>4, <1>5, <1>6, <1>7, <1>8, <1>9, <1>10 DEF Next

\* What happens to the listener's state is a step of RelaySlots.
LEMMA ListenerProjection == [Next]_vars => [NextSlots]_lvars
  <1> SUFFICES ASSUME [Next]_vars PROVE [NextSlots]_lvars
    OBVIOUS
  <1> USE DEF lvars
  <1>1. ASSUME NEW s \in Sessions, NEW b \in BOOLEAN, CreateSession(s, b)
        PROVE  UNCHANGED lvars
    BY <1>1 DEF CreateSession
  <1>2. ASSUME NEW r \in Requests, NEW s \in Sessions, ExecuteClaims(r, s)
        PROVE  UNCHANGED lvars
    BY <1>2 DEF ExecuteClaims
  <1>3. ASSUME NEW r \in Requests, ExecuteResumes(r) \/ Answer(r) \/ Reaper(r)
        PROVE  UNCHANGED lvars
    BY <1>3 DEF ExecuteResumes, Answer, Reaper, Age, Reap
  <1>4. ASSUME NEW r \in Requests, Engine(r) PROVE NextSlots \/ UNCHANGED lvars
    <2>1. ASSUME NEW c \in EngineCodes, EngineEnds(r, c) PROVE NextSlots
      BY <2>1 DEF NextSlots, Handler
    <2>2. ASSUME NEW c \in {"rejected", "failed"}, Reject(r, c) PROVE NextSlots
      BY <2>1, <2>2 DEF Reject, EngineCodes
    <2>3. CASE EngineReturns(r)
      BY <2>1, <2>3 DEF EngineReturns, EngineCodes
    <2>4. CASE Prepare(r) \/ RunFails(r)
      BY <2>4 DEF Prepare, RunFails
    <2>5. ASSUME NEW p \in BOOLEAN, NEW q \in BOOLEAN, Filter(r, p, q) \/ Teardown(r, p, q)
          PROVE  UNCHANGED lvars
      BY <2>5 DEF Filter, Teardown
    <2> QED
      BY <1>4, <2>2, <2>3, <2>4, <2>5 DEF Engine
  <1>5. CASE \/ PutSecret \/ DeleteSecret \/ RemoveOwner \/ Sweep \/ DeleteResumes
             \/ CoreAlone \/ CoreEvent
    BY <1>5 DEF PutSecret, DeleteSecret, RemoveOwner, Sweep, DeleteResumes, CoreAlone, CoreEvent
  <1>6. CASE ListenerAlone
    BY <1>6 DEF ListenerAlone, NextSlots, Handler, Stop
  <1>7. CASE ListenerEvent
    BY <1>7 DEF ListenerEvent, NextSlots, Stop
  <1>8. CASE UNCHANGED vars
    BY <1>8 DEF vars
  <1> QED
    BY <1>1, <1>2, <1>3, <1>4, <1>5, <1>6, <1>7, <1>8 DEF Next

\* Joining the two by messages takes nothing away from either: a behaviour of
\* the composition is a behaviour of the execute protocol and of the listener,
\* and what is proved of them holds in it.
THEOREM PartsKeepTheirContracts == Spec => Core!Spec /\ SlotsSpec
  <1>1. Init => Core!Init /\ InitSlots
    BY DEF Init
  <1> QED
    BY <1>1, CoreProjection, ListenerProjection, PTL DEF Spec, Core!Spec, SlotsSpec

\* Permits are conserved also when engine runs, retries and a core that gives
\* up drive the listener.
THEOREM RelayedPermitsAreConserved == Spec => []SlotsConserved
  BY PartsKeepTheirContracts, PermitsAreConserved, PTL

-----------------------------------------------------------------------------
(* The secret's path. *)

\* The core's variables that the path depends on.
CoreTyped == /\ row \in [Sessions -> Core!RowState]
             /\ claim \in [Sessions -> Requests \cup {None}]
             /\ target \in [Requests -> Sessions \cup {None}]
             /\ pc \in [Requests -> {"idle"} \cup Core!InFlight \cup Core!Answered]
             /\ \A r \in Requests : /\ loop = r => pc[r] = "blocked"
                                    /\ pc[r] = "blocked" => target[r] \in Sessions

\* A request between its claim and the end of its transaction holds the claim
\* it took.
HolderOwnsClaim ==
    \A r \in Requests :
        pc[r] \in Core!Locking => target[r] \in Sessions /\ claim[target[r]] = r

\* The order of a relayed command: claim, connection, run, directory, answer.
InOrder ==
    \A r \in Requests :
        /\ pc[r] \in {"idle", "blocked"} => payload[r] = NoValue
        /\ pc[r] \in {"idle", "blocked", "minting"} => job[r] = "none"
        /\ pc[r] = "ok" => job[r] \in {"replying", "closed", "lost"}
        /\ job[r] = "none" => run[r] = "idle"
        /\ run[r] = "idle" => dir[r] = "none" /\ out[r] = "none"
        /\ run[r] \in {"prepared", "ran"} => job[r] \in {"running", "lost"}
        /\ pc[r] = "ok" => run[r] \notin {"prepared", "ran"}
        /\ TtlCoversWait /\ dir[r] = "aged" => pc[r] # "relaying"
        /\ TtlCoversWait /\ dir[r] = "reaped" => pc[r] \notin Core!Holding \cup {"ok"}

\* A value is bound or sent after it was stored.
NewFollowsOld == /\ \A s \in Sessions : bound[s] = "new" => secret # "old"
                 /\ \A r \in Requests : payload[r] = "new" => secret # "old"

\* What excuses a result that shows the secret: the secret changed, another
\* attempt of the session had it, or a short-lived directory was reaped.
Disturbed(r) ==
    \/ secret # payload[r]
    \/ \E q \in Requests \ {r} :
         target[q] = target[r] /\ payload[q] # NoValue /\ run[q] # "idle"
    \/ ~TtlCoversWait /\ dir[r] = "reaped"

\* Until its output is filtered, the binding Stage 2 masks with is there.
StillBound ==
    \A r \in Requests :
        pc[r] \in Core!Holding /\ payload[r] # NoValue /\ run[r] \in {"idle", "prepared"} =>
            bound[target[r]] # NoValue \/ Disturbed(r)

RawIsDisturbed ==
    \A r \in Requests :
        pc[r] \in Core!Holding \cup {"ok"} /\ out[r] = "raw" => Disturbed(r)

PathInv == /\ TypeOK
           /\ BindingsAreLive
           /\ InOrder
           /\ NewFollowsOld
           /\ StillBound
           /\ RawIsDisturbed

Inv == CoreTyped /\ HolderOwnsClaim /\ SlotInv /\ PathInv

\* The facts hold of a core without sessions and an executor without runs.
LEMMA InvInit == Init => Inv
  <1> SUFFICES ASSUME Init PROVE Inv
    OBVIOUS
  <1>1. CoreTyped /\ HolderOwnsClaim
    BY TasksDistinct DEF Init, Core!Init, CoreTyped, HolderOwnsClaim, Core!RowState,
       Core!InFlight, Core!Locking, Core!Holding, Core!Answered
  <1>2. SlotInv
    BY SlotInvInit DEF Init
  <1>3. TypeOK /\ NewFollowsOld /\ BindingsAreLive
    BY RelayConfig DEF Init, TypeOK, NoValue, Value, Run, Out, Dir, NewFollowsOld, BindingsAreLive
  <1>4. InOrder /\ StillBound /\ RawIsDisturbed
    BY DEF Init, Core!Init, InitSlots, InOrder, StillBound, RawIsDisturbed, NoValue, Core!Holding
  <1> QED
    BY <1>1, <1>2, <1>3, <1>4 DEF Inv, PathInv

\* A claim answers to one request: taking it needs it free, and only its
\* holder gives it back.
LEMMA CoreStep ==
  ASSUME CoreTyped, HolderOwnsClaim, [Core!Next]_(Core!vars)
  PROVE  CoreTyped' /\ HolderOwnsClaim'
  <1> USE TasksDistinct DEF CoreTyped, HolderOwnsClaim, Core!RowState, Core!InFlight,
                            Core!Locking, Core!Holding, Core!Answered
  <1> DEFINE Goal == CoreTyped' /\ HolderOwnsClaim'
  <1>1. ASSUME NEW s \in Sessions, Core!CreateSession(s) \/ Core!Lapse(s) PROVE Goal
    BY <1>1 DEF Core!CreateSession, Core!Lapse
  <1>2. ASSUME NEW st \in Core!Standing, Core!ExecutorChanges(st) PROVE Goal
    BY <1>2 DEF Core!ExecutorChanges
  <1>3. ASSUME NEW r \in Requests, NEW s \in Sessions, Core!Execute(r, s) PROVE Goal
    <2>1. ASSUME NEW mine \in BOOLEAN, Core!ExecuteRefused(r, s, mine) PROVE Goal
      BY <2>1 DEF Core!ExecuteRefused
    <2>2. CASE Core!ExecuteClaims(r, s)
      BY <2>2 DEF Core!ExecuteClaims
    <2>3. CASE Core!ExecuteUnprocessable(r, s)
      BY <2>3 DEF Core!ExecuteUnprocessable
    <2>4. CASE Core!ExecuteReplay(r, s)
      BY <2>4 DEF Core!ExecuteReplay
    <2>5. CASE Core!ExecuteBlocks(r, s)
      BY <2>5 DEF Core!ExecuteBlocks
    <2> QED
      BY <1>3, <2>1, <2>2, <2>3, <2>4, <2>5 DEF Core!Execute
  <1>4. ASSUME NEW r \in Requests, Core!MintDone(r) PROVE Goal
    BY <1>4 DEF Core!MintDone
  <1>5. ASSUME NEW r \in Requests, Core!MintFails(r) PROVE Goal
    BY <1>5 DEF Core!MintFails, Core!Raise
  <1>6. ASSUME NEW r \in Requests, Core!RelayOk(r) PROVE Goal
    BY <1>6 DEF Core!RelayOk
  <1>7. ASSUME NEW r \in Requests, NEW why \in Core!RelayFault, Core!RelayRaises(r, why)
        PROVE  Goal
    BY <1>7 DEF Core!RelayRaises, Core!Raise
  <1>8. CASE Core!StatementTimeout
    BY <1>8 DEF Core!StatementTimeout
  <1>9. CASE Core!Sweep
    BY <1>9 DEF Core!Sweep
  <1>10. CASE Core!SweepBlocks \/ Core!DeleteResumes
    BY <1>10 DEF Core!SweepBlocks, Core!DeleteWaits, Core!DeleteResumes
  <1>11. ASSUME NEW owned \in SUBSET Sessions,
                Core!RemoveOwner(owned) \/ Core!RemoveOwnerBlocks(owned)
         PROVE  Goal
    BY <1>11 DEF Core!RemoveOwner, Core!RemoveOwnerBlocks, Core!DeleteWaits
  <1>12. CASE Core!CoreCrash
    BY <1>12 DEF Core!CoreCrash
  <1>13. CASE UNCHANGED Core!vars
    BY <1>13 DEF Core!vars
  <1>14. ASSUME NEW r \in Requests, NEW fit \in BOOLEAN, Core!ExecuteResumes(r, fit) PROVE Goal
    <2>1. target[r] \in Sessions
      BY <1>14 DEF Core!ExecuteResumes
    <2> QED
      BY <1>14, <2>1 DEF Core!ExecuteResumes
  <1>15. ASSUME NEW r \in Requests, Core!RollbackStarts(r) PROVE Goal
    BY <1>15 DEF Core!RollbackStarts
  <1>16. ASSUME NEW r \in Requests, Core!RolledBack(r) PROVE Goal
    BY <1>16 DEF Core!RolledBack
  <1> QED
    BY <1>1, <1>2, <1>3, <1>4, <1>5, <1>6, <1>7, <1>8, <1>9, <1>10, <1>11, <1>12, <1>13,
       <1>14, <1>15, <1>16
    DEF Core!Next

\* A run that began belongs to a request that was relayed.
LEMMA RunsWereRelayed ==
  ASSUME Inv, NEW r \in Requests, run[r] # "idle"
  PROVE  pc[r] \notin {"idle", "blocked", "minting"} /\ job[r] # "none"
  BY DEF Inv, PathInv, InOrder

\* The request has a session and a payload.
Begun(r) == pc[r] \notin {"idle", "blocked"}

\* What excuses a request is never taken back: sessions and values of a
\* submission are fixed, runs do not become unbegun, and the secret goes
\* forward only.
LEMMA DisturbedStays ==
  ASSUME Inv, NEW r \in Requests, Begun(r), Disturbed(r),
         \A q \in Requests : Begun(q) => target'[q] = target[q] /\ payload'[q] = payload[q],
         dir[r] = "reaped" => dir'[r] = "reaped",
         \A q \in Requests : run[q] # "idle" => run'[q] # "idle",
         secret' = secret \/ secret' = "gone" \/ (secret = "old" /\ secret' = "new")
  PROVE  Disturbed(r)'
  <1>1. CASE secret # payload[r]
    <2>1. secret' # payload'[r]
      BY <1>1 DEF Inv, PathInv, TypeOK, NewFollowsOld, Value, NoValue, Begun
    <2> QED
      BY <2>1 DEF Disturbed
  <1>3. CASE ~TtlCoversWait /\ dir[r] = "reaped"
    BY <1>3 DEF Disturbed
  <1>2. CASE secret = payload[r] /\ ~(~TtlCoversWait /\ dir[r] = "reaped")
    <2>1. PICK q \in Requests \ {r} :
                 target[q] = target[r] /\ payload[q] # NoValue /\ run[q] # "idle"
      BY <1>2 DEF Disturbed
    <2>2. target'[q] = target'[r] /\ payload'[q] # NoValue /\ run'[q] # "idle"
      BY <2>1, RunsWereRelayed DEF Begun
    <2> QED
      BY <2>2 DEF Disturbed
  <1> QED
    BY <1>1, <1>2, <1>3

\* How a step of the core alone moves a submission: not at all, to an answer
\* that delivers nothing, to the relay, or to the result.
Moves(r) ==
    \/ pc'[r] = pc[r] /\ target'[r] = target[r]
    \/ pc[r] = "idle" /\ pc'[r] = "blocked"
    \/ /\ pc'[r] \in {"refused", "replay", "raised", "unwinding", "failed", "cancelled", "crashed"}
       /\ pc[r] = "idle" \/ target'[r] = target[r]
    \/ target'[r] = target[r] /\ pc[r] = "minting" /\ pc'[r] = "relaying"
    \/ /\ target'[r] = target[r] /\ pc[r] = "relaying" /\ pc'[r] = "ok"
       /\ job[r] \in {"replying", "closed"}

\* Such steps leave the path of the secret as it is.
LEMMA CoreQuiet ==
  ASSUME Inv, UNCHANGED <<lvars, evars, secret, bound>>, events' \in 0..MaxEvents,
         \A s \in Sessions : Core!Exists(s) => Core!Exists(s)',
         \A r \in Requests : Moves(r)
  PROVE  PathInv'
  <1> USE DEF Inv, PathInv, lvars, evars
  <1>1. TypeOK'
    BY DEF TypeOK
  <1>2. BindingsAreLive' /\ NewFollowsOld'
    BY DEF BindingsAreLive, NewFollowsOld
  <1>3. InOrder'
    BY DEF InOrder, Moves, Core!Holding
  <1>4. ASSUME NEW r \in Requests, Begun(r), Disturbed(r) PROVE Disturbed(r)'
    BY <1>4, DisturbedStays DEF Moves, Begun
  <1>5. StillBound'
    BY <1>4 DEF StillBound, Moves, Core!Holding, Begun
  <1>6. RawIsDisturbed'
    BY <1>4 DEF RawIsDisturbed, Moves, Core!Holding, Begun
  <1> QED
    BY <1>1, <1>2, <1>3, <1>5, <1>6

\* Handler steps without a secret, the mint, cancelled statements and a sweep
\* that waits.
LEMMA CoreAloneStep ==
  ASSUME Inv, CoreAlone
  PROVE  PathInv'
  <1> DEFINE Quiet == /\ \A s \in Sessions : Core!Exists(s) => Core!Exists(s)'
                      /\ \A r \in Requests : Moves(r)
  <1> USE DEF Inv, CoreTyped
  <1>1. ASSUME NEW s \in Sessions, Core!Lapse(s) PROVE Quiet
    BY <1>1 DEF Core!Lapse, Core!Exists, Moves
  <1>2. ASSUME NEW r \in Requests, NEW s \in Sessions, NEW mine \in BOOLEAN,
               Core!ExecuteRefused(r, s, mine)
        PROVE  Quiet
    BY <1>2 DEF Core!ExecuteRefused, Core!Exists, Moves
  <1>3. ASSUME NEW r \in Requests, NEW s \in Sessions, Core!ExecuteUnprocessable(r, s)
        PROVE  Quiet
    BY <1>3 DEF Core!ExecuteUnprocessable, Core!Exists, Moves
  <1>4. ASSUME NEW r \in Requests, NEW s \in Sessions, Core!ExecuteReplay(r, s)
        PROVE  Quiet
    BY <1>4 DEF Core!ExecuteReplay, Core!Exists, Moves
  <1>5. ASSUME NEW r \in Requests, NEW s \in Sessions, Core!ExecuteBlocks(r, s)
        PROVE  Quiet
    BY <1>5 DEF Core!ExecuteBlocks, Core!Exists, Moves
  <1>6. ASSUME NEW r \in Requests, Core!MintDone(r) PROVE Quiet
    BY <1>6 DEF Core!MintDone, Core!Exists, Moves
  <1>7. ASSUME NEW r \in Requests, Core!MintFails(r) PROVE Quiet
    BY <1>7 DEF Core!MintFails, Core!Raise, Core!Exists, Moves
  <1>8. ASSUME Core!StatementTimeout PROVE Quiet
    BY <1>8 DEF Core!StatementTimeout, Core!Exists, Moves
  <1>9. ASSUME Core!SweepBlocks PROVE Quiet
    BY <1>9 DEF Core!SweepBlocks, Core!DeleteWaits, Core!Exists, Moves
  <1>12. ASSUME NEW r \in Requests, Core!RollbackStarts(r) \/ Core!RolledBack(r) PROVE Quiet
    BY <1>12 DEF Core!RollbackStarts, Core!RolledBack, Core!Exists, Moves
  <1>13. ASSUME NEW r \in Requests, Core!ExecuteResumes(r, FALSE) PROVE Quiet
    BY <1>13 DEF Core!ExecuteResumes, Core!Exists, Moves
  <1>10. Quiet
    BY <1>1, <1>2, <1>3, <1>4, <1>5, <1>6, <1>7, <1>8, <1>9, <1>12, <1>13 DEF CoreAlone
  <1>11. UNCHANGED <<lvars, evars, secret, bound>> /\ events' \in 0..MaxEvents
    BY DEF CoreAlone, PathInv, TypeOK
  <1> QED
    BY <1>10, <1>11, CoreQuiet

\* The executor's standing, a removal that waits, the death of the core.
LEMMA CoreEventStep ==
  ASSUME Inv, CoreEvent
  PROVE  PathInv'
  <1> DEFINE Quiet == /\ \A s \in Sessions : Core!Exists(s) => Core!Exists(s)'
                      /\ \A r \in Requests : Moves(r)
  <1> USE DEF Inv, CoreTyped
  <1>1. ASSUME NEW st \in Core!Standing, Core!ExecutorChanges(st) PROVE Quiet
    BY <1>1 DEF Core!ExecutorChanges, Core!Exists, Moves
  <1>2. ASSUME Core!RemoveOwnerBlocks(Sessions) PROVE Quiet
    BY <1>2 DEF Core!RemoveOwnerBlocks, Core!DeleteWaits, Core!Exists, Moves
  <1>3. ASSUME Core!CoreCrash PROVE Quiet
    BY <1>3 DEF Core!CoreCrash, Core!Exists, Moves
  <1>4. Quiet
    BY <1>1, <1>2, <1>3 DEF CoreEvent
  <1>5. UNCHANGED <<lvars, evars, secret, bound>>
    BY DEF CoreEvent
  <1>6. events' \in 0..MaxEvents
    BY RelayConfig DEF CoreEvent, OutsideEvent, PathInv, TypeOK
  <1> QED
    BY <1>4, <1>5, <1>6, CoreQuiet

\* The core takes the executor's answer or gives up.
LEMMA AnswerStep ==
  ASSUME Inv, NEW r \in Requests, Answer(r)
  PROVE  PathInv'
  <1> USE DEF Inv, CoreTyped
  <1>1. /\ \A s \in Sessions : Core!Exists(s) => Core!Exists(s)'
        /\ \A q \in Requests : Moves(q)
    <2>1. CASE Replied(r) /\ Core!RelayOk(r)
      BY <2>1 DEF Replied, Core!RelayOk, Core!Exists, Moves
    <2>2. ASSUME NEW why \in Core!RelayFault, Core!RelayRaises(r, why)
          PROVE  /\ \A s \in Sessions : Core!Exists(s) => Core!Exists(s)'
                 /\ \A q \in Requests : Moves(q)
      BY <2>2 DEF Core!RelayRaises, Core!Raise, Core!Exists, Moves
    <2> QED
      BY <2>1, <2>2 DEF Answer
  <1>2. UNCHANGED <<lvars, evars, secret, bound>> /\ events' \in 0..MaxEvents
    BY DEF Answer, PathInv, TypeOK
  <1> QED
    BY <1>1, <1>2, CoreQuiet


\* Creating a session, with or without a binding: its row is new, so nobody
\* can be masking with it.
LEMMA CreateStep ==
  ASSUME Inv, NEW s \in Sessions, NEW b \in BOOLEAN, CreateSession(s, b)
  PROVE  PathInv'
  <1> USE DEF Inv, PathInv, CoreTyped, CreateSession, Core!CreateSession, lvars, evars
  <1>1. TypeOK'
    BY DEF TypeOK, Value, NoValue
  <1>2. BindingsAreLive'
    BY DEF BindingsAreLive, Core!Exists, TypeOK
  <1>3. InOrder'
    BY DEF InOrder
  <1>4. NewFollowsOld'
    BY DEF NewFollowsOld, TypeOK, NoValue
  <1>5. ASSUME NEW r \in Requests, Begun(r), Disturbed(r) PROVE Disturbed(r)'
    BY <1>5, DisturbedStays
  <1>6. bound[s] = NoValue
    BY DEF BindingsAreLive, Core!Exists
  <1>7. StillBound'
    BY <1>5, <1>6 DEF StillBound, Core!Holding, TypeOK, Begun
  <1>8. RawIsDisturbed'
    BY <1>5 DEF RawIsDisturbed, Core!Holding, Begun
  <1> QED
    BY <1>1, <1>2, <1>3, <1>4, <1>7, <1>8

\* The claim, taken at once or after a wait, loads what is bound.
LEMMA LoadStep ==
  ASSUME Inv, NEW r \in Requests, NEW s \in Sessions,
         pc[r] \in {"idle", "blocked"},
         pc' = [pc EXCEPT ![r] = "minting"],
         target' = [target EXCEPT ![r] = s],
         payload' = [payload EXCEPT ![r] = bound[s]],
         UNCHANGED <<row, lvars, run, out, dir, secret, bound, events>>
  PROVE  PathInv'
  <1> USE DEF Inv, PathInv, CoreTyped, lvars
  <1>1. TypeOK'
    BY DEF TypeOK
  <1>2. BindingsAreLive'
    BY DEF BindingsAreLive, Core!Exists
  <1>3. InOrder'
    BY DEF InOrder, TypeOK, Core!Holding
  <1>4. NewFollowsOld'
    BY DEF NewFollowsOld, TypeOK
  <1>5. ASSUME NEW q \in Requests, Begun(q), Disturbed(q) PROVE Disturbed(q)'
    BY <1>5, DisturbedStays DEF TypeOK, Begun
  <1>6. StillBound'
    <2> SUFFICES ASSUME NEW q \in Requests, pc'[q] \in Core!Holding, payload'[q] # NoValue,
                        run'[q] \in {"idle", "prepared"}
                 PROVE  bound'[target'[q]] # NoValue \/ Disturbed(q)'
      BY DEF StillBound
    <2>1. CASE q = r
      BY <2>1 DEF TypeOK
    <2>2. CASE q # r
      BY <2>2, <1>5 DEF StillBound, Core!Holding, TypeOK, Begun
    <2> QED
      BY <2>1, <2>2
  <1>7. RawIsDisturbed'
    <2>1. out[r] # "raw"
      BY DEF InOrder
    <2> QED
      BY <2>1, <1>5 DEF RawIsDisturbed, Core!Holding, Begun
  <1> QED
    BY <1>1, <1>2, <1>3, <1>4, <1>6, <1>7

\* Both ways to a claim load the payload.
LEMMA ClaimStep ==
  ASSUME Inv, NEW r \in Requests
  PROVE  /\ \A s \in Sessions : ExecuteClaims(r, s) => PathInv'
         /\ ExecuteResumes(r) => PathInv'
  <1>1. ASSUME NEW s \in Sessions, ExecuteClaims(r, s) PROVE PathInv'
    BY <1>1, LoadStep DEF ExecuteClaims, Core!ExecuteClaims
  <1>2. ASSUME ExecuteResumes(r) PROVE PathInv'
    <2>1. pc[r] = "blocked" /\ target[r] \in Sessions
      BY <1>2 DEF ExecuteResumes, Core!ExecuteResumes, Inv, CoreTyped
    <2>2. target' = [target EXCEPT ![r] = target[r]]
      BY <1>2 DEF ExecuteResumes, Core!ExecuteResumes, Inv, CoreTyped
    <2>3. pc' = [pc EXCEPT ![r] = "minting"]
      BY <1>2 DEF ExecuteResumes, Core!ExecuteResumes
    <2> QED
      BY <1>2, <2>1, <2>2, <2>3, LoadStep DEF ExecuteResumes, Core!ExecuteResumes
  <1> QED
    BY <1>1, <1>2

\* Without the secret nothing is bound, and whoever carries a value of it is
\* excused from then on.
LEMMA SecretGone ==
  ASSUME Inv, secret' = "gone", bound' = [s \in Sessions |-> NoValue],
         UNCHANGED <<pc, target, job, payload, run, out, dir>>,
         events' \in 0..MaxEvents
  PROVE  PathInv'
  <1> USE DEF Inv, PathInv
  <1>1. TypeOK' /\ BindingsAreLive' /\ InOrder' /\ NewFollowsOld'
    BY DEF TypeOK, Value, NoValue, BindingsAreLive, InOrder, NewFollowsOld
  <1>2. ASSUME NEW r \in Requests PROVE Disturbed(r)'
    <2>1. secret' # payload'[r]
      BY DEF TypeOK, Value, NoValue
    <2> QED
      BY <2>1 DEF Disturbed
  <1>3. StillBound' /\ RawIsDisturbed'
    BY <1>2 DEF StillBound, RawIsDisturbed
  <1> QED
    BY <1>1, <1>3

\* The secret is replaced, deleted, or removed with its owner.
LEMMA SecretStep ==
  ASSUME Inv, PutSecret \/ DeleteSecret \/ RemoveOwner
  PROVE  PathInv'
  <1> USE DEF Inv, PathInv, CoreTyped, cvars, lvars, evars
  <1>0. events' \in 0..MaxEvents
    BY RelayConfig DEF PutSecret, DeleteSecret, RemoveOwner, OutsideEvent, TypeOK
  <1>1. CASE PutSecret
    <2> USE <1>1 DEF PutSecret
    <2>1. TypeOK' /\ BindingsAreLive' /\ InOrder' /\ NewFollowsOld'
      BY <1>0 DEF TypeOK, Value, BindingsAreLive, Core!Exists, InOrder, NewFollowsOld
    <2>2. ASSUME NEW r \in Requests, Begun(r), Disturbed(r) PROVE Disturbed(r)'
      BY <2>2, DisturbedStays
    <2>3. StillBound' /\ RawIsDisturbed'
      BY <2>2 DEF StillBound, RawIsDisturbed, Core!Holding, Begun
    <2> QED
      BY <2>1, <2>3
  <1>2. CASE DeleteSecret \/ RemoveOwner
    BY <1>0, <1>2, SecretGone DEF DeleteSecret, RemoveOwner, Core!RemoveOwner
  <1> QED
    BY <1>1, <1>2

\* The sweep takes the bindings of dead rows; the row of a request in flight
\* is claimed and so is not among them.
LEMMA SweepStep ==
  ASSUME Inv, NEW gone \in SUBSET Sessions,
         \A s \in gone : claim[s] = None,
         row' = [s \in Sessions |-> IF s \in gone THEN "deleted" ELSE row[s]],
         bound' = [s \in Sessions |-> IF s \in gone THEN NoValue ELSE bound[s]],
         UNCHANGED <<claim, target, pc, lvars, evars, secret, events>>
  PROVE  PathInv'
  <1> USE DEF Inv, PathInv, CoreTyped, lvars, evars
  <1>1. TypeOK' /\ InOrder' /\ NewFollowsOld'
    BY DEF TypeOK, NoValue, InOrder, NewFollowsOld
  <1>2. BindingsAreLive'
    BY DEF BindingsAreLive, Core!Exists, Core!RowState
  <1>3. ASSUME NEW r \in Requests, Begun(r), Disturbed(r) PROVE Disturbed(r)'
    BY <1>3, DisturbedStays
  <1>4. StillBound'
    <2> SUFFICES ASSUME NEW r \in Requests, pc[r] \in Core!Holding, payload[r] # NoValue,
                        run[r] \in {"idle", "prepared"}, bound[target[r]] # NoValue
                 PROVE  bound'[target[r]] # NoValue
      BY <1>3 DEF StillBound, Core!Holding, Begun
    <2>1. target[r] \in Sessions /\ claim[target[r]] # None
      BY TasksDistinct DEF HolderOwnsClaim, Core!Locking
    <2> QED
      BY <2>1
  <1>5. RawIsDisturbed'
    BY <1>3 DEF RawIsDisturbed, Core!Holding, Begun
  <1> QED
    BY <1>1, <1>2, <1>4, <1>5

\* Both deletions, at once or after a wait.
LEMMA DeletionStep ==
  ASSUME Inv, Sweep \/ DeleteResumes
  PROVE  PathInv'
  <1>1. CASE Sweep
    <2> DEFINE gone == {s \in Sessions : Core!Dead(s)}
    <2>1. /\ row' = [s \in Sessions |-> IF s \in gone THEN "deleted" ELSE row[s]]
          /\ bound' = [s \in Sessions |-> IF s \in gone THEN NoValue ELSE bound[s]]
      BY <1>1 DEF Sweep, Core!Sweep
    <2> QED
      BY <1>1, <2>1, SweepStep DEF Sweep, Core!Sweep
  <1>2. CASE DeleteResumes /\ loop # Removal
    <2> DEFINE gone == doomed \cap Sessions
    <2>1. /\ row' = [s \in Sessions |-> IF s \in gone THEN "deleted" ELSE row[s]]
          /\ bound' = [s \in Sessions |-> IF s \in gone THEN NoValue ELSE bound[s]]
      BY <1>2 DEF DeleteResumes, Core!DeleteResumes
    <2> QED
      BY <1>2, <2>1, SweepStep DEF DeleteResumes, Core!DeleteResumes
  <1>3. CASE DeleteResumes /\ loop = Removal
    <2>1. /\ secret' = "gone" /\ bound' = [s \in Sessions |-> NoValue]
          /\ UNCHANGED <<pc, target, lvars, evars, events>>
      BY <1>3 DEF DeleteResumes, Core!DeleteResumes
    <2> QED
      BY <2>1, SecretGone DEF Inv, PathInv, TypeOK, lvars, evars
  <1> QED
    BY <1>1, <1>2, <1>3

\* Steps of the listener move connections only, and forward.
LEMMA ListenerStep ==
  ASSUME Inv, ListenerAlone \/ ListenerEvent
  PROVE  PathInv'
  <1> USE DEF Inv, PathInv, CoreTyped, cvars, evars
  <1>0. job \in [Requests -> JobState]
    BY DEF SlotInv, SlotsTypeOK
  <1>1. UNCHANGED <<cvars, evars, secret, bound>>
    BY DEF ListenerAlone, ListenerEvent
  <1>2. events' \in 0..MaxEvents
    BY RelayConfig DEF ListenerAlone, ListenerEvent, OutsideEvent, TypeOK
  <1>3. TypeOK' /\ BindingsAreLive' /\ NewFollowsOld'
    BY <1>1, <1>2 DEF TypeOK, BindingsAreLive, Core!Exists, NewFollowsOld
  <1>4. ASSUME NEW q \in Requests
        PROVE  /\ job[q] = "none" /\ job'[q] # "none" => pc[q] = "relaying"
               /\ job[q] # "none" => job'[q] # "none"
               /\ job[q] \in {"replying", "closed", "lost"} =>
                    job'[q] \in {"replying", "closed", "lost"}
               /\ job[q] \in {"running", "lost"} => job'[q] \in {job[q], "lost"}
    <2> USE <1>0, <1>4 DEF JobState
    <2> DEFINE Forward == /\ job[q] = "none" /\ job'[q] # "none" => pc[q] = "relaying"
                          /\ job[q] # "none" => job'[q] # "none"
                          /\ job[q] \in {"replying", "closed", "lost"} =>
                               job'[q] \in {"replying", "closed", "lost"}
                          /\ job[q] \in {"running", "lost"} => job'[q] \in {job[q], "lost"}
    <2>1. ASSUME NEW r \in Requests, NEW v \in Verdicts, pc[r] = "relaying", Accept(r, v)
          PROVE  Forward
      BY <2>1 DEF Accept, Goto
    <2>2. ASSUME NEW r \in Requests, NEW c \in Codes, Screen(r, c) PROVE Forward
      BY <2>2 DEF Screen, Goto
    <2>3. ASSUME NEW r \in Requests, Acquire(r) \/ Admit(r) \/ Release(r)
          PROVE  Forward
      BY <2>3 DEF Acquire, Admit, Release, Goto
    <2>4. ASSUME \/ AcceptLoopEnds \/ StopTakes \/ StopIdle \/ StopOverflow
                 \/ BeginStop
          PROVE  Forward
      BY <2>4 DEF AcceptLoopEnds, StopTakes, StopIdle, StopOverflow, BeginStop
    <2>5. ASSUME Restart PROVE Forward
      BY <2>5 DEF Restart, Live
    <2> QED
      BY <2>1, <2>2, <2>3, <2>4, <2>5 DEF ListenerAlone, ListenerEvent
  <1>5. InOrder'
    BY <1>1, <1>4 DEF InOrder, Core!Holding
  <1>6. ASSUME NEW r \in Requests, Begun(r), Disturbed(r) PROVE Disturbed(r)'
    BY <1>1, <1>6, DisturbedStays
  <1>7. StillBound' /\ RawIsDisturbed'
    BY <1>1, <1>6 DEF StillBound, RawIsDisturbed, Core!Holding, Begun
  <1> QED
    BY <1>3, <1>5, <1>7

\* A revocation of q that arrives excuses the other attempts of its session,
\* and q itself is past the point where it needs the binding, or excused.
LEMMA RevokeStep ==
  ASSUME Inv, NEW q \in Requests, NEW arrives \in BOOLEAN, Revoke(q, arrives),
         run[q] # "idle", run'[q] # "idle",
         \/ pc[q] \notin Core!Holding
         \/ run'[q] \notin {"idle", "prepared"}
         \/ ~TtlCoversWait /\ dir'[q] = "reaped",
         \A r \in Requests : dir[r] = "reaped" => dir'[r] = "reaped",
         run' = [run EXCEPT ![q] = run'[q]],
         UNCHANGED <<cvars, lvars, payload, out, secret, events>>
  PROVE  /\ BindingsAreLive' /\ NewFollowsOld' /\ StillBound' /\ RawIsDisturbed'
         /\ bound' \in [Sessions -> Value \cup {NoValue}]
  <1> USE DEF Inv, PathInv, CoreTyped, TypeOK, cvars
  <1>1. bound' \in [Sessions -> Value \cup {NoValue}]
    BY DEF Revoke
  <1>2. ASSUME NEW s \in Sessions
        PROVE  \/ bound'[s] = bound[s]
               \/ bound'[s] = NoValue /\ target[q] = s /\ payload[q] # NoValue
    BY DEF Revoke
  <1>3. BindingsAreLive' /\ NewFollowsOld'
    BY <1>2 DEF BindingsAreLive, NewFollowsOld, Core!Exists, NoValue
  <1>4. ASSUME NEW r \in Requests, Begun(r), Disturbed(r) PROVE Disturbed(r)'
    BY <1>4, DisturbedStays
  <1>5. StillBound'
    <2> SUFFICES ASSUME NEW r \in Requests, pc[r] \in Core!Holding, payload[r] # NoValue,
                        run'[r] \in {"idle", "prepared"}, ~Disturbed(r)'
                 PROVE  bound'[target[r]] # NoValue
      BY DEF StillBound
    <2>1. r # q /\ run[r] = run'[r]
      BY DEF Disturbed
    <2>2. bound[target[r]] # NoValue
      BY <2>1, <1>4 DEF StillBound, Core!Holding, Begun
    <2>3. target[r] \in Sessions
      BY DEF HolderOwnsClaim, Core!Locking
    <2>4. ~(target[q] = target[r] /\ payload[q] # NoValue)
      BY <2>1 DEF Disturbed
    <2> QED
      BY <1>2, <2>2, <2>3, <2>4
  <1>6. RawIsDisturbed'
    BY <1>4 DEF RawIsDisturbed, Core!Holding, Begun
  <1> QED
    BY <1>1, <1>3, <1>5, <1>6

\* The filter: a result that is raw although the secret is the one injected
\* lost its binding to another attempt.
LEMMA FilterStep ==
  ASSUME Inv, NEW r \in Requests, NEW prints \in BOOLEAN, NEW reached \in BOOLEAN,
         Filter(r, prints, reached)
  PROVE  PathInv'
  <1> USE DEF Inv, PathInv, CoreTyped, Filter, cvars, lvars
  <1>1. TypeOK'
    BY DEF TypeOK, Run, Out
  <1>2. BindingsAreLive' /\ NewFollowsOld' /\ InOrder'
    BY DEF BindingsAreLive, NewFollowsOld, InOrder, Core!Exists, TypeOK, Core!Holding
  <1>3. ASSUME NEW q \in Requests, Begun(q), Disturbed(q) PROVE Disturbed(q)'
    BY <1>3, DisturbedStays DEF TypeOK, Begun
  <1>4. StillBound'
    BY <1>3 DEF StillBound, Core!Holding, TypeOK, Begun
  <1>5. RawIsDisturbed'
    <2> SUFFICES ASSUME NEW q \in Requests, pc[q] \in Core!Holding \cup {"ok"}, out'[q] = "raw"
                 PROVE  Disturbed(q)
      BY <1>3 DEF RawIsDisturbed, Core!Holding, Begun
    <2>1. CASE q # r
      BY <2>1 DEF RawIsDisturbed, TypeOK
    <2>2. CASE q = r
      <3>1. payload[r] # NoValue /\ ~Stage2Masks(r)
        BY <2>2 DEF TypeOK
      <3>2. pc[r] \in Core!Holding
        BY <2>2 DEF InOrder
      <3>3. CASE secret # payload[r]
        BY <2>2, <3>3 DEF Disturbed
      <3>4. CASE bound[target[r]] = NoValue
        BY <2>2, <3>1, <3>2, <3>4 DEF StillBound
      <3> QED
        BY <3>1, <3>3, <3>4 DEF Stage2Masks
    <2> QED
      BY <2>1, <2>2
  <1> QED
    BY <1>1, <1>2, <1>4, <1>5

\* The other steps of the engine.
LEMMA EngineStep ==
  ASSUME Inv, NEW r \in Requests, Engine(r)
  PROVE  PathInv'
  <1> USE DEF Inv, PathInv, CoreTyped, cvars, lvars, evars
  <1>0. job \in [Requests -> JobState]
    BY DEF SlotInv, SlotsTypeOK
  <1>1. ASSUME \/ \E c \in {"rejected", "failed"} : Reject(r, c)
               \/ Prepare(r) \/ RunFails(r) \/ EngineReturns(r)
        PROVE  PathInv'
    <2>1. /\ UNCHANGED <<cvars, payload, out, secret, bound, events>>
          /\ \E st \in Run \ {"idle"} : run' = [run EXCEPT ![r] = st]
          /\ \/ UNCHANGED job /\ job[r] = "running"
             \/ /\ job[r] = "running" /\ job' = [job EXCEPT ![r] = "replying"]
                /\ run' = [run EXCEPT ![r] = "torn"]
          /\ UNCHANGED dir \/ dir' = [dir EXCEPT ![r] = "fresh"]
      <3>1. ASSUME NEW c \in {"rejected", "failed"}, Reject(r, c)
            PROVE  /\ UNCHANGED <<cvars, payload, out, dir, secret, bound, events>>
                   /\ run' = [run EXCEPT ![r] = "torn"]
                   /\ job[r] = "running" /\ job' = [job EXCEPT ![r] = "replying"]
        BY <3>1 DEF Reject, EngineEnds, Goto
      <3>2. CASE EngineReturns(r)
        <4>1. run' = [run EXCEPT ![r] = "torn"]
          BY <3>2 DEF EngineReturns, TypeOK
        <4> QED
          BY <3>2, <4>1 DEF EngineReturns, EngineEnds, Goto, Run
      <3>3. CASE Prepare(r) \/ RunFails(r)
        BY <3>3 DEF Prepare, RunFails, Run
      <3> QED
        BY <1>1, <3>1, <3>2, <3>3 DEF Run
    <2>2. TypeOK'
      BY <2>1 DEF TypeOK, Run, Dir
    <2>3. BindingsAreLive' /\ NewFollowsOld'
      BY <2>1 DEF BindingsAreLive, NewFollowsOld, Core!Exists
    <2>4. InOrder'
      <3>1. \A q \in Requests \ {r} : UNCHANGED <<job[q], run[q], dir[q], pc[q], out[q], payload[q]>>
        BY <2>1, <1>0 DEF TypeOK
      <3>2. /\ job[r] = "running" /\ job'[r] \in {"running", "replying"} /\ run'[r] # "idle"
            /\ dir'[r] \in {dir[r], "fresh"} /\ UNCHANGED <<pc[r], payload[r]>>
            /\ job'[r] = "replying" => run'[r] = "torn"
        BY <2>1, <1>0 DEF TypeOK
      <3>3. pc[r] \notin {"idle", "minting", "ok"}
        BY <3>2 DEF InOrder
      <3> QED
        BY <3>1, <3>2, <3>3 DEF InOrder, Core!Holding
    <2>5. ASSUME NEW q \in Requests, Begun(q), Disturbed(q) PROVE Disturbed(q)'
      <3>1. dir' # dir => dir[r] = "none"
        BY <1>1 DEF InOrder, Reject, Prepare, RunFails, EngineReturns
      <3>2. \A k \in Requests : dir[k] = "reaped" => dir'[k] = "reaped"
        BY <2>1, <3>1 DEF TypeOK
      <3>3. \A k \in Requests : run[k] # "idle" => run'[k] # "idle"
        BY <2>1 DEF TypeOK
      <3> QED
        BY <2>1, <2>5, <3>2, <3>3, DisturbedStays
    <2>6. ASSUME NEW q \in Requests, run'[q] \in {"idle", "prepared"}
          PROVE  run[q] \in {"idle", "prepared"}
      BY <1>1, <2>6 DEF TypeOK, Reject, Prepare, RunFails, EngineReturns
    <2>7. StillBound' /\ RawIsDisturbed'
      BY <2>1, <2>5, <2>6 DEF StillBound, RawIsDisturbed, Core!Holding, Begun
    <2> QED
      BY <2>2, <2>3, <2>4, <2>7
  <1>2. ASSUME NEW removed \in BOOLEAN, NEW arrives \in BOOLEAN, Teardown(r, removed, arrives)
        PROVE  PathInv'
    <2> USE <1>2 DEF Teardown
    <2>1. /\ BindingsAreLive' /\ NewFollowsOld' /\ StillBound' /\ RawIsDisturbed'
          /\ bound' \in [Sessions -> Value \cup {NoValue}]
      BY RevokeStep DEF TypeOK
    <2>2. TypeOK'
      BY <2>1 DEF TypeOK, Run, Dir
    <2>3. InOrder'
      BY DEF InOrder, TypeOK
    <2> QED
      BY <2>1, <2>2, <2>3
  <1> QED
    BY <1>1, <1>2, FilterStep DEF Engine

\* The reaper, which looks at age and at nothing else.
LEMMA ReaperStep ==
  ASSUME Inv, NEW r \in Requests, Reaper(r)
  PROVE  PathInv'
  <1> USE DEF Inv, PathInv, CoreTyped, cvars, lvars
  <1>1. CASE Age(r)
    <2> USE <1>1 DEF Age
    <2>1. TypeOK' /\ BindingsAreLive' /\ NewFollowsOld' /\ InOrder'
      BY DEF TypeOK, Dir, BindingsAreLive, NewFollowsOld, InOrder, Core!Exists
    <2>2. ASSUME NEW q \in Requests, Begun(q), Disturbed(q) PROVE Disturbed(q)'
      BY <2>2, DisturbedStays DEF TypeOK
    <2>3. StillBound' /\ RawIsDisturbed'
      BY <2>2 DEF StillBound, RawIsDisturbed, Core!Holding, Begun
    <2> QED
      BY <2>1, <2>3
  <1>2. ASSUME NEW arrives \in BOOLEAN, Reap(r, arrives) PROVE PathInv'
    <2> USE <1>2 DEF Reap
    <2>1. run[r] # "idle" /\ pc[r] \notin {"idle", "blocked", "minting"}
      BY RunsWereRelayed DEF InOrder
    <2>2. run' = [run EXCEPT ![r] = run'[r]]
      BY DEF TypeOK
    <2>3. /\ dir'[r] = IF run[r] = "prepared" THEN "reaped" ELSE "none"
          /\ \A q \in Requests \ {r} : dir'[q] = dir[q]
      BY DEF TypeOK
    <2>4. TtlCoversWait => pc[r] \notin Core!Holding
      BY <2>1 DEF InOrder, Core!Holding
    <2>5. \A q \in Requests : dir[q] = "reaped" => dir'[q] = "reaped"
      BY <2>3
    <2>6. /\ BindingsAreLive' /\ NewFollowsOld' /\ StillBound' /\ RawIsDisturbed'
          /\ bound' \in [Sessions -> Value \cup {NoValue}]
      BY <2>1, <2>2, <2>3, <2>4, <2>5, RevokeStep, RelayConfig
    <2>7. TypeOK'
      BY <2>6 DEF TypeOK, Dir
    <2>8. InOrder'
      BY <2>1, <2>3, <2>4 DEF InOrder
    <2> QED
      BY <2>6, <2>7, <2>8
  <1> QED
    BY <1>1, <1>2 DEF Reaper

\* Inv is inductive: the parts keep what is theirs, and every action keeps
\* the path.
LEMMA Invariance == Spec => []Inv
  <1>1. Inv /\ [Next]_vars => Inv'
    <2> SUFFICES ASSUME Inv, [Next]_vars PROVE Inv'
      OBVIOUS
    <2>1. CoreTyped' /\ HolderOwnsClaim'
      BY CoreProjection, CoreStep DEF Inv
    <2>2. SlotInv'
      BY ListenerProjection, SlotStep DEF Inv
    <2>3. CASE UNCHANGED vars
      <3>1. \A q \in Requests : Disturbed(q) => Disturbed(q)'
        BY <2>3 DEF vars, cvars, evars, Disturbed
      <3> QED
        BY <2>1, <2>2, <2>3, <3>1 DEF vars, cvars, lvars, evars, Inv, PathInv, TypeOK, BindingsAreLive,
           Core!Exists, InOrder, NewFollowsOld, StillBound, RawIsDisturbed
    <2>4. CASE Next
      BY <2>4, <2>1, <2>2, CreateStep, ClaimStep, AnswerStep, EngineStep, ReaperStep, SecretStep,
         DeletionStep, CoreAloneStep, CoreEventStep, ListenerStep DEF Next, Inv
    <2> QED
      BY <2>3, <2>4
  <1> QED
    BY <1>1, InvInit, PTL DEF Spec

-----------------------------------------------------------------------------

\* The variables of the path keep their types and outside events their bound.
THEOREM TypeCorrect == Spec => []TypeOK
  BY Invariance, PTL DEF Inv, PathInv

\* A binding never outlives its session's row or its secret, for any number of
\* sessions, submissions and outside events.
THEOREM BindingsStayLive == Spec => []BindingsAreLive
  BY Invariance, PTL DEF Inv, PathInv

\* The first attempt over an unchanged secret never delivers it, whatever
\* calls of the executor fail, for any number of retries.
THEOREM FirstAttemptsAreMasked == Spec => []UndisturbedIsMasked
  <1>1. Inv => UndisturbedIsMasked
    BY DEF Inv, PathInv, RawIsDisturbed, UndisturbedIsMasked, Disturbed
  <1> QED
    BY <1>1, Invariance, PTL

=============================================================================
