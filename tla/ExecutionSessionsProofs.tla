---------------------- MODULE ExecutionSessionsProofs ----------------------
(***************************************************************************)
(* Theorems about ExecutionSessions for every set of sessions and every    *)
(* set of submissions.  None of the safety invariants is inductive alone:  *)
(* OneResult needs to know that a claimed row is still open, that an       *)
(* executed request has left the loop for good, and that a claim and the   *)
(* request holding it name each other until the rollback is done.  IInv is *)
(* the conjunction of those facts.                                         *)
(***************************************************************************)
EXTENDS ExecutionSessions, TLAPS

\* A request between its claim and the end of its transaction holds the claim
\* it took.
HolderOwnsClaim ==
    \A r \in Requests :
        pc[r] \in Locking => target[r] \in Sessions /\ claim[target[r]] = r

\* A claim is held by an open transaction on that very session, whose row
\* is there and unmarked.
ClaimIsHeld ==
    \A s \in Sessions :
        claim[s] # None => /\ claim[s] \in Requests
                           /\ pc[claim[s]] \in Locking
                           /\ target[claim[s]] = s
                           /\ row[s] = "open"

\* The trail's row of a result, and that of a timeout, for request r.
ResultRow(r)  == Entry(<<"command_executed", "exit_code">>, r)
TimeoutRow(r) == Entry(<<"command_executed", "relay_timeout">>, r)

\* Exactly the requests answered 200 have a command_executed row with an exit
\* code, and their session is marked or already reaped.
ExecutedIsAnswered ==
    \A r \in Requests :
        /\ ResultRow(r) \in trail <=> pc[r] = "ok"
        /\ pc[r] = "ok" => /\ target[r] \in Sessions
                           /\ row[target[r]] \in {"done", "deleted"}

\* A request with a timeout row has raised, and will not be answered 200.
TimeoutHasRaised ==
    \A r \in Requests :
        TimeoutRow(r) \in trail => pc[r] \in {"raised", "unwinding", "failed", "crashed"}

\* A session's marker has one request behind it.
ResultIsUnique ==
    \A q, r \in Requests :
        pc[q] = "ok" /\ pc[r] = "ok" /\ target[q] = target[r] => q = r

MarkerHasResult ==
    \A s \in Sessions :
        row[s] = "done" => \E r \in Requests : pc[r] = "ok" /\ target[r] = s

\* Who is stopped inside a statement names rows that exist.
StoppedOnRows ==
    /\ \A r \in Requests :
         pc[r] = "blocked" => target[r] \in Sessions /\ row[target[r]] = "open"
    /\ \A s \in doomed : Exists(s)

IInv == /\ TypeOK
        /\ HolderOwnsClaim
        /\ ClaimIsHeld
        /\ ExecutedIsAnswered
        /\ TimeoutHasRaised
        /\ ResultIsUnique
        /\ MarkerHasResult
        /\ StoppedOnRows

-----------------------------------------------------------------------------
(* Type correctness. *)

\* A written row is a row of the trail's type.
LEMMA EntryType ==
    ASSUME NEW event \in Events, NEW r \in Requests
    PROVE  Entry(event, r) \in {Entry(e, q) : e \in Events, q \in Requests}
  OBVIOUS

\* What a failed relay may write.
LEMMA RecordedType == ASSUME NEW why PROVE Recorded(why) \subseteq Events
  BY DEF Recorded, Events

\* Every action keeps every variable in its set.
LEMMA TypeStep == TypeOK /\ [Next]_vars => TypeOK'
<1> SUFFICES ASSUME TypeOK, [Next]_vars PROVE TypeOK'
  OBVIOUS
<1> DEFINE Rows == {Entry(e, q) : e \in Events, q \in Requests}
<1>t. ASSUME trail' = trail \/ \E e \in Events, q \in Requests : trail' = trail \cup {Entry(e, q)}
      PROVE  trail' \subseteq Rows
  BY <1>t, EntryType DEF TypeOK
<1> HIDE DEF Rows
<1> USE TasksDistinct DEF RowState, Holding, Locking, InFlight, Answered, Standing
<1>s. ASSUME trail' \subseteq Rows,
             row' \in [Sessions -> RowState] /\ lapsed' \in [Sessions -> BOOLEAN],
             claim' \in [Sessions -> Requests \cup {None}],
             loop' \in Requests \cup {None, Maint, Removal} /\ doomed' \subseteq Sessions,
             target' \in [Requests -> Sessions \cup {None}],
             pc' \in [Requests -> {"idle"} \cup InFlight \cup Answered],
             standing' \in Standing,
             \A r \in Requests : pc'[r] = "blocked" <=> loop' = r,
             doomed' # {} <=> loop' \in {Maint, Removal}
      PROVE  TypeOK'
  BY <1>s DEF TypeOK, Rows
<1>0. trail \subseteq Rows
  BY DEF TypeOK, Rows
<1>1. ASSUME NEW s \in Sessions, CreateSession(s) PROVE TypeOK'
  BY <1>0, <1>1, <1>s DEF CreateSession, TypeOK
<1>2. ASSUME NEW s \in Sessions, Lapse(s) PROVE TypeOK'
  BY <1>0, <1>2, <1>s DEF Lapse, TypeOK
<1>3. ASSUME NEW st \in Standing, ExecutorChanges(st) PROVE TypeOK'
  BY <1>0, <1>3, <1>s DEF ExecutorChanges, TypeOK
<1>4. ASSUME NEW r \in Requests, NEW s \in Sessions, Execute(r, s) PROVE TypeOK'
  <2>1. ASSUME NEW mine \in BOOLEAN, ExecuteRefused(r, s, mine) PROVE TypeOK'
    <3>1. trail' \subseteq Rows
      BY <1>t, <2>1 DEF ExecuteRefused, Events
    <3> QED
      BY <2>1, <3>1, <1>s DEF ExecuteRefused, TypeOK
  <2>2. CASE ExecuteClaims(r, s)
    BY <1>0, <2>2, <1>s DEF ExecuteClaims, TypeOK
  <2>3. CASE ExecuteUnprocessable(r, s)
    BY <1>0, <2>3, <1>s DEF ExecuteUnprocessable, TypeOK
  <2>4. CASE ExecuteReplay(r, s)
    <3>1. trail' \subseteq Rows
      BY <1>t, <2>4 DEF ExecuteReplay, Events
    <3> QED
      BY <2>4, <3>1, <1>s DEF ExecuteReplay, TypeOK
  <2>5. CASE ExecuteBlocks(r, s)
    BY <1>0, <2>5, <1>s DEF ExecuteBlocks, TypeOK
  <2> QED
    BY <1>4, <2>1, <2>2, <2>3, <2>4, <2>5 DEF Execute
<1>5. ASSUME NEW r \in Requests, MintDone(r) PROVE TypeOK'
  BY <1>0, <1>5, <1>s DEF MintDone, TypeOK
<1>6. ASSUME NEW r \in Requests, MintFails(r) PROVE TypeOK'
  BY <1>0, <1>6, <1>s DEF MintFails, Raise, TypeOK
<1>7. ASSUME NEW r \in Requests, RelayOk(r) PROVE TypeOK'
  <2>1. trail' \subseteq Rows
    BY <1>t, <1>7 DEF RelayOk, Events
  <2>2. row' \in [Sessions -> RowState] /\ claim' \in [Sessions -> Requests \cup {None}]
    <3>1. row \in [Sessions -> RowState] /\ claim \in [Sessions -> Requests \cup {None}]
      BY DEF TypeOK
    <3>2. row' = [row EXCEPT ![target[r]] = "done"] /\ claim' = [claim EXCEPT ![target[r]] = None]
      BY <1>7 DEF RelayOk
    <3> QED
      BY <3>1, <3>2
  <2>4. pc' \in [Requests -> {"idle"} \cup InFlight \cup Answered]
    BY <1>7 DEF RelayOk, TypeOK
  <2>3. \A q \in Requests : pc'[q] = "blocked" <=> loop' = q
    BY <1>7 DEF RelayOk, TypeOK
  <2> QED
    BY <1>7, <2>1, <2>2, <2>3, <2>4, <1>s DEF RelayOk, TypeOK
<1>8. ASSUME NEW r \in Requests, NEW why \in RelayFault, RelayRaises(r, why) PROVE TypeOK'
  <2>1. trail' \subseteq Rows
    <3>1. PICK written \in SUBSET Recorded(why) :
             trail' = trail \cup {Entry(event, r) : event \in written}
      BY <1>8 DEF RelayRaises
    <3> QED
      BY <1>0, <3>1, EntryType, RecordedType DEF Rows
  <2> QED
    BY <1>8, <2>1, <1>s DEF RelayRaises, Raise, TypeOK
<1>9. CASE StatementTimeout
  BY <1>0, <1>9, <1>s DEF StatementTimeout, TypeOK
<1>10. CASE Sweep
  BY <1>0, <1>10, <1>s DEF Sweep, TypeOK
<1>11. ASSUME NEW task \in {Maint, Removal}, NEW wanted \in SUBSET Sessions,
              DeleteWaits(task, wanted)
       PROVE  TypeOK'
  BY <1>0, <1>11, <1>s DEF DeleteWaits, TypeOK
<1>12. CASE DeleteResumes
  BY <1>0, <1>12, <1>s DEF DeleteResumes, TypeOK
<1>13. ASSUME NEW owned \in SUBSET Sessions, RemoveOwner(owned) PROVE TypeOK'
  BY <1>0, <1>13, <1>s DEF RemoveOwner, TypeOK
<1>14. ASSUME NEW r \in Requests, NEW fit \in BOOLEAN, ExecuteResumes(r, fit) PROVE TypeOK'
  <2>1. claim' \in [Sessions -> Requests \cup {None}]
    <3>1. claim \in [Sessions -> Requests \cup {None}]
      BY DEF TypeOK
    <3>2. claim' = [claim EXCEPT ![target[r]] = r]
      BY <1>14 DEF ExecuteResumes
    <3> QED
      BY <3>1, <3>2
  <2>0. pc' \in [Requests -> {"idle"} \cup InFlight \cup Answered]
    BY <1>14 DEF ExecuteResumes, TypeOK
  <2>2. \A q \in Requests : pc'[q] = "blocked" <=> loop' = q
    BY <1>14 DEF ExecuteResumes, TypeOK
  <2>3. doomed = {} /\ doomed' = {}
    BY <1>14 DEF ExecuteResumes, TypeOK
  <2> QED
    BY <1>0, <1>14, <2>0, <2>1, <2>2, <2>3, <1>s DEF ExecuteResumes, TypeOK
<1>15. ASSUME NEW r \in Requests, RollbackStarts(r) PROVE TypeOK'
  BY <1>0, <1>15, <1>s DEF RollbackStarts, TypeOK
<1>16. ASSUME NEW r \in Requests, RolledBack(r) PROVE TypeOK'
  <2>1. claim' \in [Sessions -> Requests \cup {None}]
    <3>1. claim \in [Sessions -> Requests \cup {None}]
      BY DEF TypeOK
    <3>2. claim' = [claim EXCEPT ![target[r]] = None]
      BY <1>16 DEF RolledBack
    <3> QED
      BY <3>1, <3>2
  <2>0. pc' \in [Requests -> {"idle"} \cup InFlight \cup Answered]
    BY <1>16 DEF RolledBack, TypeOK
  <2>2. \A q \in Requests : pc'[q] = "blocked" <=> loop' = q
    BY <1>16 DEF RolledBack, TypeOK
  <2> QED
    BY <1>0, <1>16, <2>0, <2>1, <2>2, <1>s DEF RolledBack, TypeOK
<1>17. CASE CoreCrash
  BY <1>0, <1>17, <1>s DEF CoreCrash, TypeOK
<1>18. CASE UNCHANGED vars
  BY <1>0, <1>18, <1>s DEF vars, TypeOK
<1>19. CASE SweepBlocks
  BY <1>11, <1>19 DEF SweepBlocks
<1>20. ASSUME NEW owned \in SUBSET Sessions, RemoveOwnerBlocks(owned) PROVE TypeOK'
  BY <1>11, <1>20 DEF RemoveOwnerBlocks
<1> QED
  BY <1>1, <1>2, <1>3, <1>4, <1>5, <1>6, <1>7, <1>8, <1>9, <1>10, <1>12, <1>13, <1>14, <1>15,
     <1>16, <1>17, <1>18, <1>19, <1>20 DEF Next

\* THEOREM 1.  Every variable stays in its type, in every behaviour.
THEOREM TypeCorrect == Spec => []TypeOK
<1>1. Init => TypeOK
  BY TasksDistinct DEF Init, TypeOK, RowState, InFlight, Locking, Holding, Answered, Standing
<1> QED
  BY <1>1, TypeStep, PTL DEF Spec

-----------------------------------------------------------------------------
(* The inductive invariant. *)

\* Rows of different events, or of different requests, are different rows.
LEMMA RowsDiffer ==
    ASSUME NEW q, NEW r, NEW a, NEW b, NEW c, NEW d,
           <<a, b>> # <<c, d>> \/ q # r
    PROVE  Entry(<<a, b>>, q) # Entry(<<c, d>>, r)
  BY DEF Entry

\* The trail keeps its result rows and timeout rows.
TrailKept ==
    \A q \in Requests : /\ ResultRow(q) \in trail' <=> ResultRow(q) \in trail
                        /\ TimeoutRow(q) \in trail' <=> TimeoutRow(q) \in trail

\* A refusal's row is neither a result's nor a timeout's.
LEMMA RefusalKeeps ==
    ASSUME NEW r \in Requests, NEW type \in {"relay_refused", "execution_session_replay_refused"},
           trail' = trail \cup {Entry(<<type, "refused">>, r)}
    PROVE  TrailKept
<1> SUFFICES ASSUME NEW q \in Requests
             PROVE  /\ ResultRow(q) # Entry(<<type, "refused">>, r)
                    /\ TimeoutRow(q) # Entry(<<type, "refused">>, r)
  BY DEF TrailKept
<1> QED
  BY RowsDiffer DEF ResultRow, TimeoutRow

\* A request that is refused before its claim touches only its own entry.
LEMMA BystanderStep ==
    ASSUME IInv, TypeOK', NEW r \in Requests, NEW s \in Sessions,
           pc[r] = "idle",
           target' = [target EXCEPT ![r] = s],
           NEW code \in {"refused", "replay"},
           pc' = [pc EXCEPT ![r] = code],
           TrailKept,
           UNCHANGED <<row, claim, loop, doomed>>
    PROVE  IInv'
<1> USE DEF IInv, Holding, Locking
<1>1. HolderOwnsClaim' /\ ClaimIsHeld'
  BY TasksDistinct DEF TypeOK, HolderOwnsClaim, ClaimIsHeld
<1>2. ExecutedIsAnswered' /\ TimeoutHasRaised'
  <2>1. \A q \in Requests : pc'[q] = "ok" <=> pc[q] = "ok"
    BY DEF TypeOK
  <2>2. \A q \in Requests : q # r => target'[q] = target[q] /\ pc'[q] = pc[q]
    BY DEF TypeOK
  <2>3. \A q \in Requests : pc[q] = "ok" => q # r
    OBVIOUS
  <2>4. \A q \in Requests : TimeoutRow(q) \in trail => q # r
    BY DEF TimeoutHasRaised
  <2>5. ExecutedIsAnswered'
    BY <2>1, <2>2, <2>3 DEF ExecutedIsAnswered, TrailKept, ResultRow
  <2>6. TimeoutHasRaised'
    BY <2>2, <2>4 DEF TimeoutHasRaised, TrailKept, TimeoutRow
  <2> QED
    BY <2>5, <2>6
<1>3. ResultIsUnique'
  BY DEF TypeOK, ResultIsUnique
<1>4. MarkerHasResult'
  BY DEF TypeOK, MarkerHasResult
<1>5. StoppedOnRows'
  BY DEF TypeOK, StoppedOnRows, Exists
<1> QED
  BY <1>1, <1>2, <1>3, <1>4, <1>5

\* A request that moves on within its transaction keeps its claim; it may
\* leave a timeout row when it has raised.
LEMMA CarryOn ==
    ASSUME IInv, TypeOK', NEW r \in Requests, NEW to \in {"relaying", "raised", "unwinding"},
           pc[r] \in Locking,
           pc' = [pc EXCEPT ![r] = to],
           TimeoutRow(r) \in trail' => to \in {"raised", "unwinding"},
           \A q \in Requests : ResultRow(q) \in trail' <=> ResultRow(q) \in trail,
           \A q \in Requests \ {r} : TimeoutRow(q) \in trail' <=> TimeoutRow(q) \in trail,
           UNCHANGED <<row, claim, loop, doomed, target>>
    PROVE  IInv'
<1> USE DEF IInv, Holding, Locking
<1>1. HolderOwnsClaim' /\ ClaimIsHeld'
  BY DEF TypeOK, HolderOwnsClaim, ClaimIsHeld
<1>2. ExecutedIsAnswered'
  <2>1. \A q \in Requests : pc'[q] = "ok" <=> pc[q] = "ok"
    BY DEF TypeOK
  <2> QED
    BY <2>1 DEF ExecutedIsAnswered, ResultRow
<1>3. TimeoutHasRaised'
  <2>1. \A q \in Requests : pc'[q] = IF q = r THEN to ELSE pc[q]
    BY DEF TypeOK
  <2> QED
    BY <2>1 DEF TimeoutHasRaised, TimeoutRow
<1>4. ResultIsUnique' /\ MarkerHasResult' /\ StoppedOnRows'
  BY DEF TypeOK, ResultIsUnique, MarkerHasResult, StoppedOnRows, Exists
<1> QED
  BY <1>1, <1>2, <1>3, <1>4

\* The row of a failed relay is a timeout row of that request or neither.
LEMMA FailureKeeps ==
    ASSUME NEW r \in Requests, NEW why \in RelayFault, RelayRaises(r, why)
    PROVE  /\ \A q \in Requests : ResultRow(q) \in trail' <=> ResultRow(q) \in trail
           /\ \A q \in Requests \ {r} : TimeoutRow(q) \in trail' <=> TimeoutRow(q) \in trail
<1>1. PICK written \in SUBSET Recorded(why) :
         trail' = trail \cup {Entry(event, r) : event \in written}
  BY DEF RelayRaises
<1>2. \A event \in written : event \in {<<"command_executed", "relay_timeout">>,
                                       <<"command_rejected", "rejected">>}
  BY DEF Recorded
<1>3. \A q \in Requests : /\ ResultRow(q) # Entry(<<"command_executed", "relay_timeout">>, r)
                          /\ ResultRow(q) # Entry(<<"command_rejected", "rejected">>, r)
  BY RowsDiffer DEF ResultRow
<1>4. \A q \in Requests \ {r} : /\ TimeoutRow(q) # Entry(<<"command_executed", "relay_timeout">>, r)
                                /\ TimeoutRow(q) # Entry(<<"command_rejected", "rejected">>, r)
  BY RowsDiffer DEF TimeoutRow
<1> QED
  BY <1>1, <1>2, <1>3, <1>4

\* A claim taken, at once or after waiting for the lock, is a new claim of an
\* open row.
LEMMA ClaimStep ==
    ASSUME IInv, TypeOK', NEW r \in Requests, NEW s \in Sessions,
           pc[r] \in {"idle", "blocked"}, claim[s] = None, row[s] = "open",
           claim' = [claim EXCEPT ![s] = r],
           target' = [target EXCEPT ![r] = s],
           NEW to \in {"minting", "raised"},
           pc' = [pc EXCEPT ![r] = to],
           UNCHANGED <<row, doomed, trail>>
    PROVE  IInv'
<1> USE TasksDistinct DEF IInv, TypeOK, Holding, Locking
<1>1. HolderOwnsClaim' /\ ClaimIsHeld'
  BY DEF HolderOwnsClaim, ClaimIsHeld
<1>2. ExecutedIsAnswered' /\ TimeoutHasRaised'
  BY DEF ExecutedIsAnswered, TimeoutHasRaised, ResultRow, TimeoutRow
<1>3. ResultIsUnique' /\ MarkerHasResult'
  BY DEF ResultIsUnique, MarkerHasResult
<1>4. StoppedOnRows'
  BY DEF StoppedOnRows, Exists
<1> QED
  BY <1>1, <1>2, <1>3, <1>4

\* A rollback frees the claim of the request that raised and of no other.
LEMMA RollbackStep ==
    ASSUME IInv, TypeOK', NEW r \in Requests, RolledBack(r)
    PROVE  IInv'
<1> USE DEF IInv, Holding, Locking, RolledBack
<1>1. target[r] \in Sessions /\ claim[target[r]] = r
  BY DEF HolderOwnsClaim
<1>2. HolderOwnsClaim' /\ ClaimIsHeld'
  BY <1>1, TasksDistinct DEF TypeOK, HolderOwnsClaim, ClaimIsHeld
<1>3. ExecutedIsAnswered' /\ TimeoutHasRaised'
  BY DEF TypeOK, ExecutedIsAnswered, TimeoutHasRaised, ResultRow, TimeoutRow
<1>4. ResultIsUnique' /\ MarkerHasResult' /\ StoppedOnRows'
  BY DEF TypeOK, ResultIsUnique, MarkerHasResult, StoppedOnRows, Exists
<1> QED
  BY <1>2, <1>3, <1>4

\* A committed result consumes the claim: the marker appears where no
\* result was before.
LEMMA ResultStep ==
    ASSUME IInv, TypeOK', NEW r \in Requests, RelayOk(r)
    PROVE  IInv'
<1> USE DEF IInv, Holding, Locking, RelayOk
<1>1. /\ target[r] \in Sessions
      /\ claim[target[r]] = r
      /\ row[target[r]] = "open"
  BY TasksDistinct DEF HolderOwnsClaim, ClaimIsHeld
<1>2. HolderOwnsClaim' /\ ClaimIsHeld'
  BY <1>1, TasksDistinct DEF TypeOK, HolderOwnsClaim, ClaimIsHeld
<1>3. \A q \in Requests : pc'[q] = "ok" <=> q = r \/ pc[q] = "ok"
  BY DEF TypeOK
<1>4. trail' = trail \cup {ResultRow(r)}
  BY DEF ResultRow
<1>5. ExecutedIsAnswered'
  <2>1. \A q \in Requests : ResultRow(q) \in trail' <=> q = r \/ ResultRow(q) \in trail
    BY <1>4, RowsDiffer DEF ResultRow
  <2>2. row'[target[r]] = "done" /\ target' = target
    BY <1>1 DEF TypeOK
  <2>3. \A q \in Requests : pc[q] = "ok" => row'[target[q]] \in {"done", "deleted"}
    BY <1>1 DEF TypeOK, ExecutedIsAnswered
  <2> QED
    BY <1>1, <1>3, <2>1, <2>2, <2>3 DEF ExecutedIsAnswered, ResultRow
<1>6. TimeoutHasRaised'
  <2>1. \A q \in Requests : TimeoutRow(q) # ResultRow(r)
    BY RowsDiffer DEF ResultRow, TimeoutRow
  <2>2. \A q \in Requests : TimeoutRow(q) \in trail' => TimeoutRow(q) \in trail /\ q # r
    BY <1>4, <2>1 DEF TimeoutHasRaised
  <2> QED
    BY <2>2 DEF TypeOK, TimeoutHasRaised, TimeoutRow
<1>7. ResultIsUnique'
  <2>1. \A q \in Requests : pc[q] = "ok" => target[q] # target[r]
    BY <1>1 DEF ExecutedIsAnswered
  <2> QED
    BY <1>3, <2>1 DEF ResultIsUnique
<1>8. MarkerHasResult'
  BY <1>1 DEF TypeOK, MarkerHasResult
<1>9. StoppedOnRows'
  BY <1>1, TasksDistinct DEF TypeOK, StoppedOnRows, Exists
<1> QED
  BY <1>2, <1>5, <1>6, <1>7, <1>8, <1>9

\* Deleting rows nobody has claimed, whichever task does it.
LEMMA DeleteStep ==
    ASSUME IInv, TypeOK', NEW gone \in SUBSET Sessions,
           \A s \in gone : claim[s] = None,
           row' = [s \in Sessions |-> IF s \in gone THEN "deleted" ELSE row[s]],
           \A r \in Requests : pc[r] # "blocked",
           doomed' = {},
           UNCHANGED <<claim, target, pc, trail>>
    PROVE  IInv'
<1> USE TasksDistinct DEF IInv, TypeOK, RowState, Holding, Locking
<1>1. HolderOwnsClaim' /\ ClaimIsHeld'
  BY DEF HolderOwnsClaim, ClaimIsHeld
<1>2. ExecutedIsAnswered' /\ TimeoutHasRaised'
  BY DEF ExecutedIsAnswered, TimeoutHasRaised, ResultRow, TimeoutRow
<1>3. ResultIsUnique' /\ MarkerHasResult' /\ StoppedOnRows'
  BY DEF ResultIsUnique, MarkerHasResult, StoppedOnRows, Exists
<1> QED
  BY <1>1, <1>2, <1>3

\* Init establishes the invariant.
LEMMA IInvInit == Init => IInv
  BY TasksDistinct DEF Init, IInv, TypeOK, RowState, InFlight, Holding, Locking, Answered, Standing,
     HolderOwnsClaim, ClaimIsHeld, ExecutedIsAnswered, TimeoutHasRaised, ResultIsUnique,
     MarkerHasResult, StoppedOnRows, Exists

\* Every action keeps the invariant.
LEMMA IInvStep == IInv /\ [Next]_vars => IInv'
<1> SUFFICES ASSUME IInv, [Next]_vars PROVE IInv'
  OBVIOUS
<1> TypeOK'
  BY TypeStep DEF IInv
<1> USE TasksDistinct
<1>0. loop = None => (\A r \in Requests : pc[r] # "blocked") /\ doomed = {}
  BY DEF IInv, TypeOK
<1>1. ASSUME NEW s \in Sessions, CreateSession(s) PROVE IInv'
  BY <1>0, <1>1 DEF CreateSession, IInv, TypeOK, HolderOwnsClaim, ClaimIsHeld, ExecutedIsAnswered,
     TimeoutHasRaised, ResultRow, TimeoutRow, ResultIsUnique, MarkerHasResult, StoppedOnRows, Exists
<1>2. ASSUME NEW s \in Sessions, Lapse(s) PROVE IInv'
  BY <1>2 DEF Lapse, IInv, HolderOwnsClaim, ClaimIsHeld, ExecutedIsAnswered, TimeoutHasRaised,
     ResultRow, TimeoutRow, ResultIsUnique, MarkerHasResult, StoppedOnRows, Exists
<1>3. ASSUME NEW st \in Standing, ExecutorChanges(st) PROVE IInv'
  BY <1>3 DEF ExecutorChanges, IInv, HolderOwnsClaim, ClaimIsHeld, ExecutedIsAnswered,
     TimeoutHasRaised, ResultRow, TimeoutRow, ResultIsUnique, MarkerHasResult, StoppedOnRows, Exists
<1>4. ASSUME NEW r \in Requests, NEW s \in Sessions, Execute(r, s) PROVE IInv'
  <2>1. ASSUME NEW mine \in BOOLEAN, ExecuteRefused(r, s, mine) PROVE IInv'
    <3>1. TrailKept
      BY <2>1, RefusalKeeps DEF ExecuteRefused, TrailKept
    <3> QED
      BY <2>1, <3>1, BystanderStep DEF ExecuteRefused
  <2>2. CASE ExecuteClaims(r, s)
    BY <2>2, ClaimStep DEF ExecuteClaims
  <2>3. CASE ExecuteUnprocessable(r, s)
    BY <2>3, ClaimStep DEF ExecuteUnprocessable
  <2>4. CASE ExecuteReplay(r, s)
    <3>1. TrailKept
      BY <2>4, RefusalKeeps DEF ExecuteReplay
    <3> QED
      BY <2>4, <3>1, BystanderStep DEF ExecuteReplay
  <2>5. CASE ExecuteBlocks(r, s)
    <3> USE <2>5 DEF ExecuteBlocks, IInv, TypeOK, Holding, Locking
    <3>1. HolderOwnsClaim' /\ ClaimIsHeld'
      BY DEF HolderOwnsClaim, ClaimIsHeld
    <3>2. ExecutedIsAnswered' /\ TimeoutHasRaised'
      BY DEF ExecutedIsAnswered, TimeoutHasRaised, ResultRow, TimeoutRow
    <3>3. ResultIsUnique' /\ MarkerHasResult'
      BY DEF ResultIsUnique, MarkerHasResult
    <3>4. StoppedOnRows'
      BY <1>0 DEF StoppedOnRows, ClaimIsHeld, Exists
    <3> QED
      BY <3>1, <3>2, <3>3, <3>4
  <2> QED
    BY <1>4, <2>1, <2>2, <2>3, <2>4, <2>5 DEF Execute
<1>5. ASSUME NEW r \in Requests, MintDone(r) PROVE IInv'
  <2>1. TimeoutRow(r) \notin trail
    BY <1>5 DEF MintDone, IInv, TimeoutHasRaised
  <2>2. trail' = trail
    BY <1>5 DEF MintDone
  <2> QED
    BY <1>5, <2>1, <2>2, CarryOn DEF MintDone, Holding, Locking
<1>6. ASSUME NEW r \in Requests, MintFails(r) PROVE IInv'
  <2>1. trail' = trail
    BY <1>6 DEF MintFails
  <2> QED
    BY <1>6, <2>1, CarryOn DEF MintFails, Raise, Holding, Locking
<1>7. ASSUME NEW r \in Requests, RelayOk(r) PROVE IInv'
  BY <1>7, ResultStep
<1>8. ASSUME NEW r \in Requests, NEW why \in RelayFault, RelayRaises(r, why) PROVE IInv'
  <2>1. /\ \A q \in Requests : ResultRow(q) \in trail' <=> ResultRow(q) \in trail
        /\ \A q \in Requests \ {r} : TimeoutRow(q) \in trail' <=> TimeoutRow(q) \in trail
    BY <1>8, FailureKeeps
  <2> QED
    BY <1>8, <2>1, CarryOn DEF RelayRaises, Raise, Holding, Locking
<1>9. CASE StatementTimeout
  <2> USE <1>9 DEF StatementTimeout, IInv, TypeOK, Holding, Locking
  <2>1. HolderOwnsClaim' /\ ClaimIsHeld'
    BY DEF HolderOwnsClaim, ClaimIsHeld
  <2>2. ExecutedIsAnswered' /\ TimeoutHasRaised'
    BY DEF ExecutedIsAnswered, TimeoutHasRaised, ResultRow, TimeoutRow
  <2>3. ResultIsUnique' /\ MarkerHasResult'
    BY DEF ResultIsUnique, MarkerHasResult
  <2>4. StoppedOnRows'
    BY DEF StoppedOnRows, Exists
  <2> QED
    BY <2>1, <2>2, <2>3, <2>4
<1>10. CASE Sweep
  <2> DEFINE gone == {s \in Sessions : Dead(s)}
  <2>1. row' = [s \in Sessions |-> IF s \in gone THEN "deleted" ELSE row[s]]
    BY <1>10 DEF Sweep
  <2> QED
    BY <1>0, <1>10, <2>1, DeleteStep DEF Sweep
<1>11. ASSUME NEW task, NEW wanted \in SUBSET Sessions, \A s \in wanted : Exists(s),
              DeleteWaits(task, wanted)
       PROVE  IInv'
  BY <1>0, <1>11 DEF DeleteWaits, IInv, HolderOwnsClaim, ClaimIsHeld, ExecutedIsAnswered, TimeoutHasRaised,
     ResultRow, TimeoutRow, ResultIsUnique, MarkerHasResult, StoppedOnRows, Exists
<1>12. CASE DeleteResumes
  <2>1. \A r \in Requests : pc[r] # "blocked"
    BY <1>12 DEF DeleteResumes, IInv, TypeOK
  <2> QED
    BY <1>12, <2>1, DeleteStep DEF DeleteResumes, IInv, TypeOK
<1>13. ASSUME NEW owned \in SUBSET Sessions, RemoveOwner(owned) PROVE IInv'
  <2> DEFINE gone == {s \in owned : Exists(s)}
  <2>1. row' = [s \in Sessions |-> IF s \in gone THEN "deleted" ELSE row[s]]
    BY <1>13 DEF RemoveOwner
  <2> QED
    BY <1>0, <1>13, <2>1, DeleteStep DEF RemoveOwner
<1>14. ASSUME NEW r \in Requests, NEW fit \in BOOLEAN, ExecuteResumes(r, fit) PROVE IInv'
  <2>1. pc[r] = "blocked" /\ target[r] \in Sessions /\ row[target[r]] = "open"
    BY <1>14 DEF ExecuteResumes, IInv, TypeOK, StoppedOnRows
  <2>2. target' = [target EXCEPT ![r] = target[r]]
    BY <1>14 DEF ExecuteResumes, IInv, TypeOK
  <2> QED
    BY <1>14, <2>1, <2>2, ClaimStep DEF ExecuteResumes
<1>15. ASSUME NEW r \in Requests, RollbackStarts(r) PROVE IInv'
  <2>1. trail' = trail
    BY <1>15 DEF RollbackStarts
  <2> QED
    BY <1>15, <2>1, CarryOn DEF RollbackStarts, Holding, Locking
<1>16. ASSUME NEW r \in Requests, RolledBack(r) PROVE IInv'
  BY <1>16, RollbackStep
<1>17. CASE CoreCrash
  <2> USE <1>17 DEF CoreCrash, IInv, TypeOK, Holding, Locking, InFlight
  <2>1. HolderOwnsClaim' /\ ClaimIsHeld'
    BY DEF HolderOwnsClaim, ClaimIsHeld
  <2>2. ExecutedIsAnswered' /\ TimeoutHasRaised'
    BY DEF ExecutedIsAnswered, TimeoutHasRaised, ResultRow, TimeoutRow
  <2>3. ResultIsUnique' /\ MarkerHasResult'
    BY DEF ResultIsUnique, MarkerHasResult
  <2>4. StoppedOnRows'
    BY DEF StoppedOnRows, Exists
  <2> QED
    BY <2>1, <2>2, <2>3, <2>4
<1>18. CASE UNCHANGED vars
  BY <1>18 DEF vars, IInv, HolderOwnsClaim, ClaimIsHeld, ExecutedIsAnswered, TimeoutHasRaised,
     ResultRow, TimeoutRow, ResultIsUnique, MarkerHasResult, StoppedOnRows, Exists
<1>19. CASE SweepBlocks
  BY <1>11, <1>19 DEF SweepBlocks, Dead
<1>20. ASSUME NEW owned \in SUBSET Sessions, RemoveOwnerBlocks(owned) PROVE IInv'
  BY <1>11, <1>20 DEF RemoveOwnerBlocks
<1> QED
  BY <1>1, <1>2, <1>3, <1>4, <1>5, <1>6, <1>7, <1>8, <1>9, <1>10, <1>12, <1>13, <1>14, <1>15,
     <1>16, <1>17, <1>18, <1>19, <1>20 DEF Next

\* IInv is an inductive invariant of the core's sessions.
LEMMA Invariance == Spec => []IInv
  BY IInvInit, IInvStep, PTL DEF Spec

-----------------------------------------------------------------------------
(* What the invariant gives. *)

\* The submissions of s that were answered 200.
OkFor(s) == {r \in Requests : pc[r] = "ok" /\ target[r] = s}

\* The audit trail and the answers tell the same story.
LEMMA ExecutedIsOk == ASSUME IInv, NEW s PROVE Executed(s) = OkFor(s)
  BY DEF IInv, ExecutedIsAnswered, ResultRow, Executed, OkFor

\* THEOREM 2.  Of a session's command_executed rows at most one reports a
\* result, committed together with the marker, and a submission with a
\* timeout row has none, for any number of sessions, submissions, retries,
\* sweeps and crashes.
THEOREM SessionsAreOneShot == Spec => []OneResult
<1>1. IInv => OneResult
  <2> SUFFICES ASSUME IInv, NEW s \in Sessions
               PROVE  /\ \A q, r \in Executed(s) : q = r
                      /\ row[s] = "done" => Executed(s) # {}
                      /\ row[s] \in {"absent", "open"} => Executed(s) = {}
                      /\ Executed(s) \cap TimedOut(s) = {}
    BY DEF OneResult
  <2>1. Executed(s) = OkFor(s)
    BY ExecutedIsOk
  <2>2. \A q, r \in OkFor(s) : q = r
    BY DEF OkFor, IInv, ResultIsUnique
  <2>3. row[s] = "done" => OkFor(s) # {}
    BY DEF OkFor, IInv, MarkerHasResult
  <2>4. row[s] \in {"absent", "open"} => OkFor(s) = {}
    BY DEF OkFor, IInv, ExecutedIsAnswered
  <2>5. OkFor(s) \cap TimedOut(s) = {}
    BY DEF OkFor, TimedOut, IInv, TimeoutHasRaised, TimeoutRow
  <2> QED
    BY <2>1, <2>2, <2>3, <2>4, <2>5
<1> QED
  BY <1>1, Invariance, PTL

\* THEOREM 3.  No two submissions of one session are ever relayed at once.
THEOREM RelaysAreExclusive == Spec => []SingleFlight
<1>1. IInv => SingleFlight
  BY DEF IInv, SingleFlight, HolderOwnsClaim, Locking
<1> QED
  BY <1>1, Invariance, PTL

\* THEOREM 4.  The row of a relay in flight is never reaped or marked by
\* anybody else.
THEOREM ClaimedRowsSurvive == Spec => []ClaimedRowKept
<1>1. IInv => ClaimedRowKept
  BY DEF IInv, ClaimedRowKept, ClaimIsHeld
<1> QED
  BY <1>1, Invariance, PTL

\* THEOREM 5.  The event loop never waits for a lock whose transaction
\* nobody is going to end, nor for its own.
THEOREM LocksHaveOwners == Spec => []NoOrphanedLock
<1>1. ASSUME IInv, loop # None, NEW s \in Wanted, claim[s] # None
      PROVE  /\ claim[s] # loop
             /\ pc[claim[s]] \in Locking
             /\ target[claim[s]] = s
  <2>1. s \in Sessions
    BY <1>1 DEF IInv, TypeOK, StoppedOnRows, Wanted
  <2>2. claim[s] \in Requests /\ pc[claim[s]] \in Locking /\ target[claim[s]] = s
    BY <1>1, <2>1 DEF IInv, ClaimIsHeld
  <2>3. claim[s] # loop
    BY <1>1, <2>2 DEF IInv, TypeOK, Locking, Holding
  <2> QED
    BY <2>2, <2>3
<1>2. IInv => NoOrphanedLock
  BY <1>1 DEF NoOrphanedLock
<1> QED
  BY <1>2, Invariance, PTL

-----------------------------------------------------------------------------
(* Refinement. *)

\* The abstract state of a session, as the refinement mapping reads it.
AbsStatus(s) == IF claim[s] # None THEN "claimed" ELSE row[s]

\* One session's part of a detailed step, in the abstract vocabulary.
AbsSessionStep(s) ==
    \/ AbsStatus(s)' = AbsStatus(s) /\ OkFor(s)' = OkFor(s)
    \/ /\ <<AbsStatus(s), AbsStatus(s)'>> \in Abstract!Legal
       /\ IF <<AbsStatus(s), AbsStatus(s)'>> = <<"claimed", "done">>
          THEN OkFor(s) = {} /\ \E r \in Requests : OkFor(s)' = {r}
          ELSE OkFor(s)' = OkFor(s)

\* Every detailed step moves every session along a legal edge or not at all.
LEMMA EverySessionSteps ==
    ASSUME IInv, IInv', [Next]_vars, NEW s \in Sessions
    PROVE  AbsSessionStep(s)
<1> USE TasksDistinct DEF IInv, TypeOK, AbsSessionStep, AbsStatus, OkFor, Abstract!Legal
<1>1. ASSUME NEW t \in Sessions, CreateSession(t) PROVE AbsSessionStep(s)
  BY <1>1 DEF CreateSession, ClaimIsHeld
<1>2. ASSUME NEW t \in Sessions, Lapse(t) PROVE AbsSessionStep(s)
  BY <1>2 DEF Lapse
<1>3. ASSUME NEW st \in Standing, ExecutorChanges(st) PROVE AbsSessionStep(s)
  BY <1>3 DEF ExecutorChanges
<1>4. ASSUME NEW r \in Requests, NEW t \in Sessions, Execute(r, t) PROVE AbsSessionStep(s)
  <2>1. CASE ExecuteClaims(r, t)
    <3>1. OkFor(s)' = OkFor(s)
      BY <2>1 DEF ExecuteClaims
    <3> QED
      BY <2>1, <3>1 DEF ExecuteClaims
  <2>2. CASE ExecuteUnprocessable(r, t)
    <3>1. OkFor(s)' = OkFor(s)
      BY <2>2 DEF ExecuteUnprocessable
    <3> QED
      BY <2>2, <3>1 DEF ExecuteUnprocessable
  <2>3. ASSUME NEW mine \in BOOLEAN, ExecuteRefused(r, t, mine) PROVE AbsSessionStep(s)
    BY <2>3 DEF ExecuteRefused
  <2>4. CASE ExecuteReplay(r, t)
    BY <2>4 DEF ExecuteReplay
  <2>5. CASE ExecuteBlocks(r, t)
    BY <2>5 DEF ExecuteBlocks
  <2> QED
    BY <1>4, <2>1, <2>2, <2>3, <2>4, <2>5 DEF Execute
<1>5. ASSUME NEW r \in Requests, MintDone(r) \/ RollbackStarts(r) PROVE AbsSessionStep(s)
  BY <1>5 DEF MintDone, RollbackStarts
<1>6. ASSUME NEW r \in Requests, RolledBack(r) PROVE AbsSessionStep(s)
  <2>1. target[r] \in Sessions /\ claim[target[r]] = r /\ row[target[r]] = "open"
    BY <1>6 DEF RolledBack, HolderOwnsClaim, ClaimIsHeld, Locking
  <2>2. OkFor(s)' = OkFor(s)
    BY <1>6 DEF RolledBack
  <2> QED
    BY <1>6, <2>1, <2>2 DEF RolledBack
<1>7. ASSUME NEW r \in Requests, RelayOk(r) PROVE AbsSessionStep(s)
  <2>1. target[r] \in Sessions /\ claim[target[r]] = r /\ row[target[r]] = "open"
    BY <1>7 DEF RelayOk, Holding, Locking, HolderOwnsClaim, ClaimIsHeld
  <2>2. CASE s = target[r]
    <3>1. OkFor(s) = {}
      BY <2>1, <2>2 DEF ExecutedIsAnswered
    <3>2. OkFor(s)' = {r}
      BY <1>7, <2>1, <2>2, <3>1 DEF RelayOk
    <3>3. AbsStatus(s) = "claimed" /\ AbsStatus(s)' = "done"
      BY <1>7, <2>1, <2>2 DEF RelayOk
    <3> QED
      BY <3>1, <3>2, <3>3
  <2>3. CASE s # target[r]
    BY <1>7, <2>1, <2>3 DEF RelayOk
  <2> QED
    BY <2>2, <2>3
<1>8. ASSUME NEW r \in Requests, pc[r] \in Holding, Raise(r) PROVE AbsSessionStep(s)
  BY <1>8 DEF Raise, Holding
<1>9. CASE StatementTimeout
  BY <1>9 DEF StatementTimeout
<1>10. CASE Sweep
  <2>1. OkFor(s)' = OkFor(s) /\ claim'[s] = claim[s]
    BY <1>10 DEF Sweep
  <2>2. row'[s] = IF Dead(s) THEN "deleted" ELSE row[s]
    BY <1>10 DEF Sweep
  <2>3. Dead(s) => claim[s] = None /\ row[s] \in {"open", "done"}
    BY <1>10 DEF Sweep, Dead, Exists
  <2> QED
    BY <2>1, <2>2, <2>3
<1>11. ASSUME NEW task, NEW wanted, DeleteWaits(task, wanted) PROVE AbsSessionStep(s)
  BY <1>11 DEF DeleteWaits
<1>12. CASE DeleteResumes
  <2>1. OkFor(s)' = OkFor(s) /\ claim'[s] = claim[s]
    BY <1>12 DEF DeleteResumes
  <2>2. row'[s] = IF s \in doomed THEN "deleted" ELSE row[s]
    BY <1>12 DEF DeleteResumes
  <2>3. s \in doomed => claim[s] = None /\ row[s] \in {"open", "done"}
    BY <1>12 DEF DeleteResumes, StoppedOnRows, Exists
  <2> QED
    BY <2>1, <2>2, <2>3
<1>13. ASSUME NEW owned \in SUBSET Sessions, RemoveOwner(owned)
       PROVE  AbsSessionStep(s)
  <2>1. OkFor(s)' = OkFor(s) /\ claim'[s] = claim[s]
    BY <1>13 DEF RemoveOwner
  <2>2. row'[s] = IF s \in owned /\ Exists(s) THEN "deleted" ELSE row[s]
    BY <1>13 DEF RemoveOwner
  <2>3. s \in owned => claim[s] = None
    BY <1>13 DEF RemoveOwner
  <2> QED
    BY <2>1, <2>2, <2>3 DEF Exists
<1>14. ASSUME NEW r \in Requests, NEW fit \in BOOLEAN, ExecuteResumes(r, fit)
       PROVE  AbsSessionStep(s)
  <2>1. pc[r] = "blocked" /\ target[r] \in Sessions /\ row[target[r]] = "open"
    BY <1>14 DEF ExecuteResumes, StoppedOnRows
  <2>2. OkFor(s)' = OkFor(s)
    BY <1>14, <2>1 DEF ExecuteResumes
  <2> QED
    BY <1>14, <2>1, <2>2 DEF ExecuteResumes
<1>15. CASE CoreCrash
  <2>1. OkFor(s)' = OkFor(s)
    BY <1>15 DEF CoreCrash, InFlight, Locking, Holding
  <2>2. claim[s] # None => row[s] = "open"
    BY DEF ClaimIsHeld
  <2> QED
    BY <1>15, <2>1, <2>2 DEF CoreCrash
<1>16. CASE UNCHANGED vars
  BY <1>16 DEF vars
<1>17. CASE SweepBlocks
  BY <1>11, <1>17 DEF SweepBlocks
<1>18. ASSUME NEW owned \in SUBSET Sessions, RemoveOwnerBlocks(owned) PROVE AbsSessionStep(s)
  BY <1>11, <1>18 DEF RemoveOwnerBlocks
<1> QED
  BY <1>1, <1>2, <1>3, <1>4, <1>5, <1>6, <1>7, <1>8, <1>9, <1>10, <1>12, <1>13, <1>14, <1>15,
     <1>16, <1>17, <1>18 DEF Next, MintFails, RelayRaises, Holding

\* THEOREM 6.  ExecutionSessions implements OneShotSession: claimed before
\* the relay, completed at most once, never reaped while claimed.
THEOREM Refinement == Spec => ImplementsOneShot
<1> DEFINE st == [s \in Sessions |-> IF claim[s] # None THEN "claimed" ELSE row[s]]
           rs == [s \in Sessions |-> Executed(s)]
<1>1. Init => Abstract!AbsInit
  BY DEF Init, Abstract!AbsInit, Executed
<1>2. ASSUME IInv, IInv', [Next]_vars PROVE Abstract!AbsNext
  <2>1. \A s \in Sessions : AbsSessionStep(s)
    BY <1>2, EverySessionSteps
  <2>2. \A s \in Sessions : Executed(s) = OkFor(s) /\ Executed(s)' = OkFor(s)'
    BY <1>2 DEF IInv, ExecutedIsAnswered, ResultRow, Executed, OkFor
  <2>3. st' \in [Sessions -> Abstract!Status]
    BY <1>2 DEF IInv, TypeOK, RowState, Abstract!Status
  <2>4. rs' \in [Sessions -> SUBSET Requests]
    BY DEF Executed
  <2>5. \A s \in Sessions : Abstract!SessionStep(s)
    BY <2>1, <2>2 DEF AbsSessionStep, AbsStatus, Abstract!SessionStep
  <2> QED
    BY <2>3, <2>4, <2>5 DEF Abstract!AbsNext
<1>3. IInv /\ IInv' /\ [Next]_vars => [Abstract!AbsNext]_(Abstract!avars)
  BY <1>2
<1> QED
  BY <1>1, <1>3, Invariance, PTL DEF Spec, ImplementsOneShot, Abstract!AbsSpec

=============================================================================
