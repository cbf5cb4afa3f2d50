----------------------------- MODULE VaultProofs -----------------------------
(***************************************************************************)
(* Proofs about Vault, for any number of processes, users, roles, rows,    *)
(* versions, passphrases and salts.                                        *)
(***************************************************************************)
EXTENDS Vault, FiniteSetTheorems, WellFoundedInduction, TLAPS

-----------------------------------------------------------------------------
(* Rows by their ids. *)

\* A set of ids that is not empty has a first one.
LEMMA FirstExists ==
  ASSUME NEW S \in SUBSET Ids, S # {}
  PROVE  First(S) # {}
<1>1. S \subseteq Nat
  BY VaultBounds DEF Ids
<1>2. PICK x \in S : \A y \in S : ~ (<<y, x>> \in OpToRel(<, Nat))
  BY <1>1, NatLessThanWellFounded, WFMin
<1>3. \A y \in S : ~ (y < x)
  BY <1>1, <1>2 DEF OpToRel
<1>4. x \in First(S)
  BY <1>1, <1>3 DEF First
<1> QED
  BY <1>4

\* The first of a set is one of it.
LEMMA FirstIsMember == ASSUME NEW S PROVE First(S) \subseteq S
BY DEF First

-----------------------------------------------------------------------------
(* Types. *)

\* The types of what processes hold and of the database's rows.
Shape ==
    /\ phrase \in [Procs -> Phrases \cup {None}]
    /\ stage \in [Procs -> {"down", "salting", "salted", "keyed", "sampling", "up"}]
    /\ kek \in [Procs -> Keks \cup {None}]
    /\ salt \in 0..drawn /\ drawn \in 0..MaxSalts
    /\ sentinel \in Keks \cup {None}
    /\ crossed \in BOOLEAN
    /\ row \in [Ids -> Secret \cup {None}]
    /\ holds \in [Users -> SUBSET Roles]
    /\ draft \in [Procs -> Draft \cup {None}]
    /\ seen \in Vers \cup {None}
    /\ ver \in [Vers -> {"none", "inactive", "active"}]
    /\ jobs \in Seq(Job) /\ tx \in [Procs -> Tx \cup {None}]
    /\ steps \in 0..Steps

\* uq_secrets_key_created_by
OneRowEach == \A i, j \in Stored : row[i].owner = row[j].owner => i = j

\* uq_key_versions_single_active
OneActive == \A v, w \in Active : v = w

\* A live process has a passphrase, and a salt to derive from.
LiveKeys == \A p \in Procs :
    /\ stage[p] # "down" => phrase[p] # None
    /\ stage[p] \in {"salted", "keyed", "sampling", "up"} => salt # 0

\* Unless a process was let in beside another key, what is stored was wrapped
\* by one key, the sentinel's if there is one, and that of every process that
\* serves.
OneKey == ~crossed =>
    /\ \A i, j \in Stored : row[i].kek = row[j].kek
    /\ sentinel # None => \A i \in Stored : Opens(sentinel, i)
    /\ \A p \in Procs : stage[p] = "up" => /\ \A i \in Stored : Opens(kek[p], i)
                                           /\ sentinel \in {None, kek[p]}
    /\ \A p, q \in Procs : stage[p] = "up" /\ stage[q] = "up" => kek[p] = kek[q]

\* A put under way belongs to a process that serves, is wrapped by its key and
\* names roles of its author.
Drafts == \A p \in Procs : draft[p] # None =>
    /\ stage[p] = "up"
    /\ draft[p].kek = kek[p]
    /\ draft[p].scope \cap draft[p].roles # {}

\* An open rollback is of a job that is recorded.
Rollbacks == \A p \in Procs : tx[p] # None /\ tx[p].job # 0 => tx[p].job \in 1..Len(jobs)

Inv == Shape /\ OneRowEach /\ OneActive /\ LiveKeys /\ OneKey /\ Drafts /\ Rollbacks

\* At most one version is active, counted.
LEMMA ActiveCounted == OneActive => Cardinality(Active) <= 1
<1> SUFFICES ASSUME OneActive PROVE Cardinality(Active) <= 1
  OBVIOUS
<1>1. CASE Active = {}
  BY <1>1, FS_EmptySet
<1>2. ASSUME NEW v \in Active PROVE Cardinality(Active) <= 1
  <2>1. Active = {v}
    BY DEF OneActive
  <2>2. Cardinality({v}) = 1
    BY FS_Singleton
  <2> QED
    BY <2>1, <2>2
<1> QED
  BY <1>1, <1>2

\* The invariant contains the type invariant.
LEMMA InvIsTyped == Inv => TypeOK
BY ActiveCounted DEF Inv, Shape, OneRowEach, TypeOK

\* It holds in the beginning.
LEMMA InitInv == Init => Inv
<1> SUFFICES ASSUME Init PROVE Inv
  OBVIOUS
<1>1. Shape
  <2>1. crossed \in BOOLEAN
    BY DEF Init
  <2>2. jobs \in Seq(Job) /\ tx \in [Procs -> Tx \cup {None}]
    BY DEF Init
  <2> QED
    BY <2>1, <2>2, VaultBounds DEF Init, Shape
<1>2. Stored = {} /\ Active = {}
  BY DEF Init, Stored, Active
<1>3. OneRowEach /\ OneActive
  BY <1>2 DEF OneRowEach, OneActive
<1>4. LiveKeys /\ OneKey /\ Drafts /\ Rollbacks
  BY <1>2 DEF Init, LiveKeys, OneKey, Drafts, Rollbacks
<1> QED
  BY <1>1, <1>3, <1>4 DEF Inv

-----------------------------------------------------------------------------
(* The types are kept. *)

\* Starting and stopping, and the loss of the salt.
LEMMA BootKeepsShape == Inv /\ (Boot \/ LoseSalt) => Shape'
<1> SUFFICES ASSUME Inv, Boot \/ LoseSalt PROVE Shape'
  OBVIOUS
<1> USE VaultBounds DEF Inv, Shape, Counted, versions
<1>1. ASSUME NEW p \in Procs, NEW f \in Phrases, BootReads(p, f) PROVE Shape'
  BY <1>1 DEF BootReads
<1>2. ASSUME NEW p \in Procs, BootSalts(p) PROVE Shape'
  BY <1>2 DEF BootSalts
<1>3. ASSUME NEW p \in Procs, BootDerives(p) PROVE Shape'
  <2>1. salt \in 1..MaxSalts /\ phrase[p] \in Phrases
    BY <1>3 DEF BootDerives, LiveKeys
  <2>2. Derived(p) \in Keks
    BY <2>1 DEF Derived, Keks
  <2> QED
    BY <1>3, <2>2 DEF BootDerives
<1>4. ASSUME NEW p \in Procs, BootVerifies(p) \/ BootSamples(p) PROVE Shape'
  BY <1>4 DEF BootVerifies, BootSamples
<1>5. ASSUME NEW p \in Procs, Down(p) PROVE Shape'
  BY <1>5 DEF Down
<1>6. CASE LoseSalt
  BY <1>6 DEF LoseSalt
<1> QED
  BY <1>1, <1>2, <1>3, <1>4, <1>5, <1>6 DEF Boot

\* Storing, reading and removing secrets.
LEMMA UseKeepsShape == Inv /\ Use => Shape'
<1> SUFFICES ASSUME Inv, Use PROVE Shape'
  OBVIOUS
<1> USE VaultBounds DEF Inv, Shape, Counted, versions, bootvars
<1>1. ASSUME NEW p \in Procs, NEW u \in Users, NEW R \in SUBSET Roles, NEW n \in Names,
             NEW m \in Metas, NEW w \in BOOLEAN, PutEncrypts(p, u, R, n, m, w)
      PROVE  Shape'
  <2>1. kek[p] \in Keks
    BY <1>1 DEF PutEncrypts, Held
  <2>2. [user |-> u, roles |-> holds[u], kek |-> kek[p], ver |-> n, scope |-> R, meta |-> m] \in Draft
    BY <2>1 DEF Draft
  <2> QED
    BY <1>1, <2>1, <2>2 DEF PutEncrypts, SentinelOr
<1>2. ASSUME NEW p \in Procs, NEW u \in Users, Delete(p, u) PROVE Shape'
  BY <1>2 DEF Delete, Stored
<1>3. ASSUME NEW p \in Procs, NEW u \in Users, Annotate(p, u) PROVE Shape'
  <2>1. PICK i \in Stored : row' = [row EXCEPT ![i].meta = "shaped"]
    BY <1>3 DEF Annotate
  <2>2. row[i] \in Secret
    BY <2>1 DEF Stored
  <2>3. [row[i] EXCEPT !.meta = "shaped"] \in Secret
    BY <2>2 DEF Secret, Metas
  <2> QED
    BY <1>3, <2>1, <2>3 DEF Annotate, Stored
<1>4. ASSUME NEW p \in Procs, PutWrites(p) PROVE Shape'
  <2>1. draft[p] \in Draft
    BY <1>4 DEF PutWrites
  <2>2. \A o \in Users : Wrapped(draft[p], o) \in Secret
    BY <2>1 DEF Wrapped, Draft, Secret
  <2>3. draft[p].user \in Users
    BY <2>1 DEF Draft
  <2>4. \A i \in Replaced(draft[p].user, draft[p].roles) : i \in Ids /\ row[i].owner \in Users
    BY FirstIsMember DEF Replaced, Got, Visible, Stored, Secret
  <2>5. row' \in [Ids -> Secret \cup {None}]
    <3>1. CASE \E i \in Replaced(draft[p].user, draft[p].roles) :
                 row' = [row EXCEPT ![i] = Wrapped(draft[p], @.owner)]
      BY <3>1, <2>2, <2>4
    <3>2. CASE \E i \in First({j \in Ids : \A k \in Stored : k < j}) :
                 row' = [row EXCEPT ![i] = Wrapped(draft[p], draft[p].user)]
      BY <3>2, <2>2, <2>3, FirstIsMember
    <3> QED
      BY <1>4, <3>1, <3>2 DEF PutWrites
  <2> QED
    BY <1>4, <2>5 DEF PutWrites
<1>5. ASSUME NEW u \in Users, NEW R \in SUBSET Roles, Holds(u, R) PROVE Shape'
  BY <1>5 DEF Holds
<1>6. ASSUME NEW p \in Procs, AskActive(p) PROVE Shape'
  BY <1>6 DEF AskActive, Active
<1> HIDE DEF Inv, Shape, Counted, versions, bootvars
<1> QED
  BY <1>1, <1>2, <1>3, <1>4, <1>5, <1>6 DEF Use

\* Keeping versions.
LEMMA KeepKeepsShape == Inv /\ Keep => Shape'
<1> SUFFICES ASSUME Inv, Keep PROVE Shape'
  OBVIOUS
<1> USE VaultBounds DEF Inv, Shape, Counted, bootvars, versions
<1>1. ASSUME NEW p \in Procs, NEW j \in Nat, NEW old \in Vers \cup {None}, Opened(p, j, old)
      PROVE  Shape'
  <2>1. [job |-> j, old |-> old, phase |-> "read", rows |-> {}] \in Tx
    BY DEF Tx
  <2> QED
    BY <1>1, <2>1 DEF Opened
<1>2. ASSUME NEW p \in Procs, RotateReads(p) PROVE Shape'
  BY <1>1, <1>2 DEF RotateReads, Active
<1>3. ASSUME NEW p \in Procs, NEW j \in 1..Len(jobs), RollbackReads(p, j) PROVE Shape'
  <2>1. jobs[j].old \in Vers \cup {None}
    <3>1. jobs[j] \in Job
      OBVIOUS
    <3> QED
      BY <3>1 DEF Job
  <2> QED
    BY <1>1, <1>3, <2>1 DEF RollbackReads
<1>4. ASSUME NEW p \in Procs, Retires(p) PROVE Shape'
  <2>1. tx[p] \in Tx
    BY <1>4 DEF Retires
  <2>2. \A ph \in {"locked", "queued"} : [tx[p] EXCEPT !.rows = Active, !.phase = ph] \in Tx
    BY <2>1 DEF Tx, Active
  <2> QED
    BY <1>4, <2>2 DEF Retires
<1>5. ASSUME NEW p \in Procs, RetireResumes(p) PROVE Shape'
  <2>1. tx[p] \in Tx
    BY <1>5 DEF RetireResumes
  <2>2. [tx[p] EXCEPT !.rows = tx[p].rows \cap Active, !.phase = "locked"] \in Tx
    BY <2>1 DEF Tx, Active
  <2> QED
    BY <1>5, <2>2 DEF RetireResumes
<1>6. ASSUME NEW p \in Procs, NEW v \in Vers, RotateCommits(p, v) PROVE Shape'
  <2>1. tx[p] \in Tx
    BY <1>6 DEF RotateCommits
  <2>2. [old |-> tx[p].old, new |-> v, status |-> "completed"] \in Job
    BY <2>1 DEF Job, Tx
  <2> QED
    BY <1>6, <2>2 DEF RotateCommits, Activated
<1>7. ASSUME NEW p \in Procs, RollbackCommits(p) PROVE Shape'
  <2>1. tx[p].job \in 1..Len(jobs)
    BY <1>7 DEF RollbackCommits, Rollbacks
  <2>2. [jobs[tx[p].job] EXCEPT !.status = "rolled_back"] \in Job
    <3>1. jobs[tx[p].job] \in Job
      BY <2>1
    <3> QED
      BY <3>1 DEF Job
  <2>3. jobs' \in Seq(Job)
    BY <1>7, <2>1, <2>2 DEF RollbackCommits
  <2> QED
    BY <1>7, <2>3 DEF RollbackCommits, Activated
<1>8. ASSUME NEW p \in Procs, TxFails(p) PROVE Shape'
  BY <1>8 DEF TxFails
<1>9. ASSUME NEW p \in Procs, NEW v \in Vers, Deactivate(p, v) \/ Revoke(p, v) PROVE Shape'
  BY <1>9 DEF Deactivate, Revoke
<1> HIDE DEF Inv, Shape, Counted, bootvars, versions
<1> QED
  BY <1>2, <1>3, <1>4, <1>5, <1>6, <1>7, <1>8, <1>9 DEF Keep

\* What a step of Keep leaves alone.
LEMMA KeepFrame == Keep => UNCHANGED <<bootvars, sentinel, row, holds, draft, seen>>
BY DEF Keep, RotateReads, RollbackReads, Opened, Retires, RetireResumes, RotateCommits,
   RollbackCommits, TxFails, Deactivate, Revoke

-----------------------------------------------------------------------------
(* Rows, versions and keys. *)

\* What a put does to the rows: the first visible one is replaced and keeps its
\* owner, or nothing was visible to the author and a row of the author's is new.
LEMMA PutEffect ==
  ASSUME Inv, NEW p \in Procs, PutWrites(p)
  PROVE  \E i \in Ids, o \in Users :
           /\ row' = [row EXCEPT ![i] = Wrapped(draft[p], o)]
           /\ \/ i \in Got(draft[p].user, draft[p].roles) /\ row[i].owner = o
              \/ /\ Visible(draft[p].user, draft[p].roles) = {}
                 /\ i \notin Stored
                 /\ o = draft[p].user
<1> DEFINE d == draft[p]
<1>1. d \in Draft
  BY DEF PutWrites, Inv, Shape
<1>2. d.user \in Users
  BY <1>1 DEF Draft
<1>3. CASE \E i \in Replaced(d.user, d.roles) : row' = [row EXCEPT ![i] = Wrapped(d, @.owner)]
  <2>1. PICK i \in Replaced(d.user, d.roles) : row' = [row EXCEPT ![i] = Wrapped(d, @.owner)]
    BY <1>3
  <2>2. i \in Got(d.user, d.roles) /\ i \in Stored
    BY FirstIsMember DEF Replaced, Got, Visible
  <2>3. row[i] \in Secret /\ i \in Ids
    BY <2>2 DEF Inv, Shape, Stored
  <2>4. row[i].owner \in Users
    BY <2>3 DEF Secret
  <2>5. row' = [row EXCEPT ![i] = Wrapped(d, row[i].owner)]
    BY <2>1
  <2> QED
    BY <2>2, <2>3, <2>4, <2>5
<1>4. CASE /\ Replaced(d.user, d.roles) = {}
           /\ \E i \in First({j \in Ids : \A k \in Stored : k < j}) :
                row' = [row EXCEPT ![i] = Wrapped(d, d.user)]
  <2>1. PICK i \in First({j \in Ids : \A k \in Stored : k < j}) :
          row' = [row EXCEPT ![i] = Wrapped(d, d.user)]
    BY <1>4
  <2>2. i \in Ids /\ \A k \in Stored : k < i
    BY FirstIsMember
  <2>3. i \notin Stored
    BY <2>2, VaultBounds DEF Ids
  <2>4. Visible(d.user, d.roles) \in SUBSET Ids
    BY DEF Visible, Stored
  <2>5. Visible(d.user, d.roles) = {}
    BY <1>4, <2>4, FirstExists DEF Replaced, Got
  <2> QED
    BY <1>2, <2>1, <2>2, <2>3, <2>5
<1> QED
  BY <1>3, <1>4 DEF PutWrites

\* Nobody comes to own two rows of a name.
LEMMA OwnersKept == Inv /\ Next => OneRowEach'
<1> SUFFICES ASSUME Inv, Next PROVE OneRowEach'
  OBVIOUS
<1>1. CASE row' = row
  BY <1>1 DEF Inv, OneRowEach, Stored
<1>2. ASSUME NEW p \in Procs, PutWrites(p) PROVE OneRowEach'
  <2>1. PICK i \in Ids, o \in Users :
           /\ row' = [row EXCEPT ![i] = Wrapped(draft[p], o)]
           /\ \/ i \in Got(draft[p].user, draft[p].roles) /\ row[i].owner = o
              \/ /\ Visible(draft[p].user, draft[p].roles) = {}
                 /\ i \notin Stored
                 /\ o = draft[p].user
    BY <1>2, PutEffect
  <2>2. row'[i].owner = o
    BY <2>1 DEF Wrapped, Inv, Shape
  <2>3. \A k \in Stored \ {i} : row[k].owner # o
    <3>1. CASE i \in Got(draft[p].user, draft[p].roles) /\ row[i].owner = o
      BY <3>1, FirstIsMember DEF Got, Visible, Inv, OneRowEach
    <3>2. CASE Visible(draft[p].user, draft[p].roles) = {} /\ o = draft[p].user
      BY <3>2 DEF Visible
    <3> QED
      BY <2>1, <3>1, <3>2
  <2>4. \A k \in Stored' \ {i} : k \in Stored /\ row'[k] = row[k]
    BY <2>1 DEF Stored, Inv, Shape
  <2> QED
    BY <2>2, <2>3, <2>4 DEF Inv, OneRowEach
<1>3. ASSUME NEW p \in Procs, NEW u \in Users, Delete(p, u) PROVE OneRowEach'
  BY <1>3 DEF Delete, Stored, Inv, Shape, OneRowEach
<1>4. ASSUME NEW p \in Procs, NEW u \in Users, Annotate(p, u) PROVE OneRowEach'
  <2>1. PICK i \in Stored : row' = [row EXCEPT ![i].meta = "shaped"]
    BY <1>4 DEF Annotate
  <2>2. row[i] \in Secret
    BY <2>1 DEF Stored, Inv, Shape
  <2>3. \A k \in Stored' : k \in Stored /\ row'[k].owner = row[k].owner
    BY <2>1, <2>2 DEF Stored, Inv, Shape, Secret
  <2> QED
    BY <2>3 DEF Inv, OneRowEach
<1> QED
  BY <1>1, <1>2, <1>3, <1>4, KeepFrame DEF Next, Boot, BootReads, BootSalts, BootDerives, BootVerifies, BootSamples, Down,
     LoseSalt, Use, PutEncrypts, Holds, AskActive

\* No two versions come to be active: a transaction commits what the index
\* allows, and the other steps activate nothing.
LEMMA VersionsKept == Inv /\ Next => OneActive'
<1> SUFFICES ASSUME Inv, Next PROVE OneActive'
  OBVIOUS
<1> USE DEF Inv, Shape, OneActive, Active
<1>1. CASE ver' = ver
  BY <1>1
<1>2. ASSUME NEW p \in Procs, NEW v \in Vers, RotateCommits(p, v) PROVE OneActive'
  BY <1>2 DEF RotateCommits, Activated, IndexAllows
<1>3. ASSUME NEW p \in Procs, RollbackCommits(p) PROVE OneActive'
  <2>1. tx[p] \in Tx /\ ver' = Activated(p, tx[p].old)
    BY <1>3 DEF RollbackCommits
  <2>2. CASE tx[p].old = None
    <3>1. \A u \in Vers : ver'[u] = "active" => ver[u] = "active"
      BY <2>1, <2>2, NoneIsNoRow DEF Activated
    <3> QED
      BY <3>1
  <2>3. CASE tx[p].old # None
    BY <1>3, <2>1, <2>3 DEF RollbackCommits, Activated, IndexAllows, Tx
  <2> QED
    BY <2>2, <2>3
<1>4. ASSUME NEW p \in Procs, NEW v \in Vers, Deactivate(p, v) \/ Revoke(p, v) PROVE OneActive'
  BY <1>4 DEF Deactivate, Revoke
<1> HIDE DEF Inv, Shape, OneActive, Active
<1>5. CASE Keep
  BY <1>1, <1>2, <1>3, <1>4, <1>5 DEF Keep, RotateReads, RollbackReads, Opened, Retires,
     RetireResumes, TxFails, versions
<1>6. CASE Boot \/ LoseSalt
  BY <1>1, <1>6 DEF Boot, BootReads, BootSalts, BootDerives, BootVerifies, BootSamples, Down,
     LoseSalt, versions
<1>7. CASE Use
  BY <1>1, <1>7 DEF Use, PutEncrypts, PutWrites, Delete, Annotate, Holds, AskActive, versions
<1> QED
  BY <1>5, <1>6, <1>7 DEF Next

\* A salt is lost only while everybody is down.
LEMMA LiveKeysKept == Inv /\ Next => LiveKeys'
<1> SUFFICES ASSUME Inv, Next PROVE LiveKeys'
  OBVIOUS
<1> USE VaultBounds, NoneIsNoRow DEF Inv, Shape, LiveKeys
<1>1. CASE UNCHANGED bootvars
  BY <1>1 DEF bootvars
<1>2. ASSUME NEW p \in Procs, NEW f \in Phrases, BootReads(p, f) PROVE LiveKeys'
  BY <1>2 DEF BootReads
<1>3. ASSUME NEW p \in Procs, BootSalts(p) PROVE LiveKeys'
  BY <1>3 DEF BootSalts
<1>4. ASSUME NEW p \in Procs, BootDerives(p) PROVE LiveKeys'
  BY <1>4 DEF BootDerives
<1>5. ASSUME NEW p \in Procs, BootVerifies(p) \/ BootSamples(p) PROVE LiveKeys'
  BY <1>5 DEF BootVerifies, BootSamples
<1>6. ASSUME NEW p \in Procs, Down(p) PROVE LiveKeys'
  BY <1>6 DEF Down
<1>7. CASE LoseSalt
  BY <1>7 DEF LoseSalt
<1> HIDE DEF Inv, Shape, LiveKeys
<1> QED
  BY <1>1, <1>2, <1>3, <1>4, <1>5, <1>6, <1>7, KeepFrame DEF Next, Boot,
     Use, PutEncrypts, PutWrites, Delete, Annotate, Holds, AskActive

\* A put that is written when its process serves adds to the one key.
LEMMA OneKeyKept == Inv /\ Next => OneKey'
<1> SUFFICES ASSUME Inv, Next PROVE OneKey'
  OBVIOUS
<1>1. CASE UNCHANGED <<stage, kek, sentinel, row, crossed>>
  BY <1>1 DEF Inv, OneKey, Opens, Stored
<1>2. ASSUME NEW p \in Procs,
             (\E f \in Phrases : BootReads(p, f)) \/ BootSalts(p) \/ BootDerives(p) \/ Down(p)
      PROVE  OneKey'
  <2>1. UNCHANGED <<sentinel, row, crossed>>
    BY <1>2 DEF BootReads, BootSalts, BootDerives, Down
  <2>2. \A q \in Procs : stage'[q] = "up" => stage[q] = "up" /\ kek'[q] = kek[q]
    BY <1>2 DEF BootReads, BootSalts, BootDerives, Down, Inv, Shape
  <2> QED
    BY <2>1, <2>2 DEF Inv, OneKey, Opens, Stored
<1>3. ASSUME NEW p \in Procs, BootVerifies(p) \/ BootSamples(p), ~crossed' PROVE OneKey'
  <2>1. UNCHANGED <<sentinel, row, kek>> /\ ~crossed
    BY <1>3 DEF BootVerifies, BootSamples
  <2>2. CASE stage'[p] = "up"
    <3>1. ~Clashes(p)
      BY <1>3, <2>2 DEF BootVerifies, BootSamples, Inv, Shape
    <3>2. \A i \in Stored : row[i].kek = kek[p]
      BY <1>3, <2>1, <2>2, <3>1 DEF BootVerifies, BootSamples, SamplesAccept, Clashes, Opens,
         Inv, Shape, OneKey
    <3>3. \A q \in Procs : stage'[q] = "up" => q = p \/ stage[q] = "up"
      BY <1>3 DEF BootVerifies, BootSamples, Inv, Shape
    <3> QED
      BY <2>1, <3>1, <3>2, <3>3 DEF Inv, OneKey, Opens, Stored, Clashes
  <2>3. CASE stage'[p] # "up"
    <3>1. \A q \in Procs : stage'[q] = "up" => stage[q] = "up"
      BY <1>3, <2>3 DEF BootVerifies, BootSamples, Inv, Shape
    <3> QED
      BY <2>1, <3>1 DEF Inv, OneKey, Opens, Stored
  <2> QED
    BY <2>2, <2>3
<1>4. ASSUME NEW p \in Procs, NEW u \in Users, NEW R \in SUBSET Roles, NEW n \in Names,
             NEW m \in Metas, NEW w \in BOOLEAN, PutEncrypts(p, u, R, n, m, w)
      PROVE  OneKey'
  <2>1. stage[p] = "up" /\ UNCHANGED <<stage, kek, row, crossed>>
    BY <1>4 DEF PutEncrypts, Idle, bootvars
  <2>2. sentinel' \in {sentinel, kek[p]}
    BY <1>4 DEF PutEncrypts, SentinelOr
  <2>3. ~crossed => \A q \in Procs : stage[q] = "up" => kek[q] = kek[p]
    BY <2>1 DEF Inv, OneKey
  <2> QED
    BY <2>1, <2>2, <2>3 DEF Inv, OneKey, Opens, Stored
<1>5. ASSUME NEW p \in Procs, PutWrites(p) PROVE OneKey'
  <2>1. UNCHANGED <<stage, kek, sentinel, crossed>>
    BY <1>5 DEF PutWrites, bootvars
  <2>2. stage[p] = "up" /\ draft[p].kek = kek[p]
    BY <1>5 DEF PutWrites, Inv, Drafts
  <2>3. PICK i \in Ids, o \in Users : row' = [row EXCEPT ![i] = Wrapped(draft[p], o)]
    BY <1>5, PutEffect
  <2>4. ~crossed => \A k \in Stored' : row'[k].kek = kek[p]
    BY <2>2, <2>3 DEF Stored, Wrapped, Inv, Shape, OneKey, Opens
  <2>5. ~crossed => \A q \in Procs : stage[q] = "up" => kek[q] = kek[p]
    BY <2>2 DEF Inv, OneKey
  <2>6. ~crossed => sentinel \in {None, kek[p]}
    BY <2>2 DEF Inv, OneKey
  <2> QED
    BY <2>1, <2>4, <2>5, <2>6 DEF Inv, OneKey, Opens
<1>6. ASSUME NEW p \in Procs, NEW u \in Users, Delete(p, u) PROVE OneKey'
  <2>1. UNCHANGED <<stage, kek, sentinel, crossed>>
    BY <1>6 DEF Delete, bootvars
  <2>2. \A k \in Stored' : k \in Stored /\ row'[k] = row[k]
    BY <1>6 DEF Delete, Stored, Inv, Shape
  <2> QED
    BY <2>1, <2>2 DEF Inv, OneKey, Opens
<1>7. ASSUME NEW p \in Procs, NEW u \in Users, Annotate(p, u) PROVE OneKey'
  <2>1. UNCHANGED <<stage, kek, sentinel, crossed>>
    BY <1>7 DEF Annotate, bootvars
  <2>2. PICK i \in Stored : row' = [row EXCEPT ![i].meta = "shaped"]
    BY <1>7 DEF Annotate
  <2>3. row[i] \in Secret
    BY <2>2 DEF Stored, Inv, Shape
  <2>4. \A k \in Stored' : k \in Stored /\ row'[k].kek = row[k].kek
    BY <2>2, <2>3 DEF Stored, Inv, Shape, Secret
  <2> QED
    BY <2>1, <2>4 DEF Inv, OneKey, Opens
<1> QED
  <2>1. ASSUME NEW p \in Procs, BootVerifies(p) \/ BootSamples(p) PROVE OneKey'
    BY <1>3, <2>1 DEF OneKey
  <2> QED
    BY <1>1, <1>2, <2>1, <1>4, <1>5, <1>6, <1>7, KeepFrame DEF Next, Boot,
       LoseSalt, Use, Holds, AskActive, bootvars

\* A put under way stays with a process that serves.
LEMMA DraftsKept == Inv /\ Next => Drafts'
<1> SUFFICES ASSUME Inv, Next PROVE Drafts'
  OBVIOUS
<1> USE DEF Inv, Shape, Drafts
<1>1. CASE UNCHANGED <<stage, kek, draft>>
  BY <1>1
<1>2. ASSUME NEW p \in Procs,
             \/ \E f \in Phrases : BootReads(p, f)
             \/ BootSalts(p) \/ BootDerives(p) \/ BootVerifies(p) \/ BootSamples(p) \/ Down(p)
      PROVE  Drafts'
  BY <1>2 DEF BootReads, BootSalts, BootDerives, BootVerifies, BootSamples, Down
<1>3. ASSUME NEW p \in Procs, NEW u \in Users, NEW R \in SUBSET Roles, NEW n \in Names,
             NEW m \in Metas, NEW w \in BOOLEAN, PutEncrypts(p, u, R, n, m, w)
      PROVE  Drafts'
  BY <1>3 DEF PutEncrypts, Idle, bootvars
<1>4. ASSUME NEW p \in Procs, PutWrites(p) PROVE Drafts'
  BY <1>4 DEF PutWrites, bootvars
<1> HIDE DEF Inv, Shape, Drafts
<1> QED
  BY <1>1, <1>2, <1>3, <1>4, KeepFrame DEF Next, Boot,
     LoseSalt, Use, Delete, Annotate, Holds, AskActive, bootvars

\* Jobs are not deleted, and a rollback begins with a job that can be undone.
LEMMA RollbacksKept == Inv /\ Next => Rollbacks'
<1> SUFFICES ASSUME Inv, Next PROVE Rollbacks'
  OBVIOUS
<1> USE DEF Inv, Shape, Rollbacks
<1>1. CASE UNCHANGED <<tx, jobs>>
  BY <1>1
<1>2. ASSUME NEW p \in Procs, Down(p) \/ TxFails(p) PROVE Rollbacks'
  BY <1>2 DEF Down, TxFails, versions
<1>3. ASSUME NEW p \in Procs, RotateReads(p) PROVE Rollbacks'
  BY <1>3 DEF RotateReads, Opened, versions
<1>4. ASSUME NEW p \in Procs, NEW j \in 1..Len(jobs), RollbackReads(p, j) PROVE Rollbacks'
  BY <1>4 DEF RollbackReads, Undoable, Opened, versions
<1>5. ASSUME NEW p \in Procs, Retires(p) \/ RetireResumes(p) PROVE Rollbacks'
  <2>1. tx[p] \in Tx /\ UNCHANGED jobs
    BY <1>5 DEF Retires, RetireResumes, versions
  <2>2. tx'[p].job = tx[p].job /\ tx'[p].old = tx[p].old
    <3>1. \A R, ph : LET t == [tx[p] EXCEPT !.rows = R, !.phase = ph]
                    IN t.job = tx[p].job /\ t.old = tx[p].old
      BY <2>1 DEF Tx
    <3>2. CASE Retires(p)
      <4>1. tx'[p] = [tx[p] EXCEPT !.rows = Active,
                        !.phase = IF Active \cap Locked(p) = {} THEN "locked" ELSE "queued"]
        BY <3>2 DEF Retires
      <4> QED
        BY <3>1, <4>1
    <3>3. CASE RetireResumes(p)
      <4>1. tx'[p] = [tx[p] EXCEPT !.rows = tx[p].rows \cap Active, !.phase = "locked"]
        BY <3>3 DEF RetireResumes
      <4> QED
        BY <3>1, <4>1
    <3> QED
      BY <1>5, <3>2, <3>3
  <2>3. \A q \in Procs \ {p} : tx'[q] = tx[q]
    BY <1>5 DEF Retires, RetireResumes
  <2>4. tx[p] # None
    BY <1>5 DEF Retires, RetireResumes
  <2> QED
    BY <2>1, <2>2, <2>3, <2>4
<1>6. ASSUME NEW p \in Procs, NEW v \in Vers, RotateCommits(p, v) PROVE Rollbacks'
  <2>1. Len(jobs') = Len(jobs) + 1 /\ Len(jobs) \in Nat
    BY <1>6 DEF RotateCommits
  <2>2. \A q \in Procs : tx'[q] = None \/ tx'[q] = tx[q]
    BY <1>6 DEF RotateCommits
  <2> QED
    BY <2>1, <2>2
<1>7. ASSUME NEW p \in Procs, RollbackCommits(p) PROVE Rollbacks'
  <2>1. Len(jobs') = Len(jobs)
    BY <1>7 DEF RollbackCommits
  <2>2. \A q \in Procs : tx'[q] = None \/ tx'[q] = tx[q]
    BY <1>7 DEF RollbackCommits
  <2> QED
    BY <2>1, <2>2
<1> HIDE DEF Inv, Shape, Rollbacks
<1> QED
  BY <1>1, <1>2, <1>3, <1>4, <1>5, <1>6, <1>7 DEF Next, Boot, BootReads, BootSalts, BootDerives,
     BootVerifies, BootSamples, LoseSalt, Use, PutEncrypts, PutWrites, Delete, Annotate, Holds,
     AskActive, Keep, Deactivate, Revoke, versions

-----------------------------------------------------------------------------
(* The theorems. *)

LEMMA NextInv == Inv /\ [Next]_vars => Inv'
<1> SUFFICES ASSUME Inv, [Next]_vars PROVE Inv'
  OBVIOUS
<1>1. CASE Next
  <2>1. Shape'
    BY <1>1, BootKeepsShape, UseKeepsShape, KeepKeepsShape DEF Next
  <2> QED
    BY <1>1, <2>1, OwnersKept, VersionsKept, LiveKeysKept, OneKeyKept, DraftsKept,
       RollbacksKept DEF Inv
<1>2. CASE UNCHANGED vars
  BY <1>2 DEF vars, bootvars, versions, Inv, Shape, OneRowEach, OneActive, LiveKeys, OneKey, Drafts,
     Rollbacks, Stored, Active, Opens
<1> QED
  BY <1>1, <1>2

LEMMA Invariance == Spec => []Inv
BY InitInv, NextInv, PTL DEF Spec

\* Types, one row per owner without the database's constraint (Core.put), and
\* one active version through the partial unique index, however the rotations
\* and rollbacks of any number of processes interleave.
THEOREM TypeCorrect == Spec => []TypeOK
BY Invariance, InvIsTyped, PTL

\* verify_kek_sentinel and ensure_kek_salt: a process that serves opens every
\* stored secret, for any number of processes, each with a passphrase of its
\* own at each start, as long as none was let in beside another key.
THEOREM ServedSecretsOpen == Spec => []AllReadable
<1>1. Inv => AllReadable
  BY DEF Inv, OneKey, AllReadable
<1> QED
  BY <1>1, Invariance, PTL

\* Core.put replaces what Core.get resolves: an author reads what was written.
THEOREM AuthorsReadTheirWrites == Spec => ReadYourWrite
<1>1. ASSUME Inv, Next, NEW p \in Procs, NEW d, d = draft[p], d # None, draft'[p] = None, row' # row
      PROVE  \E i \in Got(d.user, d.roles)' : row'[i] = Wrapped(d, row'[i].owner)
  <2>1. PICK q \in Procs : PutWrites(q) \/ \E u \in Users : Delete(q, u) \/ Annotate(q, u)
    BY <1>1, KeepFrame DEF Next, bootvars, Boot, BootReads, BootSalts, BootDerives, BootVerifies, BootSamples, Down,
       LoseSalt, Use, PutEncrypts, Holds, AskActive
  <2>2. PutWrites(p)
    BY <1>1, <2>1 DEF PutWrites, Delete, Annotate, Idle, Inv, Shape
  <2>3. PICK i \in Ids, o \in Users :
           /\ row' = [row EXCEPT ![i] = Wrapped(d, o)]
           /\ \/ i \in Got(d.user, d.roles) /\ row[i].owner = o
              \/ /\ Visible(d.user, d.roles) = {}
                 /\ i \notin Stored
                 /\ o = d.user
    BY <1>1, <2>2, PutEffect
  <2>4. row'[i] = Wrapped(d, o) /\ row'[i] = Wrapped(d, row'[i].owner)
    BY <1>1, <2>3 DEF Wrapped, Inv, Shape
  <2>5. row'[i] \in Secret
    <3>1. d \in Draft
      BY <1>1 DEF Inv, Shape
    <3> QED
      BY <2>4, <3>1 DEF Wrapped, Draft, Secret
  <2>6. i \in Stored' /\ \A k \in Ids \ {i} : row'[k] = row[k]
    BY <1>1, <2>3, <2>5, NoneIsNoRow DEF Stored, Inv, Shape
  <2>7. row'[i].scope \cap d.roles # {}
    BY <1>1, <2>4 DEF Wrapped, Inv, Drafts
  <2>8. i \in Visible(d.user, d.roles)'
    BY <2>6, <2>7 DEF Visible
  <2>9. Visible(d.user, d.roles)' \ {i} \subseteq Visible(d.user, d.roles)
    BY <2>6 DEF Visible, Stored
  <2>10. i \in First(Visible(d.user, d.roles)')
    <3>1. CASE i \in Got(d.user, d.roles)
      BY <3>1, <2>8, <2>9, VaultBounds DEF Got, First, Ids
    <3>2. CASE Visible(d.user, d.roles) = {}
      BY <3>2, <2>8, <2>9, VaultBounds DEF First, Ids
    <3> QED
      BY <2>3, <3>1, <3>2
  <2> QED
    BY <2>4, <2>10 DEF Got
<1>2. Inv /\ [Next]_vars =>
        [\A p \in Procs : \A d \in {draft[p]} : d # None /\ draft'[p] = None /\ row' # row =>
           \E i \in Got(d.user, d.roles)' : row'[i] = Wrapped(d, row'[i].owner)]_vars
  BY <1>1
<1> QED
  BY <1>2, Invariance, PTL DEF ReadYourWrite, Spec

=============================================================================
