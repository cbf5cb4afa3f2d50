-------------------------------- MODULE Vault --------------------------------
(***************************************************************************)
(* The secret store: core processes that share one database, the key that  *)
(* wraps what they store, and the versions that label it.                  *)
(*                                                                         *)
(* The key-encryption key is derived at start from the passphrase the      *)
(* process was configured with and a salt in the database, drawn by        *)
(* whoever starts first.  Nothing compares the passphrases of two          *)
(* processes, and nothing in a stored row says which key wrapped it: a     *)
(* sentinel, written beside the first secret, is what a later start        *)
(* compares its key with.                                                  *)
(* One secret name is modelled; users who cannot see each other's row of   *)
(* that name have a row each.  Key versions are labels under a single key; *)
(* a rotation or a rollback is a transaction of one process, read          *)
(* committed, beside those of the others.                                  *)
(***************************************************************************)
EXTENDS FiniteSets, Naturals, Sequences

CONSTANTS Procs,    \* core processes
          Users,
          Roles,
          Vers,     \* key versions
          Phrases,  \* passphrases the operator may configure
          None,
          MaxRows,  \* bound on the rows ever inserted
          MaxSalts, \* bound on the salts ever drawn
          Steps     \* bound on starts, mishaps and what administrators do

VARIABLES
    phrase,    \* the passphrase a process was started with
    stage,     \* how far a process's start has come
    kek,       \* KekCache of a process
    salt,      \* venya_config.kek_salt, 0 where there is no row
    drawn,     \* salts drawn so far
    sentinel,  \* the key kek_sentinel was wrapped with
    crossed,   \* history: a process was let in beside another key
    row,       \* secrets, by id
    holds,     \* the roles of a user
    draft,     \* a put that is encrypted and not yet written
    seen,      \* the active version the clients last asked for
    ver,       \* key_versions
    jobs,      \* key_rotation_jobs, oldest first
    tx,        \* a process's open rotation or rollback
    steps

bootvars == <<phrase, stage, kek, salt, drawn, crossed>>
versions == <<ver, jobs>>
vars     == <<bootvars, sentinel, row, holds, draft, seen, versions, tx, steps>>

Keks   == Phrases \X (1..MaxSalts)
Ids    == 1..MaxRows
\* What a secret says of its version: the label that the active version is
\* announced by, or the id an operator typed.
Names  == {"label", "id"} \X Vers
Metas  == {"none", "shaped"}
Secret == [owner : Users, writer : Users, kek : Keks, ver : Names, scope : SUBSET Roles,
           meta : Metas]
Draft  == [user : Users, roles : SUBSET Roles, kek : Keks, ver : Names, scope : SUBSET Roles,
           meta : Metas]
Job    == [old : Vers \cup {None}, new : Vers, status : {"completed", "rolled_back"}]
\* job 0 is a rotation, another number the job that is rolled back; rows are
\* the versions its UPDATE waits for or has locked.
Tx     == [job : Nat, old : Vers \cup {None}, phase : {"read", "queued", "locked"},
           rows : SUBSET Vers]

\* The bounds are numbers, and the empty place of a row, a passphrase or a
\* version is none of them.
ASSUME VaultBounds == MaxRows \in Nat /\ MaxSalts \in Nat /\ Steps \in Nat
ASSUME NoneIsNoRow == None \notin Secret /\ None \notin Phrases /\ None \notin Vers

Stored == {i \in Ids : row[i] # None}
Counted == steps < Steps /\ steps' = steps + 1

Init == /\ phrase = [p \in Procs |-> None]
        /\ stage = [p \in Procs |-> "down"]
        /\ kek = [p \in Procs |-> None]
        /\ salt = 0 /\ drawn = 0
        /\ sentinel = None
        /\ crossed = FALSE
        /\ row = [i \in Ids |-> None]
        /\ holds = [u \in Users |-> Roles]
        /\ draft = [p \in Procs |-> None]
        /\ seen = None
        /\ ver = [v \in Vers |-> "none"]
        /\ jobs = <<>>
        /\ tx = [p \in Procs |-> None]
        /\ steps = 0

-----------------------------------------------------------------------------
(* Starting a process. *)

\* derive_kek: Argon2 of the passphrase and the salt.
Derived(p) == <<phrase[p], salt>>

\* decrypt_secret: the envelope opens under the key that wrapped it only.
Opens(k, i) == row[i].kek = k

\* Core._require_kek
Held(p) == kek[p] # None

\* ensure_kek_salt: a salt that is missing beside stored secrets is an error.
SaltUsable == salt # 0 \/ Stored = {}

\* A process starts with the passphrase f that its environment holds now, and
\* bootstrap_kek reads the salt.
BootReads(p, f) ==
    /\ Counted
    /\ stage[p] = "down"
    /\ SaltUsable
    /\ phrase' = [phrase EXCEPT ![p] = f]
    /\ stage' = [stage EXCEPT ![p] = IF salt = 0 THEN "salting" ELSE "salted"]
    /\ UNCHANGED <<kek, salt, drawn, crossed, sentinel, row, holds, draft, seen, versions, tx>>

\* A fresh salt is inserted; the loser of a race adopts the winner's.
BootSalts(p) ==
    /\ stage[p] = "salting"
    /\ stage' = [stage EXCEPT ![p] = "salted"]
    /\ IF salt = 0
       THEN /\ drawn < MaxSalts
            /\ drawn' = drawn + 1
            /\ salt' = drawn'
       ELSE UNCHANGED <<salt, drawn>>
    /\ UNCHANGED <<phrase, kek, crossed, sentinel, row, holds, draft, seen, versions, tx, steps>>

\* derive_kek, KekCache.populate
BootDerives(p) ==
    /\ stage[p] = "salted"
    /\ kek' = [kek EXCEPT ![p] = Derived(p)]
    /\ stage' = [stage EXCEPT ![p] = "keyed"]
    /\ UNCHANGED <<phrase, salt, drawn, crossed, sentinel, row, holds, draft, seen, versions, tx, steps>>

\* The other keys a process comes to serve beside: that of a process which
\* serves already, or of a sentinel minted since it looked for one.
Clashes(p) == \/ sentinel \notin {None, kek[p]}
              \/ \E q \in Procs : stage[q] = "up" /\ kek[q] # kek[p]

\* verify_kek_sentinel reads the sentinel, which decides if it is there.
BootVerifies(p) ==
    /\ stage[p] = "keyed"
    /\ sentinel \in {None, kek[p]}
    /\ stage' = [stage EXCEPT ![p] = IF sentinel = None THEN "sampling" ELSE "up"]
    /\ crossed' = (crossed \/ (sentinel # None /\ Clashes(p)))
    /\ UNCHANGED <<phrase, kek, salt, drawn, sentinel, row, holds, draft, seen, versions, tx, steps>>

\* Mutation: without a sentinel the start is taken for a first one.
AnySample(k) == TRUE

\* Without a sentinel some stored envelope must open, or there must be none.
SamplesAccept(k) == Stored = {} \/ \E i \in Stored : Opens(k, i)

\* verify_kek_sentinel goes on to the stored envelopes: LEGACY_OK, FRESH_EMPTY.
BootSamples(p) ==
    /\ stage[p] = "sampling"
    /\ SamplesAccept(kek[p])
    /\ stage' = [stage EXCEPT ![p] = "up"]
    /\ crossed' = (crossed \/ Clashes(p))
    /\ UNCHANGED <<phrase, kek, salt, drawn, sentinel, row, holds, draft, seen, versions, tx, steps>>

\* The process ends: it refuses to start, is stopped or dies.  KekCache is
\* released, an unwritten put is lost, an open transaction rolled back.
Down(p) ==
    /\ stage[p] # "down"
    /\ stage' = [stage EXCEPT ![p] = "down"]
    /\ phrase' = [phrase EXCEPT ![p] = None]
    /\ kek' = [kek EXCEPT ![p] = None]
    /\ draft' = [draft EXCEPT ![p] = None]
    /\ tx' = [tx EXCEPT ![p] = None]
    /\ UNCHANGED <<salt, drawn, crossed, sentinel, row, holds, seen, versions, steps>>

\* The database loses the salt, with every process stopped: a partial restore.
LoseSalt ==
    /\ Counted
    /\ \A p \in Procs : stage[p] = "down"
    /\ salt # 0
    /\ salt' = 0
    /\ UNCHANGED <<phrase, stage, kek, drawn, crossed, sentinel, row, holds, draft, seen, versions, tx>>

\* A handler of p may begin: handlers run on the loop one after the other.
Idle(p) == stage[p] = "up" /\ draft[p] = None /\ tx[p] = None

-----------------------------------------------------------------------------
(* Secrets. *)

\* _resolve_secret_in: the first row by id that the user made or that a role
\* of the user is in the scope of.
Visible(u, R) == {i \in Stored : row[i].owner = u \/ row[i].scope \cap R # {}}
First(S)      == {i \in S : \A j \in S : i <= j}

\* Core.get reads that row.
Got(u, R) == First(Visible(u, R))

\* Mutation: only the caller's own row is replaced.
OwnRow(u, R) == First({i \in Stored : row[i].owner = u})

\* What put replaces: exactly what get would return.
Replaced(u, R) == Got(u, R)

\* The row that stands for a draft, owned by o.
Wrapped(d, o) == [owner |-> o, writer |-> d.user, kek |-> d.kek, ver |-> d.ver,
                  scope |-> d.scope, meta |-> d.meta]

\* ensure_kek_sentinel: the first one stays.
SentinelOr(k) == IF sentinel = None THEN k ELSE sentinel

\* Core.encrypt wraps under the cached key and then writes the sentinel; a
\* failure to write it is logged and forgotten.
PutEncrypts(p, u, R, n, m, wrote) ==
    /\ Idle(p)
    /\ Held(p)
    /\ R # {} /\ R \subseteq holds[u]
    /\ \/ n = <<"label", seen>>
       \/ n[1] = "id" /\ ver[n[2]] # "none"
    /\ draft' = [draft EXCEPT ![p] = [user |-> u, roles |-> holds[u], kek |-> kek[p],
                                      ver |-> n, scope |-> R, meta |-> m]]
    /\ sentinel' = IF wrote THEN SentinelOr(kek[p]) ELSE sentinel
    /\ UNCHANGED <<bootvars, row, holds, seen, versions, tx, steps>>

\* Core.put under the advisory lock of the name: the row is replaced in place
\* and keeps its owner, or a new one is inserted.
PutWrites(p) ==
    LET d == draft[p] IN
    /\ d # None
    /\ \/ \E i \in Replaced(d.user, d.roles) : row' = [row EXCEPT ![i] = Wrapped(d, @.owner)]
       \/ /\ Replaced(d.user, d.roles) = {}
          /\ \E i \in First({j \in Ids : \A k \in Stored : k < j}) :
               row' = [row EXCEPT ![i] = Wrapped(d, d.user)]
    /\ draft' = [draft EXCEPT ![p] = None]
    /\ UNCHANGED <<bootvars, sentinel, holds, seen, versions, tx, steps>>

\* Core.delete: the caller's own row, with its scopes and bindings.
Delete(p, u) ==
    /\ Idle(p)
    /\ \E i \in Stored : row[i].owner = u /\ row' = [row EXCEPT ![i] = None]
    /\ UNCHANGED <<bootvars, sentinel, holds, draft, seen, versions, tx, steps>>

\* update_secret_metadata merges into the caller's own row, if the caller
\* can read the name at all.
Annotate(p, u) ==
    /\ Idle(p)
    /\ Got(u, holds[u]) # {}
    /\ \E i \in Stored : row[i].owner = u /\ row' = [row EXCEPT ![i].meta = "shaped"]
    /\ UNCHANGED <<bootvars, sentinel, holds, draft, seen, versions, tx, steps>>

\* A user gains or loses a role.
Holds(u, R) == /\ Counted
               /\ R # holds[u]
               /\ holds' = [holds EXCEPT ![u] = R]
               /\ UNCHANGED <<bootvars, sentinel, row, draft, seen, versions, tx>>

-----------------------------------------------------------------------------
(* Key versions. *)

Active == {v \in Vers : ver[v] = "active"}

\* Rows that other processes' open transactions have updated.
Locked(p) == UNION {tx[q].rows : q \in {q \in Procs \ {p} : tx[q] # None /\ tx[q].phase = "locked"}}

\* A handler of p has done its reads.
Opened(p, j, old) ==
    /\ Counted
    /\ Idle(p)
    /\ tx' = [tx EXCEPT ![p] = [job |-> j, old |-> old, phase |-> "read", rows |-> {}]]
    /\ UNCHANGED <<bootvars, sentinel, row, holds, draft, seen, versions>>

\* admin_key_version_rotate, admin_key_rotation: the version to be replaced.
RotateReads(p) == \E old \in IF Active = {} THEN {None} ELSE Active : Opened(p, 0, old)

\* _rollback_key_rotation: the latest job, if it is completed and replaced a
\* version that still exists.
Undoable(j) == /\ j = Len(jobs)
               /\ jobs[j].status = "completed"
               /\ jobs[j].old # None
               /\ ver[jobs[j].old] # "none"

\* admin_key_version_rollback, admin_key_rotation_job_rollback.  A version that
\* was active when it was read will not be written again: setting the loaded
\* object's attribute to the value it has is no change.
RollbackReads(p, j) ==
    /\ Undoable(j)
    /\ Opened(p, j, IF ver[jobs[j].old] = "active" THEN None ELSE jobs[j].old)

\* UPDATE key_versions SET active = false WHERE active: the rows that are active
\* when the statement starts, which waits for those that others have updated.
Retires(p) ==
    /\ tx[p] # None /\ tx[p].phase = "read"
    /\ tx' = [tx EXCEPT ![p] = [@ EXCEPT !.rows = Active,
                !.phase = IF Active \cap Locked(p) = {} THEN "locked" ELSE "queued"]]
    /\ UNCHANGED <<bootvars, sentinel, row, holds, draft, seen, versions, steps>>

\* The others are through: the rows it waited for are looked at again.
RetireResumes(p) ==
    /\ tx[p] # None /\ tx[p].phase = "queued"
    /\ tx[p].rows \cap Locked(p) = {}
    /\ tx' = [tx EXCEPT ![p] = [@ EXCEPT !.rows = tx[p].rows \cap Active, !.phase = "locked"]]
    /\ UNCHANGED <<bootvars, sentinel, row, holds, draft, seen, versions, steps>>

\* Mutation: the index is not unique.
NoIndex(p, v) == v \notin Locked(p)

\* uq_key_versions_single_active lets p activate v beside what it retired, and
\* no other transaction holds the row.
IndexAllows(p, v) == Active \subseteq tx[p].rows \cup {v} /\ v \notin Locked(p)

\* What p's transaction leaves with v active.
Activated(p, v) == [u \in Vers |-> IF u = v THEN "active"
                                  ELSE IF u \in tx[p].rows THEN "inactive" ELSE ver[u]]

\* A new version is inserted, active, and its job with the version that was read.
RotateCommits(p, v) ==
    /\ tx[p] # None /\ tx[p].phase = "locked" /\ tx[p].job = 0
    /\ ver[v] = "none" /\ \A j \in 1..Len(jobs) : jobs[j].new # v
    /\ IndexAllows(p, v)
    /\ ver' = Activated(p, v)
    /\ jobs' = Append(jobs, [old |-> tx[p].old, new |-> v, status |-> "completed"])
    /\ tx' = [tx EXCEPT ![p] = None]
    /\ UNCHANGED <<bootvars, sentinel, row, holds, draft, seen, steps>>

\* The prior version is activated, if it still has a row, and the job is marked.
RollbackCommits(p) ==
    /\ tx[p] # None /\ tx[p].phase = "locked" /\ tx[p].job # 0
    /\ tx[p].old # None => ver[tx[p].old] # "none" /\ IndexAllows(p, tx[p].old)
    /\ ver' = Activated(p, tx[p].old)
    /\ jobs' = [jobs EXCEPT ![tx[p].job].status = "rolled_back"]
    /\ tx' = [tx EXCEPT ![p] = None]
    /\ UNCHANGED <<bootvars, sentinel, row, holds, draft, seen, steps>>

\* IntegrityError (409 for a rotation), a row that is gone, a statement that
\* times out: get_db rolls back.
TxFails(p) ==
    /\ tx[p] # None
    /\ tx' = [tx EXCEPT ![p] = None]
    /\ UNCHANGED <<bootvars, sentinel, row, holds, draft, seen, versions, steps>>

\* admin_key_version_deactivate
Deactivate(p, v) ==
    /\ Counted
    /\ Idle(p)
    /\ ver[v] # "none" /\ v \notin Locked(p)
    /\ ver' = [ver EXCEPT ![v] = "inactive"]
    /\ UNCHANGED <<bootvars, sentinel, row, holds, draft, seen, jobs, tx>>

\* admin_key_version_revoke counts the secrets that name the version's id.
InUse(v) == \E i \in Stored : row[i].ver = <<"id", v>>

Revoke(p, v) ==
    /\ Counted
    /\ Idle(p)
    /\ ver[v] # "none" /\ v \notin Locked(p)
    /\ ~InUse(v)
    /\ ver' = [ver EXCEPT ![v] = "none"]
    /\ UNCHANGED <<bootvars, sentinel, row, holds, draft, seen, jobs, tx>>

\* get_active_key_version answers with the label; the client stores under it
\* later.
AskActive(p) == /\ Idle(p)
                /\ \E v \in Active : seen' = v
                /\ UNCHANGED <<bootvars, sentinel, row, holds, draft, versions, tx, steps>>

-----------------------------------------------------------------------------
Boot == \E p \in Procs : \/ \E f \in Phrases : BootReads(p, f)
                         \/ BootSalts(p) \/ BootDerives(p)
                         \/ BootVerifies(p) \/ BootSamples(p) \/ Down(p)

Use == \/ \E p \in Procs, u \in Users :
            \/ \E R \in SUBSET Roles, n \in Names, m \in Metas, w \in BOOLEAN :
                 PutEncrypts(p, u, R, n, m, w)
            \/ Delete(p, u)
            \/ Annotate(p, u)
       \/ \E p \in Procs : PutWrites(p) \/ AskActive(p)
       \/ \E u \in Users, R \in SUBSET Roles : Holds(u, R)

Keep == \E p \in Procs :
            \/ RotateReads(p)
            \/ \E j \in 1..Len(jobs) : RollbackReads(p, j)
            \/ Retires(p) \/ RetireResumes(p)
            \/ \E v \in Vers : RotateCommits(p, v)
            \/ RollbackCommits(p) \/ TxFails(p)
            \/ \E v \in Vers : Deactivate(p, v) \/ Revoke(p, v)

Next == Boot \/ LoseSalt \/ Use \/ Keep

Spec == Init /\ [][Next]_vars

-----------------------------------------------------------------------------
(* Properties. *)

\* Types, one row per owner (uq_secrets_key_created_by) and at most one active
\* version: the partial unique index uq_key_versions_single_active keeps that
\* through transactions of several processes, at their commits.
TypeOK ==
    /\ phrase \in [Procs -> Phrases \cup {None}]
    /\ stage \in [Procs -> {"down", "salting", "salted", "keyed", "sampling", "up"}]
    /\ kek \in [Procs -> Keks \cup {None}]
    /\ salt \in 0..drawn /\ drawn \in 0..MaxSalts
    /\ sentinel \in Keks \cup {None}
    /\ crossed \in BOOLEAN
    /\ row \in [Ids -> Secret \cup {None}]
    /\ \A i, j \in Stored : row[i].owner = row[j].owner => i = j
    /\ holds \in [Users -> SUBSET Roles]
    /\ draft \in [Procs -> Draft \cup {None}]
    /\ seen \in Vers \cup {None}
    /\ ver \in [Vers -> {"none", "inactive", "active"}]
    /\ Cardinality(Active) <= 1
    /\ jobs \in Seq(Job) /\ tx \in [Procs -> Tx \cup {None}]
    /\ steps \in 0..Steps

\* A process that serves can open every stored secret: racing first starts, a
\* lost sentinel, a crash inside the first put, starts with another passphrase
\* and a lost salt never lead to rows that its key does not unwrap.  The one
\* excuse is a process that was let in beside another key, on a database that
\* held neither a sentinel nor a secret to tell it by (FRESH_EMPTY).
AllReadable ==
    ~crossed => \A p \in Procs, i \in Stored : stage[p] = "up" => Opens(kek[p], i)

\* Core.put: what a user stores is what the user then reads, whoever else has
\* a row of that name; no older row is left in front of it.
ReadYourWrite ==
    [][\A p \in Procs : \A d \in {draft[p]} : d # None /\ draft'[p] = None /\ row' # row =>
         \E i \in Got(d.user, d.roles)' : row'[i] = Wrapped(d, row'[i].owner)]_vars

=============================================================================
