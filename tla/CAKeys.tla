------------------------------- MODULE CAKeys -------------------------------
(***************************************************************************)
(* The directory of the admin CA: its private key and its certificate, two *)
(* files that are written one after the other, and what the operator keeps *)
(* of the key elsewhere, an encrypted backup and Shamir shares.            *)
(*                                                                         *)
(* A key is known by the generation of its pair; it is at rest encrypted   *)
(* under the core's passphrase, or in the clear after a restore without    *)
(* it.  Every command of the operator may be cut short between two writes; *)
(* a file is replaced as a whole.  One command runs at a time.             *)
(***************************************************************************)
EXTENDS FiniteSets, Naturals, Sequences

CONSTANTS None,
          MaxShares, \* bound on the share files of a split
          Cuts,      \* the thresholds and numbers of shares an operator may ask for
          MaxGens,   \* bound on the key pairs ever generated
          MaxSplits, \* bound on the splits ever begun
          Steps      \* bound on what operators do, on accidents and restarts

\* split refuses a threshold below 2 or above the number of shares.
ASSUME Splittable == /\ MaxShares \in Nat
                     /\ Cuts \subseteq {c \in [need : 2..MaxShares, of : 2..MaxShares] : c.need <= c.of}

ASSUME CABounds == MaxGens \in Nat /\ MaxSplits \in Nat /\ Steps \in Nat

VARIABLES
    key,     \* admin-ca.key
    crt,     \* admin-ca.crt, the generation it certifies
    made,    \* key pairs generated so far
    making,  \* the pair of an initialization between its two writes
    backup,  \* the generation in the encrypted backup file
    share,   \* the split a share file was written by, 0 for none
    splits,  \* the generation each split was made of, and how
    cutting, \* the next share a running split writes
    whole,   \* the last split that was completed, 0 for none
    steps

cafiles == <<key, crt, made, making>>
custody == <<backup, share, splits, cutting, whole>>
cavars  == <<cafiles, custody, steps>>

Gens    == 1..MaxGens
ShareId == 1..MaxShares
SplitOf == [gen : Gens, cut : Cuts]
KeyFile == [gen : Gens, enc : BOOLEAN]

InitCA == /\ key = None /\ crt = None
          /\ made = 0 /\ making = None
          /\ backup = None
          /\ share = [i \in ShareId |-> 0]
          /\ splits = <<>>
          /\ cutting = None
          /\ whole = 0
          /\ steps = 0

Counted == steps < Steps /\ steps' = steps + 1
Idle    == making = None /\ cutting = None

-----------------------------------------------------------------------------
(* The pair of files. *)

HasCa == key # None /\ crt # None

\* The first of the two writes: a new key, encrypted.
WritesKey == /\ made < MaxGens
             /\ made' = made + 1
             /\ key' = [gen |-> made', enc |-> TRUE]
             /\ making' = made'

\* AdminCAManager.initialize, which the installer calls.
Initialize == /\ Counted /\ Idle
              /\ ~HasCa
              /\ WritesKey
              /\ UNCHANGED <<crt, custody>>

\* cmd_admin_init_admin_ca looks at the key alone.
InitAdminCa == /\ Counted /\ Idle
               /\ key = None
               /\ WritesKey
               /\ UNCHANGED <<crt, custody>>

\* The second write.
WritesCrt == /\ making # None
             /\ crt' = making
             /\ making' = None
             /\ UNCHANGED <<key, made, custody, steps>>

\* The key file is lost.
LoseKey == /\ Counted /\ Idle
           /\ key # None
           /\ key' = None
           /\ UNCHANGED <<crt, made, making, custody>>

\* _deserialize_key: the core has a passphrase, so a key in the clear is refused.
Deserializes == key.enc

\* _load_ca_key
Loads == HasCa /\ Deserializes

-----------------------------------------------------------------------------
(* Custody. *)

\* cmd_admin_export_ca_key
Export == /\ Counted /\ Idle
          /\ key # None
          /\ backup' = key.gen
          /\ UNCHANGED <<cafiles, share, splits, cutting, whole>>

\* cmd_admin_split_ca_key: split with the arguments of this call, and a fresh
\* polynomial each time.
Split(c) == /\ Counted /\ Idle
            /\ key # None
            /\ Len(splits) < MaxSplits
            /\ splits' = Append(splits, [gen |-> key.gen, cut |-> c])
            /\ cutting' = 1
            /\ UNCHANGED <<cafiles, backup, share, whole>>

\* The last share file of the running split.
Last == splits[Len(splits)].cut.of

\* Mutation: the directory is emptied before the first share.
WritesShareAfresh ==
    /\ cutting # None
    /\ share' = [i \in ShareId |-> IF i = cutting THEN Len(splits)
                                   ELSE IF cutting = 1 THEN 0 ELSE share[i]]
    /\ cutting' = IF cutting = Last THEN None ELSE cutting + 1
    /\ whole' = IF cutting = Last THEN Len(splits) ELSE whole
    /\ UNCHANGED <<cafiles, backup, splits, steps>>

\* The shares replace the files of an earlier split one by one; files beyond
\* the last of this split stay.
WritesShare ==
    /\ cutting # None
    /\ share' = [share EXCEPT ![cutting] = Len(splits)]
    /\ cutting' = IF cutting = Last THEN None ELSE cutting + 1
    /\ whole' = IF cutting = Last THEN Len(splits) ELSE whole
    /\ UNCHANGED <<cafiles, backup, splits, steps>>

\* The command is cut short.
CutShort == /\ ~Idle
            /\ making' = None
            /\ cutting' = None
            /\ UNCHANGED <<key, crt, made, backup, share, splits, whole, steps>>

\* combine: enough shares, and the checksum tells shares of different splits.
Combines(S, n) == /\ n \in 1..Len(splits)
                  /\ Cardinality(S) >= splits[n].cut.need
                  /\ \A i \in S : share[i] = n

\* restore_at_rest_bytes: an encrypted key that is there is replaced by an
\* encrypted one, for which its passphrase is needed; one in the clear by one
\* in the clear; where there is none, the passphrase decides.
AtRest(passphrase) == {e \in BOOLEAN : IF key = None THEN e = passphrase
                                       ELSE e = key.enc /\ (e => passphrase)}

\* _decrypt_ca_backup
FromBackup(g) == backup # None /\ g = backup

FromShares(g) == \E S \in SUBSET ShareId, n \in 1..MaxSplits : Combines(S, n) /\ g = splits[n].gen

\* cmd_admin_restore_ca_key.  The certificate beside the key is not looked at.
Restore(g, passphrase) ==
    /\ Counted /\ Idle
    /\ FromBackup(g) \/ FromShares(g)
    /\ \E e \in AtRest(passphrase) : key' = [gen |-> g, enc |-> e]
    /\ UNCHANGED <<crt, made, making, custody>>

-----------------------------------------------------------------------------
NextCA == \/ Initialize \/ InitAdminCa \/ WritesCrt \/ LoseKey
          \/ Export \/ (\E c \in Cuts : Split(c)) \/ WritesShare \/ CutShort
          \/ \E g \in Gens, p \in BOOLEAN : Restore(g, p)

TypeCA ==
    /\ key \in KeyFile \cup {None}
    /\ crt \in Gens \cup {None}
    /\ made \in 0..MaxGens /\ making \in Gens \cup {None}
    /\ backup \in Gens \cup {None}
    /\ share \in [ShareId -> 0..Len(splits)]
    /\ splits \in Seq(SplitOf) /\ Len(splits) <= MaxSplits
    /\ cutting \in ShareId \cup {None}
    /\ whole \in 0..Len(splits) /\ steps \in 0..Steps

\* Splits that were begun after the last completed one.
Begun == Len(splits) - whole

\* No split since the last completed one asked for more than t shares.
NeedAtMost(t) == \A n \in whole..Len(splits) : splits[n].cut.need <= t

\* cmd_admin_split_ca_key: once a split was completed, the share files rebuild
\* a key of this CA however later splits over the same directory are cut
\* short, with whatever threshold and number of shares they were begun, as
\* long as the completed split's files cannot be spread so thin over the
\* splits that none has its threshold of them: one cut with two of three, two
\* with two of four.
SharesRecover ==
    \A t \in 2..MaxShares :
        whole # 0 /\ NeedAtMost(t) /\ (Begun + 1) * (t - 1) < splits[whole].cut.of =>
            \E S \in SUBSET ShareId, n \in 1..MaxSplits : Combines(S, n)

=============================================================================
