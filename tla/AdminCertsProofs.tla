-------------------------- MODULE AdminCertsProofs --------------------------
(***************************************************************************)
(* Proofs about AdminCerts and CAKeys, for any number of people and of     *)
(* certificates, any numbers of shares and any thresholds, and any bound   *)
(* on key pairs, splits and what operators do.                             *)
(***************************************************************************)
EXTENDS AdminCerts, FiniteSetTheorems, WellFoundedInduction, TLAPS

-----------------------------------------------------------------------------
(* Shares of several splits. *)

\* More than t of the files 1..N were written by one of the splits 0..m.
Thick(f, N, m, t) ==
  \E n \in 0..m : \E S \in SUBSET (1..N) : Cardinality(S) > t /\ \A i \in S : f[i] = n

\* N files written by at most m + 1 splits, more than m + 1 times t of them:
\* some split has written more than t.
LEMMA Pigeonhole ==
  ASSUME NEW N \in Nat, NEW t \in Nat, NEW m \in Nat, NEW f \in [1..N -> 0..m], (m + 1) * t < N
  PROVE  Thick(f, N, m, t)
<1> SUFFICES ASSUME \A n \in 0..m : ~(Cardinality({i \in 1..N : f[i] = n}) > t) PROVE FALSE
  BY DEF Thick
<1> DEFINE Of(n)   == {i \in 1..N : f[i] = n}
           UpTo(j) == {i \in 1..N : f[i] <= j}
           Much    == {j \in 0..m : Cardinality(UpTo(j)) > (j + 1) * t}
<1>1. IsFiniteSet(1..N) /\ Cardinality(1..N) = N
  BY FS_Interval
<1>2. ASSUME NEW S \in SUBSET (1..N) PROVE IsFiniteSet(S) /\ Cardinality(S) \in Nat
  BY <1>1, FS_Subset, FS_CardinalityType
<1>3. \A n \in 0..m : /\ IsFiniteSet(Of(n)) /\ Cardinality(Of(n)) \in Nat /\ Cardinality(Of(n)) <= t
                      /\ IsFiniteSet(UpTo(n)) /\ Cardinality(UpTo(n)) \in Nat
  BY <1>2
<1>4. m \in Much
  <2>1. UpTo(m) = 1..N
    OBVIOUS
  <2>2. Cardinality(UpTo(m)) > (m + 1) * t
    BY <1>1, <2>1
  <2> QED
    BY <2>2
<1>5. PICK j \in Much : \A k \in Much : ~(k < j)
  <2> HIDE DEF UpTo
  <2>1. Much \subseteq Nat /\ Much # {}
    <3>1. Much \subseteq 0..m
      OBVIOUS
    <3> HIDE DEF Much
    <3> QED
      BY <1>4, <3>1
  <2> HIDE DEF Much
  <2>2. PICK x \in Much : \A y \in Much : ~(<<y, x>> \in OpToRel(<, Nat))
    BY <2>1, NatLessThanWellFounded, WFMin
  <2> QED
    BY <2>1, <2>2 DEF OpToRel
<1>6. j \in 0..m /\ Cardinality(UpTo(j)) > (j + 1) * t
  OBVIOUS
<1>7. CASE j = 0
  <2>1. UpTo(0) = Of(0)
    OBVIOUS
  <2>2. (0 + 1) * t = t
    OBVIOUS
  <2> QED
    BY <1>3, <1>6, <1>7, <2>1, <2>2
<1>8. CASE j # 0
  <2>1. j - 1 \in 0..m /\ (j - 1) + 1 = j
    BY <1>6, <1>8
  <2>2. j - 1 \notin Much
    BY <1>5, <1>6, <2>1
  <2>3. Cardinality(UpTo(j - 1)) <= j * t
    <3>1. j * t \in Nat
      BY <1>6
    <3>2. ~(Cardinality(UpTo(j - 1)) > ((j - 1) + 1) * t)
      BY <2>1, <2>2
    <3> HIDE DEF UpTo, Of, Much
    <3>3. ~(Cardinality(UpTo(j - 1)) > j * t)
      BY <2>1, <3>2
    <3> QED
      BY <1>3, <2>1, <3>1, <3>3
  <2>4. UpTo(j) = UpTo(j - 1) \cup Of(j)
    BY <1>6
  <2>5. Cardinality(UpTo(j)) <= Cardinality(UpTo(j - 1)) + Cardinality(Of(j))
    <3>1. IsFiniteSet(UpTo(j - 1)) /\ IsFiniteSet(Of(j))
      BY <1>3, <1>6, <2>1
    <3>2. Cardinality(UpTo(j - 1) \cup Of(j)) =
            Cardinality(UpTo(j - 1)) + Cardinality(Of(j)) - Cardinality(UpTo(j - 1) \cap Of(j))
      BY <3>1, FS_Union
    <3>3. Cardinality(UpTo(j - 1) \cap Of(j)) \in Nat
      <4>1. UpTo(j - 1) \cap Of(j) \in SUBSET (1..N)
        OBVIOUS
      <4> QED
        BY <1>2, <4>1
    <3> HIDE DEF UpTo, Of
    <3> QED
      BY <1>3, <1>6, <2>1, <2>4, <3>2, <3>3
  <2>6. (j + 1) * t = j * t + t /\ j * t \in Nat
    BY <1>6
  <2> HIDE DEF UpTo, Of, Much
  <2> QED
    BY <1>3, <1>6, <2>1, <2>3, <2>5, <2>6
<1> QED
  BY <1>7, <1>8

-----------------------------------------------------------------------------
(* The directory of the admin CA. *)

\* A running split has written the files before the next one, and no file of
\* the last split that was completed is older than it.
Rewritten ==
  /\ cutting # None => /\ Len(splits) # 0 /\ cutting <= Last
                       /\ \A i \in ShareId : i < cutting => share[i] = Len(splits)
  /\ whole # 0 => \A i \in 1..splits[whole].cut.of : whole <= share[i]

CAInv == TypeCA /\ Rewritten

\* What was asked of a split.
LEMMA CutsTyped ==
  ASSUME TypeCA, NEW n \in 1..Len(splits)
  PROVE  /\ splits[n].cut.need \in Nat /\ splits[n].cut.of \in Nat
         /\ splits[n].cut.of <= MaxShares /\ 1..splits[n].cut.of \subseteq ShareId
<1>1. splits[n] \in SplitOf
  BY DEF TypeCA
<1>2. splits[n].cut \in [need : 2..MaxShares, of : 2..MaxShares]
  BY <1>1, Splittable DEF SplitOf
<1> QED
  BY <1>2, Splittable DEF ShareId

\* What leaves the share files and the splits alone keeps them so.
LEMMA SpareShares ==
  ASSUME Rewritten, UNCHANGED <<share, splits, whole>>, cutting' \in {cutting, None} PROVE Rewritten'
BY DEF Rewritten, Last

\* Every command of the operator keeps that, cut short or not.
LEMMA StepCA == ASSUME CAInv, NextCA PROVE CAInv'
<1> USE Splittable, CABounds DEF CAInv, TypeCA, Rewritten, Gens, ShareId, KeyFile
<1>1. CASE Initialize \/ InitAdminCa
  <2>1. WritesKey /\ steps < Steps /\ steps' = steps + 1 /\ UNCHANGED <<crt, custody>>
    BY <1>1 DEF Initialize, InitAdminCa, Counted
  <2>2. made' \in 1..MaxGens /\ key' \in KeyFile /\ making' \in Gens
    BY <2>1 DEF WritesKey
  <2>3. TypeCA'
    BY <2>1, <2>2 DEF custody
  <2> QED
    BY <2>1, <2>3, SpareShares DEF custody
<1>2. CASE WritesCrt \/ LoseKey
  <2>1. /\ crt' \in Gens \cup {None} /\ making' \in Gens \cup {None} /\ key' \in KeyFile \cup {None}
        /\ steps' \in 0..Steps /\ UNCHANGED <<made, custody>>
    BY <1>2 DEF WritesCrt, LoseKey, Counted
  <2>2. TypeCA'
    BY <2>1 DEF custody
  <2> QED
    BY <2>1, <2>2, SpareShares DEF custody
<1>3. CASE Export
  <2>1. TypeCA'
    BY <1>3 DEF Export, Counted, Idle, cafiles
  <2> QED
    BY <1>3, <2>1, SpareShares DEF Export
<1>4. ASSUME NEW c \in Cuts, Split(c) PROVE CAInv'
  <2>0. key \in KeyFile
    BY <1>4 DEF Split
  <2>1. /\ splits' = Append(splits, [gen |-> key.gen, cut |-> c]) /\ key.gen \in Gens
        /\ cutting' = 1 /\ Len(splits) < MaxSplits
        /\ UNCHANGED <<cafiles, backup, share, whole>>
        /\ steps' \in 0..Steps
    BY <1>4, <2>0 DEF Split, Counted, Idle
  <2>2. [gen |-> key.gen, cut |-> c] \in SplitOf
    BY <2>1 DEF SplitOf
  <2> HIDE DEF SplitOf, KeyFile
  <2>3. /\ splits' \in Seq(SplitOf) /\ Len(splits') = Len(splits) + 1 /\ Len(splits) \in Nat
        /\ splits'[Len(splits')] = [gen |-> key.gen, cut |-> c]
        /\ \A n \in 1..Len(splits) : splits'[n] = splits[n]
    BY <2>1, <2>2
  <2>4. share' \in [ShareId -> 0..Len(splits')] /\ whole' \in 0..Len(splits') /\ Len(splits') <= MaxSplits
    <3>1. share \in [ShareId -> 0..Len(splits)] /\ whole \in 0..Len(splits)
      OBVIOUS
    <3>2. 0..Len(splits) \subseteq 0..Len(splits')
      BY <2>3
    <3>3. Len(splits') <= MaxSplits
      BY <2>1, <2>3
    <3>4. share' = share /\ whole' = whole
      BY <2>1
    <3> QED
      BY ONLY <3>1, <3>2, <3>3, <3>4
  <2>5. c.of \in 2..MaxShares
    BY Splittable
  <2>6. cutting' \in ShareId /\ cutting' <= Last'
    BY <2>1, <2>3, <2>5 DEF Last
  <2>7. \A i \in ShareId : i < cutting' => share'[i] = Len(splits')
    BY <2>1
  <2>8. whole' # 0 => \A i \in 1..splits'[whole'].cut.of : whole' <= share'[i]
    BY <2>1, <2>3
  <2> QED
    <3>1. TypeCA'
      BY <2>1, <2>3, <2>4, <2>6 DEF cafiles
    <3>2. Rewritten'
      BY <2>3, <2>6, <2>7, <2>8
    <3> HIDE DEF TypeCA, Rewritten
    <3> QED
      BY <3>1, <3>2
<1>5. CASE WritesShare
  <2>1. /\ cutting \in ShareId /\ cutting # None
        /\ share' = [share EXCEPT ![cutting] = Len(splits)]
        /\ cutting' = IF cutting = Last THEN None ELSE cutting + 1
        /\ whole' = IF cutting = Last THEN Len(splits) ELSE whole
        /\ UNCHANGED <<cafiles, backup, splits, steps>>
    BY <1>5 DEF WritesShare
  <2>2. Len(splits) \in Nat /\ Len(splits) # 0 /\ cutting <= Last
    BY <2>1
  <2>3. Last \in Nat /\ Last <= MaxShares /\ 1..Last \subseteq ShareId
    BY <2>2, CutsTyped DEF Last
  <2>4. share' \in [ShareId -> 0..Len(splits)] /\ whole' \in 0..Len(splits)
    BY <2>1, <2>2
  <2>5. cutting' \in ShareId \cup {None} /\ (cutting # Last => cutting' <= Last)
    BY <2>1, <2>2, <2>3
  <2>6. \A i \in ShareId : i <= cutting => share'[i] = Len(splits)
    BY <1>5, <2>1, <2>2 DEF WritesShare
  <2>7. TypeCA'
    BY <2>1, <2>4, <2>5 DEF cafiles
  <2>8. CASE cutting = Last
    <3>1. cutting' = None /\ whole' = Len(splits)
      BY <2>1, <2>8
    <3>2. \A i \in 1..Last : share'[i] = Len(splits)
      BY <2>3, <2>6, <2>8
    <3>3. Last = splits'[whole'].cut.of
      BY <2>1, <3>1 DEF Last
    <3> QED
      BY <2>1, <2>2, <2>7, <3>1, <3>2, <3>3
  <2>9. CASE cutting # Last
    <3>1. cutting' = cutting + 1 /\ whole' = whole
      BY <2>1, <2>9
    <3>2. \A i \in ShareId : i < cutting' => share'[i] = Len(splits')
      BY <2>1, <2>6, <3>1
    <3>3. whole' # 0 => \A i \in 1..splits'[whole'].cut.of : whole' <= share'[i]
      <4> SUFFICES ASSUME whole # 0, NEW i \in 1..splits[whole].cut.of PROVE whole <= share'[i]
        BY <2>1, <3>1
      <4>1. i \in ShareId
        BY CutsTyped
      <4> QED
        BY <2>1, <2>2, <4>1
    <3>4. Last' = Last
      BY <2>1 DEF Last
    <3> QED
      BY <2>1, <2>2, <2>5, <2>7, <2>9, <3>2, <3>3, <3>4
  <2> QED
    BY <2>8, <2>9
<1>6. CASE CutShort
  <2>1. TypeCA'
    BY <1>6 DEF CutShort
  <2> QED
    BY <1>6, <2>1, SpareShares DEF CutShort
<1>7. ASSUME NEW g \in Gens, NEW p \in BOOLEAN, Restore(g, p) PROVE CAInv'
  <2>1. TypeCA'
    BY <1>7 DEF Restore, AtRest, Counted, Idle, custody
  <2> QED
    BY <1>7, <2>1, SpareShares DEF Restore, custody
<1> HIDE DEF CAInv, TypeCA, Rewritten, Gens, ShareId, KeyFile
<1> QED
  BY <1>1, <1>2, <1>3, <1>4, <1>5, <1>6, <1>7 DEF NextCA

\* A command that leaves the CA's directory alone keeps it too.
LEMMA SpareCA == ASSUME CAInv, UNCHANGED <<cafiles, custody>>, steps' \in 0..Steps PROVE CAInv'
BY DEF CAInv, TypeCA, Rewritten, Last, cafiles, custody

\* Enough files of one split are left, if they cannot be spread too thin.
LEMMA EnoughShares == CAInv => SharesRecover
<1> SUFFICES ASSUME CAInv, NEW t \in 2..MaxShares, whole # 0, NeedAtMost(t),
                    (Begun + 1) * (t - 1) < splits[whole].cut.of
             PROVE  \E S \in SUBSET ShareId, n \in 1..MaxSplits : Combines(S, n)
  BY DEF SharesRecover
<1> DEFINE N == splits[whole].cut.of
           f == [i \in 1..N |-> share[i] - whole]
<1>1. /\ whole \in Nat \ {0} /\ Len(splits) \in Nat /\ whole <= Len(splits) /\ Len(splits) <= MaxSplits
      /\ MaxSplits \in Nat /\ MaxShares \in Nat
  BY CABounds, Splittable DEF CAInv, TypeCA
<1>2. N \in Nat /\ 1..N \subseteq ShareId
  BY <1>1, CutsTyped DEF CAInv
<1>3. \A i \in 1..N : share[i] \in whole..Len(splits)
  BY <1>1, <1>2 DEF CAInv, TypeCA, Rewritten
<1>4. Begun \in Nat /\ f \in [1..N -> 0..Begun]
  <2>1. Begun \in Nat
    BY <1>1 DEF Begun
  <2> HIDE DEF N
  <2>2. \A i \in 1..N : share[i] - whole \in 0..Begun
    BY <1>1, <1>3 DEF Begun
  <2> QED
    BY <2>1, <2>2
<1>5. PICK n \in 0..Begun, S \in SUBSET (1..N) : Cardinality(S) > t - 1 /\ \A i \in S : f[i] = n
  <2>1. t - 1 \in Nat /\ (Begun + 1) * (t - 1) < N
    BY <1>1
  <2> HIDE DEF f, N
  <2>2. Thick(f, N, Begun, t - 1)
    BY <1>2, <1>4, <2>1, Pigeonhole
  <2> QED
    BY <2>2 DEF Thick
<1>6. \A i \in S : share[i] = whole + n
  <2> SUFFICES ASSUME NEW i \in S PROVE share[i] = whole + n
    OBVIOUS
  <2>1. i \in 1..N /\ share[i] \in Nat
    BY <1>1, <1>3
  <2>2. share[i] - whole = n
    BY <1>5, <2>1
  <2>3. n \in Nat /\ whole \in Nat
    BY <1>1, <1>4
  <2> HIDE DEF f, N
  <2> QED
    BY <2>1, <2>2, <2>3
<1>7. /\ whole + n \in 1..Len(splits) /\ whole + n \in 1..MaxSplits /\ whole + n \in whole..Len(splits)
      /\ S \in SUBSET ShareId
  <2>1. n \in Nat /\ n <= Len(splits) - whole
    BY <1>1, <1>4 DEF Begun
  <2> HIDE DEF f, N
  <2> QED
    BY <1>1, <1>2, <2>1
<1>8. Cardinality(S) >= splits[whole + n].cut.need
  <2>1. S \in SUBSET (1..N) /\ N \in Nat
    BY <1>2
  <2>2. Cardinality(S) \in Nat
    <3> HIDE DEF N, f
    <3>1. IsFiniteSet(1..N)
      BY <2>1, FS_Interval
    <3> QED
      BY <2>1, <3>1, FS_Subset, FS_CardinalityType
  <2>3. splits[whole + n].cut.need <= t /\ splits[whole + n].cut.need \in Nat
    BY <1>7, CutsTyped DEF NeedAtMost, CAInv
  <2> HIDE DEF N, f
  <2> QED
    BY <1>1, <1>5, <2>2, <2>3
<1> QED
  BY <1>6, <1>7, <1>8 DEF Combines

-----------------------------------------------------------------------------
(* Certificates. *)

\* TypeOK without the directory of the CA.
CertTyped ==
  /\ anchor \in Gens \cup {None}
  /\ admins \subseteq Users /\ touch \subseteq Users
  /\ cert \in [Serials -> Cert \cup {None}]
  /\ expired \subseteq Minted /\ gate \subseteq Minted
  /\ registered \subseteq Serials /\ revoked \subseteq registered
  /\ logged \subseteq Event
  /\ disk \in [key : Serials \cup {None}, crt : Serials \cup {None, Torn}]
  /\ pending \in [serial : Serials, file : {"key", "crt"}] \cup {None}
  /\ staged \in Serials \cup {None} /\ print \in Serials \cup {None, Torn}
  /\ phase \in {"idle", "begun", "checked", "printed"}
  /\ sending \in Serials \cup {None} /\ since \subseteq Serials \cup {None, Torn}
  /\ relay \in {"unknown", "registered", "revoked"}

CertInv == CertTyped /\ Accountable

\* What is still to be written is neither on disk nor printed; a transport
\* whose fingerprint is another certificate's was built after that one had
\* been replaced for good; a request that is being prepared has seen the disk.
Followed ==
  /\ disk.crt \in Minted \cup {None, Torn} /\ print \in Minted \cup {None, Torn}
  /\ pending # None => pending.serial \in Minted /\ pending.serial \notin {disk.crt, print}
  /\ phase \in {"checked", "printed"} => staged = None
  /\ phase # "idle" => sending = None /\ disk.crt \in since
  /\ staged # None /\ staged # print => print = Torn \/ print # disk.crt

Inv == CAInv /\ CertInv /\ Followed

\* What is signed for a serial that nobody signed for is a certificate, and
\* the others stay as they are.
LEMMA SignedMints ==
  ASSUME CertTyped, NEW s \in Serials, NEW u \in Users \cup {Slot}, NEW p \in Planes,
         key \in KeyFile, Signed(s, u, p)
  PROVE  /\ cert' \in [Serials -> Cert \cup {None}]
         /\ cert'[s] = [who |-> u, plane |-> p, gen |-> key.gen]
         /\ \A t \in Serials \ {s} : cert'[t] = cert[t]
         /\ s \notin Minted /\ Minted' = Minted \cup {s}
<1>1. [who |-> u, plane |-> p, gen |-> key.gen] \in Cert
  BY DEF Cert, KeyFile
<1>2. [who |-> u, plane |-> p, gen |-> key.gen] # None
  BY <1>1, NoneIsNoCert
<1> QED
  BY <1>1, <1>2 DEF Signed, CertTyped, Minted

\* Minting keeps every certificate on record.
LEMMA MintKept == ASSUME Inv, Mint PROVE CertInv'
<1> USE DEF Inv, CertInv
<1>1. ASSUME NEW u \in Users, Elevate(u) PROVE CertInv'
  BY <1>1 DEF Elevate, CertTyped, Accountable, Minted, registry, station, client
<1>2. ASSUME NEW u \in Users, NEW s \in Serials, NEW a \in BOOLEAN, Issue(u, s, a) PROVE CertInv'
  <2>1. /\ Signed(s, u, "human") /\ Records(s) /\ Renews(s, a) /\ SpendsTouch(u)
        /\ UNCHANGED <<anchor, admins, expired, revoked, relay, gate, disk, client>>
    BY <1>2 DEF Issue
  <2>2. key \in KeyFile
    BY <1>2 DEF Issue, Loads, HasCa, CAInv, TypeCA
  <2>3. /\ cert' \in [Serials -> Cert \cup {None}]
        /\ \A t \in Serials \ {s} : cert'[t] = cert[t]
        /\ Minted' = Minted \cup {s}
    BY <2>1, <2>2, SignedMints DEF Planes
  <2>4. CertTyped'
    BY <2>1, <2>3 DEF CertTyped, Records, Renews, SpendsTouch, Event, client
  <2>5. Accountable'
    <3>1. \A t \in Minted' : t = s \/ (t \in Minted /\ t \in Serials \ {s} /\ cert'[t] = cert[t])
      BY <2>3 DEF Minted
    <3> QED
      BY <2>1, <3>1 DEF Accountable, Records
  <2> QED
    BY <2>4, <2>5
<1>3. ASSUME NEW s \in Serials, SignAdminCert(s) PROVE CertInv'
  <2>1. /\ Signed(s, Slot, "machine")
        /\ UNCHANGED <<anchor, people, expired, registry, gate, station>>
    BY <1>3 DEF SignAdminCert
  <2>2. key \in KeyFile
    BY <1>3 DEF SignAdminCert, Loads, HasCa, CAInv, TypeCA
  <2>3. /\ cert' \in [Serials -> Cert \cup {None}]
        /\ cert'[s] = [who |-> Slot, plane |-> "machine", gen |-> key.gen]
        /\ \A t \in Serials \ {s} : cert'[t] = cert[t]
        /\ Minted' = Minted \cup {s}
    BY <2>1, <2>2, SignedMints DEF Planes
  <2>4. CertTyped'
    <3>1. UNCHANGED <<anchor, admins, touch, expired, registered, revoked, logged, relay, gate, disk,
                      client>>
      BY <2>1 DEF people, registry, station
    <3>2. pending' \in [serial : Serials, file : {"key", "crt"}] \cup {None}
      BY <2>1 DEF CertTyped, station
    <3> QED
      BY <2>3, <3>1, <3>2 DEF CertTyped, client
  <2>5. Accountable'
    <3>1. \A t \in Minted' : t = s \/ (t \in Minted /\ t \in Serials \ {s} /\ cert'[t] = cert[t])
      BY <2>3 DEF Minted
    <3> QED
      BY <2>1, <2>3, <3>1 DEF Accountable, registry
  <2> QED
    BY <2>4, <2>5
<1>4. ASSUME NEW s \in Serials, GenerateAdminCert(s) PROVE CertInv'
  <2>1. /\ Signed(s, Slot, "none") /\ pending' = [serial |-> s, file |-> "key"]
        /\ UNCHANGED <<anchor, people, expired, registry, gate, disk, client>>
    BY <1>4 DEF GenerateAdminCert
  <2>2. key \in KeyFile
    BY <1>4 DEF GenerateAdminCert, HasCa, CAInv, TypeCA
  <2>3. /\ cert' \in [Serials -> Cert \cup {None}]
        /\ cert'[s] = [who |-> Slot, plane |-> "none", gen |-> key.gen]
        /\ \A t \in Serials \ {s} : cert'[t] = cert[t]
        /\ Minted' = Minted \cup {s}
    BY <2>1, <2>2, SignedMints DEF Planes
  <2>4. CertTyped'
    <3>1. UNCHANGED <<anchor, admins, touch, expired, registered, revoked, logged, relay, gate, disk,
                      client>>
      BY <2>1 DEF people, registry
    <3>2. pending' \in [serial : Serials, file : {"key", "crt"}] \cup {None}
      BY <2>1 DEF CertTyped
    <3> QED
      BY <2>3, <3>1, <3>2 DEF CertTyped, client
  <2>5. Accountable'
    <3>1. \A t \in Minted' : t = s \/ (t \in Minted /\ t \in Serials \ {s} /\ cert'[t] = cert[t])
      BY <2>3 DEF Minted
    <3> QED
      BY <2>1, <2>3, <3>1 DEF Accountable, registry
  <2> QED
    BY <2>4, <2>5
<1>5. ASSUME WritesPair PROVE CertInv'
  <2>1. pending \in [serial : Serials, file : {"key", "crt"}]
    BY <1>5 DEF WritesPair, CertTyped
  <2>2. disk' \in [key : Serials \cup {None}, crt : Serials \cup {None, Torn}]
    BY <1>5, <2>1 DEF WritesPair, CertTyped
  <2>3. pending' \in [serial : Serials, file : {"key", "crt"}] \cup {None}
    BY <1>5, <2>1 DEF WritesPair
  <2>4. disk'.crt \in Serials \cup {None, Torn}
    BY <2>2
  <2> QED
    BY <1>5, <2>2, <2>3, <2>4 DEF WritesPair, Seen, CertTyped, Accountable, Minted, people, registry
<1>6. ASSUME MintDies PROVE CertInv'
  <2>1. disk' \in [key : Serials \cup {None}, crt : Serials \cup {None, Torn}]
    BY <1>6 DEF MintDies, CertTyped
  <2>2. disk'.crt \in Serials \cup {None, Torn}
    BY <2>1
  <2> QED
    BY <1>6, <2>1, <2>2 DEF MintDies, Seen, CertTyped, Accountable, Minted, people, registry
<1> QED
  BY <1>1, <1>2, <1>3, <1>4, <1>5, <1>6 DEF Mint

\* Presenting a certificate registers it at most.
LEMMA PresentKept == ASSUME Inv, Present PROVE CertInv'
<1> USE DEF Inv, CertInv
<1>1. ASSUME Client PROVE CertInv'
  <2>1. Elsewhere
    BY <1>1 DEF Client, Begin, Confirms, ChecksExpiry, Prints, FindsNothing, LoadsPair, Answered, ClientEnds
  <2>2. disk.crt \in Serials \cup {None, Torn}
    BY DEF CertTyped
  <2>3. /\ staged' \in Serials \cup {None} /\ print' \in Serials \cup {None, Torn}
        /\ phase' \in {"idle", "begun", "checked", "printed"}
        /\ sending' \in Serials \cup {None} /\ since' \subseteq Serials \cup {None, Torn}
    BY <1>1, <2>2 DEF CertTyped, Client, Begin, Confirms, ChecksExpiry, Prints, FindsNothing, LoadsPair,
                      Answered, ClientEnds, Presents, Refused
  <2> QED
    BY <2>1, <2>3 DEF Elsewhere, CertTyped, Accountable, Minted, people, registry
<1>3. ASSUME NEW s \in Serials, NEW o \in BOOLEAN, Admit(s, o) PROVE CertInv'
  BY <1>3 DEF Admit, Observes, CertTyped, Accountable, Minted, people, station, client
<1> QED
  BY <1>1, <1>3 DEF Present, Request, RequestOnCore

\* The handlers keep what is on record.
LEMMA HandleKept == ASSUME Inv, Handle PROVE CertInv'
<1> USE DEF Inv, CertInv
<1>1. ASSUME NEW s \in Serials, Dropped(s) \/ RegisterRelay(s) \/ RevokeRelay(s) PROVE CertInv'
  BY <1>1 DEF Dropped, RegisterRelay, RevokeRelay, Handles, CertTyped, Accountable, Minted, people,
              registry, station, client
<1>2. ASSUME NEW s \in Serials, NEW t \in Serials, RegisterCert(s, t) PROVE CertInv'
  BY <1>2 DEF RegisterCert, Handles, CertTyped, Accountable, Minted, Event, people, station, client
<1>3. ASSUME NEW s \in Serials, NEW t \in Serials, RevokeCert(s, t) PROVE CertInv'
  BY <1>3 DEF RevokeCert, Handles, CertTyped, Accountable, Minted, Event, people, station, client
<1> QED
  BY <1>1, <1>2, <1>3 DEF Handle

\* A certificate stays minted, and what is minted was not before.
LEMMA MintedGrows == ASSUME Inv, Mint PROVE Minted \subseteq Minted'
<1> USE DEF Inv, CertInv
<1>1. ASSUME NEW s \in Serials, NEW u \in Users \cup {Slot}, NEW p \in Planes, HasCa, Signed(s, u, p)
      PROVE  Minted \subseteq Minted'
  <2>1. key \in KeyFile
    BY <1>1 DEF HasCa, CAInv, TypeCA
  <2> QED
    BY <1>1, <2>1, SignedMints
<1> HIDE DEF Inv
<1> QED
  BY <1>1 DEF Mint, Elevate, Issue, SignAdminCert, GenerateAdminCert, WritesPair, MintDies, Loads, Planes, Minted

\* Minting leaves the client a step behind at most.
LEMMA MintFollowed == ASSUME Inv, Mint PROVE Followed'
<1> USE NoSerialIsOnDisk
<1>0. CertTyped /\ Followed /\ Minted \subseteq Minted'
  BY MintedGrows DEF Inv, CertInv
<1>1. ASSUME UNCHANGED station PROVE Followed'
  BY <1>0, <1>1 DEF Followed, station, client
<1>2. ASSUME NEW s \in Serials, NEW u \in Users \cup {Slot}, NEW p \in Planes, HasCa, Signed(s, u, p),
             UNCHANGED <<disk, client>>, pending' \in {[serial |-> s, file |-> "key"], None}
      PROVE  Followed'
  <2>1. key \in KeyFile
    BY <1>2 DEF HasCa, Inv, CAInv, TypeCA
  <2>2. s \notin Minted /\ s \in Minted'
    BY <1>0, <1>2, <2>1, SignedMints
  <2>3. pending' # None => pending'.serial = s
    BY <1>2
  <2>4. s \notin {disk.crt, print}
    BY <1>0, <2>2 DEF Followed
  <2> QED
    BY <1>0, <1>2, <2>2, <2>3, <2>4 DEF Followed, client
<1>3. ASSUME WritesPair PROVE Followed'
  <2>0. pending \in [serial : Serials, file : {"key", "crt"}] /\ disk \in [key : Serials \cup {None}, crt : Serials \cup {None, Torn}]
    BY <1>0, <1>3 DEF WritesPair, CertTyped
  <2>1. /\ pending.serial \in Minted /\ pending.serial \notin {disk.crt, print}
        /\ Minted' = Minted /\ UNCHANGED <<staged, print, phase, sending>> /\ Seen
    BY <1>0, <1>3 DEF WritesPair, Followed, Minted
  <2>2. CASE pending.file = "key"
    <3>1. disk'.crt = disk.crt /\ pending'.serial = pending.serial
      BY <1>3, <2>0, <2>2 DEF WritesPair
    <3> QED
      BY <1>0, <2>1, <3>1 DEF Followed, Seen
  <2>3. CASE pending.file = "crt"
    <3>1. disk'.crt = pending.serial /\ pending' = None
      BY <1>3, <2>0, <2>3 DEF WritesPair
    <3> QED
      BY <1>0, <2>1, <3>1 DEF Followed, Seen
  <2> QED
    BY <2>0, <2>2, <2>3
<1>4. ASSUME MintDies PROVE Followed'
  <2>1. /\ disk'.crt \in {disk.crt, Torn} /\ pending' = None
        /\ Minted' = Minted /\ UNCHANGED <<staged, print, phase, sending>> /\ Seen
    BY <1>0, <1>4 DEF MintDies, CertTyped, Minted
  <2> QED
    BY <1>0, <2>1 DEF Followed, Seen
<1>5. ASSUME NEW u \in Users, NEW s \in Serials, NEW a \in BOOLEAN, Issue(u, s, a) PROVE Followed'
  BY <1>2, <1>5 DEF Issue, Loads, Renews, Planes
<1>6. ASSUME NEW s \in Serials, SignAdminCert(s) \/ GenerateAdminCert(s) PROVE Followed'
  BY <1>0, <1>1, <1>2, <1>6 DEF SignAdminCert, GenerateAdminCert, Planes
<1>7. ASSUME NEW u \in Users, Elevate(u) PROVE Followed'
  BY <1>1, <1>7 DEF Elevate
<1> QED
  BY <1>3, <1>4, <1>5, <1>6, <1>7 DEF Mint

\* So do the steps of the client itself.
LEMMA ClientFollowed == ASSUME Inv, Client PROVE Followed'
<1>0. CertTyped /\ Followed
  BY DEF Inv, CertInv
<1>1. Minted' = Minted /\ UNCHANGED <<disk, pending>>
  BY DEF Client, Begin, Confirms, ChecksExpiry, Prints, FindsNothing, LoadsPair, Answered, ClientEnds,
         Elsewhere, Minted
<1>2. None \notin Minted
  BY NoSerialIsOnDisk DEF Minted
<1>3. CASE Begin \/ Confirms
  BY <1>0, <1>1, <1>3, <1>2 DEF Begin, Confirms, Presents, Followed
<1>4. CASE ChecksExpiry \/ FindsNothing
  BY <1>0, <1>1, <1>4 DEF ChecksExpiry, FindsNothing, Refused, Followed
<1>5. CASE Prints
  BY <1>0, <1>1, <1>5 DEF Prints, Followed
<1>6. CASE LoadsPair
  BY <1>0, <1>1, <1>6 DEF LoadsPair, Presents, Refused, Followed
<1>7. CASE Answered \/ ClientEnds
  BY <1>0, <1>1, <1>7, <1>2 DEF Answered, ClientEnds, Followed
<1> QED
  BY <1>3, <1>4, <1>5, <1>6, <1>7 DEF Client

\* The directory of the CA, the registry and the workstation are kept together.
LEMMA StepKept == Inv /\ [Next]_vars => Inv'
<1> SUFFICES ASSUME Inv, [Next]_vars PROVE Inv'
  OBVIOUS
<1>1. CAInv /\ steps \in 0..Steps
  BY DEF Inv, CAInv, TypeCA
<1>3. ASSUME Counted, UNCHANGED <<cafiles, custody>> PROVE CAInv'
  BY <1>1, <1>3, CABounds, SpareCA DEF Counted
<1>4. ASSUME UNCHANGED cavars PROVE CAInv'
  BY <1>1, <1>4, SpareCA DEF cavars
<1>2. ASSUME UNCHANGED <<cert, station>> PROVE Followed'
  BY <1>2 DEF Inv, Followed, Minted, station, client
<1>5. ASSUME Start PROVE Inv'
  <2>1. CertInv'
    BY <1>5 DEF Start, HasCa, Ingested, RelayIngested, Inv, CAInv, TypeCA, CertInv, CertTyped, Accountable,
                Minted, people, station, client
  <2> QED
    BY <1>2, <1>3, <1>5, <2>1 DEF Start, Inv
<1>6. ASSUME Mint PROVE Inv'
  <2>1. CAInv'
    BY <1>3, <1>4, <1>6
       DEF Mint, Elevate, Issue, SignAdminCert, GenerateAdminCert, WritesPair, MintDies
  <2> QED
    BY <1>6, <2>1, MintKept, MintFollowed DEF Inv
<1>7. ASSUME Present PROVE Inv'
  <2>1. CAInv'
    BY <1>3, <1>4, <1>7 DEF Present, Client, Begin, Confirms, ChecksExpiry, Prints, FindsNothing, LoadsPair,
                            Answered, ClientEnds, Elsewhere, Request, RequestOnCore
  <2>2. Followed'
    BY <1>2, <1>7, ClientFollowed DEF Present, Request, RequestOnCore, Admit
  <2> QED
    BY <1>7, <2>1, <2>2, PresentKept DEF Inv
<1>8. ASSUME Handle PROVE Inv'
  <2>1. CAInv'
    BY <1>4, <1>8 DEF Handle, Dropped, RegisterRelay, RevokeRelay, RegisterCert, RevokeCert
  <2>2. Followed'
    BY <1>2, <1>8 DEF Handle, Dropped, RegisterRelay, RevokeRelay, RegisterCert, RevokeCert
  <2> QED
    BY <1>8, <2>1, <2>2, HandleKept DEF Inv
<1>9. ASSUME NEW s \in Serials, Expire(s) PROVE Inv'
  <2>1. CertInv'
    BY <1>9 DEF Expire, Inv, CertInv, CertTyped, Accountable, Minted, people, registry, station, client
  <2> QED
    BY <1>2, <1>3, <1>9, <2>1 DEF Expire, Inv
<1>10. ASSUME NEW u \in Users, Roles(u) PROVE Inv'
  <2>1. CertInv'
    BY <1>10 DEF Roles, Inv, CertInv, CertTyped, Accountable, Minted, registry, station, client
  <2> QED
    BY <1>2, <1>3, <1>10, <2>1 DEF Roles, Inv
<1>11. ASSUME UNCHANGED certvars PROVE CertInv' /\ Followed'
  BY <1>2, <1>11 DEF certvars, Inv, CertInv, CertTyped, Accountable, Minted, people, registry, station, client
<1>12. ASSUME NextCA, UNCHANGED certvars PROVE Inv'
  BY <1>1, <1>11, <1>12, StepCA DEF Inv
<1>13. ASSUME UNCHANGED vars PROVE Inv'
  BY <1>4, <1>11, <1>13 DEF vars, Inv
<1> QED
  BY <1>5, <1>6, <1>7, <1>8, <1>9, <1>10, <1>12, <1>13 DEF Next

\* The invariant holds throughout.
THEOREM Invariance == Spec => []Inv
<1>1. Init => Inv
  <2> SUFFICES ASSUME Init PROVE Inv
    OBVIOUS
  <2>1. CAInv
    BY Splittable, CABounds DEF Init, InitCA, CAInv, TypeCA, Rewritten, Gens, ShareId
  <2>2. Minted = {}
    BY DEF Init, Minted
  <2>3. CertInv
    BY <2>2 DEF Init, CertInv, CertTyped, Accountable
  <2>4. Followed
    BY DEF Init, Followed
  <2> QED
    BY <2>1, <2>3, <2>4 DEF Inv
<1> QED
  BY <1>1, StepKept, PTL DEF Spec

\* The files of the CA, the registry, the workstation's pair and the client's
\* transport have their types, and the revoke verb names registered
\* certificates only: TypeOK of AdminCerts.
THEOREM TypeCorrect == Spec => []TypeOK
<1>1. Inv => TypeOK
  BY DEF Inv, CAInv, CertInv, CertTyped, TypeOK
<1> QED
  BY <1>1, Invariance, PTL

\* cmd_admin_split_ca_key, for every number of shares and every threshold of
\* every split, and any number of splits that were cut short over a completed
\* one: while the splits cannot have spread the completed one's files too thin,
\* enough of one are left to combine.
THEOREM SharesStayEnough == Spec => []SharesRecover
<1>1. Inv => SharesRecover
  BY EnoughShares DEF Inv
<1> QED
  BY <1>1, Invariance, PTL

\* admin_issue_cert: what a person was issued is registered and audited, and
\* every revocation is audited, whoever renews, revokes or restarts meanwhile.
THEOREM IssuesAreAccounted == Spec => []Accountable
<1>1. Inv => Accountable
  BY DEF Inv, CertInv
<1> QED
  BY <1>1, Invariance, PTL

\* APIClient._http: for any number of renewals, cut short or not, at any point
\* of a request's preparation: what a request presents was on disk while it was
\* prepared, or the file was found torn.
THEOREM RenewalsAreNotMissed == Spec => PresentsRenewed
<1>1. Inv /\ [Next]_vars => [sending' \notin {sending, None} => sending' \in since' \/ Torn \in since']_vars
  <2> SUFFICES ASSUME Inv, [Next]_vars, sending' \notin {sending, None}
               PROVE  sending' \in since' \/ Torn \in since'
    OBVIOUS
  <2>1. ~UNCHANGED sending /\ sending' # None
    OBVIOUS
  <2>2. ~UNCHANGED station /\ ~UNCHANGED client
    BY <2>1 DEF station, client
  <2>3. ~Mint
    BY <2>1, <2>2 DEF Mint, Elevate, Issue, SignAdminCert, GenerateAdminCert, WritesPair, MintDies
  <2>4. ~Handle
    BY <2>2 DEF Handle, Dropped, RegisterRelay, RevokeRelay, RegisterCert, RevokeCert
  <2>5. ~Start /\ ~UNCHANGED certvars /\ ~UNCHANGED vars
    BY <2>2 DEF Start, certvars, vars
  <2>6. \A s, u : ~Expire(s) /\ ~Roles(u)
    BY <2>2 DEF Expire, Roles
  <2>7. Present
    BY <2>3, <2>4, <2>5, <2>6 DEF Next
  <2>8. Confirms \/ LoadsPair
    BY <2>1, <2>2, <2>7 DEF Present, Client, Begin, ChecksExpiry, Prints, FindsNothing, Refused,
                            Answered, ClientEnds, Request, RequestOnCore, Admit
  <2>9. phase # "idle" /\ disk.crt \in since /\ since' = since
    BY <2>1, <2>8 DEF Confirms, LoadsPair, Presents, Refused, Inv, Followed
  <2>10. CASE Confirms
    <3>1. sending' = staged /\ staged # None /\ print = disk.crt
      BY <2>1, <2>10 DEF Confirms, Presents
    <3>2. staged = print \/ print = Torn
      BY <3>1 DEF Inv, Followed
    <3> QED
      BY <2>9, <3>1, <3>2
  <2>11. CASE LoadsPair
    BY <2>1, <2>9, <2>11 DEF LoadsPair, Presents, Refused
  <2> QED
    BY <2>8, <2>10, <2>11
<1> QED
  BY <1>1, Invariance, PTL DEF PresentsRenewed, Spec

=============================================================================
