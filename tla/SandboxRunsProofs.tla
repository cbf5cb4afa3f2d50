------------------------- MODULE SandboxRunsProofs -------------------------
(***************************************************************************)
(* Proofs about SandboxRuns and AuditSpool, for any number of runs and of  *)
(* loggers, any size of the spool, of a batch and of what the core takes,  *)
(* any policies, and any bound on accidents.                               *)
(***************************************************************************)
EXTENDS SandboxRuns, FiniteSetTheorems, SequenceTheorems, TLAPS

-----------------------------------------------------------------------------
(* Numbers by their rank. *)

\* The ranks of a finite set of numbers are the numbers up to its size, each
\* one's another.
LEMMA RankProperties ==
  ASSUME NEW n \in Nat, NEW K \in SUBSET (1..n)
  PROVE  /\ Cardinality(K) \in Nat
         /\ \A i \in K : Rank(K, i) \in 1..Cardinality(K)
         /\ \A i, j \in K : Rank(K, i) = Rank(K, j) => i = j
<1> DEFINE Below(i) == {k \in K : k <= i}
<1>1. IsFiniteSet(K) /\ Cardinality(K) \in Nat
  <2>1. IsFiniteSet(1..n)
    BY FS_Interval
  <2> QED
    BY <2>1, FS_Subset, FS_CardinalityType
<1>2. ASSUME NEW S \in SUBSET K
      PROVE  IsFiniteSet(S) /\ Cardinality(S) \in Nat /\ Cardinality(S) <= Cardinality(K)
  BY <1>1, <1>2, FS_Subset, FS_CardinalityType
<1>3. ASSUME NEW i \in K PROVE Rank(K, i) \in 1..Cardinality(K)
  <2>1. Below(i) \in SUBSET K /\ Below(i) # {}
    BY <1>3
  <2> HIDE DEF Below
  <2>2. /\ IsFiniteSet(Below(i)) /\ Cardinality(Below(i)) \in Nat
        /\ Cardinality(Below(i)) <= Cardinality(K)
    BY <1>2, <2>1
  <2>3. Cardinality(Below(i)) # 0
    BY <2>1, <2>2, FS_EmptySet
  <2>4. Rank(K, i) = Cardinality(Below(i))
    BY DEF Rank, Below
  <2> QED
    BY <1>1, <2>2, <2>3, <2>4
<1>4. ASSUME NEW i \in K, NEW j \in K, i < j PROVE Rank(K, i) # Rank(K, j)
  <2>1. Below(j) \in SUBSET K /\ Below(i) \in SUBSET Below(j) /\ Below(i) # Below(j)
    <3>1. \A k \in K : k \in Int
      OBVIOUS
    <3>2. j \in Below(j) /\ j \notin Below(i)
      BY <1>4, <3>1
    <3>3. \A k \in K : k <= i => k <= j
      BY <1>4, <3>1
    <3>4. Below(j) \subseteq K /\ Below(i) \subseteq Below(j)
      BY <3>3
    <3> HIDE DEF Below
    <3> QED
      BY <3>2, <3>4
  <2>2. Rank(K, i) = Cardinality(Below(i)) /\ Rank(K, j) = Cardinality(Below(j))
    BY DEF Rank
  <2> HIDE DEF Below
  <2>3. IsFiniteSet(Below(j))
    BY <1>2, <2>1
  <2> QED
    BY <2>1, <2>2, <2>3, FS_Subset
<1>5. \A i, j \in K : i < j \/ j < i \/ i = j
  OBVIOUS
<1> QED
  BY <1>1, <1>3, <1>4, <1>5

\* So there is a j-th number for every j up to the size, and every number is
\* the one at its rank.
LEMMA NthProperties ==
  ASSUME NEW n \in Nat, NEW K \in SUBSET (1..n)
  PROVE  /\ \A j \in 1..Cardinality(K) : Nth(K, j) \in K
         /\ \A i \in K : Nth(K, Rank(K, i)) = i
<1> DEFINE f == [i \in K |-> Rank(K, i)]
           C == Cardinality(K)
<1>1. /\ C \in Nat
      /\ \A i \in K : Rank(K, i) \in 1..C
      /\ \A i, j \in K : Rank(K, i) = Rank(K, j) => i = j
  BY RankProperties
<1> HIDE DEF C
<1>2. f \in Injection(K, 1..C)
  BY <1>1 DEF Injection, IsInjective
<1>3. IsFiniteSet(1..C) /\ Cardinality(1..C) = C
  BY <1>1, FS_Interval
<1>4. f \in Surjection(K, 1..C)
  BY <1>2, <1>3, FS_Injection DEF C
<1>5. \A j \in 1..C : \E i \in K : Rank(K, i) = j
  BY <1>4 DEF Surjection
<1>6. \A j \in 1..C : Nth(K, j) \in K
  BY <1>5 DEF Nth
<1>7. \A i \in K : Nth(K, Rank(K, i)) = i
  BY <1>1 DEF Nth
<1> QED
  BY <1>6, <1>7 DEF C

-----------------------------------------------------------------------------
(* The events of lines. *)

\* An event is in some line.
LEMMA EventsPointwise ==
  ASSUME NEW s \in Seq(Line), NEW e
  PROVE  e \in EventsIn(s) <=> \E i \in 1..Len(s) : e \in s[i].ev
<1>1. DOMAIN s = 1..Len(s)
  OBVIOUS
<1> QED
  BY <1>1 DEF EventsIn, ToSet

\* A line more holds its events and those there were.
LEMMA EventsOfAppend ==
  ASSUME NEW s \in Seq(Line), NEW l \in Line
  PROVE  /\ Append(s, l) \in Seq(Line)
         /\ EventsIn(Append(s, l)) = EventsIn(s) \cup l.ev
<1> DEFINE a == Append(s, l)
<1>1. /\ a \in Seq(Line) /\ Len(a) = Len(s) + 1 /\ Len(s) \in Nat
      /\ \A i \in 1..Len(s) : a[i] = s[i]
      /\ a[Len(s) + 1] = l
  BY AppendProperties
<1> HIDE DEF a
<1>2. \A e : (\E i \in 1..Len(a) : e \in a[i].ev) <=> (\E i \in 1..Len(s) : e \in s[i].ev) \/ e \in l.ev
  <2> TAKE e
  <2>1. ASSUME NEW i \in 1..Len(a), e \in a[i].ev PROVE (\E j \in 1..Len(s) : e \in s[j].ev) \/ e \in l.ev
    <3>1. CASE i = Len(s) + 1
      BY <1>1, <2>1, <3>1
    <3>2. CASE i # Len(s) + 1
      <4>1. i \in 1..Len(s) /\ a[i] = s[i]
        BY <1>1, <2>1, <3>2
      <4> QED
        BY <2>1, <4>1
    <3> QED
      BY <3>1, <3>2
  <2>2. ASSUME NEW i \in 1..Len(s), e \in s[i].ev PROVE \E j \in 1..Len(a) : e \in a[j].ev
    <3>1. i \in 1..Len(a) /\ a[i] = s[i]
      BY <1>1
    <3> QED
      BY <2>2, <3>1
  <2>3. ASSUME e \in l.ev PROVE \E j \in 1..Len(a) : e \in a[j].ev
    <3>1. Len(s) + 1 \in 1..Len(a) /\ a[Len(s) + 1] = l
      BY <1>1
    <3> QED
      BY <2>3, <3>1
  <2> QED
    BY <2>1, <2>2, <2>3
<1>3. \A e : e \in EventsIn(a) <=> e \in EventsIn(s) \/ e \in l.ev
  BY <1>1, <1>2, EventsPointwise
<1>4. EventsIn(a) = EventsIn(s) \cup l.ev
  BY <1>3
<1> QED
  BY <1>1, <1>4 DEF a

\* A cut after n lines leaves every event on one side.
LEMMA EventsOfCut ==
  ASSUME NEW s \in Seq(Line), NEW n \in 0..Len(s)
  PROVE  /\ SubSeq(s, 1, n) \in Seq(Line)
         /\ SubSeq(s, n + 1, Len(s)) \in Seq(Line)
         /\ EventsIn(s) \subseteq EventsIn(SubSeq(s, 1, n)) \cup EventsIn(SubSeq(s, n + 1, Len(s)))
<1> DEFINE a == SubSeq(s, 1, n)
           b == SubSeq(s, n + 1, Len(s))
<1>1. Len(s) \in Nat /\ n \in Nat /\ n <= Len(s) /\ \A i \in 1..Len(s) : s[i] \in Line
  OBVIOUS
<1>2. /\ a \in Seq(Line) /\ Len(a) = n
      /\ \A i \in 1..n : a[i] = s[i]
  <2>1. \A i \in 1..n : s[i] \in Line
    BY <1>1
  <2>2. /\ a \in Seq(Line) /\ Len(a) = IF 1 <= n THEN n - 1 + 1 ELSE 0
        /\ \A i \in 1..(n - 1 + 1) : a[i] = s[1 + i - 1]
    BY <1>1, <2>1, SubSeqProperties
  <2> HIDE DEF a
  <2> QED
    BY <1>1, <2>2
<1>3. /\ b \in Seq(Line) /\ Len(b) = Len(s) - n
      /\ \A i \in 1..(Len(s) - n) : b[i] = s[n + i]
  <2>1. \A i \in (n + 1)..Len(s) : s[i] \in Line
    BY <1>1
  <2>2. /\ b \in Seq(Line) /\ Len(b) = IF n + 1 <= Len(s) THEN Len(s) - (n + 1) + 1 ELSE 0
        /\ \A i \in 1..(Len(s) - (n + 1) + 1) : b[i] = s[(n + 1) + i - 1]
    BY <1>1, <2>1, SubSeqProperties
  <2> HIDE DEF b
  <2> QED
    BY <1>1, <2>2
<1> HIDE DEF a, b
<1>4. ASSUME NEW e \in EventsIn(s) PROVE e \in EventsIn(a) \cup EventsIn(b)
  <2>1. PICK i \in 1..Len(s) : e \in s[i].ev
    BY EventsPointwise
  <2>2. CASE i <= n
    <3>1. i \in 1..Len(a) /\ a[i] = s[i]
      BY <1>1, <1>2, <2>2
    <3> QED
      BY <1>2, <2>1, <3>1, EventsPointwise
  <2>3. CASE ~(i <= n)
    <3>1. i - n \in 1..Len(b) /\ b[i - n] = s[i]
      BY <1>1, <1>3, <2>3
    <3> QED
      BY <1>3, <2>1, <3>1, EventsPointwise
  <2> QED
    BY <2>2, <2>3
<1> QED
  BY <1>2, <1>3, <1>4 DEF a, b

\* An append keeps the events of the file and adds its own, also where it is
\* joined to a line that was cut short.
LEMMA AppendedKeeps ==
  ASSUME spool \in Seq(Line), NEW e \in Events, NEW w \in BOOLEAN
  PROVE  /\ Appended(e, w) \in Seq(Line)
         /\ EventsIn(spool) \cup {e} \subseteq EventsIn(Appended(e, w))
<1>1. CASE ~OpenEnd
  <2>1. [ev |-> {e}, valid |-> w, ended |-> w] \in Line
    BY DEF Line
  <2> QED
    BY <1>1, <2>1, EventsOfAppend DEF Appended
<1>2. CASE OpenEnd
  <2> DEFINE n == Len(spool)
             l == [ev |-> Last(spool).ev \cup {e}, valid |-> FALSE, ended |-> w]
  <2>1. n \in Nat \ {0} /\ Last(spool) = spool[n] /\ spool[n] \in Line
    BY <1>2 DEF OpenEnd, Last
  <2>2. l \in Line /\ l.ev = spool[n].ev \cup {e}
    BY <2>1 DEF Line
  <2>3. /\ Front(spool) \in Seq(Line)
        /\ Len(Front(spool)) = n - 1
        /\ \A i \in 1..(n - 1) : Front(spool)[i] = spool[i]
    <3> DEFINE m == n - 1
    <3>1. m \in Nat /\ m \in Int /\ \A i \in 1..m : spool[i] \in Line
      BY <2>1
    <3> HIDE DEF m
    <3>2. /\ SubSeq(spool, 1, m) \in Seq(Line)
          /\ Len(SubSeq(spool, 1, m)) = IF 1 <= m THEN m - 1 + 1 ELSE 0
          /\ \A i \in 1..(m - 1 + 1) : SubSeq(spool, 1, m)[i] = spool[1 + i - 1]
      BY <3>1, SubSeqProperties
    <3>3. Front(spool) = SubSeq(spool, 1, m)
      BY DEF Front, m
    <3>4. Len(Front(spool)) = m /\ \A i \in 1..m : Front(spool)[i] = spool[i]
      <4>1. Len(SubSeq(spool, 1, m)) = m
        BY <3>1, <3>2
      <4>2. \A i \in 1..m : SubSeq(spool, 1, m)[i] = spool[i]
        BY <3>1, <3>2
      <4> QED
        BY <3>3, <4>1, <4>2
    <3> QED
      BY <3>2, <3>3, <3>4 DEF m
  <2>4. Appended(e, w) = Append(Front(spool), l)
    BY <1>2 DEF Appended
  <2> HIDE DEF l
  <2>5. /\ Appended(e, w) \in Seq(Line)
        /\ EventsIn(Appended(e, w)) = EventsIn(Front(spool)) \cup l.ev
    BY <2>2, <2>3, <2>4, EventsOfAppend
  <2>6. ASSUME NEW x \in EventsIn(spool) PROVE x \in EventsIn(Front(spool)) \cup l.ev
    <3>1. PICK i \in 1..n : x \in spool[i].ev
      BY EventsPointwise
    <3>2. CASE i = n
      BY <2>2, <3>1, <3>2
    <3>3. CASE i # n
      <4>1. i \in 1..Len(Front(spool)) /\ Front(spool)[i] = spool[i]
        BY <2>1, <2>3, <3>3
      <4> QED
        BY <2>3, <3>1, <4>1, EventsPointwise
    <3> QED
      BY <3>2, <3>3
  <2> QED
    BY <2>2, <2>5, <2>6
<1> QED
  BY <1>1, <1>2

\* _remove_sent_lines takes no event away that is not in what was sent.
LEMMA WithoutSentKeeps ==
  ASSUME spool \in Seq(Line), NEW b
  PROVE  /\ WithoutSent(b) \in Seq(Line)
         /\ EventsIn(spool) \subseteq EventsIn(WithoutSent(b)) \cup EventsIn(b)
<1> DEFINE K == {i \in 1..Len(spool) : spool[i] \notin ToSet(b)}
           C == Cardinality(K)
           r == WithoutSent(b)
<1>1. Len(spool) \in Nat /\ \A i \in 1..Len(spool) : spool[i] \in Line
  OBVIOUS
<1>2. K \in SUBSET (1..Len(spool))
  OBVIOUS
<1>3. r = [j \in 1..C |-> spool[Nth(K, j)]]
  BY DEF WithoutSent
<1>4. ASSUME NEW i \in 1..Len(spool), i \notin K PROVE spool[i].ev \subseteq EventsIn(b)
  BY <1>4 DEF EventsIn
<1> HIDE DEF K, r
<1>5. C \in Nat /\ \A i \in K : Rank(K, i) \in 1..C
  BY <1>1, <1>2, RankProperties
<1>6. (\A j \in 1..C : Nth(K, j) \in K) /\ (\A i \in K : Nth(K, Rank(K, i)) = i)
  BY <1>1, <1>2, NthProperties
<1> HIDE DEF C
<1>7. r \in Seq(Line) /\ Len(r) = C
  <2>1. r \in [1..C -> Line]
    BY <1>1, <1>2, <1>3, <1>6
  <2> QED
    BY <1>5, <2>1
<1>8. ASSUME NEW e \in EventsIn(spool) PROVE e \in EventsIn(r) \cup EventsIn(b)
  <2>1. PICK i \in 1..Len(spool) : e \in spool[i].ev
    BY EventsPointwise
  <2>2. CASE i \notin K
    BY <1>4, <2>1, <2>2
  <2>3. CASE i \in K
    <3>1. Rank(K, i) \in 1..Len(r) /\ r[Rank(K, i)] = spool[i]
      BY <1>3, <1>5, <1>6, <1>7, <2>3
    <3> QED
      BY <1>7, <2>1, <3>1, EventsPointwise
  <2> QED
    BY <2>2, <2>3
<1> QED
  BY <1>7, <1>8 DEF r

-----------------------------------------------------------------------------
(* The spool. *)

\* The file holds lines, and what a drain has been told is accepted has reached
\* the core.
SpoolInv ==
  /\ spool \in Seq(Line)
  /\ drain \in [Loggers -> Drain] /\ DOMAIN batch = Loggers
  /\ \A d \in Loggers : drain[d] = "accepted" => EventsIn(batch[d]) \subseteq settled
  /\ NothingLost

\* A record that is written stays, and so do those that were there.
LEMMA EmitKeeps == ASSUME SpoolInv, NEW e \in Events, Emit(e) PROVE SpoolInv'
<1> DEFINE lines == Appended(e, TRUE)
<1>1. lines \in Seq(Line) /\ EventsIn(spool) \cup {e} \subseteq EventsIn(lines)
  BY AppendedKeeps DEF SpoolInv
<1>2. /\ written' = written \cup {e} /\ UNCHANGED <<batch, drain>>
      /\ IF Len(lines) > Capacity THEN DropOldest(lines) ELSE spool' = lines /\ UNCHANGED settled
  BY DEF Emit
<1> HIDE DEF lines
<1>3. SUFFICES /\ spool' \in Seq(Line) /\ settled \subseteq settled'
               /\ EventsIn(lines) \subseteq EventsIn(spool') \cup settled'
  <2>1. NothingLost'
    BY <1>1, <1>2, <1>3 DEF SpoolInv, NothingLost
  <2> QED
    BY <1>2, <1>3, <2>1 DEF SpoolInv
<1>4. CASE Len(lines) > Capacity
  <2> DEFINE n == Len(lines) - Capacity
  <2>1. n \in 0..Len(lines) /\ Len(lines) \in Nat
    BY <1>1, <1>4, SpoolBounds
  <2>2. /\ spool' = SubSeq(lines, n + 1, Len(lines))
        /\ settled' = settled \cup EventsIn(SubSeq(lines, 1, n))
    BY <1>2, <1>4 DEF DropOldest
  <2> HIDE DEF n
  <2>3. /\ SubSeq(lines, n + 1, Len(lines)) \in Seq(Line)
        /\ EventsIn(lines) \subseteq EventsIn(SubSeq(lines, 1, n)) \cup EventsIn(SubSeq(lines, n + 1, Len(lines)))
    BY <1>1, <2>1, EventsOfCut
  <2> QED
    BY <2>2, <2>3
<1>5. CASE ~(Len(lines) > Capacity)
  BY <1>1, <1>2, <1>5
<1> QED
  BY <1>4, <1>5

\* A write that is cut short takes nothing with it.
LEMMA EmitCutKeeps == ASSUME SpoolInv, NEW e \in Events, EmitCut(e) PROVE SpoolInv'
<1>1. spool' \in Seq(Line) /\ EventsIn(spool) \subseteq EventsIn(spool')
  BY AppendedKeeps DEF EmitCut, SpoolInv
<1>2. NothingLost'
  BY <1>1 DEF EmitCut, SpoolInv, NothingLost
<1> QED
  BY <1>1, <1>2 DEF EmitCut, SpoolInv

\* Drains overlap in any order, with drops and with each other.
LEMMA DrainKeeps == ASSUME SpoolInv, NEW d \in Loggers, DrainSteps(d) PROVE SpoolInv'
<1> USE DEF Drain
<1>1. CASE DrainBegins(d)
  <2>1. UNCHANGED <<spool, written, settled>> /\ drain' = [drain EXCEPT ![d] = "sending"]
        /\ DOMAIN batch' = Loggers /\ \A c \in Loggers \ {d} : batch'[c] = batch[c]
    BY <1>1 DEF DrainBegins, SpoolInv
  <2> QED
    BY <2>1 DEF SpoolInv, NothingLost
<1>2. CASE Halve(d)
  <2>1. /\ UNCHANGED <<spool, written, settled, drain>> /\ drain[d] = "sending"
        /\ DOMAIN batch' = Loggers /\ \A c \in Loggers \ {d} : batch'[c] = batch[c]
    BY <1>2 DEF Halve, SpoolInv
  <2> QED
    BY <2>1 DEF SpoolInv, NothingLost
<1>3. CASE Ingest(d)
  BY <1>3 DEF Ingest, SpoolInv, NothingLost
<1>4. CASE SentRemoved(d)
  <2>1. /\ drain[d] = "accepted" /\ spool' = WithoutSent(batch[d])
        /\ drain' = [drain EXCEPT ![d] = "idle"] /\ UNCHANGED <<written, settled>>
        /\ DOMAIN batch' = Loggers /\ \A c \in Loggers \ {d} : batch'[c] = batch[c]
    BY <1>4 DEF SentRemoved, SpoolInv
  <2>2. EventsIn(batch[d]) \subseteq settled
    BY <2>1 DEF SpoolInv
  <2>3. spool' \in Seq(Line) /\ EventsIn(spool) \subseteq EventsIn(spool') \cup EventsIn(batch[d])
    BY <2>1, WithoutSentKeeps DEF SpoolInv
  <2>4. NothingLost'
    BY <2>1, <2>2, <2>3 DEF SpoolInv, NothingLost
  <2> QED
    BY <2>1, <2>3, <2>4 DEF SpoolInv
<1>5. CASE DrainFails(d)
  <2>1. UNCHANGED <<spool, written, settled>> /\ drain' = [drain EXCEPT ![d] = "idle"]
        /\ DOMAIN batch' = Loggers /\ \A c \in Loggers \ {d} : batch'[c] = batch[c]
    BY <1>5 DEF DrainFails, SpoolInv
  <2> QED
    BY <2>1 DEF SpoolInv, NothingLost
<1> QED
  BY <1>1, <1>2, <1>3, <1>4, <1>5 DEF DrainSteps

-----------------------------------------------------------------------------
(* The runs. *)

\* What a run has done by the stage it is in: nothing before it began, its
\* record before its microVM, its claim before its secrets and until they are
\* gone.
RunInv ==
  /\ pc \in [Runs -> Active \cup {"new", "ended", "dead"}]
  /\ vm \in [Runs -> {"none", "bare", "secrets"}]
  /\ \A r \in Runs : pc[r] = "new" => vm[r] = "none"
  /\ \A r \in Runs : pc[r] \in {"copy", "fence", "teardown"} => r \in claimed
  /\ \A r \in Runs : pc[r] \in {"create", "claim", "copy", "fence"} => <<"injected", r>> \in written
  /\ ran \subseteq Runs /\ \A r \in ran : <<"injected", r>> \in written
  /\ SecretsAreClaimed

\* One step of a run keeps all of that for every run.
LEMMA RunKeeps == ASSUME RunInv, NEW r \in Runs, RunSteps(r) PROVE RunInv'
<1> USE DEF RunInv, SecretsAreClaimed, Goes, Active, host
<1>1. CASE CheckStructure(r)
  BY <1>1 DEF CheckStructure, Rejects, Emit
<1>2. CASE CheckPatterns(r)
  BY <1>2 DEF CheckPatterns, Rejects, Emit, spoolvars
<1>3. CASE CheckPreset(r)
  BY <1>3 DEF CheckPreset, Rejects, Emit
<1>4. CASE Inject(r)
  BY <1>4 DEF Inject, Emit
<1>5. CASE InjectFails(r)
  BY <1>5 DEF InjectFails, EmitCut, spoolvars
<1>6. CASE Create(r)
  BY <1>6 DEF Create, spoolvars
<1>7. CASE Claim(r)
  BY <1>7 DEF Claim, spoolvars
<1>8. CASE CreateFails(r)
  BY <1>8 DEF CreateFails, spoolvars
<1>9. CASE Copy(r)
  BY <1>9 DEF Copy, spoolvars
<1>10. CASE CopyFails(r)
  BY <1>10 DEF CopyFails, CallFails, spoolvars
<1>11. CASE SetupFails(r)
  BY <1>11 DEF SetupFails, CallFails, spoolvars
<1>12. CASE Exec(r)
  BY <1>12 DEF Exec, Fenced, spoolvars
<1>13. CASE Teardown(r)
  BY <1>13 DEF Teardown, After, spoolvars
<1>14. CASE TeardownFails(r)
  BY <1>14 DEF TeardownFails, Unreleased, spoolvars
<1>15. CASE ReapEnds(r)
  BY <1>15 DEF ReapEnds, After, spoolvars
<1>16. CASE Report(r)
  BY <1>16 DEF Report, Emit
<1>17. CASE ReportFails(r)
  BY <1>17 DEF ReportFails, EmitCut
<1>18. ASSUME NEW x \in Runs, Reap(r, x) PROVE RunInv'
  BY <1>18 DEF Reap, spoolvars
<1> HIDE DEF RunInv, SecretsAreClaimed, Goes, Active, host
<1> QED
  BY <1>1, <1>2, <1>3, <1>4, <1>5, <1>6, <1>7, <1>8, <1>9, <1>10, <1>11, <1>12, <1>13, <1>14, <1>15, <1>16, <1>17, <1>18 DEF RunSteps

\* What a run records are events, and it writes them with emit.
LEMMA RunSpool == ASSUME SpoolInv, NEW r \in Runs, RunSteps(r) PROVE SpoolInv'
<1>1. \A k \in {"injected", "executed", "rejected"} : <<k, r>> \in Events
  BY RunsAssumption
<1>2. CASE \E k \in {"injected", "executed", "rejected"} : Emit(<<k, r>>) \/ EmitCut(<<k, r>>)
  BY <1>1, <1>2, EmitKeeps, EmitCutKeeps
<1>3. CASE UNCHANGED spoolvars
  BY <1>3 DEF spoolvars, SpoolInv, NothingLost
<1> QED
  BY <1>2, <1>3
     DEF RunSteps, CheckStructure, CheckPatterns, CheckPreset, Rejects, Inject, InjectFails, Create, Claim,
         CreateFails, Copy, CopyFails, SetupFails, Exec, Teardown, TeardownFails, ReapEnds, Report,
         ReportFails, Reap

Inv == SpoolInv /\ RunInv

\* Everything is kept by every step of a run, of a drain, of the daemon and of
\* the core.
LEMMA StepKept == Inv /\ [Next]_vars => Inv'
<1> SUFFICES ASSUME Inv, [Next]_vars PROVE Inv'
  OBVIOUS
<1>1. SpoolInv /\ RunInv
  BY DEF Inv
<1>2. ASSUME NEW r \in Runs, RunSteps(r) PROVE Inv'
  BY <1>1, <1>2, RunKeeps, RunSpool DEF Inv
<1>3. ASSUME NEW d \in Loggers, DrainSteps(d) PROVE Inv'
  <2>1. SpoolInv'
    BY <1>1, <1>3, DrainKeeps
  <2>2. UNCHANGED <<runvars, written>>
    BY <1>3 DEF DrainSteps, DrainBegins, Halve, Ingest, SentRemoved, DrainFails
  <2>3. RunInv'
    BY <1>1, <2>2 DEF runvars, host, RunInv, SecretsAreClaimed
  <2> QED
    BY <2>1, <2>3 DEF Inv
<1>4. ASSUME Crash PROVE Inv'
  <2>1. SpoolInv'
    BY <1>1, <1>4 DEF Crash, SpoolDies, SpoolInv, NothingLost, Drain
  <2>2. RunInv'
    BY <1>1, <1>4 DEF Crash, SpoolDies, RunInv, SecretsAreClaimed
  <2> QED
    BY <2>1, <2>2 DEF Inv
<1>5. ASSUME UNCHANGED spoolvars PROVE SpoolInv' /\ UNCHANGED written
  BY <1>1, <1>5 DEF spoolvars, SpoolInv, NothingLost
<1>6. ASSUME Restart PROVE Inv'
  <2>1. RunInv'
    BY <1>1, <1>6 DEF Restart, spoolvars, RunInv, SecretsAreClaimed
  <2> QED
    BY <1>5, <1>6, <2>1 DEF Restart, Inv
<1>7. ASSUME UNCHANGED <<spoolvars, pc, host>> PROVE Inv'
  BY <1>1, <1>5, <1>7 DEF host, Inv, RunInv, SecretsAreClaimed
<1>8. ASSUME NEW p \in Policies, SetCommandPolicy(p) PROVE Inv'
  BY <1>7, <1>8 DEF SetCommandPolicy, SetsRow
<1>9. ASSUME Heartbeat \/ AddAllowedCommand PROVE Inv'
  BY <1>7, <1>9 DEF Heartbeat, AddAllowedCommand, SetsRow
<1>10. ASSUME UNCHANGED vars PROVE Inv'
  BY <1>7, <1>10 DEF vars, runvars
<1> QED
  BY <1>2, <1>3, <1>4, <1>6, <1>8, <1>9, <1>10 DEF Next

\* The invariant holds throughout.
THEOREM Invariance == Spec => []Inv
<1>1. Init => Inv
  <2> SUFFICES ASSUME Init PROVE Inv
    OBVIOUS
  <2>1. SpoolInv
    BY DEF Init, InitSpool, SpoolInv, NothingLost, Drain
  <2>2. RunInv
    BY DEF Init, RunInv, SecretsAreClaimed
  <2> QED
    BY <2>1, <2>2 DEF Inv
<1> QED
  BY <1>1, StepKept, PTL DEF Spec

\* AuditLogger: with any number of loggers over one file, no record that emit
\* wrote is lost but those drop-oldest counted, and no command was started in
\* a microVM without a record of what it was given.
THEOREM RecordsStay == Spec => []OnRecord
<1>1. Inv => OnRecord
  BY DEF Inv, SpoolInv, RunInv, OnRecord
<1> QED
  BY <1>1, Invariance, PTL

\* A microVM that holds secrets is claimed while the daemon lives, through
\* every failure of a run and every reap pass of another.
THEOREM SecretsStayClaimed == Spec => []SecretsAreClaimed
<1>1. Inv => SecretsAreClaimed
  BY DEF Inv, RunInv
<1> QED
  BY <1>1, Invariance, PTL

=============================================================================
