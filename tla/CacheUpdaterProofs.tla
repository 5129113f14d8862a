------------------------- MODULE CacheUpdaterProofs -------------------------
(* What is proved about CacheUpdater, for every value of its constants.    *)
EXTENDS CacheUpdater, SequenceTheorems, FiniteSetTheorems, WellFoundedInduction, TLAPS

LEMMA InitType == CacheAssumption /\ Init => TypeOK
<1> SUFFICES ASSUME CacheAssumption, Init PROVE TypeOK
  OBVIOUS
<1>1. faults \in 0..MaxFaults
  BY DEF Init, CacheAssumption
<1>2. changes \in [Keys -> Seq({"write", "delete", "tombstone"})]
  BY DEF Init
<1>3. QED
  BY <1>1, <1>2 DEF Init, TypeOK

LEMMA TypeStep ==
    ASSUME CacheAssumption, TypeOK, [Next]_vars
    PROVE  TypeOK'
<1> USE CacheAssumption DEF TypeOK
<1>1. ASSUME NEW k \in Keys, Save(k)
      PROVE  TypeOK'
  BY <1>1 DEF Save
<1>2. ASSUME NEW k \in Keys, Remove(k)
      PROVE  TypeOK'
  <2>1. changes' \in [Keys -> Seq({"write", "delete", "tombstone"})]
    <3>1. <<"delete", "tombstone">> \in Seq({"write", "delete", "tombstone"})
      OBVIOUS
    <3>2. changes[k] \o <<"delete", "tombstone">> \in Seq({"write", "delete", "tombstone"})
      BY <3>1
    <3>3. QED
      BY <1>2, <3>2 DEF Remove
  <2>2. QED
    BY <1>2, <2>1 DEF Remove
<1>3. ASSUME NEW k \in Keys, Read(k)
      PROVE  TypeOK'
  <2>1. position' \in [Keys -> Nat] /\ pipe' \in [Keys -> Nat] /\ pending' \in [Keys -> Nat]
    BY <1>3 DEF Read
  <2>2. pc' \in {"read", "due"} /\ raised' \subseteq Keys \X Nat
    BY <1>3 DEF Read
  <2>3. QED
    BY <1>3, <2>1, <2>2 DEF Read
<1>4. ASSUME NEW k \in Keys, Apply(k)
      PROVE  TypeOK'
  <2>1. cache' \in [Keys -> Nat] /\ pipe' \in [Keys -> Nat] /\ pending' \in [Keys -> Nat]
    BY <1>4 DEF Apply
  <2>2. QED
    BY <1>4, <2>1 DEF Apply
<1>5. CASE NotDue \/ Due \/ Applied
  BY <1>5 DEF NotDue, Due, Applied
<1>6. CASE Commit
  BY <1>6 DEF Commit
<1>7. ASSUME Fault
      PROVE  faults' \in 0..MaxFaults
  BY <1>7 DEF Fault, CacheAssumption
<1>8. CASE Leave \/ CommitFails
  BY <1>7, <1>8 DEF Leave, Finally, CommitFails
<1>12. ASSUME NEW k \in Keys, DecodeFails(k)
       PROVE  TypeOK'
  <2>1. position' \in [Keys -> Nat] /\ raised' \subseteq Keys \X Nat
    BY <1>12 DEF DecodeFails
  <2>2. pc' \in {"stopped", "apply"} /\ leaving' = TRUE
    BY <1>12 DEF DecodeFails, Finally
  <2>3. QED
    BY <1>7, <1>12, <2>1, <2>2 DEF DecodeFails
<1>9. CASE Restart \/ Crash
  <2>1. Begin /\ faults' \in 0..MaxFaults
    BY <1>7, <1>9 DEF Restart, Crash
  <2>2. pipe' \in [Keys -> Nat] /\ pending' \in [Keys -> Nat]
    BY <2>1 DEF Begin
  <2>3. QED
    BY <2>1, <2>2 DEF Begin
<1>10. CASE UNCHANGED vars
  BY <1>10 DEF vars
<1>11. QED
  BY <1>1, <1>2, <1>3, <1>4, <1>5, <1>6, <1>8, <1>9, <1>10, <1>12
     DEF Next, Step, Traffic

\* Every variable keeps its type.
THEOREM CacheTypeCorrect == Spec => []TypeOK
<1>1. Init => TypeOK
  BY CacheAssumption, InitType
<1>2. TypeOK /\ [Next]_vars => TypeOK'
  BY CacheAssumption, TypeStep
<1>3. QED
  BY <1>1, <1>2, PTL DEF Spec

(***************************************************************************)
(* The offset is never ahead of the cache.                                 *)
(***************************************************************************)
LEMMA InductiveInit == Init => Inductive
  BY DEF Init, Inductive, CommittedIsApplied

\* One row at a time: a step that treats a row in one of these ways keeps the
\* invariant of that row.
RowOK(k) ==
    /\ committed[k] <= position[k] /\ position[k] <= Len(changes[k])
    /\ cache[k] <= Len(changes[k]) /\ pipe[k] <= position[k]
    /\ pipe[k] = 0 <=> pending[k] = 0
    /\ \A i \in 1..position[k] :
          i <= (IF pipe[k] = 0 THEN cache[k] ELSE pipe[k]) \/ <<k, i>> \in raised
    /\ \A i \in 1..committed[k] : i <= cache[k] \/ <<k, i>> \in raised

LEMMA ByRow ==
    /\ Inductive <=> /\ \A k \in Keys : RowOK(k)
                     /\ pc = "commit" => \A k \in Keys : pending[k] = 0
  BY DEF Inductive, RowOK, CommittedIsApplied

LEMMA InductiveStep ==
    ASSUME TypeOK, TypeOK', Inductive, [Next]_vars
    PROVE  Inductive'
<1> SUFFICES /\ \A k \in Keys : RowOK(k)'
             /\ pc' = "commit" => \A k \in Keys : pending'[k] = 0
  BY DEF Inductive, RowOK, CommittedIsApplied
<1> DEFINE Goal == /\ \A k \in Keys : RowOK(k)'
                   /\ pc' = "commit" => \A k \in Keys : pending'[k] = 0
<1>0. /\ \A k \in Keys : RowOK(k)
      /\ pc = "commit" => \A k \in Keys : pending[k] = 0
  BY ByRow
<1>1. ASSUME NEW k \in Keys, Save(k) \/ Remove(k)
      PROVE  Goal
  <2>1. \A j \in Keys : Len(changes[j]) <= Len(changes'[j])
    <3>1. /\ Len(Append(changes[k], "write")) = Len(changes[k]) + 1
          /\ Len(changes[k] \o <<"delete", "tombstone">>) = Len(changes[k]) + 2
          /\ \A j \in Keys : Len(changes[j]) \in Nat
      BY DEF TypeOK
    <3>2. \A j \in Keys : j # k => changes'[j] = changes[j]
      BY <1>1 DEF Save, Remove, TypeOK
    <3>3. Len(changes[k]) <= Len(changes'[k])
      <4>1. CASE Save(k)
        <5>1. changes'[k] = Append(changes[k], "write")
          BY <4>1 DEF Save, TypeOK
        <5>2. QED
          BY <5>1, <3>1
      <4>2. CASE Remove(k)
        <5>1. changes'[k] = changes[k] \o <<"delete", "tombstone">>
          BY <4>2 DEF Remove, TypeOK
        <5>2. QED
          BY <5>1, <3>1
      <4>3. QED
        BY <1>1, <4>1, <4>2
    <3>4. QED
      BY <3>1, <3>2, <3>3
  <2>2. \A j \in Keys : Len(changes[j]) \in Nat /\ Len(changes'[j]) \in Nat
    <3>1. \A j \in Keys : /\ changes[j] \in Seq({"write", "delete", "tombstone"})
                          /\ changes'[j] \in Seq({"write", "delete", "tombstone"})
      BY DEF TypeOK
    <3>2. QED
      BY <3>1
  <2>3. /\ committed' = committed /\ position' = position /\ cache' = cache
        /\ pipe' = pipe /\ pending' = pending /\ pc' = pc /\ raised' = raised
    BY <1>1 DEF Save, Remove
  <2>4. ASSUME NEW j \in Keys
        PROVE  RowOK(j)'
    <3>1. /\ position[j] \in Nat /\ cache[j] \in Nat
          /\ Len(changes[j]) \in Nat /\ Len(changes'[j]) \in Nat
          /\ Len(changes[j]) <= Len(changes'[j])
      BY <2>1, <2>2 DEF TypeOK
    <3>2. RowOK(j)
      BY <1>0
    <3>3. QED
      BY <2>3, <3>1, <3>2 DEF RowOK
  <2>5. QED
    BY <1>0, <2>3, <2>4
<1>2. ASSUME NEW k \in Keys, Read(k)
      PROVE  Goal
  <2>1. /\ position' = [position EXCEPT ![k] = @ + 1]
        /\ pipe' = [pipe EXCEPT ![k] = position[k] + 1]
        /\ pending' = [pending EXCEPT ![k] = @ + 1]
        /\ raised' = raised \ {<<k, position[k] + 1>>}
        /\ pc' # "commit" /\ position[k] < Len(changes[k])
        /\ changes' = changes /\ committed' = committed /\ cache' = cache
    BY <1>2 DEF Read
  <2>2. \A j \in Keys : Len(changes[j]) \in Nat
    BY DEF TypeOK
  <2>3. RowOK(k)'
    <3>1. /\ position[k] \in Nat /\ pending[k] \in Nat /\ committed[k] \in Nat /\ cache[k] \in Nat
          /\ position'[k] = position[k] + 1 /\ pipe'[k] = position[k] + 1
          /\ pending'[k] = pending[k] + 1 /\ Len(changes[k]) \in Nat
      BY <2>1, <2>2 DEF TypeOK
    <3>2. committed[k] <= position[k]
          /\ \A i \in 1..committed[k] : i <= cache[k] \/ <<k, i>> \in raised
      BY <1>0 DEF RowOK
    <3>3. \A i \in 1..committed[k] : i <= cache[k] \/ <<k, i>> \in raised'
      BY <2>1, <3>1, <3>2
    <3>4. \A i \in 1..position'[k] : i <= pipe'[k]
      BY <3>1
    <3> QED BY <2>1, <3>1, <3>2, <3>3, <3>4, <1>0 DEF RowOK
  <2>4. ASSUME NEW j \in Keys, j # k
        PROVE  RowOK(j)'
    <3>1. /\ position'[j] = position[j] /\ pipe'[j] = pipe[j] /\ pending'[j] = pending[j]
          /\ \A i : <<j, i>> \in raised' <=> <<j, i>> \in raised
      BY <2>1, <2>4 DEF TypeOK
    <3> QED BY <1>0, <2>1, <3>1 DEF RowOK
  <2>5. QED
    BY <2>1, <2>3, <2>4
<1>3. ASSUME NEW k \in Keys, Apply(k)
      PROVE  Goal
  <2>1. /\ cache' = [cache EXCEPT ![k] = IF pipe[k] = 0 THEN @ ELSE pipe[k]]
        /\ pipe' = [pipe EXCEPT ![k] = 0] /\ pending' = [pending EXCEPT ![k] = 0]
        /\ pc' = "apply" /\ UNCHANGED <<changes, committed, position, raised>>
    BY <1>3 DEF Apply
  <2>2. RowOK(k)'
    <3>1. /\ position[k] \in Nat /\ committed[k] \in Nat /\ cache[k] \in Nat /\ pipe[k] \in Nat
          /\ cache'[k] = (IF pipe[k] = 0 THEN cache[k] ELSE pipe[k])
          /\ pipe'[k] = 0 /\ pending'[k] = 0 /\ Len(changes[k]) \in Nat
      BY <2>1 DEF TypeOK
    <3>2. RowOK(k)
      BY <1>0
    <3>3. \A i \in 1..position[k] : i <= cache'[k] \/ <<k, i>> \in raised
      BY <3>1, <3>2 DEF RowOK
    <3>4. \A i \in 1..committed[k] : i \in 1..position[k]
      BY <3>1, <3>2 DEF RowOK
    <3>5. cache'[k] <= Len(changes[k])
      BY <3>1, <3>2 DEF RowOK
    <3> QED BY <2>1, <3>1, <3>2, <3>3, <3>4, <3>5 DEF RowOK
  <2>3. ASSUME NEW j \in Keys, j # k
        PROVE  RowOK(j)'
    BY <1>0, <2>1, <2>3 DEF RowOK, TypeOK
  <2>4. QED
    BY <2>1, <2>2, <2>3
<1>4. CASE NotDue \/ Due \/ Applied
  BY <1>0, <1>4 DEF NotDue, Due, Applied, RowOK
<1>5. CASE Commit \/ CommitFails
  <2>1. /\ committed' = committed \/ committed' = position
        /\ pc = "commit" /\ pc' # "commit"
        /\ UNCHANGED <<changes, cache, position, pipe, pending, raised>>
    BY <1>5 DEF Commit, CommitFails
  <2>2. \A k \in Keys : pending[k] = 0 /\ pipe[k] = 0 /\ position[k] \in Nat
    BY <1>0, <2>1 DEF TypeOK, RowOK
  <2>3. \A k \in Keys : \A i \in 1..position[k] : i <= cache[k] \/ <<k, i>> \in raised
    BY <1>0, <2>2 DEF RowOK
  <2>4. QED
    BY <1>0, <2>1, <2>2, <2>3 DEF RowOK
<1>6. CASE Leave
  BY <1>0, <1>6 DEF Leave, Finally, RowOK
<1>10. ASSUME NEW k \in Keys, DecodeFails(k)
       PROVE  Goal
  <2>1. /\ position' = [position EXCEPT ![k] = @ + 1]
        /\ raised' = raised \cup {<<k, position[k] + 1>>}
        /\ pc' # "commit" /\ position[k] < Len(changes[k])
        /\ UNCHANGED <<changes, committed, cache, pipe, pending>>
    BY <1>10 DEF DecodeFails, Finally
  <2>2. RowOK(k)'
    <3>1. /\ position[k] \in Nat /\ committed[k] \in Nat /\ pipe[k] \in Nat
          /\ position'[k] = position[k] + 1 /\ Len(changes[k]) \in Nat
      BY <2>1 DEF TypeOK
    <3>2. RowOK(k)
      BY <1>0
    <3>3. \A i \in 1..position'[k] :
             i <= (IF pipe[k] = 0 THEN cache[k] ELSE pipe[k]) \/ <<k, i>> \in raised'
      <4> SUFFICES ASSUME NEW i \in 1..(position[k] + 1)
                   PROVE  i <= (IF pipe[k] = 0 THEN cache[k] ELSE pipe[k]) \/ <<k, i>> \in raised'
        BY <3>1
      <4>1. CASE i = position[k] + 1
        BY <2>1, <4>1
      <4>2. CASE i # position[k] + 1
        <5>1. i \in 1..position[k]
          BY <3>1, <4>2
        <5> QED BY <2>1, <3>2, <5>1 DEF RowOK
      <4> QED BY <4>1, <4>2
    <3>4. \A i \in 1..committed[k] : i <= cache[k] \/ <<k, i>> \in raised'
      BY <2>1, <3>2 DEF RowOK
    <3> QED BY <2>1, <3>1, <3>2, <3>3, <3>4 DEF RowOK
  <2>3. ASSUME NEW j \in Keys, j # k
        PROVE  RowOK(j)'
    <3>1. position'[j] = position[j] /\ \A i : <<j, i>> \in raised' <=> <<j, i>> \in raised
      BY <2>1, <2>3 DEF TypeOK
    <3> QED BY <1>0, <2>1, <3>1 DEF RowOK
  <2> QED BY <2>1, <2>2, <2>3
<1>7. CASE Restart \/ Crash
  <2>1. Begin
    BY <1>7 DEF Restart, Crash
  <2>2. \A k \in Keys : committed[k] <= Len(changes[k])
    <3>1. \A k \in Keys : Len(changes[k]) \in Nat
      BY DEF TypeOK
    <3>2. QED
      BY <1>0, <3>1 DEF RowOK, TypeOK
  <2>3. ASSUME NEW k \in Keys
        PROVE  RowOK(k)'
    <3>1. /\ position'[k] = committed[k] /\ pipe'[k] = 0 /\ pending'[k] = 0
          /\ UNCHANGED <<changes, committed, cache, raised>> /\ committed[k] \in Nat
      BY <2>1 DEF Begin, TypeOK
    <3>2. RowOK(k)
      BY <1>0
    <3> QED BY <2>2, <3>1, <3>2 DEF RowOK
  <2>4. QED
    BY <2>1, <2>3 DEF Begin
<1>8. CASE UNCHANGED vars
  BY <1>0, <1>8 DEF vars, RowOK
<1>9. QED
  BY <1>1, <1>2, <1>3, <1>4, <1>5, <1>6, <1>7, <1>8, <1>10
     DEF Next, Step, Traffic

\* What was decoded is applied, or waits in a pipeline that knows it.
THEOREM CacheInductive == Spec => []Inductive
<1>1. Init => TypeOK /\ Inductive
  BY CacheAssumption, InitType, InductiveInit
<1>2. (TypeOK /\ Inductive) /\ [Next]_vars => (TypeOK /\ Inductive)'
  BY CacheAssumption, TypeStep, InductiveStep
<1>3. QED
  BY <1>1, <1>2, PTL DEF Spec

\* As long as Redis does not refuse a batch, the committed offset passes over
\* no change that is not in the cache, but for messages that were not decoded.
THEOREM NoChangeLost == Spec => []CommittedIsApplied
<1>1. Inductive => CommittedIsApplied
  BY DEF Inductive
<1>2. QED
  BY <1>1, CacheInductive, PTL

\* However often changes are repeated, a stream that has been read and applied
\* to its end leaves every key with its last change that could be decoded.
THEOREM SafeToReplay == Spec => []ReplayConverges
<1>1. TypeOK /\ Inductive => ReplayConverges
  <2> SUFFICES ASSUME TypeOK, Inductive, NEW k \in Keys, NEW i \in 1..Len(changes[k]),
                      position[k] = Len(changes[k]), pending[k] = 0
               PROVE  i <= cache[k] \/ <<k, i>> \in raised
    BY DEF ReplayConverges
  <2> QED
    BY DEF Inductive
<1>2. QED
  BY <1>1, CacheTypeCorrect, CacheInductive, PTL

-----------------------------------------------------------------------------
(* Sums.  A batch's size is a sum over the databases, taken one by one; what  *)
(* it does when one number changes is shown by induction over their subsets.  *)

NatLess == {ss \in Nat \X Nat : ss[1] < ss[2]}

LEMMA NatLessIsWellFounded == IsWellFoundedOn(NatLess, Nat)
  BY NatLessThanWellFounded, Zenon DEF OpToRel, NatLess

\* Induction, about a set of numbers.
LEMMA AllNumbers ==
    ASSUME NEW S, 0 \in S, \A n \in Nat : n \in S => n + 1 \in S
    PROVE  \A n \in Nat : n \in S
<1> DEFINE T == Nat \ S
<1> SUFFICES ASSUME T # {} PROVE FALSE
  OBVIOUS
<1>1. T \subseteq Nat
  OBVIOUS
<1>2. PICK m \in T : \A n \in T : ~(<<n, m>> \in NatLess)
  <2> HIDE DEF T
  <2> QED BY <1>1, NatLessIsWellFounded, WFMin, Zenon
<1>3. m \in Nat /\ m # 0 /\ m \notin S
  BY <1>2
<1>4. m - 1 \in Nat /\ (m - 1) + 1 = m /\ m - 1 < m
  BY <1>3
<1>5. m - 1 \in T
  BY <1>3, <1>4
<1>6. <<m - 1, m>> \in NatLess
  BY <1>3, <1>4 DEF NatLess
<1> QED BY <1>2, <1>5, <1>6

Pick(s) == CHOOSE x \in s : TRUE

\* Induction over the subsets of a finite set, an element at a time.
LEMMA AllSubsets ==
    ASSUME NEW K, IsFiniteSet(K), NEW P, {} \in P,
           \A s \in SUBSET K : s # {} /\ s \ {Pick(s)} \in P => s \in P
    PROVE  \A s \in SUBSET K : s \in P
<1> DEFINE S == {n \in Nat : \A s \in SUBSET K : Cardinality(s) = n => s \in P}
<1>1. 0 \in S
  <2> SUFFICES ASSUME NEW s \in SUBSET K, Cardinality(s) = 0 PROVE s \in P
    OBVIOUS
  <2>1. s = {}
    BY FS_Subset, FS_EmptySet
  <2> QED BY <2>1
<1>2. \A n \in Nat : n \in S => n + 1 \in S
  <2> SUFFICES ASSUME NEW n \in Nat, n \in S, NEW s \in SUBSET K, Cardinality(s) = n + 1
               PROVE  s \in P
    OBVIOUS
  <2>1. IsFiniteSet(s) /\ s # {}
    BY FS_Subset, FS_EmptySet
  <2>2. Pick(s) \in s
    BY <2>1 DEF Pick
  <2>3. Cardinality(s \ {Pick(s)}) = n
    <3>1. Cardinality(s \ {Pick(s)}) = Cardinality(s) - 1
      BY <2>1, <2>2, FS_RemoveElement
    <3>2. \A a \in Nat : a + 1 - 1 = a
      OBVIOUS
    <3> QED BY <3>1, <3>2
  <2>4. s \ {Pick(s)} \in P
    BY <2>3
  <2> QED BY <2>1, <2>4
<1> HIDE DEF S
<1>3. \A n \in Nat : n \in S
  BY <1>1, <1>2, AllNumbers
<1> SUFFICES ASSUME NEW s \in SUBSET K PROVE s \in P
  OBVIOUS
<1>4. Cardinality(s) \in Nat
  BY FS_Subset, FS_CardinalityType
<1> QED BY <1>3, <1>4 DEF S

SumOver(f, K) == MapThenSumSet(LAMBDA k : f[k], K)

\* The sum, subset by subset.
Adds(sums, f, K) ==
    sums = [s \in SUBSET K |-> IF s = {} THEN 0 ELSE f[Pick(s)] + sums[s \ {Pick(s)}]]

LEMMA SumIsLast ==
    ASSUME NEW f, NEW K
    PROVE  SumOver(f, K) = (CHOOSE sums : Adds(sums, f, K))[K]
  BY Zenon DEF SumOver, MapThenSumSet, MapThenFoldSet, Adds, Pick

\* There are such sums: subsets of one more element are added to those of fewer.
LEMMA SumsAdd ==
    ASSUME NEW K, IsFiniteSet(K), NEW f
    PROVE  \E sums : Adds(sums, f, K)
<1> DEFINE Upto(n) == {s \in SUBSET K : Cardinality(s) <= n}
           Part(sums, n) ==
               sums = [s \in Upto(n) |-> IF s = {} THEN 0 ELSE f[Pick(s)] + sums[s \ {Pick(s)}]]
           S == {n \in Nat : \E sums : Part(sums, n)}
<1>0. /\ \A s \in SUBSET K : IsFiniteSet(s) /\ Cardinality(s) \in Nat
      /\ \A s \in SUBSET K : s # {} =>
            /\ Pick(s) \in s /\ s \ {Pick(s)} \in SUBSET K
            /\ Cardinality(s \ {Pick(s)}) = Cardinality(s) - 1
            /\ Cardinality(s) # 0
      /\ Cardinality({}) = 0
  <2>1. \A s \in SUBSET K : IsFiniteSet(s) /\ Cardinality(s) \in Nat
    BY FS_Subset, FS_CardinalityType
  <2>2. \A s : s # {} => Pick(s) \in s
    BY DEF Pick
  <2> QED BY <2>1, <2>2, FS_RemoveElement, FS_EmptySet
<1>1. 0 \in S
  <2> DEFINE g == [s \in Upto(0) |-> 0]
  <2>1. \A s \in Upto(0) : s = {}
    <3> SUFFICES ASSUME NEW s \in SUBSET K, Cardinality(s) <= 0 PROVE s = {}
      OBVIOUS
    <3>1. Cardinality(s) \in Nat
      BY <1>0
    <3>2. Cardinality(s) = 0
      BY <3>1
    <3> QED BY <1>0, <3>2
  <2>2. Part(g, 0)
    BY <2>1
  <2> QED BY <2>2
<1>2. ASSUME NEW n \in Nat, n \in S
      PROVE  n + 1 \in S
  <2>1. PICK g : Part(g, n)
    BY <1>2
  <2> DEFINE h == [s \in Upto(n + 1) |-> IF s = {} THEN 0 ELSE f[Pick(s)] + g[s \ {Pick(s)}]]
  <2>2. \A s \in Upto(n) : s \in Upto(n + 1) /\ h[s] = g[s]
    <3>1. \A s \in Upto(n) : s \in Upto(n + 1)
      BY <1>0
    <3>2. \A s \in Upto(n) : g[s] = IF s = {} THEN 0 ELSE f[Pick(s)] + g[s \ {Pick(s)}]
      BY <2>1
    <3> HIDE DEF Upto
    <3> QED BY <3>1, <3>2
  <2>3. \A s \in Upto(n + 1) : s # {} => s \ {Pick(s)} \in Upto(n)
    BY <1>0
  <2>4. Part(h, n + 1)
    <3> HIDE DEF Upto
    <3>1. \A s \in Upto(n + 1) :
             (IF s = {} THEN 0 ELSE f[Pick(s)] + g[s \ {Pick(s)}])
               = (IF s = {} THEN 0 ELSE f[Pick(s)] + h[s \ {Pick(s)}])
      BY <2>2, <2>3
    <3>2. [s \in Upto(n + 1) |-> IF s = {} THEN 0 ELSE f[Pick(s)] + g[s \ {Pick(s)}]]
            = [s \in Upto(n + 1) |-> IF s = {} THEN 0 ELSE f[Pick(s)] + h[s \ {Pick(s)}]]
      BY <3>1
    <3> QED BY <3>2
  <2> HIDE DEF Part
  <2> QED BY <2>4
<1> HIDE DEF S
<1>3. \A n \in Nat : n \in S
  BY <1>1, <1>2, AllNumbers
<1>4. Cardinality(K) \in S
  BY <1>3, FS_CardinalityType
<1>5. Upto(Cardinality(K)) = SUBSET K
  BY FS_Subset
<1> HIDE DEF Upto
<1> QED BY <1>4, <1>5 DEF S, Adds

\* The sum as it grows, an element at a time.
Growing(sums, f, K) ==
    /\ SumOver(f, K) = sums[K] /\ sums[{}] = 0
    /\ \A s \in SUBSET K : s # {} => sums[s] = f[Pick(s)] + sums[s \ {Pick(s)}]

LEMMA SumEquation ==
    ASSUME NEW K, IsFiniteSet(K), NEW f
    PROVE  \E sums : Growing(sums, f, K)
<1> DEFINE g == CHOOSE sums : Adds(sums, f, K)
<1>1. Adds(g, f, K)
  BY SumsAdd
<1> HIDE DEF g
<1>2. g[{}] = 0 /\ \A s \in SUBSET K : s # {} => g[s] = f[Pick(s)] + g[s \ {Pick(s)}]
  BY <1>1 DEF Adds
<1>3. SumOver(f, K) = g[K]
  BY SumIsLast DEF g
<1> QED BY <1>2, <1>3 DEF Growing

\* A sum of numbers is a number.
LEMMA SumType ==
    ASSUME NEW K, IsFiniteSet(K), NEW f \in [K -> Nat]
    PROVE  SumOver(f, K) \in Nat
<1>0. PICK g : Growing(g, f, K)
  BY SumEquation
<1>1. /\ SumOver(f, K) = g[K] /\ g[{}] = 0
      /\ \A s \in SUBSET K : s # {} => g[s] = f[Pick(s)] + g[s \ {Pick(s)}]
  BY <1>0 DEF Growing
<1> DEFINE P == {s \in SUBSET K : g[s] \in Nat}
<1>2. {} \in P
  BY <1>1
<1>3. ASSUME NEW s \in SUBSET K, s # {}, s \ {Pick(s)} \in P
      PROVE  s \in P
  <2>1. Pick(s) \in K
    BY <1>3 DEF Pick
  <2>2. g[s] = f[Pick(s)] + g[s \ {Pick(s)}]
    BY <1>1, <1>3
  <2>3. s \ {Pick(s)} \in P /\ s \in SUBSET K
    BY <1>3
  <2> QED BY <2>1, <2>2, <2>3
<1> HIDE DEF P
<1>4. \A s \in SUBSET K : s \in P
  BY <1>2, <1>3, AllSubsets
<1> QED BY <1>1, <1>4 DEF P

\* A sum of zeros is zero.
LEMMA SumOfNothing ==
    ASSUME NEW K, IsFiniteSet(K), NEW f, \A k \in K : f[k] = 0
    PROVE  SumOver(f, K) = 0
<1>0. PICK g : Growing(g, f, K)
  BY SumEquation
<1>1. /\ SumOver(f, K) = g[K] /\ g[{}] = 0
      /\ \A s \in SUBSET K : s # {} => g[s] = f[Pick(s)] + g[s \ {Pick(s)}]
  BY <1>0 DEF Growing
<1> DEFINE P == {s \in SUBSET K : g[s] = 0}
<1>2. {} \in P
  BY <1>1
<1>3. ASSUME NEW s \in SUBSET K, s # {}, s \ {Pick(s)} \in P
      PROVE  s \in P
  <2>1. Pick(s) \in K
    BY <1>3 DEF Pick
  <2>2. g[s] = f[Pick(s)] + g[s \ {Pick(s)}]
    BY <1>1, <1>3
  <2>3. s \ {Pick(s)} \in P /\ s \in SUBSET K
    BY <1>3
  <2> QED BY <2>1, <2>2, <2>3
<1> HIDE DEF P
<1>4. \A s \in SUBSET K : s \in P
  BY <1>2, <1>3, AllSubsets
<1> QED BY <1>1, <1>4 DEF P

\* A sum follows a change of one of its numbers.
LEMMA SumFollows ==
    ASSUME NEW K, IsFiniteSet(K), NEW f \in [K -> Nat], NEW k \in K, NEW v \in Nat
    PROVE  SumOver([f EXCEPT ![k] = v], K) + f[k] = SumOver(f, K) + v
<1> DEFINE e == [f EXCEPT ![k] = v]
<1>0. e \in [K -> Nat] /\ e[k] = v /\ \A x \in K : x # k => e[x] = f[x]
  OBVIOUS
<1> HIDE DEF e
<1>10. PICK g : Growing(g, f, K)
  BY SumEquation
<1>1. /\ SumOver(f, K) = g[K] /\ g[{}] = 0
      /\ \A s \in SUBSET K : s # {} => g[s] = f[Pick(s)] + g[s \ {Pick(s)}]
  BY <1>10 DEF Growing
<1>20. PICK h : Growing(h, e, K)
  BY SumEquation
<1>2. /\ SumOver(e, K) = h[K] /\ h[{}] = 0
      /\ \A s \in SUBSET K : s # {} => h[s] = e[Pick(s)] + h[s \ {Pick(s)}]
  BY <1>20 DEF Growing
<1> DEFINE P == {s \in SUBSET K : /\ g[s] \in Nat /\ h[s] \in Nat
                                 /\ IF k \in s THEN h[s] + f[k] = g[s] + v ELSE h[s] = g[s]}
<1>3. {} \in P
  BY <1>1, <1>2
<1>4. ASSUME NEW s \in SUBSET K, s # {}, s \ {Pick(s)} \in P
      PROVE  s \in P
  <2> DEFINE x == Pick(s)
             r == s \ {Pick(s)}
  <2>1. x \in s /\ x \in K
    BY <1>4 DEF Pick
  <2>2. g[s] = f[x] + g[r] /\ h[s] = e[x] + h[r] /\ g[r] \in Nat /\ h[r] \in Nat
        /\ f[x] \in Nat /\ e[x] \in Nat /\ f[k] \in Nat
    BY <1>0, <1>1, <1>2, <1>4, <2>1
  <2>3. IF k \in r THEN h[r] + f[k] = g[r] + v ELSE h[r] = g[r]
    BY <1>4
  <2>4. k \in s <=> (k \in r \/ k = x)
    BY <2>1
  <2>5. k = x => k \notin r
    OBVIOUS
  <2> HIDE DEF x, r
  <2>6. CASE k = x
    <3>1. g[s] = f[k] + g[r] /\ h[s] = v + g[r] /\ k \in s
      BY <1>0, <2>2, <2>3, <2>4, <2>5, <2>6
    <3>2. \A a, b \in Nat : (v + a) + b = (b + a) + v /\ v + a \in Nat /\ b + a \in Nat
      OBVIOUS
    <3> QED BY <3>1, <3>2, <2>2
  <2>7. CASE k # x /\ k \in s
    <3>1. h[r] + f[k] = g[r] + v /\ e[x] = f[x]
      BY <1>0, <2>1, <2>3, <2>4, <2>7
    <3>2. \A a, b, c, d \in Nat : b + c = d + v => (a + b) + c = (a + d) + v /\ a + b \in Nat /\ a + d \in Nat
      OBVIOUS
    <3>3. (f[x] + h[r]) + f[k] = (f[x] + g[r]) + v /\ f[x] + h[r] \in Nat /\ f[x] + g[r] \in Nat
      BY <3>1, <3>2, <2>2
    <3> QED BY <3>1, <3>3, <2>2, <2>7
  <2>8. CASE k \notin s
    <3>1. h[r] = g[r] /\ e[x] = f[x] /\ f[x] + g[r] \in Nat
      BY <1>0, <2>1, <2>2, <2>3, <2>4, <2>8
    <3> QED BY <3>1, <2>2, <2>8
  <2> QED BY <2>6, <2>7, <2>8
<1> HIDE DEF P
<1>5. \A s \in SUBSET K : s \in P
  BY <1>3, <1>4, AllSubsets
<1>6. K \in P /\ k \in K
  BY <1>5
<1>7. h[K] + f[k] = g[K] + v
  BY <1>6 DEF P
<1> QED BY <1>1, <1>2, <1>7 DEF e

-----------------------------------------------------------------------------
(* The batch.                                                              *)

LEMMA TotalIsSum == Total = SumOver(pending, Keys) /\ Total' = SumOver(pending', Keys)
<1>1. Total = SumOver(pending, Keys)
  BY Zenon DEF Total, SumOver, MapThenSumSet, MapThenFoldSet
<1>2. Total' = SumOver(pending', Keys)
  BY Zenon DEF Total, SumOver, MapThenSumSet, MapThenFoldSet
<1> QED BY <1>1, <1>2

LEMMA TotalIsNumber ==
    ASSUME CacheAssumption, TypeOK
    PROVE  /\ Total \in Nat
           /\ (\A k \in Keys : pending[k] = 0) => Total = 0
  BY TotalIsSum, SumType, SumOfNothing DEF CacheAssumption, TypeOK

LEMMA TotalFollows ==
    ASSUME CacheAssumption, TypeOK, NEW k \in Keys, NEW v \in Nat,
           pending' = [pending EXCEPT ![k] = v]
    PROVE  Total' + pending[k] = Total + v
<1>1. IsFiniteSet(Keys) /\ pending \in [Keys -> Nat]
  BY DEF CacheAssumption, TypeOK
<1>2. SumOver([pending EXCEPT ![k] = v], Keys) + pending[k] = SumOver(pending, Keys) + v
  BY <1>1, SumFollows
<1>3. SumOver(pending', Keys) = SumOver([pending EXCEPT ![k] = v], Keys)
  OBVIOUS
<1> QED BY <1>2, <1>3, TotalIsSum

LEMMA UnseenIsFew ==
    ASSUME CacheAssumption
    PROVE  /\ IsFiniteSet(Unseen) /\ Cardinality(Unseen) \in Nat
           /\ Cardinality(Keys) \in Nat /\ Cardinality(Unseen) <= Cardinality(Keys)
<1>1. Unseen \subseteq Keys
  BY DEF Unseen
<1> QED BY <1>1, FS_Subset, FS_CardinalityType DEF CacheAssumption

LEMMA TwoMore ==
    ASSUME NEW S, NEW c \in Seq(S), NEW two \in Seq(S), Len(two) = 2
    PROVE  /\ Len(c \o two) = Len(c) + 2 /\ DOMAIN (c \o two) = 1..(Len(c) + 2)
           /\ \A n \in 1..(Len(c) + 2) : (c \o two)[n] = IF n <= Len(c) THEN c[n] ELSE two[n - Len(c)]
<1>1. /\ c \o two \in Seq(S) /\ Len(c \o two) = Len(c) + 2
      /\ \A n \in 1..(Len(c) + 2) : (c \o two)[n] = IF n <= Len(c) THEN c[n] ELSE two[n - Len(c)]
  <2>1. /\ c \o two \in Seq(S) /\ Len(c \o two) = Len(c) + Len(two)
        /\ \A n \in 1..(Len(c) + Len(two)) :
              (c \o two)[n] = IF n <= Len(c) THEN c[n] ELSE two[n - Len(c)]
    BY Zenon, ConcatProperties
  <2>2. Len(c) + Len(two) = Len(c) + 2
    OBVIOUS
  <2> QED BY Zenon, <2>1, <2>2
<1> DEFINE both == c \o two
<1>2. both \in Seq(S)
  BY <1>1
<1> HIDE DEF both
<1>3. DOMAIN both = 1..Len(both)
  BY <1>2
<1> QED BY <1>1, <1>3 DEF both

\* A tombstone is only ever appended after its delete.
LEMMA TombstonesStep ==
    ASSUME TypeOK, TombstoneFollowsDelete, [Next]_vars
    PROVE  TombstoneFollowsDelete'
<1>1. \A k \in Keys : changes[k] \in Seq({"write", "delete", "tombstone"})
  BY DEF TypeOK
<1>2. ASSUME NEW k \in Keys, Save(k) \/ Remove(k)
      PROVE  TombstoneFollowsDelete'
  <2> SUFFICES ASSUME NEW j \in Keys, NEW i \in DOMAIN changes'[j], changes'[j][i] = "tombstone"
               PROVE  i > 1 /\ changes'[j][i - 1] = "delete"
    BY DEF TombstoneFollowsDelete
  <2>1. CASE j # k
    <3>1. changes'[j] = changes[j]
      BY <1>2, <2>1 DEF Save, Remove, TypeOK
    <3> QED BY <3>1 DEF TombstoneFollowsDelete
  <2>2. Len(changes[k]) \in Nat /\ DOMAIN changes[k] = 1..Len(changes[k])
    BY <1>1
  <2>3. CASE j = k /\ Save(k)
    <3>1. changes'[j] = Append(changes[k], "write")
      BY <2>3 DEF Save, TypeOK
    <3>2. /\ DOMAIN changes'[j] = 1..(Len(changes[k]) + 1)
          /\ \A n \in 1..Len(changes[k]) : changes'[j][n] = changes[k][n]
          /\ changes'[j][Len(changes[k]) + 1] = "write"
      BY <1>1, <3>1
    <3>3. i \in 1..Len(changes[k])
      BY <2>2, <3>2
    <3>4. i > 1 /\ changes[k][i - 1] = "delete"
      BY <2>2, <3>2, <3>3 DEF TombstoneFollowsDelete
    <3>5. i - 1 \in 1..Len(changes[k])
      BY <2>2, <3>3, <3>4
    <3> QED BY <3>2, <3>4, <3>5
  <2>4. CASE j = k /\ Remove(k)
    <3> DEFINE two == <<"delete", "tombstone">>
    <3>1. changes'[j] = changes[k] \o two
      BY <2>4 DEF Remove, TypeOK
    <3>2. two \in Seq({"write", "delete", "tombstone"}) /\ Len(two) = 2
          /\ two[1] = "delete" /\ two[2] = "tombstone"
      OBVIOUS
    <3> HIDE DEF two
    <3>3. /\ DOMAIN changes'[j] = 1..(Len(changes[k]) + 2)
          /\ \A n \in 1..Len(changes[k]) : changes'[j][n] = changes[k][n]
          /\ changes'[j][Len(changes[k]) + 1] = "delete"
          /\ changes'[j][Len(changes[k]) + 2] = "tombstone"
      <4> DEFINE c == changes[k]
                 S == {"write", "delete", "tombstone"}
      <4>1. c \in Seq(S) /\ two \in Seq(S) /\ Len(c) \in Nat
        BY <1>1, <2>2, <3>2
      <4> HIDE DEF c, S
      <4>2. Len(c \o two) = Len(c) + 2 /\ DOMAIN (c \o two) = 1..(Len(c) + 2)
        BY <3>2, <4>1, TwoMore
      <4>3. \A n \in 1..(Len(c) + 2) : (c \o two)[n] = IF n <= Len(c) THEN c[n] ELSE two[n - Len(c)]
        BY <3>2, <4>1, TwoMore
      <4>4. /\ \A n \in 1..Len(c) : n \in 1..(Len(c) + 2) /\ n <= Len(c)
            /\ Len(c) + 1 \in 1..(Len(c) + 2) /\ ~(Len(c) + 1 <= Len(c)) /\ (Len(c) + 1) - Len(c) = 1
            /\ Len(c) + 2 \in 1..(Len(c) + 2) /\ ~(Len(c) + 2 <= Len(c)) /\ (Len(c) + 2) - Len(c) = 2
        BY <4>1
      <4>5. /\ \A n \in 1..Len(c) : (c \o two)[n] = c[n]
            /\ (c \o two)[Len(c) + 1] = "delete" /\ (c \o two)[Len(c) + 2] = "tombstone"
        BY <3>2, <4>3, <4>4
      <4>6. changes'[j] = c \o two
        BY <3>1 DEF c
      <4> QED BY <4>2, <4>5, <4>6 DEF c
    <3>4. CASE i \in 1..Len(changes[k])
      <4>1. i > 1 /\ changes[k][i - 1] = "delete"
        BY <2>2, <3>3, <3>4 DEF TombstoneFollowsDelete
      <4>2. i - 1 \in 1..Len(changes[k])
        BY <2>2, <3>4, <4>1
      <4> QED BY <3>3, <4>1, <4>2
    <3>5. CASE i \notin 1..Len(changes[k])
      <4>1. i = Len(changes[k]) + 1 \/ i = Len(changes[k]) + 2
        BY <2>2, <3>3, <3>5
      <4>2. i = Len(changes[k]) + 2
        BY <3>3, <4>1
      <4>3. i > 1 /\ i - 1 = Len(changes[k]) + 1
        BY <2>2, <4>2
      <4> QED BY <3>3, <4>3
    <3> QED BY <3>4, <3>5
  <2> QED BY <1>2, <2>1, <2>3, <2>4
<1>3. CASE changes' = changes
  BY <1>3 DEF TombstoneFollowsDelete
<1>4. CASE ~\E k \in Keys : Save(k) \/ Remove(k)
  <2>1. changes' = changes
    BY <1>4 DEF Next, Step, Traffic, Read, Apply, NotDue, Due, Applied, Commit,
       Restart, Crash, Begin, Leave, DecodeFails, CommitFails, vars
  <2> QED BY <2>1, <1>3
<1> QED BY <1>2, <1>4

\* Reading a message: the batch grows by one, and a tombstone's row had none
\* that was not looked at.
LEMMA BatchGrows ==
    ASSUME CacheAssumption, TypeOK, Inductive, LookedAt, NEW k \in Keys, Read(k)
    PROVE  BatchStaysSmall' /\ (pc' = "read" => Total' < BatchSize + Cardinality(Unseen'))
<1>1. pc = "read" /\ position[k] < Len(changes[k]) /\ position[k] \in Nat
      /\ Len(changes[k]) \in Nat /\ pending[k] \in Nat /\ position[k] + 1 \in DOMAIN changes[k]
  <2>1. changes[k] \in Seq({"write", "delete", "tombstone"})
    BY DEF TypeOK
  <2>2. pc = "read" /\ position[k] < Len(changes[k]) /\ position[k] \in Nat /\ pending[k] \in Nat
    BY DEF Read, TypeOK
  <2> QED BY <2>1, <2>2
<1>2. Total' = Total + 1 /\ Total \in Nat
  <2>1. pending' = [pending EXCEPT ![k] = pending[k] + 1]
    <3> DEFINE x == pending[k] + 1
    <3>1. pending' = [pending EXCEPT ![k] = @ + 1]
      BY DEF Read
    <3>2. pending \in [Keys -> Nat]
      BY DEF TypeOK
    <3>3. \A j \in Keys : pending'[j] = [pending EXCEPT ![k] = pending[k] + 1][j]
      BY <3>1, <3>2
    <3> QED BY <3>1
  <2>2. Total' + pending[k] = Total + (pending[k] + 1)
    <3> DEFINE v == pending[k] + 1
    <3>1. v \in Nat
      BY <1>1
    <3>2. pending' = [pending EXCEPT ![k] = v]
      BY <2>1
    <3> HIDE DEF v
    <3>3. Total' + pending[k] = Total + v
      BY <3>1, <3>2, TotalFollows
    <3> QED BY <3>3 DEF v
  <2>3. Total \in Nat
    BY TotalIsNumber
  <2>4. Total' \in Nat
    <3>1. pending' \in [Keys -> Nat]
      BY <1>1, <2>1 DEF TypeOK
    <3> QED BY <3>1, TotalIsSum, SumType DEF CacheAssumption
  <2>5. \A a, b, c \in Nat : a + c = b + (c + 1) => a = b + 1
    OBVIOUS
  <2> QED BY <1>1, <2>2, <2>3, <2>4, <2>5
<1>3. /\ Cardinality(Unseen) \in Nat /\ Cardinality(Keys) \in Nat /\ IsFiniteSet(Unseen)
      /\ Cardinality(Unseen) <= Cardinality(Keys) /\ BatchSize \in Nat
  BY UnseenIsFew DEF CacheAssumption
<1>4. Total < BatchSize + Cardinality(Unseen)
  BY <1>1 DEF LookedAt
<1>5. CASE changes[k][position[k] + 1] # "tombstone"
  <2>1. pc' # "read"
    BY <1>5 DEF Read
  <2>2. Total + 1 <= BatchSize + Cardinality(Keys)
    BY <1>2, <1>3, <1>4
  <2> QED BY <1>2, <2>1, <2>2 DEF BatchStaysSmall
<1>6. CASE changes[k][position[k] + 1] = "tombstone"
  <2>1. position[k] > 0 /\ changes[k][position[k]] = "delete"
    <3>1. position[k] + 1 > 1 /\ changes[k][(position[k] + 1) - 1] = "delete"
      BY <1>1, <1>6 DEF LookedAt, TombstoneFollowsDelete
    <3>2. (position[k] + 1) - 1 = position[k] /\ position[k] > 0
      BY <1>1, <3>1
    <3> QED BY <3>1, <3>2
  <2>2. k \notin Unseen
    BY <2>1 DEF Unseen
  <2>3. Unseen' = Unseen \cup {k}
    <3>1. changes' = changes /\ position'[k] = position[k] + 1
          /\ \A j \in Keys : j # k => position'[j] = position[j]
      BY DEF Read, TypeOK
    <3>2. position[k] + 1 > 0
      BY <1>1
    <3>3. \A j \in Keys : j \in Unseen' <=> j \in Unseen \cup {k}
      BY <1>6, <3>1, <3>2 DEF Unseen
    <3> QED BY <3>3 DEF Unseen
  <2>4. Cardinality(Unseen') = Cardinality(Unseen) + 1
    BY <1>3, <2>2, <2>3, FS_AddElement
  <2>5. Cardinality(Unseen') <= Cardinality(Keys)
    <3>1. Unseen' \subseteq Keys
      BY DEF Unseen
    <3> QED BY <3>1, FS_Subset DEF CacheAssumption
  <2>6. Total' < BatchSize + Cardinality(Unseen')
    BY <1>2, <1>3, <1>4, <2>4
  <2>7. Total' <= BatchSize + Cardinality(Keys)
    BY <1>2, <1>3, <2>4, <2>5, <2>6
  <2> QED BY <2>6, <2>7 DEF BatchStaysSmall
<1> QED BY <1>5, <1>6

LEMMA LookedAtStep ==
    ASSUME CacheAssumption, TypeOK, TypeOK', Inductive, Inductive', LookedAt, [Next]_vars
    PROVE  LookedAt'
<1> DEFINE Goal == BatchStaysSmall' /\ (pc' = "read" => Total' < BatchSize + Cardinality(Unseen'))
<1>0. TombstoneFollowsDelete'
  BY TombstonesStep DEF LookedAt
<1> SUFFICES Goal
  BY <1>0 DEF LookedAt
<1>1. /\ Total \in Nat /\ BatchSize \in Nat \ {0} /\ Cardinality(Keys) \in Nat
      /\ Cardinality(Unseen) \in Nat
  BY TotalIsNumber, UnseenIsFew DEF CacheAssumption
<1>2. Cardinality(Unseen') \in Nat
  <2>1. Unseen' \subseteq Keys
    BY DEF Unseen
  <2> QED BY <2>1, FS_Subset, FS_CardinalityType DEF CacheAssumption
<1>3. (\A k \in Keys : pending'[k] = 0) => Goal
  <2> SUFFICES ASSUME \A k \in Keys : pending'[k] = 0 PROVE Goal
    OBVIOUS
  <2>1. Total' = 0
    BY TotalIsSum, SumOfNothing DEF CacheAssumption
  <2>2. 0 <= BatchSize + Cardinality(Keys) /\ 0 < BatchSize + Cardinality(Unseen')
    BY <1>1, <1>2
  <2> QED BY <2>1, <2>2 DEF BatchStaysSmall
<1>4. ASSUME pending' = pending
      PROVE  Total' = Total
  BY <1>4, TotalIsSum
<1>5. ASSUME NEW k \in Keys, Save(k) \/ Remove(k)
      PROVE  Goal
  <2>1. pending' = pending /\ position' = position /\ pc' = pc
    BY <1>5 DEF Save, Remove
  <2>2. \A j \in Keys : position[j] > 0 => changes'[j][position[j]] = changes[j][position[j]]
    <3> SUFFICES ASSUME NEW j \in Keys, position[j] > 0
                 PROVE  changes'[j][position[j]] = changes[j][position[j]]
      OBVIOUS
    <3>1. changes[j] \in Seq({"write", "delete", "tombstone"})
      BY DEF TypeOK
    <3>2. position[j] \in 1..Len(changes[j])
      <4>1. position[j] \in Nat /\ Len(changes[j]) \in Nat /\ position[j] <= Len(changes[j])
        BY <3>1 DEF TypeOK, Inductive
      <4> QED BY <4>1
    <3>3. CASE changes'[j] = changes[j]
      BY <3>3
    <3>4. CASE changes'[j] = Append(changes[j], "write")
      BY <3>1, <3>2, <3>4
    <3>5. CASE changes'[j] = changes[j] \o <<"delete", "tombstone">>
      <4>1. <<"delete", "tombstone">> \in Seq({"write", "delete", "tombstone"})
        OBVIOUS
      <4> QED BY <3>1, <3>2, <3>5, <4>1
    <3> QED BY <1>5, <3>3, <3>4, <3>5 DEF Save, Remove, TypeOK
  <2>3. Unseen' = Unseen
    BY <2>1, <2>2 DEF Unseen
  <2> QED BY <1>4, <2>1, <2>3 DEF LookedAt, BatchStaysSmall
<1>6. ASSUME NEW k \in Keys, Read(k)
      PROVE  Goal
  BY <1>6, BatchGrows
<1>7. ASSUME NEW k \in Keys, Apply(k)
      PROVE  Goal
  <2>1. pending' = [pending EXCEPT ![k] = 0] /\ pc' # "read" /\ pending[k] \in Nat
    BY <1>7 DEF Apply, TypeOK
  <2>2. Total' + pending[k] = Total + 0
    BY <2>1, TotalFollows
  <2>3. Total' \in Nat
    BY TotalIsSum, SumType DEF CacheAssumption, TypeOK
  <2>4. Total <= BatchSize + Cardinality(Keys)
    BY DEF LookedAt, BatchStaysSmall
  <2>5. \A a, b, c, d \in Nat : a + b = c + 0 /\ c <= d => a <= d
    OBVIOUS
  <2>6. BatchSize + Cardinality(Keys) \in Nat
    BY <1>1
  <2>7. Total' <= BatchSize + Cardinality(Keys)
    BY <1>1, <2>1, <2>2, <2>3, <2>4, <2>5, <2>6
  <2> QED BY <2>1, <2>7 DEF BatchStaysSmall
<1>8. CASE NotDue
  <2>1. pending' = pending /\ Total < BatchSize
    BY <1>8 DEF NotDue
  <2>2. Total < BatchSize + Cardinality(Unseen') /\ Total <= BatchSize + Cardinality(Keys)
    BY <1>1, <1>2, <2>1
  <2> QED BY <1>4, <2>1, <2>2 DEF BatchStaysSmall
<1>9. CASE Due \/ Applied \/ Leave \/ \E k \in Keys : DecodeFails(k)
  <2>1. pending' = pending /\ pc' # "read"
    BY <1>9 DEF Due, Applied, Leave, DecodeFails, Finally
  <2> QED BY <1>4, <2>1 DEF LookedAt, BatchStaysSmall
<1>10. CASE Commit \/ CommitFails \/ Restart \/ Crash
  <2>1. \A k \in Keys : pending'[k] = 0
    BY <1>10 DEF Commit, CommitFails, Restart, Crash, Begin, Inductive
  <2> QED BY <1>3, <2>1
<1>11. CASE UNCHANGED vars
  <2>1. pending' = pending /\ pc' = pc /\ Unseen' = Unseen
    BY <1>11 DEF vars, Unseen
  <2> QED BY <1>4, <2>1 DEF LookedAt, BatchStaysSmall
<1> QED BY <1>5, <1>6, <1>7, <1>8, <1>9, <1>10, <1>11
        DEF Next, Step, Traffic

\* However many rows are deleted at once, a batch never outgrows its limit by
\* more than a message of each row.
THEOREM BatchIsBounded == Spec => []BatchStaysSmall
<1>1. Init => TypeOK /\ Inductive /\ LookedAt
  <2> SUFFICES ASSUME Init PROVE LookedAt
    BY CacheAssumption, InitType, InductiveInit
  <2>1. Total = 0
    BY CacheAssumption, InitType, TotalIsNumber DEF Init
  <2>2. BatchSize \in Nat \ {0} /\ Cardinality(Keys) \in Nat /\ Cardinality(Unseen) \in Nat
    BY CacheAssumption, UnseenIsFew DEF CacheAssumption
  <2>3. TombstoneFollowsDelete
    BY DEF Init, TombstoneFollowsDelete
  <2> QED BY <2>1, <2>2, <2>3 DEF LookedAt, BatchStaysSmall
<1>2. (TypeOK /\ Inductive /\ LookedAt) /\ [Next]_vars => (TypeOK /\ Inductive /\ LookedAt)'
  BY CacheAssumption, TypeStep, InductiveStep, LookedAtStep
<1>3. LookedAt => BatchStaysSmall
  BY DEF LookedAt
<1> QED BY <1>1, <1>2, <1>3, PTL DEF Spec
=============================================================================
