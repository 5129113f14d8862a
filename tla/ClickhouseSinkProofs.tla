------------------------ MODULE ClickhouseSinkProofs ------------------------
(* What is proved about ClickhouseSink, for every value of its constants.  *)
EXTENDS ClickhouseSink, SequenceTheorems, FiniteSetTheorems, TLAPS

(***************************************************************************)
(* Rows of a sequence.                                                     *)
(***************************************************************************)
\* A concatenation holds the rows of both parts.
LEMMA RowsOfConcat ==
    ASSUME NEW S, NEW a \in Seq(S), NEW b \in Seq(S)
    PROVE  Rows(a \o b) = Rows(a) \cup Rows(b)
<1>1. DOMAIN (a \o b) = 1..(Len(a) + Len(b)) /\ Len(a) \in Nat /\ Len(b) \in Nat
  OBVIOUS
<1>2. \A i \in 1..Len(a) : (a \o b)[i] = a[i]
  OBVIOUS
<1>3. \A i \in 1..Len(b) : (a \o b)[Len(a) + i] = b[i]
  OBVIOUS
<1>4. Rows(a) \cup Rows(b) \subseteq Rows(a \o b)
  <2>1. \A i \in 1..Len(b) : Len(a) + i \in 1..(Len(a) + Len(b))
    BY <1>1
  <2>2. ASSUME NEW x \in Rows(a)
        PROVE  x \in Rows(a \o b)
    <3>1. PICK i \in 1..Len(a) : x = a[i]
      BY DEF Rows
    <3>2. i \in DOMAIN (a \o b) /\ (a \o b)[i] = x
      BY <3>1, <1>1, <1>2
    <3>3. QED
      BY <3>2 DEF Rows
  <2>3. ASSUME NEW x \in Rows(b)
        PROVE  x \in Rows(a \o b)
    <3>1. PICK i \in 1..Len(b) : x = b[i]
      BY DEF Rows
    <3>2. Len(a) + i \in DOMAIN (a \o b) /\ (a \o b)[Len(a) + i] = x
      BY <3>1, <1>1, <1>3, <2>1
    <3>3. QED
      BY <3>2 DEF Rows
  <2>4. QED
    BY <2>2, <2>3
<1>5. Rows(a \o b) \subseteq Rows(a) \cup Rows(b)
  <2>1. SUFFICES ASSUME NEW i \in 1..(Len(a) + Len(b))
                 PROVE  (a \o b)[i] \in Rows(a) \cup Rows(b)
    BY <1>1 DEF Rows
  <2>2. CASE i <= Len(a)
    BY <2>2, <1>1, <1>2 DEF Rows
  <2>3. CASE i > Len(a)
    <3>1. i - Len(a) \in 1..Len(b) /\ Len(a) + (i - Len(a)) = i
      BY <2>3, <1>1
    <3>2. QED
      BY <3>1, <1>3 DEF Rows
  <2>4. QED
    BY <2>2, <2>3, <1>1
<1>6. QED
  BY <1>4, <1>5

\* Append adds one row.
LEMMA RowsOfAppend ==
    ASSUME NEW S, NEW a \in Seq(S), NEW e \in S
    PROVE  Rows(Append(a, e)) = Rows(a) \cup {e}
<1>1. Append(a, e) = a \o <<e>> /\ <<e>> \in Seq(S)
  OBVIOUS
<1>2. Rows(<<e>>) = {e}
  BY DEF Rows
<1>3. Rows(a \o <<e>>) = Rows(a) \cup Rows(<<e>>)
  BY <1>1, RowsOfConcat
<1>4. QED
  BY <1>1, <1>2, <1>3

\* Dropping the oldest id forgets, and never invents one.
LEMMA RowsOfTail ==
    ASSUME NEW S, NEW a \in Seq(S), a # <<>>
    PROVE  Rows(Tail(a)) \subseteq Rows(a)
  BY DEF Rows

LEMMA NoRows == Rows(<<>>) = {}
  BY DEF Rows

(***************************************************************************)
(* Types.                                                                  *)
(***************************************************************************)
\* SeenEvents stays a bounded sequence of ids, and holds no other id than it
\* held and the one accepted.
LEMMA RememberedType ==
    ASSUME SinkAssumption, TypeOK, NEW e \in Topics \X Nat
    PROVE  /\ Remembered(e) \in Seq(Topics \X Nat) /\ Len(Remembered(e)) <= Capacity
           /\ Rows(Remembered(e)) \subseteq Rows(seen) \cup {e}
<1>1. seen \in Seq(Topics \X Nat) /\ Len(seen) <= Capacity /\ Capacity \in Nat /\ Len(seen) \in Nat
  BY DEF TypeOK, SinkAssumption
<1>2. /\ Append(seen, e) \in Seq(Topics \X Nat) /\ Len(Append(seen, e)) = Len(seen) + 1
      /\ Append(seen, e) # <<>>
  BY <1>1, AppendProperties
<1>3. Rows(Append(seen, e)) = Rows(seen) \cup {e}
  BY <1>1, RowsOfAppend
<1>4. /\ Tail(Append(seen, e)) \in Seq(Topics \X Nat)
      /\ Len(Tail(Append(seen, e))) = Len(seen)
      /\ Rows(Tail(Append(seen, e))) \subseteq Rows(Append(seen, e))
  <2>1. Rows(Tail(Append(seen, e))) \subseteq Rows(Append(seen, e))
    BY <1>2, RowsOfTail
  <2>2. QED
    BY <1>1, <1>2, <2>1
<1>5. QED
  BY <1>1, <1>2, <1>3, <1>4 DEF Remembered

LEMMA InitType == SinkAssumption /\ Init => TypeOK
<1> SUFFICES ASSUME SinkAssumption, Init PROVE TypeOK
  OBVIOUS
<1>1. seen \in Seq(Topics \X Nat) /\ Len(seen) <= Capacity
  BY DEF Init, SinkAssumption
<1>2. tables \in [Stored -> Seq(Nat)] /\ waiting \in [Stored -> Seq(Nat)]
  BY DEF Init
<1>3. faults \in 0..MaxFaults
  BY DEF Init, SinkAssumption
<1>4. QED
  BY <1>1, <1>2, <1>3 DEF Init, TypeOK

LEMMA TypeStep ==
    ASSUME SinkAssumption, TypeOK, [Next]_vars
    PROVE  TypeOK'
<1> USE SinkAssumption DEF TypeOK
<1>1. ASSUME NEW t \in Topics, Produce(t)
      PROVE  TypeOK'
  BY <1>1 DEF Produce, memory
<1>2. ASSUME NEW t \in Topics, Read(t)
      PROVE  TypeOK'
  <2>1. <<t, position[t] + 1>> \in Topics \X Nat
    OBVIOUS
  <2>2. seen' \in Seq(Topics \X Nat) /\ Len(seen') <= Capacity
    BY <1>2, <2>1, RememberedType DEF Read
  <2>3. waiting' \in [Stored -> Seq(Nat)]
    BY <1>2 DEF Read
  <2>4. position' \in [Topics -> Nat] /\ raised' \subseteq Topics \X Nat
    BY <1>2 DEF Read
  <2>5. QED
    BY <1>2, <2>2, <2>3, <2>4 DEF Read
<1>3. CASE NotDue \/ Due \/ Flushed
  BY <1>3 DEF NotDue, Due, Flushed
<1>4. ASSUME NEW t \in Stored, Insert(t)
      PROVE  TypeOK'
  BY <1>4 DEF Insert
<1>5. CASE Commit
  BY <1>5 DEF Commit
<1>6. ASSUME Fault
      PROVE  faults' \in 0..MaxFaults
  BY <1>6 DEF Fault, SinkAssumption
<1>7. ASSUME Begin, faults' \in 0..MaxFaults
      PROVE  TypeOK'
  <2>1. seen' \in Seq(Topics \X Nat) /\ Len(seen') <= Capacity
    BY <1>7 DEF Begin, SinkAssumption
  <2>2. waiting' \in [Stored -> Seq(Nat)]
    BY <1>7 DEF Begin
  <2>3. QED
    BY <1>7, <2>1, <2>2 DEF Begin
<1>8. CASE Restart \/ Crash
  BY <1>6, <1>7, <1>8 DEF Restart, Crash
<1>9. CASE Rejoin \/ Leave \/ CommitFails
  BY <1>6, <1>9 DEF Rejoin, Leave, CommitFails, Raise
<1>11. ASSUME NEW t \in Stored, InsertFails(t)
      PROVE  TypeOK'
  <2>1. tables' \in [Stored -> Seq(Nat)]
    <3>1. [tables EXCEPT ![t] = @ \o waiting[t]] \in [Stored -> Seq(Nat)]
      OBVIOUS
    <3>2. QED
      BY <1>11, <3>1 DEF InsertFails
  <2>2. QED
    BY <1>6, <1>11, <2>1 DEF InsertFails, Raise
<1>13. ASSUME NEW t \in Topics, DecodeFails(t) \/ LookupFails(t)
       PROVE  TypeOK'
  <2>1. <<t, position[t] + 1>> \in Topics \X Nat
    OBVIOUS
  <2>2. seen' \in Seq(Topics \X Nat) /\ Len(seen') <= Capacity
    BY <1>13, <2>1, RememberedType DEF DecodeFails, LookupFails
  <2>3. HandlingRaises(t)
    BY <1>13 DEF DecodeFails, LookupFails
  <2>4. position' \in [Topics -> Nat] /\ raised' \subseteq Topics \X Nat
    BY <2>1, <2>3 DEF HandlingRaises
  <2>5. faults' \in 0..MaxFaults
    BY <1>6, <2>3 DEF HandlingRaises
  <2>6. QED
    BY <2>2, <2>3, <2>4, <2>5 DEF HandlingRaises, Raise
<1>10. CASE UNCHANGED vars
  BY <1>10 DEF vars, memory
<1>14. \A t \in Enriched : t \in Topics
  BY DEF SinkAssumption, Topics
<1>12. QED
  BY <1>1, <1>2, <1>3, <1>4, <1>5, <1>8, <1>9, <1>10, <1>11, <1>13, <1>14
     DEF Next, RebalanceNext, Step, Traffic

\* Every variable keeps its type.
THEOREM SinkTypeCorrect == Spec => []TypeOK
<1>1. Init => TypeOK
  BY SinkAssumption, InitType
<1>2. TypeOK /\ [Next]_vars => TypeOK'
  BY SinkAssumption, TypeStep
<1>3. QED
  BY <1>1, <1>2, PTL DEF Spec

(***************************************************************************)
(* Nothing is lost.                                                        *)
(***************************************************************************)
Having(t) == Rows(tables[t]) \cup Rows(waiting[t])

\* An insert moves rows from the batch to the table; one whose answer is
\* lost copies them.  Nothing leaves the hand.
LEMMA InsertKeeps ==
    ASSUME TypeOK, NEW t \in Stored,
           \/ tables' = [tables EXCEPT ![t] = @ \o waiting[t]] /\ waiting' = waiting
           \/ /\ tables' = [tables EXCEPT ![t] = @ \o waiting[t]]
              /\ waiting' = [waiting EXCEPT ![t] = <<>>]
           \/ tables' = tables /\ waiting' = waiting
    PROVE  /\ \A u \in Stored : Having(u)' = Having(u)
           /\ \A u \in Stored : Rows(tables[u]) \subseteq Rows(tables'[u])
<1> USE DEF Having
<1>1. Rows(tables[t] \o waiting[t]) = Rows(tables[t]) \cup Rows(waiting[t])
  <2>1. tables[t] \in Seq(Nat) /\ waiting[t] \in Seq(Nat)
    BY DEF TypeOK
  <2>2. QED
    BY <2>1, RowsOfConcat
<1>2. Rows(<<>>) = {}
  BY NoRows
<1>3. SUFFICES ASSUME NEW u \in Stored
               PROVE  Having(u)' = Having(u) /\ Rows(tables[u]) \subseteq Rows(tables'[u])
  OBVIOUS
<1>4. tables \in [Stored -> Seq(Nat)] /\ waiting \in [Stored -> Seq(Nat)]
  BY DEF TypeOK
<1>5. CASE u = t
  BY <1>1, <1>2, <1>4, <1>5
<1>6. CASE u # t
  <2>1. tables'[u] = tables[u] /\ waiting'[u] = waiting[u]
    BY <1>4, <1>6
  <2>2. QED
    BY <2>1
<1>7. QED
  BY <1>5, <1>6

\* A new message is one row more in hand, and one id more.
LEMMA ReadKeeps ==
    ASSUME SinkAssumption, TypeOK, Inductive, NEW t \in Topics, Read(t)
    PROVE  Inductive'
<1> DEFINE e == <<t, position[t] + 1>>
<1>1. e \in Topics \X Nat /\ position[t] + 1 \in Nat /\ position[t] < produced[t]
  BY DEF TypeOK, Read
<1>2. /\ tables' = tables /\ produced' = produced /\ committed' = committed /\ pc' = "due"
      /\ raised' = raised \ {e} /\ ~leaving /\ leaving' = leaving
      /\ position' = [position EXCEPT ![t] = @ + 1]
      /\ seen' = IF e \notin Rows(seen) THEN Remembered(e) ELSE seen
      /\ waiting' = IF e \notin Rows(seen) /\ t \in Stored
                    THEN [waiting EXCEPT ![t] = Append(@, position[t] + 1)] ELSE waiting
  BY DEF Read, Inductive, TypeOK
<1>3. Rows(seen') \subseteq Rows(seen) \cup {e}
  BY <1>1, <1>2, RememberedType
<1>4. ASSUME NEW u \in Stored
      PROVE  /\ Having(u) \subseteq Having(u)'
             /\ Having(u)' \subseteq Having(u) \cup (IF u = t THEN {position[t] + 1} ELSE {})
             /\ u = t => position[t] + 1 \in Having(u)'
  <2>1. waiting \in [Stored -> Seq(Nat)] /\ waiting[u] \in Seq(Nat)
    BY DEF TypeOK
  <2>2. Rows(Append(waiting[u], position[t] + 1)) = Rows(waiting[u]) \cup {position[t] + 1}
    BY <1>1, <2>1, RowsOfAppend
  <2>3. CASE e \in Rows(seen)
    <3>1. u = t => position[t] + 1 \in Having(u)
      <4>1. u = t => InHand(e[1], e[2])
        BY <1>2, <2>3 DEF Inductive, ReadIsInHand
      <4>2. QED
        BY <4>1 DEF InHand, Having
    <3>2. Having(u)' = Having(u)
      BY <1>2, <2>3 DEF Having
    <3>3. QED
      BY <3>1, <3>2
  <2>4. CASE e \notin Rows(seen) /\ u = t
    <3>1. waiting'[u] = Append(waiting[u], position[t] + 1)
      BY <1>2, <2>1, <2>4
    <3>2. QED
      BY <1>2, <2>2, <2>4, <3>1 DEF Having
  <2>5. CASE u # t
    <3>1. waiting'[u] = waiting[u]
      BY <1>2, <2>1, <2>5
    <3>2. QED
      BY <1>2, <2>5, <3>1 DEF Having
  <2>6. QED
    BY <2>3, <2>4, <2>5
<1>5. ReadIsInHand'
  <2>1. ASSUME NEW u \in Stored, NEW i \in 1..position'[u]
        PROVE  i \in Having(u)' \/ <<u, i>> \in raised'
    <3>1. i \in 1..position[u] => i \in Having(u) \/ <<u, i>> \in raised
      BY DEF Inductive, ReadIsInHand, InHand, Having
    <3>2. i \in 1..position[u] \/ (u = t /\ i = position[t] + 1)
      BY <1>2 DEF TypeOK, Topics
    <3>3. <<u, i>> \in raised => <<u, i>> \in raised' \/ (u = t /\ i = position[t] + 1)
      BY <1>2
    <3>4. QED
      BY <3>1, <3>2, <3>3, <1>4
  <2>2. ASSUME NEW f \in Rows(seen'), f[1] \in Stored
        PROVE  f[2] \in Having(f[1])'
    <3>1. CASE f \in Rows(seen)
      <4>1. InHand(f[1], f[2])
        BY <1>2, <2>2, <3>1 DEF Inductive, ReadIsInHand
      <4>2. QED
        BY <2>2, <1>4, <4>1 DEF InHand, Having
    <3>2. CASE f = e
      BY <2>2, <1>4, <3>2
    <3>3. QED
      BY <1>3, <3>1, <3>2
  <2>3. QED
    BY <2>1, <2>2 DEF ReadIsInHand, InHand, Having
<1>6. NothingLost'
  <2> SUFFICES ASSUME NEW u \in Stored, NEW i \in 1..committed[u]
               PROVE  i \in Rows(tables[u]) \/ <<u, i>> \in raised'
    BY <1>2 DEF NothingLost
  <2>1. i \in Rows(tables[u]) \/ <<u, i>> \in raised
    BY DEF Inductive, NothingLost
  <2>2. <<u, i>> # e
    <3>1. committed[u] <= position[u] /\ committed[u] \in Nat /\ position[u] \in Nat /\ i \in Nat
      BY DEF Inductive, TypeOK, Topics
    <3>2. i # position[u] + 1
      BY <3>1
    <3>3. QED
      BY <3>2
  <2>3. QED
    BY <1>2, <2>1, <2>2
<1>7. \A u \in Topics : committed'[u] <= position'[u] /\ position'[u] <= produced'[u]
  BY <1>1, <1>2 DEF Inductive, TypeOK
<1>8. \A u \in Stored : Having(u)' \subseteq 1..produced'[u]
  <2>1. \A u \in Stored : Having(u) \subseteq 1..produced[u]
    BY DEF Inductive, Having
  <2>2. position[t] + 1 \in 1..produced[t]
    BY <1>1 DEF TypeOK
  <2>3. QED
    BY <1>2, <1>4, <2>1, <2>2
<1>9. QED
  BY <1>2, <1>5, <1>6, <1>7, <1>8 DEF Inductive, Having

\* A message whose handling raises is passed over, and remembered as raised.
LEMMA RaisingKeeps ==
    ASSUME SinkAssumption, TypeOK, Inductive, NEW t \in Topics, DecodeFails(t) \/ LookupFails(t)
    PROVE  Inductive'
<1> DEFINE e == <<t, position[t] + 1>>
<1>1. e \in Topics \X Nat /\ position[t] + 1 \in Nat /\ position[t] < produced[t]
  BY DEF TypeOK, DecodeFails, LookupFails, HandlingRaises
<1>2. /\ position' = [position EXCEPT ![t] = @ + 1] /\ raised' = raised \cup {e}
      /\ leaving' = TRUE /\ pc' \in {"stopped", "insert"}
      /\ UNCHANGED <<produced, committed, tables, waiting>>
  BY DEF DecodeFails, LookupFails, HandlingRaises, Raise
<1>3. Rows(seen') \subseteq Rows(seen) \cup {e}
  BY <1>1, RememberedType DEF DecodeFails, LookupFails
<1>4. ASSUME NEW u \in Stored, NEW i \in 1..position'[u]
      PROVE  InHand(u, i)' \/ <<u, i>> \in raised'
  <2>1. i \in 1..position[u] \/ (u = t /\ i = position[t] + 1)
    BY <1>2 DEF TypeOK, Topics
  <2>2. QED
    BY <1>2, <2>1 DEF Inductive, ReadIsInHand, InHand
<1>5. ReadIsInHand'
  BY <1>2, <1>3, <1>4 DEF Inductive, ReadIsInHand, InHand
<1>6. NothingLost'
  BY <1>2 DEF Inductive, NothingLost
<1>7. \A u \in Topics : committed'[u] <= position'[u] /\ position'[u] <= produced'[u]
  BY <1>1, <1>2 DEF Inductive, TypeOK
<1>8. QED
  BY <1>2, <1>5, <1>6, <1>7 DEF Inductive

\* Steps that leave what is in hand alone, or insert it, keep the invariant.
LEMMA InsertStep ==
    ASSUME TypeOK, Inductive, NEW t \in Stored,
           \/ tables' = [tables EXCEPT ![t] = @ \o waiting[t]] /\ waiting' = waiting
           \/ /\ tables' = [tables EXCEPT ![t] = @ \o waiting[t]]
              /\ waiting' = [waiting EXCEPT ![t] = <<>>]
           \/ tables' = tables /\ waiting' = waiting,
           pc' # "commit", leaving' => pc' \in {"insert", "stopped"}, leaving => leaving',
           UNCHANGED <<produced, committed, position, seen, raised>>
    PROVE  Inductive'
<1>1. /\ \A u \in Stored : Having(u)' = Having(u)
      /\ \A u \in Stored : Rows(tables[u]) \subseteq Rows(tables'[u])
  BY InsertKeeps
<1>2. ReadIsInHand'
  BY <1>1 DEF Inductive, ReadIsInHand, InHand, Having
<1>3. NothingLost'
  BY <1>1 DEF Inductive, NothingLost
<1>4. QED
  BY <1>1, <1>2, <1>3 DEF Inductive, Having

\* With nothing waiting, every offset read is behind a row: the offsets may
\* be committed.
LEMMA CommitStep ==
    ASSUME TypeOK, Inductive, pc = "commit",
           committed' = position \/ committed' = committed,
           pc' # "commit", leaving' => pc' \in {"insert", "stopped"}, leaving => leaving',
           UNCHANGED <<produced, tables, position, seen, waiting, raised>>
    PROVE  Inductive'
<1>1. \A t \in Stored : \A i \in 1..position[t] : i \in Rows(tables[t]) \/ <<t, i>> \in raised
  <2>1. \A t \in Stored : waiting[t] = <<>>
    BY DEF Inductive
  <2>2. QED
    BY <2>1, NoRows DEF Inductive, ReadIsInHand, InHand
<1>2. NothingLost'
  BY <1>1 DEF Inductive, NothingLost
<1>3. \A t \in Topics : committed'[t] <= position[t]
  BY DEF Inductive, TypeOK
<1>4. QED
  BY <1>2, <1>3 DEF Inductive, ReadIsInHand, InHand

\* A new life starts behind the committed offsets, with nothing in its memory.
LEMMA BeginStep ==
    ASSUME TypeOK, Inductive, Begin
    PROVE  Inductive'
<1>1. /\ position' = committed /\ committed' = committed /\ produced' = produced
      /\ tables' = tables /\ pc' # "commit" /\ raised' = raised /\ ~leaving'
      /\ Rows(seen') = {} /\ \A t \in Stored : Rows(waiting'[t]) = {}
  BY NoRows DEF Begin
<1>2. ReadIsInHand'
  BY <1>1 DEF Inductive, NothingLost, ReadIsInHand, InHand
<1>3. NothingLost'
  BY <1>1 DEF Inductive, NothingLost
<1>4. \A t \in Topics : committed'[t] <= position'[t] /\ position'[t] <= produced'[t]
  BY <1>1 DEF Inductive, TypeOK
<1>5. QED
  BY <1>1, <1>2, <1>3, <1>4 DEF Inductive

LEMMA InductiveInit == Init => Inductive
  BY NoRows DEF Init, Inductive, ReadIsInHand, NothingLost, InHand, Topics

LEMMA InductiveStep ==
    ASSUME SinkAssumption, TypeOK, Inductive, [Next]_vars
    PROVE  Inductive'
<1>1. ASSUME NEW t \in Topics, Produce(t)
      PROVE  Inductive'
  <2>1. \A u \in Topics : produced[u] <= produced'[u] /\ produced[u] \in Nat /\ produced'[u] \in Nat
    BY <1>1 DEF Produce, TypeOK
  <2>2. UNCHANGED <<committed, tables, position, seen, waiting, pc, leaving, raised>>
    BY <1>1 DEF Produce, memory
  <2>3. \A u \in Topics : committed[u] <= position[u] /\ position[u] <= produced'[u]
    BY <2>1 DEF Inductive, TypeOK
  <2>4. \A u \in Stored : 1..produced[u] \subseteq 1..produced'[u]
    BY <2>1 DEF Topics
  <2>5. QED
    BY <2>2, <2>3, <2>4 DEF Inductive, ReadIsInHand, NothingLost, InHand
<1>2. ASSUME NEW t \in Topics, Read(t)
      PROVE  Inductive'
  BY <1>2, ReadKeeps
<1>3. CASE NotDue \/ Due
  BY <1>3 DEF NotDue, Due, Inductive, ReadIsInHand, NothingLost, InHand
<1>4. CASE Flushed
  BY <1>4 DEF Flushed, Inductive, ReadIsInHand, NothingLost, InHand
<1>5. ASSUME NEW t \in Stored, Insert(t)
      PROVE  Inductive'
  BY <1>5, InsertStep DEF Insert
<1>6. CASE Commit
  BY <1>6, CommitStep DEF Commit
<1>14. ASSUME NEW t \in Topics, DecodeFails(t) \/ LookupFails(t)
       PROVE  Inductive'
  BY <1>14, RaisingKeeps
<1>15. \A t \in Enriched : t \in Topics
  BY DEF SinkAssumption, Topics
<1>7. CASE Restart \/ Crash
  BY <1>7, BeginStep DEF Restart, Crash
<1>8. CASE Rejoin
  <2>1. ReadIsInHand'
    BY <1>8 DEF Rejoin, Inductive, ReadIsInHand, NothingLost, InHand
  <2>2. \A u \in Topics : committed[u] <= position'[u] /\ position'[u] <= produced[u]
    BY <1>8 DEF Rejoin, Inductive, TypeOK
  <2>3. QED
    BY <1>8, <2>1, <2>2 DEF Rejoin, Inductive, NothingLost
<1>9. CASE Leave
  BY <1>9 DEF Leave, Raise, Inductive, ReadIsInHand, NothingLost, InHand
<1>10. ASSUME NEW t \in Stored, InsertFails(t)
       PROVE  Inductive'
  BY <1>10, InsertStep DEF InsertFails, Raise
<1>11. CASE CommitFails
  BY <1>11, CommitStep DEF CommitFails, Raise
<1>12. CASE UNCHANGED vars
  BY <1>12 DEF vars, memory, Inductive, ReadIsInHand, NothingLost, InHand
<1>13. QED
  BY <1>1, <1>2, <1>3, <1>4, <1>5, <1>6, <1>7, <1>8, <1>9, <1>10, <1>11, <1>12, <1>14, <1>15
     DEF Next, RebalanceNext, Step, Traffic

\* Whatever fails, dies or is replayed, what has been read is in a table, on
\* its way there, or raised when it was handled.
THEOREM SinkInductive == Spec => []Inductive
<1>1. Init => TypeOK /\ Inductive
  BY SinkAssumption, InitType, InductiveInit
<1>2. (TypeOK /\ Inductive) /\ [Next]_vars => (TypeOK /\ Inductive)'
  BY SinkAssumption, TypeStep, InductiveStep
<1>3. QED
  BY <1>1, <1>2, PTL DEF Spec

\* No message behind a committed offset is missing from its table, but for those
\* whose own handling raised.
THEOREM NoRowLost == Spec => []NothingLost
<1>1. Inductive => NothingLost
  BY DEF Inductive
<1>2. QED
  BY <1>1, SinkInductive, PTL

(***************************************************************************)
(* The sink is an at-least-once store.                                     *)
(***************************************************************************)
\* The table rows, as the abstract specification sees them.
Stores == UNION {{<<t, i>> : i \in Rows(tables[t])} : t \in Stored}

\* The messages that failed, as the abstract specification sees them.
Failed == {e \in raised : e[1] \in Stored}

\* A step that touches neither Kafka nor ClickHouse is a stutter.
LEMMA MemoryStep ==
    ASSUME UNCHANGED <<produced, committed, tables, raised>>
    PROVE  UNCHANGED Promise!vars
  BY DEF Promise!vars

LEMMA StoresMember ==
    ASSUME NEW x
    PROVE  x \in Stores <=> \E t \in Stored : \E i \in Rows(tables[t]) : x = <<t, i>>
  BY DEF Stores

\* An insert, answered or not, is Keep, or a stutter when every row of it is
\* there already.
LEMMA InsertIsKeep ==
    ASSUME TypeOK, Inductive, NEW t \in Stored,
           UNCHANGED <<produced, committed, raised>>,
           tables' = [tables EXCEPT ![t] = @ \o waiting[t]]
    PROVE  Promise!Keep(t) \/ UNCHANGED Promise!vars
<1>1. \A u \in Stored : Rows(tables[u]) \subseteq Rows(tables'[u])
  <2>1. Rows(tables[t] \o waiting[t]) = Rows(tables[t]) \cup Rows(waiting[t])
    BY RowsOfConcat DEF TypeOK
  <2>2. QED
    BY <2>1 DEF TypeOK
<1>2. ASSUME NEW x \in Stores'
      PROVE  x \in Stores \cup {<<t, i>> : i \in 1..produced[t]}
  <2>1. PICK u \in Stored : \E i \in Rows(tables'[u]) : x = <<u, i>>
    BY <1>2 DEF Stores
  <2>2. CASE u = t
    <3>1. Rows(tables'[t]) = Rows(tables[t]) \cup Rows(waiting[t])
      BY RowsOfConcat DEF TypeOK
    <3>2. Rows(waiting[t]) \cup Rows(tables[t]) \subseteq 1..produced[t]
      BY DEF Inductive
    <3>3. QED
      BY <2>1, <2>2, <3>1, <3>2
  <2>3. CASE u # t
    <3>1. tables'[u] = tables[u]
      BY <2>3 DEF TypeOK
    <3>2. QED
      BY <2>1, <3>1 DEF Stores
  <2>4. QED
    BY <2>2, <2>3
<1>3. Stores \subseteq Stores'
  BY <1>1 DEF Stores
<1>4. CASE Stores' = Stores
  BY <1>4 DEF Promise!vars, Stores
<1>5. CASE Stores' # Stores
  <2>1. Stores' \subseteq Stores \cup {<<t, i>> : i \in 1..[u \in Stored |-> produced[u]][t]}
    BY <1>2
  <2>2. QED
    BY <1>3, <1>5, <2>1 DEF Promise!Keep, Stores
<1>6. QED
  BY <1>4, <1>5

\* Moving the offsets past rows that are there is Commit.
LEMMA CommitIsCommit ==
    ASSUME TypeOK, Inductive, TypeOK', Inductive',
           committed' = position \/ committed' = committed,
           UNCHANGED <<produced, tables, raised>>
    PROVE  Promise!Commit
<1>1. \A t \in Stored : committed[t] <= committed'[t]
  BY DEF Inductive, TypeOK, Topics
<1>2. \A t \in Stored : \A i \in 1..committed'[t] : <<t, i>> \in Stores \cup Failed
  <2> SUFFICES ASSUME NEW t \in Stored, NEW i \in 1..committed'[t]
               PROVE  <<t, i>> \in Stores \cup Failed
    OBVIOUS
  <2>1. i \in Rows(tables[t]) \/ <<t, i>> \in raised
    BY DEF Inductive, NothingLost
  <2>2. i \in Rows(tables[t]) => <<t, i>> \in Stores
    BY StoresMember
  <2>3. <<t, i>> \in raised => <<t, i>> \in Failed
    BY DEF Failed
  <2>4. QED
    BY <2>1, <2>2, <2>3
<1>3. [t \in Stored |-> committed'[t]] \in [Stored -> Nat]
  BY DEF TypeOK, Topics
<1>4. QED
  BY <1>1, <1>2, <1>3 DEF Promise!Commit, Stores, Failed

\* Handling raises, or is repeated: Fail and Retry, of a message no offset has
\* passed.
LEMMA RaisingIsFail ==
    ASSUME TypeOK, Inductive, NEW t \in Topics,
           position[t] < produced[t],
           \/ raised' = raised \cup {<<t, position[t] + 1>>}
           \/ raised' = raised \ {<<t, position[t] + 1>>},
           UNCHANGED <<produced, committed, tables>>
    PROVE  Promise!Next \/ UNCHANGED Promise!vars
<1> DEFINE i == position[t] + 1
<1>1. i \in 1..produced[t] /\ i > committed[t]
  BY DEF Inductive, TypeOK
<1>2. CASE t \notin Stored
  <2>1. Failed' = Failed
    BY <1>2 DEF Failed
  <2>2. QED
    BY <2>1 DEF Promise!vars, Failed
<1>3. CASE t \in Stored
  <2>1. Failed' = Failed \cup {<<t, i>>} \/ Failed' = Failed \ {<<t, i>>}
    BY <1>3 DEF Failed
  <2>2. i \in 1..[u \in Stored |-> produced[u]][t] /\ i > [u \in Stored |-> committed[u]][t]
    BY <1>1, <1>3
  <2>3. Promise!Fail(t) \/ Promise!Retry(t)
    <3> HIDE DEF i
    <3> QED BY <2>1, <2>2 DEF Promise!Fail, Promise!Retry, Failed
  <2>4. QED
    BY <1>3, <2>3 DEF Promise!Next
<1>4. QED
  BY <1>2, <1>3

LEMMA ProduceIsProduce ==
    ASSUME TypeOK, NEW t \in Topics, Produce(t)
    PROVE  Promise!Next \/ UNCHANGED Promise!vars
<1>1. /\ committed' = committed /\ tables' = tables /\ raised' = raised
      /\ produced' = [produced EXCEPT ![t] = @ + 1]
  BY DEF Produce
<1>2. CASE t \in Stored
  <2>1. [u \in Stored |-> produced'[u]]
          = [[u \in Stored |-> produced[u]] EXCEPT ![t] = @ + 1]
    BY <1>1, <1>2 DEF TypeOK, Topics
  <2>2. Promise!Produce(t)
    BY <1>1, <2>1 DEF Promise!Produce
  <2>3. QED
    BY <1>2, <2>2 DEF Promise!Next
<1>3. CASE t \notin Stored
  <2>1. [u \in Stored |-> produced'[u]] = [u \in Stored |-> produced[u]]
    BY <1>1, <1>3 DEF TypeOK, Topics
  <2>2. QED
    BY <1>1, <2>1 DEF Promise!vars
<1>4. QED
  BY <1>2, <1>3

LEMMA PromiseStep ==
    ASSUME SinkAssumption, TypeOK, Inductive, TypeOK', Inductive', [Next]_vars
    PROVE  Promise!Next \/ UNCHANGED Promise!vars
<1>1. ASSUME NEW t \in Topics, Produce(t)
      PROVE  Promise!Next \/ UNCHANGED Promise!vars
  BY <1>1, ProduceIsProduce
<1>2. ASSUME NEW t \in Stored, Insert(t)
      PROVE  Promise!Next \/ UNCHANGED Promise!vars
  BY <1>2, InsertIsKeep DEF Insert, Promise!Next
<1>3. ASSUME NEW t \in Stored, InsertFails(t)
      PROVE  Promise!Next \/ UNCHANGED Promise!vars
  BY <1>3, InsertIsKeep, MemoryStep DEF InsertFails, Promise!Next
<1>4. CASE Commit \/ CommitFails
  BY <1>4, CommitIsCommit DEF Commit, CommitFails, Promise!Next
<1>5. ASSUME NEW t \in Topics, Read(t)
      PROVE  Promise!Next \/ UNCHANGED Promise!vars
  BY <1>5, RaisingIsFail DEF Read
<1>10. ASSUME NEW t \in Topics, DecodeFails(t) \/ LookupFails(t)
       PROVE  Promise!Next \/ UNCHANGED Promise!vars
  BY <1>10, RaisingIsFail DEF DecodeFails, LookupFails, HandlingRaises
<1>11. \A t \in Enriched : t \in Topics
  BY DEF SinkAssumption, Topics
<1>6. CASE NotDue \/ Due \/ Flushed \/ Rejoin \/ Leave
  BY <1>6, MemoryStep DEF NotDue, Due, Flushed, Rejoin, Leave
<1>7. CASE Restart \/ Crash
  BY <1>7, MemoryStep DEF Restart, Crash, Begin
<1>8. CASE UNCHANGED vars
  BY <1>8, MemoryStep DEF vars
<1>9. QED
  BY <1>1, <1>2, <1>3, <1>4, <1>5, <1>6, <1>7, <1>8, <1>10, <1>11
     DEF Next, RebalanceNext, Step, Traffic

LEMMA PromiseInit == Init => Promise!Init
<1> SUFFICES ASSUME Init PROVE Promise!Init
  OBVIOUS
<1>1. Stores = {}
  BY NoRows DEF Init, Stores
<1>2. [t \in Stored |-> produced[t]] = [t \in Stored |-> 0]
      /\ [t \in Stored |-> committed[t]] = [t \in Stored |-> 0]
  BY DEF Init, Topics
<1>3. {e \in raised : e[1] \in Stored} = {}
  BY DEF Init
<1>4. QED
  BY <1>1, <1>2, <1>3 DEF Promise!Init, Stores

\* Every behaviour of the sink, faults included, is one of an at-least-once
\* store of the topics that have a table.
THEOREM SinkKeepsPromise == Spec => KeepsPromise
<1>1. TypeOK /\ Inductive /\ TypeOK' /\ Inductive' /\ [Next]_vars => [Promise!Next]_Promise!vars
  BY SinkAssumption, PromiseStep
<1>2. QED
  BY <1>1, PromiseInit, SinkTypeCorrect, SinkInductive, PTL
     DEF Spec, KeepsPromise, Promise!Spec

(***************************************************************************)
(* What a rebalance replays is refused.                                    *)
(***************************************************************************)
\* Every message there can be.
Ids == Topics \X (1..MaxEvents)

Distinct(s) == \A i, j \in DOMAIN s : s[i] = s[j] => i = j

\* The invariant: no id has been evicted, the memory knows every row, and a
\* row is in the batch or in its table, once.
Remembering ==
    /\ ~leaving /\ pc # "stopped"
    /\ Rows(seen) \subseteq Ids /\ Cardinality(Rows(seen)) = Len(seen)
    /\ \A t \in Topics : produced[t] <= MaxEvents
    /\ \A t \in Stored :
          /\ \A i \in Rows(tables[t]) \cup Rows(waiting[t]) : <<t, i>> \in Rows(seen)
          /\ Rows(tables[t]) \cap Rows(waiting[t]) = {}
          /\ Distinct(tables[t]) /\ Distinct(waiting[t])

\* Two sequences without repetitions and without a row in common make one
\* without repetitions.
LEMMA DistinctConcat ==
    ASSUME NEW S, NEW a \in Seq(S), NEW b \in Seq(S),
           Distinct(a), Distinct(b), Rows(a) \cap Rows(b) = {}
    PROVE  Distinct(a \o b)
<1>1. /\ Len(a) \in Nat /\ Len(b) \in Nat
      /\ DOMAIN a = 1..Len(a) /\ DOMAIN b = 1..Len(b)
      /\ DOMAIN (a \o b) = 1..(Len(a) + Len(b))
  OBVIOUS
<1>2. \A i \in 1..(Len(a) + Len(b)) :
          (a \o b)[i] = IF i <= Len(a) THEN a[i] ELSE b[i - Len(a)]
  OBVIOUS
<1>3. SUFFICES ASSUME NEW i \in 1..(Len(a) + Len(b)), NEW j \in 1..(Len(a) + Len(b)),
                      (a \o b)[i] = (a \o b)[j]
               PROVE  i = j
  BY <1>1 DEF Distinct
<1>4. CASE i <= Len(a) /\ j <= Len(a)
  <2>1. a[i] = a[j] /\ i \in DOMAIN a /\ j \in DOMAIN a
    BY <1>1, <1>2, <1>3, <1>4
  <2>2. QED
    BY <2>1 DEF Distinct
<1>5. CASE i > Len(a) /\ j > Len(a)
  <2>1. /\ b[i - Len(a)] = b[j - Len(a)]
        /\ i - Len(a) \in DOMAIN b /\ j - Len(a) \in DOMAIN b
    BY <1>1, <1>2, <1>3, <1>5
  <2>2. i - Len(a) = j - Len(a)
    BY <2>1 DEF Distinct
  <2>3. QED
    BY <1>1, <2>2
<1>6. ASSUME NEW k \in 1..(Len(a) + Len(b)), NEW l \in 1..(Len(a) + Len(b)),
             k <= Len(a), l > Len(a)
      PROVE  (a \o b)[k] # (a \o b)[l]
  <2>1. k \in DOMAIN a /\ l - Len(a) \in DOMAIN b
    BY <1>1, <1>6
  <2>2. (a \o b)[k] \in Rows(a) /\ (a \o b)[l] \in Rows(b)
    <3>1. (a \o b)[k] = a[k] /\ (a \o b)[l] = b[l - Len(a)]
      BY <1>1, <1>2, <1>6
    <3>2. QED
      BY <2>1, <3>1 DEF Rows
  <2>3. QED
    BY <2>2
<1>7. QED
  BY <1>1, <1>3, <1>4, <1>5, <1>6

\* Accepting a new id evicts none while the memory has room for every message.
LEMMA NothingEvicted ==
    ASSUME TypeOK, Remembering, IsFiniteSet(Topics), Cardinality(Ids) <= Capacity,
           MaxEvents \in Nat, Capacity \in Nat, NEW e \in Ids, e \notin Rows(seen)
    PROVE  /\ Rows(Remembered(e)) = Rows(seen) \cup {e}
           /\ Cardinality(Rows(Remembered(e))) = Len(Remembered(e))
<1>1. IsFiniteSet(Ids)
  <2>1. IsFiniteSet(1..MaxEvents)
    BY FS_Interval
  <2>2. QED
    BY <2>1, FS_Product DEF Ids
<1>2. IsFiniteSet(Rows(seen)) /\ Rows(seen) \cup {e} \subseteq Ids
  BY <1>1, FS_Subset DEF Remembering
<1>3. Cardinality(Rows(seen) \cup {e}) = Len(seen) + 1
  BY <1>2, FS_AddElement DEF Remembering
<1>4. Cardinality(Rows(seen) \cup {e}) <= Cardinality(Ids) /\ Cardinality(Ids) \in Nat
  BY <1>1, <1>2, FS_Subset, FS_CardinalityType
<1>5. seen \in Seq(Topics \X Nat) /\ Len(seen) \in Nat /\ e \in Topics \X Nat
  BY DEF TypeOK, Ids
<1>6. Remembered(e) = Append(seen, e)
  BY <1>3, <1>4, <1>5 DEF Remembered
<1>7. Rows(Append(seen, e)) = Rows(seen) \cup {e} /\ Len(Append(seen, e)) = Len(seen) + 1
  BY <1>5, RowsOfAppend, AppendProperties
<1>8. QED
  BY <1>3, <1>6, <1>7

LEMMA RememberingRead ==
    ASSUME SinkAssumption, IsFiniteSet(Topics), Cardinality(Ids) <= Capacity,
           TypeOK, Inductive, Remembering, NEW t \in Topics, Read(t)
    PROVE  Remembering'
<1> DEFINE e == <<t, position[t] + 1>>
<1>1. /\ tables' = tables /\ produced' = produced /\ pc' = "due" /\ leaving' = leaving
      /\ seen' = IF e \notin Rows(seen) THEN Remembered(e) ELSE seen
      /\ waiting' = IF e \notin Rows(seen) /\ t \in Stored
                    THEN [waiting EXCEPT ![t] = Append(@, position[t] + 1)] ELSE waiting
      /\ position[t] < produced[t]
  BY DEF Read
<1>2. e \in Ids /\ position[t] + 1 \in Nat
  BY <1>1 DEF Ids, TypeOK, Remembering, SinkAssumption
<1>3. CASE e \in Rows(seen)
  BY <1>1, <1>3 DEF Remembering
<1>4. CASE e \notin Rows(seen)
  <2>1. /\ Rows(seen') = Rows(seen) \cup {e}
        /\ Cardinality(Rows(seen')) = Len(seen')
    BY <1>1, <1>2, <1>4, NothingEvicted DEF SinkAssumption
  <2>2. ASSUME NEW u \in Stored
        PROVE  /\ \A i \in Rows(tables'[u]) \cup Rows(waiting'[u]) : <<u, i>> \in Rows(seen')
               /\ Rows(tables'[u]) \cap Rows(waiting'[u]) = {}
               /\ Distinct(tables'[u]) /\ Distinct(waiting'[u])
    <3>1. waiting \in [Stored -> Seq(Nat)] /\ waiting[u] \in Seq(Nat)
      BY DEF TypeOK
    <3>2. CASE u = t
      <4>1. waiting'[u] = Append(waiting[u], position[t] + 1)
        BY <1>1, <1>4, <3>1, <3>2
      <4>2. Rows(waiting'[u]) = Rows(waiting[u]) \cup {position[t] + 1}
        BY <1>2, <3>1, <4>1, RowsOfAppend
      <4>3. position[t] + 1 \notin Rows(tables[u]) \cup Rows(waiting[u])
        BY <1>4, <3>2 DEF Remembering
      <4>4. Distinct(waiting'[u])
        <5>1. /\ Append(waiting[u], position[t] + 1) = waiting[u] \o <<position[t] + 1>>
              /\ <<position[t] + 1>> \in Seq(Nat)
          BY <1>2, <3>1
        <5>2. Rows(<<position[t] + 1>>) = {position[t] + 1} /\ Distinct(<<position[t] + 1>>)
          BY DEF Rows, Distinct
        <5>3. Rows(waiting[u]) \cap Rows(<<position[t] + 1>>) = {}
          BY <4>3, <5>2
        <5>4. Distinct(waiting[u])
          BY DEF Remembering
        <5>5. Distinct(waiting[u] \o <<position[t] + 1>>)
          BY <3>1, <5>1, <5>2, <5>3, <5>4, DistinctConcat
        <5>6. QED
          BY <4>1, <5>1, <5>5
      <4>5. \A i \in Rows(tables[u]) \cup Rows(waiting[u]) : <<u, i>> \in Rows(seen')
        BY <2>1 DEF Remembering
      <4>6. Rows(tables[u]) \cap Rows(waiting'[u]) = {} /\ Distinct(tables[u])
        BY <4>2, <4>3 DEF Remembering
      <4>7. <<u, position[t] + 1>> \in Rows(seen')
        BY <2>1, <3>2
      <4>8. QED
        BY <1>1, <4>2, <4>4, <4>5, <4>6, <4>7
    <3>3. CASE u # t
      <4>1. waiting'[u] = waiting[u]
        BY <1>1, <3>1, <3>3
      <4>2. QED
        BY <1>1, <2>1, <4>1 DEF Remembering
    <3>4. QED
      BY <3>2, <3>3
  <2>3. QED
    BY <1>1, <1>2, <2>1, <2>2 DEF Remembering
<1>5. QED
  BY <1>3, <1>4

LEMMA RememberingInsert ==
    ASSUME TypeOK, Remembering, NEW t \in Stored, Insert(t)
    PROVE  Remembering'
<1>1. /\ tables' = [tables EXCEPT ![t] = @ \o waiting[t]]
      /\ waiting' = [waiting EXCEPT ![t] = <<>>]
      /\ UNCHANGED <<produced, seen, pc, leaving>>
  BY DEF Insert
<1>2. tables \in [Stored -> Seq(Nat)] /\ waiting \in [Stored -> Seq(Nat)]
  BY DEF TypeOK
<1>3. ASSUME NEW u \in Stored
      PROVE  /\ \A i \in Rows(tables'[u]) \cup Rows(waiting'[u]) : <<u, i>> \in Rows(seen)
             /\ Rows(tables'[u]) \cap Rows(waiting'[u]) = {}
             /\ Distinct(tables'[u]) /\ Distinct(waiting'[u])
  <2>1. CASE u = t
    <3>1. tables'[u] = tables[u] \o waiting[u] /\ waiting'[u] = <<>>
      BY <1>1, <1>2, <2>1
    <3>2. Rows(tables'[u]) = Rows(tables[u]) \cup Rows(waiting[u])
      BY <1>2, <3>1, RowsOfConcat
    <3>3. Rows(waiting'[u]) = {} /\ Distinct(waiting'[u])
      BY <3>1, NoRows DEF Distinct
    <3>4. Distinct(tables'[u])
      <4>1. Distinct(tables[u]) /\ Distinct(waiting[u]) /\ Rows(tables[u]) \cap Rows(waiting[u]) = {}
        BY DEF Remembering
      <4>2. QED
        BY <1>2, <3>1, <4>1, DistinctConcat
    <3>5. QED
      BY <3>2, <3>3, <3>4 DEF Remembering
  <2>2. CASE u # t
    <3>1. tables'[u] = tables[u] /\ waiting'[u] = waiting[u]
      BY <1>1, <1>2, <2>2
    <3>2. QED
      BY <3>1 DEF Remembering
  <2>3. QED
    BY <2>1, <2>2
<1>4. QED
  BY <1>1, <1>3 DEF Remembering

LEMMA RememberingInit == SinkAssumption /\ Init => Remembering
<1> SUFFICES ASSUME SinkAssumption, Init PROVE Remembering
  OBVIOUS
<1>1. /\ Rows(seen) = {} /\ Len(seen) = 0
      /\ \A t \in Stored : /\ Rows(tables[t]) = {} /\ Rows(waiting[t]) = {}
                           /\ Distinct(tables[t]) /\ Distinct(waiting[t])
  BY NoRows DEF Init, Distinct
<1>2. Cardinality(Rows(seen)) = Len(seen)
  <2>1. Cardinality({}) = 0
    BY FS_EmptySet
  <2>2. QED
    BY <1>1, <2>1
<1>3. ~leaving /\ pc # "stopped" /\ \A t \in Topics : produced[t] <= MaxEvents
  BY DEF Init, SinkAssumption
<1>4. QED
  BY <1>1, <1>2, <1>3 DEF Remembering

LEMMA RememberingStep ==
    ASSUME SinkAssumption, IsFiniteSet(Topics), Cardinality(Ids) <= Capacity,
           TypeOK, Inductive, Remembering, [RebalanceNext]_vars
    PROVE  Remembering'
<1>1. ASSUME NEW t \in Topics, Produce(t)
      PROVE  Remembering'
  <2>1. \A u \in Topics : produced'[u] <= MaxEvents
    BY <1>1 DEF Produce, TypeOK, Remembering, SinkAssumption
  <2>2. UNCHANGED <<tables, seen, waiting, pc, leaving>>
    BY <1>1 DEF Produce, memory
  <2>3. QED
    BY <2>1, <2>2 DEF Remembering
<1>2. ASSUME NEW t \in Topics, Read(t)
      PROVE  Remembering'
  BY <1>2, RememberingRead
<1>3. CASE NotDue \/ Due \/ Flushed \/ Commit \/ Rejoin
  BY <1>3 DEF NotDue, Due, Flushed, Commit, Rejoin, Remembering
<1>4. ASSUME NEW t \in Stored, Insert(t)
      PROVE  Remembering'
  BY <1>4, RememberingInsert
<1>5. CASE Restart
  BY <1>5 DEF Restart, Remembering
<1>6. CASE UNCHANGED vars
  BY <1>6 DEF vars, memory, Remembering
<1>7. QED
  BY <1>1, <1>2, <1>3, <1>4, <1>5, <1>6 DEF RebalanceNext, Step, Traffic

\* When the memory has room for every message, and nothing but rebalances
\* happens, no message is a row twice, however often it is replayed.
THEOREM RebalanceDuplicatesNothing ==
    ASSUME IsFiniteSet(Topics), Cardinality(Ids) <= Capacity
    PROVE  RebalanceSpec => []NoDuplicates
<1>1. Init => TypeOK /\ Inductive /\ Remembering
  BY SinkAssumption, InitType, InductiveInit, RememberingInit
<1>2. (TypeOK /\ Inductive /\ Remembering) /\ [RebalanceNext]_vars
          => (TypeOK /\ Inductive /\ Remembering)'
  BY SinkAssumption, TypeStep, InductiveStep, RememberingStep DEF Next
<1>3. Remembering => NoDuplicates
  BY DEF Remembering, NoDuplicates, Distinct
<1>4. QED
  BY <1>1, <1>2, <1>3, PTL DEF RebalanceSpec
=============================================================================
