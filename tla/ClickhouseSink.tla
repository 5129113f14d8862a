--------------------------- MODULE ClickhouseSink ---------------------------
(***************************************************************************)
(* clickhouse-sink: reads every topic, waits for rows to be worth sending, *)
(* inserts them table by table, and commits the offsets last.              *)
(*                                                                         *)
(* Abstractions.  A topic is one partition, and feeds one table or none; a *)
(* row is the offset of its message, whose event_id is unique.  Columns,   *)
(* enrichment and the clock are left out: a flush may be due whenever rows *)
(* wait.  Tables are flushed in any order.                                 *)
(***************************************************************************)
EXTENDS Naturals, Sequences, FiniteSetsExt

CONSTANTS
    Stored,     \* the topics that have a table
    Enriched,   \* of these, the ones whose rows need a score from Redis
    Unstored,   \* the topics read and not stored: trip_requests
    MaxRows,    \* SINK_BATCH_ROWS
    Capacity,   \* SINK_SEEN_EVENTS
    MaxEvents,  \* bound: messages per topic
    MaxFaults   \* bound: stops, crashes, failures and rebalances

Topics == Stored \cup Unstored

ASSUME SinkAssumption ==
    /\ Enriched \subseteq Stored
    /\ Stored \cap Unstored = {}
    /\ MaxRows \in Nat \ {0}
    /\ Capacity \in Nat \ {0}
    /\ MaxEvents \in Nat
    /\ MaxFaults \in Nat

VARIABLES
    produced,   \* Kafka: how many messages each topic holds
    committed,  \* Kafka: this group's committed offsets
    tables,     \* ClickHouse: the rows of each table, in the order inserted
    position,   \* the consumer's own offsets
    seen,       \* SeenEvents: ids accepted lately, the oldest first
    waiting,    \* Batches.rows
    pc,         \* where the process stands
    leaving,    \* it is in the finally clause
    raised,     \* history: the messages whose handling raised and that were
                \* not read again since
    faults

memory == <<position, seen, waiting, pc, leaving>>
vars == <<produced, committed, tables, memory, raised, faults>>

-----------------------------------------------------------------------------
Rows(s) == {s[i] : i \in DOMAIN s}

Total == MapThenSumSet(LAMBDA t : Len(waiting[t]), Stored)

\* SeenEvents.accept, for an id it does not hold: the oldest one goes.
Remembered(e) ==
    IF Len(seen) < Capacity THEN Append(seen, e) ELSE Tail(Append(seen, e))

Init ==
    /\ produced = [t \in Topics |-> 0] /\ committed = [t \in Topics |-> 0]
    /\ tables = [t \in Stored |-> <<>>]
    /\ position = [t \in Topics |-> 0] /\ seen = <<>>
    /\ waiting = [t \in Stored |-> <<>>]
    /\ pc = "read" /\ leaving = FALSE
    /\ raised = {} /\ faults = 0

\* Another service sends a message.
Produce(t) ==
    /\ produced[t] < MaxEvents
    /\ produced' = [produced EXCEPT ![t] = @ + 1]
    /\ UNCHANGED <<committed, tables, memory, raised, faults>>

-----------------------------------------------------------------------------
\* poll_once, seen.accept and _collect: one new message is one row waiting.
Read(t) ==
    /\ pc = "read"
    /\ position[t] < produced[t]
    /\ LET e == <<t, position[t] + 1>>
           new == e \notin Rows(seen)
       IN  /\ raised' = raised \ {e}
           /\ seen' = IF new THEN Remembered(e) ELSE seen
           /\ waiting' = IF new /\ t \in Stored
                         THEN [waiting EXCEPT ![t] = Append(@, position[t] + 1)] ELSE waiting
    /\ position' = [position EXCEPT ![t] = @ + 1]
    /\ pc' = "due"
    /\ UNCHANGED <<produced, committed, tables, leaving, faults>>

\* Batches.due says no: there is room, and the rows have not waited long.
NotDue ==
    /\ pc = "due"
    /\ Total < MaxRows
    /\ pc' = "read"
    /\ UNCHANGED <<produced, committed, tables, position, seen, waiting, leaving, raised, faults>>

\* Mutant of Due: only a full batch is ever due.
DueWhenFull ==
    /\ pc = "due" /\ Total >= MaxRows
    /\ pc' = "insert"
    /\ UNCHANGED <<produced, committed, tables, position, seen, waiting, leaving, raised, faults>>

\* Batches.due says yes, after a message or after a second without one.
Due ==
    /\ pc \in {"due", "read"}
    /\ Total > 0
    /\ pc' = "insert"
    /\ UNCHANGED <<produced, committed, tables, position, seen, waiting, leaving, raised, faults>>

\* Batches.flush: one table's rows are inserted, then forgotten.
Insert(t) ==
    /\ pc = "insert"
    /\ waiting[t] # <<>>
    /\ tables' = [tables EXCEPT ![t] = @ \o waiting[t]]
    /\ waiting' = [waiting EXCEPT ![t] = <<>>]
    /\ UNCHANGED <<produced, committed, position, seen, pc, leaving, raised, faults>>

Flushed ==
    /\ pc = "insert"
    /\ \A t \in Stored : waiting[t] = <<>>
    /\ pc' = "commit"
    /\ UNCHANGED <<produced, committed, tables, position, seen, waiting, leaving, raised, faults>>

Commit ==
    /\ pc = "commit"
    /\ committed' = position
    /\ pc' = IF leaving THEN "stopped" ELSE "read"
    /\ UNCHANGED <<produced, tables, position, seen, waiting, leaving, raised, faults>>

-----------------------------------------------------------------------------
(***************************************************************************)
(* What goes wrong.  Whatever ends the loop runs the finally clause: flush *)
(* and commit once more.  An exception there ends the process as it is.    *)
(***************************************************************************)
Fault == faults < MaxFaults /\ faults' = faults + 1

Raise ==
    /\ leaving' = TRUE
    /\ pc' = IF leaving THEN "stopped" ELSE "insert"

\* A stop is requested, or Kafka reports an error instead of a message.
Leave ==
    /\ Fault /\ pc = "read"
    /\ Raise
    /\ UNCHANGED <<produced, committed, tables, position, seen, waiting, raised>>

\* The handling of a message raises.  The consumer has moved past it by then,
\* and the finally clause commits past it.
HandlingRaises(t) ==
    /\ Fault /\ pc = "read"
    /\ position[t] < produced[t]
    /\ position' = [position EXCEPT ![t] = @ + 1]
    /\ raised' = raised \cup {<<t, position[t] + 1>>}
    /\ Raise
    /\ UNCHANGED <<produced, committed, tables, waiting>>

\* poll_once decodes after it polled: bad bytes, or no schema registry.
DecodeFails(t) == HandlingRaises(t) /\ UNCHANGED seen

\* HotspotCache reads the scores from Redis in the middle of _collect: the id
\* has been accepted.
LookupFails(t) ==
    /\ <<t, position[t] + 1>> \notin Rows(seen)
    /\ HandlingRaises(t)
    /\ seen' = Remembered(<<t, position[t] + 1>>)

\* Mutant of InsertFails: the rows are cleared whatever the insert said.
InsertFailsAndClears(t) ==
    /\ Fault /\ pc = "insert" /\ waiting[t] # <<>>
    /\ tables' = tables /\ waiting' = [waiting EXCEPT ![t] = <<>>]
    /\ Raise
    /\ UNCHANGED <<produced, committed, position, seen, raised>>

\* ClickHouse refuses the insert, or takes it and the answer is lost.
InsertFails(t) ==
    /\ Fault /\ pc = "insert"
    /\ waiting[t] # <<>>
    /\ tables' \in {tables, [tables EXCEPT ![t] = @ \o waiting[t]]}
    /\ Raise
    /\ UNCHANGED <<produced, committed, position, seen, waiting, raised>>

\* Kafka refuses the commit, or takes it and the answer is lost.
CommitFails ==
    /\ Fault /\ pc = "commit"
    /\ committed' \in {committed, position}
    /\ Raise
    /\ UNCHANGED <<produced, tables, position, seen, waiting, raised>>

\* The group is rebalanced and this consumer, its only member, goes on from
\* the committed offsets with its memory intact.
Rejoin ==
    /\ Fault /\ pc = "read"
    /\ position' = committed
    /\ UNCHANGED <<produced, committed, tables, seen, waiting, pc, leaving, raised>>

\* The container is started again: nothing is left of the memory.
Begin ==
    /\ position' = committed /\ seen' = <<>>
    /\ waiting' = [t \in Stored |-> <<>>]
    /\ pc' = "read" /\ leaving' = FALSE
    /\ UNCHANGED <<produced, committed, tables, raised>>

Restart == pc = "stopped" /\ Begin /\ UNCHANGED faults
Crash == Fault /\ pc # "stopped" /\ Begin

Step == (\E t \in Topics : Read(t)) \/ NotDue \/ Due \/ (\E t \in Stored : Insert(t))
        \/ Flushed \/ Commit \/ Restart

Traffic == \E t \in Topics : Produce(t)

RebalanceNext == Step \/ Traffic \/ Rejoin
Next ==
    \/ RebalanceNext
    \/ Leave \/ CommitFails \/ Crash
    \/ \E t \in Topics : DecodeFails(t)
    \/ \E t \in Enriched : LookupFails(t)
    \/ \E t \in Stored : InsertFails(t)

RebalanceSpec == Init /\ [][RebalanceNext]_vars
Spec == Init /\ [][Next]_vars

\* The loop polls for at most a second, and every call it makes returns or
\* raises.
FairSpec == Spec /\ WF_vars(Step)

-----------------------------------------------------------------------------
(***************************************************************************)
(* Properties.                                                             *)
(***************************************************************************)
\* Each variable's type.
TypeOK ==
    /\ produced \in [Topics -> Nat] /\ committed \in [Topics -> Nat]
    /\ position \in [Topics -> Nat]
    /\ tables \in [Stored -> Seq(Nat)] /\ waiting \in [Stored -> Seq(Nat)]
    /\ seen \in Seq(Topics \X Nat) /\ Len(seen) <= Capacity
    /\ pc \in {"read", "due", "insert", "commit", "stopped"} /\ leaving \in BOOLEAN
    /\ raised \subseteq Topics \X Nat
    /\ faults \in 0..MaxFaults

\* "Commits last": whatever fails or dies, every message behind a committed
\* offset is a row of its table, or one whose own handling raised.
NothingLost ==
    \A t \in Stored : \A i \in 1..committed[t] : i \in Rows(tables[t]) \/ <<t, i>> \in raised

\* A message that is in its table, or waits to be inserted.
InHand(t, i) == i \in Rows(tables[t]) \cup Rows(waiting[t])

\* Dedup never costs a message: what the consumer has read, and what it
\* would refuse as seen, is in its table or waits to be.  What raised is not,
\* and its id is remembered only until the process has ended.
ReadIsInHand ==
    /\ \A t \in Stored : \A i \in 1..position[t] : InHand(t, i) \/ <<t, i>> \in raised
    /\ \A e \in Rows(seen) : e[1] \in Stored => InHand(e[1], e[2]) \/ (leaving /\ e \in raised)

\* The inductive invariant: nothing waits when the offsets are about to be
\* committed, no offset is ahead of another, every row is a message, and who
\* is leaving reads no more.
Inductive ==
    /\ ReadIsInHand /\ NothingLost
    /\ pc = "commit" => \A t \in Stored : waiting[t] = <<>>
    /\ leaving => pc \in {"insert", "commit", "stopped"}
    /\ \A t \in Topics : committed[t] <= position[t] /\ position[t] <= produced[t]
    /\ \A t \in Stored : Rows(tables[t]) \cup Rows(waiting[t]) \subseteq 1..produced[t]

\* Without a restart or a failed insert, no message is a row twice: a
\* rebalance replays what was not committed, and SeenEvents refuses it.
NoDuplicates ==
    \A t \in Stored : \A i, j \in DOMAIN tables[t] : tables[t][i] = tables[t][j] => i = j

Promise == INSTANCE AtLeastOnce WITH
    Partitions <- Stored,
    produced <- [t \in Stored |-> produced[t]],
    committed <- [t \in Stored |-> committed[t]],
    kept <- UNION {{<<t, i>> : i \in Rows(tables[t])} : t \in Stored},
    failed <- {e \in raised : e[1] \in Stored}

\* The sink is an at-least-once store of the topics that have a table, but for
\* the messages whose handling raised ...
KeepsPromise == Promise!Spec

\* ... and every other message gets there, however long a quiet spell leaves
\* a batch half full.
EveryRowArrives == Promise!Arrives
=============================================================================
