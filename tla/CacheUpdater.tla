---------------------------- MODULE CacheUpdater ----------------------------
(***************************************************************************)
(* cache-updater: applies the changes Debezium reads from PostgreSQL to    *)
(* the Redis keys that mirror the rows, in batches, and commits last.      *)
(*                                                                         *)
(* Abstractions.  Each row is alone in its table, so it has a topic and a  *)
(* Redis database (with its pipeline) of its own.  What a key holds is the *)
(* change it comes from.  Messages about tables nobody caches are left     *)
(* out.  The clock is left out: a flush may be due after any message.      *)
(***************************************************************************)
EXTENDS Naturals, Sequences, FiniteSets, FiniteSetsExt

CONSTANTS
    Keys,        \* the rows, and their Redis keys
    BatchSize,   \* CACHE_BATCH_SIZE
    MaxChanges,  \* bound: messages per row
    MaxFaults    \* bound: stops, crashes and failures

ASSUME CacheAssumption ==
    /\ BatchSize \in Nat \ {0} /\ MaxChanges \in Nat /\ MaxFaults \in Nat
    /\ IsFiniteSet(Keys)

VARIABLES
    changes,    \* Kafka cdc.*: the messages about each row
    committed,  \* Kafka: this group's committed offsets
    cache,      \* Redis: the last change each key was given, 0 for none
    position,   \* the consumer's own offsets
    pipe,       \* the last command waiting in each pipeline, 0 for none
    pending,    \* how many commands the service believes wait there
    pc,         \* where the process stands
    leaving,    \* it is in the finally clause
    raised,     \* history: the messages whose decoding raised and that were
                \* not read again since
    faults

vars == <<changes, committed, cache, position, pipe, pending, pc, leaving, raised, faults>>

-----------------------------------------------------------------------------
Total == MapThenSumSet(LAMBDA k : pending[k], Keys)

Exists(k) == changes[k] # <<>> /\ changes[k][Len(changes[k])] = "write"

Init ==
    /\ changes = [k \in Keys |-> <<>>] /\ committed = [k \in Keys |-> 0]
    /\ cache = [k \in Keys |-> 0]
    /\ position = [k \in Keys |-> 0]
    /\ pipe = [k \in Keys |-> 0] /\ pending = [k \in Keys |-> 0]
    /\ pc = "read" /\ leaving = FALSE
    /\ raised = {} /\ faults = 0

\* A row is inserted or updated.
Save(k) ==
    /\ Len(changes[k]) < MaxChanges
    /\ changes' = [changes EXCEPT ![k] = Append(@, "write")]
    /\ UNCHANGED <<committed, cache, position, pipe, pending, pc, leaving, raised, faults>>

\* A row is deleted: the delete, and the tombstone after it.
Remove(k) ==
    /\ Exists(k) /\ Len(changes[k]) + 1 < MaxChanges
    /\ changes' = [changes EXCEPT ![k] = @ \o <<"delete", "tombstone">>]
    /\ UNCHANGED <<committed, cache, position, pipe, pending, pc, leaving, raised, faults>>

-----------------------------------------------------------------------------
\* One message is one command in the row's pipeline.  A tombstone skips the
\* check whether a flush is due.
Read(k) ==
    /\ pc = "read"
    /\ position[k] < Len(changes[k])
    /\ position' = [position EXCEPT ![k] = @ + 1]
    /\ pipe' = [pipe EXCEPT ![k] = position[k] + 1]
    /\ pending' = [pending EXCEPT ![k] = @ + 1]
    /\ pc' = IF changes[k][position[k] + 1] = "tombstone" THEN "read" ELSE "due"
    /\ raised' = raised \ {<<k, position[k] + 1>>}
    /\ UNCHANGED <<changes, committed, cache, leaving, faults>>

\* Mutant of NotDue: only the clock makes a flush due.
NotDueAnySize ==
    /\ pc = "due"
    /\ pc' = "read"
    /\ UNCHANGED <<changes, committed, cache, position, pipe, pending, leaving, raised, faults>>

NotDue ==
    /\ pc = "due"
    /\ Total < BatchSize
    /\ pc' = "read"
    /\ UNCHANGED <<changes, committed, cache, position, pipe, pending, leaving, raised, faults>>

\* flush begins: there is at least this message to apply.
Due ==
    /\ pc = "due"
    /\ pc' = "apply"
    /\ UNCHANGED <<changes, committed, cache, position, pipe, pending, leaving, raised, faults>>

\* Mutant of Apply: SET ... NX, a replay overwrites nothing.
ApplyOnce(k) ==
    /\ pc = "apply" /\ pending[k] > 0
    /\ cache' = [cache EXCEPT ![k] = IF @ = 0 THEN pipe[k] ELSE @]
    /\ pipe' = [pipe EXCEPT ![k] = 0] /\ pending' = [pending EXCEPT ![k] = 0]
    /\ UNCHANGED <<changes, committed, position, pc, leaving, raised, faults>>

\* Pipeline.execute on one database, a transaction; an empty one does nothing.
Apply(k) ==
    /\ pc = "apply"
    /\ pending[k] > 0
    /\ cache' = [cache EXCEPT ![k] = IF pipe[k] = 0 THEN @ ELSE pipe[k]]
    /\ pipe' = [pipe EXCEPT ![k] = 0]
    /\ pending' = [pending EXCEPT ![k] = 0]
    /\ UNCHANGED <<changes, committed, position, pc, leaving, raised, faults>>

Applied ==
    /\ pc = "apply"
    /\ \A k \in Keys : pending[k] = 0
    /\ pc' = "commit"
    /\ UNCHANGED <<changes, committed, cache, position, pipe, pending, leaving, raised, faults>>

Commit ==
    /\ pc = "commit"
    /\ committed' = position
    /\ pc' = IF leaving THEN "stopped" ELSE "read"
    /\ UNCHANGED <<changes, cache, position, pipe, pending, leaving, raised, faults>>

-----------------------------------------------------------------------------
(***************************************************************************)
(* What goes wrong.  Whatever ends the loop calls flush once more, which   *)
(* does nothing (and commits nothing) when nothing is pending.             *)
(***************************************************************************)
Fault == faults < MaxFaults /\ faults' = faults + 1

\* Mutant of Leave: the finally clause commits without flushing.
LeaveAndCommit ==
    /\ Fault /\ pc = "read"
    /\ leaving' = TRUE /\ pc' = "commit"
    /\ UNCHANGED <<changes, committed, cache, position, pipe, pending, raised>>

\* The finally clause: what is in hand is flushed.
Finally == leaving' = TRUE /\ pc' = IF Total = 0 THEN "stopped" ELSE "apply"

\* A stop is requested, or Kafka reports an error instead of a message.
Leave ==
    /\ Fault /\ pc = "read"
    /\ Finally
    /\ UNCHANGED <<changes, committed, cache, position, pipe, pending, raised>>

\* The consumer has moved past the message when its key or value is decoded,
\* and that raises (bad bytes, no schema registry): a flush in the finally
\* clause commits past it.
DecodeFails(k) ==
    /\ Fault /\ pc = "read"
    /\ position[k] < Len(changes[k])
    /\ position' = [position EXCEPT ![k] = @ + 1]
    /\ raised' = raised \cup {<<k, position[k] + 1>>}
    /\ Finally
    /\ UNCHANGED <<changes, committed, cache, pipe, pending>>

\* Kafka refuses the commit, or takes it and the answer is lost: nothing is
\* pending any more, so the finally clause does nothing.
CommitFails ==
    /\ Fault /\ pc = "commit"
    /\ committed' \in {committed, position}
    /\ leaving' = TRUE /\ pc' = "stopped"
    /\ UNCHANGED <<changes, cache, position, pipe, pending, raised>>

\* Redis refuses the pipeline, or applies it and the answer is lost.  The
\* client empties a pipeline whatever its execution said; pending stays.
ApplyFails(k) ==
    /\ Fault /\ pc = "apply"
    /\ pending[k] > 0 /\ pipe[k] # 0
    /\ cache' \in {cache, [cache EXCEPT ![k] = pipe[k]]}
    /\ pipe' = [pipe EXCEPT ![k] = 0]
    /\ leaving' = TRUE
    /\ pc' = IF leaving THEN "stopped" ELSE "apply"
    /\ UNCHANGED <<changes, committed, position, pending, raised>>

\* The container is started again: nothing is left of the memory.
Begin ==
    /\ position' = committed
    /\ pipe' = [k \in Keys |-> 0] /\ pending' = [k \in Keys |-> 0]
    /\ pc' = "read" /\ leaving' = FALSE
    /\ UNCHANGED <<changes, committed, cache, raised>>

Restart == pc = "stopped" /\ Begin /\ UNCHANGED faults
Crash == Fault /\ pc # "stopped" /\ Begin

Step == (\E k \in Keys : Read(k) \/ Apply(k)) \/ NotDue \/ Due \/ Applied \/ Commit \/ Restart
Traffic == \E k \in Keys : Save(k) \/ Remove(k)

Next ==
    \/ Step \/ Traffic
    \/ Leave \/ CommitFails \/ Crash \/ \E k \in Keys : DecodeFails(k)

\* Redis does what it is asked; and Redis failing as well.
Spec == Init /\ [][Next]_vars
FailingSpec == Init /\ [][Next \/ \E k \in Keys : ApplyFails(k)]_vars

-----------------------------------------------------------------------------
(***************************************************************************)
(* Properties.                                                             *)
(***************************************************************************)
\* Each variable's type.
TypeOK ==
    /\ changes \in [Keys -> Seq({"write", "delete", "tombstone"})]
    /\ committed \in [Keys -> Nat] /\ position \in [Keys -> Nat]
    /\ cache \in [Keys -> Nat] /\ pipe \in [Keys -> Nat] /\ pending \in [Keys -> Nat]
    /\ pc \in {"read", "due", "apply", "commit", "stopped"} /\ leaving \in BOOLEAN
    /\ raised \subseteq Keys \X Nat
    /\ faults \in 0..MaxFaults

\* "It commits after writing": every key holds what the committed offset says
\* it was given, or something later.  Only a message that could not be decoded
\* is passed over; and a replay never shows a row older than that offset.
CommittedIsApplied ==
    \A k \in Keys : \A i \in 1..committed[k] : i <= cache[k] \/ <<k, i>> \in raised

\* The inductive invariant: what was decoded waits in a pipeline that knows it,
\* or is applied.
Inductive ==
    /\ \A k \in Keys :
          /\ committed[k] <= position[k] /\ position[k] <= Len(changes[k])
          /\ cache[k] <= Len(changes[k]) /\ pipe[k] <= position[k]
          /\ pipe[k] = 0 <=> pending[k] = 0
          /\ \A i \in 1..position[k] :
                i <= (IF pipe[k] = 0 THEN cache[k] ELSE pipe[k]) \/ <<k, i>> \in raised
    /\ pc = "commit" => \A k \in Keys : pending[k] = 0
    /\ CommittedIsApplied

\* "Safe to replay": once everything is read and applied, every key holds the
\* last change that could be decoded, whatever was repeated on the way.
ReplayConverges ==
    pc = "read" /\ (\A k \in Keys : position[k] = Len(changes[k]) /\ pending[k] = 0)
        => \A k \in Keys : \A i \in 1..Len(changes[k]) : i <= cache[k] \/ <<k, i>> \in raised

\* A burst of tombstones cannot make a batch grow without limit: between two
\* deletes of one row there is a message that looks at the batch.
BatchStaysSmall == Total <= BatchSize + Cardinality(Keys)

\* Why: a batch that is read into was below the limit when it was last looked
\* at, and has since got the tombstone of a row or two, after its delete.
Unseen == {k \in Keys : position[k] > 0 /\ changes[k][position[k]] = "tombstone"}
TombstoneFollowsDelete ==
    \A k \in Keys : \A i \in DOMAIN changes[k] :
        changes[k][i] = "tombstone" => i > 1 /\ changes[k][i - 1] = "delete"
LookedAt ==
    /\ TombstoneFollowsDelete
    /\ pc = "read" => Total < BatchSize + Cardinality(Unseen)
    /\ BatchStaysSmall
=============================================================================
