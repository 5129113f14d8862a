---------------------------- MODULE AtLeastOnce -----------------------------
(***************************************************************************)
(* The promise of a service that reads Kafka and "commits last": a message *)
(* is kept before the offset passes it, unless handling this very message  *)
(* failed; it may be kept more than once.                                  *)
(***************************************************************************)
EXTENDS Naturals

CONSTANT Partitions

VARIABLES
    produced,   \* how many messages each partition holds
    kept,       \* the messages the service has stored: <<partition, offset>>
    failed,     \* the messages whose handling failed and was not repeated
    committed   \* the offset up to which each partition is dealt with

vars == <<produced, kept, failed, committed>>

Init ==
    /\ produced = [p \in Partitions |-> 0]
    /\ kept = {} /\ failed = {}
    /\ committed = [p \in Partitions |-> 0]

Produce(p) ==
    /\ produced' = [produced EXCEPT ![p] = @ + 1]
    /\ UNCHANGED <<kept, failed, committed>>

\* One insert stores messages of one partition.
Keep(p) ==
    /\ kept \subseteq kept' /\ kept' # kept
    /\ kept' \subseteq kept \cup {<<p, i>> : i \in 1..produced[p]}
    /\ UNCHANGED <<produced, failed, committed>>

\* One message more that could not be handled ...
Fail(p) ==
    /\ \E i \in 1..produced[p] : i > committed[p] /\ failed' = failed \cup {<<p, i>>}
    /\ UNCHANGED <<produced, kept, committed>>

\* ... or one that is handled once more, as long as no offset has passed it.
Retry(p) ==
    /\ \E i \in 1..produced[p] : i > committed[p] /\ failed' = failed \ {<<p, i>>}
    /\ UNCHANGED <<produced, kept, committed>>

\* The offsets move forward, and only past what is kept or failed.
Commit ==
    /\ committed' \in [Partitions -> Nat]
    /\ \A p \in Partitions :
          /\ committed[p] <= committed'[p]
          /\ \A i \in 1..committed'[p] : <<p, i>> \in kept \cup failed
    /\ UNCHANGED <<produced, kept, failed>>

Next == Commit \/ \E p \in Partitions : Produce(p) \/ Keep(p) \/ Fail(p) \/ Retry(p)

Spec == Init /\ [][Next]_vars

\* Every message is kept in the end, or has failed.
Arrives == \A p \in Partitions : <>[](\A i \in 1..produced[p] : <<p, i>> \in kept \cup failed)
=============================================================================
