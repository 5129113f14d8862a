------------------------------ MODULE Dispatch ------------------------------
(***************************************************************************)
(* dispatch-service: the loop that answers ride requests and moves trips   *)
(* along, one step per effect another process (or a crash) can fall        *)
(* between.  Its own memory is lost in a crash; PostgreSQL, Redis and the  *)
(* committed offset are not, and what the Kafka producers still hold is.   *)
(*                                                                         *)
(* Abstractions.  The clock is the set of trips that are due.  A driver's  *)
(* tier and distance are which drivers a search returns.  An offer is      *)
(* accepted or refused (declined or expired).  A route exists or not.      *)
(***************************************************************************)
EXTENDS Naturals, Sequences, TripStatus

CONSTANTS
    Trips,       \* the trips riders ask for
    Drivers,
    None,        \* no driver, no trip
    MaxOffers,   \* DISPATCH_MAX_OFFERS
    MaxPerTick,  \* DISPATCH_MAX_REQUESTS_PER_TICK
    MaxCrashes   \* bound: how often the process may die

ASSUME DispatchAssumption ==
    /\ None \notin Trips \cup Drivers
    /\ MaxOffers \in Nat \ {0}
    /\ MaxPerTick \in Nat \ {0}
    /\ MaxCrashes \in Nat

VARIABLES
    requests,   \* Kafka trip_requests: the trips in the order they were asked for
    committed,  \* Kafka: this consumer group's committed offset
    rows,       \* PostgreSQL trips
    offers,     \* PostgreSQL dispatch_offers, per trip, by sequence
    rated,      \* PostgreSQL trip_ratings: the trips that have theirs
    topic,      \* Kafka trip_lifecycle, per trip: one key, one partition
    outbox,     \* lifecycle messages the producer has not delivered
    offerLog,   \* dispatch_offers messages sent, per trip
    offerSafe,  \* how many of them no crash can lose any more
    live,       \* Redis trip:{id}:active
    geo,        \* Redis geo:drivers:available
    pc,         \* where the process stands
    position,   \* the consumer's own position
    taken,      \* requests taken this tick
    cur,        \* the trip in hand
    chain,      \* its offer chain
    before,     \* the status it has just left
    active,     \* the trips being moved along
    todo,       \* the trips this tick still has to move
    due,        \* the trips whose next_change_at has come
    crashes

kafka == <<requests, committed, topic, outbox, offerLog, offerSafe>>
store == <<rows, offers, rated>>
redis == <<live, geo>>
memory == <<pc, position, taken, cur, chain, before, active, todo, due>>
vars == <<kafka, store, redis, memory, crashes>>

\* What most steps leave alone.
otherKafka == <<requests, committed, topic, offerLog, offerSafe>>
inHand == <<position, taken, cur, chain, before, active, todo, due, crashes>>

-----------------------------------------------------------------------------
NoKey == [status |-> "no key", driver |-> None]
Idle == [status |-> "idle", driver |-> None, stamps |-> {}]
NoRow == [status |-> "no row", driver |-> None, ended |-> FALSE]

Offer == [sequence : 1..MaxOffers, driver : Drivers, status : {"accepted", "refused"}]
Row == [status : Statuses, driver : Drivers \cup {None}, ended : BOOLEAN]
LiveState == [status : Stages, driver : Drivers]
ActiveTrip == [status : Statuses \ {"requested"}, driver : Drivers,
               stamps : SUBSET Milestones]
Message == [status : Statuses, driver : Drivers \cup {None},
            stamps : SUBSET Milestones, reason : Reasons]

Accepts(os) == {i \in DOMAIN os : os[i].status = "accepted"}

\* The driver who accepted this chain, or None: only the last offer can.
Winner(os) == IF Accepts(os) = {} THEN None ELSE os[Len(os)].driver

(***************************************************************************)
(* run_chain over some candidates: drivers are asked one after another,    *)
(* nobody twice, until one accepts or all the candidates have refused.     *)
(* DISPATCH_MAX_OFFERS limits the candidates find_candidates returns.      *)
(***************************************************************************)
Chains(free) ==
    {os \in UNION {[1..n -> Offer] : n \in 1..MaxOffers} :
        /\ \A i \in DOMAIN os : os[i].sequence = i /\ os[i].driver \in free
        /\ \A i, j \in DOMAIN os : os[i].driver = os[j].driver => i = j
        /\ Accepts(os) \subseteq {Len(os)}}

(***************************************************************************)
(* INSERT_OFFER for a whole chain: ON CONFLICT (trip_id, sequence) DO      *)
(* NOTHING drops a new row whose sequence is there already.  These stay.   *)
(***************************************************************************)
Kept(old, new) == SubSeq(new, Len(old) + 1, Len(new))

\* The trips in the process's memory.
Moving == {t \in Trips : active[t] # Idle}

-----------------------------------------------------------------------------
\* All but PostgreSQL.
InitOutside ==
    /\ requests = <<>> /\ committed = 0
    /\ topic = [t \in Trips |-> <<>>] /\ outbox = [t \in Trips |-> <<>>]
    /\ offerLog = [t \in Trips |-> <<>>] /\ offerSafe = [t \in Trips |-> 0]
    /\ live = [t \in Trips |-> NoKey]
    /\ geo = {}
    /\ pc = "poll" /\ position = 0 /\ taken = 0 /\ cur = None
    /\ chain = <<>> /\ before = "requested"
    /\ active = [t \in Trips |-> Idle] /\ todo = {} /\ due = {}
    /\ crashes = 0

Init ==
    /\ rows = [t \in Trips |-> NoRow]
    /\ offers = [t \in Trips |-> <<>>]
    /\ rated = {}
    /\ InitOutside

(***************************************************************************)
(* The world around dispatch.                                              *)
(***************************************************************************)

\* passenger-service commits the row, then sends the request: the row is
\* there before any consumer sees the message.
Request(t) ==
    /\ rows[t] = NoRow
    /\ \A i \in DOMAIN requests : requests[i] # t
    /\ rows' = [rows EXCEPT ![t] = [status |-> "requested", driver |-> None, ended |-> FALSE]]
    /\ requests' = Append(requests, t)
    /\ UNCHANGED <<committed, topic, outbox, offerLog, offerSafe, offers, rated,
                   redis, memory, crashes>>

\* Not a step of Next.  A passenger-service that was started again may mint
\* the ids of its last life and ask for them again: the row is left as it is,
\* the message is sent.  Riders says when; elsewhere the assumption is that it
\* does not happen.
RequestAgain(t) ==
    /\ \E i \in DOMAIN requests : requests[i] = t
    /\ requests' = Append(requests, t)
    /\ UNCHANGED <<committed, topic, outbox, offerLog, offerSafe, store, redis, memory, crashes>>

\* driver-service reports, every tick, who is free and who is not.
ReportFree(d) ==
    /\ d \notin geo
    /\ geo' = geo \cup {d}
    /\ UNCHANGED <<kafka, store, live, memory, crashes>>

ReportBusy(d) ==
    /\ d \in geo
    /\ geo' = geo \ {d}
    /\ UNCHANGED <<kafka, store, live, memory, crashes>>

\* Time passes: a running trip's next_change_at comes.
BecomeDue(t) ==
    /\ active[t].status \in Stages /\ t \notin due
    /\ due' = due \cup {t}
    /\ UNCHANGED <<kafka, store, redis, pc, position, taken, cur, chain, before, active, todo, crashes>>

\* The lifecycle producer's background thread delivers, in order per key.  That
\* it does in the end is assumed: a message it gives up is only counted and
\* logged.
Deliver(t) ==
    /\ outbox[t] # <<>>
    /\ topic' = [topic EXCEPT ![t] = Append(@, Head(outbox[t]))]
    /\ outbox' = [outbox EXCEPT ![t] = Tail(@)]
    /\ UNCHANGED <<requests, committed, offerLog, offerSafe, store, redis, memory, crashes>>

\* Mutant of Expire: a lifetime shorter than a ride.
ExpireAnytime(t) ==
    /\ live[t] # NoKey
    /\ live' = [live EXCEPT ![t] = NoKey]
    /\ UNCHANGED <<kafka, store, geo, memory, crashes>>

\* TRIP_ACTIVE_TTL_SECONDS runs out.  Two hours are longer than any stage of
\* a trip that dispatch is still moving along or still handing out.
Expire(t) ==
    /\ live[t] # NoKey
    /\ t \notin Moving \cup {cur}
    /\ live' = [live EXCEPT ![t] = NoKey]
    /\ UNCHANGED <<kafka, store, geo, memory, crashes>>

-----------------------------------------------------------------------------
\* announce, and the send of _no_driver: one lifecycle message about the trip
\* in hand goes to the producer.
Announce(status, driver, stamps, reason) ==
    outbox' = [outbox EXCEPT ![cur] = Append(@,
        [status |-> status, driver |-> driver, stamps |-> stamps, reason |-> reason])]

(***************************************************************************)
(* Parts 1 and 2 of the tick: take requests and answer them.               *)
(***************************************************************************)
\* Mutant of Poll: the offset is committed as the message is read.
PollAndCommit ==
    /\ pc = "poll" /\ taken < MaxPerTick /\ position < Len(requests)
    /\ position' = position + 1 /\ taken' = taken + 1 /\ committed' = position + 1
    /\ cur' = requests[position + 1] /\ pc' = "check"
    /\ UNCHANGED <<requests, topic, outbox, offerLog, offerSafe, store, redis, chain,
                   before, active, todo, due, crashes>>

\* The next request.  An empty payload, which nobody sends, is committed and
\* passed over; it is left out.
Poll ==
    /\ pc = "poll"
    /\ taken < MaxPerTick /\ position < Len(requests)
    /\ position' = position + 1
    /\ taken' = taken + 1
    /\ cur' = requests[position + 1]
    /\ pc' = "check"
    /\ UNCHANGED <<kafka, store, redis, chain, before, active, todo, due, crashes>>

StopPolling ==
    /\ pc = "poll"
    /\ taken = MaxPerTick \/ position = Len(requests)
    /\ pc' = "move"
    /\ UNCHANGED <<kafka, store, redis, inHand>>

\* Mutant of CheckStored: a request accepted before a crash is searched again.
CheckNothing ==
    /\ pc = "check" /\ pc' = "search"
    /\ UNCHANGED <<kafka, store, redis, inHand>>

\* Mutant of CheckStored: ALREADY_HANDLED skips the commit as well.
CheckWithoutCommit ==
    /\ pc = "check"
    /\ pc' = IF Accepts(offers[cur]) = {} THEN "search" ELSE "poll"
    /\ cur' = IF Accepts(offers[cur]) = {} THEN cur ELSE None
    /\ UNCHANGED <<kafka, store, redis, position, taken, chain, before, active, todo, due, crashes>>

\* assign begins with accept_already_stored.
CheckStored ==
    /\ pc = "check"
    /\ pc' = IF Accepts(offers[cur]) = {} THEN "search" ELSE "commit"
    /\ UNCHANGED <<kafka, store, redis, inHand>>

\* Mutant of SearchFails: nobody is told and nothing is written.
SearchFailsSilently ==
    /\ pc = "search" /\ pc' = "commit"
    /\ UNCHANGED <<kafka, store, redis, inHand>>

\* find_candidates found nobody, or routing.route found no way.
SearchFails ==
    /\ pc = "search"
    /\ pc' = "tell_none"
    /\ UNCHANGED <<kafka, store, redis, inHand>>

\* find_candidates, routing.route and run_chain: the free list is read once.
SearchOffers ==
    /\ pc = "search"
    /\ \E os \in Chains(geo) : chain' = os
    /\ pc' = "record"
    /\ UNCHANGED <<kafka, store, redis, position, taken, cur, before, active, todo, due, crashes>>

\* Mutant of RecordOffers: only a chain somebody accepted is kept.
RecordAccepted ==
    /\ pc = "record"
    /\ offers' = IF Winner(chain) = None THEN offers
                 ELSE [offers EXCEPT ![cur] = @ \o Kept(@, chain)]
    /\ pc' = "tell_offers"
    /\ UNCHANGED <<kafka, rows, rated, redis, inHand>>

\* record_offers: one transaction, refused as a whole by the unique index on
\* the accepted offer of a trip.
RecordOffers ==
    /\ pc = "record"
    /\ IF Accepts(offers[cur]) # {} /\ Winner(Kept(offers[cur], chain)) # None
         THEN pc' = "commit" /\ chain' = <<>> /\ offers' = offers
         ELSE /\ offers' = [offers EXCEPT ![cur] = @ \o Kept(@, chain)]
              /\ pc' = "tell_offers" /\ chain' = chain
    /\ UNCHANGED <<kafka, rows, rated, redis, position, taken, cur, before, active, todo, due, crashes>>

\* Mutant of AnnounceOffers: the route is computed after the chain, and a
\* route that does not exist ends a trip somebody has accepted.
AnnounceThenRoute ==
    /\ pc = "tell_offers"
    /\ offerLog' = [offerLog EXCEPT ![cur] = @ \o chain]
    /\ pc' \in {"tell_none", "assign"}
    /\ pc' = "assign" => Winner(chain) # None
    /\ chain' = IF pc' = "assign" THEN chain ELSE <<>>
    /\ UNCHANGED <<requests, committed, topic, outbox, offerSafe, store, redis,
                   position, taken, cur, before, active, todo, due, crashes>>

AnnounceOffers ==
    /\ pc = "tell_offers"
    /\ offerLog' = [offerLog EXCEPT ![cur] = @ \o chain]
    /\ pc' = IF Winner(chain) = None THEN "tell_none" ELSE "assign"
    /\ UNCHANGED <<requests, committed, topic, outbox, offerSafe, store, redis, inHand>>

\* _no_driver: announce first, then write.
TellNoDriver ==
    /\ pc = "tell_none"
    /\ Announce("no_driver_found", None, {}, "none")
    /\ pc' = "write_none"
    /\ UNCHANGED <<otherKafka, store, redis, inHand>>

\* UPDATE_STATUS has no guard on the status it overwrites.
UpdateStatus(row, s) == [row EXCEPT !.status = s, !.ended = @ \/ s \in Finished]

\* An UPDATE that finds no row changes nothing, and nobody looks at the count.
Updated(t, row) == IF rows[t] = NoRow THEN rows ELSE [rows EXCEPT ![t] = row]

WriteNoDriver ==
    /\ pc = "write_none"
    /\ rows' = Updated(cur, UpdateStatus(rows[cur], "no_driver_found"))
    /\ pc' = "commit"
    /\ UNCHANGED <<kafka, offers, rated, redis, inHand>>

\* UPDATE_ASSIGNED: no guard either, and ended_at stays what it was.
Assign ==
    /\ pc = "assign"
    /\ rows' = Updated(cur, [rows[cur] EXCEPT !.status = "matched", !.driver = Winner(chain)])
    /\ pc' = "hide"
    /\ UNCHANGED <<kafka, offers, rated, redis, inHand>>

\* Mutant of HideDriver: the live state of a new match is not written.
HideAndTell ==
    /\ pc = "hide"
    /\ geo' = geo \ {Winner(chain)}
    /\ pc' = "tell_match"
    /\ UNCHANGED <<kafka, store, live, inHand>>

\* The driver is taken out of the free list.
HideDriver ==
    /\ pc = "hide"
    /\ geo' = geo \ {Winner(chain)}
    /\ pc' = "keep_match"
    /\ UNCHANGED <<kafka, store, live, inHand>>

KeepMatch ==
    /\ pc = "keep_match"
    /\ live' = [live EXCEPT ![cur] = [status |-> "matched", driver |-> Winner(chain)]]
    /\ pc' = "tell_match"
    /\ UNCHANGED <<kafka, store, geo, inHand>>

TellMatch ==
    /\ pc = "tell_match"
    /\ Announce("matched", Winner(chain), {}, "none")
    /\ pc' = "commit"
    /\ UNCHANGED <<otherKafka, store, redis, inHand>>

\* Mutant of Commit: the loop does not remember the match.
CommitAndForget ==
    /\ pc = "commit"
    /\ committed' = position
    /\ pc' = "poll" /\ cur' = None /\ chain' = <<>>
    /\ UNCHANGED <<requests, topic, outbox, offerLog, offerSafe, store, redis,
                   position, taken, before, active, todo, due, crashes>>

\* handle_one_request commits the offset; the loop then remembers a match,
\* in place of whatever it remembered of the trip.
Commit ==
    /\ pc = "commit"
    /\ committed' = position
    /\ IF Winner(chain) = None THEN UNCHANGED <<active, todo, due>>
       ELSE /\ active' = [active EXCEPT ![cur] = [status |-> "matched",
                                        driver |-> Winner(chain), stamps |-> {}]]
            /\ todo' = todo \ {cur} /\ due' = due \ {cur}
    /\ pc' = "poll" /\ cur' = None /\ chain' = <<>>
    /\ UNCHANGED <<requests, topic, outbox, offerLog, offerSafe, store, redis,
                   position, taken, before, crashes>>

-----------------------------------------------------------------------------
(***************************************************************************)
(* Part 3 of the tick: the trips that were due when the tick began.        *)
(***************************************************************************)

\* next_status: the trip in memory changes before anybody is told, and Redis
\* is written before Kafka unless the trip is over.
Advance(t) ==
    /\ pc = "move" /\ t \in todo
    /\ \E s \in NextStatuses(active[t].status) :
          /\ active' = [active EXCEPT ![t].status = s, ![t].stamps = Stamp(@, s)]
          /\ pc' = IF s \in Finished THEN "tell" ELSE "keep"
    /\ before' = active[t].status
    /\ cur' = t
    /\ todo' = todo \ {t} /\ due' = due \ {t}
    /\ UNCHANGED <<kafka, store, redis, position, taken, chain, crashes>>

\* store_live_state
Keep ==
    /\ pc = "keep"
    /\ live' = [live EXCEPT ![cur] = [status |-> active[cur].status,
                                      driver |-> active[cur].driver]]
    /\ pc' = "tell"
    /\ UNCHANGED <<kafka, store, geo, inHand>>

\* announce
Tell ==
    /\ pc = "tell"
    /\ Announce(active[cur].status, active[cur].driver, active[cur].stamps,
                ReasonFor(before, active[cur].status))
    /\ pc' = "write"
    /\ UNCHANGED <<otherKafka, store, redis, inHand>>

\* Mutant of Write: only the end of a trip reaches the database.
WriteEnds ==
    /\ pc = "write"
    /\ rows' = IF active[cur].status \in Finished
               THEN Updated(cur, UpdateStatus(rows[cur], active[cur].status)) ELSE rows
    /\ pc' = CASE active[cur].status = "completed" -> "rate"
               [] active[cur].status \in Finished \ {"completed"} -> "forget"
               [] OTHER -> "move"
    /\ cur' = IF active[cur].status \in Finished THEN cur ELSE None
    /\ before' = "requested"
    /\ UNCHANGED <<kafka, offers, rated, redis, position, taken, chain, active, todo, due, crashes>>

\* _write_status, then ratings for a completed trip.
Write ==
    /\ pc = "write"
    /\ rows' = Updated(cur, UpdateStatus(rows[cur], active[cur].status))
    /\ pc' = CASE active[cur].status = "completed" -> "rate"
               [] active[cur].status \in Finished \ {"completed"} -> "forget"
               [] OTHER -> "move"
    /\ cur' = IF active[cur].status \in Finished THEN cur ELSE None
    /\ before' = "requested"
    /\ UNCHANGED <<kafka, offers, rated, redis, position, taken, chain, active, todo, due, crashes>>

\* ratings.rate_and_maintain
Rate ==
    /\ pc = "rate"
    /\ rated' = rated \cup {cur}
    /\ pc' = "forget"
    /\ UNCHANGED <<kafka, rows, offers, redis, inHand>>

\* A finished trip leaves the process's memory, and its live state goes.
Forget ==
    /\ pc = "forget"
    /\ active' = [active EXCEPT ![cur] = Idle]
    /\ live' = [live EXCEPT ![cur] = NoKey]
    /\ cur' = None
    /\ pc' = "move"
    /\ UNCHANGED <<kafka, store, geo, position, taken, chain, before, todo, due, crashes>>

\* Part 4 refreshes the live state of the trips under way; the next tick then
\* looks at the clock once, before anything else.
NextTick ==
    /\ pc = "move" /\ todo = {}
    /\ live' = [t \in Trips |->
          IF active[t].status = "in_progress"
          THEN [status |-> "in_progress", driver |-> active[t].driver] ELSE live[t]]
    /\ todo' = due
    /\ taken' = 0
    /\ pc' = "poll"
    /\ UNCHANGED <<kafka, store, geo, position, cur, chain, before, active, due, crashes>>

-----------------------------------------------------------------------------
(***************************************************************************)
(* The process dies, at any step, and its container starts it again: with  *)
(* an empty memory, from the committed offset, and without the messages    *)
(* the producers still held.  An exception or a stop flushes them first,   *)
(* which is this step after enough deliveries.  The offer producer's       *)
(* deliveries are not steps of their own: the crash decides how many of    *)
(* the offers sent since the last one had been delivered.                  *)
(***************************************************************************)
Restart ==
    /\ pc' = "poll" /\ position' = committed /\ taken' = 0
    /\ cur' = None /\ chain' = <<>> /\ before' = "requested"
    /\ active' = [t \in Trips |-> Idle] /\ todo' = {} /\ due' = {}

Crash ==
    /\ crashes < MaxCrashes
    /\ crashes' = crashes + 1
    /\ outbox' = [t \in Trips |-> <<>>]
    /\ \E kept \in [Trips -> UNION {0..Len(offerLog[t]) : t \in Trips}] :
          /\ \A t \in Trips : kept[t] \in offerSafe[t]..Len(offerLog[t])
          /\ offerSafe' = kept
          /\ offerLog' = [t \in Trips |-> SubSeq(offerLog[t], 1, kept[t])]
    /\ Restart
    /\ UNCHANGED <<requests, committed, topic, store, redis>>

Answer == CheckStored \/ SearchFails \/ SearchOffers \/ RecordOffers \/ AnnounceOffers
          \/ TellNoDriver \/ WriteNoDriver \/ Assign \/ HideDriver \/ KeepMatch
          \/ TellMatch \/ Commit

Move == (\E t \in Trips : Advance(t)) \/ Keep \/ Tell \/ Write \/ Rate \/ Forget

\* One step of the process itself.
Step == Poll \/ StopPolling \/ Answer \/ Move \/ NextTick

Surroundings ==
    \/ \E t \in Trips : Request(t) \/ BecomeDue(t) \/ Deliver(t) \/ Expire(t)
    \/ \E d \in Drivers : ReportFree(d) \/ ReportBusy(d)

CalmNext == Step \/ Surroundings
Next == CalmNext \/ Crash

\* Without a crash, and with any the bound allows.
CalmSpec == Init /\ [][CalmNext]_vars
Spec == Init /\ [][Next]_vars

(***************************************************************************)
(* The loop never waits for anybody (every call it makes returns or kills  *)
(* it), the producers' threads keep delivering, and time passes.           *)
(***************************************************************************)
Fairness ==
    /\ WF_vars(Step)
    /\ \A t \in Trips : WF_vars(BecomeDue(t)) /\ WF_vars(Deliver(t))
FairCalmSpec == CalmSpec /\ Fairness

-----------------------------------------------------------------------------
(***************************************************************************)
(* Properties.                                                             *)
(***************************************************************************)
Steps == {"poll", "check", "search", "record", "tell_offers", "tell_none",
          "write_none", "assign", "hide", "keep_match", "tell_match", "commit",
          "move", "keep", "tell", "write", "rate", "forget"}

\* What the trip_lifecycle topic holds or will hold of a trip.
Told(t) == topic[t] \o outbox[t]

\* Each variable's type.
TypeOK ==
    /\ requests \in Seq(Trips) /\ committed \in Nat
    /\ rows \in [Trips -> Row \cup {NoRow}]
    /\ offers \in [Trips -> Seq(Offer)]
    /\ rated \subseteq Trips
    /\ topic \in [Trips -> Seq(Message)] /\ outbox \in [Trips -> Seq(Message)]
    /\ offerLog \in [Trips -> Seq(Offer)] /\ offerSafe \in [Trips -> Nat]
    /\ live \in [Trips -> LiveState \cup {NoKey}]
    /\ geo \subseteq Drivers
    /\ pc \in Steps /\ position \in Nat /\ taken \in 0..MaxPerTick
    /\ cur \in Trips \cup {None}
    /\ chain \in Seq(Offer) /\ before \in Statuses
    /\ active \in [Trips -> ActiveTrip \cup {Idle}]
    /\ todo \subseteq due /\ due \subseteq Moving
    /\ crashes \in 0..MaxCrashes

\* The status trip_lifecycle ends with, as far as this sequence of messages.
Latest(messages) == IF messages = <<>> THEN "requested" ELSE messages[Len(messages)].status

Sequences(os) == {os[i].sequence : i \in DOMAIN os}
OffersIn(os) == {os[i] : i \in DOMAIN os}

\* At the start of a tick, everything dispatch knows of a trip it is moving
\* along is the same in its memory, in the trips row, in the live state and in
\* the last message: a tick leaves no half-made change behind, whatever
\* crashes came before.
FourCopiesAgree ==
    pc = "poll" =>
        \A t \in Moving :
            /\ rows[t].status = active[t].status
            /\ rows[t].driver = active[t].driver
            /\ live[t] = [status |-> active[t].status, driver |-> active[t].driver]
            /\ Latest(Told(t)) = active[t].status

\* Redis before Kafka: whoever reads a message about a running trip that
\* dispatch still moves finds a live state at least as far along (a reader
\* that found none skipped the trip and never followed it).
AnnouncedIsReadable ==
    \A t \in Trips :
        /\ t \in Moving \/ (t = cur /\ pc = "commit" /\ Winner(chain) # None)
        /\ Latest(Told(t)) \in Stages
        => live[t].status \in {Latest(Told(t))} \cup NextStatuses(Latest(Told(t)))

\* An offset is committed only past requests that left something durable: a
\* row that is no longer just requested, or an accepted offer on record.
CommittedMeansDecided ==
    \A i \in 1..committed :
        \/ rows[requests[i]].status # "requested"
        \/ Accepts(offers[requests[i]]) # {}

\* Quality bar Q6: at most one acceptance per trip reaches the warehouse.
OneAcceptTold == \A t \in Trips : \A i, j \in Accepts(offerLog[t]) : i = j

\* Quality bar Q7: the offers published about a trip are 1, 2, 3 ... once each.
ChainHasNoGaps == \A t \in Trips : Sequences(offerLog[t]) = 1..Len(offerLog[t])

\* Quality bar Q8: no trip that dispatch is done with is reported as
\* no_driver_found with an acceptance published.
UnmatchedTookNoOffer ==
    \A t \in Trips \ (Moving \cup {cur}) :
        Latest(topic[t]) = "no_driver_found" => Accepts(offerLog[t]) = {}

\* Every offer that is published is on record in PostgreSQL.
PublishedIsRecorded == \A t \in Trips : OffersIn(offerLog[t]) \subseteq OffersIn(offers[t])

\* Quality bars Q4 and Q5, on each message as it was sent: an arrival follows
\* an acceptance, a completed trip had arrived, and a reason that speaks of
\* the kerb needs a car that reached it.
StampsInOrder ==
    \A t \in Trips : \A i \in DOMAIN Told(t) :
        LET m == Told(t)[i]
        IN  /\ "arrived" \in m.stamps => "accepted" \in m.stamps
            /\ m.status = "completed" => m.stamps = Milestones
            /\ m.reason = "at_kerb" <=> m.status \in Finished /\ "arrived" \in m.stamps
                                        /\ "in_progress" \notin m.stamps

\* With nothing in flight, the topic and the table tell the same story of
\* every trip.
OneStory ==
    pc = "poll" /\ (\A t \in Trips : outbox[t] = <<>>)
        => \A t \in Trips : rows[t] # NoRow => rows[t].status = Latest(topic[t])

(***************************************************************************)
(* Why CommittedMeansDecided holds: what is true at every step, for the    *)
(* proof.  Where the process stands says what it holds in its hands ...    *)
(***************************************************************************)
Answering == {"check", "search", "record", "tell_offers", "tell_none", "write_none",
              "assign", "hide", "keep_match", "tell_match", "commit"}
Matching == {"assign", "hide", "keep_match", "tell_match"}
MovingOn == {"keep", "tell", "write", "rate", "forget"}

InHand ==
    /\ pc \in Answering \cup MovingOn => cur \in Trips
    /\ pc \in Matching => Winner(chain) # None
    /\ pc \in MovingOn => active[cur] # Idle
    /\ pc = "keep" => active[cur].status \in Stages
    /\ pc \in {"rate", "forget"} => active[cur].status \in Finished
    /\ \A t \in due : active[t].status \in Stages

\* ... and the request being answered is the one after the committed offset;
\* every request has its row, and the answer reaches the database before the
\* offset is committed.
NextInLine ==
    /\ position <= Len(requests)
    /\ position = IF pc \in Answering THEN committed + 1 ELSE committed
    /\ pc \in Answering => cur = requests[position]
    /\ \A i \in 1..Len(requests) : rows[requests[i]].status \in Statuses

Decided(t) == rows[t].status # "requested" \/ Accepts(offers[t]) # {}

AnswerOnRecord ==
    /\ pc \in Matching \ {"assign"} => rows[cur].status # "requested"
    /\ pc = "commit" => Decided(cur)
    /\ CommittedMeansDecided

\* The inductive invariant: every step keeps it.
Inductive == InHand /\ NextInLine /\ AnswerOnRecord

\* A request whose offset is committed has been answered: its rider is not
\* left waiting in requested.
AnsweredMeansMoved ==
    \A i \in 1..committed : rows[requests[i]].status # "requested"

\* trips.status, as the abstract specification sees it.
Lifecycle == INSTANCE TripLifecycle WITH status <- [t \in Trips |-> rows[t].status]

\* Without a crash, trips.status keeps the promise of TripLifecycle: every
\* trip is answered once, moves along the state machine and ends.
KeepsLifecycle == Lifecycle!FairSpec
=============================================================================
