-------------------------- MODULE MarketplaceProofs --------------------------
(***************************************************************************)
(* Theorems about dispatch-service and driver-service together             *)
(* (MarketSpec), for any trips, drivers, shifts and deaths of              *)
(* driver-service.  The argument: driver-service writes nothing that       *)
(* dispatch counts on, so everything DispatchProofs shows holds here;      *)
(* and a driver's state is what the last message read about its trip says. *)
(***************************************************************************)
EXTENDS Marketplace, DispatchProofs

-----------------------------------------------------------------------------
(* The inductive invariant.  Dispatch keeps the live state of every trip   *)
(* it moves along ...                                                      *)
LiveWhileMoving == \A t \in Moving : live[t].driver # None

\* ... driver-service has read no more than there is, and a driver on a trip
\* is there because the last message read about it says so ...
ReadInBounds == \A t \in Trips : read[t] <= Len(topic[t])

Follows(d, t) ==
    /\ read[t] \in 1..Len(topic[t])
    /\ topic[t][read[t]].driver = d
    /\ topic[t][read[t]].status \in Stages
    /\ fleet[d].status = Fleet!StatusEffect(topic[t][read[t]].status)

FollowsNews ==
    \A d \in Drivers :
        /\ fleet[d].trip = None => fleet[d].status \in {"offline", "idle"}
        /\ \A t \in Trips : fleet[d].trip = t => Follows(d, t)

\* ... along a path that was laid for it, as long as the trip is not over and
\* routing found one ...
Running(t) == t \in Moving \/ ~Answered(t)

HasItsPath ==
    \A d \in Drivers : \A t \in Trips :
        fleet[d].trip = t /\ Running(t) /\ ~fleet[d].unrouted =>
            fleet[d].path \in {Fleet!NoPath, Fleet!Leg(t, fleet[d].status)}

\* ... and nobody who starts a shift is offline before it is recorded.
ShiftsInHand ==
    /\ clock = "news" => started = {} /\ ended = {}
    /\ started \cap Fleet!Doing("offline") = {}
    /\ OfflineClosesSession

InService == FleetTypeOK /\ LiveWhileMoving /\ ReadInBounds /\ FollowsNews /\ HasItsPath
Together == Sound /\ Calm /\ InService

-----------------------------------------------------------------------------
(* Dispatch, seen from here. *)

\* What driver-service writes, dispatch can live with: the free list is read
\* once, and whatever it holds is a set of drivers.
LEMMA FreeListOnly ==
    ASSUME Sound, Calm, UNCHANGED <<dispatchOnly, topic, live>>, geo' \subseteq Drivers
    PROVE  Sound' /\ Calm'
  <1> USE DEF dispatchOnly, store, memory
  <1>1. TypeOK'
    BY DEF Sound, TypeOK, Moving
  <1>2. InHand' /\ NextInLine'
    BY DEF Sound, InHand, Winner, Accepts, NextInLine
  <1>3. AnswerOnRecord'
    BY DEF Sound, AnswerOnRecord, Decided, Accepts, CommittedMeansDecided
  <1>4. \A t \in Trips : /\ Answered(t)' = Answered(t)
                         /\ Latest(Told(t))' = Latest(Told(t))
                         /\ Shown(t, active[t].status)' = Shown(t, active[t].status)
    BY DEF Answered, Latest, Told, Shown
  <1>5. AskedOnce' /\ ChainInHand'
    BY <1>4 DEF Sound, Copies, AskedOnce, Moving, ChainInHand, Winner, Accepts
  <1>6. MatchInHand'
    BY DEF Sound, Copies, MatchInHand, Matched, Winner, Accepts, Latest, Told
  <1>7. MoveInHand'
    BY DEF Sound, Copies, MoveInHand, Shown, Latest, Told
  <1>8. Settled'
    BY <1>4 DEF Sound, Copies, Settled, Agrees, Moving
  <1>9. Sound'
    BY <1>1, <1>2, <1>3, <1>5, <1>6, <1>7, <1>8 DEF Sound, Copies
  <1>10. Undisturbed'
    BY <1>4 DEF Calm, Undisturbed, Fresh, Unanswered, Untold, Unoffered
  <1>11. AnswerInHand'
    BY DEF Calm, AnswerInHand, Unoffered, Untold, Accepts, Latest, Told, Winner
  <1>12. AnsweredAreWhole'
    BY <1>4 DEF Calm, AnsweredAreWhole, Whole, Moving
  <1>13. ChainsInOrder'
    BY DEF Calm, ChainsInOrder, InOrder, Accepts
  <1>14. NewsIsTrue'
    BY DEF Calm, NewsIsTrue, NewsOf, Accepts
  <1> QED BY <1>9, <1>10, <1>11, <1>12, <1>13, <1>14 DEF Calm

\* Whatever is read about a trip names the driver of its row.
LEMMA ReadIsTrue ==
    ASSUME Sound, Calm, NEW t \in Trips, NEW i \in 1..Len(topic[t])
    PROVE  topic[t][i] \in Message /\ topic[t][i].driver = rows[t].driver
  <1>1. topic[t] \in Seq(NewsOf(t))
    BY DEF Calm, NewsIsTrue
  <1>2. topic[t][i] \in NewsOf(t)
    BY <1>1, LenProperties, ElementOfSeq
  <1> QED BY <1>2 DEF NewsOf

\* The topic of a trip only grows, a trip that was answered and left the
\* process does not come back, and no message appears about it unannounced.
LEMMA DispatchMoves ==
    ASSUME Sound, [CalmNext]_vars, NEW t \in Trips
    PROVE  /\ Len(topic'[t]) >= Len(topic[t])
           /\ \A i \in 1..Len(topic[t]) : topic'[t][i] = topic[t][i]
           /\ Running(t)' => Running(t)
  <1>0. TypeOK /\ topic[t] \in Seq(Message) /\ Len(topic[t]) \in Nat
    BY LenProperties DEF Sound, TypeOK
  <1>1. Len(topic'[t]) >= Len(topic[t]) /\ \A i \in 1..Len(topic[t]) : topic'[t][i] = topic[t][i]
    <2>1. CASE \E u \in Trips : Deliver(u)
      <3>1. PICK u \in Trips : Deliver(u)
        BY <2>1
      <3>2. /\ outbox[u] \in Seq(Message) /\ outbox[u] # <<>>
            /\ topic'[t] = IF t = u THEN Append(topic[u], Head(outbox[u])) ELSE topic[t]
        BY <1>0, <3>1 DEF Deliver, TypeOK
      <3>3. Head(outbox[u]) \in Message
        BY <3>2, HeadTailProperties
      <3> QED BY <1>0, <3>2, <3>3, AppendProperties
    <2>2. CASE topic' = topic
      BY <1>0, <2>2
    <2> QED
      BY <2>1, <2>2 DEF CalmNext, Step, Surroundings, Answer, Move, Poll, StopPolling,
        CheckStored, SearchFails, SearchOffers, RecordOffers, AnnounceOffers, TellNoDriver,
        WriteNoDriver, Assign, HideDriver, KeepMatch, TellMatch, Commit, Advance, Keep, Tell,
        Write, Rate, Forget, NextTick, Request, BecomeDue, Expire, ReportFree, ReportBusy,
        vars, kafka, otherKafka
  <1>2. t \in Moving' => t \in Moving \/ (t = cur /\ pc \in Answering)
    <2>1. CASE Commit
      BY <1>0, <2>1 DEF Commit, Moving, Answering, TypeOK
    <2>2. CASE Forget
      BY <1>0, <2>2 DEF Forget, Moving, TypeOK
    <2>3. CASE \E u \in Trips : Advance(u)
      <3>1. PICK u \in Trips : Advance(u)
        BY <2>3
      <3>2. u \in Moving /\ \A v \in Trips \ {u} : active'[v] = active[v]
        BY <1>0, <3>1 DEF Advance, TypeOK
      <3> QED BY <3>2 DEF Moving
    <2>4. CASE active' = active
      BY <2>4 DEF Moving
    <2> QED
      BY <2>1, <2>2, <2>3, <2>4 DEF CalmNext, Step, Surroundings, Answer, Move, Poll, StopPolling,
        CheckStored, SearchFails, SearchOffers, RecordOffers, AnnounceOffers, TellNoDriver,
        WriteNoDriver, Assign, HideDriver, KeepMatch, TellMatch, Keep, Tell, Deliver,
        Write, Rate, NextTick, Request, BecomeDue, Expire, ReportFree, ReportBusy,
        vars, memory, inHand
  <1>3. Answered(t) => Answered(t)'
    BY AnsweredStays DEF Next
  <1>4. pc \in Answering => ~Answered(cur)
    BY AnsweringTrip
  <1> QED BY <1>1, <1>2, <1>3, <1>4 DEF Running

\* A trip is shown as long as it is moved along: written before the match is
\* committed, refreshed by the tick, and deleted with the trip.
LEMMA LiveStep ==
    Sound /\ LiveWhileMoving /\ [CalmNext]_vars => LiveWhileMoving'
  <1> SUFFICES ASSUME Sound, LiveWhileMoving, [CalmNext]_vars PROVE LiveWhileMoving'
    OBVIOUS
  <1>0. TypeOK /\ NoKey.driver = None
    BY DEF Sound, NoKey
  <1>1. ASSUME \A t \in Trips : t \in Moving' => t \in Moving /\ live'[t] = live[t]
        PROVE  LiveWhileMoving'
    BY <1>1 DEF LiveWhileMoving, Moving
  <1>2. CASE Commit
    <2>1. /\ live' = live /\ pc = "commit" /\ cur \in Trips
          /\ \A t \in Trips \ {cur} : active'[t] = active[t]
          /\ Winner(chain) = None => active' = active
      BY <1>0, <1>2, AnsweringTrip DEF Commit, redis, Answering, TypeOK
    <2>2. Winner(chain) # None => live[cur].driver # None
      BY <2>1 DEF Sound, Copies, MatchInHand, Matched
    <2> QED BY <2>1, <2>2 DEF LiveWhileMoving, Moving
  <1>3. CASE Forget
    <2>1. cur \in Trips /\ active'[cur] = Idle
          /\ \A t \in Trips \ {cur} : active'[t] = active[t] /\ live'[t] = live[t]
      BY <1>0, <1>3 DEF Forget, TypeOK, Sound, InHand, MovingOn
    <2> QED BY <1>1, <2>1 DEF Moving
  <1>4. CASE Keep
    <2>1. /\ cur \in Moving /\ active' = active /\ live'[cur].driver = active[cur].driver
          /\ \A t \in Trips \ {cur} : live'[t] = live[t]
      BY <1>0, <1>4 DEF Keep, TypeOK, Sound, InHand, MovingOn, Moving, inHand
    <2>2. active[cur].driver # None
      BY <1>0, <2>1, DispatchAssumption DEF TypeOK, Moving, ActiveTrip
    <2> QED BY <2>1, <2>2 DEF LiveWhileMoving, Moving
  <1>5. CASE KeepMatch
    <2>1. /\ cur \in Trips /\ active' = active /\ live'[cur].driver = Winner(chain)
          /\ Winner(chain) # None
          /\ \A t \in Trips \ {cur} : live'[t] = live[t]
      BY <1>0, <1>5 DEF KeepMatch, TypeOK, Sound, InHand, Matching, Answering, inHand
    <2> QED BY <2>1 DEF LiveWhileMoving, Moving
  <1>6. CASE NextTick
    <2>1. active' = active
      BY <1>6 DEF NextTick
    <2>2. ASSUME NEW t \in Moving PROVE live'[t].driver # None
      <3>1. active[t].driver # None /\ live[t].driver # None
        BY <1>0, DispatchAssumption DEF TypeOK, Moving, ActiveTrip, LiveWhileMoving
      <3>2. live'[t] = IF active[t].status = "in_progress"
                       THEN [status |-> "in_progress", driver |-> active[t].driver] ELSE live[t]
        BY <1>6 DEF NextTick, Moving
      <3> QED BY <3>1, <3>2
    <2> QED BY <2>1, <2>2 DEF LiveWhileMoving, Moving
  <1>7. ASSUME NEW u \in Trips, Advance(u) PROVE LiveWhileMoving'
    <2>1. u \in Moving /\ live' = live /\ \A t \in Trips \ {u} : active'[t] = active[t]
      BY <1>0, <1>7 DEF Advance, TypeOK, redis
    <2> QED BY <1>1, <2>1 DEF Moving
  <1>8. ASSUME NEW u \in Trips, Expire(u) PROVE LiveWhileMoving'
    <2>1. u \notin Moving /\ active' = active /\ \A t \in Trips \ {u} : live'[t] = live[t]
      BY <1>0, <1>8 DEF Expire, TypeOK, memory
    <2> QED BY <1>1, <2>1 DEF Moving
  <1>9. CASE active' = active /\ live' = live
    BY <1>1, <1>9 DEF Moving
  <1> QED
    BY <1>2, <1>3, <1>4, <1>5, <1>6, <1>7, <1>8, <1>9
    DEF CalmNext, Step, Surroundings, Answer, Move, Poll, StopPolling,
      CheckStored, SearchFails, SearchOffers, RecordOffers, AnnounceOffers, TellNoDriver,
      WriteNoDriver, Assign, HideDriver, TellMatch, Tell, Deliver,
      Write, Rate, Request, BecomeDue, ReportFree, ReportBusy,
      vars, memory, inHand, redis

\* Who hears that a trip runs finds its live state.
LEMMA LiveWhenHeard ==
    ASSUME Sound, Calm, LiveWhileMoving, NEW t \in Trips, Running(t),
           NEW i \in 1..Len(topic[t]), topic[t][i].driver # None
    PROVE  live[t].driver # None
  <1>1. CASE t \in Moving
    BY <1>1 DEF LiveWhileMoving
  <1>2. CASE ~Answered(t)
    <2>1. topic[t] # <<>> /\ rows[t].driver # None
      BY ReadIsTrue, EmptySeq
    <2>2. pc \in Answering /\ t = cur
      BY <1>2, <2>1 DEF Calm, Undisturbed, Fresh, Untold
    <2>3. pc \in {"write_none", "commit"}
      BY <2>1, <2>2 DEF Calm, AnswerInHand, Untold
    <2>4. pc = "commit" /\ Winner(chain) # None
      BY <2>1, <2>2, <2>3 DEF Calm, AnswerInHand, Answering
    <2> QED BY <2>2, <2>4 DEF Sound, Copies, MatchInHand, Matched
  <1> QED BY <1>1, <1>2 DEF Running

-----------------------------------------------------------------------------
(* The steps. *)

\* While dispatch moves, the drivers' news stays what it was.
LEMMA WhileDispatchMoves ==
    ASSUME Together, ShiftsInHand, [CalmNext]_vars, UNCHANGED fleetOnly
    PROVE  InService' /\ ShiftsInHand'
  <1> USE DEF fleetOnly
  <1>0. InService /\ Sound /\ Calm
    BY DEF Together
  <1>1. FleetTypeOK'
    BY <1>0 DEF InService, FleetTypeOK, Fleet!TypeOK
  <1>2. LiveWhileMoving'
    BY <1>0, LiveStep DEF InService
  <1>3. ReadInBounds'
    <2>1. ASSUME NEW t \in Trips PROVE read[t] <= Len(topic'[t])
      <3>1. Len(topic'[t]) >= Len(topic[t]) /\ read[t] <= Len(topic[t])
        BY <1>0, DispatchMoves DEF InService, ReadInBounds
      <3>2. read[t] \in Nat /\ Len(topic[t]) \in Nat
        BY <1>0, LenProperties DEF InService, FleetTypeOK, Fleet!TypeOK, Sound, TypeOK
      <3>3. Len(topic'[t]) \in Nat
        BY SoundStep, <1>0, LenProperties DEF Next, Sound, TypeOK
      <3> QED BY <3>1, <3>2, <3>3
    <2> QED BY <2>1 DEF ReadInBounds
  <1>4. FollowsNews'
    <2>1. ASSUME NEW d \in Drivers, NEW t \in Trips, Follows(d, t) PROVE Follows(d, t)'
      <3>1. read[t] \in 1..Len(topic[t]) /\ Len(topic[t]) \in Nat
        BY <1>0, <2>1, LenProperties DEF Follows, Sound, TypeOK
      <3>2. Len(topic'[t]) \in Nat
        BY SoundStep, <1>0, LenProperties DEF Next, Sound, TypeOK
      <3>3. topic'[t][read[t]] = topic[t][read[t]] /\ read[t] \in 1..Len(topic'[t])
        BY <1>0, <3>1, <3>2, DispatchMoves
      <3> QED BY <2>1, <3>3 DEF Follows, Fleet!StatusEffect
    <2> QED BY <1>0, <2>1 DEF InService, FollowsNews
  <1>5. HasItsPath'
    <2>1. \A t \in Trips : Running(t)' => Running(t)
      BY <1>0, DispatchMoves
    <2> QED BY <1>0, <2>1 DEF InService, HasItsPath, Fleet!NoPath, Fleet!Leg
  <1>6. ShiftsInHand'
    BY DEF ShiftsInHand, Fleet!Doing, OfflineClosesSession, Fleet!OfflineClosesSession
  <1> QED BY <1>1, <1>2, <1>3, <1>4, <1>5, <1>6 DEF InService

\* What of the invariant speaks of dispatch does not change when only the
\* drivers do.
LEMMA WhileDriversMove ==
    ASSUME UNCHANGED <<dispatchOnly, topic, live>>
    PROVE  \A t \in Trips : Running(t)' <=> Running(t)
  BY DEF dispatchOnly, memory, Running, Moving, Answered

\* A message is heard by the one driver it names.
LEMMA WhenNewsIsRead ==
    ASSUME Together, ShiftsInHand, NEW t \in Trips, Fleet!ReadNews(t), UNCHANGED dispatchOnly
    PROVE  InService' /\ ShiftsInHand'
  <1> DEFINE i == read[t] + 1
             m == topic[t][i]
             heard(d, found) == Fleet!Heard(fleet[d], t, m.status, found)
  <1>0. InService /\ Sound /\ Calm
    BY DEF Together
  <1>1. /\ clock = "news" /\ UNCHANGED <<topic, live, geo, clock, started, ended, open, shifts, restarts>>
        /\ read[t] < Len(topic[t]) /\ read' = [read EXCEPT ![t] = i]
        /\ \E found \in BOOLEAN :
              fleet' = [d \in Drivers |-> IF d = m.driver THEN heard(d, found) ELSE fleet[d]]
    BY DEF Fleet!ReadNews
  <1>2. /\ read \in [Trips -> Nat] /\ Len(topic[t]) \in Nat /\ i \in 1..Len(topic[t])
        /\ i \in Nat /\ i <= Len(topic[t])
    <2>1. read \in [Trips -> Nat] /\ read[t] \in Nat
      BY <1>0 DEF InService, FleetTypeOK, Fleet!TypeOK
    <2>2. Len(topic[t]) \in Nat
      BY <1>0, LenProperties DEF Sound, TypeOK
    <2> QED BY <1>1, <2>1, <2>2
  <1>3. m \in Message /\ m.driver = rows[t].driver
    BY <1>0, <1>2, ReadIsTrue
  <1>4. /\ \A u \in Trips : Running(u)' <=> Running(u)
        /\ read'[t] = i /\ \A u \in Trips \ {t} : read'[u] = read[u]
    BY <1>1, <1>2, WhileDriversMove
  <1>f. PICK found \in BOOLEAN :
          fleet' = [d \in Drivers |-> IF d = m.driver THEN heard(d, found) ELSE fleet[d]]
    BY <1>1
  \* What the driver does then.
  <1> DEFINE sameLeg(d) == /\ fleet[d].trip = t /\ fleet[d].path # Fleet!NoPath
                           /\ fleet[d].status = Fleet!StatusEffect(m.status)
  <1>5. ASSUME NEW d \in Drivers, d = m.driver
        PROVE  \/ fleet'[d] = Fleet!Resting /\ m.status \notin Stages
               \/ /\ fleet'[d].trip = t /\ fleet'[d].status = Fleet!StatusEffect(m.status)
                  /\ m.status \in Stages
                  /\ sameLeg(d) => /\ fleet'[d].path = fleet[d].path
                                    /\ fleet'[d].unrouted = fleet[d].unrouted
                  /\ ~sameLeg(d) => /\ fleet'[d].path \in {fleet[d].path,
                                            Fleet!Leg(t, Fleet!StatusEffect(m.status))}
                                     /\ fleet'[d].unrouted \in BOOLEAN
                  /\ ~sameLeg(d) /\ live[t].driver # None =>
                        \/ fleet'[d].unrouted
                        \/ fleet'[d].path = Fleet!Leg(t, Fleet!StatusEffect(m.status))
    <2>1. fleet'[d] = heard(d, found)
      BY <1>f, <1>5
    <2>2. m.status \in Stages <=> Fleet!StatusEffect(m.status) # "idle"
      BY DEF Stages, Fleet!StatusEffect
    <2> HIDE DEF m
    <2> DEFINE status == Fleet!StatusEffect(m.status)
               looks == ~sameLeg(d) /\ live[t].driver # None
    <2>3. CASE m.status \notin Stages
      BY <2>1, <2>2, <2>3 DEF Fleet!Heard
    <2>4. CASE m.status \in Stages
      <3>1. fleet'[d] = [status |-> status, trip |-> t,
                         path |-> IF looks /\ found THEN Fleet!Leg(t, status) ELSE fleet[d].path,
                         unrouted |-> IF sameLeg(d) THEN fleet[d].unrouted ELSE looks /\ ~found]
        BY <2>1, <2>2, <2>4 DEF Fleet!Heard
      <3> HIDE DEF sameLeg, status
      <3>2. /\ fleet'[d].trip = t /\ fleet'[d].status = status
            /\ fleet'[d].path = IF looks /\ found THEN Fleet!Leg(t, status) ELSE fleet[d].path
            /\ fleet'[d].unrouted = IF sameLeg(d) THEN fleet[d].unrouted ELSE looks /\ ~found
        BY ONLY <3>1
      <3>3. CASE sameLeg(d)
        BY <2>4, <3>2, <3>3 DEF status
      <3>4. CASE ~sameLeg(d)
        <4>1. fleet'[d].unrouted = (looks /\ ~found)
          BY <3>2, <3>4
        <4>2. fleet'[d].path \in {fleet[d].path, Fleet!Leg(t, status)}
          BY <3>2
        <4>3. looks => fleet'[d].unrouted \/ fleet'[d].path = Fleet!Leg(t, status)
          BY <3>2, <4>1
        <4> HIDE DEF looks
        <4>4. fleet'[d].unrouted \in BOOLEAN
          BY <4>1
        <4> QED BY <2>4, <3>2, <3>4, <4>2, <4>3, <4>4 DEF status, looks
      <3> QED BY <3>3, <3>4
    <2> QED BY <2>3, <2>4
  <1> HIDE DEF m, heard, sameLeg
  <1>6. ASSUME NEW d \in Drivers, d # m.driver PROVE fleet'[d] = fleet[d]
    BY <1>f, <1>6
  <1>7. ASSUME NEW s PROVE Fleet!StatusEffect(s) \in {"idle", "en_route_pickup", "on_trip"}
                           /\ (s \in Stages => Fleet!StatusEffect(s) # "idle")
    BY DEF Stages, Fleet!StatusEffect
  <1>8. /\ Fleet!Resting.status = "idle" /\ Fleet!Resting.trip = None
        /\ Fleet!Resting.path = Fleet!NoPath /\ ~Fleet!Resting.unrouted
    BY DEF Fleet!Resting
  <1>9. FleetTypeOK'
    <2>1. ASSUME NEW d \in Drivers
          PROVE  fleet'[d] \in [status : {"offline", "idle", "en_route_pickup", "on_trip"},
                                trip : Trips \cup {None}, path : Fleet!Paths, unrouted : BOOLEAN]
      <3>1. fleet[d].path \in Fleet!Paths /\ fleet[d].unrouted \in BOOLEAN
        BY <1>0 DEF InService, FleetTypeOK, Fleet!TypeOK
      <3>2. CASE d # m.driver
        BY <1>0, <1>6, <3>2 DEF InService, FleetTypeOK, Fleet!TypeOK
      <3>3. CASE d = m.driver
        <4>1. fleet'[d] = heard(d, found)
          BY <1>f, <3>3
        <4>2. Fleet!StatusEffect(m.status) # "idle" =>
                Fleet!Leg(t, Fleet!StatusEffect(m.status)) \in Fleet!Paths
          BY <1>7 DEF Fleet!Leg, Fleet!Paths
        <4>3. Fleet!Resting \in [status : {"offline", "idle", "en_route_pickup", "on_trip"},
                                 trip : Trips \cup {None}, path : Fleet!Paths, unrouted : BOOLEAN]
          BY DEF Fleet!Resting, Fleet!Paths
        <4>4. fleet'[d] = Fleet!Resting \/
                /\ fleet'[d] = [status |-> fleet'[d].status, trip |-> fleet'[d].trip,
                                path |-> fleet'[d].path, unrouted |-> fleet'[d].unrouted]
                /\ fleet'[d].status = Fleet!StatusEffect(m.status) /\ fleet'[d].trip = t
                /\ m.status \in Stages
                /\ sameLeg(d) => /\ fleet'[d].path = fleet[d].path
                                 /\ fleet'[d].unrouted = fleet[d].unrouted
                /\ ~sameLeg(d) => /\ fleet'[d].path \in {fleet[d].path,
                                         Fleet!Leg(t, Fleet!StatusEffect(m.status))}
                                  /\ fleet'[d].unrouted \in BOOLEAN
          <5>1. fleet'[d] = Fleet!Resting \/
                  fleet'[d] = [status |-> fleet'[d].status, trip |-> fleet'[d].trip,
                               path |-> fleet'[d].path, unrouted |-> fleet'[d].unrouted]
            BY <4>1 DEF heard, Fleet!Heard
          <5> QED BY <1>5, <3>3, <5>1
        <4>5. Fleet!StatusEffect(m.status) \in {"offline", "idle", "en_route_pickup", "on_trip"}
          BY <1>7
        <4> QED BY <1>7, <3>1, <4>2, <4>3, <4>4, <4>5
      <3> QED BY <3>2, <3>3
    <2>2. fleet' = [d \in Drivers |-> fleet'[d]]
      BY <1>f
    <2> QED BY <1>0, <1>1, <1>2, <2>1, <2>2 DEF InService, FleetTypeOK, Fleet!TypeOK
  <1>10. LiveWhileMoving'
    BY <1>0, <1>1 DEF InService, LiveWhileMoving, Moving, dispatchOnly, memory
  <1>11. ReadInBounds'
    BY <1>0, <1>1, <1>2, <1>4 DEF InService, ReadInBounds
  <1>12. ASSUME NEW d \in Drivers, NEW u \in Trips, fleet'[d].trip = u PROVE Follows(d, u)'
    <2>1. CASE d = m.driver
      <3>1. u = t /\ fleet'[d].status = Fleet!StatusEffect(m.status) /\ m.status \in Stages
        BY <1>5, <1>8, <1>12, <2>1, DispatchAssumption
      <3>2. topic'[t][read'[t]] = m /\ read'[t] \in 1..Len(topic'[t])
        BY <1>1, <1>2, <1>4 DEF m
      <3> QED BY <2>1, <3>1, <3>2 DEF Follows, Fleet!StatusEffect
    <2>2. CASE d # m.driver
      <3>1. Follows(d, u) /\ fleet'[d] = fleet[d]
        BY <1>0, <1>6, <1>12, <2>2 DEF InService, FollowsNews
      <3>2. u # t
        BY <1>0, <1>3, <2>2, <3>1, ReadIsTrue DEF Follows
      <3> QED BY <1>1, <1>4, <3>1, <3>2 DEF Follows, Fleet!StatusEffect
    <2> QED BY <2>1, <2>2
  <1>13. FollowsNews'
    <2>1. ASSUME NEW d \in Drivers, fleet'[d].trip = None
          PROVE  fleet'[d].status \in {"offline", "idle"}
      BY <1>0, <1>5, <1>6, <1>8, <2>1, DispatchAssumption DEF InService, FollowsNews
    <2> QED BY <1>12, <2>1 DEF FollowsNews
  <1>14. HasItsPath'
    <2>1. ASSUME NEW d \in Drivers, NEW u \in Trips, fleet'[d].trip = u, Running(u),
                 ~fleet'[d].unrouted
          PROVE  fleet'[d].path \in {Fleet!NoPath, Fleet!Leg(u, fleet'[d].status)}
      <3>1. CASE d = m.driver
        <4>1. /\ u = t /\ fleet'[d].status = Fleet!StatusEffect(m.status)
          BY <1>5, <1>8, <2>1, <3>1, DispatchAssumption
        <4>2. live[t].driver # None
          BY <1>0, <1>2, <2>1, <3>1, <4>1, LiveWhenHeard, DispatchAssumption DEF InService, m
        <4>3. fleet[d].trip = t /\ ~fleet[d].unrouted =>
                fleet[d].path \in {Fleet!NoPath, Fleet!Leg(t, fleet[d].status)}
          BY <1>0, <2>1, <4>1 DEF InService, HasItsPath
        <4>4. CASE sameLeg(d)
          BY <1>5, <1>8, <2>1, <3>1, <4>1, <4>3, <4>4, DispatchAssumption DEF sameLeg
        <4>5. CASE ~sameLeg(d)
          BY <1>5, <1>8, <2>1, <3>1, <4>1, <4>2, <4>5, DispatchAssumption
        <4> QED BY <4>4, <4>5
      <3>2. CASE d # m.driver
        BY <1>0, <1>6, <2>1, <3>2 DEF InService, HasItsPath
      <3> QED BY <3>1, <3>2
    <2> QED BY <1>4, <2>1 DEF HasItsPath, Fleet!NoPath, Fleet!Leg
  <1>15. ShiftsInHand'
    <2>1. ASSUME NEW d \in Drivers, fleet'[d].status = "offline" PROVE fleet[d].status = "offline"
      BY <1>5, <1>6, <1>7, <1>8, <2>1
    <2>2. fleet' = [d \in Drivers |-> fleet'[d]]
      BY <1>f
    <2>3. Fleet!Doing("offline")' \subseteq Fleet!Doing("offline")
      BY <2>1 DEF Fleet!Doing
    <2> QED BY <1>1, <2>3 DEF ShiftsInHand, OfflineClosesSession, Fleet!OfflineClosesSession
  <1> QED BY <1>9, <1>10, <1>11, <1>13, <1>14, <1>15 DEF InService

\* Shifts change and everybody online moves along.
LEMMA WhenShiftsChange ==
    ASSUME Together, ShiftsInHand, Fleet!Tick, UNCHANGED dispatchOnly
    PROVE  InService' /\ ShiftsInHand'
  <1>0. InService /\ Sound /\ Calm
    BY DEF Together
  <1>1. PICK starting \in SUBSET Fleet!Doing("offline"), ending \in SUBSET Fleet!Doing("idle"),
             there \in SUBSET Drivers :
          /\ started' = starting /\ ended' = ending
          /\ shifts' = IF starting \cup ending = {} THEN shifts ELSE shifts + 1
          /\ shifts' <= MaxShifts
          /\ fleet' = [d \in Drivers |->
                IF d \in ending THEN [fleet[d] EXCEPT !.status = "offline"]
                ELSE IF d \in Fleet!Doing("offline") \ starting THEN fleet[d]
                ELSE IF d \in there THEN [Fleet!Underway(d) EXCEPT !.path = Fleet!NoPath]
                ELSE Fleet!Underway(d)]
    BY DEF Fleet!Tick
  <1>2. clock = "news" /\ clock' = "publish" /\ UNCHANGED <<topic, live, geo, read, open, restarts>>
    BY DEF Fleet!Tick
  <1>3. \A d \in Drivers : fleet[d] \in [status : {"offline", "idle", "en_route_pickup", "on_trip"},
                                         trip : Trips \cup {None}, path : Fleet!Paths, unrouted : BOOLEAN]
    BY <1>0 DEF InService, FleetTypeOK, Fleet!TypeOK
  \* A driver on a trip stays on it; the others are online, drifting, or not.
  <1>4. ASSUME NEW d \in Drivers
        PROVE  /\ fleet'[d] \in [status : {"offline", "idle", "en_route_pickup", "on_trip"},
                                 trip : Trips \cup {None}, path : Fleet!Paths, unrouted : BOOLEAN]
               /\ fleet[d].trip # None => fleet'[d].trip = fleet[d].trip
                                          /\ fleet'[d].status = fleet[d].status
                                          /\ fleet'[d].path \in {fleet[d].path, Fleet!NoPath}
                                          /\ fleet'[d].unrouted = fleet[d].unrouted
               /\ fleet[d].trip = None => fleet'[d].trip = None
                                          /\ fleet'[d].status \in {"offline", "idle"}
               /\ d \in starting => fleet'[d].status # "offline"
               /\ fleet'[d].status = "offline" => fleet[d].status = "offline" \/ d \in ending
    <2>1. fleet[d].trip = None <=> fleet[d].status \in {"offline", "idle"}
      BY <1>0, <1>3 DEF InService, FollowsNews, Follows, Stages, Fleet!StatusEffect
    <2>2. /\ d \in Fleet!Doing("offline") <=> fleet[d].status = "offline"
          /\ d \in ending => fleet[d].status = "idle"
          /\ d \in starting => fleet[d].status = "offline"
      BY DEF Fleet!Doing
    <2>3. Fleet!NoPath \in Fleet!Paths /\ Fleet!Drift \in Fleet!Paths
      BY DEF Fleet!Paths
    <2>4. /\ fleet[d].status \in {"offline", "idle"} => Fleet!Underway(d) = Fleet!Drifting
          /\ fleet[d].status \notin {"offline", "idle"} => Fleet!Underway(d) = fleet[d]
      BY DEF Fleet!Underway
    <2>5. fleet'[d] = IF d \in ending THEN [fleet[d] EXCEPT !.status = "offline"]
                      ELSE IF d \in Fleet!Doing("offline") \ starting THEN fleet[d]
                      ELSE IF d \in there THEN [Fleet!Underway(d) EXCEPT !.path = Fleet!NoPath]
                      ELSE Fleet!Underway(d)
      BY <1>1
    <2>6. CASE d \in ending
      <3>1. fleet'[d] = [fleet[d] EXCEPT !.status = "offline"]
        BY <2>5, <2>6
      <3>2. fleet[d].status = "idle" /\ fleet[d].trip = None /\ d \notin starting
        BY <2>1, <2>2, <2>6
      <3>3. fleet'[d].status = "offline" /\ fleet'[d].trip = None /\ fleet'[d].path = fleet[d].path
        BY <1>3, <3>1, <3>2
      <3> QED BY <1>3, <2>6, <3>1, <3>2, <3>3
    <2>7. CASE d \in Fleet!Doing("offline") \ starting
      <3>1. fleet'[d] = fleet[d]
        BY <2>2, <2>5, <2>7
      <3> QED BY <1>3, <2>1, <2>2, <2>7, <3>1
    <2>8. CASE d \notin ending /\ d \notin Fleet!Doing("offline") \ starting
      <3>1. fleet'[d] \in {Fleet!Underway(d), [Fleet!Underway(d) EXCEPT !.path = Fleet!NoPath]}
        BY <2>5, <2>8
      <3>2. CASE fleet[d].trip = None
        <4>1. fleet'[d] \in {Fleet!Drifting, [Fleet!Drifting EXCEPT !.path = Fleet!NoPath]}
          BY <2>1, <2>4, <3>1, <3>2
        <4>2. fleet'[d] \in [status : {"offline", "idle", "en_route_pickup", "on_trip"},
                             trip : Trips \cup {None}, path : Fleet!Paths, unrouted : BOOLEAN]
          <5>1. PICK p \in Fleet!Paths :
                  fleet'[d] = [status |-> "idle", trip |-> None, path |-> p, unrouted |-> FALSE]
            <6>1. CASE fleet'[d] = Fleet!Drifting
              BY <2>3, <6>1 DEF Fleet!Drifting
            <6>2. CASE fleet'[d] = [Fleet!Drifting EXCEPT !.path = Fleet!NoPath]
              BY <2>3, <6>2 DEF Fleet!Drifting
            <6> QED BY <4>1, <6>1, <6>2
          <5> QED BY <5>1
        <4>3. fleet'[d].trip = None /\ fleet'[d].status = "idle"
          BY <4>1 DEF Fleet!Drifting
        <4> QED BY <3>2, <4>2, <4>3
      <3>3. CASE fleet[d].trip # None
        <4>1. fleet'[d] \in {fleet[d], [fleet[d] EXCEPT !.path = Fleet!NoPath]}
          BY <2>1, <2>4, <3>1, <3>3
        <4>2. CASE fleet'[d] = fleet[d]
          BY <1>3, <2>1, <2>2, <3>3, <4>2
        <4>3. CASE fleet'[d] = [fleet[d] EXCEPT !.path = Fleet!NoPath]
          BY <1>3, <2>1, <2>2, <2>3, <3>3, <4>3
        <4> QED BY <4>1, <4>2, <4>3
      <3> QED BY <3>2, <3>3
    <2> QED BY <2>6, <2>7, <2>8
  <1>5. \A t \in Trips : Running(t)' <=> Running(t)
    BY <1>2, WhileDriversMove
  <1>6. FleetTypeOK'
    <2>1. fleet' = [d \in Drivers |-> fleet'[d]]
      BY <1>1
    <2>2. shifts' \in 0..MaxShifts
      BY <1>0, <1>1 DEF InService, FleetTypeOK, Fleet!TypeOK
    <2>3. started' \subseteq Drivers /\ ended' \subseteq Drivers
      BY <1>1 DEF Fleet!Doing
    <2> QED BY <1>0, <1>2, <1>4, <2>1, <2>2, <2>3 DEF InService, FleetTypeOK, Fleet!TypeOK
  <1>7. LiveWhileMoving' /\ ReadInBounds'
    BY <1>0, <1>2 DEF InService, LiveWhileMoving, ReadInBounds, Moving, dispatchOnly, memory
  <1>8. FollowsNews'
    <2>1. ASSUME NEW d \in Drivers, NEW t \in Trips, fleet'[d].trip = t PROVE Follows(d, t)'
      <3>1. fleet[d].trip = t /\ fleet'[d].status = fleet[d].status
        BY <1>4, <2>1, DispatchAssumption
      <3> QED BY <1>0, <1>2, <3>1 DEF InService, FollowsNews, Follows, Fleet!StatusEffect
    <2>2. \A d \in Drivers : fleet'[d].trip = None => fleet'[d].status \in {"offline", "idle"}
      BY <1>4
    <2> QED BY <2>1, <2>2 DEF FollowsNews
  <1>9. HasItsPath'
    <2>1. ASSUME NEW d \in Drivers, NEW t \in Trips, fleet'[d].trip = t, Running(t),
                 ~fleet'[d].unrouted
          PROVE  fleet'[d].path \in {Fleet!NoPath, Fleet!Leg(t, fleet'[d].status)}
      <3>1. /\ fleet[d].trip = t /\ fleet'[d].status = fleet[d].status
            /\ fleet'[d].path \in {fleet[d].path, Fleet!NoPath}
            /\ fleet'[d].unrouted = fleet[d].unrouted
        BY <1>4, <2>1, DispatchAssumption
      <3> QED BY <1>0, <2>1, <3>1 DEF InService, HasItsPath
    <2> QED BY <1>5, <2>1 DEF HasItsPath, Fleet!NoPath, Fleet!Leg
  <1>10. ShiftsInHand'
    <2>1. started' \cap Fleet!Doing("offline")' = {}
      BY <1>1, <1>4 DEF Fleet!Doing
    <2>2. Fleet!Doing("offline")' \subseteq Fleet!Doing("offline") \cup ended'
      BY <1>1, <1>4 DEF Fleet!Doing
    <2> QED BY <1>2, <2>1, <2>2 DEF ShiftsInHand, OfflineClosesSession, Fleet!OfflineClosesSession
  <1> QED BY <1>6, <1>7, <1>8, <1>9, <1>10 DEF InService

\* Who is free is published, the shifts are recorded, driver-service dies.
LEMMA WhenTheTickGoesOn ==
    ASSUME Together, ShiftsInHand, Fleet!Publish \/ Fleet!RecordShifts \/ Fleet!Die,
           UNCHANGED dispatchOnly
    PROVE  InService' /\ ShiftsInHand'
  <1>0. InService /\ Sound /\ Calm
    BY DEF Together
  <1>1. UNCHANGED <<topic, live>> /\ \A t \in Trips : Running(t)' <=> Running(t)
    BY WhileDriversMove DEF Fleet!Publish, Fleet!RecordShifts, Fleet!Die
  <1>2. LiveWhileMoving'
    BY <1>0, <1>1 DEF InService, LiveWhileMoving, Moving, dispatchOnly, memory
  <1>3. CASE Fleet!Publish \/ Fleet!RecordShifts
    <2>1. UNCHANGED <<read, fleet, shifts, restarts>>
      BY <1>3 DEF Fleet!Publish, Fleet!RecordShifts
    <2>2. FleetTypeOK'
      BY <1>0, <1>3 DEF InService, FleetTypeOK, Fleet!TypeOK, Fleet!Publish, Fleet!RecordShifts
    <2>3. ReadInBounds'
      BY <1>0, <1>1, <2>1 DEF InService, ReadInBounds
    <2>4. FollowsNews'
      BY <1>0, <1>1, <2>1 DEF InService, FollowsNews, Follows, Fleet!StatusEffect
    <2>5. HasItsPath'
      BY <1>0, <1>1, <2>1 DEF InService, HasItsPath, Fleet!NoPath, Fleet!Leg
    <2>6. ShiftsInHand'
      BY <1>3 DEF ShiftsInHand, OfflineClosesSession, Fleet!OfflineClosesSession, Fleet!Doing,
         Fleet!Publish, Fleet!RecordShifts
    <2> QED BY <1>2, <2>2, <2>3, <2>4, <2>5, <2>6 DEF InService
  <1>4. CASE Fleet!Die
    <2>1. PICK up \in SUBSET Drivers :
            fleet' = [d \in Drivers |-> IF d \in up THEN Fleet!Drifting ELSE Fleet!Offline]
      BY <1>4 DEF Fleet!Die, Fleet!Start
    <2>2. /\ read' = [t \in Trips |-> Len(topic[t])]
          /\ clock' = "news" /\ started' = {} /\ ended' = {}
          /\ restarts < MaxRestarts /\ restarts' = restarts + 1 /\ UNCHANGED <<open, shifts>>
      BY <1>4 DEF Fleet!Die, Fleet!Start
    <2>3. \A d \in Drivers : /\ fleet'[d] \in {Fleet!Drifting, Fleet!Offline}
                             /\ fleet'[d].trip = None /\ fleet'[d].status \in {"idle", "offline"}
      BY <2>1 DEF Fleet!Drifting, Fleet!Offline
    <2>4. \A t \in Trips : Len(topic[t]) \in Nat
      BY <1>0, LenProperties DEF Sound, TypeOK
    <2>5. restarts \in Nat /\ restarts' \in 0..MaxRestarts /\ restarts' # 0
      <3>1. restarts \in 0..MaxRestarts
        BY <1>0 DEF InService, FleetTypeOK, Fleet!TypeOK
      <3> QED BY <2>2, <3>1, MarketAssumption
    <2>6. FleetTypeOK'
      <3>1. {Fleet!Drifting, Fleet!Offline}
              \subseteq [status : {"offline", "idle", "en_route_pickup", "on_trip"},
                         trip : Trips \cup {None}, path : Fleet!Paths, unrouted : BOOLEAN]
        BY DEF Fleet!Drifting, Fleet!Offline, Fleet!Paths
      <3>2. fleet' \in [Drivers -> [status : {"offline", "idle", "en_route_pickup", "on_trip"},
                                    trip : Trips \cup {None}, path : Fleet!Paths, unrouted : BOOLEAN]]
        BY <2>1, <3>1
      <3> QED BY <1>0, <2>2, <2>4, <2>5, <3>2 DEF InService, FleetTypeOK, Fleet!TypeOK
    <2>7. ReadInBounds'
      BY <1>1, <2>2, <2>4 DEF ReadInBounds
    <2>8. FollowsNews' /\ HasItsPath'
      BY <2>3, DispatchAssumption DEF FollowsNews, HasItsPath
    <2>9. ShiftsInHand'
      BY <2>2, <2>5 DEF ShiftsInHand, OfflineClosesSession
    <2> QED BY <1>2, <2>6, <2>7, <2>8, <2>9 DEF InService
  <1> QED BY <1>3, <1>4

LEMMA TogetherInit == MarketInit => Together /\ ShiftsInHand
  <1> SUFFICES ASSUME MarketInit PROVE Together /\ ShiftsInHand
    OBVIOUS
  <1>1. Sound /\ Calm
    BY SoundInit, CalmInit DEF MarketInit
  <1>2. /\ fleet \in [Drivers -> {Fleet!Drifting, Fleet!Offline}]
        /\ read = [t \in Trips |-> 0]
        /\ clock = "news" /\ started = {} /\ ended = {} /\ open = {}
        /\ shifts = 0 /\ restarts = 0
    BY DEF MarketInit, Fleet!Init
  <1>3. \A d \in Drivers : fleet[d].trip = None /\ fleet[d].status \in {"idle", "offline"}
    BY <1>2 DEF Fleet!Drifting, Fleet!Offline
  <1>4. {Fleet!Drifting, Fleet!Offline}
          \subseteq [status : {"offline", "idle", "en_route_pickup", "on_trip"},
                     trip : Trips \cup {None}, path : Fleet!Paths, unrouted : BOOLEAN]
    BY DEF Fleet!Drifting, Fleet!Offline, Fleet!Paths
  <1>5. FleetTypeOK
    BY <1>2, <1>4, MarketAssumption DEF FleetTypeOK, Fleet!TypeOK
  <1>6. ReadInBounds
    BY <1>1, <1>2, LenProperties DEF ReadInBounds, Sound, TypeOK
  <1>7. FollowsNews /\ HasItsPath
    BY <1>3, DispatchAssumption DEF FollowsNews, HasItsPath
  <1>8. LiveWhileMoving
    BY DEF MarketInit, Init, InitOutside, LiveWhileMoving, Moving
  <1>9. ShiftsInHand
    BY <1>2 DEF ShiftsInHand, OfflineClosesSession, Fleet!OfflineClosesSession
  <1> QED BY <1>1, <1>5, <1>6, <1>7, <1>8, <1>9 DEF Together, InService

LEMMA TogetherStep ==
    Together /\ ShiftsInHand /\ [MarketNext]_marketVars => Together' /\ ShiftsInHand'
  <1> SUFFICES ASSUME Together, ShiftsInHand, [MarketNext]_marketVars
               PROVE  Together' /\ ShiftsInHand'
    OBVIOUS
  <1>0. Sound /\ Calm /\ InService
    BY DEF Together
  <1>1. CASE DispatchStep \/ Passing \/ UNCHANGED marketVars
    <2>1. [CalmNext]_vars /\ UNCHANGED fleetOnly
      BY <1>1 DEF DispatchStep, Passing, CalmNext, Surroundings, marketVars
    <2> QED BY <1>0, <2>1, CalmStep, WhileDispatchMoves DEF Together
  <1>2. CASE FleetStep \/ FleetDies
    <2>1. UNCHANGED dispatchOnly /\ UNCHANGED <<topic, live>> /\ geo' \subseteq Drivers
      BY <1>0, <1>2 DEF FleetStep, FleetDies, Fleet!Step, Fleet!ReadNews, Fleet!Tick,
         Fleet!Publish, Fleet!RecordShifts, Fleet!Die, Fleet!Doing, Sound, TypeOK
    <2>2. Sound' /\ Calm'
      BY <1>0, <2>1, FreeListOnly
    <2>3. InService' /\ ShiftsInHand'
      BY <1>2, <2>1, WhenNewsIsRead, WhenShiftsChange, WhenTheTickGoesOn
      DEF FleetStep, FleetDies, Fleet!Step
    <2> QED BY <2>2, <2>3 DEF Together
  <1> QED BY <1>1, <1>2 DEF MarketNext

\* Whatever driver-service does with a trip, dispatch's copies of the story stay
\* whole, every driver follows the last message read of a trip, and every shift is
\* in the process's hand until it is on record.
THEOREM TogetherHolds == MarketSpec => [](Together /\ ShiftsInHand)
  BY TogetherInit, TogetherStep, PTL DEF MarketSpec

-----------------------------------------------------------------------------
(* What it gives. *)

\* Dispatch and driver-service together: no driver is left on a trip that is
\* over with nobody to say so.
THEOREM NoDriverStranded == MarketSpec => []NobodyStranded
  <1>1. Together => NobodyStranded
    <2> SUFFICES ASSUME Together, NEW d \in Drivers, NEW t \in Trips, fleet[d].trip = t,
                        ~(read[t] < Len(Told(t)))
                 PROVE  t \in DrivenBy(d) \/ (t = cur /\ Winner(chain) = d)
      <3>1. Together => \A d \in Drivers : fleet[d].trip \in Trips \cup {None}
        BY DEF Together, InService, FleetTypeOK, Fleet!TypeOK
      <3> QED BY <3>1 DEF NobodyStranded
    <2>0. Sound /\ Calm /\ InService
      BY DEF Together
    <2>1. Follows(d, t) /\ read[t] <= Len(topic[t])
      BY <2>0 DEF InService, FollowsNews, ReadInBounds
    <2>2. /\ topic[t] \in Seq(Message) /\ outbox[t] \in Seq(Message) /\ read[t] \in Nat
          /\ Len(topic[t]) \in Nat /\ Len(outbox[t]) \in Nat
          /\ Len(Told(t)) = Len(topic[t]) + Len(outbox[t])
      BY <2>0, LenProperties, ConcatProperties
      DEF Sound, TypeOK, Told, InService, FleetTypeOK, Fleet!TypeOK
    <2>3. read[t] = Len(topic[t]) /\ Len(outbox[t]) = 0
      <3>1. read[t] <= Len(topic[t]) /\ ~(read[t] < Len(topic[t]) + Len(outbox[t]))
        BY <2>1, <2>2
      <3>2. \A x, a, b \in Nat : x <= a /\ ~(x < a + b) => x = a /\ b = 0
        OBVIOUS
      <3> QED BY <2>2, <3>1, <3>2
    <2>4. outbox[t] = <<>> /\ Told(t) = topic[t]
      BY <2>2, <2>3, EmptySeq, ConcatEmptySeq DEF Told
    <2>5. topic[t] # <<>> /\ Latest(Told(t)) = topic[t][read[t]].status
      BY <2>1, <2>2, <2>3, <2>4 DEF Latest, Follows
    <2>6. Latest(Told(t)) \in Stages /\ rows[t].driver = d
      BY <2>0, <2>1, <2>5, ReadIsTrue DEF Follows
    <2>7. Answered(t) \/ (pc \in Answering /\ t = cur)
      BY <2>0, <2>5 DEF Calm, Undisturbed, Fresh, Untold
    <2>8. CASE Answered(t)
      <3>1. t \in Moving
        BY <2>0, <2>6, <2>8 DEF Calm, AnsweredAreWhole, Whole, Sound, InHand, MovingOn, Moving
      <3>2. active[t].driver = rows[t].driver
        BY <2>0, <3>1 DEF Sound, Copies, Settled, Agrees, MoveInHand
      <3> QED BY <2>6, <3>1, <3>2 DEF DrivenBy
    <2>9. CASE pc \in Answering /\ t = cur
      <3>1. pc \in {"write_none", "commit"}
        BY <2>0, <2>5, <2>9 DEF Calm, AnswerInHand, Untold
      <3>2. pc = "commit" /\ Winner(chain) # None
        BY <2>0, <2>6, <2>9, <3>1 DEF Calm, AnswerInHand, Stages
      <3> QED BY <2>0, <2>6, <2>9, <3>2 DEF Sound, Copies, MatchInHand, Matched
    <2> QED BY <2>7, <2>8, <2>9
  <1> QED BY <1>1, TogetherHolds, PTL

\* A driver on a trip that dispatch moves follows the path of that trip and
\* leg, unless routing found none: the live state was there when the news came.
THEOREM PathsAreForTrips == MarketSpec => []PathIsForTrip
  <1>1. Together => PathIsForTrip
    BY DEF Together, InService, HasItsPath, Running, PathIsForTrip, DrivenBy, Moving
  <1> QED BY <1>1, TogetherHolds, PTL

\* A driver is on the part of a trip that is charged only after dispatch has
\* said that the ride has begun.
THEOREM ChargedAfterStart == MarketSpec => []OnTripMeansStarted
  <1>1. Together => OnTripMeansStarted
    <2> SUFFICES ASSUME Together, NEW d \in Drivers, fleet[d].status = "on_trip"
                 PROVE  \E i \in 1..read[fleet[d].trip] :
                            topic[fleet[d].trip][i].status = "in_progress"
      BY DEF OnTripMeansStarted
    <2>0. Sound /\ InService
      BY DEF Together
    <2>1. PICK t \in Trips : fleet[d].trip = t
      BY <2>0 DEF InService, FollowsNews, FleetTypeOK, Fleet!TypeOK
    <2>2. Follows(d, t) /\ read[t] \in Nat
      BY <2>0, <2>1 DEF InService, FollowsNews, FleetTypeOK, Fleet!TypeOK
    <2>3. topic[t][read[t]].status = "in_progress" /\ read[t] \in 1..read[t]
      BY <2>2 DEF Follows, Fleet!StatusEffect
    <2> QED BY <2>1, <2>3
  <1> QED BY <1>1, TogetherHolds, PTL

\* As long as driver-service has not died, no driver is offline with an open
\* session, but for the moment until the tick has recorded it.
THEOREM SessionsAreClosed == MarketSpec => []OfflineClosesSession
  <1>1. ShiftsInHand => OfflineClosesSession
    BY DEF ShiftsInHand
  <1> QED BY <1>1, TogetherHolds, PTL

\* The types of driver-service's side, while both services run.
THEOREM FleetTypes == MarketSpec => []FleetTypeOK
  <1>1. Together => FleetTypeOK
    BY DEF Together, InService
  <1> QED BY <1>1, TogetherHolds, PTL
=============================================================================
