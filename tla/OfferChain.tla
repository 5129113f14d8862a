----------------------------- MODULE OfferChain -----------------------------
(***************************************************************************)
(* Offering a ride down a list of drivers, laid out on the clock: what     *)
(* dispatch-service runs live and bootstrap runs for its invented week.    *)
(* Time is in whole seconds.  What a driver answers is an input: the       *)
(* chance of a yes depends on the pickup drive and the surge, and is       *)
(* clamped away from 0 and 1, so every answer is possible to every driver. *)
(***************************************************************************)
EXTENDS Integers, Sequences, FiniteSets

CONSTANTS
    Drivers,
    None,          \* no driver, no moment
    OfferTimeout   \* OFFER_TIMEOUT_S

ASSUME OfferAssumption == OfferTimeout \in Nat /\ OfferTimeout > 8 /\ None \notin Drivers

\* What one driver answers: a yes is quick, a no comes before the deadline,
\* and a driver who never answers runs the whole deadline.
Answers ==
    [status : {"accepted"}, response : 1..8]
    \cup [status : {"declined"}, response : 2..(OfferTimeout - 1)]
    \cup [status : {"expired"}, response : {None}]

\* Nobody after the first yes is asked.
Asked(answers) ==
    {i \in DOMAIN answers : \A j \in 1..(i - 1) : answers[j].status # "accepted"}

Span(answer) == IF answer.response = None THEN OfferTimeout ELSE answer.response

\* Mutant of Elapsed: the deadline of a driver who never answered costs nothing.
ElapsedAnswered(answers) ==
    LET elapsed[i \in 1..(Len(answers) + 1)] ==
          IF i = 1 THEN 0
          ELSE elapsed[i - 1] + (IF answers[i - 1].response = None THEN 0 ELSE Span(answers[i - 1]))
    IN  elapsed

\* How long the chain has run when the i-th driver is asked.
Elapsed(answers) ==
    LET elapsed[i \in 1..(Len(answers) + 1)] ==
          IF i = 1 THEN 0 ELSE elapsed[i - 1] + Span(answers[i - 1])
    IN  elapsed

(***************************************************************************)
(* run_chain: the chain is laid out backwards, so that it ends at now, and *)
(* each driver is asked at the moment the one before has answered or let   *)
(* the offer lapse.                                                        *)
(***************************************************************************)
LayOut(candidates, asked, elapsed, now) ==
    LET start == now - elapsed[Len(asked) + 1]
    IN  [i \in DOMAIN asked |->
            [driver |-> candidates[i], sequence |-> i, status |-> asked[i].status,
             offered |-> start + elapsed[i],
             expires |-> start + elapsed[i] + OfferTimeout,
             responded |-> IF asked[i].response = None THEN None
                           ELSE start + elapsed[i] + asked[i].response]]

AskedAnswers(answers) == SubSeq(answers, 1, Cardinality(Asked(answers)))

RunChain(candidates, answers, now) ==
    LayOut(candidates, AskedAnswers(answers), Elapsed(AskedAnswers(answers)), now)

\* Who took it: the last one asked, or nobody.
WinnerOf(offers) ==
    IF offers # <<>> /\ offers[Len(offers)].status = "accepted"
    THEN offers[Len(offers)].driver ELSE None

\* When an offer stopped holding the ride: answered, or lapsed.
EndOf(offer) == IF offer.responded = None THEN offer.expires ELSE offer.responded

(***************************************************************************)
(* What a chain has to look like, said without running it: drivers are     *)
(* asked one at a time, back to back, only the last may have accepted, and *)
(* every answer came before its deadline.                                  *)
(***************************************************************************)
WellLaid(offers, start, end) ==
    /\ \A i \in DOMAIN offers :
          /\ offers[i].sequence = i
          /\ offers[i].offered = (IF i = 1 THEN start ELSE EndOf(offers[i - 1]))
          /\ offers[i].expires = offers[i].offered + OfferTimeout
          /\ offers[i].status = "expired" <=> offers[i].responded = None
          /\ offers[i].responded # None => offers[i].responded \in
                 (offers[i].offered + 1)..(offers[i].expires - 1)
          /\ offers[i].status = "accepted" => i = Len(offers)
    /\ offers # <<>> => EndOf(offers[Len(offers)]) = end
=============================================================================
