------------------------------ MODULE Reviews ------------------------------
(***************************************************************************)
(* The reviews one buyer writes of one order in                            *)
(* packages/core/src/trust/reviews-repository.ts: verified purchases,      *)
(* the fraud limit, duplicate pastes, the supplier's answer, moderation.   *)
(*                                                                         *)
(* createReview looks for an earlier review before its transaction; inside *)
(* it counts the window and searches for the same body, and then inserts.  *)
(* Answers and verdicts read a row and update it by id.  When a verdict is *)
(* written, apps/web/src/lib/admin/moderation.ts tells the author, in a    *)
(* transaction of its own.  Each of these is a step, so that calls may     *)
(* cross, or end after any of them.                                        *)
(***************************************************************************)
EXTENDS FraudLimits

CONSTANTS
    Lines,      \* order lines
    NoLine,     \* a review of the supplier, not of a line
    Bodies,     \* review bodies as compared: redacted, normalised
    NoBody,
    Answers,    \* what suppliers answer
    NoAnswer,
    ReviewIds,  \* Review rows there may ever be
    Sessions,   \* calls that may be in flight at once
    Lookback    \* how far back a duplicate is searched: 30 days

ASSUME LookbackAssumption == Lookback \in Nat /\ Window <= Lookback
ASSUME NoLineAssumption == NoLine \notin Lines
ASSUME NoBodyAssumption == NoBody \notin Bodies
ASSUME NoAnswerAssumption == NoAnswer \notin Answers
ASSUME SessionsAssumption == IsFiniteSet(Sessions)

VARIABLES
    delivered,  \* the order is in one of the delivered statuses
    review,     \* the Review rows
    event,      \* RateLimitEvent rows: the review each one counts, and when
    flagged,    \* reviews that a FraudFlag row names
    heard,       \* verdicts that the author of each review was told
    call,       \* per session, the call in flight
    crossed,    \* two calls have been in flight together
    clock

reviewVars == <<delivered, review, event, flagged, heard, call, crossed, clock>>

Status == {"NONE", "PENDING", "PUBLISHED", "REJECTED"}
Verdicts == {"PUBLISHED", "REJECTED"}
NoRow == [status |-> "NONE", line |-> NoLine, body |-> NoBody, at |-> NoTime, answer |-> NoAnswer]
NoCall == [op |-> "IDLE", row |-> NoRow, of |-> "NONE"]

Written == {r \in ReviewIds : review[r].status # "NONE"}

ReviewsTypeOK ==
    /\ delivered \in BOOLEAN
    /\ review \in [ReviewIds -> [status : Status, line : Lines \cup {NoLine},
                                 body : Bodies \cup {NoBody}, at : Time \cup {NoTime},
                                 answer : Answers \cup {NoAnswer}]]
    /\ event \in [ReviewIds -> Time \cup {NoTime}]
    /\ flagged \subseteq ReviewIds
    /\ heard \in [ReviewIds -> SUBSET Verdicts]
    /\ call \in [Sessions -> [op : {"IDLE", "CREATE", "COUNTED", "FLAG", "ANSWER", "MODERATE", "NOTIFY"},
                              row : [status : Status, line : Lines \cup {NoLine},
                                     body : Bodies \cup {NoBody}, at : Time \cup {NoTime},
                                     answer : Answers \cup {NoAnswer}],
                              of : ReviewIds \cup {"NONE"}]]
    /\ crossed \in BOOLEAN
    /\ clock \in Time

ReviewsInit ==
    /\ delivered = FALSE
    /\ review = [r \in ReviewIds |-> NoRow]
    /\ event = [r \in ReviewIds |-> NoTime]
    /\ flagged = {}
    /\ heard = [r \in ReviewIds |-> {}]
    /\ call = [s \in Sessions |-> NoCall]
    /\ crossed = FALSE
    /\ clock = 0

Begin(s, record) ==
    /\ call[s] = NoCall
    /\ call' = [call EXCEPT ![s] = record]
    /\ crossed' = (crossed \/ \E t \in Sessions \ {s} : call[t] # NoCall)
    /\ UNCHANGED <<delivered, review, event, flagged, heard, clock>>

End(s) == call' = [call EXCEPT ![s] = NoCall]

\* A throw, a unique index, a timeout: nothing of the transaction is written.
giveUp(s) ==
    /\ call[s] # NoCall
    /\ End(s)
    /\ UNCHANGED <<delivered, review, event, flagged, heard, crossed, clock>>

-----------------------------------------------------------------------------

\* Mutant of AlreadyReviewed: only the unique column looks for earlier reviews.
NeverReviewed(line) == FALSE

AlreadyReviewed(line) == \E r \in Written : review[r].line = line

createReview(s) ==
    /\ delivered
    /\ \E l \in Lines \cup {NoLine}, b \in Bodies \cup {NoBody} :
         /\ ~AlreadyReviewed(l)
         /\ Begin(s, [NoCall EXCEPT !.op = "CREATE",
                                    !.row = [NoRow EXCEPT !.line = l, !.body = b]])

Repeats(r, body) ==
    body # NoBody /\ r \in Written /\ review[r].body = body /\ review[r].at >= clock - Lookback

\* The transaction reads the window and the earlier bodies.
countReview(s) ==
    LET body == call[s].row.body IN
    /\ call[s].op = "CREATE"
    /\ RateLimitAllows(event, clock)
    /\ \/ /\ \A r \in ReviewIds : ~Repeats(r, body)
          /\ call' = [call EXCEPT ![s] = [call[s] EXCEPT !.op = "COUNTED", !.row.at = clock]]
       \/ \E r \in ReviewIds :
            /\ Repeats(r, body)
            /\ call' = [call EXCEPT ![s] = [call[s] EXCEPT !.op = "FLAG", !.of = r]]
    /\ UNCHANGED <<delivered, review, event, flagged, heard, crossed, clock>>

\* orderLineId is unique where it is not null.
recordReview(s) ==
    /\ call[s].op = "COUNTED"
    /\ \A r \in Written : review[r].line = call[s].row.line => review[r].line = NoLine
    /\ \E r \in ReviewIds \ Written :
         /\ review' = [review EXCEPT ![r] = [call[s].row EXCEPT !.status = "PENDING"]]
         /\ event' = [event EXCEPT ![r] = call[s].row.at]
    /\ End(s)
    /\ UNCHANGED <<delivered, flagged, heard, crossed, clock>>

\* A duplicate is flagged once its transaction is rolled back.
flagDuplicate(s) ==
    /\ call[s].op = "FLAG"
    /\ flagged' = flagged \cup {call[s].of}
    /\ End(s)
    /\ UNCHANGED <<delivered, review, event, heard, crossed, clock>>

-----------------------------------------------------------------------------

MayAnswer(r) == r \in Written /\ review[r].answer = NoAnswer

answer(s) ==
    \E r \in ReviewIds, a \in Answers :
        /\ MayAnswer(r)
        /\ Begin(s, [op |-> "ANSWER", row |-> [NoRow EXCEPT !.answer = a], of |-> r])

respondToReview(s) ==
    /\ call[s].op = "ANSWER"
    /\ review' = [review EXCEPT ![call[s].of].answer = call[s].row.answer]
    /\ End(s)
    /\ UNCHANGED <<delivered, event, flagged, heard, crossed, clock>>

\* Mutant of moderationQueue: decided reviews are on it too.
EverythingWritten == Written

\* What staff sees, and the machine asks again of the row it reads.
moderationQueue == {r \in ReviewIds : review[r].status = "PENDING"}

decide(s) ==
    \E r \in moderationQueue, v \in Verdicts :
        Begin(s, [op |-> "MODERATE", row |-> [NoRow EXCEPT !.status = v], of |-> r])

moderate(s) ==
    /\ call[s].op = "MODERATE"
    /\ review' = [review EXCEPT ![call[s].of].status = call[s].row.status]
    /\ call' = [call EXCEPT ![s].op = "NOTIFY"]
    /\ UNCHANGED <<delivered, event, flagged, heard, crossed, clock>>

notifyAuthor(s) ==
    /\ call[s].op = "NOTIFY"
    /\ heard' = [heard EXCEPT ![call[s].of] = @ \cup {call[s].row.status}]
    /\ End(s)
    /\ UNCHANGED <<delivered, review, event, flagged, crossed, clock>>

\* What pages choose from, of one line or of the supplier: they show the newest
\* fifty.
publishedReviews(line) ==
    {r \in Written : review[r].line = line /\ review[r].status = "PUBLISHED"}

-----------------------------------------------------------------------------

\* The order is delivered.  Leaving the delivered statuses again, by a dispute
\* or a refund, would only keep new reviews from beginning.
orderMoves ==
    /\ ~delivered
    /\ delivered' = TRUE
    /\ UNCHANGED <<review, event, flagged, heard, call, crossed, clock>>

timePasses ==
    /\ clock < MaxTime
    /\ clock' = clock + 1
    /\ UNCHANGED <<delivered, review, event, flagged, heard, call, crossed>>

ReviewCalls(s) ==
    \/ createReview(s) \/ countReview(s) \/ recordReview(s) \/ flagDuplicate(s)
    \/ answer(s) \/ respondToReview(s)
    \/ decide(s) \/ moderate(s) \/ notifyAuthor(s)
    \/ giveUp(s)

ReviewsNext == (\E s \in Sessions : ReviewCalls(s)) \/ orderMoves \/ timePasses

ReviewsSpec == ReviewsInit /\ [][ReviewsNext]_reviewVars

-----------------------------------------------------------------------------
(* Properties *)

\* reviews-repository.ts:228: "One review per order-line; supplier-level
\* reviews are capped at one per order", and none repeats another's body within
\* the look-back.  Lines keep the promise however calls cross, by the unique
\* column; the other two are found before or beside the insert and need calls
\* that do not cross.
ReviewsAreDistinct ==
    \A r, q \in Written : r # q =>
        /\ review[r].line = review[q].line => review[r].line = NoLine /\ crossed
        /\ review[r].body = review[q].body /\ review[r].body # NoBody
             => crossed \/ review[r].at < review[q].at - Lookback
                        \/ review[q].at < review[r].at - Lookback

\* review-machine.ts:24, moderation.ts:18 and reviews-repository.ts:306:
\* decided reviews are final, so what may be shown may be shown for good and a
\* rejected review never may; the author is told once, and told what stands; and
\* the supplier answers once.  All of it is asked of plain reads, so it holds as
\* long as calls do not cross.
VerdictsStand ==
    [][~crossed' =>
         /\ \A l \in Lines \cup {NoLine} : publishedReviews(l) \subseteq publishedReviews(l)'
         /\ \A r \in Written :
              /\ review[r].status = "REJECTED" => review'[r].status = "REJECTED"
              /\ heard'[r] # heard[r] => heard[r] = {} /\ heard'[r] = {review[r].status}
              /\ review[r].answer # NoAnswer => review'[r].answer = review[r].answer]_reviewVars

\* fraud.ts:54: counting is meant to be atomic with acceptance.  No window that
\* ends at an accepted review holds more than the limit while calls do not
\* cross; calls that do can each add one to it.
ReviewsWithinLimit ==
    \A r \in Rows(event) :
        Cardinality(Within(event, event[r])) <=
            IF crossed THEN Limit + Cardinality(Sessions) - 1 ELSE Limit

=============================================================================
