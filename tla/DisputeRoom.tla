---------------------------- MODULE DisputeRoom -----------------------------
(***************************************************************************)
(* The room of one dispute: trust/disputes-repository.ts, which talks in   *)
(* it, and the staff console of lib/admin/disputes.ts, which closes it.    *)
(* Every call is a transaction that reads the row and later writes what it *)
(* computed from it, by id and without asking again; so calls that cross a *)
(* closing write over it.                                                  *)
(*                                                                         *)
(* The money of a resolution is left to OrderEscrow and OrderRaces: here a *)
(* resolution moves the order, or refuses to.                              *)
(***************************************************************************)
EXTENDS OrderMachine, Permissions, SequencesExt

CONSTANTS
    Visitors,   \* calls that may be under way at once
    Mediators,  \* members of the staff
    Outcomes,   \* resolutions they choose, by where each takes the order
    OpenedFrom, \* statuses of the order in which the dispute was opened
    MaxTrail,   \* bound on the responses and pieces of evidence
    MaxClosed,  \* bound on the closings that commit
    Nobody

ASSUME OutcomesAssumption ==
    Outcomes \subseteq {"ESCROW_RELEASED", "CANCELLED", "PARTIALLY_REFUNDED", "DELIVERED"}
ASSUME NobodyAssumption == Nobody \notin {"buyer", "supplier"} \cup Mediators
ASSUME OpenedFromAssumption == OpenedFrom \subseteq DISPUTABLE_STATUSES

VARIABLES
    room,    \* the Dispute row
    orderIs, \* the status of its order
    trail,   \* DisputeResponse and DisputeEvidence rows, in order of creation
    told,    \* outcomes the opener was notified of: the row names no leg of the
             \* order, so the console finds no supplier to tell
    visit,   \* per visitor, the call under way and the row it read
    closed,  \* history: the closings that committed, in order
    late     \* history: calls that committed on a row closed since their read

roomVars == <<room, orderIs, trail, told, visit, closed, late>>

Outside == [call |-> "NONE"]

-----------------------------------------------------------------------------
(* Who may, and what for *)

\* The opener, a supplier of the order, or the staff: nobody else takes part.
Participants ==
    [who \in {"buyer", "supplier"} \cup Mediators |->
       IF who \in Mediators THEN "AEKOVERA_STAFF"
       ELSE IF who = "buyer" THEN "BUYER" ELSE "SUPPLIER_OPS"]

Mediates(who) == Participants[who] = "AEKOVERA_STAFF"

EventOf == [respond |-> "RESPOND", attachEvidence |-> "ATTACH_EVIDENCE", startReview |-> "START_REVIEW",
            withdraw |-> "WITHDRAW", resolve |-> "RESOLVE", console |-> "RESOLVE"]

PermissionFor(call) ==
    IF call \in {"startReview", "resolve", "console"} THEN "dispute:mediate" ELSE "message:send"

MayCall(who, call) ==
    /\ Can(Participants[who], PermissionFor(call))
    /\ call \in {"attachEvidence", "withdraw"} => who = "buyer" \/ Mediates(who)

\* Mutant of Accepts: whoever has the room open may still write.
AcceptsAlways(status, call) ==
    \/ EventOf[call] \in {"RESPOND", "ATTACH_EVIDENCE"}
    \/ \E to \in DisputeStatus : disputeTransition(status, EventOf[call], to)

Accepts(status, call) == \E to \in DisputeStatus : disputeTransition(status, EventOf[call], to)

-----------------------------------------------------------------------------
(* Calls *)

\* The page's action, or the console's, up to the read of its transaction.
withTrust(v) ==
    /\ visit[v] = Outside
    /\ \E who \in DOMAIN Participants, call \in DOMAIN EventOf :
         /\ MayCall(who, call)
         /\ Accepts(room.status, call)
         /\ call \in {"resolve", "console"} => orderIs = "DISPUTED"
         /\ visit' = [visit EXCEPT ![v] = [call |-> call, read |-> room.status, overtaken |-> FALSE,
                                           resolver |-> IF EventOf[call] = "RESOLVE" THEN who ELSE Nobody]]
    /\ UNCHANGED <<room, orderIs, trail, told, closed, late>>

Commits(v, calls) == visit[v].call \in calls
Exit(v) == visit' = [visit EXCEPT ![v] = Outside]
Lateness(v, kind) == late' = late \cup (IF visit[v].overtaken THEN {kind} ELSE {})

\* A closing overtakes the transactions that have read the row; v goes on.
Closing(v, next, closing) ==
    /\ closed' = Append(closed, closing)
    /\ visit' = [u \in Visitors |->
                   IF u = v THEN next
                   ELSE IF visit[u].call \in DOMAIN EventOf THEN [visit[u] EXCEPT !.overtaken = TRUE]
                   ELSE visit[u]]
    /\ Lateness(v, "closing")

\* The new row, and the status that was read, written back.
discuss(v) ==
    /\ Commits(v, {"respond", "attachEvidence"}) /\ Len(trail) < MaxTrail
    /\ trail' = Append(trail, [kind |-> visit[v].call, after |-> Len(closed)])
    /\ room' = [room EXCEPT !.status = visit[v].read]
    /\ Lateness(v, "talk") /\ Exit(v)
    /\ UNCHANGED <<orderIs, told, closed>>

startReview(v) ==
    /\ Commits(v, {"startReview"})
    /\ room' = [room EXCEPT !.status = "UNDER_REVIEW"]
    /\ Lateness(v, "talk") /\ Exit(v)
    /\ UNCHANGED <<orderIs, trail, told, closed>>

\* The order, read after the dispute was written, resumes if it may.
withdraw(v) ==
    LET resumes == orderIs = "DISPUTED" /\ room.preOrderStatus \in LEGAL_DISPUTE_RESOLUTIONS
    IN  /\ Commits(v, {"withdraw"}) /\ Len(closed) < MaxClosed
        /\ room' = [room EXCEPT !.status = "WITHDRAWN"]
        /\ orderIs' = IF resumes THEN room.preOrderStatus ELSE orderIs
        /\ Closing(v, Outside, [resolver |-> Nobody, to |-> orderIs', moved |-> resumes])
        /\ UNCHANGED <<trail, told>>

\* The console still has to sign the row and to tell the opener; the form of the
\* order page ends here.
resolveDispute(v) ==
    /\ Commits(v, {"resolve", "console"}) /\ Len(closed) < MaxClosed
    /\ \E to \in Outcomes :
         /\ orderIs' = to
         /\ room' = [room EXCEPT !.status = "RESOLVED", !.outcome = to]
         /\ Closing(v, IF visit[v].call = "resolve" THEN Outside
                       ELSE [call |-> "sign", resolver |-> visit[v].resolver, to |-> to],
                    [resolver |-> visit[v].resolver, to |-> to, moved |-> TRUE])
    /\ UNCHANGED <<trail, told>>

resolveDisputeAsStaff(v) ==
    \/ /\ Commits(v, {"sign"})
       /\ room' = [room EXCEPT !.resolvedBy = visit[v].resolver]
       /\ visit' = [visit EXCEPT ![v].call = "notify"]
       /\ UNCHANGED <<orderIs, trail, told, closed, late>>
    \/ /\ Commits(v, {"notify"})
       /\ told' = told \cup {visit[v].to}
       /\ Exit(v)
       /\ UNCHANGED <<room, orderIs, trail, closed, late>>

\* A call fails or its process stops: nothing of an open transaction stays,
\* and nobody takes up what the console had left to do.
abandon(v) ==
    /\ visit[v] # Outside /\ Exit(v)
    /\ UNCHANGED <<room, orderIs, trail, told, closed, late>>

-----------------------------------------------------------------------------

RoomInit ==
    /\ \E from \in OpenedFrom :
         room = [status |-> "OPEN", preOrderStatus |-> from, outcome |-> Nobody, resolvedBy |-> Nobody]
    /\ orderIs = "DISPUTED"
    /\ trail = <<>> /\ told = {} /\ closed = <<>> /\ late = {}
    /\ visit = [v \in Visitors |-> Outside]

RoomNext ==
    \E v \in Visitors :
      \/ withTrust(v) \/ discuss(v) \/ startReview(v) \/ withdraw(v)
      \/ resolveDispute(v) \/ resolveDisputeAsStaff(v) \/ abandon(v)

RoomSpec == RoomInit /\ [][RoomNext]_roomVars

-----------------------------------------------------------------------------
(* Properties *)

\* dispute-machine.ts:13: "RESOLVED and WITHDRAWN are terminal".  A dispute is
\* active again, or written to, after it was closed only when a response, a
\* piece of evidence or a review crossed the closing; and even then the order
\* leaves the dispute once and stays where the first move took it, unless two
\* closings crossed each other.  Whoever signed the row resolved it, and the
\* opener is told of no outcome but one that committed.
DecisionsStand ==
    /\ "talk" \notin late =>
         /\ closed # <<>> => room.status \notin ESCROW_BLOCKING_DISPUTE_STATUSES
         /\ \A i \in DOMAIN trail : trail[i].after = 0
    /\ "closing" \notin late =>
         LET moves == {i \in DOMAIN closed : closed[i].moved}
         IN  /\ moves = {} => orderIs = "DISPUTED"
             /\ \A i \in moves : moves = {i} /\ orderIs = closed[i].to
             /\ Cardinality(told) <= 1
    /\ room.resolvedBy # Nobody =>
         \E i \in DOMAIN closed : closed[i].resolver = room.resolvedBy
    /\ \A outcome \in told : \E i \in DOMAIN closed : closed[i].resolver # Nobody /\ closed[i].to = outcome
=============================================================================
