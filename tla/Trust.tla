------------------------------- MODULE Trust -------------------------------
(***************************************************************************)
(* Reviews, messages and the room of a dispute beside each other, for TLC. *)
(* They share the code of the fraud limit and no row: a behaviour of all   *)
(* is a shuffle of one of each, so each behaviour here follows one.        *)
(***************************************************************************)
EXTENDS Reviews, Messaging, DisputeRoom

VARIABLE part

Init ==
    /\ ReviewsInit /\ MessagingInit /\ RoomInit
    /\ part \in {"REVIEWS", "MESSAGES", "DISPUTE"}
    /\ part # "DISPUTE" => room.preOrderStatus = CHOOSE from \in OpenedFrom : TRUE

Next ==
    /\ part' = part
    /\ \/ part = "REVIEWS" /\ ReviewsNext /\ UNCHANGED <<messageVars, roomVars>>
       \/ part = "MESSAGES" /\ MessagingNext /\ UNCHANGED <<reviewVars, roomVars>>
       \/ part = "DISPUTE" /\ RoomNext /\ UNCHANGED <<reviewVars, messageVars>>

Spec == Init /\ [][Next]_<<part, reviewVars, messageVars, roomVars>>

\* fraud.ts:54, for both scopes.
AcceptedWithinLimit == ReviewsWithinLimit /\ PostsWithinLimit

=============================================================================
