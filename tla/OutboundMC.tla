----------------------------- MODULE OutboundMC -----------------------------
(***************************************************************************)
(* The jobs that run without a person asking, for TLC, in small instances: *)
(* webhooks, reorder reminders, and the refresh of the benchmarks.  They   *)
(* share no row: a behaviour of all is a shuffle of one of each, so each   *)
(* behaviour here follows one.                                             *)
(***************************************************************************)
EXTENDS WebhookDispatcher, ReorderSweep, Benchmarks, TLC

VARIABLE job

vars == <<job, webhookVars, reorderVars, benchVars>>

Init ==
    /\ WebhookInit /\ ReorderInit /\ BenchmarksInit
    /\ job \in {"WEBHOOKS", "REMINDERS", "BENCHMARKS"}

OfWebhooks(A) == job = "WEBHOOKS" /\ job' = job /\ A /\ UNCHANGED <<reorderVars, benchVars>>

OfReminders(A) == job = "REMINDERS" /\ job' = job /\ A /\ UNCHANGED <<webhookVars, benchVars>>

OfBenchmarks(A) == job = "BENCHMARKS" /\ job' = job /\ A /\ UNCHANGED <<webhookVars, reorderVars>>

Next == OfWebhooks(WebhookNext) \/ OfReminders(ReorderNext) \/ OfBenchmarks(BenchmarksNext)

Spec == Init /\ [][Next]_vars

\* WebhookFairness and ReorderFairness, each where its job moves at all.
FairSpec ==
    /\ Spec
    /\ \A w \in Sweepers : WF_vars(OfWebhooks(Sweeps(w)))
    /\ WF_vars(OfWebhooks(second))
    /\ \A w \in Timers : WF_vars(OfReminders(SweepSteps(w)))

\* What is due moves on: retries to their end, reminders to their next date.
DueWorkMovesOn == RetriesEnd /\ DueRulesMoveOn

-----------------------------------------------------------------------------
(* Benchmarks: two samples make a group.  One listing has three tiers, two  *)
(* of them in a band; another shares that group; a third names no material. *)

Offer(id, material, tiers) ==
    [id |-> id, categoryId |-> "pouches", material |-> material, tiers |-> tiers]

Break(minQty, cents) == [minQty |-> minQty, unitPriceCents |-> cents]

FirstOffer == Offer(1, "PET", {Break(1, 9), Break(2, 7), Break(3, 6)})

MCOffers == {FirstOffer, Offer(2, "PET", {Break(2, 8), Break(4, 5)}), Offer(3, "", {Break(1, 4)})}

Purchase(id, quantity, days, category, spec, listing) ==
    [id |-> id, quantity |-> quantity, leadTimeDays |-> days, categoryId |-> category, spec |-> spec,
     listing |-> listing]

MCPurchases ==
    {Purchase(1, 1, 30, "pouches", "PET", Unset), Purchase(2, 2, 20, Unset, "", FirstOffer),
     Purchase(3, 2, 40, "pouches", "", Unset), Purchase(4, 1, 10, Unset, "PET", Unset)}

MCBands == {[key |-> "1-2", min |-> 1, max |-> 2], [key |-> "3+", min |-> 3, max |-> Unset]}

=============================================================================
