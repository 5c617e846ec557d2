-------------------------- MODULE SupplierProfile --------------------------
(***************************************************************************)
(* One supplier's profile: the onboarding wizard                           *)
(* (packages/core/src/repositories.ts, onboarding.ts), what the importer   *)
(* may have left before it, and the tier staff give                        *)
(* (apps/web/src/lib/admin/verification.ts).                               *)
(*                                                                         *)
(* Every wizard call is a transaction that reads whether the profile was   *)
(* submitted and, at the end, writes rows by id: Begin and a commit, so    *)
(* that calls of two members of one organization may cross.                *)
(***************************************************************************)
EXTENDS FiniteSets

CONSTANTS
    Plants, Certifications, Equipment, Capabilities,    \* rows there may be
    Sessions    \* calls that may be in flight at once

VARIABLES
    profile,    \* the SupplierProfile row
    items,      \* plants, certifications, equipment and capabilities
    primary,    \* plants with isPrimary
    call,       \* per session, the call in flight
    late,       \* sessions whose call was in flight when the profile was submitted
    crossed     \* two calls have been in flight together

vars == <<profile, items, primary, call, late, crossed>>

Items == Plants \cup Certifications \cup Equipment \cup Capabilities
Tier == {"UNVERIFIED", "VERIFIED", "AEKOVERA_VETTED"}
Nothing == "NONE"
NoCall == [op |-> "IDLE", item |-> Nothing, on |-> FALSE, was |-> FALSE, update |-> FALSE,
           clears |-> {}]
NoProfile == [exists |-> FALSE, about |-> FALSE, terms |-> FALSE, account |-> FALSE,
              submitted |-> FALSE, tier |-> "UNVERIFIED", judged |-> FALSE]

WizardOps == {"ENSURE", "COMPANY", "UPSERT", "REMOVE", "TERMS", "STRIPE"}
Calls == [op : WizardOps \cup {"IDLE", "SUBMIT"}, item : Items \cup {Nothing}, on : BOOLEAN,
          was : BOOLEAN, update : BOOLEAN, clears : SUBSET Plants]

TypeOK ==
    /\ profile \in [exists : BOOLEAN, about : BOOLEAN, terms : BOOLEAN, account : BOOLEAN,
                    submitted : BOOLEAN, tier : Tier, judged : BOOLEAN]
    /\ items \subseteq Items /\ primary \subseteq Plants \cap items
    /\ call \in [Sessions -> Calls]
    /\ late \subseteq Sessions
    /\ crossed \in BOOLEAN

\* A sign-up without a profile, or one the importer made: never submitted,
\* never above UNVERIFIED, one primary plant, what the file claimed.
Init ==
    /\ \/ profile = NoProfile /\ items = {} /\ primary = {}
       \/ /\ \E about \in BOOLEAN :
               profile = [NoProfile EXCEPT !.exists = TRUE, !.about = about]
          /\ \E p \in Plants, claimed \in SUBSET Capabilities :
               items = {p} \cup claimed /\ primary = {p}
    /\ call = [s \in Sessions |-> NoCall]
    /\ late = {} /\ crossed = FALSE

-----------------------------------------------------------------------------
(* Progress *)

\* Mutant of EquipmentStep: either surface completes the step.
EitherSurface(rows) == rows \cap (Equipment \cup Capabilities) # {}

EquipmentStep(rows) == rows \cap Equipment # {} /\ rows \cap Capabilities # {}

\* onboardingProgress; payment terms have a default and are never empty.
isComplete ==
    /\ profile.exists /\ profile.about
    /\ items \cap Plants # {}
    /\ items \cap Certifications # {}
    /\ EquipmentStep(items)
    /\ profile.terms
    /\ profile.account

isPubliclyVisible == profile.submitted

\* Mutant of NotSubmitted: a submitted profile may be edited.
AlwaysOpen(p) == TRUE

NotSubmitted(p) == ~p.submitted

-----------------------------------------------------------------------------
(* Transactions *)

Begin(s, record) ==
    /\ call[s] = NoCall
    /\ call' = [call EXCEPT ![s] = record]
    /\ crossed' = (crossed \/ \E t \in Sessions \ {s} : call[t] # NoCall)
    /\ UNCHANGED <<profile, items, primary, late>>

Edit(s, record) == NotSubmitted(profile) /\ Begin(s, [record EXCEPT !.was = profile.exists])

End(s) ==
    /\ call' = [call EXCEPT ![s] = NoCall]
    /\ late' = late \ {s}
    /\ UNCHANGED crossed

\* #ensureProfileIn: one profile per organization, whoever creates it first.
Ensured(s) == call[s].was \/ ~profile.exists

giveUp(s) ==
    /\ call[s] # NoCall
    /\ End(s)
    /\ UNCHANGED <<profile, items, primary>>

ensureSupplierProfile(s) ==
    Begin(s, [NoCall EXCEPT !.op = "ENSURE", !.was = profile.exists])

ensured(s) ==
    /\ call[s].op = "ENSURE"
    /\ Ensured(s)
    /\ profile' = [profile EXCEPT !.exists = TRUE]
    /\ End(s)
    /\ UNCHANGED <<items, primary>>

-----------------------------------------------------------------------------
(* The wizard *)

\* A description may be saved empty again.
updateCompanyDetails(s) ==
    \E filled \in BOOLEAN : Edit(s, [NoCall EXCEPT !.op = "COMPANY", !.on = filled])

\* Less than half a cent is saved as no minimum at all.
updateCommercialTerms(s) ==
    \E positive \in BOOLEAN : Edit(s, [NoCall EXCEPT !.op = "TERMS", !.on = positive])

linkStripeConnectAccount(s) == Edit(s, [NoCall EXCEPT !.op = "STRIPE", !.on = TRUE])

recordDetails(s) ==
    /\ call[s].op \in {"COMPANY", "TERMS", "STRIPE"}
    /\ Ensured(s)
    /\ profile' = [profile EXCEPT
         !.exists = TRUE,
         !.about = IF call[s].op = "COMPANY" THEN call[s].on ELSE @,
         !.terms = IF call[s].op = "TERMS" THEN call[s].on ELSE @,
         !.account = @ \/ call[s].op = "STRIPE"]
    /\ End(s)
    /\ UNCHANGED <<items, primary>>

Upsert(i) ==
    [op |-> "UPSERT", item |-> i, on |-> FALSE, was |-> FALSE, update |-> i \in items, clears |-> {}]

\* A new primary plant takes the mark from those seen with it.
upsertPlant(s) ==
    \E p \in Plants, on \in BOOLEAN :
        Edit(s, [Upsert(p) EXCEPT !.on = on, !.clears = IF on THEN primary ELSE {}])

upsertCertification(s) == \E c \in Certifications : Edit(s, Upsert(c))

upsertEquipment(s) == \E e \in Equipment \ items : Edit(s, Upsert(e))

addCapability(s) == \E c \in Capabilities : Edit(s, Upsert(c))

\* New rows have fresh ids, capabilities are upserted by name; an update finds
\* its row or throws.
recordItem(s) ==
    LET i == call[s].item IN
    /\ call[s].op = "UPSERT"
    /\ i \in Capabilities \/ call[s].update = (i \in items)
    /\ Ensured(s)
    /\ profile' = [profile EXCEPT !.exists = TRUE]
    /\ items' = items \cup {i}
    /\ primary' = (primary \ (call[s].clears \cup {i}))
                     \cup IF call[s].on THEN {i} ELSE {}
    /\ End(s)

removeItem(s) ==
    \E i \in items : Edit(s, [NoCall EXCEPT !.op = "REMOVE", !.item = i])

recordRemoval(s) ==
    LET i == call[s].item IN
    /\ call[s].op = "REMOVE"
    /\ i \in items
    /\ items' = items \ {i}
    /\ primary' = primary \ {i}
    /\ End(s)
    /\ UNCHANGED profile

\* The snapshot is complete and was not submitted.
submitForReview(s) ==
    /\ isComplete
    /\ NotSubmitted(profile)
    /\ Begin(s, [NoCall EXCEPT !.op = "SUBMIT"])

submit(s) ==
    /\ call[s].op = "SUBMIT"
    /\ profile' = [profile EXCEPT !.submitted = TRUE]
    /\ call' = [call EXCEPT ![s] = NoCall]
    /\ late' = (late \cup {t \in Sessions : call[t] # NoCall}) \ {s}
    /\ UNCHANGED <<items, primary, crossed>>

\* Any profile may be judged, submitted or not; a demotion clears the stamp.
setVerificationTier ==
    \E tier \in Tier \ {profile.tier} :
        /\ profile.exists
        /\ profile' = [profile EXCEPT !.tier = tier, !.judged = tier # "UNVERIFIED"]
        /\ UNCHANGED <<items, primary, call, late, crossed>>

WizardCalls(s) ==
    \/ ensureSupplierProfile(s) \/ ensured(s)
    \/ updateCompanyDetails(s) \/ updateCommercialTerms(s) \/ linkStripeConnectAccount(s)
    \/ recordDetails(s)
    \/ upsertPlant(s) \/ upsertCertification(s) \/ upsertEquipment(s) \/ addCapability(s)
    \/ recordItem(s)
    \/ removeItem(s) \/ recordRemoval(s)
    \/ submitForReview(s) \/ submit(s)
    \/ giveUp(s)

Next == (\E s \in Sessions : WizardCalls(s)) \/ setVerificationTier

Spec == Init /\ [][Next]_vars

-----------------------------------------------------------------------------
(* Properties *)

\* repositories.ts:468: "Only a fully-complete wizard can submit".  What the
\* publishing gate shows to everybody has each kind of row, its terms and its
\* account, and one primary plant at most, as long as calls do not cross.
PublicProfilesAreComplete ==
    ~crossed /\ isPubliclyVisible =>
        /\ \A rows \in {Plants, Certifications, Equipment, Capabilities} : items \cap rows # {}
        /\ profile.about /\ profile.terms /\ profile.account
        /\ \A p, q \in primary : p = q

WizardOwned ==
    <<items, primary, profile.exists, profile.about, profile.terms, profile.account>>

\* repositories.ts:469: "afterwards the wizard-owned fields lock".  However
\* calls cross, only one that was under way when the profile was submitted still
\* changes it, and nothing takes a submission back.
LockedAfterSubmit ==
    [][profile.submitted =>
         /\ profile'.submitted
         /\ \/ WizardOwned' = WizardOwned
            \/ \E s \in late : call[s].op \in WizardOps /\ call'[s] = NoCall]_vars

=============================================================================
