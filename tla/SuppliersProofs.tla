--------------------------- MODULE SuppliersProofs ---------------------------
(***************************************************************************)
(* Proofs about suppliers on the platform: their profile, for any rows and *)
(* any number of crossing calls; one request for quotes, for any listings, *)
(* attributes, suppliers, sends in flight and quotes; and the two imports, *)
(* the migration of suppliers and the public directory, for any files and  *)
(* any number of runs that cross or stop.                                  *)
(***************************************************************************)
EXTENDS SupplierProfile, Sourcing, MigrationImport, Directory,
        FiniteSetTheorems, SequenceTheorems, WellFoundedInduction, TLAPS

-----------------------------------------------------------------------------
(* The profile *)

EditOps == WizardOps \ {"ENSURE"}

Full ==
    /\ \A rows \in {Plants, Certifications, Equipment, Capabilities} : items \cap rows # {}
    /\ profile.about /\ profile.terms /\ profile.account

\* What an upsert carries, and that an edit in flight read an open profile
\* unless the submission overtook it.
Locked ==
    /\ profile.submitted => profile.exists
    /\ \A s \in Sessions :
         /\ call[s].op = "SUBMIT" => profile.exists
         /\ call[s].op \in EditOps /\ s \notin late => ~profile.submitted
         /\ call[s].op = "UPSERT" =>
              call[s].item \in Items /\ (call[s].on => call[s].item \in Plants)

\* Without crossing calls: one is in flight, it knows the primary plants, and a
\* submission under way has what it saw.
Whole ==
    ~crossed =>
        /\ \A s, t \in Sessions : call[s] # NoCall /\ call[t] # NoCall => s = t
        /\ late = {}
        /\ \A p, q \in primary : p = q
        /\ \A s \in Sessions : call[s].op = "UPSERT" /\ call[s].on => call[s].clears = primary
        /\ profile.submitted => Full
        /\ \A s \in Sessions : call[s].op = "SUBMIT" => Full

IInv == TypeOK /\ Locked /\ Whole

-----------------------------------------------------------------------------

\* The initial states are those of a sign-up or an import.
LEMMA InitHolds == Init => IInv
<1> SUFFICES ASSUME Init PROVE IInv
  OBVIOUS
<1>1. /\ profile \in [exists : BOOLEAN, about : BOOLEAN, terms : BOOLEAN, account : BOOLEAN,
                     submitted : BOOLEAN, tier : Tier, judged : BOOLEAN]
      /\ ~profile.submitted
  <2>1. CASE profile = NoProfile
    BY <2>1 DEF NoProfile, Tier
  <2>2. CASE \E about \in BOOLEAN : profile = [NoProfile EXCEPT !.exists = TRUE, !.about = about]
    <3>1. PICK about \in BOOLEAN : profile = [NoProfile EXCEPT !.exists = TRUE, !.about = about]
      BY <2>2
    <3> QED
      BY <3>1 DEF NoProfile, Tier
  <2> QED
    BY <2>1, <2>2 DEF Init
<1>2. items \subseteq Items /\ primary \subseteq Plants \cap items /\ \A p, q \in primary : p = q
  BY DEF Init, Items
<1>3. NoCall \in Calls /\ NoCall.op = "IDLE"
  BY DEF NoCall, Calls, Nothing
<1>4. call \in [Sessions -> Calls] /\ \A s \in Sessions : call[s] = NoCall
  BY <1>3 DEF Init
<1>5. TypeOK
  BY <1>1, <1>2, <1>4 DEF Init, TypeOK
<1>6. Locked
  BY <1>1, <1>3, <1>4 DEF Locked, EditOps, WizardOps
<1>7. Whole
  BY <1>1, <1>2, <1>3, <1>4 DEF Init, Whole
<1> QED
  BY <1>5, <1>6, <1>7 DEF IInv

\* A call that begins carries what it read.
LEMMA BeginKeeps ==
    ASSUME IInv, NEW s \in Sessions, NEW r \in Calls, Begin(s, r), r # NoCall,
           r.op \in EditOps => ~profile.submitted,
           r.op = "UPSERT" => r.item \in Items /\ (r.on => r.item \in Plants),
           r.op = "UPSERT" /\ r.on => r.clears = primary,
           r.op = "SUBMIT" => profile.exists /\ Full
    PROVE  IInv'
<1> USE DEF IInv, Begin
<1>1. TypeOK'
  BY DEF TypeOK
<1>2. Locked'
  BY DEF Locked, TypeOK
<1>3. Whole'
  <2> SUFFICES ASSUME ~crossed' PROVE Whole'
    BY DEF Whole
  <2>1. ~crossed /\ \A t \in Sessions \ {s} : call[t] = NoCall
    BY DEF TypeOK
  <2>2. call'[s] = r /\ \A t \in Sessions \ {s} : call'[t] = NoCall
    BY <2>1 DEF TypeOK
  <2>3. NoCall.op = "IDLE"
    BY DEF NoCall
  <2> QED
    BY <2>1, <2>2, <2>3 DEF Whole, Full, TypeOK
<1> QED
  BY <1>1, <1>2, <1>3

\* The same for the calls that ask whether the profile was submitted.
LEMMA EditKeeps ==
    ASSUME IInv, NEW s \in Sessions, NEW r \in Calls, Edit(s, r), r.op \in EditOps,
           r.op = "UPSERT" => r.item \in Items /\ (r.on => r.item \in Plants),
           r.op = "UPSERT" /\ r.on => r.clears = primary
    PROVE  IInv'
<1> DEFINE record == [r EXCEPT !.was = profile.exists]
<1>1. record \in Calls
  BY DEF IInv, TypeOK, Calls
<1>2. record # NoCall
  BY DEF NoCall, EditOps, WizardOps, Calls
<1>3. /\ record.op = r.op /\ record.item = r.item
      /\ record.on = r.on /\ record.clears = r.clears
  BY DEF Calls
<1>4. Begin(s, record) /\ ~profile.submitted
  BY DEF Edit, NotSubmitted
<1>5. record.op # "SUBMIT"
  BY <1>3 DEF EditOps, WizardOps
<1> HIDE DEF record
<1> QED
  BY <1>1, <1>2, <1>3, <1>4, <1>5, BeginKeeps

\* The end of a call in flight leaves what concerns the other calls as it was.
LEMMA EndFacts ==
    ASSUME TypeOK, NEW s \in Sessions, End(s)
    PROVE  /\ call' \in [Sessions -> Calls] /\ late' \subseteq Sessions /\ crossed' = crossed
           /\ call'[s] = NoCall /\ call'[s].op = "IDLE"
           /\ \A t \in Sessions \ {s} : call'[t] = call[t] /\ (t \in late' <=> t \in late)
<1>1. NoCall \in Calls /\ NoCall.op = "IDLE"
  BY DEF NoCall, Calls, Nothing
<1> QED
  BY <1>1 DEF End, TypeOK

\* recordDetails, ensured and an update of the tier write the profile.
LEMMA ProfileKeeps ==
    ASSUME IInv, NEW s \in Sessions, call[s].op \in WizardOps, End(s),
           UNCHANGED <<items, primary>>,
           profile' \in [exists : BOOLEAN, about : BOOLEAN, terms : BOOLEAN, account : BOOLEAN,
                         submitted : BOOLEAN, tier : Tier, judged : BOOLEAN],
           profile'.submitted = profile.submitted, profile.exists => profile'.exists,
           call[s].op = "ENSURE" => Full' = Full
    PROVE  IInv'
<1>1. /\ call' \in [Sessions -> Calls] /\ late' \subseteq Sessions /\ crossed' = crossed
      /\ call'[s] = NoCall /\ call'[s].op = "IDLE"
      /\ \A t \in Sessions \ {s} : call'[t] = call[t] /\ (t \in late' <=> t \in late)
  BY EndFacts DEF IInv
<1>2. TypeOK'
  BY <1>1 DEF IInv, TypeOK
<1>3. Locked'
  BY <1>1 DEF IInv, Locked, EditOps, WizardOps
<1>4. Whole'
  <2> SUFFICES ASSUME ~crossed' PROVE Whole'
    BY DEF Whole
  <2>1. call[s] # NoCall
    BY DEF WizardOps, NoCall
  <2>2. late = {} /\ \A t \in Sessions \ {s} : call[t] = NoCall
    BY <1>1, <2>1 DEF IInv, Whole
  <2>3. late' = {}
    BY <2>2 DEF End
  <2>4. NoCall.op = "IDLE"
    BY DEF NoCall
  <2>5. \A t \in Sessions : call'[t] = NoCall
    BY <1>1, <2>2
  <2>6. profile'.submitted => Full'
    BY <1>1, <2>2 DEF IInv, Whole, Locked, EditOps
  <2> QED
    BY <1>1, <2>3, <2>4, <2>5, <2>6 DEF IInv, Whole
<1> QED
  BY <1>2, <1>3, <1>4 DEF IInv

\* recordItem and recordRemoval write the rows of a profile.
LEMMA ItemsKeep ==
    ASSUME IInv, NEW s \in Sessions, call[s].op \in {"UPSERT", "REMOVE"}, End(s),
           profile' = profile \/ profile' = [profile EXCEPT !.exists = TRUE],
           items' \subseteq Items, primary' \subseteq Plants \cap items',
           ~crossed => \A p, q \in primary' : p = q
    PROVE  IInv'
<1>1. /\ call' \in [Sessions -> Calls] /\ late' \subseteq Sessions /\ crossed' = crossed
      /\ call'[s] = NoCall /\ call'[s].op = "IDLE"
      /\ \A t \in Sessions \ {s} : call'[t] = call[t] /\ (t \in late' <=> t \in late)
  BY EndFacts DEF IInv
<1>2. /\ profile' \in [exists : BOOLEAN, about : BOOLEAN, terms : BOOLEAN, account : BOOLEAN,
                        submitted : BOOLEAN, tier : Tier, judged : BOOLEAN]
      /\ profile'.submitted = profile.submitted /\ (profile.exists => profile'.exists)
  BY DEF IInv, TypeOK
<1>3. TypeOK'
  BY <1>1, <1>2 DEF IInv, TypeOK
<1>4. Locked'
  BY <1>1, <1>2 DEF IInv, Locked, EditOps, WizardOps
<1>5. Whole'
  <2> SUFFICES ASSUME ~crossed' PROVE Whole'
    BY DEF Whole
  <2>1. call[s] # NoCall
    BY DEF NoCall
  <2>2. late = {} /\ \A t \in Sessions \ {s} : call[t] = NoCall
    BY <1>1, <2>1 DEF IInv, Whole
  <2>3. late' = {}
    BY <2>2 DEF End
  <2>4. NoCall.op = "IDLE"
    BY DEF NoCall
  <2>5. \A t \in Sessions : call'[t] = NoCall
    BY <1>1, <2>2
  <2>6. ~profile'.submitted
    BY <1>2, <2>2 DEF IInv, Locked, EditOps, WizardOps
  <2> QED
    BY <1>1, <2>3, <2>4, <2>5, <2>6 DEF IInv, Whole
<1> QED
  BY <1>3, <1>4, <1>5 DEF IInv

-----------------------------------------------------------------------------

\* One call: what begins carries what it read, what commits keeps the invariant.
LEMMA CallKeeps == ASSUME IInv, NEW s \in Sessions, WizardCalls(s) PROVE IInv'
<1>0. NoCall \in Calls
  BY DEF NoCall, Calls, Nothing
<1>a. \A i \in Items : Upsert(i) \in Calls /\ Upsert(i).op = "UPSERT" /\ Upsert(i).item = i
                           /\ ~Upsert(i).on
  <2> SUFFICES ASSUME NEW i \in Items
               PROVE  Upsert(i) \in Calls /\ Upsert(i).op = "UPSERT" /\ Upsert(i).item = i
                        /\ ~Upsert(i).on
    OBVIOUS
  <2>1. (i \in items) \in BOOLEAN
    OBVIOUS
  <2> QED
    BY <2>1 DEF Upsert, Calls, WizardOps
<1>1. CASE ensureSupplierProfile(s)
  <2> DEFINE r == [NoCall EXCEPT !.op = "ENSURE", !.was = profile.exists]
  <2>1. r \in Calls /\ r.op = "ENSURE" /\ r # NoCall
    BY DEF NoCall, Calls, WizardOps, IInv, TypeOK, Nothing
  <2>2. Begin(s, r)
    BY <1>1 DEF ensureSupplierProfile
  <2> HIDE DEF r
  <2> QED
    BY <2>1, <2>2, BeginKeeps DEF EditOps
<1>2. CASE ensured(s)
  <2>1. Full' = Full
    BY <1>2 DEF ensured, Full, IInv, TypeOK
  <2> QED
    BY <1>2, <2>1, ProfileKeeps DEF ensured, IInv, TypeOK, WizardOps
<1>3. CASE updateCompanyDetails(s) \/ updateCommercialTerms(s) \/ linkStripeConnectAccount(s)
  <2>1. PICK op \in {"COMPANY", "TERMS", "STRIPE"}, on \in BOOLEAN :
          Edit(s, [NoCall EXCEPT !.op = op, !.on = on])
    BY <1>3 DEF updateCompanyDetails, updateCommercialTerms, linkStripeConnectAccount
  <2> DEFINE r == [NoCall EXCEPT !.op = op, !.on = on]
  <2>2. r \in Calls /\ r.op \in {"COMPANY", "TERMS", "STRIPE"}
    BY DEF NoCall, Calls, WizardOps, Nothing
  <2>3. Edit(s, r)
    BY <2>1
  <2> HIDE DEF r
  <2>4. r.op \in EditOps /\ r.op # "UPSERT"
    BY <2>2 DEF EditOps, WizardOps
  <2> QED
    BY <2>2, <2>3, <2>4, EditKeeps
<1>4. CASE recordDetails(s)
  <2>1. profile' \in [exists : BOOLEAN, about : BOOLEAN, terms : BOOLEAN, account : BOOLEAN,
                      submitted : BOOLEAN, tier : Tier, judged : BOOLEAN]
    BY <1>4, ZenonT(60) DEF recordDetails, IInv, TypeOK, Calls
  <2>2. profile'.submitted = profile.submitted /\ profile'.exists
    BY <1>4 DEF recordDetails, IInv, TypeOK
  <2> QED
    BY <1>4, <2>1, <2>2, ProfileKeeps DEF recordDetails, WizardOps
<1>5. CASE upsertPlant(s)
  <2>1. PICK p \in Plants, on \in BOOLEAN :
          Edit(s, [Upsert(p) EXCEPT !.on = on, !.clears = IF on THEN primary ELSE {}])
    BY <1>5 DEF upsertPlant
  <2> DEFINE r == [Upsert(p) EXCEPT !.on = on, !.clears = IF on THEN primary ELSE {}]
  <2>2. p \in Items
    BY DEF Items
  <2>3. /\ r \in Calls /\ r.op = "UPSERT" /\ r.item = p
        /\ r.on = on /\ (on => r.clears = primary)
    <3> DEFINE clears == IF on THEN primary ELSE {}
    <3>1. clears \in SUBSET Plants /\ (on => clears = primary)
      BY DEF IInv, TypeOK
    <3> HIDE DEF clears
    <3>2. r = [Upsert(p) EXCEPT !.on = on, !.clears = clears]
      BY DEF clears
    <3> HIDE DEF r
    <3> QED
      BY <1>a, <2>2, <3>1, <3>2, ZenonT(60) DEF Calls
  <2>4. Edit(s, r)
    BY <2>1
  <2> HIDE DEF r
  <2>5. r.op \in EditOps
    BY <2>3 DEF EditOps, WizardOps
  <2> QED
    BY <2>2, <2>3, <2>4, <2>5, EditKeeps
<1>6. CASE upsertCertification(s) \/ upsertEquipment(s) \/ addCapability(s)
  <2>1. PICK i \in Items : Edit(s, Upsert(i))
    BY <1>6 DEF upsertCertification, upsertEquipment, addCapability, Items
  <2>2. Upsert(i).op \in EditOps
    BY <1>a DEF EditOps, WizardOps
  <2> QED
    BY <1>a, <2>1, <2>2, EditKeeps
<1>7. CASE recordItem(s)
  <2>1. call[s].item \in Items /\ (call[s].on => call[s].item \in Plants) /\ call[s].on \in BOOLEAN
    BY <1>7 DEF recordItem, IInv, Locked, TypeOK, Calls
  <2>2. items' \subseteq Items /\ primary' \subseteq Plants \cap items'
    BY <1>7, <2>1 DEF recordItem, IInv, TypeOK
  <2>3. ~crossed => \A p, q \in primary' : p = q
    BY <1>7, <2>1 DEF recordItem, IInv, Whole
  <2> QED
    BY <1>7, <2>2, <2>3, ItemsKeep DEF recordItem
<1>8. CASE removeItem(s)
  <2>1. PICK i \in items : Edit(s, [NoCall EXCEPT !.op = "REMOVE", !.item = i])
    BY <1>8 DEF removeItem
  <2> DEFINE r == [NoCall EXCEPT !.op = "REMOVE", !.item = i]
  <2>2. r \in Calls /\ r.op = "REMOVE"
    BY DEF NoCall, Calls, WizardOps, IInv, TypeOK
  <2>3. Edit(s, r)
    BY <2>1
  <2> HIDE DEF r
  <2>4. r.op \in EditOps
    BY <2>2 DEF EditOps, WizardOps
  <2> QED
    BY <2>2, <2>3, <2>4, EditKeeps
<1>9. CASE recordRemoval(s)
  <2>1. items' \subseteq Items /\ primary' \subseteq Plants \cap items'
    BY <1>9 DEF recordRemoval, IInv, TypeOK
  <2>2. ~crossed => \A p, q \in primary' : p = q
    BY <1>9 DEF recordRemoval, IInv, Whole
  <2> QED
    BY <1>9, <2>1, <2>2, ItemsKeep DEF recordRemoval
<1>10. CASE submitForReview(s)
  <2> DEFINE r == [NoCall EXCEPT !.op = "SUBMIT"]
  <2>1. r \in Calls /\ r.op = "SUBMIT" /\ r # NoCall /\ r.op \notin EditOps
    BY DEF NoCall, Calls, WizardOps, EditOps, Nothing
  <2>2. Begin(s, r) /\ profile.exists
    BY <1>10 DEF submitForReview, isComplete
  <2>3. Full
    BY <1>10 DEF submitForReview, isComplete, EquipmentStep, Full
  <2> HIDE DEF r
  <2> QED
    BY <2>1, <2>2, <2>3, BeginKeeps
<1>11. CASE submit(s)
  <2>1. /\ profile' \in [exists : BOOLEAN, about : BOOLEAN, terms : BOOLEAN, account : BOOLEAN,
                         submitted : BOOLEAN, tier : Tier, judged : BOOLEAN]
        /\ profile'.exists = profile.exists /\ profile.exists /\ Full' = Full
    BY <1>11 DEF submit, IInv, TypeOK, Locked, Full
  <2>2. call' \in [Sessions -> Calls] /\ call'[s] = NoCall /\ \A t \in Sessions \ {s} : call'[t] = call[t]
    BY <1>0, <1>11 DEF submit, IInv, TypeOK
  <2>3. NoCall.op = "IDLE" /\ call[s] # NoCall
    BY <1>11 DEF NoCall, submit
  <2>4. TypeOK'
    BY <1>11, <2>1, <2>2 DEF submit, IInv, TypeOK
  <2>5. Locked'
    BY <1>11, <2>1, <2>2, <2>3 DEF submit, IInv, Locked, EditOps, WizardOps
  <2>6. Whole'
    <3> SUFFICES ASSUME ~crossed' PROVE Whole'
      BY DEF Whole
    <3>1. ~crossed /\ UNCHANGED <<items, primary, crossed>>
      BY <1>11 DEF submit
    <3>2. \A t \in Sessions : call'[t] = NoCall
      BY <2>2, <2>3, <3>1 DEF IInv, Whole
    <3>3. late' = {}
      BY <1>11, <2>2, <3>1, <3>2 DEF submit, IInv, Whole
    <3>4. Full'
      BY <1>11, <2>1, <3>1 DEF submit, IInv, Whole
    <3> QED
      BY <2>3, <3>1, <3>2, <3>3, <3>4 DEF IInv, Whole
  <2> QED
    BY <2>4, <2>5, <2>6 DEF IInv
<1>12. CASE giveUp(s)
  <2>1. /\ call' \in [Sessions -> Calls] /\ late' \subseteq Sessions /\ crossed' = crossed
        /\ call'[s] = NoCall /\ call'[s].op = "IDLE"
        /\ \A t \in Sessions \ {s} : call'[t] = call[t] /\ (t \in late' <=> t \in late)
    BY <1>12, EndFacts DEF giveUp, IInv
  <2>2. UNCHANGED <<profile, items, primary>> /\ Full' = Full
    BY <1>12 DEF giveUp, Full
  <2>3. TypeOK'
    BY <2>1, <2>2 DEF IInv, TypeOK
  <2>4. Locked'
    BY <2>1, <2>2 DEF IInv, Locked, EditOps, WizardOps
  <2>5. Whole'
    BY <1>12, <2>1, <2>2 DEF giveUp, End, IInv, Whole
  <2> QED
    BY <2>3, <2>4, <2>5 DEF IInv
<1> QED
  BY <1>1, <1>2, <1>3, <1>4, <1>5, <1>6, <1>7, <1>8, <1>9, <1>10, <1>11, <1>12 DEF WizardCalls

\* Every step of the system keeps the invariant.
LEMMA StepKeeps == ASSUME IInv, [Next]_vars PROVE IInv'
<1>1. ASSUME NEW s \in Sessions, WizardCalls(s) PROVE IInv'
  BY <1>1, CallKeeps
<1>2. CASE setVerificationTier
  <2>1. /\ profile' \in [exists : BOOLEAN, about : BOOLEAN, terms : BOOLEAN, account : BOOLEAN,
                         submitted : BOOLEAN, tier : Tier, judged : BOOLEAN]
        /\ profile'.submitted = profile.submitted /\ profile'.exists = profile.exists
        /\ UNCHANGED <<items, primary, call, late, crossed>>
        /\ Full' = Full
    BY <1>2 DEF setVerificationTier, IInv, TypeOK, Full
  <2>2. TypeOK'
    BY <2>1 DEF IInv, TypeOK
  <2>3. Locked'
    BY <2>1 DEF IInv, Locked
  <2>4. Whole'
    BY <2>1 DEF IInv, Whole
  <2> QED
    BY <2>2, <2>3, <2>4 DEF IInv
<1>3. CASE UNCHANGED vars
  BY <1>3 DEF vars, IInv, TypeOK, Locked, Whole, Full
<1> QED
  BY <1>1, <1>2, <1>3 DEF Next

\* The invariant above holds in every state, for any rows and any number of
\* calls of the wizard in flight.
THEOREM SupplierInductive == Spec => []IInv
BY InitHolds, StepKeeps, PTL DEF Spec

\* The profile, its rows and the calls in flight keep their types.
THEOREM SupplierTypeCorrect == Spec => []TypeOK
<1>1. IInv => TypeOK
  BY DEF IInv
<1> QED
  BY <1>1, SupplierInductive, PTL

\* repositories.ts:468: what the publishing gate shows is complete, as long as
\* calls do not cross.
THEOREM PublicComplete == Spec => []PublicProfilesAreComplete
<1>1. IInv => PublicProfilesAreComplete
  BY DEF IInv, Whole, Full, PublicProfilesAreComplete, isPubliclyVisible
<1> QED
  BY <1>1, SupplierInductive, PTL

\* repositories.ts:469: one step of a submitted profile, under any crossing.
LEMMA StepLocked ==
    ASSUME IInv, [Next]_vars, profile.submitted
    PROVE  /\ profile'.submitted
           /\ \/ WizardOwned' = WizardOwned
              \/ \E s \in late : call[s].op \in WizardOps /\ call'[s] = NoCall
<1>1. profile.exists
  BY DEF IInv, Locked
<1>2. ASSUME NEW s \in Sessions, WizardCalls(s), call[s].op \notin EditOps
      PROVE  profile'.submitted /\ WizardOwned' = WizardOwned
  <2>1. CASE Begin(s, call'[s])
    BY <2>1 DEF Begin, WizardOwned
  <2>2. CASE ensured(s)
    BY <2>2, <1>1 DEF ensured, WizardOwned, IInv, TypeOK
  <2>3. CASE submit(s)
    BY <2>3 DEF submit, WizardOwned, IInv, TypeOK
  <2>4. CASE giveUp(s)
    BY <2>4 DEF giveUp, WizardOwned
  <2>5. ASSUME ~ensured(s), ~submit(s), ~giveUp(s) PROVE Begin(s, call'[s])
    <3>1. ~recordDetails(s) /\ ~recordItem(s) /\ ~recordRemoval(s)
      BY <1>2 DEF recordDetails, recordItem, recordRemoval, EditOps, WizardOps
    <3>2. \E r : Begin(s, r)
      BY <1>2, <2>5, <3>1 DEF WizardCalls, Edit, ensureSupplierProfile, updateCompanyDetails,
        updateCommercialTerms, linkStripeConnectAccount, upsertPlant, upsertCertification,
        upsertEquipment, addCapability, removeItem, submitForReview
    <3>3. ASSUME NEW r, Begin(s, r) PROVE Begin(s, call'[s])
      BY <3>3 DEF Begin, IInv, TypeOK
    <3> QED
      BY <3>2, <3>3
  <2> QED
    BY <2>1, <2>2, <2>3, <2>4, <2>5
<1>3. ASSUME NEW s \in Sessions, WizardCalls(s), call[s].op \in EditOps
      PROVE  profile'.submitted /\ s \in late /\ call[s].op \in WizardOps /\ call'[s] = NoCall
  <2>1. s \in late /\ call[s].op \in WizardOps /\ call[s] # NoCall
    BY <1>3, SMTT(30) DEF IInv, Locked, EditOps, WizardOps, NoCall
  <2>2. recordDetails(s) \/ recordItem(s) \/ recordRemoval(s) \/ giveUp(s)
    BY <1>3, <2>1 DEF WizardCalls, Edit, Begin, ensureSupplierProfile, updateCompanyDetails,
      updateCommercialTerms, linkStripeConnectAccount, upsertPlant, upsertCertification,
      upsertEquipment, addCapability, removeItem, submitForReview, submit, ensured,
      EditOps, WizardOps
  <2>3. End(s) /\ profile'.submitted
    BY <2>2 DEF recordDetails, recordItem, recordRemoval, giveUp, IInv, TypeOK
  <2>4. call'[s] = NoCall
    BY <2>3, EndFacts DEF IInv
  <2> QED
    BY <2>1, <2>3, <2>4
<1>4. CASE setVerificationTier
  BY <1>4 DEF setVerificationTier, WizardOwned, IInv, TypeOK
<1>5. CASE UNCHANGED vars
  BY <1>5 DEF vars, WizardOwned
<1> QED
  BY <1>2, <1>3, <1>4, <1>5 DEF Next

\* repositories.ts:469: the wizard's fields lock at the submission, but for the
\* calls it overtook.
THEOREM SubmissionLocks == Spec => LockedAfterSubmit
<1>1. IInv /\ [Next]_vars =>
        [profile.submitted =>
          /\ profile'.submitted
          /\ \/ WizardOwned' = WizardOwned
             \/ \E s \in late : call[s].op \in WizardOps /\ call'[s] = NoCall]_vars
  BY StepLocked
<1> QED
  BY <1>1, SupplierInductive, PTL DEF Spec, LockedAfterSubmit

-----------------------------------------------------------------------------
(* One request for quotes: its types *)

Targets == [org : Suppliers \cup {Buyer}, via : Listings \cup {Absent}]
Invitations == [org : Suppliers \cup {Buyer}, via : Listings \cup {Absent}, by : Senders]
SendCalls == [stage : {"IDLE", "READ", "WRITE"}, targets : SUBSET Targets,
          invite : Invitees \cup {{}}]
QuoteStatuses == {"SUBMITTED", "REVISED", "WITHDRAWN", "DECLINED"}

SourcingTypeOK ==
    /\ rfq \in Requests \cup {Absent}
    /\ live \subseteq Listings
    /\ sending \in [Senders -> SendCalls]
    /\ thread \subseteq Invitations
    /\ quote \in [QuoteRows -> [org : Suppliers \cup {"NONE"}, status : QuoteStatuses \cup {"NONE"}]]
    /\ sendsCrossed \in BOOLEAN

-----------------------------------------------------------------------------
(* The inductive invariant of the invitations *)

\* What an organization was asked for fits it, and stays so as listings leave.
Fit(t) ==
    /\ t.org \in Suppliers
    /\ rfq.mode # "SINGLE" /\ t.via # Absent =>
         /\ Shelf[t.via].category = rfq.categoryId
         /\ \E tier \in Shelf[t.via].tiers : tier.minQty <= rfq.quantity
         /\ \A k \in DOMAIN rfq.wants : rfq.wants[k].list \/
              k \in attributeOverlap(rfq.wants, Shelf[t.via].attributes)
         /\ \A l \in Candidates(rfq) : Shelf[l].org = t.org =>
              score(rfq, l) <= score(rfq, t.via)

OneEach(asked) == \A t, u \in asked : t.org = u.org => t = u

\* Without a request nothing is in flight; a draft went to nobody, and what
\* went out reached somebody.
RequestHolds ==
    /\ rfq = Absent => thread = {} /\ \A s \in Senders : sending[s] = NotSending
    /\ rfq # Absent =>
         /\ rfq.mode = "SINGLE" => rfq.listingId \in Listings /\ Shelf[rfq.listingId].org # Buyer
         /\ rfq.status = "DRAFT" =>
              /\ thread = {} /\ rfq.quantity > 0
              /\ IF rfq.mode = "SINGLE" THEN rfq.listingId # Absent ELSE rfq.categoryId # Absent
              /\ rfq.mode = "AUCTION" <=> rfq.closesAt # Absent
         /\ rfq.status \in {"OPEN", "CLOSED"} => thread # {}

\* A send that is about to write has somebody to write to, each of them once;
\* unless two crossed, it is alone and nobody was written to before.
SendsHold ==
    /\ \A s \in Senders :
         /\ sending[s].stage = "IDLE" => sending[s] = NotSending
         /\ sending[s].stage = "WRITE" => sending[s].targets # {}
         /\ OneEach(sending[s].targets)
         /\ \A t \in sending[s].targets : Fit(t)
    /\ ~sendsCrossed => \A s \in Senders : sending[s].stage # "IDLE" =>
         /\ thread = {}
         /\ \A c \in Senders \ {s} : sending[c].stage = "IDLE"

ThreadsHold ==
    /\ \A t \in thread : Fit(t)
    /\ ~sendsCrossed => OneEach(thread)

InvitationsIInv == SourcingTypeOK /\ RequestHolds /\ SendsHold /\ ThreadsHold

-----------------------------------------------------------------------------
(* The inductive invariant of the conversations *)

CardsOf(q) == {m \in chat : m.quote = q}

\* Every message is in a thread that exists, from one of its sides, and what it
\* shows is a quote of the thread's supplier.
MessagesHold ==
    \A m \in chat :
        /\ m.thread \in thread /\ m.org \in {Buyer, m.thread.org}
        /\ m.quote # Absent => m.quote \in Quotes /\ quote[m.quote].org = m.thread.org

\* Every quote is an invited supplier's, with one card.
QuotesHold ==
    \A q \in Quotes :
        /\ quote[q].org \in Suppliers /\ quote[q].status \in QuoteStatuses
        /\ \E t \in InvitationOf(quote[q].org) : CardsOf(q) = {Card(t, quote[q].org, q)}

ConversationsIInv ==
    /\ InvitationsIInv /\ MessagesHold /\ QuotesHold
    /\ cart \subseteq Quotes

-----------------------------------------------------------------------------
(* The matching *)

LEMMA ScoreIsNat ==
  ASSUME NEW wants, NEW l \in Listings
  PROVE  Cardinality(attributeOverlap(wants, Shelf[l].attributes)) \in Nat
<1> DEFINE S == attributeOverlap(wants, Shelf[l].attributes)
<1>1. S \subseteq DOMAIN Shelf[l].attributes
  BY DEF attributeOverlap
<1>2. IsFiniteSet(DOMAIN Shelf[l].attributes)
  BY ShelfAssumption
<1>3. IsFiniteSet(S)
  BY <1>1, <1>2, FS_Subset
<1> QED
  BY <1>3, FS_CardinalityType

\* Two listings of one supplier do not both win: one of them is stronger.
LEMMA OneListingEach ==
  ASSUME NEW r, live \subseteq Listings
  PROVE  \A l, m \in matchSuppliers(r) : Shelf[l].org = Shelf[m].org => l = m
<1> SUFFICES ASSUME NEW l \in matchSuppliers(r), NEW m \in matchSuppliers(r),
                    Shelf[l].org = Shelf[m].org, l # m
             PROVE  FALSE
  OBVIOUS
<1>1. l \in Candidates(r) /\ m \in Candidates(r)
  BY DEF matchSuppliers
<1>2. l \in Listings /\ m \in Listings
  BY <1>1 DEF Candidates
<1>3. byMatchStrength(r, l, m) /\ byMatchStrength(r, m, l)
  BY <1>1 DEF matchSuppliers
<1>4. score(r, l) \in Nat /\ score(r, m) \in Nat
  BY <1>2, ScoreIsNat DEF score
<1>5. l \in Nat /\ m \in Nat
  BY <1>2, ListingsAssumption
<1> QED
  BY <1>3, <1>4, <1>5 DEF byMatchStrength

\* Who wins is a supplier, and its listing prices the quantity, has every
\* single value asked for, and overlaps most of that supplier's.
LEMMA MatchFits ==
  ASSUME live \subseteq Listings, rfq # Absent, NEW l \in matchSuppliers(rfq)
  PROVE  Target(Shelf[l].org, l) \in Targets /\ Fit(Target(Shelf[l].org, l))
<1>1. l \in Candidates(rfq) /\ Shelf[l].org # Buyer
  BY DEF matchSuppliers
<1>2. l \in Listings
  BY <1>1 DEF Candidates
<1>3. Shelf[l].org \in Suppliers
  BY <1>1, <1>2, ShelfAssumption
<1>4. \A k \in DOMAIN rfq.wants : rfq.wants[k].list \/
         k \in attributeOverlap(rfq.wants, Shelf[l].attributes)
  <2> SUFFICES ASSUME NEW k \in DOMAIN rfq.wants, ~rfq.wants[k].list
               PROVE  k \in attributeOverlap(rfq.wants, Shelf[l].attributes)
    OBVIOUS
  <2>1. k \in DOMAIN Shelf[l].attributes /\ Shelf[l].attributes[k] = rfq.wants[k]
    BY <1>1 DEF Candidates
  <2> QED
    BY <2>1 DEF attributeOverlap, Satisfies
<1>5. ASSUME NEW m \in Candidates(rfq), Shelf[m].org = Shelf[l].org
      PROVE  score(rfq, m) <= score(rfq, l)
  <2>1. m \in Listings
    BY DEF Candidates
  <2>2. score(rfq, l) \in Nat /\ score(rfq, m) \in Nat
    BY <1>2, <2>1, ScoreIsNat DEF score
  <2>3. m = l \/ byMatchStrength(rfq, l, m)
    BY <1>5 DEF matchSuppliers
  <2> QED
    BY <2>2, <2>3 DEF byMatchStrength
<1>6. Shelf[l].category = rfq.categoryId /\ \E t \in Shelf[l].tiers : t.minQty <= rfq.quantity
  BY <1>1 DEF Candidates
<1> DEFINE t == Target(Shelf[l].org, l)
<1>7. t.org = Shelf[l].org /\ t.via = l /\ t \in Targets
  BY <1>2, <1>3 DEF Target, Targets
<1> HIDE DEF t
<1>8. Fit(t)
  BY <1>3, <1>4, <1>5, <1>6, <1>7 DEF Fit
<1> QED
  BY <1>7, <1>8 DEF t

\* What a send found are suppliers that fit, one target each.
LEMMA TargetsFit ==
  ASSUME SourcingTypeOK, RequestHolds, rfq # Absent, NEW invite
  PROVE  /\ targets(invite) \subseteq Targets
         /\ \A t \in targets(invite) : Fit(t)
         /\ OneEach(targets(invite))
<1>1. live \subseteq Listings
  BY DEF SourcingTypeOK
<1>2. CASE rfq.mode = "SINGLE"
  <2>1. targets(invite) = singleTargets
    BY <1>2 DEF targets
  <2>2. rfq.listingId \in Listings /\ Shelf[rfq.listingId].org \in Suppliers
    BY <1>2, ShelfAssumption DEF RequestHolds
  <2> DEFINE t == Target(Shelf[rfq.listingId].org, rfq.listingId)
  <2>3. t \in Targets /\ t.org \in Suppliers
    BY <2>2 DEF Target, Targets
  <2>4. singleTargets \subseteq {t}
    BY DEF singleTargets
  <2> HIDE DEF t
  <2>5. Fit(t)
    BY <1>2, <2>3 DEF Fit
  <2> QED
    BY <2>1, <2>3, <2>4, <2>5 DEF OneEach
<1>3. CASE rfq.mode # "SINGLE" /\ invite # {}
  <2>1. targets(invite) = resolveInvites(invite)
    BY <1>3 DEF targets
  <2>2. ASSUME NEW t \in resolveInvites(invite)
        PROVE  t \in Targets /\ Fit(t) /\ t = Target(t.org, Absent)
    <3>1. PICK o \in Suppliers : t = Target(o, Absent)
      BY DEF resolveInvites
    <3>2. t.org = o /\ t.via = Absent /\ t \in Targets
      BY <3>1 DEF Target, Targets
    <3> QED
      BY <3>1, <3>2 DEF Fit
  <2> QED
    BY <2>1, <2>2 DEF OneEach
<1>4. CASE rfq.mode # "SINGLE" /\ invite = {}
  <2>1. targets(invite) = {Target(Shelf[l].org, l) : l \in matchSuppliers(rfq)}
    BY <1>4 DEF targets
  <2>2. ASSUME NEW t \in targets(invite)
        PROVE  \E l \in matchSuppliers(rfq) : t = Target(Shelf[l].org, l)
    BY <2>1
  <2>3. OneEach(targets(invite))
    <3> SUFFICES ASSUME NEW t \in targets(invite), NEW u \in targets(invite), t.org = u.org
                 PROVE  t = u
      BY DEF OneEach
    <3>1. PICK l \in matchSuppliers(rfq) : t = Target(Shelf[l].org, l)
      BY <2>2
    <3>2. PICK m \in matchSuppliers(rfq) : u = Target(Shelf[m].org, m)
      BY <2>2
    <3>3. Shelf[l].org = Shelf[m].org
      BY <3>1, <3>2 DEF Target
    <3> QED
      BY <1>1, <3>1, <3>2, <3>3, OneListingEach
  <2>4. ASSUME NEW t \in targets(invite) PROVE t \in Targets /\ Fit(t)
    BY <1>1, <2>2, MatchFits
  <2> QED
    BY <2>3, <2>4
<1> QED
  BY <1>2, <1>3, <1>4

-----------------------------------------------------------------------------
(* What was asked for never changes, so what fitted it still does *)

SameRequest ==
    /\ rfq'.mode = rfq.mode /\ rfq'.categoryId = rfq.categoryId
    /\ rfq'.listingId = rfq.listingId /\ rfq'.quantity = rfq.quantity
    /\ rfq'.wants = rfq.wants /\ rfq'.closesAt = rfq.closesAt

LEMMA FitStays ==
  ASSUME SameRequest, live' \subseteq live, NEW t, Fit(t)
  PROVE  Fit(t)'
<1>1. Candidates(rfq)' \subseteq Candidates(rfq)
  BY DEF Candidates, SameRequest
<1>2. ASSUME NEW l PROVE score(rfq, l)' = score(rfq, l)
  BY DEF score, attributeOverlap, SameRequest
<1>3. ASSUME NEW a PROVE attributeOverlap(rfq.wants, a)' = attributeOverlap(rfq.wants, a)
  BY DEF attributeOverlap, SameRequest
<1> QED
  BY <1>1, <1>2, <1>3 DEF Fit, SameRequest

LEMMA StatusMoves ==
  ASSUME SourcingTypeOK, rfq # Absent, NEW status \in {"OPEN", "CLOSED", "CANCELLED"},
         rfq' = [rfq EXCEPT !.status = status]
  PROVE  rfq' \in Requests /\ rfq' # Absent /\ rfq'.status = status /\ SameRequest
<1>1. rfq \in Requests
  BY DEF SourcingTypeOK
<1>2. rfq' \in Requests /\ rfq'.status = status /\ SameRequest
  BY <1>1 DEF Requests, SameRequest
<1> QED
  BY <1>2, AbsentAssumption

\* A step that only takes the request on, or a listing away.
LEMMA QuietStep ==
  ASSUME InvitationsIInv, rfq' = rfq, live' \subseteq live,
         UNCHANGED <<sending, thread, sendsCrossed>>
  PROVE  RequestHolds' /\ SendsHold' /\ ThreadsHold'
<1>1. SameRequest
  BY DEF SameRequest
<1>2. \A t : Fit(t) => Fit(t)'
  BY <1>1, FitStays
<1>3. RequestHolds'
  BY DEF InvitationsIInv, RequestHolds
<1>4. SendsHold'
  BY <1>2 DEF InvitationsIInv, SendsHold, OneEach
<1>5. ThreadsHold'
  BY <1>2 DEF InvitationsIInv, ThreadsHold, OneEach
<1> QED
  BY <1>3, <1>4, <1>5

-----------------------------------------------------------------------------
(* The steps of the request *)

LEMMA InvitationsInit == SourcingInit => InvitationsIInv
<1> SUFFICES ASSUME SourcingInit PROVE InvitationsIInv
  OBVIOUS
<1>1. NotSending \in SendCalls
  BY DEF NotSending, SendCalls
<1>2. SourcingTypeOK
  BY <1>1 DEF SourcingTypeOK, SourcingInit, NoQuote
<1>3. RequestHolds
  BY DEF SourcingInit, RequestHolds
<1>4. SendsHold
  BY DEF SourcingInit, SendsHold, NotSending, OneEach
<1>5. ThreadsHold
  BY DEF SourcingInit, ThreadsHold, OneEach
<1> QED
  BY <1>2, <1>3, <1>4, <1>5 DEF InvitationsIInv

LEMMA CreateStep ==
  ASSUME InvitationsIInv, NEW f, create(f),
         f.mode \in Modes, f.listingId \in {g.listingId : g \in RfqForms} \cup {Absent},
         f.mode # "SINGLE" => f.categoryId \in {g.categoryId : g \in RfqForms},
         f.quantity \in {g.quantity : g \in RfqForms},
         f.wants \in {g.wants : g \in RfqForms} \cup {NoWishes},
         f.mode = "AUCTION" => f.closesAt \in {g.closesAt : g \in RfqForms}
  PROVE  InvitationsIInv'
<1> USE DEF InvitationsIInv
<1>1. /\ rfq = Absent /\ f.titled /\ f.quantity > 0 /\ rfq' = Draft(f)
      /\ UNCHANGED <<live, sending, thread, quote, sendsCrossed>>
  BY DEF create
<1>2. f.mode = "SINGLE" => f.listingId \in live /\ Shelf[f.listingId].org # Buyer
  BY DEF create
<1>3. f.mode # "SINGLE" => f.categoryId # Absent
  BY DEF create, Modes
<1>4. f.mode = "AUCTION" => f.closesAt # Absent
  BY DEF create
<1>5. live \subseteq Listings
  BY DEF SourcingTypeOK
<1>6. f.mode = "SINGLE" => f.listingId \in Listings /\ f.listingId # Absent
  BY <1>2, <1>5, AbsentAssumption
<1>7. /\ rfq'.mode = f.mode /\ rfq'.status = "DRAFT" /\ rfq'.listingId = f.listingId
      /\ rfq'.quantity = f.quantity
      /\ f.mode # "SINGLE" => rfq'.categoryId = f.categoryId
      /\ rfq'.closesAt = IF f.mode = "AUCTION" THEN f.closesAt ELSE Absent
  BY <1>1 DEF Draft
<1>8. rfq' \in Requests
  BY <1>1, <1>6 DEF Draft, Requests
<1>9. rfq' # Absent
  BY <1>8, AbsentAssumption
<1>10. thread = {} /\ \A s \in Senders : sending[s] = NotSending
  BY <1>1 DEF RequestHolds
<1>11. SourcingTypeOK'
  BY <1>1, <1>8 DEF SourcingTypeOK
<1>12. RequestHolds'
  BY <1>1, <1>2, <1>3, <1>4, <1>6, <1>7, <1>9, <1>10 DEF RequestHolds
<1>13. SendsHold'
  BY <1>1, <1>10 DEF SendsHold, NotSending, OneEach
<1>14. ThreadsHold'
  BY <1>1, <1>10 DEF ThreadsHold, OneEach
<1> QED
  BY <1>11, <1>12, <1>13, <1>14

LEMMA DraftStep ==
  ASSUME InvitationsIInv, NEW f \in RfqForms, createRfqAction(f) \/ create(f)
  PROVE  InvitationsIInv'
<1>1. f.mode \in Modes
  BY RfqFormsAssumption
<1>2. CASE create(f)
  BY <1>1, <1>2, CreateStep
<1>3. CASE createRfqAction(f)
  <2> DEFINE g == parseCreateRfqForm(f)
  <2>1. /\ g.mode = f.mode /\ g.wants = NoWishes /\ g.quantity = f.quantity
        /\ g.listingId \in {f.listingId, Absent}
        /\ f.mode # "SINGLE" => g.categoryId = f.categoryId
        /\ f.mode = "AUCTION" => g.closesAt = f.closesAt
    BY RfqFormsAssumption DEF parseCreateRfqForm
  <2>2. create(g)
    BY <1>3 DEF createRfqAction
  <2> HIDE DEF g
  <2> QED
    BY <1>1, <2>1, <2>2, CreateStep
<1> QED
  BY <1>2, <1>3

LEMMA SendStep ==
  ASSUME InvitationsIInv, NEW s \in Senders, send(s)
  PROVE  InvitationsIInv'
<1> USE DEF InvitationsIInv
<1>1. /\ sending[s] = NotSending /\ rfq # Absent /\ rfq.status = "DRAFT"
      /\ UNCHANGED <<rfq, live, thread, quote>>
      /\ sendsCrossed' = (sendsCrossed \/ \E c \in Senders \ {s} : sending[c] # NotSending)
  BY DEF send
<1>2. PICK invite \in Invitees :
        sending' = [sending EXCEPT ![s] = [stage |-> "READ", targets |-> {}, invite |-> invite]]
  BY DEF send
<1> DEFINE inFlight == [stage |-> "READ", targets |-> {}, invite |-> invite]
<1>3. inFlight \in SendCalls /\ inFlight.stage = "READ" /\ inFlight.targets = {}
  BY DEF SendCalls
<1> HIDE DEF inFlight
<1>4. sending \in [Senders -> SendCalls]
  BY DEF SourcingTypeOK
<1>5. sending'[s] = inFlight /\ \A c \in Senders \ {s} : sending'[c] = sending[c]
  BY <1>2, <1>4 DEF inFlight
<1>6. sending' \in [Senders -> SendCalls]
  BY <1>2, <1>3, <1>4 DEF inFlight
<1>7. SourcingTypeOK'
  BY <1>1, <1>6 DEF SourcingTypeOK
<1>8. RequestHolds'
  BY <1>1 DEF RequestHolds
<1>9. thread = {}
  BY <1>1 DEF RequestHolds
<1>10. \A t : Fit(t) => Fit(t)'
  BY <1>1, FitStays DEF SameRequest
<1>11. SendsHold'
  <2>1. ASSUME NEW c \in Senders
        PROVE  /\ sending'[c].stage = "IDLE" => sending'[c] = NotSending
               /\ sending'[c].stage = "WRITE" => sending'[c].targets # {}
               /\ OneEach(sending'[c].targets)
               /\ \A t \in sending'[c].targets : Fit(t)'
    BY <1>3, <1>5, <1>10 DEF SendsHold, OneEach
  <2>2. ASSUME ~sendsCrossed', NEW c \in Senders, sending'[c].stage # "IDLE",
               NEW d \in Senders \ {c}
        PROVE  sending'[d].stage = "IDLE"
    <3>1. \A e \in Senders \ {s} : sending[e] = NotSending
      BY <1>1, <2>2
    <3>2. c = s
      BY <1>5, <2>2, <3>1 DEF NotSending
    <3> QED
      BY <1>5, <3>1, <3>2 DEF NotSending
  <2> QED
    BY <1>1, <1>9, <2>1, <2>2 DEF SendsHold, OneEach
<1>12. ThreadsHold'
  BY <1>1, <1>9 DEF ThreadsHold, OneEach
<1> QED
  BY <1>7, <1>8, <1>11, <1>12

LEMMA TargetsStep ==
  ASSUME InvitationsIInv, NEW s \in Senders, sendTargets(s)
  PROVE  InvitationsIInv'
<1> USE DEF InvitationsIInv
<1> DEFINE found == targets(sending[s].invite)
           inFlight == IF found = {} THEN NotSending
                    ELSE [sending[s] EXCEPT !.stage = "WRITE", !.targets = found]
<1>1. /\ sending[s].stage = "READ"
      /\ UNCHANGED <<rfq, live, thread, quote, sendsCrossed>>
  BY DEF sendTargets
<1>2. sending \in [Senders -> SendCalls] /\ sending[s] \in SendCalls
  BY DEF SourcingTypeOK
<1>3. sending' = [sending EXCEPT ![s] = inFlight]
  BY <1>2 DEF sendTargets
<1>4. rfq # Absent
  BY <1>1 DEF RequestHolds, NotSending
<1>5. found \subseteq Targets /\ (\A t \in found : Fit(t)) /\ OneEach(found)
  BY <1>4, TargetsFit
<1> HIDE DEF found
<1>6. /\ inFlight \in SendCalls /\ inFlight.stage \in {"IDLE", "WRITE"}
      /\ inFlight.stage = "IDLE" => inFlight = NotSending
      /\ inFlight.stage = "WRITE" => inFlight.targets # {}
      /\ inFlight.targets \subseteq found
  <2>1. CASE found = {}
    BY <2>1 DEF NotSending, SendCalls
  <2>2. CASE found # {}
    BY <1>2, <1>5, <2>2 DEF SendCalls
  <2> QED
    BY <2>1, <2>2
<1> HIDE DEF inFlight
<1>7. sending'[s] = inFlight /\ \A c \in Senders \ {s} : sending'[c] = sending[c]
  BY <1>2, <1>3
<1>8. sending' \in [Senders -> SendCalls]
  BY <1>2, <1>3, <1>6
<1>9. SourcingTypeOK'
  BY <1>1, <1>8 DEF SourcingTypeOK
<1>10. RequestHolds'
  BY <1>1, <1>4 DEF RequestHolds
<1>11. \A t : Fit(t) => Fit(t)'
  BY <1>1, FitStays DEF SameRequest
<1>12. SendsHold'
  <2>1. ASSUME NEW c \in Senders
        PROVE  /\ sending'[c].stage = "IDLE" => sending'[c] = NotSending
               /\ sending'[c].stage = "WRITE" => sending'[c].targets # {}
               /\ OneEach(sending'[c].targets)
               /\ \A t \in sending'[c].targets : Fit(t)'
    BY <1>5, <1>6, <1>7, <1>11 DEF SendsHold, OneEach
  <2>2. ASSUME ~sendsCrossed', NEW c \in Senders, sending'[c].stage # "IDLE"
        PROVE  thread' = {} /\ \A d \in Senders \ {c} : sending'[d].stage = "IDLE"
    <3>1. sending[c].stage # "IDLE"
      BY <1>1, <1>7, <2>2
    <3>2. thread = {} /\ \A d \in Senders \ {c} : sending[d].stage = "IDLE"
      BY <1>1, <2>2, <3>1 DEF SendsHold
    <3>3. c = s
      BY <1>1, <3>2
    <3> QED
      BY <1>1, <1>7, <3>2, <3>3
  <2> QED
    BY <2>1, <2>2 DEF SendsHold, OneEach
<1>13. ThreadsHold'
  BY <1>1, <1>11 DEF ThreadsHold, OneEach
<1> QED
  BY <1>9, <1>10, <1>12, <1>13

\* The write: every target gets its thread.
LEMMA CommitStep ==
  ASSUME InvitationsIInv, NEW s \in Senders, sendCommit(s)
  PROVE  InvitationsIInv'
<1> USE DEF InvitationsIInv
<1> DEFINE new == {[org |-> t.org, via |-> t.via, by |-> s] : t \in sending[s].targets}
<1>1. /\ sending[s].stage = "WRITE" /\ rfq' = [rfq EXCEPT !.status = "OPEN"]
      /\ thread' = thread \cup new /\ sending' = [sending EXCEPT ![s] = NotSending]
      /\ UNCHANGED <<live, quote, sendsCrossed>>
  BY DEF sendCommit
<1>2. sending \in [Senders -> SendCalls] /\ sending[s] \in SendCalls
  BY DEF SourcingTypeOK
<1>3. rfq # Absent
  BY <1>1 DEF RequestHolds, NotSending
<1>4. rfq' \in Requests /\ rfq' # Absent /\ rfq'.status = "OPEN" /\ SameRequest
  BY <1>1, <1>3, StatusMoves
<1>5. \A t : Fit(t) => Fit(t)'
  BY <1>1, <1>4, FitStays
<1>6. sending[s].targets # {} /\ OneEach(sending[s].targets) /\ \A t \in sending[s].targets : Fit(t)
  BY <1>1 DEF SendsHold
<1>7. new # {} /\ new \subseteq Invitations
  <2>1. sending[s].targets \subseteq Targets
    BY <1>2 DEF SendCalls
  <2>2. ASSUME NEW t \in Targets
        PROVE  [org |-> t.org, via |-> t.via, by |-> s] \in Invitations
    BY DEF Targets, Invitations
  <2>3. new \subseteq Invitations
    BY <2>1, <2>2
  <2>4. PICK t : t \in sending[s].targets
    BY <1>6
  <2> QED
    BY <2>3, <2>4
<1>8. ASSUME NEW u \in new
      PROVE  Fit(u)' /\ \E t \in sending[s].targets : u = [org |-> t.org, via |-> t.via, by |-> s]
  <2>1. PICK t \in sending[s].targets : u = [org |-> t.org, via |-> t.via, by |-> s]
    OBVIOUS
  <2>2. u.org = t.org /\ u.via = t.via
    BY <2>1
  <2>3. Fit(t)'
    BY <1>5, <1>6
  <2> HIDE DEF new
  <2>4. Fit(u)'
    BY <2>2, <2>3 DEF Fit
  <2> QED
    BY <2>1, <2>4
<1>9. OneEach(new)
  <2> SUFFICES ASSUME NEW t \in new, NEW u \in new, t.org = u.org PROVE t = u
    BY DEF OneEach
  <2>1. PICK a \in sending[s].targets : t = [org |-> a.org, via |-> a.via, by |-> s]
    BY <1>8
  <2>2. PICK b \in sending[s].targets : u = [org |-> b.org, via |-> b.via, by |-> s]
    BY <1>8
  <2>3. a.org = b.org
    BY <2>1, <2>2
  <2>4. a = b
    BY <1>6, <2>3 DEF OneEach
  <2> QED
    BY <2>1, <2>2, <2>4
<1> HIDE DEF new
<1>10. NotSending \in SendCalls /\ NotSending.stage = "IDLE" /\ NotSending.targets = {}
  BY DEF NotSending, SendCalls
<1>11. sending'[s] = NotSending /\ \A c \in Senders \ {s} : sending'[c] = sending[c]
  BY <1>1, <1>2
<1>12. sending' \in [Senders -> SendCalls]
  BY <1>1, <1>2, <1>10
<1>13. SourcingTypeOK'
  BY <1>1, <1>4, <1>7, <1>12 DEF SourcingTypeOK
<1>14. RequestHolds'
  BY <1>1, <1>3, <1>4, <1>7 DEF RequestHolds, SameRequest
<1>15. ~sendsCrossed => thread = {} /\ \A c \in Senders \ {s} : sending[c].stage = "IDLE"
  BY <1>1 DEF SendsHold
<1>16. SendsHold'
  <2>1. ASSUME NEW c \in Senders
        PROVE  /\ sending'[c].stage = "IDLE" => sending'[c] = NotSending
               /\ sending'[c].stage = "WRITE" => sending'[c].targets # {}
               /\ OneEach(sending'[c].targets)
               /\ \A t \in sending'[c].targets : Fit(t)'
    BY <1>5, <1>10, <1>11 DEF SendsHold, OneEach
  <2>2. ~sendsCrossed' => \A c \in Senders : sending'[c].stage = "IDLE"
    BY <1>1, <1>10, <1>11, <1>15
  <2> QED
    BY <2>1, <2>2 DEF SendsHold, OneEach
<1>17. ThreadsHold'
  <2>1. \A t \in thread' : Fit(t)'
    BY <1>1, <1>5, <1>8 DEF ThreadsHold
  <2>2. ~sendsCrossed' => thread' = new
    BY <1>1, <1>15
  <2> QED
    BY <1>9, <2>1, <2>2 DEF ThreadsHold, OneEach
<1> QED
  BY <1>13, <1>14, <1>16, <1>17

LEMMA EndStep ==
  ASSUME InvitationsIInv, close \/ cancel
  PROVE  InvitationsIInv'
<1> USE DEF InvitationsIInv
<1>1. UNCHANGED <<live, sending, thread, quote, sendsCrossed>> /\ rfq # Absent
  BY DEF close, cancel, MayEnd
<1>2. \/ rfq.status = "OPEN" /\ rfq' = [rfq EXCEPT !.status = "CLOSED"]
      \/ rfq' = [rfq EXCEPT !.status = "CANCELLED"]
  BY DEF close, cancel
<1>3. /\ rfq' \in Requests /\ rfq' # Absent /\ SameRequest
      /\ rfq'.status \in {"CLOSED", "CANCELLED"}
      /\ rfq'.status = "CLOSED" => rfq.status = "OPEN"
  BY <1>1, <1>2, StatusMoves
<1>4. \A t : Fit(t) => Fit(t)'
  BY <1>1, <1>3, FitStays
<1>5. SourcingTypeOK'
  BY <1>1, <1>3 DEF SourcingTypeOK
<1>6. RequestHolds'
  BY <1>1, <1>3 DEF RequestHolds, SameRequest
<1>7. SendsHold'
  BY <1>1, <1>4 DEF SendsHold, OneEach
<1>8. ThreadsHold'
  BY <1>1, <1>4 DEF ThreadsHold, OneEach
<1> QED
  BY <1>5, <1>6, <1>7, <1>8

-----------------------------------------------------------------------------
(* The steps of the conversations *)

LEMMA RowsOfQuotes ==
  ASSUME SourcingTypeOK
  PROVE  /\ Quotes \subseteq QuoteRows
         /\ \A q \in QuoteRows : quote[q].status \in QuoteStatuses => q \in Quotes
BY DEF Quotes, NoQuote, QuoteStatuses

\* A step that leaves quotes and messages alone and takes no thread away.
LEMMA QuietTalk ==
  ASSUME ConversationsIInv, UNCHANGED <<quote, chat>>, thread \subseteq thread'
  PROVE  MessagesHold' /\ QuotesHold' /\ Quotes' = Quotes
<1> USE DEF ConversationsIInv
<1>1. Quotes' = Quotes
  BY DEF Quotes
<1>2. MessagesHold'
  BY <1>1 DEF MessagesHold
<1>3. ASSUME NEW o PROVE InvitationOf(o) \subseteq InvitationOf(o)'
  BY DEF InvitationOf
<1>4. ASSUME NEW q PROVE CardsOf(q)' = CardsOf(q)
  BY DEF CardsOf
<1>5. QuotesHold'
  BY <1>1, <1>3, <1>4 DEF QuotesHold
<1> QED
  BY <1>1, <1>2, <1>5

\* A quote's status moves, and nothing else of it.
LEMMA StatusOnly ==
  ASSUME SourcingTypeOK, NEW q \in Quotes, quote[q].status \in QuoteStatuses,
         NEW status \in QuoteStatuses
  PROVE  \A statuses : statuses = [quote EXCEPT ![q].status = status] =>
         /\ statuses \in [QuoteRows -> [org : Suppliers \cup {"NONE"},
                                        status : QuoteStatuses \cup {"NONE"}]]
         /\ \A r \in QuoteRows : statuses[r].org = quote[r].org
         /\ statuses[q].status = status
         /\ \A r \in QuoteRows \ {q} : statuses[r] = quote[r]
<1> TAKE statuses
<1> HAVE statuses = [quote EXCEPT ![q].status = status]
<1> DEFINE row == [quote[q] EXCEPT !.status = status]
           Rows == [org : Suppliers \cup {"NONE"}, status : QuoteStatuses \cup {"NONE"}]
<1>1. q \in QuoteRows
  BY DEF Quotes
<1>2. quote \in [QuoteRows -> Rows]
  BY DEF SourcingTypeOK
<1>3. row \in Rows /\ row.org = quote[q].org /\ row.status = status
  BY <1>1, <1>2
<1>4. statuses = [quote EXCEPT ![q] = row]
  OBVIOUS
<1> HIDE DEF row, Rows
<1>5. statuses \in [QuoteRows -> Rows] /\ statuses[q] = row
  BY <1>1, <1>2, <1>3, <1>4
<1>6. \A r \in QuoteRows \ {q} : statuses[r] = quote[r]
  BY <1>2, <1>4
<1> QED
  BY <1>3, <1>5, <1>6 DEF Rows

\* A quote is settled: it stays where its card is.
LEMMA SettleStep ==
  ASSUME ConversationsIInv, NEW q \in QuoteRows,
         Settle(q, "WITHDRAWN") \/ Settle(q, "DECLINED")
  PROVE  ConversationsIInv'
<1> USE DEF ConversationsIInv, InvitationsIInv
<1>1. /\ quote[q].status = "SUBMITTED"
      /\ UNCHANGED <<rfq, live, sending, thread, chat, cart, sendsCrossed>>
  BY DEF Settle
<1>2. PICK status \in QuoteStatuses : quote' = [quote EXCEPT ![q].status = status]
  BY DEF Settle, QuoteStatuses
<1>3. q \in Quotes /\ Quotes \subseteq QuoteRows
  BY <1>1, RowsOfQuotes DEF QuoteStatuses
<1>4. /\ quote' \in [QuoteRows -> [org : Suppliers \cup {"NONE"},
                                  status : QuoteStatuses \cup {"NONE"}]]
      /\ \A r \in QuoteRows : quote'[r].org = quote[r].org
      /\ quote'[q].status \in QuoteStatuses
      /\ \A r \in QuoteRows \ {q} : quote'[r] = quote[r]
  <2>1. quote[q].status \in QuoteStatuses
    BY <1>1 DEF QuoteStatuses
  <2>2. SourcingTypeOK
    OBVIOUS
  <2> HIDE DEF ConversationsIInv, InvitationsIInv
  <2>3. \A r \in QuoteRows : quote'[r].org = quote[r].org
    BY <1>2, <1>3, <2>1, <2>2, StatusOnly
  <2>4. /\ quote'[q].status \in QuoteStatuses
        /\ \A r \in QuoteRows \ {q} : quote'[r] = quote[r]
    BY <1>2, <1>3, <2>1, <2>2, StatusOnly
  <2>5. quote' \in [QuoteRows -> [org : Suppliers \cup {"NONE"},
                                  status : QuoteStatuses \cup {"NONE"}]]
    BY <1>2, <1>3, <2>1, <2>2, StatusOnly, Zenon
  <2> QED
    BY <2>3, <2>4, <2>5
<1>5. SourcingTypeOK'
  BY <1>1, <1>4 DEF SourcingTypeOK
<1>6. RequestHolds' /\ SendsHold' /\ ThreadsHold'
  BY <1>1, QuietStep
<1>7. Quotes' = Quotes
  <2>1. q \in Quotes'
    BY <1>3, <1>4 DEF Quotes, NoQuote, QuoteStatuses
  <2> QED
    BY <1>3, <1>4, <2>1 DEF Quotes
<1>8. MessagesHold'
  BY <1>1, <1>3, <1>4, <1>7 DEF MessagesHold
<1>9. QuotesHold'
  BY <1>1, <1>3, <1>4, <1>7 DEF QuotesHold, InvitationOf, CardsOf
<1> QED
  BY <1>1, <1>5, <1>6, <1>7, <1>8, <1>9

\* A new quote, and its card in a conversation of the supplier.
LEMMA OfferStep ==
  ASSUME ConversationsIInv, NEW org \in Suppliers, NEW q \in QuoteRows, NEW statuses,
         statuses \in [QuoteRows -> [org : Suppliers \cup {"NONE"},
                                     status : QuoteStatuses \cup {"NONE"}]],
         \A r \in Quotes : statuses[r].org = quote[r].org /\ statuses[r].status \in QuoteStatuses,
         \A r \in QuoteRows \ Quotes : statuses[r] = NoQuote,
         Offer(org, q, statuses)
  PROVE  ConversationsIInv'
<1> USE DEF ConversationsIInv, InvitationsIInv
<1> DEFINE row == [org |-> org, status |-> "SUBMITTED"]
           Rows == [org : Suppliers \cup {"NONE"}, status : QuoteStatuses \cup {"NONE"}]
<1>1. /\ q \in QuoteRows \ Quotes /\ quote' = [statuses EXCEPT ![q] = row]
      /\ UNCHANGED <<rfq, live, sending, thread, cart, sendsCrossed>>
  BY DEF Offer
<1>2. PICK t \in InvitationOf(org) : chat' = chat \cup {Card(t, org, q)}
  BY DEF Offer
<1>3. row \in Rows /\ row.org = org /\ row.status = "SUBMITTED"
  BY DEF QuoteStatuses
<1>4. Quotes \subseteq QuoteRows
  BY DEF Quotes
<1> HIDE DEF row, Rows
<1>5. quote' \in [QuoteRows -> Rows]
  BY <1>1, <1>3 DEF Rows
<1>6. quote'[q] = row /\ \A r \in QuoteRows \ {q} : quote'[r] = statuses[r]
  BY <1>1, <1>3
<1>7. \A r \in Quotes : quote'[r].org = quote[r].org /\ quote'[r].status \in QuoteStatuses
  BY <1>1, <1>4, <1>6
<1>8. Quotes' = Quotes \cup {q}
  BY <1>1, <1>3, <1>4, <1>6, <1>7 DEF Quotes, NoQuote, QuoteStatuses
<1>9. SourcingTypeOK'
  BY <1>1, <1>5 DEF SourcingTypeOK, Rows
<1>10. RequestHolds' /\ SendsHold' /\ ThreadsHold'
  BY <1>1, QuietStep
<1> DEFINE card == Card(t, org, q)
<1>11. card.thread = t /\ card.org = org /\ card.quote = q
  BY DEF Card
<1>12. t \in thread /\ t.org = org
  BY <1>2 DEF InvitationOf
<1>13. CardsOf(q) = {}
  BY <1>1, AbsentAssumption DEF CardsOf, MessagesHold
<1> HIDE DEF card
<1>14. MessagesHold'
  <2> SUFFICES ASSUME NEW m \in chat'
               PROVE  /\ m.thread \in thread' /\ m.org \in {Buyer, m.thread.org}
                      /\ m.quote # Absent =>
                           m.quote \in Quotes' /\ quote'[m.quote].org = m.thread.org
    BY DEF MessagesHold
  <2>1. CASE m = card
    BY <1>1, <1>3, <1>6, <1>8, <1>11, <1>12, <2>1
  <2>2. CASE m \in chat
    BY <1>1, <1>7, <1>8, <2>2 DEF MessagesHold
  <2> QED
    BY <1>2, <2>1, <2>2 DEF card
<1>15. ASSUME NEW r \in Quotes'
       PROVE  /\ quote'[r].org \in Suppliers /\ quote'[r].status \in QuoteStatuses
              /\ \E u \in thread' : u.org = quote'[r].org /\ CardsOf(r)' = {Card(u, quote'[r].org, r)}
  <2>1. CASE r = q
    <3>1. quote'[r].org = org /\ quote'[r].status \in QuoteStatuses
      BY <1>3, <1>6, <2>1 DEF QuoteStatuses
    <3>2. CardsOf(r)' = {card}
      BY <1>2, <1>11, <1>13, <2>1 DEF CardsOf, card
    <3>3. t \in thread'
      BY <1>1, <1>12
    <3>4. CardsOf(r)' = {Card(t, quote'[r].org, r)}
      BY <2>1, <3>1, <3>2 DEF card
    <3> QED
      BY <1>12, <3>1, <3>3, <3>4
  <2>2. CASE r \in Quotes
    <3>1. quote'[r].org = quote[r].org /\ quote'[r].status \in QuoteStatuses /\ r # q
      BY <1>1, <1>7, <2>2
    <3>2. PICK u \in InvitationOf(quote[r].org) : CardsOf(r) = {Card(u, quote[r].org, r)}
      BY <2>2 DEF QuotesHold
    <3>3. CardsOf(r)' = CardsOf(r)
      BY <1>2, <1>11, <3>1 DEF CardsOf, card
    <3>4. u \in thread' /\ u.org = quote[r].org
      BY <1>1, <3>2 DEF InvitationOf
    <3>5. quote[r].org \in Suppliers
      BY <2>2 DEF QuotesHold
    <3> QED
      BY <3>1, <3>2, <3>3, <3>4, <3>5
  <2> QED
    BY <1>8, <2>1, <2>2
<1>16. QuotesHold'
  BY <1>15 DEF QuotesHold, InvitationOf
<1> QED
  BY <1>1, <1>8, <1>9, <1>10, <1>14, <1>16

LEMMA SubmitStep ==
  ASSUME ConversationsIInv, NEW org \in Suppliers, NEW q \in QuoteRows, submitQuote(org, q)
  PROVE  ConversationsIInv'
<1>1. quote \in [QuoteRows -> [org : Suppliers \cup {"NONE"}, status : QuoteStatuses \cup {"NONE"}]]
  BY DEF ConversationsIInv, InvitationsIInv, SourcingTypeOK
<1>2. \A r \in Quotes : quote[r].org = quote[r].org /\ quote[r].status \in QuoteStatuses
  BY DEF ConversationsIInv, QuotesHold
<1>3. \A r \in QuoteRows \ Quotes : quote[r] = NoQuote
  BY DEF Quotes
<1>4. Offer(org, q, quote)
  BY DEF submitQuote
<1> QED
  BY <1>1, <1>2, <1>3, <1>4, OfferStep

LEMMA CounterStep ==
  ASSUME ConversationsIInv, NEW head \in Quotes, NEW q \in QuoteRows, counterQuote(head, q)
  PROVE  ConversationsIInv'
<1> DEFINE statuses == [quote EXCEPT ![head].status = "REVISED"]
<1>1. SourcingTypeOK
  BY DEF ConversationsIInv, InvitationsIInv
<1>2. quote[head].org \in Suppliers /\ quote[head].status \in QuoteStatuses
  BY DEF ConversationsIInv, QuotesHold
<1>3. /\ statuses \in [QuoteRows -> [org : Suppliers \cup {"NONE"},
                                     status : QuoteStatuses \cup {"NONE"}]]
      /\ \A r \in QuoteRows : statuses[r].org = quote[r].org
      /\ statuses[head].status = "REVISED"
      /\ \A r \in QuoteRows \ {head} : statuses[r] = quote[r]
  <2>1. "REVISED" \in QuoteStatuses
    BY DEF QuoteStatuses
  <2>2. statuses = [quote EXCEPT ![head].status = "REVISED"]
    OBVIOUS
  <2> HIDE DEF statuses
  <2>3. /\ \A r \in QuoteRows : statuses[r].org = quote[r].org
        /\ statuses[head].status = "REVISED"
        /\ \A r \in QuoteRows \ {head} : statuses[r] = quote[r]
    BY <1>1, <1>2, <2>1, <2>2, StatusOnly
  <2>4. statuses \in [QuoteRows -> [org : Suppliers \cup {"NONE"},
                                    status : QuoteStatuses \cup {"NONE"}]]
    BY <1>1, <1>2, <2>1, <2>2, StatusOnly, Zenon
  <2> QED
    BY <2>3, <2>4
<1>4. Offer(quote[head].org, q, statuses)
  BY DEF counterQuote
<1> HIDE DEF statuses
<1>5. Quotes \subseteq QuoteRows
  BY DEF Quotes
<1>6. \A r \in Quotes : statuses[r].org = quote[r].org /\ statuses[r].status \in QuoteStatuses
  <2>1. \A r \in Quotes : quote[r].status \in QuoteStatuses
    BY DEF ConversationsIInv, QuotesHold
  <2> QED
    BY <1>3, <1>5, <2>1 DEF QuoteStatuses
<1>7. \A r \in QuoteRows \ Quotes : statuses[r] = NoQuote
  BY <1>3 DEF Quotes
<1> QED
  BY <1>2, <1>3, <1>4, <1>6, <1>7, OfferStep

LEMMA WriteStep ==
  ASSUME ConversationsIInv, NEW org, NEW t, writeInThread(org, t)
  PROVE  ConversationsIInv'
<1> USE DEF ConversationsIInv, InvitationsIInv
<1> DEFINE text == Text(t, org)
<1>1. /\ t \in thread /\ org \in {Buyer, t.org} /\ chat' = chat \cup {text}
      /\ UNCHANGED <<rfq, live, sending, thread, quote, cart, sendsCrossed>>
  BY DEF writeInThread
<1>2. text.thread = t /\ text.org = org /\ text.quote = Absent
  BY DEF Text
<1> HIDE DEF text
<1>3. Quotes' = Quotes
  BY <1>1 DEF Quotes
<1>4. SourcingTypeOK'
  BY <1>1 DEF SourcingTypeOK
<1>5. RequestHolds' /\ SendsHold' /\ ThreadsHold'
  BY <1>1, QuietStep
<1>6. MessagesHold'
  BY <1>1, <1>2, <1>3 DEF MessagesHold
<1>7. ASSUME NEW q \in QuoteRows PROVE CardsOf(q)' = CardsOf(q)
  BY <1>1, <1>2, AbsentAssumption DEF CardsOf
<1>8. QuotesHold'
  BY <1>1, <1>3, <1>7 DEF QuotesHold, InvitationOf, Quotes
<1> QED
  BY <1>1, <1>3, <1>4, <1>5, <1>6, <1>8

LEMMA CartStep ==
  ASSUME ConversationsIInv, NEW q \in QuoteRows, addToCart(q) \/ removeFromCart(q)
  PROVE  ConversationsIInv'
<1> USE DEF ConversationsIInv, InvitationsIInv
<1>1. UNCHANGED <<rfq, live, sending, thread, quote, chat, sendsCrossed>>
  BY DEF addToCart, removeFromCart
<1>2. cart' \subseteq Quotes
  BY RowsOfQuotes DEF addToCart, removeFromCart, QuoteStatuses
<1>3. SourcingTypeOK'
  BY <1>1 DEF SourcingTypeOK
<1>4. RequestHolds' /\ SendsHold' /\ ThreadsHold'
  BY <1>1, QuietStep
<1>5. MessagesHold' /\ QuotesHold' /\ Quotes' = Quotes
  BY <1>1, QuietTalk
<1> QED
  BY <1>2, <1>3, <1>4, <1>5

\* A listing leaves the market, a day passes, or nothing does.
LEMMA MarketStep ==
  ASSUME ConversationsIInv,
         (\E l \in Listings : leaveMarket(l)) \/ dayPasses \/ UNCHANGED sourcingVars
  PROVE  ConversationsIInv'
<1> USE DEF ConversationsIInv, InvitationsIInv
<1>1. live' \subseteq live /\ UNCHANGED <<rfq, sending, thread, quote, chat, cart, sendsCrossed>>
  BY DEF leaveMarket, dayPasses, sourcingVars
<1>2. SourcingTypeOK'
  BY <1>1 DEF SourcingTypeOK
<1>3. RequestHolds' /\ SendsHold' /\ ThreadsHold'
  BY <1>1, QuietStep
<1>4. MessagesHold' /\ QuotesHold' /\ Quotes' = Quotes
  BY <1>1, QuietTalk
<1> QED
  BY <1>1, <1>2, <1>3, <1>4

\* A step of the request: threads are added and none is taken away.
LEMMA RequestStep ==
  ASSUME ConversationsIInv,
         \/ \E f \in RfqForms : createRfqAction(f) \/ create(f)
         \/ close \/ cancel
         \/ \E s \in Senders : send(s) \/ sendTargets(s) \/ sendCommit(s)
  PROVE  ConversationsIInv'
<1>1. InvitationsIInv
  BY DEF ConversationsIInv
<1>2. InvitationsIInv'
  BY <1>1, DraftStep, EndStep, SendStep, TargetsStep, CommitStep
<1>3. UNCHANGED <<quote, chat, cart>> /\ thread \subseteq thread'
  BY DEF createRfqAction, create, close, cancel, send, sendTargets, sendCommit
<1>4. MessagesHold' /\ QuotesHold' /\ Quotes' = Quotes
  BY <1>3, QuietTalk
<1> QED
  BY <1>2, <1>3, <1>4 DEF ConversationsIInv

LEMMA SourcingStep == ConversationsIInv /\ [SourcingNext]_sourcingVars => ConversationsIInv'
<1> SUFFICES ASSUME ConversationsIInv, [SourcingNext]_sourcingVars PROVE ConversationsIInv'
  OBVIOUS
<1>1. ASSUME NEW f \in RfqForms, createRfqAction(f) \/ create(f) PROVE ConversationsIInv'
  BY <1>1, RequestStep
<1>2. CASE close \/ cancel
  BY <1>2, RequestStep
<1>3. ASSUME NEW s \in Senders, send(s) \/ sendTargets(s) \/ sendCommit(s)
      PROVE  ConversationsIInv'
  BY <1>3, RequestStep
<1>4. ASSUME NEW q \in QuoteRows, NEW o \in Suppliers, submitQuote(o, q)
      PROVE  ConversationsIInv'
  BY <1>4, SubmitStep
<1>5. ASSUME NEW q \in QuoteRows, NEW head \in Quotes, counterQuote(head, q)
      PROVE  ConversationsIInv'
  BY <1>5, CounterStep
<1>6. ASSUME NEW q \in QuoteRows, Settle(q, "WITHDRAWN") \/ Settle(q, "DECLINED")
      PROVE  ConversationsIInv'
  BY <1>6, SettleStep
<1>7. ASSUME NEW q \in QuoteRows, addToCart(q) \/ removeFromCart(q)
      PROVE  ConversationsIInv'
  BY <1>7, CartStep
<1>8. ASSUME NEW o \in Suppliers \cup {Buyer}, NEW t \in thread, writeInThread(o, t)
      PROVE  ConversationsIInv'
  BY <1>8, WriteStep
<1>9. CASE (\E l \in Listings : leaveMarket(l)) \/ dayPasses \/ UNCHANGED sourcingVars
  BY <1>9, MarketStep
<1> QED
  BY <1>1, <1>2, <1>3, <1>4, <1>5, <1>6, <1>7, <1>8, <1>9 DEF SourcingNext

LEMMA ConversationsInit == SourcingInit => ConversationsIInv
<1> SUFFICES ASSUME SourcingInit PROVE ConversationsIInv
  OBVIOUS
<1>1. InvitationsIInv
  BY InvitationsInit
<1>2. MessagesHold /\ QuotesHold /\ cart \subseteq Quotes
  BY DEF SourcingInit, MessagesHold, QuotesHold, Quotes
<1> QED
  BY <1>1, <1>2 DEF ConversationsIInv

-----------------------------------------------------------------------------
(* What the invariant gives *)

LEMMA InvitationsFollow == ConversationsIInv => InvitationsAreSound
<1> SUFFICES ASSUME ConversationsIInv PROVE InvitationsAreSound
  OBVIOUS
<1> USE DEF ConversationsIInv, InvitationsIInv
<1>1. ASSUME NEW t \in thread PROVE Fit(t)
  BY DEF ThreadsHold
<1>2. ~sendsCrossed => \A t, u \in thread : t.org = u.org => t = u
  BY DEF ThreadsHold, OneEach
<1> QED
  BY <1>1, <1>2 DEF InvitationsAreSound, RequestHolds, Fit

LEMMA ConversationsFollow == ConversationsIInv => ConversationsStayApart
<1> SUFFICES ASSUME ConversationsIInv PROVE ConversationsStayApart
  OBVIOUS
<1> USE DEF ConversationsIInv, InvitationsIInv
<1>1. \A m \in chat :
        /\ m.org \in {Buyer, m.thread.org}
        /\ m.quote # Absent => quote[m.quote].org = m.thread.org
  BY DEF MessagesHold
<1>2. ASSUME NEW o \in Suppliers PROVE listForRfq(o) = {q \in Quotes : quote[q].org = o}
  <2>1. o # Buyer
    BY SuppliersAssumption
  <2>2. \A q \in Quotes : quote[q].org = o => rfqForActor(o)
    BY DEF QuotesHold, InvitationOf, rfqForActor
  <2> QED
    BY <2>1, <2>2 DEF listForRfq
<1>3. ASSUME NEW o \in Suppliers, NEW t \in threadsForActor(o), NEW m \in chat, m.thread = t
      PROVE  m.org \in {Buyer, o}
  BY <1>3, SuppliersAssumption DEF threadsForActor, MessagesHold
<1>4. ASSUME NEW o \in Suppliers, NEW q \in listForRfq(o)
      PROVE  /\ Cardinality({m \in chat : m.quote = q}) = 1
             /\ ~sendsCrossed => \A t \in myThread(o) : Card(t, o, q) \in threadMessages(t)
  <2>1. q \in Quotes /\ quote[q].org = o
    BY <1>2
  <2>2. PICK u \in InvitationOf(o) : CardsOf(q) = {Card(u, o, q)}
    BY <2>1 DEF QuotesHold
  <2>3. Cardinality(CardsOf(q)) = 1
    BY <2>2, FS_Singleton, Zenon
  <2>4. Card(u, o, q) \in threadMessages(u)
    <3>1. Card(u, o, q) \in chat
      BY <2>2 DEF CardsOf
    <3> QED
      BY <3>1 DEF threadMessages, Card
  <2>5. ~sendsCrossed => \A t \in myThread(o) : t = u
    BY <2>2 DEF myThread, InvitationOf, ThreadsHold, OneEach
  <2> QED
    BY <2>3, <2>4, <2>5 DEF CardsOf
<1>5. cart \subseteq listForRfq(Buyer)
  BY DEF listForRfq, rfqForActor
<1> QED
  BY <1>1, <1>2, <1>3, <1>4, <1>5 DEF ConversationsStayApart

\* rfq-repository.ts:259, for any listings, suppliers and number of sends in
\* flight: a draft reached nobody, what went out reached somebody, never the
\* buyer, each supplier once unless sends crossed, and one found by matching
\* still fits with the best of what it has on the market.
THEOREM InvitationsHold == SourcingSpec => []InvitationsAreSound
  BY ConversationsInit, SourcingStep, InvitationsFollow, PTL DEF SourcingSpec

\* rfq-repository.ts:461, for any suppliers, quotes and messages: a supplier
\* reads its own quotes and conversations and nobody else's, and every quote is
\* one card there, in the thread shown unless two sends crossed.
THEOREM SuppliersStayApart == SourcingSpec => []ConversationsStayApart
  BY ConversationsInit, SourcingStep, ConversationsFollow, PTL DEF SourcingSpec

-----------------------------------------------------------------------------
(* Numbers and finite sets *)

\* Induction over the numbers, for a set: it has no number that is its least.
LEMMA SetInduction ==
    ASSUME NEW S, 0 \in S, \A n \in Nat : n \in S => n + 1 \in S
    PROVE  Nat \subseteq S
<1> SUFFICES ASSUME Nat \ S # {} PROVE FALSE
  OBVIOUS
<1> DEFINE R == OpToRel(<, Nat)
           T == Nat \ S
<1>1. IsWellFoundedOn(R, Nat)
  BY NatLessThanWellFounded
<1>2. \A a, b \in Nat : a < b => <<a, b>> \in R
  BY DEF OpToRel
<1> HIDE DEF R, T
<1>3. PICK x \in T : \A y \in T : ~(<<y, x>> \in R)
  <2>1. T \subseteq Nat /\ T # {}
    BY DEF T
  <2> QED
    BY <1>1, <2>1, WFMin
<1>4. x # 0 /\ x - 1 \in Nat /\ x \in Nat
  BY DEF T
<1>5. x - 1 \in S
  <2>1. <<x - 1, x>> \in R
    BY <1>2, <1>4 DEF T
  <2>2. x - 1 \notin T
    BY <1>3, <2>1
  <2> QED
    BY <1>4, <2>2 DEF T
<1> QED
  BY <1>4, <1>5 DEF T

\* Of finitely many things in an order one comes before the others.
LEMMA FirstOfFinite ==
    ASSUME NEW D, IsFiniteSet(D), D # {}, NEW R,
           \A x \in D : <<x, x>> \notin R,
           \A x, y, z \in D : <<x, y>> \in R /\ <<y, z>> \in R => <<x, z>> \in R
    PROVE  \E x \in D : \A y \in D : <<y, x>> \notin R
<1> DEFINE below(x) == {y \in D : <<y, x>> \in R}
           sizes == {Cardinality(below(x)) : x \in D}
<1>1. \A x \in D : IsFiniteSet(below(x)) /\ Cardinality(below(x)) \in Nat
  <2> TAKE x \in D
  <2>1. below(x) \subseteq D
    OBVIOUS
  <2> QED
    BY <2>1, FS_Subset, FS_CardinalityType
<1>2. sizes \subseteq Nat /\ sizes # {}
  <2> HIDE DEF below
  <2> QED
    BY <1>1
<1>3. PICK n \in sizes : \A k \in sizes : ~(<<k, n>> \in OpToRel(<, Nat))
  <2> HIDE DEF sizes
  <2> QED
    BY <1>2, WFMin, NatLessThanWellFounded
<1>4. PICK x \in D : n = Cardinality(below(x))
  OBVIOUS
<1>5. ASSUME NEW y \in D, <<y, x>> \in R PROVE FALSE
  <2>1. below(y) \subseteq below(x) /\ y \in below(x) /\ y \notin below(y)
    BY <1>5
  <2>2. Cardinality(below(y)) < Cardinality(below(x))
    <3> HIDE DEF below
    <3>1. below(y) # below(x)
      BY <2>1
    <3>2. Cardinality(below(y)) <= Cardinality(below(x)) /\ Cardinality(below(y)) # Cardinality(below(x))
      BY <1>1, <2>1, <3>1, FS_Subset
    <3> QED
      BY <1>1, <3>2
  <2> HIDE DEF below
  <2>3. \A a, b \in Nat : a < b => <<a, b>> \in OpToRel(<, Nat)
    BY DEF OpToRel
  <2>4. Cardinality(below(y)) \in sizes /\ Cardinality(below(y)) \in Nat /\ n \in Nat
    BY <1>1, <1>4
  <2>5. <<Cardinality(below(y)), n>> \in OpToRel(<, Nat)
    BY <1>4, <2>2, <2>3, <2>4, Zenon
  <2> QED
    BY <1>3, <2>4, <2>5
<1> QED
  BY <1>5

-----------------------------------------------------------------------------
(* The migration importer: its records and its deduplication *)

\* Two records of a file that hold something have different line numbers.
LEMMA LinesAreApart ==
    ASSUME NEW file \in ImportFiles
    PROVE  /\ Len(file) \in Nat /\ ValidRows(file) \subseteq 1..Len(file)
           /\ \A i, j \in ValidRows(file) : LineOf(file, i) = LineOf(file, j) => i = j
<1> DEFINE upTo(i) == {j \in NonEmpty(file) : j <= i}
<1>1. Len(file) \in Nat /\ NonEmpty(file) \subseteq 1..Len(file)
  BY ImportFilesAssumption DEF NonEmpty
<1>2. ValidRows(file) \subseteq NonEmpty(file)
  BY DEF ValidRows
<1>3. \A i : IsFiniteSet(upTo(i)) /\ Cardinality(upTo(i)) \in Nat
  <2> TAKE i
  <2>1. upTo(i) \subseteq 1..Len(file) /\ IsFiniteSet(1..Len(file))
    BY <1>1, FS_Interval
  <2> QED
    BY <2>1, FS_Subset, FS_CardinalityType
<1>4. ASSUME NEW i \in NonEmpty(file), NEW j \in NonEmpty(file), i < j
      PROVE  LineOf(file, i) # LineOf(file, j)
  <2>1. upTo(i) \subseteq upTo(j) /\ j \in upTo(j) /\ j \notin upTo(i)
    BY <1>1, <1>4
  <2> HIDE DEF upTo
  <2>2. Cardinality(upTo(i)) # Cardinality(upTo(j))
    BY <1>3, <2>1, FS_Subset
  <2> QED
    BY <2>2 DEF LineOf, upTo
<1>5. \A i, j \in NonEmpty(file) : i = j \/ i < j \/ j < i
  BY <1>1
<1> QED
  BY <1>1, <1>2, <1>4, <1>5

\* A merge has a target among the accepted rows: some row near it scores best.
LEMMA MergesHaveATarget ==
    ASSUME NEW row, NEW accepted, IsFiniteSet(DOMAIN accepted), DOMAIN accepted \subseteq Nat,
           \A i \in DOMAIN accepted :
             similarity(fingerprintRow(row), fingerprintRow(accepted[i])) \in 0..100,
           kindOf(row, accepted, Best(row, accepted)) = "MERGE"
    PROVE  Best(row, accepted) \in DOMAIN accepted
<1> DEFINE print == fingerprintRow(row)
           of == [i \in DOMAIN accepted |-> fingerprintRow(accepted[i])]
           near == {i \in DOMAIN accepted : Block(print, of[i]) # 0}
           first(i, j) == \/ Block(print, of[i]) < Block(print, of[j])
                          \/ Block(print, of[i]) = Block(print, of[j]) /\ i <= j
           best(i) == \A j \in near :
                        \/ scorePair(print, of[i]) > scorePair(print, of[j])
                        \/ scorePair(print, of[i]) = scorePair(print, of[j]) /\ first(i, j)
<1>1. Best(row, accepted) = IF near = {} THEN 0 ELSE CHOOSE i \in near : best(i)
  BY DEF Best
<1>2. Best(row, accepted) # 0
  BY DEF kindOf
<1>3. IsFiniteSet(near) /\ near \subseteq Nat /\ near # {}
  <2>1. near \subseteq DOMAIN accepted
    OBVIOUS
  <2> QED
    BY <1>1, <1>2, <2>1, FS_Subset
<1>4. \A i \in DOMAIN accepted : scorePair(print, of[i]) \in Int /\ Block(print, of[i]) \in Int
  <2> TAKE i \in DOMAIN accepted
  <2> DEFINE s == similarity(print, of[i])
  <2>1. s \in Int
    OBVIOUS
  <2>2. scorePair(print, of[i]) = 60 * s + (IF Same(print.city, of[i].city) THEN 1500 ELSE 0)
          + (IF Same(print.domain, of[i].domain) THEN 1500 ELSE 0)
          + (IF Same(print.phone, of[i].phone) THEN 1000 ELSE 0)
    BY DEF scorePair
  <2> HIDE DEF s
  <2>3. scorePair(print, of[i]) \in Int
    BY <2>1, <2>2
  <2>4. Block(print, of[i]) \in Int
    BY DEF Block
  <2> QED
    BY <2>3, <2>4
<1> DEFINE R == {p \in near \X near :
                   \/ scorePair(print, of[p[1]]) > scorePair(print, of[p[2]])
                   \/ scorePair(print, of[p[1]]) = scorePair(print, of[p[2]])
                        /\ first(p[1], p[2]) /\ p[1] # p[2]}
<1>5. /\ \A i, j \in near : <<i, j>> \in R <=>
           \/ scorePair(print, of[i]) > scorePair(print, of[j])
           \/ scorePair(print, of[i]) = scorePair(print, of[j]) /\ first(i, j) /\ i # j
      /\ \A i \in near : i \in Nat /\ scorePair(print, of[i]) \in Int /\ Block(print, of[i]) \in Int
  BY <1>3, <1>4
<1> HIDE DEF R, near, of, print
<1>6. /\ \A x \in near : <<x, x>> \notin R
      /\ \A x, y, z \in near : <<x, y>> \in R /\ <<y, z>> \in R => <<x, z>> \in R
  BY <1>5
<1>7. PICK x \in near : \A y \in near : <<y, x>> \notin R
  BY <1>3, <1>6, FirstOfFinite
<1>8. best(x)
  <2> SUFFICES ASSUME NEW y \in near
               PROVE  \/ scorePair(print, of[x]) > scorePair(print, of[y])
                      \/ scorePair(print, of[x]) = scorePair(print, of[y]) /\ first(x, y)
    OBVIOUS
  <2>1. /\ x \in Nat /\ scorePair(print, of[x]) \in Int /\ Block(print, of[x]) \in Int
        /\ y \in Nat /\ scorePair(print, of[y]) \in Int /\ Block(print, of[y]) \in Int
    BY <1>5
  <2>2. ~ \/ scorePair(print, of[y]) > scorePair(print, of[x])
          \/ scorePair(print, of[y]) = scorePair(print, of[x]) /\ first(y, x) /\ y # x
    <3> HIDE DEF first
    <3> QED
      BY <1>5, <1>7
  <2> QED
    BY <2>1, <2>2
<1>9. (CHOOSE i \in near : best(i)) \in near
  <2> HIDE DEF best
  <2> QED
    BY <1>8
<1> QED
  <2>1. near \subseteq DOMAIN accepted
    BY DEF near
  <2>2. Best(row, accepted) = CHOOSE i \in near : best(i)
    <3> HIDE DEF best
    <3> QED
      BY <1>1, <1>3
  <2> HIDE DEF best
  <2> QED
    BY <1>9, <2>1, <2>2

Offers(row) == row.categories \cup row.certifications
RowFields == {"line", "name", "city", "domain", "phone", "email", "about", "categories", "certifications",
              "repeated"}
IsRow(row) == row = [field \in RowFields |-> row[field]]

MergesOf(decisions) == {d \in decisions : d.decision = "MERGE"}
ReadBy(file, n) == {k \in ValidRows(file) : k <= n}

\* What became of a row that was read: the accepted row i speaks for it.
SpeaksFor(done, i, row) ==
    /\ \/ done.accepted[i].line = row.line
       \/ \E d \in MergesOf(done.decisions) :
            d.line = row.line /\ d.into = done.accepted[i].line
    /\ Offers(row) \subseteq Offers(done.accepted[i])
    /\ row.email # NoCell => done.accepted[i].email # NoCell

\* After n records: the accepted rows are valid ones that only gained, the
\* other valid ones were merged, and an accepted row speaks for each.
DedupSound(file, n, done) ==
    /\ DOMAIN done.accepted \subseteq ReadBy(file, n)
    /\ \A i \in DOMAIN done.accepted :
         /\ IsRow(done.accepted[i]) /\ done.accepted[i].line = LineOf(file, i)
         /\ fingerprintRow(done.accepted[i]) = fingerprintRow(ImportRow(file, i))
    /\ \A d \in MergesOf(done.decisions) :
         \E k \in ReadBy(file, n) \ DOMAIN done.accepted : d.line = LineOf(file, k)
    /\ \A k \in ReadBy(file, n) \ DOMAIN done.accepted :
         \E d \in MergesOf(done.decisions) : d.line = LineOf(file, k)
    /\ \A k \in ReadBy(file, n) :
         \E i \in DOMAIN done.accepted : SpeaksFor(done, i, ImportRow(file, k))

\* A canonical row keeps who it is and only gains.
LEMMA CanonicalGains ==
    ASSUME NEW row, IsRow(row), NEW duplicate
    PROVE  LET filled == backfillCanonical(row, duplicate)
           IN  /\ IsRow(filled) /\ filled.line = row.line
               /\ fingerprintRow(filled) = fingerprintRow(row)
               /\ Offers(filled) = Offers(row) \cup Offers(duplicate)
               /\ filled.email # NoCell <=> row.email # NoCell \/ duplicate.email # NoCell
<1> DEFINE filled == backfillCanonical(row, duplicate)
<1>1. /\ filled = [field \in RowFields |-> filled[field]]
      /\ filled.line = row.line /\ filled.name = row.name /\ filled.city = row.city
      /\ filled.domain = row.domain /\ filled.phone = row.phone
      /\ filled.email = IF row.email = NoCell THEN duplicate.email ELSE row.email
      /\ filled.categories = row.categories \cup duplicate.categories
      /\ filled.certifications = row.certifications \cup duplicate.certifications
  BY DEF IsRow, RowFields, backfillCanonical
<1> HIDE DEF filled
<1>2. IsRow(filled)
  BY <1>1 DEF IsRow
<1>3. fingerprintRow(filled) = fingerprintRow(row)
  BY <1>1 DEF fingerprintRow
<1>4. Offers(filled) = Offers(row) \cup Offers(duplicate)
  BY <1>1 DEF Offers
<1>5. filled.line = row.line /\ (filled.email # NoCell <=> row.email # NoCell \/ duplicate.email # NoCell)
  BY <1>1
<1> QED
  BY <1>2, <1>3, <1>4, <1>5 DEF filled

\* One more row, merged or accepted.
LEMMA DedupStep ==
    ASSUME NEW file \in ImportFiles, validateHeader(file), NEW n \in ValidRows(file),
           NEW done, DedupSound(file, n - 1, done)
    PROVE  DedupSound(file, n, dedupRow(done, n, ImportRow(file, n)))
<1> DEFINE row == ImportRow(file, n)
           after == dedupRow(done, n, row)
<1>1. /\ IsRow(row) /\ row.line = LineOf(file, n)
  BY DEF IsRow, RowFields, ImportRow
<1>2. /\ Len(file) \in Nat /\ ValidRows(file) \subseteq 1..Len(file) /\ n \in Nat
      /\ \A i, j \in ValidRows(file) : LineOf(file, i) = LineOf(file, j) => i = j
  BY LinesAreApart
<1>3. ReadBy(file, n) = ReadBy(file, n - 1) \cup {n} /\ n \notin ReadBy(file, n - 1)
  BY <1>2 DEF ReadBy
<1>4. /\ DOMAIN done.accepted \subseteq ReadBy(file, n - 1)
      /\ \A i \in DOMAIN done.accepted :
           /\ IsRow(done.accepted[i]) /\ done.accepted[i].line = LineOf(file, i)
           /\ fingerprintRow(done.accepted[i]) = fingerprintRow(ImportRow(file, i))
      /\ \A d \in MergesOf(done.decisions) :
           \E k \in ReadBy(file, n - 1) \ DOMAIN done.accepted : d.line = LineOf(file, k)
      /\ \A k \in ReadBy(file, n - 1) \ DOMAIN done.accepted :
           \E d \in MergesOf(done.decisions) : d.line = LineOf(file, k)
      /\ \A k \in ReadBy(file, n - 1) :
           \E i \in DOMAIN done.accepted : SpeaksFor(done, i, ImportRow(file, k))
  BY DEF DedupSound
<1> HIDE DEF row, after
<1>5. CASE kindOf(row, done.accepted, Best(row, done.accepted)) = "MERGE"
  <2> DEFINE best == Best(row, done.accepted)
             into == Decision("MERGE", row, done.accepted[best].line)
  <2>1. best \in DOMAIN done.accepted
    <3>0. ReadBy(file, n - 1) \subseteq ValidRows(file)
      BY DEF ReadBy
    <3>1. DOMAIN done.accepted \subseteq 1..Len(file)
      BY <1>2, <1>4, <3>0, Zenon
    <3>2. IsFiniteSet(DOMAIN done.accepted) /\ DOMAIN done.accepted \subseteq Nat
      <4>1. IsFiniteSet(1..Len(file))
        <5>1. Len(file) \in Int /\ 1 \in Int
          BY <1>2
        <5> QED
          BY <5>1, FS_Interval
      <4>2. 1..Len(file) \subseteq Nat
        BY <1>2
      <4> QED
        BY <3>1, <4>1, <4>2, FS_Subset
    <3>3. \A i \in DOMAIN done.accepted :
            similarity(fingerprintRow(row), fingerprintRow(done.accepted[i])) \in 0..100
      BY <1>4, SimilarityAssumption DEF ReadBy, row
    <3> QED
      BY <1>5, <3>2, <3>3, MergesHaveATarget
  <2> HIDE DEF best
  <2>2. /\ after.accepted =
             [done.accepted EXCEPT ![best] = backfillCanonical(done.accepted[best], row)]
        /\ after.decisions = done.decisions \cup {into}
    BY <1>5 DEF after, dedupRow, decided, Merging, best
  <2>3. into.decision = "MERGE" /\ into.line = row.line /\ into.into = done.accepted[best].line
    BY DEF Decision
  <2> HIDE DEF into
  <2>4. MergesOf(after.decisions) = MergesOf(done.decisions) \cup {into}
    BY <2>2, <2>3 DEF MergesOf
  <2>5. /\ DOMAIN after.accepted = DOMAIN done.accepted
        /\ after.accepted[best] = backfillCanonical(done.accepted[best], row)
        /\ \A i \in DOMAIN done.accepted : i # best => after.accepted[i] = done.accepted[i]
    BY <2>1, <2>2
  <2>6. LET filled == after.accepted[best] IN
        /\ IsRow(filled) /\ filled.line = done.accepted[best].line
        /\ fingerprintRow(filled) = fingerprintRow(done.accepted[best])
        /\ Offers(filled) = Offers(done.accepted[best]) \cup Offers(row)
        /\ filled.email # NoCell <=> done.accepted[best].email # NoCell \/ row.email # NoCell
    BY <1>4, <2>1, <2>5, CanonicalGains
  <2>7. \A i \in DOMAIN after.accepted :
          /\ IsRow(after.accepted[i]) /\ after.accepted[i].line = LineOf(file, i)
          /\ fingerprintRow(after.accepted[i]) = fingerprintRow(ImportRow(file, i))
    BY <1>4, <2>1, <2>5, <2>6
  <2>8. \A d \in MergesOf(after.decisions) :
          \E k \in ReadBy(file, n) \ DOMAIN after.accepted : d.line = LineOf(file, k)
    BY <1>1, <1>3, <1>4, <2>3, <2>4, <2>5
  <2>9. \A k \in ReadBy(file, n) \ DOMAIN after.accepted :
          \E d \in MergesOf(after.decisions) : d.line = LineOf(file, k)
    BY <1>1, <1>3, <1>4, <2>3, <2>4, <2>5
  <2>10. ASSUME NEW k \in ReadBy(file, n - 1)
         PROVE  \E i \in DOMAIN after.accepted : SpeaksFor(after, i, ImportRow(file, k))
    <3>1. PICK i \in DOMAIN done.accepted : SpeaksFor(done, i, ImportRow(file, k))
      BY <1>4
    <3>2. /\ after.accepted[i].line = done.accepted[i].line
          /\ Offers(done.accepted[i]) \subseteq Offers(after.accepted[i])
          /\ done.accepted[i].email # NoCell => after.accepted[i].email # NoCell
      BY <2>1, <2>5, <2>6
    <3>3. SpeaksFor(after, i, ImportRow(file, k))
      BY <2>4, <3>1, <3>2 DEF SpeaksFor
    <3> QED
      BY <2>5, <3>3
  <2>11. SpeaksFor(after, best, row)
    BY <2>3, <2>4, <2>6 DEF SpeaksFor
  <2> QED
    BY <1>3, <1>4, <2>1, <2>5, <2>7, <2>8, <2>9, <2>10, <2>11 DEF DedupSound, row, after
<1>6. CASE kindOf(row, done.accepted, Best(row, done.accepted)) # "MERGE"
  <2>1. /\ after.accepted = Accepting(done.accepted, n, row)
        /\ after.decisions = done.decisions \cup
             (IF kindOf(row, done.accepted, Best(row, done.accepted)) = "REVIEW"
              THEN {Decision("REVIEW", row, NoCell)} ELSE {})
    BY <1>6 DEF after, dedupRow, decided
  <2>2. Decision("REVIEW", row, NoCell).decision # "MERGE"
    BY DEF Decision
  <2>3. MergesOf(after.decisions) = MergesOf(done.decisions)
    BY <2>1, <2>2 DEF MergesOf
  <2>4. /\ DOMAIN after.accepted = DOMAIN done.accepted \cup {n} /\ after.accepted[n] = row
        /\ \A i \in DOMAIN done.accepted : after.accepted[i] = done.accepted[i]
    BY <1>3, <1>4, <2>1 DEF Accepting
  <2>5. \A i \in DOMAIN after.accepted :
          /\ IsRow(after.accepted[i]) /\ after.accepted[i].line = LineOf(file, i)
          /\ fingerprintRow(after.accepted[i]) = fingerprintRow(ImportRow(file, i))
    BY <1>1, <1>4, <2>4 DEF row
  <2>6. ReadBy(file, n) \ DOMAIN after.accepted = ReadBy(file, n - 1) \ DOMAIN done.accepted
    BY <1>3, <1>4, <2>4
  <2>7. ASSUME NEW k \in ReadBy(file, n - 1)
        PROVE  \E i \in DOMAIN after.accepted : SpeaksFor(after, i, ImportRow(file, k))
    <3>1. PICK i \in DOMAIN done.accepted : SpeaksFor(done, i, ImportRow(file, k))
      BY <1>4
    <3>2. SpeaksFor(after, i, ImportRow(file, k))
      BY <2>3, <2>4, <3>1 DEF SpeaksFor
    <3> QED
      BY <2>4, <3>2
  <2>8. SpeaksFor(after, n, row)
    BY <2>4 DEF SpeaksFor
  <2> QED
    BY <1>3, <1>4, <2>3, <2>4, <2>5, <2>6, <2>7, <2>8 DEF DedupSound, row, after
<1> QED
  BY <1>5, <1>6 DEF row, after

\* The whole file, record by record.
LEMMA DedupHolds ==
    ASSUME NEW file \in ImportFiles, validateHeader(file)
    PROVE  DedupSound(file, Len(file), dedup(file))
<1> DEFINE Read(n, before) ==
             IF n \in ValidRows(file) THEN dedupRow(before, n, ImportRow(file, n)) ELSE before
           Runs(g, k) == g = [n \in 0..k |-> IF n = 0 THEN NothingRead ELSE Read(n, g[n - 1])]
           S == {k \in Nat : \E g : Runs(g, k)}
           done[n \in 0..Len(file)] ==
             IF n = 0 THEN NothingRead
             ELSE IF n \in ValidRows(file) THEN dedupRow(done[n - 1], n, ImportRow(file, n))
             ELSE done[n - 1]
<1>1. Len(file) \in Nat /\ ValidRows(file) \subseteq 1..Len(file)
  BY LinesAreApart
<1>2. dedup(file) = done[Len(file)]
  BY DEF dedup
<1>3. done = CHOOSE g : Runs(g, Len(file))
  BY DEF Read
<1> HIDE DEF Read, done
<1>4. 0 \in S
  <2>1. Runs([n \in 0..0 |-> NothingRead], 0)
    OBVIOUS
  <2> QED
    BY <2>1
<1>5. ASSUME NEW k \in Nat, k \in S PROVE k + 1 \in S
  <2>1. PICK g : Runs(g, k)
    BY <1>5
  <2> DEFINE h == [n \in 0..(k + 1) |-> IF n = k + 1 THEN Read(k + 1, g[k]) ELSE g[n]]
  <2>2. Runs(h, k + 1)
    BY <2>1
  <2> HIDE DEF h, Runs
  <2> QED
    BY <2>2
<1>6. Runs(done, Len(file))
  <2>1. Len(file) \in S
    <3> HIDE DEF S
    <3> QED
      BY <1>1, <1>4, <1>5, SetInduction
  <2>2. \E g : Runs(g, Len(file))
    BY <2>1
  <2> HIDE DEF Runs
  <2> QED
    BY <1>3, <2>2
<1>7. done[0] = NothingRead /\ \A n \in 1..Len(file) : done[n] = Read(n, done[n - 1])
  BY <1>1, <1>6
<1> DEFINE T == {n \in Nat : n <= Len(file) => DedupSound(file, n, done[n])}
<1>8. 0 \in T
  <2>1. ReadBy(file, 0) = {}
    BY <1>1 DEF ReadBy
  <2>2. DOMAIN NothingRead.accepted = {} /\ MergesOf(NothingRead.decisions) = {}
    BY DEF NothingRead, MergesOf
  <2> QED
    BY <1>7, <2>1, <2>2 DEF DedupSound
<1>9. ASSUME NEW n \in Nat, n \in T PROVE n + 1 \in T
  <2> SUFFICES ASSUME n + 1 <= Len(file) PROVE DedupSound(file, n + 1, done[n + 1])
    OBVIOUS
  <2>1. DedupSound(file, n, done[n]) /\ n + 1 \in 1..Len(file) /\ (n + 1) - 1 = n
    BY <1>1, <1>9
  <2>2. done[n + 1] = Read(n + 1, done[n])
    BY <1>7, <2>1
  <2>3. CASE n + 1 \in ValidRows(file)
    BY <2>1, <2>2, <2>3, DedupStep DEF Read
  <2>4. CASE n + 1 \notin ValidRows(file)
    <3>1. ReadBy(file, n + 1) = ReadBy(file, n)
      BY <1>1, <2>4 DEF ReadBy
    <3> QED
      BY <2>1, <2>2, <2>4, <3>1 DEF Read, DedupSound
  <2> QED
    BY <2>3, <2>4
<1>10. Len(file) \in T
  <2> HIDE DEF T
  <2> QED
    BY <1>1, <1>8, <1>9, SetInduction
<1> QED
  BY <1>1, <1>2, <1>10

-----------------------------------------------------------------------------
(* The migration importer: the organizations it makes *)

OrgFields == {"line", "slug", "email", "status", "audited", "capabilities"}
IsOrg(o) == o = [field \in OrgFields |-> o[field]]

\* After n records: the organizations are those of the accepted rows, and no
\* two have a slug in common.
OrgsSound(accepted, n, orgs) ==
    /\ \A o \in orgs : \E i \in DOMAIN accepted : \E slug : i <= n /\ o = OrgRow(accepted[i], slug)
    /\ \A i \in DOMAIN accepted : i <= n => \E slug : OrgRow(accepted[i], slug) \in orgs
    /\ \A o, p \in orgs : o.slug = p.slug /\ o.slug # NoCell => o = p

\* What an organization has of its row.
LEMMA OrgOfRow ==
    ASSUME NEW row, NEW slug
    PROVE  LET o == OrgRow(row, slug)
           IN  /\ IsOrg(o) /\ o.line = row.line /\ o.slug = slug /\ o.email = row.email
               /\ o.status = "UNVERIFIED" /\ o.capabilities = Offers(row)
BY DEF OrgRow, IsOrg, OrgFields, Offers

\* One more organization: its slug is one that no earlier row has.
LEMMA OrgsStep ==
    ASSUME NEW accepted, NEW n \in Nat, n > 0, n \in DOMAIN accepted, DOMAIN accepted \subseteq Nat,
           NEW orgs, OrgsSound(accepted, n - 1, orgs)
    PROVE  OrgsSound(accepted, n, orgs \cup {OrgRow(accepted[n], SlugOf(accepted[n], Slugs(orgs)))})
<1> DEFINE slug == SlugOf(accepted[n], Slugs(orgs))
           made == OrgRow(accepted[n], slug)
<1>1. slug = NoCell \/ slug \notin Slugs(orgs)
  BY DEF SlugOf
<1> HIDE DEF slug
<1>2. made.slug = slug
  BY OrgOfRow
<1>3. \A o \in orgs : o.slug \in Slugs(orgs)
  BY DEF Slugs
<1>4. /\ \A o \in orgs : \E i \in DOMAIN accepted : \E s : i <= n - 1 /\ o = OrgRow(accepted[i], s)
      /\ \A i \in DOMAIN accepted : i <= n - 1 => \E s : OrgRow(accepted[i], s) \in orgs
      /\ \A o, p \in orgs : o.slug = p.slug /\ o.slug # NoCell => o = p
  BY DEF OrgsSound
<1>5. \A o \in orgs \cup {made} : \E i \in DOMAIN accepted : \E s : i <= n /\ o = OrgRow(accepted[i], s)
  <2>1. \A o \in orgs : \E i \in DOMAIN accepted : \E s : i <= n /\ o = OrgRow(accepted[i], s)
    <3> TAKE o \in orgs
    <3>1. PICK i \in DOMAIN accepted : \E s : i <= n - 1 /\ o = OrgRow(accepted[i], s)
      BY <1>4
    <3>2. i <= n
      BY <3>1
    <3> QED
      BY <3>1, <3>2
  <2>2. n <= n /\ made = OrgRow(accepted[n], slug)
    OBVIOUS
  <2> HIDE DEF made
  <2> QED
    BY <2>1, <2>2
<1>6. \A i \in DOMAIN accepted : i <= n => \E s : OrgRow(accepted[i], s) \in orgs \cup {made}
  <2> SUFFICES ASSUME NEW i \in DOMAIN accepted, i <= n
               PROVE  \E s : OrgRow(accepted[i], s) \in orgs \cup {made}
    OBVIOUS
  <2>1. CASE i = n
    BY <2>1
  <2>2. CASE i # n
    <3>1. i <= n - 1
      BY <2>2
    <3> QED
      BY <1>4, <3>1
  <2> QED
    BY <2>1, <2>2
<1> HIDE DEF made
<1>7. \A o, p \in orgs \cup {made} : o.slug = p.slug /\ o.slug # NoCell => o = p
  BY <1>1, <1>2, <1>3, <1>4
<1> QED
  BY <1>5, <1>6, <1>7 DEF OrgsSound, made, slug

\* All the organizations a file makes.
LEMMA OrgsHold ==
    ASSUME NEW file \in ImportFiles, validateHeader(file)
    PROVE  OrgsSound(dedup(file).accepted, Len(file), orgRows(dedup(file).accepted, Len(file)))
<1> DEFINE accepted == dedup(file).accepted
           Make(n, before) ==
             IF n \in DOMAIN accepted
             THEN before \cup {OrgRow(accepted[n], SlugOf(accepted[n], Slugs(before)))} ELSE before
           none == {}
           Runs(g, k) == g = [n \in 0..k |-> IF n = 0 THEN none ELSE Make(n, g[n - 1])]
           S == {k \in Nat : \E g : Runs(g, k)}
           made[n \in 0..Len(file)] ==
             IF n = 0 THEN {}
             ELSE IF n \in DOMAIN accepted
               THEN made[n - 1] \cup {OrgRow(accepted[n], SlugOf(accepted[n], Slugs(made[n - 1])))}
             ELSE made[n - 1]
<1>1. Len(file) \in Nat /\ DOMAIN accepted \subseteq 1..Len(file)
  <2>1. Len(file) \in Nat /\ ValidRows(file) \subseteq 1..Len(file)
    BY LinesAreApart
  <2>2. DOMAIN accepted \subseteq ValidRows(file)
    BY DedupHolds DEF DedupSound, ReadBy
  <2> QED
    BY <2>1, <2>2
<1>2. orgRows(dedup(file).accepted, Len(file)) = made[Len(file)]
  BY DEF orgRows
<1>3. made = CHOOSE g : Runs(g, Len(file))
  BY DEF Make, none
<1> HIDE DEF Make, made, none, accepted
<1>4. 0 \in S
  <2>1. Runs([n \in 0..0 |-> none], 0)
    OBVIOUS
  <2> QED
    BY <2>1
<1>5. ASSUME NEW k \in Nat, k \in S PROVE k + 1 \in S
  <2>1. PICK g : Runs(g, k)
    BY <1>5
  <2> DEFINE h == [n \in 0..(k + 1) |-> IF n = k + 1 THEN Make(k + 1, g[k]) ELSE g[n]]
  <2>2. Runs(h, k + 1)
    BY <2>1
  <2> HIDE DEF h, Runs
  <2> QED
    BY <2>2
<1>6. Runs(made, Len(file))
  <2>1. Len(file) \in S
    <3> HIDE DEF S
    <3> QED
      BY <1>1, <1>4, <1>5, SetInduction
  <2>2. \E g : Runs(g, Len(file))
    BY <2>1
  <2> HIDE DEF Runs
  <2> QED
    BY <1>3, <2>2
<1>7. made[0] = none /\ \A n \in 1..Len(file) : made[n] = Make(n, made[n - 1])
  BY <1>1, <1>6
<1> DEFINE T == {n \in Nat : n <= Len(file) => OrgsSound(accepted, n, made[n])}
<1>8. 0 \in T
  <2>1. \A i \in DOMAIN accepted : ~(i <= 0)
    BY <1>1
  <2> QED
    BY <1>7, <2>1 DEF OrgsSound, none
<1>9. ASSUME NEW n \in Nat, n \in T PROVE n + 1 \in T
  <2> SUFFICES ASSUME n + 1 <= Len(file) PROVE OrgsSound(accepted, n + 1, made[n + 1])
    OBVIOUS
  <2>1. OrgsSound(accepted, n, made[n]) /\ n + 1 \in 1..Len(file) /\ (n + 1) - 1 = n
    BY <1>1, <1>9
  <2>2. made[n + 1] = Make(n + 1, made[n])
    BY <1>7, <2>1
  <2>3. CASE n + 1 \in DOMAIN accepted
    <3>1. DOMAIN accepted \subseteq Nat
      BY <1>1
    <3>2. n + 1 \in Nat /\ n + 1 > 0
      OBVIOUS
    <3>3. OrgsSound(accepted, n + 1,
            made[n] \cup {OrgRow(accepted[n + 1], SlugOf(accepted[n + 1], Slugs(made[n])))})
      BY <2>1, <2>3, <3>1, <3>2, OrgsStep
    <3> QED
      BY <2>2, <2>3, <3>3 DEF Make
  <2>4. CASE n + 1 \notin DOMAIN accepted
    <3>1. \A i \in DOMAIN accepted : i <= n + 1 <=> i <= n
      BY <1>1, <2>4
    <3> QED
      BY <2>1, <2>2, <2>4, <3>1 DEF Make, OrgsSound
  <2> QED
    BY <2>3, <2>4
<1>10. Len(file) \in T
  <2> HIDE DEF T
  <2> QED
    BY <1>1, <1>8, <1>9, SetInduction
<1> QED
  BY <1>1, <1>2, <1>10 DEF accepted

ValidOf(file) == {ImportRow(file, n) : n \in ValidRows(file)}

\* o holds what the row's line, or the line it was merged into, stands for.
Stands(file, o, row) ==
    /\ \/ o.line = row.line
       \/ \E d \in MergesOf(Plans[file].decisions) : d.line = row.line /\ d.into = o.line
    /\ row.categories \cup row.certifications \subseteq o.capabilities
    /\ row.email # NoCell => o.email # NoCell

\* What a file's plan accounts for.
LEMMA PlansAccount ==
    ASSUME NEW file \in ImportFiles, validateHeader(file)
    PROVE  LET orgs == Plans[file].orgs
               merged == MergesOf(Plans[file].decisions)
           IN  /\ \A o \in orgs : IsOrg(o) /\ o.status = "UNVERIFIED"
               /\ NoCell \notin Slugs(orgs) => \A o, p \in orgs : o.slug = p.slug => o = p
               /\ Lines(orgs) \cup Lines(merged) = Lines(ValidOf(file))
               /\ Lines(orgs) \cap Lines(merged) = {}
               /\ \A row \in ValidOf(file) : \E o \in orgs : Stands(file, o, row)
<1> DEFINE orgs == Plans[file].orgs
           merged == MergesOf(Plans[file].decisions)
           accepted == dedup(file).accepted
           valid == ValidRows(file)
<1>1. /\ Plans[file].orgs = orgRows(dedup(file).accepted, Len(file)) /\ Plans[file].decisions = dedup(file).decisions
  BY DEF Plans
<1>2. /\ Len(file) \in Nat /\ valid \subseteq 1..Len(file)
      /\ \A i, j \in valid : LineOf(file, i) = LineOf(file, j) => i = j
  BY LinesAreApart
<1>3. ReadBy(file, Len(file)) = valid
  BY <1>2 DEF ReadBy
<1>4. /\ DOMAIN accepted \subseteq valid
      /\ \A i \in DOMAIN accepted : accepted[i].line = LineOf(file, i)
      /\ \A d \in merged : \E k \in valid \ DOMAIN accepted : d.line = LineOf(file, k)
      /\ \A k \in valid \ DOMAIN accepted : \E d \in merged : d.line = LineOf(file, k)
      /\ \A k \in valid : \E i \in DOMAIN accepted : SpeaksFor(dedup(file), i, ImportRow(file, k))
  <2>1. DedupSound(file, Len(file), dedup(file))
    BY DedupHolds
  <2> HIDE DEF valid
  <2> QED
    BY <1>1, <1>3, <2>1 DEF DedupSound
<1>5. OrgsSound(accepted, Len(file), orgs)
  BY <1>1, OrgsHold
<1>6. \A i \in DOMAIN accepted : i <= Len(file)
  BY <1>2, <1>4
<1> HIDE DEF orgs, merged, accepted, valid
<1>7. /\ \A o \in orgs : \E i \in DOMAIN accepted : \E slug : o = OrgRow(accepted[i], slug)
      /\ \A i \in DOMAIN accepted : \E slug : OrgRow(accepted[i], slug) \in orgs
      /\ \A o, p \in orgs : o.slug = p.slug /\ o.slug # NoCell => o = p
  BY <1>5, <1>6 DEF OrgsSound
<1>8. \A o \in orgs : IsOrg(o) /\ o.status = "UNVERIFIED"
  BY <1>7, OrgOfRow
<1>9. NoCell \notin Slugs(orgs) => \A o, p \in orgs : o.slug = p.slug => o = p
  BY <1>7 DEF Slugs
<1>10. Lines(orgs) = {LineOf(file, i) : i \in DOMAIN accepted}
  <2>1. \A o \in orgs : \E i \in DOMAIN accepted : o.line = LineOf(file, i)
    BY <1>4, <1>7, OrgOfRow
  <2>2. \A i \in DOMAIN accepted : \E o \in orgs : o.line = LineOf(file, i)
    <3> TAKE i \in DOMAIN accepted
    <3>1. PICK slug : OrgRow(accepted[i], slug) \in orgs
      BY <1>7
    <3>2. OrgRow(accepted[i], slug).line = LineOf(file, i)
      BY <1>4, OrgOfRow
    <3> QED
      BY <3>1, <3>2
  <2> QED
    BY <2>1, <2>2 DEF Lines
<1>11. Lines(merged) = {LineOf(file, k) : k \in valid \ DOMAIN accepted}
  BY <1>4 DEF Lines
<1>12. Lines(ValidOf(file)) = {LineOf(file, k) : k \in valid}
  <2>1. \A k \in valid : ImportRow(file, k).line = LineOf(file, k)
    BY DEF ImportRow
  <2> QED
    BY <2>1 DEF Lines, ValidOf, valid
<1>13. Lines(orgs) \cup Lines(merged) = Lines(ValidOf(file))
  BY <1>4, <1>10, <1>11, <1>12
<1>14. Lines(orgs) \cap Lines(merged) = {}
  <2> SUFFICES ASSUME NEW line \in Lines(orgs), line \in Lines(merged) PROVE FALSE
    OBVIOUS
  <2>1. PICK i \in DOMAIN accepted : line = LineOf(file, i)
    BY <1>10
  <2>2. PICK k \in valid \ DOMAIN accepted : line = LineOf(file, k)
    BY <1>11
  <2> QED
    BY <1>2, <1>4, <2>1, <2>2
<1>15. ASSUME NEW row \in ValidOf(file) PROVE \E o \in orgs : Stands(file, o, row)
  <2>1. PICK k \in valid : row = ImportRow(file, k)
    BY DEF ValidOf, valid
  <2>2. PICK i \in DOMAIN accepted : SpeaksFor(dedup(file), i, row)
    BY <1>4, <2>1
  <2>3. PICK slug : OrgRow(accepted[i], slug) \in orgs
    BY <1>7
  <2> DEFINE o == OrgRow(accepted[i], slug)
  <2>4. o.line = accepted[i].line /\ o.email = accepted[i].email /\ o.capabilities = Offers(accepted[i])
    BY OrgOfRow
  <2> HIDE DEF o
  <2>5. Stands(file, o, row)
    BY <1>1, <2>2, <2>4 DEF SpeaksFor, Stands, accepted, Offers
  <2> QED
    BY <2>3, <2>5 DEF o
<1> QED
  BY <1>8, <1>9, <1>13, <1>14, <1>15 DEF orgs, merged

-----------------------------------------------------------------------------
(* The migration importer: its calls *)

\* What the import invariant needs: a call reads a file that passed the
\* contract and whose loop for slugs ended; an organization is in the state its
\* import left it unless staff changed it and the log says so; what a call
\* committed is still there; and its alarm is staff's doing.
ImportRowsSound ==
    \A o \in organization : IsOrg(o) /\ (o.status # "UNVERIFIED" => o.audited)

CallReadsPlan(i) ==
    /\ importing[i].stage \in {"READ", "CHECK", "DONE", "ALARM"} =>
         /\ importing[i].file \in ImportFiles /\ validateHeader(importing[i].file)
         /\ NoCell \notin Slugs(Plans[importing[i].file].orgs)
    /\ importing[i].stage \in {"CHECK", "DONE", "ALARM"} =>
         \A q \in Plans[importing[i].file].orgs : \E o \in organization :
           o.line = q.line /\ o.email = q.email /\ o.capabilities = q.capabilities
    /\ importing[i].stage = "ALARM" =>
         \E o \in organization : o.line \in Lines(Plans[importing[i].file].orgs) /\ o.audited

CallsReadPlans == \A i \in Importers : CallReadsPlan(i)

ImportIInv ==
    /\ \A o, p \in organization : o.slug = p.slug => o = p
    /\ ImportRowsSound
    /\ CallsReadPlans
    /\ DOMAIN importing = Importers
    /\ \A i \in Importers : importing[i] = NotImporting
         \/ importing[i] = [stage |-> importing[i].stage, file |-> importing[i].file]

\* Organizations of a set are still there, and still the same to a call, in
\* another.
StillThere(before, after) ==
    \A o \in before : \E p \in after :
        /\ p.line = o.line /\ p.email = o.email /\ p.capabilities = o.capabilities
        /\ o.audited => p.audited

\* A call whose stage does not change is as sound as before when the rows stay.
LEMMA CallUntouched ==
    ASSUME CallsReadPlans, StillThere(organization, organization'),
           NEW i \in Importers, importing'[i] = importing[i]
    PROVE  CallReadsPlan(i)'
<1> DEFINE orgs == Plans[importing[i].file].orgs
<1>1. /\ importing[i].stage \in {"READ", "CHECK", "DONE", "ALARM"} =>
           /\ importing[i].file \in ImportFiles /\ validateHeader(importing[i].file)
           /\ NoCell \notin Slugs(orgs)
      /\ importing[i].stage \in {"CHECK", "DONE", "ALARM"} =>
           \A q \in orgs : \E o \in organization :
             o.line = q.line /\ o.email = q.email /\ o.capabilities = q.capabilities
      /\ importing[i].stage = "ALARM" => \E o \in organization : o.line \in Lines(orgs) /\ o.audited
  BY DEF CallsReadPlans, CallReadsPlan
<1> HIDE DEF orgs
<1>2. importing[i].stage \in {"CHECK", "DONE", "ALARM"} =>
        \A q \in orgs : \E o \in organization' :
          o.line = q.line /\ o.email = q.email /\ o.capabilities = q.capabilities
  <2> SUFFICES ASSUME importing[i].stage \in {"CHECK", "DONE", "ALARM"}, NEW q \in orgs
               PROVE  \E o \in organization' :
                        o.line = q.line /\ o.email = q.email /\ o.capabilities = q.capabilities
    OBVIOUS
  <2>1. PICK o \in organization :
          o.line = q.line /\ o.email = q.email /\ o.capabilities = q.capabilities
    BY <1>1
  <2> QED
    BY <2>1 DEF StillThere
<1>3. importing[i].stage = "ALARM" => \E o \in organization' : o.line \in Lines(orgs) /\ o.audited
  <2> SUFFICES ASSUME importing[i].stage = "ALARM"
               PROVE  \E o \in organization' : o.line \in Lines(orgs) /\ o.audited
    OBVIOUS
  <2>1. PICK o \in organization : o.line \in Lines(orgs) /\ o.audited
    BY <1>1
  <2> QED
    BY <2>1 DEF StillThere
<1> QED
  BY <1>1, <1>2, <1>3 DEF orgs, CallReadsPlan

\* The strengthening is inductive.
LEMMA ImportInductive == ImportIInv /\ [ImportNext]_importVars => ImportIInv'
<1> SUFFICES ASSUME ImportIInv, [ImportNext]_importVars PROVE ImportIInv'
  OBVIOUS
<1> USE DEF ImportIInv
<1>0. StillThere(organization, organization)
  BY DEF StillThere
<1>1. ASSUME NEW i \in Importers, Start(i) PROVE ImportIInv'
  <2>1. PICK file \in ImportFiles :
          importing' = [importing EXCEPT ![i] =
            [stage |-> IF ~validateHeader(file) THEN "REFUSED"
                       ELSE IF NoCell \in Slugs(Plans[file].orgs) THEN "LOOPING" ELSE "READ",
             file |-> file]]
    BY <1>1 DEF Start
  <2>2. organization' = organization
    BY <1>1 DEF Start
  <2>3. /\ DOMAIN importing' = Importers
        /\ importing'[i].file = file
        /\ importing'[i].stage = IF ~validateHeader(file) THEN "REFUSED"
              ELSE IF NoCell \in Slugs(Plans[file].orgs) THEN "LOOPING" ELSE "READ"
        /\ importing'[i] = [stage |-> importing'[i].stage, file |-> importing'[i].file]
        /\ \A k \in Importers : k # i => importing'[k] = importing[k]
    BY <2>1
  <2>4. CallsReadPlans'
    <3> SUFFICES ASSUME NEW k \in Importers PROVE CallReadsPlan(k)'
      BY DEF CallsReadPlans
    <3>1. CASE k = i
      BY <2>3, <3>1 DEF CallReadsPlan
    <3>2. CASE k # i
      BY <1>0, <2>2, <2>3, <3>2, CallUntouched
    <3> QED
      BY <3>1, <3>2
  <2> QED
    BY <2>2, <2>3, <2>4 DEF ImportRowsSound
<1>2. ASSUME NEW i \in Importers, importSuppliersCsv(i) PROVE ImportIInv'
  <2> DEFINE file == importing[i].file
             orgs == Plans[file].orgs
             taken == \/ ~Plans[file].unique
                      \/ \E o \in orgs, p \in organization : o.line = p.line \/ o.slug = p.slug
  <2>1. /\ importing[i].stage = "READ"
        /\ organization' = IF taken THEN organization ELSE organization \cup orgs
        /\ importing' = [importing EXCEPT ![i].stage = IF taken THEN "FAILED" ELSE "CHECK"]
    BY <1>2 DEF importSuppliersCsv
  <2>2. file \in ImportFiles /\ validateHeader(file) /\ NoCell \notin Slugs(orgs)
    BY <2>1 DEF CallsReadPlans, CallReadsPlan
  <2>3. /\ \A o \in orgs : IsOrg(o) /\ o.status = "UNVERIFIED"
        /\ \A o, p \in orgs : o.slug = p.slug => o = p
    BY <2>2, PlansAccount
  <2>4. importing[i] = [stage |-> importing[i].stage, file |-> importing[i].file]
    <3>1. NotImporting.stage = "IDLE"
      BY DEF NotImporting
    <3> QED
      BY <2>1, <3>1
  <2>5. /\ DOMAIN importing' = Importers
        /\ importing'[i].file = file
        /\ importing'[i].stage = IF taken THEN "FAILED" ELSE "CHECK"
        /\ importing'[i] = [stage |-> importing'[i].stage, file |-> importing'[i].file]
        /\ \A k \in Importers : k # i => importing'[k] = importing[k]
    <3> HIDE DEF taken
    <3>1. importing'[i] = [importing[i] EXCEPT !.stage = IF taken THEN "FAILED" ELSE "CHECK"]
      BY <2>1
    <3>2. importing'[i] = [stage |-> IF taken THEN "FAILED" ELSE "CHECK", file |-> file]
      BY <2>4, <3>1
    <3> QED
      BY <2>1, <3>2
  <2> HIDE DEF orgs
  <2>6. /\ \A o, p \in organization' : o.slug = p.slug => o = p
        /\ ImportRowsSound'
    BY <2>1, <2>3 DEF ImportRowsSound
  <2>7. StillThere(organization, organization')
    BY <2>1 DEF StillThere
  <2>8. CallsReadPlans'
    <3> SUFFICES ASSUME NEW k \in Importers PROVE CallReadsPlan(k)'
      BY DEF CallsReadPlans
    <3>1. CASE k = i
      <4> HIDE DEF taken
      <4>1. importing'[i].stage = "CHECK" => organization' = organization \cup orgs
        BY <2>1, <2>5
      <4>2. importing'[i].file = file /\ importing'[i].stage \in {"FAILED", "CHECK"}
        BY <2>5
      <4> QED
        BY <2>2, <3>1, <4>1, <4>2 DEF CallReadsPlan, orgs
    <3>2. CASE k # i
      BY <2>5, <2>7, <3>2, CallUntouched
    <3> QED
      BY <3>1, <3>2
  <2> QED
    BY <2>5, <2>6, <2>8
<1>3. ASSUME NEW i \in Importers, checkInvariant(i) PROVE ImportIInv'
  <2> DEFINE file == importing[i].file
             lines == {o.line : o \in Plans[file].orgs}
             profiles == {p \in organization : p.line \in lines}
             fine == \A p \in profiles : p.status = "UNVERIFIED"
  <2>1. /\ importing[i].stage = "CHECK" /\ organization' = organization
        /\ importing' = [importing EXCEPT ![i].stage = IF fine THEN "DONE" ELSE "ALARM"]
    BY <1>3 DEF checkInvariant
  <2>2. /\ file \in ImportFiles /\ validateHeader(file) /\ NoCell \notin Slugs(Plans[file].orgs)
        /\ \A q \in Plans[file].orgs : \E o \in organization :
             o.line = q.line /\ o.email = q.email /\ o.capabilities = q.capabilities
    BY <2>1 DEF CallsReadPlans, CallReadsPlan
  <2>3. importing[i] = [stage |-> importing[i].stage, file |-> importing[i].file]
    <3>1. NotImporting.stage = "IDLE"
      BY DEF NotImporting
    <3> QED
      BY <2>1, <3>1
  <2>4. ~fine => \E o \in organization : o.line \in Lines(Plans[file].orgs) /\ o.audited
    BY DEF ImportRowsSound, Lines
  <2> HIDE DEF fine
  <2>5. /\ DOMAIN importing' = Importers
        /\ importing'[i].file = file
        /\ importing'[i].stage = IF fine THEN "DONE" ELSE "ALARM"
        /\ importing'[i] = [stage |-> importing'[i].stage, file |-> importing'[i].file]
        /\ \A k \in Importers : k # i => importing'[k] = importing[k]
    <3>1. importing'[i] = [importing[i] EXCEPT !.stage = IF fine THEN "DONE" ELSE "ALARM"]
      BY <2>1
    <3>2. importing'[i] = [stage |-> IF fine THEN "DONE" ELSE "ALARM", file |-> file]
      BY <2>3, <3>1
    <3> QED
      BY <2>1, <3>2
  <2>6. CallsReadPlans'
    <3> SUFFICES ASSUME NEW k \in Importers PROVE CallReadsPlan(k)'
      BY DEF CallsReadPlans
    <3>1. CASE k = i
      BY <2>1, <2>2, <2>4, <2>5, <3>1 DEF CallReadsPlan
    <3>2. CASE k # i
      BY <1>0, <2>1, <2>5, <3>2, CallUntouched
    <3> QED
      BY <3>1, <3>2
  <2> QED
    BY <2>1, <2>5, <2>6 DEF ImportRowsSound
<1>4. ASSUME NEW o \in organization, NEW tier \in {"UNVERIFIED", "VERIFIED"}, staffSetsTier(o, tier)
      PROVE  ImportIInv'
  <2> DEFINE changed == [o EXCEPT !.status = tier, !.audited = TRUE]
  <2>1. organization' = (organization \ {o}) \cup {changed} /\ importing' = importing
    BY <1>4 DEF staffSetsTier
  <2>2. IsOrg(o)
    BY DEF ImportRowsSound
  <2>3. /\ IsOrg(changed) /\ changed.audited /\ changed.slug = o.slug /\ changed.line = o.line
        /\ changed.email = o.email /\ changed.capabilities = o.capabilities
    BY <2>2 DEF IsOrg, OrgFields
  <2> HIDE DEF changed
  <2>4. ImportRowsSound'
    BY <2>1, <2>3 DEF ImportRowsSound
  <2>5. \A p, q \in organization' : p.slug = q.slug => p = q
    BY <2>1, <2>3
  <2>6. StillThere(organization, organization')
    <3> SUFFICES ASSUME NEW p \in organization
                 PROVE  \E q \in organization' :
                          /\ q.line = p.line /\ q.email = p.email /\ q.capabilities = p.capabilities
                          /\ p.audited => q.audited
      BY DEF StillThere
    <3>1. CASE p = o
      BY <2>1, <2>3, <3>1
    <3>2. CASE p # o
      BY <2>1, <3>2
    <3> QED
      BY <3>1, <3>2
  <2>7. CallsReadPlans'
    BY <2>1, <2>6, CallUntouched DEF CallsReadPlans
  <2> QED
    BY <2>1, <2>4, <2>5, <2>7
<1>5. CASE UNCHANGED importVars
  BY <1>5 DEF importVars, ImportRowsSound, CallsReadPlans, CallReadsPlan
<1> QED
  BY <1>1, <1>2, <1>3, <1>4, <1>5 DEF ImportNext

\* The strengthening implies what docs/importer.md promises.
LEMMA ImportImplies == ImportIInv => EveryRowIsAccountedFor
<1> SUFFICES ASSUME ImportIInv PROVE EveryRowIsAccountedFor
  OBVIOUS
<1> SUFFICES ASSUME NEW i \in Importers, importing[i].stage \in {"CHECK", "DONE", "ALARM"}
             PROVE  LET file == importing[i].file
                        valid == readImportRows[file]
                        merged == {d \in Plans[file].decisions : d.decision = "MERGE"}
                    IN  /\ Lines(Plans[file].orgs) \cup Lines(merged) = Lines(valid)
                        /\ Lines(Plans[file].orgs) \cap Lines(merged) = {}
                        /\ \A row \in valid : \E o \in organization :
                             /\ o.line = row.line
                                  \/ \E d \in merged : d.line = row.line /\ d.into = o.line
                             /\ row.categories \cup row.certifications \subseteq o.capabilities
                             /\ row.email # NoCell => o.email # NoCell
                        /\ importing[i].stage = "ALARM" =>
                             \E o \in organization : o.line \in Lines(valid) /\ o.audited
  BY DEF EveryRowIsAccountedFor, ImportIInv
<1> DEFINE file == importing[i].file
           valid == readImportRows[file]
           merged == {d \in Plans[file].decisions : d.decision = "MERGE"}
           orgs == Plans[file].orgs
<1>1. /\ file \in ImportFiles /\ validateHeader(file) /\ NoCell \notin Slugs(orgs)
      /\ \A q \in orgs : \E o \in organization :
           o.line = q.line /\ o.email = q.email /\ o.capabilities = q.capabilities
      /\ importing[i].stage = "ALARM" =>
           \E o \in organization : o.line \in Lines(orgs) /\ o.audited
  BY DEF ImportIInv, CallsReadPlans, CallReadsPlan
<1>2. /\ valid = ValidOf(file) /\ merged = MergesOf(Plans[file].decisions)
  BY <1>1 DEF ValidOf, MergesOf, readImportRows
<1> HIDE DEF file, valid, merged, orgs
<1>3. /\ Lines(orgs) \cup Lines(merged) = Lines(valid)
      /\ Lines(orgs) \cap Lines(merged) = {}
      /\ \A row \in valid : \E o \in orgs : Stands(file, o, row)
  BY <1>1, <1>2, PlansAccount DEF orgs
<1>4. \A row \in valid : \E o \in organization :
        /\ o.line = row.line \/ \E d \in merged : d.line = row.line /\ d.into = o.line
        /\ row.categories \cup row.certifications \subseteq o.capabilities
        /\ row.email # NoCell => o.email # NoCell
  <2> TAKE row \in valid
  <2>1. PICK q \in orgs : Stands(file, q, row)
    BY <1>3
  <2>2. PICK o \in organization :
          o.line = q.line /\ o.email = q.email /\ o.capabilities = q.capabilities
    BY <1>1
  <2> QED
    BY <1>2, <2>1, <2>2 DEF Stands
<1> QED
  BY <1>1, <1>3, <1>4 DEF file, valid, merged, orgs

\* docs/importer.md: "all valid rows still import", once each.  Once an import
\* of packages/db/src/importer has committed, every valid row is an
\* organization or was merged into one that offers what it offered, whatever
\* staff and other imports did since; and the importer's alarm is only raised
\* over a profile that staff changed.
THEOREM RowsAreAccountedFor == ImportSpec => []EveryRowIsAccountedFor
<1>1. ImportInit => ImportIInv
  BY DEF ImportInit, ImportIInv, ImportRowsSound, CallsReadPlans, CallReadsPlan, NotImporting
<1> QED
  BY <1>1, ImportInductive, ImportImplies, PTL DEF ImportSpec

-----------------------------------------------------------------------------
(* The directory: the categories of a record *)

\* A score is a number.
LEMMA ScoreOfRecord ==
    ASSUME NEW record, NEW c \in Categories
    PROVE  categoryScore(record, c) \in Nat
<1>1. \A words : Hits(c, words) \in Nat
  BY TaxonomyAssumption, FS_Intersection, FS_CardinalityType DEF Hits, Categories
<1> QED
  BY <1>1 DEF categoryScore, FieldWeights

\* The order by score and card is total: the top of some categories is one of
\* them, and is before the others.
LEMMA TopIsFirst ==
    ASSUME NEW record, NEW among \in SUBSET Categories, among # {}
    PROVE  /\ topOf(record, among) \in among
           /\ \A c \in among : c # topOf(record, among) => RankedBefore(record, topOf(record, among), c)
           /\ \A c \in among : categoryScore(record, c) <= categoryScore(record, topOf(record, among))
<1> DEFINE R == {p \in among \X among : RankedBefore(record, p[1], p[2])}
<1>1. Categories \subseteq Nat /\ IsFiniteSet(Categories)
  <2>1. Categories = 1..Len(DiscoveryWords) /\ Len(DiscoveryWords) \in Nat
    BY TaxonomyAssumption DEF Categories
  <2> QED
    BY <2>1, FS_Interval
<1>2. IsFiniteSet(among)
  BY <1>1, FS_Subset
<1>3. \A c \in among : categoryScore(record, c) \in Nat /\ c \in Nat
  BY <1>1, ScoreOfRecord
<1>4. \A a, b \in among : <<a, b>> \in R <=> RankedBefore(record, a, b)
  OBVIOUS
<1> HIDE DEF R
<1>5. /\ \A a \in among : ~RankedBefore(record, a, a)
      /\ \A a, b, c \in among : RankedBefore(record, a, b) /\ RankedBefore(record, b, c)
                                  => RankedBefore(record, a, c)
      /\ \A a, b \in among : a # b => RankedBefore(record, a, b) \/ RankedBefore(record, b, a)
      /\ \A a, b \in among : RankedBefore(record, a, b) =>
                               categoryScore(record, b) <= categoryScore(record, a)
  BY <1>3 DEF RankedBefore
<1>6. \E c \in among : \A other \in among : <<other, c>> \notin R
  <2>1. \A a \in among : <<a, a>> \notin R
    BY <1>4, <1>5
  <2>2. \A a, b, c \in among : <<a, b>> \in R /\ <<b, c>> \in R => <<a, c>> \in R
    BY <1>4, <1>5
  <2> QED
    BY <1>2, <2>1, <2>2, FirstOfFinite
<1>7. /\ topOf(record, among) \in among
      /\ \A other \in among : ~RankedBefore(record, other, topOf(record, among))
  BY <1>4, <1>6 DEF topOf
<1> DEFINE top == topOf(record, among)
<1>8. top \in among /\ \A other \in among : ~RankedBefore(record, other, top)
  BY <1>7
<1> HIDE DEF top
<1>9. \A c \in among : c # top => RankedBefore(record, top, c)
  BY <1>5, <1>8
<1>10. \A c \in among : categoryScore(record, c) <= categoryScore(record, top)
  <2> TAKE c \in among
  <2>1. CASE c = top
    BY <1>3, <1>8, <2>1
  <2>2. CASE c # top
    BY <1>5, <1>8, <1>9, <2>2
  <2> QED
    BY <2>1, <2>2
<1> QED
  BY <1>8, <1>9, <1>10 DEF top

\* A record counts in its best categories.
LEMMA CategoriesAreBest ==
    ASSUME NEW record
    PROVE  BestCategories(record) /\ classifySupplier(record)[1] \in Categories
<1> DEFINE points(c) == categoryScore(record, c)
           top == topOf(record, Categories)
           main == primaryCategory(record)
           others == {c \in Categories \ {main} : points(c) >= 2}
           second == topOf(record, others)
           third == topOf(record, others \ {second})
           slugs == classifySupplier(record)
<1>1. otherGeneral \in Categories /\ Categories # {}
  BY TaxonomyAssumption DEF Categories, otherGeneral
<1>2. \A c \in Categories : points(c) \in Nat
  BY ScoreOfRecord
<1>3. top \in Categories /\ \A c \in Categories : points(c) <= points(top)
  BY <1>1, TopIsFirst
<1>4. main = IF points(top) > 0 THEN top ELSE otherGeneral
  BY DEF primaryCategory
<1>5. slugs = CASE others = {} -> <<main>>
                [] others # {} /\ others = {second} -> <<main, second>>
                [] OTHER -> <<main, second, third>>
  BY DEF classifySupplier
<1> HIDE DEF points, top, main, slugs
<1>6. main \in Categories /\ \A c \in Categories : points(c) <= points(main)
  BY <1>1, <1>2, <1>3, <1>4
<1>7. \A c : c \in others <=> c \in Categories /\ c # main /\ points(c) >= 2
  OBVIOUS
<1>8. others # {} => second \in others /\ \A c \in others : points(c) <= points(second)
  BY <1>7, TopIsFirst DEF points
<1>9. others \ {second} # {} => third \in others \ {second}
                                /\ \A c \in others \ {second} : points(c) <= points(third)
  BY <1>7, TopIsFirst DEF points
<1> HIDE DEF second, third, others
<1> DEFINE Fits == /\ Cardinality(ToSet(slugs)) = Len(slugs) /\ Len(slugs) \in 1..3
                   /\ slugs[1] = main
                   /\ \A c \in Categories \ ToSet(slugs) :
                        /\ \A k \in DOMAIN slugs : points(c) <= points(slugs[k])
                        /\ points(c) >= 2 => Len(slugs) = 3
<1>10. ASSUME others = {} PROVE Fits
  <2>1. slugs = <<main>>
    BY <1>5, <1>10
  <2>2. Len(slugs) = 1 /\ DOMAIN slugs = {1} /\ slugs[1] = main
    BY <2>1
  <2>3. ToSet(slugs) = {main}
    BY <2>2 DEF ToSet
  <2>4. Cardinality(ToSet(slugs)) = 1
    BY <2>3, FS_Singleton
  <2>5. \A c \in Categories \ {main} : points(c) <= points(main) /\ ~(points(c) >= 2)
    BY <1>2, <1>6, <1>7, <1>10
  <2> QED
    BY <2>2, <2>3, <2>4, <2>5
<1>11. ASSUME others # {} /\ others = {second} PROVE Fits
  <2>1. slugs = <<main, second>>
    BY <1>5, <1>11
  <2>2. Len(slugs) = 2 /\ DOMAIN slugs = {1, 2} /\ slugs[1] = main /\ slugs[2] = second
    BY <2>1
  <2>3. ToSet(slugs) = {main, second}
    BY <2>2 DEF ToSet
  <2>4. second # main /\ second \in Categories /\ points(second) >= 2
    BY <1>7, <1>8, <1>11
  <2>5. Cardinality(ToSet(slugs)) = 2
    <3>1. IsFiniteSet({main}) /\ Cardinality({main}) = 1
      BY FS_Singleton
    <3>2. Cardinality({main} \cup {second}) = 2
      <4> DEFINE one == {main}
      <4>1. second \notin one /\ IsFiniteSet(one) /\ Cardinality(one) = 1
        BY <2>4, <3>1
      <4> HIDE DEF one
      <4>2. Cardinality(one \cup {second}) = 1 + 1
        BY <4>1, FS_AddElement
      <4> QED
        BY <4>2 DEF one
    <3>3. {main} \cup {second} = {main, second}
      OBVIOUS
    <3> QED
      BY <2>3, <3>2, <3>3
  <2>6. \A c \in Categories \ {main, second} : ~(points(c) >= 2)
    BY <1>7, <1>11
  <2>7. \A c \in Categories \ {main, second} : points(c) <= points(main) /\ points(c) <= points(second)
    BY <1>2, <1>6, <2>4, <2>6
  <2> QED
    BY <2>2, <2>3, <2>5, <2>6, <2>7
<1>12. ASSUME others # {} /\ others # {second} PROVE Fits
  <2>1. slugs = <<main, second, third>>
    BY <1>5, <1>12
  <2>2. /\ Len(slugs) = 3 /\ DOMAIN slugs = {1, 2, 3}
        /\ slugs[1] = main /\ slugs[2] = second /\ slugs[3] = third
    BY <2>1
  <2>3. ToSet(slugs) = {main, second, third}
    BY <2>2 DEF ToSet
  <2>4. second \in others /\ third \in others \ {second}
    BY <1>8, <1>9, <1>12
  <2>5. /\ second # main /\ second \in Categories /\ points(second) >= 2
        /\ third # main /\ third # second /\ third \in Categories /\ points(third) >= 2
    BY <1>7, <2>4
  <2>6. Cardinality(ToSet(slugs)) = 3
    <3>1. IsFiniteSet({main}) /\ Cardinality({main}) = 1
      BY FS_Singleton
    <3>2. IsFiniteSet({main} \cup {second}) /\ Cardinality({main} \cup {second}) = 2
      <4> DEFINE one == {main}
      <4>1. second \notin one /\ IsFiniteSet(one) /\ Cardinality(one) = 1
        BY <2>5, <3>1
      <4> HIDE DEF one
      <4>2. IsFiniteSet(one \cup {second})
        BY <4>1, FS_AddElement
      <4>3. Cardinality(one \cup {second}) = 1 + 1
        BY <4>1, FS_AddElement
      <4> QED
        BY <4>2, <4>3 DEF one
    <3>3. Cardinality(({main} \cup {second}) \cup {third}) = 3
      <4> DEFINE two == {main} \cup {second}
      <4>1. third \notin two /\ IsFiniteSet(two) /\ Cardinality(two) = 2
        BY <2>5, <3>2
      <4> HIDE DEF two
      <4>2. Cardinality(two \cup {third}) = 2 + 1
        BY <4>1, FS_AddElement
      <4> QED
        BY <4>2 DEF two
    <3>4. ({main} \cup {second}) \cup {third} = {main, second, third}
      OBVIOUS
    <3> QED
      BY <2>3, <3>3, <3>4
  <2>7. ASSUME NEW c \in Categories \ {main, second, third}
        PROVE  points(c) <= points(main) /\ points(c) <= points(second) /\ points(c) <= points(third)
    <3>1. CASE c \in others
      BY <1>6, <1>8, <1>9, <2>4, <3>1
    <3>2. CASE c \notin others
      <4>1. ~(points(c) >= 2)
        BY <1>7, <3>2
      <4> QED
        BY <1>2, <1>6, <2>5, <4>1
    <3> QED
      BY <3>1, <3>2
  <2> QED
    BY <2>2, <2>3, <2>6, <2>7
<1>13. Fits
  <2> HIDE DEF Fits
  <2> QED
    BY <1>10, <1>11, <1>12
<1> QED
  BY <1>6, <1>13 DEF BestCategories, slugs, points

-----------------------------------------------------------------------------
(* The directory: lists, slugs and rows *)

NoneTwice(list) == \A i, j \in DOMAIN list : list[i] = list[j] => i = j

\* One more element, new to the list.
LEMMA AppendedOnce ==
    ASSUME NEW S, NEW list \in Seq(S), NoneTwice(list), NEW v \in S, v \notin ToSet(list)
    PROVE  Append(list, v) \in Seq(S) /\ NoneTwice(Append(list, v))
<1> DEFINE longer == Append(list, v)
<1>1. /\ longer \in Seq(S) /\ DOMAIN longer = 1..(Len(list) + 1) /\ Len(list) \in Nat
      /\ DOMAIN list = 1..Len(list)
      /\ longer[Len(list) + 1] = v /\ \A i \in 1..Len(list) : longer[i] = list[i]
  BY AppendProperties
<1> HIDE DEF longer
<1>2. \A i \in 1..Len(list) : list[i] # v
  BY <1>1 DEF ToSet
<1>3. NoneTwice(longer)
  <2> SUFFICES ASSUME NEW i \in DOMAIN longer, NEW j \in DOMAIN longer, longer[i] = longer[j]
               PROVE  i = j
    BY DEF NoneTwice
  <2>1. CASE i \in 1..Len(list) /\ j \in 1..Len(list)
    BY <1>1, <2>1 DEF NoneTwice
  <2>2. CASE i \notin 1..Len(list) /\ j \in 1..Len(list)
    <3>1. i = Len(list) + 1
      BY <1>1, <2>2
    <3> QED
      BY <1>1, <1>2, <2>2, <3>1
  <2>3. CASE i \in 1..Len(list) /\ j \notin 1..Len(list)
    <3>1. j = Len(list) + 1
      BY <1>1, <2>3
    <3> QED
      BY <1>1, <1>2, <2>3, <3>1
  <2>4. CASE i \notin 1..Len(list) /\ j \notin 1..Len(list)
    BY <1>1, <2>4
  <2> QED
    BY <2>1, <2>2, <2>3, <2>4
<1> QED
  BY <1>1, <1>3 DEF longer

\* A split list has nothing twice.
LEMMA SplitOnce ==
    ASSUME NEW values \in Seq(STRING)
    PROVE  splitList(values) \in Seq(STRING) /\ NoneTwice(splitList(values))
<1> DEFINE Keep(n, before) ==
             IF values[n] \in ToSet(before) THEN before ELSE Append(before, values[n])
           Runs(g, k) == g = [n \in 0..k |-> IF n = 0 THEN <<>> ELSE Keep(n, g[n - 1])]
           S == {k \in Nat : \E g : Runs(g, k)}
           kept[n \in 0..Len(values)] ==
             CASE n = 0 -> <<>>
               [] n > 0 /\ values[n] \in ToSet(kept[n - 1]) -> kept[n - 1]
               [] OTHER -> Append(kept[n - 1], values[n])
<1>1. Len(values) \in Nat /\ \A n \in 1..Len(values) : values[n] \in STRING
  OBVIOUS
<1>2. splitList(values) = kept[Len(values)]
  BY DEF splitList
<1>3. kept = CHOOSE g : Runs(g, Len(values))
  <2>1. \A g : [n \in 0..Len(values) |->
                  CASE n = 0 -> <<>>
                    [] n > 0 /\ values[n] \in ToSet(g[n - 1]) -> g[n - 1]
                    [] OTHER -> Append(g[n - 1], values[n])]
               = [n \in 0..Len(values) |-> IF n = 0 THEN <<>> ELSE Keep(n, g[n - 1])]
    <3> TAKE g
    <3>1. \A n \in 0..Len(values) :
            (CASE n = 0 -> <<>>
               [] n > 0 /\ values[n] \in ToSet(g[n - 1]) -> g[n - 1]
               [] OTHER -> Append(g[n - 1], values[n]))
            = IF n = 0 THEN <<>> ELSE Keep(n, g[n - 1])
      <4> TAKE n \in 0..Len(values)
      <4>1. CASE n = 0
        BY <4>1
      <4>2. CASE n > 0
        BY <4>2
      <4> QED
        BY <1>1, <4>1, <4>2
    <3> HIDE DEF Keep
    <3> QED
      BY <3>1, Zenon
  <2> HIDE DEF Keep
  <2> QED
    BY <2>1
<1> HIDE DEF Keep, kept
<1>4. 0 \in S
  <2>1. Runs([n \in 0..0 |-> <<>>], 0)
    OBVIOUS
  <2> QED
    BY <2>1
<1>5. ASSUME NEW k \in Nat, k \in S PROVE k + 1 \in S
  <2>1. PICK g : Runs(g, k)
    BY <1>5
  <2> DEFINE h == [n \in 0..(k + 1) |-> IF n = k + 1 THEN Keep(k + 1, g[k]) ELSE g[n]]
  <2>2. Runs(h, k + 1)
    BY <2>1
  <2> HIDE DEF h, Runs
  <2> QED
    BY <2>2
<1>6. Runs(kept, Len(values))
  <2>1. Len(values) \in S
    <3> HIDE DEF S
    <3> QED
      BY <1>1, <1>4, <1>5, SetInduction
  <2>2. \E g : Runs(g, Len(values))
    BY <2>1
  <2> HIDE DEF Runs
  <2> QED
    BY <1>3, <2>2
<1>7. kept[0] = <<>> /\ \A n \in 1..Len(values) : kept[n] = Keep(n, kept[n - 1])
  BY <1>1, <1>6
<1> DEFINE T == {n \in Nat : n <= Len(values) => kept[n] \in Seq(STRING) /\ NoneTwice(kept[n])}
<1>8. 0 \in T
  <2>1. <<>> \in Seq(STRING) /\ DOMAIN <<>> = {}
    OBVIOUS
  <2>2. kept[0] \in Seq(STRING) /\ NoneTwice(kept[0])
    BY <1>7, <2>1 DEF NoneTwice
  <2> QED
    BY <2>2
<1>9. ASSUME NEW n \in Nat, n \in T PROVE n + 1 \in T
  <2> SUFFICES ASSUME n + 1 <= Len(values)
               PROVE  kept[n + 1] \in Seq(STRING) /\ NoneTwice(kept[n + 1])
    OBVIOUS
  <2>1. /\ kept[n] \in Seq(STRING) /\ NoneTwice(kept[n]) /\ n + 1 \in 1..Len(values)
        /\ kept[n + 1] = Keep(n + 1, kept[n])
    BY <1>1, <1>7, <1>9
  <2>2. values[n + 1] \in STRING
    BY <1>1, <2>1
  <2> QED
    BY <2>1, <2>2, AppendedOnce DEF Keep
<1>10. Len(values) \in T
  <2> HIDE DEF T
  <2> QED
    BY <1>1, <1>8, <1>9, SetInduction
<1> QED
  BY <1>1, <1>2, <1>10

\* What slugs are joined from.
Part == STRING \cup {"supplier"}

\* A slug is new: of as many ordinals as slugs are taken and one more, one is
\* free.
LEMMA SlugIsNew ==
    ASSUME NEW name \in Name, NEW state \in STRING \cup {Blank}, NEW taken, IsFiniteSet(taken),
           2..(Cardinality(taken) + 2) \subseteq DOMAIN Ordinal
    PROVE  supplierSlug(name, state, taken) \in Seq(Part) \ taken
<1> DEFINE base == Base(name)
           byOrdinal(n) == Append(base, Ordinal[n])
           places == 2..(Cardinality(taken) + 2)
           free == {n \in places : byOrdinal(n) \notin taken}
           first == CHOOSE n \in free : \A m \in free : n <= m
<1>1. base \in Seq(Part)
  <2>1. name.base \in Seq(Part)
    <3>1. name.base \in Seq(Part) /\ STRING \subseteq Part
      BY DEF Name, Part
    <3> QED
      BY <3>1, SeqMonotonic
  <2>2. base = name.base \/ base = <<"supplier">>
    BY DEF Base
  <2>3. <<"supplier">> \in Seq(Part)
    <3>1. "supplier" \in Part
      BY DEF Part
    <3>2. \A S : \A s \in S : <<s>> \in Seq(S)
      OBVIOUS
    <3> QED
      BY <3>1, <3>2, Zenon
  <2> HIDE DEF base
  <2> QED
    BY <2>1, <2>2, <2>3
<1> HIDE DEF base
<1>2. \A n \in places : Ordinal[n] \in Part
  BY OrdinalAssumption DEF Part
<1>3. Cardinality(taken) \in Nat
  BY FS_CardinalityType
<1>4. \A m, n \in places : byOrdinal(m) = byOrdinal(n) => m = n
  <2> SUFFICES ASSUME NEW m \in places, NEW n \in places, byOrdinal(m) = byOrdinal(n) PROVE m = n
    OBVIOUS
  <2>1. Append(base, Ordinal[m])[Len(base) + 1] = Ordinal[m]
    BY <1>1, <1>2, AppendProperties
  <2>2. Append(base, Ordinal[n])[Len(base) + 1] = Ordinal[n]
    BY <1>1, <1>2, AppendProperties
  <2> QED
    BY <2>1, <2>2, OrdinalAssumption
<1>5. free # {}
  <2> SUFFICES ASSUME free = {} PROVE FALSE
    OBVIOUS
  <2> DEFINE f == [n \in places |-> byOrdinal(n)]
  <2>1. f \in [places -> taken]
    OBVIOUS
  <2>2. \A m, n \in places : f[m] = f[n] => m = n
    BY <1>4
  <2>3. IsFiniteSet(places) /\ Cardinality(places) = Cardinality(taken) + 1
    BY <1>3, FS_Interval
  <2> HIDE DEF f, places
  <2>4. Cardinality(taken) < Cardinality(places)
    BY <1>3, <2>3
  <2>5. \E m, n \in places : m # n /\ f[m] = f[n]
    BY <2>1, <2>3, <2>4, FS_PigeonHole
  <2> QED
    BY <2>2, <2>5
<1>6. free \subseteq Nat
  BY <1>3
<1>7. \E n \in free : \A m \in free : n <= m
  <2> HIDE DEF free
  <2>1. PICK n \in free : \A m \in free : ~(<<m, n>> \in OpToRel(<, Nat))
    BY <1>5, <1>6, WFMin, NatLessThanWellFounded
  <2>2. \A a, b \in Nat : a < b => <<a, b>> \in OpToRel(<, Nat)
    BY DEF OpToRel
  <2>3. \A m \in free : ~(m < n) /\ m \in Nat /\ n \in Nat
    BY <1>6, <2>1, <2>2, Zenon
  <2>4. \A m \in free : n <= m
    BY <2>3
  <2> QED
    BY <2>4
<1>8. first \in free
  <2> HIDE DEF free
  <2> QED
    BY <1>7
<1> HIDE DEF first
<1>9. first \in places /\ byOrdinal(first) \notin taken
  BY <1>8
<1>10. byOrdinal(first) \in Seq(Part)
  BY <1>1, <1>2, <1>9, AppendProperties
<1>11. supplierSlug(name, state, taken) =
         CASE base \notin taken -> base
           [] base \in taken /\ state # Blank /\ Append(base, state) \notin taken -> Append(base, state)
           [] OTHER -> byOrdinal(first)
  BY DEF supplierSlug, base, first
<1>12. state # Blank => Append(base, state) \in Seq(Part)
  BY <1>1, AppendProperties DEF Part
<1> HIDE DEF byOrdinal
<1> QED
  BY <1>1, <1>9, <1>10, <1>11, <1>12

-----------------------------------------------------------------------------
(* The directory: a file and its rows *)

NamedRecords == {record \in SourceRecord : NameOf(record) # Blank}
DirectoryRows == {RowOf(record, slug) : record \in NamedRecords, slug \in Seq(Part)}

SlugsDiffer(rows) == \A i, j \in DOMAIN rows : rows[i].slug = rows[j].slug => i = j

\* What the reading of a file has after each record.
ReadSoFar(file, read) ==
    /\ read[0] = <<>>
    /\ \A n \in 1..Len(file) :
         read[n] = IF NameOf(file[n]) = Blank THEN read[n - 1]
                   ELSE Append(read[n - 1],
                               RowOf(file[n], supplierSlug(NameOf(file[n]), file[n].state,
                                                           SlugsOf(read[n - 1]))))

\* What a row says.
LEMMA RowIsSound ==
    ASSUME NEW row \in DirectoryRows
    PROVE  /\ row.name.rank \in Int /\ row.tier \in Int
           /\ row.supplierTypes \in Seq(STRING) /\ NoneTwice(row.supplierTypes)
           /\ row.categorySlugs[1] \in Categories
<1>1. PICK record \in NamedRecords, slug \in Seq(Part) : row = RowOf(record, slug)
  BY DEF DirectoryRows
<1>2. record \in SourceRecord /\ NameOf(record) # Blank
  BY DEF NamedRecords
<1>3. /\ record.tier \in Int /\ record.types \in Seq(STRING)
      /\ record.company \in Name \cup {Blank} /\ record.dba \in Name \cup {Blank}
      /\ record.place \in Name \cup {Blank}
  BY <1>2 DEF SourceRecord
<1>4. NameOf(record) \in Name
  BY <1>2, <1>3 DEF NameOf
<1>5. /\ row.name = NameOf(record) /\ row.tier = record.tier
      /\ row.supplierTypes = splitList(record.types) /\ row.categorySlugs = classifySupplier(record)
  BY <1>1 DEF RowOf
<1>6. row.name.rank \in Int
  BY <1>4, <1>5 DEF Name
<1> QED
  BY <1>3, <1>5, <1>6, SplitOnce, CategoriesAreBest

\* The reading of a file, record by record.
LEMMA FileIsReadInOrder ==
    ASSUME NEW file \in SourceFiles
    PROVE  \E read : ReadSoFar(file, read) /\ FileRows[file] = read[Len(file)]
<1> DEFINE Read(n, before) ==
             IF NameOf(file[n]) = Blank THEN before
             ELSE Append(before, RowOf(file[n], supplierSlug(NameOf(file[n]), file[n].state,
                                                             SlugsOf(before))))
           Runs(g, k) == g = [n \in 0..k |-> IF n = 0 THEN <<>> ELSE Read(n, g[n - 1])]
           S == {k \in Nat : \E g : Runs(g, k)}
           rows[n \in 0..Len(file)] ==
             CASE n = 0 -> <<>>
               [] n > 0 /\ NameOf(file[n]) = Blank -> rows[n - 1]
               [] OTHER -> Append(rows[n - 1],
                                  RowOf(file[n], supplierSlug(NameOf(file[n]), file[n].state,
                                                              SlugsOf(rows[n - 1]))))
<1>1. Len(file) \in Nat
  BY FilesAssumption
<1>2. FileRows[file] = rows[Len(file)]
  BY DEF FileRows, readPlatformSupplierRows
<1>3. rows = CHOOSE g : Runs(g, Len(file))
  <2>1. ASSUME NEW g, NEW n \in 0..Len(file)
        PROVE  (CASE n = 0 -> <<>>
                  [] n > 0 /\ NameOf(file[n]) = Blank -> g[n - 1]
                  [] OTHER -> Append(g[n - 1],
                                     RowOf(file[n], supplierSlug(NameOf(file[n]), file[n].state,
                                                                 SlugsOf(g[n - 1])))))
               = IF n = 0 THEN <<>> ELSE Read(n, g[n - 1])
    <3>1. CASE n = 0
      BY <3>1
    <3>2. CASE n > 0
      BY <3>2
    <3> QED
      BY <1>1, <3>1, <3>2
  <2>2. \A g : [n \in 0..Len(file) |->
                  CASE n = 0 -> <<>>
                    [] n > 0 /\ NameOf(file[n]) = Blank -> g[n - 1]
                    [] OTHER -> Append(g[n - 1],
                                       RowOf(file[n], supplierSlug(NameOf(file[n]), file[n].state,
                                                                   SlugsOf(g[n - 1]))))]
               = [n \in 0..Len(file) |-> IF n = 0 THEN <<>> ELSE Read(n, g[n - 1])]
    <3> HIDE DEF Read
    <3> QED
      BY <2>1, Zenon
  <2> HIDE DEF Read
  <2> QED
    BY <2>2
<1> HIDE DEF Read, rows
<1>4. 0 \in S
  <2>1. Runs([n \in 0..0 |-> <<>>], 0)
    OBVIOUS
  <2> QED
    BY <2>1
<1>5. ASSUME NEW k \in Nat, k \in S PROVE k + 1 \in S
  <2>1. PICK g : Runs(g, k)
    BY <1>5
  <2> DEFINE h == [n \in 0..(k + 1) |-> IF n = k + 1 THEN Read(k + 1, g[k]) ELSE g[n]]
  <2>2. Runs(h, k + 1)
    BY <2>1
  <2> HIDE DEF h, Runs
  <2> QED
    BY <2>2
<1>6. Runs(rows, Len(file))
  <2>1. Len(file) \in S
    <3> HIDE DEF S
    <3> QED
      BY <1>1, <1>4, <1>5, SetInduction
  <2>2. \E g : Runs(g, Len(file))
    BY <2>1
  <2> HIDE DEF Runs
  <2> QED
    BY <1>3, <2>2
<1>7. rows[0] = <<>> /\ \A n \in 1..Len(file) : rows[n] = Read(n, rows[n - 1])
  BY <1>1, <1>6
<1>8. ReadSoFar(file, rows)
  BY <1>7 DEF ReadSoFar, Read
<1> QED
  BY <1>2, <1>8

\* A record of a file adds a row under a slug of its own.
LEMMA RowIsAppended ==
    ASSUME NEW rows \in Seq(DirectoryRows), SlugsDiffer(rows),
           IsFiniteSet(SlugsOf(rows)), Cardinality(SlugsOf(rows)) = Len(rows),
           NEW file \in SourceFiles, NEW n \in 1..Len(file), Len(rows) < n, NameOf(file[n]) # Blank
    PROVE  LET slug == supplierSlug(NameOf(file[n]), file[n].state, SlugsOf(rows))
               longer == Append(rows, RowOf(file[n], slug))
           IN  /\ longer \in Seq(DirectoryRows) /\ SlugsDiffer(longer)
               /\ Len(longer) = Len(rows) + 1 /\ \A i \in 1..Len(rows) : longer[i] = rows[i]
               /\ IsFiniteSet(SlugsOf(longer)) /\ Cardinality(SlugsOf(longer)) = Len(longer)
<1> DEFINE slug == supplierSlug(NameOf(file[n]), file[n].state, SlugsOf(rows))
           row == RowOf(file[n], slug)
           longer == Append(rows, row)
<1>1. file[n] \in SourceRecord /\ Len(file) \in Nat
  BY FilesAssumption
<1>2. NameOf(file[n]) \in Name /\ file[n].state \in STRING \cup {Blank}
  <2>1. /\ file[n].company \in Name \cup {Blank} /\ file[n].dba \in Name \cup {Blank}
        /\ file[n].place \in Name \cup {Blank} /\ file[n].state \in STRING \cup {Blank}
    BY <1>1 DEF SourceRecord
  <2> QED
    BY <2>1 DEF NameOf
<1>3. slug \in Seq(Part) \ SlugsOf(rows)
  <2>1. 2..(Cardinality(SlugsOf(rows)) + 2) \subseteq DOMAIN Ordinal
    <3>1. 2..(Len(file) + 1) \subseteq DOMAIN Ordinal
      BY OrdinalAssumption
    <3>2. Len(rows) + 2 <= Len(file) + 1 /\ Len(rows) \in Nat
      BY <1>1
    <3>3. 2..(Len(rows) + 2) \subseteq 2..(Len(file) + 1)
      BY <1>1, <3>2
    <3> QED
      BY <3>1, <3>3
  <2> QED
    BY <1>2, <2>1, SlugIsNew
<1> HIDE DEF slug
<1>4. row \in DirectoryRows /\ row.slug = slug
  <2>1. file[n] \in NamedRecords
    BY <1>1 DEF NamedRecords
  <2>2. row \in DirectoryRows
    BY <1>3, <2>1 DEF DirectoryRows
  <2> QED
    BY <2>2 DEF RowOf
<1> HIDE DEF row
<1>5. /\ longer \in Seq(DirectoryRows) /\ Len(longer) = Len(rows) + 1 /\ Len(rows) \in Nat
      /\ DOMAIN longer = 1..(Len(rows) + 1) /\ DOMAIN rows = 1..Len(rows)
      /\ longer[Len(rows) + 1] = row /\ \A i \in 1..Len(rows) : longer[i] = rows[i]
  BY <1>4, AppendProperties
<1> HIDE DEF longer
<1>6. SlugsOf(longer) = SlugsOf(rows) \cup {slug}
  <2>1. \A i \in 1..Len(rows) : longer[i].slug = rows[i].slug
    BY <1>5
  <2>2. longer[Len(rows) + 1].slug = slug
    BY <1>4, <1>5
  <2>3. 1..(Len(rows) + 1) = 1..Len(rows) \cup {Len(rows) + 1}
    BY <1>5, SMTT(40)
  <2>4. SlugsOf(longer) = {longer[i].slug : i \in 1..Len(rows)} \cup {longer[Len(rows) + 1].slug}
    BY <1>5, <2>3, ZenonT(60) DEF SlugsOf
  <2>5. SlugsOf(rows) = {longer[i].slug : i \in 1..Len(rows)}
    BY <1>5, <2>1 DEF SlugsOf
  <2> QED
    BY <2>2, <2>4, <2>5
<1>7. IsFiniteSet(SlugsOf(longer)) /\ Cardinality(SlugsOf(longer)) = Len(longer)
  BY <1>3, <1>5, <1>6, FS_AddElement, SMTT(40)
<1>8. \A i \in 1..Len(rows) : rows[i].slug # slug
  BY <1>3, <1>5 DEF SlugsOf
<1>9. SlugsDiffer(longer)
  <2> SUFFICES ASSUME NEW i \in DOMAIN longer, NEW j \in DOMAIN longer, longer[i].slug = longer[j].slug
               PROVE  i = j
    BY DEF SlugsDiffer
  <2>1. CASE i \in 1..Len(rows) /\ j \in 1..Len(rows)
    BY <1>5, <2>1 DEF SlugsDiffer
  <2>2. CASE i \notin 1..Len(rows) /\ j \in 1..Len(rows)
    <3>1. i = Len(rows) + 1
      BY <1>5, <2>2
    <3> QED
      BY <1>4, <1>5, <1>8, <2>2, <3>1
  <2>3. CASE i \in 1..Len(rows) /\ j \notin 1..Len(rows)
    <3>1. j = Len(rows) + 1
      BY <1>5, <2>3
    <3> QED
      BY <1>4, <1>5, <1>8, <2>3, <3>1
  <2>4. CASE i \notin 1..Len(rows) /\ j \notin 1..Len(rows)
    BY <1>5, <2>4
  <2> QED
    BY <2>1, <2>2, <2>3, <2>4
<1> QED
  BY <1>5, <1>7, <1>9 DEF longer, row, slug

\* After any number of records: rows under different slugs, and no more rows
\* than records.
LEMMA RowsAreRead ==
    ASSUME NEW file \in SourceFiles, NEW read, ReadSoFar(file, read)
    PROVE  \A n \in 0..Len(file) :
             /\ read[n] \in Seq(DirectoryRows) /\ SlugsDiffer(read[n]) /\ Len(read[n]) <= n
             /\ IsFiniteSet(SlugsOf(read[n])) /\ Cardinality(SlugsOf(read[n])) = Len(read[n])
<1> DEFINE Sound(n) ==
             /\ read[n] \in Seq(DirectoryRows) /\ SlugsDiffer(read[n]) /\ Len(read[n]) <= n
             /\ IsFiniteSet(SlugsOf(read[n])) /\ Cardinality(SlugsOf(read[n])) = Len(read[n])
           T == {n \in Nat : n <= Len(file) => Sound(n)}
<1>1. Len(file) \in Nat
  BY FilesAssumption
<1>2. 0 \in T
  <2>1. read[0] = <<>>
    BY DEF ReadSoFar
  <2>2. DOMAIN read[0] = {} /\ Len(read[0]) = 0 /\ read[0] \in Seq(DirectoryRows)
    BY <2>1
  <2>3. SlugsOf(read[0]) = {}
    BY <2>2 DEF SlugsOf
  <2>4. SlugsDiffer(read[0])
    BY <2>2 DEF SlugsDiffer
  <2>5. IsFiniteSet(SlugsOf(read[0])) /\ Cardinality(SlugsOf(read[0])) = 0
    BY <2>3, FS_EmptySet
  <2>6. Sound(0)
    BY <2>2, <2>4, <2>5
  <2> QED
    BY <2>6
<1>3. ASSUME NEW n \in Nat, n \in T PROVE n + 1 \in T
  <2> SUFFICES ASSUME n + 1 <= Len(file) PROVE Sound(n + 1)
    OBVIOUS
  <2>1. Sound(n) /\ n + 1 \in 1..Len(file) /\ (n + 1) - 1 = n
    BY <1>1, <1>3
  <2>2. read[n + 1] = IF NameOf(file[n + 1]) = Blank THEN read[n]
                      ELSE Append(read[n], RowOf(file[n + 1],
                             supplierSlug(NameOf(file[n + 1]), file[n + 1].state, SlugsOf(read[n]))))
    BY <2>1 DEF ReadSoFar
  <2>3. CASE NameOf(file[n + 1]) = Blank
    BY <2>1, <2>2, <2>3
  <2>4. CASE NameOf(file[n + 1]) # Blank
    <3>1. Len(read[n]) < n + 1 /\ Len(read[n]) \in Nat
      BY <2>1
    <3>2. /\ read[n + 1] \in Seq(DirectoryRows) /\ SlugsDiffer(read[n + 1])
          /\ Len(read[n + 1]) = Len(read[n]) + 1
          /\ IsFiniteSet(SlugsOf(read[n + 1])) /\ Cardinality(SlugsOf(read[n + 1])) = Len(read[n + 1])
      BY <2>1, <2>2, <2>4, <3>1, RowIsAppended
    <3> QED
      BY <3>1, <3>2
  <2> QED
    BY <2>3, <2>4
<1>4. Nat \subseteq T
  <2> HIDE DEF T
  <2> QED
    BY <1>2, <1>3, SetInduction
<1>5. \A n \in 0..Len(file) : Sound(n)
  BY <1>1, <1>4
<1> QED
  BY <1>5

\* A sequence begins with another.
LEMMA PrefixMeans ==
    ASSUME NEW S, NEW s \in Seq(S), NEW t \in Seq(S)
    PROVE  IsPrefix(s, t) <=> Len(s) <= Len(t) /\ \A i \in 1..Len(s) : t[i] = s[i]
<1>1. Len(s) \in Nat /\ Len(t) \in Nat
  OBVIOUS
<1>2. SubSeq(s, 1, Len(s)) = s
  BY SubSeqFull
<1>3. ASSUME Len(s) <= Len(t)
      PROVE  /\ SubSeq(t, 1, Len(s)) \in Seq(S) /\ Len(SubSeq(t, 1, Len(s))) = Len(s)
             /\ \A i \in 1..Len(s) : SubSeq(t, 1, Len(s))[i] = t[i]
  <2>1. \A i \in 1..Len(s) : t[i] \in S
    BY <1>1, <1>3
  <2>2. /\ SubSeq(t, 1, Len(s)) \in Seq(S)
        /\ Len(SubSeq(t, 1, Len(s))) = IF 1 <= Len(s) THEN Len(s) - 1 + 1 ELSE 0
        /\ \A i \in 1..(Len(s) - 1 + 1) : SubSeq(t, 1, Len(s))[i] = t[1 + i - 1]
    BY <1>1, <2>1, SubSeqProperties
  <2>3. Len(s) - 1 + 1 = Len(s) /\ \A i \in 1..Len(s) : 1 + i - 1 = i
    BY <1>1
  <2> QED
    BY <1>1, <2>2, <2>3
<1>4. ASSUME IsPrefix(s, t) PROVE Len(s) <= Len(t) /\ \A i \in 1..Len(s) : t[i] = s[i]
  BY <1>2, <1>3, <1>4 DEF IsPrefix
<1>5. ASSUME Len(s) <= Len(t), \A i \in 1..Len(s) : t[i] = s[i] PROVE IsPrefix(s, t)
  <2>1. SubSeq(t, 1, Len(s)) = s
    BY <1>3, <1>5, SeqEqual
  <2> QED
    BY <1>2, <1>5, <2>1 DEF IsPrefix
<1> QED
  BY <1>4, <1>5

\* A file that appends to another keeps the rows above.
LEMMA LongerFileKeepsRows ==
    ASSUME NEW file \in SourceFiles, NEW longer \in SourceFiles, IsPrefix(file, longer)
    PROVE  IsPrefix(FileRows[file], FileRows[longer])
<1>1. PICK a : ReadSoFar(file, a) /\ FileRows[file] = a[Len(file)]
  BY FileIsReadInOrder
<1>2. PICK b : ReadSoFar(longer, b) /\ FileRows[longer] = b[Len(longer)]
  BY FileIsReadInOrder
<1>3. file \in Seq(SourceRecord) /\ longer \in Seq(SourceRecord)
  BY FilesAssumption
<1>4. /\ Len(file) \in Nat /\ Len(longer) \in Nat /\ Len(file) <= Len(longer)
      /\ \A i \in 1..Len(file) : longer[i] = file[i]
  BY <1>3, PrefixMeans
<1> DEFINE T == {n \in Nat : n <= Len(file) => a[n] = b[n]}
<1>5. 0 \in T
  BY <1>1, <1>2 DEF ReadSoFar
<1>6. ASSUME NEW n \in Nat, n \in T PROVE n + 1 \in T
  <2> SUFFICES ASSUME n + 1 <= Len(file) PROVE a[n + 1] = b[n + 1]
    OBVIOUS
  <2>1. /\ n + 1 \in 1..Len(file) /\ n + 1 \in 1..Len(longer) /\ (n + 1) - 1 = n
        /\ a[n] = b[n] /\ longer[n + 1] = file[n + 1]
    BY <1>4, <1>6
  <2>2. a[n + 1] = IF NameOf(file[n + 1]) = Blank THEN a[n]
                   ELSE Append(a[n], RowOf(file[n + 1],
                          supplierSlug(NameOf(file[n + 1]), file[n + 1].state, SlugsOf(a[n]))))
    BY <1>1, <2>1 DEF ReadSoFar
  <2>3. b[n + 1] = IF NameOf(longer[n + 1]) = Blank THEN b[n]
                   ELSE Append(b[n], RowOf(longer[n + 1],
                          supplierSlug(NameOf(longer[n + 1]), longer[n + 1].state, SlugsOf(b[n]))))
    BY <1>2, <2>1 DEF ReadSoFar
  <2> QED
    BY <2>1, <2>2, <2>3
<1>7. a[Len(file)] = b[Len(file)]
  <2>1. Nat \subseteq T
    <3> HIDE DEF T
    <3> QED
      BY <1>5, <1>6, SetInduction
  <2> QED
    BY <1>4, <2>1
<1>8. \A n \in 0..Len(longer) :
        /\ b[n] \in Seq(DirectoryRows) /\ SlugsDiffer(b[n]) /\ Len(b[n]) <= n
        /\ IsFiniteSet(SlugsOf(b[n])) /\ Cardinality(SlugsOf(b[n])) = Len(b[n])
  BY <1>2, RowsAreRead
<1> DEFINE rows == b[Len(file)]
           Keeps(n) == Len(rows) <= Len(b[n]) /\ \A i \in 1..Len(rows) : b[n][i] = rows[i]
           U == {n \in Nat : Len(file) + n <= Len(longer) => Keeps(Len(file) + n)}
<1>9. 0 \in U
  BY <1>4, <1>8
<1>10. ASSUME NEW n \in Nat, n \in U PROVE n + 1 \in U
  <2> SUFFICES ASSUME Len(file) + (n + 1) <= Len(longer) PROVE Keeps(Len(file) + (n + 1))
    OBVIOUS
  <2> DEFINE m == Len(file) + n
  <2>1. /\ m \in Nat /\ m + 1 \in 1..Len(longer) /\ m \in 0..Len(longer) /\ (m + 1) - 1 = m
        /\ Len(file) + (n + 1) = m + 1 /\ Keeps(m)
    BY <1>4, <1>10
  <2> HIDE DEF m
  <2>2. b[m + 1] = IF NameOf(longer[m + 1]) = Blank THEN b[m]
                   ELSE Append(b[m], RowOf(longer[m + 1],
                          supplierSlug(NameOf(longer[m + 1]), longer[m + 1].state, SlugsOf(b[m]))))
    BY <1>2, <2>1 DEF ReadSoFar
  <2>3. Len(rows) \in Nat /\ Len(b[m]) \in Nat
    BY <1>4, <1>8, <2>1
  <2>4. CASE NameOf(longer[m + 1]) = Blank
    BY <2>1, <2>2, <2>4
  <2>5. CASE NameOf(longer[m + 1]) # Blank
    <3>1. Len(b[m]) < m + 1
      BY <1>8, <2>1, <2>3
    <3>2. Len(b[m + 1]) = Len(b[m]) + 1 /\ \A i \in 1..Len(b[m]) : b[m + 1][i] = b[m][i]
      BY <1>8, <2>1, <2>2, <2>5, <3>1, RowIsAppended
    <3>3. Keeps(m + 1)
      BY <2>1, <2>3, <3>2
    <3> QED
      BY <2>1, <3>3
  <2> QED
    BY <2>4, <2>5
<1>11. Keeps(Len(longer))
  <2>1. Nat \subseteq U
    <3> HIDE DEF U
    <3> QED
      BY <1>9, <1>10, SetInduction
  <2>2. Len(longer) - Len(file) \in Nat /\ Len(file) + (Len(longer) - Len(file)) = Len(longer)
    BY <1>4
  <2> QED
    BY <2>1, <2>2
<1>12. rows \in Seq(DirectoryRows) /\ b[Len(longer)] \in Seq(DirectoryRows)
  BY <1>4, <1>8
<1> QED
  BY <1>1, <1>2, <1>7, <1>11, <1>12, PrefixMeans

\* The rows of a file: each under a slug of its own.
LEMMA RowsOfFile ==
    ASSUME NEW file \in SourceFiles
    PROVE  /\ FileRows[file] \in Seq(DirectoryRows) /\ SlugsDiffer(FileRows[file])
           /\ IsFiniteSet(SlugsOf(FileRows[file]))
           /\ FileIsRead(file, FileRows[file])
<1>1. PICK read : ReadSoFar(file, read) /\ FileRows[file] = read[Len(file)]
  BY FileIsReadInOrder
<1>2. Len(file) \in 0..Len(file)
  BY FilesAssumption
<1>3. /\ FileRows[file] \in Seq(DirectoryRows) /\ SlugsDiffer(FileRows[file])
      /\ IsFiniteSet(SlugsOf(FileRows[file])) /\ Cardinality(SlugsOf(FileRows[file])) = Len(FileRows[file])
  BY <1>1, <1>2, RowsAreRead
<1> QED
  BY <1>3, CategoriesAreBest, LongerFileKeepsRows DEF FileIsRead

-----------------------------------------------------------------------------
(* The directory: runs of the import *)

\* The first n rows are in the directory as they are.
Landed(rows, n) ==
    \A i \in 1..n : rows[i].slug \in DOMAIN directory /\ directory[rows[i].slug] = rows[i]

EntriesAreRows ==
    /\ IsFiniteSet(DOMAIN directory)
    /\ \A slug \in DOMAIN directory : directory[slug] \in DirectoryRows

\* What a run knows: its file's rows, how far it is, and, while nothing
\* crosses it, that what it committed is still there.
FeedHolds(r) ==
    LET run == feed[r]
    IN  /\ {"at", "crossed"} \subseteq DOMAIN run
        /\ run.file \in SourceFiles /\ run.rows = FileRows[run.file]
        /\ run.at \in 0..Len(run.rows)
        /\ run.again => SlugsOf(run.rows) \subseteq run.existing
        /\ ~run.crossed => Landed(run.rows, run.at) /\ \A q \in Running : q = r

ReportHolds ==
    report # Blank =>
        /\ Running = {}
        /\ report.file \in SourceFiles /\ report.rows = FileRows[report.file]
        /\ Landed(report.rows, Len(report.rows))
        /\ report.again => report.created = 0

DirectoryIInv ==
    /\ DOMAIN feed = FeedRuns
    /\ EntriesAreRows /\ ReportHolds
    /\ \A r \in Running : FeedHolds(r)

LEMMA DirectoryInitially == DirectoryInit => DirectoryIInv
<1> SUFFICES ASSUME DirectoryInit PROVE DirectoryIInv
  OBVIOUS
<1>1. DOMAIN feed = FeedRuns /\ Running = {}
  BY DEF DirectoryInit, Running
<1>2. EntriesAreRows
  <2>1. DOMAIN directory = {}
    BY DEF DirectoryInit
  <2> QED
    BY <2>1, FS_EmptySet DEF EntriesAreRows
<1>3. ReportHolds
  BY DEF DirectoryInit, ReportHolds
<1> QED
  BY <1>1, <1>2, <1>3 DEF DirectoryIInv

\* A run that starts knows the slugs there are, and crosses those under way.
LEMMA StartKeepsDirectory ==
    ASSUME DirectoryIInv, NEW r \in FeedRuns, startFeed(r)
    PROVE  DirectoryIInv'
<1>1. PICK file \in SourceFiles :
        feed' = [c \in FeedRuns |->
                   IF c = r THEN [stage |-> "RUNNING", file |-> file, at |-> 0,
                                  rows |-> FileRows[file],
                                  existing |-> DOMAIN directory,
                                  crossed |-> Running # {},
                                  again |-> report # Blank /\ report.file = file]
                   ELSE IF c \in Running THEN [feed[c] EXCEPT !.crossed = TRUE] ELSE feed[c]]
  BY DEF startFeed
<1>2. r \notin Running /\ report' = Blank /\ directory' = directory
  BY DEF startFeed
<1>3. DOMAIN feed' = FeedRuns /\ EntriesAreRows' /\ ReportHolds'
  BY <1>1, <1>2 DEF DirectoryIInv, EntriesAreRows, ReportHolds
<1>4. \A c \in Running' : c = r \/ c \in Running
  BY <1>1 DEF Running
<1>5. FeedHolds(r)'
  <2>0. {"at", "crossed"} \subseteq DOMAIN feed'[r]
    BY <1>1
  <2>1. /\ feed'[r].file = file /\ feed'[r].rows = FileRows[file] /\ feed'[r].at = 0
        /\ feed'[r].existing = DOMAIN directory /\ feed'[r].crossed = (Running # {})
        /\ feed'[r].again = (report # Blank /\ report.file = file)
    BY <1>1
  <2>2. 0 \in 0..Len(FileRows[file])
    <3>1. Len(FileRows[file]) \in Nat
      BY RowsOfFile
    <3> QED
      BY <3>1
  <2>3. report # Blank /\ report.file = file => SlugsOf(FileRows[file]) \subseteq DOMAIN directory
    <3> SUFFICES ASSUME report # Blank, report.file = file, NEW i \in DOMAIN FileRows[file]
                 PROVE  FileRows[file][i].slug \in DOMAIN directory
      BY DEF SlugsOf
    <3>1. DOMAIN FileRows[file] = 1..Len(FileRows[file])
      BY RowsOfFile
    <3> QED
      BY <3>1 DEF DirectoryIInv, ReportHolds, Landed
  <2>4. Landed(FileRows[file], 0)'
    BY DEF Landed
  <2>5. feed'[r].crossed = FALSE => \A q \in Running' : q = r
    BY <1>4, <2>1
  <2>6. Landed(feed[r].rows, feed[r].at)'
    BY <2>1, <2>4 DEF Landed
  <2> QED
    BY <2>0, <2>1, <2>2, <2>3, <2>5, <2>6 DEF FeedHolds
<1>6. ASSUME NEW c \in Running, c # r PROVE FeedHolds(c)'
  <2>1. feed'[c] = [feed[c] EXCEPT !.crossed = TRUE] /\ c \in FeedRuns
    BY <1>1, <1>6 DEF Running
  <2>2. FeedHolds(c)
    BY <1>6 DEF DirectoryIInv
  <2>3. /\ feed'[c].file = feed[c].file /\ feed'[c].rows = feed[c].rows /\ feed'[c].at = feed[c].at
        /\ DOMAIN feed'[c] = DOMAIN feed[c]
        /\ feed'[c].again = feed[c].again /\ feed'[c].existing = feed[c].existing
    BY <2>1
  <2>4. feed'[c].crossed
    BY <2>1, <2>2 DEF FeedHolds
  <2> QED
    BY <2>2, <2>3, <2>4 DEF FeedHolds
<1> QED
  BY <1>3, <1>4, <1>5, <1>6 DEF DirectoryIInv

\* A batch lands under its rows' slugs and leaves the other entries alone.
LEMMA BatchLands ==
    ASSUME NEW rows \in Seq(DirectoryRows), SlugsDiffer(rows),
           NEW from \in 0..Len(rows), NEW to \in from..Len(rows)
    PROVE  LET after == Upserted(SubSeq(rows, from + 1, to))
           IN  /\ \A slug : slug \in DOMAIN after <=>
                    slug \in DOMAIN directory \/ \E i \in (from + 1)..to : slug = rows[i].slug
               /\ \A i \in (from + 1)..to : after[rows[i].slug] = rows[i]
               /\ \A slug \in DOMAIN directory :
                    (\A i \in (from + 1)..to : slug # rows[i].slug) => after[slug] = directory[slug]
<1> DEFINE batch == SubSeq(rows, from + 1, to)
           after == Upserted(batch)
           last(slug) == CHOOSE i \in DOMAIN batch : batch[i].slug = slug
                           /\ \A j \in DOMAIN batch : batch[j].slug = slug => j <= i
<1>1. Len(rows) \in Nat /\ from \in Nat /\ to \in Nat /\ DOMAIN rows = 1..Len(rows)
  OBVIOUS
<1>2. /\ DOMAIN batch = 1..(to - from)
      /\ \A i \in 1..(to - from) : batch[i] = rows[from + i]
  <2>1. \A i \in (from + 1)..to : rows[i] \in DirectoryRows
    BY <1>1
  <2>2. /\ batch \in Seq(DirectoryRows)
        /\ Len(batch) = IF from + 1 <= to THEN to - (from + 1) + 1 ELSE 0
        /\ \A i \in 1..(to - (from + 1) + 1) : batch[i] = rows[(from + 1) + i - 1]
    BY <1>1, <2>1, SubSeqProperties
  <2>3. /\ to - (from + 1) + 1 = to - from
        /\ \A i \in 1..(to - from) : (from + 1) + i - 1 = from + i
        /\ Len(batch) = to - from
    BY <1>1, <2>2
  <2> QED
    BY <2>2, <2>3, LenProperties
<1> HIDE DEF batch
<1>3. \A slug : slug \in SlugsOf(batch) <=> \E i \in (from + 1)..to : slug = rows[i].slug
  <2> TAKE slug
  <2>1. ASSUME NEW k \in DOMAIN batch PROVE from + k \in (from + 1)..to /\ batch[k] = rows[from + k]
    BY <1>1, <1>2
  <2>2. ASSUME NEW i \in (from + 1)..to PROVE i - from \in DOMAIN batch /\ batch[i - from] = rows[i]
    <3>1. i - from \in 1..(to - from) /\ from + (i - from) = i
      BY <1>1
    <3> QED
      BY <1>2, <3>1
  <2> QED
    BY <2>1, <2>2 DEF SlugsOf
<1>4. ASSUME NEW i \in (from + 1)..to PROVE batch[last(rows[i].slug)] = rows[i]
  <2>1. i - from \in DOMAIN batch /\ batch[i - from] = rows[i]
    <3>1. i - from \in 1..(to - from) /\ from + (i - from) = i
      BY <1>1
    <3> QED
      BY <1>2, <3>1
  <2>2. \A j \in DOMAIN batch : batch[j].slug = rows[i].slug => j = i - from
    <3> SUFFICES ASSUME NEW j \in DOMAIN batch, batch[j].slug = rows[i].slug PROVE j = i - from
      OBVIOUS
    <3>1. from + j \in DOMAIN rows /\ i \in DOMAIN rows /\ rows[from + j].slug = rows[i].slug /\ j \in Int
      BY <1>1, <1>2
    <3>2. from + j = i
      BY <3>1 DEF SlugsDiffer
    <3> QED
      BY <1>1, <3>1, <3>2
  <2>3. i - from <= i - from
    BY <1>1
  <2>4. last(rows[i].slug) = i - from
    BY <2>1, <2>2, <2>3
  <2> QED
    BY <2>1, <2>4
<1>5. after = [slug \in DOMAIN directory \cup SlugsOf(batch) |->
                 IF slug \in SlugsOf(batch) THEN batch[last(slug)] ELSE directory[slug]]
  BY DEF Upserted
<1> HIDE DEF after, last
<1> QED
  BY <1>3, <1>4, <1>5 DEF after, batch

\* A batch keeps what the run has landed, and every entry a row.
LEMMA CommitKeepsDirectory ==
    ASSUME DirectoryIInv, NEW r \in FeedRuns, commitBatch(r)
    PROVE  DirectoryIInv'
<1>0. PICK run : run = feed[r]
  OBVIOUS
<1> DEFINE rows == run.rows
           from == run.at
           to == IF run.at + BatchSize < Len(run.rows) THEN run.at + BatchSize ELSE Len(run.rows)
<1>1. /\ r \in Running /\ directory' = Upserted(SubSeq(rows, from + 1, to))
      /\ feed' = [feed EXCEPT ![r].at = to] /\ report' = report
  BY <1>0 DEF commitBatch
<1>2. FeedHolds(r)
  BY <1>1 DEF DirectoryIInv
<1>3. rows \in Seq(DirectoryRows) /\ SlugsDiffer(rows) /\ IsFiniteSet(SlugsOf(rows))
  BY <1>0, <1>2, RowsOfFile DEF FeedHolds
<1>4. from \in 0..Len(rows) /\ to \in from..Len(rows)
  <2>1. BatchSize \in Nat /\ from \in 0..Len(rows) /\ Len(rows) \in Nat
    BY <1>0, <1>2, <1>3, BatchAssumption DEF FeedHolds
  <2> QED
    BY <2>1
<1> HIDE DEF to
<1>5. /\ \A slug : slug \in DOMAIN directory' <=>
           slug \in DOMAIN directory \/ \E i \in (from + 1)..to : slug = rows[i].slug
      /\ \A i \in (from + 1)..to : directory'[rows[i].slug] = rows[i]
      /\ \A slug \in DOMAIN directory :
           (\A i \in (from + 1)..to : slug # rows[i].slug) => directory'[slug] = directory[slug]
  BY <1>1, <1>3, <1>4, BatchLands
<1>6. from \in Nat /\ to \in Nat /\ from <= to /\ to <= Len(rows) /\ DOMAIN rows = 1..Len(rows)
      /\ Len(rows) \in Nat
  BY <1>3, <1>4
<1>7. feed'[r] = [run EXCEPT !.at = to] /\ \A q \in FeedRuns : q # r => feed'[q] = feed[q]
  BY <1>0, <1>1 DEF DirectoryIInv
<1>8. /\ feed'[r].at = to /\ feed'[r].rows = rows /\ feed'[r].file = run.file
      /\ feed'[r].existing = run.existing /\ feed'[r].crossed = run.crossed /\ feed'[r].again = run.again
      /\ DOMAIN feed'[r] = DOMAIN run
  <2>1. "at" \in DOMAIN run
    BY <1>0, <1>2 DEF FeedHolds
  <2> QED
    BY <1>7, <2>1
<1> HIDE DEF rows, from
<1>9. \A q \in Running' : q \in Running
  BY <1>1, <1>7 DEF Running
<1>10. EntriesAreRows'
  <2>1. IsFiniteSet(DOMAIN directory')
    <3>1. IsFiniteSet(DOMAIN directory \cup SlugsOf(rows))
      BY <1>3, FS_Union DEF DirectoryIInv, EntriesAreRows
    <3>2. DOMAIN directory' \subseteq DOMAIN directory \cup SlugsOf(rows)
      BY <1>5, <1>6 DEF SlugsOf
    <3> QED
      BY <3>1, <3>2, FS_Subset
  <2>2. \A i \in (from + 1)..to : rows[i] \in DirectoryRows
    BY <1>3, <1>6
  <2>3. \A slug \in DOMAIN directory' : directory'[slug] \in DirectoryRows
    BY <1>5, <2>2 DEF DirectoryIInv, EntriesAreRows
  <2> QED
    BY <2>1, <2>3 DEF EntriesAreRows
<1>11. ReportHolds'
  <2>1. report = Blank
    BY <1>1 DEF DirectoryIInv, ReportHolds
  <2> QED
    BY <1>1, <2>1 DEF ReportHolds
<1>12. ASSUME Landed(rows, from), NEW i \in 1..to
       PROVE  rows[i].slug \in DOMAIN directory' /\ directory'[rows[i].slug] = rows[i]
  <2>1. CASE i \in (from + 1)..to
    BY <1>5, <2>1
  <2>2. CASE i \notin (from + 1)..to
    <3>1. i \in 1..from
      BY <1>6, <2>2
    <3>2. rows[i].slug \in DOMAIN directory /\ directory[rows[i].slug] = rows[i]
      BY <1>12, <3>1 DEF Landed
    <3>3. \A k \in (from + 1)..to : rows[i].slug # rows[k].slug
      <4> SUFFICES ASSUME NEW k \in (from + 1)..to, rows[i].slug = rows[k].slug PROVE FALSE
        OBVIOUS
      <4>1. i \in DOMAIN rows /\ k \in DOMAIN rows
        BY <1>6, <3>1
      <4>2. i = k
        BY <1>3, <4>1 DEF SlugsDiffer
      <4> QED
        BY <1>6, <3>1, <4>2
    <3> QED
      BY <1>5, <3>2, <3>3
  <2> QED
    BY <2>1, <2>2
<1>13. FeedHolds(r)'
  <2>1. /\ {"at", "crossed"} \subseteq DOMAIN run /\ run.file \in SourceFiles
        /\ rows = FileRows[run.file]
        /\ run.again => SlugsOf(rows) \subseteq run.existing
        /\ ~run.crossed => Landed(rows, from) /\ \A q \in Running : q = r
    BY <1>0, <1>2 DEF FeedHolds, rows, from
  <2>2. to \in 0..Len(rows)
    BY <1>6
  <2>3. ~run.crossed =>
          /\ \A i \in 1..to : rows[i].slug \in DOMAIN directory' /\ directory'[rows[i].slug] = rows[i]
          /\ \A q \in Running' : q = r
    BY <1>9, <1>12, <2>1
  <2>4. ~run.crossed => Landed(feed[r].rows, feed[r].at)'
    BY <1>8, <2>3 DEF Landed
  <2> QED
    BY <1>8, <2>1, <2>2, <2>3, <2>4 DEF FeedHolds
<1>14. ASSUME NEW q \in Running, q # r PROVE FeedHolds(q)'
  <2>1. FeedHolds(q) /\ feed'[q] = feed[q]
    BY <1>7, <1>14 DEF DirectoryIInv, Running
  <2>2. feed[q].crossed
    BY <1>1, <1>14, <2>1 DEF FeedHolds
  <2> QED
    BY <2>1, <2>2 DEF FeedHolds
<1>15. DOMAIN feed' = FeedRuns
  BY <1>1 DEF DirectoryIInv
<1> QED
  BY <1>9, <1>10, <1>11, <1>13, <1>14, <1>15 DEF DirectoryIInv

\* A run that nothing crossed was the only one when it reports.
LEMMA FinishKeepsDirectory ==
    ASSUME DirectoryIInv, NEW r \in FeedRuns, finishFeed(r)
    PROVE  DirectoryIInv'
<1>0. PICK run : run = feed[r]
  OBVIOUS
<1>1. /\ r \in Running /\ run.at = Len(run.rows)
      /\ report' = IF run.crossed THEN Blank
                   ELSE [file |-> run.file, rows |-> run.rows, again |-> run.again,
                         created |-> Cardinality(SlugsOf(run.rows) \ run.existing)]
      /\ feed' = [feed EXCEPT ![r] = NoFeed] /\ directory' = directory
  BY <1>0 DEF finishFeed
<1>2. DOMAIN feed' = FeedRuns /\ feed'[r] = NoFeed /\ \A q \in FeedRuns : q # r => feed'[q] = feed[q]
  BY <1>1 DEF DirectoryIInv
<1>3. \A q \in Running' : q \in Running /\ q # r
  BY <1>2 DEF Running
<1>4. EntriesAreRows'
  BY <1>1 DEF DirectoryIInv, EntriesAreRows
<1>5. ReportHolds'
  <2>1. CASE run.crossed
    BY <1>1, <2>1 DEF ReportHolds
  <2>2. CASE ~run.crossed
    <3>1. /\ run.file \in SourceFiles /\ run.rows = FileRows[run.file]
          /\ run.again => SlugsOf(run.rows) \subseteq run.existing
          /\ Landed(run.rows, Len(run.rows)) /\ \A q \in Running : q = r
      BY <1>0, <1>1, <2>2 DEF DirectoryIInv, FeedHolds
    <3>2. /\ report'.file = run.file /\ report'.rows = run.rows /\ report'.again = run.again
          /\ report'.created = Cardinality(SlugsOf(run.rows) \ run.existing)
      BY <1>1, <2>2
    <3>3. Running' = {}
      BY <1>3, <3>1
    <3>4. run.again => Cardinality(SlugsOf(run.rows) \ run.existing) = 0
      BY <3>1, FS_EmptySet
    <3>5. Landed(report.rows, Len(report.rows))'
      BY <1>1, <3>1, <3>2 DEF Landed
    <3> QED
      BY <3>1, <3>2, <3>3, <3>4, <3>5 DEF ReportHolds
  <2> QED
    BY <2>1, <2>2
<1>6. ASSUME NEW q \in Running' PROVE FeedHolds(q)'
  <2>1. q \in Running /\ FeedHolds(q) /\ feed'[q] = feed[q]
    BY <1>2, <1>3, <1>6 DEF DirectoryIInv, Running
  <2> QED
    BY <1>1, <1>3, <2>1 DEF FeedHolds, Landed
<1> QED
  BY <1>2, <1>4, <1>5, <1>6 DEF DirectoryIInv

\* A run that stops takes nothing back.
LEMMA StopKeepsDirectory ==
    ASSUME DirectoryIInv, NEW r \in FeedRuns, stopFeed(r)
    PROVE  DirectoryIInv'
<1>1. /\ r \in Running /\ feed' = [feed EXCEPT ![r] = NoFeed] /\ directory' = directory /\ report' = report
  BY DEF stopFeed
<1>2. DOMAIN feed' = FeedRuns /\ feed'[r] = NoFeed /\ \A q \in FeedRuns : q # r => feed'[q] = feed[q]
  BY <1>1 DEF DirectoryIInv
<1>3. \A q \in Running' : q \in Running /\ q # r
  BY <1>2 DEF Running
<1>4. EntriesAreRows'
  BY <1>1 DEF DirectoryIInv, EntriesAreRows
<1>5. ReportHolds'
  BY <1>1 DEF DirectoryIInv, ReportHolds
<1>6. ASSUME NEW q \in Running' PROVE FeedHolds(q)'
  <2>1. q \in Running /\ FeedHolds(q) /\ feed'[q] = feed[q]
    BY <1>2, <1>3, <1>6 DEF DirectoryIInv, Running
  <2> QED
    BY <1>1, <1>3, <2>1 DEF FeedHolds, Landed
<1> QED
  BY <1>2, <1>4, <1>5, <1>6 DEF DirectoryIInv

LEMMA DirectoryStep == DirectoryIInv /\ [DirectoryNext]_directoryVars => DirectoryIInv'
<1> SUFFICES ASSUME DirectoryIInv, [DirectoryNext]_directoryVars PROVE DirectoryIInv'
  OBVIOUS
<1>1. CASE DirectoryNext
  BY <1>1, StartKeepsDirectory, CommitKeepsDirectory, FinishKeepsDirectory, StopKeepsDirectory
  DEF DirectoryNext
<1>2. CASE UNCHANGED directoryVars
  <2>1. directory' = directory /\ feed' = feed /\ report' = report
    BY <1>2 DEF directoryVars
  <2> QED
    BY <2>1 DEF DirectoryIInv, EntriesAreRows, ReportHolds, Running, FeedHolds, Landed
<1> QED
  BY <1>1, <1>2

-----------------------------------------------------------------------------
(* The directory: what its pages say *)

\* The first cards sum up to the suppliers behind them.
LEMMA CountsAddUp ==
    ASSUME EntriesAreRows
    PROVE  CountedUpTo[Len(DiscoveryWords)] = Cardinality(DOMAIN directory)
<1> DEFINE N == Len(DiscoveryWords)
           Behind(c) == {slug \in DOMAIN directory : directory[slug].categorySlugs[1] = c}
           UpTo(c) == {slug \in DOMAIN directory : directory[slug].categorySlugs[1] \in 1..c}
           Runs(g, k) == g = [c \in 0..k |-> IF c = 0 THEN 0 ELSE g[c - 1] + categoryCounts[c]]
           S == {k \in Nat : \E g : Runs(g, k)}
<1>1. N \in Nat /\ Categories = 1..N
  BY TaxonomyAssumption DEF Categories
<1>2. CountedUpTo = CHOOSE g : Runs(g, N)
  BY DEF CountedUpTo
<1>3. 0 \in S
  <2>1. Runs([c \in 0..0 |-> 0], 0)
    OBVIOUS
  <2> QED
    BY <2>1
<1>4. ASSUME NEW k \in Nat, k \in S PROVE k + 1 \in S
  <2>1. PICK g : Runs(g, k)
    BY <1>4
  <2> DEFINE h == [c \in 0..(k + 1) |-> IF c = k + 1 THEN g[k] + categoryCounts[k + 1] ELSE g[c]]
  <2>2. Runs(h, k + 1)
    BY <2>1
  <2> HIDE DEF h, Runs
  <2> QED
    BY <2>2
<1>5. Runs(CountedUpTo, N)
  <2>1. N \in S
    <3> HIDE DEF S, N
    <3> QED
      BY <1>1, <1>3, <1>4, SetInduction
  <2>2. \E g : Runs(g, N)
    BY <2>1
  <2> HIDE DEF Runs, N
  <2> QED
    BY <1>2, <2>2
<1> HIDE DEF N
<1>6. CountedUpTo[0] = 0 /\ \A c \in 1..N : CountedUpTo[c] = CountedUpTo[c - 1] + categoryCounts[c]
  BY <1>1, <1>5
<1>7. \A c \in 1..N : categoryCounts[c] = Cardinality(Behind(c))
  BY <1>1 DEF categoryCounts
<1>8. IsFiniteSet(DOMAIN directory)
  BY DEF EntriesAreRows
<1>9. \A c : IsFiniteSet(UpTo(c)) /\ IsFiniteSet(Behind(c))
             /\ Cardinality(UpTo(c)) \in Nat /\ Cardinality(Behind(c)) \in Nat
  <2> TAKE c
  <2>1. UpTo(c) \subseteq DOMAIN directory /\ Behind(c) \subseteq DOMAIN directory
    OBVIOUS
  <2> HIDE DEF UpTo, Behind
  <2> QED
    BY <1>8, <2>1, FS_Subset, FS_CardinalityType
<1> DEFINE T == {c \in Nat : c <= N => CountedUpTo[c] = Cardinality(UpTo(c))}
<1>10. 0 \in T
  <2>1. UpTo(0) = {}
    OBVIOUS
  <2> HIDE DEF UpTo
  <2> QED
    BY <1>6, <2>1, FS_EmptySet
<1>11. ASSUME NEW c \in Nat, c \in T PROVE c + 1 \in T
  <2> SUFFICES ASSUME c + 1 <= N PROVE CountedUpTo[c + 1] = Cardinality(UpTo(c + 1))
    OBVIOUS
  <2>1. UpTo(c + 1) = UpTo(c) \cup Behind(c + 1)
    <3>1. \A n : n \in 1..(c + 1) <=> n \in 1..c \/ n = c + 1
      OBVIOUS
    <3> QED
      BY <3>1
  <2>2. UpTo(c) \cap Behind(c + 1) = {}
    <3>1. c + 1 \notin 1..c
      OBVIOUS
    <3> QED
      BY <3>1
  <2>3. CountedUpTo[c + 1] = Cardinality(UpTo(c)) + Cardinality(Behind(c + 1))
    <3>1. c + 1 \in 1..N /\ (c + 1) - 1 = c /\ CountedUpTo[c] = Cardinality(UpTo(c))
      BY <1>1, <1>11
    <3> HIDE DEF UpTo, Behind
    <3> QED
      BY <1>6, <1>7, <3>1
  <2> HIDE DEF UpTo, Behind
  <2>4. Cardinality(UpTo(c + 1))
          = Cardinality(UpTo(c)) + Cardinality(Behind(c + 1)) - Cardinality(UpTo(c) \cap Behind(c + 1))
    BY <1>9, <2>1, FS_Union
  <2>5. Cardinality(UpTo(c) \cap Behind(c + 1)) = 0
    BY <2>2, FS_EmptySet
  <2> QED
    BY <1>9, <2>3, <2>4, <2>5
<1>12. CountedUpTo[N] = Cardinality(UpTo(N))
  <2>1. Nat \subseteq T
    <3> HIDE DEF T
    <3> QED
      BY <1>10, <1>11, SetInduction
  <2> HIDE DEF UpTo
  <2> QED
    BY <1>1, <2>1
<1>13. UpTo(N) = DOMAIN directory
  <2>1. \A slug \in DOMAIN directory : directory[slug].categorySlugs[1] \in 1..N
    BY <1>1, RowIsSound DEF EntriesAreRows
  <2> QED
    BY <2>1
<1> QED
  BY <1>12, <1>13 DEF N

\* A chip counts the suppliers behind it: a type is once in a supplier's list.
LEMMA ChipsCount ==
    ASSUME EntriesAreRows, NEW c, NEW type \in DOMAIN facetTypes(c)
    PROVE  facetTypes(c)[type] = Cardinality(Grid(c, type))
<1> DEFINE rows == {t \in unnested(c) : TypeAt(t) = type}
<1>1. \A slug \in DOMAIN directory :
        /\ directory[slug].supplierTypes \in Seq(STRING) /\ NoneTwice(directory[slug].supplierTypes)
  BY RowIsSound DEF EntriesAreRows
<1>2. \A t : t \in unnested(c) <=>
        /\ t = <<t[1], t[2]>> /\ t[1] \in Grid(c, Blank)
        /\ t[2] \in DOMAIN directory[t[1]].supplierTypes
  BY DEF unnested
<1>3. Grid(c, Blank) = {slug \in DOMAIN directory : directory[slug].categorySlugs[1] = c}
  BY DEF Grid
<1>4. facetTypes(c)[type] = Cardinality(rows)
  BY DEF facetTypes
<1>5. PICK t \in unnested(c) : type = TypeAt(t)
  BY DEF facetTypes
<1>6. type \in STRING /\ type # Blank
  <2>1. type = directory[t[1]].supplierTypes[t[2]] /\ t[1] \in DOMAIN directory
        /\ t[2] \in DOMAIN directory[t[1]].supplierTypes
    BY <1>2, <1>3, <1>5 DEF TypeAt
  <2>2. type \in STRING
    BY <1>1, <2>1, LenProperties, ElementOfSeq
  <2> QED
    BY <2>2, FilesAssumption
<1>7. \A slug : slug \in Grid(c, type) <=>
        slug \in Grid(c, Blank) /\ \E i \in DOMAIN directory[slug].supplierTypes :
                                     directory[slug].supplierTypes[i] = type
  BY <1>3, <1>6 DEF Grid, ToSet
<1>8. \A p : p \in rows <=>
        /\ p = <<p[1], p[2]>> /\ p[1] \in Grid(c, Blank)
        /\ p[2] \in DOMAIN directory[p[1]].supplierTypes
        /\ directory[p[1]].supplierTypes[p[2]] = type
  BY <1>2 DEF TypeAt
<1> HIDE DEF rows
<1> DEFINE f == [p \in rows |-> p[1]]
<1>9. f \in Bijection(rows, Grid(c, type))
  <2>1. \A p \in rows : f[p] \in Grid(c, type)
    BY <1>7, <1>8
  <2>2. \A p, q \in rows : f[p] = f[q] => p = q
    <3> SUFFICES ASSUME NEW p \in rows, NEW q \in rows, p[1] = q[1] PROVE p = q
      OBVIOUS
    <3>1. p[1] \in DOMAIN directory
      BY <1>3, <1>8
    <3>2. p[2] = q[2]
      BY <1>1, <1>8, <3>1 DEF NoneTwice
    <3> QED
      BY <1>8, <3>2
  <2>3. \A slug \in Grid(c, type) : \E p \in rows : f[p] = slug
    <3> TAKE slug \in Grid(c, type)
    <3>1. PICK i \in DOMAIN directory[slug].supplierTypes : directory[slug].supplierTypes[i] = type
      BY <1>7
    <3>2. <<slug, i>> \in rows
      BY <1>7, <1>8, <3>1
    <3> QED
      BY <3>2
  <2>4. f \in [rows -> Grid(c, type)]
    BY <2>1
  <2> HIDE DEF f
  <2>5. IsInjective(f)
    BY <2>2, <2>4 DEF IsInjective
  <2> QED
    BY <2>3, <2>4, <2>5 DEF Bijection, Injection, Surjection
<1>10. IsFiniteSet(Grid(c, type))
  <2>1. Grid(c, type) \subseteq DOMAIN directory
    BY DEF Grid
  <2> QED
    BY <2>1, FS_Subset DEF EntriesAreRows
<1>11. Cardinality(rows) = Cardinality(Grid(c, type))
  <2>1. f \in Injection(rows, Grid(c, type)) /\ f \in Surjection(rows, Grid(c, type))
    BY <1>9 DEF Bijection
  <2> QED
    BY <1>10, <2>1, FS_Injection
<1> QED
  BY <1>4, <1>11

\* Each supplier is on a page, and on one only when nobody ties with it.
LEMMA PagesHold ==
    ASSUME EntriesAreRows, NEW c, NEW sort \in {"tier", "name"}, NEW slug \in Grid(c, Blank)
    PROVE  LET grid == Grid(c, Blank)
               ties == {other \in grid \ {slug} :
                          ~Precedes(other, slug, sort) /\ ~Precedes(slug, other, sort)}
               pages == listByCategory(slug, grid, sort)
           IN  /\ pages # {} /\ pages \subseteq 1..((Cardinality(grid) + GridSize - 1) \div GridSize)
               /\ ties = {} => Cardinality(pages) = 1
<1> DEFINE grid == Grid(c, Blank)
           above == {other \in grid : Precedes(other, slug, sort)}
           below == {other \in grid : Precedes(slug, other, sort)}
           ties == {other \in grid \ {slug} : ~Precedes(other, slug, sort) /\ ~Precedes(slug, other, sort)}
           pages == listByCategory(slug, grid, sort)
           n == Cardinality(grid)
           a == Cardinality(above)
           b == Cardinality(below)
           page(place) == 1 + (place \div GridSize)
           last == (n + GridSize - 1) \div GridSize
<1>1. grid \subseteq DOMAIN directory
  BY DEF Grid
<1>2. slug \in grid /\ IsFiniteSet(grid)
  BY <1>1, FS_Subset DEF EntriesAreRows
<1>3. \A x \in grid : directory[x].name.rank \in Int /\ directory[x].tier \in Int
  BY <1>1, RowIsSound DEF EntriesAreRows
<1>4. \A x, y \in grid : /\ ~Precedes(x, x, sort)
                         /\ ~(Precedes(x, y, sort) /\ Precedes(y, x, sort))
  BY <1>3 DEF Precedes
<1>5. pages = {page(place) : place \in a..(n - 1 - b)}
  BY DEF listByCategory
<1> HIDE DEF grid, pages
<1>6. /\ above \subseteq grid /\ below \subseteq grid /\ above \cap below = {}
      /\ slug \notin above /\ slug \notin below
  BY <1>2, <1>4
<1>7. ties = {} => grid = (above \cup below) \cup {slug}
  BY <1>2, <1>6
<1>8. (above \cup below) \cup {slug} \subseteq grid
  BY <1>2, <1>6
<1> HIDE DEF above, below, ties
<1>9. IsFiniteSet(above) /\ IsFiniteSet(below) /\ a \in Nat /\ b \in Nat /\ n \in Nat
  BY <1>2, <1>6, FS_Subset, FS_CardinalityType
<1>10. /\ IsFiniteSet((above \cup below) \cup {slug})
       /\ Cardinality((above \cup below) \cup {slug}) = a + b + 1
  <2>1. IsFiniteSet(above \cup below) /\ Cardinality(above \cup below) = a + b
    <3>1. Cardinality(above \cap below) = 0
      BY <1>6, FS_EmptySet
    <3>2. IsFiniteSet(above) /\ IsFiniteSet(below)
      BY <1>9
    <3>3. /\ IsFiniteSet(above \cup below)
          /\ Cardinality(above \cup below) = a + b - Cardinality(above \cap below)
      BY <3>2, FS_Union
    <3> QED
      BY <1>9, <3>1, <3>3
  <2>2. slug \notin above \cup below
    BY <1>6
  <2> QED
    BY <2>1, <2>2, FS_AddElement
<1>11. a + b + 1 <= n /\ (ties = {} => a + b + 1 = n)
  BY <1>2, <1>7, <1>8, <1>10, FS_Subset
<1> HIDE DEF n, a, b
<1>12. GridSize \in Nat /\ GridSize > 0
  BY BatchAssumption
<1>13. pages # {}
  <2>1. a \in a..(n - 1 - b)
    BY <1>9, <1>11
  <2> QED
    BY <1>5, <2>1
<1>14. ASSUME NEW place \in a..(n - 1 - b) PROVE page(place) \in 1..last
  <2> DEFINE q == place \div GridSize
             total == n + GridSize - 1
             r == total \div GridSize
  <2>1. place \in Nat /\ total \in Nat /\ place + GridSize <= total
    BY <1>9, <1>11, <1>12
  <2>2. last = r /\ page(place) = 1 + q
    OBVIOUS
  <2> HIDE DEF total
  <2>3. q \in Nat /\ GridSize * q <= place /\ place < GridSize * q + GridSize
    BY <1>12, <2>1
  <2>4. r \in Nat /\ GridSize * r <= total /\ total < GridSize * r + GridSize
    BY <1>12, <2>1
  <2> HIDE DEF q, r, last, page
  <2>5. GridSize * (q + 1) = GridSize * q + GridSize /\ GridSize * (r + 1) = GridSize * r + GridSize
    BY <1>12, <2>3, <2>4
  <2>6. GridSize * (q + 1) < GridSize * (r + 1)
    BY <1>12, <2>1, <2>3, <2>4, <2>5
  <2>7. q + 1 < r + 1
    BY <1>12, <2>3, <2>4, <2>6
  <2> QED
    BY <2>2, <2>3, <2>4, <2>7
<1>15. pages \subseteq 1..last
  <2> HIDE DEF page, last
  <2> QED
    BY <1>5, <1>14
<1>16. ASSUME ties = {} PROVE Cardinality(pages) = 1
  <2>1. n - 1 - b = a
    BY <1>9, <1>11, <1>16
  <2>2. a..(n - 1 - b) = {a}
    BY <1>9, <2>1
  <2> HIDE DEF page
  <2>3. pages = {page(a)}
    BY <1>5, <2>2
  <2> QED
    BY <2>3, FS_Singleton
<1> QED
  BY <1>13, <1>15, <1>16 DEF grid, ties, pages, n, last

LEMMA DirectoryImplies == DirectoryIInv => DirectoryHoldsTheFile
<1> SUFFICES ASSUME DirectoryIInv PROVE DirectoryHoldsTheFile
  OBVIOUS
<1>1. EntriesAreRows
  BY DEF DirectoryIInv
<1>2. ASSUME report # Blank
      PROVE  /\ \A i \in DOMAIN report.rows :
                  LET row == report.rows[i]
                  IN  row.slug \in DOMAIN directory /\ directory[row.slug] = row
             /\ report.again => report.created = 0
  <2>1. /\ report.file \in SourceFiles /\ report.rows = FileRows[report.file]
        /\ Landed(report.rows, Len(report.rows))
    BY <1>2 DEF DirectoryIInv, ReportHolds
  <2>2. report.again => report.created = 0
    BY <1>2 DEF DirectoryIInv, ReportHolds
  <2>3. DOMAIN report.rows = 1..Len(report.rows)
    BY <2>1, RowsOfFile, LenProperties
  <2> QED
    BY <2>1, <2>2, <2>3 DEF Landed
<1>3. \A r \in Running : FileIsRead(feed[r].file, feed[r].rows)
  <2> TAKE r \in Running
  <2>1. feed[r].file \in SourceFiles /\ feed[r].rows = FileRows[feed[r].file]
    BY DEF DirectoryIInv, FeedHolds
  <2> QED
    BY <2>1, RowsOfFile
<1>4. CountedUpTo[Len(DiscoveryWords)] = Cardinality(DOMAIN directory)
  BY <1>1, CountsAddUp
<1>5. \A c : GridsAddUp(c)
  BY <1>1, ChipsCount, PagesHold DEF GridsAddUp
<1> QED
  BY <1>2, <1>3, <1>4, <1>5 DEF DirectoryHoldsTheFile

\* discovery/import.ts:4, for any files, taxonomy, batch size and number of
\* runs that stop and cross: a run that nothing crossed leaves every record of
\* its file in the directory under a slug of its own, a second one of the same
\* file creates none, records appended to a file move no slug above them, and
\* the counts, chips and pages of every category add up.
THEOREM DirectoryHolds == DirectorySpec => []DirectoryHoldsTheFile
<1>1. DirectorySpec => []DirectoryIInv
  BY DirectoryInitially, DirectoryStep, PTL DEF DirectorySpec
<1> QED
  BY <1>1, DirectoryImplies, PTL
=============================================================================
