----------------------- MODULE ListingLifecycleProofs -----------------------
(***************************************************************************)
(* Whatever the calls and however they overlap: rows keep their types, and *)
(* a listing reaches the market only through a moderator.  As long as no   *)
(* two calls overlap: what is on the market is approved, and on a page that*)
(* says the same or that a later submission had overtaken; and nothing     *)
(* unapproved is in the index or the embeddings.                           *)
(***************************************************************************)
EXTENDS ListingLifecycle, TLAPS

\* A call about to commit LIVE or PAUSED either has a moderator's role or has
\* read a listing that a moderator had published.
MovesAreModerated ==
    \A s \in Sessions :
        tx[s].op = "MOVE" /\ tx[s].to \in {"LIVE", "PAUSED"} =>
            \/ moderated
            \/ tx[s].to = "LIVE" /\ Can(tx[s].role, "moderation:manage")

IInv == TypeOK /\ NeverLiveUnmoderated /\ MovesAreModerated

\* listing-state.ts:41: the two edges that lead to LIVE, and the one to PAUSED.
LEMMA EdgesToMarket ==
    ASSUME NEW role, NEW from, NEW to, Edge(role, from, to)
    PROVE  /\ to \in ListingStatus /\ from \in ListingStatus
           /\ to = "LIVE" => \/ from = "PAUSED"
                             \/ from = "PENDING_REVIEW" /\ Can(role, "moderation:manage")
           /\ to = "PAUSED" => from = "LIVE"
  BY DEF Edge, LISTING_TRANSITIONS, ListingStatus

\* Steps of the index jobs change none of the variables the invariant is about
\* except their own, whose types they keep.
LEMMA DiscoveryStep ==
    ASSUME IInv, NEW j \in Jobs, IndexJobs(j) \/ boot
    PROVE  IInv'
  <1>1. /\ UNCHANGED core
        /\ index' \in Doc /\ embedding' \in Doc
        /\ job' \in [Jobs -> [kind: JobKind, doc: Doc]]
        /\ warmed' \in BOOLEAN
    <2>1. ASSUME NEW kind \in JobKind, Load(j, kind), warmed' = warmed
          PROVE  /\ UNCHANGED <<core, index, embedding>>
                 /\ job' \in [Jobs -> [kind: JobKind, doc: Doc]]
      BY <2>1 DEF IInv, TypeOK, Load, Document, Doc
    <2>2. CASE syncListing(j) \/ syncAllListings(j) \/ backfillListingEmbeddings(j)
      <3>1. PICK kind \in JobKind : Load(j, kind)
        BY <2>2 DEF syncListing, syncAllListings, backfillListingEmbeddings, JobKind
      <3>2. warmed' = warmed
        BY <3>1 DEF Load
      <3> QED BY <2>1, <3>1, <3>2 DEF IInv, TypeOK
    <2>3. CASE upsert(j)
      BY <2>3 DEF IInv, TypeOK, upsert, Doc, NoJob, JobKind
    <2>4. CASE boot
      BY <2>4 DEF IInv, TypeOK, boot, Doc, NoJob, JobKind
    <2> QED BY <2>2, <2>3, <2>4 DEF IndexJobs
  <1> QED
    BY <1>1 DEF IInv, TypeOK, NeverLiveUnmoderated, MovesAreModerated, core, Can

\* What every call record must satisfy.
GoodCall(r) ==
    /\ r \in [op: Ops, sheet: Sheets \cup {NoSheet},
              to: ListingStatus \cup {"NONE"}, role: Role \cup {"NONE"}]
    /\ r.op \in {"UPLOADED", "EXTRACT", "APPLY", "CONFIRM"} => r.sheet \in Sheets
    /\ r.op \in {"SUBMIT", "MOVE"} => r.role \in Role
    /\ r.op = "MOVE" => r.to \in ListingStatus

\* A call that begins, or goes on, changes its own record only.
LEMMA CallStep ==
    ASSUME IInv, NEW s \in Sessions, NEW r, Call(s, r), GoodCall(r),
           r.op = "MOVE" /\ r.to \in {"LIVE", "PAUSED"} =>
               moderated \/ (r.to = "LIVE" /\ Can(r.role, "moderation:manage"))
    PROVE  IInv'
  <1>1. /\ UNCHANGED <<listing, sheet, applied, moderated, index, embedding, job, warmed>>
        /\ overlap' \in BOOLEAN
        /\ tx' = [tx EXCEPT ![s] = r]
    BY DEF Call, discovery, IInv, TypeOK
  <1>2. \A t \in Sessions : tx'[t] = IF t = s THEN r ELSE tx[t]
    BY <1>1 DEF IInv, TypeOK
  <1>3. TypeOK'
    BY <1>1, <1>2 DEF IInv, TypeOK, GoodCall
  <1>4. NeverLiveUnmoderated'
    BY <1>1 DEF IInv, NeverLiveUnmoderated
  <1>5. MovesAreModerated'
    BY <1>1, <1>2 DEF IInv, MovesAreModerated, Can
  <1> QED BY <1>3, <1>4, <1>5 DEF IInv

LEMMA IdleIsGood == GoodCall(Idle)
  BY DEF GoodCall, Idle, Ops

\* Every first half of a call.
LEMMA ReadStep ==
    ASSUME IInv, NEW s \in Sessions, Reads(s)
    PROVE  IInv'
  <1>1. ASSUME NEW op \in Edits, edit(s, op) PROVE IInv'
    <2>1. GoodCall([Idle EXCEPT !.op = op]) /\ [Idle EXCEPT !.op = op].op # "MOVE"
      BY DEF GoodCall, Idle, Ops, Edits
    <2> QED BY <1>1, <2>1, CallStep DEF edit
  <1>2. CASE uploadSpecSheet(s)
    <2>1. GoodCall([Idle EXCEPT !.op = "ADD_SHEET"])
      BY DEF GoodCall, Idle, Ops
    <2> QED BY <1>2, <2>1, CallStep DEF uploadSpecSheet, Idle
  <1>3. CASE extract(s)
    <2>1. GoodCall([tx[s] EXCEPT !.op = "EXTRACT"])
      BY <1>3 DEF GoodCall, extract, IInv, TypeOK, Ops
    <2>2. [tx[s] EXCEPT !.op = "EXTRACT"].op # "MOVE"
      BY DEF IInv, TypeOK
    <2> QED BY <1>3, <2>1, <2>2, CallStep DEF extract
  <1>4. ASSUME NEW x \in Sheets, apply(s, x) PROVE IInv'
    <2>1. GoodCall([Idle EXCEPT !.op = "APPLY", !.sheet = x])
      BY DEF GoodCall, Idle, Ops
    <2> QED BY <1>4, <2>1, CallStep DEF apply, Idle
  <1>5. ASSUME NEW x \in Sheets, confirm(s, x) PROVE IInv'
    <2>1. GoodCall([Idle EXCEPT !.op = "CONFIRM", !.sheet = x])
      BY DEF GoodCall, Idle, Ops
    <2> QED BY <1>5, <2>1, CallStep DEF confirm, Idle
  <1>6. CASE submitForReview(s)
    <2>1. PICK r \in Actors : Call(s, [Idle EXCEPT !.op = "SUBMIT", !.role = r])
      BY <1>6 DEF submitForReview
    <2>2. GoodCall([Idle EXCEPT !.op = "SUBMIT", !.role = r])
      BY ActorsAssumption DEF GoodCall, Idle, Ops
    <2> QED BY <2>1, <2>2, CallStep DEF Idle
  <1>7. ASSUME NEW r \in Role, NEW to, BeginMove(s, r, to) PROVE IInv'
    <2> DEFINE c == [op |-> "MOVE", sheet |-> NoSheet, to |-> to, role |-> r]
    <2>1. c.op = "MOVE" /\ c.to = to /\ c.role = r
      OBVIOUS
    <2>2. /\ to \in ListingStatus
          /\ to = "LIVE" => listing.status = "PAUSED" \/ Can(r, "moderation:manage")
          /\ to = "PAUSED" => listing.status = "LIVE"
      BY <1>7, EdgesToMarket DEF BeginMove
    <2>3. GoodCall(c)
      BY <2>1, <2>2 DEF GoodCall, Ops
    <2>4. to \in {"LIVE", "PAUSED"} =>
              moderated \/ (to = "LIVE" /\ Can(r, "moderation:manage"))
      BY <2>2 DEF IInv, NeverLiveUnmoderated
    <2>5. Call(s, c)
      BY <1>7 DEF BeginMove
    <2> HIDE DEF c
    <2> QED BY <2>1, <2>3, <2>4, <2>5, CallStep
  <1>8. CASE submit(s)
    <2>1. tx[s].role \in Role
      BY <1>8 DEF submit, IInv, TypeOK
    <2> QED BY <1>7, <1>8, <2>1 DEF submit
  <1>9. CASE transition(s)
    BY <1>7, <1>9, ActorsAssumption DEF transition
  <1> QED BY <1>1, <1>2, <1>3, <1>4, <1>5, <1>6, <1>8, <1>9 DEF Reads

\* A call that ends leaves an idle session.
LEMMA ReturnStep ==
    ASSUME IInv, NEW s \in Sessions, Return(s),
           UNCHANGED <<overlap, discovery>>,
           listing' \in [status: ListingStatus \cup {"NONE"}, tiers: BOOLEAN,
                         leads: BOOLEAN, page: Page, approved: BOOLEAN],
           sheet' \in [Sheets -> SheetStatus], applied' \subseteq Sheets,
           moderated' \in BOOLEAN, moderated => moderated', NeverLiveUnmoderated'
    PROVE  IInv'
  <1>1. \A t \in Sessions : tx'[t] = IF t = s THEN Idle ELSE tx[t]
    BY DEF Return, IInv, TypeOK
  <1>2. tx' \in [Sessions -> [op: Ops, sheet: Sheets \cup {NoSheet},
                              to: ListingStatus \cup {"NONE"}, role: Role \cup {"NONE"}]]
    BY IdleIsGood DEF Return, IInv, TypeOK, GoodCall
  <1>3. TypeOK'
    BY <1>1, <1>2, IdleIsGood DEF IInv, TypeOK, GoodCall, discovery
  <1>4. MovesAreModerated'
    BY <1>1 DEF IInv, MovesAreModerated, Idle, Can
  <1> QED BY <1>3, <1>4 DEF IInv

\* Every second half of a call, and a call that fails.
LEMMA CommitStep ==
    ASSUME IInv, NEW s \in Sessions, Commits(s) \/ abort(s)
    PROVE  IInv'
  <1>1. ASSUME NEW t \in BOOLEAN, NEW l \in BOOLEAN
        PROVE  /\ Rewritten(t, l) \in [status: ListingStatus \cup {"NONE"}, tiers: BOOLEAN,
                                       leads: BOOLEAN, page: Page, approved: BOOLEAN]
               /\ Rewritten(t, l).status = listing.status
    BY DEF Rewritten, IInv, TypeOK, Page
  <1>2. ASSUME NEW t \in BOOLEAN, NEW l \in BOOLEAN, listing' = Rewritten(t, l),
               Return(s), UNCHANGED <<sheet, overlap, moderated, discovery>>,
               applied' \subseteq Sheets
        PROVE  IInv'
    <2>1. NeverLiveUnmoderated'
      BY <1>1, <1>2 DEF IInv, NeverLiveUnmoderated
    <2> QED BY <1>1, <1>2, <2>1, ReturnStep DEF IInv, TypeOK
  <1>3. listing.tiers \in BOOLEAN /\ listing.leads \in BOOLEAN /\ applied \subseteq Sheets
    BY DEF IInv, TypeOK
  <1>4. CASE updateListingDraft(s)
    BY <1>2, <1>3, <1>4 DEF updateListingDraft
  <1>5. CASE replaceMoqLadder(s)
    BY <1>2, <1>3, <1>5 DEF replaceMoqLadder
  <1>6. CASE replaceLeadTimeRules(s)
    BY <1>2, <1>3, <1>6 DEF replaceLeadTimeRules
  <1>7. CASE replaceVariants(s) \/ addImage(s) \/ confirmImage(s)
    BY <1>2, <1>3, <1>7 DEF replaceVariants, addImage, confirmImage, Detailed
  <1>8. CASE applySpecSuggestions(s)
    <2>1. tx[s].sheet \in Sheets
      BY <1>8 DEF applySpecSuggestions, IInv, TypeOK
    <2> QED BY <1>2, <1>3, <1>8, <2>1 DEF applySpecSuggestions
  <1>9. ASSUME Return(s), UNCHANGED <<listing, applied, overlap, moderated, discovery>>,
               sheet' \in [Sheets -> SheetStatus]
        PROVE  IInv'
    <2>1. NeverLiveUnmoderated'
      BY <1>9 DEF IInv, NeverLiveUnmoderated
    <2> QED BY <1>9, <2>1, ReturnStep DEF IInv, TypeOK
  <1>10. CASE recordSpecExtraction(s)
    BY <1>9, <1>10 DEF recordSpecExtraction, IInv, TypeOK, SheetStatus
  <1>11. CASE confirmSpecSheet(s)
    BY <1>9, <1>11 DEF confirmSpecSheet, IInv, TypeOK, SheetStatus
  <1>12. CASE abort(s)
    BY <1>9, <1>12 DEF abort, IInv, TypeOK
  <1>13. CASE addSpecSheet(s)
    <2>1. PICK x \in Sheets :
            /\ sheet' = [sheet EXCEPT ![x] = "UPLOADED"]
            /\ tx' = [tx EXCEPT ![s] = [Idle EXCEPT !.op = "UPLOADED", !.sheet = x]]
      BY <1>13 DEF addSpecSheet
    <2> DEFINE c == [Idle EXCEPT !.op = "UPLOADED", !.sheet = x]
    <2>2. GoodCall(c) /\ c.op = "UPLOADED" /\ c.sheet = x
      BY DEF GoodCall, Idle, Ops
    <2>3. \A t \in Sessions : tx'[t] = IF t = s THEN c ELSE tx[t]
      BY <2>1 DEF IInv, TypeOK
    <2>4. UNCHANGED <<listing, applied, overlap, moderated, discovery>>
      BY <1>13 DEF addSpecSheet
    <2>5. sheet' \in [Sheets -> SheetStatus]
      BY <2>1 DEF IInv, TypeOK, SheetStatus
    <2> HIDE DEF c
    <2>6. tx' = [tx EXCEPT ![s] = c]
      BY <2>1 DEF c
    <2>7. TypeOK'
      BY <2>2, <2>3, <2>4, <2>5, <2>6 DEF IInv, TypeOK, GoodCall, discovery
    <2>8. MovesAreModerated' /\ NeverLiveUnmoderated'
      BY <2>2, <2>3, <2>4 DEF IInv, MovesAreModerated, NeverLiveUnmoderated, Can
    <2> QED BY <2>7, <2>8 DEF IInv
  <1>14. CASE move(s)
    <2> DEFINE approved == tx[s].to = "LIVE" /\ Can(tx[s].role, "moderation:manage")
    <2>1. /\ tx[s].op = "MOVE"
          /\ listing' = [listing EXCEPT !.status = tx[s].to, !.page = PageAt(tx[s].to),
                                        !.approved = @ \/ approved]
          /\ moderated' = (moderated \/ approved)
          /\ Return(s)
          /\ UNCHANGED <<sheet, applied, overlap, discovery>>
      BY <1>14 DEF move, Approves
    <2>2. tx[s].to \in ListingStatus
      BY <2>1 DEF IInv, TypeOK
    <2>3. moderated' \in BOOLEAN /\ (moderated => moderated')
      BY <2>1 DEF IInv, TypeOK
    <2>4. listing'.status = tx[s].to
      BY <2>1 DEF IInv, TypeOK
    <2>5. NeverLiveUnmoderated'
      BY <2>1, <2>4 DEF IInv, NeverLiveUnmoderated, MovesAreModerated
    <2>6. listing' \in [status: ListingStatus \cup {"NONE"}, tiers: BOOLEAN,
                        leads: BOOLEAN, page: Page, approved: BOOLEAN]
      BY <2>1, <2>2 DEF IInv, TypeOK, PageAt, Page
    <2> QED BY <2>1, <2>3, <2>5, <2>6, ReturnStep DEF IInv, TypeOK
  <1> QED
    BY <1>4, <1>5, <1>6, <1>7, <1>8, <1>10, <1>11, <1>12, <1>13, <1>14 DEF Commits

\* The invariant is inductive.
THEOREM ListingInductive == Spec => []IInv
  <1>1. Init => IInv
    <2> SUFFICES ASSUME Init PROVE IInv
      OBVIOUS
    <2>1. \A s \in Sessions : tx[s] = Idle
      BY DEF Init
    <2>2. Idle.op = "IDLE"
      BY DEF Idle
    <2>3. tx \in [Sessions -> [op: Ops, sheet: Sheets \cup {NoSheet},
                              to: ListingStatus \cup {"NONE"}, role: Role \cup {"NONE"}]]
      BY IdleIsGood DEF Init, GoodCall
    <2>4. TypeOK
      BY <2>1, <2>2, <2>3 DEF Init, TypeOK, SheetStatus, Doc, JobKind, NoJob, Page
    <2> QED BY <2>1, <2>2, <2>4 DEF Init, IInv, NeverLiveUnmoderated, MovesAreModerated
  <1>2. IInv /\ [Next]_vars => IInv'
    <2> SUFFICES ASSUME IInv, [Next]_vars PROVE IInv'
      OBVIOUS
    <2>1. CASE createListing
      <3>1. \E t, l \in BOOLEAN :
              listing' = [status |-> "DRAFT", tiers |-> t, leads |-> l,
                          page |-> "OTHERWISE", approved |-> FALSE]
        BY <2>1 DEF createListing
      <3>2. UNCHANGED <<sheet, applied, tx, overlap, moderated, discovery>>
        BY <2>1 DEF createListing
      <3> QED BY <3>1, <3>2 DEF IInv, TypeOK, NeverLiveUnmoderated, MovesAreModerated,
                                ListingStatus, Page, discovery, Can
    <2>2. ASSUME NEW s \in Sessions, Reads(s) \/ Commits(s) \/ abort(s) PROVE IInv'
      BY <2>2, ReadStep, CommitStep
    <2>3. ASSUME NEW j \in Jobs, IndexJobs(j)
          PROVE IInv'
      BY <2>3, DiscoveryStep
    <2>4. CASE boot
      <3>1. /\ UNCHANGED core /\ embedding' = embedding
            /\ index' \in Doc
            /\ job' \in [Jobs -> [kind: JobKind, doc: Doc]]
            /\ warmed' \in BOOLEAN
        BY <2>4 DEF boot, IInv, TypeOK, Doc, JobKind, NoJob
      <3> QED BY <3>1 DEF IInv, TypeOK, NeverLiveUnmoderated, MovesAreModerated, core, Can
    <2>5. CASE UNCHANGED vars
      BY <2>5 DEF vars, core, discovery, IInv, TypeOK, NeverLiveUnmoderated,
                  MovesAreModerated, Can
    <2>6. CASE consult
      BY <2>6 DEF consult, IInv, TypeOK, NeverLiveUnmoderated, MovesAreModerated, Page,
                  discovery, Can
    <2> QED BY <2>1, <2>2, <2>3, <2>4, <2>5, <2>6 DEF Next
  <1> QED BY <1>1, <1>2, PTL DEF Spec

\* Types.
THEOREM ListingTypeCorrect == Spec => []TypeOK
  BY ListingInductive, PTL DEF IInv

\* listing-repository.ts:455: no listing reaches the market but through a
\* moderator, however many calls of whatever roles overlap.
THEOREM ListingModerated == Spec => []NeverLiveUnmoderated
  BY ListingInductive, PTL DEF IInv

-----------------------------------------------------------------------------
(* What holds as long as calls do not overlap                              *)

\* A sheet whose suggestions were or will be applied has been extracted, and
\* stays so or is confirmed: this needs no quiet.
SheetsAdvance ==
    /\ \A x \in applied : sheet[x] \in {"EXTRACTED", "CONFIRMED"}
    /\ \A s \in Sessions : tx[s].op = "APPLY" => sheet[tx[s].sheet] \in {"EXTRACTED", "CONFIRMED"}

\* What a call read is still true.
StillTrue(r) ==
    /\ r.op \in Edits \cup {"ADD_SHEET", "EXTRACT", "APPLY"} => listing.status = "DRAFT"
    /\ r.op = "SUBMIT" => listing.status = "DRAFT" /\ Complete
    /\ r.op = "MOVE" =>
         /\ Edge(r.role, listing.status, r.to)
         /\ r.to = "LIVE" => assertPublishAllowed
         /\ r.to = "PENDING_REVIEW" => Complete

CallsAlone ==
    /\ \A s, t \in Sessions : InCall(s) /\ InCall(t) => s = t
    /\ \A s \in Sessions : StillTrue(tx[s])

Reviewed ==
    /\ listing.status = "PENDING_REVIEW" => Complete
    /\ listing.status = "PENDING_REVIEW" \/ listing.approved => listing.page \in {"AS_IS", "OLDER"}
    /\ listing.status \in {"LIVE", "PAUSED"} =>
         /\ listing.approved
         /\ Complete
         /\ \A x \in Sheets : sheet[x] # "EXTRACTED"
         /\ \A x \in applied : sheet[x] = "CONFIRMED"

NothingUnapproved ==
    index # "UNAPPROVED" /\ embedding # "UNAPPROVED" /\ \A j \in Jobs : job[j].doc # "UNAPPROVED"

QuietInv ==
    IInv /\ SheetsAdvance /\ (~overlap => CallsAlone /\ Reviewed /\ NothingUnapproved)

\* A call that begins has read what is true now.
LEMMA BeginsQuiet ==
    ASSUME QuietInv, IInv', NEW s \in Sessions, NEW r, Call(s, r), ~overlap' => StillTrue(r),
           r.op = "APPLY" => sheet[r.sheet] \in {"EXTRACTED", "CONFIRMED"}
    PROVE  QuietInv'
  <1>1. /\ UNCHANGED <<listing, sheet, applied, index, embedding, job>>
        /\ \A t \in Sessions : tx'[t] = IF t = s THEN r ELSE tx[t]
    BY DEF Call, discovery, QuietInv, IInv, TypeOK
  <1>2. SheetsAdvance'
    BY <1>1 DEF QuietInv, SheetsAdvance
  <1>3. ASSUME ~overlap' PROVE (CallsAlone /\ Reviewed /\ NothingUnapproved)'
    <2>1. ~overlap /\ \A t \in Sessions \ {s} : ~InCall(t)
      BY <1>3 DEF Call
    <2>2. \A t \in Sessions \ {s} : tx[t].op \in {"IDLE", "UPLOADED"}
      BY <2>1 DEF InCall
    <2>3. \A t \in Sessions : StillTrue(tx[t])'
      BY <1>1, <1>3, <2>2 DEF StillTrue, Edits, Complete, assertPublishAllowed
    <2>4. \A t, u \in Sessions : InCall(t)' /\ InCall(u)' => t = u
      BY <1>1, <2>2 DEF InCall
    <2> QED BY <1>1, <2>1, <2>3, <2>4 DEF QuietInv, CallsAlone, Reviewed, NothingUnapproved, Complete
  <1> QED BY <1>2, <1>3 DEF QuietInv

Leaves(s, c) == tx' = [tx EXCEPT ![s] = c]

\* A call that ends was alone, or leaves the listing and its sheets as they are.
LEMMA EndsQuiet ==
    ASSUME QuietInv, IInv', NEW s \in Sessions, NEW c, c.op \in {"IDLE", "UPLOADED"},
           Leaves(s, c), UNCHANGED <<overlap, discovery>>,
           InCall(s) \/ UNCHANGED <<listing, sheet>>,
           SheetsAdvance', ~overlap => Reviewed'
    PROVE  QuietInv'
  <1>1. \A t \in Sessions : tx'[t] = IF t = s THEN c ELSE tx[t]
    BY DEF Leaves, QuietInv, IInv, TypeOK
  <1>2. ASSUME ~overlap PROVE (CallsAlone /\ NothingUnapproved)'
    <2>1. CallsAlone /\ NothingUnapproved
      BY <1>2 DEF QuietInv
    <2>2. NothingUnapproved'
      BY <2>1 DEF NothingUnapproved, discovery
    <2>3. \A t, u \in Sessions : InCall(t)' /\ InCall(u)' => t = u
      BY <1>1, <2>1 DEF CallsAlone, InCall
    <2>4. ASSUME NEW t \in Sessions PROVE StillTrue(tx[t])'
      <3>1. CASE t = s \/ InCall(s)
        <4>1. tx'[t].op \in {"IDLE", "UPLOADED"}
          BY <1>1, <2>1, <3>1 DEF CallsAlone, InCall
        <4> QED BY <4>1 DEF StillTrue, Edits
      <3>2. CASE t # s /\ UNCHANGED <<listing, sheet>>
        BY <1>1, <2>1, <3>2 DEF CallsAlone, StillTrue, Complete, assertPublishAllowed
      <3> QED BY <3>1, <3>2
    <2> QED BY <2>2, <2>3, <2>4 DEF CallsAlone
  <1> QED BY <1>2 DEF QuietInv

LEMMA ReadsQuiet ==
    ASSUME QuietInv, IInv', NEW s \in Sessions, Reads(s)
    PROVE  QuietInv'
  <1>1. ASSUME NEW op \in Edits, edit(s, op) PROVE QuietInv'
    <2> DEFINE r == [Idle EXCEPT !.op = op]
    <2>1. r.op = op /\ op # "APPLY" /\ op # "SUBMIT" /\ op # "MOVE"
      BY DEF Idle, Edits
    <2>2. Call(s, r) /\ listing.status = "DRAFT"
      BY <1>1 DEF edit, assertEditable
    <2> HIDE DEF r
    <2>3. StillTrue(r)
      BY <2>1, <2>2 DEF StillTrue
    <2> QED BY <2>1, <2>2, <2>3, BeginsQuiet
  <1>2. CASE uploadSpecSheet(s)
    <2> DEFINE r == [Idle EXCEPT !.op = "ADD_SHEET"]
    <2>1. r.op = "ADD_SHEET"
      BY DEF Idle
    <2>2. Call(s, r) /\ listing.status = "DRAFT"
      BY <1>2 DEF uploadSpecSheet, assertEditable
    <2> HIDE DEF r
    <2>3. StillTrue(r)
      BY <2>1, <2>2 DEF StillTrue
    <2> QED BY <2>1, <2>2, <2>3, BeginsQuiet
  <1>3. CASE extract(s)
    <2> DEFINE r == [tx[s] EXCEPT !.op = "EXTRACT"]
    <2>1. r.op = "EXTRACT"
      BY DEF QuietInv, IInv, TypeOK
    <2>2. Call(s, r) /\ listing.status = "DRAFT"
      BY <1>3 DEF extract, assertEditable
    <2> HIDE DEF r
    <2>3. StillTrue(r)
      BY <2>1, <2>2 DEF StillTrue
    <2> QED BY <2>1, <2>2, <2>3, BeginsQuiet
  <1>4. ASSUME NEW x \in Sheets, apply(s, x) PROVE QuietInv'
    <2> DEFINE r == [Idle EXCEPT !.op = "APPLY", !.sheet = x]
    <2>1. r.op = "APPLY" /\ r.sheet = x
      BY DEF Idle
    <2>2. Call(s, r) /\ listing.status = "DRAFT" /\ sheet[x] = "EXTRACTED"
      BY <1>4 DEF apply, assertEditable
    <2> HIDE DEF r
    <2>3. StillTrue(r)
      BY <2>1, <2>2 DEF StillTrue
    <2> QED BY <2>1, <2>2, <2>3, BeginsQuiet
  <1>5. ASSUME NEW x \in Sheets, confirm(s, x) PROVE QuietInv'
    <2> DEFINE r == [Idle EXCEPT !.op = "CONFIRM", !.sheet = x]
    <2>1. r.op = "CONFIRM"
      BY DEF Idle
    <2>2. Call(s, r)
      BY <1>5 DEF confirm
    <2> HIDE DEF r
    <2>3. StillTrue(r)
      BY <2>1 DEF StillTrue, Edits
    <2> QED BY <2>1, <2>2, <2>3, BeginsQuiet
  <1>6. CASE submitForReview(s)
    <2>1. PICK a \in Actors : Call(s, [Idle EXCEPT !.op = "SUBMIT", !.role = a])
      BY <1>6 DEF submitForReview
    <2> DEFINE r == [Idle EXCEPT !.op = "SUBMIT", !.role = a]
    <2>2. r.op = "SUBMIT"
      BY DEF Idle
    <2>3. Call(s, r) /\ listing.status = "DRAFT" /\ Complete
      BY <1>6, <2>1 DEF submitForReview
    <2> HIDE DEF r
    <2>4. StillTrue(r)
      BY <2>2, <2>3 DEF StillTrue
    <2> QED BY <2>2, <2>3, <2>4, BeginsQuiet
  <1>7. ASSUME NEW role, NEW to, BeginMove(s, role, to), to = "PENDING_REVIEW" /\ ~overlap' => Complete
        PROVE  QuietInv'
    <2> DEFINE r == [op |-> "MOVE", sheet |-> NoSheet, to |-> to, role |-> role]
    <2>1. r.op = "MOVE" /\ r.to = to /\ r.role = role
      OBVIOUS
    <2>2. Call(s, r) /\ Edge(role, listing.status, to) /\ (to = "LIVE" => assertPublishAllowed)
      BY <1>7 DEF BeginMove
    <2> HIDE DEF r
    <2>3. ~overlap' => StillTrue(r)
      BY <1>7, <2>1, <2>2 DEF StillTrue, Edits
    <2> QED BY <2>1, <2>2, <2>3, BeginsQuiet
  <1>8. CASE submit(s)
    <2>1. tx[s].op = "SUBMIT" /\ BeginMove(s, tx[s].role, "PENDING_REVIEW")
      BY <1>8 DEF submit
    <2>2. ~overlap' => ~overlap
      BY <2>1 DEF BeginMove, Call
    <2>3. ~overlap' => Complete
      BY <2>1, <2>2 DEF QuietInv, CallsAlone, StillTrue
    <2> QED BY <1>7, <2>1, <2>3
  <1>9. CASE transition(s)
    <2>1. PICK role \in Actors : \E m \in Methods : BeginMove(s, role, m.to)
      BY <1>9 DEF transition
    <2>2. PICK m \in Methods : BeginMove(s, role, m.to)
      BY <2>1
    <2>3. m.to # "PENDING_REVIEW"
      BY DEF Methods
    <2> QED BY <1>7, <2>2, <2>3
  <1> QED BY <1>1, <1>2, <1>3, <1>4, <1>5, <1>6, <1>8, <1>9 DEF Reads

\* A DRAFT promises a moderator nothing, as long as it is not approved.
LEMMA DraftsAreUnreviewed ==
    ASSUME listing'.status \in {"DRAFT", "REJECTED"}, ~listing'.approved
    PROVE  Reviewed'
  BY DEF Reviewed

LEMMA CommitsQuiet ==
    ASSUME QuietInv, IInv', NEW s \in Sessions, Commits(s) \/ abort(s)
    PROVE  QuietInv'
  <1>1. Idle.op \in {"IDLE", "UPLOADED"}
    BY DEF Idle
  <1>2. listing \in [status: ListingStatus \cup {"NONE"}, tiers: BOOLEAN, leads: BOOLEAN, page: Page, approved: BOOLEAN]
    BY DEF QuietInv, IInv, TypeOK
  <1>3. Return(s) =>
          Leaves(s, Idle) /\ \A t \in Sessions : tx'[t].op = "APPLY" => tx'[t] = tx[t]
    BY DEF Return, Leaves, QuietInv, IInv, TypeOK, Idle
  \* Edits of a draft.
  <1>4. ASSUME NEW t, NEW l, listing' = Rewritten(t, l), Return(s),
               tx[s].op \in Edits \cup {"APPLY"},
               UNCHANGED <<sheet, overlap, discovery>>,
               \A x \in applied' : sheet[x] \in {"EXTRACTED", "CONFIRMED"}
        PROVE  QuietInv'
    <2>1. InCall(s)
      BY <1>4 DEF InCall, Edits
    <2>2. ~overlap => listing.status = "DRAFT"
      BY <1>4 DEF QuietInv, CallsAlone, StillTrue
    <2>3. listing'.status = listing.status /\ ~listing'.approved
      BY <1>2, <1>4 DEF Rewritten
    <2>4. SheetsAdvance'
      BY <1>3, <1>4 DEF QuietInv, SheetsAdvance
    <2>5. ~overlap => Reviewed'
      BY <2>2, <2>3, DraftsAreUnreviewed
    <2> QED BY <1>1, <1>3, <1>4, <2>1, <2>4, <2>5, EndsQuiet
  <1>5. \A x \in applied : sheet[x] \in {"EXTRACTED", "CONFIRMED"}
    BY DEF QuietInv, SheetsAdvance
  <1>6. CASE updateListingDraft(s)
    BY <1>4, <1>6 DEF updateListingDraft, Edits
  <1>7. CASE replaceMoqLadder(s)
    BY <1>4, <1>5, <1>7 DEF replaceMoqLadder, Edits
  <1>8. CASE replaceLeadTimeRules(s)
    BY <1>4, <1>5, <1>8 DEF replaceLeadTimeRules, Edits
  <1>9. CASE replaceVariants(s) \/ addImage(s) \/ confirmImage(s)
    BY <1>4, <1>5, <1>9 DEF replaceVariants, addImage, confirmImage, Detailed, Edits
  <1>10. CASE applySpecSuggestions(s)
    <2>1. sheet[tx[s].sheet] \in {"EXTRACTED", "CONFIRMED"}
      BY <1>10 DEF applySpecSuggestions, QuietInv, SheetsAdvance
    <2> QED BY <1>4, <1>5, <1>10, <2>1 DEF applySpecSuggestions
  \* Sheets move on.
  <1>11. ASSUME NEW x \in Sheets, NEW status \in {"EXTRACTED", "CONFIRMED"}, Return(s), InCall(s),
                sheet' = [sheet EXCEPT ![x] = status],
                UNCHANGED <<listing, applied, overlap, discovery>>,
                ~overlap /\ status = "EXTRACTED" => listing.status = "DRAFT"
         PROVE  QuietInv'
    <2>1. \A y \in Sheets : sheet'[y] = IF y = x THEN status ELSE sheet[y]
      BY <1>11 DEF QuietInv, IInv, TypeOK
    <2>2. /\ applied \subseteq Sheets
          /\ \A t \in Sessions : tx[t].op = "APPLY" => tx[t].sheet \in Sheets
      BY DEF QuietInv, IInv, TypeOK
    <2>3. SheetsAdvance'
      BY <1>3, <1>11, <2>1, <2>2 DEF QuietInv, SheetsAdvance
    <2>4. ~overlap => Reviewed'
      BY <1>11, <2>1, <2>2 DEF QuietInv, Reviewed, Complete
    <2> QED BY <1>1, <1>3, <1>11, <2>3, <2>4, EndsQuiet
  <1>12. CASE recordSpecExtraction(s)
    <2>1. tx[s].sheet \in Sheets /\ tx[s].op = "EXTRACT" /\ InCall(s)
      BY <1>12 DEF recordSpecExtraction, QuietInv, IInv, TypeOK, InCall
    <2>2. ~overlap => listing.status = "DRAFT"
      BY <2>1 DEF QuietInv, CallsAlone, StillTrue
    <2> QED BY <1>11, <1>12, <2>1, <2>2 DEF recordSpecExtraction
  <1>13. CASE confirmSpecSheet(s)
    <2>1. tx[s].sheet \in Sheets /\ tx[s].op = "CONFIRM" /\ InCall(s)
      BY <1>13 DEF confirmSpecSheet, QuietInv, IInv, TypeOK, InCall
    <2> QED BY <1>11, <1>13, <2>1 DEF confirmSpecSheet
  <1>14. CASE abort(s)
    <2>1. UNCHANGED <<listing, sheet, applied, overlap, discovery>> /\ Return(s)
      BY <1>14 DEF abort
    <2>2. SheetsAdvance'
      BY <1>3, <2>1 DEF QuietInv, SheetsAdvance
    <2>3. ~overlap => Reviewed'
      BY <2>1 DEF QuietInv, Reviewed, Complete
    <2> QED BY <1>1, <1>3, <2>1, <2>2, <2>3, EndsQuiet
  <1>15. CASE addSpecSheet(s)
    <2>1. PICK x \in Sheets :
            /\ sheet[x] = "NONE"
            /\ sheet' = [sheet EXCEPT ![x] = "UPLOADED"]
            /\ tx' = [tx EXCEPT ![s] = [Idle EXCEPT !.op = "UPLOADED", !.sheet = x]]
      BY <1>15 DEF addSpecSheet
    <2> DEFINE c == [Idle EXCEPT !.op = "UPLOADED", !.sheet = x]
    <2>2. c.op = "UPLOADED"
      BY DEF Idle
    <2>3. UNCHANGED <<listing, applied, overlap, discovery>> /\ InCall(s)
      BY <1>15 DEF addSpecSheet, InCall
    <2>4. Leaves(s, c)
      BY <2>1 DEF Leaves
    <2> HIDE DEF c
    <2>5. \A t \in Sessions : tx'[t] = IF t = s THEN c ELSE tx[t]
      BY <2>4 DEF Leaves, QuietInv, IInv, TypeOK
    <2>6. \A y \in Sheets : sheet'[y] = IF y = x THEN "UPLOADED" ELSE sheet[y]
      BY <2>1 DEF QuietInv, IInv, TypeOK
    <2>7. /\ applied \subseteq Sheets
          /\ \A t \in Sessions : tx[t].op = "APPLY" => tx[t].sheet \in Sheets
      BY DEF QuietInv, IInv, TypeOK
    <2>8. SheetsAdvance'
      BY <2>1, <2>2, <2>3, <2>5, <2>6, <2>7 DEF QuietInv, SheetsAdvance
    <2>9. ~overlap => Reviewed'
      BY <2>1, <2>3, <2>6, <2>7 DEF QuietInv, Reviewed, Complete
    <2> QED BY <2>2, <2>3, <2>4, <2>8, <2>9, EndsQuiet
  <1>16. CASE move(s)
    <2> DEFINE to == tx[s].to
               approved == to = "LIVE" /\ Can(tx[s].role, "moderation:manage")
    <2>1. /\ tx[s].op = "MOVE" /\ InCall(s)
          /\ listing' = [listing EXCEPT !.status = to, !.page = PageAt(to),
                                        !.approved = @ \/ approved]
          /\ Return(s)
          /\ UNCHANGED <<sheet, applied, overlap, discovery>>
      BY <1>16 DEF move, Approves, InCall
    <2>2. /\ listing'.status = to /\ listing'.approved = (listing.approved \/ approved)
          /\ listing'.page = PageAt(to)
          /\ Complete' = Complete
      BY <1>2, <2>1 DEF Complete
    <2>3. SheetsAdvance'
      BY <1>3, <2>1 DEF QuietInv, SheetsAdvance
    <2>4. ASSUME ~overlap PROVE Reviewed'
      <3>1. /\ Edge(tx[s].role, listing.status, to)
            /\ to = "LIVE" => assertPublishAllowed
            /\ to = "PENDING_REVIEW" => Complete
            /\ Reviewed
        BY <2>1, <2>4 DEF QuietInv, CallsAlone, StillTrue
      <3>2. /\ to = "LIVE" => \/ listing.status = "PAUSED"
                              \/ listing.status = "PENDING_REVIEW" /\ approved
            /\ to = "PAUSED" => listing.status = "LIVE"
        BY <3>1, EdgesToMarket
      <3>3. applied \subseteq Sheets
        BY DEF QuietInv, IInv, TypeOK
      <3>8. approved => to = "LIVE"
        OBVIOUS
      <3> HIDE DEF approved
      <3>4. \A x \in Sheets : to = "LIVE" => sheet[x] # "EXTRACTED"
        BY <3>1 DEF assertPublishAllowed
      <3>5. to \in {"LIVE", "PAUSED"} =>
              listing'.approved /\ Complete /\ \A x \in Sheets : sheet[x] # "EXTRACTED"
        BY <2>2, <3>1, <3>2, <3>4 DEF Reviewed
      <3>6. to \in {"LIVE", "PAUSED"} => \A x \in applied : sheet[x] = "CONFIRMED"
        BY <1>5, <3>3, <3>5
      <3>7. ASSUME to = "PENDING_REVIEW" \/ listing'.approved
            PROVE  listing'.page \in {"AS_IS", "OLDER"}
        <4>1. CASE listing.approved
          BY <2>2, <3>1, <4>1 DEF Reviewed, PageAt
        <4>2. CASE ~listing.approved /\ to = "PENDING_REVIEW"
          BY <2>2, <4>2 DEF PageAt
        <4>3. CASE ~listing.approved /\ approved
          <5>1. to = "LIVE" /\ listing.status # "PAUSED"
            BY <3>1, <3>8, <4>3 DEF Reviewed
          <5> QED BY <2>2, <3>1, <3>2, <5>1 DEF Reviewed, PageAt
        <4> QED BY <2>2, <3>7, <4>1, <4>2, <4>3
      <3> QED BY <2>1, <2>2, <3>1, <3>5, <3>6, <3>7 DEF Reviewed
    <2> QED BY <1>1, <1>3, <2>1, <2>3, <2>4, EndsQuiet
  <1> QED
    BY <1>6, <1>7, <1>8, <1>9, <1>10, <1>12, <1>13, <1>14, <1>15, <1>16 DEF Commits

\* What an index job loads is LIVE, so it is approved.
LEMMA DiscoveryQuiet ==
    ASSUME QuietInv, IInv', NEW j \in Jobs, IndexJobs(j)
    PROVE  QuietInv'
  <1>1. UNCHANGED core
    BY DEF IndexJobs, syncListing, syncAllListings, backfillListingEmbeddings, upsert, Load
  <1>2. SheetsAdvance' /\ (~overlap' => CallsAlone' /\ Reviewed')
    BY <1>1 DEF core, QuietInv, SheetsAdvance, CallsAlone, InCall, StillTrue, Reviewed, Complete,
                assertPublishAllowed, Edge, Can
  <1>3. ASSUME ~overlap PROVE NothingUnapproved'
    <2>1. NothingUnapproved /\ (listing.status = "LIVE" => listing.approved)
      BY <1>3 DEF QuietInv, Reviewed
    <2>2. job \in [Jobs -> [kind: JobKind, doc: Doc]]
      BY DEF QuietInv, IInv, TypeOK
    <2>3. ASSUME NEW kind, Load(j, kind) PROVE NothingUnapproved'
      BY <2>1, <2>2, <2>3 DEF Load, Live, Document, NothingUnapproved
    <2>4. CASE upsert(j)
      BY <2>1, <2>2, <2>4 DEF upsert, NothingUnapproved, NoJob
    <2> QED BY <2>3, <2>4 DEF IndexJobs, syncListing, syncAllListings, backfillListingEmbeddings
  <1> QED BY <1>1, <1>2, <1>3 DEF core, QuietInv

THEOREM QuietInductive == Spec => []QuietInv
  <1>1. Init /\ IInv => QuietInv
    BY DEF Init, QuietInv, SheetsAdvance, CallsAlone, InCall, StillTrue, Edits, Idle, Reviewed,
           NothingUnapproved, NoJob
  <1>2. QuietInv /\ [Next]_vars /\ IInv' => QuietInv'
    <2> SUFFICES ASSUME QuietInv, [Next]_vars, IInv' PROVE QuietInv'
      OBVIOUS
    <2>1. CASE createListing
      <3>1. /\ UNCHANGED <<sheet, applied, tx, overlap, discovery>>
            /\ listing.status = "NONE" /\ listing'.status = "DRAFT" /\ ~listing'.approved
        BY <2>1 DEF createListing
      <3>2. SheetsAdvance' /\ (~overlap' => NothingUnapproved' /\ Reviewed')
        BY <3>1 DEF QuietInv, SheetsAdvance, NothingUnapproved, Reviewed, discovery
      <3>3. ASSUME ~overlap PROVE CallsAlone'
        <4>1. \A s \in Sessions : tx[s].op # "SUBMIT" /\ tx[s].op # "MOVE"
          BY <1>1, <3>1, <3>3 DEF QuietInv, CallsAlone, StillTrue, Edge, LISTING_TRANSITIONS
        <4> QED BY <3>1, <3>3, <4>1 DEF QuietInv, CallsAlone, InCall, StillTrue
      <3> QED BY <3>1, <3>2, <3>3 DEF QuietInv
    <2>2. ASSUME NEW s \in Sessions, Reads(s) \/ Commits(s) \/ abort(s) PROVE QuietInv'
      BY <2>2, ReadsQuiet, CommitsQuiet
    <2>3. ASSUME NEW j \in Jobs, IndexJobs(j) PROVE QuietInv'
      BY <2>3, DiscoveryQuiet
    <2>4. CASE boot \/ UNCHANGED vars
      <3>1. UNCHANGED <<core, embedding>> /\ (index' = index \/ index' = "NONE")
        BY <2>4 DEF boot, vars, discovery
      <3>2. \A j \in Jobs : job'[j].doc = job[j].doc \/ job'[j].doc = "NONE"
        BY <2>4 DEF boot, vars, discovery, NoJob
      <3> QED BY <3>1, <3>2 DEF core, QuietInv, SheetsAdvance, CallsAlone, InCall, StillTrue, Reviewed,
                Complete, assertPublishAllowed, Edge, Can, NothingUnapproved
    <2>5. CASE consult
      <3>1. /\ UNCHANGED <<sheet, applied, tx, overlap, discovery>>
            /\ listing'.status = listing.status /\ listing'.approved = listing.approved
            /\ listing'.tiers = listing.tiers /\ listing'.leads = listing.leads
            /\ listing'.page = "AS_IS"
        BY <2>5 DEF consult, QuietInv, IInv, TypeOK
      <3> QED BY <3>1 DEF QuietInv, SheetsAdvance, CallsAlone, InCall, StillTrue, Reviewed,
                Complete, assertPublishAllowed, Edge, Can, NothingUnapproved, discovery
    <2> QED BY <2>1, <2>2, <2>3, <2>4, <2>5 DEF Next
  <1>3. Spec => []IInv
    BY ListingInductive
  <1> QED BY <1>1, <1>2, <1>3, PTL DEF Spec

\* listing-state.ts:118: as long as calls do not overlap, what is on the market
\* was approved, on a page that says the same or was overtaken by a submission,
\* and is complete and confirmed by a person.
THEOREM ListingReviewed == Spec => []LiveIsReviewed
  <1>1. QuietInv => LiveIsReviewed
    BY DEF QuietInv, Reviewed, LiveIsReviewed
  <1> QED BY <1>1, QuietInductive, PTL

\* For any actors, sessions and sheets, there is no way to the market around a
\* moderator, and without overlap none for what was not read but by submitting
\* it again behind the moderator's page.
THEOREM MarketModerated == Spec => []MarketIsModerated
<1>1. NeverLiveUnmoderated /\ LiveIsReviewed <=> MarketIsModerated
  BY DEF MarketIsModerated
<1> QED BY ListingModerated, ListingReviewed, <1>1, PTL

\* search/src/index-sync.ts:29: nor does discovery show what no moderator
\* published.
THEOREM DiscoveryReviewed == Spec => []DraftsStayOutOfDiscovery
  <1>1. QuietInv => DraftsStayOutOfDiscovery
    BY DEF QuietInv, NothingUnapproved, DraftsStayOutOfDiscovery
  <1> QED BY <1>1, QuietInductive, PTL

=============================================================================
