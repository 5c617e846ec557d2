-------------------------- MODULE ListingLifecycle --------------------------
(***************************************************************************)
(* One listing in packages/core/src: the lifecycle of listing-state.ts, the*)
(* repository calls of listing-repository.ts that edit it and move it, its *)
(* spec sheets, and the search index and embeddings built from it in       *)
(* packages/search/src.                                                    *)
(*                                                                         *)
(* A repository call reads the listing, decides, and updates it by id: two *)
(* steps, between which other calls may commit.  What the listing says is  *)
(* abstracted to what the properties tell apart: what a moderator read of  *)
(* it and published, whether it has price tiers and lead times, and which  *)
(* sheets' suggestions are in its attributes.                              *)
(***************************************************************************)
EXTENDS Permissions

CONSTANTS
    Actors,     \* roles of the memberships that call
    Sheets,     \* SpecSheet rows the listing may ever get
    NoSheet,
    Sessions,   \* repository calls that may be in flight at once
    Jobs        \* index jobs that may be in flight at once

ASSUME ActorsAssumption == Actors \subseteq Role
ASSUME NoSheetAssumption == NoSheet \notin Sheets

VARIABLES
    listing,    \* the Listing row, its tiers and lead times; as history, whether
                \* what it says is approved, and how the page a moderator last
                \* read before that compares with it
    sheet,      \* extractionStatus of the SpecSheet rows
    applied,    \* sheets whose suggestions are in the listing's attributes
    tx,         \* per session, the call in flight after its reads
    overlap,    \* two calls have been in flight together
    moderated,  \* a moderator has published this listing
    index,      \* the listing's document in the search index
    embedding,  \* the listing's TITLE embedding
    job,        \* per index job, the document it has loaded
    warmed      \* this web process has filled its in-memory index

core == <<listing, sheet, applied, tx, overlap, moderated>>
discovery == <<index, embedding, job, warmed>>
vars == <<core, discovery>>

ListingStatus == {"DRAFT", "PENDING_REVIEW", "LIVE", "PAUSED", "REJECTED"}
SheetStatus == {"NONE", "UPLOADED", "EXTRACTED", "CONFIRMED"}
Page == {"AS_IS", "OTHERWISE", "OLDER"}
Doc == {"NONE", "APPROVED", "UNAPPROVED"}
JobKind == {"NONE", "SYNC", "WARM_UP", "EMBED"}
Edits == {"UPDATE", "DETAILS", "LADDER", "LEAD_TIMES"}
Ops == Edits \cup {"IDLE", "ADD_SHEET", "UPLOADED", "EXTRACT", "APPLY", "CONFIRM",
                   "SUBMIT", "MOVE"}

Idle == [op |-> "IDLE", sheet |-> NoSheet, to |-> "NONE", role |-> "NONE"]
NoJob == [kind |-> "NONE", doc |-> "NONE"]

TypeOK ==
    /\ listing \in [status: ListingStatus \cup {"NONE"}, tiers: BOOLEAN, leads: BOOLEAN,
                    page: Page, approved: BOOLEAN]
    /\ sheet \in [Sheets -> SheetStatus]
    /\ applied \subseteq Sheets
    /\ tx \in [Sessions -> [op: Ops, sheet: Sheets \cup {NoSheet},
                            to: ListingStatus \cup {"NONE"}, role: Role \cup {"NONE"}]]
    /\ \A s \in Sessions :
         /\ tx[s].op \in {"UPLOADED", "EXTRACT", "APPLY", "CONFIRM"} => tx[s].sheet \in Sheets
         /\ tx[s].op \in {"SUBMIT", "MOVE"} => tx[s].role \in Role
         /\ tx[s].op = "MOVE" => tx[s].to \in ListingStatus
    /\ overlap \in BOOLEAN /\ moderated \in BOOLEAN
    /\ index \in Doc /\ embedding \in Doc
    /\ job \in [Jobs -> [kind: JobKind, doc: Doc]]
    /\ warmed \in BOOLEAN

Init ==
    /\ listing = [status |-> "NONE", tiers |-> FALSE, leads |-> FALSE,
                  page |-> "OTHERWISE", approved |-> FALSE]
    /\ sheet = [x \in Sheets |-> "NONE"]
    /\ applied = {}
    /\ tx = [s \in Sessions |-> Idle]
    /\ overlap = FALSE
    /\ moderated = FALSE
    /\ index = "NONE"
    /\ embedding = "NONE"
    /\ job = [j \in Jobs |-> NoJob]
    /\ warmed = FALSE

-----------------------------------------------------------------------------
(* The lifecycle: edges are found by where they lead, and carry the        *)
(* permission they need.                                                   *)

LISTING_TRANSITIONS ==
    {[from |-> "DRAFT", to |-> "PENDING_REVIEW", permission |-> "listing:manage"],
     [from |-> "PENDING_REVIEW", to |-> "LIVE", permission |-> "moderation:manage"],
     [from |-> "PENDING_REVIEW", to |-> "REJECTED", permission |-> "moderation:manage"],
     [from |-> "PENDING_REVIEW", to |-> "DRAFT", permission |-> "listing:manage"],
     [from |-> "LIVE", to |-> "PAUSED", permission |-> "listing:manage"],
     [from |-> "PAUSED", to |-> "LIVE", permission |-> "listing:manage"],
     [from |-> "PAUSED", to |-> "DRAFT", permission |-> "listing:manage"],
     [from |-> "REJECTED", to |-> "DRAFT", permission |-> "listing:manage"]}

\* Mutant of Edge: the permission asked is the call's own, not the edge's.
EdgeForAnyone(role, from, to) ==
    \E e \in LISTING_TRANSITIONS : e.from = from /\ e.to = to

Edge(role, from, to) ==
    \E e \in LISTING_TRANSITIONS : e.from = from /\ e.to = to /\ Can(role, e.permission)

\* The repository methods: what each asks before the edge, and where it leads.
Methods ==
    {[asks |-> "moderation:manage", to |-> "LIVE"],       \* publish
     [asks |-> "moderation:manage", to |-> "REJECTED"],   \* reject
     [asks |-> "listing:manage", to |-> "PAUSED"],        \* unpublish
     [asks |-> "listing:manage", to |-> "LIVE"],          \* republish
     [asks |-> "listing:manage", to |-> "DRAFT"]}         \* resumeEditing, withdraw, revise

\* Mutant of assertPublishAllowed: the gate lets every sheet through.
PublishAnything == TRUE

assertPublishAllowed == \A x \in Sheets : sheet[x] # "EXTRACTED"

assertEditable == listing.status = "DRAFT"

Complete == listing.tiers /\ listing.leads

-----------------------------------------------------------------------------
(* Calls *)

InCall(s) == tx[s].op \notin {"IDLE", "UPLOADED"}

Call(s, record) ==
    /\ tx' = [tx EXCEPT ![s] = record]
    /\ overlap' = (overlap \/ \E t \in Sessions \ {s} : InCall(t))
    /\ UNCHANGED <<listing, sheet, applied, moderated, discovery>>

Return(s) == tx' = [tx EXCEPT ![s] = Idle]

\* A call fails after its reads and nothing of it is written.
abort(s) ==
    /\ tx[s].op # "IDLE"
    /\ Return(s)
    /\ UNCHANGED <<listing, sheet, applied, overlap, moderated, discovery>>

createListing ==
    /\ listing.status = "NONE"
    /\ \E r \in Actors : Can(r, "listing:manage")
    /\ \E t, l \in BOOLEAN :
         listing' = [status |-> "DRAFT", tiers |-> t, leads |-> l,
                     page |-> "OTHERWISE", approved |-> FALSE]
    /\ UNCHANGED <<sheet, applied, tx, overlap, moderated, discovery>>

-----------------------------------------------------------------------------
(* Edits: the core, the ladder, the lead times; variants and images        *)

edit(s, op) ==
    /\ tx[s].op = "IDLE"
    /\ \E r \in Actors : Can(r, "listing:manage")
    /\ assertEditable
    /\ Call(s, [Idle EXCEPT !.op = op])

\* The listing says something else than any page read of it, and than what was
\* approved.
Rewritten(t, l) ==
    [listing EXCEPT !.tiers = t, !.leads = l, !.page = "OTHERWISE", !.approved = FALSE]

\* Attributes are replaced whole: a person typed them.
updateListingDraft(s) ==
    /\ tx[s].op = "UPDATE"
    /\ listing' = Rewritten(listing.tiers, listing.leads)
    /\ applied' = {}
    /\ Return(s)
    /\ UNCHANGED <<sheet, overlap, moderated, discovery>>

replaceMoqLadder(s) ==
    /\ tx[s].op = "LADDER"
    /\ \E t \in BOOLEAN : listing' = Rewritten(t, listing.leads)
    /\ Return(s)
    /\ UNCHANGED <<sheet, applied, overlap, moderated, discovery>>

replaceLeadTimeRules(s) ==
    /\ tx[s].op = "LEAD_TIMES"
    /\ \E l \in BOOLEAN : listing' = Rewritten(listing.tiers, l)
    /\ Return(s)
    /\ UNCHANGED <<sheet, applied, overlap, moderated, discovery>>

\* The variants and the images, in flight as one kind of call: no property tells
\* them apart.  The last two rewrite the whole images column.
Detailed(s) ==
    /\ tx[s].op = "DETAILS"
    /\ listing' = Rewritten(listing.tiers, listing.leads)
    /\ Return(s)
    /\ UNCHANGED <<sheet, applied, overlap, moderated, discovery>>

replaceVariants(s) == Detailed(s)
addImage(s) == Detailed(s)
confirmImage(s) == Detailed(s)

-----------------------------------------------------------------------------
(* Spec sheets: uploaded, extracted by the machine, applied and confirmed  *)
(* by people                                                               *)

addSpecSheet(s) ==
    /\ tx[s].op = "ADD_SHEET"
    /\ \E x \in Sheets :
         /\ sheet[x] = "NONE"
         /\ sheet' = [sheet EXCEPT ![x] = "UPLOADED"]
         /\ tx' = [tx EXCEPT ![s] = [Idle EXCEPT !.op = "UPLOADED", !.sheet = x]]
    /\ UNCHANGED <<listing, applied, overlap, moderated, discovery>>

uploadSpecSheet(s) ==
    /\ tx[s].op = "IDLE"
    /\ \E r \in Actors : Can(r, "listing:manage")
    /\ assertEditable
    /\ Call(s, [Idle EXCEPT !.op = "ADD_SHEET"])

\* The same request goes on with the extraction, a second call.
extract(s) ==
    /\ tx[s].op = "UPLOADED"
    /\ assertEditable
    /\ Call(s, [tx[s] EXCEPT !.op = "EXTRACT"])

recordSpecExtraction(s) ==
    /\ tx[s].op = "EXTRACT"
    /\ sheet' = [sheet EXCEPT ![tx[s].sheet] = "EXTRACTED"]
    /\ Return(s)
    /\ UNCHANGED <<listing, applied, overlap, moderated, discovery>>

apply(s, x) ==
    /\ tx[s].op = "IDLE"
    /\ \E r \in Actors : Can(r, "listing:manage")
    /\ assertEditable
    /\ sheet[x] = "EXTRACTED"
    /\ Call(s, [Idle EXCEPT !.op = "APPLY", !.sheet = x])

applySpecSuggestions(s) ==
    /\ tx[s].op = "APPLY"
    /\ listing' = Rewritten(listing.tiers, listing.leads)
    /\ applied' = applied \cup {tx[s].sheet}
    /\ Return(s)
    /\ UNCHANGED <<sheet, overlap, moderated, discovery>>

\* A confirmation asks neither for a draft nor for an extraction.
confirm(s, x) ==
    /\ tx[s].op = "IDLE"
    /\ \E r \in Actors : Can(r, "listing:manage")
    /\ sheet[x] # "NONE"
    /\ Call(s, [Idle EXCEPT !.op = "CONFIRM", !.sheet = x])

confirmSpecSheet(s) ==
    /\ tx[s].op = "CONFIRM"
    /\ sheet' = [sheet EXCEPT ![tx[s].sheet] = "CONFIRMED"]
    /\ Return(s)
    /\ UNCHANGED <<listing, applied, overlap, moderated, discovery>>

-----------------------------------------------------------------------------
(* Moves *)

\* A moderator reads the submitted listing, on a page that is not the repository's:
\* its own editor is for the listing's organization only.
consult ==
    /\ listing.status = "PENDING_REVIEW" /\ ~listing.approved
    /\ \E r \in Actors : Can(r, "moderation:manage")
    /\ listing' = [listing EXCEPT !.page = "AS_IS"]
    /\ UNCHANGED <<sheet, applied, tx, overlap, moderated, discovery>>

\* A publication names the listing, and nothing of what the moderator has read.
Approves(role, to) == to = "LIVE" /\ Can(role, "moderation:manage")

\* #transition: one transaction reads the row, asks the edge, the role and
\* the gate, and updates by id.
BeginMove(s, role, to) ==
    /\ listing.status # "NONE"
    /\ Edge(role, listing.status, to)
    /\ to = "LIVE" => assertPublishAllowed
    /\ Call(s, [op |-> "MOVE", sheet |-> NoSheet, to |-> to, role |-> role])

\* A submission reads the draft and its completeness before that transaction.
submitForReview(s) ==
    /\ tx[s].op = "IDLE"
    /\ listing.status = "DRAFT"
    /\ Complete
    /\ \E r \in Actors :
         /\ Can(r, "listing:manage")
         /\ Call(s, [Idle EXCEPT !.op = "SUBMIT", !.role = r])

submit(s) ==
    /\ tx[s].op = "SUBMIT"
    /\ BeginMove(s, tx[s].role, "PENDING_REVIEW")

transition(s) ==
    /\ tx[s].op = "IDLE"
    /\ \E r \in Actors, m \in Methods :
         /\ Can(r, m.asks)
         /\ BeginMove(s, r, m.to)

\* At a submission, a page that says something else, or was never read, is older
\* than what is submitted.
PageAt(to) ==
    IF listing.approved \/ listing.page = "AS_IS" \/ to = "LIVE" THEN listing.page
    ELSE IF to = "PENDING_REVIEW" THEN "OLDER" ELSE "OTHERWISE"

move(s) ==
    LET approved == Approves(tx[s].role, tx[s].to)
    IN  /\ tx[s].op = "MOVE"
        /\ listing' = [listing EXCEPT !.status = tx[s].to, !.page = PageAt(tx[s].to),
                                      !.approved = @ \/ approved]
        /\ moderated' = (moderated \/ approved)
        /\ Return(s)
        /\ UNCHANGED <<sheet, applied, overlap, discovery>>

-----------------------------------------------------------------------------
(* Discovery: jobs load the live listing and upsert what they built        *)

Document == IF listing.approved THEN "APPROVED" ELSE "UNAPPROVED"

\* Mutant of Live: the graph is loaded whatever the status.
Existing == listing.status # "NONE"

Live == listing.status = "LIVE"

Load(j, kind) ==
    /\ job[j] = NoJob
    /\ Live
    /\ job' = [job EXCEPT ![j] = [kind |-> kind, doc |-> Document]]
    /\ UNCHANGED <<core, index, embedding, warmed>>

\* The queue's handler.  Nothing in the repository enqueues it: it may run at
\* any time, or never.
syncListing(j) == Load(j, "SYNC")

\* The in-memory index is filled once per web process, by one job.
syncAllListings(j) ==
    /\ ~warmed
    /\ \A k \in Jobs : job[k].kind # "WARM_UP"
    /\ Load(j, "WARM_UP")

\* Existing embeddings are kept, unless the operator asks to overwrite them.
backfillListingEmbeddings(j) ==
    /\ \E overwrite \in BOOLEAN : overwrite \/ embedding = "NONE"
    /\ Load(j, "EMBED")

\* Documents are replaced; a listing that left the market has none to upsert.
upsert(j) ==
    /\ job[j].kind # "NONE"
    /\ index' = IF job[j].kind = "EMBED" THEN index ELSE job[j].doc
    /\ embedding' = IF job[j].kind = "EMBED" THEN job[j].doc ELSE embedding
    /\ warmed' = (warmed \/ job[j].kind = "WARM_UP")
    /\ job' = [job EXCEPT ![j] = NoJob]
    /\ UNCHANGED core

\* A web process starts, with an empty index and nothing in flight.
boot ==
    /\ index' = "NONE"
    /\ warmed' = FALSE
    /\ job' = [j \in Jobs |-> IF job[j].kind = "EMBED" THEN job[j] ELSE NoJob]
    /\ UNCHANGED <<core, embedding>>

-----------------------------------------------------------------------------

Reads(s) ==
    \/ \E op \in Edits : edit(s, op)
    \/ uploadSpecSheet(s)
    \/ extract(s)
    \/ \E x \in Sheets : apply(s, x) \/ confirm(s, x)
    \/ submitForReview(s)
    \/ submit(s)
    \/ transition(s)

Commits(s) ==
    \/ updateListingDraft(s)
    \/ replaceMoqLadder(s)
    \/ replaceLeadTimeRules(s)
    \/ replaceVariants(s)
    \/ addImage(s)
    \/ confirmImage(s)
    \/ addSpecSheet(s)
    \/ recordSpecExtraction(s)
    \/ applySpecSuggestions(s)
    \/ confirmSpecSheet(s)
    \/ move(s)

IndexJobs(j) ==
    \/ syncListing(j) \/ syncAllListings(j) \/ backfillListingEmbeddings(j)
    \/ upsert(j)

Next ==
    \/ createListing
    \/ consult
    \/ \E s \in Sessions : Reads(s) \/ Commits(s) \/ abort(s)
    \/ \E j \in Jobs : IndexJobs(j)
    \/ boot

Spec == Init /\ [][Next]_vars

-----------------------------------------------------------------------------
(* Properties *)

\* listing-repository.ts:455, listing-state.ts:41.  publish and republish lead
\* to the same status and the edge is found by where it leads: whatever the
\* call, its role and the calls it overlaps with, a listing is on the market,
\* or paused off it, only if a moderator once published it.
NeverLiveUnmoderated == listing.status \in {"LIVE", "PAUSED"} => moderated

\* listing-repository.ts:306, :431, :471, :480, listing-state.ts:118.  As long as
\* calls do not overlap, a listing that is or was on the market since its last
\* draft is complete, no machine suggestion in it, or waiting beside it, lacks a
\* person's confirmation, and it says what the moderator read of it, unless the
\* moderator read nothing since its submission: the publication names the
\* listing only, so one withdrawn, edited and submitted again behind the page
\* is published unread, and no other.
LiveIsReviewed ==
    ~overlap /\ listing.status \in {"LIVE", "PAUSED"} =>
        /\ listing.approved /\ listing.page \in {"AS_IS", "OLDER"}
        /\ Complete
        /\ \A x \in Sheets : sheet[x] # "EXTRACTED"
        /\ \A x \in applied : sheet[x] = "CONFIRMED"

\* Moderation before the market: no path around the moderator, and nothing on
\* the market that the moderator did not read, unless calls overlapped or it was
\* submitted again behind the moderator's page.
MarketIsModerated == NeverLiveUnmoderated /\ LiveIsReviewed

\* search/src/listing-graph.ts:30, index-sync.ts:29, semantic.ts:90.  However
\* late a job upserts what it loaded, no index entry and no embedding is built
\* from content that no moderator published, as long as repository calls do not
\* overlap.
DraftsStayOutOfDiscovery ==
    ~overlap => index # "UNAPPROVED" /\ embedding # "UNAPPROVED"

=============================================================================
