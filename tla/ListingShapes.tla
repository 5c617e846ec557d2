--------------------------- MODULE ListingShapes ---------------------------
(***************************************************************************)
(* The price ladder and the lead-time bands of one DRAFT listing: read     *)
(* from the cells of a CSV row (packages/core/src/listing-import.ts) or of *)
(* the editor's form (apps/web/src/lib/listing-form.ts), validated         *)
(* (listing-input.ts) and stored (listing-repository.ts).                  *)
(*                                                                         *)
(* The form's update is several transactions, one per list, and each       *)
(* deletes the rows it finds before it inserts its own: two members who    *)
(* save together cross between the two.                                    *)
(***************************************************************************)
EXTENDS Integers, Sequences, FiniteSets

CONSTANTS
    Blank, Bad,     \* a cell without text, and one that is no integer
    Sheets, Forms,  \* what suppliers send to create, and what members save
    Members,        \* who edit the draft, each once
    MaxDays         \* longest production time the payload schema takes

Cell == Int \cup {Blank, Bad}

ASSUME SheetsAssumption ==
    \A sheet \in Sheets \cup Forms :
        /\ sheet.tiers \in Seq([minQty : Cell, price : Cell])
        /\ sheet.bands \in Seq([qtyMin : Cell, qtyMax : Cell, days : Cell])
ASSUME DaysAssumption == MaxDays \in Nat /\ Blank # Bad

VARIABLES
    ladder, bands,  \* stored rows, each with the call that wrote it
    origin,         \* how the listing was made
    draft,          \* the listing is still a DRAFT
    saves,           \* per member, the update under way
    mingled,        \* two members' saves have been under way together
    crossed         \* so have two of their replacements

shapeVars == <<ladder, bands, origin, draft, saves, mingled, crossed>>

NoEdit == [stage |-> "IDLE", tiers |-> <<>>, rules |-> <<>>, removes |-> {}]

-----------------------------------------------------------------------------
(* Reading the cells *)

IsInt(cell, least) == cell \notin {Blank, Bad} /\ cell >= least

\* Scanning stops at the first entry for which Stops holds.
Scanned(cells, Stops(_)) ==
    LET stops == {n \in DOMAIN cells : Stops(cells[n])}
    IN  IF stops = {} THEN Len(cells) + 1 ELSE CHOOSE n \in stops : \A m \in stops : n <= m

\* Both readers: complete tiers up to the first blank one, and at least one.
ReadTiers(cells) ==
    LET stop == Scanned(cells, LAMBDA t : t.minQty = Blank /\ t.price = Blank)
    IN  [ok |-> stop > 1 /\ \A n \in 1..(stop - 1) : IsInt(cells[n].minQty, 1) /\ IsInt(cells[n].price, 1),
         rows |-> SubSeq(cells, 1, stop - 1)]

\* intField: null for a blank and for what it reports.
Null(cell) == ~IsInt(cell, 1)
Wrong(cell) == cell # Blank /\ ~IsInt(cell, 1)

\* parseListingCsv: a band after the first that has only one of its two
\* required cells is skipped, and any integer is a maximum.  Bands are kept by
\* their place in the row.
ReadImportedBands(cells) ==
    LET stop == Scanned(cells, LAMBDA b : Null(b.qtyMin) /\ Null(b.days))
        seen == {n \in DOMAIN cells : n <= stop}
    IN  [ok |-> /\ ~Null(cells[1].qtyMin) /\ ~Null(cells[1].days)
                /\ \A n \in seen :
                     ~Wrong(cells[n].qtyMin) /\ ~Wrong(cells[n].days) /\ cells[n].qtyMax # Bad,
         rows |-> [n \in {n \in seen : cells[n].qtyMin # Blank /\ cells[n].days # Blank} |->
                     cells[n]]]

\* parseListingUpsertForm: every band up to the first blank one is complete.
ReadFormBands(cells) ==
    LET stop == Scanned(cells, LAMBDA b : b.qtyMin = Blank /\ b.days = Blank)
    IN  [ok |-> stop > 1 /\ \A n \in 1..(stop - 1) :
                    /\ IsInt(cells[n].qtyMin, 1) /\ IsInt(cells[n].days, 1)
                    /\ cells[n].qtyMax = Blank \/ IsInt(cells[n].qtyMax, cells[n].qtyMin),
         rows |-> SubSeq(cells, 1, stop - 1)]

-----------------------------------------------------------------------------
(* Validation *)

\* listingUpsertInput, for what the readers leave to it.
parseListingUpsert(rules) ==
    \A n \in DOMAIN rules :
        rules[n].days <= MaxDays /\ (rules[n].qtyMax # Blank => rules[n].qtyMax >= 1)

validateMoqLadder(tiers) ==
    \A n \in 2..Len(tiers) :
        tiers[n - 1].minQty < tiers[n].minQty /\ tiers[n - 1].price >= tiers[n].price

\* What the stable sort by minimum puts right after band i.
Before(rules, i, k) ==
    \/ rules[i].qtyMin < rules[k].qtyMin
    \/ rules[i].qtyMin = rules[k].qtyMin /\ i < k

Follows(rules, i, k) ==
    /\ Before(rules, i, k)
    /\ ~\E j \in DOMAIN rules : Before(rules, i, j) /\ Before(rules, j, k)

\* Mutant of validateLeadTimeRules: a band may begin where the last one ends.
validateLeadTimeRulesTouching(rules) ==
    \A i, k \in DOMAIN rules : Follows(rules, i, k) =>
        /\ rules[i].qtyMax # Blank /\ rules[i].qtyMax <= rules[k].qtyMin
        /\ rules[i].qtyMin <= rules[i].qtyMax

\* Neighbours after sorting; a band is looked at for what follows it only.
validateLeadTimeRules(rules) ==
    \A i, k \in DOMAIN rules : Follows(rules, i, k) =>
        /\ rules[i].qtyMax # Blank /\ rules[i].qtyMax < rules[k].qtyMin
        /\ rules[i].qtyMin <= rules[i].qtyMax

-----------------------------------------------------------------------------
(* Creation *)

Written(rows, by) == {[row |-> rows[n], by |-> by] : n \in DOMAIN rows}

createListing(tiers, rules, by) ==
    /\ tiers.ok /\ rules.ok
    /\ parseListingUpsert(rules.rows)
    /\ validateMoqLadder(tiers.rows) /\ validateLeadTimeRules(rules.rows)
    /\ ladder' = Written(tiers.rows, by) /\ bands' = Written(rules.rows, by)
    /\ origin' = by /\ draft' = TRUE
    /\ UNCHANGED <<saves, mingled, crossed>>

importListingsCsv ==
    /\ origin = "NONE"
    /\ \E row \in Sheets :
         createListing(ReadTiers(row.tiers), ReadImportedBands(row.bands), "IMPORT")

createByForm ==
    /\ origin = "NONE"
    /\ \E form \in Sheets :
         createListing(ReadTiers(form.tiers), ReadFormBands(form.bands), "FORM")

-----------------------------------------------------------------------------
(* The form's update: the ladder, then the bands, each in its transaction *)

InReplacement(m) == saves[m].stage \in {"LADDER", "BANDS"}
Saving(m) == saves[m].stage \notin {"IDLE", "REFUSED", "DONE"}

updateListingDraft(m, form) ==
    LET tiers == ReadTiers(form.tiers)
        rules == ReadFormBands(form.bands)
    IN  /\ draft /\ saves[m].stage = "IDLE"
        /\ tiers.ok /\ rules.ok
        /\ saves' = [saves EXCEPT ![m] = [NoEdit EXCEPT !.stage = "SAVED", !.tiers = tiers.rows,
                                                      !.rules = rules.rows]]
        /\ mingled' = (mingled \/ \E o \in Members : Saving(o))
        /\ UNCHANGED <<ladder, bands, origin, draft, crossed>>

\* A replacement begins: it has validated, and its delete has found its rows.
Begin(m, stage, valid, rows) ==
    /\ saves' = [saves EXCEPT ![m] =
                   IF draft /\ valid THEN [@ EXCEPT !.stage = stage, !.removes = rows]
                                     ELSE [@ EXCEPT !.stage = "REFUSED", !.removes = {}]]
    /\ crossed' = (crossed \/ \E o \in Members \ {m} : InReplacement(o))
    /\ UNCHANGED <<ladder, bands, origin, draft, mingled>>

replaceMoqLadder(m) ==
    /\ saves[m].stage = "SAVED"
    /\ Begin(m, "LADDER", validateMoqLadder(saves[m].tiers), ladder)

replaceLeadTimeRules(m) ==
    /\ saves[m].stage = "LADDER_DONE"
    /\ Begin(m, "BANDS", validateLeadTimeRules(saves[m].rules), bands)

\* One minimum per listing is a unique index; bands have none.
commitLadder(m) ==
    /\ saves[m].stage = "LADDER"
    /\ LET left == ladder \ saves[m].removes
           new == Written(saves[m].tiers, m)
           clash == \E x \in left, y \in new : x.row.minQty = y.row.minQty
       IN  /\ ladder' = IF clash THEN ladder ELSE left \cup new
           /\ saves' = [saves EXCEPT ![m].stage = IF clash THEN "REFUSED" ELSE "LADDER_DONE",
                                   ![m].removes = {}]
    /\ UNCHANGED <<bands, origin, draft, mingled, crossed>>

commitBands(m) ==
    /\ saves[m].stage = "BANDS"
    /\ bands' = (bands \ saves[m].removes) \cup Written(saves[m].rules, m)
    /\ saves' = [saves EXCEPT ![m].stage = "DONE", ![m].removes = {}]
    /\ UNCHANGED <<ladder, origin, draft, mingled, crossed>>

submitForReview ==
    /\ draft
    /\ draft' = FALSE
    /\ UNCHANGED <<ladder, bands, origin, saves, mingled, crossed>>

ShapesInit ==
    /\ ladder = {} /\ bands = {} /\ origin = "NONE" /\ draft = FALSE
    /\ saves = [m \in Members |-> NoEdit] /\ mingled = FALSE /\ crossed = FALSE

ShapesNext ==
    \/ importListingsCsv
    \/ createByForm
    \/ \E m \in Members, form \in Forms : updateListingDraft(m, form)
    \/ \E m \in Members :
         replaceMoqLadder(m) \/ commitLadder(m) \/ replaceLeadTimeRules(m) \/ commitBands(m)
    \/ submitForReview

ShapesSpec == ShapesInit /\ [][ShapesNext]_shapeVars

-----------------------------------------------------------------------------
(* Properties *)

Above(rule, quantity) == rule.qtyMax # Blank /\ rule.qtyMax < quantity
Covers(rule, quantity) == rule.qtyMin <= quantity /\ ~Above(rule, quantity)

\* A larger order never costs more a piece.
LadderDescends ==
    \A x, y \in ladder : x.row.minQty < y.row.minQty => x.row.price >= y.row.price

\* No quantity has two production times.
BandsAreDisjoint ==
    \A x, y \in bands : x # y =>
        ~Covers(x.row, y.row.qtyMin) /\ ~Covers(y.row, x.row.qtyMin)

\* A band that no quantity meets came from a CSV row, and is the last one.
EmptyBandsAreImported ==
    \A x \in bands : Above(x.row, x.row.qtyMin) =>
        x.by = "IMPORT" /\ \A y \in bands : y.row.qtyMin <= x.row.qtyMin

\* listing-form.ts:178 speaks of 1-365 days; only the payload schema asks.
LongBandsAreEdits == \A x \in bands : x.row.days > MaxDays => x.by \in Members

\* The two lists come from one save, or a save is under way or was cut short.
SavedTogether ==
    \A x \in ladder, y \in bands : x.by # y.by =>
        mingled \/ \E m \in Members : saves[m].stage \in {"LADDER_DONE", "BANDS", "REFUSED"}

(* Ladders are quantity-sorted with non-increasing prices and bands do not  *)
(* overlap (listing-input.ts:129, :162), however the listing was made and   *)
(* edited, unless two members' replacements crossed: then the rows of both  *)
(* may stand together, and only a minimum is still never there twice.       *)
StoredShapesAreSound ==
    /\ \A x, y \in ladder : x.row.minQty = y.row.minQty => x = y
    /\ EmptyBandsAreImported
    /\ LongBandsAreEdits
    /\ SavedTogether
    /\ crossed \/ (LadderDescends /\ BandsAreDisjoint)

=============================================================================
