---------------------------- MODULE CatalogueMC ----------------------------
(***************************************************************************)
(* The catalogue and its prices, for TLC, in small instances: what a       *)
(* search answers and what its page shows, how a listing's ladder and      *)
(* bands come to be stored, what a draft says, and what a quote costs.     *)
(* They share no row here, so each behaviour follows one of them.          *)
(***************************************************************************)
EXTENDS Discovery, SearchPage, ListingShapes, QuotePricing, ListingContents, TLC

VARIABLE part

vars == <<part, searchVars, pageVars, shapeVars, priceVars, contentVars>>

\* The search variables of a behaviour that asks nothing.
NoSearch ==
    /\ query = None /\ row = None /\ day = 0 /\ engine = None
    /\ document = None /\ ready = FALSE /\ embedded = FALSE
    /\ answer = NotAsked

Init ==
    /\ ShapesInit /\ PricingInit /\ PageInit /\ ContentsInit
    /\ \/ part = "SEARCH" /\ SearchInit
       \/ part \in {"PAGE", "SHAPES", "PRICES", "CONTENTS"} /\ NoSearch
    /\ part # "PAGE" => link = CHOOSE l \in Links : TRUE
    /\ part # "CONTENTS" => /\ category = CHOOSE c \in Category : TRUE
                            /\ attributes = CHOOSE values \in FirstAttributes(category) : TRUE

\* One part moves, and the others' rows stay.
Next ==
    /\ part' = part
    /\ \/ /\ part = "SEARCH" /\ SearchNext
          /\ UNCHANGED <<pageVars, shapeVars, priceVars, contentVars>>
       \/ /\ part = "PAGE" /\ PageNext
          /\ UNCHANGED <<searchVars, shapeVars, priceVars, contentVars>>
       \/ /\ part = "SHAPES" /\ ShapesNext
          /\ UNCHANGED <<searchVars, pageVars, priceVars, contentVars>>
       \/ /\ part = "PRICES" /\ PricingNext
          /\ UNCHANGED <<searchVars, pageVars, shapeVars, contentVars>>
       \/ /\ part = "CONTENTS" /\ ContentsNext
          /\ UNCHANGED <<searchVars, pageVars, shapeVars, priceVars>>

Spec == Init /\ [][Next]_vars

-----------------------------------------------------------------------------
(* The instances.                                                          *)

\* Two categories, one above the other.
MCParent == ("pouches" :> "flexible") @@ ("flexible" :> None)

-----------------------------------------------------------------------------
(* Queries: every filter alone, and those that one clause reads together. *)

NoFilter ==
    [categoryFamily |-> {}, format |-> {}, material |-> {}, booleanFlags |-> {}, city |-> {},
     country |-> {}, certifications |-> FALSE, sustainability |-> {}, verificationTier |-> {},
     featured |-> "ANY", maxPriceCents |-> None, geo |-> FALSE]

Requested ==
    {<<"categoryFamily", {"flexible"}>>, <<"format", {"pouches"}>>, <<"material", {"PET"}>>,
     <<"booleanFlags", {"aseptic"}>>, <<"booleanFlags", {"aseptic", "hotFill"}>>,
     <<"city", {"c1"}>>, <<"country", {"k1"}>>, <<"certifications", TRUE>>,
     <<"sustainability", {"recyclable"}>>, <<"verificationTier", {"UNVERIFIED"}>>,
     <<"featured", "YES">>, <<"featured", "NO">>, <<"maxPriceCents", 1>>, <<"geo", TRUE>>}

Together ==
    {{"categoryFamily", "format", "material", "sustainability"},
     {"city", "country", "verificationTier"},
     {"categoryFamily", "booleanFlags", "geo"}}

MCFilters ==
    {[NoFilter EXCEPT ![x[1]] = x[2]] : x \in Requested} \cup
    UNION {{[NoFilter EXCEPT ![x[1]] = x[2], ![y[1]] = y[2]] :
               x, y \in {z \in Requested : z[1] \in names}} : names \in Together}

MCQueries == {r \in [filters : MCFilters, q : BOOLEAN, hybrid : BOOLEAN] : r.hybrid <=> r.q}

-----------------------------------------------------------------------------
(* The search page: a query with and without blanks, and visitors who come  *)
(* by the plain page, by a link to a page of results, and by a stale link.  *)

MCTrim == ("" :> "") @@ ("foil" :> "foil") @@ ("foil " :> "foil")

Address(q, sort, offset) == [q |-> q, sort |-> sort, offset |-> offset, facets |-> {}]

MCLinks == {Address("", "relevance", 0), Address("foil", "relevance", 1), Address("", "newest", 0)}

-----------------------------------------------------------------------------
(* Sheets: any cells for two tiers, and any for two bands; forms that       *)
(* members save over each other: valid ones, and one whose prices rise.     *)

PriceTier(minQty, price) == [minQty |-> minQty, price |-> price]
LeadBand(qtyMin, qtyMax, days) == [qtyMin |-> qtyMin, qtyMax |-> qtyMax, days |-> days]

OneTier == <<PriceTier(1, 2), PriceTier(Blank, Blank)>>
OneBand == <<LeadBand(1, Blank, 1), LeadBand(Blank, Blank, Blank)>>

Cells == {Blank, Bad, 0, 1, 2}
AnyTiers == {<<PriceTier(a, b), PriceTier(c, d)>> : a, b, c, d \in Cells}
AnyBands ==
    {<<LeadBand(a, b, c), LeadBand(d, e, f)>> :
        a, b, d, e \in Cells \cup {3}, c, f \in {Blank, Bad, 2, 3}}

MCSheets == [tiers : AnyTiers, bands : {OneBand}] \cup [tiers : {OneTier}, bands : AnyBands]

MCForms ==
    [tiers : {OneTier, <<PriceTier(2, 1), PriceTier(Blank, Blank)>>,
              <<PriceTier(2, 2), PriceTier(1, 1)>>, <<PriceTier(2, 3), PriceTier(3, 2)>>},
     bands : {OneBand, <<LeadBand(2, 3, 3), LeadBand(1, 1, 1)>>,
              <<LeadBand(1, 2, 3), LeadBand(2, Blank, 1)>>}]

-----------------------------------------------------------------------------
(* Prices *)

MCSteps == [minQty : {0, 2, 3}, unit : {3, 5}, fees : {0, 4}, freight : {0, 1}]

-----------------------------------------------------------------------------
(* Contents: a category with an attribute of each type and one that shares  *)
(* its required one, texts that name an option inside another, a number out *)
(* of bounds, and nothing that is required.                                 *)

Asked(key, kind, required, options, unit, min, max) ==
    [key |-> key, type |-> kind, required |-> required, options |-> options, unit |-> unit,
     min |-> min, max |-> max]

FoodContact ==
    Asked("foodContact", "enum", TRUE, <<"FOOD_GRADE", "NON_FOOD_GRADE">>, Absent, Absent, Absent)

Pouches ==
    {FoodContact,
     Asked("volumeMl", "number", FALSE, <<>>, "ml", 2, Absent),
     Asked("printColors", "integer", FALSE, <<>>, Absent, 0, 8),
     Asked("printMethod", "multiEnum", FALSE, <<"OFFSET", "FLEXO">>, Absent, Absent, Absent),
     Asked("resealable", "boolean", FALSE, <<>>, Absent, Absent, Absent),
     Asked("style", "string", FALSE, <<>>, Absent, Absent, Absent),
     Asked("dimensions", "dimensions", FALSE, <<>>, Absent, Absent, Absent)}

Bottles == {FoodContact, Asked("neckMm", "number", FALSE, <<>>, "mm", 0, Absent)}

MCAttributeSets == ("pouches" :> Pouches) @@ ("bottles" :> Bottles)

SpecText(options, ml, colours, least, denied, named, labelled) ==
    [options |-> options, amounts |-> [u \in {"ml", "mm"} |-> IF u = "ml" THEN ml ELSE Absent], colours |-> colours, box |-> least,
     denied |-> denied, named |-> named, labelled |-> labelled]

MCSpecTexts ==
    {SpecText({"NON_FOOD_GRADE", "FLEXO"}, 5, 9, Absent, {}, {"resealable"}, {"style"}),
     SpecText({}, 1, 7, 2, {"resealable"}, {"resealable"}, {})}

MCEntries ==
    LET blank == [k \in {d.key : d \in Pouches \cup Bottles} |-> Absent]
        food == [blank EXCEPT !["foodContact"] = Value("TEXT", 0, {"NON_FOOD_GRADE"})]
    IN {blank, food, [food EXCEPT !["volumeMl"] = Value("NUMBER", 1, {})],
        [food EXCEPT !["neckMm"] = Value("NUMBER", 3, {})]}

MCWithin == {<<"FOOD_GRADE", "NON_FOOD_GRADE">>}

=============================================================================
