----------------------------- MODULE Discovery -----------------------------
(***************************************************************************)
(* What a buyer's search answers about one listing (packages/search/src    *)
(* behind apps/web/src/app/api/search): the document built from the        *)
(* listing's rows, and the three engines that read a filter each in its    *)
(* own way: the in-memory index, Meilisearch, and the Postgres query that  *)
(* stands in when an index throws.                                         *)
(*                                                                         *)
(* One client repeats one query while the rows change, days pass, jobs     *)
(* bring the index up to date and engines fail.  A field that no filter of *)
(* the query asks about cannot change its answer and keeps a plain value.  *)
(***************************************************************************)
EXTENDS Naturals, FiniteSets

CONSTANTS
    Categories, Parent,     \* slugs, and the slug above each, or None
    Materials, Flags, Cities, Countries, Prices,
    Horizon,                \* bound: the last day
    Queries,                \* the requests clients make in this instance
    None

Days == 0..Horizon
Tier == {"UNVERIFIED", "VERIFIED", "AEKOVERA_VETTED"}
Plant == [city : Cities, country : Countries]
Placement == {p \in [from : Days, until : 1..(Horizon + 1)] : p.from < p.until}

\* Some category is nobody's child.
ASSUME ParentAssumption ==
    /\ Parent \in [Categories -> Categories \cup {None}]
    /\ None \notin Categories /\ \E c \in Categories : Parent[c] = None

ASSUME QueriesAssumption == \A r \in Queries : r.filters.verificationTier \subseteq Tier
ASSUME TierAssumption == None \notin Tier

\* What the index may hold of a listing; None is no document.
Documents ==
    [said : BOOLEAN, categoryFamily : Categories, format : Categories,
     material : SUBSET Materials, booleanFlags : SUBSET Flags,
     sustainability : SUBSET {"recyclable", "compostable"}, priceCents : Prices \cup {None},
     city : SUBSET Cities, country : SUBSET Countries, near : BOOLEAN, certified : BOOLEAN,
     verificationTier : Tier, featured : BOOLEAN]

ASSUME NoneAssumption == None \notin Documents

VARIABLES
    query,      \* the request
    row,        \* the listing, its claims, and its supplier's profile
    day,        \* now
    engine,     \* MEILISEARCH_HOST is set, or not
    document,   \* the listing's document in the index
    ready,      \* Meilisearch: the index exists; in memory: warmed up
    embedded,   \* the listing has a TITLE embedding
    answer      \* what the client has just read

searchVars == <<query, row, day, engine, document, ready, embedded, answer>>

NotAsked == [source |-> "NONE", hit |-> FALSE]

-----------------------------------------------------------------------------
(* Rows *)

SUSTAINABILITY_CLAIMS == [RECYCLABLE |-> "recyclable", COMPOSTABLE |-> "compostable"]

RootCategory == CHOOSE c \in Categories : Parent[c] = None

AsksProfile(f) == f.city \cup f.country # {} \/ f.certifications \/ f.geo

\* What each field may hold: one plain value where the request does not ask.
Values(request) ==
    LET f == request.filters
        Asked(asks, values, plain) == IF asks THEN values ELSE {plain}
    IN  [live |-> BOOLEAN,
         said |-> Asked(request.q, BOOLEAN, TRUE),
         category |-> Asked(f.categoryFamily \cup f.format # {}, Categories, RootCategory),
         material |-> Asked(f.material # {}, Materials \cup {None}, None),
         flags |-> Asked(f.booleanFlags # {}, SUBSET Flags, {}),
         claims |-> SUBSET {c \in DOMAIN SUSTAINABILITY_CLAIMS :
                              SUSTAINABILITY_CLAIMS[c] \in f.sustainability},
         widely |-> Asked("recyclable" \in f.sustainability, BOOLEAN, FALSE),
         price |-> Asked(f.maxPriceCents # None, Prices \cup {None}, None),
         plants |-> Asked(f.city \cup f.country # {}, {p \in SUBSET Plant : Cardinality(p) <= 2}, {}),
         near |-> Asked(f.geo, BOOLEAN, FALSE),
         certified |-> Asked(f.certifications, {{}} \cup {{d} : d \in 1..Horizon}, {}),
         profile |-> {None} \cup Asked(f.verificationTier # {}, Tier,
                                        IF AsksProfile(f) THEN "UNVERIFIED" ELSE None),
         placed |-> Asked(f.featured # "ANY", {{}} \cup {{p} : p \in Placement}, {})]

\* Plants and certifications are the profile's.
Kept(r) == r.profile = None => r.plants = {} /\ r.certified = {} /\ ~r.near

Rows(request) ==
    LET v == Values(request)
    IN {r \in [live : v.live, said : v.said, category : v.category, material : v.material,
               flags : v.flags, claims : v.claims, widely : v.widely, price : v.price,
               plants : v.plants, near : v.near, certified : v.certified,
               profile : v.profile, placed : v.placed] : Kept(r)}

\* What only a DRAFT may change.
OwnFields == {"said", "category", "material", "flags", "widely", "price"}

-----------------------------------------------------------------------------
(* The document, and what a filter means on it *)

SustainabilityOf(r) ==
    {SUSTAINABILITY_CLAIMS[c] : c \in r.claims} \cup {w \in {"recyclable"} : r.widely}

FeaturedOn(r, now) == \E p \in r.placed : p.from <= now /\ now < p.until

listingGraphToDocument(r, now) ==
    [said |-> r.said,
     categoryFamily |-> IF Parent[r.category] # None THEN Parent[r.category] ELSE r.category,
     format |-> r.category,
     material |-> {r.material} \ {None},
     booleanFlags |-> r.flags,
     sustainability |-> SustainabilityOf(r),
     priceCents |-> r.price,
     city |-> {p.city : p \in r.plants},
     country |-> {p.country : p \in r.plants},
     near |-> r.near,
     certified |-> \E d \in r.certified : now < d,
     verificationTier |-> IF r.profile = None THEN "UNVERIFIED" ELSE r.profile,
     featured |-> FeaturedOn(r, now)]

AnyOf(allowed, values) == allowed = {} \/ allowed \cap values # {}

\* The clauses every engine reads alike.
CommonClauses(doc, f) ==
    /\ AnyOf(f.categoryFamily, {doc.categoryFamily})
    /\ AnyOf(f.format, {doc.format})
    /\ AnyOf(f.material, doc.material)
    /\ AnyOf(f.city, doc.city)
    /\ AnyOf(f.country, doc.country)
    /\ f.certifications => doc.certified
    /\ AnyOf(f.sustainability, doc.sustainability)
    /\ AnyOf(f.verificationTier, {doc.verificationTier})
    /\ f.featured # "ANY" => (doc.featured <=> f.featured = "YES")
    /\ f.maxPriceCents # None => doc.priceCents # None /\ doc.priceCents <= f.maxPriceCents

matchesFilters(doc, f) ==
    /\ CommonClauses(doc, f)
    /\ f.booleanFlags \subseteq doc.booleanFlags
    /\ f.geo => doc.near

\* The compiled expression joins the flags with OR like any other list.
toMeilisearchFilter(doc, f) ==
    /\ CommonClauses(doc, f)
    /\ AnyOf(f.booleanFlags, doc.booleanFlags)

-----------------------------------------------------------------------------
(* Postgres *)

\* Mutant of AnyAlternative: a category is asked for by its own slug only.
AnyAlternativeNoParent(r, f) ==
    \/ r.category \in f.categoryFamily \cup f.format
    \/ r.material \in f.material
    \/ f.sustainability \cap SustainabilityOf(r) # {}

\* The one OR: category, material and sustainability, all their values.
AnyAlternative(r, f) ==
    \/ r.category \in f.categoryFamily \cup f.format
    \/ Parent[r.category] \in f.categoryFamily
    \/ r.material \in f.material
    \/ f.sustainability \cap SustainabilityOf(r) # {}

buildListingWhere(r, f, now) ==
    /\ r.live
    /\ f.booleanFlags \subseteq r.flags
    /\ f.city \cup f.country # {} =>
           \E p \in r.plants : AnyOf(f.city, {p.city}) /\ AnyOf(f.country, {p.country})
    /\ f.certifications => \E d \in r.certified : now < d
    /\ AnyOf(f.verificationTier, {r.profile})
    /\ f.featured # "ANY" => (FeaturedOn(r, now) <=> f.featured = "YES")
    /\ f.categoryFamily \cup f.format \cup f.material \cup f.sustainability # {} =>
           AnyAlternative(r, f)

Says(doc) == query.q => doc.said

postgresFilterSearch ==
    LET doc == listingGraphToDocument(row, day)
    IN  /\ buildListingWhere(row, query.filters, day)
        /\ matchesFilters(doc, query.filters)
        /\ Says(doc)

-----------------------------------------------------------------------------
(* The index *)

\* _geo is no filterable attribute, and no index exists before the first upsert.
Throws == engine = "MEILISEARCH" /\ (~ready \/ query.filters.geo)

IndexHit ==
    /\ document # None
    /\ IF engine = "MEILISEARCH" THEN toMeilisearchFilter(document, query.filters)
                                 ELSE matchesFilters(document, query.filters)
    /\ Says(document)

\* discoverListings
Discovered(outage) ==
    IF Throws \/ outage THEN [source |-> "POSTGRES", hit |-> postgresFilterSearch]
                        ELSE [source |-> "INDEX", hit |-> IndexHit]

\* discoverListingsHybrid, and the hydration that keeps what is LIVE: the
\* semantic leg asks for no filter.
DiscoveredHybrid(outage) ==
    IF ~Throws /\ ~outage /\ (IndexHit \/ (embedded /\ row.live))
    THEN [source |-> "HYBRID", hit |-> row.live]
    ELSE Discovered(outage)

\* The in-memory index never fails; Meilisearch or the embedding adapter may.
discover ==
    /\ engine = "MEMORY" => ready
    /\ \E outage \in IF engine = "MEMORY" /\ ~query.hybrid THEN {FALSE} ELSE BOOLEAN :
         answer' = IF query.hybrid /\ query.q THEN DiscoveredHybrid(outage)
                                              ELSE Discovered(outage)
    /\ UNCHANGED <<query, row, day, engine, document, ready, embedded>>

\* syncListing: what is LIVE is upserted, and nothing is ever removed.
syncListing ==
    /\ engine = "MEMORY" => ready
    /\ document' = IF row.live THEN listingGraphToDocument(row, day) ELSE document
    /\ ready' = TRUE
    /\ UNCHANGED <<query, row, day, engine, embedded>>

\* ensureSearchIndexSynced, once per process, before the first answer.
ensureSearchIndexSynced ==
    /\ engine = "MEMORY" /\ ~ready
    /\ document' = IF row.live THEN listingGraphToDocument(row, day) ELSE document
    /\ ready' = TRUE
    /\ UNCHANGED <<query, row, day, engine, embedded>>

restart ==
    /\ engine = "MEMORY" /\ ready
    /\ document' = None /\ ready' = FALSE
    /\ UNCHANGED <<query, row, day, engine, embedded>>

backfillListingEmbeddings ==
    /\ row.live /\ query.hybrid
    /\ embedded' = TRUE
    /\ UNCHANGED <<query, row, day, engine, document, ready>>

-----------------------------------------------------------------------------
(* What changes underneath *)

\* Any call of the catalogue, of the supplier or of staff, one field at a time.
edit ==
    /\ \E k \in DOMAIN row : \E v \in Values(query)[k] \ {row[k]} :
         /\ k \in OwnFields => ~row.live
         /\ row' = [row EXCEPT ![k] = v]
         /\ Kept(row')
    /\ UNCHANGED <<query, day, engine, document, ready, embedded>>

\* A day matters only to a request about dates.
tick ==
    /\ day < Horizon
    /\ query.filters.certifications \/ query.filters.featured # "ANY"
    /\ day' = day + 1
    /\ UNCHANGED <<query, row, engine, document, ready, embedded>>

SearchInit ==
    /\ query \in Queries /\ row \in Rows(query) /\ day = 0
    /\ engine \in {"MEMORY", "MEILISEARCH"}
    /\ document = None /\ ready = FALSE /\ embedded = FALSE
    /\ answer = NotAsked

SearchNext ==
    \/ discover
    \/ /\ answer' = NotAsked
       /\ \/ syncListing \/ ensureSearchIndexSynced \/ restart
          \/ backfillListingEmbeddings \/ edit \/ tick

SearchSpec == SearchInit /\ [][SearchNext]_searchVars

-----------------------------------------------------------------------------
(* Properties *)

\* What the filters mean, on what the rows say today.
Wanted ==
    LET doc == listingGraphToDocument(row, day)
    IN  row.live /\ matchesFilters(doc, query.filters) /\ Says(doc)

InStep == document = IF row.live THEN listingGraphToDocument(row, day) ELSE None

\* Each plant answers one of the two filters, none both.
SplitBetweenPlants ==
    \A p \in row.plants : p.city \notin query.filters.city \/ p.country \notin query.filters.country

\* What the fallback leaves out of what the filters mean: a city and a country
\* that are two plants', and a tier of a supplier without a profile, whose
\* document says UNVERIFIED.
LeftOut ==
    LET f == query.filters
    IN  \/ f.city # {} /\ f.country # {} /\ SplitBetweenPlants
        \/ f.verificationTier # {} /\ row.profile = None

\* Some of the flags, not all: enough for Meilisearch, which joins them with OR.
SomeFlags ==
    /\ engine = "MEILISEARCH"
    /\ query.filters.booleanFlags \cap row.flags # {}
    /\ ~(query.filters.booleanFlags \subseteq row.flags)

\* Filter semantics "cannot drift between engines" (filtering.ts:16), and the
\* fallback's narrowing is "never stricter than matchesFilters"
\* (postgres-fallback.ts:23).  Neither is so, and this is by how much.  The
\* fallback finds the listing exactly when the filters mean it on today's rows
\* and it is not in what the narrowing, stricter in two cases, leaves out.  An
\* index in step with the rows finds all that is meant, and more only for a
\* listing with some of several flags, or by the semantic leg of a hybrid
\* query, which no filter reaches.
AnswersAgree ==
    /\ answer.source = "POSTGRES" => (answer.hit <=> Wanted /\ ~LeftOut)
    /\ answer.source \in {"INDEX", "HYBRID"} /\ InStep =>
         /\ Wanted => answer.hit
         /\ answer.hit => Wanted \/ SomeFlags \/ (answer.source = "HYBRID" /\ embedded)

=============================================================================
