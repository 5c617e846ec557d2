-------------------------- MODULE CatalogueProofs --------------------------
(***************************************************************************)
(* Proofs about the catalogue: what a search answers, for any categories,  *)
(* filters, rows and failures; what its page shows, for any texts, links,  *)
(* answers and order of events; what a draft listing says, for any         *)
(* attributes, texts, pictures and number of members; the ladder and the   *)
(* bands it stores, for any cells; and what a quote costs, for any ladders *)
(* and prices.                                                             *)
(***************************************************************************)
EXTENDS Discovery, SearchPage, ListingContents, ListingShapes, QuotePricing,
        FiniteSetTheorems, SequenceTheorems, WellFoundedInduction, TLAPS

-----------------------------------------------------------------------------
(* What a search answers *)

SearchHolds ==
    /\ query \in Queries /\ row \in Rows(query)
    /\ AnswersAgree

\* The document says what the rows say, and is a document.
LEMMA DocumentIsOne ==
  ASSUME NEW request, NEW r \in Rows(request), NEW now
  PROVE  listingGraphToDocument(r, now) \in Documents /\ r.live \in BOOLEAN
<1> DEFINE v == Values(request)
           doc == listingGraphToDocument(r, now)
<1>1. /\ r.live \in v.live /\ r.said \in v.said /\ r.category \in v.category
      /\ r.material \in v.material /\ r.flags \in v.flags /\ r.claims \in v.claims
      /\ r.price \in v.price /\ r.plants \in v.plants /\ r.near \in v.near
      /\ r.profile \in v.profile
  BY DEF Rows
<1>2. RootCategory \in Categories
  BY ParentAssumption DEF RootCategory
<1>3. /\ r.live \in BOOLEAN /\ r.said \in BOOLEAN /\ r.near \in BOOLEAN
      /\ r.material \in Materials \cup {None} /\ r.flags \in SUBSET Flags
  BY <1>1 DEF Values
<1>4. r.category \in Categories
  BY <1>1, <1>2 DEF Values
<1>5. r.claims \subseteq DOMAIN SUSTAINABILITY_CLAIMS /\ r.price \in Prices \cup {None}
  BY <1>1 DEF Values
<1>6. r.plants \subseteq Plant
  BY <1>1 DEF Values
<1>7. r.profile \in Tier \cup {None}
  BY <1>1 DEF Values, Tier
<1>8. SustainabilityOf(r) \subseteq {"recyclable", "compostable"}
  BY <1>5 DEF SustainabilityOf, SUSTAINABILITY_CLAIMS
<1>9. /\ {p.city : p \in r.plants} \subseteq Cities
      /\ {p.country : p \in r.plants} \subseteq Countries
  BY <1>6 DEF Plant
<1>10. (IF Parent[r.category] # None THEN Parent[r.category] ELSE r.category) \in Categories
  BY <1>4, ParentAssumption
<1>11. (IF r.profile = None THEN "UNVERIFIED" ELSE r.profile) \in Tier
  BY <1>7 DEF Tier
<1>12. FeaturedOn(r, now) \in BOOLEAN
  BY DEF FeaturedOn
<1> QED
  BY <1>3, <1>4, <1>5, <1>8, <1>9, <1>10, <1>11, <1>12 DEF listingGraphToDocument, Documents

\* The fallback finds what is wanted, less what it leaves out.
LEMMA PostgresMeans ==
  ASSUME query \in Queries
  PROVE  postgresFilterSearch <=> Wanted /\ ~LeftOut
<1> DEFINE f == query.filters
           doc == listingGraphToDocument(row, day)
<1>1. postgresFilterSearch => Wanted
  BY DEF postgresFilterSearch, Wanted, buildListingWhere
<1>9. postgresFilterSearch => ~LeftOut
  <2>1. SUFFICES ASSUME buildListingWhere(row, f, day) PROVE ~LeftOut
    BY DEF postgresFilterSearch
  <2>2. f.city # {} /\ f.country # {} => ~SplitBetweenPlants
    <3>1. f.city # {} => \E p \in row.plants : AnyOf(f.city, {p.city}) /\ AnyOf(f.country, {p.country})
      BY <2>1 DEF buildListingWhere
    <3> QED
      BY <3>1 DEF SplitBetweenPlants, AnyOf
  <2>3. f.verificationTier # {} => row.profile # None
    <3>1. AnyOf(f.verificationTier, {row.profile})
      BY <2>1 DEF buildListingWhere
    <3>2. None \notin f.verificationTier
      BY QueriesAssumption, TierAssumption
    <3> QED
      BY <3>1, <3>2 DEF AnyOf
  <2> QED
    BY <2>2, <2>3 DEF LeftOut
<1> SUFFICES ASSUME Wanted, ~LeftOut
             PROVE  buildListingWhere(row, f, day)
  BY <1>1, <1>9 DEF postgresFilterSearch, Wanted
<1>2. /\ doc.categoryFamily = IF Parent[row.category] # None THEN Parent[row.category] ELSE row.category
      /\ doc.format = row.category /\ doc.material = {row.material} \ {None}
      /\ doc.booleanFlags = row.flags /\ doc.sustainability = SustainabilityOf(row)
      /\ doc.city = {p.city : p \in row.plants} /\ doc.country = {p.country : p \in row.plants}
      /\ doc.certified = \E d \in row.certified : day < d
      /\ doc.verificationTier = IF row.profile = None THEN "UNVERIFIED" ELSE row.profile
      /\ doc.featured = FeaturedOn(row, day)
  BY DEF listingGraphToDocument
<1>3. /\ row.live /\ CommonClauses(doc, f) /\ f.booleanFlags \subseteq doc.booleanFlags
  BY DEF Wanted, matchesFilters
<1>10. /\ ~(f.city # {} /\ f.country # {} /\ SplitBetweenPlants)
       /\ ~(f.verificationTier # {} /\ row.profile = None)
  BY DEF LeftOut
<1> HIDE DEF doc, f
<1>4. f.city \cup f.country # {} =>
        \E p \in row.plants : AnyOf(f.city, {p.city}) /\ AnyOf(f.country, {p.country})
  <2>1. CASE f.city # {} /\ f.country # {}
    <3>1. PICK p \in row.plants : p.city \in f.city /\ p.country \in f.country
      BY <1>10, <2>1 DEF SplitBetweenPlants, f
    <3> QED
      BY <3>1 DEF AnyOf
  <2>2. CASE f.city # {} /\ f.country = {}
    <3>1. PICK p \in row.plants : p.city \in f.city
      BY <1>2, <1>3, <2>2 DEF CommonClauses, AnyOf
    <3> QED
      BY <2>2, <3>1 DEF AnyOf
  <2>3. CASE f.city = {} /\ f.country # {}
    <3>1. PICK p \in row.plants : p.country \in f.country
      BY <1>2, <1>3, <2>3 DEF CommonClauses, AnyOf
    <3> QED
      BY <2>3, <3>1 DEF AnyOf
  <2> QED
    BY <2>1, <2>2, <2>3
<1>5. f.certifications => \E d \in row.certified : day < d
  BY <1>2, <1>3 DEF CommonClauses
<1>6. AnyOf(f.verificationTier, {row.profile})
  BY <1>2, <1>3, <1>10 DEF CommonClauses, AnyOf
<1>7. f.featured # "ANY" => (FeaturedOn(row, day) <=> f.featured = "YES")
  BY <1>2, <1>3 DEF CommonClauses
<1>8. f.categoryFamily \cup f.format \cup f.material \cup f.sustainability # {} =>
        AnyAlternative(row, f)
  BY <1>2, <1>3 DEF CommonClauses, AnyOf, AnyAlternative
<1> QED
  BY <1>2, <1>3, <1>4, <1>5, <1>6, <1>7, <1>8 DEF buildListingWhere

\* An index in step with the rows finds what is wanted, and more only where
\* Meilisearch is content with some of the flags.
LEMMA IndexMeans ==
  ASSUME query \in Queries, row \in Rows(query), InStep, ~Throws
  PROVE  /\ Wanted => IndexHit
         /\ IndexHit => Wanted \/ SomeFlags
<1> DEFINE f == query.filters
           doc == listingGraphToDocument(row, day)
<1>1. doc # None
  BY DocumentIsOne, NoneAssumption
<1>2. CASE ~row.live
  BY <1>2 DEF InStep, IndexHit, Wanted
<1>3. CASE row.live
  <2>1. document = doc
    BY <1>3 DEF InStep
  <2> HIDE DEF doc
  <2>2. Wanted <=> matchesFilters(document, f) /\ Says(document)
    BY <1>3, <2>1 DEF Wanted, doc
  <2>3. CASE engine # "MEILISEARCH"
    BY <1>1, <2>1, <2>2, <2>3 DEF IndexHit
  <2>4. CASE engine = "MEILISEARCH"
    <3>1. ~f.geo
      BY <2>4 DEF Throws
    <3>2. IndexHit <=> toMeilisearchFilter(document, f) /\ Says(document)
      BY <1>1, <2>1, <2>4 DEF IndexHit
    <3>3. f.booleanFlags \subseteq document.booleanFlags => AnyOf(f.booleanFlags, document.booleanFlags)
      BY DEF AnyOf
    <3>4. document.booleanFlags = row.flags
      BY <2>1 DEF doc, listingGraphToDocument
    <3>5. SomeFlags <=> /\ f.booleanFlags \cap document.booleanFlags # {}
                        /\ ~(f.booleanFlags \subseteq document.booleanFlags)
      BY <2>4, <3>4 DEF SomeFlags
    <3> HIDE DEF f
    <3>6. /\ matchesFilters(document, f) => toMeilisearchFilter(document, f)
          /\ toMeilisearchFilter(document, f) => matchesFilters(document, f) \/ SomeFlags
      BY <3>1, <3>3, <3>5 DEF toMeilisearchFilter, matchesFilters, AnyOf
    <3> QED
      BY <2>2, <3>2, <3>6
  <2> QED
    BY <2>3, <2>4
<1> QED
  BY <1>2, <1>3

\* What AnswersAgree says of an answer.
Explained(given) ==
    /\ given.source = "POSTGRES" => (given.hit <=> Wanted /\ ~LeftOut)
    /\ given.source \in {"INDEX", "HYBRID"} /\ InStep =>
         /\ Wanted => given.hit
         /\ given.hit => Wanted \/ SomeFlags \/ (given.source = "HYBRID" /\ embedded)

LEMMA DiscoveredIsExplained ==
  ASSUME query \in Queries, row \in Rows(query), NEW outage \in BOOLEAN
  PROVE  Explained(Discovered(outage))
<1> DEFINE given == Discovered(outage)
<1>1. CASE Throws \/ outage
  <2>1. given.source = "POSTGRES" /\ given.hit = postgresFilterSearch
    BY <1>1 DEF Discovered
  <2> HIDE DEF given
  <2>2. Explained(given)
    BY <2>1, PostgresMeans DEF Explained
  <2> QED
    BY <2>2 DEF given
<1>2. CASE ~(Throws \/ outage)
  <2>1. given.source = "INDEX" /\ given.hit = IndexHit
    BY <1>2 DEF Discovered
  <2>2. InStep => (Wanted => IndexHit) /\ (IndexHit => Wanted \/ SomeFlags)
    BY <1>2, IndexMeans
  <2> HIDE DEF given
  <2>3. Explained(given)
    BY <2>1, <2>2 DEF Explained
  <2> QED
    BY <2>3 DEF given
<1> QED
  BY <1>1, <1>2

\* A hybrid answer is kept while the listing is LIVE: an index in step brought
\* it, or its embedding did.
LEMMA HybridIsExplained ==
  ASSUME query \in Queries, row \in Rows(query), NEW outage \in BOOLEAN
  PROVE  Explained(DiscoveredHybrid(outage))
<1> DEFINE given == DiscoveredHybrid(outage)
           merged == ~Throws /\ ~outage /\ (IndexHit \/ (embedded /\ row.live))
<1>1. CASE merged
  <2>1. given.source = "HYBRID" /\ given.hit = row.live
    BY <1>1 DEF DiscoveredHybrid
  <2>2. Wanted => row.live
    BY DEF Wanted
  <2>3. InStep /\ IndexHit => Wanted \/ SomeFlags
    BY <1>1, IndexMeans
  <2> HIDE DEF given
  <2>4. Explained(given)
    BY <1>1, <2>1, <2>2, <2>3 DEF Explained
  <2> QED
    BY <2>4 DEF given
<1>2. CASE ~merged
  <2>1. given = Discovered(outage)
    BY <1>2 DEF DiscoveredHybrid
  <2> QED
    BY <2>1, DiscoveredIsExplained
<1> QED
  BY <1>1, <1>2

\* A field changes to another value it may have.
LEMMA EditStep ==
  ASSUME row \in Rows(query), edit
  PROVE  row' \in Rows(query)
<1> DEFINE v == Values(query)
           All == [live : v.live, said : v.said, category : v.category, material : v.material,
                   flags : v.flags, claims : v.claims, widely : v.widely, price : v.price,
                   plants : v.plants, near : v.near, certified : v.certified,
                   profile : v.profile, placed : v.placed]
<1>1. row \in All /\ Rows(query) = {r \in All : Kept(r)}
  BY DEF Rows
<1>2. PICK k \in DOMAIN row : \E w \in v[k] : row' = [row EXCEPT ![k] = w] /\ Kept(row')
  BY DEF edit
<1> HIDE DEF v
<1>3. row' \in All
  BY <1>1, <1>2
<1> QED
  BY <1>1, <1>2, <1>3

LEMMA SearchStep == SearchHolds /\ [SearchNext]_searchVars => SearchHolds'
<1> SUFFICES ASSUME SearchHolds, [SearchNext]_searchVars PROVE SearchHolds'
  OBVIOUS
<1> USE DEF SearchHolds
<1>1. CASE discover
  <2>1. UNCHANGED <<query, row, day, engine, document, ready, embedded>>
    BY <1>1 DEF discover
  <2>2. PICK outage \in BOOLEAN :
          answer' \in {DiscoveredHybrid(outage), Discovered(outage)}
    BY <1>1 DEF discover
  <2>3. Explained(answer')
    BY <2>2, DiscoveredIsExplained, HybridIsExplained
  <2>4. Wanted' = Wanted /\ InStep' = InStep /\ LeftOut' = LeftOut /\ SomeFlags' = SomeFlags
    BY <2>1 DEF Wanted, Says, InStep, SplitBetweenPlants, LeftOut, SomeFlags
  <2>5. AnswersAgree'
    BY <2>1, <2>3, <2>4 DEF AnswersAgree, Explained
  <2> QED
    BY <2>1, <2>5
<1>2. CASE /\ answer' = NotAsked
           /\ \/ syncListing \/ ensureSearchIndexSynced \/ restart
              \/ backfillListingEmbeddings \/ edit \/ tick
  <2>1. query' = query /\ row' \in Rows(query)
    BY <1>2, EditStep
    DEF syncListing, ensureSearchIndexSynced, restart, backfillListingEmbeddings, edit, tick
  <2>2. AnswersAgree'
    BY <1>2 DEF AnswersAgree, NotAsked
  <2> QED
    BY <2>1, <2>2
<1>3. CASE UNCHANGED searchVars
  <2>1. Wanted' = Wanted /\ InStep' = InStep /\ LeftOut' = LeftOut /\ SomeFlags' = SomeFlags
    BY <1>3 DEF searchVars, Wanted, Says, InStep, SplitBetweenPlants, LeftOut, SomeFlags
  <2> QED
    BY <1>3, <2>1 DEF searchVars, AnswersAgree
<1> QED
  BY <1>1, <1>2, <1>3 DEF SearchNext

\* filtering.ts:16 and postgres-fallback.ts:23, for any categories, filters, rows
\* and failures: whichever engine answers, it answers what the filters mean on
\* the rows of today, less what the fallback leaves out, and with what an index
\* behind the rows, some of several flags or the semantic leg add.
THEOREM EnginesAgree == SearchSpec => []AnswersAgree
<1>1. SearchInit => SearchHolds
  BY DEF SearchInit, SearchHolds, AnswersAgree, NotAsked
<1>2. SearchHolds => AnswersAgree
  BY DEF SearchHolds
<1> QED
  BY <1>1, <1>2, SearchStep, PTL DEF SearchSpec

-----------------------------------------------------------------------------
(* What the search page shows *)

Requested == [number : Nat, to : Addresses]

PageTypeOK ==
    /\ link \in Addresses /\ url \in Addresses
    /\ past \in Seq(Addresses) /\ ahead \in Seq(Addresses)
    /\ box \in Texts /\ armed \in BOOLEAN
    /\ going \in [to : Addresses, replaces : BOOLEAN] \cup {Nowhere}
    /\ dropped \in BOOLEAN
    /\ flying \subseteq Requested /\ asked \in Nat /\ arrived \in Nat /\ late \in BOOLEAN
    /\ shown \in [of : Addresses \cup {Nowhere}, error : BOOLEAN, total : Nat]

\* A page number is deleted before it is pushed: only the first address has one.
NoPage(u) == u.offset > 0 => u = link

NoPages ==
    /\ NoPage(url) /\ (going # Nowhere => going.to.offset = 0)
    /\ \A i \in 1..Len(past) : NoPage(past[i])
    /\ \A i \in 1..Len(ahead) : NoPage(ahead[i])

\* What the box says is in the address or on its way there.
BoxFollowed ==
    \/ dropped \/ armed \/ url.q \in {box, Trim[box]}
    \/ going # Nowhere /\ going.to # url

\* The newest request, which is for the address shown, is under way, or its
\* answer came last, or only late ones followed.
NewestFlies ==
    arrived < asked /\ \E r \in flying : r.number = asked /\ r.to = url

NewestCame ==
    /\ arrived = asked /\ \A r \in flying : r.number < asked
    /\ late \/ shown.of = url \/ (shown.of = Nowhere /\ shown.error)

AnswersFollowed ==
    /\ \A r \in flying : r.number <= asked
    /\ \A r, o \in flying : r.number = o.number => r = o
    /\ NewestFlies \/ NewestCame
    /\ shown.of = Nowhere /\ ~shown.error => NewestFlies

PageIInv == PageTypeOK /\ NoPages /\ BoxFollowed /\ AnswersFollowed

\* A request goes out for the address shown: it is the newest.
LEMMA AskStep ==
  ASSUME PageTypeOK, AnswersFollowed, NEW u \in Addresses, Ask(u), url' = u, UNCHANGED arrived
  PROVE  /\ flying' \subseteq Requested /\ asked' \in Nat
         /\ shown' \in [of : Addresses \cup {Nowhere}, error : BOOLEAN, total : Nat]
         /\ AnswersFollowed'
<1> DEFINE new == [number |-> asked + 1, to |-> u]
<1>1. /\ asked' = asked + 1 /\ flying' = flying \cup {new}
      /\ shown' = [shown EXCEPT !.error = FALSE]
  BY DEF Ask
<1>2. asked \in Nat /\ arrived \in Nat /\ flying \subseteq Requested
  BY DEF PageTypeOK
<1>3. new \in Requested /\ new.number = asked + 1 /\ new.to = u
  BY <1>2 DEF Requested
<1> HIDE DEF new
<1>4. \A r \in flying : r.number \in Nat /\ r.number <= asked
  BY <1>2 DEF AnswersFollowed, Requested
<1>5. arrived <= asked
  BY <1>2 DEF AnswersFollowed, NewestFlies, NewestCame
<1>6. NewestFlies'
  BY <1>1, <1>2, <1>3, <1>5 DEF NewestFlies
<1>7. \A r \in flying' : r.number <= asked'
  BY <1>1, <1>2, <1>3, <1>4
<1>8. \A r, o \in flying' : r.number = o.number => r = o
  <2> SUFFICES ASSUME NEW r \in flying', NEW o \in flying', r.number = o.number PROVE r = o
    OBVIOUS
  <2>1. CASE r \in flying /\ o \in flying
    BY <2>1 DEF AnswersFollowed
  <2>2. CASE r = new \/ o = new
    BY <1>1, <1>2, <1>3, <1>4, <2>2
  <2> QED
    BY <1>1, <2>1, <2>2
<1>9. shown' \in [of : Addresses \cup {Nowhere}, error : BOOLEAN, total : Nat]
  BY <1>1 DEF PageTypeOK
<1>10. flying' \subseteq Requested /\ asked' \in Nat
  BY <1>1, <1>2, <1>3
<1> QED
  BY <1>6, <1>7, <1>8, <1>9, <1>10 DEF AnswersFollowed

LEMMA ShowStep ==
  ASSUME PageTypeOK, AnswersFollowed, NEW to \in Addresses, Show(to), UNCHANGED <<arrived, late>>
  PROVE  /\ url' = to /\ armed' \in BOOLEAN
         /\ to = url => armed' = armed
         /\ to # url => armed' = (box # to.q)
         /\ flying' \subseteq Requested /\ asked' \in Nat
         /\ shown' \in [of : Addresses \cup {Nowhere}, error : BOOLEAN, total : Nat]
         /\ AnswersFollowed'
<1>1. CASE to = url
  <2>1. UNCHANGED <<url, armed, flying, asked, shown, arrived, late>>
    BY <1>1 DEF Show
  <2>2. AnswersFollowed'
    BY <2>1 DEF AnswersFollowed, NewestFlies, NewestCame
  <2> QED
    BY <1>1, <2>1, <2>2 DEF PageTypeOK
<1>2. CASE to # url
  <2>1. url' = to /\ armed' = (box # to.q) /\ Ask(to)
    BY <1>2 DEF Show
  <2> QED
    BY <1>2, <2>1, AskStep
<1> QED
  BY <1>1, <1>2

\* A navigation goes to a first page, and drops one only for where it is.
LEMMA NavigateStep ==
  ASSUME PageTypeOK, NEW to \in Addresses, NEW replaces \in BOOLEAN, pushQueryState(to, replaces)
  PROVE  /\ going' \in [to : Addresses, replaces : BOOLEAN] /\ going' # Nowhere
         /\ going'.to.offset = 0 /\ going'.to.q = to.q
         /\ dropped' = (dropped \/ (going # Nowhere /\ going'.to = url))
         /\ dropped' \in BOOLEAN
<1> DEFINE first == [to EXCEPT !.offset = 0]
<1>1. first \in Addresses /\ first.offset = 0 /\ first.q = to.q
  BY DEF Addresses
<1>2. /\ going' = [to |-> first, replaces |-> replaces]
      /\ dropped' = (dropped \/ (going # Nowhere /\ first = url))
  BY DEF pushQueryState, Navigate
<1> HIDE DEF first
<1>3. going' \in [to : Addresses, replaces : BOOLEAN] /\ going'.to = first
  BY <1>1, <1>2
<1> QED
  BY <1>1, <1>2, <1>3, LinksAssumption DEF PageTypeOK

\* What the visitor asks for by a click: everything else stays.
LEMMA ClickStep ==
  ASSUME PageIInv, NEW to \in Addresses, NEW replaces \in BOOLEAN, pushQueryState(to, replaces),
         UNCHANGED <<link, url, past, ahead, box, flying, asked, arrived, late, shown>>,
         armed' = armed \/ (armed' = FALSE /\ to.q \in {box, Trim[box]})
  PROVE  PageIInv'
<1> USE DEF PageIInv
<1>1. /\ going' \in [to : Addresses, replaces : BOOLEAN] /\ going' # Nowhere
      /\ going'.to.offset = 0 /\ going'.to.q = to.q
      /\ dropped' = (dropped \/ (going # Nowhere /\ going'.to = url))
      /\ dropped' \in BOOLEAN
  BY NavigateStep
<1>2. armed' \in BOOLEAN
  BY DEF PageTypeOK
<1>3. PageTypeOK'
  BY <1>1, <1>2 DEF PageTypeOK
<1>4. NoPages'
  BY <1>1 DEF NoPages, NoPage
<1>5. BoxFollowed'
  <2>1. CASE going'.to # url
    BY <1>1, <2>1 DEF BoxFollowed
  <2>2. CASE going'.to = url
    <3>1. url.q = to.q
      BY <1>1, <2>2
    <3>2. going # Nowhere => dropped'
      BY <1>1, <2>2
    <3> QED
      BY <1>1, <3>1, <3>2 DEF BoxFollowed
  <2> QED
    BY <2>1, <2>2
<1>6. AnswersFollowed'
  BY DEF AnswersFollowed, NewestFlies, NewestCame
<1> QED
  BY <1>3, <1>4, <1>5, <1>6

LEMMA PageInitHolds == PageInit => PageIInv
<1> SUFFICES ASSUME PageInit PROVE PageIInv
  OBVIOUS
<1>1. link \in Addresses /\ url = link
  BY LinksAssumption DEF PageInit
<1>2. box \in Texts
  BY <1>1 DEF PageInit, Addresses
<1>3. PageTypeOK
  <2>1. past \in Seq(Addresses) /\ ahead \in Seq(Addresses)
    BY DEF PageInit
  <2>2. Loading \in [of : Addresses \cup {Nowhere}, error : BOOLEAN, total : Nat]
    BY DEF Loading
  <2>3. [number |-> 1, to |-> link] \in Requested
    BY <1>1 DEF Requested
  <2> QED
    BY <1>1, <1>2, <2>1, <2>2, <2>3 DEF PageInit, PageTypeOK
<1>4. NoPages
  BY <1>1 DEF PageInit, NoPages, NoPage
<1>5. BoxFollowed
  BY <1>1 DEF PageInit, BoxFollowed
<1>6. AnswersFollowed
  BY <1>1 DEF PageInit, AnswersFollowed, NewestFlies, NewestCame
<1> QED
  BY <1>3, <1>4, <1>5, <1>6 DEF PageIInv

\* An answer comes: the newest is of the address shown, another is late.
LEMMA ReceiveStep ==
  ASSUME PageIInv, receive
  PROVE  PageIInv'
<1> USE DEF PageIInv
<1>1. PICK r \in flying :
        /\ flying' = flying \ {r} /\ shown' \in Answers(r.to)
        /\ late' = (r.number < arrived)
        /\ arrived' = IF r.number > arrived THEN r.number ELSE arrived
        /\ UNCHANGED <<link, url, past, ahead, box, armed, going, dropped, asked, moves>>
  BY DEF receive
<1>2. r.number \in Nat /\ r.to \in Addresses /\ asked \in Nat /\ arrived \in Nat
  BY DEF PageTypeOK, Requested
<1>3. /\ shown' \in [of : Addresses \cup {Nowhere}, error : BOOLEAN, total : Nat]
      /\ shown'.of = r.to \/ (shown'.of = Nowhere /\ shown'.error)
      /\ ~(shown'.of = Nowhere /\ ~shown'.error)
  <2>1. CASE shown' = Failed
    <3>1. Failed.of = Nowhere /\ Failed.error /\ Failed.total = 0
          /\ Failed \in [of : Addresses \cup {Nowhere}, error : BOOLEAN, total : Nat]
      BY DEF Failed, Loading
    <3> QED
      BY <2>1, <3>1
  <2>2. ASSUME NEW n \in {Found, PageSize},
               shown' = [of |-> r.to, error |-> shown.error, total |-> n]
        PROVE  /\ shown' \in [of : Addresses \cup {Nowhere}, error : BOOLEAN, total : Nat]
               /\ shown'.of = r.to /\ shown'.of # Nowhere
    <3>1. n \in Nat /\ shown.error \in BOOLEAN
      BY PageAssumption DEF PageTypeOK
    <3> QED
      BY <1>2, <2>2, <3>1, LinksAssumption
  <2> QED
    BY <1>1, <2>1, <2>2 DEF Answers
<1>4. PageTypeOK'
  BY <1>1, <1>2, <1>3 DEF PageTypeOK
<1>5. NoPages' /\ BoxFollowed'
  BY <1>1 DEF NoPages, NoPage, BoxFollowed
<1>6. \A o \in flying : o.number <= asked /\ (o.number = r.number => o = r)
  BY DEF AnswersFollowed
<1>7. NewestFlies' \/ NewestCame'
  <2>1. CASE NewestFlies /\ r.number = asked
    <3>1. r.to = url
      BY <1>6, <2>1 DEF NewestFlies
    <3>2. arrived' = asked /\ \A o \in flying' : o.number < asked
      <4>1. \A o \in flying : o.number \in Nat
        BY DEF PageTypeOK, Requested
      <4> QED
        BY <1>1, <1>2, <1>6, <2>1, <4>1 DEF NewestFlies
    <3> QED
      BY <1>1, <1>3, <3>1, <3>2 DEF NewestCame
  <2>2. CASE NewestFlies /\ r.number # asked
    <3>1. PICK o \in flying : o.number = asked /\ o.to = url
      BY <2>2 DEF NewestFlies
    <3>2. o \in flying' /\ arrived' < asked
      BY <1>1, <1>2, <1>6, <2>2, <3>1 DEF NewestFlies
    <3>3. o \in flying' /\ o.number = asked' /\ o.to = url' /\ arrived' < asked'
      BY <1>1, <3>1, <3>2
    <3> QED
      BY <3>3 DEF NewestFlies
  <2>3. CASE NewestCame
    <3>1. r.number < arrived /\ arrived = asked
      BY <2>3 DEF NewestCame
    <3>2. late' /\ arrived' = asked'
      <4>1. late' = (r.number < arrived) /\ asked' = asked
        BY <1>1
      <4>2. arrived' = arrived
        BY <1>1, <1>2, <3>1
      <4> QED
        BY <3>1, <4>1, <4>2
    <3>3. \A o \in flying' : o.number < asked'
      BY <1>1, <2>3 DEF NewestCame
    <3> QED
      BY <3>2, <3>3 DEF NewestCame
  <2> QED
    BY <2>1, <2>2, <2>3 DEF AnswersFollowed
<1>8. AnswersFollowed'
  BY <1>1, <1>3, <1>7 DEF AnswersFollowed
<1> QED
  BY <1>4, <1>5, <1>8

LEMMA CommitNavigation ==
  ASSUME PageIInv, commit
  PROVE  PageIInv'
<1> USE DEF PageIInv
<1>1. /\ going # Nowhere /\ Show(going.to) /\ going' = Nowhere
      /\ UNCHANGED <<link, box, dropped, arrived, late>>
  BY DEF commit
<1>2. going.to \in Addresses /\ going.to.offset = 0
  BY <1>1 DEF PageTypeOK, NoPages
<1>3. /\ url' = going.to /\ armed' \in BOOLEAN
      /\ going.to = url => armed' = armed
      /\ going.to # url => armed' = (box # going.to.q)
      /\ flying' \subseteq Requested /\ asked' \in Nat
      /\ shown' \in [of : Addresses \cup {Nowhere}, error : BOOLEAN, total : Nat]
      /\ AnswersFollowed'
  BY <1>1, <1>2, ShowStep
<1>4. \/ past' = past /\ ahead' = ahead
      \/ past' = Append(past, url) /\ ahead' = <<>>
  BY DEF commit
<1>5. url \in Addresses /\ past \in Seq(Addresses) /\ ahead \in Seq(Addresses)
  BY DEF PageTypeOK
<1>6. past' \in Seq(Addresses) /\ ahead' \in Seq(Addresses)
  <2>1. CASE past' = past /\ ahead' = ahead
    BY <1>5, <2>1
  <2>2. CASE past' = Append(past, url) /\ ahead' = <<>>
    <3>1. Append(past, url) \in Seq(Addresses) /\ <<>> \in Seq(Addresses)
      BY <1>5
    <3> QED
      BY <2>2, <3>1
  <2> QED
    BY <1>4, <2>1, <2>2
<1>7. PageTypeOK'
  BY <1>1, <1>2, <1>3, <1>6 DEF PageTypeOK
<1>8. NoPages'
  <2>1. \A u : NoPage(u)' <=> NoPage(u)
    BY <1>1 DEF NoPage
  <2>2. NoPage(going.to)
    BY <1>2 DEF NoPage
  <2>3. \A i \in 1..Len(past') : NoPage(past'[i])
    BY <1>4, <1>5 DEF NoPages
  <2>4. \A i \in 1..Len(ahead') : NoPage(ahead'[i])
    BY <1>4, <1>5 DEF NoPages
  <2> QED
    BY <1>1, <1>3, <2>2, <2>3, <2>4 DEF NoPages, NoPage
<1>9. BoxFollowed'
  BY <1>1, <1>3 DEF BoxFollowed
<1> QED
  BY <1>3, <1>7, <1>8, <1>9

LEMMA TypeStep ==
  ASSUME PageIInv, NEW text \in Texts, type(text)
  PROVE  PageIInv'
<1> USE DEF PageIInv
<1>1. /\ box' = text /\ armed' = (text # url.q)
      /\ UNCHANGED <<link, url, past, ahead, going, dropped, flying, asked, arrived, late, shown>>
  BY DEF type
<1>2. PageTypeOK'
  BY <1>1 DEF PageTypeOK
<1>3. NoPages' /\ AnswersFollowed'
  BY <1>1 DEF NoPages, NoPage, AnswersFollowed, NewestFlies, NewestCame
<1>4. BoxFollowed'
  BY <1>1 DEF BoxFollowed
<1> QED
  BY <1>2, <1>3, <1>4

LEMMA RetryStep ==
  ASSUME PageIInv, retry
  PROVE  PageIInv'
<1> USE DEF PageIInv
<1>1. /\ Ask(url)
      /\ UNCHANGED <<link, url, past, ahead, box, armed, going, dropped, arrived, late>>
  BY DEF retry
<1>2. url \in Addresses
  BY DEF PageTypeOK
<1>3. /\ flying' \subseteq Requested /\ asked' \in Nat
      /\ shown' \in [of : Addresses \cup {Nowhere}, error : BOOLEAN, total : Nat]
      /\ AnswersFollowed'
  BY <1>1, <1>2, AskStep
<1>4. PageTypeOK'
  BY <1>1, <1>3 DEF PageTypeOK
<1>5. NoPages' /\ BoxFollowed'
  BY <1>1 DEF NoPages, NoPage, BoxFollowed
<1> QED
  BY <1>3, <1>4, <1>5

LEMMA ShorterIs ==
  ASSUME NEW S, NEW s \in Seq(S), s # <<>>
  PROVE  /\ Shorter(s) \in Seq(S) /\ Len(Shorter(s)) = Len(s) - 1
         /\ \A i \in 1..Len(Shorter(s)) : Shorter(s)[i] = s[i]
<1> DEFINE n == Len(s) - 1
           cut == SubSeq(s, 1, n)
<1>1. n \in Nat /\ \A i \in 1..n : s[i] \in S
  OBVIOUS
<1> HIDE DEF n
<1>2. /\ cut \in Seq(S) /\ Len(cut) = IF 1 <= n THEN n - 1 + 1 ELSE 0
      /\ \A i \in 1..(n - 1 + 1) : cut[i] = s[1 + i - 1]
  <2>1. n \in Int /\ 1 \in Int
    BY <1>1
  <2> QED
    BY <1>1, <2>1, SubSeqProperties
<1> HIDE DEF cut
<1>3. cut \in Seq(S) /\ Len(cut) = n /\ \A i \in 1..n : cut[i] = s[i]
  BY <1>1, <1>2
<1> QED
  BY <1>1, <1>3 DEF Shorter, cut, n

\* Back and Forward, between the two halves of the history.
LEMMA TraverseStep ==
  ASSUME PageIInv, NEW from \in Seq(Addresses), NEW to, traverse(from, to),
         \A i \in 1..Len(from) : NoPage(from[i]),
         NEW others \in Seq(Addresses), \A i \in 1..Len(others) : NoPage(others[i]),
         UNCHANGED <<link, box, arrived, late>>
  PROVE  /\ BoxFollowed' /\ AnswersFollowed'
         /\ Shorter(from) \in Seq(Addresses) /\ Append(others, url) \in Seq(Addresses)
         /\ \A i \in 1..Len(Shorter(from)) : NoPage(Shorter(from)[i])
         /\ \A i \in 1..Len(Append(others, url)) : NoPage(Append(others, url)[i])
         /\ NoPage(url)' /\ going' = Nowhere /\ \A u : NoPage(u)' <=> NoPage(u)
         /\ past' \in Seq(Addresses) /\ ahead' \in Seq(Addresses) => PageTypeOK'
<1> USE DEF PageIInv
<1> DEFINE last == from[Len(from)]
<1>1. /\ from # <<>> /\ Show(last) /\ going' = Nowhere
      /\ dropped' = (dropped \/ (going # Nowhere /\ last = url))
  BY DEF traverse
<1>2. last \in Addresses /\ NoPage(last) /\ Len(from) \in Nat \ {0}
  BY <1>1
<1> HIDE DEF last
<1>3. /\ url' = last /\ armed' \in BOOLEAN
      /\ last = url => armed' = armed
      /\ last # url => armed' = (box # last.q)
      /\ flying' \subseteq Requested /\ asked' \in Nat
      /\ shown' \in [of : Addresses \cup {Nowhere}, error : BOOLEAN, total : Nat]
      /\ AnswersFollowed'
  BY <1>1, <1>2, ShowStep
<1>4. url \in Addresses /\ NoPage(url)
  BY DEF PageTypeOK, NoPages
<1>5. BoxFollowed'
  <2>1. CASE last = url
    <3>1. url' = url /\ armed' = armed /\ box' = box
      BY <1>3, <2>1
    <3>2. dropped' <=> dropped \/ going # Nowhere
      BY <1>1, <2>1
    <3> QED
      BY <3>1, <3>2 DEF BoxFollowed
  <2>2. CASE last # url
    <3>1. armed' = (box' # url'.q)
      BY <1>3, <2>2
    <3> QED
      BY <3>1 DEF BoxFollowed
  <2> QED
    BY <2>1, <2>2
<1>6. /\ Shorter(from) \in Seq(Addresses)
      /\ Len(Shorter(from)) = Len(from) - 1
      /\ \A i \in 1..Len(Shorter(from)) : Shorter(from)[i] = from[i]
  BY <1>1, ShorterIs
<1>7. /\ Append(others, url) \in Seq(Addresses)
      /\ \A i \in 1..Len(Append(others, url)) : NoPage(Append(others, url)[i])
  BY <1>4
<1>8. \A i \in 1..Len(Shorter(from)) : NoPage(Shorter(from)[i])
  BY <1>2, <1>6
<1>9. \A u : NoPage(u)' <=> NoPage(u)
  BY DEF NoPage
<1>10. dropped' \in BOOLEAN
  BY <1>1 DEF PageTypeOK
<1>11. past' \in Seq(Addresses) /\ ahead' \in Seq(Addresses) => PageTypeOK'
  BY <1>1, <1>2, <1>3, <1>10 DEF PageTypeOK
<1>12. NoPage(url)'
  BY <1>2, <1>3 DEF NoPage
<1> QED
  BY <1>1, <1>3, <1>5, <1>6, <1>7, <1>8, <1>9, <1>11, <1>12

LEMMA HistoryStep ==
  ASSUME PageIInv, back \/ forward
  PROVE  PageIInv'
<1> USE DEF PageIInv
<1>1. past \in Seq(Addresses) /\ ahead \in Seq(Addresses)
  BY DEF PageTypeOK
<1>2. /\ \A i \in 1..Len(past) : NoPage(past[i])
      /\ \A i \in 1..Len(ahead) : NoPage(ahead[i])
  BY DEF NoPages
<1>3. UNCHANGED <<link, box, arrived, late>>
  BY DEF back, forward
<1>4. CASE back
  <2>1. traverse(past, ahead) /\ past' = Shorter(past) /\ ahead' = Append(ahead, url)
    BY <1>4 DEF back
  <2>2. /\ BoxFollowed' /\ AnswersFollowed' /\ PageTypeOK' /\ going' = Nowhere /\ NoPage(url)'
        /\ \A i \in 1..Len(past') : NoPage(past'[i])
        /\ \A i \in 1..Len(ahead') : NoPage(ahead'[i])
    BY <1>1, <1>2, <1>3, <2>1, TraverseStep
  <2>3. NoPages'
    BY <1>3, <2>2 DEF NoPages, NoPage
  <2> QED
    BY <2>2, <2>3
<1>5. CASE forward
  <2>1. traverse(ahead, past) /\ ahead' = Shorter(ahead) /\ past' = Append(past, url)
    BY <1>5 DEF forward
  <2>2. /\ BoxFollowed' /\ AnswersFollowed' /\ PageTypeOK' /\ going' = Nowhere /\ NoPage(url)'
        /\ \A i \in 1..Len(past') : NoPage(past'[i])
        /\ \A i \in 1..Len(ahead') : NoPage(ahead'[i])
    BY <1>1, <1>2, <1>3, <2>1, TraverseStep
  <2>3. NoPages'
    BY <1>3, <2>2 DEF NoPages, NoPage
  <2> QED
    BY <2>2, <2>3
<1> QED
  BY <1>4, <1>5

LEMMA PageStep == PageIInv /\ [PageNext]_pageVars => PageIInv'
<1> SUFFICES ASSUME PageIInv, [PageNext]_pageVars PROVE PageIInv'
  OBVIOUS
<1>1. url \in Addresses /\ box \in Texts /\ Trim[box] \in Texts
  BY TrimAssumption DEF PageIInv, PageTypeOK
<1>2. CASE receive
  BY <1>2, ReceiveStep
<1>3. CASE commit
  BY <1>3, CommitNavigation
<1>4. CASE fire \/ submitQuery
  <2>1. Queried(box) \in Addresses /\ Queried(box).q = Trim[box]
    BY <1>1 DEF Queried, Addresses
  <2>2. /\ pushQueryState(Queried(box), TRUE) \/ pushQueryState(Queried(box), FALSE)
        /\ armed' = armed \/ armed' = FALSE
        /\ UNCHANGED <<link, url, past, ahead, box, flying, asked, arrived, late, shown>>
    BY <1>4 DEF fire, submitQuery, Navigates
  <2> QED
    BY <2>1, <2>2, ClickStep
<1>5. ASSUME NEW t \in Texts, type(t) PROVE PageIInv'
  BY <1>5, TypeStep
<1>6. CASE retry
  BY <1>6, RetryStep
<1>7. CASE back \/ forward
  BY <1>7, HistoryStep
<1>8. ASSUME NEW s \in Sorts, setSort(s) PROVE PageIInv'
  <2>1. [url EXCEPT !.sort = s] \in Addresses
    BY <1>1 DEF Addresses
  <2> QED
    BY <1>8, <2>1, ClickStep DEF setSort, Navigates
<1>9. ASSUME NEW f \in Facets, toggleFacet(f) PROVE PageIInv'
  <2> DEFINE facets == IF f \in url.facets THEN url.facets \ {f} ELSE url.facets \cup {f}
             to == [url EXCEPT !.facets = facets]
  <2>1. facets \subseteq Facets
    BY <1>1 DEF Addresses
  <2>2. Navigate([url EXCEPT !.offset = 0, !.facets = facets], FALSE) /\ Navigates
    BY <1>9 DEF toggleFacet
  <2> HIDE DEF facets
  <2>3. to \in Addresses /\ [to EXCEPT !.offset = 0] = [url EXCEPT !.offset = 0, !.facets = facets]
    BY <1>1, <2>1 DEF Addresses
  <2>4. pushQueryState(to, FALSE)
    BY <2>2, <2>3 DEF pushQueryState
  <2> QED
    BY <2>2, <2>3, <2>4, ClickStep DEF Navigates
<1>10. ASSUME NEW o \in 0..Found, setPage(o) PROVE PageIInv'
  <2>1. [url EXCEPT !.offset = o] \in Addresses
    BY <1>1, PageAssumption DEF Addresses
  <2> QED
    BY <1>10, <2>1, ClickStep DEF setPage, Navigates
<1>11. CASE UNCHANGED pageVars
  BY <1>11 DEF pageVars, PageIInv, PageTypeOK, NoPages, NoPage, BoxFollowed, AnswersFollowed,
               NewestFlies, NewestCame
<1> QED
  BY <1>2, <1>3, <1>4, <1>5, <1>6, <1>7, <1>8, <1>9, <1>10, <1>11 DEF PageNext

LEMMA PageFollows == PageIInv => PageMirrorsAddress
<1> SUFFICES ASSUME PageIInv PROVE PageMirrorsAddress
  OBVIOUS
<1> USE DEF PageIInv
<1>1. ASSUME AtRest
      PROVE  /\ dropped \/ url.q \in {box, Trim[box]}
             /\ late \/ shown.of = url \/ (shown.of = Nowhere /\ shown.error)
  <2>1. ~NewestFlies
    BY <1>1 DEF AtRest, NewestFlies
  <2> QED
    BY <1>1, <2>1 DEF AtRest, BoxFollowed, AnswersFollowed, NewestCame
<1>2. shown = Loading => flying # {}
  BY DEF Loading, AnswersFollowed, NewestFlies
<1> QED
  BY <1>1, <1>2 DEF PageMirrorsAddress

\* search-experience.tsx:23, for any texts, links, answers and order of events:
\* at rest the address holds the query in the box unless its navigation was
\* dropped, and the page shows the answer to its address unless an older one
\* came after it.
THEOREM PageFollowsAddress == PageSpec => []PageMirrorsAddress
  BY PageInitHolds, PageStep, PageFollows, PTL DEF PageSpec

\* search-experience.tsx:100 against :23: the page of results a visitor asks for
\* never reaches the address.  Only the one the visitor arrived by has any.
THEOREM PagesAreNotAddressed == PageSpec => [](url.offset > 0 => url = link)
<1>1. PageIInv => (url.offset > 0 => url = link)
  BY DEF PageIInv, NoPages, NoPage
<1> QED
  BY <1>1, PageInitHolds, PageStep, PTL DEF PageSpec

-----------------------------------------------------------------------------
(* What a draft listing says *)

Places == [url : Pictures, position : Nat, suggestionStatus : {"pending", "confirmed"}]
Writing == {"EDIT", "APPLY", "ADD_IMAGE", "CONFIRM_IMAGE"}

Urls(entries) == {entries[i].url : i \in 1..Len(entries)}

\* Each entry stands at the place it names, once.
Placed(entries) ==
    \A i \in 1..Len(entries) :
        /\ entries[i].position = i - 1
        /\ \A j \in 1..Len(entries) : entries[i].url = entries[j].url => i = j

Seen(entries, saw) ==
    \A i \in 1..Len(entries) : entries[i].suggestionStatus = "confirmed" => entries[i].url \in saw

CallTypeOK(e) ==
    e.op \in Writing \cup {"IDLE", "VIEW", "UPLOADED"} /\ e.entries \in Seq(Places)

ContentsTypeOK ==
    /\ category \in Category
    /\ images \in Seq(Places)
    /\ sheets = [x \in Uploads |-> sheets[x]]
    /\ \A x \in Uploads : sheets[x] = [status |-> sheets[x].status,
                                       suggestions |-> sheets[x].suggestions,
                                       unmatchedRequiredKeys |-> sheets[x].unmatchedRequiredKeys]
    /\ edits = [m \in Editors |-> edits[m]]
    /\ \A m \in Editors : CallTypeOK(edits[m])
    /\ entangled \in BOOLEAN

\* A sheet's suggestions each fit a definition of one category, and all its
\* required ones together make a listing.
SheetFitsIn(c, sheet) ==
    /\ \A k \in DOMAIN sheet.suggestions :
         \E d \in AttributeSets[c] : d.key = k /\ schemaForAttribute(d, sheet.suggestions[k])
    /\ sheet.status = "EXTRACTED" /\ sheet.unmatchedRequiredKeys = {} =>
         validateAttributesForCategory(c, sheet.suggestions)

SheetFits(sheet) == \E c \in Category : SheetFitsIn(c, sheet)

\* The pictures of a later column are those of an earlier one, and more.
Extended(early, column) ==
    /\ Len(early) <= Len(column)
    /\ \A i \in 1..Len(early) : column[i].url = early[i].url

\* A call that is going to write holds what may be written.
CallHolds(e) ==
    /\ e.op \in {"EDIT", "APPLY"} =>
         e.category \in Category /\ validateAttributesForCategory(e.category, e.values)
    /\ e.op \in {"UPLOADED", "APPLY"} => e.of \in Uploads /\ sheets[e.of].status # "NONE"
    /\ e.op \in {"ADD_IMAGE", "CONFIRM_IMAGE"} => Placed(e.entries)
    /\ e.op = "ADD_IMAGE" => Urls(e.entries) \subseteq uploaded \cup {e.of}
    /\ e.op = "CONFIRM_IMAGE" => Urls(e.entries) \subseteq uploaded
    /\ e.op = "VIEW" => e.of \in 1..Len(e.entries)

\* A sheet is extracted once, by who uploaded it, and before it is applied.
SheetsAreOwned ==
    \A m \in Editors : edits[m].op = "UPLOADED" =>
        /\ sheets[edits[m].of].status # "EXTRACTED"
        /\ \A o \in Editors \ {m} : edits[o].op \in {"UPLOADED", "APPLY"} => edits[o].of # edits[m].of

\* As long as no calls cross, the one that is going to write knows the columns
\* as they are, and a page shows the pictures where they are.
KnowsColumns(e, saw) ==
    /\ e.op = "APPLY" => /\ e.values = Merged(attributes, sheets[e.of].suggestions)
                         /\ e.category = category
    /\ e.op = "ADD_IMAGE" => Urls(e.entries) = uploaded \cup {e.of}
    /\ e.op = "CONFIRM_IMAGE" => Urls(e.entries) = uploaded
    /\ e.op \in {"ADD_IMAGE", "CONFIRM_IMAGE"} => Seen(e.entries, saw) /\ Extended(images, e.entries)
    /\ e.op = "VIEW" => Extended(e.entries, images)

UncrossedHold ==
    /\ validateAttributesForCategory(category, attributes)
    /\ attributes = meant /\ uploaded = Urls(images) /\ Seen(images, looked)
    /\ \A m \in Editors : Editing(m) => \A o \in Editors \ {m} : ~Editing(o)
    /\ \A m \in Editors : KnowsColumns(edits[m], looked)

ContentsIInv ==
    /\ ContentsTypeOK
    /\ \E c \in Category : validateAttributesForCategory(c, attributes)
    /\ \A x \in Uploads : SheetFits(sheets[x])
    /\ Placed(images) /\ Urls(images) \subseteq uploaded
    /\ \A m \in Editors : CallHolds(edits[m])
    /\ SheetsAreOwned
    /\ ~entangled => UncrossedHold

-----------------------------------------------------------------------------

LEMMA OneDefinition ==
  ASSUME NEW c \in Category, NEW d \in AttributeSets[c]
  PROVE  Definition(c, d.key) = d
BY AttributesAssumption DEF Definition

\* What a pattern finds is suggested only if its definition takes it.
LEMMA SuggestedFits ==
  ASSUME NEW text, NEW d, NEW v \in suggestion(text, d)
  PROVE  schemaForAttribute(d, v)
<1>1. safeValidateAttributes({d}, [k \in {d.key} |-> v])
  BY DEF suggestion, safeValidateSingleAttribute
<1> QED  BY <1>1 DEF safeValidateAttributes

LEMMA ExtractionFits ==
  ASSUME NEW text, NEW c \in Category
  PROVE  SheetFits(extractSpecSuggestions(text, c))
<1> DEFINE matched == {d.key : d \in {d \in AttributeSets[c] : suggestion(text, d) # {}}}
           found == [k \in matched |-> CHOOSE v \in suggestion(text, Definition(c, k)) : TRUE]
           missing == {d.key : d \in {d \in AttributeSets[c] : d.required}} \ matched
           sheet == extractSpecSuggestions(text, c)
<1>1. sheet.status = "EXTRACTED" /\ sheet.suggestions = found
        /\ sheet.unmatchedRequiredKeys = missing
  BY DEF extractSpecSuggestions
<1>2. \A k \in matched : \E d \in AttributeSets[c] : d.key = k /\ schemaForAttribute(d, found[k])
  <2> TAKE k \in matched
  <2>1. PICK d \in AttributeSets[c] : d.key = k /\ suggestion(text, d) # {}
    OBVIOUS
  <2>2. found[k] \in suggestion(text, d)
    BY <2>1, OneDefinition
  <2>3. schemaForAttribute(d, found[k])
    BY <2>2, SuggestedFits
  <2> QED  BY <2>1, <2>3
<1>3. ASSUME missing = {}
      PROVE  validateAttributesForCategory(c, found)
  <2>1. DOMAIN found = matched /\ matched \subseteq {d.key : d \in AttributeSets[c]}
    OBVIOUS
  <2>2. ASSUME NEW d \in AttributeSets[c]
        PROVE  IF d.key \in DOMAIN found THEN schemaForAttribute(d, found[d.key]) ELSE ~d.required
    <3>1. CASE d.key \in matched
      <4>1. PICK e \in AttributeSets[c] : e.key = d.key /\ schemaForAttribute(e, found[d.key])
        BY <1>2, <3>1
      <4>2. e = d
        BY <4>1, AttributesAssumption
      <4> QED  BY <4>1, <4>2, <3>1, <2>1
    <3>2. CASE d.key \notin matched
      BY <3>2, <2>1, <1>3
    <3> QED  BY <3>1, <3>2
  <2>3. safeValidateAttributes(AttributeSets[c], found)
    BY <2>1, <2>2 DEF safeValidateAttributes
  <2> QED  BY <2>3 DEF validateAttributesForCategory
<1> HIDE DEF matched, found, missing, sheet
<1>4. \A k \in DOMAIN found :
        \E d \in AttributeSets[c] : d.key = k /\ schemaForAttribute(d, found[k])
  BY <1>2 DEF found
<1>5. SheetFits(sheet)
  <2>1. SheetFitsIn(c, sheet)
    BY <1>1, <1>3, <1>4 DEF SheetFitsIn
  <2> QED  BY <2>1 DEF SheetFits
<1> QED  BY <1>5 DEF sheet

LEMMA IdleHolds ==
  ASSUME NEW saw
  PROVE  CallTypeOK(NotEditing) /\ CallHolds(NotEditing) /\ KnowsColumns(NotEditing, saw)
<1>1. NotEditing.op = "IDLE" /\ NotEditing.entries = <<>>
  BY DEF NotEditing
<1>2. <<>> \in Seq(Places)
  OBVIOUS
<1> QED  BY <1>1, <1>2 DEF CallTypeOK, CallHolds, KnowsColumns

\* A step that changes one member's call and no column.
LEMMA CallStep ==
  ASSUME ContentsIInv, NEW m \in Editors, NEW call, NEW saw,
         edits' = [edits EXCEPT ![m] = call],
         UNCHANGED <<category, attributes, sheets, images, meant, uploaded>>,
         looked' = saw, looked \subseteq saw,
         entangled' \in BOOLEAN,
         ~entangled' => ~entangled,
         ~entangled' /\ call.op \in Writing => \A o \in Editors \ {m} : ~Editing(o),
         CallTypeOK(call), CallHolds(call),
         call.op # "UPLOADED",
         call.op = "APPLY" => sheets[call.of].status = "EXTRACTED",
         ~entangled' => KnowsColumns(call, saw)
  PROVE  ContentsIInv'
<1>1. /\ edits'[m] = call
      /\ \A o \in Editors \ {m} : edits'[o] = edits[o]
      /\ edits' = [o \in Editors |-> edits'[o]]
  BY DEF ContentsIInv, ContentsTypeOK
<1>2. ContentsTypeOK'
  BY <1>1 DEF ContentsIInv, ContentsTypeOK, CallTypeOK
<1>3. \A o \in Editors : CallHolds(edits[o])'
  <2> TAKE o \in Editors
  <2>1. CallHolds(edits'[o])
    BY <1>1 DEF ContentsIInv
  <2> QED  BY <2>1 DEF CallHolds, validateAttributesForCategory
<1>4. SheetsAreOwned'
  BY <1>1 DEF ContentsIInv, SheetsAreOwned
<1>5. ASSUME ~entangled'
      PROVE  UncrossedHold'
  <2>1. UncrossedHold /\ ~entangled
    BY <1>5 DEF ContentsIInv
  <2>2. Seen(images, looked)'
    BY <2>1 DEF UncrossedHold, Seen
  <2>3. \A o \in Editors : Editing(o)' => \A n \in Editors \ {o} : ~Editing(n)'
    <3>1. \A o \in Editors : Editing(o) <=> edits[o].op \in Writing
      BY DEF ContentsIInv, ContentsTypeOK, CallTypeOK, Writing, Editing
    <3>2. \A o \in Editors : Editing(o)' <=> edits'[o].op \in Writing
      BY <1>2 DEF ContentsTypeOK, CallTypeOK, Writing, Editing
    <3>3. \A o \in Editors \ {m} : Editing(o)' <=> Editing(o)
      BY <1>1, <3>1, <3>2
    <3>4. Editing(m)' <=> call.op \in Writing
      BY <1>1, <3>2
    <3> HIDE DEF Editing
    <3> QED  BY <3>3, <3>4, <2>1, <1>5 DEF UncrossedHold
  <2>4. \A o \in Editors : KnowsColumns(edits[o], looked)'
    <3> TAKE o \in Editors
    <3>1. KnowsColumns(edits'[o], looked) \/ KnowsColumns(edits'[o], looked')
      BY <1>1, <1>5, <2>1 DEF UncrossedHold
    <3> QED  BY <3>1 DEF KnowsColumns, Seen
  <2> QED  BY <2>1, <2>2, <2>3, <2>4 DEF UncrossedHold, validateAttributesForCategory
<1>6. (/\ \E c \in Category : validateAttributesForCategory(c, attributes)
       /\ \A x \in Uploads : SheetFits(sheets[x])
       /\ Placed(images) /\ Urls(images) \subseteq uploaded)'
  BY DEF ContentsIInv, validateAttributesForCategory, SheetFits, SheetFitsIn
<1> QED  BY <1>2, <1>3, <1>4, <1>5, <1>6 DEF ContentsIInv

\* A call that starts knows whether another is under way.
LEMMA BeginStep ==
  ASSUME ContentsIInv, NEW m \in Editors, NEW call, Begins(m, call),
         CallTypeOK(call), CallHolds(call), call.op # "UPLOADED",
         call.op = "APPLY" => sheets[call.of].status = "EXTRACTED",
         ~entangled => KnowsColumns(call, looked)
  PROVE  ContentsIInv'
<1>1. edits' = [edits EXCEPT ![m] = call] /\ UNCHANGED <<category, attributes, sheets, images, meant, uploaded>>
        /\ looked' = looked
  BY DEF Begins
<1>2. entangled \in BOOLEAN
  BY DEF ContentsIInv, ContentsTypeOK
<1>3. entangled' = (entangled \/ \E o \in Editors \ {m} : Editing(o))
  BY DEF Begins
<1>4. entangled' \in BOOLEAN
  BY <1>2, <1>3
<1>5. ~entangled' => ~entangled /\ \A o \in Editors \ {m} : ~Editing(o)
  BY <1>3
<1> QED  BY <1>1, <1>4, <1>5, CallStep

LEMMA GiveUpStep ==
  ASSUME ContentsIInv, NEW m \in Editors, giveUpEdit(m)
  PROVE  ContentsIInv'
<1>1. entangled \in BOOLEAN /\ entangled' = entangled /\ NotEditing.op = "IDLE"
  BY DEF ContentsIInv, ContentsTypeOK, giveUpEdit, NotEditing
<1>2. /\ edits' = [edits EXCEPT ![m] = NotEditing]
      /\ UNCHANGED <<category, attributes, sheets, images, meant, uploaded>> /\ looked' = looked
  BY DEF giveUpEdit, Returns
<1> QED  BY <1>1, <1>2, IdleHolds, CallStep DEF Writing

LEMMA ParseStep ==
  ASSUME ContentsIInv, NEW m \in Editors, parseListingUpsertForm(m)
  PROVE  ContentsIInv'
<1>1. PICK c \in Category, entry \in Entries :
         /\ validateAttributesForCategory(c, attributeValues(c, entry).values)
         /\ Begins(m, [NotEditing EXCEPT !.op = "EDIT", !.category = c,
                                         !.values = attributeValues(c, entry).values])
  BY DEF parseListingUpsertForm
<1> DEFINE values == attributeValues(c, entry).values
           call == [NotEditing EXCEPT !.op = "EDIT", !.category = c, !.values = values]
<1>2. call.op = "EDIT" /\ call.category = c /\ call.values = values /\ call.entries = <<>>
  BY DEF NotEditing
<1>3. <<>> \in Seq(Places)
  OBVIOUS
<1>4. validateAttributesForCategory(c, values) /\ Begins(m, call)
  BY <1>1
<1> HIDE DEF values, call
<1>5. CallTypeOK(call) /\ CallHolds(call) /\ KnowsColumns(call, looked)
  BY <1>2, <1>3, <1>4 DEF CallTypeOK, CallHolds, KnowsColumns, Writing
<1> QED  BY <1>2, <1>4, <1>5, BeginStep

LEMMA ReadSuggestionsStep ==
  ASSUME ContentsIInv, NEW m \in Editors, NEW x \in Uploads, readSuggestions(m, x)
  PROVE  ContentsIInv'
<1> DEFINE merged == Merged(attributes, sheets[x].suggestions)
           call == [NotEditing EXCEPT !.op = "APPLY", !.category = category,
                                      !.values = merged, !.of = x]
<1>1. /\ call.op = "APPLY" /\ call.category = category /\ call.values = merged
      /\ call.entries = <<>> /\ call.of = x
  BY DEF NotEditing
<1>2. <<>> \in Seq(Places)
  OBVIOUS
<1>3. /\ sheets[x].status = "EXTRACTED" /\ validateAttributesForCategory(category, merged)
      /\ Begins(m, call) /\ category \in Category
  BY DEF readSuggestions, ContentsIInv, ContentsTypeOK
<1>4. ~entangled => merged = Merged(attributes, sheets[x].suggestions)
  OBVIOUS
<1> HIDE DEF merged, call
<1>5. CallTypeOK(call) /\ CallHolds(call)
  BY <1>1, <1>2, <1>3 DEF CallTypeOK, CallHolds, Writing
<1>6. ~entangled => KnowsColumns(call, looked)
  BY <1>1, <1>4 DEF KnowsColumns
<1> QED  BY <1>1, <1>3, <1>5, <1>6, BeginStep

\* A new picture stands last.
LEMMA AppendedPlaces ==
  ASSUME NEW entries \in Seq(Places), Placed(entries), NEW p \in Pictures, p \notin Urls(entries)
  PROVE  LET longer == Append(entries, Picture(p, Len(entries))) IN
         /\ longer \in Seq(Places) /\ Placed(longer) /\ Urls(longer) = Urls(entries) \cup {p}
         /\ Extended(entries, longer)
         /\ \A saw : Seen(entries, saw) => Seen(longer, saw)
<1> DEFINE new == Picture(p, Len(entries))
           longer == Append(entries, new)
           n == Len(entries)
<1>1. new \in Places /\ new.url = p /\ new.position = n /\ new.suggestionStatus = "pending"
  BY DEF Picture, Places
<1> HIDE DEF new
<1>2. /\ longer \in Seq(Places) /\ Len(longer) = n + 1 /\ longer[n + 1] = new
      /\ \A i \in 1..n : longer[i] = entries[i]
  BY <1>1
<1>3. n \in Nat
  OBVIOUS
<1> HIDE DEF longer, n
<1>4. \A i \in 1..(n + 1) : i \in 1..n \/ i = n + 1
  BY <1>3
<1>5. 1..n \subseteq 1..(n + 1) /\ n + 1 \in 1..(n + 1) /\ n + 1 - 1 = n
  BY <1>3
<1>6. \A i \in 1..n : longer[i].url # p
  BY <1>2 DEF Urls, n
<1>7. Placed(longer)
  <2>1. \A i \in 1..(n + 1) : longer[i].position = i - 1
    BY <1>1, <1>2, <1>4, <1>5 DEF Placed, n
  <2>2. \A i, j \in 1..(n + 1) : longer[i].url = longer[j].url => i = j
    BY <1>1, <1>2, <1>4, <1>6 DEF Placed, n
  <2> QED  BY <1>2, <2>1, <2>2 DEF Placed
<1>8. Urls(longer) = Urls(entries) \cup {p}
  BY <1>1, <1>2, <1>4, <1>5 DEF Urls, n
<1>9. Extended(entries, longer)
  BY <1>2, <1>3 DEF Extended, n
<1>10. \A saw : Seen(entries, saw) => Seen(longer, saw)
  BY <1>1, <1>2, <1>4 DEF Seen, n
<1> QED  BY <1>2, <1>7, <1>8, <1>9, <1>10 DEF longer, new, n

\* A picture confirmed stays where it is.
LEMMA ConfirmedPlaces ==
  ASSUME NEW entries \in Seq(Places), Placed(entries), NEW n \in 1..Len(entries)
  PROVE  LET after == [entries EXCEPT ![n].suggestionStatus = "confirmed"] IN
         /\ after \in Seq(Places) /\ Placed(after) /\ Urls(after) = Urls(entries)
         /\ Extended(entries, after)
         /\ \A saw : Seen(entries, saw) => Seen(after, saw \cup {entries[n].url})
<1> DEFINE new == [entries[n] EXCEPT !.suggestionStatus = "confirmed"]
           after == [entries EXCEPT ![n].suggestionStatus = "confirmed"]
<1>1. entries[n] \in Places
  OBVIOUS
<1>2. new \in Places /\ new.url = entries[n].url /\ new.position = entries[n].position
        /\ new.suggestionStatus = "confirmed"
  BY <1>1 DEF Places
<1>3. after = [entries EXCEPT ![n] = new]
  OBVIOUS
<1> HIDE DEF new, after
<1>4. after \in Seq(Places) /\ Len(after) = Len(entries)
        /\ \A i \in 1..Len(entries) : after[i] = IF i = n THEN new ELSE entries[i]
  BY <1>2, <1>3
<1>5. \A i \in 1..Len(entries) :
        after[i].url = entries[i].url /\ after[i].position = entries[i].position
  BY <1>2, <1>4
<1>6. Placed(after)
  BY <1>4, <1>5 DEF Placed
<1>7. Urls(after) = Urls(entries)
  BY <1>4, <1>5 DEF Urls
<1>8. Extended(entries, after)
  BY <1>4, <1>5 DEF Extended
<1>9. \A saw : Seen(entries, saw) => Seen(after, saw \cup {entries[n].url})
  BY <1>4, <1>5 DEF Seen
<1> QED  BY <1>4, <1>6, <1>7, <1>8, <1>9 DEF after

LEMMA ReadImagesStep ==
  ASSUME ContentsIInv, NEW m \in Editors, NEW p \in Pictures, readImages(m, p)
  PROVE  ContentsIInv'
<1> DEFINE longer == Append(images, Picture(p, Len(images)))
           call == [NotEditing EXCEPT !.op = "ADD_IMAGE", !.of = p, !.entries = longer]
<1>1. call.op = "ADD_IMAGE" /\ call.of = p /\ call.entries = longer
  BY DEF NotEditing
<1>2. Begins(m, call) /\ p \notin uploaded
  BY DEF readImages, StoredAnew
<1>3. images \in Seq(Places) /\ Placed(images) /\ Urls(images) \subseteq uploaded
  BY DEF ContentsIInv, ContentsTypeOK
<1>4. /\ longer \in Seq(Places) /\ Placed(longer) /\ Urls(longer) = Urls(images) \cup {p}
      /\ Extended(images, longer)
      /\ \A saw : Seen(images, saw) => Seen(longer, saw)
  BY <1>2, <1>3, AppendedPlaces
<1> HIDE DEF longer, call
<1>5. CallTypeOK(call) /\ CallHolds(call)
  BY <1>1, <1>3, <1>4 DEF CallTypeOK, CallHolds, Writing
<1>6. ~entangled => uploaded = Urls(images) /\ Seen(images, looked)
  BY DEF ContentsIInv, UncrossedHold
<1>7. ~entangled => KnowsColumns(call, looked)
  BY <1>1, <1>4, <1>6 DEF KnowsColumns
<1> QED  BY <1>1, <1>2, <1>5, <1>7, BeginStep

LEMMA ViewStep ==
  ASSUME ContentsIInv, NEW m \in Editors, NEW n \in DOMAIN images, viewPicture(m, n)
  PROVE  ContentsIInv'
<1> DEFINE call == [NotEditing EXCEPT !.op = "VIEW", !.of = n, !.entries = images]
<1>1. call.op = "VIEW" /\ call.of = n /\ call.entries = images
  BY DEF NotEditing
<1>2. /\ edits' = [edits EXCEPT ![m] = call]
      /\ UNCHANGED <<category, attributes, sheets, images, meant, uploaded>> /\ looked' = looked
      /\ entangled' = entangled
  BY DEF viewPicture
<1>3. images \in Seq(Places) /\ n \in 1..Len(images) /\ entangled \in BOOLEAN
  BY DEF ContentsIInv, ContentsTypeOK
<1> HIDE DEF call
<1>4. CallTypeOK(call) /\ CallHolds(call)
  BY <1>1, <1>3 DEF CallTypeOK, CallHolds
<1>5. KnowsColumns(call, looked)
  BY <1>1, <1>3 DEF KnowsColumns, Extended
<1>6. call.op \notin Writing
  BY <1>1 DEF Writing
<1> QED  BY <1>1, <1>2, <1>3, <1>4, <1>5, <1>6, CallStep

LEMMA ReadPlaceStep ==
  ASSUME ContentsIInv, NEW m \in Editors, readPlace(m)
  PROVE  ContentsIInv'
<1> DEFINE n == edits[m].of
           seen == edits[m].entries[n].url
           after == [images EXCEPT ![n].suggestionStatus = "confirmed"]
           call == [NotEditing EXCEPT !.op = "CONFIRM_IMAGE", !.entries = after]
           saw == looked \cup {seen}
<1>1. call.op = "CONFIRM_IMAGE" /\ call.entries = after
  BY DEF NotEditing
<1>2. /\ edits[m].op = "VIEW" /\ n \in DOMAIN images
      /\ edits' = [edits EXCEPT ![m] = call] /\ looked' = saw
      /\ UNCHANGED <<category, attributes, sheets, images, meant, uploaded>>
      /\ entangled' = (entangled \/ \E o \in Editors \ {m} : Editing(o))
  BY DEF readPlace, PlaceNamed
<1>3. images \in Seq(Places) /\ Placed(images) /\ Urls(images) \subseteq uploaded
        /\ n \in 1..Len(images) /\ entangled \in BOOLEAN
  BY <1>2 DEF ContentsIInv, ContentsTypeOK
<1>4. /\ after \in Seq(Places) /\ Placed(after) /\ Urls(after) = Urls(images)
      /\ Extended(images, after)
      /\ \A s : Seen(images, s) => Seen(after, s \cup {images[n].url})
  BY <1>3, ConfirmedPlaces
<1>5. ~entangled => images[n].url = seen
  <2>1. ~entangled => Extended(edits[m].entries, images)
    BY <1>2 DEF ContentsIInv, UncrossedHold, KnowsColumns
  <2>2. n \in 1..Len(edits[m].entries)
    BY <1>2 DEF ContentsIInv, CallHolds
  <2> QED  BY <2>1, <2>2 DEF Extended
<1>6. ~entangled => uploaded = Urls(images) /\ Seen(images, looked)
  BY DEF ContentsIInv, UncrossedHold
<1> HIDE DEF n, seen, after, call
<1>7. CallTypeOK(call) /\ CallHolds(call)
  BY <1>1, <1>3, <1>4 DEF CallTypeOK, CallHolds, Writing
<1>8. ~entangled => KnowsColumns(call, saw)
  BY <1>1, <1>4, <1>5, <1>6 DEF KnowsColumns
<1>9. entangled' \in BOOLEAN
  BY <1>2, <1>3
<1>10. ~entangled' => ~entangled /\ \A o \in Editors \ {m} : ~Editing(o)
  BY <1>2
<1>11. call.op # "UPLOADED" /\ call.op # "APPLY" /\ looked \subseteq saw
  BY <1>1
<1> HIDE DEF saw
<1> QED  BY <1>2, <1>7, <1>8, <1>9, <1>10, <1>11, CallStep

-----------------------------------------------------------------------------
\* The steps that write: a member's call returns.

LEMMA WritersAre ==
  ASSUME ContentsIInv
  PROVE  \A o \in Editors : Editing(o) <=> edits[o].op \in Writing
BY DEF ContentsIInv, ContentsTypeOK, CallTypeOK, Writing, Editing

\* What a return leaves of the calls, whatever it writes.
LEMMA ReturnLeaves ==
  ASSUME ContentsIInv, NEW m \in Editors, Returns(m)
  PROVE  /\ edits'[m] = NotEditing /\ NotEditing.op = "IDLE"
         /\ \A o \in Editors \ {m} : edits'[o] = edits[o]
         /\ edits' = [o \in Editors |-> edits'[o]]
         /\ \A o \in Editors : CallTypeOK(edits'[o])
         /\ UncrossedHold => \A o \in Editors : Editing(o)' => \A n \in Editors \ {o} : ~Editing(n)'
<1>1. /\ edits'[m] = NotEditing /\ NotEditing.op = "IDLE"
      /\ \A o \in Editors \ {m} : edits'[o] = edits[o]
      /\ edits' = [o \in Editors |-> edits'[o]]
  BY DEF Returns, ContentsIInv, ContentsTypeOK, NotEditing
<1>2. \A o \in Editors : CallTypeOK(edits'[o])
  BY <1>1, IdleHolds DEF ContentsIInv, ContentsTypeOK
<1>3. \A o \in Editors : Editing(o)' => Editing(o) /\ o # m
  BY <1>1, WritersAre DEF Editing
<1>4. ASSUME UncrossedHold
      PROVE  \A o \in Editors : Editing(o)' => \A n \in Editors \ {o} : ~Editing(n)'
  <2> TAKE o \in Editors
  <2> HAVE Editing(o)'
  <2> TAKE n \in Editors \ {o}
  <2>1. Editing(o) => ~Editing(n)
    BY <1>4 DEF UncrossedHold
  <2> HIDE DEF Editing
  <2> QED  BY <1>3, <2>1
<1> QED  BY <1>1, <1>2, <1>3, <1>4

\* Attributes written: another call that is under way has crossed this one.
LEMMA AttributesStep ==
  ASSUME ContentsIInv, NEW m \in Editors, Returns(m), edits[m].op \in {"EDIT", "APPLY"},
         UNCHANGED <<sheets, images, looked, uploaded, entangled>>,
         category' \in Category,
         \E c \in Category : validateAttributesForCategory(c, attributes'),
         ~entangled => attributes' = meant' /\ validateAttributesForCategory(category', attributes')
  PROVE  ContentsIInv'
<1>1. /\ edits'[m] = NotEditing /\ NotEditing.op = "IDLE"
      /\ \A o \in Editors \ {m} : edits'[o] = edits[o]
      /\ edits' = [o \in Editors |-> edits'[o]]
      /\ \A o \in Editors : CallTypeOK(edits'[o])
      /\ UncrossedHold => \A o \in Editors : Editing(o)' => \A n \in Editors \ {o} : ~Editing(n)'
  BY ReturnLeaves
<1>2. ContentsTypeOK'
  BY <1>1 DEF ContentsIInv, ContentsTypeOK, CallTypeOK
<1>3. \A o \in Editors : CallHolds(edits[o])'
  <2> TAKE o \in Editors
  <2>1. CallHolds(edits'[o])
    BY <1>1, IdleHolds DEF ContentsIInv
  <2> QED  BY <2>1 DEF CallHolds, validateAttributesForCategory
<1>4. SheetsAreOwned'
  BY <1>1 DEF ContentsIInv, SheetsAreOwned
<1>5. ASSUME ~entangled'
      PROVE  UncrossedHold'
  <2>1. UncrossedHold /\ ~entangled
    BY <1>5 DEF ContentsIInv
  <2>2. /\ attributes' = meant' /\ uploaded' = Urls(images') /\ Seen(images, looked)'
        /\ validateAttributesForCategory(category', attributes')
    BY <2>1 DEF UncrossedHold, Seen
  <2>3. Editing(m)
    BY WritersAre DEF Writing
  <2>4. \A o \in Editors \ {m} : edits[o].op \notin Writing
    BY <2>1, <2>3, WritersAre DEF UncrossedHold
  <2>5. \A o \in Editors : KnowsColumns(edits[o], looked)'
    <3> TAKE o \in Editors
    <3>1. KnowsColumns(edits'[o], looked) /\ edits'[o].op \notin Writing
      BY <1>1, <2>1, <2>4, IdleHolds DEF UncrossedHold, Writing
    <3> QED  BY <3>1 DEF KnowsColumns, Writing
  <2>6. \A o \in Editors : Editing(o)' => \A n \in Editors \ {o} : ~Editing(n)'
    BY <1>1, <2>1
  <2> QED  BY <2>2, <2>5, <2>6 DEF UncrossedHold, validateAttributesForCategory
<1>6. (/\ \A x \in Uploads : SheetFits(sheets[x])
       /\ Placed(images) /\ Urls(images) \subseteq uploaded)'
  BY DEF ContentsIInv, SheetFits, SheetFitsIn, validateAttributesForCategory
<1>7. (\E c \in Category : validateAttributesForCategory(c, attributes))'
  BY DEF validateAttributesForCategory
<1> QED  BY <1>2, <1>3, <1>4, <1>5, <1>6, <1>7 DEF ContentsIInv

LEMMA SaveStep ==
  ASSUME ContentsIInv, NEW m \in Editors, saveAttributes(m) \/ applySuggestions(m)
  PROVE  ContentsIInv'
<1>1. /\ Returns(m) /\ edits[m].op \in {"EDIT", "APPLY"} /\ attributes' = edits[m].values
      /\ UNCHANGED <<sheets, images, looked, uploaded, entangled>>
  BY DEF saveAttributes, applySuggestions
<1>2. /\ edits[m].category \in Category
      /\ validateAttributesForCategory(edits[m].category, attributes')
  BY <1>1 DEF ContentsIInv, CallHolds
<1>4. category' \in Category
  BY <1>2 DEF saveAttributes, applySuggestions, ContentsIInv, ContentsTypeOK
<1>3. ASSUME ~entangled
      PROVE  attributes' = meant' /\ category' = edits[m].category
  <2>1. CASE saveAttributes(m)
    BY <2>1 DEF saveAttributes
  <2>2. CASE applySuggestions(m)
    <3>1. KnowsColumns(edits[m], looked) /\ attributes = meant
      BY <1>3 DEF ContentsIInv, UncrossedHold
    <3>2. /\ edits[m].op = "APPLY" /\ category' = category
          /\ meant' = Merged(meant, sheets[edits[m].of].suggestions)
      BY <2>2 DEF applySuggestions
    <3>3. /\ edits[m].values = Merged(meant, sheets[edits[m].of].suggestions)
          /\ edits[m].category = category
      BY <3>1, <3>2 DEF KnowsColumns
    <3> QED  BY <1>1, <3>2, <3>3
  <2> QED  BY <2>1, <2>2
<1> QED  BY <1>1, <1>2, <1>3, <1>4, AttributesStep

\* Pictures written: a page that shows them shows fewer, where they are.
LEMMA ImagesStep ==
  ASSUME ContentsIInv, NEW m \in Editors, addImage(m) \/ confirmImage(m)
  PROVE  ContentsIInv'
<1> DEFINE entries == edits[m].entries
<1>1. /\ Returns(m) /\ edits[m].op \in {"ADD_IMAGE", "CONFIRM_IMAGE"} /\ images' = entries
      /\ UNCHANGED <<category, attributes, sheets, meant, looked, entangled>>
  BY DEF addImage, confirmImage
<1>2. \/ edits[m].op = "ADD_IMAGE" /\ uploaded' = uploaded \cup {edits[m].of}
      \/ edits[m].op = "CONFIRM_IMAGE" /\ uploaded' = uploaded
  BY DEF addImage, confirmImage
<1>3. /\ edits'[m] = NotEditing /\ NotEditing.op = "IDLE"
      /\ \A o \in Editors \ {m} : edits'[o] = edits[o]
      /\ edits' = [o \in Editors |-> edits'[o]]
      /\ \A o \in Editors : CallTypeOK(edits'[o])
      /\ UncrossedHold => \A o \in Editors : Editing(o)' => \A n \in Editors \ {o} : ~Editing(n)'
  BY <1>1, ReturnLeaves
<1>4. uploaded \subseteq uploaded'
  BY <1>2
<1>5. entries \in Seq(Places) /\ Placed(entries) /\ Urls(entries) \subseteq uploaded'
  BY <1>1, <1>2 DEF ContentsIInv, ContentsTypeOK, CallTypeOK, CallHolds
<1>6. ContentsTypeOK'
  BY <1>1, <1>3, <1>5 DEF ContentsIInv, ContentsTypeOK, CallTypeOK
<1>7. \A o \in Editors : CallHolds(edits[o])'
  <2> TAKE o \in Editors
  <2>1. CallHolds(edits'[o])
    BY <1>3, IdleHolds DEF ContentsIInv
  <2> QED  BY <2>1, <1>1, <1>4 DEF CallHolds, validateAttributesForCategory, Placed, Urls
<1>8. SheetsAreOwned'
  BY <1>1, <1>3 DEF ContentsIInv, SheetsAreOwned
<1>9. ASSUME ~entangled'
      PROVE  UncrossedHold'
  <2>1. UncrossedHold /\ ~entangled
    BY <1>1, <1>9 DEF ContentsIInv
  <2>2. KnowsColumns(edits[m], looked)
    BY <2>1 DEF UncrossedHold
  <2>3. Urls(entries) = uploaded' /\ Seen(entries, looked) /\ Extended(images, entries)
    BY <1>1, <1>2, <2>2 DEF KnowsColumns
  <2>4. /\ attributes' = meant' /\ uploaded' = Urls(images') /\ Seen(images', looked')
        /\ validateAttributesForCategory(category', attributes')
    BY <1>1, <2>1, <2>3 DEF UncrossedHold
  <2>5. \A o \in Editors \ {m} : edits[o].op \notin Writing
    <3>1. Editing(m)
      BY <1>1, WritersAre DEF Writing
    <3> QED  BY <2>1, <3>1, WritersAre DEF UncrossedHold
  <2>6. \A o \in Editors : KnowsColumns(edits[o], looked)'
    <3> TAKE o \in Editors
    <3>1. KnowsColumns(edits'[o], looked) /\ edits'[o].op \notin Writing
      BY <1>3, <2>1, <2>5, IdleHolds DEF UncrossedHold, Writing
    <3>2. ASSUME edits'[o].op = "VIEW"
          PROVE  Extended(edits'[o].entries, images')
      <4>1. Extended(edits'[o].entries, images)
        BY <3>1, <3>2 DEF KnowsColumns
      <4>2. Len(edits'[o].entries) \in Nat /\ Len(images) \in Nat /\ Len(entries) \in Nat
        BY <1>3, <1>5 DEF CallTypeOK, ContentsIInv, ContentsTypeOK
      <4> QED  BY <1>1, <2>3, <4>1, <4>2 DEF Extended
    <3> QED  BY <3>1, <3>2 DEF KnowsColumns, Writing
  <2>7. \A o \in Editors : Editing(o)' => \A n \in Editors \ {o} : ~Editing(n)'
    BY <1>3, <2>1
  <2> QED  BY <2>4, <2>6, <2>7 DEF UncrossedHold, Seen, validateAttributesForCategory
<1>10. (/\ \E c \in Category : validateAttributesForCategory(c, attributes)
        /\ \A x \in Uploads : SheetFits(sheets[x])
        /\ Placed(images) /\ Urls(images) \subseteq uploaded)'
  <2>1. (\E c \in Category : validateAttributesForCategory(c, attributes))'
    BY <1>1 DEF ContentsIInv, validateAttributesForCategory
  <2>2. (\A x \in Uploads : SheetFits(sheets[x]))'
    BY <1>1 DEF ContentsIInv, SheetFits, SheetFitsIn, validateAttributesForCategory
  <2>3. Placed(images)' /\ (Urls(images) \subseteq uploaded)'
    BY <1>1, <1>5 DEF Placed, Urls
  <2> QED  BY <2>1, <2>2, <2>3
<1> QED  BY <1>6, <1>7, <1>8, <1>9, <1>10 DEF ContentsIInv

-----------------------------------------------------------------------------
\* The steps of spec sheets.

\* One sheet changes, which no call applies; calls and columns that matter to
\* others stay.
LEMMA SheetStep ==
  ASSUME ContentsIInv, NEW x \in Uploads, NEW sheet,
         sheets' = [sheets EXCEPT ![x] = sheet],
         sheet = [status |-> sheet.status, suggestions |-> sheet.suggestions,
                  unmatchedRequiredKeys |-> sheet.unmatchedRequiredKeys],
         sheet.status # "NONE", SheetFits(sheet),
         UNCHANGED <<category, attributes, images, meant, looked, uploaded, entangled>>,
         edits' = [o \in Editors |-> edits'[o]],
         \A o \in Editors :
             /\ CallTypeOK(edits'[o])
             /\ edits'[o] = edits[o] \/ edits'[o].op \in {"IDLE", "UPLOADED"}
             /\ edits'[o].op = "UPLOADED" /\ edits'[o] # edits[o] => edits'[o].of = x
             /\ edits'[o].op = "APPLY" /\ edits'[o].of = x => sheet.suggestions = sheets[x].suggestions,
         SheetsAreOwned'
  PROVE  ContentsIInv'
<1>1. sheets'[x] = sheet /\ \A y \in Uploads \ {x} : sheets'[y] = sheets[y]
  BY DEF ContentsIInv, ContentsTypeOK
<1>2. ContentsTypeOK'
  <2>1. sheets' = [y \in Uploads |-> sheets'[y]]
    BY DEF ContentsIInv, ContentsTypeOK
  <2>2. \A y \in Uploads : sheets'[y] = [status |-> sheets'[y].status,
                                         suggestions |-> sheets'[y].suggestions,
                                         unmatchedRequiredKeys |-> sheets'[y].unmatchedRequiredKeys]
    BY <1>1 DEF ContentsIInv, ContentsTypeOK
  <2> QED  BY <2>1, <2>2 DEF ContentsIInv, ContentsTypeOK, CallTypeOK
<1>3. \A o \in Editors : CallHolds(edits[o])'
  <2> TAKE o \in Editors
  <2>1. CASE edits'[o] = edits[o]
    <3>1. CallHolds(edits'[o])
      BY <2>1 DEF ContentsIInv
    <3> QED  BY <3>1, <1>1 DEF CallHolds, validateAttributesForCategory, Placed, Urls
  <2>2. CASE edits'[o] # edits[o]
    BY <2>2, <1>1 DEF CallHolds
  <2> QED  BY <2>1, <2>2
<1>4. ASSUME ~entangled'
      PROVE  UncrossedHold'
  <2>1. UncrossedHold
    BY <1>4 DEF ContentsIInv
  <2>2. \A o \in Editors : Editing(o)' => Editing(o)
    BY DEF Editing
  <2>3. \A o \in Editors : Editing(o)' => \A n \in Editors \ {o} : ~Editing(n)'
    <3> HIDE DEF Editing
    <3> QED  BY <2>1, <2>2 DEF UncrossedHold
  <2>4. \A o \in Editors : KnowsColumns(edits[o], looked)'
    <3> TAKE o \in Editors
    <3>1. CASE edits'[o] = edits[o]
      <4>1. KnowsColumns(edits'[o], looked) /\ CallHolds(edits'[o])
        BY <2>1, <3>1 DEF UncrossedHold, ContentsIInv
      <4>2. edits'[o].op = "APPLY" => sheets'[edits'[o].of].suggestions = sheets[edits'[o].of].suggestions
        BY <4>1, <1>1 DEF CallHolds
      <4> QED  BY <4>1, <4>2 DEF KnowsColumns, Merged, Seen
    <3>2. CASE edits'[o] # edits[o]
      BY <3>2 DEF KnowsColumns
    <3> QED  BY <3>1, <3>2
  <2> QED  BY <2>1, <2>3, <2>4 DEF UncrossedHold, Seen, validateAttributesForCategory
<1>5. (/\ \E c \in Category : validateAttributesForCategory(c, attributes)
       /\ Placed(images) /\ Urls(images) \subseteq uploaded)'
  BY DEF ContentsIInv, validateAttributesForCategory
<1>6. \A y \in Uploads : SheetFits(sheets[y])'
  <2> TAKE y \in Uploads
  <2>1. SheetFits(sheets'[y])
    BY <1>1 DEF ContentsIInv
  <2> QED  BY <2>1 DEF SheetFits, SheetFitsIn, validateAttributesForCategory
<1> QED  BY <1>2, <1>3, <1>4, <1>5, <1>6 DEF ContentsIInv

\* A sheet given another status than EXTRACTED says what it said.
LEMMA StatusFits ==
  ASSUME ContentsIInv, NEW x \in Uploads, NEW status, status # "EXTRACTED"
  PROVE  LET sheet == [sheets[x] EXCEPT !.status = status] IN
         /\ sheet = [status |-> sheet.status, suggestions |-> sheet.suggestions,
                     unmatchedRequiredKeys |-> sheet.unmatchedRequiredKeys]
         /\ sheet.status = status /\ sheet.suggestions = sheets[x].suggestions /\ SheetFits(sheet)
<1> DEFINE sheet == [sheets[x] EXCEPT !.status = status]
<1>1. sheets[x] = [status |-> sheets[x].status, suggestions |-> sheets[x].suggestions,
                   unmatchedRequiredKeys |-> sheets[x].unmatchedRequiredKeys]
        /\ SheetFits(sheets[x])
  BY DEF ContentsIInv, ContentsTypeOK
<1>2. sheet = [status |-> sheet.status, suggestions |-> sheet.suggestions,
               unmatchedRequiredKeys |-> sheet.unmatchedRequiredKeys]
  BY <1>1
<1>3. sheet.status = status /\ sheet.suggestions = sheets[x].suggestions
  BY <1>1
<1> HIDE DEF sheet
<1>4. SheetFits(sheet)
  BY <1>1, <1>3 DEF SheetFits, SheetFitsIn
<1> QED  BY <1>2, <1>3, <1>4 DEF sheet

LEMMA UploadStep ==
  ASSUME ContentsIInv, NEW m \in Editors, NEW x \in Uploads, uploadSheet(m, x)
  PROVE  ContentsIInv'
<1> DEFINE sheet == [sheets[x] EXCEPT !.status = "UPLOADED"]
           call == [NotEditing EXCEPT !.op = "UPLOADED", !.of = x]
<1>1. call.op = "UPLOADED" /\ call.of = x /\ call.entries = <<>>
  BY DEF NotEditing
<1>2. /\ sheets[x].status = "NONE" /\ sheets' = [sheets EXCEPT ![x] = sheet]
      /\ edits' = [edits EXCEPT ![m] = call]
      /\ UNCHANGED <<category, attributes, images, meant, looked, uploaded, entangled>>
  BY DEF uploadSheet
<1>3. /\ sheet = [status |-> sheet.status, suggestions |-> sheet.suggestions,
                  unmatchedRequiredKeys |-> sheet.unmatchedRequiredKeys]
      /\ sheet.status = "UPLOADED" /\ SheetFits(sheet)
  BY StatusFits
<1>4. <<>> \in Seq(Places)
  OBVIOUS
<1> HIDE DEF sheet, call
<1>5. /\ edits'[m] = call /\ \A o \in Editors \ {m} : edits'[o] = edits[o]
      /\ edits' = [o \in Editors |-> edits'[o]]
  BY <1>2 DEF ContentsIInv, ContentsTypeOK
<1>6. CallTypeOK(call)
  BY <1>1, <1>4 DEF CallTypeOK
<1>7. \A o \in Editors : CallTypeOK(edits'[o])
  BY <1>5, <1>6 DEF ContentsIInv, ContentsTypeOK
<1>8. \A o \in Editors \ {m} : edits'[o].op \in {"UPLOADED", "APPLY"} => edits'[o].of # x
  BY <1>2, <1>5 DEF ContentsIInv, CallHolds
<1>9. SheetsAreOwned'
  <2>1. sheets'[x] = sheet /\ \A y \in Uploads \ {x} : sheets'[y] = sheets[y]
    BY <1>2 DEF ContentsIInv, ContentsTypeOK
  <2>2. ASSUME NEW o \in Editors, edits'[o].op = "UPLOADED"
        PROVE  /\ sheets'[edits'[o].of].status # "EXTRACTED"
               /\ \A n \in Editors \ {o} : edits'[n].op \in {"UPLOADED", "APPLY"}
                                             => edits'[n].of # edits'[o].of
    <3>1. CASE o = m
      BY <3>1, <2>1, <1>1, <1>3, <1>5, <1>8
    <3>2. CASE o # m
      <4>1. edits[o].op = "UPLOADED" /\ edits'[o] = edits[o] /\ edits[o].of \in Uploads /\ edits[o].of # x
        BY <3>2, <2>2, <1>5, <1>8 DEF ContentsIInv, CallHolds
      <4>2. sheets'[edits'[o].of].status # "EXTRACTED"
        BY <4>1, <2>1 DEF ContentsIInv, SheetsAreOwned
      <4>3. \A n \in Editors \ {o} : edits'[n].op \in {"UPLOADED", "APPLY"} => edits'[n].of # edits'[o].of
        BY <4>1, <1>1, <1>5 DEF ContentsIInv, SheetsAreOwned
      <4> QED  BY <4>2, <4>3
    <3> QED  BY <3>1, <3>2
  <2> QED  BY <2>2 DEF SheetsAreOwned
<1>10. \A o \in Editors :
         /\ CallTypeOK(edits'[o])
         /\ edits'[o] = edits[o] \/ edits'[o].op \in {"IDLE", "UPLOADED"}
         /\ edits'[o].op = "UPLOADED" /\ edits'[o] # edits[o] => edits'[o].of = x
         /\ edits'[o].op = "APPLY" /\ edits'[o].of = x => sheet.suggestions = sheets[x].suggestions
  BY <1>1, <1>5, <1>7, <1>8
<1>11. edits' = [o \in Editors |-> edits'[o]] /\ sheet.status # "NONE"
  BY <1>3, <1>5
<1> QED  BY <1>2, <1>3, <1>9, <1>10, <1>11, SheetStep

LEMMA ExtractStep ==
  ASSUME ContentsIInv, NEW m \in Editors, recordExtraction(m)
  PROVE  ContentsIInv'
<1> DEFINE x == edits[m].of
<1>1. /\ edits[m].op = "UPLOADED" /\ Returns(m)
      /\ UNCHANGED <<category, attributes, images, meant, looked, uploaded, entangled>>
  BY DEF recordExtraction
<1>2. PICK text \in SpecTexts, c \in Category :
         sheets' = [sheets EXCEPT ![x] = extractSpecSuggestions(text, c)]
  BY DEF recordExtraction
<1> DEFINE sheet == extractSpecSuggestions(text, c)
<1>3. /\ sheet = [status |-> sheet.status, suggestions |-> sheet.suggestions,
                  unmatchedRequiredKeys |-> sheet.unmatchedRequiredKeys]
      /\ sheet.status = "EXTRACTED"
  BY DEF extractSpecSuggestions
<1>4. SheetFits(sheet) /\ sheets' = [sheets EXCEPT ![x] = sheet]
  BY <1>2, ExtractionFits
<1> HIDE DEF sheet
<1>5. x \in Uploads /\ \A o \in Editors \ {m} : edits[o].op \in {"UPLOADED", "APPLY"} => edits[o].of # x
  BY <1>1 DEF ContentsIInv, CallHolds, SheetsAreOwned
<1> HIDE DEF x
<1>6. /\ edits'[m] = NotEditing /\ NotEditing.op = "IDLE"
      /\ \A o \in Editors \ {m} : edits'[o] = edits[o]
      /\ edits' = [o \in Editors |-> edits'[o]]
      /\ \A o \in Editors : CallTypeOK(edits'[o])
  BY <1>1, ReturnLeaves
<1>7. \A o \in Editors :
        /\ edits'[o] = edits[o] \/ edits'[o].op \in {"IDLE", "UPLOADED"}
        /\ edits'[o].op = "UPLOADED" => edits'[o] = edits[o] /\ edits[o].of # x
        /\ edits'[o].op = "APPLY" => edits'[o].of # x
  BY <1>5, <1>6
<1>8. SheetsAreOwned'
  <2>1. \A y \in Uploads \ {x} : sheets'[y] = sheets[y]
    BY <1>4 DEF ContentsIInv, ContentsTypeOK
  <2>2. \A o \in Editors : edits'[o].op = "UPLOADED" => o # m /\ edits[o].of \in Uploads \ {x}
    BY <1>6, <1>7 DEF ContentsIInv, CallHolds
  <2> QED  BY <2>1, <2>2, <1>6 DEF ContentsIInv, SheetsAreOwned
<1>9. \A o \in Editors :
        /\ CallTypeOK(edits'[o])
        /\ edits'[o] = edits[o] \/ edits'[o].op \in {"IDLE", "UPLOADED"}
        /\ edits'[o].op = "UPLOADED" /\ edits'[o] # edits[o] => edits'[o].of = x
        /\ edits'[o].op = "APPLY" /\ edits'[o].of = x => sheet.suggestions = sheets[x].suggestions
  BY <1>6, <1>7
<1>10. edits' = [o \in Editors |-> edits'[o]] /\ sheet.status # "NONE"
  BY <1>3, <1>6
<1> QED  BY <1>1, <1>3, <1>4, <1>5, <1>8, <1>9, <1>10, SheetStep

LEMMA ConfirmStep ==
  ASSUME ContentsIInv, NEW x \in Uploads, confirmSheet(x)
  PROVE  ContentsIInv'
<1> DEFINE sheet == [sheets[x] EXCEPT !.status = "CONFIRMED"]
<1>1. /\ sheets' = [sheets EXCEPT ![x] = sheet] /\ edits' = edits
      /\ UNCHANGED <<category, attributes, images, meant, looked, uploaded, entangled>>
  BY DEF confirmSheet
<1>2. /\ sheet = [status |-> sheet.status, suggestions |-> sheet.suggestions,
                  unmatchedRequiredKeys |-> sheet.unmatchedRequiredKeys]
      /\ sheet.status = "CONFIRMED" /\ sheet.suggestions = sheets[x].suggestions /\ SheetFits(sheet)
  BY StatusFits
<1> HIDE DEF sheet
<1>3. edits' = [o \in Editors |-> edits'[o]] /\ \A o \in Editors : CallTypeOK(edits'[o])
  BY <1>1 DEF ContentsIInv, ContentsTypeOK
<1>4. SheetsAreOwned'
  <2>1. sheets'[x] = sheet /\ \A y \in Uploads \ {x} : sheets'[y] = sheets[y]
    BY <1>1 DEF ContentsIInv, ContentsTypeOK
  <2>2. \A o \in Editors : edits[o].op = "UPLOADED" => edits[o].of \in Uploads
    BY DEF ContentsIInv, CallHolds
  <2> QED  BY <1>1, <1>2, <2>1, <2>2 DEF ContentsIInv, SheetsAreOwned
<1> QED  BY <1>1, <1>2, <1>3, <1>4, SheetStep

-----------------------------------------------------------------------------

LEMMA ContentsInitHolds == ContentsInit => ContentsIInv
<1> SUFFICES ASSUME ContentsInit PROVE ContentsIInv
  OBVIOUS
<1>1. /\ images = <<>> /\ <<>> \in Seq(Places) /\ Len(images) = 0 /\ 1..Len(images) = {}
      /\ looked = {} /\ uploaded = {} /\ meant = attributes /\ entangled = FALSE
  BY DEF ContentsInit
<1>2. /\ sheets = [x \in Uploads |-> NoSheet] /\ edits = [m \in Editors |-> NotEditing]
      /\ NotEditing.op = "IDLE"
  BY DEF ContentsInit, NotEditing
<1>3. NoSheet = [status |-> NoSheet.status, suggestions |-> NoSheet.suggestions,
                 unmatchedRequiredKeys |-> NoSheet.unmatchedRequiredKeys]
        /\ NoSheet.status = "NONE" /\ DOMAIN NoSheet.suggestions = {}
  BY DEF NoSheet, NoAttributes
<1>4. SheetFits(NoSheet)
  BY <1>3 DEF SheetFits, SheetFitsIn, ContentsInit
<1>5. ContentsTypeOK
  BY <1>1, <1>2, <1>3, IdleHolds DEF ContentsTypeOK, ContentsInit
<1>6. category \in Category /\ validateAttributesForCategory(category, attributes)
  BY DEF ContentsInit, FirstAttributes
<1>7. Placed(images) /\ Urls(images) = {} /\ Seen(images, looked)
  BY <1>1 DEF Placed, Urls, Seen
<1>8. (\A m \in Editors : CallHolds(edits[m])) /\ SheetsAreOwned
  BY <1>2, IdleHolds DEF SheetsAreOwned
<1>9. UncrossedHold
  BY <1>1, <1>2, <1>6, <1>7, IdleHolds DEF UncrossedHold, Editing
<1> QED  BY <1>1, <1>2, <1>4, <1>5, <1>6, <1>7, <1>8, <1>9 DEF ContentsIInv

LEMMA ContentsStep == ContentsIInv /\ [ContentsNext]_contentVars => ContentsIInv'
<1> SUFFICES ASSUME ContentsIInv, [ContentsNext]_contentVars PROVE ContentsIInv'
  OBVIOUS
<1>1. CASE \E m \in Editors : giveUpEdit(m)
  BY <1>1, GiveUpStep
<1>2. CASE \E m \in Editors : parseListingUpsertForm(m)
  BY <1>2, ParseStep
<1>3. CASE \E m \in Editors : saveAttributes(m) \/ applySuggestions(m)
  BY <1>3, SaveStep
<1>4. CASE \E m \in Editors : \E x \in Uploads : uploadSheet(m, x)
  BY <1>4, UploadStep
<1>5. CASE \E m \in Editors : \E x \in Uploads : readSuggestions(m, x)
  BY <1>5, ReadSuggestionsStep
<1>6. CASE \E m \in Editors : recordExtraction(m)
  BY <1>6, ExtractStep
<1>7. CASE \E m \in Editors : \E p \in Pictures : readImages(m, p)
  BY <1>7, ReadImagesStep
<1>8. CASE \E m \in Editors : addImage(m) \/ confirmImage(m)
  BY <1>8, ImagesStep
<1>9. CASE \E m \in Editors : \E n \in DOMAIN images : viewPicture(m, n)
  BY <1>9, ViewStep
<1>10. CASE \E m \in Editors : readPlace(m)
  BY <1>10, ReadPlaceStep
<1>11. CASE \E x \in Uploads : confirmSheet(x)
  BY <1>11, ConfirmStep
<1>12. CASE UNCHANGED contentVars
  <2>1. UNCHANGED <<category, attributes, sheets, images, edits, meant, looked, uploaded, entangled>>
    BY <1>12 DEF contentVars
  <2>2. ContentsTypeOK' /\ SheetsAreOwned'
    BY <2>1 DEF ContentsIInv, ContentsTypeOK, CallTypeOK, SheetsAreOwned
  <2>3. (\A m \in Editors : CallHolds(edits[m])')
    BY <2>1 DEF ContentsIInv, CallHolds, validateAttributesForCategory, Placed, Urls
  <2>4. UncrossedHold => UncrossedHold'
    <3>1. ASSUME UncrossedHold
          PROVE  (\A m \in Editors : KnowsColumns(edits[m], looked))'
      <4> TAKE m \in Editors
      <4>1. KnowsColumns(edits[m], looked)
        BY <3>1 DEF UncrossedHold
      <4>2. /\ edits'[m] = edits[m] /\ looked' = looked /\ attributes' = attributes
            /\ sheets' = sheets /\ images' = images /\ uploaded' = uploaded /\ category' = category
        BY <2>1
      <4> QED  BY <4>1, <4>2 DEF KnowsColumns, Seen, Urls, Merged, Extended
    <3> QED  BY <2>1, <3>1 DEF UncrossedHold, Editing, Seen, Urls, validateAttributesForCategory
  <2>5. (/\ \E c \in Category : validateAttributesForCategory(c, attributes)
         /\ \A x \in Uploads : SheetFits(sheets[x])
         /\ Placed(images) /\ Urls(images) \subseteq uploaded)'
    BY <2>1 DEF ContentsIInv, validateAttributesForCategory, SheetFits, SheetFitsIn, Placed, Urls
  <2> QED  BY <2>1, <2>2, <2>3, <2>4, <2>5 DEF ContentsIInv
<1> QED
  BY <1>1, <1>2, <1>3, <1>4, <1>5, <1>6, <1>7, <1>8, <1>9, <1>10, <1>11, <1>12 DEF ContentsNext

LEMMA ContentsFollow == ContentsIInv => ContentsAreSound
<1> SUFFICES ASSUME ContentsIInv PROVE ContentsAreSound
  OBVIOUS
<1>1. images \in Seq(Places) /\ DOMAIN images = 1..Len(images)
  BY DEF ContentsIInv, ContentsTypeOK
<1>2. SuggestionsFit
  BY DEF ContentsIInv, SheetFits, SheetFitsIn, SuggestionsFit
<1>3. PlacesAreSound
  BY <1>1 DEF ContentsIInv, Placed, PlacesAreSound
<1>4. ~entangled => NothingIsLost
  BY <1>1 DEF ContentsIInv, UncrossedHold, Urls, Seen, NothingIsLost
<1>5. AttributesFit
  BY DEF ContentsIInv, UncrossedHold, AttributesFit
<1> QED  BY <1>2, <1>3, <1>4, <1>5 DEF ContentsAreSound

\* listing-repository.ts:17 and spec-extraction.ts:15, for any definitions,
\* texts, pictures and number of members: whatever calls cross, attributes and
\* suggestions each fit a category together and each picture stands at its own
\* place; and as long as none cross, the attributes fit the listing's own
\* category, no edit, suggestion or picture is lost, and what is confirmed is
\* what somebody saw.
THEOREM ContentsHold == ContentsSpec => []ContentsAreSound
  BY ContentsInitHolds, ContentsStep, ContentsFollow, PTL DEF ContentsSpec

-----------------------------------------------------------------------------
(* Induction, over the numbers and over finite sets *)

\* Induction over the numbers, for a set: it has no number that is its least.
LEMMA SetInduction ==
    ASSUME NEW S, 0 \in S, \A n \in Nat : n \in S => n + 1 \in S
    PROVE  Nat \subseteq S
<1> SUFFICES ASSUME Nat \ S # {} PROVE FALSE
  OBVIOUS
<1> DEFINE R == OpToRel(<, Nat)
           T == Nat \ S
<1>1. IsWellFoundedOn(R, Nat)
  BY NatLessThanWellFounded
<1>2. \A a, b \in Nat : a < b => <<a, b>> \in R
  BY DEF OpToRel
<1> HIDE DEF R, T
<1>3. PICK x \in T : \A y \in T : ~(<<y, x>> \in R)
  <2>1. T \subseteq Nat /\ T # {}
    BY DEF T
  <2> QED
    BY <1>1, <2>1, WFMin
<1>4. x # 0 /\ x - 1 \in Nat /\ x \in Nat
  BY DEF T
<1>5. x - 1 \in S
  <2>1. <<x - 1, x>> \in R
    BY <1>2, <1>4 DEF T
  <2>2. x - 1 \notin T
    BY <1>3, <2>1
  <2> QED
    BY <1>4, <2>2 DEF T
<1> QED
  BY <1>4, <1>5 DEF T

\* Of finitely many things in an order one comes before the others.
LEMMA FirstOfFinite ==
    ASSUME NEW D, IsFiniteSet(D), D # {}, NEW R,
           \A x \in D : <<x, x>> \notin R,
           \A x, y, z \in D : <<x, y>> \in R /\ <<y, z>> \in R => <<x, z>> \in R
    PROVE  \E x \in D : \A y \in D : <<y, x>> \notin R
<1> DEFINE below(x) == {y \in D : <<y, x>> \in R}
           sizes == {Cardinality(below(x)) : x \in D}
<1>1. \A x \in D : IsFiniteSet(below(x)) /\ Cardinality(below(x)) \in Nat
  <2> TAKE x \in D
  <2>1. below(x) \subseteq D
    OBVIOUS
  <2> QED
    BY <2>1, FS_Subset, FS_CardinalityType
<1>2. sizes \subseteq Nat /\ sizes # {}
  <2> HIDE DEF below
  <2> QED
    BY <1>1
<1>3. PICK n \in sizes : \A k \in sizes : ~(<<k, n>> \in OpToRel(<, Nat))
  <2> HIDE DEF sizes
  <2> QED
    BY <1>2, WFMin, NatLessThanWellFounded
<1>4. PICK x \in D : n = Cardinality(below(x))
  OBVIOUS
<1>5. ASSUME NEW y \in D, <<y, x>> \in R PROVE FALSE
  <2>1. below(y) \subseteq below(x) /\ y \in below(x) /\ y \notin below(y)
    BY <1>5
  <2>2. Cardinality(below(y)) < Cardinality(below(x))
    <3> HIDE DEF below
    <3>1. below(y) # below(x)
      BY <2>1
    <3>2. Cardinality(below(y)) <= Cardinality(below(x)) /\ Cardinality(below(y)) # Cardinality(below(x))
      BY <1>1, <2>1, <3>1, FS_Subset
    <3> QED
      BY <1>1, <3>2
  <2> HIDE DEF below
  <2>3. \A a, b \in Nat : a < b => <<a, b>> \in OpToRel(<, Nat)
    BY DEF OpToRel
  <2>4. Cardinality(below(y)) \in sizes /\ Cardinality(below(y)) \in Nat /\ n \in Nat
    BY <1>1, <1>4
  <2>5. <<Cardinality(below(y)), n>> \in OpToRel(<, Nat)
    BY <1>4, <2>2, <2>3, <2>4, Zenon
  <2> QED
    BY <1>3, <2>4, <2>5
<1> QED
  BY <1>5

-----------------------------------------------------------------------------
(* The ladder and the bands a draft stores *)

\* A ladder and bands as validation meets them.
GoodTiers(tiers) ==
    /\ Len(tiers) \in Nat /\ DOMAIN tiers = 1..Len(tiers)
    /\ \A n \in DOMAIN tiers : tiers[n].minQty \in Int /\ tiers[n].price \in Int

GoodBands(rules) ==
    /\ IsFiniteSet(DOMAIN rules) /\ DOMAIN rules \subseteq Nat
    /\ \A n \in DOMAIN rules :
         /\ rules[n].qtyMin \in Int /\ rules[n].days \in Int
         /\ rules[n].qtyMax # Blank => rules[n].qtyMax \in Int

\* The form asks that each band holds a quantity; a CSV row does not.
GoodForm(rules) ==
    /\ GoodBands(rules)
    /\ \A n \in DOMAIN rules : rules[n].qtyMax # Blank => rules[n].qtyMin <= rules[n].qtyMax

\* Where a scan stops there is a cell, or it reads to the end.
LEMMA FirstStop ==
    ASSUME NEW length \in Nat, NEW stops \in SUBSET (1..length), stops # {}
    PROVE  (CHOOSE n \in stops : \A m \in stops : n <= m) \in stops
<1> DEFINE R == {p \in stops \X stops : p[1] < p[2]}
<1>1. \A n, m \in stops : <<n, m>> \in R <=> n < m
  OBVIOUS
<1>2. IsFiniteSet(stops)
  <2>1. IsFiniteSet(1..length)
    BY FS_Interval
  <2> QED
    BY <2>1, FS_Subset
<1> HIDE DEF R
<1>3. /\ \A x \in stops : <<x, x>> \notin R
      /\ \A x, y, z \in stops : <<x, y>> \in R /\ <<y, z>> \in R => <<x, z>> \in R
  BY <1>1
<1>4. PICK n \in stops : \A m \in stops : <<m, n>> \notin R
  BY <1>2, <1>3, FirstOfFinite
<1>5. \A m \in stops : n <= m
  <2> SUFFICES ASSUME NEW m \in stops PROVE n <= m
    OBVIOUS
  <2>1. ~(m < n)
    BY <1>1, <1>4
  <2>2. m \in Int /\ n \in Int
    OBVIOUS
  <2> QED
    BY <2>1, <2>2
<1> QED
  BY <1>5

LEMMA CellsAreRead ==
    ASSUME NEW R, NEW cells \in Seq(R)
    PROVE  /\ Len(cells) \in Nat /\ DOMAIN cells = 1..Len(cells)
           /\ \A n \in DOMAIN cells : cells[n] \in R
  OBVIOUS

LEMMA TiersRead ==
    ASSUME NEW cells \in Seq([minQty : Cell, price : Cell]), ReadTiers(cells).ok
    PROVE  GoodTiers(ReadTiers(cells).rows)
<1> DEFINE stops == {n \in DOMAIN cells : cells[n].minQty = Blank /\ cells[n].price = Blank}
           stop == IF stops = {} THEN Len(cells) + 1 ELSE CHOOSE n \in stops : \A m \in stops : n <= m
           rows == SubSeq(cells, 1, stop - 1)
<1>1. /\ ReadTiers(cells).ok =
             (stop > 1 /\ \A n \in 1..(stop - 1) : IsInt(cells[n].minQty, 1) /\ IsInt(cells[n].price, 1))
      /\ ReadTiers(cells).rows = rows
  BY DEF ReadTiers, Scanned
<1>2. /\ Len(cells) \in Nat /\ DOMAIN cells = 1..Len(cells)
      /\ \A n \in DOMAIN cells : cells[n] \in [minQty : Cell, price : Cell]
  BY CellsAreRead
<1>3. stop \in 1..(Len(cells) + 1)
  <2>1. CASE stops # {}
    <3>1. stops \subseteq 1..Len(cells)
      BY <1>2
    <3> HIDE DEF stops
    <3>2. stop \in stops
      BY <1>2, <2>1, <3>1, FirstStop
    <3> HIDE DEF stop
    <3> QED
      BY <1>2, <3>1, <3>2
  <2> QED
    BY <1>2, <2>1
<1> HIDE DEF stop
<1>4. /\ Len(rows) = stop - 1 /\ DOMAIN rows = 1..(stop - 1) /\ Len(rows) \in Nat
      /\ \A n \in 1..(stop - 1) : rows[n] = cells[n] /\ n \in DOMAIN cells
  BY <1>2, <1>3
<1> HIDE DEF rows
<1>5. ASSUME NEW n \in 1..(stop - 1) PROVE rows[n].minQty \in Int /\ rows[n].price \in Int
  <2>1. IsInt(cells[n].minQty, 1) /\ IsInt(cells[n].price, 1)
    BY <1>1
  <2>2. cells[n] \in [minQty : Cell, price : Cell] /\ rows[n] = cells[n]
    BY <1>2, <1>4
  <2> QED
    BY <2>1, <2>2 DEF IsInt, Cell
<1> QED
  BY <1>1, <1>4, <1>5 DEF GoodTiers

LEMMA FormBandsRead ==
    ASSUME NEW cells \in Seq([qtyMin : Cell, qtyMax : Cell, days : Cell]), ReadFormBands(cells).ok
    PROVE  GoodForm(ReadFormBands(cells).rows)
<1> DEFINE stops == {n \in DOMAIN cells : cells[n].qtyMin = Blank /\ cells[n].days = Blank}
           stop == IF stops = {} THEN Len(cells) + 1 ELSE CHOOSE n \in stops : \A m \in stops : n <= m
           rows == SubSeq(cells, 1, stop - 1)
<1>1. /\ ReadFormBands(cells).ok =
             (stop > 1 /\ \A n \in 1..(stop - 1) :
                /\ IsInt(cells[n].qtyMin, 1) /\ IsInt(cells[n].days, 1)
                /\ cells[n].qtyMax = Blank \/ IsInt(cells[n].qtyMax, cells[n].qtyMin))
      /\ ReadFormBands(cells).rows = rows
  BY DEF ReadFormBands, Scanned
<1>2. /\ Len(cells) \in Nat /\ DOMAIN cells = 1..Len(cells)
      /\ \A n \in DOMAIN cells : cells[n] \in [qtyMin : Cell, qtyMax : Cell, days : Cell]
  BY CellsAreRead
<1>3. stop \in 1..(Len(cells) + 1)
  <2>1. CASE stops # {}
    <3>1. stops \subseteq 1..Len(cells)
      BY <1>2
    <3> HIDE DEF stops
    <3>2. stop \in stops
      BY <1>2, <2>1, <3>1, FirstStop
    <3> HIDE DEF stop
    <3> QED
      BY <1>2, <3>1, <3>2
  <2> QED
    BY <1>2, <2>1
<1> HIDE DEF stop
<1>4. /\ DOMAIN rows = 1..(stop - 1) /\ stop - 1 \in Nat
      /\ \A n \in 1..(stop - 1) : rows[n] = cells[n] /\ n \in DOMAIN cells
  BY <1>2, <1>3
<1> HIDE DEF rows
<1>5. ASSUME NEW n \in 1..(stop - 1)
      PROVE  /\ rows[n].qtyMin \in Int /\ rows[n].days \in Int
             /\ rows[n].qtyMax # Blank => rows[n].qtyMax \in Int /\ rows[n].qtyMin <= rows[n].qtyMax
  <2>1. /\ IsInt(cells[n].qtyMin, 1) /\ IsInt(cells[n].days, 1)
        /\ cells[n].qtyMax = Blank \/ IsInt(cells[n].qtyMax, cells[n].qtyMin)
    BY <1>1
  <2>2. cells[n] \in [qtyMin : Cell, qtyMax : Cell, days : Cell] /\ rows[n] = cells[n]
    BY <1>2, <1>4
  <2> QED
    BY <2>1, <2>2 DEF IsInt, Cell
<1>6. IsFiniteSet(1..(stop - 1)) /\ 1..(stop - 1) \subseteq Nat
  <2>1. stop - 1 \in Int
    BY <1>4
  <2>2. IsFiniteSet(1..(stop - 1))
    BY <2>1, FS_Interval
  <2> QED
    BY <1>4, <2>2
<1> QED
  BY <1>1, <1>4, <1>5, <1>6 DEF GoodForm, GoodBands

LEMMA ImportedBandsRead ==
    ASSUME NEW cells \in Seq([qtyMin : Cell, qtyMax : Cell, days : Cell]), ReadImportedBands(cells).ok
    PROVE  GoodBands(ReadImportedBands(cells).rows)
<1> DEFINE stop == Scanned(cells, LAMBDA b : Null(b.qtyMin) /\ Null(b.days))
           seen == {n \in DOMAIN cells : n <= stop}
           kept == {n \in seen : cells[n].qtyMin # Blank /\ cells[n].days # Blank}
           rows == [n \in kept |-> cells[n]]
<1>1. /\ \A n \in seen : ~Wrong(cells[n].qtyMin) /\ ~Wrong(cells[n].days) /\ cells[n].qtyMax # Bad
      /\ ReadImportedBands(cells).rows = rows
  BY DEF ReadImportedBands
<1> HIDE DEF stop
<1>2. /\ Len(cells) \in Nat /\ DOMAIN cells = 1..Len(cells)
      /\ \A n \in DOMAIN cells : cells[n] \in [qtyMin : Cell, qtyMax : Cell, days : Cell]
  BY CellsAreRead
<1>3. seen \subseteq DOMAIN cells
  OBVIOUS
<1> HIDE DEF seen
<1>4. kept \subseteq seen /\ \A n \in kept : cells[n].qtyMin # Blank /\ cells[n].days # Blank
  OBVIOUS
<1>5. ASSUME NEW n \in kept
      PROVE  /\ cells[n].qtyMin \in Int /\ cells[n].days \in Int
             /\ cells[n].qtyMax # Blank => cells[n].qtyMax \in Int
  <2>1. /\ n \in DOMAIN cells /\ n \in seen /\ cells[n].qtyMin # Blank /\ cells[n].days # Blank
    BY <1>3, <1>4
  <2>2. cells[n] \in [qtyMin : Cell, qtyMax : Cell, days : Cell]
    BY <1>2, <2>1
  <2>3. ~Wrong(cells[n].qtyMin) /\ ~Wrong(cells[n].days) /\ cells[n].qtyMax # Bad
    BY <1>1, <2>1
  <2> QED
    BY <2>1, <2>2, <2>3 DEF Wrong, IsInt, Cell
<1>6. IsFiniteSet(kept) /\ kept \subseteq Nat
  <2>0. Len(cells) \in Int /\ 1 \in Int
    BY <1>2
  <2>1. IsFiniteSet(1..Len(cells))
    BY <2>0, FS_Interval
  <2>2. 1..Len(cells) \subseteq Nat
    BY <1>2
  <2> HIDE DEF kept
  <2> QED
    BY <1>2, <1>3, <1>4, <2>1, <2>2, FS_Subset
<1> HIDE DEF kept
<1> QED
  BY <1>1, <1>5, <1>6 DEF GoodBands

\* Up a ladder that passed, quantities rise and prices do not.
LEMMA LadderMonotone ==
    ASSUME NEW tiers, GoodTiers(tiers), validateMoqLadder(tiers)
    PROVE  \A i, k \in DOMAIN tiers :
             i < k => tiers[i].minQty < tiers[k].minQty /\ tiers[i].price >= tiers[k].price
<1> SUFFICES ASSUME NEW i \in DOMAIN tiers
             PROVE  \A k \in DOMAIN tiers :
                      i < k => tiers[i].minQty < tiers[k].minQty /\ tiers[i].price >= tiers[k].price
  OBVIOUS
<1>1. /\ Len(tiers) \in Nat /\ DOMAIN tiers = 1..Len(tiers) /\ i \in Nat
      /\ \A n \in DOMAIN tiers : tiers[n].minQty \in Int /\ tiers[n].price \in Int
      /\ \A n \in 2..Len(tiers) :
           tiers[n - 1].minQty < tiers[n].minQty /\ tiers[n - 1].price >= tiers[n].price
  BY DEF GoodTiers, validateMoqLadder
<1> DEFINE T == {n \in Nat : i + n + 1 <= Len(tiers) =>
                   /\ tiers[i].minQty < tiers[i + n + 1].minQty
                   /\ tiers[i].price >= tiers[i + n + 1].price}
<1>2. 0 \in T
  BY <1>1
<1>3. ASSUME NEW n \in Nat, n \in T PROVE n + 1 \in T
  <2> SUFFICES ASSUME i + (n + 1) + 1 <= Len(tiers)
               PROVE  /\ tiers[i].minQty < tiers[i + (n + 1) + 1].minQty
                      /\ tiers[i].price >= tiers[i + (n + 1) + 1].price
    OBVIOUS
  <2> DEFINE k == i + n + 2
  <2>1. k \in 2..Len(tiers) /\ k - 1 = i + n + 1 /\ k = i + (n + 1) + 1 /\ i + n + 1 <= Len(tiers)
    BY <1>1
  <2>2. k \in DOMAIN tiers /\ k - 1 \in DOMAIN tiers
    BY <1>1, <2>1
  <2>3. tiers[i].minQty < tiers[k - 1].minQty /\ tiers[i].price >= tiers[k - 1].price
    BY <1>3, <2>1
  <2>4. tiers[k - 1].minQty < tiers[k].minQty /\ tiers[k - 1].price >= tiers[k].price
    BY <1>1, <2>1
  <2>5. /\ tiers[i].minQty \in Int /\ tiers[k - 1].minQty \in Int /\ tiers[k].minQty \in Int
        /\ tiers[i].price \in Int /\ tiers[k - 1].price \in Int /\ tiers[k].price \in Int
    BY <1>1, <2>2
  <2>6. tiers[i].minQty < tiers[k].minQty /\ tiers[i].price >= tiers[k].price
    <3>1. \A a, b, c \in Int : a < b /\ b < c => a < c
      OBVIOUS
    <3>2. \A a, b, c \in Int : a >= b /\ b >= c => a >= c
      OBVIOUS
    <3> HIDE DEF k, T
    <3>3. tiers[i].minQty < tiers[k].minQty
      BY <2>3, <2>4, <2>5, <3>1, Zenon
    <3>4. tiers[i].price >= tiers[k].price
      BY <2>3, <2>4, <2>5, <3>2, Zenon
    <3> QED
      BY <3>3, <3>4
  <2> HIDE DEF k
  <2> QED
    BY <2>1, <2>6
<1>4. Nat \subseteq T
  <2> HIDE DEF T
  <2> QED
    BY <1>2, <1>3, SetInduction
<1>5. ASSUME NEW k \in DOMAIN tiers, i < k
      PROVE  tiers[i].minQty < tiers[k].minQty /\ tiers[i].price >= tiers[k].price
  <2>1. k - i - 1 \in Nat /\ i + (k - i - 1) + 1 = k /\ k <= Len(tiers)
    BY <1>1, <1>5
  <2>2. k - i - 1 \in T
    BY <1>4, <2>1
  <2> QED
    BY <2>1, <2>2
<1> QED
  BY <1>5

\* A band that passed ends before every band that follows it.
LEMMA BandsApart ==
    ASSUME NEW rules, GoodBands(rules), validateLeadTimeRules(rules),
           NEW i \in DOMAIN rules, NEW k \in DOMAIN rules, Before(rules, i, k)
    PROVE  /\ rules[i].qtyMax # Blank /\ rules[i].qtyMax < rules[k].qtyMin
           /\ rules[i].qtyMin <= rules[i].qtyMax
<1> DEFINE after == {j \in DOMAIN rules : Before(rules, i, j)}
           R == {p \in after \X after : Before(rules, p[1], p[2])}
<1>1. /\ IsFiniteSet(DOMAIN rules) /\ DOMAIN rules \subseteq Nat
      /\ \A n \in DOMAIN rules : rules[n].qtyMin \in Int
      /\ \A n \in DOMAIN rules : rules[n].qtyMax # Blank => rules[n].qtyMax \in Int
  BY DEF GoodBands
<1>2. /\ k \in after /\ after \subseteq DOMAIN rules
      /\ \A j : j \in after <=> j \in DOMAIN rules /\ Before(rules, i, j)
      /\ \A a, b \in after : <<a, b>> \in R <=> Before(rules, a, b)
  OBVIOUS
<1> HIDE DEF after, R
<1>3. IsFiniteSet(after) /\ after # {}
  BY <1>1, <1>2, FS_Subset
<1>4. \A a, b, c \in DOMAIN rules :
        /\ ~Before(rules, a, a)
        /\ Before(rules, a, b) /\ Before(rules, b, c) => Before(rules, a, c)
  BY <1>1 DEF Before
<1>5. /\ \A x \in after : <<x, x>> \notin R
      /\ \A x, y, z \in after : <<x, y>> \in R /\ <<y, z>> \in R => <<x, z>> \in R
  BY <1>2, <1>4
<1>6. PICK j \in after : \A m \in after : <<m, j>> \notin R
  BY <1>3, <1>5, FirstOfFinite
<1>7. Follows(rules, i, j)
  BY <1>2, <1>6 DEF Follows
<1>8. /\ rules[i].qtyMax # Blank /\ rules[i].qtyMax < rules[j].qtyMin
      /\ rules[i].qtyMin <= rules[i].qtyMax
  BY <1>2, <1>7 DEF validateLeadTimeRules
<1>9. rules[j].qtyMin <= rules[k].qtyMin
  <2>1. ~Before(rules, k, j)
    BY <1>2, <1>6
  <2> QED
    BY <1>1, <1>2, <2>1 DEF Before
<1> QED
  BY <1>1, <1>2, <1>8, <1>9

\* The rows of a ladder that passed: no minimum twice, no price that rises.
LEMMA LadderWritten ==
    ASSUME NEW tiers, GoodTiers(tiers), validateMoqLadder(tiers), NEW by
    PROVE  \A x, y \in Written(tiers, by) :
             /\ x.by = by
             /\ x.row.minQty = y.row.minQty => x = y
             /\ x.row.minQty < y.row.minQty => x.row.price >= y.row.price
<1> SUFFICES ASSUME NEW i \in DOMAIN tiers, NEW k \in DOMAIN tiers
             PROVE  /\ tiers[i].minQty = tiers[k].minQty => tiers[i] = tiers[k]
                    /\ tiers[i].minQty < tiers[k].minQty => tiers[i].price >= tiers[k].price
  BY DEF Written
<1>1. /\ i < k => tiers[i].minQty < tiers[k].minQty /\ tiers[i].price >= tiers[k].price
      /\ k < i => tiers[k].minQty < tiers[i].minQty /\ tiers[k].price >= tiers[i].price
  BY LadderMonotone
<1>2. /\ tiers[i].minQty \in Int /\ tiers[i].price \in Int
      /\ tiers[k].minQty \in Int /\ tiers[k].price \in Int
      /\ i \in Int /\ k \in Int
  BY DEF GoodTiers
<1>3. CASE i = k
  BY <1>2, <1>3
<1>4. CASE i # k
  BY <1>1, <1>2, <1>4
<1> QED
  BY <1>3, <1>4

\* A band that no quantity meets.
Hollow(x) == Above(x.row, x.row.qtyMin)

\* The rows of bands that passed: apart, and only the last can be hollow.
LEMMA BandsWritten ==
    ASSUME NEW rules, GoodBands(rules), validateLeadTimeRules(rules), NEW by
    PROVE  \A x, y \in Written(rules, by) :
             /\ x.by = by
             /\ x # y => ~Covers(x.row, y.row.qtyMin) /\ ~Covers(y.row, x.row.qtyMin)
             /\ Hollow(x) => y.row.qtyMin <= x.row.qtyMin
<1> SUFFICES ASSUME NEW i \in DOMAIN rules, NEW k \in DOMAIN rules
             PROVE  /\ rules[i] # rules[k] => /\ ~Covers(rules[i], rules[k].qtyMin)
                                              /\ ~Covers(rules[k], rules[i].qtyMin)
                    /\ Above(rules[i], rules[i].qtyMin) => rules[k].qtyMin <= rules[i].qtyMin
  BY DEF Written, Hollow
<1> DEFINE Apart(a, b) == /\ rules[a].qtyMax # Blank /\ rules[a].qtyMax < rules[b].qtyMin
                          /\ rules[a].qtyMin <= rules[a].qtyMax
<1>1. /\ Before(rules, i, k) => Apart(i, k)
      /\ Before(rules, k, i) => Apart(k, i)
  BY BandsApart
<1>2. /\ rules[i].qtyMin \in Int /\ rules[k].qtyMin \in Int /\ i \in Int /\ k \in Int
      /\ rules[i].qtyMax # Blank => rules[i].qtyMax \in Int
      /\ rules[k].qtyMax # Blank => rules[k].qtyMax \in Int
  BY DEF GoodBands
<1>3. i = k \/ Before(rules, i, k) \/ Before(rules, k, i)
  BY <1>2 DEF Before
<1>4. CASE i = k
  BY <1>2, <1>4
<1>5. CASE Apart(i, k)
  BY <1>2, <1>5 DEF Covers, Above
<1>6. CASE Apart(k, i)
  BY <1>2, <1>6 DEF Covers, Above
<1> QED
  BY <1>1, <1>3, <1>4, <1>5, <1>6

\* The form's bands each hold a quantity.
LEMMA FormBandsWritten ==
    ASSUME NEW rules, GoodForm(rules), NEW by
    PROVE  \A x \in Written(rules, by) : ~Hollow(x)
<1> SUFFICES ASSUME NEW n \in DOMAIN rules PROVE ~Above(rules[n], rules[n].qtyMin)
  BY DEF Written, Hollow
<1> QED
  BY DEF GoodForm, GoodBands, Above

(* The induction.  A save carries what its readers and validation passed;  *)
(* what a replacement's delete found is all there is unless another's has  *)
(* crossed it, and for bands no quantity meets even then; and while no two *)
(* saves mingle the one under way has the ladder to itself.                *)
SavesTyped ==
    /\ DOMAIN saves = Members
    /\ \A m \in Members : DOMAIN saves[m] = {"stage", "tiers", "rules", "removes"}
    /\ mingled \in BOOLEAN /\ crossed \in BOOLEAN

NothingSavedYet ==
    origin = "NONE" => ~draft /\ \A m \in Members : saves[m].stage = "IDLE"

SavesPassed ==
    \A m \in Members :
      /\ saves[m].stage \in {"SAVED", "LADDER", "LADDER_DONE", "BANDS"} =>
           GoodTiers(saves[m].tiers) /\ GoodForm(saves[m].rules)
      /\ saves[m].stage = "LADDER" => validateMoqLadder(saves[m].tiers)
      /\ saves[m].stage = "BANDS" => validateLeadTimeRules(saves[m].rules)

HollowRemoved ==
    \A m \in Members, x \in bands :
      saves[m].stage = "BANDS" /\ Hollow(x) => bands \subseteq saves[m].removes

MinimaDiffer == \A x, y \in ladder : x.row.minQty = y.row.minQty => x = y

RemovesAll ==
    \A m \in Members :
      /\ saves[m].stage = "LADDER" => ladder \subseteq saves[m].removes
      /\ saves[m].stage = "BANDS" => bands \subseteq saves[m].removes

OneReplacement ==
    /\ \A m, o \in Members : InReplacement(m) /\ InReplacement(o) => m = o
    /\ RemovesAll

OneSave ==
    /\ \A m, o \in Members : Saving(m) /\ Saving(o) => m = o
    /\ RemovesAll
    /\ \A m \in Members, x \in ladder :
         saves[m].stage \in {"LADDER_DONE", "BANDS"} => x.by = m
    /\ \/ \E m \in Members : saves[m].stage \in {"LADDER_DONE", "BANDS", "REFUSED"}
       \/ \A x \in ladder, y \in bands : x.by = y.by

ShapesIInv ==
    /\ SavesTyped /\ NothingSavedYet /\ SavesPassed
    /\ MinimaDiffer
    /\ HollowRemoved /\ EmptyBandsAreImported
    /\ LongBandsAreEdits
    /\ crossed \/ (OneReplacement /\ LadderDescends /\ BandsAreDisjoint)
    /\ mingled \/ OneSave

LEMMA ShapesFollow == ShapesIInv => StoredShapesAreSound
<1> SUFFICES ASSUME ShapesIInv PROVE StoredShapesAreSound
  OBVIOUS
<1>1. MinimaDiffer /\ EmptyBandsAreImported /\ LongBandsAreEdits
  BY DEF ShapesIInv
<1>2. SavedTogether
  BY DEF ShapesIInv, OneSave, SavedTogether
<1>3. crossed \/ (LadderDescends /\ BandsAreDisjoint)
  BY DEF ShapesIInv
<1> QED
  BY <1>1, <1>2, <1>3 DEF StoredShapesAreSound, MinimaDiffer

LEMMA ShapesInitially == ShapesInit => ShapesIInv
<1> SUFFICES ASSUME ShapesInit PROVE ShapesIInv
  OBVIOUS
<1>1. /\ ladder = {} /\ bands = {} /\ origin = "NONE" /\ draft = FALSE
      /\ mingled = FALSE /\ crossed = FALSE /\ DOMAIN saves = Members
      /\ \A m \in Members : /\ saves[m].stage = "IDLE"
                            /\ DOMAIN saves[m] = {"stage", "tiers", "rules", "removes"}
  BY DEF ShapesInit, NoEdit
<1>2. SavesTyped /\ NothingSavedYet /\ SavesPassed
  BY <1>1 DEF SavesTyped, NothingSavedYet, SavesPassed
<1>3. MinimaDiffer /\ HollowRemoved /\ EmptyBandsAreImported /\ LongBandsAreEdits
  BY <1>1 DEF MinimaDiffer, HollowRemoved, EmptyBandsAreImported, LongBandsAreEdits
<1>4. OneReplacement /\ LadderDescends /\ BandsAreDisjoint
  BY <1>1 DEF OneReplacement, RemovesAll, LadderDescends, BandsAreDisjoint, InReplacement
<1>5. OneSave
  BY <1>1 DEF OneSave, RemovesAll, Saving
<1> QED
  BY <1>2, <1>3, <1>4, <1>5 DEF ShapesIInv

\* A listing made: its rows are one validated sheet's.
LEMMA CreationKeepsShapes ==
    ASSUME ShapesIInv, origin = "NONE", NEW tiers, NEW rules, NEW by,
           createListing(tiers, rules, by), by # "NONE",
           GoodTiers(tiers.rows), GoodBands(rules.rows),
           by = "IMPORT" \/ GoodForm(rules.rows)
    PROVE  ShapesIInv'
<1>1. /\ ladder' = Written(tiers.rows, by) /\ bands' = Written(rules.rows, by)
      /\ origin' = by /\ draft' = TRUE
      /\ saves' = saves /\ mingled' = mingled /\ crossed' = crossed
      /\ parseListingUpsert(rules.rows)
      /\ validateMoqLadder(tiers.rows) /\ validateLeadTimeRules(rules.rows)
  BY DEF createListing
<1>2. SavesTyped /\ \A m \in Members : saves[m].stage = "IDLE"
  BY DEF ShapesIInv, NothingSavedYet
<1>3. \A x, y \in ladder' :
        /\ x.by = by
        /\ x.row.minQty = y.row.minQty => x = y
        /\ x.row.minQty < y.row.minQty => x.row.price >= y.row.price
  BY <1>1, LadderWritten
<1>4. \A x, y \in bands' :
        /\ x.by = by
        /\ x # y => ~Covers(x.row, y.row.qtyMin) /\ ~Covers(y.row, x.row.qtyMin)
        /\ Hollow(x) => y.row.qtyMin <= x.row.qtyMin
  BY <1>1, BandsWritten
<1>5. SavesTyped' /\ NothingSavedYet' /\ SavesPassed' /\ MinimaDiffer'
  BY <1>1, <1>2, <1>3 DEF SavesTyped, NothingSavedYet, SavesPassed, MinimaDiffer
<1>6. HollowRemoved'
  BY <1>1, <1>2 DEF HollowRemoved
<1>7. EmptyBandsAreImported'
  <2>1. by = "IMPORT" \/ \A x \in bands' : ~Hollow(x)
    BY <1>1, FormBandsWritten
  <2> QED
    BY <1>4, <2>1 DEF EmptyBandsAreImported, Hollow
<1>8. LongBandsAreEdits'
  <2> SUFFICES ASSUME NEW n \in DOMAIN rules.rows PROVE ~(rules.rows[n].days > MaxDays)
    BY <1>1 DEF LongBandsAreEdits, Written
  <2>1. rules.rows[n].days <= MaxDays
    BY <1>1 DEF parseListingUpsert
  <2>2. rules.rows[n].days \in Int
    BY DEF GoodBands
  <2> QED
    BY <2>1, <2>2, DaysAssumption
<1>9. (OneReplacement /\ LadderDescends /\ BandsAreDisjoint)'
  BY <1>1, <1>2, <1>3, <1>4
     DEF OneReplacement, RemovesAll, LadderDescends, BandsAreDisjoint, InReplacement
<1>10. OneSave'
  BY <1>1, <1>2, <1>3, <1>4 DEF OneSave, RemovesAll, Saving
<1> QED
  BY <1>5, <1>6, <1>7, <1>8, <1>9, <1>10 DEF ShapesIInv

\* A save begins: it holds what the form's readers passed.
LEMMA SaveKeepsShapes ==
    ASSUME ShapesIInv, NEW m \in Members, NEW form \in Forms, updateListingDraft(m, form)
    PROVE  ShapesIInv'
<1> DEFINE tiers == ReadTiers(form.tiers)
           rules == ReadFormBands(form.bands)
<1>1. /\ draft /\ saves[m].stage = "IDLE" /\ tiers.ok /\ rules.ok
      /\ saves' = [saves EXCEPT ![m] = [NoEdit EXCEPT !.stage = "SAVED", !.tiers = tiers.rows,
                                                     !.rules = rules.rows]]
      /\ mingled' = (mingled \/ \E o \in Members : Saving(o))
      /\ ladder' = ladder /\ bands' = bands /\ origin' = origin /\ draft' = draft
      /\ crossed' = crossed
  BY DEF updateListingDraft
<1>2. GoodTiers(tiers.rows) /\ GoodForm(rules.rows)
  <2>1. /\ form.tiers \in Seq([minQty : Cell, price : Cell])
        /\ form.bands \in Seq([qtyMin : Cell, qtyMax : Cell, days : Cell])
    BY SheetsAssumption
  <2> QED
    BY <1>1, <2>1, TiersRead, FormBandsRead
<1> HIDE DEF tiers, rules
<1>3. /\ DOMAIN saves' = Members
      /\ saves'[m].stage = "SAVED" /\ saves'[m].tiers = tiers.rows
      /\ saves'[m].rules = rules.rows
      /\ DOMAIN saves'[m] = {"stage", "tiers", "rules", "removes"}
      /\ \A o \in Members : o # m => saves'[o] = saves[o]
  BY <1>1 DEF NoEdit, ShapesIInv, SavesTyped
<1>4. SavesTyped'
  BY <1>1, <1>3 DEF SavesTyped, ShapesIInv
<1>5. NothingSavedYet' /\ SavesPassed'
  BY <1>1, <1>2, <1>3 DEF NothingSavedYet, SavesPassed, ShapesIInv
<1>6. MinimaDiffer' /\ HollowRemoved' /\ EmptyBandsAreImported' /\ LongBandsAreEdits'
  BY <1>1, <1>3
     DEF MinimaDiffer, HollowRemoved, EmptyBandsAreImported, LongBandsAreEdits, ShapesIInv
<1>7. (crossed \/ (OneReplacement /\ LadderDescends /\ BandsAreDisjoint))'
  BY <1>1, <1>3
     DEF OneReplacement, RemovesAll, LadderDescends, BandsAreDisjoint, InReplacement, ShapesIInv
<1>8. (mingled \/ OneSave)'
  <2> SUFFICES ASSUME ~mingled' PROVE OneSave'
    OBVIOUS
  <2>1. OneSave /\ \A o \in Members : ~Saving(o)
    BY <1>1 DEF ShapesIInv
  <2>2. \A o \in Members : Saving(o)' => o = m
    BY <1>3, <2>1 DEF Saving
  <2>3. \A o \in Members : saves'[o].stage \notin {"LADDER", "LADDER_DONE", "BANDS"}
    BY <1>3, <2>1 DEF Saving
  <2>4. RemovesAll'
    BY <2>3 DEF RemovesAll
  <2>5. \/ \E o \in Members : saves'[o].stage \in {"LADDER_DONE", "BANDS", "REFUSED"}
        \/ \A x \in ladder', y \in bands' : x.by = y.by
    <3>1. CASE \E o \in Members : saves[o].stage \in {"LADDER_DONE", "BANDS", "REFUSED"}
      BY <1>1, <1>3, <3>1
    <3>2. CASE \A x \in ladder, y \in bands : x.by = y.by
      BY <1>1, <3>2
    <3> QED
      BY <2>1, <3>1, <3>2 DEF OneSave
  <2> QED
    BY <2>2, <2>3, <2>4, <2>5 DEF OneSave
<1> QED
  BY <1>4, <1>5, <1>6, <1>7, <1>8 DEF ShapesIInv

\* A replacement begins; the last two hypotheses are what it validated and found.
LEMMA BeginKeepsShapes ==
    ASSUME ShapesIInv, NEW m \in Members, NEW stage, NEW valid, NEW rows,
           Begin(m, stage, valid, rows), valid \in BOOLEAN, GoodForm(saves[m].rules),
           GoodTiers(saves[m].tiers),
           \/ /\ stage = "LADDER" /\ saves[m].stage = "SAVED" /\ rows = ladder
              /\ valid = validateMoqLadder(saves[m].tiers)
           \/ /\ stage = "BANDS" /\ saves[m].stage = "LADDER_DONE" /\ rows = bands
              /\ valid = validateLeadTimeRules(saves[m].rules)
    PROVE  ShapesIInv'
<1>1. /\ saves' = [saves EXCEPT ![m] =
                     IF draft /\ valid THEN [@ EXCEPT !.stage = stage, !.removes = rows]
                                       ELSE [@ EXCEPT !.stage = "REFUSED", !.removes = {}]]
      /\ crossed' = (crossed \/ \E o \in Members \ {m} : InReplacement(o))
      /\ ladder' = ladder /\ bands' = bands /\ origin' = origin /\ draft' = draft
      /\ mingled' = mingled
  BY DEF Begin
<1>2. SavesTyped
  BY DEF ShapesIInv
<1>3. /\ DOMAIN saves' = Members
      /\ \A o \in Members : o # m => saves'[o] = saves[o]
      /\ saves'[m].tiers = saves[m].tiers /\ saves'[m].rules = saves[m].rules
      /\ DOMAIN saves'[m] = {"stage", "tiers", "rules", "removes"}
      /\ \/ draft /\ valid /\ saves'[m].stage = stage /\ saves'[m].removes = rows
         \/ saves'[m].stage = "REFUSED"
  <2>1. CASE draft /\ valid
    <3>1. saves' = [saves EXCEPT ![m] = [saves[m] EXCEPT !.stage = stage, !.removes = rows]]
      BY <1>1, <2>1
    <3> QED
      BY <1>2, <2>1, <3>1 DEF SavesTyped
  <2>2. CASE ~(draft /\ valid)
    <3>1. saves' = [saves EXCEPT ![m] = [saves[m] EXCEPT !.stage = "REFUSED", !.removes = {}]]
      BY <1>1, <2>2
    <3> QED
      BY <1>2, <3>1 DEF SavesTyped
  <2> QED
    BY <2>1, <2>2
<1>4. SavesTyped'
  BY <1>1, <1>2, <1>3 DEF SavesTyped
<1>5. NothingSavedYet'
  BY <1>1, <1>3 DEF NothingSavedYet, ShapesIInv
<1>6. SavesPassed'
  BY <1>3 DEF SavesPassed, ShapesIInv
<1>7. MinimaDiffer' /\ EmptyBandsAreImported' /\ LongBandsAreEdits'
  BY <1>1 DEF MinimaDiffer, EmptyBandsAreImported, LongBandsAreEdits, ShapesIInv
<1>8. HollowRemoved'
  BY <1>1, <1>3 DEF HollowRemoved, ShapesIInv
<1>9. /\ RemovesAll => RemovesAll'
      /\ \A o \in Members : Saving(o)' => Saving(o)
      /\ \A o \in Members : InReplacement(o)' => InReplacement(o) \/ o = m
  BY <1>1, <1>3 DEF RemovesAll, Saving, InReplacement
<1>10. (crossed \/ (OneReplacement /\ LadderDescends /\ BandsAreDisjoint))'
  <2> SUFFICES ASSUME ~crossed' PROVE (OneReplacement /\ LadderDescends /\ BandsAreDisjoint)'
    OBVIOUS
  <2>1. ~crossed /\ \A o \in Members : InReplacement(o) => o = m
    BY <1>1, <1>2 DEF SavesTyped
  <2>2. OneReplacement'
    BY <1>9, <2>1 DEF OneReplacement, ShapesIInv
  <2>3. LadderDescends' /\ BandsAreDisjoint'
    BY <1>1, <2>1 DEF LadderDescends, BandsAreDisjoint, ShapesIInv
  <2> QED
    BY <2>2, <2>3
<1>11. (mingled \/ OneSave)'
  <2> SUFFICES ASSUME ~mingled' PROVE OneSave'
    OBVIOUS
  <2>1. OneSave
    BY <1>1 DEF ShapesIInv
  <2>2. RemovesAll' /\ \A a, b \in Members : (Saving(a) /\ Saving(b))' => a = b
    BY <1>9, <2>1 DEF OneSave
  <2>3. \A o \in Members, x \in ladder' :
          saves'[o].stage \in {"LADDER_DONE", "BANDS"} => x.by = o
    BY <1>1, <1>3, <2>1 DEF OneSave
  <2>4. \/ \E o \in Members : saves'[o].stage \in {"LADDER_DONE", "BANDS", "REFUSED"}
        \/ \A x \in ladder', y \in bands' : x.by = y.by
    <3>1. CASE \E o \in Members : saves[o].stage \in {"LADDER_DONE", "BANDS", "REFUSED"}
      BY <1>3, <3>1
    <3>2. CASE \A x \in ladder, y \in bands : x.by = y.by
      BY <1>1, <3>2
    <3> QED
      BY <2>1, <3>1, <3>2 DEF OneSave
  <2> QED
    BY <2>2, <2>3, <2>4 DEF OneSave
<1> QED
  BY <1>4, <1>5, <1>6, <1>7, <1>8, <1>10, <1>11 DEF ShapesIInv

\* The ladder's insert: the index refuses a minimum twice, and one that is
\* alone leaves its own rows only.
LEMMA LadderKeepsShapes ==
    ASSUME ShapesIInv, NEW m \in Members, commitLadder(m)
    PROVE  ShapesIInv'
<1> DEFINE left == ladder \ saves[m].removes
           new == Written(saves[m].tiers, m)
           clash == \E x \in left, y \in new : x.row.minQty = y.row.minQty
<1>1. /\ saves[m].stage = "LADDER"
      /\ ladder' = IF clash THEN ladder ELSE left \cup new
      /\ saves' = [saves EXCEPT ![m].stage = IF clash THEN "REFUSED" ELSE "LADDER_DONE",
                               ![m].removes = {}]
      /\ bands' = bands /\ origin' = origin /\ draft' = draft
      /\ mingled' = mingled /\ crossed' = crossed
  BY DEF commitLadder
<1>2. /\ left \subseteq ladder
      /\ ladder \subseteq saves[m].removes => left = {}
  OBVIOUS
<1>3. \A x, y \in new :
        /\ x.by = m
        /\ x.row.minQty = y.row.minQty => x = y
        /\ x.row.minQty < y.row.minQty => x.row.price >= y.row.price
  BY <1>1, LadderWritten DEF ShapesIInv, SavesPassed
<1>4. ~clash => \A x \in left, y \in new : x.row.minQty # y.row.minQty
  OBVIOUS
<1> HIDE DEF left, new, clash
<1>5. /\ DOMAIN saves' = Members
      /\ \A o \in Members : o # m => saves'[o] = saves[o]
      /\ saves'[m].tiers = saves[m].tiers /\ saves'[m].rules = saves[m].rules
      /\ DOMAIN saves'[m] = {"stage", "tiers", "rules", "removes"}
      /\ clash => saves'[m].stage = "REFUSED"
      /\ ~clash => saves'[m].stage = "LADDER_DONE"
  BY <1>1 DEF SavesTyped, ShapesIInv
<1>6. SavesTyped'
  BY <1>1, <1>5 DEF SavesTyped, ShapesIInv
<1>7. NothingSavedYet'
  BY <1>1, <1>5 DEF NothingSavedYet, ShapesIInv
<1>8. SavesPassed'
  BY <1>1, <1>5 DEF SavesPassed, ShapesIInv
<1>9. MinimaDiffer'
  <2>1. CASE clash
    BY <1>1, <2>1 DEF MinimaDiffer, ShapesIInv
  <2>2. CASE ~clash
    BY <1>1, <1>2, <1>3, <1>4, <2>2 DEF MinimaDiffer, ShapesIInv
  <2> QED
    BY <2>1, <2>2
<1>10. EmptyBandsAreImported' /\ LongBandsAreEdits'
  BY <1>1 DEF EmptyBandsAreImported, LongBandsAreEdits, ShapesIInv
<1>11. HollowRemoved'
  BY <1>1, <1>5 DEF HollowRemoved, ShapesIInv
<1>12. ASSUME NEW alone \in BOOLEAN, alone,
              \A o \in Members : saves[o].stage = "LADDER" => o = m,
              RemovesAll
       PROVE  /\ RemovesAll'
              /\ ladder' = ladder \/ (~clash /\ ladder' = new)
  <2>1. left = {}
    BY <1>1, <1>2, <1>12 DEF RemovesAll
  <2>2. \A o \in Members : saves'[o].stage # "LADDER"
    BY <1>5, <1>12
  <2>3. RemovesAll'
    BY <1>1, <1>5, <1>12, <2>2 DEF RemovesAll
  <2> QED
    BY <1>1, <2>1, <2>3
<1>13. (crossed \/ (OneReplacement /\ LadderDescends /\ BandsAreDisjoint))'
  <2> SUFFICES ASSUME ~crossed PROVE (OneReplacement /\ LadderDescends /\ BandsAreDisjoint)'
    BY <1>1
  <2>1. OneReplacement /\ LadderDescends /\ BandsAreDisjoint
    BY DEF ShapesIInv
  <2>2. \A o \in Members : InReplacement(o) => o = m
    BY <1>1, <2>1 DEF OneReplacement, InReplacement
  <2>3. RemovesAll' /\ (ladder' = ladder \/ ladder' = new)
    BY <1>12, <2>1, <2>2 DEF InReplacement, OneReplacement
  <2>4. \A o \in Members : ~InReplacement(o)'
    BY <1>5, <2>2 DEF InReplacement
  <2>5. LadderDescends'
    BY <1>3, <2>1, <2>3 DEF LadderDescends
  <2>6. BandsAreDisjoint'
    BY <1>1, <2>1 DEF BandsAreDisjoint
  <2> QED
    BY <2>3, <2>4, <2>5, <2>6 DEF OneReplacement
<1>14. (mingled \/ OneSave)'
  <2> SUFFICES ASSUME ~mingled PROVE OneSave'
    BY <1>1
  <2>1. OneSave
    BY DEF ShapesIInv
  <2>2. \A o \in Members : Saving(o) => o = m
    BY <1>1, <2>1 DEF OneSave, Saving
  <2>3. RemovesAll' /\ (ladder' = ladder \/ (~clash /\ ladder' = new))
    BY <1>12, <2>1, <2>2 DEF Saving, OneSave
  <2>4. \A o \in Members : Saving(o)' => o = m
    BY <1>5, <2>2 DEF Saving
  <2>5. \A o \in Members, x \in ladder' :
          saves'[o].stage \in {"LADDER_DONE", "BANDS"} => x.by = o
    <3> SUFFICES ASSUME NEW o \in Members, NEW x \in ladder',
                        saves'[o].stage \in {"LADDER_DONE", "BANDS"}
                 PROVE  x.by = o
      OBVIOUS
    <3>1. o = m
      BY <2>4 DEF Saving
    <3>2. ~clash
      BY <1>5, <3>1
    <3>3. left = {}
      BY <1>1, <1>2, <2>1 DEF OneSave, RemovesAll
    <3>4. x \in new
      BY <1>1, <3>2, <3>3
    <3> QED
      BY <1>3, <3>1, <3>4
  <2>6. \E o \in Members : saves'[o].stage \in {"LADDER_DONE", "BANDS", "REFUSED"}
    BY <1>5
  <2> QED
    BY <2>3, <2>4, <2>5, <2>6 DEF OneSave
<1> QED
  BY <1>6, <1>7, <1>8, <1>9, <1>10, <1>11, <1>13, <1>14 DEF ShapesIInv

\* The bands' insert: nothing refuses it, and a hollow band is gone by then.
LEMMA BandsKeepShapes ==
    ASSUME ShapesIInv, NEW m \in Members, commitBands(m)
    PROVE  ShapesIInv'
<1> DEFINE left == bands \ saves[m].removes
           new == Written(saves[m].rules, m)
<1>1. /\ saves[m].stage = "BANDS" /\ bands' = left \cup new
      /\ saves' = [saves EXCEPT ![m].stage = "DONE", ![m].removes = {}]
      /\ ladder' = ladder /\ origin' = origin /\ draft' = draft
      /\ mingled' = mingled /\ crossed' = crossed
  BY DEF commitBands
<1>2. /\ left \subseteq bands
      /\ bands \subseteq saves[m].removes => left = {}
  OBVIOUS
<1>3. GoodForm(saves[m].rules) /\ validateLeadTimeRules(saves[m].rules)
  BY <1>1 DEF ShapesIInv, SavesPassed
<1>4. \A x, y \in new :
        /\ x.by = m /\ ~Hollow(x)
        /\ x # y => ~Covers(x.row, y.row.qtyMin) /\ ~Covers(y.row, x.row.qtyMin)
  BY <1>3, BandsWritten, FormBandsWritten DEF GoodForm
<1>5. \A x \in bands' : ~Hollow(x) /\ (x \in bands \/ x.by = m)
  <2>1. \A x \in left : ~Hollow(x)
    BY <1>1, <1>2 DEF ShapesIInv, HollowRemoved
  <2> HIDE DEF left, new
  <2> QED
    BY <1>1, <1>2, <1>4, <2>1
<1> HIDE DEF left, new
<1>6. /\ DOMAIN saves' = Members
      /\ \A o \in Members : o # m => saves'[o] = saves[o]
      /\ saves'[m].stage = "DONE"
      /\ DOMAIN saves'[m] = {"stage", "tiers", "rules", "removes"}
  BY <1>1 DEF SavesTyped, ShapesIInv
<1>7. SavesTyped'
  BY <1>1, <1>6 DEF SavesTyped, ShapesIInv
<1>8. NothingSavedYet'
  BY <1>1, <1>6 DEF NothingSavedYet, ShapesIInv
<1>9. SavesPassed' /\ MinimaDiffer'
  BY <1>1, <1>6 DEF SavesPassed, MinimaDiffer, ShapesIInv
<1>10. HollowRemoved' /\ EmptyBandsAreImported'
  BY <1>5 DEF HollowRemoved, EmptyBandsAreImported, Hollow
<1>11. LongBandsAreEdits'
  BY <1>5 DEF LongBandsAreEdits, ShapesIInv
<1>12. (crossed \/ (OneReplacement /\ LadderDescends /\ BandsAreDisjoint))'
  <2> SUFFICES ASSUME ~crossed PROVE (OneReplacement /\ LadderDescends /\ BandsAreDisjoint)'
    BY <1>1
  <2>1. OneReplacement /\ LadderDescends
    BY DEF ShapesIInv
  <2>2. \A o \in Members : InReplacement(o) => o = m
    BY <1>1, <2>1 DEF OneReplacement, InReplacement
  <2>3. \A o \in Members : ~InReplacement(o)'
    BY <1>6, <2>2 DEF InReplacement
  <2>4. left = {}
    BY <1>1, <1>2, <2>1 DEF OneReplacement, RemovesAll
  <2>5. BandsAreDisjoint'
    BY <1>1, <1>4, <2>4 DEF BandsAreDisjoint
  <2>6. OneReplacement' /\ LadderDescends'
    BY <1>1, <2>1, <2>3 DEF OneReplacement, RemovesAll, InReplacement, LadderDescends
  <2> QED
    BY <2>5, <2>6
<1>13. (mingled \/ OneSave)'
  <2> SUFFICES ASSUME ~mingled PROVE OneSave'
    BY <1>1
  <2>1. OneSave
    BY DEF ShapesIInv
  <2>2. \A o \in Members : Saving(o) => o = m
    BY <1>1, <2>1 DEF OneSave, Saving
  <2>3. \A o \in Members : ~Saving(o)'
    BY <1>6, <2>2 DEF Saving
  <2>4. left = {}
    BY <1>1, <1>2, <2>1 DEF OneSave, RemovesAll
  <2>5. \A x \in ladder', y \in bands' : x.by = y.by
    BY <1>1, <1>4, <2>1, <2>4 DEF OneSave
  <2> QED
    BY <2>3, <2>5 DEF OneSave, RemovesAll, Saving
<1> QED
  BY <1>7, <1>8, <1>9, <1>10, <1>11, <1>12, <1>13 DEF ShapesIInv

LEMMA ShapesStep == ShapesIInv /\ [ShapesNext]_shapeVars => ShapesIInv'
<1> SUFFICES ASSUME ShapesIInv, [ShapesNext]_shapeVars PROVE ShapesIInv'
  OBVIOUS
<1>1. CASE importListingsCsv
  <2>1. origin = "NONE"
    BY <1>1 DEF importListingsCsv
  <2>2. PICK sheet \in Sheets :
          createListing(ReadTiers(sheet.tiers), ReadImportedBands(sheet.bands), "IMPORT")
    BY <1>1 DEF importListingsCsv
  <2>3. ReadTiers(sheet.tiers).ok /\ ReadImportedBands(sheet.bands).ok
    BY <2>2 DEF createListing
  <2>4. /\ sheet.tiers \in Seq([minQty : Cell, price : Cell])
        /\ sheet.bands \in Seq([qtyMin : Cell, qtyMax : Cell, days : Cell])
    BY SheetsAssumption
  <2>5. GoodTiers(ReadTiers(sheet.tiers).rows) /\ GoodBands(ReadImportedBands(sheet.bands).rows)
    BY <2>3, <2>4, TiersRead, ImportedBandsRead
  <2> QED
    BY <2>1, <2>2, <2>5, CreationKeepsShapes
<1>2. CASE createByForm
  <2>1. origin = "NONE"
    BY <1>2 DEF createByForm
  <2>2. PICK form \in Sheets :
          createListing(ReadTiers(form.tiers), ReadFormBands(form.bands), "FORM")
    BY <1>2 DEF createByForm
  <2>3. ReadTiers(form.tiers).ok /\ ReadFormBands(form.bands).ok
    BY <2>2 DEF createListing
  <2>4. /\ form.tiers \in Seq([minQty : Cell, price : Cell])
        /\ form.bands \in Seq([qtyMin : Cell, qtyMax : Cell, days : Cell])
    BY SheetsAssumption
  <2>5. GoodTiers(ReadTiers(form.tiers).rows) /\ GoodForm(ReadFormBands(form.bands).rows)
    BY <2>3, <2>4, TiersRead, FormBandsRead
  <2>6. GoodBands(ReadFormBands(form.bands).rows)
    BY <2>5 DEF GoodForm
  <2> QED
    BY <2>1, <2>2, <2>5, <2>6, CreationKeepsShapes
<1>3. ASSUME NEW m \in Members, NEW form \in Forms, updateListingDraft(m, form)
      PROVE  ShapesIInv'
  BY <1>3, SaveKeepsShapes
<1>4. ASSUME NEW m \in Members, replaceMoqLadder(m) PROVE ShapesIInv'
  <2>1. /\ saves[m].stage = "SAVED"
        /\ Begin(m, "LADDER", validateMoqLadder(saves[m].tiers), ladder)
    BY <1>4 DEF replaceMoqLadder
  <2>2. GoodTiers(saves[m].tiers) /\ GoodForm(saves[m].rules)
    BY <2>1 DEF ShapesIInv, SavesPassed
  <2>3. validateMoqLadder(saves[m].tiers) \in BOOLEAN
    BY DEF validateMoqLadder
  <2> QED
    BY <2>1, <2>2, <2>3, BeginKeepsShapes
<1>5. ASSUME NEW m \in Members, replaceLeadTimeRules(m) PROVE ShapesIInv'
  <2>1. /\ saves[m].stage = "LADDER_DONE"
        /\ Begin(m, "BANDS", validateLeadTimeRules(saves[m].rules), bands)
    BY <1>5 DEF replaceLeadTimeRules
  <2>2. GoodTiers(saves[m].tiers) /\ GoodForm(saves[m].rules)
    BY <2>1 DEF ShapesIInv, SavesPassed
  <2>3. validateLeadTimeRules(saves[m].rules) \in BOOLEAN
    BY DEF validateLeadTimeRules
  <2> QED
    BY <2>1, <2>2, <2>3, BeginKeepsShapes
<1>6. CASE submitForReview
  <2>1. /\ draft /\ draft' = FALSE /\ ladder' = ladder /\ bands' = bands /\ origin' = origin
        /\ saves' = saves /\ mingled' = mingled /\ crossed' = crossed
    BY <1>6 DEF submitForReview
  <2> QED
    BY <2>1 DEF ShapesIInv, SavesTyped, NothingSavedYet, SavesPassed, MinimaDiffer,
         HollowRemoved, EmptyBandsAreImported, LongBandsAreEdits, OneReplacement, RemovesAll,
         LadderDescends, BandsAreDisjoint, OneSave, Saving, InReplacement
<1>7. CASE UNCHANGED shapeVars
  <2>1. /\ draft' = draft /\ ladder' = ladder /\ bands' = bands /\ origin' = origin
        /\ saves' = saves /\ mingled' = mingled /\ crossed' = crossed
    BY <1>7 DEF shapeVars
  <2> QED
    BY <2>1 DEF ShapesIInv, SavesTyped, NothingSavedYet, SavesPassed, MinimaDiffer,
         HollowRemoved, EmptyBandsAreImported, LongBandsAreEdits, OneReplacement, RemovesAll,
         LadderDescends, BandsAreDisjoint, OneSave, Saving, InReplacement
<1> QED
  BY <1>1, <1>2, <1>3, <1>4, <1>5, <1>6, <1>7, LadderKeepsShapes, BandsKeepShapes DEF ShapesNext

\* Whatever cells the sheets and forms hold and however the saves fall, the
\* stored ladder and bands are sound (listing-repository.ts, both replacements).
THEOREM ShapesHold == ShapesSpec => []StoredShapesAreSound
<1>1. ShapesInit => ShapesIInv
  BY ShapesInitially
<1>2. ShapesIInv /\ [ShapesNext]_shapeVars => ShapesIInv'
  BY ShapesStep
<1>3. ShapesIInv => StoredShapesAreSound
  BY ShapesFollow
<1> QED
  BY <1>1, <1>2, <1>3, PTL DEF ShapesSpec

-----------------------------------------------------------------------------
(* What a quote costs *)

(* Sums over finitely many lines: the recursion has a solution, set size by *)
(* set size, and the order of summing does not matter.                      *)
Summand(l) == CHOOSE s \in l : TRUE

Sums(cents, f) ==
    /\ f[{}] = 0
    /\ \A l \in SUBSET DOMAIN cents :
         /\ f[l] \in Nat
         /\ \A s \in l : f[l] = cents[s] + f[l \ {s}]

\* What holds of a finite set when it holds of its smaller parts.
LEMMA SubsetInduction ==
    ASSUME NEW D, IsFiniteSet(D), NEW P,
           \A l \in SUBSET D : (\A k \in SUBSET l : k # l => k \in P) => l \in P
    PROVE  SUBSET D \subseteq P
<1> SUFFICES ASSUME (SUBSET D) \ P # {} PROVE FALSE
  OBVIOUS
<1> DEFINE T == (SUBSET D) \ P
           R == {p \in T \X T : p[1] \subseteq p[2] /\ p[1] # p[2]}
<1>1. IsFiniteSet(T)
  <2>1. T \in SUBSET (SUBSET D) /\ IsFiniteSet(SUBSET D)
    BY FS_SUBSET
  <2> HIDE DEF T
  <2> QED
    BY <2>1, FS_Subset
<1>2. \A a, b \in T : <<a, b>> \in R <=> a \subseteq b /\ a # b
  OBVIOUS
<1>3. T \subseteq SUBSET D /\ \A k \in SUBSET D : k \in T <=> k \notin P
  OBVIOUS
<1> HIDE DEF T, R
<1>4. PICK l \in T : \A k \in T : <<k, l>> \notin R
  <2>1. T # {}
    BY <1>3
  <2>2. \A x, y, z \in T : <<x, y>> \in R /\ <<y, z>> \in R => <<x, z>> \in R
    <3> SUFFICES ASSUME NEW x \in T, NEW y \in T, NEW z \in T, <<x, y>> \in R, <<y, z>> \in R
                 PROVE  <<x, z>> \in R
      OBVIOUS
    <3>1. x \subseteq y /\ x # y /\ y \subseteq z
      BY <1>2
    <3>2. x \subseteq z /\ x # z
      BY <3>1
    <3> QED
      BY <1>2, <3>2
  <2>3. \A x \in T : <<x, x>> \notin R
    BY <1>2
  <2> QED
    BY <1>1, <2>1, <2>2, <2>3, FirstOfFinite
<1>5. \A k \in SUBSET l : k # l => k \in P
  BY <1>2, <1>3, <1>4
<1> QED
  BY <1>3, <1>4, <1>5

LEMMA TotalIsSum ==
    ASSUME NEW cents, IsFiniteSet(DOMAIN cents), \A s \in DOMAIN cents : cents[s] \in Nat
    PROVE  \E f : Sums(cents, f) /\ Total(cents) = f[DOMAIN cents]
<1> DEFINE D == DOMAIN cents
           Step(l, before) == IF l = {} THEN 0 ELSE cents[Summand(l)] + before
           Is(g) == g = [l \in SUBSET D |-> Step(l, g[l \ {Summand(l)}])]
           Small(n) == {l \in SUBSET D : Cardinality(l) <= n}
           Runs(g, n) == g = [l \in Small(n) |-> Step(l, g[l \ {Summand(l)}])]
           S == {n \in Nat : \E g : Runs(g, n)}
           f[l \in SUBSET D] ==
             IF l = {} THEN 0 ELSE LET s == CHOOSE s \in l : TRUE IN cents[s] + f[l \ {s}]
<1>1. Total(cents) = f[D]
  BY DEF Total
<1>2. f = CHOOSE g : Is(g)
  BY DEF Summand
<1>3. \A l : l # {} => Summand(l) \in l
  BY DEF Summand
<1>4. \A l \in SUBSET D : IsFiniteSet(l) /\ Cardinality(l) \in Nat
  BY FS_Subset, FS_CardinalityType
<1> HIDE DEF f
<1>5. \A n \in Nat : \A l \in Small(n + 1) : l # {} => l \ {Summand(l)} \in Small(n)
  <2> SUFFICES ASSUME NEW n \in Nat, NEW l \in SUBSET D, Cardinality(l) <= n + 1, l # {}
               PROVE  Cardinality(l \ {Summand(l)}) <= n
    OBVIOUS
  <2>1. Cardinality(l \ {Summand(l)}) = Cardinality(l) - 1
    BY <1>3, <1>4, FS_RemoveElement
  <2> QED
    BY <1>4, <2>1
<1>6. 0 \in S
  <2>1. \A l \in Small(0) : l = {}
    <3> TAKE l \in Small(0)
    <3>1. Cardinality(l) = 0 /\ IsFiniteSet(l)
      BY <1>4
    <3> QED
      BY <3>1, FS_EmptySet
  <2> DEFINE g == [l \in Small(0) |-> 0]
  <2>2. Runs(g, 0)
    <3> HIDE DEF Small
    <3> QED
      BY <2>1
  <2> HIDE DEF g, Runs
  <2> QED
    BY <2>2
<1>7. ASSUME NEW n \in Nat, n \in S PROVE n + 1 \in S
  <2>1. PICK g : Runs(g, n)
    BY <1>7
  <2> DEFINE h == [l \in Small(n + 1) |-> Step(l, g[l \ {Summand(l)}])]
  <2>2. Small(n) \subseteq Small(n + 1)
    BY <1>4
  <2>3. \A l \in Small(n) : h[l] = g[l]
    <3> HIDE DEF Small, Step
    <3> QED
      BY <2>1, <2>2
  <2>4. \A l \in Small(n + 1) : h[l] = Step(l, h[l \ {Summand(l)}])
    <3> TAKE l \in Small(n + 1)
    <3>1. h[l] = Step(l, g[l \ {Summand(l)}])
      <4> HIDE DEF Small, Step
      <4> QED
        OBVIOUS
    <3>2. CASE l = {}
      BY <3>1, <3>2
    <3>3. CASE l # {}
      <4>1. h[l \ {Summand(l)}] = g[l \ {Summand(l)}]
        <5> HIDE DEF h, Small
        <5> QED
          BY <1>5, <2>3, <3>3
      <4> HIDE DEF h, Small, Step
      <4> QED
        BY <3>1, <4>1
    <3> QED
      BY <3>2, <3>3
  <2>5. Runs(h, n + 1)
    <3>1. h = [l \in Small(n + 1) |-> h[l]]
      <4> HIDE DEF Small, Step
      <4> QED
        OBVIOUS
    <3> HIDE DEF h, Small, Step
    <3> QED
      BY <2>4, <3>1
  <2> HIDE DEF Runs, h
  <2> QED
    BY <2>5
<1>8. Nat \subseteq S
  <2> HIDE DEF S
  <2> QED
    BY <1>6, <1>7, SetInduction
<1>9. \E g : Is(g)
  <2>1. Cardinality(D) \in S
    BY <1>4, <1>8
  <2>2. PICK g : Runs(g, Cardinality(D))
    BY <2>1
  <2>3. Small(Cardinality(D)) = SUBSET D
    BY <1>4, FS_Subset
  <2>4. Is(g)
    <3> HIDE DEF Small, Step
    <3> QED
      BY <2>2, <2>3
  <2> HIDE DEF Is
  <2> QED
    BY <2>4
<1>10. Is(f)
  <2> HIDE DEF Is
  <2> QED
    BY <1>2, <1>9
<1>11. f[{}] = 0 /\ \A l \in SUBSET D : l # {} => f[l] = cents[Summand(l)] + f[l \ {Summand(l)}]
  BY <1>10
<1> HIDE DEF Is, S, Runs, Step, Small
<1> DEFINE P == {l \in SUBSET D : /\ f[l] \in Nat
                                  /\ \A s \in l : f[l] = cents[s] + f[l \ {s}]}
<1>12. ASSUME NEW l \in SUBSET D, \A k \in SUBSET l : k # l => k \in P
       PROVE  l \in P
  <2>1. CASE l = {}
    BY <1>11, <2>1
  <2>2. CASE l # {}
    <3> DEFINE c == Summand(l)
    <3>1. c \in l /\ cents[c] \in Nat /\ f[l] = cents[c] + f[l \ {c}]
      BY <1>3, <1>11, <2>2
    <3>2. \A s \in l : l \ {s} \in P
      <4> TAKE s \in l
      <4>1. l \ {s} \in SUBSET l /\ l \ {s} # l
        OBVIOUS
      <4> HIDE DEF P
      <4> QED
        BY <1>12, <4>1
    <3> HIDE DEF c
    <3>3. f[l] \in Nat
      BY <3>1, <3>2
    <3>4. ASSUME NEW s \in l, s # c PROVE f[l] = cents[s] + f[l \ {s}]
      <4>1. /\ f[l \ {c}] = cents[s] + f[(l \ {c}) \ {s}] /\ f[(l \ {c}) \ {s}] \in Nat
        <5>1. l \ {c} \in P /\ s \in l \ {c} /\ (l \ {c}) \ {s} \in SUBSET l
                /\ (l \ {c}) \ {s} # l
          BY <3>1, <3>2, <3>4
        <5>2. (l \ {c}) \ {s} \in P
          BY <1>12, <5>1
        <5> QED
          BY <5>1, <5>2
      <4>2. f[l \ {s}] = cents[c] + f[(l \ {s}) \ {c}]
        <5>1. l \ {s} \in P /\ c \in l \ {s}
          BY <3>1, <3>2, <3>4
        <5> QED
          BY <5>1
      <4>3. (l \ {s}) \ {c} = (l \ {c}) \ {s}
        OBVIOUS
      <4>4. cents[s] \in Nat
        OBVIOUS
      <4> DEFINE rest == f[(l \ {c}) \ {s}]
      <4>5. /\ f[l] = cents[c] + (cents[s] + rest) /\ f[l \ {s}] = cents[c] + rest
            /\ rest \in Nat
        BY <3>1, <4>1, <4>2, <4>3
      <4> HIDE DEF rest
      <4> QED
        BY <3>1, <4>4, <4>5
    <3> QED
      BY <3>1, <3>3, <3>4
  <2> QED
    BY <2>1, <2>2
<1>13. SUBSET D \subseteq P
  <2> HIDE DEF P
  <2> QED
    BY <1>12, SubsetInduction
<1>14. Sums(cents, f)
  <2>1. \A l \in SUBSET D : l \in P
    BY <1>13
  <2> QED
    BY <1>11, <2>1 DEF Sums
<1> QED
  BY <1>1, <1>14

\* Lines that cost the same sum to the same.
LEMMA SumsAgree ==
    ASSUME NEW a, NEW b, NEW f, NEW g, Sums(a, f), Sums(b, g),
           DOMAIN b \subseteq DOMAIN a, IsFiniteSet(DOMAIN b), \A s \in DOMAIN b : a[s] = b[s]
    PROVE  f[DOMAIN b] = g[DOMAIN b]
<1> DEFINE P == {l \in SUBSET DOMAIN b : f[l] = g[l]}
<1>1. ASSUME NEW l \in SUBSET DOMAIN b, \A k \in SUBSET l : k # l => k \in P
      PROVE  l \in P
  <2>1. CASE l = {}
    BY <2>1 DEF Sums
  <2>2. CASE l # {}
    <3>1. PICK s \in l : TRUE
      BY <2>2
    <3>2. l \ {s} \in P
      <4>1. l \ {s} \in SUBSET l /\ l \ {s} # l
        BY <3>1
      <4> HIDE DEF P
      <4> QED
        BY <1>1, <4>1
    <3>3. l \in SUBSET DOMAIN a
      OBVIOUS
    <3>4. f[l] = a[s] + f[l \ {s}]
      BY <3>1, <3>3 DEF Sums
    <3>5. g[l] = b[s] + g[l \ {s}]
      BY <3>1 DEF Sums
    <3> QED
      BY <3>2, <3>4, <3>5
  <2> QED
    BY <2>1, <2>2
<1>2. SUBSET DOMAIN b \subseteq P
  <2> HIDE DEF P
  <2> QED
    BY <1>1, SubsetInduction
<1> QED
  BY <1>2

\* A total is a line and the total of the others.
LEMMA TotalSplits ==
    ASSUME NEW cents, IsFiniteSet(DOMAIN cents), \A l \in DOMAIN cents : cents[l] \in Nat,
           NEW s \in DOMAIN cents
    PROVE  LET others == [l \in DOMAIN cents \ {s} |-> cents[l]]
           IN  Total(others) \in Nat /\ Total(cents) = cents[s] + Total(others)
<1> DEFINE others == [l \in DOMAIN cents \ {s} |-> cents[l]]
<1>1. /\ DOMAIN others = DOMAIN cents \ {s} /\ \A l \in DOMAIN others : cents[l] = others[l]
      /\ DOMAIN others \subseteq DOMAIN cents
  OBVIOUS
<1> HIDE DEF others
<1>2. IsFiniteSet(DOMAIN others)
  BY <1>1, FS_Subset
<1>3. PICK f : Sums(cents, f) /\ Total(cents) = f[DOMAIN cents]
  BY TotalIsSum
<1>4. PICK g : Sums(others, g) /\ Total(others) = g[DOMAIN others]
  BY <1>1, <1>2, TotalIsSum
<1>5. f[DOMAIN others] = g[DOMAIN others]
  BY <1>1, <1>2, <1>3, <1>4, SumsAgree
<1>6. g[DOMAIN others] \in Nat
  BY <1>4 DEF Sums
<1>7. f[DOMAIN cents] = cents[s] + f[DOMAIN cents \ {s}]
  BY <1>3 DEF Sums
<1> QED
  BY <1>1, <1>3, <1>4, <1>5, <1>6, <1>7 DEF others


\* Half up: a rounded quotient is within half a unit, above more than below.
LEMMA RoundedIsNear ==
    ASSUME NEW a \in Nat, NEW b \in Nat, b > 0
    PROVE  /\ Rounded(a, b) \in Nat
           /\ 2 * (Rounded(a, b) * b) <= 2 * a + b
           /\ 2 * a + b < 2 * (Rounded(a, b) * b) + 2 * b
<1> DEFINE n == 2 * a + b
           d == 2 * b
           r == n \div d
<1>1. n \in Nat /\ d \in Nat /\ d > 0
  OBVIOUS
<1> HIDE DEF n, d
<1>2. r \in Nat /\ d * r <= n /\ n < d * r + d
  BY <1>1
<1> HIDE DEF r
<1>3. d * r = 2 * (r * b)
  BY <1>2 DEF d
<1> QED
  BY <1>2, <1>3 DEF Rounded, n, d, r

\* To round the duty of a piece and to round that of all of them differ by no
\* more than half a cent a piece.
LEMMA DutyStrays ==
    ASSUME NEW x \in Nat, NEW q \in Nat, q > 0
    PROVE  LET gap == Rounded(x * q, 10000) - Rounded(x, 10000) * q
           IN  gap \in Int /\ -q <= 2 * gap /\ 2 * gap <= q
<1> DEFINE one == Rounded(x, 10000)
           all == Rounded(x * q, 10000)
           xq == x * q
           oneq == one * q
<1>1. one \in Nat /\ 20000 * one <= 2 * x + 10000 /\ 2 * x + 10000 < 20000 * one + 20000
  BY RoundedIsNear
<1>2. xq \in Nat
  OBVIOUS
<1>3. all \in Nat /\ 20000 * all <= 2 * xq + 10000 /\ 2 * xq + 10000 < 20000 * all + 20000
  <2> HIDE DEF xq
  <2>1. Rounded(xq, 10000) \in Nat /\ 20000 * Rounded(xq, 10000) <= 2 * xq + 10000
          /\ 2 * xq + 10000 < 20000 * Rounded(xq, 10000) + 20000
    BY <1>2, RoundedIsNear
  <2> QED
    BY <2>1 DEF xq
<1> HIDE DEF one, all
<1>4. /\ oneq \in Nat
      /\ 20000 * oneq <= 2 * xq + 10000 * q
      /\ 2 * xq + 10000 * q <= 20000 * oneq + 20000 * q - q
  <2>1. (20000 * one) * q <= (2 * x + 10000) * q
    BY <1>1
  <2>2. (2 * x + 10000) * q <= (20000 * one + 19999) * q
    BY <1>1
  <2>3. /\ (20000 * one) * q = 20000 * oneq /\ (2 * x + 10000) * q = 2 * xq + 10000 * q
        /\ (20000 * one + 19999) * q = 20000 * oneq + 19999 * q
    BY <1>1
  <2>4. oneq \in Nat
    BY <1>1
  <2> HIDE DEF oneq, xq
  <2> QED
    BY <1>2, <2>1, <2>2, <2>3, <2>4
<1> HIDE DEF xq, oneq
<1>5. all - oneq \in Int /\ -q <= 2 * (all - oneq) /\ 2 * (all - oneq) <= q
  BY <1>2, <1>3, <1>4
<1> QED
  BY <1>5 DEF all, one, xq, oneq

\* The price a piece strays from the total by no more than a cent a piece.
LEMMA UnitStrays ==
    ASSUME NEW unit \in Nat, NEW q \in Nat, q > 0, NEW fees \in Nat, NEW freight \in Nat, NEW duty \in Nat
    PROVE  LET stray == unitLandedCents(unit, q, fees, freight, duty) * q
                          - totalCents(unit, q, fees, freight, duty)
           IN  -q <= stray /\ stray <= q
<1> DEFINE fr == Rounded(freight, q)
           fe == Rounded(fees, q)
           du == dutyPerUnit(unit, duty)
<1>1. /\ fr \in Nat /\ 2 * (fr * q) <= 2 * freight + q /\ 2 * freight + q < 2 * (fr * q) + 2 * q
      /\ fe \in Nat /\ 2 * (fe * q) <= 2 * fees + q /\ 2 * fees + q < 2 * (fe * q) + 2 * q
  BY RoundedIsNear
<1>2. du \in Nat
  <2>1. unit * duty \in Nat
    OBVIOUS
  <2> QED
    BY <2>1, RoundedIsNear DEF dutyPerUnit
<1>3. unitLandedCents(unit, q, fees, freight, duty) = unit + fr + du + fe
  BY DEF unitLandedCents
<1>4. totalCents(unit, q, fees, freight, duty) = unit * q + fees + freight + du * q
  BY DEF totalCents
<1> HIDE DEF fr, fe, du
<1>5. (unit + fr + du + fe) * q = unit * q + fr * q + du * q + fe * q
  BY <1>1, <1>2
<1> DEFINE uq == unit * q
           frq == fr * q
           duq == du * q
           feq == fe * q
<1>6. uq \in Nat /\ frq \in Nat /\ duq \in Nat /\ feq \in Nat
  BY <1>1, <1>2
<1> HIDE DEF uq, frq, duq, feq
<1>7. LET stray == (uq + frq + duq + feq) - (uq + fees + freight + duq)
      IN  -q <= stray /\ stray <= q
  <2>1. /\ 2 * frq <= 2 * freight + q /\ 2 * freight + q < 2 * frq + 2 * q
        /\ 2 * feq <= 2 * fees + q /\ 2 * fees + q < 2 * feq + 2 * q
    BY <1>1 DEF frq, feq
  <2> QED
    BY <1>6, <2>1
<1> QED
  BY <1>3, <1>4, <1>5, <1>7 DEF uq, frq, duq, feq

-----------------------------------------------------------------------------

Lines == [minQty : Nat, unit : Nat, fees : Nat, freight : Nat]

IsLadder(lines) == lines \subseteq Lines /\ IsFiniteSet(lines)

\* An offer that was made: finitely many lines, one of which the quantity is
\* on, and a head that takes its price and the fees and freight of all.
Made(o) ==
    /\ o = [quantity |-> o.quantity, unit |-> o.unit, fees |-> o.fees, freight |-> o.freight,
            dutyBps |-> o.dutyBps, lines |-> o.lines]
    /\ o.quantity \in Nat \ {0} /\ o.dutyBps \in Nat
    /\ IsLadder(o.lines) /\ Priced(o.lines, o.quantity)
    /\ o.unit = Selected(o).unit /\ o.fees = FeesOf(o.lines) /\ o.freight = FreightOf(o.lines)

PricingIInv ==
    /\ revision \in Nat
    /\ revision > 0 => Made(offer)
    /\ revision > 1 => \E s \in Lines : offer.lines = {s}

\* The selected step is one of the ladder that the quantity reaches.
LEMMA SelectedIs ==
    ASSUME NEW lines, IsLadder(lines), NEW quantity \in Nat, Priced(lines, quantity)
    PROVE  LET it == selectedTier(lines, quantity) IN it \in lines /\ it.minQty <= quantity
<1> DEFINE reached == {s \in lines : s.minQty <= quantity}
           R == {p \in reached \X reached : p[1].minQty > p[2].minQty}
<1>1. \A s \in reached : s \in lines /\ s.minQty \in Nat /\ s.minQty <= quantity
  BY DEF IsLadder, Lines
<1>2. /\ IsFiniteSet(reached) /\ reached # {}
      /\ \A s \in lines : s.minQty <= quantity => s \in reached
  <2>1. reached \in SUBSET lines
    OBVIOUS
  <2>2. IsFiniteSet(reached)
    BY <2>1, FS_Subset DEF IsLadder
  <2> QED
    BY <2>2 DEF Priced
<1>3. \A s, t \in reached : <<s, t>> \in R <=> s.minQty > t.minQty
  OBVIOUS
<1> HIDE DEF reached, R
<1>4. PICK s \in reached : \A t \in reached : <<t, s>> \notin R
  <2>1. \A x \in reached : <<x, x>> \notin R
    BY <1>1, <1>3
  <2>2. \A x, y, z \in reached : <<x, y>> \in R /\ <<y, z>> \in R => <<x, z>> \in R
    BY <1>1, <1>3
  <2> QED
    BY <1>2, <2>1, <2>2, FirstOfFinite
<1>5. ASSUME NEW t \in lines, t.minQty <= quantity PROVE t.minQty <= s.minQty
  <2>1. t \in reached
    BY <1>2, <1>5
  <2>2. ~(t.minQty > s.minQty)
    BY <1>3, <1>4, <2>1
  <2>3. t.minQty \in Nat /\ s.minQty \in Nat
    BY <1>1, <2>1
  <2> QED
    BY <2>2, <2>3
<1> QED
  BY <1>1, <1>4, <1>5 DEF selectedTier

\* The sums over a ladder are a line's and those of what is left of it.
LEMMA LadderSums ==
    ASSUME NEW lines, IsLadder(lines)
    PROVE  /\ FeesOf(lines) \in Nat /\ FreightOf(lines) \in Nat
           /\ \A s \in lines :
                /\ FeesOf(lines \ {s}) \in Nat /\ FreightOf(lines \ {s}) \in Nat
                /\ FeesOf(lines) = s.fees + FeesOf(lines \ {s})
                /\ FreightOf(lines) = s.freight + FreightOf(lines \ {s})
           /\ lines = {} => FeesOf(lines) = 0 /\ FreightOf(lines) = 0
<1> DEFINE fees == [l \in lines |-> l.fees]
           freight == [l \in lines |-> l.freight]
<1>1. IsFiniteSet(lines) /\ \A s \in lines : s.fees \in Nat /\ s.freight \in Nat
  BY DEF IsLadder, Lines
<1>2. /\ DOMAIN fees = lines /\ \A l \in lines : fees[l] = l.fees
      /\ DOMAIN freight = lines /\ \A l \in lines : freight[l] = l.freight
      /\ FeesOf(lines) = Total(fees) /\ FreightOf(lines) = Total(freight)
  BY DEF FeesOf, FreightOf
<1>3. \A s \in lines :
        /\ FeesOf(lines \ {s}) = Total([l \in lines \ {s} |-> fees[l]])
        /\ FreightOf(lines \ {s}) = Total([l \in lines \ {s} |-> freight[l]])
  <2> TAKE s \in lines
  <2>1. /\ [l \in lines \ {s} |-> fees[l]] = [l \in lines \ {s} |-> l.fees]
        /\ [l \in lines \ {s} |-> freight[l]] = [l \in lines \ {s} |-> l.freight]
    OBVIOUS
  <2> QED
    BY <2>1 DEF FeesOf, FreightOf
<1> HIDE DEF fees, freight
<1>4. ASSUME NEW s \in lines
      PROVE  /\ FeesOf(lines \ {s}) \in Nat /\ FreightOf(lines \ {s}) \in Nat
             /\ FeesOf(lines) = s.fees + FeesOf(lines \ {s})
             /\ FreightOf(lines) = s.freight + FreightOf(lines \ {s})
  <2>1. /\ Total([l \in lines \ {s} |-> fees[l]]) \in Nat
        /\ Total(fees) = fees[s] + Total([l \in lines \ {s} |-> fees[l]])
    BY <1>1, <1>2, TotalSplits
  <2>2. /\ Total([l \in lines \ {s} |-> freight[l]]) \in Nat
        /\ Total(freight) = freight[s] + Total([l \in lines \ {s} |-> freight[l]])
    BY <1>1, <1>2, TotalSplits
  <2> QED
    BY <1>2, <1>3, <2>1, <2>2
<1>5. ASSUME NEW cents, DOMAIN cents = lines, \A l \in lines : cents[l] \in Nat
      PROVE  Total(cents) \in Nat /\ (lines = {} => Total(cents) = 0)
  <2>1. PICK f : Sums(cents, f) /\ Total(cents) = f[lines]
    BY <1>1, <1>5, TotalIsSum
  <2> QED
    BY <1>5, <2>1 DEF Sums
<1> QED
  BY <1>1, <1>2, <1>4, <1>5

\* What is said of an offer that was made.
LEMMA OfferFollows ==
    ASSUME NEW o, Made(o)
    PROVE  LET extra == FeesOf(Unselected(o)) + FreightOf(Unselected(o))
               gap == Billed(o) - Compared(o) - extra
               stray == ComparedUnit(o) * o.quantity - Compared(o)
           IN  /\ -o.quantity <= 2 * gap /\ 2 * gap <= o.quantity
               /\ -o.quantity <= stray /\ stray <= o.quantity
               /\ \A s \in Lines : o.lines = {s} => extra = 0
<1>1. IsLadder(o.lines) /\ Selected(o) \in o.lines
  BY SelectedIs DEF Made, Selected
<1> DEFINE s == Selected(o)
           q == o.quantity
           d == o.dutyBps
           rest == o.lines \ {s}
           extra == FeesOf(Unselected(o)) + FreightOf(Unselected(o))
<1>3. Selected(o) = s
  OBVIOUS
<1>4. /\ q \in Nat /\ q > 0 /\ d \in Nat
      /\ s.unit \in Nat /\ s.fees \in Nat /\ s.freight \in Nat
  BY <1>1 DEF Made, IsLadder, Lines
<1>5. o.unit = s.unit /\ o.fees = FeesOf(o.lines) /\ o.freight = FreightOf(o.lines)
  BY DEF Made
<1>6. Unselected(o) = rest
  BY DEF Unselected
<1>7. /\ extra \in Nat /\ o.fees + o.freight = s.fees + s.freight + extra
      /\ o.fees \in Nat /\ o.freight \in Nat
  <2>1. /\ FeesOf(rest) \in Nat /\ FreightOf(rest) \in Nat
        /\ o.fees = s.fees + FeesOf(rest) /\ o.freight = s.freight + FreightOf(rest)
        /\ o.fees \in Nat /\ o.freight \in Nat
    BY <1>1, <1>5, LadderSums
  <2>2. extra = FeesOf(rest) + FreightOf(rest)
    BY <1>6
  <2> DEFINE a == FeesOf(rest)
             b == FreightOf(rest)
             sf == s.fees
             sg == s.freight
  <2>3. /\ a \in Nat /\ b \in Nat /\ sf \in Nat /\ sg \in Nat
        /\ o.fees = sf + a /\ o.freight = sg + b /\ extra = a + b
    BY <1>4, <2>1, <2>2
  <2> HIDE DEF a, b, sf, sg, extra
  <2>4. extra \in Nat /\ o.fees + o.freight = sf + sg + extra
    BY <2>3
  <2> QED
    BY <2>1, <2>4 DEF sf, sg
<1>8. o.fees \in Nat /\ o.freight \in Nat
  BY <1>7
<1> HIDE DEF extra, s, rest
<1> DEFINE x == s.unit * d
<1>9. x \in Nat /\ (s.unit * q) * d = x * q
  BY <1>4
<1>10. Billed(o) = s.unit * q + o.fees + o.freight + Rounded(x * q, 10000)
  <2>1. Billed(o) = s.unit * q + o.fees + o.freight + Rounded((s.unit * q) * d, 10000)
    BY <1>5 DEF Billed
  <2> HIDE DEF x
  <2> QED
    BY <1>9, <2>1
<1>11. Compared(o) = s.unit * q + s.fees + s.freight + Rounded(x, 10000) * q
  BY <1>3 DEF Compared, totalCents, dutyPerUnit
<1> HIDE DEF x, q, d
<1> DEFINE gap == Rounded(x * q, 10000) - Rounded(x, 10000) * q
<1>12. gap \in Int /\ -q <= 2 * gap /\ 2 * gap <= q
  <2>1. x \in Nat
    BY <1>9
  <2>2. q \in Nat /\ q > 0
    BY <1>4
  <2> QED
    BY <2>1, <2>2, DutyStrays
<1>13. Billed(o) - Compared(o) - extra = gap
  <2> DEFINE all == Rounded(x * q, 10000)
             one == Rounded(x, 10000) * q
             sub == s.unit * q
  <2>1. sub \in Nat
    BY <1>4
  <2>2. all \in Nat /\ one \in Nat
    <3>0. x * q \in Nat
      BY <1>4, <1>9
    <3>1. Rounded(x, 10000) \in Nat
      BY <1>9, RoundedIsNear
    <3>2. one \in Nat
      BY <1>4, <3>1
    <3>3. all \in Nat
      BY <3>0, RoundedIsNear
    <3> QED
      BY <3>2, <3>3
  <2>3. Billed(o) = sub + o.fees + o.freight + all /\ Compared(o) = sub + s.fees + s.freight + one
    BY <1>10, <1>11
  <2>4. gap = all - one
    OBVIOUS
  <2> HIDE DEF all, one, sub, gap
  <2> QED
    <3> DEFINE f == o.fees
               g == o.freight
               sf == s.fees
               sg == s.freight
    <3>1. /\ sub \in Nat /\ all \in Nat /\ one \in Nat /\ f \in Nat /\ g \in Nat
          /\ sf \in Nat /\ sg \in Nat /\ extra \in Nat
      BY <1>4, <1>7, <1>8, <2>1, <2>2
    <3>2. f + g = sf + sg + extra
      BY <1>7
    <3>3. Billed(o) = sub + f + g + all /\ Compared(o) = sub + sf + sg + one
      BY <2>3
    <3> HIDE DEF f, g, sf, sg
    <3>4. (sub + f + g + all) - (sub + sf + sg + one) - extra = all - one
      BY <3>1, <3>2
    <3> QED
      BY <2>4, <3>3, <3>4
<1> HIDE DEF gap
<1>14. LET stray == ComparedUnit(o) * q - Compared(o) IN -q <= stray /\ stray <= q
  <2>1. /\ ComparedUnit(o) = unitLandedCents(s.unit, q, s.fees, s.freight, d)
        /\ Compared(o) = totalCents(s.unit, q, s.fees, s.freight, d)
    BY <1>3 DEF ComparedUnit, Compared, q, d
  <2> QED
    BY <1>4, <2>1, UnitStrays
<1>15. \A only \in Lines : o.lines = {only} => extra = 0
  <2> SUFFICES ASSUME NEW only \in Lines, o.lines = {only} PROVE extra = 0
    OBVIOUS
  <2>1. Unselected(o) = {} /\ IsLadder({})
    BY <1>1, <1>6, FS_EmptySet DEF rest, s, IsLadder
  <2>2. extra = 0 + 0
    BY <2>1, LadderSums DEF extra
  <2> QED
    BY <2>2
<1> QED
  BY <1>12, <1>13, <1>14, <1>15 DEF extra, q

\* A ladder that a supplier writes.
LEMMA LadderIs ==
    ASSUME NEW lines \in Ladders
    PROVE  IsLadder(lines)
<1>1. lines \subseteq Steps /\ Steps \subseteq Lines /\ IsFiniteSet(Steps)
  BY PricesAssumption DEF Ladders, Lines
<1>2. lines \in SUBSET Steps
  BY <1>1
<1>3. IsFiniteSet(lines)
  BY <1>1, <1>2, FS_Subset
<1> QED
  BY <1>1, <1>3 DEF IsLadder

LEMMA PricingInductive == PricingIInv /\ [PricingNext]_priceVars => PricingIInv'
<1> SUFFICES ASSUME PricingIInv, [PricingNext]_priceVars PROVE PricingIInv'
  OBVIOUS
<1>1. CASE submit
  <2>1. PICK lines \in Ladders, quantity \in Quantities, duty \in DutyRates :
          /\ Priced(lines, quantity)
          /\ offer' = [quantity |-> quantity, unit |-> selectedTier(lines, quantity).unit,
                       fees |-> FeesOf(lines), freight |-> FreightOf(lines),
                       dutyBps |-> duty, lines |-> lines]
    BY <1>1 DEF submit
  <2>2. revision' = 1
    BY <1>1 DEF submit
  <2>3. quantity \in Nat \ {0} /\ duty \in Nat
    BY QuantitiesAssumption, PricesAssumption
  <2>4. IsLadder(lines)
    BY LadderIs
  <2> DEFINE o == offer'
  <2>5. /\ o.quantity = quantity /\ o.unit = selectedTier(lines, quantity).unit
        /\ o.fees = FeesOf(lines) /\ o.freight = FreightOf(lines) /\ o.dutyBps = duty
        /\ o.lines = lines
        /\ o = [quantity |-> o.quantity, unit |-> o.unit, fees |-> o.fees, freight |-> o.freight,
                dutyBps |-> o.dutyBps, lines |-> o.lines]
    BY <2>1
  <2> HIDE DEF o
  <2>6. Made(o)
    BY <2>1, <2>3, <2>4, <2>5 DEF Made, Selected
  <2> QED
    BY <2>2, <2>6 DEF PricingIInv, o
<1>2. CASE counterQuote
  <2>1. revision \in Nat /\ revision > 0 /\ Made(offer) /\ revision' = revision + 1
    BY <1>2 DEF counterQuote, PricingIInv
  <2>2. PICK quantity \in Quantities \cup {offer.quantity}, unit \in Units \cup {offer.unit},
             fees \in Fees \cup {offer.fees}, freight \in Freights \cup {offer.freight},
             duty \in DutyRates \cup {offer.dutyBps} :
          offer' = [quantity |-> quantity, unit |-> unit, fees |-> fees,
                    freight |-> freight, dutyBps |-> duty,
                    lines |-> {[minQty |-> quantity, unit |-> unit, fees |-> fees,
                                freight |-> freight]}]
    BY <1>2 DEF counterQuote
  <2>3. /\ offer.quantity \in Nat \ {0} /\ offer.dutyBps \in Nat /\ offer.unit \in Nat
        /\ offer.fees \in Nat /\ offer.freight \in Nat
    <3>1. IsLadder(offer.lines) /\ Selected(offer) \in offer.lines
      BY <2>1, SelectedIs DEF Made, Selected
    <3>2. Selected(offer).unit \in Nat
      BY <3>1 DEF IsLadder, Lines
    <3>3. FeesOf(offer.lines) \in Nat /\ FreightOf(offer.lines) \in Nat
      BY <3>1, LadderSums
    <3> QED
      BY <2>1, <3>2, <3>3 DEF Made
  <2>4. quantity \in Nat \ {0} /\ unit \in Nat /\ fees \in Nat /\ freight \in Nat /\ duty \in Nat
    BY <2>3, QuantitiesAssumption, PricesAssumption
  <2> DEFINE s == [minQty |-> quantity, unit |-> unit, fees |-> fees, freight |-> freight]
             o == offer'
  <2>5. /\ s \in Lines /\ s.minQty = quantity /\ s.unit = unit /\ s.fees = fees
        /\ s.freight = freight
    BY <2>3, <2>4 DEF Lines
  <2>6. /\ o.quantity = quantity /\ o.unit = unit /\ o.fees = fees /\ o.freight = freight
        /\ o.dutyBps = duty /\ o.lines = {s}
        /\ o = [quantity |-> o.quantity, unit |-> o.unit, fees |-> o.fees, freight |-> o.freight,
                dutyBps |-> o.dutyBps, lines |-> o.lines]
    BY <2>2
  <2> HIDE DEF s, o
  <2>7. IsLadder({s}) /\ Priced({s}, quantity)
    <3>1. quantity <= quantity
      BY <2>4
    <3> QED
      BY <2>5, <3>1, FS_Singleton DEF Priced, IsLadder
  <2>8. selectedTier({s}, quantity) = s
    BY <2>4, <2>5, <2>7, SelectedIs
  <2>9. FeesOf({s}) = fees /\ FreightOf({s}) = freight
    <3>1. {s} \ {s} = {} /\ IsLadder({})
      BY FS_EmptySet DEF IsLadder
    <3>2. FeesOf({}) = 0 /\ FreightOf({}) = 0
      BY <3>1, LadderSums
    <3>3. FeesOf({s}) = s.fees + 0 /\ FreightOf({s}) = s.freight + 0
      BY <2>7, <3>1, <3>2, LadderSums
    <3> QED
      BY <2>3, <2>4, <2>5, <3>3
  <2>10. Made(o)
    BY <2>4, <2>5, <2>6, <2>7, <2>8, <2>9 DEF Made, Selected
  <2> QED
    BY <2>1, <2>5, <2>6, <2>10 DEF PricingIInv, o
<1>3. CASE acceptQuote
  BY <1>3 DEF acceptQuote, PricingIInv
<1>4. CASE UNCHANGED priceVars
  BY <1>4 DEF priceVars, PricingIInv
<1> QED
  BY <1>1, <1>2, <1>3, <1>4 DEF PricingNext

LEMMA PricingImplies == PricingIInv => BillFollowsComparison
<1> SUFFICES ASSUME PricingIInv, revision > 0
             PROVE  LET o == offer
                        extra == FeesOf(Unselected(o)) + FreightOf(Unselected(o))
                        gap == Billed(o) - Compared(o) - extra
                        stray == ComparedUnit(o) * o.quantity - Compared(o)
                    IN  /\ Priced(o.lines, o.quantity) /\ Selected(o).unit = o.unit
                        /\ -o.quantity <= 2 * gap /\ 2 * gap <= o.quantity
                        /\ -o.quantity <= stray /\ stray <= o.quantity
                        /\ revision > 1 => extra = 0
  BY DEF BillFollowsComparison
<1>1. Made(offer) /\ (revision > 1 => \E s \in Lines : offer.lines = {s})
  BY DEF PricingIInv
<1>2. Priced(offer.lines, offer.quantity) /\ Selected(offer).unit = offer.unit
  BY <1>1 DEF Made
<1> QED
  BY <1>1, <1>2, OfferFollows

\* cart-repository.ts:132 and landed-cost.ts:129, for any ladders, prices, duties and number of counter-offers: the price a piece strays
\* from the total compared by no more than a cent a piece, and the order bills
\* that total to within half a cent of duty a piece, plus the fees and freight
\* of the steps the quantity is not on.
THEOREM BillsFollow == PricingSpec => []BillFollowsComparison
<1>1. PricingInit => PricingIInv
  BY DEF PricingInit, PricingIInv
<1> QED
  BY <1>1, PricingInductive, PricingImplies, PTL DEF PricingSpec

=============================================================================
