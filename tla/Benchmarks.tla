----------------------------- MODULE Benchmarks -----------------------------
(***************************************************************************)
(* Price and lead-time benchmarks (packages/benchmarks): what the market   *)
(* pays and waits, by category, quantity band and material, in groups of   *)
(* at least K_ANONYMITY_MIN samples.                                       *)
(*                                                                         *)
(* Prices are a table that a refresh writes anew.  It reads the listings   *)
(* outside its transaction, deletes the rows it sees and creates its own:  *)
(* two refreshes may cross between these steps.  Lead times have no table, *)
(* they are read from the orders each time.                                *)
(***************************************************************************)
EXTENDS Integers, FiniteSets

CONSTANTS
    Offers,          \* listings: a category, a material, price tiers
    Purchases,       \* orders made from a quote, with what their RFQ asked for
    QTY_BANDS,       \* bands of quantities, each with its key
    K_ANONYMITY_MIN,
    Refreshes,       \* runs of the refresh
    MaxChanges,      \* bound: times the market moves
    Unset

ASSUME OffersAssumption ==
    /\ IsFiniteSet(Offers)
    /\ \A o \in Offers : IsFiniteSet(o.tiers) /\ \A t \in o.tiers : t.unitPriceCents \in Nat

VARIABLES
    shelf,           \* offers that are LIVE
    placed,          \* purchases that are neither DRAFT nor CANCELLED
    priceBenchmark,  \* the PriceBenchmark rows
    refreshes,       \* per run, its stage and what it has read
    changes,         \* times the shelf has changed
    overlapped       \* two runs have been under way together

benchVars == <<shelf, placed, priceBenchmark, refreshes, changes, overlapped>>

NotStarted == [stage |-> "WAITING", rows |-> {}, seen |-> {}, at |-> 0]

-----------------------------------------------------------------------------
(* Samples                                                                  *)

\* Bands leave no positive quantity out.
qtyBandFor(quantity) ==
    (CHOOSE b \in QTY_BANDS : b.min <= quantity /\ (b.max # Unset => quantity <= b.max)).key

\* Only a non-empty string names a material.
materialOf(material) == IF material = "" THEN Unset ELSE material

Sample(categoryId, quantity, material, value, of) ==
    [categoryId |-> categoryId, qtyBand |-> qtyBandFor(quantity), material |-> material,
     value |-> value, of |-> of]

loadPriceSamples ==
    UNION {{Sample(o.categoryId, t.minQty, o.material, t.unitPriceCents, <<o.id, t.minQty>>) :
                t \in o.tiers} :
           o \in {o \in shelf : materialOf(o.material) # Unset}}

\* The first of the names that is one.
FirstSet(first, second, otherwise) ==
    IF first # Unset THEN first ELSE IF second # Unset THEN second ELSE otherwise

CategoryOf(p) == FirstSet(p.categoryId, IF p.listing = Unset THEN Unset ELSE p.listing.categoryId, Unset)

MaterialOfPurchase(p) ==
    FirstSet(materialOf(p.spec),
             IF p.listing = Unset THEN Unset ELSE materialOf(p.listing.material), "ANY")

loadLeadTimeSamples ==
    {Sample(CategoryOf(p), p.quantity, MaterialOfPurchase(p), p.leadTimeDays, p.id) :
        p \in {p \in placed : CategoryOf(p) # Unset}}

-----------------------------------------------------------------------------
(* Groups and their quartiles                                               *)

groupSamples(samples) ==
    {{t \in samples : t.categoryId = s.categoryId /\ t.qtyBand = s.qtyBand /\ t.material = s.material} :
        s \in samples}

Least(samples) == CHOOSE s \in samples : \A t \in samples : s.value <= t.value

\* The value at rank ceil(q/4 * n) of the ascending sort, which puts the least
\* of what is left in front again and again.
nearestRankQuantile(group, q) ==
    LET n == Cardinality(group)
        left[k \in 0..n] == IF k = 0 THEN group ELSE left[k - 1] \ {Least(left[k - 1])}
    IN  Least(left[(q * n + 3) \div 4 - 1]).value

BenchmarkRow(group) ==
    LET s == CHOOSE s \in group : TRUE
    IN  [categoryId |-> s.categoryId, qtyBand |-> s.qtyBand, material |-> s.material,
         sampleCount |-> Cardinality(group),
         quartiles |-> [q \in 1 .. 3 |-> nearestRankQuantile(group, q)]]

aggregate(samples, minGroupSize) ==
    {BenchmarkRow(g) : g \in {g \in groupSamples(samples) : Cardinality(g) >= minGroupSize}}

-----------------------------------------------------------------------------
(* recomputePriceBenchmarks                                                 *)

UnderWay(j) == refreshes[j].stage \in {"LOADED", "WIPED"}

loadForRefresh(j) ==
    /\ refreshes[j].stage = "WAITING"
    /\ refreshes' = [refreshes EXCEPT ![j] =
           [stage |-> "LOADED", seen |-> {}, at |-> changes,
            rows |-> {[by |-> j, row |-> r] : r \in aggregate(loadPriceSamples, K_ANONYMITY_MIN)}]]
    /\ overlapped' = (overlapped \/ \E i \in Refreshes \ {j} : UnderWay(i))
    /\ UNCHANGED <<shelf, placed, priceBenchmark, changes>>

\* deleteMany finds the rows that are committed when it starts.
wipeForRefresh(j) ==
    /\ refreshes[j].stage = "LOADED"
    /\ refreshes' = [refreshes EXCEPT ![j].stage = "WIPED", ![j].seen = priceBenchmark]
    /\ UNCHANGED <<shelf, placed, priceBenchmark, changes, overlapped>>

GroupOf(x) == <<x.row.categoryId, x.row.qtyBand, x.row.material>>

\* Mutant of Spared: createMany without the deleteMany.
keepEverything(seen) == priceBenchmark

\* What others created since then stays.
Spared(seen) == priceBenchmark \ seen

Finishes(j, stage) ==
    /\ refreshes' = [refreshes EXCEPT ![j].stage = stage, ![j].rows = {}, ![j].seen = {}]
    /\ UNCHANGED <<shelf, placed, changes, overlapped>>

\* createMany and the commit, where no group is there twice.
commitRefresh(j) ==
    /\ refreshes[j].stage = "WIPED"
    /\ \A x \in refreshes[j].rows, y \in Spared(refreshes[j].seen) : GroupOf(x) # GroupOf(y)
    /\ priceBenchmark' = Spared(refreshes[j].seen) \cup refreshes[j].rows
    /\ Finishes(j, "DONE")

\* The unique index refuses a row, or the run is lost: the table stays.
failRefresh(j) ==
    /\ UnderWay(j)
    /\ Finishes(j, "FAILED")
    /\ UNCHANGED priceBenchmark

-----------------------------------------------------------------------------
(* The market moves                                                         *)

\* A listing is published, or paused.
turnOffer(o) ==
    /\ changes < MaxChanges
    /\ shelf' = IF o \in shelf THEN shelf \ {o} ELSE shelf \cup {o}
    /\ changes' = changes + 1
    /\ UNCHANGED <<placed, priceBenchmark, refreshes, overlapped>>

placePurchase(p) ==
    /\ p \notin placed
    /\ placed' = placed \cup {p}
    /\ UNCHANGED <<shelf, priceBenchmark, refreshes, changes, overlapped>>

-----------------------------------------------------------------------------
(* What a buyer reads: nothing in a filter means anything                    *)

Fits(x, filters) ==
    /\ filters.categoryId # Unset => x.categoryId = filters.categoryId
    /\ filters.qtyBand # Unset => x.qtyBand = filters.qtyBand
    /\ filters.material # Unset => x.material = filters.material

belowThreshold(row) == row.sampleCount < K_ANONYMITY_MIN

getPriceBenchmarks(filters) ==
    {r \in {x.row : x \in priceBenchmark} : Fits(r, filters) /\ ~belowThreshold(r)}

getLeadTimeBenchmarks(filters) ==
    aggregate({s \in loadLeadTimeSamples : Fits(s, filters)}, K_ANONYMITY_MIN)

Categorised == {o.categoryId : o \in Offers}

\* GET /api/benchmarks, for a visitor who is signed in or not.
GET(session, filters) ==
    LET refuse(status) == [status |-> status, price |-> {}, leadTime |-> {}]
    IN  CASE ~session -> refuse(401)
          [] filters.qtyBand \notin {b.key : b \in QTY_BANDS} \cup {Unset} -> refuse(400)
          [] filters.categoryId \notin Categorised \cup {Unset} -> refuse(400)
          [] OTHER -> [status |-> 200, price |-> getPriceBenchmarks(filters),
                       leadTime |-> getLeadTimeBenchmarks(filters)]

-----------------------------------------------------------------------------
BenchmarksInit ==
    /\ shelf = {} /\ placed = {} /\ priceBenchmark = {}
    /\ refreshes = [j \in Refreshes |-> NotStarted]
    /\ changes = 0 /\ overlapped = FALSE

BenchmarksNext ==
    \/ \E j \in Refreshes :
         loadForRefresh(j) \/ wipeForRefresh(j) \/ commitRefresh(j) \/ failRefresh(j)
    \/ \E o \in Offers : turnOffer(o)
    \/ \E p \in Purchases : placePurchase(p)

BenchmarksSpec == BenchmarksInit /\ [][BenchmarksNext]_benchVars

-----------------------------------------------------------------------------
(* Properties                                                               *)

\* A quartile is a sample with no more than its share below it (core.ts:45).
QuartilesAreSamples(samples) ==
    \A g \in groupSamples(samples), q \in 1 .. 3 :
        LET v == BenchmarkRow(g).quartiles[q]
            below == Cardinality({s \in g : s.value < v})
            upTo == Cardinality({s \in g : s.value <= v})
        IN  4 * below < q * Cardinality(g) /\ 4 * upTo >= q * Cardinality(g)

\* What a filter leaves is the rows it fits, of all that are published: to
\* filter samples before they are grouped uncovers no smaller group.
FiltersUncoverNothing ==
    \A c \in Categorised \cup {Unset}, b \in {b.key : b \in QTY_BANDS} \cup {Unset},
       m \in {o.material : o \in Offers} \cup {Unset} :
        LET filters == [categoryId |-> c, qtyBand |-> b, material |-> m]
            answer == GET(TRUE, filters)
        IN  /\ answer.leadTime =
                 {r \in aggregate(loadLeadTimeSamples, K_ANONYMITY_MIN) : Fits(r, filters)}
            /\ \A r \in answer.price \cup answer.leadTime : r.sampleCount >= K_ANONYMITY_MIN

OneRowPerGroup == \A x, y \in priceBenchmark : GroupOf(x) = GroupOf(y) => x = y

\* Of the runs that are done, the one that read last.
Newest(j) ==
    /\ refreshes[j].stage = "DONE"
    /\ \A i \in Refreshes : refreshes[i].stage = "DONE" => refreshes[i].at <= refreshes[j].at

\* The table is what the last run read, whole, and is true while no offer moves.
TableIsOneReading ==
    /\ \A x \in priceBenchmark : Newest(x.by)
    /\ \A x, y \in priceBenchmark : x.by = y.by \/ refreshes[x.by].at = refreshes[y.by].at
    /\ \A j \in Refreshes : Newest(j) /\ refreshes[j].at = changes =>
         {x.row : x \in priceBenchmark} = aggregate(loadPriceSamples, K_ANONYMITY_MIN)

(* store.ts:10, :34: no group under K is ever read, whatever the filter,    *)
(* and a group has one row, however refreshes cross; the table is one       *)
(* reading of the market, the newest, unless two refreshes overlapped.      *)
BenchmarksAreSound ==
    /\ QuartilesAreSamples(loadPriceSamples)
    /\ FiltersUncoverNothing
    /\ OneRowPerGroup
    /\ overlapped \/ TableIsOneReading

=============================================================================
