----------------------------- MODULE Directory ------------------------------
(***************************************************************************)
(* The public supplier directory of packages/db/src/discovery: how a row   *)
(* of the source file gets its slug and its categories, and how a run of   *)
(* the import lands the rows, batch by batch, under those slugs.           *)
(*                                                                         *)
(* The slug is the only key: the source's own ids are not kept, so which   *)
(* record a row updates depends on the rows above it in the file.  Runs    *)
(* may stop between two batches and may cross each other.                  *)
(***************************************************************************)
EXTENDS Integers, FiniteSets, SequencesExt

CONSTANTS
    SourceFiles,    \* files somebody imports: sequences of records
    DiscoveryWords, \* the taxonomy in card order: the keywords of each category
    Ordinal,        \* how a number is written: a text for each
    BatchSize,      \* 250 in the source
    FeedRuns,       \* runs of the import that may be under way at once
    GridSize,       \* suppliers on a page of a category: 24
    Blank           \* an empty cell

Name == [rank : Int, text : STRING, base : Seq(STRING)]
SourceRecord ==
    [company : Name \cup {Blank}, dba : Name \cup {Blank}, place : Name \cup {Blank},
     state : STRING \cup {Blank}, tier : Int, types : Seq(STRING),
     words : [specialty : SUBSET STRING, products : SUBSET STRING, description : SUBSET STRING]]

ASSUME BatchAssumption == {BatchSize, GridSize} \subseteq Nat \ {0}
ASSUME TaxonomyAssumption ==
    /\ Len(DiscoveryWords) \in Nat \ {0} /\ DOMAIN DiscoveryWords = 1..Len(DiscoveryWords)
    /\ \A c \in DOMAIN DiscoveryWords : IsFiniteSet(DiscoveryWords[c])
    /\ DiscoveryWords[Len(DiscoveryWords)] = {}
ASSUME FilesAssumption == SourceFiles \subseteq Seq(SourceRecord) /\ Blank \notin STRING
\* Two numbers are two texts, and there are as many as a file may ask for.
ASSUME OrdinalAssumption ==
    /\ \A n \in DOMAIN Ordinal : Ordinal[n] \in STRING
    /\ \A m, n \in DOMAIN Ordinal : Ordinal[m] = Ordinal[n] => m = n
    /\ \A file \in SourceFiles : 2..(Len(file) + 1) \subseteq DOMAIN Ordinal

VARIABLES
    directory,  \* PlatformSupplier rows by slug
    feed,       \* per run, the rows read and how many of them are committed
    report      \* what the last run said, while no other has started since

directoryVars == <<directory, feed, report>>

NoFeed == [stage |-> "IDLE"]

-----------------------------------------------------------------------------
(* Classification *)

Categories == DOMAIN DiscoveryWords
otherGeneral == Len(DiscoveryWords)
FieldWeights == [specialty |-> 3, products |-> 2, supplierType |-> 2, description |-> 1]

\* A keyword counts once in each field that has it.
Hits(c, words) == Cardinality(DiscoveryWords[c] \cap words)

categoryScore(record, c) ==
    FieldWeights.specialty * Hits(c, record.words.specialty)
      + FieldWeights.products * Hits(c, record.words.products)
      + FieldWeights.supplierType * Hits(c, ToSet(record.types))
      + FieldWeights.description * Hits(c, record.words.description)

\* The best score first, in card order among equals.
RankedBefore(record, a, b) ==
    \/ categoryScore(record, a) > categoryScore(record, b)
    \/ categoryScore(record, a) = categoryScore(record, b) /\ a < b

topOf(record, categories) ==
    CHOOSE c \in categories : \A other \in categories : ~RankedBefore(record, other, c)

primaryCategory(record) ==
    LET top == topOf(record, Categories)
    IN  IF categoryScore(record, top) > 0 THEN top ELSE otherGeneral

\* The primary category, then up to two others that score at least 2.
classifySupplier(record) ==
    LET others == {c \in Categories \ {primaryCategory(record)} : categoryScore(record, c) >= 2}
        second == topOf(record, others)
        third == topOf(record, others \ {second})
    IN  CASE others = {} -> <<primaryCategory(record)>>
          [] others # {} /\ others = {second} -> <<primaryCategory(record), second>>
          [] OTHER -> <<primaryCategory(record), second, third>>

-----------------------------------------------------------------------------
(* Rows and their slugs *)

\* The parts a name's slug is joined from.
Base(name) == IF name.base = <<>> THEN <<"supplier">> ELSE name.base

\* The name, then the name with its state, then the name with an ordinal.
supplierSlug(name, state, taken) ==
    LET byOrdinal(n) == Append(Base(name), Ordinal[n])
        free == {n \in 2..(Cardinality(taken) + 2) : byOrdinal(n) \notin taken}
    IN  CASE Base(name) \notin taken -> Base(name)
          [] Base(name) \in taken /\ state # Blank /\ Append(Base(name), state) \notin taken ->
               Append(Base(name), state)
          [] OTHER -> byOrdinal(CHOOSE n \in free : \A m \in free : n <= m)

\* The name of a record without one is its DBA, and without both its place.
NameOf(record) ==
    CASE record.company # Blank -> record.company
      [] record.company = Blank /\ record.dba # Blank -> record.dba
      [] OTHER -> record.place

\* A list without what it has already.
splitList(values) ==
    LET kept[n \in 0..Len(values)] ==
          CASE n = 0 -> <<>>
            [] n > 0 /\ values[n] \in ToSet(kept[n - 1]) -> kept[n - 1]
            [] OTHER -> Append(kept[n - 1], values[n])
    IN  kept[Len(values)]

RowOf(record, slug) ==
    [slug |-> slug, name |-> NameOf(record), dba |-> IF NameOf(record) = record.dba THEN Blank ELSE record.dba,
     tier |-> record.tier, supplierTypes |-> splitList(record.types),
     categorySlugs |-> classifySupplier(record)]

SlugsOf(rows) == {rows[i].slug : i \in DOMAIN rows}

\* Row by row in file order; a record nothing names is reported and skipped.
readPlatformSupplierRows(file) ==
    LET rows[n \in 0..Len(file)] ==
          CASE n = 0 -> <<>>
            [] n > 0 /\ NameOf(file[n]) = Blank -> rows[n - 1]
            [] OTHER -> Append(rows[n - 1],
                               RowOf(file[n], supplierSlug(NameOf(file[n]), file[n].state,
                                                           SlugsOf(rows[n - 1]))))
    IN  rows[Len(file)]

FileRows == [file \in SourceFiles |-> readPlatformSupplierRows(file)]

-----------------------------------------------------------------------------
(* Runs of the import *)

Running == {r \in FeedRuns : feed[r] # NoFeed}

startFeed(r) ==
    /\ r \notin Running
    /\ \E file \in SourceFiles :
         feed' = [c \in FeedRuns |->
                    IF c = r THEN [stage |-> "RUNNING", file |-> file, at |-> 0,
                                   rows |-> FileRows[file],
                                   existing |-> DOMAIN directory,
                                   crossed |-> Running # {},
                                   again |-> report # Blank /\ report.file = file]
                    ELSE IF c \in Running THEN [feed[c] EXCEPT !.crossed = TRUE] ELSE feed[c]]
    /\ report' = Blank
    /\ UNCHANGED directory

\* Mutant of Upserted: a record that is there is left alone.
InsertedOnly(rows) ==
    [slug \in DOMAIN directory \cup SlugsOf(rows) |->
        IF slug \in DOMAIN directory THEN directory[slug]
        ELSE rows[CHOOSE i \in DOMAIN rows : rows[i].slug = slug]]

Upserted(rows) ==
    [slug \in DOMAIN directory \cup SlugsOf(rows) |->
        IF slug \in SlugsOf(rows)
        THEN rows[CHOOSE i \in DOMAIN rows : rows[i].slug = slug
                    /\ \A j \in DOMAIN rows : rows[j].slug = slug => j <= i]
        ELSE directory[slug]]

\* One transaction; after the last one the run reports what it created.
commitBatch(r) ==
    LET run == feed[r]
        to == IF run.at + BatchSize < Len(run.rows) THEN run.at + BatchSize ELSE Len(run.rows)
    IN  /\ r \in Running /\ run.at < Len(run.rows)
        /\ directory' = Upserted(SubSeq(run.rows, run.at + 1, to))
        /\ feed' = [feed EXCEPT ![r].at = to]
        /\ UNCHANGED report

finishFeed(r) ==
    LET run == feed[r]
    IN  /\ r \in Running /\ run.at = Len(run.rows)
        /\ report' = IF run.crossed THEN Blank
                     ELSE [file |-> run.file, rows |-> run.rows, again |-> run.again,
                           created |-> Cardinality(SlugsOf(run.rows) \ run.existing)]
        /\ feed' = [feed EXCEPT ![r] = NoFeed]
        /\ UNCHANGED directory

\* The process, or a transaction of it, fails: what is committed stays.
stopFeed(r) ==
    /\ r \in Running
    /\ feed' = [feed EXCEPT ![r] = NoFeed]
    /\ UNCHANGED <<directory, report>>

-----------------------------------------------------------------------------
(* Browsing *)

categoryCounts == [c \in Categories |->
    Cardinality({slug \in DOMAIN directory : directory[slug].categorySlugs[1] = c})]

\* The suppliers of a category, or those of one type among them.
Grid(c, type) ==
    {slug \in DOMAIN directory :
       /\ directory[slug].categorySlugs[1] = c
       /\ type = Blank \/ type \in ToSet(directory[slug].supplierTypes)}

\* By name and then tier, or by tier and then name.
Precedes(a, b, sort) ==
    LET Key(slug) == IF sort = "name" THEN <<directory[slug].name.rank, directory[slug].tier>>
                                      ELSE <<directory[slug].tier, directory[slug].name.rank>>
    IN  \/ Key(a)[1] < Key(b)[1]
        \/ Key(a)[1] = Key(b)[1] /\ Key(a)[2] < Key(b)[2]

\* The pages a supplier may be found on: rows that tie come in any order, and
\* in another one for the next page.
listByCategory(slug, grid, sort) ==
    LET before == Cardinality({other \in grid : Precedes(other, slug, sort)})
        after == Cardinality({other \in grid : Precedes(slug, other, sort)})
    IN  {1 + (place \div GridSize) : place \in before..(Cardinality(grid) - 1 - after)}

\* UNNEST: one row per element of a supplier's list, then counted by type.
unnested(c) ==
    UNION {{slug} \X DOMAIN directory[slug].supplierTypes : slug \in Grid(c, Blank)}

TypeAt(t) == directory[t[1]].supplierTypes[t[2]]

facetTypes(c) ==
    [type \in {TypeAt(t) : t \in unnested(c)} |-> Cardinality({t \in unnested(c) : TypeAt(t) = type})]

-----------------------------------------------------------------------------

DirectoryInit ==
    /\ directory = [slug \in {} |-> Blank]
    /\ feed = [r \in FeedRuns |-> NoFeed]
    /\ report = Blank

DirectoryNext ==
    \E r \in FeedRuns : startFeed(r) \/ commitBatch(r) \/ finishFeed(r) \/ stopFeed(r)

DirectorySpec == DirectoryInit /\ [][DirectoryNext]_directoryVars

-----------------------------------------------------------------------------
(* Properties *)

\* The counts of the home page, summed up card by card.
CountedUpTo[c \in 0..Len(DiscoveryWords)] ==
    IF c = 0 THEN 0 ELSE CountedUpTo[c - 1] + categoryCounts[c]

\* Each record counts in distinct categories, three at most, and no category
\* left out scores better than one that is in, nor well enough to be a fourth
\* while there was room.
BestCategories(record) ==
    LET slugs == classifySupplier(record)
    IN  /\ Cardinality(ToSet(slugs)) = Len(slugs) /\ Len(slugs) \in 1..3
        /\ \A c \in Categories \ ToSet(slugs) :
             /\ \A k \in DOMAIN slugs : categoryScore(record, c) <= categoryScore(record, slugs[k])
             /\ categoryScore(record, c) >= 2 => Len(slugs) = 3

\* The slugs of a file are distinct, its categories the best, and a file that
\* only appends to another keeps the rows above.
FileIsRead(file, rows) ==
    /\ Cardinality(SlugsOf(rows)) = Len(rows)
    /\ \A i \in DOMAIN file : BestCategories(file[i])
    /\ \A longer \in SourceFiles : IsPrefix(file, longer) => IsPrefix(rows, FileRows[longer])

\* What a category page says of itself: the number on each chip is that of the
\* suppliers behind it, and each supplier is on one of its pages, on one only
\* when no other ties with it.
GridsAddUp(c) ==
    /\ \A type \in DOMAIN facetTypes(c) : facetTypes(c)[type] = Cardinality(Grid(c, type))
    /\ \A sort \in {"tier", "name"} : \A slug \in Grid(c, Blank) :
         LET grid == Grid(c, Blank)
             ties == {other \in grid \ {slug} : ~Precedes(other, slug, sort) /\ ~Precedes(slug, other, sort)}
             pages == listByCategory(slug, grid, sort)
         IN  /\ pages # {} /\ pages \subseteq 1..((Cardinality(grid) + GridSize - 1) \div GridSize)
             /\ ties = {} => Cardinality(pages) = 1

\* discovery/import.ts:4: "Re-running never duplicates".  Whatever earlier runs
\* left, stopped or crossed, a run that nothing crossed leaves every record of
\* its file in the directory, each under a slug of its own, and when the same
\* file is imported again it creates none; records appended to a file change
\* the slug of none above them.  Every record counts in one primary category,
\* whose page adds up.  How a file is read does not depend on the directory, so
\* it is looked at where a run starts on an empty one.
DirectoryHoldsTheFile ==
    /\ report # Blank =>
         /\ \A i \in DOMAIN report.rows :
              LET row == report.rows[i]
              IN  row.slug \in DOMAIN directory /\ directory[row.slug] = row
         /\ report.again => report.created = 0
    /\ \A r \in Running :
         feed[r].at = 0 /\ feed[r].existing = {} => FileIsRead(feed[r].file, feed[r].rows)
    /\ directory # [slug \in {} |-> Blank] =>
         /\ CountedUpTo[Len(DiscoveryWords)] = Cardinality(DOMAIN directory)
         /\ \A c \in Categories : GridsAddUp(c)
=============================================================================
