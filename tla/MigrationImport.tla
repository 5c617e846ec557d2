-------------------------- MODULE MigrationImport ---------------------------
(***************************************************************************)
(* The migration importer of packages/db/src/importer: it reads a file of  *)
(* suppliers, merges the rows that name one company, and writes the rest   *)
(* as organizations with an unverified profile, in one transaction that a  *)
(* second look follows.  Staff may verify a profile in between, and        *)
(* imports may cross.                                                      *)
(*                                                                         *)
(* A record of a file is a sequence of cells.  A cell is what it holds:    *)
(* a name or a city is its words, a domain its host and whether it came    *)
(* with a www, a phone number its country code and its last ten digits.    *)
(* The score of two names is the instance's: Jaro-Winkler is left out.     *)
(***************************************************************************)
EXTENDS Integers, Sequences, FiniteSets, FiniteSetsExt

CONSTANTS
    ImportFiles,    \* files somebody imports: sequences of records
    NameSimilarity, \* of two normalized names, in percent
    NameSuffixes,   \* legal forms: inc, llc, co, ...
    Taxonomy,       \* category slugs the platform knows
    Numeral,        \* how a line number is written
    UpperCase,      \* of a certification, as a row keeps it
    IdOf,           \* of one kept: letters and digits, dashes between them
    Malformed,      \* cells that the pattern of their column refuses
    Importers,      \* calls that may be under way at once
    NoCell          \* an empty cell

ASSUME ImportFilesAssumption == \A file \in ImportFiles : Len(file) \in Nat

VARIABLES
    organization,   \* Organization rows with their profile and capabilities
    importing       \* per call: idle, or the file it reads and how it went

importVars == <<organization, importing>>

NotImporting == [stage |-> "IDLE"]

-----------------------------------------------------------------------------
(* Reading rows *)

\* column-contract.ts: what each column holds.
IMPORT_COLUMNS ==
    [name |-> "string", city |-> "string", state |-> "string", country |-> "country",
     email |-> "email", phone |-> "phone", domain |-> "domain",
     categories |-> "stringList", certifications |-> "stringList", about |-> "string"]

REQUIRED_COLUMN_NAMES == {"name", "city"}

\* Blank records are dropped before anything is counted, so that a line number
\* counts the records that hold something: the first of them is the header.
NonEmpty(file) == {i \in 1..Len(file) : \E c \in DOMAIN file[i] : file[i][c] # NoCell}
LineOf(file, i) == Cardinality({j \in NonEmpty(file) : j <= i})
Header(file) == file[CHOOSE i \in NonEmpty(file) : LineOf(file, i) = 1]

ColumnNames(file) == {Header(file)[c] : c \in DOMAIN Header(file)} \ {NoCell}

validateHeader(file) ==
    /\ NonEmpty(file) # {}
    /\ REQUIRED_COLUMN_NAMES \subseteq ColumnNames(file)
    /\ ColumnNames(file) \subseteq DOMAIN IMPORT_COLUMNS

\* A column that is named twice is read where it is named last; a short record
\* has no cells there.
Get(file, i, column) ==
    LET at == {c \in DOMAIN Header(file) : Header(file)[c] = column}
    IN  IF at # {} /\ Max(at) \in DOMAIN file[i] THEN file[i][Max(at)] ELSE NoCell

validateTyped(type, cell) == type \in {"string", "stringList"} \/ cell \notin Malformed

\* A row without a name or a city, or with a cell its type refuses, is skipped.
ValidRows(file) ==
    {i \in NonEmpty(file) :
        /\ LineOf(file, i) > 1
        /\ \A column \in DOMAIN IMPORT_COLUMNS :
             validateTyped(IMPORT_COLUMNS[column], Get(file, i, column))
        /\ \A column \in REQUIRED_COLUMN_NAMES : Get(file, i, column) # NoCell}

importList(cell) == IF cell = NoCell THEN {} ELSE cell

\* An unknown category is dropped with a warning.  Certifications are told apart
\* as they are written, and put into upper case after that.
ImportRow(file, i) ==
    LET claimed == importList(Get(file, i, "certifications")) IN
    [line |-> LineOf(file, i), name |-> Get(file, i, "name"), city |-> Get(file, i, "city"),
     domain |-> Get(file, i, "domain"), phone |-> Get(file, i, "phone"),
     email |-> Get(file, i, "email"), about |-> Get(file, i, "about"),
     categories |-> importList(Get(file, i, "categories")) \cap Taxonomy,
     certifications |-> {UpperCase[cert] : cert \in claimed},
     repeated |-> \E a, b \in claimed : a # b /\ UpperCase[a] = UpperCase[b]]

readImportRows ==
    [file \in {f \in ImportFiles : validateHeader(f)} |->
        {ImportRow(file, i) : i \in ValidRows(file)}]

-----------------------------------------------------------------------------
(* Deduplication.  Scores are in ten-thousandths. *)

\* One legal form at the end is dropped: the second of two stays.
normalizeCompanyName(name) ==
    IF name # <<>> /\ name[Len(name)] \in NameSuffixes THEN SubSeq(name, 1, Len(name) - 1) ELSE name

\* A city may have no words at all.
normalizeCity(city) == IF city = <<>> THEN NoCell ELSE city

normalizeDomain(domain) == IF domain = NoCell THEN NoCell ELSE domain.host
normalizePhone(phone) == IF phone = NoCell THEN NoCell ELSE phone.last10

fingerprintRow(row) ==
    [name |-> normalizeCompanyName(row.name), city |-> normalizeCity(row.city),
     domain |-> normalizeDomain(row.domain), phone |-> normalizePhone(row.phone)]

Same(a, b) == a # NoCell /\ a = b

\* The first of the blocks two rows share: the order candidates are looked at.
Block(a, b) ==
    CASE Same(a.city, b.city) -> 1
      [] ~Same(a.city, b.city) /\ Same(a.domain, b.domain) -> 2
      [] ~Same(a.city, b.city) /\ ~Same(a.domain, b.domain) /\ Same(a.phone, b.phone) -> 3
      [] OTHER -> 0

similarity(a, b) == NameSimilarity[{a.name, b.name}]

ASSUME SimilarityAssumption ==
    \A file \in ImportFiles : validateHeader(file) =>
        \A n, k \in ValidRows(file) :
            similarity(fingerprintRow(ImportRow(file, n)), fingerprintRow(ImportRow(file, k))) \in 0..100

scorePair(a, b) ==
    60 * similarity(a, b) + (IF Same(a.city, b.city) THEN 1500 ELSE 0)
    + (IF Same(a.domain, b.domain) THEN 1500 ELSE 0) + (IF Same(a.phone, b.phone) THEN 1000 ELSE 0)

decideDedup(a, b) ==
    CASE scorePair(a, b) >= 8500 /\ similarity(a, b) >= 85 -> "MERGE"
      [] ~(scorePair(a, b) >= 8500 /\ similarity(a, b) >= 85) /\ scorePair(a, b) >= 7000 -> "REVIEW"
      [] OTHER -> "NEW"

\* The accepted rows are kept by the place of their record in the file.  Best is
\* the one that scores best, the first one looked at among equals.
Best(row, accepted) ==
    LET print == fingerprintRow(row)
        of == [i \in DOMAIN accepted |-> fingerprintRow(accepted[i])]
        near == {i \in DOMAIN accepted : Block(print, of[i]) # 0}
        first(i, j) == \/ Block(print, of[i]) < Block(print, of[j])
                       \/ Block(print, of[i]) = Block(print, of[j]) /\ i <= j
    IN  IF near = {} THEN 0
        ELSE CHOOSE i \in near : \A j \in near :
               \/ scorePair(print, of[i]) > scorePair(print, of[j])
               \/ scorePair(print, of[i]) = scorePair(print, of[j]) /\ first(i, j)

kindOf(row, accepted, best) ==
    IF best = 0 THEN "NEW" ELSE decideDedup(fingerprintRow(row), fingerprintRow(accepted[best]))

backfillCanonical(row, duplicate) ==
    [row EXCEPT !.email = IF @ = NoCell THEN duplicate.email ELSE @,
                !.about = IF @ = NoCell THEN duplicate.about ELSE @,
                !.categories = @ \cup duplicate.categories,
                !.certifications = @ \cup duplicate.certifications]

Decision(kind, row, into) == [decision |-> kind, line |-> row.line, into |-> into]

Accepting(accepted, n, row) ==
    [i \in DOMAIN accepted \cup {n} |-> IF i = n THEN row ELSE accepted[i]]

Merging(done, row, best) ==
    [accepted |-> [done.accepted EXCEPT ![best] = backfillCanonical(@, row)],
     decisions |-> done.decisions \cup {Decision("MERGE", row, done.accepted[best].line)}]

\* A merged row lends its cells to its canonical row and is a target no more;
\* an ambiguous one is accepted and reported.
decided(done, n, row, best) ==
    LET kind == kindOf(row, done.accepted, best)
    IN  IF kind = "MERGE" THEN Merging(done, row, best)
        ELSE [accepted |-> Accepting(done.accepted, n, row),
              decisions |-> done.decisions \cup
                (IF kind = "REVIEW" THEN {Decision(kind, row, NoCell)} ELSE {})]

\* Mutant of dedupRow: a merged row is still accepted.
dedupRowKept(done, n, row) ==
    LET after == decided(done, n, row, Best(row, done.accepted))
    IN  [after EXCEPT !.accepted = Accepting(@, n, row)]

dedupRow(done, n, row) == decided(done, n, row, Best(row, done.accepted))

NothingRead == [accepted |-> [i \in {} |-> NoCell], decisions |-> {}]

\* In the order of the file.
dedup(file) ==
    LET done[n \in 0..Len(file)] ==
          IF n = 0 THEN NothingRead
          ELSE IF n \in ValidRows(file) THEN dedupRow(done[n - 1], n, ImportRow(file, n))
          ELSE done[n - 1]
    IN  done[Len(file)]

-----------------------------------------------------------------------------
(* Writing *)

\* The words of name and city, with the line too when an earlier row has them.
\* When that is taken as well the loop asks for the same slug again, for ever.
SlugOf(row, used) ==
    LET base == row.name \o row.city
        withLine == Append(base, Numeral[row.line])
    IN  IF base \notin used THEN base ELSE IF withLine \notin used THEN withLine ELSE NoCell

OrgRow(row, slug) ==
    [line |-> row.line, slug |-> slug, email |-> row.email, status |-> "UNVERIFIED",
     audited |-> FALSE, capabilities |-> row.categories \cup row.certifications]

Slugs(orgs) == {o.slug : o \in orgs}

orgRows(accepted, size) ==
    LET made[n \in 0..size] ==
          IF n = 0 THEN {}
          ELSE IF n \in DOMAIN accepted
            THEN made[n - 1] \cup {OrgRow(accepted[n], SlugOf(accepted[n], Slugs(made[n - 1])))}
          ELSE made[n - 1]
    IN  made[size]

\* Two capabilities of one profile with one name, or with one id, are refused.
\* The rows merged into one add none that it has.
Clashes(row) ==
    row.repeated \/ \E a, b \in row.certifications : a # b /\ IdOf[a] = IdOf[b]

\* Of each file, the organizations it makes, whether the database takes their
\* capabilities, and the decisions it reports.
Plans ==
    [file \in {f \in ImportFiles : validateHeader(f)} |->
        LET done == dedup(file) IN
        [orgs |-> orgRows(done.accepted, Len(file)),
         unique |-> \A i \in DOMAIN done.accepted : ~Clashes(done.accepted[i]),
         decisions |-> done.decisions]]

\* A header that breaks the contract ends the call before anything is read.
Start(i) ==
    /\ importing[i].stage \notin {"READ", "CHECK"}
    /\ \E file \in ImportFiles :
         importing' = [importing EXCEPT ![i] =
           [stage |-> IF ~validateHeader(file) THEN "REFUSED"
                      ELSE IF NoCell \in Slugs(Plans[file].orgs) THEN "LOOPING" ELSE "READ",
            file |-> file]]
    /\ UNCHANGED organization

\* Ids are made of line numbers, so any file imported before, and not only
\* this one, is in the way: the transaction writes all rows or none.
importSuppliersCsv(i) ==
    /\ importing[i].stage = "READ"
    /\ LET orgs == Plans[importing[i].file].orgs
           taken == \/ ~Plans[importing[i].file].unique
                    \/ \E o \in orgs, p \in organization : o.line = p.line \/ o.slug = p.slug
       IN  /\ organization' = IF taken THEN organization ELSE organization \cup orgs
           /\ importing' = [importing EXCEPT ![i].stage = IF taken THEN "FAILED" ELSE "CHECK"]

\* What was written is read again, outside the transaction.
checkInvariant(i) ==
    /\ importing[i].stage = "CHECK"
    /\ LET lines == {o.line : o \in Plans[importing[i].file].orgs}
           profiles == {p \in organization : p.line \in lines}
       IN  importing' = [importing EXCEPT ![i].stage =
                           IF \A p \in profiles : p.status = "UNVERIFIED" THEN "DONE" ELSE "ALARM"]
    /\ UNCHANGED organization

\* Staff may change the tier either way; the audit log keeps that they did.
staffSetsTier(o, tier) ==
    /\ o \in organization /\ o.status # tier
    /\ organization' = (organization \ {o}) \cup {[o EXCEPT !.status = tier, !.audited = TRUE]}
    /\ UNCHANGED importing

ImportInit == organization = {} /\ importing = [i \in Importers |-> NotImporting]

ImportNext ==
    \/ \E i \in Importers : Start(i) \/ importSuppliersCsv(i) \/ checkInvariant(i)
    \/ \E o \in organization, tier \in {"UNVERIFIED", "VERIFIED"} : staffSetsTier(o, tier)

ImportSpec == ImportInit /\ [][ImportNext]_importVars

-----------------------------------------------------------------------------
(* Properties *)

Lines(rows) == {row.line : row \in rows}

\* docs/importer.md: "all valid rows still import", once each.  When an import
\* has committed, every valid row of its file is an organization or was merged
\* into one, never both; that organization offers what its merged rows offered
\* and has an e-mail address if any of them had; and no two share a slug.  The
\* importer's own alarm is true: it is raised only over a profile whose tier
\* staff changed meanwhile.
EveryRowIsAccountedFor ==
    /\ \A o, p \in organization : o.slug = p.slug => o = p
    /\ \A i \in Importers : importing[i].stage \in {"CHECK", "DONE", "ALARM"} =>
         LET file == importing[i].file
             valid == readImportRows[file]
             merged == {d \in Plans[file].decisions : d.decision = "MERGE"}
         IN  /\ Lines(Plans[file].orgs) \cup Lines(merged) = Lines(valid)
             /\ Lines(Plans[file].orgs) \cap Lines(merged) = {}
             /\ \A row \in valid : \E o \in organization :
                  /\ o.line = row.line \/ \E d \in merged : d.line = row.line /\ d.into = o.line
                  /\ row.categories \cup row.certifications \subseteq o.capabilities
                  /\ row.email # NoCell => o.email # NoCell
             /\ importing[i].stage = "ALARM" =>
                  \E o \in organization : o.line \in Lines(valid) /\ o.audited
=============================================================================
