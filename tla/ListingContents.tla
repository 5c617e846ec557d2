-------------------------- MODULE ListingContents --------------------------
(***************************************************************************)
(* What one DRAFT listing says: its category, the attribute values that    *)
(* the category allows (packages/db/src/attribute-validation.ts), the      *)
(* suggestions a machine reads from its spec sheets (packages/core/src/    *)
(* spec-extraction.ts), and its pictures with theirs.                      *)
(*                                                                         *)
(* listing-repository.ts keeps attributes and pictures in two JSON columns *)
(* beside the category.  A call reads the row, builds a new column, and    *)
(* writes it in a transaction of its own: two members may cross between    *)
(* the two.                                                                *)
(***************************************************************************)
EXTENDS Integers, Sequences, SequencesExt

CONSTANTS
    AttributeSets,  \* each category's definitions, each with its own key
    SpecTexts,      \* texts of spec sheets, as the patterns see them
    Within,         \* pairs of options of which the first's words are in the second's
    Entries,        \* what the editor's fields say when a member saves
    Uploads,        \* spec sheets the listing may ever get
    Pictures,       \* pictures it may ever get
    Editors,        \* members
    Absent

Category == DOMAIN AttributeSets

ASSUME AttributesAssumption ==
    \A c \in Category : \A d, e \in AttributeSets[c] : d.key = e.key => d = e

VARIABLES
    category,
    attributes,     \* the column: a value per key that has one
    sheets,         \* the SpecSheet rows
    images,         \* the column: entries in order
    edits,          \* per member, the call under way and what it has read
    meant,          \* attributes as the calls that returned had meant them
    looked,         \* pictures whose suggestion a member saw and confirmed
    uploaded,       \* pictures whose upload returned
    entangled       \* two calls have been under way together

contentVars == <<category, attributes, sheets, images, edits, meant, looked, uploaded, entangled>>

NoAttributes == [k \in {} |-> Absent]
NoSheet == [status |-> "NONE", suggestions |-> NoAttributes, unmatchedRequiredKeys |-> {}]
NotEditing == [op |-> "IDLE", category |-> Absent, values |-> NoAttributes,
               entries |-> <<>>, of |-> Absent]

-----------------------------------------------------------------------------
(* Values: a number in halves, a text or the options chosen, the least side *)
(* of a box, a flag                                                          *)

Value(kind, n, of) == [kind |-> kind, n |-> n, of |-> of]

Bounded(d, n) == (d.min # Absent => d.min <= n) /\ (d.max # Absent => n <= d.max)

schemaForAttribute(d, v) ==
    \/ d.type = "string" /\ v.kind = "TEXT" /\ v.of # {}
    \/ d.type = "number" /\ v.kind = "NUMBER" /\ Bounded(d, v.n)
    \/ d.type = "integer" /\ v.kind = "NUMBER" /\ v.n % 2 = 0 /\ Bounded(d, v.n)
    \/ d.type = "boolean" /\ v.kind = "FLAG"
    \/ d.type = "enum" /\ v.kind = "TEXT" /\ \E o \in ToSet(d.options) : v.of = {o}
    \/ d.type = "multiEnum" /\ v.kind = "LIST" /\ v.of \subseteq ToSet(d.options)
         /\ (d.required => v.of # {})
    \/ d.type = "dimensions" /\ v.kind = "BOX" /\ v.n > 0

\* The strict schema: no key of another category, and none that is required
\* missing.
safeValidateAttributes(set, values) ==
    /\ DOMAIN values \subseteq {d.key : d \in set}
    /\ \A d \in set : IF d.key \in DOMAIN values THEN schemaForAttribute(d, values[d.key])
                                                 ELSE ~d.required

safeValidateSingleAttribute(d, v) == safeValidateAttributes({d}, [k \in {d.key} |-> v])

validateAttributesForCategory(c, values) == safeValidateAttributes(AttributeSets[c], values)

-----------------------------------------------------------------------------
(* What the extractor makes of a text                                       *)

\* A pattern also finds an option inside a longer one.
Mentioned(text, option) ==
    \E said \in text.options : said = option \/ <<option, said>> \in Within

MentionedOf(text, d) == SelectSeq(d.options, LAMBDA o : Mentioned(text, o))

HalfUp(n) == 2 * ((n + 1) \div 2)

\* Numbers with the definition's unit, or a count of colours where it has none.
NumberFound(text, d) ==
    LET n == IF d.unit # Absent THEN text.amounts[d.unit]
             ELSE IF d.type = "integer" THEN text.colours ELSE Absent
    IN  IF n = Absent THEN {}
        ELSE {Value("NUMBER", IF d.type = "integer" THEN HalfUp(n) ELSE n, {})}

\* The value a definition's pattern yields, if any.
FoundBy(text, d) ==
    LET mentioned == MentionedOf(text, d)
    IN  CASE d.type = "dimensions" -> IF text.box = Absent THEN {} ELSE {Value("BOX", text.box, {})}
          [] d.type \in {"number", "integer"} -> NumberFound(text, d)
          [] d.type = "enum" -> IF mentioned = <<>> THEN {} ELSE {Value("TEXT", 0, {Head(mentioned)})}
          [] d.type = "multiEnum" -> IF mentioned = <<>> THEN {}
                                     ELSE {Value("LIST", 0, ToSet(mentioned))}
          [] d.type = "boolean" -> IF d.key \in text.denied THEN {Value("FLAG", 0, {})}
                                   ELSE IF d.key \in text.named THEN {Value("FLAG", 1, {})} ELSE {}
          [] d.type = "string" -> IF d.key \in text.labelled THEN {Value("TEXT", 0, {d.key})} ELSE {}

\* Mutant of suggestion: what the pattern found is offered as it is.
suggestUnchecked(text, d) == FoundBy(text, d)

suggestion(text, d) == {v \in FoundBy(text, d) : safeValidateSingleAttribute(d, v)}

Definition(c, k) == CHOOSE d \in AttributeSets[c] : d.key = k

extractSpecSuggestions(text, c) ==
    LET matched == {d.key : d \in {d \in AttributeSets[c] : suggestion(text, d) # {}}}
    IN  [status |-> "EXTRACTED",
         suggestions |-> [k \in matched |-> CHOOSE v \in suggestion(text, Definition(c, k)) : TRUE],
         unmatchedRequiredKeys |-> {d.key : d \in {d \in AttributeSets[c] : d.required}} \ matched]

-----------------------------------------------------------------------------
(* Calls                                                                    *)

Editing(m) == edits[m].op \notin {"IDLE", "VIEW", "UPLOADED"}

Begins(m, record) ==
    /\ edits' = [edits EXCEPT ![m] = record]
    /\ entangled' = (entangled \/ \E o \in Editors \ {m} : Editing(o))
    /\ UNCHANGED <<category, attributes, sheets, images, meant, looked, uploaded>>

Returns(m) == edits' = [edits EXCEPT ![m] = NotEditing]

\* A call fails after its reads, or a page is left.
giveUpEdit(m) ==
    /\ edits[m].op # "IDLE"
    /\ Returns(m)
    /\ UNCHANGED <<category, attributes, sheets, images, meant, looked, uploaded, entangled>>

\* attributeValues: fields of the category only, blanks left out unless required.
attributeValues(c, entry) ==
    LET filled == {d.key : d \in {d \in AttributeSets[c] : entry[d.key] # Absent}}
    IN  [ok |-> \A d \in AttributeSets[c] : d.required => d.key \in filled,
         values |-> [k \in filled |-> entry[k]]]

\* The form names its category, and its attributes are of that.
parseListingUpsertForm(m) ==
    /\ edits[m].op = "IDLE"
    /\ \E c \in Category, entry \in Entries :
         LET parsed == attributeValues(c, entry)
         IN  /\ parsed.ok
             /\ validateAttributesForCategory(c, parsed.values)
             /\ Begins(m, [NotEditing EXCEPT !.op = "EDIT", !.category = c,
                                             !.values = parsed.values])

\* Mutant of saveAttributes: the listing keeps its category.
saveValuesOnly(m) ==
    /\ edits[m].op = "EDIT"
    /\ attributes' = edits[m].values
    /\ meant' = edits[m].values
    /\ Returns(m)
    /\ UNCHANGED <<category, sheets, images, looked, uploaded, entangled>>

\* Category and attributes are written together, the attributes whole.
saveAttributes(m) ==
    /\ edits[m].op = "EDIT"
    /\ category' = edits[m].category
    /\ attributes' = edits[m].values
    /\ meant' = edits[m].values
    /\ Returns(m)
    /\ UNCHANGED <<sheets, images, looked, uploaded, entangled>>

\* The sheet's row, and in the same request its extraction.
uploadSheet(m, x) ==
    /\ edits[m].op = "IDLE" /\ sheets[x].status = "NONE"
    /\ sheets' = [sheets EXCEPT ![x].status = "UPLOADED"]
    /\ edits' = [edits EXCEPT ![m] = [NotEditing EXCEPT !.op = "UPLOADED", !.of = x]]
    /\ UNCHANGED <<category, attributes, images, meant, looked, uploaded, entangled>>

\* The category is what the page posts, not what the listing's row says.
recordExtraction(m) ==
    /\ edits[m].op = "UPLOADED"
    /\ \E text \in SpecTexts, c \in Category :
         sheets' = [sheets EXCEPT ![edits[m].of] = extractSpecSuggestions(text, c)]
    /\ Returns(m)
    /\ UNCHANGED <<category, attributes, images, meant, looked, uploaded, entangled>>

Merged(values, suggestions) ==
    [k \in DOMAIN values \cup DOMAIN suggestions |->
        IF k \in DOMAIN suggestions THEN suggestions[k] ELSE values[k]]

\* The page offers all suggestions together.  They are merged into the attributes
\* that the call read first, and validated against the category it read with them.
readSuggestions(m, x) ==
    LET merged == Merged(attributes, sheets[x].suggestions)
    IN  /\ edits[m].op = "IDLE"
        /\ sheets[x].status = "EXTRACTED" /\ DOMAIN sheets[x].suggestions # {}
        /\ validateAttributesForCategory(category, merged)
        /\ Begins(m, [NotEditing EXCEPT !.op = "APPLY", !.category = category,
                                        !.values = merged, !.of = x])

\* Only the attributes are written, whatever the category is by now.
applySuggestions(m) ==
    /\ edits[m].op = "APPLY"
    /\ attributes' = edits[m].values
    /\ meant' = Merged(meant, sheets[edits[m].of].suggestions)
    /\ Returns(m)
    /\ UNCHANGED <<category, sheets, images, looked, uploaded, entangled>>

confirmSheet(x) ==
    /\ sheets[x].status \in {"UPLOADED", "EXTRACTED"}
    /\ sheets' = [sheets EXCEPT ![x].status = "CONFIRMED"]
    /\ UNCHANGED <<category, attributes, images, edits, meant, looked, uploaded, entangled>>

-----------------------------------------------------------------------------
(* Pictures                                                                 *)

Picture(p, position) == [url |-> p, position |-> position, suggestionStatus |-> "pending"]

\* Each upload is stored under a key of its own.
StoredAnew(p) == p \notin uploaded /\ \A m \in Editors : edits[m].of # p

\* The entry's place is how many the call has read.
readImages(m, p) ==
    /\ edits[m].op = "IDLE"
    /\ StoredAnew(p)
    /\ Begins(m, [NotEditing EXCEPT !.op = "ADD_IMAGE", !.of = p,
                                    !.entries = Append(images, Picture(p, Len(images)))])

addImage(m) ==
    /\ edits[m].op = "ADD_IMAGE"
    /\ images' = edits[m].entries
    /\ uploaded' = uploaded \cup {edits[m].of}
    /\ Returns(m)
    /\ UNCHANGED <<category, attributes, sheets, meant, looked, entangled>>

\* The page shows the pictures; its form names one by its place.
viewPicture(m, n) ==
    /\ edits[m].op = "IDLE"
    /\ n \in DOMAIN images /\ images[n].suggestionStatus = "pending"
    /\ edits' = [edits EXCEPT ![m] = [NotEditing EXCEPT !.op = "VIEW", !.of = n,
                                                        !.entries = images]]
    /\ UNCHANGED <<category, attributes, sheets, images, meant, looked, uploaded, entangled>>

PlaceNamed(m) == edits[m].of

readPlace(m) ==
    LET n == PlaceNamed(m)
    IN  /\ edits[m].op = "VIEW"
        /\ n \in DOMAIN images
        /\ looked' = looked \cup {edits[m].entries[n].url}
        /\ edits' = [edits EXCEPT ![m] = [NotEditing EXCEPT !.op = "CONFIRM_IMAGE",
              !.entries = [images EXCEPT ![n].suggestionStatus = "confirmed"]]]
        /\ entangled' = (entangled \/ \E o \in Editors \ {m} : Editing(o))
        /\ UNCHANGED <<category, attributes, sheets, images, meant, uploaded>>

confirmImage(m) ==
    /\ edits[m].op = "CONFIRM_IMAGE"
    /\ images' = edits[m].entries
    /\ Returns(m)
    /\ UNCHANGED <<category, attributes, sheets, meant, looked, uploaded, entangled>>

-----------------------------------------------------------------------------

\* createListing: a form that parses, and passes.
FirstAttributes(c) ==
    {parsed.values : parsed \in {p \in {attributeValues(c, entry) : entry \in Entries} :
                                   p.ok /\ validateAttributesForCategory(c, p.values)}}

ContentsInit ==
    /\ category \in Category
    /\ attributes \in FirstAttributes(category)
    /\ meant = attributes
    /\ sheets = [x \in Uploads |-> NoSheet]
    /\ images = <<>>
    /\ edits = [m \in Editors |-> NotEditing]
    /\ looked = {} /\ uploaded = {}
    /\ entangled = FALSE

ContentsNext ==
    \/ \E m \in Editors :
         \/ parseListingUpsertForm(m) \/ saveAttributes(m)
         \/ \E x \in Uploads : uploadSheet(m, x) \/ readSuggestions(m, x)
         \/ recordExtraction(m) \/ applySuggestions(m)
         \/ \E p \in Pictures : readImages(m, p)
         \/ addImage(m)
         \/ \E n \in DOMAIN images : viewPicture(m, n)
         \/ readPlace(m) \/ confirmImage(m)
         \/ giveUpEdit(m)
    \/ \E x \in Uploads : confirmSheet(x)

ContentsSpec == ContentsInit /\ [][ContentsNext]_contentVars

-----------------------------------------------------------------------------
(* Properties                                                               *)

\* spec-extraction.ts:15.  A sheet was read for one category: each suggestion
\* passes its definition there, and a sheet that leaves no required attribute out
\* can be accepted as a listing of its own.
SuggestionsFit ==
    \A x \in Uploads : \E c \in Category :
        /\ \A k \in DOMAIN sheets[x].suggestions :
             \E d \in AttributeSets[c] : d.key = k /\ schemaForAttribute(d, sheets[x].suggestions[k])
        /\ sheets[x].status = "EXTRACTED" /\ sheets[x].unmatchedRequiredKeys = {}
             => validateAttributesForCategory(c, sheets[x].suggestions)

\* Each picture stands at the place its entry names, and stands once.
PlacesAreSound ==
    \A i \in DOMAIN images :
        /\ images[i].position = i - 1
        /\ \A j \in DOMAIN images : images[i].url = images[j].url => i = j

\* Columns are written whole, from what was read before: as long as calls do
\* not cross, no edit, accepted suggestion or picture is lost, and what is
\* confirmed is a picture that somebody saw.
NothingIsLost ==
    /\ attributes = meant
    /\ uploaded = {images[i].url : i \in DOMAIN images}
    /\ \A i \in DOMAIN images : images[i].suggestionStatus = "confirmed" => images[i].url \in looked

\* listing-repository.ts:17: attribute values "validate against the category's
\* attribute set on every write".  As long as calls do not cross, the attributes
\* are valid for the listing's own category.  However calls cross, they are valid
\* together for some category: suggestions applied across an edit that moves the
\* listing, :614 and :621, leave it the attributes of the category it was in.
AttributesFit ==
    /\ entangled \/ validateAttributesForCategory(category, attributes)
    /\ \E c \in Category : validateAttributesForCategory(c, attributes)

\* What a draft says: attributes that fit, suggestions that fit, pictures in their
\* places, and nothing lost or misplaced but by calls that cross.
ContentsAreSound ==
    /\ AttributesFit
    /\ SuggestionsFit
    /\ PlacesAreSound
    /\ entangled \/ NothingIsLost

=============================================================================
