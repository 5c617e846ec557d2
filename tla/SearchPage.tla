----------------------------- MODULE SearchPage -----------------------------
(***************************************************************************)
(* The search page of the storefront (components/search-experience.tsx,    *)
(* lib/search-client.ts, lib/search-query.ts): one visitor, whose query,   *)
(* filters, sorting and page live in the address bar.                      *)
(*                                                                         *)
(* Four things run apart from each other: what the visitor does, the timer *)
(* that follows the query box, the navigations of the router, of which a   *)
(* newer one discards one under way, and the answers of the search API,    *)
(* which arrive in any order.                                              *)
(***************************************************************************)
EXTENDS Naturals, Sequences

CONSTANTS
    Texts,          \* what the query box may hold
    Trim,           \* each text without the blanks around it
    Facets,         \* filters of the side bar
    Sorts,          \* orders the page and the API know, "relevance" among them
    Links,          \* addresses a visitor may arrive by
    PageSize,       \* SEARCH_PAGE_SIZE
    Found,          \* listings that every keyword search finds here
    MaxMoves,       \* bound: what the visitor does
    Nowhere         \* no navigation, no answer

ASSUME TrimAssumption == Trim \in [Texts -> Texts] /\ \A t \in Texts : Trim[Trim[t]] = Trim[t]
\* What the address bar may say: links may name any order.
Addresses == [q : Texts, sort : Sorts \cup {l.sort : l \in Links}, facets : SUBSET Facets, offset : Nat]

ASSUME LinksAssumption ==
    Links \subseteq Addresses /\ Nowhere \notin Addresses \cup [to : Addresses, replaces : BOOLEAN]
ASSUME PageAssumption == PageSize \in Nat \ {0} /\ Found \in Nat /\ MaxMoves \in Nat

VARIABLES
    link,       \* the address the visitor arrived by
    url,        \* the address the page shows: q, sort, facets, offset
    past, ahead,    \* the browser's history, the nearest address last
    box,        \* queryInput
    armed,      \* the debounce timer runs
    going,      \* the navigation under way: its target, and if it replaces
    dropped,    \* one was discarded for one that led nowhere new
    flying,     \* requests under way, numbered as they were made
    asked,      \* how many were made
    arrived,    \* the newest that was answered
    late,       \* the answer shown arrived after a newer one
    shown,      \* the results shown, the address they are of, and an error
    moves

pageVars == <<link, url, past, ahead, box, armed, going, dropped, flying, asked, arrived, late,
              shown, moves>>

Loading == [of |-> Nowhere, error |-> FALSE, total |-> 0]
Failed == [Loading EXCEPT !.error = TRUE]

-----------------------------------------------------------------------------
(* The search API *)

\* What the page makes of an answer: an error takes the results away, results
\* leave an error where it is.  An order the API does not know is an error; a
\* query finds one page, whatever the offset is, unless the index is out.
Answers(u) ==
    LET count == IF u.q = "" THEN {Found}
                 ELSE {Found, IF Found < PageSize THEN Found ELSE PageSize}
    IN  {Failed} \cup
        {[of |-> u, error |-> shown.error, total |-> n] : n \in IF u.sort \in Sorts THEN count ELSE {}}

\* runSearch: the error goes away, and the last results stay until the answer.
Ask(u) ==
    /\ asked' = asked + 1
    /\ flying' = flying \cup {[number |-> asked + 1, to |-> u]}
    /\ shown' = [shown EXCEPT !.error = FALSE]

\* Whichever answer comes is shown.
receive ==
    \E r \in flying :
        /\ flying' = flying \ {r}
        /\ shown' \in Answers(r.to)
        /\ late' = (r.number < arrived)
        /\ arrived' = IF r.number > arrived THEN r.number ELSE arrived
        /\ UNCHANGED <<link, url, past, ahead, box, armed, going, dropped, asked, moves>>

-----------------------------------------------------------------------------
(* Navigations *)

\* A newer navigation discards the one under way.
Navigate(to, replaces) ==
    /\ going' = [to |-> to, replaces |-> replaces]
    /\ dropped' = (dropped \/ (going # Nowhere /\ to = url))

\* Whatever a handler asks for, the page number is deleted: setPage's too.
pushQueryState(mutated, replaces) == Navigate([mutated EXCEPT !.offset = 0], replaces)

\* Mutant of Show: the timer follows the box only, not the address.
ShowBesideTimer(to) ==
    /\ url' = to
    /\ IF to = url THEN UNCHANGED <<armed, flying, asked, shown>>
       ELSE armed' = armed /\ Ask(to)

\* The page shows a new address: it asks again, and the timer starts over.
\* The same address again changes nothing.
Show(to) ==
    /\ url' = to
    /\ IF to = url THEN UNCHANGED <<armed, flying, asked, shown>>
       ELSE /\ armed' = (box # to.q)
            /\ Ask(to)

commit ==
    /\ going # Nowhere
    /\ Show(going.to)
    /\ IF going.replaces \/ going.to = url THEN UNCHANGED <<past, ahead>>
       ELSE past' = Append(past, url) /\ ahead' = <<>>
    /\ going' = Nowhere
    /\ UNCHANGED <<link, box, dropped, arrived, late, moves>>

\* The debounced query: what the box holds when the timer fires.
Queried(text) == [url EXCEPT !.q = Trim[text]]

fire ==
    /\ armed /\ armed' = FALSE
    /\ pushQueryState(Queried(box), TRUE)
    /\ UNCHANGED <<link, url, past, ahead, box, flying, asked, arrived, late, shown, moves>>

-----------------------------------------------------------------------------
(* The visitor *)

Moving == moves < MaxMoves /\ moves' = moves + 1

type(text) ==
    /\ Moving /\ text # box
    /\ box' = text
    /\ armed' = (text # url.q)
    /\ UNCHANGED <<link, url, past, ahead, going, dropped, flying, asked, arrived, late, shown>>

\* What a handler leaves alone when it only navigates.
Navigates == UNCHANGED <<link, url, past, ahead, box, armed, flying, asked, arrived, late, shown>>

submitQuery == Moving /\ pushQueryState(Queried(box), FALSE) /\ Navigates

setSort(sort) ==
    Moving /\ sort # url.sort /\ pushQueryState([url EXCEPT !.sort = sort], FALSE) /\ Navigates

toggleFacet(f) ==
    /\ Moving /\ Navigates
    /\ Navigate([url EXCEPT !.offset = 0,
                            !.facets = IF f \in @ THEN @ \ {f} ELSE @ \cup {f}], FALSE)

\* The buttons Pagination offers below the results.
Pages ==
    IF shown.total <= PageSize THEN {}
    ELSE {IF url.offset < PageSize THEN 0 ELSE url.offset - PageSize : x \in {1} \cap 1..url.offset} \cup
         {o \in {url.offset + PageSize} : o < shown.total}

setPage(offset) ==
    /\ Moving /\ offset \in Pages
    /\ pushQueryState([url EXCEPT !.offset = offset], FALSE)
    /\ Navigates

retry ==
    /\ Moving /\ shown.error
    /\ Ask(url)
    /\ UNCHANGED <<link, url, past, ahead, box, armed, going, dropped, arrived, late>>

\* Back and Forward are shown at once; a navigation under way is discarded.
traverse(from, to) ==
    /\ from # <<>>
    /\ Show(from[Len(from)])
    /\ going' = Nowhere
    /\ dropped' = (dropped \/ (going # Nowhere /\ from[Len(from)] = url))

Shorter(s) == SubSeq(s, 1, Len(s) - 1)

back ==
    /\ Moving /\ traverse(past, ahead)
    /\ past' = Shorter(past) /\ ahead' = Append(ahead, url)
    /\ UNCHANGED <<link, box, arrived, late>>

forward ==
    /\ Moving /\ traverse(ahead, past)
    /\ ahead' = Shorter(ahead) /\ past' = Append(past, url)
    /\ UNCHANGED <<link, box, arrived, late>>

-----------------------------------------------------------------------------

PageInit ==
    /\ link \in Links /\ url = link /\ box = link.q
    /\ past = <<>> /\ ahead = <<>>
    /\ armed = FALSE /\ going = Nowhere /\ dropped = FALSE
    /\ flying = {[number |-> 1, to |-> link]} /\ asked = 1 /\ arrived = 0 /\ late = FALSE
    /\ shown = Loading /\ moves = 0

PageNext ==
    \/ receive \/ commit \/ fire
    \/ \E t \in Texts : type(t)
    \/ submitQuery \/ retry \/ back \/ forward
    \/ \E s \in Sorts : setSort(s)
    \/ \E f \in Facets : toggleFacet(f)
    \/ \E o \in 0..Found : setPage(o)

PageSpec == PageInit /\ [][PageNext]_pageVars

-----------------------------------------------------------------------------
(* Properties *)

AtRest == ~armed /\ going = Nowhere /\ flying = {}

\* search-experience.tsx:23: "filters, sort, and pagination live in the URL;
\* this component mirrors them".  Once nothing is under way, the address holds
\* the query in the box, unless its navigation was dropped, and the page shows
\* the answer to its address, unless an older one came after it.  (So going
\* Back over a typed query is undone by the timer, and after a failure that a
\* newer request outlived, results stand below an error.)  Of pagination the
\* comment is wrong, pushQueryState deletes the page the visitor asks for: the
\* property is about the address there is.
PageMirrorsAddress ==
    /\ AtRest =>
         /\ dropped \/ url.q \in {box, Trim[box]}
         /\ late \/ shown.of = url \/ (shown.of = Nowhere /\ shown.error)
    /\ shown = Loading => flying # {}

=============================================================================
