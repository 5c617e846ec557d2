SPECIFICATION Spec
CONSTANTS
  Categories = {"pouches", "flexible"}
  Parent <- MCParent
  Materials = {"PET"}
  Flags = {"aseptic", "hotFill"}
  Cities = {"c1", "c2"}
  Countries = {"k1", "k2"}
  Prices = {1, 2}
  Horizon = 1
  Queries <- MCQueries
  None = None
  Texts = {"", "foil", "foil "}
  Trim <- MCTrim
  Facets = {"PET"}
  Sorts = {"relevance", "price-asc"}
  Links <- MCLinks
  PageSize = 1
  Found = 2
  MaxMoves = 3
  Nowhere = Nowhere
  Blank = Blank
  Bad = Bad
  Sheets <- MCSheets
  Forms <- MCForms
  Members = {m1, m2}
  MaxDays = 2
  Steps <- MCSteps
  Quantities = {1, 2, 3}
  Units = {2}
  Fees = {3}
  Freights = {2}
  DutyRates = {0, 3333}
  MaxSteps = 2
  MaxRevisions = 2
  NoOrder = NoOrder
  AttributeSets <- MCAttributeSets
  SpecTexts <- MCSpecTexts
  Within <- MCWithin
  Entries <- MCEntries
  Uploads = {x1}
  Pictures = {p1, p2}
  Editors = {m1, m2}
  Absent = Absent
INVARIANTS
  AnswersAgree
  PageMirrorsAddress
  StoredShapesAreSound
  BillFollowsComparison
  ContentsAreSound
CHECK_DEADLOCK FALSE
