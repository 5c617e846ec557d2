SPECIFICATION SuppliersSpec
CONSTANTS
  Plants = {p1, p2}
  Certifications = {k1}
  Equipment = {e1}
  Capabilities = {b1}
  Sessions = {s1, s2}
  Buyer = "b"
  Suppliers = {"s1", "s2"}
  Listings = {1, 2, 3, 4}
  Shelf <- MCShelf
  RfqForms <- MCRfqForms
  Invitees <- MCInvitees
  QuoteRows = {1, 2}
  Senders = {s1, s2}
  Leaving = {2}
  MaxTexts = 1
  LastDay = 1
  Absent = Absent
  SourceFiles <- MCSourceFiles
  DiscoveryWords <- MCDiscoveryWords
  Ordinal <- MCOrdinal
  BatchSize = 2
  FeedRuns = {f1, f2}
  GridSize = 1
  Blank = Blank
  ImportFiles <- MCImportFiles
  NameSimilarity <- MCSimilarity
  NameSuffixes = {"inc", "llc"}
  Numeral <- MCNumeral
  UpperCase <- MCUpperCase
  IdOf <- MCIdOf
  Malformed = {Bad}
  Taxonomy = {"bags", "jars"}
  Importers = {i1, i2}
  NoCell = NoCell
SYMMETRY SessionsAreAlike
INVARIANTS
  PublicProfilesAreComplete
  InvitationsAreSound
  ConversationsStayApart
  DirectoryHoldsTheFile
  EveryRowIsAccountedFor
PROPERTIES
  LockedAfterSubmit
CHECK_DEADLOCK FALSE
