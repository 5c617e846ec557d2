---------------------------- MODULE SuppliersMC ----------------------------
(***************************************************************************)
(* Suppliers on the platform, for TLC, in small instances: how their       *)
(* profiles are filled in, how requests for quotes reach them, and the two *)
(* files they come from: the migration of suppliers and the public         *)
(* directory.  The four share no row here, so each behaviour follows one   *)
(* of them.                                                                *)
(***************************************************************************)
EXTENDS SupplierProfile, Sourcing, Directory, MigrationImport, TLC

VARIABLE part

SuppliersInit ==
    /\ Init /\ SourcingInit /\ DirectoryInit /\ ImportInit
    /\ part \in {"PROFILE", "SOURCING", "DIRECTORY", "MIGRATION"}
    /\ part # "PROFILE" => ~profile.exists

SuppliersNext ==
    /\ part' = part
    /\ \/ part = "PROFILE" /\ Next /\ UNCHANGED <<sourcingVars, directoryVars, importVars>>
       \/ part = "SOURCING" /\ SourcingNext /\ UNCHANGED <<vars, directoryVars, importVars>>
       \/ part = "DIRECTORY" /\ DirectoryNext /\ UNCHANGED <<vars, sourcingVars, importVars>>
       \/ part = "MIGRATION" /\ ImportNext /\ UNCHANGED <<vars, sourcingVars, directoryVars>>

SuppliersSpec ==
    SuppliersInit /\ [][SuppliersNext]_<<part, vars, sourcingVars, directoryVars, importVars>>

-----------------------------------------------------------------------------
(* The instances.                                                          *)

\* The senders of requests are the sessions of the wizard: no behaviour has both,
\* so that one permutation serves them.
SessionsAreAlike == Permutations(Sessions) \cup Permutations(Plants)

-----------------------------------------------------------------------------
(* Four listings of one category: two of one supplier, of which the second *)
(* fits better and asks for more, one of another, and one of the buyer.    *)

Value(v) == [list |-> FALSE, of |-> {v}]
AnyOf(vs) == [list |-> TRUE, of |-> vs]

Offers(org, minQty, attributes) ==
    [org |-> org, category |-> "bags", tiers |-> {[minQty |-> minQty]}, attributes |-> attributes]

MatteFilm == [material |-> Value("PET"), finish |-> AnyOf({"matte"})]

MCShelf ==
    <<Offers("s1", 1, [material |-> Value("PET"), finish |-> AnyOf({"gloss"})]),
      Offers("s1", 2, MatteFilm),
      Offers("s2", 1, [finish |-> AnyOf({"matte", "gloss"})]),
      Offers("b", 1, MatteFilm)>>


Form(mode, category, listing, quantity, closesAt, wants) ==
    [mode |-> mode, titled |-> TRUE, quantity |-> quantity, datesParse |-> TRUE, wants |-> wants,
     categoryId |-> category, listingId |-> listing, closesAt |-> closesAt]

\* Of each mode, requests that are refused and requests that are stored.
MCRfqForms ==
    {Form("SINGLE", Absent, l, 2, Absent, NoWishes) : l \in {1, 4, Absent}} \cup
    {Form("BROADCAST", c, 1, q, 0, MatteFilm) : c \in {"bags", Absent}, q \in {0, 2}} \cup
    {Form("AUCTION", "bags", Absent, 1, t, NoWishes) : t \in {Absent, 0, 1}}

MCInvitees == {{}, {"s2"}, {"s1", "b"}}

-----------------------------------------------------------------------------
(* Records of the directory: companies whose names share a slug, a name    *)
(* that is another's slug with its state, one without a name of its own    *)
(* and one with nothing to name it.                                        *)

Named(rank, text, base) == [rank |-> rank, text |-> text, base |-> base]
NoWords == [specialty |-> {}, products |-> {}, description |-> {}]

Record(company, dba, place, state, tier, types, words) ==
    [company |-> company, dba |-> dba, place |-> place, state |-> state, tier |-> tier,
     types |-> types, words |-> words]

AcmeInc == Named(1, "Acme Inc", <<"acme">>)
Acme == Named(2, "Acme LLC", <<"acme">>)
AcmeTX == Named(3, "Acme TX", <<"acme", "tx">>)
InTexas == Named(4, "Unnamed Supplier (TX)", <<"unnamed", "supplier", "tx">>)

R1 == Record(Acme, Blank, InTexas, "tx", 1, <<"maker", "packer", "maker">>, [NoWords EXCEPT !.specialty = {"milk"}])
R2 == Record(AcmeInc, Acme, InTexas, "tx", 2, <<"packer">>,
             [NoWords EXCEPT !.products = {"milk", "box"}, !.description = {"tea"}])
R3 == Record(Blank, AcmeTX, InTexas, "tx", 3, <<"tea">>, NoWords)
R4 == Record(AcmeInc, Blank, Blank, Blank, 4, <<>>, [NoWords EXCEPT !.description = {"box"}])
R5 == Record(Blank, Blank, Blank, Blank, 5, <<>>, NoWords)
R6 == Record(Acme, Blank, InTexas, "tx", 1, <<"maker">>, [NoWords EXCEPT !.specialty = {"milk", "tea", "box", "jar"}])

MCSourceFiles == {<<R1, R2, R5>>, <<R1, R2, R5, R6, R3, R4>>, <<R3, R1, R2>>}
MCOrdinal == [n \in 1..9 |-> ToString(n)]
MCDiscoveryWords == <<{"milk"}, {"tea"}, {"box"}, {"jar", "tea"}, {}>>

-----------------------------------------------------------------------------
(* Rows of the migration: near-identical names with and without a signal   *)
(* in common, a malformed row, and names that make each other's slugs.     *)

MCColumns == <<"name", "city", "domain", "phone", "email", "categories", "certifications">>
Refused == CHOOSE cell \in Malformed : TRUE
MCBlank == <<NoCell, NoCell>>
MCNumeral == [line \in 1..9 |-> ToString(line)]

MCUpperCase == ("sqf" :> "SQF") @@ ("SQF" :> "SQF")
MCIdOf == "SQF" :> "SQF"

Host(host) == [host |-> host, www |-> FALSE]
Phone(code) == [code |-> code, last10 |-> "2125550101"]
Bags == {"bags"}

MCSimilarity == [pair \in {{a, b} : a, b \in {<<"acme">>, <<"acmee">>, <<"bolt">>}} |->
    IF Cardinality(pair) = 1 THEN 100 ELSE IF pair = {<<"acme">>, <<"acmee">>} THEN 95 ELSE 40]

York == <<"york">>
AcmeCom == Host("acme.com")
A1 == <<<<"acme">>, York, AcmeCom, NoCell, NoCell, Bags, NoCell>>
A2 == <<<<"acmee", "inc">>, York, [AcmeCom EXCEPT !.www = TRUE], Phone("1"), "a", {"bags", "jars", "odd"}>>
A3 == <<<<"acme">>, York, AcmeCom, Phone("1"), NoCell, NoCell, {"SQF"}>>
A4 == <<<<"acme", "llc">>, <<"bath">>, NoCell, Phone(NoCell), "b", Bags>>
A5 == <<<<"acme">>, York, NoCell, NoCell, "d">>
B1 == <<<<"bolt">>, York>>
B2 == <<<<"bolt">>, York, Refused>>
B3 == <<<<"bolt", "inc">>, <<"york", "4">>>>
B4 == <<<<"acme">>, <<"york", "4">>>>
B5 == <<NoCell, York, AcmeCom>>
B6 == <<<<"bolt">>, York, NoCell, NoCell, NoCell, NoCell, {"sqf", "SQF"}>>

\* Names and places only, the name twice; and a header that breaks the contract.
Short == <<<<"city", "name", "name">>, <<York, <<"bolt">>, <<"acme">>>>, <<York, <<"acme">>, <<"bolt">>>>>>
Unknown == <<<<"name", "city", "owner">>, B1>>

MCImportFiles ==
    {<<MCColumns, A1, A2, A3, B1>>, <<MCBlank, MCColumns, A1, B2, MCBlank, A4, A5, A2>>,
     <<MCColumns, B4, B5, A1, A5>>, <<MCColumns, A1, B4, A5>>, <<MCColumns, B1, B3>>, <<MCColumns, A1, B6>>, Short, Unknown}
=============================================================================
