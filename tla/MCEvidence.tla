--------------------------- MODULE MCEvidence ---------------------------
(***************************************************************************)
(* Protocols that carry evidence over, checked side by side: a behaviour   *)
(* runs one of them and leaves the others where they start.                *)
(*                                                                         *)
(* Metric quality: two companies with a filing each.  A first document     *)
(* has a duration, a repaired source and an element that is not governed;  *)
(* its amended form has another text of the duration and the other two     *)
(* ungoverned.  Prospective selection: two analyses and three archives.    *)
(* Company metadata: two companies observed by ten snapshots and two       *)
(* inventories, one with a third.  Descriptions: a company with a right    *)
(* and one without.  Page: the pages of up to six tokens.                 *)
(***************************************************************************)
EXTENDS MetricQuality, TLC

CONSTANTS c1, c2, f1, f2, d1

El(id, transform, listed, text) == [id |-> id, transform |-> transform, listed |-> listed, text |-> text]
Document1 == {El("e1", "durmonth", FALSE, 1), El("e2", "numwordsen", TRUE, 1), El("e3", "numwordsen", FALSE, 1)}
Document2 == {El("e1", "durmonth", FALSE, 2), El("e2", "numwordsen", FALSE, 2)}

Package1 == [primary |-> Document1, rest |-> 1]
MCPackages == {Package1, [primary |-> Document1, rest |-> 2], [primary |-> Document2, rest |-> 1]}

Reading(parser, order, wrong, lost) == [parser |-> parser, order |-> order, wrong |-> wrong, lost |-> lost]
MCReadings ==
  {Reading("v5", 1, {}, {}), Reading("v6", 2, {}, {}), Reading("v5", 1, {"e2"}, {}),
   Reading("v6", 1, {}, {"e2"}), Reading("v4", 1, {}, {})}

MCBudgets == {[jobs |-> {1}, edits |-> 2], [jobs |-> {1, 2}, edits |-> 0]}
MCOrder == <<f1, f2>>
MCPlanned == c1 :> {f1} @@ c2 :> {f2}
MCFirst == f1 :> Package1 @@ f2 :> Package1

-----------------------------------------------------------------------------
TwoAnalyses == {"annual", "quarterly"}

\* The first archive fits none, one, two or all of the declarations.
ThreeArchives ==
  {({1} \X a) \cup ({2} \X b) \cup ({3} \X c) :
     a \in {{}, {1}, {1, 2}, {1, 2, 3}}, b \in SUBSET (1 .. 3), c \in SUBSET (1 .. 3)}

CONSTANTS Targets, Archives, Relations, MaxReplaced, MaxUpgrades  \* of ProspectiveSelection

VARIABLES part, disk, code, selecting, selection, visible, command, replaced

selectionVars == <<disk, code, selecting, selection, visible, command, replaced>>

P == INSTANCE ProspectiveSelection
       WITH MaxEdits <- MaxReplaced, config <- selecting, job <- command, edits <- replaced

ASSUME SelectionAssumption ==
  /\ Targets \cap (P!Plans \cup {"policy", "history", "submissions", "raw"}) = {}
  /\ Archives \in Nat /\ MaxReplaced \in Nat
  /\ Relations \subseteq SUBSET ((1 .. Archives) \X (1 .. Archives))

-----------------------------------------------------------------------------
X == <<"x", 1>>
XLower == <<"x", 2>>
Y == <<"y", 1>>
Nasdaq == <<"n", 1>>
NasdaqLower == <<"n", 2>>

Said(root, cik, tickers, sic, forms) ==
  [root |-> root, cik |-> cik, name |-> "name", tickers |-> tickers, sic |-> sic, forms |-> forms]
Seen(bytes, at, path, origin, directory) ==
  [bytes |-> bytes, at |-> at, path |-> path, source |-> origin, directory |-> directory]
Listing(cik, name, ticker, exchange) == [cik |-> cik, name |-> name, ticker |-> ticker, exchange |-> exchange]
Universe(ciks, exchanges, forms, sics) == [ciks |-> ciks, exchanges |-> exchanges, forms |-> forms, sics |-> sics]

MCPayload ==
  ("a" :> Said(TRUE, 1, << <<X, Nasdaq>> >>, <<37, 2>>, {"10-K"})) @@
  ("b" :> Said(TRUE, 1, << <<XLower, NasdaqLower>>, <<Y, None>> >>, <<37, 4>>, {"10-K", "10-Q"})) @@
  ("c" :> Said(TRUE, 2, << <<X, None>> >>, <<37, 4>>, {})) @@
  ("d" :> Said(TRUE, 2, << <<X, NasdaqLower>> >>, None, {"10-K"})) @@
  ("e" :> Said(FALSE, None, <<>>, None, {})) @@
  ("f" :> Said(TRUE, 2, << <<Y, Nasdaq>>, <<Y, NasdaqLower>> >>, None, {}))

\* Among them: two at one moment, one file under two sources, one in another
\* company's directory, one that is no root.
MCObservations ==
  {Seen("a", 1, 1, "s", None), Seen("a", 1, 1, "t", None), Seen("a", 1, 2, "t", 1), Seen("b", 1, 3, "s", 1),
   Seen("b", 2, 3, "s", 1), Seen("c", 1, 4, "s", 2), Seen("c", 2, 4, "s", 1),
   Seen("d", 2, 5, "s", 2), Seen("e", 1, 6, "s", 1), Seen("f", 3, 7, "s", None)}

MCInventories ==
  {None,
   [at |-> 1, bytes |-> "i",
    rows |-> <<Listing(1, "name", X, NasdaqLower), Listing(2, None, Y, None), Listing(2, "other", Y, Nasdaq)>>],
   [at |-> 2, bytes |-> "j", rows |-> <<Listing(3, "p", X, None), Listing(3, "q", Y, Nasdaq)>>]}

MCUniverses ==
  {Universe({}, {}, {}, {}), Universe({1, 4}, {}, {"10-K"}, {}), Universe({}, {Nasdaq}, {}, {37}),
   Universe({}, {Nasdaq, NasdaqLower}, {"10-K", "10-Q"}, {})}

CONSTANTS Payload, Observations, Inventories, Universes, MaxCached  \* of CompanyMetadata

VARIABLES cached, inventory, published, now
metadataVars == <<cached, inventory, published, now>>

M == INSTANCE CompanyMetadata

ASSUME MetadataAssumption ==
  /\ \A s \in Observations : s.at \in Nat /\ s.path \in Nat
  /\ \A bytes \in DOMAIN Payload : Payload[bytes].sic # None => Payload[bytes].sic[1] # None
  /\ \A s \in Observations : s.bytes \in DOMAIN Payload

-----------------------------------------------------------------------------
Entry(status, rights, scope, from, until) ==
  [status |-> status, rights |-> rights, scope |-> scope, from |-> from, until |-> until, complete |-> TRUE]
Plan(mode, entry) ==
  [dataset |-> 1, mode |-> mode,
   entries |-> [a |-> entry, b |-> Entry("UNAVAILABLE", "NONE", "NONE", 0, 0)]]

MCPlans ==
  {Plan("PROVIDED_TEXT", Entry("AVAILABLE", "APPROVED", "DISPLAY_PLAINTEXT", 1, 2)),
   Plan("AUTHORIZED_FETCH", Entry("AVAILABLE", "APPROVED", "FETCH_AND_DISPLAY_PLAINTEXT", 2, 2)),
   Plan("AUTHORIZED_FETCH", Entry("AVAILABLE", "APPROVED", "DISPLAY_PLAINTEXT", 1, 3)),
   Plan("PROVIDED_TEXT", Entry("AVAILABLE", "PENDING", "DISPLAY_PLAINTEXT", 1, 3)),
   Plan("PROVIDED_TEXT",
        [Entry("AVAILABLE", "APPROVED", "DISPLAY_PLAINTEXT", 1, 3) EXCEPT !.complete = FALSE])}

MCTexts ==
  {None} \cup [korean : {TRUE}, n : {1, 2}] \cup [korean : {FALSE}, n : {3}]

CONSTANTS Described, DescriptionPlans, Texts, Days, MaxTouched  \* of CompanyDescriptions

VARIABLES day, dataset, plan, source, writing, shelf, pin, reader, shown, touched
descriptionVars == <<day, dataset, plan, source, writing, shelf, pin, reader, shown, touched>>

D == INSTANCE CompanyDescriptions
       WITH Order <- Described, Plans <- DescriptionPlans, MaxEdits <- MaxTouched, job <- writing, edits <- touched

Token(kind, tag, match) == [kind |-> kind, tag |-> tag, match |-> match]
MCDescribed == <<"a", "b">>
MCTokens ==
  {Token("open", "div", TRUE), Token("open", "div", FALSE), Token("open", "svg", FALSE),
   Token("close", "div", FALSE), Token("close", "svg", FALSE), Token("void", "br", FALSE),
   Token("data", "", FALSE)}

\* The page that is fetched, from its first tag on.
CONSTANTS Tokens, MaxTokens

ASSUME TokensAssumption ==
  \A t \in Tokens : /\ t.kind \in {"open", "close", "void", "data"}
                    /\ t.match \in BOOLEAN /\ (t.match => t.kind \in {"open", "void"})

VARIABLE page
NextToken ==
  /\ Len(page) < MaxTokens
  /\ \E t \in Tokens : (page = <<>> => t.kind = "open") /\ page' = Append(page, t)

-----------------------------------------------------------------------------
\* The variables of the parts that are not run.
Away == <<>>

NoQuality ==
  /\ pkg = Away /\ raw = Away /\ intake = Away /\ index = None
  /\ bindings = [d \in Destinations |-> None]
  /\ job = Away /\ budget = Away /\ edits = Away
  /\ history = Away /\ config = Away /\ quality = None
NoSelecting ==
  /\ disk = Away /\ code = Away /\ selecting = Away /\ selection = Away
  /\ visible = Away /\ command = Away /\ replaced = Away
NoMetadata == cached = Away /\ inventory = Away /\ published = Away /\ now = Away
NoDescriptions ==
  /\ day = Away /\ dataset = Away /\ plan = Away /\ source = Away /\ writing = Away
  /\ shelf = Away /\ pin = Away /\ reader = Away /\ shown = Away /\ touched = Away

MCInit ==
  /\ page = Away
  /\ \/ part = "quality" /\ Init /\ NoSelecting /\ NoMetadata /\ NoDescriptions
     \/ part = "prospective" /\ P!Init /\ NoQuality /\ NoMetadata /\ NoDescriptions
     \/ part = "metadata" /\ M!Init /\ NoQuality /\ NoSelecting /\ NoDescriptions
     \/ part = "descriptions" /\ D!Init /\ NoQuality /\ NoSelecting /\ NoMetadata
     \/ part = "page" /\ NoQuality /\ NoSelecting /\ NoMetadata /\ NoDescriptions

MCNext ==
  /\ \/ /\ part = "quality" /\ Next
        /\ UNCHANGED <<selectionVars, metadataVars, descriptionVars, page>>
     \/ /\ part = "prospective" /\ P!Next
        /\ UNCHANGED <<vars, metadataVars, descriptionVars, page>>
     \/ /\ part = "metadata" /\ M!Next
        /\ UNCHANGED <<vars, selectionVars, descriptionVars, page>>
     \/ /\ part = "descriptions" /\ D!Next
        /\ UNCHANGED <<vars, selectionVars, metadataVars, page>>
     \/ /\ part = "page" /\ NextToken
        /\ UNCHANGED <<vars, selectionVars, metadataVars, descriptionVars>>
  /\ UNCHANGED part

MCSpec ==
  MCInit /\ [][MCNext]_<<part, vars, selectionVars, metadataVars, descriptionVars, page>>

\* What becomes visible is the analysis ROOT approved, and it verifies, every
\* link of it leads where its origin's link led, and submissions are incomplete
\* exactly when the archives cannot be told apart as the declared ones
\* (ProspectiveSelection).
VisibleIsApproved ==
  part = "prospective" => P!VisibleIsApproved /\ P!LinksSurvive /\ P!CompletenessIsExact

\* What is built of company metadata can be read, can be made again as of its
\* cutoff, and admits no company for what is not known (CompanyMetadata); a
\* description that is shown is the pinned one under a current right, and the
\* text selected from a page is exactly its one visible target (CompanyDescriptions).
CompanyDataIsHonest ==
  /\ part = "metadata" => M!MetadataIsHonest
  /\ part = "descriptions" => D!ShownIsPinnedAndCurrent
  /\ part = "page" => D!SelectedTextIsExact(page)
===============================================================================
