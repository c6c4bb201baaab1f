------------------------- MODULE CompanyDescriptions -------------------------
(***************************************************************************)
(* screening/company_descriptions.py: plain texts about the companies of   *)
(* one screening dataset, each under a right to show it from one day to    *)
(* another.  A plan is reviewed and published; a reader opens the          *)
(* publication under a pinned manifest digest and projects a company's     *)
(* text as of the day it is asked.                                         *)
(*                                                                         *)
(* The plan and the sources may change at any time, files of the           *)
(* publication as well, days pass, and the dataset may be published anew.  *)
(* A digest is the value it is of.                                         *)
(***************************************************************************)
EXTENDS Integers, FiniteSets, Sequences, SequencesExt

CONSTANTS
  None,
  Order,          \* the companies in the order of their CIKs
  Plans,          \* the plans a file may hold
  Texts,          \* what a source may say
  Days,           \* the last day looked at
  MaxEdits        \* bound: changes of a file

VARIABLES
  day, dataset,
  plan,           \* the plan file
  source,         \* what a company's source says
  job,            \* the publishing command
  shelf,          \* the publication: manifest and records
  pin,            \* the manifest digest the operator hands to the reader
  reader,         \* the open reader
  shown,          \* the last projection
  edits

vars == <<day, dataset, plan, source, job, shelf, pin, reader, shown, edits>>

NoJob == [pc |-> "idle"]
NoReader == [pc |-> "closed"]

-----------------------------------------------------------------------------
\* A plan names the companies; an entry has a right or says why it has no text.

Covered(p) == DOMAIN p.entries
Scope(mode) == IF mode = "PROVIDED_TEXT" THEN "DISPLAY_PLAINTEXT" ELSE "FETCH_AND_DISPLAY_PLAINTEXT"

\* An entry is complete with a provider on an allowed host, a Korean text and one
\* way to it; or, without a text, with the reason why.
Complete(entry) == entry.complete

\* The plan belongs to the dataset as published, and to all of its companies.
PlanFits(p, data) ==
  /\ p.dataset = data.publication /\ Covered(p) = data.companies
  /\ \A c \in Covered(p) : Complete(p.entries[c])

Approved(entry, mode) == entry.rights = "APPROVED" /\ entry.scope = Scope(mode)
InWindow(entry, today) == entry.from <= today /\ today <= entry.until

Preflight(p, c, today) ==
  p.entries[c].status = "AVAILABLE" =>
    /\ Approved(p.entries[c], p.mode) /\ InWindow(p.entries[c], today)
    /\ p.mode = "PROVIDED_TEXT" => source[c] # None

Review(p, today) == PlanFits(p, dataset) /\ \A c \in Covered(p) : Preflight(p, c, today)

\* What may be published of a source: it is found, is not an access challenge
\* and is a Korean text.
Usable(text) == text # None /\ text.korean

Recordable(p, c, today) ==
  p.entries[c].status = "AVAILABLE" => Preflight(p, c, today) /\ Usable(source[c])

RecordOf(p, c, text) ==
  [entry |-> p.entries[c], mode |-> p.mode,
   text |-> IF p.entries[c].status = "AVAILABLE" THEN text ELSE None]

-----------------------------------------------------------------------------
\* What the reader requires of a publication.

RecordsValid(records, mode) ==
  \A c \in DOMAIN records :
    /\ records[c].mode = mode
    /\ IF records[c].entry.status = "AVAILABLE"
         THEN /\ Usable(records[c].text) /\ Approved(records[c].entry, mode)
              /\ records[c].entry.from <= records[c].entry.until
         ELSE records[c].text = None

EmbeddedPlan(manifest, records) ==
  /\ DOMAIN records = Covered(manifest.plan)
  /\ \A c \in DOMAIN records : records[c].entry = manifest.plan.entries[c]

\* Mutant: the reader trusts the rows it read when it was made.
CachedIsTrusted(cached, current) == TRUE

\* The reader compares what it has read with the file as it is now.
CachedIsCurrent(cached, current) == cached = current

Verifies(pinned, cached) ==
  /\ shelf # None /\ shelf.manifest = pinned
  /\ shelf.records = shelf.manifest.records
  /\ CachedIsCurrent(cached, shelf.records)
  /\ EmbeddedPlan(shelf.manifest, shelf.records)
  /\ shelf.manifest.plan.dataset = dataset.publication
  /\ RecordsValid(shelf.records, shelf.manifest.plan.mode)

-----------------------------------------------------------------------------
Init ==
  /\ day = 1
  /\ dataset = [publication |-> 1, companies |-> ToSet(Order)]
  /\ plan \in Plans
  /\ source \in [ToSet(Order) -> Texts]
  /\ job = NoJob
  /\ shelf = None /\ pin = None
  /\ reader = NoReader
  /\ shown = None
  /\ edits = 0

\* The world's own steps.

NextDay ==
  /\ day < Days
  /\ day' = day + 1
  /\ UNCHANGED <<dataset, plan, source, job, shelf, pin, reader, shown, edits>>

Edit ==
  /\ edits < MaxEdits
  /\ edits' = edits + 1
  /\ \/ /\ \E p \in Plans \ {plan} : plan' = p
        /\ UNCHANGED <<source, dataset, shelf>>
     \/ /\ \E c \in ToSet(Order), t \in Texts : t # source[c] /\ source' = [source EXCEPT ![c] = t]
        /\ UNCHANGED <<plan, dataset, shelf>>
     \/ /\ dataset' = [dataset EXCEPT !.publication = 2]
        /\ UNCHANGED <<plan, source, shelf>>
  /\ UNCHANGED <<day, job, pin, reader, shown>>

\* Another text in the publication's records, or the published one again.
EditShelf ==
  /\ shelf # None /\ edits < MaxEdits
  /\ edits' = edits + 1
  /\ \E c \in DOMAIN shelf.records, t \in Texts \ {None} :
       /\ shelf.records[c].text \notin {None, t}
       /\ shelf' = [shelf EXCEPT !.records[c].text = t]
  /\ UNCHANGED <<day, dataset, plan, source, job, pin, reader, shown>>

-----------------------------------------------------------------------------
\* publish_company_descriptions: the plan is read, the day is taken, then the plan
\* is read again by the review.

LoadPlan ==
  /\ job.pc = "idle" /\ shelf = None
  /\ PlanFits(plan, dataset)
  /\ job' = [pc |-> "loaded", plan |-> plan, today |-> day, records |-> <<>>]
  /\ UNCHANGED <<day, dataset, plan, source, shelf, pin, reader, shown, edits>>

ReviewPlan ==
  /\ job.pc = "loaded"
  /\ job' = IF Review(plan, job.today) THEN [job EXCEPT !.pc = "recording"] ELSE NoJob
  /\ UNCHANGED <<day, dataset, plan, source, shelf, pin, reader, shown, edits>>

\* One source after the other is read or fetched, under the plan that was loaded.
Record ==
  /\ job.pc = "recording" /\ DOMAIN job.records # Covered(job.plan)
  /\ LET c == Order[Cardinality(DOMAIN job.records) + 1]
     IN job' = IF Recordable(job.plan, c, job.today)
                   THEN [job EXCEPT !.records =
                           [d \in DOMAIN @ \cup {c} |->
                              IF d = c THEN RecordOf(job.plan, c, source[c]) ELSE job.records[d]]]
                   ELSE NoJob
  /\ UNCHANGED <<day, dataset, plan, source, shelf, pin, reader, shown, edits>>

\* The digest of the plan file is taken now; nothing is opened before the rename.
Seal ==
  /\ job.pc = "recording" /\ DOMAIN job.records = Covered(job.plan)
  /\ shelf' = [manifest |-> [plan |-> job.plan, plan_sha |-> plan, records |-> job.records],
               records |-> job.records]
  /\ pin' = shelf'.manifest
  /\ job' = NoJob
  /\ UNCHANGED <<day, dataset, plan, source, reader, shown, edits>>

-----------------------------------------------------------------------------
\* CompanyDescriptionReader: the rows are read when it is made, and verified after.

OpenReader ==
  /\ reader.pc = "closed" /\ shelf # None
  /\ reader' = [pc |-> "read", pin |-> pin, records |-> shelf.records]
  /\ UNCHANGED <<day, dataset, plan, source, job, shelf, pin, shown, edits>>

VerifyOpened ==
  /\ reader.pc = "read"
  /\ reader' = IF Verifies(reader.pin, reader.records) THEN [reader EXCEPT !.pc = "open"] ELSE NoReader
  /\ UNCHANGED <<day, dataset, plan, source, job, shelf, pin, shown, edits>>

\* The text is withheld on a day the right does not cover.
Current(record, today) == record.entry.rights = "APPROVED" /\ InWindow(record.entry, today)

Show(c) ==
  /\ reader.pc = "open" /\ c \in DOMAIN reader.records
  /\ shown' = [company |-> c, day |-> day, pin |-> reader.pin,
               text |-> IF reader.records[c].entry.status = "AVAILABLE" /\ Current(reader.records[c], day)
                          THEN reader.records[c].text ELSE None]
  /\ UNCHANGED <<day, dataset, plan, source, job, shelf, pin, reader, edits>>

Next ==
  \/ NextDay \/ Edit \/ EditShelf
  \/ LoadPlan \/ ReviewPlan \/ Record \/ Seal
  \/ OpenReader \/ VerifyOpened
  \/ \E c \in ToSet(Order) : Show(c)

Spec == Init /\ [][Next]_vars

-----------------------------------------------------------------------------
\* A text that is shown is the one the pinned manifest names, of an entry whose
\* right was approved for the way the text was obtained and covers the day it is
\* shown; whatever was edited since, in whatever order files were read.
ShownIsPinnedAndCurrent ==
  shown # None /\ shown.text # None =>
    LET entry == shown.pin.plan.entries[shown.company]
    IN /\ shown.text = shown.pin.records[shown.company].text
       /\ entry.status = "AVAILABLE" /\ Approved(entry, shown.pin.plan.mode)
       /\ InWindow(entry, shown.day)

-----------------------------------------------------------------------------
(* The text selected from a page that was fetched.  A page is a sequence of
   tokens: an element is opened or closed, a void element or data comes. *)

Ignored == {"svg"}

Fresh == [stack |-> <<>>, target |-> 0, ignore |-> 0, matches |-> 0, malformed |-> FALSE, text |-> <<>>]

Opened(s, t) ==
  [s EXCEPT !.stack = Append(@, t.tag),
            !.matches = IF t.match THEN @ + 1 ELSE @,
            !.target = IF t.match /\ @ = 0 THEN Len(s.stack) + 1 ELSE @,
            !.ignore = IF t.tag \in Ignored THEN @ + 1 ELSE @]

Closed(s, tag) ==
  [s EXCEPT !.ignore = IF tag \in Ignored /\ @ > 0 THEN @ - 1 ELSE @,
            !.target = IF @ = Len(s.stack) THEN 0 ELSE @,
            !.stack = Front(@)]

\* An end tag that closes nothing is skipped, but not inside the target.
Closes(s, tag) == s.stack # <<>> /\ Last(s.stack) = tag

Fed(page, s, i) ==
  LET t == page[i] IN
  CASE t.kind = "open" -> Opened(s, t)
    [] t.kind = "void" -> Closed(Opened(s, t), t.tag)
    [] t.kind = "close" -> IF Closes(s, t.tag) THEN Closed(s, t.tag)
                           ELSE [s EXCEPT !.malformed = @ \/ s.target # 0]
    [] t.kind = "data" -> IF s.target # 0 /\ s.ignore = 0 THEN [s EXCEPT !.text = Append(@, i)] ELSE s

\* What the parser knows after each number of tokens.
Parses(page) ==
  LET parser[n \in 0 .. Len(page)] == IF n = 0 THEN Fresh ELSE Fed(page, parser[n - 1], n)
  IN parser
Parse(page) == Parses(page)[Len(page)]

\* The text, or nothing where the page is refused.
Selection(page) ==
  LET s == Parse(page)
  IN IF s.malformed \/ s.target # 0 \/ s.matches # 1 THEN <<>> ELSE s.text

\* The reference: an element is what lies between a tag and the end tag that
\* balances it.
Depth(page, a, b) ==
  Cardinality({i \in a .. b : page[i].kind = "open"}) - Cardinality({i \in a .. b : page[i].kind = "close"})
Element(page, a, b) ==
  /\ page[a].kind = "open" /\ page[b].kind = "close"
  /\ page[a].tag = page[b].tag
  /\ Depth(page, a, b) = 0
  /\ \A i \in a .. (b - 1) : Depth(page, a, i) > 0
WellNested(page, a, b) ==
  Element(page, a, b) /\ \A i \in a .. b : page[i].kind = "open" => \E j \in i .. b : Element(page, i, j)
Hidden(page, i) == \E a \in 1 .. i, b \in i .. Len(page) : page[a].tag \in Ignored /\ Element(page, a, b)

\* The text of a page that is accepted is exactly the visible data of its one
\* matching element, which is well nested: nothing outside of it, nothing of a
\* script or drawing, and nothing missing (_SelectedTextParser).
SelectedTextIsExact(page) ==
  Selection(page) # <<>> =>
    \E a \in DOMAIN page, b \in DOMAIN page :
      /\ page[a].match
      /\ \A i \in DOMAIN page : page[i].match => i = a
      /\ WellNested(page, a, b)
      /\ Range(Selection(page)) = {i \in a .. b : page[i].kind = "data" /\ ~Hidden(page, i)}
      /\ \A j, k \in DOMAIN Selection(page) : j < k => Selection(page)[j] < Selection(page)[k]
===============================================================================
