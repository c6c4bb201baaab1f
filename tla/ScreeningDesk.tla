---------------------------- MODULE ScreeningDesk ----------------------------
(***************************************************************************)
(* The screening service over one journal: sec_xbrl.screening.service,     *)
(* store and the request handlers of server.                               *)
(*                                                                         *)
(* Server processes and commands share the SQLite journal.  Each process   *)
(* opens the publication of the dataset once, when it starts; a restart    *)
(* may find another publication under the same dataset ID.  A journal      *)
(* transaction is atomic and loses nothing when its process dies, but a    *)
(* request is seldom one transaction: the integrity check, a comparison of *)
(* two runs, an export and a download read or write several times.         *)
(*                                                                         *)
(* Rows are a function of the condition and the publication and of nothing *)
(* else, so a pair stands for them, and for the digests made from them.    *)
(* Identifiers are positions in their tables.  The chain of decisions is   *)
(* the subject of DecisionJournal; here a decision is the run it is about. *)
(***************************************************************************)
EXTENDS Naturals, Sequences, FiniteSets

CONSTANTS
  Processes,     \* server threads and commands
  Publications,  \* the publications that appear under the dataset ID
  Contents,      \* conditions: universe, predicates, period policy
  Paths,         \* export destinations
  NoContext,     \* a condition saved without a dataset
  NoFile,        \* nothing at an export path
  NoPreview,     \* nobody holds a preview
  NoAnswer,      \* the last step answered nobody
  MaxRevisions, MaxRuns, MaxRows  \* bounds on two tables and on all together

ASSUME DeskAssumption ==
  /\ NoContext \notin Publications /\ NoFile \notin Nat
  /\ {MaxRevisions, MaxRuns, MaxRows} \subseteq Nat

VARIABLES
  screens,    \* definitions, as their save kind
  revisions,  \* condition versions
  runs,       \* results
  decisions,  \* the run of every decision event
  exports,    \* export manifests
  files,      \* the run whose rows lie at each export path
  served,     \* the publication each process opened
  preview,    \* the preview somebody looks at, until it is saved
  op,         \* what each process is doing
  answer,     \* what the last step told its client, if it told anything
  abandoned   \* paths where a process died between its rename and its registration

journal == <<screens, revisions, runs, decisions, exports>>
outside == <<files, served, abandoned>>
deskVars == <<journal, outside, preview, op, answer>>

Rows(content, publication) == <<content, publication>>
Positions(table) == 1..Len(table)
Contexts == Publications \cup {NoContext}

Idle == [at |-> "idle"]
Unoccupied(p) == op[p] = Idle
Silent == answer' = NoAnswer
Room == Len(revisions) + Len(runs) + Len(decisions) + Len(exports) < MaxRows

DeskInit ==
  /\ screens = <<>> /\ revisions = <<>> /\ runs = <<>> /\ decisions = <<>> /\ exports = <<>>
  /\ files = [path \in Paths |-> NoFile]
  /\ served \in [Processes -> Publications]
  /\ preview = NoPreview /\ answer = NoAnswer
  /\ op = [p \in Processes |-> Idle]
  /\ abandoned = {}

-----------------------------------------------------------------------------
(* Conditions and their versions.                                          *)

\* Ghost: a check or a comparison that is under way is no longer quiet.
Disturb(p, at) ==
  op' = [q \in Processes |-> IF op[q].at \in at THEN [op[q] EXCEPT !.quiet = FALSE] ELSE op[q]]

AddScreen(kind, content, context) ==
  /\ Room /\ Len(revisions) < MaxRevisions
  /\ screens' = Append(screens, kind)
  /\ revisions' = Append(revisions,
       [screen |-> Len(screens) + 1, number |-> 1, parent |-> 0, content |-> content, context |-> context])

CreateScreen(p, content, context) ==
  /\ Unoccupied(p) /\ context \in {NoContext, served[p]}
  /\ AddScreen("EXPLICIT_CONDITION", content, context)
  /\ Disturb(p, {"defined", "revised"}) /\ Silent
  /\ UNCHANGED <<runs, decisions, exports, outside, preview>>

VersionsOf(screen) == {r \in Positions(revisions) : revisions[r].screen = screen}
\* Mutant: any version is taken, as a query without an order would.
CurrentAny(screen) == CHOOSE r \in VersionsOf(screen) : TRUE
Current(screen) ==
  CHOOSE r \in VersionsOf(screen) : \A s \in VersionsOf(screen) : revisions[s].number <= revisions[r].number

\* One transaction under BEGIN IMMEDIATE: no row when nothing changes, the
\* context there was when none is asked for, and never a result's backing.
ReviseScreen(p, screen, content, asked) ==
  LET current == Current(screen)
      context == IF asked = NoContext THEN revisions[current].context ELSE asked
  IN  /\ Unoccupied(p) /\ Room /\ Len(revisions) < MaxRevisions
      /\ asked \in {NoContext, served[p]}
      /\ screens[screen] = "EXPLICIT_CONDITION"
      /\ <<content, context>> # <<revisions[current].content, revisions[current].context>>
      /\ revisions' = Append(revisions,
           [screen |-> screen, number |-> revisions[current].number + 1, parent |-> current,
            content |-> content, context |-> context])
      /\ Disturb(p, {"defined", "revised"}) /\ Silent
      /\ UNCHANGED <<screens, runs, decisions, exports, outside, preview>>

-----------------------------------------------------------------------------
(* Evaluations and what is kept of them.                                   *)

AddRun(revision, publication, rows) ==
  /\ Room /\ Len(runs) < MaxRuns
  /\ runs' = Append(runs, [revision |-> revision, publication |-> publication, rows |-> rows])

\* execute: a revision never changes, so the one read before the evaluation
\* is the one there when the run is inserted.
Execute(p, revision) ==
  /\ Unoccupied(p) /\ Silent
  /\ AddRun(revision, served[p], Rows(revisions[revision].content, served[p]))
  /\ UNCHANGED <<screens, revisions, decisions, exports, outside, preview, op>>

\* The answer carries a digest of the condition, the dataset and the rows.
Preview(p, content) ==
  /\ Unoccupied(p) /\ Silent /\ Len(runs) < MaxRuns
  /\ preview' = Rows(content, served[p])
  /\ UNCHANGED <<journal, outside, op>>

\* Mutant: the digest covers the condition alone.
PreviewOfCondition(p, content) == preview # NoPreview /\ preview[1] = content
\* The digest that is sent back must be that of the evaluation made now.
PreviewHolds(p, content) == preview = Rows(content, served[p])

\* save_result with a saved condition: its dataset must be the one evaluated,
\* and the transaction compares its content with the one previewed.
SaveResultOf(p, revision, content) ==
  /\ Unoccupied(p) /\ Silent /\ PreviewHolds(p, content)
  /\ revisions[revision].context \in {NoContext, served[p]}
  /\ revisions[revision].content = content
  /\ AddRun(revision, served[p], Rows(content, served[p]))
  /\ preview' = NoPreview
  /\ UNCHANGED <<screens, revisions, decisions, exports, outside, op>>

\* save_result of a draft: one transaction writes a hidden condition and the run.
SaveDraft(p, content) ==
  /\ Unoccupied(p) /\ Silent /\ PreviewHolds(p, content)
  /\ AddScreen("RESULT_BACKING", content, NoContext)
  /\ AddRun(Len(revisions) + 1, served[p], Rows(content, served[p]))
  /\ preview' = NoPreview
  /\ Disturb(p, {"defined", "revised"})
  /\ UNCHANGED <<decisions, exports, outside>>

AddDecision(p, run) ==
  /\ Unoccupied(p) /\ Room /\ Silent
  /\ decisions' = Append(decisions, run)
  /\ Disturb(p, {"compare"})
  /\ UNCHANGED <<screens, revisions, runs, exports, outside, preview>>

\* saved_condition: the publication it was saved with, or else the only one
\* its runs were made with, must be the one served.
RunsOf(revision) == {r \in Positions(runs) : runs[r].revision = revision}
HomesOf(revision) ==
  IF revisions[revision].context # NoContext THEN {revisions[revision].context}
  ELSE {runs[r].publication : r \in RunsOf(revision)}
OpenSaved(p, revision) ==
  /\ Unoccupied(p) /\ HomesOf(revision) = {served[p]}
  /\ answer' = [to |-> "open", revision |-> revision, publication |-> served[p]]
  /\ UNCHANGED <<journal, outside, preview, op>>

-----------------------------------------------------------------------------
(* integrity_check: definitions, revisions and save kinds are read by      *)
(* statements of their own, each of the journal as it is then.             *)
CheckDefinitions(p) ==
  /\ Unoccupied(p) /\ Silent
  /\ op' = [op EXCEPT ![p] = [at |-> "defined", defined |-> Len(screens), quiet |-> TRUE]]
  /\ UNCHANGED <<journal, outside, preview>>

CheckRevisions(p) ==
  /\ op[p].at = "defined" /\ Silent
  /\ op' = [op EXCEPT ![p] = [at |-> "revised", defined |-> @.defined, seen |-> Len(revisions), quiet |-> @.quiet]]
  /\ UNCHANGED <<journal, outside, preview>>

\* Numbers 1, 2, ... and each parent the version before: _validate_revision_graph.
GraphIsSound(defined, seen) ==
  /\ \A r \in 1..seen : revisions[r].screen <= defined
  /\ \A screen \in 1..defined :
       LET own == {r \in 1..seen : revisions[r].screen = screen}
       IN  /\ own # {} /\ {revisions[r].number : r \in own} = 1..Cardinality(own)
           /\ \A r \in own :
                IF revisions[r].number = 1 THEN revisions[r].parent = 0
                ELSE \E s \in own : revisions[r].parent = s /\ revisions[r].number = revisions[s].number + 1

CheckKinds(p) ==
  /\ op[p].at = "revised"
  /\ answer' = [to |-> "check", quiet |-> op[p].quiet,
                passed |-> Len(screens) = op[p].defined /\ GraphIsSound(op[p].defined, op[p].seen)]
  /\ op' = [op EXCEPT ![p] = Idle]
  /\ UNCHANGED <<journal, outside, preview>>

-----------------------------------------------------------------------------
(* compare_runs reads the decisions once for each run.                     *)
DecidedOn(run) == \E d \in Positions(decisions) : decisions[d] = run

CompareOld(p, old, new) ==
  /\ Unoccupied(p) /\ Silent
  /\ op' = [op EXCEPT ![p] = [at |-> "compare", old |-> old, new |-> new,
                              decided |-> DecidedOn(old), quiet |-> TRUE]]
  /\ UNCHANGED <<journal, outside, preview>>

DataChange(old, new) == IF runs[old].publication # runs[new].publication THEN {"data"} ELSE {}

Changes(old, new, decided) ==
  DataChange(old, new)
  \cup (IF runs[old].revision # runs[new].revision THEN {"condition_revision"} ELSE {})
  \cup (IF decided # DecidedOn(new) THEN {"manual_decision"} ELSE {})

CompareNew(p) ==
  /\ op[p].at = "compare"
  /\ answer' = [to |-> "compare", old |-> op[p].old, new |-> op[p].new, quiet |-> op[p].quiet,
                changed |-> Changes(op[p].old, op[p].new, op[p].decided)]
  /\ op' = [op EXCEPT ![p] = Idle]
  /\ UNCHANGED <<journal, outside, preview>>

-----------------------------------------------------------------------------
(* export_run: the destination must be new, the file is renamed into place *)
(* (over whatever has come there since), hashed, and registered.           *)
\* Mutant: what lies there already is written over.
ExportStartOver(p, run, path) ==
  /\ Unoccupied(p) /\ Room /\ Silent
  /\ op' = [op EXCEPT ![p] = [at |-> "export", run |-> run, path |-> path]]
  /\ UNCHANGED <<journal, outside, preview>>
ExportStart(p, run, path) ==
  /\ Unoccupied(p) /\ Room /\ Silent /\ files[path] = NoFile
  /\ op' = [op EXCEPT ![p] = [at |-> "export", run |-> run, path |-> path]]
  /\ UNCHANGED <<journal, outside, preview>>

ExportRename(p) ==
  /\ op[p].at = "export" /\ Silent
  /\ files' = [files EXCEPT ![op[p].path] = op[p].run]
  /\ abandoned' = abandoned \ {op[p].path}
  /\ op' = [op EXCEPT ![p].at = "renamed"]
  /\ UNCHANGED <<journal, served, preview>>

\* The digest is that of the file as it is now; there may be none any more.
ExportHash(p) ==
  /\ op[p].at = "renamed" /\ Silent
  /\ op' = [op EXCEPT ![p] = IF files[@.path] = NoFile THEN Idle
              ELSE [at |-> "hashed", run |-> @.run, path |-> @.path, sha |-> files[@.path]]]
  /\ UNCHANGED <<journal, outside, preview>>

ExportRegister(p) ==
  /\ op[p].at = "hashed" /\ Room /\ Silent
  /\ exports' = Append(exports, [run |-> op[p].run, path |-> op[p].path, sha |-> op[p].sha])
  /\ op' = [op EXCEPT ![p] = Idle]
  /\ UNCHANGED <<screens, revisions, runs, decisions, outside, preview>>

\* The journal stayed locked: whatever lies at the path is removed.
ExportFails(p) ==
  /\ op[p].at = "hashed" /\ Silent
  /\ files' = [files EXCEPT ![op[p].path] = NoFile]
  /\ abandoned' = abandoned \ {op[p].path}
  /\ op' = [op EXCEPT ![p] = Idle]
  /\ UNCHANGED <<journal, served, preview>>

\* Ghost: the exports to a path that are under way.
Exporters(path) == {p \in Processes : op[p].at \in {"export", "renamed", "hashed"} /\ op[p].path = path}
ExportsAt(path) == {e \in Positions(exports) : exports[e].path = path}
\* export_for_path: exactly one registration, and it describes the file.
Registration(path) ==
  {e \in ExportsAt(path) : ExportsAt(path) = {e} /\ exports[e].sha = files[path]}

\* GET /exports: the check, and then the bytes are read.
DownloadCheck(p, path) ==
  /\ Unoccupied(p) /\ Silent /\ files[path] # NoFile
  /\ \E e \in Registration(path) :
       op' = [op EXCEPT ![p] = [at |-> "download", path |-> path, run |-> exports[e].run,
                                alone |-> path \notin abandoned /\ Exporters(path) = {}]]
  /\ UNCHANGED <<journal, outside, preview>>

DownloadRead(p) ==
  /\ op[p].at = "download"
  /\ answer' = IF files[op[p].path] = NoFile THEN NoAnswer
               ELSE [to |-> "download", run |-> op[p].run, rows |-> files[op[p].path],
                     alone |-> op[p].alone]
  /\ op' = [op EXCEPT ![p] = Idle]
  /\ UNCHANGED <<journal, outside, preview>>

\* A process dies, or is started again, and opens the dataset as it is now.
Restart(p, publication) ==
  /\ Silent
  /\ served' = [served EXCEPT ![p] = publication]
  /\ op' = [op EXCEPT ![p] = Idle]
  /\ abandoned' = abandoned \cup (IF op[p].at \in {"renamed", "hashed"} THEN {op[p].path} ELSE {})
  /\ UNCHANGED <<journal, files, preview>>

-----------------------------------------------------------------------------
\* The answers of a GET: what is saved, compared, checked or exported.
Get(p) ==
  \/ \E revision \in Positions(revisions) : OpenSaved(p, revision)
  \/ CheckDefinitions(p) \/ CheckRevisions(p) \/ CheckKinds(p)
  \/ \E old, new \in Positions(runs) : CompareOld(p, old, new)
  \/ CompareNew(p)
  \/ \E path \in Paths : DownloadCheck(p, path)
  \/ DownloadRead(p)

\* The requests that write.
Post(p) ==
  \/ \E content \in Contents, context \in Contexts : CreateScreen(p, content, context)
  \/ \E screen \in Positions(screens), content \in Contents, asked \in Contexts :
       ReviseScreen(p, screen, content, asked)
  \/ \E content \in Contents : Preview(p, content) \/ SaveDraft(p, content)
  \/ \E revision \in Positions(revisions) :
       \/ Execute(p, revision)
       \/ \E content \in Contents : SaveResultOf(p, revision, content)
  \/ \E run \in Positions(runs) : AddDecision(p, run)
  \/ \E run \in Positions(runs), path \in Paths : ExportStart(p, run, path)
  \/ ExportRename(p) \/ ExportHash(p) \/ ExportRegister(p) \/ ExportFails(p)

DeskNext ==
  \E p \in Processes :
    Get(p) \/ Post(p) \/ (\E publication \in Publications : Restart(p, publication))

DeskSpec == DeskInit /\ [][DeskNext]_deskVars

-----------------------------------------------------------------------------
\* What reads the journal in several statements is not misled.  The versions of
\* a condition are numbered without a gap, each after the one before it,
\* whichever requests wrote them; so an integrity check fails only when somebody
\* saved a condition while it read.  A comparison that names no change, or only a
\* decision, compared equal rows; and it names a decision wrongly only when one
\* arrived while it read (integrity_check, compare_runs).
ReadsInPartsAreHonest ==
  /\ GraphIsSound(Len(screens), Len(revisions))
  /\ answer # NoAnswer /\ answer.to = "check" /\ answer.quiet => answer.passed
  /\ answer # NoAnswer /\ answer.to = "compare" =>
       /\ answer.changed \subseteq {"manual_decision"} => runs[answer.old].rows = runs[answer.new].rows
       /\ answer.quiet => ("manual_decision" \in answer.changed <=> DecidedOn(answer.old) # DecidedOn(answer.new))

\* A result shows what its condition gives on the publication it names, and
\* the rows of a saved draft are those of the preview its author looked at.
ShowsItsCondition(run) ==
  run.revision \in Positions(revisions)
    /\ run.rows = Rows(revisions[run.revision].content, run.publication)
SavesWhatWasPreviewed ==
  Len(screens') > Len(screens) /\ screens'[Len(screens')] = "RESULT_BACKING"
    => runs'[Len(runs')].rows = preview
ResultsAreTheirConditions ==
  /\ [](\A r \in Positions(runs) : ShowsItsCondition(runs[r]))
  /\ [][SavesWhatWasPreviewed]_deskVars

\* What is handed out under a registered name is the export of the run that
\* the registration names, unless another export to that path was under way
\* when it was checked, or had died after its rename and before it registered.
HandsOutTheRegisteredRun ==
  answer # NoAnswer /\ answer.to = "download" /\ answer.alone => answer.rows = answer.run
=============================================================================
