--------------------------- MODULE MCScreeningDesk ---------------------------
(***************************************************************************)
(* What stands behind the screening pages: a behaviour runs one of the two *)
(* and leaves the other where it starts; see the configuration for the     *)
(* bounds.                                                                 *)
(*                                                                         *)
(* Desk (ScreeningDesk): two server processes over one journal.            *)
(* History (JournalLifecycle): two tabs over one log of what is trashed;   *)
(* tab a may retry and reread, tab b comes between with one change.        *)
(***************************************************************************)
EXTENDS ScreeningDesk, JournalLifecycle, TLC

CONSTANTS a, b, r1, r2, c1

VARIABLE part

TwoOfA == (a :> 2) @@ (b :> 1)
OneEach == (a :> 1) @@ (b :> 1)

MCInit ==
  /\ DeskInit /\ LifecycleInit
  /\ \/ part = "desk"
     \/ part = "history" /\ \A p, q \in Processes : served[p] = served[q]

\* Contents and records are interchangeable: the first of the table is c1, r1.
FirstContent == revisions' # <<>> => revisions'[1].content = c1
FirstRecord == log' # <<>> => log'[1].record = r1

MCNext ==
  /\ UNCHANGED part
  /\ \/ part = "desk" /\ DeskNext /\ FirstContent /\ UNCHANGED lifecycleVars
     \/ part = "history" /\ LifecycleNext /\ FirstRecord /\ UNCHANGED deskVars

mcvars == <<part, deskVars, lifecycleVars>>
MCSpec == MCInit /\ [][MCNext]_mcvars

Symmetry ==
  UNION {Permutations(S) : S \in {Processes, Publications}}

(* Exports and downloads touch only runs and files, and nothing else does  *)
(* but the runs' own insertion: they are explored over one condition and   *)
(* one publication, with no decision, while nobody previews, checks or     *)
(* compares.  The rest is explored over one row less, a third version      *)
(* without results, and one check or comparison at a time, as these only   *)
(* read.                                                                   *)
Reading == {p \in Processes : op[p].at \in {"defined", "revised", "compare"}}
Exporting ==
  \/ exports # <<>> \/ \E path \in Paths : files[path] # NoFile \/ path \in abandoned
  \/ \E p \in Processes : op[p].at \in {"export", "renamed", "hashed", "download"}
DeskFocus ==
  IF Exporting
  THEN /\ Len(revisions) = 1 /\ decisions = <<>> /\ preview = NoPreview /\ Reading = {}
       /\ revisions[1].context = NoContext /\ \A p, q \in Processes : served[p] = served[q]
  ELSE /\ Len(revisions) + Len(runs) + Len(decisions) < MaxRows
       /\ Len(revisions) > 2 => runs = <<>> /\ preview = NoPreview
       /\ Cardinality(Reading) <= 1

(* The reads of a tab touch nothing but that tab: one tab's at a time.     *)
HistoryFocus ==
  Cardinality({m.tab : m \in {x \in calls \cup replies : x.what = "read"}}) <= 1

Focus == IF part = "desk" THEN DeskFocus ELSE HistoryFocus
=============================================================================
