-------------------------- MODULE JournalLifecycle --------------------------
(***************************************************************************)
(* The trash of the screening journal: browser tabs that show a snapshot   *)
(* of it (examples/screening/display-assets/app.js, journalHistory) and    *)
(* the history worker that keeps the append-only log of DELETE and RESTORE *)
(* (examples/screening/journal_history.py).  Calls are served in any order *)
(* and at any time; an answer may never come, and the change that the call *)
(* asked for may still be made afterwards.                                 *)
(***************************************************************************)
EXTENDS Naturals, Sequences, FiniteSets

CONSTANTS
  Tabs, Records,
  None,
  MaxLog,       \* bound: events in the log
  MaxRequest,   \* bound, per tab: reads it drops
  MaxAttempts,  \* bound, per tab: changes it sends
  MaxDialogs    \* bound, per tab: confirmations it opens

ASSUME FiniteRecords == IsFiniteSet(Records)
ASSUME BoundsAreNumbers ==
  /\ MaxLog \in Nat
  /\ MaxRequest \in [Tabs -> Nat] /\ MaxAttempts \in [Tabs -> Nat] /\ MaxDialogs \in [Tabs -> Nat]

Actions == {"DELETE", "RESTORE"}

VARIABLES
  log,       \* journal_lifecycle_events; `by' is the confirmation behind the event
  calls,     \* sent by a tab, not yet served
  replies,   \* served, not yet received
  view,      \* per tab: the version and the trash it last applied
  fresh,     \* per tab: journalHistory.snapshot is not null
  error,     \* per tab: journalHistory.error is set, the records are not shown
  request,   \* per tab: journalHistory.request
  reading,   \* per tab: the request of journalHistory.promise, or None
  dialog,    \* per tab: journalHistory.confirm, or None
  pending,   \* per tab: "no", "sent" (waits for the change), "reread"
  attempts,  \* per tab: changes sent
  opened,    \* per tab: confirmations opened
  acked      \* per tab: the version its last successful change came back with

tabVars == <<view, fresh, error, request, reading, dialog, pending, attempts,
             opened, acked>>
lifecycleVars == <<log, calls, replies, tabVars>>

Ids == UNION {{t} \X (1 .. MaxDialogs[t]) : t \in Tabs}
LogEvent == [record : Records, action : Actions, by : Ids]

(* journalHistory.confirm; None is null.                                   *)
Dialogs == [id : Ids, action : Actions, items : SUBSET Records, version : Nat,
            shown : SUBSET Records, stale : BOOLEAN]
ASSUME NoneIsNoDialog == None \notin Dialogs

(* The records whose last event among the first n is a DELETE.             *)
TrashAt(events, n) ==
  {r \in Records :
     \E i \in 1 .. n :
       /\ events[i].record = r /\ events[i].action = "DELETE"
       /\ \A j \in i + 1 .. n : events[j].record # r}

Trash == TrashAt(log, Len(log))

Snapshot == [version |-> Len(log), trash |-> Trash]
Views == [version : 0 .. MaxLog, trash : SUBSET Records]

(* The tabs have loaded a journal in which nothing was ever trashed.       *)
LifecycleInit ==
  /\ log = << >> /\ calls = {} /\ replies = {}
  /\ view = [t \in Tabs |-> Snapshot]
  /\ fresh = [t \in Tabs |-> TRUE] /\ error = [t \in Tabs |-> FALSE]
  /\ request = [t \in Tabs |-> 0] /\ reading = [t \in Tabs |-> None]
  /\ dialog = [t \in Tabs |-> None] /\ pending = [t \in Tabs |-> "no"]
  /\ attempts = [t \in Tabs |-> 0] /\ opened = [t \in Tabs |-> 0]
  /\ acked = [t \in Tabs |-> 0]

Read(t, n) == [tab |-> t, what |-> "read", n |-> n]

-----------------------------------------------------------------------------
(* A tab reads.                                                            *)

(* historySnapshot without a snapshot and without a promise.               *)
StartRead(t) ==
  /\ ~fresh[t] /\ reading[t] = None
  /\ reading' = [reading EXCEPT ![t] = request[t]]
  /\ calls' = calls \cup {Read(t, request[t])}
  /\ UNCHANGED <<log, replies, view, fresh, error, request, dialog, pending,
                 attempts, opened, acked>>

(* invalidateHistoryRead, after a POST of another kind has succeeded or    *)
(* when the user asks for a new reading.                                   *)
Invalidate(t) ==
  /\ request[t] < MaxRequest[t]
  /\ fresh' = [fresh EXCEPT ![t] = FALSE]
  /\ request' = [request EXCEPT ![t] = @ + 1]
  /\ reading' = [reading EXCEPT ![t] = None]
  /\ UNCHANGED <<log, calls, replies, view, error, dialog, pending, attempts,
                 opened, acked>>

(* applyHistorySnapshot                                                    *)
Apply(t, snapshot) ==
  /\ view' = [view EXCEPT ![t] = snapshot]
  /\ fresh' = [fresh EXCEPT ![t] = TRUE]
  /\ error' = [error EXCEPT ![t] = FALSE]

(* The reply to the read that the tab waits for.                           *)
ReadReturns(t, m) ==
  /\ m \in replies /\ m.tab = t /\ m.what = "read" /\ m.n = request[t]
  /\ replies' = replies \ {m}
  /\ Apply(t, m.snapshot)
  /\ reading' = [reading EXCEPT ![t] = None]
  /\ UNCHANGED <<log, calls, request, dialog, pending, attempts, opened, acked>>

(* A read overtaken by an invalidation: its snapshot is not applied, and   *)
(* the tab reads again unless it already does or has.                      *)
ReadOvertaken(t, m) ==
  /\ m \in replies /\ m.tab = t /\ m.what = "read" /\ m.n # request[t]
  /\ replies' = replies \ {m}
  /\ IF ~fresh[t] /\ reading[t] = None
       THEN /\ reading' = [reading EXCEPT ![t] = request[t]]
            /\ calls' = calls \cup {Read(t, request[t])}
       ELSE UNCHANGED <<reading, calls>>
  /\ UNCHANGED <<log, view, fresh, error, request, dialog, pending, attempts,
                 opened, acked>>

(* A read fails, or is not answered in time: historyUnavailable, even if   *)
(* it had been overtaken and a later one has been applied.                 *)
ReadFails(t, n) ==
  LET lost == {m \in calls \cup replies : m.tab = t /\ m.what = "read" /\ m.n = n}
  IN /\ lost # {}
     /\ calls' = calls \ lost /\ replies' = replies \ lost
     /\ reading' = [reading EXCEPT ![t] = IF @ = n THEN None ELSE @]
     /\ fresh' = [fresh EXCEPT ![t] = FALSE]
     /\ error' = [error EXCEPT ![t] = TRUE]
     /\ UNCHANGED <<log, view, request, dialog, pending, attempts, opened, acked>>

-----------------------------------------------------------------------------
(* A tab changes.                                                          *)

(* The dialog keeps the items, the version and, for the properties, the    *)
(* trash that the user has before him.                                     *)
OpenDialog(t, action, items) ==
  /\ pending[t] = "no" /\ dialog[t] = None /\ ~error[t]
  /\ opened[t] < MaxDialogs[t]
  /\ items # {}
  /\ items \subseteq (IF action = "DELETE" THEN Records \ view[t].trash
                                           ELSE view[t].trash)
  /\ action = "RESTORE" => fresh[t]
  /\ opened' = [opened EXCEPT ![t] = @ + 1]
  /\ dialog' = [dialog EXCEPT ![t] =
                  [id |-> <<t, opened'[t]>>, action |-> action, items |-> items,
                   version |-> view[t].version, shown |-> view[t].trash,
                   stale |-> FALSE]]
  /\ UNCHANGED <<log, calls, replies, view, fresh, error, request, reading,
                 pending, attempts, acked>>

CloseDialog(t) ==
  /\ pending[t] = "no" /\ dialog[t] # None
  /\ dialog' = [dialog EXCEPT ![t] = None]
  /\ UNCHANGED <<log, calls, replies, view, fresh, error, request, reading,
                 pending, attempts, opened, acked>>

(* The same dialog may be submitted again if the last attempt failed       *)
(* without an answer.                                                      *)
SubmitChange(t) ==
  /\ pending[t] = "no" /\ dialog[t] # None
  /\ ~dialog[t].stale
  /\ attempts[t] < MaxAttempts[t]
  /\ attempts' = [attempts EXCEPT ![t] = @ + 1]
  /\ pending' = [pending EXCEPT ![t] = "sent"]
  /\ calls' = calls \cup {[tab |-> t, what |-> "change", n |-> attempts'[t],
                           dialog |-> dialog[t]]}
  /\ UNCHANGED <<log, replies, view, fresh, error, request, reading, dialog,
                 opened, acked>>

Awaited(m) == m.what = "change" /\ pending[m.tab] = "sent" /\ m.n = attempts[m.tab]

\* Mutant: the answer of a change leaves the reads that are under way alone.
ChangeReturnsBesideReads(t, m) ==
  /\ m \in replies /\ m.tab = t /\ Awaited(m) /\ m.status = "ok"
  /\ replies' = replies \ {m}
  /\ Apply(t, m.snapshot)
  /\ dialog' = [dialog EXCEPT ![t] = None]
  /\ pending' = [pending EXCEPT ![t] = "no"]
  /\ acked' = [acked EXCEPT ![t] = m.snapshot.version]
  /\ UNCHANGED <<log, calls, request, reading, attempts, opened>>

(* api() has succeeded: it invalidates the reads that are under way, then  *)
(* the snapshot in the answer is applied and the dialog closed.            *)
ChangeReturns(t, m) ==
  /\ m \in replies /\ m.tab = t /\ Awaited(m) /\ m.status = "ok"
  /\ request[t] < MaxRequest[t]
  /\ replies' = replies \ {m}
  /\ request' = [request EXCEPT ![t] = @ + 1]
  /\ reading' = [reading EXCEPT ![t] = None]
  /\ Apply(t, m.snapshot)
  /\ dialog' = [dialog EXCEPT ![t] = None]
  /\ pending' = [pending EXCEPT ![t] = "no"]
  /\ acked' = [acked EXCEPT ![t] = m.snapshot.version]
  /\ UNCHANGED <<log, calls, attempts, opened>>

(* 409: the dialog is stale and the tab reads again before it can be       *)
(* closed.                                                                 *)
ChangeConflicts(t, m) ==
  /\ m \in replies /\ m.tab = t /\ Awaited(m) /\ m.status = "conflict"
  /\ request[t] < MaxRequest[t]
  /\ replies' = replies \ {m}
  /\ dialog' = [dialog EXCEPT ![t].stale = TRUE]
  /\ request' = [request EXCEPT ![t] = @ + 1]
  /\ fresh' = [fresh EXCEPT ![t] = FALSE]
  /\ reading' = [reading EXCEPT ![t] = request'[t]]
  /\ calls' = calls \cup {Read(t, request'[t])}
  /\ pending' = [pending EXCEPT ![t] = "reread"]
  /\ UNCHANGED <<log, view, error, attempts, opened, acked>>

RereadEnds(t) ==
  /\ pending[t] = "reread" /\ reading[t] = None
  /\ pending' = [pending EXCEPT ![t] = "no"]
  /\ UNCHANGED <<log, calls, replies, view, fresh, error, request, reading,
                 dialog, attempts, opened, acked>>

(* Any other failure.  A 5xx makes the history unavailable; a lost         *)
(* connection or a 400 does not.  The call may be served all the same,     *)
(* then or later; its reply finds nobody.                                  *)
ChangeFails(t) ==
  /\ pending[t] = "sent"
  /\ pending' = [pending EXCEPT ![t] = "no"]
  /\ replies' = {m \in replies : m.tab # t \/ m.what # "change"}
  /\ \/ /\ error' = [error EXCEPT ![t] = TRUE]
        /\ fresh' = [fresh EXCEPT ![t] = FALSE]
     \/ UNCHANGED <<error, fresh>>
  /\ UNCHANGED <<log, calls, view, request, reading, dialog, attempts, opened, acked>>

-----------------------------------------------------------------------------
(* The worker.                                                             *)

ServeRead(m) ==
  /\ m \in calls /\ m.what = "read"
  /\ calls' = calls \ {m}
  /\ replies' = replies \cup
       {[tab |-> m.tab, what |-> "read", n |-> m.n, snapshot |-> Snapshot]}
  /\ UNCHANGED <<log, tabVars>>

(* The items that do not have the requested state yet.                     *)
Transitions(d) == IF d.action = "DELETE" THEN d.items \ Trash ELSE d.items \cap Trash

\* Mutant: the expected version is only checked for being a number.
ConflictNever(d) == FALSE

(* Only a change that changes something needs the confirmed version.       *)
Conflict(d) == Transitions(d) # {} /\ Len(log) # d.version

Orders(S) == {f \in [1 .. Cardinality(S) -> S] : \A r \in S : \E i \in DOMAIN f : f[i] = r}

(* The bridge drops the reply of a call that nobody waits for.             *)
ReplyTo(m, reply) == IF Awaited(m) THEN replies \cup {reply} ELSE replies

ServeConflict(m) ==
  /\ m \in calls /\ m.what = "change"
  /\ Conflict(m.dialog)
  /\ calls' = calls \ {m}
  /\ replies' = ReplyTo(m, [tab |-> m.tab, what |-> "change", n |-> m.n,
                            status |-> "conflict"])
  /\ UNCHANGED <<log, tabVars>>

\* Mutant: each item in a transaction of its own; the later ones may fail.
ServeChangeOneByOne(m) ==
  /\ m \in calls /\ m.what = "change"
  /\ ~Conflict(m.dialog)
  /\ \E some \in SUBSET Transitions(m.dialog) :
       /\ Len(log) + Cardinality(some) <= MaxLog
       /\ \E order \in Orders(some) :
            log' = log \o [i \in DOMAIN order |->
                             [record |-> order[i], action |-> m.dialog.action,
                              by |-> m.dialog.id]]
  /\ calls' = calls \ {m}
  /\ replies' = ReplyTo(m, [tab |-> m.tab, what |-> "change", n |-> m.n,
                            status |-> "ok", snapshot |-> Snapshot'])
  /\ UNCHANGED tabVars

(* change_batch: one transaction appends every transition; the snapshot    *)
(* for the answer is taken after it.                                       *)
ServeChange(m) ==
  /\ m \in calls /\ m.what = "change"
  /\ ~Conflict(m.dialog)
  /\ Len(log) + Cardinality(Transitions(m.dialog)) <= MaxLog
  /\ \E order \in Orders(Transitions(m.dialog)) :
       log' = log \o [i \in DOMAIN order |->
                        [record |-> order[i], action |-> m.dialog.action,
                         by |-> m.dialog.id]]
  /\ calls' = calls \ {m}
  /\ replies' = ReplyTo(m, [tab |-> m.tab, what |-> "change", n |-> m.n,
                            status |-> "ok", snapshot |-> Snapshot'])
  /\ UNCHANGED tabVars

LifecycleNext ==
  \/ \E t \in Tabs :
       \/ StartRead(t) \/ Invalidate(t)
       \/ \E n \in 0 .. MaxRequest[t] : ReadFails(t, n)
       \/ \E action \in Actions, items \in SUBSET Records : OpenDialog(t, action, items)
       \/ CloseDialog(t) \/ SubmitChange(t) \/ RereadEnds(t) \/ ChangeFails(t)
       \/ \E m \in replies :
            \/ ReadReturns(t, m) \/ ReadOvertaken(t, m)
            \/ ChangeReturns(t, m) \/ ChangeConflicts(t, m)
  \/ \E m \in calls : ServeRead(m) \/ ServeConflict(m) \/ ServeChange(m)

LifecycleSpec == LifecycleInit /\ [][LifecycleNext]_lifecycleVars

-----------------------------------------------------------------------------
(* Correctness.                                                            *)

(* What a tab shows is the trash as it was at the version the tab would    *)
(* confirm, whatever answers have overtaken each other, and once its own   *)
(* change is acknowledged no read that was under way before takes the tab  *)
(* back to a version without it (request and promise in                    *)
(* invalidateHistoryRead and historySnapshot).                             *)
ViewIsHonest ==
  \A t \in Tabs :
    /\ view[t].version <= Len(log)
    /\ view[t].trash = TrashAt(log, view[t].version)
    /\ view[t].version >= acked[t]

(* A change is made on exactly the trash the user had before him when he   *)
(* confirmed it, and makes exactly the change he confirmed, however late   *)
(* it is served: otherwise it is a conflict (change_batch's                *)
(* expected_version and Conflict).                                         *)
ConfirmedAsShown ==
  [][log' # log =>
       \E m \in calls \ calls' :
         /\ Trash = m.dialog.shown
         /\ Trash' = IF m.dialog.action = "DELETE"
                       THEN m.dialog.shown \cup m.dialog.items
                       ELSE m.dialog.shown \ m.dialog.items]_lifecycleVars

(* A confirmation that is submitted again because its answer was lost does *)
(* not make its change twice, even if others have undone it meanwhile.     *)
OncePerConfirmation ==
  \A i, j \in 1 .. Len(log) :
    log[i].by = log[j].by /\ log[i].record = log[j].record => i = j

=============================================================================
