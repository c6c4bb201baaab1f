--------------------------- MODULE DecisionJournal ---------------------------
(***************************************************************************)
(* The decision events of sec_xbrl.screening.store.                        *)
(*                                                                         *)
(* The local server answers every request in a thread of its own, and each *)
(* writes through its own SQLite connection.  A decision names the event it*)
(* amends; readers order the events by time stamp and row and refuse the   *)
(* journal when an event does not name its predecessor in that order.  The *)
(* time stamp is taken before the write transaction begins.                *)
(*                                                                         *)
(* events is the table in row order, so an event's row is its index.  A    *)
(* transaction is BEGIN IMMEDIATE (which waits for the write lock), the    *)
(* reads, and the insert with its commit.                                  *)
(***************************************************************************)
EXTENDS Naturals, Sequences, FiniteSets

CONSTANTS
  Threads,     \* request threads
  Companies,   \* the CIKs decided on
  States,      \* INTEREST, HOLD, EXCLUDE
  Free,        \* nobody holds the write lock
  NoState,     \* before_state of a company's first decision
  NoEvent,     \* a thread has no request
  MaxEvents,   \* bound on the events written
  MaxTime      \* bound on the clock

ASSUME JournalAssumption ==
  /\ Free \notin Threads /\ NoState \notin States
  /\ MaxEvents \in Nat /\ MaxTime \in Nat

VARIABLES
  events,   \* the decision_events table
  clock,    \* the wall clock
  lock,     \* the holder of the SQLite write lock
  pc,       \* the phase of each thread
  call,     \* the request of each thread: what it will insert
  backup    \* the backup being taken, or taken

vars == <<events, clock, lock, pc, call, backup>>

Event == [cik : Companies, state : States, before : States \cup {NoState},
          previous : 0..MaxEvents, created_at : 0..MaxTime]

TypeOK ==
  /\ events \in Seq(Event) /\ Len(events) <= MaxEvents
  /\ clock \in 0..MaxTime
  /\ lock \in Threads \cup {Free}
  /\ pc \in [Threads -> {"idle", "stamped", "locked", "insert"}]
  /\ call \in [Threads -> Event \cup {NoEvent}]
  /\ \A t \in Threads : pc[t] # "idle" => call[t] \in Event
  /\ backup \in [stage : {"none", "copy", "verify", "manifest"}, rows : Seq(Event)]

Init ==
  /\ events = <<>> /\ clock = 0 /\ lock = Free
  /\ pc = [t \in Threads |-> "idle"]
  /\ call = [t \in Threads |-> NoEvent]
  /\ backup = [stage |-> "none", rows |-> <<>>]

\* Row j comes before row i for the readers: ORDER BY created_at, rowid.
Earlier(rows, j, i) ==
  \/ rows[j].created_at < rows[i].created_at
  \/ rows[j].created_at = rows[i].created_at /\ j < i

\* The rows of a company, and the last of a set of rows in that order, or 0.
RowsOf(rows, cik) == {i \in 1..Len(rows) : rows[i].cik = cik}
IsLast(rows, S, k) ==
  IF S = {} THEN k = 0 ELSE k \in S /\ \A j \in S \ {k} : Earlier(rows, j, k)

\* decisions() returns: every event names its predecessor and its state.
Readable(rows) ==
  \A i \in 1..Len(rows) :
    /\ IsLast(rows, {j \in RowsOf(rows, rows[i].cik) : Earlier(rows, j, i)},
              rows[i].previous)
    /\ rows[i].before = IF rows[i].previous = 0 THEN NoState
                        ELSE rows[rows[i].previous].state
-----------------------------------------------------------------------------
Tick ==
  /\ clock < MaxTime
  /\ clock' = clock + 1
  /\ UNCHANGED <<events, lock, pc, call, backup>>

\* The arguments are checked and the time stamp is taken.
Submit(t) ==
  /\ pc[t] = "idle" /\ Len(events) < MaxEvents
  /\ \E cik \in Companies, state \in States :
       call' = [call EXCEPT ![t] = [cik |-> cik, state |-> state, before |-> NoState,
                                    previous |-> 0, created_at |-> clock]]
  /\ pc' = [pc EXCEPT ![t] = "stamped"]
  /\ UNCHANGED <<events, clock, lock, backup>>

\* Mutant: a deferred transaction, which takes no lock before it reads.
BeginDeferred(t) ==
  /\ pc[t] = "stamped"
  /\ pc' = [pc EXCEPT ![t] = "locked"]
  /\ UNCHANGED <<events, clock, lock, call, backup>>

BeginImmediate(t) ==
  /\ pc[t] = "stamped" /\ lock = Free
  /\ lock' = t
  /\ pc' = [pc EXCEPT ![t] = "locked"]
  /\ UNCHANGED <<events, clock, call, backup>>

\* SELECT ... ORDER BY created_at DESC, rowid DESC LIMIT 1.
ReadPrior(t) ==
  /\ pc[t] = "locked"
  /\ \E k \in 0..Len(events) :
       /\ IsLast(events, RowsOf(events, call[t].cik), k)
       /\ call' = [call EXCEPT ![t].previous = k,
                               ![t].before = IF k = 0 THEN NoState ELSE events[k].state]
  /\ pc' = [pc EXCEPT ![t] = "insert"]
  /\ UNCHANGED <<events, clock, lock, backup>>

\* The request of t is over.
Finish(t) ==
  /\ pc' = [pc EXCEPT ![t] = "idle"]
  /\ call' = [call EXCEPT ![t] = NoEvent]
  /\ lock' = IF lock = t THEN Free ELSE lock

Insert(t) ==
  /\ pc[t] = "insert" /\ Len(events) < MaxEvents
  /\ events' = Append(events, call[t])
  /\ Finish(t)
  /\ UNCHANGED <<clock, backup>>

\* An unknown run, a lock that stays busy, a failing write or the death of the
\* server: the transaction is rolled back.
Abort(t) ==
  /\ pc[t] # "idle"
  /\ Finish(t)
  /\ UNCHANGED <<events, clock, backup>>
-----------------------------------------------------------------------------
\* backup_store, run beside the server: check the source, copy it with SQLite's
\* online backup, check the copy, and only then write the manifest.

BackupCheck ==
  /\ backup.stage = "none"
  /\ Readable(events)
  /\ backup' = [backup EXCEPT !.stage = "copy"]
  /\ UNCHANGED <<events, clock, lock, pc, call>>

BackupCopy ==
  /\ backup.stage = "copy"
  /\ backup' = [stage |-> "verify", rows |-> events]
  /\ UNCHANGED <<events, clock, lock, pc, call>>

\* Mutant: the check of the source is taken for the copy's.
BackupTrusted ==
  /\ backup.stage = "verify"
  /\ backup' = [backup EXCEPT !.stage = "manifest"]
  /\ UNCHANGED <<events, clock, lock, pc, call>>

BackupVerify ==
  /\ backup.stage = "verify"
  /\ backup' = IF Readable(backup.rows) THEN [backup EXCEPT !.stage = "manifest"]
               ELSE [stage |-> "none", rows |-> <<>>]
  /\ UNCHANGED <<events, clock, lock, pc, call>>

\* A finished backup is left where it is; the next one has a new destination.
BackupAgain ==
  /\ backup.stage = "manifest"
  /\ backup' = [stage |-> "none", rows |-> <<>>]
  /\ UNCHANGED <<events, clock, lock, pc, call>>

\* restore_store checks the backup's integrity into a new file; the server is
\* started again with it.
Restore ==
  /\ backup.stage = "manifest" /\ Readable(backup.rows)
  /\ events' = backup.rows
  /\ lock' = Free
  /\ pc' = [t \in Threads |-> "idle"] /\ call' = [t \in Threads |-> NoEvent]
  /\ UNCHANGED <<clock, backup>>

Next ==
  \/ Tick
  \/ \E t \in Threads : Submit(t) \/ BeginImmediate(t) \/ ReadPrior(t) \/ Insert(t) \/ Abort(t)
  \/ BackupCheck \/ BackupCopy \/ BackupVerify \/ BackupAgain \/ Restore

Spec == Init /\ [][Next]_vars
-----------------------------------------------------------------------------
\* Every row names a row of its company above it, and that row's state.
NamesEarlier(rows) ==
  \A i \in 1..Len(rows) :
    LET p == rows[i].previous
    IN  IF p = 0 THEN rows[i].before = NoState
        ELSE p < i /\ rows[p].cik = rows[i].cik /\ rows[p].state = rows[i].before

\* The rows were inserted in the order of their time stamps.
InStampOrder == \A i, j \in 1..Len(events) :
                  i < j => events[i].created_at <= events[j].created_at

(* Only a time stamp that is inserted out of order can break the chain: the *)
(* write lock alone keeps two concurrent decisions on a company from naming *)
(* the same predecessor.  Code: BEGIN IMMEDIATE and the prior query of      *)
(* add_decision against the chain check of decisions().                     *)
OrderedIsReadable == InStampOrder => Readable(events)

(* Whatever the stamps, an event names an event of the same company that was*)
(* in the table before it, and that event's state.  Code: the prior query   *)
(* and the insert of add_decision are one transaction.                      *)
NamesAnEarlierEvent == NamesEarlier(events)

(* No later decision repairs a journal that cannot be read: nothing is ever *)
(* updated, so only a backup taken before can be restored.  Code:           *)
(* add_decision inserts only, restore_store is the one other writer.        *)
BrokenForGood ==
  [][~Readable(events) /\ Readable(events') =>
       backup.stage = "manifest" /\ events' = backup.rows]_vars

(* A backup that got its manifest can be restored: it is a readable part of *)
(* the journal even if a decision broke the chain after the first check.    *)
(* Code: the two integrity checks of backup_store.                          *)
BackupRestores == backup.stage = "manifest" => Readable(backup.rows)

(* "amending creates a new event that refers to the previous one" (in the   *)
(* usage guide): the journal the server itself wrote can be read.  Code: the*)
(* chain check of decisions().                                              *)
JournalReadable == Readable(events)
=============================================================================
