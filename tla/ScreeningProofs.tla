--------------------------- MODULE ScreeningProofs ---------------------------
(***************************************************************************)
(* Proofs about the screening application: the two parts of the dashboard  *)
(* that MCDashboard runs side by side, the trash of its journal, and the   *)
(* service behind it.                                                      *)
(*                                                                         *)
(* The journal, for any number of threads, companies and decisions.  The   *)
(* heart is AppendReadable: a row that names the last of its company and   *)
(* carries no older stamp keeps the chain.                                 *)
(*                                                                         *)
(* The bridge keeps its promise for every number of requests of every      *)
(* kind: LoopbackBridge implements AtMostOnceCall, ran and answers being   *)
(* the abstract ones.  What carries the proof is where a request can still *)
(* be executed or have a say: it is at no more than one station, a new one *)
(* at none, and one at a station before an execution was not executed.     *)
(*                                                                         *)
(* The trash, for any number of tabs and records, rests on one idea: a     *)
(* snapshot is a true statement about a prefix of a log that only grows,   *)
(* so whatever carries one (a view, a reply, a confirmation on its way)    *)
(* stays true however late it arrives.                                     *)
(*                                                                         *)
(* The service, for any number of processes, publications, conditions and  *)
(* paths.  Three invariants carry the rest.  The versions of a condition   *)
(* are numbered without a gap.  What a quiet reader saw so far is still    *)
(* so.  And a file that no dead process left was put where it lies by a    *)
(* run that is still being exported, or is registered.                     *)
(***************************************************************************)
EXTENDS MCDashboard, JournalLifecycle, ScreeningDesk, SequenceTheorems, FiniteSetTheorems, TLAPS

\* A thread between BEGIN IMMEDIATE and its commit holds the write lock.
LockHeld == \A t \in Threads : pc[t] \in {"locked", "insert"} <=> lock = t

\* What a thread read in its transaction still is the table's answer.
PriorCurrent ==
  \A t \in Threads : pc[t] = "insert" =>
    /\ IsLast(events, RowsOf(events, call[t].cik), call[t].previous)
    /\ call[t].before = IF call[t].previous = 0 THEN NoState
                        ELSE events[call[t].previous].state

\* The copy is as well formed as the table it was taken from.
CopySound == Len(backup.rows) <= MaxEvents /\ NamesEarlier(backup.rows)

IInv == /\ TypeOK /\ LockHeld /\ PriorCurrent /\ CopySound
        /\ NamesAnEarlierEvent /\ OrderedIsReadable /\ BackupRestores
-----------------------------------------------------------------------------
\* Appending a row leaves the older rows as they are.
LEMMA AppendRows ==
  ASSUME NEW rows \in Seq(Event), NEW e \in Event, NEW n, n = Len(rows)
  PROVE  /\ n \in Nat /\ Append(rows, e) \in Seq(Event)
         /\ Len(Append(rows, e)) = n + 1
         /\ Append(rows, e)[n + 1] = e
         /\ \A i \in 1..n : Append(rows, e)[i] = rows[i] /\ rows[i] \in Event
         /\ \A i \in 1..(n + 1) : i \in 1..n \/ i = n + 1
OBVIOUS

\* The order of the readers among rows, and what the fields of a row are.
LEMMA EventFields ==
  ASSUME NEW e \in Event
  PROVE  /\ e.cik \in Companies /\ e.state \in States
         /\ e.before \in States \cup {NoState}
         /\ e.previous \in Nat /\ e.created_at \in Nat
BY JournalAssumption DEF Event

\* Appending a row whose stamp is not older leaves the predecessors alone.
LEMMA AppendReadable ==
  ASSUME NEW rows \in Seq(Event), NEW e \in Event, Readable(rows),
         \A i \in 1..Len(rows) : rows[i].created_at <= e.created_at,
         IsLast(rows, RowsOf(rows, e.cik), e.previous),
         e.before = IF e.previous = 0 THEN NoState ELSE rows[e.previous].state
  PROVE  Readable(Append(rows, e))
<1> DEFINE n == Len(rows)
           new == Append(rows, e)
<1>1. /\ n \in Nat /\ Len(new) = n + 1 /\ new[n + 1] = e
      /\ \A i \in 1..n : new[i] = rows[i] /\ rows[i] \in Event
      /\ \A i \in 1..(n + 1) : i \in 1..n \/ i = n + 1
      /\ \A i \in 1..n : i \in 1..(n + 1) /\ i \in Nat /\ i < n + 1
  BY AppendRows
<1>2. e.created_at \in Nat /\ \A i \in 1..n : rows[i].created_at \in Nat
  BY <1>1, EventFields
<1> HIDE DEF new
<1>3. \A i, j \in 1..n : Earlier(new, j, i) <=> Earlier(rows, j, i)
  BY <1>1 DEF Earlier
<1>4. \A i \in 1..n : Earlier(new, i, n + 1) /\ ~Earlier(new, n + 1, i)
  <2>1. SUFFICES ASSUME NEW i \in 1..n
                 PROVE  Earlier(new, i, n + 1) /\ ~Earlier(new, n + 1, i)
    OBVIOUS
  <2>2. new[i].created_at \in Nat /\ new[n + 1].created_at \in Nat
    BY <1>1, <1>2
  <2>3. new[i].created_at <= new[n + 1].created_at
    BY <1>1
  <2>4. i \in Nat /\ i < n + 1 /\ ~(n + 1 < i)
    BY <1>1
  <2>5. QED BY <2>2, <2>3, <2>4 DEF Earlier
<1>5. ~Earlier(new, n + 1, n + 1)
  BY <1>1, <1>2 DEF Earlier
<1>6. ASSUME NEW i \in 1..n
      PROVE  {j \in RowsOf(new, new[i].cik) : Earlier(new, j, i)} =
             {j \in RowsOf(rows, rows[i].cik) : Earlier(rows, j, i)}
  BY <1>1, <1>3, <1>4 DEF RowsOf
<1>7. {j \in RowsOf(new, e.cik) : Earlier(new, j, n + 1)} = RowsOf(rows, e.cik)
  BY <1>1, <1>4, <1>5 DEF RowsOf
<1>8. ASSUME NEW S \in SUBSET (1..n), NEW k
      PROVE  IsLast(new, S, k) <=> IsLast(rows, S, k)
  BY <1>3 DEF IsLast
<1>9. ASSUME NEW i \in 1..n
      PROVE  /\ IsLast(new, {j \in RowsOf(new, new[i].cik) : Earlier(new, j, i)},
                       new[i].previous)
             /\ new[i].before = IF new[i].previous = 0 THEN NoState
                                ELSE new[new[i].previous].state
  <2> DEFINE S == {j \in RowsOf(rows, rows[i].cik) : Earlier(rows, j, i)}
  <2>1. S \in SUBSET (1..n) BY DEF RowsOf
  <2>2. IsLast(rows, S, rows[i].previous)
    BY DEF Readable
  <2>3. IsLast(new, S, new[i].previous)
    BY <1>1, <1>8, <2>1, <2>2
  <2>4. rows[i].previous # 0 => rows[i].previous \in 1..n
    BY <2>1, <2>2 DEF IsLast
  <2>5. rows[i].before = IF rows[i].previous = 0 THEN NoState
                         ELSE rows[rows[i].previous].state
    BY DEF Readable
  <2>6. QED BY <1>1, <1>6, <2>3, <2>4, <2>5
<1>10. /\ IsLast(new, {j \in RowsOf(new, e.cik) : Earlier(new, j, n + 1)}, e.previous)
       /\ e.before = IF e.previous = 0 THEN NoState ELSE new[e.previous].state
  <2>1. RowsOf(rows, e.cik) \in SUBSET (1..n) BY DEF RowsOf
  <2>2. IsLast(new, RowsOf(rows, e.cik), e.previous)
    BY <1>8, <2>1
  <2>3. e.previous # 0 => e.previous \in 1..n
    BY <2>1 DEF IsLast
  <2>4. QED BY <1>1, <1>7, <2>2, <2>3
<1>11. QED
  BY <1>1, <1>9, <1>10 DEF Readable, new

\* Appending a row repairs no row that does not name its predecessor, when every
\* row names an earlier one.
LEMMA AppendUnreadable ==
  ASSUME NEW rows \in Seq(Event), NEW e \in Event,
         \A i \in 1..Len(rows) : rows[i].previous < i,
         Readable(Append(rows, e))
  PROVE  Readable(rows)
<1> DEFINE n == Len(rows)
           new == Append(rows, e)
<1>1. /\ n \in Nat /\ Len(new) = n + 1
      /\ \A i \in 1..n : new[i] = rows[i] /\ rows[i].previous \in Nat
      /\ \A i \in 1..n : i \in 1..(n + 1) /\ i \in Nat /\ i < n + 1
      /\ \A i \in 1..(n + 1) : i \in 1..n \/ i = n + 1
  BY AppendRows, EventFields
<1> HIDE DEF new
<1>2. \A i, j \in 1..n : Earlier(new, j, i) <=> Earlier(rows, j, i)
  BY <1>1 DEF Earlier
<1>3. ASSUME NEW i \in 1..n
      PROVE  /\ IsLast(rows, {j \in RowsOf(rows, rows[i].cik) : Earlier(rows, j, i)},
                       rows[i].previous)
             /\ rows[i].before = IF rows[i].previous = 0 THEN NoState
                                 ELSE rows[rows[i].previous].state
  <2> DEFINE S == {j \in RowsOf(rows, rows[i].cik) : Earlier(rows, j, i)}
             T == {j \in RowsOf(new, new[i].cik) : Earlier(new, j, i)}
             k == rows[i].previous
  <2>1. k \in Nat /\ k < i /\ i \in Nat /\ i <= n /\ k # n + 1
    BY <1>1
  <2>2. IsLast(new, T, k) /\ rows[i].before = IF k = 0 THEN NoState ELSE new[k].state
    BY <1>1 DEF Readable, new
  <2>3. S = T \ {n + 1}
    BY <1>1, <1>2 DEF RowsOf
  <2>4. T # {} => k \in S
    BY <2>1, <2>2, <2>3 DEF IsLast
  <2>5. T = {} => S = {} /\ k = 0
    BY <2>2, <2>3 DEF IsLast
  <2>6. S \in SUBSET (1..n)
    BY DEF RowsOf
  <2>7. \A j \in S \ {k} : T # {} => Earlier(rows, j, k)
    <3>1. \A j \in S \ {k} : T # {} => Earlier(new, j, k)
      BY <2>2, <2>3 DEF IsLast
    <3>2. QED BY <1>2, <2>4, <2>6, <3>1
  <2>8. IsLast(rows, S, k)
    BY <2>4, <2>5, <2>7 DEF IsLast
  <2>9. k # 0 => new[k] = rows[k]
    BY <1>1, <2>1
  <2>10. QED BY <2>2, <2>8, <2>9
<1>4. QED
  BY <1>3 DEF Readable
-----------------------------------------------------------------------------
LEMMA InitIInv == ASSUME Init PROVE IInv
<1>1. events = <<>> /\ backup.stage = "none" /\ \A t \in Threads : pc[t] = "idle"
  BY DEF Init
<1>2. TypeOK
  BY JournalAssumption DEF Init, TypeOK, Event
<1>3. LockHeld
  BY JournalAssumption DEF Init, LockHeld
<1>4. PriorCurrent /\ BackupRestores /\ CopySound
  BY <1>1, JournalAssumption DEF Init, PriorCurrent, BackupRestores, CopySound, NamesEarlier
<1>5. NamesAnEarlierEvent /\ Readable(events)
  BY <1>1 DEF NamesAnEarlierEvent, NamesEarlier, Readable
<1>6. QED
  BY <1>2, <1>3, <1>4, <1>5 DEF IInv, OrderedIsReadable

\* What a row that may be inserted says: it names a row of its company.
LEMMA PriorRow ==
  ASSUME TypeOK, NEW cik, NEW k, IsLast(events, RowsOf(events, cik), k)
  PROVE  k # 0 => k \in 1..Len(events) /\ events[k] \in Event /\ events[k].cik = cik
<1>1. events \in Seq(Event)
  BY DEF TypeOK
<1>2. QED
  BY <1>1 DEF IsLast, RowsOf

LEMMA SubmitStep == ASSUME IInv, NEW t \in Threads, Submit(t) PROVE IInv'
<1>1. call'[t] \in Event /\ \A u \in Threads : u # t => call'[u] = call[u]
  BY JournalAssumption DEF Submit, IInv, TypeOK, Event
<1>2. /\ UNCHANGED <<events, clock, lock, backup>> /\ pc[t] = "idle" /\ pc'[t] = "stamped"
      /\ \A u \in Threads : u # t => pc'[u] = pc[u]
  BY DEF Submit, IInv, TypeOK
<1>3. TypeOK'
  <2>1. call' \in [Threads -> Event \cup {NoEvent}]
    BY <1>1 DEF IInv, TypeOK, Submit
  <2>2. pc' \in [Threads -> {"idle", "stamped", "locked", "insert"}]
    BY DEF IInv, TypeOK, Submit
  <2>3. \A u \in Threads : pc'[u] # "idle" => call'[u] \in Event
    BY <1>1, <1>2 DEF IInv, TypeOK
  <2>4. QED BY <1>2, <2>1, <2>2, <2>3 DEF IInv, TypeOK
<1>4. LockHeld' /\ PriorCurrent'
  BY <1>1, <1>2 DEF IInv, LockHeld, PriorCurrent
<1>5. NamesAnEarlierEvent' /\ OrderedIsReadable' /\ BackupRestores' /\ CopySound'
  BY <1>2 DEF IInv, CopySound, NamesAnEarlierEvent, NamesEarlier, OrderedIsReadable, InStampOrder, BackupRestores
<1>6. QED
  BY <1>3, <1>4, <1>5 DEF IInv

LEMMA BeginStep == ASSUME IInv, NEW t \in Threads, BeginImmediate(t) PROVE IInv'
<1>1. /\ UNCHANGED <<events, clock, call, backup>> /\ pc[t] = "stamped" /\ pc'[t] = "locked"
      /\ lock = Free /\ lock' = t /\ \A u \in Threads : u # t => pc'[u] = pc[u]
  BY DEF BeginImmediate, IInv, TypeOK
<1>2. TypeOK'
  BY <1>1 DEF IInv, TypeOK, BeginImmediate
<1>3. LockHeld' /\ PriorCurrent'
  BY <1>1, JournalAssumption DEF IInv, LockHeld, PriorCurrent
<1>4. NamesAnEarlierEvent' /\ OrderedIsReadable' /\ BackupRestores' /\ CopySound'
  BY <1>1 DEF IInv, CopySound, NamesAnEarlierEvent, NamesEarlier, OrderedIsReadable, InStampOrder, BackupRestores
<1>5. QED
  BY <1>2, <1>3, <1>4 DEF IInv

LEMMA ReadStep == ASSUME IInv, NEW t \in Threads, ReadPrior(t) PROVE IInv'
<1>1. /\ UNCHANGED <<events, clock, lock, backup>> /\ pc[t] = "locked" /\ pc'[t] = "insert"
      /\ \A u \in Threads : u # t => pc'[u] = pc[u]
  BY DEF ReadPrior, IInv, TypeOK
<1>2. PICK k \in 0..Len(events) :
        /\ IsLast(events, RowsOf(events, call[t].cik), k)
        /\ call' = [call EXCEPT ![t].previous = k,
                                ![t].before = IF k = 0 THEN NoState ELSE events[k].state]
  BY DEF ReadPrior
<1>3. call[t] \in Event /\ events \in Seq(Event) /\ Len(events) <= MaxEvents
  BY <1>1 DEF IInv, TypeOK
<1>4. /\ call'[t].cik = call[t].cik /\ call'[t].previous = k
      /\ call'[t].before = IF k = 0 THEN NoState ELSE events[k].state
      /\ call'[t] \in Event /\ \A u \in Threads : u # t => call'[u] = call[u]
  <2>1. k \in 0..MaxEvents
    BY <1>3, JournalAssumption
  <2>2. k # 0 => events[k].state \in States
    BY <1>2, PriorRow, EventFields DEF IInv
  <2>3. QED BY <1>2, <1>3, <2>1, <2>2 DEF IInv, TypeOK, Event
<1>5. TypeOK'
  <2>1. call' \in [Threads -> Event \cup {NoEvent}]
    BY <1>2, <1>4 DEF IInv, TypeOK
  <2>2. pc' \in [Threads -> {"idle", "stamped", "locked", "insert"}]
    BY DEF IInv, TypeOK, ReadPrior
  <2>3. \A u \in Threads : pc'[u] # "idle" => call'[u] \in Event
    BY <1>1, <1>4 DEF IInv, TypeOK
  <2>4. QED BY <1>1, <2>1, <2>2, <2>3 DEF IInv, TypeOK
<1>6. LockHeld'
  BY <1>1 DEF IInv, LockHeld
<1>7. PriorCurrent'
  <2>1. /\ IsLast(events, RowsOf(events, call'[t].cik), call'[t].previous)
        /\ call'[t].before = IF call'[t].previous = 0 THEN NoState
                             ELSE events[call'[t].previous].state
    BY <1>2, <1>4
  <2>2. ASSUME NEW u \in Threads, u # t, pc'[u] = "insert"
        PROVE  /\ IsLast(events, RowsOf(events, call'[u].cik), call'[u].previous)
               /\ call'[u].before = IF call'[u].previous = 0 THEN NoState
                                    ELSE events[call'[u].previous].state
    BY <1>1, <1>4, <2>2 DEF IInv, PriorCurrent
  <2>3. QED BY <1>1, <2>1, <2>2 DEF PriorCurrent
<1>8. NamesAnEarlierEvent' /\ OrderedIsReadable' /\ BackupRestores' /\ CopySound'
  BY <1>1 DEF IInv, CopySound, NamesAnEarlierEvent, NamesEarlier, OrderedIsReadable, InStampOrder, BackupRestores
<1>9. QED
  BY <1>5, <1>6, <1>7, <1>8 DEF IInv

\* How a request ends.
LEMMA FinishFacts ==
  ASSUME IInv, NEW t \in Threads, Finish(t), pc[t] # "idle"
  PROVE  /\ pc' \in [Threads -> {"idle", "stamped", "locked", "insert"}]
         /\ call' \in [Threads -> Event \cup {NoEvent}] /\ lock' \in Threads \cup {Free}
         /\ \A u \in Threads : pc'[u] # "idle" =>
              u # t /\ call'[u] = call[u] /\ pc'[u] = pc[u] /\ call[u] \in Event
         /\ LockHeld'
<1>1. /\ pc' \in [Threads -> {"idle", "stamped", "locked", "insert"}]
      /\ call' \in [Threads -> Event \cup {NoEvent}] /\ lock' \in Threads \cup {Free}
  BY JournalAssumption DEF Finish, IInv, TypeOK
<1>2. /\ pc'[t] = "idle" /\ \A u \in Threads : u # t => pc'[u] = pc[u] /\ call'[u] = call[u]
  BY DEF Finish, IInv, TypeOK
<1>3. LockHeld'
  BY <1>2, JournalAssumption DEF Finish, IInv, LockHeld
<1>4. QED
  BY <1>1, <1>2, <1>3 DEF IInv, TypeOK

LEMMA InsertStep == ASSUME IInv, NEW t \in Threads, Insert(t) PROVE IInv'
<1> DEFINE n == Len(events)
           e == call[t]
<1>1. /\ events' = Append(events, e) /\ Finish(t) /\ pc[t] = "insert" /\ n < MaxEvents
      /\ UNCHANGED <<clock, backup>> /\ events \in Seq(Event) /\ e \in Event
  BY DEF Insert, IInv, TypeOK
<1>2. /\ n \in Nat /\ events' \in Seq(Event) /\ Len(events') = n + 1 /\ events'[n + 1] = e
      /\ \A i \in 1..n : events'[i] = events[i] /\ events[i] \in Event
      /\ \A i \in 1..(n + 1) : i \in 1..n \/ i = n + 1
  BY <1>1, AppendRows
<1>3. TypeOK'
  BY <1>1, <1>2, FinishFacts, JournalAssumption DEF IInv, TypeOK
<1>4. LockHeld' /\ lock = t
  BY <1>1, FinishFacts DEF IInv, LockHeld
<1>5. PriorCurrent'
  BY <1>1, <1>4, FinishFacts DEF IInv, LockHeld, PriorCurrent
<1>6. /\ IsLast(events, RowsOf(events, e.cik), e.previous)
      /\ e.before = IF e.previous = 0 THEN NoState ELSE events[e.previous].state
  BY <1>1 DEF IInv, PriorCurrent
<1>7. NamesAnEarlierEvent'
  <2>1. e.previous # 0 => e.previous \in 1..n /\ events[e.previous].cik = e.cik
    BY <1>6, PriorRow DEF IInv
  <2>2. ASSUME NEW i \in 1..n
        PROVE  events'[i].previous # 0 => events'[events'[i].previous] = events[events[i].previous]
    <3>1. events[i].previous # 0 => events[i].previous \in 1..n
      BY <1>2, EventFields DEF IInv, CopySound, NamesAnEarlierEvent, NamesEarlier
    <3>2. QED BY <1>2, <3>1
  <2>3. e.previous # 0 => events'[e.previous] = events[e.previous] /\ e.previous < n + 1
    BY <1>2, <2>1
  <2>4. QED BY <1>2, <1>6, <2>1, <2>2, <2>3 DEF IInv, CopySound, NamesAnEarlierEvent, NamesEarlier
<1>8. OrderedIsReadable'
  <2>1. SUFFICES ASSUME InStampOrder' PROVE Readable(events')
    BY DEF OrderedIsReadable
  <2>2. \A i \in 1..n : i \in 1..(n + 1) /\ n + 1 \in 1..(n + 1) /\ i < n + 1
    BY <1>2
  <2>3. \A i \in 1..n : events[i].created_at <= e.created_at
    BY <1>2, <2>1, <2>2 DEF InStampOrder
  <2>4. InStampOrder
    BY <1>2, <2>1, <2>2 DEF InStampOrder
  <2>5. Readable(events)
    BY <2>4 DEF IInv, OrderedIsReadable
  <2>6. QED BY <1>1, <1>6, <2>3, <2>5, AppendReadable
<1>9. BackupRestores' /\ CopySound'
  BY <1>1 DEF IInv, BackupRestores, CopySound, NamesEarlier
<1>10. QED
  BY <1>3, <1>4, <1>5, <1>7, <1>8, <1>9 DEF IInv

LEMMA AbortStep == ASSUME IInv, NEW t \in Threads, Abort(t) PROVE IInv'
<1>1. UNCHANGED <<events, clock, backup>> /\ Finish(t) /\ pc[t] # "idle"
  BY DEF Abort
<1>2. TypeOK' /\ LockHeld' /\ PriorCurrent'
  BY <1>1, FinishFacts DEF IInv, TypeOK, PriorCurrent
<1>3. NamesAnEarlierEvent' /\ OrderedIsReadable' /\ BackupRestores' /\ CopySound'
  BY <1>1 DEF IInv, CopySound, NamesAnEarlierEvent, NamesEarlier, OrderedIsReadable, InStampOrder, BackupRestores
<1>4. QED
  BY <1>2, <1>3 DEF IInv

\* Steps of the backup and of the clock touch neither journal nor requests.
LEMMA AsideStep ==
  ASSUME IInv, Tick \/ BackupCheck \/ BackupCopy \/ BackupVerify \/ BackupAgain
  PROVE  IInv'
<1>1. UNCHANGED <<events, lock, pc, call>>
  BY DEF Tick, BackupCheck, BackupCopy, BackupVerify, BackupAgain
<1>2. clock' \in 0..MaxTime
  BY JournalAssumption DEF IInv, TypeOK, Tick, BackupCheck, BackupCopy, BackupVerify, BackupAgain
<1>3. /\ backup' \in [stage : {"none", "copy", "verify", "manifest"}, rows : Seq(Event)]
      /\ CopySound'
  <2>1. /\ backup \in [stage : {"none", "copy", "verify", "manifest"}, rows : Seq(Event)]
        /\ <<>> \in Seq(Event) /\ Len(<<>>) = 0 /\ Len(<<>>) <= MaxEvents
        /\ events \in Seq(Event) /\ Len(events) <= MaxEvents
        /\ CopySound /\ NamesEarlier(events) /\ NamesEarlier(<<>>)
    BY JournalAssumption DEF IInv, TypeOK, NamesAnEarlierEvent, NamesEarlier
  <2>2. CASE Tick
    BY <2>1, <2>2 DEF Tick, CopySound, NamesEarlier
  <2>3. CASE BackupCheck
    BY <2>1, <2>3 DEF BackupCheck, CopySound, NamesEarlier
  <2>4. CASE BackupCopy
    BY <2>1, <2>4 DEF BackupCopy, CopySound, NamesEarlier
  <2>5. CASE BackupVerify
    <3>1. \/ backup' = [backup EXCEPT !.stage = "manifest"]
          \/ backup' = [stage |-> "none", rows |-> <<>>]
      BY <2>5 DEF BackupVerify
    <3>2. backup'.rows = backup.rows \/ backup'.rows = <<>>
      <4>1. [backup EXCEPT !.stage = "manifest"].rows = backup.rows
        BY <2>1
      <4>2. [stage |-> "none", rows |-> <<>>].rows = <<>>
        OBVIOUS
      <4>3. QED BY <3>1, <4>1, <4>2
    <3>3. backup' \in [stage : {"none", "copy", "verify", "manifest"}, rows : Seq(Event)]
      <4>1. [backup EXCEPT !.stage = "manifest"] \in
              [stage : {"none", "copy", "verify", "manifest"}, rows : Seq(Event)]
        BY <2>1
      <4>2. [stage |-> "none", rows |-> <<>>] \in
              [stage : {"none", "copy", "verify", "manifest"}, rows : Seq(Event)]
        BY <2>1
      <4>3. QED BY <3>1, <4>1, <4>2
    <3>4. QED BY <2>1, <3>2, <3>3 DEF CopySound, NamesEarlier
  <2>6. CASE BackupAgain
    BY <2>1, <2>6 DEF BackupAgain, CopySound, NamesEarlier
  <2>7. QED BY <2>2, <2>3, <2>4, <2>5, <2>6
<1>4. BackupRestores'
  <2>1. backup \in [stage : {"none", "copy", "verify", "manifest"}, rows : Seq(Event)]
    BY DEF IInv, TypeOK
  <2>2. CASE Tick
    BY <2>2 DEF IInv, Tick, BackupRestores
  <2>3. CASE BackupVerify
    BY <2>1, <2>3 DEF BackupVerify, BackupRestores
  <2>4. CASE BackupCheck \/ BackupCopy \/ BackupAgain
    BY <2>1, <2>4 DEF BackupCheck, BackupCopy, BackupAgain, BackupRestores
  <2>5. QED BY <2>2, <2>3, <2>4
<1>5. TypeOK' /\ LockHeld' /\ PriorCurrent'
  BY <1>1, <1>2, <1>3 DEF IInv, TypeOK, LockHeld, PriorCurrent
<1>6. NamesAnEarlierEvent' /\ OrderedIsReadable'
  BY <1>1 DEF IInv, NamesAnEarlierEvent, NamesEarlier, OrderedIsReadable, InStampOrder
<1>7. QED
  BY <1>3, <1>4, <1>5, <1>6 DEF IInv

\* The journal is replaced by a copy that was checked; no request survives.
LEMMA RestoreStep == ASSUME IInv, Restore PROVE IInv'
<1>1. /\ backup.stage = "manifest" /\ Readable(backup.rows) /\ events' = backup.rows
      /\ UNCHANGED <<clock, backup>> /\ lock' = Free
      /\ pc' = [t \in Threads |-> "idle"] /\ call' = [t \in Threads |-> NoEvent]
  BY DEF Restore
<1>2. TypeOK'
  BY <1>1 DEF IInv, TypeOK, CopySound
<1>3. LockHeld' /\ PriorCurrent'
  BY <1>1, JournalAssumption DEF LockHeld, PriorCurrent
<1>4. NamesAnEarlierEvent' /\ CopySound'
  BY <1>1 DEF IInv, CopySound, NamesAnEarlierEvent, NamesEarlier
<1>5. OrderedIsReadable' /\ BackupRestores'
  BY <1>1 DEF OrderedIsReadable, BackupRestores
<1>6. QED
  BY <1>2, <1>3, <1>4, <1>5 DEF IInv

LEMMA StutterStep == ASSUME IInv, UNCHANGED vars PROVE IInv'
<1>1. UNCHANGED <<events, clock, lock, pc, call, backup>>
  BY DEF vars
<1>2. TypeOK' /\ LockHeld' /\ PriorCurrent' /\ CopySound'
  BY <1>1 DEF IInv, TypeOK, LockHeld, PriorCurrent, CopySound, NamesEarlier
<1>3. NamesAnEarlierEvent' /\ OrderedIsReadable' /\ BackupRestores'
  BY <1>1 DEF IInv, NamesAnEarlierEvent, NamesEarlier, OrderedIsReadable, InStampOrder,
              BackupRestores
<1>4. QED
  BY <1>2, <1>3 DEF IInv

\* The inductive invariant holds throughout.
THEOREM Invariance == Spec => []IInv
<1>1. Init => IInv
  BY InitIInv
<1>2. IInv /\ [Next]_vars => IInv'
  <2>1. SUFFICES ASSUME IInv, [Next]_vars PROVE IInv'
    OBVIOUS
  <2>2. CASE Tick \/ BackupCheck \/ BackupCopy \/ BackupVerify \/ BackupAgain
    BY <2>1, <2>2, AsideStep
  <2>3. CASE Restore
    BY <2>1, <2>3, RestoreStep
  <2>4. ASSUME NEW t \in Threads,
               Submit(t) \/ BeginImmediate(t) \/ ReadPrior(t) \/ Insert(t) \/ Abort(t)
        PROVE  IInv'
    BY <2>1, <2>4, SubmitStep, BeginStep, ReadStep, InsertStep, AbortStep
  <2>5. CASE UNCHANGED vars
    BY <2>1, <2>5, StutterStep
  <2>6. QED
    BY <2>1, <2>2, <2>3, <2>4, <2>5 DEF Next
<1>3. QED
  BY <1>1, <1>2, PTL DEF Spec
-----------------------------------------------------------------------------
\* The variables keep their types.  Code: the columns and checks of the tables.
THEOREM TypeCorrect == Spec => []TypeOK
<1>1. IInv => TypeOK
  BY DEF IInv
<1>2. QED
  BY <1>1, Invariance, PTL

\* The write lock alone keeps the chain readable while the stamps are inserted in
\* order, for any number of threads.  Code: add_decision against decisions().
THEOREM ChainNeedsOnlyStamps == Spec => []OrderedIsReadable
<1>1. IInv => OrderedIsReadable
  BY DEF IInv
<1>2. QED
  BY <1>1, Invariance, PTL

\* Every event names an earlier one of its company, or none.  Code: the prior
\* query and the insert of add_decision are one transaction.
THEOREM PredecessorsExist == Spec => []NamesAnEarlierEvent
<1>1. IInv => NamesAnEarlierEvent
  BY DEF IInv
<1>2. QED
  BY <1>1, Invariance, PTL

\* A backup with a manifest can be restored.  Code: backup_store.
THEOREM BackupIsRestorable == Spec => []BackupRestores
<1>1. IInv => BackupRestores
  BY DEF IInv
<1>2. QED
  BY <1>1, Invariance, PTL

\* Once unreadable, the journal becomes readable only by a restore, whatever
\* decisions follow.  Code: add_decision inserts only.
THEOREM NoDecisionRepairs == Spec => BrokenForGood
<1>1. ASSUME IInv, [Next]_vars
      PROVE  [~Readable(events) /\ Readable(events') =>
                backup.stage = "manifest" /\ events' = backup.rows]_vars
  <2>1. SUFFICES ASSUME Next, ~Readable(events), Readable(events')
                 PROVE  backup.stage = "manifest" /\ events' = backup.rows
    BY <1>1
  <2>2. events' # events
    BY <2>1
  <2>3. CASE \E t \in Threads : Insert(t)
    <3>1. PICK t \in Threads : Insert(t)
      BY <2>3
    <3>2. events' = Append(events, call[t]) /\ events \in Seq(Event) /\ call[t] \in Event
      BY <1>1, <3>1 DEF Insert, IInv, TypeOK
    <3>3. \A i \in 1..Len(events) : events[i].previous < i
      <4>1. \A i \in 1..Len(events) : events[i].previous = 0 \/ events[i].previous < i
        BY <1>1 DEF IInv, NamesAnEarlierEvent, NamesEarlier
      <4>2. QED BY <4>1
    <3>4. QED BY <2>1, <3>2, <3>3, AppendUnreadable
  <2>4. CASE Restore
    BY <2>4 DEF Restore
  <2>5. QED
    BY <2>1, <2>2, <2>3, <2>4
    DEF Next, Tick, Submit, BeginImmediate, ReadPrior, Abort,
        BackupCheck, BackupCopy, BackupVerify, BackupAgain
<1>2. QED
  BY <1>1, Invariance, PTL DEF Spec, BrokenForGood

-----------------------------------------------------------------------------
(* The bridge                                                              *)

Answers == {<< >>} \cup {<<s>> : s \in Statuses}

BridgeTypeOK ==
  /\ stage \in [Requests -> Stages]
  /\ answers \in [Requests -> Answers]
  /\ ran \in [Requests -> {0, 1}]
  /\ toWorker \subseteq Requests /\ fromWorker \subseteq Lines
  /\ toRelay \subseteq Requests /\ fromRelay \subseteq Lines
  /\ serving \subseteq Requests /\ backend \subseteq Requests

\* The stations of a request, in the order it can pass them.
PrintedBy(lines, r) == \E line \in lines : line.id = r
AtBackend(r) == r \in serving \/ r \in backend \/ PrintedBy(fromRelay, r)

Nowhere(r) ==
  /\ r \notin toWorker /\ ~PrintedBy(fromWorker, r)
  /\ r \notin toRelay /\ ~AtBackend(r)

\* It is at one station at most, and has one line of the worker at most.
OneStation ==
  /\ \A r \in toWorker : ~PrintedBy(fromWorker, r) /\ r \notin toRelay /\ ~AtBackend(r)
  /\ \A line \in fromWorker : line.id \notin toRelay /\ ~AtBackend(line.id)
  /\ \A l, m \in fromWorker : l.id = m.id => l = m
  /\ \A r \in toRelay : ~AtBackend(r)

\* What can still be executed was not.
NotYetRun ==
  /\ \A r \in toWorker \cup toRelay \cup backend : ran[r] = 0
  /\ \A line \in fromWorker : line.status \in {"allowed", "refused"} => ran[line.id] = 0

NewIsNowhere == \A r \in Requests : stage[r] = "new" => Nowhere(r) /\ ran[r] = 0

\* Lines say what was done, and the relay never refuses.
LinesAreTrue ==
  /\ \A line \in fromWorker \cup fromRelay : line.status = "done" => ran[line.id] = 1
  /\ \A line \in fromRelay : line.status \in {"done", "unknown"}

\* The bridge holds the unanswered, and what was refused can be executed nowhere.
HeldIsUnanswered == \A r \in Requests : stage[r] # "closed" => answers[r] = << >>
RefusedIsOver ==
  \A r \in Requests : answers[r] = <<"refused">> =>
    /\ ran[r] = 0 /\ r \notin toWorker \cup toRelay \cup backend
    /\ ~PrintedBy(fromWorker, r)

Stations == OneStation /\ NotYetRun /\ NewIsNowhere
Truth == LinesAreTrue /\ HeldIsUnanswered /\ RefusedIsOver
BridgeInv == BridgeTypeOK /\ Stations /\ Truth

Answered(R, status) == [r \in Requests |-> IF r \in R THEN <<status>> ELSE answers[r]]

-----------------------------------------------------------------------------
(* The first answer of a response is the only one: what writeJson appends  *)
(* to is empty, for the bridge holds only the unanswered.                  *)
LEMMA WriteJsonAnswers ==
  ASSUME BridgeTypeOK, HeldIsUnanswered,
         NEW R \in SUBSET Requests, \A r \in R : stage[r] # "closed",
         NEW status \in Statuses, WriteJson(R, status)
  PROVE  /\ stage' = [r \in Requests |-> IF r \in R THEN "closed" ELSE stage[r]]
         /\ stage' \in [Requests -> Stages]
         /\ answers' = Answered(R, status)
         /\ answers' \in [Requests -> Answers]
         /\ HeldIsUnanswered'
<1>1. ASSUME NEW r \in Requests
      PROVE  (IF r \in R THEN Append(answers[r], status) ELSE answers[r])
               = IF r \in R THEN <<status>> ELSE answers[r]
  <2>1. Append(<< >>, status) = <<status>>
    OBVIOUS
  <2>2. r \in R => answers[r] = << >>
    BY DEF HeldIsUnanswered
  <2> QED BY <2>1, <2>2
<1>2. answers' = Answered(R, status)
  BY <1>1 DEF WriteJson, Answered
<1>3. answers' \in [Requests -> Answers]
  BY <1>2 DEF Answered, Answers, BridgeTypeOK
<1>4. stage' \in [Requests -> Stages]
  BY DEF WriteJson, BridgeTypeOK, Stages
<1>5. HeldIsUnanswered'
  BY <1>2 DEF WriteJson, HeldIsUnanswered, Answered
<1> QED BY <1>2, <1>3, <1>4, <1>5 DEF WriteJson

queues == <<toWorker, fromWorker, toRelay, fromRelay, serving, backend, ran>>

(* Answering without touching a queue: refusing new requests at the door,  *)
(* or giving up on held ones.                                              *)
LEMMA AnsweringHeld ==
  ASSUME BridgeInv,
         NEW R \in SUBSET Requests, \A r \in R : stage[r] # "closed",
         NEW status \in {"refused", "unknown"},
         status = "refused" => \A r \in R : stage[r] = "new",
         WriteJson(R, status), UNCHANGED queues
  PROVE  BridgeInv' /\ [Call!Next]_Call!vars
<1> USE DEF queues, BridgeInv, Stations, Truth
<1>1. /\ stage' = [r \in Requests |-> IF r \in R THEN "closed" ELSE stage[r]]
      /\ stage' \in [Requests -> Stages]
      /\ answers' = Answered(R, status)
      /\ answers' \in [Requests -> Answers]
      /\ HeldIsUnanswered'
  BY WriteJsonAnswers DEF Statuses
<1>2. BridgeTypeOK'
  BY <1>1 DEF BridgeTypeOK
<1>3. OneStation' /\ NotYetRun' /\ LinesAreTrue'
  BY DEF OneStation, NotYetRun, LinesAreTrue, PrintedBy, AtBackend
<1>4. NewIsNowhere'
  BY <1>1 DEF NewIsNowhere, Nowhere, PrintedBy, AtBackend, BridgeTypeOK
<1>5. RefusedIsOver'
  <2> SUFFICES ASSUME NEW r \in Requests, answers'[r] = <<"refused">>
               PROVE  /\ ran[r] = 0 /\ r \notin toWorker \cup toRelay \cup backend
                      /\ ~PrintedBy(fromWorker, r)
    BY DEF RefusedIsOver, PrintedBy
  <2>1. CASE r \in R
    <3>1. status = "refused"
      BY <1>1, <2>1 DEF Answered
    <3> QED BY <2>1, <3>1 DEF NewIsNowhere, Nowhere, AtBackend
  <2>2. CASE r \notin R
    BY <1>1, <2>2 DEF Answered, RefusedIsOver
  <2> QED BY <2>1, <2>2
<1>6. [Call!Next]_Call!vars
  <2>1. CASE R = {}
    <3>1. answers' = answers
      BY <1>1, <2>1 DEF Answered, BridgeTypeOK
    <3> QED BY <3>1 DEF Call!vars
  <2>2. CASE R # {}
    <3>1. \A r \in R : answers[r] = << >> /\ (status = "refused" => ran[r] = 0)
      BY DEF HeldIsUnanswered, NewIsNowhere
    <3>2. Call!Answer(R, status)
      BY <1>1, <2>2, <3>1 DEF Call!Answer, Answered
    <3> QED BY <3>2 DEF Call!Next
  <2> QED BY <2>1, <2>2
<1> QED BY <1>1, <1>2, <1>3, <1>4, <1>5, <1>6

-----------------------------------------------------------------------------
(* What an execution, a line or a delivery does, one lemma per action.     *)

LEMMA BridgeInitHolds == BridgeInit => BridgeInv /\ Call!Init
  BY DEF BridgeInit, BridgeInv, BridgeTypeOK, Stations, Truth, Stages, Answers, OneStation, NotYetRun,
         NewIsNowhere, Nowhere, PrintedBy, AtBackend, LinesAreTrue, HeldIsUnanswered,
         RefusedIsOver, Call!Init

(* What is executed was not before, was not refused, and is nowhere else   *)
(* it could be executed again.                                             *)
LEMMA RunOnce ==
  ASSUME BridgeInv, NEW r \in Requests, r \in toWorker \cup backend,
         ran' = [ran EXCEPT ![r] = @ + 1], UNCHANGED answers
  PROVE  /\ [Call!Next]_Call!vars
         /\ ran' \in [Requests -> {0, 1}] /\ ran'[r] = 1
         /\ \A q \in Requests \ {r} : ran'[q] = ran[q]
<1>1. ran[r] = 0 /\ answers[r] # <<"refused">>
  BY DEF BridgeInv, Stations, Truth, NotYetRun, RefusedIsOver
<1>2. ran' = [ran EXCEPT ![r] = 1]
  BY <1>1
<1>3. Call!Run(r)
  BY <1>1, <1>2 DEF Call!Run
<1> QED BY <1>2, <1>3 DEF Call!Next, BridgeInv, BridgeTypeOK

LEMMA HeldIsNotRefused ==
  ASSUME BridgeInv, NEW r \in Requests, stage[r] # "closed"
  PROVE  answers[r] # <<"refused">>
<1>1. answers[r] = << >>
  BY DEF BridgeInv, Truth, HeldIsUnanswered
<1> QED BY <1>1

LEMMA AskWorkerStep ==
  ASSUME BridgeInv, NEW r \in Requests, AskWorker(r)
  PROVE  BridgeInv' /\ [Call!Next]_Call!vars
<1>1. CASE dead
  BY <1>1, AnsweringHeld DEF AskWorker, queues, relayVars
<1>2. CASE ~dead
  <2> USE DEF BridgeInv, Stations, Truth
  <2>1. /\ stage' = [stage EXCEPT ![r] = "worker"] /\ stage[r] = "new"
        /\ toWorker' = toWorker \cup {r}
        /\ UNCHANGED <<answers, fromWorker, relayVars, ran>>
    BY <1>2 DEF AskWorker
  <2>2. Nowhere(r) /\ ran[r] = 0 /\ answers[r] # <<"refused">>
    BY <2>1, HeldIsNotRefused DEF NewIsNowhere
  <2>3. BridgeTypeOK'
    BY <2>1 DEF BridgeTypeOK, Stages, relayVars
  <2>4. Stations'
    BY <2>1, <2>2 DEF OneStation, NotYetRun, NewIsNowhere, Nowhere, PrintedBy, AtBackend, relayVars, BridgeTypeOK
  <2>5. Truth'
    BY <2>1, <2>2 DEF LinesAreTrue, HeldIsUnanswered, RefusedIsOver, PrintedBy, relayVars, BridgeTypeOK
  <2>6. UNCHANGED Call!vars
    BY <2>1 DEF Call!vars
  <2> QED BY <2>3, <2>4, <2>5, <2>6
<1> QED BY <1>1, <1>2

(* A request goes to the relay: a new one, or one the worker let pass.     *)
relayQueues == <<relay, reaped, fromRelay, serving, backend, ran, toWorker>>

LEMMA SendToRelayStep ==
  ASSUME BridgeInv, NEW r \in Requests, SendToRelay(r), UNCHANGED relayQueues,
         \/ stage[r] = "new" /\ UNCHANGED fromWorker
         \/ /\ stage[r] = "worker"
            /\ \E line \in fromWorker : /\ line.id = r /\ line.status = "allowed"
                                       /\ fromWorker' = fromWorker \ {line}
  PROVE  BridgeInv' /\ [Call!Next]_Call!vars
<1> USE DEF BridgeInv, Stations, Truth, relayQueues
<1>1. /\ fromWorker' \subseteq fromWorker /\ ~PrintedBy(fromWorker', r)
      /\ r \notin toWorker /\ r \notin toRelay /\ ~AtBackend(r)
      /\ ran[r] = 0 /\ answers[r] # <<"refused">> /\ stage[r] # "closed"
  BY HeldIsNotRefused DEF OneStation, NotYetRun, NewIsNowhere, Nowhere, PrintedBy, BridgeTypeOK, Lines
<1>2. CASE /\ stage' = [stage EXCEPT ![r] = "relay"]
           /\ toRelay' = toRelay \cup {r}
           /\ UNCHANGED answers
  <2>1. BridgeTypeOK'
    BY <1>1, <1>2 DEF BridgeTypeOK, Stages
  <2>2. OneStation' /\ NotYetRun'
    BY <1>1, <1>2 DEF OneStation, NotYetRun, PrintedBy, AtBackend
  <2>3. NewIsNowhere'
    BY <1>1, <1>2 DEF NewIsNowhere, Nowhere, PrintedBy, AtBackend, BridgeTypeOK
  <2>4. Truth'
    BY <1>1, <1>2 DEF LinesAreTrue, HeldIsUnanswered, RefusedIsOver, PrintedBy, BridgeTypeOK
  <2>5. UNCHANGED Call!vars
    BY <1>2 DEF Call!vars
  <2> QED BY <2>1, <2>2, <2>3, <2>4, <2>5
<1>3. CASE WriteJson({r}, "unknown") /\ UNCHANGED toRelay
  <2>1. /\ stage' = [q \in Requests |-> IF q \in {r} THEN "closed" ELSE stage[q]]
        /\ stage' \in [Requests -> Stages]
        /\ answers' = Answered({r}, "unknown")
        /\ answers' \in [Requests -> Answers]
        /\ HeldIsUnanswered'
    BY <1>1, <1>3, WriteJsonAnswers DEF Statuses
  <2>2. BridgeTypeOK'
    BY <1>1, <1>3, <2>1 DEF BridgeTypeOK
  <2>3. OneStation' /\ NotYetRun' /\ LinesAreTrue'
    BY <1>1, <1>3 DEF OneStation, NotYetRun, LinesAreTrue, PrintedBy, AtBackend
  <2>4. NewIsNowhere'
    BY <1>1, <1>3, <2>1 DEF NewIsNowhere, Nowhere, PrintedBy, AtBackend, BridgeTypeOK
  <2>5. answers'[r] = <<"unknown">> /\ <<"unknown">> # <<"refused">>
    BY <2>1 DEF Answered
  <2>6. RefusedIsOver'
    BY <1>1, <1>3, <2>1, <2>5 DEF RefusedIsOver, PrintedBy, Answered
  <2>7. Call!Answer({r}, "unknown")
    BY <1>1, <2>1 DEF Call!Answer, Answered, HeldIsUnanswered
  <2> QED BY <2>1, <2>2, <2>3, <2>4, <2>6, <2>7 DEF Call!Next
<1> QED BY <1>2, <1>3 DEF SendToRelay

(* A line of the worker ends its request, or is dropped.                   *)
LEMMA WorkerLineStep ==
  ASSUME BridgeInv, NEW line \in fromWorker, WorkerLine(line)
  PROVE  BridgeInv' /\ [Call!Next]_Call!vars
<1> USE DEF BridgeInv, Stations, Truth
<1> DEFINE r == line.id
<1>1. /\ r \in Requests /\ line.status \in Statuses \cup {"allowed"}
      /\ fromWorker' = fromWorker \ {line} /\ ~PrintedBy(fromWorker', r)
      /\ UNCHANGED <<toWorker, relay, reaped, fromRelay, serving, backend, ran>>
  BY DEF BridgeTypeOK, Lines, OneStation, PrintedBy, WorkerLine
<1>2. CASE stage[r] = "worker" /\ line.status = "allowed"
  BY <1>1, <1>2, SendToRelayStep DEF WorkerLine, relayQueues
<1>3. CASE stage[r] # "worker"
  <2>1. UNCHANGED <<stage, answers, toRelay>>
    BY <1>3 DEF WorkerLine
  <2>2. BridgeTypeOK' /\ OneStation' /\ NotYetRun'
    BY <1>1, <2>1 DEF BridgeTypeOK, OneStation, NotYetRun, PrintedBy, AtBackend
  <2>3. NewIsNowhere' /\ Truth'
    BY <1>1, <2>1 DEF NewIsNowhere, Nowhere, LinesAreTrue, HeldIsUnanswered, RefusedIsOver, PrintedBy, AtBackend
  <2> QED BY <1>1, <2>1, <2>2, <2>3 DEF Call!vars
<1>4. CASE stage[r] = "worker" /\ line.status # "allowed"
  <2>1. WriteJson({r}, line.status) /\ UNCHANGED toRelay /\ line.status \in Statuses
    BY <1>1, <1>4 DEF WorkerLine
  <2>2. /\ stage' = [q \in Requests |-> IF q \in {r} THEN "closed" ELSE stage[q]]
        /\ stage' \in [Requests -> Stages]
        /\ answers' = Answered({r}, line.status)
        /\ answers' \in [Requests -> Answers]
        /\ HeldIsUnanswered'
    BY <1>1, <1>4, <2>1, WriteJsonAnswers
  <2>3. BridgeTypeOK' /\ OneStation' /\ NotYetRun'
    BY <1>1, <2>1, <2>2 DEF BridgeTypeOK, OneStation, NotYetRun, PrintedBy, AtBackend
  <2>4. NewIsNowhere'
    BY <1>1, <2>1, <2>2 DEF NewIsNowhere, Nowhere, PrintedBy, AtBackend
  <2>5. LinesAreTrue'
    BY <1>1, <2>1 DEF LinesAreTrue
  <2>6. line.status = "refused" => ran[r] = 0 /\ r \notin toWorker \cup toRelay \cup backend
    BY <1>1 DEF NotYetRun, OneStation, PrintedBy, AtBackend
  <2>7. line.status = "done" => ran[r] = 1
    BY DEF LinesAreTrue
  <2>8. RefusedIsOver'
    <3> SUFFICES ASSUME NEW q \in Requests, answers'[q] = <<"refused">>
                 PROVE  /\ ran[q] = 0 /\ q \notin toWorker \cup toRelay \cup backend
                        /\ ~PrintedBy(fromWorker', q)
      BY <1>1, <2>1 DEF RefusedIsOver, PrintedBy
    <3>1. CASE q = r
      BY <1>1, <2>2, <2>6, <3>1 DEF Answered
    <3>2. CASE q # r
      BY <1>1, <2>2, <3>2 DEF Answered, RefusedIsOver, PrintedBy
    <3> QED BY <3>1, <3>2
  <2>9. Call!Answer({r}, line.status)
    BY <1>1, <1>4, <2>2, <2>6, <2>7 DEF Call!Answer, Answered, HeldIsUnanswered
  <2> QED BY <1>1, <2>1, <2>2, <2>3, <2>4, <2>5, <2>8, <2>9 DEF Call!Next, Statuses
<1> QED BY <1>2, <1>3, <1>4

LEMMA WorkerRunStep ==
  ASSUME BridgeInv, NEW r \in Requests, WorkerRun(r)
  PROVE  BridgeInv' /\ [Call!Next]_Call!vars
<1> USE DEF BridgeInv, Stations, Truth
<1>1. /\ r \in toWorker /\ toWorker' = toWorker \ {r}
      /\ UNCHANGED <<stage, answers, toRelay, fromRelay, serving, backend>>
      /\ r \notin toRelay /\ ~AtBackend(r) /\ ~PrintedBy(fromWorker, r)
      /\ ran[r] = 0 /\ stage[r] # "new" /\ answers[r] # <<"refused">>
  BY DEF WorkerRun, relayVars, OneStation, NotYetRun, NewIsNowhere, Nowhere, RefusedIsOver
<1>2. CASE UNCHANGED ran /\ \E status \in {"refused", "allowed"} :
             fromWorker' = fromWorker \cup {[id |-> r, status |-> status]}
  <2>1. BridgeTypeOK'
    BY <1>1, <1>2 DEF BridgeTypeOK, Lines, Statuses
  <2>2. OneStation' /\ NotYetRun'
    BY <1>1, <1>2 DEF OneStation, NotYetRun, PrintedBy, AtBackend
  <2>3. NewIsNowhere' /\ Truth'
    BY <1>1, <1>2 DEF NewIsNowhere, Nowhere, LinesAreTrue, HeldIsUnanswered, RefusedIsOver, PrintedBy, AtBackend
  <2> QED BY <1>1, <1>2, <2>1, <2>2, <2>3 DEF Call!vars
<1>3. CASE /\ ran' = [ran EXCEPT ![r] = @ + 1]
           /\ \/ fromWorker' = fromWorker \cup {[id |-> r, status |-> "done"]}
              \/ UNCHANGED fromWorker
  <2>1. /\ [Call!Next]_Call!vars
        /\ ran' \in [Requests -> {0, 1}] /\ ran'[r] = 1
        /\ \A q \in Requests \ {r} : ran'[q] = ran[q]
    BY <1>1, <1>3, RunOnce
  <2>2. BridgeTypeOK'
    BY <1>1, <1>3, <2>1 DEF BridgeTypeOK, Lines, Statuses
  <2>3. OneStation' /\ NotYetRun'
    BY <1>1, <1>3, <2>1 DEF OneStation, NotYetRun, PrintedBy, AtBackend, BridgeTypeOK, Lines
  <2>4. NewIsNowhere'
    BY <1>1, <1>3, <2>1 DEF NewIsNowhere, Nowhere, PrintedBy, AtBackend
  <2>5. LinesAreTrue' /\ HeldIsUnanswered'
    BY <1>1, <1>3, <2>1 DEF LinesAreTrue, HeldIsUnanswered, BridgeTypeOK, Lines
  <2>6. RefusedIsOver'
    BY <1>1, <1>3, <2>1 DEF RefusedIsOver, PrintedBy
  <2> QED BY <2>1, <2>2, <2>3, <2>4, <2>5, <2>6
<1> QED BY <1>2, <1>3 DEF WorkerRun

LEMMA BackendRunStep ==
  ASSUME BridgeInv, NEW r \in Requests, BackendRun(r)
  PROVE  BridgeInv' /\ [Call!Next]_Call!vars
<1> USE DEF BridgeInv, Stations, Truth
<1>1. /\ r \in backend /\ backend' = backend \ {r}
      /\ UNCHANGED <<stage, answers, toWorker, fromWorker, toRelay, fromRelay, serving>>
      /\ r \notin toWorker /\ r \notin toRelay /\ ~PrintedBy(fromWorker, r)
      /\ ran[r] = 0 /\ stage[r] # "new" /\ answers[r] # <<"refused">>
  BY DEF BackendRun, workerVars, OneStation, NotYetRun, NewIsNowhere, Nowhere, AtBackend,
         PrintedBy, RefusedIsOver
<1>2. /\ [Call!Next]_Call!vars
      /\ ran' \in [Requests -> {0, 1}] /\ ran'[r] = 1
      /\ \A q \in Requests \ {r} : ran'[q] = ran[q]
  BY <1>1, RunOnce DEF BackendRun
<1>3. BridgeTypeOK' /\ OneStation'
  BY <1>1, <1>2 DEF BridgeTypeOK, OneStation, AtBackend, PrintedBy
<1>4. NotYetRun'
  BY <1>1, <1>2 DEF NotYetRun, BridgeTypeOK, Lines, PrintedBy
<1>5. NewIsNowhere'
  BY <1>1, <1>2 DEF NewIsNowhere, Nowhere, PrintedBy, AtBackend
<1>6. LinesAreTrue' /\ HeldIsUnanswered' /\ RefusedIsOver'
  BY <1>1, <1>2 DEF LinesAreTrue, HeldIsUnanswered, RefusedIsOver, PrintedBy, BridgeTypeOK, Lines
<1> QED BY <1>2, <1>3, <1>4, <1>5, <1>6

(* The relay and the backend take a request over, drop it, or report what  *)
(* they did; the relay may die with what it holds.                         *)
Delivery ==
  \/ \E r \in Requests : RelayServe(r) \/ BackendDrops(r)
  \/ RelayDone \/ RelayGivesUp \/ RelayDies \/ WorkerDies

LEMMA DeliveryStep ==
  ASSUME BridgeInv, Delivery
  PROVE  BridgeInv' /\ [Call!Next]_Call!vars
<1> USE DEF BridgeInv, Stations, Truth
<1>1. UNCHANGED <<stage, answers, fromWorker, ran>>
  BY DEF Delivery, RelayServe, BackendDrops, RelayDone, RelayGivesUp, RelayDies, WorkerDies,
         workerVars, relayVars
<1>2. /\ toWorker' \subseteq toWorker /\ toRelay' \subseteq toRelay
      /\ backend' \subseteq backend \cup (toRelay \ toRelay')
      /\ fromRelay \subseteq fromRelay'
      /\ \A r \in Requests : AtBackend(r)' => AtBackend(r) \/ r \in toRelay \ toRelay'
      /\ serving' \subseteq Requests /\ fromRelay' \subseteq Lines
  <2>1. CASE \E r \in Requests : RelayServe(r) \/ BackendDrops(r)
    BY <2>1 DEF RelayServe, BackendDrops, workerVars, AtBackend, PrintedBy, BridgeTypeOK
  <2>2. CASE RelayDone \/ RelayGivesUp
    BY <2>2 DEF RelayDone, RelayGivesUp, workerVars, AtBackend, PrintedBy, BridgeTypeOK, Lines, Statuses
  <2>3. CASE RelayDies \/ WorkerDies
    BY <2>3 DEF RelayDies, WorkerDies, workerVars, relayVars, AtBackend, PrintedBy, BridgeTypeOK
  <2> QED BY <2>1, <2>2, <2>3 DEF Delivery
<1>3. LinesAreTrue'
  <2>1. CASE RelayDone
    BY <1>1, <2>1 DEF RelayDone, LinesAreTrue, BridgeTypeOK
  <2>2. CASE ~RelayDone
    BY <1>1, <2>2 DEF Delivery, RelayServe, BackendDrops, RelayGivesUp, RelayDies, WorkerDies,
                      relayVars, LinesAreTrue
  <2> QED BY <2>1, <2>2
<1>4. BridgeTypeOK' /\ NotYetRun'
  BY <1>1, <1>2 DEF BridgeTypeOK, NotYetRun
<1>5. OneStation'
  <2>1. \A r \in toWorker' : ~PrintedBy(fromWorker', r) /\ r \notin toRelay' /\ ~AtBackend(r)'
    BY <1>1, <1>2 DEF OneStation, BridgeTypeOK
  <2>2. \A line \in fromWorker' : line.id \notin toRelay' /\ ~AtBackend(line.id)'
    BY <1>1, <1>2 DEF OneStation, BridgeTypeOK, Lines
  <2>3. \A r \in toRelay' : ~AtBackend(r)'
    BY <1>2 DEF OneStation, BridgeTypeOK
  <2> QED BY <1>1, <2>1, <2>2, <2>3 DEF OneStation, AtBackend
<1>6. NewIsNowhere'
  BY <1>1, <1>2 DEF NewIsNowhere, Nowhere, AtBackend
<1>7. HeldIsUnanswered' /\ RefusedIsOver'
  BY <1>1, <1>2 DEF HeldIsUnanswered, RefusedIsOver
<1> QED BY <1>1, <1>3, <1>4, <1>5, <1>6, <1>7 DEF Call!vars

LEMMA RelayLineStep ==
  ASSUME BridgeInv, NEW line \in fromRelay, RelayLine(line)
  PROVE  BridgeInv' /\ [Call!Next]_Call!vars
<1> USE DEF BridgeInv, Stations, Truth
<1> DEFINE r == line.id
<1>1. /\ r \in Requests /\ line.status \in {"done", "unknown"}
      /\ line.status = "done" => ran[r] = 1
      /\ fromRelay' = fromRelay \ {line}
      /\ UNCHANGED <<toWorker, fromWorker, toRelay, serving, backend, ran>>
  BY DEF BridgeTypeOK, Lines, LinesAreTrue, RelayLine, workerVars
<1>2. OneStation' /\ NotYetRun' /\ LinesAreTrue'
  BY <1>1 DEF OneStation, NotYetRun, LinesAreTrue, PrintedBy, AtBackend
<1>3. CASE stage[r] # "relay"
  <2>1. UNCHANGED <<stage, answers>>
    BY <1>3 DEF RelayLine
  <2>2. BridgeTypeOK' /\ NewIsNowhere' /\ HeldIsUnanswered' /\ RefusedIsOver'
    BY <1>1, <2>1 DEF BridgeTypeOK, NewIsNowhere, Nowhere, HeldIsUnanswered, RefusedIsOver, PrintedBy, AtBackend
  <2> QED BY <1>1, <1>2, <2>1, <2>2 DEF Call!vars
<1>4. CASE stage[r] = "relay"
  <2>1. /\ stage' = [q \in Requests |-> IF q \in {r} THEN "closed" ELSE stage[q]]
        /\ stage' \in [Requests -> Stages]
        /\ answers' = Answered({r}, line.status)
        /\ answers' \in [Requests -> Answers]
        /\ HeldIsUnanswered'
    BY <1>1, <1>4, WriteJsonAnswers DEF RelayLine, Statuses
  <2>2. BridgeTypeOK' /\ NewIsNowhere'
    BY <1>1, <2>1 DEF BridgeTypeOK, NewIsNowhere, Nowhere, PrintedBy, AtBackend
  <2>3. answers'[r] # <<"refused">>
    BY <1>1, <2>1 DEF Answered
  <2>4. RefusedIsOver'
    BY <1>1, <2>1, <2>3 DEF Answered, RefusedIsOver, PrintedBy
  <2>5. Call!Answer({r}, line.status)
    BY <1>1, <1>4, <2>1 DEF Call!Answer, Answered, HeldIsUnanswered
  <2> QED BY <1>1, <1>2, <2>1, <2>2, <2>4, <2>5 DEF Call!Next
<1> QED BY <1>3, <1>4

(* The exit of the relay loses what was written to it and answers all it   *)
(* had; it is two steps of the proof, losing and answering.                *)
LEMMA RelayExitStep ==
  ASSUME BridgeInv, RelayExit
  PROVE  BridgeInv' /\ [Call!Next]_Call!vars
<1> USE DEF BridgeInv, Stations, Truth
<1>1. /\ toRelay' = {}
      /\ UNCHANGED <<toWorker, fromWorker, fromRelay, serving, backend, ran>>
  BY DEF RelayExit, workerVars
<1>2. OneStation' /\ NotYetRun' /\ LinesAreTrue'
  BY <1>1 DEF OneStation, NotYetRun, LinesAreTrue, PrintedBy, AtBackend
<1>3. CASE bridge = "up"
  <2>1. /\ stage' = [q \in Requests |-> IF q \in Pending("relay") THEN "closed" ELSE stage[q]]
        /\ stage' \in [Requests -> Stages]
        /\ answers' = Answered(Pending("relay"), "unknown")
        /\ answers' \in [Requests -> Answers]
        /\ HeldIsUnanswered'
    BY <1>3, WriteJsonAnswers DEF RelayExit, Statuses, Pending
  <2>2. BridgeTypeOK' /\ NewIsNowhere'
    BY <1>1, <2>1 DEF BridgeTypeOK, NewIsNowhere, Nowhere, PrintedBy, AtBackend
  <2>3. <<"unknown">> # <<"refused">>
    OBVIOUS
  <2>4. RefusedIsOver'
    BY <1>1, <2>1, <2>3 DEF Answered, RefusedIsOver, PrintedBy
  <2>5. CASE Pending("relay") = {}
    BY <1>1, <1>2, <2>1, <2>2, <2>4, <2>5 DEF Call!vars, Answered, BridgeTypeOK
  <2>6. CASE Pending("relay") # {}
    <3>1. Call!Answer(Pending("relay"), "unknown")
      BY <1>1, <2>1, <2>6 DEF Call!Answer, Answered, HeldIsUnanswered, Pending
    <3> QED BY <1>2, <2>1, <2>2, <2>4, <3>1 DEF Call!Next, Pending
  <2> QED BY <2>5, <2>6
<1>4. CASE bridge # "up"
  <2>1. UNCHANGED <<stage, answers>>
    BY <1>4 DEF RelayExit
  <2>2. BridgeTypeOK' /\ NewIsNowhere' /\ HeldIsUnanswered' /\ RefusedIsOver'
    BY <1>1, <2>1 DEF BridgeTypeOK, NewIsNowhere, Nowhere, HeldIsUnanswered, RefusedIsOver, PrintedBy, AtBackend
  <2> QED BY <1>1, <1>2, <2>1, <2>2 DEF Call!vars
<1> QED BY <1>3, <1>4

LEMMA RelayWriteFailsStep ==
  ASSUME BridgeInv, NEW r \in Requests, RelayWriteFails(r)
  PROVE  BridgeInv' /\ [Call!Next]_Call!vars
<1> USE DEF BridgeInv, Stations, Truth
<1>1. /\ toRelay' = {} /\ stage' = [q \in Requests |-> "closed"]
      /\ UNCHANGED <<toWorker, fromWorker, fromRelay, serving, backend, ran>>
  BY DEF RelayWriteFails, workerVars
<1>2. PICK R \in SUBSET ({r} \cap Pending("relay")) :
        answers' = [q \in Requests |-> IF q \in R THEN Append(answers[q], "unknown") ELSE answers[q]]
  BY DEF RelayWriteFails
<1>3. \A q \in R : q \in Requests /\ answers[q] = << >>
  BY <1>2 DEF Pending, HeldIsUnanswered
<1>4. Append(<< >>, "unknown") = <<"unknown">> /\ <<"unknown">> # <<"refused">>
  OBVIOUS
<1>5. answers' = Answered(R, "unknown")
  <2>1. \A q \in Requests :
          (IF q \in R THEN Append(answers[q], "unknown") ELSE answers[q])
            = IF q \in R THEN <<"unknown">> ELSE answers[q]
    BY <1>3, <1>4
  <2> QED BY <1>2, <2>1 DEF Answered
<1>6. BridgeTypeOK'
  BY <1>1, <1>5 DEF BridgeTypeOK, Stages, Answered, Answers, Statuses
<1>7. OneStation' /\ NotYetRun' /\ LinesAreTrue'
  BY <1>1 DEF OneStation, NotYetRun, LinesAreTrue, PrintedBy, AtBackend
<1>8. NewIsNowhere' /\ HeldIsUnanswered'
  BY <1>1 DEF NewIsNowhere, HeldIsUnanswered
<1>9. RefusedIsOver'
  BY <1>1, <1>4, <1>5 DEF Answered, RefusedIsOver, PrintedBy
<1>10. [Call!Next]_Call!vars
  <2>1. CASE R = {}
    BY <1>1, <1>5, <2>1 DEF Call!vars, Answered, BridgeTypeOK
  <2>2. CASE R # {}
    <3>1. Call!Answer(R, "unknown")
      BY <1>1, <1>3, <1>5, <2>2 DEF Call!Answer, Answered
    <3> QED BY <1>3, <3>1 DEF Call!Next
  <2> QED BY <2>1, <2>2
<1> QED BY <1>6, <1>7, <1>8, <1>9, <1>10

(* What only answers: at the door, by a timer, for a dead worker, at the   *)
(* bridge's own end.                                                       *)
LEMMA GivingUpStep ==
  ASSUME BridgeInv,
         \/ \E r \in Requests : Gate(r) \/ Unconfigured(r) \/ WorkerTimeout(r) \/ RelayTimeout(r)
         \/ WorkerFails \/ Stop
  PROVE  BridgeInv' /\ [Call!Next]_Call!vars
<1>1. CASE \E r \in Requests : Gate(r) \/ Unconfigured(r)
  BY <1>1, AnsweringHeld DEF Gate, Unconfigured, queues, workerVars, relayVars
<1>2. CASE \E r \in Requests : WorkerTimeout(r) \/ RelayTimeout(r)
  BY <1>2, AnsweringHeld DEF WorkerTimeout, RelayTimeout, queues, workerVars, relayVars
<1>3. CASE WorkerFails
  BY <1>3, AnsweringHeld DEF WorkerFails, Pending, queues, relayVars
<1>4. CASE Stop
  BY <1>4, AnsweringHeld DEF Stop, Pending, queues, relayVars
<1> QED BY <1>1, <1>2, <1>3, <1>4

LEMMA BridgeStep ==
  ASSUME BridgeInv, [BridgeNext]_bridgeVars
  PROVE  BridgeInv' /\ [Call!Next]_Call!vars
<1>1. CASE \E r \in Requests : Gate(r) \/ Unconfigured(r) \/ WorkerTimeout(r) \/ RelayTimeout(r)
  BY <1>1, GivingUpStep
<1>2. CASE WorkerFails \/ Stop
  BY <1>2, GivingUpStep
<1>3. ASSUME NEW r \in Requests, AskWorker(r) PROVE BridgeInv' /\ [Call!Next]_Call!vars
  BY <1>3, AskWorkerStep
<1>4. ASSUME NEW r \in Requests, AskRelay(r) PROVE BridgeInv' /\ [Call!Next]_Call!vars
  BY <1>4, SendToRelayStep DEF AskRelay, workerVars, relayQueues
<1>5. ASSUME NEW r \in Requests, WorkerRun(r) PROVE BridgeInv' /\ [Call!Next]_Call!vars
  BY <1>5, WorkerRunStep
<1>6. ASSUME NEW r \in Requests, BackendRun(r) PROVE BridgeInv' /\ [Call!Next]_Call!vars
  BY <1>6, BackendRunStep
<1>7. ASSUME NEW r \in Requests, RelayWriteFails(r) PROVE BridgeInv' /\ [Call!Next]_Call!vars
  BY <1>7, RelayWriteFailsStep
<1>8. ASSUME NEW line \in fromWorker, WorkerLine(line) PROVE BridgeInv' /\ [Call!Next]_Call!vars
  BY <1>8, WorkerLineStep
<1>9. ASSUME NEW line \in fromRelay, RelayLine(line) PROVE BridgeInv' /\ [Call!Next]_Call!vars
  BY <1>9, RelayLineStep
<1>10. CASE Delivery
  BY <1>10, DeliveryStep
<1>11. CASE RelayExit
  BY <1>11, RelayExitStep
<1>12. CASE UNCHANGED bridgeVars
  <2>1. BridgeInv'
    BY <1>12 DEF bridgeVars, workerVars, relayVars, BridgeInv, BridgeTypeOK, Stations, Truth, OneStation, NotYetRun,
                 NewIsNowhere, Nowhere, LinesAreTrue, HeldIsUnanswered, RefusedIsOver, PrintedBy, AtBackend
  <2> QED BY <1>12, <2>1 DEF bridgeVars, Call!vars
<1> QED BY <1>1, <1>2, <1>3, <1>4, <1>5, <1>6, <1>7, <1>8, <1>9, <1>10, <1>11, <1>12 DEF BridgeNext, Delivery

-----------------------------------------------------------------------------
(* Wherever a request is, and whatever has died, it is at one station and  *)
(* its answers are true: the invariant the refinement rests on.            *)
THEOREM RequestsAreAtOneStation == BridgeSpec => []BridgeInv
<1>1. BridgeInit => BridgeInv
  BY BridgeInitHolds
<1>2. BridgeInv /\ [BridgeNext]_bridgeVars => BridgeInv'
  BY BridgeStep
<1> QED BY <1>1, <1>2, PTL DEF BridgeSpec

(* The bridge with its children executes no request twice, answers none    *)
(* twice and claims nothing of an execution that is not true for ever      *)
(* (writeJson, completePending, failAll of the bridge; run_worker; the     *)
(* relay's loop), for any number of requests of any kind.                  *)
THEOREM BridgeKeepsPromise == BridgeSpec => CallPromise
<1>1. BridgeInit => Call!Init
  BY BridgeInitHolds
<1>2. BridgeInv /\ [BridgeNext]_bridgeVars => [Call!Next]_Call!vars
  BY BridgeStep
<1> QED BY <1>1, <1>2, RequestsAreAtOneStation, PTL DEF BridgeSpec, CallPromise, Call!Spec

-----------------------------------------------------------------------------
(* The trash of the journal (JournalLifecycle).                            *)

ReadCalls == [tab : Tabs, what : {"read"}, n : Nat]
ChangeCalls == [tab : Tabs, what : {"change"}, n : Nat, dialog : Dialogs]
Snapshots == [version : Nat, trash : SUBSET Records]
ReadReplies == [tab : Tabs, what : {"read"}, n : Nat, snapshot : Snapshots]
Conflicts == [tab : Tabs, what : {"change"}, n : Nat, status : {"conflict"}]
Successes == [tab : Tabs, what : {"change"}, n : Nat, status : {"ok"}, snapshot : Snapshots]

LifecycleTypeOK ==
  /\ log \in Seq(LogEvent)
  /\ calls \subseteq ReadCalls \cup ChangeCalls
  /\ replies \subseteq ReadReplies \cup Conflicts \cup Successes
  /\ view \in [Tabs -> Snapshots] /\ acked \in [Tabs -> Nat]
  /\ fresh \in [Tabs -> BOOLEAN] /\ error \in [Tabs -> BOOLEAN]
  /\ request \in [Tabs -> Nat] /\ reading \in [Tabs -> Nat \cup {None}]
  /\ dialog \in [Tabs -> Dialogs \cup {None}]
  /\ pending \in [Tabs -> {"no", "sent", "reread"}]
  /\ attempts \in [Tabs -> Nat] /\ opened \in [Tabs -> Nat]
  /\ \A t \in Tabs : pending[t] # "no" => dialog[t] # None

\* What it says of the log is true, and stays true.
TrueAt(version, trash) == version <= Len(log) /\ trash = TrashAt(log, version)

\* The confirmations that may still change something.
Confirmations == {dialog[t] : t \in {u \in Tabs : dialog[u] # None}}
                   \cup {m.dialog : m \in {c \in calls : c.what = "change"}}

SnapshotsAreTrue ==
  /\ \A t \in Tabs : TrueAt(view[t].version, view[t].trash)
  /\ \A m \in replies :
       m \notin Conflicts => TrueAt(m.snapshot.version, m.snapshot.trash)
  /\ \A d \in Confirmations : TrueAt(d.version, d.shown)

\* No read that a tab would still apply is older than its last change.
ReadsFollowChanges ==
  /\ \A t \in Tabs : acked[t] <= view[t].version
  /\ \A m \in calls \cup replies : m.what = "read" => m.n <= request[m.tab]
  /\ \A m \in replies :
       m.what = "read" /\ m.n = request[m.tab] => acked[m.tab] <= m.snapshot.version

IsOpened(id) == \E t \in Tabs : \E k \in 1 .. opened[t] : id = <<t, k>>

\* What a confirmation has changed lies after the version it was given for.
SpentOnce ==
  /\ \A i \in 1 .. Len(log) : IsOpened(log[i].by)
  /\ \A d \in Confirmations : IsOpened(d.id)
  /\ \A d \in Confirmations : \A i \in 1 .. Len(log) : log[i].by = d.id => d.version < i

LifecycleInv == LifecycleTypeOK /\ SnapshotsAreTrue /\ ReadsFollowChanges /\ SpentOnce /\ OncePerConfirmation

-----------------------------------------------------------------------------
(* The log only grows: what was true of a prefix of it stays true.         *)
LEMMA TrashOfPrefix ==
  ASSUME NEW old \in Seq(LogEvent), NEW new \in Seq(LogEvent), NEW n \in 0 .. Len(old)
  PROVE  TrashAt(old \o new, n) = TrashAt(old, n)
<1>1. \A i \in 1 .. n : (old \o new)[i] = old[i]
  BY ConcatProperties
<1> QED BY <1>1 DEF TrashAt

\* One event of this action for each record of the set.
OneForEach(new, S, action) ==
  /\ \A i \in 1 .. Len(new) : new[i].record \in S /\ new[i].action = action
  /\ \A r \in S : \E i \in 1 .. Len(new) : new[i].record = r
  /\ \A i, j \in 1 .. Len(new) : new[i].record = new[j].record => i = j

(* One event for each record of a set makes exactly the change.            *)
LEMMA TrashAfterBatch ==
  ASSUME NEW old \in Seq(LogEvent), NEW new \in Seq(LogEvent), NEW S \in SUBSET Records,
         NEW action \in Actions, OneForEach(new, S, action)
  PROVE  TrashAt(old \o new, Len(old \o new)) =
           IF action = "DELETE" THEN TrashAt(old, Len(old)) \cup S ELSE TrashAt(old, Len(old)) \ S
<1> DEFINE all == old \o new
           L == Len(old)
           N == Len(new)
<1> USE DEF OneForEach
<1>1. /\ L \in Nat /\ N \in Nat /\ Len(all) = L + N
      /\ \A i \in 1 .. L : all[i] = old[i]
      /\ \A i \in L + 1 .. L + N : all[i] = new[i - L]
      /\ \A i \in 1 .. N : all[L + i] = new[i]
  BY ConcatProperties, LenProperties
<1>2. ASSUME NEW r \in Records, r \notin S
      PROVE  r \in TrashAt(all, L + N) <=> r \in TrashAt(old, L)
  <2>1. \A j \in L + 1 .. L + N : all[j].record # r
    BY <1>1, <1>2
  <2>2. ASSUME r \in TrashAt(all, L + N) PROVE r \in TrashAt(old, L)
    <3>1. PICK i \in 1 .. L + N : /\ all[i].record = r /\ all[i].action = "DELETE"
                                 /\ \A j \in i + 1 .. L + N : all[j].record # r
      BY <2>2 DEF TrashAt
    <3>2. i \in 1 .. L
      BY <1>1, <2>1, <3>1
    <3> QED BY <1>1, <3>1, <3>2 DEF TrashAt
  <2>3. ASSUME r \in TrashAt(old, L) PROVE r \in TrashAt(all, L + N)
    <3>1. PICK i \in 1 .. L : /\ old[i].record = r /\ old[i].action = "DELETE"
                             /\ \A j \in i + 1 .. L : old[j].record # r
      BY <2>3 DEF TrashAt
    <3>2. \A j \in i + 1 .. L + N : all[j].record # r
      BY <1>1, <2>1, <3>1
    <3>3. i \in 1 .. L + N /\ all[i].record = r /\ all[i].action = "DELETE"
      BY <1>1, <3>1
    <3> QED BY <3>2, <3>3 DEF TrashAt
  <2> QED BY <2>2, <2>3
<1>3. ASSUME NEW r \in S, action = "DELETE"
      PROVE  r \in TrashAt(all, L + N)
  <2>1. PICK k \in 1 .. N : new[k].record = r
    OBVIOUS
  <2>2. L + k \in 1 .. L + N /\ all[L + k].record = r /\ all[L + k].action = "DELETE"
    BY <1>1, <1>3, <2>1
  <2>3. ASSUME NEW j \in L + k + 1 .. L + N PROVE all[j].record # r
    <3>1. all[j] = new[j - L] /\ j - L \in 1 .. N /\ j - L # k
      BY <1>1
    <3> QED BY <2>1, <3>1
  <2> QED BY <2>2, <2>3 DEF TrashAt
<1>4. ASSUME NEW r \in S, action # "DELETE"
      PROVE  r \notin TrashAt(all, L + N)
  <2>1. PICK k \in 1 .. N : new[k].record = r
    OBVIOUS
  <2>2. all[L + k].record = r /\ L + k \in 1 .. L + N
    BY <1>1, <2>1
  <2>3. SUFFICES ASSUME NEW i \in 1 .. L + N, all[i].record = r, all[i].action = "DELETE",
                        \A j \in i + 1 .. L + N : all[j].record # r
                 PROVE  FALSE
    BY DEF TrashAt
  <2>4. L + k \notin i + 1 .. L + N
    BY <2>2, <2>3
  <2>5. i >= L + k
    BY <1>1, <2>1, <2>4
  <2>6. all[i].action = action
    BY <1>1, <2>1, <2>5
  <2> QED BY <1>4, <2>3, <2>6
<1>5. ASSUME NEW r \in S PROVE r \in TrashAt(all, L + N) <=> action = "DELETE"
  BY <1>3, <1>4
<1>6. TrashAt(all, L + N) \subseteq Records /\ TrashAt(old, L) \subseteq Records
  BY DEF TrashAt
<1>7. CASE action = "DELETE"
  <2>1. \A r \in Records : r \in TrashAt(all, L + N) <=> r \in TrashAt(old, L) \cup S
    BY <1>2, <1>5, <1>7
  <2> QED BY <1>1, <1>6, <1>7, <2>1
<1>8. CASE action # "DELETE"
  <2>1. \A r \in Records : r \in TrashAt(all, L + N) <=> r \in TrashAt(old, L) \ S
    BY <1>2, <1>5, <1>8
  <2> QED BY <1>1, <1>6, <1>8, <2>1
<1> QED BY <1>7, <1>8

(* A batch has each of its records once, in whatever order.                *)
LEMMA OrdersAreBatches ==
  ASSUME NEW S, IsFiniteSet(S), NEW order \in Orders(S)
  PROVE  /\ Cardinality(S) \in Nat /\ order \in [1 .. Cardinality(S) -> S]
         /\ \A r \in S : \E i \in 1 .. Cardinality(S) : order[i] = r
         /\ \A i, j \in 1 .. Cardinality(S) : order[i] = order[j] => i = j
<1> DEFINE n == Cardinality(S)
<1>1. n \in Nat
  BY FS_CardinalityType
<1>2. order \in [1 .. n -> S] /\ \A r \in S : \E i \in 1 .. n : order[i] = r
  BY DEF Orders
<1>3. order \in Surjection(1 .. n, S)
  BY <1>2 DEF Surjection
<1>4. IsFiniteSet(1 .. n) /\ Cardinality(1 .. n) = n
  BY <1>1, FS_Interval
<1>5. order \in Injection(1 .. n, S)
  BY <1>3, <1>4, FS_Surjection
<1> QED BY <1>1, <1>2, <1>5 DEF Injection, IsInjective

Batch(order, d) == [i \in DOMAIN order |-> [record |-> order[i], action |-> d.action, by |-> d.id]]

LEMMA BatchIsLog ==
  ASSUME NEW d \in Dialogs, NEW S \in SUBSET Records, NEW order \in Orders(S)
  PROVE  /\ Batch(order, d) \in Seq(LogEvent)
         /\ Len(Batch(order, d)) = Cardinality(S)
         /\ \A i \in 1 .. Cardinality(S) :
              /\ Batch(order, d)[i].record = order[i] /\ Batch(order, d)[i].record \in S
              /\ Batch(order, d)[i].action = d.action
              /\ Batch(order, d)[i].by = d.id
         /\ \A r \in S : \E i \in 1 .. Cardinality(S) : Batch(order, d)[i].record = r
         /\ \A i, j \in 1 .. Cardinality(S) :
              Batch(order, d)[i].record = Batch(order, d)[j].record => i = j
<1> DEFINE n == Cardinality(S)
<1>1. IsFiniteSet(S)
  BY FiniteRecords, FS_Subset
<1>2. /\ n \in Nat /\ order \in [1 .. n -> S]
      /\ \A r \in S : \E i \in 1 .. n : order[i] = r
      /\ \A i, j \in 1 .. n : order[i] = order[j] => i = j
  BY <1>1, OrdersAreBatches
<1>3. Batch(order, d) \in [1 .. n -> LogEvent]
  BY <1>2 DEF Batch, LogEvent, Dialogs
<1>4. Batch(order, d) \in Seq(LogEvent) /\ Len(Batch(order, d)) = n
  BY <1>2, <1>3, SeqDef, LenProperties
<1>5. \A i \in 1 .. n : /\ Batch(order, d)[i].record = order[i]
                        /\ Batch(order, d)[i].action = d.action
                        /\ Batch(order, d)[i].by = d.id
  BY <1>2 DEF Batch
<1> QED BY <1>2, <1>4, <1>5

-----------------------------------------------------------------------------
LEMMA Updated ==
  ASSUME NEW S, NEW T, NEW f \in [S -> T], NEW x \in S, NEW v \in T
  PROVE  [f EXCEPT ![x] = v] \in [S -> T]
  OBVIOUS

(* A step that leaves the log alone hands on snapshots and confirmations   *)
(* that were there, or takes a new one of the log as it is.                *)
LEMMA SameLog ==
  ASSUME LifecycleInv, LifecycleTypeOK', log' = log,
         \A t \in Tabs : \/ view'[t] = view[t]
                         \/ \E m \in replies \ Conflicts : view'[t] = m.snapshot,
         \A m \in replies' : m \in replies \/ m \in Conflicts \/ m.snapshot = Snapshot,
         \A d \in Confirmations' :
            \E e \in Confirmations : d.id = e.id /\ d.version = e.version /\ d.shown = e.shown,
         opened' = opened
  PROVE  SnapshotsAreTrue' /\ SpentOnce' /\ OncePerConfirmation'
<1>1. Len(log) \in Nat
  BY LenProperties DEF LifecycleInv, LifecycleTypeOK
<1>2. SnapshotsAreTrue'
  <2>1. TrueAt(Snapshot.version, Snapshot.trash)
    BY <1>1 DEF TrueAt, Snapshot, Trash
  <2>2. \A version, trash : TrueAt(version, trash)' <=> TrueAt(version, trash)
    BY DEF TrueAt
  <2>3. \A t \in Tabs : TrueAt(view'[t].version, view'[t].trash)
    BY DEF LifecycleInv, SnapshotsAreTrue
  <2>4. \A m \in replies' : m \notin Conflicts => TrueAt(m.snapshot.version, m.snapshot.trash)
    BY <2>1 DEF LifecycleInv, SnapshotsAreTrue
  <2>5. \A d \in Confirmations' : TrueAt(d.version, d.shown)
    BY DEF LifecycleInv, SnapshotsAreTrue
  <2> QED BY <2>2, <2>3, <2>4, <2>5 DEF SnapshotsAreTrue
<1>3. SpentOnce'
  BY DEF LifecycleInv, SpentOnce, IsOpened
<1>4. OncePerConfirmation'
  BY DEF LifecycleInv, OncePerConfirmation
<1> QED BY <1>2, <1>3, <1>4

(* The confirmations that a step of a tab leaves on their way.             *)
LEMMA FewerConfirmations ==
  ASSUME \A m \in calls' : m.what = "change" => m \in calls \/ \E t \in Tabs : dialog[t] # None /\ m.dialog = dialog[t],
         \A t \in Tabs : dialog'[t] # None => dialog'[t] = dialog[t]
  PROVE  \A d \in Confirmations' :
            \E e \in Confirmations : d.id = e.id /\ d.version = e.version /\ d.shown = e.shown
  BY DEF Confirmations

LEMMA CallsAndReplies ==
  ASSUME LifecycleTypeOK, NEW m \in calls \cup replies
  PROVE  /\ m.tab \in Tabs /\ m.n \in Nat /\ m.what \in {"read", "change"}
         /\ m \in calls /\ m.what = "change" => m \in ChangeCalls
         /\ m \in replies /\ m.what = "read" => m \in ReadReplies
         /\ m \in replies /\ m.what = "change" => m \in Conflicts \cup Successes
  BY DEF LifecycleTypeOK, ReadCalls, ChangeCalls, ReadReplies, Conflicts, Successes

LEMMA ConfirmationsAreDialogs ==
  ASSUME LifecycleTypeOK PROVE Confirmations \subseteq Dialogs
<1>1. \A t \in Tabs : dialog[t] # None => dialog[t] \in Dialogs
  BY DEF LifecycleTypeOK
<1>2. \A c \in calls : c.what = "change" => c \in ChangeCalls
  BY CallsAndReplies
<1>3. \A c \in ChangeCalls : c.dialog \in Dialogs
  BY DEF ChangeCalls
<1> QED BY <1>1, <1>2, <1>3 DEF Confirmations

LEMMA ReadingStep ==
  ASSUME LifecycleInv, NEW t \in Tabs,
         \/ StartRead(t) \/ Invalidate(t) \/ CloseDialog(t) \/ RereadEnds(t)
         \/ \E n \in 0 .. MaxRequest[t] : ReadFails(t, n)
  PROVE  LifecycleInv'
<1> USE DEF LifecycleInv
<1>1. LifecycleTypeOK'
  <2>1. CASE StartRead(t)
    BY <2>1 DEF StartRead, LifecycleTypeOK, Read, ReadCalls
  <2>2. CASE Invalidate(t)
    BY <2>2 DEF Invalidate, LifecycleTypeOK
  <2>3. CASE CloseDialog(t) \/ RereadEnds(t)
    BY <2>3 DEF CloseDialog, RereadEnds, LifecycleTypeOK
  <2>4. CASE \E n \in 0 .. MaxRequest[t] : ReadFails(t, n)
    BY <2>4 DEF ReadFails, LifecycleTypeOK
  <2> QED BY <2>1, <2>2, <2>3, <2>4
<1>2. /\ log' = log /\ view' = view /\ acked' = acked /\ opened' = opened
      /\ replies' \subseteq replies
      /\ \A m \in calls' : m \in calls \/ m = Read(t, request[t])
      /\ \A u \in Tabs : dialog'[u] # None => dialog'[u] = dialog[u]
      /\ \A u \in Tabs : request'[u] = request[u] \/ (request'[u] = request[u] + 1 /\ calls' = calls)
  BY DEF StartRead, Invalidate, CloseDialog, RereadEnds, ReadFails, LifecycleTypeOK
<1>3. ReadsFollowChanges'
  <2>1. ASSUME NEW m \in calls' \cup replies', m.what = "read"
        PROVE  m.n <= request'[m.tab]
    <3>1. ASSUME NEW u \in Tabs
          PROVE  request[u] \in Nat /\ request'[u] \in Nat /\ request[u] <= request'[u]
      <4>1. request[u] \in Nat
        BY DEF LifecycleTypeOK
      <4> QED BY <1>2, <4>1
    <3>2. CASE m \in calls \cup replies
      <4>1. m.tab \in Tabs /\ m.n \in Nat /\ m.n <= request[m.tab]
        BY <2>1, <3>2, CallsAndReplies DEF ReadsFollowChanges
      <4> QED BY <3>1, <4>1
    <3>3. CASE m = Read(t, request[t])
      BY <3>1, <3>3 DEF Read
    <3> QED BY <1>2, <3>2, <3>3
  <2>2. ASSUME NEW m \in replies', m.what = "read", m.n = request'[m.tab]
        PROVE  acked[m.tab] <= m.snapshot.version
    <3>1. m \in replies /\ m.tab \in Tabs /\ m.n \in Nat /\ m.n <= request[m.tab]
      BY <1>2, <2>2, CallsAndReplies DEF ReadsFollowChanges
    <3>2. request'[m.tab] = request[m.tab]
      BY <1>2, <2>2, <3>1 DEF LifecycleTypeOK
    <3> QED BY <2>2, <3>1, <3>2 DEF ReadsFollowChanges
  <2> QED BY <1>2, <2>1, <2>2 DEF ReadsFollowChanges
<1>4. \A d \in Confirmations' :
        \E e \in Confirmations : d.id = e.id /\ d.version = e.version /\ d.shown = e.shown
  BY <1>2, FewerConfirmations DEF Read
<1> QED BY <1>1, <1>2, <1>3, <1>4, SameLog

(* The reply of a read is applied, or it was overtaken and dropped.        *)
LEMMA ReadReturnsStep ==
  ASSUME LifecycleInv, NEW t \in Tabs, NEW m \in replies, ReadReturns(t, m)
  PROVE  LifecycleInv'
<1> USE DEF LifecycleInv
<1>1. /\ m.tab = t /\ m.what = "read" /\ m.n = request[t] /\ m \in ReadReplies /\ m \notin Conflicts
      /\ log' = log /\ calls' = calls /\ replies' = replies \ {m}
      /\ view' = [view EXCEPT ![t] = m.snapshot]
      /\ UNCHANGED <<request, dialog, opened, acked>>
  BY CallsAndReplies DEF ReadReturns, Apply, Conflicts
<1>2. LifecycleTypeOK'
  BY <1>1 DEF ReadReturns, Apply, LifecycleTypeOK, ReadReplies
<1>3. ReadsFollowChanges'
  BY <1>1 DEF ReadsFollowChanges, LifecycleTypeOK
<1>4. \A d \in Confirmations' :
        \E e \in Confirmations : d.id = e.id /\ d.version = e.version /\ d.shown = e.shown
  BY <1>1, FewerConfirmations
<1>5. \A u \in Tabs : view'[u] = view[u] \/ \E r \in replies \ Conflicts : view'[u] = r.snapshot
  BY <1>1 DEF LifecycleTypeOK
<1> QED BY <1>1, <1>2, <1>3, <1>4, <1>5, SameLog

LEMMA ReadOvertakenStep ==
  ASSUME LifecycleInv, NEW t \in Tabs, NEW m \in replies, ReadOvertaken(t, m)
  PROVE  LifecycleInv'
<1> USE DEF LifecycleInv
<1>1. /\ log' = log /\ replies' = replies \ {m}
      /\ \A c \in calls' : c \in calls \/ c = Read(t, request[t])
      /\ UNCHANGED <<view, request, dialog, opened, acked>>
  BY DEF ReadOvertaken
<1>2. LifecycleTypeOK'
  <2>1. Read(t, request[t]) \in ReadCalls
    BY DEF LifecycleTypeOK, Read, ReadCalls
  <2>2. calls' \subseteq ReadCalls \cup ChangeCalls
    BY <1>1, <2>1 DEF LifecycleTypeOK
  <2>3. reading' \in [Tabs -> Nat \cup {None}]
    <3>1. reading' = reading \/ reading' = [reading EXCEPT ![t] = request[t]]
      BY DEF ReadOvertaken
    <3> QED BY <3>1, SMTT(30) DEF LifecycleTypeOK
  <2> QED BY <2>2, <2>3 DEF ReadOvertaken, LifecycleTypeOK
<1>3. ReadsFollowChanges'
  BY <1>1 DEF ReadsFollowChanges, Read, LifecycleTypeOK
<1>4. \A d \in Confirmations' :
        \E e \in Confirmations : d.id = e.id /\ d.version = e.version /\ d.shown = e.shown
  BY <1>1, FewerConfirmations DEF Read
<1> QED BY <1>1, <1>2, <1>3, <1>4, SameLog

LEMMA SubmitChangeStep ==
  ASSUME LifecycleInv, NEW t \in Tabs, SubmitChange(t)
  PROVE  LifecycleInv'
<1> USE DEF LifecycleInv
<1>1. /\ log' = log /\ replies' = replies /\ dialog[t] # None /\ dialog[t] \in Dialogs
      /\ attempts'[t] \in Nat
      /\ calls' = calls \cup {[tab |-> t, what |-> "change", n |-> attempts'[t], dialog |-> dialog[t]]}
      /\ UNCHANGED <<view, request, dialog, opened, acked>>
  BY DEF SubmitChange, LifecycleTypeOK
<1>2. LifecycleTypeOK'
  BY <1>1 DEF SubmitChange, LifecycleTypeOK, ChangeCalls
<1>3. ReadsFollowChanges'
  BY <1>1 DEF ReadsFollowChanges
<1>4. \A d \in Confirmations' :
        \E e \in Confirmations : d.id = e.id /\ d.version = e.version /\ d.shown = e.shown
  BY <1>1, FewerConfirmations
<1> QED BY <1>1, <1>2, <1>3, <1>4, SameLog

(* A change fails or is in conflict: its dialog stays what it was.         *)
LEMMA ChangeFailsStep ==
  ASSUME LifecycleInv, NEW t \in Tabs, ChangeFails(t)
  PROVE  LifecycleInv'
<1> USE DEF LifecycleInv
<1>1. /\ log' = log /\ calls' = calls /\ replies' \subseteq replies
      /\ UNCHANGED <<view, request, dialog, opened, acked>>
  BY DEF ChangeFails
<1>2. LifecycleTypeOK'
  BY <1>1 DEF ChangeFails, LifecycleTypeOK
<1>3. ReadsFollowChanges'
  BY <1>1 DEF ReadsFollowChanges
<1>4. \A d \in Confirmations' :
        \E e \in Confirmations : d.id = e.id /\ d.version = e.version /\ d.shown = e.shown
  BY <1>1, FewerConfirmations
<1> QED BY <1>1, <1>2, <1>3, <1>4, SameLog

LEMMA ChangeConflictsStep ==
  ASSUME LifecycleInv, NEW t \in Tabs, NEW m \in replies, ChangeConflicts(t, m)
  PROVE  LifecycleInv'
<1> USE DEF LifecycleInv
<1>1. /\ log' = log /\ replies' = replies \ {m} /\ m.tab = t
      /\ request' = [request EXCEPT ![t] = @ + 1]
      /\ calls' = calls \cup {Read(t, request'[t])}
      /\ dialog' = [dialog EXCEPT ![t] = [dialog[t] EXCEPT !.stale = TRUE]]
      /\ UNCHANGED <<view, opened, acked>>
  BY DEF ChangeConflicts
<1>2. /\ dialog[t] \in Dialogs /\ dialog'[t] \in Dialogs /\ dialog'[t] # None
      /\ dialog'[t].id = dialog[t].id /\ dialog'[t].version = dialog[t].version
      /\ dialog'[t].shown = dialog[t].shown
      /\ dialog[t] # None
      /\ \A u \in Tabs : u # t => dialog'[u] = dialog[u]
  <2>1. dialog[t] # None /\ dialog[t] \in Dialogs
    BY <1>1 DEF ChangeConflicts, Awaited, LifecycleTypeOK
  <2>2. /\ dialog'[t] = [dialog[t] EXCEPT !.stale = TRUE]
        /\ \A u \in Tabs : u # t => dialog'[u] = dialog[u]
    BY <1>1 DEF LifecycleTypeOK
  <2>3. /\ dialog'[t] \in Dialogs
        /\ dialog'[t].id = dialog[t].id /\ dialog'[t].version = dialog[t].version
        /\ dialog'[t].shown = dialog[t].shown
    BY <2>1, <2>2 DEF Dialogs
  <2> QED BY <2>1, <2>2, <2>3, NoneIsNoDialog
<1>3. /\ request'[t] = request[t] + 1 /\ request[t] \in Nat
      /\ \A u \in Tabs : u # t => request'[u] = request[u]
  BY <1>1 DEF LifecycleTypeOK
<1>4. LifecycleTypeOK'
  <2>1. request' \in [Tabs -> Nat] /\ request'[t] \in Nat
    BY <1>1, <1>3 DEF LifecycleTypeOK
  <2>2. calls' \subseteq ReadCalls \cup ChangeCalls
    BY <1>1, <2>1 DEF LifecycleTypeOK, Read, ReadCalls
  <2>3. dialog' \in [Tabs -> Dialogs \cup {None}] /\ dialog'[t] # None
    <3>1. [dialog[t] EXCEPT !.stale = TRUE] \in Dialogs
      BY <1>2 DEF Dialogs
    <3>2. dialog' \in [Tabs -> Dialogs \cup {None}]
      BY <1>1, <3>1, Updated DEF LifecycleTypeOK
    <3> QED BY <1>2, <3>2
  <2>4. /\ fresh' \in [Tabs -> BOOLEAN] /\ reading' \in [Tabs -> Nat \cup {None}]
        /\ pending' \in [Tabs -> {"no", "sent", "reread"}]
        /\ \A u \in Tabs : u # t => pending'[u] = pending[u]
    BY <2>1 DEF ChangeConflicts, LifecycleTypeOK
  <2>5. \A u \in Tabs : pending'[u] # "no" => dialog'[u] # None
    BY <1>2, <2>3, <2>4 DEF LifecycleTypeOK
  <2> QED BY <1>1, <2>1, <2>2, <2>3, <2>4, <2>5 DEF ChangeConflicts, LifecycleTypeOK
<1>5. ReadsFollowChanges'
  <2>1. ASSUME NEW c \in calls' \cup replies', c.what = "read"
        PROVE  c.n <= request'[c.tab]
    <3>1. CASE c \in calls \cup replies
      <4>1. c.tab \in Tabs /\ c.n \in Nat /\ c.n <= request[c.tab]
        BY <2>1, <3>1, CallsAndReplies DEF ReadsFollowChanges
      <4>2. request[c.tab] \in Nat
        BY <4>1 DEF LifecycleTypeOK
      <4> QED BY <1>3, <4>1, <4>2
    <3>2. CASE c = Read(t, request'[t])
      BY <1>3, <3>2 DEF Read
    <3> QED BY <1>1, <3>1, <3>2
  <2>2. ASSUME NEW c \in replies', c.what = "read", c.n = request'[c.tab]
        PROVE  acked[c.tab] <= c.snapshot.version
    <3>1. c \in replies /\ c.tab \in Tabs /\ c.n \in Nat /\ c.n <= request[c.tab]
      BY <1>1, <2>2, CallsAndReplies DEF ReadsFollowChanges
    <3>2. c.tab # t
      BY <1>3, <2>2, <3>1
    <3> QED BY <1>3, <2>2, <3>1, <3>2 DEF ReadsFollowChanges
  <2> QED BY <1>1, <2>1, <2>2 DEF ReadsFollowChanges
<1>6. \A d \in Confirmations' :
        \E e \in Confirmations : d.id = e.id /\ d.version = e.version /\ d.shown = e.shown
  <2> SUFFICES ASSUME NEW d \in Confirmations'
               PROVE  \E e \in Confirmations : d.id = e.id /\ d.version = e.version /\ d.shown = e.shown
    OBVIOUS
  <2>1. CASE d = dialog'[t]
    BY <1>2, <2>1 DEF Confirmations
  <2>2. CASE \E u \in Tabs : u # t /\ dialog'[u] # None /\ d = dialog'[u]
    BY <1>2, <2>2 DEF Confirmations
  <2>3. CASE \E c \in calls' : c.what = "change" /\ d = c.dialog
    BY <1>1, <2>3 DEF Confirmations, Read
  <2> QED BY <2>1, <2>2, <2>3 DEF Confirmations
<1> QED BY <1>1, <1>4, <1>5, <1>6, SameLog

(* A successful answer: the reads under way are dropped, and what it says  *)
(* is the tab's view and its last change.                                  *)
LEMMA ChangeReturnsStep ==
  ASSUME LifecycleInv, NEW t \in Tabs, NEW m \in replies, ChangeReturns(t, m)
  PROVE  LifecycleInv'
<1> USE DEF LifecycleInv
<1>1. /\ log' = log /\ calls' = calls /\ replies' = replies \ {m} /\ m.tab = t
      /\ m \in Successes /\ m \notin Conflicts
      /\ request' = [request EXCEPT ![t] = @ + 1]
      /\ view' = [view EXCEPT ![t] = m.snapshot]
      /\ acked' = [acked EXCEPT ![t] = m.snapshot.version]
      /\ dialog' = [dialog EXCEPT ![t] = None]
      /\ opened' = opened
  BY CallsAndReplies DEF ChangeReturns, Apply, Awaited, Conflicts, Successes
<1>2. /\ request'[t] = request[t] + 1 /\ request[t] \in Nat
      /\ \A u \in Tabs : u # t => request'[u] = request[u] /\ acked'[u] = acked[u] /\ view'[u] = view[u]
      /\ acked'[t] = m.snapshot.version /\ view'[t] = m.snapshot /\ m.snapshot.version \in Nat
  BY <1>1 DEF LifecycleTypeOK, Successes, Snapshots
<1>3. LifecycleTypeOK'
  <2>1. /\ request' \in [Tabs -> Nat] /\ view' \in [Tabs -> Snapshots] /\ acked' \in [Tabs -> Nat]
        /\ dialog' \in [Tabs -> Dialogs \cup {None}]
    BY <1>1, <1>2 DEF LifecycleTypeOK, Successes
  <2>2. /\ fresh' \in [Tabs -> BOOLEAN] /\ error' \in [Tabs -> BOOLEAN]
        /\ reading' \in [Tabs -> Nat \cup {None}] /\ pending' \in [Tabs -> {"no", "sent", "reread"}]
    BY DEF ChangeReturns, Apply, LifecycleTypeOK
  <2>3. \A u \in Tabs : pending'[u] # "no" => dialog'[u] # None
    BY <1>1 DEF ChangeReturns, LifecycleTypeOK
  <2> QED BY <1>1, <2>1, <2>2, <2>3 DEF ChangeReturns, LifecycleTypeOK
<1>4. ReadsFollowChanges'
  <2>1. ASSUME NEW c \in calls' \cup replies', c.what = "read"
        PROVE  c.n <= request'[c.tab] /\ (c \in replies /\ c.n = request'[c.tab] => c.tab # t)
    <3>1. c.tab \in Tabs /\ c.n \in Nat /\ c.n <= request[c.tab]
      BY <1>1, <2>1, CallsAndReplies DEF ReadsFollowChanges
    <3>2. request[c.tab] \in Nat
      BY <3>1 DEF LifecycleTypeOK
    <3> QED BY <1>2, <3>1, <3>2
  <2>2. ASSUME NEW c \in replies', c.what = "read", c.n = request'[c.tab]
        PROVE  acked'[c.tab] <= c.snapshot.version
    <3>1. c \in replies /\ c.tab \in Tabs /\ c.tab # t
      BY <1>1, <2>1, <2>2, CallsAndReplies
    <3> QED BY <1>2, <2>2, <3>1 DEF ReadsFollowChanges
  <2>3. ASSUME NEW u \in Tabs PROVE acked'[u] <= view'[u].version
    <3>1. CASE u = t
      BY <1>2, <3>1
    <3>2. CASE u # t
      BY <1>2, <3>2 DEF ReadsFollowChanges
    <3> QED BY <3>1, <3>2
  <2> QED BY <2>1, <2>2, <2>3 DEF ReadsFollowChanges
<1>5. \A d \in Confirmations' :
        \E e \in Confirmations : d.id = e.id /\ d.version = e.version /\ d.shown = e.shown
  BY <1>1, FewerConfirmations DEF LifecycleTypeOK
<1>6. \A u \in Tabs : view'[u] = view[u] \/ \E r \in replies \ Conflicts : view'[u] = r.snapshot
  BY <1>1, <1>2
<1> QED BY <1>1, <1>3, <1>4, <1>5, <1>6, SameLog

(* A new confirmation is of the view, which is true, and nothing in the    *)
(* log is its doing yet.                                                   *)
LEMMA OpenDialogStep ==
  ASSUME LifecycleInv, NEW t \in Tabs, NEW action \in Actions, NEW items \in SUBSET Records,
         OpenDialog(t, action, items)
  PROVE  LifecycleInv'
<1> USE DEF LifecycleInv
<1> DEFINE k == opened[t] + 1
           new == [id |-> <<t, k>>, action |-> action, items |-> items,
                   version |-> view[t].version, shown |-> view[t].trash, stale |-> FALSE]
<1>1. /\ opened[t] \in Nat /\ k \in Nat /\ k \in 1 .. MaxDialogs[t]
      /\ opened' = [opened EXCEPT ![t] = k] /\ opened'[t] = k
      /\ \A u \in Tabs : u # t => opened'[u] = opened[u]
  <2>1. opened[t] \in Nat /\ MaxDialogs[t] \in Nat /\ opened[t] < MaxDialogs[t]
    BY BoundsAreNumbers DEF OpenDialog, LifecycleTypeOK
  <2>2. opened' = [opened EXCEPT ![t] = k] /\ opened \in [Tabs -> Nat]
    BY DEF OpenDialog, LifecycleTypeOK
  <2> QED BY <2>1, <2>2
<1>2. dialog' = [dialog EXCEPT ![t] = new] /\ UNCHANGED <<log, calls, replies, view, request, acked>>
  BY <1>1 DEF OpenDialog
<1>3. new \in Dialogs
  <2>1. <<t, k>> \in Ids
    BY <1>1 DEF Ids
  <2>2. view[t].version \in Nat /\ view[t].trash \in SUBSET Records
    BY DEF LifecycleTypeOK, Snapshots
  <2> QED BY <2>1, <2>2 DEF Dialogs
<1>4. LifecycleTypeOK'
  <2>1. dialog' \in [Tabs -> Dialogs \cup {None}] /\ opened' \in [Tabs -> Nat]
    BY <1>1, <1>2, <1>3, Updated DEF LifecycleTypeOK
  <2>2. \A u \in Tabs : pending'[u] # "no" => dialog'[u] # None
    BY <1>2 DEF OpenDialog, LifecycleTypeOK
  <2> QED BY <2>1, <2>2 DEF OpenDialog, LifecycleTypeOK
<1>5. \A d \in Confirmations' : d \in Confirmations \/ d = new
  BY <1>2 DEF Confirmations, LifecycleTypeOK
<1>6. SnapshotsAreTrue'
  <2>1. \A version, trash : TrueAt(version, trash)' <=> TrueAt(version, trash)
    BY <1>2 DEF TrueAt
  <2> QED BY <1>2, <1>5, <2>1 DEF SnapshotsAreTrue
<1>7. ReadsFollowChanges'
  BY <1>2 DEF ReadsFollowChanges
<1>8. ASSUME NEW id, IsOpened(id)
      PROVE  id # <<t, k>> /\ \E u \in Tabs : \E n \in 1 .. opened'[u] : id = <<u, n>>
  <2>1. PICK u \in Tabs, n \in Nat : n \in 1 .. opened[u] /\ id = <<u, n>>
    BY <1>8 DEF IsOpened
  <2>2. n \in 1 .. opened'[u] /\ (u = t => n # k)
    <3>1. CASE u = t
      BY <1>1, <2>1, <3>1
    <3>2. CASE u # t
      BY <1>1, <2>1, <3>2
    <3> QED BY <3>1, <3>2
  <2> QED BY <2>1, <2>2
<1>9. \E u \in Tabs : \E n \in 1 .. opened'[u] : <<t, k>> = <<u, n>>
  <2>1. k \in 1 .. opened'[t]
    BY <1>1
  <2> QED BY <2>1
<1>10. SpentOnce'
  <2>1. \A i \in 1 .. Len(log) :
          /\ log[i].by # <<t, k>>
          /\ \E u \in Tabs : \E n \in 1 .. opened'[u] : log[i].by = <<u, n>>
    BY <1>8 DEF SpentOnce
  <2>2. ASSUME NEW d \in Confirmations'
        PROVE  /\ \E u \in Tabs : \E n \in 1 .. opened'[u] : d.id = <<u, n>>
               /\ \A i \in 1 .. Len(log) : log[i].by = d.id => d.version < i
    <3>1. CASE d \in Confirmations
      BY <1>8, <3>1 DEF SpentOnce
    <3>2. CASE d = new
      <4>1. d.id = <<t, k>>
        BY <3>2
      <4> QED BY <1>9, <2>1, <4>1
    <3> QED BY <1>5, <3>1, <3>2
  <2> QED BY <1>2, <2>1, <2>2 DEF SpentOnce, IsOpened
<1> QED BY <1>2, <1>4, <1>6, <1>7, <1>10 DEF OncePerConfirmation

-----------------------------------------------------------------------------
(* The worker's steps.                                                     *)

LEMMA ServeReadStep ==
  ASSUME LifecycleInv, NEW m \in calls, ServeRead(m)
  PROVE  LifecycleInv'
<1> USE DEF LifecycleInv
<1> DEFINE reply == [tab |-> m.tab, what |-> "read", n |-> m.n, snapshot |-> Snapshot]
<1>1. m.tab \in Tabs /\ m.n \in Nat /\ m.what = "read" /\ m.n <= request[m.tab]
  BY CallsAndReplies DEF ServeRead, ReadsFollowChanges
<1>2. /\ log' = log /\ calls' = calls \ {m} /\ replies' = replies \cup {reply}
      /\ UNCHANGED <<view, request, dialog, opened, acked>>
  BY DEF ServeRead, tabVars
<1>3. Len(log) \in Nat /\ Snapshot \in Snapshots
  BY LenProperties DEF LifecycleTypeOK, Snapshot, Snapshots, Trash, TrashAt
<1>4. LifecycleTypeOK'
  BY <1>1, <1>2, <1>3 DEF ServeRead, tabVars, LifecycleTypeOK, ReadReplies
<1>5. ReadsFollowChanges'
  <2>1. acked[m.tab] <= reply.snapshot.version
    <3>1. acked[m.tab] \in Nat /\ view[m.tab].version \in Nat
      BY <1>1 DEF LifecycleTypeOK, Snapshots
    <3>2. acked[m.tab] <= view[m.tab].version /\ view[m.tab].version <= Len(log)
      BY <1>1 DEF ReadsFollowChanges, SnapshotsAreTrue, TrueAt
    <3> QED BY <1>3, <3>1, <3>2 DEF Snapshot
  <2> QED BY <1>1, <1>2, <2>1 DEF ReadsFollowChanges
<1>6. \A d \in Confirmations' :
        \E e \in Confirmations : d.id = e.id /\ d.version = e.version /\ d.shown = e.shown
  BY <1>2, FewerConfirmations
<1> QED BY <1>2, <1>4, <1>5, <1>6, SameLog

LEMMA ServeConflictStep ==
  ASSUME LifecycleInv, NEW m \in calls, ServeConflict(m)
  PROVE  LifecycleInv'
<1> USE DEF LifecycleInv
<1> DEFINE reply == [tab |-> m.tab, what |-> "change", n |-> m.n, status |-> "conflict"]
<1>1. reply \in Conflicts
  BY CallsAndReplies DEF ServeConflict, Conflicts
<1>2. /\ log' = log /\ calls' = calls \ {m} /\ \A r \in replies' : r \in replies \/ r = reply
      /\ UNCHANGED <<view, request, dialog, opened, acked>>
  BY DEF ServeConflict, tabVars, ReplyTo
<1>3. LifecycleTypeOK'
  BY <1>1, <1>2 DEF ServeConflict, tabVars, LifecycleTypeOK
<1>4. ReadsFollowChanges'
  BY <1>2 DEF ReadsFollowChanges
<1>5. \A d \in Confirmations' :
        \E e \in Confirmations : d.id = e.id /\ d.version = e.version /\ d.shown = e.shown
  BY <1>2, FewerConfirmations
<1> QED BY <1>1, <1>2, <1>3, <1>4, <1>5, SameLog

\* Each transition of the confirmation once, all of them its doing.
AppendedFor(d, new) ==
  /\ log' = log \o new
  /\ Len(new) > 0 => Transitions(d) # {}
  /\ \A i \in 1 .. Len(new) :
       new[i].record \in Transitions(d) /\ new[i].action = d.action /\ new[i].by = d.id
  /\ \A r \in Transitions(d) : \E i \in 1 .. Len(new) : new[i].record = r
  /\ \A i, j \in 1 .. Len(new) : new[i].record = new[j].record => i = j

(* A change appends nothing unless the log is at its version.              *)
LEMMA ServedChange ==
  ASSUME LifecycleInv, NEW m \in calls, ServeChange(m)
  PROVE  /\ m \in ChangeCalls /\ m.dialog \in Confirmations
         /\ Transitions(m.dialog) # {} => Len(log) = m.dialog.version
         /\ \E new \in Seq(LogEvent) : AppendedFor(m.dialog, new)
<1> USE DEF LifecycleInv
<1> DEFINE S == Transitions(m.dialog)
<1>1. m \in ChangeCalls /\ m.what = "change" /\ m.dialog \in Dialogs
  BY CallsAndReplies DEF ServeChange, ChangeCalls
<1>2. m.dialog \in Confirmations
  BY <1>1 DEF Confirmations
<1>3. S # {} => Len(log) = m.dialog.version
  BY DEF ServeChange, Conflict
<1>4. S \in SUBSET Records
  BY <1>1 DEF Transitions, Trash, TrashAt, Dialogs
<1>5. PICK order \in Orders(S) : log' = log \o Batch(order, m.dialog)
  BY DEF ServeChange, Batch
<1>6. /\ Batch(order, m.dialog) \in Seq(LogEvent) /\ Len(Batch(order, m.dialog)) = Cardinality(S)
      /\ \A i \in 1 .. Cardinality(S) : /\ Batch(order, m.dialog)[i].record \in S
                                        /\ Batch(order, m.dialog)[i].action = m.dialog.action
                                        /\ Batch(order, m.dialog)[i].by = m.dialog.id
      /\ \A r \in S : \E i \in 1 .. Cardinality(S) : Batch(order, m.dialog)[i].record = r
      /\ \A i, j \in 1 .. Cardinality(S) :
           Batch(order, m.dialog)[i].record = Batch(order, m.dialog)[j].record => i = j
  BY <1>1, <1>4, BatchIsLog
<1>7. Cardinality(S) > 0 => S # {}
  BY FS_EmptySet
<1>8. AppendedFor(m.dialog, Batch(order, m.dialog))
  BY <1>5, <1>6, <1>7 DEF AppendedFor
<1> QED BY <1>1, <1>2, <1>3, <1>6, <1>8

LEMMA ServeChangeStep ==
  ASSUME LifecycleInv, NEW m \in calls, ServeChange(m)
  PROVE  LifecycleInv'
<1> USE DEF LifecycleInv
<1> DEFINE reply == [tab |-> m.tab, what |-> "change", n |-> m.n, status |-> "ok", snapshot |-> Snapshot']
           L == Len(log)
<1>1. /\ m \in ChangeCalls /\ m.dialog \in Confirmations
      /\ Transitions(m.dialog) # {} => L = m.dialog.version
  BY ServedChange
<1>13. PICK new \in Seq(LogEvent) : AppendedFor(m.dialog, new)
  BY ServedChange
<1>2. /\ log' = log \o new
      /\ Len(new) > 0 => Transitions(m.dialog) # {}
      /\ \A i \in 1 .. Len(new) : new[i].by = m.dialog.id
      /\ \A i, j \in 1 .. Len(new) : new[i].record = new[j].record => i = j
  BY <1>13 DEF AppendedFor
<1>3. /\ L \in Nat /\ Len(new) \in Nat /\ log' \in Seq(LogEvent) /\ Len(log') = L + Len(new)
      /\ \A i \in 1 .. L : log'[i] = log[i]
      /\ \A i \in L + 1 .. L + Len(new) : log'[i] = new[i - L] /\ i - L \in 1 .. Len(new)
  BY <1>2, ConcatProperties, LenProperties DEF LifecycleTypeOK
<1>4. /\ calls' = calls \ {m} /\ \A r \in replies' : r \in replies \/ r = reply
      /\ UNCHANGED tabVars
  BY DEF ServeChange, ReplyTo
<1>5. reply \in Successes /\ Snapshot' \in Snapshots
  <2>1. Snapshot' \in Snapshots
    BY <1>3 DEF Snapshot, Snapshots, Trash, TrashAt
  <2> QED BY <1>1, <2>1 DEF ChangeCalls, Successes
<1>6. LifecycleTypeOK'
  BY <1>3, <1>4, <1>5 DEF LifecycleTypeOK, tabVars
<1>7. Confirmations' \subseteq Confirmations
  BY <1>4 DEF Confirmations, tabVars
<1>8. SnapshotsAreTrue'
  <2>1. ASSUME NEW version \in Nat, NEW trash, TrueAt(version, trash)
        PROVE  version <= Len(log') /\ trash = TrashAt(log', version)
    <3>1. version \in 0 .. L /\ trash = TrashAt(log, version)
      BY <1>3, <2>1 DEF TrueAt
    <3>2. TrashAt(log', version) = TrashAt(log, version)
      BY <1>2, <3>1, TrashOfPrefix DEF LifecycleTypeOK
    <3> QED BY <1>3, <3>1, <3>2 DEF TrueAt
  <2>2. Len(log') <= Len(log') /\ Snapshot'.version = Len(log') /\ Snapshot'.trash = TrashAt(log', Len(log'))
    BY <1>3 DEF Snapshot, Trash
  <2>3. ASSUME NEW t \in Tabs PROVE TrueAt(view[t].version, view[t].trash)'
    <3>1. view[t].version \in Nat /\ TrueAt(view[t].version, view[t].trash) /\ view' = view
      BY <1>4 DEF SnapshotsAreTrue, LifecycleTypeOK, Snapshots, tabVars
    <3> QED BY <2>1, <3>1 DEF TrueAt
  <2>4. ASSUME NEW r \in replies', r \notin Conflicts
        PROVE  r.snapshot.version <= Len(log') /\ r.snapshot.trash = TrashAt(log', r.snapshot.version)
    <3>1. CASE r \in replies
      <4>1. r.snapshot.version \in Nat
        BY <2>4, <3>1 DEF LifecycleTypeOK, ReadReplies, Successes, Snapshots
      <4> QED BY <2>1, <2>4, <3>1, <4>1 DEF SnapshotsAreTrue
    <3>2. CASE r = reply
      BY <2>2, <3>2
    <3> QED BY <1>4, <3>1, <3>2
  <2>5. ASSUME NEW d \in Confirmations'
        PROVE  d.version <= Len(log') /\ d.shown = TrashAt(log', d.version)
    <3>1. d \in Confirmations /\ d \in Dialogs
      BY <1>7, ConfirmationsAreDialogs
    <3>2. d.version \in Nat
      BY <3>1 DEF Dialogs
    <3> QED BY <2>1, <3>1, <3>2 DEF SnapshotsAreTrue
  <2> QED BY <2>3, <2>4, <2>5 DEF SnapshotsAreTrue, TrueAt
<1>9. ReadsFollowChanges'
  BY <1>4 DEF ReadsFollowChanges, tabVars
<1>10. ASSUME NEW i \in 1 .. Len(log')
       PROVE  \/ i \in 1 .. L /\ log'[i] = log[i]
              \/ /\ i \in L + 1 .. L + Len(new) /\ log'[i].by = m.dialog.id
                 /\ L = m.dialog.version
  BY <1>1, <1>2, <1>3
<1>11. SpentOnce'
  <2>1. \A id : IsOpened(id)' <=> IsOpened(id)
    BY <1>4 DEF IsOpened, tabVars
  <2>2. \A i \in 1 .. Len(log') : IsOpened(log'[i].by)
    BY <1>1, <1>10 DEF SpentOnce
  <2>3. ASSUME NEW d \in Confirmations, NEW i \in 1 .. Len(log'), log'[i].by = d.id
        PROVE  d.version < i
    <3>1. CASE i \in 1 .. L /\ log'[i] = log[i]
      BY <2>3, <3>1 DEF SpentOnce
    <3>2. CASE i \in L + 1 .. L + Len(new)
      <4>1. d.version \in Nat /\ d.version <= L
        BY ConfirmationsAreDialogs DEF Dialogs, SnapshotsAreTrue, TrueAt
      <4> QED BY <1>3, <3>2, <4>1
    <3> QED BY <1>10, <3>1, <3>2
  <2> QED BY <1>7, <2>1, <2>2, <2>3 DEF SpentOnce
<1>12. OncePerConfirmation'
  <2>1. ASSUME NEW i \in 1 .. L, NEW j \in L + 1 .. L + Len(new)
        PROVE  log'[i].by # log'[j].by
    <3>1. log'[j].by = m.dialog.id /\ L = m.dialog.version /\ log'[i] = log[i]
      BY <1>3, <1>10
    <3>2. log[i].by = m.dialog.id => L < i
      BY <1>1, <3>1 DEF SpentOnce
    <3> QED BY <1>3, <3>1, <3>2
  <2>2. ASSUME NEW i \in L + 1 .. L + Len(new), NEW j \in L + 1 .. L + Len(new),
               log'[i].record = log'[j].record
        PROVE  i = j
    <3>1. new[i - L].record = new[j - L].record /\ i - L \in 1 .. Len(new) /\ j - L \in 1 .. Len(new)
      BY <1>3, <2>2
    <3>2. i - L = j - L
      BY <1>2, <3>1
    <3> QED BY <1>3, <3>2
  <2>3. \A i, j \in 1 .. L : log'[i].by = log'[j].by /\ log'[i].record = log'[j].record => i = j
    BY <1>3 DEF OncePerConfirmation
  <2>4. ASSUME NEW i \in 1 .. Len(log'), NEW j \in 1 .. Len(log'),
               log'[i].by = log'[j].by, log'[i].record = log'[j].record
        PROVE  i = j
    <3>1. i \in 1 .. L \/ i \in L + 1 .. L + Len(new)
      BY <1>3
    <3>2. j \in 1 .. L \/ j \in L + 1 .. L + Len(new)
      BY <1>3
    <3> QED BY <2>1, <2>2, <2>3, <2>4, <3>1, <3>2
  <2> QED BY <2>4 DEF OncePerConfirmation
<1> QED BY <1>6, <1>8, <1>9, <1>11, <1>12

-----------------------------------------------------------------------------
LEMMA InitLifecycleInv == LifecycleInit => LifecycleInv
<1> SUFFICES ASSUME LifecycleInit PROVE LifecycleInv
  OBVIOUS
<1>1. log \in Seq(LogEvent) /\ Len(log) = 0 /\ Trash = {} /\ TrashAt(log, 0) = {}
  BY DEF LifecycleInit, Trash, TrashAt
<1>2. Snapshot = [version |-> 0, trash |-> {}] /\ Snapshot \in Snapshots
  BY <1>1 DEF Snapshot, Snapshots
<1>3. LifecycleTypeOK
  BY <1>1, <1>2 DEF LifecycleInit, LifecycleTypeOK
<1>4. Confirmations = {}
  BY DEF LifecycleInit, Confirmations
<1>5. \A t \in Tabs : view[t] = [version |-> 0, trash |-> {}]
  BY <1>2 DEF LifecycleInit
<1>6. SnapshotsAreTrue
  <2>1. \A t \in Tabs : view[t].version = 0 /\ view[t].trash = {}
    BY <1>5
  <2>2. TrueAt(0, {})
    BY <1>1 DEF TrueAt
  <2> QED BY <1>4, <2>1, <2>2 DEF LifecycleInit, SnapshotsAreTrue
<1>6a. ReadsFollowChanges
  BY <1>5 DEF LifecycleInit, ReadsFollowChanges
<1>7. SpentOnce /\ OncePerConfirmation
  BY <1>1, <1>4 DEF SpentOnce, OncePerConfirmation
<1> QED BY <1>3, <1>6, <1>6a, <1>7 DEF LifecycleInv

LEMMA NextIInv == LifecycleInv /\ [LifecycleNext]_lifecycleVars => LifecycleInv'
<1> SUFFICES ASSUME LifecycleInv, [LifecycleNext]_lifecycleVars PROVE LifecycleInv'
  OBVIOUS
<1>1. CASE UNCHANGED lifecycleVars
  <2> USE <1>1 DEF lifecycleVars, tabVars
  <2>1. LifecycleTypeOK' /\ ReadsFollowChanges' /\ OncePerConfirmation'
    BY DEF LifecycleInv, LifecycleTypeOK, ReadsFollowChanges, OncePerConfirmation
  <2>2. Confirmations' = Confirmations
    BY DEF Confirmations
  <2>3. SnapshotsAreTrue'
    BY <2>2 DEF LifecycleInv, SnapshotsAreTrue, TrueAt
  <2>4. SpentOnce'
    BY <2>2 DEF LifecycleInv, SpentOnce, IsOpened
  <2> QED BY <2>1, <2>3, <2>4 DEF LifecycleInv
<1>2. ASSUME NEW t \in Tabs,
             \/ StartRead(t) \/ Invalidate(t) \/ CloseDialog(t) \/ RereadEnds(t)
             \/ \E n \in 0 .. MaxRequest[t] : ReadFails(t, n)
      PROVE  LifecycleInv'
  BY <1>2, ReadingStep
<1>3. ASSUME NEW t \in Tabs, SubmitChange(t) \/ ChangeFails(t)
      PROVE  LifecycleInv'
  BY <1>3, SubmitChangeStep, ChangeFailsStep
<1>4. ASSUME NEW t \in Tabs, NEW action \in Actions, NEW items \in SUBSET Records,
             OpenDialog(t, action, items)
      PROVE  LifecycleInv'
  BY <1>4, OpenDialogStep
<1>5. ASSUME NEW t \in Tabs, NEW m \in replies,
             \/ ReadReturns(t, m) \/ ReadOvertaken(t, m)
             \/ ChangeReturns(t, m) \/ ChangeConflicts(t, m)
      PROVE  LifecycleInv'
  BY <1>5, ReadReturnsStep, ReadOvertakenStep, ChangeReturnsStep, ChangeConflictsStep
<1>6. ASSUME NEW m \in calls, ServeRead(m) \/ ServeConflict(m) \/ ServeChange(m)
      PROVE  LifecycleInv'
  BY <1>6, ServeReadStep, ServeConflictStep, ServeChangeStep
<1> QED BY <1>1, <1>2, <1>3, <1>4, <1>5, <1>6 DEF LifecycleNext

(* A snapshot is true for ever: the inductive invariant of the trash.      *)
THEOREM SnapshotsStayTrue == LifecycleSpec => []LifecycleInv
BY InitLifecycleInv, NextIInv, PTL DEF LifecycleSpec

(* A tab shows the trash as it was at the version it would confirm, and    *)
(* never goes back behind its own acknowledged change.                     *)
THEOREM ViewsAreHonest == LifecycleSpec => []ViewIsHonest
<1>1. LifecycleInv => ViewIsHonest
  <2> SUFFICES ASSUME LifecycleInv, NEW t \in Tabs
               PROVE  /\ view[t].version <= Len(log) /\ view[t].trash = TrashAt(log, view[t].version)
                      /\ view[t].version >= acked[t]
    BY DEF ViewIsHonest
  <2>1. view[t].version \in Nat /\ acked[t] \in Nat
    BY DEF LifecycleInv, LifecycleTypeOK, Snapshots
  <2> QED BY <2>1 DEF LifecycleInv, SnapshotsAreTrue, TrueAt, ReadsFollowChanges
<1> QED BY <1>1, SnapshotsStayTrue, PTL

(* A confirmation sent again, because its answer was lost, does not make   *)
(* its change a second time.                                               *)
THEOREM ConfirmationsChangeOnce == LifecycleSpec => []OncePerConfirmation
<1>1. LifecycleInv => OncePerConfirmation
  BY DEF LifecycleInv
<1> QED BY <1>1, SnapshotsStayTrue, PTL

(* A change that changes anything is made on the trash that was shown, and *)
(* makes of it what was confirmed.                                         *)
LEMMA ChangeIsAsShown ==
  ASSUME LifecycleInv, NEW m \in calls, ServeChange(m), log' # log
  PROVE  /\ m \in calls \ calls' /\ Trash = m.dialog.shown
         /\ Trash' = IF m.dialog.action = "DELETE" THEN m.dialog.shown \cup m.dialog.items
                                                  ELSE m.dialog.shown \ m.dialog.items
<1> USE DEF LifecycleInv
<1> DEFINE d == m.dialog
           S == Transitions(d)
<1>1. m \in ChangeCalls /\ d \in Confirmations /\ (S # {} => Len(log) = d.version)
  BY ServedChange
<1>13. PICK new \in Seq(LogEvent) : AppendedFor(d, new)
  BY ServedChange
<1>2. /\ log' = log \o new
      /\ Len(new) > 0 => S # {}
      /\ \A i \in 1 .. Len(new) : new[i].record \in S /\ new[i].action = d.action
      /\ \A r \in S : \E i \in 1 .. Len(new) : new[i].record = r
      /\ \A i, j \in 1 .. Len(new) : new[i].record = new[j].record => i = j
  BY <1>13 DEF AppendedFor
<1>3. log \in Seq(LogEvent)
  BY DEF LifecycleTypeOK
<1>4. Len(new) > 0
  <2>1. CASE Len(new) = 0
    <3>1. new = << >>
      BY <2>1, EmptySeq
    <3> QED BY <1>2, <1>3, <3>1, ConcatEmptySeq
  <2> QED BY <2>1, LenProperties
<1>5. Trash = d.shown
  BY <1>1, <1>2, <1>4 DEF SnapshotsAreTrue, TrueAt, Trash
<1>6. d.action \in Actions /\ d.items \subseteq Records /\ d.shown \subseteq Records
  BY <1>1 DEF ChangeCalls, Dialogs
<1>7. S \in SUBSET Records
  BY <1>6 DEF Transitions
<1>8. Trash' = IF d.action = "DELETE" THEN Trash \cup S ELSE Trash \ S
  <2>1. OneForEach(new, S, d.action)
    BY <1>2 DEF OneForEach
  <2>2. TrashAt(log \o new, Len(log \o new)) =
          IF d.action = "DELETE" THEN TrashAt(log, Len(log)) \cup S ELSE TrashAt(log, Len(log)) \ S
    <3> HIDE DEF S, d, LifecycleInv
    <3> QED BY <1>3, <1>6, <1>7, <2>1, TrashAfterBatch
  <2> QED BY <1>2, <2>2 DEF Trash
<1>9. CASE d.action = "DELETE"
  BY <1>5, <1>8, <1>9 DEF ServeChange, Transitions
<1>10. CASE d.action # "DELETE"
  BY <1>5, <1>8, <1>10 DEF ServeChange, Transitions
<1> QED BY <1>5, <1>9, <1>10 DEF ServeChange

(* A change does to the trash exactly what its dialog showed: all of the   *)
(* records it asked about, and no other (restore_screens, trash_screens).  *)
THEOREM ChangesAreAsConfirmed == LifecycleSpec => ConfirmedAsShown
<1>1. ASSUME LifecycleInv, [LifecycleNext]_lifecycleVars, log' # log
      PROVE  \E m \in calls \ calls' :
               /\ Trash = m.dialog.shown
               /\ Trash' = IF m.dialog.action = "DELETE"
                             THEN m.dialog.shown \cup m.dialog.items
                             ELSE m.dialog.shown \ m.dialog.items
  <2>1. LifecycleNext /\ log' # log
    BY <1>1 DEF lifecycleVars
  <2>2. ASSUME NEW t \in Tabs,
               \/ StartRead(t) \/ Invalidate(t) \/ CloseDialog(t) \/ RereadEnds(t)
               \/ SubmitChange(t) \/ ChangeFails(t)
               \/ \E n \in 0 .. MaxRequest[t] : ReadFails(t, n)
               \/ \E action \in Actions, items \in SUBSET Records : OpenDialog(t, action, items)
        PROVE  log' = log
    BY <2>2 DEF StartRead, Invalidate, CloseDialog, RereadEnds, SubmitChange, ChangeFails, ReadFails,
                OpenDialog
  <2>3. ASSUME NEW t \in Tabs, NEW m \in replies,
               \/ ReadReturns(t, m) \/ ReadOvertaken(t, m)
               \/ ChangeReturns(t, m) \/ ChangeConflicts(t, m)
        PROVE  log' = log
    BY <2>3 DEF ReadReturns, ReadOvertaken, ChangeReturns, ChangeConflicts
  <2>4. ASSUME NEW m \in calls, ServeRead(m) \/ ServeConflict(m)
        PROVE  log' = log
    BY <2>4 DEF ServeRead, ServeConflict
  <2>5. PICK m \in calls : ServeChange(m)
    BY <2>1, <2>2, <2>3, <2>4 DEF LifecycleNext
  <2> QED BY <1>1, <2>5, ChangeIsAsShown
<1> QED BY <1>1, SnapshotsStayTrue, PTL DEF LifecycleSpec, ConfirmedAsShown

-----------------------------------------------------------------------------
(* The service (ScreeningDesk).                                            *)

Kinds == {"EXPLICIT_CONDITION", "RESULT_BACKING"}
Revision == [screen : Nat, number : Nat, parent : Nat, content : Contents, context : Contexts]
Run == [revision : Nat, publication : Publications, rows : Contents \X Publications]
Export == [run : Nat, path : Paths, sha : Nat]

Resting == [at : {"idle"}]
Defining == [at : {"defined"}, defined : Nat, quiet : BOOLEAN]
Revising == [at : {"revised"}, defined : Nat, seen : Nat, quiet : BOOLEAN]
Comparing == [at : {"compare"}, old : Nat, new : Nat, decided : BOOLEAN, quiet : BOOLEAN]
Putting == [at : {"export", "renamed"}, run : Nat, path : Paths]
Hashed == [at : {"hashed"}, run : Nat, path : Paths, sha : Nat]
Fetching == [at : {"download"}, path : Paths, run : Nat, alone : BOOLEAN]
OpStates == Resting \cup Defining \cup Revising \cup Comparing \cup Putting \cup Hashed \cup Fetching

DeskTypeOK ==
  /\ screens \in Seq(Kinds) /\ revisions \in Seq(Revision) /\ runs \in Seq(Run)
  /\ decisions \in Seq(Nat) /\ exports \in Seq(Export)
  /\ files \in [Paths -> Nat \cup {NoFile}]
  /\ served \in [Processes -> Publications]
  /\ op \in [Processes -> OpStates]

\* What a reader that nobody disturbed has seen is what there is.
QuietReadsAreCurrent ==
  \A p \in Processes :
    /\ op[p].at = "defined" /\ op[p].quiet => op[p].defined = Len(screens)
    /\ op[p].at = "revised" /\ op[p].quiet =>
         op[p].defined = Len(screens) /\ op[p].seen = Len(revisions)
    /\ op[p].at = "compare" => op[p].old \in Positions(runs) /\ op[p].new \in Positions(runs)
    /\ op[p].at = "compare" /\ op[p].quiet => (op[p].decided <=> DecidedOn(op[p].old))

Graph == GraphIsSound(Len(screens), Len(revisions))
RunsHold == \A r \in Positions(runs) : ShowsItsCondition(runs[r])

\* Who put the file where it lies is still at it, or has registered it.
Puts(p, path) == op[p].at \in {"renamed", "hashed"} /\ op[p].path = path /\ op[p].run = files[path]
FilesArePutByExports ==
  \A path \in Paths : files[path] # NoFile /\ path \notin abandoned =>
    \/ \E p \in Processes : Puts(p, path)
    \/ \E e \in ExportsAt(path) : exports[e].run = files[path]

\* Nobody starts to export to a path at which there is a file.
DownloadsAreUndisturbed ==
  \A p \in Processes : op[p].at = "download" /\ op[p].alone =>
    /\ files[op[p].path] = op[p].run /\ files[op[p].path] # NoFile
    /\ Exporters(op[p].path) = {}

DeskInv ==
  /\ DeskTypeOK /\ Graph /\ RunsHold /\ QuietReadsAreCurrent
  /\ FilesArePutByExports /\ DownloadsAreUndisturbed
  /\ ReadsInPartsAreHonest /\ HandsOutTheRegisteredRun

-----------------------------------------------------------------------------
(* The versions of a condition                                             *)

OwnOf(table, screen) == {r \in Positions(table) : table[r].screen = screen}

\* What GraphIsSound demands of one condition.
Chained(table, screen) ==
  /\ OwnOf(table, screen) # {}
  /\ {table[r].number : r \in OwnOf(table, screen)} = 1 .. Cardinality(OwnOf(table, screen))
  /\ \A r \in OwnOf(table, screen) :
       IF table[r].number = 1 THEN table[r].parent = 0
       ELSE \E s \in OwnOf(table, screen) :
              table[r].parent = s /\ table[r].number = table[s].number + 1

(* The whole graph is a bound on the conditions and a chain for each.      *)
LEMMA GraphIsChains ==
  Graph <=> /\ \A r \in Positions(revisions) : revisions[r].screen <= Len(screens)
            /\ \A screen \in 1 .. Len(screens) : Chained(revisions, screen)
BY DEF Graph, GraphIsSound, Chained, OwnOf, Positions

\* The versions of a condition after the table got a row.
OneMore(table, new, e, screen) ==
  /\ IsFiniteSet(OwnOf(table, screen)) /\ Len(table) + 1 \notin OwnOf(table, screen)
  /\ e.screen = screen => OwnOf(new, screen) = OwnOf(table, screen) \cup {Len(table) + 1}
  /\ e.screen # screen => OwnOf(new, screen) = OwnOf(table, screen)
  /\ new[Len(table) + 1] = e
  /\ \A r \in OwnOf(table, screen) : new[r] = table[r]

IsCurrent(table, screen, r) ==
  r \in OwnOf(table, screen)
    /\ \A s \in OwnOf(table, screen) : table[s].number <= table[r].number

(* A version more is one position more, of its own condition.              *)
LEMMA OwnAfterAppend ==
  ASSUME NEW table \in Seq(Revision), NEW e \in Revision, NEW screen \in Nat
  PROVE  OneMore(table, Append(table, e), e, screen)
<1>1. IsFiniteSet(1 .. Len(table))
  BY FS_Interval, LenProperties
<1>2. IsFiniteSet(OwnOf(table, screen))
  BY <1>1, FS_Subset DEF OwnOf, Positions
<1>3. /\ Len(Append(table, e)) = Len(table) + 1 /\ Len(table) \in Nat
      /\ Append(table, e)[Len(table) + 1] = e
      /\ \A r \in 1 .. Len(table) : Append(table, e)[r] = table[r]
  BY AppendProperties, LenProperties
<1>4. 1 .. Len(table) + 1 = 1 .. Len(table) \cup {Len(table) + 1}
  BY <1>3
<1> QED BY <1>2, <1>3, <1>4 DEF OneMore, OwnOf, Positions

LEMMA ChainKept ==
  ASSUME NEW table \in Seq(Revision), NEW e \in Revision, NEW screen \in Nat,
         e.screen # screen, Chained(table, screen)
  PROVE  Chained(Append(table, e), screen)
<1> DEFINE new == Append(table, e)
           own == OwnOf(table, screen)
<1> HIDE DEF new, own
<1>1. OneMore(table, new, e, screen)
  BY OwnAfterAppend DEF new
<1>2. OwnOf(new, screen) = own /\ \A r \in own : new[r] = table[r]
  BY <1>1 DEF OneMore, own
<1>3. {new[r].number : r \in own} = {table[r].number : r \in own}
  BY <1>2
<1>4. Chained(new, screen)
  BY <1>2, <1>3 DEF Chained, own
<1> QED BY <1>4 DEF new

LEMMA ChainBegun ==
  ASSUME NEW table \in Seq(Revision), NEW e \in Revision, NEW screen \in Nat,
         e.screen = screen, e.number = 1, e.parent = 0, OwnOf(table, screen) = {}
  PROVE  Chained(Append(table, e), screen)
<1> DEFINE new == Append(table, e)
<1>1. OwnOf(new, screen) = {Len(table) + 1} /\ new[Len(table) + 1] = e
  BY OwnAfterAppend DEF OneMore
<1>2. Cardinality({Len(table) + 1}) = 1
  BY FS_Singleton
<1>3. {new[r].number : r \in OwnOf(new, screen)} = 1 .. 1
  BY <1>1
<1> QED BY <1>1, <1>2, <1>3 DEF Chained

(* The highest number of a chain is the number of its versions.            *)
LEMMA LastOfChain ==
  ASSUME NEW table \in Seq(Revision), NEW screen \in Nat, Chained(table, screen)
  PROVE  /\ Cardinality(OwnOf(table, screen)) \in Nat \ {0}
         /\ \E r \in OwnOf(table, screen) : IsCurrent(table, screen, r)
         /\ \A r \in OwnOf(table, screen) : IsCurrent(table, screen, r)
              => table[r].number = Cardinality(OwnOf(table, screen))
<1> DEFINE own == OwnOf(table, screen)
           N == Cardinality(own)
<1>1. IsFiniteSet(1 .. Len(table))
  BY FS_Interval, LenProperties
<1>2. IsFiniteSet(own)
  BY <1>1, FS_Subset DEF OwnOf, Positions
<1>3. N \in Nat /\ N # 0
  BY <1>2, FS_CardinalityType, FS_EmptySet DEF Chained
<1>4. {table[r].number : r \in own} = 1 .. N
  BY DEF Chained
<1>5. \A r \in own : table[r].number \in 1 .. N
  BY <1>4
<1>6. PICK last \in own : table[last].number = N
  <2>1. N \in 1 .. N
    BY <1>3
  <2> QED BY <1>4, <2>1
<1>7. \A s \in own : table[s].number <= table[last].number
  BY <1>3, <1>5, <1>6
<1>8. ASSUME NEW r \in own, \A s \in own : table[s].number <= table[r].number
      PROVE  table[r].number = N
  <2>1. table[last].number <= table[r].number
    BY <1>8
  <2> QED BY <1>3, <1>5, <1>6, <2>1
<1> QED BY <1>3, <1>7, <1>8 DEF IsCurrent

LEMMA ChainContinued ==
  ASSUME NEW table \in Seq(Revision), NEW e \in Revision, NEW screen \in Nat,
         Chained(table, screen), NEW current, IsCurrent(table, screen, current),
         e.screen = screen, e.parent = current, e.number = table[current].number + 1
  PROVE  Chained(Append(table, e), screen)
<1> DEFINE new == Append(table, e)
           own == OwnOf(table, screen)
           N == Cardinality(own)
<1>1. /\ N \in Nat \ {0} /\ table[current].number = N /\ current \in own
  BY LastOfChain DEF IsCurrent
<1>5. {table[r].number : r \in own} = 1 .. N
  BY DEF Chained
<1>c. \A r \in own :
        IF table[r].number = 1 THEN table[r].parent = 0
        ELSE \E s \in own : table[r].parent = s /\ table[r].number = table[s].number + 1
  BY DEF Chained
<1>e. e.parent = current /\ e.number = table[current].number + 1
  OBVIOUS
<1> HIDE DEF new, own
<1>0. OneMore(table, new, e, screen)
  BY OwnAfterAppend DEF new
<1>2. /\ OwnOf(new, screen) = own \cup {Len(table) + 1} /\ new[Len(table) + 1] = e
      /\ \A r \in own : new[r] = table[r]
      /\ IsFiniteSet(own) /\ Len(table) + 1 \notin own
  BY <1>0 DEF OneMore, own
<1>3. Cardinality(OwnOf(new, screen)) = N + 1
  BY <1>2, FS_AddElement, ZenonT(60)
<1>4. {new[r].number : r \in OwnOf(new, screen)} = {table[r].number : r \in own} \cup {e.number}
  BY <1>2
<1>6. {new[r].number : r \in OwnOf(new, screen)} = 1 .. N + 1
  <2>1. 1 .. N \cup {N + 1} = 1 .. N + 1
    BY <1>1
  <2> QED BY <1>1, <1>5, <1>e, <1>4, <2>1
<1>7. ASSUME NEW r \in OwnOf(new, screen)
      PROVE  IF new[r].number = 1 THEN new[r].parent = 0
             ELSE \E s \in OwnOf(new, screen) :
                    new[r].parent = s /\ new[r].number = new[s].number + 1
  <2>1. CASE r \in own
    BY <1>2, <1>c, <2>1
  <2>2. CASE r = Len(table) + 1
    <3>1. new[r] = e /\ new[current] = table[current] /\ current \in OwnOf(new, screen)
      BY <1>1, <1>2, <2>2
    <3>2. e.number # 1
      BY <1>1, <1>e
    <3> QED BY <1>e, <3>1, <3>2
  <2> QED BY <1>2, <2>1, <2>2
<1> QED BY <1>2, <1>3, <1>6, <1>7 DEF Chained, new, own

-----------------------------------------------------------------------------
-----------------------------------------------------------------------------
(* What a request that is under way is                                     *)

Readers == {"defined", "revised", "compare"}

\* The requests of the kinds in at are no longer quiet; nothing else changes.
Disturbed(at) ==
  /\ op' \in [Processes -> OpStates]
  /\ \A q \in Processes :
       /\ op[q].at \notin at => op'[q] = op[q]
       /\ op[q].at \in at => op'[q] = [op[q] EXCEPT !.quiet = FALSE]
                             /\ op'[q].at = op[q].at /\ op'[q].quiet = FALSE
       /\ op[q].at = "compare" => op'[q].old = op[q].old /\ op'[q].new = op[q].new

LEMMA DisturbDisturbs ==
  ASSUME op \in [Processes -> OpStates], NEW at \in SUBSET Readers, NEW p, Disturb(p, at)
  PROVE  Disturbed(at)
<1>1. ASSUME NEW q \in Processes, op[q].at \in at
      PROVE  /\ [op[q] EXCEPT !.quiet = FALSE] \in OpStates
             /\ [op[q] EXCEPT !.quiet = FALSE].at = op[q].at
             /\ [op[q] EXCEPT !.quiet = FALSE].quiet = FALSE
             /\ op[q].at = "compare" => /\ [op[q] EXCEPT !.quiet = FALSE].old = op[q].old
                                        /\ [op[q] EXCEPT !.quiet = FALSE].new = op[q].new
  <2>1. op[q] \in OpStates /\ op[q].at \in Readers
    BY <1>1
  <2>2. op[q] \in Defining \cup Revising \cup Comparing
    BY <2>1 DEF OpStates, Readers, Resting, Putting, Hashed, Fetching
  <2>3. CASE op[q] \in Defining
    BY <2>3 DEF OpStates, Defining
  <2>4. CASE op[q] \in Revising
    BY <2>4 DEF OpStates, Revising
  <2>5. CASE op[q] \in Comparing
    BY <2>5 DEF OpStates, Comparing
  <2> QED BY <2>2, <2>3, <2>4, <2>5
<1>2. ASSUME NEW q \in Processes
      PROVE  /\ op[q].at \in at => op'[q] = [op[q] EXCEPT !.quiet = FALSE]
             /\ op[q].at \notin at => op'[q] = op[q]
  BY DEF Disturb
<1>3. op' \in [Processes -> OpStates]
  <2>1. \A q \in Processes : op'[q] \in OpStates
    BY <1>1, <1>2
  <2>2. op' = [q \in Processes |-> op'[q]]
    BY DEF Disturb
  <2> QED BY <2>1, <2>2
<1> QED BY <1>1, <1>2, <1>3 DEF Disturbed

\* One request goes on to its next state.
LEMMA OneGoesOn ==
  ASSUME op \in [Processes -> OpStates], NEW p \in Processes, NEW next \in OpStates,
         op' = [op EXCEPT ![p] = next]
  PROVE  /\ op' \in [Processes -> OpStates] /\ op'[p] = next
         /\ \A q \in Processes \ {p} : op'[q] = op[q]
OBVIOUS

(* The fields a state has, by what the request is at.                      *)
LEMMA StateOf ==
  ASSUME NEW s \in OpStates
  PROVE  /\ s.at \in {"idle", "defined", "revised", "compare", "export", "renamed", "hashed", "download"}
         /\ s.at = "defined" => s \in Defining
         /\ s.at = "revised" => s \in Revising
         /\ s.at = "compare" => s \in Comparing
         /\ s.at \in {"export", "renamed"} => s \in Putting
         /\ s.at = "hashed" => s \in Hashed
         /\ s.at = "download" => s \in Fetching
BY DEF OpStates, Resting, Defining, Revising, Comparing, Putting, Hashed, Fetching

LEMMA OpIsTyped == DeskTypeOK => op \in [Processes -> OpStates] /\ (Idle \in OpStates)
BY DEF DeskTypeOK, OpStates, Idle, Resting

\* The actions of one process.
Step(p) ==
  \/ \E content \in Contents, context \in Contexts : CreateScreen(p, content, context)
  \/ \E screen \in Positions(screens), content \in Contents, asked \in Contexts :
       ReviseScreen(p, screen, content, asked)
  \/ \E content \in Contents : Preview(p, content) \/ SaveDraft(p, content)
  \/ \E revision \in Positions(revisions) :
       \/ Execute(p, revision) \/ OpenSaved(p, revision)
       \/ \E content \in Contents : SaveResultOf(p, revision, content)
  \/ \E run \in Positions(runs) : AddDecision(p, run)
  \/ CheckDefinitions(p) \/ CheckRevisions(p) \/ CheckKinds(p)
  \/ \E old, new \in Positions(runs) : CompareOld(p, old, new)
  \/ CompareNew(p)
  \/ \E run \in Positions(runs), path \in Paths : ExportStart(p, run, path)
  \/ ExportRename(p) \/ ExportHash(p) \/ ExportRegister(p) \/ ExportFails(p)
  \/ \E path \in Paths : DownloadCheck(p, path)
  \/ DownloadRead(p)
  \/ \E publication \in Publications : Restart(p, publication)

\* What an action writes into the tables of conditions and results.
GetsRevision(e) == e \in Revision /\ revisions' = Append(revisions, e)
GetsRun(r) == r \in Run /\ runs' = Append(runs, r)

CreatesScreen(kind, content, context) ==
  /\ screens' = Append(screens, kind) /\ kind \in Kinds
  /\ GetsRevision([screen |-> Len(screens) + 1, number |-> 1, parent |-> 0,
                   content |-> content, context |-> context])

LEMMA AddScreenCreates ==
  ASSUME DeskTypeOK, NEW kind \in Kinds, NEW content \in Contents, NEW context \in Contexts,
         AddScreen(kind, content, context)
  PROVE  CreatesScreen(kind, content, context)
<1>1. Len(screens) \in Nat
  BY LenProperties DEF DeskTypeOK
<1> QED BY <1>1 DEF AddScreen, CreatesScreen, GetsRevision, Revision

LEMMA AddRunAdds ==
  ASSUME DeskTypeOK, NEW revision \in Nat, NEW content \in Contents, NEW publication \in Publications,
         AddRun(revision, publication, Rows(content, publication))
  PROVE  GetsRun([revision |-> revision, publication |-> publication,
                  rows |-> <<content, publication>>])
BY DEF AddRun, Rows, GetsRun, Run

(* There is a current version of every condition, the last of its chain.   *)
LEMMA CurrentVersion ==
  ASSUME DeskTypeOK, Graph, NEW screen \in Positions(screens)
  PROVE  /\ IsCurrent(revisions, screen, Current(screen))
         /\ Current(screen) \in Positions(revisions) /\ revisions[Current(screen)] \in Revision
<1>1. screen \in Nat /\ screen \in 1 .. Len(screens)
  BY LenProperties DEF DeskTypeOK, Positions
<1>2. Chained(revisions, screen)
  BY <1>1, GraphIsChains
<1>3. \E r \in OwnOf(revisions, screen) : IsCurrent(revisions, screen, r)
  BY <1>1, <1>2, LastOfChain DEF DeskTypeOK
<1>4. \E r \in VersionsOf(screen) :
        \A s \in VersionsOf(screen) : revisions[s].number <= revisions[r].number
  BY <1>3 DEF IsCurrent, OwnOf, VersionsOf
<1>5. /\ Current(screen) \in VersionsOf(screen)
      /\ \A s \in VersionsOf(screen) : revisions[s].number <= revisions[Current(screen)].number
  BY <1>4 DEF Current
<1>6. IsCurrent(revisions, screen, Current(screen))
  BY <1>5 DEF IsCurrent, OwnOf, VersionsOf
<1> QED BY <1>5, <1>6, ElementOfSeq DEF VersionsOf, Positions, DeskTypeOK

Revises(screen, content, context) ==
  /\ context \in Contexts
  /\ GetsRevision([screen |-> screen, number |-> revisions[Current(screen)].number + 1,
                   parent |-> Current(screen), content |-> content, context |-> context])

LEMMA ReviseRevises ==
  ASSUME DeskTypeOK, Graph, NEW p, NEW screen \in Positions(screens), NEW content \in Contents,
         NEW asked \in Contexts, ReviseScreen(p, screen, content, asked)
  PROVE  \E context \in Contexts : Revises(screen, content, context)
<1>1. revisions[Current(screen)] \in Revision /\ Current(screen) \in Positions(revisions)
  BY CurrentVersion
<1>2. /\ revisions[Current(screen)].number \in Nat /\ revisions[Current(screen)].context \in Contexts
      /\ Current(screen) \in Nat /\ screen \in Nat
  BY <1>1, LenProperties, SMTT(30) DEF Revision, Positions, DeskTypeOK
<1> DEFINE context == IF asked = NoContext THEN revisions[Current(screen)].context ELSE asked
<1>3. context \in Contexts
  BY <1>2
<1>4. revisions' = Append(revisions,
        [screen |-> screen, number |-> revisions[Current(screen)].number + 1,
         parent |-> Current(screen), content |-> content, context |-> context])
  BY DEF ReviseScreen
<1>5. Revises(screen, content, context)
  BY <1>2, <1>3, <1>4 DEF Revises, GetsRevision, Revision
<1> QED BY <1>3, <1>5

-----------------------------------------------------------------------------
(* The tables                                                              *)

\* Every step leaves the conditions alone, begins one, or continues one.
ConditionsGrow ==
  \/ UNCHANGED <<screens, revisions>>
  \/ \E kind \in Kinds, content \in Contents, context \in Contexts : CreatesScreen(kind, content, context)
  \/ /\ UNCHANGED screens
     /\ \E screen \in Positions(screens), content \in Contents, context \in Contexts :
          Revises(screen, content, context)

ShowsIn(run, table) ==
  run.revision \in Positions(table) /\ run.rows = Rows(table[run.revision].content, run.publication)

\* It leaves the results alone, or adds one that shows its condition.
ResultsGrow ==
  \/ UNCHANGED runs
  \/ \E r \in Run : GetsRun(r) /\ ShowsIn(r, revisions')

\* The table got one row, at its end.
Appended(table, new, e) ==
  /\ Positions(new) = Positions(table) \cup {Len(table) + 1}
  /\ new[Len(table) + 1] = e /\ Len(new) = Len(table) + 1 /\ Len(table) \in Nat
  /\ \A i \in Positions(table) : new[i] = table[i]

LEMMA SafeAppend ==
  ASSUME NEW S, NEW table \in Seq(S), NEW e \in S
  PROVE  Append(table, e) \in Seq(S) /\ Appended(table, Append(table, e), e)
<1>1. /\ Append(table, e) \in Seq(S) /\ Len(Append(table, e)) = Len(table) + 1
      /\ Append(table, e)[Len(table) + 1] = e /\ Len(table) \in Nat
      /\ \A i \in 1 .. Len(table) : Append(table, e)[i] = table[i]
  BY AppendProperties, LenProperties
<1>2. 1 .. Len(table) + 1 = 1 .. Len(table) \cup {Len(table) + 1}
  BY <1>1
<1> QED BY <1>1, <1>2 DEF Appended, Positions

(* The tables grow as they should, action by action.                       *)
LEMMA TablesGrow ==
  ASSUME DeskTypeOK, Graph, NEW p \in Processes, Step(p)
  PROVE  ConditionsGrow /\ ResultsGrow
<1> USE DEF ConditionsGrow, ResultsGrow
<1>0. served[p] \in Publications
  BY DEF DeskTypeOK
<1>1. ASSUME NEW content \in Contents, NEW context \in Contexts, CreateScreen(p, content, context)
      PROVE  ConditionsGrow /\ ResultsGrow
  <2>1. CreatesScreen("EXPLICIT_CONDITION", content, context)
    BY <1>1, AddScreenCreates DEF CreateScreen, Kinds
  <2>2. UNCHANGED runs
    BY <1>1 DEF CreateScreen
  <2> QED BY <2>1, <2>2 DEF Kinds
<1>2. ASSUME NEW screen \in Positions(screens), NEW content \in Contents, NEW asked \in Contexts,
             ReviseScreen(p, screen, content, asked)
      PROVE  ConditionsGrow /\ ResultsGrow
  <2>1. \E context \in Contexts : Revises(screen, content, context)
    BY <1>2, ReviseRevises
  <2>2. UNCHANGED <<screens, runs>>
    BY <1>2 DEF ReviseScreen
  <2> QED BY <2>1, <2>2
<1>3. ASSUME NEW content \in Contents, SaveDraft(p, content)
      PROVE  ConditionsGrow /\ ResultsGrow
  <2> DEFINE r == [revision |-> Len(revisions) + 1, publication |-> served[p],
                   rows |-> <<content, served[p]>>]
             e == [screen |-> Len(screens) + 1, number |-> 1, parent |-> 0,
                   content |-> content, context |-> NoContext]
  <2>1. CreatesScreen("RESULT_BACKING", content, NoContext)
    BY <1>3, AddScreenCreates DEF SaveDraft, Kinds, Contexts
  <2>2. Len(revisions) \in Nat
    BY LenProperties DEF DeskTypeOK
  <2>3. GetsRun(r)
    BY <1>0, <1>3, <2>2, AddRunAdds DEF SaveDraft
  <2>4. e \in Revision /\ revisions' = Append(revisions, e)
    BY <2>1 DEF CreatesScreen, GetsRevision
  <2>a. Appended(revisions, revisions', e)
    BY <2>4, SafeAppend DEF DeskTypeOK
  <2>5. Len(revisions) + 1 \in Positions(revisions') /\ revisions'[Len(revisions) + 1] = e
    BY <2>a DEF Appended
  <2>6. ShowsIn(r, revisions')
    BY <2>5 DEF ShowsIn, Rows
  <2> QED BY <2>1, <2>3, <2>6 DEF GetsRun, Kinds, Contexts
<1>4. ASSUME NEW revision \in Positions(revisions), Execute(p, revision)
      PROVE  ConditionsGrow /\ ResultsGrow
  <2> DEFINE r == [revision |-> revision, publication |-> served[p],
                   rows |-> <<revisions[revision].content, served[p]>>]
  <2>0. revisions[revision] \in Revision
    BY ElementOfSeq DEF DeskTypeOK, Positions
  <2>1. revision \in Nat /\ revisions[revision].content \in Contents
    BY <2>0, LenProperties DEF DeskTypeOK, Positions, Revision
  <2>2. GetsRun(r)
    BY <1>0, <1>4, <2>1, AddRunAdds DEF Execute
  <2>3. UNCHANGED <<screens, revisions>>
    BY <1>4 DEF Execute
  <2>4. ShowsIn(r, revisions')
    BY <2>1, <2>3 DEF ShowsIn, Rows, Positions
  <2> QED BY <2>2, <2>3, <2>4 DEF GetsRun
<1>5. ASSUME NEW revision \in Positions(revisions), NEW content \in Contents,
             SaveResultOf(p, revision, content)
      PROVE  ConditionsGrow /\ ResultsGrow
  <2> DEFINE r == [revision |-> revision, publication |-> served[p],
                   rows |-> <<content, served[p]>>]
  <2>1. revision \in Nat
    BY LenProperties DEF DeskTypeOK, Positions
  <2>2. GetsRun(r)
    BY <1>0, <1>5, <2>1, AddRunAdds DEF SaveResultOf
  <2>3. UNCHANGED <<screens, revisions>> /\ revisions[revision].content = content
    BY <1>5 DEF SaveResultOf
  <2>4. ShowsIn(r, revisions')
    BY <2>1, <2>3 DEF ShowsIn, Rows, Positions
  <2> QED BY <2>2, <2>3, <2>4 DEF GetsRun
<1>6. ASSUME \/ \E content \in Contents : Preview(p, content)
             \/ \E revision \in Positions(revisions) : OpenSaved(p, revision)
             \/ \E run \in Positions(runs) : AddDecision(p, run)
             \/ CheckDefinitions(p) \/ CheckRevisions(p) \/ CheckKinds(p)
             \/ \E old, new \in Positions(runs) : CompareOld(p, old, new)
             \/ CompareNew(p)
      PROVE  ConditionsGrow /\ ResultsGrow
  BY <1>6 DEF Preview, OpenSaved, AddDecision, CheckDefinitions, CheckRevisions, CheckKinds,
              CompareOld, CompareNew, journal
<1>7. ASSUME \/ \E run \in Positions(runs), path \in Paths : ExportStart(p, run, path)
             \/ ExportRename(p) \/ ExportHash(p) \/ ExportRegister(p) \/ ExportFails(p)
             \/ \E path \in Paths : DownloadCheck(p, path)
             \/ DownloadRead(p)
             \/ \E publication \in Publications : Restart(p, publication)
      PROVE  ConditionsGrow /\ ResultsGrow
  BY <1>7 DEF ExportStart, ExportRename, ExportHash, ExportRegister, ExportFails, DownloadCheck,
              DownloadRead, Restart, journal
<1> QED BY <1>1, <1>2, <1>3, <1>4, <1>5, <1>6, <1>7 DEF Step

(* So the versions of every condition stay a chain.                        *)
LEMMA GraphStays ==
  ASSUME DeskTypeOK, Graph, ConditionsGrow
  PROVE  Graph'
<1>0. /\ \A r \in Positions(revisions) : revisions[r].screen <= Len(screens)
      /\ \A screen \in 1 .. Len(screens) : Chained(revisions, screen)
      /\ Len(screens) \in Nat /\ revisions \in Seq(Revision) /\ screens \in Seq(Kinds)
  BY GraphIsChains, LenProperties DEF DeskTypeOK
<1> SUFFICES /\ \A r \in Positions(revisions') : revisions'[r].screen <= Len(screens')
             /\ \A screen \in 1 .. Len(screens') : Chained(revisions', screen)
  BY DEF Graph, GraphIsSound, Chained, OwnOf, Positions
<1>1. CASE UNCHANGED <<screens, revisions>>
  BY <1>0, <1>1
<1>2. ASSUME NEW kind \in Kinds, NEW content \in Contents, NEW context \in Contexts,
             CreatesScreen(kind, content, context)
      PROVE  /\ \A r \in Positions(revisions') : revisions'[r].screen <= Len(screens')
             /\ \A screen \in 1 .. Len(screens') : Chained(revisions', screen)
  <2> DEFINE e == [screen |-> Len(screens) + 1, number |-> 1, parent |-> 0,
                   content |-> content, context |-> context]
  <2>a. e \in Revision /\ revisions' = Append(revisions, e) /\ screens' = Append(screens, kind)
    BY <1>0, <1>2 DEF CreatesScreen, GetsRevision
  <2>b. Appended(revisions, revisions', e) /\ Appended(screens, screens', kind)
    BY <1>0, <2>a, SafeAppend
  <2>1. e \in Revision /\ revisions' = Append(revisions, e) /\ Len(screens') = Len(screens) + 1
    BY <2>a, <2>b DEF Appended
  <2>c. \A r \in Positions(revisions) : revisions[r].screen \in Nat
    <3>1. \A r \in Positions(revisions) : revisions[r] \in Revision
      BY <1>0, ElementOfSeq DEF Positions
    <3> QED BY <3>1 DEF Revision
  <2>2. \A r \in Positions(revisions') : revisions'[r].screen <= Len(screens')
    <3>1. e.screen = Len(screens) + 1
      OBVIOUS
    <3> HIDE DEF e
    <3>2. ASSUME NEW r \in Positions(revisions) PROVE revisions[r].screen <= Len(screens')
      BY <1>0, <2>1, <2>c
    <3>3. e.screen <= Len(screens')
      BY <1>0, <2>1, <3>1
    <3>4. \A r \in Positions(revisions') :
            (r \in Positions(revisions) /\ revisions'[r] = revisions[r]) \/ revisions'[r] = e
      BY <2>b DEF Appended
    <3> QED BY <3>2, <3>3, <3>4
  <2>3. OwnOf(revisions, Len(screens) + 1) = {}
    BY <1>0, <2>c DEF OwnOf
  <2>4. Chained(revisions', Len(screens) + 1)
    <3>1. e.screen = Len(screens) + 1 /\ e.number = 1 /\ e.parent = 0
      OBVIOUS
    <3> HIDE DEF e
    <3>2. Len(screens) + 1 \in Nat
      BY <1>0
    <3> QED BY <1>0, <2>1, <2>3, <3>1, <3>2, ChainBegun
  <2>5. ASSUME NEW screen \in 1 .. Len(screens) PROVE Chained(revisions', screen)
    <3>1. e.screen # screen /\ screen \in Nat
      BY <1>0
    <3> HIDE DEF e
    <3> QED BY <1>0, <2>1, <3>1, ChainKept
  <2>6. 1 .. Len(screens') = 1 .. Len(screens) \cup {Len(screens) + 1}
    BY <1>0, <2>1
  <2> QED BY <2>2, <2>4, <2>5, <2>6
<1>3. ASSUME UNCHANGED screens,
             NEW screen \in Positions(screens), NEW content \in Contents, NEW context \in Contexts,
             Revises(screen, content, context)
      PROVE  /\ \A r \in Positions(revisions') : revisions'[r].screen <= Len(screens')
             /\ \A other \in 1 .. Len(screens') : Chained(revisions', other)
  <2> DEFINE current == Current(screen)
             e == [screen |-> screen, number |-> revisions[current].number + 1,
                   parent |-> current, content |-> content, context |-> context]
  <2>1. e \in Revision /\ revisions' = Append(revisions, e)
    BY <1>3 DEF Revises, GetsRevision
  <2>2. IsCurrent(revisions, screen, current) /\ screen \in 1 .. Len(screens) /\ screen \in Nat
    BY <1>0, CurrentVersion DEF Positions
  <2>3. e.screen = screen /\ e.parent = current /\ e.number = revisions[current].number + 1
    OBVIOUS
  <2> HIDE DEF e, current
  <2>4. \A r \in Positions(revisions') : revisions'[r].screen <= Len(screens')
    <3>1. Appended(revisions, revisions', e)
      BY <1>0, <2>1, SafeAppend
    <3>2. \A r \in Positions(revisions') :
            (r \in Positions(revisions) /\ revisions'[r] = revisions[r]) \/ revisions'[r] = e
      BY <3>1 DEF Appended
    <3>3. e.screen <= Len(screens)
      BY <1>0, <2>2, <2>3
    <3> QED BY <1>0, <1>3, <3>2, <3>3
  <2>5. Chained(revisions', screen)
    <3>1. Chained(revisions, screen)
      BY <1>0, <2>2
    <3> QED BY <1>0, <2>1, <2>2, <2>3, <3>1, ChainContinued
  <2>6. ASSUME NEW other \in 1 .. Len(screens), other # screen PROVE Chained(revisions', other)
    <3>1. e.screen # other /\ other \in Nat /\ Chained(revisions, other)
      BY <1>0, <2>3, <2>6
    <3> QED BY <1>0, <2>1, <3>1, ChainKept
  <2> QED BY <1>3, <2>4, <2>5, <2>6
<1> QED BY <1>1, <1>2, <1>3 DEF ConditionsGrow

(* And every result goes on to show its condition.                         *)
LEMMA RunsStay ==
  ASSUME DeskTypeOK, RunsHold, ConditionsGrow, ResultsGrow
  PROVE  RunsHold'
<1>1. /\ Positions(revisions) \subseteq Positions(revisions')
      /\ \A i \in Positions(revisions) : revisions'[i] = revisions[i]
  <2>1. CASE UNCHANGED revisions
    BY <2>1
  <2>2. ASSUME NEW e, GetsRevision(e)
        PROVE  /\ Positions(revisions) \subseteq Positions(revisions')
               /\ \A i \in Positions(revisions) : revisions'[i] = revisions[i]
    <3>1. Appended(revisions, revisions', e)
      BY <2>2, SafeAppend DEF GetsRevision, DeskTypeOK
    <3> QED BY <3>1 DEF Appended
  <2> QED BY <2>1, <2>2 DEF ConditionsGrow, CreatesScreen, Revises
<1>2. /\ RunsHold <=> \A i \in Positions(runs) : ShowsIn(runs[i], revisions)
      /\ RunsHold' <=> \A i \in Positions(runs') : ShowsIn(runs'[i], revisions')
      /\ \A run : ShowsIn(run, revisions) => ShowsIn(run, revisions')
  BY <1>1 DEF RunsHold, ShowsIn, ShowsItsCondition, Positions
<1>3. CASE UNCHANGED runs
  BY <1>2, <1>3
<1>4. ASSUME NEW r \in Run, GetsRun(r), ShowsIn(r, revisions')
      PROVE  RunsHold'
  <2>1. Appended(runs, runs', r)
    BY <1>4, SafeAppend DEF GetsRun, DeskTypeOK
  <2>2. \A i \in Positions(runs') : ShowsIn(runs'[i], revisions')
    BY <1>2, <1>4, <2>1 DEF Appended
  <2> QED BY <1>2, <2>2
<1> QED BY <1>3, <1>4 DEF ResultsGrow

-----------------------------------------------------------------------------
(* What every action does to the requests under way                        *)

Moves(p, next) ==
  /\ next \in OpStates /\ op' \in [Processes -> OpStates] /\ op'[p] = next
  /\ \A q \in Processes \ {p} : op'[q] = op[q]

DefinedState == [at |-> "defined", defined |-> Len(screens), quiet |-> TRUE]
RevisedState(p) ==
  [at |-> "revised", defined |-> op[p].defined, seen |-> Len(revisions), quiet |-> op[p].quiet]
CompareState(old, new) ==
  [at |-> "compare", old |-> old, new |-> new, decided |-> DecidedOn(old), quiet |-> TRUE]
ExportState(run, path) == [at |-> "export", run |-> run, path |-> path]
RenamedState(p) == [at |-> "renamed", run |-> op[p].run, path |-> op[p].path]
HashedState(p) ==
  [at |-> "hashed", run |-> op[p].run, path |-> op[p].path, sha |-> files[op[p].path]]
FetchState(e, path) ==
  [at |-> "download", path |-> path, run |-> exports[e].run,
   alone |-> path \notin abandoned /\ Exporters(path) = {}]

LEMMA ReadersMove ==
  ASSUME DeskTypeOK, NEW p \in Processes
  PROVE  /\ CheckDefinitions(p) => Moves(p, DefinedState)
         /\ CheckRevisions(p) => Moves(p, RevisedState(p))
         /\ \A old, new \in Positions(runs) : CompareOld(p, old, new) => Moves(p, CompareState(old, new))
         /\ CheckKinds(p) \/ CompareNew(p) \/ ExportRegister(p) \/ ExportFails(p) \/ DownloadRead(p)
              \/ (\E publication \in Publications : Restart(p, publication)) => Moves(p, Idle)
<1>0. op \in [Processes -> OpStates] /\ Idle \in OpStates /\ Len(screens) \in Nat /\ Len(revisions) \in Nat
  BY OpIsTyped, LenProperties DEF DeskTypeOK
<1>1. ASSUME CheckDefinitions(p) PROVE Moves(p, DefinedState)
  <2>1. DefinedState \in OpStates
    BY <1>0 DEF OpStates, Defining, DefinedState
  <2>2. op' = [op EXCEPT ![p] = DefinedState]
    BY <1>1 DEF CheckDefinitions, DefinedState
  <2> QED BY <1>0, <2>1, <2>2, OneGoesOn DEF Moves
<1>2. ASSUME CheckRevisions(p) PROVE Moves(p, RevisedState(p))
  <2>1. op[p] \in Defining
    BY <1>0, <1>2, StateOf DEF CheckRevisions
  <2>2. RevisedState(p) \in OpStates
    BY <1>0, <2>1 DEF OpStates, Defining, Revising, RevisedState
  <2>3. op' = [op EXCEPT ![p] = RevisedState(p)]
    BY <1>0, <1>2 DEF CheckRevisions, RevisedState
  <2> QED BY <1>0, <2>2, <2>3, OneGoesOn DEF Moves
<1>3. ASSUME NEW old \in Positions(runs), NEW new \in Positions(runs), CompareOld(p, old, new)
      PROVE  Moves(p, CompareState(old, new))
  <2>1. DecidedOn(old) \in BOOLEAN
    BY DEF DecidedOn
  <2>2. old \in Nat /\ new \in Nat
    BY LenProperties DEF DeskTypeOK, Positions
  <2>3. CompareState(old, new) \in OpStates
    BY <2>1, <2>2 DEF OpStates, Comparing, CompareState
  <2>4. op' = [op EXCEPT ![p] = CompareState(old, new)]
    BY <1>3 DEF CompareOld, CompareState
  <2> QED BY <1>0, <2>3, <2>4, OneGoesOn DEF Moves
<1>4. ASSUME CheckKinds(p) \/ CompareNew(p) \/ ExportRegister(p) \/ ExportFails(p) \/ DownloadRead(p)
               \/ (\E publication \in Publications : Restart(p, publication))
      PROVE  Moves(p, Idle)
  <2>1. op' = [op EXCEPT ![p] = Idle]
    BY <1>4 DEF CheckKinds, CompareNew, ExportRegister, ExportFails, DownloadRead, Restart
  <2> QED BY <1>0, <2>1, OneGoesOn DEF Moves
<1> QED BY <1>1, <1>2, <1>3, <1>4

LEMMA ExportersMove ==
  ASSUME DeskTypeOK, NEW p \in Processes
  PROVE  /\ \A run \in Positions(runs), path \in Paths :
              ExportStart(p, run, path) => Moves(p, ExportState(run, path))
         /\ ExportRename(p) => op[p] \in Putting /\ Moves(p, RenamedState(p))
         /\ ExportHash(p) => /\ op[p] \in Putting
                             /\ files[op[p].path] = NoFile => Moves(p, Idle)
                             /\ files[op[p].path] # NoFile => Moves(p, HashedState(p))
         /\ \A path \in Paths : DownloadCheck(p, path) =>
              \E e \in Registration(path) : Moves(p, FetchState(e, path))
         /\ ExportRegister(p) \/ ExportFails(p) => op[p] \in Hashed
         /\ DownloadRead(p) => op[p] \in Fetching
<1>0. op \in [Processes -> OpStates] /\ Idle \in OpStates
  BY OpIsTyped
<1>1. ASSUME NEW run \in Positions(runs), NEW path \in Paths, ExportStart(p, run, path)
      PROVE  Moves(p, ExportState(run, path))
  <2>1. run \in Nat
    BY LenProperties DEF DeskTypeOK, Positions
  <2>2. ExportState(run, path) \in OpStates
    BY <2>1 DEF OpStates, Putting, ExportState
  <2>3. op' = [op EXCEPT ![p] = ExportState(run, path)]
    BY <1>1 DEF ExportStart, ExportState
  <2> QED BY <1>0, <2>2, <2>3, OneGoesOn DEF Moves
<1>2. ASSUME ExportRename(p) PROVE op[p] \in Putting /\ Moves(p, RenamedState(p))
  <2>1. op[p] \in Putting
    BY <1>0, <1>2, StateOf DEF ExportRename
  <2>2. [op[p] EXCEPT !.at = "renamed"] = RenamedState(p) /\ RenamedState(p) \in OpStates
    BY <2>1 DEF OpStates, Putting, RenamedState
  <2>3. op' = [op EXCEPT ![p] = RenamedState(p)]
    BY <1>0, <1>2, <2>2 DEF ExportRename
  <2> QED BY <1>0, <2>1, <2>2, <2>3, OneGoesOn DEF Moves
<1>3. ASSUME ExportHash(p)
      PROVE  /\ op[p] \in Putting
             /\ files[op[p].path] = NoFile => Moves(p, Idle)
             /\ files[op[p].path] # NoFile => Moves(p, HashedState(p))
  <2>1. op[p] \in Putting
    BY <1>0, <1>3, StateOf DEF ExportHash
  <2>2. CASE files[op[p].path] = NoFile
    <3>1. op' = [op EXCEPT ![p] = Idle]
      BY <1>0, <1>3, <2>2 DEF ExportHash
    <3> QED BY <1>0, <2>1, <2>2, <3>1, OneGoesOn DEF Moves
  <2>3. CASE files[op[p].path] # NoFile
    <3>1. files[op[p].path] \in Nat
      BY <2>1, <2>3 DEF DeskTypeOK, Putting
    <3>2. HashedState(p) \in OpStates
      BY <2>1, <3>1 DEF OpStates, Putting, Hashed, HashedState
    <3>3. op' = [op EXCEPT ![p] = HashedState(p)]
      BY <1>0, <1>3, <2>3 DEF ExportHash, HashedState
    <3> QED BY <1>0, <2>1, <2>3, <3>2, <3>3, OneGoesOn DEF Moves
  <2> QED BY <2>1, <2>2, <2>3
<1>4. ASSUME NEW path \in Paths, DownloadCheck(p, path)
      PROVE  \E e \in Registration(path) : Moves(p, FetchState(e, path))
  <2>1. PICK e \in Registration(path) : op' = [op EXCEPT ![p] = FetchState(e, path)]
    BY <1>4 DEF DownloadCheck, FetchState
  <2>2. exports[e] \in Export
    BY <2>1, ElementOfSeq DEF Registration, ExportsAt, Positions, DeskTypeOK
  <2>3. (path \notin abandoned /\ Exporters(path) = {}) \in BOOLEAN
    OBVIOUS
  <2>4. FetchState(e, path) \in OpStates
    BY <2>2, <2>3 DEF Export, OpStates, Fetching, FetchState
  <2> QED BY <1>0, <2>1, <2>4, OneGoesOn DEF Moves
<1>5. ASSUME ExportRegister(p) \/ ExportFails(p) PROVE op[p] \in Hashed
  BY <1>0, <1>5, StateOf DEF ExportRegister, ExportFails
<1>6. ASSUME DownloadRead(p) PROVE op[p] \in Fetching
  BY <1>0, <1>6, StateOf DEF DownloadRead
<1> QED BY <1>1, <1>2, <1>3, <1>4, <1>5, <1>6

LEMMA WritersDisturb ==
  ASSUME DeskTypeOK, NEW p \in Processes
  PROVE  /\ (\E content \in Contents, context \in Contexts : CreateScreen(p, content, context))
              \/ (\E screen \in Positions(screens), content \in Contents, asked \in Contexts :
                    ReviseScreen(p, screen, content, asked))
              \/ (\E content \in Contents : SaveDraft(p, content)) => Disturbed({"defined", "revised"})
         /\ (\E run \in Positions(runs) : AddDecision(p, run)) => Disturbed({"compare"})
<1>0. op \in [Processes -> OpStates] /\ {"defined", "revised"} \in SUBSET Readers /\ {"compare"} \in SUBSET Readers
  BY OpIsTyped DEF Readers
<1> QED BY <1>0, DisturbDisturbs DEF CreateScreen, ReviseScreen, SaveDraft, AddDecision

-----------------------------------------------------------------------------
(* Every action keeps the invariant                                        *)

LEMMA TypesStay ==
  ASSUME DeskTypeOK, ConditionsGrow, ResultsGrow, NEW p \in Processes, Step(p)
  PROVE  DeskTypeOK'
<1>1. screens' \in Seq(Kinds) /\ revisions' \in Seq(Revision)
  BY SafeAppend DEF ConditionsGrow, CreatesScreen, Revises, GetsRevision, DeskTypeOK
<1>2. runs' \in Seq(Run)
  BY SafeAppend DEF ResultsGrow, GetsRun, DeskTypeOK
<1>3. op' \in [Processes -> OpStates]
  BY ReadersMove, ExportersMove, WritersDisturb, OpIsTyped
     DEF Step, Moves, Disturbed, Execute, SaveResultOf, Preview, OpenSaved
<1>4. decisions' \in Seq(Nat)
  <2>1. ASSUME NEW run \in Positions(runs), AddDecision(p, run) PROVE decisions' \in Seq(Nat)
    <3>1. run \in Nat
      BY LenProperties DEF DeskTypeOK, Positions
    <3> QED BY <2>1, <3>1, SafeAppend DEF AddDecision, DeskTypeOK
  <2> QED BY <2>1 DEF Step, CreateScreen, ReviseScreen, Preview, SaveDraft, Execute, OpenSaved, SaveResultOf,
         CheckDefinitions, CheckRevisions, CheckKinds, CompareOld, CompareNew, ExportStart, ExportRename,
         ExportHash, ExportRegister, ExportFails, DownloadCheck, DownloadRead, Restart, journal, DeskTypeOK
<1>5. exports' \in Seq(Export)
  <2>1. ASSUME ExportRegister(p) PROVE exports' \in Seq(Export)
    <3>1. [run |-> op[p].run, path |-> op[p].path, sha |-> op[p].sha] \in Export
      BY <2>1, ExportersMove DEF Hashed, Export
    <3> QED BY <2>1, <3>1, SafeAppend DEF ExportRegister, DeskTypeOK
  <2> QED BY <2>1 DEF Step, CreateScreen, ReviseScreen, Preview, SaveDraft, Execute, OpenSaved, SaveResultOf,
         AddDecision, CheckDefinitions, CheckRevisions, CheckKinds, CompareOld, CompareNew, ExportStart,
         ExportRename, ExportHash, ExportFails, DownloadCheck, DownloadRead, Restart, journal, DeskTypeOK
<1>6. files' \in [Paths -> Nat \cup {NoFile}]
  <2>1. ASSUME ExportRename(p) PROVE files' \in [Paths -> Nat \cup {NoFile}]
    <3>1. op[p].run \in Nat
      BY <2>1, ExportersMove DEF Putting
    <3> QED BY <2>1, <3>1 DEF ExportRename, DeskTypeOK
  <2>2. ASSUME ExportFails(p) PROVE files' \in [Paths -> Nat \cup {NoFile}]
    BY <2>2 DEF ExportFails, DeskTypeOK
  <2> QED BY <2>1, <2>2 DEF Step, CreateScreen, ReviseScreen, Preview, SaveDraft, Execute, OpenSaved,
         SaveResultOf, AddDecision, CheckDefinitions, CheckRevisions, CheckKinds, CompareOld, CompareNew,
         ExportStart, ExportHash, ExportRegister, DownloadCheck, DownloadRead, Restart, outside, DeskTypeOK
<1>7. served' \in [Processes -> Publications]
  BY DEF Step, CreateScreen, ReviseScreen, Preview, SaveDraft, Execute, OpenSaved, SaveResultOf, AddDecision,
         CheckDefinitions, CheckRevisions, CheckKinds, CompareOld, CompareNew, ExportStart, ExportRename,
         ExportHash, ExportRegister, ExportFails, DownloadCheck, DownloadRead, Restart, outside, DeskTypeOK
<1> QED BY <1>1, <1>2, <1>3, <1>4, <1>5, <1>6, <1>7 DEF DeskTypeOK

(* A quiet reader has still seen what there is.                            *)
LEMMA QuietReadsStay ==
  ASSUME DeskTypeOK, Graph, QuietReadsAreCurrent, NEW p \in Processes, Step(p),
         ConditionsGrow, ResultsGrow
  PROVE  QuietReadsAreCurrent'
<1> DEFINE Current1(q) ==
             /\ op'[q].at = "defined" /\ op'[q].quiet => op'[q].defined = Len(screens')
             /\ op'[q].at = "revised" /\ op'[q].quiet =>
                  op'[q].defined = Len(screens') /\ op'[q].seen = Len(revisions')
             /\ op'[q].at = "compare" => op'[q].old \in Positions(runs') /\ op'[q].new \in Positions(runs')
             /\ op'[q].at = "compare" /\ op'[q].quiet =>
                  (op'[q].decided <=> \E d \in Positions(decisions') : decisions'[d] = op'[q].old)
<1> SUFFICES ASSUME NEW q \in Processes PROVE Current1(q)
  BY DEF QuietReadsAreCurrent, DecidedOn, Positions
<1>0. Positions(runs) \subseteq Positions(runs')
  <2>1. ASSUME NEW r, GetsRun(r) PROVE Positions(runs) \subseteq Positions(runs')
    <3>1. Appended(runs, runs', r)
      BY <2>1, SafeAppend DEF GetsRun, DeskTypeOK
    <3> QED BY <3>1 DEF Appended
  <2> QED BY <2>1 DEF ResultsGrow
<1>1. /\ op[q].at = "defined" /\ op[q].quiet => op[q].defined = Len(screens)
      /\ op[q].at = "revised" /\ op[q].quiet =>
           op[q].defined = Len(screens) /\ op[q].seen = Len(revisions)
      /\ op[q].at = "compare" => op[q].old \in Positions(runs) /\ op[q].new \in Positions(runs)
      /\ op[q].at = "compare" /\ op[q].quiet =>
           (op[q].decided <=> \E d \in Positions(decisions) : decisions[d] = op[q].old)
  BY DEF QuietReadsAreCurrent, DecidedOn
<1>2. CASE \/ \E content \in Contents, context \in Contexts : CreateScreen(p, content, context)
           \/ \E screen \in Positions(screens), content \in Contents, asked \in Contexts :
                ReviseScreen(p, screen, content, asked)
           \/ \E content \in Contents : SaveDraft(p, content)
  <2>1. Disturbed({"defined", "revised"})
    BY <1>2, WritersDisturb
  <2>2. UNCHANGED decisions
    BY <1>2 DEF CreateScreen, ReviseScreen, SaveDraft
  <2> QED BY <1>0, <1>1, <2>1, <2>2 DEF Disturbed
<1>3. CASE \E run \in Positions(runs) : AddDecision(p, run)
  <2>1. Disturbed({"compare"})
    BY <1>3, WritersDisturb
  <2>2. UNCHANGED <<screens, revisions, runs>>
    BY <1>3 DEF AddDecision
  <2> QED BY <1>1, <2>1, <2>2 DEF Disturbed
<1>4. CASE \/ \E revision \in Positions(revisions) :
                \/ Execute(p, revision) \/ OpenSaved(p, revision)
                \/ \E content \in Contents : SaveResultOf(p, revision, content)
           \/ \E content \in Contents : Preview(p, content)
  <2>1. UNCHANGED <<op, screens, revisions, decisions>>
    BY <1>4 DEF Execute, OpenSaved, SaveResultOf, Preview, journal
  <2> QED BY <1>0, <1>1, <2>1
<1>5. CASE CheckDefinitions(p)
  <2>1. UNCHANGED <<screens, revisions, runs, decisions>> /\ Moves(p, DefinedState)
    BY <1>5, ReadersMove DEF CheckDefinitions, journal
  <2> QED BY <1>1, <2>1 DEF Moves, DefinedState
<1>6. CASE CheckRevisions(p)
  <2>1. /\ UNCHANGED <<screens, revisions, runs, decisions>> /\ Moves(p, RevisedState(p))
        /\ op[p].at = "defined"
    BY <1>6, ReadersMove DEF CheckRevisions, journal
  <2>2. CASE q = p
    <3>1. op'[q] = RevisedState(q)
      BY <2>1, <2>2 DEF Moves
    <3> QED BY <1>1, <2>1, <2>2, <3>1 DEF RevisedState
  <2> QED BY <1>1, <2>1, <2>2 DEF Moves
<1>7. CASE \E old, new \in Positions(runs) : CompareOld(p, old, new)
  <2>1. PICK old \in Positions(runs), new \in Positions(runs) : CompareOld(p, old, new)
    BY <1>7
  <2>2. UNCHANGED <<screens, revisions, runs, decisions>> /\ Moves(p, CompareState(old, new))
    BY <2>1, ReadersMove DEF CompareOld, journal
  <2> QED BY <1>1, <2>2 DEF Moves, CompareState, DecidedOn
<1>8. CASE \/ CheckKinds(p) \/ CompareNew(p) \/ ExportRegister(p) \/ ExportFails(p) \/ DownloadRead(p)
           \/ \E publication \in Publications : Restart(p, publication)
  <2>1. UNCHANGED <<screens, revisions, runs, decisions>> /\ Moves(p, Idle)
    BY <1>8, ReadersMove DEF CheckKinds, CompareNew, ExportRegister, ExportFails, DownloadRead, Restart,
       journal
  <2> QED BY <1>1, <2>1 DEF Moves, Idle
<1>9. CASE \/ \E run \in Positions(runs), path \in Paths : ExportStart(p, run, path)
           \/ ExportRename(p) \/ ExportHash(p)
           \/ \E path \in Paths : DownloadCheck(p, path)
  <2>1. UNCHANGED <<screens, revisions, runs, decisions>>
    BY <1>9 DEF ExportStart, ExportRename, ExportHash, DownloadCheck, journal
  <2>2. /\ op'[p].at \notin {"defined", "revised", "compare"}
        /\ \A r \in Processes \ {p} : op'[r] = op[r]
    <3> DEFINE Away == /\ op'[p].at \notin {"defined", "revised", "compare"}
                       /\ \A r \in Processes \ {p} : op'[r] = op[r]
    <3>1. ASSUME NEW run \in Positions(runs), NEW path \in Paths, ExportStart(p, run, path) PROVE Away
      <4>1. Moves(p, ExportState(run, path))
        BY <3>1, ExportersMove
      <4> QED BY <4>1 DEF Moves, ExportState
    <3>2. ASSUME ExportRename(p) PROVE Away
      <4>1. Moves(p, RenamedState(p))
        BY <3>2, ExportersMove
      <4> QED BY <4>1 DEF Moves, RenamedState
    <3>3. ASSUME ExportHash(p) PROVE Away
      <4>1. Moves(p, Idle) \/ Moves(p, HashedState(p))
        BY <3>3, ExportersMove
      <4> QED BY <4>1 DEF Moves, HashedState, Idle
    <3>4. ASSUME NEW path \in Paths, DownloadCheck(p, path) PROVE Away
      <4>1. PICK e \in Registration(path) : Moves(p, FetchState(e, path))
        BY <3>4, ExportersMove
      <4> QED BY <4>1 DEF Moves, FetchState
    <3> QED BY <1>9, <3>1, <3>2, <3>3, <3>4
  <2> QED BY <1>1, <2>1, <2>2
<1> HIDE DEF Current1
<1> QED BY <1>2, <1>3, <1>4, <1>5, <1>6, <1>7, <1>8, <1>9 DEF Step

\* The steps that touch neither the files nor who exports or downloads them.
Apart ==
  /\ UNCHANGED <<files, exports, abandoned>>
  /\ \A q \in Processes :
       \/ op'[q] = op[q]
       \/ op[q].at \in {"idle"} \cup Readers /\ op'[q].at \in {"idle"} \cup Readers

Exports == {"export", "renamed", "hashed"}

LEMMA ApartSteps ==
  ASSUME DeskTypeOK, NEW p \in Processes, Step(p)
  PROVE  \/ Apart
         \/ \E run \in Positions(runs), path \in Paths : ExportStart(p, run, path)
         \/ ExportRename(p) \/ ExportHash(p) \/ ExportRegister(p) \/ ExportFails(p)
         \/ \E path \in Paths : DownloadCheck(p, path)
         \/ DownloadRead(p)
         \/ \E publication \in Publications : Restart(p, publication)
<1>0. \A q \in Processes : op[q] \in OpStates
  BY DEF DeskTypeOK
<1>1. ASSUME \/ \E content \in Contents, context \in Contexts : CreateScreen(p, content, context)
             \/ \E screen \in Positions(screens), content \in Contents, asked \in Contexts :
                  ReviseScreen(p, screen, content, asked)
             \/ \E content \in Contents : SaveDraft(p, content)
      PROVE  Apart
  <2>1. Disturbed({"defined", "revised"})
    BY <1>1, WritersDisturb
  <2>2. UNCHANGED <<files, exports, abandoned>>
    BY <1>1 DEF CreateScreen, ReviseScreen, SaveDraft, outside
  <2> QED BY <2>1, <2>2 DEF Apart, Disturbed, Readers
<1>2. ASSUME \E run \in Positions(runs) : AddDecision(p, run) PROVE Apart
  <2>1. Disturbed({"compare"})
    BY <1>2, WritersDisturb
  <2>2. UNCHANGED <<files, exports, abandoned>>
    BY <1>2 DEF AddDecision, outside
  <2> QED BY <2>1, <2>2 DEF Apart, Disturbed, Readers
<1>3. ASSUME \/ \E revision \in Positions(revisions) :
                  \/ Execute(p, revision) \/ OpenSaved(p, revision)
                  \/ \E content \in Contents : SaveResultOf(p, revision, content)
             \/ \E content \in Contents : Preview(p, content)
      PROVE  Apart
  BY <1>3 DEF Apart, Execute, OpenSaved, SaveResultOf, Preview, journal, outside
<1>4. ASSUME CheckDefinitions(p) PROVE Apart
  BY <1>4, ReadersMove DEF CheckDefinitions, Unoccupied, Idle, Moves, DefinedState, Apart, Readers, journal, outside
<1>5. ASSUME CheckRevisions(p) PROVE Apart
  BY <1>5, ReadersMove DEF CheckRevisions, Moves, RevisedState, Apart, Readers, journal, outside
<1>6. ASSUME NEW old \in Positions(runs), NEW new \in Positions(runs), CompareOld(p, old, new) PROVE Apart
  <2>1. Moves(p, CompareState(old, new))
    BY <1>6, ReadersMove
  <2> QED BY <1>6, <2>1 DEF CompareOld, Unoccupied, Idle, Moves, CompareState, Apart, Readers, journal, outside
<1>7. ASSUME CheckKinds(p) \/ CompareNew(p) PROVE Apart
  BY <1>7, ReadersMove DEF CheckKinds, CompareNew, Moves, Idle, Apart, Readers, journal, outside
<1> QED BY <1>1, <1>2, <1>3, <1>4, <1>5, <1>6, <1>7 DEF Step

(* Whoever put a file where it lies goes on, registers it, or leaves a mark. *)
LEMMA FilesStay ==
  ASSUME DeskTypeOK, FilesArePutByExports, NEW p \in Processes, Step(p)
  PROVE  FilesArePutByExports'
<1> DEFINE PutNow(path) ==
             \/ \E q \in Processes : /\ op'[q].at \in {"renamed", "hashed"} /\ op'[q].path = path
                                    /\ op'[q].run = files'[path]
             \/ \E e \in Positions(exports') : exports'[e].path = path /\ exports'[e].run = files'[path]
<1> SUFFICES ASSUME NEW path \in Paths, files'[path] # NoFile, path \notin abandoned'
             PROVE  PutNow(path)
  BY DEF FilesArePutByExports, Puts, ExportsAt, Positions
<1>0. \A q \in Processes : op[q] \in OpStates
  BY DEF DeskTypeOK
<1>1. files[path] # NoFile /\ path \notin abandoned =>
        \/ \E q \in Processes : Puts(q, path)
        \/ \E e \in Positions(exports) : exports[e].path = path /\ exports[e].run = files[path]
  BY DEF FilesArePutByExports, ExportsAt
<1>2. CASE Apart
  BY <1>1, <1>2 DEF Apart, Puts, Readers
<1>3. ASSUME NEW run \in Positions(runs), NEW there \in Paths, ExportStart(p, run, there)
      PROVE  PutNow(path)
  <2>1. /\ UNCHANGED <<files, exports, abandoned>> /\ op[p].at = "idle"
        /\ \A q \in Processes \ {p} : op'[q] = op[q]
    BY <1>3, ExportersMove DEF ExportStart, Unoccupied, Idle, Moves, journal, outside
  <2> QED BY <1>1, <2>1 DEF Puts
<1>4. CASE ExportRename(p)
  <2>1. /\ op[p] \in Putting /\ op'[p] = RenamedState(p) /\ \A q \in Processes \ {p} : op'[q] = op[q]
        /\ files' = [files EXCEPT ![op[p].path] = op[p].run] /\ UNCHANGED exports
        /\ abandoned' = abandoned \ {op[p].path}
    BY <1>4, ExportersMove DEF ExportRename, Moves, journal
  <2>2. CASE path = op[p].path
    <3>1. files'[path] = op[p].run
      BY <2>1, <2>2 DEF DeskTypeOK
    <3> QED BY <2>1, <2>2, <3>1 DEF RenamedState
  <2>3. CASE path # op[p].path
    <3>1. files'[path] = files[path] /\ path \notin abandoned
      BY <2>1, <2>3 DEF DeskTypeOK
    <3>2. CASE \E q \in Processes : Puts(q, path)
      <4>1. PICK q \in Processes : Puts(q, path)
        BY <3>2
      <4>2. q # p
        BY <2>1, <2>3, <4>1 DEF Puts
      <4> QED BY <2>1, <3>1, <4>1, <4>2 DEF Puts
    <3> QED BY <1>1, <2>1, <3>1, <3>2
  <2> QED BY <2>2, <2>3
<1>5. CASE ExportHash(p)
  <2>1. /\ UNCHANGED <<files, exports, abandoned>> /\ op[p] \in Putting
        /\ \A q \in Processes \ {p} : op'[q] = op[q]
        /\ files[op[p].path] # NoFile => op'[p] = HashedState(p)
    BY <1>5, ExportersMove DEF ExportHash, Moves, journal, outside
  <2>2. CASE \E q \in Processes : Puts(q, path)
    <3>1. PICK q \in Processes : Puts(q, path)
      BY <2>2
    <3> QED BY <2>1, <3>1 DEF Puts, HashedState
  <2> QED BY <1>1, <2>1, <2>2
<1>6. CASE ExportRegister(p)
  <2> DEFINE e == [run |-> op[p].run, path |-> op[p].path, sha |-> op[p].sha]
  <2>1. /\ UNCHANGED <<files, abandoned>> /\ op[p] \in Hashed
        /\ \A q \in Processes \ {p} : op'[q] = op[q]
        /\ exports' = Append(exports, e)
    BY <1>6, ExportersMove, ReadersMove DEF ExportRegister, Moves, outside
  <2>2. e \in Export
    BY <2>1 DEF Hashed, Export
  <2>3. Appended(exports, exports', e)
    BY <2>1, <2>2, SafeAppend DEF DeskTypeOK
  <2>4. CASE \E q \in Processes : Puts(q, path)
    <3>1. PICK q \in Processes : Puts(q, path)
      BY <2>4
    <3>2. CASE q = p
      <4>1. e.path = path /\ e.run = files[path]
        BY <3>1, <3>2 DEF Puts
      <4> HIDE DEF e
      <4> QED BY <2>1, <2>3, <4>1 DEF Appended
    <3> QED BY <2>1, <3>1, <3>2 DEF Puts
  <2>5. ASSUME NEW x \in Positions(exports), exports[x].path = path, exports[x].run = files[path]
        PROVE  PutNow(path)
    BY <2>1, <2>3, <2>5 DEF Appended
  <2> HIDE DEF PutNow
  <2> QED BY <1>1, <2>1, <2>4, <2>5
<1>7. CASE ExportFails(p)
  <2>1. /\ op[p] \in Hashed /\ files' = [files EXCEPT ![op[p].path] = NoFile] /\ UNCHANGED exports
        /\ abandoned' = abandoned \ {op[p].path} /\ \A q \in Processes \ {p} : op'[q] = op[q]
    BY <1>7, ExportersMove, ReadersMove DEF ExportFails, Moves, journal
  <2>2. path # op[p].path /\ files'[path] = files[path] /\ path \notin abandoned
    BY <2>1 DEF DeskTypeOK, Hashed
  <2>3. ASSUME NEW q \in Processes, Puts(q, path) PROVE q # p
    BY <2>2, <2>3 DEF Puts
  <2> QED BY <1>1, <2>1, <2>2, <2>3 DEF Puts
<1>8. ASSUME NEW there \in Paths, DownloadCheck(p, there) PROVE PutNow(path)
  <2>1. /\ UNCHANGED <<files, exports, abandoned>> /\ op[p].at = "idle"
        /\ \A q \in Processes \ {p} : op'[q] = op[q]
    BY <1>8, ExportersMove DEF DownloadCheck, Unoccupied, Idle, Moves, journal, outside
  <2> QED BY <1>1, <2>1 DEF Puts
<1>9. CASE DownloadRead(p)
  <2>1. /\ UNCHANGED <<files, exports, abandoned>> /\ op[p].at = "download"
        /\ \A q \in Processes \ {p} : op'[q] = op[q]
    BY <1>9, ReadersMove DEF DownloadRead, Moves, journal, outside
  <2> QED BY <1>1, <2>1 DEF Puts
<1>10. ASSUME NEW publication \in Publications, Restart(p, publication) PROVE PutNow(path)
  <2>1. /\ UNCHANGED <<files, exports>> /\ \A q \in Processes \ {p} : op'[q] = op[q]
        /\ abandoned' = abandoned \cup (IF op[p].at \in {"renamed", "hashed"} THEN {op[p].path} ELSE {})
    BY <1>10, ReadersMove DEF Restart, Moves, journal
  <2>2. ~Puts(p, path) /\ path \notin abandoned
    BY <2>1 DEF Puts
  <2> QED BY <1>1, <2>1, <2>2 DEF Puts
<1> HIDE DEF PutNow
<1> QED BY <1>2, <1>3, <1>4, <1>5, <1>6, <1>7, <1>8, <1>9, <1>10, ApartSteps

(* Nobody gets at the file between the check and the read of a download.   *)
LEMMA DownloadsStay ==
  ASSUME DeskTypeOK, FilesArePutByExports, DownloadsAreUndisturbed, NEW p \in Processes, Step(p)
  PROVE  DownloadsAreUndisturbed'
<1> DEFINE Alone(q) ==
             /\ files'[op'[q].path] = op'[q].run /\ files'[op'[q].path] # NoFile
             /\ \A r \in Processes : ~(op'[r].at \in Exports /\ op'[r].path = op'[q].path)
<1> SUFFICES ASSUME NEW q \in Processes, op'[q].at = "download", op'[q].alone
             PROVE  Alone(q)
  BY DEF DownloadsAreUndisturbed, Exporters, Exports
<1>0. \A r \in Processes : op[r] \in OpStates
  BY DEF DeskTypeOK
<1>1. op[q].at = "download" /\ op[q].alone =>
        /\ files[op[q].path] = op[q].run /\ files[op[q].path] # NoFile
        /\ \A r \in Processes : ~(op[r].at \in Exports /\ op[r].path = op[q].path)
  BY DEF DownloadsAreUndisturbed, Exporters, Exports
<1>2. CASE Apart
  BY <1>1, <1>2 DEF Apart, Readers, Exports
<1>3. ASSUME NEW run \in Positions(runs), NEW there \in Paths, ExportStart(p, run, there)
      PROVE  Alone(q)
  <2>1. /\ UNCHANGED files /\ files[there] = NoFile /\ op'[p] = ExportState(run, there)
        /\ \A r \in Processes \ {p} : op'[r] = op[r]
    BY <1>3, ExportersMove DEF ExportStart, Moves, outside
  <2>2. q # p
    BY <2>1 DEF ExportState
  <2> QED BY <1>1, <2>1, <2>2 DEF ExportState
<1>4. CASE ExportRename(p)
  <2>1. /\ op[p] \in Putting /\ op[p].at = "export" /\ op'[p] = RenamedState(p)
        /\ \A r \in Processes \ {p} : op'[r] = op[r]
        /\ files' = [files EXCEPT ![op[p].path] = op[p].run]
    BY <1>4, ExportersMove DEF ExportRename, Moves
  <2>2. q # p
    BY <2>1 DEF RenamedState
  <2>3. op[q].path # op[p].path /\ op[q] \in Fetching
    BY <1>0, <1>1, <2>1, <2>2, StateOf DEF Exports
  <2>4. files'[op[q].path] = files[op[q].path]
    BY <2>1, <2>3 DEF DeskTypeOK, Fetching
  <2> QED BY <1>1, <2>1, <2>2, <2>3, <2>4 DEF RenamedState
<1>5. CASE ExportHash(p)
  <2>1. /\ UNCHANGED files /\ op[p].at = "renamed" /\ \A r \in Processes \ {p} : op'[r] = op[r]
        /\ op'[p] = Idle \/ op'[p] = HashedState(p)
    BY <1>5, ExportersMove DEF ExportHash, Moves, outside
  <2>2. q # p
    BY <2>1 DEF Idle, HashedState
  <2> QED BY <1>1, <2>1, <2>2 DEF Idle, HashedState, Exports
<1>6. CASE ExportRegister(p)
  <2>1. UNCHANGED files /\ op'[p] = Idle /\ \A r \in Processes \ {p} : op'[r] = op[r]
    BY <1>6, ReadersMove DEF ExportRegister, Moves, outside
  <2> QED BY <1>1, <2>1 DEF Idle, Exports
<1>7. CASE ExportFails(p)
  <2>1. /\ op[p] \in Hashed /\ files' = [files EXCEPT ![op[p].path] = NoFile]
        /\ op'[p] = Idle /\ \A r \in Processes \ {p} : op'[r] = op[r]
    BY <1>7, ExportersMove, ReadersMove DEF ExportFails, Moves
  <2>2. q # p
    BY <2>1 DEF Idle
  <2>3. op[q].path # op[p].path /\ op[q] \in Fetching
    BY <1>0, <1>1, <2>1, <2>2, StateOf DEF Exports, Hashed
  <2>4. files'[op[q].path] = files[op[q].path]
    BY <2>1, <2>3 DEF DeskTypeOK, Fetching
  <2> QED BY <1>1, <2>1, <2>2, <2>3, <2>4 DEF Idle, Exports
<1>8. ASSUME NEW there \in Paths, DownloadCheck(p, there) PROVE Alone(q)
  <2>1. PICK e \in Registration(there) : Moves(p, FetchState(e, there))
    BY <1>8, ExportersMove
  <2>2. /\ UNCHANGED files /\ files[there] # NoFile /\ op'[p] = FetchState(e, there)
        /\ \A r \in Processes \ {p} : op'[r] = op[r] /\ op[p].at = "idle"
    BY <1>8, <2>1 DEF DownloadCheck, Moves, Unoccupied, Idle, outside
  <2>3. CASE q = p
    <3>a. op'[q] = FetchState(e, there) /\ op'[q].path = there /\ op'[q].run = exports[e].run
      BY <2>2, <2>3 DEF FetchState
    <3>b. FetchState(e, there).alone = (there \notin abandoned /\ Exporters(there) = {})
      BY DEF FetchState
    <3>1. there \notin abandoned /\ Exporters(there) = {} /\ op'[q].path = there
          /\ op'[q].run = exports[e].run
      BY <3>a, <3>b, Zenon
    <3>2. \A r \in Processes : ~(op[r].at \in Exports /\ op[r].path = there)
      BY <3>1 DEF Exporters, Exports
    <3>3. \E x \in ExportsAt(there) : exports[x].run = files[there]
      BY <2>2, <3>1, <3>2 DEF FilesArePutByExports, Puts, Exports
    <3>4. exports[e].run = files[there]
      BY <2>1, <3>3 DEF Registration
    <3>5. \A r \in Processes : ~(op'[r].at \in Exports /\ op'[r].path = there)
      BY <2>2, <3>2 DEF FetchState, Exports
    <3> QED BY <2>2, <3>1, <3>4, <3>5
  <2>4. CASE q # p
    BY <1>1, <2>2, <2>4 DEF FetchState, Exports
  <2> QED BY <2>3, <2>4
<1>9. CASE DownloadRead(p)
  <2>1. UNCHANGED files /\ op'[p] = Idle /\ \A r \in Processes \ {p} : op'[r] = op[r]
    BY <1>9, ReadersMove DEF DownloadRead, Moves, outside
  <2> QED BY <1>1, <2>1 DEF Idle, Exports
<1>10. ASSUME NEW publication \in Publications, Restart(p, publication) PROVE Alone(q)
  <2>1. UNCHANGED files /\ op'[p] = Idle /\ \A r \in Processes \ {p} : op'[r] = op[r]
    BY <1>10, ReadersMove DEF Restart, Moves
  <2> QED BY <1>1, <2>1 DEF Idle, Exports
<1> HIDE DEF Alone
<1> QED BY <1>2, <1>3, <1>4, <1>5, <1>6, <1>7, <1>8, <1>9, <1>10, ApartSteps

(* What clients are told is true when they are told it.                    *)
LEMMA AnswersHold ==
  ASSUME DeskInv, NEW p \in Processes, Step(p), Graph'
  PROVE  ReadsInPartsAreHonest' /\ HandsOutTheRegisteredRun'
<1> DEFINE Told == /\ answer' # NoAnswer /\ answer'.to = "check" /\ answer'.quiet => answer'.passed
                   /\ answer' # NoAnswer /\ answer'.to = "compare" =>
                        /\ answer'.changed \subseteq {"manual_decision"}
                             => runs'[answer'.old].rows = runs'[answer'.new].rows
                        /\ answer'.quiet => ("manual_decision" \in answer'.changed
                                               <=> DecidedOn(answer.old)' # DecidedOn(answer.new)')
                   /\ answer' # NoAnswer /\ answer'.to = "download" /\ answer'.alone
                        => answer'.rows = answer'.run
<1> SUFFICES Told
  BY DEF ReadsInPartsAreHonest, HandsOutTheRegisteredRun, Graph
<1>0. op \in [Processes -> OpStates]
  BY DEF DeskInv, DeskTypeOK
<1>1. CASE answer' = NoAnswer
  BY <1>1
<1>2. CASE \E revision \in Positions(revisions) : OpenSaved(p, revision)
  BY <1>2 DEF OpenSaved
<1>3. CASE CheckKinds(p)
  <2>1. /\ op[p].at = "revised"
        /\ answer' = [to |-> "check", quiet |-> op[p].quiet,
                      passed |-> Len(screens) = op[p].defined /\ GraphIsSound(op[p].defined, op[p].seen)]
    BY <1>3 DEF CheckKinds
  <2>2. op[p].quiet => op[p].defined = Len(screens) /\ op[p].seen = Len(revisions)
    BY <2>1 DEF DeskInv, QuietReadsAreCurrent
  <2>3. GraphIsSound(Len(screens), Len(revisions))
    BY DEF DeskInv, Graph
  <2> QED BY <2>1, <2>2, <2>3
<1>4. CASE CompareNew(p)
  <2> DEFINE old == op[p].old
             new == op[p].new
  <2>1. /\ op[p].at = "compare" /\ op[p] \in Comparing
        /\ answer' = [to |-> "compare", old |-> old, new |-> new, quiet |-> op[p].quiet,
                      changed |-> Changes(old, new, op[p].decided)]
        /\ UNCHANGED <<runs, decisions>>
    BY <1>0, <1>4, StateOf DEF CompareNew, journal
  <2>2. /\ old \in Positions(runs) /\ new \in Positions(runs)
        /\ op[p].quiet => (op[p].decided <=> DecidedOn(old))
    BY <2>1 DEF DeskInv, QuietReadsAreCurrent
  <2>3. ShowsItsCondition(runs[old]) /\ ShowsItsCondition(runs[new])
    BY <2>2 DEF DeskInv, RunsHold
  <2>4. Changes(old, new, op[p].decided) \subseteq {"manual_decision"} => runs[old].rows = runs[new].rows
    BY <2>3 DEF Changes, DataChange, ShowsItsCondition
  <2>5. "manual_decision" \in Changes(old, new, op[p].decided) <=> op[p].decided # DecidedOn(new)
    BY DEF Changes, DataChange
  <2>6. /\ DecidedOn(answer.old)' <=> DecidedOn(old)
        /\ DecidedOn(answer.new)' <=> DecidedOn(new)
    BY <2>1 DEF DecidedOn, Positions
  <2> QED BY <2>1, <2>2, <2>4, <2>5, <2>6 DEF Comparing, DecidedOn
<1>5. CASE DownloadRead(p)
  <2>1. /\ op[p].at = "download"
        /\ answer' # NoAnswer =>
             answer' = [to |-> "download", run |-> op[p].run, rows |-> files[op[p].path], alone |-> op[p].alone]
    BY <1>5 DEF DownloadRead
  <2>2. op[p].alone => files[op[p].path] = op[p].run
    BY <2>1 DEF DeskInv, DownloadsAreUndisturbed
  <2> QED BY <2>1, <2>2
<1> HIDE DEF Told
<1> QED BY <1>1, <1>2, <1>3, <1>4, <1>5
   DEF Step, Silent, CreateScreen, ReviseScreen, Preview, SaveDraft, Execute, SaveResultOf, AddDecision,
       CheckDefinitions, CheckRevisions, CompareOld, ExportStart, ExportRename, ExportHash, ExportRegister,
       ExportFails, DownloadCheck, Restart

-----------------------------------------------------------------------------
LEMMA InitHolds == DeskInit => DeskInv
<1> SUFFICES ASSUME DeskInit PROVE DeskInv
  OBVIOUS
<1>1. /\ screens = <<>> /\ revisions = <<>> /\ runs = <<>> /\ decisions = <<>> /\ exports = <<>>
      /\ \A p \in Processes : op[p] = Idle
      /\ answer = NoAnswer /\ \A path \in Paths : files[path] = NoFile
  BY DEF DeskInit
<1>2. \A S : <<>> \in Seq(S)
  OBVIOUS
<1>3. DeskTypeOK
  <2>1. op \in [Processes -> OpStates]
    BY DEF DeskInit, Idle, OpStates, Resting
  <2> QED BY <1>1, <1>2, <2>1 DEF DeskInit, DeskTypeOK
<1>4. Positions(revisions) = {} /\ Positions(runs) = {} /\ Len(screens) = 0 /\ Len(revisions) = 0
  BY <1>1 DEF Positions
<1>5. Graph
  BY <1>4 DEF Graph, GraphIsSound
<1>6. /\ RunsHold /\ QuietReadsAreCurrent /\ FilesArePutByExports /\ DownloadsAreUndisturbed
      /\ ReadsInPartsAreHonest /\ HandsOutTheRegisteredRun
  BY <1>1, <1>4, <1>5 DEF RunsHold, QuietReadsAreCurrent, FilesArePutByExports, DownloadsAreUndisturbed,
     ReadsInPartsAreHonest, HandsOutTheRegisteredRun, Graph, Idle
<1> QED BY <1>3, <1>5, <1>6 DEF DeskInv

LEMMA StepHolds == DeskInv /\ [DeskNext]_deskVars => DeskInv'
<1> SUFFICES ASSUME DeskInv, [DeskNext]_deskVars PROVE DeskInv'
  OBVIOUS
<1>1. ASSUME NEW p \in Processes, Step(p) PROVE DeskInv'
  <2>1. ConditionsGrow /\ ResultsGrow
    BY <1>1, TablesGrow DEF DeskInv
  <2>2. Graph' /\ RunsHold' /\ DeskTypeOK'
    BY <1>1, <2>1, GraphStays, RunsStay, TypesStay DEF DeskInv
  <2>3. QuietReadsAreCurrent' /\ FilesArePutByExports' /\ DownloadsAreUndisturbed'
    BY <1>1, <2>1, QuietReadsStay, FilesStay, DownloadsStay DEF DeskInv
  <2>4. ReadsInPartsAreHonest' /\ HandsOutTheRegisteredRun'
    BY <1>1, <2>2, AnswersHold
  <2> QED BY <2>2, <2>3, <2>4 DEF DeskInv
<1>2. CASE UNCHANGED deskVars
  <2>1. UNCHANGED <<screens, revisions, runs, decisions, exports, files, served, abandoned, op, answer>>
    BY <1>2 DEF deskVars, journal, outside
  <2>a. DeskTypeOK'
    BY <2>1 DEF DeskInv, DeskTypeOK
  <2>b. Graph'
    BY <2>1, GraphStays DEF DeskInv, ConditionsGrow
  <2>c. RunsHold'
    BY <2>1 DEF DeskInv, RunsHold, ShowsItsCondition, Positions
  <2>2. DeskTypeOK' /\ Graph' /\ RunsHold'
    BY <2>a, <2>b, <2>c
  <2>3. QuietReadsAreCurrent'
    BY <2>1 DEF DeskInv, QuietReadsAreCurrent, DecidedOn, Positions
  <2>4. FilesArePutByExports' /\ DownloadsAreUndisturbed'
    BY <2>1 DEF DeskInv, FilesArePutByExports, Puts, ExportsAt, DownloadsAreUndisturbed, Exporters, Positions
  <2>5. ReadsInPartsAreHonest' /\ HandsOutTheRegisteredRun'
    <3>1. DecidedOn(answer.old)' = DecidedOn(answer.old) /\ DecidedOn(answer.new)' = DecidedOn(answer.new)
      BY <2>1 DEF DecidedOn, Positions
    <3>2. GraphIsSound(Len(screens), Len(revisions))'
      BY <2>b DEF Graph
    <3> QED BY <2>1, <3>1, <3>2 DEF DeskInv, ReadsInPartsAreHonest, HandsOutTheRegisteredRun
  <2> QED BY <2>2, <2>3, <2>4, <2>5 DEF DeskInv
<1> QED BY <1>1, <1>2 DEF DeskNext, Get, Post, Step

(* The tables stay in order, quiet readers current and downloads alone     *)
(* undisturbed, whichever requests run beside each other and die.          *)
THEOREM DeskStaysInOrder == DeskSpec => []DeskInv
BY InitHolds, StepHolds, PTL DEF DeskSpec

(* An integrity check fails only when somebody saved a condition while it  *)
(* read, and a comparison is only wrong about a decision that arrived      *)
(* while it read (integrity_check, compare_runs).                          *)
THEOREM ReadsAreHonest == DeskSpec => []ReadsInPartsAreHonest
<1>1. DeskInv => ReadsInPartsAreHonest
  BY DEF DeskInv
<1> QED BY <1>1, DeskStaysInOrder, PTL

(* What is downloaded under a registered name is the export of the run the *)
(* registration names (export_for_path, GET /exports).                     *)
THEOREM DownloadsAreTheRegisteredRun == DeskSpec => []HandsOutTheRegisteredRun
<1>1. DeskInv => HandsOutTheRegisteredRun
  BY DEF DeskInv
<1> QED BY <1>1, DeskStaysInOrder, PTL

(* A result shows what its condition gives on the publication it names,    *)
(* and a saved draft the rows its author looked at (execute, save_result). *)
THEOREM ResultsShowTheirConditions == DeskSpec => ResultsAreTheirConditions
<1>1. DeskInv => \A r \in Positions(runs) : ShowsItsCondition(runs[r])
  BY DEF DeskInv, RunsHold
<1>2. DeskInv /\ [DeskNext]_deskVars => [SavesWhatWasPreviewed]_deskVars
  <2> SUFFICES ASSUME DeskInv, NEW p \in Processes, Step(p),
                      Len(screens') > Len(screens), screens'[Len(screens')] = "RESULT_BACKING"
               PROVE  runs'[Len(runs')].rows = preview
    BY DEF DeskNext, Get, Post, Step, SavesWhatWasPreviewed
  <2>1. /\ DeskTypeOK /\ Len(screens) \in Nat
    BY LenProperties DEF DeskInv, DeskTypeOK
  <2>2. ASSUME NEW content \in Contents, SaveDraft(p, content)
        PROVE  runs'[Len(runs')].rows = preview
    <3> DEFINE r == [revision |-> Len(revisions) + 1, publication |-> served[p],
                     rows |-> <<content, served[p]>>]
    <3>1. Len(revisions) \in Nat /\ served[p] \in Publications
      BY <2>1, LenProperties DEF DeskTypeOK
    <3>2. GetsRun(r)
      BY <2>1, <2>2, <3>1, AddRunAdds DEF SaveDraft
    <3>3. Appended(runs, runs', r)
      BY <2>1, <3>2, SafeAppend DEF GetsRun, DeskTypeOK
    <3>4. preview = <<content, served[p]>>
      BY <2>2 DEF SaveDraft, PreviewHolds, Rows
    <3>5. r.rows = preview
      BY <3>4
    <3> HIDE DEF r
    <3> QED BY <3>3, <3>5 DEF Appended
  <2>3. ASSUME NEW content \in Contents, NEW context \in Contexts, CreateScreen(p, content, context)
        PROVE  FALSE
    <3>1. screens' = Append(screens, "EXPLICIT_CONDITION")
      BY <2>3 DEF CreateScreen, AddScreen
    <3>2. screens'[Len(screens')] = "EXPLICIT_CONDITION"
      BY <2>1, <3>1, SafeAppend DEF DeskTypeOK, Kinds, Appended
    <3> QED BY <3>2
  <2>4. ASSUME UNCHANGED screens PROVE FALSE
    BY <2>1, <2>4
  <2> QED BY <2>2, <2>3, <2>4 DEF Step, ReviseScreen, Preview, Execute, OpenSaved, SaveResultOf, AddDecision,
         CheckDefinitions, CheckRevisions, CheckKinds, CompareOld, CompareNew, ExportStart, ExportRename,
         ExportHash, ExportRegister, ExportFails, DownloadCheck, DownloadRead, Restart, journal
<1> QED BY <1>1, <1>2, DeskStaysInOrder, PTL DEF DeskSpec, ResultsAreTheirConditions
=============================================================================
