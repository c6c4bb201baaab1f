-------------------------- MODULE DatasetChainProofs --------------------------
(***************************************************************************)
(* For any commands beside each other, edits, publications moved away and  *)
(* identity source: a dataset v3 that opens is of one identity, what the   *)
(* closure verified stood together at one moment, and what was published   *)
(* while nothing changed opens.                                            *)
(*                                                                         *)
(* A file is never put at a path without a new stamp, and a file that is   *)
(* moved away only comes back by being put there.  So as long as a path    *)
(* has the stamp that the first pass found, it holds what the first pass   *)
(* found, or nothing; and once the last pass finds that stamp and a file,  *)
(* it was there when the first pass ended and when it was verified.        *)
(*                                                                         *)
(* The quarterly metrics name the identity of the annual metrics they      *)
(* were made for, since it was opened while the config pinned both.        *)
(*                                                                         *)
(* A command that nobody disturbed knows what lies there: what it has read *)
(* and verified is there still, so what it makes of it opens.              *)
(***************************************************************************)
EXTENDS DatasetChain, SequenceTheorems, TLAPS

-----------------------------------------------------------------------------
(* The inductive invariant                                                 *)

FilesLieInTheTable ==
  /\ made \in Seq(ToSet(made))
  /\ disk \in [Paths -> 0 .. Len(made)]
  /\ stamp \in [Paths -> Nat]

QuartersLieWhereTheyBelong ==
  disk[Data("quarters")] # Absent => made[disk[Data("quarters")]].kind = "quarters"

\* Quarterly metrics of a generic identity name the one of their parent.
NamesParentsIdentity(content, table) ==
  kind = "GENERIC" /\ content.kind = "quarters" =>
    /\ content.annual_sha \in 1 .. Len(table)
    /\ content.identity = table[content.annual_sha].identity

QuartersNameTheirParentsIdentity == \A d \in 1 .. Len(made) : NamesParentsIdentity(made[d], made)

JobFields == {"cmd", "at", "config", "read", "first", "stood", "seen", "next", "quiet"}

IsCommand(r, table) ==
  /\ DOMAIN r = JobFields
  /\ r.cmd \in Publications
  /\ r.config \in 1 .. Len(table)

\* What the publisher of quarterly metrics has read is of one identity.
ReadsOneParent(r, table) ==
  r.cmd = "quarters" /\ r.at # "start" =>
    /\ r.read.metrics \in 1 .. Len(table)
    /\ r.read.metrics = table[r.config].metrics
    /\ r.at \in {"identity", "stage"} /\ kind = "GENERIC" =>
         r.read.identity = table[r.read.metrics].identity

Steps == {"start", "again", "verify", "check", "post", "stage", "staged", "final", "rename"}

\* Where a command is in the closure of its sources.
IsInItsClosure(r) ==
  /\ r.at \in Steps
  /\ r.next \in 1 .. Len(Closure(r.cmd))
  /\ r.at \in {"check", "stage", "staged"} => r.next = 1
  /\ DOMAIN r.first \subseteq Paths
  /\ \A i \in 1 .. Len(Closure(r.cmd)) :
       r.at # "start" \/ i < r.next => Closure(r.cmd)[i] \in DOMAIN r.first
  /\ r.at \in {"start", "again"} => DOMAIN r.seen = {}
  /\ \A s \in DOMAIN r.seen : \E i \in 1 .. Len(Closure(r.cmd)) : s = Closure(r.cmd)[i]

\* Nobody has put a file there since the first pass.
Undisturbed(r, s, stamps) == r.first[s][2] = stamps[s]

FirstIsPast(r, s, at, stamps) ==
  /\ r.first[s][1] # Absent
  /\ r.first[s][2] \in Nat /\ r.first[s][2] <= stamps[s]
  /\ Undisturbed(r, s, stamps) => at[s] = r.first[s][1] \/ at[s] = Absent

StoodAsFound(r, s, at, stamps) ==
  Undisturbed(r, s, stamps) =>
    r.stood[s] = r.first[s][1] \/ (r.stood[s] = Absent /\ at[s] = Absent)

SeenAsFound(r, s, stamps) == Undisturbed(r, s, stamps) => r.seen[s] = r.first[s][1]

\* The last pass has found this file.
Confirmed(r, i) == r.at = "rename" \/ (r.at = "final" /\ i < r.next)

HasOneMoment(r, at, stamps) ==
  /\ \A s \in DOMAIN r.first : FirstIsPast(r, s, at, stamps)
  /\ r.at # "start" => \A s \in DOMAIN r.first : StoodAsFound(r, s, at, stamps)
  /\ \A s \in DOMAIN r.seen : SeenAsFound(r, s, stamps)
  /\ \A i \in 1 .. Len(Closure(r.cmd)) :
       Confirmed(r, i) /\ Closure(r.cmd)[i] \in DOMAIN r.seen =>
         r.seen[Closure(r.cmd)[i]] = r.stood[Closure(r.cmd)[i]]

InOrder(r, table, at, stamps) ==
  r # Idle =>
    /\ IsCommand(r, table)
    /\ ReadsOneParent(r, table)
    /\ Closed(r.cmd) => IsInItsClosure(r) /\ HasOneMoment(r, at, stamps)

JobsAreInOrder ==
  /\ DOMAIN job = Commands
  /\ \A p \in Commands : InOrder(job[p], made, disk, stamp)

IInv ==
  /\ FilesLieInTheTable
  /\ QuartersLieWhereTheyBelong
  /\ QuartersNameTheirParentsIdentity
  /\ JobsAreInOrder

-----------------------------------------------------------------------------
(* The paths and the table                                                 *)

\* A closure is a sequence of paths, and is not empty.
LEMMA ClosureIsOfPaths ==
  ASSUME NEW c
  PROVE  Closure(c) \in Seq(Paths) /\ Len(Closure(c)) \in Nat \ {0}
<1>1. IdentityFiles \in Seq(Paths) /\ Len(IdentityFiles) = 4
  BY DEF IdentityFiles, Paths, Data, Config, Leaves, Publications
<1> DEFINE before == <<Config("v3"), Data("v2"), Config("v2"), Data("metrics"), Config("metrics"), Data("identity")>>
           after == <<Data("quarters"), Config("quarters")>>
<1>2. before \in Seq(Paths) /\ Len(before) = 6
  BY DEF Paths, Data, Config, Leaves, Publications
<1>3. after \in Seq(Paths) /\ Len(after) = 2
  BY DEF Paths, Data, Config, Leaves, Publications
<1>4. V3Files = (before \o IdentityFiles) \o after
  BY DEF V3Files
<1> HIDE DEF before, after
<1>5. \A s1, s2 \in Seq(Paths) : s1 \o s2 \in Seq(Paths) /\ Len(s1 \o s2) = Len(s1) + Len(s2)
  BY ConcatProperties
<1>6. before \o IdentityFiles \in Seq(Paths) /\ Len(before \o IdentityFiles) = 6 + 4
  BY <1>1, <1>2, <1>5
<1>7. V3Files \in Seq(Paths) /\ Len(V3Files) = (6 + 4) + 2
  BY <1>3, <1>4, <1>5, <1>6
<1>8. CASE c = "identity"
  BY <1>1, <1>8 DEF Closure
<1>9. CASE c # "identity"
  BY <1>7, <1>9, SMTT(30) DEF Closure
<1>10. QED
  BY <1>8, <1>9

LEMMA DataArePaths ==
  ASSUME NEW c \in Leaves \cup Publications
  PROVE  Data(c) \in Paths
BY DEF Paths

LEMMA ConfigsArePaths ==
  ASSUME NEW c \in Publications
  PROVE  Config(c) \in Paths
BY DEF Paths

\* What was in a table is where it was.
Extends(larger, table) ==
  /\ Len(table) \in Nat /\ Len(larger) \in Nat /\ Len(table) <= Len(larger)
  /\ \A d \in 1 .. Len(table) : larger[d] = table[d]

\* A stamp counts the files there have been: as long as it stands, a path
\* has the file it had, or none.
Ages(before, stamps, after, stamps2) ==
  \A s \in Paths :
    /\ stamps[s] \in Nat /\ stamps2[s] \in Nat /\ stamps[s] <= stamps2[s]
    /\ stamps[s] = stamps2[s] => after[s] = before[s] \/ after[s] = Absent

\* Putting a content enters it in the table and gives the path a new stamp.
LEMMA PutEnters ==
  ASSUME FilesLieInTheTable, NEW path \in Paths, NEW content, Put(path, content)
  PROVE  /\ FilesLieInTheTable'
         /\ Extends(made', made)
         /\ \A d \in 1 .. Len(made') : d \in 1 .. Len(made) \/ made'[d] = content
         /\ disk'[path] \in 1 .. Len(made') /\ made'[disk'[path]] = content
         /\ \A s \in Paths \ {path} : disk'[s] = disk[s]
         /\ Ages(disk, stamp, disk', stamp')
<1>1. made \in Seq(ToSet(made)) /\ disk \in [Paths -> 0 .. Len(made)] /\ stamp \in [Paths -> Nat]
  BY DEF FilesLieInTheTable
<1>2. /\ made' = IF content \in ToSet(made) THEN made ELSE Append(made, content)
      /\ disk' = [disk EXCEPT ![path] = DigestOf(content, made')]
      /\ stamp' = [stamp EXCEPT ![path] = stamp[path] + 1]
  BY DEF Put
<1>3. /\ made' \in Seq(ToSet(made) \cup {content})
      /\ Len(made) \in Nat /\ Len(made') \in Nat /\ Len(made) <= Len(made')
      /\ \A d \in 1 .. Len(made) : made'[d] = made[d]
      /\ \A d \in 1 .. Len(made') : d \in 1 .. Len(made) \/ made'[d] = content
      /\ \E d \in 1 .. Len(made') : made'[d] = content
  <2>1. CASE content \in ToSet(made)
    BY <1>1, <1>2, <2>1 DEF ToSet
  <2>2. CASE content \notin ToSet(made)
    <3> DEFINE T == ToSet(made) \cup {content}
    <3>1. made \in Seq(T) /\ content \in T
      BY <1>1
    <3>2. made' = Append(made, content)
      BY <1>2, <2>2
    <3> HIDE DEF T
    <3>3. /\ Append(made, content) \in Seq(T)
          /\ Len(made) \in Nat /\ Len(Append(made, content)) = Len(made) + 1
          /\ \A d \in 1 .. Len(made) : Append(made, content)[d] = made[d]
          /\ Append(made, content)[Len(made) + 1] = content
      BY <3>1, AppendProperties
    <3>4. \A d \in 1 .. Len(made') : d \in 1 .. Len(made) \/ made'[d] = content
      BY <3>2, <3>3
    <3>5. \E d \in 1 .. Len(made') : made'[d] = content
      BY <3>2, <3>3
    <3>6. made' \in Seq(ToSet(made) \cup {content})
      BY <3>2, <3>3 DEF T
    <3>7. QED
      BY <3>2, <3>3, <3>4, <3>5, <3>6
  <2>3. QED
    BY <2>1, <2>2
<1>4. DigestOf(content, made') \in 1 .. Len(made') /\ made'[DigestOf(content, made')] = content
  BY <1>3 DEF DigestOf
<1>5. made' \in Seq(ToSet(made'))
  BY <1>3 DEF ToSet
<1>6. /\ disk' \in [Paths -> 0 .. Len(made')]
      /\ disk'[path] \in 1 .. Len(made') /\ made'[disk'[path]] = content
      /\ \A s \in Paths \ {path} : disk'[s] = disk[s]
  BY <1>1, <1>2, <1>3, <1>4
<1>7. /\ stamp' \in [Paths -> Nat]
      /\ stamp'[path] = stamp[path] + 1
      /\ \A s \in Paths \ {path} : stamp'[s] = stamp[s]
  BY <1>1, <1>2
<1>8. Ages(disk, stamp, disk', stamp')
  BY <1>1, <1>6, <1>7 DEF Ages
<1>9. FilesLieInTheTable'
  BY <1>5, <1>6, <1>7 DEF FilesLieInTheTable
<1>10. QED
  BY <1>3, <1>6, <1>8, <1>9 DEF Extends

-----------------------------------------------------------------------------
(* A command beside a change                                               *)

\* The command has ended, or is where it was.
Follows(r2, r) ==
  \/ r2 = Idle
  \/ /\ r # Idle /\ DOMAIN r2 = DOMAIN r
     /\ r2.cmd = r.cmd /\ r2.at = r.at /\ r2.config = r.config /\ r2.read = r.read
     /\ r2.first = r.first /\ r2.stood = r.stood /\ r2.seen = r.seen /\ r2.next = r.next

LEMMA MomentLasts ==
  ASSUME NEW r, NEW r2, NEW at, NEW at2, NEW stamps, NEW stamps2,
         IsInItsClosure(r), HasOneMoment(r, at, stamps), Follows(r2, r), r2 # Idle,
         Ages(at, stamps, at2, stamps2)
  PROVE  HasOneMoment(r2, at2, stamps2)
<1>1. /\ r2.cmd = r.cmd /\ r2.at = r.at /\ r2.next = r.next
      /\ r2.first = r.first /\ r2.stood = r.stood /\ r2.seen = r.seen
  BY DEF Follows
<1>2. DOMAIN r.first \subseteq Paths
  BY DEF IsInItsClosure
<1>3. ASSUME NEW s \in DOMAIN r.first
      PROVE  FirstIsPast(r2, s, at2, stamps2)
  <2>1. FirstIsPast(r, s, at, stamps)
    BY DEF HasOneMoment
  <2>2. QED
    BY <1>1, <1>2, <2>1 DEF FirstIsPast, Undisturbed, Ages
<1>4. ASSUME r.at # "start", NEW s \in DOMAIN r.first
      PROVE  StoodAsFound(r2, s, at2, stamps2)
  <2>1. FirstIsPast(r, s, at, stamps) /\ StoodAsFound(r, s, at, stamps)
    BY <1>4 DEF HasOneMoment
  <2>2. QED
    BY <1>1, <1>2, <2>1 DEF FirstIsPast, StoodAsFound, Undisturbed, Ages
<1>5. ASSUME NEW s \in DOMAIN r.seen
      PROVE  SeenAsFound(r2, s, stamps2)
  <2>1. SeenAsFound(r, s, stamps)
    BY DEF HasOneMoment
  <2>2. s \in DOMAIN r.first
    <3>1. PICK i \in 1 .. Len(Closure(r.cmd)) : s = Closure(r.cmd)[i]
      BY DEF IsInItsClosure
    <3>2. r.at # "start"
      BY DEF IsInItsClosure
    <3>3. QED
      BY <3>1, <3>2 DEF IsInItsClosure
  <2>3. FirstIsPast(r, s, at, stamps)
    BY <2>2 DEF HasOneMoment
  <2>4. QED
    BY <1>1, <1>2, <2>1, <2>2, <2>3 DEF FirstIsPast, SeenAsFound, Undisturbed, Ages
<1>6. \A i \in 1 .. Len(Closure(r2.cmd)) :
         Confirmed(r2, i) /\ Closure(r2.cmd)[i] \in DOMAIN r2.seen =>
           r2.seen[Closure(r2.cmd)[i]] = r2.stood[Closure(r2.cmd)[i]]
  BY <1>1 DEF HasOneMoment, Confirmed
<1>7. QED
  BY <1>1, <1>3, <1>4, <1>5, <1>6 DEF HasOneMoment

LEMMA OrderLasts ==
  ASSUME NEW r, NEW r2, NEW table, NEW table2, NEW at, NEW at2, NEW stamps, NEW stamps2,
         InOrder(r, table, at, stamps), Follows(r2, r), Extends(table2, table),
         Ages(at, stamps, at2, stamps2)
  PROVE  InOrder(r2, table2, at2, stamps2)
<1> SUFFICES ASSUME r2 # Idle
             PROVE  /\ IsCommand(r2, table2)
                    /\ ReadsOneParent(r2, table2)
                    /\ Closed(r2.cmd) => IsInItsClosure(r2) /\ HasOneMoment(r2, at2, stamps2)
  BY DEF InOrder
<1>1. r # Idle /\ DOMAIN r2 = DOMAIN r
  BY DEF Follows
<1>2. /\ r2.cmd = r.cmd /\ r2.at = r.at /\ r2.config = r.config /\ r2.read = r.read
      /\ r2.first = r.first /\ r2.stood = r.stood /\ r2.seen = r.seen /\ r2.next = r.next
  BY DEF Follows
<1>3. IsCommand(r, table) /\ ReadsOneParent(r, table)
  BY <1>1 DEF InOrder
<1>4. IsCommand(r2, table2)
  BY <1>1, <1>2, <1>3 DEF IsCommand, Extends
<1>5. ReadsOneParent(r2, table2)
  BY <1>1, <1>2, <1>3 DEF IsCommand, ReadsOneParent, Extends
<1>6. ASSUME Closed(r2.cmd)
      PROVE  IsInItsClosure(r2) /\ HasOneMoment(r2, at2, stamps2)
  <2>1. IsInItsClosure(r) /\ HasOneMoment(r, at, stamps)
    BY <1>1, <1>2, <1>6 DEF InOrder
  <2>2. IsInItsClosure(r2)
    BY <1>2, <2>1 DEF IsInItsClosure
  <2>3. QED
    BY <2>1, <2>2, MomentLasts
<1>7. QED
  BY <1>4, <1>5, <1>6

LEMMA OrderOfTheNextState ==
  ASSUME UNCHANGED kind, DOMAIN job' = Commands,
         \A q \in Commands : InOrder(job'[q], made', disk', stamp')
  PROVE  JobsAreInOrder'
BY DEF JobsAreInOrder, InOrder, ReadsOneParent, Closed

-----------------------------------------------------------------------------
(* What a step is made of                                                  *)

\* A step that touches no file leaves everything in order, if its command is.
LEMMA ReadsKeepOrder ==
  ASSUME IInv, UNCHANGED <<kind, made, disk, stamp>>, NEW p \in Commands,
         DOMAIN job' = Commands, \A q \in Commands \ {p} : job'[q] = job[q],
         InOrder(job'[p], made, disk, stamp)
  PROVE  IInv'
<1>1. UNCHANGED kind /\ UNCHANGED made /\ UNCHANGED disk /\ UNCHANGED stamp
  OBVIOUS
<1>2. FilesLieInTheTable'
  BY <1>1 DEF IInv, FilesLieInTheTable
<1>3. QuartersLieWhereTheyBelong'
  BY <1>1 DEF IInv, QuartersLieWhereTheyBelong
<1>4. QuartersNameTheirParentsIdentity'
  BY <1>1 DEF IInv, QuartersNameTheirParentsIdentity, NamesParentsIdentity
<1>5. \A q \in Commands : InOrder(job'[q], made, disk, stamp)
  BY DEF IInv, JobsAreInOrder
<1>6. JobsAreInOrder'
  BY <1>1, <1>5, OrderOfTheNextState
<1>7. QED
  BY <1>2, <1>3, <1>4, <1>6 DEF IInv

\* So does a step that puts a content where it belongs, and that disturbs
\* the commands beside it.
LEMMA WritesKeepOrder ==
  ASSUME IInv, UNCHANGED kind, NEW path \in Paths, NEW content, Put(path, content),
         path = Data("quarters") => content.kind = "quarters",
         NamesParentsIdentity(content, made),
         DOMAIN job' = Commands,
         \A q \in Commands : Follows(job'[q], job[q]) \/ InOrder(job'[q], made', disk', stamp')
  PROVE  IInv'
<1>1. /\ FilesLieInTheTable'
      /\ Extends(made', made)
      /\ \A d \in 1 .. Len(made') : d \in 1 .. Len(made) \/ made'[d] = content
      /\ disk'[path] \in 1 .. Len(made') /\ made'[disk'[path]] = content
      /\ \A s \in Paths \ {path} : disk'[s] = disk[s]
      /\ Ages(disk, stamp, disk', stamp')
  BY PutEnters DEF IInv
<1>2. QuartersLieWhereTheyBelong'
  <2>1. Data("quarters") \in Paths
    BY DataArePaths DEF Publications
  <2>2. CASE path = Data("quarters")
    BY <1>1, <2>2 DEF QuartersLieWhereTheyBelong
  <2>3. CASE path # Data("quarters")
    <3>1. disk'[Data("quarters")] = disk[Data("quarters")]
      BY <1>1, <2>1, <2>3
    <3>2. disk[Data("quarters")] \in 0 .. Len(made)
      BY <2>1 DEF IInv, FilesLieInTheTable
    <3>3. QED
      BY <1>1, <3>1, <3>2 DEF IInv, QuartersLieWhereTheyBelong, Extends, Absent
  <2>4. QED
    BY <2>2, <2>3
<1>3. QuartersNameTheirParentsIdentity'
  <2> SUFFICES ASSUME NEW d \in 1 .. Len(made')
               PROVE  NamesParentsIdentity(made'[d], made')
    BY DEF QuartersNameTheirParentsIdentity, NamesParentsIdentity
  <2>1. NamesParentsIdentity(made'[d], made)
    BY <1>1 DEF IInv, QuartersNameTheirParentsIdentity, Extends
  <2>2. QED
    BY <1>1, <2>1 DEF NamesParentsIdentity, Extends
<1>4. \A q \in Commands : InOrder(job'[q], made', disk', stamp')
  <2> SUFFICES ASSUME NEW q \in Commands, Follows(job'[q], job[q])
               PROVE  InOrder(job'[q], made', disk', stamp')
    OBVIOUS
  <2>1. InOrder(job[q], made, disk, stamp)
    BY DEF IInv, JobsAreInOrder
  <2>2. QED
    BY <1>1, <2>1, OrderLasts
<1>5. JobsAreInOrder'
  BY <1>4, OrderOfTheNextState
<1>6. QED
  BY <1>1, <1>2, <1>3, <1>5 DEF IInv

LEMMA DisturbedFollow ==
  ASSUME JobsAreInOrder, NEW p
  PROVE  DOMAIN Disturb(p) = Commands /\ \A q \in Commands : Follows(Disturb(p)[q], job[q])
<1> SUFFICES ASSUME NEW q \in Commands
             PROVE  Follows(Disturb(p)[q], job[q])
  BY DEF Disturb
<1>1. job[q] # Idle => DOMAIN job[q] = JobFields
  BY DEF JobsAreInOrder, InOrder, IsCommand
<1>2. Disturb(p)[q] = IF q = p \/ job[q] = Idle THEN job[q] ELSE [job[q] EXCEPT !.quiet = FALSE]
  BY DEF Disturb
<1>3. QED
  BY <1>1, <1>2 DEF Follows, JobFields

\* What the operator does is one put, or one file that is moved away.
LEMMA OperatorsPutKeepsOrder ==
  ASSUME IInv, UNCHANGED kind, NEW path \in Paths, NEW content, Put(path, content),
         path # Data("quarters"), content.kind # "quarters", job' = Disturb(None)
  PROVE  IInv'
<1>1. DOMAIN job' = Commands /\ \A q \in Commands : Follows(job'[q], job[q])
  BY DisturbedFollow DEF IInv
<1>2. NamesParentsIdentity(content, made)
  BY DEF NamesParentsIdentity
<1>3. QED
  BY <1>1, <1>2, WritesKeepOrder

LEMMA PublishingKeepsOrder ==
  ASSUME IInv, NEW p \in Commands, job[p] # Idle, NEW content, Publishes(p, content),
         content.kind = job[p].cmd, NamesParentsIdentity(content, made)
  PROVE  IInv'
<1>1. job[p].cmd \in Publications
  BY DEF IInv, JobsAreInOrder, InOrder, IsCommand
<1>2. Data(job[p].cmd) \in Paths
  BY <1>1, DataArePaths
<1>3. Data(job[p].cmd) = Data("quarters") => content.kind = "quarters"
  BY DEF Data
<1>4. DOMAIN Disturb(p) = Commands /\ \A q \in Commands : Follows(Disturb(p)[q], job[q])
  BY DisturbedFollow DEF IInv
<1>5. Put(Data(job[p].cmd), content) /\ UNCHANGED kind /\ job' = [Disturb(p) EXCEPT ![p] = Idle]
  BY DEF Publishes
<1>6. DOMAIN job' = Commands /\ \A q \in Commands : Follows(job'[q], job[q])
  BY <1>4, <1>5 DEF Follows
<1>7. QED
  BY <1>2, <1>3, <1>5, <1>6, WritesKeepOrder

LEMMA GoesOn ==
  ASSUME IInv, NEW p \in Commands, job[p] # Idle, NEW step, NEW read, Goes(p, step, read)
  PROVE  /\ UNCHANGED <<kind, made, disk, stamp>>
         /\ DOMAIN job' = Commands /\ \A q \in Commands \ {p} : job'[q] = job[q]
         /\ DOMAIN job'[p] = JobFields
         /\ job'[p].at = step /\ job'[p].read = read
         /\ job'[p].cmd = job[p].cmd /\ job'[p].config = job[p].config /\ job'[p].next = job[p].next
         /\ job'[p].first = job[p].first /\ job'[p].stood = job[p].stood /\ job'[p].seen = job[p].seen
         /\ job'[p].quiet = job[p].quiet
<1>1. DOMAIN job[p] = JobFields /\ DOMAIN job = Commands
  BY DEF IInv, JobsAreInOrder, InOrder, IsCommand
<1>2. job' = [job EXCEPT ![p] = [job[p] EXCEPT !.at = step, !.read = read]]
  BY DEF Goes
<1>3. job'[p] = [job[p] EXCEPT !.at = step, !.read = read]
  BY <1>1, <1>2
<1>4. DOMAIN job' = Commands /\ \A q \in Commands \ {p} : job'[q] = job[q]
  BY <1>1, <1>2
<1>5. UNCHANGED <<kind, made, disk, stamp>>
  BY DEF Goes
<1>6. QED
  BY <1>1, <1>3, <1>4, <1>5 DEF JobFields

\* Only the quarterly metrics and the closure remember what matters here.
LEMMA GoingOnKeepsOrder ==
  ASSUME IInv, NEW p \in Commands, job[p] # Idle, NEW step, NEW read, Goes(p, step, read),
         job[p].cmd # "quarters", ~Closed(job[p].cmd)
  PROVE  IInv'
<1>1. IsCommand(job[p], made)
  BY DEF IInv, JobsAreInOrder, InOrder
<1>2. /\ UNCHANGED <<kind, made, disk, stamp>>
      /\ DOMAIN job' = Commands /\ \A q \in Commands \ {p} : job'[q] = job[q]
      /\ DOMAIN job'[p] = JobFields
      /\ job'[p].cmd = job[p].cmd /\ job'[p].config = job[p].config
  BY GoesOn
<1>3. InOrder(job'[p], made, disk, stamp)
  BY <1>1, <1>2 DEF InOrder, IsCommand, ReadsOneParent
<1>4. QED
  BY <1>2, <1>3, ReadsKeepOrder

-----------------------------------------------------------------------------
(* The operator's steps                                                    *)

LEMMA OperatorKeepsOrder ==
  ASSUME IInv, Operator
  PROVE  IInv'
<1>1. CASE PublishMetadata
  <2>1. Data("metadata") \in Paths /\ Data("metadata") # Data("quarters")
    BY DataArePaths DEF Leaves, Data
  <2>2. Leaf("metadata", 1, stamp[Data("metadata")]).kind # "quarters"
    BY DEF Leaf
  <2>3. /\ Put(Data("metadata"), Leaf("metadata", 1, stamp[Data("metadata")]))
        /\ job' = Disturb(None) /\ UNCHANGED kind
    BY <1>1 DEF PublishMetadata
  <2>4. QED
    BY <2>1, <2>2, <2>3, OperatorsPutKeepsOrder
<1>2. ASSUME NEW l \in {"annual", "quarterly"}, Prepare(l)
      PROVE  IInv'
  <2>1. PICK version \in {1, 2} : Put(Data(l), Leaf(l, version, 0))
    BY <1>2 DEF Prepare
  <2>2. Data(l) \in Paths /\ Data(l) # Data("quarters")
    BY DataArePaths DEF Leaves, Data
  <2>3. Leaf(l, version, 0).kind # "quarters"
    BY DEF Leaf
  <2>4. job' = Disturb(None) /\ UNCHANGED kind
    BY <1>2 DEF Prepare, Edit
  <2>5. QED
    BY <2>1, <2>2, <2>3, <2>4, OperatorsPutKeepsOrder
<1>3. ASSUME NEW c \in budget.movable, MoveAway(Data(c))
      PROVE  IInv'
  <2>1. /\ UNCHANGED kind /\ UNCHANGED made /\ UNCHANGED stamp
        /\ disk' = [disk EXCEPT ![Data(c)] = Absent] /\ job' = Disturb(None)
    BY <1>3 DEF MoveAway, Edit
  <2>2. made \in Seq(ToSet(made)) /\ disk \in [Paths -> 0 .. Len(made)] /\ stamp \in [Paths -> Nat]
    BY DEF IInv, FilesLieInTheTable
  <2>3. Len(made) \in Nat
    BY <2>2
  <2>4. disk' \in [Paths -> 0 .. Len(made)] /\ \A s \in Paths : disk'[s] = disk[s] \/ disk'[s] = Absent
    <3> DEFINE away == Data(c)
    <3>1. disk' = [disk EXCEPT ![away] = 0]
      BY <2>1 DEF Absent
    <3> HIDE DEF away
    <3>2. \A s \in Paths : disk'[s] = IF s = away THEN 0 ELSE disk[s]
      BY <2>2, <3>1
    <3>3. 0 \in 0 .. Len(made)
      BY <2>3
    <3>4. \A s \in Paths : disk'[s] \in 0 .. Len(made)
      BY <2>2, <3>2, <3>3
    <3>5. disk' = [s \in Paths |-> disk'[s]]
      BY <2>2, <3>1
    <3>6. QED
      BY <3>2, <3>4, <3>5 DEF Absent
  <2>5. FilesLieInTheTable'
    BY <2>1, <2>2, <2>4 DEF FilesLieInTheTable
  <2>6. QuartersLieWhereTheyBelong'
    <3>1. Data("quarters") \in Paths
      BY DataArePaths DEF Publications
    <3>2. QED
      BY <2>1, <2>4, <3>1 DEF IInv, QuartersLieWhereTheyBelong
  <2>7. QuartersNameTheirParentsIdentity'
    BY <2>1 DEF IInv, QuartersNameTheirParentsIdentity, NamesParentsIdentity
  <2>8. Ages(disk, stamp, disk', stamp') /\ Extends(made', made)
    BY <2>1, <2>2, <2>3, <2>4 DEF Ages, Extends
  <2>9. DOMAIN job' = Commands /\ \A q \in Commands : Follows(job'[q], job[q])
    BY <2>1, DisturbedFollow DEF IInv
  <2>10. ASSUME NEW q \in Commands
         PROVE  InOrder(job'[q], made', disk', stamp')
    <3>1. InOrder(job[q], made, disk, stamp)
      BY DEF IInv, JobsAreInOrder
    <3>2. QED
      BY <2>8, <2>9, <3>1, OrderLasts
  <2>11. JobsAreInOrder'
    BY <2>1, <2>9, <2>10, OrderOfTheNextState
  <2>12. QED
    BY <2>5, <2>6, <2>7, <2>11 DEF IInv
<1>4. ASSUME NEW c \in Publications, Configure(c) \/ Reconfigure(c)
      PROVE  IInv'
  <2>1. Config(c) \in Paths /\ Config(c) # Data("quarters")
    BY ConfigsArePaths DEF Data, Config
  <2>2. Pins(c).kind # "quarters"
    BY DEF Pins, Publications
  <2>3. Put(Config(c), Pins(c)) /\ job' = Disturb(None) /\ UNCHANGED kind
    BY <1>4 DEF Configure, Reconfigure, Edit
  <2>4. QED
    BY <2>1, <2>2, <2>3, OperatorsPutKeepsOrder
<1>5. QED
  BY <1>1, <1>2, <1>3, <1>4 DEF Operator

-----------------------------------------------------------------------------
(* Commands start, stop, and go on                                         *)

LEMMA StartKeepsOrder ==
  ASSUME IInv, NEW p \in Commands, NEW c \in Publications, Start(p, c)
  PROVE  IInv'
<1> DEFINE new == [cmd |-> c, at |-> "start", config |-> disk[Config(c)], read |-> <<>>,
                   first |-> <<>>, stood |-> <<>>, seen |-> <<>>, next |-> 1, quiet |-> TRUE]
<1>1. /\ job' = [job EXCEPT ![p] = new] /\ UNCHANGED <<kind, made, disk, stamp>>
      /\ disk[Config(c)] # Absent
  BY DEF Start
<1>2. DOMAIN job = Commands
  BY DEF IInv, JobsAreInOrder
<1>3. job'[p] = new /\ DOMAIN job' = Commands /\ \A q \in Commands \ {p} : job'[q] = job[q]
  BY <1>1, <1>2
<1>4. disk[Config(c)] \in 1 .. Len(made)
  <2>1. Config(c) \in Paths
    BY ConfigsArePaths
  <2>2. disk[Config(c)] \in 0 .. Len(made) /\ Len(made) \in Nat
    BY <2>1 DEF IInv, FilesLieInTheTable
  <2>3. QED
    BY <1>1, <2>2 DEF Absent
<1>5. IsCommand(new, made)
  BY <1>4 DEF IsCommand, JobFields
<1>6. ReadsOneParent(new, made)
  BY DEF ReadsOneParent
<1>7. IsInItsClosure(new)
  <2>1. Len(Closure(c)) \in Nat \ {0}
    BY ClosureIsOfPaths
  <2>2. DOMAIN new.first = {} /\ DOMAIN new.seen = {}
    OBVIOUS
  <2>3. new.at = "start" /\ new.next = 1 /\ new.cmd = c
    OBVIOUS
  <2> HIDE DEF new
  <2>4. QED
    BY <2>1, <2>2, <2>3 DEF IsInItsClosure, Steps
<1>8. HasOneMoment(new, disk, stamp)
  <2>1. DOMAIN new.first = {} /\ DOMAIN new.seen = {} /\ new.at = "start"
    OBVIOUS
  <2> HIDE DEF new
  <2>2. QED
    BY <2>1 DEF HasOneMoment, Confirmed
<1> HIDE DEF new
<1>9. InOrder(new, made, disk, stamp)
  BY <1>5, <1>6, <1>7, <1>8 DEF InOrder
<1>10. QED
  BY <1>1, <1>3, <1>9, ReadsKeepOrder

LEMMA StopKeepsOrder ==
  ASSUME IInv, NEW p \in Commands, Stop(p)
  PROVE  IInv'
<1>1. DOMAIN job = Commands
  BY DEF IInv, JobsAreInOrder
<1>2. /\ DOMAIN job' = Commands /\ job'[p] = Idle /\ \A q \in Commands \ {p} : job'[q] = job[q]
      /\ UNCHANGED <<kind, made, disk, stamp>>
  BY <1>1 DEF Stop
<1>3. InOrder(job'[p], made, disk, stamp)
  BY <1>2 DEF InOrder
<1>4. QED
  BY <1>2, <1>3, ReadsKeepOrder

\* The steps of dataset v1, annual metrics, dataset v2 and the v3 over v1
\* that read.
LEMMA PlainReadsKeepOrder ==
  ASSUME IInv, NEW p \in Commands,
         \/ ReadMetadata(p) \/ ReadAnalysis(p) \/ DigestAnalysis(p)
         \/ OpenIdentity(p) \/ PinAnalysis(p) \/ ReadRows(p)
         \/ OpenSource(p) \/ OpenMetrics(p) \/ ReadIdentityRows(p) \/ OpenParents(p)
  PROVE  IInv'
<1>1. \A c : Closed(c) => kind = "GENERIC" /\ c \in {"identity", "v3"}
  BY DEF Closed
<1>2. job[p] # Idle /\ Closed(job[p].cmd) => job[p].at \in Steps
  BY DEF IInv, JobsAreInOrder, InOrder, IsInItsClosure
<1>3. ASSUME NEW c, NEW step, At(p, c, step), c # "quarters", ~Closed(c),
             NEW next, NEW read, Goes(p, next, read)
      PROVE  IInv'
  BY <1>3, GoingOnKeepsOrder DEF At
<1>4. CASE ReadMetadata(p)
  BY <1>1, <1>3, <1>4 DEF ReadMetadata
<1>5. CASE ReadAnalysis(p)
  BY <1>2, <1>3, <1>5 DEF ReadAnalysis, At, Steps
<1>6. CASE DigestAnalysis(p)
  BY <1>2, <1>3, <1>6 DEF DigestAnalysis, At, Steps
<1>7. CASE OpenIdentity(p)
  BY <1>1, <1>3, <1>7 DEF OpenIdentity
<1>8. CASE PinAnalysis(p)
  BY <1>1, <1>3, <1>8 DEF PinAnalysis
<1>9. CASE ReadRows(p)
  BY <1>1, <1>3, <1>9 DEF ReadRows
<1>10. CASE OpenSource(p)
  BY <1>1, <1>3, <1>10 DEF OpenSource
<1>11. CASE OpenMetrics(p)
  BY <1>1, <1>3, <1>11 DEF OpenMetrics
<1>12. CASE ReadIdentityRows(p)
  BY <1>1, <1>3, <1>12 DEF ReadIdentityRows
<1>13. CASE OpenParents(p)
  BY <1>1, <1>3, <1>13 DEF OpenParents
<1>14. QED
  BY <1>4, <1>5, <1>6, <1>7, <1>8, <1>9, <1>10, <1>11, <1>12, <1>13

-----------------------------------------------------------------------------
(* Publications other than the quarterly metrics                           *)

LEMMA OtherPublicationsKeepOrder ==
  ASSUME IInv, NEW p \in Commands,
         PublishV1(p) \/ PublishMetrics(p) \/ PublishV2(p) \/ PublishClosed(p)
  PROVE  IInv'
<1>1. ASSUME NEW content, Publishes(p, content), job[p] # Idle,
             content.kind = job[p].cmd, job[p].cmd # "quarters"
      PROVE  IInv'
  BY <1>1, PublishingKeepsOrder DEF NamesParentsIdentity
<1>2. CASE PublishV1(p)
  BY <1>1, <1>2 DEF PublishV1, At
<1>3. CASE PublishMetrics(p)
  BY <1>1, <1>3 DEF PublishMetrics, At
<1>4. CASE PublishV2(p)
  BY <1>1, <1>4 DEF PublishV2, At
<1>5. CASE PublishClosed(p)
  <2>1. job[p] # Idle /\ job[p].cmd \in {"identity", "v3"} /\ Publishes(p, Manifest(p))
    BY <1>5 DEF PublishClosed, Reading, Closed
  <2>2. Manifest(p).kind = job[p].cmd
    BY <2>1 DEF Manifest
  <2>3. QED
    BY <1>1, <2>1, <2>2
<1>6. QED
  BY <1>2, <1>3, <1>4, <1>5

\* The v3 over a legacy identity is made in place, and has no closure.
LEMMA InPlaceKeepsOrder ==
  ASSUME IInv, NEW p \in Commands, MakeDirectory(p) \/ WriteV3(p)
  PROVE  IInv'
<1>1. Data("v3") \in Paths /\ Data("v3") # Data("quarters")
  BY DataArePaths DEF Publications, Data
<1>2. DOMAIN Disturb(p) = Commands /\ \A q \in Commands : Follows(Disturb(p)[q], job[q])
  BY DisturbedFollow DEF IInv
<1>3. CASE MakeDirectory(p)
  <2>1. /\ kind = "LEGACY" /\ UNCHANGED kind /\ job[p] # Idle /\ job[p].cmd = "v3"
        /\ Put(Data("v3"), [kind |-> "torn"])
        /\ job' = [Disturb(p) EXCEPT ![p] = [Disturb(p)[p] EXCEPT !.at = "directory"]]
    BY <1>3 DEF MakeDirectory, At
  <2>2. Disturb(p)[p] = job[p]
    BY DEF Disturb
  <2>3. IsCommand(job[p], made)
    BY <2>1 DEF IInv, JobsAreInOrder, InOrder
  <2>4. DOMAIN job' = Commands /\ \A q \in Commands \ {p} : job'[q] = Disturb(p)[q]
    BY <1>2, <2>1
  <2>5. job'[p] = [job[p] EXCEPT !.at = "directory"]
    BY <1>2, <2>1, <2>2
  <2>6. /\ DOMAIN job'[p] = JobFields /\ job'[p].cmd = "v3"
        /\ job'[p].config = job[p].config
    BY <2>1, <2>3, <2>5 DEF IsCommand, JobFields
  <2>7. Extends(made', made)
    BY <1>1, <2>1, PutEnters DEF IInv
  <2>8. InOrder(job'[p], made', disk', stamp')
    BY <2>1, <2>3, <2>6, <2>7 DEF InOrder, IsCommand, ReadsOneParent, Closed, Extends
  <2>9. NamesParentsIdentity([kind |-> "torn"], made)
    BY DEF NamesParentsIdentity
  <2>10. \A q \in Commands : Follows(job'[q], job[q]) \/ InOrder(job'[q], made', disk', stamp')
    BY <1>2, <2>4, <2>8
  <2>11. QED
    BY <1>1, <2>1, <2>4, <2>9, <2>10, WritesKeepOrder
<1>4. CASE WriteV3(p)
  <2> DEFINE v3 == [kind |-> "v3", config |-> job[p].config, config_sha |-> job[p].read.config_sha,
                    v2 |-> made[job[p].config].v2, annual |-> job[p].read.annual,
                    quarters |-> made[job[p].config].quarters]
  <2>1. Put(Data("v3"), v3) /\ UNCHANGED kind /\ job' = [Disturb(p) EXCEPT ![p] = Idle]
    BY <1>4 DEF WriteV3
  <2>2. NamesParentsIdentity(v3, made)
    BY DEF NamesParentsIdentity
  <2> HIDE DEF v3
  <2>3. DOMAIN job' = Commands /\ \A q \in Commands : Follows(job'[q], job[q])
    BY <1>2, <2>1 DEF Follows
  <2>4. QED
    BY <1>1, <2>1, <2>2, <2>3, WritesKeepOrder
<1>5. QED
  BY <1>3, <1>4

-----------------------------------------------------------------------------
(* The quarterly metrics                                                   *)

\* The annual metrics are opened while the config pins them, their identity
\* while they name it.
LEMMA QuarterlyReadsKeepOrder ==
  ASSUME IInv, NEW p \in Commands, OpenAnnual(p) \/ OpenParentIdentity(p) \/ ReadQuarters(p)
  PROVE  IInv'
<1>1. ~Closed("quarters")
  BY DEF Closed
<1>2. job[p] # Idle /\ job[p].cmd = "quarters"
  BY DEF OpenAnnual, OpenParentIdentity, ReadQuarters, At
<1>3. IsCommand(job[p], made) /\ ReadsOneParent(job[p], made)
  BY <1>2 DEF IInv, JobsAreInOrder, InOrder
<1>4. ASSUME NEW step, NEW read, Goes(p, step, read),
             read.metrics \in 1 .. Len(made), read.metrics = made[job[p].config].metrics,
             step \in {"identity", "stage"} /\ kind = "GENERIC" => read.identity = made[read.metrics].identity
      PROVE  IInv'
  <2>1. /\ UNCHANGED <<kind, made, disk, stamp>>
        /\ DOMAIN job' = Commands /\ \A q \in Commands \ {p} : job'[q] = job[q]
        /\ DOMAIN job'[p] = JobFields
        /\ job'[p].at = step /\ job'[p].read = read
        /\ job'[p].cmd = "quarters" /\ job'[p].config = job[p].config
    BY <1>2, <1>4, GoesOn
  <2>2. IsCommand(job'[p], made)
    BY <1>2, <1>3, <2>1 DEF IsCommand
  <2>3. ReadsOneParent(job'[p], made)
    BY <1>4, <2>1 DEF ReadsOneParent
  <2>4. InOrder(job'[p], made, disk, stamp)
    BY <1>1, <2>1, <2>2, <2>3 DEF InOrder
  <2>5. QED
    BY <2>1, <2>4, ReadsKeepOrder
<1>5. CASE OpenAnnual(p)
  <2> DEFINE metrics == disk[Data("metrics")]
  <2>1. metrics # Absent /\ metrics = made[job[p].config].metrics
    BY <1>5 DEF OpenAnnual
  <2>2. metrics \in 1 .. Len(made)
    <3>1. Data("metrics") \in Paths
      BY DataArePaths DEF Publications
    <3>2. metrics \in 0 .. Len(made) /\ Len(made) \in Nat
      BY <3>1 DEF IInv, FilesLieInTheTable
    <3>3. QED
      BY <2>1, <3>2 DEF Absent
  <2>3. IF kind = "GENERIC" THEN Goes(p, "annual", [metrics |-> metrics])
                            ELSE Goes(p, "identity", [metrics |-> metrics, identity |-> Absent])
    BY <1>5 DEF OpenAnnual
  <2> HIDE DEF metrics
  <2>4. CASE kind = "GENERIC"
    BY <1>4, <2>1, <2>2, <2>3, <2>4
  <2>5. CASE kind # "GENERIC"
    BY <1>4, <2>1, <2>2, <2>3, <2>5
  <2>6. QED
    BY <2>4, <2>5
<1>6. CASE OpenParentIdentity(p)
  <2>1. job[p].at = "annual"
    BY <1>6 DEF OpenParentIdentity, At
  <2>2. /\ disk[Data("identity")] = made[job[p].read.metrics].identity
        /\ Goes(p, "identity", [metrics |-> job[p].read.metrics, identity |-> disk[Data("identity")]])
    BY <1>6 DEF OpenParentIdentity
  <2>3. job[p].read.metrics \in 1 .. Len(made) /\ job[p].read.metrics = made[job[p].config].metrics
    BY <1>2, <1>3, <2>1 DEF ReadsOneParent
  <2>4. QED
    BY <1>4, <2>2, <2>3
<1>7. CASE ReadQuarters(p)
  <2>1. job[p].at = "identity"
    BY <1>7 DEF ReadQuarters, At
  <2>2. Goes(p, "stage", [metrics |-> job[p].read.metrics, identity |-> job[p].read.identity,
                          rows |-> disk[Data("quarterly")]])
    BY <1>7 DEF ReadQuarters
  <2>3. /\ job[p].read.metrics \in 1 .. Len(made) /\ job[p].read.metrics = made[job[p].config].metrics
        /\ kind = "GENERIC" => job[p].read.identity = made[job[p].read.metrics].identity
    BY <1>2, <1>3, <2>1 DEF ReadsOneParent
  <2>4. QED
    BY <1>4, <2>2, <2>3
<1>8. QED
  BY <1>5, <1>6, <1>7

LEMMA PublishQuartersKeepsOrder ==
  ASSUME IInv, NEW p \in Commands, PublishQuarters(p)
  PROVE  IInv'
<1> DEFINE read == job[p].read
           quarters ==
             [kind |-> "quarters", config |-> job[p].config, config_sha |-> disk[Config("quarters")],
              rows |-> read.rows, annual |-> MetricsId(read.metrics),
              annual_sha |-> made[job[p].config].metrics,
              identity |-> read.identity,
              identity_sha |-> IF read.identity # Absent THEN disk[Data("identity")] ELSE Absent,
              at |-> stamp[Data("quarters")]]
<1>1. job[p] # Idle /\ job[p].cmd = "quarters" /\ job[p].at = "stage" /\ Publishes(p, quarters)
  BY DEF PublishQuarters, At
<1>2. ReadsOneParent(job[p], made)
  BY <1>1 DEF IInv, JobsAreInOrder, InOrder
<1>3. NamesParentsIdentity(quarters, made)
  BY <1>1, <1>2 DEF NamesParentsIdentity, ReadsOneParent
<1>4. quarters.kind = job[p].cmd
  BY <1>1
<1> HIDE DEF quarters
<1>5. QED
  BY <1>1, <1>3, <1>4, PublishingKeepsOrder

-----------------------------------------------------------------------------
(* The closure                                                             *)

\* What a step of the closure must do for its own command.
LEMMA ClosureStep ==
  ASSUME IInv, NEW p \in Commands, Reading(p),
         UNCHANGED <<kind, made, disk, stamp>>,
         DOMAIN job' = Commands, \A q \in Commands \ {p} : job'[q] = job[q],
         DOMAIN job'[p] = JobFields, job'[p].cmd = job[p].cmd, job'[p].config = job[p].config,
         IsInItsClosure(job'[p]), HasOneMoment(job'[p], disk, stamp)
  PROVE  IInv'
<1>1. job[p] # Idle /\ Closed(job[p].cmd)
  BY DEF Reading
<1>2. IsCommand(job[p], made)
  BY <1>1 DEF IInv, JobsAreInOrder, InOrder
<1>3. IsCommand(job'[p], made)
  BY <1>2 DEF IsCommand
<1>4. ReadsOneParent(job'[p], made)
  BY <1>1 DEF ReadsOneParent, Closed
<1>5. InOrder(job'[p], made, disk, stamp)
  BY <1>3, <1>4 DEF InOrder
<1>6. QED
  BY <1>5, ReadsKeepOrder

LEMMA IsInOrderInItsClosure ==
  ASSUME IInv, NEW p \in Commands, Reading(p)
  PROVE  /\ job[p] # Idle /\ IsCommand(job[p], made)
         /\ IsInItsClosure(job[p]) /\ HasOneMoment(job[p], disk, stamp)
BY DEF IInv, JobsAreInOrder, InOrder, Reading

\* Between two passes nothing is read.
LEMMA BetweenPassesKeepsOrder ==
  ASSUME IInv, NEW p \in Commands, Check(p) \/ Stage(p) \/ CheckStaged(p)
  PROVE  IInv'
<1>1. Reading(p)
  BY DEF Check, Stage, CheckStaged
<1>2. /\ job[p] # Idle /\ IsInItsClosure(job[p]) /\ HasOneMoment(job[p], disk, stamp)
  BY <1>1, IsInOrderInItsClosure
<1>3. PICK step, read :
        /\ Goes(p, step, read)
        /\ \/ job[p].at = "check" /\ step = "post"
           \/ job[p].at = "stage" /\ step = "staged"
           \/ job[p].at = "staged" /\ step = "final"
  BY DEF Check, Stage, CheckStaged
<1>4. /\ UNCHANGED <<kind, made, disk, stamp>>
      /\ DOMAIN job' = Commands /\ \A q \in Commands \ {p} : job'[q] = job[q]
      /\ DOMAIN job'[p] = JobFields
      /\ job'[p].at = step
      /\ job'[p].cmd = job[p].cmd /\ job'[p].config = job[p].config /\ job'[p].next = job[p].next
      /\ job'[p].first = job[p].first /\ job'[p].stood = job[p].stood /\ job'[p].seen = job[p].seen
  BY <1>2, <1>3, GoesOn
<1>5. job[p].next = 1
  BY <1>2, <1>3 DEF IsInItsClosure
<1>6. IsInItsClosure(job'[p])
  BY <1>2, <1>3, <1>4, <1>5 DEF IsInItsClosure, Steps
<1>7. HasOneMoment(job'[p], disk, stamp)
  <2>1. \A s \in DOMAIN job'[p].first : FirstIsPast(job'[p], s, disk, stamp)
    BY <1>2, <1>4 DEF HasOneMoment, FirstIsPast, Undisturbed
  <2>2. \A s \in DOMAIN job'[p].first : StoodAsFound(job'[p], s, disk, stamp)
    BY <1>2, <1>3, <1>4 DEF HasOneMoment, StoodAsFound, Undisturbed
  <2>3. \A s \in DOMAIN job'[p].seen : SeenAsFound(job'[p], s, stamp)
    BY <1>2, <1>4 DEF HasOneMoment, SeenAsFound, Undisturbed
  <2>4. \A i \in 1 .. Len(Closure(job'[p].cmd)) : ~Confirmed(job'[p], i)
    BY <1>3, <1>4, <1>5, ClosureIsOfPaths DEF Confirmed
  <2>5. QED
    BY <2>1, <2>2, <2>3, <2>4 DEF HasOneMoment
<1>8. QED
  BY <1>1, <1>4, <1>6, <1>7, ClosureStep

\* What a pass did to its command, when it found a file.
LEMMA ScansAndVerifiesGoOn ==
  ASSUME IInv, NEW p \in Commands, Scan(p) \/ Verify(p)
  PROVE  /\ UNCHANGED <<kind, made, disk, stamp>>
         /\ DOMAIN job' = Commands /\ \A q \in Commands \ {p} : job'[q] = job[q]
         /\ DOMAIN job'[p] = JobFields
         /\ job'[p].cmd = job[p].cmd /\ job'[p].config = job[p].config
         /\ job'[p].read = job[p].read /\ job'[p].quiet = job[p].quiet
         /\ job'[p].next = IF LastFile(p) THEN 1 ELSE job[p].next + 1
<1>1. Reading(p)
  BY DEF Scan, Verify
<1>2. DOMAIN job = Commands /\ DOMAIN job[p] = JobFields
  BY <1>1, IsInOrderInItsClosure DEF IInv, JobsAreInOrder, IsCommand
<1>3. CASE Scan(p)
  BY <1>2, <1>3 DEF Scan, JobFields
<1>4. CASE Verify(p)
  BY <1>2, <1>4 DEF Verify, JobFields
<1>5. QED
  BY <1>3, <1>4

LEMMA ScanReads ==
  ASSUME IInv, NEW p \in Commands, Scan(p)
  PROVE  /\ job'[p].at = IF LastFile(p) THEN After[job[p].at] ELSE job[p].at
         /\ job'[p].seen = job[p].seen
         /\ job'[p].first = IF job[p].at = "start"
              THEN [s \in DOMAIN job[p].first \cup {Path(p)} |-> IF s = Path(p) THEN File(Path(p)) ELSE job[p].first[s]]
              ELSE job[p].first
         /\ job'[p].stood = IF LastFile(p) /\ job[p].at = "start" THEN [s \in Paths |-> disk[s]] ELSE job[p].stood
<1>1. DOMAIN job = Commands /\ DOMAIN job[p] = JobFields
  BY IsInOrderInItsClosure DEF IInv, JobsAreInOrder, IsCommand, Scan
<1>2. QED
  BY <1>1 DEF Scan, JobFields

LEMMA VerifyReads ==
  ASSUME IInv, NEW p \in Commands, Verify(p)
  PROVE  /\ job'[p].at = IF LastFile(p) THEN "check" ELSE "verify"
         /\ job'[p].first = job[p].first /\ job'[p].stood = job[p].stood
         /\ job'[p].seen = [s \in DOMAIN job[p].seen \cup {Path(p)} |-> IF s = Path(p) THEN disk[Path(p)] ELSE job[p].seen[s]]
<1>1. DOMAIN job = Commands /\ DOMAIN job[p] = JobFields
  BY IsInOrderInItsClosure DEF IInv, JobsAreInOrder, IsCommand, Verify
<1>2. QED
  BY <1>1 DEF Verify, JobFields

LEMMA PathIsInTheClosure ==
  ASSUME IInv, NEW p \in Commands, Reading(p)
  PROVE  /\ Path(p) \in Paths /\ Path(p) = Closure(job[p].cmd)[job[p].next]
         /\ Len(Closure(job[p].cmd)) \in Nat \ {0} /\ job[p].next \in 1 .. Len(Closure(job[p].cmd))
         /\ LastFile(p) <=> job[p].next = Len(Closure(job[p].cmd))
         /\ disk[Path(p)] \in Nat /\ stamp[Path(p)] \in Nat
<1>1. Closure(job[p].cmd) \in Seq(Paths) /\ Len(Closure(job[p].cmd)) \in Nat \ {0}
  BY ClosureIsOfPaths
<1>2. job[p].next \in 1 .. Len(Closure(job[p].cmd))
  BY IsInOrderInItsClosure DEF IsInItsClosure
<1>3. Path(p) = Closure(job[p].cmd)[job[p].next]
  BY DEF Path
<1>4. Path(p) \in Paths
  BY <1>1, <1>2, <1>3
<1>5. disk \in [Paths -> 0 .. Len(made)] /\ stamp \in [Paths -> Nat]
  BY DEF IInv, FilesLieInTheTable
<1>6. disk[Path(p)] \in Nat /\ stamp[Path(p)] \in Nat
  BY <1>4, <1>5
<1>7. QED
  BY <1>1, <1>2, <1>3, <1>4, <1>6 DEF LastFile

\* The first pass notes what it finds, and how everything stood at its end.
LEMMA FirstPassKeepsOrder ==
  ASSUME IInv, NEW p \in Commands, Scan(p), job[p].at = "start"
  PROVE  IInv'
<1> DEFINE r == job[p]
           r2 == job'[p]
           last == job[p].next = Len(Closure(job[p].cmd))
<1>1. Reading(p) /\ disk[Path(p)] # Absent
  BY DEF Scan
<1>2. IsInItsClosure(r) /\ HasOneMoment(r, disk, stamp)
  BY <1>1, IsInOrderInItsClosure
<1>3. /\ Path(p) \in Paths /\ Path(p) = Closure(r.cmd)[r.next]
      /\ Len(Closure(r.cmd)) \in Nat \ {0} /\ r.next \in 1 .. Len(Closure(r.cmd))
      /\ LastFile(p) <=> last
      /\ disk[Path(p)] \in Nat /\ stamp[Path(p)] \in Nat
  BY <1>1, PathIsInTheClosure
<1>4. /\ UNCHANGED <<kind, made, disk, stamp>>
      /\ DOMAIN job' = Commands /\ \A q \in Commands \ {p} : job'[q] = job[q]
      /\ DOMAIN r2 = JobFields /\ r2.cmd = r.cmd /\ r2.config = r.config
      /\ r2.next = IF last THEN 1 ELSE r.next + 1
  BY <1>3, ScansAndVerifiesGoOn
<1>5. /\ r2.at = IF last THEN "again" ELSE "start"
      /\ r2.seen = r.seen
      /\ r2.first = [s \in DOMAIN r.first \cup {Path(p)} |-> IF s = Path(p) THEN File(Path(p)) ELSE r.first[s]]
      /\ r2.stood = IF last THEN [s \in Paths |-> disk[s]] ELSE r.stood
  <2>1. After[job[p].at] = "again"
    BY DEF After
  <2>2. QED
    BY <1>3, <2>1, ScanReads
<1> HIDE DEF r, r2, last
<1>6. DOMAIN r.seen = {} /\ DOMAIN r.first \subseteq Paths
  BY <1>2 DEF IsInItsClosure, r
<1>7. DOMAIN r2.seen = {} /\ DOMAIN r2.first = DOMAIN r.first \cup {Path(p)}
  BY <1>5, <1>6
<1>8. IsInItsClosure(r2)
  <2>1. \A i \in 1 .. Len(Closure(r.cmd)) : i < r.next => Closure(r.cmd)[i] \in DOMAIN r.first
    BY <1>2 DEF IsInItsClosure
  <2>2. ASSUME NEW i \in 1 .. Len(Closure(r2.cmd)), r2.at # "start" \/ i < r2.next
        PROVE  Closure(r2.cmd)[i] \in DOMAIN r2.first
    <3>1. i < r.next \/ i = r.next
      BY <1>3, <1>4, <1>5, <2>2 DEF last, r
    <3>2. QED
      BY <1>3, <1>4, <1>7, <2>1, <2>2, <3>1
  <2>3. r2.next \in 1 .. Len(Closure(r2.cmd))
    BY <1>3, <1>4 DEF last, r
  <2>4. r2.at \in {"start", "again"} /\ DOMAIN r2.first \subseteq Paths
    BY <1>3, <1>5, <1>6, <1>7
  <2>5. QED
    BY <1>7, <2>2, <2>3, <2>4 DEF IsInItsClosure, Steps
<1>9. ASSUME NEW s \in DOMAIN r2.first
      PROVE  FirstIsPast(r2, s, disk, stamp)
  <2>1. CASE s = Path(p)
    <3>1. r2.first[s] = <<disk[s], stamp[s]>>
      BY <1>5, <1>7, <2>1 DEF File
    <3>2. QED
      BY <1>1, <1>3, <2>1, <3>1 DEF FirstIsPast, Undisturbed
  <2>2. CASE s # Path(p)
    <3>1. s \in DOMAIN r.first /\ r2.first[s] = r.first[s]
      BY <1>5, <1>7, <2>2
    <3>2. QED
      BY <1>2, <3>1 DEF HasOneMoment, FirstIsPast, Undisturbed
  <2>3. QED
    BY <2>1, <2>2
<1>10. ASSUME r2.at # "start", NEW s \in DOMAIN r2.first
       PROVE  StoodAsFound(r2, s, disk, stamp)
  <2>1. s \in Paths
    BY <1>3, <1>6, <1>7
  <2>2. r2.stood[s] = disk[s]
    BY <1>5, <1>10, <2>1
  <2>3. FirstIsPast(r2, s, disk, stamp)
    BY <1>9
  <2>4. QED
    BY <2>2, <2>3 DEF FirstIsPast, StoodAsFound
<1>11. HasOneMoment(r2, disk, stamp)
  BY <1>5, <1>7, <1>9, <1>10 DEF HasOneMoment, Confirmed
<1>12. QED
  BY <1>1, <1>4, <1>8, <1>11, ClosureStep DEF r, r2

\* What a later pass finds again was there when the first one ended and when
\* it was verified.
LEMMA LaterPassKeepsOrder ==
  ASSUME IInv, NEW p \in Commands, Scan(p), job[p].at # "start"
  PROVE  IInv'
<1> DEFINE r == job[p]
           r2 == job'[p]
           last == job[p].next = Len(Closure(job[p].cmd))
<1>1. /\ Reading(p) /\ disk[Path(p)] # Absent /\ r.first[Path(p)] = File(Path(p))
      /\ r.at \in {"again", "post", "final"}
  BY DEF Scan, After, SameFile
<1>2. IsInItsClosure(r) /\ HasOneMoment(r, disk, stamp)
  BY <1>1, IsInOrderInItsClosure
<1>3. /\ Path(p) \in Paths /\ Path(p) = Closure(r.cmd)[r.next]
      /\ Len(Closure(r.cmd)) \in Nat \ {0} /\ r.next \in 1 .. Len(Closure(r.cmd))
      /\ LastFile(p) <=> last
  BY <1>1, PathIsInTheClosure
<1>4. /\ UNCHANGED <<kind, made, disk, stamp>>
      /\ DOMAIN job' = Commands /\ \A q \in Commands \ {p} : job'[q] = job[q]
      /\ DOMAIN r2 = JobFields /\ r2.cmd = r.cmd /\ r2.config = r.config
      /\ r2.next = IF last THEN 1 ELSE r.next + 1
  BY <1>3, ScansAndVerifiesGoOn
<1>5. /\ r2.at = IF last THEN After[r.at] ELSE r.at
      /\ r2.seen = r.seen /\ r2.first = r.first /\ r2.stood = r.stood
  BY <1>1, <1>3, ScanReads
<1>6. /\ ~last => r2.at = r.at
      /\ last /\ r.at = "again" => r2.at = "verify"
      /\ last /\ r.at = "post" => r2.at = "stage"
      /\ last /\ r.at = "final" => r2.at = "rename"
  BY <1>5 DEF After
<1> HIDE DEF r, r2, last
<1>7. IsInItsClosure(r2)
  <2>1. r2.next \in 1 .. Len(Closure(r2.cmd))
    BY <1>3, <1>4 DEF last, r
  <2>2. r2.at \in Steps /\ r2.at \notin {"start", "check", "staged"} /\ (r2.at = "stage" => r2.next = 1)
    BY <1>1, <1>4, <1>6 DEF Steps
  <2>3. r2.at = "again" => r.at = "again"
    BY <1>1, <1>6
  <2>4. \A i \in 1 .. Len(Closure(r.cmd)) : Closure(r.cmd)[i] \in DOMAIN r.first
    BY <1>1, <1>2 DEF IsInItsClosure
  <2>5. QED
    BY <1>2, <1>4, <1>5, <2>1, <2>2, <2>3, <2>4 DEF IsInItsClosure
<1>8. \A s \in DOMAIN r2.first : FirstIsPast(r2, s, disk, stamp)
  BY <1>2, <1>5 DEF HasOneMoment, FirstIsPast, Undisturbed
<1>9. \A s \in DOMAIN r2.first : StoodAsFound(r2, s, disk, stamp)
  BY <1>1, <1>2, <1>5 DEF HasOneMoment, StoodAsFound, Undisturbed
<1>10. \A s \in DOMAIN r2.seen : SeenAsFound(r2, s, stamp)
  BY <1>2, <1>5 DEF HasOneMoment, SeenAsFound, Undisturbed
<1>11. Path(p) \in DOMAIN r.seen => r.seen[Path(p)] = r.stood[Path(p)]
  <2>1. Path(p) \in DOMAIN r2.first
    BY <1>1, <1>2, <1>3, <1>5 DEF IsInItsClosure
  <2>2. r2.first[Path(p)][1] = disk[Path(p)] /\ r2.first[Path(p)][2] = stamp[Path(p)]
    BY <1>1, <1>5 DEF File
  <2>3. r2.stood[Path(p)] = disk[Path(p)]
    BY <1>1, <1>9, <2>1, <2>2 DEF StoodAsFound, Undisturbed
  <2>4. Path(p) \in DOMAIN r2.seen => r2.seen[Path(p)] = disk[Path(p)]
    BY <1>10, <2>2 DEF SeenAsFound, Undisturbed
  <2>5. QED
    BY <1>5, <2>3, <2>4
<1>12. ASSUME NEW i \in 1 .. Len(Closure(r2.cmd)), Confirmed(r2, i), Closure(r2.cmd)[i] \in DOMAIN r2.seen
       PROVE  r2.seen[Closure(r2.cmd)[i]] = r2.stood[Closure(r2.cmd)[i]]
  <2>1. i = r.next \/ Confirmed(r, i)
    BY <1>1, <1>3, <1>4, <1>6, <1>12 DEF Confirmed, last, r
  <2>2. CASE i = r.next
    BY <1>3, <1>4, <1>5, <1>11, <1>12, <2>2
  <2>3. CASE Confirmed(r, i)
    BY <1>2, <1>4, <1>5, <1>12, <2>3 DEF HasOneMoment
  <2>4. QED
    BY <2>1, <2>2, <2>3
<1>13. HasOneMoment(r2, disk, stamp)
  BY <1>8, <1>9, <1>10, <1>12 DEF HasOneMoment
<1>14. QED
  BY <1>1, <1>4, <1>7, <1>13, ClosureStep DEF r, r2

LEMMA VerifyKeepsOrder ==
  ASSUME IInv, NEW p \in Commands, Verify(p)
  PROVE  IInv'
<1> DEFINE r == job[p]
           r2 == job'[p]
           last == job[p].next = Len(Closure(job[p].cmd))
<1>1. Reading(p) /\ disk[Path(p)] # Absent /\ r.at = "verify"
  BY DEF Verify
<1>2. IsInItsClosure(r) /\ HasOneMoment(r, disk, stamp)
  BY <1>1, IsInOrderInItsClosure
<1>3. /\ Path(p) \in Paths /\ Path(p) = Closure(r.cmd)[r.next]
      /\ Len(Closure(r.cmd)) \in Nat \ {0} /\ r.next \in 1 .. Len(Closure(r.cmd))
      /\ LastFile(p) <=> last
  BY <1>1, PathIsInTheClosure
<1>4. /\ UNCHANGED <<kind, made, disk, stamp>>
      /\ DOMAIN job' = Commands /\ \A q \in Commands \ {p} : job'[q] = job[q]
      /\ DOMAIN r2 = JobFields /\ r2.cmd = r.cmd /\ r2.config = r.config
      /\ r2.next = IF last THEN 1 ELSE r.next + 1
  BY <1>3, ScansAndVerifiesGoOn
<1>5. /\ r2.at = IF last THEN "check" ELSE "verify"
      /\ r2.first = r.first /\ r2.stood = r.stood
      /\ r2.seen = [s \in DOMAIN r.seen \cup {Path(p)} |-> IF s = Path(p) THEN disk[Path(p)] ELSE r.seen[s]]
  BY <1>3, VerifyReads
<1> HIDE DEF r, r2, last
<1>6. DOMAIN r2.seen = DOMAIN r.seen \cup {Path(p)}
  BY <1>5
<1>7. IsInItsClosure(r2)
  <2>1. r2.next \in 1 .. Len(Closure(r2.cmd)) /\ (r2.at = "check" => r2.next = 1)
    BY <1>3, <1>4, <1>5 DEF last, r
  <2>2. \A s \in DOMAIN r2.seen : \E i \in 1 .. Len(Closure(r2.cmd)) : s = Closure(r2.cmd)[i]
    BY <1>2, <1>3, <1>4, <1>6 DEF IsInItsClosure
  <2>3. \A i \in 1 .. Len(Closure(r.cmd)) : Closure(r.cmd)[i] \in DOMAIN r.first
    BY <1>1, <1>2 DEF IsInItsClosure
  <2>4. DOMAIN r2.first \subseteq Paths
    BY <1>2, <1>5 DEF IsInItsClosure
  <2>5. QED
    BY <1>4, <1>5, <2>1, <2>2, <2>3, <2>4 DEF IsInItsClosure, Steps
<1>8. \A s \in DOMAIN r2.first : FirstIsPast(r2, s, disk, stamp)
  BY <1>2, <1>5 DEF HasOneMoment, FirstIsPast, Undisturbed
<1>9. \A s \in DOMAIN r2.first : StoodAsFound(r2, s, disk, stamp)
  BY <1>1, <1>2, <1>5 DEF HasOneMoment, StoodAsFound, Undisturbed
<1>10. ASSUME NEW s \in DOMAIN r2.seen
       PROVE  SeenAsFound(r2, s, stamp)
  <2>1. CASE s = Path(p)
    <3>1. s \in DOMAIN r2.first
      BY <1>1, <1>2, <1>3, <1>5, <2>1 DEF IsInItsClosure
    <3>2. FirstIsPast(r2, s, disk, stamp)
      BY <1>8, <3>1
    <3>3. r2.seen[s] = disk[s]
      BY <1>5, <1>6, <2>1
    <3>4. QED
      BY <1>1, <2>1, <3>2, <3>3 DEF FirstIsPast, SeenAsFound
  <2>2. CASE s # Path(p)
    <3>1. s \in DOMAIN r.seen /\ r2.seen[s] = r.seen[s]
      BY <1>5, <1>6, <2>2
    <3>2. QED
      BY <1>2, <1>5, <3>1 DEF HasOneMoment, SeenAsFound, Undisturbed
  <2>3. QED
    BY <2>1, <2>2
<1>11. \A i \in 1 .. Len(Closure(r2.cmd)) : ~Confirmed(r2, i)
  BY <1>5 DEF Confirmed
<1>12. HasOneMoment(r2, disk, stamp)
  BY <1>8, <1>9, <1>10, <1>11 DEF HasOneMoment
<1>13. QED
  BY <1>1, <1>4, <1>7, <1>12, ClosureStep DEF r, r2

-----------------------------------------------------------------------------
(* Every reachable state                                                   *)

LEMMA InitIsInOrder ==
  Init => IInv
<1> SUFFICES ASSUME Init
             PROVE  IInv
  OBVIOUS
<1> DEFINE annual == Leaf("annual", 1, 0)
           quarterly == Leaf("quarterly", 1, 0)
<1>1. made = <<annual, quarterly>> /\ annual.kind = "annual" /\ quarterly.kind = "quarterly"
  BY DEF Init, Leaf
<1> HIDE DEF annual, quarterly
<1>2. /\ Len(made) = 2 /\ made[1] = annual /\ made[2] = quarterly
      /\ made \in Seq({annual, quarterly})
  BY <1>1
<1>3. made \in Seq(ToSet(made))
  BY <1>2 DEF ToSet
<1>4. \A d \in 1 .. Len(made) : made[d].kind # "quarters"
  BY <1>1, <1>2
<1>5. FilesLieInTheTable
  BY <1>2, <1>3 DEF Init, FilesLieInTheTable, Absent
<1>6. QuartersLieWhereTheyBelong
  <2>1. Data("quarters") \in Paths /\ Data("quarters") # Data("annual") /\ Data("quarters") # Data("quarterly")
    BY DataArePaths DEF Publications, Data
  <2>2. QED
    BY <2>1 DEF Init, QuartersLieWhereTheyBelong
<1>7. QuartersNameTheirParentsIdentity
  BY <1>4 DEF QuartersNameTheirParentsIdentity, NamesParentsIdentity
<1>8. JobsAreInOrder
  BY DEF Init, JobsAreInOrder, InOrder
<1>9. QED
  BY <1>5, <1>6, <1>7, <1>8 DEF IInv

LEMMA NextKeepsOrder ==
  IInv /\ [Next]_vars => IInv'
<1> SUFFICES ASSUME IInv, [Next]_vars
             PROVE  IInv'
  OBVIOUS
<1>1. CASE Operator
  BY <1>1, OperatorKeepsOrder
<1>2. ASSUME NEW p \in Commands, Command(p)
      PROVE  IInv'
  <2>1. CASE \E c \in Publications : Start(p, c)
    BY <2>1, StartKeepsOrder
  <2>2. CASE \/ ReadMetadata(p) \/ ReadAnalysis(p) \/ DigestAnalysis(p)
             \/ OpenIdentity(p) \/ PinAnalysis(p) \/ ReadRows(p)
             \/ OpenSource(p) \/ OpenMetrics(p) \/ ReadIdentityRows(p) \/ OpenParents(p)
    BY <2>2, PlainReadsKeepOrder
  <2>3. CASE PublishV1(p) \/ PublishMetrics(p) \/ PublishV2(p) \/ PublishClosed(p)
    BY <2>3, OtherPublicationsKeepOrder
  <2>4. CASE OpenAnnual(p) \/ OpenParentIdentity(p) \/ ReadQuarters(p)
    BY <2>4, QuarterlyReadsKeepOrder
  <2>5. CASE PublishQuarters(p)
    BY <2>5, PublishQuartersKeepsOrder
  <2>6. CASE Scan(p)
    BY <2>6, FirstPassKeepsOrder, LaterPassKeepsOrder
  <2>7. CASE Verify(p)
    BY <2>7, VerifyKeepsOrder
  <2>8. CASE Check(p) \/ Stage(p) \/ CheckStaged(p)
    BY <2>8, BetweenPassesKeepsOrder
  <2>9. CASE MakeDirectory(p) \/ WriteV3(p)
    BY <2>9, InPlaceKeepsOrder
  <2>10. CASE Stop(p)
    BY <2>10, StopKeepsOrder
  <2>11. QED
    BY <1>2, <2>1, <2>2, <2>3, <2>4, <2>5, <2>6, <2>7, <2>8, <2>9, <2>10 DEF Command
<1>3. CASE UNCHANGED vars
  <2>1. /\ UNCHANGED kind /\ UNCHANGED made /\ UNCHANGED disk /\ UNCHANGED stamp /\ UNCHANGED job
    BY <1>3 DEF vars
  <2>2. FilesLieInTheTable'
    BY <2>1 DEF IInv, FilesLieInTheTable
  <2>3. QuartersLieWhereTheyBelong'
    BY <2>1 DEF IInv, QuartersLieWhereTheyBelong
  <2>4. QuartersNameTheirParentsIdentity'
    BY <2>1 DEF IInv, QuartersNameTheirParentsIdentity, NamesParentsIdentity
  <2>5. DOMAIN job' = Commands /\ \A q \in Commands : InOrder(job'[q], made', disk', stamp')
    BY <2>1 DEF IInv, JobsAreInOrder
  <2>6. JobsAreInOrder'
    BY <2>1, <2>5, OrderOfTheNextState
  <2>7. QED
    BY <2>2, <2>3, <2>4, <2>6 DEF IInv
<1>4. QED
  BY <1>1, <1>2, <1>3 DEF Next

\* The files, the table of contents and every command stay in order, in every
\* state of every behavior (dataset_v3.py, verified_source_closure.py).
THEOREM ChainStaysInOrder ==
  Spec => []IInv
<1>1. QED
  BY InitIsInOrder, NextKeepsOrder, PTL DEF Spec

\* A dataset v3 that opens is made of one identity (dataset_v2.py:205,
\* dataset_v3.py:251): the annual metrics share that of the dataset, and the
\* quarterly metrics name the annual metrics the dataset was made of.
THEOREM OpenedIsOfOneIdentity ==
  Spec => []OneIdentity
<1>1. IInv => OneIdentity
  <2> SUFFICES ASSUME IInv, OpensV3(disk)
               PROVE  LET v2 == made[disk[Data("v2")]]
                          metrics == made[disk[Data("metrics")]]
                          quarters == made[disk[Data("quarters")]] IN
                      /\ metrics.identity = disk[Data("identity")]
                      /\ v2.identity = metrics.identity /\ quarters.annual_sha = v2.metrics_sha
                      /\ kind = "GENERIC" => quarters.identity = metrics.identity
    BY DEF OneIdentity
  <2> DEFINE v2 == made[disk[Data("v2")]]
             metrics == made[disk[Data("metrics")]]
             quarters == made[disk[Data("quarters")]]
  <2>1. /\ OpensV2(disk) /\ OpensQuarters(disk)
        /\ ParentBinding(v2, quarters)
    BY DEF OpensV3
  <2>2. /\ disk[Data("metrics")] = v2.metrics_sha
        /\ disk[Data("identity")] = v2.identity
        /\ SharesIdentity(metrics, disk[Data("identity")], disk[Data("identity")])
    BY <2>1 DEF OpensV2
  <2>3. quarters.annual_sha = v2.metrics_sha
    BY <2>1 DEF ParentBinding
  <2>4. metrics.identity = disk[Data("identity")]
    BY <2>2 DEF SharesIdentity
  <2>5. ASSUME kind = "GENERIC"
        PROVE  quarters.identity = metrics.identity
    <3>1. disk[Data("quarters")] # Absent /\ quarters.kind = "quarters"
      BY <2>1 DEF OpensQuarters, IInv, QuartersLieWhereTheyBelong
    <3>2. disk[Data("quarters")] \in 1 .. Len(made)
      <4>1. Data("quarters") \in Paths
        BY DataArePaths DEF Publications
      <4>2. disk[Data("quarters")] \in 0 .. Len(made) /\ Len(made) \in Nat
        BY <4>1 DEF IInv, FilesLieInTheTable
      <4>3. QED
        BY <3>1, <4>2 DEF Absent
    <3>3. NamesParentsIdentity(quarters, made)
      BY <3>2 DEF IInv, QuartersNameTheirParentsIdentity
    <3>4. quarters.identity = made[quarters.annual_sha].identity
      BY <2>5, <3>1, <3>3 DEF NamesParentsIdentity
    <3>5. QED
      BY <2>2, <2>3, <3>4
  <2>6. QED
    BY <2>2, <2>3, <2>4, <2>5
<1>2. QED
  BY <1>1, ChainStaysInOrder, PTL

\* What the single pass publishes was verified of sources that stood together
\* at one moment (verified_source_closure.py:318), whatever was edited, made
\* again or moved away while it was verified.
THEOREM VerifiedStoodTogether ==
  Spec => []ClosureIsOneMoment
<1>1. IInv => ClosureIsOneMoment
  <2> SUFFICES ASSUME IInv, NEW p \in Commands, Reading(p), job[p].at = "rename",
                      NEW s \in DOMAIN job[p].seen
               PROVE  job[p].seen[s] = job[p].stood[s]
    BY DEF ClosureIsOneMoment
  <2>1. IsInItsClosure(job[p]) /\ HasOneMoment(job[p], disk, stamp)
    BY IsInOrderInItsClosure
  <2>2. PICK i \in 1 .. Len(Closure(job[p].cmd)) : s = Closure(job[p].cmd)[i]
    BY <2>1 DEF IsInItsClosure
  <2>3. QED
    BY <2>1, <2>2 DEF HasOneMoment, Confirmed
<1>2. QED
  BY <1>1, ChainStaysInOrder, PTL
-----------------------------------------------------------------------------
(* What a command nobody disturbed knows                                   *)

\* A publication that lies there names a config there has been.
NamesAConfig(c) == disk[Data(c)] # Absent => made[disk[Data(c)]].config \in 1 .. Len(made)

PublicationsNameTheirConfig == NamesAConfig("identity") /\ NamesAConfig("metrics") /\ NamesAConfig("v2")

\* Both parents of a dataset v3 open, and belong together.
ParentsOpen ==
  /\ OpensV2(disk) /\ OpensQuarters(disk)
  /\ ParentBinding(made[disk[Data("v2")]], made[disk[Data("quarters")]])

\* They are the ones the config of the v3 pins.
PinsWhatIsThere(config) ==
  /\ disk[Data("v2")] # Absent /\ disk[Data("v2")] = made[config].v2
  /\ disk[Data("quarters")] # Absent /\ disk[Data("quarters")] = made[config].quarters

\* What is verified file by file is what is there, and stays verified.
VerifiesWhatIsThere(r) ==
  /\ \A s \in DOMAIN r.seen : r.seen[s] = disk[s]
  /\ \A i \in 1 .. Len(Closure(r.cmd)) :
       r.at = "check" \/ (r.at = "verify" /\ i < r.next) => Closure(r.cmd)[i] \in DOMAIN r.seen
  /\ r.at \in {"post", "stage", "staged", "final", "rename"} =>
       IF r.cmd = "identity" THEN SourcesPinned(disk, r.config) ELSE ParentsOpen
  /\ r.at \in {"staged", "final", "rename"} => r.read.config_sha = disk[Config(r.cmd)]

\* The parents a dataset v2 was read from are there, open, and share their identity.
ReadsWhatIsThere(r) ==
  /\ r.at \in {"identity", "metrics", "stage"} =>
       /\ r.read.identity = disk[Data("identity")] /\ disk[Data("identity")] # Absent
       /\ r.read.identity = made[r.config].identity
       /\ OpensIdentity(disk)
  /\ r.at \in {"metrics", "stage"} =>
       /\ r.read.metrics = disk[Data("metrics")] /\ disk[Data("metrics")] # Absent
       /\ r.read.metrics = made[r.config].metrics
       /\ OpensMetrics(disk)
       /\ SharesIdentity(made[r.read.metrics], r.read.identity, disk[Data("identity")])
  /\ r.at = "stage" =>
       /\ r.read.metadata = MetadataOf(disk, r.read.identity)
       /\ r.read.config_sha = disk[Config("v2")]

\* The v3 over a legacy identity has opened its parents.
OpenedWhatIsThere(r) ==
  r.at \in {"parents", "directory"} =>
    /\ ParentsOpen
    /\ r.read.config_sha = disk[Config("v3")] /\ r.read.annual = V2Id(disk[Data("v2")])

KnowsWhatIsThere(r) ==
  /\ r.config = disk[Config(r.cmd)]
  /\ Closed(r.cmd) => VerifiesWhatIsThere(r)
  /\ r.cmd = "v2" => ReadsWhatIsThere(r)
  /\ r.cmd = "v3" => PinsWhatIsThere(r.config)
  /\ r.cmd = "v3" /\ ~Closed(r.cmd) => OpenedWhatIsThere(r)

UndisturbedKnowWhatIsThere ==
  \A p \in Commands : job[p] # Idle /\ job[p].quiet => KnowsWhatIsThere(job[p])

KnowledgeInv == PublicationsNameTheirConfig /\ UndisturbedKnowWhatIsThere

-----------------------------------------------------------------------------
(* What opens goes on opening                                              *)

LEMMA PathsDiffer ==
  ASSUME NEW c, NEW d
  PROVE  /\ Data(c) # Config(d)
         /\ Data(c) = Data(d) => c = d
         /\ Config(c) = Config(d) => c = d
BY DEF Data, Config

LEMMA LiesInTheTable ==
  ASSUME IInv, NEW s \in Paths, disk[s] # Absent
  PROVE  disk[s] \in 1 .. Len(made)
<1>1. disk[s] \in 0 .. Len(made) /\ Len(made) \in Nat
  BY DEF IInv, FilesLieInTheTable
<1>2. QED
  BY <1>1 DEF Absent

\* Where no reader of the identity and of the annual metrics looks, a content
\* may be put, and what was in the table stays there.
LEMMA PutBesideTheReaders ==
  ASSUME IInv, NEW c \in {"v2", "v3"}, NEW content, Put(Data(c), content)
  PROVE  /\ \A d \in (Leaves \cup Publications) \ {c} : disk'[Data(d)] = disk[Data(d)]
         /\ \A d \in Publications : disk'[Config(d)] = disk[Config(d)]
         /\ \A i \in 1 .. Len(made) : made'[i] = made[i]
<1>1. Data(c) \in Paths
  BY DataArePaths DEF Publications
<1>2. Extends(made', made) /\ \A s \in Paths \ {Data(c)} : disk'[s] = disk[s]
  BY <1>1, PutEnters DEF IInv
<1>3. ASSUME NEW d \in (Leaves \cup Publications) \ {c}
      PROVE  disk'[Data(d)] = disk[Data(d)]
  BY <1>2, DataArePaths, PathsDiffer
<1>4. ASSUME NEW d \in Publications
      PROVE  disk'[Config(d)] = disk[Config(d)]
  BY <1>2, ConfigsArePaths, PathsDiffer
<1>5. QED
  BY <1>2, <1>3, <1>4 DEF Extends

LEMMA IdentityGoesOnOpening ==
  ASSUME IInv, PublicationsNameTheirConfig, UNCHANGED kind,
         NEW c \in {"v2", "v3"}, NEW content, Put(Data(c), content), OpensIdentity(disk)
  PROVE  OpensIdentity(disk)'
<1> DEFINE identity == disk[Data("identity")]
           config == made[identity].config
<1>1. /\ \A d \in (Leaves \cup Publications) \ {c} : disk'[Data(d)] = disk[Data(d)]
      /\ \A d \in Publications : disk'[Config(d)] = disk[Config(d)]
      /\ \A i \in 1 .. Len(made) : made'[i] = made[i]
  BY PutBesideTheReaders
<1>2. /\ disk'[Data("identity")] = identity
      /\ \A l \in Leaves : disk'[Data(l)] = disk[Data(l)]
      /\ disk'[Config("identity")] = disk[Config("identity")]
  BY <1>1 DEF Leaves, Publications
<1>3. /\ identity # Absent
      /\ disk[Config("identity")] = config /\ disk[Config("identity")] = made[identity].config_sha
  BY DEF OpensIdentity, ConfigUnchanged
<1>4. identity \in 1 .. Len(made)
  BY <1>3, LiesInTheTable, DataArePaths DEF Publications
<1>5. config \in 1 .. Len(made)
  BY <1>3 DEF PublicationsNameTheirConfig, NamesAConfig
<1>6. made'[identity] = made[identity] /\ made'[config] = made[config]
  BY <1>1, <1>4, <1>5
<1> HIDE DEF identity, config
<1>7. ConfigUnchanged(disk, "identity")'
  BY <1>2, <1>3, <1>6 DEF ConfigUnchanged, identity, config
<1>8. CASE kind = "GENERIC"
  <2>1. \A l \in Leaves : disk[Data(l)] = made[config].pins[l]
    BY <1>3, <1>8 DEF OpensIdentity, SourcesPinned
  <2>2. \A l \in Leaves : disk'[Data(l)] = made'[disk'[Config("identity")]].pins[l]
    BY <1>2, <1>3, <1>6, <2>1
  <2>3. QED
    BY <1>7, <1>8, <2>2 DEF OpensIdentity, SourcesPinned
<1>9. CASE kind # "GENERIC"
  <2>1. SourcesNamed(disk, made[identity])
    BY <1>9 DEF OpensIdentity, identity
  <2>2. \A l \in {"annual", "metadata"} :
          disk'[Data(l)] = made[identity].sources[l] /\ disk'[Data(l)] = made[identity].rows[l]
    BY <1>2, <2>1 DEF SourcesNamed, Leaves
  <2>3. SourcesNamed(disk, made[disk[Data("identity")]])'
    BY <1>2, <1>6, <2>2 DEF SourcesNamed
  <2>4. QED
    BY <1>7, <1>9, <2>3 DEF OpensIdentity
<1>10. QED
  BY <1>8, <1>9

LEMMA MetricsGoOnOpening ==
  ASSUME IInv, NEW c \in {"v2", "v3"}, NEW content, Put(Data(c), content), OpensMetrics(disk)
  PROVE  OpensMetrics(disk)'
<1>1. /\ \A d \in (Leaves \cup Publications) \ {c} : disk'[Data(d)] = disk[Data(d)]
      /\ \A d \in Publications : disk'[Config(d)] = disk[Config(d)]
      /\ \A i \in 1 .. Len(made) : made'[i] = made[i]
  BY PutBesideTheReaders
<1>2. /\ disk'[Data("identity")] = disk[Data("identity")]
      /\ disk'[Data("metrics")] = disk[Data("metrics")]
      /\ disk'[Config("metrics")] = disk[Config("metrics")]
  BY <1>1 DEF Publications
<1>3. disk[Data("metrics")] \in 1 .. Len(made)
  BY LiesInTheTable, DataArePaths DEF Publications, OpensMetrics, ConfigUnchanged
<1>4. made'[disk[Data("metrics")]] = made[disk[Data("metrics")]]
  BY <1>1, <1>3
<1>5. QED
  BY <1>2, <1>4 DEF OpensMetrics, ConfigUnchanged

\* A dataset v3 is put beside its parents.
LEMMA ParentsGoOnOpening ==
  ASSUME IInv, PublicationsNameTheirConfig, UNCHANGED kind,
         NEW content, Put(Data("v3"), content), ParentsOpen
  PROVE  ParentsOpen'
<1> DEFINE v2 == disk[Data("v2")]
           metrics == disk[Data("metrics")]
           identity == disk[Data("identity")]
           quarters == disk[Data("quarters")]
<1>1. /\ \A d \in (Leaves \cup Publications) \ {"v3"} : disk'[Data(d)] = disk[Data(d)]
      /\ \A d \in Publications : disk'[Config(d)] = disk[Config(d)]
      /\ \A i \in 1 .. Len(made) : made'[i] = made[i]
  BY PutBesideTheReaders
<1>2. /\ disk'[Data("v2")] = v2 /\ disk'[Data("metrics")] = metrics
      /\ disk'[Data("identity")] = identity /\ disk'[Data("quarters")] = quarters
      /\ disk'[Data("metadata")] = disk[Data("metadata")]
      /\ disk'[Config("v2")] = disk[Config("v2")]
  BY <1>1 DEF Leaves, Publications
<1>3. OpensV2(disk) /\ OpensMetrics(disk) /\ OpensIdentity(disk) /\ OpensQuarters(disk)
  BY DEF ParentsOpen, OpensV2
<1>4. v2 # Absent /\ metrics # Absent /\ identity # Absent /\ quarters # Absent
  <2>1. ConfigUnchanged(disk, "v2")
    BY <1>3 DEF OpensV2
  <2>2. v2 # Absent
    BY <2>1 DEF ConfigUnchanged
  <2>3. metrics # Absent /\ identity # Absent
    BY <1>3 DEF OpensMetrics, ConfigUnchanged
  <2>4. quarters # Absent
    BY <1>3 DEF OpensQuarters
  <2>5. QED
    BY <2>2, <2>3, <2>4
<1>5. v2 \in 1 .. Len(made) /\ metrics \in 1 .. Len(made) /\ identity \in 1 .. Len(made) /\ quarters \in 1 .. Len(made)
  BY <1>4, LiesInTheTable, DataArePaths DEF Publications
<1>6. made[v2].config \in 1 .. Len(made)
  BY <1>4 DEF PublicationsNameTheirConfig, NamesAConfig
<1>7. /\ made'[v2] = made[v2] /\ made'[metrics] = made[metrics] /\ made'[identity] = made[identity]
      /\ made'[quarters] = made[quarters] /\ made'[made[v2].config] = made[made[v2].config]
  BY <1>1, <1>5, <1>6
<1>8. OpensIdentity(disk)' /\ OpensMetrics(disk)'
  BY <1>3, IdentityGoesOnOpening, MetricsGoOnOpening
<1>9. MetricsId(metrics)' = MetricsId(metrics)
  BY <1>2, <1>7 DEF MetricsId
<1>10. MetadataOf(disk, identity)' = MetadataOf(disk, identity)
  BY <1>2, <1>7 DEF MetadataOf
<1>11. /\ ConfigUnchanged(disk, "v2")
       /\ metrics = made[v2].metrics_sha /\ metrics = made[made[v2].config].metrics
       /\ MetricsId(metrics) = made[v2].metrics
       /\ identity = made[made[v2].config].identity /\ identity = made[v2].identity_sha
       /\ identity = made[v2].identity
       /\ SharesIdentity(made[metrics], identity, identity)
       /\ made[v2].rows = made[metrics].rows /\ made[v2].metadata = MetadataOf(disk, identity)
  BY <1>3 DEF OpensV2
<1>12. ConfigUnchanged(disk, "v2")'
  <2>1. ConfigUnchanged(disk, "v2")
    BY <1>11
  <2>2. disk[Config("v2")] = made[v2].config /\ disk[Config("v2")] = made[v2].config_sha
    BY <2>1 DEF ConfigUnchanged
  <2>3. disk'[Data("v2")] # Absent
    BY <1>2, <1>4
  <2> HIDE DEF v2
  <2>4. disk'[Config("v2")] = made'[disk'[Data("v2")]].config /\ disk'[Config("v2")] = made'[disk'[Data("v2")]].config_sha
    BY <1>2, <1>7, <2>2
  <2>5. QED
    BY <2>3, <2>4 DEF ConfigUnchanged
<1>13. /\ metrics' = metrics /\ identity' = identity /\ v2' = v2
       /\ made'[v2'] = made[v2] /\ made'[metrics'] = made[metrics]
       /\ made'[made'[v2'].config] = made[made[v2].config]
  BY <1>2, <1>7
<1>14. SharesIdentity(made[metrics], identity, identity)'
  <2>1. made[metrics].identity = identity /\ made[metrics].identity_sha = identity
    BY <1>11 DEF SharesIdentity
  <2>2. made'[metrics'].identity = identity' /\ made'[metrics'].identity_sha = identity'
    BY <1>13, <2>1
  <2>3. QED
    BY <2>2 DEF SharesIdentity
<1>15. OpensV2(disk)'
  <2>1. /\ (metrics = made[v2].metrics_sha)' /\ (metrics = made[made[v2].config].metrics)'
        /\ (identity = made[made[v2].config].identity)' /\ (identity = made[v2].identity_sha)'
        /\ (identity = made[v2].identity)'
        /\ (made[v2].rows = made[metrics].rows)'
    BY <1>11, <1>13
  <2>2. (MetricsId(metrics) = made[v2].metrics)'
    <3>1. MetricsId(metrics) = made[v2].metrics
      BY <1>11
    <3>2. QED
      BY <1>9, <1>13, <3>1
  <2>3. (made[v2].metadata = MetadataOf(disk, identity))'
    <3>1. made[v2].metadata = MetadataOf(disk, identity)
      BY <1>11
    <3>2. QED
      BY <1>10, <1>13, <3>1
  <2>4. QED
    BY <1>8, <1>12, <1>14, <2>1, <2>2, <2>3, Zenon DEF OpensV2
<1>16. ParentBinding(made[v2], made[quarters])'
  <2>1. made[quarters].annual = made[v2].metrics /\ made[quarters].annual_sha = made[v2].metrics_sha
    BY DEF ParentsOpen, ParentBinding
  <2>2. quarters' = quarters /\ made'[quarters'] = made[quarters]
    BY <1>2, <1>7
  <2>3. QED
    BY <1>13, <2>1, <2>2 DEF ParentBinding
<1>17. QED
  BY <1>2, <1>4, <1>15, <1>16 DEF ParentsOpen, OpensQuarters

-----------------------------------------------------------------------------
(* Whoever is disturbed knows nothing                                      *)

LEMMA PutKeepsNames ==
  ASSUME IInv, PublicationsNameTheirConfig, NEW path \in Paths, NEW content, Put(path, content),
         \A c \in {"identity", "metrics", "v2"} : path = Data(c) => content.config \in 1 .. Len(made)
  PROVE  PublicationsNameTheirConfig'
<1>1. /\ Extends(made', made)
      /\ disk'[path] \in 1 .. Len(made') /\ made'[disk'[path]] = content
      /\ \A s \in Paths \ {path} : disk'[s] = disk[s]
  BY PutEnters DEF IInv
<1>2. ASSUME NEW c \in {"identity", "metrics", "v2"}, disk'[Data(c)] # Absent
      PROVE  made'[disk'[Data(c)]].config \in 1 .. Len(made')
  <2>1. CASE path = Data(c)
    BY <1>1, <2>1 DEF Extends
  <2>2. CASE path # Data(c)
    <3>1. Data(c) \in Paths
      BY DataArePaths DEF Publications
    <3>2. disk'[Data(c)] = disk[Data(c)]
      BY <1>1, <2>2, <3>1
    <3>3. disk[Data(c)] \in 1 .. Len(made)
      BY <1>2, <3>1, <3>2, LiesInTheTable
    <3>4. made[disk[Data(c)]].config \in 1 .. Len(made)
      BY <1>2, <3>2 DEF PublicationsNameTheirConfig, NamesAConfig
    <3>5. QED
      BY <1>1, <3>2, <3>3, <3>4 DEF Extends
  <2>3. QED
    BY <2>1, <2>2
<1>3. QED
  BY <1>2 DEF PublicationsNameTheirConfig, NamesAConfig

LEMMA DisturbedKnowNothing ==
  ASSUME IInv, NEW p, NEW q \in Commands, q # p
  PROVE  Disturb(p)[q] = Idle \/ (Disturb(p)[q] # Idle /\ ~Disturb(p)[q].quiet)
<1>1. CASE job[q] = Idle
  BY <1>1 DEF Disturb
<1>2. CASE job[q] # Idle
  <2>1. DOMAIN job[q] = JobFields
    BY <1>2 DEF IInv, JobsAreInOrder, InOrder, IsCommand
  <2>2. Disturb(p)[q] = [job[q] EXCEPT !.quiet = FALSE]
    BY <1>2 DEF Disturb
  <2>3. Disturb(p)[q].quiet = FALSE /\ DOMAIN Disturb(p)[q] = JobFields
    BY <2>1, <2>2 DEF JobFields
  <2>4. DOMAIN Idle = {"cmd"}
    BY DEF Idle
  <2>5. QED
    BY <2>3, <2>4 DEF JobFields
<1>3. QED
  BY <1>1, <1>2

LEMMA OperatorKeepsKnowledge ==
  ASSUME IInv, KnowledgeInv, Operator
  PROVE  KnowledgeInv'
<1>1. ASSUME job' = Disturb(None)
      PROVE  UndisturbedKnowWhatIsThere'
  <2>1. \A q \in Commands : job'[q] = Idle \/ (job'[q] # Idle /\ ~job'[q].quiet)
    BY <1>1, DisturbedKnowNothing, NobodyAssumption
  <2>2. QED
    BY <2>1 DEF UndisturbedKnowWhatIsThere
<1>2. ASSUME NEW path \in Paths, NEW content, Put(path, content), job' = Disturb(None),
             \A c \in {"identity", "metrics", "v2"} : path # Data(c)
      PROVE  KnowledgeInv'
  BY <1>1, <1>2, PutKeepsNames DEF KnowledgeInv
<1>3. CASE PublishMetadata
  <2>1. Data("metadata") \in Paths /\ \A c \in {"identity", "metrics", "v2"} : Data("metadata") # Data(c)
    BY DataArePaths, PathsDiffer DEF Leaves
  <2>2. QED
    BY <1>2, <1>3, <2>1 DEF PublishMetadata
<1>4. ASSUME NEW l \in {"annual", "quarterly"}, Prepare(l)
      PROVE  KnowledgeInv'
  <2>1. Data(l) \in Paths /\ \A c \in {"identity", "metrics", "v2"} : Data(l) # Data(c)
    BY DataArePaths, PathsDiffer DEF Leaves
  <2>2. QED
    BY <1>2, <1>4, <2>1 DEF Prepare, Edit
<1>5. ASSUME NEW c \in budget.movable, MoveAway(Data(c))
      PROVE  KnowledgeInv'
  <2>1. made' = made /\ disk' = [disk EXCEPT ![Data(c)] = Absent] /\ job' = Disturb(None)
    BY <1>5 DEF MoveAway, Edit
  <2>2. disk \in [Paths -> 0 .. Len(made)]
    BY DEF IInv, FilesLieInTheTable
  <2>3. \A s \in Paths : disk'[s] = disk[s] \/ disk'[s] = Absent
    <3> DEFINE away == Data(c)
    <3>1. disk' = [disk EXCEPT ![away] = Absent]
      BY <2>1
    <3> HIDE DEF away
    <3>2. QED
      BY <2>2, <3>1
  <2>4. \A d \in {"identity", "metrics", "v2"} : Data(d) \in Paths
    BY DataArePaths DEF Publications
  <2>5. PublicationsNameTheirConfig'
    BY <2>1, <2>3, <2>4 DEF KnowledgeInv, PublicationsNameTheirConfig, NamesAConfig
  <2>6. QED
    BY <1>1, <2>1, <2>5 DEF KnowledgeInv
<1>6. ASSUME NEW c \in Publications, Configure(c) \/ Reconfigure(c)
      PROVE  KnowledgeInv'
  <2>1. Config(c) \in Paths /\ \A d \in {"identity", "metrics", "v2"} : Config(c) # Data(d)
    BY ConfigsArePaths, PathsDiffer
  <2>2. Put(Config(c), Pins(c)) /\ job' = Disturb(None)
    BY <1>6 DEF Configure, Reconfigure, Edit
  <2>3. QED
    BY <1>2, <2>1, <2>2
<1>7. QED
  BY <1>3, <1>4, <1>5, <1>6 DEF Operator

LEMMA PublishingKeepsKnowledge ==
  ASSUME IInv, KnowledgeInv, NEW p \in Commands, job[p] # Idle, NEW content,
         Put(Data(job[p].cmd), content), job' = [Disturb(p) EXCEPT ![p] = Idle],
         content.config = job[p].config
  PROVE  KnowledgeInv'
<1>1. job[p].cmd \in Publications /\ job[p].config \in 1 .. Len(made)
  BY DEF IInv, JobsAreInOrder, InOrder, IsCommand
<1>2. Data(job[p].cmd) \in Paths
  BY <1>1, DataArePaths
<1>3. PublicationsNameTheirConfig'
  BY <1>1, <1>2, PutKeepsNames DEF KnowledgeInv
<1>4. DOMAIN Disturb(p) = Commands
  BY DEF Disturb
<1>5. job'[p] = Idle /\ \A q \in Commands \ {p} : job'[q] = Disturb(p)[q]
  BY <1>4
<1>6. \A q \in Commands : job'[q] = Idle \/ (job'[q] # Idle /\ ~job'[q].quiet)
  BY <1>5, DisturbedKnowNothing
<1>7. QED
  BY <1>3, <1>6 DEF KnowledgeInv, UndisturbedKnowWhatIsThere

\* The directory of a v3 over a legacy identity is put beside what its own
\* command has opened.
LEMMA MakeDirectoryKeepsKnowledge ==
  ASSUME IInv, KnowledgeInv, NEW p \in Commands, MakeDirectory(p)
  PROVE  KnowledgeInv'
<1>1. /\ kind = "LEGACY" /\ kind' = kind /\ job[p] # Idle /\ job[p].cmd = "v3" /\ job[p].at = "parents"
      /\ Put(Data("v3"), [kind |-> "torn"])
      /\ job' = [Disturb(p) EXCEPT ![p] = [Disturb(p)[p] EXCEPT !.at = "directory"]]
  BY DEF MakeDirectory, At
<1>2. Data("v3") \in Paths /\ \A c \in {"identity", "metrics", "v2"} : Data("v3") # Data(c)
  BY DataArePaths, PathsDiffer DEF Publications
<1>3. PublicationsNameTheirConfig'
  BY <1>1, <1>2, PutKeepsNames DEF KnowledgeInv
<1>4. DOMAIN Disturb(p) = Commands /\ Disturb(p)[p] = job[p]
  BY DEF Disturb
<1>5. job'[p] = [job[p] EXCEPT !.at = "directory"] /\ \A q \in Commands \ {p} : job'[q] = Disturb(p)[q]
  BY <1>1, <1>4
<1>6. \A q \in Commands \ {p} : job'[q] = Idle \/ (job'[q] # Idle /\ ~job'[q].quiet)
  BY <1>5, DisturbedKnowNothing
<1>7. IsCommand(job[p], made)
  BY <1>1 DEF IInv, JobsAreInOrder, InOrder
<1>8. /\ job'[p].cmd = "v3" /\ job'[p].at = "directory" /\ job'[p].quiet = job[p].quiet
      /\ job'[p].config = job[p].config /\ job'[p].read = job[p].read
  BY <1>1, <1>5, <1>7 DEF IsCommand, JobFields
<1>9. ASSUME job[p].quiet
      PROVE  KnowsWhatIsThere(job[p])'
  <2>1. KnowsWhatIsThere(job[p])
    BY <1>1, <1>9 DEF KnowledgeInv, UndisturbedKnowWhatIsThere
  <2>2. ~Closed("v3") /\ ~Closed("v3")'
    BY <1>1 DEF Closed
  <2>3. /\ PinsWhatIsThere(job[p].config) /\ ParentsOpen
        /\ job[p].config = disk[Config("v3")]
        /\ job[p].read.config_sha = disk[Config("v3")] /\ job[p].read.annual = V2Id(disk[Data("v2")])
    BY <1>1, <2>1, <2>2 DEF KnowsWhatIsThere, OpenedWhatIsThere
  <2>4. /\ \A d \in (Leaves \cup Publications) \ {"v3"} : disk'[Data(d)] = disk[Data(d)]
        /\ \A d \in Publications : disk'[Config(d)] = disk[Config(d)]
        /\ \A i \in 1 .. Len(made) : made'[i] = made[i]
    BY <1>1, PutBesideTheReaders
  <2>5. /\ disk'[Data("v2")] = disk[Data("v2")] /\ disk'[Data("quarters")] = disk[Data("quarters")]
        /\ disk'[Config("v3")] = disk[Config("v3")]
    BY <2>4 DEF Publications
  <2>6. disk[Data("v2")] # Absent
    BY <2>3 DEF PinsWhatIsThere
  <2>7. disk[Data("v2")] \in 1 .. Len(made) /\ job[p].config \in 1 .. Len(made)
    BY <1>7, <2>6, LiesInTheTable, DataArePaths DEF Publications, IsCommand
  <2>8. made'[disk[Data("v2")]] = made[disk[Data("v2")]] /\ made'[job[p].config] = made[job[p].config]
    BY <2>4, <2>7
  <2>9. ParentsOpen'
    BY <1>1, <2>3, ParentsGoOnOpening DEF KnowledgeInv
  <2>10. PinsWhatIsThere(job[p].config)'
    BY <1>8, <2>3, <2>5, <2>8 DEF PinsWhatIsThere
  <2>11. V2Id(disk[Data("v2")])' = V2Id(disk[Data("v2")])
    BY <2>5, <2>8 DEF V2Id
  <2>12. OpenedWhatIsThere(job[p])'
    BY <1>8, <2>3, <2>5, <2>9, <2>11 DEF OpenedWhatIsThere
  <2>13. QED
    BY <1>8, <2>2, <2>3, <2>5, <2>10, <2>12 DEF KnowsWhatIsThere
<1>10. QED
  BY <1>3, <1>6, <1>8, <1>9 DEF KnowledgeInv, UndisturbedKnowWhatIsThere

-----------------------------------------------------------------------------
(* A command reads on                                                      *)

LEMMA SameFilesOpen ==
  ASSUME UNCHANGED kind, UNCHANGED made, UNCHANGED disk
  PROVE  /\ OpensIdentity(disk)' <=> OpensIdentity(disk)
         /\ OpensMetrics(disk)' <=> OpensMetrics(disk)
         /\ ParentsOpen' <=> ParentsOpen
<1>1. OpensIdentity(disk)' <=> OpensIdentity(disk)
  BY DEF OpensIdentity, ConfigUnchanged, SourcesPinned, SourcesNamed
<1>2. OpensMetrics(disk)' <=> OpensMetrics(disk)
  BY DEF OpensMetrics, ConfigUnchanged
<1>3. ConfigUnchanged(disk, "v2")' <=> ConfigUnchanged(disk, "v2")
  BY DEF ConfigUnchanged
<1>4. MetricsId(disk[Data("metrics")])' = MetricsId(disk[Data("metrics")])
  BY DEF MetricsId
<1>5. MetadataOf(disk, disk[Data("identity")])' = MetadataOf(disk, disk[Data("identity")])
  BY DEF MetadataOf
<1>6. SharesIdentity(made[disk[Data("metrics")]], disk[Data("identity")], disk[Data("identity")])'
        <=> SharesIdentity(made[disk[Data("metrics")]], disk[Data("identity")], disk[Data("identity")])
  BY DEF SharesIdentity
<1>7. OpensV2(disk)' <=> OpensV2(disk)
  BY <1>1, <1>2, <1>3, <1>4, <1>5, <1>6 DEF OpensV2
<1>8. ParentsOpen' <=> ParentsOpen
  BY <1>7 DEF ParentsOpen, OpensQuarters, ParentBinding
<1>9. QED
  BY <1>1, <1>2, <1>8

LEMMA KnowledgeOfTheSame ==
  ASSUME UNCHANGED kind, UNCHANGED made, UNCHANGED disk, NEW q, KnowsWhatIsThere(job'[q])
  PROVE  KnowsWhatIsThere(job[q])'
<1>1. /\ OpensIdentity(disk)' <=> OpensIdentity(disk)
      /\ OpensMetrics(disk)' <=> OpensMetrics(disk)
      /\ ParentsOpen' <=> ParentsOpen
  BY SameFilesOpen
<1>2. PinsWhatIsThere(job'[q].config) => PinsWhatIsThere(job[q].config)'
  BY DEF PinsWhatIsThere
<1>3. Closed(job'[q].cmd) <=> Closed(job[q].cmd)'
  BY DEF Closed
<1>4. SourcesPinned(disk, job'[q].config) => SourcesPinned(disk, job[q].config)'
  BY DEF SourcesPinned
<1>5. VerifiesWhatIsThere(job'[q]) => VerifiesWhatIsThere(job[q])'
  BY <1>1, <1>4 DEF VerifiesWhatIsThere
<1>6. MetadataOf(disk, job'[q].read.identity) = MetadataOf(disk, job[q].read.identity)'
  BY DEF MetadataOf
<1>7. SharesIdentity(made[job'[q].read.metrics], job'[q].read.identity, disk[Data("identity")])
        <=> SharesIdentity(made[job[q].read.metrics], job[q].read.identity, disk[Data("identity")])'
  BY DEF SharesIdentity
<1>8. ReadsWhatIsThere(job'[q]) => ReadsWhatIsThere(job[q])'
  BY <1>1, <1>6, <1>7 DEF ReadsWhatIsThere
<1>9. V2Id(disk[Data("v2")]) = V2Id(disk[Data("v2")])'
  BY DEF V2Id
<1>10. OpenedWhatIsThere(job'[q]) => OpenedWhatIsThere(job[q])'
  BY <1>1, <1>9 DEF OpenedWhatIsThere
<1>11. QED
  BY <1>2, <1>3, <1>5, <1>8, <1>10 DEF KnowsWhatIsThere

LEMMA ReadsKeepKnowledge ==
  ASSUME IInv, KnowledgeInv, UNCHANGED <<kind, made, disk>>, NEW p \in Commands,
         \A q \in Commands \ {p} : job'[q] = job[q],
         job'[p] # Idle /\ job'[p].quiet => KnowsWhatIsThere(job'[p])
  PROVE  KnowledgeInv'
<1>1. UNCHANGED kind /\ UNCHANGED made /\ UNCHANGED disk
  OBVIOUS
<1>2. PublicationsNameTheirConfig'
  BY <1>1 DEF KnowledgeInv, PublicationsNameTheirConfig, NamesAConfig
<1>3. ASSUME NEW q \in Commands, job'[q] # Idle, job'[q].quiet
      PROVE  KnowsWhatIsThere(job[q])'
  <2>1. KnowsWhatIsThere(job'[q])
    <3>1. CASE q = p
      BY <1>3, <3>1
    <3>2. CASE q # p
      <4>1. job'[q] = job[q]
        BY <3>2
      <4>2. KnowsWhatIsThere(job[q])
        BY <1>3, <4>1 DEF KnowledgeInv, UndisturbedKnowWhatIsThere
      <4>3. QED
        BY <4>1, <4>2
    <3>3. QED
      BY <3>1, <3>2
  <2>2. QED
    BY <1>1, <2>1, KnowledgeOfTheSame
<1>4. QED
  BY <1>2, <1>3 DEF KnowledgeInv, UndisturbedKnowWhatIsThere

LEMMA StartKeepsKnowledge ==
  ASSUME IInv, KnowledgeInv, NEW p \in Commands, NEW c \in Publications, Start(p, c)
  PROVE  KnowledgeInv'
<1> DEFINE new == [cmd |-> c, at |-> "start", config |-> disk[Config(c)], read |-> <<>>,
                   first |-> <<>>, stood |-> <<>>, seen |-> <<>>, next |-> 1, quiet |-> TRUE]
<1>1. job' = [job EXCEPT ![p] = new] /\ UNCHANGED <<kind, made, disk>>
  BY DEF Start
<1>2. DOMAIN job = Commands
  BY DEF IInv, JobsAreInOrder
<1>3. job'[p] = new /\ \A q \in Commands \ {p} : job'[q] = job[q]
  BY <1>1, <1>2
<1>4. c = "v3" => PinsWhatIsThere(disk[Config(c)])
  BY DEF Start, PinsWhatIsThere
<1>5. /\ new.cmd = c /\ new.at = "start" /\ new.config = disk[Config(c)]
      /\ DOMAIN new.seen = {}
  OBVIOUS
<1> HIDE DEF new
<1>6. VerifiesWhatIsThere(new)
  BY <1>5 DEF VerifiesWhatIsThere
<1>7. ReadsWhatIsThere(new) /\ OpenedWhatIsThere(new)
  BY <1>5 DEF ReadsWhatIsThere, OpenedWhatIsThere
<1>8. KnowsWhatIsThere(new)
  BY <1>4, <1>5, <1>6, <1>7 DEF KnowsWhatIsThere
<1>9. QED
  BY <1>1, <1>3, <1>8, ReadsKeepKnowledge

LEMMA StopKeepsKnowledge ==
  ASSUME IInv, KnowledgeInv, NEW p \in Commands, Stop(p)
  PROVE  KnowledgeInv'
<1>1. DOMAIN job = Commands
  BY DEF IInv, JobsAreInOrder
<1>2. job'[p] = Idle /\ (\A q \in Commands \ {p} : job'[q] = job[q]) /\ UNCHANGED <<kind, made, disk>>
  BY <1>1 DEF Stop
<1>3. QED
  BY <1>2, ReadsKeepKnowledge

\* A command goes on with what it has just read.
LEMMA GoingOnKeepsKnowledge ==
  ASSUME IInv, KnowledgeInv, NEW p \in Commands, job[p] # Idle, NEW step, NEW read, Goes(p, step, read),
         job[p].quiet /\ KnowsWhatIsThere(job[p]) => KnowsWhatIsThere(job'[p])
  PROVE  KnowledgeInv'
<1>1. /\ UNCHANGED <<kind, made, disk>>
      /\ \A q \in Commands \ {p} : job'[q] = job[q]
      /\ job'[p].quiet = job[p].quiet
  BY GoesOn
<1>2. job[p].quiet => KnowsWhatIsThere(job[p])
  BY DEF KnowledgeInv, UndisturbedKnowWhatIsThere
<1>3. QED
  BY <1>1, <1>2, ReadsKeepKnowledge

\* The first legacy dataset, the annual and the quarterly metrics check what
\* they publish when they publish it.
LEMMA OtherReadsKeepKnowledge ==
  ASSUME IInv, KnowledgeInv, NEW p \in Commands,
         \/ ReadMetadata(p) \/ ReadAnalysis(p) \/ DigestAnalysis(p)
         \/ OpenIdentity(p) \/ PinAnalysis(p) \/ ReadRows(p)
         \/ OpenAnnual(p) \/ OpenParentIdentity(p) \/ ReadQuarters(p)
  PROVE  KnowledgeInv'
<1>1. \A c : Closed(c) => kind = "GENERIC" /\ c \in {"identity", "v3"}
  BY DEF Closed
<1>2. job[p] # Idle /\ Closed(job[p].cmd) => job[p].at \in Steps
  BY DEF IInv, JobsAreInOrder, InOrder, IsInItsClosure
<1>3. ASSUME NEW c \in {"identity", "metrics", "quarters"}, NEW step, At(p, c, step), ~Closed(c),
             NEW next, NEW read, Goes(p, next, read)
      PROVE  KnowledgeInv'
  <2>1. job[p] # Idle /\ job[p].cmd = c
    BY <1>3 DEF At
  <2>2. job'[p].cmd = job[p].cmd /\ job'[p].config = job[p].config
    BY <1>3, <2>1, GoesOn
  <2>3. KnowsWhatIsThere(job[p]) => KnowsWhatIsThere(job'[p])
    BY <1>3, <2>1, <2>2 DEF KnowsWhatIsThere
  <2>4. QED
    BY <1>3, <2>1, <2>3, GoingOnKeepsKnowledge
<1>4. CASE ReadMetadata(p)
  BY <1>1, <1>3, <1>4 DEF ReadMetadata
<1>5. CASE ReadAnalysis(p)
  BY <1>2, <1>3, <1>5 DEF ReadAnalysis, At, Steps
<1>6. CASE DigestAnalysis(p)
  BY <1>2, <1>3, <1>6 DEF DigestAnalysis, At, Steps
<1>7. CASE OpenIdentity(p)
  BY <1>1, <1>3, <1>7 DEF OpenIdentity
<1>8. CASE PinAnalysis(p)
  BY <1>1, <1>3, <1>8 DEF PinAnalysis
<1>9. CASE ReadRows(p)
  BY <1>1, <1>3, <1>9 DEF ReadRows
<1>10. CASE OpenAnnual(p)
  BY <1>1, <1>3, <1>10 DEF OpenAnnual
<1>11. CASE OpenParentIdentity(p)
  BY <1>1, <1>3, <1>11 DEF OpenParentIdentity
<1>12. CASE ReadQuarters(p)
  <2>1. ~Closed("quarters")
    BY <1>1
  <2>2. At(p, "quarters", "identity")
    BY <1>12 DEF ReadQuarters
  <2>3. Goes(p, "stage", [metrics |-> job[p].read.metrics, identity |-> job[p].read.identity,
                          rows |-> disk[Data("quarterly")]])
    BY <1>12, Zenon DEF ReadQuarters
  <2>4. QED
    BY <1>3, <2>1, <2>2, <2>3, Zenon
<1>13. QED
  BY <1>4, <1>5, <1>6, <1>7, <1>8, <1>9, <1>10, <1>11, <1>12

-----------------------------------------------------------------------------
(* The parents of a dataset v2 and of a v3 over a legacy identity          *)

LEMMA V2ReadsKeepKnowledge ==
  ASSUME IInv, KnowledgeInv, NEW p \in Commands, OpenSource(p) \/ OpenMetrics(p) \/ ReadIdentityRows(p)
  PROVE  KnowledgeInv'
<1> DEFINE r == job[p]
           identity == disk[Data("identity")]
           metrics == disk[Data("metrics")]
<1>1. job[p] # Idle /\ r.cmd = "v2" /\ ~Closed("v2")
  BY DEF OpenSource, OpenMetrics, ReadIdentityRows, At, Closed
<1>2. ASSUME NEW step, NEW read, Goes(p, step, read)
      PROVE  /\ job'[p].at = step /\ job'[p].read = read
             /\ job'[p].cmd = "v2" /\ job'[p].config = r.config
  BY <1>1, <1>2, GoesOn
<1>3. ASSUME NEW step, NEW read, Goes(p, step, read),
             KnowsWhatIsThere(r) => ReadsWhatIsThere(job'[p])
      PROVE  KnowledgeInv'
  <2>1. KnowsWhatIsThere(r) => KnowsWhatIsThere(job'[p])
    BY <1>1, <1>2, <1>3 DEF KnowsWhatIsThere
  <2>2. QED
    BY <1>1, <1>3, <2>1, GoingOnKeepsKnowledge
<1>4. KnowsWhatIsThere(r) => ReadsWhatIsThere(r)
  BY <1>1 DEF KnowsWhatIsThere
<1> HIDE DEF r
<1>5. CASE OpenSource(p)
  <2>1. /\ Goes(p, "identity", [identity |-> identity])
        /\ identity # Absent /\ identity = made[r.config].identity /\ OpensIdentity(disk)
    BY <1>5 DEF OpenSource, r
  <2>2. ReadsWhatIsThere(job'[p])
    BY <1>2, <2>1 DEF ReadsWhatIsThere
  <2>3. QED
    BY <1>3, <2>1, <2>2
<1>6. CASE OpenMetrics(p)
  <2> DEFINE read == [identity |-> r.read.identity, metrics |-> metrics]
  <2>1. /\ r.at = "identity" /\ Goes(p, "metrics", read)
        /\ metrics # Absent /\ metrics = made[r.config].metrics /\ OpensMetrics(disk)
        /\ SharesIdentity(made[metrics], r.read.identity, identity)
    BY <1>6 DEF OpenMetrics, At, r
  <2>2. /\ job'[p].at = "metrics" /\ job'[p].read = read /\ job'[p].config = r.config
        /\ read.identity = r.read.identity /\ read.metrics = metrics
    BY <1>2, <2>1
  <2> HIDE DEF read
  <2>3. ReadsWhatIsThere(r) => ReadsWhatIsThere(job'[p])
    BY <2>1, <2>2 DEF ReadsWhatIsThere
  <2>4. QED
    BY <1>3, <1>4, <2>1, <2>3
<1>7. CASE ReadIdentityRows(p)
  <2> DEFINE read == [identity |-> r.read.identity, metrics |-> r.read.metrics,
                      metadata |-> MetadataOf(disk, r.read.identity), config_sha |-> disk[Config("v2")]]
  <2>1. r.at = "metrics" /\ Goes(p, "stage", read)
    BY <1>7 DEF ReadIdentityRows, At, r
  <2>2. /\ job'[p].at = "stage" /\ job'[p].read = read /\ job'[p].config = r.config
        /\ read.identity = r.read.identity /\ read.metrics = r.read.metrics
        /\ read.metadata = MetadataOf(disk, r.read.identity) /\ read.config_sha = disk[Config("v2")]
    BY <1>2, <2>1
  <2> HIDE DEF read
  <2>3. ReadsWhatIsThere(r) => ReadsWhatIsThere(job'[p])
    BY <2>1, <2>2 DEF ReadsWhatIsThere
  <2>4. QED
    BY <1>3, <1>4, <2>1, <2>3
<1>8. QED
  BY <1>5, <1>6, <1>7

LEMMA OpenParentsKeepsKnowledge ==
  ASSUME IInv, KnowledgeInv, NEW p \in Commands, OpenParents(p)
  PROVE  KnowledgeInv'
<1> DEFINE read == [config_sha |-> disk[Config("v3")], annual |-> V2Id(disk[Data("v2")])]
<1>1. /\ job[p] # Idle /\ job[p].cmd = "v3" /\ ~Closed("v3")
      /\ OpensV2(disk) /\ OpensQuarters(disk)
      /\ ParentBinding(made[disk[Data("v2")]], made[disk[Data("quarters")]])
      /\ Goes(p, "parents", read)
  BY DEF OpenParents, At, Closed
<1>2. /\ job'[p].at = "parents" /\ job'[p].read = read
      /\ job'[p].cmd = "v3" /\ job'[p].config = job[p].config
      /\ read.config_sha = disk[Config("v3")] /\ read.annual = V2Id(disk[Data("v2")])
  BY <1>1, GoesOn
<1> HIDE DEF read
<1>3. OpenedWhatIsThere(job'[p])
  BY <1>1, <1>2 DEF OpenedWhatIsThere, ParentsOpen
<1>4. KnowsWhatIsThere(job[p]) => KnowsWhatIsThere(job'[p])
  BY <1>1, <1>2, <1>3 DEF KnowsWhatIsThere
<1>5. QED
  BY <1>1, <1>4, GoingOnKeepsKnowledge

-----------------------------------------------------------------------------
(* The closure is verified file by file                                    *)

Occurs(s, q) == \E i \in 1 .. Len(q) : q[i] = s

LEMMA OccursInEither ==
  ASSUME NEW q1 \in Seq(Paths), NEW q2 \in Seq(Paths), NEW s, Occurs(s, q1) \/ Occurs(s, q2)
  PROVE  Occurs(s, q1 \o q2) /\ q1 \o q2 \in Seq(Paths)
<1>1. /\ q1 \o q2 \in Seq(Paths)
      /\ Len(q1 \o q2) = Len(q1) + Len(q2)
      /\ Len(q1) \in Nat /\ Len(q2) \in Nat
      /\ \A i \in 1 .. Len(q1) : (q1 \o q2)[i] = q1[i]
      /\ \A i \in 1 .. Len(q2) : (q1 \o q2)[Len(q1) + i] = q2[i]
  BY ConcatProperties
<1>2. CASE Occurs(s, q1)
  BY <1>1, <1>2 DEF Occurs
<1>3. CASE Occurs(s, q2)
  <2>1. PICK i \in 1 .. Len(q2) : q2[i] = s
    BY <1>3 DEF Occurs
  <2>2. Len(q1) + i \in 1 .. Len(q1 \o q2) /\ (q1 \o q2)[Len(q1) + i] = s
    BY <1>1, <2>1
  <2>3. QED
    BY <1>1, <2>2 DEF Occurs
<1>4. QED
  BY <1>2, <1>3

\* Every file that a reader of the parents looks at is in the closure.
LEMMA ClosureHoldsWhatIsRead ==
  /\ \A l \in Leaves : Occurs(Data(l), Closure("identity"))
  /\ \A c \in {"v2", "metrics", "identity", "quarters"} \cup Leaves : Occurs(Data(c), Closure("v3"))
  /\ \A c \in {"v2", "metrics", "identity"} : Occurs(Config(c), Closure("v3"))
<1> DEFINE before == <<Config("v3"), Data("v2"), Config("v2"), Data("metrics"), Config("metrics"), Data("identity")>>
           after == <<Data("quarters"), Config("quarters")>>
<1>1. IdentityFiles \in Seq(Paths) /\ before \in Seq(Paths) /\ after \in Seq(Paths)
  BY DEF IdentityFiles, Paths, Data, Config, Leaves, Publications
<1>2. V3Files = (before \o IdentityFiles) \o after
  BY DEF V3Files
<1>3. /\ Occurs(Config("identity"), IdentityFiles) /\ Occurs(Data("metadata"), IdentityFiles)
      /\ Occurs(Data("annual"), IdentityFiles) /\ Occurs(Data("quarterly"), IdentityFiles)
  <2>1. /\ Len(IdentityFiles) = 4
        /\ IdentityFiles[1] = Config("identity") /\ IdentityFiles[2] = Data("metadata")
        /\ IdentityFiles[3] = Data("annual") /\ IdentityFiles[4] = Data("quarterly")
    BY DEF IdentityFiles
  <2>2. QED
    BY <2>1 DEF Occurs
<1>4. /\ Occurs(Data("v2"), before) /\ Occurs(Config("v2"), before)
      /\ Occurs(Data("metrics"), before) /\ Occurs(Config("metrics"), before)
      /\ Occurs(Data("identity"), before)
  <2>1. /\ Len(before) = 6
        /\ before[2] = Data("v2") /\ before[3] = Config("v2") /\ before[4] = Data("metrics")
        /\ before[5] = Config("metrics") /\ before[6] = Data("identity")
    OBVIOUS
  <2> HIDE DEF before
  <2>2. QED
    BY <2>1 DEF Occurs
<1>5. Occurs(Data("quarters"), after)
  <2>1. Len(after) = 2 /\ after[1] = Data("quarters")
    OBVIOUS
  <2> HIDE DEF after
  <2>2. QED
    BY <2>1 DEF Occurs
<1> HIDE DEF before, after
<1>6. ASSUME NEW s, Occurs(s, before) \/ Occurs(s, IdentityFiles) \/ Occurs(s, after)
      PROVE  Occurs(s, V3Files)
  <2>1. before \o IdentityFiles \in Seq(Paths)
    BY <1>1, ConcatProperties
  <2>2. Occurs(s, before \o IdentityFiles) \/ Occurs(s, after)
    BY <1>1, <1>6, OccursInEither
  <2>3. QED
    BY <1>1, <1>2, <2>1, <2>2, OccursInEither
<1>7. Closure("identity") = IdentityFiles /\ Closure("v3") = V3Files
  BY DEF Closure
<1>8. \A l \in Leaves : Occurs(Data(l), IdentityFiles)
  BY <1>3 DEF Leaves
<1>9. \A c \in {"v2", "metrics", "identity", "quarters"} \cup Leaves : Occurs(Data(c), V3Files)
  BY <1>4, <1>5, <1>6, <1>8
<1>10. \A c \in {"v2", "metrics", "identity"} : Occurs(Config(c), V3Files)
  BY <1>3, <1>4, <1>6
<1>11. QED
  BY <1>7, <1>8, <1>9, <1>10

\* A reader that looks at the same files says the same.
LEMMA SeenOpensAsItLies ==
  ASSUME NEW seen,
         \A c \in {"v2", "metrics", "identity", "quarters"} \cup Leaves : seen[Data(c)] = disk[Data(c)],
         \A c \in {"v2", "metrics", "identity"} : seen[Config(c)] = disk[Config(c)],
         OpensV2(seen), OpensQuarters(seen),
         ParentBinding(made[seen[Data("v2")]], made[seen[Data("quarters")]])
  PROVE  ParentsOpen
<1>1. /\ seen[Data("v2")] = disk[Data("v2")] /\ seen[Data("metrics")] = disk[Data("metrics")]
      /\ seen[Data("identity")] = disk[Data("identity")] /\ seen[Data("quarters")] = disk[Data("quarters")]
      /\ seen[Data("metadata")] = disk[Data("metadata")]
      /\ seen[Config("v2")] = disk[Config("v2")] /\ seen[Config("metrics")] = disk[Config("metrics")]
      /\ seen[Config("identity")] = disk[Config("identity")]
  BY DEF Leaves
<1>2. OpensIdentity(seen) /\ OpensMetrics(seen) /\ ConfigUnchanged(seen, "v2")
  BY DEF OpensV2
<1>3. ConfigUnchanged(disk, "v2")
  BY <1>1, <1>2 DEF ConfigUnchanged
<1>4. OpensMetrics(disk)
  BY <1>1, <1>2 DEF OpensMetrics, ConfigUnchanged
<1>5. OpensIdentity(disk)
  <2>1. ConfigUnchanged(disk, "identity")
    BY <1>1, <1>2 DEF OpensIdentity, ConfigUnchanged
  <2>2. CASE kind = "GENERIC"
    BY <1>1, <1>2, <2>1, <2>2 DEF OpensIdentity, SourcesPinned
  <2>3. CASE kind # "GENERIC"
    BY <1>1, <1>2, <2>1, <2>3 DEF OpensIdentity, SourcesNamed, Leaves
  <2>4. QED
    BY <2>2, <2>3
<1>6. MetadataOf(seen, seen[Data("identity")]) = MetadataOf(disk, disk[Data("identity")])
  BY <1>1 DEF MetadataOf
<1>7. OpensV2(disk)
  BY <1>1, <1>3, <1>4, <1>5, <1>6 DEF OpensV2
<1>8. QED
  BY <1>1, <1>7 DEF ParentsOpen, OpensQuarters

\* The last step of a command that publishes.
Ends(p) ==
  PublishV1(p) \/ PublishMetrics(p) \/ PublishQuarters(p) \/ PublishV2(p) \/ PublishClosed(p) \/ WriteV3(p)

LEMMA EndingKeepsKnowledge ==
  ASSUME IInv, KnowledgeInv, NEW p \in Commands, Ends(p)
  PROVE  KnowledgeInv'
<1>1. ASSUME job[p] # Idle, NEW content, Publishes(p, content), content.config = job[p].config
      PROVE  KnowledgeInv'
  BY <1>1, PublishingKeepsKnowledge DEF Publishes
<1>2. CASE PublishV1(p)
  BY <1>1, <1>2 DEF PublishV1, At
<1>3. CASE PublishMetrics(p)
  BY <1>1, <1>3 DEF PublishMetrics, At
<1>4. CASE PublishQuarters(p)
  BY <1>1, <1>4 DEF PublishQuarters, At
<1>5. CASE PublishV2(p)
  BY <1>1, <1>5 DEF PublishV2, At
<1>6. CASE PublishClosed(p)
  <2>1. job[p] # Idle /\ Publishes(p, Manifest(p))
    BY <1>6 DEF PublishClosed, Reading
  <2>2. Manifest(p).config = job[p].config
    BY DEF Manifest
  <2>3. QED
    BY <1>1, <2>1, <2>2
<1>7. CASE WriteV3(p)
  <2> DEFINE v3 == [kind |-> "v3", config |-> job[p].config, config_sha |-> job[p].read.config_sha,
                    v2 |-> made[job[p].config].v2, annual |-> job[p].read.annual,
                    quarters |-> made[job[p].config].quarters]
  <2>1. job[p] # Idle /\ job[p].cmd = "v3" /\ Put(Data("v3"), v3) /\ job' = [Disturb(p) EXCEPT ![p] = Idle]
    BY <1>7 DEF WriteV3, At
  <2>2. v3.config = job[p].config
    OBVIOUS
  <2> HIDE DEF v3
  <2>3. QED
    BY <2>1, <2>2, PublishingKeepsKnowledge
<1>8. QED
  BY <1>2, <1>3, <1>4, <1>5, <1>6, <1>7 DEF Ends

LEMMA KnowsItsClosure ==
  ASSUME NEW r, r.cmd \in {"identity", "v3"}, Closed(r.cmd)
  PROVE  KnowsWhatIsThere(r) <=>
           /\ r.config = disk[Config(r.cmd)]
           /\ VerifiesWhatIsThere(r)
           /\ r.cmd = "v3" => PinsWhatIsThere(r.config)
BY DEF KnowsWhatIsThere

LEMMA ScanKeepsKnowledge ==
  ASSUME IInv, KnowledgeInv, NEW p \in Commands, Scan(p)
  PROVE  KnowledgeInv'
<1> DEFINE r == job[p]
           r2 == job'[p]
           last == job[p].next = Len(Closure(job[p].cmd))
<1>1. Reading(p) /\ r # Idle /\ Closed(r.cmd) /\ r.cmd \in {"identity", "v3"} /\ r.at \in {"start", "again", "post", "final"}
  <2>1. Reading(p) /\ r.at \in {"start", "again", "post", "final"}
    BY Zenon DEF Scan, After
  <2>2. QED
    BY <2>1 DEF Reading, Closed
<1>2. LastFile(p) <=> last
  BY <1>1, PathIsInTheClosure
<1>3. /\ UNCHANGED <<kind, made, disk>>
      /\ \A q \in Commands \ {p} : job'[q] = job[q]
      /\ r2.cmd = r.cmd /\ r2.config = r.config /\ r2.read = r.read /\ r2.quiet = r.quiet
      /\ r2.next = IF last THEN 1 ELSE r.next + 1
  BY <1>2, ScansAndVerifiesGoOn
<1>4. r2.seen = r.seen /\ r2.at = IF last THEN After[r.at] ELSE r.at
  BY <1>2, ScanReads
<1>5. \/ ~last /\ r2.at = r.at
      \/ last /\ r.at = "start" /\ r2.at = "again"
      \/ last /\ r.at = "again" /\ r2.at = "verify" /\ r2.next = 1
      \/ last /\ r.at = "post" /\ r2.at = "stage"
      \/ last /\ r.at = "final" /\ r2.at = "rename"
  BY <1>1, <1>3, <1>4 DEF After
<1> HIDE DEF r, r2, last
<1>6. VerifiesWhatIsThere(r) => VerifiesWhatIsThere(r2)
  <2> SUFFICES ASSUME VerifiesWhatIsThere(r)
               PROVE  VerifiesWhatIsThere(r2)
    OBVIOUS
  <2>1. \A s \in DOMAIN r2.seen : r2.seen[s] = disk[s]
    BY <1>4 DEF VerifiesWhatIsThere
  <2>2. \A i \in 1 .. Len(Closure(r2.cmd)) : ~(r2.at = "check" \/ (r2.at = "verify" /\ i < r2.next))
    BY <1>1, <1>5, ClosureIsOfPaths
  <2>3. r2.at \in {"post", "stage", "staged", "final", "rename"} => r.at \in {"post", "final"}
    BY <1>1, <1>5
  <2>4. r2.at \in {"staged", "final", "rename"} => r.at = "final"
    BY <1>1, <1>5
  <2>5. QED
    BY <1>3, <2>1, <2>2, <2>3, <2>4 DEF VerifiesWhatIsThere
<1>7. KnowsWhatIsThere(r) => KnowsWhatIsThere(r2)
  BY <1>1, <1>3, <1>6, KnowsItsClosure
<1>8. r.quiet => KnowsWhatIsThere(r)
  BY <1>1 DEF KnowledgeInv, UndisturbedKnowWhatIsThere, r
<1>9. QED
  BY <1>3, <1>7, <1>8, ReadsKeepKnowledge DEF r2

LEMMA VerifyKeepsKnowledge ==
  ASSUME IInv, KnowledgeInv, NEW p \in Commands, Verify(p)
  PROVE  KnowledgeInv'
<1> DEFINE r == job[p]
           r2 == job'[p]
           last == job[p].next = Len(Closure(job[p].cmd))
<1>1. Reading(p) /\ r # Idle /\ Closed(r.cmd) /\ r.cmd \in {"identity", "v3"} /\ r.at = "verify"
  <2>1. Reading(p) /\ r.at = "verify"
    BY Zenon DEF Verify
  <2>2. QED
    BY <2>1 DEF Reading, Closed
<1>2. /\ Path(p) = Closure(r.cmd)[r.next]
      /\ Len(Closure(r.cmd)) \in Nat \ {0} /\ r.next \in 1 .. Len(Closure(r.cmd))
      /\ LastFile(p) <=> last
  BY <1>1, PathIsInTheClosure
<1>3. /\ UNCHANGED <<kind, made, disk>>
      /\ \A q \in Commands \ {p} : job'[q] = job[q]
      /\ r2.cmd = r.cmd /\ r2.config = r.config /\ r2.read = r.read /\ r2.quiet = r.quiet
      /\ r2.next = IF last THEN 1 ELSE r.next + 1
  BY <1>2, ScansAndVerifiesGoOn
<1>4. /\ r2.at = IF last THEN "check" ELSE "verify"
      /\ r2.seen = [s \in DOMAIN r.seen \cup {Path(p)} |-> IF s = Path(p) THEN disk[Path(p)] ELSE r.seen[s]]
  BY <1>2, VerifyReads
<1> HIDE DEF r, r2
<1>5. DOMAIN r2.seen = DOMAIN r.seen \cup {Path(p)}
  BY <1>4
<1>6. VerifiesWhatIsThere(r) => VerifiesWhatIsThere(r2)
  <2> SUFFICES ASSUME VerifiesWhatIsThere(r)
               PROVE  VerifiesWhatIsThere(r2)
    OBVIOUS
  <2>1. \A s \in DOMAIN r2.seen : r2.seen[s] = disk[s]
    BY <1>4, <1>5 DEF VerifiesWhatIsThere
  <2>2. ASSUME NEW i \in 1 .. Len(Closure(r2.cmd)), r2.at = "check" \/ (r2.at = "verify" /\ i < r2.next)
        PROVE  Closure(r2.cmd)[i] \in DOMAIN r2.seen
    <3>1. i < r.next \/ i = r.next
      BY <1>2, <1>3, <1>4, <2>2 DEF r
    <3>2. i < r.next => Closure(r.cmd)[i] \in DOMAIN r.seen
      BY <1>1, <1>3 DEF VerifiesWhatIsThere
    <3>3. QED
      BY <1>2, <1>3, <1>5, <3>1, <3>2
  <2>3. r2.at \in {"verify", "check"}
    BY <1>4
  <2>4. QED
    BY <2>1, <2>2, <2>3 DEF VerifiesWhatIsThere
<1>7. KnowsWhatIsThere(r) => KnowsWhatIsThere(r2)
  BY <1>1, <1>3, <1>6, KnowsItsClosure
<1>8. r.quiet => KnowsWhatIsThere(r)
  BY <1>1 DEF KnowledgeInv, UndisturbedKnowWhatIsThere, r
<1>9. QED
  BY <1>3, <1>7, <1>8, ReadsKeepKnowledge DEF r2

\* What was verified file by file lies there, and so stands verified.
LEMMA CheckKeepsKnowledge ==
  ASSUME IInv, KnowledgeInv, NEW p \in Commands, Check(p)
  PROVE  KnowledgeInv'
<1> DEFINE r == job[p]
           r2 == job'[p]
<1>1. /\ r # Idle /\ Closed(r.cmd) /\ r.cmd \in {"identity", "v3"} /\ r.at = "check"
      /\ Verified(p) /\ Goes(p, "post", <<>>)
  BY DEF Check, Reading, Closed
<1>2. r2.at = "post" /\ r2.cmd = r.cmd /\ r2.config = r.config /\ r2.seen = r.seen
  BY <1>1, GoesOn
<1>3. ASSUME KnowsWhatIsThere(r)
      PROVE  KnowsWhatIsThere(r2)
  <2>1. VerifiesWhatIsThere(r)
    BY <1>1, <1>3, KnowsItsClosure
  <2>2. ASSUME NEW s, Occurs(s, Closure(r.cmd))
        PROVE  r.seen[s] = disk[s]
    BY <1>1, <2>1, <2>2 DEF VerifiesWhatIsThere, Occurs
  <2>3. CASE r.cmd = "identity"
    <3>1. \A l \in Leaves : r.seen[Data(l)] = disk[Data(l)]
      BY <2>2, <2>3, ClosureHoldsWhatIsRead
    <3>2. SourcesPinned(r.seen, r.config)
      BY <1>1, <2>3 DEF Verified
    <3>3. SourcesPinned(disk, r.config)
      BY <3>1, <3>2 DEF SourcesPinned
    <3> HIDE DEF r, r2
    <3>4. VerifiesWhatIsThere(r2)
      BY <1>2, <2>1, <2>3, <3>3 DEF VerifiesWhatIsThere
    <3>5. QED
      BY <1>1, <1>2, <1>3, <2>3, <3>4, KnowsItsClosure
  <2>4. CASE r.cmd = "v3"
    <3>1. /\ \A c \in {"v2", "metrics", "identity", "quarters"} \cup Leaves : r.seen[Data(c)] = disk[Data(c)]
          /\ \A c \in {"v2", "metrics", "identity"} : r.seen[Config(c)] = disk[Config(c)]
      BY <2>2, <2>4, ClosureHoldsWhatIsRead
    <3>2. /\ OpensV2(r.seen) /\ OpensQuarters(r.seen)
          /\ ParentBinding(made[r.seen[Data("v2")]], made[r.seen[Data("quarters")]])
      BY <1>1, <2>4 DEF Verified
    <3> HIDE DEF r, r2
    <3>3. ParentsOpen
      BY <3>1, <3>2, SeenOpensAsItLies
    <3>4. VerifiesWhatIsThere(r2)
      BY <1>2, <2>1, <2>4, <3>3 DEF VerifiesWhatIsThere
    <3>5. QED
      BY <1>1, <1>2, <1>3, <2>4, <3>4, KnowsItsClosure
  <2>5. QED
    BY <1>1, <2>3, <2>4
<1>4. QED
  BY <1>1, <1>3, GoingOnKeepsKnowledge

LEMMA StagingKeepsKnowledge ==
  ASSUME IInv, KnowledgeInv, NEW p \in Commands, Stage(p) \/ CheckStaged(p)
  PROVE  KnowledgeInv'
<1> DEFINE r == job[p]
           r2 == job'[p]
<1>1. r # Idle /\ Closed(r.cmd) /\ r.cmd \in {"identity", "v3"}
  BY DEF Stage, CheckStaged, Reading, Closed
<1>2. PICK step, read :
        /\ Goes(p, step, read) /\ step \in {"staged", "final"} /\ r.at \in {"stage", "staged"}
        /\ read.config_sha = disk[Config(r.cmd)]
  <2>1. CASE Stage(p)
    BY <2>1 DEF Stage
  <2>2. CASE CheckStaged(p)
    BY <2>2 DEF CheckStaged
  <2>3. QED
    BY <2>1, <2>2
<1>3. r2.at = step /\ r2.read = read /\ r2.cmd = r.cmd /\ r2.config = r.config /\ r2.seen = r.seen
  BY <1>1, <1>2, GoesOn
<1> HIDE DEF r2
<1>4. VerifiesWhatIsThere(r) => VerifiesWhatIsThere(r2)
  BY <1>2, <1>3 DEF VerifiesWhatIsThere
<1>5. KnowsWhatIsThere(r) => KnowsWhatIsThere(r2)
  BY <1>1, <1>3, <1>4, KnowsItsClosure
<1>6. QED
  BY <1>1, <1>2, <1>5, GoingOnKeepsKnowledge DEF r2

LEMMA NextKeepsKnowledge ==
  ASSUME IInv, KnowledgeInv, [Next]_vars
  PROVE  KnowledgeInv'
<1>1. CASE Operator
  BY <1>1, OperatorKeepsKnowledge
<1>2. ASSUME NEW p \in Commands, Command(p)
      PROVE  KnowledgeInv'
  <2>1. CASE \E c \in Publications : Start(p, c)
    BY <2>1, StartKeepsKnowledge
  <2>2. CASE \/ ReadMetadata(p) \/ ReadAnalysis(p) \/ DigestAnalysis(p)
             \/ OpenIdentity(p) \/ PinAnalysis(p) \/ ReadRows(p)
             \/ OpenAnnual(p) \/ OpenParentIdentity(p) \/ ReadQuarters(p)
    BY <2>2, OtherReadsKeepKnowledge
  <2>3. CASE OpenSource(p) \/ OpenMetrics(p) \/ ReadIdentityRows(p)
    BY <2>3, V2ReadsKeepKnowledge
  <2>4. CASE OpenParents(p)
    BY <2>4, OpenParentsKeepsKnowledge
  <2>5. CASE Scan(p)
    BY <2>5, ScanKeepsKnowledge
  <2>6. CASE Verify(p)
    BY <2>6, VerifyKeepsKnowledge
  <2>7. CASE Check(p)
    BY <2>7, CheckKeepsKnowledge
  <2>8. CASE Stage(p) \/ CheckStaged(p)
    BY <2>8, StagingKeepsKnowledge
  <2>9. CASE MakeDirectory(p)
    BY <2>9, MakeDirectoryKeepsKnowledge
  <2>10. CASE Stop(p)
    BY <2>10, StopKeepsKnowledge
  <2>11. CASE Ends(p)
    BY <2>11, EndingKeepsKnowledge
  <2>12. QED
    BY <1>2, <2>1, <2>2, <2>3, <2>4, <2>5, <2>6, <2>7, <2>8, <2>9, <2>10, <2>11 DEF Command, Ends
<1>3. CASE UNCHANGED vars
  <2>1. UNCHANGED kind /\ UNCHANGED made /\ UNCHANGED disk /\ UNCHANGED job
    BY <1>3 DEF vars
  <2>2. PublicationsNameTheirConfig'
    BY <2>1 DEF KnowledgeInv, PublicationsNameTheirConfig, NamesAConfig
  <2>3. ASSUME NEW q \in Commands, job'[q] # Idle, job'[q].quiet
        PROVE  KnowsWhatIsThere(job[q])'
    BY <2>1, <2>3, KnowledgeOfTheSame DEF KnowledgeInv, UndisturbedKnowWhatIsThere
  <2>4. QED
    BY <2>2, <2>3 DEF KnowledgeInv, UndisturbedKnowWhatIsThere
<1>4. QED
  BY <1>1, <1>2, <1>3 DEF Next

-----------------------------------------------------------------------------
(* What a command nobody disturbed publishes                               *)

LEMMA InitKnowsNothing ==
  ASSUME Init
  PROVE  KnowledgeInv
<1>1. \A p \in Commands : job[p] = Idle
  BY DEF Init
<1>2. \A c \in {"identity", "metrics", "v2"} :
        Data(c) \in Paths /\ Data(c) # Data("annual") /\ Data(c) # Data("quarterly")
  BY DataArePaths, PathsDiffer DEF Publications
<1>3. \A c \in {"identity", "metrics", "v2"} : disk[Data(c)] = Absent
  BY <1>2 DEF Init
<1>4. QED
  BY <1>1, <1>3 DEF KnowledgeInv, PublicationsNameTheirConfig, NamesAConfig, UndisturbedKnowWhatIsThere

\* A command nobody disturbed has the config that lies there.
LEMMA KnowsItsConfig ==
  ASSUME IInv, KnowledgeInv, NEW p \in Commands, job[p] # Idle, job[p].quiet
  PROVE  /\ KnowsWhatIsThere(job[p])
         /\ job[p].cmd \in Publications /\ job[p].config \in 1 .. Len(made)
         /\ job[p].config = disk[Config(job[p].cmd)]
<1>1. KnowsWhatIsThere(job[p])
  BY DEF KnowledgeInv, UndisturbedKnowWhatIsThere
<1>2. IsCommand(job[p], made)
  BY DEF IInv, JobsAreInOrder, InOrder
<1>3. QED
  BY <1>1, <1>2 DEF KnowsWhatIsThere, IsCommand

\* Where a content was put it is found, with the config it was made from.
LEMMA PublishedIsFound ==
  ASSUME IInv, NEW c \in Publications, NEW content, Put(Data(c), content),
         content.config = disk[Config(c)], content.config_sha = disk[Config(c)]
  PROVE  /\ disk'[Data(c)] \in 1 .. Len(made') /\ disk'[Data(c)] # Absent
         /\ made'[disk'[Data(c)]] = content
         /\ ConfigUnchanged(disk, c)'
         /\ \A d \in (Leaves \cup Publications) \ {c} : disk'[Data(d)] = disk[Data(d)]
         /\ \A d \in Publications : disk'[Config(d)] = disk[Config(d)]
         /\ \A i \in 1 .. Len(made) : made'[i] = made[i]
<1>1. Data(c) \in Paths
  BY DataArePaths
<1>2. /\ Extends(made', made)
      /\ disk'[Data(c)] \in 1 .. Len(made') /\ made'[disk'[Data(c)]] = content
      /\ \A s \in Paths \ {Data(c)} : disk'[s] = disk[s]
  BY <1>1, PutEnters DEF IInv
<1>3. disk'[Data(c)] # Absent
  BY <1>2 DEF Extends, Absent
<1>4. \A d \in (Leaves \cup Publications) \ {c} : disk'[Data(d)] = disk[Data(d)]
  BY <1>2, DataArePaths, PathsDiffer
<1>5. \A d \in Publications : disk'[Config(d)] = disk[Config(d)]
  BY <1>2, ConfigsArePaths, PathsDiffer
<1>6. ConfigUnchanged(disk, c)'
  BY <1>2, <1>3, <1>5 DEF ConfigUnchanged
<1>7. QED
  BY <1>2, <1>3, <1>4, <1>5, <1>6 DEF Extends

LEMMA PublishV1Opens ==
  ASSUME IInv, KnowledgeInv, NEW p \in Commands, job[p] # Idle, job[p].quiet, PublishV1(p)
  PROVE  Opens("identity", disk)'
<1> DEFINE content ==
        [kind |-> "identity", config |-> job[p].config, config_sha |-> disk[Config("identity")],
         rows |-> job[p].read.rows,
         sources |-> [annual |-> job[p].read.annual, metadata |-> disk[Data("metadata")]]]
<1>1. /\ kind = "LEGACY" /\ kind' = kind /\ job[p].cmd = "identity"
      /\ SourcesNamed(disk, content) /\ Put(Data("identity"), content)
  BY DEF PublishV1, Publishes, At
<1>2. content.config = disk[Config("identity")] /\ content.config_sha = disk[Config("identity")]
  BY <1>1, KnowsItsConfig
<1> HIDE DEF content
<1>3. /\ disk'[Data("identity")] # Absent /\ made'[disk'[Data("identity")]] = content
      /\ ConfigUnchanged(disk, "identity")'
      /\ \A d \in (Leaves \cup Publications) \ {"identity"} : disk'[Data(d)] = disk[Data(d)]
  BY <1>1, <1>2, PublishedIsFound DEF Publications
<1>4. \A l \in {"annual", "metadata"} : disk'[Data(l)] = content.sources[l] /\ disk'[Data(l)] = content.rows[l]
  BY <1>1, <1>3 DEF SourcesNamed, Leaves
<1>5. SourcesNamed(disk, made[disk[Data("identity")]])'
  BY <1>3, <1>4 DEF SourcesNamed
<1>6. OpensIdentity(disk)'
  BY <1>1, <1>3, <1>5 DEF OpensIdentity
<1>7. QED
  BY <1>3, <1>6 DEF Opens

LEMMA PublishMetricsOpens ==
  ASSUME IInv, KnowledgeInv, NEW p \in Commands, job[p] # Idle, job[p].quiet, PublishMetrics(p)
  PROVE  Opens("metrics", disk)'
<1> DEFINE content ==
       [kind |-> "metrics", config |-> job[p].config, config_sha |-> disk[Config("metrics")],
        rows |-> job[p].read.rows, identity |-> job[p].read.identity,
        identity_sha |-> disk[Data("identity")]]
<1>1. job[p].cmd = "metrics" /\ disk[Data("identity")] # Absent /\ Put(Data("metrics"), content)
  BY DEF PublishMetrics, Publishes, At
<1>2. /\ content.config = disk[Config("metrics")] /\ content.config_sha = disk[Config("metrics")]
      /\ content.identity_sha = disk[Data("identity")]
  BY <1>1, KnowsItsConfig
<1> HIDE DEF content
<1>3. /\ disk'[Data("metrics")] # Absent /\ made'[disk'[Data("metrics")]] = content
      /\ ConfigUnchanged(disk, "metrics")'
      /\ \A d \in (Leaves \cup Publications) \ {"metrics"} : disk'[Data(d)] = disk[Data(d)]
  BY <1>1, <1>2, PublishedIsFound DEF Publications
<1>4. disk'[Data("identity")] = disk[Data("identity")]
  BY <1>3 DEF Publications
<1>5. OpensMetrics(disk)'
  BY <1>1, <1>2, <1>3, <1>4 DEF OpensMetrics
<1>6. QED
  BY <1>3, <1>5 DEF Opens

LEMMA PublishQuartersOpens ==
  ASSUME IInv, NEW p \in Commands, PublishQuarters(p)
  PROVE  Opens("quarters", disk)'
<1>1. PICK content : Put(Data("quarters"), content)
  BY DEF PublishQuarters, Publishes, At
<1>2. Data("quarters") \in Paths
  BY DataArePaths DEF Publications
<1>3. disk'[Data("quarters")] \in 1 .. Len(made') /\ Extends(made', made)
  BY <1>1, <1>2, PutEnters DEF IInv
<1>4. disk'[Data("quarters")] # Absent
  BY <1>3 DEF Extends, Absent
<1>5. QED
  BY <1>4 DEF Opens, OpensQuarters

LEMMA PublishV2Opens ==
  ASSUME IInv, KnowledgeInv, NEW p \in Commands, job[p] # Idle, job[p].quiet, PublishV2(p)
  PROVE  Opens("v2", disk)'
<1> DEFINE r == job[p]
           identity == disk[Data("identity")]
           metrics == disk[Data("metrics")]
           content ==
             [kind |-> "v2", config |-> r.config, config_sha |-> r.read.config_sha,
              metrics |-> MetricsId(r.read.metrics), metrics_sha |-> metrics,
              identity |-> r.read.identity, identity_sha |-> identity,
              rows |-> made[r.read.metrics].rows, metadata |-> r.read.metadata]
<1>1. r.cmd = "v2" /\ r.at = "stage" /\ kind' = kind /\ Put(Data("v2"), content)
  BY DEF PublishV2, Publishes, At
<1>2. r.config = disk[Config("v2")] /\ r.config \in 1 .. Len(made) /\ ReadsWhatIsThere(r)
  BY <1>1, KnowsItsConfig DEF KnowsWhatIsThere
<1>3. /\ r.read.identity = identity /\ identity # Absent /\ identity = made[r.config].identity
      /\ r.read.metrics = metrics /\ metrics # Absent /\ metrics = made[r.config].metrics
      /\ r.read.metadata = MetadataOf(disk, identity) /\ r.read.config_sha = disk[Config("v2")]
      /\ OpensIdentity(disk) /\ OpensMetrics(disk)
      /\ SharesIdentity(made[metrics], identity, identity)
  BY <1>1, <1>2 DEF ReadsWhatIsThere
<1>4. /\ content.config = r.config /\ content.config_sha = disk[Config("v2")]
      /\ content.metrics = MetricsId(metrics) /\ content.metrics_sha = metrics
      /\ content.identity = identity /\ content.identity_sha = identity
      /\ content.rows = made[metrics].rows /\ content.metadata = MetadataOf(disk, identity)
  BY <1>3
<1> HIDE DEF content, r
<1>5. /\ disk'[Data("v2")] # Absent /\ made'[disk'[Data("v2")]] = content
      /\ ConfigUnchanged(disk, "v2")'
      /\ \A d \in (Leaves \cup Publications) \ {"v2"} : disk'[Data(d)] = disk[Data(d)]
      /\ \A i \in 1 .. Len(made) : made'[i] = made[i]
  BY <1>1, <1>2, <1>4, PublishedIsFound DEF Publications
<1>6. identity \in 1 .. Len(made) /\ metrics \in 1 .. Len(made)
  BY <1>3, LiesInTheTable, DataArePaths DEF Publications
<1>7. /\ identity' = identity /\ metrics' = metrics /\ disk'[Data("metadata")] = disk[Data("metadata")]
      /\ made'[identity] = made[identity] /\ made'[metrics] = made[metrics]
      /\ made'[content.config] = made[r.config]
  BY <1>2, <1>4, <1>5, <1>6 DEF Leaves, Publications
<1>8. OpensIdentity(disk)' /\ OpensMetrics(disk)'
  BY <1>1, <1>3, IdentityGoesOnOpening, MetricsGoOnOpening DEF KnowledgeInv
<1>9. MetricsId(metrics)' = MetricsId(metrics)
  BY <1>7 DEF MetricsId
<1>10. MetadataOf(disk, identity)' = MetadataOf(disk, identity)
  BY <1>1, <1>7 DEF MetadataOf
<1>11. SharesIdentity(made[metrics], identity, identity)'
  BY <1>3, <1>7 DEF SharesIdentity
<1>12. OpensV2(disk)'
  <2> DEFINE v2 == made[disk[Data("v2")]]
  <2>1. v2' = content
    BY <1>5
  <2>2. /\ (metrics = v2.metrics_sha)' /\ (metrics = made[v2.config].metrics)'
        /\ (identity = made[v2.config].identity)' /\ (identity = v2.identity_sha)'
        /\ (identity = v2.identity)'
        /\ (v2.rows = made[metrics].rows)'
    BY <1>3, <1>4, <1>7, <2>1
  <2>3. (MetricsId(metrics) = v2.metrics)'
    BY <1>4, <1>9, <2>1
  <2>4. (v2.metadata = MetadataOf(disk, identity))'
    BY <1>4, <1>10, <2>1
  <2>5. QED
    BY <1>5, <1>8, <1>11, <2>2, <2>3, <2>4, Zenon DEF OpensV2
<1>13. QED
  BY <1>5, <1>12 DEF Opens

\* A v3 of parents that open and that its config pins opens beside them.
LEMMA PublishedV3Opens ==
  ASSUME IInv, KnowledgeInv, UNCHANGED kind, NEW content, Put(Data("v3"), content),
         content.kind = "v3",
         content.config = disk[Config("v3")], content.config_sha = disk[Config("v3")],
         content.v2 = disk[Data("v2")], content.quarters = disk[Data("quarters")],
         content.annual = V2Id(disk[Data("v2")]),
         disk[Data("v2")] # Absent, ParentsOpen
  PROVE  Opens("v3", disk)'
<1> DEFINE v2 == disk[Data("v2")]
           quarters == disk[Data("quarters")]
<1>1. /\ disk'[Data("v3")] # Absent /\ made'[disk'[Data("v3")]] = content
      /\ ConfigUnchanged(disk, "v3")'
      /\ \A d \in (Leaves \cup Publications) \ {"v3"} : disk'[Data(d)] = disk[Data(d)]
      /\ \A i \in 1 .. Len(made) : made'[i] = made[i]
  BY PublishedIsFound DEF Publications
<1>2. v2' = v2 /\ quarters' = quarters
  BY <1>1 DEF Publications
<1>3. v2 \in 1 .. Len(made)
  BY LiesInTheTable, DataArePaths DEF Publications
<1>4. V2Id(v2)' = V2Id(v2)
  BY <1>1, <1>2, <1>3 DEF V2Id
<1>5. ParentsOpen'
  BY ParentsGoOnOpening DEF KnowledgeInv
<1>6. OpensV2(disk)' /\ OpensQuarters(disk)' /\ ParentBinding(made[v2], made[quarters])'
  BY <1>5 DEF ParentsOpen
<1>7. Whole(disk[Data("v3")])'
  BY <1>1 DEF Whole
<1> DEFINE v3 == made[disk[Data("v3")]]
<1>8. v3' = content
  BY <1>1
<1>9. (v2 = v3.v2)' /\ (quarters = v3.quarters)' /\ (v3.v2 # Absent)'
  BY <1>2, <1>8
<1>10. (V2Id(v3.v2) = v3.annual)'
  <2>1. (V2Id(v3.v2))' = V2Id(v2)'
    BY <1>9 DEF V2Id
  <2>2. QED
    BY <1>4, <1>8, <2>1
<1>11. ParentBinding(made[v3.v2], made[v3.quarters])'
  BY <1>6, <1>9 DEF ParentBinding
<1>12. OpensV3(disk)'
  BY <1>1, <1>6, <1>7, <1>9, <1>10, <1>11, Zenon DEF OpensV3
<1>13. QED
  BY <1>12 DEF Opens

LEMMA PublishClosedOpens ==
  ASSUME IInv, KnowledgeInv, NEW p \in Commands, job[p] # Idle, job[p].quiet, PublishClosed(p),
         NEW c, job[p].cmd = c
  PROVE  Opens(c, disk)'
<1> DEFINE r == job[p]
           content == Manifest(p)
<1>1. /\ r.cmd \in {"identity", "v3"} /\ kind = "GENERIC" /\ kind' = kind /\ Closed(r.cmd) /\ r.at = "rename"
      /\ Put(Data(r.cmd), content) /\ job'= [Disturb(p) EXCEPT ![p] = Idle]
  BY DEF PublishClosed, Publishes, Reading, Closed
<1>2. /\ r.config = disk[Config(r.cmd)] /\ r.config \in 1 .. Len(made)
      /\ VerifiesWhatIsThere(r) /\ (r.cmd = "v3" => PinsWhatIsThere(r.config))
  BY <1>1, KnowsItsConfig DEF KnowsWhatIsThere
<1>3. r.read.config_sha = disk[Config(r.cmd)]
  BY <1>1, <1>2 DEF VerifiesWhatIsThere
<1>4. CASE r.cmd = "identity"
  <2>1. content.config = disk[Config("identity")] /\ content.config_sha = disk[Config("identity")]
    BY <1>2, <1>3, <1>4 DEF Manifest
  <2> HIDE DEF content
  <2>2. /\ disk'[Data("identity")] # Absent
        /\ ConfigUnchanged(disk, "identity")'
        /\ \A d \in (Leaves \cup Publications) \ {"identity"} : disk'[Data(d)] = disk[Data(d)]
        /\ \A d \in Publications : disk'[Config(d)] = disk[Config(d)]
        /\ \A i \in 1 .. Len(made) : made'[i] = made[i]
    BY <1>1, <1>4, <2>1, PublishedIsFound DEF Publications
  <2>3. \A l \in Leaves : disk[Data(l)] = made[r.config].pins[l]
    BY <1>1, <1>2, <1>4 DEF VerifiesWhatIsThere, SourcesPinned
  <2>4. \A l \in Leaves : disk'[Data(l)] = disk[Data(l)]
    BY <2>2 DEF Leaves, Publications
  <2>5. disk'[Config("identity")] = r.config /\ made'[r.config] = made[r.config]
    BY <1>2, <1>4, <2>2 DEF Publications
  <2>6. SourcesPinned(disk, disk[Config("identity")])'
    BY <2>3, <2>4, <2>5 DEF SourcesPinned
  <2>7. OpensIdentity(disk)'
    BY <1>1, <2>2, <2>6 DEF OpensIdentity
  <2>8. Opens("identity", disk)'
    BY <2>2, <2>7 DEF Opens
  <2>9. QED
    BY <1>4, <2>8
<1>5. CASE r.cmd = "v3"
  <2>1. /\ disk[Data("v2")] # Absent /\ disk[Data("v2")] = made[r.config].v2
        /\ disk[Data("quarters")] = made[r.config].quarters
    BY <1>2, <1>5 DEF PinsWhatIsThere
  <2>2. ParentsOpen
    BY <1>1, <1>2, <1>5 DEF VerifiesWhatIsThere
  <2>3. /\ content.kind = "v3"
        /\ content.config = disk[Config("v3")] /\ content.config_sha = disk[Config("v3")]
        /\ content.v2 = disk[Data("v2")] /\ content.quarters = disk[Data("quarters")]
        /\ content.annual = V2Id(disk[Data("v2")])
    BY <1>2, <1>3, <1>5, <2>1 DEF Manifest
  <2> HIDE DEF content
  <2>4. QED
    BY <1>1, <1>5, <2>1, <2>2, <2>3, PublishedV3Opens
<1>6. QED
  BY <1>1, <1>4, <1>5

LEMMA WriteV3Opens ==
  ASSUME IInv, KnowledgeInv, NEW p \in Commands, job[p] # Idle, job[p].quiet, WriteV3(p)
  PROVE  Opens("v3", disk)'
<1> DEFINE r == job[p]
           content ==
             [kind |-> "v3", config |-> r.config, config_sha |-> r.read.config_sha,
              v2 |-> made[r.config].v2, annual |-> r.read.annual, quarters |-> made[r.config].quarters]
<1>1. /\ r.cmd = "v3" /\ ~Closed("v3") /\ r.at = "directory" /\ kind' = kind
      /\ Put(Data("v3"), content)
  BY DEF WriteV3, At, Closed
<1>2. /\ r.config = disk[Config("v3")]
      /\ PinsWhatIsThere(r.config) /\ OpenedWhatIsThere(r)
  BY <1>1, KnowsItsConfig DEF KnowsWhatIsThere
<1>3. /\ disk[Data("v2")] # Absent /\ disk[Data("v2")] = made[r.config].v2
      /\ disk[Data("quarters")] = made[r.config].quarters
  BY <1>2 DEF PinsWhatIsThere
<1>4. /\ ParentsOpen
      /\ r.read.config_sha = disk[Config("v3")] /\ r.read.annual = V2Id(disk[Data("v2")])
  BY <1>1, <1>2 DEF OpenedWhatIsThere
<1>5. /\ content.kind = "v3"
      /\ content.config = disk[Config("v3")] /\ content.config_sha = disk[Config("v3")]
      /\ content.v2 = disk[Data("v2")] /\ content.quarters = disk[Data("quarters")]
      /\ content.annual = V2Id(disk[Data("v2")])
  BY <1>2, <1>3, <1>4
<1> HIDE DEF content
<1>6. QED
  BY <1>1, <1>3, <1>4, <1>5, PublishedV3Opens

\* A command that ends with another file where it publishes has published it.
LEMMA WhoChangesItEnds ==
  ASSUME IInv, [Next]_vars, NEW p \in Commands, job[p] # Idle, job'[p] = Idle,
         NEW c \in Publications, disk'[Data(c)] # disk[Data(c)]
  PROVE  Ends(p)
<1>1. DOMAIN job[p] = JobFields
  BY DEF IInv, JobsAreInOrder, InOrder, IsCommand
<1>2. job' # job /\ disk' # disk
  OBVIOUS
<1>3. ASSUME NEW q, q # p, job'[p] = Disturb(q)[p]
      PROVE  FALSE
  <2>1. Disturb(q)[p] = [job[p] EXCEPT !.quiet = FALSE]
    BY <1>3 DEF Disturb
  <2>2. DOMAIN Disturb(q)[p] = JobFields /\ DOMAIN Idle = {"cmd"}
    BY <1>1, <2>1 DEF Idle
  <2>3. QED
    BY <1>3, <2>2 DEF JobFields
<1>4. ~Operator
  <2>1. Operator => job' = Disturb(None)
    BY DEF Operator, PublishMetadata, Prepare, MoveAway, Configure, Reconfigure, Edit
  <2>2. QED
    BY <1>3, <2>1, NobodyAssumption
<1>5. PICK q \in Commands : Command(q)
  BY <1>2, <1>4 DEF Next, vars
<1>6. DOMAIN job = Commands /\ DOMAIN Disturb(q) = Commands
  BY DEF IInv, JobsAreInOrder, Disturb
<1>7. Ends(q) \/ MakeDirectory(q)
  <2>1. ASSUME NEW step, NEW read, Goes(q, step, read)
        PROVE  FALSE
    BY <1>2, <2>1 DEF Goes
  <2>2. ~\E d \in Publications : Start(q, d)
    BY <1>2 DEF Start
  <2>3. ~ReadMetadata(q) /\ ~ReadAnalysis(q) /\ ~DigestAnalysis(q)
    BY <2>1 DEF ReadMetadata, ReadAnalysis, DigestAnalysis
  <2>4. ~OpenIdentity(q) /\ ~PinAnalysis(q) /\ ~ReadRows(q)
    BY <2>1 DEF OpenIdentity, PinAnalysis, ReadRows
  <2>5. ~OpenAnnual(q) /\ ~OpenParentIdentity(q) /\ ~ReadQuarters(q)
    BY <2>1 DEF OpenAnnual, OpenParentIdentity, ReadQuarters
  <2>6. ~OpenSource(q) /\ ~OpenMetrics(q) /\ ~ReadIdentityRows(q) /\ ~OpenParents(q)
    BY <2>1 DEF OpenSource, OpenMetrics, ReadIdentityRows, OpenParents
  <2>7. ~Check(q) /\ ~Stage(q) /\ ~CheckStaged(q)
    BY <2>1 DEF Check, Stage, CheckStaged
  <2>8. ~Scan(q) /\ ~Verify(q)
    BY <1>2, ScansAndVerifiesGoOn
  <2>9. ~Stop(q)
    BY <1>2 DEF Stop
  <2>10. QED
    BY <1>5, <2>2, <2>3, <2>4, <2>5, <2>6, <2>7, <2>8, <2>9 DEF Command, Ends
<1>8. q = p
  <2> SUFFICES ASSUME q # p
               PROVE  FALSE
    OBVIOUS
  <2>1. \E r : job' = [Disturb(q) EXCEPT ![q] = r]
    <3>1. MakeDirectory(q) => job' = [Disturb(q) EXCEPT ![q] = [Disturb(q)[q] EXCEPT !.at = "directory"]]
      BY DEF MakeDirectory
    <3>2. Ends(q) => job' = [Disturb(q) EXCEPT ![q] = Idle]
      BY DEF Ends, PublishV1, PublishMetrics, PublishQuarters, PublishV2, PublishClosed, WriteV3, Publishes
    <3>3. QED
      BY <1>7, <3>1, <3>2
  <2>2. job'[p] = Disturb(q)[p]
    BY <1>6, <2>1
  <2>3. QED
    BY <1>3, <2>2
<1>9. ~MakeDirectory(p)
  <2> SUFFICES ASSUME MakeDirectory(p)
               PROVE  FALSE
    OBVIOUS
  <2>1. job' = [Disturb(p) EXCEPT ![p] = [Disturb(p)[p] EXCEPT !.at = "directory"]]
    BY DEF MakeDirectory
  <2>2. Disturb(p)[p] = job[p]
    BY DEF Disturb
  <2>3. job'[p] = [job[p] EXCEPT !.at = "directory"]
    BY <1>6, <1>8, <2>1, <2>2
  <2>4. DOMAIN job'[p] = JobFields /\ DOMAIN Idle = {"cmd"}
    BY <1>1, <2>3 DEF Idle
  <2>5. QED
    BY <2>4 DEF JobFields
<1>10. QED
  BY <1>7, <1>8, <1>9

\* A command nobody disturbed has the config that lies there, has read what
\* lies there, and what it has verified still stands.
THEOREM UndisturbedStaysKnowing ==
  Spec => []KnowledgeInv
<1>1. Init => KnowledgeInv
  BY InitKnowsNothing
<1>2. IInv /\ KnowledgeInv /\ [Next]_vars => KnowledgeInv'
  BY NextKeepsKnowledge
<1>3. QED
  BY <1>1, <1>2, ChainStaysInOrder, PTL DEF Spec

\* Every reader of the chain accepts what its publisher makes, if nothing
\* changed while the command ran (dataset_v2.py:205): for each of the five
\* publications, and both kinds of identity source.
THEOREM PublishedUndisturbedOpens ==
  Spec => UndisturbedOpens
<1>1. ASSUME IInv, KnowledgeInv, [Next]_vars,
             NEW p \in Commands, job[p] # Idle, job[p].quiet, job'[p] = Idle,
             NEW c \in Publications, job[p].cmd = c, disk[Data(c)] # disk'[Data(c)]
      PROVE  Opens(c, disk)'
  <2>1. Ends(p)
    BY <1>1, WhoChangesItEnds
  <2>2. CASE PublishV1(p)
    BY <1>1, <2>2, PublishV1Opens DEF PublishV1, At
  <2>3. CASE PublishMetrics(p)
    BY <1>1, <2>3, PublishMetricsOpens DEF PublishMetrics, At
  <2>4. CASE PublishQuarters(p)
    BY <1>1, <2>4, PublishQuartersOpens DEF PublishQuarters, At
  <2>5. CASE PublishV2(p)
    BY <1>1, <2>5, PublishV2Opens DEF PublishV2, At
  <2>6. CASE PublishClosed(p)
    BY <1>1, <2>6, PublishClosedOpens
  <2>7. CASE WriteV3(p)
    BY <1>1, <2>7, WriteV3Opens DEF WriteV3, At
  <2>8. QED
    BY <2>1, <2>2, <2>3, <2>4, <2>5, <2>6, <2>7 DEF Ends
<1>2. IInv /\ KnowledgeInv /\ [Next]_vars =>
        [\A p \in Commands :
           job[p] # Idle /\ job[p].quiet /\ job'[p] = Idle =>
             \A c \in Publications :
               job[p].cmd = c /\ disk[Data(c)] # disk'[Data(c)] => Opens(c, disk)']_vars
  BY <1>1
<1>3. QED
  BY <1>2, ChainStaysInOrder, UndisturbedStaysKnowing, PTL DEF Spec, UndisturbedOpens
===============================================================================
