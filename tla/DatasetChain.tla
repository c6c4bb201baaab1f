----------------------------- MODULE DatasetChain -----------------------------
(***************************************************************************)
(* The chain of screening publications and what opening each of them       *)
(* checks.  An identity (a v1 dataset or a generic attestation) names the  *)
(* prepared sources; annual metrics name the identity; quarterly metrics   *)
(* name the annual metrics; dataset v2 names the identity and the annual   *)
(* metrics; dataset v3 names v2 and the quarterly metrics.  Each one lies  *)
(* at a path with the config it was made from at another, and every reader *)
(* compares digests of what lies there now.                                *)
(*                                                                         *)
(* The commands that publish the chain run while an operator edits a       *)
(* config, prepares an analysis again, or moves a publication away to make *)
(* room for another.  A command reads its parents one after another; the   *)
(* generic identity and the v3 of it take the whole closure of their       *)
(* sources before, between and after (verified_source_closure.py).         *)
(*                                                                         *)
(* A digest is the place of a content in the table of all contents made,   *)
(* so that equal contents have equal digests and no others have.           *)
(***************************************************************************)
EXTENDS Naturals, SequencesExt, FiniteSets

CONSTANTS
  Commands,    \* the processes that may run a command
  Budgets,     \* bound: the identity kind, the commands beside each other, the
               \* edits of the operator, the commands of a behavior, and the
               \* publications the operator moves away
  None         \* nobody: the operator is none of the commands

ASSUME NobodyAssumption == None \notin Commands

VARIABLES
  kind,      \* the identity source: "GENERIC" or "LEGACY" (dataset v1)
  made,      \* every content there has been
  disk,      \* the digest of what lies at each path, or Absent
  stamp,     \* the identity of the file at each path: inode and times
  job,
  budget,
  edits,
  starts

vars == <<kind, made, disk, stamp, job, budget, edits, starts>>

Absent == 0

Leaves == {"annual", "quarterly", "metadata"}
Publications == {"identity", "metrics", "quarters", "v2", "v3"}
Data(c) == <<c, "data">>
Config(c) == <<c, "config">>
Paths == {Data(c) : c \in Leaves \cup Publications} \cup {Config(c) : c \in Publications}

\* The publication ID of annual metrics covers the config and the rows, and
\* neither the bytes of the config nor the manifest of the identity.
MetricsId(d) == [config |-> made[d].config, rows |-> made[d].rows]

\* That of dataset v2 covers the ID of the metrics, and not the identity.
V2Id(d) ==
  [config |-> made[d].config, config_sha |-> made[d].config_sha,
   metrics |-> made[d].metrics, rows |-> made[d].rows]

-----------------------------------------------------------------------------
(* Readers, over what lies at the paths                                    *)

ConfigUnchanged(at, c) ==
  /\ at[Data(c)] # Absent
  /\ at[Config(c)] = made[at[Data(c)]].config
  /\ at[Config(c)] = made[at[Data(c)]].config_sha

\* _verify_configured_sources: every source is the one the config pins.
SourcesPinned(at, config) == \A l \in Leaves : at[Data(l)] = made[config].pins[l]

\* The v1 reader: the sources the manifest names, and the rows they give.
SourcesNamed(at, identity) ==
  \A l \in {"annual", "metadata"} :
    at[Data(l)] = identity.sources[l] /\ at[Data(l)] = identity.rows[l]

OpensIdentity(at) ==
  /\ ConfigUnchanged(at, "identity")
  /\ IF kind = "GENERIC" THEN SourcesPinned(at, at[Config("identity")])
                         ELSE SourcesNamed(at, made[at[Data("identity")]])

\* The identity is compared by its manifest alone and not opened.
OpensMetrics(at) ==
  /\ ConfigUnchanged(at, "metrics")
  /\ at[Data("identity")] # Absent
  /\ at[Data("identity")] = made[at[Data("metrics")]].identity_sha

\* Only the publication's own files.
OpensQuarters(at) == at[Data("quarters")] # Absent

\* Mutant: the identity the annual rows were made of is not compared, only
\* the manifest the publication names.
OneManifest(metrics, identity, sha) == metrics.identity_sha = sha

\* The annual metrics and the dataset share one identity source.
SharesIdentity(metrics, identity, sha) ==
  metrics.identity = identity /\ metrics.identity_sha = sha

MetadataOf(at, identity) == IF kind = "GENERIC" THEN at[Data("metadata")] ELSE made[identity].rows["metadata"]

OpensV2(at) ==
  LET v2 == made[at[Data("v2")]]
      metrics == at[Data("metrics")]
      identity == at[Data("identity")] IN
  /\ ConfigUnchanged(at, "v2")
  /\ metrics = v2.metrics_sha /\ metrics = made[v2.config].metrics
  /\ OpensMetrics(at)
  /\ MetricsId(metrics) = v2.metrics
  /\ identity = made[v2.config].identity /\ identity = v2.identity_sha
  /\ OpensIdentity(at)
  /\ identity = v2.identity
  /\ SharesIdentity(made[metrics], identity, identity)
  /\ v2.rows = made[metrics].rows /\ v2.metadata = MetadataOf(at, identity)

\* The quarterly metrics were made for the annual metrics of the dataset.
ParentBinding(v2, quarters) ==
  quarters.annual = v2.metrics /\ quarters.annual_sha = v2.metrics_sha

Whole(d) == d # Absent /\ made[d].kind # "torn"

OpensV3(at) ==
  LET v3 == made[at[Data("v3")]] IN
  /\ Whole(at[Data("v3")])
  /\ at[Data("v2")] = v3.v2 /\ at[Data("quarters")] = v3.quarters
  /\ ConfigUnchanged(at, "v3")
  /\ v3.v2 # Absent /\ OpensV2(at) /\ V2Id(v3.v2) = v3.annual
  /\ OpensQuarters(at)
  /\ ParentBinding(made[v3.v2], made[v3.quarters])

Opens(c, at) ==
  CASE c = "identity" -> at[Data(c)] # Absent /\ OpensIdentity(at)
    [] c = "metrics" -> at[Data(c)] # Absent /\ OpensMetrics(at)
    [] c = "quarters" -> OpensQuarters(at)
    [] c = "v2" -> at[Data(c)] # Absent /\ OpensV2(at)
    [] c = "v3" -> OpensV3(at)

-----------------------------------------------------------------------------
(* The commands                                                            *)


Idle == [cmd |-> "idle"]

DigestOf(content, table) == CHOOSE d \in 1..Len(table) : table[d] = content

\* A content is put at a path, in a new file.
Put(path, content) ==
  /\ made' = IF content \in ToSet(made) THEN made ELSE Append(made, content)
  /\ disk' = [disk EXCEPT ![path] = DigestOf(content, made')]
  /\ stamp' = [stamp EXCEPT ![path] = @ + 1]

\* Everybody else's command was disturbed by it.
Disturb(p) == [q \in Commands |-> IF q = p \/ job[q] = Idle THEN job[q] ELSE [job[q] EXCEPT !.quiet = FALSE]]

\* A prepared analysis has a version; a metadata manifest has its time.
Leaf(l, version, at) == [kind |-> l, version |-> version, at |-> at]

Init ==
  /\ budget \in Budgets /\ kind = budget.kind
  /\ made = <<Leaf("annual", 1, 0), Leaf("quarterly", 1, 0)>>
  /\ disk = [s \in Paths |-> IF s = Data("annual") THEN 1 ELSE IF s = Data("quarterly") THEN 2 ELSE Absent]
  /\ stamp = [s \in Paths |-> 0]
  /\ job = [p \in Commands |-> Idle]
  /\ edits = 0 /\ starts = 0

-----------------------------------------------------------------------------
(* A command starts, stops, and publishes                                  *)

\* The parsed config is kept; the destination must be new.
Start(p, c) ==
  /\ job[p] = Idle /\ starts < budget.starts
  /\ Cardinality({q \in Commands : job[q] # Idle}) < budget.beside
  /\ disk[Config(c)] # Absent /\ disk[Data(c)] = Absent
  /\ c = "v3" => /\ disk[Data("v2")] # Absent /\ disk[Data("v2")] = made[disk[Config(c)]].v2
                 /\ disk[Data("quarters")] # Absent
                 /\ disk[Data("quarters")] = made[disk[Config(c)]].quarters
  /\ job' = [job EXCEPT ![p] =
       [cmd |-> c, at |-> "start", config |-> disk[Config(c)], read |-> <<>>,
        first |-> <<>>, stood |-> <<>>, seen |-> <<>>, next |-> 1, quiet |-> TRUE]]
  /\ starts' = starts + 1
  /\ UNCHANGED <<kind, made, disk, stamp, budget, edits>>

At(p, c, step) == job[p] # Idle /\ job[p].cmd = c /\ job[p].at = step

\* Refused, failed or killed: a staging directory nobody reads is all that is left.
Stop(p) ==
  /\ job[p] # Idle
  /\ job' = [job EXCEPT ![p] = Idle]
  /\ UNCHANGED <<kind, made, disk, stamp, budget, edits, starts>>

\* The command goes on knowing what it has read.
Goes(p, step, read) ==
  /\ job' = [job EXCEPT ![p].at = step, ![p].read = read]
  /\ UNCHANGED <<kind, made, disk, stamp, budget, edits, starts>>

\* The staging directory is renamed: a destination that has appeared refuses it.
Publishes(p, content) ==
  /\ disk[Data(job[p].cmd)] = Absent
  /\ Put(Data(job[p].cmd), content)
  /\ job' = [Disturb(p) EXCEPT ![p] = Idle]
  /\ UNCHANGED <<kind, budget, edits, starts>>

-----------------------------------------------------------------------------
(* Company metadata                                                        *)

\* What is there must be the same build, and stays; the manifest of a new one
\* has the time it is made at.
PublishMetadata ==
  LET path == Data("metadata") IN
  /\ disk[path] = Absent
  /\ Put(path, Leaf("metadata", 1, stamp[path]))
  /\ job' = Disturb(None)
  /\ UNCHANGED <<kind, budget, edits, starts>>

-----------------------------------------------------------------------------
(* Dataset v1, the legacy identity                                         *)

\* The metadata rows are read first, and the digest of the manifest last.
ReadMetadata(p) ==
  /\ kind = "LEGACY" /\ At(p, "identity", "start") /\ disk[Data("metadata")] # Absent
  /\ Goes(p, "metadata", [metadata |-> disk[Data("metadata")]])

ReadAnalysis(p) ==
  /\ At(p, "identity", "metadata") /\ disk[Data("annual")] # Absent
  /\ Goes(p, "analysis", [metadata |-> job[p].read.metadata, annual |-> disk[Data("annual")]])

\* The digest of the analysis manifest is taken after its rows are.
DigestAnalysis(p) ==
  /\ At(p, "identity", "analysis") /\ disk[Data("annual")] # Absent
  /\ Goes(p, "stage", [rows |-> job[p].read, annual |-> disk[Data("annual")]])

\* The staged dataset is opened, which compares rows and digests, and renamed.
PublishV1(p) ==
  LET identity ==
        [kind |-> "identity", config |-> job[p].config, config_sha |-> disk[Config("identity")],
         rows |-> job[p].read.rows,
         sources |-> [annual |-> job[p].read.annual, metadata |-> disk[Data("metadata")]]] IN
  /\ kind = "LEGACY" /\ At(p, "identity", "stage") /\ disk[Data("metadata")] # Absent
  /\ SourcesNamed(disk, identity)
  /\ Publishes(p, identity)

-----------------------------------------------------------------------------
(* Annual metrics                                                          *)

\* The generic identity attests the analysis that the config pins.
OpenIdentity(p) ==
  LET config == made[job[p].config]
      identity == disk[Data("identity")] IN
  /\ At(p, "metrics", "start")
  /\ identity # Absent /\ identity = config.identity /\ OpensIdentity(disk)
  /\ Goes(p, "identity", [identity |-> identity])

PinAnalysis(p) ==
  LET config == made[job[p].config]
      identity == made[job[p].read.identity] IN
  /\ At(p, "metrics", "identity")
  /\ disk[Data("annual")] = config.analysis
  /\ kind = "GENERIC" => config.analysis = made[identity.config].pins["annual"]
  /\ Goes(p, "pinned", job[p].read)

\* The analysis is opened after its manifest was compared.
ReadRows(p) ==
  /\ At(p, "metrics", "pinned") /\ disk[Data("annual")] # Absent
  /\ Goes(p, "stage", [identity |-> job[p].read.identity, rows |-> disk[Data("annual")]])

\* Mutant: the metrics name the config of the identity instead of its manifest.
PublishMetricsOfConfig(p) ==
  /\ At(p, "metrics", "stage") /\ disk[Data("identity")] # Absent
  /\ Publishes(p,
       [kind |-> "metrics", config |-> job[p].config, config_sha |-> disk[Config("metrics")],
        rows |-> job[p].read.rows, identity |-> job[p].read.identity,
        identity_sha |-> disk[Config("identity")]])

\* The digest of the identity's manifest is taken again here.
PublishMetrics(p) ==
  /\ At(p, "metrics", "stage") /\ disk[Data("identity")] # Absent
  /\ Publishes(p,
       [kind |-> "metrics", config |-> job[p].config, config_sha |-> disk[Config("metrics")],
        rows |-> job[p].read.rows, identity |-> job[p].read.identity,
        identity_sha |-> disk[Data("identity")]])

-----------------------------------------------------------------------------
(* Quarterly metrics                                                       *)

OpenAnnual(p) ==
  LET metrics == disk[Data("metrics")] IN
  /\ At(p, "quarters", "start")
  /\ metrics # Absent /\ metrics = made[job[p].config].metrics /\ OpensMetrics(disk)
  /\ IF kind = "GENERIC" THEN Goes(p, "annual", [metrics |-> metrics])
                         ELSE Goes(p, "identity", [metrics |-> metrics, identity |-> Absent])

\* A generic identity of the annual parent is opened again.
OpenParentIdentity(p) ==
  LET metrics == made[job[p].read.metrics]
      identity == disk[Data("identity")] IN
  /\ At(p, "quarters", "annual")
  /\ identity = metrics.identity_sha /\ OpensIdentity(disk) /\ identity = metrics.identity
  /\ Goes(p, "identity", [metrics |-> job[p].read.metrics, identity |-> identity])

\* The quarterly analysis is the one the config pins and the identity attests.
ReadQuarters(p) ==
  LET analysis == disk[Data("quarterly")]
      identity == job[p].read.identity IN
  /\ At(p, "quarters", "identity")
  /\ analysis # Absent /\ analysis = made[job[p].config].analysis
  /\ identity # Absent => analysis = made[made[identity].config].pins["quarterly"]
  /\ Goes(p, "stage", [metrics |-> job[p].read.metrics, identity |-> identity, rows |-> analysis])

PublishQuarters(p) ==
  LET read == job[p].read
      parent == made[job[p].config].metrics IN
  /\ At(p, "quarters", "stage")
  /\ read.identity # Absent => disk[Data("identity")] # Absent
  /\ Publishes(p,
       [kind |-> "quarters", config |-> job[p].config, config_sha |-> disk[Config("quarters")],
        rows |-> read.rows, annual |-> MetricsId(read.metrics), annual_sha |-> parent,
        identity |-> read.identity,
        identity_sha |-> IF read.identity # Absent THEN disk[Data("identity")] ELSE Absent,
        at |-> stamp[Data("quarters")]])

-----------------------------------------------------------------------------
(* Dataset v2                                                              *)

OpenSource(p) ==
  LET identity == disk[Data("identity")] IN
  /\ At(p, "v2", "start")
  /\ identity # Absent /\ identity = made[job[p].config].identity /\ OpensIdentity(disk)
  /\ Goes(p, "identity", [identity |-> identity])

OpenMetrics(p) ==
  LET metrics == disk[Data("metrics")]
      identity == job[p].read.identity IN
  /\ At(p, "v2", "identity")
  /\ metrics # Absent /\ metrics = made[job[p].config].metrics /\ OpensMetrics(disk)
  /\ disk[Data("identity")] # Absent
  /\ SharesIdentity(made[metrics], identity, disk[Data("identity")])
  /\ Goes(p, "metrics", [identity |-> identity, metrics |-> metrics])

\* The metadata behind a generic identity is opened without a digest.
ReadIdentityRows(p) ==
  LET read == job[p].read IN
  /\ At(p, "v2", "metrics")
  /\ kind = "GENERIC" => disk[Data("metadata")] # Absent
  /\ Goes(p, "stage", [identity |-> read.identity, metrics |-> read.metrics,
                       metadata |-> MetadataOf(disk, read.identity), config_sha |-> disk[Config("v2")]])

\* The manifests of both parents are read again here.
PublishV2(p) ==
  LET read == job[p].read IN
  /\ At(p, "v2", "stage")
  /\ disk[Data("metrics")] # Absent /\ disk[Data("identity")] # Absent
  /\ Publishes(p,
       [kind |-> "v2", config |-> job[p].config, config_sha |-> read.config_sha,
        metrics |-> MetricsId(read.metrics), metrics_sha |-> disk[Data("metrics")],
        identity |-> read.identity, identity_sha |-> disk[Data("identity")],
        rows |-> made[read.metrics].rows, metadata |-> read.metadata])

-----------------------------------------------------------------------------
(* The closure of the sources                                              *)

\* Every file the command depends on, in the order the collector reads them.
IdentityFiles == <<Config("identity"), Data("metadata"), Data("annual"), Data("quarterly")>>

V3Files ==
  <<Config("v3"), Data("v2"), Config("v2"), Data("metrics"), Config("metrics"), Data("identity")>>
    \o IdentityFiles \o <<Data("quarters"), Config("quarters")>>

Closure(c) == IF c = "identity" THEN IdentityFiles ELSE V3Files

Closed(c) == kind = "GENERIC" /\ c \in {"identity", "v3"}

File(path) == <<disk[path], stamp[path]>>

\* The commands that take the closure, and the pass that follows each.
After == [start |-> "again", again |-> "verify", post |-> "stage", final |-> "rename"]

\* Mutant: a later pass does not look at what it finds.
AnyFile(first, path) == TRUE

SameFile(first, path) == first[path] = File(path)

Reading(p) == job[p] # Idle /\ Closed(job[p].cmd)
Path(p) == Closure(job[p].cmd)[job[p].next]
LastFile(p) == job[p].next = Len(Closure(job[p].cmd))

\* The next file of a pass; what the first pass finds, every later one must.
Scan(p) ==
  LET path == Path(p)
      first == [s \in DOMAIN job[p].first \cup {path} |->
                  IF s = path THEN File(path) ELSE job[p].first[s]] IN
  /\ Reading(p) /\ job[p].at \in DOMAIN After
  /\ disk[path] # Absent
  /\ job[p].at # "start" => SameFile(job[p].first, path)
  /\ job' = [job EXCEPT
       ![p].first = IF job[p].at = "start" THEN first ELSE @,
       ![p].next = IF LastFile(p) THEN 1 ELSE @ + 1,
       ![p].at = IF LastFile(p) THEN After[@] ELSE @,
       ![p].stood = IF LastFile(p) /\ job[p].at = "start" THEN [s \in Paths |-> disk[s]] ELSE @]
  /\ UNCHANGED <<kind, made, disk, stamp, budget, edits, starts>>

\* The deep verification opens the same files, one after another.
Verify(p) ==
  LET path == Path(p) IN
  /\ Reading(p) /\ job[p].at = "verify"
  /\ disk[path] # Absent
  /\ job' = [job EXCEPT
       ![p].seen = [s \in DOMAIN @ \cup {path} |-> IF s = path THEN disk[path] ELSE @[s]],
       ![p].next = IF LastFile(p) THEN 1 ELSE @ + 1,
       ![p].at = IF LastFile(p) THEN "check" ELSE @]
  /\ UNCHANGED <<kind, made, disk, stamp, budget, edits, starts>>

\* What was verified: the pins of the config, or both readers and their binding.
Verified(p) ==
  LET seen == job[p].seen IN
  IF job[p].cmd = "identity" THEN SourcesPinned(seen, job[p].config)
  ELSE /\ OpensV2(seen) /\ OpensQuarters(seen)
       /\ ParentBinding(made[seen[Data("v2")]], made[seen[Data("quarters")]])

Check(p) ==
  /\ Reading(p) /\ job[p].at = "check" /\ Verified(p)
  /\ Goes(p, "post", <<>>)

\* The manifest is written to the staging directory with the config's digest.
Stage(p) ==
  /\ Reading(p) /\ job[p].at = "stage" /\ disk[Config(job[p].cmd)] # Absent
  /\ Goes(p, "staged", [config_sha |-> disk[Config(job[p].cmd)]])

\* It must be byte for byte what the issued closure makes, then the last pass begins.
CheckStaged(p) ==
  /\ Reading(p) /\ job[p].at = "staged"
  /\ disk[Config(job[p].cmd)] = job[p].read.config_sha
  /\ Goes(p, "final", job[p].read)

Manifest(p) ==
  LET config == job[p].config
      v2 == made[config].v2 IN
  IF job[p].cmd = "identity"
    THEN [kind |-> "identity", config |-> config, config_sha |-> job[p].read.config_sha]
    ELSE [kind |-> "v3", config |-> config, config_sha |-> job[p].read.config_sha,
          v2 |-> v2, annual |-> V2Id(v2), quarters |-> made[config].quarters]

PublishClosed(p) ==
  /\ Reading(p) /\ job[p].at = "rename"
  /\ Publishes(p, Manifest(p))

-----------------------------------------------------------------------------
(* Dataset v3 over a legacy identity: in place, and opened there           *)

OpenParents(p) ==
  /\ kind = "LEGACY" /\ At(p, "v3", "start")
  /\ disk[Data("v2")] # Absent /\ OpensV2(disk)
  /\ disk[Data("quarters")] = made[job[p].config].quarters /\ OpensQuarters(disk)
  /\ ParentBinding(made[disk[Data("v2")]], made[disk[Data("quarters")]])
  /\ Goes(p, "parents", [config_sha |-> disk[Config("v3")], annual |-> V2Id(disk[Data("v2")])])

MakeDirectory(p) ==
  /\ kind = "LEGACY" /\ At(p, "v3", "parents") /\ disk[Data("v3")] = Absent
  /\ Put(Data("v3"), [kind |-> "torn"])
  /\ job' = [Disturb(p) EXCEPT ![p].at = "directory"]
  /\ UNCHANGED <<kind, budget, edits, starts>>

WriteV3(p) ==
  /\ kind = "LEGACY" /\ At(p, "v3", "directory")
  /\ disk[Data("v3")] # Absent
  /\ Put(Data("v3"), [kind |-> "v3", config |-> job[p].config, config_sha |-> job[p].read.config_sha,
                      v2 |-> made[job[p].config].v2, annual |-> job[p].read.annual,
                      quarters |-> made[job[p].config].quarters])
  /\ job' = [Disturb(p) EXCEPT ![p] = Idle]
  /\ UNCHANGED <<kind, budget, edits, starts>>

-----------------------------------------------------------------------------
(* The operator                                                            *)

Edit ==
  /\ edits < budget.edits
  /\ edits' = edits + 1 /\ job' = Disturb(None) /\ UNCHANGED <<kind, budget, starts>>

Prepare(l) ==
  /\ Edit
  /\ \E version \in {1, 2} :
       made[disk[Data(l)]].version # version /\ Put(Data(l), Leaf(l, version, 0))

MoveAway(path) ==
  /\ Edit /\ disk[path] # Absent
  /\ disk' = [disk EXCEPT ![path] = Absent]
  /\ UNCHANGED <<made, stamp>>

\* A config pins the parents as they are.
Pins(c) ==
  CASE c = "identity" -> [kind |-> "pins", pins |-> [l \in Leaves |-> IF kind = "LEGACY" THEN Absent ELSE disk[Data(l)]]]
    [] c = "metrics" -> [kind |-> "pins", identity |-> disk[Data("identity")], analysis |-> disk[Data("annual")]]
    [] c = "quarters" -> [kind |-> "pins", metrics |-> disk[Data("metrics")], analysis |-> disk[Data("quarterly")]]
    [] c = "v2" -> [kind |-> "pins", identity |-> disk[Data("identity")], metrics |-> disk[Data("metrics")]]
    [] c = "v3" -> [kind |-> "pins", v2 |-> disk[Data("v2")], quarters |-> disk[Data("quarters")]]

Parents(c) ==
  CASE c = "identity" -> Leaves
    [] c = "metrics" -> {"identity", "annual"}
    [] c = "quarters" -> {"metrics", "quarterly"}
    [] c = "v2" -> {"identity", "metrics"}
    [] c = "v3" -> {"v2", "quarters"}

Ready(c) == \A l \in Parents(c) : disk[Data(l)] # Absent

\* The first config of a publication is no edit.
Configure(c) ==
  /\ Ready(c) /\ disk[Config(c)] = Absent
  /\ Put(Config(c), Pins(c))
  /\ job' = Disturb(None)
  /\ UNCHANGED <<kind, budget, edits, starts>>

Reconfigure(c) ==
  /\ Edit /\ Ready(c) /\ disk[Config(c)] # Absent
  /\ made[disk[Config(c)]] # Pins(c)
  /\ Put(Config(c), Pins(c))

Operator ==
  \/ PublishMetadata
  \/ \E l \in {"annual", "quarterly"} : Prepare(l)
  \/ \E c \in budget.movable : MoveAway(Data(c))
  \/ \E c \in Publications : Configure(c) \/ Reconfigure(c)

Command(p) ==
  \/ \E c \in Publications : Start(p, c)
  \/ ReadMetadata(p) \/ ReadAnalysis(p) \/ DigestAnalysis(p) \/ PublishV1(p)
  \/ OpenIdentity(p) \/ PinAnalysis(p) \/ ReadRows(p) \/ PublishMetrics(p)
  \/ OpenAnnual(p) \/ OpenParentIdentity(p) \/ ReadQuarters(p) \/ PublishQuarters(p)
  \/ OpenSource(p) \/ OpenMetrics(p) \/ ReadIdentityRows(p) \/ PublishV2(p)
  \/ Scan(p) \/ Verify(p) \/ Check(p) \/ Stage(p) \/ CheckStaged(p) \/ PublishClosed(p)
  \/ OpenParents(p) \/ MakeDirectory(p) \/ WriteV3(p)
  \/ Stop(p)

Next == Operator \/ \E p \in Commands : Command(p)

Spec == Init /\ [][Next]_vars

-----------------------------------------------------------------------------
(* Properties                                                              *)

\* A dataset v3 that opens is made of one identity: the annual rows, the rows
\* of dataset v2 and the quarterly metrics were made of the same one, and it
\* is the one all of them name (dataset_v2.py:205, dataset_v3.py:251), however
\* a parent was replaced while a child was being made.
OneIdentity ==
  OpensV3(disk) =>
    LET v2 == made[disk[Data("v2")]]
        metrics == made[disk[Data("metrics")]]
        quarters == made[disk[Data("quarters")]] IN
    /\ metrics.identity = disk[Data("identity")]
    /\ v2.identity = metrics.identity /\ quarters.annual_sha = v2.metrics_sha
    /\ kind = "GENERIC" => quarters.identity = metrics.identity

\* What the single pass publishes was verified of sources that stood together
\* at one moment (verified_source_closure.py:318), although the verification
\* reads them one after another and an operator may change them in between.
ClosureIsOneMoment ==
  \A p \in Commands : Reading(p) /\ job[p].at = "rename" =>
    \A s \in DOMAIN job[p].seen : job[p].seen[s] = job[p].stood[s]

\* What a command publishes opens, if nothing changed while it ran: every
\* reader of the chain accepts what its publisher makes (dataset_v2.py:205).
UndisturbedOpens ==
  [][\A p \in Commands :
       job[p] # Idle /\ job[p].quiet /\ job'[p] = Idle =>
         \A c \in Publications :
           job[p].cmd = c /\ disk[Data(c)] # disk'[Data(c)] => Opens(c, disk)']_vars
===============================================================================
