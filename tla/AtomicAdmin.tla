----------------------------- MODULE AtomicAdmin -----------------------------
(***************************************************************************)
(* What the administrator commit of sec_xbrl.continuous_refresh promises:  *)
(* the settings directory behaves as one register with an optimistic       *)
(* publication.  A publisher looks at the files whenever it likes, even at *)
(* bytes that are later rolled back; it publishes all its files at once or *)
(* not at all, and only while the register holds what it has seen.  An     *)
(* administrator's edit replaces one file; nothing else ever changes.      *)
(***************************************************************************)
CONSTANTS
  Publishers,    \* who may publish, each at most once
  FullRuns,      \* the publishers that move the pointer to a new bundle
  Replaceable,   \* the files a publication may replace
  PointerFiles,  \* those every full run replaces: the history and the pointer
  AdminFiles,    \* all settings files
  AdminEdits,    \* contents an administrator writes
  Before         \* contents that no publisher and no edit produced

VARIABLES
  registration,  \* the contents of the settings files
  published,     \* the publishers that have published
  seen           \* what each publisher has seen of the files

atomicVars == <<registration, published, seen>>

Init ==
  /\ registration \in [AdminFiles -> Before]
  /\ published = {}
  /\ seen = [p \in Publishers |-> registration]

Look(p) ==
  /\ p \notin published
  /\ \E f \in AdminFiles, v \in Publishers \cup AdminEdits \cup Before :
       seen' = [seen EXCEPT ![p][f] = v]
  /\ UNCHANGED <<registration, published>>

Publish(p) ==
  /\ p \notin published
  /\ \A f \in Replaceable : registration[f] = seen[p][f]
  /\ published' = published \cup {p}
  /\ \E S \in SUBSET Replaceable :
       /\ S # {}
       /\ p \in FullRuns => PointerFiles \subseteq S
       /\ registration' = [f \in AdminFiles |-> IF f \in S THEN p ELSE registration[f]]
  /\ UNCHANGED seen

Edit(f, e) ==
  /\ registration' = [registration EXCEPT ![f] = e]
  /\ UNCHANGED <<published, seen>>

Next ==
  \/ \E p \in Publishers : Look(p) \/ Publish(p)
  \/ \E f \in AdminFiles, e \in AdminEdits : Edit(f, e)

Spec == Init /\ [][Next]_atomicVars
=============================================================================
