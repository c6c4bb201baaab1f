--------------------------- MODULE CompanyMetadata ---------------------------
(***************************************************************************)
(* company_metadata.py: cached observations of the SEC's submissions and   *)
(* of its list of tickers become an immutable publication of companies,    *)
(* identifiers and industries, as of a cutoff; a reader that knows nothing *)
(* of the build checks it again and answers which companies a universe     *)
(* admits.                                                                 *)
(*                                                                         *)
(* A ticker, an exchange or a SIC code is a pair <<what it is, how it is   *)
(* spelled>>; bytes stand for a file with its digest.  Time is an integer, *)
(* an observation is later than every cutoff used before it.               *)
(***************************************************************************)
EXTENDS Integers, FiniteSets, Sequences, SequencesExt

CONSTANTS
  None,
  Payload,        \* what the bytes of a snapshot say
  Observations,      \* the snapshots that may be cached
  Inventories,    \* the lists of tickers a run may be given, or None
  Destinations,
  Universes,      \* the filters asked for
  MaxCached       \* bound: snapshots in the cache

VARIABLES cached, inventory, published, now

vars == <<cached, inventory, published, now>>

CiksOf(S) == UNION {{s.directory, Payload[s.bytes].cik} : s \in S} \ {None}

-----------------------------------------------------------------------------
\* Choosing the observations.

AsOf(at, cutoff) == cutoff = None \/ at <= cutoff
Considered(S, cutoff) == {s \in S : AsOf(s.at, cutoff)}

CikOf(s) == IF Payload[s.bytes].cik = None THEN s.directory ELSE Payload[s.bytes].cik
Misfiled(s) == CikOf(s) = None \/ s.directory \notin {None, CikOf(s)}

Roots(S, c) == {s \in S : Payload[s.bytes].root /\ CikOf(s) = c}

Latest(R) == {s \in R : \A r \in R : r.at <= s.at}
Ambiguous(R) ==
  \E r, s \in Latest(R) : r.bytes # s.bytes \/ (r.path = s.path /\ r.source # s.source)
Select(R) == CHOOSE s \in Latest(R) : \A r \in Latest(R) : s.path <= r.path

\* Every observation up to the cutoff, and of each company the newest.
Observed(S, cutoff) == Considered(S, cutoff)
Selected(S) == [c \in {CikOf(s) : s \in {r \in S : Payload[r.bytes].root}} |-> Select(Roots(S, c))]

-----------------------------------------------------------------------------
\* Tickers.  A row is [ticker, exchange, from].

Key(row) == <<row.ticker[1], IF row.exchange = None THEN None ELSE row.exchange[1]>>
Repeats(rows) == \E i, j \in DOMAIN rows : i < j /\ Key(rows[i]) = Key(rows[j])

RootTickers(s) ==
  [i \in DOMAIN Payload[s.bytes].tickers |->
     [ticker |-> Payload[s.bytes].tickers[i][1], exchange |-> Payload[s.bytes].tickers[i][2], from |-> s.bytes]]

\* The rows a usable inventory has of a company.
InUse(inv, cutoff) == inv # None /\ AsOf(inv.at, cutoff)
Listed(inv, cutoff, c) ==
  IF InUse(inv, cutoff) THEN SelectSeq(inv.rows, LAMBDA r : r.cik = c) ELSE <<>>
InventoryTickers(inv, cutoff, c) ==
  [i \in DOMAIN Listed(inv, cutoff, c) |->
     [ticker |-> Listed(inv, cutoff, c)[i].ticker, exchange |-> Listed(inv, cutoff, c)[i].exchange,
      from |-> inv.bytes]]
InventoryNames(inv, cutoff, c) == {r.name : r \in ToSet(Listed(inv, cutoff, c))} \ {None}

\* The company's own list comes first, and what the inventory repeats is dropped.
FirstOfEach(rows) ==
  {rows[i] : i \in {k \in DOMAIN rows : \A j \in 1 .. (k - 1) : Key(rows[j]) # Key(rows[k])}}
Tickers(chosen, inv, cutoff, c) ==
  FirstOfEach((IF c \in DOMAIN chosen THEN RootTickers(chosen[c]) ELSE <<>>)
              \o InventoryTickers(inv, cutoff, c))

-----------------------------------------------------------------------------
\* The build.

Candidates(chosen, inv, cutoff) ==
  DOMAIN chosen \cup (IF InUse(inv, cutoff) THEN {r.cik : r \in ToSet(inv.rows)} ELSE {})

CompanyRow(chosen, inv, cutoff, c) ==
  IF c \in DOMAIN chosen
    THEN [cik |-> c, name |-> Payload[chosen[c].bytes].name, forms |-> Payload[chosen[c].bytes].forms,
          status |-> "ROOT_OBSERVED", at |-> chosen[c].at]
    ELSE [cik |-> c, forms |-> {}, status |-> "CANDIDATE_ONLY", at |-> inv.at,
          name |-> IF InventoryNames(inv, cutoff, c) = {} THEN None
                   ELSE CHOOSE n \in InventoryNames(inv, cutoff, c) : TRUE]

CikRow(c) == [cik |-> c, type |-> "CIK", value |-> c, exchange |-> None]
TickerRow(c, t) == [cik |-> c, type |-> "TICKER", value |-> t.ticker[1], exchange |-> t.exchange]

\* A SIC code is padded, whatever its spelling.
Industry(chosen, c) ==
  IF c \notin DOMAIN chosen \/ Payload[chosen[c].bytes].sic = None
    THEN [cik |-> c, sic |-> None, status |-> "NOT_CLASSIFIED"]
    ELSE [cik |-> c, sic |-> Payload[chosen[c].bytes].sic[1], status |-> "CLASSIFIED"]

SharedTicker(owned) ==
  \E c, d \in DOMAIN owned : c # d /\ \E t \in owned[c], u \in owned[d] : Key(t) = Key(u)

Refused(S, chosen, inv, cutoff) ==
  \/ \E s \in S : Misfiled(s)
  \/ \E c \in DOMAIN chosen : Ambiguous(Roots(S, c)) \/ Repeats(RootTickers(chosen[c]))
  \/ \E c \in Candidates(chosen, inv, cutoff) :
       \/ Repeats(InventoryTickers(inv, cutoff, c))
       \/ c \notin DOMAIN chosen /\ Cardinality(InventoryNames(inv, cutoff, c)) > 1
  \/ Candidates(chosen, inv, cutoff) = {}
  \/ SharedTicker([c \in Candidates(chosen, inv, cutoff) |-> Tickers(chosen, inv, cutoff, c)])

\* What is published, its identity being all of it, or None.
Build(S, inv, cutoff) ==
  LET seen == Observed(S, cutoff)
      chosen == Selected(seen)
      all == Candidates(chosen, inv, cutoff)
  IN IF Refused(seen, chosen, inv, cutoff) THEN None
     ELSE [cutoff |-> cutoff,
           companies |-> {CompanyRow(chosen, inv, cutoff, c) : c \in all},
           identifiers |-> {CikRow(c) : c \in all}
             \cup UNION {{TickerRow(c, t) : t \in Tickers(chosen, inv, cutoff, c)} : c \in all},
           industries |-> {Industry(chosen, c) : c \in all},
           inputs |-> {chosen[c] : c \in DOMAIN chosen},
           inventory |-> IF InUse(inv, cutoff) THEN inv.bytes ELSE None]

-----------------------------------------------------------------------------
\* The reader.

One(rows, c) == Cardinality({r \in rows : r.cik = c}) = 1
ReaderAccepts(p) ==
  LET ids == {r.cik : r \in p.companies}
      tickers == {r \in p.identifiers : r.type = "TICKER"}
  IN /\ \A c \in ids : One(p.companies, c) /\ One(p.industries, c)
     /\ \A r \in p.identifiers \cup p.industries : r.cik \in ids
     /\ \A c \in ids : One({r \in p.identifiers : r.type = "CIK"}, c)
     /\ \A r \in p.identifiers \ tickers : r.value = r.cik /\ r.exchange = None
     /\ \A r, s \in tickers :
          Key([ticker |-> <<r.value>>, exchange |-> r.exchange])
            = Key([ticker |-> <<s.value>>, exchange |-> s.exchange]) => r.cik = s.cik
     /\ \A r \in p.industries : (r.status = "CLASSIFIED") <=> (r.sic # None)

RowOf(rows, c) == CHOOSE r \in rows : r.cik = c
ExchangesOf(p, c) == {r.exchange : r \in {i \in p.identifiers : i.cik = c /\ i.type = "TICKER"}} \ {None}

\* Why a universe leaves a company out.
Reasons(p, u, c) ==
  LET row == RowOf(p.companies, c)
      sic == RowOf(p.industries, c).sic
      Because(condition, reason) == IF condition THEN {reason} ELSE {}
  IN Because(row.status # "ROOT_OBSERVED", "ROOT_METADATA_UNAVAILABLE")
     \cup Because(u.ciks # {} /\ c \notin u.ciks, "CIK_EXCLUDED")
     \cup Because(u.exchanges # {} /\ ExchangesOf(p, c) = {}, "EXCHANGE_UNAVAILABLE")
     \cup Because(u.exchanges # {} /\ ExchangesOf(p, c) # {} /\ ExchangesOf(p, c) \cap u.exchanges = {},
                  "EXCHANGE_EXCLUDED")
     \cup Because(u.forms # {} /\ row.forms = {}, "FORM_INVENTORY_UNAVAILABLE")
     \cup Because(row.forms # {} /\ ~(u.forms \subseteq row.forms), "FORM_EXCLUDED")
     \cup Because(u.sics # {} /\ sic = None, "INDUSTRY_NOT_CLASSIFIED")
     \cup Because(u.sics # {} /\ sic # None /\ sic \notin u.sics, "INDUSTRY_EXCLUDED")

Ids(p) == {r.cik : r \in p.companies}
Eligible(p, u) == {c \in Ids(p) : Reasons(p, u, c) = {}}
Unavailable(p, u) == u.ciks \ Ids(p)

\* The companies of exactly the same code.
Peers(p, c) ==
  IF c \notin Ids(p) \/ RowOf(p.industries, c).sic = None THEN {}
  ELSE {d \in Ids(p) \ {c} : RowOf(p.industries, d).sic = RowOf(p.industries, c).sic}

-----------------------------------------------------------------------------
Init ==
  /\ cached \in {{s} : s \in {r \in Observations : r.at = 1}}
  /\ inventory \in Inventories
  /\ published = [d \in Destinations |-> None]
  /\ now = 1

\* Another observation is cached; a moment may have more than one.
Observe(s) ==
  /\ s.at = now /\ s \notin cached /\ Cardinality(cached) < MaxCached
  /\ cached' = cached \cup {s}
  /\ UNCHANGED <<inventory, published, now>>

Pass ==
  /\ \E s \in Observations : s.at > now
  /\ now' = now + 1
  /\ UNCHANGED <<cached, inventory, published>>

\* The files of a publication no longer have their digests.
Damage(d) ==
  /\ published[d] # None /\ published[d].intact
  /\ published' = [published EXCEPT ![d].intact = FALSE]
  /\ UNCHANGED <<cached, inventory, now>>

\* Published, or found identical at the destination; a reader opens it before
\* and after it is renamed into place.
Publish(d, cutoff) ==
  /\ cutoff # None => cutoff < now
  /\ Build(cached, inventory, cutoff) # None
  /\ ReaderAccepts(Build(cached, inventory, cutoff))
  /\ published[d] = None
  /\ published' = [published EXCEPT ![d] =
                     [build |-> Build(cached, inventory, cutoff), intact |-> TRUE]]
  /\ UNCHANGED <<cached, inventory, now>>

\* The end of a run that finds something at its destination.
Outcome(d, build) ==
  CASE published[d] = None -> "PUBLISHED"
    [] published[d] # None /\ published[d].intact /\ published[d].build = build -> "REUSED"
    [] OTHER -> "COLLISION"

Next ==
  \/ Pass
  \/ \E s \in Observations : Observe(s)
  \/ \E d \in Destinations : Damage(d)
  \/ \E d \in Destinations, cutoff \in {None} \cup {s.at : s \in Observations} : Publish(d, cutoff)

Spec == Init /\ [][Next]_vars

-----------------------------------------------------------------------------
\* Whatever the build makes, the reader's own rules accept: a company is never
\* published in a form that no one can open (_validate_identity).
BuildsAreReadable ==
  \A cutoff \in {None} \cup {s.at : s \in Observations} :
    Build(cached, inventory, cutoff) # None => ReaderAccepts(Build(cached, inventory, cutoff))

\* A publication as of a cutoff can be made again: what is observed later never
\* changes it, so a repeated run finds its own result instead of a collision.
Reproducible ==
  \A d \in Destinations :
    published[d] # None /\ published[d].intact /\ published[d].build.cutoff # None =>
      Outcome(d, Build(cached, inventory, published[d].build.cutoff)) = "REUSED"

\* Nothing unknown makes a company eligible: it was itself observed by the cutoff,
\* and each constraint is met by something published of it; its peers were
\* observed as well and are each other's peers (list_companies, peer_candidates).
EligibleIsKnown ==
  \A d \in Destinations, u \in Universes :
    published[d] # None =>
      LET p == published[d].build
      IN /\ \A c \in Eligible(p, u) :
              /\ c \notin Unavailable(p, u)
              /\ \E s \in p.inputs :
                   /\ CikOf(s) = c /\ AsOf(s.at, p.cutoff)
                   /\ u.forms \subseteq Payload[s.bytes].forms
                   /\ u.sics # {} => Payload[s.bytes].sic # None /\ Payload[s.bytes].sic[1] \in u.sics
              /\ u.exchanges = {} \/ \E r \in p.identifiers : r.cik = c /\ r.exchange \in u.exchanges
         /\ \A c \in Ids(p) : \A e \in Peers(p, c) :
              c \in Peers(p, e) /\ RowOf(p.companies, e).status = "ROOT_OBSERVED"

MetadataIsHonest == BuildsAreReadable /\ Reproducible /\ EligibleIsKnown
===============================================================================
