----------------------------- MODULE Enrichment -----------------------------
(***************************************************************************)
(* What one refresh of app/pipeline.py makes of the items it fetched:      *)
(* app/fetcher.py merges the sources (fetch_all, _dedupe), app/enrich.py   *)
(* flags exploited and likely exploited CVEs (KEV, EPSS) and publishes     *)
(* recent entries of the KEV catalog as items, app/osv.py adds severities. *)
(* The services may fail on every call and change between two calls.       *)
(*                                                                         *)
(* A severity is its SEVERITY_RANK, a score is in tenths, and the tags are *)
(* reduced to "exploit".  Refreshes are single-flight, so that there is    *)
(* one list of items at a time.  Time is measured in ages.  The sample     *)
(* fallback of fetch_all is in RefreshPipeline.                            *)
(***************************************************************************)
EXTENDS Integers, FiniteSets, SequencesExt

CONSTANTS
    Cve,            \* CVE ids
    Id,             \* item ids
    Sources,        \* the roster, in its order; "kev" is the catalog's source
    Publishes,      \* Publishes[s]: the items of a source other than "kev"
    CatalogItem,    \* CatalogItem[c]: the item built from the catalog entry of c
    Score,          \* Score[c]: what EPSS says of c
    OsvSeverity,    \* OsvSeverity[c]: severity in the OSV record of c
    OsvMaxCves,     \* settings.osv_max_cves_per_run; 0 for no cap
    KevSourceDays,  \* settings.kev_source_days, at least 1
    KevTtl,         \* KEV_TTL
    OsvTtl          \* osv.CACHE_TTL

Unscored == -1      \* None in epss_score
Unknown == 0
High == 3

Item == [id : Id, cves : Seq(Cve), severity : 0..4, exploit : BOOLEAN, urgent : BOOLEAN,
         kev : BOOLEAN, score : 0..10 \cup {Unscored}, published : Int, fromKev : BOOLEAN]

Severe(i) == i.severity >= High

\* The fetchers make an item urgent only if it is severe and about an exploit;
\* an entry of the catalog is urgent as such.
ASSUME EnrichmentAssumption ==
    /\ OsvMaxCves \in Nat /\ KevSourceDays \in Nat \ {0} /\ KevTtl \in Nat /\ OsvTtl \in Nat
    /\ IsFiniteSet(Cve)
    /\ \A c \in Cve : Score[c] \in 0..10 /\ OsvSeverity[c] \in 0..4
    /\ \A c \in Cve : CatalogItem[c] \in Item /\ CatalogItem[c].fromKev
    /\ Sources \in Seq(STRING)
    /\ \A s \in ToSet(Sources) \ {"kev"} :
          /\ Publishes[s] \in Seq(Item)
          /\ \A i \in ToSet(Publishes[s]) : i.urgent => Severe(i) /\ i.exploit

VARIABLES
    listedFor,  \* listedFor[c]: how long c has been in CISA's catalog
    osvFor,     \* osvFor[c]: how long OSV.dev has had a record of c
    kevCache,   \* _kev_cache and the age of _kev_fetched_at
    osvCache,   \* osvCache[c]: entries of _osv_cache and _osv_cache_time
    pc,         \* where the refresh stands
    raw,        \* history: the items as the sources delivered them
    items,      \* the items of the refresh
    kev,        \* the catalog as enrich_items obtained it
    asked,      \* CVEs whose OSV request is not answered yet
    records     \* CVEs whose OSV record the refresh obtained

vars == <<listedFor, osvFor, kevCache, osvCache, pc, raw, items, kev, asked, records>>

Never == -1

\* An age stops growing where nothing distinguishes it from a greater one.
MaxAge == Max({KevTtl, OsvTtl, KevSourceDays + 1})

Age == 0..MaxAge

TypeOK ==
    /\ listedFor \in [Cve -> Age \cup {Never}]
    /\ osvFor \in [Cve -> Age \cup {Never}]
    /\ kevCache \in [known : SUBSET Cve, age : Age]
    /\ osvCache \in [Cve -> [record : BOOLEAN, age : Age]]
    /\ pc \in {"idle", "kev", "epss", "osv", "persist"}
    /\ kev \subseteq Cve /\ asked \subseteq Cve /\ records \subseteq Cve
    /\ OsvMaxCves > 0 => Cardinality(asked \cup records) <= OsvMaxCves
    /\ raw \in Seq(Item) /\ items \in Seq(Item)

Init ==
    /\ listedFor = [c \in Cve |-> Never]
    /\ osvFor = [c \in Cve |-> Never]
    /\ kevCache = [known |-> {}, age |-> MaxAge]
    /\ osvCache = [c \in Cve |-> [record |-> FALSE, age |-> MaxAge]]
    /\ pc = "idle"
    /\ raw = <<>> /\ items = <<>>
    /\ kev = {} /\ asked = {} /\ records = {}

services == <<listedFor, osvFor>>

-----------------------------------------------------------------------------
(* fetch_all.                                                              *)

Catalog == {c \in Cve : listedFor[c] # Never}

KevFresh == kevCache.age < KevTtl

\* _fetch_kev returns the cached catalog or fetches it; its time is read
\* before the request.
RefreshCatalog ==
    kevCache' = IF KevFresh THEN kevCache ELSE [known |-> Catalog, age |-> 0]

\* fetch_recent_kev: the entries of the catalog added of late.
RecentEntries(catalog) ==
    SetToSeq({CatalogItem[c] : c \in {d \in catalog : listedFor[d] \in 0..KevSourceDays}})

\* The elements of more that are not in seen yet are appended to it.
Extend(seen, more) ==
    LET upTo[n \in 0..Len(more)] ==
            IF n = 0 THEN seen
            ELSE IF Contains(upTo[n - 1], more[n]) THEN upTo[n - 1]
                 ELSE Append(upTo[n - 1], more[n])
    IN  upTo[Len(more)]

\* list(dict.fromkeys(seq)): the first of equal elements stays.
Unique(seq) == Extend(<<>>, seq)

\* What the first item with an id takes over from a later one.
MergeLastSeverity(i, j) ==
    [i EXCEPT !.cves = Unique(@ \o j.cves), !.exploit = @ \/ j.exploit,
              !.severity = j.severity,
              !.urgent = @ \/ j.urgent, !.fromKev = @ \/ j.fromKev]

Merge(i, j) ==
    [i EXCEPT !.cves = Unique(@ \o j.cves), !.exploit = @ \/ j.exploit,
              !.severity = Max({@, j.severity}),
              !.urgent = @ \/ j.urgent, !.fromKev = @ \/ j.fromKev]

\* _sort_key, in reverse.
Newer(i, j) ==
    i.published > j.published \/ (i.published = j.published /\ i.urgent /\ ~j.urgent)

\* sorted(list, reverse=True): the element with n - 1 others before it is n-th.
Sorted(list, before) ==
    [n \in DOMAIN list |->
        list[CHOOSE k \in DOMAIN list : Cardinality({j \in DOMAIN list : <<j, k>> \in before}) = n - 1]]

\* The sort is stable.
NewestFirst(list) == {p \in (DOMAIN list) \X (DOMAIN list) :
    \/ Newer(list[p[1]], list[p[2]])
    \/ (~Newer(list[p[2]], list[p[1]]) /\ p[1] < p[2])}

\* seen, once j is taken up.
TakeUp(seen, j) ==
    IF \E k \in DOMAIN seen : seen[k].id = j.id
    THEN [k \in DOMAIN seen |-> IF seen[k].id = j.id THEN Merge(seen[k], j) ELSE seen[k]]
    ELSE Append(seen, j)

Merged(list) ==
    LET upTo[n \in 0..Len(list)] == IF n = 0 THEN <<>> ELSE TakeUp(upTo[n - 1], list[n])
    IN  upTo[Len(list)]

Dedupe(list) == Sorted(Merged(list), NewestFirst(Merged(list)))

CvesOf(list) == UNION {ToSet(list[k].cves) : k \in DOMAIN list}

Delivery(s, answering, catalog) ==
    CASE s \notin answering                -> <<>>
      [] s \in answering /\ s = "kev"      -> RecentEntries(catalog)
      [] OTHER                             -> Publishes[s]

Delivered(answering, catalog) ==
    LET upTo[n \in 0..Len(Sources)] ==
            IF n = 0 THEN <<>> ELSE upTo[n - 1] \o Delivery(Sources[n], answering, catalog)
    IN  upTo[Len(Sources)]

\* The sources in answering deliver their items, the others fail or are not
\* due.  Without CVEs there is nothing to enrich.
Fetch == \E answering \in SUBSET ToSet(Sources) :
    /\ pc = "idle"
    /\ IF "kev" \in answering THEN RefreshCatalog ELSE UNCHANGED kevCache
    /\ raw' = Delivered(answering, kevCache'.known)
    /\ items' = Dedupe(raw')
    /\ pc' = IF CvesOf(items') = {} THEN "persist" ELSE "kev"
    /\ UNCHANGED <<services, osvCache, kev, asked, records>>

-----------------------------------------------------------------------------
(* enrich_items: the catalog, then the scores.                             *)

KevAnswers ==
    /\ pc = "kev" /\ pc' = "epss"
    /\ RefreshCatalog /\ kev' = kevCache'.known
    /\ UNCHANGED <<services, osvCache, raw, items, asked, records>>

KevFails ==
    /\ pc = "kev" /\ pc' = "epss"
    /\ ~KevFresh
    /\ kev' = {}
    /\ UNCHANGED <<services, kevCache, osvCache, raw, items, asked, records>>

\* KEV and EPSS context for one item; received is what EPSS scored.
EnrichedAnySeverity(i, received) ==
    LET scores == {Score[c] : c \in ToSet(i.cves) \cap received}
        inKev == ToSet(i.cves) \cap kev # {}
        score == IF scores = {} THEN Unscored ELSE Max(scores)
    IN  [i EXCEPT !.kev = inKev, !.score = score, !.exploit = @ \/ inKev,
                  !.urgent = @ \/ (inKev /\ Severe(i)) \/ score >= 5]

Enriched(i, received) ==
    LET scores == {Score[c] : c \in ToSet(i.cves) \cap received}
        inKev == ToSet(i.cves) \cap kev # {}
        score == IF scores = {} THEN Unscored ELSE Max(scores)
    IN  [i EXCEPT !.kev = inKev, !.score = score, !.exploit = @ \/ inKev,
                  !.urgent = @ \/ (Severe(i) /\ (inKev \/ score >= 5))]

\* The order in which enrich_with_osv considers the items.
BeforeByTime(i, j) == i.published > j.published

Before(i, j) ==
    \/ i.urgent /\ ~j.urgent
    \/ i.urgent = j.urgent /\ i.severity > j.severity
    \/ i.urgent = j.urgent /\ i.severity = j.severity /\ i.published > j.published

MostUrgentFirst(list) == {p \in (DOMAIN list) \X (DOMAIN list) :
    \/ Before(list[p[1]], list[p[2]])
    \/ (~Before(list[p[2]], list[p[1]]) /\ p[1] < p[2])}

\* The CVEs of a list of items, each where it is first mentioned.
CveList(list) ==
    LET upTo[n \in 0..Len(list)] ==
            IF n = 0 THEN <<>> ELSE Extend(upTo[n - 1], list[n].cves)
    IN  upTo[Len(list)]

NotCapped(cves) == cves

Capped(cves) ==
    IF OsvMaxCves > 0 /\ Len(cves) > OsvMaxCves THEN SubSeq(cves, 1, OsvMaxCves) ELSE cves

OsvList(list) == Capped(CveList(Sorted(list, MostUrgentFirst(list))))

\* _fetch_epss: one failing batch loses the scores of all; CVEs beyond the cap
\* or unknown to EPSS have none.
Epss ==
    /\ pc = "epss" /\ pc' = "osv"
    /\ \E received \in SUBSET CvesOf(items) :
          items' = [k \in DOMAIN items |-> Enriched(items[k], received)]
    /\ asked' = ToSet(OsvList(items'))
    /\ UNCHANGED <<services, kevCache, osvCache, raw, kev, records>>

-----------------------------------------------------------------------------
(* fetch_osv asks for all CVEs of the list at once.                        *)

OsvFreshOrEmpty(c) == osvCache[c].age < OsvTtl \/ (~osvCache[c].record /\ osvCache[c].age < MaxAge)

OsvFresh(c) == osvCache[c].age < OsvTtl

\* _fetch_one: a fresh entry, or an answer that is cached; a 404 is cached too.
OsvAnswers(c) ==
    /\ c \in asked
    /\ osvCache' = IF OsvFresh(c) THEN osvCache
                   ELSE [osvCache EXCEPT ![c] = [record |-> osvFor[c] # Never, age |-> 0]]
    /\ records' = IF osvCache'[c].record THEN records \cup {c} ELSE records
    /\ asked' = asked \ {c}
    /\ UNCHANGED <<services, kevCache, pc, raw, items, kev>>

OsvFails(c) ==
    /\ c \in asked /\ ~OsvFresh(c)
    /\ asked' = asked \ {c}
    /\ UNCHANGED <<services, kevCache, osvCache, pc, raw, items, kev, records>>

\* The first record with a severity replaces an unknown one.
WithOsv(i) ==
    LET found == {k \in DOMAIN i.cves : i.cves[k] \in records /\ OsvSeverity[i.cves[k]] # Unknown}
    IN  IF i.severity = Unknown /\ found # {}
        THEN [i EXCEPT !.severity = OsvSeverity[i.cves[Min(found)]]] ELSE i

EnrichWithOsv ==
    /\ pc = "osv" /\ asked = {} /\ pc' = "persist"
    /\ items' = [k \in DOMAIN items |-> WithOsv(items[k])]
    /\ UNCHANGED <<services, kevCache, osvCache, raw, kev, asked, records>>

\* The rest of the refresh, which does not change the items.
Persist ==
    /\ pc = "persist" /\ pc' = "idle"
    /\ raw' = <<>> /\ items' = <<>> /\ kev' = {} /\ records' = {}
    /\ UNCHANGED <<services, kevCache, osvCache, asked>>

-----------------------------------------------------------------------------
(* The services, and time.                                                 *)

CisaLists(c) ==
    /\ listedFor[c] = Never
    /\ listedFor' = [listedFor EXCEPT ![c] = 0]
    /\ UNCHANGED <<osvFor, kevCache, osvCache, pc, raw, items, kev, asked, records>>

OsvPublishes(c) ==
    /\ osvFor[c] = Never
    /\ osvFor' = [osvFor EXCEPT ![c] = 0]
    /\ UNCHANGED <<listedFor, kevCache, osvCache, pc, raw, items, kev, asked, records>>

Older(age) == IF age \in {Never, MaxAge} THEN age ELSE age + 1

Tick ==
    /\ listedFor' = [c \in Cve |-> Older(listedFor[c])]
    /\ osvFor' = [c \in Cve |-> Older(osvFor[c])]
    /\ kevCache' = [kevCache EXCEPT !.age = Older(@)]
    /\ osvCache' = [c \in Cve |-> [osvCache[c] EXCEPT !.age = Older(@)]]
    /\ UNCHANGED <<pc, raw, items, kev, asked, records>>

-----------------------------------------------------------------------------
Next ==
    \/ Fetch \/ KevAnswers \/ KevFails \/ Epss \/ EnrichWithOsv \/ Persist
    \/ \E c \in Cve : OsvAnswers(c) \/ OsvFails(c) \/ CisaLists(c) \/ OsvPublishes(c)
    \/ Tick

Spec == Init /\ [][Next]_vars

-----------------------------------------------------------------------------
(* Properties.                                                             *)

\* _dedupe, in whatever order sources deliver an item: one item per id, with
\* the CVEs, the highest severity and the urgency of all its copies.
MergeKeepsEvidence ==
    pc = "kev" =>
        /\ {i.id : i \in ToSet(items)} = {j.id : j \in ToSet(raw)}
        /\ \A k, l \in DOMAIN items : items[k].id = items[l].id => k = l
        /\ \A i \in ToSet(items) :
              LET copies == {j \in ToSet(raw) : j.id = i.id}
              IN  /\ ToSet(i.cves) = UNION {ToSet(j.cves) : j \in copies}
                  /\ i.severity = Max({j.severity : j \in copies})
                  /\ i.urgent = \E j \in copies : j.urgent
        /\ \A k \in 1..Len(items) - 1 : ~Newer(items[k + 1], items[k])

\* README "Urgent": an item that is urgent after merging and enrichment came
\* from the KEV source, or is critical or high and exploitation-related.
UrgentJustified == \A i \in ToSet(items) :
    i.urgent => i.fromKev \/ (Severe(i) /\ (i.exploit \/ i.kev \/ i.score >= 5))

\* The cap on OSV requests costs an urgent item its record only if all requests
\* go to urgent items, urgency being the one after KEV and EPSS.
UrgentFirst ==
    pc' = "osv" /\ pc = "epss" =>
        LET urgent == UNION {ToSet(i.cves) : i \in {j \in ToSet(items') : j.urgent}}
        IN  urgent \subseteq asked' \/ asked' \subseteq urgent

CapKeepsUrgent == [][UrgentFirst]_vars

\* A cached answer that something is unknown does not outlive its lifetime:
\* what CISA or OSV.dev published that long ago is found.
UnknownExpires ==
    /\ KevFresh => \A c \in Cve : listedFor[c] >= KevTtl => c \in kevCache.known
    /\ \A c \in Cve : OsvFresh(c) /\ osvFor[c] >= OsvTtl => osvCache[c].record
=============================================================================
