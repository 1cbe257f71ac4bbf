---------------------------- MODULE MCEnrichment ----------------------------
(***************************************************************************)
(* A small instance of Enrichment for TLC: a blog post of high severity, a *)
(* CVE page of NVD that the KEV source publishes too, and a later advisory *)
(* of unknown severity about another CVE.                                  *)
(***************************************************************************)
EXTENDS Enrichment

CONSTANTS c1, c2

Advisory(id, cves, severity, exploit, published) ==
    [id |-> id, cves |-> cves, severity |-> severity, exploit |-> exploit,
     urgent |-> severity >= High /\ exploit, kev |-> FALSE, score |-> Unscored,
     published |-> published, fromKev |-> FALSE]

MCCve == {c1, c2}

MCId == {"post", "page1", "page2", "advisory"}

MCSources == <<"rss", "nvd", "kev", "ghsa">>

MCPublishes == [s \in {"rss", "nvd", "ghsa"} |->
    CASE s = "rss"  -> <<Advisory("post", <<c1>>, 3, FALSE, 1)>>
      [] s = "nvd"  -> <<Advisory("page1", <<c1>>, 2, TRUE, 2)>>
      [] s = "ghsa" -> <<Advisory("advisory", <<c2, c1>>, 0, FALSE, 3)>>]

MCCatalogItem == [c \in MCCve |->
    [Advisory(IF c = c1 THEN "page1" ELSE "page2", <<c>>, IF c = c1 THEN 0 ELSE 3, TRUE, 4)
        EXCEPT !.urgent = TRUE, !.kev = TRUE, !.fromKev = TRUE]]

MCScore == [c \in MCCve |-> IF c = c1 THEN 2 ELSE 7]

MCOsvSeverity == [c \in MCCve |-> IF c = c1 THEN 4 ELSE 1]
=============================================================================
