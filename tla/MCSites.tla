------------------------------ MODULE MCSites ------------------------------
(* One site map or one email search: a process serves many of both, but    *)
(* they share nothing that SiteMap and EmailSearch describe.  The one that *)
(* is not run has been refused by the limiter.                             *)
EXTENDS MCMaps, MCEmails

Refused(place) == place = "saturated"

Init ==
  \/ /\ MapInit
     /\ Refused(stage) /\ over = "no" /\ loads = <<>> /\ offered = {}
     /\ hunt = Chain /\ search = [emails |-> {}]
  \/ /\ SearchInit
     /\ Refused(phase) /\ ended = "no" /\ tried = <<>>
     /\ job = Blog /\ run = [rules |-> <<>>]

Next ==
  \/ MapNext /\ UNCHANGED searchVars
  \/ SearchNext /\ UNCHANGED mapVars

Spec ==
  /\ Init /\ [][Next]_<<mapVars, searchVars>>
  /\ WF_mapVars(MapStep) /\ WF_searchVars(SearchStep)

\* A site map and a search both come to an end: with sitemaps that name each
\* other, pages that link to each other, and loads that keep failing
\* (sitemap/service.go Map, sitemap/crawl.go crawl, emails/service.go Find).
EveryRunEnds == EveryMapEnds /\ EverySearchEnds
=============================================================================
