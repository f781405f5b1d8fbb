---------------------------- MODULE EmailSearch ----------------------------
(* pkg/emails: one run of Service.Find. A queue of candidate pages and      *)
(* sitemaps, ordered by score, is loaded in batches; what a page links to   *)
(* and the addresses found on it are taken from the results in order.       *)
(* hunt holds the request and the site, fixed for the run.                  *)
EXTENDS Pages

CONSTANTS Hunts,                \* the requests and sites checked
          Concurrency,          \* loads at a time without a profile
          MaximumPages, MaximumEmails, MaxCandidates, MaxSitemapRequests, MaxDepth

\* What a request and a site may look like. A page's final URL may lie anywhere.
IsHunt(h) ==
  /\ h.request.url \in URLs /\ h.site.sitemap \in URLs
  /\ h.request.maxPages \in Nat /\ h.request.maxEmails \in Nat /\ h.request.profile \in BOOLEAN
  /\ \A u \in DOMAIN h.site.sitemaps :
       h.site.sitemaps[u].urls \in Seq(URLs) /\ h.site.sitemaps[u].children \in Seq(URLs)
  /\ \A u \in DOMAIN h.site.pages :
       /\ h.site.pages[u].links \in Seq(URLs) /\ h.site.pages[u].final \in URLs \cup {Nowhere}
       /\ h.site.pages[u].addresses \in Seq(STRING)

ASSUME EmailSearchAssumption ==
  /\ \A h \in Hunts : IsHunt(h)
  /\ {Concurrency, MaximumPages, MaximumEmails} \subseteq Nat \ {0}
  /\ {MaxCandidates, MaxSitemapRequests, MaxDepth} \subseteq Nat

VARIABLES hunt,                 \* the request and its site
          stage,                \* "search", "done", "cancelled" or "saturated"
          over,                 \* "no", "deadline" or "cancelled": the run's context
          search,               \* the Go search
          loads,                \* history: the batches loaded
          offered               \* history: the candidates add was given

searchVars == <<hunt, stage, over, search, loads, offered>>

ScopedURL(u) == NormalizedTo(u, {"site"}, {"page"})

WarnSearch(s, message) == [s EXCEPT !.warnings = @ \cup {message}]

Limited(s) == s.warnings # {}

AddTarget(s, item) ==
  IF item.url \in s.seen THEN s
  ELSE IF item.depth > MaxDepth THEN [s EXCEPT !.depthLimited = TRUE]
  ELSE IF Cardinality(s.seen) >= MaxCandidates THEN [s EXCEPT !.candidatesDropped = TRUE]
  ELSE [s EXCEPT !.seen = @ \cup {item.url}, !.queue = Append(@, item)]

\* The order of the queue; no two of its targets have one URL.
Before(a, b) ==
  \/ a.score > b.score
  \/ a.score = b.score /\ a.depth < b.depth
  \/ a.score = b.score /\ a.depth = b.depth /\ a.url < b.url

\* orderTargets: before a target come as many as there are to go before it. No
\* two targets of the queue have one URL, so there is one such order.
Ordered(queue) ==
  [i \in DOMAIN queue |->
     CHOOSE t \in ToSet(queue) : Cardinality({other \in ToSet(queue) : Before(other, t)}) = i - 1]

Visit(s, item) ==
  [s EXCEPT !.visited = @ \cup {item.url},
            !.sitemapRequests = IF item.sitemap THEN @ + 1 ELSE @]

\* Mutant: the pages of the batch are not counted.
TakeOne_PagesOnce(t, item, size) ==
  IF Len(t.batch) >= size THEN [t EXCEPT !.search.queue = Append(@, item)]
  ELSE IF item.url \in t.search.visited THEN t
  ELSE IF item.sitemap /\ t.search.sitemapRequests >= MaxSitemapRequests THEN
    [t EXCEPT !.search.sitemapLimited = TRUE]
  ELSE [t EXCEPT !.search = Visit(t.search, item), !.batch = Append(@, item)]

\* One target of the queue, or what is left of it once the batch is full or a
\* page comes that is one too many (stopped).
TakeOne(t, item, size) ==
  IF t.stopped \/ Len(t.batch) >= size THEN [t EXCEPT !.search.queue = Append(@, item)]
  ELSE IF ~item.sitemap /\ t.pages >= hunt.request.maxPages THEN
    [t EXCEPT !.stopped = TRUE, !.search.queue = Append(@, item)]
  ELSE IF item.url \in t.search.visited THEN t
  ELSE IF item.sitemap /\ t.search.sitemapRequests >= MaxSitemapRequests THEN
    [t EXCEPT !.search.sitemapLimited = TRUE]
  ELSE [t EXCEPT !.search = Visit(t.search, item),
                 !.pages = IF item.sitemap THEN @ ELSE @ + 1,
                 !.batch = Append(@, item)]

\* take: the batch, and the search without the targets it passed.
TakeBatch(s, size) ==
  Fold(LAMBDA t, item : TakeOne(t, item, size),
       [search |-> [s EXCEPT !.queue = <<>>], batch |-> <<>>, pages |-> Len(s.pages), stopped |-> FALSE],
       Ordered(s.queue))

\* The links that stay on the site and whose score is not below least.
InScope(links, least) ==
  Fold(LAMBDA kept, link : IF ScopedURL(link) # Nowhere /\ Of[link].rank >= least THEN Append(kept, link) ELSE kept,
       <<>>, links)

Cut(targets) == Take(targets, Min({MaxCandidates, Len(targets)}))

AsTargets(links, depth, sitemap) ==
  [i \in DOMAIN links |-> [url |-> ScopedURL(links[i]), depth |-> depth, sitemap |-> sitemap,
                           score |-> IF sitemap THEN 110 ELSE Of[links[i]].rank]]

PageLinks(u, depth) == Cut(AsTargets(InScope(hunt.site.pages[u].links, 0), depth, FALSE))

SitemapLinks(u) ==
  Cut(AsTargets(InScope(hunt.site.sitemaps[u].urls, 1), 1, FALSE)
      \o AsTargets(InScope(hunt.site.sitemaps[u].children, 0), 0, TRUE))

Record(s, address) ==
  IF address \in s.emails THEN s
  ELSE IF Cardinality(s.emails) >= hunt.request.maxEmails THEN WarnSearch(s, "email limit reached")
  ELSE [s EXCEPT !.emails = @ \cup {address}]

\* Whether a load's result is used: it succeeded, the site answered, and the
\* answer came from within the site.
Usable(item, ok) ==
  /\ ok
  /\ IF item.sitemap THEN item.url \in DOMAIN hunt.site.sitemaps
     ELSE item.url \in DOMAIN hunt.site.pages /\ ScopedURL(hunt.site.pages[item.url].final) # Nowhere

\* What consume gives to add.
Candidates(item, ok) ==
  IF ~Usable(item, ok) THEN <<>>
  ELSE IF item.sitemap THEN SitemapLinks(item.url) ELSE PageLinks(item.url, item.depth + 1)

ConsumeLoad(s, item, ok) ==
  LET page == hunt.site.pages[item.url]
      listed == [s EXCEPT !.pages = Append(@, [url |-> item.url, ok |-> Usable(item, ok)])]
      arrived == [listed EXCEPT !.visited = @ \cup {ScopedURL(page.final)}]
  IN Fold(AddTarget,
              IF item.sitemap THEN s
              ELSE IF Usable(item, ok) THEN Fold(Record, arrived, page.addresses)
              ELSE listed,
              Candidates(item, ok))

------------------------------------------------------------------------------
(* Actions *)

\* Any other request is answered with an error.
ValidSearch(request) ==
  /\ request.maxPages \in 1 .. MaximumPages /\ request.maxEmails \in 1 .. MaximumEmails
  /\ request.profile => request.render # "never"

SearchInit ==
  /\ hunt \in {h \in Hunts : ValidSearch(h.request)}
  /\ stage = "search" /\ over = "no" /\ loads = <<>>
  /\ LET first == [url |-> hunt.request.url, depth |-> 0, sitemap |-> FALSE, score |-> 200]
         sitemap == [url |-> hunt.site.sitemap, depth |-> 0, sitemap |-> TRUE, score |-> 110]
         start == IF hunt.request.profile \/ hunt.request.maxPages = 1 THEN <<first>> ELSE <<first, sitemap>>
     IN /\ offered = {t.url : t \in ToSet(start)}
        /\ search = Fold(AddTarget,
                      [queue |-> <<>>, seen |-> {}, visited |-> {}, emails |-> {}, pages |-> <<>>, warnings |-> {},
                       sitemapRequests |-> 0, candidatesDropped |-> FALSE, sitemapLimited |-> FALSE,
                       depthLimited |-> FALSE, outcome |-> "ok"],
                      start)

Searching ==
  /\ search.queue # <<>> /\ Len(search.pages) < hunt.request.maxPages
  /\ Cardinality(search.emails) < hunt.request.maxEmails /\ over = "no"

TakenNow == TakeBatch(search, IF hunt.request.profile THEN 1 ELSE Concurrency)

LoadBatch ==
  /\ stage = "search" /\ Searching /\ TakenNow.batch # <<>>
  /\ LET batch == TakenNow.batch IN
     /\ loads' = Append(loads, batch)
     /\ \/ \E ok \in SUBSET DOMAIN batch :
             /\ search' = Fold(LAMBDA s, i : ConsumeLoad(s, batch[i], i \in ok), TakenNow.search,
                                   [i \in DOMAIN batch |-> i])
             /\ offered' = offered \cup UNION {{t.url : t \in ToSet(Candidates(batch[i], i \in ok))} : i \in DOMAIN batch}
             /\ UNCHANGED stage
        \/ stage' = "saturated" /\ UNCHANGED <<search, offered>>
  /\ UNCHANGED <<hunt, over>>

Warnings_NoCandidates(s) ==
  (IF over = "deadline" THEN {"duration limit reached"} ELSE {})
  \cup (IF Cardinality(s.emails) >= hunt.request.maxEmails THEN {"email limit reached"} ELSE {})
  \cup (IF s.queue # <<>> /\ Len(s.pages) >= hunt.request.maxPages THEN {"page limit reached"} ELSE {})
  \cup (IF s.sitemapLimited THEN {"sitemap request limit reached"} ELSE {})
  \cup (IF s.depthLimited THEN {"crawl depth limit reached"} ELSE {})

Warnings(s) ==
  (IF over = "deadline" THEN {"duration limit reached"} ELSE {})
  \cup (IF Cardinality(s.emails) >= hunt.request.maxEmails THEN {"email limit reached"} ELSE {})
  \cup (IF s.queue # <<>> /\ Len(s.pages) >= hunt.request.maxPages THEN {"page limit reached"} ELSE {})
  \cup (IF s.candidatesDropped THEN {"candidate URL limit reached"} ELSE {})
  \cup (IF s.sitemapLimited THEN {"sitemap request limit reached"} ELSE {})
  \cup (IF s.depthLimited THEN {"crawl depth limit reached"} ELSE {})

\* finish: the warnings of the whole search, and its outcome.
Concluded(s) ==
  LET warned == [s EXCEPT !.warnings = @ \cup Warnings(s)]
      failed == {i \in DOMAIN s.pages : ~s.pages[i].ok}
  IN [warned EXCEPT !.outcome = IF s.pages # <<>> /\ failed = DOMAIN s.pages THEN "failed"
                                ELSE IF failed # {} \/ Limited(warned) THEN "partial" ELSE "ok"]

\* Mutant: a batch that came out empty does not end the loop.
FinishSearch_NotWhenEmpty ==
  /\ stage = "search" /\ ~Searching
  /\ stage' = IF over = "cancelled" THEN "cancelled" ELSE "done"
  /\ search' = Concluded(search)
  /\ UNCHANGED <<hunt, over, loads, offered>>

FinishSearch ==
  /\ stage = "search"
  /\ ~Searching \/ TakenNow.batch = <<>>
  /\ stage' = IF over = "cancelled" THEN "cancelled" ELSE "done"
  /\ search' = Concluded(IF Searching THEN TakenNow.search ELSE search)
  /\ UNCHANGED <<hunt, over, loads, offered>>

SearchContextEnds(how) ==
  /\ stage = "search" /\ over = "no"
  /\ over' = how
  /\ UNCHANGED <<hunt, stage, search, loads, offered>>

SearchStep == LoadBatch \/ FinishSearch

SearchReturned == stage \in {"done", "cancelled", "saturated"}

SearchNext ==
  \/ SearchStep
  \/ \E how \in {"deadline", "cancelled"} : SearchContextEnds(how)
  \/ SearchReturned /\ UNCHANGED searchVars

SearchSpec == SearchInit /\ [][SearchNext]_searchVars

\* A run goes on while its goroutine is scheduled and every load ends, at
\* the latest by its timeout.
FairSearchSpec == SearchSpec /\ WF_searchVars(SearchStep)

------------------------------------------------------------------------------
(* Properties *)

\* A search that calls its outcome "ok" left nothing out: it visited every
\* candidate that was offered, and reports every address of every page it
\* read (search.go finish, docs/emails.md: limits make a result partial).
OkMeansComplete ==
  stage = "done" /\ search.outcome = "ok" =>
    /\ offered \subseteq search.visited
    /\ \A i \in DOMAIN search.pages :
         search.pages[i].ok /\ ToSet(hunt.site.pages[search.pages[i].url].addresses) \subseteq search.emails

Loaded == UNION {ToSet(loads[b]) : b \in DOMAIN loads}

\* Batches of pages and sitemaps together keep every limit: no URL is
\* loaded twice; pages and sitemaps stay within their counts; a login
\* profile loads one page at a time and no sitemap (search.go take, service.go Find).
SearchStaysWithinLimits ==
  /\ \A a, b \in DOMAIN loads : \A i \in DOMAIN loads[a], k \in DOMAIN loads[b] :
       loads[a][i].url = loads[b][k].url => a = b /\ i = k
  /\ Cardinality({t \in Loaded : ~t.sitemap}) <= hunt.request.maxPages
  /\ Cardinality({t \in Loaded : t.sitemap}) <= MaxSitemapRequests
  /\ Cardinality(search.emails) <= hunt.request.maxEmails
  /\ hunt.request.profile => \A b \in DOMAIN loads : Len(loads[b]) = 1 /\ ~loads[b][1].sitemap

------------------------------------------------------------------------------
(* What the variables hold. *)

Targets == [url : URLs, depth : Nat, sitemap : BOOLEAN, score : Nat]

Messages ==
  {"duration limit reached", "email limit reached", "page limit reached", "candidate URL limit reached",
   "sitemap request limit reached", "crawl depth limit reached"}

Searches ==
  [queue : Seq(Targets), seen : SUBSET URLs, visited : SUBSET URLs, emails : SUBSET STRING,
   pages : Seq([url : URLs, ok : BOOLEAN]), warnings : SUBSET Messages, sitemapRequests : Nat,
   candidatesDropped : BOOLEAN, sitemapLimited : BOOLEAN, depthLimited : BOOLEAN,
   outcome : {"ok", "partial", "failed"}]

\* A search keeps its fields' types (service.go search).
SearchTypeOK ==
  /\ hunt \in Hunts
  /\ stage \in {"search", "done", "cancelled", "saturated"}
  /\ over \in {"no", "deadline", "cancelled"}
  /\ search \in Searches
  /\ loads \in Seq(Seq(Targets))
  /\ offered \subseteq URLs

\* Every search comes to an end: with sitemaps that name each other, pages that link
\* to each other, and loads that keep failing (service.go Find).
EverySearchEnds == <>SearchReturned
=============================================================================
