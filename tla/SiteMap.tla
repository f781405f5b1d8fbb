------------------------------ MODULE SiteMap ------------------------------
(* pkg/sitemap: one run of Service.Map. It reads robots.txt, then sitemaps  *)
(* in batches, then crawls level by level: the pages of a batch are fetched *)
(* concurrently (over HTTP, rendered or explored, under counters they       *)
(* share) and their results consumed in order.                              *)
(*                                                                          *)
(* job holds the request and the site it meets, both chosen at the start    *)
(* and fixed. job.site gives the lines of robots.txt, what sitemaps and     *)
(* pages hold, and the compressed sitemaps; a URL without an entry answers  *)
(* with an error status. Any load may also fail, find the limiter           *)
(* saturated, or be cut off by the deadline.                                *)
EXTENDS Pages

CONSTANTS Jobs,                 \* the requests and sites checked
          Ids,                  \* the path segments that look like an id
          MaximumLimit, MaximumDepth, MaximumSitemaps, SitemapBatchSize, MaximumRobotsRules, MaximumPageLinks,
          CrawlBatchSize, MaximumCrawlPages, MaximumRenders, MaximumExplores, MaximumScripts, MaximumEndpoints,
          ShapeSampleLimit, SimilarityDistance, TemplateThreshold

\* What a request and a site may look like.
IsSiteMap(entry) == entry.urls \in Seq(URLs) /\ entry.children \in Seq(URLs)

IsSitePage(page) ==
  /\ page.final \in URLs \cup {Nowhere} /\ page.html \in BOOLEAN /\ page.print \subseteq Nat
  /\ {page.links, page.rendered, page.explored, page.endpoints} \subseteq Seq(URLs)
  /\ page.scripts \in Seq(STRING)

IsJob(j) ==
  /\ j.request.url \in URLs /\ j.request.limit \in Nat /\ j.request.depth \in Nat
  /\ j.site.robots \in Seq(ToSet(j.site.robots))
  /\ \A line \in ToSet(j.site.robots) :
       /\ line.name = "user-agent" => line.star \in BOOLEAN
       /\ line.name \in {"allow", "disallow"} => line.length \in Nat
  /\ j.site.named \in Seq(URLs) /\ j.site.guesses \in Seq(URLs)
  /\ DOMAIN j.site.sitemaps \subseteq URLs /\ \A u \in DOMAIN j.site.sitemaps : IsSiteMap(j.site.sitemaps[u])
  /\ DOMAIN j.site.pages \subseteq URLs /\ \A u \in DOMAIN j.site.pages : IsSitePage(j.site.pages[u])
  /\ \A u \in DOMAIN j.site.pages : \A s \in ToSet(j.site.pages[u].scripts) : j.site.scripts[s] \in Seq(URLs)

ASSUME SiteMapAssumption ==
  /\ \A j \in Jobs : IsJob(j)
  /\ {MaximumSitemaps, SitemapBatchSize, MaximumPageLinks, CrawlBatchSize, MaximumCrawlPages} \subseteq Nat \ {0}
  /\ {MaximumRobotsRules, MaximumRenders, MaximumExplores, MaximumScripts, MaximumEndpoints} \subseteq Nat
  /\ {ShapeSampleLimit, SimilarityDistance} \subseteq Nat /\ TemplateThreshold \in Nat \ {0, 1}

VARIABLES job,                  \* the request and its site
          phase,                \* "robots", "sitemaps", "crawl", "finish", "done", "cancelled", "saturated"
          ended,                \* "no", "deadline" or "cancelled": the run's context
          run,                  \* the Go run and crawler
          tried                 \* history: the pages the crawler fetched, in order

mapVars == <<job, phase, ended, run, tried>>

NoPrint == {0}                  \* a page with too little text to compare

------------------------------------------------------------------------------
(* URLs: scope, shapes, templates *)

Normalize(u) ==
  NormalizedTo(u, {"site"} \cup (IF job.request.subdomains THEN {"sub"} ELSE {}), {"page", "pdf"})

Permitted(u) ==
  /\ job.request.include = {} \/ u \in job.request.include
  /\ u \notin job.request.exclude

Marked(u, mark) == [i \in DOMAIN Of[u].path |-> IF Of[u].path[i] \in Ids THEN mark ELSE Of[u].path[i]]

Shape(u) == <<Of[u].host, Take(Marked(u, "#"), IF Of[u].path = <<>> THEN 0 ELSE 1), Len(Of[u].path), Of[u].query>>

\* The segments that follow a pattern: the children of its trie node.
Children(placed, pattern, k) ==
  {Marked(p.url, "*")[k] : p \in {q \in placed : q.pattern = pattern /\ Len(Of[q.url].path) >= k}}

Wild_OneMore(placed, pattern, k) == k > 1 /\ Cardinality(Children(placed, pattern, k)) > TemplateThreshold

Wild(placed, pattern, k) == k > 1 /\ Cardinality(Children(placed, pattern, k)) >= TemplateThreshold

\* Every URL with its pattern, one segment after the other: the trie of its
\* host collapsed from the root down. A pattern's first element is the host.
Templates(found) ==
  Fold(LAMBDA placed, k :
             {IF Len(Of[p.url].path) < k THEN p
              ELSE [p EXCEPT !.pattern = Append(@, IF Wild(placed, p.pattern, k) THEN "*" ELSE Marked(p.url, "*")[k])] :
              p \in placed},
           {[url |-> u, pattern |-> <<Of[u].host>>] : u \in found},
           [k \in 1 .. Max({0} \cup {Len(Of[u].path) : u \in found}) |-> k])

------------------------------------------------------------------------------
(* robots.txt: lines [name, star] for a user agent, [name, length, matches] *)
(* for a rule, where matches is the set of URLs its pattern matches.        *)

ReadLine(p, line) ==
  IF line.name = "user-agent" THEN
    [rules |-> p.rules, applies |-> (p.applies /\ p.afterAgent) \/ line.star, afterAgent |-> TRUE]
  ELSE IF line.name \in {"allow", "disallow"} THEN
    [rules |-> IF ~p.applies \/ line.length = 0 \/ Len(p.rules) >= MaximumRobotsRules THEN p.rules
               ELSE Append(p.rules, line),
     applies |-> p.applies, afterAgent |-> FALSE]
  ELSE p

ParseRobotsRules(lines) == Fold(ReadLine, [rules |-> <<>>, applies |-> FALSE, afterAgent |-> FALSE], lines).rules

Beats_First(rule, best) == best.length = 0

\* Whether a rule takes over from the best one so far.
Beats(rule, best) == rule.length > best.length \/ (rule.length = best.length /\ rule.name = "allow")

NoRule == [name |-> "allow", length |-> 0, matches |-> {}]

Blocks(rules, u) ==
  Fold(LAMBDA best, rule : IF u \in rule.matches /\ Beats(rule, best) THEN rule ELSE best, NoRule, rules).name
    = "disallow"

------------------------------------------------------------------------------
(* The run *)

Full(r) == Cardinality(r.urls) >= job.request.limit

Warn(r, message) == [r EXCEPT !.warnings = @ \cup {message}]

Add_Silent(r, u) ==
  IF u = Nowhere \/ u \in r.urls \/ ~Permitted(u) \/ Full(r) THEN r ELSE [r EXCEPT !.urls = @ \cup {u}]

Add(r, u) ==
  IF u = Nowhere \/ u \in r.urls \/ ~Permitted(u) THEN r
  ELSE IF Full(r) THEN [r EXCEPT !.limited = TRUE]
  ELSE [r EXCEPT !.urls = @ \cup {u}]

EnqueueSitemap(r, link) ==
  LET u == Normalize(link) IN
  IF u = Nowhere \/ u \in r.visited THEN r
  ELSE [r EXCEPT !.visited = @ \cup {u}, !.queue = Append(@, u)]

ConsumeSitemap(r, u, ok) ==
  IF ~ok \/ u \notin DOMAIN job.site.sitemaps THEN
    IF ok /\ u \in job.site.zipped THEN Warn(r, "compressed sitemap skipped") ELSE r
  ELSE Fold(EnqueueSitemap,
                Fold(LAMBDA acc, link : Add(acc, Normalize(link)),
                         [r EXCEPT !.sitemapsRead = @ + 1], job.site.sitemaps[u].urls),
                job.site.sitemaps[u].children)

\* Sampler.Allow: one more URL of this shape.
Sampled(counts, shape) == [counts EXCEPT ![shape] = @ + 1]

\* A page link is queued once, unless robots.txt forbids it or enough pages
\* of its shape were queued. Links of a page that is not expanded are not.
Enqueue(r, u) ==
  IF u = Nowhere \/ u \in r.queued \/ ~Permitted(u) THEN r
  ELSE IF Blocks(r.rules, u) THEN [r EXCEPT !.queued = @ \cup {u}, !.robotsSkipped = @ + 1]
  ELSE IF r.counts[Shape(u)] >= ShapeSampleLimit THEN r
  ELSE [r EXCEPT !.queued = @ \cup {u}, !.counts = Sampled(r.counts, Shape(u)), !.next = Append(@, u)]

Follow(r, links, expand) ==
  Fold(LAMBDA acc, link : LET added == Add(acc, Normalize(link)) IN
                              IF expand THEN Enqueue(added, Normalize(link)) ELSE added,
           r, links)

AddEndpoints(r, links) ==
  Fold(LAMBDA acc, link :
             LET u == Normalize(link) IN
             IF u = Nowhere \/ Cardinality(acc.endpoints) >= MaximumEndpoints THEN acc
             ELSE [acc EXCEPT !.endpoints = @ \cup {u}],
           r, links)

AddScripts(r, scripts) ==
  Fold(LAMBDA acc, s :
             IF s \in acc.scripts \/ Cardinality(acc.scripts) >= MaximumScripts THEN acc
             ELSE [acc EXCEPT !.scripts = @ \cup {s}, !.toRead = Append(@, s)],
           r, scripts)

SimhashDistance(a, b) == Cardinality((a \ b) \cup (b \ a))

Seen(prints, print) == \E known \in prints : SimhashDistance(known, print) <= SimilarityDistance

\* The links on a page, loaded in one of the ways.
AllLinks(u, way) == IF way = "plain" THEN job.site.pages[u].links ELSE job.site.pages[u].rendered

LinksOf_OneLess(u, way) == Take(AllLinks(u, way), Min({MaximumPageLinks - 1, Len(AllLinks(u, way))}))

\* Those that are read of it: the rest is dropped, and nothing says so.
LinksOf(u, way) == Take(AllLinks(u, way), Min({MaximumPageLinks, Len(AllLinks(u, way))}))

ExploredOf(u, way) == IF way = "explored" THEN job.site.pages[u].explored ELSE <<>>

Expand_TwoLess(depth) == depth + 2 < job.request.depth

\* Only pages above the last level are expanded.
Expand(depth) == depth + 1 < job.request.depth

Consume(r, u, way) ==
  LET page == job.site.pages[u]
      final == IF way = "failed" THEN Nowhere ELSE Normalize(page.final)
      counted == [r EXCEPT !.pages = Append(@, [url |-> u, way |-> way, depth |-> r.depth])]
      opened == IF r.depth = 0 THEN Add([counted EXCEPT !.pageRead = TRUE], final) ELSE counted
      compared == way # "failed" /\ page.html /\ page.print # NoPrint
      duplicate == compared /\ Seen(r.prints, page.print)
      noted == [opened EXCEPT !.prints = IF compared /\ ~duplicate THEN @ \cup {page.print} ELSE @]
      expand == Expand(r.depth) /\ ~duplicate
  IN IF final = Nowhere THEN IF r.depth = 0 THEN Warn(r, "start page") ELSE r
     ELSE IF ~page.html THEN opened
     ELSE AddEndpoints(
            AddScripts(Follow(Follow(noted, LinksOf(u, way), expand), ExploredOf(u, way), expand), page.scripts),
            page.endpoints)

------------------------------------------------------------------------------
(* One batch of pages. Explorers and renderers are the members that get one *)
(* of the attempts the whole run shares.                                    *)

OfSize(n, S) == {s \in SUBSET S : Cardinality(s) = n}

Explorers(batch) ==
  OfSize(IF job.browser /\ job.request.explore THEN Min({Len(batch), MaximumExplores - run.explores}) ELSE 0, DOMAIN batch)

Shell(u) == u \in DOMAIN job.site.pages /\ job.site.pages[u].html /\ job.site.pages[u].shell

RendersLeft == MaximumRenders - run.renders

Renderers(batch, explorers) ==
  LET others == DOMAIN batch \ explorers
      shells == {i \in DOMAIN batch : Shell(batch[i])}
  IN IF ~job.browser \/ job.request.render = "never" THEN {{}}
     ELSE IF job.request.render = "always" THEN OfSize(Min({Cardinality(others), RendersLeft}), others)
     ELSE {r \in SUBSET shells : Cardinality(r) <= RendersLeft}

\* How a fetch may end. With "auto" a page is rendered after its HTML came,
\* so it has that HTML to fall back on, and a shell goes without rendering
\* only when the attempts are spent.
Ends(u, explores, renders, spent) ==
  {way \in {"explored", "rendered", "plain", "failed", "saturated"} :
     /\ way \in {"explored", "rendered", "plain"} => u \in DOMAIN job.site.pages
     /\ way = "explored" => explores
     /\ way = "rendered" => renders
     /\ job.browser /\ job.request.render = "auto" =>
          IF renders THEN way \in {"rendered", "plain", "saturated"} ELSE way = "plain" /\ Shell(u) => spent}

------------------------------------------------------------------------------
(* Actions *)

\* Any other request is answered with an error.
ValidMap(request) ==
  /\ request.limit \in 1 .. MaximumLimit /\ request.depth \in 1 .. MaximumDepth
  /\ request.render \in {"never", "auto", "always"}
  /\ request.explore => request.render # "never"

MapInit ==
  /\ job \in {j \in Jobs : ValidMap(j.request)}
  /\ phase = "robots" /\ ended = "no" /\ tried = <<>>
  /\ run = [urls |-> {}, limited |-> FALSE, warnings |-> {}, outcome |-> "ok", pageRead |-> FALSE,
            rules |-> <<>>, queue |-> <<>>, visited |-> {}, fetched |-> 0, sitemapsRead |-> 0,
            level |-> <<>>, next |-> <<>>, depth |-> 0, queued |-> {}, counts |-> [s \in {Shape(u) : u \in URLs} |-> 0],
            prints |-> {}, pages |-> <<>>, robotsSkipped |-> 0, renders |-> 0, explores |-> 0,
            scripts |-> {}, toRead |-> <<>>, endpoints |-> {}, templates |-> {}]

\* A saturated limiter ends the run with an error and no report.
Refuse == phase' = "saturated" /\ UNCHANGED <<job, ended, run>>

ReadRobots(read) ==
  /\ phase = "robots" /\ (read => ended = "no")
  /\ phase' = "sitemaps"
  /\ LET named == IF ~read THEN run
                  ELSE Fold(EnqueueSitemap, [run EXCEPT !.rules = ParseRobotsRules(job.site.robots)],
                                job.site.named)
     IN run' = IF named.queue # <<>> THEN named ELSE Fold(EnqueueSitemap, named, job.site.guesses)
  /\ UNCHANGED <<job, ended, tried>>

RobotsSaturated == phase = "robots" /\ Refuse /\ UNCHANGED tried

MoreSitemaps == run.queue # <<>> /\ ~Full(run) /\ ended = "no"

ReadSitemaps(size) ==
  /\ phase = "sitemaps" /\ MoreSitemaps /\ run.fetched < MaximumSitemaps
  /\ size = Min({SitemapBatchSize, Len(run.queue), MaximumSitemaps - run.fetched})
  /\ \/ \E ok \in SUBSET (1 .. size) :
          run' = Fold(LAMBDA r, i : ConsumeSitemap(r, run.queue[i], i \in ok),
                          [run EXCEPT !.queue = Drop(@, size), !.fetched = @ + size], [i \in 1 .. size |-> i])
        /\ UNCHANGED <<job, phase, ended>>
     \/ Refuse
  /\ UNCHANGED tried

StartCrawl ==
  /\ phase = "sitemaps" /\ ~(MoreSitemaps /\ run.fetched < MaximumSitemaps)
  /\ LET r == IF MoreSitemaps THEN Warn(run, "sitemap limit reached") ELSE run
         offered == IF job.request.render # "never" /\ ~job.browser THEN Warn(r, "no browser") ELSE r
     IN IF Full(run) \/ ended # "no" THEN phase' = "finish" /\ run' = r
        ELSE /\ phase' = "crawl"
             /\ run' = [offered EXCEPT !.level = <<job.request.url>>, !.queued = {Normalize(job.request.url)}]
  /\ UNCHANGED <<job, ended, tried>>

LevelRuns == run.level # <<>> /\ ~Full(run) /\ ended = "no"

AtPageLimit_Never == FALSE

AtPageLimit == Len(run.pages) >= MaximumCrawlPages

CrawlBatch ==
  /\ phase = "crawl" /\ LevelRuns /\ ~AtPageLimit
  /\ LET size == Min({CrawlBatchSize, Len(run.level), MaximumCrawlPages - Len(run.pages)})
         batch == Take(run.level, size)
     IN \E explorers \in Explorers(batch) : \E renderers \in Renderers(batch, explorers) :
        \E ways \in [1 .. size -> {"explored", "rendered", "plain", "failed", "saturated"}] :
          /\ \A i \in 1 .. size :
               ways[i] \in Ends(batch[i], i \in explorers, i \in renderers, Cardinality(renderers) = RendersLeft)
          /\ tried' = tried \o batch
          /\ IF \E i \in 1 .. size : ways[i] = "saturated" THEN Refuse
             ELSE /\ run' = Fold(LAMBDA r, i : Consume(r, batch[i], ways[i]),
                                     [run EXCEPT !.level = Drop(@, size), !.renders = @ + Cardinality(renderers),
                                                 !.explores = @ + Cardinality(explorers)],
                                     [i \in 1 .. size |-> i])
                  /\ UNCHANGED <<job, phase, ended>>

\* The scripts of the level's pages are read, then the next level begins.
EndLevel ==
  /\ phase = "crawl" /\ ~(LevelRuns /\ ~AtPageLimit)
  /\ \/ \E ok \in SUBSET ToSet(run.toRead) :
          LET warned == IF LevelRuns THEN Warn(run, "crawl page limit reached") ELSE run
              found == Fold(LAMBDA r, s : IF s \in ok THEN AddEndpoints(r, job.site.scripts[s]) ELSE r,
                                warned, run.toRead)
          IN /\ ended # "no" => ok = {}
             /\ run' = [found EXCEPT !.toRead = <<>>, !.level = run.next, !.next = <<>>, !.depth = @ + 1]
             /\ phase' = IF run.depth + 1 < job.request.depth /\ run.next # <<>> THEN "crawl" ELSE "finish"
             /\ UNCHANGED <<job, ended>>
     \/ run.toRead # <<>> /\ ended = "no" /\ Refuse
  /\ UNCHANGED tried

Finish ==
  /\ phase = "finish"
  /\ phase' = IF ended = "cancelled" THEN "cancelled" ELSE "done"
  /\ LET late == IF ended = "deadline" THEN [Warn(run, "duration limit reached") EXCEPT !.limited = TRUE] ELSE run
     IN run' = [late EXCEPT !.outcome = IF run.urls = {} /\ run.sitemapsRead = 0 /\ ~run.pageRead THEN "failed" ELSE @,
                            !.templates = Templates(run.urls)]
  /\ UNCHANGED <<job, ended, tried>>

\* The caller goes away or the run's time is up.
ContextEnds(how) ==
  /\ ended = "no" /\ phase \in {"robots", "sitemaps", "crawl", "finish"}
  /\ ended' = how
  /\ UNCHANGED <<job, phase, run, tried>>

MapStep ==
  \/ \E read \in BOOLEAN : ReadRobots(read)
  \/ RobotsSaturated
  \/ \E size \in 1 .. SitemapBatchSize : ReadSitemaps(size)
  \/ StartCrawl
  \/ CrawlBatch
  \/ EndLevel
  \/ Finish

MapReturned == phase \in {"done", "cancelled", "saturated"}

MapNext ==
  \/ MapStep
  \/ \E how \in {"deadline", "cancelled"} : ContextEnds(how)
  \/ MapReturned /\ UNCHANGED mapVars

MapSpec == MapInit /\ [][MapNext]_mapVars

\* A run goes on while its goroutine is scheduled and every load ends, at
\* the latest by its timeout.
FairMapSpec == MapSpec /\ WF_mapVars(MapStep)

------------------------------------------------------------------------------
(* Properties *)

\* A rule line counts for every agent when no other group of agents began
\* between an agent line "*" and it.
ForEveryone(lines, i) ==
  \E a \in 1 .. i - 1 :
    /\ lines[a].name = "user-agent" /\ lines[a].star
    /\ ~\E r \in a + 1 .. i - 1, b \in a + 1 .. i - 1 :
          r < b /\ lines[r].name \in {"allow", "disallow"} /\ lines[b].name = "user-agent"

\* The lines that hold a rule for every agent, as many as are kept of them.
RuleLines(lines) ==
  {i \in DOMAIN lines : lines[i].name \in {"allow", "disallow"} /\ lines[i].length > 0 /\ ForEveryone(lines, i)}

KeptLines(lines) == {i \in RuleLines(lines) : Cardinality({k \in RuleLines(lines) : k <= i}) <= MaximumRobotsRules}

\* robots.txt forbids a URL when it is disallowed by the longest rule that
\* matches, and no allow rule of that length matches.
Disallowed(lines, u) ==
  LET matching == {r \in {lines[i] : i \in KeptLines(lines)} : u \in r.matches}
      longest == {r \in matching : \A s \in matching : s.length <= r.length}
  IN longest # {} /\ \A r \in longest : r.name = "disallow"

\* Besides the start no page is fetched that robots.txt, once read, disallows
\* (rules for other agents do not count, and their order does not matter),
\* none twice, under one spelling or two, on one level or on two, and at
\* most ShapeSampleLimit of one shape (crawl.go enqueue, urls.go
\* parseRobotsRules and blocks, urlshape.go Sampler).
CrawlIsPolite ==
  /\ run.rules # <<>> => \A i \in DOMAIN tried : i > 1 => ~Disallowed(job.site.robots, tried[i])
  /\ \A i, j \in DOMAIN tried : Of[tried[i]].canon = Of[tried[j]].canon => i = j
  /\ \A s \in {Shape(tried[i]) : i \in DOMAIN tried} :
       Cardinality({i \in DOMAIN tried : i > 1 /\ Shape(tried[i]) = s}) <= ShapeSampleLimit

\* Whether another page that was read looks like this one.
LooksLikeAnother(r, p) ==
  \E q \in ToSet(r.pages) :
    /\ q # p /\ NoPrint \notin {job.site.pages[q.url].print, job.site.pages[p.url].print}
    /\ SimhashDistance(job.site.pages[q.url].print, job.site.pages[p.url].print) <= SimilarityDistance

\* The URLs of the site that a page which was read offers: the first
\* MaximumPageLinks links on it, and those that exploring it came to.
Offered(p) ==
  {Normalize(AllLinks(p.url, p.way)[i]) : i \in {k \in DOMAIN AllLinks(p.url, p.way) : k <= MaximumPageLinks}} \cup
  {Normalize(link) : link \in ToSet(ExploredOf(p.url, p.way))}

\* Of the first MaximumPageLinks links on a page that was read, and of those
\* found by exploring it, a report that does not say it is limited holds each
\* that is of the site and permitted: also a report that is exactly full, and
\* whatever it warns of. Above the last level each was fetched as a page
\* too, unless robots.txt forbids it, enough pages of its shape were fetched,
\* it was only linked from a page like another, or the crawl stopped early:
\* limited, with a warning of its page limit, or because the report is full,
\* which alone the report does not say (service.go add, crawl.go crawl,
\* consume and enqueue, urls.go pageLinks).
LinksAreAccountedFor ==
  phase = "done" =>
    \A p \in ToSet(run.pages) : job.site.pages[p.url].html =>
      \A u \in Offered(p) :
        u # Nowhere /\ Permitted(u) =>
          /\ run.limited \/ u \in run.urls
          /\ p.depth + 1 < job.request.depth =>
               \/ \E i \in DOMAIN tried : Of[tried[i]].canon = u
               \/ Disallowed(job.site.robots, u)
               \/ Cardinality({i \in DOMAIN tried : Shape(tried[i]) = Shape(u)}) >= ShapeSampleLimit
               \/ LooksLikeAnother(run, p)
               \/ run.limited \/ Full(run) \/ "crawl page limit reached" \in run.warnings

\* The templates of a report leave no position of a host's paths, below the
\* first, with TemplateThreshold literals or more, and blur a segment that
\* is no id only where that many URLs' segments differ
\* (urlshape.go collapse, templatePattern).
TemplatesAreTight ==
  phase = "done" =>
    \A t \in run.templates : \A k \in 2 .. Len(t.pattern) - 1 :
      LET alike == {s \in run.templates : Len(s.pattern) > k /\ Take(s.pattern, k) = Take(t.pattern, k)}
      IN /\ Cardinality({s.pattern[k + 1] : s \in alike}) < TemplateThreshold
         /\ t.pattern[k + 1] = "*" /\ Of[t.url].path[k] \notin Ids \cup {"*"} =>
              Cardinality({Of[s.url].path[k] : s \in alike}) >= TemplateThreshold

------------------------------------------------------------------------------
(* What the variables hold. *)

Ways == {"explored", "rendered", "plain", "failed", "saturated"}
Shapes == {Shape(u) : u \in URLs}
PageRecords == [url : URLs, way : Ways, depth : Nat]
SiteScripts == UNION {ToSet(job.site.pages[u].scripts) : u \in DOMAIN job.site.pages}

MapMessages == {"no browser", "compressed sitemap skipped", "start page", "sitemap limit reached",
                "crawl page limit reached", "duration limit reached"}

Runs ==
  [urls : SUBSET URLs, limited : BOOLEAN, warnings : SUBSET MapMessages, outcome : {"ok", "failed"}, pageRead : BOOLEAN,
   rules : Seq(ToSet(job.site.robots)), queue : Seq(URLs), visited : SUBSET URLs, fetched : Nat, sitemapsRead : Nat,
   level : Seq(URLs), next : Seq(URLs), depth : Nat, queued : SUBSET (URLs \cup {Nowhere}), counts : [Shapes -> Nat],
   prints : SUBSET SUBSET Nat, pages : Seq(PageRecords), robotsSkipped : Nat,
   renders : Nat, explores : Nat, scripts : SUBSET SiteScripts, toRead : Seq(SiteScripts), endpoints : SUBSET URLs,
   templates : {{}}]

\* A run keeps its fields' types until it returns its report (service.go run).
MapTypeOK ==
  /\ job \in Jobs /\ ended \in {"no", "deadline", "cancelled"} /\ tried \in Seq(URLs)
  /\ phase \in {"robots", "sitemaps", "crawl", "finish", "done", "cancelled", "saturated"}
  /\ phase \notin {"done", "cancelled"} => run \in Runs /\ IsFiniteSet(run.urls)

\* Every map comes to an end: with sitemaps that name each other, pages that link to
\* each other, and loads that keep failing (service.go Map, crawl.go crawl).
EveryMapEnds == <>MapReturned
=============================================================================
