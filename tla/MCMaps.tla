------------------------------- MODULE MCMaps -------------------------------
(* One site map of a site of twenty URLs.                                   *)
EXTENDS SiteMap, MCPages, TLC

MCIds == {"7", "8"}

P(links) == [final |-> 1, html |-> TRUE, links |-> links, rendered |-> links, explored |-> <<>>,
             print |-> NoPrint, shell |-> FALSE, scripts |-> <<>>, endpoints |-> <<>>]

Agent(star) == [name |-> "user-agent", star |-> star]
Rule(name, length, matches) == [name |-> name, length |-> length, matches |-> matches]

Site == [robots |-> <<>>, named |-> <<>>, guesses |-> <<10, 11>>, zipped |-> {}, sitemaps |-> None,
         pages |-> None, scripts |-> None]

Request == [url |-> 1, limit |-> 20, depth |-> 3, render |-> "never", explore |-> FALSE, subdomains |-> FALSE,
            include |-> {}, exclude |-> {}]

\* Three levels of pages, two near-duplicates, robots groups, a shape with
\* more pages than are sampled, a start under a tracking parameter.
Blog == [browser |-> FALSE, request |-> [Request EXCEPT !.url = 2], site |-> [Site EXCEPT
  !.robots = <<Agent(FALSE), Rule("disallow", 1, MCURLs), Agent(TRUE), [name |-> "other"], Agent(FALSE),
               Rule("disallow", 2, {3, 4, 5, 6}), Rule("allow", 3, {3, 4, 5}), Rule("disallow", 3, {4, 7}),
               Agent(FALSE), Rule("disallow", 9, {3})>>,
  !.pages = At((2 :> P(<<3, 1, 4, 5, 8, 13>>)) @@ (3 :> [P(<<6, 15, 19>>) EXCEPT !.print = {1}])
               @@ (4 :> [P(<<15, 16>>) EXCEPT !.print = {1, 2}]) @@ (5 :> P(<<7, 3>>)) @@ (15 :> P(<<17, 2>>))
               @@ (19 :> P(<<20>>)))]]

\* A limit met exactly, with a level of pages unread, or passed.
Met(limit) == [Blog EXCEPT !.request.limit = limit]

\* More pages of different shapes than may be fetched.
Wide == [browser |-> FALSE, request |-> [Request EXCEPT !.depth = 2], site |-> [Site EXCEPT
  !.pages = At((1 :> P(<<3, 7, 15, 19>>)) @@ (3 :> P(<<>>)) @@ (7 :> P(<<1>>)) @@ (15 :> P(<<20>>)) @@ (19 :> P(<<>>)))]]

\* Sitemaps that name each other, more than may be fetched, one compressed,
\* and a small limit.
Sitemaps(limit) == [browser |-> FALSE, request |-> [Request EXCEPT !.depth = 1, !.limit = limit], site |-> [Site EXCEPT
  !.named = <<10, 12, 13>>, !.zipped = {12},
  !.sitemaps = (10 :> [urls |-> <<3, 4, 2>>, children |-> <<10, 11, 12>>])
               @@ (11 :> [urls |-> <<5, 15, 16, 17>>, children |-> <<14, 7, 10>>])
               @@ (14 :> [urls |-> <<>>, children |-> <<>>]),
  !.pages = At(1 :> P(<<6, 19, 20>>))]]

\* Pages that need a browser, explored pages, scripts with endpoints.
App(render, explore) == [browser |-> TRUE,
  request |-> [Request EXCEPT !.render = render, !.explore = explore, !.depth = 2], site |-> [Site EXCEPT
  !.pages = At((1 :> [P(<<3>>) EXCEPT !.shell = TRUE, !.rendered = <<3, 4>>, !.explored = <<5>>, !.scripts = <<"s1", "s2", "s3">>])
               @@ (3 :> [P(<<>>) EXCEPT !.shell = TRUE, !.rendered = <<6>>, !.endpoints = <<18, 13, 7>>])
               @@ (4 :> [P(<<7>>) EXCEPT !.html = FALSE]) @@ (5 :> [P(<<19>>) EXCEPT !.final = 3])),
  !.scripts = ("s1" :> <<18>>) @@ ("s2" :> <<19, 20>>) @@ ("s3" :> <<20>>)]]

\* Subdomains, path patterns, a start that leaves the site, a page with
\* more links than are read.
Patterns(final) == [browser |-> FALSE,
  request |-> [Request EXCEPT !.render = "auto", !.subdomains = TRUE, !.include = MCURLs \ {7}, !.exclude = {5}, !.depth = 2],
  site |-> [Site EXCEPT !.robots = <<Agent(TRUE), Rule("disallow", 0, {}), Rule("disallow", 1, {4}), Rule("allow", 1, {4}),
                                     Rule("disallow", 2, {9}), Rule("disallow", 2, {3})>>,
  !.pages = At((1 :> [P(<<3, 4, 5, 7, 9, 6, 16>>) EXCEPT !.final = final]) @@ (9 :> P(<<1>>)) @@ (4 :> P(<<3, 9>>)))]]

\* Every robots.txt of up to three lines over two pages, and every set of
\* links of a start page, more of them than are read.
Robots(lines) == [browser |-> FALSE, request |-> [Request EXCEPT !.depth = 2],
  site |-> [Site EXCEPT !.robots = lines, !.pages = At(1 :> P(<<3, 4>>))]]

Lines == {Agent(TRUE), Agent(FALSE), Rule("allow", 1, {3}), Rule("disallow", 1, {3}), Rule("disallow", 2, {3, 4})}

Links(chosen) == [browser |-> FALSE, request |-> [Request EXCEPT !.depth = 1, !.subdomains = TRUE],
  site |-> [Site EXCEPT !.pages = At(1 :> P(SelectSeq(<<3, 4, 5, 6, 9, 15, 16, 17>>, LAMBDA link : link \in chosen)))]]

MCJobs ==
  {Robots(lines) : lines \in UNION {[1 .. n -> Lines] : n \in 2 .. 3}} \cup
  {Links(chosen) : chosen \in SUBSET {3, 4, 5, 6, 9, 15, 16, 17}} \cup
  {Blog, Met(4), Met(5), Wide, Sitemaps(4), Sitemaps(20), App("auto", FALSE), App("auto", TRUE), App("never", TRUE), App("always", TRUE),
           App("always", FALSE), Patterns(1), Patterns(13)}
=============================================================================
