------------------------------ MODULE MCPages ------------------------------
(* The twenty URLs that the runs of SiteMap and EmailSearch use.            *)
EXTENDS Naturals, Sequences

U(path) == [canon |-> 1, host |-> "site", kind |-> "page", path |-> path, query |-> {}, rank |-> 0]

MCURLs == 1 .. 20

MCOf ==
  <<U(<<>>), U(<<>>), [U(<<"a", "x">>) EXCEPT !.canon = 3], [U(<<"a", "y">>) EXCEPT !.canon = 4],
    [U(<<"a", "z">>) EXCEPT !.canon = 5], [U(<<"a", "7">>) EXCEPT !.canon = 6], [U(<<"b">>) EXCEPT !.canon = 7],
    [U(<<"logout">>) EXCEPT !.canon = 8, !.kind = "leave"], [U(<<"a", "w">>) EXCEPT !.canon = 9, !.host = "sub"],
    [U(<<"sitemap">>) EXCEPT !.canon = 10], [U(<<"sitemap_index">>) EXCEPT !.canon = 11],
    [U(<<"more">>) EXCEPT !.canon = 12], [U(<<>>) EXCEPT !.canon = 13, !.host = "other"],
    [U(<<"c">>) EXCEPT !.canon = 14, !.kind = "pdf"], [U(<<"b", "8", "x">>) EXCEPT !.canon = 15],
    [U(<<"b", "8", "y">>) EXCEPT !.canon = 16], [U(<<"b", "p", "x">>) EXCEPT !.canon = 17],
    [U(<<"api">>) EXCEPT !.canon = 18], [U(<<"team">>) EXCEPT !.canon = 19, !.rank = 90],
    [U(<<"contact">>) EXCEPT !.canon = 20, !.rank = 100]>>

None == [x \in {} |-> x]

At(pages) == [u \in DOMAIN pages |-> [pages[u] EXCEPT !.final = IF @ = 1 THEN u ELSE @]]
=============================================================================
