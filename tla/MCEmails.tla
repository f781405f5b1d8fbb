------------------------------ MODULE MCEmails ------------------------------
(* One email search over a site of twenty URLs.                             *)
EXTENDS EmailSearch, MCPages, TLC

Emails(links, addresses) == [final |-> 1, links |-> links, addresses |-> addresses]

Hunt(maxPages, maxEmails, profile) == [
  request |-> [url |-> 1, maxPages |-> maxPages, maxEmails |-> maxEmails, profile |-> profile, render |-> "auto"],
  site |-> [sitemap |-> 10,
    sitemaps |-> (10 :> [urls |-> <<3, 20, 14>>, children |-> <<11, 12, 13>>]) @@ (11 :> [urls |-> <<19>>, children |-> <<10>>])
                 @@ (12 :> [urls |-> <<>>, children |-> <<>>]),
    pages |-> At((1 :> Emails(<<2, 3, 14, 9, 19, 3>>, <<"a">>)) @@ (3 :> Emails(<<4>>, <<"a", "b">>))
                 @@ (4 :> Emails(<<5>>, <<>>)) @@ (5 :> Emails(<<6>>, <<>>)) @@ (19 :> [Emails(<<4>>, <<"c">>) EXCEPT !.final = 3])
                 @@ (20 :> [Emails(<<>>, <<>>) EXCEPT !.final = 13]))]]

\* Pages that link to each other, fewer or more than are kept as candidates.
Small(links) == [
  request |-> [url |-> 1, maxPages |-> 9, maxEmails |-> 4, profile |-> FALSE, render |-> "auto"],
  site |-> [sitemap |-> 10, sitemaps |-> None,
            pages |-> At((1 :> Emails(links, <<"a">>)) @@ (3 :> Emails(<<1, 4>>, <<"b">>)) @@ (4 :> Emails(<<1, 3>>, <<>>))
                        @@ (5 :> Emails(<<>>, <<>>)) @@ (6 :> Emails(<<>>, <<"c">>)))]]

\* Sitemaps that name one another, one after the other, more than are read.
Chain == [Small(<<>>) EXCEPT !.site.sitemaps =
  (10 :> [urls |-> <<>>, children |-> <<11>>]) @@ (11 :> [urls |-> <<>>, children |-> <<12>>])]

MCHunts == {Hunt(9, 4, FALSE), Hunt(2, 4, FALSE), Hunt(3, 2, FALSE), Hunt(9, 4, TRUE), Hunt(1, 1, FALSE),
            Small(<<3, 3, 4>>), Small(<<3, 4, 5, 6, 7, 15, 16, 17>>), Small(<<3, 4, 5, 6, 7>>), Chain}
=============================================================================
