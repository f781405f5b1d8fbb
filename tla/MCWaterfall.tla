----------------------------- MODULE MCWaterfall -----------------------------
(* Three requests of two hosts; MCHosts: "b" is protected. *)
EXTENDS Waterfall, TLC

\* One page of each verdict a stage tells apart.
Page == [provider |-> "tls", status |-> 200, type |-> "html", bytes |-> "body",
         challenge |-> FALSE, block |-> FALSE, short |-> FALSE, visible |-> 2000,
         signs |-> {}, readable |-> TRUE, replayable |-> FALSE, address |-> FALSE]
Shell   == [Page EXCEPT !.visible = 60, !.signs = {"manyScripts", "mutation"}]
Missing == [Page EXCEPT !.status = 404]
Refused == [Page EXCEPT !.status = 403]
Pdf     == [Page EXCEPT !.type = ResponseType("none", TRUE, FALSE, FALSE), !.readable = FALSE]
Sitemap == [Page EXCEPT !.type = ResponseType("gzip", FALSE, TRUE, TRUE)]
Script  == [Page EXCEPT !.signs = {"script"}]
Rendered(d) == [d EXCEPT !.provider = "patchright"]

MCPages ==
  [replay     |-> {Page, Refused},
   tls        |-> {Page, Script, Shell, Missing, Pdf, Sitemap},
   patchright |-> {Rendered(Page), [Rendered(Page) EXCEPT !.replayable = TRUE],
                   Rendered(Refused)},
   capsolver  |-> {Page, Refused, Pdf}]
MCErrors ==
  [replay     |-> {"ended"},
   tls        |-> {"transport"},
   patchright |-> {"saturated", "unavailable"},
   capsolver  |-> {}]

CONSTANTS r1, r2, r3
Mix(a, b, c, h) == (r1 :> [kind |-> a, host |-> "a"]) @@ (r2 :> [kind |-> b, host |-> "a"])
                     @@ (r3 :> [kind |-> c, host |-> h])
MCPlans == {Mix("extract", "browser", "browser", "a"),
            Mix("http", "browser", "never", "a"),
            Mix("auto", "always", "extract", "a"),
            Mix("http", "profile", "extract", "b"),
            Mix("browser", "invalid", "auto", "b")}
MCKinds == {"extract", "http", "browser", "auto", "never", "always", "profile",
            "invalid"}
=============================================================================
