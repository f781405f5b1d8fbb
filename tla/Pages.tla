------------------------------- MODULE Pages -------------------------------
(* The URLs of a website as the site map and the email finder see them.     *)
(* A URL is a natural number (their lexical order), Of[u] what the code     *)
(* reads from it:                                                           *)
(*   canon  the URL without fragment and tracking parameters                *)
(*   host   "site" (with or without www), "sub" (a subdomain) or "other"    *)
(*   kind   "page", "pdf", "asset" (an image, a script) or "leave" (logout, *)
(*          delete and the like)                                            *)
(*   path   its segments;  query: the names of its parameters               *)
(*   rank   the score its words and its link's text give it                 *)
EXTENDS Naturals, Sequences, FiniteSets, SequencesExt, FiniteSetsExt

CONSTANTS URLs, Of

Nowhere == 0

ASSUME PagesAssumption ==
  /\ URLs \subseteq Nat \ {Nowhere}
  /\ Of \in [URLs -> [canon : URLs, host : {"site", "sub", "other"}, kind : {"page", "pdf", "asset", "leave"},
                      path : Seq(STRING), query : SUBSET STRING, rank : Nat]]
  /\ \A u \in URLs : LET c == Of[u].canon IN Of[c] = [Of[u] EXCEPT !.canon = c]

\* What a link becomes: the canonical URL, or Nowhere when its host is not
\* one of hosts or its kind not one of kinds.
NormalizedTo(u, hosts, kinds) ==
  IF u # Nowhere /\ Of[u].host \in hosts /\ Of[u].kind \in kinds THEN Of[u].canon ELSE Nowhere

\* FoldLeft, with a value and not an expression handed from step to step:
\* the operators here read their accumulator many times.
Fold(op(_, _), base, s) ==
  LET upTo[i \in 0 .. Len(s)] ==
        IF i = 0 THEN base ELSE CHOOSE next \in {op(last, s[i]) : last \in {upTo[i - 1]}} : TRUE
  IN upTo[Len(s)]

Drop(s, n) == SubSeq(s, n + 1, Len(s))
Take(s, n) == SubSeq(s, 1, n)
=============================================================================
