------------------------------- MODULE Classify -------------------------------
(***************************************************************************)
(* How one fetched page is judged (pkg/fetch/classify.go, the content      *)
(* types of pkg/fetch/http.go and the two questions the email loader adds  *)
(* in pkg/emails/loader.go).  A document keeps what a verdict depends on:  *)
(*                                                                         *)
(*   provider  the loader that fetched it        status  the HTTP status   *)
(*   type      its content type                  bytes   "none", "blank",  *)
(*   challenge a challenge object, header or URL         "noBody", "body"  *)
(*   block     a block pattern in its first 500 kB                         *)
(*   short     a short-block pattern in its first 30 kB                    *)
(*   visible   characters of visible text        signs   the markup below  *)
(*   readable  text is left once it is extracted                           *)
(*   replayable its session has a proxy, headers and cookies               *)
(*   address   an email address is in it                                   *)
(***************************************************************************)
EXTENDS Integers, FiniteSetsExt

\* The markup that speaks for a page which needs a browser: its weight and the
\* visible text below which it counts.
Weight == [noscript |-> 10, hydration |-> 10, emptyRoot |-> 10, manyScripts |-> 6,
           mutation |-> 5, noSemantics |-> 5, script |-> 0, ajax |-> 0]
Signs  == DOMAIN Weight
Always == 1000000
Below  == [noscript |-> Always, hydration |-> 1000, emptyRoot |-> 500,
           manyScripts |-> 500, mutation |-> 500, noSemantics |-> Always,
           script |-> Always, ajax |-> Always]

MinimalText   == 50      \* less visible text than this adds 5
RenderScoreAt == 10      \* the score at which a page needs a browser
ShortPage     == 2500    \* pages below it are searched for short blocks

RenderScore(d) ==
  LET counted == {s \in d.signs : d.visible < Below[s]}
  IN  MapThenSumSet(LAMBDA s : Weight[s], counted)
        + (IF d.visible < MinimalText THEN 5 ELSE 0)

\* Statuses that mean "blocked" when the body is HTML.
BlockedStatus(n) == n \in {401, 403, 429, 503} \/ n \in 520..530

\* Classify: the first condition that holds decides.
Verdict(d) ==
  IF d.status \in {404, 410}                         THEN "dead"
  ELSE IF d.challenge                                THEN "blocked"
  ELSE IF d.type # "html"
    THEN IF d.status >= 500 THEN "retryable" ELSE "accept"
  ELSE IF d.block \/ BlockedStatus(d.status)         THEN "blocked"
  ELSE IF d.status >= 400                            THEN "retryable"
  ELSE IF d.bytes # "body"                           THEN "needs_render"
  ELSE IF d.visible < ShortPage /\ d.short           THEN "blocked"
  ELSE IF d.provider = "patchright"                  THEN "accept"
  ELSE IF RenderScore(d) >= RenderScoreAt            THEN "needs_render"
  ELSE "accept"

\* resolveDocument: an accepted document is a result only if it has text, or is
\* HTML with readable content left.
Resolves(d) ==
  /\ Verdict(d) = "accept"
  /\ d.type \in {"html", "text"}
  /\ d.readable

\* The outcome the attempt is listed with: accepted HTML that turns out to
\* have no content is "empty".
AttemptOutcome(d) ==
  IF Verdict(d) # "accept" THEN Verdict(d)
  ELSE IF d.type = "html" /\ ~ d.readable THEN "empty"
  ELSE "ok"

\* The email loader's questions.
Usable(d) == d.status < 400 /\ Verdict(d) \notin {"blocked", "retryable", "dead"}

\* `contact` says that the page's path is one the email search ranks.
NeedsBrowser(d, contact) ==
  /\ d.type = "html" /\ ~ d.address
  /\ \/ Verdict(d) = "needs_render"
     \/ "ajax" \in d.signs
     \/ contact /\ "script" \in d.signs

-----------------------------------------------------------------------------
\* HTTPClient.Fetch: what one response becomes.  A response has a media type,
\* whether its path ends in .pdf or .gz, whether its body is gzip that inflates
\* to text within the size limit, and whether it is within the limit itself.
MediaText == {"text", "json", "xml", "javascript"}

DetectContentType(media, pdfPath) ==
  IF media \in {"html", "none"} THEN (IF pdfPath THEN "pdf" ELSE "html")
  ELSE IF media = "pdf" THEN "pdf"
  ELSE IF media \in MediaText THEN "text" ELSE "unknown"

GzipResource(media, gzPath) == media = "gzip" \/ gzPath

ResponseType(media, pdfPath, gzPath, inflates) ==
  IF GzipResource(media, gzPath) /\ inflates THEN "text"
  ELSE DetectContentType(media, pdfPath)
=============================================================================
