--------------------------- MODULE SiteMapProofs ---------------------------
(***************************************************************************)
(* The site map: for any site, request and sizes, the crawl is polite, the *)
(* links that are read are accounted for, and the templates are tight.     *)
(*                                                                         *)
(* The invariant speaks of one line of pages: those tried, the rest of the *)
(* level, and those collected for the next.  A page consumed appends to    *)
(* the line, a batch fetched moves its front from the level to the pages   *)
(* tried, and the end of a level drops what was not fetched of it, which   *)
(* only happens when something was cut off.                                *)
(*                                                                         *)
(* The loops are Folds over sequences; FoldRule says what a loop keeps.    *)
(***************************************************************************)
EXTENDS SiteMap, SequenceTheorems, FiniteSetTheorems, TLAPS

------------------------------------------------------------------------------
(* The inductive invariant behind CrawlIsPolite and LinksAreAccountedFor.    *)
(* Its parts speak of the line of pages that were, are or will be fetched,   *)
(* and of the run r between any two of the links it consumes.                *)

\* Pages that were queued may stay unread.
CutOff(r) == r.limited \/ Full(r) \/ ended # "no" \/ "crawl page limit reached" \in r.warnings

InLine(line, shape) == {i \in DOMAIN line : i > 1 /\ Shape(line[i]) = shape}

LineIsPolite(line, r) ==
  /\ \A i, k \in DOMAIN line : Of[line[i]].canon = Of[line[k]].canon => i = k
  /\ \A i \in DOMAIN line : Normalize(line[i]) \in r.queued /\ (i > 1 => ~Blocks(r.rules, line[i]))
  /\ \A s \in Shapes : Cardinality(InLine(line, s)) <= r.counts[s] /\ r.counts[s] <= ShapeSampleLimit

\* Unless something was cut off, all that was queued or counted is in the line.
LineIsWhole(line, r) ==
  CutOff(r) \/
    /\ \A u \in r.queued : u = Nowhere \/ Blocks(r.rules, u) \/ \E i \in DOMAIN line : Of[line[i]].canon = u
    /\ \A s \in Shapes : r.counts[s] <= Cardinality(InLine(line, s))

\* The links of a page are listed, whatever was cut off, unless the report says it is limited.
PageIsListed(r, p) ==
  ~job.site.pages[p.url].html \/ \A u \in Offered(p) : u # Nowhere /\ Permitted(u) => r.limited \/ u \in r.urls

\* They are queued or need not be.
PageIsFollowed(r, p) ==
  CutOff(r) \/ ~job.site.pages[p.url].html \/
    \A u \in Offered(p) :
      u # Nowhere /\ Permitted(u) /\ Expand(p.depth) =>
        u \in r.queued \/ r.counts[Shape(u)] >= ShapeSampleLimit \/ LooksLikeAnother(r, p)

PageIsWhole(r, p) == PageIsListed(r, p) /\ PageIsFollowed(r, p)

\* The pages read are among the first n of the line, and their prints are kept.
PagesAreKept(line, n, r) ==
  /\ \A p \in ToSet(r.pages) :
       p.way # "failed" /\ p.url \in DOMAIN job.site.pages /\ \E i \in 1 .. n : line[i] = p.url
  /\ \A print \in r.prints : print # NoPrint /\ \E p \in ToSet(r.pages) : job.site.pages[p.url].print = print

LineIsSound(line, n, r) ==
  /\ LineIsPolite(line, r)
  /\ LineIsWhole(line, r)
  /\ \A p \in ToSet(r.pages) : PageIsWhole(r, p)
  /\ PagesAreKept(line, n, r)
  /\ Expand(r.depth) \/ r.next = <<>>

NotBegun(r) ==
  /\ r.level = <<>> /\ r.next = <<>> /\ r.pages = <<>> /\ r.prints = {} /\ r.queued = {} /\ r.depth = 0
  /\ r.counts = [s \in Shapes |-> 0]

MapInv ==
  /\ phase \notin {"done", "cancelled"} => run.rules \in {<<>>, ParseRobotsRules(job.site.robots)}
  /\ CrawlIsPolite
  /\ LinksAreAccountedFor
  /\ TemplatesAreTight
  /\ phase \in {"robots", "sitemaps"} => tried = <<>> /\ NotBegun(run)
  /\ phase \in {"crawl", "finish"} => LineIsSound(tried \o run.level \o run.next, Len(tried), run)
  /\ phase = "finish" => CutOff(run) \/ run.level \o run.next = <<>>
  /\ phase = "done" => ended # "cancelled"

------------------------------------------------------------------------------
(* The loops. *)

\* The steps of the loops over the lines of robots.txt, the rules kept, and the positions of a path.
ReadStep(none, nothing, p, line) == ReadLine(p, line)
RuleStep(u, none, best, rule) == IF u \in rule.matches /\ Beats(rule, best) THEN rule ELSE best

TemplateStep(none, nothing, placed, k) ==
  {IF Len(Of[p.url].path) < k THEN p
   ELSE [p EXCEPT !.pattern = Append(@, IF Wild(placed, p.pattern, k) THEN "*" ELSE Marked(p.url, "*")[k])] :
   p \in placed}

Reading == INSTANCE FoldRule WITH step <- ReadStep
Ruling == INSTANCE FoldRule WITH step <- RuleStep
Placing == INSTANCE FoldRule WITH step <- TemplateStep

------------------------------------------------------------------------------
\* What the assumption says of the sizes, apart from what it says of the sites.
LEMMA SizesAreNatural ==
  /\ MaximumSitemaps \in Nat \ {0} /\ SitemapBatchSize \in Nat \ {0} /\ MaximumPageLinks \in Nat
  /\ CrawlBatchSize \in Nat \ {0} /\ MaximumCrawlPages \in Nat \ {0}
  /\ MaximumRenders \in Nat /\ MaximumExplores \in Nat /\ MaximumScripts \in Nat /\ MaximumEndpoints \in Nat
  /\ ShapeSampleLimit \in Nat /\ SimilarityDistance \in Nat
BY Zenon, SiteMapAssumption

------------------------------------------------------------------------------
(* Sequences. *)

\* Appending keeps what was there, in its place.
LEMMA Appended ==
  ASSUME NEW S, NEW s \in Seq(S), NEW e \in S
  PROVE  /\ Append(s, e) \in Seq(S) /\ Len(Append(s, e)) = Len(s) + 1 /\ Len(s) \in Nat
         /\ \A i \in DOMAIN s : Append(s, e)[i] = s[i]
         /\ Append(s, e)[Len(s) + 1] = e
         /\ DOMAIN s = 1 .. Len(s) /\ DOMAIN Append(s, e) = DOMAIN s \cup {Len(s) + 1}
         /\ ToSet(Append(s, e)) = ToSet(s) \cup {e}
<1>1. /\ Append(s, e) \in Seq(S) /\ Len(Append(s, e)) = Len(s) + 1 /\ Len(s) \in Nat
      /\ \A i \in 1 .. Len(s) : Append(s, e)[i] = s[i]
      /\ Append(s, e)[Len(s) + 1] = e
  OBVIOUS
<1>2. DOMAIN s = 1 .. Len(s) /\ DOMAIN Append(s, e) = DOMAIN s \cup {Len(s) + 1}
  BY <1>1
<1>3. ToSet(Append(s, e)) = ToSet(s) \cup {e}
  BY <1>1, <1>2 DEF ToSet
<1> QED BY <1>1, <1>2, <1>3

\* A function has no more values than arguments.
LEMMA Image ==
  ASSUME NEW S, IsFiniteSet(S), NEW f, DOMAIN f = S
  PROVE  IsFiniteSet({f[x] : x \in S}) /\ Cardinality({f[x] : x \in S}) <= Cardinality(S)
<1> DEFINE T == {f[x] : x \in S}
           g == [x \in S |-> f[x]]
<1>1. g \in [S -> T] /\ \A t \in T : \E x \in S : g[x] = t
  OBVIOUS
<1>2. g \in Surjection(S, T)
  BY <1>1 DEF Surjection
<1> QED BY <1>2, FS_Surjection

\* A finite set of numbers that is not empty has a largest.
LEMMA LargestOfFew ==
  ASSUME NEW S, IsFiniteSet(S), S \subseteq Nat, S # {}
  PROVE  \E n \in S : \A m \in S : n >= m
<1> DEFINE B == {n \in Nat : \A T \in SUBSET Nat : IsFiniteSet(T) /\ Cardinality(T) = n => \E b \in Nat : \A m \in T : m <= b}
<1>1. 0 \in B
  <2> SUFFICES ASSUME NEW T \in SUBSET Nat, IsFiniteSet(T), Cardinality(T) = 0
               PROVE  \E b \in Nat : \A m \in T : m <= b
    OBVIOUS
  <2>1. T = {}
    BY FS_EmptySet
  <2> QED BY <2>1
<1>2. ASSUME NEW n \in Nat, n \in B PROVE n + 1 \in B
  <2> SUFFICES ASSUME NEW T \in SUBSET Nat, IsFiniteSet(T), Cardinality(T) = n + 1
               PROVE  \E b \in Nat : \A m \in T : m <= b
    OBVIOUS
  <2>1. PICK x \in T : TRUE
    <3>1. n + 1 # 0 /\ Cardinality({}) = 0
      BY FS_EmptySet
    <3>2. T # {}
      BY <3>1, Zenon
    <3> QED BY <3>2
  <2>2. IsFiniteSet(T \ {x}) /\ Cardinality(T \ {x}) = n
    <3>1. IsFiniteSet(T \ {x}) /\ Cardinality(T \ {x}) = Cardinality(T) - 1
      BY <2>1, FS_RemoveElement, Zenon
    <3>2. Cardinality(T) - 1 = n
      OBVIOUS
    <3> QED BY <3>1, <3>2
  <2>3. \A R \in SUBSET Nat : IsFiniteSet(R) /\ Cardinality(R) = n => \E b \in Nat : \A m \in R : m <= b
    BY <1>2, Zenon
  <2>4. T \ {x} \in SUBSET Nat
    OBVIOUS
  <2>5. PICK b \in Nat : \A m \in T \ {x} : m <= b
    BY <2>2, <2>3, <2>4, Zenon
  <2>6. x \in Nat /\ (IF x > b THEN x ELSE b) \in Nat
    OBVIOUS
  <2>7. \A m \in T : m \in Nat /\ m <= (IF x > b THEN x ELSE b)
    BY <2>5
  <2> QED BY <2>6, <2>7
<1> HIDE DEF B
<1>3. Nat \subseteq B
  BY <1>1, <1>2, Reading!NatSetInduction
<1>4. \E b \in Nat : \A m \in S : m <= b
  <2>1. Cardinality(S) \in B
    BY <1>3, FS_CardinalityType
  <2> QED BY <2>1, Zenon DEF B
<1> DEFINE U == {n \in Nat : \A m \in S : m <= n}
<1>5. PICK n \in U : \A b \in U : n <= b
  <2>1. U # {} /\ U \subseteq Nat
    BY <1>4
  <2> HIDE DEF U
  <2> QED BY <2>1, Reading!LeastNatural
<1>6. n \in S
  <2> SUFFICES ASSUME n \notin S PROVE FALSE
    OBVIOUS
  <2>1. \A m \in S : m \in Nat /\ m < n
    BY <1>5
  <2>2. n > 0 /\ n - 1 \in Nat
    <3>1. PICK s \in S : TRUE
      OBVIOUS
    <3>2. s \in Nat /\ s < n /\ n \in Nat
      BY <2>1
    <3> QED BY <3>2
  <2>3. \A m \in S : m <= n - 1
    BY <1>5, <2>1
  <2>4. n - 1 \in U
    BY <2>2, <2>3
  <2> QED BY <1>5, <2>4
<1> QED BY <1>5, <1>6

------------------------------------------------------------------------------
(* robots.txt: the rules kept, and the one that wins. *)

IsRule(rule) == rule.name \in {"allow", "disallow"} /\ rule.length \in Nat \ {0}

\* The rule the loop of blocks ends with: of those that match, a longest, and an allow rule when there is
\* one of that length.
LEMMA WinningRule ==
  ASSUME NEW rules, NEW R, rules \in Seq(R), \A i \in DOMAIN rules : IsRule(rules[i]), NEW u
  PROVE  Blocks(rules, u) <=>
           LET matching == {r \in ToSet(rules) : u \in r.matches}
               longest == {r \in matching : \A s \in matching : s.length <= r.length}
           IN longest # {} /\ \A r \in longest : r.name = "disallow"
<1> DEFINE Matching(n) == {rules[i] : i \in {k \in 1 .. n : u \in rules[k].matches}}
           Best(n, b) ==
             \/ Matching(n) = {} /\ b = NoRule
             \/ /\ b \in Matching(n)
                /\ \A s \in Matching(n) : s.length <= b.length /\ (s.length = b.length /\ s.name = "allow" => b.name = "allow")
           B == {NoRule} \cup {rules[i] : i \in DOMAIN rules}
           I == {x \in (0 .. Len(rules)) \X B : Best(x[1], x[2])}
<1>1. Len(rules) \in Nat /\ DOMAIN rules = 1 .. Len(rules)
  OBVIOUS
<1>2. <<0, NoRule>> \in I
  <2>1. Matching(0) = {}
    OBVIOUS
  <2>2. <<0, NoRule>> \in (0 .. Len(rules)) \X B
    BY <1>1
  <2> HIDE DEF Matching
  <2> QED BY <2>1, <2>2
<1>3. ASSUME NEW i \in 1 .. Len(rules), NEW a, <<i - 1, a>> \in I
      PROVE  <<i, RuleStep(u, 0, a, rules[i])>> \in I
  <2> DEFINE b == RuleStep(u, 0, a, rules[i])
  <2>1. a \in B /\ Best(i - 1, a)
    BY <1>3, Zenon
  <2>2. Matching(i) = Matching(i - 1) \cup (IF u \in rules[i].matches THEN {rules[i]} ELSE {})
    BY <1>1
  <2>3. IsRule(rules[i]) /\ a.length \in Nat /\ (a = NoRule => a.length = 0 /\ a.name = "allow") /\ (a # NoRule => IsRule(a))
    BY <1>1, <2>1 DEF IsRule, NoRule
  <2>4. \A s \in Matching(i - 1) : IsRule(s)
    BY <1>1
  <2> HIDE DEF Matching
  <2>5. Best(i, b)
    <3>1. CASE u \notin rules[i].matches
      BY <2>1, <2>2, <3>1 DEF RuleStep
    <3>2. CASE u \in rules[i].matches /\ Beats(rules[i], a)
      <4>1. b = rules[i] /\ b \in Matching(i)
        BY <2>2, <3>2 DEF RuleStep
      <4>2. ASSUME NEW s \in Matching(i)
            PROVE  s.length <= b.length /\ (s.length = b.length /\ s.name = "allow" => b.name = "allow")
        <5>1. CASE s = rules[i]
          BY <2>3, <4>1, <5>1 DEF IsRule
        <5>2. CASE s \in Matching(i - 1)
          BY <2>1, <2>3, <2>4, <3>2, <4>1, <5>2 DEF IsRule, Beats
        <5> QED BY <2>2, <5>1, <5>2
      <4> QED BY <4>1, <4>2
    <3>3. CASE u \in rules[i].matches /\ ~Beats(rules[i], a)
      <4>1. b = a
        BY <3>3 DEF RuleStep
      <4>2. a # NoRule
        BY <2>3, <3>3 DEF Beats, IsRule
      <4>3. a \in Matching(i - 1)
        BY <2>1, <4>2
      <4>4. ASSUME NEW s \in Matching(i)
            PROVE  s.length <= a.length /\ (s.length = a.length /\ s.name = "allow" => a.name = "allow")
        <5>1. CASE s = rules[i]
          BY <2>3, <3>3, <4>2, <5>1 DEF IsRule, Beats
        <5>2. CASE s \in Matching(i - 1)
          BY <2>1, <4>2, <5>2
        <5> QED BY <2>2, <5>1, <5>2
      <4> QED BY <2>2, <4>1, <4>3, <4>4
    <3> QED BY <3>1, <3>2, <3>3
  <2>6. b \in B
    BY <1>1, <2>1 DEF RuleStep
  <2> HIDE DEF B, Best
  <2>7. <<i, b>> \in (0 .. Len(rules)) \X B
    BY <1>1, <2>6
  <2>8. \A x : x = <<i, b>> => Best(x[1], x[2])
    BY <2>5 DEF Best
  <2> QED BY <2>7, <2>8
<1> DEFINE last == Ruling!Loop(u, 0, NoRule, rules)
<1> HIDE DEF I
<1>4. <<Len(rules), last>> \in I
  BY <1>1, <1>2, <1>3, Ruling!LoopKeepsAt
<1>5. Blocks(rules, u) <=> last.name = "disallow"
  BY DEF Blocks, Fold, Ruling!Loop, RuleStep
<1>6. Best(Len(rules), last)
  BY <1>4 DEF I
<1>7. Matching(Len(rules)) = {r \in ToSet(rules) : u \in r.matches}
  BY <1>1 DEF ToSet
<1>8. \A r \in Matching(Len(rules)) : IsRule(r)
  BY <1>1
<1> HIDE DEF Matching, last
<1>9. CASE Matching(Len(rules)) = {}
  BY <1>5, <1>6, <1>7, <1>9 DEF NoRule
<1>10. CASE Matching(Len(rules)) # {}
  <2> DEFINE M == Matching(Len(rules))
             longest == {r \in M : \A s \in M : s.length <= r.length}
  <2>1. last \in longest
    BY <1>6, <1>10
  <2>2. \A r \in longest : r.length = last.length
    BY <1>6, <1>8, <1>10 DEF IsRule
  <2>3. last.name = "disallow" <=> \A r \in longest : r.name = "disallow"
    BY <1>6, <1>8, <1>10, <2>1, <2>2 DEF IsRule
  <2> QED BY <1>5, <1>7, <2>1, <2>3
<1> QED BY <1>9, <1>10

\* Before line i the last line that is an agent's or a rule is an agent's.
AgentsGoOn(lines, i) ==
  \E a \in 1 .. i - 1 :
    lines[a].name = "user-agent" /\ \A r \in a + 1 .. i - 1 : lines[r].name \notin {"allow", "disallow"}

\* What one line more says: whether a rule after it counts for everyone, and whether agent lines go on.
LEMMA NextLine ==
  ASSUME NEW lines, NEW i \in Nat \ {0}
  PROVE  /\ lines[i].name = "user-agent" =>
              /\ AgentsGoOn(lines, i + 1)
              /\ ForEveryone(lines, i + 1) <=> (ForEveryone(lines, i) /\ AgentsGoOn(lines, i)) \/ lines[i].star
         /\ lines[i].name # "user-agent" => (ForEveryone(lines, i + 1) <=> ForEveryone(lines, i))
         /\ lines[i].name \in {"allow", "disallow"} => ~AgentsGoOn(lines, i + 1)
         /\ lines[i].name \notin {"user-agent", "allow", "disallow"} => (AgentsGoOn(lines, i + 1) <=> AgentsGoOn(lines, i))
<1> DEFINE Agent(a) == lines[a].name = "user-agent"
           Rule(a) == lines[a].name \in {"allow", "disallow"}
           Star(a) == Agent(a) /\ lines[a].star
           Broken(a, n) == \E r \in a + 1 .. n - 1, b \in a + 1 .. n - 1 : r < b /\ Rule(r) /\ Agent(b)
           All(n) == \E a \in 1 .. n - 1 : Star(a) /\ ~Broken(a, n)
           Closing(n) == \E a \in 1 .. n - 1 : Agent(a) /\ \A r \in a + 1 .. n - 1 : ~Rule(r)
<1>1. \A n \in Nat : (ForEveryone(lines, n) <=> All(n)) /\ (AgentsGoOn(lines, n) <=> Closing(n))
  BY DEF ForEveryone, AgentsGoOn
<1>2. \A a : ~(Agent(a) /\ Rule(a))
  OBVIOUS
<1>3. \A a : Star(a) => Agent(a)
  OBVIOUS
<1>4. Star(i) <=> Agent(i) /\ lines[i].star
  OBVIOUS
<1> HIDE DEF Agent, Rule, Star
<1>5. Agent(i) => Closing(i + 1)
  <2> SUFFICES ASSUME Agent(i) PROVE Closing(i + 1)
    OBVIOUS
  <2>1. i \in 1 .. (i + 1) - 1 /\ \A r \in i + 1 .. (i + 1) - 1 : ~Rule(r)
    OBVIOUS
  <2> QED BY <2>1
<1>6. Rule(i) => ~Closing(i + 1)
  <2> SUFFICES ASSUME Rule(i), NEW a \in 1 .. (i + 1) - 1, Agent(a), \A r \in a + 1 .. (i + 1) - 1 : ~Rule(r) PROVE FALSE
    OBVIOUS
  <2>1. a # i
    BY <1>2
  <2>2. i \in a + 1 .. (i + 1) - 1
    BY <2>1
  <2> QED BY <2>2
<1>7. ~Agent(i) /\ ~Rule(i) => (Closing(i + 1) <=> Closing(i))
  <2> SUFFICES ASSUME ~Agent(i), ~Rule(i) PROVE Closing(i + 1) <=> Closing(i)
    OBVIOUS
  <2>1. \A a \in 1 .. i - 1 : a + 1 .. (i + 1) - 1 = (a + 1 .. i - 1) \cup {i}
    OBVIOUS
  <2>2. 1 .. (i + 1) - 1 = (1 .. i - 1) \cup {i}
    OBVIOUS
  <2> QED BY <2>1, <2>2
<1>8. ~Agent(i) => (All(i + 1) <=> All(i))
  <2> SUFFICES ASSUME ~Agent(i) PROVE All(i + 1) <=> All(i)
    OBVIOUS
  <2>1. ~Star(i)
    BY <1>3
  <2>2. ASSUME NEW a \in 1 .. i - 1 PROVE Broken(a, i + 1) <=> Broken(a, i)
    <3>1. a + 1 .. (i + 1) - 1 = (a + 1 .. i - 1) \cup {i}
      OBVIOUS
    <3>2. \A b \in a + 1 .. i - 1 : ~(i < b)
      OBVIOUS
    <3> QED BY <3>1, <3>2
  <2>3. 1 .. (i + 1) - 1 = (1 .. i - 1) \cup {i}
    OBVIOUS
  <2> HIDE DEF Broken
  <2> QED BY <2>1, <2>2, <2>3
<1>9. Agent(i) => (All(i + 1) <=> (All(i) /\ Closing(i)) \/ lines[i].star)
  <2> SUFFICES ASSUME Agent(i) PROVE All(i + 1) <=> (All(i) /\ Closing(i)) \/ Star(i)
    BY <1>4
  <2>1. ~Broken(i, i + 1)
    OBVIOUS
  <2>2. 1 .. (i + 1) - 1 = (1 .. i - 1) \cup {i}
    OBVIOUS
  <2>3. ASSUME NEW a \in 1 .. i - 1
        PROVE  Broken(a, i + 1) <=> \E r \in a + 1 .. i - 1 : Rule(r)
    <3>1. a + 1 .. (i + 1) - 1 = (a + 1 .. i - 1) \cup {i}
      OBVIOUS
    <3>2. ~Rule(i) /\ \A r \in a + 1 .. i - 1 : r < i
      BY <1>2
    <3> QED BY <3>1, <3>2
  <2>4. ASSUME NEW a \in 1 .. i - 1, Star(a), \A r \in a + 1 .. i - 1 : ~Rule(r)
        PROVE  All(i) /\ Closing(i)
    <3>1. Agent(a) /\ ~Broken(a, i)
      BY <1>3, <2>4
    <3> HIDE DEF Broken
    <3> QED BY <2>4, <3>1
  <2>5. ASSUME All(i), Closing(i)
        PROVE  \E a \in 1 .. i - 1 : Star(a) /\ \A r \in a + 1 .. i - 1 : ~Rule(r)
    <3>1. PICK a \in 1 .. i - 1 : Star(a) /\ ~Broken(a, i)
      BY <2>5
    <3>2. PICK b \in 1 .. i - 1 : Agent(b) /\ \A r \in b + 1 .. i - 1 : ~Rule(r)
      BY <2>5
    <3>3. ASSUME NEW r \in a + 1 .. i - 1, Rule(r) PROVE FALSE
      <4>1. r \notin b + 1 .. i - 1 /\ r # b
        BY <1>2, <3>2, <3>3
      <4>2. r < b /\ b \in a + 1 .. i - 1
        BY <4>1
      <4> QED BY <3>1, <3>2, <3>3, <4>2
    <3> QED BY <3>1, <3>3
  <2> HIDE DEF Broken, Closing
  <2>6. All(i + 1) <=> Star(i) \/ \E a \in 1 .. i - 1 : Star(a) /\ ~Broken(a, i + 1)
    BY <2>1, <2>2
  <2> HIDE DEF All
  <2> QED BY <2>3, <2>4, <2>5, <2>6
<1>10. /\ ForEveryone(lines, i) <=> All(i)
       /\ AgentsGoOn(lines, i) <=> Closing(i)
       /\ ForEveryone(lines, i + 1) <=> All(i + 1)
       /\ AgentsGoOn(lines, i + 1) <=> Closing(i + 1)
  <2> HIDE DEF All, Closing
  <2> QED BY <1>1
<1> HIDE DEF All, Closing
<1> QED BY <1>5, <1>6, <1>7, <1>8, <1>9, <1>10 DEF Agent, Rule

\* The loop of parseRobotsRules keeps the lines of KeptLines and no other.
LEMMA RulesRead ==
  ASSUME NEW lines, lines \in Seq(ToSet(lines)),
         \A line \in ToSet(lines) :
           /\ line.name = "user-agent" => line.star \in BOOLEAN
           /\ line.name \in {"allow", "disallow"} => line.length \in Nat
  PROVE  /\ ParseRobotsRules(lines) \in Seq(ToSet(lines))
         /\ ToSet(ParseRobotsRules(lines)) = {lines[i] : i \in KeptLines(lines)}
         /\ \A i \in DOMAIN ParseRobotsRules(lines) : IsRule(ParseRobotsRules(lines)[i])
<1> DEFINE R == ToSet(lines)
           P == [rules : Seq(R), applies : BOOLEAN, afterAgent : BOOLEAN]
           K(n) == {i \in RuleLines(lines) : i <= n}
           Kept(n) == {i \in KeptLines(lines) : i <= n}
           Read(n, p) ==
             /\ p.applies <=> ForEveryone(lines, n + 1)
             /\ p.afterAgent <=> AgentsGoOn(lines, n + 1)
             /\ Len(p.rules) = IF Cardinality(K(n)) <= MaximumRobotsRules THEN Cardinality(K(n)) ELSE MaximumRobotsRules
             /\ ToSet(p.rules) = {lines[i] : i \in Kept(n)}
           base == [rules |-> <<>>, applies |-> FALSE, afterAgent |-> FALSE]
           I == {x \in (0 .. Len(lines)) \X P : Read(x[1], x[2])}
<1>1. /\ Len(lines) \in Nat /\ DOMAIN lines = 1 .. Len(lines) /\ MaximumRobotsRules \in Nat
      /\ \A i \in DOMAIN lines : lines[i] \in R
  BY SiteMapAssumption DEF ToSet
<1>2. RuleLines(lines) \subseteq 1 .. Len(lines) /\ KeptLines(lines) \subseteq RuleLines(lines)
  BY <1>1 DEF RuleLines, KeptLines
<1>3. \A n \in Nat : IsFiniteSet(K(n)) /\ Cardinality(K(n)) \in Nat
  <2>1. \A n \in Nat : K(n) \subseteq 1 .. Len(lines)
    BY <1>2
  <2>2. IsFiniteSet(1 .. Len(lines))
    BY <1>1, FS_Interval
  <2> HIDE DEF K
  <2> QED BY <2>1, <2>2, FS_Subset, FS_CardinalityType
<1>4. <<0, base>> \in I
  <2>1. K(0) = {} /\ Kept(0) = {}
    BY <1>1, <1>2
  <2>2. Cardinality(K(0)) = 0
    BY <2>1, FS_EmptySet
  <2>3. ~ForEveryone(lines, 1) /\ ~AgentsGoOn(lines, 1)
    BY DEF ForEveryone, AgentsGoOn
  <2>4. base \in P
    OBVIOUS
  <2>5. ToSet(base.rules) = {}
    BY DEF ToSet
  <2> HIDE DEF K, Kept
  <2>6. Read(0, base)
    BY <1>1, <2>1, <2>2, <2>3, <2>5
  <2> HIDE DEF base, Read, P
  <2>7. <<0, base>> \in (0 .. Len(lines)) \X P
    BY <1>1, <2>4
  <2>8. \A x : x = <<0, base>> => Read(x[1], x[2])
    BY <2>6
  <2> QED BY <2>7, <2>8
<1>5. ASSUME NEW i \in 1 .. Len(lines), NEW p, <<i - 1, p>> \in I
      PROVE  <<i, ReadStep(0, 0, p, lines[i])>> \in I
  <2> DEFINE q == ReadLine(p, lines[i])
             counts == i \in RuleLines(lines)
             card == Cardinality(K(i - 1))
  <2>1. p \in P /\ Read(i - 1, p)
    BY <1>5, Zenon
  <2>2. i \in Nat \ {0} /\ i - 1 \in Nat /\ (i - 1) + 1 = i /\ lines[i] \in R /\ i \in DOMAIN lines
    BY <1>1
  <2>3. /\ lines[i].name = "user-agent" => lines[i].star \in BOOLEAN
        /\ lines[i].name \in {"allow", "disallow"} => lines[i].length \in Nat
    BY <2>2
  <2>4. counts <=> lines[i].name \in {"allow", "disallow"} /\ lines[i].length # 0 /\ p.applies
    BY <2>1, <2>2, <2>3 DEF RuleLines
  <2>5. /\ ~counts => K(i) = K(i - 1) /\ Kept(i) = Kept(i - 1)
        /\ counts => K(i) = K(i - 1) \cup {i}
        /\ counts => Kept(i) = IF Cardinality(K(i)) <= MaximumRobotsRules THEN Kept(i - 1) \cup {i} ELSE Kept(i - 1)
        /\ i \notin K(i - 1)
    <3>1. \A k \in RuleLines(lines) : k \in Nat /\ (k <= i <=> k <= i - 1 \/ k = i)
      BY <1>1, <1>2, <2>2
    <3>2. i \in KeptLines(lines) <=> counts /\ Cardinality(K(i)) <= MaximumRobotsRules
      BY DEF KeptLines
    <3>3. \A k \in KeptLines(lines) : k \in RuleLines(lines)
      BY <1>2
    <3>4. ~(i <= i - 1)
      BY <2>2
    <3> QED BY <3>1, <3>2, <3>3, <3>4
  <2>6. card \in Nat /\ (counts => Cardinality(K(i)) = card + 1)
    <3> HIDE DEF K
    <3> QED BY <1>3, <2>2, <2>5, FS_AddElement
  <2>7. Len(p.rules) \in Nat
    BY <2>1
  <2> HIDE DEF K, Kept
  <2>8. q \in P /\ (q.applies <=> ForEveryone(lines, i + 1)) /\ (q.afterAgent <=> AgentsGoOn(lines, i + 1))
    <3>1. CASE lines[i].name = "user-agent"
      BY <2>1, <2>2, <2>3, <3>1, NextLine DEF ReadLine
    <3>2. CASE lines[i].name \in {"allow", "disallow"}
      <4>1. q.rules \in Seq(R)
        BY <2>1, <2>2, <3>2 DEF ReadLine
      <4> QED BY <2>1, <2>2, <2>3, <3>2, <4>1, NextLine DEF ReadLine
    <3>3. CASE lines[i].name \notin {"user-agent", "allow", "disallow"}
      BY <2>1, <2>2, <3>3, NextLine DEF ReadLine
    <3> QED BY <3>1, <3>2, <3>3
  <2>9. q.rules = IF counts /\ Len(p.rules) < MaximumRobotsRules THEN Append(p.rules, lines[i]) ELSE p.rules
    BY <1>1, <2>1, <2>4, <2>7 DEF ReadLine
  <2>10. Read(i, q)
    <3>1. CASE counts /\ Len(p.rules) < MaximumRobotsRules
      <4>1. Len(q.rules) = Len(p.rules) + 1 /\ ToSet(q.rules) = ToSet(p.rules) \cup {lines[i]}
        <5>1. p.rules \in Seq(R) /\ q.rules = Append(p.rules, lines[i])
          BY <2>1, <2>9, <3>1
        <5> HIDE DEF q, R
        <5> QED BY <2>2, <5>1, Appended
      <4>2. Cardinality(K(i)) = card + 1 /\ card + 1 <= MaximumRobotsRules /\ Kept(i) = Kept(i - 1) \cup {i}
        BY <1>1, <2>1, <2>5, <2>6, <2>7, <3>1
      <4> HIDE DEF q
      <4> QED BY <1>1, <2>1, <2>6, <2>8, <4>1, <4>2
    <3>2. CASE counts /\ ~(Len(p.rules) < MaximumRobotsRules)
      <4>1. card >= MaximumRobotsRules /\ Cardinality(K(i)) = card + 1 /\ Kept(i) = Kept(i - 1)
        BY <1>1, <2>1, <2>5, <2>6, <2>7, <3>2
      <4>2. q.rules = p.rules
        BY <2>9, <3>2
      <4> HIDE DEF q
      <4> QED BY <1>1, <2>1, <2>6, <2>8, <4>1, <4>2
    <3>3. CASE ~counts
      <4>1. q.rules = p.rules /\ K(i) = K(i - 1) /\ Kept(i) = Kept(i - 1)
        BY <2>5, <2>9, <3>3
      <4> HIDE DEF q
      <4> QED BY <2>1, <2>8, <4>1
    <3> QED BY <3>1, <3>2, <3>3
  <2>11. <<i, q>> \in (0 .. Len(lines)) \X P
    BY <1>1, <2>8
  <2> HIDE DEF Read, P
  <2>12. \A x : x = <<i, q>> => Read(x[1], x[2])
    BY <2>10
  <2>13. ReadStep(0, 0, p, lines[i]) = q
    BY DEF ReadStep
  <2> QED BY <2>11, <2>12, <2>13
<1> DEFINE last == Reading!Loop(0, 0, base, lines)
<1> HIDE DEF I
<1>6. <<Len(lines), last>> \in I
  BY <1>1, <1>4, <1>5, Reading!LoopKeepsAt
<1>7. ParseRobotsRules(lines) = last.rules
  BY DEF ParseRobotsRules, Fold, Reading!Loop, ReadStep
<1>8. last \in P /\ Read(Len(lines), last)
  BY <1>6 DEF I
<1>9. Kept(Len(lines)) = KeptLines(lines)
  BY <1>1, <1>2
<1>10. \A i \in KeptLines(lines) : IsRule(lines[i])
  <2>1. ASSUME NEW i \in RuleLines(lines) PROVE IsRule(lines[i])
    <3>1. i \in DOMAIN lines /\ lines[i].name \in {"allow", "disallow"} /\ lines[i].length > 0
      BY DEF RuleLines
    <3>2. lines[i].length \in Nat
      BY <1>1, <3>1
    <3> QED BY <3>1, <3>2 DEF IsRule
  <2> QED BY <1>2, <2>1
<1> HIDE DEF last, base, Kept, K
<1>11. \A i \in DOMAIN last.rules : last.rules[i] \in {lines[k] : k \in KeptLines(lines)}
  BY <1>8, <1>9 DEF ToSet
<1> QED BY <1>7, <1>8, <1>9, <1>10, <1>11

\* What the rules of a robots.txt block is what it disallows.
LEMMA BlocksIsDisallowed ==
  ASSUME NEW lines, lines \in Seq(ToSet(lines)),
         \A line \in ToSet(lines) :
           /\ line.name = "user-agent" => line.star \in BOOLEAN
           /\ line.name \in {"allow", "disallow"} => line.length \in Nat,
         NEW u
  PROVE  Blocks(ParseRobotsRules(lines), u) <=> Disallowed(lines, u)
<1> DEFINE rules == ParseRobotsRules(lines)
<1>1. /\ rules \in Seq(ToSet(lines)) /\ ToSet(rules) = {lines[i] : i \in KeptLines(lines)}
      /\ \A i \in DOMAIN rules : IsRule(rules[i])
  BY RulesRead
<1> HIDE DEF rules
<1>2. Blocks(rules, u) <=>
        LET matching == {r \in ToSet(rules) : u \in r.matches}
            longest == {r \in matching : \A s \in matching : s.length <= r.length}
        IN longest # {} /\ \A r \in longest : r.name = "disallow"
  BY <1>1, WinningRule
<1>3. Disallowed(lines, u) <=>
        LET matching == {r \in ToSet(rules) : u \in r.matches}
            longest == {r \in matching : \A s \in matching : s.length <= r.length}
        IN longest # {} /\ \A r \in longest : r.name = "disallow"
  BY <1>1 DEF Disallowed
<1> QED BY <1>2, <1>3 DEF rules

------------------------------------------------------------------------------
(* Templates: the patterns of a report's URLs, one segment after the other. *)

Segments == STRING \cup {"*"} \cup {"site", "sub", "other"}
Placements == [url : URLs, pattern : Seq(Segments)]

\* The URLs of placed whose pattern goes on as t's does, up to its element j.
Alike(placed, t, j) == {s \in placed : Len(s.pattern) > j /\ Take(s.pattern, j) = Take(t.pattern, j)}

TightAt(placed, t, j) ==
  /\ Cardinality({s.pattern[j + 1] : s \in Alike(placed, t, j)}) < TemplateThreshold
  /\ t.pattern[j + 1] = "*" /\ Of[t.url].path[j] \notin Ids \cup {"*"} =>
       Cardinality({Of[s.url].path[j] : s \in Alike(placed, t, j)}) >= TemplateThreshold

Tight(placed) == \A t \in placed : \A j \in 2 .. Len(t.pattern) - 1 : TightAt(placed, t, j)

\* Every pattern has the host and the segments up to the k-th.
Placed(placed, k) ==
  /\ placed \subseteq Placements /\ IsFiniteSet(placed)
  /\ \A p \in placed : LET n == Len(Of[p.url].path) IN Len(p.pattern) = 1 + (IF n < k THEN n ELSE k)
  /\ Tight(placed)

Segment(placed, p, k) == IF Wild(placed, p.pattern, k) THEN "*" ELSE Marked(p.url, "*")[k]

Placement(placed, p, k) ==
  IF Len(Of[p.url].path) < k THEN p ELSE [url |-> p.url, pattern |-> Append(p.pattern, Segment(placed, p, k))]

\* What a URL and its marked segments are.
LEMMA Paths ==
  ASSUME NEW u \in URLs
  PROVE  /\ Of[u].path \in Seq(STRING) /\ Len(Of[u].path) \in Nat
         /\ Marked(u, "*") \in Seq(Segments) /\ Len(Marked(u, "*")) = Len(Of[u].path)
         /\ \A k \in 1 .. Len(Of[u].path) :
              Marked(u, "*")[k] = IF Of[u].path[k] \in Ids THEN "*" ELSE Of[u].path[k]
         /\ Of[u].host \in {"site", "sub", "other"}
<1>1. Of[u].path \in Seq(STRING) /\ Of[u].host \in {"site", "sub", "other"}
  BY PagesAssumption
<1>2. Len(Of[u].path) \in Nat /\ DOMAIN Of[u].path = 1 .. Len(Of[u].path)
  BY <1>1
<1>3. \A k \in 1 .. Len(Of[u].path) : Of[u].path[k] \in STRING
  BY <1>1, <1>2
<1> DEFINE m == Marked(u, "*")
<1>4. /\ m = [k \in 1 .. Len(Of[u].path) |-> m[k]]
      /\ \A k \in 1 .. Len(Of[u].path) :
           m[k] \in Segments /\ m[k] = IF Of[u].path[k] \in Ids THEN "*" ELSE Of[u].path[k]
  BY <1>2, <1>3 DEF Marked, Segments
<1> HIDE DEF m
<1>5. m \in Seq(Segments) /\ Len(m) = Len(Of[u].path)
  <2>1. PICK n \in Nat : n = Len(Of[u].path)
    BY <1>2
  <2>2. m = [k \in 1 .. n |-> m[k]] /\ \A k \in 1 .. n : m[k] \in Segments
    BY <1>4, <2>1
  <2>3. m \in [1 .. n -> Segments]
    BY <2>2
  <2> QED BY <2>1, <2>3
<1> QED BY <1>1, <1>2, <1>4, <1>5 DEF m

\* One step of the loop of Templates, as a set of placements.
LEMMA PlacementStep ==
  ASSUME NEW placed, NEW k, placed \subseteq Placements
  PROVE  TemplateStep(0, 0, placed, k) = {Placement(placed, p, k) : p \in placed}
<1>1. ASSUME NEW p \in placed
      PROVE  (IF Len(Of[p.url].path) < k THEN p
              ELSE [p EXCEPT !.pattern = Append(@, IF Wild(placed, p.pattern, k) THEN "*" ELSE Marked(p.url, "*")[k])])
             = Placement(placed, p, k)
  <2>1. p \in Placements
    OBVIOUS
  <2>2. [p EXCEPT !.pattern = Append(@, Segment(placed, p, k))]
        = [url |-> p.url, pattern |-> Append(p.pattern, Segment(placed, p, k))]
    BY <2>1 DEF Placements
  <2> QED BY <2>2 DEF Placement, Segment
<1> QED BY <1>1 DEF TemplateStep

\* What the k-th segment adds to a pattern, and what it leaves.
LEMMA PlacedFurther ==
  ASSUME NEW placed, NEW k \in Nat \ {0}, Placed(placed, k - 1), NEW p \in placed
  PROVE  LET q == Placement(placed, p, k)
             n == Len(Of[p.url].path)
         IN /\ q \in Placements /\ q.url = p.url /\ p.url \in URLs /\ n \in Nat
            /\ Len(p.pattern) = 1 + (IF n < k - 1 THEN n ELSE k - 1)
            /\ Len(q.pattern) = 1 + (IF n < k THEN n ELSE k)
            /\ \A j \in 1 .. Len(p.pattern) : q.pattern[j] = p.pattern[j] /\ Take(q.pattern, j) = Take(p.pattern, j)
            /\ n >= k => Take(q.pattern, k) = p.pattern /\ q.pattern[k + 1] = Segment(placed, p, k)
<1> DEFINE q == Placement(placed, p, k)
           n == Len(Of[p.url].path)
<1>1. p \in Placements /\ p.url \in URLs /\ p.pattern \in Seq(Segments)
  BY DEF Placed, Placements
<1>2. n \in Nat /\ Len(p.pattern) = 1 + (IF n < k - 1 THEN n ELSE k - 1)
  BY <1>1, Paths DEF Placed
<1>3. \A s \in Seq(Segments) : \A j \in 1 .. Len(s) : Take(s, j) = [i \in 1 .. j |-> s[i]]
  BY DEF Take
<1>4. \A s \in Seq(Segments) : Take(s, Len(s)) = s
  BY SubSeqFull DEF Take
<1>5. CASE n < k
  <2>1. q = p
    BY <1>5 DEF Placement
  <2> HIDE DEF q, n
  <2> QED BY <1>1, <1>2, <1>5, <2>1 DEF q, n
<1>6. CASE n >= k
  <2> DEFINE e == Segment(placed, p, k)
             s == Append(p.pattern, e)
  <2>1. q = [url |-> p.url, pattern |-> s]
    BY <1>2, <1>6 DEF Placement
  <2>2. e \in Segments
    <3>1. Marked(p.url, "*")[k] \in Segments
      BY <1>1, <1>2, <1>6, Paths
    <3> QED BY <3>1 DEF Segment, Segments
  <2>3. Len(p.pattern) = k
    BY <1>2, <1>6
  <2> HIDE DEF e
  <2>4. /\ s \in Seq(Segments) /\ Len(s) = k + 1 /\ s[k + 1] = e
        /\ \A j \in 1 .. k : s[j] = p.pattern[j]
    BY <1>1, <2>2, <2>3, Appended
  <2> HIDE DEF s
  <2>5. \A j \in 1 .. k : Take(s, j) = Take(p.pattern, j)
    <3> SUFFICES ASSUME NEW j \in 1 .. k PROVE Take(s, j) = Take(p.pattern, j)
      OBVIOUS
    <3>1. j \in 1 .. Len(s) /\ j \in 1 .. Len(p.pattern)
      BY <2>3, <2>4
    <3>2. Take(s, j) = [i \in 1 .. j |-> s[i]] /\ Take(p.pattern, j) = [i \in 1 .. j |-> p.pattern[i]]
      BY <1>1, <1>3, <2>4, <3>1, Zenon
    <3>3. \A i \in 1 .. j : s[i] = p.pattern[i]
      BY <2>4
    <3> QED BY <3>2, <3>3
  <2>6. Take(s, k) = p.pattern
    BY <1>1, <1>4, <2>3, <2>5
  <2>7. q \in Placements /\ q.url = p.url /\ q.pattern = s
    BY <1>1, <2>1, <2>4 DEF Placements
  <2> HIDE DEF q, n
  <2> QED BY <1>1, <1>2, <1>6, <2>3, <2>4, <2>5, <2>6, <2>7 DEF q, n, e
<1> QED BY <1>2, <1>5, <1>6

\* The next segment leaves the positions before it tight.
LEMMA TightBefore ==
  ASSUME NEW placed, NEW k \in Nat \ {0}, Placed(placed, k - 1), NEW t \in placed,
         NEW j \in 2 .. Len(Placement(placed, t, k).pattern) - 1, j < k
  PROVE  TightAt({Placement(placed, p, k) : p \in placed}, Placement(placed, t, k), j)
<1> DEFINE more == {Placement(placed, p, k) : p \in placed}
           q == Placement(placed, t, k)
<1>1. j \in Nat /\ j >= 2 /\ j \in 2 .. Len(t.pattern) - 1 /\ j \in 1 .. Len(t.pattern)
  BY PlacedFurther
<1>2. TightAt(placed, t, j)
  BY <1>1 DEF Placed, Tight
<1>3. \A s \in placed :
        /\ Len(Placement(placed, s, k).pattern) > j <=> Len(s.pattern) > j
        /\ Len(s.pattern) > j => j \in 1 .. Len(s.pattern) /\ j + 1 \in 1 .. Len(s.pattern)
  <2> SUFFICES ASSUME NEW s \in placed
               PROVE  /\ Len(Placement(placed, s, k).pattern) > j <=> Len(s.pattern) > j
                      /\ Len(s.pattern) > j => j \in 1 .. Len(s.pattern) /\ j + 1 \in 1 .. Len(s.pattern)
    OBVIOUS
  <2> DEFINE n == Len(Of[s.url].path)
             old == Len(s.pattern)
             new == Len(Placement(placed, s, k).pattern)
  <2>1. /\ n \in Nat /\ old = 1 + (IF n < k - 1 THEN n ELSE k - 1)
        /\ new = 1 + (IF n < k THEN n ELSE k)
    BY PlacedFurther
  <2> HIDE DEF n, old, new
  <2>2. (new > j <=> old > j) /\ (old > j => j \in 1 .. old /\ j + 1 \in 1 .. old)
    BY <1>1, <2>1
  <2> QED BY <2>2 DEF old, new
<1>4. \A s \in placed : Len(s.pattern) > j =>
        /\ Take(Placement(placed, s, k).pattern, j) = Take(s.pattern, j)
        /\ Placement(placed, s, k).pattern[j + 1] = s.pattern[j + 1]
        /\ Placement(placed, s, k).url = s.url
  BY <1>3, PlacedFurther
<1>5. Len(t.pattern) > j
  BY <1>1, PlacedFurther
<1> DEFINE Next1(s) == Placement(placed, s, k)
<1> HIDE DEF Next1
<1>6. more = {Next1(s) : s \in placed} /\ q = Next1(t)
  BY DEF Next1
<1>7. Alike(more, q, j) = {Next1(s) : s \in Alike(placed, t, j)}
  <2>1. Take(q.pattern, j) = Take(t.pattern, j)
    BY <1>4, <1>5
  <2>2. \A s \in placed : Next1(s) \in Alike(more, q, j) <=> s \in Alike(placed, t, j)
    BY <1>3, <1>4, <1>6, <2>1 DEF Alike, Next1
  <2>3. Alike(more, q, j) \subseteq more /\ Alike(placed, t, j) \subseteq placed
    BY DEF Alike
  <2> HIDE DEF more, q
  <2> QED BY <1>6, <2>2, <2>3
<1>8. \A s \in Alike(placed, t, j) : Next1(s).pattern[j + 1] = s.pattern[j + 1] /\ Next1(s).url = s.url
  BY <1>4 DEF Alike, Next1
<1>9. {s.pattern[j + 1] : s \in Alike(more, q, j)} = {s.pattern[j + 1] : s \in Alike(placed, t, j)}
  <2> HIDE DEF more, q
  <2> QED BY <1>7, <1>8
<1>10. {Of[s.url].path[j] : s \in Alike(more, q, j)} = {Of[s.url].path[j] : s \in Alike(placed, t, j)}
  <2> HIDE DEF more, q
  <2> QED BY <1>7, <1>8
<1>11. q.pattern[j + 1] = t.pattern[j + 1] /\ q.url = t.url
  BY <1>4, <1>5
<1> HIDE DEF more, q
<1>12. TightAt(more, q, j)
  BY <1>2, <1>9, <1>10, <1>11 DEF TightAt
<1> QED BY <1>12 DEF more, q

\* The position that was just placed is tight: below the threshold its literals stay, from the threshold on
\* they become one.
LEMMA TightNow ==
  ASSUME NEW placed, NEW k \in Nat \ {0, 1}, Placed(placed, k - 1), NEW t \in placed, Len(Of[t.url].path) >= k
  PROVE  TightAt({Placement(placed, p, k) : p \in placed}, Placement(placed, t, k), k)
<1> DEFINE more == {Placement(placed, p, k) : p \in placed}
           q == Placement(placed, t, k)
           A == {s \in placed : s.pattern = t.pattern /\ Len(Of[s.url].path) >= k}
           C == {Marked(s.url, "*")[k] : s \in A}
           D == {Of[s.url].path[k] : s \in A}
           wild == Cardinality(C) >= TemplateThreshold
<1>1. \A s \in A : s \in placed /\ s.pattern = t.pattern /\ Len(Of[s.url].path) >= k /\ s.url \in URLs
  BY PlacedFurther
<1>2. C = Children(placed, t.pattern, k) /\ (wild <=> Wild(placed, t.pattern, k))
  BY DEF Children, Wild
<1>3. t \in A
  OBVIOUS
<1>4. \A s \in A : Marked(s.url, "*")[k] = IF Of[s.url].path[k] \in Ids THEN "*" ELSE Of[s.url].path[k]
  BY <1>1, Paths
<1>5. \A s \in A : Segment(placed, s, k) = IF wild THEN "*" ELSE Marked(s.url, "*")[k]
  BY <1>1, <1>2 DEF Segment
<1>6. IsFiniteSet(A) /\ IsFiniteSet(D) /\ IsFiniteSet(C) /\ Cardinality(C) <= Cardinality(D)
  <2>1. IsFiniteSet(A)
    BY FS_Subset DEF Placed
  <2> DEFINE f == [s \in A |-> Of[s.url].path[k]]
             g == [d \in D |-> IF d \in Ids THEN "*" ELSE d]
  <2>2. IsFiniteSet({f[s] : s \in A})
    <3> HIDE DEF A
    <3> QED BY <2>1, Image
  <2>3. D = {f[s] : s \in A}
    OBVIOUS
  <2>4. IsFiniteSet({g[d] : d \in D}) /\ Cardinality({g[d] : d \in D}) <= Cardinality(D)
    <3> HIDE DEF D
    <3> DEFINE G == g
    <3>1. DOMAIN G = D /\ \A d \in D : G[d] = g[d]
      OBVIOUS
    <3>2. IsFiniteSet(D)
      BY <2>2, <2>3
    <3> HIDE DEF G
    <3>3. IsFiniteSet({G[d] : d \in D}) /\ Cardinality({G[d] : d \in D}) <= Cardinality(D)
      BY <3>1, <3>2, Image
    <3> QED BY <3>3 DEF G
  <2>5. C = {g[d] : d \in D}
    <3> HIDE DEF A
    <3> QED BY <1>4
  <2> HIDE DEF A, C, D, g, f
  <2> QED BY <2>1, <2>2, <2>3, <2>4, <2>5
<1>7. \A s \in placed :
        /\ Len(Of[s.url].path) >= k <=> Len(Placement(placed, s, k).pattern) > k
        /\ Len(Of[s.url].path) >= k => Take(Placement(placed, s, k).pattern, k) = s.pattern
        /\ Len(Of[s.url].path) >= k => Placement(placed, s, k).pattern[k + 1] = Segment(placed, s, k)
        /\ Placement(placed, s, k).url = s.url
  BY PlacedFurther
<1> DEFINE Next1(s) == Placement(placed, s, k)
<1> HIDE DEF Next1
<1>8. more = {Next1(s) : s \in placed} /\ q = Next1(t)
  BY DEF Next1
<1>9. Alike(more, q, k) = {Next1(s) : s \in A}
  <2>1. Take(q.pattern, k) = t.pattern
    BY <1>7
  <2>2. \A s \in placed : Next1(s) \in Alike(more, q, k) <=> s \in A
    BY <1>7, <1>8, <2>1 DEF Alike, Next1
  <2>3. Alike(more, q, k) \subseteq more /\ A \subseteq placed
    BY DEF Alike
  <2> HIDE DEF more, q, A
  <2> QED BY <1>8, <2>2, <2>3
<1>10. \A s \in A : Next1(s).pattern[k + 1] = (IF wild THEN "*" ELSE Marked(s.url, "*")[k]) /\ Next1(s).url = s.url
  BY <1>1, <1>5, <1>7 DEF Next1
<1>11. {s.pattern[k + 1] : s \in Alike(more, q, k)} = IF wild THEN {"*"} ELSE C
  <2> HIDE DEF more, q, A, wild
  <2> QED BY <1>3, <1>9, <1>10
<1>12. {Of[s.url].path[k] : s \in Alike(more, q, k)} = D
  <2>1. \A s \in A : Of[Next1(s).url].path[k] = Of[s.url].path[k]
    BY <1>10
  <2> HIDE DEF more, q, A
  <2>2. {Of[s.url].path[k] : s \in Alike(more, q, k)} = {Of[Next1(s).url].path[k] : s \in A}
    BY <1>9
  <2> QED BY <2>1, <2>2
<1>13. TemplateThreshold \in Nat /\ 1 < TemplateThreshold
  BY SiteMapAssumption
<1>14. Cardinality(C) \in Nat /\ Cardinality(D) \in Nat /\ Cardinality({"*"}) = 1
  BY <1>6, FS_CardinalityType, FS_Singleton
<1>15. Cardinality({s.pattern[k + 1] : s \in Alike(more, q, k)}) < TemplateThreshold
  <2>1. CASE wild
    <3> HIDE DEF more, q, C
    <3>1. {s.pattern[k + 1] : s \in Alike(more, q, k)} = {"*"}
      BY <1>11, <2>1
    <3> QED BY <1>13, <1>14, <3>1, Zenon
  <2>2. CASE ~wild
    <3> HIDE DEF more, q, C
    <3>1. {s.pattern[k + 1] : s \in Alike(more, q, k)} = C
      BY <1>11, <2>2
    <3>2. Cardinality(C) < TemplateThreshold
      BY <1>13, <1>14, <2>2
    <3> QED BY <3>1, <3>2, Zenon
  <2> QED BY <2>1, <2>2
<1>16. q.pattern[k + 1] = "*" /\ Of[q.url].path[k] \notin Ids \cup {"*"} => Cardinality(D) >= TemplateThreshold
  <2> SUFFICES ASSUME q.pattern[k + 1] = "*", Of[q.url].path[k] \notin Ids \cup {"*"}
               PROVE  Cardinality(D) >= TemplateThreshold
    OBVIOUS
  <2>1. wild
    BY <1>3, <1>4, <1>8, <1>10
  <2> HIDE DEF C, D
  <2> QED BY <1>6, <1>13, <1>14, <2>1
<1> HIDE DEF more, q, D
<1>17. TightAt(more, q, k)
  BY <1>12, <1>15, <1>16 DEF TightAt
<1> QED BY <1>17 DEF more, q

\* A step of the loop keeps what Placed says.
LEMMA OneSegmentMore ==
  ASSUME NEW placed, NEW k \in Nat \ {0}, Placed(placed, k - 1)
  PROVE  Placed(TemplateStep(0, 0, placed, k), k)
<1> DEFINE more == {Placement(placed, p, k) : p \in placed}
<1>1. TemplateStep(0, 0, placed, k) = more
  BY PlacementStep DEF Placed
<1>2. more \subseteq Placements /\ IsFiniteSet(more)
  <2>1. more \subseteq Placements
    BY PlacedFurther
  <2> DEFINE f == [p \in placed |-> Placement(placed, p, k)]
  <2>2. more = {f[p] : p \in placed}
    OBVIOUS
  <2>3. DOMAIN f = placed /\ IsFiniteSet(placed)
    BY DEF Placed
  <2> HIDE DEF f
  <2> QED BY <2>1, <2>2, <2>3, Image
<1>3. \A q \in more : LET n == Len(Of[q.url].path) IN Len(q.pattern) = 1 + (IF n < k THEN n ELSE k)
  <2> SUFFICES ASSUME NEW p \in placed
               PROVE  LET q == Placement(placed, p, k)
                          n == Len(Of[q.url].path)
                      IN Len(q.pattern) = 1 + (IF n < k THEN n ELSE k)
    OBVIOUS
  <2> QED BY PlacedFurther
<1>4. Tight(more)
  <2> SUFFICES ASSUME NEW p \in placed, NEW j \in 2 .. Len(Placement(placed, p, k).pattern) - 1
               PROVE  TightAt(more, Placement(placed, p, k), j)
    BY DEF Tight
  <2>1. j \in Nat /\ j >= 2 /\ j <= k /\ (j = k => Len(Of[p.url].path) >= k)
    BY PlacedFurther
  <2>2. CASE j < k
    BY <2>2, TightBefore
  <2>3. CASE j = k
    <3>1. k \in Nat \ {0, 1} /\ Len(Of[p.url].path) >= k
      BY <2>1, <2>3
    <3> QED BY <2>3, <3>1, TightNow
  <2> QED BY <2>1, <2>2, <2>3
<1> QED BY <1>1, <1>2, <1>3, <1>4 DEF Placed

\* Whatever pages a report holds, its templates are tight.
LEMMA TemplatesTight ==
  ASSUME NEW found, found \subseteq URLs, IsFiniteSet(found)
  PROVE  Templates(found) \subseteq Placements /\ Tight(Templates(found))
<1> DEFINE base == {[url |-> u, pattern |-> <<Of[u].host>>] : u \in found}
           lengths == {0} \cup {Len(Of[u].path) : u \in found}
           order == [k \in 1 .. Max(lengths) |-> k]
           I == {x \in Nat \X SUBSET Placements : Placed(x[2], x[1])}
           last == Placing!Loop(0, 0, base, order)
<1>1. Max(lengths) \in Nat
  <2>1. lengths \subseteq Nat /\ 0 \in lengths
    BY Paths
  <2>2. IsFiniteSet(lengths)
    <3> DEFINE f == [u \in found |-> Len(Of[u].path)]
    <3>1. {f[u] : u \in found} = {Len(Of[u].path) : u \in found} /\ DOMAIN f = found
      OBVIOUS
    <3> HIDE DEF f
    <3>2. IsFiniteSet({f[u] : u \in found})
      BY <3>1, Image
    <3> QED BY <3>1, <3>2, FS_Singleton, FS_Union
  <2> HIDE DEF lengths
  <2>3. \E n \in lengths : \A m \in lengths : n >= m
    BY <2>1, <2>2, LargestOfFew
  <2> QED BY <2>1, <2>3 DEF Max
<1>2. order \in Seq(Nat) /\ Len(order) \in Nat /\ \A i \in 1 .. Len(order) : order[i] = i
  <2> DEFINE n == Max(lengths)
  <2> HIDE DEF n
  <2>1. n \in Nat
    BY <1>1 DEF n
  <2>2. [k \in 1 .. n |-> k] \in [1 .. n -> Nat]
    OBVIOUS
  <2> QED BY <2>1, <2>2 DEF n
<1>3. Placed(base, 0)
  <2>1. \A u \in found : [url |-> u, pattern |-> <<Of[u].host>>] \in Placements
    <3> SUFFICES ASSUME NEW u \in found PROVE [url |-> u, pattern |-> <<Of[u].host>>] \in Placements
      OBVIOUS
    <3>1. Of[u].host \in Segments
      BY Paths DEF Segments
    <3> QED BY <3>1 DEF Placements
  <2>2. base \subseteq Placements
    BY <2>1
  <2>3. IsFiniteSet(base)
    <3> DEFINE f == [u \in found |-> [url |-> u, pattern |-> <<Of[u].host>>]]
    <3>1. base = {f[u] : u \in found} /\ DOMAIN f = found
      OBVIOUS
    <3> HIDE DEF f
    <3> QED BY <3>1, Image
  <2>4. \A p \in base : Len(p.pattern) = 1 /\ Len(Of[p.url].path) \in Nat
    BY Paths
  <2> HIDE DEF base
  <2>5. Tight(base)
    <3>1. ASSUME NEW p \in base, NEW j \in 2 .. Len(p.pattern) - 1 PROVE FALSE
      <4>1. Len(p.pattern) = 1
        BY <2>4
      <4> QED BY <4>1
    <3> QED BY <3>1, Zenon DEF Tight
  <2>6. \A p \in base : LET n == Len(Of[p.url].path) IN Len(p.pattern) = 1 + (IF n < 0 THEN n ELSE 0)
    <3> SUFFICES ASSUME NEW p \in base
                 PROVE  Len(p.pattern) = 1 + (IF Len(Of[p.url].path) < 0 THEN Len(Of[p.url].path) ELSE 0)
      OBVIOUS
    <3>1. PICK n \in Nat : n = Len(Of[p.url].path)
      BY <2>4
    <3>2. Len(p.pattern) = 1
      BY <2>4
    <3> QED BY <3>1, <3>2
  <2> QED BY <2>2, <2>3, <2>5, <2>6, Zenon DEF Placed
<1>4. <<0, base>> \in I
  <2>1. <<0, base>> \in Nat \X SUBSET Placements
    BY <1>3 DEF Placed
  <2> HIDE DEF base
  <2>2. \A x : x = <<0, base>> => Placed(x[2], x[1])
    BY <1>3
  <2> QED BY <2>1, <2>2
<1>5. ASSUME NEW i \in 1 .. Len(order), NEW a, <<i - 1, a>> \in I
      PROVE  <<i, TemplateStep(0, 0, a, order[i])>> \in I
  <2> HIDE DEF order
  <2>1. i \in Nat \ {0} /\ order[i] = i
    BY <1>2
  <2>2. Placed(a, i - 1)
    <3>1. \A x \in I : Placed(x[2], x[1])
      BY Zenon
    <3> HIDE DEF I
    <3>2. Placed(<<i - 1, a>>[2], <<i - 1, a>>[1])
      BY <1>5, <3>1, Zenon
    <3> QED BY <3>2
  <2> DEFINE b == TemplateStep(0, 0, a, i)
  <2>3. Placed(b, i)
    BY <2>1, <2>2, OneSegmentMore
  <2> HIDE DEF b
  <2>4. <<i, b>> \in Nat \X SUBSET Placements
    BY <2>1, <2>3 DEF Placed
  <2>5. \A x : x = <<i, b>> => Placed(x[2], x[1])
    BY <2>3
  <2>6. <<i, b>> \in I
    BY <2>4, <2>5
  <2> QED BY <2>1, <2>6 DEF b
<1>6. Templates(found) = last
  BY DEF Templates, Fold, Placing!Loop, TemplateStep
<1> HIDE DEF I, order, base
<1>7. <<Len(order), last>> \in I
  BY <1>2, <1>4, <1>5, Placing!LoopKeepsAt
<1>8. \E n \in Nat : Placed(last, n)
  <2>1. \A x \in I : x[1] \in Nat /\ Placed(x[2], x[1])
    BY Zenon DEF I
  <2>2. <<Len(order), last>>[1] \in Nat /\ Placed(<<Len(order), last>>[2], <<Len(order), last>>[1])
    BY <1>7, <2>1, Zenon
  <2> QED BY <2>2
<1> QED BY <1>6, <1>8 DEF Placed

------------------------------------------------------------------------------
(* The run between two of the things it consumes. *)

\* The steps of the loops over links, scripts, sitemaps and pages.
EndpointStep(none, nothing, acc, link) ==
  LET u == Normalize(link) IN
  IF u = Nowhere \/ Cardinality(acc.endpoints) >= MaximumEndpoints THEN acc
  ELSE [acc EXCEPT !.endpoints = @ \cup {u}]

ScriptStep(none, nothing, acc, s) ==
  IF s \in acc.scripts \/ Cardinality(acc.scripts) >= MaximumScripts THEN acc
  ELSE [acc EXCEPT !.scripts = @ \cup {s}, !.toRead = Append(@, s)]

SitemapStep(none, nothing, acc, link) == EnqueueSitemap(acc, link)

AddStep(none, nothing, acc, link) == Add(acc, Normalize(link))

FollowStep(expand, none, acc, link) ==
  LET added == Add(acc, Normalize(link)) IN
  IF expand THEN Enqueue(added, Normalize(link)) ELSE added

BatchStep(batch, ways, r, i) == Consume(r, batch[i], ways[i])

SitemapBatchStep(queue, ok, r, i) == ConsumeSitemap(r, queue[i], i \in ok)

ReadScriptStep(ok, none, r, s) == IF s \in ok THEN AddEndpoints(r, job.site.scripts[s]) ELSE r

Noting == INSTANCE FoldRule WITH step <- EndpointStep
Scripting == INSTANCE FoldRule WITH step <- ScriptStep
Mapping == INSTANCE FoldRule WITH step <- SitemapStep
Gathering == INSTANCE FoldRule WITH step <- AddStep
Following == INSTANCE FoldRule WITH step <- FollowStep
Batching == INSTANCE FoldRule WITH step <- BatchStep
Fetching == INSTANCE FoldRule WITH step <- SitemapBatchStep
Scanning == INSTANCE FoldRule WITH step <- ReadScriptStep

\* A run that goes on.
Live(r) == r \in Runs /\ IsFiniteSet(r.urls)

\* All but the URLs found, the limits met and what the sitemaps read.
SameCrawl(r, q) ==
  /\ q.rules = r.rules /\ q.level = r.level /\ q.next = r.next /\ q.depth = r.depth
  /\ q.queued = r.queued /\ q.counts = r.counts /\ q.prints = r.prints /\ q.pages = r.pages /\ q.fetched = r.fetched

\* What was found or said stays.
Grown(r, q) == r.urls \subseteq q.urls /\ (r.limited => q.limited) /\ r.warnings \subseteq q.warnings

\* A URL that normalizes is canonical, and every spelling of it normalizes to it.
LEMMA Normalized ==
  ASSUME NEW x \in URLs \cup {Nowhere}
  PROVE  LET u == Normalize(x)
         IN /\ u \in URLs \cup {Nowhere}
            /\ u # Nowhere =>
                 /\ u \in URLs /\ Of[u].canon = u /\ Normalize(u) = u
                 /\ \A y \in URLs : Of[y].canon = u => Normalize(y) = u
<1> DEFINE u == Normalize(x)
           hosts == {"site"} \cup (IF job.request.subdomains THEN {"sub"} ELSE {})
<1>0. Nowhere \notin URLs /\ Nowhere = 0
  BY PagesAssumption DEF Nowhere
<1>1. \A y \in URLs : Normalize(y) = IF Of[y].host \in hosts /\ Of[y].kind \in {"page", "pdf"} THEN Of[y].canon ELSE Nowhere
  BY <1>0 DEF Normalize, NormalizedTo
<1>2. \A y \in URLs : /\ Of[y].canon \in URLs /\ Of[Of[y].canon].canon = Of[y].canon
                      /\ Of[Of[y].canon].host = Of[y].host /\ Of[Of[y].canon].kind = Of[y].kind
  BY PagesAssumption
<1> HIDE DEF hosts
<1>3. CASE x \in URLs
  <2>1. CASE u = Nowhere
    BY <2>1
  <2>2. CASE u # Nowhere
    <3>1. u = Of[x].canon /\ Of[x].host \in hosts /\ Of[x].kind \in {"page", "pdf"}
      BY <1>1, <1>3, <2>2
    <3>2. u \in URLs /\ Of[u].canon = u /\ Of[u].host \in hosts /\ Of[u].kind \in {"page", "pdf"}
      BY <1>2, <1>3, <3>1
    <3>3. Normalize(u) = u
      BY <1>1, <3>2
    <3>4. \A y \in URLs : Of[y].canon = u => Normalize(y) = u
      BY <1>1, <1>2, <3>2
    <3> QED BY <3>2, <3>3, <3>4
  <2> QED BY <2>1, <2>2
<1>4. CASE x = Nowhere
  BY <1>4 DEF Normalize, NormalizedTo
<1> QED BY <1>3, <1>4

\* add: a URL that may be reported is reported, or the report is marked as limited.
LEMMA AddedTo ==
  ASSUME NEW r, Live(r), NEW u \in URLs \cup {Nowhere}, NEW q, q = Add(r, u)
  PROVE  /\ Live(q) /\ SameCrawl(r, q) /\ Grown(r, q)
         /\ u # Nowhere /\ Permitted(u) => u \in q.urls \/ q.limited
<1> DEFINE idle == u = Nowhere \/ u \in r.urls \/ ~Permitted(u)
<1>0. r \in Runs
  BY DEF Live
<1>1. CASE idle
  BY <1>1 DEF SameCrawl, Grown, Live, Add
<1>2. CASE ~idle /\ Full(r)
  <2>1. q = [r EXCEPT !.limited = TRUE]
    BY <1>2 DEF Add
  <2> HIDE DEF idle
  <2>2. [r EXCEPT !.limited = TRUE] \in Runs
    BY <1>0 DEF Runs
  <2>3. q.urls = r.urls /\ q.limited /\ q.warnings = r.warnings
    BY <1>0, <2>1 DEF Runs
  <2>4. SameCrawl(r, q)
    BY <1>0, <2>1 DEF Runs, SameCrawl
  <2> QED BY <2>1, <2>2, <2>3, <2>4 DEF Live, Grown
<1>3. CASE ~idle /\ ~Full(r)
  <2>0. u \in URLs
    BY <1>3
  <2>1. q = [r EXCEPT !.urls = @ \cup {u}]
    BY <1>3 DEF Add
  <2> HIDE DEF idle
  <2>2. [r EXCEPT !.urls = @ \cup {u}] \in Runs
    BY <1>0, <2>0 DEF Runs
  <2>3. q.urls = r.urls \cup {u} /\ q.limited = r.limited /\ q.warnings = r.warnings
    BY <1>0, <2>1 DEF Runs
  <2>4. SameCrawl(r, q)
    BY <1>0, <2>1 DEF Runs, SameCrawl
  <2>5. IsFiniteSet(q.urls)
    BY <2>3, FS_AddElement DEF Live
  <2> QED BY <2>1, <2>2, <2>3, <2>4, <2>5 DEF Live, Grown
<1> QED BY <1>1, <1>2, <1>3

\* What a later moment of the same level's batch keeps of an earlier one.
Later(r, q) ==
  /\ q.rules = r.rules /\ q.level = r.level /\ q.depth = r.depth
  /\ Grown(r, q)
  /\ r.queued \subseteq q.queued /\ \A u \in URLs : r.counts[Shape(u)] <= q.counts[Shape(u)]
  /\ ToSet(r.pages) \subseteq ToSet(q.pages)

\* The types of the fields that the proofs read.
LEMMA Fields ==
  ASSUME NEW r \in Runs
  PROVE  /\ r.urls \in SUBSET URLs /\ r.warnings \in SUBSET MapMessages /\ r.limited \in BOOLEAN
         /\ r.level \in Seq(URLs) /\ r.next \in Seq(URLs) /\ r.depth \in Nat
         /\ r.queued \in SUBSET (URLs \cup {Nowhere}) /\ r.counts \in [Shapes -> Nat] /\ r.robotsSkipped \in Nat
         /\ r.prints \in SUBSET SUBSET Nat /\ r.pages \in Seq(PageRecords)
<1>1. r.urls \in SUBSET URLs /\ r.warnings \in SUBSET MapMessages /\ r.limited \in BOOLEAN
  BY DEF Runs
<1>2. r.level \in Seq(URLs) /\ r.next \in Seq(URLs) /\ r.depth \in Nat
  BY DEF Runs
<1>3. r.queued \in SUBSET (URLs \cup {Nowhere}) /\ r.counts \in [Shapes -> Nat] /\ r.robotsSkipped \in Nat
  BY DEF Runs
<1>4. r.prints \in SUBSET SUBSET Nat /\ r.pages \in Seq(PageRecords)
  BY DEF Runs
<1> QED BY <1>1, <1>2, <1>3, <1>4

\* What a moment keeps of an earlier one is kept from moment to moment.
LEMMA LaterIsTransitive ==
  ASSUME NEW a, NEW b, NEW c, Live(a), Live(b), Live(c), Later(a, b), Later(b, c)
  PROVE  Later(a, c)
<1>1. \A u \in URLs : a.counts[Shape(u)] \in Nat /\ b.counts[Shape(u)] \in Nat /\ c.counts[Shape(u)] \in Nat
  <2>1. \A u \in URLs : Shape(u) \in Shapes
    BY DEF Shapes
  <2> QED BY <2>1, Fields DEF Live
<1>2. \A u \in URLs : a.counts[Shape(u)] <= c.counts[Shape(u)]
  BY <1>1 DEF Later
<1>3. Grown(a, c)
  BY DEF Later, Grown
<1> QED BY <1>2, <1>3 DEF Later

\* A moment with the same crawl is a later one.
LEMMA SameIsLater ==
  ASSUME NEW r, NEW q, Live(r), SameCrawl(r, q), Grown(r, q)
  PROVE  Later(r, q)
<1>1. \A u \in URLs : r.counts[Shape(u)] \in Nat
  <2>1. \A u \in URLs : Shape(u) \in Shapes
    BY DEF Shapes
  <2> QED BY <2>1, Fields DEF Live
<1> QED BY <1>1 DEF SameCrawl, Later

\* What was cut off stays cut off.
LEMMA CutOffStays ==
  ASSUME job \in Jobs, NEW r, NEW q, Live(r), Live(q), Grown(r, q), CutOff(r)
  PROVE  CutOff(q)
<1>1. job.request.limit \in Nat
  BY SiteMapAssumption DEF IsJob
<1>2. Full(r) => Full(q)
  <2>1. Cardinality(r.urls) <= Cardinality(q.urls)
    BY FS_Subset DEF Live, Grown
  <2>2. Cardinality(r.urls) \in Nat /\ Cardinality(q.urls) \in Nat
    BY FS_CardinalityType DEF Live
  <2> QED BY <1>1, <2>1, <2>2 DEF Full
<1> QED BY <1>2 DEF CutOff, Grown

\* A step that leaves the crawl alone leaves its line sound.
LEMMA LineStays ==
  ASSUME job \in Jobs, NEW r, NEW q, Live(r), Live(q), SameCrawl(r, q), Grown(r, q), NEW line, NEW n
  PROVE  /\ LineIsPolite(line, r) => LineIsPolite(line, q)
         /\ LineIsWhole(line, r) => LineIsWhole(line, q)
         /\ PagesAreKept(line, n, r) => PagesAreKept(line, n, q)
<1>1. LineIsPolite(line, r) => LineIsPolite(line, q)
  BY DEF LineIsPolite, SameCrawl
<1>2. LineIsWhole(line, r) => LineIsWhole(line, q)
  BY CutOffStays DEF LineIsWhole, SameCrawl
<1>3. PagesAreKept(line, n, r) => PagesAreKept(line, n, q)
  BY DEF PagesAreKept, SameCrawl
<1> QED BY <1>1, <1>2, <1>3

\* The minimum of two numbers.
LEMMA SmallerOfTwo ==
  ASSUME NEW a \in Nat, NEW b \in Nat
  PROVE  Min({a, b}) \in {a, b} /\ Min({a, b}) <= a /\ Min({a, b}) <= b
<1>1. \E x \in {a, b} : \A y \in {a, b} : x <= y
  <2>1. CASE a <= b
    BY <2>1
  <2>2. CASE ~(a <= b)
    BY <2>2
  <2> QED BY <2>1, <2>2
<1>2. Min({a, b}) \in {a, b} /\ \A y \in {a, b} : Min({a, b}) <= y
  BY <1>1 DEF Min
<1> QED BY <1>2

\* The links of a page, in any way it was loaded, are URLs.
LEMMA PageLinks ==
  ASSUME job \in Jobs, NEW u \in DOMAIN job.site.pages, NEW way
  PROVE  /\ u \in URLs /\ LinksOf(u, way) \in Seq(URLs) /\ ExploredOf(u, way) \in Seq(URLs)
         /\ job.site.pages[u].html \in BOOLEAN /\ job.site.pages[u].final \in URLs \cup {Nowhere}
         /\ job.site.pages[u].print \in SUBSET Nat
<1> DEFINE page == job.site.pages[u]
<1>1. IsJob(job)
  BY SiteMapAssumption
<1>2. u \in URLs /\ IsSitePage(page)
  BY <1>1 DEF IsJob
<1> HIDE DEF page
<1>3. /\ page.links \in Seq(URLs) /\ page.rendered \in Seq(URLs) /\ page.explored \in Seq(URLs)
      /\ page.html \in BOOLEAN /\ page.final \in URLs \cup {Nowhere} /\ page.print \in SUBSET Nat
  BY <1>2 DEF IsSitePage
<1>4. \A s \in Seq(URLs) : Take(s, Min({MaximumPageLinks, Len(s)})) \in Seq(URLs)
  <2> SUFFICES ASSUME NEW s \in Seq(URLs) PROVE SubSeq(s, 1, Min({MaximumPageLinks, Len(s)})) \in Seq(URLs)
    BY DEF Take
  <2>1. Len(s) \in Nat /\ MaximumPageLinks \in Nat
    BY SiteMapAssumption
  <2>2. PICK m \in Nat : m = Min({MaximumPageLinks, Len(s)}) /\ m <= Len(s)
    BY <2>1, SmallerOfTwo
  <2>3. \A i \in 1 .. m : s[i] \in URLs
    BY <2>2
  <2>4. SubSeq(s, 1, m) \in Seq(URLs)
    BY <2>3, SubSeqProperties
  <2> QED BY <2>2, <2>4
<1>5. LinksOf(u, way) = IF way = "plain" THEN Take(page.links, Min({MaximumPageLinks, Len(page.links)}))
                        ELSE Take(page.rendered, Min({MaximumPageLinks, Len(page.rendered)}))
  BY DEF LinksOf, AllLinks, page
<1>6. LinksOf(u, way) \in Seq(URLs)
  BY <1>3, <1>4, <1>5
<1>7. ExploredOf(u, way) \in Seq(URLs)
  BY <1>3 DEF ExploredOf, page
<1> QED BY <1>2, <1>3, <1>6, <1>7 DEF page

\* What a page offers is what is read of it: no more is cut off, and no less.
LEMMA OfferedIsRead ==
  ASSUME job \in Jobs, NEW p, p.url \in DOMAIN job.site.pages
  PROVE  Offered(p) = {Normalize(link) : link \in ToSet(LinksOf(p.url, p.way)) \cup ToSet(ExploredOf(p.url, p.way))}
<1> DEFINE all == AllLinks(p.url, p.way)
           read == LinksOf(p.url, p.way)
           m == MaximumPageLinks
           n == Len(all)
           k == Min({m, n})
<1>1. all \in Seq(URLs) /\ n \in Nat /\ DOMAIN all = 1 .. n
  <2>1. IsJob(job)
    BY SiteMapAssumption
  <2>2. IsSitePage(job.site.pages[p.url])
    BY <2>1 DEF IsJob
  <2>3. job.site.pages[p.url].links \in Seq(URLs) /\ job.site.pages[p.url].rendered \in Seq(URLs)
    BY <2>2 DEF IsSitePage
  <2>4. all \in Seq(URLs)
    BY <2>3 DEF AllLinks
  <2> HIDE DEF all
  <2> QED BY <2>4
<1>2. m \in Nat
  BY SizesAreNatural
<1>3. read = Take(all, k)
  BY DEF LinksOf
<1> HIDE DEF all, read, m, n
<1>4. k \in 0 .. n /\ \A i \in 1 .. n : i <= m <=> i <= k
  <2>1. k \in {m, n} /\ k <= m /\ k <= n
    BY <1>1, <1>2, SmallerOfTwo
  <2> HIDE DEF k
  <2> QED BY <1>1, <1>2, <2>1
<1> HIDE DEF k
<1>5. read \in Seq(URLs) /\ DOMAIN read = 1 .. k /\ \A i \in 1 .. k : read[i] = all[i]
  BY <1>1, <1>3, <1>4 DEF Take, n
<1>6. {i \in DOMAIN all : i <= m} = 1 .. k
  BY <1>1, <1>4
<1>7. ToSet(read) = {all[i] : i \in {j \in DOMAIN all : j <= m}}
  BY <1>5, <1>6 DEF ToSet
<1> QED BY <1>7 DEF Offered, all, read, m

\* What a page offers are URLs of the site, or Nowhere.
LEMMA OfferedURLs ==
  ASSUME job \in Jobs, NEW p, p.url \in DOMAIN job.site.pages, NEW u \in Offered(p)
  PROVE  u \in URLs \cup {Nowhere}
<1>1. \A link \in ToSet(LinksOf(p.url, p.way)) \cup ToSet(ExploredOf(p.url, p.way)) : link \in URLs
  <2>1. LinksOf(p.url, p.way) \in Seq(URLs) /\ ExploredOf(p.url, p.way) \in Seq(URLs)
    BY PageLinks
  <2>2. \A s \in Seq(URLs) : ToSet(s) \subseteq URLs
    BY DEF ToSet
  <2> QED BY <2>1, <2>2
<1>2. PICK link \in URLs : u = Normalize(link)
  BY <1>1, OfferedIsRead
<1> QED BY <1>2, Normalized

\* A page that is whole stays whole.
LEMMA PageStays ==
  ASSUME job \in Jobs, NEW r, NEW q, Live(r), Live(q), Later(r, q),
         NEW p, p.url \in DOMAIN job.site.pages, PageIsWhole(r, p)
  PROVE  PageIsWhole(q, p)
<1>1. PageIsListed(q, p)
  BY DEF PageIsWhole, PageIsListed, Later, Grown
<1>2. CASE CutOff(r)
  BY <1>1, <1>2, CutOffStays DEF PageIsWhole, PageIsFollowed, Later
<1>3. CASE ~job.site.pages[p.url].html
  BY <1>1, <1>3 DEF PageIsWhole, PageIsFollowed
<1>4. CASE ~CutOff(r) /\ job.site.pages[p.url].html
  <2> SUFFICES ASSUME NEW u \in Offered(p), u # Nowhere, Permitted(u), Expand(p.depth)
               PROVE  \/ u \in q.queued \/ q.counts[Shape(u)] >= ShapeSampleLimit
                      \/ LooksLikeAnother(q, p)
    BY <1>1 DEF PageIsWhole, PageIsFollowed
  <2>1. u \in r.queued \/ r.counts[Shape(u)] >= ShapeSampleLimit \/ LooksLikeAnother(r, p)
    BY <1>4 DEF PageIsWhole, PageIsFollowed
  <2>2. u \in URLs /\ Shape(u) \in Shapes
    BY OfferedURLs DEF Shapes
  <2>3. r.counts[Shape(u)] >= ShapeSampleLimit => q.counts[Shape(u)] >= ShapeSampleLimit
    <3>1. r.counts[Shape(u)] \in Nat /\ q.counts[Shape(u)] \in Nat /\ ShapeSampleLimit \in Nat
      BY <2>2, Fields, SiteMapAssumption DEF Live
    <3> QED BY <2>2, <3>1 DEF Later
  <2>4. LooksLikeAnother(r, p) => LooksLikeAnother(q, p)
    BY DEF LooksLikeAnother, Later
  <2> QED BY <2>1, <2>3, <2>4 DEF Later
<1> QED BY <1>2, <1>3, <1>4

\* A sequence is what is taken of it, then what is left.
LEMMA Pieces ==
  ASSUME NEW S, NEW s \in Seq(S), NEW n \in 0 .. Len(s)
  PROVE  /\ Take(s, n) \in Seq(S) /\ Drop(s, n) \in Seq(S) /\ Len(Take(s, n)) = n /\ Len(Drop(s, n)) = Len(s) - n
         /\ \A i \in 1 .. n : Take(s, n)[i] = s[i]
         /\ Take(s, n) \o Drop(s, n) = s
<1>1. Len(s) \in Nat /\ n \in Int /\ n + 1 \in Int /\ Len(s) \in Int /\ 1 \in Int /\ 0 <= n /\ n <= Len(s)
  OBVIOUS
<1>2. (\A i \in 1 .. n : s[i] \in S) /\ \A i \in n + 1 .. Len(s) : s[i] \in S
  BY <1>1
<1>3. /\ SubSeq(s, 1, n) \in Seq(S) /\ Len(SubSeq(s, 1, n)) = (IF 1 <= n THEN n - 1 + 1 ELSE 0)
      /\ \A i \in 1 .. n - 1 + 1 : SubSeq(s, 1, n)[i] = s[1 + i - 1]
  BY <1>1, <1>2, SubSeqProperties
<1>4. /\ SubSeq(s, n + 1, Len(s)) \in Seq(S)
      /\ Len(SubSeq(s, n + 1, Len(s))) = (IF n + 1 <= Len(s) THEN Len(s) - (n + 1) + 1 ELSE 0)
  BY <1>1, <1>2, SubSeqProperties
<1>5. SubSeq(s, 1, n) \o SubSeq(s, n + 1, Len(s)) = s
  <2>1. 1 \in 1 .. Len(s) + 1 /\ n \in 1 - 1 .. Len(s) /\ Len(s) \in n .. Len(s)
    BY <1>1
  <2>2. SubSeq(s, 1, n) \o SubSeq(s, n + 1, Len(s)) = SubSeq(s, 1, Len(s))
    BY <2>1, ConcatAdjacentSubSeq
  <2>3. SubSeq(s, 1, Len(s)) = s
    BY SubSeqFull
  <2> QED BY <2>2, <2>3
<1>6. \A i \in 1 .. n : SubSeq(s, 1, n)[i] = s[i]
  BY <1>1, <1>3
<1>7. Len(SubSeq(s, 1, n)) = n /\ Len(SubSeq(s, n + 1, Len(s))) = Len(s) - n
  <2>1. PICK m \in Nat : m = Len(s)
    BY <1>1
  <2>2. Len(SubSeq(s, 1, n)) = n
    BY <1>1, <1>3
  <2>3. Len(SubSeq(s, n + 1, Len(s))) = Len(s) - n
    <3>1. (IF n + 1 <= m THEN m - (n + 1) + 1 ELSE 0) = m - n
      BY <1>1, <2>1
    <3> QED BY <1>4, <2>1, <3>1
  <2> QED BY <2>2, <2>3
<1> QED BY <1>3, <1>4, <1>5, <1>6, <1>7 DEF Take, Drop

\* Appending to the rest of a line appends to the line.
LEMMA AppendedToFront ==
  ASSUME NEW S, NEW F \in Seq(S), NEW s \in Seq(S), NEW e \in S
  PROVE  F \o Append(s, e) = Append(F \o s, e) /\ F \o s \in Seq(S)
<1>1. Append(s, e) = s \o <<e>> /\ <<e>> \in Seq(S) /\ F \o s \in Seq(S)
  BY AppendIsConcat, ConcatProperties
<1>2. F \o (s \o <<e>>) = (F \o s) \o <<e>>
  BY <1>1, ConcatAssociative
<1>3. Append(F \o s, e) = (F \o s) \o <<e>>
  BY <1>1, AppendIsConcat
<1> QED BY <1>1, <1>2, <1>3

\* Where the pages read stand does not depend on what follows them in the line.
LEMMA PagesFront ==
  ASSUME NEW F \in Seq(URLs), NEW s \in Seq(URLs), NEW n \in 0 .. Len(F), NEW r
  PROVE  PagesAreKept(F \o s, n, r) <=> PagesAreKept(F, n, r)
<1>1. \A i \in 1 .. n : (F \o s)[i] = F[i]
  <2>1. Len(F) \in Nat /\ Len(s) \in Nat
    OBVIOUS
  <2> QED BY <2>1, ConcatProperties
<1> QED BY <1>1 DEF PagesAreKept

\* A page at the end of the line counts for its shape.
LEMMA LongerLine ==
  ASSUME NEW line \in Seq(URLs), line # <<>>, NEW u \in URLs, NEW s
  PROVE  /\ Cardinality(InLine(Append(line, u), s)) = Cardinality(InLine(line, s)) + (IF s = Shape(u) THEN 1 ELSE 0)
         /\ Cardinality(InLine(line, s)) \in Nat
<1> DEFINE more == Append(line, u)
           k == Len(line) + 1
<1>1. Len(line) \in Nat /\ Len(line) >= 1 /\ k > 1 /\ k \notin DOMAIN line /\ DOMAIN line = 1 .. Len(line)
  OBVIOUS
<1>2. DOMAIN more = DOMAIN line \cup {k} /\ more[k] = u /\ \A i \in DOMAIN line : more[i] = line[i]
  BY Appended
<1> HIDE DEF more, k
<1>3. InLine(more, s) = IF s = Shape(u) THEN InLine(line, s) \cup {k} ELSE InLine(line, s)
  BY <1>1, <1>2 DEF InLine
<1>4. IsFiniteSet(InLine(line, s)) /\ k \notin InLine(line, s)
  <2>1. IsFiniteSet(1 .. Len(line))
    BY <1>1, FS_Interval
  <2> QED BY <1>1, <2>1, FS_Subset DEF InLine
<1>5. Cardinality(InLine(line, s) \cup {k}) = Cardinality(InLine(line, s)) + 1 /\ Cardinality(InLine(line, s)) \in Nat
  BY <1>4, FS_AddElement, FS_CardinalityType
<1> QED BY <1>3, <1>5 DEF more

\* Normalize finds a URL in the line under any of its spellings.
LEMMA NewInLine ==
  ASSUME NEW line, NEW r, LineIsPolite(line, r), line \in Seq(URLs), NEW x \in URLs, NEW u, u = Normalize(x),
         u # Nowhere, u \notin r.queued
  PROVE  \A i \in DOMAIN line : Of[line[i]].canon # u
<1> SUFFICES ASSUME NEW i \in DOMAIN line, Of[line[i]].canon = u PROVE FALSE
  OBVIOUS
<1>1. line[i] \in URLs
  OBVIOUS
<1>2. Normalize(line[i]) = u
  BY <1>1, Normalized
<1> QED BY <1>2 DEF LineIsPolite

\* enqueue of a URL that robots.txt forbids: it is remembered, not queued.
LEMMA EnqueuedBlocked ==
  ASSUME job \in Jobs, NEW r, Live(r), NEW line, LineIsPolite(line, r), LineIsWhole(line, r),
         NEW u \in URLs, Blocks(r.rules, u),
         NEW q, q = [r EXCEPT !.queued = @ \cup {u}, !.robotsSkipped = @ + 1]
  PROVE  /\ Live(q) /\ Later(r, q) /\ q.pages = r.pages /\ q.prints = r.prints /\ q.next = r.next
         /\ LineIsPolite(line, q) /\ LineIsWhole(line, q) /\ u \in q.queued
<1> DEFINE Q == r.queued \cup {u}
           k == r.robotsSkipped + 1
<1>0. r \in Runs /\ IsFiniteSet(r.urls)
  BY DEF Live
<1>1. Q \in SUBSET (URLs \cup {Nowhere}) /\ k \in Nat
  BY <1>0, Fields
<1>2. q = [r EXCEPT !.queued = Q, !.robotsSkipped = k]
  OBVIOUS
<1> HIDE DEF Q, k
<1>3. [r EXCEPT !.queued = Q, !.robotsSkipped = k] \in Runs
  BY <1>0, <1>1 DEF Runs
<1>4. q.queued = Q /\ q.urls = r.urls /\ q.limited = r.limited /\ q.warnings = r.warnings /\ q.counts = r.counts
  BY <1>0, <1>2 DEF Runs
<1>5. q.rules = r.rules /\ q.level = r.level /\ q.next = r.next /\ q.depth = r.depth /\ q.pages = r.pages /\ q.prints = r.prints
  BY <1>0, <1>2 DEF Runs
<1>6. Live(q)
  BY <1>0, <1>2, <1>3, <1>4 DEF Live
<1>7. r.queued \subseteq q.queued /\ u \in q.queued /\ \A v \in q.queued : v \in r.queued \/ v = u
  BY <1>4 DEF Q
<1>8. Grown(r, q)
  BY <1>4 DEF Grown
<1>9. Later(r, q)
  <2>1. \A v \in URLs : r.counts[Shape(v)] \in Nat
    <3>1. \A v \in URLs : Shape(v) \in Shapes
      BY DEF Shapes
    <3> QED BY <1>0, <3>1, Fields
  <2> QED BY <1>4, <1>5, <1>7, <1>8, <2>1 DEF Later
<1>10. LineIsPolite(line, q)
  BY <1>4, <1>5, <1>7 DEF LineIsPolite
<1>11. LineIsWhole(line, q)
  <2>1. CASE CutOff(r)
    BY <1>0, <1>6, <1>8, <2>1, CutOffStays DEF LineIsWhole
  <2>2. CASE ~CutOff(r)
    <3>1. \A v \in q.queued : v = Nowhere \/ Blocks(q.rules, v) \/ \E i \in DOMAIN line : Of[line[i]].canon = v
      BY <1>5, <1>7, <2>2 DEF LineIsWhole
    <3>2. \A s \in Shapes : q.counts[s] <= Cardinality(InLine(line, s))
      BY <1>4, <2>2 DEF LineIsWhole
    <3> QED BY <3>1, <3>2 DEF LineIsWhole
  <2> QED BY <2>1, <2>2
<1> QED BY <1>5, <1>6, <1>7, <1>9, <1>10, <1>11

\* enqueue of a URL that is queued: the line grows by it.
LEMMA EnqueuedNew ==
  ASSUME job \in Jobs, NEW r, Live(r), NEW F \in Seq(URLs), F # <<>>,
         LineIsPolite(F \o r.next, r), LineIsWhole(F \o r.next, r),
         NEW x \in URLs, NEW u, u = Normalize(x), u # Nowhere, u \notin r.queued, ~ Blocks(r.rules, u),
         ~ (r.counts[Shape(u)] >= ShapeSampleLimit),
         NEW q, q = [r EXCEPT !.queued = @ \cup {u}, !.counts = Sampled(r.counts, Shape(u)), !.next = Append(@, u)]
  PROVE  /\ Live(q) /\ Later(r, q) /\ q.pages = r.pages /\ q.prints = r.prints
         /\ LineIsPolite(F \o q.next, q) /\ LineIsWhole(F \o q.next, q) /\ u \in q.queued
<1> DEFINE Q == r.queued \cup {u}
           C == Sampled(r.counts, Shape(u))
           N == Append(r.next, u)
           line == F \o r.next
           longer == F \o N
<1>0. r \in Runs /\ IsFiniteSet(r.urls)
  BY DEF Live
<1>1. u \in URLs /\ Of[u].canon = u /\ Normalize(u) = u /\ Shape(u) \in Shapes
  BY Normalized DEF Shapes
<1>2. /\ r.queued \in SUBSET (URLs \cup {Nowhere}) /\ r.counts \in [Shapes -> Nat] /\ r.next \in Seq(URLs)
      /\ ShapeSampleLimit \in Nat
  BY <1>0, Fields, SiteMapAssumption
<1>3. \A s \in Shapes : C[s] = (IF s = Shape(u) THEN r.counts[s] + 1 ELSE r.counts[s]) /\ r.counts[s] \in Nat
  BY <1>1, <1>2 DEF Sampled
<1>4. Q \in SUBSET (URLs \cup {Nowhere}) /\ C \in [Shapes -> Nat] /\ N \in Seq(URLs)
  <2>1. C \in [Shapes -> Nat]
    BY <1>1, <1>2 DEF Sampled
  <2>2. N \in Seq(URLs)
    BY <1>1, <1>2
  <2> QED BY <1>1, <1>2, <2>1, <2>2
<1>5. longer = Append(line, u) /\ line \in Seq(URLs) /\ line # <<>>
  <2>1. longer = Append(line, u) /\ line \in Seq(URLs)
    BY <1>1, <1>2, AppendedToFront
  <2>2. line # <<>>
    BY <1>2, ConcatSimplifications
  <2> QED BY <2>1, <2>2
<1>6. q = [r EXCEPT !.queued = Q, !.counts = C, !.next = N]
  OBVIOUS
<1>7. r.queued \subseteq Q /\ u \in Q /\ \A v \in Q : v \in r.queued \/ v = u
  OBVIOUS
<1> HIDE DEF Q, C, N
<1>8. [r EXCEPT !.queued = Q, !.counts = C, !.next = N] \in Runs
  BY <1>0, <1>4 DEF Runs
<1>9. q.queued = Q /\ q.counts = C /\ q.next = N /\ q.urls = r.urls /\ q.limited = r.limited /\ q.warnings = r.warnings
  BY <1>0, <1>6 DEF Runs
<1>10. q.rules = r.rules /\ q.level = r.level /\ q.depth = r.depth /\ q.pages = r.pages /\ q.prints = r.prints
  BY <1>0, <1>6 DEF Runs
<1>11. Live(q)
  BY <1>0, <1>6, <1>8, <1>9 DEF Live
<1>12. Grown(r, q)
  BY <1>9 DEF Grown
<1>13. Later(r, q)
  <2>1. \A v \in URLs : r.counts[Shape(v)] <= q.counts[Shape(v)]
    <3>1. \A v \in URLs : Shape(v) \in Shapes
      BY DEF Shapes
    <3> QED BY <1>3, <1>9, <3>1
  <2> QED BY <1>7, <1>9, <1>10, <1>12, <2>1 DEF Later
<1>14. /\ DOMAIN longer = DOMAIN line \cup {Len(line) + 1} /\ longer[Len(line) + 1] = u
       /\ \A i \in DOMAIN line : longer[i] = line[i] /\ line[i] \in URLs
  <2> HIDE DEF line, longer
  <2> QED BY <1>1, <1>5, Appended
<1>15. \A s \in Shapes : /\ Cardinality(InLine(longer, s)) = Cardinality(InLine(line, s)) + (IF s = Shape(u) THEN 1 ELSE 0)
                         /\ Cardinality(InLine(line, s)) \in Nat
  <2> HIDE DEF line, longer
  <2> QED BY <1>1, <1>5, LongerLine
<1> HIDE DEF line, longer
<1>16. LineIsPolite(line, r) /\ LineIsWhole(line, r)
  BY DEF line
<1>17. LineIsPolite(longer, q)
  <2>1. \A i \in DOMAIN line : Of[line[i]].canon # u
    BY <1>5, <1>16, NewInLine
  <2>2. \A i, k \in DOMAIN longer : Of[longer[i]].canon = Of[longer[k]].canon => i = k
    <3>1. \A i, k \in DOMAIN line : Of[line[i]].canon = Of[line[k]].canon => i = k
      BY <1>16 DEF LineIsPolite
    <3> QED BY <1>1, <1>14, <2>1, <3>1
  <2>3. \A i \in DOMAIN longer : Normalize(longer[i]) \in q.queued /\ (i > 1 => ~Blocks(q.rules, longer[i]))
    <3>1. \A i \in DOMAIN line : Normalize(line[i]) \in r.queued /\ (i > 1 => ~Blocks(r.rules, line[i]))
      BY <1>16 DEF LineIsPolite
    <3> QED BY <1>1, <1>7, <1>9, <1>10, <1>14, <3>1
  <2>4. \A s \in Shapes : Cardinality(InLine(longer, s)) <= q.counts[s] /\ q.counts[s] <= ShapeSampleLimit
    <3> SUFFICES ASSUME NEW s \in Shapes
                 PROVE  Cardinality(InLine(longer, s)) <= q.counts[s] /\ q.counts[s] <= ShapeSampleLimit
      OBVIOUS
    <3>1. Cardinality(InLine(line, s)) <= r.counts[s] /\ r.counts[s] <= ShapeSampleLimit
      BY <1>16 DEF LineIsPolite
    <3>2. PICK a \in Nat, b \in Nat, c \in Nat : a = Cardinality(InLine(line, s)) /\ b = r.counts[s] /\ c = ShapeSampleLimit
      BY <1>2, <1>3, <1>15
    <3>3. CASE s = Shape(u)
      BY <1>3, <1>9, <1>15, <3>1, <3>2, <3>3
    <3>4. CASE s # Shape(u)
      BY <1>3, <1>9, <1>15, <3>1, <3>2, <3>4
    <3> QED BY <3>3, <3>4
  <2> QED BY <2>2, <2>3, <2>4 DEF LineIsPolite
<1>18. LineIsWhole(longer, q)
  <2>1. CASE CutOff(r)
    BY <1>0, <1>11, <1>12, <2>1, CutOffStays DEF LineIsWhole
  <2>2. CASE ~CutOff(r)
    <3>1. \A v \in q.queued : v = Nowhere \/ Blocks(q.rules, v) \/ \E i \in DOMAIN longer : Of[longer[i]].canon = v
      <4>1. \A v \in r.queued : v = Nowhere \/ Blocks(r.rules, v) \/ \E i \in DOMAIN line : Of[line[i]].canon = v
        BY <1>16, <2>2 DEF LineIsWhole
      <4>2. Len(line) + 1 \in DOMAIN longer /\ Of[longer[Len(line) + 1]].canon = u
        BY <1>1, <1>14
      <4> QED BY <1>7, <1>9, <1>10, <1>14, <4>1, <4>2
    <3>2. ASSUME NEW s \in Shapes PROVE q.counts[s] <= Cardinality(InLine(longer, s))
      <4>1. r.counts[s] <= Cardinality(InLine(line, s))
        BY <1>16, <2>2 DEF LineIsWhole
      <4>2. PICK a \in Nat, b \in Nat : a = Cardinality(InLine(line, s)) /\ b = r.counts[s]
        BY <1>3, <1>15
      <4> QED BY <1>3, <1>9, <1>15, <4>1, <4>2
    <3> QED BY <3>1, <3>2 DEF LineIsWhole
  <2> QED BY <2>1, <2>2
<1> QED BY <1>7, <1>9, <1>10, <1>11, <1>13, <1>17, <1>18 DEF longer

\* What a link of a page leaves in the crawl's queue.
Queued(r, u) == u = Nowhere \/ ~ Permitted(u) \/ u \in r.queued \/ r.counts[Shape(u)] >= ShapeSampleLimit

\* enqueue keeps the line sound, and the URL is queued, forbidden, or enough of its shape were.
LEMMA Enqueued ==
  ASSUME job \in Jobs, NEW r, Live(r), NEW F \in Seq(URLs), F # <<>>,
         LineIsPolite(F \o r.next, r), LineIsWhole(F \o r.next, r),
         NEW x \in URLs, NEW u, u = Normalize(x), NEW q, q = Enqueue(r, u)
  PROVE  /\ Live(q) /\ Later(r, q) /\ q.pages = r.pages /\ q.prints = r.prints
         /\ LineIsPolite(F \o q.next, q) /\ LineIsWhole(F \o q.next, q) /\ Queued(q, u)
<1> DEFINE idle == u = Nowhere \/ u \in r.queued \/ ~Permitted(u)
           enough == r.counts[Shape(u)] >= ShapeSampleLimit
           P(z) == /\ Live(z) /\ Later(r, z) /\ z.pages = r.pages /\ z.prints = r.prints
                   /\ LineIsPolite(F \o z.next, z) /\ LineIsWhole(F \o z.next, z) /\ Queued(z, u)
<1>0. P(r) \/ ~(idle \/ enough)
  <2>1. Later(r, r)
    BY SameIsLater DEF SameCrawl, Grown
  <2> QED BY <2>1 DEF Queued
<1>1. u \in URLs \cup {Nowhere}
  BY Normalized
<1>2. CASE idle
  BY <1>0, <1>2 DEF Enqueue
<1>3. CASE ~idle /\ Blocks(r.rules, u)
  <2>1. q = [r EXCEPT !.queued = @ \cup {u}, !.robotsSkipped = @ + 1] /\ u \in URLs
    BY <1>1, <1>3 DEF Enqueue
  <2> DEFINE line == F \o r.next
  <2>2. LineIsPolite(line, r) /\ LineIsWhole(line, r)
    OBVIOUS
  <2> HIDE DEF line
  <2>3. /\ Live(q) /\ Later(r, q) /\ q.pages = r.pages /\ q.prints = r.prints /\ q.next = r.next
        /\ LineIsPolite(line, q) /\ LineIsWhole(line, q) /\ u \in q.queued
    BY <1>3, <2>1, <2>2, EnqueuedBlocked, ZenonT(40)
  <2> QED BY <2>3 DEF Queued, line
<1>4. CASE ~idle /\ ~Blocks(r.rules, u) /\ enough
  BY <1>0, <1>4 DEF Enqueue
<1>5. CASE ~idle /\ ~Blocks(r.rules, u) /\ ~enough
  <2>1. q = [r EXCEPT !.queued = @ \cup {u}, !.counts = Sampled(r.counts, Shape(u)), !.next = Append(@, u)]
    BY <1>5 DEF Enqueue
  <2>2. /\ Live(q) /\ Later(r, q) /\ q.pages = r.pages /\ q.prints = r.prints
        /\ LineIsPolite(F \o q.next, q) /\ LineIsWhole(F \o q.next, q) /\ u \in q.queued
    BY <1>5, <2>1, EnqueuedNew
  <2> QED BY <2>2 DEF Queued
<1> QED BY <1>2, <1>3, <1>4, <1>5

------------------------------------------------------------------------------
(* The steps that leave the crawl's queue alone. *)

Quiet(r, q) == Live(q) /\ SameCrawl(r, q) /\ Grown(r, q)

\* Steps that leave the crawl alone, one after the other, leave it alone.
LEMMA QuietIsTransitive ==
  ASSUME NEW a, NEW b, NEW c, Quiet(a, b), Quiet(b, c)
  PROVE  Quiet(a, c)
BY DEF Quiet, SameCrawl, Grown

\* A warning leaves the crawl alone.
LEMMA Warned ==
  ASSUME NEW r, Live(r), NEW message \in MapMessages, NEW q, q = Warn(r, message)
  PROVE  Quiet(r, q) /\ message \in q.warnings
<1> DEFINE W == r.warnings \cup {message}
<1>0. r \in Runs /\ IsFiniteSet(r.urls)
  BY DEF Live
<1>1. q = [r EXCEPT !.warnings = W]
  BY DEF Warn
<1>2. W \in SUBSET MapMessages
  BY <1>0, Fields
<1>3. r.warnings \subseteq W /\ message \in W
  OBVIOUS
<1> HIDE DEF W
<1>4. [r EXCEPT !.warnings = W] \in Runs
  BY <1>0, <1>2 DEF Runs
<1>5. q.urls = r.urls /\ q.limited = r.limited /\ q.warnings = W
  BY <1>0, <1>1 DEF Runs
<1>6. SameCrawl(r, q)
  BY <1>0, <1>1 DEF Runs, SameCrawl
<1> QED BY <1>0, <1>1, <1>3, <1>4, <1>5, <1>6 DEF Quiet, Live, Grown

\* Adding endpoints leaves the crawl alone.
LEMMA EndpointsAdded ==
  ASSUME NEW r, Live(r), NEW links \in Seq(URLs), NEW q, q = AddEndpoints(r, links)
  PROVE  Quiet(r, q)
<1> DEFINE J == {z \in Runs : Quiet(r, z)}
<1>1. r \in J
  BY DEF Quiet, Live, SameCrawl, Grown
<1>2. ASSUME NEW i \in 1 .. Len(links), NEW a \in J PROVE EndpointStep(0, 0, a, links[i]) \in J
  <2> DEFINE u == Normalize(links[i])
             E == a.endpoints \cup {u}
             b == EndpointStep(0, 0, a, links[i])
  <2>1. CASE b = a
    BY <2>1
  <2>2. CASE b # a
    <3>1. b = [a EXCEPT !.endpoints = E] /\ u # Nowhere
      BY <2>2 DEF EndpointStep
    <3>2. u \in URLs
      BY <3>1, Normalized
    <3>3. a \in Runs /\ Quiet(r, a)
      OBVIOUS
    <3>4. E \in SUBSET URLs
      <4>1. a.endpoints \in SUBSET URLs
        BY <3>3 DEF Runs
      <4> QED BY <3>2, <4>1
    <3> HIDE DEF E, b
    <3>5. [a EXCEPT !.endpoints = E] \in Runs
      BY <3>3, <3>4 DEF Runs
    <3>6. b.urls = a.urls /\ b.limited = a.limited /\ b.warnings = a.warnings
      BY <3>1, <3>3 DEF Runs
    <3>7. SameCrawl(a, b)
      BY <3>1, <3>3 DEF Runs, SameCrawl
    <3>8. Quiet(a, b)
      BY <3>1, <3>3, <3>5, <3>6, <3>7 DEF Quiet, Live, Grown
    <3>9. b \in Runs /\ Quiet(r, b)
      BY <3>1, <3>3, <3>5, <3>8, QuietIsTransitive
    <3> QED BY <3>9 DEF b
  <2> QED BY <2>1, <2>2
<1>3. q = Noting!Loop(0, 0, r, links)
  BY DEF AddEndpoints, Fold, Noting!Loop, EndpointStep
<1>4. Len(links) \in Nat
  OBVIOUS
<1> HIDE DEF J
<1>5. q \in J
  BY <1>1, <1>2, <1>3, <1>4, Noting!LoopKeeps
<1> QED BY <1>5 DEF J

\* Adding scripts to read leaves the crawl alone.
LEMMA ScriptsAdded ==
  ASSUME NEW r, Live(r), NEW scripts \in Seq(SiteScripts), NEW q, q = AddScripts(r, scripts)
  PROVE  Quiet(r, q)
<1> DEFINE J == {z \in Runs : Quiet(r, z)}
<1>1. r \in J
  BY DEF Quiet, Live, SameCrawl, Grown
<1>2. ASSUME NEW i \in 1 .. Len(scripts), NEW a \in J PROVE ScriptStep(0, 0, a, scripts[i]) \in J
  <2> DEFINE s == scripts[i]
             S == a.scripts \cup {s}
             T == Append(a.toRead, s)
             b == ScriptStep(0, 0, a, s)
  <2>1. CASE b = a
    BY <2>1
  <2>2. CASE b # a
    <3>1. b = [a EXCEPT !.scripts = S, !.toRead = T]
      BY <2>2 DEF ScriptStep
    <3>2. s \in SiteScripts
      OBVIOUS
    <3>3. a \in Runs /\ Quiet(r, a)
      OBVIOUS
    <3>4. S \in SUBSET SiteScripts /\ T \in Seq(SiteScripts)
      <4>1. a.scripts \in SUBSET SiteScripts /\ a.toRead \in Seq(SiteScripts)
        BY <3>3 DEF Runs
      <4> QED BY <3>2, <4>1
    <3> HIDE DEF S, T, b
    <3>5. [a EXCEPT !.scripts = S, !.toRead = T] \in Runs
      BY <3>3, <3>4 DEF Runs
    <3>6. b.urls = a.urls /\ b.limited = a.limited /\ b.warnings = a.warnings
      BY <3>1, <3>3 DEF Runs
    <3>7. SameCrawl(a, b)
      BY <3>1, <3>3 DEF Runs, SameCrawl
    <3>8. Quiet(a, b)
      BY <3>1, <3>3, <3>5, <3>6, <3>7 DEF Quiet, Live, Grown
    <3>9. b \in Runs /\ Quiet(r, b)
      BY <3>1, <3>3, <3>5, <3>8, QuietIsTransitive
    <3> QED BY <3>9 DEF b
  <2> QED BY <2>1, <2>2
<1>3. q = Scripting!Loop(0, 0, r, scripts)
  BY DEF AddScripts, Fold, Scripting!Loop, ScriptStep
<1>4. Len(scripts) \in Nat
  OBVIOUS
<1> HIDE DEF J
<1>5. q \in J
  BY <1>1, <1>2, <1>3, <1>4, Scripting!LoopKeeps
<1> QED BY <1>5 DEF J

\* Queueing a sitemap leaves the crawl alone.
LEMMA SitemapEnqueued ==
  ASSUME NEW r, Live(r), NEW x \in URLs, NEW q, q = EnqueueSitemap(r, x)
  PROVE  Quiet(r, q)
<1> DEFINE u == Normalize(x)
           V == r.visited \cup {u}
           Q == Append(r.queue, u)
<1>0. r \in Runs /\ IsFiniteSet(r.urls)
  BY DEF Live
<1>1. CASE q = r
  BY <1>1 DEF Quiet, Live, SameCrawl, Grown
<1>2. CASE q # r
  <2>1. q = [r EXCEPT !.visited = V, !.queue = Q] /\ u # Nowhere
    BY <1>2 DEF EnqueueSitemap
  <2>2. u \in URLs
    BY <2>1, Normalized
  <2>3. V \in SUBSET URLs /\ Q \in Seq(URLs)
    <3>1. r.visited \in SUBSET URLs /\ r.queue \in Seq(URLs)
      BY <1>0 DEF Runs
    <3> QED BY <2>2, <3>1
  <2> HIDE DEF V, Q
  <2>4. [r EXCEPT !.visited = V, !.queue = Q] \in Runs
    BY <1>0, <2>3 DEF Runs
  <2>5. q.urls = r.urls /\ q.limited = r.limited /\ q.warnings = r.warnings
    BY <1>0, <2>1 DEF Runs
  <2>6. SameCrawl(r, q)
    BY <1>0, <2>1 DEF Runs, SameCrawl
  <2> QED BY <1>0, <2>1, <2>4, <2>5, <2>6 DEF Quiet, Live, Grown
<1> QED BY <1>1, <1>2

\* So does queueing one after the other.
LEMMA SitemapsEnqueued ==
  ASSUME NEW r, Live(r), NEW links \in Seq(URLs), NEW q, q = Mapping!Loop(0, 0, r, links)
  PROVE  Quiet(r, q)
<1> DEFINE J == {z \in Runs : Quiet(r, z)}
<1>1. r \in J
  BY DEF Quiet, Live, SameCrawl, Grown
<1>2. ASSUME NEW i \in 1 .. Len(links), NEW a \in J PROVE SitemapStep(0, 0, a, links[i]) \in J
  <2>1. Quiet(r, a) /\ Live(a) /\ links[i] \in URLs
    BY DEF Quiet
  <2>2. Quiet(a, EnqueueSitemap(a, links[i]))
    BY <2>1, SitemapEnqueued
  <2> QED BY <2>1, <2>2, QuietIsTransitive DEF SitemapStep, Quiet, Live
<1>4. Len(links) \in Nat
  OBVIOUS
<1> HIDE DEF J
<1>5. q \in J
  BY <1>1, <1>2, <1>4, Mapping!LoopKeeps
<1> QED BY <1>5 DEF J

\* So does adding a sitemap's URLs.
LEMMA LinksAdded ==
  ASSUME NEW r, Live(r), NEW links \in Seq(URLs), NEW q, q = Gathering!Loop(0, 0, r, links)
  PROVE  Quiet(r, q)
<1> DEFINE J == {z \in Runs : Quiet(r, z)}
<1>1. r \in J
  BY DEF Quiet, Live, SameCrawl, Grown
<1>2. ASSUME NEW i \in 1 .. Len(links), NEW a \in J PROVE AddStep(0, 0, a, links[i]) \in J
  <2>1. Quiet(r, a) /\ Live(a) /\ Normalize(links[i]) \in URLs \cup {Nowhere}
    <3>1. links[i] \in URLs
      OBVIOUS
    <3> QED BY <3>1, Normalized DEF Quiet
  <2>2. Quiet(a, Add(a, Normalize(links[i])))
    BY <2>1, AddedTo DEF Quiet
  <2> QED BY <2>1, <2>2, QuietIsTransitive DEF AddStep, Quiet, Live
<1>4. Len(links) \in Nat
  OBVIOUS
<1> HIDE DEF J
<1>5. q \in J
  BY <1>1, <1>2, <1>4, Gathering!LoopKeeps
<1> QED BY <1>5 DEF J

\* So does consuming a sitemap, read or not.
LEMMA SitemapConsumed ==
  ASSUME job \in Jobs, NEW r, Live(r), NEW u, NEW ok, NEW q, q = ConsumeSitemap(r, u, ok)
  PROVE  Quiet(r, q)
<1>0. r \in Runs /\ IsFiniteSet(r.urls)
  BY DEF Live
<1>1. CASE q = r
  BY <1>1 DEF Quiet, Live, SameCrawl, Grown
<1>2. CASE q = Warn(r, "compressed sitemap skipped")
  BY <1>2, Warned DEF MapMessages
<1>3. CASE ok /\ u \in DOMAIN job.site.sitemaps
  <2> DEFINE k == r.sitemapsRead + 1
             a == [r EXCEPT !.sitemapsRead = k]
             b == Gathering!Loop(0, 0, a, job.site.sitemaps[u].urls)
  <2>1. q = Mapping!Loop(0, 0, b, job.site.sitemaps[u].children)
    BY <1>3 DEF ConsumeSitemap, Fold, Mapping!Loop, Gathering!Loop, SitemapStep, AddStep
  <2>2. job.site.sitemaps[u].urls \in Seq(URLs) /\ job.site.sitemaps[u].children \in Seq(URLs)
    <3>1. IsJob(job)
      BY SiteMapAssumption
    <3> QED BY <1>3, <3>1 DEF IsJob, IsSiteMap
  <2>3. k \in Nat
    BY <1>0 DEF Runs
  <2> HIDE DEF k
  <2>4. a \in Runs
    BY <1>0, <2>3 DEF Runs
  <2>5. a.urls = r.urls /\ a.limited = r.limited /\ a.warnings = r.warnings
    BY <1>0 DEF Runs
  <2>6. SameCrawl(r, a)
    BY <1>0 DEF Runs, SameCrawl
  <2> HIDE DEF a
  <2>7. Quiet(r, a)
    BY <1>0, <2>4, <2>5, <2>6 DEF Quiet, Live, Grown
  <2>8. Quiet(a, b)
    BY <2>2, <2>7, LinksAdded DEF Quiet
  <2> HIDE DEF b
  <2>9. Quiet(b, q)
    BY <2>1, <2>2, <2>8, SitemapsEnqueued DEF Quiet
  <2> QED BY <2>7, <2>8, <2>9, QuietIsTransitive
<1> QED BY <1>1, <1>2, <1>3 DEF ConsumeSitemap

------------------------------------------------------------------------------
(* One page is consumed. F is the line without the level being collected.   *)

\* The link u of a page was taken as far as the page's links are.
Taken(r, u, expand) ==
  \/ u = Nowhere \/ ~ Permitted(u)
  \/ /\ r.limited \/ u \in r.urls
     /\ CutOff(r) \/ (expand => Queued(r, u))

LineKept(F, r) ==
  /\ LineIsPolite(F \o r.next, r) /\ LineIsWhole(F \o r.next, r)
  /\ Expand(r.depth) \/ r.next = <<>>

\* A link that was taken stays taken.
LEMMA TakenStays ==
  ASSUME job \in Jobs, NEW r, NEW q, Live(r), Live(q), Later(r, q), NEW u \in URLs \cup {Nowhere}, NEW expand \in BOOLEAN,
         Taken(r, u, expand)
  PROVE  Taken(q, u, expand)
<1>1. CASE u = Nowhere \/ ~ Permitted(u)
  BY <1>1 DEF Taken
<1>2. CASE ~(u = Nowhere \/ ~ Permitted(u))
  <2>1. (r.limited \/ u \in r.urls) /\ (CutOff(r) \/ (expand => Queued(r, u))) /\ u \in URLs
    BY <1>2 DEF Taken
  <2>2. r.counts[Shape(u)] >= ShapeSampleLimit => q.counts[Shape(u)] >= ShapeSampleLimit
    <3>1. Shape(u) \in Shapes
      BY <2>1 DEF Shapes
    <3>2. r.counts[Shape(u)] \in Nat /\ q.counts[Shape(u)] \in Nat /\ ShapeSampleLimit \in Nat
      BY <3>1, Fields, SiteMapAssumption DEF Live
    <3> QED BY <2>1, <3>1, <3>2 DEF Later
  <2>3. Queued(r, u) => Queued(q, u)
    BY <2>2 DEF Queued, Later
  <2>4. q.limited \/ u \in q.urls
    BY <2>1 DEF Later, Grown
  <2>5. CutOff(r) => CutOff(q)
    BY CutOffStays DEF Later
  <2> QED BY <2>1, <2>3, <2>4, <2>5 DEF Taken
<1> QED BY <1>1, <1>2

\* What leaves the crawl alone keeps its line.
LEMMA QuietKeepsLine ==
  ASSUME job \in Jobs, NEW r, NEW q, Live(r), Quiet(r, q), NEW F, LineKept(F, r)
  PROVE  Later(r, q) /\ q.pages = r.pages /\ q.prints = r.prints /\ LineKept(F, q)
<1>1. Live(q) /\ SameCrawl(r, q) /\ Grown(r, q)
  BY DEF Quiet
<1>2. Later(r, q)
  BY <1>1, SameIsLater
<1>3. q.next = r.next /\ q.depth = r.depth /\ q.pages = r.pages /\ q.prints = r.prints
  BY <1>1 DEF SameCrawl
<1> DEFINE line == F \o r.next
<1>4. LineIsPolite(line, r) /\ LineIsWhole(line, r)
  BY DEF LineKept
<1> HIDE DEF line
<1>5. LineIsPolite(line, q) /\ LineIsWhole(line, q)
  BY <1>1, <1>4, LineStays
<1> QED BY <1>2, <1>3, <1>5 DEF LineKept, line

\* One link: it is added to the map and, when the page is expanded, queued.
LEMMA LinkFollowed ==
  ASSUME job \in Jobs, NEW r, Live(r), NEW F \in Seq(URLs), F # <<>>, LineKept(F, r),
         NEW expand \in BOOLEAN, expand => Expand(r.depth), NEW x \in URLs,
         NEW q, q = FollowStep(expand, 0, r, x)
  PROVE  /\ Live(q) /\ Later(r, q) /\ q.pages = r.pages /\ q.prints = r.prints /\ LineKept(F, q)
         /\ Taken(q, Normalize(x), expand)
<1> DEFINE u == Normalize(x)
           a == Add(r, u)
<1>1. u \in URLs \cup {Nowhere}
  BY Normalized
<1> HIDE DEF u
<1>2. Quiet(r, a) /\ (u # Nowhere /\ Permitted(u) => u \in a.urls \/ a.limited)
  BY <1>1, AddedTo DEF Quiet
<1>3. q = IF expand THEN Enqueue(a, u) ELSE a
  BY DEF FollowStep, u
<1> HIDE DEF a
<1>4. Later(r, a) /\ a.pages = r.pages /\ a.prints = r.prints /\ LineKept(F, a) /\ Live(a) /\ a.depth = r.depth
  BY <1>2, QuietKeepsLine DEF Quiet, SameCrawl
<1>5. Taken(a, u, FALSE)
  BY <1>2 DEF Taken
<1>6. CASE ~expand
  BY <1>3, <1>4, <1>5, <1>6 DEF u
<1>7. CASE expand
  <2>1. LineIsPolite(F \o a.next, a) /\ LineIsWhole(F \o a.next, a)
    BY <1>4 DEF LineKept
  <2>2. q = Enqueue(a, u)
    BY <1>3, <1>7
  <2>3. /\ Live(q) /\ Later(a, q) /\ q.pages = a.pages /\ q.prints = a.prints
        /\ LineIsPolite(F \o q.next, q) /\ LineIsWhole(F \o q.next, q) /\ Queued(q, u)
    BY <1>4, <2>1, <2>2, Enqueued DEF u
  <2>4. q.depth = a.depth
    BY <2>3 DEF Later
  <2>5. LineKept(F, q)
    BY <1>4, <1>7, <2>3, <2>4 DEF LineKept
  <2>6. Later(r, q)
    BY <1>4, <2>3, LaterIsTransitive
  <2>7. Taken(q, u, FALSE)
    BY <1>1, <1>4, <1>5, <2>3, TakenStays
  <2>8. Taken(q, u, expand)
    BY <2>3, <2>7 DEF Taken
  <2> QED BY <1>4, <2>3, <2>5, <2>6, <2>8 DEF u
<1> QED BY <1>6, <1>7

\* Following links keeps the line, and every one of them is taken.
LEMMA LinksFollowed ==
  ASSUME job \in Jobs, NEW r, Live(r), NEW F \in Seq(URLs), F # <<>>, LineKept(F, r),
         NEW expand \in BOOLEAN, expand => Expand(r.depth), NEW links \in Seq(URLs),
         NEW q, q = Follow(r, links, expand)
  PROVE  /\ Live(q) /\ Later(r, q) /\ q.pages = r.pages /\ q.prints = r.prints /\ LineKept(F, q)
         /\ \A x \in ToSet(links) : Taken(q, Normalize(x), expand)
<1> DEFINE Kept(z) == Live(z) /\ Later(r, z) /\ z.pages = r.pages /\ z.prints = r.prints /\ LineKept(F, z)
           At(n, z) == Kept(z) /\ \A i \in 1 .. n : Taken(z, Normalize(links[i]), expand)
           I == {y \in Nat \X Runs : At(y[1], y[2])}
<1>0. Len(links) \in Nat /\ DOMAIN links = 1 .. Len(links) /\ \A i \in 1 .. Len(links) : links[i] \in URLs
  OBVIOUS
<1>1. Kept(r)
  <2>1. Later(r, r)
    BY SameIsLater DEF SameCrawl, Grown
  <2> QED BY <2>1
<1>2. <<0, r>> \in I
  <2>1. At(0, r)
    BY <1>1
  <2> HIDE DEF At
  <2>2. <<0, r>> \in Nat \X Runs
    BY DEF Live
  <2>3. \A y : y = <<0, r>> => At(y[1], y[2])
    BY <2>1
  <2> QED BY <2>2, <2>3
<1>3. ASSUME NEW i \in 1 .. Len(links), NEW a, <<i - 1, a>> \in I
      PROVE  <<i, FollowStep(expand, 0, a, links[i])>> \in I
  <2> DEFINE b == FollowStep(expand, 0, a, links[i])
             x == links[i]
  <2>0. x \in URLs /\ i \in Nat /\ i - 1 \in Nat
    BY <1>0
  <2>1. At(i - 1, a)
    <3> HIDE DEF At
    <3>1. \A y \in I : At(y[1], y[2])
      BY Zenon
    <3> HIDE DEF I
    <3>2. At(<<i - 1, a>>[1], <<i - 1, a>>[2])
      BY <1>3, <3>1, Zenon
    <3> QED BY <3>2
  <2>2. Live(a) /\ Later(r, a) /\ LineKept(F, a) /\ a.pages = r.pages /\ a.prints = r.prints
    BY <2>1
  <2>3. expand => Expand(a.depth)
    BY <2>2 DEF Later
  <2>4. b = FollowStep(expand, 0, a, x)
    OBVIOUS
  <2> HIDE DEF b, x
  <2>5. /\ Live(b) /\ Later(a, b) /\ b.pages = a.pages /\ b.prints = a.prints /\ LineKept(F, b)
        /\ Taken(b, Normalize(x), expand)
    BY <2>0, <2>2, <2>3, <2>4, LinkFollowed
  <2>6. Kept(b)
    BY <2>2, <2>5, LaterIsTransitive
  <2>7. \A k \in 1 .. i : Taken(b, Normalize(links[k]), expand)
    <3> SUFFICES ASSUME NEW k \in 1 .. i PROVE Taken(b, Normalize(links[k]), expand)
      OBVIOUS
    <3>1. CASE k = i
      BY <2>5, <3>1 DEF x
    <3>2. CASE k # i
      <4>1. k \in 1 .. i - 1 /\ k \in 1 .. Len(links)
        BY <1>0, <3>2
      <4>2. Taken(a, Normalize(links[k]), expand)
        BY <2>1, <4>1
      <4>3. Normalize(links[k]) \in URLs \cup {Nowhere}
        BY <1>0, <4>1, Normalized
      <4> QED BY <2>2, <2>5, <4>2, <4>3, TakenStays
    <3> QED BY <3>1, <3>2
  <2>8. At(i, b) /\ b \in Runs
    BY <2>5, <2>6, <2>7 DEF Live
  <2> HIDE DEF At
  <2>9. <<i, b>> \in Nat \X Runs
    BY <2>0, <2>8
  <2>10. \A y : y = <<i, b>> => At(y[1], y[2])
    BY <2>8
  <2>11. <<i, b>> \in I
    BY <2>9, <2>10
  <2> QED BY <2>11 DEF b
<1>4. q = Following!Loop(expand, 0, r, links)
  BY DEF Follow, Fold, Following!Loop, FollowStep
<1> HIDE DEF I
<1>5. <<Len(links), q>> \in I
  BY <1>0, <1>2, <1>3, <1>4, Following!LoopKeepsAt
<1>6. At(Len(links), q)
  <2> HIDE DEF At
  <2>1. \A y \in I : At(y[1], y[2])
    BY Zenon DEF I
  <2>2. At(<<Len(links), q>>[1], <<Len(links), q>>[2])
    BY <1>5, <2>1, Zenon
  <2> QED BY <2>2
<1>7. \A x \in ToSet(links) : \E i \in 1 .. Len(links) : x = links[i]
  BY <1>0 DEF ToSet
<1> QED BY <1>6, <1>7

Sound(F, n, r) == LineKept(F, r) /\ PagesAreKept(F, n, r) /\ \A p \in ToSet(r.pages) : PageIsWhole(r, p)

NewPage(r, q, p) ==
  /\ Live(q) /\ Grown(r, q) /\ q.pages = Append(r.pages, p)
  /\ q.rules = r.rules /\ q.level = r.level /\ q.next = r.next /\ q.depth = r.depth
  /\ q.queued = r.queued /\ q.counts = r.counts

PrintKept(r, q, p) ==
  \/ q.prints = r.prints
  \/ q.prints = r.prints \cup {job.site.pages[p.url].print} /\ job.site.pages[p.url].print # NoPrint

\* The page is counted; on the first level its own URL is reported.
LEMMA PageOpened ==
  ASSUME NEW r, Live(r), NEW p \in PageRecords, NEW counted, NEW q, NEW final \in URLs \cup {Nowhere},
         counted = [r EXCEPT !.pages = Append(@, p)],
         q = IF r.depth = 0 THEN Add([counted EXCEPT !.pageRead = TRUE], final) ELSE counted
  PROVE  NewPage(r, q, p) /\ q.prints = r.prints
<1> DEFINE ps == Append(r.pages, p)
           read == [counted EXCEPT !.pageRead = TRUE]
<1>0. r \in Runs /\ IsFiniteSet(r.urls)
  BY DEF Live
<1>1. ps \in Seq(PageRecords)
  <2>1. r.pages \in Seq(PageRecords)
    BY <1>0, Fields
  <2> QED BY <2>1, Appended
<1>2. counted = [r EXCEPT !.pages = ps]
  OBVIOUS
<1> HIDE DEF ps
<1>3. counted \in Runs
  <2>1. [r EXCEPT !.pages = ps] \in Runs
    BY <1>0, <1>1 DEF Runs
  <2> QED BY <1>2, <2>1
<1>4. /\ counted.pages = ps /\ counted.urls = r.urls /\ counted.limited = r.limited /\ counted.warnings = r.warnings
      /\ counted.prints = r.prints
  BY <1>0, <1>2 DEF Runs
<1>5. /\ counted.rules = r.rules /\ counted.level = r.level /\ counted.next = r.next /\ counted.depth = r.depth
      /\ counted.queued = r.queued /\ counted.counts = r.counts
  BY <1>0, <1>2 DEF Runs
<1>6. NewPage(r, counted, p)
  <2> HIDE DEF read
  <2>1. Live(counted)
    BY <1>0, <1>3, <1>4 DEF Live
  <2>2. Grown(r, counted)
    BY <1>4 DEF Grown
  <2>3. counted.pages = Append(r.pages, p)
    BY <1>4 DEF ps
  <2> QED BY <1>5, <2>1, <2>2, <2>3 DEF NewPage
<1>7. read \in Runs
  BY <1>3, ZenonT(40) DEF Runs
<1>8. read.urls = counted.urls /\ read.limited = counted.limited /\ read.warnings = counted.warnings
  BY <1>3 DEF Runs
<1>9. SameCrawl(counted, read)
  BY <1>3 DEF Runs, SameCrawl
<1> HIDE DEF read
<1>10. Quiet(counted, read)
  BY <1>6, <1>7, <1>8, <1>9 DEF Quiet, Live, Grown, NewPage
<1>11. Quiet(read, Add(read, final))
  BY <1>10, AddedTo DEF Quiet
<1>12. Quiet(counted, Add(read, final))
  BY <1>10, <1>11, QuietIsTransitive
<1>13. CASE r.depth = 0
  <2>1. q = Add(read, final)
    BY <1>13 DEF read
  <2>2. Quiet(counted, q)
    BY <1>12, <2>1
  <2>3. Live(q) /\ SameCrawl(counted, q) /\ Grown(counted, q)
    BY <2>2 DEF Quiet
  <2> QED BY <1>4, <1>6, <2>3 DEF NewPage, SameCrawl, Grown
<1>14. CASE r.depth # 0
  BY <1>4, <1>6, <1>14
<1> QED BY <1>13, <1>14

\* A page and its print are recorded.
LEMMA PageRecorded ==
  ASSUME job \in Jobs, NEW r, Live(r), NEW F \in Seq(URLs), NEW n \in Nat, n + 1 \in 1 .. Len(F), Sound(F, n, r),
         NEW p \in PageRecords, p.url = F[n + 1], p.way # "failed", p.url \in DOMAIN job.site.pages,
         NEW q, NewPage(r, q, p), PrintKept(r, q, p)
  PROVE  /\ Later(r, q) /\ LineKept(F, q) /\ PagesAreKept(F, n + 1, q)
         /\ \A x \in ToSet(r.pages) : PageIsWhole(q, x)
         /\ ToSet(q.pages) = ToSet(r.pages) \cup {p}
<1>1. ToSet(q.pages) = ToSet(r.pages) \cup {p}
  <2>1. r.pages \in Seq(PageRecords)
    BY Fields DEF Live
  <2>2. ToSet(Append(r.pages, p)) = ToSet(r.pages) \cup {p}
    BY <2>1, Appended
  <2>3. q.pages = Append(r.pages, p)
    BY DEF NewPage
  <2> QED BY <2>2, <2>3, Zenon
<1>2. Later(r, q)
  <2>1. \A v \in URLs : r.counts[Shape(v)] \in Nat
    <3>1. \A v \in URLs : Shape(v) \in Shapes
      BY DEF Shapes
    <3> QED BY <3>1, Fields DEF Live
  <2>2. \A v \in URLs : r.counts[Shape(v)] <= q.counts[Shape(v)]
    BY <2>1 DEF NewPage
  <2> QED BY <1>1, <2>2 DEF Later, NewPage
<1>3. LineKept(F, q)
  <2> DEFINE line == F \o r.next
  <2>1. LineIsPolite(line, r) /\ LineIsWhole(line, r) /\ (Expand(r.depth) \/ r.next = <<>>)
    BY DEF Sound, LineKept
  <2>2. q.next = r.next
    BY DEF NewPage
  <2> HIDE DEF line
  <2>3. LineIsPolite(line, q)
    BY <2>1 DEF LineIsPolite, NewPage
  <2>4. LineIsWhole(line, q)
    <3>1. CutOff(r) => CutOff(q)
      BY CutOffStays DEF NewPage
    <3> QED BY <2>1, <3>1 DEF LineIsWhole, NewPage
  <2> QED BY <2>1, <2>2, <2>3, <2>4 DEF LineKept, NewPage, line
<1>4. PagesAreKept(F, n + 1, q)
  <2>1. /\ \A x \in ToSet(r.pages) : x.way # "failed" /\ x.url \in DOMAIN job.site.pages /\ \E i \in 1 .. n : F[i] = x.url
        /\ \A print \in r.prints : print # NoPrint /\ \E x \in ToSet(r.pages) : job.site.pages[x.url].print = print
    BY DEF Sound, PagesAreKept
  <2>2. \A i \in 1 .. n : i \in 1 .. n + 1
    OBVIOUS
  <2>3. n + 1 \in 1 .. n + 1
    OBVIOUS
  <2>4. \A x \in ToSet(q.pages) : x.way # "failed" /\ x.url \in DOMAIN job.site.pages /\ \E i \in 1 .. n + 1 : F[i] = x.url
    BY <1>1, <2>1, <2>2, <2>3
  <2>5. \A print \in q.prints : print # NoPrint /\ \E x \in ToSet(q.pages) : job.site.pages[x.url].print = print
    BY <1>1, <2>1 DEF PrintKept
  <2> QED BY <2>4, <2>5 DEF PagesAreKept
<1>5. \A x \in ToSet(r.pages) : PageIsWhole(q, x)
  <2> SUFFICES ASSUME NEW x \in ToSet(r.pages) PROVE PageIsWhole(q, x)
    OBVIOUS
  <2>1. PageIsWhole(r, x) /\ x.url \in DOMAIN job.site.pages
    BY DEF Sound, PagesAreKept
  <2> QED BY <1>2, <2>1, PageStays DEF NewPage
<1> QED BY <1>1, <1>2, <1>3, <1>4, <1>5

\* A page found to repeat another one looks like one that was read.
LEMMA RepeatLooksLikeAnother ==
  ASSUME NEW r, NEW F \in Seq(URLs), NEW n \in Nat, n + 1 \in 1 .. Len(F), r.next \in Seq(URLs),
         LineIsPolite(F \o r.next, r), PagesAreKept(F, n, r),
         NEW p, p.url = F[n + 1], job.site.pages[p.url].print # NoPrint, Seen(r.prints, job.site.pages[p.url].print),
         NEW q, ToSet(r.pages) \subseteq ToSet(q.pages)
  PROVE  LooksLikeAnother(q, p)
<1>1. PICK known \in r.prints : SimhashDistance(known, job.site.pages[p.url].print) <= SimilarityDistance
  BY DEF Seen
<1>2. PICK x \in ToSet(r.pages) : known # NoPrint /\ job.site.pages[x.url].print = known
  BY <1>1 DEF PagesAreKept
<1>3. PICK i \in 1 .. n : F[i] = x.url
  BY <1>2 DEF PagesAreKept
<1>4. x # p
  <2> SUFFICES ASSUME x = p PROVE FALSE
    OBVIOUS
  <2> DEFINE line == F \o r.next
  <2>1. Len(F) \in Nat /\ Len(r.next) \in Nat /\ i \in 1 .. Len(F) /\ i # n + 1 /\ i <= Len(F) /\ n + 1 <= Len(F)
    OBVIOUS
  <2>2. line[i] = F[i] /\ line[n + 1] = F[n + 1] /\ i \in DOMAIN line /\ n + 1 \in DOMAIN line
    <3>1. /\ Len(line) = Len(F) + Len(r.next) /\ line \in Seq(URLs)
          /\ \A k \in 1 .. Len(F) + Len(r.next) : line[k] = IF k <= Len(F) THEN F[k] ELSE r.next[k - Len(F)]
      BY ConcatProperties
    <3> HIDE DEF line
    <3>2. DOMAIN line = 1 .. Len(F) + Len(r.next)
      BY <3>1
    <3>3. i \in 1 .. Len(F) + Len(r.next) /\ n + 1 \in 1 .. Len(F) + Len(r.next)
      BY <2>1
    <3> QED BY <2>1, <3>1, <3>2, <3>3
  <2>3. \A a, b \in DOMAIN line : Of[line[a]].canon = Of[line[b]].canon => a = b
    BY DEF LineIsPolite
  <2> HIDE DEF line
  <2> QED BY <1>3, <2>1, <2>2, <2>3
<1> QED BY <1>1, <1>2, <1>4 DEF LooksLikeAnother

\* Consuming one page of a batch keeps the line sound, with one page more read.
LEMMA PageConsumed ==
  ASSUME job \in Jobs, NEW r, Live(r), NEW F \in Seq(URLs), NEW n \in Nat, n + 1 \in 1 .. Len(F), Sound(F, n, r),
         NEW way \in Ways, way \in {"explored", "rendered", "plain"} => F[n + 1] \in DOMAIN job.site.pages, way # "saturated",
         NEW q, q = Consume(r, F[n + 1], way)
  PROVE  Live(q) /\ Later(r, q) /\ Sound(F, n + 1, q)
<1> DEFINE u == F[n + 1]
           page == job.site.pages[u]
           final == IF way = "failed" THEN Nowhere ELSE Normalize(page.final)
           p == [url |-> u, way |-> way, depth |-> r.depth]
           counted == [r EXCEPT !.pages = Append(@, p)]
           opened == IF r.depth = 0 THEN Add([counted EXCEPT !.pageRead = TRUE], final) ELSE counted
           compared == way # "failed" /\ page.html /\ page.print # NoPrint
           duplicate == compared /\ Seen(r.prints, page.print)
           prints == IF compared /\ ~duplicate THEN opened.prints \cup {page.print} ELSE opened.prints
           noted == [opened EXCEPT !.prints = prints]
           expand == Expand(r.depth) /\ ~duplicate
           once == Follow(noted, LinksOf(u, way), expand)
           twice == Follow(once, ExploredOf(u, way), expand)
           scripted == AddScripts(twice, page.scripts)
<1>0. r \in Runs /\ u \in URLs /\ F # <<>>
  BY DEF Live
<1>1. q = IF final = Nowhere THEN IF r.depth = 0 THEN Warn(r, "start page") ELSE r
          ELSE IF ~page.html THEN opened
          ELSE AddEndpoints(scripted, page.endpoints)
  BY DEF Consume
<1>2. CASE final = Nowhere
  <2>1. Quiet(r, q)
    <3>1. Quiet(r, Warn(r, "start page"))
      BY Warned DEF MapMessages
    <3>2. Quiet(r, r)
      BY DEF Quiet, SameCrawl, Grown
    <3> QED BY <1>1, <1>2, <3>1, <3>2
  <2>2. Later(r, q) /\ q.pages = r.pages /\ q.prints = r.prints /\ LineKept(F, q) /\ Live(q)
    BY <2>1, QuietKeepsLine DEF Sound, Quiet
  <2>3. PagesAreKept(F, n + 1, q)
    <3>1. \A i \in 1 .. n : i \in 1 .. n + 1
      OBVIOUS
    <3> QED BY <2>2, <3>1 DEF PagesAreKept, Sound
  <2>4. \A x \in ToSet(q.pages) : PageIsWhole(q, x)
    <3> SUFFICES ASSUME NEW x \in ToSet(r.pages) PROVE PageIsWhole(q, x)
      BY <2>2
    <3>1. PageIsWhole(r, x) /\ x.url \in DOMAIN job.site.pages
      BY DEF Sound, PagesAreKept
    <3> QED BY <2>2, <3>1, PageStays
  <2> QED BY <2>2, <2>3, <2>4 DEF Sound
<1>3. CASE final # Nowhere
  <2>1. way # "failed" /\ u \in DOMAIN job.site.pages
    BY <1>3 DEF Ways
  <2>2. /\ page.html \in BOOLEAN /\ page.print \in SUBSET Nat /\ page.final \in URLs \cup {Nowhere}
        /\ LinksOf(u, way) \in Seq(URLs) /\ ExploredOf(u, way) \in Seq(URLs)
    BY <2>1, PageLinks
  <2>3. page.scripts \in Seq(SiteScripts) /\ page.endpoints \in Seq(URLs)
    <3>1. IsJob(job)
      BY SiteMapAssumption
    <3>2. IsSitePage(page)
      BY <2>1, <3>1 DEF IsJob
    <3>3. ToSet(page.scripts) \subseteq SiteScripts
      BY <2>1 DEF SiteScripts
    <3> HIDE DEF page
    <3>4. page.scripts \in Seq(STRING) /\ page.endpoints \in Seq(URLs)
      BY <3>2 DEF IsSitePage
    <3>5. \A i \in 1 .. Len(page.scripts) : page.scripts[i] \in SiteScripts
      BY <3>3, <3>4 DEF ToSet
    <3> QED BY <3>4, <3>5
  <2>4. final \in URLs \cup {Nowhere}
    BY <2>2, Normalized
  <2>5. p \in PageRecords
    BY <1>0, Fields DEF PageRecords
  <2>6. p.url = u /\ p.way = way /\ p.depth = r.depth
    OBVIOUS
  <2>7. NewPage(r, opened, p) /\ opened.prints = r.prints
    <3>1. counted = [r EXCEPT !.pages = Append(@, p)]
      OBVIOUS
    <3>2. opened = IF r.depth = 0 THEN Add([counted EXCEPT !.pageRead = TRUE], final) ELSE counted
      OBVIOUS
    <3> HIDE DEF u, page, final, p, counted, opened
    <3> QED BY <2>4, <2>5, <3>1, <3>2, PageOpened, ZenonT(40)
  <2>71. p.url = F[n + 1] /\ p.way # "failed" /\ p.url \in DOMAIN job.site.pages
    BY <2>1, <2>6
  <2> HIDE DEF p, opened, final
  <2>8. CASE ~page.html
    <3>1. q = opened
      BY <1>1, <1>3, <2>8
    <3>2. /\ Later(r, q) /\ LineKept(F, q) /\ PagesAreKept(F, n + 1, q)
          /\ \A x \in ToSet(r.pages) : PageIsWhole(q, x)
          /\ ToSet(q.pages) = ToSet(r.pages) \cup {p}
      <4>1. NewPage(r, q, p) /\ PrintKept(r, q, p)
        BY <2>7, <3>1 DEF PrintKept
      <4> HIDE DEF u, page, compared, duplicate, expand
      <4> QED BY <2>5, <2>71, <4>1, PageRecorded
    <3>3. PageIsWhole(q, p)
      BY <2>6, <2>8 DEF PageIsWhole, PageIsListed, PageIsFollowed
    <3> QED BY <2>7, <3>1, <3>2, <3>3 DEF Sound, NewPage
  <2>9. CASE page.html
    <3>1. q = AddEndpoints(scripted, page.endpoints)
      BY <1>1, <1>3, <2>9
    <3>2. NewPage(r, noted, p) /\ noted.prints = prints
      <4>0. opened \in Runs /\ IsFiniteSet(opened.urls)
        BY <2>7 DEF NewPage, Live
      <4>1. prints \in SUBSET SUBSET Nat
        <5>1. opened.prints \in SUBSET SUBSET Nat
          BY <4>0, Fields
        <5> HIDE DEF compared, duplicate, page
        <5>2. prints = opened.prints \cup {page.print} \/ prints = opened.prints
          OBVIOUS
        <5> QED BY <2>2, <5>1, <5>2
      <4> HIDE DEF prints
      <4>2. noted \in Runs
        BY <4>0, <4>1 DEF Runs
      <4>3. /\ noted.urls = opened.urls /\ noted.limited = opened.limited /\ noted.warnings = opened.warnings
            /\ noted.pages = opened.pages /\ noted.prints = prints
        BY <4>0 DEF Runs
      <4>4. /\ noted.rules = opened.rules /\ noted.level = opened.level /\ noted.next = opened.next
            /\ noted.depth = opened.depth /\ noted.queued = opened.queued /\ noted.counts = opened.counts
        BY <4>0 DEF Runs
      <4> HIDE DEF noted
      <4> QED BY <2>7, <4>0, <4>2, <4>3, <4>4 DEF NewPage, Live, Grown
    <3>3. PrintKept(r, noted, p)
      <4>1. prints = opened.prints \/ (prints = opened.prints \cup {page.print} /\ compared)
        <5> HIDE DEF compared, duplicate, page
        <5> QED OBVIOUS
      <4> HIDE DEF prints, noted
      <4> QED BY <2>6, <2>7, <3>2, <4>1 DEF PrintKept
    <3> HIDE DEF noted, prints
    <3>4. /\ Later(r, noted) /\ LineKept(F, noted) /\ PagesAreKept(F, n + 1, noted)
          /\ \A x \in ToSet(r.pages) : PageIsWhole(noted, x)
          /\ ToSet(noted.pages) = ToSet(r.pages) \cup {p}
      <4> HIDE DEF u, page, compared, duplicate, expand, once, twice, scripted
      <4> QED BY <2>5, <2>71, <3>2, <3>3, PageRecorded
    <3>5. Live(noted) /\ noted.depth = r.depth
      BY <3>2 DEF NewPage
    <3>6. expand \in BOOLEAN /\ (expand => Expand(r.depth))
      BY DEF Expand
    <3> DEFINE e == expand
    <3>7. e \in BOOLEAN /\ (e => Expand(r.depth)) /\ e = expand
      BY <3>6
    <3> HIDE DEF e
    <3>8. once = Follow(noted, LinksOf(u, way), e) /\ twice = Follow(once, ExploredOf(u, way), e)
      BY <3>7
    <3> HIDE DEF once, twice
    <3>9. /\ Live(once) /\ Later(noted, once) /\ once.pages = noted.pages /\ once.prints = noted.prints /\ LineKept(F, once)
          /\ \A x \in ToSet(LinksOf(u, way)) : Taken(once, Normalize(x), e)
      <4> DEFINE links == LinksOf(u, way)
      <4>1. links \in Seq(URLs) /\ once = Follow(noted, links, e) /\ F # <<>> /\ (e => Expand(noted.depth))
        BY <1>0, <2>2, <3>5, <3>7, <3>8
      <4> HIDE DEF links, u, page, compared, duplicate, expand
      <4>2. /\ Live(once) /\ Later(noted, once) /\ once.pages = noted.pages /\ once.prints = noted.prints /\ LineKept(F, once)
            /\ \A x \in ToSet(links) : Taken(once, Normalize(x), e)
        BY <3>4, <3>5, <3>7, <4>1, LinksFollowed
      <4> QED BY <4>2 DEF links
    <3>10. once.depth = r.depth
      BY <3>5, <3>9 DEF Later
    <3>11. /\ Live(twice) /\ Later(once, twice) /\ twice.pages = once.pages /\ twice.prints = once.prints /\ LineKept(F, twice)
           /\ \A x \in ToSet(ExploredOf(u, way)) : Taken(twice, Normalize(x), e)
      <4> DEFINE links == ExploredOf(u, way)
      <4>1. links \in Seq(URLs) /\ twice = Follow(once, links, e) /\ F # <<>> /\ (e => Expand(once.depth))
        BY <1>0, <2>2, <3>7, <3>8, <3>10
      <4> HIDE DEF links, u, page, compared, duplicate, expand
      <4>2. /\ Live(twice) /\ Later(once, twice) /\ twice.pages = once.pages /\ twice.prints = once.prints /\ LineKept(F, twice)
            /\ \A x \in ToSet(links) : Taken(twice, Normalize(x), e)
        BY <3>7, <3>9, <4>1, LinksFollowed
      <4> QED BY <4>2 DEF links
    <3>12. Quiet(twice, scripted)
      BY <2>3, <3>11, ScriptsAdded
    <3> HIDE DEF scripted
    <3>13. Quiet(twice, q)
      BY <2>3, <3>1, <3>12, EndpointsAdded, QuietIsTransitive DEF Quiet
    <3>14. Live(q) /\ Later(twice, q) /\ q.pages = twice.pages /\ q.prints = twice.prints /\ LineKept(F, q)
      BY <3>11, <3>13, QuietKeepsLine DEF Quiet
    <3>15. Later(once, q) /\ Later(noted, q) /\ Later(r, q)
      BY <3>2, <3>4, <3>9, <3>11, <3>14, LaterIsTransitive DEF NewPage
    <3>16. q.pages = noted.pages /\ q.prints = noted.prints
      BY <3>9, <3>11, <3>14
    <3>17. PagesAreKept(F, n + 1, q)
      BY <3>4, <3>16 DEF PagesAreKept
    <3>18. \A x \in ToSet(r.pages) : PageIsWhole(q, x)
      <4> SUFFICES ASSUME NEW x \in ToSet(r.pages) PROVE PageIsWhole(q, x)
        OBVIOUS
      <4>1. PageIsWhole(noted, x) /\ x.url \in DOMAIN job.site.pages
        BY <3>4 DEF Sound, PagesAreKept
      <4> QED BY <3>5, <3>14, <3>15, <4>1, PageStays
    <3>19. \A v \in Offered(p) : Taken(q, v, e)
      <4> SUFFICES ASSUME NEW v \in Offered(p) PROVE Taken(q, v, e)
        OBVIOUS
      <4>1. PICK x \in ToSet(LinksOf(u, way)) \cup ToSet(ExploredOf(u, way)) : v = Normalize(x)
        BY <2>1, <2>6, OfferedIsRead
      <4>2. v \in URLs \cup {Nowhere}
        BY <2>1, <2>6, OfferedURLs
      <4>3. CASE x \in ToSet(LinksOf(u, way))
        <5>1. Taken(once, v, e)
          BY <3>9, <4>1, <4>3
        <5> QED BY <3>7, <3>9, <3>14, <3>15, <4>2, <5>1, TakenStays
      <4>4. CASE x \in ToSet(ExploredOf(u, way))
        <5>1. Taken(twice, v, e)
          BY <3>11, <4>1, <4>4
        <5> QED BY <3>7, <3>11, <3>14, <4>2, <5>1, TakenStays
      <4> QED BY <4>1, <4>3, <4>4
    <3>200. PageIsListed(q, p)
      BY <3>19 DEF Taken, PageIsListed
    <3>20. PageIsWhole(q, p)
      <4> SUFFICES ASSUME ~CutOff(q), NEW v \in Offered(p), v # Nowhere, Permitted(v), Expand(p.depth)
                   PROVE  \/ v \in q.queued \/ q.counts[Shape(v)] >= ShapeSampleLimit
                          \/ LooksLikeAnother(q, p)
        BY <3>200 DEF PageIsWhole, PageIsFollowed
      <4>1. e => Queued(q, v)
        BY <3>19 DEF Taken
      <4>2. CASE e
        BY <4>1, <4>2 DEF Queued
      <4>3. CASE ~e
        <5>1. duplicate
          BY <2>6, <3>7, <4>3
        <5>2. duplicate => page.print # NoPrint /\ Seen(r.prints, page.print)
          OBVIOUS
        <5> HIDE DEF duplicate
        <5>3. duplicate => LooksLikeAnother(q, p)
          <6>1. r.next \in Seq(URLs) /\ LineIsPolite(F \o r.next, r) /\ PagesAreKept(F, n, r)
            BY <1>0, Fields DEF Sound, LineKept
          <6>2. ToSet(r.pages) \subseteq ToSet(q.pages)
            BY <3>4, <3>16
          <6> QED BY <2>6, <5>2, <6>1, <6>2, RepeatLooksLikeAnother
        <5> QED BY <5>1, <5>3
      <4> QED BY <4>2, <4>3
    <3>21. \A x \in ToSet(q.pages) : PageIsWhole(q, x)
      BY <3>4, <3>16, <3>18, <3>20
    <3> QED BY <3>14, <3>15, <3>17, <3>21 DEF Sound
  <2> QED BY <2>2, <2>8, <2>9
<1> QED BY <1>2, <1>3

\* So does consuming a batch in order.
LEMMA BatchConsumed ==
  ASSUME job \in Jobs, NEW r, Live(r), NEW F \in Seq(URLs), NEW m \in Nat, NEW size \in Nat, m + size <= Len(F), Sound(F, m, r),
         NEW batch, \A i \in 1 .. size : batch[i] = F[m + i],
         NEW ways \in [1 .. size -> Ways],
         \A i \in 1 .. size : /\ ways[i] \in {"explored", "rendered", "plain"} => batch[i] \in DOMAIN job.site.pages
                              /\ ways[i] # "saturated",
         NEW q, q = Batching!Loop(batch, ways, r, [i \in 1 .. size |-> i])
  PROVE  Live(q) /\ Later(r, q) /\ Sound(F, m + size, q)
<1> DEFINE At(n, z) == Live(z) /\ Later(r, z) /\ Sound(F, m + n, z)
           I == {y \in Nat \X Runs : At(y[1], y[2])}
           order == [i \in 1 .. size |-> i]
<1>0. Len(order) = size /\ (\A i \in 1 .. size : order[i] = i) /\ Len(F) \in Nat
  <2>1. order \in [1 .. size -> Nat]
    OBVIOUS
  <2> QED BY <2>1
<1> HIDE DEF order
<1>1. <<0, r>> \in I
  <2>1. Later(r, r)
    BY SameIsLater DEF SameCrawl, Grown
  <2>2. At(0, r)
    BY <2>1
  <2> HIDE DEF At
  <2>3. <<0, r>> \in Nat \X Runs
    BY DEF Live
  <2>4. \A y : y = <<0, r>> => At(y[1], y[2])
    BY <2>2
  <2> QED BY <2>3, <2>4
<1>2. ASSUME NEW i \in 1 .. size, NEW a, <<i - 1, a>> \in I
      PROVE  <<i, BatchStep(batch, ways, a, order[i])>> \in I
  <2> DEFINE b == BatchStep(batch, ways, a, order[i])
             n == m + (i - 1)
             way == ways[i]
  <2>0. i \in Nat /\ n \in Nat /\ n + 1 = m + i /\ n + 1 \in 1 .. Len(F) /\ batch[i] = F[n + 1]
    <3>1. m + i = n + 1
      OBVIOUS
    <3> QED BY <1>0, <3>1
  <2>1. At(i - 1, a)
    <3> HIDE DEF At
    <3>1. \A y \in I : At(y[1], y[2])
      BY Zenon
    <3> HIDE DEF I
    <3>2. At(<<i - 1, a>>[1], <<i - 1, a>>[2])
      BY <1>2, <3>1, Zenon
    <3> QED BY <3>2
  <2>2. Live(a) /\ Later(r, a) /\ Sound(F, n, a)
    BY <2>1
  <2>3. /\ way \in Ways /\ way # "saturated"
        /\ way \in {"explored", "rendered", "plain"} => F[n + 1] \in DOMAIN job.site.pages
    BY <2>0
  <2>4. b = Consume(a, F[n + 1], way)
    BY <1>0, <2>0 DEF BatchStep
  <2> HIDE DEF b, n, way
  <2>5. Live(b) /\ Later(a, b) /\ Sound(F, n + 1, b)
    BY <2>0, <2>2, <2>3, <2>4, PageConsumed
  <2>6. At(i, b) /\ b \in Runs
    BY <2>0, <2>2, <2>5, LaterIsTransitive DEF Live
  <2> HIDE DEF At
  <2>7. <<i, b>> \in Nat \X Runs
    BY <2>0, <2>6
  <2>8. \A y : y = <<i, b>> => At(y[1], y[2])
    BY <2>6
  <2>9. <<i, b>> \in I
    BY <2>7, <2>8
  <2> QED BY <2>9 DEF b
<1>3. q = Batching!Loop(batch, ways, r, order)
  BY DEF order
<1> HIDE DEF I
<1>4. <<size, q>> \in I
  BY <1>0, <1>1, <1>2, <1>3, Batching!LoopKeepsAt
<1>5. At(size, q)
  <2> HIDE DEF At
  <2>1. \A y \in I : At(y[1], y[2])
    BY Zenon DEF I
  <2>2. At(<<size, q>>[1], <<size, q>>[2])
    BY <1>4, <2>1, Zenon
  <2> QED BY <2>2
<1> QED BY <1>5

\* Consuming a batch of sitemaps leaves the crawl alone.
LEMMA SitemapBatchConsumed ==
  ASSUME job \in Jobs, NEW r, Live(r), NEW size \in Nat, NEW queue, NEW ok,
         NEW q, q = Fetching!Loop(queue, ok, r, [i \in 1 .. size |-> i])
  PROVE  Quiet(r, q)
<1> DEFINE J == {z \in Runs : Quiet(r, z)}
           order == [i \in 1 .. size |-> i]
<1>0. Len(order) \in Nat
  <2>1. order \in [1 .. size -> Nat]
    OBVIOUS
  <2> QED BY <2>1
<1>1. r \in J
  BY DEF Quiet, Live, SameCrawl, Grown
<1> HIDE DEF order
<1>2. ASSUME NEW i \in 1 .. Len(order), NEW a \in J PROVE SitemapBatchStep(queue, ok, a, order[i]) \in J
  <2> DEFINE b == SitemapBatchStep(queue, ok, a, order[i])
  <2>1. Quiet(r, a) /\ Live(a)
    BY DEF Quiet
  <2>2. Quiet(a, b)
    BY <2>1, SitemapConsumed DEF SitemapBatchStep
  <2> HIDE DEF b
  <2>3. Quiet(r, b) /\ b \in Runs
    BY <2>1, <2>2, QuietIsTransitive DEF Quiet, Live
  <2> QED BY <2>3 DEF b
<1> HIDE DEF J
<1>3. Fetching!Loop(queue, ok, r, order) \in J
  BY <1>0, <1>1, <1>2, Fetching!LoopKeeps
<1> QED BY <1>3 DEF J, order

\* Reading the scripts of a level leaves the crawl alone.
LEMMA ScriptsRead ==
  ASSUME job \in Jobs, NEW r, Live(r), NEW scripts \in Seq(SiteScripts), NEW ok, NEW q, q = Scanning!Loop(ok, 0, r, scripts)
  PROVE  Quiet(r, q)
<1> DEFINE J == {z \in Runs : Quiet(r, z)}
<1>0. Len(scripts) \in Nat
  OBVIOUS
<1>1. r \in J
  BY DEF Quiet, Live, SameCrawl, Grown
<1>2. \A s \in SiteScripts : job.site.scripts[s] \in Seq(URLs)
  <2>1. IsJob(job)
    BY SiteMapAssumption
  <2> QED BY <2>1 DEF IsJob, SiteScripts
<1>3. ASSUME NEW i \in 1 .. Len(scripts), NEW a \in J PROVE ReadScriptStep(ok, 0, a, scripts[i]) \in J
  <2> DEFINE b == ReadScriptStep(ok, 0, a, scripts[i])
  <2>1. Quiet(r, a) /\ Live(a)
    BY DEF Quiet
  <2>2. scripts[i] \in SiteScripts
    OBVIOUS
  <2>3. Quiet(a, a)
    BY <2>1 DEF Quiet, SameCrawl, Grown
  <2>4. Quiet(a, b)
    <3>1. Quiet(a, AddEndpoints(a, job.site.scripts[scripts[i]]))
      BY <1>2, <2>1, <2>2, EndpointsAdded
    <3> QED BY <2>3, <3>1 DEF ReadScriptStep
  <2> HIDE DEF b
  <2>5. Quiet(r, b) /\ b \in Runs
    BY <2>1, <2>4, QuietIsTransitive DEF Quiet, Live
  <2> QED BY <2>5 DEF b
<1> HIDE DEF J
<1>4. Scanning!Loop(ok, 0, r, scripts) \in J
  BY <1>0, <1>1, <1>3, Scanning!LoopKeeps
<1> QED BY <1>4 DEF J

------------------------------------------------------------------------------
(* What a step that keeps the job, and perhaps the context, keeps.          *)

\* What is said of URLs, links and runs depends on the job only.
LEMMA SameJob ==
  ASSUME job' = job
  PROVE  /\ \A u : (Normalize(u))' = Normalize(u)
         /\ \A u : (Permitted(u))' <=> Permitted(u)
         /\ \A d : (Expand(d))' <=> Expand(d)
         /\ \A r : (Full(r))' <=> Full(r)
         /\ \A p : (Offered(p))' = Offered(p)
         /\ \A r : (Live(r))' <=> Live(r)
<1>1. \A u : (Normalize(u))' = Normalize(u)
  BY DEF Normalize
<1>2. \A u : (Permitted(u))' <=> Permitted(u)
  BY DEF Permitted
<1>3. \A d : (Expand(d))' <=> Expand(d)
  BY DEF Expand
<1>4. \A r : (Full(r))' <=> Full(r)
  BY DEF Full
<1>5. \A p : (Offered(p))' = Offered(p)
  <2>1. \A u, w : (AllLinks(u, w))' = AllLinks(u, w) /\ (ExploredOf(u, w))' = ExploredOf(u, w)
    BY DEF AllLinks, ExploredOf
  <2> QED BY <1>1, <2>1 DEF Offered
<1>6. \A r : (Live(r))' <=> Live(r)
  <2>1. SiteScripts' = SiteScripts
    BY DEF SiteScripts
  <2>2. Runs' = Runs
    BY <2>1 DEF Runs
  <2> QED BY <2>2 DEF Live
<1> QED BY <1>1, <1>2, <1>3, <1>4, <1>5, <1>6

\* So does what is said of the line and the pages kept.
LEMMA SameLine ==
  ASSUME job' = job
  PROVE  /\ \A line, r : (LineIsPolite(line, r))' <=> LineIsPolite(line, r)
         /\ \A line, n, r : (PagesAreKept(line, n, r))' <=> PagesAreKept(line, n, r)
         /\ \A r : (NotBegun(r))' <=> NotBegun(r)
<1>1. \A line, r : (LineIsPolite(line, r))' <=> LineIsPolite(line, r)
  BY SameJob DEF LineIsPolite
<1>2. \A line, n, r : (PagesAreKept(line, n, r))' <=> PagesAreKept(line, n, r)
  BY DEF PagesAreKept
<1>3. \A r : (NotBegun(r))' <=> NotBegun(r)
  BY DEF NotBegun
<1> QED BY <1>1, <1>2, <1>3

\* What is listed of a page does not depend on the context.
LEMMA SameListing ==
  ASSUME job' = job
  PROVE  \A r, p : (PageIsListed(r, p))' <=> PageIsListed(r, p)
BY SameJob DEF PageIsListed

\* What may have been cut off depends on the context too.
LEMMA SameContext ==
  ASSUME job' = job, ended' = ended
  PROVE  /\ \A r : (CutOff(r))' <=> CutOff(r)
         /\ \A line, n, r : (LineIsSound(line, n, r))' <=> LineIsSound(line, n, r)
<1>1. \A r : (CutOff(r))' <=> CutOff(r)
  BY SameJob DEF CutOff
<1>2. \A line, r : (LineIsWhole(line, r))' <=> LineIsWhole(line, r)
  BY <1>1 DEF LineIsWhole
<1>3. \A r, p : (LooksLikeAnother(r, p))' <=> LooksLikeAnother(r, p)
  BY DEF LooksLikeAnother
<1>4. \A r, p : (PageIsWhole(r, p))' <=> PageIsWhole(r, p)
  <2>1. \A r, p : (PageIsFollowed(r, p))' <=> PageIsFollowed(r, p)
    BY <1>1, <1>3, SameJob DEF PageIsFollowed
  <2> QED BY <2>1, SameListing DEF PageIsWhole
<1>5. \A line, n, r : (LineIsSound(line, n, r))' <=> LineIsSound(line, n, r)
  BY <1>2, <1>4, SameLine, SameJob DEF LineIsSound
<1> QED BY <1>1, <1>5

------------------------------------------------------------------------------
(* Parts of a line. *)

\* g names the place in line of each page of a shorter one.
Within(shorter, line, g) ==
  /\ g \in [DOMAIN shorter -> DOMAIN line]
  /\ \A i \in DOMAIN shorter : shorter[i] = line[g[i]] /\ (i > 1 => g[i] > 1)
  /\ \A i, k \in DOMAIN shorter : g[i] = g[k] => i = k

\* A part of a polite line, its first page kept first, is polite.
LEMMA PartOfLine ==
  ASSUME NEW line \in Seq(URLs), NEW shorter \in Seq(URLs), NEW g, Within(shorter, line, g),
         NEW r, Live(r), LineIsPolite(line, r)
  PROVE  LineIsPolite(shorter, r)
<1>1. \A i, k \in DOMAIN shorter : Of[shorter[i]].canon = Of[shorter[k]].canon => i = k
  <2>1. \A i, k \in DOMAIN line : Of[line[i]].canon = Of[line[k]].canon => i = k
    BY DEF LineIsPolite
  <2> QED BY <2>1 DEF Within
<1>2. \A i \in DOMAIN shorter : Normalize(shorter[i]) \in r.queued /\ (i > 1 => ~Blocks(r.rules, shorter[i]))
  <2>1. \A i \in DOMAIN line : Normalize(line[i]) \in r.queued /\ (i > 1 => ~Blocks(r.rules, line[i]))
    BY DEF LineIsPolite
  <2> QED BY <2>1 DEF Within
<1>3. ASSUME NEW s \in Shapes
      PROVE  Cardinality(InLine(shorter, s)) <= r.counts[s] /\ r.counts[s] <= ShapeSampleLimit
  <2>1. Cardinality(InLine(line, s)) <= r.counts[s] /\ r.counts[s] <= ShapeSampleLimit
    BY DEF LineIsPolite
  <2>2. IsFiniteSet(InLine(line, s))
    <3>1. Len(line) \in Nat /\ DOMAIN line = 1 .. Len(line)
      OBVIOUS
    <3>2. IsFiniteSet(1 .. Len(line))
      BY <3>1, FS_Interval
    <3> QED BY <3>1, <3>2, FS_Subset DEF InLine
  <2> DEFINE A == InLine(shorter, s)
             f == [i \in A |-> g[i]]
  <2>3. \A i \in A : i \in DOMAIN shorter /\ g[i] \in InLine(line, s)
    <3> SUFFICES ASSUME NEW i \in DOMAIN shorter, i > 1, Shape(shorter[i]) = s PROVE g[i] \in InLine(line, s)
      BY DEF InLine
    <3>1. shorter[i] = line[g[i]] /\ g[i] > 1 /\ g[i] \in DOMAIN line
      BY DEF Within
    <3> QED BY <3>1 DEF InLine
  <2>4. f \in Injection(A, InLine(line, s))
    <3>1. f \in [A -> InLine(line, s)]
      BY <2>3
    <3>2. \A i, k \in A : f[i] = f[k] => i = k
      BY <2>3 DEF Within
    <3> HIDE DEF f, A
    <3> QED BY <3>1, <3>2 DEF Injection, IsInjective
  <2> HIDE DEF f, A
  <2>5. Cardinality(A) <= Cardinality(InLine(line, s)) /\ IsFiniteSet(A)
    BY <2>2, <2>4, FS_Injection
  <2>6. Cardinality(A) \in Nat /\ Cardinality(InLine(line, s)) \in Nat /\ r.counts[s] \in Nat
    BY <2>2, <2>5, FS_CardinalityType, Fields DEF Live
  <2>7. Cardinality(A) <= r.counts[s]
    BY <2>1, <2>5, <2>6
  <2> QED BY <2>1, <2>7 DEF A
<1> QED BY <1>1, <1>2, <1>3 DEF LineIsPolite

\* The front of a polite line is polite.
LEMMA FrontOfLine ==
  ASSUME NEW front \in Seq(URLs), NEW rest \in Seq(URLs), NEW r, Live(r), LineIsPolite(front \o rest, r)
  PROVE  LineIsPolite(front, r)
<1> DEFINE line == front \o rest
           g == [i \in DOMAIN front |-> i]
<1>1. /\ line \in Seq(URLs) /\ Len(line) = Len(front) + Len(rest) /\ Len(front) \in Nat /\ Len(rest) \in Nat
      /\ \A i \in 1 .. Len(front) + Len(rest) : line[i] = IF i <= Len(front) THEN front[i] ELSE rest[i - Len(front)]
  BY ConcatProperties
<1>2. LineIsPolite(line, r)
  OBVIOUS
<1> HIDE DEF line
<1>3. DOMAIN front = 1 .. Len(front) /\ DOMAIN line = 1 .. Len(front) + Len(rest)
  BY <1>1
<1>4. \A i \in DOMAIN front : i \in DOMAIN line /\ line[i] = front[i]
  BY <1>1, <1>3
<1>5. Within(front, line, g)
  BY <1>4 DEF Within
<1> HIDE DEF g
<1> QED BY <1>1, <1>2, <1>5, PartOfLine

\* The pages of a level that were not fetched leave the line.
LEMMA LevelLeaves ==
  ASSUME NEW front \in Seq(URLs), NEW level \in Seq(URLs), NEW rest \in Seq(URLs), NEW r, Live(r),
         LineIsPolite(front \o level \o rest, r)
  PROVE  LineIsPolite(front \o rest, r)
<1> DEFINE line == front \o level \o rest
           shorter == front \o rest
           g == [i \in DOMAIN shorter |-> IF i <= Len(front) THEN i ELSE i + Len(level)]
<1>0. Len(front) \in Nat /\ Len(level) \in Nat /\ Len(rest) \in Nat /\ front \o level \in Seq(URLs)
      /\ Len(front \o level) = Len(front) + Len(level)
      /\ \A i \in 1 .. Len(front) + Len(level) : (front \o level)[i] = IF i <= Len(front) THEN front[i] ELSE level[i - Len(front)]
  BY ConcatProperties
<1>1. PICK a \in Nat, b \in Nat, c \in Nat : a = Len(front) /\ b = Len(level) /\ c = Len(rest)
  BY <1>0
<1>2. /\ line \in Seq(URLs) /\ Len(line) = a + b + c
      /\ \A i \in 1 .. a + b + c : line[i] = IF i <= a + b THEN (front \o level)[i] ELSE rest[i - (a + b)]
  <2> DEFINE both == front \o level
  <2>1. both \in Seq(URLs) /\ Len(both) = a + b
    BY <1>0, <1>1
  <2> HIDE DEF both
  <2>2. /\ both \o rest \in Seq(URLs) /\ Len(both \o rest) = Len(both) + Len(rest)
        /\ \A i \in 1 .. Len(both) + Len(rest) : (both \o rest)[i] = IF i <= Len(both) THEN both[i] ELSE rest[i - Len(both)]
    BY <2>1, ConcatProperties
  <2>3. Len(both) + Len(rest) = a + b + c
    BY <1>1, <2>1
  <2> QED BY <2>1, <2>2, <2>3 DEF both
<1>3. /\ shorter \in Seq(URLs) /\ Len(shorter) = a + c
      /\ \A i \in 1 .. a + c : shorter[i] = IF i <= a THEN front[i] ELSE rest[i - a]
  BY <1>1, ConcatProperties
<1>4. \A i \in 1 .. a + b : (front \o level)[i] = IF i <= a THEN front[i] ELSE level[i - a]
  BY <1>0, <1>1
<1>5. LineIsPolite(line, r)
  OBVIOUS
<1>6. g = [i \in DOMAIN shorter |-> IF i <= a THEN i ELSE i + b]
  BY <1>1
<1> HIDE DEF line, shorter, g
<1>7. DOMAIN shorter = 1 .. a + c /\ DOMAIN line = 1 .. a + b + c
  BY <1>2, <1>3
<1>8. ASSUME NEW i \in DOMAIN shorter
      PROVE  g[i] = (IF i <= a THEN i ELSE i + b) /\ g[i] \in DOMAIN line /\ shorter[i] = line[g[i]]
  <2>1. g[i] = (IF i <= a THEN i ELSE i + b) /\ i \in 1 .. a + c
    BY <1>6, <1>7
  <2>2. CASE i <= a
    <3>1. g[i] = i /\ i \in 1 .. a + b /\ i \in 1 .. a + b + c /\ i <= a + b
      BY <2>1, <2>2
    <3> QED BY <1>2, <1>3, <1>4, <1>7, <2>1, <2>2, <3>1
  <2>3. CASE ~(i <= a)
    <3>1. g[i] = i + b /\ i + b \in 1 .. a + b + c /\ ~(i + b <= a + b) /\ (i + b) - (a + b) = i - a
      BY <2>1, <2>3
    <3> QED BY <1>2, <1>3, <1>7, <2>1, <2>3, <3>1
  <2> QED BY <2>2, <2>3
<1>9. Within(shorter, line, g)
  <2>1. g \in [DOMAIN shorter -> DOMAIN line]
    BY <1>6, <1>8
  <2>2. \A i \in DOMAIN shorter : i > 1 => g[i] > 1
    BY <1>7, <1>8
  <2>3. \A i, k \in DOMAIN shorter : g[i] = g[k] => i = k
    BY <1>7, <1>8
  <2> QED BY <1>8, <2>1, <2>2, <2>3 DEF Within
<1>10. LineIsPolite(shorter, r)
  BY <1>2, <1>3, <1>5, <1>9, PartOfLine
<1> QED BY <1>10 DEF shorter

\* What CrawlIsPolite says of a line.
PoliteLine(lines, rules, line) ==
  /\ rules # <<>> => \A i \in DOMAIN line : i > 1 => ~Disallowed(lines, line[i])
  /\ \A i, j \in DOMAIN line : Of[line[i]].canon = Of[line[j]].canon => i = j
  /\ \A s \in {Shape(line[i]) : i \in DOMAIN line} :
       Cardinality({i \in DOMAIN line : i > 1 /\ Shape(line[i]) = s}) <= ShapeSampleLimit

\* The rules kept of the site's robots.txt block what it disallows.
LEMMA JobRules ==
  ASSUME job \in Jobs
  PROVE  /\ ParseRobotsRules(job.site.robots) \in Seq(ToSet(job.site.robots))
         /\ \A u : Blocks(ParseRobotsRules(job.site.robots), u) <=> Disallowed(job.site.robots, u)
<1> DEFINE lines == job.site.robots
<1>1. /\ lines \in Seq(ToSet(lines))
      /\ \A line \in ToSet(lines) :
           /\ line.name = "user-agent" => line.star \in BOOLEAN
           /\ line.name \in {"allow", "disallow"} => line.length \in Nat
  <2>1. IsJob(job)
    BY SiteMapAssumption
  <2> QED BY <2>1 DEF IsJob
<1> HIDE DEF lines
<1>2. ParseRobotsRules(lines) \in Seq(ToSet(lines))
  BY <1>1, RulesRead
<1>3. \A u : Blocks(ParseRobotsRules(lines), u) <=> Disallowed(lines, u)
  BY <1>1, BlocksIsDisallowed
<1> QED BY <1>2, <1>3 DEF lines

\* A polite line is one that CrawlIsPolite allows.
LEMMA PoliteLines ==
  ASSUME job \in Jobs, NEW r, Live(r), r.rules \in {<<>>, ParseRobotsRules(job.site.robots)},
         NEW line \in Seq(URLs), LineIsPolite(line, r)
  PROVE  PoliteLine(job.site.robots, r.rules, line)
<1>1. r.rules # <<>> => \A i \in DOMAIN line : i > 1 => ~Disallowed(job.site.robots, line[i])
  BY JobRules DEF LineIsPolite
<1>2. \A i, j \in DOMAIN line : Of[line[i]].canon = Of[line[j]].canon => i = j
  BY DEF LineIsPolite
<1>3. ASSUME NEW s \in {Shape(line[i]) : i \in DOMAIN line}
      PROVE  Cardinality({i \in DOMAIN line : i > 1 /\ Shape(line[i]) = s}) <= ShapeSampleLimit
  <2>1. s \in Shapes
    BY DEF Shapes
  <2>2. Cardinality(InLine(line, s)) <= r.counts[s] /\ r.counts[s] <= ShapeSampleLimit
    BY <2>1 DEF LineIsPolite
  <2>3. Cardinality(InLine(line, s)) \in Nat /\ r.counts[s] \in Nat /\ ShapeSampleLimit \in Nat
    <3>1. Len(line) \in Nat /\ DOMAIN line = 1 .. Len(line)
      OBVIOUS
    <3>2. IsFiniteSet(InLine(line, s))
      BY <3>1, FS_Interval, FS_Subset DEF InLine
    <3> QED BY <2>1, <3>2, FS_CardinalityType, Fields, SiteMapAssumption DEF Live
  <2>4. Cardinality(InLine(line, s)) <= ShapeSampleLimit
    BY <2>2, <2>3
  <2> QED BY <2>4 DEF InLine
<1> QED BY <1>1, <1>2, <1>3 DEF PoliteLine

\* The minimum of three numbers.
LEMMA SmallestOfThree ==
  ASSUME NEW a \in Nat, NEW b \in Nat, NEW c \in Nat
  PROVE  LET m == Min({a, b, c}) IN m \in {a, b, c} /\ m <= a /\ m <= b /\ m <= c
<1>1. \E x \in {a, b, c} : \A y \in {a, b, c} : x <= y
  <2>1. CASE a <= b /\ a <= c
    BY <2>1
  <2>2. CASE b <= a /\ b <= c
    BY <2>2
  <2>3. CASE c <= a /\ c <= b
    BY <2>3
  <2> QED BY <2>1, <2>2, <2>3
<1>2. Min({a, b, c}) \in {a, b, c} /\ \A y \in {a, b, c} : Min({a, b, c}) <= y
  BY <1>1 DEF Min
<1> QED BY <1>2

------------------------------------------------------------------------------
(* The steps of a run. *)

MapIsSound == MapTypeOK /\ MapInv

\* The stages of a run that are to come.
StagesLeft ==
  [robots |-> 4, sitemaps |-> 3, crawl |-> 2, finish |-> 1, done |-> 0, cancelled |-> 0, saturated |-> 0]

\* A step takes the run to a later stage; or it fetches some of the sitemaps, or of the
\* pages of a level, that may still be fetched; or it goes to a level that is allowed.
Nearer ==
  \/ StagesLeft[phase'] < StagesLeft[phase]
  \/ phase = "sitemaps" /\ phase' = "sitemaps" /\ run.fetched < run'.fetched /\ run'.fetched <= MaximumSitemaps
  \/ phase = "crawl" /\ phase' = "crawl" /\ run'.depth = run.depth /\ Len(run'.level) < Len(run.level)
  \/ phase = "crawl" /\ phase' = "crawl" /\ run'.depth = run.depth + 1 /\ run'.depth < job.request.depth

\* A saturated limiter ends the run.
LEMMA RefusedIsNearer ==
  ASSUME phase \in {"robots", "sitemaps", "crawl", "finish"}, Refuse
  PROVE  Nearer
BY DEF Refuse, Nearer, StagesLeft

\* A run starts with the invariant.
LEMMA InitMap == MapInit => MapIsSound
<1> SUFFICES ASSUME MapInit PROVE MapIsSound
  OBVIOUS
<1> USE DEF MapInit
<1>1. run \in Runs
  <2> DEFINE zero == [s \in Shapes |-> 0]
  <2>1. zero \in [Shapes -> Nat]
    OBVIOUS
  <2>2. run = [urls |-> {}, limited |-> FALSE, warnings |-> {}, outcome |-> "ok", pageRead |-> FALSE,
            rules |-> <<>>, queue |-> <<>>, visited |-> {}, fetched |-> 0, sitemapsRead |-> 0,
            level |-> <<>>, next |-> <<>>, depth |-> 0, queued |-> {}, counts |-> zero,
            prints |-> {}, pages |-> <<>>, robotsSkipped |-> 0, renders |-> 0, explores |-> 0,
            scripts |-> {}, toRead |-> <<>>, endpoints |-> {}, templates |-> {}]
    BY DEF Shapes
  <2> HIDE DEF zero
  <2> QED BY <2>1, <2>2 DEF Runs
<1>2. MapTypeOK
  BY <1>1, FS_EmptySet DEF MapTypeOK
<1>3. CrawlIsPolite /\ LinksAreAccountedFor /\ TemplatesAreTight
  <2>1. CrawlIsPolite
    BY DEF CrawlIsPolite
  <2>2. LinksAreAccountedFor /\ TemplatesAreTight
    BY DEF LinksAreAccountedFor, TemplatesAreTight
  <2> QED BY <2>1, <2>2
<1>4. NotBegun(run) /\ run.rules = <<>>
  BY DEF NotBegun, Shapes
<1> QED BY <1>2, <1>3, <1>4 DEF MapIsSound, MapInv

\* A run that has not begun to crawl has not begun after a step that leaves the crawl alone.
LEMMA QuietNotBegun ==
  ASSUME NEW r, NEW q, Quiet(r, q), NotBegun(r)
  PROVE  NotBegun(q) /\ Live(q) /\ q.rules = r.rules
BY DEF Quiet, SameCrawl, NotBegun

\* Doing nothing leaves the crawl alone.
LEMMA QuietIsReflexive ==
  ASSUME NEW r, Live(r) PROVE Quiet(r, r)
BY DEF Quiet, SameCrawl, Grown

\* A run that has not begun to crawl.
LEMMA BeforeCrawl ==
  ASSUME job' = job, job \in Jobs, ended' \in {"no", "deadline", "cancelled"}, tried' = <<>>,
         phase' \in {"robots", "sitemaps"}, Live(run'), NotBegun(run'),
         run'.rules \in {<<>>, ParseRobotsRules(job.site.robots)}
  PROVE  MapIsSound'
<1>1. (Live(run))' /\ (NotBegun(run))'
  BY SameJob, SameLine
<1>2. MapTypeOK'
  BY <1>1 DEF MapTypeOK, Live
<1>3. CrawlIsPolite' /\ LinksAreAccountedFor' /\ TemplatesAreTight'
  <2>1. CrawlIsPolite'
    BY DEF CrawlIsPolite
  <2>2. LinksAreAccountedFor' /\ TemplatesAreTight'
    BY DEF LinksAreAccountedFor, TemplatesAreTight
  <2> QED BY <2>1, <2>2
<1> QED BY <1>1, <1>2, <1>3 DEF MapIsSound, MapInv

\* robots.txt is read, or not, and its sitemaps or the guesses queued.
LEMMA RobotsStep ==
  ASSUME MapIsSound, NEW read \in BOOLEAN, ReadRobots(read)
  PROVE  MapIsSound'
<1> DEFINE base == [run EXCEPT !.rules = ParseRobotsRules(job.site.robots)]
           named == IF ~read THEN run ELSE Mapping!Loop(0, 0, base, job.site.named)
<1>1. Live(run) /\ NotBegun(run) /\ run.rules \in {<<>>, ParseRobotsRules(job.site.robots)} /\ tried = <<>> /\ job \in Jobs
  BY DEF MapIsSound, MapTypeOK, MapInv, ReadRobots, Live
<1>2. job.site.named \in Seq(URLs) /\ job.site.guesses \in Seq(URLs)
  BY <1>1, SiteMapAssumption DEF IsJob
<1>3. run' = IF named.queue # <<>> THEN named ELSE Mapping!Loop(0, 0, named, job.site.guesses)
  BY DEF ReadRobots, Fold, Mapping!Loop, SitemapStep
<1>4. Live(base) /\ NotBegun(base) /\ base.rules = ParseRobotsRules(job.site.robots)
  <2> DEFINE rules == ParseRobotsRules(job.site.robots)
  <2>1. rules \in Seq(ToSet(job.site.robots))
    BY <1>1, JobRules
  <2> HIDE DEF rules
  <2>2. run \in Runs
    BY <1>1 DEF Live
  <2>3. [run EXCEPT !.rules = rules] \in Runs
    BY <2>1, <2>2 DEF Runs
  <2>4. [run EXCEPT !.rules = rules].urls = run.urls /\ [run EXCEPT !.rules = rules].rules = rules
    BY <2>2 DEF Runs
  <2>5. NotBegun([run EXCEPT !.rules = rules])
    BY <1>1, <2>2 DEF Runs, NotBegun
  <2> QED BY <1>1, <2>3, <2>4, <2>5 DEF Live, rules
<1> HIDE DEF base
<1>5. Live(named) /\ NotBegun(named) /\ named.rules \in {<<>>, ParseRobotsRules(job.site.robots)}
  <2>1. CASE ~read
    BY <1>1, <2>1
  <2>2. CASE read
    <3>1. named = Mapping!Loop(0, 0, base, job.site.named)
      BY <2>2
    <3> HIDE DEF named
    <3>2. Quiet(base, named)
      BY <1>2, <1>4, <3>1, SitemapsEnqueued
    <3> QED BY <1>4, <3>2, QuietNotBegun
  <2> QED BY <2>1, <2>2
<1> HIDE DEF named
<1>6. Quiet(named, run')
  <2> DEFINE q == Mapping!Loop(0, 0, named, job.site.guesses)
  <2>1. Quiet(named, q)
    BY <1>2, <1>5, SitemapsEnqueued
  <2>2. Quiet(named, named)
    BY <1>5, QuietIsReflexive
  <2> HIDE DEF q
  <2>3. run' = named \/ run' = q
    BY <1>3 DEF q
  <2> QED BY <2>1, <2>2, <2>3
<1>7. Live(run') /\ NotBegun(run') /\ run'.rules \in {<<>>, ParseRobotsRules(job.site.robots)}
  BY <1>5, <1>6, QuietNotBegun
<1>8. job' = job /\ ended' \in {"no", "deadline", "cancelled"} /\ tried' = <<>> /\ phase' \in {"robots", "sitemaps"}
  BY <1>1 DEF ReadRobots, MapIsSound, MapTypeOK
<1> QED BY <1>1, <1>7, <1>8, BeforeCrawl

\* A run that ends because the limiter is saturated.
LEMMA RefuseStep ==
  ASSUME MapIsSound, Refuse, phase \notin {"done", "cancelled"}, tried' \in Seq(URLs),
         PoliteLine(job.site.robots, run.rules, tried')
  PROVE  MapIsSound'
<1>1. job' = job /\ ended' = ended /\ run' = run /\ phase' = "saturated"
  BY DEF Refuse
<1>2. Live(run) /\ run.rules \in {<<>>, ParseRobotsRules(job.site.robots)} /\ job \in Jobs
      /\ ended \in {"no", "deadline", "cancelled"}
  BY DEF MapIsSound, MapTypeOK, MapInv, Live
<1>3. (Live(run))'
  BY <1>1, <1>2, SameJob
<1>4. MapTypeOK'
  BY <1>1, <1>2, <1>3 DEF MapTypeOK, Live
<1>5. CrawlIsPolite'
  BY <1>1 DEF CrawlIsPolite, PoliteLine
<1>6. LinksAreAccountedFor' /\ TemplatesAreTight'
  BY <1>1 DEF LinksAreAccountedFor, TemplatesAreTight
<1> QED BY <1>1, <1>2, <1>4, <1>5, <1>6 DEF MapIsSound, MapInv

\* A batch of sitemaps is read.
LEMMA SitemapsStep ==
  ASSUME MapIsSound, NEW size \in 1 .. SitemapBatchSize, ReadSitemaps(size)
  PROVE  MapIsSound' /\ Nearer
<1>1. Live(run) /\ NotBegun(run) /\ run.rules \in {<<>>, ParseRobotsRules(job.site.robots)} /\ tried = <<>> /\ job \in Jobs
      /\ phase = "sitemaps" /\ tried' = tried
  BY DEF MapIsSound, MapTypeOK, MapInv, ReadSitemaps, Live
<1>2. CASE Refuse
  <2>1. PoliteLine(job.site.robots, run.rules, <<>>)
    BY DEF PoliteLine
  <2> QED BY <1>1, <1>2, <2>1, RefuseStep, RefusedIsNearer
<1>3. CASE ~Refuse
  <2> DEFINE Q == Drop(run.queue, size)
             n == run.fetched + size
             base == [run EXCEPT !.queue = Q, !.fetched = n]
  <2>1. PICK ok \in SUBSET (1 .. size) :
          /\ run' = Fetching!Loop(run.queue, ok, base, [i \in 1 .. size |-> i])
          /\ UNCHANGED <<job, phase, ended>>
    BY <1>3 DEF ReadSitemaps, Fold, Fetching!Loop, SitemapBatchStep
  <2>2. /\ size \in Nat /\ size \in 0 .. Len(run.queue)
        /\ run.queue \in Seq(URLs) /\ run.fetched \in Nat
        /\ run.fetched < run.fetched + size /\ run.fetched + size <= MaximumSitemaps
    <3>1. run.queue \in Seq(URLs) /\ run.fetched \in Nat
      BY <1>1 DEF Live, Runs
    <3>2. size = Min({SitemapBatchSize, Len(run.queue), MaximumSitemaps - run.fetched}) /\ run.fetched < MaximumSitemaps
      BY DEF ReadSitemaps
    <3>3. PICK b \in Nat, c \in Nat : b = Len(run.queue) /\ c = MaximumSitemaps - run.fetched
      BY <3>1, <3>2, SiteMapAssumption
    <3>4. SitemapBatchSize \in Nat
      BY SiteMapAssumption
    <3>5. size = Min({SitemapBatchSize, b, c})
      BY <3>2, <3>3
    <3>6. size <= b /\ size <= c /\ size \in {SitemapBatchSize, b, c}
      BY <3>3, <3>4, <3>5, SmallestOfThree
    <3>7. size \in Nat /\ size \in 0 .. Len(run.queue)
      BY <3>1, <3>3, <3>4, <3>6
    <3>8. size \in Nat \ {0} /\ MaximumSitemaps \in Nat
      BY <3>4, SizesAreNatural
    <3>9. run.fetched < run.fetched + size /\ run.fetched + size <= MaximumSitemaps
      BY <3>1, <3>3, <3>6, <3>8
    <3> QED BY <3>1, <3>7, <3>9
  <2>3. Q \in Seq(URLs) /\ n \in Nat
    <3>1. Drop(run.queue, size) \in Seq(URLs)
      BY <2>2, Pieces
    <3> QED BY <2>2, <3>1
  <2> HIDE DEF Q, n
  <2>4. run \in Runs
    BY <1>1 DEF Live
  <2>5. base \in Runs
    BY <2>3, <2>4 DEF Runs
  <2>6. base.urls = run.urls /\ base.rules = run.rules /\ base.fetched = n
    BY <2>4 DEF Runs
  <2>7. NotBegun(base)
    BY <1>1, <2>4 DEF Runs, NotBegun
  <2> HIDE DEF base
  <2>8. Live(base)
    BY <1>1, <2>5, <2>6 DEF Live
  <2>9. Quiet(base, run')
    BY <1>1, <2>1, <2>2, <2>8, SitemapBatchConsumed
  <2>10. Live(run') /\ NotBegun(run') /\ run'.rules = run.rules
    BY <2>6, <2>7, <2>9, QuietNotBegun
  <2>11. job' = job /\ ended' \in {"no", "deadline", "cancelled"} /\ tried' = <<>> /\ phase' \in {"robots", "sitemaps"}
    BY <1>1, <2>1 DEF MapIsSound, MapTypeOK
  <2>12. MapIsSound'
    BY <1>1, <2>10, <2>11, BeforeCrawl
  <2>13. run'.fetched = run.fetched + size
    BY <2>6, <2>9 DEF Quiet, SameCrawl, n
  <2>14. Nearer
    BY <1>1, <2>1, <2>2, <2>13 DEF Nearer
  <2> QED BY <2>12, <2>14
<1> QED BY <1>2, <1>3

\* A run whose crawl has begun and not ended.
LEMMA CrawlGoesOn ==
  ASSUME job' = job, job \in Jobs, ended' = ended, ended \in {"no", "deadline", "cancelled"}, tried' \in Seq(URLs),
         phase' \in {"crawl", "finish"}, Live(run'), run'.rules \in {<<>>, ParseRobotsRules(job.site.robots)},
         LineIsSound(tried' \o run'.level \o run'.next, Len(tried'), run'),
         phase' = "finish" => CutOff(run') \/ run'.level \o run'.next = <<>>
  PROVE  MapIsSound'
<1>1. /\ (Live(run))'
      /\ (LineIsSound(tried \o run.level \o run.next, Len(tried), run))'
      /\ phase' = "finish" => (CutOff(run))' \/ run'.level \o run'.next = <<>>
  BY SameJob, SameContext
<1>2. MapTypeOK'
  BY <1>1 DEF MapTypeOK, Live
<1>3. CrawlIsPolite'
  <2>1. run'.level \in Seq(URLs) /\ run'.next \in Seq(URLs)
    BY DEF Live, Runs
  <2>2. tried' \o run'.level \o run'.next = tried' \o (run'.level \o run'.next)
    <3> DEFINE a == tried'
               b == run'.level
               c == run'.next
    <3>1. a \in Seq(URLs) /\ b \in Seq(URLs) /\ c \in Seq(URLs)
      BY <2>1
    <3> HIDE DEF a, b, c
    <3>2. (a \o b) \o c = a \o (b \o c)
      BY <3>1, ConcatAssociative, SMTT(30)
    <3> QED BY <3>2 DEF a, b, c
  <2>3. LineIsPolite(tried' \o (run'.level \o run'.next), run')
    BY <2>2 DEF LineIsSound
  <2> DEFINE rest == run'.level \o run'.next
  <2>4. rest \in Seq(URLs)
    BY <2>1
  <2> HIDE DEF rest
  <2>5. LineIsPolite(tried', run')
    BY <2>3, <2>4, FrontOfLine DEF rest
  <2>6. PoliteLine(job.site.robots, run'.rules, tried')
    BY <2>5, PoliteLines
  <2> QED BY <2>6 DEF CrawlIsPolite, PoliteLine
<1>4. LinksAreAccountedFor' /\ TemplatesAreTight'
  BY DEF LinksAreAccountedFor, TemplatesAreTight
<1> QED BY <1>1, <1>2, <1>3, <1>4 DEF MapIsSound, MapInv

\* The first page of the line counts for no shape.
LEMMA NothingInLine ==
  ASSUME NEW line \in Seq(URLs), Len(line) <= 1, NEW s
  PROVE  Cardinality(InLine(line, s)) = 0
<1>1. InLine(line, s) = {}
  <2>1. DOMAIN line = 1 .. Len(line) /\ Len(line) \in Nat
    OBVIOUS
  <2> QED BY <2>1 DEF InLine
<1> QED BY <1>1, FS_EmptySet

OnlyStarted(line, r) ==
  /\ r.pages = <<>> /\ r.prints = {} /\ r.next = <<>> /\ r.counts = [s \in Shapes |-> 0]
  /\ r.queued = {Normalize(line[i]) : i \in DOMAIN line}

\* The line before the crawl, and with its first page.
LEMMA FirstLine ==
  ASSUME job \in Jobs, NEW line \in Seq(URLs), Len(line) <= 1, NEW r, Live(r),
         OnlyStarted(line, r)
  PROVE  LineIsSound(line, 0, r)
<1> USE DEF OnlyStarted
<1>1. DOMAIN line = 1 .. Len(line) /\ Len(line) \in Nat
  OBVIOUS
<1>2. \A s \in Shapes : Cardinality(InLine(line, s)) = 0 /\ r.counts[s] = 0
  BY NothingInLine
<1>3. ShapeSampleLimit \in Nat
  BY SiteMapAssumption
<1>4. LineIsPolite(line, r)
  BY <1>1, <1>2, <1>3 DEF LineIsPolite
<1>5. LineIsWhole(line, r)
  <2>1. ASSUME NEW u \in r.queued PROVE u = Nowhere \/ \E i \in DOMAIN line : Of[line[i]].canon = u
    BY DEF Normalize, NormalizedTo
  <2> QED BY <1>2, <2>1 DEF LineIsWhole
<1>6. ToSet(r.pages) = {}
  BY DEF ToSet
<1>7. PagesAreKept(line, 0, r)
  BY <1>6 DEF PagesAreKept
<1> QED BY <1>4, <1>5, <1>6, <1>7 DEF LineIsSound

\* The crawl starts with the requested URL, or the run goes on to its end.
LEMMA StartStep ==
  ASSUME MapIsSound, StartCrawl
  PROVE  MapIsSound'
<1> DEFINE r == IF MoreSitemaps THEN Warn(run, "sitemap limit reached") ELSE run
           offered == IF job.request.render # "never" /\ ~job.browser THEN Warn(r, "no browser") ELSE r
           start == job.request.url
           first == {Normalize(start)}
           begun == [offered EXCEPT !.level = <<start>>, !.queued = first]
<1>1. Live(run) /\ NotBegun(run) /\ run.rules \in {<<>>, ParseRobotsRules(job.site.robots)} /\ tried = <<>> /\ job \in Jobs
      /\ phase = "sitemaps" /\ tried' = tried /\ job' = job /\ ended' = ended /\ ended \in {"no", "deadline", "cancelled"}
  BY DEF MapIsSound, MapTypeOK, MapInv, StartCrawl, Live
<1>2. \/ phase' = "finish" /\ run' = r
      \/ phase' = "crawl" /\ run' = begun
  BY DEF StartCrawl
<1>3. Quiet(run, r)
  BY <1>1, Warned, QuietIsReflexive DEF MapMessages
<1>4. Live(r) /\ NotBegun(r) /\ r.rules = run.rules
  BY <1>1, <1>3, QuietNotBegun
<1> HIDE DEF r
<1>5. Quiet(r, offered)
  BY <1>4, Warned, QuietIsReflexive DEF MapMessages
<1>6. Live(offered) /\ NotBegun(offered) /\ offered.rules = run.rules
  BY <1>4, <1>5, QuietNotBegun
<1> HIDE DEF offered
<1>7. CASE phase' = "finish" /\ run' = r
  <2>1. LineIsSound(<<>>, 0, r)
    <3>1. OnlyStarted(<<>>, r)
      BY <1>4 DEF NotBegun, OnlyStarted
    <3>2. <<>> \in Seq(URLs) /\ Len(<<>>) <= 1
      OBVIOUS
    <3> QED BY <1>1, <1>4, <3>1, <3>2, FirstLine
  <2>2. tried' \o run'.level \o run'.next = <<>> /\ Len(tried') = 0 /\ run'.level \o run'.next = <<>> /\ tried' \in Seq(URLs)
    BY <1>1, <1>4, <1>7 DEF NotBegun
  <2> QED BY <1>1, <1>4, <1>7, <2>1, <2>2, CrawlGoesOn
<1>8. CASE phase' = "crawl" /\ run' = begun
  <2>1. start \in URLs
    BY <1>1, SiteMapAssumption DEF IsJob
  <2>2. first \in SUBSET (URLs \cup {Nowhere})
    BY <2>1, Normalized
  <2> DEFINE line == <<start>>
  <2>3. line \in Seq(URLs) /\ Len(line) = 1 /\ first = {Normalize(line[i]) : i \in DOMAIN line}
    BY <2>1
  <2>4. begun = [offered EXCEPT !.level = line, !.queued = first]
    OBVIOUS
  <2>5. <<>> \o line \o <<>> = line
    BY <2>1
  <2> HIDE DEF line, first, begun
  <2>6. offered \in Runs
    BY <1>6 DEF Live
  <2>7. begun \in Runs
    BY <2>2, <2>3, <2>4, <2>6 DEF Runs
  <2>8. begun.urls = offered.urls /\ begun.rules = offered.rules /\ begun.level = line /\ begun.queued = first
    BY <2>4, <2>6 DEF Runs
  <2>9. /\ begun.pages = <<>> /\ begun.prints = {} /\ begun.next = <<>> /\ begun.counts = [s \in Shapes |-> 0]
    BY <1>6, <2>4, <2>6 DEF Runs, NotBegun
  <2>10. Live(begun)
    BY <1>6, <2>7, <2>8 DEF Live
  <2>11. LineIsSound(line, 0, begun)
    <3>1. OnlyStarted(line, begun)
      BY <2>3, <2>8, <2>9 DEF OnlyStarted
    <3>2. Len(line) <= 1
      BY <2>3
    <3> QED BY <1>1, <2>3, <2>10, <3>1, <3>2, FirstLine
  <2>12. tried' \o run'.level \o run'.next = line /\ Len(tried') = 0 /\ tried' \in Seq(URLs)
    BY <1>1, <1>8, <2>5, <2>8, <2>9
  <2>13. run'.rules \in {<<>>, ParseRobotsRules(job.site.robots)}
    BY <1>1, <1>6, <1>8, <2>8
  <2> QED BY <1>1, <1>8, <2>10, <2>11, <2>12, <2>13, CrawlGoesOn
<1> QED BY <1>2, <1>7, <1>8

\* Two moments that differ in the levels at most, or in the attempts spent.
SameButLevels(r, q) ==
  /\ q.urls = r.urls /\ q.limited = r.limited /\ q.warnings = r.warnings
  /\ q.rules = r.rules /\ q.queued = r.queued /\ q.counts = r.counts /\ q.prints = r.prints /\ q.pages = r.pages

\* The parts of the line invariant do not read the level or the attempts.
LEMMA LevelDoesNotMatter ==
  ASSUME NEW r, NEW q, SameButLevels(r, q)
  PROVE  /\ \A line : LineIsPolite(line, r) <=> LineIsPolite(line, q)
         /\ \A line : LineIsWhole(line, r) <=> LineIsWhole(line, q)
         /\ \A p : PageIsWhole(r, p) <=> PageIsWhole(q, p)
         /\ \A line, n : PagesAreKept(line, n, r) <=> PagesAreKept(line, n, q)
         /\ CutOff(r) <=> CutOff(q)
<1> USE DEF SameButLevels
<1>1. CutOff(r) <=> CutOff(q)
  BY DEF CutOff, Full
<1>2. \A line : LineIsPolite(line, r) <=> LineIsPolite(line, q)
  BY DEF LineIsPolite
<1>3. \A line : LineIsWhole(line, r) <=> LineIsWhole(line, q)
  BY <1>1 DEF LineIsWhole
<1>4. \A p : LooksLikeAnother(r, p) <=> LooksLikeAnother(q, p)
  BY DEF LooksLikeAnother
<1>5. \A p : PageIsWhole(r, p) <=> PageIsWhole(q, p)
  BY <1>1, <1>4 DEF PageIsWhole, PageIsListed, PageIsFollowed
<1>6. \A line, n : PagesAreKept(line, n, r) <=> PagesAreKept(line, n, q)
  BY DEF PagesAreKept
<1> QED BY <1>1, <1>2, <1>3, <1>5, <1>6

\* The line is sound with the level in front of what is collected, or as one front.
LEMMA SoundFront ==
  ASSUME NEW r, NEW q, Live(q), SameButLevels(r, q), q.next = r.next, q.depth = r.depth, NEW F \in Seq(URLs), NEW n \in 0 .. Len(F)
  PROVE  LineIsSound(F \o r.next, n, r) <=> Sound(F, n, q)
<1>1. q.next \in Seq(URLs) /\ q.next = r.next /\ q.depth = r.depth /\ q.pages = r.pages
  BY DEF Live, Runs, SameButLevels
<1>2. PagesAreKept(F \o q.next, n, q) <=> PagesAreKept(F, n, q)
  BY <1>1, PagesFront
<1> QED BY <1>1, <1>2, LevelDoesNotMatter DEF LineIsSound, Sound, LineKept

\* Explorers and renderers can be counted.
LEMMA Attempts ==
  ASSUME NEW batch, NEW size \in Nat, DOMAIN batch = 1 .. size, NEW explorers \in Explorers(batch), NEW renderers \in Renderers(batch, explorers)
  PROVE  Cardinality(explorers) \in Nat /\ Cardinality(renderers) \in Nat
<1>1. IsFiniteSet(1 .. size)
  BY FS_Interval
<1>2. explorers \subseteq 1 .. size
  BY Zenon DEF Explorers, OfSize
<1>3. renderers \subseteq 1 .. size
  <2> DEFINE others == DOMAIN batch \ explorers
             shells == {i \in DOMAIN batch : Shell(batch[i])}
             n == Min({Cardinality(others), RendersLeft})
  <2>1. others \subseteq 1 .. size /\ shells \subseteq 1 .. size
    OBVIOUS
  <2>2. renderers \in {{}} \/ renderers \in OfSize(n, others) \/ renderers \in {x \in SUBSET shells : Cardinality(x) <= RendersLeft}
    BY Zenon DEF Renderers
  <2> HIDE DEF others, shells, n
  <2>3. renderers = {} \/ renderers \subseteq others \/ renderers \subseteq shells
    BY <2>2, Zenon DEF OfSize
  <2> QED BY <2>1, <2>3
<1> QED BY <1>1, <1>2, <1>3, FS_Subset, FS_CardinalityType

\* Three sequences, joined either way.
LEMMA Joined ==
  ASSUME NEW t \in Seq(URLs), NEW b \in Seq(URLs), NEW rest \in Seq(URLs)
  PROVE  t \o (b \o rest) = (t \o b) \o rest /\ t \o (b \o rest) \in Seq(URLs) /\ Len(t \o (b \o rest)) = Len(t) + Len(b \o rest)
<1> DEFINE level == b \o rest
<1>1. level \in Seq(URLs)
  BY ConcatProperties
<1>2. (t \o b) \o rest = t \o level
  BY ConcatAssociative
<1> HIDE DEF level
<1>3. t \o level \in Seq(URLs) /\ Len(t \o level) = Len(t) + Len(level)
  BY <1>1, ConcatProperties
<1> QED BY <1>2, <1>3 DEF level

\* A batch of pages is fetched and consumed: it moves from the level to the pages tried.
LEMMA BatchOfPages ==
  ASSUME MapIsSound, CrawlBatch
  PROVE  MapIsSound' /\ Nearer
<1> DEFINE size == Min({CrawlBatchSize, Len(run.level), MaximumCrawlPages - Len(run.pages)})
           batch == Take(run.level, size)
           rest == Drop(run.level, size)
           m == Len(tried)
           F == tried \o run.level
<1>1. /\ Live(run) /\ run.rules \in {<<>>, ParseRobotsRules(job.site.robots)} /\ job \in Jobs /\ phase = "crawl"
      /\ ended \in {"no", "deadline", "cancelled"} /\ tried \in Seq(URLs)
      /\ LineIsSound(tried \o run.level \o run.next, Len(tried), run)
      /\ run.level # <<>> /\ ~AtPageLimit
  BY DEF MapIsSound, MapTypeOK, MapInv, CrawlBatch, Live, LevelRuns
<1>2. run.level \in Seq(URLs) /\ run.next \in Seq(URLs) /\ run.pages \in Seq(PageRecords) /\ run \in Runs
      /\ run.renders \in Nat /\ run.explores \in Nat
  BY <1>1 DEF Live, Runs
<1>3. size \in Nat /\ size \in 0 .. Len(run.level) /\ size # 0
  <2>1. PICK b \in Nat \ {0}, c \in Nat \ {0} : b = Len(run.level) /\ c = MaximumCrawlPages - Len(run.pages)
    <3>1. Len(run.level) \in Nat /\ Len(run.pages) \in Nat /\ MaximumCrawlPages \in Nat
      <4> HIDE DEF size, batch, rest, m, F
      <4>1. \A s \in Seq(URLs) \cup Seq(PageRecords) : Len(s) \in Nat
        OBVIOUS
      <4>2. MaximumCrawlPages \in Nat
        BY SizesAreNatural
      <4> QED BY <1>2, <4>1, <4>2
    <3>2. Len(run.pages) < MaximumCrawlPages
      BY <1>1, <3>1 DEF AtPageLimit
    <3>3. MaximumCrawlPages - Len(run.pages) \in Nat \ {0}
      <4> HIDE DEF size, batch, rest, m, F
      <4> QED BY <3>1, <3>2
    <3>4. Len(run.level) # 0
      <4> HIDE DEF size, batch, rest, m, F
      <4> QED BY <1>1, <1>2
    <3> QED BY <3>1, <3>3, <3>4
  <2>2. CrawlBatchSize \in Nat \ {0}
    BY SizesAreNatural
  <2>3. size = Min({CrawlBatchSize, b, c})
    BY <2>1
  <2> HIDE DEF size
  <2>4. size <= b /\ size \in {CrawlBatchSize, b, c}
    BY <2>1, <2>2, <2>3, SmallestOfThree
  <2> QED BY <2>1, <2>2, <2>4
<1>4. PICK explorers \in Explorers(batch) : \E renderers \in Renderers(batch, explorers) :
        \E ways \in [1 .. size -> Ways] :
          /\ \A i \in 1 .. size :
               ways[i] \in Ends(batch[i], i \in explorers, i \in renderers, Cardinality(renderers) = RendersLeft)
          /\ tried' = tried \o batch
          /\ IF \E i \in 1 .. size : ways[i] = "saturated" THEN Refuse
             ELSE /\ run' = Fold(LAMBDA r, i : Consume(r, batch[i], ways[i]),
                                     [run EXCEPT !.level = rest, !.renders = @ + Cardinality(renderers),
                                                 !.explores = @ + Cardinality(explorers)],
                                     [i \in 1 .. size |-> i])
                  /\ UNCHANGED <<job, phase, ended>>
  BY DEF CrawlBatch, Ways
<1>5. PICK renderers \in Renderers(batch, explorers), ways \in [1 .. size -> Ways] :
          /\ \A i \in 1 .. size :
               ways[i] \in Ends(batch[i], i \in explorers, i \in renderers, Cardinality(renderers) = RendersLeft)
          /\ tried' = tried \o batch
          /\ IF \E i \in 1 .. size : ways[i] = "saturated" THEN Refuse
             ELSE /\ run' = Fold(LAMBDA r, i : Consume(r, batch[i], ways[i]),
                                     [run EXCEPT !.level = rest, !.renders = @ + Cardinality(renderers),
                                                 !.explores = @ + Cardinality(explorers)],
                                     [i \in 1 .. size |-> i])
                  /\ UNCHANGED <<job, phase, ended>>
  BY <1>4
<1> DEFINE e == run.explores + Cardinality(explorers)
           s == run.renders + Cardinality(renderers)
           base == [run EXCEPT !.level = rest, !.renders = s, !.explores = e]
<1>6. /\ \A i \in 1 .. size : ways[i] \in {"explored", "rendered", "plain"} => batch[i] \in DOMAIN job.site.pages
      /\ tried' = tried \o batch
      /\ (\E i \in 1 .. size : ways[i] = "saturated") => Refuse
      /\ (\A i \in 1 .. size : ways[i] # "saturated") =>
           /\ run' = Batching!Loop(batch, ways, base, [i \in 1 .. size |-> i])
           /\ UNCHANGED <<job, phase, ended>>
  <2>1. \A i \in 1 .. size : ways[i] \in {"explored", "rendered", "plain"} => batch[i] \in DOMAIN job.site.pages
    <3> SUFFICES ASSUME NEW i \in 1 .. size, ways[i] \in {"explored", "rendered", "plain"}
                 PROVE  batch[i] \in DOMAIN job.site.pages
      OBVIOUS
    <3>1. ways[i] \in Ends(batch[i], i \in explorers, i \in renderers, Cardinality(renderers) = RendersLeft)
      BY <1>5
    <3> HIDE DEF batch, size
    <3> QED BY <3>1, Zenon DEF Ends
  <2>2. [run EXCEPT !.level = rest, !.renders = @ + Cardinality(renderers), !.explores = @ + Cardinality(explorers)] = base
    OBVIOUS
  <2> QED BY <1>5, <2>1, <2>2 DEF Fold, Batching!Loop, BatchStep
<1> HIDE DEF size
<1>7. /\ batch \in Seq(URLs) /\ rest \in Seq(URLs) /\ Len(batch) = size
      /\ \A i \in 1 .. size : batch[i] = run.level[i]
      /\ batch \o rest = run.level
  BY <1>2, <1>3, Pieces
<1>8. DOMAIN batch = 1 .. size
  BY <1>7
<1>9. Cardinality(explorers) \in Nat /\ Cardinality(renderers) \in Nat
  BY <1>3, <1>8, Attempts
<1> HIDE DEF batch, rest
<1>10. e \in Nat /\ s \in Nat
  BY <1>2, <1>9
<1> HIDE DEF e, s
<1>11. tried \o batch \in Seq(URLs) /\ Len(tried \o batch) = m + size /\ m \in Nat
  BY <1>1, <1>7, ConcatProperties
<1>12. F \in Seq(URLs) /\ F = (tried \o batch) \o rest /\ Len(F) = m + Len(run.level)
  <2> DEFINE level == run.level
  <2>1. level = batch \o rest
    BY <1>7
  <2>2. tried \in Seq(URLs) /\ batch \in Seq(URLs) /\ rest \in Seq(URLs)
    BY <1>1, <1>7
  <2> HIDE DEF level
  <2>3. tried \o level \in Seq(URLs) /\ tried \o level = (tried \o batch) \o rest /\ Len(tried \o level) = Len(tried) + Len(level)
    <3>1. /\ tried \o (batch \o rest) = (tried \o batch) \o rest /\ tried \o (batch \o rest) \in Seq(URLs)
          /\ Len(tried \o (batch \o rest)) = Len(tried) + Len(batch \o rest)
      BY <2>2, Joined
    <3> QED BY <2>1, <3>1
  <2> QED BY <2>3 DEF level
<1>13. \A i \in 1 .. size : batch[i] = F[m + i]
  <2>1. PICK b \in Nat : b = Len(run.level)
    BY <1>2
  <2>2. \A i \in 1 .. m + b : F[i] = IF i <= m THEN tried[i] ELSE run.level[i - m]
    BY <1>1, <1>2, <2>1, ConcatProperties
  <2> HIDE DEF F
  <2> SUFFICES ASSUME NEW i \in 1 .. size PROVE batch[i] = F[m + i]
    OBVIOUS
  <2>3. m + i \in 1 .. m + b /\ ~(m + i <= m) /\ (m + i) - m = i
    <3> HIDE DEF m
    <3> QED BY <1>3, <1>11, <2>1
  <2> HIDE DEF m
  <2>4. F[m + i] = run.level[(m + i) - m]
    BY <2>2, <2>3
  <2> QED BY <1>7, <2>3, <2>4
<1>14. CASE \E i \in 1 .. size : ways[i] = "saturated"
  <2> DEFINE ahead == rest \o run.next
  <2>1. ahead \in Seq(URLs)
    BY <1>2, <1>7
  <2>2. tried \o run.level \o run.next = (tried \o batch) \o ahead
    <3> DEFINE front == tried \o batch
               next == run.next
    <3>1. front \in Seq(URLs) /\ rest \in Seq(URLs) /\ next \in Seq(URLs) /\ tried \o run.level = front \o rest
      BY <1>2, <1>7, <1>11, <1>12
    <3> HIDE DEF front, next
    <3>2. (front \o rest) \o next = front \o (rest \o next)
      BY <3>1, Joined
    <3> QED BY <3>1, <3>2 DEF front, next
  <2> HIDE DEF ahead
  <2>3. LineIsPolite((tried \o batch) \o ahead, run)
    BY <1>1, <2>2 DEF LineIsSound
  <2> DEFINE fetched == tried \o batch
  <2>4. fetched \in Seq(URLs) /\ LineIsPolite(fetched \o ahead, run)
    BY <1>11, <2>3
  <2>5. tried' = fetched
    BY <1>6
  <2> HIDE DEF fetched
  <2>6. LineIsPolite(fetched, run)
    BY <1>1, <2>1, <2>4, FrontOfLine
  <2>7. PoliteLine(job.site.robots, run.rules, tried')
    BY <1>1, <2>4, <2>5, <2>6, PoliteLines
  <2>8. MapIsSound'
    BY <1>1, <1>6, <1>14, <2>4, <2>5, <2>7, RefuseStep
  <2> QED BY <1>1, <1>6, <1>14, <2>8, RefusedIsNearer
<1>15. CASE \A i \in 1 .. size : ways[i] # "saturated"
  <2>1. base \in Runs
    BY <1>2, <1>7, <1>10 DEF Runs
  <2>2. SameButLevels(run, base) /\ base.level = rest /\ base.next = run.next /\ base.depth = run.depth
    BY <1>2 DEF SameButLevels, Runs
  <2>3. run' = Batching!Loop(batch, ways, base, [i \in 1 .. size |-> i]) /\ UNCHANGED <<job, phase, ended>>
    BY <1>6, <1>15
  <2> HIDE DEF base
  <2>4. Live(base)
    BY <1>1, <2>1, <2>2 DEF Live, SameButLevels
  <2>5. m \in 0 .. Len(F) /\ m + size <= Len(F)
    <3>1. PICK b \in Nat : b = Len(run.level)
      BY <1>2
    <3> HIDE DEF m, F
    <3> QED BY <1>3, <1>11, <1>12, <3>1
  <2> DEFINE line == F \o run.next
  <2>6. LineIsSound(line, m, run)
    BY <1>1
  <2> HIDE DEF F, m
  <2>7. Sound(F, m, base)
    BY <1>12, <2>2, <2>4, <2>5, <2>6, SoundFront
  <2>8. \A i \in 1 .. size : /\ ways[i] \in {"explored", "rendered", "plain"} => batch[i] \in DOMAIN job.site.pages
                             /\ ways[i] # "saturated"
    BY <1>6, <1>15
  <2>9. Live(run') /\ Later(base, run') /\ Sound(F, m + size, run')
    BY <1>1, <1>3, <1>11, <1>12, <1>13, <2>3, <2>4, <2>5, <2>7, <2>8, BatchConsumed
  <2>10. run'.level = rest /\ run'.rules = run.rules /\ run'.depth = run.depth
    BY <2>2, <2>9 DEF Later, SameButLevels
  <2>11. SameButLevels(run', run')
    BY DEF SameButLevels
  <2>12. m + size \in 0 .. Len(F)
    BY <1>3, <1>11, <2>5
  <2>13. LineIsSound(F \o run'.next, m + size, run')
    BY <1>12, <2>9, <2>11, <2>12, SoundFront
  <2>14. tried' \o run'.level \o run'.next = F \o run'.next /\ Len(tried') = m + size /\ tried' \in Seq(URLs)
    BY <1>6, <1>11, <1>12, <2>10 DEF m
  <2>15. /\ job' = job /\ job \in Jobs /\ ended' = ended /\ ended \in {"no", "deadline", "cancelled"}
         /\ phase' \in {"crawl", "finish"} /\ phase' # "finish"
         /\ run'.rules \in {<<>>, ParseRobotsRules(job.site.robots)}
    BY <1>1, <2>3, <2>10
  <2>16. LineIsSound(tried' \o run'.level \o run'.next, Len(tried'), run')
    BY <2>13, <2>14
  <2>17. MapIsSound'
    BY <2>9, <2>14, <2>15, <2>16, CrawlGoesOn
  <2>18. Len(rest) < Len(run.level)
    <3>1. batch \in Seq(URLs) /\ rest \in Seq(URLs)
      BY <1>7
    <3>2. Len(batch \o rest) = Len(batch) + Len(rest) /\ Len(batch) \in Nat /\ Len(rest) \in Nat
      BY <3>1, ConcatProperties
    <3>3. Len(run.level) = Len(batch) + Len(rest)
      BY <1>7, <3>2, Zenon
    <3>4. Len(batch) = size
      BY <1>7
    <3> QED BY <1>3, <3>2, <3>3, <3>4
  <2>19. Nearer
    BY <1>1, <2>3, <2>10, <2>18 DEF Nearer
  <2> QED BY <2>17, <2>19
<1> QED BY <1>14, <1>15

\* A level ends: pages that were not fetched leave the line, the next level takes their place.
LEMMA LevelEnds ==
  ASSUME MapIsSound, EndLevel
  PROVE  MapIsSound' /\ Nearer
<1> DEFINE warned == IF LevelRuns THEN Warn(run, "crawl page limit reached") ELSE run
<1>1. /\ Live(run) /\ run.rules \in {<<>>, ParseRobotsRules(job.site.robots)} /\ job \in Jobs /\ phase = "crawl"
      /\ ended \in {"no", "deadline", "cancelled"} /\ tried \in Seq(URLs) /\ tried' = tried
      /\ LineIsSound(tried \o run.level \o run.next, Len(tried), run)
      /\ CrawlIsPolite /\ ~(LevelRuns /\ ~AtPageLimit)
  BY DEF MapIsSound, MapTypeOK, MapInv, EndLevel, Live
<1>2. run.level \in Seq(URLs) /\ run.next \in Seq(URLs) /\ run \in Runs /\ run.toRead \in Seq(SiteScripts) /\ run.depth \in Nat
  BY <1>1 DEF Live, Runs
<1>3. CASE Refuse
  <2>1. PoliteLine(job.site.robots, run.rules, tried)
    BY <1>1 DEF PoliteLine, CrawlIsPolite
  <2> QED BY <1>1, <1>3, <2>1, RefuseStep, RefusedIsNearer
<1>4. CASE ~Refuse
  <2>1. PICK ok \in SUBSET ToSet(run.toRead) :
          LET found == Fold(LAMBDA r, s : IF s \in ok THEN AddEndpoints(r, job.site.scripts[s]) ELSE r, warned, run.toRead)
          IN /\ run' = [found EXCEPT !.toRead = <<>>, !.level = run.next, !.next = <<>>, !.depth = @ + 1]
             /\ phase' = IF run.depth + 1 < job.request.depth /\ run.next # <<>> THEN "crawl" ELSE "finish"
             /\ UNCHANGED <<job, ended>>
    BY <1>4 DEF EndLevel
  <2> DEFINE found == Scanning!Loop(ok, 0, warned, run.toRead)
             next == run.next
             deeper == found.depth + 1
  <2>2. run' = [found EXCEPT !.toRead = <<>>, !.level = next, !.next = <<>>, !.depth = deeper]
    BY <2>1 DEF Fold, Scanning!Loop, ReadScriptStep
  <2>3. Quiet(run, warned) /\ (LevelRuns => "crawl page limit reached" \in warned.warnings)
    <3>1. "crawl page limit reached" \in MapMessages
      BY DEF MapMessages
    <3> QED BY <1>1, <3>1, Warned, QuietIsReflexive
  <2> HIDE DEF warned
  <2>4. Quiet(warned, found)
    <3>1. Live(warned)
      BY <2>3 DEF Quiet
    <3> QED BY <1>1, <1>2, <3>1, ScriptsRead
  <2> HIDE DEF found
  <2>5. Quiet(run, found)
    BY <2>3, <2>4, QuietIsTransitive
  <2>6. Live(found) /\ SameCrawl(run, found) /\ Grown(run, found) /\ found \in Runs /\ IsFiniteSet(found.urls)
    BY <2>5 DEF Quiet, Live
  <2>7. next \in Seq(URLs) /\ deeper \in Nat /\ deeper = run.depth + 1
    BY <1>2, <2>6, Fields DEF SameCrawl
  <2> HIDE DEF next, deeper
  <2>8. run' \in Runs
    <3>1. <<>> \in Seq(SiteScripts) /\ <<>> \in Seq(URLs)
      OBVIOUS
    <3>2. [found EXCEPT !.toRead = <<>>, !.level = next, !.next = <<>>, !.depth = deeper] \in Runs
      BY <2>6, <2>7, <3>1 DEF Runs
    <3> QED BY <2>2, <3>2
  <2>9. SameButLevels(found, run') /\ run'.level = next /\ run'.next = <<>> /\ run'.depth = deeper
    BY <2>2, <2>6 DEF Runs, SameButLevels
  <2>10. Live(run')
    BY <2>6, <2>8, <2>9 DEF Live, SameButLevels
  <2> DEFINE line == tried \o run.level \o run.next
             shorter == tried \o next
             m == Len(tried)
  <2>11. LineIsPolite(line, run) /\ LineIsWhole(line, run) /\ PagesAreKept(line, m, run)
         /\ (\A p \in ToSet(run.pages) : PageIsWhole(run, p)) /\ (Expand(run.depth) \/ run.next = <<>>)
    BY <1>1 DEF LineIsSound
  <2>12. shorter \in Seq(URLs) /\ m \in 0 .. Len(tried)
    BY <1>1, <2>7
  <2>13. LineIsPolite(shorter, run)
    BY <1>1, <1>2, <2>11, LevelLeaves DEF next
  <2>14. PagesAreKept(shorter, m, run)
    <3> DEFINE ahead == run.level \o run.next
    <3>1. ahead \in Seq(URLs) /\ tried \o ahead = line
      <4> DEFINE a == tried
                 b == run.level
                 c == run.next
      <4>1. a \in Seq(URLs) /\ b \in Seq(URLs) /\ c \in Seq(URLs)
        BY <1>1, <1>2
      <4> HIDE DEF a, b, c
      <4>2. (a \o b) \o c = a \o (b \o c) /\ b \o c \in Seq(URLs)
        BY <4>1, Joined
      <4> QED BY <4>2 DEF a, b, c
    <3> HIDE DEF ahead, line, m
    <3>2. PagesAreKept(tried \o ahead, m, run)
      BY <2>11, <3>1
    <3>3. PagesAreKept(tried, m, run)
      BY <1>1, <2>12, <3>1, <3>2, PagesFront
    <3> QED BY <1>1, <2>7, <2>12, <3>3, PagesFront
  <2>15. CutOff(found) \/ shorter = line
    <3>1. CASE run.level = <<>>
      BY <1>1, <3>1 DEF next
    <3>2. CASE LevelRuns
      <4>1. "crawl page limit reached" \in found.warnings
        BY <2>3, <2>4, <3>2 DEF Quiet, Grown
      <4> QED BY <4>1 DEF CutOff
    <3>3. CASE ~LevelRuns /\ run.level # <<>>
      <4>1. CutOff(run)
        BY <3>3 DEF LevelRuns, CutOff
      <4> QED BY <1>1, <2>6, <4>1, CutOffStays
    <3> QED BY <3>1, <3>2, <3>3
  <2>16. LineIsPolite(shorter, found) /\ PagesAreKept(shorter, m, found)
    BY <1>1, <2>6, <2>13, <2>14, LineStays
  <2>17. LineIsWhole(shorter, found)
    <3>1. LineIsWhole(line, found)
      BY <1>1, <2>6, <2>11, LineStays
    <3> HIDE DEF line, shorter
    <3> QED BY <2>15, <3>1 DEF LineIsWhole
  <2>18. \A p \in ToSet(found.pages) : PageIsWhole(found, p)
    <3>1. found.pages = run.pages
      BY <2>6 DEF SameCrawl
    <3>2. Later(run, found)
      BY <1>1, <2>6, SameIsLater
    <3>3. \A p \in ToSet(run.pages) : p.url \in DOMAIN job.site.pages
      BY <2>11 DEF PagesAreKept
    <3> QED BY <1>1, <2>6, <2>11, <3>1, <3>2, <3>3, PageStays
  <2> HIDE DEF line, shorter, m
  <2>19. LineIsSound(shorter, m, run')
    <3>1. run'.pages = found.pages
      BY <2>9 DEF SameButLevels
    <3> QED BY <2>9, <2>16, <2>17, <2>18, <3>1, LevelDoesNotMatter DEF LineIsSound
  <2>20. tried' \o run'.level \o run'.next = shorter /\ Len(tried') = m
    <3>1. shorter \o <<>> = shorter
      BY <2>12
    <3> QED BY <1>1, <2>9, <3>1 DEF shorter, m
  <2>21. phase' = "finish" => run'.level \o run'.next = <<>>
    <3>1. phase' = "finish" => next = <<>>
      BY <2>1, <2>11 DEF Expand, next
    <3> QED BY <2>9, <3>1
  <2>22. phase' \in {"crawl", "finish"} /\ job' = job /\ ended' = ended /\ run'.rules \in {<<>>, ParseRobotsRules(job.site.robots)}
         /\ tried' \in Seq(URLs)
    <3>1. run'.rules = run.rules
      BY <2>6, <2>9 DEF SameButLevels, SameCrawl
    <3> QED BY <1>1, <2>1, <3>1
  <2>23. LineIsSound(tried' \o run'.level \o run'.next, Len(tried'), run')
    BY <2>19, <2>20
  <2>24. MapIsSound'
    BY <1>1, <2>10, <2>21, <2>22, <2>23, CrawlGoesOn
  <2>25. (phase' = "crawl" /\ run.depth + 1 < job.request.depth) \/ phase' = "finish"
    BY <2>1
  <2>26. Nearer
    BY <1>1, <2>7, <2>9, <2>25 DEF Nearer, StagesLeft
  <2> QED BY <2>24, <2>26
<1> QED BY <1>3, <1>4

\* Without rules nothing is blocked.
LEMMA NoRulesBlockNothing ==
  ASSUME NEW u PROVE ~Blocks(<<>>, u)
<1> DEFINE last == Ruling!Loop(u, 0, NoRule, <<>>)
           s == <<>>
<1>1. Blocks(<<>>, u) <=> last.name = "disallow"
  BY DEF Blocks, Fold, Ruling!Loop, RuleStep
<1> DEFINE J == {NoRule}
<1>2. Len(s) \in Nat /\ 1 .. Len(s) = {} /\ NoRule \in J
  OBVIOUS
<1> HIDE DEF s, J
<1>3. \A i \in 1 .. Len(s) : \A a \in J : RuleStep(u, 0, a, s[i]) \in J
  BY <1>2
<1>4. Ruling!Loop(u, 0, NoRule, s) \in J
  BY <1>2, <1>3, Ruling!LoopKeeps
<1>5. last = NoRule
  BY <1>4 DEF s, J
<1> HIDE DEF last
<1> QED BY <1>1, <1>5 DEF NoRule

\* Why pages of a finished run may be unread.
Stopped(r) == r.limited \/ Full(r) \/ "crawl page limit reached" \in r.warnings

\* What LinksAreAccountedFor says of the links listed, and of the pages that were tried.
Listed(r) == \A p \in ToSet(r.pages) : PageIsListed(r, p)

Followed(r, line) ==
  \A p \in ToSet(r.pages) : job.site.pages[p.url].html =>
    \A u \in Offered(p) :
      u # Nowhere /\ Permitted(u) /\ Expand(p.depth) =>
        \/ \E i \in DOMAIN line : Of[line[i]].canon = u
        \/ Disallowed(job.site.robots, u)
        \/ Cardinality({i \in DOMAIN line : Shape(line[i]) = Shape(u)}) >= ShapeSampleLimit
        \/ LooksLikeAnother(r, p)

\* When nothing was cut off, a sound line without pages to come was followed.
LEMMA SoundIsFollowed ==
  ASSUME job \in Jobs, NEW r, Live(r), NEW line \in Seq(URLs), LineIsSound(line, Len(line), r), ~CutOff(r),
         r.rules \in {<<>>, ParseRobotsRules(job.site.robots)}
  PROVE  Followed(r, line)
<1> SUFFICES ASSUME NEW p \in ToSet(r.pages), job.site.pages[p.url].html, NEW u \in Offered(p), u # Nowhere, Permitted(u),
                    Expand(p.depth)
             PROVE  \/ \E i \in DOMAIN line : Of[line[i]].canon = u
                    \/ Disallowed(job.site.robots, u)
                    \/ Cardinality({i \in DOMAIN line : Shape(line[i]) = Shape(u)}) >= ShapeSampleLimit
                    \/ LooksLikeAnother(r, p)
  BY DEF Followed
<1>1. PageIsFollowed(r, p) /\ LineIsWhole(line, r)
  BY DEF LineIsSound, PageIsWhole
<1>2. u \in r.queued \/ r.counts[Shape(u)] >= ShapeSampleLimit \/ LooksLikeAnother(r, p)
  BY <1>1 DEF PageIsFollowed
<1>3. ASSUME u \in r.queued
      PROVE  (\E i \in DOMAIN line : Of[line[i]].canon = u) \/ Disallowed(job.site.robots, u)
  <2>1. Blocks(r.rules, u) \/ \E i \in DOMAIN line : Of[line[i]].canon = u
    BY <1>1, <1>3 DEF LineIsWhole
  <2>2. Blocks(r.rules, u) => Disallowed(job.site.robots, u)
    BY JobRules, NoRulesBlockNothing
  <2> QED BY <2>1, <2>2
<1>4. ASSUME r.counts[Shape(u)] >= ShapeSampleLimit
      PROVE  Cardinality({i \in DOMAIN line : Shape(line[i]) = Shape(u)}) >= ShapeSampleLimit
  <2> DEFINE s == Shape(u)
             same == {i \in DOMAIN line : Shape(line[i]) = s}
  <2>1. u \in URLs
    <3>1. p.url \in DOMAIN job.site.pages
      BY DEF LineIsSound, PagesAreKept
    <3> QED BY <3>1, OfferedURLs
  <2>2. s \in Shapes
    BY <2>1 DEF Shapes
  <2>3. r.counts[s] <= Cardinality(InLine(line, s)) /\ r.counts[s] \in Nat /\ r.counts[s] >= ShapeSampleLimit
    BY <1>1, <1>4, <2>2, Fields DEF LineIsWhole, Live
  <2>4. IsFiniteSet(same) /\ InLine(line, s) \subseteq same
    <3>1. Len(line) \in Nat /\ DOMAIN line = 1 .. Len(line)
      OBVIOUS
    <3>2. IsFiniteSet(1 .. Len(line))
      <4>1. PICK n \in Nat : n = Len(line)
        BY <3>1
      <4>2. IsFiniteSet(1 .. n)
        BY FS_Interval
      <4> QED BY <4>1, <4>2
    <3>3. same \subseteq 1 .. Len(line)
      BY <3>1
    <3> QED BY <3>2, <3>3, FS_Subset DEF InLine
  <2> HIDE DEF same, s
  <2>5. Cardinality(InLine(line, s)) <= Cardinality(same) /\ Cardinality(same) \in Nat /\ Cardinality(InLine(line, s)) \in Nat
    BY <2>4, FS_Subset, FS_CardinalityType
  <2>6. Cardinality(same) >= ShapeSampleLimit
    BY <2>3, <2>5, SiteMapAssumption
  <2> QED BY <2>6 DEF same, s
<1> QED BY <1>2, <1>3, <1>4

\* What is listed stays listed.
LEMMA ListedStays ==
  ASSUME job' = job, run'.pages = run.pages, run'.urls = run.urls, run.limited => run'.limited, Listed(run)
  PROVE  (Listed(run))'
<1>1. /\ \A p : (Offered(p))' = Offered(p)
      /\ \A u : (Permitted(u))' <=> Permitted(u)
  BY SameJob
<1> QED BY <1>1 DEF Listed, PageIsListed

\* What was followed depends on the job and the pages.
LEMMA FollowedStays ==
  ASSUME job' = job, tried' = tried, run'.pages = run.pages, Followed(run, tried)
  PROVE  (Followed(run, tried))'
<1>1. \A p : (LooksLikeAnother(run, p))' <=> LooksLikeAnother(run, p)
  BY DEF LooksLikeAnother
<1>2. /\ \A p : (Offered(p))' = Offered(p)
      /\ \A u : (Permitted(u))' <=> Permitted(u)
      /\ \A d : (Expand(d))' <=> Expand(d)
  BY SameJob
<1> SUFFICES ASSUME NEW p \in ToSet(run'.pages), job'.site.pages[p.url].html, NEW u \in (Offered(p))', u # Nowhere,
                    (Permitted(u))', (Expand(p.depth))'
             PROVE  \/ \E i \in DOMAIN tried' : Of[tried'[i]].canon = u
                    \/ Disallowed(job'.site.robots, u)
                    \/ Cardinality({i \in DOMAIN tried' : Shape(tried'[i]) = Shape(u)}) >= ShapeSampleLimit
                    \/ (LooksLikeAnother(run, p))'
  BY DEF Followed
<1>3. p \in ToSet(run.pages) /\ job.site.pages[p.url].html /\ u \in Offered(p) /\ Permitted(u) /\ Expand(p.depth)
  BY <1>2
<1>4. \/ \E i \in DOMAIN tried : Of[tried[i]].canon = u
      \/ Disallowed(job.site.robots, u)
      \/ Cardinality({i \in DOMAIN tried : Shape(tried[i]) = Shape(u)}) >= ShapeSampleLimit
      \/ LooksLikeAnother(run, p)
  BY <1>3 DEF Followed
<1> QED BY <1>1, <1>4

\* The report: its links accounted for, its templates tight.
LEMMA FinishStep ==
  ASSUME MapIsSound, Finish
  PROVE  MapIsSound'
<1> DEFINE late == IF ended = "deadline" THEN [Warn(run, "duration limit reached") EXCEPT !.limited = TRUE] ELSE run
           outcome == IF run.urls = {} /\ run.sitemapsRead = 0 /\ ~run.pageRead THEN "failed" ELSE late.outcome
           templates == Templates(run.urls)
<1>1. /\ Live(run) /\ run.rules \in {<<>>, ParseRobotsRules(job.site.robots)} /\ job \in Jobs /\ phase = "finish"
      /\ ended \in {"no", "deadline", "cancelled"} /\ tried \in Seq(URLs) /\ tried' = tried /\ job' = job /\ ended' = ended
      /\ LineIsSound(tried \o run.level \o run.next, Len(tried), run)
      /\ CutOff(run) \/ run.level \o run.next = <<>>
      /\ CrawlIsPolite
      /\ phase' = IF ended = "cancelled" THEN "cancelled" ELSE "done"
      /\ run' = [late EXCEPT !.outcome = outcome, !.templates = templates]
  BY DEF MapIsSound, MapTypeOK, MapInv, Finish, Live
<1>2. run \in Runs /\ IsFiniteSet(run.urls) /\ run.urls \subseteq URLs /\ run.level \in Seq(URLs) /\ run.next \in Seq(URLs)
  BY <1>1 DEF Live, Runs
<1> HIDE DEF outcome, templates
<1>3. /\ run'.urls = run.urls /\ run'.pages = run.pages /\ run'.rules = run.rules /\ run'.templates = templates
      /\ run'.limited = (run.limited \/ ended = "deadline") /\ run.warnings \subseteq run'.warnings
  <2>1. CASE ended = "deadline"
    <3>1. run' = [[run EXCEPT !.warnings = @ \cup {"duration limit reached"}] EXCEPT !.limited = TRUE, !.outcome = outcome, !.templates = templates]
      BY <1>1, <2>1 DEF Warn
    <3> QED BY <1>2, <2>1, <3>1 DEF Runs
  <2>2. CASE ended # "deadline"
    <3>1. run' = [run EXCEPT !.outcome = outcome, !.templates = templates]
      BY <1>1, <2>2
    <3> QED BY <1>2, <2>2, <3>1 DEF Runs
  <2> QED BY <2>1, <2>2
<1> HIDE DEF late
<1>4. MapTypeOK'
  BY <1>1 DEF MapTypeOK
<1>5. CrawlIsPolite'
  <2>1. PoliteLine(job.site.robots, run.rules, tried)
    BY <1>1 DEF CrawlIsPolite, PoliteLine
  <2>2. PoliteLine(job.site.robots, run'.rules, tried)
    BY <1>3, <2>1
  <2> QED BY <1>1, <2>2 DEF CrawlIsPolite, PoliteLine
<1>6. LinksAreAccountedFor'
  <2> SUFFICES ASSUME phase' = "done"
               PROVE  (Listed(run))' /\ ((Stopped(run))' \/ (Followed(run, tried))')
    BY DEF LinksAreAccountedFor, Listed, PageIsListed, Followed, Stopped, Expand
  <2>1. (Listed(run))'
    <3>1. Listed(run)
      BY <1>1 DEF LineIsSound, PageIsWhole, Listed
    <3> QED BY <1>1, <1>3, <3>1, ListedStays
  <2> SUFFICES ASSUME ~(Stopped(run))' PROVE (Followed(run, tried))'
    BY <2>1
  <2>9. ~CutOff(run)
    <3>1. ended # "cancelled" /\ ended # "deadline" /\ ~run.limited /\ "crawl page limit reached" \notin run.warnings
      BY <1>1, <1>3 DEF Stopped
    <3>2. ~Full(run)
      BY <1>1, <1>3 DEF Full, Stopped
    <3> QED BY <1>1, <3>1, <3>2 DEF CutOff
  <2>2. tried \o run.level \o run.next = tried
    <3> DEFINE a == tried
               b == run.level
               c == run.next
    <3>1. a \in Seq(URLs) /\ b \in Seq(URLs) /\ c \in Seq(URLs) /\ b \o c = <<>>
      BY <1>1, <1>2, <2>9
    <3> HIDE DEF a, b, c
    <3>2. (a \o b) \o c = a \o (b \o c)
      BY <3>1, Joined
    <3>3. a \o <<>> = a
      BY <3>1
    <3> QED BY <3>1, <3>2, <3>3 DEF a, b, c
  <2>3. LineIsSound(tried, Len(tried), run)
    BY <1>1, <2>2
  <2>4. Followed(run, tried)
    BY <1>1, <2>9, <2>3, SoundIsFollowed
  <2> QED BY <1>1, <1>3, <2>4, FollowedStays
<1>7. TemplatesAreTight'
  <2>1. Tight(templates)
    BY <1>2, TemplatesTight DEF templates
  <2> QED BY <1>3, <2>1 DEF TemplatesAreTight, Tight, TightAt, Alike
<1>8. phase' \in {"done", "cancelled"} /\ (phase' = "done" => ended' # "cancelled")
  BY <1>1
<1> QED BY <1>4, <1>5, <1>6, <1>7, <1>8 DEF MapIsSound, MapInv

\* The context ends: from here on something was cut off.
LEMMA ContextStep ==
  ASSUME MapIsSound, NEW how \in {"deadline", "cancelled"}, ContextEnds(how)
  PROVE  MapIsSound'
<1>1. /\ Live(run) /\ run.rules \in {<<>>, ParseRobotsRules(job.site.robots)} /\ job \in Jobs
      /\ job' = job /\ phase' = phase /\ run' = run /\ tried' = tried /\ ended' = how
      /\ phase \in {"robots", "sitemaps", "crawl", "finish"} /\ tried \in Seq(URLs) /\ CrawlIsPolite
  BY DEF MapIsSound, MapTypeOK, MapInv, ContextEnds, Live
<1>2. CASE phase \in {"robots", "sitemaps"}
  <2>1. tried = <<>> /\ NotBegun(run)
    BY <1>2 DEF MapIsSound, MapInv
  <2> QED BY <1>1, <1>2, <2>1, BeforeCrawl
<1>3. CASE phase \in {"crawl", "finish"}
  <2> DEFINE line == tried \o run.level \o run.next
  <2>1. LineIsSound(line, Len(tried), run)
    BY <1>3 DEF MapIsSound, MapInv
  <2>2. (CutOff(run))'
    BY <1>1 DEF CutOff
  <2>3. (Live(run))'
    BY <1>1, SameJob
  <2>4. (LineIsSound(tried \o run.level \o run.next, Len(tried), run))'
    <3>1. (LineIsPolite(line, run))' /\ (PagesAreKept(line, Len(tried), run))' /\ (Expand(run.depth) \/ run.next = <<>>)'
      <4>1. \A l, r : (LineIsPolite(l, r))' <=> LineIsPolite(l, r)
        BY <1>1, SameLine
      <4>2. \A l, n, r : (PagesAreKept(l, n, r))' <=> PagesAreKept(l, n, r)
        BY <1>1, SameLine
      <4>3. LineIsPolite(line, run) /\ PagesAreKept(line, Len(tried), run) /\ (Expand(run.depth) \/ run.next = <<>>)
        BY <2>1 DEF LineIsSound
      <4> QED BY <1>1, <4>1, <4>2, <4>3, SameJob
    <3>2. (LineIsWhole(line, run))' /\ \A p : (PageIsFollowed(run, p))'
      BY <2>2 DEF LineIsWhole, PageIsFollowed
    <3>3. (\A p \in ToSet(run.pages) : PageIsWhole(run, p))'
      <4>1. \A p \in ToSet(run.pages) : PageIsListed(run, p)
        BY <2>1 DEF LineIsSound, PageIsWhole
      <4>2. \A p : (PageIsListed(run, p))' <=> PageIsListed(run, p)
        <5>1. \A r, p : (PageIsListed(r, p))' <=> PageIsListed(r, p)
          BY <1>1, SameListing
        <5> QED BY <1>1, <5>1 DEF PageIsListed
      <4> QED BY <1>1, <3>2, <4>1, <4>2 DEF PageIsWhole
    <3> QED BY <3>1, <3>2, <3>3 DEF LineIsSound
  <2>5. MapTypeOK'
    BY <1>1, <2>3 DEF MapTypeOK, Live
  <2>6. CrawlIsPolite'
    BY <1>1 DEF CrawlIsPolite
  <2>7. LinksAreAccountedFor' /\ TemplatesAreTight'
    BY <1>1 DEF LinksAreAccountedFor, TemplatesAreTight
  <2> QED BY <1>1, <1>3, <2>2, <2>4, <2>5, <2>6, <2>7 DEF MapIsSound, MapInv
<1> QED BY <1>1, <1>2, <1>3

\* Where nothing changes the invariant stays.
LEMMA SameStateSameInv ==
  ASSUME MapIsSound, job' = job, phase' = phase, ended' = ended, run' = run, tried' = tried
  PROVE  MapIsSound'
<1>1. MapTypeOK'
  <2>1. (Runs)' = Runs
    BY DEF Runs, SiteScripts
  <2> QED BY <2>1 DEF MapIsSound, MapTypeOK
<1>2. MapInv'
  <2>1. CrawlIsPolite' /\ LinksAreAccountedFor' /\ TemplatesAreTight'
    <3>1. CrawlIsPolite'
      <4>1. PoliteLine(job.site.robots, run.rules, tried)
        <5>1. CrawlIsPolite
          BY DEF MapIsSound, MapInv
        <5> QED BY ONLY <5>1, Zenon DEF CrawlIsPolite, PoliteLine
      <4> QED BY <4>1 DEF CrawlIsPolite, PoliteLine
    <3>2. LinksAreAccountedFor'
      <4> SUFFICES ASSUME phase' = "done"
                   PROVE  (Listed(run))' /\ ((Stopped(run))' \/ (Followed(run, tried))')
        BY DEF LinksAreAccountedFor, Listed, PageIsListed, Followed, Stopped, Expand
      <4>1. Listed(run) /\ (Stopped(run) \/ Followed(run, tried))
        <5>1. phase = "done" /\ LinksAreAccountedFor
          BY DEF MapIsSound, MapInv
        <5> QED BY <5>1 DEF LinksAreAccountedFor, Listed, PageIsListed, Followed, Stopped, Expand
      <4>2. Stopped(run) => (Stopped(run))'
        BY DEF Stopped, Full
      <4> QED BY <4>1, <4>2, ListedStays, FollowedStays
    <3>3. TemplatesAreTight'
      BY DEF MapIsSound, MapInv, TemplatesAreTight
    <3> QED BY <3>1, <3>2, <3>3
  <2>2. MapInv
    BY DEF MapIsSound
  <2>3. \A line, n, r : (LineIsSound(line, n, r))' <=> LineIsSound(line, n, r)
    BY SameContext
  <2>4. \A r : (CutOff(r))' <=> CutOff(r)
    BY SameContext
  <2>5. \A r : (NotBegun(r))' <=> NotBegun(r)
    BY SameLine
  <2> QED BY <2>1, <2>2, <2>3, <2>4, <2>5 DEF MapInv
<1> QED BY <1>1, <1>2 DEF MapIsSound

\* The invariant is inductive.
LEMMA StepKeepsInv == MapIsSound /\ [MapNext]_mapVars => MapIsSound'
<1> SUFFICES ASSUME MapIsSound, [MapNext]_mapVars PROVE MapIsSound'
  OBVIOUS
<1>1. CASE UNCHANGED mapVars
  BY <1>1, SameStateSameInv DEF mapVars
<1>2. ASSUME NEW read \in BOOLEAN, ReadRobots(read) PROVE MapIsSound'
  BY <1>2, RobotsStep
<1>3. CASE RobotsSaturated
  <2>1. tried = <<>> /\ tried' = <<>> /\ phase \notin {"done", "cancelled"} /\ Refuse
    BY <1>3 DEF RobotsSaturated, MapIsSound, MapInv
  <2>2. PoliteLine(job.site.robots, run.rules, <<>>)
    BY DEF PoliteLine
  <2> QED BY <2>1, <2>2, RefuseStep
<1>4. ASSUME NEW size \in 1 .. SitemapBatchSize, ReadSitemaps(size) PROVE MapIsSound'
  BY <1>4, SitemapsStep
<1>5. ASSUME NEW how \in {"deadline", "cancelled"}, ContextEnds(how) PROVE MapIsSound'
  BY <1>5, ContextStep
<1>6. CASE StartCrawl
  BY <1>6, StartStep
<1>7. CASE CrawlBatch
  BY <1>7, BatchOfPages
<1>8. CASE EndLevel
  BY <1>8, LevelEnds
<1>9. CASE Finish
  BY <1>9, FinishStep
<1> QED BY <1>1, <1>2, <1>3, <1>4, <1>5, <1>6, <1>7, <1>8, <1>9 DEF MapNext, MapStep

\* The line of pages is sound in every state, for every site, request and sizes
\* (sitemap/crawl.go crawl, consume, enqueue).
THEOREM MapStaysSound == MapSpec => [](MapTypeOK /\ MapInv)
<1>1. MapIsSound => MapTypeOK /\ MapInv
  BY DEF MapIsSound
<1> QED BY <1>1, InitMap, StepKeepsInv, PTL DEF MapSpec

\* No crawl fetches what robots.txt disallows, a page twice, or more of one shape than it samples
\* (crawl.go enqueue, urls.go parseRobotsRules and blocks, urlshape.go Sampler).
THEOREM MapStaysPolite == MapSpec => []CrawlIsPolite
<1>1. MapTypeOK /\ MapInv => CrawlIsPolite
  BY DEF MapInv
<1> QED BY <1>1, MapStaysSound, PTL

\* No map loses one of the links that are read of a page unless its report says it is limited, or leaves a
\* page unread that it should have fetched unless it is limited or full or warns of its page limit
\* (service.go add, crawl.go crawl, consume and enqueue, urls.go pageLinks).
THEOREM LinksStayAccountedFor == MapSpec => []LinksAreAccountedFor
<1>1. MapTypeOK /\ MapInv => LinksAreAccountedFor
  BY DEF MapInv
<1> QED BY <1>1, MapStaysSound, PTL

\* The templates of a report blur what varies and nothing else, whatever the URLs found
\* (urlshape.go collapse, templatePattern).
THEOREM TemplatesStayTight == MapSpec => []TemplatesAreTight
<1>1. MapTypeOK /\ MapInv => TemplatesAreTight
  BY DEF MapInv
<1> QED BY <1>1, MapStaysSound, PTL

\* Every step of a map takes it nearer to its end, or ends its context, once
\* (service.go Map, crawl.go crawl).
GoesForward == Nearer \/ (ended = "no" /\ ended' # "no" /\ UNCHANGED <<job, phase, run, tried>>)
MapsGoForward == [][GoesForward]_mapVars

\* No step of a map goes back, whatever sitemaps name each other, pages link to each other and loads
\* fail: it comes to a later stage, to fewer sitemaps or pages that may still be fetched, or to one of
\* the levels asked for. What EveryMapEnds needs besides is the fairness of these steps
\* (service.go Map, crawl.go crawl).
THEOREM EveryMapGoesForward == MapSpec => MapsGoForward
<1>1. ASSUME MapTypeOK /\ MapInv, [MapNext]_mapVars PROVE [GoesForward]_mapVars
  <2>0. MapIsSound
    BY <1>1 DEF MapIsSound
  <2>1. ASSUME NEW read \in BOOLEAN, ReadRobots(read) PROVE Nearer
    BY <2>1 DEF ReadRobots, Nearer, StagesLeft
  <2>2. ASSUME RobotsSaturated PROVE Nearer
    BY <2>2, RefusedIsNearer DEF RobotsSaturated
  <2>3. ASSUME NEW size \in 1 .. SitemapBatchSize, ReadSitemaps(size) PROVE Nearer
    BY <2>0, <2>3, SitemapsStep
  <2>4. ASSUME StartCrawl PROVE Nearer
    <3>1. phase = "sitemaps" /\ phase' \in {"finish", "crawl"}
      BY <2>4 DEF StartCrawl
    <3> QED BY <3>1 DEF Nearer, StagesLeft
  <2>5. ASSUME CrawlBatch PROVE Nearer
    BY <2>0, <2>5, BatchOfPages
  <2>6. ASSUME EndLevel PROVE Nearer
    BY <2>0, <2>6, LevelEnds
  <2>7. ASSUME Finish PROVE Nearer
    <3>1. phase = "finish" /\ phase' \in {"done", "cancelled"}
      BY <2>7 DEF Finish
    <3> QED BY <3>1 DEF Nearer, StagesLeft
  <2>8. ASSUME NEW how \in {"deadline", "cancelled"}, ContextEnds(how) PROVE GoesForward
    BY <2>8 DEF ContextEnds, GoesForward
  <2>9. ASSUME MapStep PROVE Nearer
    <3>1. \/ \E read \in BOOLEAN : ReadRobots(read)
          \/ RobotsSaturated
          \/ \E size \in 1 .. SitemapBatchSize : ReadSitemaps(size)
          \/ StartCrawl \/ CrawlBatch \/ EndLevel \/ Finish
      BY <2>9, Zenon DEF MapStep
    <3> QED BY <2>1, <2>2, <2>3, <2>4, <2>5, <2>6, <2>7, <3>1, Zenon
  <2> QED BY <1>1, <2>8, <2>9, Zenon DEF MapNext, GoesForward
<1> QED BY <1>1, MapStaysSound, PTL DEF MapSpec, MapsGoForward
=============================================================================
