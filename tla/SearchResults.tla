---------------------------- MODULE SearchResults ----------------------------
(***************************************************************************)
(* What the web research provider makes of the rows its sources give it:   *)
(* how they are merged, told apart, ranked, spread over sites and regions  *)
(* and cut. A row is a member of Rows with what its url, text and site say *)
(* of it for the query; a query is the set of what its words ask for.      *)
(***************************************************************************)
EXTENDS Integers, SequencesExt, FiniteSets, TLC

CONSTANTS
    Rows,
    Info,       \* of a row: its url, channel and site, whether its text is dated,
                \* how many of the query's words title and text hold, and whether
                \* the address is public once it is resolved
    Limit       \* results asked for (1..10)

ASSUME RowsAreCounted ==
    \A row \in Rows : Info[row].inTitle \in Nat /\ Info[row].inText \in Nat

\* What a query may ask for: what _query_intents finds, a site by its name, and
\* whether it is Chinese. Its words make three ideas or more.
Specialized == {"official", "comparison", "recommendation", "fact_check", "how_to",
                "analysis", "dual_region"}
Wishes == Specialized \cup {"freshness", "direct", "cjk"}
Strict(q) == q \ {"cjk"} # {}

-----------------------------------------------------------------------------
(* A row *)

\* _normalized_result_url: an address behind Bing's own counts as itself.
WellFormed(row) ==
    LET url == Info[row].url IN
    /\ url.wrap # "opaque" /\ url.scheme \in {"http", "https"} /\ url.host # ""
    /\ ~url.user /\ ~url.resultPage /\ ~url.blocked

\* _canonical_result_key: what does not tell one page from another is left out.
Page(row) ==
    LET url == Info[row].url
        usual == <<url.scheme, url.port>> \in {<<"http", 80>>, <<"https", 443>>} IN
    [scheme |-> url.scheme, host |-> url.host, path |-> url.path,
     port |-> IF usual THEN 0 ELSE url.port,
     params |-> {p \in url.params : p \notin {"utm", "fbclid", "gclid", "msclkid", "spm",
                                              "from", "source", "ref", "referrer"}}]
Host(row) == Info[row].url.host

\* _result_source_type
Type(row) ==
    LET channel == Info[row].channel site == Info[row].site IN
    CASE channel = "direct" -> "specified"
      [] channel = "official" -> "official"
      [] site = "low_value" -> "secondary"
      [] site \in {"community", "review"} -> site
      [] site = "authoritative" \/ channel = "trusted-feed" -> "authoritative"
      [] OTHER -> "web"

\* _result_region
Region(row) ==
    IF Info[row].channel = "domestic" \/ Info[row].chinese THEN "domestic"
                                                          ELSE "international"

\* _result_relevance_score: nothing for a row that holds too few of the words,
\* or, of fresh news, that has none in its title or no date.
Relevance(q, row) ==
    LET info == Info[row]
        fresh == "freshness" \in q
        needed == IF q \cap Specialized # {} THEN 2 ELSE 1
        ofType == CASE Type(row) = "specified" -> 40 [] Type(row) = "official" -> 24
                    [] Type(row) = "authoritative" -> 10 [] Type(row) = "review" -> 8
                    [] Type(row) = "secondary" -> -6 [] Type(row) = "community" -> -4
                    [] OTHER -> 0
        ofRegion == IF "dual_region" \in q THEN 0
                    ELSE IF "cjk" \in q THEN IF Region(row) = "domestic" THEN 2 ELSE 0
                    ELSE IF Region(row) = "international" THEN 3 ELSE -2
        sum == 5 * info.inTitle + 2 * info.inText + ofType + ofRegion IN
    IF \/ fresh /\ (info.site = "reference" \/ info.inTitle = 0 \/ ~info.dated)
       \/ info.inTitle + info.inText < needed \/ sum <= 0
      THEN 0 ELSE sum

\* _result_is_hard_excluded
Excluded(q, row) == "analysis" \in q /\ Info[row].site \in {"reference", "low_value"}

-----------------------------------------------------------------------------
(* Sequences of rows *)

\* The members of a set in order: of each, `ahead` holds the ones before it.
Arranged(ahead) ==
    [k \in 1..Cardinality(DOMAIN ahead) |->
        CHOOSE x \in DOMAIN ahead : Cardinality(ahead[x]) = k - 1]

\* The subsequence of s at the indices I.
At(s, I) == LET order == Arranged([i \in I |-> {j \in I : j < i}]) IN
            [k \in DOMAIN order |-> s[order[k]]]
Least(m, n) == IF m < n THEN m ELSE n
First(s, n) == SubSeq(s, 1, Least(n, Len(s)))

\* The rows of several lists, by the round in which the place <<n, i>>, the
\* i-th of list n, has its turn, and in each round list by list.
PlacesIn(lists) == UNION {{n} \X DOMAIN lists[n] : n \in DOMAIN lists}
Merged(lists, round) ==
    LET before(o, p) == \/ round[o] < round[p]
                        \/ round[o] = round[p] /\ o[1] < p[1]
                        \/ round[o] = round[p] /\ o[1] = p[1] /\ o[2] < p[2]
        order == Arranged([p \in PlacesIn(lists) |-> {o \in PlacesIn(lists) : before(o, p)}]) IN
    [k \in DOMAIN order |-> lists[order[k][1]][order[k][2]]]

\* `weight` of the first for one of the second, as long as there are any.
InterleaveResults(first, second, weight) ==
    LET lists == <<first, second>> IN
    Merged(lists, [p \in PlacesIn(lists) |->
                      IF p[1] = 1 THEN (p[2] + weight - 1) \div weight ELSE p[2]])

\* Rows whose url will do, each url once.
Addresses(rows) ==
    At(rows, {i \in DOMAIN rows : WellFormed(rows[i]) /\
                                    \A j \in 1..(i - 1) : rows[j] # rows[i]})

\* Faulty variant: two addresses of a page are two results.
DistinctByUrl(rows) == Addresses(rows)

\* Rows whose url will do, each page once.
Distinct(rows) ==
    At(rows, {i \in DOMAIN rows : WellFormed(rows[i]) /\ \A j \in 1..(i - 1) :
                WellFormed(rows[j]) => Page(rows[j]) # Page(rows[i])})

OfRegion(rows, region) == At(rows, {i \in DOMAIN rows : Region(rows[i]) = region})

\* Where both regions are asked for they alternate; where fresh Chinese news
\* is, the second result is of the other region than the first.
Balanced(q, rows) ==
    LET domestic == OfRegion(rows, "domestic")
        international == OfRegion(rows, "international")
        ahead == IF Region(rows[1]) = "domestic" THEN domestic ELSE international
        behind == IF ahead = domestic THEN international ELSE domestic
        needed == IF Region(rows[1]) = "international" THEN domestic[1]
                                                          ELSE international[1] IN
    IF domestic = <<>> \/ international = <<>> THEN rows
    ELSE IF "dual_region" \in q THEN InterleaveResults(ahead, behind, 1)
    ELSE IF {"cjk", "freshness"} \subseteq q
      THEN <<rows[1], needed>> \o At(rows, {i \in 2..Len(rows) : rows[i] # needed})
    ELSE rows

\* Reviews of two sites at most go to the front of a recommendation.
Promoted(q, rows) ==
    LET reviews == {i \in DOMAIN rows : Type(rows[i]) = "review" /\
                      \A j \in 1..(i - 1) : Type(rows[j]) = "review" =>
                                              Host(rows[j]) # Host(rows[i])}
        front == {i \in reviews : Cardinality({j \in reviews : j < i}) < 2} IN
    IF "recommendation" \in q
      THEN At(rows, front) \o At(rows, DOMAIN rows \ front) ELSE rows

\* The relevant rows by relevance and place, then the others.
Sorted(q, rows, relevance) ==
    LET relevant == {i \in DOMAIN relevance : relevance[i] > 0}
        score == [i \in relevant |-> relevance[i] + 6 - Least(i, 6)]
        better(i, j) == score[i] > score[j] \/ (score[i] = score[j] /\ i < j)
        order == Arranged([i \in relevant |-> {j \in relevant : better(j, i)}]) IN
    [k \in DOMAIN order |-> rows[order[k]]]
        \o (IF Strict(q) THEN <<>> ELSE At(rows, DOMAIN relevance \ relevant))

\* Of one site one result for fresh news, and two before all others otherwise.
Spread(q, rows) ==
    LET sameHost(k) == {j \in 1..k : Host(rows[j]) = Host(rows[k])}
        diverse == {k \in DOMAIN rows : Cardinality(sameHost(k)) <=
                                          (IF "freshness" \in q THEN 1 ELSE 2)}
        spread(I) == At(rows, I)
                       \o IF "freshness" \in q THEN <<>> ELSE At(rows, DOMAIN rows \ I) IN
    spread(diverse)

\* _rank_search_results, of a query that has a word to look for: for one that
\* has none, which `search` has refused before, the code leaves the rows as they
\* are.
RankedBy(q, rows, relevance) ==
    IF \E i \in DOMAIN relevance : relevance[i] > 0
      THEN Promoted(q, Balanced(q, Spread(q, Sorted(q, rows, relevance))))
      ELSE Sorted(q, rows, relevance)
Ranked(q, rows) ==
    RankedBy(q, rows, [i \in {i \in DOMAIN rows : ~Excluded(q, rows[i])} |->
                           Relevance(q, rows[i])])

\* _needs_regional_search: too few rows, or too few of what was asked for.
Lacks(q, ranked) ==
    \/ Cardinality(ranked) < Least(2, Limit)
    \/ /\ "dual_region" \in q
       /\ ~({"domestic", "international"} \subseteq {Region(row) : row \in ranked})
    \/ "recommendation" \in q /\ \A row \in ranked : Type(row) # "review"
    \/ "analysis" \in q /\ \A row \in ranked :
                              Type(row) \notin {"official", "authoritative", "specified"}
NeedsRegional(q, raw, official) ==
    \/ Len(raw) < Limit
    \/ /\ q \cap {"freshness", "recommendation", "dual_region", "analysis"} # {}
       /\ Lacks(q, ToSet(Ranked(q, Distinct(First(raw \o official, 80)))))

\* The addresses to resolve, and what is left when `resolved` were before the
\* deadline or before there were enough. _public_result_url unwraps an address
\* once more; rows wrapped twice, which it may turn into a page that is in the
\* list already, are left out: the sources unwrap their rows once, and no row
\* here needs it again.
ToResolve(q, raw, official) ==
    First(Ranked(q, Distinct(First(Distinct(raw), 160) \o official)),
          IF 3 * Limit > 12 THEN 3 * Limit ELSE 12)
SafeRanked(pending, resolved) ==
    First(At(pending, {i \in DOMAIN pending : pending[i] \in resolved /\
                                                Info[pending[i]].public}), Limit)

\* _search_quality_metadata: how good the results are said to be.
Quality(q, web) ==
    LET hosts == Cardinality({Host(row) : row \in ToSet(web)})
        established == Cardinality({i \in DOMAIN web : Type(web[i]) \in
                         {"specified", "official", "authoritative", "review"}}) IN
    IF "recommendation" \in q /\ established = 0 THEN "low"
    ELSE IF \/ /\ q \cap {"official", "comparison"} # {}
               /\ Len(web) >= 2 /\ established >= 2
            \/ Len(web) >= 3 /\ hosts >= 3 /\ established >= 1 THEN "high"
    ELSE IF Len(web) >= 2 /\ hosts >= 2 THEN "medium" ELSE "low"
=============================================================================
