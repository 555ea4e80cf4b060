------------------------------- MODULE MCSearch ------------------------------
(* Nine rows: two addresses of one page, two more pages of its site, reviews,
   a page of a reference, one that is not public, one without a usable url. *)
EXTENDS Search

CONSTANTS t1, t2, open, closed

Url(host, path) ==
    [wrap |-> "none", scheme |-> "https", user |-> FALSE, host |-> host, port |-> 0,
     path |-> path, params |-> {}, resultPage |-> FALSE, blocked |-> FALSE]
Row(url, channel, site, inTitle, inText) ==
    [url |-> url, channel |-> channel, site |-> site, chinese |-> channel = "domestic",
     topical |-> FALSE, dated |-> TRUE, inTitle |-> inTitle, inText |-> inText, public |-> TRUE]

Story == Row(Url("news", "/a"), "international", "authoritative", 2, 0)
Review == Row(Url("tests", "/b"), "domestic", "review", 1, 1)

MCRows == {"story", "storyAgain", "other", "third", "review", "wiki", "private", "noUrl",
           "entry"}
MCInfo == [row \in MCRows |->
    CASE row = "story" -> Story
      [] row = "storyAgain" -> [Story EXCEPT !.url.params = {"utm"}, !.url.port = 443]
      [] row = "other" -> Row(Url("news", "/c"), "international", "authoritative", 1, 1)
      [] row = "third" -> Row(Url("news", "/d"), "international", "authoritative", 1, 2)
      [] row = "review" -> Review
      [] row = "wiki" -> Row(Url("wiki", "/e"), "international", "reference", 2, 2)
      [] row = "private" -> [Review EXCEPT !.url.path = "/f", !.public = FALSE]
      [] row = "noUrl" -> [Review EXCEPT !.url.wrap = "opaque"]
      [] row = "entry" -> Row(Url("docs", "/"), "official", "none", 1, 0)]

MCGives == [source \in WebSources \cup {"sogou", "baidu"} |->
    CASE source = "html" -> <<"wiki", "story", "third">>
      [] source = "news" -> <<"storyAgain">>
      [] source = "rss" -> <<"other">>
      [] source = "searxng" -> <<"private", "noUrl", "review">>
      [] source = "official" -> <<"entry">>
      [] source = "sogou" -> <<"review">>
      [] source = "baidu" -> <<"review", "storyAgain">>
      [] OTHER -> <<>>]

MCQueries == {{"freshness", "cjk"}, {"recommendation"}}
MCOtherQueries == {{}, {"dual_region", "cjk"}, {"analysis", "cjk"}, {"official"},
                   {"freshness", "cjk", "recommendation"}}
MCMobile == <<"sogou", "baidu">>
MCSites == {open, closed}
MCAllowed == {open}
MCThreads == {t1, t2}
Symmetry == Permutations(MCThreads)
=============================================================================
