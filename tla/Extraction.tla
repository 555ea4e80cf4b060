------------------------------ MODULE Extraction ------------------------------
(***************************************************************************)
(* WechatCloudWebProvider.extract: the texts of several pages. The pages   *)
(* are fetched side by side and share nothing, so that what becomes of     *)
(* each depends on its own attempts only.                                  *)
(***************************************************************************)
EXTENDS Integers, Sequences

CONSTANTS
    Sites,          \* addresses, by what is known of them
    Allowed,        \* those that are public and within the website policy
    MaxUrls,        \* pages a call may ask for
    FetchAttempts

ASSUME ExtractionConstants ==
    Allowed \subseteq Sites /\ {MaxUrls, FetchAttempts} \subseteq Nat \ {0}

\* How a fetch that is not blocked may end: with a text, with what is no text,
\* or badly: an error, a page too large, one without or with too little text.
FetchEnds == {"text", "unsupported", "bad"}

\* An attempt: the addresses it is led to, and how it ends there.
Fetches == [hops : UNION {[1..n -> Sites] : n \in 0..2}, end : FetchEnds]

Address(url, fetch) ==
    IF fetch.hops = <<>> THEN url ELSE fetch.hops[Len(fetch.hops)]

\* guard_redirect looks at every address before it is followed.
Fetched(fetch) ==
    IF \E i \in DOMAIN fetch.hops : fetch.hops[i] \notin Allowed THEN "blocked"
                                                                ELSE fetch.end

\* _extract_one: what was bad is tried again, what was blocked is not.
ExtractOne(url, attempts) ==
    LET settles(n) == Fetched(attempts[n]) # "bad"
        first == {n \in 1..FetchAttempts : settles(n) /\ \A k \in 1..(n - 1) : ~settles(k)}
        report(end, from, asked) == [end |-> end, from |-> from, asked |-> asked] IN
    IF url \notin Allowed THEN report("blocked", url, 0)
    ELSE IF first = {} THEN report("failed", url, FetchAttempts)
    ELSE LET n == CHOOSE n \in first : TRUE IN
         report(Fetched(attempts[n]), Address(url, attempts[n]), n)

\* extract: in the order of the urls; those past the limit are named, too.
Extract(urls, attempts) ==
    [i \in DOMAIN urls |->
        IF i > MaxUrls THEN [end |-> "skipped", from |-> urls[i], asked |-> 0]
                       ELSE ExtractOne(urls[i], attempts[i])]

-----------------------------------------------------------------------------
\* Whatever the pages do, every url has its report; a text is of an address
\* that was allowed and reached over allowed ones, after attempts that were
\* all bad; and nothing is given up while attempts are left.
ExtractionWellFormed ==
    \A urls \in UNION {[1..n -> Sites] : n \in {1, MaxUrls + 1}} :
      \A attempts \in [1..FetchAttempts -> Fetches] :
        LET reports == Extract(urls, [i \in DOMAIN urls |-> attempts]) IN
        \A i \in DOMAIN urls :
          LET report == reports[i]
              visited(n) == {attempts[n].hops[j] : j \in DOMAIN attempts[n].hops} IN
          /\ report.end = "skipped" <=> i > MaxUrls
          /\ report.end = "text" =>
               /\ {urls[i], report.from} \cup visited(report.asked) \subseteq Allowed
               /\ \A n \in 1..(report.asked - 1) : attempts[n].end = "bad"
          /\ report.end = "failed" =>
               \A n \in 1..FetchAttempts : attempts[n].end = "bad"
=============================================================================
