------------------------------- MODULE Search --------------------------------
(***************************************************************************)
(* WechatCloudWebProvider.search, called by several threads of one process *)
(* for one query: the cache in memory, the cache on disk, the circuit over *)
(* all sources and the circuits of the mobile sources, and the attempts at *)
(* the sources themselves, some of which answer (SearchResults says what    *)
(* becomes of their rows).                                                 *)
(*                                                                         *)
(* A cached value is the time it was stored at. The monotonic clock and    *)
(* the epoch are one clock: the wall clock does not jump.                  *)
(***************************************************************************)
EXTENDS SearchResults, Extraction

CONSTANTS
    Threads,
    Queries,         \* sets of wishes, one of which the threads search for
    OtherQueries,    \* more of them, whose results are looked at as well
    Gives,           \* source -> its rows; the sources are those below
    Mobile,          \* the mobile sources in the order they are asked
    Attempts,        \* (2)
    TTL, StaleTTL,   \* cache limits (300 s, a day)
    Failures, OpenFor,             \* the circuit: 3 failed searches, 30 s
    SourceFailures, SourceOpenFor, \* a mobile source: 2 failures, 300 s
    MaxTime, MaxFaults             \* bounds

WebSources == {"direct", "feeds", "html", "news", "rss", "searxng", "official"}

ASSUME SearchConstants ==
    /\ Queries \cup OtherQueries \subseteq SUBSET Wishes
    /\ Limit \in Nat \ {0} /\ Attempts \in Nat \ {0}
    /\ Gives \in [WebSources \cup ToSet(Mobile) -> Seq(Rows)]
    /\ {TTL, Failures, OpenFor, SourceFailures, SourceOpenFor, MaxTime} \subseteq Nat \ {0}
    /\ {StaleTTL, MaxFaults} \subseteq Nat /\ Mobile \in Seq(STRING)

-----------------------------------------------------------------------------
(* What an attempt makes of the answers of the sources in `up`; those of the *)
(* mobile sources come last, but do not depend on the others.                *)

\* _official_entry_results: pages known for the very topic, and general ones
\* where official sources are asked for.
OfficialEntries(q) ==
    At(Gives["official"], {i \in DOMAIN Gives["official"] :
                             Info[Gives["official"][i]].topical \/ "official" \in q})

\* The site named and the feeds, Bing's pages, its news before them if news is
\* asked for, and its RSS if all that is little. `html` is what there is of
\* Bing's pages: they are asked for one after the other until one fails.
RawRows(q, up, html) ==
    LET of(source) == IF source \in up THEN Gives[source] ELSE <<>>
        pages == of("feeds") \o html
        found == IF "freshness" \in q THEN InterleaveResults(of("news"), pages, 4) ELSE pages
        raw == Gives["direct"] \o found IN
    IF Len(raw) < Limit THEN raw \o of("rss") ELSE raw

\* SearXNG is asked where these do not suffice. An answer of another shape
\* breaks the whole attempt.
PendingOf(q, raw, asked, shaped, mobile) ==
    IF asked /\ ~shaped THEN <<>>
    ELSE ToResolve(q, raw \o (IF asked THEN Gives["searxng"] ELSE <<>>)
                          \o First(mobile, Limit), OfficialEntries(q))
Pending(q, up, html, shaped, mobile) ==
    PendingOf(q, RawRows(q, up, html),
              "searxng" \in up /\ NeedsRegional(q, RawRows(q, up, html), OfficialEntries(q)),
              shaped, mobile)

\* Whichever sources answer, and whichever addresses resolve in time.
Results(q, mobile) ==
    LET ups == SUBSET {"feeds", "news", "rss", "searxng"}
        htmls == {First(Gives["html"], n) : n \in 0..Len(Gives["html"])} IN
    UNION { {SafeRanked(pending, resolved) : resolved \in SUBSET ToSet(pending)} :
            pending \in {Pending(q, up, html, shaped, mobile) :
                            up \in ups, html \in htmls, shaped \in BOOLEAN} }

\* What mobile source n adds to `rows`
News(rows, n) ==
    LET given == Addresses(Gives[Mobile[n]]) IN
    At(given, {i \in DOMAIN given : given[i] \notin ToSet(rows)})

\* All that those of the mobile sources add that answer: list after list, each
\* url once.
MobileRows ==
    {LET lists == [n \in up |-> Gives[Mobile[n]]] IN
     Addresses(Merged(lists, [p \in PlacesIn(lists) |-> 1])) : up \in SUBSET DOMAIN Mobile}

\* All of this once, for every query and what the mobile sources gave.
Outcomes == {[query |-> q, mobile |-> mobile, results |-> Results(q, mobile)] :
                q \in Queries \cup OtherQueries, mobile \in MobileRows}

-----------------------------------------------------------------------------
VARIABLES
    query, clock,
    memory, disk,    \* entries, or NoEntry
    circuit,         \* the circuit over all sources
    sources,         \* the circuits of the mobile sources
    thread,          \* what each thread is at
    faults

vars == <<query, clock, memory, disk, circuit, sources, thread, faults>>

NoEntry == [made |-> 0, fresh |-> 0, stale |-> 0]
Closed == [failures |-> 0, until |-> 0]
Idle == [pc |-> "idle", since |-> 0, now |-> 0, stale |-> FALSE, row |-> NoEntry,
         try |-> 0, at |-> 1, mobile |-> <<>>]

Init ==
    /\ query \in Queries /\ clock = 1 /\ memory = NoEntry /\ disk = NoEntry
    /\ circuit = Closed /\ sources = [s \in ToSet(Mobile) |-> Closed]
    /\ thread = [t \in Threads |-> Idle] /\ faults = 0

Fault == faults < MaxFaults /\ faults' = faults + 1
\* What it found out before does not matter any more.
Go(t, pc) ==
    thread' = [thread EXCEPT ![t] = [Idle EXCEPT !.pc = pc, !.since = thread[t].since]]
Answers(t) == thread' = [thread EXCEPT ![t] = Idle]
CacheOnly == UNCHANGED <<query, clock, circuit, sources>>

\* Both circuits: a success closes it, the n-th failure in a row opens it.
Record(c, success, n, time) ==
    IF success THEN Closed
    ELSE [failures |-> Least(c.failures + 1, n),
          until |-> IF c.failures + 1 >= n THEN clock + time ELSE c.until]
IsOpen(c) == clock < c.until

-----------------------------------------------------------------------------
(* _cached_search *)

\* A query without a subject is refused before this.
Begin(t) ==
    /\ thread[t].pc = "idle"
    /\ thread' = [thread EXCEPT ![t].pc = "look", ![t].since = clock]
    /\ CacheOnly /\ UNCHANGED <<memory, disk, faults>>

Usable(entry, stale) == entry.stale > clock /\ (stale \/ entry.fresh > clock)

LookHits(t) ==
    /\ thread[t].pc = "look" /\ Usable(memory, thread[t].stale) /\ Answers(t)
    /\ CacheOnly /\ UNCHANGED <<memory, disk, faults>>

LookMisses(t) ==
    /\ thread[t].pc = "look" /\ ~Usable(memory, thread[t].stale)
    /\ thread' = [thread EXCEPT ![t].pc = "load", ![t].now = clock]
    /\ memory' = IF memory.stale <= clock THEN NoEntry ELSE memory
    /\ CacheOnly /\ UNCHANGED <<disk, faults>>

LoadHits(t) ==
    /\ thread[t].pc = "load" /\ Usable(disk, thread[t].stale)
    /\ thread' = [thread EXCEPT ![t].pc = "fill", ![t].row = disk]
    /\ CacheOnly /\ UNCHANGED <<memory, disk, faults>>

\* A first look that finds nothing goes on; a last look ends the search.
LoadMisses(t) ==
    /\ thread[t].pc = "load"
    /\ \/ ~Usable(disk, thread[t].stale) /\ UNCHANGED faults
       \/ Usable(disk, thread[t].stale) /\ Fault
    /\ IF thread[t].stale THEN Answers(t) ELSE Go(t, "circuit")
    /\ CacheOnly /\ UNCHANGED <<memory, disk>>

Remaining(limit) == IF limit > clock THEN limit - clock ELSE 0

\* Faulty variant: an entry from disk lives as long as a new one.
FillAnew(t) ==
    /\ thread[t].pc = "fill" /\ Answers(t)
    /\ memory' = [made |-> thread[t].row.made, fresh |-> thread[t].now + TTL,
                  stale |-> thread[t].now + TTL + StaleTTL]
    /\ CacheOnly /\ UNCHANGED <<disk, faults>>

\* Whatever memory holds by now gives way to what was on disk.
Fill(t) ==
    LET row == thread[t].row IN
    /\ thread[t].pc = "fill" /\ Answers(t)
    /\ memory' = [made |-> row.made, fresh |-> thread[t].now + Remaining(row.fresh),
                  stale |-> thread[t].now + Remaining(row.stale)]
    /\ CacheOnly /\ UNCHANGED <<disk, faults>>

-----------------------------------------------------------------------------
(* search: the attempts *)

LastLook(t) == thread' = [thread EXCEPT ![t] = [Idle EXCEPT !.pc = "look",
                                                 !.since = thread[t].since, !.stale = TRUE]]

\* Chinese queries go to the mobile sources, too.
Attempt(t, try) ==
    thread' = [thread EXCEPT ![t] = [Idle EXCEPT !.since = thread[t].since, !.try = try,
                 !.pc = IF "cjk" \in query THEN "mobile" ELSE "rank"]]

CheckCircuit(t) ==
    /\ thread[t].pc = "circuit"
    /\ IF IsOpen(circuit) THEN LastLook(t)
       ELSE Attempt(t, 1)
    /\ CacheOnly /\ UNCHANGED <<memory, disk, faults>>

\* _search_domestic_mobile: one source after the other until there is enough.
\* A source that gives nothing new has failed, too.
AskMobile(t) ==
    LET me == thread[t]
        source == Mobile[me.at]
        new == News(me.mobile, me.at)
        enough(rows) == me.at = Len(Mobile) \/ Len(rows) >= Least(Limit, 5)
        goOn(rows) == thread' = [thread EXCEPT ![t] =
                        [me EXCEPT !.at = me.at + 1, !.mobile = rows,
                                   !.pc = IF enough(rows) THEN "rank" ELSE "mobile"]] IN
    /\ me.pc = "mobile"
    /\ \/ IsOpen(sources[source]) /\ UNCHANGED sources /\ goOn(me.mobile)
       \/ /\ ~IsOpen(sources[source]) /\ new # <<>> /\ goOn(me.mobile \o new)
          /\ sources' = [sources EXCEPT ![source] = Closed]
       \/ /\ ~IsOpen(sources[source]) /\ goOn(me.mobile)
          /\ sources' = [sources EXCEPT ![source] =
                           Record(@, FALSE, SourceFailures, SourceOpenFor)]
    /\ UNCHANGED <<query, clock, circuit, memory, disk, faults>>

\* The rows are ranked, and those whose address resolves in time are kept.
Conclude(t) ==
    /\ thread[t].pc = "rank"
    /\ \E outcome \in Outcomes :
         /\ outcome.query = query /\ outcome.mobile = thread[t].mobile
         /\ \/ outcome.results # {<<>>} /\ Go(t, "found")
            \/ /\ <<>> \in outcome.results
               /\ IF thread[t].try < Attempts THEN Attempt(t, thread[t].try + 1)
                                              ELSE Go(t, "failed")
    /\ CacheOnly /\ UNCHANGED <<memory, disk, faults>>

Succeeds(t) ==
    /\ thread[t].pc = "found" /\ Go(t, "store") /\ circuit' = Closed
    /\ UNCHANGED <<query, clock, sources, memory, disk, faults>>

Fails(t) ==
    /\ thread[t].pc = "failed" /\ LastLook(t)
    /\ circuit' = Record(circuit, FALSE, Failures, OpenFor)
    /\ UNCHANGED <<query, clock, sources, memory, disk, faults>>

\* _store_search: memory first,
Store(t) ==
    LET entry == [made |-> clock, fresh |-> clock + TTL, stale |-> clock + TTL + StaleTTL] IN
    /\ thread[t].pc = "store" /\ memory' = entry
    /\ thread' = [thread EXCEPT ![t] = [Idle EXCEPT !.pc = "persist", !.row = entry,
                                                    !.since = thread[t].since]]
    /\ CacheOnly /\ UNCHANGED <<disk, faults>>

\* then the disk, where a failure is only logged.
Persist(t) ==
    /\ thread[t].pc = "persist" /\ Answers(t)
    /\ \/ disk' = thread[t].row /\ UNCHANGED faults
       \/ Fault /\ UNCHANGED disk
    /\ CacheOnly /\ UNCHANGED memory

-----------------------------------------------------------------------------
(* Around it *)

Tick ==
    /\ clock < MaxTime /\ clock' = clock + 1
    /\ UNCHANGED <<query, memory, disk, circuit, sources, thread, faults>>

\* Other queries fill the 128 places of the cache in memory.
Evict ==
    /\ memory # NoEntry /\ memory' = NoEntry
    /\ CacheOnly /\ UNCHANGED <<disk, thread, faults>>

\* Other queries' rows are stored: what is past its limit goes, and so may the
\* oldest.
Prune ==
    /\ disk # NoEntry /\ (IF disk.stale <= clock THEN UNCHANGED faults ELSE Fault)
    /\ disk' = NoEntry /\ CacheOnly /\ UNCHANGED <<memory, thread>>

Restart ==
    /\ Fault /\ memory' = NoEntry /\ circuit' = Closed
    /\ sources' = [s \in ToSet(Mobile) |-> Closed] /\ thread' = [t \in Threads |-> Idle]
    /\ UNCHANGED <<query, clock, disk>>

Next ==
    \/ \E t \in Threads :
         \/ Begin(t) \/ LookHits(t) \/ LookMisses(t) \/ LoadHits(t) \/ LoadMisses(t) \/ Fill(t)
         \/ CheckCircuit(t) \/ AskMobile(t) \/ Conclude(t)
         \/ Succeeds(t) \/ Fails(t) \/ Store(t) \/ Persist(t)
    \/ Tick \/ Evict \/ Prune \/ Restart

Spec == Init /\ [][Next]_vars

-----------------------------------------------------------------------------
(* Properties *)

Entries == [made : 0..MaxTime, fresh : 0..(MaxTime + TTL),
            stale : 0..(MaxTime + TTL + StaleTTL)]

TypeOK ==
    /\ query \in Queries /\ clock \in 1..MaxTime /\ faults \in 0..MaxFaults
    /\ {memory, disk} \subseteq Entries /\ circuit.failures \in 0..Failures
    /\ \A s \in ToSet(Mobile) : sources[s].failures \in 0..SourceFailures
    /\ \A t \in Threads :
         /\ thread[t].pc \in {"idle", "look", "load", "fill", "circuit", "mobile",
                              "rank", "found", "failed", "store", "persist"}
         /\ thread[t].row \in Entries /\ thread[t].try \in 0..Attempts

\* A copy of an entry never lives longer than the entry itself, however often
\* and however late it is copied from disk to memory: an entry that is no longer
\* fresh when it is copied is not fresh afterwards either.
CopiesKeepLimits ==
    \A entry \in {memory, disk} \cup {thread[t].row : t \in Threads} :
        entry = NoEntry \/ /\ entry.fresh <= clock \/ entry.fresh <= entry.made + TTL
                           /\ entry.stale <= entry.made + TTL + StaleTTL

\* TypeOK, and the limits of copies.
CacheInv == TypeOK /\ CopiesKeepLimits

\* Whatever the sources gave and however many addresses resolved in time: the
\* results are of different pages, public, no more than asked for, and for
\* fresh news of different sites; and what is said to be of high quality is
\* not one page under several addresses.
ResultsWellFormed ==
    \A outcome \in Outcomes : \A web \in outcome.results :
        /\ Len(web) <= Limit
        /\ \A i \in DOMAIN web : WellFormed(web[i]) /\ Info[web[i]].public
        /\ \A i, j \in DOMAIN web : i # j =>
             /\ Page(web[i]) # Page(web[j])
             /\ "freshness" \in outcome.query => Host(web[i]) # Host(web[j])
        /\ Quality(outcome.query, web) = "high" =>
             Cardinality({Page(row) : row \in ToSet(web)}) >= 2

\* TypeOK, the limits of copies, and what is made of results and of pages.
SearchInv == CacheInv /\ ResultsWellFormed /\ ExtractionWellFormed

Served(t) == IF thread[t].pc = "look" THEN memory ELSE thread[t].row
Concludes(t, pcs) == thread[t].pc \in pcs /\ thread'[t] = Idle /\ faults' = faults

\* What a search answers from a cache was within its limit when the search
\* began: the fresh one, or, when the sources could not be asked or gave
\* nothing, the stale one; whatever other threads stored or copied meanwhile.
ServedWithinLimits ==
    [][\A t \in Threads : Concludes(t, {"look", "fill"}) =>
         thread[t].since < Served(t).made + TTL + IF thread[t].stale THEN StaleTTL ELSE 0]_vars
=============================================================================
