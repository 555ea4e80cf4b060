---------------------------- MODULE SearchProofs ----------------------------
(***************************************************************************)
(* Theorems about Search, SearchResults and Extraction: for any threads,   *)
(* limits and circuits, what a search serves from a cache is within its    *)
(* limit; for any sources, its results are of different pages, public and  *)
(* no more than asked for; and for any addresses, a page that is handed on *)
(* was reached over allowed addresses. The caches rest on SearchHolds,     *)
(* which says what a thread knows of the entry it is about to copy; the    *)
(* results on every step of the ranking taking lists without repetition to *)
(* such lists.                                                             *)
(***************************************************************************)
EXTENDS Search, WellFoundedInduction, FiniteSetTheorems, SequenceTheorems, TLAPS

-----------------------------------------------------------------------------
(* The inductive invariant *)

Places == {"idle", "look", "load", "fill", "circuit", "mobile", "rank", "found",
           "failed", "store", "persist"}
Circuits(n) == [failures : 0..n, until : Nat]

\* A new entry, and any that was read back from disk, has the limits it was
\* stored with.
KeepsLimits(entry) ==
    entry.fresh <= entry.made + TTL /\ entry.stale <= entry.made + TTL + StaleTTL

\* What a thread is at. The entry it copies was within its limit for the whole
\* of the search up to now, and is not yet over at the time it is counted from.
ThreadHolds(s, time) ==
    /\ DOMAIN s = DOMAIN Idle /\ s.pc \in Places
    /\ s.since \in 0..time /\ s.now \in 0..time
    /\ s.stale \in BOOLEAN /\ s.row \in Entries /\ s.try \in 0..Attempts
    /\ KeepsLimits(s.row)
    /\ s.pc = "fill" => /\ s.now < s.row.stale
                        /\ s.since < s.row.made + TTL + IF s.stale THEN StaleTTL ELSE 0

ThreadsHold == DOMAIN thread = Threads /\ \A t \in Threads : ThreadHolds(thread[t], clock)

\* An entry in memory may be a copy: then it has at most what is left of it.
MemoryHolds ==
    /\ memory \in Entries
    /\ memory.fresh <= clock \/ memory.fresh <= memory.made + TTL
    /\ memory.stale <= memory.made + TTL + StaleTTL

DiskHolds == disk \in Entries /\ KeepsLimits(disk)

SearchHolds ==
    /\ query \in Queries /\ clock \in 1..MaxTime /\ faults \in 0..MaxFaults
    /\ circuit \in Circuits(Failures)
    /\ sources \in [ToSet(Mobile) -> Circuits(SourceFailures)]
    /\ ThreadsHold /\ MemoryHolds /\ DiskHolds

-----------------------------------------------------------------------------
(* Lemmas *)

LEMMA Numbers ==
    /\ {TTL, Failures, OpenFor, SourceFailures, SourceOpenFor, MaxTime, Attempts}
         \subseteq Nat \ {0}
    /\ {StaleTTL, MaxFaults} \subseteq Nat
BY SearchConstants

LEMMA NoEntryHolds == NoEntry \in Entries /\ KeepsLimits(NoEntry)
BY Numbers DEF NoEntry, Entries, KeepsLimits

LEMMA IdleHolds == \A time \in Nat : ThreadHolds(Idle, time)
BY Numbers, NoEntryHolds DEF Idle, ThreadHolds, Places

\* Time passes, and everything a thread knows stays true.
LEMMA LaterHolds ==
    ASSUME NEW s, NEW time \in Nat, ThreadHolds(s, time)
    PROVE  ThreadHolds(s, time + 1)
BY DEF ThreadHolds

LEMMA RecordHolds ==
    ASSUME NEW c, NEW n \in Nat \ {0}, NEW time \in Nat, clock \in Nat,
           c \in Circuits(n), NEW success \in BOOLEAN
    PROVE  Record(c, success, n, time) \in Circuits(n)
<1>1. Closed \in Circuits(n)
  BY DEF Closed, Circuits
<1>2. [failures |-> Least(c.failures + 1, n),
       until |-> IF c.failures + 1 >= n THEN clock + time ELSE c.until] \in Circuits(n)
  BY DEF Circuits, Least
<1> QED BY <1>1, <1>2 DEF Record

\* One thread goes on.
LEMMA OneThread ==
    ASSUME ThreadsHold, clock' = clock, NEW t \in Threads, NEW s,
           thread' = [thread EXCEPT ![t] = s], ThreadHolds(s, clock)
    PROVE  ThreadsHold'
<1>1. DOMAIN thread' = Threads
  BY DEF ThreadsHold
<1>2. ASSUME NEW u \in Threads PROVE ThreadHolds(thread'[u], clock')
  <2>1. thread'[u] = IF u = t THEN s ELSE thread[u]
    BY DEF ThreadsHold
  <2> QED BY <2>1 DEF ThreadsHold
<1> QED BY <1>1, <1>2 DEF ThreadsHold

\* A thread that goes to another place, where it copies nothing.
LEMMA GoHolds ==
    ASSUME ThreadsHold, clock \in Nat, clock' = clock, NEW t \in Threads,
           NEW pc \in Places \ {"fill"}, Go(t, pc)
    PROVE  ThreadsHold'
<1> DEFINE s == [Idle EXCEPT !.pc = pc, !.since = thread[t].since]
<1>1. ThreadHolds(thread[t], clock)
  BY DEF ThreadsHold
<1>2. ThreadHolds(s, clock)
  BY <1>1, Numbers, NoEntryHolds DEF ThreadHolds, Idle
<1> QED BY <1>2, OneThread DEF Go

LEMMA AnswersHold ==
    ASSUME ThreadsHold, clock \in Nat, clock' = clock, NEW t \in Threads, Answers(t)
    PROVE  ThreadsHold'
BY IdleHolds, OneThread DEF Answers

LEMMA LastLookHolds ==
    ASSUME ThreadsHold, clock \in Nat, clock' = clock, NEW t \in Threads, LastLook(t)
    PROVE  ThreadsHold'
<1> DEFINE s == [Idle EXCEPT !.pc = "look", !.since = thread[t].since, !.stale = TRUE]
<1>1. ThreadHolds(thread[t], clock)
  BY DEF ThreadsHold
<1>2. ThreadHolds(s, clock)
  BY <1>1, Numbers, NoEntryHolds DEF ThreadHolds, Idle, Places
<1> QED BY <1>2, OneThread DEF LastLook

LEMMA AttemptHolds ==
    ASSUME ThreadsHold, clock \in Nat, clock' = clock, NEW t \in Threads,
           NEW try \in 0..Attempts, Attempt(t, try)
    PROVE  ThreadsHold'
<1> DEFINE place == IF "cjk" \in query THEN "mobile" ELSE "rank"
           s == [Idle EXCEPT !.since = thread[t].since, !.try = try, !.pc = place]
<1>1. ThreadHolds(thread[t], clock)
  BY DEF ThreadsHold
<1>2. place \in Places \ {"fill"}
  BY DEF Places
<1> HIDE DEF place
<1>3. ThreadHolds(s, clock)
  BY <1>1, <1>2, Numbers, NoEntryHolds DEF ThreadHolds, Idle
<1> QED BY <1>3, OneThread DEF Attempt, place

-----------------------------------------------------------------------------
(* The steps. Each keeps what no step but Tick and the start disturbs: the   *)
(* query and the clock stay, and faults are counted up to their bound.       *)

\* What a step of a thread leaves alone when it does not touch the caches.
Caches == <<clock, memory, disk>>

LEMMA CachesStay ==
    ASSUME MemoryHolds, DiskHolds, UNCHANGED Caches
    PROVE  MemoryHolds' /\ DiskHolds'
BY DEF Caches, MemoryHolds, DiskHolds, KeepsLimits

LEMMA FaultHolds ==
    ASSUME faults \in 0..MaxFaults, Fault \/ UNCHANGED faults
    PROVE  faults' \in 0..MaxFaults
BY Numbers DEF Fault

\* An entry with limits is one that memory may hold.
LEMMA RestHolds ==
    ASSUME SearchHolds, CacheOnly, Fault \/ UNCHANGED faults,
           ThreadsHold', MemoryHolds', DiskHolds'
    PROVE  SearchHolds'
BY FaultHolds DEF SearchHolds, CacheOnly

LEMMA StepBegin ==
    ASSUME SearchHolds, NEW t \in Threads, Begin(t)
    PROVE  SearchHolds'
<1> DEFINE s == [thread[t] EXCEPT !.pc = "look", !.since = clock]
<1>1. ThreadHolds(thread[t], clock) /\ clock \in Nat
  BY Numbers DEF SearchHolds, ThreadsHold
<1>2. /\ DOMAIN s = DOMAIN Idle /\ s.pc = "look" /\ s.since = clock
      /\ s.now = thread[t].now /\ s.stale = thread[t].stale /\ s.row = thread[t].row
      /\ s.try = thread[t].try
  BY <1>1 DEF ThreadHolds, Idle
<1>3. thread' = [thread EXCEPT ![t] = s]
  BY DEF Begin
<1> HIDE DEF s
<1>4. ThreadHolds(s, clock)
  BY <1>1, <1>2 DEF ThreadHolds, Places
<1>5. ThreadsHold'
  BY <1>3, <1>4, OneThread DEF SearchHolds, Begin, CacheOnly
<1> QED BY <1>5, CachesStay, RestHolds DEF SearchHolds, Begin, CacheOnly, Caches

LEMMA StepLookHits ==
    ASSUME SearchHolds, NEW t \in Threads, LookHits(t)
    PROVE  SearchHolds'
<1>1. ThreadsHold'
  BY Numbers, AnswersHold DEF SearchHolds, LookHits, CacheOnly
<1> QED BY <1>1, CachesStay, RestHolds DEF SearchHolds, LookHits, CacheOnly, Caches

LEMMA StepLookMisses ==
    ASSUME SearchHolds, NEW t \in Threads, LookMisses(t)
    PROVE  SearchHolds'
<1> DEFINE s == [thread[t] EXCEPT !.pc = "load", !.now = clock]
<1>1. ThreadHolds(thread[t], clock) /\ clock \in Nat
  BY Numbers DEF SearchHolds, ThreadsHold
<1>2. /\ DOMAIN s = DOMAIN Idle /\ s.pc = "load" /\ s.now = clock
      /\ s.since = thread[t].since /\ s.stale = thread[t].stale /\ s.row = thread[t].row
      /\ s.try = thread[t].try
  BY <1>1 DEF ThreadHolds, Idle
<1>3. thread' = [thread EXCEPT ![t] = s]
  BY DEF LookMisses
<1> HIDE DEF s
<1>4. ThreadHolds(s, clock)
  BY <1>1, <1>2 DEF ThreadHolds, Places
<1>5. ThreadsHold'
  BY <1>3, <1>4, OneThread DEF SearchHolds, LookMisses, CacheOnly
<1>6. memory' \in {memory, NoEntry}
  BY DEF LookMisses
<1>7. MemoryHolds' /\ DiskHolds'
  BY <1>6, NoEntryHolds DEF SearchHolds, MemoryHolds, DiskHolds, KeepsLimits, LookMisses,
     CacheOnly
<1> QED BY <1>5, <1>7, RestHolds DEF LookMisses

LEMMA StepLoadHits ==
    ASSUME SearchHolds, NEW t \in Threads, LoadHits(t)
    PROVE  SearchHolds'
<1> DEFINE s == [thread[t] EXCEPT !.pc = "fill", !.row = disk]
<1>1. ThreadHolds(thread[t], clock) /\ clock \in Nat /\ disk \in Entries /\ KeepsLimits(disk)
  BY Numbers DEF SearchHolds, ThreadsHold, DiskHolds
<1>2. /\ DOMAIN s = DOMAIN Idle /\ s.pc = "fill" /\ s.now = thread[t].now
      /\ s.since = thread[t].since /\ s.stale = thread[t].stale /\ s.row = disk
      /\ s.try = thread[t].try
  BY <1>1 DEF ThreadHolds, Idle
<1>3. thread' = [thread EXCEPT ![t] = s] /\ Usable(disk, thread[t].stale)
  BY DEF LoadHits
<1> HIDE DEF s
\* It was usable at a time that is not before the search began.
<1>4. /\ thread[t].now < disk.stale
      /\ thread[t].since < disk.made + TTL + IF thread[t].stale THEN StaleTTL ELSE 0
  <2>1. /\ thread[t].now <= clock /\ thread[t].since <= clock /\ clock < disk.stale
        /\ thread[t].now \in Nat /\ thread[t].since \in Nat
    BY <1>1, <1>3 DEF ThreadHolds, Usable
  <2>2. disk.made \in Nat /\ disk.fresh \in Nat /\ disk.stale \in Nat
    BY <1>1, Numbers DEF Entries
  <2>3. CASE thread[t].stale
    BY <2>1, <2>2, <2>3, <1>1, Numbers DEF KeepsLimits
  <2>4. CASE ~thread[t].stale
    <3>1. clock < disk.fresh
      BY <2>4, <1>3 DEF Usable
    <3> QED BY <3>1, <2>1, <2>2, <2>4, <1>1, Numbers DEF KeepsLimits
  <2> QED BY <2>3, <2>4
<1>5. ThreadHolds(s, clock)
  BY <1>1, <1>2, <1>4 DEF ThreadHolds, Places
<1>6. ThreadsHold'
  BY <1>3, <1>5, OneThread DEF SearchHolds, LoadHits, CacheOnly
<1> QED BY <1>6, CachesStay, RestHolds DEF SearchHolds, LoadHits, CacheOnly, Caches

LEMMA StepLoadMisses ==
    ASSUME SearchHolds, NEW t \in Threads, LoadMisses(t)
    PROVE  SearchHolds'
<1>1. Fault \/ UNCHANGED faults
  BY DEF LoadMisses
<1>2. ThreadsHold'
  BY Numbers, AnswersHold, GoHolds DEF SearchHolds, LoadMisses, CacheOnly, Places
<1> QED BY <1>1, <1>2, CachesStay, RestHolds DEF SearchHolds, LoadMisses, CacheOnly, Caches

\* What is left of an entry, counted from a time at which it was not over yet,
\* ends no later than the entry: a fresh time that is over ends at once.
LEMMA CopyHolds ==
    ASSUME SearchHolds, NEW t \in Threads, thread[t].pc = "fill",
           NEW fresh, NEW stale,
           fresh = thread[t].now + Remaining(thread[t].row.fresh),
           stale = thread[t].now + Remaining(thread[t].row.stale)
    PROVE  LET copy == [made |-> thread[t].row.made, fresh |-> fresh, stale |-> stale] IN
           /\ copy \in Entries
           /\ copy.fresh <= clock \/ copy.fresh <= copy.made + TTL
           /\ copy.stale <= copy.made + TTL + StaleTTL
<1> DEFINE row == thread[t].row
           now == thread[t].now
<1>1. /\ row \in Entries /\ KeepsLimits(row)
      /\ now \in 0..clock /\ now < row.stale /\ clock \in 1..MaxTime
  BY DEF SearchHolds, ThreadsHold, ThreadHolds
<1>2. /\ row.made \in 0..MaxTime /\ row.fresh \in 0..(MaxTime + TTL)
      /\ row.stale \in 0..(MaxTime + TTL + StaleTTL)
  BY <1>1 DEF Entries
<1> HIDE DEF row, now
<1>3. fresh \in Nat /\ (fresh <= clock \/ fresh <= row.fresh)
  BY <1>1, <1>2, Numbers DEF Remaining, row, now
<1>4. stale \in Nat /\ stale <= row.stale
  BY <1>1, <1>2, Numbers DEF Remaining, row, now
<1>5. /\ fresh \in 0..(MaxTime + TTL)
      /\ fresh <= clock \/ fresh <= row.made + TTL
  BY <1>1, <1>2, <1>3, Numbers DEF KeepsLimits
<1>6. /\ stale \in 0..(MaxTime + TTL + StaleTTL)
      /\ stale <= row.made + TTL + StaleTTL
  BY <1>1, <1>2, <1>4, Numbers DEF KeepsLimits
<1> QED BY <1>2, <1>5, <1>6 DEF Entries, row

LEMMA StepFill ==
    ASSUME SearchHolds, NEW t \in Threads, Fill(t)
    PROVE  SearchHolds'
<1>1. ThreadsHold'
  BY Numbers, AnswersHold DEF SearchHolds, Fill, CacheOnly
<1>2. MemoryHolds'
  BY CopyHolds DEF Fill, MemoryHolds, CacheOnly
<1>3. DiskHolds'
  BY DEF SearchHolds, DiskHolds, KeepsLimits, Fill
<1> QED BY <1>1, <1>2, <1>3, RestHolds DEF Fill

LEMMA StepCheckCircuit ==
    ASSUME SearchHolds, NEW t \in Threads, CheckCircuit(t)
    PROVE  SearchHolds'
<1>1. ThreadsHold'
  BY Numbers, LastLookHolds, AttemptHolds DEF SearchHolds, CheckCircuit, CacheOnly
<1> QED BY <1>1, CachesStay, RestHolds DEF SearchHolds, CheckCircuit, CacheOnly, Caches

LEMMA StepConclude ==
    ASSUME SearchHolds, NEW t \in Threads, Conclude(t)
    PROVE  SearchHolds'
<1>1. thread[t].try \in 0..Attempts /\ clock \in Nat /\ ThreadsHold /\ clock' = clock
  BY Numbers DEF SearchHolds, ThreadsHold, ThreadHolds, Conclude, CacheOnly
<1>2. \/ Go(t, "found") \/ Go(t, "failed")
      \/ thread[t].try < Attempts /\ Attempt(t, thread[t].try + 1)
  BY DEF Conclude
<1>3. ThreadsHold'
  BY <1>1, <1>2, Numbers, GoHolds, AttemptHolds DEF Places
<1> QED BY <1>3, CachesStay, RestHolds DEF SearchHolds, Conclude, CacheOnly, Caches

LEMMA StepAskMobile ==
    ASSUME SearchHolds, NEW t \in Threads, AskMobile(t)
    PROVE  SearchHolds'
<1> DEFINE enough(rows) == thread[t].at = Len(Mobile) \/ Len(rows) >= Least(Limit, 5)
           s(rows) == [thread[t] EXCEPT !.at = thread[t].at + 1, !.mobile = rows,
                                        !.pc = IF enough(rows) THEN "rank" ELSE "mobile"]
           source == Mobile[thread[t].at]
<1>1. ThreadHolds(thread[t], clock) /\ clock \in Nat /\ thread[t].pc = "mobile"
  BY Numbers DEF SearchHolds, ThreadsHold, AskMobile
<1>2. \E rows : thread' = [thread EXCEPT ![t] = s(rows)]
  <2> HIDE DEF enough
  <2> QED BY DEF AskMobile, enough
<1>3. PICK rows : thread' = [thread EXCEPT ![t] = s(rows)]
  BY <1>2
<1>5. /\ DOMAIN s(rows) = DOMAIN Idle /\ s(rows).pc \in {"rank", "mobile"}
      /\ s(rows).now = thread[t].now
      /\ s(rows).since = thread[t].since /\ s(rows).stale = thread[t].stale
      /\ s(rows).row = thread[t].row /\ s(rows).try = thread[t].try
  <2> HIDE DEF enough
  <2> QED BY <1>1 DEF ThreadHolds, Idle
<1>6. ThreadHolds(s(rows), clock)
  <2> HIDE DEF s
  <2> QED BY <1>1, <1>5 DEF ThreadHolds, Places
<1>7. ThreadsHold'
  <2> HIDE DEF s
  <2> QED BY <1>3, <1>6, OneThread DEF SearchHolds, AskMobile
<1>8. sources' \in [ToSet(Mobile) -> Circuits(SourceFailures)]
  <2> HIDE DEF s, source
  <2>1. sources \in [ToSet(Mobile) -> Circuits(SourceFailures)]
    BY DEF SearchHolds
  <2>2. CASE UNCHANGED sources
    BY <2>1, <2>2
  <2>3. CASE sources' = [sources EXCEPT ![source] = Closed]
    <3>1. Closed \in Circuits(SourceFailures)
      BY Numbers DEF Closed, Circuits
    <3> QED BY <2>1, <2>3, <3>1
  <2>4. CASE sources' = [sources EXCEPT ![source] =
                           Record(@, FALSE, SourceFailures, SourceOpenFor)]
    <3>1. source \in ToSet(Mobile) =>
            Record(sources[source], FALSE, SourceFailures, SourceOpenFor)
              \in Circuits(SourceFailures)
      BY <1>1, <2>1, Numbers, RecordHolds
    <3> QED BY <2>1, <2>4, <3>1
  <2> QED BY <2>2, <2>3, <2>4 DEF AskMobile, source
<1>9. MemoryHolds' /\ DiskHolds'
  BY CachesStay DEF SearchHolds, AskMobile, Caches
<1> QED BY <1>7, <1>8, <1>9 DEF SearchHolds, AskMobile

LEMMA StepSucceeds ==
    ASSUME SearchHolds, NEW t \in Threads, Succeeds(t)
    PROVE  SearchHolds'
<1>1. ThreadsHold'
  BY Numbers, GoHolds DEF SearchHolds, Succeeds, Places
<1>2. circuit' \in Circuits(Failures)
  BY Numbers DEF Succeeds, Closed, Circuits
<1>3. MemoryHolds' /\ DiskHolds'
  BY CachesStay DEF SearchHolds, Succeeds, Caches
<1> QED BY <1>1, <1>2, <1>3 DEF SearchHolds, Succeeds

LEMMA StepFails ==
    ASSUME SearchHolds, NEW t \in Threads, Fails(t)
    PROVE  SearchHolds'
<1>1. ThreadsHold'
  BY Numbers, LastLookHolds DEF SearchHolds, Fails
<1>2. circuit' \in Circuits(Failures)
  <2>1. /\ clock \in Nat /\ OpenFor \in Nat /\ Failures \in Nat \ {0}
        /\ circuit \in Circuits(Failures) /\ FALSE \in BOOLEAN
    BY Numbers DEF SearchHolds
  <2>2. Record(circuit, FALSE, Failures, OpenFor) \in Circuits(Failures)
    BY <2>1, RecordHolds
  <2> QED BY <2>2 DEF Fails
<1>3. MemoryHolds' /\ DiskHolds'
  BY CachesStay DEF SearchHolds, Fails, Caches
<1> QED BY <1>1, <1>2, <1>3 DEF SearchHolds, Fails

LEMMA StepStore ==
    ASSUME SearchHolds, NEW t \in Threads, Store(t)
    PROVE  SearchHolds'
<1> DEFINE entry == [made |-> clock, fresh |-> clock + TTL,
                     stale |-> clock + TTL + StaleTTL]
           s == [Idle EXCEPT !.pc = "persist", !.row = entry, !.since = thread[t].since]
<1>1. ThreadHolds(thread[t], clock) /\ clock \in 1..MaxTime /\ clock \in Nat
  BY Numbers DEF SearchHolds, ThreadsHold
<1>2. entry \in Entries /\ KeepsLimits(entry)
  BY <1>1, Numbers DEF Entries, KeepsLimits
<1>3. thread' = [thread EXCEPT ![t] = s] /\ memory' = entry
  BY DEF Store
<1> HIDE DEF entry
<1>4. ThreadHolds(s, clock)
  BY <1>1, <1>2, Numbers DEF ThreadHolds, Idle, Places
<1>5. ThreadsHold'
  BY <1>3, <1>4, OneThread DEF SearchHolds, Store, CacheOnly
<1>6. MemoryHolds' /\ DiskHolds'
  BY <1>2, <1>3 DEF SearchHolds, MemoryHolds, DiskHolds, KeepsLimits, Store, CacheOnly
<1> QED BY <1>5, <1>6, RestHolds DEF Store

LEMMA StepPersist ==
    ASSUME SearchHolds, NEW t \in Threads, Persist(t)
    PROVE  SearchHolds'
<1>1. thread[t].row \in Entries /\ KeepsLimits(thread[t].row)
  BY DEF SearchHolds, ThreadsHold, ThreadHolds
<1>2. ThreadsHold'
  BY Numbers, AnswersHold DEF SearchHolds, Persist, CacheOnly
<1>3. MemoryHolds'
  BY DEF SearchHolds, MemoryHolds, Persist, CacheOnly
<1>4. DiskHolds'
  BY <1>1 DEF SearchHolds, DiskHolds, KeepsLimits, Persist
<1> QED BY <1>2, <1>3, <1>4, RestHolds DEF Persist

LEMMA StepTick == ASSUME SearchHolds, Tick PROVE SearchHolds'
<1>1. clock' \in 1..MaxTime /\ clock \in Nat /\ clock' = clock + 1
  BY Numbers DEF SearchHolds, Tick
<1>2. ThreadsHold'
  BY <1>1, LaterHolds DEF SearchHolds, ThreadsHold, Tick
<1>3. MemoryHolds'
  BY <1>1, Numbers DEF SearchHolds, MemoryHolds, Entries, Tick
<1>4. DiskHolds'
  BY DEF SearchHolds, DiskHolds, KeepsLimits, Tick
<1> QED BY <1>1, <1>2, <1>3, <1>4 DEF SearchHolds, Tick

\* Memory, or the disk, forgets the entry.
LEMMA StepForget == ASSUME SearchHolds, Evict \/ Prune PROVE SearchHolds'
<1>1. UNCHANGED thread /\ CacheOnly /\ (Fault \/ UNCHANGED faults)
  BY DEF Evict, Prune
<1>2. ThreadsHold'
  BY <1>1 DEF SearchHolds, ThreadsHold, CacheOnly
<1>3. MemoryHolds'
  BY NoEntryHolds DEF SearchHolds, MemoryHolds, KeepsLimits, Evict, Prune, CacheOnly
<1>4. DiskHolds'
  BY NoEntryHolds DEF SearchHolds, DiskHolds, KeepsLimits, Evict, Prune
<1> QED BY <1>1, <1>2, <1>3, <1>4, RestHolds

LEMMA StepRestart == ASSUME SearchHolds, Restart PROVE SearchHolds'
<1>1. clock' = clock /\ clock \in Nat
  BY Numbers DEF SearchHolds, Restart
<1>2. ThreadsHold'
  BY <1>1, IdleHolds DEF ThreadsHold, Restart
<1>3. MemoryHolds' /\ DiskHolds'
  BY NoEntryHolds DEF SearchHolds, MemoryHolds, DiskHolds, KeepsLimits, Restart
<1>4. /\ circuit' \in Circuits(Failures)
      /\ sources' \in [ToSet(Mobile) -> Circuits(SourceFailures)]
  BY Numbers DEF Restart, Closed, Circuits
<1>5. faults' \in 0..MaxFaults
  BY FaultHolds DEF SearchHolds, Restart
<1> QED BY <1>2, <1>3, <1>4, <1>5 DEF SearchHolds, Restart

LEMMA StepKeeps ==
    ASSUME SearchHolds, [Next]_vars
    PROVE  SearchHolds'
<1>1. ASSUME NEW t \in Threads,
             \/ Begin(t) \/ LookHits(t) \/ LookMisses(t) \/ LoadHits(t) \/ LoadMisses(t)
             \/ Fill(t)
      PROVE  SearchHolds'
  BY <1>1, StepBegin, StepLookHits, StepLookMisses, StepLoadHits, StepLoadMisses, StepFill
<1>2. ASSUME NEW t \in Threads,
             \/ CheckCircuit(t) \/ AskMobile(t) \/ Conclude(t) \/ Succeeds(t) \/ Fails(t)
             \/ Store(t) \/ Persist(t)
      PROVE  SearchHolds'
  BY <1>2, StepCheckCircuit, StepAskMobile, StepConclude, StepSucceeds, StepFails,
     StepStore, StepPersist
<1>3. CASE UNCHANGED vars
  BY <1>3 DEF vars, SearchHolds, ThreadsHold, MemoryHolds, DiskHolds, KeepsLimits
<1> QED BY <1>1, <1>2, <1>3, StepTick, StepForget, StepRestart DEF Next

LEMMA StartHolds == ASSUME Init PROVE SearchHolds
<1>1. ThreadsHold
  BY IdleHolds DEF Init, ThreadsHold
<1>2. MemoryHolds /\ DiskHolds
  BY NoEntryHolds DEF Init, MemoryHolds, DiskHolds, KeepsLimits
<1>3. circuit \in Circuits(Failures) /\ sources \in [ToSet(Mobile) -> Circuits(SourceFailures)]
  BY Numbers DEF Init, Closed, Circuits
<1> QED BY <1>1, <1>2, <1>3, Numbers DEF Init, SearchHolds

-----------------------------------------------------------------------------
(* The theorems about the caches *)

\* What the caches hold, and what each thread knows of the entry it copies.
THEOREM SearchHoldsAlways == Spec => []SearchHolds
<1>1. Init => SearchHolds
  BY StartHolds
<1>2. SearchHolds /\ [Next]_vars => SearchHolds'
  BY StepKeeps
<1> QED BY <1>1, <1>2, PTL DEF Spec

\* Search keeps its types, and a copy of an entry never lives longer than the
\* entry, however late and however often it is copied from disk to memory
\* (_cached_search).
THEOREM CacheInvHolds == Spec => []CacheInv
<1>1. SearchHolds => CacheInv
  <2> SUFFICES ASSUME SearchHolds PROVE CacheInv
    OBVIOUS
  <2>1. TypeOK
    BY DEF SearchHolds, ThreadsHold, MemoryHolds, DiskHolds, ThreadHolds, TypeOK, Circuits,
       Places
  <2>2. CopiesKeepLimits
    BY DEF SearchHolds, ThreadsHold, MemoryHolds, DiskHolds, ThreadHolds, CopiesKeepLimits,
       KeepsLimits
  <2> QED BY <2>1, <2>2 DEF CacheInv
<1> QED BY <1>1, SearchHoldsAlways, PTL

\* Only the step with the answer ends a search without a fault.
LEMMA Concluding ==
    ASSUME SearchHolds, [Next]_vars, NEW t \in Threads, thread'[t] = Idle,
           thread[t].pc # "idle", faults' = faults
    PROVE  LookHits(t) \/ LoadMisses(t) \/ Fill(t) \/ Persist(t)
<1>1. Idle.pc = "idle"
  BY DEF Idle
<1>2. thread' # thread
  BY <1>1
<1>3. t \in DOMAIN thread
  BY DEF SearchHolds, ThreadsHold
<1>4. ~UNCHANGED vars /\ ~Tick /\ ~Evict /\ ~Prune
  BY <1>2 DEF vars, Tick, Evict, Prune
<1>5. ~Restart
  BY DEF Restart, Fault, SearchHolds
<1>6. PICK u \in Threads :
         \/ Begin(u) \/ LookHits(u) \/ LookMisses(u) \/ LoadHits(u) \/ LoadMisses(u)
         \/ Fill(u) \/ CheckCircuit(u) \/ AskMobile(u) \/ Conclude(u)
         \/ Succeeds(u) \/ Fails(u) \/ Store(u) \/ Persist(u)
  BY <1>4, <1>5 DEF Next
<1>7. \E s : thread' = [thread EXCEPT ![u] = s]
  BY <1>6 DEF Begin, LookHits, LookMisses, LoadHits, LoadMisses, Fill, CheckCircuit,
     AskMobile, Conclude, Succeeds, Fails, Store, Persist, Go, Answers, LastLook, Attempt
<1>8. u = t
  BY <1>1, <1>3, <1>7
<1>9. thread'[t].pc = "idle" /\ "pc" \in DOMAIN thread[t] /\ "now" \in DOMAIN thread[t]
  BY <1>1 DEF SearchHolds, ThreadsHold, ThreadHolds, Idle
<1>10. ASSUME NEW pc, thread'[t] = [Idle EXCEPT !.pc = pc, !.since = thread[t].since]
       PROVE  pc = "idle"
  BY <1>9, <1>10 DEF Idle
<1>11. ~LastLook(t) /\ \A pc : Go(t, pc) => pc = "idle"
  BY <1>3, <1>9, <1>10 DEF LastLook, Go, Idle
<1>12. \A try : ~Attempt(t, try)
  BY <1>3, <1>9 DEF Attempt, Idle
<1>13. ~Begin(t) /\ ~LookMisses(t) /\ ~LoadHits(t)
  BY <1>3, <1>9 DEF Begin, LookMisses, LoadHits
<1>14. ~CheckCircuit(t) /\ ~Conclude(t) /\ ~Succeeds(t) /\ ~Fails(t) /\ ~Store(t)
  BY <1>3, <1>9, <1>11, <1>12 DEF CheckCircuit, Conclude, Succeeds, Fails, Store, Idle
<1>15. ~AskMobile(t)
  BY <1>3, <1>9 DEF AskMobile
<1> QED
  BY <1>6, <1>8, <1>13, <1>14, <1>15

\* What a search answers from a cache was within its limit when it began, the
\* fresh or the stale one, whatever other threads stored or copied meanwhile
\* (_cached_search, _store_search).
THEOREM ServedHolds == Spec => ServedWithinLimits
<1> DEFINE Within(t) ==
        thread[t].since < Served(t).made + TTL + IF thread[t].stale THEN StaleTTL ELSE 0
<1>1. ASSUME SearchHolds, [Next]_vars, NEW t \in Threads, Concludes(t, {"look", "fill"})
      PROVE  Within(t)
  <2>1. LookHits(t) \/ LoadMisses(t) \/ Fill(t) \/ Persist(t)
    BY <1>1, Concluding DEF Concludes
  <2>2. thread[t].pc \in {"look", "fill"} /\ ThreadHolds(thread[t], clock)
    BY <1>1 DEF Concludes, SearchHolds, ThreadsHold
  <2>3. CASE thread[t].pc = "fill"
    BY <2>2, <2>3 DEF ThreadHolds, Served
  <2>4. CASE thread[t].pc = "look"
    <3>1. Usable(memory, thread[t].stale) /\ Served(t) = memory
      BY <2>1, <2>4 DEF LookHits, LoadMisses, Fill, Persist, Served
    <3>2. /\ thread[t].since \in Nat /\ clock \in Nat /\ thread[t].since <= clock
          /\ memory.made \in Nat /\ memory.fresh \in Nat /\ memory.stale \in Nat
          /\ clock < memory.stale /\ memory.stale <= memory.made + TTL + StaleTTL
          /\ ~thread[t].stale => clock < memory.fresh
          /\ memory.fresh <= clock \/ memory.fresh <= memory.made + TTL
      BY <1>1, <2>2, <3>1, Numbers DEF SearchHolds, MemoryHolds, ThreadHolds, Entries, Usable
    <3>3. CASE thread[t].stale
      BY <3>1, <3>2, <3>3, Numbers
    <3>4. CASE ~thread[t].stale
      BY <3>1, <3>2, <3>4, Numbers
    <3> QED BY <3>3, <3>4
  <2> QED BY <2>2, <2>3, <2>4
<1>2. SearchHolds /\ [Next]_vars =>
        [\A t \in Threads : Concludes(t, {"look", "fill"}) => Within(t)]_vars
  BY <1>1
<1> QED BY <1>2, SearchHoldsAlways, PTL DEF Spec, ServedWithinLimits

-----------------------------------------------------------------------------
(* Extraction *)

Below == OpToRel(<, Nat)

\* If an attempt has a property, there is a first one that has it.
LEMMA FirstExists ==
    ASSUME NEW S \in SUBSET Nat, S # {}
    PROVE  \E n \in S : \A k \in S : ~(k < n)
<1>1. IsWellFoundedOn(Below, Nat)
  BY NatLessThanWellFounded DEF OpToRel, Below
<1>2. PICK n \in S : \A k \in S : ~(<<k, n>> \in Below)
  BY <1>1, WFMin
<1> QED BY <1>2 DEF OpToRel, Below

\* What one page is reported as: a text only over allowed addresses and after
\* attempts that were all bad, and a failure only when all of them were.
LEMMA OneExtracted ==
    ASSUME NEW url \in Sites, NEW attempts \in [1..FetchAttempts -> Fetches]
    PROVE  LET report == ExtractOne(url, attempts)
               visited(n) == {attempts[n].hops[j] : j \in DOMAIN attempts[n].hops} IN
           /\ report.end # "skipped"
           /\ report.end = "text" =>
                /\ {url, report.from} \cup visited(report.asked) \subseteq Allowed
                /\ \A n \in 1..(report.asked - 1) : attempts[n].end = "bad"
           /\ report.end = "failed" => \A n \in 1..FetchAttempts : attempts[n].end = "bad"
<1> DEFINE settles(n) == Fetched(attempts[n]) # "bad"
           first == {n \in 1..FetchAttempts : settles(n) /\ \A k \in 1..(n - 1) : ~settles(k)}
           visited(n) == {attempts[n].hops[j] : j \in DOMAIN attempts[n].hops}
<1>1. FetchAttempts \in Nat
  BY ExtractionConstants
<1>2. ASSUME NEW n \in 1..FetchAttempts
      PROVE  attempts[n].end \in FetchEnds /\ Fetched(attempts[n]) \in {"blocked", attempts[n].end}
  BY DEF Fetches, Fetched
<1>3. ASSUME NEW n \in 1..FetchAttempts, ~settles(n) PROVE attempts[n].end = "bad"
  BY <1>2, <1>3
<1>4. CASE url \notin Allowed
  BY <1>4 DEF ExtractOne
<1>5. CASE url \in Allowed /\ first = {}
  <2>1. \A n \in 1..FetchAttempts : ~settles(n)
    <3> SUFFICES ASSUME NEW m \in 1..FetchAttempts, settles(m) PROVE FALSE
      OBVIOUS
    <3> DEFINE S == {n \in 1..FetchAttempts : settles(n)}
    <3>1. S \in SUBSET Nat /\ S # {}
      BY <1>1
    <3>2. PICK n \in S : \A k \in S : ~(k < n)
      BY <3>1, FirstExists
    <3>3. n \in first
      BY <1>1, <3>2
    <3> QED BY <1>5, <3>3
  <2>2. ExtractOne(url, attempts) = [end |-> "failed", from |-> url, asked |-> FetchAttempts]
    BY <1>5 DEF ExtractOne
  <2> QED BY <1>3, <2>1, <2>2
<1>6. CASE url \in Allowed /\ first # {}
  <2> DEFINE n == CHOOSE n \in first : TRUE
  <2>1. n \in first
    BY <1>6
  <2>2. ExtractOne(url, attempts) =
          [end |-> Fetched(attempts[n]), from |-> Address(url, attempts[n]), asked |-> n]
    BY <1>6 DEF ExtractOne
  <2> HIDE DEF n
  <2>3. n \in 1..FetchAttempts /\ \A k \in 1..(n - 1) : attempts[k].end = "bad"
    BY <1>1, <1>3, <2>1
  <2>4. Fetched(attempts[n]) \notin {"skipped", "failed"}
    BY <1>2, <2>3 DEF FetchEnds
  <2>5. ASSUME Fetched(attempts[n]) = "text"
        PROVE  visited(n) \subseteq Allowed /\ Address(url, attempts[n]) \in Allowed
    <3>1. \A i \in DOMAIN attempts[n].hops : attempts[n].hops[i] \in Allowed
      BY <2>5 DEF Fetched
    <3>2. attempts[n].hops = <<>>
          \/ Len(attempts[n].hops) \in DOMAIN attempts[n].hops
      BY <2>3 DEF Fetches
    <3> QED BY <1>6, <3>1, <3>2 DEF Address
  <2> QED BY <1>6, <2>2, <2>3, <2>4, <2>5
<1> QED BY <1>4, <1>5, <1>6

\* Whatever the pages do, every url has its report, a text is of an allowed
\* address that was reached over allowed ones, and nothing is given up while
\* attempts are left (_extract_one, extract).
THEOREM ExtractionHolds == ExtractionWellFormed
<1> DEFINE visited(attempts, m) == {attempts[m].hops[j] : j \in DOMAIN attempts[m].hops}
           fine(report, url, attempts) ==
             /\ report.end = "text" =>
                  /\ {url, report.from} \cup visited(attempts, report.asked) \subseteq Allowed
                  /\ \A m \in 1..(report.asked - 1) : attempts[m].end = "bad"
             /\ report.end = "failed" =>
                  \A m \in 1..FetchAttempts : attempts[m].end = "bad"
           reports(urls, attempts) == Extract(urls, [k \in DOMAIN urls |-> attempts])
<1>1. SUFFICES ASSUME NEW urls \in UNION {[1..n -> Sites] : n \in {1, MaxUrls + 1}},
                      NEW attempts \in [1..FetchAttempts -> Fetches], NEW i \in DOMAIN urls
               PROVE  /\ reports(urls, attempts)[i].end = "skipped" <=> i > MaxUrls
                      /\ fine(reports(urls, attempts)[i], urls[i], attempts)
  BY Zenon DEF ExtractionWellFormed
<1>2. PICK n \in {1, MaxUrls + 1} : urls \in [1..n -> Sites]
  OBVIOUS
<1>3. i \in 1..n /\ urls[i] \in Sites
  BY <1>2
<1>4. CASE i > MaxUrls
  <2>1. reports(urls, attempts)[i] = [end |-> "skipped", from |-> urls[i], asked |-> 0]
    BY <1>4 DEF Extract
  <2> QED BY <1>4, <2>1
<1>5. CASE ~(i > MaxUrls)
  <2>1. reports(urls, attempts)[i] = ExtractOne(urls[i], attempts)
    BY <1>5 DEF Extract
  <2>2. ExtractOne(urls[i], attempts).end # "skipped"
        /\ fine(ExtractOne(urls[i], attempts), urls[i], attempts)
    BY <1>3, OneExtracted
  <2> HIDE DEF reports, fine
  <2> QED BY <1>5, <2>1, <2>2
<1> QED BY <1>4, <1>5
-----------------------------------------------------------------------------
(* Arranging: sequences of the members of a set, and of lists of rows *)

\* If of any two members one comes before the other with all that comes before
\* it, then each has a place of its own and each place a member.
LEMMA ArrangedHolds ==
    ASSUME NEW S, IsFiniteSet(S), NEW ahead \in [S -> SUBSET S],
           \A x \in S : x \notin ahead[x],
           \A x, y \in S : x # y => \/ x \in ahead[y] /\ ahead[x] \subseteq ahead[y]
                                    \/ y \in ahead[x] /\ ahead[y] \subseteq ahead[x]
    PROVE  /\ Cardinality(S) \in Nat
           /\ Arranged(ahead) \in [1..Cardinality(S) -> S]
           /\ \A j, k \in 1..Cardinality(S) : Arranged(ahead)[j] = Arranged(ahead)[k] => j = k
           /\ \A x \in S : \E k \in 1..Cardinality(S) : Arranged(ahead)[k] = x
<1> DEFINE n == Cardinality(S)
           place == [x \in S |-> Cardinality(ahead[x]) + 1]
<1>1. n \in Nat /\ IsFiniteSet(1..n) /\ Cardinality(1..n) = n
  <2>1. n \in Nat
    BY FS_CardinalityType
  <2> HIDE DEF n
  <2> QED BY <2>1, FS_Interval
<1>2. ASSUME NEW x \in S
      PROVE  IsFiniteSet(ahead[x]) /\ Cardinality(ahead[x]) \in 0..(n - 1)
  <2>1. ahead[x] \in SUBSET S /\ ahead[x] # S
    OBVIOUS
  <2>2. /\ IsFiniteSet(ahead[x]) /\ Cardinality(ahead[x]) <= Cardinality(S)
        /\ Cardinality(ahead[x]) # Cardinality(S)
    BY <2>1, FS_Subset
  <2>3. Cardinality(ahead[x]) \in Nat
    BY <2>2, FS_CardinalityType
  <2> QED BY <1>1, <2>2, <2>3
<1>3. ASSUME NEW x \in S, NEW y \in S, x \in ahead[y], ahead[x] \subseteq ahead[y]
      PROVE  Cardinality(ahead[x]) # Cardinality(ahead[y])
  <2>1. ahead[x] # ahead[y] /\ ahead[x] \in SUBSET ahead[y]
    BY <1>3
  <2> QED BY <1>2, <2>1, FS_Subset
<1>4. place \in [S -> 1..n]
  BY <1>1, <1>2
<1>5. \A x, y \in S : place[x] = place[y] => x = y
  <2>1. ASSUME NEW x \in S, NEW y \in S, place[x] = place[y] PROVE x = y
    <3>1. Cardinality(ahead[x]) = Cardinality(ahead[y])
      BY <1>2, <2>1
    <3> QED BY <1>3, <3>1
  <2> QED BY <2>1
<1>6. place \in Surjection(S, 1..n)
  <2>1. place \in Injection(S, 1..n)
    BY <1>4, <1>5 DEF Injection, IsInjective
  <2> HIDE DEF place
  <2> QED BY <1>1, <2>1, FS_Injection
<1>7. \A k \in 1..n : \E x \in S : Cardinality(ahead[x]) = k - 1
  <2>1. \A k \in 1..n : \E x \in S : place[x] = k
    BY <1>6 DEF Surjection
  <2> QED BY <1>1, <1>2, <2>1
<1>8. \A k \in 1..n : /\ Arranged(ahead)[k] \in S
                      /\ Cardinality(ahead[Arranged(ahead)[k]]) = k - 1
  BY <1>7, Zenon DEF Arranged
<1>9. Arranged(ahead) \in [1..n -> S]
  BY <1>8, Zenon DEF Arranged
<1>10. ASSUME NEW j \in 1..n, NEW k \in 1..n, Arranged(ahead)[j] = Arranged(ahead)[k]
       PROVE  j = k
  <2>1. j - 1 = k - 1
    BY <1>8, <1>10
  <2> QED BY <1>1, <2>1
<1>11. ASSUME NEW x \in S PROVE \E k \in 1..n : Arranged(ahead)[k] = x
  <2>1. place[x] \in 1..n /\ Cardinality(ahead[Arranged(ahead)[place[x]]]) = place[x] - 1
    BY <1>4, <1>8
  <2>2. place[Arranged(ahead)[place[x]]] = place[x]
    BY <1>4, <1>8, <1>2, <2>1
  <2> QED BY <1>5, <1>8, <2>1, <2>2
<1> QED BY <1>1, <1>9, <1>10, <1>11

\* At(s, I) holds each of the rows of s at the indices I, each index once.
LEMMA AtHolds ==
    ASSUME NEW R, NEW s \in Seq(R), NEW I \in SUBSET DOMAIN s
    PROVE  /\ Cardinality(I) \in Nat /\ At(s, I) \in [1..Cardinality(I) -> R]
           /\ \E order \in [1..Cardinality(I) -> I] :
                /\ \A k \in 1..Cardinality(I) : At(s, I)[k] = s[order[k]]
                /\ \A j, k \in 1..Cardinality(I) : order[j] = order[k] => j = k
                /\ \A i \in I : \E k \in 1..Cardinality(I) : order[k] = i
<1> DEFINE ahead == [i \in I |-> {j \in I : j < i}]
           n == Cardinality(I)
           order == Arranged(ahead)
<1>1. IsFiniteSet(I) /\ I \subseteq Nat
  <2>1. Len(s) \in Nat /\ DOMAIN s = 1..Len(s)
    OBVIOUS
  <2>2. IsFiniteSet(1..Len(s))
    BY <2>1, FS_Interval
  <2> QED BY <2>1, <2>2, FS_Subset
<1>2. ahead \in [I -> SUBSET I]
  OBVIOUS
<1>3. \A x \in I : x \notin ahead[x]
  BY <1>1
<1>4. \A x, y \in I : x # y => \/ x \in ahead[y] /\ ahead[x] \subseteq ahead[y]
                               \/ y \in ahead[x] /\ ahead[y] \subseteq ahead[x]
  BY <1>1
<1>5. /\ n \in Nat /\ order \in [1..n -> I]
      /\ \A j, k \in 1..n : order[j] = order[k] => j = k
      /\ \A x \in I : \E k \in 1..n : order[k] = x
  <2> HIDE DEF ahead
  <2> QED BY <1>1, <1>2, <1>3, <1>4, ArrangedHolds
<1>6. At(s, I) = [k \in DOMAIN order |-> s[order[k]]]
  BY Zenon DEF At
<1> HIDE DEF n, order
<1>7. At(s, I) \in [1..n -> R] /\ \A k \in 1..n : At(s, I)[k] = s[order[k]]
  BY <1>5, <1>6
<1> QED BY <1>5, <1>7 DEF n

\* The lists of rows of R without repetition.
Lists(R) == {s \in Seq(R) : \A i, j \in DOMAIN s : s[i] = s[j] => i = j}

\* A list of rows of A is one of rows of any larger set.
LEMMA ListsGrow == ASSUME NEW A, NEW B, A \subseteq B PROVE Lists(A) \subseteq Lists(B)
BY SeqMonotonic DEF Lists

\* No rows are a list of them.
LEMMA ListsEmpty == ASSUME NEW R PROVE <<>> \in Lists(R)
BY DEF Lists

\* What At picks are rows of s, at the indices I.
LEMMA AtSeq ==
    ASSUME NEW R, NEW s \in Seq(R), NEW I \in SUBSET DOMAIN s
    PROVE  At(s, I) \in Seq({s[i] : i \in I}) /\ At(s, I) \in Seq(R)
<1> DEFINE n == Cardinality(I)
<1>1. n \in Nat /\ At(s, I) \in [1..n -> R]
  BY AtHolds
<1>2. PICK order \in [1..n -> I] : \A k \in 1..n : At(s, I)[k] = s[order[k]]
  BY AtHolds
<1> HIDE DEF n
<1>3. At(s, I) \in [1..n -> {s[i] : i \in I}]
  BY <1>1, <1>2
<1> QED BY <1>1, <1>3

\* Rows that differ at the indices I are picked without repetition.
LEMMA AtLists ==
    ASSUME NEW R, NEW s \in Seq(R), NEW I \in SUBSET DOMAIN s,
           \A i, j \in I : s[i] = s[j] => i = j
    PROVE  At(s, I) \in Lists({s[i] : i \in I})
<1> DEFINE n == Cardinality(I)
<1>1. n \in Nat /\ At(s, I) \in [1..n -> R]
  BY AtHolds
<1>2. PICK order \in [1..n -> I] :
         /\ \A k \in 1..n : At(s, I)[k] = s[order[k]]
         /\ \A j, k \in 1..n : order[j] = order[k] => j = k
  BY AtHolds
<1>3. At(s, I) \in Seq({s[i] : i \in I})
  BY AtSeq
<1> HIDE DEF n
<1>4. \A j, k \in DOMAIN At(s, I) : At(s, I)[j] = At(s, I)[k] => j = k
  BY <1>1, <1>2
<1> QED BY <1>3, <1>4 DEF Lists

\* One list after another that holds none of its rows.
LEMMA JoinedLists ==
    ASSUME NEW A, NEW B, A \cap B = {}, NEW a \in Lists(A), NEW b \in Lists(B)
    PROVE  a \o b \in Lists(A \cup B)
<1>1. a \in Seq(A \cup B) /\ b \in Seq(A \cup B)
  BY ListsGrow DEF Lists
<1>2. /\ a \o b \in Seq(A \cup B) /\ Len(a \o b) = Len(a) + Len(b)
      /\ \A i \in 1..(Len(a) + Len(b)) : (a \o b)[i] =
            IF i <= Len(a) THEN a[i] ELSE b[i - Len(a)]
  BY <1>1, ConcatProperties
<1>3. /\ a \in [1..Len(a) -> A] /\ b \in [1..Len(b) -> B] /\ Len(a) \in Nat /\ Len(b) \in Nat
      /\ \A i, j \in 1..Len(a) : a[i] = a[j] => i = j
      /\ \A i, j \in 1..Len(b) : b[i] = b[j] => i = j
  BY LenProperties DEF Lists
<1>4. DOMAIN (a \o b) = 1..(Len(a) + Len(b))
  BY <1>2, LenProperties
<1>5. ASSUME NEW i \in DOMAIN (a \o b), NEW j \in DOMAIN (a \o b), (a \o b)[i] = (a \o b)[j]
      PROVE  i = j
  <2>1. CASE i <= Len(a) /\ j <= Len(a)
    BY <1>2, <1>3, <1>4, <1>5, <2>1
  <2>2. CASE i > Len(a) /\ j > Len(a)
    <3>1. i - Len(a) \in 1..Len(b) /\ j - Len(a) \in 1..Len(b)
      BY <1>3, <1>4, <2>2
    <3>2. b[i - Len(a)] = b[j - Len(a)]
      BY <1>2, <1>3, <1>4, <1>5, <2>2
    <3>3. i - Len(a) = j - Len(a)
      BY <1>3, <3>1, <3>2
    <3> QED BY <1>3, <1>4, <3>3
  <2>3. CASE i <= Len(a) /\ j > Len(a)
    <3>1. a[i] \in A /\ b[j - Len(a)] \in B /\ a[i] = b[j - Len(a)]
      BY <1>2, <1>3, <1>4, <1>5, <2>3
    <3> QED BY <3>1
  <2>4. CASE i > Len(a) /\ j <= Len(a)
    <3>1. a[j] \in A /\ b[i - Len(a)] \in B /\ a[j] = b[i - Len(a)]
      BY <1>2, <1>3, <1>4, <1>5, <2>4
    <3> QED BY <3>1
  <2> QED BY <1>3, <1>4, <2>1, <2>2, <2>3, <2>4
<1> QED BY <1>2, <1>5 DEF Lists

\* A list in two parts, by its indices.
LEMMA PartsLists ==
    ASSUME NEW R, NEW s \in Lists(R), NEW I \in SUBSET DOMAIN s, NEW J \in SUBSET DOMAIN s,
           I \cap J = {}
    PROVE  At(s, I) \o At(s, J) \in Lists(R) /\ At(s, I) \in Lists(R)
<1> DEFINE A == {s[i] : i \in I}
           B == {s[i] : i \in J}
<1>1. s \in Seq(R) /\ \A i, j \in DOMAIN s : s[i] = s[j] => i = j
  BY DEF Lists
<1>2. At(s, I) \in Lists(A) /\ At(s, J) \in Lists(B)
  BY <1>1, AtLists
<1>3. A \cap B = {} /\ A \cup B \subseteq R /\ A \subseteq R
  BY <1>1
<1> HIDE DEF A, B
<1>4. At(s, I) \o At(s, J) \in Lists(A \cup B)
  BY <1>2, <1>3, JoinedLists
<1> QED BY <1>2, <1>3, <1>4, ListsGrow

\* The first n of a list are a list, of n rows at most.
LEMMA FirstHolds ==
    ASSUME NEW R, NEW s \in Seq(R), NEW n \in Nat
    PROVE  /\ First(s, n) \in Seq(R) /\ Len(First(s, n)) <= n
           /\ s \in Lists(R) => First(s, n) \in Lists(R)
<1> DEFINE m == Least(n, Len(s))
<1>1. /\ m \in Nat /\ m <= n /\ m <= Len(s) /\ s \in [1..Len(s) -> R] /\ Len(s) \in Nat
      /\ DOMAIN s = 1..Len(s)
  BY DEF Least
<1>2. First(s, n) = SubSeq(s, 1, m)
  BY DEF First
<1> HIDE DEF m
<1>3. /\ SubSeq(s, 1, m) \in Seq(R) /\ Len(SubSeq(s, 1, m)) = m
      /\ \A i \in 1..m : SubSeq(s, 1, m)[i] = s[i]
  <2>1. m \in Int /\ \A i \in 1..m : s[i] \in R
    BY <1>1
  <2>2. SubSeq(s, 1, m) \in Seq(R)
    BY <2>1
  <2>3. Len(SubSeq(s, 1, m)) = m
    BY <1>1
  <2>4. \A i \in 1..m : SubSeq(s, 1, m)[i] = s[i]
    BY <1>1
  <2> QED BY <2>2, <2>3, <2>4
<1>4. DOMAIN SubSeq(s, 1, m) = 1..m
  BY <1>3, LenProperties
<1>5. ASSUME s \in Lists(R) PROVE SubSeq(s, 1, m) \in Lists(R)
  <2>1. \A i, j \in 1..Len(s) : s[i] = s[j] => i = j
    BY <1>1, <1>5 DEF Lists
  <2>2. \A i, j \in 1..m : SubSeq(s, 1, m)[i] = SubSeq(s, 1, m)[j] => i = j
    BY <1>1, <1>3, <2>1
  <2> QED BY <1>3, <1>4, <2>2, Zenon DEF Lists
<1> QED BY <1>1, <1>2, <1>3, <1>5

\* A list of rows of R that holds each place of the lists once.
Merges(s, lists, R) ==
    \E n \in Nat :
      /\ s \in [1..n -> R]
      /\ \E order \in [1..n -> PlacesIn(lists)] :
           /\ \A k \in 1..n : s[k] = lists[order[k][1]][order[k][2]]
           /\ \A j, k \in 1..n : order[j] = order[k] => j = k
           /\ \A p \in PlacesIn(lists) : \E k \in 1..n : order[k] = p

\* A merged list holds each place of its lists once, whatever their rounds.
LEMMA MergedHolds ==
    ASSUME NEW R, NEW D \in SUBSET Int, IsFiniteSet(D), NEW lists \in [D -> Seq(R)],
           NEW round \in [PlacesIn(lists) -> Int]
    PROVE  Merges(Merged(lists, round), lists, R)
<1> DEFINE P == PlacesIn(lists)
           n == Cardinality(P)
           before(o, p) == \/ round[o] < round[p]
                           \/ round[o] = round[p] /\ o[1] < p[1]
                           \/ round[o] = round[p] /\ o[1] = p[1] /\ o[2] < p[2]
           ahead == [p \in P |-> {o \in P : before(o, p)}]
           order == Arranged(ahead)
<1>1. ASSUME NEW m \in D
      PROVE  IsFiniteSet(DOMAIN lists[m]) /\ DOMAIN lists[m] \subseteq Nat
  <2>1. lists[m] \in Seq(R)
    OBVIOUS
  <2>2. DOMAIN lists[m] = 1..Len(lists[m]) /\ Len(lists[m]) \in Nat
    BY <2>1, LenProperties
  <2>3. IsFiniteSet(1..Len(lists[m]))
    BY <2>2, FS_Interval
  <2> QED BY <2>2, <2>3
<1>2. IsFiniteSet(P)
  <2> DEFINE row == [m \in D |-> {m} \X DOMAIN lists[m]]
             All == {{m} \X DOMAIN lists[m] : m \in D}
  <2>1. row \in Surjection(D, All)
    BY DEF Surjection
  <2>2. \A m \in D : IsFiniteSet({m} \X DOMAIN lists[m])
    BY <1>1, FS_Singleton, FS_Product
  <2>3. \A T \in All : IsFiniteSet(T)
    BY <2>2
  <2>4. P = UNION All
    BY DEF PlacesIn
  <2> HIDE DEF row, All
  <2>5. IsFiniteSet(All)
    BY <2>1, FS_Surjection
  <2> QED BY <2>3, <2>4, <2>5, FS_UNION
<1>3. \A p \in P : /\ p = <<p[1], p[2]>> /\ p[1] \in D /\ p[2] \in DOMAIN lists[p[1]]
                   /\ p[1] \in Int /\ p[2] \in Int /\ round[p] \in Int
  BY <1>1 DEF PlacesIn
<1> HIDE DEF P
<1>4. ahead \in [P -> SUBSET P]
  BY Zenon
<1>5. \A p \in P : p \notin ahead[p]
  BY <1>3
<1>6. ASSUME NEW o \in P, NEW p \in P, o # p
      PROVE  \/ o \in ahead[p] /\ ahead[o] \subseteq ahead[p]
             \/ p \in ahead[o] /\ ahead[p] \subseteq ahead[o]
  <2>1. before(o, p) \/ before(p, o)
    <3>1. o[1] # p[1] \/ o[2] # p[2]
      BY <1>3, <1>6
    <3> QED BY <1>3, <3>1
  <2>2. ASSUME NEW a \in P, NEW b \in P, NEW c \in P, before(a, b), before(b, c)
        PROVE  before(a, c)
    <3>1. {round[a], round[b], round[c], a[1], b[1], c[1], a[2], b[2], c[2]} \subseteq Int
      BY <1>3
    <3> QED BY <2>2, <3>1
  <2> HIDE DEF before
  <2> QED BY <2>1, <2>2
<1>7. /\ n \in Nat /\ order \in [1..n -> P]
      /\ \A j, k \in 1..n : order[j] = order[k] => j = k
      /\ \A p \in P : \E k \in 1..n : order[k] = p
  <2> HIDE DEF ahead
  <2> QED BY <1>2, <1>4, <1>5, <1>6, ArrangedHolds
<1>8. Merged(lists, round) = [k \in DOMAIN order |-> lists[order[k][1]][order[k][2]]]
  BY Zenon DEF Merged, P
<1> HIDE DEF n, order
<1>9. \A k \in 1..n : lists[order[k][1]][order[k][2]] \in R
  <2>1. ASSUME NEW m \in D, NEW i \in DOMAIN lists[m] PROVE lists[m][i] \in R
    <3>1. lists[m] \in Seq(R)
      OBVIOUS
    <3> QED BY <2>1, <3>1
  <2> QED BY <1>3, <1>7, <2>1
<1>10. /\ Merged(lists, round) \in [1..n -> R]
       /\ \A k \in 1..n : Merged(lists, round)[k] = lists[order[k][1]][order[k][2]]
  BY <1>7, <1>8, <1>9
<1>11. \E f \in [1..n -> P] :
         /\ \A k \in 1..n : Merged(lists, round)[k] = lists[f[k][1]][f[k][2]]
         /\ \A j, k \in 1..n : f[j] = f[k] => j = k
         /\ \A p \in P : \E k \in 1..n : f[k] = p
  <2>1. order \in [1..n -> P]
    BY <1>7
  <2> WITNESS order \in [1..n -> P]
  <2> QED BY <1>7, <1>10, Zenon
<1> HIDE DEF n
<1>12. n \in Nat /\ Merged(lists, round) \in [1..n -> R]
  BY <1>7, <1>10
<1> QED BY <1>11, <1>12, Zenon DEF P, Merges

\* Merged lists of rows are a sequence of rows.
LEMMA MergedSeq ==
    ASSUME NEW R, NEW D \in SUBSET Int, IsFiniteSet(D), NEW lists \in [D -> Seq(R)],
           NEW round \in [PlacesIn(lists) -> Int]
    PROVE  Merged(lists, round) \in Seq(R)
<1>1. \E n \in Nat : Merged(lists, round) \in [1..n -> R]
  BY MergedHolds, Zenon DEF Merges
<1> QED BY <1>1

\* Of two lists: of their rows, and without repetition if they share none.
LEMMA InterleaveHolds ==
    ASSUME NEW R, NEW first \in Seq(R), NEW second \in Seq(R), NEW weight \in Nat \ {0}
    PROVE  /\ InterleaveResults(first, second, weight) \in Seq(R)
           /\ \A A, B : A \cap B = {} /\ first \in Lists(A) /\ second \in Lists(B)
                         => InterleaveResults(first, second, weight) \in Lists(R)
           /\ ToSet(first) \cup ToSet(second)
                \subseteq ToSet(InterleaveResults(first, second, weight))
<1> DEFINE lists == <<first, second>>
           D == {1, 2}
           P == PlacesIn(lists)
           round == [p \in P |-> IF p[1] = 1 THEN (p[2] + weight - 1) \div weight ELSE p[2]]
           merged == Merged(lists, round)
<1>1. lists \in [D -> Seq(R)] /\ lists[1] = first /\ lists[2] = second
  OBVIOUS
<1>2. D \in SUBSET Int /\ IsFiniteSet(D)
  <2>1. 1 \in Int /\ 2 \in Int /\ 1..2 = {1, 2}
    OBVIOUS
  <2> QED BY <2>1, FS_Interval
<1>3. InterleaveResults(first, second, weight) = merged
  BY Zenon DEF InterleaveResults
<1> HIDE DEF lists
<1>4. \A p \in P : /\ p = <<p[1], p[2]>> /\ p[1] \in {1, 2} /\ p[2] \in DOMAIN lists[p[1]]
                   /\ p[2] \in Nat
  BY <1>1 DEF PlacesIn
<1> HIDE DEF P
<1> HIDE DEF D
<1>5. round \in [P -> Int]
  <2>1. \A p \in P : (p[2] + weight - 1) \div weight \in Int /\ p[2] \in Int
    BY <1>4
  <2> QED BY <2>1
<1> HIDE DEF round
<1>6. Merges(merged, lists, R)
  BY <1>1, <1>2, <1>5, MergedHolds, Zenon DEF P
<1> HIDE DEF merged
<1>7. PICK n \in Nat :
         /\ merged \in [1..n -> R]
         /\ \E order \in [1..n -> P] :
              /\ \A k \in 1..n : merged[k] = lists[order[k][1]][order[k][2]]
              /\ \A j, k \in 1..n : order[j] = order[k] => j = k
              /\ \A p \in P : \E k \in 1..n : order[k] = p
  BY <1>6, Zenon DEF Merges, P
<1>8. PICK order \in [1..n -> P] :
         /\ \A k \in 1..n : merged[k] = lists[order[k][1]][order[k][2]]
         /\ \A j, k \in 1..n : order[j] = order[k] => j = k
         /\ \A p \in P : \E k \in 1..n : order[k] = p
  BY <1>7, Zenon
<1>9. merged \in Seq(R) /\ DOMAIN merged = 1..n
  <2>1. merged \in [1..n -> R]
    BY <1>7, Zenon
  <2> QED BY <2>1
<1>10. ASSUME NEW A, NEW B, A \cap B = {}, first \in Lists(A), second \in Lists(B)
      PROVE  merged \in Lists(R)
  <2>1. /\ \A i \in DOMAIN first : first[i] \in A
        /\ \A i \in DOMAIN second : second[i] \in B
        /\ \A i, j \in DOMAIN first : first[i] = first[j] => i = j
        /\ \A i, j \in DOMAIN second : second[i] = second[j] => i = j
    BY <1>10, LenProperties DEF Lists
  <2>2. ASSUME NEW p \in P, NEW o \in P, lists[p[1]][p[2]] = lists[o[1]][o[2]]
        PROVE  p = o
    <3>1. p[1] = o[1]
      BY <1>1, <1>4, <1>10, <2>1, <2>2
    <3>2. p[2] = o[2]
      BY <1>1, <1>4, <2>1, <2>2, <3>1
    <3> QED BY <1>4, <3>1, <3>2, Zenon
  <2>3. \A j, k \in 1..n : merged[j] = merged[k] => j = k
    BY <1>8, <2>2
  <2> QED BY <1>9, <2>3, Zenon DEF Lists
<1>11. ASSUME NEW m \in {1, 2}, NEW i \in DOMAIN lists[m] PROVE lists[m][i] \in ToSet(merged)
  <2>1. <<m, i>> \in P
    BY <1>1, <1>11 DEF P, PlacesIn, D
  <2>2. PICK k \in 1..n : order[k] = <<m, i>>
    BY <1>8, <2>1
  <2>3. merged[k] = lists[m][i]
    BY <1>8, <2>2
  <2> QED BY <1>9, <2>3 DEF ToSet
<1>12. ToSet(first) \cup ToSet(second) \subseteq ToSet(merged)
  BY <1>1, <1>11 DEF ToSet
<1> QED BY <1>3, <1>9, <1>10, <1>12

\* At picks every row at an index of I.
LEMMA AtKeeps ==
    ASSUME NEW R, NEW s \in Seq(R), NEW I \in SUBSET DOMAIN s
    PROVE  \A i \in I : s[i] \in ToSet(At(s, I))
<1> DEFINE n == Cardinality(I)
<1>1. n \in Nat /\ At(s, I) \in [1..n -> R]
  BY AtHolds
<1>2. PICK order \in [1..n -> I] : /\ \A k \in 1..n : At(s, I)[k] = s[order[k]]
                                   /\ \A i \in I : \E k \in 1..n : order[k] = i
  BY AtHolds
<1> HIDE DEF n
<1> QED BY <1>1, <1>2 DEF ToSet

\* One sequence after another has the rows of both.
LEMMA JoinedKeeps ==
    ASSUME NEW R, NEW a \in Seq(R), NEW b \in Seq(R)
    PROVE  ToSet(a) \cup ToSet(b) \subseteq ToSet(a \o b)
<1>1. /\ DOMAIN a = 1..Len(a) /\ DOMAIN b = 1..Len(b) /\ Len(a) \in Nat /\ Len(b) \in Nat
      /\ DOMAIN (a \o b) = 1..(Len(a) + Len(b))
  BY LenProperties, ConcatProperties
<1>2. \A i \in 1..(Len(a) + Len(b)) :
         (a \o b)[i] = IF i <= Len(a) THEN a[i] ELSE b[i - Len(a)]
  BY ConcatProperties
<1>3. ASSUME NEW i \in 1..Len(a) PROVE a[i] \in ToSet(a \o b)
  <2>1. i \in DOMAIN (a \o b) /\ (a \o b)[i] = a[i]
    BY <1>1, <1>2
  <2> QED BY <2>1 DEF ToSet
<1>4. ASSUME NEW i \in 1..Len(b) PROVE b[i] \in ToSet(a \o b)
  <2>1. i + Len(a) \in 1..(Len(a) + Len(b)) /\ ~(i + Len(a) <= Len(a))
    BY <1>1
  <2>2. (a \o b)[i + Len(a)] = b[i + Len(a) - Len(a)]
    BY <1>2, <2>1
  <2>3. i + Len(a) - Len(a) = i
    BY <1>1
  <2>4. i + Len(a) \in DOMAIN (a \o b) /\ (a \o b)[i + Len(a)] = b[i]
    BY <1>1, <2>1, <2>2, <2>3
  <2> QED BY <2>4 DEF ToSet
<1> QED BY <1>1, <1>3, <1>4 DEF ToSet

\* A list that is taken apart and joined again keeps its rows.
LEMMA PartsKeep ==
    ASSUME NEW R, NEW s \in Seq(R), NEW I \in SUBSET DOMAIN s, NEW J \in SUBSET DOMAIN s,
           I \cup J = DOMAIN s
    PROVE  ToSet(s) \subseteq ToSet(At(s, I) \o At(s, J))
<1>1. At(s, I) \in Seq(R) /\ At(s, J) \in Seq(R)
  BY AtSeq
<1>2. \A i \in DOMAIN s : s[i] \in ToSet(At(s, I)) \cup ToSet(At(s, J))
  BY AtKeeps
<1>3. ToSet(At(s, I)) \cup ToSet(At(s, J)) \subseteq ToSet(At(s, I) \o At(s, J))
  BY <1>1, JoinedKeeps
<1> QED BY <1>2, <1>3 DEF ToSet

-----------------------------------------------------------------------------
(* Ranking: every step makes a list without repetition of such a list *)

PagesApart(R) ==
    /\ \A row \in R : WellFormed(row)
    /\ \A a, b \in R : a # b => Page(a) # Page(b)
SitesApart(R) == \A a, b \in R : a # b => Host(a) # Host(b)

\* Distinct keeps rows of different pages, each with a url that will do.
LEMMA DistinctHolds ==
    ASSUME NEW rows \in Seq(Rows)
    PROVE  \E R \in SUBSET Rows : PagesApart(R) /\ Distinct(rows) \in Lists(R)
<1> DEFINE I == {i \in DOMAIN rows : WellFormed(rows[i]) /\ \A j \in 1..(i - 1) :
                   WellFormed(rows[j]) => Page(rows[j]) # Page(rows[i])}
           R == {rows[i] : i \in I}
<1>1. Distinct(rows) = At(rows, I)
  BY Zenon DEF Distinct
<1>2. /\ I \in SUBSET DOMAIN rows /\ \A i \in I : WellFormed(rows[i])
      /\ \A i \in I : i \in 1..Len(rows) /\ rows[i] \in Rows
  BY LenProperties
<1>3. ASSUME NEW i \in I, NEW j \in I, i # j PROVE Page(rows[i]) # Page(rows[j])
  <2>1. i \in 1..(j - 1) \/ j \in 1..(i - 1)
    BY <1>2, <1>3
  <2>2. WellFormed(rows[i]) /\ WellFormed(rows[j])
    BY <1>2
  <2> QED BY <2>1, <2>2
<1> HIDE DEF I
<1>4. \A i, j \in I : rows[i] = rows[j] => i = j
  BY <1>3
<1>5. R \in SUBSET Rows /\ PagesApart(R)
  BY <1>2, <1>3 DEF PagesApart
<1>6. At(rows, I) \in Lists(R)
  BY <1>2, <1>4, AtLists
<1> QED BY <1>1, <1>5, <1>6

\* Addresses keeps rows.
LEMMA AddressesHold == ASSUME NEW rows \in Seq(Rows) PROVE Addresses(rows) \in Seq(Rows)
<1> DEFINE I == {i \in DOMAIN rows : WellFormed(rows[i]) /\
                                       \A j \in 1..(i - 1) : rows[j] # rows[i]}
<1>1. I \in SUBSET DOMAIN rows
  OBVIOUS
<1>2. Addresses(rows) = At(rows, I)
  BY Zenon DEF Addresses
<1> HIDE DEF I
<1> QED BY <1>1, <1>2, AtSeq

\* The relevant rows, and the others after them unless the query is strict.
LEMMA SortedHolds ==
    ASSUME NEW R, NEW rows \in Lists(R), NEW q, NEW D \in SUBSET DOMAIN rows,
           NEW relevance \in [D -> Int]
    PROVE  /\ Sorted(q, rows, relevance) \in Lists(R)
           /\ \A T : Strict(q) /\ (\A i \in D : relevance[i] > 0 => rows[i] \in T)
                      => Sorted(q, rows, relevance) \in Lists(T)
           /\ \A i \in D : relevance[i] > 0 \/ ~Strict(q) =>
                            rows[i] \in ToSet(Sorted(q, rows, relevance))
<1> DEFINE relevant == {i \in DOMAIN relevance : relevance[i] > 0}
           score == [i \in relevant |-> relevance[i] + 6 - Least(i, 6)]
           better(i, j) == score[i] > score[j] \/ (score[i] = score[j] /\ i < j)
           ahead == [i \in relevant |-> {j \in relevant : better(j, i)}]
           order == Arranged(ahead)
           top == [k \in DOMAIN order |-> rows[order[k]]]
           others == DOMAIN relevance \ relevant
           A == {rows[i] : i \in relevant}
           B == {rows[i] : i \in others}
<1>1. /\ rows \in Seq(R) /\ DOMAIN rows = 1..Len(rows) /\ Len(rows) \in Nat
      /\ \A i, j \in DOMAIN rows : rows[i] = rows[j] => i = j
  BY LenProperties DEF Lists
<1>2. /\ relevant \in SUBSET DOMAIN rows /\ others \in SUBSET DOMAIN rows
      /\ relevant \cap others = {} /\ relevant = {i \in D : relevance[i] > 0}
      /\ others = D \ relevant
  OBVIOUS
<1>3. IsFiniteSet(relevant)
  <2>1. IsFiniteSet(1..Len(rows))
    BY <1>1, FS_Interval
  <2> QED BY <1>1, <1>2, <2>1, FS_Subset
<1>4. \A i \in relevant : score[i] \in Int /\ i \in Int
  BY <1>1 DEF Least
<1> HIDE DEF relevant, score
<1>5. /\ ahead \in [relevant -> SUBSET relevant]
      /\ \A i \in relevant : i \notin ahead[i]
      /\ \A i, j \in relevant : i # j => \/ i \in ahead[j] /\ ahead[i] \subseteq ahead[j]
                                         \/ j \in ahead[i] /\ ahead[j] \subseteq ahead[i]
  <2>1. ahead \in [relevant -> SUBSET relevant]
    BY Zenon
  <2>2. \A i \in relevant : i \notin ahead[i]
    BY <1>4
  <2>3. ASSUME NEW i \in relevant, NEW j \in relevant, i # j
        PROVE  \/ i \in ahead[j] /\ ahead[i] \subseteq ahead[j]
               \/ j \in ahead[i] /\ ahead[j] \subseteq ahead[i]
    BY <1>4, <2>3
  <2> QED BY <2>1, <2>2, <2>3
<1> DEFINE n == Cardinality(relevant)
<1>6. /\ n \in Nat /\ order \in [1..n -> relevant]
      /\ \A j, k \in 1..n : order[j] = order[k] => j = k
      /\ \A i \in relevant : \E k \in 1..n : order[k] = i
  <2> HIDE DEF ahead
  <2> QED BY <1>3, <1>5, ArrangedHolds
<1>7. Sorted(q, rows, relevance) = top \o (IF Strict(q) THEN <<>> ELSE At(rows, others))
  BY Zenon DEF Sorted, relevant, score
<1> HIDE DEF n, order, others
<1>8. top \in Lists(A)
  <2>1. top \in [1..n -> A] /\ \A k \in 1..n : top[k] = rows[order[k]]
    BY <1>6
  <2>2. \A j, k \in 1..n : rows[order[j]] = rows[order[k]] => j = k
    BY <1>1, <1>2, <1>6
  <2> HIDE DEF top, A
  <2>3. top \in Seq(A) /\ DOMAIN top = 1..n
    BY <1>6, <2>1
  <2> QED BY <2>1, <2>2, <2>3 DEF Lists
<1>9. At(rows, others) \in Lists(B)
  BY <1>1, <1>2, AtLists
<1>10. \A i \in relevant : rows[i] \in ToSet(top)
  <2>1. DOMAIN top = 1..n /\ \A k \in 1..n : top[k] = rows[order[k]]
    BY <1>6
  <2> HIDE DEF top
  <2> QED BY <1>6, <2>1 DEF ToSet
<1>11. \A i \in others : rows[i] \in ToSet(At(rows, others))
  BY <1>1, <1>2, AtKeeps
<1> HIDE DEF top
<1>12. A \cap B = {} /\ A \cup B \subseteq R /\ A \subseteq R
  BY <1>1, <1>2
<1> HIDE DEF A, B
<1>13. top \o At(rows, others) \in Lists(R)
  <2>1. top \o At(rows, others) \in Lists(A \cup B)
    BY <1>8, <1>9, <1>12, JoinedLists
  <2> QED BY <1>12, <2>1, ListsGrow
<1>14. top \o <<>> = top
  BY <1>8, ConcatEmptySeq DEF Lists
<1>15. Strict(q) => Sorted(q, rows, relevance) \in Lists(A)
  BY <1>7, <1>8, <1>14
<1>16. Sorted(q, rows, relevance) \in Lists(R)
  BY <1>7, <1>12, <1>13, <1>15, ListsGrow
<1>17. ASSUME NEW i \in D, relevance[i] > 0 \/ ~Strict(q)
       PROVE  rows[i] \in ToSet(Sorted(q, rows, relevance))
  <2>1. top \in Seq(R) /\ At(rows, others) \in Seq(R)
    <3>1. B \subseteq R
      BY <1>12
    <3> QED BY <1>8, <1>9, <1>12, <3>1, ListsGrow DEF Lists
  <2>2. ToSet(top) \cup ToSet(At(rows, others)) \subseteq ToSet(top \o At(rows, others))
    BY <2>1, JoinedKeeps
  <2>3. CASE Strict(q)
    <3>1. i \in relevant
      BY <1>2, <1>17, <2>3
    <3> QED BY <1>7, <1>14, <1>10, <2>3, <3>1
  <2>4. CASE ~Strict(q)
    <3>1. i \in relevant \/ i \in others
      BY <1>2
    <3> QED BY <1>7, <1>10, <1>11, <2>2, <2>4, <3>1
  <2> QED BY <2>3, <2>4
<1>18. ASSUME NEW T, Strict(q), \A i \in D : relevance[i] > 0 => rows[i] \in T
       PROVE  Sorted(q, rows, relevance) \in Lists(T)
  <2>1. A \subseteq T
    BY <1>2, <1>18 DEF A
  <2> QED BY <1>15, <1>18, <2>1, ListsGrow
<1> QED BY <1>16, <1>17, <1>18

\* Of fresh news one row of each site is kept.
LEMMA SpreadHolds ==
    ASSUME NEW R, NEW rows \in Lists(R), NEW q
    PROVE  \E H \in SUBSET R : /\ Spread(q, rows) \in Lists(H)
                               /\ "freshness" \in q => SitesApart(H)
<1> DEFINE sameHost(k) == {j \in 1..k : Host(rows[j]) = Host(rows[k])}
           diverse == {k \in DOMAIN rows : Cardinality(sameHost(k)) <=
                                             (IF "freshness" \in q THEN 1 ELSE 2)}
           others == DOMAIN rows \ diverse
           H == {rows[i] : i \in diverse}
<1>1. /\ rows \in Seq(R) /\ DOMAIN rows = 1..Len(rows) /\ Len(rows) \in Nat
      /\ \A i, j \in DOMAIN rows : rows[i] = rows[j] => i = j
  BY LenProperties DEF Lists
<1>2. /\ diverse \in SUBSET DOMAIN rows /\ others \in SUBSET DOMAIN rows
      /\ diverse \cap others = {}
  OBVIOUS
<1>3. Spread(q, rows) = At(rows, diverse)
                          \o (IF "freshness" \in q THEN <<>> ELSE At(rows, others))
  BY Zenon DEF Spread
<1>4. CASE "freshness" \in q
  <2>1. ASSUME NEW j \in diverse, NEW k \in diverse, j < k, Host(rows[j]) = Host(rows[k])
        PROVE  FALSE
    <3>1. IsFiniteSet(1..k) /\ sameHost(k) \in SUBSET (1..k)
      BY <1>1, <1>2, FS_Interval
    <3>2. IsFiniteSet(sameHost(k))
      BY <3>1, FS_Subset
    <3>3. {j, k} \in SUBSET sameHost(k)
      BY <1>1, <1>2, <2>1
    <3>4. IsFiniteSet({j}) /\ Cardinality({j}) = 1 /\ k \notin {j} /\ {j, k} = {j} \cup {k}
      <4>1. k \notin {j} /\ {j, k} = {j} \cup {k}
        BY <1>1, <1>2, <2>1
      <4> QED BY <4>1, FS_Singleton
    <3>5. Cardinality({j, k}) = 2
      <4>1. Cardinality({j} \cup {k}) = IF k \in {j} THEN Cardinality({j}) ELSE Cardinality({j}) + 1
        BY <3>4, FS_AddElement, Zenon
      <4> QED BY <3>4, <4>1
    <3>6. Cardinality(sameHost(k)) <= 1
      BY <1>4
    <3>7. Cardinality({j, k}) <= Cardinality(sameHost(k)) /\ Cardinality(sameHost(k)) \in Nat
      BY <3>2, <3>3, FS_Subset, FS_CardinalityType
    <3> HIDE DEF sameHost
    <3> QED BY <3>5, <3>6, <3>7
  <2> HIDE DEF diverse
  <2>2. SitesApart(H)
    <3>1. ASSUME NEW j \in diverse, NEW k \in diverse, rows[j] # rows[k]
          PROVE  Host(rows[j]) # Host(rows[k])
      <4>1. j < k \/ k < j
        BY <1>1, <1>2, <3>1
      <4> QED BY <2>1, <4>1
    <3> QED BY <3>1 DEF SitesApart
  <2>3. At(rows, diverse) \in Lists(H) /\ H \in SUBSET R
    BY <1>1, <1>2, AtLists
  <2> HIDE DEF H
  <2>4. Spread(q, rows) = At(rows, diverse)
    BY <1>3, <1>4, <2>3, ConcatEmptySeq DEF Lists
  <2> QED BY <2>2, <2>3, <2>4
<1>5. CASE "freshness" \notin q
  <2> HIDE DEF diverse, others
  <2>1. Spread(q, rows) = At(rows, diverse) \o At(rows, others)
    BY <1>3, <1>5
  <2>2. At(rows, diverse) \o At(rows, others) \in Lists(R)
    BY <1>2, PartsLists
  <2> QED BY <1>5, <2>1, <2>2
<1> QED BY <1>4, <1>5

\* The rows of a region, without repetition.
LEMMA RegionLists ==
    ASSUME NEW R, NEW rows \in Lists(R), NEW region
    PROVE  OfRegion(rows, region) \in Lists({row \in R : Region(row) = region})
<1> DEFINE I == {i \in DOMAIN rows : Region(rows[i]) = region}
           A == {rows[i] : i \in I}
<1>1. /\ rows \in Seq(R) /\ DOMAIN rows = 1..Len(rows) /\ Len(rows) \in Nat
      /\ \A i, j \in DOMAIN rows : rows[i] = rows[j] => i = j
  BY LenProperties DEF Lists
<1>2. I \in SUBSET DOMAIN rows
  OBVIOUS
<1>3. OfRegion(rows, region) = At(rows, I)
  BY Zenon DEF OfRegion
<1>4. A \subseteq {row \in R : Region(row) = region}
  BY <1>1
<1>5. At(rows, I) \in Lists(A)
  BY <1>1, <1>2, AtLists
<1> HIDE DEF I, A
<1> QED BY <1>3, <1>4, <1>5, ListsGrow

\* Where a region has rows, its first is a row of that region.
LEMMA RegionFirst ==
    \A rows \in Seq(Rows) : \A region :
      OfRegion(rows, region) # <<>> =>
        /\ 1 \in DOMAIN rows
        /\ \E i \in DOMAIN rows : /\ OfRegion(rows, region)[1] = rows[i]
                                   /\ Region(rows[i]) = region
<1> SUFFICES ASSUME NEW rows \in Seq(Rows), NEW region, OfRegion(rows, region) # <<>>
             PROVE  /\ 1 \in DOMAIN rows
                    /\ \E i \in DOMAIN rows : /\ OfRegion(rows, region)[1] = rows[i]
                                               /\ Region(rows[i]) = region
  BY Zenon
<1> DEFINE I == {i \in DOMAIN rows : Region(rows[i]) = region}
           A == {rows[i] : i \in I}
<1>1. I \in SUBSET DOMAIN rows
  OBVIOUS
<1>2. OfRegion(rows, region) = At(rows, I)
  BY Zenon DEF OfRegion
<1>3. At(rows, I)[1] \in A
  <2> HIDE DEF I
  <2>1. At(rows, I) \in Seq(A)
    BY <1>1, AtSeq
  <2> HIDE DEF A
  <2>2. At(rows, I) # <<>>
    BY <1>2
  <2> QED BY <2>1, <2>2
<1>4. PICK i \in I : At(rows, I)[1] = rows[i]
  BY <1>3
<1>5. i \in DOMAIN rows /\ Region(rows[i]) = region /\ 1 \in DOMAIN rows
  BY LenProperties
<1> QED BY <1>2, <1>4, <1>5

\* Promoted only changes the order.
LEMMA PromotedHolds ==
    ASSUME NEW R, NEW rows \in Lists(R), NEW q
    PROVE  Promoted(q, rows) \in Lists(R)
<1> DEFINE reviews == {i \in DOMAIN rows : Type(rows[i]) = "review" /\
                         \A j \in 1..(i - 1) : Type(rows[j]) = "review" =>
                                                 Host(rows[j]) # Host(rows[i])}
           front == {i \in reviews : Cardinality({j \in reviews : j < i}) < 2}
           others == DOMAIN rows \ front
<1>1. Promoted(q, rows) = IF "recommendation" \in q
                            THEN At(rows, front) \o At(rows, others) ELSE rows
  BY Zenon DEF Promoted
<1>2. /\ front \in SUBSET DOMAIN rows /\ others \in SUBSET DOMAIN rows
      /\ front \cap others = {}
  OBVIOUS
<1> HIDE DEF front, others
<1>3. At(rows, front) \o At(rows, others) \in Lists(R)
  BY <1>2, PartsLists
<1> QED BY <1>1, <1>3

\* A relevance is a number.
LEMMA RelevanceHolds == \A q : \A row \in Rows : Relevance(q, row) \in Int
<1> SUFFICES ASSUME NEW q, NEW row \in Rows PROVE Relevance(q, row) \in Int
  OBVIOUS
<1> DEFINE info == Info[row]
           ofType == CASE Type(row) = "specified" -> 40 [] Type(row) = "official" -> 24
                       [] Type(row) = "authoritative" -> 10 [] Type(row) = "review" -> 8
                       [] Type(row) = "secondary" -> -6 [] Type(row) = "community" -> -4
                       [] OTHER -> 0
           ofRegion == IF "dual_region" \in q THEN 0
                       ELSE IF "cjk" \in q THEN IF Region(row) = "domestic" THEN 2 ELSE 0
                       ELSE IF Region(row) = "international" THEN 3 ELSE -2
           sum == 5 * info.inTitle + 2 * info.inText + ofType + ofRegion
<1>1. info.inTitle \in Nat /\ info.inText \in Nat
  BY RowsAreCounted
<1>2. ofType \in Int
  OBVIOUS
<1>3. ofRegion \in Int
  OBVIOUS
<1>4. sum \in Int
  <2> HIDE DEF info, ofType, ofRegion
  <2> QED BY <1>1, <1>2, <1>3
<1>5. Relevance(q, row) \in {0, sum}
  BY DEF Relevance
<1> HIDE DEF sum
<1> QED BY <1>4, <1>5

\* Where both regions have rows, each row keeps its place or changes it once.
LEMMA BalancedHolds ==
    ASSUME NEW R \in SUBSET Rows, NEW rows \in Lists(R), NEW q
    PROVE  Balanced(q, rows) \in Lists(R)
<1> DEFINE domestic == OfRegion(rows, "domestic")
           international == OfRegion(rows, "international")
           ahead == IF Region(rows[1]) = "domestic" THEN domestic ELSE international
           behind == IF ahead = domestic THEN international ELSE domestic
           needed == IF Region(rows[1]) = "international" THEN domestic[1]
                                                             ELSE international[1]
           I == {i \in 2..Len(rows) : rows[i] # needed}
           moved == <<rows[1], needed>> \o At(rows, I)
           DR == {row \in R : Region(row) = "domestic"}
           IR == {row \in R : Region(row) = "international"}
<1>1. /\ rows \in Seq(R) /\ DOMAIN rows = 1..Len(rows) /\ Len(rows) \in Nat
      /\ \A i, j \in DOMAIN rows : rows[i] = rows[j] => i = j
  BY LenProperties DEF Lists
<1>2. domestic \in Lists(DR) /\ international \in Lists(IR)
  BY RegionLists
<1>3. DR \cap IR = {} /\ DR \subseteq R /\ IR \subseteq R
  OBVIOUS
<1>4. Balanced(q, rows) =
        IF domestic = <<>> \/ international = <<>> THEN rows
        ELSE IF "dual_region" \in q THEN InterleaveResults(ahead, behind, 1)
        ELSE IF {"cjk", "freshness"} \subseteq q THEN moved ELSE rows
  BY Zenon DEF Balanced
<1>5. InterleaveResults(ahead, behind, 1) \in Lists(R)
  <2>1. \/ ahead = domestic /\ behind = international
        \/ ahead = international /\ behind = domestic
        \/ ahead = domestic /\ behind = domestic /\ domestic = international
    OBVIOUS
  <2> HIDE DEF DR, IR, domestic, international, ahead, behind
  <2>2. domestic \in Seq(R) /\ international \in Seq(R)
    BY <1>2, <1>3, SeqMonotonic DEF Lists
  <2>3. 1 \in Nat \ {0}
    OBVIOUS
  <2>4. CASE ahead = domestic /\ behind = international
    BY <1>2, <1>3, <2>2, <2>3, <2>4, InterleaveHolds
  <2>5. CASE ahead = international /\ behind = domestic
    <3>1. IR \cap DR = {}
      BY <1>3
    <3> QED BY <1>2, <2>2, <2>3, <2>5, <3>1, InterleaveHolds
  <2> QED BY <2>1, <2>4, <2>5
<1>6. ASSUME domestic # <<>>, international # <<>> PROVE moved \in Lists(R)
  <2>1. /\ 1 \in DOMAIN rows /\ \E i \in DOMAIN rows : needed = rows[i]
        /\ needed # rows[1]
    <3>5. rows \in Seq(Rows)
      BY <1>1, SeqMonotonic
    <3>1. PICK i \in DOMAIN rows : domestic[1] = rows[i] /\ Region(rows[i]) = "domestic"
      BY <1>6, <3>5, RegionFirst
    <3>2. PICK j \in DOMAIN rows :
             international[1] = rows[j] /\ Region(rows[j]) = "international"
      BY <1>6, <3>5, RegionFirst
    <3>3. 1 \in DOMAIN rows
      BY <1>6, <3>5, RegionFirst
    <3> HIDE DEF domestic, international
    <3>4. Region(rows[1]) \in {"domestic", "international"}
      BY DEF Region
    <3> QED BY <3>1, <3>2, <3>3, <3>4
  <2> HIDE DEF needed
  <2> DEFINE A == {rows[1], needed}
             B == {rows[i] : i \in I}
  <2>2. I \in SUBSET DOMAIN rows /\ A \cap B = {} /\ A \cup B \subseteq R
    BY <1>1, <2>1
  <2>3. <<rows[1], needed>> \in Lists(A)
    BY <2>1 DEF Lists
  <2>4. At(rows, I) \in Lists(B)
    BY <1>1, <2>2, AtLists
  <2> HIDE DEF A, B, I
  <2>5. moved \in Lists(A \cup B)
    BY <2>2, <2>3, <2>4, JoinedLists
  <2> QED BY <2>2, <2>5, ListsGrow
<1> HIDE DEF domestic, international, moved, ahead, behind
<1> QED BY <1>4, <1>5, <1>6

\* What _rank_search_results makes of a list of different pages is a list of
\* them, and of different sites for fresh news.
LEMMA RankedHolds ==
    ASSUME NEW R \in SUBSET Rows, NEW rows \in Lists(R), NEW q
    PROVE  \E H \in SUBSET R : /\ Ranked(q, rows) \in Lists(H)
                               /\ "freshness" \in q => SitesApart(H)
<1> DEFINE D == {i \in DOMAIN rows : ~Excluded(q, rows[i])}
           relevance == [i \in D |-> Relevance(q, rows[i])]
           sorted == Sorted(q, rows, relevance)
           spread == Spread(q, sorted)
<1>1. D \in SUBSET DOMAIN rows /\ relevance \in [D -> Int]
  <2>1. \A i \in DOMAIN rows : rows[i] \in Rows
    BY LenProperties DEF Lists
  <2> QED BY <2>1, RelevanceHolds
<1>2. Ranked(q, rows) = RankedBy(q, rows, relevance)
  BY Zenon DEF Ranked
<1> HIDE DEF D, relevance
<1>3. sorted \in Lists(R)
  BY <1>1, SortedHolds
<1>4. CASE \E i \in DOMAIN relevance : relevance[i] > 0
  <2>1. Ranked(q, rows) = Promoted(q, Balanced(q, spread))
    BY <1>2, <1>4, Zenon DEF RankedBy
  <2>2. PICK H \in SUBSET R : spread \in Lists(H) /\ ("freshness" \in q => SitesApart(H))
    BY <1>3, SpreadHolds
  <2> HIDE DEF spread
  <2>3. Promoted(q, Balanced(q, spread)) \in Lists(H)
    BY <2>2, BalancedHolds, PromotedHolds
  <2> QED BY <2>1, <2>2, <2>3
<1>5. CASE ~\E i \in DOMAIN relevance : relevance[i] > 0
  <2>1. Ranked(q, rows) = sorted
    BY <1>2, <1>5, Zenon DEF RankedBy
  <2>2. \A i \in D : relevance[i] > 0 => rows[i] \in {}
    BY <1>1, <1>5
  <2>3. Strict(q) => sorted \in Lists({})
    BY <1>1, <2>2, SortedHolds
  <2>4. "freshness" \in q => Strict(q)
    BY DEF Strict
  <2>5. SitesApart({})
    BY DEF SitesApart
  <2> HIDE DEF sorted
  <2> QED BY <1>3, <2>1, <2>3, <2>4, <2>5
<1> QED BY <1>4, <1>5

-----------------------------------------------------------------------------
(* Ranking loses no row *)

\* Unless fresh news is asked for, rows of a site with too many come last.
LEMMA SpreadKeeps ==
    ASSUME NEW R, NEW rows \in Lists(R), NEW q, "freshness" \notin q
    PROVE  ToSet(rows) \subseteq ToSet(Spread(q, rows))
<1> DEFINE sameHost(k) == {j \in 1..k : Host(rows[j]) = Host(rows[k])}
           diverse == {k \in DOMAIN rows : Cardinality(sameHost(k)) <=
                                             (IF "freshness" \in q THEN 1 ELSE 2)}
           others == DOMAIN rows \ diverse
<1>1. /\ diverse \in SUBSET DOMAIN rows /\ others \in SUBSET DOMAIN rows
      /\ diverse \cup others = DOMAIN rows
  OBVIOUS
<1>2. Spread(q, rows) = At(rows, diverse)
                          \o (IF "freshness" \in q THEN <<>> ELSE At(rows, others))
  BY Zenon DEF Spread
<1> HIDE DEF diverse, others
<1>3. Spread(q, rows) = At(rows, diverse) \o At(rows, others)
  BY <1>2
<1> QED BY <1>1, <1>3, PartsKeep DEF Lists

\* Of every site the first row is kept, whatever is asked for.
LEMMA SpreadKeepsSites ==
    ASSUME NEW R, NEW rows \in Lists(R), NEW q, NEW i \in DOMAIN rows
    PROVE  \E row \in ToSet(Spread(q, rows)) : Host(row) = Host(rows[i])
<1> DEFINE sameHost(k) == {j \in 1..k : Host(rows[j]) = Host(rows[k])}
           diverse == {k \in DOMAIN rows : Cardinality(sameHost(k)) <=
                                             (IF "freshness" \in q THEN 1 ELSE 2)}
           others == DOMAIN rows \ diverse
           rest == IF "freshness" \in q THEN <<>> ELSE At(rows, others)
           site == {j \in DOMAIN rows : Host(rows[j]) = Host(rows[i])}
<1>1. rows \in Seq(R) /\ DOMAIN rows = 1..Len(rows) /\ Len(rows) \in Nat
  BY LenProperties DEF Lists
<1>2. PICK k \in site : \A j \in site : ~(j < k)
  <2>1. site \in SUBSET Nat /\ site # {}
    BY <1>1
  <2> QED BY <2>1, FirstExists
<1>3. sameHost(k) = {k}
  BY <1>1, <1>2
<1>4. k \in diverse
  <2>1. Cardinality({k}) = 1
    BY FS_Singleton
  <2> HIDE DEF sameHost
  <2> QED BY <1>3, <2>1
<1>5. Spread(q, rows) = At(rows, diverse) \o rest
  BY Zenon DEF Spread
<1>6. diverse \in SUBSET DOMAIN rows /\ others \in SUBSET DOMAIN rows
  OBVIOUS
<1> HIDE DEF diverse, others
<1>7. At(rows, diverse) \in Seq(R) /\ rest \in Seq(R)
  <2>1. At(rows, diverse) \in Seq(R)
    BY <1>1, <1>6, AtSeq
  <2>2. At(rows, others) \in Seq(R)
    BY <1>1, <1>6, AtSeq
  <2>3. <<>> \in Seq(R)
    OBVIOUS
  <2> QED BY <2>1, <2>2, <2>3
<1>8. rows[k] \in ToSet(At(rows, diverse))
  BY <1>1, <1>4, <1>6, AtKeeps
<1> HIDE DEF rest
<1>9. rows[k] \in ToSet(At(rows, diverse) \o rest)
  BY <1>7, <1>8, JoinedKeeps
<1> QED BY <1>2, <1>5, <1>9

\* Reviews at the front are taken from where they were.
LEMMA PromotedKeeps ==
    ASSUME NEW R, NEW rows \in Lists(R), NEW q
    PROVE  ToSet(rows) \subseteq ToSet(Promoted(q, rows))
<1> DEFINE reviews == {i \in DOMAIN rows : Type(rows[i]) = "review" /\
                         \A j \in 1..(i - 1) : Type(rows[j]) = "review" =>
                                                 Host(rows[j]) # Host(rows[i])}
           front == {i \in reviews : Cardinality({j \in reviews : j < i}) < 2}
           others == DOMAIN rows \ front
<1>1. Promoted(q, rows) = IF "recommendation" \in q
                            THEN At(rows, front) \o At(rows, others) ELSE rows
  BY Zenon DEF Promoted
<1>2. /\ front \in SUBSET DOMAIN rows /\ others \in SUBSET DOMAIN rows
      /\ front \cup others = DOMAIN rows
  OBVIOUS
<1> HIDE DEF front, others
<1>3. ToSet(rows) \subseteq ToSet(At(rows, front) \o At(rows, others))
  BY <1>2, PartsKeep DEF Lists
<1> QED BY <1>1, <1>3

\* Each row is among those of its region.
LEMMA RegionKeeps ==
    ASSUME NEW R, NEW rows \in Lists(R), NEW i \in DOMAIN rows
    PROVE  rows[i] \in ToSet(OfRegion(rows, Region(rows[i])))
<1> DEFINE I == {j \in DOMAIN rows : Region(rows[j]) = Region(rows[i])}
<1>1. OfRegion(rows, Region(rows[i])) = At(rows, I)
  BY Zenon DEF OfRegion
<1>2. I \in SUBSET DOMAIN rows /\ i \in I
  OBVIOUS
<1> HIDE DEF I
<1> QED BY <1>1, <1>2, AtKeeps DEF Lists

\* Rows of both regions, alternating or with one of them moved to the second
\* place, are the same rows.
LEMMA BalancedKeeps ==
    ASSUME NEW R \in SUBSET Rows, NEW rows \in Lists(R), NEW q
    PROVE  ToSet(rows) \subseteq ToSet(Balanced(q, rows))
<1> DEFINE domestic == OfRegion(rows, "domestic")
           international == OfRegion(rows, "international")
           ahead == IF Region(rows[1]) = "domestic" THEN domestic ELSE international
           behind == IF ahead = domestic THEN international ELSE domestic
           needed == IF Region(rows[1]) = "international" THEN domestic[1]
                                                             ELSE international[1]
           I == {i \in 2..Len(rows) : rows[i] # needed}
           moved == <<rows[1], needed>> \o At(rows, I)
           mixed == InterleaveResults(ahead, behind, 1)
<1>1. rows \in Seq(R) /\ rows \in Seq(Rows) /\ DOMAIN rows = 1..Len(rows) /\ Len(rows) \in Nat
  BY LenProperties, SeqMonotonic DEF Lists
<1>2. domestic \in Seq(R) /\ international \in Seq(R)
  <2>1. /\ domestic \in Lists({row \in R : Region(row) = "domestic"})
        /\ international \in Lists({row \in R : Region(row) = "international"})
    BY RegionLists
  <2>2. /\ {row \in R : Region(row) = "domestic"} \subseteq R
        /\ {row \in R : Region(row) = "international"} \subseteq R
    OBVIOUS
  <2> HIDE DEF domestic, international
  <2> QED BY <2>1, <2>2, SeqMonotonic DEF Lists
<1>3. Balanced(q, rows) =
        IF domestic = <<>> \/ international = <<>> THEN rows
        ELSE IF "dual_region" \in q THEN mixed
        ELSE IF {"cjk", "freshness"} \subseteq q THEN moved ELSE rows
  BY Zenon DEF Balanced
<1>4. ToSet(rows) \subseteq ToSet(mixed)
  <2>1. ToSet(rows) \subseteq ToSet(domestic) \cup ToSet(international)
    <3>1. ASSUME NEW i \in DOMAIN rows
          PROVE  rows[i] \in ToSet(domestic) \cup ToSet(international)
      <4>1. rows[i] \in ToSet(OfRegion(rows, Region(rows[i])))
        BY RegionKeeps
      <4>2. Region(rows[i]) = "domestic" \/ Region(rows[i]) = "international"
        BY DEF Region
      <4> QED BY <4>1, <4>2
    <3> HIDE DEF domestic, international
    <3> QED BY <3>1 DEF ToSet
  <2>2. \/ ahead = domestic /\ behind = international
        \/ ahead = international /\ behind = domestic
        \/ ahead = domestic /\ behind = domestic /\ domestic = international
        \/ ahead = international /\ behind = international /\ domestic = international
    OBVIOUS
  <2>3. ahead \in Seq(R) /\ behind \in Seq(R)
    <3> HIDE DEF domestic, international, ahead, behind
    <3> QED BY <1>2, <2>2
  <2> HIDE DEF domestic, international, ahead, behind
  <2>4. 1 \in Nat \ {0}
    OBVIOUS
  <2>5. ToSet(ahead) \cup ToSet(behind) \subseteq ToSet(mixed)
    BY <2>3, <2>4, InterleaveHolds
  <2> QED BY <2>1, <2>2, <2>5
<1>5. ASSUME domestic # <<>>, international # <<>> PROVE ToSet(rows) \subseteq ToSet(moved)
  <2>1. domestic[1] \in R /\ international[1] \in R
    <3> HIDE DEF domestic, international
    <3> QED BY <1>2, <1>5
  <2>2. needed \in R
    BY <2>1
  <2>3. 1 \in DOMAIN rows /\ rows[1] \in R
    <3>1. 1 \in DOMAIN rows
      BY <1>1, <1>5, RegionFirst
    <3> QED BY <1>1, <3>1
  <2> HIDE DEF needed
  <2>4. <<rows[1], needed>> \in Seq(R) /\ {rows[1], needed} \subseteq ToSet(<<rows[1], needed>>)
    BY <2>2, <2>3 DEF ToSet
  <2>5. I \in SUBSET DOMAIN rows /\ \A i \in DOMAIN rows : i = 1 \/ i \in I \/ rows[i] = needed
    BY <1>1
  <2> HIDE DEF I
  <2>6. At(rows, I) \in Seq(R) /\ \A i \in I : rows[i] \in ToSet(At(rows, I))
    BY <1>1, <2>5, AtSeq, AtKeeps
  <2>7. ToSet(<<rows[1], needed>>) \cup ToSet(At(rows, I)) \subseteq ToSet(moved)
    BY <2>4, <2>6, JoinedKeeps
  <2>8. \A i \in DOMAIN rows : rows[i] \in ToSet(moved)
    BY <2>4, <2>5, <2>6, <2>7
  <2> HIDE DEF moved
  <2> QED BY <2>8 DEF ToSet
<1> HIDE DEF domestic, international, moved, mixed
<1> QED BY <1>3, <1>4, <1>5

\* What ranking leaves out of a list of rows is what it means to: rows that
\* are excluded, that a strict query finds irrelevant, or, of fresh news, rows
\* of a site of which another is kept (_rank_search_results).
THEOREM RankingKeeps ==
    \A q : \A rows \in Lists(Rows) : \A i \in DOMAIN rows :
      ~Excluded(q, rows[i]) /\ (Strict(q) => Relevance(q, rows[i]) > 0) =>
        /\ "freshness" \notin q => rows[i] \in ToSet(Ranked(q, rows))
        /\ \E row \in ToSet(Ranked(q, rows)) : Host(row) = Host(rows[i])
<1> SUFFICES ASSUME NEW q, NEW rows \in Lists(Rows), NEW i \in DOMAIN rows,
                    ~Excluded(q, rows[i]), Strict(q) => Relevance(q, rows[i]) > 0
             PROVE  /\ "freshness" \notin q => rows[i] \in ToSet(Ranked(q, rows))
                    /\ \E row \in ToSet(Ranked(q, rows)) : Host(row) = Host(rows[i])
  BY Zenon
<1> DEFINE D == {j \in DOMAIN rows : ~Excluded(q, rows[j])}
           relevance == [j \in D |-> Relevance(q, rows[j])]
           sorted == Sorted(q, rows, relevance)
           spread == Spread(q, sorted)
           balanced == Balanced(q, spread)
<1>1. D \in SUBSET DOMAIN rows /\ relevance \in [D -> Int]
  <2>1. \A j \in DOMAIN rows : rows[j] \in Rows
    BY LenProperties DEF Lists
  <2> QED BY <2>1, RelevanceHolds
<1>2. Ranked(q, rows) = RankedBy(q, rows, relevance)
  BY Zenon DEF Ranked
<1>3. i \in D /\ (relevance[i] > 0 \/ ~Strict(q))
  OBVIOUS
<1> HIDE DEF D, relevance
<1>4. sorted \in Lists(Rows) /\ rows[i] \in ToSet(sorted)
  BY <1>1, <1>3, SortedHolds
<1> HIDE DEF sorted
<1>5. PICK H \in SUBSET Rows : spread \in Lists(H)
  BY <1>4, SpreadHolds
<1>6. "freshness" \notin q => ToSet(sorted) \subseteq ToSet(spread)
  BY <1>4, SpreadKeeps
<1>7. \E row \in ToSet(spread) : Host(row) = Host(rows[i])
  <2>1. PICK k \in DOMAIN sorted : sorted[k] = rows[i]
    BY <1>4 DEF ToSet
  <2>2. \E row \in ToSet(spread) : Host(row) = Host(sorted[k])
    BY <1>4, SpreadKeepsSites
  <2> QED BY <2>1, <2>2
<1> HIDE DEF spread
<1>8. balanced \in Lists(H) /\ ToSet(spread) \subseteq ToSet(balanced)
  BY <1>5, BalancedHolds, BalancedKeeps
<1> HIDE DEF balanced
<1>9. ToSet(balanced) \subseteq ToSet(Promoted(q, balanced))
  BY <1>8, PromotedKeeps
<1>10. Ranked(q, rows) = Promoted(q, balanced) \/ Ranked(q, rows) = sorted
  BY <1>2, Zenon DEF RankedBy, sorted, spread, balanced
<1> QED BY <1>4, <1>6, <1>7, <1>8, <1>9, <1>10

-----------------------------------------------------------------------------
(* The rows of a search *)

\* What is to be resolved: rows of different pages, in no more than one place
\* each, and of different sites for fresh news.
WellRanked(q, rows) ==
    \E R \in SUBSET Rows : /\ PagesApart(R) /\ rows \in Lists(R)
                           /\ "freshness" \in q => SitesApart(R)

\* The empty list is well ranked.
LEMMA NothingRanked == \A q : WellRanked(q, <<>>)
<1>1. PagesApart({}) /\ SitesApart({}) /\ {} \in SUBSET Rows /\ <<>> \in Lists({})
  BY ListsEmpty DEF PagesApart, SitesApart
<1> QED BY <1>1, Zenon DEF WellRanked

\* What is to be resolved is well ranked, whatever the sources gave.
LEMMA ToResolveHolds ==
    ASSUME NEW q, NEW raw \in Seq(Rows), NEW official \in Seq(Rows)
    PROVE  WellRanked(q, ToResolve(q, raw, official))
<1> DEFINE some == First(Distinct(raw), 160) \o official
           ranked == Ranked(q, Distinct(some))
           checks == IF 3 * Limit > 12 THEN 3 * Limit ELSE 12
<1>1. Distinct(raw) \in Seq(Rows)
  BY DistinctHolds, SeqMonotonic DEF Lists
<1>2. First(Distinct(raw), 160) \in Seq(Rows)
  BY <1>1, FirstHolds
<1>3. some \in Seq(Rows)
  BY <1>2, ConcatProperties
<1>4. ToResolve(q, raw, official) = First(ranked, checks)
  BY Zenon DEF ToResolve
<1>5. checks \in Nat
  BY SearchConstants
<1> HIDE DEF some, checks
<1>6. PICK R \in SUBSET Rows : PagesApart(R) /\ Distinct(some) \in Lists(R)
  BY <1>3, DistinctHolds
<1>7. PICK H \in SUBSET R : ranked \in Lists(H) /\ ("freshness" \in q => SitesApart(H))
  BY <1>6, RankedHolds
<1> HIDE DEF ranked
<1>8. First(ranked, checks) \in Lists(H)
  <2>1. ranked \in Seq(H)
    BY <1>7 DEF Lists
  <2> QED BY <1>5, <1>7, <2>1, FirstHolds
<1>9. H \in SUBSET Rows /\ PagesApart(H)
  BY <1>6 DEF PagesApart
<1> QED BY <1>4, <1>7, <1>8, <1>9, Zenon DEF WellRanked

\* The known official pages are rows.
LEMMA OfficialHolds == \A q : OfficialEntries(q) \in Seq(Rows)
<1> SUFFICES ASSUME NEW q PROVE OfficialEntries(q) \in Seq(Rows)
  OBVIOUS
<1> DEFINE given == Gives["official"]
           I == {i \in DOMAIN given : Info[given[i]].topical \/ "official" \in q}
<1>1. given \in Seq(Rows)
  BY SearchConstants DEF WebSources
<1>2. OfficialEntries(q) = At(given, I)
  BY Zenon DEF OfficialEntries
<1>3. I \in SUBSET DOMAIN given
  OBVIOUS
<1> HIDE DEF given, I
<1> QED BY <1>1, <1>2, <1>3, AtSeq

\* So is what the sources in `up` give, with any of Bing's pages,
LEMMA RawHolds ==
    ASSUME NEW q, NEW up, NEW html \in Seq(Rows)
    PROVE  RawRows(q, up, html) \in Seq(Rows)
<1> DEFINE of(source) == IF source \in up THEN Gives[source] ELSE <<>>
           pages == of("feeds") \o html
           mixed == InterleaveResults(of("news"), pages, 4)
           found == IF "freshness" \in q THEN mixed ELSE pages
           raw == Gives["direct"] \o found
<1>1. /\ Gives["direct"] \in Seq(Rows) /\ of("feeds") \in Seq(Rows)
      /\ of("news") \in Seq(Rows) /\ of("rss") \in Seq(Rows)
  <2>1. \A source \in WebSources : Gives[source] \in Seq(Rows)
    BY SearchConstants
  <2>2. <<>> \in Seq(Rows)
    OBVIOUS
  <2> QED BY <2>1, <2>2 DEF WebSources
<1>2. RawRows(q, up, html) = IF Len(raw) < Limit THEN raw \o of("rss") ELSE raw
  BY Zenon DEF RawRows
<1> HIDE DEF of
<1>3. pages \in Seq(Rows)
  BY <1>1, ConcatProperties
<1> HIDE DEF pages
<1>4. mixed \in Seq(Rows)
  <2>1. 4 \in Nat \ {0}
    OBVIOUS
  <2> QED BY <1>1, <1>3, <2>1, InterleaveHolds
<1> HIDE DEF mixed
<1>5. raw \in Seq(Rows)
  BY <1>1, <1>3, <1>4, ConcatProperties
<1> HIDE DEF raw
<1>6. raw \o of("rss") \in Seq(Rows)
  BY <1>1, <1>5, ConcatProperties
<1> QED BY <1>2, <1>5, <1>6

\* and the whole of an attempt is well ranked.
LEMMA PendingHolds ==
    ASSUME NEW q, NEW up, NEW html \in Seq(Rows), NEW shaped \in BOOLEAN,
           NEW mobile \in Seq(Rows)
    PROVE  WellRanked(q, Pending(q, up, html, shaped, mobile))
<1> DEFINE asked == "searxng" \in up
                      /\ NeedsRegional(q, RawRows(q, up, html), OfficialEntries(q))
           more == IF asked THEN Gives["searxng"] ELSE <<>>
           all == RawRows(q, up, html) \o more \o First(mobile, Limit)
<1>1. Pending(q, up, html, shaped, mobile) =
        IF asked /\ ~shaped THEN <<>> ELSE ToResolve(q, all, OfficialEntries(q))
  BY Zenon DEF Pending, PendingOf
<1> HIDE DEF asked
<1>2. more \in Seq(Rows)
  <2>1. Gives["searxng"] \in Seq(Rows) /\ <<>> \in Seq(Rows)
    BY SearchConstants DEF WebSources
  <2> QED BY <2>1
<1> HIDE DEF more
<1>3. First(mobile, Limit) \in Seq(Rows)
  BY SearchConstants, FirstHolds
<1>4. RawRows(q, up, html) \in Seq(Rows) /\ OfficialEntries(q) \in Seq(Rows)
  BY RawHolds, OfficialHolds
<1>5. RawRows(q, up, html) \o more \in Seq(Rows)
  BY <1>2, <1>4, ConcatProperties
<1>6. all \in Seq(Rows)
  BY <1>3, <1>5, ConcatProperties
<1> HIDE DEF all
<1>7. WellRanked(q, ToResolve(q, all, OfficialEntries(q)))
  BY <1>4, <1>6, ToResolveHolds
<1> QED BY <1>1, <1>7, NothingRanked

\* What the mobile sources gave are rows.
LEMMA MobileRowsHold == MobileRows \subseteq Seq(Rows)
<1> SUFFICES ASSUME NEW up \in SUBSET DOMAIN Mobile
             PROVE  LET lists == [n \in up |-> Gives[Mobile[n]]] IN
                    Addresses(Merged(lists, [p \in PlacesIn(lists) |-> 1])) \in Seq(Rows)
  BY Zenon DEF MobileRows
<1> DEFINE lists == [n \in up |-> Gives[Mobile[n]]]
           round == [p \in PlacesIn(lists) |-> 1]
<1>1. DOMAIN Mobile = 1..Len(Mobile) /\ Len(Mobile) \in Nat
  BY SearchConstants, LenProperties
<1>2. up \in SUBSET Int /\ IsFiniteSet(up)
  <2>1. IsFiniteSet(1..Len(Mobile))
    BY <1>1, FS_Interval
  <2> QED BY <1>1, <2>1, FS_Subset
<1>3. lists \in [up -> Seq(Rows)]
  <2>1. \A n \in up : Mobile[n] \in ToSet(Mobile)
    BY DEF ToSet
  <2> QED BY <2>1, SearchConstants
<1>4. round \in [PlacesIn(lists) -> Int]
  OBVIOUS
<1> HIDE DEF lists, round
<1>5. Merged(lists, round) \in Seq(Rows)
  BY <1>2, <1>3, <1>4, MergedSeq
<1>6. Addresses(Merged(lists, round)) \in Seq(Rows)
  BY <1>5, AddressesHold
<1> QED BY <1>6 DEF lists, round

-----------------------------------------------------------------------------
(* The results *)

\* What resolves in time is well ranked still, public and within the limit.
LEMMA SafeRankedHolds ==
    ASSUME NEW q, NEW pending, WellRanked(q, pending), NEW resolved
    PROVE  LET web == SafeRanked(pending, resolved) IN
           /\ WellRanked(q, web) /\ Len(web) <= Limit
           /\ \A i \in DOMAIN web : Info[web[i]].public
<1> DEFINE I == {i \in DOMAIN pending : pending[i] \in resolved /\ Info[pending[i]].public}
           safe == At(pending, I)
           A == {pending[i] : i \in I}
<1>1. PICK R \in SUBSET Rows : /\ PagesApart(R) /\ pending \in Lists(R)
                               /\ "freshness" \in q => SitesApart(R)
  BY Zenon DEF WellRanked
<1>2. SafeRanked(pending, resolved) = First(safe, Limit)
  BY Zenon DEF SafeRanked
<1>3. pending \in Seq(R) /\ \A i, j \in DOMAIN pending : pending[i] = pending[j] => i = j
  BY <1>1 DEF Lists
<1>4. I \in SUBSET DOMAIN pending
  OBVIOUS
<1>5. safe \in Lists(A)
  BY <1>3, <1>4, AtLists
<1>6. A \in SUBSET R /\ \A row \in A : Info[row].public
  BY <1>3, LenProperties
<1> HIDE DEF I, safe, A
<1>7. safe \in Seq(A)
  BY <1>5 DEF Lists
<1>8. First(safe, Limit) \in Lists(A) /\ Len(First(safe, Limit)) <= Limit
  BY <1>5, <1>7, SearchConstants, FirstHolds
<1>9. A \in SUBSET Rows /\ PagesApart(A) /\ ("freshness" \in q => SitesApart(A))
  BY <1>1, <1>6 DEF PagesApart, SitesApart
<1>10. \A i \in DOMAIN First(safe, Limit) : Info[First(safe, Limit)[i]].public
  BY <1>6, <1>8, LenProperties DEF Lists
<1>11. WellRanked(q, First(safe, Limit))
  BY <1>8, <1>9, Zenon DEF WellRanked
<1> QED BY <1>2, <1>8, <1>10, <1>11

\* Results of high quality are two at least.
LEMMA QualityHolds ==
    ASSUME NEW q, NEW web \in Seq(Rows), Quality(q, web) = "high"
    PROVE  Len(web) >= 2
BY LenProperties DEF Quality

\* What well ranked results promise.
LEMMA WebHolds ==
    ASSUME NEW q, NEW web, WellRanked(q, web)
    PROVE  /\ \A i \in DOMAIN web : WellFormed(web[i])
           /\ \A i, j \in DOMAIN web : i # j =>
                /\ Page(web[i]) # Page(web[j])
                /\ "freshness" \in q => Host(web[i]) # Host(web[j])
           /\ Quality(q, web) = "high" =>
                Cardinality({Page(row) : row \in ToSet(web)}) >= 2
<1>1. PICK R \in SUBSET Rows : /\ PagesApart(R) /\ web \in Lists(R)
                               /\ "freshness" \in q => SitesApart(R)
  BY Zenon DEF WellRanked
<1>2. /\ web \in Seq(R) /\ DOMAIN web = 1..Len(web) /\ Len(web) \in Nat
      /\ \A i \in DOMAIN web : web[i] \in R
      /\ \A i, j \in DOMAIN web : web[i] = web[j] => i = j
  BY <1>1, LenProperties DEF Lists
<1>3. \A i \in DOMAIN web : WellFormed(web[i])
  BY <1>1, <1>2 DEF PagesApart
<1>4. \A i, j \in DOMAIN web : i # j => Page(web[i]) # Page(web[j])
  BY <1>1, <1>2 DEF PagesApart
<1>5. ASSUME "freshness" \in q
      PROVE  \A i, j \in DOMAIN web : i # j => Host(web[i]) # Host(web[j])
  BY <1>1, <1>2, <1>5 DEF SitesApart
<1>6. ASSUME Quality(q, web) = "high"
      PROVE  Cardinality({Page(row) : row \in ToSet(web)}) >= 2
  <2> DEFINE pages == {Page(row) : row \in ToSet(web)}
             page == [i \in DOMAIN web |-> Page(web[i])]
  <2>1. web \in Seq(Rows)
    BY <1>2, SeqMonotonic
  <2>2. 1 \in DOMAIN web /\ 2 \in DOMAIN web
    <3>1. Len(web) >= 2
      BY <1>6, <2>1, QualityHolds
    <3> QED BY <1>2, <3>1
  <2>3. page \in Surjection(DOMAIN web, pages)
    BY DEF Surjection, ToSet
  <2>4. IsFiniteSet(DOMAIN web)
    BY <1>2, FS_Interval
  <2> DEFINE one == page[1]
             other == page[2]
  <2>5. one \in pages /\ other \in pages /\ one # other
    BY <1>4, <2>2 DEF ToSet
  <2> HIDE DEF pages, page, one, other
  <2>6. IsFiniteSet(pages)
    BY <2>3, <2>4, FS_Surjection
  <2>7. IsFiniteSet({one}) /\ Cardinality({one}) = 1
    BY FS_Singleton
  <2>8. {one, other} = {one} \cup {other} /\ other \notin {one}
    BY <2>5
  <2>9. Cardinality({one, other}) = 2
    <3>1. Cardinality({one} \cup {other}) =
            IF other \in {one} THEN Cardinality({one}) ELSE Cardinality({one}) + 1
      BY <2>7, FS_AddElement, Zenon
    <3> QED BY <2>7, <2>8, <3>1
  <2>10. {one, other} \in SUBSET pages
    BY <2>5
  <2>11. Cardinality({one, other}) <= Cardinality(pages) /\ Cardinality(pages) \in Nat
    BY <2>6, <2>10, FS_Subset, FS_CardinalityType
  <2>12. Cardinality(pages) >= 2
    BY <2>9, <2>11
  <2> QED BY <2>12 DEF pages
<1> QED BY <1>3, <1>4, <1>5, <1>6

\* Whatever the sources gave and whichever addresses resolved in time: the
\* results are of different pages, public, and no more than asked for, of
\* different sites for fresh news, and more than one page if said to be good
\* (_rank_search_results, _safe_ranked_results, _search_quality_metadata).
THEOREM ResultsHold == ResultsWellFormed
<1> DEFINE Good(q, web) ==
             /\ Len(web) <= Limit
             /\ \A i \in DOMAIN web : WellFormed(web[i]) /\ Info[web[i]].public
             /\ \A i, j \in DOMAIN web : i # j =>
                  /\ Page(web[i]) # Page(web[j])
                  /\ "freshness" \in q => Host(web[i]) # Host(web[j])
             /\ Quality(q, web) = "high" =>
                  Cardinality({Page(row) : row \in ToSet(web)}) >= 2
<1>1. ASSUME NEW q, NEW mobile \in Seq(Rows), NEW web \in Results(q, mobile)
      PROVE  Good(q, web)
  <2>1. \E up : \E html \in {First(Gives["html"], n) : n \in 0..Len(Gives["html"])} :
           \E shaped \in BOOLEAN : \E resolved :
             web = SafeRanked(Pending(q, up, html, shaped, mobile), resolved)
    BY DEF Results
  <2>4. PICK up, html : /\ \E n \in 0..Len(Gives["html"]) : html = First(Gives["html"], n)
                        /\ \E shaped \in BOOLEAN : \E resolved :
                             web = SafeRanked(Pending(q, up, html, shaped, mobile), resolved)
    BY <2>1
  <2>5. PICK shaped \in BOOLEAN : \E resolved :
           web = SafeRanked(Pending(q, up, html, shaped, mobile), resolved)
    BY <2>4
  <2>6. PICK resolved : web = SafeRanked(Pending(q, up, html, shaped, mobile), resolved)
    BY <2>5
  <2>7. html \in Seq(Rows)
    <3>1. Gives["html"] \in Seq(Rows)
      BY SearchConstants DEF WebSources
    <3>2. PICK n \in Nat : html = First(Gives["html"], n)
      BY <2>4, <3>1, LenProperties
    <3> QED BY <3>1, <3>2, FirstHolds
  <2>2. WellRanked(q, Pending(q, up, html, shaped, mobile))
    BY <2>7, PendingHolds
  <2>3. /\ WellRanked(q, web) /\ Len(web) <= Limit
        /\ \A i \in DOMAIN web : Info[web[i]].public
    BY <2>6, <2>2, SafeRankedHolds
  <2> QED BY <2>3, WebHolds
<1>2. ASSUME NEW outcome \in Outcomes
      PROVE  \E mobile \in Seq(Rows) : outcome.results = Results(outcome.query, mobile)
  <2>1. PICK q \in Queries \cup OtherQueries, mobile \in MobileRows :
           outcome = [query |-> q, mobile |-> mobile, results |-> Results(q, mobile)]
    BY DEF Outcomes
  <2>2. outcome.results = Results(outcome.query, mobile) /\ mobile \in Seq(Rows)
    BY <2>1, MobileRowsHold
  <2> QED BY <2>2
<1>3. \A outcome \in Outcomes : \A web \in outcome.results : Good(outcome.query, web)
  <2> HIDE DEF Good
  <2> QED BY <1>1, <1>2
<1> QED BY <1>3, Zenon DEF ResultsWellFormed

-----------------------------------------------------------------------------
(* The invariant the run checks *)

\* In every reachable state the types and the limits of copies hold, and what
\* becomes of rows and pages is well formed (search, _cached_search, extract).
THEOREM SearchInvHolds == Spec => []SearchInv
<1>1. CacheInv => SearchInv
  BY ResultsHold, ExtractionHolds DEF SearchInv
<1> QED BY <1>1, CacheInvHolds, PTL
=============================================================================
