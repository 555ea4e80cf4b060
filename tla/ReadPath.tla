------------------------------ MODULE ReadPath -------------------------------
(***************************************************************************)
(* How a message gets out of WeChat's database: WeChat writes to its       *)
(* database and write-ahead log, the Chat API copies both into a snapshot  *)
(* (SnapshotReader), and reads it for the monitor, which publishes what is *)
(* new to the queue of a stream (EventHub), for the stream itself, which   *)
(* first sends what it finds there (Handler._stream), and for a client     *)
(* that asks (GET /groups/<id>/messages). One client does both in turn.    *)
(*                                                                         *)
(* A message is its local_id, a page its version: the number of messages   *)
(* in it. Every write changes what stat() says of the file it goes to.     *)
(***************************************************************************)
EXTENDS Integers, Sequences

CONSTANTS
    MaxMessages, MaxCommits, \* bounds: a commit has one or more messages
    Pages,        \* pages of the database, 1 to n: every commit writes them all
    Attempts,     \* tries of one refresh (4)
    PageLimit,    \* rows of one read by the monitor or a stream (500)
    QueueSize,    \* events a stream may be behind (1000)
    MaxFaults     \* bound on restarts, broken connections and I/O errors

ASSUME ReadConstants ==
    /\ MaxMessages \in Nat \ {0}
    /\ MaxCommits \in Nat /\ Pages \in Nat \ {0}
    /\ Attempts \in Nat \ {0} /\ PageLimit \in Nat \ {0}
    /\ QueueSize \in Nat \ {0} /\ MaxFaults \in Nat

VARIABLES
    committed,        \* WeChat: messages written, with their commit
    db,               \* WeChat: version of each page of the database
    wal,              \* WeChat: the log, salt of its header, frames in use
    snapshot,         \* version of each page of the snapshot; <<>>: no file
    stale, raced,     \* stat() has changed since the snapshot; in this attempt
    reader,           \* who holds the reader's lock, and what for
    monitor, handler, \* MessageMonitor; the handler of the stream
    queue,            \* the stream's queue
    subscribed,
    client,           \* one who listens and asks
    start,            \* history: the newest id a monitor took as its start while
                      \* a stream was subscribed
    drained,          \* history: ids taken out of a full queue
    faults

fileVars == <<committed, db, wal>>
readerVars == <<snapshot, reader>>
hubVars == <<queue, subscribed>>
endVars == <<monitor, handler, client, start, drained>>
vars == <<fileVars, stale, readerVars, raced, hubVars, endVars, faults>>

Ids == 1..MaxMessages
NoOne == [who |-> "none", pc |-> "free", try |-> 0, page |-> <<>>, floor |-> 0]
NoStream == [pc |-> "off", sent |-> 0, to |-> 0, more |-> FALSE]
NewMonitor == [pc |-> "sleeps", last |-> 0, to |-> 0, put |-> FALSE]
CLOSED == 0

Init ==
    /\ committed = 0 /\ db = [p \in 1..Pages |-> 0]
    /\ wal = [salt |-> 0, used |-> 0, frames |-> <<>>, commits |-> 0]
    /\ snapshot = <<>> /\ stale = TRUE /\ raced = FALSE /\ reader = NoOne
    /\ monitor = NewMonitor /\ handler = NoStream
    /\ queue = <<>> /\ subscribed = FALSE
    /\ client = [from |-> 0, last |-> 0, got |-> <<>>]
    /\ start = 0 /\ drained = {} /\ faults = 0

Fault == faults < MaxFaults /\ faults' = faults + 1

-----------------------------------------------------------------------------
(* WeChat *)

Touched == stale' = TRUE /\ raced' = (reader.who # "none")

\* The frames of one commit, one at a time; frames of an earlier round of the
\* log may still stand behind them.
WriteFrame(ver) ==
    LET n == wal.used + 1
        page == (wal.used % Pages) + 1
        frame == [page |-> page, ver |-> ver, salt |-> wal.salt,
                  commit |-> page = Pages] IN
    /\ IF page = 1 THEN ver > committed /\ wal.commits < MaxCommits
                   ELSE ver = wal.frames[wal.used].ver
    /\ wal' = [wal EXCEPT !.used = n,
                 !.frames = IF n <= Len(@) THEN [@ EXCEPT ![n] = frame]
                                           ELSE Append(@, frame),
                 !.commits = IF frame.commit THEN @ + 1 ELSE @]
    /\ committed' = IF frame.commit THEN ver ELSE committed
    /\ Touched
    /\ UNCHANGED <<db, readerVars, hubVars, endVars, faults>>

\* A checkpoint copies the committed pages into the database in any order.
Checkpoint(p) ==
    /\ db[p] # committed /\ db' = [db EXCEPT ![p] = committed] /\ Touched
    /\ UNCHANGED <<committed, wal, readerVars, hubVars, endVars, faults>>

\* When all is copied, the next commit may start the log over.
StartLogOver ==
    /\ wal.used > 0 /\ (wal.used % Pages) = 0 /\ \A p \in 1..Pages : db[p] = committed
    /\ wal.commits < MaxCommits
    /\ wal' = [wal EXCEPT !.salt = @ + 1, !.used = 0] /\ Touched
    /\ UNCHANGED <<committed, db, readerVars, hubVars, endVars, faults>>

-----------------------------------------------------------------------------
(* SnapshotReader.refresh, under the reader's lock *)

ReaderOnly == UNCHANGED <<fileVars, hubVars, endVars>>

\* Somebody's read begins: _connect, refresh.
Reads(who) ==
    /\ reader = NoOne
    /\ reader' = [NoOne EXCEPT !.who = who, !.pc = "look", !.floor = committed]
    /\ UNCHANGED <<fileVars, stale, raced, snapshot, hubVars, faults>>

TryAgain(try) ==
    reader' = [reader EXCEPT !.pc = "db", !.try = try, !.page = <<>>]

\* Nothing has changed since the snapshot: it will do.
Look ==
    /\ reader.pc = "look"
    /\ IF snapshot # <<>> /\ ~stale
         THEN reader' = [reader EXCEPT !.pc = "ready"] /\ UNCHANGED raced
         ELSE TryAgain(1) /\ raced' = FALSE
    /\ UNCHANGED <<stale, snapshot, faults>> /\ ReaderOnly

\* _decrypt_database
ReadPage ==
    /\ reader.pc = "db"
    /\ reader' = [reader EXCEPT !.page = Append(@, db[Len(@) + 1]),
                    !.pc = IF Len(reader.page) + 1 = Pages THEN "wal" ELSE @]
    /\ UNCHANGED <<stale, raced, snapshot, faults>> /\ ReaderOnly

\* _patch_wal: the frames that carry the header's salt, up to the last commit,
\* are written over the pages. The log is read in one go; a read that a write
\* tears is, by salts and checksums, one made just before that write.
ReadLog ==
    LET fits == {n \in DOMAIN wal.frames : \A i \in 1..n : wal.frames[i].salt = wal.salt}
        used == {i \in fits : \E n \in fits : i <= n /\ wal.frames[n].commit}
        of(p) == {i \in used : wal.frames[i].page = p}
        latest(p) == CHOOSE i \in of(p) : \A j \in of(p) : j <= i IN
    /\ reader.pc = "wal"
    /\ reader' = [reader EXCEPT !.pc = "check",
                     !.page = [p \in 1..Pages |-> IF of(p) = {} THEN @[p]
                                                  ELSE wal.frames[latest(p)].ver]]
    /\ UNCHANGED <<stale, raced, snapshot, faults>> /\ ReaderOnly

\* Faulty variant: whatever was read is taken.
UnchangedAnyway == TRUE

\* before = after
UnchangedSince == ~raced

Ends(pc) == reader' = [NoOne EXCEPT !.who = reader.who, !.pc = pc, !.floor = reader.floor]

Failed ==
    IF reader.try < Attempts
      THEN TryAgain(reader.try + 1) /\ raced' = FALSE
      ELSE Ends("failed") /\ UNCHANGED raced

\* The files are as they were at the start of this attempt, or it is made
\* again, as it is after any error.
Check ==
    /\ \/ /\ reader.pc = "check" /\ UnchangedSince
          /\ reader' = [reader EXCEPT !.pc = "replace"] /\ UNCHANGED <<raced, faults>>
       \/ reader.pc = "check" /\ ~UnchangedSince /\ Failed /\ UNCHANGED faults
       \/ reader.pc = "check" /\ Fault /\ Failed
    /\ UNCHANGED <<stale, snapshot>> /\ ReaderOnly

Replace ==
    /\ reader.pc = "replace" /\ snapshot' = reader.page /\ stale' = raced
    /\ Ends("ready")
    /\ UNCHANGED <<raced, faults>> /\ ReaderOnly

\* The rows of the snapshot: those of a message that is in every page.
Newest == CHOOSE v \in {snapshot[p] : p \in 1..Pages} :
            \A p \in 1..Pages : v <= snapshot[p]

\* The read of `who` has its rows, or has failed; the lock is free again.
Has(who) == reader.who = who /\ reader.pc = "ready"
HasNot(who) == reader.who = who /\ reader.pc = "failed"
Unlock ==
    reader' = NoOne /\ raced' = FALSE /\ UNCHANGED <<fileVars, stale, snapshot, faults>>

\* messages_after: the last of the rows it returns
LastAfter(id) ==
    IF Newest <= id THEN id ELSE IF Newest - id > PageLimit THEN id + PageLimit ELSE Newest

-----------------------------------------------------------------------------
(* MessageMonitor and EventHub *)

MonitorReads ==
    /\ monitor.pc = "sleeps" /\ Reads("monitor")
    /\ monitor' = [monitor EXCEPT !.pc = "reads"]
    /\ UNCHANGED <<handler, client, start, drained>>

Sleeps(last) == [NewMonitor EXCEPT !.last = last]

\* Its first id is whatever is newest; from then on it publishes what follows.
MonitorHasRows ==
    /\ monitor.pc = "reads" /\ Has("monitor") /\ Unlock
    /\ IF monitor.last = 0
         THEN /\ monitor' = Sleeps(Newest)
              /\ start' = IF subscribed /\ Newest > start THEN Newest ELSE start
         ELSE LET to == LastAfter(monitor.last) IN
              /\ monitor' = IF to = monitor.last THEN Sleeps(to)
                            ELSE [monitor EXCEPT !.pc = "publishes", !.to = to]
              /\ UNCHANGED start
    /\ UNCHANGED <<hubVars, handler, client, drained>>

\* The next cycle tries again.
MonitorFails ==
    /\ monitor.pc = "reads" /\ HasNot("monitor") /\ Unlock /\ monitor' = Sleeps(monitor.last)
    /\ UNCHANGED <<hubVars, handler, client, start, drained>>

HubOnly == UNCHANGED <<fileVars, stale, raced, readerVars, handler, client,
                       start, faults>>

\* publish: the clients are copied under the lock, and served without it.
PublishBegins ==
    /\ monitor.pc = "publishes"
    /\ monitor' = [monitor EXCEPT !.pc = "puts", !.put = subscribed]
    /\ UNCHANGED <<hubVars, drained>> /\ HubOnly

Published ==
    monitor' = IF monitor.last + 1 = monitor.to THEN Sleeps(monitor.to)
               ELSE [monitor EXCEPT !.pc = "publishes", !.last = @ + 1, !.put = FALSE]

PublishPuts ==
    /\ monitor.pc = "puts" /\ (monitor.put => Len(queue) < QueueSize) /\ Published
    /\ queue' = IF monitor.put THEN Append(queue, monitor.last + 1) ELSE queue
    /\ UNCHANGED <<subscribed, drained>> /\ HubOnly

\* A client that is too slow has to go.
PublishDropsClient ==
    /\ monitor.pc = "puts" /\ monitor.put /\ Len(queue) = QueueSize
    /\ subscribed' = FALSE /\ monitor' = [monitor EXCEPT !.pc = "drains"]
    /\ UNCHANGED <<queue, drained>> /\ HubOnly

\* Its queue is emptied, one event at a time while its handler may go on
\* taking from it, and then tells the handler to close.
PublishDrains ==
    /\ monitor.pc = "drains"
    /\ IF monitor.put /\ queue # <<>>
         THEN /\ drained' = drained \cup {Head(queue)} /\ queue' = Tail(queue)
              /\ UNCHANGED monitor
         ELSE /\ queue' = IF monitor.put THEN <<CLOSED>> ELSE queue
              /\ Published /\ UNCHANGED drained
    /\ UNCHANGED subscribed /\ HubOnly

-----------------------------------------------------------------------------
(* Handler._stream and its client *)

StreamOnly == UNCHANGED <<monitor, start, drained>>
NoRead == UNCHANGED <<fileVars, stale, raced, readerVars>>

\* The client comes with the last id it has received, if it has any; without
\* one the stream begins at the newest message.
Connect ==
    /\ handler.pc = "off"
    /\ IF client.last > 0
         THEN /\ handler' = [NoStream EXCEPT !.pc = "subscribe", !.sent = client.last]
              /\ NoRead /\ UNCHANGED faults
         ELSE Reads("handler") /\ handler' = [NoStream EXCEPT !.pc = "latest"]
    /\ UNCHANGED <<hubVars, client>> /\ StreamOnly

StreamFindsLatest ==
    /\ handler.pc = "latest" /\ Has("handler") /\ Unlock
    /\ handler' = [handler EXCEPT !.pc = "subscribe", !.sent = Newest]
    /\ client' = [client EXCEPT !.from = Newest]
    /\ UNCHANGED hubVars /\ StreamOnly

\* Faulty variant: what came before the subscription is not looked for.
SubscribeOnly ==
    /\ handler.pc = "subscribe" /\ handler' = [handler EXCEPT !.pc = "live"]
    /\ subscribed' = TRUE /\ queue' = <<>>
    /\ NoRead /\ UNCHANGED <<client, faults>> /\ StreamOnly

Subscribe ==
    /\ handler.pc = "subscribe" /\ handler' = [handler EXCEPT !.pc = "backlog"]
    /\ subscribed' = TRUE /\ queue' = <<>>
    /\ NoRead /\ UNCHANGED <<client, faults>> /\ StreamOnly

BacklogReads ==
    /\ handler.pc = "backlog" /\ Reads("handler")
    /\ handler' = [handler EXCEPT !.pc = "reads"]
    /\ UNCHANGED client /\ StreamOnly

Live(id) == [NoStream EXCEPT !.pc = "live", !.sent = id]

BacklogHasRows ==
    /\ handler.pc = "reads" /\ Has("handler") /\ Unlock
    /\ LET to == LastAfter(handler.sent) IN
       handler' = IF to = handler.sent THEN Live(to)
                  ELSE [handler EXCEPT !.pc = "writes", !.to = to,
                                       !.more = to - handler.sent = PageLimit]
    /\ UNCHANGED <<hubVars, client>> /\ StreamOnly

\* _write_event, and the client hears of it.
Write(id) == client' = [client EXCEPT !.last = id, !.got = Append(@, id)]

BacklogWrites ==
    LET id == handler.sent + 1 IN
    /\ handler.pc = "writes" /\ Write(id)
    /\ handler' = IF id < handler.to THEN [handler EXCEPT !.sent = id]
                  ELSE [Live(id) EXCEPT !.pc = IF handler.more THEN "backlog" ELSE "live"]
    /\ NoRead /\ UNCHANGED <<hubVars, faults>> /\ StreamOnly

\* Faulty variant: what the backlog had is sent again.
IsNewAnyway(id) == TRUE

\* An event of the queue: the backlog may have had it already.
IsNew(id) == id > handler.sent

StreamWrites ==
    /\ handler.pc = "live" /\ queue # <<>> /\ Head(queue) # CLOSED
    /\ queue' = Tail(queue) /\ UNCHANGED subscribed
    /\ IF IsNew(Head(queue))
         THEN Write(Head(queue)) /\ handler' = [handler EXCEPT !.sent = Head(queue)]
         ELSE UNCHANGED <<client, handler>>
    /\ NoRead /\ UNCHANGED faults /\ StreamOnly

\* The handler's queue goes with it, even if the monitor is about to fill it.
Gone == /\ handler' = NoStream /\ subscribed' = FALSE /\ queue' = <<>>
        /\ monitor' = [monitor EXCEPT !.put = FALSE] /\ UNCHANGED <<start, drained>>

\* The queue was full. The response promises keep-alive, so that the client
\* sees the end only when it, or the server, closes the connection: until then
\* it is one that has not reconnected yet.
StreamCloses ==
    /\ handler.pc = "live" /\ queue # <<>> /\ Head(queue) = CLOSED /\ Gone
    /\ NoRead /\ UNCHANGED <<client, faults>>

\* The connection breaks, or a read of the handler fails; do_GET then writes an
\* error into the open stream, which is no event and has no id.
StreamBreaks ==
    /\ Gone
    /\ \/ handler.pc \in {"subscribe", "backlog", "writes", "live"} /\ NoRead /\ Fault
       \/ handler.pc \in {"latest", "reads"} /\ HasNot("handler") /\ Unlock
    /\ UNCHANGED client

-----------------------------------------------------------------------------
(* GET /groups/<id>/messages *)

PollReads ==
    /\ handler.pc = "off" /\ client.last < MaxMessages /\ Reads("handler")
    /\ handler' = [NoStream EXCEPT !.pc = "asked"]
    /\ UNCHANGED client /\ StreamOnly

\* All the rows in one answer, with the id to go on from.
PollEnds ==
    /\ handler.pc = "asked" /\ handler' = NoStream /\ Unlock
    /\ \/ /\ Has("handler")
          /\ LET to == LastAfter(client.last) IN
             client' = [client EXCEPT !.last = to,
                          !.got = @ \o [i \in 1..(to - client.last) |-> client.last + i]]
       \/ HasNot("handler") /\ UNCHANGED client
    /\ UNCHANGED hubVars /\ StreamOnly

-----------------------------------------------------------------------------
\* The Chat API starts again; the snapshot stays, but not what it was made of.
Restart ==
    /\ Fault /\ reader' = NoOne /\ stale' = TRUE /\ raced' = FALSE
    /\ monitor' = NewMonitor /\ handler' = NoStream /\ subscribed' = FALSE /\ queue' = <<>>
    /\ UNCHANGED <<fileVars, snapshot, client, start, drained>>

WeChatStep ==
    \/ (\E ver \in Ids : WriteFrame(ver)) \/ (\E p \in 1..Pages : Checkpoint(p)) \/ StartLogOver
ReaderStep == Look \/ ReadPage \/ ReadLog \/ Check \/ Replace
MonitorStep ==
    \/ MonitorReads \/ MonitorHasRows \/ MonitorFails
    \/ PublishBegins \/ PublishPuts \/ PublishDropsClient \/ PublishDrains
StreamStep ==
    \/ Connect \/ StreamFindsLatest \/ Subscribe \/ BacklogReads \/ BacklogHasRows
    \/ BacklogWrites \/ StreamWrites \/ StreamCloses

Next ==
    \/ WeChatStep \/ ReaderStep \/ MonitorStep \/ StreamStep \/ StreamBreaks
    \/ PollReads \/ PollEnds \/ Restart

Spec == Init /\ [][Next]_vars

-----------------------------------------------------------------------------
(* Properties *)

TypeOK ==
    /\ committed \in 0..MaxMessages /\ db \in [1..Pages -> 0..MaxMessages]
    /\ wal.salt \in Nat /\ wal.used \in 0..Len(wal.frames)
    /\ snapshot \in {<<>>} \cup [1..Pages -> 0..MaxMessages]
    /\ stale \in BOOLEAN /\ raced \in BOOLEAN /\ subscribed \in BOOLEAN
    /\ reader.who \in {"none", "monitor", "handler"}
    /\ reader.pc \in {"free", "look", "db", "wal", "check", "replace",
                      "ready", "failed"}
    /\ monitor.pc \in {"sleeps", "reads", "publishes", "puts", "drains"}
    /\ handler.pc \in {"off", "latest", "subscribe", "backlog", "reads", "writes", "live",
                       "asked"}
    /\ queue \in Seq({CLOSED} \cup Ids) /\ Len(queue) <= QueueSize
    /\ client.got \in Seq(Ids) /\ drained \subseteq Ids /\ start \in 0..MaxMessages

\* The snapshot is what the database was at one moment, however WeChat wrote
\* to its files while they were copied.
SnapshotIsWhole ==
    snapshot # <<>> => \E v \in 0..committed : \A p \in 1..Pages : snapshot[p] = v

\* A read returns everything that was committed when it began: a change of the
\* files is never overlooked.
ReadsAreCurrent == reader.pc = "ready" => Newest >= reader.floor

ReadInv == TypeOK /\ SnapshotIsWhole /\ ReadsAreCurrent

\* Whoever listens or asks gets every message, through full queues, broken
\* connections and restarts. It misses none but those a monitor, starting
\* after the stream, took as old, and those drained from its full queue while
\* its handler was taking later ones.
NothingIsMissed ==
    \A id \in (client.from + 1)..client.last :
        (\E i \in DOMAIN client.got : client.got[i] = id) \/ id <= start \/ id \in drained

\* Nothing is sent twice or late, although what the backlog holds may also be
\* in the queue: the id a client would come back with only grows.
EventsCountUp ==
    \A i, j \in DOMAIN client.got : i < j => client.got[i] < client.got[j]
=============================================================================
