# wechat-hermes-agent in TLA+

Specifications of the message paths of this repository: what a group member writes, how it
reaches the AI, how the answer gets back into the group once, and how "stop" stops it. The
modules are translated from the code under `src/`; `PROJECT.json` maps every definition to its
lines.

## 1. The system

```
 WeChat client + its SQLite databases (a Linux desktop, driven by xdotool)
      | copied, read                      ^ paste, Return
 chat-api/chat_api.py   snapshot -> SSE and /messages; sender, ledger, stop barriers
      | HTTP                              ^ HTTP (one request id per answer)
 chat-api/db_bridge.py  loop over local ids; asks the Adapter; posts the answer
      | HTTP
 adapter/app            FastAPI + SQLite store + one worker: turns, commands, tasks, memory
      | HTTP                              | POST barriers, followups -> Chat API
 Hermes (external AI runs)  <- web-research/hermes-plugin/provider.py (search tools)
```

| component | state | operations | hard behaviour | what makes it correct |
|---|---|---|---|---|
| Outbound text sender (`chat_api.py` 1244-2918) | ledger of requests in memory and on disk, `_lock`, per-room lock | `send`, `delivery_status`, confirmation scan | threads, crashes around a keypress that cannot be undone, failed saves, unknown outcomes | a request reaches WeChat at most once; verdicts are true |
| Stop barriers (465-733, 1855-1936) | SQLite rows, room lock | `commit`, `blocking_barrier` | race with a send in progress | nothing covered is pressed after the commit; nothing else is suppressed; a stop does not wait for a send |
| Ledger files (49-82, 1363-1582) | `send-state.json`, backup, marker | save, load, repair | partial saves, damage, restarts | no acknowledged change is forgotten; no needless refusal |
| Media sender (2929-3230) | same ledger, `media_requests` | `send_media` | as the text sender, without text to recognise | as the text sender |
| Snapshot reader (735-1130) | copied database and WAL | `refresh`, queries | copying while WeChat writes | a snapshot is one committed state and never behind the read that made it |
| Event stream (1135-1230, 3674-3713) | last id, subscribers' queues | publish, subscribe, backlog | subscription against backlog, full queues, reconnections | every message once, in order |
| Readiness (1232-1243, 3233-3318) | last self-check | self-check, gate | stale verdict | no send on a degraded service |
| Bridge (`db_bridge.py`) | cursor, retry, pending answer, stop watermark, scan cursor, processed ids | `run_once`, priority scan, `handle_message`, failure notice | lost responses, an asking thread, urgent commands that overtake, restarts | nothing skipped, nothing stopped is posted, the queue moves on |
| Adapter inbound (`store.py` 935-1106, `main.py` 4546-5230) | inbound ledger, response cache, execution lock | begin, answer, recover | repeated and late requests, restarts | one answer per message, repeated as it was |
| Adapter commands (`main.py` 1265-1400) | tasks, barriers through the Chat API | stop, pause, status | stop against work in progress | a confirmed stop is in force everywhere |
| Participation (`participation.py`, `store.py` 4098-4254) | slots, pause, listener state | claim, pause, mark | limits across retries | no more than the limit joins in |
| Followups (`main.py` 1100-1229, `store.py` 4256-4340) | one prepared followup per message | prepare, deliver | a human in between, restarts | at most one, after the first reply |
| Tasks, outbox, worker (`store.py` 1108-2704, `main.py` 1954-3005, 3977-4213) | tasks, generations, attempts, items | claim, run, recover, cancel, revise, retry, deliver, cut over | crash at each step, uncertain runs and deliveries, commands in between | a generation's runs take turns, replaced generations stay back, the outbox tells the truth |
| Memory and summaries (`store.py` 4452-5365) | timeline; jobs, room state | note, list; enqueue, claim, apply | a note, a mark and a response are three transactions | what counts as said was said. Jobs are switched off in this release |
| Nudges (`store.py` 3464-4080, `main.py` 3687-3975) | generations, active request | claim, confirm, recover | - | switched off in this release |
| Web research (`provider.py`) | memory and persistent search cache, circuits | search, extract | concurrent refresh, stale entries, partial answers | nothing is served past its limit; results are distinct, public and as good as said |
| Rest | - | prompts, policy, persona files, HTTP clients, deploy scripts | - | pure text or host administration |

Interaction: the bridge polls the Chat API, posts each message to the Adapter (which caches its
answer under the message's identity) and posts the answer back under a request id derived from
the message. Every outbound item carries its source message, task and generation; the Adapter
commits a barrier at the Chat API before it confirms a stop; the Chat API compares the two under
a room lock at the last moment before Return.

## 2. The modules and their order

| module | models | checked by | proved in |
|---|---|---|---|
| `ChatSender`, `OutboundPromise`, `ChatSenderRefinement` | the keypress that cannot be undone, and what it promises | `sender_*` | `ChatSenderProofs`, `ChatSenderLedgerProofs` |
| `SendStateFiles`, `LedgerStore` | what ChatSender assumes of its two files | `ledger_files` | `SendStateFilesProofs` |
| `Bridge` | order, retries and stops between the group and the Adapter | `bridge*` | `BridgeProofs` |
| `ChatTurn` | a message inside the Adapter: ledger, stop, turn, participation, followup | `chat_turn` | `ChatTurnProofs` |
| `Tasks` | a task from its queue to the group, with Hermes and the Chat API around it | `tasks` | `TasksProofs` |
| `ReadPath` | how a message gets out of WeChat's files and to who listens | `read_path` | `ReadPathProofs` |
| `SearchResults`, `Extraction`, `Search` | the web research provider: rows, pages, and the caches and circuits around them | `search` | `SearchProofs` |

The modules meet at what they say of each other. Bridge takes from ChatSender that a request is
submitted once and that nothing behind the fence is; ChatTurn has a bridge that asks in order
(Bridge) and a Chat API that respects its fence (ChatSender); Tasks has the Chat API's ledger in
one step per request. What each assumes of the other is written at the actions that stand for it.

Left out: **Pipeline**, Bridge and ChatTurn composed over one conversation, with "one answer
per message" as the abstract specification; several tasks that compete for the worker.

## 3. ChatSender

Handler threads run `send` or `delivery_status`; `pc` follows them through the code:

| `pc` | code |
|---|---|
| `send` | `TextSender.send` waits for `_lock` (2809) |
| `check1`, `compose` | first two `_assert_current_send_allowed` of `_send_once`, window work, paste |
| `enter`, `fenced`, `press` | the room lock, the check under it, xdotool Return (1969-1986) |
| `confirm`, `failscan` | `_wait_for_confirmation` after a clean and after a failed UI run |
| `recheck` | a repeated request whose outcome is unknown (2840-2857) |
| `status` | `delivery_status` waits for `_lock` |
| `reply` | the response is being written |

`_lock` covers a send from its ledger lookup to its verdict; a stop takes the room's lock only.
`mem` and `disk` are the ledger in memory and as a restart would load it; `SaveSucceeds` and
`SaveFails` are the two outcomes of `_save_state` (a failed save may have reached the disk).
`rows` is WeChat's database, `inflight` what was submitted and is not stored yet; `presses`
counts Returns that reached WeChat. `barrier[b]` is one POST of a stop.

Abstractions: one room, the configured one; texts are model values and one row is one text;
times are two facts, "the attempt is less than 30 s old" (`young`) and "the row is dated more
than 15 s before the attempt" (`late`); fewer than 500 ledger entries, so none is evicted;
legacy tracking markers are left out.

`OutboundPromise` says the same without threads, locks, files and retries: `Submit` once and
only if not stopped and open, `Stop`, `Record` a true verdict. `ChatSenderRefinement` maps it:
submitted is what was pressed, stopped the committed barriers, the verdict what is on disk.

Runs (module `MCChatSender`):

| run | instance | shows |
|---|---|---|
| `sender_retries` | 2 threads (symmetric), 1 request id with 2 texts and 2 envelopes, a room stop, a late copy of the text, 1 row, 1 crash | whatever is retried, asked, crashes or fails to be saved: one press at most, on disk before it happens; no false "not submitted" or "suppressed"; "sent" is about the text that was asked, on the request's own row |
| `sender_requests` | 1 thread, a reply and a task delivery, a room stop and a task stop, 1 crash | a committed stop is respected up to the last instant; its own answer and later work pass; ChatSender implements `OutboundPromise` |
| `sender_live` | 2 threads, 1 request, 1 stop, no crash, specification `BarrierSpec` | a stop is answered although a send may hang; no failure path keeps the send lock |
| `sender_manual_copy` | 1 thread, a prompt copy by a human | **violation**: see 11 |

Why the bounds suffice: `_lock` admits one send at a time, so two threads show every order of
a send and a competing call; a second request matters only where the two are stopped by different
barriers; one crash lets a restarted process, whose state a failed save may have left behind
memory, take up the same request; one row is the confirmation or the copy that stands in for it.

Fairness: the section under the room lock is bounded by `enter_submit_timeout` and an SQLite
insert, so `BarrierSpec` assumes its steps and nothing else of a send, which may wait in the UI for
ever. `SendLockIsReleased` is conditional on `HandlersStep`, that every step of a handler ends, as
UI commands and scans have timeouts. Neither assumes that anything succeeds. The run has no crash:
a crash releases both locks and would only make these easier.

## 4. SendStateFiles

A ledger is the number of the change that produced it. A save writes backup, primary, marker,
each by rename; it may raise before or after any rename, and the process may die between them.
A start selects the higher revision, repairs the other copy (backup first), starts afresh only if
nothing and no marker is there, or refuses. `Init` also covers files of the release without
revisions. `Damage` deletes or truncates a data file at any time once there is a marker: before, nothing
tells a deleted ledger from none, and no promise about damage can be made. The history variable
`damaged` tells whether it did, for the two properties that hold only until then.

| run | instance | shows |
|---|---|---|
| `ledger_files` | `MaxVersions = 6` | a sender that runs knows every change whose save returned; a healthy idle sender can lose either file; until a file is damaged, a start never refuses and the two files implement `LedgerStore`: memory, one value on disk, a save that replaces it or, failing, may |

Six changes let several saves in a row fail and be repaired; the protocol compares the revisions
of two copies only, so nothing new happens beyond that. The proofs need no bound.

## 5. Bridge

Variables: `st` is the state file's content in memory, `disk` on disk (`Save` may fail with
either on disk); `preproc` the control ids handled ahead; `pc` the place in `run_once`,
`process_priority_controls` and `handle_message`; `scan` the priority scan (its pending and
failed commands, where it ends, and what follows it); `worker` the thread that asks the Adapter.
`log` holds the group's messages as kinds: `plain` chat, `stop` (cancel_all), `media` (other
urgent commands), `status` (commands in turn), `noise` (not for the bot). `maybe` are messages
whose XML metadata may still come and turn noise into chat. Around the loop: `answer` is the
Adapter (one answer per message, repeated; 409 while it works), `fence` the latest committed
room stop and `submitted` the requests in the group (ChatSender's promise). `maxRetries` is
MAX_RETRIES as configured, one of `RetryLimits`.

Abstractions: ids count from the baseline that `initialize_cursor` takes; a page holds all
messages (at most 200); an answer is one chunk; waiting before a retry is left out, so a retry
may come at once; a message is looked at as it is when its turn comes, while the code has it from
the page it read before the scan (late metadata then counts as coming after the turn);
`EMPTY_REPLY_FALLBACK`, for an answer without text that this Adapter does not give, is left out; a
422 and a 423 are final responses like 200 and 409; every message carries
`structured_valid`, as the Chat API always sends it.

| run | instance | shows |
|---|---|---|
| `bridge` | 2 messages of all 5 kinds, MAX_RETRIES 1 or 2, 1 failed save, 1 crash | nothing is passed over unhandled; an answer is saved before it leaves; urgent stops first; the watermark is never ahead of the fence; a stop is answered when in force and nothing older follows that answer; a failure notice is about something unanswered |
| `bridge_live` | chat and stops, 2 messages, MAX_RETRIES 2, an Adapter that heeds stops, `FairSpec` | every message is dealt with |
| `bridge_bare_stop` | the same with MAX_RETRIES 1 and an Adapter that ignores bare stops | **violation**: see 11 |

Why the bounds suffice: the loop handles one message at a time and everything else it looks at is
later commands, so two messages show each ordered pair of kinds; two tries distinguish the first,
the repeated and the last failure, and one the notice that follows at once. What is said of stops
is proved for any number of messages. Two properties have exceptions, and state them:
`PostedFromPending` two failed saves, after which the code posts an answer that is in memory only,
and `NoticeOnlyIfUnanswered` as many failed saves as retries, or a crash, after which a message
that was dealt with counts as failed. `bridge_live` has no crash and no failed save, because a
system that crashes for ever promises nothing.

Fairness (`FairSpec`): the loop takes its next step (it is a `while True` that catches
everything); reads and posts succeed now and then (strong fairness: they are retried); waits for
metadata end, as the code limits them; the Adapter finishes with a stop, which does not need the
AI, and the bridge hears of it now and then. Of the Adapter's other answers nothing is assumed:
failure notices keep the queue moving.

## 6. ChatTurn

| variables | code |
|---|---|
| `rows`, `done`, `fence` | the group by local id, the bridge's place in it, the latest room stop the Chat API has |
| `inbound`, `answer` | `inbound_ledger` and `request_cache` of `store.py` |
| `pc`, `out`, `seen` | the handler of a message in `chat` (4546-5230) and `run_sync_chat`: `stopping`/`stopped` around the barrier POST, `lock`, `session`, `model`, `clear`; its reply; the timeline as it read it |
| `lock` | `execution_lock`: a message or the worker |
| `slots`, `paused`, `listener`, `timeline` | participation slots, the pause, the listener state, the bot's lines of `companion_timeline` |
| `followup`, `worker` | `group_followups`, and `deliver_group_followup` in progress |

What lies between two awaits is one action, since all of it runs on one event loop. A stop goes
past the lock; every other turn waits for it, and looks again at the listener state and the slots
when it has it. `HandlerDies` is the exception nobody expects, `Restart` the process's end, from
which `recover_inbound` releases what was in progress.

Abstractions: what is written and how long ago are choices; a pause and a slot last equally long;
slots are kept for ever instead of a day; the model's words are one of two texts or nothing;
diagnostic sessions are left out. A reply is compared with the last long lines of the timeline, which
are all there are of two earlier messages; with more, any part of them. The context that the bridge
sends along holds what people wrote, never the bot's rows (db_bridge.py:552), and so has no part in
this. A stop that the bridge finds only in its own turn, and gives up there, is left to Bridge.

| run | instance | shows |
|---|---|---|
| `chat_turn` | 11 conversations of two messages, among them a stop before or after other kinds, the pairs that compete for the lock or the one slot, and a command that waits its turn or overtakes; two texts (symmetric), 1 restart | ledger and lock agree; what the timeline and the listener hold against the next turn was said, and a passive message brings the bot's next word nearer once; an unaddressed message takes the model's time once, whatever is retried; in the ten minutes after a stop the bot says nothing unasked; a second thought comes once and second |

Why the bounds suffice: what the properties relate is one message and something that comes before
or after it, a stop, a turn, a human's row; the answers and followups to two messages are rows of
their own, so that the group has up to six. One restart is enough to meet each state a crash leaves.
A conversation ends, hence no deadlock check.

Observed while modelling, and allowed by the model: `deliver_group_followup` takes any own row with
the same text for the first reply, and a text still to be found is generated before that reply is
known to be visible, although the docstrings (main.py:1101, 1171) say after; what was said need not
be in the timeline, since the note is a transaction after that of the response, and its failure is
only logged; the check for repetition uses the timeline as it was
before the wait for the lock; `StopFails` tells the user that nothing was changed, also when only
the response of a barrier that is in force was lost (1300-1320).

## 7. Tasks

This module models retired machinery. The release at hand sets `PURE_CHAT_RELEASE` (main.py:98): its
worker delivers followups only, `execute_task` returns early, the registration of artifacts answers
410, modify and retry are refused, and every start goes through `quarantine_legacy_runtime`, which puts
away what an earlier release left. The machinery of tasks is in the code, under test, and in the
databases the cut-over meets. `release = "tasks"` is that machinery, with the recovery of its own
starts (`Restart`: `recover` and `reconcile_outbox_recovery`, which this commit's lifespan does not
call); `CutOver` starts this one. What the properties say of `release = "tasks"` is said of the code as
its tests run it; of what this release runs only `CutOverIsFinal` speaks, and only it answers a hazard.

| variables | code |
|---|---|
| `task`, `outbox`, `release` | rows of `tasks` and `outbox_items`, `release_mode` |
| `worker` | `worker_loop`: `check`, `posted`, `probe` of an item (`deliver_outbox_item`), `start`, `created`, `wait`, `repair` of a run (`execute_task`); `dead`: the process dies before the outbox is prepared |
| `cmd`, `stop` | `handle_command` between its awaits: barrier POST, stop of the old run, the change |
| `runs`, `tools`, `lost` | Hermes: a run for each idempotency key, which ones used tools; `lost` notes what Hermes refused or forgot after it had accepted it |
| `posts`, `api`, `rows` | requests on their way, the Chat API's ledger, the group |
| `barred`, `stopped`, `textOnly` | the Chat API's task, room and media barriers |

A generation is what a revision or a retry makes of a task; attempts are the runs of a generation,
and a run whose creation got no answer is asked for again under the same key. `Fault` is the budget
of what may go wrong: a restart, a lost response, a failed download, a run that fails or is
forgotten. Cancels, revisions, retries and stops cost nothing.

Abstractions: one task of one room; one media item and one summary or question in a generation;
evidence and wording are choices; usage accounting, nudges' tasks and queued tasks of kind "chat"
are left out. `/delivery/status` answers "not_submitted" for an entry that failed (2685-2690).

| run | instance | shows |
|---|---|---|
| `tasks` | 2 generations, 2 attempts, 2 delivery attempts, two commands after each other in four combinations, 1 fault | ledger, outbox and group agree; items in flight are the worker's; nothing of a replaced generation appears; a generation's runs take turns; after the cut-over nothing is sent, run or revived |

Why the bounds suffice: a stale worker needs one generation to be stale against, an attempt one
before it, and each mutant of the code is found with one fault. Two faults and a single command,
which the run had at first, take longer and show nothing else; the four properties are proved for
any of these numbers. The system stops once the task is told of.

Observed: `register_artifact` files an artifact under the generation the task has at that moment,
so that a run of an old generation that was not stopped can have its file sent as the new result
(against "旧代次结果不会再发送", main.py:1507); a failed run whose tool events were lost is run again
(2794), and a clean failure after an uncertain creation takes a new key beside a run that may
exist: `RunsInTurn` excepts both by `lost`. A revision whose run ends between barrier and change
need not start a new generation, and the present one stays barred; a queued task revised after an
uncertain creation uses the old key with the new prompt; a tool call too many by an old run
cancels the new one; `_sync_delivery_compat` of an old generation overwrites the columns of the new
one, also after the cut-over (against store.py:830-833); text whose last try is reconciled as "not
submitted" stays prepared for ever; an exception of `prepare_task_outbox` in `worker_loop` (4023)
ends the worker.

## 8. ReadPath

| variables | code |
|---|---|
| `committed`, `db`, `wal` | WeChat's files: pages by version, frames with salts |
| `snapshot`, `stale`, `raced`, `reader` | `SnapshotReader.refresh` under its lock: `look`, `db` page by page, `wal`, `check`, `replace`; `raced` is the fingerprint that changed during an attempt |
| `monitor`, `queue`, `subscribed` | `MessageMonitor.run` and `EventHub`: `publishes`, `puts`, `drains` a client that is too slow |
| `handler`, `client` | `Handler._stream`: latest id, subscription, backlog, live; and one who reconnects with `Last-Event-ID` or polls |

| run | instance | shows |
|---|---|---|
| `read_path` | 4 messages in 2 commits, 2 pages, 2 attempts, pages of 2 rows, a queue of 2, 1 fault | a snapshot is what the database was at one moment and never older than the read; a listener gets each id once and in order, and misses none but those its two exceptions name |

Why the bounds suffice: two pages are torn or whole, the second commit overwrites the log of the
first, two rows more than a page (or a queue) holds make a second round. Every write is assumed to
change what `stat` says, and the log is read in one go. A stream that ends is one step: that its
keep-alive connection stays open, so that the client learns late (chat_api.py:3687), and that do_GET
writes an error body into a stream whose read failed (3670) changes nothing about ids.

The two exceptions are what the code does. The monitor takes the newest id as its start on each
cycle until it is not 0, and after a restart: what was committed between a stream's backlog and
that moment is not published (`start`). A full queue is drained while its handler may still take
later events, and the client comes back with the later id (`drained`). Nothing in the repository
uses the stream: the bridge polls.

## 9. Search

`SearchResults` gives the pure part, for a query as the set of what it asks for and a row as what
its address, text and site say: `Ranked`, `Balanced`, `Promoted`, `SafeRanked`, `Quality`.
`Extraction` is `extract` for every page and every course of its attempts. `Search` calls them and
adds the state: `memory` and `disk` (one query's entry), `circuit` and `sources`, one `thread` per
caller of `search`, between whose steps the locks are free.

| run | instance | shows |
|---|---|---|
| `search` | 2 threads (symmetric), 2 attempts, a fresh limit of 1 and 2 more to the stale one, the circuit of 2 failures and those of the mobile sources of 1, clock to 4, 1 fault; 7 queries over 9 rows, limit 2 | an answer from a cache is within its limit whoever copies what meanwhile; results are distinct, public, not too many, and "high" quality is not one page twice; a text is of an allowed address |

Why the bounds suffice: an entry is copied and served while it is fresh, when it just ceased to be,
when it has not been for a while, and when it is over (with a stale limit of 1 the third would
be missing, and an entry copied then has a fresh limit in memory that is later than its own, though
past already: `CopiesKeepLimits` says exactly that); two threads show
every overlap of a copy and a store; the rows hold each pair the ranking tells apart (two addresses
of one page, two pages of one site, both regions, one not public, one without a url), and every
subset of sources and of resolved addresses is tried.

Observed: an answer of SearXNG that is not of the expected shape breaks the whole attempt
(3255-3295); a mobile source that returns known rows counts as failed; a copy from disk may
overwrite a newer entry in memory (2932-2947), within the older entry's limits; the row of a slower
thread overwrites a newer one on disk (2894-2901), so that a search may fail although a newer answer
would have been within its stale limit; a deleted cache file turns the cache on disk off until a restart; a dual-region answer may lack a region although a row
of it was resolved. Not modelled: wall-clock jumps, the option that merges SearXNG always, DNS
that changes between check and fetch, a query without a word to rank by (its rows stay as they are,
2361), and addresses wrapped twice, which `_public_result_url` may turn into a page that is in the list
already (2532), after duplicates were removed. The part of `SearchInv` about extraction is mostly a
record of what `extract` reports; nothing else rests on it.

## 10. Proofs

`tlapm` checks eight modules; each theorem holds for every value of the constants that the named
assumptions allow. The inductive invariants that no run lists were checked by TLC as
well, each on an instance of its module: those of ReadPath with 3 messages and commits, 2 pages
and 1 fault (6.2 million states), `LedgerInv` with the constants of `sender_retries` and of
`sender_requests` (1.4 and 2.3 million), `QueueInv` with 2 messages, 2 failed saves and 1 crash
(9.5 million), and `SearchHolds` with the constants of `search` (4.8 million).

**ChatSenderProofs** (assumption `ChatSenderConstants`: the sets are of the right kinds, threads
and barriers are distinct, the markers for "nobody" and "nothing" are not members).
`SenderInvHolds` proves `SenderInv`, the inductive strengthening of four properties. None of them
is inductive by itself: `AtMostOnePress` is kept by `PressReturn` only because the thread that
presses holds `_lock` (`LocksAreOwned`) and its request is unpressed (`ComposingIsUnpressed`); that
is kept by `SendBegins` only because a request that was pressed is on disk and in memory as tried
(`PressedIsTried`); and `PressRespectsBarrier` needs that no barrier is committed between the last
check and the press (`PressIsUnblocked`), which the room lock gives. Each conjunct has a lemma with
one case per kind of step. From it follow `PressedAtMostOnce`, `PressedIsOnDisk`,
`StopsAreRespected` and `NegativeAnswersHold`.

**ChatSenderLedgerProofs** (also `SourcesArePositive`: chat_api.py refuses a source id below 1, in
an envelope and in a stop). `LedgerInvHolds` proves `LedgerInv`, which adds to `SenderInv` what an
entry says of the world: it is of an item somebody asked for; if sent, its row has its text and is newer than its attempt; if
suppressed, a committed stop covers it and nothing was pressed (`LedgerHolds`, in memory and on
disk). Induction needs that a thread that waits for its row has an open entry (`ConfirmingIsOpen`),
that no failed save leaves a sent entry on disk only (`SentIsFinal`), and where rows come from
(`MessagesAreFrom`). From it follow `MemoryIsDurableHolds`, `SentAnswersHold` and
`SuppressionsHold` without more. `ConfirmedByOwnRow` is no theorem: the code recognises a row by its
text, so that a row of another request or of a human confirms as well. What it does guarantee is
`SentOnEvidenceHolds`, without hypotheses: a request recorded as sent has a row of its text, newer than
its attempt, that a human typed or a request brought that was pressed once. `PromiseIsKept` shows that
each step of the sender is a step of `OutboundPromise` or leaves its variables alone. The promise
records a true verdict, which needs hypotheses that the code leaves to chance: no two request ids
have one text (`TextsTellRequests`), no human types a text of a request within the 15 s in which a
row counts as new (`NoPromptCopy`; both hold in `sender_requests`, and `sender_manual_copy`, which has
all but the second, shows that it is needed), and a request id comes with one item
(`OneItemPerRequest`, true of `sender_requests`, the run that checks `KeepsPromise`): an
`OutboundPromise` of requests cannot say which of two items a stop covers.

**SendStateFilesProofs** (assumption `FileConstants`). `FilesInvHolds` proves `FilesInv`: every
readable copy has the changes whose save returned (`AckedIsEverywhere`, damaged or not) and, while
nothing is damaged, the backup leads the primary and both follow memory (`BackupLeads`). That order
is why a start never meets two different copies of one revision, although saves may fail anywhere.
From it follow `AckedIsKept`, `EitherFileIsEnough` and `StartsWhenUndamaged`; `FilesImplementStore`
shows that initial states and steps map to those of `LedgerStore`.

**BridgeProofs** (assumption `BridgeConstants`). `StopInvHolds` proves `StopInv`: ids kept anywhere
are of messages read (`IdsAreLogged`), the loop has a message where it works on one
(`WorkHasMessage`), state in memory and on disk claims no stop the Chat API does not have and no
pending answer to a stop without it (`Sound`), and at `answered`, `send` and `scanSend` a stop is
in force (`StopsAreInForce`). From it follow `WatermarkHolds`, `StopAnswersHold` and
`OldWorkStaysBack`; the last also uses that the Chat API submits nothing older than its fence,
which is `StopsAreRespected` of ChatSenderProofs.

The second part of the module is about the queue. `QueueInvHolds` proves `QueueInv`, `StopInv` with

- `Kept`, of the state in memory and on disk: a pending answer is of the message after the cursor,
  a retry of that one or (after a failed save) of the one at the cursor, a processed id ahead of the
  cursor has had its answer, and every stop up to the place the last scan reached is processed;
- `PlaceInv`: where the loop works on a message, it is the one after the cursor, not noise and not
  processed; where it saves that a message is done, it is;
- `KindsInv`: what the Adapter decides late is no command, and noise is never answered;
- `ScanInv`: every stop a scan has seen is processed, or left to do, or has failed in this scan.

From it follow `BridgeInvHolds`, `StopsGoFirstHolds` and `NothingSkipped`. Two of its consequences
need the failed saves counted: `PostedFromPendingHolds` rests on `SavesInv` (short of two failed
saves, an answer pending in memory is pending on disk, and one pending on disk alone is of a message
that is done or stopped), `NoticesHold` on `FailInv` (a message that was answered reaches its failure
notice only through failed saves or a crash).

**TasksProofs** (assumption `TaskConstants`). With some forty actions on seventeen variables, a case for
each action and conjunct would be unreadable. A first group of lemmas shows that every step is of
one of a few `Kinds` by what it does to `task`, `outbox` and `worker` (it leaves the run, claims,
sends, replaces the generation, requeues, quarantines, ...), and the invariants are shown for the
kinds. `StateIsKept` proves `StateInv`, of which none is inductive alone:

- `WorkInv`: the row is well formed and what can be claimed has attempts left; a summary is last;
  the worker is at an item or run that exists and of no future generation.
- `GenerationInv`: replaced generations are barred, because a revision's handler has the barrier
  before it changes the row; what is on its way is of no future generation.
- `ItemInv`: for each item, what outbox, requests, the Chat API's ledger and the group may say
  together; an item in flight is the worker's.

From it follow `TasksHold` and `OldGenerationsHeld`. `CutOverHolds` adds `ChatInv` (after the
cut-over the task is terminal, its items settled, the worker idle). `RunsTakeTurns` adds that a
worker at a run of the present generation is at its last attempt (`HoldsRun`), and that no run
follows one that is open, that is active or has used tools (`InTurn`); a requeued attempt keeps its
key, which is why it may follow itself.

**ChatTurnProofs** (assumption `TurnConstants`). `FullInvHolds` proves `FullInv`, built up in layers
of which each uses the ones before:

- `Types`: TypeOK, but for the bound on the turns the listener counts.
- `Core`: a message that has not come in has no answer, slot, call or followup (`Untouched`); any
  message that is not urgent comes in when everything before it is dealt with, and a stop is dealt with
  when it is answered (`InOrder`). Hence a message after a stop that is not yet confirmed is
  untouched, so that the pause begins with all later unaddressed messages without turn, answer and
  followup, and it stays so because no slot is given in a pause (`Quiet`). A turn has its slot
  before its call (`Asked`), and slots are for ever.
- `Second`: a followup's status only moves forward, the worker's item is past "prepared"
  (`InFlight`), and an item with a row is the worker's only once it is posted (`SaidOnce`).
- `Spoken`: a line of the timeline and the listener's last reply are of an answer that was given or a
  followup that was confirmed, and these are kept for ever; the worker confirms only the item in flight
  (`InHand`). Every passive message that came in has been observed (`ObservedAll`), so that a turn is
  counted only for one that comes in now: a restart counts none again.

From it follow `PassiveIsAskedOnce`, `FollowupsAreSecond`, `PauseIsQuiet` and `TurnInvHolds`.

**ReadPathProofs** (assumption `ReadConstants`). The invariant has two halves. `FilesInv` says what
the log looks like between any two writes of WeChat: the salt tells this round's frames (`Salts`), the
frames after the last commit are of one commit that has begun (`Begun`), and the last commit wrote
every page, or the database has them (`Ended`; the arithmetic of pages in the log is four lemmas).
`Holds` says of each point of a refresh what the reader has copied: the files as they are, unless
something touched them since it began (`raced`), which is what the check before the replacement is
for. `HubInv` says what the queue of a stream holds (`QueueIs`: consecutive ids up to the last that
was published, or the word that it is closed) and that the ids between what was sent and what the
queue begins with are in the backlog still to be read (`NoGap`), because the stream subscribes before
it reads the backlog. From them follow `ReadsHold`, `NothingMissedHolds` and `EventsCountUpHolds`.

**SearchProofs** (assumptions `SearchConstants`, `ExtractionConstants`). `SearchHoldsAlways` proves
`SearchHolds`: an entry on disk, and one a thread holds, has the limits it was stored with; one in
memory has at most those, or a fresh limit that is past; and a thread about to copy an entry counts
from a time at which that entry was not over, within a search that began within its limit
(`ThreadHolds`). From it follow `CacheInvHolds` and `ServedHolds`.
`ExtractionHolds` is about no state: the report of every page for every course of its attempts; its
one argument beyond unfolding is that a set of attempts has a first. `ResultsHold` is the third part
of `SearchInv`, about the rows (assumption `RowsAreCounted`: how many words a title and a text hold
are natural numbers). All that selects, sorts or merges rows in `SearchResults` is defined through
`Arranged`, which gives each member of a set the place that the number of members before it says;
`ArrangedHolds` shows by counting that this is one-to-one, so no induction over sequences is needed.
Then `Distinct` makes a list without repetition of rows whose pages differ, and every later step
(`Sorted`, `Spread`, `Balanced`, `Promoted`, `First`, `SafeRanked`) makes such a list of such a list
(`Lists`), for any set it takes its rows from: for fresh news that set is the one `Spread` leaves,
whose sites differ. `RankingKeeps` is the converse, which no run states: what ranking leaves out is
excluded, irrelevant to a strict query, or of a site of which another row is kept. TLC agreed on
lists of up to 4 of the 9 rows of `search` and 64 queries. `SearchInvHolds` puts the three parts
together.

What stays with TLC is liveness (`StopsAreAnswered`, `SendLockIsReleased`,
`EveryMessageIsHandled`), which is beyond this prover. Every other property of a passing run but
`ConfirmedByOwnRow`, which is no promise of the code's, is the statement of a theorem. That the mobile rows a thread collects step by step (`News`) are among
`MobileRows` is an equation between sequences; the `search` run shows it, where all 4.8 million
states are reached with the rows it has. The runs of sections 6 to 9 state safety only and assume no fairness.

## 11. Findings

- **A human's identical text confirms a request** (`sender_manual_copy`). Any outgoing row with
  the same text after the baseline, dated no more than 15 s before the attempt, counts as the
  request's own. The test named `test_manual_identical_text_does_not_confirm_bot_request` tries
  a copy one minute old. In the trace the keypress is lost, the human's copy arrives and the
  request is recorded as sent.
- **A bare stop that is ignored or fails stops the bridge** (`bridge_bare_stop`). The Adapter
  answers a stop nobody needed with "ignored", which sets no watermark; `require_stop_effect`
  takes that for a failure, the scan fails, and `run_once` returns before the page, each time.
  The same holds for a stop whose barrier failed once, since that answer is cached. Only a later
  stop that succeeds lifts the watermark past it.

## 12. Not modelled

- Companion summaries, relationship state and nudges: `LEGACY_RELATIONSHIP_RUNTIME_ENABLED` is
  False (main.py:99), so that this release only retires their jobs.
- Media beyond one step per request (Tasks): files, MIME types, clipboards, fingerprints.
- The eviction of ledger entries beyond 500, several rooms, several streams, several tasks.
- Prompts, persona, policy and text checks: pure functions over language. Their decisions are
  choices of ChatTurn and Tasks.
- HTTP authentication, rate limits and TLS do not touch the state modelled here; the process lock is
  the operating system's.
- Cleanup, the MCP server and the deployment scripts: they share no protocol with the rest.
