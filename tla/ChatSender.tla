----------------------------- MODULE ChatSender -----------------------------
(***************************************************************************)
(* The text path of the Chat API's outbound sender (chat-api/chat_api.py): *)
(* HTTP handler threads that call TextSender.send or delivery_status, stop *)
(* commands that commit a barrier, the WeChat client that turns a Return   *)
(* keypress into a database row (or loses it), a human typing from the     *)
(* same account, the readiness monitor, and crashes of the process.        *)
(*                                                                         *)
(* One room: every route refuses a room other than the configured group.   *)
(* The ledger is one value in memory and one on disk; how two files make   *)
(* the one on disk is the subject of SendStateFiles.                       *)
(***************************************************************************)
EXTENDS Integers, Sequences, FiniteSets

CONSTANTS
    Threads,     \* handler threads of the ThreadingHTTPServer
    Requests,    \* request ids
    Texts,       \* message texts
    Items,       \* [source, task, generation, text]: envelope and text
    Calls,       \* [req, item]: what callers may ask to send
    Barriers,    \* POSTs of a barrier, one for each time a stop is tried
    BarrierOf,   \* Barriers -> [source, task, generation, mode]
    HumanCopies, \* [text, late]: what a human may send from the account
    NoTask, NoItem, NoCall, NoAnswer, Nobody, Human,
    MaxRows,     \* bound on the rows of the WeChat database
    MaxCrashes   \* bound on the crashes of the Chat API

Answers == {"sent", "uncertain", "suppressed", "conflict", "error",
            "unavailable", "not_submitted", "confirmed"}

Statuses == {"none", "sending", "sent", "suppressed", "uncertain"}

\* Program counters at which a thread holds TextSender._lock.
Composing  == {"check1", "compose", "enter", "fenced", "press"}
Confirming == {"confirm", "failscan", "recheck"}

NoEntry == [status |-> "none", item |-> NoItem, baseline |-> 0, row |-> 0]

ASSUME ChatSenderConstants ==
    /\ \A i \in Items : i.text \in Texts
    /\ Calls \subseteq [req : Requests, item : Items]
    /\ HumanCopies \subseteq [text : Texts, late : BOOLEAN]
    /\ NoCall \notin Calls
    /\ Nobody \notin Threads \cup Barriers
    /\ Threads \cap Barriers = {}
    /\ Human \notin Requests
    /\ MaxRows \in Nat /\ MaxCrashes \in Nat

\* The envelope and the barrier store refuse any other source_local_id.
ASSUME SourcesArePositive ==
    /\ \A i \in Items : i.source \in Nat \ {0}
    /\ \A b \in Barriers : BarrierOf[b].source \in Nat \ {0}

VARIABLES
    pc, call, answer,  \* per thread: where it is, what it does, its response
    lock,              \* TextSender._lock
    roomLock,          \* the room's lock
    mem, disk,         \* the delivery ledger: in memory, and as a load finds it
    stateOk,           \* the last save of the ledger succeeded
    ready,             \* ChatApiApplication.ready
    young,             \* requests whose attempt began less than 30 s ago
    barrier,           \* per POST of a barrier: where it is, or how it ended
    rows,              \* the WeChat message database
    inflight,          \* submitted to WeChat, not yet a row
    presses,           \* history: Return keypresses that reached WeChat
    crashes

threadVars == <<pc, call, answer>>
ledgerVars == <<mem, disk, stateOk, young>>
outerVars  == <<rows, inflight, presses>>
vars == <<pc, call, answer, lock, roomLock, mem, disk, stateOk, ready, young,
          barrier, rows, inflight, presses, crashes>>

Init ==
    /\ pc = [c \in Threads |-> "idle"]
    /\ call = [c \in Threads |-> NoCall]
    /\ answer = [c \in Threads |-> NoAnswer]
    /\ lock = Nobody /\ roomLock = Nobody
    /\ mem = [r \in Requests |-> NoEntry] /\ disk = mem
    /\ stateOk = TRUE /\ ready = FALSE /\ young = {}
    /\ barrier = [b \in Barriers |-> "idle"]
    /\ rows = <<>> /\ inflight = {}
    /\ presses = [r \in Requests |-> 0]
    /\ crashes = 0

-----------------------------------------------------------------------------
(* Helpers *)

Req(c)   == call[c].req
Entry(c) == mem[Req(c)]

\* Faulty variant: a command stops the answer to itself as well.
BlocksOwnAnswer(b, item) ==
    /\ b.mode = "all"
    /\ \/ /\ item.task # NoTask
          /\ b.task = item.task /\ b.generation = item.generation
       \/ b.task = NoTask /\ b.source >= item.source

\* OutboundControlStore.blocking_barrier for a text: a barrier on the item's
\* task and generation, or a room barrier committed by a later message.
Blocks(b, item) ==
    /\ b.mode = "all"
    /\ \/ /\ item.task # NoTask
          /\ b.task = item.task /\ b.generation = item.generation
       \/ b.task = NoTask /\ b.source > item.source

Blocked(item) ==
    \E b \in Barriers : barrier[b] = "committed" /\ Blocks(BarrierOf[b], item)

\* Faulty variant: a scan without _candidate_is_recent.
MatchesOldRows(e) == {i \in (e.baseline + 1)..Len(rows) :
                         rows[i].text = e.item.text}

\* Rows that a confirmation scan of entry e accepts: outgoing, same text,
\* after the baseline, not older than the attempt.
Matches(e) == {i \in (e.baseline + 1)..Len(rows) :
                  rows[i].text = e.item.text /\ ~rows[i].late}

FirstMatch(e) == CHOOSE i \in Matches(e) : \A j \in Matches(e) : i <= j

\* _save_state writes all of the ledger, backup file first. If it raises, the
\* next load finds either the old ledger or the new one, and memory keeps the
\* new one.
\* Faulty variant: the file is written before the entry is put in the ledger.
SaveTooEarly == disk' = mem /\ stateOk' = TRUE
SaveSucceeds == disk' = mem' /\ stateOk' = TRUE
SaveFails    == disk' \in {disk, mem'} /\ stateOk' = FALSE

\* Leave send or delivery_status, releasing _lock, with a response.
Reply(c, verdict) ==
    /\ pc' = [pc EXCEPT ![c] = "reply"]
    /\ answer' = [answer EXCEPT ![c] = verdict]
    /\ lock' = Nobody

\* Record the outcome of a request and save; a failed save is a 5xx.
Settle(c, entry, verdict) ==
    /\ mem' = [mem EXCEPT ![Req(c)] = entry]
    /\ \/ SaveSucceeds /\ Reply(c, verdict)
       \/ SaveFails /\ Reply(c, "error")

\* Faulty variant: a reused id is not compared with what it stood for.
ConflictsOnlyWhenYoung(c) ==
    Entry(c).status = "sending" /\ Req(c) \in young

SendConflicts(c) ==
    /\ Entry(c).status # "none"
    /\ \/ Entry(c).item # call[c].item
       \/ Entry(c).status = "sending" /\ Req(c) \in young

Envelope(item) == <<item.source, item.task, item.generation>>

StatusConflicts(c) ==
    /\ Entry(c).status # "none"
    /\ Envelope(Entry(c).item) # Envelope(call[c].item)

-----------------------------------------------------------------------------
(* HTTP: a request arrives, a response leaves *)

\* POST /groups/<id>/messages on a ready service.
CallSend(c) ==
    /\ pc[c] = "idle" /\ ready
    /\ \E k \in Calls : call' = [call EXCEPT ![c] = k]
    /\ pc' = [pc EXCEPT ![c] = "send"]
    /\ UNCHANGED <<answer, lock, roomLock, ledgerVars, ready, barrier,
                   outerVars, crashes>>

\* The same on a service whose self-check failed: 503, nothing else.
CallRefused(c) ==
    /\ pc[c] = "idle" /\ ~ready
    /\ \E k \in Calls : call' = [call EXCEPT ![c] = k]
    /\ pc' = [pc EXCEPT ![c] = "reply"]
    /\ answer' = [answer EXCEPT ![c] = "unavailable"]
    /\ UNCHANGED <<lock, roomLock, ledgerVars, ready, barrier, outerVars,
                   crashes>>

\* GET /delivery/status, which does not ask whether the service is ready.
CallStatus(c) ==
    /\ pc[c] = "idle"
    /\ \E k \in Calls : call' = [call EXCEPT ![c] = k]
    /\ pc' = [pc EXCEPT ![c] = "status"]
    /\ UNCHANGED <<answer, lock, roomLock, ledgerVars, ready, barrier,
                   outerVars, crashes>>

Respond(c) ==
    /\ pc[c] = "reply"
    /\ pc' = [pc EXCEPT ![c] = "idle"]
    /\ call' = [call EXCEPT ![c] = NoCall]
    /\ answer' = [answer EXCEPT ![c] = NoAnswer]
    /\ UNCHANGED <<lock, roomLock, ledgerVars, ready, barrier, outerVars,
                   crashes>>

-----------------------------------------------------------------------------
(* TextSender.send: what the saved entry says, under _lock *)

\* 422 for a reused id or a young attempt; a sent request is not sent again.
SendKnown(c) ==
    /\ pc[c] = "send" /\ lock = Nobody
    /\ \/ SendConflicts(c) /\ Reply(c, "conflict")
       \/ ~SendConflicts(c) /\ Entry(c).status = "sent" /\ Reply(c, "sent")
    /\ UNCHANGED <<call, roomLock, ledgerVars, ready, barrier, outerVars,
                   crashes>>

\* Faulty variant: an uncertain request is sent once more.
ResendUncertain(c) ==
    /\ pc[c] = "send" /\ lock = Nobody
    /\ ~SendConflicts(c) /\ Entry(c).status \in {"sending", "uncertain"}
    /\ lock' = c
    /\ pc' = [pc EXCEPT ![c] = "check1"]
    /\ UNCHANGED <<call, answer, roomLock, ledgerVars, ready, barrier,
                   outerVars, crashes>>

\* An attempt whose outcome is unknown is looked up, never repeated.
SendAgain(c) ==
    /\ pc[c] = "send" /\ lock = Nobody
    /\ ~SendConflicts(c) /\ Entry(c).status \in {"sending", "uncertain"}
    /\ lock' = c
    /\ pc' = [pc EXCEPT ![c] = "recheck"]
    /\ UNCHANGED <<call, answer, roomLock, ledgerVars, ready, barrier,
                   outerVars, crashes>>

\* Faulty variant: the attempt is saved only once its outcome is known.
BeginUnsaved(c) ==
    /\ pc[c] = "send" /\ lock = Nobody
    /\ ~SendConflicts(c) /\ Entry(c).status \in {"none", "suppressed"}
    /\ mem' = [mem EXCEPT ![Req(c)] =
                 [status |-> "sending", item |-> call[c].item,
                  baseline |-> Len(rows), row |-> 0]]
    /\ lock' = c
    /\ pc' = [pc EXCEPT ![c] = "check1"]
    /\ UNCHANGED <<call, answer, roomLock, disk, stateOk, young, ready,
                   barrier, outerVars, crashes>>

\* A new attempt, or one more after a suppression: the entry is saved as
\* sending, with the newest local_id as its baseline, before the UI is used.
SendBegins(c) ==
    /\ pc[c] = "send" /\ lock = Nobody
    /\ ~SendConflicts(c) /\ Entry(c).status \in {"none", "suppressed"}
    /\ mem' = [mem EXCEPT ![Req(c)] =
                 [status |-> "sending", item |-> call[c].item,
                  baseline |-> Len(rows), row |-> 0]]
    /\ young' = young \cup {Req(c)}
    /\ \/ /\ SaveSucceeds
          /\ lock' = c
          /\ pc' = [pc EXCEPT ![c] = "check1"]
          /\ UNCHANGED answer
       \/ SaveFails /\ Reply(c, "error")
    /\ UNCHANGED <<call, roomLock, ready, barrier, outerVars, crashes>>

\* latest_local_id raises before anything is recorded.
BaselineUnreadable(c) ==
    /\ pc[c] = "send" /\ lock = Nobody
    /\ ~SendConflicts(c) /\ Entry(c).status \in {"none", "suppressed"}
    /\ Reply(c, "error")
    /\ UNCHANGED <<call, roomLock, ledgerVars, ready, barrier, outerVars,
                   crashes>>

-----------------------------------------------------------------------------
(* TextSender._send_once: three looks at the barriers around the UI work *)

\* The first two checks, before focusing the window and before pasting.
PassCheck(c) ==
    /\ pc[c] \in {"check1", "compose"} /\ ~Blocked(Entry(c).item)
    /\ pc' = [pc EXCEPT ![c] = IF pc[c] = "check1" THEN "compose" ELSE "enter"]
    /\ UNCHANGED <<call, answer, lock, roomLock, ledgerVars, ready, barrier,
                   outerVars, crashes>>

TakeRoom(c) ==
    /\ pc[c] = "enter" /\ roomLock = Nobody
    /\ roomLock' = c
    /\ pc' = [pc EXCEPT ![c] = "fenced"]
    /\ UNCHANGED <<call, answer, lock, ledgerVars, ready, barrier, outerVars,
                   crashes>>

\* The last check, under the room's lock.
PassLastCheck(c) ==
    /\ pc[c] = "fenced" /\ ~Blocked(Entry(c).item)
    /\ pc' = [pc EXCEPT ![c] = "press"]
    /\ UNCHANGED <<call, answer, lock, roomLock, ledgerVars, ready, barrier,
                   outerVars, crashes>>

\* xdotool key Return: it may reach WeChat or not, and return or raise (a
\* timeout, an exit status). Returning releases the room's lock.
PressReturn(c) ==
    /\ pc[c] = "press"
    /\ \/ /\ presses' = [presses EXCEPT ![Req(c)] = @ + 1]
          /\ inflight' = inflight \cup
                           {[req |-> Req(c), text |-> Entry(c).item.text]}
       \/ UNCHANGED <<presses, inflight>>
    /\ \E next \in {"confirm", "failscan"} : pc' = [pc EXCEPT ![c] = next]
    /\ roomLock' = Nobody
    /\ UNCHANGED <<call, answer, lock, ledgerVars, ready, barrier, rows,
                   crashes>>

\* One of the three checks finds a barrier: 423. A pasted text is cleared.
Suppress(c) ==
    /\ pc[c] \in {"check1", "compose", "fenced"} /\ Blocked(Entry(c).item)
    /\ Settle(c, [Entry(c) EXCEPT !.status = "suppressed"], "suppressed")
    /\ roomLock' = IF roomLock = c THEN Nobody ELSE roomLock
    /\ UNCHANGED <<call, young, ready, barrier, outerVars, crashes>>

\* Anything else the UI work or a check raises (clearing the composer too).
UIFails(c) ==
    /\ pc[c] \in {"check1", "compose", "enter", "fenced"}
    /\ pc' = [pc EXCEPT ![c] = "failscan"]
    /\ roomLock' = IF roomLock = c THEN Nobody ELSE roomLock
    /\ UNCHANGED <<call, answer, lock, ledgerVars, ready, barrier, outerVars,
                   crashes>>

-----------------------------------------------------------------------------
(* Confirmation from the WeChat database, still under _lock *)

\* _mark_sent with the first matching row.
ConfirmFound(c) ==
    /\ pc[c] \in Confirming /\ Matches(Entry(c)) # {}
    /\ Settle(c, [Entry(c) EXCEPT !.status = "sent",
                                  !.row = FirstMatch(Entry(c))], "sent")
    /\ UNCHANGED <<call, roomLock, young, ready, barrier, outerVars, crashes>>

\* _mark_uncertain: the deadline passes with no matching row: 409.
ConfirmTimeout(c) ==
    /\ pc[c] \in {"confirm", "failscan"} /\ Matches(Entry(c)) = {}
    /\ Settle(c, [Entry(c) EXCEPT !.status = "uncertain"], "uncertain")
    /\ UNCHANGED <<call, roomLock, young, ready, barrier, outerVars, crashes>>

\* A repeated request with no row yet: 409, the entry left as it was.
RefuseResend(c) ==
    /\ pc[c] = "recheck" /\ Matches(Entry(c)) = {}
    /\ Reply(c, "uncertain")
    /\ UNCHANGED <<call, roomLock, ledgerVars, ready, barrier, outerVars,
                   crashes>>

\* Faulty variant: the exception leaves without releasing _lock.
ScanRaisesLocked(c) ==
    /\ pc[c] \in Confirming
    /\ pc' = [pc EXCEPT ![c] = "reply"]
    /\ answer' = [answer EXCEPT ![c] = "error"]
    /\ UNCHANGED <<call, lock, roomLock, ledgerVars, ready, barrier, outerVars,
                   crashes>>

\* The snapshot cannot be read: the exception leaves the entry as it was.
ScanRaises(c) ==
    /\ pc[c] \in Confirming
    /\ Reply(c, "error")
    /\ UNCHANGED <<call, roomLock, ledgerVars, ready, barrier, outerVars,
                   crashes>>

-----------------------------------------------------------------------------
(* TextSender.delivery_status, all of it under _lock *)

\* Faulty variant: an uncertain text counts as not submitted.
StatusForgetsUncertain(c) ==
    /\ pc[c] = "status" /\ lock = Nobody /\ ~StatusConflicts(c)
    /\ \/ Entry(c).status \in {"none", "uncertain"} /\ Reply(c, "not_submitted")
       \/ Entry(c).status = "sent" /\ Reply(c, "confirmed")
       \/ Entry(c).status = "suppressed" /\ Reply(c, "suppressed")
    /\ UNCHANGED <<call, roomLock, ledgerVars, ready, barrier, outerVars,
                   crashes>>

StatusKnown(c) ==
    /\ pc[c] = "status" /\ lock = Nobody
    /\ \/ StatusConflicts(c) /\ Reply(c, "conflict")
       \/ /\ ~StatusConflicts(c)
          /\ \/ Entry(c).status = "none" /\ Reply(c, "not_submitted")
             \/ Entry(c).status = "sent" /\ Reply(c, "confirmed")
             \/ Entry(c).status = "suppressed" /\ Reply(c, "suppressed")
    /\ UNCHANGED <<call, roomLock, ledgerVars, ready, barrier, outerVars,
                   crashes>>

\* An attempt of unknown outcome is looked up; finding its row settles it.
StatusScans(c) ==
    /\ pc[c] = "status" /\ lock = Nobody
    /\ ~StatusConflicts(c) /\ Entry(c).status \in {"sending", "uncertain"}
    /\ \/ /\ Matches(Entry(c)) # {}
          /\ Settle(c, [Entry(c) EXCEPT !.status = "sent",
                                        !.row = FirstMatch(Entry(c))],
                    "confirmed")
          /\ UNCHANGED young
       \/ /\ Matches(Entry(c)) = {}
          /\ Reply(c, "uncertain")
          /\ UNCHANGED ledgerVars
       \/ Reply(c, "error") /\ UNCHANGED ledgerVars
    /\ UNCHANGED <<call, roomLock, ready, barrier, outerVars, crashes>>

-----------------------------------------------------------------------------
(* POST /control/barriers: commit_barrier takes the room's lock alone *)

RequestBarrier(b) ==
    /\ barrier[b] = "idle"
    /\ barrier' = [barrier EXCEPT ![b] = "waiting"]
    /\ UNCHANGED <<threadVars, lock, roomLock, ledgerVars, ready, outerVars,
                   crashes>>

\* Faulty variant: the barrier is inserted without the room's lock.
CommitWithoutRoomLock(b) ==
    /\ barrier[b] = "waiting"
    /\ barrier' = [barrier EXCEPT ![b] = "inserting"]
    /\ UNCHANGED <<threadVars, lock, roomLock, ledgerVars, ready, outerVars,
                   crashes>>

\* Faulty variant: a stop waits for the send in progress.
CommitUnderSendLock(b) ==
    /\ barrier[b] = "waiting" /\ roomLock = Nobody /\ lock = Nobody
    /\ roomLock' = b
    /\ barrier' = [barrier EXCEPT ![b] = "inserting"]
    /\ UNCHANGED <<threadVars, lock, ledgerVars, ready, outerVars, crashes>>

TakeRoomForBarrier(b) ==
    /\ barrier[b] = "waiting" /\ roomLock = Nobody
    /\ roomLock' = b
    /\ barrier' = [barrier EXCEPT ![b] = "inserting"]
    /\ UNCHANGED <<threadVars, lock, ledgerVars, ready, outerVars, crashes>>

\* The SQLite transaction commits, or raises and the caller gets a 5xx.
InsertBarrier(b) ==
    /\ barrier[b] = "inserting"
    /\ \E outcome \in {"committed", "failed"} :
          barrier' = [barrier EXCEPT ![b] = outcome]
    /\ roomLock' = Nobody
    /\ UNCHANGED <<threadVars, lock, ledgerVars, ready, outerVars, crashes>>

-----------------------------------------------------------------------------
(* WeChat, the human, the clock, the readiness monitor, crashes *)

RowAppears ==
    /\ Len(rows) < MaxRows
    /\ \E m \in inflight :
          /\ rows' = Append(rows, [text |-> m.text, by |-> m.req,
                                   late |-> FALSE])
          /\ inflight' = inflight \ {m}
    /\ UNCHANGED <<threadVars, lock, roomLock, ledgerVars, ready, barrier,
                   presses, crashes>>

\* WeChat never stores it: the client was logged out, the composer empty.
RowLost ==
    /\ \E m \in inflight : inflight' = inflight \ {m}
    /\ UNCHANGED <<threadVars, lock, roomLock, ledgerVars, ready, barrier,
                   rows, presses, crashes>>

\* A row typed by a human; a late one is synchronised after attempts that
\* began more than 15 s after it was typed.
HumanSends ==
    /\ Len(rows) < MaxRows
    /\ \E h \in HumanCopies :
          rows' = Append(rows, [text |-> h.text, by |-> Human,
                                late |-> h.late])
    /\ UNCHANGED <<threadVars, lock, roomLock, ledgerVars, ready, barrier,
                   inflight, presses, crashes>>

ThirtySecondsPass ==
    /\ \E r \in young : young' = young \ {r}
    /\ UNCHANGED <<threadVars, lock, roomLock, mem, disk, stateOk, ready,
                   barrier, outerVars, crashes>>

\* run_self_check: ready only if every component is, the send state included.
SelfCheck ==
    /\ ready' \in {FALSE, stateOk}
    /\ UNCHANGED <<threadVars, lock, roomLock, ledgerVars, barrier, outerVars,
                   crashes>>

\* The process dies and starts again; memory is reloaded from disk, a barrier
\* is there if its transaction committed. WeChat goes on.
Crash ==
    /\ crashes < MaxCrashes
    /\ crashes' = crashes + 1
    /\ pc' = [c \in Threads |-> "idle"]
    /\ call' = [c \in Threads |-> NoCall]
    /\ answer' = [c \in Threads |-> NoAnswer]
    /\ lock' = Nobody /\ roomLock' = Nobody
    /\ mem' = disk /\ stateOk' = TRUE /\ ready' = FALSE
    /\ barrier' = [b \in Barriers |->
                     IF barrier[b] \in {"waiting", "inserting"}
                       THEN "failed" ELSE barrier[b]]
    /\ UNCHANGED <<disk, young, outerVars>>

-----------------------------------------------------------------------------
Handle(c) ==
    \/ SendKnown(c) \/ SendAgain(c) \/ SendBegins(c) \/ BaselineUnreadable(c)
    \/ PassCheck(c) \/ TakeRoom(c) \/ PassLastCheck(c) \/ PressReturn(c)
    \/ Suppress(c) \/ UIFails(c)
    \/ ConfirmFound(c) \/ ConfirmTimeout(c) \/ RefuseResend(c) \/ ScanRaises(c)
    \/ StatusKnown(c) \/ StatusScans(c)

Commit(b) == TakeRoomForBarrier(b) \/ InsertBarrier(b)

Next ==
    \/ \E c \in Threads :
          CallSend(c) \/ CallRefused(c) \/ CallStatus(c) \/ Respond(c)
          \/ Handle(c)
    \/ \E b \in Barriers : RequestBarrier(b) \/ Commit(b)
    \/ RowAppears \/ RowLost \/ HumanSends
    \/ ThirtySecondsPass \/ SelfCheck \/ Crash

Spec == Init /\ [][Next]_vars
-----------------------------------------------------------------------------
(* Properties *)

Entries == [status : Statuses, item : Items \cup {NoItem},
            baseline : Nat, row : Nat]

ThreadTypes ==
    /\ pc \in [Threads -> {"idle", "send", "status", "reply"}
                           \cup Composing \cup Confirming]
    /\ call \in [Threads -> Calls \cup {NoCall}]
    /\ answer \in [Threads -> Answers \cup {NoAnswer}]
    /\ lock \in Threads \cup {Nobody}
    /\ roomLock \in Threads \cup Barriers \cup {Nobody}
    /\ barrier \in [Barriers -> {"idle", "waiting", "inserting",
                                 "committed", "failed"}]

LedgerTypes ==
    /\ mem \in [Requests -> Entries]
    /\ disk \in [Requests -> Entries]
    /\ stateOk \in BOOLEAN /\ ready \in BOOLEAN
    /\ young \subseteq Requests

OuterTypes ==
    /\ rows \in Seq([text : Texts, by : Requests \cup {Human},
                      late : BOOLEAN])
    /\ inflight \subseteq [req : Requests, text : Texts]
    /\ presses \in [Requests -> Nat]
    /\ crashes \in Nat

TypeOK == ThreadTypes /\ LedgerTypes /\ OuterTypes

\* A request reaches WeChat at most once, whatever is retried, crashes or
\* fails to be saved (send refuses to resend an attempt of unknown outcome).
AtMostOnePress == \A r \in Requests : presses[r] <= 1

\* What reached WeChat is on disk as an attempt, so that no crash, and no
\* save that failed half way, lets a restarted process send it again.
PressIsOnDisk ==
    \A r \in Requests :
        presses[r] > 0 => disk[r].status \in {"sending", "sent", "uncertain"}

\* Once a stop command's barrier is committed, no Return is pressed for an
\* item it covers, however far the send had gone (docs/architecture.md:82).
PressRespectsBarrier ==
    [][\A r \in Requests :
          presses'[r] # presses[r] => ~Blocked(mem[r].item)]_vars

\* A caller told "suppressed" or "not_submitted" can rely on it: the text has
\* not reached WeChat. Callers decide on it whether to send a replacement.
NegativeAnswersAreTrue ==
    [][\A c \in Threads :
          pc[c] # "reply" /\ pc'[c] = "reply"
            /\ answer'[c] \in {"suppressed", "not_submitted"}
          => presses[Req(c)] = 0]_vars

\* "sent" in answer to a call means this call's text is in the group, not the
\* text an earlier call used the same request id for.
SentAnswerIsThisText ==
    \A c \in Threads :
        pc[c] = "reply" /\ answer[c] = "sent" =>
            /\ Entry(c).row \in 1..Len(rows)
            /\ rows[Entry(c).row].text = call[c].item.text

\* A request counts as sent only on the evidence of its own row: not of a
\* row another request or a human produced.
ConfirmedByOwnRow ==
    \A r \in Requests :
        mem[r].status = "sent" =>
            /\ mem[r].row \in 1..Len(rows)
            /\ rows[mem[r].row].by = r

\* A barrier stops only what came before its command or carries its task
\* generation: the answer to the command itself, and what follows it, is not
\* suppressed (docs/architecture.md:82).
SuppressedOnlyByLaterStop ==
    \A r \in Requests :
        mem[r].status = "suppressed" =>
            \E b \in Barriers :
                LET s == BarrierOf[b]  i == mem[r].item IN
                /\ barrier[b] = "committed" /\ s.mode = "all"
                /\ \/ s.task = NoTask /\ s.source >= i.source + 1
                   \/ s.task # NoTask
                      /\ <<s.task, s.generation>> = <<i.task, i.generation>>

\* With no failed save since the process started, a crash changes nothing in
\* the ledger: what memory answers from is what a restart would answer from.
MemoryIsDurable == stateOk => mem = disk

\* The inductive invariant behind AtMostOnePress, PressIsOnDisk,
\* NegativeAnswersAreTrue and PressRespectsBarrier.
Holding == Composing \cup Confirming

LocksAreOwned ==
    /\ \A c \in Threads : pc[c] \in Holding <=> lock = c
    /\ \A c \in Threads : pc[c] \in {"fenced", "press"} <=> roomLock = c
    /\ \A b \in Barriers : barrier[b] = "inserting" <=> roomLock = b

BusyThreadsHaveCalls == \A c \in Threads : pc[c] # "idle" => call[c] \in Calls

ComposingIsUnpressed ==
    \A c \in Threads : pc[c] \in Composing =>
        /\ mem[Req(c)].status = "sending" /\ disk[Req(c)].status = "sending"
        /\ mem[Req(c)].item = call[c].item
        /\ presses[Req(c)] = 0

PressedIsTried ==
    \A r \in Requests : presses[r] # 0 =>
        /\ presses[r] = 1
        /\ mem[r].status \in {"sending", "sent", "uncertain"}
        /\ disk[r].status \in {"sending", "sent", "uncertain"}

PressIsUnblocked ==
    \A c \in Threads : pc[c] = "press" => ~Blocked(Entry(c).item)

SenderInv ==
    /\ TypeOK
    /\ LocksAreOwned
    /\ BusyThreadsHaveCalls
    /\ ComposingIsUnpressed
    /\ PressedIsTried
    /\ PressIsUnblocked

-----------------------------------------------------------------------------
(* Liveness *)

\* The press is bounded by enter_submit_timeout (under a second) and the
\* insert by SQLite; nothing is assumed of the rest of a send, which may
\* wait for the window or the database for as long as it likes.
BarrierFairness ==
    /\ \A c \in Threads :
          WF_vars(PassLastCheck(c) \/ PressReturn(c)
                  \/ (pc[c] = "fenced" /\ Suppress(c)))
    /\ \A b \in Barriers : WF_vars(Commit(b))

BarrierSpec == Spec /\ BarrierFairness

\* A stop command is answered without waiting for a send in progress.
StopsAreAnswered ==
    \A b \in Barriers : barrier[b] = "waiting" ~> barrier[b] # "waiting"

\* Every step of a handler ends: UI commands and scans have timeouts.
HandlersStep == \A c \in Threads : WF_vars(Handle(c))

\* No failure of the UI, of a scan or of a save leaves the send lock held,
\* which would block every later send and every status question.
SendLockIsReleased ==
    HandlersStep => \A c \in Threads : lock = c ~> lock # c
=============================================================================
