------------------------------- MODULE Bridge -------------------------------
(***************************************************************************)
(* The loop of chat-api/db_bridge.py: it reads the group's messages in the *)
(* order of their local ids, asks the Adapter about each, posts the answer *)
(* to the Chat API, and keeps its place in a state file. Stop commands are *)
(* looked for ahead of the message being handled, before its answer may    *)
(* leave. Around it: people who write messages, an Adapter that answers a  *)
(* message once and repeats that answer, a Chat API that submits a request *)
(* at most once and nothing older than a committed stop (ChatSender), lost *)
(* responses, saves that fail and crashes.                                 *)
(*                                                                         *)
(* A message is its local id, counted from the baseline of                 *)
(* initialize_cursor; a page holds every message there is (no more than    *)
(* 200), and an answer is one chunk of text.                               *)
(***************************************************************************)
EXTENDS Integers, Sequences, FiniteSets

CONSTANTS
    Kinds,        \* what people write, of AllKinds
    AnswersTo,    \* Kinds -> what the Adapter may answer
    RetryLimits,  \* what MAX_RETRIES may be configured to
    MaxMessages,  \* bound on the messages
    MaxSaveFailures, MaxCrashes

\* "stop" is cancel_all; "media" the other urgent commands; "status" the
\* commands that take their turn; "noise" what should_handle refuses.
AllKinds == {"plain", "stop", "media", "status", "noise"}
AllAnswers == {"reply", "ignored", "canceled", "failed"}

ASSUME BridgeConstants ==
    /\ Kinds \subseteq AllKinds
    /\ AnswersTo \in [AllKinds -> SUBSET AllAnswers]
    /\ RetryLimits \subseteq 1..3 /\ RetryLimits # {}
    /\ MaxMessages \in Nat /\ MaxSaveFailures \in Nat /\ MaxCrashes \in Nat

Ids == 1..MaxMessages

VARIABLES
    maxRetries, \* MAX_RETRIES, as configured
    log,        \* the group: kinds of the messages, in order of local id
    maybe,      \* messages whose native metadata WeChat may still write
    st, disk,   \* the bridge's state, in memory and on disk
    preproc,    \* PREPROCESSED_CONTROL_IDS
    pc, cur,    \* where the loop is, and the message it handles
    pageEnd,    \* last id of the page that run_once iterates over
    scan,       \* process_priority_controls in progress, or the last one
    worker,     \* the thread that asks the Adapter
    answer,     \* Adapter: its answer to each message
    fence,      \* Chat API: the latest committed room stop
    submitted,  \* Chat API: requests that reached the group
    concluded,  \* history: requests the bridge has a final response to
    saveFailures, crashes

bridgeVars == <<st, disk, preproc, pc, cur, pageEnd, scan, worker,
                saveFailures>>
chatVars == <<submitted, concluded>>
quietVars == <<maxRetries, log, maybe, fence, crashes>>  \* all but the Adapter
outerVars == <<quietVars, answer>>
vars == <<bridgeVars, chatVars, outerVars>>

NoRetry == [id |-> 0, attempts |-> 0, notice |-> FALSE]
NoScan  == [todo |-> {}, failed |-> {}, end |-> 0, active |-> 0,
            progress |-> FALSE, then |-> "handle"]
Fresh   == [cursor |-> 0, retry |-> NoRetry, pending |-> 0, wait |-> 0,
            stopBefore |-> 0, scanCursor |-> 0, processed |-> {}]

Init ==
    /\ maxRetries \in RetryLimits
    /\ log = <<>> /\ maybe = {}
    /\ st = Fresh /\ disk = Fresh /\ preproc = {}
    /\ pc = "top" /\ cur = 0 /\ pageEnd = 0 /\ scan = NoScan
    /\ worker = "none"
    /\ answer = [m \in Ids |-> "none"] /\ fence = 0
    /\ submitted = {} /\ concluded = {}
    /\ saveFailures = 0 /\ crashes = 0

-----------------------------------------------------------------------------
(* Helpers *)

Greatest(S) == CHOOSE x \in S : \A y \in S : y <= x
Least(S)    == CHOOSE x \in S : \A y \in S : x <= y

IsControl(m) == log[m] \in {"stop", "media", "status"}
IsUrgent(m)  == log[m] \in {"stop", "media"}

\* message_invalidated_by_stop
Invalidated(m) == m < st.stopBefore /\ ~IsControl(m)

\* discard_invalidated_delivery_state, without its save
Discard(s) ==
    [s EXCEPT !.pending = IF @ < s.stopBefore THEN 0 ELSE @,
              !.retry   = IF @.id < s.stopBefore THEN NoRetry ELSE @]

\* The message is done with: the cursor passes it.
Advance(s, m) == [s EXCEPT !.cursor = m, !.retry = NoRetry,
                           !.processed = @ \cup {m}]

\* Faulty variant: the pending answer of a finished message is kept.
ClearNothing(s, m) == s

\* clear_pending_result
ClearPending(s, m) == [s EXCEPT !.pending = IF @ = m THEN 0 ELSE @]

\* atomic_save_state of s, then on to `good`, or an exception that leads to
\* `bad`. Memory has s either way, and a failed save may be on disk.
Save(s, good, bad) ==
    /\ st' = s
    /\ \/ disk' = s /\ pc' = good /\ UNCHANGED saveFailures
       \/ /\ saveFailures < MaxSaveFailures
          /\ saveFailures' = saveFailures + 1
          /\ disk' \in {disk, s} /\ pc' = bad

Keep(next) == pc' = next /\ UNCHANGED <<disk, saveFailures>>

\* POST of a text: a request is submitted once, and not if a stop later than
\* its message is committed. Concludes: 200, 409, 422 or 423 came back.
Submitting(key, m) ==
    submitted' \in IF fence > m THEN {submitted}
                                ELSE {submitted, submitted \cup {key}}

SendConcludes(key, m) ==
    Submitting(key, m) /\ concluded' = concluded \cup {key}
\* A timeout, a 5xx, a lost response.
SendRaises(key, m) == Submitting(key, m) /\ UNCHANGED concluded

\* POST of a message to the Adapter: an answered message gets its answer
\* again, one still being worked on is refused (409: the caller raises, as
\* it does for anything that fails before the POST).
Ask(m) ==
    /\ answer[m] # "working"
    /\ answer' = [answer EXCEPT ![m] = IF @ = "none" THEN "working" ELSE @]
Answered(m) == answer[m] \in AllAnswers

\* Faulty variant: any answer to a stop counts as the stop being in force.
EffectUnchecked(s, m) ==
    IF log[m] = "stop" /\ m > s.stopBefore
      THEN Discard([s EXCEPT !.stopBefore = m]) ELSE s

\* apply_control_effect: a stop in force discards what is older.
Effect(s, m) ==
    IF log[m] = "stop" /\ answer[m] = "canceled" /\ m > s.stopBefore
      THEN Discard([s EXCEPT !.stopBefore = m]) ELSE s

\* Faulty variant: a stop that did not take effect is answered all the same.
EffectNotRequired(m) == TRUE

\* require_stop_effect
EffectHolds(m) == log[m] = "stop" => Effect(st, m).stopBefore >= m

-----------------------------------------------------------------------------
(* run_once *)

\* Leftovers that a stop invalidated are dropped first.
DiscardStale ==
    /\ pc = "top" /\ Discard(st) # st
    /\ Save(Discard(st), "top", "top")
    /\ UNCHANGED <<preproc, cur, pageEnd, scan, worker, chatVars, outerVars>>

\* Something is left from an earlier pass: urgent commands come before it.
\* (The delay before a retry only returns to this point later.)
ResumePass ==
    /\ pc = "top" /\ Discard(st) = st
    /\ st.retry.id # 0 \/ st.pending # 0
    /\ scan' = [NoScan EXCEPT !.then = "fetch",
                  !.active = IF st.retry.id # 0 THEN st.retry.id
                                                ELSE st.pending]
    /\ Keep("scanStart")
    /\ UNCHANGED <<st, preproc, cur, pageEnd, worker, chatVars, outerVars>>

\* Otherwise they come before what the page holds.
FreshPass ==
    /\ pc = "top" /\ st.retry.id = 0 /\ st.pending = 0
    /\ Len(log) > st.cursor
    /\ pageEnd' = Len(log)
    /\ scan' = [NoScan EXCEPT !.active = st.cursor]
    /\ Keep("scanStart")
    /\ UNCHANGED <<st, preproc, cur, worker, chatVars, outerVars>>

\* Nothing new.
PollsNothing ==
    /\ pc = "top" /\ st.retry.id = 0 /\ st.pending = 0
    /\ Len(log) <= st.cursor
    /\ UNCHANGED vars

FetchPage ==
    /\ pc = "fetch"
    /\ st' = Discard(st)
    /\ IF Discard(st) = st
         THEN pageEnd' = Len(log) /\ Keep("handle")
         ELSE Save(Discard(st), "fetch", "top") /\ UNCHANGED pageEnd
    /\ UNCHANGED <<preproc, cur, scan, worker, chatVars, outerVars>>

-----------------------------------------------------------------------------
(* process_priority_controls *)

\* Where an exception that leaves the scan ends up.
ScanAborts == IF scan.then \in {"fetch", "handle"} THEN "top" ELSE "fail"

\* The urgent commands after the active message, the cursor and the place the
\* last scan got to, except those already dealt with.
ReadControls ==
    /\ pc = "scanStart"
    /\ LET after  == Greatest({scan.active, st.cursor, st.scanCursor})
           urgent == {i \in DOMAIN log : i > after /\ IsUrgent(i)} \ preproc
       IN /\ scan' = [scan EXCEPT !.todo = urgent \ st.processed,
                                  !.failed = {},
                                  !.end = Greatest({after, Len(log)}),
                                  !.progress = Len(log) > after]
          /\ preproc' = preproc \cup (urgent \cap st.processed)
    /\ Keep("scan")
    /\ UNCHANGED <<st, cur, pageEnd, worker, chatVars, outerVars>>

ReadRaises ==
    /\ pc = "scanStart"
    /\ Keep(ScanAborts)
    /\ UNCHANGED <<st, preproc, cur, pageEnd, scan, worker, chatVars,
                   outerVars>>

Control == Least(scan.todo)

ControlFailed == [scan EXCEPT !.todo = @ \ {Control},
                              !.failed = @ \cup {Control}]

AskControl ==
    /\ pc = "scan" /\ scan.todo # {}
    /\ Ask(Control)
    /\ Keep("scanAsk")
    /\ UNCHANGED <<st, preproc, cur, pageEnd, scan, worker, chatVars,
                   quietVars>>

\* The answer is in: a stop takes effect here before it is answered.
ControlAnswered ==
    /\ pc = "scanAsk" /\ Answered(Control) /\ EffectHolds(Control)
    /\ IF Effect(st, Control) # st
         THEN /\ Save(Effect(st, Control), "scanSend", "scan")
              /\ scan' = IF pc' = "scan" THEN ControlFailed ELSE scan
         ELSE Keep("scanSend") /\ UNCHANGED <<st, scan>>
    /\ UNCHANGED <<preproc, cur, pageEnd, worker, chatVars, outerVars>>

\* Not asked, no answer within CONTROL_API_TIMEOUT, or a stop not in force.
ControlUnanswered ==
    /\ \/ pc = "scanAsk"
       \/ pc = "scan" /\ scan.todo # {}
    /\ scan' = ControlFailed /\ Keep("scan")
    /\ UNCHANGED <<st, preproc, cur, pageEnd, worker, chatVars, outerVars>>

ControlDelivered ==
    /\ pc = "scanSend"
    /\ IF answer[Control] = "ignored" THEN UNCHANGED chatVars
                               ELSE SendConcludes(<<"reply", Control>>, Control)
    /\ st' = [st EXCEPT !.processed = @ \cup {Control}]
    /\ preproc' = preproc \cup {Control}
    /\ scan' = [scan EXCEPT !.todo = @ \ {Control}]
    /\ Keep("scan")
    /\ UNCHANGED <<cur, pageEnd, worker, outerVars>>

ControlUndelivered ==
    /\ pc = "scanSend" /\ answer[Control] # "ignored"
    /\ SendRaises(<<"reply", Control>>, Control)
    /\ scan' = ControlFailed /\ Keep("scan")
    /\ UNCHANGED <<st, preproc, cur, pageEnd, worker, outerVars>>

\* Faulty variant: the place reached does not account for failures.
ReachedPastFailures == Greatest({scan.active, scan.end})

\* control_scan_cursor: up to the first command that failed.
Reached ==
    Greatest({scan.active,
              Least({scan.end} \cup {i - 1 : i \in scan.failed})})

\* What follows the scan: it held up the page, or an answer, or a command.
AfterScan ==
    IF scan.failed = {}
      THEN CASE scan.then = "poll"    -> "await"
             [] scan.then = "release" -> IF worker = "answered" THEN "answered"
                                                                ELSE "fail"
             [] OTHER                 -> scan.then
      ELSE IF scan.then \in {"poll", "release"} THEN "await" ELSE ScanAborts

ScanEnds ==
    /\ pc = "scan" /\ scan.todo = {}
    /\ IF scan.progress \/ Reached # st.scanCursor
         THEN Save([st EXCEPT !.scanCursor = Reached], AfterScan, ScanAborts)
         ELSE Keep(AfterScan) /\ UNCHANGED st
    /\ UNCHANGED <<preproc, cur, pageEnd, scan, worker, chatVars, outerVars>>

-----------------------------------------------------------------------------
(* run_once: the next message of the page *)

Here(m) == pc = "handle" /\ m = st.cursor + 1 /\ m <= pageEnd

PassEnds ==
    /\ pc = "handle" /\ st.cursor >= pageEnd
    /\ Keep("top")
    /\ UNCHANGED <<st, preproc, cur, pageEnd, scan, worker, chatVars,
                   outerVars>>

\* should_wait_for_structured_metadata: the wait begins, or goes on.
WaitForMetadata(m) ==
    /\ Here(m) /\ ~Invalidated(m) /\ m \in maybe
    /\ IF st.wait = m THEN Keep("top") /\ UNCHANGED st
                      ELSE Save([st EXCEPT !.wait = m], "top", "top")
    /\ UNCHANGED <<preproc, cur, pageEnd, scan, worker, chatVars, outerVars>>

\* The wait is over, or there is none.
Settled(m) ==
    /\ Here(m)
    /\ m \in maybe /\ ~Invalidated(m) => st.wait = m

Waited(m) == [st EXCEPT !.wait = IF @ = m THEN 0 ELSE @]

Exhausted(m) == st.retry.id = m
                /\ (st.retry.notice \/ st.retry.attempts >= maxRetries)

Handled(m) == m \in preproc \/ m \in st.processed \/ Invalidated(m)
              \/ log[m] = "noise"

\* Retries are used up: finish_failed_message.
TurnToNotice(m) ==
    /\ Settled(m) /\ Exhausted(m)
    /\ st' = Waited(m) /\ cur' = m /\ Keep("notice")
    /\ UNCHANGED <<preproc, pageEnd, scan, worker, chatVars, outerVars>>

\* handle_message of something already dealt with, stopped or not for us. The
\* code has the message as it was in the page, fetched before the scan: that
\* metadata came in between is, here, that it came after this step, as nothing
\* else looks at it.
SkipMessage(m) ==
    /\ Settled(m) /\ ~Exhausted(m) /\ Handled(m)
    /\ Save(Advance(IF m \in st.processed \/ Invalidated(m)
                      THEN ClearPending(Waited(m), m) ELSE Waited(m), m),
            "handle", "fail")
    /\ preproc' = preproc \ {m}
    /\ cur' = m
    /\ UNCHANGED <<pageEnd, scan, worker, chatVars, outerVars>>

\* An answer is already saved: it is posted again, not asked for again.
ResumePending(m) ==
    /\ Settled(m) /\ ~Exhausted(m) /\ ~Handled(m) /\ st.pending = m
    /\ st' = Waited(m) /\ cur' = m /\ Keep("send")
    /\ UNCHANGED <<preproc, pageEnd, scan, worker, chatVars, outerVars>>

\* A command in its turn: urgent ones that came later go first.
TakeControl(m) ==
    /\ Settled(m) /\ ~Exhausted(m) /\ ~Handled(m) /\ st.pending # m
    /\ IsControl(m)
    /\ st' = Waited(m) /\ cur' = m
    /\ scan' = [NoScan EXCEPT !.active = m, !.then = "control"]
    /\ Keep("scanStart")
    /\ UNCHANGED <<preproc, pageEnd, worker, chatVars, outerVars>>

\* ask_ai_with_control_preemption: a thread asks, this one keeps scanning.
StartWorker(m) ==
    /\ Settled(m) /\ ~Exhausted(m) /\ ~Handled(m) /\ st.pending # m
    /\ log[m] = "plain"
    /\ \/ Ask(m) /\ worker' = "running"
       \/ UNCHANGED answer /\ worker' = "raised"
    /\ st' = Waited(m) /\ cur' = m /\ Keep("await")
    /\ UNCHANGED <<preproc, pageEnd, scan, chatVars, quietVars>>

-----------------------------------------------------------------------------
(* handle_message: the answer *)

WorkerReturns ==
    /\ worker = "running"
    /\ \/ Answered(cur) /\ worker' = "answered"
       \/ worker' = "raised"
    /\ UNCHANGED <<st, disk, preproc, pc, cur, pageEnd, scan, saveFailures,
                   chatVars, outerVars>>

\* Nothing after POLL_SECONDS, or the thread's result: a scan either way. The
\* result leaves only after a scan that began with it there and succeeded.
Preempt ==
    /\ pc = "await"
    /\ scan' = [NoScan EXCEPT !.active = cur,
                  !.then = IF worker = "running" THEN "poll" ELSE "release"]
    /\ Keep("scanStart")
    /\ UNCHANGED <<st, preproc, cur, pageEnd, worker, chatVars, outerVars>>

AskDirect ==
    /\ pc = "control"
    /\ Ask(cur)
    /\ Keep("directAsk")
    /\ UNCHANGED <<st, preproc, cur, pageEnd, scan, worker, chatVars,
                   quietVars>>

\* ask_ai never raises "empty ai reply" for what the Adapter answers with 200,
\* and the fallback for it (EMPTY_REPLY_FALLBACK) would skip require_stop_effect:
\* it is left out.
DirectAnswered ==
    /\ pc = "directAsk" /\ Answered(cur) /\ EffectHolds(cur)
    /\ IF Effect(st, cur) # st
         THEN Save(Effect(st, cur), "answered", "fail")
         ELSE Keep("answered") /\ UNCHANGED st
    /\ UNCHANGED <<preproc, cur, pageEnd, scan, worker, chatVars, outerVars>>

DirectUnanswered ==
    /\ pc \in {"control", "directAsk"}
    /\ Keep("fail")
    /\ UNCHANGED <<st, preproc, cur, pageEnd, scan, worker, chatVars,
                   outerVars>>

\* Faulty variant: the answer is saved only once it is posted.
KeepPendingInMemory ==
    /\ pc = "answered"
    /\ st' = [st EXCEPT !.pending = cur] /\ Keep("send")
    /\ worker' = "none"
    /\ UNCHANGED <<preproc, cur, pageEnd, scan, chatVars, outerVars>>

\* The answer is saved as pending before it is posted.
SavePending ==
    /\ pc = "answered"
    /\ Save([st EXCEPT !.pending = cur], "send", "fail")
    /\ worker' = "none"
    /\ UNCHANGED <<preproc, cur, pageEnd, scan, chatVars, outerVars>>

\* Faulty variant: 409, 422 and 423 count as failures like any other.
TerminalIsFailure ==
    /\ pc = "send" /\ answer[cur] # "ignored"
    /\ SendConcludes(<<"reply", cur>>, cur)
    /\ \E next \in {"commit", "fail"} : Keep(next)
    /\ UNCHANGED <<st, preproc, cur, pageEnd, scan, worker, outerVars>>

\* send_prepared_result: nothing to send, or a final response.
ReplyConcluded ==
    /\ pc = "send"
    /\ IF answer[cur] = "ignored" THEN UNCHANGED chatVars
                                  ELSE SendConcludes(<<"reply", cur>>, cur)
    /\ Keep("commit")
    /\ UNCHANGED <<st, preproc, cur, pageEnd, scan, worker, outerVars>>

ReplyRaises ==
    /\ pc = "send" /\ answer[cur] # "ignored"
    /\ SendRaises(<<"reply", cur>>, cur)
    /\ Keep("fail")
    /\ UNCHANGED <<st, preproc, cur, pageEnd, scan, worker, outerVars>>

CommitMessage ==
    /\ pc = "commit"
    /\ Save(Advance(ClearPending(st, cur), cur), "handle", "fail")
    /\ UNCHANGED <<preproc, cur, pageEnd, scan, worker, chatVars, outerVars>>

-----------------------------------------------------------------------------
(* Failures *)

Attempts == (IF st.retry.id = cur THEN st.retry.attempts ELSE 0) + 1

\* Faulty variant: a failed message is left behind.
FailAndMoveOn ==
    /\ pc = "fail"
    /\ Save([st EXCEPT !.cursor = cur, !.retry = NoRetry], "handle", "top")
    /\ worker' = "none"
    /\ UNCHANGED <<preproc, cur, pageEnd, scan, chatVars, outerVars>>

\* Faulty variant: the count of attempts starts over each time.
ForgetAttempts ==
    /\ pc = "fail"
    /\ Save([st EXCEPT !.retry = [id |-> cur, attempts |-> 1,
                                  notice |-> maxRetries = 1]],
            IF maxRetries = 1 THEN "notice" ELSE "top", "top")
    /\ worker' = "none"
    /\ UNCHANGED <<preproc, cur, pageEnd, scan, chatVars, outerVars>>

\* record_failure; after MAX_RETRIES the failure notice is tried at once. A
\* thread still asking is left to itself.
RecordFailure ==
    /\ pc = "fail"
    /\ Save([st EXCEPT !.retry = [id |-> cur, attempts |-> Attempts,
                                  notice |-> Attempts >= maxRetries]],
            IF Attempts >= maxRetries THEN "notice" ELSE "top", "top")
    /\ worker' = "none"
    /\ UNCHANGED <<preproc, cur, pageEnd, scan, chatVars, outerVars>>

\* finish_failed_message: a stopped message ends silently, any other with a
\* notice to the group.
EndSilently ==
    /\ pc = "notice" /\ Invalidated(cur)
    /\ Save(Advance(ClearPending(st, cur), cur), "top", "noticeFailed")
    /\ UNCHANGED <<preproc, cur, pageEnd, scan, worker, chatVars, outerVars>>

NoticeConcluded ==
    /\ pc = "notice" /\ ~Invalidated(cur)
    /\ SendConcludes(<<"failure", cur>>, cur)
    /\ Keep("noticed")
    /\ UNCHANGED <<st, preproc, cur, pageEnd, scan, worker, outerVars>>

NoticeRaises ==
    /\ pc = "notice" /\ ~Invalidated(cur)
    /\ SendRaises(<<"failure", cur>>, cur)
    /\ Keep("noticeFailed")
    /\ UNCHANGED <<st, preproc, cur, pageEnd, scan, worker, outerVars>>

CommitNotice ==
    /\ pc = "noticed"
    /\ Save(Advance(ClearPending(st, cur), cur), "top", "noticeFailed")
    /\ UNCHANGED <<preproc, cur, pageEnd, scan, worker, chatVars, outerVars>>

\* record_failure_notice_failure: the notice is tried for as long as it takes.
RecordNoticeFailure ==
    /\ pc = "noticeFailed"
    /\ Save([st EXCEPT !.retry =
               [id |-> cur, notice |-> TRUE,
                attempts |-> Greatest({maxRetries, st.retry.attempts})]],
            "top", "top")
    /\ UNCHANGED <<preproc, cur, pageEnd, scan, worker, chatVars, outerVars>>

-----------------------------------------------------------------------------
(* Around the bridge *)

MessageArrives ==
    /\ Len(log) < MaxMessages
    /\ \E k \in Kinds, unsettled \in BOOLEAN :
          /\ unsettled => k \in {"plain", "noise"}
          /\ log' = Append(log, k)
          /\ maybe' = IF unsettled THEN maybe \cup {Len(log) + 1} ELSE maybe
    /\ UNCHANGED <<bridgeVars, chatVars, maxRetries, answer, fence, crashes>>

\* WeChat writes the rest of a message's metadata: what looked like noise may
\* turn out to be for the bot.
MetadataSettles ==
    /\ \E m \in maybe :
          /\ maybe' = maybe \ {m}
          /\ log' \in {log, [log EXCEPT ![m] = "plain"]}
    /\ UNCHANGED <<bridgeVars, chatVars, maxRetries, answer, fence, crashes>>

\* The Adapter finishes with a message, whether or not anyone still waits. A
\* stop is answered "canceled" once its barrier is committed; a barrier whose
\* response was lost counts as failed. The answer is kept.
AdapterFinishes(m) ==
    /\ answer[m] = "working"
    /\ \E a \in AnswersTo[log[m]] :
          /\ answer' = [answer EXCEPT ![m] = a]
          /\ LET raised == Greatest({fence, m}) IN
             fence' \in CASE log[m] = "stop" /\ a = "canceled" -> {raised}
                          [] log[m] = "stop" /\ a = "failed" -> {fence, raised}
                          [] OTHER -> {fence}
    /\ UNCHANGED <<bridgeVars, chatVars, maxRetries, log, maybe, crashes>>

\* The bridge dies and starts again from its state file.
Crash ==
    /\ crashes < MaxCrashes
    /\ crashes' = crashes + 1
    /\ st' = disk /\ preproc' = {}
    /\ pc' = "top" /\ cur' = 0 /\ pageEnd' = 0 /\ scan' = NoScan
    /\ worker' = "none"
    /\ UNCHANGED <<disk, saveFailures, chatVars, maxRetries, log, maybe, answer,
                   fence>>

-----------------------------------------------------------------------------
Handle(m) ==
    \/ WaitForMetadata(m) \/ TurnToNotice(m) \/ SkipMessage(m)
    \/ ResumePending(m) \/ TakeControl(m) \/ StartWorker(m)

Scan == \/ ReadControls \/ ReadRaises \/ AskControl \/ ControlAnswered
        \/ ControlUnanswered \/ ControlDelivered \/ ControlUndelivered
        \/ ScanEnds

Loop ==
    \/ DiscardStale \/ ResumePass \/ FreshPass \/ PollsNothing \/ FetchPage
    \/ Scan \/ PassEnds \/ \E m \in Ids : Handle(m)
    \/ Preempt \/ AskDirect \/ DirectAnswered \/ DirectUnanswered
    \/ SavePending \/ ReplyConcluded \/ ReplyRaises \/ CommitMessage
    \/ RecordFailure \/ EndSilently \/ NoticeConcluded \/ NoticeRaises
    \/ CommitNotice \/ RecordNoticeFailure

Next ==
    \/ Loop \/ WorkerReturns
    \/ MessageArrives \/ MetadataSettles
    \/ \E m \in Ids : AdapterFinishes(m)
    \/ Crash

Spec == Init /\ [][Next]_vars
-----------------------------------------------------------------------------
(* Properties *)

States == [cursor : Nat, pending : Nat, wait : Nat, stopBefore : Nat,
           scanCursor : Nat, processed : SUBSET Ids,
           retry : [id : Nat, attempts : Nat, notice : BOOLEAN]]

Keys == {"reply", "failure"} \X Ids

TypeOK ==
    /\ log \in Seq(AllKinds) /\ maybe \subseteq Ids
    /\ st \in States /\ disk \in States /\ preproc \subseteq Ids
    /\ pc \in {"top", "fetch", "scanStart", "scan", "scanAsk", "scanSend",
               "handle", "await", "control", "directAsk", "answered", "send",
               "commit", "fail", "notice", "noticed", "noticeFailed"}
    /\ cur \in Nat /\ pageEnd \in Nat
    /\ worker \in {"none", "running", "answered", "raised"}
    /\ answer \in [Ids -> AllAnswers \cup {"none", "working"}]
    /\ fence \in Nat /\ maxRetries \in RetryLimits
    /\ submitted \subseteq Keys /\ concluded \subseteq Keys

\* What a pass works on is the message after the cursor (or, if the save that
\* followed it failed, a notice is sent for the message at the cursor); what is
\* left for a later pass lies ahead of it; the file is never ahead of memory.
WorkIsAhead ==
    /\ pc \in {"await", "control", "directAsk", "answered", "send", "commit"}
          => cur = st.cursor + 1
    /\ pc \in {"notice", "noticed"} => cur \in {st.cursor, st.cursor + 1}
    /\ st.pending # 0 => st.pending > st.cursor
    /\ disk.cursor <= st.cursor

BridgeInv == TypeOK /\ WorkIsAhead

\* The cursor passes a message only when it needs nothing more: it is not for
\* the bot, a later stop is in force, the Adapter had nothing to say, or the
\* Chat API gave a final response to its answer or to a failure notice.
Done(m) ==
    \/ log[m] = "noise"
    \/ fence > m
    \/ answer[m] = "ignored"
    \/ {<<"reply", m>>, <<"failure", m>>} \cap concluded # {}

NothingIsSkipped ==
    [][\A m \in (st.cursor + 1)..st'.cursor : Done(m)]_vars

\* The bridge drops old work on the strength of a stop only when the Chat API
\* has that stop, and a restart does not undo it.
WatermarkIsFenced == st.stopBefore <= fence /\ disk.stopBefore <= fence

\* A stop is answered in the group only once it is in force
\* (docs/architecture.md:82).
StopAnswerMeansStopped ==
    \A s \in 1..Len(log) :
        log[s] = "stop" /\ <<"reply", s>> \in submitted => fence >= s

\* After the answer to a stop, the group sees no answer, and no failure
\* notice, to anything written before it.
NothingOldAfterStopAnswer ==
    [][\A m \in 1..Len(log) :
          (\E s \in (m + 1)..Len(log) :
              log[s] = "stop" /\ <<"reply", s>> \in submitted)
          => \A key \in {"reply", "failure"} :
                <<key, m>> \in submitted' => <<key, m>> \in submitted]_vars

\* An answer, or the rest of an earlier pass, is not posted past a stop that
\* the scan before it could see (docs/architecture.md:42): however scans
\* failed, were interrupted or started from a saved place, that stop has been
\* dealt with.
StopsGoFirst ==
    pc = "send" /\ log[cur] = "plain" =>
        \A s \in (cur + 1)..scan.end :
            log[s] = "stop" => s \in st.processed

\* An answer in the group was in the state file first, or the message is done:
\* a restart posts the same answer again and does not ask for another. (Two
\* failed saves can leave the answer in memory only, and it is still posted.)
PostedFromPending ==
    \A m \in 1..Len(log) :
        log[m] = "plain" /\ <<"reply", m>> \in submitted /\ saveFailures < 2 =>
            disk.pending = m \/ disk.cursor >= m \/ fence > m
            \/ <<"failure", m>> \in concluded

\* The group is told that the AI cannot be reached only of a message that was
\* for the bot and whose answer had no final response. (After MAX_RETRIES failed
\* saves, or a crash before the outcome was saved and responses lost since, a
\* message that was dealt with counts as failed all the same.)
NoticeOnlyIfUnanswered ==
    [][saveFailures < maxRetries /\ crashes = 0 =>
         \A m \in 1..Len(log) :
             <<"failure", m>> \in submitted' \ submitted =>
                 log[m] # "noise" /\ <<"reply", m>> \notin concluded]_vars

-----------------------------------------------------------------------------
(* Liveness *)

\* The loop keeps going, reads succeed now and then, metadata waits end, and
\* the Chat API sooner or later gives a final response.
ChatApiFairness ==
    /\ WF_vars(Loop) /\ WF_vars(WorkerReturns)
    /\ SF_vars(ReadControls)
    /\ SF_vars(\E m \in Ids : Handle(m) /\ ~WaitForMetadata(m))
    /\ SF_vars(ControlDelivered \/ ReplyConcluded \/ NoticeConcluded)

\* The Adapter finishes with a stop, and the bridge hears of it sooner or later;
\* nothing is assumed of its answers to anything else.
StopFairness ==
    /\ WF_vars(\E m \in DOMAIN log : log[m] = "stop" /\ AdapterFinishes(m))
    /\ SF_vars(AskControl)
    /\ SF_vars(\/ ControlAnswered
               \/ cur \in DOMAIN log /\ log[cur] = "stop" /\ DirectAnswered)

FairSpec == Spec /\ ChatApiFairness /\ StopFairness

\* Every message is dealt with in the end: what follows a stop is still
\* answered (docs/architecture.md:82), a failing message does not hold up the
\* queue.
EveryMessageIsHandled ==
    \A m \in Ids : Len(log) >= m ~> st.cursor >= m
=============================================================================
