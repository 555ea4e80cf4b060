------------------------------ MODULE ChatTurn ------------------------------
(***************************************************************************)
(* A message of the group inside the Adapter (adapter/app/main.py, chat):  *)
(* the inbound ledger, the stop command, the turn under the execution lock *)
(* with the group participation limits, and the worker that delivers the   *)
(* delayed second thoughts (followups). Around it, what its promises are   *)
(* about: the group, whose rows are numbered by local id, a bridge that    *)
(* asks in order and posts the answers, and the Chat API, which submits    *)
(* nothing older than a committed stop.                                    *)
(*                                                                         *)
(* The handlers run on one event loop: what lies between two awaits is one *)
(* action. Ten minutes are one length of time, that of a pause and of      *)
(* a slot; shorter times are choices.                                      *)
(***************************************************************************)
EXTENDS Integers, Sequences, FiniteSets

CONSTANTS
    Conversations,       \* what people may write, as sequences of kinds
    Texts,               \* what the model may say, long enough to be compared
    participating,       \* group_participation_enabled
    ParticipationLimit,  \* group_participation_limit
    MaxMessages,         \* bound on the length of a conversation
    MaxCrashes           \* bound on restarts

\* "mention" is an @ or a reply to the bot, "named" a passive message with
\* its name, "chat" any other. Of the commands, "stop" is cancel_all, "cancel"
\* a task's cancel or media_only, "command" any that is refused at once.
AllKinds == {"mention", "named", "chat", "stop", "cancel", "command"}

ASSUME TurnConstants ==
    /\ Conversations \subseteq Seq(AllKinds)
    /\ \A c \in Conversations : Len(c) <= MaxMessages
    /\ Texts \cap {"", "fixed"} = {}
    /\ participating \in BOOLEAN
    /\ ParticipationLimit \in Nat \ {0}
    /\ MaxMessages \in Nat \ {0} /\ MaxCrashes \in Nat

\* A message, its answer or a notice, and a followup.
Ids == 1..(3 * MaxMessages)

\* "fixed" stands for the sentences of the program itself, "" for silence.
Replies == Texts \cup {"", "fixed"}

Nobody == -1   \* who holds the execution lock, when no message does
Worker == 0

NoAnswer == [status |-> "none", text |-> ""]
NoFollowup == [status |-> "none", main |-> "", text |-> ""]
Idle == [pc |-> "idle", id |-> 0, sent |-> FALSE]

VARIABLES
    rows,      \* the group: who wrote each row, the message it answers, its text
    done,      \* bridge: the messages it has dealt with
    fence,     \* Chat API: the latest committed room stop
    inbound,   \* inbound_ledger: state of each message
    answer,    \* request_cache: the response kept for each message
    pc, out,   \* the handler of each message, and the reply it is about to give
    seen,      \* the own lines that the handler compares its reply with
    lock,      \* execution_lock: who holds it
    slots,     \* group_participation_slots
    paused,    \* group_participation_pause
    listener,  \* group_listener_state
    timeline,  \* companion_timeline: the bot's own lines
    followup,  \* group_followups
    worker,    \* deliver_group_followup in progress
    calls,     \* history: how often the model was called for a message
    crashes

groupVars == <<rows, done>>
ledgerVars == <<inbound, answer, pc, out, seen, lock>>
roomVars == <<slots, paused, listener, timeline>>
followupVars == <<followup, worker>>
countVars == <<calls, crashes>>
vars == <<groupVars, fence, ledgerVars, roomVars, followupVars, countVars>>

Init ==
    /\ rows = <<>> /\ done = {} /\ fence = 0
    /\ inbound = [m \in Ids |-> "none"] /\ answer = [m \in Ids |-> NoAnswer]
    /\ pc = [m \in Ids |-> "idle"] /\ out = [m \in Ids |-> ""]
    /\ seen = [m \in Ids |-> {}] /\ lock = Nobody
    /\ slots = [m \in Ids |-> "none"] /\ paused = FALSE
    /\ listener = [observed |-> 0, reply |-> 0, turns |-> 0] /\ timeline = {}
    /\ followup = [m \in Ids |-> NoFollowup] /\ worker = Idle
    /\ calls = [m \in Ids |-> 0] /\ crashes = 0

-----------------------------------------------------------------------------
(* The group, the bridge and the Chat API *)

Human(i) == rows[i].by \in AllKinds
Kind(m) == rows[m].by
Messages == {i \in DOMAIN rows : Human(i)}
Passive(m) == Kind(m) \in {"named", "chat"}

HumanAfter(m) == \E i \in Messages : i > m

\* blocking_barrier for a text about message m
Blocked(m) == fence > m

\* The Chat API submits a text about message m: it becomes a row, is
\* suppressed, or never reaches the group.
Submit(by, m, text) ==
    rows' \in {rows} \cup
        (IF Blocked(m) THEN {} ELSE
            {Append(rows, [by |-> by, src |-> m, text |-> text])})

\* How many messages there are up to a row
Count(i) == Cardinality({j \in Messages : j <= i})

\* One message more of a conversation
HumanWrites ==
    LET spoken == Count(Len(rows)) IN
    /\ Len(rows) + 1 \in Ids
    /\ \E c \in Conversations :
          /\ spoken < Len(c) /\ \A i \in Messages : Kind(i) = c[Count(i)]
          /\ rows' = Append(rows, [by |-> c[spoken + 1], src |-> 0, text |-> ""])
    /\ UNCHANGED <<done, fence, ledgerVars, roomVars, followupVars, countVars>>

\* _control_priority: the bridge handles messages in order, and stops and
\* cancels ahead of the others.
Urgent(m) == Kind(m) \in {"stop", "cancel"}
InTurn(m) == \A i \in Messages : i < m => i \in done
Current(m) == m \in Messages \ done /\ (Urgent(m) \/ InTurn(m))

\* require_stop_effect: a stop is answered once it, or a later one, is in force.
StopHolds(m) ==
    Kind(m) = "stop" =>
        \E i \in Messages : i >= m /\ Kind(i) = "stop" /\ answer[i].status = "canceled"

\* The answer is posted, once (ChatSender); silence is not.
BridgePosts(m) ==
    /\ Current(m) /\ inbound[m] = "completed" /\ StopHolds(m)
    /\ IF answer[m].text = "" THEN UNCHANGED rows
                              ELSE Submit("reply", m, answer[m].text)
    /\ done' = done \cup {m}
    /\ UNCHANGED <<fence, ledgerVars, roomVars, followupVars, countVars>>

\* After MAX_RETRIES failures of the message whose turn it is, the bridge
\* posts a notice and moves on. A stop that the scan ahead finds is never given
\* up; one that is only found in its own turn (module Bridge) is left out here.
BridgeGivesUp(m) ==
    /\ m \in Messages \ done /\ InTurn(m) /\ Kind(m) # "stop"
    /\ Submit("notice", m, "fixed")
    /\ done' = done \cup {m}
    /\ UNCHANGED <<fence, ledgerVars, roomVars, followupVars, countVars>>

-----------------------------------------------------------------------------
(* The timeline and the listener state *)

\* record_companion_bot_reply: the line is noted under its source message.
OwnLine(m, text) == [id |-> m, text |-> text]

\* The bot's own lines before a message. list_companion_timeline gives the
\* last sixteen lines, and repeats_recent_listener_reply takes four long ones
\* of them: all there are with two earlier messages, some of more.
OwnLinesBefore(m) == {e.text : e \in {x \in timeline : x.id < m}}
Compared(m) ==
    IF Count(m) <= 3 THEN {OwnLinesBefore(m)} ELSE SUBSET OwnLinesBefore(m)

\* repeats_recent_listener_reply, over the timeline read when the turn began
Repeats(m, text) == text \in seen[m]

-----------------------------------------------------------------------------
(* Listening *)

\* Faulty variant: a message is counted again whenever it is handled.
ObservedAgain(m) ==
    [observed |-> IF m > listener.observed THEN m ELSE listener.observed,
     reply |-> listener.reply, turns |-> listener.turns + 1]

\* observe_group_listener_message: a passive message is counted once.
Observed(m) ==
    IF m <= listener.observed THEN listener
    ELSE [observed |-> m, reply |-> listener.reply, turns |-> listener.turns + 1]

\* mark_group_listener_reply: to an older message it does not start again.
Marked(m) ==
    LET newer == m >= listener.reply IN
    [observed |-> IF m > listener.observed THEN m ELSE listener.observed,
     reply |-> IF newer THEN m ELSE listener.reply,
     turns |-> IF newer THEN 0 ELSE listener.turns]

\* decide_group_listener and choose_participation, of a message that does not
\* name the bot: somebody must have written since it spoke. What was written
\* and how long ago decide the rest.
MayJoin(state) == state.turns >= 1

-----------------------------------------------------------------------------
(* The inbound ledger *)

\* save_response: the ledger keeps it for good.
Saved(m, status, text) ==
    /\ inbound' = [inbound EXCEPT ![m] = "completed"]
    /\ answer' = [answer EXCEPT ![m] = [status |-> status, text |-> text]]

\* record_group_listener_bot_reply: what is said counts as said from now on.
\* The note and the mark are transactions of their own: the note may fail,
\* which is only logged, and the process may die before either.
Said(m, text) ==
    /\ timeline' \in {timeline, timeline \cup {OwnLine(m, text)}}
    /\ listener' \in {listener, Marked(m)}

Answers(m, status, text) == Saved(m, status, text) /\ Said(m, text)
KeepsQuiet(m) == Saved(m, "ignored", "") /\ UNCHANGED <<timeline, listener>>

\* begin_inbound creates the row, or takes over one that a restart released.
MayBegin(m) == inbound[m] \in {"none", "stale"}

\* suppress_group_followups
Suppressed == [m \in Ids |-> [followup[m] EXCEPT
    !.status = IF @ = "prepared" THEN "suppressed" ELSE @]]

\* What every request does before its command or turn.
Enter(m) ==
    /\ Current(m) /\ MayBegin(m)
    /\ followup' = IF participating THEN Suppressed ELSE followup
    /\ UNCHANGED <<groupVars, fence, slots, paused, worker, countVars>>

Noticed(m) == IF Passive(m) THEN Observed(m) ELSE listener

\* The messages answered without a wait: a stop or media_only that was not
\* meant for the bot, a cancel of no known task, other commands, a passive
\* message that is no occasion to speak, and any other when the budget is
\* used up.
AnswersAtOnce(m) ==
    /\ Enter(m)
    /\ CASE Kind(m) = "mention" -> Answers(m, "failed", "fixed")
         [] Kind(m) = "command" -> Saved(m, "ignored", "fixed")
                                   /\ UNCHANGED <<timeline, listener>>
         [] Kind(m) = "cancel"  -> KeepsQuiet(m) \/ Answers(m, "succeeded", "fixed")
         [] OTHER               -> /\ Saved(m, "ignored", "")
                                   /\ listener' = Noticed(m) /\ UNCHANGED timeline
    /\ UNCHANGED <<pc, out, seen, lock>>

\* The others go on to wait: for the Chat API, or for the execution lock.
Waits(m) ==
    /\ Enter(m) /\ Kind(m) # "command"
    /\ inbound' = [inbound EXCEPT ![m] = "processing"]
    /\ listener' = Noticed(m) /\ UNCHANGED timeline
    /\ Kind(m) = "chat" => MayJoin(Noticed(m))
    /\ \E lines \in Compared(m) : seen' = [seen EXCEPT ![m] = lines]
    /\ pc' = [pc EXCEPT ![m] = CASE Kind(m) = "stop"   -> "stopping"
                                 [] Kind(m) = "cancel" -> "barrier"
                                 [] OTHER              -> "lock"]
    /\ UNCHANGED <<answer, out, lock>>

\* A handler ends, and with it its hold on the execution lock.
Leave(m) ==
    /\ pc' = [pc EXCEPT ![m] = "idle"] /\ out' = [out EXCEPT ![m] = ""]
    /\ seen' = [seen EXCEPT ![m] = {}]
    /\ lock' = IF lock = m THEN Nobody ELSE lock

\* An exception nobody expects: the row stays "processing" until a restart.
HandlerDies(m) ==
    /\ pc[m] # "idle"
    /\ Leave(m)
    /\ UNCHANGED <<groupVars, fence, inbound, answer, roomVars, followupVars,
                   countVars>>

-----------------------------------------------------------------------------
(* The stop command *)

\* POST /control/barriers takes effect.
BarrierCommits(m) ==
    /\ pc[m] = "stopping"
    /\ fence' = IF m > fence THEN m ELSE fence
    /\ pc' = [pc EXCEPT ![m] = "stopped"]
    /\ UNCHANGED <<groupVars, inbound, answer, out, seen, lock, roomVars,
                   followupVars, countVars>>

\* The Chat API confirms: ten quiet minutes begin.
StopConfirmed(m) ==
    /\ pc[m] = "stopped"
    /\ IF participating THEN paused' = TRUE /\ followup' = Suppressed
                        ELSE UNCHANGED <<paused, followup>>
    /\ Answers(m, "canceled", "fixed") /\ Leave(m)
    /\ UNCHANGED <<groupVars, fence, slots, worker, countVars>>

\* The POST fails, times out or loses its response.
StopFails(m) ==
    /\ pc[m] \in {"stopping", "stopped"}
    /\ Answers(m, "failed", "fixed") /\ Leave(m)
    /\ UNCHANGED <<groupVars, fence, slots, paused, followupVars, countVars>>

\* The other urgent commands wait for a barrier as well: one of media, or of
\* one task, which holds up no text. Its outcome is reported.
CancelEnds(m) ==
    /\ pc[m] = "barrier"
    /\ \E status \in {"succeeded", "failed", "canceled"} : Answers(m, status, "fixed")
    /\ Leave(m)
    /\ UNCHANGED <<groupVars, fence, slots, paused, followupVars, countVars>>

-----------------------------------------------------------------------------
(* The turn *)

\* claim_group_participation: one slot a message, ever; none in a pause.
Recent == {i \in Ids : slots[i] = "recent"}

\* Faulty variants: the pause is not looked at; a slot is claimed anew.
MayClaimInPause(m) ==
    Cardinality(Recent) < ParticipationLimit /\ slots[m] = "none"
MayClaimAnew(m) == ~paused /\ Cardinality(Recent) < ParticipationLimit

MayClaim(m) ==
    ~paused /\ Cardinality(Recent) < ParticipationLimit /\ slots[m] = "none"

\* The lock is free (asyncio.Lock wakes its waiters in turn). A passive
\* message is looked at again: the bot may have spoken since, or the
\* conversation moved on; unless it names the bot, it needs a slot.
TurnBegins(m) ==
    LET joins == participating /\ Kind(m) = "chat" IN
    /\ pc[m] = "lock" /\ lock = Nobody
    /\ participating /\ Passive(m) => listener.reply < m
    /\ joins => MayJoin(listener) /\ MayClaim(m)
    /\ slots' = IF joins THEN [slots EXCEPT ![m] = "recent"] ELSE slots
    /\ lock' = m /\ pc' = [pc EXCEPT ![m] = "session"]
    /\ UNCHANGED <<groupVars, fence, inbound, answer, out, seen, paused,
                   listener, timeline, followupVars, countVars>>

TurnDeclines(m) ==
    /\ pc[m] = "lock" /\ lock = Nobody /\ participating /\ Passive(m)
    /\ listener.reply >= m \/ Kind(m) = "chat"
    /\ KeepsQuiet(m) /\ Leave(m)
    /\ UNCHANGED <<groupVars, fence, slots, paused, followupVars, countVars>>

\* delete_session and ensure_session: the session is empty, and the model is
\* asked.
ModelIsAsked(m) ==
    /\ pc[m] = "session" /\ pc' = [pc EXCEPT ![m] = "model"]
    /\ calls' = [calls EXCEPT ![m] = @ + 1]
    /\ UNCHANGED <<groupVars, fence, inbound, answer, out, seen, lock, roomVars,
                   followupVars, crashes>>

\* What is left of the words of the model once they are cut down to a line of
\* chat: the silence marker and a mere sign of presence leave nothing.
Lines == Texts \cup {""}

\* prepare_group_followup, for what the model said before it is compared
\* with earlier lines. It may also be refused: two in ten minutes are enough.
MayPrepare(m, text) ==
    /\ participating /\ Passive(m) /\ text # ""
    /\ followup[m].status = "none"

\* The model has answered: `text` is the reply, silence among others. With a
\* followup to come, whose words are given or (empty) are still to be found.
\* Then the session is cleared, which is another await.
ModelAnswers(m, text) ==
    /\ pc[m] = "model"
    /\ \/ UNCHANGED followup
       \/ /\ MayPrepare(m, text)
          /\ \E second \in {""} \cup (Texts \ ({text} \cup seen[m])) :
                followup' = [followup EXCEPT ![m] =
                    [status |-> "prepared", main |-> text, text |-> second]]
    /\ out' = [out EXCEPT ![m] = IF Repeats(m, text) THEN "" ELSE text]
    /\ pc' = [pc EXCEPT ![m] = "clear"]
    /\ UNCHANGED <<groupVars, fence, inbound, answer, seen, lock, roomVars,
                   worker, countVars>>

TurnEnds(m) ==
    /\ pc[m] = "clear"
    /\ IF out[m] = "" THEN KeepsQuiet(m) ELSE Answers(m, "succeeded", out[m])
    /\ Leave(m)
    /\ UNCHANGED <<groupVars, fence, slots, paused, followupVars, countVars>>

Apologizes(m) ==
    /\ IF Passive(m) THEN KeepsQuiet(m) ELSE Answers(m, "failed", "fixed")
    /\ Leave(m)
    /\ UNCHANGED <<groupVars, fence, slots, paused, followupVars, countVars>>

\* Hermes cannot be reached, or reports an error: by its status, or softly
\* within an answer that looks like one.
ModelFails(m) == pc[m] \in {"session", "model"} /\ Apologizes(m)

\* The turn takes longer than sync_chat_timeout_seconds, the clearing of the
\* session included.
TurnTimesOut(m) == pc[m] \in {"session", "model", "clear"} /\ Apologizes(m)

-----------------------------------------------------------------------------
(* The worker and its followups *)

\* finish_group_followup
Finished(f, m, status) ==
    [f EXCEPT ![m].status = IF @ = "sending" THEN status ELSE @]

Finish(status) ==
    followup' = Finished(followup, worker.id, status) /\ worker' = Idle

\* Faulty variant: an item in flight is taken up again after a restart.
ClaimedAgain(m) == [i \in Ids |-> [followup[i] EXCEPT
    !.status = IF i = m THEN "sending"
               ELSE IF @ = "sending" THEN "prepared" ELSE @]]

\* next_group_followup: what an earlier process left in flight is uncertain;
\* an item that is ready is in flight from now on.
Claimed(m) == [i \in Ids |-> [followup[i] EXCEPT
    !.status = IF i = m THEN "sending"
               ELSE IF @ = "sending" THEN "uncertain" ELSE @]]

\* An item older than two minutes, and one whose words are still to be found
\* while a turn is running, are given up at once.
WorkerTakes(m) ==
    /\ worker.pc = "idle" /\ followup[m].status = "prepared"
    /\ \/ /\ followup' = Claimed(m)
          /\ \/ /\ followup[m].text # ""
                /\ worker' = [pc |-> "look", id |-> m, sent |-> FALSE]
             \/ /\ followup[m].text = "" /\ lock = Nobody
                /\ worker' = [pc |-> "generate", id |-> m, sent |-> FALSE]
       \/ /\ followup' = Finished(Claimed(m), m, "suppressed")
          /\ UNCHANGED worker
    /\ UNCHANGED <<groupVars, fence, ledgerVars, roomVars, countVars>>

\* next_group_followup when nothing is ready
WorkerReconciles ==
    /\ worker.pc = "idle" /\ \E m \in Ids : followup[m].status = "sending"
    /\ followup' = Claimed(0)
    /\ UNCHANGED <<groupVars, fence, ledgerVars, roomVars, worker, countVars>>

\* generate_group_followup: nobody may have written since. Then the worker
\* waits for the execution lock.
WorkerGenerates ==
    /\ worker.pc = "generate"
    /\ IF HumanAfter(worker.id)
         THEN Finish("suppressed")
         ELSE worker' = [worker EXCEPT !.pc = "lock"] /\ UNCHANGED followup
    /\ UNCHANGED <<groupVars, fence, ledgerVars, roomVars, countVars>>

WorkerLocks ==
    /\ worker.pc = "lock" /\ lock = Nobody /\ lock' = Worker
    /\ worker' = [worker EXCEPT !.pc = "model"]
    /\ UNCHANGED <<groupVars, fence, inbound, answer, pc, out, seen, roomVars,
                   followup, countVars>>

\* The words are found (set_group_followup_text), or there is nothing to add.
WorkerHears(text) ==
    /\ worker.pc = "model" /\ lock' = Nobody
    /\ IF text \in {"", followup[worker.id].main}
         THEN Finish("suppressed")
         ELSE /\ followup' = [followup EXCEPT ![worker.id].text = text]
              /\ worker' = [worker EXCEPT !.pc = "look"]
    /\ UNCHANGED <<groupVars, fence, inbound, answer, pc, out, seen, roomVars,
                   countVars>>

\* The first reply must be in the group, and nobody may have written since.
OwnReplyVisible(m) ==
    \E i \in DOMAIN rows : i > m /\ ~Human(i) /\ rows[i].text = followup[m].main

WorkerLooks ==
    /\ worker.pc = "look"
    /\ IF HumanAfter(worker.id) THEN Finish("suppressed")
       ELSE \/ /\ OwnReplyVisible(worker.id)
               /\ worker' = [worker EXCEPT !.pc = "post"] /\ UNCHANGED followup
            \/ ~OwnReplyVisible(worker.id) /\ Finish("uncertain")  \* four times
    /\ UNCHANGED <<groupVars, fence, ledgerVars, roomVars, countVars>>

WorkerPosts ==
    /\ worker.pc = "post"
    /\ Submit("followup", worker.id, followup[worker.id].text)
    /\ worker' = [pc |-> "posted", id |-> worker.id, sent |-> rows' # rows]
    /\ UNCHANGED <<done, fence, ledgerVars, roomVars, followup, countVars>>

\* The Chat API's verdict; a delivered followup counts as said.
WorkerConfirms ==
    /\ worker.pc = "posted" /\ worker.sent /\ Finish("confirmed")
    /\ Said(worker.id, followup[worker.id].text)
    /\ UNCHANGED <<groupVars, fence, ledgerVars, slots, paused, countVars>>

WorkerIsRefused ==
    /\ worker.pc = "posted" /\ ~worker.sent
    /\ \E status \in {"suppressed", "failed"} : Finish(status)
    /\ UNCHANGED <<groupVars, fence, ledgerVars, roomVars, countVars>>

\* A request fails, times out or loses its response, at any await.
WorkerFails ==
    /\ worker.pc \in {"generate", "model", "look", "posted"} /\ Finish("uncertain")
    /\ lock' = IF worker.pc = "model" THEN Nobody ELSE lock
    /\ UNCHANGED <<groupVars, fence, inbound, answer, pc, out, seen, roomVars,
                   countVars>>

-----------------------------------------------------------------------------
(* Time and restarts *)

SlotAges(m) ==
    /\ slots[m] = "recent" /\ slots' = [slots EXCEPT ![m] = "old"]
    /\ UNCHANGED <<groupVars, fence, ledgerVars, paused, listener, timeline,
                   followupVars, countVars>>

PauseEnds ==
    /\ paused /\ paused' = FALSE
    /\ UNCHANGED <<groupVars, fence, ledgerVars, slots, listener, timeline,
                   followupVars, countVars>>

\* The process dies and starts again: recover_inbound releases the messages
\* that were being processed.
Restart ==
    /\ crashes < MaxCrashes /\ crashes' = crashes + 1
    /\ inbound' = [m \in Ids |-> IF inbound[m] = "processing" THEN "stale"
                                                              ELSE inbound[m]]
    /\ pc' = [m \in Ids |-> "idle"] /\ out' = [m \in Ids |-> ""]
    /\ seen' = [m \in Ids |-> {}] /\ lock' = Nobody /\ worker' = Idle
    /\ UNCHANGED <<groupVars, fence, answer, roomVars, followup, calls>>

-----------------------------------------------------------------------------
HandlerStep(m) ==
    \/ BarrierCommits(m) \/ StopConfirmed(m) \/ StopFails(m) \/ CancelEnds(m)
    \/ TurnBegins(m) \/ TurnDeclines(m)
    \/ ModelIsAsked(m) \/ (\E line \in Lines : ModelAnswers(m, line))
    \/ TurnEnds(m) \/ ModelFails(m) \/ TurnTimesOut(m)

WorkerStep ==
    \/ WorkerReconciles \/ WorkerGenerates \/ WorkerLocks
    \/ (\E line \in Lines : WorkerHears(line))
    \/ WorkerLooks \/ WorkerPosts \/ WorkerConfirms \/ WorkerIsRefused
    \/ WorkerFails

Next ==
    \/ HumanWrites \/ WorkerStep \/ PauseEnds \/ Restart
    \/ \E m \in Ids :
          \/ BridgePosts(m) \/ BridgeGivesUp(m)
          \/ AnswersAtOnce(m) \/ Waits(m)
          \/ HandlerStep(m) \/ HandlerDies(m)
          \/ WorkerTakes(m) \/ SlotAges(m)

Spec == Init /\ [][Next]_vars

-----------------------------------------------------------------------------
(* Properties *)

TypeOK ==
    /\ rows \in Seq([by : AllKinds \cup {"reply", "followup", "notice"},
                     src : Ids \cup {0}, text : Replies])
    /\ done \subseteq Ids /\ fence \in Ids \cup {0}
    /\ inbound \in [Ids -> {"none", "processing", "stale", "completed"}]
    /\ answer \in [Ids -> [status : {"none", "ignored", "failed", "canceled",
                                     "succeeded"}, text : Replies]]
    /\ pc \in [Ids -> {"idle", "stopping", "stopped", "barrier", "lock",
                      "session", "model", "clear"}]
    /\ out \in [Ids -> Replies] /\ seen \in [Ids -> SUBSET Replies]
    /\ lock \in Ids \cup {Nobody, Worker}
    /\ slots \in [Ids -> {"none", "recent", "old"}] /\ paused \in BOOLEAN
    /\ listener \in [observed : Ids \cup {0}, reply : Ids \cup {0},
                    turns : 0..Cardinality(Ids)]
    /\ timeline \subseteq [id : Ids, text : Replies]
    /\ followup \in [Ids -> [status : {"none", "prepared", "sending", "confirmed",
                                       "uncertain", "suppressed", "failed"},
                             main : Replies, text : Replies]]
    /\ worker \in [pc : {"idle", "generate", "lock", "model", "look", "post",
                         "posted"}, id : Ids \cup {0}, sent : BOOLEAN]
    /\ calls \in [Ids -> Nat] /\ crashes \in Nat

\* The execution lock is held by the one that is at the model.
LockIsOwned ==
    /\ \A m \in Ids : pc[m] \in {"session", "model", "clear"} <=> lock = m
    /\ worker.pc = "model" <=> lock = Worker

\* A message has a handler only while the ledger says it is processed, and a
\* response exactly when it says it is completed.
LedgerIsTrue ==
    \A m \in Ids : /\ pc[m] # "idle" => inbound[m] = "processing"
                   /\ answer[m].status # "none" <=> inbound[m] = "completed"

\* The bot has given this line as its answer to the message, or the Chat API
\* has confirmed it as the second thought about it.
WasSaid(m, text) ==
    \/ answer[m].status \notin {"none", "ignored"} /\ answer[m].text = text
    \/ followup[m].status = "confirmed" /\ followup[m].text = text

\* What the timeline has as the bot's own lines was said, and counts as said
\* only then: a reply kept back for a repetition or a stop's silence, or a
\* followup not confirmed, is not held against the next turn.
OwnLinesWereSaid == \A e \in timeline : WasSaid(e.id, e.text)

\* The listener's last reply is to a message that the bot has answered, and
\* it counts only messages that came in, each once: a message taken up again
\* after a restart does not bring the bot's next word nearer.
ListenerIsTrue ==
    /\ listener.reply # 0 => \E text \in Replies : WasSaid(listener.reply, text)
    /\ listener.reply <= listener.observed
    /\ listener.turns <=
          Cardinality({m \in Messages : Passive(m) /\ inbound[m] # "none"})

\* TypeOK and what ties the ledger, the lock, the listener and the timeline.
TurnInv ==
    TypeOK /\ LockIsOwned /\ LedgerIsTrue /\ OwnLinesWereSaid /\ ListenerIsTrue

\* "Ten quiet minutes": from a confirmed stop to the end of its pause the
\* bot says nothing to those who did not speak to it. Turns that waited for
\* the lock or the model when the stop came, followups already in flight and
\* messages taken up again after a restart are no exception.
QuietMeansQuiet ==
    [][paused => \A i \in DOMAIN rows' \ DOMAIN rows :
          rows'[i].by \in {"reply", "followup"} => Kind(rows'[i].src) # "chat"]_vars

\* The model is asked about an unaddressed message once at most, however
\* often it is posted and the Adapter restarted (claim_group_participation:
\* "bound passive attempts across retries/restarts").
PassiveAskedOnce ==
    participating => \A m \in Messages : Kind(m) = "chat" => calls[m] <= 1

\* A followup is said once, restart or not, and it comes second: the bot said
\* the first reply, and nobody had written between the message and that.
FollowupsComeSecond ==
    \A i \in DOMAIN rows : rows[i].by = "followup" =>
        /\ \A j \in DOMAIN rows :
              rows[j].by = "followup" /\ rows[j].src = rows[i].src => j = i
        /\ \E j \in (rows[i].src + 1)..(i - 1) :
              /\ rows[j].text = followup[rows[i].src].main
              /\ \A k \in (rows[i].src + 1)..j : ~Human(k)
=============================================================================
