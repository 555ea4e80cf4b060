-------------------------------- MODULE Tasks --------------------------------
(***************************************************************************)
(* A task of the Adapter from its queue to the group: the worker, Hermes   *)
(* runs with their idempotency keys, the commands that cancel, modify and  *)
(* retry it (each behind a barrier at the Chat API), the room stop, and    *)
(* the outbox with the Chat API's ledger behind it. `release` is "tasks"   *)
(* until a restart puts the chat-only release in place, which quarantines  *)
(* everything (store.py, quarantine_legacy_runtime).                       *)
(*                                                                         *)
(* One task of one room: its own messages, its generations, its items. The *)
(* bridge sends commands one at a time, and a stop ahead of them. What     *)
(* lies between two awaits of the event loop is one action.                *)
(***************************************************************************)
EXTENDS Integers, SequencesExt

CONSTANTS
    MaxGeneration,        \* bound on revisions and retries
    max_attempts,         \* runs a generation may take (max_task_attempts)
    MAX_DELIVERY_ATTEMPTS,
    Orders,               \* what people may ask for, as sequences of commands
    MaxFaults             \* bound on restarts, failures and lost responses

Commands == {"cancel", "modify", "retry", "media", "stop"}

ASSUME TaskConstants ==
    /\ MaxGeneration \in Nat \ {0} /\ max_attempts \in Nat \ {0}
    /\ MAX_DELIVERY_ATTEMPTS \in Nat \ {0}
    /\ Orders \subseteq Seq(Commands) /\ MaxFaults \in Nat

Generations == 1..MaxGeneration
RunKeys == Generations \X (1..max_attempts)  \* generation and attempt
ItemKeys == Generations \X (1..2)            \* generation and item_index

Terminal == {"succeeded", "failed", "canceled"}
Settled == {"confirmed", "uncertain", "suppressed", "failed"}

\* A row of tasks: `run` is the attempt whose run it is bound to, `asked` is
\* question_count, `over` resource_error, `blocked` internal_state, `sent` and
\* `quiet` are final_sent and delivery_suppressed, kept for older readers.
\* `file`: artifacts has a file of the task's generation.
TaskRow == [status : {"queued", "running"} \cup Terminal,
            gen : Generations, run : 0..max_attempts, attempts : 0..max_attempts,
            cancel : BOOLEAN, over : BOOLEAN, blocked : BOOLEAN,
            asked : BOOLEAN, file : BOOLEAN, sent : BOOLEAN, quiet : BOOLEAN]

\* A row of outbox_items; its generation and index are its place.
ItemRow == [kind : {"media", "question", "summary"},
            state : {"prepared", "sending"} \cup Settled,
            tries : Nat]

\* queue_task: what create_task inserts
NewTask == [status |-> "queued", gen |-> 1, run |-> 0, attempts |-> 0,
            cancel |-> FALSE, over |-> FALSE, blocked |-> FALSE,
            asked |-> FALSE, file |-> FALSE, sent |-> FALSE, quiet |-> FALSE]

VARIABLES
    task,      \* the row of tasks
    outbox,    \* outbox_items of each generation
    release,   \* release_mode
    worker,    \* what the worker is at: a run or an item of a generation
    cmd, stop, \* the handlers of a command and of the room stop
    commands,  \* what people have asked for so far
    faults,    \* how much has gone wrong so far
    runs,      \* Hermes: the run of each idempotency key
    tools,     \* Hermes: the runs that have used tools
    lost,      \* history: generations with a run, or tools, nobody knows of
    posts,     \* requests on their way to the Chat API
    api,       \* Chat API: what became of each request id
    barred, stopped, textOnly,  \* Chat API: task, room and media barriers
    rows       \* the group: the items that became messages

taskVars == <<task, outbox, release>>
handlerVars == <<worker, cmd, stop, commands>>
hermesVars == <<runs, tools, lost>>
apiVars == <<posts, api, barred, stopped, textOnly, rows>>
vars == <<taskVars, handlerVars, faults, hermesVars, apiVars>>

Idle == [pc |-> "idle", gen |-> 0, n |-> 0]
NoCommand == [op |-> "none", pc |-> "idle", gen |-> 0, run |-> 0]
Item(kind) == [kind |-> kind, state |-> "prepared", tries |-> 0]

Init ==
    /\ task = NewTask
    /\ outbox = [g \in Generations |-> <<>>] /\ release = "tasks"
    /\ worker = Idle /\ cmd = NoCommand /\ stop = "none"
    /\ commands = <<>> /\ faults = 0
    /\ runs = [k \in RunKeys |-> "none"] /\ tools = {} /\ lost = {}
    /\ posts = {} /\ api = [k \in ItemKeys |-> "none"]
    /\ barred = {} /\ stopped = FALSE /\ textOnly = FALSE /\ rows = {}

\* Something fails that need not fail.
Fault == faults < MaxFaults /\ faults' = faults + 1
NoFault == UNCHANGED faults

-----------------------------------------------------------------------------
(* The outbox table *)

\* _sync_delivery_compat: whichever generation g is, the task's columns
\* follow its items.
Sync(t, ob, g) ==
    LET items == ob[g]
        has(s) == \E i \in DOMAIN items : items[i].state \in s
        summary == {i \in DOMAIN items : items[i].kind = "summary"} IN
    IF items = <<>> THEN t ELSE
    [t EXCEPT !.sent = \/ \E i \in summary : items[i].state = "confirmed"
                       \/ summary = {} /\ ~has({"prepared", "sending"}),
              !.quiet = has({"suppressed", "uncertain"})]

Move(items, from, to) == [i \in DOMAIN items |->
    IF items[i].state = from THEN [items[i] EXCEPT !.state = to] ELSE items[i]]

\* The update that every command and timeout makes.
Withdrawn(ob, g) == [ob EXCEPT ![g] = Move(@, "prepared", "suppressed")]

HasSummary(items) == \E i \in DOMAIN items : items[i].kind = "summary"

\* prepare_outbox: the items once, and a summary after whatever is there.
Prepared(ob, g, media) == [ob EXCEPT ![g] =
    IF HasSummary(@) THEN @
    ELSE (IF @ = <<>> /\ media THEN <<Item("media")>> ELSE @)
         \o <<Item("summary")>>]

\* mark_outbox_state
Mark(k, state) ==
    /\ outbox' = [outbox EXCEPT ![k[1]][k[2]].state = state]
    /\ task' = Sync(task, outbox', k[1])

-----------------------------------------------------------------------------
(* The row of the task *)

\* complete, of a run of generation g: a cancel request wins.
Completed(t, g, status) ==
    IF t.gen # g \/ t.status \in Terminal THEN t
    ELSE [t EXCEPT !.status = IF t.cancel /\ ~t.over THEN "canceled" ELSE status]

\* retry_after_failure
Retried(t, g) ==
    IF t.gen # g THEN t
    ELSE [t EXCEPT !.run = 0, !.status =
            IF t.cancel THEN "canceled"
            ELSE IF t.attempts < max_attempts THEN "queued" ELSE "failed"]

\* Faulty variant: the attempt counts although its run may exist.
RequeuedAnew(t) ==
    IF t.status = "running" /\ t.run = 0
      THEN [t EXCEPT !.status = "queued"] ELSE t

\* recover and requeue_uncertain_run_creation: the attempt is taken back, so
\* that the next one has the same idempotency key.
Requeued(t) ==
    IF t.status = "running" /\ t.run = 0
      THEN [t EXCEPT !.status = "queued",
                     !.attempts = IF @ > 0 THEN @ - 1 ELSE 0] ELSE t

\* A new generation, queued: retry_task, and revise_task of a task that ran.
NextGeneration(t) ==
    [t EXCEPT !.status = "queued", !.gen = @ + 1, !.run = 0, !.attempts = 0,
              !.cancel = FALSE, !.over = FALSE, !.blocked = FALSE, !.file = FALSE,
              !.sent = FALSE, !.quiet = FALSE]

\* prepare_task_outbox: whether there is media to send. A file that has
\* changed since it was registered is not verified any more.
Deliverable(t) == {m \in BOOLEAN : m => t.status = "succeeded" /\ t.file}

\* finish(): the worker completes the task t and prepares its outbox; or the
\* process dies between the two.
Finish(t, status) ==
    LET t2 == Completed(t, t.gen, status) IN
    \/ /\ \E media \in Deliverable(t2) : outbox' = Prepared(outbox, t2.gen, media)
       /\ task' = Sync(t2, outbox', t2.gen) /\ worker' = Idle
    \/ /\ faults < MaxFaults /\ task' = t2
       /\ worker' = [Idle EXCEPT !.pc = "dead"] /\ UNCHANGED outbox

Superseded == task.gen # worker.gen
Drop == worker' = Idle /\ UNCHANGED <<task, outbox>>
FinishOwn(status) ==
    IF Superseded \/ task.status \in Terminal THEN Drop ELSE Finish(task, status)

\* The retry of a task whose run failed; one that has failed for good is
\* told about at once.
RetryOwn ==
    LET t == Retried(task, worker.gen) IN
    /\ outbox' = IF ~Superseded /\ t.status = "failed"
                   THEN Prepared(outbox, t.gen, FALSE) ELSE outbox
    /\ task' = IF outbox' = outbox THEN t ELSE Sync(t, outbox', t.gen)
    /\ worker' = Idle

-----------------------------------------------------------------------------
(* Hermes *)

RunKey == <<worker.gen, worker.n>>
StoppedRun(k) == [runs EXCEPT ![k] = IF @ = "active" THEN "canceled" ELSE @]

\* stop_run, where it does not matter whether Hermes listens
StopRun(k) ==
    \/ NoFault /\ runs' = IF k \in RunKeys THEN StoppedRun(k) ELSE runs
    \/ Fault /\ UNCHANGED runs

StopRunOrNot(k) ==
    runs' \in {runs} \cup {StoppedRun(i) : i \in {k} \cap RunKeys}

HermesUnchanged == UNCHANGED <<tools, lost>>

HermesCreates(k) ==
    /\ runs[k] = "asked" /\ runs' = [runs EXCEPT ![k] = "active"]
    /\ HermesUnchanged /\ UNCHANGED <<taskVars, handlerVars, faults, apiVars>>

\* register_artifact: a running task that was not canceled gets the file,
\* under the generation it has now, whichever run of its asks.
Registered ==
    IF task.status = "running" /\ ~task.cancel THEN [task EXCEPT !.file = TRUE]
                                               ELSE task

HermesUsesTools(k) ==
    /\ runs[k] = "active" /\ k \notin tools /\ tools' = tools \cup {k}
    /\ task' \in {task, Registered}
    /\ UNCHANGED <<runs, lost, outbox, release, handlerVars, faults, apiVars>>

HermesEnds(k) ==
    /\ runs[k] = "active"
    /\ \/ NoFault /\ runs' = [runs EXCEPT ![k] = "done"]
       \/ Fault /\ \E end \in {"failed", "missing"} :
                      runs' = [runs EXCEPT ![k] = end]
    /\ HermesUnchanged /\ UNCHANGED <<taskVars, handlerVars, apiVars>>

-----------------------------------------------------------------------------
(* The Chat API and the group *)

KindOf(k) == outbox[k[1]][k[2]].kind
Blocked(k) ==
    stopped \/ k[1] \in barred \/ (textOnly /\ KindOf(k) = "media")

\* The barrier is looked at again just before Return is pressed.
HeldBack(k) ==
    /\ Blocked(k) /\ api' = [api EXCEPT ![k] = "suppressed"]
    /\ UNCHANGED rows /\ NoFault

\* Found in the group by its text or its fingerprint
Submitted(k) ==
    /\ api' = [api EXCEPT ![k] = "sent"] /\ rows' = rows \cup {k} /\ NoFault

\* An image whose re-encoded copy cannot be told was not sent, for certain.
NotSubmitted(k) ==
    /\ KindOf(k) = "media" /\ api' = [api EXCEPT ![k] = "failed"]
    /\ UNCHANGED rows /\ Fault

\* A download or a keystroke failed, or the group does not show it in time.
NotFound(k) ==
    /\ api' = [api EXCEPT ![k] = "uncertain"]
    /\ rows' \in {rows, rows \cup {k}} /\ Fault

Submit(k) ==
    \/ HeldBack(k)
    \/ ~Blocked(k) /\ (Submitted(k) \/ NotSubmitted(k) \/ NotFound(k))

\* The ledger entry once the group has been searched for an uncertain one.
Searched == [k \in ItemKeys |->
    IF api[k] = "uncertain" /\ k \in rows THEN "sent" ELSE api[k]]

\* A request id that was sent, or may have been, is not submitted again.
ApiHandles(k) ==
    /\ k \in posts /\ posts' = posts \ {k}
    /\ IF api[k] \in {"sent", "uncertain"}
         THEN api' = [api EXCEPT ![k] = Searched[k]] /\ UNCHANGED rows /\ NoFault
         ELSE Submit(k)
    /\ UNCHANGED <<taskVars, handlerVars, hermesVars, barred, stopped, textOnly>>

-----------------------------------------------------------------------------
(* The worker: blocked tasks, terminal tasks and the outbox *)

WorkerIdle == worker.pc = "idle" /\ release = "tasks"

\* expire_blocked_tasks: 24 hours have passed without an answer.
ExpireBlocked ==
    LET ob == Prepared(Withdrawn(outbox, task.gen), task.gen, FALSE) IN
    /\ WorkerIdle /\ task.status = "queued" /\ task.blocked
    /\ outbox' = ob
    /\ task' = Sync([task EXCEPT !.status = "failed", !.blocked = FALSE],
                    ob, task.gen)
    /\ UNCHANGED <<release, handlerVars, faults, hermesVars, apiVars>>

\* next_terminal_without_outbox and prepare_task_outbox
Unprepared == task.status \in Terminal /\ ~HasSummary(outbox[task.gen])

PrepareTerminal ==
    /\ WorkerIdle /\ Unprepared
    /\ \E media \in Deliverable(task) : outbox' = Prepared(outbox, task.gen, media)
    /\ task' = Sync(task, outbox', task.gen)
    /\ UNCHANGED <<release, handlerVars, faults, hermesVars, apiVars>>

\* next_outbox: in order within a generation; texts are tried so often.
Ready == {k \in ItemKeys :
    LET items == outbox[k[1]] IN
    /\ k[2] \in DOMAIN items /\ items[k[2]].state = "prepared"
    /\ items[k[2]].kind # "media" => items[k[2]].tries < MAX_DELIVERY_ATTEMPTS
    /\ \A j \in 1..(k[2] - 1) : items[j].state \in Settled}

\* validate_media_path: the file is gone, has moved or is not what was
\* registered.
FileIsWrong(k) == KindOf(k) = "media" /\ Fault

\* deliver_outbox_item up to its question to the Chat API: an obsolete item is
\* withdrawn.
DeliverBegins(k) ==
    /\ WorkerIdle /\ ~Unprepared /\ k \in Ready
    /\ \/ /\ task.gen # k[1] /\ Mark(k, "suppressed")
          /\ UNCHANGED worker /\ NoFault
       \/ /\ task.gen = k[1] /\ FileIsWrong(k) /\ Mark(k, "failed")
          /\ UNCHANGED worker
       \/ /\ task.gen = k[1] /\ NoFault
          /\ worker' = [pc |-> "check", gen |-> k[1], n |-> k[2]]
          /\ UNCHANGED <<task, outbox>>
    /\ UNCHANGED <<release, cmd, stop, commands, hermesVars, apiVars>>

ItemKey == <<worker.gen, worker.n>>
Current == outbox[worker.gen][worker.n]

\* GET /control/barrier
Allowed == ~Blocked(ItemKey)

\* mark_outbox_sending
Sending(item) == [item EXCEPT !.state = "sending", !.tries = @ + 1]

\* POST of a text, an image, a video or a file, under the key of its item
Post == posts' = posts \cup {ItemKey}

\* The answer is there. The item is taken only if it is still prepared.
DeliverChecks ==
    /\ worker.pc = "check"
    /\ \/ Fault /\ Drop /\ UNCHANGED posts              \* no answer
       \/ /\ ~Allowed /\ Mark(ItemKey, "suppressed")
          /\ worker' = Idle /\ UNCHANGED posts /\ NoFault
       \/ /\ Allowed /\ Current.state # "prepared"
          /\ Drop /\ UNCHANGED posts /\ NoFault
       \/ /\ Allowed /\ Current.state = "prepared" /\ NoFault /\ Post
          /\ outbox' = [outbox EXCEPT ![worker.gen][worker.n] = Sending(@)]
          /\ task' = Sync(task, outbox', worker.gen)
          /\ worker' = [worker EXCEPT !.pc = "posted"]
    /\ UNCHANGED <<release, cmd, stop, commands, hermesVars, api,
                   barred, stopped, textOnly, rows>>

\* Faulty variant: an uncertain answer is good enough.
VerdictTrusting(k) ==
    CASE Searched[k] \in {"sent", "uncertain"} -> "confirmed"
      [] api[k] = "suppressed"                 -> "suppressed"
      [] OTHER                                 -> "uncertain"

\* probe_delivery_confirmation: what /delivery/status says of a request, as
\* the state of its item.
Verdict(k) ==
    CASE Searched[k] = "sent"  -> "confirmed"
      [] api[k] = "suppressed" -> "suppressed"
      [] OTHER                 -> "uncertain"

Deliver(state) ==
    /\ Mark(ItemKey, state) /\ worker' = Idle
    /\ UNCHANGED <<release, cmd, stop, commands, hermesVars, barred, stopped,
                   textOnly, rows>>

DeliverHears ==
    /\ worker.pc = "posted" /\ ItemKey \notin posts
    /\ api[ItemKey] \in {"sent", "suppressed"}
    /\ Deliver(Verdict(ItemKey)) /\ UNCHANGED <<posts, api>> /\ NoFault

\* The connection failed: nothing was submitted. Texts are tried again.
DeliverNotPosted ==
    /\ worker.pc = "posted" /\ ItemKey \in posts /\ posts' = posts \ {ItemKey}
    /\ Deliver(IF Current.kind # "media" /\ Current.tries < MAX_DELIVERY_ATTEMPTS
                 THEN "prepared" ELSE "failed")
    /\ UNCHANGED api /\ Fault

\* Any other error, and an uncertain answer: the Chat API is asked about it.
DeliverAsks ==
    /\ worker.pc = "posted" /\ worker' = [worker EXCEPT !.pc = "probe"]
    /\ IF api[ItemKey] \in {"uncertain", "failed"} /\ ItemKey \notin posts
         THEN NoFault ELSE Fault
    /\ UNCHANGED <<taskVars, cmd, stop, commands, hermesVars, apiVars>>

\* settle_submitted_outbox
DeliverProbes ==
    /\ worker.pc = "probe" /\ UNCHANGED posts
    /\ \/ NoFault /\ Deliver(Verdict(ItemKey)) /\ api' = [api EXCEPT ![ItemKey] = Searched[ItemKey]]
       \/ Fault /\ Deliver("uncertain") /\ UNCHANGED api

-----------------------------------------------------------------------------
(* The worker: runs *)

WorkerOnly == UNCHANGED <<release, cmd, stop, commands, apiVars>>

\* claim_next: a run that is under way first. Its caller refuses at once a
\* task that was canceled, or has no budget or time left.
Recovering == task.status = "running" /\ task.run # 0
Claimable == task.status = "queued" /\ ~task.blocked

Claimed ==
    IF Recovering THEN task
    ELSE [task EXCEPT !.status = "running", !.attempts = @ + 1, !.over = FALSE]

Claim ==
    /\ WorkerIdle /\ ~Unprepared /\ Ready = {} /\ (Recovering \/ Claimable)
    /\ \/ /\ Finish(Claimed, "failed") /\ Fault
          /\ StopRunOrNot(<<task.gen, task.run>>)
       \/ Claimed.cancel /\ Finish(Claimed, "canceled") /\ UNCHANGED runs /\ NoFault
       \/ /\ ~Claimed.cancel /\ task' = Claimed /\ NoFault
          /\ worker' = [pc |-> IF Recovering THEN "wait" ELSE "start",
                        gen |-> task.gen,
                        n |-> IF Recovering THEN task.run ELSE Claimed.attempts]
          /\ UNCHANGED <<outbox, runs>>
    /\ HermesUnchanged /\ WorkerOnly

\* start_run: a POST with the idempotency key of generation and attempt
StartPosts ==
    /\ worker.pc = "start" /\ worker' = [worker EXCEPT !.pc = "created"]
    /\ runs' = [runs EXCEPT ![RunKey] = IF @ = "none" THEN "asked" ELSE @]
    /\ HermesUnchanged /\ UNCHANGED <<task, outbox>> /\ WorkerOnly /\ NoFault

\* Hermes refuses, before or at the POST: the next attempt has another key.
\* A run that an earlier POST of this key created is left alone.
StartRefused ==
    /\ worker.pc \in {"start", "created"} /\ RetryOwn
    /\ runs' = IF worker.pc = "created"
                 THEN [runs EXCEPT ![RunKey] = IF @ = "asked" THEN "none" ELSE @]
                 ELSE runs
    /\ lost' = IF runs'[RunKey] = "none" THEN lost ELSE lost \cup {worker.gen}
    /\ UNCHANGED tools /\ WorkerOnly /\ Fault

\* The response is lost: requeue_uncertain_run_creation
StartUncertain ==
    /\ worker.pc = "created"
    /\ task' = IF Superseded THEN task ELSE Requeued(task)
    /\ worker' = Idle /\ UNCHANGED <<outbox, hermesVars>> /\ WorkerOnly /\ Fault

\* The response is there: set_run_id, unless the task was canceled or revised
\* meanwhile; then the run is stopped, if Hermes listens. If it cannot be
\* reached for that, the worker takes it for a failed start.
StartAnswered ==
    /\ worker.pc = "created" /\ runs[RunKey] \notin {"none", "asked"}
    /\ \/ /\ ~Superseded /\ ~task.cancel
          /\ task' = [task EXCEPT !.run = worker.n]
          /\ worker' = [worker EXCEPT !.pc = "wait"]
          /\ UNCHANGED <<outbox, runs>> /\ NoFault
       \/ /\ Superseded \/ task.cancel
          /\ \/ StopRun(RunKey) /\ FinishOwn("canceled")
             \/ StopRunOrNot(RunKey) /\ RetryOwn /\ Fault
    /\ HermesUnchanged /\ WorkerOnly

\* add_tool_event: what the run does reaches the Adapter as events.
ToolsKnown == RunKey \in tools

\* set_resource_error, at one tool call too many: not tied to a generation.
OverLimit ==
    /\ worker.pc = "wait" /\ ToolsKnown /\ ~task.over
    /\ task' = [task EXCEPT !.over = TRUE, !.cancel = TRUE]
    /\ StopRun(RunKey)
    /\ UNCHANGED <<outbox, worker>> /\ HermesUnchanged /\ WorkerOnly

\* wait_run's watch_cancellation
CancelWatch ==
    /\ worker.pc = "wait" /\ task.cancel /\ runs[RunKey] = "active"
    /\ runs' = StoppedRun(RunKey)
    /\ UNCHANGED <<task, outbox, worker>> /\ HermesUnchanged /\ WorkerOnly /\ NoFault

\* block_on_input: the question is the generation's first item. The task may
\* have been canceled meanwhile.
Question ==
    /\ outbox' = [outbox EXCEPT ![task.gen] =
                    IF @ = <<>> THEN <<Item("question")>> ELSE @]
    /\ task' = Sync([task EXCEPT !.status = "queued", !.blocked = TRUE,
                                 !.run = 0, !.asked = TRUE], outbox', task.gen)
    /\ worker' = Idle

\* verify_completion: the evidence is enough, is not, or something is missing.
Judge ==
    \/ \E status \in {"succeeded", "failed"} : FinishOwn(status)
    \/ IF task.asked THEN FinishOwn("failed")
       ELSE IF Superseded THEN Drop ELSE Question

\* The run has ended: execute_task after wait_run
WaitEnds ==
    /\ worker.pc = "wait" /\ runs[RunKey] \in {"done", "failed", "canceled"}
    /\ IF Superseded THEN Drop
       ELSE IF task.over THEN FinishOwn("failed")
       ELSE IF task.cancel \/ runs[RunKey] = "canceled" THEN FinishOwn("canceled")
       ELSE IF runs[RunKey] = "failed"
         THEN IF ToolsKnown THEN FinishOwn("failed") ELSE RetryOwn
       ELSE \/ Judge
            \/ worker' = [worker EXCEPT !.pc = "repair"] /\ UNCHANGED <<task, outbox>>
    /\ UNCHANGED hermesVars /\ WorkerOnly /\ NoFault

\* A failed run whose tool events are lost: its streams broke, and its status
\* does not list them: no fault beyond its own. It is retried like one that
\* did nothing.
WaitEndsUnaware ==
    /\ worker.pc = "wait" /\ runs[RunKey] = "failed" /\ ToolsKnown
    /\ ~Superseded /\ ~task.over /\ ~task.cancel /\ RetryOwn
    /\ lost' = lost \cup {worker.gen}
    /\ UNCHANGED <<runs, tools>> /\ WorkerOnly /\ NoFault

\* repair_research_citations has answered: judged again.
RepairEnds ==
    /\ worker.pc = "repair" /\ Judge /\ UNCHANGED hermesVars /\ WorkerOnly /\ NoFault

\* Hermes cannot be reached, or the delivery bundle cannot be written:
\* defer_run_recovery, also of a task that was completed just now.
WaitBreaks ==
    /\ worker.pc \in {"wait", "repair"} /\ Drop
    /\ UNCHANGED hermesVars /\ WorkerOnly /\ Fault

\* 404: the run is gone.
WaitMissing ==
    /\ worker.pc = "wait" /\ runs[RunKey] = "missing" /\ RetryOwn
    /\ lost' = lost \cup {worker.gen}
    /\ UNCHANGED <<runs, tools>> /\ WorkerOnly /\ NoFault

\* max_task_seconds have passed; the run is stopped, if Hermes listens.
WaitTimesOut ==
    /\ worker.pc = "wait" /\ FinishOwn("failed") /\ Fault /\ StopRunOrNot(RunKey)
    /\ HermesUnchanged /\ WorkerOnly

-----------------------------------------------------------------------------
(* Commands *)

Alive == worker.pc # "dead"

\* cancel_task, and cancel_room_tasks of the rows it selects
Canceled(t, ob) ==
    LET active == t.status \in {"queued", "running"} IN
    Sync([t EXCEPT !.status = IF @ = "queued" THEN "canceled" ELSE @,
                   !.cancel = @ \/ active \/ ~t.sent,
                   !.quiet = @ \/ active \/ ~t.sent], ob, t.gen)

CancelTask ==
    /\ outbox' = Withdrawn(outbox, task.gen) /\ task' = Canceled(task, outbox')

\* Whether revise_task starts a new generation.
Rotates == task.status \in Terminal \cup {"running"} \/ task.blocked

Revise ==
    IF Rotates
      THEN /\ outbox' = Withdrawn(outbox, task.gen)
           /\ task' = NextGeneration(task)
      ELSE /\ task' = [task EXCEPT !.blocked = FALSE, !.cancel = FALSE]
           /\ UNCHANGED outbox

Retry ==
    IF task.status \in {"failed", "canceled"}
      THEN /\ outbox' = Withdrawn(outbox, task.gen)
           /\ task' = NextGeneration(task)
      ELSE UNCHANGED <<task, outbox>>

\* suppress_room_media: of any generation
MediaWithdrawn == [g \in Generations |-> [i \in DOMAIN outbox[g] |->
    IF outbox[g][i].kind = "media" /\ outbox[g][i].state = "prepared"
      THEN [outbox[g][i] EXCEPT !.state = "suppressed"] ELSE outbox[g][i]]]

SuppressMedia ==
    /\ outbox' = MediaWithdrawn
    /\ LET affected == {g \in Generations : outbox'[g] # outbox[g]} IN
       IF affected = {} THEN UNCHANGED task
       ELSE \E g \in affected : task' = Sync(task, outbox', g)

Asked(op) == \E order \in Orders : IsPrefix(Append(commands, op), order)

\* The chat-only release takes part in "cancel" and "media" only. A task that
\* waits in the queue is revised without a barrier, and at once.
MayCommand(op) ==
    /\ Alive /\ cmd = NoCommand /\ Asked(op) /\ op # "stop"
    /\ op \in {"modify", "retry"} =>
          release = "tasks" /\ task.gen < MaxGeneration
    /\ op = "retry" => task.status \in {"failed", "canceled"}

\* Faulty variant: only a running task is kept back by a barrier.
NeedsBarrierIfRunning(op) == op = "modify" => task.status = "running"

NeedsBarrier(op) == op = "modify" => Rotates

CommandBegins(op) ==
    /\ MayCommand(op) /\ commands' = Append(commands, op)
    /\ IF NeedsBarrier(op)
         THEN /\ cmd' = [op |-> op, pc |-> "barrier", gen |-> task.gen,
                         run |-> IF task.status = "running" THEN task.run ELSE 0]
              /\ UNCHANGED <<task, outbox>>
         ELSE Revise /\ UNCHANGED cmd
    /\ UNCHANGED <<release, worker, stop, faults, hermesVars, apiVars>>

\* POST /control/barriers takes effect.
CommandBars ==
    /\ cmd.pc = "barrier" /\ cmd' = [cmd EXCEPT !.pc = "barred"]
    /\ IF cmd.op = "media" THEN textOnly' = TRUE /\ UNCHANGED barred
                           ELSE barred' = barred \cup {cmd.gen} /\ UNCHANGED textOnly
    /\ UNCHANGED <<taskVars, worker, stop, commands, faults, hermesVars, posts,
                   api, stopped, rows>>

\* The POST fails, or its response is lost, or Hermes does not stop the run.
CommandFails ==
    /\ cmd.pc \in {"barrier", "barred"} /\ cmd' = NoCommand /\ Fault
    /\ UNCHANGED <<taskVars, worker, stop, commands, hermesVars, apiVars>>

\* A revision waits until the run of the old generation has been stopped.
CommandStopsRun ==
    /\ cmd.pc = "barred" /\ cmd.op = "modify" /\ cmd.run # 0
    /\ cmd' = [cmd EXCEPT !.pc = "stopped"]
    /\ runs' = StoppedRun(<<cmd.gen, cmd.run>>)
    /\ HermesUnchanged
    /\ UNCHANGED <<taskVars, worker, stop, commands, faults, apiVars>>

CommandActs ==
    /\ cmd.pc = "stopped" \/ (cmd.pc = "barred" /\ (cmd.op = "modify" => cmd.run = 0))
    /\ CASE cmd.op = "cancel" -> CancelTask /\ StopRun(<<cmd.gen, cmd.run>>)
         [] cmd.op = "modify" -> Revise /\ UNCHANGED <<runs, faults>>
         [] cmd.op = "retry"  -> Retry /\ UNCHANGED <<runs, faults>>
         [] cmd.op = "media"  -> SuppressMedia /\ UNCHANGED <<runs, faults>>
    /\ cmd' = NoCommand /\ HermesUnchanged
    /\ UNCHANGED <<release, worker, stop, commands, apiVars>>

\* The room stop: its barrier holds back everything the task has to say.
StopBars ==
    /\ Alive /\ stop # "barred" /\ Asked("stop")
    /\ stop' = "barred" /\ stopped' = TRUE /\ commands' = Append(commands, "stop")
    /\ UNCHANGED <<taskVars, worker, cmd, faults, hermesVars, posts,
                   api, barred, textOnly, rows>>

StopCancels ==
    /\ stop = "barred" /\ stop' = "none"
    /\ IF task.status \in Terminal /\ (task.sent \/ task.quiet)
         THEN UNCHANGED <<task, outbox>> ELSE CancelTask
    /\ IF task.status = "running" THEN StopRun(<<task.gen, task.run>>)
                                  ELSE UNCHANGED <<runs, faults>>
    /\ HermesUnchanged
    /\ UNCHANGED <<release, worker, cmd, commands, apiVars>>

StopFails ==
    /\ stop = "barred" /\ stop' = "none" /\ Fault
    /\ UNCHANGED <<taskVars, worker, cmd, commands, hermesVars, apiVars>>

-----------------------------------------------------------------------------
(* Restarts *)

ProcessRestarts ==
    /\ worker' = Idle /\ cmd' = NoCommand
    /\ stop' = "none"
    /\ UNCHANGED <<commands, apiVars>>

\* What reconcile_outbox_recovery may make of an item that was in flight: one
\* that was not submitted will be.
Reconciled(k) ==
    {"uncertain", IF api[k] \in {"none", "failed"} THEN "prepared" ELSE Verdict(k)}

InFlight == {k \in ItemKeys :
    k[2] \in DOMAIN outbox[k[1]] /\ outbox[k[1]][k[2]].state = "sending"}

\* reconcile_outbox_item
Reconcile(k) ==
    \E state \in Reconciled(k) :
        /\ outbox' = [outbox EXCEPT ![k[1]][k[2]].state = state]
        /\ task' = Sync(Requeued(task), outbox', k[1])

\* recover and reconcile_outbox_recovery: the start of the releases that ran
\* tasks. The lifespan of this commit does not call them any more, and goes to
\* CutOver.
Restart ==
    /\ release = "tasks" /\ ProcessRestarts /\ Fault
    /\ IF InFlight = {} THEN task' = Requeued(task) /\ UNCHANGED outbox
                       ELSE \E k \in InFlight : Reconcile(k)
    /\ UNCHANGED <<release, hermesVars>>

\* Faulty variant: only what was prepared is dealt with.
QuarantinedPrepared(ob) == [g \in Generations |-> Move(ob[g], "prepared", "suppressed")]

QuarantinedItems(ob) == [g \in Generations |->
    Move(Move(ob[g], "prepared", "suppressed"), "sending", "uncertain")]

\* quarantine_legacy_runtime
QuarantinedTask(t) ==
    LET active == t.status \in {"queued", "running"} IN
    [t EXCEPT !.status = IF active THEN "canceled" ELSE @,
              !.cancel = @ \/ active, !.quiet = @ \/ active \/ ~t.sent]

\* The process starts again as the chat-only release, once or more often.
CutOver ==
    /\ ProcessRestarts /\ Fault /\ release' = "chat"
    /\ outbox' = QuarantinedItems(outbox)
    /\ LET affected == {g \in Generations : outbox'[g] # outbox[g]}
           t == QuarantinedTask(task) IN
       IF affected = {} THEN task' = t
       ELSE \E g \in affected : task' = Sync(t, outbox', g)
    /\ IF task.status \in {"queued", "running"}
         THEN StopRunOrNot(<<task.gen, task.run>>) ELSE UNCHANGED runs
    /\ HermesUnchanged

-----------------------------------------------------------------------------
WorkerStep ==
    \/ ExpireBlocked \/ PrepareTerminal \/ Claim
    \/ (\E k \in ItemKeys : DeliverBegins(k))
    \/ DeliverChecks \/ DeliverHears \/ DeliverNotPosted
    \/ DeliverAsks \/ DeliverProbes
    \/ StartPosts \/ StartRefused \/ StartUncertain \/ StartAnswered
    \/ OverLimit \/ CancelWatch \/ WaitEnds \/ WaitEndsUnaware \/ RepairEnds
    \/ WaitBreaks \/ WaitMissing \/ WaitTimesOut

CommandStep ==
    \/ (\E op \in {"cancel", "modify", "retry", "media"} : CommandBegins(op))
    \/ CommandBars \/ CommandFails \/ CommandStopsRun \/ CommandActs
    \/ StopBars \/ StopCancels \/ StopFails

HermesStep ==
    \E k \in RunKeys : HermesCreates(k) \/ HermesUsesTools(k) \/ HermesEnds(k)

Next ==
    \/ WorkerStep \/ CommandStep \/ HermesStep
    \/ (\E k \in ItemKeys : ApiHandles(k))
    \/ Restart \/ CutOver

Spec == Init /\ [][Next]_vars

-----------------------------------------------------------------------------
(* Properties *)

TypeOK ==
    /\ task \in TaskRow /\ outbox \in [Generations -> Seq(ItemRow)]
    /\ release \in {"tasks", "chat"}
    /\ worker \in [pc : {"idle", "dead", "check", "posted", "probe", "start",
                       "created", "wait", "repair"},
                  gen : 0..MaxGeneration, n : Nat]
    /\ cmd \in [op : {"none", "cancel", "modify", "retry", "media"},
               pc : {"idle", "barrier", "barred", "stopped"},
               gen : 0..MaxGeneration, run : 0..max_attempts]
    /\ stop \in {"none", "barred"} /\ commands \in Seq(Commands)
    /\ runs \in [RunKeys -> {"none", "asked", "active", "done", "failed",
                             "canceled", "missing"}]
    /\ tools \subseteq RunKeys
    /\ lost \subseteq Generations
    /\ posts \subseteq ItemKeys /\ rows \subseteq ItemKeys
    /\ api \in [ItemKeys -> {"none", "sent", "suppressed", "failed", "uncertain"}]
    /\ barred \subseteq Generations

\* A generation says its last word once, after everything else.
SummaryComesLast ==
    \A g \in Generations : \A i \in DOMAIN outbox[g] :
        outbox[g][i].kind = "summary" =>
            i = Len(outbox[g])

\* What the outbox calls confirmed is in the group, and what it has not begun
\* to send, or was refused, is not unless a request is still out.
OutboxIsTrue ==
    \A g \in Generations : \A i \in DOMAIN outbox[g] :
        /\ outbox[g][i].state = "confirmed" => <<g, i>> \in rows
        /\ outbox[g][i].tries = 0 => <<g, i>> \notin posts \cup rows

\* What is in flight is the worker's, and a task said to be running without a
\* run is being started by it.
WorkIsOwned ==
    /\ \A k \in InFlight : worker.pc \in {"posted", "probe"} /\ k = ItemKey
    /\ task.status = "running" /\ task.run = 0 =>
          worker.pc \in {"start", "created"} /\ worker.gen = task.gen

TasksInv == TypeOK /\ SummaryComesLast /\ OutboxIsTrue /\ WorkIsOwned

\* "The old generation's result is not sent any more": whatever was on its
\* way when a task was revised or retried, after a crash or a lost response
\* too, no message of an older generation appears in the group.
OldGenerationsStayBack ==
    [][\A k \in rows' \ rows : k[1] = task.gen]_vars

\* Unless Hermes refused a key it had accepted before, forgot a run or lost
\* its events, the runs of a generation never work side by side, and none
\* follows one that has used tools.
RunsInTurn ==
    \A k, l \in RunKeys :
        k[1] = l[1] /\ k[1] \notin lost /\ k[2] < l[2]
            /\ runs[l] \notin {"none", "asked"} =>
        runs[k] \notin {"asked", "active"} /\ k \notin tools

\* After the cut-over nothing is left to be sent or run, no command brings it
\* back, and nothing is asked of the Chat API or of Hermes any more.
CutOverIsFinal ==
    [][release' = "chat" =>
         /\ task'.status \in Terminal
         /\ \A g \in Generations : \A i \in DOMAIN outbox'[g] :
               outbox'[g][i].state \in Settled
         /\ posts' \subseteq posts
         /\ \A k \in RunKeys : runs'[k] = "asked" => runs[k] = "asked"]_vars
=============================================================================
