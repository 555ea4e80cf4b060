----------------------- MODULE ChatSenderLedgerProofs -----------------------
(***************************************************************************)
(* Proofs about what ChatSender's ledger says: that its entries, in memory *)
(* and on disk, are true of the group, the stops and the presses, that     *)
(* callers are told no more than that, and that the sender therefore       *)
(* implements OutboundPromise. SenderInv (ChatSenderProofs) says how far   *)
(* each request has gone; LedgerInv adds what is written of it.            *)
(***************************************************************************)
EXTENDS ChatSenderRefinement, ChatSenderProofs

USE DEF Composing, Confirming, Holding, threadVars, ledgerVars, outerVars

-----------------------------------------------------------------------------
(* The inductive invariant *)

AskedFor(r, i) == \E k \in Calls : k.req = r /\ k.item = i

\* What an entry of request r says is so: it is of something that was asked
\* for; if sent, there is a row with its text that came after its attempt
\* began; if suppressed, a stop covers it and it never reached WeChat.
EntryHolds(r, e) ==
    /\ e.status # "none" => AskedFor(r, e.item)
    /\ e.status = "sent" =>
         /\ e.row \in 1..Len(rows) /\ e.row > e.baseline
         /\ rows[e.row].text = e.item.text /\ ~rows[e.row].late
    /\ e.status = "suppressed" => Blocked(e.item) /\ presses[r] = 0

LedgerHolds ==
    \A r \in Requests : EntryHolds(r, mem[r]) /\ EntryHolds(r, disk[r])

\* A save that failed may leave less on disk than in memory, but never a sent
\* entry that memory has not.
SentIsFinal ==
    \A r \in Requests : disk[r].status = "sent" => mem[r].status = "sent"

ConfirmingIsOpen ==
    \A c \in Threads : pc[c] \in Confirming =>
        /\ Entry(c).status \in {"sending", "uncertain"}
        /\ Entry(c).item = call[c].item

SentRepliesHold ==
    \A c \in Threads : pc[c] = "reply" /\ answer[c] = "sent" =>
        Entry(c).status = "sent" /\ Entry(c).item = call[c].item

Pressed(r, text) ==
    presses[r] # 0 /\ \E k \in Calls : k.req = r /\ k.item.text = text

\* Where messages come from: a Return pressed for a request, or a human.
RowIsFrom(row) ==
    \/ row.by = Human /\ [text |-> row.text, late |-> row.late] \in HumanCopies
    \/ row.by \in Requests /\ Pressed(row.by, row.text)

MessagesAreFrom ==
    /\ \A m \in inflight : Pressed(m.req, m.text)
    /\ \A i \in 1..Len(rows) : RowIsFrom(rows[i])

LedgerInv ==
    /\ SenderInv
    /\ MemoryIsDurable
    /\ LedgerHolds
    /\ SentIsFinal
    /\ ConfirmingIsOpen
    /\ SentRepliesHold
    /\ MessagesAreFrom

-----------------------------------------------------------------------------
(* Steps by what they do to the ledger *)

\* Thread c records entry e: a new attempt, or the outcome of one.
Recording(c, e) ==
    /\ pc[c] # "idle" /\ lock \in {c, Nobody}
    /\ mem' = [mem EXCEPT ![Req(c)] = e]
    /\ disk' \in {disk, mem'} /\ (stateOk' => disk' = mem')
    /\ UNCHANGED <<call, barrier, rows, inflight, presses>>
    /\ \/ /\ Entry(c).status \in {"none", "suppressed"}
          /\ e.status = "sending" /\ e.item = call[c].item
       \/ /\ Entry(c).status \in {"sending", "uncertain"}
          /\ e.item = Entry(c).item
          /\ \/ /\ e.status = "sent" /\ e.row \in Matches(Entry(c))
                /\ e.baseline = Entry(c).baseline
             \/ e.status = "uncertain"
             \/ e.status = "suppressed" /\ Blocked(e.item)
                /\ presses[Req(c)] = 0

LEMMA SettleRecords ==
    ASSUME NEW c, NEW e, NEW v, Settle(c, e, v)
    PROVE  stateOk' => disk' = mem'
  BY DEF Settle, SaveSucceeds, SaveFails

LEMMA SettlingRecords ==
    ASSUME SenderInv, ConfirmingIsOpen, NEW c \in Threads, Settling(c)
    PROVE  \E e \in Entries : Recording(c, e)
<1>1. pc[c] # "idle" /\ lock \in {c, Nobody} /\ Entry(c) \in Entries
  BY BusyEntry
  DEF Settling, Suppress, ConfirmFound, ConfirmTimeout, SenderInv,
      LocksAreOwned
<1>2. CASE Suppress(c)
  <2> DEFINE e == [Entry(c) EXCEPT !.status = "suppressed"]
  <2>1. e \in Entries /\ e.status = "suppressed" /\ e.item = Entry(c).item
    BY <1>1 DEF Entries, Statuses
  <2>2. /\ Entry(c).status = "sending" /\ Blocked(Entry(c).item)
        /\ presses[Req(c)] = 0
    BY <1>2 DEF Suppress, SenderInv, ComposingIsUnpressed, Entry
  <2>3. Settle(c, e, "suppressed")
        /\ UNCHANGED <<call, barrier, rows, inflight, presses>>
    BY <1>2 DEF Suppress
  <2> HIDE DEF e
  <2> QED
    BY <1>1, <2>1, <2>2, <2>3, SettleEffect, SettleRecords DEF Recording
<1>3. CASE ConfirmFound(c)
  <2> DEFINE e == [Entry(c) EXCEPT !.status = "sent",
                                   !.row = FirstMatch(Entry(c))]
  <2>1. FirstMatch(Entry(c)) \in Matches(Entry(c)) /\ FirstMatch(Entry(c)) \in Nat
    BY <1>1, <1>3, FirstMatchMatches DEF ConfirmFound, SenderInv
  <2>2. e \in Entries /\ e.status = "sent" /\ e.item = Entry(c).item
        /\ e.row = FirstMatch(Entry(c)) /\ e.baseline = Entry(c).baseline
    BY <1>1, <2>1 DEF Entries, Statuses
  <2>3. Entry(c).status \in {"sending", "uncertain"}
    BY <1>3 DEF ConfirmFound, ConfirmingIsOpen
  <2>4. Settle(c, e, "sent")
        /\ UNCHANGED <<call, barrier, rows, inflight, presses>>
    BY <1>3 DEF ConfirmFound
  <2> HIDE DEF e
  <2> QED
    BY <1>1, <2>1, <2>2, <2>3, <2>4, SettleEffect, SettleRecords
    DEF Recording
<1>4. CASE ConfirmTimeout(c)
  <2> DEFINE e == [Entry(c) EXCEPT !.status = "uncertain"]
  <2>1. e \in Entries /\ e.status = "uncertain" /\ e.item = Entry(c).item
    BY <1>1 DEF Entries, Statuses
  <2>2. Entry(c).status \in {"sending", "uncertain"}
    BY <1>4 DEF ConfirmTimeout, ConfirmingIsOpen
  <2>3. Settle(c, e, "uncertain")
        /\ UNCHANGED <<call, barrier, rows, inflight, presses>>
    BY <1>4 DEF ConfirmTimeout
  <2> HIDE DEF e
  <2> QED
    BY <1>1, <2>1, <2>2, <2>3, SettleEffect, SettleRecords DEF Recording
<1> QED
  BY <1>2, <1>3, <1>4 DEF Settling

LEMMA StatusScansRecords ==
    ASSUME SenderInv, NEW c \in Threads, StatusScans(c)
    PROVE  (\E e \in Entries : Recording(c, e)) \/ UNCHANGED ledgerVars
<1>1. /\ pc[c] # "idle" /\ lock = Nobody /\ Entry(c) \in Entries
      /\ Entry(c).status \in {"sending", "uncertain"}
      /\ UNCHANGED <<call, barrier, rows, inflight, presses>>
  BY BusyEntry DEF StatusScans
<1>2. CASE Matches(Entry(c)) = {}
  BY <1>2 DEF StatusScans
<1>3. CASE Matches(Entry(c)) # {}
  <2> DEFINE e == [Entry(c) EXCEPT !.status = "sent",
                                   !.row = FirstMatch(Entry(c))]
  <2>1. FirstMatch(Entry(c)) \in Matches(Entry(c)) /\ FirstMatch(Entry(c)) \in Nat
    BY <1>1, <1>3, FirstMatchMatches DEF SenderInv
  <2>2. e \in Entries /\ e.status = "sent" /\ e.item = Entry(c).item
        /\ e.row = FirstMatch(Entry(c)) /\ e.baseline = Entry(c).baseline
    BY <1>1, <2>1 DEF Entries, Statuses
  <2>3. Settle(c, e, "confirmed") \/ UNCHANGED ledgerVars
    BY <1>3 DEF StatusScans
  <2> HIDE DEF e
  <2> QED
    BY <1>1, <2>1, <2>2, <2>3, SettleEffect, SettleRecords DEF Recording
<1> QED
  BY <1>2, <1>3

LEMMA SendBeginsRecords ==
    ASSUME SenderInv, NEW c \in Threads, SendBegins(c)
    PROVE  \E e \in Entries : Recording(c, e)
<1>1. pc[c] = "send" /\ lock = Nobody
      /\ Entry(c).status \in {"none", "suppressed"}
  BY DEF SendBegins
<1>2. PICK e \in Entries : /\ e.status = "sending" /\ e.item = call[c].item
                           /\ mem' = [mem EXCEPT ![Req(c)] = e]
  BY SendBeginsEffect
<1>3. /\ disk' \in {disk, mem'} /\ (stateOk' => disk' = mem')
      /\ UNCHANGED <<call, barrier, rows, inflight, presses>>
  BY DEF SendBegins, SaveSucceeds, SaveFails
<1> QED
  BY <1>1, <1>2, <1>3 DEF Recording

\* A step records one entry, or starts the process again, or leaves the
\* ledger alone.
LEMMA LedgerSteps ==
    ASSUME SenderInv, ConfirmingIsOpen, [Next]_vars
    PROVE  \/ \E c \in Threads, e \in Entries : Recording(c, e)
           \/ Crash
           \/ UNCHANGED <<mem, disk, stateOk>>
<1>1. ASSUME NEW c \in Threads, Asking(c) \/ Answering(c) \/ Moving(c)
             \/ PressReturn(c)
      PROVE  UNCHANGED <<mem, disk, stateOk>>
  BY <1>1
  DEF Asking, CallSend, CallRefused, CallStatus, Respond,
      Answering, SendKnown, BaselineUnreadable, RefuseResend, ScanRaises,
      StatusKnown, Moving, SendAgain, PassCheck, TakeRoom, PassLastCheck,
      UIFails, PressReturn
<1>2. Outside \/ (\E b \in Barriers : Stopping(b)) \/ UNCHANGED vars
      => UNCHANGED <<mem, disk, stateOk>>
  BY DEF Outside, RowAppears, RowLost, HumanSends, ThirtySecondsPass,
         SelfCheck, Stopping, RequestBarrier, TakeRoomForBarrier,
         InsertBarrier, vars
<1>3. ASSUME NEW c \in Threads, StatusScans(c)
      PROVE  (\E e \in Entries : Recording(c, e))
             \/ UNCHANGED <<mem, disk, stateOk>>
  BY <1>3, StatusScansRecords
<1> QED
  BY <1>1, <1>2, <1>3, SettlingRecords, SendBeginsRecords, StepKinds

\* What an entry's truth depends on: rows are only added, a committed barrier
\* stays, and what is pressed is on record as being sent.
LEMMA RowsChange ==
    ASSUME [Next]_vars
    PROVE  UNCHANGED rows \/ RowAppears \/ HumanSends
<1>1. ASSUME NEW c \in Threads, Asking(c) \/ Answering(c) \/ Moving(c)
             \/ SendBegins(c) \/ PressReturn(c) \/ Settling(c)
             \/ StatusScans(c)
      PROVE  UNCHANGED rows
  BY <1>1
  DEF Asking, CallSend, CallRefused, CallStatus, Respond,
      Answering, SendKnown, BaselineUnreadable, RefuseResend, ScanRaises,
      StatusKnown, Moving, SendAgain, PassCheck, TakeRoom, PassLastCheck,
      UIFails, SendBegins, PressReturn, Settling, Suppress, ConfirmFound,
      ConfirmTimeout, StatusScans
<1>2. (\E b \in Barriers : Stopping(b)) \/ Crash \/ UNCHANGED vars
      => UNCHANGED rows
  BY DEF Stopping, RequestBarrier, TakeRoomForBarrier, InsertBarrier,
         Crash, vars
<1>3. Outside => UNCHANGED rows \/ RowAppears \/ HumanSends
  BY DEF Outside, RowLost, ThirtySecondsPass, SelfCheck
<1> QED
  BY <1>1, <1>2, <1>3, StepKinds

LEMMA RowsAreKept ==
    ASSUME SenderInv, [Next]_vars, NEW i \in 1..Len(rows)
    PROVE  i \in 1..Len(rows') /\ rows'[i] = rows[i]
<1>1. rows \in Seq([text : Texts, by : Requests \cup {Human},
                    late : BOOLEAN])
  BY DEF SenderInv, TypeOK, OuterTypes
<1>2. CASE UNCHANGED rows
  BY <1>2
<1>3. CASE RowAppears
  BY <1>1, <1>3 DEF RowAppears
<1>4. CASE HumanSends
  BY <1>1, <1>4 DEF HumanSends
<1> QED
  BY <1>2, <1>3, <1>4, RowsChange

LEMMA StopsAreKept ==
    ASSUME SenderInv, [Next]_vars, NEW b \in Barriers,
           barrier[b] = "committed"
    PROVE  barrier'[b] = "committed"
<1>1. barrier \in [Barriers -> {"idle", "waiting", "inserting", "committed",
                                "failed"}]
  BY DEF SenderInv, TypeOK, ThreadTypes
<1>2. CASE UNCHANGED barrier
  BY <1>2
<1>3. CASE Crash
  BY <1>1, <1>3 DEF Crash
<1>4. ASSUME NEW a \in Barriers, Stopping(a) PROVE barrier'[b] = "committed"
  BY <1>1, <1>4
  DEF Stopping, RequestBarrier, TakeRoomForBarrier, InsertBarrier
<1>5. ASSUME NEW c \in Threads, Asking(c) \/ Answering(c) \/ Moving(c)
             \/ SendBegins(c) \/ PressReturn(c) \/ Settling(c)
             \/ StatusScans(c)
      PROVE  UNCHANGED barrier
  BY <1>5
  DEF Asking, CallSend, CallRefused, CallStatus, Respond,
      Answering, SendKnown, BaselineUnreadable, RefuseResend, ScanRaises,
      StatusKnown, Moving, SendAgain, PassCheck, TakeRoom, PassLastCheck,
      UIFails, SendBegins, PressReturn, Settling, Suppress, ConfirmFound,
      ConfirmTimeout, StatusScans
<1>6. Outside \/ UNCHANGED vars => UNCHANGED barrier
  BY DEF Outside, RowAppears, RowLost, HumanSends, ThirtySecondsPass,
         SelfCheck, vars
<1> QED
  BY <1>2, <1>3, <1>4, <1>5, <1>6, StepKinds

LEMMA PressesAreOfSending ==
    ASSUME SenderInv, [Next]_vars, NEW r \in Requests,
           presses'[r] # presses[r]
    PROVE  /\ presses'[r] # 0
           /\ mem[r].status = "sending" /\ disk[r].status = "sending"
           /\ UNCHANGED <<mem, disk, rows, barrier>>
<1>1. PICK c \in Threads : PressReturn(c)
  BY DEF Next, Handle, Commit, CallSend, CallRefused, CallStatus, Respond,
         SendKnown, SendAgain, SendBegins, BaselineUnreadable, PassCheck,
         TakeRoom, PassLastCheck, Suppress, UIFails, ConfirmFound,
         ConfirmTimeout, RefuseResend, ScanRaises, StatusKnown, StatusScans,
         RequestBarrier, TakeRoomForBarrier, InsertBarrier, RowAppears,
         RowLost, HumanSends, ThirtySecondsPass, SelfCheck, Crash, vars
<1>2. /\ ComposingIsUnpressed /\ presses \in [Requests -> Nat]
      /\ Req(c) \in Requests
  BY <1>1, BusyEntry DEF PressReturn, SenderInv, TypeOK, OuterTypes
<1>3. Req(c) = r /\ presses'[r] = presses[r] + 1
  BY <1>1, <1>2 DEF PressReturn
<1>4. presses'[r] # 0
  BY <1>2, <1>3
<1> QED
  BY <1>1, <1>2, <1>3, <1>4 DEF PressReturn, ComposingIsUnpressed

-----------------------------------------------------------------------------
(* Each part of LedgerInv is preserved *)

LEMMA MemoryIsDurableStep ==
    ASSUME SenderInv, ConfirmingIsOpen, MemoryIsDurable, [Next]_vars
    PROVE  MemoryIsDurable'
<1>1. CASE \E c \in Threads, e \in Entries : Recording(c, e)
  BY <1>1 DEF Recording, MemoryIsDurable
<1>2. CASE Crash
  BY <1>2 DEF Crash, MemoryIsDurable
<1>3. CASE UNCHANGED <<mem, disk, stateOk>>
  BY <1>3 DEF MemoryIsDurable
<1> QED
  BY <1>1, <1>2, <1>3, LedgerSteps

\* EntryHolds in the next state, of an entry that is in this one.
StillHolds(r, e) ==
    /\ e.status # "none" => AskedFor(r, e.item)
    /\ e.status = "sent" =>
         /\ e.row \in 1..Len(rows') /\ e.row > e.baseline
         /\ rows'[e.row].text = e.item.text /\ ~rows'[e.row].late
    /\ e.status = "suppressed" =>
         /\ \E b \in Barriers : barrier'[b] = "committed"
                                /\ Blocks(BarrierOf[b], e.item)
         /\ presses'[r] = 0

LEMMA TruthIsKept ==
    ASSUME SenderInv, [Next]_vars, NEW r \in Requests, NEW e,
           EntryHolds(r, e),
           e.status = "suppressed" => presses'[r] = presses[r]
    PROVE  StillHolds(r, e)
<1>1. CASE e.status = "sent"
  BY <1>1, RowsAreKept DEF EntryHolds, StillHolds
<1>2. CASE e.status = "suppressed"
  BY <1>2, StopsAreKept DEF EntryHolds, StillHolds, Blocked
<1> QED
  BY <1>1, <1>2 DEF EntryHolds, StillHolds

\* What is recorded of a request is so.
LEMMA RecordedHolds ==
    ASSUME LedgerInv, NEW c \in Threads, NEW e \in Entries, Recording(c, e)
    PROVE  EntryHolds(Req(c), e)
<1>1. /\ Req(c) \in Requests /\ call[c] \in Calls
      /\ Entry(c) \in Entries /\ EntryHolds(Req(c), Entry(c))
  BY BusyEntry DEF LedgerInv, Recording, LedgerHolds, Entry
<1>2. AskedFor(Req(c), e.item)
  <2>1. CASE e.item = call[c].item
    BY <1>1, <2>1 DEF AskedFor, Req
  <2>2. CASE e.item = Entry(c).item /\ Entry(c).status # "none"
    BY <1>1, <2>2 DEF EntryHolds
  <2> QED
    BY <2>1, <2>2 DEF Recording
<1>3. ASSUME e.status = "sent"
      PROVE  /\ e.row \in 1..Len(rows) /\ e.row > e.baseline
             /\ rows[e.row].text = e.item.text /\ ~rows[e.row].late
  <2>1. /\ e.row \in Matches(Entry(c)) /\ e.item = Entry(c).item
        /\ e.baseline = Entry(c).baseline
    BY <1>3 DEF Recording
  <2>2. Entry(c).baseline \in Nat /\ Len(rows) \in Nat
    BY <1>1 DEF Entries, LedgerInv, SenderInv, TypeOK, OuterTypes
  <2> QED
    BY <2>1, <2>2 DEF Matches
<1>4. e.status = "suppressed" => Blocked(e.item) /\ presses[Req(c)] = 0
  BY DEF Recording
<1> QED
  BY <1>2, <1>3, <1>4 DEF EntryHolds

LEMMA LedgerHoldsStep ==
    ASSUME LedgerInv, [Next]_vars
    PROVE  LedgerHolds'
<1> SUFFICES ASSUME NEW r \in Requests
             PROVE  StillHolds(r, mem'[r]) /\ StillHolds(r, disk'[r])
  BY DEF LedgerHolds, EntryHolds, StillHolds, AskedFor, Blocked
<1>1. /\ SenderInv /\ LedgerTypes /\ EntryHolds(r, mem[r])
      /\ EntryHolds(r, disk[r])
  BY DEF LedgerInv, LedgerHolds, SenderInv, TypeOK
<1>2. StillHolds(r, mem[r]) /\ StillHolds(r, disk[r])
  BY <1>1, TruthIsKept, PressesAreOfSending
<1>3. ASSUME NEW c \in Threads, NEW e \in Entries, Recording(c, e)
      PROVE  StillHolds(r, mem'[r]) /\ StillHolds(r, disk'[r])
  <2>1. mem'[r] = IF r = Req(c) THEN e ELSE mem[r]
    BY <1>1, <1>3 DEF Recording, LedgerTypes
  <2>2. disk'[r] \in {disk[r], mem'[r]} /\ presses' = presses
    BY <1>3 DEF Recording
  <2>3. r = Req(c) => StillHolds(r, e)
    BY <1>1, <1>3, <2>2, RecordedHolds, TruthIsKept
  <2> QED
    BY <1>2, <2>1, <2>2, <2>3
<1>4. CASE Crash
  BY <1>2, <1>4 DEF Crash
<1>5. CASE UNCHANGED <<mem, disk, stateOk>>
  BY <1>2, <1>5
<1> QED
  BY <1>1, <1>3, <1>4, <1>5, LedgerSteps DEF LedgerInv

LEMMA SentIsFinalStep ==
    ASSUME LedgerInv, [Next]_vars
    PROVE  SentIsFinal'
<1> SUFFICES ASSUME NEW r \in Requests, disk'[r].status = "sent"
             PROVE  mem'[r].status = "sent"
  BY DEF SentIsFinal
<1>1. /\ SenderInv /\ ConfirmingIsOpen /\ LedgerTypes
      /\ disk[r].status = "sent" => mem[r].status = "sent"
  BY DEF LedgerInv, SentIsFinal, SenderInv, TypeOK
<1>2. ASSUME NEW c \in Threads, NEW e \in Entries, Recording(c, e)
      PROVE  mem'[r].status = "sent"
  <2>1. mem'[r] = IF r = Req(c) THEN e ELSE mem[r]
    BY <1>1, <1>2 DEF Recording, LedgerTypes
  <2>2. disk'[r] \in {disk[r], mem'[r]}
    BY <1>2 DEF Recording
  <2>3. Entry(c).status # "sent"
    BY <1>2 DEF Recording
  <2> QED
    BY <1>1, <2>1, <2>2, <2>3 DEF Entry
<1>3. CASE Crash
  BY <1>3 DEF Crash
<1>4. CASE UNCHANGED <<mem, disk, stateOk>>
  BY <1>1, <1>4
<1> QED
  BY <1>1, <1>2, <1>3, <1>4, LedgerSteps

\* A step that leaves the ledger alone and brings no thread into Confirming.
LEMMA ConfirmingFrame ==
    ASSUME ConfirmingIsOpen, UNCHANGED mem,
           \A c \in Threads : pc'[c] \in Confirming =>
                                pc[c] \in Confirming /\ call'[c] = call[c]
    PROVE  ConfirmingIsOpen'
  BY DEF ConfirmingIsOpen, Entry, Req

LEMMA ConfirmingIsOpenStep ==
    ASSUME SenderInv, ConfirmingIsOpen, [Next]_vars
    PROVE  ConfirmingIsOpen'
<1>1. ThreadTypes /\ LocksAreOwned /\ ComposingIsUnpressed
  BY DEF SenderInv, TypeOK
<1>2. ASSUME NEW c \in Threads, Asking(c) \/ Answering(c)
      PROVE  ConfirmingIsOpen'
  <2>1. CASE Asking(c)
    BY <1>1, <2>1, ConfirmingFrame
    DEF Asking, CallSend, CallRefused, CallStatus, Respond, ThreadTypes
  <2>2. CASE Answering(c)
    BY <1>1, <2>2, ConfirmingFrame
    DEF Answering, SendKnown, BaselineUnreadable, RefuseResend, ScanRaises,
        StatusKnown, Reply, ThreadTypes
  <2> QED
    BY <1>2, <2>1, <2>2
<1>3. ASSUME NEW c \in Threads, Moving(c) \/ PressReturn(c)
      PROVE  ConfirmingIsOpen'
  <2>1. CASE PassCheck(c) \/ TakeRoom(c) \/ PassLastCheck(c)
    BY <1>1, <2>1, ConfirmingFrame
    DEF PassCheck, TakeRoom, PassLastCheck, ThreadTypes
  <2>2. CASE SendAgain(c)
    <3>1. Entry(c).status \in {"sending", "uncertain"}
          /\ Entry(c).item = call[c].item
      BY <2>2 DEF SendAgain, SendConflicts
    <3>2. \A d \in Threads : pc'[d] \in Confirming =>
                               d = c \/ pc[d] \in Confirming
      BY <1>1, <2>2 DEF SendAgain, ThreadTypes
    <3> QED
      BY <2>2, <3>1, <3>2 DEF SendAgain, ConfirmingIsOpen, Entry, Req
  <2>3. CASE UIFails(c) \/ PressReturn(c)
    <3>1. Entry(c).status = "sending" /\ Entry(c).item = call[c].item
      BY <1>1, <2>3 DEF UIFails, PressReturn, ComposingIsUnpressed, Entry
    <3>2. \A d \in Threads : pc'[d] \in Confirming =>
                               d = c \/ pc[d] \in Confirming
      BY <1>1, <2>3 DEF UIFails, PressReturn, ThreadTypes
    <3>3. UNCHANGED <<mem, call>>
      BY <2>3 DEF UIFails, PressReturn
    <3> QED
      BY <3>1, <3>2, <3>3 DEF ConfirmingIsOpen, Entry, Req
  <2> QED
    BY <1>3, <2>1, <2>2, <2>3 DEF Moving
<1>4. ASSUME NEW c \in Threads,
             SendBegins(c) \/ Settling(c) \/ StatusScans(c)
      PROVE  ConfirmingIsOpen'
  <2>1. \A d \in Threads : d # c => pc[d] \notin Confirming
    BY <1>1, <1>4, SendBeginsEffect, SettlingEffect, StatusScansEffect,
       ChatSenderConstants
    DEF LocksAreOwned
  <2>2. pc' = [pc EXCEPT ![c] = "check1"] \/ pc' = [pc EXCEPT ![c] = "reply"]
    BY <1>4, SendBeginsEffect, SettlingEffect, StatusScansEffect,
       SettleEffect
    DEF Reply
  <2> QED
    BY <1>1, <2>1, <2>2 DEF ConfirmingIsOpen, ThreadTypes
<1>5. CASE Crash
  BY <1>5 DEF Crash, ConfirmingIsOpen
<1>6. CASE Outside \/ (\E b \in Barriers : Stopping(b)) \/ UNCHANGED vars
  <2>1. UNCHANGED <<pc, call, mem>>
    BY <1>6
    DEF Outside, RowAppears, RowLost, HumanSends, ThirtySecondsPass,
        SelfCheck, Stopping, RequestBarrier, TakeRoomForBarrier,
        InsertBarrier, vars
  <2> QED
    BY <2>1, ConfirmingFrame
<1> QED
  BY <1>2, <1>3, <1>4, <1>5, <1>6, StepKinds

\* A step that changes no sent entry and gives no thread a reply of "sent".
LEMMA SentRepliesFrame ==
    ASSUME SentRepliesHold, SenderInv,
           \A r \in Requests : mem[r].status = "sent" => mem'[r] = mem[r],
           \A c \in Threads : pc'[c] = "reply" /\ answer'[c] = "sent" =>
               pc[c] = "reply" /\ answer[c] = "sent" /\ call'[c] = call[c]
    PROVE  SentRepliesHold'
<1> SUFFICES ASSUME NEW c \in Threads, pc'[c] = "reply", answer'[c] = "sent"
             PROVE  Entry(c)'.status = "sent"
                    /\ Entry(c)'.item = call'[c].item
  BY DEF SentRepliesHold
<1>1. /\ pc[c] = "reply" /\ answer[c] = "sent" /\ call'[c] = call[c]
      /\ Entry(c).status = "sent" /\ Entry(c).item = call[c].item
  BY DEF SentRepliesHold
<1>2. Req(c) \in Requests
  BY <1>1, BusyEntry
<1> QED
  BY <1>1, <1>2 DEF Entry, Req

LEMMA SentEntriesStay ==
    ASSUME SenderInv, ConfirmingIsOpen, [Next]_vars, ~Crash,
           NEW r \in Requests, mem[r].status = "sent"
    PROVE  mem'[r] = mem[r]
<1>1. mem \in [Requests -> Entries]
  BY DEF SenderInv, TypeOK, LedgerTypes
<1>2. ASSUME NEW c \in Threads, NEW e \in Entries, Recording(c, e)
      PROVE  mem'[r] = mem[r]
  <2>1. Req(c) # r
    BY <1>2 DEF Recording, Entry
  <2> QED
    BY <1>1, <1>2, <2>1 DEF Recording
<1> QED
  BY <1>2, LedgerSteps

LEMMA SentRepliesHoldStep ==
    ASSUME SenderInv, ConfirmingIsOpen, SentRepliesHold, [Next]_vars
    PROVE  SentRepliesHold'
<1>1. ThreadTypes /\ ComposingIsUnpressed /\ LedgerTypes
  BY DEF SenderInv, TypeOK
<1>2. ASSUME NEW c \in Threads, Asking(c) PROVE SentRepliesHold'
  <2>1. UNCHANGED mem
    BY <1>2 DEF Asking, CallSend, CallRefused, CallStatus, Respond
  <2>2. ASSUME NEW d \in Threads, pc'[d] = "reply", answer'[d] = "sent"
        PROVE  pc[d] = "reply" /\ answer[d] = "sent" /\ call'[d] = call[d]
    BY <1>1, <1>2, <2>2
    DEF Asking, CallSend, CallRefused, CallStatus, Respond, ThreadTypes
  <2> QED
    BY <2>1, <2>2, SentRepliesFrame
<1>3. ASSUME NEW c \in Threads, Answering(c) PROVE SentRepliesHold'
  <2>1. UNCHANGED <<mem, call>>
    BY <1>3
    DEF Answering, SendKnown, BaselineUnreadable, RefuseResend, ScanRaises,
        StatusKnown
  <2>2. ASSUME NEW d \in Threads, d # c, pc'[d] = "reply", answer'[d] = "sent"
        PROVE  pc[d] = "reply" /\ answer[d] = "sent"
    BY <1>1, <1>3, <2>2
    DEF Answering, SendKnown, BaselineUnreadable, RefuseResend, ScanRaises,
        StatusKnown, Reply, ThreadTypes
  <2>3. ASSUME answer'[c] = "sent"
        PROVE  Entry(c).status = "sent" /\ Entry(c).item = call[c].item
    BY <1>1, <1>3, <2>3
    DEF Answering, SendKnown, SendConflicts, BaselineUnreadable,
        RefuseResend, ScanRaises, StatusKnown, Reply, ThreadTypes
  <2> QED
    BY <2>1, <2>2, <2>3 DEF SentRepliesHold, Entry, Req
<1>4. ASSUME NEW c \in Threads,
             Moving(c) \/ PressReturn(c) \/ SendBegins(c) \/ StatusScans(c)
      PROVE  SentRepliesHold'
  <2>1. ~Crash
    <3>1. pc'[c] # "idle"
      BY <1>1, <1>4, SendBeginsEffect, StatusScansEffect, SettleEffect
      DEF Moving, SendAgain, PassCheck, TakeRoom, PassLastCheck, UIFails,
          PressReturn, Reply, ThreadTypes
    <3> QED
      BY <3>1 DEF Crash
  <2>2. \A r \in Requests : mem[r].status = "sent" => mem'[r] = mem[r]
    BY <2>1, SentEntriesStay
  <2>3. ASSUME NEW d \in Threads, pc'[d] = "reply", answer'[d] = "sent"
        PROVE  pc[d] = "reply" /\ answer[d] = "sent" /\ call'[d] = call[d]
    <3>1. CASE Moving(c) \/ PressReturn(c)
      BY <1>1, <2>3, <3>1
      DEF Moving, SendAgain, PassCheck, TakeRoom, PassLastCheck, UIFails,
          PressReturn, ThreadTypes
    <3>2. CASE SendBegins(c)
      BY <1>1, <2>3, <3>2, SendBeginsEffect DEF Reply, ThreadTypes
    <3>3. CASE StatusScans(c)
      BY <1>1, <2>3, <3>3, StatusScansEffect, SettleEffect
      DEF Reply, ThreadTypes
    <3> QED
      BY <1>4, <3>1, <3>2, <3>3
  <2> QED
    BY <2>2, <2>3, SentRepliesFrame
<1>5. ASSUME NEW c \in Threads, Settling(c) PROVE SentRepliesHold'
  <2>1. PICK e \in Entries, v \in {"sent", "uncertain", "suppressed"} :
          Settle(c, e, v) /\ e.status = v /\ pc[c] \in Holding
          /\ UNCHANGED call
    BY <1>5, SettlingEffect
  <2>2. /\ mem' = [mem EXCEPT ![Req(c)] = e] /\ Req(c) \in Requests
        /\ pc' = [pc EXCEPT ![c] = "reply"]
        /\ \E a \in {v, "error"} : answer' = [answer EXCEPT ![c] = a]
    BY <2>1, SettleEffect, BusyEntry
  <2>3. PICK f \in Entries : Recording(c, f)
    BY <1>5, SettlingRecords
  <2>4. Entry(c).status \in {"sending", "uncertain"}
        /\ Entry(c).item = call[c].item
    BY <1>1, <2>1 DEF ConfirmingIsOpen, ComposingIsUnpressed, Entry
  <2>5. mem'[Req(c)] = e /\ e = f
    BY <1>1, <2>2, <2>3 DEF Recording, LedgerTypes
  <2>6. e.item = call[c].item
    BY <2>3, <2>4, <2>5 DEF Recording
  <2>7. ASSUME NEW d \in Threads, d # c, pc'[d] = "reply", answer'[d] = "sent"
        PROVE  Entry(d)'.status = "sent" /\ Entry(d)'.item = call'[d].item
    <3>1. pc[d] = "reply" /\ answer[d] = "sent" /\ call'[d] = call[d]
      BY <1>1, <2>1, <2>2, <2>7 DEF ThreadTypes
    <3>2. Entry(d).status = "sent" /\ Entry(d).item = call[d].item
          /\ Req(d) \in Requests
      BY <3>1, BusyEntry DEF SentRepliesHold
    <3>3. Req(d) # Req(c)
      BY <2>4, <3>2 DEF Entry
    <3>4. mem'[Req(d)] = mem[Req(d)]
      BY <1>1, <2>2, <3>2, <3>3 DEF LedgerTypes
    <3> QED
      BY <3>1, <3>2, <3>4 DEF Entry, Req
  <2>8. ASSUME answer'[c] = "sent"
        PROVE  Entry(c)'.status = "sent" /\ Entry(c)'.item = call'[c].item
    <3>1. v = "sent"
      BY <1>1, <2>2, <2>8 DEF ThreadTypes
    <3> QED
      BY <2>1, <2>5, <2>6, <3>1 DEF Entry, Req
  <2> QED
    BY <2>7, <2>8 DEF SentRepliesHold
<1>6. CASE Crash
  BY <1>6 DEF Crash, SentRepliesHold
<1>7. CASE Outside \/ (\E b \in Barriers : Stopping(b)) \/ UNCHANGED vars
  <2>1. UNCHANGED <<pc, call, answer, mem>>
    BY <1>7
    DEF Outside, RowAppears, RowLost, HumanSends, ThirtySecondsPass,
        SelfCheck, Stopping, RequestBarrier, TakeRoomForBarrier,
        InsertBarrier, vars
  <2> QED
    BY <2>1 DEF SentRepliesHold, Entry, Req
<1> QED
  BY <1>2, <1>3, <1>4, <1>5, <1>6, <1>7, StepKinds

\* A press once made is never unmade.
LEMMA PressedIsKept ==
    ASSUME SenderInv, [Next]_vars, NEW r \in Requests, presses[r] # 0
    PROVE  presses'[r] # 0
  BY PressesAreOfSending

\* RowIsFrom after the step, of a row that is in the database before it.
RowStillFrom(row) ==
    \/ row.by = Human /\ [text |-> row.text, late |-> row.late] \in HumanCopies
    \/ /\ row.by \in Requests /\ presses'[row.by] # 0
       /\ \E k \in Calls : k.req = row.by /\ k.item.text = row.text

LEMMA RowsStillFrom ==
    ASSUME SenderInv, [Next]_vars, NEW row, RowIsFrom(row)
    PROVE  RowStillFrom(row)
  BY PressedIsKept DEF RowIsFrom, RowStillFrom, Pressed

LEMMA InflightIsFrom ==
    ASSUME SenderInv, MessagesAreFrom, [Next]_vars, NEW m \in inflight'
    PROVE  /\ presses'[m.req] # 0
           /\ \E k \in Calls : k.req = m.req /\ k.item.text = m.text
<1>1. OuterTypes /\ ComposingIsUnpressed
  BY DEF SenderInv, TypeOK
<1>2. CASE m \in inflight
  <2>1. Pressed(m.req, m.text) /\ m.req \in Requests
    BY <1>1, <1>2 DEF MessagesAreFrom, OuterTypes
  <2> QED
    BY <2>1, PressedIsKept DEF Pressed
<1>3. ASSUME NEW c \in Threads, PressReturn(c), m \notin inflight
      PROVE  /\ presses'[m.req] # 0
             /\ \E k \in Calls : k.req = m.req /\ k.item.text = m.text
  <2>1. /\ call[c] \in Calls /\ Req(c) \in Requests
        /\ Entry(c).item = call[c].item /\ presses[Req(c)] = 0
    BY <1>1, <1>3, BusyEntry DEF PressReturn, ComposingIsUnpressed, Entry
  <2>2. m = [req |-> Req(c), text |-> Entry(c).item.text]
        /\ presses' = [presses EXCEPT ![Req(c)] = @ + 1]
    BY <1>3 DEF PressReturn
  <2>3. presses'[Req(c)] = 1
    BY <1>1, <2>1, <2>2 DEF OuterTypes
  <2>4. call[c].req = m.req /\ call[c].item.text = m.text
    BY <2>1, <2>2 DEF Req
  <2> QED
    BY <2>1, <2>2, <2>3, <2>4
<1>4. m \in inflight \/ \E c \in Threads : PressReturn(c)
  <2>1. ASSUME NEW c \in Threads, Asking(c) \/ Answering(c) \/ Moving(c)
               \/ SendBegins(c) \/ Settling(c) \/ StatusScans(c)
        PROVE  UNCHANGED inflight
    BY <2>1
    DEF Asking, CallSend, CallRefused, CallStatus, Respond,
        Answering, SendKnown, BaselineUnreadable, RefuseResend, ScanRaises,
        StatusKnown, Moving, SendAgain, PassCheck, TakeRoom, PassLastCheck,
        UIFails, SendBegins, Settling, Suppress, ConfirmFound,
        ConfirmTimeout, StatusScans
  <2>2. (\E b \in Barriers : Stopping(b)) \/ Crash \/ UNCHANGED vars
        => UNCHANGED inflight
    BY DEF Stopping, RequestBarrier, TakeRoomForBarrier, InsertBarrier,
           Crash, vars
  <2>3. Outside => inflight' \subseteq inflight
    BY DEF Outside, RowAppears, RowLost, HumanSends, ThirtySecondsPass,
           SelfCheck
  <2> QED
    BY <2>1, <2>2, <2>3, StepKinds
<1> QED
  BY <1>2, <1>3, <1>4

LEMMA MessagesAreFromStep ==
    ASSUME SenderInv, MessagesAreFrom, [Next]_vars
    PROVE  MessagesAreFrom'
<1>1. /\ OuterTypes
      /\ \A i \in 1..Len(rows) : RowIsFrom(rows[i])
  BY DEF SenderInv, TypeOK, MessagesAreFrom
<1>2. \A i \in 1..Len(rows) : RowStillFrom(rows[i])
  BY <1>1, RowsStillFrom
<1>3. CASE RowAppears
  <2>1. PICK m \in inflight :
          rows' = Append(rows, [text |-> m.text, by |-> m.req, late |-> FALSE])
    BY <1>3 DEF RowAppears
  <2>2. Pressed(m.req, m.text) /\ m.req \in Requests /\ UNCHANGED presses
    BY <1>1, <1>3 DEF MessagesAreFrom, OuterTypes, RowAppears
  <2>3. RowStillFrom([text |-> m.text, by |-> m.req, late |-> FALSE])
    BY <2>2 DEF RowStillFrom, Pressed
  <2>4. \A i \in 1..Len(rows') : RowStillFrom(rows'[i])
    BY <1>1, <1>2, <2>1, <2>3 DEF OuterTypes
  <2> QED
    BY <2>4, InflightIsFrom
    DEF MessagesAreFrom, Pressed, RowIsFrom, RowStillFrom
<1>4. CASE HumanSends
  <2>1. PICK h \in HumanCopies :
          rows' = Append(rows, [text |-> h.text, by |-> Human, late |-> h.late])
    BY <1>4 DEF HumanSends
  <2>2. [text |-> h.text, late |-> h.late] = h
    BY ChatSenderConstants
  <2>3. RowStillFrom([text |-> h.text, by |-> Human, late |-> h.late])
    BY <2>2 DEF RowStillFrom
  <2>4. \A i \in 1..Len(rows') : RowStillFrom(rows'[i])
    BY <1>1, <1>2, <2>1, <2>3 DEF OuterTypes
  <2> QED
    BY <2>4, InflightIsFrom
    DEF MessagesAreFrom, Pressed, RowIsFrom, RowStillFrom
<1>5. CASE UNCHANGED rows
  BY <1>2, <1>5, InflightIsFrom
  DEF MessagesAreFrom, Pressed, RowIsFrom, RowStillFrom
<1> QED
  BY <1>3, <1>4, <1>5, RowsChange

-----------------------------------------------------------------------------
(* Theorems about the ledger *)

LEMMA InitLedgerInv == Init => LedgerInv
<1> SUFFICES ASSUME Init PROVE LedgerInv
  OBVIOUS
<1>1. SenderInv /\ MemoryIsDurable
  BY InitSenderInv DEF Init, MemoryIsDurable
<1>2. \A r \in Requests : mem[r].status = "none" /\ disk[r].status = "none"
  BY DEF Init, NoEntry
<1>3. LedgerHolds /\ SentIsFinal
  BY <1>2 DEF LedgerHolds, EntryHolds, SentIsFinal
<1>4. ConfirmingIsOpen /\ SentRepliesHold
  BY DEF Init, ConfirmingIsOpen, SentRepliesHold
<1>5. MessagesAreFrom
  BY DEF Init, MessagesAreFrom
<1> QED
  BY <1>1, <1>3, <1>4, <1>5 DEF LedgerInv

\* What the ledger says, in memory and on disk, is so: a sent entry has a row
\* with its text, a suppressed one a stop that covers it and no press, and
\* every message in the group was pressed for a request or typed by a human.
THEOREM LedgerInvHolds == Spec => []LedgerInv
<1>1. SenderInv /\ [Next]_vars => SenderInv'
  BY ThreadTypesStep, LedgerTypesStep, OuterTypesStep, LocksAreOwnedStep,
     BusyThreadsHaveCallsStep, ComposingIsUnpressedStep, PressedIsTriedStep,
     PressIsUnblockedStep
  DEF SenderInv, TypeOK
<1>2. LedgerInv /\ [Next]_vars => LedgerInv'
  <2> SUFFICES ASSUME LedgerInv, [Next]_vars PROVE LedgerInv'
    OBVIOUS
  <2>1. /\ SenderInv /\ MemoryIsDurable /\ ConfirmingIsOpen
        /\ SentRepliesHold /\ MessagesAreFrom
    BY DEF LedgerInv
  <2>2. LedgerHolds' /\ SentIsFinal'
    BY LedgerHoldsStep, SentIsFinalStep
  <2>3. /\ MemoryIsDurable' /\ ConfirmingIsOpen' /\ SentRepliesHold'
        /\ MessagesAreFrom'
    BY <2>1, MemoryIsDurableStep, ConfirmingIsOpenStep, SentRepliesHoldStep,
       MessagesAreFromStep
  <2> QED
    BY <1>1, <2>1, <2>2, <2>3 DEF LedgerInv
<1> QED
  BY <1>2, InitLedgerInv, PTL DEF Spec

\* As long as no save has failed, a restart would answer as memory does.
THEOREM MemoryIsDurableHolds == Spec => []MemoryIsDurable
<1>1. LedgerInv => MemoryIsDurable
  BY DEF LedgerInv
<1> QED
  BY <1>1, LedgerInvHolds, PTL

\* A caller told "sent" has this very text in the group, whatever the request
\* id was used for before and however the attempt ended.
THEOREM SentAnswersHold == Spec => []SentAnswerIsThisText
<1>1. LedgerInv => SentAnswerIsThisText
  <2> SUFFICES ASSUME LedgerInv, NEW c \in Threads,
                      pc[c] = "reply", answer[c] = "sent"
               PROVE  /\ Entry(c).row \in 1..Len(rows)
                      /\ rows[Entry(c).row].text = call[c].item.text
    BY DEF SentAnswerIsThisText
  <2>1. Entry(c).status = "sent" /\ Entry(c).item = call[c].item
    BY DEF LedgerInv, SentRepliesHold
  <2>2. Req(c) \in Requests
    BY BusyEntry DEF LedgerInv
  <2>3. EntryHolds(Req(c), Entry(c))
    BY <2>2 DEF LedgerInv, LedgerHolds, Entry
  <2> QED
    BY <2>1, <2>3 DEF EntryHolds
<1> QED
  BY <1>1, LedgerInvHolds, PTL

\* A request is only recorded as suppressed if a committed stop of a later
\* message, or one of its task generation, covers it.
THEOREM SuppressionsHold == Spec => []SuppressedOnlyByLaterStop
<1>1. LedgerInv => SuppressedOnlyByLaterStop
  <2> SUFFICES ASSUME LedgerInv, NEW r \in Requests,
                      mem[r].status = "suppressed"
               PROVE  \E b \in Barriers :
                        LET s == BarrierOf[b]  i == mem[r].item IN
                        /\ barrier[b] = "committed" /\ s.mode = "all"
                        /\ \/ s.task = NoTask /\ s.source >= i.source + 1
                           \/ s.task # NoTask
                              /\ <<s.task, s.generation>>
                                   = <<i.task, i.generation>>
    BY DEF SuppressedOnlyByLaterStop
  <2>1. EntryHolds(r, mem[r])
    BY DEF LedgerInv, LedgerHolds
  <2>2. PICK b \in Barriers : barrier[b] = "committed"
                              /\ Blocks(BarrierOf[b], mem[r].item)
    BY <2>1 DEF EntryHolds, Blocked
  <2>3. mem[r].item \in Items
    BY <2>1, ChatSenderConstants DEF EntryHolds, AskedFor
  <2>4. mem[r].item.source \in Nat /\ BarrierOf[b].source \in Nat
    BY <2>3, SourcesArePositive
  <2>5. BarrierOf[b].source > mem[r].item.source
        => BarrierOf[b].source >= mem[r].item.source + 1
    BY <2>4
  <2> QED
    BY <2>2, <2>5 DEF Blocks
<1> QED
  BY <1>1, LedgerInvHolds, PTL

-----------------------------------------------------------------------------
(* What confirms a request                                                  *)

\* Whose row it is that confirms request r: its own, or one of the same text,
\* which a human or another request brought into the group.
SentOnEvidence ==
    \A r \in Requests : mem[r].status = "sent" =>
        LET row == rows[mem[r].row] IN
        /\ mem[r].row \in (mem[r].baseline + 1)..Len(rows)
        /\ row.text = mem[r].item.text /\ ~row.late
        /\ \/ row.by = Human
           \/ row.by \in Requests /\ presses[row.by] = 1

\* A request is recorded as sent only on a row of its text that is newer than
\* its attempt, through retries, failed saves and crashes; if no human typed
\* that row, it is of a request whose Return was pressed, once (_candidate_is_recent,
\* _wait_for_confirmation, _mark_sent). That it is r's own is not promised.
THEOREM SentOnEvidenceHolds == Spec => []SentOnEvidence
<1>1. LedgerInv => SentOnEvidence
  <2> SUFFICES ASSUME LedgerInv, NEW r \in Requests, mem[r].status = "sent"
               PROVE  /\ mem[r].row \in (mem[r].baseline + 1)..Len(rows)
                      /\ rows[mem[r].row].text = mem[r].item.text
                      /\ ~rows[mem[r].row].late
                      /\ \/ rows[mem[r].row].by = Human
                         \/ /\ rows[mem[r].row].by \in Requests
                            /\ presses[rows[mem[r].row].by] = 1
    BY Zenon DEF SentOnEvidence
  <2>1. EntryHolds(r, mem[r])
    BY DEF LedgerInv, LedgerHolds
  <2>2. /\ mem[r].row \in 1..Len(rows) /\ mem[r].row > mem[r].baseline
        /\ rows[mem[r].row].text = mem[r].item.text /\ ~rows[mem[r].row].late
    BY <2>1 DEF EntryHolds
  <2>3. mem[r].baseline \in Nat /\ Len(rows) \in Nat
    BY DEF LedgerInv, SenderInv, TypeOK, LedgerTypes, OuterTypes, Entries
  <2>4. RowIsFrom(rows[mem[r].row])
    BY <2>2 DEF LedgerInv, MessagesAreFrom
  <2>5. \A q \in Requests : presses[q] # 0 => presses[q] = 1
    BY DEF LedgerInv, SenderInv, PressedIsTried
  <2> QED
    BY <2>2, <2>3, <2>4, <2>5 DEF RowIsFrom, Pressed
<1> QED
  BY <1>1, LedgerInvHolds, PTL

-----------------------------------------------------------------------------
(* Which row confirms a request. ChatSender looks for a row by its text, so *)
(* this takes that no two requests have one text, and that no human types   *)
(* one within the 15 seconds in which a row counts as new.                  *)

TextsTellRequests ==
    \A k, l \in Calls : k.item.text = l.item.text => k.req = l.req

NoPromptCopy ==
    \A h \in HumanCopies : h.late \/ \A k \in Calls : k.item.text # h.text

LEMMA SentByOwnRow ==
    ASSUME LedgerInv, TextsTellRequests, NoPromptCopy,
           NEW r \in Requests, NEW e, EntryHolds(r, e), e.status = "sent"
    PROVE  /\ e.row \in 1..Len(rows) /\ rows[e.row].by = r
           /\ presses[r] # 0
<1>1. /\ e.row \in 1..Len(rows) /\ rows[e.row].text = e.item.text
      /\ ~rows[e.row].late
  BY DEF EntryHolds
<1>2. PICK k \in Calls : k.req = r /\ k.item = e.item
  BY DEF EntryHolds, AskedFor
<1>3. RowIsFrom(rows[e.row])
  BY <1>1 DEF LedgerInv, MessagesAreFrom
<1>4. CASE rows[e.row].by = Human
           /\ [text |-> rows[e.row].text, late |-> rows[e.row].late]
                \in HumanCopies
  BY <1>1, <1>2, <1>4 DEF NoPromptCopy
<1>5. CASE /\ rows[e.row].by \in Requests
           /\ Pressed(rows[e.row].by, rows[e.row].text)
  BY <1>1, <1>2, <1>5 DEF Pressed, TextsTellRequests
<1> QED
  BY <1>1, <1>3, <1>4, <1>5 DEF RowIsFrom

-----------------------------------------------------------------------------
(* The sender implements OutboundPromise                                    *)

OneItemPerRequest == \A k, l \in Calls : k.req = l.req => k.item = l.item

LEMMA StoppedIsBlocked ==
    ASSUME NEW r \in Requests
    PROVE  Promise!Stopped(r) <=>
             \E k \in Calls : k.req = r /\ Blocked(k.item)
  BY DEF Promise!Stopped, Blocked

LEMMA PromiseInit ==
    ASSUME Init
    PROVE  Promise!Init
<1>1. \A r \in Requests : presses[r] = 0 /\ PromisedVerdict(r) = "open"
  BY DEF Init, NoEntry, PromisedVerdict
<1>2. \A b \in Barriers : barrier[b] # "committed"
  BY DEF Init
<1>3. {r \in Requests : presses[r] > 0} = {}
  BY <1>1
<1> QED
  BY <1>1, <1>2, <1>3 DEF Promise!Init

\* A Return is the submission of its request.
LEMMA PressSubmits ==
    ASSUME LedgerInv, [Next]_vars, OneItemPerRequest,
           NEW r \in Requests, presses'[r] # presses[r]
    PROVE  Promise!Submit(r)
<1>1. /\ presses \in [Requests -> Nat] /\ ComposingIsUnpressed
      /\ PressIsUnblocked /\ LedgerHolds
  BY DEF LedgerInv, SenderInv, TypeOK, OuterTypes
<1>2. PICK c \in Threads : PressReturn(c)
  BY DEF Next, Handle, Commit, CallSend, CallRefused, CallStatus, Respond,
         SendKnown, SendAgain, SendBegins, BaselineUnreadable, PassCheck,
         TakeRoom, PassLastCheck, Suppress, UIFails, ConfirmFound,
         ConfirmTimeout, RefuseResend, ScanRaises, StatusKnown, StatusScans,
         RequestBarrier, TakeRoomForBarrier, InsertBarrier, RowAppears,
         RowLost, HumanSends, ThirtySecondsPass, SelfCheck, Crash, vars
<1>3. /\ Req(c) = r /\ presses[r] = 0 /\ presses' = [presses EXCEPT ![r] = 1]
      /\ Entry(c).item = call[c].item /\ ~Blocked(Entry(c).item)
      /\ disk[r].status = "sending" /\ call[c] \in Calls
      /\ UNCHANGED <<disk, barrier>>
  <2>1. Req(c) \in Requests /\ call[c] \in Calls
    BY <1>2, BusyEntry DEF PressReturn, LedgerInv
  <2>2. presses[Req(c)] = 0 /\ disk[Req(c)].status = "sending"
        /\ Entry(c).item = call[c].item
    BY <1>1, <1>2 DEF PressReturn, ComposingIsUnpressed, Entry
  <2>3. presses' = [presses EXCEPT ![Req(c)] = 1]
    BY <1>1, <1>2, <2>1, <2>2 DEF PressReturn
  <2>4. Req(c) = r
    BY <1>1, <2>1, <2>3
  <2> QED
    BY <1>1, <1>2, <2>1, <2>2, <2>3, <2>4 DEF PressReturn, PressIsUnblocked
<1>4. ~Promise!Stopped(r)
  BY <1>3, StoppedIsBlocked DEF OneItemPerRequest, Req
<1>5. {q \in Requests : presses[q] > 0}' =
        {q \in Requests : presses[q] > 0} \cup {r}
  BY <1>1, <1>3
<1>6. r \notin {q \in Requests : presses[q] > 0}
  BY <1>3
<1>7. PromisedVerdict(r) = "open"
  BY <1>3 DEF PromisedVerdict
<1>8. \A q \in Requests : PromisedVerdict(q)' = PromisedVerdict(q)
  BY <1>3 DEF PromisedVerdict
<1> QED
  BY <1>3, <1>4, <1>5, <1>6, <1>7, <1>8 DEF Promise!Submit

\* The insert of a barrier is the stop.
LEMMA InsertStops ==
    ASSUME LedgerInv, NEW b \in Barriers, InsertBarrier(b)
    PROVE  Promise!Stop(b) \/ UNCHANGED Promise!promiseVars
<1>1. /\ barrier[b] = "inserting" /\ UNCHANGED <<presses, disk>>
      /\ barrier \in [Barriers -> {"idle", "waiting", "inserting",
                                   "committed", "failed"}]
  BY DEF InsertBarrier, LedgerInv, SenderInv, TypeOK, ThreadTypes
<1>2. \A r \in Requests : PromisedVerdict(r)' = PromisedVerdict(r)
  BY <1>1 DEF PromisedVerdict
<1>3. PICK outcome \in {"committed", "failed"} :
        barrier' = [barrier EXCEPT ![b] = outcome]
  BY DEF InsertBarrier
<1>4. CASE outcome = "committed"
  <2>1. {a \in Barriers : barrier[a] = "committed"}' =
          {a \in Barriers : barrier[a] = "committed"} \cup {b}
    BY <1>1, <1>3, <1>4
  <2>2. b \notin {a \in Barriers : barrier[a] = "committed"}
    BY <1>1
  <2> QED
    BY <1>1, <1>2, <2>1, <2>2 DEF Promise!Stop
<1>5. CASE outcome = "failed"
  <2>1. {a \in Barriers : barrier[a] = "committed"}' =
          {a \in Barriers : barrier[a] = "committed"}
    BY <1>1, <1>3, <1>5
  <2> QED
    BY <1>1, <1>2, <2>1 DEF Promise!promiseVars
<1> QED
  BY <1>3, <1>4, <1>5

\* What a save may put on disk in place of an entry.
LEMMA SaveMayRecord ==
    ASSUME LedgerInv, TextsTellRequests, NoPromptCopy,
           NEW c \in Threads, NEW e \in Entries, Recording(c, e),
           NEW r \in Requests
    PROVE  Promise!MayBecome(r, PromisedVerdict(r)')
<1>1. /\ LedgerTypes /\ LedgerHolds /\ SentIsFinal
  BY DEF LedgerInv, SenderInv, TypeOK
<1> DEFINE x == IF r = Req(c) THEN e ELSE mem[r]
<1>2. mem'[r] = x /\ disk'[r] \in {disk[r], x}
  BY <1>1 DEF Recording, LedgerTypes
<1>3. EntryHolds(r, x)
  BY <1>1, RecordedHolds DEF LedgerHolds
<1>4. disk[r].status = "sent" => x.status = "sent"
  BY <1>1 DEF SentIsFinal, Recording, Entry
<1> HIDE DEF x
<1>5. CASE disk'[r] = disk[r]
  BY <1>5 DEF Promise!MayBecome, PromisedVerdict
<1>6. CASE disk'[r] = x /\ x.status = "sent"
  <2>1. r \in {q \in Requests : presses[q] > 0}
    BY <1>3, <1>6, SentByOwnRow DEF LedgerInv, SenderInv, TypeOK, OuterTypes
  <2>2. PromisedVerdict(r)' = "confirmed"
    BY <1>6 DEF PromisedVerdict
  <2> QED
    BY <2>1, <2>2 DEF Promise!MayBecome
<1>7. CASE disk'[r] = x /\ x.status = "suppressed"
  <2>1. /\ Blocked(x.item) /\ presses[r] = 0
        /\ \E k \in Calls : k.req = r /\ k.item = x.item
    BY <1>3, <1>7 DEF EntryHolds, AskedFor
  <2>2. Promise!Stopped(r) /\ r \notin {q \in Requests : presses[q] > 0}
    BY <2>1, StoppedIsBlocked
  <2>3. PromisedVerdict(r) # "confirmed"
    BY <1>4, <1>7 DEF PromisedVerdict
  <2>4. PromisedVerdict(r)' = "suppressed"
    BY <1>7 DEF PromisedVerdict
  <2> QED
    BY <2>2, <2>3, <2>4 DEF Promise!MayBecome
<1>8. CASE disk'[r] = x /\ x.status \notin {"sent", "suppressed"}
  <2>1. PromisedVerdict(r)' = "open"
    BY <1>8 DEF PromisedVerdict
  <2>2. PromisedVerdict(r) \in {"open", "suppressed"}
    BY <1>4, <1>8 DEF PromisedVerdict
  <2> QED
    BY <2>1, <2>2 DEF Promise!MayBecome
<1> QED
  BY <1>2, <1>5, <1>6, <1>7, <1>8

LEMMA RecordingRecords ==
    ASSUME LedgerInv, TextsTellRequests, NoPromptCopy,
           NEW c \in Threads, NEW e \in Entries, Recording(c, e)
    PROVE  Promise!Record
<1>1. \A r \in Requests : Promise!MayBecome(r, PromisedVerdict(r)')
  BY SaveMayRecord
<1>2. \A r \in Requests :
        PromisedVerdict(r)' \in {"open", "suppressed", "confirmed"}
  BY DEF PromisedVerdict
<1>3. UNCHANGED <<presses, barrier>>
  BY DEF Recording
<1> QED
  BY <1>1, <1>2, <1>3 DEF Promise!Record

\* Nothing else, a crash included, changes what is promised.
LEMMA OtherwiseUnchanged ==
    ASSUME LedgerInv, UNCHANGED <<disk, presses>>,
           \A b \in Barriers : barrier[b] = "committed" <=>
                                 barrier'[b] = "committed"
    PROVE  UNCHANGED Promise!promiseVars
<1>1. \A r \in Requests : PromisedVerdict(r)' = PromisedVerdict(r)
  BY DEF PromisedVerdict
<1> QED
  BY <1>1 DEF Promise!promiseVars
LEMMA OnlyInsertsStop ==
    ASSUME SenderInv, [Next]_vars,
           \A b \in Barriers : ~InsertBarrier(b)
    PROVE  \A b \in Barriers : barrier[b] = "committed" <=>
                                 barrier'[b] = "committed"
<1>1. barrier \in [Barriers -> {"idle", "waiting", "inserting", "committed",
                                "failed"}]
  BY DEF SenderInv, TypeOK, ThreadTypes
<1>2. CASE UNCHANGED barrier
  BY <1>2
<1>3. CASE Crash
  BY <1>1, <1>3 DEF Crash
<1>4. ASSUME NEW a \in Barriers, RequestBarrier(a) \/ TakeRoomForBarrier(a)
      PROVE  \A b \in Barriers : barrier[b] = "committed" <=>
                                   barrier'[b] = "committed"
  BY <1>1, <1>4 DEF RequestBarrier, TakeRoomForBarrier
<1>5. ASSUME NEW c \in Threads, Asking(c) \/ Answering(c) \/ Moving(c)
             \/ SendBegins(c) \/ PressReturn(c) \/ Settling(c)
             \/ StatusScans(c)
      PROVE  UNCHANGED barrier
  BY <1>5
  DEF Asking, CallSend, CallRefused, CallStatus, Respond,
      Answering, SendKnown, BaselineUnreadable, RefuseResend, ScanRaises,
      StatusKnown, Moving, SendAgain, PassCheck, TakeRoom, PassLastCheck,
      UIFails, SendBegins, PressReturn, Settling, Suppress, ConfirmFound,
      ConfirmTimeout, StatusScans
<1>6. Outside \/ UNCHANGED vars => UNCHANGED barrier
  BY DEF Outside, RowAppears, RowLost, HumanSends, ThirtySecondsPass,
         SelfCheck, vars
<1> QED
  BY <1>2, <1>3, <1>4, <1>5, <1>6, StepKinds DEF Stopping

LEMMA PromiseStep ==
    ASSUME LedgerInv, [Next]_vars, TextsTellRequests, NoPromptCopy,
           OneItemPerRequest
    PROVE  [Promise!Next]_(Promise!promiseVars)
<1>1. ASSUME NEW r \in Requests, presses'[r] # presses[r]
      PROVE  Promise!Next
  BY <1>1, PressSubmits DEF Promise!Next
<1>2. ASSUME NEW b \in Barriers, InsertBarrier(b)
      PROVE  [Promise!Next]_(Promise!promiseVars)
  BY <1>2, InsertStops DEF Promise!Next
<1>3. ASSUME NEW c \in Threads, NEW e \in Entries, Recording(c, e)
      PROVE  Promise!Next
  BY <1>3, RecordingRecords DEF Promise!Next
<1>4. ASSUME \A r \in Requests : presses'[r] = presses[r]
      PROVE  UNCHANGED presses
  <2>1. OuterTypes /\ OuterTypes'
    BY OuterTypesStep DEF LedgerInv, SenderInv, TypeOK
  <2> QED
    BY <1>4, <2>1 DEF OuterTypes
<1>5. ASSUME Crash \/ UNCHANGED <<mem, disk, stateOk>>, UNCHANGED presses,
             \A b \in Barriers : ~InsertBarrier(b)
      PROVE  UNCHANGED Promise!promiseVars
  <2>1. UNCHANGED <<disk, presses>>
    BY <1>5 DEF Crash
  <2> QED
    BY <1>5, <2>1, OnlyInsertsStop, OtherwiseUnchanged DEF LedgerInv
<1> QED
  BY <1>1, <1>2, <1>3, <1>4, <1>5, LedgerSteps DEF LedgerInv

\* The sender implements the promise, on the same terms and where a request id
\* stands for one message: through crashes, failed saves and retries, every
\* request is submitted at most once, never after a stop that covers it, and
\* what a restart finds on record of it is true.
THEOREM PromiseIsKept ==
    ASSUME TextsTellRequests, NoPromptCopy, OneItemPerRequest
    PROVE  Spec => KeepsPromise
<1>1. Init => Promise!Init
  BY PromiseInit
<1>2. LedgerInv /\ [Next]_vars => [Promise!Next]_(Promise!promiseVars)
  BY PromiseStep
<1> QED
  BY <1>1, <1>2, LedgerInvHolds, PTL DEF Spec, KeepsPromise, Promise!Spec
=============================================================================
