-------------------------- MODULE ChatSenderProofs --------------------------
(***************************************************************************)
(* Proofs about ChatSender for any number of threads, requests, stop       *)
(* commands, rows and crashes. SenderInv is inductive: each of its parts   *)
(* gets a lemma that every step preserves it, one case per kind of step.   *)
(***************************************************************************)
EXTENDS ChatSender, WellFoundedInduction, TLAPS

USE DEF Composing, Confirming, Holding, threadVars, ledgerVars, outerVars

-----------------------------------------------------------------------------
(* The steps by what they touch: threads taking requests and responding,   *)
(* responses that leave the ledger alone, moves inside send, stops, and    *)
(* what goes on outside.                                                   *)
Asking(c)    == CallSend(c) \/ CallRefused(c) \/ CallStatus(c) \/ Respond(c)
Answering(c) == SendKnown(c) \/ BaselineUnreadable(c) \/ RefuseResend(c)
                \/ ScanRaises(c) \/ StatusKnown(c)
Moving(c)    == SendAgain(c) \/ PassCheck(c) \/ TakeRoom(c)
                \/ PassLastCheck(c) \/ UIFails(c)
Settling(c)  == Suppress(c) \/ ConfirmFound(c) \/ ConfirmTimeout(c)
Stopping(b)  == RequestBarrier(b) \/ TakeRoomForBarrier(b) \/ InsertBarrier(b)
Outside      == RowAppears \/ RowLost \/ HumanSends \/ ThirtySecondsPass
                \/ SelfCheck

LEMMA StepKinds ==
    ASSUME Next
    PROVE  \/ \E c \in Threads : \/ Asking(c) \/ Answering(c) \/ Moving(c)
                                 \/ SendBegins(c) \/ PressReturn(c)
                                 \/ Settling(c) \/ StatusScans(c)
           \/ \E b \in Barriers : Stopping(b)
           \/ Outside \/ Crash
  BY DEF Next, Handle, Commit, Asking, Answering, Moving, Settling, Stopping,
         Outside

-----------------------------------------------------------------------------
(* What the helpers do *)

Below == {ss \in Nat \X Nat : ss[1] < ss[2]}

LEMMA LeastOfNats ==
    ASSUME NEW S, S \subseteq Nat, S # {}
    PROVE  \E i \in S : \A j \in S : i <= j
<1>1. IsWellFoundedOn(Below, Nat)
  BY NatLessThanWellFounded DEF OpToRel, Below
<1>2. PICK i \in S : \A j \in S : ~ (<<j, i>> \in Below)
  BY <1>1, WFMin
<1>3. \A j \in S : ~ (j < i)
  BY <1>2 DEF Below
<1> QED
  BY <1>3

\* The row a scan returns is one of those that match.
LEMMA FirstMatchMatches ==
    ASSUME TypeOK, NEW e \in Entries, Matches(e) # {}
    PROVE  FirstMatch(e) \in Matches(e) /\ FirstMatch(e) \in Nat
<1>1. Matches(e) \subseteq Nat
  BY DEF Matches, TypeOK, OuterTypes, Entries
<1>2. \E i \in Matches(e) : \A j \in Matches(e) : i <= j
  BY <1>1, LeastOfNats
<1> QED
  BY <1>1, <1>2 DEF FirstMatch

LEMMA SettleEffect ==
    ASSUME NEW c, NEW e, NEW v, Settle(c, e, v)
    PROVE  /\ mem' = [mem EXCEPT ![Req(c)] = e]
           /\ disk' \in {disk, mem'} /\ stateOk' \in BOOLEAN
           /\ pc' = [pc EXCEPT ![c] = "reply"]
           /\ \E a \in {v, "error"} : answer' = [answer EXCEPT ![c] = a]
           /\ lock' = Nobody
  BY DEF Settle, SaveSucceeds, SaveFails, Reply

\* What a thread in the course of a request acts on.
LEMMA BusyEntry ==
    ASSUME SenderInv, NEW c \in Threads, pc[c] # "idle"
    PROVE  /\ call[c] \in Calls /\ Req(c) \in Requests
           /\ call[c].item \in Items /\ Entry(c) \in Entries
  BY ChatSenderConstants
  DEF SenderInv, TypeOK, LedgerTypes, BusyThreadsHaveCalls, Req, Entry

\* A step of Settling records a well-typed entry whose status is final for
\* this attempt, and leaves all but the ledger and the locks alone.
LEMMA SettlingEffect ==
    ASSUME SenderInv, NEW c \in Threads, Settling(c)
    PROVE  \E e \in Entries, v \in {"sent", "uncertain", "suppressed"} :
             /\ Settle(c, e, v) /\ e.status = v
             /\ pc[c] \in Holding /\ lock = c
             /\ v = "suppressed" => presses[Req(c)] = 0
             /\ roomLock' = IF roomLock = c THEN Nobody ELSE roomLock
             /\ UNCHANGED <<call, young, ready, barrier, rows, inflight,
                            presses, crashes>>
<1>1. CASE Suppress(c)
  <2>1. [Entry(c) EXCEPT !.status = "suppressed"] \in Entries
    BY <1>1, BusyEntry DEF Suppress, Entries, Statuses
  <2> QED
    BY <1>1, <2>1 DEF Suppress, Entries, SenderInv, ComposingIsUnpressed,
                      LocksAreOwned
<1>2. CASE ConfirmFound(c)
  <2>1. FirstMatch(Entry(c)) \in Nat
    BY <1>2, BusyEntry, FirstMatchMatches DEF ConfirmFound, SenderInv
  <2>2. [Entry(c) EXCEPT !.status = "sent", !.row = FirstMatch(Entry(c))]
          \in Entries
    BY <1>2, <2>1, BusyEntry DEF ConfirmFound, Entries, Statuses
  <2> QED
    BY <1>2, <2>2 DEF ConfirmFound, Entries, SenderInv, LocksAreOwned
<1>3. CASE ConfirmTimeout(c)
  <2>1. [Entry(c) EXCEPT !.status = "uncertain"] \in Entries
    BY <1>3, BusyEntry DEF ConfirmTimeout, Entries, Statuses
  <2> QED
    BY <1>3, <2>1 DEF ConfirmTimeout, Entries, SenderInv, LocksAreOwned
<1> QED
  BY <1>1, <1>2, <1>3 DEF Settling

LEMMA StatusScansEffect ==
    ASSUME SenderInv, NEW c \in Threads, StatusScans(c)
    PROVE  /\ pc[c] = "status" /\ lock = Nobody
           /\ UNCHANGED <<call, young, roomLock, ready, barrier, rows,
                          inflight, presses, crashes>>
           /\ \/ \E e \in Entries : Settle(c, e, "confirmed")
                                    /\ e.status = "sent"
              \/ \E v \in {"uncertain", "error"} : Reply(c, v)
                                    /\ UNCHANGED ledgerVars
<1>1. CASE Matches(Entry(c)) # {}
  <2>1. FirstMatch(Entry(c)) \in Nat
    BY <1>1, BusyEntry, FirstMatchMatches DEF StatusScans, SenderInv
  <2>2. [Entry(c) EXCEPT !.status = "sent", !.row = FirstMatch(Entry(c))]
          \in Entries
    BY <2>1, BusyEntry DEF StatusScans, Entries, Statuses
  <2> QED
    BY <1>1, <2>2 DEF StatusScans, Entries
<1>2. CASE Matches(Entry(c)) = {}
  BY <1>2 DEF StatusScans
<1> QED
  BY <1>1, <1>2

LEMMA SendBeginsEffect ==
    ASSUME SenderInv, NEW c \in Threads, SendBegins(c)
    PROVE  /\ pc[c] = "send" /\ lock = Nobody
           /\ Entry(c).status \in {"none", "suppressed"}
           /\ \E e \in Entries : e.status = "sending"
                                 /\ e.item = call[c].item
                                 /\ mem' = [mem EXCEPT ![Req(c)] = e]
           /\ disk' \in {disk, mem'} /\ stateOk' \in BOOLEAN
           /\ young' = young \cup {Req(c)}
           /\ UNCHANGED <<call, roomLock, ready, barrier, rows, inflight,
                          presses, crashes>>
           /\ \/ disk' = mem' /\ lock' = c
                 /\ pc' = [pc EXCEPT ![c] = "check1"] /\ UNCHANGED answer
              \/ Reply(c, "error")
<1>1. Len(rows) \in Nat
  BY DEF SenderInv, TypeOK, OuterTypes
<1>2. [status |-> "sending", item |-> call[c].item, baseline |-> Len(rows),
       row |-> 0] \in Entries
  BY <1>1, BusyEntry DEF SendBegins, Entries, Statuses
<1> QED
  BY <1>2 DEF SendBegins, SaveSucceeds, SaveFails

-----------------------------------------------------------------------------
(* Each part of SenderInv is preserved *)

LEMMA ThreadTypesStep ==
    ASSUME SenderInv, [Next]_vars
    PROVE  ThreadTypes'
<1> USE DEF ThreadTypes
<1>1. ThreadTypes /\ SenderInv
  BY DEF SenderInv, TypeOK
<1>2. ASSUME NEW c \in Threads, Asking(c) PROVE ThreadTypes'
  BY <1>1, <1>2
  DEF Asking, CallSend, CallRefused, CallStatus, Respond, Answers
<1>3. ASSUME NEW c \in Threads, Answering(c) PROVE ThreadTypes'
  BY <1>1, <1>3
  DEF Answering, SendKnown, BaselineUnreadable, RefuseResend, ScanRaises,
      StatusKnown, Reply, Answers
<1>4. ASSUME NEW c \in Threads, Moving(c) PROVE ThreadTypes'
  <2>1. CASE SendAgain(c)
    BY <1>1, <2>1 DEF SendAgain
  <2>2. CASE PassCheck(c) \/ PassLastCheck(c)
    BY <1>1, <2>2 DEF PassCheck, PassLastCheck
  <2>3. CASE TakeRoom(c)
    BY <1>1, <2>3 DEF TakeRoom
  <2>4. CASE UIFails(c)
    BY <1>1, <2>4 DEF UIFails
  <2> QED
    BY <1>4, <2>1, <2>2, <2>3, <2>4 DEF Moving
<1>5. ASSUME NEW c \in Threads, SendBegins(c) PROVE ThreadTypes'
  BY <1>1, <1>5, SendBeginsEffect DEF Reply, Answers
<1>6. ASSUME NEW c \in Threads, PressReturn(c) PROVE ThreadTypes'
  BY <1>1, <1>6 DEF PressReturn
<1>7. ASSUME NEW c \in Threads, Settling(c) PROVE ThreadTypes'
  BY <1>1, <1>7, SettlingEffect, SettleEffect DEF Answers
<1>8. ASSUME NEW c \in Threads, StatusScans(c) PROVE ThreadTypes'
  BY <1>1, <1>8, StatusScansEffect, SettleEffect DEF Reply, Answers
<1>9. ASSUME NEW b \in Barriers, Stopping(b) PROVE ThreadTypes'
  BY <1>1, <1>9
  DEF Stopping, RequestBarrier, TakeRoomForBarrier, InsertBarrier
<1>10. CASE Outside
  BY <1>1, <1>10
  DEF Outside, RowAppears, RowLost, HumanSends, ThirtySecondsPass, SelfCheck
<1>11. CASE Crash
  BY <1>1, <1>11 DEF Crash
<1>12. CASE UNCHANGED vars
  BY <1>1, <1>12 DEF vars
<1> QED
  BY <1>2, <1>3, <1>4, <1>5, <1>6, <1>7, <1>8, <1>9, <1>10, <1>11, <1>12,
     StepKinds

LEMMA LedgerTypesStep ==
    ASSUME SenderInv, [Next]_vars
    PROVE  LedgerTypes'
<1> USE DEF LedgerTypes
<1>1. LedgerTypes /\ SenderInv
  BY DEF SenderInv, TypeOK
<1>2. ASSUME NEW c \in Threads, Asking(c) PROVE LedgerTypes'
  BY <1>1, <1>2 DEF Asking, CallSend, CallRefused, CallStatus, Respond
<1>3. ASSUME NEW c \in Threads, Answering(c) PROVE LedgerTypes'
  BY <1>1, <1>3
  DEF Answering, SendKnown, BaselineUnreadable, RefuseResend, ScanRaises,
      StatusKnown
<1>4. ASSUME NEW c \in Threads, Moving(c) PROVE LedgerTypes'
  BY <1>1, <1>4
  DEF Moving, SendAgain, PassCheck, TakeRoom, PassLastCheck, UIFails
<1>5. ASSUME NEW c \in Threads, SendBegins(c) PROVE LedgerTypes'
  BY <1>1, <1>5, SendBeginsEffect, BusyEntry
<1>6. ASSUME NEW c \in Threads, PressReturn(c) PROVE LedgerTypes'
  BY <1>1, <1>6 DEF PressReturn
<1>7. ASSUME NEW c \in Threads, Settling(c) PROVE LedgerTypes'
  BY <1>1, <1>7, SettlingEffect, SettleEffect
<1>8. ASSUME NEW c \in Threads, StatusScans(c) PROVE LedgerTypes'
  BY <1>1, <1>8, StatusScansEffect, SettleEffect
<1>9. ASSUME NEW b \in Barriers, Stopping(b) PROVE LedgerTypes'
  BY <1>1, <1>9
  DEF Stopping, RequestBarrier, TakeRoomForBarrier, InsertBarrier
<1>10. CASE Outside
  <2>1. CASE RowAppears \/ RowLost \/ HumanSends
    BY <1>1, <2>1 DEF RowAppears, RowLost, HumanSends
  <2>2. CASE ThirtySecondsPass
    BY <1>1, <2>2 DEF ThirtySecondsPass
  <2>3. CASE SelfCheck
    BY <1>1, <2>3 DEF SelfCheck
  <2> QED
    BY <1>10, <2>1, <2>2, <2>3 DEF Outside
<1>11. CASE Crash
  BY <1>1, <1>11 DEF Crash
<1>12. CASE UNCHANGED vars
  BY <1>1, <1>12 DEF vars
<1> QED
  BY <1>2, <1>3, <1>4, <1>5, <1>6, <1>7, <1>8, <1>9, <1>10, <1>11, <1>12,
     StepKinds

LEMMA OuterTypesStep ==
    ASSUME SenderInv, [Next]_vars
    PROVE  OuterTypes'
<1> USE DEF OuterTypes
<1>1. OuterTypes /\ SenderInv
  BY DEF SenderInv, TypeOK
<1>2. ASSUME NEW c \in Threads,
             Asking(c) \/ Answering(c) \/ Moving(c) \/ SendBegins(c)
             \/ Settling(c) \/ StatusScans(c)
      PROVE  OuterTypes'
  <2>1. UNCHANGED <<rows, inflight, presses, crashes>>
    BY <1>2
    DEF Asking, CallSend, CallRefused, CallStatus, Respond,
        Answering, SendKnown, BaselineUnreadable, RefuseResend, ScanRaises,
        StatusKnown, Moving, SendAgain, PassCheck, TakeRoom, PassLastCheck,
        UIFails, SendBegins, Settling, Suppress, ConfirmFound, ConfirmTimeout,
        StatusScans
  <2> QED
    BY <1>1, <2>1
<1>3. ASSUME NEW c \in Threads, PressReturn(c) PROVE OuterTypes'
  <2>1. pc[c] # "idle"
    BY <1>3 DEF PressReturn
  <2>2. Req(c) \in Requests /\ call[c].item.text \in Texts
    BY <1>1, <2>1, BusyEntry, ChatSenderConstants
  <2>3. Entry(c).item = call[c].item
    BY <1>3 DEF PressReturn, SenderInv, ComposingIsUnpressed, Entry
  <2>4. {[req |-> Req(c), text |-> Entry(c).item.text]}
          \subseteq [req : Requests, text : Texts]
    BY <2>2, <2>3
  <2>5. inflight' \subseteq [req : Requests, text : Texts]
    BY <1>1, <1>3, <2>4 DEF PressReturn
  <2>6. presses' \in [Requests -> Nat]
    BY <1>1, <1>3, <2>2 DEF PressReturn
  <2> QED
    BY <1>1, <1>3, <2>5, <2>6 DEF PressReturn
<1>4. ASSUME NEW b \in Barriers, Stopping(b) PROVE OuterTypes'
  BY <1>1, <1>4
  DEF Stopping, RequestBarrier, TakeRoomForBarrier, InsertBarrier
<1>5. CASE Outside
  <2>1. CASE RowAppears
    BY <1>1, <2>1 DEF RowAppears
  <2>2. CASE RowLost
    BY <1>1, <2>2 DEF RowLost
  <2>3. CASE HumanSends
    BY <1>1, <2>3, ChatSenderConstants DEF HumanSends
  <2>4. CASE ThirtySecondsPass \/ SelfCheck
    BY <1>1, <2>4 DEF ThirtySecondsPass, SelfCheck
  <2> QED
    BY <1>5, <2>1, <2>2, <2>3, <2>4 DEF Outside
<1>6. CASE Crash
  BY <1>1, <1>6 DEF Crash
<1>7. CASE UNCHANGED vars
  BY <1>1, <1>7 DEF vars
<1> QED
  BY <1>2, <1>3, <1>4, <1>5, <1>6, <1>7, StepKinds

LEMMA LocksAreOwnedStep ==
    ASSUME SenderInv, [Next]_vars
    PROVE  LocksAreOwned'
<1> USE DEF LocksAreOwned
<1>1. LocksAreOwned /\ ThreadTypes /\ SenderInv
  BY DEF SenderInv, TypeOK
<1>2. Nobody \notin Threads \cup Barriers /\ Threads \cap Barriers = {}
  BY ChatSenderConstants
<1>3. ASSUME NEW c \in Threads, Asking(c) PROVE LocksAreOwned'
  BY <1>1, <1>2, <1>3
  DEF Asking, CallSend, CallRefused, CallStatus, Respond, ThreadTypes
<1>4. ASSUME NEW c \in Threads, Answering(c) PROVE LocksAreOwned'
  <2>1. /\ pc' = [pc EXCEPT ![c] = "reply"] /\ lock' = Nobody
        /\ UNCHANGED <<roomLock, barrier>>
        /\ pc[c] \notin {"fenced", "press"}
        /\ lock \in {c, Nobody}
    BY <1>1, <1>4
    DEF Answering, SendKnown, BaselineUnreadable, RefuseResend, ScanRaises,
        StatusKnown, Reply
  <2> QED
    BY <1>1, <1>2, <2>1 DEF ThreadTypes
<1>5. ASSUME NEW c \in Threads, Moving(c) PROVE LocksAreOwned'
  <2>1. CASE SendAgain(c)
    BY <1>1, <1>2, <2>1 DEF SendAgain, ThreadTypes
  <2>2. CASE PassCheck(c) \/ PassLastCheck(c)
    BY <1>1, <1>2, <2>2 DEF PassCheck, PassLastCheck, ThreadTypes
  <2>3. CASE TakeRoom(c)
    BY <1>1, <1>2, <2>3 DEF TakeRoom, ThreadTypes
  <2>4. CASE UIFails(c)
    BY <1>1, <1>2, <2>4 DEF UIFails, ThreadTypes
  <2> QED
    BY <1>5, <2>1, <2>2, <2>3, <2>4 DEF Moving
<1>6. ASSUME NEW c \in Threads, SendBegins(c) PROVE LocksAreOwned'
  BY <1>1, <1>2, <1>6, SendBeginsEffect DEF Reply, ThreadTypes
<1>7. ASSUME NEW c \in Threads, PressReturn(c) PROVE LocksAreOwned'
  BY <1>1, <1>2, <1>7 DEF PressReturn, ThreadTypes
<1>8. ASSUME NEW c \in Threads, Settling(c) PROVE LocksAreOwned'
  <2>1. /\ pc' = [pc EXCEPT ![c] = "reply"]
        /\ lock = c /\ lock' = Nobody
        /\ roomLock' = IF roomLock = c THEN Nobody ELSE roomLock
        /\ UNCHANGED barrier
    BY <1>1, <1>8, SettlingEffect, SettleEffect
  <2> QED
    BY <1>1, <1>2, <2>1 DEF ThreadTypes
<1>9. ASSUME NEW c \in Threads, StatusScans(c) PROVE LocksAreOwned'
  BY <1>1, <1>2, <1>9, StatusScansEffect, SettleEffect DEF Reply, ThreadTypes
<1>10. ASSUME NEW b \in Barriers, Stopping(b) PROVE LocksAreOwned'
  <2>1. CASE RequestBarrier(b)
    BY <1>1, <1>2, <2>1 DEF RequestBarrier, ThreadTypes
  <2>2. CASE TakeRoomForBarrier(b)
    BY <1>1, <1>2, <2>2 DEF TakeRoomForBarrier, ThreadTypes
  <2>3. CASE InsertBarrier(b)
    BY <1>1, <1>2, <2>3 DEF InsertBarrier, ThreadTypes
  <2> QED
    BY <1>10, <2>1, <2>2, <2>3 DEF Stopping
<1>11. CASE Outside
  <2>1. UNCHANGED <<pc, lock, roomLock, barrier>>
    BY <1>11
    DEF Outside, RowAppears, RowLost, HumanSends, ThirtySecondsPass, SelfCheck
  <2> QED
    BY <1>1, <2>1
<1>12. CASE Crash
  BY <1>1, <1>2, <1>12 DEF Crash, ThreadTypes
<1>13. CASE UNCHANGED vars
  BY <1>1, <1>13 DEF vars
<1> QED
  BY <1>3, <1>4, <1>5, <1>6, <1>7, <1>8, <1>9, <1>10, <1>11, <1>12, <1>13,
     StepKinds

LEMMA BusyThreadsHaveCallsStep ==
    ASSUME SenderInv, [Next]_vars
    PROVE  BusyThreadsHaveCalls'
<1> USE DEF BusyThreadsHaveCalls
<1>1. BusyThreadsHaveCalls /\ ThreadTypes
  BY DEF SenderInv, TypeOK
<1>2. ASSUME NEW c \in Threads, Asking(c) PROVE BusyThreadsHaveCalls'
  BY <1>1, <1>2
  DEF Asking, CallSend, CallRefused, CallStatus, Respond, ThreadTypes
<1>3. ASSUME NEW c \in Threads,
             \/ Answering(c) \/ Moving(c) \/ SendBegins(c) \/ PressReturn(c)
             \/ Settling(c) \/ StatusScans(c)
      PROVE  BusyThreadsHaveCalls'
  <2>1. /\ UNCHANGED call /\ pc[c] # "idle"
        /\ \E p : pc' = [pc EXCEPT ![c] = p]
    BY <1>3
    DEF Answering, SendKnown, BaselineUnreadable, RefuseResend, ScanRaises,
        StatusKnown, Moving, SendAgain, PassCheck, TakeRoom, PassLastCheck,
        UIFails, SendBegins, PressReturn, Settling, Suppress, ConfirmFound,
        ConfirmTimeout, StatusScans, Settle, Reply
  <2> QED
    BY <1>1, <2>1 DEF ThreadTypes
<1>4. CASE Crash
  BY <1>1, <1>4 DEF Crash
<1>5. CASE Outside \/ (\E b \in Barriers : Stopping(b)) \/ UNCHANGED vars
  <2>1. UNCHANGED <<pc, call>>
    BY <1>5
    DEF Outside, RowAppears, RowLost, HumanSends, ThirtySecondsPass,
        SelfCheck, Stopping, RequestBarrier, TakeRoomForBarrier,
        InsertBarrier, vars
  <2> QED
    BY <1>1, <2>1
<1> QED
  BY <1>2, <1>3, <1>4, <1>5, StepKinds

\* A step that leaves a thread's request, the ledger and the count of presses
\* alone and brings no thread into Composing.
LEMMA ComposingFrame ==
    ASSUME ComposingIsUnpressed, UNCHANGED <<mem, disk, presses>>,
           \A c \in Threads : pc'[c] \in Composing =>
                                pc[c] \in Composing /\ call'[c] = call[c]
    PROVE  ComposingIsUnpressed'
  BY DEF ComposingIsUnpressed, Req

LEMMA ComposingIsUnpressedStep ==
    ASSUME SenderInv, [Next]_vars
    PROVE  ComposingIsUnpressed'
<1>1. /\ ComposingIsUnpressed /\ ThreadTypes /\ LedgerTypes /\ OuterTypes
      /\ LocksAreOwned /\ PressedIsTried
  BY DEF SenderInv, TypeOK
<1>2. ASSUME NEW c \in Threads, Asking(c) PROVE ComposingIsUnpressed'
  BY <1>1, <1>2, ComposingFrame
  DEF Asking, CallSend, CallRefused, CallStatus, Respond, ThreadTypes
<1>3. ASSUME NEW c \in Threads, Answering(c) PROVE ComposingIsUnpressed'
  BY <1>1, <1>3, ComposingFrame
  DEF Answering, SendKnown, BaselineUnreadable, RefuseResend, ScanRaises,
      StatusKnown, Reply, ThreadTypes
<1>4. ASSUME NEW c \in Threads, Moving(c) PROVE ComposingIsUnpressed'
  BY <1>1, <1>4, ComposingFrame
  DEF Moving, SendAgain, PassCheck, TakeRoom, PassLastCheck, UIFails,
      ThreadTypes
<1>5. ASSUME NEW c \in Threads, SendBegins(c) PROVE ComposingIsUnpressed'
  <2>1. \A d \in Threads : pc[d] \notin Composing
    BY <1>1, <1>5, SendBeginsEffect, ChatSenderConstants DEF LocksAreOwned
  <2>2. Req(c) \in Requests /\ presses[Req(c)] = 0
    BY <1>1, <1>5, SendBeginsEffect, BusyEntry
    DEF PressedIsTried, Entry, LedgerTypes, OuterTypes
  <2> QED
    BY <1>1, <1>5, <2>1, <2>2, SendBeginsEffect
    DEF ComposingIsUnpressed, Req, Reply, ThreadTypes, LedgerTypes
<1>6. ASSUME NEW c \in Threads, PressReturn(c) PROVE ComposingIsUnpressed'
  <2>1. \A d \in Threads : pc'[d] \notin Composing
    BY <1>1, <1>6 DEF PressReturn, LocksAreOwned, ThreadTypes
  <2> QED
    BY <2>1 DEF ComposingIsUnpressed
<1>7. ASSUME NEW c \in Threads, Settling(c) PROVE ComposingIsUnpressed'
  <2>1. \A d \in Threads : pc'[d] \notin Composing
    BY <1>1, <1>7, SettlingEffect, SettleEffect DEF LocksAreOwned, ThreadTypes
  <2> QED
    BY <2>1 DEF ComposingIsUnpressed
<1>8. ASSUME NEW c \in Threads, StatusScans(c) PROVE ComposingIsUnpressed'
  <2>1. \A d \in Threads : pc'[d] \notin Composing
    BY <1>1, <1>8, StatusScansEffect, SettleEffect, ChatSenderConstants
    DEF Reply, LocksAreOwned, ThreadTypes
  <2> QED
    BY <2>1 DEF ComposingIsUnpressed
<1>9. CASE Crash
  BY <1>9 DEF Crash, ComposingIsUnpressed
<1>10. CASE Outside \/ (\E b \in Barriers : Stopping(b)) \/ UNCHANGED vars
  <2>1. UNCHANGED <<pc, call, mem, disk, presses>>
    BY <1>10
    DEF Outside, RowAppears, RowLost, HumanSends, ThirtySecondsPass,
        SelfCheck, Stopping, RequestBarrier, TakeRoomForBarrier,
        InsertBarrier, vars
  <2> QED
    BY <1>1, <2>1, ComposingFrame
<1> QED
  BY <1>2, <1>3, <1>4, <1>5, <1>6, <1>7, <1>8, <1>9, <1>10, StepKinds

LEMMA PressedIsTriedStep ==
    ASSUME SenderInv, [Next]_vars
    PROVE  PressedIsTried'
<1> USE DEF PressedIsTried
<1>1. /\ PressedIsTried /\ LedgerTypes /\ OuterTypes
      /\ ComposingIsUnpressed /\ SenderInv
  BY DEF SenderInv, TypeOK
<1>2. ASSUME NEW c \in Threads, Asking(c) \/ Answering(c) \/ Moving(c)
      PROVE  PressedIsTried'
  <2>1. UNCHANGED <<mem, disk, presses>>
    BY <1>2
    DEF Asking, CallSend, CallRefused, CallStatus, Respond,
        Answering, SendKnown, BaselineUnreadable, RefuseResend, ScanRaises,
        StatusKnown, Moving, SendAgain, PassCheck, TakeRoom, PassLastCheck,
        UIFails
  <2> QED
    BY <1>1, <2>1
<1>3. ASSUME NEW c \in Threads, SendBegins(c) PROVE PressedIsTried'
  <2>1. Req(c) \in Requests /\ presses[Req(c)] = 0
    BY <1>1, <1>3, SendBeginsEffect, BusyEntry DEF Entry
  <2> QED
    BY <1>1, <1>3, <2>1, SendBeginsEffect DEF LedgerTypes
<1>4. ASSUME NEW c \in Threads, PressReturn(c) PROVE PressedIsTried'
  <2>1. /\ Req(c) \in Requests /\ presses[Req(c)] = 0
        /\ mem[Req(c)].status = "sending" /\ disk[Req(c)].status = "sending"
    BY <1>1, <1>4, BusyEntry DEF PressReturn, ComposingIsUnpressed
  <2> QED
    BY <1>1, <1>4, <2>1 DEF PressReturn, OuterTypes
<1>5. ASSUME NEW c \in Threads, Settling(c) PROVE PressedIsTried'
  <2>1. PICK e \in Entries, v \in {"sent", "uncertain", "suppressed"} :
          /\ Settle(c, e, v) /\ e.status = v /\ pc[c] \in Holding
          /\ v = "suppressed" => presses[Req(c)] = 0
          /\ UNCHANGED presses
    BY <1>1, <1>5, SettlingEffect
  <2>2. Req(c) \in Requests
    BY <1>1, <2>1, BusyEntry
  <2>3. mem' = [mem EXCEPT ![Req(c)] = e] /\ disk' \in {disk, mem'}
    BY <2>1, SettleEffect
  <2> QED
    BY <1>1, <2>1, <2>2, <2>3 DEF LedgerTypes
<1>6. ASSUME NEW c \in Threads, StatusScans(c) PROVE PressedIsTried'
  <2>1. CASE UNCHANGED ledgerVars
    BY <1>1, <1>6, <2>1, StatusScansEffect
  <2>2. CASE \E e \in Entries : Settle(c, e, "confirmed") /\ e.status = "sent"
    <3>1. PICK e \in Entries : Settle(c, e, "confirmed") /\ e.status = "sent"
      BY <2>2
    <3>2. mem' = [mem EXCEPT ![Req(c)] = e] /\ disk' \in {disk, mem'}
      BY <3>1, SettleEffect
    <3>3. UNCHANGED presses
      BY <1>1, <1>6, StatusScansEffect
    <3> QED
      BY <1>1, <3>1, <3>2, <3>3 DEF LedgerTypes
  <2> QED
    BY <1>1, <1>6, <2>1, <2>2, StatusScansEffect
<1>7. CASE Crash
  BY <1>1, <1>7 DEF Crash
<1>8. CASE Outside \/ (\E b \in Barriers : Stopping(b)) \/ UNCHANGED vars
  <2>1. UNCHANGED <<mem, disk, presses>>
    BY <1>8
    DEF Outside, RowAppears, RowLost, HumanSends, ThirtySecondsPass,
        SelfCheck, Stopping, RequestBarrier, TakeRoomForBarrier,
        InsertBarrier, vars
  <2> QED
    BY <1>1, <2>1
<1> QED
  BY <1>2, <1>3, <1>4, <1>5, <1>6, <1>7, <1>8, StepKinds

\* A step that commits no barrier, leaves the ledger alone and brings no
\* thread to its press.
LEMMA PressFrame ==
    ASSUME PressIsUnblocked, UNCHANGED mem,
           \A b \in Barriers : barrier'[b] = "committed" =>
                                 barrier[b] = "committed",
           \A c \in Threads : pc'[c] = "press" =>
                                pc[c] = "press" /\ call'[c] = call[c]
    PROVE  PressIsUnblocked'
  BY DEF PressIsUnblocked, Entry, Req, Blocked

LEMMA PressIsUnblockedStep ==
    ASSUME SenderInv, [Next]_vars
    PROVE  PressIsUnblocked'
<1>1. PressIsUnblocked /\ ThreadTypes /\ LocksAreOwned /\ SenderInv
  BY DEF SenderInv, TypeOK
<1>2. ASSUME NEW c \in Threads, Asking(c) PROVE PressIsUnblocked'
  BY <1>1, <1>2, PressFrame
  DEF Asking, CallSend, CallRefused, CallStatus, Respond, ThreadTypes
<1>3. ASSUME NEW c \in Threads, Answering(c) PROVE PressIsUnblocked'
  BY <1>1, <1>3, PressFrame
  DEF Answering, SendKnown, BaselineUnreadable, RefuseResend, ScanRaises,
      StatusKnown, Reply, ThreadTypes
<1>4. ASSUME NEW c \in Threads, Moving(c) PROVE PressIsUnblocked'
  <2>1. CASE PassLastCheck(c)
    BY <1>1, <2>1
    DEF PassLastCheck, PressIsUnblocked, Entry, Req, Blocked, ThreadTypes
  <2>2. CASE SendAgain(c) \/ PassCheck(c) \/ TakeRoom(c) \/ UIFails(c)
    BY <1>1, <2>2, PressFrame
    DEF SendAgain, PassCheck, TakeRoom, UIFails, ThreadTypes
  <2> QED
    BY <1>4, <2>1, <2>2 DEF Moving
<1>5. ASSUME NEW c \in Threads,
             SendBegins(c) \/ PressReturn(c) \/ Settling(c) \/ StatusScans(c)
      PROVE  PressIsUnblocked'
  <2>1. CASE SendBegins(c)
    <3>1. \A d \in Threads : pc'[d] # "press"
      BY <1>1, <2>1, SendBeginsEffect, ChatSenderConstants
      DEF LocksAreOwned, Reply, ThreadTypes
    <3> QED
      BY <3>1 DEF PressIsUnblocked
  <2>2. CASE PressReturn(c)
    BY <1>1, <2>2, PressFrame DEF PressReturn, ThreadTypes
  <2>3. CASE Settling(c)
    <3>1. \A d \in Threads : pc'[d] # "press"
      BY <1>1, <2>3, SettlingEffect, SettleEffect
      DEF LocksAreOwned, ThreadTypes
    <3> QED
      BY <3>1 DEF PressIsUnblocked
  <2>4. CASE StatusScans(c)
    <3>1. \A d \in Threads : pc'[d] # "press"
      BY <1>1, <2>4, StatusScansEffect, SettleEffect, ChatSenderConstants
      DEF LocksAreOwned, Reply, ThreadTypes
    <3> QED
      BY <3>1 DEF PressIsUnblocked
  <2> QED
    BY <1>5, <2>1, <2>2, <2>3, <2>4
<1>6. ASSUME NEW b \in Barriers, Stopping(b) PROVE PressIsUnblocked'
  <2>1. CASE RequestBarrier(b) \/ TakeRoomForBarrier(b)
    BY <1>1, <2>1, PressFrame
    DEF RequestBarrier, TakeRoomForBarrier, ThreadTypes
  <2>2. CASE InsertBarrier(b)
    <3>1. \A d \in Threads : pc'[d] # "press"
      BY <1>1, <2>2, ChatSenderConstants
      DEF InsertBarrier, LocksAreOwned
    <3> QED
      BY <3>1 DEF PressIsUnblocked
  <2> QED
    BY <1>6, <2>1, <2>2 DEF Stopping
<1>7. CASE Crash
  BY <1>7 DEF Crash, PressIsUnblocked
<1>8. CASE Outside \/ UNCHANGED vars
  <2>1. UNCHANGED <<pc, call, mem, barrier>>
    BY <1>8
    DEF Outside, RowAppears, RowLost, HumanSends, ThirtySecondsPass,
        SelfCheck, vars
  <2> QED
    BY <1>1, <2>1, PressFrame
<1> QED
  BY <1>2, <1>3, <1>4, <1>5, <1>6, <1>7, <1>8, StepKinds

-----------------------------------------------------------------------------
(* Theorems *)

LEMMA InitSenderInv == Init => SenderInv
<1> SUFFICES ASSUME Init PROVE SenderInv
  OBVIOUS
<1>1. ThreadTypes
  BY DEF Init, ThreadTypes
<1>2. NoEntry \in Entries
  BY DEF NoEntry, Entries, Statuses
<1>3. LedgerTypes
  BY <1>2 DEF Init, LedgerTypes
<1>4. OuterTypes
  BY DEF Init, OuterTypes
<1>5. LocksAreOwned
  BY ChatSenderConstants DEF Init, LocksAreOwned
<1>6. /\ BusyThreadsHaveCalls /\ ComposingIsUnpressed /\ PressedIsTried
      /\ PressIsUnblocked
  BY DEF Init, BusyThreadsHaveCalls, ComposingIsUnpressed, PressedIsTried,
         PressIsUnblocked
<1> QED
  BY <1>1, <1>3, <1>4, <1>5, <1>6 DEF SenderInv, TypeOK

\* The inductive invariant holds: types, ownership of the two locks, and that
\* a request about to be pressed is on disk as sending and unpressed.
THEOREM SenderInvHolds == Spec => []SenderInv
<1>1. SenderInv /\ [Next]_vars => SenderInv'
  BY ThreadTypesStep, LedgerTypesStep, OuterTypesStep, LocksAreOwnedStep,
     BusyThreadsHaveCallsStep, ComposingIsUnpressedStep, PressedIsTriedStep,
     PressIsUnblockedStep
  DEF SenderInv, TypeOK
<1> QED
  BY <1>1, InitSenderInv, PTL DEF Spec

\* No text is submitted twice: not by a retry, not by a second thread, not by
\* a process that crashed, or failed to save its ledger, and started again.
THEOREM PressedAtMostOnce == Spec => []AtMostOnePress
<1>1. SenderInv => AtMostOnePress
  BY DEF SenderInv, TypeOK, OuterTypes, PressedIsTried, AtMostOnePress
<1> QED
  BY <1>1, SenderInvHolds, PTL

\* Whatever reached WeChat is on disk as tried.
THEOREM PressedIsOnDisk == Spec => []PressIsOnDisk
<1>1. SenderInv => PressIsOnDisk
  BY DEF SenderInv, TypeOK, OuterTypes, PressedIsTried, PressIsOnDisk
<1> QED
  BY <1>1, SenderInvHolds, PTL

\* No text is submitted once a stop that covers it is committed.
THEOREM StopsAreRespected == Spec => PressRespectsBarrier
<1>1. SenderInv /\ [Next]_vars =>
        \A r \in Requests : presses'[r] # presses[r] => ~Blocked(mem[r].item)
  <2> SUFFICES ASSUME SenderInv, [Next]_vars, NEW r \in Requests,
                      presses'[r] # presses[r]
               PROVE  ~Blocked(mem[r].item)
    OBVIOUS
  <2>1. PICK c \in Threads : PressReturn(c)
    BY DEF Next, Handle, Commit, CallSend, CallRefused, CallStatus, Respond,
           SendKnown, SendAgain, SendBegins, BaselineUnreadable, PassCheck,
           TakeRoom, PassLastCheck, Suppress, UIFails, ConfirmFound,
           ConfirmTimeout, RefuseResend, ScanRaises, StatusKnown, StatusScans,
           RequestBarrier, TakeRoomForBarrier, InsertBarrier, RowAppears,
           RowLost, HumanSends, ThirtySecondsPass, SelfCheck, Crash, vars
  <2>2. Req(c) = r
    BY <2>1 DEF PressReturn, SenderInv, TypeOK, OuterTypes
  <2> QED
    BY <2>1, <2>2 DEF PressReturn, SenderInv, PressIsUnblocked, Entry
<1> QED
  BY <1>1, SenderInvHolds, PTL DEF Spec, PressRespectsBarrier

\* "suppressed" and "not_submitted" are only said of texts not submitted.
THEOREM NegativeAnswersHold == Spec => NegativeAnswersAreTrue
<1>1. ASSUME SenderInv, [Next]_vars, NEW c \in Threads,
             pc[c] # "reply", pc'[c] = "reply",
             answer'[c] \in {"suppressed", "not_submitted"}
      PROVE  presses[Req(c)] = 0
  <2>1. /\ ThreadTypes /\ ComposingIsUnpressed /\ PressedIsTried
        /\ BusyThreadsHaveCalls
    BY <1>1 DEF SenderInv, TypeOK
  <2>2. Suppress(c) \/ StatusKnown(c)
    <3>1. ASSUME NEW d \in Threads, Asking(d) PROVE FALSE
      BY <1>1, <2>1, <3>1
      DEF Asking, CallSend, CallRefused, CallStatus, Respond, ThreadTypes
    <3>2. ASSUME NEW d \in Threads, Answering(d), ~StatusKnown(d) PROVE FALSE
      BY <1>1, <2>1, <3>2
      DEF Answering, SendKnown, BaselineUnreadable, RefuseResend, ScanRaises,
          Reply, ThreadTypes
    <3>3. ASSUME NEW d \in Threads, StatusKnown(d) PROVE d = c
      BY <1>1, <2>1, <3>3 DEF StatusKnown, Reply, ThreadTypes
    <3>4. ASSUME NEW d \in Threads, Moving(d) \/ PressReturn(d) PROVE FALSE
      BY <1>1, <2>1, <3>4
      DEF Moving, SendAgain, PassCheck, TakeRoom, PassLastCheck, UIFails,
          PressReturn, ThreadTypes
    <3>5. ASSUME NEW d \in Threads, SendBegins(d) \/ StatusScans(d)
          PROVE  FALSE
      <4>1. CASE SendBegins(d)
        BY <1>1, <2>1, <4>1, SendBeginsEffect DEF Reply, ThreadTypes
      <4>2. CASE StatusScans(d)
        BY <1>1, <2>1, <4>2, StatusScansEffect, SettleEffect
        DEF Reply, ThreadTypes
      <4> QED
        BY <3>5, <4>1, <4>2
    <3>6. ASSUME NEW d \in Threads, Settling(d) PROVE Suppress(c)
      <4>1. CASE Suppress(d)
        BY <1>1, <2>1, <4>1, SettleEffect DEF Suppress, ThreadTypes
      <4>2. CASE ConfirmFound(d)
        BY <1>1, <2>1, <4>2, SettleEffect DEF ConfirmFound, ThreadTypes
      <4>3. CASE ConfirmTimeout(d)
        BY <1>1, <2>1, <4>3, SettleEffect DEF ConfirmTimeout, ThreadTypes
      <4> QED
        BY <3>6, <4>1, <4>2, <4>3 DEF Settling
    <3>7. ASSUME NEW b \in Barriers, Stopping(b) PROVE FALSE
      BY <1>1, <3>7
      DEF Stopping, RequestBarrier, TakeRoomForBarrier, InsertBarrier
    <3>8. ~Crash /\ ~Outside /\ ~(UNCHANGED vars)
      BY <1>1
      DEF Crash, Outside, RowAppears, RowLost, HumanSends, ThirtySecondsPass,
          SelfCheck, vars
    <3> QED
      BY <1>1, <3>1, <3>2, <3>3, <3>4, <3>5, <3>6, <3>7, <3>8, StepKinds
  <2>3. CASE Suppress(c)
    BY <2>1, <2>3 DEF Suppress, ComposingIsUnpressed
  <2>4. CASE StatusKnown(c)
    <3>1. pc[c] # "idle" /\ Req(c) \in Requests
      BY <1>1, <2>4, BusyEntry DEF StatusKnown
    <3>2. Entry(c).status \in {"none", "suppressed"}
      BY <1>1, <2>1, <2>4 DEF StatusKnown, Reply, ThreadTypes
    <3> QED
      BY <2>1, <3>1, <3>2 DEF PressedIsTried, Entry
  <2> QED
    BY <2>2, <2>3, <2>4
<1>2. SenderInv /\ [Next]_vars =>
        \A c \in Threads :
          pc[c] # "reply" /\ pc'[c] = "reply"
            /\ answer'[c] \in {"suppressed", "not_submitted"}
          => presses[Req(c)] = 0
  BY <1>1
<1> QED
  BY <1>2, SenderInvHolds, PTL DEF Spec, NegativeAnswersAreTrue
=============================================================================
