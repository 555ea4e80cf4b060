--------------------------- MODULE ChatTurnProofs ---------------------------
(***************************************************************************)
(* Theorems about ChatTurn, for any set of conversations, texts and limits *)
(* and any number of restarts.                                             *)
(***************************************************************************)
EXTENDS ChatTurn, FiniteSetTheorems, TLAPS

LEMMA SomeId == 1 \in Ids
<1>1. MaxMessages \in Nat \ {0}
  BY TurnConstants
<1>2. 3 * MaxMessages \in Nat /\ 3 * MaxMessages >= 1
  BY <1>1
<1> QED BY <1>2 DEF Ids

LEMMA IdsAreNumbers ==
    /\ \A m \in Ids, i \in Nat : i >= 1 /\ i <= m => i \in Ids
    /\ \A m \in Ids : m \in Nat /\ m > 0
    /\ Nobody \notin Ids /\ Worker \notin Ids /\ 0 \notin Ids /\ Nobody # Worker
<1>1. MaxMessages \in Nat
  BY TurnConstants
<1>2. 3 * MaxMessages \in Nat
  BY <1>1
<1> QED BY <1>2 DEF Ids, Nobody, Worker

LEMMA TextsAreReplies ==
    /\ Lines \subseteq Replies /\ "" \in Replies /\ "fixed" \in Replies
    /\ Texts \subseteq Replies
BY DEF Lines, Replies

-----------------------------------------------------------------------------
(* Types *)

RowType == [by : AllKinds \cup {"reply", "followup", "notice"},
            src : Ids \cup {0}, text : Replies]
Responses == [status : {"none", "ignored", "failed", "canceled", "succeeded"},
            text : Replies]
Listeners == [observed : Ids \cup {0}, reply : Ids \cup {0}, turns : Nat]
SaidLines == [id : Ids, text : Replies]
Followups == [status : {"none", "prepared", "sending", "confirmed", "uncertain",
                        "suppressed", "failed"},
              main : Replies, text : Replies]
Workers == [pc : {"idle", "generate", "lock", "model", "look", "post", "posted"},
            id : Ids \cup {0}, sent : BOOLEAN]

GroupTypes == rows \in Seq(RowType) /\ done \subseteq Ids /\ fence \in Ids \cup {0}
LedgerTypes ==
    /\ inbound \in [Ids -> {"none", "processing", "stale", "completed"}]
    /\ answer \in [Ids -> Responses]
HandlerTypes ==
    /\ pc \in [Ids -> {"idle", "stopping", "stopped", "barrier", "lock", "session",
                       "model", "clear"}]
    /\ out \in [Ids -> Replies] /\ seen \in [Ids -> SUBSET Replies]
    /\ lock \in Ids \cup {Nobody, Worker}
SlotTypes == slots \in [Ids -> {"none", "recent", "old"}] /\ paused \in BOOLEAN
SpeechTypes == listener \in Listeners /\ timeline \subseteq SaidLines
FollowupTypes == followup \in [Ids -> Followups]
WorkerTypes == worker \in Workers /\ (worker.pc # "idle" => worker.id \in Ids)
CountTypes == calls \in [Ids -> Nat] /\ crashes \in Nat

\* TypeOK without the bound on the turns counted
Types ==
    /\ GroupTypes /\ LedgerTypes /\ HandlerTypes /\ SlotTypes /\ SpeechTypes
    /\ FollowupTypes /\ WorkerTypes /\ CountTypes

USE DEF groupVars, ledgerVars, roomVars, followupVars, countVars

LEMMA InitTypes == Init => Types
<1> SUFFICES ASSUME Init PROVE Types
  OBVIOUS
<1>1. NoAnswer \in Responses /\ NoFollowup \in Followups /\ Idle \in Workers
  BY TextsAreReplies DEF NoAnswer, Responses, NoFollowup, Followups, Idle, Workers
<1>2. GroupTypes
  <2>1. <<>> \in Seq(RowType)
    OBVIOUS
  <2> QED BY <2>1 DEF Init, GroupTypes
<1>3. LedgerTypes /\ FollowupTypes
  BY <1>1 DEF Init, LedgerTypes, FollowupTypes
<1>4. HandlerTypes
  BY TextsAreReplies DEF Init, HandlerTypes
<1>5. SlotTypes /\ SpeechTypes /\ CountTypes
  BY DEF Init, SlotTypes, SpeechTypes, Listeners, CountTypes
<1>6. WorkerTypes
  BY <1>1 DEF Init, WorkerTypes, Idle
<1> QED BY <1>2, <1>3, <1>4, <1>5, <1>6 DEF Types

\* The rows of the group are only added to.
Grows ==
    \/ rows' = rows
    \/ \E row \in RowType : rows' = Append(rows, row) /\ row.by \notin AllKinds
    \/ \E row \in RowType : /\ rows' = Append(rows, row) /\ row.by \in AllKinds
                            /\ Len(rows) + 1 \in Ids

LEMMA SubmitGrows ==
    ASSUME NEW by \in {"reply", "followup", "notice"}, NEW m \in Ids,
           NEW text \in Replies, Submit(by, m, text)
    PROVE  Grows
BY DEF Submit, Grows, RowType, AllKinds

LEMMA HumansGrow ==
    ASSUME Types, HumanWrites
    PROVE  /\ Grows
           /\ \E row \in RowType : rows' = Append(rows, row) /\ row.by \in AllKinds
<1> DEFINE spoken == Count(Len(rows))
<1>1. PICK c \in Conversations : spoken < Len(c) /\
          rows' = Append(rows, [by |-> c[spoken + 1], src |-> 0, text |-> ""])
  BY DEF HumanWrites
<1>2. spoken \in Nat
  <2>1. Len(rows) \in Nat /\ DOMAIN rows = 1..Len(rows)
    BY DEF Types, GroupTypes
  <2>2. IsFiniteSet(1..Len(rows))
    BY <2>1, FS_Interval
  <2>3. {j \in Messages : j <= Len(rows)} \subseteq 1..Len(rows)
    BY <2>1 DEF Messages
  <2> QED BY <2>2, <2>3, FS_Subset, FS_CardinalityType DEF Count
<1>3. c \in Seq(AllKinds)
  BY TurnConstants
<1> HIDE DEF spoken
<1>4. c[spoken + 1] \in AllKinds
  <2>1. spoken < Len(c)
    BY <1>1
  <2>2. Len(c) \in Nat
    BY <1>3
  <2>3. spoken + 1 \in 1..Len(c)
    BY <2>1, <2>2, <1>2
  <2> QED BY <2>3, <1>3
<1>5. [by |-> c[spoken + 1], src |-> 0, text |-> ""] \in RowType
  BY <1>4, TextsAreReplies DEF RowType
<1> QED BY <1>1, <1>4, <1>5 DEF HumanWrites, Grows

LEMMA AnswersHaveText ==
    ASSUME Types, NEW m \in Ids
    PROVE  /\ answer[m].text \in Replies
           /\ followup[m].text \in Replies /\ followup[m].main \in Replies
<1>1. answer[m] \in Responses /\ followup[m] \in Followups
  BY DEF Types, LedgerTypes, FollowupTypes
<1> QED BY <1>1 DEF Responses, Followups

LEMMA RowsGrow ==
    ASSUME Types, [Next]_vars
    PROVE  Grows
<1>1. ASSUME NEW m \in Ids, BridgePosts(m) PROVE Grows
  <2>1. CASE answer[m].text = ""
    BY <1>1, <2>1 DEF BridgePosts, Grows
  <2>2. CASE answer[m].text # ""
    <3>1. Submit("reply", m, answer[m].text)
      BY <1>1, <2>2 DEF BridgePosts
    <3> QED BY <3>1, AnswersHaveText, SubmitGrows
  <2> QED BY <2>1, <2>2
<1>2. ASSUME NEW m \in Ids, BridgeGivesUp(m) PROVE Grows
  BY <1>2, SubmitGrows, TextsAreReplies DEF BridgeGivesUp
<1>3. CASE WorkerPosts
  <2>1. worker.id \in Ids
    BY <1>3 DEF WorkerPosts, Types, WorkerTypes
  <2>2. Submit("followup", worker.id, followup[worker.id].text)
    BY <1>3 DEF WorkerPosts
  <2> QED BY <2>1, <2>2, AnswersHaveText, SubmitGrows
<1>4. CASE HumanWrites
  BY <1>4, HumansGrow
<1>5. CASE rows' = rows
  BY <1>5 DEF Grows
<1>6. CASE WorkerStep
  <2>1. WorkerPosts \/ rows' = rows
    BY <1>6 DEF WorkerStep, WorkerReconciles, WorkerGenerates, WorkerLocks,
         WorkerHears, WorkerLooks, WorkerConfirms, WorkerIsRefused, WorkerFails
  <2> QED BY <2>1, <1>3, <1>5
<1>7. ASSUME NEW m \in Ids, HandlerStep(m) PROVE Grows
  <2>1. rows' = rows
    BY <1>7 DEF HandlerStep, BarrierCommits, StopConfirmed, StopFails, CancelEnds, TurnBegins,
         TurnDeclines, ModelIsAsked, ModelAnswers, TurnEnds, ModelFails,
         TurnTimesOut, Apologizes
  <2> QED BY <2>1, <1>5
<1>8. ASSUME NEW m \in Ids,
             \/ AnswersAtOnce(m) \/ Waits(m) \/ HandlerDies(m)
             \/ WorkerTakes(m) \/ SlotAges(m)
      PROVE  Grows
  <2>1. rows' = rows
    BY <1>8 DEF AnswersAtOnce, Waits, Enter, HandlerDies, WorkerTakes, SlotAges
  <2> QED BY <2>1, <1>5
<1>9. CASE PauseEnds \/ Restart \/ UNCHANGED vars
  <2>1. rows' = rows
    BY <1>9 DEF PauseEnds, Restart, vars
  <2> QED BY <2>1, <1>5
<1> QED BY <1>1, <1>2, <1>4, <1>6, <1>7, <1>8, <1>9 DEF Next

LEMMA RowsKept ==
    ASSUME GroupTypes, Grows
    PROVE  /\ rows' \in Seq(RowType) /\ DOMAIN rows \subseteq DOMAIN rows'
           /\ \A i \in DOMAIN rows : rows'[i] = rows[i]
           /\ \A i \in DOMAIN rows' \ DOMAIN rows : i = Len(rows) + 1
<1>1. rows \in Seq(RowType)
  BY DEF GroupTypes
<1>2. CASE rows' = rows
  BY <1>1, <1>2
<1>3. CASE \E row \in RowType : rows' = Append(rows, row)
  <2>1. PICK row \in RowType : rows' = Append(rows, row)
    BY <1>3
  <2>2. /\ rows' \in Seq(RowType) /\ DOMAIN rows = 1..Len(rows)
        /\ DOMAIN rows' = 1..(Len(rows) + 1) /\ Len(rows) \in Nat
    BY <1>1, <2>1
  <2>3. \A i \in 1..Len(rows) : rows'[i] = rows[i]
    BY <1>1, <2>1
  <2> QED BY <2>2, <2>3
<1> QED BY <1>2, <1>3 DEF Grows

\* What a handler keeps and notes
LEMMA SavedTypes ==
    ASSUME Types, NEW m \in Ids, NEW text \in Replies,
           NEW status \in {"none", "ignored", "failed", "canceled", "succeeded"},
           Saved(m, status, text)
    PROVE  LedgerTypes'
<1>1. [status |-> status, text |-> text] \in Responses
  BY DEF Responses
<1> QED BY <1>1 DEF Saved, Types, LedgerTypes

LEMMA MarkedTypes ==
    ASSUME Types, NEW m \in Ids
    PROVE  Marked(m) \in Listeners /\ Observed(m) \in Listeners
<1>1. listener \in Listeners
  BY DEF Types, SpeechTypes
<1>2. ASSUME NEW o \in Ids \cup {0}, NEW r \in Ids \cup {0}, NEW t \in Nat
      PROVE  [observed |-> o, reply |-> r, turns |-> t] \in Listeners
  BY DEF Listeners
<1>3. /\ listener.observed \in Ids \cup {0} /\ listener.reply \in Ids \cup {0}
      /\ listener.turns \in Nat
  BY <1>1 DEF Listeners
<1>4. Observed(m) \in Listeners
  <2>1. listener.turns + 1 \in Nat
    BY <1>3
  <2>2. [observed |-> m, reply |-> listener.reply, turns |-> listener.turns + 1]
            \in Listeners
    BY <1>3, <2>1 DEF Listeners
  <2> QED BY <1>1, <2>2 DEF Observed
<1>5. Marked(m) \in Listeners
  BY <1>2, <1>3 DEF Marked
<1> QED BY <1>4, <1>5

LEMMA NoticedTypes ==
    ASSUME Types, NEW m \in Ids
    PROVE  Noticed(m) \in Listeners
<1>1. listener \in Listeners
  BY DEF Types, SpeechTypes
<1> QED BY <1>1, MarkedTypes DEF Noticed

LEMMA SaidTypes ==
    ASSUME Types, NEW m \in Ids, NEW text \in Replies, Said(m, text)
    PROVE  SpeechTypes'
<1>1. OwnLine(m, text) \in SaidLines
  BY DEF OwnLine, SaidLines
<1>2. listener' \in Listeners
  BY MarkedTypes DEF Said, Types, SpeechTypes
<1>3. timeline' \subseteq SaidLines
  BY <1>1 DEF Said, Types, SpeechTypes
<1> QED BY <1>2, <1>3 DEF SpeechTypes

LEMMA AnswersTypes ==
    ASSUME Types, NEW m \in Ids, NEW text \in Replies,
           NEW status \in {"failed", "canceled", "succeeded"},
           Answers(m, status, text) \/ KeepsQuiet(m)
    PROVE  LedgerTypes' /\ SpeechTypes'
<1>1. CASE Answers(m, status, text)
  BY <1>1, SavedTypes, SaidTypes DEF Answers
<1>2. CASE KeepsQuiet(m)
  <2>1. LedgerTypes'
    BY <1>2, SavedTypes, TextsAreReplies DEF KeepsQuiet
  <2> QED BY <1>2, <2>1 DEF KeepsQuiet, Types, SpeechTypes
<1> QED BY <1>1, <1>2

LEMMA LeaveTypes ==
    ASSUME Types, NEW m \in Ids, Leave(m)
    PROVE  HandlerTypes'
BY TextsAreReplies DEF Types, HandlerTypes, Leave

LEMMA ApologyTypes ==
    ASSUME Types, NEW m \in Ids, Apologizes(m)
    PROVE  Types'
<1>1. LedgerTypes' /\ SpeechTypes'
  BY AnswersTypes, TextsAreReplies DEF Apologizes
<1>2. HandlerTypes'
  BY LeaveTypes DEF Apologizes
<1> QED
  BY <1>1, <1>2 DEF Apologizes, Types, GroupTypes, SlotTypes, FollowupTypes,
     WorkerTypes, CountTypes

LEMMA SuppressedTypes ==
    ASSUME Types
    PROVE  Suppressed \in [Ids -> Followups]
<1>1. ASSUME NEW m \in Ids, NEW s \in {"suppressed"}
      PROVE  [followup[m] EXCEPT !.status = IF @ = "prepared" THEN s ELSE @]
                \in Followups
  <2>1. followup[m] \in Followups
    BY DEF Types, FollowupTypes
  <2> QED BY <2>1 DEF Followups
<1> QED BY <1>1 DEF Suppressed

LEMMA EnterTypes ==
    ASSUME Types, NEW m \in Ids, Enter(m)
    PROVE  /\ GroupTypes' /\ SlotTypes' /\ FollowupTypes' /\ WorkerTypes'
           /\ CountTypes'
<1>1. FollowupTypes'
  BY SuppressedTypes DEF Enter, Types, FollowupTypes
<1> QED BY <1>1 DEF Enter, Types, GroupTypes, SlotTypes, WorkerTypes, CountTypes

LEMMA BeginTypes ==
    ASSUME Types, NEW m \in Ids, AnswersAtOnce(m) \/ Waits(m)
    PROVE  Types'
<1>0. /\ GroupTypes' /\ SlotTypes' /\ FollowupTypes' /\ WorkerTypes' /\ CountTypes'
  BY EnterTypes DEF AnswersAtOnce, Waits
<1>1. CASE AnswersAtOnce(m)
  <2>1. HandlerTypes'
    BY <1>1 DEF AnswersAtOnce, Types, HandlerTypes
  <2>2. CASE Kind(m) \in {"mention", "cancel"}
    <3>1. \E status \in {"failed", "succeeded"} :
              Answers(m, status, "fixed") \/ KeepsQuiet(m)
      BY <1>1, <2>2 DEF AnswersAtOnce
    <3>2. LedgerTypes' /\ SpeechTypes'
      BY <3>1, AnswersTypes, TextsAreReplies
    <3> QED BY <3>2, <1>0, <2>1 DEF Types
  <2>3. CASE Kind(m) = "command"
    <3>1. Saved(m, "ignored", "fixed") /\ UNCHANGED <<timeline, listener>>
      BY <1>1, <2>3 DEF AnswersAtOnce
    <3>2. LedgerTypes' /\ SpeechTypes'
      BY <3>1, SavedTypes, TextsAreReplies DEF Types, SpeechTypes
    <3> QED BY <3>2, <1>0, <2>1 DEF Types
  <2>4. CASE Kind(m) \notin {"mention", "cancel", "command"}
    <3>1. /\ Saved(m, "ignored", "")
          /\ UNCHANGED timeline /\ listener' = Noticed(m)
      BY <1>1, <2>4 DEF AnswersAtOnce
    <3>2. LedgerTypes' /\ SpeechTypes'
      BY <3>1, SavedTypes, NoticedTypes, TextsAreReplies DEF Types, SpeechTypes
    <3> QED BY <3>2, <1>0, <2>1 DEF Types
  <2> QED BY <2>2, <2>3, <2>4
<1>2. CASE Waits(m)
  <2>1. LedgerTypes'
    BY <1>2 DEF Waits, Types, LedgerTypes
  <2>2. SpeechTypes'
    BY <1>2, NoticedTypes DEF Waits, Types, SpeechTypes
  <2>3. OwnLinesBefore(m) \subseteq Replies
    BY DEF OwnLinesBefore, SaidLines, Types, SpeechTypes
  <2>4. PICK lines \in SUBSET Replies : seen' = [seen EXCEPT ![m] = lines]
    BY <1>2, <2>3 DEF Waits, Compared
  <2>5. HandlerTypes'
    BY <1>2, <2>4 DEF Waits, Types, HandlerTypes
  <2> QED BY <1>0, <2>1, <2>2, <2>5 DEF Types
<1> QED BY <1>1, <1>2

LEMMA StopTypes ==
    ASSUME Types, NEW m \in Ids,
           BarrierCommits(m) \/ StopConfirmed(m) \/ StopFails(m) \/ CancelEnds(m)
    PROVE  Types'
<1>1. CASE BarrierCommits(m)
  <2>1. HandlerTypes' /\ GroupTypes'
    BY <1>1 DEF BarrierCommits, Types, HandlerTypes, GroupTypes
  <2> QED BY <1>1, <2>1 DEF BarrierCommits, Types, LedgerTypes, SlotTypes,
            SpeechTypes, FollowupTypes, WorkerTypes, CountTypes
<1>2. CASE StopConfirmed(m)
  <2>1. LedgerTypes' /\ SpeechTypes'
    BY <1>2, AnswersTypes, TextsAreReplies DEF StopConfirmed
  <2>2. HandlerTypes'
    BY <1>2, LeaveTypes DEF StopConfirmed
  <2>3. SlotTypes' /\ FollowupTypes'
    BY <1>2, SuppressedTypes DEF StopConfirmed, Types, SlotTypes, FollowupTypes
  <2> QED BY <1>2, <2>1, <2>2, <2>3 DEF StopConfirmed, Types, GroupTypes,
            WorkerTypes, CountTypes
<1>3. CASE StopFails(m) \/ CancelEnds(m)
  <2>1. LedgerTypes' /\ SpeechTypes'
    BY <1>3, AnswersTypes, TextsAreReplies DEF StopFails, CancelEnds
  <2>2. HandlerTypes'
    BY <1>3, LeaveTypes DEF StopFails, CancelEnds
  <2> QED BY <1>3, <2>1, <2>2 DEF StopFails, CancelEnds, Types, GroupTypes,
            SlotTypes, FollowupTypes, WorkerTypes, CountTypes
<1> QED BY <1>1, <1>2, <1>3

LEMMA PreparedTypes ==
    ASSUME Types, NEW m \in Ids, NEW line \in Lines, ModelAnswers(m, line)
    PROVE  FollowupTypes'
<1>1. CASE UNCHANGED followup
  BY <1>1 DEF Types, FollowupTypes
<1>2. CASE \E second \in {""} \cup (Texts \ ({line} \cup seen[m])) :
              followup' = [followup EXCEPT ![m] =
                  [status |-> "prepared", main |-> line, text |-> second]]
  <2>1. PICK second \in {""} \cup (Texts \ ({line} \cup seen[m])) :
            followup' = [followup EXCEPT ![m] =
                [status |-> "prepared", main |-> line, text |-> second]]
    BY <1>2
  <2>2. second \in Replies /\ line \in Replies
    BY TextsAreReplies
  <2>3. [status |-> "prepared", main |-> line, text |-> second] \in Followups
    BY <2>2 DEF Followups
  <2> QED BY <2>1, <2>3 DEF Types, FollowupTypes
<1> QED BY <1>1, <1>2 DEF ModelAnswers

LEMMA TurnTypes ==
    ASSUME Types, NEW m \in Ids,
           \/ TurnBegins(m) \/ TurnDeclines(m) \/ ModelIsAsked(m)
           \/ (\E line \in Lines : ModelAnswers(m, line))
           \/ TurnEnds(m) \/ ModelFails(m) \/ TurnTimesOut(m) \/ HandlerDies(m)
    PROVE  Types'
<1>0. out[m] \in Replies
  BY DEF Types, HandlerTypes
<1>1. CASE TurnBegins(m)
  <2>1. HandlerTypes' /\ SlotTypes'
    BY <1>1 DEF TurnBegins, Types, HandlerTypes, SlotTypes
  <2> QED BY <1>1, <2>1 DEF TurnBegins, Types, GroupTypes, LedgerTypes,
            SpeechTypes, FollowupTypes, WorkerTypes, CountTypes
<1>2. CASE TurnDeclines(m)
  <2>1. LedgerTypes' /\ SpeechTypes'
    BY <1>2, AnswersTypes, TextsAreReplies DEF TurnDeclines
  <2>2. HandlerTypes'
    BY <1>2, LeaveTypes DEF TurnDeclines
  <2> QED BY <1>2, <2>1, <2>2 DEF TurnDeclines, Types, GroupTypes, SlotTypes,
            FollowupTypes, WorkerTypes, CountTypes
<1>3. CASE ModelIsAsked(m)
  <2>1. HandlerTypes' /\ CountTypes'
    BY <1>3 DEF ModelIsAsked, Types, HandlerTypes, CountTypes
  <2> QED BY <1>3, <2>1 DEF ModelIsAsked, Types, GroupTypes, LedgerTypes,
            SpeechTypes, SlotTypes, FollowupTypes, WorkerTypes
<1>4. ASSUME NEW line \in Lines, ModelAnswers(m, line) PROVE Types'
  <2>1. FollowupTypes'
    BY <1>4, PreparedTypes
  <2>2. HandlerTypes'
    BY <1>4, TextsAreReplies DEF ModelAnswers, Types, HandlerTypes
  <2> QED BY <1>4, <2>1, <2>2 DEF ModelAnswers, Types, GroupTypes, LedgerTypes,
            SpeechTypes, SlotTypes, WorkerTypes, CountTypes
<1>5. CASE TurnEnds(m)
  <2>1. Answers(m, "succeeded", out[m]) \/ KeepsQuiet(m)
    BY <1>5 DEF TurnEnds
  <2>2. LedgerTypes' /\ SpeechTypes'
    BY <1>0, <2>1, AnswersTypes
  <2>3. HandlerTypes'
    BY <1>5, LeaveTypes DEF TurnEnds
  <2> QED BY <1>5, <2>2, <2>3 DEF TurnEnds, Types, GroupTypes, SlotTypes,
            FollowupTypes, WorkerTypes, CountTypes
<1>6. CASE ModelFails(m) \/ TurnTimesOut(m)
  BY <1>6, ApologyTypes DEF ModelFails, TurnTimesOut
<1>7. CASE HandlerDies(m)
  <2>1. HandlerTypes'
    BY <1>7, LeaveTypes DEF HandlerDies
  <2> QED BY <1>7, <2>1 DEF HandlerDies, Types, GroupTypes, LedgerTypes, SlotTypes,
            SpeechTypes, FollowupTypes, WorkerTypes, CountTypes
<1> QED BY <1>1, <1>2, <1>3, <1>4, <1>5, <1>6, <1>7

LEMMA FinishTypes ==
    ASSUME Types, worker.pc # "idle", NEW status \in {"confirmed", "uncertain",
               "suppressed", "failed"}, Finish(status)
    PROVE  FollowupTypes' /\ WorkerTypes'
<1>1. worker.id \in Ids
  BY DEF Types, WorkerTypes
<1>2. PICK m \in Ids : m = worker.id
  BY <1>1
<1>3. followup[m] \in Followups /\ followup \in [Ids -> Followups]
  BY DEF Types, FollowupTypes
<1>4. [followup[m] EXCEPT !.status = IF @ = "sending" THEN status ELSE @]
          \in Followups
  BY <1>3 DEF Followups
<1>5. followup' = [followup EXCEPT ![m] =
          [followup[m] EXCEPT !.status = IF @ = "sending" THEN status ELSE @]]
  BY <1>2, <1>3 DEF Finish, Finished
<1>6. FollowupTypes'
  BY <1>3, <1>4, <1>5 DEF FollowupTypes
<1>7. Idle \in Workers /\ Idle.pc = "idle"
  BY DEF Idle, Workers
<1>8. WorkerTypes'
  BY <1>7 DEF Finish, WorkerTypes
<1> QED BY <1>6, <1>8

LEMMA ClaimedTypes ==
    ASSUME Types, NEW m
    PROVE  Claimed(m) \in [Ids -> Followups]
<1>1. ASSUME NEW i \in Ids, NEW u \in {"uncertain"}, NEW s \in {"sending"}
      PROVE  [followup[i] EXCEPT !.status =
                 IF i = m THEN s ELSE IF @ = "sending" THEN u ELSE @] \in Followups
  <2>1. followup[i] \in Followups
    BY DEF Types, FollowupTypes
  <2> QED BY <2>1 DEF Followups
<1> QED BY <1>1 DEF Claimed

LEMMA TakeTypes ==
    ASSUME Types, NEW m \in Ids, WorkerTakes(m)
    PROVE  Types'
<1>1. Claimed(m) \in [Ids -> Followups]
  BY ClaimedTypes
<1>2. FollowupTypes'
  <2>1. CASE followup' = Claimed(m)
    BY <1>1, <2>1 DEF FollowupTypes
  <2>2. CASE followup' = Finished(Claimed(m), m, "suppressed")
    <3>1. PICK f \in [Ids -> Followups] : f = Claimed(m)
      BY <1>1
    <3>2. [f[m] EXCEPT !.status = IF @ = "sending" THEN "suppressed" ELSE @]
              \in Followups
      <4>1. f[m] \in Followups
        OBVIOUS
      <4> QED BY <4>1 DEF Followups
    <3>3. followup' = [f EXCEPT ![m] =
              [f[m] EXCEPT !.status = IF @ = "sending" THEN "suppressed" ELSE @]]
      BY <2>2, <3>1 DEF Finished
    <3> QED BY <3>2, <3>3 DEF FollowupTypes
  <2> QED BY <2>1, <2>2 DEF WorkerTakes
<1>3. WorkerTypes'
  <2>2. CASE UNCHANGED worker
    BY <2>2 DEF Types, WorkerTypes
  <2>3. CASE \E at \in {"look", "generate"} :
                worker' = [pc |-> at, id |-> m, sent |-> FALSE]
    <3>1. PICK at \in {"look", "generate"} :
              worker' = [pc |-> at, id |-> m, sent |-> FALSE]
      BY <2>3
    <3>2. [pc |-> at, id |-> m, sent |-> FALSE] \in Workers
      BY DEF Workers
    <3> QED BY <3>1, <3>2 DEF WorkerTypes
  <2>4. \/ UNCHANGED worker
        \/ \E at \in {"look", "generate"} :
              worker' = [pc |-> at, id |-> m, sent |-> FALSE]
    BY DEF WorkerTakes
  <2> QED BY <2>2, <2>3, <2>4
<1> QED BY <1>2, <1>3 DEF WorkerTakes, Types, GroupTypes, LedgerTypes, HandlerTypes,
          SlotTypes, SpeechTypes, CountTypes

LEMMA WorkerMoves ==
    ASSUME Types, worker.pc # "idle",
           NEW to \in {"lock", "model", "look", "post"}, worker' = [worker EXCEPT !.pc = to]
    PROVE  WorkerTypes'
<1>1. worker \in Workers /\ worker.id \in Ids
  BY DEF Types, WorkerTypes
<1>2. [worker EXCEPT !.pc = to] \in Workers
  BY <1>1 DEF Workers
<1>3. [worker EXCEPT !.pc = to].id = worker.id
  BY <1>1 DEF Workers
<1> QED BY <1>1, <1>2, <1>3 DEF WorkerTypes

LEMMA WorkerKeepsTypes ==
    ASSUME Types, WorkerStep
    PROVE  /\ HandlerTypes' /\ SpeechTypes' /\ FollowupTypes' /\ WorkerTypes'
           /\ UNCHANGED <<done, fence, inbound, answer, slots, paused, countVars>>
<1>1. CASE WorkerReconciles
  BY <1>1, ClaimedTypes DEF WorkerReconciles, Types, FollowupTypes, HandlerTypes,
     SpeechTypes, WorkerTypes
<1>2. CASE WorkerGenerates
  <2>1. FollowupTypes' /\ WorkerTypes'
    BY <1>2, FinishTypes, WorkerMoves DEF WorkerGenerates, Types, FollowupTypes
  <2> QED BY <1>2, <2>1 DEF WorkerGenerates, Types, HandlerTypes, SpeechTypes
<1>3. CASE WorkerLocks
  <2>1. WorkerTypes'
    BY <1>3, WorkerMoves DEF WorkerLocks
  <2> QED BY <1>3, <2>1 DEF WorkerLocks, Types, HandlerTypes, SpeechTypes,
            FollowupTypes
<1>4. ASSUME NEW line \in Lines, WorkerHears(line)
      PROVE  /\ HandlerTypes' /\ SpeechTypes' /\ FollowupTypes' /\ WorkerTypes'
             /\ UNCHANGED <<done, fence, inbound, answer, slots, paused, countVars>>
  <2>1. HandlerTypes' /\ SpeechTypes'
    BY <1>4 DEF WorkerHears, Types, HandlerTypes, SpeechTypes
  <2>2. CASE line \in {"", followup[worker.id].main}
    BY <1>4, <2>1, <2>2, FinishTypes DEF WorkerHears
  <2>3. CASE line \notin {"", followup[worker.id].main}
    <3>1. PICK m \in Ids : m = worker.id
      BY <1>4 DEF WorkerHears, Types, WorkerTypes
    <3>2. followup[m] \in Followups /\ followup \in [Ids -> Followups]
      BY DEF Types, FollowupTypes
    <3>3. [followup[m] EXCEPT !.text = line] \in Followups
      BY <3>2, TextsAreReplies DEF Followups
    <3>4. followup' = [followup EXCEPT ![m] = [followup[m] EXCEPT !.text = line]]
      BY <1>4, <2>3, <3>1, <3>2 DEF WorkerHears
    <3>5. FollowupTypes'
      BY <3>2, <3>3, <3>4 DEF FollowupTypes
    <3>6. WorkerTypes'
      BY <1>4, <2>3, WorkerMoves DEF WorkerHears
    <3> QED BY <1>4, <2>1, <3>5, <3>6 DEF WorkerHears
  <2> QED BY <2>2, <2>3
<1>5. CASE WorkerLooks
  <2>1. FollowupTypes' /\ WorkerTypes'
    BY <1>5, FinishTypes, WorkerMoves DEF WorkerLooks, Types, FollowupTypes
  <2> QED BY <1>5, <2>1 DEF WorkerLooks, Types, HandlerTypes, SpeechTypes
<1>6. CASE WorkerPosts
  <2>1. PICK sent \in BOOLEAN :
            worker' = [pc |-> "posted", id |-> worker.id, sent |-> sent]
    BY <1>6 DEF WorkerPosts
  <2>2. worker.id \in Ids
    BY <1>6 DEF WorkerPosts, Types, WorkerTypes
  <2>3. WorkerTypes'
    BY <2>1, <2>2 DEF WorkerTypes, Workers
  <2> QED BY <1>6, <2>3 DEF WorkerPosts, Types, HandlerTypes, SpeechTypes,
            FollowupTypes
<1>7. CASE WorkerConfirms
  <2>1. FollowupTypes' /\ WorkerTypes'
    BY <1>7, FinishTypes DEF WorkerConfirms
  <2>2. PICK m \in Ids : m = worker.id
    BY <1>7 DEF WorkerConfirms, Types, WorkerTypes
  <2>3. Said(m, followup[m].text) /\ followup[m].text \in Replies
    BY <1>7, <2>2, AnswersHaveText DEF WorkerConfirms
  <2>4. SpeechTypes'
    BY <2>3, SaidTypes
  <2> QED BY <1>7, <2>1, <2>4 DEF WorkerConfirms, Types, HandlerTypes
<1>8. CASE WorkerIsRefused
  <2>1. FollowupTypes' /\ WorkerTypes'
    BY <1>8, FinishTypes DEF WorkerIsRefused
  <2> QED BY <1>8, <2>1 DEF WorkerIsRefused, Types, HandlerTypes, SpeechTypes
<1>9. CASE WorkerFails
  <2>1. FollowupTypes' /\ WorkerTypes'
    BY <1>9, FinishTypes DEF WorkerFails
  <2> QED BY <1>9, <2>1 DEF WorkerFails, Types, HandlerTypes, SpeechTypes
<1> QED BY <1>1, <1>2, <1>3, <1>4, <1>5, <1>6, <1>7, <1>8, <1>9 DEF WorkerStep

LEMMA RestartTypes ==
    ASSUME Types, Restart
    PROVE  Types'
<1>1. LedgerTypes' /\ CountTypes'
  <2>1. ASSUME NEW m \in Ids
        PROVE  (IF inbound[m] = "processing" THEN "stale" ELSE inbound[m])
                  \in {"none", "processing", "stale", "completed"}
    BY DEF Types, LedgerTypes
  <2>2. LedgerTypes'
    BY <2>1 DEF Restart, Types, LedgerTypes
  <2>3. crashes + 1 \in Nat
    BY DEF Types, CountTypes
  <2> QED BY <2>2, <2>3 DEF Restart, Types, CountTypes
<1>2. HandlerTypes' /\ WorkerTypes'
  BY TextsAreReplies DEF Restart, HandlerTypes, WorkerTypes, Idle, Workers
<1> QED BY <1>1, <1>2 DEF Restart, Types, GroupTypes, SlotTypes, SpeechTypes,
          FollowupTypes

LEMMA NextTypes ==
    ASSUME Types, [Next]_vars
    PROVE  Types'
<1>1. rows' \in Seq(RowType)
  BY RowsGrow, RowsKept DEF Types
<1>2. CASE HumanWrites
  BY <1>1, <1>2 DEF HumanWrites, Types, GroupTypes, LedgerTypes, HandlerTypes,
     SlotTypes, SpeechTypes, FollowupTypes, WorkerTypes, CountTypes
<1>3. ASSUME NEW m \in Ids, BridgePosts(m) \/ BridgeGivesUp(m) PROVE Types'
  <2>1. GroupTypes'
    BY <1>1, <1>3 DEF BridgePosts, BridgeGivesUp, Types, GroupTypes
  <2> QED BY <1>3, <2>1 DEF BridgePosts, BridgeGivesUp, Types, LedgerTypes,
            HandlerTypes, SlotTypes, SpeechTypes, FollowupTypes, WorkerTypes,
            CountTypes
<1>4. CASE WorkerStep
  <2>1. GroupTypes'
    BY <1>1, <1>4, WorkerKeepsTypes DEF Types, GroupTypes
  <2> QED BY <1>4, <2>1, WorkerKeepsTypes DEF Types, LedgerTypes, SlotTypes,
            CountTypes
<1>5. ASSUME NEW m \in Ids, HandlerStep(m) PROVE Types'
  BY <1>5, StopTypes, TurnTypes DEF HandlerStep
<1>6. ASSUME NEW m \in Ids, SlotAges(m) PROVE Types'
  <2>1. SlotTypes'
    BY <1>6 DEF SlotAges, Types, SlotTypes
  <2> QED BY <1>6, <2>1 DEF SlotAges, Types, GroupTypes, LedgerTypes, HandlerTypes,
            SpeechTypes, FollowupTypes, WorkerTypes, CountTypes
<1>7. CASE PauseEnds \/ UNCHANGED vars
  BY <1>7 DEF PauseEnds, vars, Types, GroupTypes, LedgerTypes, HandlerTypes,
     SlotTypes, SpeechTypes, FollowupTypes, WorkerTypes, CountTypes
<1> QED BY <1>2, <1>3, <1>4, <1>5, <1>6, <1>7, BeginTypes, TurnTypes, TakeTypes,
          RestartTypes DEF Next

\* Every variable of ChatTurn keeps its type.
THEOREM TypesHold == Spec => []Types
<1>1. Types /\ [Next]_vars => Types'
  BY NextTypes
<1> QED BY <1>1, InitTypes, PTL DEF Spec

-----------------------------------------------------------------------------
(* The inductive invariant *)

\* What one message's handler, answer and turn have to do with each other
Known ==
    /\ Messages \subseteq Ids
    /\ \A m \in Ids : inbound[m] # "none" => m \in Messages

\* Nothing has happened to a message that has not come in.
Untouched ==
    \A m \in Ids : inbound[m] = "none" =>
        /\ answer[m] = NoAnswer /\ slots[m] = "none" /\ calls[m] = 0
        /\ followup[m].status = "none"

\* A stop is dealt with when it is answered, not before; a message that is not
\* urgent comes in when everything before it is dealt with.
InOrder ==
    /\ \A m \in done : m \in Messages
    /\ \A m \in done : Kind(m) = "stop" => inbound[m] = "completed"
    /\ \A m \in Ids : inbound[m] # "none" /\ Kind(m) \notin {"stop", "cancel"} =>
          \A i \in Messages : i < m => i \in done

\* Only stops are stopped, the fence is one of them, and a cancel has its own
\* barrier.
Stopped ==
    /\ fence # 0 => fence \in Messages /\ Kind(fence) = "stop"
    /\ \A m \in Ids : /\ pc[m] \in {"stopping", "stopped"} => Kind(m) = "stop"
                      /\ pc[m] = "stopped" => m <= fence
                      /\ pc[m] = "barrier" => Kind(m) = "cancel"

\* A turn on an unaddressed message has its slot before the model is asked.
Asked ==
    participating => \A m \in Messages : Kind(m) = "chat" =>
        /\ calls[m] \in {0, 1}
        /\ slots[m] = "none" => calls[m] = 0 /\ pc[m] # "session"
        /\ pc[m] = "session" => calls[m] = 0

\* In a pause, the unaddressed messages after the stop are without a turn.
Quiet ==
    paused =>
        /\ participating
        /\ \A m \in Messages : Kind(m) = "chat" /\ m > fence =>
              /\ answer[m].text = "" /\ followup[m].status = "none"
              /\ pc[m] \notin {"session", "model", "clear"}

\* The worker has taken a followup that nobody takes again.
Heard(m, i) ==
    \E j \in (m + 1)..(i - 1) : /\ rows[j].text = followup[m].main
                               /\ \A k \in (m + 1)..j : ~Human(k)
InFlight ==
    /\ worker.pc # "idle" =>
          followup[worker.id].status \notin {"none", "prepared"}
    /\ worker.pc = "post" => Heard(worker.id, Len(rows) + 1)
SaidOnce ==
    \A i \in DOMAIN rows : rows[i].by = "followup" =>
        /\ rows[i].src \in Ids
        /\ followup[rows[i].src].status \notin {"none", "prepared"}
        /\ worker.pc # "idle" /\ worker.id = rows[i].src => worker.pc = "posted"

-----------------------------------------------------------------------------
(* Messages are added at the end, and stay what they are. *)

LEMMA MessagesKept ==
    ASSUME Types, Known, Grows
    PROVE  /\ Messages \subseteq Messages' /\ Messages' \subseteq Ids
           /\ \A m \in Messages : Kind(m)' = Kind(m)
           /\ \A i \in Messages' \ Messages, m \in Messages : m < i
<1>1. /\ rows' \in Seq(RowType) /\ DOMAIN rows \subseteq DOMAIN rows'
      /\ \A i \in DOMAIN rows : rows'[i] = rows[i]
      /\ \A i \in DOMAIN rows' \ DOMAIN rows : i = Len(rows) + 1
  BY RowsKept DEF Types
<1>2. /\ rows \in Seq(RowType) /\ Len(rows) \in Nat /\ DOMAIN rows = 1..Len(rows)
      /\ Messages \subseteq DOMAIN rows
  BY DEF Types, GroupTypes, Messages
<1>3. \A m \in Messages : Kind(m)' = Kind(m)
  BY <1>1, <1>2 DEF Kind
<1>4. Messages \subseteq Messages'
  BY <1>1, <1>2 DEF Messages, Human
<1>5. \A i \in Messages' \ Messages : i = Len(rows) + 1
  BY <1>1, <1>2 DEF Messages, Human
<1>6. Messages' \subseteq Ids
  <2>1. CASE rows' = rows
    BY <2>1 DEF Messages, Human, Known
  <2>2. ASSUME NEW row \in RowType, rows' = Append(rows, row), row.by \notin AllKinds
        PROVE  Messages' \subseteq Messages
    <3>1. rows'[Len(rows) + 1] = row
      BY <1>2, <2>2
    <3> QED BY <3>1, <2>2, <1>5 DEF Messages, Human
  <2>3. CASE Len(rows) + 1 \in Ids
    BY <2>3, <1>5 DEF Known
  <2> QED BY <2>1, <2>2, <2>3 DEF Grows, Known
<1> QED BY <1>2, <1>3, <1>4, <1>5, <1>6

LEMMA NoNewMessage ==
    ASSUME Types, NEW by \in {"reply", "followup", "notice"}, NEW m \in Ids,
           NEW text \in Replies, Submit(by, m, text)
    PROVE  Messages' = Messages /\ \A i \in Messages : Kind(i)' = Kind(i)
<1>1. CASE rows' = rows
  BY <1>1 DEF Messages, Human, Kind
<1>2. CASE rows' = Append(rows, [by |-> by, src |-> m, text |-> text])
  <2>1. [by |-> by, src |-> m, text |-> text] \in RowType
    BY DEF RowType
  <2>2. PICK row \in RowType : row.by = by /\ rows' = Append(rows, row)
    BY <1>2, <2>1
  <2>3. rows \in Seq(RowType) /\ Len(rows) \in Nat /\ DOMAIN rows = 1..Len(rows)
    BY DEF Types, GroupTypes
  <2>4. /\ DOMAIN rows' = 1..(Len(rows) + 1) /\ rows'[Len(rows) + 1] = row
        /\ \A i \in 1..Len(rows) : rows'[i] = rows[i]
    BY <2>2, <2>3
  <2>5. by \notin AllKinds
    BY DEF AllKinds
  <2> QED BY <2>2, <2>3, <2>4, <2>5 DEF Messages, Human, Kind
<1> QED BY <1>1, <1>2 DEF Submit

LEMMA SameRows ==
    ASSUME rows' = rows
    PROVE  Messages' = Messages /\ \A m : Kind(m)' = Kind(m) /\ Passive(m)' = Passive(m)
BY DEF Messages, Human, Kind, Passive

-----------------------------------------------------------------------------
(* The ledger, the stops and the turns *)

Core ==
    /\ Known /\ Untouched /\ InOrder /\ Stopped
    /\ LockIsOwned /\ LedgerIsTrue /\ Asked /\ Quiet

LEMMA NoAnswerIsSilent == NoAnswer.text = "" /\ NoAnswer.status = "none"
BY DEF NoAnswer

LEMMA InitCore == Init => Core
<1> SUFFICES ASSUME Init PROVE Core
  OBVIOUS
<1>1. Messages = {} /\ NoAnswer.status = "none" /\ NoFollowup.status = "none"
  <2>1. DOMAIN rows = {}
    <3>1. rows = <<>>
      BY DEF Init
    <3> QED BY <3>1
  <2> QED BY <2>1 DEF Messages, NoAnswer, NoFollowup
<1> QED BY <1>1, IdsAreNumbers DEF Init, Core, Known, Untouched, InOrder, Stopped,
          LockIsOwned, LedgerIsTrue, Asked, Quiet, Idle

\* Whatever leaves the handlers, the ledger and the limits alone, and says
\* nothing about messages that have not come in
LEMMA CoreKept ==
    ASSUME Types, Core, Messages \subseteq Messages', Messages' \subseteq Ids,
           \A m \in Messages : Kind(m)' = Kind(m),
           \A i \in Messages' \ Messages, m \in Messages : m < i,
           UNCHANGED <<done, fence, inbound, answer, pc, lock, slots, paused, worker,
                       followup, calls>>
    PROVE  Core'
<1>0. \A m \in Ids : m \notin Messages => inbound[m] = "none"
  BY DEF Core, Known
<1>1. Known'
  BY DEF Core, Known
<1>2. Untouched'
  BY DEF Core, Untouched
<1>3. InOrder'
  BY IdsAreNumbers DEF Core, InOrder, Known
<1>4. Stopped'
  BY DEF Core, Stopped, Known, LedgerIsTrue
<1>5. LockIsOwned' /\ LedgerIsTrue'
  BY DEF Core, LockIsOwned, LedgerIsTrue
<1>6. Asked'
  <2>1. \A m \in Messages' \ Messages :
            slots[m] = "none" /\ calls[m] = 0 /\ pc[m] # "session"
    BY <1>0 DEF Core, Untouched, LedgerIsTrue
  <2> QED BY <2>1 DEF Core, Asked
<1>7. Quiet'
  <2>1. \A m \in Messages' \ Messages :
            answer[m].text = "" /\ followup[m].status = "none" /\ pc[m] = "idle"
    BY <1>0, NoAnswerIsSilent DEF Core, Untouched, LedgerIsTrue
  <2>2. SUFFICES ASSUME paused' PROVE Quiet'
    BY DEF Quiet
  <2>3. paused
    BY <2>2
  <2>4. /\ participating
        /\ \A m \in Messages : Kind(m) = "chat" /\ m > fence =>
              /\ answer[m].text = "" /\ followup[m].status = "none"
              /\ pc[m] \notin {"session", "model", "clear"}
    BY <2>3 DEF Core, Quiet
  <2> QED BY <2>1, <2>4 DEF Quiet
<1> QED BY <1>1, <1>2, <1>3, <1>4, <1>5, <1>6, <1>7 DEF Core

LEMMA GroupKeepsCore ==
    ASSUME Types, Core, NEW m \in Ids,
           HumanWrites \/ BridgePosts(m) \/ BridgeGivesUp(m)
    PROVE  Core'
<1>0. Known
  BY DEF Core
<1>1. CASE HumanWrites
  <2>1. Grows
    BY <1>1, HumansGrow
  <2> QED BY <1>0, <1>1, <2>1, MessagesKept, CoreKept DEF HumanWrites
<1>2. CASE BridgePosts(m) \/ BridgeGivesUp(m)
  <2>1. Messages' = Messages /\ \A i \in Messages : Kind(i)' = Kind(i)
    <3>1. CASE rows' = rows
      BY <3>1, SameRows
    <3>2. CASE Submit("reply", m, answer[m].text)
      BY <3>2, AnswersHaveText, NoNewMessage
    <3>3. CASE Submit("notice", m, "fixed")
      BY <3>3, TextsAreReplies, NoNewMessage
    <3> QED BY <1>2, <3>1, <3>2, <3>3 DEF BridgePosts, BridgeGivesUp
  <2>2. /\ m \in Messages /\ done' = done \cup {m}
        /\ Kind(m) = "stop" => inbound[m] = "completed"
        /\ UNCHANGED <<fence, inbound, answer, pc, lock, slots, paused, worker,
                       followup, calls>>
    BY <1>2 DEF BridgePosts, BridgeGivesUp, Current
  <2>3. Known' /\ Untouched' /\ LockIsOwned' /\ LedgerIsTrue'
    BY <2>1, <2>2 DEF Core, Known, Untouched, LockIsOwned, LedgerIsTrue
  <2>4. InOrder'
    BY <2>1, <2>2, <1>0 DEF Core, InOrder, Known
  <2>5. Stopped'
    BY <2>1, <2>2, <1>0 DEF Core, Stopped, Known, LedgerIsTrue
  <2>6. Asked' /\ Quiet'
    BY <2>1, <2>2 DEF Core, Asked, Quiet
  <2> QED BY <2>3, <2>4, <2>5, <2>6 DEF Core
<1> QED BY <1>1, <1>2

\* No followup starts or is forgotten.
NoneStarts ==
    \A m \in Ids : followup'[m].status = "none" <=> followup[m].status = "none"

LEMMA SuppressedStarts ==
    ASSUME Types, followup' = Suppressed
    PROVE  NoneStarts
<1>1. ASSUME NEW m \in Ids
      PROVE  followup'[m].status = "none" <=> followup[m].status = "none"
  <2>1. followup[m] \in Followups
    BY DEF Types, FollowupTypes
  <2>2. followup'[m] = [followup[m] EXCEPT !.status =
                           IF @ = "prepared" THEN "suppressed" ELSE @]
    BY DEF Suppressed
  <2> QED BY <2>1, <2>2 DEF Followups
<1> QED BY <1>1 DEF NoneStarts

LEMMA FinishStarts ==
    ASSUME Types, worker.pc # "idle", NEW status \in {"confirmed", "uncertain",
               "suppressed", "failed"}, Finish(status)
    PROVE  NoneStarts
<1>1. followup' = [followup EXCEPT ![worker.id].status =
                      IF @ = "sending" THEN status ELSE @]
  BY DEF Finish, Finished
<1>2. PICK n \in Ids : n = worker.id
  BY DEF Types, WorkerTypes
<1>3. ASSUME NEW m \in Ids
      PROVE  followup'[m].status = "none" <=> followup[m].status = "none"
  <2>1. followup[m] \in Followups /\ followup[n] \in Followups
        /\ followup \in [Ids -> Followups]
    BY DEF Types, FollowupTypes
  <2>2. followup'[m] = IF m = n
            THEN [followup[n] EXCEPT !.status = IF @ = "sending" THEN status ELSE @]
            ELSE followup[m]
    BY <1>1, <1>2, <2>1
  <2> QED BY <2>1, <2>2 DEF Followups
<1> QED BY <1>3 DEF NoneStarts

LEMMA ClaimedStarts ==
    ASSUME Types, NEW n, n \in Ids => followup[n].status # "none"
    PROVE  \A m \in Ids : Claimed(n)[m].status = "none" <=> followup[m].status = "none"
<1>1. ASSUME NEW m \in Ids
      PROVE  Claimed(n)[m].status = "none" <=> followup[m].status = "none"
  <2>1. followup[m] \in Followups
    BY DEF Types, FollowupTypes
  <2>2. Claimed(n)[m] = [followup[m] EXCEPT !.status =
            IF m = n THEN "sending" ELSE IF @ = "sending" THEN "uncertain" ELSE @]
    BY DEF Claimed
  <2> QED BY <2>1, <2>2 DEF Followups
<1> QED BY <1>1

LEMMA TakeStarts ==
    ASSUME Types, NEW n \in Ids, WorkerTakes(n)
    PROVE  NoneStarts
<1>1. \A m \in Ids : Claimed(n)[m].status = "none" <=> followup[m].status = "none"
  BY ClaimedStarts DEF WorkerTakes
<1>2. CASE followup' = Claimed(n)
  BY <1>1, <1>2 DEF NoneStarts
<1>3. CASE followup' = Finished(Claimed(n), n, "suppressed")
  <2>1. PICK f \in [Ids -> Followups] : f = Claimed(n)
    BY ClaimedTypes
  <2>2. ASSUME NEW m \in Ids
        PROVE  followup'[m].status = "none" <=> f[m].status = "none"
    <3>1. f[m] \in Followups /\ f[n] \in Followups
      OBVIOUS
    <3>2. followup'[m] = IF m = n
              THEN [f[n] EXCEPT !.status = IF @ = "sending" THEN "suppressed" ELSE @]
              ELSE f[m]
      BY <1>3, <2>1 DEF Finished
    <3> QED BY <3>1, <3>2 DEF Followups
  <2> QED BY <1>1, <2>1, <2>2 DEF NoneStarts
<1> QED BY <1>2, <1>3 DEF WorkerTakes

LEMMA WorkerStarts ==
    ASSUME Types, WorkerStep
    PROVE  NoneStarts
<1>1. CASE UNCHANGED followup
  BY <1>1 DEF NoneStarts
<1>2. CASE WorkerReconciles
  <2>1. 0 \notin Ids
    BY IdsAreNumbers
  <2> QED BY <1>2, <2>1, ClaimedStarts DEF WorkerReconciles, NoneStarts
<1>3. ASSUME worker.pc # "idle", NEW status \in {"confirmed", "uncertain",
                 "suppressed", "failed"}, Finish(status)
      PROVE  NoneStarts
  BY <1>3, FinishStarts
<1>4. CASE WorkerGenerates \/ WorkerLocks
  BY <1>1, <1>3, <1>4 DEF WorkerGenerates, WorkerLocks
<1>5. CASE \E line \in Lines : WorkerHears(line)
  <2>1. PICK line \in Lines : WorkerHears(line)
    BY <1>5
  <2>2. CASE line \in {"", followup[worker.id].main}
    BY <1>3, <2>1, <2>2 DEF WorkerHears
  <2>3. CASE line \notin {"", followup[worker.id].main}
    <3>1. PICK n \in Ids : n = worker.id
      BY <2>1 DEF WorkerHears, Types, WorkerTypes
    <3>2. followup' = [followup EXCEPT ![n].text = line]
      BY <2>1, <2>3, <3>1 DEF WorkerHears
    <3>3. ASSUME NEW m \in Ids
          PROVE  followup'[m].status = followup[m].status
      <4>1. followup \in [Ids -> Followups] /\ followup[n] \in Followups
        BY DEF Types, FollowupTypes
      <4>2. followup'[m] = IF m = n THEN [followup[n] EXCEPT !.text = line]
                                    ELSE followup[m]
        BY <3>2, <4>1
      <4> QED BY <4>1, <4>2 DEF Followups
    <3> QED BY <3>3 DEF NoneStarts
  <2> QED BY <2>2, <2>3
<1>6. CASE WorkerLooks \/ WorkerPosts
  BY <1>1, <1>3, <1>6 DEF WorkerLooks, WorkerPosts
<1>7. CASE WorkerConfirms \/ WorkerIsRefused \/ WorkerFails
  BY <1>3, <1>7 DEF WorkerConfirms, WorkerIsRefused, WorkerFails
<1> QED BY <1>2, <1>4, <1>5, <1>6, <1>7 DEF WorkerStep

LEMMA WorkerKeepsLock ==
    ASSUME Types, LockIsOwned, NEW m \in Ids, WorkerStep \/ WorkerTakes(m)
    PROVE  LockIsOwned' /\ UNCHANGED pc
<1>0. lock \in Ids \cup {Nobody, Worker} /\ worker \in Workers /\ Idle.pc = "idle"
  BY DEF Types, HandlerTypes, WorkerTypes, Idle
<1>1. CASE UNCHANGED <<pc, lock>> /\ (worker'.pc = "model" <=> worker.pc = "model")
  BY <1>1 DEF LockIsOwned
<1>2. CASE WorkerTakes(m)
  <2>1. UNCHANGED worker \/ worker' = [pc |-> "look", id |-> m, sent |-> FALSE]
           \/ worker' = [pc |-> "generate", id |-> m, sent |-> FALSE]
    BY <1>2 DEF WorkerTakes
  <2>2. worker.pc = "idle"
    BY <1>2 DEF WorkerTakes
  <2>3. worker'.pc # "model" /\ worker.pc # "model"
    BY <2>1, <2>2
  <2> QED BY <1>1, <1>2, <2>3 DEF WorkerTakes
<1>3. CASE WorkerReconciles \/ WorkerGenerates
  <2>1. worker'.pc # "model" /\ worker.pc # "model"
    BY <1>0, <1>3 DEF WorkerReconciles, WorkerGenerates, Finish, Workers
  <2> QED BY <1>1, <1>3, <2>1 DEF WorkerReconciles, WorkerGenerates
<1>4. CASE WorkerLocks
  <2>1. worker'.pc = "model" /\ lock' = Worker /\ lock = Nobody /\ pc' = pc
    BY <1>0, <1>4 DEF WorkerLocks, Workers
  <2> QED BY <2>1, IdsAreNumbers DEF LockIsOwned
<1>5. CASE \E line \in Lines : WorkerHears(line)
  <2>1. worker'.pc # "model" /\ lock' = Nobody /\ worker.pc = "model" /\ pc' = pc
    BY <1>0, <1>5 DEF WorkerHears, Finish, Workers
  <2> QED BY <2>1, IdsAreNumbers DEF LockIsOwned
<1>6. CASE WorkerLooks \/ WorkerPosts \/ WorkerConfirms \/ WorkerIsRefused
  <2>1. worker'.pc # "model" /\ worker.pc # "model"
    BY <1>0, <1>6 DEF WorkerLooks, WorkerPosts, WorkerConfirms, WorkerIsRefused,
       Finish, Workers
  <2> QED BY <1>1, <1>6, <2>1 DEF WorkerLooks, WorkerPosts, WorkerConfirms,
            WorkerIsRefused
<1>7. CASE WorkerFails
  <2>1. worker'.pc # "model" /\ pc' = pc
    BY <1>0, <1>7 DEF WorkerFails, Finish
  <2>2. CASE worker.pc = "model"
    <3>1. lock' = Nobody
      BY <1>7, <2>2 DEF WorkerFails
    <3> QED BY <2>1, <2>2, <3>1, IdsAreNumbers DEF LockIsOwned
  <2>3. CASE worker.pc # "model"
    BY <1>1, <1>7, <2>1, <2>3 DEF WorkerFails
  <2> QED BY <2>2, <2>3
<1> QED BY <1>2, <1>3, <1>4, <1>5, <1>6, <1>7 DEF WorkerStep

LEMMA WorkerKeepsCore ==
    ASSUME Types, Core, NEW m \in Ids, WorkerStep \/ WorkerTakes(m)
    PROVE  Core'
<1>1. Messages' = Messages /\ \A i \in Messages : Kind(i)' = Kind(i)
  <2>1. CASE rows' = rows
    BY <2>1, SameRows
  <2>2. CASE WorkerPosts
    <3>1. worker.id \in Ids /\ Submit("followup", worker.id, followup[worker.id].text)
      BY <2>2 DEF WorkerPosts, Types, WorkerTypes
    <3> QED BY <3>1, AnswersHaveText, NoNewMessage
  <2>3. rows' = rows \/ WorkerPosts
    BY DEF WorkerStep, WorkerTakes, WorkerReconciles, WorkerGenerates, WorkerLocks,
       WorkerHears, WorkerLooks, WorkerConfirms, WorkerIsRefused, WorkerFails
  <2> QED BY <2>1, <2>2, <2>3
<1>2. NoneStarts
  BY WorkerStarts, TakeStarts
<1>3. /\ LockIsOwned'
      /\ UNCHANGED <<pc, done, fence, inbound, answer, slots, paused, calls>>
  BY WorkerKeepsLock, WorkerKeepsTypes DEF Core, WorkerTakes
<1>4. Known' /\ InOrder' /\ Stopped' /\ LedgerIsTrue'
  BY <1>1, <1>3 DEF Core, Known, InOrder, Stopped, LedgerIsTrue
<1>5. Untouched'
  BY <1>2, <1>3 DEF Core, Untouched, NoneStarts
<1>6. Asked'
  BY <1>1, <1>3 DEF Core, Asked
<1>7. Quiet'
  <2>1. SUFFICES ASSUME paused' PROVE Quiet'
    BY DEF Quiet
  <2>2. paused
    BY <1>3, <2>1
  <2> QED BY <1>1, <1>2, <1>3, <2>2 DEF Core, Quiet, NoneStarts, Known
<1> QED BY <1>3, <1>4, <1>5, <1>6, <1>7 DEF Core

\* What is kept for a message is kept for no other.
LEMMA SavedHere ==
    ASSUME Types, NEW m \in Ids, NEW status, NEW text, Saved(m, status, text)
    PROVE  /\ \A i \in Ids : inbound'[i] = IF i = m THEN "completed" ELSE inbound[i]
           /\ \A i \in Ids \ {m} : answer'[i] = answer[i]
           /\ answer'[m].status = status /\ answer'[m].text = text
<1>1. answer \in [Ids -> Responses] /\ inbound \in
          [Ids -> {"none", "processing", "stale", "completed"}]
  BY DEF Types, LedgerTypes
<1>2. PICK a : a = [status |-> status, text |-> text]
  OBVIOUS
<1>3. answer' = [answer EXCEPT ![m] = a]
  BY <1>2 DEF Saved
<1>4. a.status = status /\ a.text = text
  BY <1>2
<1> QED BY <1>1, <1>3, <1>4 DEF Saved

LEMMA LeftHere ==
    ASSUME Types, LockIsOwned, NEW m \in Ids, Leave(m)
    PROVE  /\ \A i \in Ids : pc'[i] = IF i = m THEN "idle" ELSE pc[i]
           /\ UNCHANGED worker => LockIsOwned'
<1>1. pc' = [pc EXCEPT ![m] = "idle"] /\ lock' = IF lock = m THEN Nobody ELSE lock
  BY DEF Leave
<1>2. pc \in [Ids -> {"idle", "stopping", "stopped", "barrier", "lock", "session",
                      "model", "clear"}]
  BY DEF Types, HandlerTypes
<1>3. \A i \in Ids : pc'[i] = IF i = m THEN "idle" ELSE pc[i]
  BY <1>1, <1>2
<1>4. ASSUME UNCHANGED worker PROVE LockIsOwned'
  BY <1>1, <1>3, <1>4, IdsAreNumbers DEF LockIsOwned
<1> QED BY <1>3, <1>4

LEMMA EnterStarts ==
    ASSUME Types, NEW m \in Ids, Enter(m)
    PROVE  NoneStarts
<1>1. CASE UNCHANGED followup
  BY <1>1 DEF NoneStarts
<1> QED BY <1>1, SuppressedStarts DEF Enter

LEMMA BeginKeepsCore ==
    ASSUME Types, Core, NEW m \in Ids, AnswersAtOnce(m) \/ Waits(m)
    PROVE  Core'
<1>1. Enter(m)
  BY DEF AnswersAtOnce, Waits
<1>2. /\ rows' = rows /\ NoneStarts
      /\ UNCHANGED <<done, fence, lock, slots, paused, worker, calls>>
  BY <1>1, EnterStarts DEF Enter, AnswersAtOnce, Waits
<1>3. Messages' = Messages /\ \A i : Kind(i)' = Kind(i)
  BY <1>2, SameRows
<1>4. /\ m \in Messages \ done /\ inbound[m] \in {"none", "stale"}
      /\ Kind(m) \notin {"stop", "cancel"} => \A i \in Messages : i < m => i \in done
  BY <1>1 DEF Enter, Current, InTurn, Urgent, MayBegin
<1>5. pc[m] = "idle" /\ answer[m].status = "none"
  BY <1>4 DEF Core, LedgerIsTrue
<1>6. CASE AnswersAtOnce(m)
  <2>1. PICK status \in {"failed", "succeeded", "ignored"}, text \in {"", "fixed"} :
            Saved(m, status, text) /\ (Kind(m) = "chat" => text = "")
    <3>1. CASE Kind(m) \in {"mention", "cancel", "command"}
      <4>1. \E status \in {"failed", "succeeded", "ignored"}, text \in {"", "fixed"} :
                Saved(m, status, text)
        BY <1>6, <3>1 DEF AnswersAtOnce, Answers, KeepsQuiet
      <4> QED BY <3>1, <4>1
    <3>2. CASE Kind(m) \notin {"mention", "cancel", "command"}
      <4>1. Saved(m, "ignored", "")
        BY <1>6, <3>2 DEF AnswersAtOnce
      <4> QED BY <4>1
    <3> QED BY <3>1, <3>2
  <2>2. pc' = pc
    BY <1>6 DEF AnswersAtOnce
  <2>3. /\ \A i \in Ids : inbound'[i] = IF i = m THEN "completed" ELSE inbound[i]
        /\ \A i \in Ids \ {m} : answer'[i] = answer[i]
        /\ answer'[m].status = status /\ answer'[m].text = text
    BY <2>1, SavedHere
  <2>4. Known' /\ Stopped' /\ LockIsOwned' /\ LedgerIsTrue'
    <3>1. Known'
      BY <1>3, <1>4, <2>3 DEF Core, Known
    <3>2. Stopped' /\ LockIsOwned'
      BY <1>2, <1>3, <2>2 DEF Core, Stopped, LockIsOwned
    <3>3. LedgerIsTrue'
      BY <1>5, <2>1, <2>2, <2>3 DEF Core, LedgerIsTrue
    <3> QED BY <3>1, <3>2, <3>3
  <2>5. Untouched'
    BY <1>2, <2>3 DEF Core, Untouched, NoneStarts
  <2>6. InOrder'
    BY <1>2, <1>3, <1>4, <2>3, <1>1 DEF Core, InOrder, Types, GroupTypes
  <2>7. Asked'
    BY <1>2, <1>3, <2>2 DEF Core, Asked
  <2>8. Quiet'
    <3>1. SUFFICES ASSUME paused' PROVE Quiet'
      BY DEF Quiet
    <3>2. paused
      BY <1>2, <3>1
    <3> QED BY <1>2, <1>3, <2>1, <2>2, <2>3, <3>2 DEF Core, Quiet, NoneStarts, Known
  <2> QED BY <2>4, <2>5, <2>6, <2>7, <2>8 DEF Core
<1>7. CASE Waits(m)
  <2>1. /\ answer' = answer
        /\ \A i \in Ids : inbound'[i] = IF i = m THEN "processing" ELSE inbound[i]
        /\ \A i \in Ids \ {m} : pc'[i] = pc[i]
        /\ pc'[m] \in {"stopping", "barrier", "lock"}
        /\ pc'[m] = "stopping" => Kind(m) = "stop"
        /\ pc'[m] = "barrier" => Kind(m) = "cancel"
    BY <1>7 DEF Waits, Types, LedgerTypes, HandlerTypes
  <2>4. Known' /\ Stopped' /\ LedgerIsTrue'
    BY <1>2, <1>3, <1>4, <1>5, <2>1 DEF Core, Known, Stopped, LedgerIsTrue
  <2>5. LockIsOwned'
    BY <1>2, <1>5, <2>1 DEF Core, LockIsOwned
  <2>6. Untouched'
    BY <1>2, <2>1 DEF Core, Untouched, NoneStarts
  <2>7. InOrder'
    BY <1>2, <1>3, <1>4, <2>1 DEF Core, InOrder, Types, GroupTypes
  <2>8. Asked'
    BY <1>2, <1>3, <2>1 DEF Core, Asked, Known
  <2>9. Quiet'
    <3>1. SUFFICES ASSUME paused' PROVE Quiet'
      BY DEF Quiet
    <3>2. paused
      BY <1>2, <3>1
    <3> QED BY <1>2, <1>3, <2>1, <3>2 DEF Core, Quiet, NoneStarts, Known
  <2> QED BY <2>4, <2>5, <2>6, <2>7, <2>8, <2>9 DEF Core
<1> QED BY <1>6, <1>7

\* A handler ends with a response.
LEMMA EndKeepsCore ==
    ASSUME Types, Core, NEW m \in Ids, NEW text,
           NEW status \in {"ignored", "failed", "canceled", "succeeded"},
           pc[m] # "idle", Saved(m, status, text), Leave(m), NoneStarts,
           UNCHANGED <<rows, done, fence, slots, worker, calls>>
    PROVE  /\ Known' /\ Untouched' /\ InOrder' /\ Stopped'
           /\ LockIsOwned' /\ LedgerIsTrue' /\ Asked'
           /\ UNCHANGED paused /\ (Kind(m) = "chat" /\ paused /\ m > fence => text = "")
                => Quiet'
<1>1. Messages' = Messages /\ \A i : Kind(i)' = Kind(i)
  BY SameRows
<1>2. /\ \A i \in Ids : inbound'[i] = IF i = m THEN "completed" ELSE inbound[i]
      /\ \A i \in Ids \ {m} : answer'[i] = answer[i]
      /\ answer'[m].status = status /\ answer'[m].text = text
  BY SavedHere
<1>3. /\ \A i \in Ids : pc'[i] = IF i = m THEN "idle" ELSE pc[i]
      /\ LockIsOwned'
  BY LeftHere DEF Core
<1>4. inbound[m] = "processing" /\ m \in Messages
  BY DEF Core, LedgerIsTrue, Known
<1>5. Known'
  BY <1>1, <1>2, <1>4 DEF Core, Known
<1>6. Untouched'
  BY <1>2 DEF Core, Untouched, NoneStarts
<1>7. InOrder'
  BY <1>1, <1>2, <1>4 DEF Core, InOrder, Types, GroupTypes
<1>8. Stopped'
  BY <1>1, <1>3 DEF Core, Stopped
<1>9. LedgerIsTrue'
  BY <1>2, <1>3 DEF Core, LedgerIsTrue
<1>10. Asked'
  BY <1>1, <1>3 DEF Core, Asked, Known
<1>11. ASSUME UNCHANGED paused, Kind(m) = "chat" /\ paused /\ m > fence => text = ""
       PROVE  Quiet'
  <2>1. SUFFICES ASSUME paused' PROVE Quiet'
    BY DEF Quiet
  <2>2. paused
    BY <1>11, <2>1
  <2> QED BY <1>1, <1>2, <1>3, <1>11, <2>2 DEF Core, Quiet, NoneStarts, Known
<1> QED BY <1>3, <1>5, <1>6, <1>7, <1>8, <1>9, <1>10, <1>11

LEMMA StopKeepsCore ==
    ASSUME Types, Core, NEW m \in Ids,
           BarrierCommits(m) \/ StopConfirmed(m) \/ StopFails(m)
    PROVE  Core'
<1>1. pc[m] \in {"stopping", "stopped"} /\ rows' = rows
  BY DEF BarrierCommits, StopConfirmed, StopFails
<1>2. Messages' = Messages /\ \A i : Kind(i)' = Kind(i)
  BY <1>1, SameRows
<1>3. inbound[m] = "processing" /\ m \in Messages /\ Kind(m) = "stop"
  BY <1>1 DEF Core, LedgerIsTrue, Known, Stopped
<1>4. CASE BarrierCommits(m)
  <2>1. /\ \A i \in Ids \ {m} : pc'[i] = pc[i]
        /\ pc'[m] = "stopped" /\ fence' = (IF m > fence THEN m ELSE fence)
        /\ UNCHANGED <<done, inbound, answer, lock, slots, paused, worker, followup,
                       calls>>
    BY <1>4 DEF BarrierCommits, Types, HandlerTypes
  <2>2. fence' >= fence /\ fence' >= m /\ fence' \in {m, fence}
    BY <2>1, IdsAreNumbers DEF Types, GroupTypes
  <2>3. Known' /\ Untouched' /\ InOrder' /\ LedgerIsTrue'
    BY <1>2, <1>3, <2>1 DEF Core, Known, Untouched, InOrder, LedgerIsTrue
  <2>4. LockIsOwned'
    BY <1>1, <2>1 DEF Core, LockIsOwned
  <2>5. Stopped'
    <3>1. PICK f \in {m, fence} : fence' = f
      BY <2>2
    <3>2. f # 0 => f \in Messages /\ Kind(f) = "stop"
      BY <1>3, <3>1 DEF Core, Stopped
    <3>3. fence' # 0 => fence' \in Messages' /\ rows'[fence'].by = "stop"
      BY <1>1, <1>2, <3>1, <3>2 DEF Kind
    <3>4. ASSUME NEW i \in Ids
          PROVE  /\ pc'[i] \in {"stopping", "stopped"} => Kind(i) = "stop"
                 /\ pc'[i] = "stopped" => i <= f
                 /\ pc'[i] = "barrier" => Kind(i) = "cancel"
      <4>1. i \in Nat /\ fence \in Nat /\ m \in Nat /\ f \in Nat
        BY IdsAreNumbers DEF Types, GroupTypes
      <4>2. f >= fence /\ f >= m
        BY <2>2, <3>1
      <4>3. CASE i = m
        BY <1>3, <2>1, <4>1, <4>2, <4>3
      <4>4. CASE i # m
        <5>1. pc'[i] = pc[i]
          BY <2>1, <4>4
        <5> QED BY <4>1, <4>2, <5>1 DEF Core, Stopped
      <4> QED BY <4>3, <4>4
    <3>5. \A i \in Ids : /\ pc'[i] \in {"stopping", "stopped"} => rows'[i].by = "stop"
                         /\ pc'[i] = "stopped" => i <= fence'
                         /\ pc'[i] = "barrier" => rows'[i].by = "cancel"
      BY <1>1, <3>1, <3>4 DEF Kind
    <3> QED BY <3>3, <3>5 DEF Stopped, Kind
  <2>6. Asked'
    BY <1>2, <2>1 DEF Core, Asked, Known
  <2>7. Quiet'
    <3>1. SUFFICES ASSUME paused' PROVE Quiet'
      BY DEF Quiet
    <3>2. paused
      BY <2>1, <3>1
    <3>3. \A i \in Messages : i > fence' => i > fence
      BY <2>2, IdsAreNumbers DEF Core, Known, Types, GroupTypes
    <3> QED BY <1>2, <2>1, <3>2, <3>3 DEF Core, Quiet, Known
  <2> QED BY <2>3, <2>4, <2>5, <2>6, <2>7 DEF Core
<1>5. CASE StopConfirmed(m)
  <2>1. /\ Saved(m, "canceled", "fixed") /\ Leave(m) /\ pc[m] = "stopped"
        /\ UNCHANGED <<rows, done, fence, slots, worker, calls>>
    BY <1>5 DEF StopConfirmed, Answers
  <2>2. NoneStarts
    <3>1. CASE UNCHANGED followup
      BY <3>1 DEF NoneStarts
    <3> QED BY <1>5, <3>1, SuppressedStarts DEF StopConfirmed
  <2>3. /\ Known' /\ Untouched' /\ InOrder' /\ Stopped'
        /\ LockIsOwned' /\ LedgerIsTrue' /\ Asked'
        /\ UNCHANGED paused /\ (Kind(m) = "chat" /\ paused /\ m > fence => FALSE)
             => Quiet'
    BY <1>1, <2>1, <2>2, EndKeepsCore
  <2>4. CASE UNCHANGED paused
    BY <1>3, <2>3, <2>4 DEF Core
  <2>5. CASE participating
    <3>1. ASSUME NEW k \in Messages, Kind(k) = "chat", k > fence
          PROVE  inbound[k] = "none" /\ k # m
      <4>1. m \notin done
        BY <1>3 DEF Core, InOrder
      <4>2. m <= fence /\ m \in Nat /\ k \in Ids /\ k \in Nat /\ fence \in Nat
        BY <2>1, IdsAreNumbers DEF Core, Stopped, Known, Types, GroupTypes
      <4>3. m < k
        BY <3>1, <4>2
      <4> QED BY <1>3, <3>1, <4>1, <4>2, <4>3 DEF Core, InOrder
    <3>2. \A i \in Ids \ {m} : answer'[i] = answer[i] /\ pc'[i] = pc[i]
      BY <2>1, SavedHere, LeftHere DEF Core
    <3>3. ASSUME NEW k \in Messages, Kind(k) = "chat", k > fence
          PROVE  /\ answer'[k].text = "" /\ followup'[k].status = "none"
                 /\ pc'[k] = "idle"
      <4>1. /\ answer[k] = NoAnswer /\ followup[k].status = "none"
            /\ pc[k] = "idle" /\ k \in Ids /\ k # m
        BY <3>1, <3>3 DEF Core, Untouched, LedgerIsTrue, Known
      <4> QED BY <2>2, <3>2, <4>1, NoAnswerIsSilent DEF NoneStarts
    <3>4. Quiet'
      BY <1>2, <2>1, <2>5, <3>3 DEF Quiet
    <3> QED BY <2>3, <3>4 DEF Core
  <2> QED BY <1>5, <2>4, <2>5 DEF StopConfirmed
<1>6. CASE StopFails(m)
  <2>1. /\ Saved(m, "failed", "fixed") /\ Leave(m) /\ NoneStarts
        /\ UNCHANGED <<rows, done, fence, slots, worker, calls, paused>>
    BY <1>6 DEF StopFails, Answers, NoneStarts
  <2> QED BY <1>1, <1>3, <2>1, EndKeepsCore DEF Core
<1> QED BY <1>4, <1>5, <1>6

\* A turn that has no more to say
LEMMA SilentEndKeepsCore ==
    ASSUME Types, Core, NEW m \in Ids, NEW text,
           NEW status \in {"ignored", "failed", "canceled", "succeeded"},
           pc[m] # "idle", Saved(m, status, text), Leave(m),
           Kind(m) = "chat" /\ paused /\ m > fence => text = "",
           UNCHANGED <<rows, done, fence, slots, worker, calls, followup, paused>>
    PROVE  Core'
<1>1. NoneStarts
  BY DEF NoneStarts
<1> QED BY <1>1, EndKeepsCore DEF Core

LEMMA ApologyKeepsCore ==
    ASSUME Types, Core, NEW m \in Ids, pc[m] # "idle", Apologizes(m)
    PROVE  Core'
<1>0. UNCHANGED <<rows, done, fence, slots, worker, calls, followup, paused>> /\ Leave(m)
  BY DEF Apologizes
<1>1. CASE Passive(m)
  <2>1. Saved(m, "ignored", "")
    BY <1>1 DEF Apologizes, KeepsQuiet
  <2> QED BY <1>0, <2>1, SilentEndKeepsCore
<1>2. CASE ~Passive(m)
  <2>1. Saved(m, "failed", "fixed") /\ Kind(m) # "chat"
    BY <1>2 DEF Apologizes, Answers, Passive
  <2> QED BY <1>0, <2>1, SilentEndKeepsCore
<1> QED BY <1>1, <1>2

LEMMA CancelKeepsCore ==
    ASSUME Types, Core, NEW m \in Ids, CancelEnds(m)
    PROVE  Core'
<1>1. PICK status \in {"succeeded", "failed", "canceled"} : Saved(m, status, "fixed")
  BY DEF CancelEnds, Answers
<1>2. /\ Leave(m) /\ pc[m] = "barrier"
      /\ UNCHANGED <<rows, done, fence, slots, worker, calls, followup, paused>>
  BY DEF CancelEnds
<1>3. Kind(m) = "cancel"
  BY <1>2 DEF Core, Stopped
<1> QED BY <1>1, <1>2, <1>3, SilentEndKeepsCore

LEMMA TurnKeepsCore ==
    ASSUME Types, Core, NEW m \in Ids,
           \/ TurnBegins(m) \/ TurnDeclines(m) \/ ModelIsAsked(m)
           \/ (\E line \in Lines : ModelAnswers(m, line))
           \/ TurnEnds(m) \/ ModelFails(m) \/ TurnTimesOut(m) \/ HandlerDies(m)
    PROVE  Core'
<1>1. pc[m] # "idle" /\ rows' = rows
  BY DEF TurnBegins, TurnDeclines, ModelIsAsked, ModelAnswers, TurnEnds, ModelFails,
     TurnTimesOut, HandlerDies, Apologizes
<1>2. Messages' = Messages /\ (\A i : Kind(i)' = Kind(i)) /\ Messages \subseteq Ids
  BY <1>1, SameRows DEF Core, Known
<1>3. inbound[m] = "processing" /\ m \in Messages
  BY <1>1 DEF Core, LedgerIsTrue, Known
<1>4. CASE TurnBegins(m)
  <2>1. /\ \A i \in Ids \ {m} : pc'[i] = pc[i]
        /\ pc'[m] = "session" /\ pc[m] = "lock" /\ lock = Nobody /\ lock' = m
        /\ UNCHANGED <<done, fence, inbound, answer, paused, worker, followup, calls>>
    BY <1>4 DEF TurnBegins, Types, HandlerTypes
  <2>2. /\ slots' = slots \/ slots' = [slots EXCEPT ![m] = "recent"]
        /\ participating /\ Kind(m) = "chat" =>
              ~paused /\ slots[m] = "none" /\ slots' = [slots EXCEPT ![m] = "recent"]
    BY <1>4 DEF TurnBegins, MayClaim
  <2>3. /\ \A i \in Ids \ {m} : slots'[i] = slots[i]
        /\ participating /\ Kind(m) = "chat" => slots'[m] = "recent"
    BY <2>2 DEF Types, SlotTypes
  <2>4. Known' /\ InOrder'
    BY <1>2, <2>1 DEF Core, Known, InOrder
  <2>5. Untouched'
    BY <1>3, <2>1, <2>3 DEF Core, Untouched
  <2>6. Stopped' /\ LedgerIsTrue'
    BY <1>2, <1>3, <2>1 DEF Core, Stopped, LedgerIsTrue
  <2>7. LockIsOwned'
    BY <2>1, IdsAreNumbers DEF Core, LockIsOwned
  <2>8. Asked'
    BY <1>2, <1>3, <2>1, <2>2, <2>3 DEF Core, Asked
  <2>9. Quiet'
    <3>1. SUFFICES ASSUME paused' PROVE Quiet'
      BY DEF Quiet
    <3>2. paused /\ participating
      BY <2>1, <3>1 DEF Core, Quiet
    <3>3. Kind(m) # "chat"
      BY <2>2, <3>2
    <3> QED BY <1>2, <2>1, <3>2, <3>3 DEF Core, Quiet
  <2> QED BY <2>4, <2>5, <2>6, <2>7, <2>8, <2>9 DEF Core
<1>5. CASE TurnDeclines(m)
  <2>1. /\ Saved(m, "ignored", "") /\ Leave(m)
        /\ UNCHANGED <<rows, done, fence, slots, worker, calls, followup, paused>>
    BY <1>5 DEF TurnDeclines, KeepsQuiet
  <2> QED BY <1>1, <2>1, SilentEndKeepsCore
<1>6. CASE ModelIsAsked(m)
  <2>1. /\ \A i \in Ids \ {m} : pc'[i] = pc[i] /\ calls'[i] = calls[i]
        /\ pc'[m] = "model" /\ pc[m] = "session" /\ calls'[m] = calls[m] + 1
        /\ UNCHANGED <<done, fence, inbound, answer, lock, slots, paused, worker,
                       followup>>
    BY <1>6 DEF ModelIsAsked, Types, HandlerTypes, CountTypes
  <2>2. Known' /\ InOrder' /\ LedgerIsTrue'
    BY <1>2, <1>3, <2>1 DEF Core, Known, InOrder, LedgerIsTrue
  <2>3. Untouched' /\ LockIsOwned'
    BY <1>3, <2>1 DEF Core, Untouched, LockIsOwned
  <2>4. Stopped'
    BY <1>2, <2>1 DEF Core, Stopped
  <2>5. Asked'
    BY <1>2, <1>3, <2>1 DEF Core, Asked
  <2>6. Quiet'
    <3>1. SUFFICES ASSUME paused' PROVE Quiet'
      BY DEF Quiet
    <3>2. paused
      BY <2>1, <3>1
    <3> QED BY <1>2, <1>3, <2>1, <3>2 DEF Core, Quiet
  <2> QED BY <2>2, <2>3, <2>4, <2>5, <2>6 DEF Core
<1>7. ASSUME NEW line \in Lines, ModelAnswers(m, line)
      PROVE  Core'
  <2>1. /\ \A i \in Ids \ {m} : pc'[i] = pc[i]
        /\ pc'[m] = "clear" /\ pc[m] = "model"
        /\ UNCHANGED <<done, fence, inbound, answer, lock, slots, paused, worker, calls>>
    BY <1>7 DEF ModelAnswers, Types, HandlerTypes
  <2>2. \A i \in Ids \ {m} : followup'[i] = followup[i]
    BY <1>7 DEF ModelAnswers, Types, FollowupTypes
  <2>3. Known' /\ InOrder' /\ LedgerIsTrue'
    BY <1>2, <1>3, <2>1 DEF Core, Known, InOrder, LedgerIsTrue
  <2>4. Untouched' /\ LockIsOwned'
    BY <1>3, <2>1, <2>2 DEF Core, Untouched, LockIsOwned
  <2>5. Stopped'
    BY <1>2, <2>1 DEF Core, Stopped
  <2>6. Asked'
    BY <1>2, <2>1 DEF Core, Asked
  <2>7. Quiet'
    <3>1. SUFFICES ASSUME paused' PROVE Quiet'
      BY DEF Quiet
    <3>2. paused
      BY <2>1, <3>1
    <3>3. ~(Kind(m) = "chat" /\ m > fence)
      BY <1>3, <2>1, <3>2 DEF Core, Quiet
    <3> QED BY <1>2, <2>1, <2>2, <3>2, <3>3 DEF Core, Quiet
  <2> QED BY <2>3, <2>4, <2>5, <2>6, <2>7 DEF Core
<1>8. CASE TurnEnds(m)
  <2>1. PICK status \in {"ignored", "succeeded"} : Saved(m, status, out[m])
    BY <1>8 DEF TurnEnds, Answers, KeepsQuiet
  <2>2. /\ Leave(m) /\ pc[m] = "clear"
        /\ UNCHANGED <<rows, done, fence, slots, worker, calls, followup, paused>>
    BY <1>8 DEF TurnEnds
  <2>3. ~(Kind(m) = "chat" /\ paused /\ m > fence)
    BY <1>3, <2>2 DEF Core, Quiet
  <2> QED BY <1>1, <2>1, <2>2, <2>3, SilentEndKeepsCore
<1>9. CASE ModelFails(m) \/ TurnTimesOut(m)
  BY <1>1, <1>9, ApologyKeepsCore DEF ModelFails, TurnTimesOut
<1>10. CASE HandlerDies(m)
  <2>1. /\ \A i \in Ids : pc'[i] = IF i = m THEN "idle" ELSE pc[i]
        /\ LockIsOwned'
        /\ UNCHANGED <<done, fence, inbound, answer, slots, paused, worker, followup,
                       calls>>
    BY <1>10, LeftHere DEF Core, HandlerDies
  <2>2. Known' /\ InOrder' /\ LedgerIsTrue' /\ Untouched'
    BY <1>2, <2>1 DEF Core, Known, InOrder, LedgerIsTrue, Untouched
  <2>3. Stopped'
    BY <1>2, <2>1 DEF Core, Stopped
  <2>4. Asked'
    BY <1>2, <2>1 DEF Core, Asked
  <2>5. Quiet'
    <3>1. SUFFICES ASSUME paused' PROVE Quiet'
      BY DEF Quiet
    <3>2. paused
      BY <2>1, <3>1
    <3> QED BY <1>2, <2>1, <3>2 DEF Core, Quiet
  <2> QED BY <2>1, <2>2, <2>3, <2>4, <2>5 DEF Core
<1> QED BY <1>4, <1>5, <1>6, <1>7, <1>8, <1>9, <1>10

LEMMA TimeKeepsCore ==
    ASSUME Types, Core, NEW m \in Ids, SlotAges(m) \/ PauseEnds \/ Restart
    PROVE  Core'
<1>1. rows' = rows
  BY DEF SlotAges, PauseEnds, Restart
<1>2. Messages' = Messages /\ (\A i : Kind(i)' = Kind(i)) /\ Messages \subseteq Ids
  BY <1>1, SameRows DEF Core, Known
<1>3. CASE SlotAges(m)
  <2>1. /\ \A i \in Ids \ {m} : slots'[i] = slots[i]
        /\ slots[m] # "none" /\ slots'[m] # "none"
        /\ UNCHANGED <<done, fence, inbound, answer, pc, lock, paused, worker,
                       followup, calls>>
    BY <1>3 DEF SlotAges, Types, SlotTypes
  <2>2. Known' /\ InOrder' /\ LedgerIsTrue' /\ Stopped' /\ LockIsOwned'
    BY <1>2, <2>1 DEF Core, Known, InOrder, LedgerIsTrue, Stopped, LockIsOwned
  <2>3. Untouched' /\ Asked'
    BY <1>2, <2>1 DEF Core, Untouched, Asked
  <2>4. Quiet'
    <3>1. SUFFICES ASSUME paused' PROVE Quiet'
      BY DEF Quiet
    <3>2. paused
      BY <2>1, <3>1
    <3> QED BY <1>2, <2>1, <3>2 DEF Core, Quiet
  <2> QED BY <2>2, <2>3, <2>4 DEF Core
<1>4. CASE PauseEnds
  <2>1. /\ ~paused'
        /\ UNCHANGED <<done, fence, inbound, answer, pc, lock, slots, worker,
                       followup, calls>>
    BY <1>4 DEF PauseEnds
  <2>2. Known' /\ InOrder' /\ LedgerIsTrue' /\ Stopped' /\ LockIsOwned'
    BY <1>2, <2>1 DEF Core, Known, InOrder, LedgerIsTrue, Stopped, LockIsOwned
  <2>3. Untouched' /\ Asked'
    BY <1>2, <2>1 DEF Core, Untouched, Asked
  <2>4. Quiet'
    BY <2>1 DEF Quiet
  <2> QED BY <2>2, <2>3, <2>4 DEF Core
<1>5. CASE Restart
  <2>1. /\ \A i \in Ids : /\ pc'[i] = "idle"
                         /\ inbound'[i] = IF inbound[i] = "processing" THEN "stale"
                                                                      ELSE inbound[i]
        /\ lock' = Nobody /\ worker' = Idle
        /\ UNCHANGED <<done, fence, answer, slots, paused, followup, calls>>
    BY <1>5 DEF Restart
  <2>2. Known' /\ LedgerIsTrue' /\ Stopped' /\ Untouched'
    BY <1>2, <2>1 DEF Core, Known, LedgerIsTrue, Stopped, Untouched
  <2>3. InOrder'
    BY <1>2, <2>1 DEF Core, InOrder, Types, GroupTypes
  <2>4. LockIsOwned'
    BY <2>1, IdsAreNumbers DEF LockIsOwned, Idle
  <2>5. Asked'
    BY <1>2, <2>1 DEF Core, Asked
  <2>6. Quiet'
    <3>1. SUFFICES ASSUME paused' PROVE Quiet'
      BY DEF Quiet
    <3>2. paused
      BY <2>1, <3>1
    <3> QED BY <1>2, <2>1, <3>2 DEF Core, Quiet
  <2> QED BY <2>2, <2>3, <2>4, <2>5, <2>6 DEF Core
<1> QED BY <1>3, <1>4, <1>5

LEMMA NextKeepsCore ==
    ASSUME Types, Core, [Next]_vars
    PROVE  Core'
<1>1. CASE UNCHANGED vars
  <2>1. rows' = rows
    BY <1>1 DEF vars
  <2>2. Messages' = Messages /\ (\A i : Kind(i)' = Kind(i)) /\ Messages \subseteq Ids
    BY <2>1, SameRows DEF Core, Known
  <2> QED BY <1>1, <2>2, CoreKept DEF vars
<1>2. ASSUME NEW m \in Ids, HandlerStep(m) PROVE Core'
  BY <1>2, StopKeepsCore, CancelKeepsCore, TurnKeepsCore DEF HandlerStep
<1>3. ASSUME NEW m \in Ids,
             \/ BridgePosts(m) \/ BridgeGivesUp(m) \/ AnswersAtOnce(m) \/ Waits(m)
             \/ HandlerDies(m) \/ WorkerTakes(m) \/ SlotAges(m)
      PROVE  Core'
  BY <1>3, GroupKeepsCore, BeginKeepsCore, TurnKeepsCore, WorkerKeepsCore,
     TimeKeepsCore
<1>4. CASE HumanWrites \/ WorkerStep \/ PauseEnds \/ Restart
  <2>1. PICK m : m \in Ids
    BY SomeId
  <2> QED BY <1>4, <2>1, GroupKeepsCore, WorkerKeepsCore, TimeKeepsCore
<1> QED BY <1>1, <1>2, <1>3, <1>4 DEF Next

-----------------------------------------------------------------------------
(* The followups *)

\* What a step may do to followups: the reply that one is to follow never
\* changes, and one that was taken up never waits to be taken again.
OnlyForward ==
    \A m \in Ids :
        /\ followup[m].status # "none" => followup'[m].main = followup[m].main
        /\ followup[m].status \notin {"none", "prepared"} =>
              followup'[m].status \notin {"none", "prepared"}

LEMMA SuppressedForward ==
    ASSUME Types, followup' = Suppressed
    PROVE  OnlyForward
<1>1. ASSUME NEW m \in Ids
      PROVE  /\ followup'[m].main = followup[m].main
             /\ followup[m].status \notin {"none", "prepared"} =>
                   followup'[m].status \notin {"none", "prepared"}
  <2>1. followup[m] \in Followups
    BY DEF Types, FollowupTypes
  <2>2. followup'[m] = [followup[m] EXCEPT !.status =
                           IF @ = "prepared" THEN "suppressed" ELSE @]
    BY DEF Suppressed
  <2> QED BY <2>1, <2>2 DEF Followups
<1> QED BY <1>1 DEF OnlyForward

LEMMA FinishForward ==
    ASSUME Types, worker.pc # "idle", NEW status \in {"confirmed", "uncertain",
               "suppressed", "failed"}, Finish(status)
    PROVE  OnlyForward /\ worker'.pc = "idle"
<1>1. followup' = [followup EXCEPT ![worker.id].status =
                      IF @ = "sending" THEN status ELSE @]
  BY DEF Finish, Finished
<1>2. PICK n \in Ids : n = worker.id
  BY DEF Types, WorkerTypes
<1>3. ASSUME NEW m \in Ids
      PROVE  /\ followup'[m].main = followup[m].main
             /\ followup[m].status \notin {"none", "prepared"} =>
                   followup'[m].status \notin {"none", "prepared"}
  <2>1. followup[m] \in Followups /\ followup[n] \in Followups
        /\ followup \in [Ids -> Followups]
    BY DEF Types, FollowupTypes
  <2>2. followup'[m] = IF m = n
            THEN [followup[n] EXCEPT !.status = IF @ = "sending" THEN status ELSE @]
            ELSE followup[m]
    BY <1>1, <1>2, <2>1
  <2> QED BY <2>1, <2>2 DEF Followups
<1> QED BY <1>3 DEF OnlyForward, Finish, Idle

LEMMA ClaimedForward ==
    ASSUME Types, NEW n
    PROVE  \A m \in Ids :
              /\ Claimed(n)[m].main = followup[m].main
              /\ followup[m].status \notin {"none", "prepared"} =>
                    Claimed(n)[m].status \notin {"none", "prepared"}
              /\ m = n => Claimed(n)[m].status = "sending"
<1>1. ASSUME NEW m \in Ids
      PROVE  /\ Claimed(n)[m].main = followup[m].main
             /\ followup[m].status \notin {"none", "prepared"} =>
                   Claimed(n)[m].status \notin {"none", "prepared"}
             /\ m = n => Claimed(n)[m].status = "sending"
  <2>1. followup[m] \in Followups
    BY DEF Types, FollowupTypes
  <2>2. Claimed(n)[m] = [followup[m] EXCEPT !.status =
            IF m = n THEN "sending" ELSE IF @ = "sending" THEN "uncertain" ELSE @]
    BY DEF Claimed
  <2> QED BY <2>1, <2>2 DEF Followups
<1> QED BY <1>1

LEMMA TakeForward ==
    ASSUME Types, NEW n \in Ids, WorkerTakes(n)
    PROVE  /\ OnlyForward /\ followup[n].status = "prepared"
           /\ \/ UNCHANGED worker
              \/ /\ worker'.id = n /\ worker'.pc \in {"look", "generate"}
                 /\ followup'[n].status \notin {"none", "prepared"}
<1>1. /\ \A m \in Ids :
            /\ Claimed(n)[m].main = followup[m].main
            /\ followup[m].status \notin {"none", "prepared"} =>
                  Claimed(n)[m].status \notin {"none", "prepared"}
      /\ Claimed(n)[n].status = "sending"
  BY ClaimedForward
<1>2. CASE followup' = Claimed(n)
  <2>1. OnlyForward
    BY <1>1, <1>2 DEF OnlyForward
  <2>2. followup'[n].status = "sending"
    BY <1>1, <1>2
  <2>3. \/ UNCHANGED worker \/ worker' = [pc |-> "look", id |-> n, sent |-> FALSE]
        \/ worker' = [pc |-> "generate", id |-> n, sent |-> FALSE]
    BY DEF WorkerTakes
  <2>4. UNCHANGED worker \/ (worker'.id = n /\ worker'.pc \in {"look", "generate"})
    BY <2>3
  <2> QED BY <2>1, <2>2, <2>4 DEF WorkerTakes
<1>3. CASE followup' = Finished(Claimed(n), n, "suppressed") /\ UNCHANGED worker
  <2>1. PICK f \in [Ids -> Followups] : f = Claimed(n)
    BY ClaimedTypes
  <2>2. ASSUME NEW m \in Ids
        PROVE  /\ followup'[m].main = f[m].main
               /\ f[m].status \notin {"none", "prepared"} =>
                     followup'[m].status \notin {"none", "prepared"}
    <3>1. f[m] \in Followups /\ f[n] \in Followups
      OBVIOUS
    <3>2. followup'[m] = IF m = n
              THEN [f[n] EXCEPT !.status = IF @ = "sending" THEN "suppressed" ELSE @]
              ELSE f[m]
      BY <1>3, <2>1 DEF Finished
    <3> QED BY <3>1, <3>2 DEF Followups
  <2> QED BY <1>1, <1>3, <2>1, <2>2 DEF OnlyForward, WorkerTakes
<1> QED BY <1>2, <1>3 DEF WorkerTakes

LEMMA HearsForward ==
    ASSUME Types, NEW line \in Lines, WorkerHears(line)
    PROVE  OnlyForward /\ (worker'.pc # "idle" =>
               worker'.pc = "look" /\ worker'.id = worker.id)
<1>1. CASE line \in {"", followup[worker.id].main}
  <2>1. Finish("suppressed") /\ worker.pc # "idle"
    BY <1>1 DEF WorkerHears
  <2> QED BY <2>1, FinishForward
<1>2. CASE line \notin {"", followup[worker.id].main}
  <2>1. PICK n \in Ids : n = worker.id
    BY DEF WorkerHears, Types, WorkerTypes
  <2>2. followup' = [followup EXCEPT ![n].text = line]
    BY <1>2, <2>1 DEF WorkerHears
  <2>3. ASSUME NEW m \in Ids
        PROVE  followup'[m].status = followup[m].status
               /\ followup'[m].main = followup[m].main
    <3>1. followup \in [Ids -> Followups] /\ followup[n] \in Followups
      BY DEF Types, FollowupTypes
    <3>2. followup'[m] = IF m = n THEN [followup[n] EXCEPT !.text = line]
                                  ELSE followup[m]
      BY <2>2, <3>1
    <3> QED BY <3>1, <3>2 DEF Followups
  <2>4. worker' = [worker EXCEPT !.pc = "look"] /\ worker \in Workers
    BY <1>2 DEF WorkerHears, Types, WorkerTypes
  <2>5. worker'.pc = "look" /\ worker'.id = worker.id
    BY <2>4 DEF Workers
  <2> QED BY <2>3, <2>5 DEF OnlyForward
<1> QED BY <1>1, <1>2

Second == InFlight /\ SaidOnce /\ FollowupsComeSecond

LEMMA InitSecond == Init => Second
<1> SUFFICES ASSUME Init PROVE Second
  OBVIOUS
<1>1. DOMAIN rows = {}
  <2>1. rows = <<>>
    BY DEF Init
  <2> QED BY <2>1
<1>2. worker.pc = "idle"
  BY DEF Init, Idle
<1> QED BY <1>1, <1>2 DEF Second, InFlight, SaidOnce, FollowupsComeSecond

LEMMA HeardKept ==
    ASSUME Types, Grows, NEW m \in Ids, NEW i \in 1..(Len(rows) + 1), NEW n \in Nat,
           followup'[m].main = followup[m].main, Heard(m, i), i <= n
    PROVE  Heard(m, n)'
<1>1. /\ DOMAIN rows = 1..Len(rows) /\ Len(rows) \in Nat
      /\ \A k \in DOMAIN rows : rows'[k] = rows[k]
  BY RowsKept DEF Types, GroupTypes
<1>2. PICK j \in (m + 1)..(i - 1) :
          /\ rows[j].text = followup[m].main /\ \A k \in (m + 1)..j : ~Human(k)
  BY DEF Heard
<1>3. m \in Nat /\ m > 0
  BY IdsAreNumbers
<1>4. \A k \in (m + 1)..j : k \in 1..Len(rows)
  BY <1>1, <1>2, <1>3
<1>5. j \in 1..Len(rows) /\ j \in (m + 1)..(n - 1)
  BY <1>1, <1>2, <1>3
<1>6. rows'[j].text = followup'[m].main /\ \A k \in (m + 1)..j : rows'[k].by \notin AllKinds
  BY <1>1, <1>2, <1>4, <1>5 DEF Human
<1> QED BY <1>5, <1>6 DEF Heard, Human

\* The worker goes on, is done, or takes up a followup that was waiting.
WorkerGoesOn ==
    \/ worker'.pc = "idle"
    \/ /\ worker.pc # "idle" /\ worker'.id = worker.id
       /\ worker.pc = "posted" => worker'.pc = "posted"
       /\ worker'.pc = "post" => worker.pc = "post" \/ Heard(worker.id, Len(rows) + 1)
    \/ /\ worker'.id \in Ids /\ worker'.pc \in {"look", "generate"}
       /\ followup[worker'.id].status = "prepared"
       /\ followup'[worker'.id].status \notin {"none", "prepared"}

LEMMA SecondKept ==
    ASSUME Types, Second, Grows, OnlyForward, WorkerGoesOn,
           \A i \in DOMAIN rows' \ DOMAIN rows : rows'[i].by # "followup"
    PROVE  Second'
<1>1. /\ DOMAIN rows = 1..Len(rows) /\ Len(rows) \in Nat
      /\ \A k \in DOMAIN rows : rows'[k] = rows[k]
      /\ DOMAIN rows \subseteq DOMAIN rows' /\ Len(rows') \in Nat
      /\ DOMAIN rows' = 1..Len(rows')
  BY RowsKept DEF Types, GroupTypes
<1>2. worker.pc # "idle" => worker.id \in Ids
  BY DEF Types, WorkerTypes
<1>3. InFlight'
  <2>1. ASSUME worker'.pc # "idle"
        PROVE  followup'[worker'.id].status \notin {"none", "prepared"}
    BY <1>2, <2>1 DEF WorkerGoesOn, Second, InFlight, OnlyForward
  <2>2. ASSUME worker'.pc = "post"
        PROVE  Heard(worker.id, Len(rows) + 1)'
    <3>1. /\ worker.pc # "idle" /\ worker'.id = worker.id
          /\ Heard(worker.id, Len(rows) + 1)
      BY <2>2 DEF WorkerGoesOn, Second, InFlight
    <3>2. PICK m \in Ids : m = worker.id
      BY <1>2, <3>1
    <3>3. PICK n \in Nat : n = Len(rows') + 1
      BY <1>1
    <3>4. followup'[m].main = followup[m].main
      BY <3>1, <3>2 DEF Second, InFlight, OnlyForward
    <3>5. PICK i \in 1..(Len(rows) + 1) : i = Len(rows) + 1
      BY <1>1
    <3>6. i <= n
      BY <1>1, <3>3, <3>5
    <3>7. Heard(m, n)'
      BY <3>1, <3>2, <3>4, <3>5, <3>6, HeardKept
    <3> QED BY <3>1, <3>2, <3>3, <3>7 DEF Heard
  <2> QED BY <2>1, <2>2 DEF InFlight
<1>4. ASSUME NEW i \in DOMAIN rows', rows'[i].by = "followup"
      PROVE  /\ i \in DOMAIN rows /\ rows'[i] = rows[i]
             /\ rows[i].src \in Ids /\ rows[i].by = "followup"
             /\ followup[rows[i].src].status \notin {"none", "prepared"}
  BY <1>1, <1>4 DEF Second, SaidOnce
<1>5. SaidOnce'
  <2>1. ASSUME NEW i \in DOMAIN rows', rows'[i].by = "followup"
        PROVE  /\ rows'[i].src \in Ids
               /\ followup'[rows'[i].src].status \notin {"none", "prepared"}
               /\ worker'.pc # "idle" /\ worker'.id = rows'[i].src =>
                     worker'.pc = "posted"
    BY <1>4, <2>1 DEF OnlyForward, WorkerGoesOn, Second, SaidOnce
  <2> QED BY <2>1 DEF SaidOnce
<1>6. FollowupsComeSecond'
  <2>1. ASSUME NEW i \in DOMAIN rows', rows'[i].by = "followup"
        PROVE  /\ \A j \in DOMAIN rows' :
                      rows'[j].by = "followup" /\ rows'[j].src = rows'[i].src => j = i
               /\ \E j \in (rows'[i].src + 1)..(i - 1) :
                      /\ rows'[j].text = followup'[rows'[i].src].main
                      /\ \A k \in (rows'[i].src + 1)..j : rows'[k].by \notin AllKinds
    <3>1. \A j \in DOMAIN rows' :
              rows'[j].by = "followup" /\ rows'[j].src = rows'[i].src => j = i
      BY <1>4, <2>1 DEF Second, FollowupsComeSecond
    <3>2. PICK m \in Ids : m = rows[i].src /\ m = rows'[i].src
      BY <1>4, <2>1
    <3>3. Heard(m, i)
      BY <1>4, <2>1, <3>2 DEF Second, FollowupsComeSecond, Heard
    <3>4. i \in 1..(Len(rows) + 1) /\ i \in Nat
      BY <1>1, <1>4, <2>1
    <3>5. followup'[m].main = followup[m].main
      BY <1>4, <2>1, <3>2 DEF OnlyForward
    <3>6. Heard(m, i)'
      BY <3>3, <3>4, <3>5, HeardKept
    <3> QED BY <3>1, <3>2, <3>6 DEF Heard, Human
  <2> QED BY <2>1 DEF FollowupsComeSecond, Human
<1> QED BY <1>3, <1>5, <1>6 DEF Second

LEMMA PostKeepsSecond ==
    ASSUME Types, Second, WorkerPosts
    PROVE  Second'
<1>1. PICK m \in Ids : m = worker.id
  BY DEF WorkerPosts, Types, WorkerTypes
<1>2. /\ worker.pc = "post" /\ worker'.pc = "posted" /\ worker'.id = m
      /\ followup' = followup /\ OnlyForward /\ WorkerGoesOn
  <2>1. PICK sent \in BOOLEAN : worker' = [pc |-> "posted", id |-> worker.id, sent |-> sent]
    BY DEF WorkerPosts
  <2>2. worker.pc = "post" /\ followup' = followup
    BY DEF WorkerPosts
  <2> QED BY <1>1, <2>1, <2>2 DEF OnlyForward, WorkerGoesOn
<1>3. Submit("followup", m, followup[m].text)
  BY <1>1 DEF WorkerPosts
<1>4. Grows
  BY <1>3, AnswersHaveText, SubmitGrows
<1>5. CASE rows' = rows
  BY <1>2, <1>4, <1>5, SecondKept
<1>6. CASE rows' = Append(rows, [by |-> "followup", src |-> m, text |-> followup[m].text])
  <2>1. rows \in Seq(RowType) /\ Len(rows) \in Nat /\ DOMAIN rows = 1..Len(rows)
    BY DEF Types, GroupTypes
  <2>2. PICK n \in Nat : n = Len(rows) + 1
    BY <2>1
  <2>3. PICK row \in RowType : rows' = Append(rows, row) /\ row.by = "followup" /\ row.src = m
    <3>1. [by |-> "followup", src |-> m, text |-> followup[m].text] \in RowType
      BY AnswersHaveText DEF RowType
    <3> QED BY <1>6, <3>1
  <2>4. /\ Len(rows') = n /\ DOMAIN rows' = 1..n /\ rows'[n] = row
        /\ \A i \in DOMAIN rows : rows'[i] = rows[i]
        /\ \A i \in DOMAIN rows' : i = n \/ i \in DOMAIN rows
        /\ n \notin DOMAIN rows
    BY <2>1, <2>2, <2>3
  <2>5. \A i \in DOMAIN rows : rows[i].by = "followup" => rows[i].src # m
    BY <1>1, <1>2 DEF Second, SaidOnce
  <2>6. followup[m].status \notin {"none", "prepared"} /\ Heard(m, n)
    BY <1>1, <1>2, <2>2 DEF Second, InFlight
  <2>7. InFlight'
    BY <1>2, <2>6 DEF InFlight
  <2>8. SaidOnce'
    <3>1. ASSUME NEW i \in DOMAIN rows', rows'[i].by = "followup"
          PROVE  /\ rows'[i].src \in Ids
                 /\ followup'[rows'[i].src].status \notin {"none", "prepared"}
                 /\ worker'.pc # "idle" /\ worker'.id = rows'[i].src =>
                       worker'.pc = "posted"
      <4>1. CASE i = n
        BY <1>2, <2>3, <2>4, <2>6, <4>1
      <4>2. CASE i # n
        <5>1. i \in DOMAIN rows /\ rows'[i] = rows[i]
          BY <2>4, <4>2
        <5> QED BY <1>2, <3>1, <5>1 DEF Second, SaidOnce
      <4> QED BY <4>1, <4>2
    <3> QED BY <3>1 DEF SaidOnce
  <2>9. FollowupsComeSecond'
    <3>1. ASSUME NEW i \in DOMAIN rows', rows'[i].by = "followup"
          PROVE  /\ \A j \in DOMAIN rows' :
                        rows'[j].by = "followup" /\ rows'[j].src = rows'[i].src => j = i
                 /\ \E j \in (rows'[i].src + 1)..(i - 1) :
                        /\ rows'[j].text = followup'[rows'[i].src].main
                        /\ \A k \in (rows'[i].src + 1)..j : rows'[k].by \notin AllKinds
      <4>1. PICK q \in Ids : q = rows'[i].src
        BY <2>8, <3>1 DEF SaidOnce
      <4>2. i \in DOMAIN rows => rows'[i] = rows[i]
        BY <2>4
      <4>3. \A j \in DOMAIN rows' : rows'[j].by = "followup" /\ rows'[j].src = q => j = i
        BY <2>3, <2>4, <2>5, <3>1, <4>1, <4>2 DEF Second, FollowupsComeSecond
      <4>4. Heard(q, i) /\ i \in 1..(Len(rows) + 1)
        <5>1. CASE i = n
          BY <2>1, <2>2, <2>3, <2>4, <2>6, <4>1, <5>1
        <5>2. CASE i # n
          <6>1. i \in DOMAIN rows /\ rows'[i] = rows[i]
            BY <2>4, <5>2
          <6>2. i \in 1..(Len(rows) + 1)
            BY <2>1, <6>1
          <6> QED BY <3>1, <4>1, <6>1, <6>2 DEF Second, FollowupsComeSecond, Heard
        <5> QED BY <5>1, <5>2
      <4>5. i \in Nat /\ i <= i
        BY <2>1, <4>4
      <4>6. Heard(q, i)'
        BY <1>2, <1>4, <4>4, <4>5, HeardKept
      <4> QED BY <4>1, <4>3, <4>6 DEF Heard, Human
    <3> QED BY <3>1 DEF FollowupsComeSecond, Human
  <2> QED BY <2>7, <2>8, <2>9 DEF Second
<1> QED BY <1>3, <1>5, <1>6 DEF Submit

\* A turn prepares its followup once.
LEMMA AnswersForward ==
    ASSUME Types, NEW m \in Ids, NEW line \in Lines, ModelAnswers(m, line)
    PROVE  OnlyForward
<1>1. CASE UNCHANGED followup
  BY <1>1 DEF OnlyForward
<1>2. CASE MayPrepare(m, line) /\ ~UNCHANGED followup
  <2>1. followup[m].status = "none"
    BY <1>2 DEF MayPrepare
  <2>2. \A i \in Ids \ {m} : followup'[i] = followup[i]
    BY <1>2 DEF ModelAnswers, Types, FollowupTypes
  <2> QED BY <2>1, <2>2 DEF OnlyForward
<1> QED BY <1>1, <1>2 DEF ModelAnswers

LEMMA NextKeepsSecond ==
    ASSUME Types, Second, [Next]_vars
    PROVE  Second'
<1>1. Grows
  BY RowsGrow
<1>2. CASE rows' = rows /\ OnlyForward /\ WorkerGoesOn
  BY <1>1, <1>2, SecondKept
<1>3. ASSUME UNCHANGED worker PROVE WorkerGoesOn
  BY <1>3 DEF WorkerGoesOn
<1>4. ASSUME UNCHANGED followup PROVE OnlyForward
  BY <1>4 DEF OnlyForward
<1>5. ASSUME NEW m \in Ids, NEW text \in Replies, NEW by \in {"reply", "notice"},
             Submit(by, m, text), UNCHANGED <<worker, followup>>
      PROVE  Second'
  <2>1. \A i \in DOMAIN rows' \ DOMAIN rows : rows'[i].by # "followup"
    <3>1. CASE rows' = rows
      BY <3>1
    <3>2. CASE rows' = Append(rows, [by |-> by, src |-> m, text |-> text])
      <4>1. [by |-> by, src |-> m, text |-> text] \in RowType
        BY DEF RowType
      <4>2. PICK row \in RowType : rows' = Append(rows, row) /\ row.by = by
        BY <3>2, <4>1
      <4>3. rows \in Seq(RowType)
        BY DEF Types, GroupTypes
      <4>4. \A i \in DOMAIN rows' \ DOMAIN rows : rows'[i] = row
        BY <4>2, <4>3
      <4> QED BY <4>2, <4>4
    <3> QED BY <1>5, <3>1, <3>2 DEF Submit
  <2> QED BY <1>1, <1>3, <1>4, <1>5, <2>1, SecondKept
<1>6. CASE HumanWrites
  <2>1. \A i \in DOMAIN rows' \ DOMAIN rows : rows'[i].by # "followup"
    <3>1. PICK row \in RowType : rows' = Append(rows, row) /\ row.by \in AllKinds
      BY <1>6, HumansGrow
    <3>2. rows \in Seq(RowType)
      BY DEF Types, GroupTypes
    <3>3. \A i \in DOMAIN rows' \ DOMAIN rows : rows'[i] = row
      BY <3>1, <3>2
    <3> QED BY <3>1, <3>3 DEF AllKinds
  <2>2. UNCHANGED <<worker, followup>>
    BY <1>6 DEF HumanWrites
  <2> QED BY <1>1, <1>3, <1>4, <2>1, <2>2, SecondKept
<1>7. ASSUME NEW m \in Ids, BridgePosts(m) \/ BridgeGivesUp(m) PROVE Second'
  <2>1. UNCHANGED <<worker, followup>>
    BY <1>7 DEF BridgePosts, BridgeGivesUp
  <2>2. CASE rows' = rows
    BY <1>2, <1>3, <1>4, <2>1, <2>2
  <2>3. CASE Submit("reply", m, answer[m].text)
    BY <1>5, <2>1, <2>3, AnswersHaveText
  <2>4. CASE Submit("notice", m, "fixed")
    BY <1>5, <2>1, <2>4, TextsAreReplies
  <2> QED BY <1>7, <2>2, <2>3, <2>4 DEF BridgePosts, BridgeGivesUp
<1>8. ASSUME NEW m \in Ids, AnswersAtOnce(m) \/ Waits(m) PROVE Second'
  <2>1. Enter(m)
    BY <1>8 DEF AnswersAtOnce, Waits
  <2>2. rows' = rows /\ UNCHANGED worker
    BY <2>1 DEF Enter
  <2>3. OnlyForward
    BY <1>4, <2>1, SuppressedForward DEF Enter
  <2> QED BY <1>2, <1>3, <2>2, <2>3
<1>9. ASSUME NEW m \in Ids, HandlerStep(m) \/ HandlerDies(m) PROVE Second'
  <2>1. rows' = rows /\ UNCHANGED worker
    BY <1>9 DEF HandlerStep, BarrierCommits, StopConfirmed, StopFails, CancelEnds, TurnBegins,
         TurnDeclines, ModelIsAsked, ModelAnswers, TurnEnds, ModelFails,
         TurnTimesOut, Apologizes, HandlerDies
  <2>2. \/ UNCHANGED followup \/ followup' = Suppressed
        \/ \E line \in Lines : ModelAnswers(m, line)
    BY <1>9 DEF HandlerStep, BarrierCommits, StopConfirmed, StopFails, CancelEnds, TurnBegins,
         TurnDeclines, ModelIsAsked, TurnEnds, ModelFails, TurnTimesOut, Apologizes,
         HandlerDies
  <2>3. OnlyForward
    BY <1>4, <2>2, SuppressedForward, AnswersForward
  <2> QED BY <1>2, <1>3, <2>1, <2>3
<1>10. ASSUME NEW m \in Ids, WorkerTakes(m) PROVE Second'
  <2>1. rows' = rows
    BY <1>10 DEF WorkerTakes
  <2>2. OnlyForward /\ WorkerGoesOn
    BY <1>3, <1>10, TakeForward DEF WorkerGoesOn
  <2> QED BY <1>2, <2>1, <2>2
<1>11. ASSUME NEW m \in Ids, SlotAges(m) PROVE Second'
  BY <1>2, <1>3, <1>4, <1>11 DEF SlotAges
<1>12. CASE WorkerStep
  <2>0. worker \in Workers
    BY DEF Types, WorkerTypes
  <2>1. CASE WorkerPosts
    BY <2>1, PostKeepsSecond
  <2>2. CASE WorkerReconciles
    <3>1. OnlyForward
      BY <2>2, ClaimedForward DEF WorkerReconciles, OnlyForward
    <3> QED BY <1>2, <1>3, <2>2, <3>1 DEF WorkerReconciles
  <2>3. ASSUME rows' = rows, worker.pc # "idle", NEW status \in {"confirmed",
                   "uncertain", "suppressed", "failed"}, Finish(status)
        PROVE  Second'
    BY <1>2, <2>3, FinishForward DEF WorkerGoesOn
  <2>4. ASSUME rows' = rows, UNCHANGED followup, worker.pc \notin {"idle", "posted"},
               NEW to \in {"lock", "model"}, worker' = [worker EXCEPT !.pc = to]
        PROVE  Second'
    <3>1. worker'.pc = to /\ worker'.id = worker.id
      BY <2>0, <2>4 DEF Workers
    <3>2. WorkerGoesOn
      BY <2>4, <3>1 DEF WorkerGoesOn
    <3> QED BY <1>2, <1>4, <2>4, <3>2
  <2>5. CASE WorkerGenerates \/ WorkerLocks
    BY <2>3, <2>4, <2>5 DEF WorkerGenerates, WorkerLocks
  <2>6. ASSUME NEW line \in Lines, WorkerHears(line) PROVE Second'
    <3>1. WorkerGoesOn
      BY <2>6, HearsForward DEF WorkerGoesOn, WorkerHears
    <3> QED BY <1>2, <2>6, <3>1, HearsForward DEF WorkerHears
  <2>7. CASE WorkerLooks
    <3>1. CASE HumanAfter(worker.id) \/ ~OwnReplyVisible(worker.id)
      <4>1. Finish("suppressed") \/ Finish("uncertain")
        BY <2>7, <3>1 DEF WorkerLooks
      <4> QED BY <2>3, <2>7, <4>1 DEF WorkerLooks
    <3>2. CASE ~HumanAfter(worker.id) /\ OwnReplyVisible(worker.id)
      <4>1. PICK m \in Ids : m = worker.id
        BY <2>7 DEF WorkerLooks, Types, WorkerTypes
      <4>2. DOMAIN rows = 1..Len(rows) /\ Len(rows) \in Nat /\ m \in Nat
        BY IdsAreNumbers DEF Types, GroupTypes
      <4>3. PICK j \in DOMAIN rows : j > m /\ rows[j].text = followup[m].main
        BY <3>2, <4>1 DEF OwnReplyVisible
      <4>4. \A k \in (m + 1)..j : ~Human(k)
        BY <3>2, <4>1, <4>2, <4>3 DEF HumanAfter, Messages
      <4>5. Heard(m, Len(rows) + 1)
        BY <4>2, <4>3, <4>4 DEF Heard
      <4>6. worker' = [worker EXCEPT !.pc = "post"] /\ rows' = rows
        BY <2>7, <3>2 DEF WorkerLooks
      <4>7. UNCHANGED followup
        BY <2>7, <3>2 DEF WorkerLooks
      <4>8. worker'.pc = "post" /\ worker'.id = worker.id /\ worker.pc = "look"
        BY <2>0, <2>7, <4>6 DEF Workers, WorkerLooks
      <4>9. WorkerGoesOn
        BY <4>1, <4>5, <4>8 DEF WorkerGoesOn
      <4> QED BY <1>2, <1>4, <4>6, <4>7, <4>9
    <3> QED BY <3>1, <3>2
  <2>8. CASE WorkerConfirms \/ WorkerIsRefused \/ WorkerFails
    BY <2>3, <2>8 DEF WorkerConfirms, WorkerIsRefused, WorkerFails
  <2> QED BY <1>12, <2>1, <2>2, <2>5, <2>6, <2>7, <2>8 DEF WorkerStep
<1>13. CASE PauseEnds \/ Restart \/ UNCHANGED vars
  <2>1. rows' = rows /\ UNCHANGED followup /\ (UNCHANGED worker \/ worker' = Idle)
    BY <1>13 DEF PauseEnds, Restart, vars
  <2>2. WorkerGoesOn
    BY <1>3, <2>1 DEF WorkerGoesOn, Idle
  <2> QED BY <1>2, <1>4, <2>1, <2>2
<1> QED BY <1>6, <1>7, <1>8, <1>9, <1>10, <1>11, <1>12, <1>13 DEF Next

-----------------------------------------------------------------------------
(* Theorems *)

TurnsInv == Types /\ Core /\ Second

\* Types, the order of things and the followups hold at every step.
THEOREM TurnsHold == Spec => []TurnsInv
<1>1. Init => TurnsInv
  BY InitTypes, InitCore, InitSecond DEF TurnsInv
<1>2. TurnsInv /\ [Next]_vars => TurnsInv'
  BY NextTypes, NextKeepsCore, NextKeepsSecond DEF TurnsInv
<1> QED BY <1>1, <1>2, PTL DEF Spec

\* The model is asked about an unaddressed message once at most, whatever is
\* posted again and however often the Adapter restarts: the message has its
\* slot (claim_group_participation) from before the call, and keeps it.
THEOREM PassiveIsAskedOnce == Spec => []PassiveAskedOnce
<1>1. Core => PassiveAskedOnce
  BY DEF Core, Asked, PassiveAskedOnce
<1> QED BY <1>1, TurnsHold, PTL DEF TurnsInv

\* A followup is said once, whatever is restarted, and after the reply that it
\* follows: next_group_followup takes up only what was prepared, and once.
THEOREM FollowupsAreSecond == Spec => []FollowupsComeSecond
<1>1. Second => FollowupsComeSecond
  BY DEF Second
<1> QED BY <1>1, TurnsHold, PTL DEF TurnsInv

\* QuietMeansQuiet, of one step
QuietStep ==
    paused => \A i \in DOMAIN rows' \ DOMAIN rows :
        rows'[i].by \in {"reply", "followup"} => Kind(rows'[i].src) # "chat"

LEMMA PausedIsQuiet ==
    ASSUME TurnsInv, [Next]_vars
    PROVE  QuietStep
<1>0. Types /\ Core /\ Second
  BY DEF TurnsInv
<1>1. SUFFICES ASSUME paused PROVE QuietStep
  BY DEF QuietStep
<1>2. CASE rows' = rows
  BY <1>2 DEF QuietStep
<1>3. ASSUME NEW m \in Ids, NEW by \in {"reply", "followup", "notice"}, NEW text \in Replies,
             Submit(by, m, text),
             m \in Messages, Kind(m) = "chat" /\ m > fence => by = "notice"
      PROVE  QuietStep
  <2>1. CASE rows' = rows
    BY <1>2, <2>1
  <2>2. CASE ~Blocked(m) /\ rows' = Append(rows, [by |-> by, src |-> m, text |-> text])
    <3>1. [by |-> by, src |-> m, text |-> text] \in RowType
      BY DEF RowType
    <3>2. PICK row \in RowType : /\ rows' = Append(rows, row)
                                /\ row.by = by /\ row.src = m
      BY <2>2, <3>1
    <3>3. rows \in Seq(RowType)
      BY <1>0 DEF Types, GroupTypes
    <3>4. \A i \in DOMAIN rows' \ DOMAIN rows : rows'[i] = row
      BY <3>2, <3>3
    <3>5. Kind(m) = "chat" => m > fence
      <4>1. ~(fence > m) /\ fence \in Nat /\ m \in Nat /\ m > 0
        BY <1>0, <2>2, IdsAreNumbers DEF Blocked, Types, GroupTypes
      <4>2. fence # 0 => Kind(fence) = "stop"
        BY <1>0 DEF Core, Stopped
      <4>3. CASE fence = m
        <5>1. Kind(m) = "stop"
          BY <4>1, <4>2, <4>3
        <5> QED BY <5>1
      <4>4. CASE fence # m
        BY <4>1, <4>4
      <4> QED BY <4>3, <4>4
    <3> QED BY <1>3, <3>2, <3>4, <3>5 DEF QuietStep
  <2> QED BY <1>3, <2>1, <2>2 DEF Submit
<1>4. \A m \in Messages : Kind(m) = "chat" /\ m > fence =>
          answer[m].text = "" /\ followup[m].status = "none"
  BY <1>0, <1>1 DEF Core, Quiet
<1>5. ASSUME NEW m \in Ids, BridgePosts(m) PROVE QuietStep
  <2>1. CASE answer[m].text = ""
    BY <1>2, <1>5, <2>1 DEF BridgePosts
  <2>2. CASE answer[m].text # ""
    <3>1. Submit("reply", m, answer[m].text) /\ m \in Messages
      BY <1>5, <2>2 DEF BridgePosts, Current
    <3>2. answer[m].text \in Replies
      BY <1>0, AnswersHaveText
    <3>3. ~(Kind(m) = "chat" /\ m > fence)
      BY <1>4, <2>2, <3>1
    <3> QED BY <1>3, <3>1, <3>2, <3>3
  <2> QED BY <2>1, <2>2
<1>6. ASSUME NEW m \in Ids, BridgeGivesUp(m) PROVE QuietStep
  <2>1. Submit("notice", m, "fixed") /\ m \in Messages
    BY <1>6 DEF BridgeGivesUp, Current
  <2> QED BY <1>3, <2>1, TextsAreReplies
<1>7. CASE WorkerPosts
  <2>1. PICK m \in Ids : m = worker.id
    BY <1>0, <1>7 DEF WorkerPosts, Types, WorkerTypes
  <2>2. Submit("followup", m, followup[m].text) /\ followup[m].text \in Replies
    BY <1>0, <1>7, <2>1, AnswersHaveText DEF WorkerPosts
  <2>3. followup[m].status # "none"
    BY <1>0, <1>7, <2>1 DEF WorkerPosts, Second, InFlight
  <2>4. m \in Messages
    BY <1>0, <2>3 DEF Core, Untouched, Known
  <2>5. ~(Kind(m) = "chat" /\ m > fence)
    BY <1>4, <2>3, <2>4
  <2> QED BY <1>3, <2>2, <2>4, <2>5
<1>8. CASE HumanWrites
  <2>1. PICK row \in RowType : rows' = Append(rows, row) /\ row.by \in AllKinds
    BY <1>0, <1>8, HumansGrow
  <2>2. rows \in Seq(RowType)
    BY <1>0 DEF Types, GroupTypes
  <2>3. \A i \in DOMAIN rows' \ DOMAIN rows : rows'[i] = row
    BY <2>1, <2>2
  <2> QED BY <2>1, <2>3 DEF QuietStep, AllKinds
<1>9. \/ rows' = rows \/ HumanWrites \/ WorkerPosts
      \/ \E m \in Ids : BridgePosts(m) \/ BridgeGivesUp(m)
  <2>1. WorkerStep => WorkerPosts \/ rows' = rows
    BY DEF WorkerStep, WorkerReconciles, WorkerGenerates, WorkerLocks,
       WorkerHears, WorkerLooks, WorkerConfirms, WorkerIsRefused, WorkerFails
  <2>2. \A m \in Ids : HandlerStep(m) => rows' = rows
    BY DEF HandlerStep, BarrierCommits, StopConfirmed, StopFails, CancelEnds, TurnBegins,
       TurnDeclines, ModelIsAsked, ModelAnswers, TurnEnds, ModelFails,
       TurnTimesOut, Apologizes
  <2>3. \A m \in Ids : (AnswersAtOnce(m) \/ Waits(m) \/ HandlerDies(m)
                           \/ WorkerTakes(m) \/ SlotAges(m)) => rows' = rows
    BY DEF AnswersAtOnce, Waits, Enter, HandlerDies, WorkerTakes, SlotAges
  <2>4. PauseEnds \/ Restart \/ UNCHANGED vars => rows' = rows
    BY DEF PauseEnds, Restart, vars
  <2> QED BY <2>1, <2>2, <2>3, <2>4 DEF Next
<1> QED BY <1>2, <1>5, <1>6, <1>7, <1>8, <1>9

\* While the pause of a confirmed stop lasts, no step of the system says
\* anything to those who did not speak to the bot: not a turn that was on its
\* way, not a message taken up after a restart, not a followup in flight.
THEOREM PauseIsQuiet == Spec => QuietMeansQuiet
<1>1. TurnsInv /\ [Next]_vars => [QuietStep]_vars
  BY PausedIsQuiet
<1>2. [][QuietStep]_vars => QuietMeansQuiet
  BY PTL DEF QuietStep, QuietMeansQuiet
<1> QED BY <1>1, <1>2, TurnsHold, PTL DEF Spec

-----------------------------------------------------------------------------
(* What was said: the timeline, the listener and the followups confirmed *)

PassiveIn == {m \in Messages : Passive(m) /\ inbound[m] # "none"}

\* The listener has observed every passive message that came in.
ObservedAll ==
    \A m \in Ids : inbound[m] # "none" /\ Passive(m) => m <= listener.observed

\* The followup that the worker is busy with is in flight, and no other's.
InHand == worker.pc # "idle" => followup[worker.id].status = "sending"

ReplyWasSaid ==
    \A m \in Ids : m = listener.reply => \E text \in Replies : WasSaid(m, text)

Spoken ==
    /\ InHand /\ OwnLinesWereSaid /\ ObservedAll
    /\ ReplyWasSaid /\ listener.reply <= listener.observed
    /\ listener.turns <= Cardinality(PassiveIn)

\* An answer is kept for good, and only messages come in.
LedgerStep ==
    \A i \in Ids : /\ answer[i].status # "none" => answer'[i] = answer[i]
                   /\ inbound[i] # "none" => inbound'[i] # "none"
                   /\ inbound'[i] # "none" => inbound[i] # "none" \/ i \in Messages

\* A followup that is confirmed stays so.
FollowupStep ==
    /\ \A i \in Ids : followup[i].status = "confirmed" => followup'[i] = followup[i]
    /\ InHand'

\* A step says something, listens to one message, or does neither.
ComesIn(i) == inbound[i] = "none" /\ inbound'[i] # "none"
Quietly == \A i \in Messages : Passive(i) => ~ComesIn(i)
Speaks ==
    \E m \in Ids, text \in Replies : Said(m, text) /\ WasSaid(m, text)'
Listens ==
    \E m \in Messages : /\ Passive(m) /\ inbound'[m] # "none"
                        /\ \A i \in Messages \ {m} : ~ComesIn(i)
                        /\ listener' = Observed(m) /\ UNCHANGED timeline
SpeechStep ==
    \/ Quietly /\ UNCHANGED <<timeline, listener>>
    \/ Quietly /\ Speaks
    \/ Listens

LEMMA InitSpoken == Init => Spoken
<1> SUFFICES ASSUME Init PROVE Spoken
  OBVIOUS
<1>1. timeline = {} /\ listener = [observed |-> 0, reply |-> 0, turns |-> 0]
  BY DEF Init
<1>2. PassiveIn = {}
  <2>1. rows = <<>>
    BY DEF Init
  <2>2. DOMAIN rows = {}
    BY <2>1
  <2> QED BY <2>2 DEF PassiveIn, Messages
<1>3. Cardinality(PassiveIn) = 0
  BY <1>2, FS_EmptySet
<1>4. InHand /\ OwnLinesWereSaid /\ ObservedAll
  BY <1>1 DEF Init, InHand, Idle, OwnLinesWereSaid, ObservedAll
<1>5. ReplyWasSaid
  <2>1. listener.reply = 0
    BY <1>1
  <2> QED BY <2>1, IdsAreNumbers DEF ReplyWasSaid
<1> QED BY <1>1, <1>3, <1>4, <1>5 DEF Spoken

LEMMA PassiveInIsFinite ==
    ASSUME Types, Core
    PROVE  /\ IsFiniteSet(PassiveIn) /\ Cardinality(PassiveIn) \in Nat
           /\ IsFiniteSet(Ids) /\ Cardinality(PassiveIn) <= Cardinality(Ids)
           /\ Cardinality(Ids) \in Nat
<1>1. IsFiniteSet(Ids)
  <2>1. MaxMessages \in Nat
    BY TurnConstants
  <2>2. 1 \in Int /\ 3 * MaxMessages \in Int
    BY <2>1
  <2> QED BY <2>2, FS_Interval DEF Ids
<1>2. PassiveIn \subseteq Ids
  BY DEF PassiveIn, Core, Known
<1> QED BY <1>1, <1>2, FS_Subset, FS_CardinalityType

LEMMA PassiveInGrows ==
    ASSUME Types, Core, Core', Grows, LedgerStep
    PROVE  /\ PassiveIn \subseteq PassiveIn' /\ IsFiniteSet(PassiveIn')
           /\ Cardinality(PassiveIn) \in Nat /\ Cardinality(PassiveIn') \in Nat
           /\ Cardinality(PassiveIn) <= Cardinality(PassiveIn')
<1>1. /\ Messages \subseteq Messages' /\ Messages \subseteq Ids
      /\ \A m \in Messages : Passive(m)' = Passive(m)
  BY MessagesKept DEF Core, Known, Passive
<1>2. PassiveIn \subseteq PassiveIn'
  BY <1>1 DEF PassiveIn, LedgerStep
<1>3. PassiveIn' \subseteq Ids
  BY DEF PassiveIn, Core, Known
<1>4. IsFiniteSet(PassiveIn') /\ Cardinality(PassiveIn') \in Nat
  BY <1>3, PassiveInIsFinite, FS_Subset, FS_CardinalityType
<1> QED BY <1>2, <1>4, PassiveInIsFinite, FS_Subset

\* Said once, said for good.
LEMMA SaidIsKept ==
    ASSUME LedgerStep, FollowupStep, NEW m \in Ids, NEW text, WasSaid(m, text)
    PROVE  WasSaid(m, text)'
BY DEF WasSaid, LedgerStep, FollowupStep

LEMMA SpokenKept ==
    ASSUME Types, Types', Core, Core', Spoken, Grows, LedgerStep, FollowupStep, SpeechStep
    PROVE  Spoken'
<1>1. /\ listener.observed \in Nat /\ listener.reply \in Ids \cup {0}
      /\ listener.reply \in Nat /\ listener.turns \in Nat
      /\ \A e \in timeline : e.id \in Ids
  BY IdsAreNumbers DEF Types, SpeechTypes, Listeners, SaidLines
<1>2. /\ PassiveIn \subseteq PassiveIn' /\ IsFiniteSet(PassiveIn')
      /\ Cardinality(PassiveIn) \in Nat /\ Cardinality(PassiveIn') \in Nat
      /\ Cardinality(PassiveIn) <= Cardinality(PassiveIn')
  BY PassiveInGrows
<1>3. InHand'
  BY DEF FollowupStep
<1>4. /\ \A e \in timeline : WasSaid(e.id, e.text)'
      /\ \A m \in Ids : m = listener.reply => \E text \in Replies : WasSaid(m, text)'
  <2>1. \A e \in timeline : WasSaid(e.id, e.text)'
    <3>1. ASSUME NEW e \in timeline PROVE WasSaid(e.id, e.text)'
      <4>1. e.id \in Ids /\ WasSaid(e.id, e.text)
        BY <1>1 DEF Spoken, OwnLinesWereSaid
      <4> QED BY <4>1, SaidIsKept
    <3> QED BY <3>1
  <2> QED BY <2>1, SaidIsKept DEF Spoken, ReplyWasSaid
<1>5. /\ \A m \in Messages : Passive(m)' = Passive(m)
      /\ Messages \subseteq Messages' /\ Messages \subseteq Ids
      /\ \A m \in Ids : inbound[m] # "none" => m \in Messages
  BY MessagesKept DEF Core, Known, Passive
<1>6. \A m \in Ids : m \in Nat /\ m > 0
  BY IdsAreNumbers
<1>7. ASSUME Quietly, listener.observed <= listener'.observed PROVE ObservedAll'
  <2>1. ASSUME NEW m \in Ids, inbound'[m] # "none", Passive(m)'
        PROVE  m <= listener'.observed
    <3>1. m \in Messages /\ inbound[m] # "none"
      BY <1>5, <1>7, <2>1 DEF LedgerStep, Quietly, ComesIn
    <3>2. m <= listener.observed
      BY <1>5, <2>1, <3>1 DEF Spoken, ObservedAll
    <3>3. listener'.observed \in Nat
      BY IdsAreNumbers DEF Types, SpeechTypes, Listeners
    <3> QED BY <1>1, <1>6, <1>7, <3>2, <3>3
  <2> QED BY <2>1 DEF ObservedAll
<1>8. CASE Quietly /\ UNCHANGED <<timeline, listener>>
  <2>1. OwnLinesWereSaid' /\ ObservedAll'
    BY <1>1, <1>4, <1>7, <1>8 DEF OwnLinesWereSaid
  <2>2. listener'.turns <= Cardinality(PassiveIn')
    BY <1>1, <1>2, <1>8 DEF Spoken
  <2>3. listener'.reply <= listener'.observed
    BY <1>8 DEF Spoken
  <2>4. ReplyWasSaid'
    BY <1>4, <1>8 DEF ReplyWasSaid
  <2> QED BY <1>3, <2>1, <2>2, <2>3, <2>4 DEF Spoken
<1>9. ASSUME NEW m \in Ids, NEW text \in Replies, Said(m, text), WasSaid(m, text)', Quietly
      PROVE  Spoken'
  <2>1. OwnLinesWereSaid'
    <3>1. OwnLine(m, text).id = m /\ OwnLine(m, text).text = text
      BY DEF OwnLine
    <3>2. \A e \in timeline' : e \in timeline \/ (e.id = m /\ e.text = text)
      BY <1>9, <3>1 DEF Said
    <3> QED BY <1>4, <1>9, <3>2 DEF OwnLinesWereSaid
  <2>2. CASE listener' = listener
    <3>1. ObservedAll'
      BY <1>1, <1>7, <1>9, <2>2
    <3>2. listener'.turns <= Cardinality(PassiveIn')
      BY <1>1, <1>2, <2>2 DEF Spoken
    <3>3. listener'.reply <= listener'.observed
      BY <2>2 DEF Spoken
    <3>4. ReplyWasSaid'
      BY <1>4, <2>2 DEF ReplyWasSaid
    <3> QED BY <1>3, <2>1, <3>1, <3>2, <3>3, <3>4 DEF Spoken
  <2>3. CASE listener' = Marked(m)
    <3>1. /\ listener'.observed = IF m > listener.observed THEN m ELSE listener.observed
          /\ listener'.reply = IF m >= listener.reply THEN m ELSE listener.reply
          /\ listener'.turns = IF m >= listener.reply THEN 0 ELSE listener.turns
      BY <2>3 DEF Marked
    <3>2. ObservedAll'
      BY <1>1, <1>6, <1>7, <1>9, <3>1
    <3>3. listener'.reply <= listener'.observed
      BY <1>1, <1>6, <3>1 DEF Spoken
    <3>4. listener'.turns <= Cardinality(PassiveIn')
      BY <1>1, <1>2, <3>1 DEF Spoken
    <3>5. ReplyWasSaid'
      BY <1>4, <1>9, <3>1 DEF ReplyWasSaid
    <3> QED BY <1>3, <2>1, <3>2, <3>3, <3>4, <3>5 DEF Spoken
  <2> QED BY <1>9, <2>2, <2>3 DEF Said
<1>10. ASSUME NEW m \in Messages, Passive(m), inbound'[m] # "none",
              \A i \in Messages \ {m} : ~ComesIn(i),
              listener' = Observed(m), UNCHANGED timeline
       PROVE  Spoken'
  <2>1. OwnLinesWereSaid'
    BY <1>4, <1>10 DEF OwnLinesWereSaid
  <2>2. m \in Ids /\ m \in Nat
    BY <1>5, <1>6
  <2>3. listener'.reply = listener.reply
    BY <1>10 DEF Observed
  <2>4. ReplyWasSaid'
    BY <1>4, <2>3 DEF ReplyWasSaid
  <2>5. /\ listener.observed <= listener'.observed /\ m <= listener'.observed
        /\ listener'.observed \in Nat
    <3>1. CASE m <= listener.observed
      BY <1>1, <1>10, <3>1 DEF Observed
    <3>2. CASE ~(m <= listener.observed)
      <4>1. listener'.observed = m
        BY <1>10, <3>2 DEF Observed
      <4> QED BY <1>1, <2>2, <3>2, <4>1
    <3> QED BY <3>1, <3>2
  <2>6. ObservedAll'
    <3>1. ASSUME NEW i \in Ids, inbound'[i] # "none", Passive(i)', i # m
          PROVE  i <= listener'.observed
      <4>1. i \in Messages /\ inbound[i] # "none"
        BY <1>5, <1>10, <3>1 DEF LedgerStep, ComesIn
      <4>2. i <= listener.observed
        BY <1>5, <3>1, <4>1 DEF Spoken, ObservedAll
      <4> QED BY <1>1, <1>6, <2>5, <4>2
    <3> QED BY <2>5, <3>1 DEF ObservedAll
  <2>7. listener'.reply <= listener'.observed
    BY <1>1, <2>3, <2>5 DEF Spoken
  <2>8. listener'.turns <= Cardinality(PassiveIn')
    <3>1. CASE m <= listener.observed
      <4>1. listener' = listener
        BY <1>10, <3>1 DEF Observed
      <4> QED BY <1>1, <1>2, <4>1 DEF Spoken
    <3>2. CASE ~(m <= listener.observed)
      <4>1. listener'.turns = listener.turns + 1
        BY <1>10, <3>2 DEF Observed
      <4>2. m \notin PassiveIn
        BY <2>2, <3>2 DEF PassiveIn, Spoken, ObservedAll
      <4>3. m \in PassiveIn'
        BY <1>5, <1>10 DEF PassiveIn
      <4>4. /\ IsFiniteSet(PassiveIn \cup {m})
            /\ Cardinality(PassiveIn \cup {m}) = Cardinality(PassiveIn) + 1
        BY <4>2, PassiveInIsFinite, FS_AddElement
      <4>5. PassiveIn \cup {m} \subseteq PassiveIn'
        BY <1>2, <4>3
      <4>6. Cardinality(PassiveIn) + 1 <= Cardinality(PassiveIn')
        BY <1>2, <4>4, <4>5, FS_Subset
      <4> QED BY <1>1, <1>2, <4>1, <4>6 DEF Spoken
    <3> QED BY <3>1, <3>2
  <2> QED BY <1>3, <2>1, <2>4, <2>6, <2>7, <2>8 DEF Spoken
<1> QED BY <1>8, <1>9, <1>10 DEF SpeechStep, Speaks, Listens

-----------------------------------------------------------------------------
(* What each step says *)

\* A message that has no answer yet gets one.
LEMMA SavedStep ==
    ASSUME Types, Core, NEW m \in Messages, answer[m].status = "none",
           NEW status, NEW text, Saved(m, status, text)
    PROVE  LedgerStep /\ inbound'[m] # "none" /\ \A i \in Messages \ {m} : ~ComesIn(i)
<1>1. Messages \subseteq Ids
  BY DEF Core, Known
<1>2. /\ \A i \in Ids : inbound'[i] = IF i = m THEN "completed" ELSE inbound[i]
      /\ \A i \in Ids \ {m} : answer'[i] = answer[i]
  BY <1>1, SavedHere
<1>3. LedgerStep
  BY <1>2 DEF LedgerStep
<1> QED BY <1>1, <1>2, <1>3 DEF ComesIn

\* A message with a handler ends with a response, or without a word.
LEMMA EndSpeaks ==
    ASSUME Types, Core, NEW m \in Ids, pc[m] # "idle", NEW text \in Replies,
           NEW status \in {"failed", "canceled", "succeeded"},
           Answers(m, status, text) \/ KeepsQuiet(m)
    PROVE  LedgerStep /\ SpeechStep
<1>1. inbound[m] = "processing" /\ m \in Messages /\ answer[m].status = "none"
  BY DEF Core, LedgerIsTrue, Known
<1>2. ASSUME NEW s, NEW t, Saved(m, s, t) PROVE LedgerStep /\ Quietly
  <2>1. LedgerStep /\ \A i \in Messages \ {m} : ~ComesIn(i)
    BY <1>1, <1>2, SavedStep
  <2> QED BY <1>1, <2>1 DEF Quietly, ComesIn
<1>3. CASE Answers(m, status, text)
  <2>1. Saved(m, status, text) /\ Said(m, text)
    BY <1>3 DEF Answers
  <2>2. answer'[m].status = status /\ answer'[m].text = text
    BY <2>1, SavedHere
  <2>3. WasSaid(m, text)'
    BY <2>2 DEF WasSaid
  <2> QED BY <1>2, <2>1, <2>3 DEF SpeechStep, Speaks
<1>4. CASE KeepsQuiet(m)
  BY <1>2, <1>4 DEF KeepsQuiet, SpeechStep
<1> QED BY <1>3, <1>4

LEMMA NothingSaid ==
    ASSUME UNCHANGED <<timeline, listener, inbound, answer>>
    PROVE  LedgerStep /\ SpeechStep
BY DEF LedgerStep, SpeechStep, Quietly, ComesIn

LEMMA HandlerSpeaks ==
    ASSUME Types, Core, NEW m \in Ids, HandlerStep(m) \/ HandlerDies(m)
    PROVE  LedgerStep /\ SpeechStep
<1>1. CASE BarrierCommits(m) \/ TurnBegins(m) \/ ModelIsAsked(m) \/ HandlerDies(m)
           \/ \E line \in Lines : ModelAnswers(m, line)
  BY <1>1, NothingSaid DEF BarrierCommits, TurnBegins, ModelIsAsked, HandlerDies, ModelAnswers
<1>2. ASSUME pc[m] # "idle", NEW text \in Replies,
             NEW status \in {"failed", "canceled", "succeeded"},
             Answers(m, status, text) \/ KeepsQuiet(m)
      PROVE  LedgerStep /\ SpeechStep
  BY <1>2, EndSpeaks
<1>3. CASE StopConfirmed(m) \/ StopFails(m) \/ CancelEnds(m) \/ TurnDeclines(m)
  BY <1>2, <1>3, TextsAreReplies DEF StopConfirmed, StopFails, CancelEnds, TurnDeclines
<1>4. CASE TurnEnds(m)
  <2>1. out[m] \in Replies
    BY DEF Types, HandlerTypes
  <2> QED BY <1>2, <1>4, <2>1 DEF TurnEnds
<1>5. CASE ModelFails(m) \/ TurnTimesOut(m)
  <2>1. Apologizes(m) /\ pc[m] # "idle"
    BY <1>5 DEF ModelFails, TurnTimesOut
  <2> QED BY <1>2, <2>1, TextsAreReplies DEF Apologizes
<1> QED BY <1>1, <1>3, <1>4, <1>5 DEF HandlerStep

LEMMA BeginSpeaks ==
    ASSUME Types, Core, NEW m \in Ids, AnswersAtOnce(m) \/ Waits(m)
    PROVE  LedgerStep /\ SpeechStep
<1>1. m \in Messages /\ inbound[m] \in {"none", "stale"}
  BY DEF AnswersAtOnce, Waits, Enter, Current, MayBegin
<1>2. answer[m].status = "none"
  BY <1>1 DEF Core, LedgerIsTrue
<1>3. ASSUME inbound'[m] # "none", \A i \in Messages \ {m} : ~ComesIn(i),
             ~Passive(m) => UNCHANGED listener,
             Passive(m) => listener' = Noticed(m), UNCHANGED timeline
      PROVE  SpeechStep
  <2>1. CASE Passive(m)
    BY <1>1, <1>3, <2>1 DEF SpeechStep, Listens, Noticed
  <2>2. CASE ~Passive(m)
    BY <1>3, <2>2 DEF SpeechStep, Quietly
  <2> QED BY <2>1, <2>2
<1>4. CASE AnswersAtOnce(m)
  <2>1. ASSUME NEW text \in Replies, NEW status \in {"failed", "succeeded"},
               Answers(m, status, text), ~Passive(m)
        PROVE  LedgerStep /\ SpeechStep
    <3>1. Saved(m, status, text) /\ Said(m, text)
      BY <2>1 DEF Answers
    <3>2. answer'[m].status = status /\ answer'[m].text = text
      BY <3>1, SavedHere
    <3>3. WasSaid(m, text)'
      BY <3>2 DEF WasSaid
    <3>4. LedgerStep /\ \A i \in Messages \ {m} : ~ComesIn(i)
      BY <1>1, <1>2, <3>1, SavedStep
    <3>5. Quietly
      BY <2>1, <3>4 DEF Quietly
    <3> QED BY <3>1, <3>3, <3>4, <3>5 DEF SpeechStep, Speaks
  <2>2. ASSUME NEW text, Saved(m, "ignored", text), UNCHANGED timeline,
               ~Passive(m) => UNCHANGED listener, Passive(m) => listener' = Noticed(m)
        PROVE  LedgerStep /\ SpeechStep
    <3>1. /\ LedgerStep /\ inbound'[m] # "none"
          /\ \A i \in Messages \ {m} : ~ComesIn(i)
      BY <1>1, <1>2, <2>2, SavedStep
    <3> QED BY <1>3, <2>2, <3>1
  <2>3. CASE Kind(m) \in {"mention", "command", "cancel"}
    <3>1. ~Passive(m)
      BY <2>3 DEF Passive
    <3> QED BY <1>4, <2>1, <2>2, <2>3, <3>1, TextsAreReplies DEF AnswersAtOnce, KeepsQuiet
  <2>4. CASE Kind(m) \notin {"mention", "command", "cancel"}
    <3>1. Saved(m, "ignored", "") /\ listener' = Noticed(m) /\ UNCHANGED timeline
      BY <1>4, <2>4 DEF AnswersAtOnce
    <3>2. ~Passive(m) => listener' = listener
      BY <3>1 DEF Noticed
    <3> QED BY <2>2, <3>1, <3>2
  <2> QED BY <2>3, <2>4
<1>5. CASE Waits(m)
  <2>1. /\ answer' = answer /\ inbound' = [inbound EXCEPT ![m] = "processing"]
        /\ inbound \in [Ids -> {"none", "processing", "stale", "completed"}]
        /\ listener' = Noticed(m) /\ UNCHANGED timeline
    BY <1>5 DEF Waits, Types, LedgerTypes
  <2>2. LedgerStep /\ inbound'[m] # "none" /\ \A i \in Messages \ {m} : ~ComesIn(i)
    BY <1>1, <2>1 DEF LedgerStep, ComesIn, Core, Known
  <2>3. ~Passive(m) => listener' = listener
    BY <2>1 DEF Noticed
  <2> QED BY <1>3, <2>1, <2>2, <2>3
<1> QED BY <1>4, <1>5

LEMMA OthersSpeak ==
    ASSUME Types, Core, InHand, NEW m \in Ids,
           \/ HumanWrites \/ BridgePosts(m) \/ BridgeGivesUp(m) \/ WorkerStep
           \/ WorkerTakes(m) \/ SlotAges(m) \/ PauseEnds \/ Restart \/ UNCHANGED vars
    PROVE  LedgerStep /\ SpeechStep
<1>1. CASE WorkerConfirms
  <2>1. PICK n \in Ids : n = worker.id
    BY <1>1 DEF WorkerConfirms, Types, WorkerTypes
  <2>2. /\ followup' = [followup EXCEPT ![n].status =
                           IF @ = "sending" THEN "confirmed" ELSE @]
        /\ followup[n].status = "sending" /\ Said(n, followup[n].text)
    BY <1>1, <2>1 DEF WorkerConfirms, Finish, Finished, InHand
  <2>3. followup \in [Ids -> Followups] /\ followup[n] \in Followups
    BY DEF Types, FollowupTypes
  <2>4. followup'[n] = [followup[n] EXCEPT !.status = "confirmed"]
    BY <2>2, <2>3
  <2>5. followup'[n].status = "confirmed" /\ followup'[n].text = followup[n].text
    BY <2>3, <2>4 DEF Followups
  <2>6. PICK text \in Replies : text = followup[n].text
    BY AnswersHaveText
  <2>7. Said(n, text) /\ WasSaid(n, text)'
    BY <2>2, <2>5, <2>6 DEF WasSaid
  <2>8. UNCHANGED <<inbound, answer>>
    BY <1>1 DEF WorkerConfirms
  <2>9. LedgerStep /\ Quietly
    BY <2>8 DEF LedgerStep, Quietly, ComesIn
  <2> QED BY <2>7, <2>9 DEF SpeechStep, Speaks
<1>2. CASE Restart
  <2>1. \A i \in Ids : inbound'[i] = IF inbound[i] = "processing" THEN "stale"
                                                                  ELSE inbound[i]
    BY <1>2 DEF Restart
  <2>2. UNCHANGED <<timeline, listener, answer>>
    BY <1>2 DEF Restart
  <2>3. Quietly
    <3>1. Messages \subseteq Ids
      BY DEF Core, Known
    <3> QED BY <2>1, <3>1 DEF Quietly, ComesIn
  <2> QED BY <2>1, <2>2, <2>3 DEF LedgerStep, SpeechStep
<1>3. CASE ~WorkerConfirms /\ ~Restart
  <2>1. UNCHANGED <<timeline, listener, inbound, answer>>
    BY <1>3 DEF HumanWrites, BridgePosts, BridgeGivesUp, WorkerStep, WorkerReconciles,
       WorkerGenerates, WorkerLocks, WorkerHears, WorkerLooks, WorkerPosts,
       WorkerIsRefused, WorkerFails, WorkerTakes, SlotAges, PauseEnds, vars
  <2> QED BY <2>1, NothingSaid
<1> QED BY <1>1, <1>2, <1>3

LEMMA NextSpeaks ==
    ASSUME Types, Core, InHand, [Next]_vars
    PROVE  LedgerStep /\ SpeechStep
<1>1. ASSUME NEW m \in Ids,
             \/ BridgePosts(m) \/ BridgeGivesUp(m) \/ AnswersAtOnce(m) \/ Waits(m)
             \/ HandlerStep(m) \/ HandlerDies(m) \/ WorkerTakes(m) \/ SlotAges(m)
      PROVE  LedgerStep /\ SpeechStep
  BY <1>1, BeginSpeaks, HandlerSpeaks, OthersSpeak
<1>2. CASE HumanWrites \/ WorkerStep \/ PauseEnds \/ Restart \/ UNCHANGED vars
  BY <1>2, SomeId, OthersSpeak
<1> QED BY <1>1, <1>2 DEF Next

-----------------------------------------------------------------------------
(* What each step does to the followups *)

LEMMA SuppressedStep ==
    ASSUME Types, InHand, followup' = Suppressed, UNCHANGED worker
    PROVE  FollowupStep
<1>1. ASSUME NEW i \in Ids, followup[i].status # "prepared"
      PROVE  followup'[i] = followup[i]
  <2>1. followup[i] \in Followups
    BY DEF Types, FollowupTypes
  <2>2. followup'[i] = [followup[i] EXCEPT !.status =
                           IF @ = "prepared" THEN "suppressed" ELSE @]
    BY DEF Suppressed
  <2> QED BY <1>1, <2>1, <2>2 DEF Followups
<1>2. worker.pc # "idle" => worker.id \in Ids
  BY DEF Types, WorkerTypes
<1> QED BY <1>1, <1>2 DEF FollowupStep, InHand

LEMMA FinishStep ==
    ASSUME Types, InHand, worker.pc # "idle", NEW status, Finish(status)
    PROVE  FollowupStep
<1>1. PICK n \in Ids : n = worker.id
  BY DEF Types, WorkerTypes
<1>2. followup[n].status = "sending"
  BY <1>1 DEF InHand
<1>3. \A i \in Ids \ {n} : followup'[i] = followup[i]
  BY <1>1 DEF Finish, Finished, Types, FollowupTypes
<1>4. worker'.pc = "idle"
  BY DEF Finish, Idle
<1> QED BY <1>2, <1>3, <1>4 DEF FollowupStep, InHand

LEMMA ClaimedStep ==
    ASSUME Types, NEW n, n \in Ids => followup[n].status = "prepared"
    PROVE  /\ \A i \in Ids : followup[i].status = "confirmed" =>
                                 Claimed(n)[i] = followup[i]
           /\ n \in Ids => Claimed(n)[n].status = "sending"
<1>1. ASSUME NEW i \in Ids
      PROVE  /\ followup[i].status = "confirmed" => Claimed(n)[i] = followup[i]
             /\ i = n => Claimed(n)[i].status = "sending"
  <2>1. followup[i] \in Followups
    BY DEF Types, FollowupTypes
  <2>2. Claimed(n)[i] = [followup[i] EXCEPT !.status =
            IF i = n THEN "sending" ELSE IF @ = "sending" THEN "uncertain" ELSE @]
    BY DEF Claimed
  <2>3. CASE i = n
    BY <2>1, <2>2, <2>3 DEF Followups
  <2>4. CASE i # n
    BY <2>1, <2>2, <2>4 DEF Followups
  <2> QED BY <2>3, <2>4
<1> QED BY <1>1

LEMMA TakeStep ==
    ASSUME Types, NEW n \in Ids, WorkerTakes(n)
    PROVE  FollowupStep
<1>1. followup[n].status = "prepared" /\ worker.pc = "idle"
  BY DEF WorkerTakes
<1>2. /\ \A i \in Ids : followup[i].status = "confirmed" => Claimed(n)[i] = followup[i]
      /\ Claimed(n)[n].status = "sending"
  BY <1>1, ClaimedStep
<1>3. CASE followup' = Claimed(n) /\ \E to \in {"look", "generate"} :
               worker' = [pc |-> to, id |-> n, sent |-> FALSE]
  BY <1>2, <1>3 DEF FollowupStep, InHand
<1>4. CASE followup' = Finished(Claimed(n), n, "suppressed") /\ UNCHANGED worker
  <2>1. \A i \in Ids \ {n} : followup'[i] = Claimed(n)[i]
    BY <1>4, ClaimedTypes DEF Finished
  <2> QED BY <1>1, <1>2, <1>4, <2>1 DEF FollowupStep, InHand
<1> QED BY <1>3, <1>4 DEF WorkerTakes

LEMMA HearsStep ==
    ASSUME Types, InHand, NEW line \in Lines, WorkerHears(line)
    PROVE  FollowupStep
<1>1. PICK n \in Ids : n = worker.id
  BY DEF WorkerHears, Types, WorkerTypes
<1>2. CASE line \in {"", followup[worker.id].main}
  BY <1>2, FinishStep DEF WorkerHears
<1>3. CASE line \notin {"", followup[worker.id].main}
  <2>1. /\ followup' = [followup EXCEPT ![n].text = line]
        /\ worker' = [worker EXCEPT !.pc = "look"] /\ followup[n].status = "sending"
    BY <1>1, <1>3 DEF WorkerHears, InHand
  <2>2. followup \in [Ids -> Followups] /\ followup[n] \in Followups /\ worker \in Workers
    BY DEF Types, FollowupTypes, WorkerTypes
  <2>3. /\ \A i \in Ids \ {n} : followup'[i] = followup[i]
        /\ followup'[n] = [followup[n] EXCEPT !.text = line]
    BY <2>1, <2>2
  <2>4. followup'[n].status = "sending" /\ worker'.id = n
    BY <1>1, <2>1, <2>2, <2>3 DEF Followups, Workers
  <2> QED BY <2>1, <2>3, <2>4 DEF FollowupStep, InHand
<1> QED BY <1>2, <1>3

LEMMA ModelAnswersStep ==
    ASSUME Types, InHand, NEW m \in Ids, NEW line \in Lines, ModelAnswers(m, line)
    PROVE  FollowupStep
<1>1. UNCHANGED worker /\ (worker.pc # "idle" => worker.id \in Ids)
  BY DEF ModelAnswers, Types, WorkerTypes
<1>2. \A i \in Ids : followup[i].status # "none" => followup'[i] = followup[i]
  BY DEF ModelAnswers, MayPrepare, Types, FollowupTypes
<1> QED BY <1>1, <1>2 DEF FollowupStep, InHand

LEMMA NextKeepsFollowups ==
    ASSUME Types, InHand, [Next]_vars
    PROVE  FollowupStep
<1>0. worker \in Workers
  BY DEF Types, WorkerTypes
<1>1. ASSUME UNCHANGED followup, worker'.pc = "idle" \/
                 (worker.pc # "idle" /\ worker'.id = worker.id)
      PROVE  FollowupStep
  BY <1>1 DEF FollowupStep, InHand
<1>2. CASE UNCHANGED <<followup, worker>>
  BY <1>2 DEF FollowupStep, InHand
<1>3. CASE HumanWrites \/ PauseEnds \/ UNCHANGED vars
  BY <1>2, <1>3 DEF HumanWrites, PauseEnds, vars
<1>4. CASE Restart
  <2>1. worker' = Idle /\ UNCHANGED followup
    BY <1>4 DEF Restart
  <2> QED BY <1>1, <2>1 DEF Idle
<1>5. ASSUME NEW m \in Ids, BridgePosts(m) \/ BridgeGivesUp(m) \/ SlotAges(m)
      PROVE  FollowupStep
  BY <1>2, <1>5 DEF BridgePosts, BridgeGivesUp, SlotAges
<1>6. ASSUME NEW m \in Ids, AnswersAtOnce(m) \/ Waits(m) PROVE FollowupStep
  <2>1. Enter(m)
    BY <1>6 DEF AnswersAtOnce, Waits
  <2> QED BY <1>2, <2>1, SuppressedStep DEF Enter
<1>7. ASSUME NEW m \in Ids, HandlerStep(m) \/ HandlerDies(m) PROVE FollowupStep
  <2>1. UNCHANGED worker
    BY <1>7 DEF HandlerStep, BarrierCommits, StopConfirmed, StopFails, CancelEnds,
       TurnBegins, TurnDeclines, ModelIsAsked, ModelAnswers, TurnEnds, ModelFails,
       TurnTimesOut, Apologizes, HandlerDies
  <2>2. \/ UNCHANGED followup \/ followup' = Suppressed
        \/ \E line \in Lines : ModelAnswers(m, line)
    BY <1>7 DEF HandlerStep, BarrierCommits, StopConfirmed, StopFails, CancelEnds,
       TurnBegins, TurnDeclines, ModelIsAsked, TurnEnds, ModelFails, TurnTimesOut,
       Apologizes, HandlerDies
  <2> QED BY <1>2, <2>1, <2>2, SuppressedStep, ModelAnswersStep
<1>8. ASSUME NEW m \in Ids, WorkerTakes(m) PROVE FollowupStep
  BY <1>8, TakeStep
<1>9. CASE WorkerStep
  <2>1. CASE WorkerReconciles
    <3>1. followup' = Claimed(0) /\ UNCHANGED worker /\ worker.pc = "idle"
      BY <2>1 DEF WorkerReconciles
    <3> QED BY <3>1, ClaimedStep, IdsAreNumbers DEF FollowupStep, InHand
  <2>2. ASSUME worker.pc # "idle", NEW status, Finish(status) PROVE FollowupStep
    BY <2>2, FinishStep
  <2>3. ASSUME worker.pc # "idle", UNCHANGED followup, NEW to,
               worker' = [worker EXCEPT !.pc = to]
        PROVE  FollowupStep
    <3>1. worker'.id = worker.id
      BY <1>0, <2>3 DEF Workers
    <3> QED BY <1>1, <2>3, <3>1
  <2>4. CASE WorkerGenerates \/ WorkerLocks \/ WorkerLooks
    BY <2>2, <2>3, <2>4 DEF WorkerGenerates, WorkerLocks, WorkerLooks
  <2>5. CASE WorkerPosts
    <3>1. worker'.id = worker.id /\ worker.pc # "idle" /\ UNCHANGED followup
      BY <2>5 DEF WorkerPosts
    <3> QED BY <1>1, <3>1
  <2>6. CASE WorkerConfirms \/ WorkerIsRefused \/ WorkerFails
    BY <2>2, <2>6 DEF WorkerConfirms, WorkerIsRefused, WorkerFails
  <2>7. CASE \E line \in Lines : WorkerHears(line)
    BY <2>7, HearsStep
  <2> QED BY <1>9, <2>1, <2>4, <2>5, <2>6, <2>7 DEF WorkerStep
<1> QED BY <1>3, <1>4, <1>5, <1>6, <1>7, <1>8, <1>9 DEF Next

-----------------------------------------------------------------------------
(* TurnInv *)

FullInv == TurnsInv /\ Spoken

\* The bridge's place, the ledger, the lock, the slots, stops, followups, the
\* timeline and the listener fit each other at every step.
THEOREM FullInvHolds == Spec => []FullInv
<1>1. Init => FullInv
  BY InitTypes, InitCore, InitSecond, InitSpoken DEF FullInv, TurnsInv
<1>2. ASSUME FullInv, [Next]_vars PROVE FullInv'
  <2>1. Types /\ Core /\ Second /\ Spoken /\ InHand
    BY <1>2 DEF FullInv, TurnsInv, Spoken
  <2>2. Types' /\ Core' /\ Second'
    BY <1>2, <2>1, NextTypes, NextKeepsCore, NextKeepsSecond
  <2>3. Grows /\ LedgerStep /\ SpeechStep /\ FollowupStep
    BY <1>2, <2>1, RowsGrow, NextSpeaks, NextKeepsFollowups
  <2>4. Spoken'
    BY <2>1, <2>2, <2>3, SpokenKept
  <2> QED BY <2>2, <2>4 DEF FullInv, TurnsInv
<1> QED BY <1>1, <1>2, PTL DEF Spec

LEMMA FullIsTyped ==
    ASSUME Types, Core, Spoken
    PROVE  TypeOK
<1>1. listener.turns \in 0..Cardinality(Ids)
  <2>1. listener.turns \in Nat
    BY DEF Types, SpeechTypes, Listeners
  <2>2. listener.turns <= Cardinality(PassiveIn)
    BY DEF Spoken
  <2> QED BY <2>1, <2>2, PassiveInIsFinite
<1>2. listener \in [observed : Ids \cup {0}, reply : Ids \cup {0},
                   turns : 0..Cardinality(Ids)]
  BY <1>1 DEF Types, SpeechTypes, Listeners
<1>3. /\ rows \in Seq([by : AllKinds \cup {"reply", "followup", "notice"},
                      src : Ids \cup {0}, text : Replies])
      /\ done \subseteq Ids /\ fence \in Ids \cup {0}
  BY DEF Types, GroupTypes, RowType
<1>4. /\ inbound \in [Ids -> {"none", "processing", "stale", "completed"}]
      /\ answer \in [Ids -> [status : {"none", "ignored", "failed", "canceled",
                                       "succeeded"}, text : Replies]]
  BY DEF Types, LedgerTypes, Responses
<1>5. /\ pc \in [Ids -> {"idle", "stopping", "stopped", "barrier", "lock", "session",
                        "model", "clear"}]
      /\ out \in [Ids -> Replies] /\ seen \in [Ids -> SUBSET Replies]
      /\ lock \in Ids \cup {Nobody, Worker}
  BY DEF Types, HandlerTypes
<1>6. /\ slots \in [Ids -> {"none", "recent", "old"}] /\ paused \in BOOLEAN
      /\ timeline \subseteq [id : Ids, text : Replies]
  BY DEF Types, SlotTypes, SpeechTypes, SaidLines
<1>7. followup \in [Ids -> [status : {"none", "prepared", "sending", "confirmed",
                                     "uncertain", "suppressed", "failed"},
                           main : Replies, text : Replies]]
  BY DEF Types, FollowupTypes, Followups
<1>8. /\ worker \in [pc : {"idle", "generate", "lock", "model", "look", "post",
                           "posted"}, id : Ids \cup {0}, sent : BOOLEAN]
      /\ calls \in [Ids -> Nat] /\ crashes \in Nat
  BY DEF Types, WorkerTypes, Workers, CountTypes
<1> QED BY <1>2, <1>3, <1>4, <1>5, <1>6, <1>7, <1>8 DEF TypeOK

LEMMA FullIsTrue ==
    ASSUME Types, Core, Spoken
    PROVE  ListenerIsTrue
<1>1. listener.reply # 0 => \E text \in Replies : WasSaid(listener.reply, text)
  <2>1. listener.reply \in Ids \cup {0}
    BY DEF Types, SpeechTypes, Listeners
  <2> QED BY <2>1 DEF Spoken, ReplyWasSaid
<1> QED BY <1>1 DEF Spoken, PassiveIn, ListenerIsTrue

\* The ledger, the lock, the listener and the timeline agree: a message has a
\* handler only while the ledger says it is processed, the execution lock is
\* held by the one at the model, the timeline and the listener have only lines
\* that were said, and a passive message is counted once at most.
THEOREM TurnInvHolds == Spec => []TurnInv
<1>1. FullInv => TurnInv
  BY FullIsTyped, FullIsTrue DEF FullInv, TurnsInv, TurnInv, Core, Spoken
<1> QED BY <1>1, FullInvHolds, PTL

=============================================================================
