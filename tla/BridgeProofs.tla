---------------------------- MODULE BridgeProofs ----------------------------
(***************************************************************************)
(* Theorems about Bridge, for any number of messages, save failures and    *)
(* crashes. The first part is about the stops: the watermark rests on a    *)
(* committed stop, a stop is answered only when it is in force, and        *)
(* nothing older is posted after that answer. They rest on StopInv, which  *)
(* says at which places of the loop a stop is known to be in force. The    *)
(* second part is about the queue: the messages are dealt with in order,   *)
(* none is passed without an answer, a message is asked about only once    *)
(* that is saved, and stops go before all else. It rests on QueueInv,      *)
(* which says at which places which message is worked on and what a saved  *)
(* state may claim.                                                        *)
(***************************************************************************)
EXTENDS Bridge, WellFoundedInduction, SequenceTheorems, TLAPS

-----------------------------------------------------------------------------
(* The inductive invariant *)

Scanning == pc \in {"scanStart", "scan", "scanAsk", "scanSend"}

\* Ids that are kept anywhere are those of messages that have been read.
IdsAreLogged ==
    /\ log \in Seq(AllKinds) /\ Len(log) <= MaxMessages
    /\ maybe \subseteq 1..Len(log)
    /\ DOMAIN answer = Ids
    /\ \A m \in Ids : answer[m] # "none" => m <= Len(log)
    /\ \A key \in submitted : key[2] \in 1..Len(log)
    /\ cur \in 0..Len(log) /\ pageEnd \in 0..Len(log)
    /\ {"todo", "then"} \subseteq DOMAIN scan
    /\ scan.todo \subseteq 1..Len(log)

\* Before the first message the loop is at none of the places that work on one.
WorkHasMessage ==
    /\ scan.then \in {"fetch", "handle", "poll", "release", "control"}
    /\ cur = 0 => /\ pc \in {"top", "fetch", "handle"} \/ Scanning
                  /\ scan.then \in {"handle", "fetch"}
    /\ pc \in {"scanAsk", "scanSend"} => scan.todo # {}

\* The saved state never claims a stop the Chat API does not have, and an
\* answer to a stop is pending only with that stop in force.
Sound(s) ==
    /\ {"pending", "stopBefore"} \subseteq DOMAIN s
    /\ s.stopBefore \in Nat /\ s.stopBefore <= fence
    /\ s.pending \in 0..Len(log)
    /\ s.pending # 0 /\ log[s.pending] = "stop" => s.pending <= s.stopBefore

\* A stop whose answer is "canceled", is about to be posted, or was posted is
\* in force; what a thread asks about is no stop.
StopsAreInForce ==
    /\ fence \in Nat
    /\ \A m \in 1..Len(log) :
          log[m] = "stop" /\ answer[m] = "canceled" => m <= fence
    /\ pc = "scanSend" /\ log[Control] = "stop" => Control <= st.stopBefore
    /\ pc \in {"answered", "send"} /\ log[cur] = "stop"
          => cur <= st.stopBefore
    /\ pc = "await" \/ (Scanning /\ scan.then \in {"poll", "release"})
          => log[cur] # "stop"
    /\ \A key \in submitted :
          key[1] = "reply" /\ log[key[2]] = "stop" => key[2] <= fence

StopInv == /\ IdsAreLogged /\ WorkHasMessage /\ StopsAreInForce
           /\ Sound(st) /\ Sound(disk)

-----------------------------------------------------------------------------
(* What the helpers do *)

Below == {ss \in Nat \X Nat : ss[1] < ss[2]}

LEMMA LeastIsLeast ==
    ASSUME NEW S, S \subseteq Nat, S # {}
    PROVE  Least(S) \in S
<1>1. IsWellFoundedOn(Below, Nat)
  BY NatLessThanWellFounded DEF OpToRel, Below
<1>2. PICK i \in S : \A j \in S : ~ (<<j, i>> \in Below)
  BY <1>1, WFMin
<1>3. \A j \in S : ~ (j < i)
  BY <1>2 DEF Below
<1>4. \A j \in S : i <= j
  BY <1>3
<1> QED
  BY <1>4 DEF Least

LEMMA GreatestOfTwo ==
    ASSUME NEW i \in Nat, NEW j \in Nat
    PROVE  /\ Greatest({i, j}) \in {i, j}
           /\ i <= Greatest({i, j}) /\ j <= Greatest({i, j})
<1>1. \E x \in {i, j} : \A y \in {i, j} : y <= x
  OBVIOUS
<1> QED
  BY <1>1 DEF Greatest

\* The command a scan works on is a message.
LEMMA ControlIsLogged ==
    ASSUME IdsAreLogged, scan.todo # {}
    PROVE  Control \in scan.todo /\ Control \in 1..Len(log) /\ Control \in Ids
<1>1. Len(log) \in Nat /\ MaxMessages \in Nat
  BY BridgeConstants DEF IdsAreLogged
<1>2. scan.todo \subseteq Nat
  BY <1>1 DEF IdsAreLogged
<1> QED
  BY <1>1, <1>2, LeastIsLeast DEF Control, IdsAreLogged, Ids

LEMMA DiscardIsSound ==
    ASSUME NEW s, Sound(s), Len(log) \in Nat
    PROVE  Sound(Discard(s))
  BY DEF Discard, Sound

\* A stop takes effect in the bridge only when the Chat API has it.
LEMMA EffectIsSound ==
    ASSUME StopInv, NEW m \in 1..Len(log)
    PROVE  Sound(Effect(st, m)) /\ Effect(st, m).stopBefore >= st.stopBefore
<1>1. Len(log) \in Nat /\ m \in Nat /\ Sound(st)
  BY DEF StopInv, IdsAreLogged
<1>2. CASE Effect(st, m) = st
  BY <1>1, <1>2 DEF Sound
<1>3. CASE Effect(st, m) # st
  <2> DEFINE s == [st EXCEPT !.stopBefore = m]
  <2>1. /\ log[m] = "stop" /\ answer[m] = "canceled" /\ m > st.stopBefore
        /\ Effect(st, m) = Discard(s)
    BY <1>3 DEF Effect
  <2>2. Sound(s)
    BY <1>1, <2>1 DEF Sound, StopInv, StopsAreInForce
  <2>3. Discard(s).stopBefore = m
    BY <1>1 DEF Discard, Sound
  <2> QED
    BY <1>1, <2>1, <2>2, <2>3, DiscardIsSound DEF Sound
<1> QED
  BY <1>2, <1>3


\* So is the state when a message is done with.
LEMMA DoneIsSound ==
    ASSUME NEW s, Sound(s), NEW m
    PROVE  Sound(Advance(s, m)) /\ Sound(ClearPending(s, m))
<1>1. Len(log) \in Nat => 0 \in 0..Len(log)
  OBVIOUS
<1>2. Sound(Advance(s, m))
  BY DEF Advance, Sound
<1>3. Sound(ClearPending(s, m))
  BY <1>1 DEF ClearPending, Sound
<1> QED
  BY <1>2, <1>3

LEMMA WaitedIsSound ==
    ASSUME Sound(st), NEW m
    PROVE  /\ Sound(Waited(m)) /\ Waited(m).pending = st.pending
           /\ Waited(m).stopBefore = st.stopBefore
  BY DEF Waited, Sound

\* Where the loop works on a message there is one.
LEMMA CurIsLogged ==
    ASSUME IdsAreLogged, WorkHasMessage, ~Scanning,
           pc \notin {"top", "fetch", "handle"}
    PROVE  cur \in 1..Len(log)
<1>1. Len(log) \in Nat /\ cur \in 0..Len(log) /\ cur # 0
  BY DEF IdsAreLogged, WorkHasMessage
<1> QED
  BY <1>1

\* The fence only rises, and is up to a stop when that is canceled.
LEMMA FenceRises ==
    ASSUME IdsAreLogged, fence \in Nat, NEW m \in Ids, AdapterFinishes(m)
    PROVE  /\ fence' \in Nat /\ fence <= fence' /\ m \in 1..Len(log)
           /\ \A i \in Ids : i # m => answer'[i] = answer[i]
           /\ log[m] = "stop" /\ answer'[m] = "canceled" => m <= fence'
           /\ UNCHANGED <<st, disk, pc, cur, scan, submitted, log>>
<1>1. m \in Nat
  BY BridgeConstants DEF Ids
<1>2. m \in 1..Len(log)
  BY <1>1, BridgeConstants DEF AdapterFinishes, IdsAreLogged, Ids
<1>3. PICK a \in AnswersTo[log[m]] :
        /\ answer' = [answer EXCEPT ![m] = a]
        /\ fence' \in CASE log[m] = "stop" /\ a = "canceled" ->
                            {Greatest({fence, m})}
                       [] log[m] = "stop" /\ a = "failed" ->
                            {fence, Greatest({fence, m})}
                       [] OTHER -> {fence}
  BY DEF AdapterFinishes
<1>4. /\ Greatest({fence, m}) \in Nat /\ fence <= Greatest({fence, m})
      /\ m <= Greatest({fence, m})
  BY <1>1, GreatestOfTwo
<1>5. /\ fence' \in {fence, Greatest({fence, m})}
      /\ log[m] = "stop" /\ a = "canceled" => fence' = Greatest({fence, m})
  BY <1>3
<1>6. UNCHANGED <<st, disk, pc, cur, scan, submitted, log>>
  BY DEF AdapterFinishes, bridgeVars, chatVars
<1>7. answer'[m] = a /\ \A i \in Ids : i # m => answer'[i] = answer[i]
  BY <1>3 DEF IdsAreLogged
<1>8. fence' \in Nat /\ fence <= fence'
  BY <1>4, <1>5
<1>9. log[m] = "stop" /\ answer'[m] = "canceled" => m <= fence'
  BY <1>4, <1>5, <1>7
<1> QED
  BY <1>2, <1>6, <1>7, <1>8, <1>9

\* A new message has a new id.
LEMMA ArrivesAtEnd ==
    ASSUME IdsAreLogged, MessageArrives
    PROVE  /\ Len(log') = Len(log) + 1
           /\ \A i \in 1..Len(log) : log'[i] = log[i]
           /\ Len(log) + 1 \in Ids
  BY BridgeConstants DEF MessageArrives, IdsAreLogged, Ids

\* Where a scan leads, by what it was for.
LEMMA ScanLeads ==
    ASSUME WorkHasMessage, ScanEnds
    PROVE  /\ pc = "scan" /\ ~Scanning'
           /\ scan.then \in {"handle", "fetch"}
                 => pc' \in {"handle", "fetch", "top"}
           /\ scan.then = "control" => pc' \in {"control", "fail"}
           /\ scan.then \in {"poll", "release"}
                 => pc' \in {"await", "answered", "fail"}
<1>1. pc = "scan" /\ pc' \in {AfterScan, ScanAborts}
  BY DEF ScanEnds, Save, Keep
<1>2. CASE scan.then \in {"handle", "fetch"}
  BY <1>1, <1>2 DEF AfterScan, ScanAborts, Scanning
<1>3. CASE scan.then = "control"
  BY <1>1, <1>3 DEF AfterScan, ScanAborts, Scanning
<1>4. CASE scan.then \in {"poll", "release"}
  BY <1>1, <1>4 DEF AfterScan, ScanAborts, Scanning
<1> QED
  BY <1>1, <1>2, <1>3, <1>4 DEF WorkHasMessage

\* A message that turns out to be for the bot keeps its place.
LEMMA SettlesInPlace ==
    ASSUME IdsAreLogged, MetadataSettles
    PROVE  /\ log' \in Seq(AllKinds) /\ Len(log') = Len(log)
           /\ \A m \in 1..Len(log) : log'[m] \in {log[m], "plain"}
<1>1. "plain" \in AllKinds
  BY DEF AllKinds
<1> HIDE DEF AllKinds
<1>2. PICK i \in 1..Len(log) : log' \in {log, [log EXCEPT ![i] = "plain"]}
  BY DEF MetadataSettles, IdsAreLogged
<1> QED
  BY <1>1, <1>2, ExceptSeq DEF IdsAreLogged

\* What is in the log when more is written to it.
LEMMA LogGrows ==
    ASSUME IdsAreLogged, MessageArrives \/ MetadataSettles
    PROVE  /\ Len(log') \in Nat /\ Len(log) <= Len(log')
           /\ \A i \in 1..Len(log) : log'[i] = "stop" => log[i] = "stop"
           /\ \A i \in 1..Len(log') :
                 i \in 1..Len(log) \/ answer[i] = "none"
           /\ UNCHANGED <<st, disk, pc, cur, scan, submitted, answer, fence>>
<1>1. UNCHANGED <<st, disk, pc, cur, scan, submitted, answer, fence>>
  BY DEF MessageArrives, MetadataSettles, bridgeVars, chatVars
<1>2. Len(log) \in Nat
  BY DEF IdsAreLogged
<1>3. CASE MessageArrives
  <2>1. \A i \in 1..Len(log') : i \in 1..Len(log) \/ i = Len(log) + 1
    BY <1>2, <1>3, ArrivesAtEnd
  <2>2. answer[Len(log) + 1] = "none"
    BY <1>2, <1>3, ArrivesAtEnd DEF IdsAreLogged
  <2> QED
    BY <1>1, <1>2, <1>3, <2>1, <2>2, ArrivesAtEnd
<1>4. CASE MetadataSettles
  BY <1>1, <1>2, <1>4, SettlesInPlace
<1> QED
  BY <1>3, <1>4

LEMMA GrownLogKeepsSound ==
    ASSUME IdsAreLogged, NEW s, Sound(s), MessageArrives \/ MetadataSettles
    PROVE  /\ s.pending \in 0..Len(log')
           /\ s.pending # 0 /\ log'[s.pending] = "stop"
                 => s.pending <= s.stopBefore
           /\ UNCHANGED <<st, disk, fence>>
<1>1. Len(log) \in Nat /\ s.pending \in 0..Len(log)
  BY DEF IdsAreLogged, Sound
<1>2. s.pending \in 0..Len(log')
  BY <1>1, LogGrows
<1>3. s.pending # 0 => s.pending \in 1..Len(log)
  BY <1>1
<1>4. log'[s.pending] = "stop" /\ s.pending # 0 => log[s.pending] = "stop"
  BY <1>3, LogGrows
<1> QED
  BY <1>2, <1>4, LogGrows DEF Sound

\* What is known of stops carries over to the longer log.
LEMMA GrownLogKeepsForce ==
    ASSUME StopInv, MessageArrives \/ MetadataSettles
    PROVE  StopsAreInForce'
<1> USE DEF StopInv, StopsAreInForce
<1>1. Len(log) \in Nat
  BY DEF IdsAreLogged
<1>2. UNCHANGED <<st, pc, cur, scan, submitted, answer, fence>>
  BY LogGrows
<1>3. fence' \in Nat
  BY <1>2
<1>4. \A m \in 1..Len(log') :
        log'[m] = "stop" /\ answer'[m] = "canceled" => m <= fence'
  BY <1>2, LogGrows
<1>5. pc' = "scanSend" /\ log'[Control'] = "stop" => Control' <= st'.stopBefore
  BY <1>2, LogGrows, ControlIsLogged DEF WorkHasMessage, Control
<1>6. pc' \in {"answered", "send"} /\ log'[cur'] = "stop"
        => cur' <= st'.stopBefore
  BY <1>2, LogGrows, CurIsLogged DEF Scanning
<1>7. pc' = "await" \/ (Scanning' /\ scan'.then \in {"poll", "release"})
        => log'[cur'] # "stop"
  <2>1. pc = "await" \/ (Scanning /\ scan.then \in {"poll", "release"})
          => cur \in 1..Len(log)
    BY <1>1 DEF WorkHasMessage, IdsAreLogged, Scanning
  <2> QED
    BY <1>2, <2>1, LogGrows DEF Scanning
<1>8. \A key \in submitted' :
        key[1] = "reply" /\ log'[key[2]] = "stop" => key[2] <= fence'
  BY <1>2, LogGrows DEF IdsAreLogged
<1> QED
  BY <1>3, <1>4, <1>5, <1>6, <1>7, <1>8

\* The posts: of an answer inside a scan, and of the message's own answer or
\* failure notice.
Telling == ControlDelivered \/ ControlUndelivered
Posting == ReplyConcluded \/ ReplyRaises \/ NoticeConcluded \/ NoticeRaises

LEMMA TellingEffect ==
    ASSUME IdsAreLogged, WorkHasMessage, Telling
    PROVE  /\ Control \in 1..Len(log) /\ pc = "scanSend" /\ pc' = "scan"
           /\ submitted' = submitted
              \/ submitted' = submitted \cup {<<"reply", Control>>}
           /\ \A key \in submitted' : key[2] \in 1..Len(log)
           /\ DOMAIN scan' = DOMAIN scan /\ scan'.then = scan.then
           /\ scan'.todo \subseteq scan.todo
           /\ st' = st \/ st' = [st EXCEPT !.processed = st'.processed]
           /\ UNCHANGED <<disk, log, maybe, answer, fence, cur, pageEnd>>
<1>1. pc = "scanSend" /\ pc' = "scan"
  BY DEF Telling, ControlDelivered, ControlUndelivered, Keep
<1>2. Control \in 1..Len(log)
  BY <1>1, ControlIsLogged DEF WorkHasMessage
<1>3. /\ DOMAIN scan' = DOMAIN scan /\ scan'.then = scan.then
      /\ scan'.todo \subseteq scan.todo
      /\ st' = st \/ st' = [st EXCEPT !.processed = @ \cup {Control}]
      /\ UNCHANGED <<disk, log, maybe, answer, fence, cur, pageEnd>>
  <2> USE DEF Keep, outerVars, quietVars, IdsAreLogged
  <2>1. CASE ControlDelivered
    BY <2>1 DEF ControlDelivered
  <2>2. CASE ControlUndelivered
    BY <2>2 DEF ControlUndelivered, ControlFailed
  <2> QED
    BY <2>1, <2>2 DEF Telling
<1>4. \/ submitted' = submitted
      \/ submitted' = submitted \cup {<<"reply", Control>>}
  BY DEF Telling, ControlDelivered, ControlUndelivered, SendConcludes,
         SendRaises, Submitting, chatVars
<1> HIDE DEF Control
<1>5. \A key \in submitted' : key[2] \in 1..Len(log)
  BY <1>2, <1>4 DEF IdsAreLogged
<1>6. st' = [st EXCEPT !.processed = @ \cup {Control}]
        => st' = [st EXCEPT !.processed = st'.processed]
  OBVIOUS
<1> QED
  BY <1>1, <1>2, <1>3, <1>4, <1>5, <1>6

LEMMA PostingEffect ==
    ASSUME IdsAreLogged, WorkHasMessage, Posting
    PROVE  /\ cur \in 1..Len(log) /\ pc \in {"send", "notice"}
           /\ pc' \in {"commit", "fail", "noticed", "noticeFailed"}
           /\ \/ submitted' = submitted
              \/ pc = "send" /\ submitted' = submitted \cup {<<"reply", cur>>}
              \/ submitted' = submitted \cup {<<"failure", cur>>}
           /\ \A key \in submitted' : key[2] \in 1..Len(log)
           /\ UNCHANGED <<st, disk, log, maybe, answer, fence, cur, pageEnd,
                          scan>>
<1>1. /\ pc \in {"send", "notice"}
      /\ pc' \in {"commit", "fail", "noticed", "noticeFailed"}
      /\ UNCHANGED <<st, disk, log, maybe, answer, fence, cur, pageEnd, scan>>
  BY DEF Posting, ReplyConcluded, ReplyRaises, NoticeConcluded, NoticeRaises,
         Keep, outerVars, quietVars
<1>2. cur \in 1..Len(log)
  BY <1>1, CurIsLogged DEF Scanning
<1>3. \/ submitted' = submitted
      \/ pc = "send" /\ submitted' = submitted \cup {<<"reply", cur>>}
      \/ submitted' = submitted \cup {<<"failure", cur>>}
  BY DEF Posting, ReplyConcluded, ReplyRaises, NoticeConcluded, NoticeRaises,
         SendConcludes, SendRaises, Submitting, chatVars
<1>4. \A key \in submitted' : key[2] \in 1..Len(log)
  BY <1>2, <1>3 DEF IdsAreLogged
<1> QED
  BY <1>1, <1>2, <1>3, <1>4

\* A stop is answered where it is known to be in force.
LEMMA TellingKeepsForce ==
    ASSUME StopInv, Telling
    PROVE  StopsAreInForce'
<1> USE DEF StopInv, StopsAreInForce
<1>1. log[Control] = "stop" => Control <= fence
  BY TellingEffect DEF Sound, IdsAreLogged
<1>2. \A key \in submitted' :
        key[1] = "reply" /\ log[key[2]] = "stop" => key[2] <= fence
  <2> HIDE DEF Control
  <2> QED
    BY <1>1, TellingEffect
<1> QED
  BY <1>2, TellingEffect DEF Scanning

LEMMA PostingKeepsForce ==
    ASSUME StopInv, Posting
    PROVE  StopsAreInForce'
<1> USE DEF StopInv, StopsAreInForce
<1>1. pc = "send" /\ log[cur] = "stop" => cur <= fence
  BY PostingEffect DEF Sound, IdsAreLogged
<1>2. \A key \in submitted' :
        key[1] = "reply" /\ log[key[2]] = "stop" => key[2] <= fence
  BY <1>1, PostingEffect
<1> QED
  BY <1>2, PostingEffect DEF Scanning


-----------------------------------------------------------------------------
(* Every step keeps the invariant *)

\* Ids stay those of messages.
LEMMA StepIds == StopInv /\ [Next]_vars => IdsAreLogged'
<1> SUFFICES ASSUME StopInv, [Next]_vars PROVE IdsAreLogged'
  OBVIOUS
<1>0. Len(log) \in Nat /\ MaxMessages \in Nat
  BY BridgeConstants DEF StopInv, IdsAreLogged
<1> USE <1>0
<1> USE DEF bridgeVars, chatVars, outerVars, quietVars, Keep, StopInv,
            IdsAreLogged, NoScan
<1>1. CASE DiscardStale \/ FetchPage \/ RecordFailure \/ RecordNoticeFailure
  BY <1>1 DEF DiscardStale, FetchPage, RecordFailure, RecordNoticeFailure,
         Save
<1>2. CASE ResumePass
  BY <1>2 DEF ResumePass
<1>3. CASE FreshPass
  BY <1>3 DEF FreshPass
<1>4. CASE PollsNothing
  BY <1>4 DEF PollsNothing, vars
<1>5. CASE ReadControls
  BY <1>5 DEF ReadControls
<1>6. CASE ReadRaises
  BY <1>6 DEF ReadRaises, ScanAborts
<1>7. CASE AskControl
  <2>1. Control \in 1..Len(log)
    BY <1>7, ControlIsLogged DEF AskControl
  <2>2. \A m \in Ids : answer'[m] # "none" => answer[m] # "none" \/ m = Control
    BY <1>7 DEF AskControl, Ask
  <2>3. /\ DOMAIN answer' = Ids
        /\ UNCHANGED <<log, maybe, submitted, cur, pageEnd, scan>>
    BY <1>7 DEF AskControl, Ask
  <2> HIDE DEF Control
  <2> QED
    BY <2>1, <2>2, <2>3
<1>8. CASE ControlAnswered
  BY <1>8 DEF ControlAnswered, Save, ControlFailed
<1>9. CASE ControlUnanswered
  BY <1>9 DEF ControlUnanswered, ControlFailed
<1>10. CASE Telling
  BY <1>10, TellingEffect
<1>11. CASE ScanEnds
  BY <1>11 DEF ScanEnds, Save, AfterScan, ScanAborts
<1>12. CASE PassEnds
  BY <1>12 DEF PassEnds
<1>13. CASE Preempt
  BY <1>13 DEF Preempt
<1>14. CASE AskDirect
  BY <1>14, BridgeConstants DEF AskDirect, Ask, Ids
<1>15. CASE DirectAnswered
  BY <1>15 DEF DirectAnswered, Save
<1>16. CASE DirectUnanswered
  BY <1>16 DEF DirectUnanswered
<1>17. CASE SavePending
  BY <1>17 DEF SavePending, Save
<1>18. CASE Posting
  BY <1>18, PostingEffect
<1>19. CASE CommitMessage \/ EndSilently \/ CommitNotice
  BY <1>19 DEF CommitMessage, EndSilently, CommitNotice, Save
<1>20. CASE \E m \in Ids : Handle(m)
  <2> PICK m \in Ids : Handle(m)
    BY <1>20
  <2>0. Settled(m) \/ Here(m) => m \in 1..Len(log)
    BY BridgeConstants DEF Settled, Here, Ids
  <2>1. CASE WaitForMetadata(m)
    BY <2>0, <2>1 DEF WaitForMetadata, Save, Settled, Here
  <2>2. CASE TurnToNotice(m)
    BY <2>0, <2>2 DEF TurnToNotice, Settled, Here
  <2>3. CASE SkipMessage(m)
    BY <2>0, <2>3 DEF SkipMessage, Save, Settled, Here
  <2>4. CASE ResumePending(m)
    BY <2>0, <2>4 DEF ResumePending, Settled, Here
  <2>5. CASE TakeControl(m)
    BY <2>0, <2>5 DEF TakeControl, Settled, Here
  <2>6. CASE StartWorker(m)
    BY <2>0, <2>6 DEF StartWorker, Ask, Settled, Here
  <2> QED
    BY <2>1, <2>2, <2>3, <2>4, <2>5, <2>6 DEF Handle
<1>21. CASE WorkerReturns
  BY <1>21 DEF WorkerReturns
<1>22. CASE MessageArrives
  <2>1. PICK k \in AllKinds :
          /\ log' = Append(log, k)
          /\ maybe' \in {maybe, maybe \cup {Len(log) + 1}}
    BY <1>22, BridgeConstants DEF MessageArrives
  <2>2. log' \in Seq(AllKinds) /\ Len(log') = Len(log) + 1
    BY <2>1
  <2>3. /\ Len(log) < MaxMessages
        /\ UNCHANGED <<answer, submitted, cur, pageEnd, scan>>
    BY <1>22 DEF MessageArrives
  <2>4. \A i : i \in 0..Len(log) => i \in 0..Len(log')
    BY <2>2
  <2>5. \A i : i \in 1..Len(log) => i \in 1..Len(log')
    BY <2>2
  <2>6. maybe' \subseteq 1..Len(log')
    BY <2>1, <2>2, <2>5
  <2>7. Len(log') <= MaxMessages
    BY <2>2, <2>3, BridgeConstants
  <2>8. \A m \in Ids : answer[m] # "none" => m <= Len(log')
    BY <2>2, BridgeConstants DEF Ids
  <2> QED
    BY <2>2, <2>3, <2>4, <2>5, <2>6, <2>7, <2>8
<1>23. CASE MetadataSettles
  BY <1>23, SettlesInPlace DEF MetadataSettles
<1>24. CASE \E m \in Ids : AdapterFinishes(m)
  BY <1>24 DEF AdapterFinishes
<1>25. CASE Crash
  BY <1>25 DEF Crash
<1>26. CASE UNCHANGED vars
  BY <1>26 DEF vars
<1> QED
  BY <1>1, <1>2, <1>3, <1>4, <1>5, <1>6, <1>7, <1>8, <1>9, <1>10, <1>11,
     <1>12, <1>13, <1>14, <1>15, <1>16, <1>17, <1>18, <1>19, <1>20, <1>21,
     <1>22, <1>23, <1>24, <1>25, <1>26
  DEF Next, Loop, Scan, Telling, Posting

\* The loop gets to a message before it works on one.
LEMMA StepWork == StopInv /\ [Next]_vars => WorkHasMessage'
<1> SUFFICES ASSUME StopInv, [Next]_vars PROVE WorkHasMessage'
  OBVIOUS
<1>0. Len(log) \in Nat /\ MaxMessages \in Nat
  BY BridgeConstants DEF StopInv, IdsAreLogged
<1> USE <1>0
<1> USE DEF bridgeVars, chatVars, outerVars, quietVars, Keep, StopInv,
            IdsAreLogged,
            WorkHasMessage, Scanning, NoScan
<1>1. CASE DiscardStale \/ FetchPage \/ RecordFailure \/ RecordNoticeFailure
  BY <1>1 DEF DiscardStale, FetchPage, RecordFailure, RecordNoticeFailure,
         Save
<1>2. CASE ResumePass \/ FreshPass \/ PollsNothing \/ PassEnds \/ Preempt \/
           DirectUnanswered
  BY <1>2 DEF ResumePass, FreshPass, PollsNothing, PassEnds, Preempt,
         DirectUnanswered, vars
<1>3. CASE ReadControls \/ ReadRaises \/ ControlUnanswered
  BY <1>3 DEF ReadControls, ReadRaises, ControlUnanswered, ScanAborts,
         ControlFailed
<1>4. CASE AskControl \/ AskDirect
  BY <1>4 DEF AskControl, AskDirect, Ask
<1>5. CASE ControlAnswered
  BY <1>5 DEF ControlAnswered, Save, ControlFailed
<1>6. CASE Telling
  BY <1>6, TellingEffect
<1>7. CASE ScanEnds
  BY <1>7, ScanLeads DEF ScanEnds, Save, AfterScan, ScanAborts
<1>8. CASE DirectAnswered
  BY <1>8 DEF DirectAnswered, Save
<1>9. CASE SavePending
  BY <1>9 DEF SavePending, Save
<1>10. CASE Posting
  BY <1>10, PostingEffect
<1>11. CASE CommitMessage \/ EndSilently \/ CommitNotice
  BY <1>11 DEF CommitMessage, EndSilently, CommitNotice, Save
<1>12. CASE \E m \in Ids : Handle(m)
  <2> PICK m \in Ids : Handle(m)
    BY <1>12
  <2>0. Settled(m) \/ Here(m) => m \in 1..Len(log)
    BY BridgeConstants DEF Settled, Here, Ids
  <2>1. CASE WaitForMetadata(m)
    BY <2>0, <2>1 DEF WaitForMetadata, Save, Settled, Here
  <2>2. CASE TurnToNotice(m)
    BY <2>0, <2>2 DEF TurnToNotice, Settled, Here
  <2>3. CASE SkipMessage(m)
    BY <2>0, <2>3 DEF SkipMessage, Save, Settled, Here
  <2>4. CASE ResumePending(m)
    <3>1. pc' = "send" /\ cur' = m /\ m # 0 /\ scan' = scan
      BY <2>0, <2>4 DEF ResumePending, Settled
    <3> QED
      BY <3>1
  <2>5. CASE TakeControl(m)
    BY <2>0, <2>5 DEF TakeControl, Settled, Here
  <2>6. CASE StartWorker(m)
    BY <2>0, <2>6 DEF StartWorker, Ask, Settled, Here
  <2> QED
    BY <2>1, <2>2, <2>3, <2>4, <2>5, <2>6 DEF Handle
<1>13. CASE WorkerReturns
  BY <1>13 DEF WorkerReturns
<1>14. CASE MessageArrives
  BY <1>14 DEF MessageArrives
<1>15. CASE MetadataSettles
  BY <1>15 DEF MetadataSettles
<1>16. CASE \E m \in Ids : AdapterFinishes(m)
  BY <1>16 DEF AdapterFinishes
<1>17. CASE Crash
  BY <1>17 DEF Crash
<1>18. CASE UNCHANGED vars
  BY <1>18 DEF vars
<1> QED
  BY <1>1, <1>2, <1>3, <1>4, <1>5, <1>6, <1>7, <1>8, <1>9, <1>10, <1>11,
     <1>12, <1>13, <1>14, <1>15, <1>16, <1>17, <1>18
  DEF Next, Loop, Scan, Telling, Posting

\* What is in memory and on disk stays sound.
LEMMA StepSound == StopInv /\ [Next]_vars => (Sound(st) /\ Sound(disk))'
<1> SUFFICES ASSUME StopInv, [Next]_vars PROVE (Sound(st) /\ Sound(disk))'
  OBVIOUS
<1>0. Len(log) \in Nat /\ MaxMessages \in Nat
  BY BridgeConstants DEF StopInv, IdsAreLogged
<1> USE <1>0
<1> USE DEF bridgeVars, chatVars, outerVars, quietVars, Keep, StopInv,
            Sound, IdsAreLogged
<1>1. CASE DiscardStale \/ FetchPage \/ RecordFailure \/ RecordNoticeFailure
  BY <1>1, DiscardIsSound DEF DiscardStale, FetchPage, RecordFailure,
         RecordNoticeFailure, Save
<1>2. CASE ResumePass \/ FreshPass \/ PollsNothing \/ PassEnds \/ Preempt \/
           DirectUnanswered
  BY <1>2 DEF ResumePass, FreshPass, PollsNothing, PassEnds, Preempt,
         DirectUnanswered, vars
<1>3. CASE ReadControls \/ ReadRaises \/ ControlUnanswered
  BY <1>3 DEF ReadControls, ReadRaises, ControlUnanswered, ScanAborts,
         ControlFailed
<1>4. CASE AskControl \/ AskDirect
  BY <1>4 DEF AskControl, AskDirect, Ask
<1>5. CASE ControlAnswered
  BY <1>5, ControlIsLogged, EffectIsSound DEF ControlAnswered, Save,
         ControlFailed, WorkHasMessage
<1>6. CASE Telling
  BY <1>6, TellingEffect DEF WorkHasMessage
<1>7. CASE ScanEnds
  BY <1>7 DEF ScanEnds, Save, AfterScan, ScanAborts
<1>8. CASE DirectAnswered
  BY <1>8, CurIsLogged, EffectIsSound DEF DirectAnswered, Save, Scanning
<1>9. CASE SavePending
  BY <1>9 DEF SavePending, Save, StopsAreInForce, WorkHasMessage, Scanning
<1>10. CASE Posting
  BY <1>10, PostingEffect
<1>11. CASE CommitMessage \/ EndSilently \/ CommitNotice
  BY <1>11, DoneIsSound DEF CommitMessage, EndSilently, CommitNotice, Save
<1>12. CASE \E m \in Ids : Handle(m)
  <2> PICK m \in Ids : Handle(m)
    BY <1>12
  <2>0. Settled(m) \/ Here(m) => m \in 1..Len(log)
    BY BridgeConstants DEF Settled, Here, Ids
  <2>1. CASE WaitForMetadata(m)
    BY <2>0, <2>1 DEF WaitForMetadata, Save, Settled, Here
  <2>2. CASE TurnToNotice(m)
    BY <2>0, <2>2, WaitedIsSound DEF TurnToNotice, Settled, Here
  <2>3. CASE SkipMessage(m)
    <3> DEFINE w == IF m \in st.processed \/ Invalidated(m)
                      THEN ClearPending(Waited(m), m) ELSE Waited(m)
    <3>1. Sound(w)
      BY WaitedIsSound, DoneIsSound
    <3>2. Sound(Advance(w, m))
      BY <3>1, DoneIsSound
    <3>3. /\ st' = Advance(w, m) /\ disk' \in {disk, Advance(w, m)}
          /\ UNCHANGED <<log, fence>>
      BY <2>3 DEF SkipMessage, Save
    <3> HIDE DEF w
    <3> QED
      BY <3>2, <3>3
  <2>4. CASE ResumePending(m)
    BY <2>0, <2>4, WaitedIsSound DEF ResumePending, Settled, Here
  <2>5. CASE TakeControl(m)
    BY <2>0, <2>5, WaitedIsSound DEF TakeControl, Settled, Here
  <2>6. CASE StartWorker(m)
    BY <2>0, <2>6, WaitedIsSound DEF StartWorker, Ask, Settled, Here
  <2> QED
    BY <2>1, <2>2, <2>3, <2>4, <2>5, <2>6 DEF Handle
<1>13. CASE WorkerReturns
  BY <1>13 DEF WorkerReturns
<1>14. CASE MessageArrives
  BY <1>14, GrownLogKeepsSound DEF MessageArrives
<1>15. CASE MetadataSettles
  BY <1>15, GrownLogKeepsSound DEF MetadataSettles
<1>16. CASE \E m \in Ids : AdapterFinishes(m)
  <2>1. /\ fence' \in Nat /\ fence \in Nat /\ fence <= fence'
        /\ UNCHANGED <<st, disk, log>>
    BY <1>16, FenceRises DEF StopsAreInForce
  <2> QED
    BY <2>1
<1>17. CASE Crash
  BY <1>17 DEF Crash
<1>18. CASE UNCHANGED vars
  BY <1>18 DEF vars
<1> QED
  BY <1>1, <1>2, <1>3, <1>4, <1>5, <1>6, <1>7, <1>8, <1>9, <1>10, <1>11,
     <1>12, <1>13, <1>14, <1>15, <1>16, <1>17, <1>18
  DEF Next, Loop, Scan, Telling, Posting

\* What a stop's answer, pending or posted, says of it stays true.
LEMMA StepForce == StopInv /\ [Next]_vars => StopsAreInForce'
<1> SUFFICES ASSUME StopInv, [Next]_vars PROVE StopsAreInForce'
  OBVIOUS
<1>0. Len(log) \in Nat /\ MaxMessages \in Nat
  BY BridgeConstants DEF StopInv, IdsAreLogged
<1> USE <1>0
<1> USE DEF bridgeVars, chatVars, outerVars, quietVars, Keep, StopInv,
            Sound, IdsAreLogged, WorkHasMessage,
            Scanning, StopsAreInForce, NoScan, Control
<1>1. CASE DiscardStale \/ FetchPage \/ RecordFailure \/ RecordNoticeFailure
  BY <1>1 DEF DiscardStale, FetchPage, RecordFailure, RecordNoticeFailure,
         Save
<1>2. CASE ResumePass \/ FreshPass \/ PollsNothing \/ PassEnds \/ Preempt \/
           DirectUnanswered
  BY <1>2 DEF ResumePass, FreshPass, PollsNothing, PassEnds, Preempt,
         DirectUnanswered, vars
<1>3. CASE ReadControls \/ ReadRaises \/ ControlUnanswered
  BY <1>3 DEF ReadControls, ReadRaises, ControlUnanswered, ScanAborts,
         ControlFailed
<1>4. CASE AskControl
  BY <1>4 DEF AskControl, Ask
<1>5. CASE ControlAnswered
  BY <1>5, ControlIsLogged, EffectIsSound DEF ControlAnswered, Save,
         ControlFailed, EffectHolds
<1>6. CASE Telling
  BY <1>6, TellingKeepsForce
<1>7. CASE ScanEnds
  BY <1>7, ScanLeads DEF ScanEnds, Save, AfterScan, ScanAborts
<1>8. CASE AskDirect
  BY <1>8 DEF AskDirect, Ask
<1>9. CASE DirectAnswered
  BY <1>9, CurIsLogged, EffectIsSound DEF DirectAnswered, Save, EffectHolds
<1>10. CASE SavePending
  BY <1>10 DEF SavePending, Save
<1>11. CASE Posting
  BY <1>11, PostingKeepsForce
<1>12. CASE CommitMessage \/ EndSilently \/ CommitNotice
  BY <1>12 DEF CommitMessage, EndSilently, CommitNotice, Save
<1>13. CASE \E m \in Ids : Handle(m)
  <2> PICK m \in Ids : Handle(m)
    BY <1>13
  <2>0. Settled(m) \/ Here(m) => m \in 1..Len(log)
    BY BridgeConstants DEF Settled, Here, Ids
  <2>1. CASE WaitForMetadata(m)
    BY <2>0, <2>1 DEF WaitForMetadata, Save, Settled, Here
  <2>2. CASE TurnToNotice(m)
    BY <2>0, <2>2, WaitedIsSound DEF TurnToNotice, Settled, Here
  <2>3. CASE SkipMessage(m)
    BY <2>0, <2>3, WaitedIsSound DEF SkipMessage, Save, Settled, Here
  <2>4. CASE ResumePending(m)
    BY <2>0, <2>4, WaitedIsSound DEF ResumePending, Settled, Here
  <2>5. CASE TakeControl(m)
    BY <2>0, <2>5, WaitedIsSound DEF TakeControl, Settled, Here
  <2>6. CASE StartWorker(m)
    <3>1. /\ pc' = "await" /\ cur' = m /\ log[m] = "plain"
          /\ UNCHANGED <<log, fence, submitted>>
      BY <2>6 DEF StartWorker
    <3>2. \A i \in Ids : answer'[i] = "canceled" => answer[i] = "canceled"
      BY <2>6 DEF StartWorker, Ask
    <3>3. 1..Len(log) \subseteq Ids
      BY DEF Ids
    <3> QED
      BY <3>1, <3>2, <3>3
  <2> QED
    BY <2>1, <2>2, <2>3, <2>4, <2>5, <2>6 DEF Handle
<1>14. CASE WorkerReturns
  BY <1>14 DEF WorkerReturns
<1>15. CASE MessageArrives
  BY <1>15, GrownLogKeepsForce DEF MessageArrives
<1>16. CASE MetadataSettles
  BY <1>16, GrownLogKeepsForce DEF MetadataSettles
<1>17. CASE \E m \in Ids : AdapterFinishes(m)
  <2>0. PICK m \in Ids : AdapterFinishes(m)
    BY <1>17
  <2>1. /\ fence' \in Nat /\ fence <= fence' /\ m \in 1..Len(log)
        /\ UNCHANGED <<st, disk, pc, cur, scan, submitted, log>>
    BY <2>0, FenceRises
  <2>2. \A i \in 1..Len(log) :
          log[i] = "stop" /\ answer'[i] = "canceled" => i <= fence'
    <3>1. /\ \A i \in Ids : i # m => answer'[i] = answer[i]
          /\ log[m] = "stop" /\ answer'[m] = "canceled" => m <= fence'
      BY <2>0, FenceRises
    <3>2. SUFFICES ASSUME NEW i \in 1..Len(log),
                          log[i] = "stop", answer'[i] = "canceled"
                   PROVE  i <= fence'
      OBVIOUS
    <3>3. i \in Ids /\ i \in Nat /\ fence \in Nat
      BY BridgeConstants DEF Ids
    <3>4. CASE i = m
      BY <3>1, <3>2, <3>4
    <3>5. CASE i # m
      <4>1. i <= fence
        BY <3>1, <3>2, <3>3, <3>5
      <4> QED
        BY <2>1, <3>3, <4>1
    <3> QED
      BY <3>4, <3>5
  <2>3. \A key \in submitted :
          key[1] = "reply" /\ log[key[2]] = "stop" => key[2] <= fence'
    BY <2>1
  <2> QED
    BY <2>1, <2>2, <2>3
<1>18. CASE Crash
  BY <1>18 DEF Crash
<1>19. CASE UNCHANGED vars
  BY <1>19 DEF vars
<1> QED
  BY <1>1, <1>2, <1>3, <1>4, <1>5, <1>6, <1>7, <1>8, <1>9, <1>10, <1>11,
     <1>12, <1>13, <1>14, <1>15, <1>16, <1>17, <1>18, <1>19
  DEF Next, Loop, Scan, Telling, Posting

LEMMA StepStopInv == StopInv /\ [Next]_vars => StopInv'
  BY StepIds, StepWork, StepSound, StepForce DEF StopInv

LEMMA InitStopInv == Init => StopInv
<1> SUFFICES ASSUME Init PROVE StopInv
  OBVIOUS
<1> USE DEF Init, Fresh, NoScan
<1>1. IdsAreLogged
  BY BridgeConstants DEF IdsAreLogged, Ids
<1>2. WorkHasMessage
  BY DEF WorkHasMessage
<1>3. StopsAreInForce
  BY DEF StopsAreInForce, Scanning
<1>4. Sound(st) /\ Sound(disk)
  BY DEF Sound
<1> QED
  BY <1>1, <1>2, <1>3, <1>4 DEF StopInv

\* Only the posts of the loop submit anything.
LEMMA SubmittedBySend ==
    ASSUME Next
    PROVE  \/ submitted' = submitted
           \/ \E k \in {"reply", "failure"}, i \in {cur, Control} :
                 Submitting(<<k, i>>, i)
<1>1. CASE ControlDelivered
  BY <1>1 DEF ControlDelivered, SendConcludes, chatVars
<1>2. CASE ControlUndelivered
  BY <1>2 DEF ControlUndelivered, SendRaises
<1>3. CASE ReplyConcluded
  BY <1>3 DEF ReplyConcluded, SendConcludes, chatVars
<1>4. CASE ReplyRaises
  BY <1>4 DEF ReplyRaises, SendRaises
<1>5. CASE NoticeConcluded
  BY <1>5 DEF NoticeConcluded, SendConcludes
<1>6. CASE NoticeRaises
  BY <1>6 DEF NoticeRaises, SendRaises
<1>7. CASE ~(\/ ControlDelivered \/ ControlUndelivered \/ ReplyConcluded
             \/ ReplyRaises \/ NoticeConcluded \/ NoticeRaises)
  BY <1>7 DEF Next, Loop, Scan, Handle, chatVars, outerVars, vars,
     DiscardStale, ResumePass, FreshPass, PollsNothing, FetchPage,
     ReadControls, ReadRaises, AskControl, ControlAnswered, ControlUnanswered,
     ScanEnds, PassEnds, WaitForMetadata, TurnToNotice, SkipMessage,
     ResumePending, TakeControl, StartWorker, Preempt, AskDirect,
     DirectAnswered, DirectUnanswered, SavePending, CommitMessage,
     RecordFailure, EndSilently, CommitNotice, RecordNoticeFailure,
     WorkerReturns, MessageArrives, MetadataSettles, AdapterFinishes, Crash
<1> QED
  BY <1>1, <1>2, <1>3, <1>4, <1>5, <1>6, <1>7

-----------------------------------------------------------------------------
(* The theorems *)

\* Where a stop is known to be in force, for any number of messages.
THEOREM StopInvHolds == Spec => []StopInv
<1>1. Init => StopInv                        BY InitStopInv
<1>2. StopInv /\ [Next]_vars => StopInv'     BY StepStopInv
<1> QED BY <1>1, <1>2, PTL DEF Spec

\* The watermark by which db_bridge drops old work is that of a stop which the
\* Chat API has, in memory and in the state file.
THEOREM WatermarkHolds == Spec => []WatermarkIsFenced
<1>1. StopInv => WatermarkIsFenced
  BY DEF StopInv, Sound, WatermarkIsFenced
<1> QED BY <1>1, StopInvHolds, PTL

\* A stop is answered in the group only once it is in force.
THEOREM StopAnswersHold == Spec => []StopAnswerMeansStopped
<1>1. StopInv => StopAnswerMeansStopped
  BY DEF StopInv, IdsAreLogged, StopsAreInForce, StopAnswerMeansStopped
<1> QED BY <1>1, StopInvHolds, PTL

\* After that answer, nothing older than the stop reaches the group.
THEOREM OldWorkStaysBack == Spec => NothingOldAfterStopAnswer
<1> DEFINE Step ==
      \A m \in 1..Len(log) :
          (\E s \in (m + 1)..Len(log) :
              log[s] = "stop" /\ <<"reply", s>> \in submitted)
          => \A key \in {"reply", "failure"} :
                <<key, m>> \in submitted' => <<key, m>> \in submitted
<1>1. StopInv /\ [Next]_vars => [Step]_vars
  <2> SUFFICES ASSUME StopInv, Next,
                      NEW m \in 1..Len(log), NEW s \in (m + 1)..Len(log),
                      log[s] = "stop", <<"reply", s>> \in submitted,
                      NEW key \in {"reply", "failure"},
                      <<key, m>> \in submitted'
               PROVE  <<key, m>> \in submitted
    OBVIOUS
  <2>1. m < fence
    BY DEF StopInv, IdsAreLogged, StopsAreInForce
  <2>2. \/ submitted' = submitted
        \/ \E k \in {"reply", "failure"}, i \in {cur, Control} :
              Submitting(<<k, i>>, i)
    BY SubmittedBySend
  <2> QED
    BY <2>1, <2>2 DEF Submitting
<1> QED BY <1>1, StopInvHolds, PTL DEF Spec, NothingOldAfterStopAnswer
-----------------------------------------------------------------------------
(* The queue: what is read, kept for later and passed. QueueInv says of each *)
(* place of the loop which message it works on, of each saved state what lies *)
(* ahead of its cursor, and of a scan which stops it has yet to deal with.  *)

\* There is nothing more to post about m: no answer, or a final response.
Told(m) == answer[m] = "ignored" \/ <<"reply", m>> \in concluded

\* A pending answer and a retry are of the next message, which is for the bot
\* (a retry may also be left over from a failed save behind the cursor); the
\* stops before the place the last scan reached are dealt with.
Kept(s) ==
    /\ s.cursor <= Len(log) /\ s.scanCursor <= Len(log)
    /\ s.retry.id <= Len(log) /\ s.pending <= Len(log)
    /\ s.pending \in {0, s.cursor + 1}
    /\ s.pending # 0 => log[s.pending] # "noise"
    /\ s.retry.id \in {0, s.cursor, s.cursor + 1}
    /\ s.retry.id = s.cursor + 1 =>
          log[s.retry.id] # "noise" /\ s.retry.id \notin s.processed
    /\ \A i \in 1..Len(log) :
          log[i] = "stop" /\ s.cursor + 1 < i /\ i <= s.scanCursor
          => i \in s.processed
    /\ \A i \in s.processed : i > s.cursor => Told(i)

Working == \/ pc \in {"await", "control", "directAsk", "answered", "send",
                      "commit"}
           \/ Scanning /\ scan.then \in {"poll", "release", "control"}
Ending  == pc \in {"fail", "notice", "noticed", "noticeFailed"}

PlaceInv ==
    /\ Working => cur = st.cursor + 1
    /\ Ending => cur \in {st.cursor, st.cursor + 1}
    /\ (Working \/ Ending) /\ cur = st.cursor + 1 =>
          log[cur] # "noise" /\ cur \notin st.processed
    /\ Scanning => /\ scan.active \in {st.cursor, st.cursor + 1}
                   /\ st.retry.id <= scan.active /\ scan.active <= Len(log)
    /\ Scanning /\ Working => scan.active = cur
    /\ pc = "send" => st.pending = cur
    /\ pc = "commit" => Told(cur)
    /\ pc = "noticed" => <<"failure", cur>> \in concluded
    /\ preproc \subseteq st.processed
    /\ disk.cursor <= st.cursor

\* Metadata only settles what is not a command, and no noise is answered.
KindsInv ==
    /\ \A m \in maybe : log[m] \in {"plain", "noise"}
    /\ \A key \in submitted : key[1] = "reply" => log[key[2]] # "noise"

Scans == [todo : SUBSET Nat, failed : SUBSET Nat, end : Nat, active : Nat,
          progress : BOOLEAN,
          then : {"fetch", "handle", "poll", "release", "control"}]

\* The stops a scan has seen ahead of the message in hand.
Seen(i) == log[i] = "stop" /\ st.cursor + 1 < i

ScanInv ==
    /\ scan \in Scans /\ scan.end <= Len(log)
    /\ pc \in {"scan", "scanAsk", "scanSend"} =>
          /\ \A i \in scan.todo \cup scan.failed :
                i \in 1..Len(log) /\ IsUrgent(i) /\ i > scan.active
          /\ \A i \in 1..scan.end :
                Seen(i) => i \in st.processed \cup scan.todo \cup scan.failed
    /\ pc \in {"fetch", "handle", "control", "directAsk", "answered", "send",
               "commit"} =>
          \A i \in 1..scan.end : Seen(i) => i \in st.processed

QueueInv == /\ StopInv /\ TypeOK
            /\ Kept(st) /\ Kept(disk)
            /\ PlaceInv /\ KindsInv /\ ScanInv

-----------------------------------------------------------------------------
(* What the helpers do to a state *)

\* What a stop, or the end of a wait, takes from a state: some of what is
\* left for later, if the stop is newer.
Trims(s, t) ==
    /\ t \in States
    /\ t.cursor = s.cursor /\ t.scanCursor = s.scanCursor
    /\ t.processed = s.processed /\ t.stopBefore >= s.stopBefore
    /\ \/ t.pending = s.pending
       \/ t.pending = 0 /\ s.pending < t.stopBefore
    /\ t.retry \in {NoRetry, s.retry}

LEMMA NoRetryType == NoRetry \in [id : Nat, attempts : Nat, notice : BOOLEAN]
  BY DEF NoRetry

LEMMA TrimsItself ==
    ASSUME NEW s \in States
    PROVE  Trims(s, s)
<1>1. s.stopBefore \in Nat
  BY DEF States
<1> QED
  BY <1>1 DEF Trims

LEMMA TrimsTwice ==
    ASSUME NEW s \in States, NEW t, NEW u, Trims(s, t), Trims(t, u)
    PROVE  Trims(s, u)
<1>1. /\ s.stopBefore \in Nat /\ t.stopBefore \in Nat /\ u.stopBefore \in Nat
      /\ s.pending \in Nat
  BY DEF Trims, States
<1> QED
  BY <1>1 DEF Trims

LEMMA DiscardTrims ==
    ASSUME NEW s \in States
    PROVE  Trims(s, Discard(s))
<1> DEFINE p == IF s.pending < s.stopBefore THEN 0 ELSE s.pending
           r == IF s.retry.id < s.stopBefore THEN NoRetry ELSE s.retry
           t == [s EXCEPT !.pending = p]
           u == [t EXCEPT !.retry = r]
<1>1. p \in Nat /\ s.stopBefore \in Nat
  BY DEF States
<1>2. r \in [id : Nat, attempts : Nat, notice : BOOLEAN]
  BY NoRetryType DEF States
<1>3. t \in States
  BY <1>1 DEF States
<1>4. u \in States
  BY <1>2, <1>3 DEF States
<1>5. Discard(s) = u
  BY DEF Discard
<1>6. /\ t.cursor = s.cursor /\ t.scanCursor = s.scanCursor
      /\ t.processed = s.processed /\ t.stopBefore = s.stopBefore
      /\ t.pending = p
  BY DEF States
<1>7. /\ u.cursor = t.cursor /\ u.scanCursor = t.scanCursor
      /\ u.processed = t.processed /\ u.stopBefore = t.stopBefore
      /\ u.pending = t.pending /\ u.retry = r
  BY <1>3 DEF States
<1> HIDE DEF u, t
<1> QED
  BY <1>1, <1>4, <1>5, <1>6, <1>7 DEF Trims

LEMMA EffectTrims ==
    ASSUME NEW s \in States, NEW m \in Nat
    PROVE  Trims(s, Effect(s, m))
<1>1. CASE Effect(s, m) = s
  BY <1>1, TrimsItself
<1>2. CASE Effect(s, m) # s
  <2> DEFINE t == [s EXCEPT !.stopBefore = m]
  <2>1. t \in States /\ m > s.stopBefore /\ Effect(s, m) = Discard(t)
    BY <1>2 DEF Effect, States
  <2>2. /\ t.cursor = s.cursor /\ t.scanCursor = s.scanCursor
        /\ t.processed = s.processed /\ t.stopBefore = m
        /\ t.pending = s.pending /\ t.retry = s.retry
        /\ s.stopBefore \in Nat
    BY DEF States
  <2> HIDE DEF t
  <2>3. Trims(s, t)
    BY <2>1, <2>2 DEF Trims
  <2> QED
    BY <2>1, <2>3, DiscardTrims, TrimsTwice
<1> QED
  BY <1>1, <1>2

LEMMA WaitTrims ==
    ASSUME st \in States, NEW m \in Nat
    PROVE  Trims(st, Waited(m)) /\ Trims(st, [st EXCEPT !.wait = m])
<1>1. ASSUME NEW w \in Nat PROVE Trims(st, [st EXCEPT !.wait = w])
  <2>1. [st EXCEPT !.wait = w] \in States /\ st.stopBefore \in Nat
    BY DEF States
  <2>2. LET t == [st EXCEPT !.wait = w] IN
        /\ t.cursor = st.cursor /\ t.scanCursor = st.scanCursor
        /\ t.processed = st.processed /\ t.stopBefore = st.stopBefore
        /\ t.pending = st.pending /\ t.retry = st.retry
    BY DEF States
  <2> QED
    BY <2>1, <2>2 DEF Trims
<1>2. (IF st.wait = m THEN 0 ELSE st.wait) \in Nat
  BY DEF States
<1> QED
  BY <1>1, <1>2 DEF Waited

\* Message m is done with, and t is what remains.
Finishes(s, t, m) ==
    /\ t \in States
    /\ t.cursor = m /\ t.scanCursor = s.scanCursor
    /\ t.processed = s.processed \cup {m} /\ t.stopBefore = s.stopBefore
    /\ t.pending \in {0, s.pending} /\ t.pending # m
    /\ s.pending # m => t.pending = s.pending
    /\ t.retry = NoRetry

LEMMA AdvanceFields ==
    ASSUME NEW s \in States, NEW m \in Ids
    PROVE  LET t == Advance(s, m) IN
           /\ t \in States
           /\ t.cursor = m /\ t.scanCursor = s.scanCursor
           /\ t.processed = s.processed \cup {m}
           /\ t.stopBefore = s.stopBefore /\ t.pending = s.pending
           /\ t.retry = NoRetry
<1>1. m \in Nat
  BY BridgeConstants DEF Ids
<1> DEFINE a == [s EXCEPT !.cursor = m]
           b == [a EXCEPT !.retry = NoRetry]
           t == [b EXCEPT !.processed = @ \cup {m}]
<1>2. a \in States
  BY <1>1 DEF States
<1>3. b \in States
  BY <1>2, NoRetryType DEF States
<1>4. t \in States
  BY <1>3 DEF States
<1>5. Advance(s, m) = t
  BY DEF Advance
<1>6. /\ a.cursor = m /\ a.scanCursor = s.scanCursor
      /\ a.processed = s.processed /\ a.stopBefore = s.stopBefore
      /\ a.pending = s.pending
  BY DEF States
<1>7. /\ b.cursor = a.cursor /\ b.scanCursor = a.scanCursor
      /\ b.processed = a.processed /\ b.stopBefore = a.stopBefore
      /\ b.pending = a.pending /\ b.retry = NoRetry
  BY <1>2 DEF States
<1>8. /\ t.cursor = b.cursor /\ t.scanCursor = b.scanCursor
      /\ t.processed = b.processed \cup {m} /\ t.stopBefore = b.stopBefore
      /\ t.pending = b.pending /\ t.retry = b.retry
  BY <1>3 DEF States
<1> HIDE DEF a, b, t
<1> QED
  BY <1>4, <1>5, <1>6, <1>7, <1>8

LEMMA ClearPendingFields ==
    ASSUME NEW s \in States, NEW m \in Ids
    PROVE  LET t == ClearPending(s, m) IN
           /\ t \in States
           /\ t.cursor = s.cursor /\ t.scanCursor = s.scanCursor
           /\ t.processed = s.processed
           /\ t.stopBefore = s.stopBefore
           /\ t.pending = IF s.pending = m THEN 0 ELSE s.pending
           /\ t.retry = s.retry
<1>1. (IF s.pending = m THEN 0 ELSE s.pending) \in Nat
  BY DEF States
<1> QED
  BY <1>1 DEF ClearPending, States

LEMMA CommitFinishes ==
    ASSUME NEW s \in States, NEW m \in Ids
    PROVE  Finishes(s, Advance(ClearPending(s, m), m), m)
<1>1. m # 0
  BY BridgeConstants DEF Ids
<1> QED
  BY <1>1, ClearPendingFields, AdvanceFields DEF Finishes

LEMMA AdvanceFinishes ==
    ASSUME NEW s \in States, NEW m \in Ids, s.pending # m
    PROVE  Finishes(s, Advance(s, m), m)
  BY AdvanceFields DEF Finishes

-----------------------------------------------------------------------------
(* Least and Greatest *)

LEMMA LeastBounds ==
    ASSUME NEW S, S \subseteq Nat, S # {}
    PROVE  Least(S) \in S /\ \A j \in S : Least(S) <= j
<1>1. IsWellFoundedOn(Below, Nat)
  BY NatLessThanWellFounded DEF OpToRel, Below
<1>2. PICK i \in S : \A j \in S : ~ (<<j, i>> \in Below)
  BY <1>1, WFMin
<1>3. \A j \in S : ~ (j < i)
  BY <1>2 DEF Below
<1>4. \A j \in S : i <= j
  BY <1>3
<1> QED
  BY <1>4 DEF Least

LEMMA GreatestOfThree ==
    ASSUME NEW i \in Nat, NEW j \in Nat, NEW k \in Nat
    PROVE  LET g == Greatest({i, j, k}) IN
           /\ g \in {i, j, k} /\ i <= g /\ j <= g /\ k <= g
<1>1. \E x \in {i, j, k} : \A y \in {i, j, k} : y <= x
  OBVIOUS
<1> QED
  BY <1>1 DEF Greatest

-----------------------------------------------------------------------------
(* Steps by what they do to the state *)

\* A message is done with: skipped, answered, or given up.
Finishing(m) ==
    \/ SkipMessage(m)
    \/ m = cur /\ (CommitMessage \/ EndSilently \/ CommitNotice)

LEMMA QueueFacts ==
    ASSUME QueueInv
    PROVE  /\ Len(log) \in Nat /\ Len(log) <= MaxMessages /\ MaxMessages \in Nat
           /\ st \in States /\ disk \in States
           /\ st.cursor \in Nat /\ st.scanCursor \in Nat /\ st.pending \in Nat
           /\ st.stopBefore \in Nat /\ st.retry.id \in Nat
           /\ st.retry.attempts \in Nat /\ st.processed \subseteq Ids
           /\ cur \in Nat /\ pageEnd \in 0..Len(log) /\ fence \in Nat
           /\ \A i \in 1..Len(log) : i \in Ids
           /\ \A i \in Ids : i \in Nat /\ i # 0
<1>1. /\ Len(log) \in Nat /\ Len(log) <= MaxMessages /\ MaxMessages \in Nat
      /\ pageEnd \in 0..Len(log)
  BY BridgeConstants DEF QueueInv, StopInv, IdsAreLogged
<1>2. st \in States /\ disk \in States /\ cur \in Nat /\ fence \in Nat
  BY DEF QueueInv, TypeOK
<1>3. /\ st.cursor \in Nat /\ st.scanCursor \in Nat /\ st.pending \in Nat
      /\ st.stopBefore \in Nat /\ st.retry.id \in Nat
      /\ st.retry.attempts \in Nat /\ st.processed \subseteq Ids
  BY <1>2 DEF States
<1>4. /\ \A i \in 1..Len(log) : i \in Ids
      /\ \A i \in Ids : i \in Nat /\ i # 0
  BY <1>1 DEF Ids
<1> QED
  BY <1>1, <1>2, <1>3, <1>4

\* The message that run_once gets to next.
LEMMA HereFacts ==
    ASSUME QueueInv, NEW m \in Ids, Here(m) \/ Settled(m)
    PROVE  /\ pc = "handle" /\ m = st.cursor + 1
           /\ m \in 1..Len(log) /\ m \in Nat
  BY QueueFacts DEF Here, Settled

LEMMA SkipClears ==
    ASSUME QueueInv, NEW m \in Ids, SkipMessage(m)
    PROVE  Finishes(st, st', m)
<1>1. /\ m = st.cursor + 1 /\ m \in Nat /\ st \in States /\ m \in 1..Len(log)
  BY QueueFacts, HereFacts DEF SkipMessage
<1>2. Trims(st, Waited(m)) /\ Waited(m).pending = st.pending
      /\ Waited(m).stopBefore = st.stopBefore
      /\ Waited(m).retry = st.retry
  <2>1. Waited(m).pending = st.pending /\ Waited(m).stopBefore = st.stopBefore
        /\ Waited(m).retry = st.retry
    BY <1>1 DEF Waited, States
  <2> QED
    BY <1>1, <2>1, WaitTrims
<1>3. CASE m \in st.processed \/ Invalidated(m)
  <2>1. st' = Advance(ClearPending(Waited(m), m), m)
    BY <1>3 DEF SkipMessage, Save
  <2>2. Finishes(Waited(m), st', m)
    BY <1>2, <2>1, CommitFinishes DEF Trims
  <2> QED
    BY <1>2, <2>2 DEF Finishes, Trims
<1>4. CASE ~(m \in st.processed \/ Invalidated(m))
  <2>1. st' = Advance(Waited(m), m)
    BY <1>4 DEF SkipMessage, Save
  <2>2. log[m] = "noise"
    BY <1>4 DEF SkipMessage, Handled, QueueInv, PlaceInv
  <2>3. st.pending # m
    BY <1>1, <2>2, QueueFacts DEF QueueInv, Kept
  <2>4. Finishes(Waited(m), st', m)
    BY <1>2, <2>1, <2>3, AdvanceFinishes DEF Trims
  <2> QED
    BY <1>2, <2>4 DEF Finishes, Trims
<1> QED
  BY <1>3, <1>4

LEMMA FinishingEffect ==
    ASSUME QueueInv, NEW m \in Ids, Finishing(m)
    PROVE  /\ Finishes(st, st', m) /\ m \in {st.cursor, st.cursor + 1}
           /\ m \in 1..Len(log) /\ disk' \in {disk, st'}
           /\ cur' = m
           /\ UNCHANGED <<log, maybe, answer, fence, concluded, submitted,
                          scan, pageEnd, maxRetries, crashes>>
           /\ preproc' \subseteq preproc
<1>1. CASE SkipMessage(m)
  <2>1. Finishes(st, st', m) /\ m = st.cursor + 1 /\ m \in 1..Len(log)
    BY <1>1, SkipClears, HereFacts DEF SkipMessage
  <2>2. /\ disk' \in {disk, st'} /\ cur' = m /\ preproc' \subseteq preproc
        /\ UNCHANGED <<log, maybe, answer, fence, concluded, submitted,
                       scan, pageEnd, maxRetries, crashes>>
    BY <1>1 DEF SkipMessage, Save, chatVars, outerVars, quietVars
  <2> QED
    BY <2>1, <2>2
<1>2. CASE m = cur /\ (CommitMessage \/ EndSilently \/ CommitNotice)
  <2>1. /\ st' = Advance(ClearPending(st, m), m) /\ disk' \in {disk, st'}
        /\ pc \in {"commit", "notice", "noticed"}
        /\ UNCHANGED <<log, maybe, answer, fence, concluded, submitted,
                       scan, pageEnd, maxRetries, crashes, cur, preproc>>
    BY <1>2 DEF CommitMessage, EndSilently, CommitNotice, Save, chatVars,
                outerVars, quietVars
  <2>2. Finishes(st, st', m)
    BY <2>1, QueueFacts, CommitFinishes
  <2>3. m \in {st.cursor, st.cursor + 1}
    BY <1>2, <2>1 DEF QueueInv, PlaceInv, Working, Ending
  <2>4. m \in 1..Len(log)
    BY <1>2, <2>1, CurIsLogged DEF QueueInv, StopInv, Scanning
  <2> QED
    BY <1>2, <2>1, <2>2, <2>3, <2>4
<1> QED
  BY <1>1, <1>2 DEF Finishing

\* The steps that only trim the state, if they touch it at all.
Polling == DiscardStale \/ ResumePass \/ FreshPass \/ PollsNothing \/ FetchPage
           \/ PassEnds
Looking == ReadControls \/ ReadRaises \/ AskControl \/ ControlAnswered
           \/ ControlUnanswered \/ ControlUndelivered
Starting(m) == WaitForMetadata(m) \/ TurnToNotice(m) \/ ResumePending(m)
               \/ TakeControl(m) \/ StartWorker(m)
Asking  == Preempt \/ AskDirect \/ DirectAnswered \/ DirectUnanswered
Around  == WorkerReturns \/ MessageArrives \/ MetadataSettles
           \/ \E m \in Ids : AdapterFinishes(m)

LEMMA QueueSteps ==
    ASSUME Next
    PROVE  \/ Polling \/ Looking \/ Asking \/ Posting \/ Around
           \/ \E m \in Ids : Starting(m) \/ SkipMessage(m)
           \/ CommitMessage \/ EndSilently \/ CommitNotice
           \/ ControlDelivered \/ ScanEnds \/ SavePending
           \/ RecordFailure \/ RecordNoticeFailure \/ Crash
  BY DEF Next, Loop, Scan, Handle, Polling, Looking, Starting, Asking,
         Posting, Around

LEMMA FinishingSteps ==
    ASSUME QueueInv, CommitMessage \/ EndSilently \/ CommitNotice
    PROVE  cur \in Ids /\ Finishing(cur)
<1>1. pc \in {"commit", "notice", "noticed"}
  BY DEF CommitMessage, EndSilently, CommitNotice
<1>2. cur \in 1..Len(log)
  BY <1>1, CurIsLogged DEF QueueInv, StopInv, Scanning
<1> QED
  BY <1>2, QueueFacts DEF Finishing

LEMMA TrimmingEffect ==
    ASSUME QueueInv,
           \/ Polling \/ Looking \/ Asking \/ Posting \/ Around
           \/ UNCHANGED vars
           \/ \E m \in Ids : Starting(m)
    PROVE  Trims(st, st') /\ disk' \in {disk, st'}
<1> USE DEF Keep, bridgeVars, chatVars, outerVars, quietVars
<1>0. st \in States /\ Trims(st, st)
  BY QueueFacts, TrimsItself
<1>1. CASE UNCHANGED <<st, disk>>
  BY <1>0, <1>1
<1>2. CASE Polling
  <2>1. CASE DiscardStale \/ FetchPage
    BY <1>0, <2>1, DiscardTrims DEF DiscardStale, FetchPage, Save
  <2>2. CASE ResumePass \/ FreshPass \/ PollsNothing \/ PassEnds
    BY <1>1, <2>2 DEF ResumePass, FreshPass, PollsNothing, PassEnds, vars
  <2> QED
    BY <1>2, <2>1, <2>2 DEF Polling
<1>3. CASE Looking
  <2>1. CASE ControlAnswered
    <3>1. Control \in Nat
      BY <2>1, ControlIsLogged
      DEF ControlAnswered, QueueInv, StopInv, WorkHasMessage, IdsAreLogged
    <3>2. Trims(st, Effect(st, Control))
      BY <1>0, <3>1, EffectTrims
    <3> HIDE DEF Control
    <3> QED
      BY <1>0, <2>1, <3>2 DEF ControlAnswered, Save
  <2>2. CASE Looking /\ ~ControlAnswered
    BY <1>1, <2>2 DEF Looking, ReadControls, ReadRaises, AskControl,
                      ControlUnanswered, ControlUndelivered
  <2> QED
    BY <1>3, <2>1, <2>2
<1>4. CASE Asking
  <2>1. CASE DirectAnswered
    BY <1>0, <2>1, QueueFacts, EffectTrims DEF DirectAnswered, Save
  <2>2. CASE Asking /\ ~DirectAnswered
    BY <1>1, <2>2 DEF Asking, Preempt, AskDirect, DirectUnanswered
  <2> QED
    BY <1>4, <2>1, <2>2
<1>5. CASE Posting
  BY <1>1, <1>5 DEF Posting, ReplyConcluded, ReplyRaises, NoticeConcluded,
                    NoticeRaises
<1>6. CASE Around
  BY <1>1, <1>6 DEF Around, WorkerReturns, MessageArrives, MetadataSettles,
                    AdapterFinishes
<1>7. ASSUME NEW m \in Ids, Starting(m)
      PROVE  Trims(st, st') /\ disk' \in {disk, st'}
  <2>1. m \in Nat
    BY QueueFacts
  <2>2. CASE WaitForMetadata(m)
    BY <1>0, <2>1, <2>2, WaitTrims DEF WaitForMetadata, Save
  <2>3. CASE TurnToNotice(m) \/ ResumePending(m) \/ TakeControl(m)
             \/ StartWorker(m)
    BY <1>0, <2>1, <2>3, WaitTrims
    DEF TurnToNotice, ResumePending, TakeControl, StartWorker
  <2> QED
    BY <1>7, <2>2, <2>3 DEF Starting
<1>8. CASE UNCHANGED vars
  BY <1>1, <1>8 DEF vars
<1> QED
  BY <1>2, <1>3, <1>4, <1>5, <1>6, <1>7, <1>8

-----------------------------------------------------------------------------
(* The world around the queue *)

\* The log, the answers and the history one step later.
ToldLater(m) == answer'[m] = "ignored" \/ <<"reply", m>> \in concluded'

LogLater ==
    /\ Len(log') \in Nat /\ Len(log) <= Len(log')
    /\ \A i \in 1..Len(log) :
          log'[i] = log[i] \/ (log[i] \in {"plain", "noise"} /\ log'[i] = "plain")

LEMMA LogSteps ==
    ASSUME Next
    PROVE  log' = log \/ MessageArrives \/ MetadataSettles
<1> USE DEF chatVars, outerVars, quietVars, vars
<1>1. CASE Polling
  BY <1>1 DEF Polling, DiscardStale, ResumePass, FreshPass, PollsNothing,
              FetchPage, PassEnds
<1>2. CASE Looking
  BY <1>2 DEF Looking, ReadControls, ReadRaises, AskControl, ControlAnswered,
              ControlUnanswered, ControlUndelivered
<1>3. CASE Asking
  BY <1>3 DEF Asking, Preempt, AskDirect, DirectAnswered, DirectUnanswered
<1>4. CASE Posting
  BY <1>4 DEF Posting, ReplyConcluded, ReplyRaises, NoticeConcluded,
              NoticeRaises
<1>5. CASE Around
  BY <1>5 DEF Around, WorkerReturns, AdapterFinishes
<1>6. ASSUME NEW m \in Ids, Starting(m) \/ SkipMessage(m)
      PROVE  log' = log
  BY <1>6 DEF Starting, WaitForMetadata, TurnToNotice, SkipMessage,
              ResumePending, TakeControl, StartWorker
<1>7. CASE CommitMessage \/ EndSilently \/ CommitNotice
  BY <1>7 DEF CommitMessage, EndSilently, CommitNotice
<1>8. CASE \/ ControlDelivered \/ ScanEnds \/ SavePending
           \/ RecordFailure \/ RecordNoticeFailure \/ Crash
  BY <1>8 DEF ControlDelivered, ScanEnds, SavePending, RecordFailure,
              RecordNoticeFailure, Crash
<1> QED
  BY <1>1, <1>2, <1>3, <1>4, <1>5, <1>6, <1>7, <1>8, QueueSteps

LEMMA AnswerSteps ==
    ASSUME Next
    PROVE  \/ answer' = answer
           \/ Ask(Control) \/ Ask(cur) \/ \E m \in Ids : Ask(m)
           \/ \E m \in Ids : AdapterFinishes(m)
<1> USE DEF chatVars, outerVars, quietVars, vars
<1> HIDE DEF Control, Ask
<1>1. CASE Polling
  BY <1>1 DEF Polling, DiscardStale, ResumePass, FreshPass, PollsNothing,
              FetchPage, PassEnds
<1>2. CASE Looking
  BY <1>2 DEF Looking, ReadControls, ReadRaises, AskControl, ControlAnswered,
              ControlUnanswered, ControlUndelivered
<1>3. CASE Asking
  BY <1>3 DEF Asking, Preempt, AskDirect, DirectAnswered, DirectUnanswered
<1>4. CASE Posting
  BY <1>4 DEF Posting, ReplyConcluded, ReplyRaises, NoticeConcluded,
              NoticeRaises
<1>5. CASE Around
  BY <1>5 DEF Around, WorkerReturns, MessageArrives, MetadataSettles
<1>6. ASSUME NEW m \in Ids, Starting(m) \/ SkipMessage(m)
      PROVE  answer' = answer \/ Ask(m)
  BY <1>6 DEF Starting, WaitForMetadata, TurnToNotice, SkipMessage,
              ResumePending, TakeControl, StartWorker
<1>7. CASE CommitMessage \/ EndSilently \/ CommitNotice
  BY <1>7 DEF CommitMessage, EndSilently, CommitNotice
<1>8. CASE \/ ControlDelivered \/ ScanEnds \/ SavePending
           \/ RecordFailure \/ RecordNoticeFailure \/ Crash
  BY <1>8 DEF ControlDelivered, ScanEnds, SavePending, RecordFailure,
              RecordNoticeFailure, Crash
<1> QED
  BY <1>1, <1>2, <1>3, <1>4, <1>5, <1>6, <1>7, <1>8, QueueSteps

LEMMA ConcludedSteps ==
    ASSUME Next
    PROVE  \/ concluded' = concluded
           \/ /\ pc = "scanSend"
              /\ concluded' = concluded \cup {<<"reply", Control>>}
           \/ pc = "send" /\ concluded' = concluded \cup {<<"reply", cur>>}
           \/ /\ pc = "notice" /\ ~Invalidated(cur)
              /\ concluded' = concluded \cup {<<"failure", cur>>}
<1> USE DEF chatVars, outerVars, quietVars, vars
<1>1. CASE Polling
  BY <1>1 DEF Polling, DiscardStale, ResumePass, FreshPass, PollsNothing,
              FetchPage, PassEnds
<1>2. CASE Looking
  BY <1>2 DEF Looking, ReadControls, ReadRaises, AskControl, ControlAnswered,
              ControlUnanswered, ControlUndelivered, SendRaises
<1>3. CASE Asking
  BY <1>3 DEF Asking, Preempt, AskDirect, DirectAnswered, DirectUnanswered
<1>4. CASE Posting
  BY <1>4 DEF Posting, ReplyConcluded, ReplyRaises, NoticeConcluded,
              NoticeRaises, SendConcludes, SendRaises
<1>5. CASE Around
  BY <1>5 DEF Around, WorkerReturns, MessageArrives, MetadataSettles,
              AdapterFinishes
<1>6. ASSUME NEW m \in Ids, Starting(m) \/ SkipMessage(m)
      PROVE  concluded' = concluded
  BY <1>6 DEF Starting, WaitForMetadata, TurnToNotice, SkipMessage,
              ResumePending, TakeControl, StartWorker
<1>7. CASE CommitMessage \/ EndSilently \/ CommitNotice
  BY <1>7 DEF CommitMessage, EndSilently, CommitNotice
<1>8. CASE ControlDelivered
  BY <1>8 DEF ControlDelivered, SendConcludes
<1>9. CASE \/ ScanEnds \/ SavePending
           \/ RecordFailure \/ RecordNoticeFailure \/ Crash
  BY <1>9 DEF ScanEnds, SavePending, RecordFailure, RecordNoticeFailure, Crash
<1> QED
  BY <1>1, <1>2, <1>3, <1>4, <1>5, <1>6, <1>7, <1>8, <1>9, QueueSteps

LEMMA LogGrowsOn ==
    ASSUME QueueInv, [Next]_vars
    PROVE  LogLater
<1>0. Len(log) \in Nat /\ IdsAreLogged
  BY QueueFacts DEF QueueInv, StopInv
<1>1. CASE log' = log
  BY <1>0, <1>1 DEF LogLater
<1>2. CASE MessageArrives
  BY <1>0, <1>2, ArrivesAtEnd DEF LogLater
<1>3. CASE MetadataSettles
  <2>1. PICK m \in maybe : log' \in {log, [log EXCEPT ![m] = "plain"]}
    BY <1>3 DEF MetadataSettles
  <2>2. log[m] \in {"plain", "noise"}
    BY DEF QueueInv, KindsInv
  <2>3. \A i \in 1..Len(log) : log'[i] = log[i] \/ (i = m /\ log'[i] = "plain")
    BY <1>0, <2>1 DEF IdsAreLogged
  <2> QED
    BY <1>0, <1>3, <2>2, <2>3, SettlesInPlace DEF LogLater
<1> QED
  BY <1>1, <1>2, <1>3, LogSteps DEF vars, outerVars, quietVars

LEMMA ToldStays ==
    ASSUME QueueInv, [Next]_vars, NEW m \in Ids, Told(m)
    PROVE  ToldLater(m)
<1>1. concluded \subseteq concluded'
  BY ConcludedSteps DEF vars, chatVars
<1>2. answer[m] = "ignored" => answer'[m] = "ignored"
  <2>1. CASE answer' = answer
    BY <2>1
  <2>2. ASSUME NEW i, Ask(i), answer[m] = "ignored"
        PROVE  answer'[m] = "ignored"
    BY <2>2 DEF Ask, QueueInv, TypeOK
  <2>3. ASSUME NEW i \in Ids, AdapterFinishes(i), answer[m] = "ignored"
        PROVE  answer'[m] = "ignored"
    BY <2>3 DEF AdapterFinishes, QueueInv, TypeOK
  <2> QED
    BY <2>1, <2>2, <2>3, AnswerSteps DEF vars, outerVars
<1> QED
  BY <1>1, <1>2 DEF Told, ToldLater

-----------------------------------------------------------------------------
(* What is kept stays right *)

KeptLater(s) ==
    /\ s.cursor <= Len(log') /\ s.scanCursor <= Len(log')
    /\ s.retry.id <= Len(log') /\ s.pending <= Len(log')
    /\ s.pending \in {0, s.cursor + 1}
    /\ s.pending # 0 => log'[s.pending] # "noise"
    /\ s.retry.id \in {0, s.cursor, s.cursor + 1}
    /\ s.retry.id = s.cursor + 1 =>
          log'[s.retry.id] # "noise" /\ s.retry.id \notin s.processed
    /\ \A i \in 1..Len(log') :
          log'[i] = "stop" /\ s.cursor + 1 < i /\ i <= s.scanCursor
          => i \in s.processed
    /\ \A i \in s.processed : i > s.cursor => ToldLater(i)

\* What is kept at one time is still right at the next.
LEMMA KeptStays ==
    ASSUME QueueInv, [Next]_vars, NEW s \in States, Kept(s)
    PROVE  KeptLater(s)
<1>1. /\ s.cursor \in Nat /\ s.scanCursor \in Nat /\ s.pending \in Nat
      /\ s.retry.id \in Nat /\ s.processed \subseteq Ids
      /\ Len(log) \in Nat
  BY QueueFacts DEF States
<1>2. LogLater
  BY LogGrowsOn
<1>3. /\ s.cursor <= Len(log') /\ s.scanCursor <= Len(log')
      /\ s.retry.id <= Len(log') /\ s.pending <= Len(log')
      /\ s.pending \in {0, s.cursor + 1}
      /\ s.retry.id \in {0, s.cursor, s.cursor + 1}
  BY <1>1, <1>2 DEF Kept, LogLater
<1>4. s.pending # 0 => log'[s.pending] # "noise"
  BY <1>1, <1>2 DEF Kept, LogLater
<1>5. s.retry.id = s.cursor + 1 =>
          log'[s.retry.id] # "noise" /\ s.retry.id \notin s.processed
  BY <1>1, <1>2 DEF Kept, LogLater
<1>6. \A i \in 1..Len(log') :
          log'[i] = "stop" /\ s.cursor + 1 < i /\ i <= s.scanCursor
          => i \in s.processed
  BY <1>1, <1>2 DEF Kept, LogLater
<1>7. \A i \in s.processed : i > s.cursor => ToldLater(i)
  BY <1>1, ToldStays DEF Kept
<1> QED
  BY <1>3, <1>4, <1>5, <1>6, <1>7 DEF KeptLater

LEMMA KeptTrims ==
    ASSUME NEW s \in States, NEW t, Trims(s, t), KeptLater(s), LogLater
    PROVE  KeptLater(t)
<1>1. s.cursor \in Nat /\ s.retry.id \in Nat /\ s.pending \in Nat
  BY DEF States
<1>2. t.pending \in {0, s.pending} /\ t.retry.id \in {0, s.retry.id}
      /\ t.cursor = s.cursor /\ t.scanCursor = s.scanCursor
      /\ t.processed = s.processed
  BY DEF Trims, NoRetry
<1> QED
  BY <1>1, <1>2 DEF KeptLater, LogLater

LEMMA KeptFinishes ==
    ASSUME NEW s \in States, NEW t, NEW m \in Nat, Finishes(s, t, m),
           m \in {s.cursor, s.cursor + 1}, m <= Len(log'),
           KeptLater(s), LogLater
    PROVE  KeptLater(t)
<1>1. s.cursor \in Nat /\ s.retry.id \in Nat /\ s.pending \in Nat
  BY DEF States
<1>2. t.pending \in {0, m + 1} /\ t.pending \in {0, s.pending} /\ t.retry.id = 0
      /\ t.cursor = m /\ t.scanCursor = s.scanCursor
      /\ t.processed = s.processed \cup {m}
  BY <1>1 DEF Finishes, NoRetry, KeptLater
<1>3. \A i \in t.processed : i > t.cursor => ToldLater(i)
  <2> SUFFICES ASSUME NEW i \in t.processed, i > t.cursor PROVE ToldLater(i)
    OBVIOUS
  <2>1. i # m /\ i \in s.processed
    BY <1>2
  <2>2. i \in Nat
    BY <2>1, BridgeConstants DEF States, Ids
  <2> QED
    BY <1>1, <1>2, <2>1, <2>2 DEF KeptLater
<1>4. \A i \in 1..Len(log') :
          log'[i] = "stop" /\ t.cursor + 1 < i /\ i <= t.scanCursor
          => i \in t.processed
  BY <1>1, <1>2 DEF KeptLater, LogLater
<1>5. /\ t.cursor <= Len(log') /\ t.scanCursor <= Len(log')
      /\ t.retry.id <= Len(log') /\ t.pending <= Len(log')
      /\ t.pending \in {0, t.cursor + 1}
      /\ t.retry.id \in {0, t.cursor, t.cursor + 1}
      /\ t.retry.id # t.cursor + 1
      /\ t.pending # 0 => log'[t.pending] # "noise"
  BY <1>1, <1>2 DEF KeptLater, LogLater
<1> QED
  BY <1>3, <1>4, <1>5 DEF KeptLater

\* A command of a scan is told of, and done with.
LEMMA DeliveredEffect ==
    ASSUME QueueInv, ControlDelivered
    PROVE  /\ Control \in 1..Len(log) /\ Control \in Ids /\ Control \in scan.todo
           /\ Control > scan.active /\ IsUrgent(Control) /\ pc = "scanSend"
           /\ st' \in States /\ st'.cursor = st.cursor
           /\ st'.scanCursor = st.scanCursor /\ st'.pending = st.pending
           /\ st'.retry = st.retry /\ st'.stopBefore = st.stopBefore
           /\ st'.processed = st.processed \cup {Control}
           /\ ToldLater(Control) /\ UNCHANGED disk
<1>1. pc = "scanSend" /\ scan.todo # {}
  BY DEF ControlDelivered, QueueInv, StopInv, WorkHasMessage
<1>2. Control \in scan.todo /\ Control \in 1..Len(log) /\ Control \in Ids
  BY <1>1, ControlIsLogged DEF QueueInv, StopInv
<1> HIDE DEF Control
<1>3. Control > scan.active /\ IsUrgent(Control)
  BY <1>1, <1>2 DEF QueueInv, ScanInv
<1>4. st' = [st EXCEPT !.processed = @ \cup {Control}] /\ UNCHANGED disk
  BY DEF ControlDelivered, Keep
<1>5. st \in States
  BY QueueFacts
<1>6. /\ st' \in States /\ st'.cursor = st.cursor
      /\ st'.scanCursor = st.scanCursor /\ st'.pending = st.pending
      /\ st'.retry = st.retry /\ st'.stopBefore = st.stopBefore
      /\ st'.processed = st.processed \cup {Control}
  BY <1>2, <1>4, <1>5 DEF States
<1>7. ToldLater(Control)
  BY DEF ControlDelivered, ToldLater, SendConcludes, outerVars
<1> QED
  BY <1>1, <1>2, <1>3, <1>4, <1>6, <1>7

\* A scan gets no further than its end and than the first command that failed.
LEMMA ReachedFacts ==
    ASSUME QueueInv, pc = "scan"
    PROVE  /\ Reached \in Nat /\ Reached <= Len(log)
           /\ \A i \in 1..Reached :
                 i > scan.active => i \in 1..scan.end /\ i \notin scan.failed
<1> DEFINE S == {scan.end} \cup {i - 1 : i \in scan.failed}
<1>1. scan.end \in Nat /\ scan.active \in Nat
  BY DEF QueueInv, ScanInv, Scans
<1>2. \A i \in scan.failed : i \in Nat /\ i # 0
  BY QueueFacts DEF QueueInv, ScanInv
<1>3. S \subseteq Nat /\ scan.end \in S
  BY <1>1, <1>2
<1>4. Least(S) \in Nat /\ Least(S) <= scan.end
  BY <1>3, LeastBounds
<1>5. \A i \in scan.failed : Least(S) <= i - 1
  BY <1>3, LeastBounds
<1>6. Reached = Greatest({scan.active, Least(S)})
  BY DEF Reached
<1> HIDE DEF S
<1>7. Reached \in {scan.active, Least(S)} /\ Reached \in Nat
  BY <1>1, <1>4, <1>6, GreatestOfTwo
<1>8. scan.end <= Len(log) /\ scan.active <= Len(log)
  BY DEF QueueInv, ScanInv, PlaceInv, Scanning
<1>9. Len(log) \in Nat
  BY QueueFacts
<1> HIDE DEF Reached
<1>10. Reached <= Len(log)
  BY <1>1, <1>4, <1>7, <1>8, <1>9
<1>11. ASSUME NEW i \in 1..Reached, i > scan.active
       PROVE  i \in 1..scan.end /\ i \notin scan.failed
  <2>1. i <= Least(S) /\ i \in Nat
    BY <1>1, <1>7, <1>11
  <2>2. i \in 1..scan.end
    BY <1>1, <1>4, <2>1, <1>7
  <2>3. ASSUME i \in scan.failed PROVE FALSE
    BY <1>4, <1>5, <2>1, <2>3
  <2> QED
    BY <2>2, <2>3
<1> QED
  BY <1>7, <1>10, <1>11

LEMMA ScanEndsEffect ==
    ASSUME QueueInv, ScanEnds
    PROVE  /\ st' \in States /\ st'.cursor = st.cursor
           /\ st'.pending = st.pending /\ st'.retry = st.retry
           /\ st'.stopBefore = st.stopBefore /\ st'.processed = st.processed
           /\ st'.scanCursor \in {st.scanCursor, Reached}
           /\ pc = "scan" /\ scan.todo = {} /\ disk' \in {disk, st'}
<1>1. st \in States /\ pc = "scan" /\ Reached \in Nat
  BY QueueFacts, ReachedFacts DEF ScanEnds
<1>2. st' \in {st, [st EXCEPT !.scanCursor = Reached]} /\ disk' \in {disk, st'}
  BY DEF ScanEnds, Save, Keep
<1> HIDE DEF Reached
<1> QED
  BY <1>1, <1>2 DEF States, ScanEnds

LEMMA SavePendingEffect ==
    ASSUME QueueInv, SavePending
    PROVE  /\ st' \in States /\ st'.cursor = st.cursor
           /\ st'.pending = cur /\ st'.retry = st.retry
           /\ st'.stopBefore = st.stopBefore /\ st'.processed = st.processed
           /\ st'.scanCursor = st.scanCursor
           /\ pc = "answered" /\ cur = st.cursor + 1 /\ cur \in 1..Len(log)
           /\ log[cur] # "noise" /\ cur \notin st.processed
           /\ disk' \in {disk, st'}
<1>1. st \in States /\ cur \in Nat
  BY QueueFacts
<1>2. st' = [st EXCEPT !.pending = cur] /\ disk' \in {disk, st'}
      /\ pc = "answered"
  BY DEF SavePending, Save
<1>3. cur \in 1..Len(log)
  BY <1>2, CurIsLogged DEF QueueInv, StopInv, Scanning
<1>4. cur = st.cursor + 1 /\ log[cur] # "noise" /\ cur \notin st.processed
  BY <1>2 DEF QueueInv, PlaceInv, Working
<1> QED
  BY <1>1, <1>2, <1>3, <1>4 DEF States

Recording == RecordFailure \/ RecordNoticeFailure

LEMMA RecordingEffect ==
    ASSUME QueueInv, Recording
    PROVE  /\ st' \in States /\ st'.cursor = st.cursor
           /\ st'.pending = st.pending /\ st'.retry.id = cur
           /\ st'.stopBefore = st.stopBefore /\ st'.processed = st.processed
           /\ st'.scanCursor = st.scanCursor
           /\ pc \in {"fail", "noticeFailed"}
           /\ cur \in {st.cursor, st.cursor + 1} /\ cur \in 1..Len(log)
           /\ cur = st.cursor + 1 =>
                 log[cur] # "noise" /\ cur \notin st.processed
           /\ disk' \in {disk, st'}
<1>1. st \in States /\ cur \in Nat /\ st.retry.attempts \in Nat
      /\ maxRetries \in Nat
  BY QueueFacts, BridgeConstants DEF QueueInv, TypeOK
<1>2. pc \in {"fail", "noticeFailed"} /\ disk' \in {disk, st'}
  BY DEF Recording, RecordFailure, RecordNoticeFailure, Save
<1>3. cur \in 1..Len(log)
  BY <1>2, CurIsLogged DEF QueueInv, StopInv, Scanning
<1>4. /\ cur \in {st.cursor, st.cursor + 1}
      /\ cur = st.cursor + 1 => log[cur] # "noise" /\ cur \notin st.processed
  BY <1>2 DEF QueueInv, PlaceInv, Ending
<1>5. PICK a \in Nat, n \in BOOLEAN :
         st' = [st EXCEPT !.retry = [id |-> cur, attempts |-> a, notice |-> n]]
  <2>1. CASE RecordFailure
    <3>1. Attempts \in Nat /\ (Attempts >= maxRetries) \in BOOLEAN
      BY <1>1 DEF Attempts
    <3>2. st' = [st EXCEPT !.retry = [id |-> cur, attempts |-> Attempts,
                                      notice |-> Attempts >= maxRetries]]
      BY <2>1 DEF RecordFailure, Save
    <3> HIDE DEF Attempts
    <3> QED
      BY <3>1, <3>2
  <2>2. CASE RecordNoticeFailure
    <3>1. Greatest({maxRetries, st.retry.attempts}) \in Nat
      BY <1>1, GreatestOfTwo
    <3>2. st' = [st EXCEPT !.retry =
                    [id |-> cur,
                     attempts |-> Greatest({maxRetries, st.retry.attempts}),
                     notice |-> TRUE]]
      BY <2>2 DEF RecordNoticeFailure, Save
    <3> QED
      BY <3>1, <3>2
  <2> QED
    BY <2>1, <2>2 DEF Recording
<1>6. [id |-> cur, attempts |-> a, notice |-> n] \in
         [id : Nat, attempts : Nat, notice : BOOLEAN]
  BY <1>1
<1>7. /\ st' \in States /\ st'.cursor = st.cursor
      /\ st'.pending = st.pending /\ st'.retry.id = cur
      /\ st'.stopBefore = st.stopBefore /\ st'.processed = st.processed
      /\ st'.scanCursor = st.scanCursor
  BY <1>1, <1>5, <1>6 DEF States
<1> QED
  BY <1>2, <1>3, <1>4, <1>7

\* What a state holds after a step, in memory and on disk.
LEMMA StateAfter ==
    ASSUME QueueInv, [Next]_vars
    PROVE  /\ st' \in States /\ KeptLater(st')
           /\ disk' \in States /\ KeptLater(disk')
           /\ disk'.cursor <= st'.cursor
<1>0. /\ st \in States /\ disk \in States /\ LogLater
      /\ KeptLater(st) /\ KeptLater(disk) /\ disk.cursor <= st.cursor
      /\ st.cursor \in Nat /\ disk.cursor \in Nat
  <2>1. st \in States /\ disk \in States /\ st.cursor \in Nat
    BY QueueFacts
  <2>2. Kept(st) /\ Kept(disk) /\ disk.cursor <= st.cursor
    BY DEF QueueInv, PlaceInv
  <2> QED
    BY <2>1, <2>2, LogGrowsOn, KeptStays DEF States
<1>1. SUFFICES \/ /\ st' \in States /\ KeptLater(st')
                  /\ disk' \in {disk, st'} /\ st'.cursor >= st.cursor
               \/ st' = disk /\ disk' = disk
  <2>1. ASSUME NEW s \in States PROVE s.cursor \in Nat
    BY DEF States
  <2> QED
    BY <1>0, <2>1
<1>2. CASE \/ Polling \/ Looking \/ Asking \/ Posting \/ Around
           \/ UNCHANGED vars
           \/ \E m \in Ids : Starting(m)
  BY <1>0, <1>2, TrimmingEffect, KeptTrims DEF Trims
<1>3. ASSUME NEW m \in Ids, Finishing(m)
      PROVE  /\ st' \in States /\ KeptLater(st')
             /\ disk' \in {disk, st'} /\ st'.cursor >= st.cursor
  <2>1. /\ Finishes(st, st', m) /\ m \in {st.cursor, st.cursor + 1}
        /\ m \in 1..Len(log) /\ disk' \in {disk, st'} /\ m \in Nat
    BY <1>3, FinishingEffect, QueueFacts
  <2>2. m <= Len(log')
    BY <1>0, <2>1 DEF LogLater
  <2>3. KeptLater(st')
    BY <1>0, <2>1, <2>2, KeptFinishes
  <2> QED
    BY <1>0, <2>1, <2>3 DEF Finishes
<1>4. CASE ControlDelivered
  <2>1. Scanning /\ st.retry.id <= scan.active /\ scan.active < Control
    BY <1>4, DeliveredEffect DEF Scanning, QueueInv, PlaceInv
  <2>2. Control # st.retry.id
    BY <1>4, <2>1, DeliveredEffect, QueueFacts DEF QueueInv, ScanInv, Scans
  <2>3. KeptLater(st')
    <3> HIDE DEF Control
    <3>1. /\ st'.cursor = st.cursor
          /\ st'.scanCursor = st.scanCursor /\ st'.pending = st.pending
          /\ st'.retry = st.retry
          /\ st'.processed = st.processed \cup {Control} /\ ToldLater(Control)
      BY <1>4, DeliveredEffect
    <3> QED
      BY <1>0, <2>2, <3>1 DEF KeptLater
  <2> QED
    BY <1>0, <1>4, <2>3, DeliveredEffect
<1>5. CASE ScanEnds
  <2>1. /\ st'.cursor = st.cursor /\ st'.pending = st.pending
        /\ st'.retry = st.retry /\ st'.processed = st.processed
        /\ st'.scanCursor \in {st.scanCursor, Reached}
        /\ pc = "scan" /\ scan.todo = {}
    BY <1>5, ScanEndsEffect
  <2>2. CASE st'.scanCursor = st.scanCursor
    BY <1>0, <1>5, <2>1, <2>2, ScanEndsEffect DEF KeptLater
  <2>3. CASE st'.scanCursor = Reached
    <3>1. ASSUME NEW i \in 1..Len(log'), log'[i] = "stop", st.cursor + 1 < i,
                 i <= Reached
          PROVE  i \in st.processed
      <4>1. /\ Reached \in Nat /\ Reached <= Len(log)
            /\ i > scan.active => i \in 1..scan.end /\ i \notin scan.failed
        BY <1>0, <2>1, <3>1, ReachedFacts DEF LogLater
      <4>2. i \in 1..Len(log) /\ log[i] = "stop"
        <5>1. i \in Nat /\ i # 0 /\ Len(log) \in Nat
          BY <1>0, <3>1, QueueFacts DEF LogLater
        <5>2. i \in 1..Len(log)
          BY <3>1, <4>1, <5>1
        <5> QED
          BY <1>0, <3>1, <5>2 DEF LogLater
      <4>3. i > scan.active
        BY <2>1, <3>1, QueueFacts DEF QueueInv, PlaceInv, Scanning
      <4> QED
        BY <2>1, <3>1, <4>1, <4>2, <4>3 DEF QueueInv, ScanInv, Seen
    <3>2. Reached <= Len(log')
      BY <1>0, <2>1, ReachedFacts, QueueFacts DEF LogLater
    <3>3. KeptLater(st')
      <4> HIDE DEF Reached
      <4> QED
        BY <1>0, <2>1, <2>3, <3>1, <3>2 DEF KeptLater
    <3> QED
      BY <1>0, <1>5, <3>3, ScanEndsEffect
  <2> QED
    BY <2>1, <2>2, <2>3
<1>6. CASE SavePending
  <2>1. /\ st'.cursor = st.cursor
        /\ st'.pending = cur /\ st'.retry = st.retry
        /\ st'.processed = st.processed /\ st'.scanCursor = st.scanCursor
        /\ cur = st.cursor + 1 /\ cur \in 1..Len(log) /\ log[cur] # "noise"
    BY <1>6, SavePendingEffect
  <2>2. cur <= Len(log') /\ log'[cur] # "noise"
    <3>1. Len(log) \in Nat /\ cur \in Nat /\ cur <= Len(log)
      BY <2>1, QueueFacts
    <3>2. log'[cur] = log[cur] \/ log'[cur] = "plain"
      BY <1>0, <2>1 DEF LogLater
    <3> QED
      BY <1>0, <2>1, <3>1, <3>2 DEF LogLater
  <2>3. KeptLater(st')
    BY <1>0, <2>1, <2>2 DEF KeptLater
  <2> QED
    BY <1>0, <1>6, <2>1, <2>3, SavePendingEffect
<1>7. CASE Recording
  <2>1. /\ st'.cursor = st.cursor
        /\ st'.pending = st.pending /\ st'.retry.id = cur
        /\ st'.processed = st.processed /\ st'.scanCursor = st.scanCursor
        /\ cur \in {st.cursor, st.cursor + 1} /\ cur \in 1..Len(log)
        /\ cur = st.cursor + 1 => log[cur] # "noise" /\ cur \notin st.processed
    BY <1>7, RecordingEffect
  <2>2. cur <= Len(log') /\ (log[cur] # "noise" => log'[cur] # "noise")
    BY <1>0, <2>1, QueueFacts DEF LogLater
  <2>3. KeptLater(st')
    BY <1>0, <2>1, <2>2 DEF KeptLater
  <2> QED
    BY <1>0, <1>7, <2>1, <2>3, RecordingEffect
<1>8. CASE Crash
  BY <1>8 DEF Crash
<1> QED
  BY <1>2, <1>3, <1>4, <1>5, <1>6, <1>7, <1>8, QueueSteps, FinishingSteps
  DEF Recording, Finishing

-----------------------------------------------------------------------------
(* Every step keeps the invariant *)

LEMMA WhereIsCur ==
    ASSUME QueueInv, ~Scanning, pc \notin {"top", "fetch", "handle"}
    PROVE  cur \in 1..Len(log) /\ cur \in Ids
  BY CurIsLogged, QueueFacts DEF QueueInv, StopInv

Places == {"top", "fetch", "scanStart", "scan", "scanAsk", "scanSend",
           "handle", "await", "control", "directAsk", "answered", "send",
           "commit", "fail", "notice", "noticed", "noticeFailed"}

LEMMA PlacesStay ==
    ASSUME QueueInv, [Next]_vars
    PROVE  /\ pc' \in Places
           /\ worker' \in {"none", "running", "answered", "raised"}
           /\ maxRetries' \in RetryLimits
<1> USE DEF chatVars, outerVars, quietVars, bridgeVars, Keep, Save, Places
<1>0. /\ pc \in Places /\ worker \in {"none", "running", "answered", "raised"}
      /\ maxRetries \in RetryLimits
  BY DEF QueueInv, TypeOK
<1> USE <1>0
<1>1. CASE Polling
  BY <1>1 DEF Polling, DiscardStale, ResumePass, FreshPass, PollsNothing,
              FetchPage, PassEnds, vars
<1>2. CASE Looking
  BY <1>2 DEF Looking, ReadControls, ReadRaises, AskControl, ControlAnswered,
              ControlUnanswered, ControlUndelivered, ScanAborts
<1>3. CASE Asking
  BY <1>3 DEF Asking, Preempt, AskDirect, DirectAnswered, DirectUnanswered
<1>4. CASE Posting
  BY <1>4 DEF Posting, ReplyConcluded, ReplyRaises, NoticeConcluded,
              NoticeRaises
<1>5. CASE Around
  BY <1>5 DEF Around, WorkerReturns, MessageArrives, MetadataSettles,
              AdapterFinishes
<1>6. ASSUME NEW m \in Ids, Starting(m) \/ SkipMessage(m)
      PROVE  /\ pc' \in Places
             /\ worker' \in {"none", "running", "answered", "raised"}
             /\ maxRetries' \in RetryLimits
  BY <1>6 DEF Starting, WaitForMetadata, TurnToNotice, SkipMessage,
              ResumePending, TakeControl, StartWorker
<1>7. CASE CommitMessage \/ EndSilently \/ CommitNotice
  BY <1>7 DEF CommitMessage, EndSilently, CommitNotice
<1>8. CASE ControlDelivered \/ SavePending \/ Recording \/ Crash
  BY <1>8 DEF ControlDelivered, SavePending, Recording, RecordFailure,
              RecordNoticeFailure, Crash
<1>9. CASE ScanEnds
  <2>1. scan.then \in {"fetch", "handle", "poll", "release", "control"}
    BY DEF QueueInv, StopInv, WorkHasMessage
  <2> QED
    BY <1>9, <2>1, ScanLeads DEF ScanEnds, QueueInv, StopInv
<1>10. CASE UNCHANGED vars
  BY <1>10 DEF vars
<1> QED
  BY <1>1, <1>2, <1>3, <1>4, <1>5, <1>6, <1>7, <1>8, <1>9, <1>10, QueueSteps
  DEF Recording

LEMMA AnswersStay ==
    ASSUME QueueInv, [Next]_vars
    PROVE  /\ answer' \in [Ids -> AllAnswers \cup {"none", "working"}]
           /\ fence' \in Nat
<1>1. StopInv'
  BY StepStopInv DEF QueueInv
<1>2. fence' \in Nat /\ IdsAreLogged'
  BY <1>1 DEF StopInv, StopsAreInForce
<1>3. answer \in [Ids -> AllAnswers \cup {"none", "working"}]
  BY DEF QueueInv, TypeOK
<1>4. ASSUME NEW i, Ask(i)
      PROVE  answer' \in [Ids -> AllAnswers \cup {"none", "working"}]
  BY <1>3, <1>4 DEF Ask
<1>5. ASSUME NEW i \in Ids, AdapterFinishes(i)
      PROVE  answer' \in [Ids -> AllAnswers \cup {"none", "working"}]
  <2>1. i \in 1..Len(log)
    BY <1>5, FenceRises DEF QueueInv, StopInv, StopsAreInForce
  <2>2. log[i] \in AllKinds
    BY <2>1 DEF QueueInv, TypeOK
  <2>3. PICK a \in AnswersTo[log[i]] : answer' = [answer EXCEPT ![i] = a]
    BY <1>5 DEF AdapterFinishes
  <2>4. a \in AllAnswers
    BY <2>2, <2>3, BridgeConstants
  <2> QED
    BY <1>3, <2>3, <2>4
<1>6. CASE answer' = answer
  BY <1>2, <1>3, <1>6
<1>7. CASE Next
  <2> HIDE DEF Control, Ask
  <2> QED
    BY <1>2, <1>4, <1>5, <1>6, <1>7, AnswerSteps
<1> QED
  BY <1>2, <1>6, <1>7 DEF vars, outerVars

LEMMA KeysStay ==
    ASSUME QueueInv, [Next]_vars
    PROVE  submitted' \subseteq Keys /\ concluded' \subseteq Keys
<1>1. submitted \subseteq Keys /\ concluded \subseteq Keys
  BY DEF QueueInv, TypeOK
<1>2. IdsAreLogged'
  BY StepStopInv DEF QueueInv, StopInv
<1>3. \A key \in submitted' : key[2] \in Ids
  BY <1>2, BridgeConstants DEF IdsAreLogged, Ids
<1>4. submitted' \subseteq Keys
  <2>1. CASE submitted' = submitted
    BY <1>1, <2>1
  <2>2. ASSUME NEW k \in {"reply", "failure"}, NEW i, Submitting(<<k, i>>, i)
        PROVE  submitted' \subseteq Keys
    <3>1. submitted' = submitted \/ submitted' = submitted \cup {<<k, i>>}
      BY <2>2 DEF Submitting
    <3>2. CASE submitted' = submitted \cup {<<k, i>>}
      <4>1. <<k, i>>[2] \in Ids
        BY <1>3, <3>2
      <4>2. <<k, i>> \in Keys
        BY <4>1 DEF Keys
      <4> QED
        BY <1>1, <3>2, <4>2
    <3> QED
      BY <1>1, <3>1, <3>2
  <2> QED
    BY <2>1, <2>2, SubmittedBySend DEF vars, chatVars
<1>5. concluded' \subseteq Keys
  <2>1. pc \in {"send", "notice"} =>
           <<"reply", cur>> \in Keys /\ <<"failure", cur>> \in Keys
    BY WhereIsCur DEF Scanning, Keys
  <2>2. pc = "scanSend" => <<"reply", Control>> \in Keys
    BY ControlIsLogged DEF QueueInv, StopInv, WorkHasMessage, Keys
  <2>3. UNCHANGED vars => concluded' = concluded
    BY DEF vars, chatVars
  <2> HIDE DEF Control
  <2>4. CASE Next
    BY <1>1, <2>1, <2>2, <2>4, ConcludedSteps
  <2> QED
    BY <1>1, <2>3, <2>4
<1> QED
  BY <1>4, <1>5

\* The chores of the loop: what has been read, and told of, has its type.
LEMMA TypesStay ==
    ASSUME QueueInv, [Next]_vars, preproc' \subseteq st'.processed
    PROVE  TypeOK'
<1>1. IdsAreLogged' /\ Len(log') \in Nat
  BY StepStopInv, LogGrowsOn DEF QueueInv, StopInv, LogLater
<1>2. maybe' \subseteq Ids /\ cur' \in Nat /\ pageEnd' \in Nat
      /\ log' \in Seq(AllKinds)
  BY <1>1, BridgeConstants DEF IdsAreLogged, Ids
<1>3. st' \in States /\ disk' \in States
  BY StateAfter
<1>4. preproc' \subseteq Ids
  BY <1>3 DEF States
<1>5. /\ pc' \in Places
      /\ worker' \in {"none", "running", "answered", "raised"}
      /\ maxRetries' \in RetryLimits
  BY PlacesStay
<1>6. /\ answer' \in [Ids -> AllAnswers \cup {"none", "working"}]
      /\ fence' \in Nat
  BY AnswersStay
<1>7. submitted' \subseteq Keys /\ concluded' \subseteq Keys
  BY KeysStay
<1> QED
  BY <1>2, <1>3, <1>4, <1>5, <1>6, <1>7 DEF TypeOK, Places

\* Commands stay commands, and what is answered is no noise.
LEMMA KindsStay ==
    ASSUME QueueInv, [Next]_vars
    PROVE  KindsInv'
<1>1. LogLater /\ IdsAreLogged /\ Len(log) \in Nat
  BY LogGrowsOn, QueueFacts DEF QueueInv, StopInv
<1>2. \A m \in maybe' : log'[m] \in {"plain", "noise"}
  <2>1. CASE maybe' \subseteq maybe
    BY <1>1, <2>1 DEF QueueInv, KindsInv, LogLater, IdsAreLogged
  <2>2. CASE MessageArrives
    <3>1. PICK k \in Kinds, unsettled \in BOOLEAN :
            /\ unsettled => k \in {"plain", "noise"}
            /\ log' = Append(log, k)
            /\ maybe' = IF unsettled THEN maybe \cup {Len(log) + 1} ELSE maybe
      BY <2>2 DEF MessageArrives
    <3>2. log'[Len(log) + 1] = k
      BY <1>1, <3>1 DEF IdsAreLogged
    <3>3. \A m \in maybe : log'[m] \in {"plain", "noise"}
      BY <1>1 DEF QueueInv, KindsInv, LogLater, IdsAreLogged
    <3> QED
      BY <3>1, <3>2, <3>3
  <2>3. CASE MetadataSettles
    BY <2>1, <2>3 DEF MetadataSettles
  <2>4. maybe' \subseteq maybe \/ MessageArrives \/ MetadataSettles
    <3> USE DEF chatVars, outerVars, quietVars, vars
    <3>1. CASE Polling
      BY <3>1 DEF Polling, DiscardStale, ResumePass, FreshPass, PollsNothing,
                  FetchPage, PassEnds
    <3>2. CASE Looking
      BY <3>2 DEF Looking, ReadControls, ReadRaises, AskControl,
                  ControlAnswered, ControlUnanswered, ControlUndelivered
    <3>3. CASE Asking
      BY <3>3 DEF Asking, Preempt, AskDirect, DirectAnswered, DirectUnanswered
    <3>4. CASE Posting
      BY <3>4 DEF Posting, ReplyConcluded, ReplyRaises, NoticeConcluded,
                  NoticeRaises
    <3>5. CASE Around
      BY <3>5 DEF Around, WorkerReturns, AdapterFinishes
    <3>6. ASSUME NEW m \in Ids, Starting(m) \/ SkipMessage(m)
          PROVE  maybe' = maybe
      BY <3>6 DEF Starting, WaitForMetadata, TurnToNotice, SkipMessage,
                  ResumePending, TakeControl, StartWorker
    <3>7. CASE CommitMessage \/ EndSilently \/ CommitNotice
      BY <3>7 DEF CommitMessage, EndSilently, CommitNotice
    <3>8. CASE ControlDelivered \/ ScanEnds \/ SavePending \/ Recording \/ Crash
      BY <3>8 DEF ControlDelivered, ScanEnds, SavePending, Recording,
                  RecordFailure, RecordNoticeFailure, Crash
    <3> QED
      BY <3>1, <3>2, <3>3, <3>4, <3>5, <3>6, <3>7, <3>8, QueueSteps
      DEF Recording
  <2> QED
    BY <2>1, <2>2, <2>3, <2>4
<1>3. \A key \in submitted' : key[1] = "reply" => log'[key[2]] # "noise"
  <2>1. ASSUME NEW key \in submitted PROVE key[1] = "reply" => log'[key[2]] # "noise"
    BY <1>1 DEF QueueInv, KindsInv, LogLater, IdsAreLogged
  <2>2. CASE Telling
    <3>1. Control \in 1..Len(log) /\ IsUrgent(Control)
      <4>1. pc = "scanSend" /\ scan.todo # {}
        BY <2>2, TellingEffect DEF QueueInv, StopInv, WorkHasMessage
      <4>2. Control \in scan.todo /\ Control \in 1..Len(log)
        BY <4>1, ControlIsLogged DEF QueueInv, StopInv
      <4> HIDE DEF Control
      <4> QED
        BY <4>1, <4>2 DEF QueueInv, ScanInv
    <3> HIDE DEF Control
    <3>2. log'[Control] # "noise"
      BY <1>1, <3>1 DEF IsUrgent, LogLater
    <3> QED
      BY <2>1, <2>2, <3>2, TellingEffect DEF QueueInv, StopInv
  <2>3. CASE Posting
    <3>1. pc = "send" => log'[cur] # "noise"
      <4>1. pc = "send" => cur \in 1..Len(log) /\ log[cur] # "noise"
        BY WhereIsCur DEF Scanning, QueueInv, PlaceInv, Working
      <4> QED
        BY <1>1, <4>1 DEF LogLater
    <3> QED
      BY <2>1, <2>3, <3>1, PostingEffect DEF QueueInv, StopInv
  <2>4. CASE submitted' = submitted
    BY <2>1, <2>4
  <2>5. submitted' = submitted \/ Telling \/ Posting
    <3> USE DEF chatVars, outerVars, quietVars, vars
    <3>1. CASE Polling
      BY <3>1 DEF Polling, DiscardStale, ResumePass, FreshPass, PollsNothing,
                  FetchPage, PassEnds
    <3>2. CASE Looking
      BY <3>2 DEF Looking, ReadControls, ReadRaises, AskControl,
                  ControlAnswered, ControlUnanswered, Telling
    <3>3. CASE Asking
      BY <3>3 DEF Asking, Preempt, AskDirect, DirectAnswered, DirectUnanswered
    <3>4. CASE Around
      BY <3>4 DEF Around, WorkerReturns, AdapterFinishes, MessageArrives,
                  MetadataSettles
    <3>5. ASSUME NEW m \in Ids, Starting(m) \/ SkipMessage(m)
          PROVE  submitted' = submitted
      BY <3>5 DEF Starting, WaitForMetadata, TurnToNotice, SkipMessage,
                  ResumePending, TakeControl, StartWorker
    <3>6. CASE CommitMessage \/ EndSilently \/ CommitNotice
      BY <3>6 DEF CommitMessage, EndSilently, CommitNotice
    <3>7. CASE ControlDelivered
      BY <3>7 DEF Telling
    <3>8. CASE ScanEnds \/ SavePending \/ Recording \/ Crash
      BY <3>8 DEF ScanEnds, SavePending, Recording,
                  RecordFailure, RecordNoticeFailure, Crash
    <3> QED
      BY <3>1, <3>2, <3>3, <3>4, <3>5, <3>6, <3>7, <3>8, QueueSteps
      DEF Recording
  <2> QED
    BY <2>2, <2>3, <2>4, <2>5
<1> QED
  BY <1>2, <1>3 DEF KindsInv

\* What has been read as done with is done with in memory.
LEMMA PreprocStays ==
    ASSUME QueueInv, [Next]_vars
    PROVE  preproc' \subseteq st'.processed
<1> USE DEF chatVars, outerVars, quietVars, vars, Keep, bridgeVars
<1>0. preproc \subseteq st.processed
  BY DEF QueueInv, PlaceInv
<1>1. CASE ReadControls
  BY <1>0, <1>1 DEF ReadControls
<1>2. CASE ControlDelivered
  BY <1>0, <1>2, DeliveredEffect DEF ControlDelivered
<1>3. CASE /\ preproc' = preproc
           /\ \/ Polling \/ Looking \/ Asking \/ Posting \/ Around
              \/ UNCHANGED vars
              \/ \E m \in Ids : Starting(m)
  BY <1>0, <1>3, TrimmingEffect DEF Trims
<1>4. CASE \/ Polling \/ (Looking /\ ~ReadControls) \/ Asking \/ Posting
           \/ Around \/ UNCHANGED vars
  <2>1. CASE Polling
    BY <1>3, <2>1 DEF Polling, DiscardStale, ResumePass, FreshPass,
                      PollsNothing, FetchPage, PassEnds
  <2>2. CASE Looking /\ ~ReadControls
    BY <1>3, <2>2 DEF Looking, ReadRaises, AskControl, ControlAnswered,
                      ControlUnanswered, ControlUndelivered
  <2>3. CASE Asking
    BY <1>3, <2>3 DEF Asking, Preempt, AskDirect, DirectAnswered,
                      DirectUnanswered
  <2>4. CASE Posting
    BY <1>3, <2>4 DEF Posting, ReplyConcluded, ReplyRaises, NoticeConcluded,
                      NoticeRaises
  <2>5. CASE Around
    BY <1>3, <2>5 DEF Around, WorkerReturns, MessageArrives, MetadataSettles,
                      AdapterFinishes
  <2> QED
    BY <1>3, <1>4, <2>1, <2>2, <2>3, <2>4, <2>5
<1>5. ASSUME NEW m \in Ids, Starting(m)
      PROVE  preproc' \subseteq st'.processed
  <2>1. preproc' = preproc
    BY <1>5 DEF Starting, WaitForMetadata, TurnToNotice, ResumePending,
                TakeControl, StartWorker
  <2> QED
    BY <1>3, <1>5, <2>1
<1>6. ASSUME NEW m \in Ids, Finishing(m)
      PROVE  preproc' \subseteq st'.processed
  BY <1>0, <1>6, FinishingEffect DEF Finishes
<1>7. CASE ScanEnds
  BY <1>0, <1>7, ScanEndsEffect DEF ScanEnds
<1>8. CASE SavePending
  BY <1>0, <1>8, SavePendingEffect DEF SavePending
<1>9. CASE Recording
  BY <1>0, <1>9, RecordingEffect DEF Recording, RecordFailure,
     RecordNoticeFailure
<1>10. CASE Crash
  BY <1>10 DEF Crash
<1> QED
  BY <1>1, <1>2, <1>4, <1>5, <1>6, <1>7, <1>8, <1>9, <1>10, QueueSteps,
     FinishingSteps DEF Recording, Finishing

\* The message in hand, one step later.
PlaceLater ==
    /\ Working' => cur' = st'.cursor + 1
    /\ Ending' => cur' \in {st'.cursor, st'.cursor + 1}
    /\ (Working' \/ Ending') /\ cur' = st'.cursor + 1 =>
          log'[cur'] # "noise" /\ cur' \notin st'.processed
    /\ Scanning' => /\ scan'.active \in {st'.cursor, st'.cursor + 1}
                    /\ st'.retry.id <= scan'.active
                    /\ scan'.active <= Len(log')
    /\ Scanning' /\ Working' => scan'.active = cur'
    /\ pc' = "send" => st'.pending = cur'
    /\ pc' = "commit" => ToldLater(cur')
    /\ pc' = "noticed" => <<"failure", cur'>> \in concluded'

\* What the place depends on, one step later.
PlaceFacts ==
    /\ LogLater /\ Len(log) \in Nat
    /\ st.cursor \in Nat /\ st.retry.id \in Nat /\ cur \in 0..Len(log)
    /\ scan.active \in Nat
    /\ st.retry.id \in {0, st.cursor, st.cursor + 1}
    /\ \A i \in 1..Len(log) : log[i] # "noise" => log'[i] # "noise"
    /\ scan.then \in {"fetch", "handle", "poll", "release", "control"}

LEMMA PlaceFactsHold ==
    ASSUME QueueInv, [Next]_vars
    PROVE  PlaceFacts
<1>1. LogLater
  BY LogGrowsOn
<1>2. \A i \in 1..Len(log) : log[i] # "noise" => log'[i] # "noise"
  BY <1>1 DEF LogLater
<1>3. cur \in 0..Len(log) /\ scan.active \in Nat
      /\ scan.then \in {"fetch", "handle", "poll", "release", "control"}
  BY DEF QueueInv, StopInv, IdsAreLogged, WorkHasMessage, ScanInv, Scans
<1>4. st.retry.id \in {0, st.cursor, st.cursor + 1}
  BY DEF QueueInv, Kept
<1> QED
  BY <1>1, <1>2, <1>3, <1>4, QueueFacts DEF PlaceFacts

\* A trimmed state keeps the place of the message.
TrimmedPlace ==
    /\ st'.cursor = st.cursor /\ st'.processed = st.processed
    /\ st'.retry.id \in {0, st.retry.id}

LEMMA TrimmedKeepsPlace ==
    ASSUME Trims(st, st')
    PROVE  TrimmedPlace
  BY DEF Trims, TrimmedPlace, NoRetry

LEMMA PlaceWhilePolling ==
    ASSUME QueueInv, Polling, PlaceFacts, TrimmedPlace, [Next]_vars
    PROVE  PlaceLater
<1> USE DEF PlaceLater, PlaceFacts, TrimmedPlace, Working, Ending, Scanning,
            Keep, LogLater, outerVars, quietVars
<1>1. CASE DiscardStale \/ FetchPage
  BY <1>1 DEF DiscardStale, FetchPage, Save
<1>2. CASE ResumePass
  <2>1. /\ pc' = "scanStart" /\ st' = st /\ log' = log
        /\ scan' = [NoScan EXCEPT !.then = "fetch",
                       !.active = IF st.retry.id # 0 THEN st.retry.id
                                                     ELSE st.pending]
        /\ st.retry.id # 0 \/ st.pending # 0
    BY <1>2 DEF ResumePass
  <2>2. /\ scan'.then = "fetch"
        /\ scan'.active = IF st.retry.id # 0 THEN st.retry.id ELSE st.pending
    BY <2>1 DEF NoScan
  <2>3. st.pending \in {0, st.cursor + 1} /\ st.pending <= Len(log)
        /\ st.retry.id <= Len(log)
    BY DEF QueueInv, Kept
  <2> QED
    BY <2>1, <2>2, <2>3
<1>3. CASE FreshPass
  <2>1. /\ pc' = "scanStart" /\ st' = st /\ log' = log /\ st.retry.id = 0
        /\ scan'.active = st.cursor /\ scan'.then = "handle"
        /\ Len(log) > st.cursor
    BY <1>3 DEF FreshPass, NoScan
  <2> QED
    BY <2>1
<1>4. CASE PollsNothing \/ PassEnds
  BY <1>4 DEF PollsNothing, PassEnds, vars, bridgeVars
<1> QED
  BY <1>1, <1>2, <1>3, <1>4 DEF Polling

LEMMA PlaceWhileLooking ==
    ASSUME QueueInv, Looking, PlaceFacts, TrimmedPlace
    PROVE  PlaceLater
<1> USE DEF PlaceLater, PlaceFacts, TrimmedPlace, Working, Ending, Scanning,
            Keep, LogLater, outerVars, quietVars
<1>1. /\ Scanning /\ cur' = cur /\ log' = log
      /\ scan'.active = scan.active /\ scan'.then = scan.then
      /\ \/ pc' \in {"scan", "scanAsk", "scanSend"}
         \/ pc' = ScanAborts
  <2>1. CASE ReadControls
    BY <2>1 DEF ReadControls, QueueInv, ScanInv, Scans
  <2>2. CASE ReadRaises \/ AskControl
    BY <2>2 DEF ReadRaises, AskControl
  <2>3. CASE ControlAnswered
    BY <2>3 DEF ControlAnswered, Save, ControlFailed, QueueInv, ScanInv, Scans
  <2>4. CASE ControlUnanswered \/ ControlUndelivered
    BY <2>4 DEF ControlUnanswered, ControlUndelivered, ControlFailed,
                QueueInv, ScanInv, Scans
  <2> QED
    BY <2>1, <2>2, <2>3, <2>4 DEF Looking
<1>2. /\ scan.active \in {st.cursor, st.cursor + 1}
      /\ st.retry.id <= scan.active /\ scan.active <= Len(log)
      /\ Working => /\ cur = st.cursor + 1 /\ scan.active = cur
                    /\ log[cur] # "noise" /\ cur \notin st.processed
  BY <1>1 DEF QueueInv, PlaceInv
<1>3. CASE pc' \in {"scan", "scanAsk", "scanSend"}
  BY <1>1, <1>2, <1>3
<1>4. CASE pc' = ScanAborts
  BY <1>1, <1>2, <1>4 DEF ScanAborts
<1> QED
  BY <1>1, <1>3, <1>4

LEMMA PlaceWhileAsking ==
    ASSUME QueueInv, Asking, PlaceFacts, TrimmedPlace
    PROVE  PlaceLater
<1> USE DEF PlaceLater, PlaceFacts, TrimmedPlace, Working, Ending, Scanning,
            Keep, LogLater, outerVars, quietVars
<1>1. /\ pc \in {"await", "control", "directAsk"} /\ cur' = cur /\ log' = log
      /\ \/ pc' \in {"directAsk", "answered", "fail"}
         \/ /\ pc' = "scanStart" /\ scan'.active = cur
  BY DEF Asking, Preempt, AskDirect, DirectAnswered, DirectUnanswered, Save,
         NoScan
<1>2. cur = st.cursor + 1 /\ log[cur] # "noise" /\ cur \notin st.processed
  BY <1>1 DEF QueueInv, PlaceInv
<1> QED
  BY <1>1, <1>2

LEMMA PlaceWhilePosting ==
    ASSUME QueueInv, Posting, PlaceFacts
    PROVE  PlaceLater
<1> USE DEF PlaceLater, PlaceFacts, Working, Ending, Scanning,
            Keep, LogLater, outerVars, quietVars
<1>1. CASE ReplyConcluded \/ ReplyRaises
  <2>1. /\ pc = "send" /\ UNCHANGED <<cur, log, st, scan>>
        /\ pc' = "fail" \/ (pc' = "commit" /\ ToldLater(cur))
    BY <1>1 DEF ReplyConcluded, ReplyRaises, SendConcludes, ToldLater
  <2>2. cur = st.cursor + 1 /\ log[cur] # "noise" /\ cur \notin st.processed
    BY <2>1 DEF QueueInv, PlaceInv
  <2> QED
    BY <2>1, <2>2
<1>2. CASE NoticeConcluded \/ NoticeRaises
  <2>1. /\ pc = "notice" /\ UNCHANGED <<cur, log, st, scan>>
        /\ \/ pc' = "noticeFailed"
           \/ pc' = "noticed" /\ <<"failure", cur>> \in concluded'
    BY <1>2 DEF NoticeConcluded, NoticeRaises, SendConcludes
  <2>2. /\ cur \in {st.cursor, st.cursor + 1}
        /\ cur = st.cursor + 1 => log[cur] # "noise" /\ cur \notin st.processed
    BY <2>1 DEF QueueInv, PlaceInv
  <2> QED
    BY <2>1, <2>2
<1> QED
  BY <1>1, <1>2 DEF Posting

LEMMA PlaceWhileStarting ==
    ASSUME QueueInv, NEW m \in Ids, Starting(m), PlaceFacts, TrimmedPlace
    PROVE  PlaceLater
<1> USE DEF PlaceLater, PlaceFacts, TrimmedPlace, Working, Ending, Scanning,
            Keep, LogLater, outerVars, quietVars
<1>1. m = st.cursor + 1 /\ m \in 1..Len(log) /\ log' = log
  <2>1. Here(m) \/ Settled(m)
    BY DEF Starting, WaitForMetadata, TurnToNotice, ResumePending, TakeControl,
           StartWorker
  <2>2. log' = log
    BY DEF Starting, WaitForMetadata, TurnToNotice, ResumePending, TakeControl,
           StartWorker
  <2> QED
    BY <2>1, <2>2, HereFacts
<1>2. CASE WaitForMetadata(m)
  BY <1>2 DEF WaitForMetadata, Save
<1>3. CASE TurnToNotice(m)
  <2>1. st.retry.id = m /\ pc' = "notice" /\ cur' = m
    BY <1>3 DEF TurnToNotice, Exhausted
  <2>2. log[m] # "noise" /\ m \notin st.processed
    BY <1>1, <2>1 DEF QueueInv, Kept
  <2> QED
    BY <1>1, <2>1, <2>2
<1>4. CASE ResumePending(m)
  <2>1. st.pending = m /\ pc' = "send" /\ cur' = m /\ m \notin st.processed
    BY <1>4 DEF ResumePending, Handled
  <2>2. log[m] # "noise"
    BY <1>1, <2>1 DEF QueueInv, Kept
  <2>3. st'.pending = st.pending
    BY <1>4, QueueFacts DEF ResumePending, Waited, States
  <2> QED
    BY <1>1, <2>1, <2>2, <2>3
<1>5. CASE TakeControl(m)
  <2>1. /\ pc' = "scanStart" /\ cur' = m /\ m \notin st.processed
        /\ scan'.active = m /\ scan'.then = "control" /\ IsControl(m)
    BY <1>5 DEF TakeControl, Handled, NoScan
  <2> QED
    BY <1>1, <2>1 DEF IsControl
<1>6. CASE StartWorker(m)
  <2>1. /\ pc' = "await" /\ cur' = m /\ m \notin st.processed
        /\ log[m] = "plain"
    BY <1>6 DEF StartWorker, Handled
  <2> QED
    BY <1>1, <2>1
<1> QED
  BY <1>2, <1>3, <1>4, <1>5, <1>6 DEF Starting

LEMMA PlaceWhenFinished ==
    ASSUME QueueInv, NEW m \in Ids, Finishing(m), PlaceFacts
    PROVE  PlaceLater
<1>1. pc' \in {"handle", "top", "fail", "noticeFailed"}
  BY DEF Finishing, SkipMessage, CommitMessage, EndSilently, CommitNotice, Save
<1>2. cur' = m /\ st'.cursor = m /\ m \in Nat
  BY FinishingEffect, QueueFacts DEF Finishes
<1> QED
  BY <1>1, <1>2 DEF PlaceLater, Working, Ending, Scanning

LEMMA PlaceOtherwise ==
    ASSUME QueueInv, PlaceFacts,
           ControlDelivered \/ ScanEnds \/ SavePending \/ Recording \/ Crash
    PROVE  PlaceLater
<1> USE DEF PlaceLater, PlaceFacts, Working, Ending, Scanning,
            Keep, LogLater, outerVars, quietVars
<1>1. CASE ControlDelivered
  <2>1. /\ Scanning /\ pc' = "scan" /\ cur' = cur
        /\ scan'.active = scan.active /\ scan'.then = scan.then
        /\ Control > scan.active
    BY <1>1, DeliveredEffect DEF ControlDelivered, QueueInv, ScanInv, Scans
  <2>2. /\ scan.active \in {st.cursor, st.cursor + 1}
        /\ st.retry.id <= scan.active /\ scan.active <= Len(log)
        /\ Working => /\ cur = st.cursor + 1 /\ scan.active = cur
                      /\ log[cur] # "noise" /\ cur \notin st.processed
    BY <2>1 DEF QueueInv, PlaceInv
  <2>3. /\ st'.cursor = st.cursor /\ st'.retry = st.retry
        /\ st'.processed = st.processed \cup {Control}
    BY <1>1, DeliveredEffect
  <2> HIDE DEF Control
  <2>4. Working => cur \notin st'.processed
    BY <2>1, <2>2, <2>3
  <2> QED
    BY <2>1, <2>2, <2>3, <2>4
<1>2. CASE ScanEnds
  <2>1. /\ st'.cursor = st.cursor /\ st'.processed = st.processed
        /\ pc = "scan" /\ cur' = cur
    BY <1>2, ScanEndsEffect DEF ScanEnds
  <2>2. /\ ~Scanning'
        /\ scan.then \in {"handle", "fetch"}
              => pc' \in {"handle", "fetch", "top"}
        /\ scan.then = "control" => pc' \in {"control", "fail"}
        /\ scan.then \in {"poll", "release"}
              => pc' \in {"await", "answered", "fail"}
    BY <1>2, ScanLeads DEF QueueInv, StopInv
  <2>3. Working => cur = st.cursor + 1 /\ log[cur] # "noise"
                   /\ cur \notin st.processed
    BY DEF QueueInv, PlaceInv
  <2>4. CASE scan.then \in {"handle", "fetch"}
    BY <2>2, <2>4
  <2>5. CASE scan.then \in {"control", "poll", "release"}
    <3>1. cur = st.cursor + 1 /\ log[cur] # "noise" /\ cur \notin st.processed
      BY <2>1, <2>3, <2>5
    <3>2. pc' \in {"control", "fail", "await", "answered"}
      BY <2>2, <2>5
    <3> QED
      BY <2>1, <3>1, <3>2
  <2> QED
    BY <2>4, <2>5
<1>3. CASE SavePending
  <2>1. pc' \in {"send", "fail"} /\ cur' = cur
    BY <1>3 DEF SavePending, Save
  <2> QED
    BY <1>3, <2>1, SavePendingEffect
<1>4. CASE Recording
  <2>1. pc' \in {"notice", "top"} /\ cur' = cur
    BY <1>4 DEF Recording, RecordFailure, RecordNoticeFailure, Save
  <2> QED
    BY <1>4, <2>1, RecordingEffect
<1>5. CASE Crash
  BY <1>5 DEF Crash
<1> QED
  BY <1>1, <1>2, <1>3, <1>4, <1>5

LEMMA PlaceWhileWaiting ==
    ASSUME QueueInv, Around \/ UNCHANGED vars, PlaceFacts, [Next]_vars
    PROVE  PlaceLater
<1>1. UNCHANGED <<pc, st, cur, scan>>
  BY DEF Around, WorkerReturns, MessageArrives, MetadataSettles,
         AdapterFinishes, vars, bridgeVars
<1>2. pc = "commit" => ToldLater(cur)
  BY WhereIsCur, ToldStays DEF Scanning, QueueInv, PlaceInv
<1>3. pc = "noticed" => <<"failure", cur>> \in concluded'
  BY ConcludedSteps DEF QueueInv, PlaceInv, vars, chatVars
<1>4. /\ Working => cur = st.cursor + 1
      /\ Ending => cur \in {st.cursor, st.cursor + 1}
      /\ (Working \/ Ending) /\ cur = st.cursor + 1 =>
            log[cur] # "noise" /\ cur \notin st.processed
      /\ Scanning => /\ scan.active \in {st.cursor, st.cursor + 1}
                     /\ st.retry.id <= scan.active /\ scan.active <= Len(log)
      /\ Scanning /\ Working => scan.active = cur
      /\ pc = "send" => st.pending = cur
  BY DEF QueueInv, PlaceInv
<1> USE DEF PlaceFacts, LogLater
<1>5. (Working \/ Ending) /\ cur = st.cursor + 1 => log'[cur] # "noise"
  BY <1>4
<1>6. Scanning => scan.active <= Len(log')
  BY <1>4
<1>7. (Working' <=> Working) /\ (Ending' <=> Ending) /\ (Scanning' <=> Scanning)
  BY <1>1 DEF Working, Ending, Scanning
<1> QED
  BY <1>1, <1>2, <1>3, <1>4, <1>5, <1>6, <1>7 DEF PlaceLater

LEMMA PlaceStays ==
    ASSUME QueueInv, [Next]_vars
    PROVE  PlaceInv'
<1>1. PlaceFacts
  BY PlaceFactsHold
<1>2. PlaceLater
  <2>1. CASE Polling \/ Looking \/ Asking
    BY <1>1, <2>1, TrimmingEffect, TrimmedKeepsPlace, PlaceWhilePolling,
       PlaceWhileLooking, PlaceWhileAsking
  <2>2. ASSUME NEW m \in Ids, Starting(m) PROVE PlaceLater
    BY <1>1, <2>2, TrimmingEffect, TrimmedKeepsPlace, PlaceWhileStarting
  <2>3. ASSUME NEW m \in Ids, Finishing(m) PROVE PlaceLater
    BY <1>1, <2>3, PlaceWhenFinished
  <2> QED
    BY <1>1, <2>1, <2>2, <2>3, PlaceWhilePosting, PlaceOtherwise,
       PlaceWhileWaiting, QueueSteps, FinishingSteps DEF Recording, Finishing
<1>3. preproc' \subseteq st'.processed /\ disk'.cursor <= st'.cursor
  BY PreprocStays, StateAfter
<1> QED
  BY <1>2, <1>3 DEF PlaceInv, PlaceLater, ToldLater, Told, Working, Ending,
     Scanning

LEMMA KeptAfter ==
    ASSUME QueueInv, [Next]_vars
    PROVE  Kept(st)' /\ Kept(disk)'
<1>1. KeptLater(st') /\ KeptLater(disk')
  BY StateAfter
<1> QED
  BY <1>1 DEF Kept, KeptLater, Told, ToldLater

\* The scan, one step later.
Looks  == {"scan", "scanAsk", "scanSend"}
Relies == {"fetch", "handle", "control", "directAsk", "answered", "send",
           "commit"}

SeenLater(i) == log'[i] = "stop" /\ st'.cursor + 1 < i

ScanLater ==
    /\ scan' \in Scans /\ scan'.end <= Len(log')
    /\ pc' \in Looks =>
          /\ \A i \in scan'.todo \cup scan'.failed :
                i \in 1..Len(log') /\ log'[i] \in {"stop", "media"}
                /\ i > scan'.active
          /\ \A i \in 1..scan'.end : SeenLater(i) =>
                i \in st'.processed \cup scan'.todo \cup scan'.failed
    /\ pc' \in Relies =>
          \A i \in 1..scan'.end : SeenLater(i) => i \in st'.processed

\* What a step without a crash does not take back.
Onwards ==
    /\ LogLater /\ Len(log) \in Nat /\ st.cursor \in Nat /\ st'.cursor \in Nat
    /\ st.cursor <= st'.cursor /\ st.processed \subseteq st'.processed

LEMMA GoesOnwards ==
    ASSUME QueueInv, [Next]_vars, ~Crash
    PROVE  Onwards
<1>1. LogLater /\ Len(log) \in Nat /\ st.cursor \in Nat
  BY LogGrowsOn, QueueFacts
<1>2. SUFFICES /\ st'.cursor \in Nat /\ st.cursor <= st'.cursor
               /\ st.processed \subseteq st'.processed
  BY <1>1 DEF Onwards
<1>3. CASE \/ Polling \/ Looking \/ Asking \/ Posting \/ Around
           \/ UNCHANGED vars
           \/ \E m \in Ids : Starting(m)
  BY <1>1, <1>3, TrimmingEffect DEF Trims
<1>4. ASSUME NEW m \in Ids, Finishing(m)
      PROVE  /\ st'.cursor \in Nat /\ st.cursor <= st'.cursor
             /\ st.processed \subseteq st'.processed
  BY <1>1, <1>4, FinishingEffect, QueueFacts DEF Finishes
<1>5. CASE ControlDelivered
  BY <1>1, <1>5, DeliveredEffect
<1>6. CASE ScanEnds \/ SavePending \/ Recording
  BY <1>1, <1>6, ScanEndsEffect, SavePendingEffect, RecordingEffect
<1> QED
  BY <1>3, <1>4, <1>5, <1>6, QueueSteps, FinishingSteps
  DEF Recording, Finishing

LEMMA ScanUnchanged ==
    ASSUME QueueInv, Onwards, scan' = scan,
           pc' \in Looks => pc \in Looks,
           pc' \in Relies =>
              pc \in Relies \/ (pc = "scan" /\ scan.todo = {}
                                            /\ scan.failed = {})
    PROVE  ScanLater
<1>1. scan \in Scans /\ scan.end \in Nat /\ scan.end <= Len(log)
  BY DEF QueueInv, ScanInv, Scans
<1>2. \A i \in 1..Len(log) :
        /\ SeenLater(i) => Seen(i)
        /\ IsUrgent(i) => log'[i] \in {"stop", "media"}
        /\ i \in 1..Len(log')
  BY DEF Onwards, LogLater, SeenLater, Seen, IsUrgent
<1>3. \A i \in 1..scan.end : i \in 1..Len(log)
  BY <1>1 DEF Onwards
<1>4. scan.end <= Len(log')
  BY <1>1 DEF Onwards, LogLater
<1>5. CASE pc \in Looks
  <2>1. /\ \A i \in scan.todo \cup scan.failed :
              i \in 1..Len(log) /\ IsUrgent(i) /\ i > scan.active
        /\ \A i \in 1..scan.end :
              Seen(i) => i \in st.processed \cup scan.todo \cup scan.failed
    BY <1>5 DEF QueueInv, ScanInv, Looks
  <2>2. pc' \in Relies => scan.todo = {} /\ scan.failed = {}
    BY <1>5 DEF Looks, Relies
  <2> QED
    BY <1>1, <1>2, <1>3, <1>4, <2>1, <2>2 DEF ScanLater, Onwards
<1>6. CASE pc \notin Looks
  <2>1. pc' \in Relies =>
           \A i \in 1..scan.end : Seen(i) => i \in st.processed
    <3>1. pc' \in Relies => pc \in Relies
      BY <1>6 DEF Looks
    <3>2. pc \in Relies => \A i \in 1..scan.end : Seen(i) => i \in st.processed
      BY DEF QueueInv, ScanInv, Relies
    <3> QED
      BY <3>1, <3>2
  <2> QED
    BY <1>1, <1>2, <1>3, <1>4, <1>6, <2>1 DEF ScanLater, Onwards
<1> QED
  BY <1>5, <1>6

LEMMA ScanBegins ==
    ASSUME Len(log') \in Nat, scan' \in Scans, scan'.end = 0,
           pc' \notin Looks \cup Relies
    PROVE  ScanLater
  BY DEF ScanLater

LEMMA NoScanType == NoScan \in Scans
  BY DEF NoScan, Scans

LEMMA ScanStarts ==
    ASSUME QueueInv, LogLater,
           ResumePass \/ FreshPass \/ Preempt \/ Crash
    PROVE  ScanLater
<1>1. pc' \notin Looks \cup Relies /\ Len(log') \in Nat
  BY DEF ResumePass, FreshPass, Preempt, Crash, Keep, Looks, Relies, LogLater
<1>2. st.cursor \in Nat /\ st.pending \in Nat /\ st.retry.id \in Nat
      /\ cur \in Nat
  BY QueueFacts
<1>3. scan' \in Scans /\ scan'.end = 0
  <2>1. CASE ResumePass
    BY <1>2, <2>1 DEF ResumePass, NoScan, Scans
  <2>2. CASE FreshPass
    BY <1>2, <2>2 DEF FreshPass, NoScan, Scans
  <2>3. CASE Preempt
    BY <1>2, <2>3 DEF Preempt, NoScan, Scans
  <2>4. CASE Crash
    <3>1. scan' = NoScan
      BY <2>4 DEF Crash
    <3>2. NoScan.end = 0
      BY DEF NoScan
    <3> QED
      BY <3>1, <3>2, NoScanType
  <2> QED
    BY <2>1, <2>2, <2>3, <2>4
<1> QED
  BY <1>1, <1>3, ScanBegins

LEMMA ScanTakes ==
    ASSUME QueueInv, LogLater, NEW m \in Ids, TakeControl(m)
    PROVE  ScanLater
<1>1. pc' = "scanStart" /\ m \in Nat
      /\ scan' = [NoScan EXCEPT !.active = m, !.then = "control"]
  BY QueueFacts DEF TakeControl, Keep
<1>2. scan' \in Scans /\ scan'.end = 0
  BY <1>1 DEF NoScan, Scans
<1> QED
  BY <1>1, <1>2, ScanBegins DEF Looks, Relies, LogLater

LEMMA ScanReads ==
    ASSUME QueueInv, ReadControls
    PROVE  ScanLater
<1> DEFINE after == Greatest({scan.active, st.cursor, st.scanCursor})
           urgent == {i \in DOMAIN log : i > after /\ IsUrgent(i)} \ preproc
           end == Greatest({after, Len(log)})
<1>1. scan' = [scan EXCEPT !.todo = urgent \ st.processed, !.failed = {},
                           !.end = end, !.progress = Len(log) > after]
  BY DEF ReadControls
<1>2. /\ log' = log /\ st' = st /\ DOMAIN log = 1..Len(log)
      /\ pc = "scanStart" /\ pc' = "scan"
  BY DEF ReadControls, Keep, outerVars, quietVars, QueueInv, TypeOK
<1>3. /\ scan \in Scans /\ scan.active \in Nat /\ scan.active <= Len(log)
      /\ scan.active <= st.cursor + 1
  BY <1>2, QueueFacts DEF QueueInv, ScanInv, Scans, PlaceInv, Scanning
<1>4. /\ st.cursor \in Nat /\ st.scanCursor \in Nat /\ Len(log) \in Nat
      /\ st.cursor <= Len(log) /\ st.scanCursor <= Len(log)
  BY QueueFacts DEF QueueInv, Kept
<1>5. /\ after \in {scan.active, st.cursor, st.scanCursor}
      /\ scan.active <= after /\ after \in Nat /\ after <= Len(log)
      /\ st.cursor <= after
  BY <1>3, <1>4, GreatestOfThree
<1>6. end = Len(log)
  <2> HIDE DEF after
  <2> QED
    BY <1>4, <1>5, GreatestOfTwo
<1>7. urgent \subseteq 1..Len(log)
  BY <1>2
<1>8. \A i \in urgent : i \in Nat /\ i > after /\ IsUrgent(i)
  BY <1>2
<1>9. ASSUME NEW i \in 1..Len(log), Seen(i), i \notin st.processed
      PROVE  i \in urgent
  <2>1. preproc \subseteq st.processed
    BY DEF QueueInv, PlaceInv
  <2>2. st.cursor + 1 < i /\ log[i] = "stop"
    BY <1>9 DEF Seen
  <2>3. i > after
    <3>1. st.scanCursor < i
      BY <1>4, <1>9, <2>2 DEF QueueInv, Kept
    <3> HIDE DEF after
    <3> QED
      BY <1>3, <1>4, <1>5, <2>2, <3>1
  <2> QED
    BY <1>2, <1>9, <2>1, <2>2, <2>3 DEF IsUrgent
<1> HIDE DEF urgent, end, after
<1>10. /\ scan' \in Scans /\ scan'.todo = urgent \ st.processed
       /\ scan'.failed = {} /\ scan'.end = Len(log)
       /\ scan'.active = scan.active
  <2>1. urgent \ st.processed \in SUBSET Nat
    BY <1>8
  <2>2. (Len(log) > after) \in BOOLEAN
    OBVIOUS
  <2> DEFINE a == [scan EXCEPT !.todo = urgent \ st.processed]
             b == [a EXCEPT !.failed = {}]
             c == [b EXCEPT !.end = end]
             d == [c EXCEPT !.progress = Len(log) > after]
  <2>3. a \in Scans /\ a.todo = urgent \ st.processed
        /\ a.active = scan.active
    BY <1>3, <2>1 DEF Scans
  <2>4. b \in Scans /\ b.todo = a.todo /\ b.active = a.active /\ b.failed = {}
    BY <2>3 DEF Scans
  <2>5. /\ c \in Scans /\ c.todo = b.todo /\ c.active = b.active
        /\ c.failed = b.failed /\ c.end = end
    BY <1>4, <1>6, <2>4 DEF Scans
  <2>6. /\ d \in Scans /\ d.todo = c.todo /\ d.active = c.active
        /\ d.failed = c.failed /\ d.end = c.end
    BY <2>2, <2>5 DEF Scans
  <2>7. scan' = d
    BY <1>1
  <2> HIDE DEF a, b, c, d
  <2> QED
    BY <1>6, <2>3, <2>4, <2>5, <2>6, <2>7
<1>11. \A i \in scan'.todo \cup scan'.failed :
          i \in 1..Len(log) /\ IsUrgent(i) /\ i > scan'.active
  <2> SUFFICES ASSUME NEW i \in urgent
               PROVE  i \in 1..Len(log) /\ IsUrgent(i) /\ i > scan.active
    BY <1>10
  <2>1. i \in Nat /\ i > after /\ IsUrgent(i) /\ i \in 1..Len(log)
    BY <1>7, <1>8
  <2> QED
    BY <1>3, <1>5, <2>1
<1>12. \A i \in 1..Len(log) :
          Seen(i) => i \in st.processed \cup scan'.todo
  BY <1>9, <1>10
<1> QED
  BY <1>2, <1>4, <1>10, <1>11, <1>12
  DEF ScanLater, Relies, SeenLater, Seen, IsUrgent

\* A command leaves the list of a scan told of, or failed.
LEMMA ScanGoesOn ==
    ASSUME QueueInv, Onwards, pc \in Looks, pc' \in Looks, log' = log,
           scan.todo # {},
           \/ scan' = ControlFailed
           \/ /\ scan' = [scan EXCEPT !.todo = @ \ {Control}]
              /\ Control \in st'.processed
    PROVE  ScanLater
<1>1. scan \in Scans /\ scan.end <= Len(log)
  BY DEF QueueInv, ScanInv
<1>2. Control \in scan.todo /\ Control \in Nat
  BY ControlIsLogged DEF QueueInv, StopInv, IdsAreLogged
<1>3. /\ \A i \in scan.todo \cup scan.failed :
            i \in 1..Len(log) /\ IsUrgent(i) /\ i > scan.active
      /\ \A i \in 1..scan.end :
            Seen(i) => i \in st.processed \cup scan.todo \cup scan.failed
  BY DEF QueueInv, ScanInv, Looks
<1> DEFINE c == Control
<1>4. /\ scan'.end = scan.end /\ scan'.active = scan.active
      /\ scan'.todo = scan.todo \ {c}
      /\ \/ scan'.failed = scan.failed \cup {c}
         \/ scan'.failed = scan.failed /\ c \in st'.processed
      /\ scan' \in Scans
  <2> HIDE DEF Control
  <2>1. CASE scan' = ControlFailed
    BY <1>1, <1>2, <2>1 DEF ControlFailed, Scans
  <2>2. CASE /\ scan' = [scan EXCEPT !.todo = @ \ {Control}]
             /\ Control \in st'.processed
    BY <1>1, <1>2, <2>2 DEF Scans
  <2> QED
    BY <2>1, <2>2
<1> HIDE DEF c
<1>5. \A i \in scan'.todo \cup scan'.failed : i \in scan.todo \cup scan.failed
  BY <1>2, <1>4 DEF c
<1>6. \A i \in 1..scan'.end : SeenLater(i) =>
         i \in st'.processed \cup scan'.todo \cup scan'.failed
  <2> SUFFICES ASSUME NEW i \in 1..scan'.end, SeenLater(i)
               PROVE  i \in st'.processed \cup scan'.todo \cup scan'.failed
    OBVIOUS
  <2>1. Seen(i)
    BY <1>1, <1>4 DEF SeenLater, Seen, Onwards, Scans
  <2>2. i \in st.processed \cup scan.todo \cup scan.failed
    BY <1>3, <1>4, <2>1
  <2> QED
    BY <1>4, <2>2 DEF Onwards
<1> QED
  BY <1>1, <1>3, <1>4, <1>5, <1>6 DEF ScanLater, Looks, Relies, IsUrgent

LEMMA ScanStays ==
    ASSUME QueueInv, [Next]_vars
    PROVE  ScanLater
<1> USE DEF Looks, Relies, Keep, Save, chatVars, outerVars, quietVars, vars,
            bridgeVars
<1>0. ~Crash => Onwards
  BY GoesOnwards
<1>1. LogLater
  BY LogGrowsOn
<1>2. CASE \/ ResumePass \/ FreshPass \/ Preempt \/ Crash
           \/ \E m \in Ids : TakeControl(m)
  BY <1>1, <1>2, ScanStarts, ScanTakes
<1>3. CASE ReadControls
  BY <1>3, ScanReads
<1>4. ASSUME ~Crash, scan' = scan,
             pc' \in Looks => pc \in Looks,
             pc' \in Relies =>
                pc \in Relies \/ (pc = "scan" /\ scan.todo = {}
                                              /\ scan.failed = {})
      PROVE  ScanLater
  BY <1>0, <1>4, ScanUnchanged
<1>5. CASE UNCHANGED <<scan, pc>> /\ ~Crash
  BY <1>4, <1>5
<1>6. CASE ~Crash /\ (DiscardStale \/ FetchPage \/ PollsNothing \/ PassEnds)
  BY <1>4, <1>6 DEF DiscardStale, FetchPage, PollsNothing, PassEnds
<1>7. CASE ~Crash /\ (ReadRaises \/ AskControl)
  BY <1>4, <1>7 DEF ReadRaises, AskControl, ScanAborts
<1>8. CASE ~Crash /\ ControlAnswered
  <2>1. /\ pc = "scanAsk" /\ log' = log /\ scan.todo # {}
        /\ pc' \in {"scan", "scanSend"} /\ scan' \in {scan, ControlFailed}
    BY <1>8 DEF ControlAnswered, QueueInv, StopInv, WorkHasMessage
  <2> HIDE DEF ControlFailed
  <2>2. CASE scan' = scan
    BY <1>4, <1>8, <2>1, <2>2
  <2>3. CASE scan' = ControlFailed
    BY <1>0, <1>8, <2>1, <2>3, ScanGoesOn
  <2> QED
    BY <2>1, <2>2, <2>3
<1>9. CASE ~Crash /\ (ControlUnanswered \/ ControlUndelivered)
  <2>1. /\ pc \in Looks /\ log' = log /\ scan.todo # {}
        /\ pc' = "scan" /\ scan' = ControlFailed
    BY <1>9 DEF ControlUnanswered, ControlUndelivered, QueueInv, StopInv,
                WorkHasMessage
  <2> HIDE DEF ControlFailed
  <2> QED
    BY <1>0, <1>9, <2>1, ScanGoesOn
<1>10. CASE ~Crash /\ ControlDelivered
  <2>1. /\ pc \in Looks /\ log' = log /\ scan.todo # {} /\ pc' \in Looks
        /\ scan' = [scan EXCEPT !.todo = @ \ {Control}]
    BY <1>10 DEF ControlDelivered, QueueInv, StopInv, WorkHasMessage
  <2>2. Control \in st'.processed
    BY <1>10, DeliveredEffect
  <2> HIDE DEF Control
  <2> QED
    BY <1>0, <1>10, <2>1, <2>2, ScanGoesOn
<1>11. CASE ~Crash /\ (AskDirect \/ DirectAnswered \/ DirectUnanswered)
  BY <1>4, <1>11 DEF AskDirect, DirectAnswered, DirectUnanswered
<1>12. CASE ~Crash /\ Posting
  BY <1>4, <1>12 DEF Posting, ReplyConcluded, ReplyRaises, NoticeConcluded,
                     NoticeRaises
<1>13. CASE ~Crash /\ Around
  <2>1. UNCHANGED <<scan, pc>>
    BY <1>13 DEF Around, WorkerReturns, MessageArrives, MetadataSettles,
                 AdapterFinishes
  <2> QED
    BY <1>5, <1>13, <2>1
<1>14. ASSUME ~Crash, NEW m \in Ids,
              \/ WaitForMetadata(m) \/ TurnToNotice(m) \/ ResumePending(m)
              \/ StartWorker(m) \/ SkipMessage(m)
       PROVE  ScanLater
  <2>1. scan' = scan /\ pc = "handle" /\ pc' \notin Looks
    BY <1>14 DEF WaitForMetadata, TurnToNotice, ResumePending, StartWorker,
                 SkipMessage, Settled, Here
  <2> QED
    BY <1>4, <1>14, <2>1
<1>15. CASE ~Crash /\ (CommitMessage \/ EndSilently \/ CommitNotice)
  BY <1>4, <1>15 DEF CommitMessage, EndSilently, CommitNotice
<1>16. CASE ~Crash /\ ScanEnds
  <2>1. /\ scan' = scan /\ pc = "scan" /\ scan.todo = {}
        /\ pc' \in {AfterScan, ScanAborts} /\ pc' \notin Looks
    BY <1>16, ScanLeads DEF ScanEnds, QueueInv, StopInv, Scanning
  <2>2. ScanAborts \notin Relies
    BY DEF ScanAborts
  <2>3. scan.failed # {} => AfterScan \notin Relies
    BY <2>2 DEF AfterScan
  <2> HIDE DEF Looks, Relies
  <2> QED
    BY <1>4, <1>16, <2>1, <2>2, <2>3
<1>17. CASE ~Crash /\ (SavePending \/ Recording)
  BY <1>4, <1>17 DEF SavePending, Recording, RecordFailure,
                     RecordNoticeFailure
<1>18. CASE ~Crash /\ UNCHANGED vars
  BY <1>5, <1>18
<1> HIDE DEF Looks, Relies, Keep, Save, chatVars, outerVars, quietVars, vars,
             bridgeVars
<1>19. CASE ~Crash /\ (Polling \/ Looking \/ Asking)
  BY <1>2, <1>3, <1>6, <1>7, <1>8, <1>9, <1>11, <1>19
  DEF Polling, Looking, Asking
<1>20. ASSUME ~Crash, NEW m \in Ids, Starting(m) \/ SkipMessage(m)
       PROVE  ScanLater
  BY <1>2, <1>14, <1>20 DEF Starting
<1> QED
  BY <1>2, <1>10, <1>12, <1>13, <1>15, <1>16, <1>17, <1>18, <1>19, <1>20,
     QueueSteps DEF Recording

LEMMA StepQueueInv == QueueInv /\ [Next]_vars => QueueInv'
<1> SUFFICES ASSUME QueueInv, [Next]_vars PROVE QueueInv'
  OBVIOUS
<1>1. StopInv' /\ PlaceInv' /\ KindsInv' /\ Kept(st)' /\ Kept(disk)'
  BY StepStopInv, PlaceStays, KindsStay, KeptAfter DEF QueueInv
<1>2. TypeOK'
  BY PreprocStays, TypesStay
<1>3. ScanInv'
  BY ScanStays DEF ScanLater, ScanInv, SeenLater, Seen, IsUrgent, Looks,
                   Relies
<1> QED
  BY <1>1, <1>2, <1>3 DEF QueueInv

LEMMA InitQueueInv == Init => QueueInv
<1> SUFFICES ASSUME Init PROVE QueueInv
  OBVIOUS
<1> USE DEF Init
<1>1. StopInv
  BY InitStopInv
<1>2. Fresh \in States /\ Len(log) = 0
  BY NoRetryType DEF Fresh, States
<1>3. TypeOK
  <2>1. log \in Seq(AllKinds) /\ fence \in Nat
    BY <1>1 DEF StopInv, IdsAreLogged, StopsAreInForce
  <2>2. answer \in [Ids -> AllAnswers \cup {"none", "working"}]
    OBVIOUS
  <2> QED
    BY <1>2, <2>1, <2>2 DEF TypeOK
<1>4. Kept(st) /\ Kept(disk)
  BY <1>2 DEF Kept, Fresh, NoRetry
<1>5. PlaceInv
  BY DEF PlaceInv, Working, Ending, Scanning, Fresh
<1>6. KindsInv
  BY DEF KindsInv
<1>7. ScanInv
  BY <1>2, NoScanType DEF ScanInv, NoScan
<1> QED
  BY <1>1, <1>3, <1>4, <1>5, <1>6, <1>7 DEF QueueInv

\* What the loop and its saved states say of the queue holds throughout: it is
\* inductive, and all that follows about the queue rests on it.
THEOREM QueueInvHolds == Spec => []QueueInv
<1>1. Init => QueueInv                        BY InitQueueInv
<1>2. QueueInv /\ [Next]_vars => QueueInv'    BY StepQueueInv
<1> QED BY <1>1, <1>2, PTL DEF Spec

\* Bridge keeps its types, works on the message after its cursor, and keeps
\* nothing for later that lies behind it; the state file is never ahead of
\* memory.
THEOREM BridgeInvHolds == Spec => []BridgeInv
<1>1. QueueInv => BridgeInv
  <2> SUFFICES ASSUME QueueInv PROVE BridgeInv
    OBVIOUS
  <2>1. /\ pc \in {"await", "control", "directAsk", "answered", "send",
                   "commit"} => cur = st.cursor + 1
        /\ pc \in {"notice", "noticed"} => cur \in {st.cursor, st.cursor + 1}
        /\ disk.cursor <= st.cursor
    BY DEF QueueInv, PlaceInv, Working, Ending
  <2>2. st.pending # 0 => st.pending > st.cursor
    BY QueueFacts DEF QueueInv, Kept
  <2> QED
    BY <2>1, <2>2 DEF BridgeInv, WorkIsAhead, QueueInv
<1> QED BY <1>1, QueueInvHolds, PTL

\* An answer leaves only after every stop that the scan before it could see,
\* whatever scans failed, were cut short or began from a saved place.
THEOREM StopsGoFirstHolds == Spec => []StopsGoFirst
<1>1. QueueInv => StopsGoFirst
  <2> SUFFICES ASSUME QueueInv, pc = "send",
                      NEW s \in (cur + 1)..scan.end, log[s] = "stop"
               PROVE  s \in st.processed
    BY DEF StopsGoFirst
  <2>1. cur = st.cursor + 1 /\ cur \in Nat /\ scan.end \in Nat
    BY QueueFacts DEF QueueInv, PlaceInv, Working, ScanInv, Scans
  <2>2. s \in 1..scan.end /\ Seen(s)
    BY <2>1 DEF Seen
  <2> QED
    BY <2>2 DEF QueueInv, ScanInv
<1> QED BY <1>1, QueueInvHolds, PTL

\* Only the end of a message moves the cursor, by one; a crash may move it back.
LEMMA CursorSteps ==
    ASSUME QueueInv, Next
    PROVE  \/ st'.cursor <= st.cursor
           \/ \E m \in Ids : /\ Finishing(m) /\ m = st.cursor + 1
                             /\ st'.cursor = m
<1>1. st.cursor \in Nat /\ disk.cursor <= st.cursor
  BY QueueFacts DEF QueueInv, PlaceInv
<1>2. CASE \/ Polling \/ Looking \/ Asking \/ Posting \/ Around
           \/ \E m \in Ids : Starting(m)
  BY <1>1, <1>2, TrimmingEffect DEF Trims
<1>3. ASSUME NEW m \in Ids, Finishing(m)
      PROVE  \/ st'.cursor <= st.cursor
             \/ m = st.cursor + 1 /\ st'.cursor = m
  <2>1. st'.cursor = m /\ m \in {st.cursor, st.cursor + 1}
    BY <1>3, FinishingEffect DEF Finishes
  <2> QED
    BY <1>1, <2>1
<1>4. CASE ControlDelivered \/ ScanEnds \/ SavePending \/ Recording
  <2>1. st'.cursor = st.cursor
    BY <1>4, DeliveredEffect, ScanEndsEffect, SavePendingEffect,
       RecordingEffect
  <2> QED
    BY <1>1, <2>1
<1>5. CASE Crash
  BY <1>1, <1>5 DEF Crash
<1> QED
  BY <1>2, <1>3, <1>4, <1>5, QueueSteps, FinishingSteps
  DEF Recording, Finishing

LEMMA FinishedIsDone ==
    ASSUME QueueInv, NEW m \in Ids, Finishing(m), m = st.cursor + 1
    PROVE  Done(m)
<1>0. /\ m \in Nat /\ st.cursor \in Nat /\ fence \in Nat
      /\ st.stopBefore \in Nat /\ st.stopBefore <= fence
  BY QueueFacts DEF QueueInv, StopInv, Sound
<1>1. Told(m) => Done(m)
  BY DEF Told, Done
<1>2. Invalidated(m) => Done(m)
  BY <1>0 DEF Invalidated, Done
<1>3. CASE SkipMessage(m)
  <2>1. m \in preproc \/ m \in st.processed \/ Invalidated(m) \/ log[m] = "noise"
    BY <1>3 DEF SkipMessage, Handled
  <2>2. m \in preproc \/ m \in st.processed => Told(m)
    <3>1. preproc \subseteq st.processed
      BY DEF QueueInv, PlaceInv
    <3>2. \A i \in st.processed : i > st.cursor => Told(i)
      BY DEF QueueInv, Kept
    <3>3. m > st.cursor
      BY <1>0
    <3> QED
      BY <3>1, <3>2, <3>3
  <2> QED
    BY <1>1, <1>2, <2>1, <2>2 DEF Done
<1>4. CASE m = cur /\ CommitMessage
  BY <1>1, <1>4 DEF CommitMessage, QueueInv, PlaceInv
<1>5. CASE m = cur /\ EndSilently
  BY <1>2, <1>5 DEF EndSilently
<1>6. CASE m = cur /\ CommitNotice
  BY <1>6 DEF CommitNotice, QueueInv, PlaceInv, Done
<1> QED
  BY <1>3, <1>4, <1>5, <1>6 DEF Finishing

\* The cursor passes a message only when it needs nothing more.
THEOREM NothingSkipped == Spec => NothingIsSkipped
<1> DEFINE Step == \A m \in (st.cursor + 1)..st'.cursor : Done(m)
<1>1. QueueInv /\ [Next]_vars => [Step]_vars
  <2> SUFFICES ASSUME QueueInv, Next, NEW m \in (st.cursor + 1)..st'.cursor
               PROVE  Done(m)
    OBVIOUS
  <2>1. st.cursor \in Nat /\ st'.cursor \in Nat
    <3>1. st' \in States
      BY StateAfter
    <3> QED
      BY <3>1, QueueFacts DEF States
  <2>2. \E n \in Ids : Finishing(n) /\ n = st.cursor + 1 /\ st'.cursor = n
    BY <2>1, CursorSteps
  <2>3. Finishing(m) /\ m = st.cursor + 1 /\ m \in Ids
    BY <2>1, <2>2
  <2> QED
    BY <2>3, FinishedIsDone
<1> QED BY <1>1, QueueInvHolds, PTL DEF Spec, NothingIsSkipped

-----------------------------------------------------------------------------
(* Answers and the state file *)

\* As long as no two saves failed, the pending answer in memory is the one on
\* disk; one that is left on disk only belongs to a message that is done with.
SavesInv ==
    /\ saveFailures \in Nat
    /\ (saveFailures < 2 /\ pc # "fail") \/ saveFailures = 0
          => (st.pending # 0 => disk.pending = st.pending)
    /\ disk.pending # 0 =>
          \/ st.pending = disk.pending
          \/ st.cursor >= disk.pending
          \/ st.stopBefore > disk.pending
    /\ PostedFromPending

\* A save, one that fails, and a step that saves nothing.
Saves  == disk' = st' /\ saveFailures' = saveFailures
Fails  == disk' \in {disk, st'} /\ saveFailures' = saveFailures + 1
Leaves == disk' = disk /\ saveFailures' = saveFailures

LEMMA SaveSteps ==
    ASSUME Next
    PROVE  /\ Saves \/ Fails \/ Leaves
           /\ pc = "fail" /\ pc' # "fail" => Saves \/ Fails \/ Crash
           /\ SavePending => Saves \/ (Fails /\ pc' = "fail")
<1> USE DEF Saves, Fails, Leaves, Save, Keep, bridgeVars, vars
<1>1. CASE Polling
  BY <1>1 DEF Polling, DiscardStale, ResumePass, FreshPass, PollsNothing,
              FetchPage, PassEnds, SavePending
<1>2. CASE Looking
  BY <1>2 DEF Looking, ReadControls, ReadRaises, AskControl, ControlAnswered,
              ControlUnanswered, ControlUndelivered, SavePending
<1>3. CASE Asking
  BY <1>3 DEF Asking, Preempt, AskDirect, DirectAnswered, DirectUnanswered,
              SavePending
<1>4. CASE Posting
  BY <1>4 DEF Posting, ReplyConcluded, ReplyRaises, NoticeConcluded,
              NoticeRaises, SavePending
<1>5. CASE Around
  <2>1. Leaves /\ pc' = pc
    BY <1>5 DEF Around, WorkerReturns, MessageArrives, MetadataSettles,
                AdapterFinishes
  <2>2. CASE SavePending
    <3>1. pc = "answered" /\ pc' \in {"send", "fail"}
      BY <2>2 DEF SavePending
    <3> QED
      BY <2>1, <3>1
  <2> QED
    BY <2>1, <2>2
<1>6. ASSUME NEW m \in Ids, Starting(m) \/ SkipMessage(m)
      PROVE  (Saves \/ Fails \/ Leaves) /\ pc = "handle"
  BY <1>6 DEF Starting, WaitForMetadata, TurnToNotice, SkipMessage,
              ResumePending, TakeControl, StartWorker, Settled, Here
<1>7. CASE CommitMessage \/ EndSilently \/ CommitNotice
  BY <1>7 DEF CommitMessage, EndSilently, CommitNotice, SavePending
<1>8. CASE ControlDelivered \/ ScanEnds
  BY <1>8 DEF ControlDelivered, ScanEnds, SavePending
<1>9. CASE SavePending \/ Recording
  BY <1>9 DEF SavePending, Recording, RecordFailure, RecordNoticeFailure
<1>10. CASE Crash
  <2>1. Leaves /\ pc' = "top"
    BY <1>10 DEF Crash
  <2>2. CASE SavePending
    <3>1. pc' \in {"send", "fail"}
      BY <2>2 DEF SavePending
    <3> QED
      BY <2>1, <3>1
  <2> QED
    BY <1>10, <2>1, <2>2
<1>11. SavePending => pc = "answered"
  BY DEF SavePending
<1> HIDE DEF Saves, Fails, Leaves
<1> QED
  BY <1>1, <1>2, <1>3, <1>4, <1>5, <1>6, <1>7, <1>8, <1>9, <1>10, <1>11,
     QueueSteps DEF Recording

LEMMA QuietSteps ==
    ASSUME Next
    PROVE  /\ maxRetries' = maxRetries
           /\ fence' = fence \/ \E m \in Ids : AdapterFinishes(m)
           /\ crashes' = crashes \/ (Crash /\ crashes' = crashes + 1)
<1> USE DEF chatVars, outerVars, quietVars, vars
<1>1. CASE Polling
  BY <1>1 DEF Polling, DiscardStale, ResumePass, FreshPass, PollsNothing,
              FetchPage, PassEnds
<1>2. CASE Looking
  BY <1>2 DEF Looking, ReadControls, ReadRaises, AskControl, ControlAnswered,
              ControlUnanswered, ControlUndelivered
<1>3. CASE Asking
  BY <1>3 DEF Asking, Preempt, AskDirect, DirectAnswered, DirectUnanswered
<1>4. CASE Posting
  BY <1>4 DEF Posting, ReplyConcluded, ReplyRaises, NoticeConcluded,
              NoticeRaises
<1>5. CASE WorkerReturns \/ MessageArrives \/ MetadataSettles
  BY <1>5 DEF WorkerReturns, MessageArrives, MetadataSettles
<1>6. ASSUME NEW m \in Ids, Starting(m) \/ SkipMessage(m)
      PROVE  UNCHANGED <<maxRetries, fence, crashes>>
  BY <1>6 DEF Starting, WaitForMetadata, TurnToNotice, SkipMessage,
              ResumePending, TakeControl, StartWorker
<1>7. CASE CommitMessage \/ EndSilently \/ CommitNotice
  BY <1>7 DEF CommitMessage, EndSilently, CommitNotice
<1>8. CASE \/ ControlDelivered \/ ScanEnds \/ SavePending \/ Recording
  BY <1>8 DEF ControlDelivered, ScanEnds, SavePending, Recording,
              RecordFailure, RecordNoticeFailure
<1>9. CASE Crash
  <2>1. crashes' = crashes + 1 /\ UNCHANGED <<maxRetries, fence>>
    BY <1>9 DEF Crash
  <2> QED
    BY <1>9, <2>1
<1>10. ASSUME NEW m \in Ids, AdapterFinishes(m)
       PROVE  UNCHANGED <<maxRetries, crashes>>
  BY <1>10 DEF AdapterFinishes
<1> QED
  BY <1>1, <1>2, <1>3, <1>4, <1>5, <1>6, <1>7, <1>8, <1>9, <1>10, QueueSteps
  DEF Recording, Around

\* How the pending answer goes: with the message, for a stop, or not at all.
LEMMA PendingMoves ==
    ASSUME QueueInv, [Next]_vars, ~Crash
    PROVE  /\ \/ st'.pending = st.pending
              \/ /\ st'.pending = 0
                 /\ \/ st.pending < st'.stopBefore
                    \/ st.pending <= st'.cursor
              \/ st.pending = 0 /\ SavePending
           /\ st'.stopBefore >= st.stopBefore
<1>1. /\ st.stopBefore \in Nat /\ st.pending \in Nat /\ st.cursor \in Nat
      /\ st.pending \in {0, st.cursor + 1}
  BY QueueFacts DEF QueueInv, Kept
<1>2. CASE \/ Polling \/ Looking \/ Asking \/ Posting \/ Around
           \/ UNCHANGED vars
           \/ \E m \in Ids : Starting(m)
  BY <1>1, <1>2, TrimmingEffect DEF Trims
<1>3. ASSUME NEW m \in Ids, Finishing(m)
      PROVE  /\ \/ st'.pending = st.pending
                \/ st'.pending = 0 /\ st.pending <= st'.cursor
             /\ st'.stopBefore >= st.stopBefore
  <2>1. Finishes(st, st', m) /\ m \in Nat
    BY <1>3, FinishingEffect, QueueFacts
  <2> QED
    BY <1>1, <2>1 DEF Finishes
<1>4. CASE ControlDelivered \/ ScanEnds \/ Recording
  <2>1. st'.pending = st.pending /\ st'.stopBefore = st.stopBefore
    BY <1>4, DeliveredEffect, ScanEndsEffect, RecordingEffect
  <2> QED
    BY <1>1, <2>1
<1>5. CASE SavePending
  <2>1. /\ st'.pending = cur /\ cur = st.cursor + 1
        /\ st'.stopBefore = st.stopBefore
    BY <1>5, SavePendingEffect
  <2> QED
    BY <1>1, <1>5, <2>1
<1> QED
  BY <1>2, <1>3, <1>4, <1>5, QueueSteps, FinishingSteps
  DEF Recording, Finishing

LEMMA FenceStays ==
    ASSUME QueueInv, [Next]_vars
    PROVE  fence' >= fence /\ fence \in Nat /\ fence' \in Nat
<1>1. fence \in Nat /\ fence' \in Nat
  BY QueueFacts, AnswersStay
<1>2. ASSUME NEW m \in Ids, AdapterFinishes(m) PROVE fence' >= fence
  BY <1>2, FenceRises DEF QueueInv, StopInv, StopsAreInForce
<1> QED
  BY <1>1, <1>2, QuietSteps DEF vars, outerVars, quietVars

\* What is submitted is posted from a scan, or from the message in hand.
LEMMA SubmitSteps ==
    ASSUME QueueInv, [Next]_vars
    PROVE  \/ submitted' = submitted
           \/ pc = "scanSend" /\ submitted' = submitted \cup {<<"reply", Control>>}
           \/ pc = "send" /\ submitted' = submitted \cup {<<"reply", cur>>}
           \/ /\ pc = "notice" /\ ~Invalidated(cur)
              /\ submitted' = submitted \cup {<<"failure", cur>>}
<1> USE DEF chatVars, outerVars, quietVars, vars, SendConcludes, SendRaises,
            Submitting
<1>1. CASE Polling
  BY <1>1 DEF Polling, DiscardStale, ResumePass, FreshPass, PollsNothing,
              FetchPage, PassEnds
<1>2. CASE Looking
  BY <1>2 DEF Looking, ReadControls, ReadRaises, AskControl, ControlAnswered,
              ControlUnanswered, ControlUndelivered
<1>3. CASE Asking
  BY <1>3 DEF Asking, Preempt, AskDirect, DirectAnswered, DirectUnanswered
<1>4. CASE Posting
  BY <1>4 DEF Posting, ReplyConcluded, ReplyRaises, NoticeConcluded,
              NoticeRaises
<1>5. CASE Around
  BY <1>5 DEF Around, WorkerReturns, MessageArrives, MetadataSettles,
              AdapterFinishes
<1>6. ASSUME NEW m \in Ids, Starting(m) \/ SkipMessage(m)
      PROVE  submitted' = submitted
  BY <1>6 DEF Starting, WaitForMetadata, TurnToNotice, SkipMessage,
              ResumePending, TakeControl, StartWorker
<1>7. CASE CommitMessage \/ EndSilently \/ CommitNotice
  BY <1>7 DEF CommitMessage, EndSilently, CommitNotice
<1>8. CASE ControlDelivered
  BY <1>8 DEF ControlDelivered
<1>9. CASE \/ ScanEnds \/ SavePending \/ Recording \/ Crash \/ UNCHANGED vars
  BY <1>9 DEF ScanEnds, SavePending, Recording, RecordFailure,
              RecordNoticeFailure, Crash
<1> QED
  BY <1>1, <1>2, <1>3, <1>4, <1>5, <1>6, <1>7, <1>8, <1>9, QueueSteps
  DEF Recording

\* A plain message's answer is posted from the pending answer only, and then
\* the file has it, unless two saves failed.
LEMMA PostedFromFile ==
    ASSUME QueueInv, SavesInv, [Next]_vars, NEW m \in 1..Len(log),
           log[m] = "plain", <<"reply", m>> \in submitted',
           <<"reply", m>> \notin submitted, saveFailures < 2
    PROVE  disk.pending = m
<1>1. pc = "scanSend" => Control # m
  <2> SUFFICES ASSUME pc = "scanSend" PROVE Control # m
    OBVIOUS
  <2>1. Control \in scan.todo
    BY ControlIsLogged DEF QueueInv, StopInv, WorkHasMessage
  <2> HIDE DEF Control
  <2>2. IsUrgent(Control)
    BY <2>1 DEF QueueInv, ScanInv
  <2> QED
    BY <2>2 DEF IsUrgent
<1>2. pc = "send" /\ cur = m
  <2> HIDE DEF Control
  <2> QED
    BY <1>1, SubmitSteps
<1>3. st.pending = m /\ m # 0
  BY <1>2, QueueFacts DEF QueueInv, PlaceInv
<1> QED
  BY <1>2, <1>3 DEF SavesInv

\* What stands for an answer in the group: the file, or that it is done with.
Stands(m) == \/ disk.pending = m \/ disk.cursor >= m \/ fence > m
             \/ <<"failure", m>> \in concluded

LEMMA StandsStill ==
    ASSUME QueueInv, SavesInv, [Next]_vars, NEW m \in 1..Len(log), Stands(m)
    PROVE  Stands(m)'
<1>0. /\ m \in Nat /\ m # 0 /\ st' \in States /\ disk' \in States
      /\ st \in States /\ disk \in States
      /\ fence' >= fence /\ fence \in Nat /\ fence' \in Nat
      /\ disk.cursor <= st.cursor /\ st.stopBefore <= fence
      /\ st'.stopBefore <= fence'
  <2>1. Sound(st) /\ Sound(st)'
    BY StepStopInv DEF QueueInv, StopInv
  <2> QED
    BY <2>1, StateAfter, QueueFacts, FenceStays
    DEF QueueInv, PlaceInv, Sound
<1>1. /\ st.cursor \in Nat /\ disk.cursor \in Nat /\ st'.cursor \in Nat
      /\ disk'.cursor \in Nat /\ st.stopBefore \in Nat
      /\ st'.stopBefore \in Nat /\ st.pending \in Nat /\ disk.pending \in Nat
  BY <1>0 DEF States
<1>2. concluded \subseteq concluded'
  BY ConcludedSteps DEF vars, chatVars
<1>3. CASE disk' = disk
  BY <1>0, <1>1, <1>2, <1>3 DEF Stands
<1>4. CASE disk' = st' /\ ~Crash
  <2>1. st'.cursor >= st.cursor
    BY <1>4, GoesOnwards DEF Onwards
  <2>3. ASSUME m <= st'.cursor PROVE Stands(m)'
    BY <1>0, <1>1, <1>4, <2>3 DEF Stands
  <2>4. ASSUME m < st'.stopBefore PROVE Stands(m)'
    <3>1. fence' > m
      BY <1>0, <1>1, <2>4
    <3> QED
      BY <3>1 DEF Stands
  <2>5. ASSUME fence > m PROVE Stands(m)'
    <3>1. fence' > m
      BY <1>0, <1>1, <2>5
    <3> QED
      BY <3>1 DEF Stands
  <2>2. CASE disk.pending = m
    <3>1. st.pending = m \/ st.cursor >= m \/ st.stopBefore > m
      BY <1>0, <2>2 DEF SavesInv
    <3>2. CASE st.pending = m
      <4>1. \/ st'.pending = m
            \/ m < st'.stopBefore
            \/ m <= st'.cursor
        BY <1>0, <1>4, <3>2, PendingMoves
      <4>2. ASSUME st'.pending = m PROVE Stands(m)'
        BY <1>4, <4>2 DEF Stands
      <4> QED
        BY <2>3, <2>4, <4>1, <4>2
    <3>3. CASE st.cursor >= m
      BY <1>0, <1>1, <2>1, <2>3, <3>3
    <3>4. CASE st.stopBefore > m
      BY <1>0, <1>1, <2>5, <3>4
    <3> QED
      BY <3>1, <3>2, <3>3, <3>4
  <2>6. CASE disk.cursor >= m
    BY <1>0, <1>1, <2>1, <2>3, <2>6
  <2>7. CASE <<"failure", m>> \in concluded
    BY <1>2, <2>7 DEF Stands
  <2>8. \/ disk.pending = m \/ disk.cursor >= m \/ fence > m
        \/ <<"failure", m>> \in concluded
    BY DEF Stands
  <2> QED
    BY <2>2, <2>5, <2>6, <2>7, <2>8
<1>5. disk' = disk \/ (disk' = st' /\ ~Crash)
  <2>1. Crash => disk' = disk
    BY DEF Crash
  <2>2. UNCHANGED vars => disk' = disk
    BY DEF vars, bridgeVars
  <2> QED
    BY <2>1, <2>2, SaveSteps DEF Saves, Fails, Leaves
<1> QED
  BY <1>3, <1>4, <1>5

LEMMA StepSavesInv == QueueInv /\ SavesInv /\ [Next]_vars => SavesInv'
<1> SUFFICES ASSUME QueueInv, SavesInv, [Next]_vars PROVE SavesInv'
  OBVIOUS
<1>0. /\ Saves \/ Fails \/ Leaves
      /\ pc = "fail" /\ pc' # "fail" => Saves \/ Fails \/ Crash
      /\ SavePending => Saves \/ (Fails /\ pc' = "fail")
  <2>1. UNCHANGED vars => Leaves /\ pc' = pc
    BY DEF vars, bridgeVars, Leaves
  <2>2. SavePending /\ UNCHANGED vars => FALSE
    <3>1. SavePending => pc = "answered" /\ pc' \in {"send", "fail"}
      BY DEF SavePending, Save
    <3> QED
      BY <2>1, <3>1
  <2> QED
    BY <2>1, <2>2, SaveSteps
<1>1. saveFailures \in Nat /\ saveFailures' \in Nat
      /\ saveFailures' \in {saveFailures, saveFailures + 1}
  BY <1>0 DEF SavesInv, Saves, Fails, Leaves
<1>2. /\ st' \in States /\ disk' \in States /\ st \in States
      /\ disk \in States /\ disk'.cursor <= st'.cursor
  BY StateAfter, QueueFacts
<1>3. /\ st.cursor \in Nat /\ disk.cursor \in Nat /\ st'.cursor \in Nat
      /\ st.stopBefore \in Nat /\ st'.stopBefore \in Nat
      /\ st.pending \in Nat /\ disk.pending \in Nat /\ st'.pending \in Nat
      /\ disk'.pending \in Nat
  BY <1>2 DEF States
<1>5. (saveFailures' < 2 /\ pc' # "fail") \/ saveFailures' = 0
         => (st'.pending # 0 => disk'.pending = st'.pending)
  <2>1. CASE Crash
    BY <2>1 DEF Crash
  <2>2. CASE disk' = st'
    BY <2>2
  <2>3. CASE disk' = disk /\ ~Crash /\ ~Saves
    <3> SUFFICES ASSUME (saveFailures' < 2 /\ pc' # "fail") \/ saveFailures' = 0,
                        st'.pending # 0
                 PROVE  disk.pending = st'.pending
      BY <2>3
    <3>1. (saveFailures < 2 /\ pc # "fail") \/ saveFailures = 0
      <4>1. CASE Fails
        BY <1>1, <4>1 DEF Fails
      <4>2. CASE ~Fails
        <5>1. Leaves /\ (pc = "fail" => pc' = "fail")
          BY <1>0, <2>3, <4>2
        <5> QED
          BY <1>1, <5>1 DEF Leaves
      <4> QED
        BY <4>1, <4>2
    <3>2. ~SavePending
      <4>1. SavePending => Fails /\ pc' = "fail"
        BY <1>0, <2>3
      <4> QED
        BY <1>1, <4>1 DEF Fails
    <3>3. st'.pending = st.pending
      BY <2>3, <3>2, PendingMoves
    <3> QED
      BY <3>1, <3>3 DEF SavesInv
  <2> QED
    BY <1>0, <2>1, <2>2, <2>3 DEF Saves, Fails, Leaves
<1>6. disk'.pending # 0 =>
          \/ st'.pending = disk'.pending
          \/ st'.cursor >= disk'.pending
          \/ st'.stopBefore > disk'.pending
  <2>1. CASE Crash
    BY <2>1 DEF Crash
  <2>2. CASE disk' = st'
    BY <2>2
  <2>3. CASE disk' = disk /\ ~Crash
    <3>1. st'.cursor >= st.cursor /\ st'.stopBefore >= st.stopBefore
      BY <2>3, GoesOnwards, PendingMoves DEF Onwards
    <3> SUFFICES ASSUME disk.pending # 0
                 PROVE  \/ st'.pending = disk.pending
                        \/ st'.cursor >= disk.pending
                        \/ st'.stopBefore > disk.pending
      BY <2>3
    <3>2. \/ st.pending = disk.pending
          \/ st.cursor >= disk.pending
          \/ st.stopBefore > disk.pending
      BY DEF SavesInv
    <3>3. CASE st.pending = disk.pending
      BY <1>3, <2>3, <3>3, PendingMoves
    <3> QED
      BY <1>3, <3>1, <3>2, <3>3
  <2> QED
    BY <1>0, <2>1, <2>2, <2>3 DEF Saves, Fails, Leaves
<1>7. PostedFromPending'
  <2> SUFFICES ASSUME NEW m \in 1..Len(log'), log'[m] = "plain",
                      <<"reply", m>> \in submitted', saveFailures' < 2
               PROVE  Stands(m)'
    BY DEF PostedFromPending, Stands
  <2>0. saveFailures < 2
    BY <1>1
  <2>1. LogLater /\ Len(log) \in Nat
    BY LogGrowsOn, QueueFacts
  <2>2. m \in 1..Len(log)
    <3>1. CASE MessageArrives
      <4>1. submitted' = submitted
        BY <3>1 DEF MessageArrives, chatVars
      <4>2. \A key \in submitted : key[2] \in 1..Len(log)
        BY DEF QueueInv, StopInv, IdsAreLogged
      <4>3. <<"reply", m>>[2] \in 1..Len(log)
        BY <4>1, <4>2
      <4> QED
        BY <4>3
    <3>2. CASE MetadataSettles
      BY <2>1, <3>2, SettlesInPlace DEF QueueInv, StopInv
    <3>3. CASE log' = log
      BY <3>3
    <3> QED
      BY <3>1, <3>2, <3>3, LogSteps DEF vars, outerVars, quietVars
  <2>3. CASE <<"reply", m>> \in submitted
    <3>1. log[m] # "noise"
      <4>1. \A key \in submitted : key[1] = "reply" => log[key[2]] # "noise"
        BY DEF QueueInv, KindsInv
      <4> QED
        BY <2>3, <4>1
    <3>2. log[m] = "plain"
      BY <2>1, <2>2, <3>1 DEF LogLater
    <3>3. Stands(m)
      BY <2>0, <2>2, <2>3, <3>2 DEF SavesInv, PostedFromPending, Stands
    <3> QED
      BY <2>2, <3>3, StandsStill
  <2>4. CASE <<"reply", m>> \notin submitted
    <3>1. log' = log
      <4>1. MessageArrives \/ MetadataSettles => submitted' = submitted
        BY DEF MessageArrives, MetadataSettles, chatVars
      <4> QED
        BY <2>4, <4>1, LogSteps DEF vars, outerVars, quietVars
    <3>2. Stands(m)
      BY <2>0, <2>2, <2>4, <3>1, PostedFromFile DEF Stands
    <3> QED
      BY <2>2, <3>2, StandsStill
  <2> QED
    BY <2>3, <2>4
<1> QED
  BY <1>1, <1>5, <1>6, <1>7 DEF SavesInv

\* An answer in the group was in the state file first, or the message is done:
\* no restart asks for another one.
THEOREM PostedFromPendingHolds == Spec => []PostedFromPending
<1>1. Init => SavesInv
  BY DEF Init, Fresh, SavesInv, PostedFromPending
<1>2. QueueInv /\ SavesInv /\ [Next]_vars => SavesInv'
  BY StepSavesInv
<1>3. SavesInv => PostedFromPending
  BY DEF SavesInv
<1> QED BY <1>1, <1>2, <1>3, QueueInvHolds, PTL DEF Spec

-----------------------------------------------------------------------------
(* Failure notices *)

\* A message behind the cursor gets to its notice only by failed saves; short
\* of a crash, what is answered is done with, or about to be.
FailInv ==
    /\ crashes \in Nat
    /\ pc = "fail" /\ cur = st.cursor =>
          saveFailures >= 1 /\ st.retry.id # cur
    /\ crashes = 0 =>
          \A m \in Ids : <<"reply", m>> \in concluded =>
             m <= st.cursor \/ m \in st.processed \/ (pc = "commit" /\ m = cur)
    /\ crashes = 0 /\ saveFailures < maxRetries /\ pc = "notice" =>
          cur = st.cursor + 1

\* Only a delivered answer or notice is concluded.
LEMMA ConcludedByPosts ==
    ASSUME Next, ~ControlDelivered, ~ReplyConcluded
    PROVE  concluded' = concluded \/ NoticeConcluded
<1> USE DEF chatVars, outerVars, quietVars, vars
<1>1. CASE Polling
  BY <1>1 DEF Polling, DiscardStale, ResumePass, FreshPass, PollsNothing,
              FetchPage, PassEnds
<1>2. CASE Looking
  BY <1>2 DEF Looking, ReadControls, ReadRaises, AskControl, ControlAnswered,
              ControlUnanswered, ControlUndelivered, SendRaises
<1>3. CASE Asking
  BY <1>3 DEF Asking, Preempt, AskDirect, DirectAnswered, DirectUnanswered
<1>4. CASE ReplyRaises \/ NoticeRaises
  BY <1>4 DEF ReplyRaises, NoticeRaises, SendRaises
<1>5. CASE Around
  BY <1>5 DEF Around, WorkerReturns, MessageArrives, MetadataSettles,
              AdapterFinishes
<1>6. ASSUME NEW m \in Ids, Starting(m) \/ SkipMessage(m)
      PROVE  concluded' = concluded
  BY <1>6 DEF Starting, WaitForMetadata, TurnToNotice, SkipMessage,
              ResumePending, TakeControl, StartWorker
<1>7. CASE CommitMessage \/ EndSilently \/ CommitNotice
  BY <1>7 DEF CommitMessage, EndSilently, CommitNotice
<1>8. CASE \/ ScanEnds \/ SavePending \/ Recording \/ Crash
  BY <1>8 DEF ScanEnds, SavePending, Recording, RecordFailure,
              RecordNoticeFailure, Crash
<1> QED
  BY <1>1, <1>2, <1>3, <1>4, <1>5, <1>6, <1>7, <1>8, QueueSteps
  DEF Recording, Posting

\* From a failure the loop goes on to its record.
LEMMA FailLeads ==
    ASSUME Next, ~Crash, pc = "fail", pc' # "fail"
    PROVE  RecordFailure
<1>1. CASE Polling
  BY <1>1 DEF Polling, DiscardStale, ResumePass, FreshPass, PollsNothing,
              FetchPage, PassEnds
<1>2. CASE Looking
  BY <1>2 DEF Looking, ReadControls, ReadRaises, AskControl, ControlAnswered,
              ControlUnanswered, ControlUndelivered
<1>3. CASE Asking
  BY <1>3 DEF Asking, Preempt, AskDirect, DirectAnswered, DirectUnanswered
<1>4. CASE Posting
  BY <1>4 DEF Posting, ReplyConcluded, ReplyRaises, NoticeConcluded,
              NoticeRaises
<1>5. ~Around
  BY DEF Around, WorkerReturns, MessageArrives, MetadataSettles,
         AdapterFinishes, bridgeVars
<1>6. \A m \in Ids : ~Starting(m) /\ ~SkipMessage(m)
  BY DEF Starting, WaitForMetadata, TurnToNotice, SkipMessage,
         ResumePending, TakeControl, StartWorker, Settled, Here
<1>7. CASE \/ CommitMessage \/ EndSilently \/ CommitNotice \/ ControlDelivered
           \/ ScanEnds \/ SavePending \/ RecordNoticeFailure
  BY <1>7 DEF CommitMessage, EndSilently, CommitNotice, ControlDelivered,
              ScanEnds, SavePending, RecordNoticeFailure
<1> QED
  BY <1>1, <1>2, <1>3, <1>4, <1>5, <1>6, <1>7, QueueSteps

\* How the loop gets to a failure, to the post of a notice and away from a
\* commit.
LEMMA FailSteps ==
    ASSUME QueueInv, Next, ~Crash
    PROVE  /\ pc' = "fail" =>
                 \/ pc = "fail" /\ UNCHANGED <<st, cur>>
                 \/ cur' = st'.cursor + 1
                 \/ Fails /\ \E m \in Ids : Finishing(m)
           /\ pc' = "notice" =>
                 \/ pc = "notice" /\ UNCHANGED <<st, cur>>
                 \/ cur' = st'.cursor + 1
                 \/ pc = "fail" /\ cur' = cur /\ Attempts >= maxRetries
           /\ pc = "commit" =>
                 \/ pc' = "commit" /\ UNCHANGED <<st, cur>>
                 \/ st'.cursor = cur /\ cur \in Ids
<1> DEFINE ToFail ==
              pc' = "fail" =>
                 \/ pc = "fail" /\ UNCHANGED <<st, cur>>
                 \/ cur' = st'.cursor + 1
                 \/ Fails /\ \E m \in Ids : Finishing(m)
           ToNotice ==
              pc' = "notice" =>
                 \/ pc = "notice" /\ UNCHANGED <<st, cur>>
                 \/ cur' = st'.cursor + 1
                 \/ pc = "fail" /\ cur' = cur /\ Attempts >= maxRetries
           FromCommit ==
              pc = "commit" =>
                 \/ pc' = "commit" /\ UNCHANGED <<st, cur>>
                 \/ st'.cursor = cur /\ cur \in Ids
<1>0. Working => cur = st.cursor + 1
  BY DEF QueueInv, PlaceInv
<1> USE DEF Keep, Save
<1>1. CASE Polling
  <2>1. pc \in {"top", "fetch", "handle"} /\ pc' \notin {"fail", "notice"}
    <3>1. CASE PollsNothing
      BY <3>1 DEF PollsNothing, vars, bridgeVars
    <3> QED
      BY <1>1, <3>1 DEF Polling, DiscardStale, ResumePass, FreshPass, FetchPage,
                        PassEnds
  <2> QED
    BY <2>1
<1>2. CASE Looking
  <2>1. Scanning /\ pc' # "notice"
    BY <1>2 DEF Looking, ReadControls, ReadRaises, AskControl,
                ControlAnswered, ControlUnanswered, ControlUndelivered,
                ScanAborts, Scanning
  <2>2. pc' = "fail" => st' = st /\ cur' = cur /\ Working
    BY <1>2 DEF Looking, ReadControls, ReadRaises, AskControl,
                ControlAnswered, ControlUnanswered, ControlUndelivered,
                ScanAborts, Scanning, Working, QueueInv, StopInv,
                WorkHasMessage
  <2> QED
    BY <1>0, <2>1, <2>2 DEF Scanning
<1>3. CASE Asking
  <2>1. pc \in {"await", "control", "directAsk"} /\ pc' # "notice"
        /\ cur' = cur
    BY <1>3 DEF Asking, Preempt, AskDirect, DirectAnswered, DirectUnanswered
  <2>2. st'.cursor = st.cursor
    BY <1>3, TrimmingEffect DEF Trims
  <2> QED
    BY <1>0, <2>1, <2>2 DEF Working
<1>4. CASE Posting
  <2>1. /\ pc \in {"send", "notice"} /\ st' = st /\ cur' = cur
        /\ pc' \in {"commit", "fail", "noticed", "noticeFailed"}
        /\ pc' = "fail" => pc = "send"
    BY <1>4 DEF Posting, ReplyConcluded, ReplyRaises, NoticeConcluded,
                NoticeRaises
  <2> QED
    BY <1>0, <2>1 DEF Working
<1>5. CASE Around
  <2>1. UNCHANGED <<pc, st, cur>>
    BY <1>5 DEF Around, WorkerReturns, MessageArrives, MetadataSettles,
                AdapterFinishes, bridgeVars
  <2> QED
    BY <2>1
<1>6. ASSUME NEW m \in Ids, Starting(m)
      PROVE  ToFail /\ ToNotice /\ FromCommit
  <2>1. /\ pc = "handle" /\ m = st.cursor + 1
        /\ pc' \in {"top", "notice", "send", "scanStart", "await"}
        /\ pc' # "top" => cur' = m
    BY <1>6 DEF Starting, WaitForMetadata, TurnToNotice, ResumePending,
                TakeControl, StartWorker, Settled, Here
  <2>2. st'.cursor = st.cursor
    BY <1>6, TrimmingEffect DEF Trims
  <2> QED
    BY <2>1, <2>2
<1>7. ASSUME NEW m \in Ids, Finishing(m)
      PROVE  ToFail /\ ToNotice /\ FromCommit
  <2>1. /\ pc' = "fail" => Fails
        /\ pc' # "notice"
        /\ pc = "commit" => m = cur
    BY <1>7 DEF Finishing, SkipMessage, CommitMessage, EndSilently,
                CommitNotice, Settled, Here, Fails
  <2>2. st'.cursor = m
    BY <1>7, FinishingEffect DEF Finishes
  <2> QED
    BY <1>7, <2>1, <2>2
<1>8. CASE ControlDelivered
  BY <1>8 DEF ControlDelivered
<1>9. CASE ScanEnds
  <2>1. /\ pc = "scan" /\ pc' # "notice" /\ cur' = cur
        /\ pc' = "fail" => scan.then \in {"control", "poll", "release"}
    BY <1>9, ScanLeads DEF ScanEnds, QueueInv, StopInv, WorkHasMessage
  <2>2. st'.cursor = st.cursor
    BY <1>9, ScanEndsEffect
  <2>3. pc' = "fail" => Working
    BY <2>1 DEF Working, Scanning
  <2> QED
    BY <1>0, <2>1, <2>2, <2>3
<1>10. CASE SavePending
  <2>1. pc = "answered" /\ pc' \in {"send", "fail"} /\ cur' = cur
    BY <1>10 DEF SavePending
  <2>2. st'.cursor = st.cursor /\ cur = st.cursor + 1
    BY <1>10, SavePendingEffect
  <2> QED
    BY <2>1, <2>2
<1>11. CASE RecordFailure
  BY <1>11 DEF RecordFailure
<1>12. CASE RecordNoticeFailure
  BY <1>12 DEF RecordNoticeFailure
<1> HIDE DEF ToFail, ToNotice, FromCommit
<1>13. ToFail /\ ToNotice /\ FromCommit
  <2>1. CASE \E m \in Ids : Starting(m) \/ SkipMessage(m)
    BY <1>6, <1>7, <2>1 DEF Finishing
  <2>2. CASE CommitMessage \/ EndSilently \/ CommitNotice
    BY <1>7, <2>2, FinishingSteps
  <2>3. CASE \/ Polling \/ Looking \/ Asking \/ Posting \/ Around
             \/ ControlDelivered \/ ScanEnds \/ SavePending
             \/ RecordFailure \/ RecordNoticeFailure
    BY <1>1, <1>2, <1>3, <1>4, <1>5, <1>8, <1>9, <1>10, <1>11, <1>12, <2>3
    DEF ToFail, ToNotice, FromCommit
  <2> QED
    BY <2>1, <2>2, <2>3, QueueSteps
<1> QED
  BY <1>13 DEF ToFail, ToNotice, FromCommit

LEMMA StepFailInv ==
    QueueInv /\ SavesInv /\ FailInv /\ [Next]_vars => FailInv'
<1> SUFFICES ASSUME QueueInv, SavesInv, FailInv, [Next]_vars PROVE FailInv'
  OBVIOUS
<1>0. /\ crashes \in Nat /\ saveFailures \in Nat
      /\ st.cursor \in Nat /\ cur \in Nat /\ st.retry.id \in Nat
      /\ maxRetries \in Nat /\ maxRetries >= 1
  BY QueueFacts, BridgeConstants DEF FailInv, SavesInv, QueueInv, TypeOK
<1>1. CASE UNCHANGED vars
  BY <1>1 DEF FailInv, vars, bridgeVars, chatVars, outerVars, quietVars
<1>2. CASE Crash
  <2>1. crashes' = crashes + 1 /\ pc' = "top"
    BY <1>2 DEF Crash
  <2> QED
    BY <1>0, <2>1 DEF FailInv
<1>3. CASE Next /\ ~Crash
  <2>0. /\ crashes' = crashes /\ maxRetries' = maxRetries
        /\ saveFailures' \in {saveFailures, saveFailures + 1}
    BY <1>3, QuietSteps, SaveSteps DEF Saves, Fails, Leaves
  <2>1. pc' = "fail" /\ cur' = st'.cursor =>
           saveFailures' >= 1 /\ st'.retry.id # cur'
    <3> SUFFICES ASSUME pc' = "fail", cur' = st'.cursor
                 PROVE  saveFailures' >= 1 /\ st'.retry.id # cur'
      OBVIOUS
    <3>1. CASE pc = "fail" /\ UNCHANGED <<st, cur>>
      BY <1>0, <2>0, <3>1 DEF FailInv
    <3>2. CASE Fails /\ \E m \in Ids : Finishing(m)
      <4> PICK m \in Ids : Finishing(m)
        BY <3>2
      <4>1. st'.retry = NoRetry /\ cur' = m /\ m # 0
        BY FinishingEffect, QueueFacts DEF Finishes
      <4> QED
        BY <1>0, <3>2, <4>1 DEF Fails, NoRetry
    <3>3. cur' # st'.cursor + 1
      <4>1. st' \in States
        BY StateAfter
      <4>2. st'.cursor \in Nat
        BY <4>1 DEF States
      <4> QED
        BY <4>2
    <3> QED
      BY <1>3, <3>1, <3>2, <3>3, FailSteps
  <2>2. crashes' = 0 => \A m \in Ids : <<"reply", m>> \in concluded' =>
           m <= st'.cursor \/ m \in st'.processed \/ (pc' = "commit" /\ m = cur')
    <3> SUFFICES ASSUME crashes' = 0, NEW m \in Ids,
                        <<"reply", m>> \in concluded'
                 PROVE  \/ m <= st'.cursor \/ m \in st'.processed
                        \/ pc' = "commit" /\ m = cur'
      OBVIOUS
    <3>1. /\ m \in Nat /\ st'.cursor \in Nat /\ st'.cursor >= st.cursor
          /\ st.processed \subseteq st'.processed
      BY <1>3, GoesOnwards, QueueFacts DEF Onwards
    <3>2. CASE <<"reply", m>> \in concluded
      <4>1. m <= st.cursor \/ m \in st.processed \/ (pc = "commit" /\ m = cur)
        BY <2>0, <3>2 DEF FailInv
      <4>2. pc = "commit" => \/ pc' = "commit" /\ cur' = cur
                             \/ st'.cursor = cur
        BY <1>3, FailSteps
      <4> QED
        BY <1>0, <3>1, <4>1, <4>2
    <3>3. CASE <<"reply", m>> \notin concluded
      <4>1. \/ pc = "scanSend" /\ m = Control
            \/ pc = "send" /\ m = cur
        <5> HIDE DEF Control
        <5> QED
          BY <1>3, <3>3, ConcludedSteps
      <4>2. CASE ControlDelivered
        <5>1. pc = "scanSend" /\ Control \in st'.processed
          BY <4>2, DeliveredEffect
        <5> HIDE DEF Control
        <5> QED
          BY <4>1, <5>1
      <4>3. CASE ReplyConcluded
        BY <4>1, <4>3 DEF ReplyConcluded, Keep
      <4>4. CASE ~ControlDelivered /\ ~ReplyConcluded
        <5>1. concluded' = concluded \/ NoticeConcluded
          BY <1>3, <4>4, ConcludedByPosts
        <5>2. CASE NoticeConcluded
          <6>1. pc = "notice"
            BY <5>2 DEF NoticeConcluded
          <6> QED
            BY <4>1, <6>1
        <5> QED
          BY <3>3, <5>1, <5>2
      <4> QED
        BY <4>2, <4>3, <4>4
    <3> QED
      BY <3>2, <3>3
  <2>3. crashes' = 0 /\ saveFailures' < maxRetries' /\ pc' = "notice" =>
           cur' = st'.cursor + 1
    <3> SUFFICES ASSUME crashes' = 0, saveFailures' < maxRetries',
                        pc' = "notice", cur' # st'.cursor + 1
                 PROVE  FALSE
      OBVIOUS
    <3>1. CASE pc = "notice" /\ UNCHANGED <<st, cur>>
      BY <1>0, <2>0, <3>1 DEF FailInv
    <3>2. CASE pc = "fail" /\ cur' = cur /\ Attempts >= maxRetries
      <4>1. RecordFailure
        BY <1>3, <3>2, FailLeads
      <4>2. st'.cursor = st.cursor /\ cur \in {st.cursor, st.cursor + 1}
        BY <4>1, RecordingEffect DEF Recording
      <4>3. saveFailures >= 1 /\ st.retry.id # cur
        BY <3>2, <4>2 DEF FailInv
      <4>4. Attempts = 1
        BY <4>3 DEF Attempts
      <4> QED
        BY <1>0, <2>0, <3>2, <4>3, <4>4
    <3> QED
      BY <1>3, <3>1, <3>2, FailSteps
  <2> QED
    BY <1>0, <2>0, <2>1, <2>2, <2>3 DEF FailInv
<1> QED
  BY <1>1, <1>2, <1>3

\* The group hears that the AI cannot be reached only of a message that was for
\* the bot and whose answer had no final response.
THEOREM NoticesHold == Spec => NoticeOnlyIfUnanswered
<1> DEFINE Step ==
       saveFailures < maxRetries /\ crashes = 0 =>
         \A m \in 1..Len(log) :
             <<"failure", m>> \in submitted' \ submitted =>
                 log[m] # "noise" /\ <<"reply", m>> \notin concluded
<1>1. Init => SavesInv /\ FailInv
  BY DEF Init, Fresh, SavesInv, PostedFromPending, FailInv
<1>2. /\ QueueInv /\ SavesInv /\ [Next]_vars => SavesInv'
      /\ QueueInv /\ SavesInv /\ FailInv /\ [Next]_vars => FailInv'
  BY StepSavesInv, StepFailInv
<1>3. QueueInv /\ FailInv /\ [Next]_vars => [Step]_vars
  <2> SUFFICES ASSUME QueueInv, FailInv, Next,
                      saveFailures < maxRetries, crashes = 0,
                      NEW m \in 1..Len(log),
                      <<"failure", m>> \in submitted' \ submitted
               PROVE  log[m] # "noise" /\ <<"reply", m>> \notin concluded
    OBVIOUS
  <2>1. pc = "notice" /\ m = cur
    <3> HIDE DEF Control
    <3> QED
      BY SubmitSteps
  <2>2. cur = st.cursor + 1
    BY <2>1 DEF FailInv
  <2>3. log[m] # "noise" /\ m \notin st.processed
    BY <2>1, <2>2 DEF QueueInv, PlaceInv, Ending
  <2>4. m \in Ids /\ ~(m <= st.cursor)
    BY <2>1, <2>2, QueueFacts
  <2> QED
    BY <2>1, <2>3, <2>4 DEF FailInv
<1> QED
  BY <1>1, <1>2, <1>3, QueueInvHolds, PTL DEF Spec, NoticeOnlyIfUnanswered
=============================================================================
