---------------------------- MODULE MCChatSender ----------------------------
(* ChatSender on small instances. *)
EXTENDS ChatSenderRefinement, TLC

CONSTANTS c1, c2, reply, task, stopRoom, stopTask, T

\* A chat reply to message 1 and a delivery of generation 2 of task T, asked
\* for by message 3.
ReplyItem == [source |-> 1, task |-> NoTask, generation |-> 0, text |-> "hi"]
TaskItem  == [source |-> 3, task |-> T, generation |-> 2, text |-> "done"]
\* The same request id with another text, and with another envelope.
OtherText == [ReplyItem EXCEPT !.text = "done"]
OtherEnvelope == [ReplyItem EXCEPT !.source = 3]

MCItems == {ReplyItem, TaskItem, OtherText, OtherEnvelope}
ReplyCall == {[req |-> reply, item |-> ReplyItem]}
TwoCalls == {[req |-> reply, item |-> ReplyItem],
             [req |-> task, item |-> TaskItem]}
ConflictingCalls == {[req |-> reply, item |-> i] :
                        i \in {ReplyItem, OtherText, OtherEnvelope}}

\* "stop everything" as message 3 (it covers the reply, not the task it
\* follows), and a stop of an earlier and of the same generation of T.
RoomStop == [source |-> 3, task |-> NoTask, generation |-> 0, mode |-> "all"]
TaskStop(g) == [source |-> 4, task |-> T, generation |-> g, mode |-> "all"]
MediaStop == [RoomStop EXCEPT !.mode = "media_only"]
MCBarrierOf == stopRoom :> RoomStop @@ stopTask :> TaskStop(2)
HarmlessBarrierOf == stopRoom :> [MediaStop EXCEPT !.source = 9]
                     @@ stopTask :> TaskStop(1)

LateCopies == {[text |-> "hi", late |-> TRUE]}
NoCopies == {}
PromptCopies == {[text |-> "hi", late |-> FALSE]}

ThreadSymmetry == Permutations(Threads)
=============================================================================
