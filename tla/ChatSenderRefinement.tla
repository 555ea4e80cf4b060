------------------------ MODULE ChatSenderRefinement ------------------------
(* ChatSender keeps OutboundPromise. The verdict is the one on disk: what a *)
(* process that starts now would go by.                                     *)
EXTENDS ChatSender

PromisedVerdict(r) ==
    CASE disk[r].status = "sent"       -> "confirmed"
      [] disk[r].status = "suppressed" -> "suppressed"
      [] OTHER                         -> "open"

Promise == INSTANCE OutboundPromise WITH
    Covers    <- {br \in Barriers \X Requests :
                    \E k \in Calls : /\ k.req = br[2]
                                     /\ Blocks(BarrierOf[br[1]], k.item)},
    submitted <- {r \in Requests : presses[r] > 0},
    stopped   <- {b \in Barriers : barrier[b] = "committed"},
    verdict   <- [r \in Requests |-> PromisedVerdict(r)]

\* Every behaviour of the sender, with its crashes, partial saves and retries,
\* is one of the promise (instances in which a request id has one text and
\* no other row has that text within 15 seconds of the attempt).
KeepsPromise == Promise!Spec
=============================================================================
