------------------------------ MODULE MCBridge ------------------------------
(* Bridge on small instances. *)
EXTENDS Bridge

\* The Adapter as it is, with a stop that is ignored or cannot be
\* committed, and without either.
MCAnswersTo ==
    [k \in AllKinds |-> CASE k = "plain"  -> {"reply", "ignored"}
                          [] k = "stop"   -> {"canceled", "failed", "ignored"}
                          [] k = "media"  -> {"reply", "ignored"}
                          [] k = "status" -> {"reply"}
                          [] OTHER        -> {"ignored"}]
IgnoresBareStops == [MCAnswersTo EXCEPT !["stop"] = {"canceled", "ignored"}]
HeedsStops == [MCAnswersTo EXCEPT !["stop"] = {"canceled"}]
=============================================================================
