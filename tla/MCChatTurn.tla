----------------------------- MODULE MCChatTurn -----------------------------
(* The conversations of the run: each kind of message before and after a   *)
(* stop, every pair that competes for the execution lock or a slot, and a  *)
(* command that waits its turn or overtakes. What the model may say is      *)
(* interchangeable.                                                        *)
EXTENDS ChatTurn, TLC

Sayings == Permutations(Texts)

MCConversations ==
    {<<"stop", k>> : k \in {"chat", "named", "mention"}}
    \cup {<<k, "stop">> : k \in {"chat", "named"}}
    \cup {<<"chat", k>> : k \in {"chat", "mention", "cancel"}}
    \cup {<<"mention", k>> : k \in {"chat", "named", "command"}}
=============================================================================
