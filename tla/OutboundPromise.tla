--------------------------- MODULE OutboundPromise ---------------------------
(***************************************************************************)
(* What the Chat API promises its callers about outbound messages, without *)
(* threads, locks, files or retries: a request is submitted at most once,  *)
(* never after a stop that covers it, and the verdict on it is true.       *)
(***************************************************************************)
CONSTANTS
    Requests, Barriers,
    Covers            \* pairs <<barrier, request>>: what each stop is about

VARIABLES
    submitted,        \* requests WeChat was given
    stopped,          \* stops in force
    verdict           \* what is recorded of each request

promiseVars == <<submitted, stopped, verdict>>

Init ==
    /\ submitted = {}
    /\ stopped = {}
    /\ verdict = [r \in Requests |-> "open"]

Stopped(r) == \E b \in stopped : <<b, r>> \in Covers

Submit(r) ==
    /\ r \notin submitted /\ ~Stopped(r) /\ verdict[r] = "open"
    /\ submitted' = submitted \cup {r}
    /\ UNCHANGED <<stopped, verdict>>

Stop(b) ==
    /\ b \notin stopped
    /\ stopped' = stopped \cup {b}
    /\ UNCHANGED <<submitted, verdict>>

\* Verdicts are recorded together: one save writes the whole ledger. A
\* suppressed request may be tried again; a confirmed one is closed.
MayBecome(r, v) ==
    \/ v = verdict[r]
    \/ v = "confirmed"  /\ r \in submitted
    \/ v = "suppressed" /\ r \notin submitted /\ Stopped(r)
                        /\ verdict[r] # "confirmed"
    \/ v = "open"       /\ verdict[r] = "suppressed"

Record ==
    /\ verdict' \in [Requests -> {"open", "suppressed", "confirmed"}]
    /\ \A r \in Requests : MayBecome(r, verdict'[r])
    /\ UNCHANGED <<submitted, stopped>>

Next ==
    \/ \E r \in Requests : Submit(r)
    \/ \E b \in Barriers : Stop(b)
    \/ Record

Spec == Init /\ [][Next]_promiseVars
=============================================================================
