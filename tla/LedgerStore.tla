----------------------------- MODULE LedgerStore -----------------------------
(* What ChatSender assumes of the delivery ledger's file: one value that a   *)
(* save replaces or, if it fails, may replace, and that a start reads back.  *)
EXTENDS Naturals

CONSTANT Versions
VARIABLES mem, disk, saving, ok
storeVars == <<mem, disk, saving, ok>>

Init == mem \in Versions /\ disk = mem /\ saving = FALSE /\ ok = TRUE

\* The sender changes the ledger and starts to save it.
Change ==
    /\ ~saving
    /\ mem' \in Versions /\ saving' = TRUE
    /\ UNCHANGED <<disk, ok>>

\* The change becomes durable, all of it at once.
Flush == saving /\ disk' = mem /\ UNCHANGED <<mem, saving, ok>>

\* The save returns, and then the change is durable, or it raises.
Return ==
    /\ saving /\ saving' = FALSE
    /\ disk' \in {disk, mem}
    /\ ok' \in BOOLEAN /\ (ok' => disk' = mem)
    /\ UNCHANGED mem

Restart == mem' = disk /\ saving' = FALSE /\ ok' = TRUE /\ UNCHANGED disk

Next == Change \/ Flush \/ Return \/ Restart
Spec == Init /\ [][Next]_storeVars
=============================================================================
