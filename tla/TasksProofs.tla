----------------------------- MODULE TasksProofs -----------------------------
(***************************************************************************)
(* Theorems about Tasks, for any number of generations, attempts, failures *)
(* and orders.                                                             *)
(***************************************************************************)
EXTENDS Tasks, SequenceTheorems, TLAPS

LEMMA Bounds == /\ MaxGeneration \in Nat /\ MaxGeneration > 0
                /\ max_attempts \in Nat /\ max_attempts > 0
BY TaskConstants

-----------------------------------------------------------------------------
(* What the helpers do to the row of the task *)

\* A row of a task that may still be claimed has an attempt left.
Row(t) ==
    /\ t \in TaskRow
    /\ t.status = "queued" /\ ~t.blocked => t.attempts < max_attempts

\* The task is where it was, or has ended, or goes on having ended.
Ends(t, u) ==
    /\ Row(u) /\ u.gen = t.gen
    /\ \/ u.status \in Terminal
       \/ /\ u.status = t.status /\ u.run = t.run
          /\ u.attempts = t.attempts /\ u.blocked = t.blocked

LEMMA EndsAgain ==
    ASSUME NEW t, NEW u, NEW v, Ends(t, u), Ends(u, v)
    PROVE  Ends(t, v)
BY DEF Ends, Terminal

\* Two rows that differ in what older readers are told only.
SameTask(t, u) ==
    /\ u \in TaskRow
    /\ u.status = t.status /\ u.gen = t.gen /\ u.run = t.run
    /\ u.attempts = t.attempts /\ u.cancel = t.cancel /\ u.over = t.over
    /\ u.blocked = t.blocked /\ u.asked = t.asked /\ u.file = t.file

\* _sync_delivery_compat changes nothing else.
LEMMA SyncKeeps ==
    ASSUME NEW t \in TaskRow, NEW ob, NEW g
    PROVE  SameTask(t, Sync(t, ob, g))
<1>1. ASSUME NEW a \in BOOLEAN, NEW b \in BOOLEAN,
             NEW u, u = [t EXCEPT !.sent = a, !.quiet = b]
      PROVE  SameTask(t, u)
  BY <1>1 DEF TaskRow, SameTask
<1>2. SameTask(t, t)
  BY DEF SameTask
<1> QED BY <1>1, <1>2 DEF Sync

LEMMA SyncEnds ==
    ASSUME NEW t, NEW ob, NEW g, Row(t)
    PROVE  Row(Sync(t, ob, g)) /\ Ends(t, Sync(t, ob, g))
BY SyncKeeps DEF Row, Ends, SameTask

LEMMA CompletedEnds ==
    ASSUME NEW t, Row(t), NEW g, NEW status \in Terminal
    PROVE  /\ Ends(t, Completed(t, g, status))
           /\ g = t.gen => Completed(t, g, status).status \in Terminal
BY DEF Row, Ends, Completed, TaskRow, Terminal

LEMMA RetriedIs ==
    ASSUME NEW t, Row(t), NEW g, NEW u, u = Retried(t, g)
    PROVE  /\ Row(u) /\ u.gen = t.gen
           /\ g # t.gen => u = t
           /\ g = t.gen =>
                /\ u.status \in {"queued", "canceled", "failed"} /\ u.run = 0
                /\ u.attempts = t.attempts /\ u.blocked = t.blocked
<1> DEFINE s == IF t.cancel THEN "canceled"
                ELSE IF t.attempts < max_attempts THEN "queued" ELSE "failed"
<1>1. /\ s \in {"queued", "canceled", "failed"}
      /\ s = "queued" => t.attempts < max_attempts
  OBVIOUS
<1> HIDE DEF s
<1>2. ASSUME NEW w, w = [t EXCEPT !.run = 0, !.status = s]
      PROVE  /\ Row(w) /\ w.gen = t.gen /\ w.status = s /\ w.run = 0
             /\ w.attempts = t.attempts /\ w.blocked = t.blocked
  <2>1. t \in TaskRow /\ 0 \in 0..max_attempts
        /\ s \in {"queued", "running"} \cup Terminal
    BY <1>1, Bounds DEF Row, Terminal
  <2>2. w \in TaskRow
    BY <1>2, <2>1 DEF TaskRow
  <2>3. /\ w.gen = t.gen /\ w.status = s /\ w.run = 0
        /\ w.attempts = t.attempts /\ w.blocked = t.blocked
    BY <1>2, <2>1 DEF TaskRow
  <2> QED BY <1>1, <2>2, <2>3 DEF Row
<1> QED BY <1>1, <1>2 DEF Retried, s

LEMMA RequeuedIs ==
    ASSUME NEW t, Row(t), NEW u, u = Requeued(t)
    PROVE  /\ Row(u) /\ u.gen = t.gen
           /\ ~(t.status = "running" /\ t.run = 0) => u = t
           /\ t.status = "running" /\ t.run = 0 =>
                /\ u.status = "queued" /\ u.run = 0 /\ u.blocked = t.blocked
                /\ u.attempts = IF t.attempts > 0 THEN t.attempts - 1 ELSE 0
<1> DEFINE a == IF t.attempts > 0 THEN t.attempts - 1 ELSE 0
<1>1. a \in 0..max_attempts /\ a < max_attempts
  BY Bounds DEF Row, TaskRow
<1> HIDE DEF a
<1>2. ASSUME NEW w, w = [t EXCEPT !.status = "queued", !.attempts = a]
      PROVE  /\ Row(w) /\ w.gen = t.gen /\ w.status = "queued" /\ w.run = t.run
             /\ w.attempts = a /\ w.blocked = t.blocked
  BY <1>1, <1>2 DEF Row, TaskRow, Terminal
<1> QED BY <1>2 DEF Requeued, a

LEMMA NextGenerationIs ==
    ASSUME NEW t, Row(t), t.gen < MaxGeneration, NEW u, u = NextGeneration(t)
    PROVE  /\ Row(u) /\ u.gen = t.gen + 1
           /\ u.status = "queued" /\ u.run = 0 /\ u.attempts = 0
<1>1. t \in TaskRow /\ t.gen + 1 \in Generations /\ 0 \in 0..max_attempts
      /\ t.status \in {"queued", "running"} \cup Terminal
  BY Bounds DEF Row, TaskRow, Generations
<1>2. u \in TaskRow
  BY <1>1 DEF NextGeneration, TaskRow
<1>3. u.gen = t.gen + 1 /\ u.status = "queued" /\ u.run = 0 /\ u.attempts = 0
  BY <1>1 DEF NextGeneration, TaskRow
<1> QED BY <1>2, <1>3, Bounds DEF Row

LEMMA CanceledEnds ==
    ASSUME NEW t, Row(t), NEW ob
    PROVE  Ends(t, Canceled(t, ob))
<1> DEFINE active == t.status \in {"queued", "running"}
           u == [t EXCEPT !.status = IF @ = "queued" THEN "canceled" ELSE @,
                          !.cancel = @ \/ active \/ ~t.sent,
                          !.quiet = @ \/ active \/ ~t.sent]
<1>1. ASSUME NEW a \in BOOLEAN, NEW b \in BOOLEAN,
             NEW w, w = [t EXCEPT !.status = IF @ = "queued" THEN "canceled" ELSE @,
                                  !.cancel = a, !.quiet = b]
      PROVE  Row(w) /\ Ends(t, w)
  BY <1>1 DEF Row, Ends, TaskRow, Terminal
<1>2. Row(u) /\ Ends(t, u)
  BY <1>1 DEF Row, TaskRow
<1>3. Ends(u, Sync(u, ob, t.gen))
  BY <1>2, SyncEnds
<1> QED BY <1>2, <1>3, EndsAgain DEF Canceled

LEMMA QuarantinedEnds ==
    ASSUME NEW t, Row(t)
    PROVE  Ends(t, QuarantinedTask(t)) /\ QuarantinedTask(t).status \in Terminal
<1>1. ASSUME NEW a \in BOOLEAN, NEW b \in BOOLEAN,
             NEW w, w = [t EXCEPT !.status = IF t.status \in {"queued", "running"}
                                               THEN "canceled" ELSE @,
                                  !.cancel = a, !.quiet = b]
      PROVE  Ends(t, w) /\ w.status \in Terminal
  BY <1>1 DEF Row, Ends, TaskRow, Terminal
<1> QED BY <1>1 DEF QuarantinedTask, Row, TaskRow

-----------------------------------------------------------------------------
(* What the helpers do to the outbox *)

\* Each generation says its last word once, at its end.
Shape(ob) ==
    /\ ob \in [Generations -> Seq(ItemRow)]
    /\ \A g \in Generations :
          /\ Len(ob[g]) <= 2
          /\ \A i \in 1..Len(ob[g]) : ob[g][i].kind = "summary" => i = Len(ob[g])
          /\ (\A i \in 1..Len(ob[g]) : ob[g][i].kind # "summary") => Len(ob[g]) <= 1

Waiting == {"prepared", "suppressed", "failed"}

\* Items are added, and some that wait are given up.
Progress(ob, ob2) ==
    /\ Shape(ob2)
    /\ \A g \in Generations :
          /\ Len(ob[g]) <= Len(ob2[g])
          /\ \A i \in 1..Len(ob[g]) :
                /\ ob2[g][i].kind = ob[g][i].kind /\ ob2[g][i].tries = ob[g][i].tries
                /\ \/ ob2[g][i].state = ob[g][i].state
                   \/ /\ ob[g][i].state \in Waiting
                      /\ ob2[g][i].state \in {"suppressed", "failed"}
          /\ \A i \in (Len(ob[g]) + 1)..Len(ob2[g]) :
                /\ ob2[g][i].state \in {"prepared", "suppressed", "failed"}
                /\ ob2[g][i].tries = 0

LEMMA ProgressStays == ASSUME NEW ob, Shape(ob) PROVE Progress(ob, ob)
<1>1. \A g \in Generations : Len(ob[g]) \in Nat
  BY LenProperties DEF Shape
<1> QED BY <1>1 DEF Shape, Progress

LEMMA ProgressAgain ==
    ASSUME NEW a, NEW b, NEW c, Shape(a), Progress(a, b), Progress(b, c)
    PROVE  Progress(a, c)
<1> SUFFICES ASSUME NEW g \in Generations
             PROVE  /\ Len(a[g]) <= Len(c[g])
                    /\ \A i \in 1..Len(a[g]) :
                          /\ c[g][i].kind = a[g][i].kind
                          /\ c[g][i].tries = a[g][i].tries
                          /\ \/ c[g][i].state = a[g][i].state
                             \/ /\ a[g][i].state \in Waiting
                                /\ c[g][i].state \in {"suppressed", "failed"}
                    /\ \A i \in (Len(a[g]) + 1)..Len(c[g]) :
                          /\ c[g][i].state \in {"prepared", "suppressed", "failed"}
                          /\ c[g][i].tries = 0
  BY DEF Progress
<1>1. Len(a[g]) \in Nat /\ Len(b[g]) \in Nat /\ Len(c[g]) \in Nat
  BY LenProperties DEF Shape, Progress
<1>2. ASSUME NEW i \in 1..Len(a[g])
      PROVE  /\ c[g][i].kind = a[g][i].kind /\ c[g][i].tries = a[g][i].tries
             /\ \/ c[g][i].state = a[g][i].state
                \/ /\ a[g][i].state \in Waiting
                   /\ c[g][i].state \in {"suppressed", "failed"}
  BY <1>1 DEF Progress
<1>3. ASSUME NEW i \in (Len(a[g]) + 1)..Len(c[g])
      PROVE  /\ c[g][i].state \in {"prepared", "suppressed", "failed"}
             /\ c[g][i].tries = 0
  <2>1. CASE i <= Len(b[g])
    <3>1. i \in (Len(a[g]) + 1)..Len(b[g]) /\ i \in 1..Len(b[g])
      BY <1>1, <2>1
    <3> QED BY <3>1 DEF Progress
  <2>2. CASE ~(i <= Len(b[g]))
    BY <1>1, <2>2 DEF Progress
  <2> QED BY <2>1, <2>2
<1>4. Len(a[g]) <= Len(c[g])
  BY <1>1 DEF Progress
<1> QED BY <1>2, <1>3, <1>4

\* A function on the indices of a sequence is one as long.
LEMMA SameLength ==
    ASSUME NEW S, NEW T, NEW s \in Seq(S), NEW f \in [DOMAIN s -> T]
    PROVE  f \in Seq(T) /\ Len(f) = Len(s)
<1>1. Len(s) \in Nat /\ DOMAIN s = 1..Len(s)
  BY LenProperties
<1>2. f \in [1..Len(s) -> T]
  BY <1>1
<1>3. f \in Seq(T)
  BY <1>1, <1>2, SeqDef
<1>4. Len(f) \in Nat /\ DOMAIN f = 1..Len(f) /\ DOMAIN f = 1..Len(s)
  BY <1>2, <1>3, LenProperties
<1> QED BY <1>1, <1>3, <1>4

\* The same items in other states.
LEMMA SameShape ==
    ASSUME NEW ob, Shape(ob), NEW ob2,
           ob2 = [g \in Generations |-> ob2[g]],
           \A g \in Generations :
              /\ ob2[g] \in [DOMAIN ob[g] -> ItemRow]
              /\ \A i \in 1..Len(ob[g]) : ob2[g][i].kind = ob[g][i].kind
    PROVE  /\ Shape(ob2)
           /\ \A g \in Generations : Len(ob[g]) \in Nat /\ Len(ob2[g]) = Len(ob[g])
<1>1. ASSUME NEW g \in Generations
      PROVE  ob2[g] \in Seq(ItemRow) /\ Len(ob2[g]) = Len(ob[g]) /\ Len(ob[g]) \in Nat
  <2>1. ob[g] \in Seq(ItemRow) /\ ob2[g] \in [DOMAIN ob[g] -> ItemRow]
    BY DEF Shape
  <2> QED BY <2>1, SameLength, LenProperties
<1>2. ob2 \in [Generations -> Seq(ItemRow)]
  BY <1>1
<1> QED BY <1>1, <1>2 DEF Shape

\* What gives up some of the items that wait.
LEMMA GivesUp ==
    ASSUME NEW ob, Shape(ob), NEW ob2,
           ob2 = [g \in Generations |-> ob2[g]],
           \A g \in Generations :
              /\ ob2[g] \in [DOMAIN ob[g] -> ItemRow]
              /\ \A i \in 1..Len(ob[g]) :
                    /\ ob2[g][i].kind = ob[g][i].kind
                    /\ ob2[g][i].tries = ob[g][i].tries
                    /\ \/ ob2[g][i].state = ob[g][i].state
                       \/ /\ ob[g][i].state \in Waiting
                          /\ ob2[g][i].state \in {"suppressed", "failed"}
    PROVE  Progress(ob, ob2)
<1>1. /\ Shape(ob2)
      /\ \A g \in Generations : Len(ob[g]) \in Nat /\ Len(ob2[g]) = Len(ob[g])
  BY SameShape
<1> QED BY <1>1 DEF Progress

States == {"prepared", "sending"} \cup Settled

LEMMA RestatedIs ==
    ASSUME NEW r \in ItemRow, NEW to \in States, NEW q, q = [r EXCEPT !.state = to]
    PROVE  q \in ItemRow /\ q.kind = r.kind /\ q.tries = r.tries /\ q.state = to
BY DEF ItemRow, States

LEMMA MoveIs ==
    ASSUME NEW s \in Seq(ItemRow), NEW from, NEW to \in States
    PROVE  /\ Move(s, from, to) \in [DOMAIN s -> ItemRow]
           /\ Move(s, from, to) \in Seq(ItemRow)
           /\ Len(Move(s, from, to)) = Len(s)
           /\ \A i \in 1..Len(s) :
                 /\ Move(s, from, to)[i].kind = s[i].kind
                 /\ Move(s, from, to)[i].tries = s[i].tries
                 /\ Move(s, from, to)[i].state =
                       IF s[i].state = from THEN to ELSE s[i].state
<1>1. DOMAIN s = 1..Len(s) /\ s \in [1..Len(s) -> ItemRow]
  BY LenProperties
<1>2. ASSUME NEW i \in DOMAIN s
      PROVE  /\ Move(s, from, to)[i] \in ItemRow
             /\ Move(s, from, to)[i].kind = s[i].kind
             /\ Move(s, from, to)[i].tries = s[i].tries
             /\ Move(s, from, to)[i].state =
                   IF s[i].state = from THEN to ELSE s[i].state
  <2>1. Move(s, from, to)[i] = IF s[i].state = from
                                 THEN [s[i] EXCEPT !.state = to] ELSE s[i]
    BY DEF Move
  <2>2. s[i] \in ItemRow
    BY <1>1
  <2> QED BY <2>1, <2>2, RestatedIs
<1>3. Move(s, from, to) = [i \in DOMAIN s |-> Move(s, from, to)[i]]
  BY DEF Move
<1>4. Move(s, from, to) \in [DOMAIN s -> ItemRow]
  BY <1>2, <1>3
<1> QED BY <1>1, <1>2, <1>4, SameLength

\* The update of the commands and timeouts.
LEMMA WithdrawnProgress ==
    ASSUME NEW ob, Shape(ob), NEW g \in Generations
    PROVE  Progress(ob, Withdrawn(ob, g))
<1> DEFINE ob2 == Withdrawn(ob, g)
<1>1. /\ ob2 = [h \in Generations |-> ob2[h]]
      /\ \A h \in Generations : ob2[h] =
            IF h = g THEN Move(ob[g], "prepared", "suppressed") ELSE ob[h]
  BY DEF Withdrawn, Shape
<1>2. ASSUME NEW h \in Generations
      PROVE  /\ ob2[h] \in [DOMAIN ob[h] -> ItemRow]
             /\ \A i \in 1..Len(ob[h]) :
                    /\ ob2[h][i].kind = ob[h][i].kind
                    /\ ob2[h][i].tries = ob[h][i].tries
                    /\ \/ ob2[h][i].state = ob[h][i].state
                       \/ /\ ob[h][i].state \in Waiting
                          /\ ob2[h][i].state \in {"suppressed", "failed"}
  <2>1. CASE h = g
    BY <1>1, <2>1, MoveIs DEF Shape, States, Settled, Waiting
  <2>2. CASE h # g
    <3>1. /\ DOMAIN ob[h] = 1..Len(ob[h]) /\ ob[h] \in [1..Len(ob[h]) -> ItemRow]
      BY LenProperties DEF Shape
    <3> QED BY <1>1, <2>2, <3>1
  <2> QED BY <2>1, <2>2
<1> HIDE DEF ob2
<1> QED BY <1>1, <1>2, GivesUp DEF ob2

\* suppress_room_media
LEMMA MediaProgress == ASSUME Shape(outbox) PROVE Progress(outbox, MediaWithdrawn)
<1>1. /\ MediaWithdrawn = [g \in Generations |-> MediaWithdrawn[g]]
      /\ \A g \in Generations : MediaWithdrawn[g] = [i \in DOMAIN outbox[g] |->
            IF outbox[g][i].kind = "media" /\ outbox[g][i].state = "prepared"
              THEN [outbox[g][i] EXCEPT !.state = "suppressed"] ELSE outbox[g][i]]
  BY DEF MediaWithdrawn
<1>2. ASSUME NEW g \in Generations, NEW i \in DOMAIN outbox[g]
      PROVE  /\ MediaWithdrawn[g][i] \in ItemRow
             /\ MediaWithdrawn[g][i].kind = outbox[g][i].kind
             /\ MediaWithdrawn[g][i].tries = outbox[g][i].tries
             /\ \/ MediaWithdrawn[g][i].state = outbox[g][i].state
                \/ /\ outbox[g][i].state \in Waiting
                   /\ MediaWithdrawn[g][i].state \in {"suppressed", "failed"}
  <2>1. outbox[g][i] \in ItemRow
    BY LenProperties DEF Shape
  <2> QED BY <1>1, <2>1, RestatedIs DEF States, Settled, Waiting
<1>3. \A g \in Generations : /\ MediaWithdrawn[g] \in [DOMAIN outbox[g] -> ItemRow]
                             /\ DOMAIN outbox[g] = 1..Len(outbox[g])
  BY <1>1, <1>2, LenProperties DEF Shape
<1> HIDE DEF MediaWithdrawn
<1> QED BY <1>1, <1>2, <1>3, GivesUp

\* One item is replaced by another of its kind.
Replaced(ob, ob2, g, i) ==
    /\ Shape(ob2)
    /\ \A h \in Generations :
          /\ Len(ob[h]) \in Nat /\ Len(ob2[h]) = Len(ob[h])
          /\ \A j \in 1..Len(ob[h]) :
                /\ ob2[h][j] \in ItemRow
                /\ ob2[h][j].kind = ob[h][j].kind
                /\ ~(h = g /\ j = i) => ob2[h][j] = ob[h][j]

LEMMA ReplacedIs ==
    ASSUME NEW ob, Shape(ob), NEW g \in Generations, NEW i \in 1..Len(ob[g]), NEW ob2,
           ob2 = [h \in Generations |-> ob2[h]],
           ob2[g] \in [DOMAIN ob[g] -> ItemRow],
           \A h \in Generations : h # g => ob2[h] = ob[h],
           \A j \in DOMAIN ob[g] : j # i => ob2[g][j] = ob[g][j],
           ob2[g][i].kind = ob[g][i].kind
    PROVE  Replaced(ob, ob2, g, i)
<1>1. \A h \in Generations : /\ ob[h] \in [DOMAIN ob[h] -> ItemRow]
                             /\ DOMAIN ob[h] = 1..Len(ob[h])
  BY LenProperties DEF Shape
<1>2. ASSUME NEW h \in Generations
      PROVE  /\ ob2[h] \in [DOMAIN ob[h] -> ItemRow]
             /\ \A j \in 1..Len(ob[h]) :
                   /\ ob2[h][j] \in ItemRow
                   /\ ob2[h][j].kind = ob[h][j].kind
                   /\ ~(h = g /\ j = i) => ob2[h][j] = ob[h][j]
  <2>1. CASE h = g
    <3>1. \A j \in DOMAIN ob[g] : ob2[g][j] \in ItemRow /\ ob2[g][j].kind = ob[g][j].kind
      BY <1>1
    <3> QED BY <1>1, <2>1, <3>1
  <2>2. CASE h # g
    BY <1>1, <2>2
  <2> QED BY <2>1, <2>2
<1>3. /\ Shape(ob2)
      /\ \A h \in Generations : Len(ob[h]) \in Nat /\ Len(ob2[h]) = Len(ob[h])
  BY <1>2, SameShape
<1> QED BY <1>2, <1>3 DEF Replaced

\* mark_outbox_state
Marked(ob, g, i, to) == [ob EXCEPT ![g][i].state = to]

LEMMA MarkedIs ==
    ASSUME NEW ob, Shape(ob), NEW g \in Generations, NEW i \in 1..Len(ob[g]),
           NEW to \in States
    PROVE  /\ Replaced(ob, Marked(ob, g, i, to), g, i)
           /\ Marked(ob, g, i, to)[g][i].tries = ob[g][i].tries
           /\ Marked(ob, g, i, to)[g][i].state = to
<1> DEFINE ob2 == Marked(ob, g, i, to)
<1>1. /\ ob[g] \in [DOMAIN ob[g] -> ItemRow] /\ DOMAIN ob[g] = 1..Len(ob[g])
      /\ DOMAIN ob = Generations /\ ob[g][i] \in ItemRow
  BY LenProperties DEF Shape
<1>2. /\ ob2 = [h \in Generations |-> ob2[h]]
      /\ ob2[g] = [j \in DOMAIN ob[g] |-> ob2[g][j]]
      /\ \A h \in Generations : h # g => ob2[h] = ob[h]
      /\ \A j \in DOMAIN ob[g] : j # i => ob2[g][j] = ob[g][j]
      /\ ob2[g][i] = [ob[g][i] EXCEPT !.state = to]
  BY <1>1 DEF Shape, Marked
<1> HIDE DEF ob2
<1>3. /\ ob2[g][i] \in ItemRow /\ ob2[g][i].kind = ob[g][i].kind
      /\ ob2[g][i].tries = ob[g][i].tries /\ ob2[g][i].state = to
  BY <1>1, <1>2, RestatedIs
<1>4. ob2[g] \in [DOMAIN ob[g] -> ItemRow]
  BY <1>1, <1>2, <1>3
<1>5. Replaced(ob, ob2, g, i)
  BY <1>2, <1>3, <1>4, ReplacedIs
<1> QED BY <1>3, <1>5 DEF ob2

LEMMA MarkProgress ==
    ASSUME NEW ob, Shape(ob), NEW g \in Generations, NEW i \in 1..Len(ob[g]),
           ob[g][i].state \in Waiting, NEW to \in {"suppressed", "failed"}
    PROVE  Progress(ob, Marked(ob, g, i, to))
<1>1. to \in States
  BY DEF States, Settled
<1>2. /\ Replaced(ob, Marked(ob, g, i, to), g, i)
      /\ Marked(ob, g, i, to)[g][i].tries = ob[g][i].tries
      /\ Marked(ob, g, i, to)[g][i].state = to
  BY <1>1, MarkedIs
<1> QED BY <1>2 DEF Progress, Replaced

\* Items are added to those of one generation.
LEMMA Extends ==
    ASSUME NEW ob, Shape(ob), NEW g \in Generations, NEW ob2,
           ob2 = [h \in Generations |-> ob2[h]],
           \A h \in Generations : h # g => ob2[h] = ob[h],
           ob2[g] \in Seq(ItemRow), Len(ob2[g]) <= 2, Len(ob[g]) <= Len(ob2[g]),
           \A i \in 1..Len(ob2[g]) : ob2[g][i].kind = "summary" => i = Len(ob2[g]),
           (\A i \in 1..Len(ob2[g]) : ob2[g][i].kind # "summary") => Len(ob2[g]) <= 1,
           \A i \in 1..Len(ob[g]) : ob2[g][i] = ob[g][i],
           \A i \in (Len(ob[g]) + 1)..Len(ob2[g]) :
              ob2[g][i].state = "prepared" /\ ob2[g][i].tries = 0
    PROVE  Progress(ob, ob2)
<1>1. \A h \in Generations : ob[h] \in Seq(ItemRow) /\ Len(ob[h]) \in Nat
  BY LenProperties DEF Shape
<1>2. ob2 \in [Generations -> Seq(ItemRow)]
  BY <1>1
<1>3. Shape(ob2)
  BY <1>2 DEF Shape
<1> QED BY <1>1, <1>3 DEF Progress

LEMMA ItemIs ==
    ASSUME NEW kind \in {"media", "question", "summary"}
    PROVE  /\ Item(kind) \in ItemRow /\ Item(kind).kind = kind
           /\ Item(kind).state = "prepared" /\ Item(kind).tries = 0
BY DEF Item, ItemRow

\* prepare_outbox
LEMMA PreparedProgress ==
    ASSUME NEW ob, Shape(ob), NEW g \in Generations, NEW media \in BOOLEAN
    PROVE  Progress(ob, Prepared(ob, g, media)) /\ HasSummary(Prepared(ob, g, media)[g])
<1> DEFINE ob2 == Prepared(ob, g, media)
           base == IF ob[g] = <<>> /\ media THEN <<Item("media")>> ELSE ob[g]
           summary == <<Item("summary")>>
<1>1. /\ ob2 = [h \in Generations |-> ob2[h]]
      /\ \A h \in Generations : h # g => ob2[h] = ob[h]
      /\ ob2[g] = IF HasSummary(ob[g]) THEN ob[g] ELSE base \o summary
  BY DEF Prepared, Shape
<1> HIDE DEF ob2
<1>2. ob[g] \in Seq(ItemRow) /\ Len(ob[g]) \in Nat /\ DOMAIN ob[g] = 1..Len(ob[g])
  BY LenProperties DEF Shape
<1>3. CASE HasSummary(ob[g])
  <2>1. ob2 = ob
    BY <1>1, <1>3 DEF Shape
  <2> QED BY <1>3, <2>1, ProgressStays DEF ob2
<1>4. CASE ~HasSummary(ob[g])
  <2>1. /\ \A i \in 1..Len(ob[g]) : ob[g][i].kind # "summary"
        /\ Len(ob[g]) <= 1
    BY <1>2, <1>4 DEF HasSummary, Shape
  <2>2. /\ Item("media") \in ItemRow /\ Item("media").kind = "media"
        /\ Item("media").state = "prepared" /\ Item("media").tries = 0
        /\ Item("summary") \in ItemRow /\ Item("summary").kind = "summary"
        /\ Item("summary").state = "prepared" /\ Item("summary").tries = 0
    BY ItemIs
  <2>3. /\ base \in Seq(ItemRow) /\ Len(base) \in Nat /\ Len(base) <= 1
        /\ Len(ob[g]) <= Len(base)
        /\ \A i \in 1..Len(ob[g]) : base[i] = ob[g][i]
        /\ \A i \in 1..Len(base) : base[i].kind # "summary"
        /\ \A i \in (Len(ob[g]) + 1)..Len(base) :
              base[i].state = "prepared" /\ base[i].tries = 0
    <3>1. CASE ob[g] = <<>> /\ media
      BY <1>2, <2>1, <2>2, <3>1
    <3>2. CASE ~(ob[g] = <<>> /\ media)
      BY <1>2, <2>1, <3>2
    <3> QED BY <3>1, <3>2
  <2>4. summary \in Seq(ItemRow) /\ Len(summary) = 1 /\ summary[1] = Item("summary")
    BY <2>2
  <2> HIDE DEF base, summary
  <2>5. ob2[g] = base \o summary
    BY <1>1, <1>4
  <2>6. /\ ob2[g] \in Seq(ItemRow) /\ Len(ob2[g]) = Len(base) + 1
        /\ \A i \in 1..Len(base) : ob2[g][i] = base[i]
        /\ ob2[g][Len(base) + 1] = Item("summary")
    BY <2>3, <2>4, <2>5, ConcatProperties
  <2>7. Progress(ob, ob2)
    <3>1. /\ Len(ob2[g]) <= 2 /\ Len(ob[g]) <= Len(ob2[g])
          /\ \A i \in 1..Len(ob2[g]) : ob2[g][i].kind = "summary" => i = Len(ob2[g])
          /\ ~(\A i \in 1..Len(ob2[g]) : ob2[g][i].kind # "summary")
      BY <1>2, <2>2, <2>3, <2>6
    <3>2. /\ \A i \in 1..Len(ob[g]) : ob2[g][i] = ob[g][i]
          /\ \A i \in (Len(ob[g]) + 1)..Len(ob2[g]) :
                ob2[g][i].state = "prepared" /\ ob2[g][i].tries = 0
      BY <1>2, <2>2, <2>3, <2>6
    <3> QED BY <1>1, <2>6, <3>1, <3>2, Extends
  <2>8. HasSummary(ob2[g])
    BY <2>2, <2>3, <2>6, LenProperties DEF HasSummary
  <2> QED BY <2>7, <2>8 DEF ob2
<1> QED BY <1>3, <1>4

\* block_on_input
Questioned(ob, g) ==
    [ob EXCEPT ![g] = IF @ = <<>> THEN <<Item("question")>> ELSE @]

LEMMA QuestionedProgress ==
    ASSUME NEW ob, Shape(ob), NEW g \in Generations
    PROVE  Progress(ob, Questioned(ob, g))
<1> DEFINE ob2 == Questioned(ob, g)
<1>1. /\ ob2 = [h \in Generations |-> ob2[h]]
      /\ \A h \in Generations : h # g => ob2[h] = ob[h]
      /\ ob2[g] = IF ob[g] = <<>> THEN <<Item("question")>> ELSE ob[g]
  BY DEF Questioned, Shape
<1> HIDE DEF ob2
<1>2. CASE ob[g] = <<>>
  <2>1. /\ ob2[g] \in Seq(ItemRow) /\ Len(ob2[g]) = 1 /\ Len(ob[g]) = 0
        /\ ob2[g][1] = Item("question") /\ ob2[g][1].kind = "question"
        /\ ob2[g][1].state = "prepared" /\ ob2[g][1].tries = 0
    <3>1. /\ Item("question") \in ItemRow /\ Item("question").kind = "question"
          /\ Item("question").state = "prepared" /\ Item("question").tries = 0
      BY ItemIs
    <3>2. ob2[g] = <<Item("question")>>
      BY <1>1, <1>2
    <3> QED BY <1>2, <3>1, <3>2
  <2>2. /\ Len(ob2[g]) <= 2 /\ Len(ob[g]) <= Len(ob2[g])
        /\ \A i \in 1..Len(ob2[g]) : ob2[g][i].kind = "summary" => i = Len(ob2[g])
        /\ (\A i \in 1..Len(ob2[g]) : ob2[g][i].kind # "summary") => Len(ob2[g]) <= 1
        /\ \A i \in 1..Len(ob[g]) : ob2[g][i] = ob[g][i]
        /\ \A i \in (Len(ob[g]) + 1)..Len(ob2[g]) :
              ob2[g][i].state = "prepared" /\ ob2[g][i].tries = 0
    BY <2>1
  <2>3. Progress(ob, ob2)
    BY <1>1, <2>1, <2>2, Extends
  <2> QED BY <2>3 DEF ob2
<1>3. CASE ob[g] # <<>>
  <2>1. ob2 = ob
    BY <1>1, <1>3 DEF Shape
  <2> QED BY <2>1, ProgressStays DEF ob2
<1> QED BY <1>2, <1>3

-----------------------------------------------------------------------------
(* What the worker's steps do to the task, the outbox and the worker *)

Rests(w) == w \in [pc : {"idle", "dead"}, gen : {0}, n : {0}]

LEMMA IdleRests == Rests(Idle) /\ Rests([Idle EXCEPT !.pc = "dead"]) /\ Idle.pc = "idle"
BY DEF Rests, Idle

LEMMA FinishIs ==
    ASSUME Shape(outbox), NEW t, Row(t), NEW status \in Terminal, Finish(t, status)
    PROVE  /\ Ends(t, task') /\ task'.status \in Terminal
           /\ Progress(outbox, outbox') /\ Rests(worker')
<1> DEFINE t2 == Completed(t, t.gen, status)
<1>1. Ends(t, t2) /\ t2.status \in Terminal /\ Row(t2)
  BY CompletedEnds DEF Ends
<1> HIDE DEF t2
<1>2. CASE /\ \E media \in Deliverable(t2) : outbox' = Prepared(outbox, t2.gen, media)
           /\ task' = Sync(t2, outbox', t2.gen) /\ worker' = Idle
  <2>1. t2.gen \in Generations
    BY <1>1 DEF Row, TaskRow
  <2>2. PICK media \in BOOLEAN : outbox' = Prepared(outbox, t2.gen, media)
    BY <1>2 DEF Deliverable
  <2>3. Progress(outbox, outbox')
    BY <2>1, <2>2, PreparedProgress
  <2>4. SameTask(t2, task')
    BY <1>1, <1>2, SyncKeeps DEF Row
  <2>5. Ends(t2, task') /\ task'.status \in Terminal
    BY <1>1, <2>4 DEF SameTask, Ends, Row
  <2> QED BY <1>1, <1>2, <2>3, <2>5, EndsAgain, IdleRests
<1>3. CASE task' = t2 /\ worker' = [Idle EXCEPT !.pc = "dead"] /\ UNCHANGED outbox
  BY <1>1, <1>3, ProgressStays, IdleRests
<1> QED BY <1>2, <1>3 DEF Finish, t2

LEMMA DropIs ==
    ASSUME Row(task), Shape(outbox), Drop
    PROVE  /\ Ends(task, task') /\ task' = task
           /\ Progress(outbox, outbox') /\ Rests(worker')
BY ProgressStays, IdleRests DEF Drop, Ends

LEMMA FinishOwnIs ==
    ASSUME Row(task), Shape(outbox), NEW status \in Terminal, FinishOwn(status)
    PROVE  /\ Ends(task, task') /\ Progress(outbox, outbox') /\ Rests(worker')
           /\ Superseded \/ task'.status \in Terminal
BY FinishIs, DropIs DEF FinishOwn

\* A run of this generation is taken off the task; of another, nothing.
Releases(t, u) ==
    /\ Row(u) /\ u.gen = t.gen /\ u.run = 0 /\ u.attempts = t.attempts
    /\ u.status \in {"queued", "canceled", "failed"} /\ u.blocked = t.blocked

LEMMA RetryOwnIs ==
    ASSUME Row(task), Shape(outbox), RetryOwn
    PROVE  /\ IF Superseded THEN task' = task ELSE Releases(task, task')
           /\ Progress(outbox, outbox') /\ Rests(worker')
<1> DEFINE t == Retried(task, worker.gen)
<1>1. /\ Row(t) /\ t.gen = task.gen
      /\ IF Superseded THEN t = task ELSE Releases(task, t)
  BY RetriedIs DEF Superseded, Releases
<1> HIDE DEF t
<1>2. /\ outbox' = IF ~Superseded /\ t.status = "failed"
                     THEN Prepared(outbox, t.gen, FALSE) ELSE outbox
      /\ task' = IF outbox' = outbox THEN t ELSE Sync(t, outbox', t.gen)
      /\ worker' = Idle
  BY DEF RetryOwn, t
<1>3. Progress(outbox, outbox')
  <2>1. t.gen \in Generations
    BY <1>1 DEF Row, TaskRow
  <2>2. Progress(outbox, Prepared(outbox, t.gen, FALSE))
    BY <2>1, PreparedProgress
  <2> QED BY <1>2, <2>2, ProgressStays
<1>4. task' = t \/ (~Superseded /\ SameTask(t, task'))
  BY <1>1, <1>2, SyncKeeps DEF Row
<1>5. IF Superseded THEN task' = task ELSE Releases(task, task')
  BY <1>1, <1>4 DEF Releases, SameTask, Row
<1> QED BY <1>2, <1>3, <1>5, IdleRests

\* The task waits for an answer.
Waits(t, u) ==
    Row(u) /\ u.gen = t.gen /\ u.run = 0 /\ u.status = "queued" /\ u.blocked

LEMMA QuestionIs ==
    ASSUME Row(task), Shape(outbox), Question
    PROVE  Waits(task, task') /\ Progress(outbox, outbox') /\ Rests(worker')
<1> DEFINE t == [task EXCEPT !.status = "queued", !.blocked = TRUE,
                             !.run = 0, !.asked = TRUE]
<1>1. /\ t \in TaskRow /\ t.gen = task.gen /\ t.run = 0
      /\ t.status = "queued" /\ t.blocked
  <2>1. task \in TaskRow /\ 0 \in 0..max_attempts
    BY Bounds DEF Row
  <2> QED BY <2>1 DEF TaskRow
<1>2. outbox' = Questioned(outbox, task.gen)
  BY DEF Question, Questioned
<1>3. task' = Sync(t, outbox', task.gen) /\ worker' = Idle
  BY DEF Question
<1> HIDE DEF t
<1>4. task.gen \in Generations
  BY DEF Row, TaskRow
<1>5. SameTask(t, task')
  BY <1>1, <1>3, SyncKeeps
<1>6. Waits(task, task')
  BY <1>1, <1>5 DEF SameTask, Waits, Row
<1> QED BY <1>2, <1>3, <1>4, <1>6, QuestionedProgress, IdleRests

LEMMA JudgeIs ==
    ASSUME Row(task), Shape(outbox), Judge
    PROVE  /\ Progress(outbox, outbox') /\ Rests(worker')
           /\ \/ Ends(task, task') /\ (Superseded \/ task'.status \in Terminal)
              \/ ~Superseded /\ Waits(task, task')
<1>1. {"succeeded", "failed"} \subseteq Terminal
  BY DEF Terminal
<1> QED BY <1>1, FinishOwnIs, DropIs, QuestionIs DEF Judge

-----------------------------------------------------------------------------
(* The inductive invariant *)

WorkerTypes == worker \in [pc : {"idle", "dead", "check", "posted", "probe", "start",
                                "created", "wait", "repair"},
                          gen : 0..MaxGeneration, n : Nat]

CommandTypes == cmd \in [op : {"none", "cancel", "modify", "retry", "media"},
                        pc : {"idle", "barrier", "barred", "stopped"},
                        gen : 0..MaxGeneration, run : 0..max_attempts]

\* What the worker holds exists, and is of no generation still to come.
WorkerHolds ==
    /\ worker.gen <= task.gen
    /\ worker.pc \in {"start", "created", "wait", "repair"} =>
          worker.gen \in Generations /\ worker.n \in 1..max_attempts
    /\ worker.pc \in {"check", "posted", "probe"} =>
          worker.gen \in Generations /\ worker.n \in 1..Len(outbox[worker.gen])
    /\ worker.pc = "check" => Current.state \in Waiting
    /\ task.status = "running" /\ task.run = 0 =>
          worker.pc \in {"start", "created"} /\ worker.gen = task.gen

\* A command that replaces the task's generation, or cancels it, is about the
\* generation it has now; there is nobody else to replace it.
CommandHolds ==
    /\ cmd.pc # "idle" => cmd.op # "none" /\ cmd.gen \in Generations
    /\ cmd.pc # "idle" /\ cmd.op # "media" => cmd.gen = task.gen
    /\ cmd.pc # "idle" /\ cmd.op \in {"modify", "retry"} => task.gen < MaxGeneration

WorkInv ==
    /\ Row(task) /\ Shape(outbox) /\ WorkerTypes /\ CommandTypes
    /\ WorkerHolds /\ CommandHolds

\* The kinds of steps, by what they do to task, outbox and worker
Turns == {<<"start", "created">>, <<"wait", "repair">>, <<"posted", "probe">>}

WorkerGoesOn ==
    \/ worker' = worker
    \/ \E turn \in Turns :
          worker.pc = turn[1] /\ worker' = [worker EXCEPT !.pc = turn[2]]
    \/ /\ Rests(worker') /\ worker.pc \notin {"posted", "probe"}
       /\ worker.pc \in {"start", "created"} => Superseded \/ task'.status \in Terminal

Quiet == Ends(task, task') /\ Progress(outbox, outbox') /\ WorkerGoesOn

Takes(k) ==
    /\ UNCHANGED <<task, outbox>> /\ worker.pc = "idle" /\ k \in Ready /\ k[1] = task.gen
    /\ worker' = [pc |-> "check", gen |-> k[1], n |-> k[2]]

Sends ==
    /\ worker.pc = "check" /\ Current.state = "prepared"
    /\ posts' = posts \cup {ItemKey} /\ UNCHANGED <<rows, api>>
    /\ outbox' = [outbox EXCEPT ![worker.gen][worker.n] = Sending(@)]
    /\ worker' = [worker EXCEPT !.pc = "posted"] /\ Ends(task, task')

Delivers(state) ==
    /\ worker.pc \in {"posted", "probe"} /\ worker' = Idle /\ Ends(task, task')
    /\ outbox' = Marked(outbox, worker.gen, worker.n, state)
    /\ posts' \subseteq posts /\ UNCHANGED rows
    /\ api' \in {api, [api EXCEPT ![ItemKey] = Searched[ItemKey]]}
    /\ state # "sending" /\ (state = "confirmed" => Searched[ItemKey] = "sent")

Claims ==
    /\ worker.pc = "idle" /\ UNCHANGED outbox /\ task' = Claimed
    /\ Recovering \/ Claimable
    /\ worker' = [pc |-> IF Recovering THEN "wait" ELSE "start", gen |-> task.gen,
                  n |-> IF Recovering THEN task.run ELSE Claimed.attempts]

\* A failed, refused or uncertain attempt leaves the task without a run.
LeavesRun ==
    /\ worker.pc \in {"start", "created", "wait"} /\ ~Superseded
    /\ Progress(outbox, outbox') /\ Rests(worker')
    /\ Releases(task, task') \/ (worker.pc = "created" /\ task' = Requeued(task))

Binds ==
    /\ worker.pc = "created" /\ ~Superseded /\ UNCHANGED outbox
    /\ task' = [task EXCEPT !.run = worker.n] /\ worker' = [worker EXCEPT !.pc = "wait"]

AsksPeople ==
    /\ worker.pc \in {"wait", "repair"} /\ ~Superseded
    /\ Waits(task, task') /\ Progress(outbox, outbox') /\ Rests(worker')

Replaces ==
    /\ cmd.pc \in {"barred", "stopped"} /\ cmd.op \in {"modify", "retry"}
    /\ cmd' = NoCommand /\ worker' = worker
    /\ task' = NextGeneration(task) /\ Progress(outbox, outbox')

Requeues ==
    /\ worker' = Idle /\ cmd' = NoCommand /\ SameTask(Requeued(task), task')
    /\ \/ InFlight = {} /\ UNCHANGED outbox
       \/ \E k \in InFlight : \E state \in Reconciled(k) :
             outbox' = Marked(outbox, k[1], k[2], state)

Quarantines ==
    /\ worker' = Idle /\ cmd' = NoCommand
    /\ Ends(task, task') /\ task'.status \in Terminal
    /\ outbox' = QuarantinedItems(outbox)

\* What is left alone by all steps but those that deliver, or hand over.
Apart == UNCHANGED <<posts, rows, api>>

LEMMA ItemIsThere ==
    ASSUME WorkInv, worker.pc \in {"check", "posted", "probe"}
    PROVE  /\ worker.gen \in Generations /\ worker.n \in 1..Len(outbox[worker.gen])
           /\ ItemKey \in ItemKeys /\ ItemKey = <<worker.gen, worker.n>>
           /\ worker.n \in DOMAIN outbox[worker.gen]
<1>1. worker.gen \in Generations /\ worker.n \in 1..Len(outbox[worker.gen])
  BY DEF WorkInv, WorkerHolds
<1>2. /\ Len(outbox[worker.gen]) \in Nat /\ Len(outbox[worker.gen]) <= 2
      /\ DOMAIN outbox[worker.gen] = 1..Len(outbox[worker.gen])
  BY <1>1, LenProperties DEF WorkInv, Shape
<1> QED BY <1>1, <1>2 DEF ItemKey, ItemKeys

LEMMA ReadyIsThere ==
    ASSUME Shape(outbox), NEW k \in Ready
    PROVE  /\ k[1] \in Generations /\ k[2] \in 1..Len(outbox[k[1]])
           /\ outbox[k[1]][k[2]].state \in Waiting
BY LenProperties DEF Waiting, Shape, Ready, ItemKeys

\* Marking an item of the outbox ends nothing.
LEMMA MarkEnds ==
    ASSUME Row(task), NEW k, NEW state, Mark(k, state)
    PROVE  Ends(task, task') /\ outbox' = Marked(outbox, k[1], k[2], state)
BY SyncEnds DEF Mark, Marked

LEMMA DeliverEffects ==
    ASSUME WorkInv
    PROVE  /\ \A k \in ItemKeys : DeliverBegins(k) => Apart /\ (Quiet \/ Takes(k))
           /\ DeliverChecks => (Quiet /\ Apart) \/ Sends
           /\ DeliverHears \/ DeliverNotPosted \/ DeliverProbes =>
                 \E state \in States : Delivers(state)
           /\ DeliverAsks => Quiet /\ Apart
<1>1. Row(task) /\ Shape(outbox)
  BY DEF WorkInv
<1>2. Progress(outbox, outbox) /\ Ends(task, task)
  BY <1>1, ProgressStays DEF Ends
<1>3. ASSUME NEW k \in ItemKeys, DeliverBegins(k)
      PROVE  Apart /\ (Quiet \/ Takes(k))
  <2>1. Apart
    BY <1>3 DEF DeliverBegins, Apart, apiVars
  <2>2. ASSUME NEW state \in {"suppressed", "failed"}, Mark(k, state), UNCHANGED worker
        PROVE  Quiet
    <3>1. Progress(outbox, Marked(outbox, k[1], k[2], state))
      BY <1>1, <1>3, ReadyIsThere, MarkProgress DEF DeliverBegins
    <3> QED BY <1>1, <2>2, <3>1, MarkEnds DEF Quiet, WorkerGoesOn
  <2>3. CASE /\ task.gen = k[1]
             /\ worker' = [pc |-> "check", gen |-> k[1], n |-> k[2]]
             /\ UNCHANGED <<task, outbox>>
    <3>1. worker.pc = "idle" /\ k \in Ready
      BY <1>3 DEF DeliverBegins, WorkerIdle
    <3> QED BY <2>1, <2>3, <3>1 DEF Takes
  <2> QED BY <1>3, <2>1, <2>2, <2>3 DEF DeliverBegins
<1>4. ASSUME DeliverChecks PROVE (Quiet /\ Apart) \/ Sends
  <2>1. /\ worker.pc = "check" /\ worker.gen \in Generations
        /\ worker.n \in 1..Len(outbox[worker.gen]) /\ ItemKey = <<worker.gen, worker.n>>
    BY <1>4, ItemIsThere DEF DeliverChecks
  <2>2. UNCHANGED <<rows, api>>
    BY <1>4 DEF DeliverChecks
  <2>3. CASE Drop /\ UNCHANGED posts
    BY <1>2, <2>1, <2>2, <2>3, IdleRests
    DEF Drop, Quiet, WorkerGoesOn, Apart
  <2>4. CASE Mark(ItemKey, "suppressed") /\ worker' = Idle /\ UNCHANGED posts
    <3>1. outbox[worker.gen][worker.n].state \in Waiting
      BY <2>1 DEF WorkInv, WorkerHolds, Current
    <3>2. Progress(outbox, Marked(outbox, worker.gen, worker.n, "suppressed"))
      BY <1>1, <2>1, <3>1, MarkProgress
    <3>3. /\ Ends(task, task')
          /\ outbox' = Marked(outbox, worker.gen, worker.n, "suppressed")
      BY <1>1, <2>1, <2>4, MarkEnds
    <3> QED BY <2>1, <2>2, <2>4, <3>2, <3>3, IdleRests DEF Quiet, WorkerGoesOn, Apart
  <2>5. CASE /\ Current.state = "prepared" /\ Post
             /\ outbox' = [outbox EXCEPT ![worker.gen][worker.n] = Sending(@)]
             /\ task' = Sync(task, outbox', worker.gen)
             /\ worker' = [worker EXCEPT !.pc = "posted"]
    BY <1>1, <2>1, <2>2, <2>5, SyncEnds DEF Sends, Post
  <2> QED BY <1>4, <2>3, <2>4, <2>5 DEF DeliverChecks
<1>5. ASSUME DeliverHears \/ DeliverNotPosted \/ DeliverProbes
      PROVE  \E state \in States : Delivers(state)
  <2>1. /\ worker.pc \in {"posted", "probe"} /\ worker.gen \in Generations
        /\ worker.n \in 1..Len(outbox[worker.gen]) /\ ItemKey = <<worker.gen, worker.n>>
    BY <1>5, ItemIsThere DEF DeliverHears, DeliverNotPosted, DeliverProbes
  <2>2. PICK state \in States : /\ Deliver(state) /\ state # "sending"
                                /\ state = "confirmed" => Searched[ItemKey] = "sent"
    <3>1. /\ Verdict(ItemKey) \in States /\ Verdict(ItemKey) # "sending"
          /\ Verdict(ItemKey) = "confirmed" => Searched[ItemKey] = "sent"
      BY DEF Verdict, States, Settled
    <3>2. /\ "uncertain" \in States /\ "prepared" \in States /\ "failed" \in States
          /\ {"uncertain", "prepared", "failed"} \cap {"confirmed", "sending"} = {}
      BY DEF States, Settled
    <3> QED BY <1>5, <3>1, <3>2 DEF DeliverHears, DeliverNotPosted, DeliverProbes
  <2>3. /\ Mark(ItemKey, state) /\ worker' = Idle /\ UNCHANGED rows
    BY <2>2 DEF Deliver
  <2>4. /\ posts' \subseteq posts
        /\ api' \in {api, [api EXCEPT ![ItemKey] = Searched[ItemKey]]}
    BY <1>5 DEF DeliverHears, DeliverNotPosted, DeliverProbes
  <2>5. /\ Ends(task, task')
        /\ outbox' = Marked(outbox, worker.gen, worker.n, state)
    BY <1>1, <2>1, <2>3, MarkEnds
  <2> QED BY <2>1, <2>2, <2>3, <2>4, <2>5 DEF Delivers
<1>6. ASSUME DeliverAsks PROVE Quiet /\ Apart
  BY <1>2, <1>6 DEF DeliverAsks, Quiet, WorkerGoesOn, Turns, Apart, apiVars, taskVars
<1> QED BY <1>3, <1>4, <1>5, <1>6

LEMMA ClaimedIs ==
    ASSUME Row(task), Recovering \/ Claimable
    PROVE  /\ Row(Claimed) /\ Claimed.gen = task.gen /\ Claimed.status = "running"
           /\ Claimed.run = task.run
           /\ Claimed.attempts = IF Recovering THEN task.attempts ELSE task.attempts + 1
<1>1. CASE Recovering
  BY <1>1 DEF Claimed, Recovering
<1>2. CASE ~Recovering
  <2>1. task \in TaskRow /\ task.attempts + 1 \in 0..max_attempts
    BY <1>2, Bounds DEF Claimable, Row, TaskRow
  <2>2. /\ Claimed \in TaskRow /\ Claimed.gen = task.gen /\ Claimed.status = "running"
        /\ Claimed.run = task.run /\ Claimed.attempts = task.attempts + 1
    BY <1>2, <2>1 DEF Claimed, TaskRow
  <2> QED BY <1>2, <2>2 DEF Row
<1> QED BY <1>1, <1>2

LEMMA BoundIs ==
    ASSUME Row(task), NEW n \in 1..max_attempts, NEW t, t = [task EXCEPT !.run = n]
    PROVE  /\ Row(t) /\ t.gen = task.gen /\ t.status = task.status /\ t.run = n
           /\ t.attempts = task.attempts /\ t.blocked = task.blocked
<1>1. task \in TaskRow /\ n \in 0..max_attempts
  BY Bounds DEF Row
<1>2. /\ t \in TaskRow /\ t.gen = task.gen /\ t.status = task.status /\ t.run = n
      /\ t.attempts = task.attempts /\ t.blocked = task.blocked
  BY <1>1 DEF TaskRow
<1> QED BY <1>2 DEF Row

\* The steps of the worker that are about runs
LEMMA RunEffects ==
    ASSUME WorkInv
    PROVE  /\ ExpireBlocked \/ PrepareTerminal \/ OverLimit \/ StartPosts
                 \/ CancelWatch \/ WaitBreaks \/ WaitTimesOut => Quiet
           /\ Claim => Quiet \/ Claims
           /\ StartAnswered => Quiet \/ Binds \/ LeavesRun
           /\ StartRefused \/ StartUncertain \/ WaitEndsUnaware \/ WaitMissing =>
                 Quiet \/ LeavesRun
           /\ WaitEnds => Quiet \/ LeavesRun \/ AsksPeople
           /\ RepairEnds => Quiet \/ AsksPeople
<1>1. Row(task) /\ Shape(outbox) /\ task.gen \in Generations /\ WorkerTypes
  BY DEF WorkInv, Row, TaskRow
<1>2. Progress(outbox, outbox) /\ Ends(task, task)
  BY <1>1, ProgressStays DEF Ends
<1>3. {"failed", "canceled", "succeeded"} = Terminal
  BY DEF Terminal
<1>4. ASSUME ExpireBlocked PROVE Quiet
  <2> DEFINE w == Withdrawn(outbox, task.gen)
             t == [task EXCEPT !.status = "failed", !.blocked = FALSE]
  <2>1. Progress(outbox, w)
    BY <1>1, WithdrawnProgress
  <2> HIDE DEF w
  <2>2. Shape(w)
    BY <2>1 DEF Progress
  <2>3. Progress(w, Prepared(w, task.gen, FALSE))
    BY <1>1, <2>2, PreparedProgress
  <2>4. Progress(outbox, outbox')
    BY <1>1, <1>4, <2>1, <2>3, ProgressAgain DEF ExpireBlocked, w
  <2>5. t \in TaskRow /\ t.gen = task.gen /\ t.status = "failed"
    BY <1>1, <1>3 DEF Row, TaskRow
  <2>6. task' = Sync(t, Prepared(Withdrawn(outbox, task.gen), task.gen, FALSE), task.gen)
    BY <1>4 DEF ExpireBlocked
  <2> HIDE DEF t
  <2>7. Row(t) /\ Ends(task, t)
    BY <1>3, <2>5 DEF Ends, Row
  <2>8. Ends(t, task')
    BY <2>6, <2>7, SyncEnds
  <2>9. Ends(task, task')
    BY <2>7, <2>8, EndsAgain
  <2> QED BY <1>4, <2>4, <2>9 DEF ExpireBlocked, Quiet, WorkerGoesOn, handlerVars
<1>5. ASSUME PrepareTerminal PROVE Quiet
  BY <1>1, <1>5, PreparedProgress, SyncEnds
  DEF PrepareTerminal, Deliverable, Quiet, WorkerGoesOn, handlerVars
<1>6. ASSUME OverLimit PROVE Quiet
  <2>1. Ends(task, task')
    BY <1>1, <1>6 DEF OverLimit, Ends, Row, TaskRow
  <2> QED BY <1>2, <1>6, <2>1 DEF OverLimit, Quiet, WorkerGoesOn
<1>7. ASSUME StartPosts PROVE Quiet
  BY <1>2, <1>7 DEF StartPosts, Quiet, WorkerGoesOn, Turns
<1>8. ASSUME CancelWatch PROVE Quiet
  BY <1>2, <1>8 DEF CancelWatch, Quiet, WorkerGoesOn
<1>9. ASSUME WaitBreaks PROVE Quiet
  BY <1>1, <1>9, DropIs DEF WaitBreaks, Quiet, WorkerGoesOn
<1>10. ASSUME WaitTimesOut PROVE Quiet
  BY <1>1, <1>3, <1>10, FinishOwnIs DEF WaitTimesOut, Quiet, WorkerGoesOn
<1>11. ASSUME Claim PROVE Quiet \/ Claims
  <2>1. worker.pc = "idle" /\ (Recovering \/ Claimable)
    BY <1>11 DEF Claim, WorkerIdle
  <2>2. Row(Claimed) /\ Claimed.gen = task.gen
    BY <1>1, <2>1, ClaimedIs
  <2>3. ASSUME NEW status \in Terminal, Finish(Claimed, status) PROVE Quiet
    <3>1. /\ Ends(Claimed, task') /\ task'.status \in Terminal
          /\ Progress(outbox, outbox') /\ Rests(worker')
      BY <1>1, <2>2, <2>3, FinishIs
    <3> QED BY <2>1, <2>2, <3>1 DEF Quiet, Ends, WorkerGoesOn
  <2> QED BY <1>3, <1>11, <2>1, <2>3 DEF Claim, Claims
<1>12. ASSUME RetryOwn, worker.pc \in {"start", "created", "wait"} PROVE Quiet \/ LeavesRun
  BY <1>1, <1>2, <1>12, RetryOwnIs DEF Quiet, LeavesRun, WorkerGoesOn
<1>13. ASSUME StartAnswered PROVE Quiet \/ Binds \/ LeavesRun
  <2>1. ASSUME FinishOwn("canceled") PROVE Quiet
    BY <1>1, <1>3, <1>13, <2>1, FinishOwnIs DEF StartAnswered, Quiet, WorkerGoesOn
  <2>2. FinishOwn("canceled") \/ RetryOwn \/ Binds
    BY <1>13 DEF StartAnswered, Binds
  <2> QED BY <1>12, <1>13, <2>1, <2>2 DEF StartAnswered
<1>14. ASSUME StartUncertain PROVE Quiet \/ LeavesRun
  BY <1>2, <1>14, IdleRests DEF StartUncertain, Quiet, LeavesRun, WorkerGoesOn
<1>15. ASSUME Judge, worker.pc \in {"wait", "repair"} PROVE Quiet \/ AsksPeople
  BY <1>1, <1>15, JudgeIs DEF Quiet, AsksPeople, WorkerGoesOn
<1>16. ASSUME WaitEnds PROVE Quiet \/ LeavesRun \/ AsksPeople
  <2>1. worker.pc = "wait"
    BY <1>16 DEF WaitEnds
  <2>2. ASSUME NEW status \in Terminal, FinishOwn(status) PROVE Quiet
    BY <1>1, <2>1, <2>2, FinishOwnIs DEF Quiet, WorkerGoesOn
  <2>3. ASSUME Drop PROVE Quiet
    BY <1>1, <2>1, <2>3, DropIs DEF Quiet, WorkerGoesOn
  <2>4. ASSUME worker' = [worker EXCEPT !.pc = "repair"], UNCHANGED <<task, outbox>>
        PROVE  Quiet
    BY <1>2, <2>1, <2>4 DEF Quiet, WorkerGoesOn, Turns
  <2> QED BY <1>3, <1>12, <1>15, <1>16, <2>1, <2>2, <2>3, <2>4 DEF WaitEnds
<1> QED BY <1>4, <1>5, <1>6, <1>7, <1>8, <1>9, <1>10, <1>11, <1>12, <1>13, <1>14,
           <1>15, <1>16 DEF StartRefused, WaitEndsUnaware, WaitMissing, RepairEnds

LEMMA CancelEnds ==
    ASSUME WorkInv, CancelTask
    PROVE  Ends(task, task') /\ Progress(outbox, outbox')
BY CanceledEnds, WithdrawnProgress DEF WorkInv, Row, TaskRow, CancelTask

\* A revision or a retry: what it does if it starts no new generation, too.
LEMMA ReviseIs ==
    ASSUME WorkInv, Revise \/ Retry
    PROVE  \/ task' = NextGeneration(task) /\ Progress(outbox, outbox')
           \/ Ends(task, task') /\ Progress(outbox, outbox')
<1>1. Row(task) /\ Shape(outbox) /\ task.gen \in Generations
  BY DEF WorkInv, Row, TaskRow
<1>2. Progress(outbox, outbox) /\ Ends(task, task)
        /\ Progress(outbox, Withdrawn(outbox, task.gen))
  BY <1>1, ProgressStays, WithdrawnProgress DEF Ends
<1>3. ASSUME ~Rotates, task' = [task EXCEPT !.blocked = FALSE, !.cancel = FALSE]
      PROVE  Ends(task, task')
  <2>1. /\ task' \in TaskRow /\ task'.gen = task.gen /\ task'.status = task.status
        /\ task'.run = task.run /\ task'.attempts = task.attempts /\ task'.blocked = FALSE
    BY <1>1, <1>3 DEF Row, TaskRow
  <2>2. task.blocked = FALSE
    BY <1>1, <1>3 DEF Rotates, Row, TaskRow
  <2> QED BY <1>1, <2>1, <2>2 DEF Ends, Row
<1> QED BY <1>2, <1>3 DEF Revise, Retry

LEMMA CommandEffects ==
    ASSUME WorkInv
    PROVE  /\ \A op \in {"cancel", "modify", "retry", "media"} : CommandBegins(op) => Quiet
           /\ CommandBars \/ CommandFails \/ CommandStopsRun => Quiet
           /\ CommandActs => Quiet \/ Replaces
           /\ StopBars \/ StopCancels \/ StopFails => Quiet
<1>1. Row(task) /\ Shape(outbox) /\ CommandTypes /\ CommandHolds
  BY DEF WorkInv
<1>2. Progress(outbox, outbox) /\ Ends(task, task)
  BY <1>1, ProgressStays DEF Ends
<1>3. ASSUME NEW op \in {"cancel", "modify", "retry", "media"}, CommandBegins(op)
      PROVE  Quiet
  <2>1. UNCHANGED worker
    BY <1>3 DEF CommandBegins
  <2>2. CASE NeedsBarrier(op)
    BY <1>2, <1>3, <2>1, <2>2 DEF CommandBegins, Quiet, WorkerGoesOn
  <2>3. CASE ~NeedsBarrier(op)
    <3>1. ~Rotates /\ Revise
      BY <1>3, <2>3 DEF CommandBegins, NeedsBarrier
    <3>2. UNCHANGED outbox
      BY <3>1 DEF Revise
    <3>3. task' = [task EXCEPT !.blocked = FALSE, !.cancel = FALSE]
      BY <3>1 DEF Revise
    <3>4. Ends(task, task')
      <4>1. /\ task' \in TaskRow /\ task'.gen = task.gen /\ task'.status = task.status
            /\ task'.run = task.run /\ task'.attempts = task.attempts
            /\ task'.blocked = FALSE
        BY <1>1, <3>3 DEF Row, TaskRow
      <4>2. task.blocked = FALSE
        BY <1>1, <3>1 DEF Rotates, Row, TaskRow
      <4> QED BY <1>1, <4>1, <4>2 DEF Ends, Row
    <3> QED BY <1>2, <2>1, <3>2, <3>4 DEF Quiet, WorkerGoesOn
  <2> QED BY <2>2, <2>3
<1>4. ASSUME CommandBars \/ CommandFails \/ CommandStopsRun \/ StopBars \/ StopFails
      PROVE  Quiet
  <2>1. UNCHANGED <<task, outbox, worker>>
    BY <1>4 DEF CommandBars, CommandFails, CommandStopsRun, StopBars, StopFails, taskVars
  <2> QED BY <1>2, <2>1 DEF Quiet, WorkerGoesOn
<1>5. ASSUME CommandActs PROVE Quiet \/ Replaces
  <2>1. /\ cmd.pc \in {"barred", "stopped"} /\ UNCHANGED worker /\ cmd' = NoCommand
        /\ cmd.op \in {"cancel", "modify", "retry", "media"}
    BY <1>1, <1>5 DEF CommandActs, CommandHolds, CommandTypes
  <2>2. CASE cmd.op = "cancel"
    <3>1. CancelTask
      BY <1>5, <2>2 DEF CommandActs
    <3> QED BY <2>1, <3>1, CancelEnds DEF Quiet, WorkerGoesOn
  <2>3. CASE cmd.op \in {"modify", "retry"}
    <3>1. Revise \/ Retry
      BY <1>5, <2>3 DEF CommandActs
    <3> QED BY <2>1, <2>3, <3>1, ReviseIs DEF Quiet, Replaces, WorkerGoesOn
  <2>4. CASE cmd.op = "media"
    <3>1. SuppressMedia
      BY <1>5, <2>4 DEF CommandActs
    <3>2. Progress(outbox, outbox')
      BY <1>1, <3>1, MediaProgress DEF SuppressMedia
    <3>3. Ends(task, task')
      BY <1>1, <1>2, <3>1, SyncEnds DEF SuppressMedia
    <3> QED BY <2>1, <3>2, <3>3 DEF Quiet, WorkerGoesOn
  <2> QED BY <2>1, <2>2, <2>3, <2>4
<1>6. ASSUME StopCancels PROVE Quiet
  <2>1. UNCHANGED <<task, outbox>> \/ CancelTask
    BY <1>6 DEF StopCancels
  <2>2. UNCHANGED worker
    BY <1>6 DEF StopCancels
  <2> QED BY <1>2, <2>1, <2>2, CancelEnds DEF Quiet, WorkerGoesOn
<1> QED BY <1>3, <1>4, <1>5, <1>6

LEMMA OtherEffects ==
    ASSUME WorkInv
    PROVE  /\ HermesStep => Quiet
           /\ \A k \in ItemKeys : ApiHandles(k) => Quiet
           /\ Restart => Requeues
           /\ CutOver => Quarantines
<1>1. Row(task) /\ Shape(outbox)
  BY DEF WorkInv
<1>2. Progress(outbox, outbox) /\ Ends(task, task)
  BY <1>1, ProgressStays DEF Ends
<1>3. ASSUME NEW k \in RunKeys, HermesCreates(k) \/ HermesEnds(k) PROVE Quiet
  BY <1>2, <1>3
  DEF HermesCreates, HermesEnds, taskVars, handlerVars, Quiet, WorkerGoesOn
<1>4. ASSUME NEW k \in RunKeys, HermesUsesTools(k) PROVE Quiet
  <2>1. Ends(task, Registered)
    <3>1. CASE Registered = task
      BY <1>2, <3>1
    <3>2. CASE Registered = [task EXCEPT !.file = TRUE]
      BY <1>1, <3>2 DEF Ends, Row, TaskRow
    <3> QED BY <3>1, <3>2 DEF Registered
  <2> QED BY <1>2, <1>4, <2>1 DEF HermesUsesTools, handlerVars, Quiet, WorkerGoesOn
<1>5. ASSUME NEW k \in ItemKeys, ApiHandles(k) PROVE Quiet
  BY <1>2, <1>5 DEF ApiHandles, taskVars, handlerVars, Quiet, WorkerGoesOn
<1>6. ASSUME Restart PROVE Requeues
  <2>1. Row(Requeued(task)) /\ SameTask(Requeued(task), Requeued(task))
    BY <1>1, RequeuedIs DEF Row, SameTask
  <2>2. ASSUME NEW k \in InFlight, Reconcile(k)
        PROVE  /\ SameTask(Requeued(task), task')
               /\ \E state \in Reconciled(k) : outbox' = Marked(outbox, k[1], k[2], state)
    <3>1. PICK state \in Reconciled(k) :
             /\ outbox' = [outbox EXCEPT ![k[1]][k[2]].state = state]
             /\ task' = Sync(Requeued(task), outbox', k[1])
      BY <2>2 DEF Reconcile
    <3>2. outbox' = Marked(outbox, k[1], k[2], state)
      BY <3>1 DEF Marked
    <3>3. SameTask(Requeued(task), task')
      BY <2>1, <3>1, SyncKeeps DEF Row
    <3> QED BY <3>2, <3>3
  <2> QED BY <1>6, <2>1, <2>2 DEF Restart, Requeues, ProcessRestarts
<1>7. ASSUME CutOver PROVE Quarantines
  <2> DEFINE t == QuarantinedTask(task)
  <2>1. Ends(task, t) /\ t.status \in Terminal
    BY <1>1, QuarantinedEnds
  <2> HIDE DEF t
  <2>2. task' = t \/ \E g \in Generations : task' = Sync(t, outbox', g)
    BY <1>7 DEF CutOver, t
  <2>3. task' = t \/ SameTask(t, task')
    BY <2>1, <2>2, SyncKeeps DEF Ends, Row
  <2>4. Ends(task, task') /\ task'.status \in Terminal
    BY <2>1, <2>3 DEF SameTask, Ends, Row
  <2> QED BY <1>7, <2>4 DEF CutOver, ProcessRestarts, Quarantines
<1> QED BY <1>3, <1>4, <1>5, <1>6, <1>7 DEF HermesStep

\* Every step is of one of the kinds.
Kinds ==
    \/ Quiet \/ (\E k \in ItemKeys : Takes(k)) \/ Sends
    \/ (\E state \in States : Delivers(state)) \/ Claims \/ LeavesRun \/ Binds
    \/ AsksPeople \/ Replaces \/ Requeues \/ Quarantines

LEMMA StepKinds == ASSUME WorkInv, Next PROVE Kinds
<1>1. CASE WorkerStep
  BY <1>1, DeliverEffects, RunEffects DEF WorkerStep, Kinds
<1>2. CASE CommandStep
  BY <1>2, CommandEffects DEF CommandStep, Kinds
<1>3. CASE HermesStep \/ (\E k \in ItemKeys : ApiHandles(k)) \/ Restart \/ CutOver
  BY <1>3, OtherEffects DEF Kinds
<1> QED BY <1>1, <1>2, <1>3 DEF Next

\* An item that is posted
LEMMA SendingIs ==
    ASSUME NEW r \in ItemRow
    PROVE  /\ Sending(r) \in ItemRow /\ Sending(r).kind = r.kind
           /\ Sending(r).state = "sending" /\ Sending(r).tries > 0
<1>1. ASSUME NEW n \in Nat, NEW q, q = [r EXCEPT !.state = "sending", !.tries = n]
      PROVE  q \in ItemRow /\ q.kind = r.kind /\ q.state = "sending" /\ q.tries = n
  BY <1>1 DEF ItemRow
<1>2. r.tries + 1 \in Nat /\ r.tries + 1 > 0
  BY DEF ItemRow
<1>3. Sending(r) = [r EXCEPT !.state = "sending", !.tries = r.tries + 1]
  BY DEF Sending
<1> QED BY <1>1, <1>2, <1>3

LEMMA SendReplaces ==
    ASSUME WorkInv, Sends
    PROVE  /\ Replaced(outbox, outbox', worker.gen, worker.n)
           /\ outbox'[worker.gen][worker.n].state = "sending"
           /\ outbox'[worker.gen][worker.n].tries > 0
<1> DEFINE g == worker.gen
           i == worker.n
<1>1. Shape(outbox) /\ g \in Generations /\ i \in 1..Len(outbox[g])
  BY ItemIsThere DEF Sends, WorkInv
<1>2. /\ outbox[g] \in [DOMAIN outbox[g] -> ItemRow] /\ DOMAIN outbox[g] = 1..Len(outbox[g])
      /\ DOMAIN outbox = Generations /\ outbox[g][i] \in ItemRow
  BY <1>1, LenProperties DEF Shape
<1>3. outbox' = [outbox EXCEPT ![g][i] = Sending(outbox[g][i])]
  BY DEF Sends
<1>4. /\ outbox' = [h \in Generations |-> outbox'[h]]
      /\ outbox'[g] = [j \in DOMAIN outbox[g] |-> outbox'[g][j]]
      /\ \A h \in Generations : h # g => outbox'[h] = outbox[h]
      /\ \A j \in DOMAIN outbox[g] : j # i => outbox'[g][j] = outbox[g][j]
      /\ outbox'[g][i] = Sending(outbox[g][i])
  BY <1>1, <1>2, <1>3 DEF Shape
<1>5. outbox'[g] \in [DOMAIN outbox[g] -> ItemRow]
  <2>1. \A j \in DOMAIN outbox[g] : outbox'[g][j] \in ItemRow
    BY <1>2, <1>4, SendingIs
  <2> QED BY <1>4, <2>1
<1>6. Replaced(outbox, outbox', g, i)
  BY <1>1, <1>2, <1>4, <1>5, SendingIs, ReplacedIs
<1> QED BY <1>2, <1>4, <1>6, SendingIs

\* quarantine_legacy_runtime
LEMMA QuarantinedIs ==
    ASSUME NEW ob, Shape(ob)
    PROVE  /\ Shape(QuarantinedItems(ob))
           /\ \A g \in Generations :
                 /\ Len(QuarantinedItems(ob)[g]) = Len(ob[g])
                 /\ \A i \in 1..Len(ob[g]) :
                       /\ QuarantinedItems(ob)[g][i].tries = ob[g][i].tries
                       /\ QuarantinedItems(ob)[g][i].state =
                             CASE ob[g][i].state = "prepared" -> "suppressed"
                               [] ob[g][i].state = "sending"  -> "uncertain"
                               [] OTHER                       -> ob[g][i].state
<1> DEFINE ob2 == QuarantinedItems(ob)
<1>1. ob2 = [g \in Generations |-> ob2[g]]
  BY DEF QuarantinedItems
<1>2. ASSUME NEW g \in Generations
      PROVE  /\ ob2[g] \in [DOMAIN ob[g] -> ItemRow]
             /\ Len(ob2[g]) = Len(ob[g])
             /\ \A i \in 1..Len(ob[g]) :
                    /\ ob2[g][i].kind = ob[g][i].kind
                    /\ ob2[g][i].tries = ob[g][i].tries
                    /\ ob2[g][i].state =
                          CASE ob[g][i].state = "prepared" -> "suppressed"
                            [] ob[g][i].state = "sending"  -> "uncertain"
                            [] OTHER                       -> ob[g][i].state
  <2> DEFINE m == Move(ob[g], "prepared", "suppressed")
  <2>1. ob[g] \in Seq(ItemRow) /\ {"suppressed", "uncertain"} \subseteq States
    BY DEF Shape, States, Settled
  <2>2. /\ m \in Seq(ItemRow) /\ Len(m) = Len(ob[g])
        /\ \A i \in 1..Len(ob[g]) :
              /\ m[i].kind = ob[g][i].kind /\ m[i].tries = ob[g][i].tries
              /\ m[i].state = IF ob[g][i].state = "prepared" THEN "suppressed"
                                                            ELSE ob[g][i].state
    BY <2>1, MoveIs
  <2>3. ob2[g] = Move(m, "sending", "uncertain")
    BY DEF QuarantinedItems
  <2> HIDE DEF m, ob2
  <2>4. /\ ob2[g] \in [DOMAIN m -> ItemRow] /\ Len(ob2[g]) = Len(m)
        /\ \A i \in 1..Len(m) :
              /\ ob2[g][i].kind = m[i].kind /\ ob2[g][i].tries = m[i].tries
              /\ ob2[g][i].state = IF m[i].state = "sending" THEN "uncertain"
                                                            ELSE m[i].state
    BY <2>1, <2>2, <2>3, MoveIs
  <2>5. DOMAIN m = DOMAIN ob[g]
    BY <2>1, <2>2, LenProperties
  <2> QED BY <2>2, <2>4, <2>5
<1> HIDE DEF ob2
<1>3. Shape(ob2)
  BY <1>1, <1>2, SameShape
<1> QED BY <1>2, <1>3 DEF ob2

\* The row of the task after a step of each kind
LEMMA KindsKeepRow ==
    ASSUME WorkInv, Kinds
    PROVE  /\ Row(task') /\ Shape(outbox')
           /\ ~Replaces => task'.gen = task.gen
           /\ Replaces => task'.gen = task.gen + 1 /\ task.gen < MaxGeneration
<1>1. Row(task) /\ Shape(outbox)
  BY DEF WorkInv
<1> DEFINE Kept == Row(task') /\ Shape(outbox') /\ task'.gen = task.gen
<1>2. ASSUME Quiet PROVE Kept
  BY <1>2 DEF Quiet, Ends, Progress
<1>3. ASSUME NEW k \in ItemKeys, Takes(k) PROVE Kept
  BY <1>1, <1>3 DEF Takes
<1>4. ASSUME Sends PROVE Kept
  BY <1>4, SendReplaces DEF Sends, Ends, Replaced
<1>5. ASSUME NEW state \in States, Delivers(state) PROVE Kept
  <2>1. worker.gen \in Generations /\ worker.n \in 1..Len(outbox[worker.gen])
    BY <1>5, ItemIsThere DEF Delivers
  <2>2. Shape(outbox')
    BY <1>1, <1>5, <2>1, MarkedIs DEF Delivers, Replaced
  <2> QED BY <1>5, <2>2 DEF Delivers, Ends
<1>6. ASSUME Claims PROVE Kept
  BY <1>1, <1>6, ClaimedIs DEF Claims
<1>7. ASSUME LeavesRun PROVE Kept
  BY <1>1, <1>7, RequeuedIs DEF LeavesRun, Releases, Progress
<1>8. ASSUME Binds PROVE Kept
  <2>1. worker.n \in 1..max_attempts
    BY <1>8 DEF Binds, WorkInv, WorkerHolds
  <2> QED BY <1>1, <1>8, <2>1, BoundIs DEF Binds
<1>9. ASSUME AsksPeople PROVE Kept
  BY <1>9 DEF AsksPeople, Waits, Progress
<1>10. ASSUME Replaces
       PROVE  /\ Row(task') /\ Shape(outbox')
              /\ task'.gen = task.gen + 1 /\ task.gen < MaxGeneration
  <2>1. task.gen < MaxGeneration
    BY <1>10 DEF Replaces, WorkInv, CommandHolds
  <2> QED BY <1>1, <1>10, <2>1, NextGenerationIs DEF Replaces, Progress
<1>11. ASSUME Requeues PROVE Kept
  <2>1. Row(task') /\ task'.gen = task.gen
    BY <1>1, <1>11, RequeuedIs DEF Requeues, SameTask, Row
  <2>2. ASSUME NEW k \in InFlight, NEW state \in Reconciled(k)
        PROVE  Shape(Marked(outbox, k[1], k[2], state))
    <3>1. k[1] \in Generations /\ k[2] \in 1..Len(outbox[k[1]])
      BY <1>1, LenProperties DEF InFlight, ItemKeys, Shape
    <3>2. state \in States
      BY DEF Reconciled, Verdict, States, Settled
    <3> QED BY <1>1, <3>1, <3>2, MarkedIs DEF Replaced
  <2> QED BY <1>1, <1>11, <2>1, <2>2 DEF Requeues
<1>12. ASSUME Quarantines PROVE Kept
  BY <1>1, <1>12, QuarantinedIs DEF Quarantines, Ends
<1> QED BY <1>2, <1>3, <1>4, <1>5, <1>6, <1>7, <1>8, <1>9, <1>10, <1>11, <1>12 DEF Kinds

\* An item that the worker has stays where it is, and waits on.
LEMMA ProgressKeepsItem ==
    ASSUME Shape(outbox), Progress(outbox, outbox'), NEW g \in Generations, NEW n,
           n \in 1..Len(outbox[g])
    PROVE  /\ n \in 1..Len(outbox'[g])
           /\ outbox[g][n].state \in Waiting => outbox'[g][n].state \in Waiting
<1>1. Len(outbox[g]) \in Nat /\ Len(outbox'[g]) \in Nat
  BY LenProperties DEF Progress, Shape
<1> QED BY <1>1 DEF Progress, Waiting

\* What the worker holds after a step of each kind
LEMMA KindsKeepWorker ==
    ASSUME WorkInv, Kinds
    PROVE  WorkerTypes' /\ WorkerHolds'
<1>1. /\ Row(task) /\ Shape(outbox) /\ WorkerTypes /\ WorkerHolds
      /\ task.gen \in Generations
  BY DEF WorkInv, Row, TaskRow
<1>2. /\ Row(task') /\ task'.gen \in Nat /\ task.gen <= task'.gen
      /\ ~Replaces => task'.gen = task.gen
  BY <1>1, Bounds, KindsKeepRow DEF Row, TaskRow, Generations
<1>3. MaxGeneration \in Nat /\ worker.gen \in Nat /\ task.gen \in Nat
  BY <1>1, Bounds DEF WorkerTypes, Generations
<1>4. ASSUME Rests(worker'), task'.status = "running" /\ task'.run = 0 => FALSE
      PROVE  WorkerTypes' /\ WorkerHolds'
  BY <1>1, <1>2, <1>3, <1>4 DEF Rests, WorkerTypes, WorkerHolds, Generations
<1>5. ASSUME Quiet PROVE WorkerTypes' /\ WorkerHolds'
  <2>1. Ends(task, task') /\ Progress(outbox, outbox') /\ WorkerGoesOn
    BY <1>5 DEF Quiet
  <2>2. task'.status = "running" /\ task'.run = 0 => task.status = "running" /\ task.run = 0
    BY <2>1 DEF Ends, Terminal
  <2>3. worker.pc \in {"check", "posted", "probe"} =>
           /\ worker.n \in 1..Len(outbox'[worker.gen])
           /\ worker.pc = "check" => outbox'[worker.gen][worker.n].state \in Waiting
    BY <1>1, <2>1, ProgressKeepsItem DEF WorkerHolds, Current
  <2>4. CASE worker' = worker
    <3>1. task'.gen = task.gen
      BY <2>1 DEF Ends
    <3>2. WorkerTypes' /\ worker'.gen = worker.gen /\ worker'.n = worker.n
            /\ worker'.pc = worker.pc
      BY <1>1, <2>4 DEF WorkerTypes
    <3> QED BY <1>1, <2>2, <2>3, <3>1, <3>2 DEF WorkerHolds, Current
  <2>5. ASSUME NEW turn \in Turns, worker.pc = turn[1],
               worker' = [worker EXCEPT !.pc = turn[2]]
        PROVE  WorkerTypes' /\ WorkerHolds'
    <3>1. task'.gen = task.gen
      BY <2>1 DEF Ends
    <3>2. WorkerTypes' /\ worker'.gen = worker.gen /\ worker'.n = worker.n
            /\ worker'.pc = turn[2]
      BY <1>1, <2>5 DEF WorkerTypes, Turns
    <3> QED BY <1>1, <2>2, <2>3, <2>5, <3>1, <3>2 DEF WorkerHolds, Turns
  <2>6. CASE /\ Rests(worker')
             /\ worker.pc \in {"start", "created"} =>
                   Superseded \/ task'.status \in Terminal
    <3>1. ~(task'.status = "running" /\ task'.run = 0)
      BY <1>1, <2>2, <2>6 DEF WorkerHolds, Superseded, Terminal
    <3> QED BY <1>4, <2>6, <3>1
  <2> QED BY <2>1, <2>4, <2>5, <2>6 DEF WorkerGoesOn
<1>6. ASSUME NEW k \in ItemKeys, Takes(k) PROVE WorkerTypes' /\ WorkerHolds'
  <2>1. /\ k[1] \in Generations /\ k[2] \in 1..Len(outbox[k[1]]) /\ k[2] \in Nat
        /\ outbox[k[1]][k[2]].state \in Waiting
    BY <1>1, <1>6, ReadyIsThere DEF Takes, ItemKeys
  <2>2. /\ worker'.pc = "check" /\ worker'.gen = k[1] /\ worker'.n = k[2]
        /\ WorkerTypes'
    BY <1>3, <1>6, <2>1 DEF Takes, WorkerTypes, Generations
  <2>3. UNCHANGED <<task, outbox>> /\ worker.pc = "idle" /\ k[1] = task.gen
    BY <1>6 DEF Takes
  <2> QED BY <1>1, <1>3, <2>1, <2>2, <2>3 DEF WorkerHolds, Current
<1>7. ASSUME Sends PROVE WorkerTypes' /\ WorkerHolds'
  <2>1. /\ worker.gen \in Generations /\ worker.n \in 1..Len(outbox[worker.gen])
        /\ Len(outbox'[worker.gen]) = Len(outbox[worker.gen])
    BY <1>7, ItemIsThere, SendReplaces DEF Sends, Replaced
  <2>2. /\ worker'.pc = "posted" /\ worker'.gen = worker.gen /\ worker'.n = worker.n
        /\ WorkerTypes' /\ Ends(task, task') /\ worker.pc = "check"
    BY <1>1, <1>7 DEF Sends, WorkerTypes
  <2> QED BY <1>1, <2>1, <2>2 DEF WorkerHolds, Ends, Terminal
<1>8. ASSUME NEW state \in States, Delivers(state) PROVE WorkerTypes' /\ WorkerHolds'
  <2>1. ~(task'.status = "running" /\ task'.run = 0)
    BY <1>1, <1>8 DEF Delivers, WorkerHolds, Ends, Terminal
  <2> QED BY <1>4, <1>8, <2>1, IdleRests DEF Delivers
<1>9. ASSUME Claims PROVE WorkerTypes' /\ WorkerHolds'
  <2>1. /\ task' = Claimed /\ Row(Claimed) /\ Claimed.gen = task.gen
        /\ Claimed.run = task.run
        /\ Claimed.attempts = IF Recovering THEN task.attempts ELSE task.attempts + 1
    BY <1>1, <1>9, ClaimedIs DEF Claims
  <2>2. CASE Recovering
    <3>1. task.run \in 1..max_attempts /\ task.run \in Nat
      BY <1>1, <2>2, Bounds DEF Recovering, Row, TaskRow
    <3>2. worker' = [pc |-> "wait", gen |-> task.gen, n |-> task.run]
      BY <1>9, <2>2 DEF Claims
    <3>3. WorkerTypes' /\ worker'.pc = "wait" /\ worker'.gen = task.gen
            /\ worker'.n = task.run
      BY <1>1, <1>3, <3>1, <3>2 DEF WorkerTypes, Generations
    <3> QED BY <1>1, <1>3, <2>1, <2>2, <3>1, <3>3 DEF WorkerHolds, Recovering
  <2>3. CASE ~Recovering
    <3>1. Claimed.attempts \in 1..max_attempts /\ Claimed.attempts \in Nat
      BY <1>1, <2>1, <2>3, Bounds DEF Row, TaskRow
    <3>2. worker' = [pc |-> "start", gen |-> task.gen, n |-> Claimed.attempts]
      BY <1>9, <2>3 DEF Claims
    <3>3. WorkerTypes' /\ worker'.pc = "start" /\ worker'.gen = task.gen
            /\ worker'.n = Claimed.attempts
      BY <1>1, <1>3, <3>1, <3>2 DEF WorkerTypes, Generations
    <3> QED BY <1>1, <1>3, <2>1, <3>1, <3>3 DEF WorkerHolds
  <2> QED BY <2>2, <2>3
<1>10. ASSUME LeavesRun PROVE WorkerTypes' /\ WorkerHolds'
  <2>1. ~(task'.status = "running" /\ task'.run = 0)
    BY <1>1, <1>10, RequeuedIs DEF LeavesRun, Releases
  <2> QED BY <1>4, <1>10, <2>1 DEF LeavesRun
<1>11. ASSUME Binds PROVE WorkerTypes' /\ WorkerHolds'
  <2>1. worker.n \in 1..max_attempts /\ worker.gen \in Generations
    BY <1>1, <1>11 DEF Binds, WorkerHolds
  <2>2. task'.run = worker.n /\ task'.run # 0
    BY <1>1, <1>11, <2>1, BoundIs, Bounds DEF Binds
  <2>3. /\ WorkerTypes' /\ worker'.pc = "wait" /\ worker'.gen = worker.gen
        /\ worker'.n = worker.n
    BY <1>1, <1>11 DEF Binds, WorkerTypes
  <2> QED BY <1>1, <1>2, <1>3, <2>1, <2>2, <2>3 DEF WorkerHolds
<1>12. ASSUME AsksPeople PROVE WorkerTypes' /\ WorkerHolds'
  BY <1>4, <1>12 DEF AsksPeople, Waits
<1>13. ASSUME Replaces PROVE WorkerTypes' /\ WorkerHolds'
  <2>1. /\ Progress(outbox, outbox') /\ worker' = worker
        /\ task'.status = "queued"
    BY <1>1, <1>13, KindsKeepRow, NextGenerationIs DEF Replaces
  <2>2. worker.pc \in {"check", "posted", "probe"} =>
           /\ worker.n \in 1..Len(outbox'[worker.gen])
           /\ worker.pc = "check" => outbox'[worker.gen][worker.n].state \in Waiting
    BY <1>1, <2>1, ProgressKeepsItem DEF WorkerHolds, Current
  <2> QED BY <1>1, <1>2, <1>3, <2>1, <2>2 DEF WorkerTypes, WorkerHolds, Current
<1>14. ASSUME Requeues PROVE WorkerTypes' /\ WorkerHolds'
  <2>1. ~(task'.status = "running" /\ task'.run = 0)
    BY <1>1, <1>14, RequeuedIs DEF Requeues, SameTask
  <2> QED BY <1>4, <1>14, <2>1, IdleRests DEF Requeues
<1>15. ASSUME Quarantines PROVE WorkerTypes' /\ WorkerHolds'
  BY <1>4, <1>15, IdleRests DEF Quarantines, Terminal
<1> QED BY <1>5, <1>6, <1>7, <1>8, <1>9, <1>10, <1>11, <1>12, <1>13, <1>14, <1>15
       DEF Kinds

-----------------------------------------------------------------------------
(* What the steps leave alone *)

\* The worker changes nothing of the commands, the barriers and the release.
LEMMA WorkerKeeps ==
    ASSUME WorkInv, WorkerStep
    PROVE  /\ UNCHANGED <<release, cmd, stop, commands, barred, stopped, textOnly, rows>>
           /\ posts' \subseteq posts \/ Sends
<1>1. CASE ExpireBlocked \/ PrepareTerminal
  BY <1>1 DEF ExpireBlocked, PrepareTerminal, handlerVars, apiVars
<1>2. CASE Claim \/ StartPosts \/ StartRefused \/ StartUncertain \/ StartAnswered
  BY <1>2 DEF Claim, StartPosts, StartRefused, StartUncertain, StartAnswered,
              WorkerOnly, apiVars
<1>3. CASE OverLimit \/ CancelWatch \/ WaitEnds \/ WaitEndsUnaware \/ RepairEnds
             \/ WaitBreaks \/ WaitMissing \/ WaitTimesOut
  BY <1>3 DEF OverLimit, CancelWatch, WaitEnds, WaitEndsUnaware, RepairEnds,
              WaitBreaks, WaitMissing, WaitTimesOut, WorkerOnly, apiVars
<1>4. CASE \E k \in ItemKeys : DeliverBegins(k)
  BY <1>4 DEF DeliverBegins, apiVars
<1>5. CASE DeliverChecks
  <2>1. UNCHANGED <<release, cmd, stop, commands, barred, stopped, textOnly, rows>>
    BY <1>5 DEF DeliverChecks
  <2>2. (Quiet /\ Apart) \/ Sends
    BY <1>5, DeliverEffects
  <2> QED BY <2>1, <2>2 DEF Apart
<1>6. CASE DeliverHears \/ DeliverNotPosted \/ DeliverProbes
  BY <1>6 DEF DeliverHears, DeliverNotPosted, DeliverProbes, Deliver
<1>7. CASE DeliverAsks
  BY <1>7 DEF DeliverAsks, taskVars, apiVars
<1> QED BY <1>1, <1>2, <1>3, <1>4, <1>5, <1>6, <1>7 DEF WorkerStep

\* The commands change nothing of the group or of the ledger, and barriers are
\* only added.
LEMMA CommandsKeep ==
    ASSUME CommandStep
    PROVE  UNCHANGED <<release, worker, posts, api, rows, tools, lost>> /\ barred \subseteq barred'
BY DEF CommandStep, CommandBegins, CommandBars, CommandFails, CommandStopsRun, CommandActs,
       StopBars, StopCancels, StopFails, HermesUnchanged, taskVars, hermesVars, apiVars

LEMMA HermesKeeps ==
    ASSUME HermesStep
    PROVE  UNCHANGED <<outbox, release, worker, cmd, stop, commands, posts, api, barred,
                       stopped, textOnly, rows>>
BY DEF HermesStep, HermesCreates, HermesUsesTools, HermesEnds, taskVars, handlerVars, apiVars

LEMMA RestartsKeep ==
    ASSUME Restart \/ CutOver
    PROVE  /\ UNCHANGED <<commands, posts, api, barred, stopped, textOnly, rows, tools, lost>>
           /\ worker' = Idle /\ cmd' = NoCommand /\ stop' = "none"
BY DEF Restart, CutOver, ProcessRestarts, HermesUnchanged, hermesVars, apiVars

LEMMA ApiKeeps ==
    ASSUME NEW k \in ItemKeys, ApiHandles(k)
    PROVE  /\ UNCHANGED <<task, outbox, release, worker, cmd, stop, commands, runs, tools,
                          lost, barred, stopped, textOnly>>
           /\ k \in posts /\ posts' = posts \ {k}
BY DEF ApiHandles, taskVars, handlerVars, hermesVars

-----------------------------------------------------------------------------
(* Commands and generations *)

LEMMA StepKeepsCommand ==
    ASSUME WorkInv, Next
    PROVE  CommandTypes' /\ CommandHolds'
<1>1. /\ Row(task) /\ CommandTypes /\ CommandHolds /\ task.gen \in Generations
  BY DEF WorkInv, Row, TaskRow
<1>2. ~Replaces => task'.gen = task.gen
  BY StepKinds, KindsKeepRow
<1>3. CASE cmd' = NoCommand
  BY <1>3, Bounds DEF NoCommand, CommandTypes, CommandHolds
<1>4. CASE cmd' = cmd
  <2>1. CASE Replaces
    BY <1>3, <2>1 DEF Replaces
  <2>2. CASE ~Replaces
    BY <1>1, <1>2, <1>4, <2>2 DEF CommandTypes, CommandHolds
  <2> QED BY <2>1, <2>2
<1>5. ASSUME NEW op \in {"cancel", "modify", "retry", "media"}, CommandBegins(op),
             cmd' # cmd
      PROVE  CommandTypes' /\ CommandHolds'
  <2>1. /\ UNCHANGED task
        /\ cmd' = [op |-> op, pc |-> "barrier", gen |-> task.gen,
                   run |-> IF task.status = "running" THEN task.run ELSE 0]
    BY <1>5 DEF CommandBegins
  <2>2. op \in {"modify", "retry"} => task.gen < MaxGeneration
    BY <1>5 DEF CommandBegins, MayCommand
  <2>3. task.run \in 0..max_attempts /\ 0 \in 0..max_attempts /\ task.gen \in 0..MaxGeneration
    BY <1>1, Bounds DEF Row, TaskRow, Generations
  <2>4. CommandTypes'
    BY <2>1, <2>3 DEF CommandTypes
  <2> QED BY <1>1, <2>1, <2>2, <2>4 DEF CommandHolds
<1>6. ASSUME CommandBars \/ CommandStopsRun
      PROVE  CommandTypes' /\ CommandHolds'
  <2>1. /\ UNCHANGED task /\ cmd.pc # "idle"
        /\ \E pc \in {"barred", "stopped"} : cmd' = [cmd EXCEPT !.pc = pc]
    BY <1>6 DEF CommandBars, CommandStopsRun, taskVars
  <2>2. CommandTypes' /\ cmd'.op = cmd.op /\ cmd'.gen = cmd.gen
    BY <1>1, <2>1 DEF CommandTypes
  <2> QED BY <1>1, <2>1, <2>2 DEF CommandHolds
<1>7. WorkerStep \/ HermesStep \/ (\E k \in ItemKeys : ApiHandles(k)) => cmd' = cmd
  BY WorkerKeeps, HermesKeeps, ApiKeeps
<1>8. Restart \/ CutOver => cmd' = NoCommand
  BY RestartsKeep
<1>9. CommandFails \/ CommandActs => cmd' = NoCommand
  BY DEF CommandFails, CommandActs
<1>10. StopBars \/ StopCancels \/ StopFails => cmd' = cmd
  BY DEF StopBars, StopCancels, StopFails
<1> QED BY <1>3, <1>4, <1>5, <1>6, <1>7, <1>8, <1>9, <1>10 DEF Next, CommandStep

LEMMA StepKeepsWork == ASSUME WorkInv, Next PROVE WorkInv'
<1>1. Kinds
  BY StepKinds
<1> QED BY <1>1, KindsKeepRow, KindsKeepWorker, StepKeepsCommand DEF WorkInv

\* Every generation that has been replaced is barred, and what is on its way
\* to the Chat API is of no generation still to come.
GenerationInv ==
    /\ \A g \in Generations : g < task.gen => g \in barred
    /\ \A k \in posts : k \in ItemKeys /\ k[1] <= task.gen
    /\ cmd.pc \in {"barred", "stopped"} /\ cmd.op # "media" => cmd.gen \in barred

LEMMA StepKeepsGeneration ==
    ASSUME WorkInv, GenerationInv, Next
    PROVE  GenerationInv'
<1>1. /\ Row(task) /\ WorkerTypes /\ CommandTypes /\ WorkerHolds /\ CommandHolds
      /\ task.gen \in Generations /\ task.gen \in Nat
  BY Bounds DEF WorkInv, Row, TaskRow, Generations
<1>2. /\ ~Replaces => task'.gen = task.gen
      /\ Replaces => task'.gen = task.gen + 1
  BY StepKinds, KindsKeepRow
<1>3. barred \subseteq barred'
  BY WorkerKeeps, CommandsKeep, HermesKeeps, ApiKeeps, RestartsKeep DEF Next
<1>4. posts' \subseteq posts \/ Sends
  BY WorkerKeeps, CommandsKeep, HermesKeeps, ApiKeeps, RestartsKeep DEF Next
<1>5. \A g \in Generations : g < task'.gen => g \in barred'
  <2>1. CASE Replaces
    <3>1. cmd.gen = task.gen /\ cmd.gen \in barred
      BY <1>1, <2>1 DEF Replaces, CommandHolds, GenerationInv
    <3>2. task'.gen = task.gen + 1
      BY <1>2, <2>1
    <3>3. \A g \in Generations : g < task.gen + 1 => g < task.gen \/ g = task.gen
      BY <1>1, Bounds DEF Generations
    <3> QED BY <1>3, <3>1, <3>2, <3>3 DEF GenerationInv
  <2>2. CASE ~Replaces
    BY <1>2, <1>3, <2>2 DEF GenerationInv
  <2> QED BY <2>1, <2>2
<1>6. task.gen <= task'.gen /\ task'.gen \in Nat
  BY <1>1, <1>2, Bounds
<1>7. \A k \in posts' : k \in ItemKeys /\ k[1] <= task'.gen
  <2>1. ASSUME NEW k \in posts PROVE k \in ItemKeys /\ k[1] <= task'.gen
    <3>1. k \in ItemKeys /\ k[1] <= task.gen /\ k[1] \in Nat
      BY Bounds DEF GenerationInv, ItemKeys, Generations
    <3> QED BY <1>1, <1>6, <3>1
  <2>2. CASE Sends
    <3>1. /\ ItemKey \in ItemKeys /\ ItemKey[1] = worker.gen /\ worker.gen <= task.gen
          /\ worker.gen \in Nat
      BY <1>1, <2>2, ItemIsThere, Bounds DEF Sends, WorkerHolds, WorkerTypes, ItemKey
    <3>2. posts' = posts \cup {ItemKey}
      BY <2>2 DEF Sends
    <3> QED BY <1>1, <1>6, <2>1, <3>1, <3>2
  <2> QED BY <1>4, <2>1, <2>2
<1>8. cmd'.pc \in {"barred", "stopped"} /\ cmd'.op # "media" => cmd'.gen \in barred'
  <2>1. CASE cmd' = cmd
    BY <1>3, <2>1 DEF GenerationInv
  <2>2. CASE cmd' = NoCommand
    BY <2>2 DEF NoCommand
  <2>3. ASSUME NEW op \in {"cancel", "modify", "retry", "media"}, CommandBegins(op),
               cmd' # cmd
        PROVE  cmd'.pc = "barrier"
    BY <2>3 DEF CommandBegins
  <2>4. CASE CommandBars
    <3>1. cmd'.op = cmd.op /\ cmd'.gen = cmd.gen
      BY <1>1, <2>4 DEF CommandBars, CommandTypes
    <3> QED BY <2>4, <3>1 DEF CommandBars
  <2>5. CASE CommandStopsRun
    <3>1. cmd'.op = cmd.op /\ cmd'.gen = cmd.gen /\ cmd.pc = "barred"
      BY <1>1, <2>5 DEF CommandStopsRun, CommandTypes
    <3> QED BY <1>3, <3>1 DEF GenerationInv
  <2>6. WorkerStep \/ HermesStep \/ (\E k \in ItemKeys : ApiHandles(k)) => cmd' = cmd
    BY WorkerKeeps, HermesKeeps, ApiKeeps
  <2>7. Restart \/ CutOver => cmd' = NoCommand
    BY RestartsKeep
  <2>8. CommandFails \/ CommandActs => cmd' = NoCommand
    BY DEF CommandFails, CommandActs
  <2>9. StopBars \/ StopCancels \/ StopFails => cmd' = cmd
    BY DEF StopBars, StopCancels, StopFails
  <2> QED BY <2>1, <2>2, <2>3, <2>4, <2>5, <2>6, <2>7, <2>8, <2>9 DEF Next, CommandStep
<1> QED BY <1>5, <1>7, <1>8 DEF GenerationInv

-----------------------------------------------------------------------------
(* From the first state on *)

LEMMA InitWork == ASSUME Init PROVE WorkInv /\ GenerationInv
<1>1. task = NewTask /\ NewTask.gen = 1 /\ NewTask.status = "queued"
  BY DEF Init, NewTask
<1>2. Row(task)
  BY <1>1, Bounds DEF NewTask, Row, TaskRow, Generations
<1>3. Shape(outbox)
  BY EmptySeq DEF Init, Shape, ItemRow
<1>4. WorkerTypes /\ WorkerHolds
  BY <1>1, Bounds DEF Init, Idle, WorkerTypes, WorkerHolds
<1>5. CommandTypes /\ CommandHolds
  BY Bounds DEF Init, NoCommand, CommandTypes, CommandHolds
<1>6. GenerationInv
  BY <1>1 DEF Init, NoCommand, GenerationInv, Generations
<1> QED BY <1>2, <1>3, <1>4, <1>5, <1>6 DEF WorkInv

\* A message that appears in the group is of the task's generation: the Chat
\* API looks at the barrier again before it presses Return, and what is on its
\* way is barred unless it is of the present generation.
LEMMA NewRowsAreCurrent ==
    ASSUME WorkInv, GenerationInv, Next, NEW k \in rows' \ rows
    PROVE  k[1] = task.gen
<1>1. rows' = rows \/ \E i \in ItemKeys : ApiHandles(i)
  BY WorkerKeeps, CommandsKeep, HermesKeeps, RestartsKeep DEF Next
<1>2. PICK i \in ItemKeys : ApiHandles(i)
  BY <1>1
<1>3. i = k /\ ~Blocked(k)
  BY <1>2 DEF ApiHandles, Submit, HeldBack, Submitted, NotSubmitted, NotFound
<1>4. k \in posts /\ k[1] \notin barred
  BY <1>2, <1>3 DEF ApiHandles, Blocked
<1>5. k[1] \in Generations /\ k[1] <= task.gen /\ ~(k[1] < task.gen)
  BY <1>4 DEF GenerationInv, ItemKeys
<1>6. k[1] \in Nat /\ task.gen \in Nat
  BY <1>5, Bounds DEF WorkInv, Row, TaskRow, Generations
<1> QED BY <1>5, <1>6

-----------------------------------------------------------------------------
(* The outbox, the ledger and the group *)

ApiStates == {"none", "sent", "suppressed", "failed", "uncertain"}

\* Whatever was asked of the Chat API is an item that was posted, what the
\* outbox calls confirmed is in the group, and an item in flight is the
\* worker's.
ItemInv ==
    /\ api \in [ItemKeys -> ApiStates] /\ posts \cup rows \subseteq ItemKeys
    /\ \A k \in ItemKeys : api[k] = "sent" => k \in rows
    /\ \A k \in posts \cup rows :
          k[2] \in 1..Len(outbox[k[1]]) /\ outbox[k[1]][k[2]].tries > 0
    /\ \A g \in Generations : \A i \in 1..Len(outbox[g]) :
          /\ outbox[g][i].state = "confirmed" => <<g, i>> \in rows
          /\ outbox[g][i].state = "sending" =>
                worker.pc \in {"posted", "probe"} /\ g = worker.gen /\ i = worker.n

\* What became of the items in a step, the worker and the group aside
ItemsKept ==
    /\ \A k \in posts \cup rows :
          k[2] \in 1..Len(outbox'[k[1]]) /\ outbox'[k[1]][k[2]].tries > 0
    /\ \A g \in Generations : \A i \in 1..Len(outbox'[g]) :
          /\ outbox'[g][i].state = "confirmed" => <<g, i>> \in rows
          /\ outbox'[g][i].state = "sending" =>
                worker'.pc \in {"posted", "probe"} /\ g = worker'.gen /\ i = worker'.n

\* An item whose entry says "sent" after a search of the group is in the group.
LEMMA SearchedIs ==
    ASSUME ItemInv, NEW k \in ItemKeys, Searched[k] = "sent"
    PROVE  k \in rows
BY DEF ItemInv, Searched

LEMMA ProgressKeepsItems ==
    ASSUME WorkInv, ItemInv, Progress(outbox, outbox'),
           \A g \in Generations : \A i \in 1..Len(outbox[g]) :
              outbox[g][i].state = "sending" =>
                 worker'.pc \in {"posted", "probe"} /\ g = worker'.gen /\ i = worker'.n
    PROVE  ItemsKept
<1>1. \A g \in Generations : Len(outbox[g]) \in Nat /\ Len(outbox'[g]) \in Nat
  BY LenProperties DEF WorkInv, Progress, Shape
<1>2. ASSUME NEW k \in posts \cup rows
      PROVE  k[2] \in 1..Len(outbox'[k[1]]) /\ outbox'[k[1]][k[2]].tries > 0
  <2>1. /\ k[1] \in Generations /\ k[2] \in 1..Len(outbox[k[1]])
        /\ outbox[k[1]][k[2]].tries > 0
    BY DEF ItemInv, ItemKeys
  <2> QED BY <1>1, <2>1 DEF Progress
<1>3. ASSUME NEW g \in Generations, NEW i \in 1..Len(outbox'[g])
      PROVE  /\ outbox'[g][i].state = "confirmed" => <<g, i>> \in rows
             /\ outbox'[g][i].state = "sending" =>
                   worker'.pc \in {"posted", "probe"} /\ g = worker'.gen /\ i = worker'.n
  <2>1. CASE i \in 1..Len(outbox[g])
    BY <2>1 DEF Progress, ItemInv
  <2>2. CASE i \notin 1..Len(outbox[g])
    <3>1. i \in (Len(outbox[g]) + 1)..Len(outbox'[g])
      BY <1>1, <2>2
    <3> QED BY <3>1 DEF Progress
  <2> QED BY <2>1, <2>2
<1> QED BY <1>2, <1>3 DEF ItemsKept

LEMMA ReplacedKeepsItems ==
    ASSUME WorkInv, ItemInv, NEW n \in Generations, NEW j \in 1..Len(outbox[n]),
           Replaced(outbox, outbox', n, j),
           outbox[n][j].tries > 0 => outbox'[n][j].tries > 0,
           outbox'[n][j].state = "confirmed" => <<n, j>> \in rows,
           \A g \in Generations : \A i \in 1..Len(outbox[g]) :
              outbox'[g][i].state = "sending" =>
                 worker'.pc \in {"posted", "probe"} /\ g = worker'.gen /\ i = worker'.n
    PROVE  ItemsKept
<1>1. ASSUME NEW k \in posts \cup rows
      PROVE  k[2] \in 1..Len(outbox'[k[1]]) /\ outbox'[k[1]][k[2]].tries > 0
  <2>1. /\ k[1] \in Generations /\ k[2] \in 1..Len(outbox[k[1]])
        /\ outbox[k[1]][k[2]].tries > 0
    BY DEF ItemInv, ItemKeys
  <2> QED BY <2>1 DEF Replaced
<1>2. ASSUME NEW g \in Generations, NEW i \in 1..Len(outbox'[g]),
             outbox'[g][i].state = "confirmed"
      PROVE  <<g, i>> \in rows
  BY <1>2 DEF Replaced, ItemInv
<1>3. \A g \in Generations : Len(outbox'[g]) = Len(outbox[g])
  BY DEF Replaced
<1> QED BY <1>1, <1>2, <1>3 DEF ItemsKept

LEMMA KindsKeepItems ==
    ASSUME WorkInv, ItemInv, Kinds
    PROVE  /\ ItemsKept
           /\ Sends => /\ worker.n \in 1..Len(outbox'[worker.gen])
                       /\ outbox'[worker.gen][worker.n].tries > 0
<1>1. /\ Row(task) /\ Shape(outbox) /\ WorkerTypes /\ WorkerHolds
      /\ task.gen \in Generations
  BY DEF WorkInv, Row, TaskRow
<1>2. ASSUME UNCHANGED outbox, worker.pc \notin {"posted", "probe"}
      PROVE  ItemsKept
    BY <1>1, <1>2, ProgressStays, ProgressKeepsItems DEF ItemInv
<1>3. ASSUME Progress(outbox, outbox'), worker.pc \notin {"posted", "probe"}
      PROVE  ItemsKept
    BY <1>1, <1>3, ProgressKeepsItems DEF ItemInv
<1>4. ASSUME Quiet PROVE ItemsKept
  <2>1. worker.pc \in {"posted", "probe"} =>
           /\ worker'.pc \in {"posted", "probe"}
           /\ worker'.gen = worker.gen /\ worker'.n = worker.n
    BY <1>1, <1>4 DEF Quiet, WorkerGoesOn, Turns, WorkerTypes
  <2> QED BY <1>1, <1>4, <2>1, ProgressKeepsItems DEF Quiet, ItemInv
<1>5. ASSUME NEW k \in ItemKeys, Takes(k) PROVE ItemsKept
  BY <1>2, <1>5 DEF Takes
<1>6. ASSUME Sends
      PROVE  /\ ItemsKept /\ worker.n \in 1..Len(outbox'[worker.gen])
             /\ outbox'[worker.gen][worker.n].tries > 0
  <2>1. /\ worker.gen \in Generations /\ worker.n \in 1..Len(outbox[worker.gen])
        /\ Replaced(outbox, outbox', worker.gen, worker.n)
        /\ outbox'[worker.gen][worker.n].state = "sending"
        /\ outbox'[worker.gen][worker.n].tries > 0
    BY <1>6, ItemIsThere, SendReplaces DEF Sends
  <2>2. worker'.pc = "posted" /\ worker'.gen = worker.gen /\ worker'.n = worker.n
    BY <1>1, <1>6 DEF Sends, WorkerTypes
  <2>3. \A g \in Generations : \A i \in 1..Len(outbox[g]) :
           outbox'[g][i].state = "sending" => g = worker.gen /\ i = worker.n
    <3>1. worker.pc = "check"
      BY <1>6 DEF Sends
    <3> QED BY <2>1, <3>1 DEF Replaced, ItemInv
  <2>4. ItemsKept
    BY <2>1, <2>2, <2>3, ReplacedKeepsItems
  <2> QED BY <2>1, <2>4 DEF Replaced
<1>7. ASSUME NEW state \in States, Delivers(state) PROVE ItemsKept
  <2>1. /\ worker.gen \in Generations /\ worker.n \in 1..Len(outbox[worker.gen])
        /\ ItemKey \in ItemKeys /\ ItemKey = <<worker.gen, worker.n>>
    BY <1>7, ItemIsThere DEF Delivers
  <2>2. /\ Replaced(outbox, outbox', worker.gen, worker.n)
        /\ outbox'[worker.gen][worker.n].tries = outbox[worker.gen][worker.n].tries
        /\ outbox'[worker.gen][worker.n].state = state
    BY <1>1, <1>7, <2>1, MarkedIs DEF Delivers
  <2>3. state # "sending" /\ (state = "confirmed" => ItemKey \in rows)
    BY <1>7, <2>1, SearchedIs DEF Delivers
  <2>4. \A g \in Generations : \A i \in 1..Len(outbox[g]) :
           outbox'[g][i].state # "sending"
    BY <2>1, <2>2, <2>3 DEF Replaced, ItemInv
  <2> QED BY <2>1, <2>2, <2>3, <2>4, ReplacedKeepsItems
<1>8. ASSUME Claims \/ Binds PROVE ItemsKept
  BY <1>2, <1>8 DEF Claims, Binds
<1>9. ASSUME LeavesRun \/ AsksPeople PROVE ItemsKept
  BY <1>3, <1>9 DEF LeavesRun, AsksPeople
<1>10. ASSUME Replaces PROVE ItemsKept
  BY <1>1, <1>10, ProgressKeepsItems DEF Replaces, ItemInv
<1>11. ASSUME Requeues PROVE ItemsKept
  <2>1. CASE InFlight = {} /\ UNCHANGED outbox
    <3>1. \A g \in Generations : \A i \in 1..Len(outbox[g]) :
             outbox[g][i].state # "sending"
      <4> SUFFICES ASSUME NEW g \in Generations, NEW i \in 1..Len(outbox[g]),
                          outbox[g][i].state = "sending"
                   PROVE  FALSE
        OBVIOUS
      <4>1. /\ DOMAIN outbox[g] = 1..Len(outbox[g]) /\ Len(outbox[g]) \in Nat
            /\ Len(outbox[g]) <= 2
        BY <1>1, LenProperties DEF Shape
      <4>2. <<g, i>> \in ItemKeys
        BY <4>1 DEF ItemKeys
      <4> QED BY <2>1, <4>1, <4>2 DEF InFlight
    <3> QED BY <1>1, <2>1, <3>1, ProgressStays, ProgressKeepsItems
  <2>2. ASSUME NEW k \in InFlight, NEW state \in Reconciled(k),
               outbox' = Marked(outbox, k[1], k[2], state)
        PROVE  ItemsKept
    <3>1. /\ k \in ItemKeys /\ k = <<k[1], k[2]>> /\ k[1] \in Generations
          /\ k[2] \in 1..Len(outbox[k[1]]) /\ outbox[k[1]][k[2]].state = "sending"
      BY <1>1, LenProperties DEF InFlight, ItemKeys, Shape
    <3>2. /\ state \in States /\ state # "sending"
          /\ state = "confirmed" => Searched[k] = "sent"
      BY DEF Reconciled, Verdict, States, Settled
    <3>3. /\ Replaced(outbox, outbox', k[1], k[2])
          /\ outbox'[k[1]][k[2]].tries = outbox[k[1]][k[2]].tries
          /\ outbox'[k[1]][k[2]].state = state
      BY <1>1, <2>2, <3>1, <3>2, MarkedIs
    <3>4. state = "confirmed" => <<k[1], k[2]>> \in rows
      BY <3>1, <3>2, SearchedIs
    <3>5. k[1] = worker.gen /\ k[2] = worker.n
      BY <3>1 DEF ItemInv
    <3>6. \A g \in Generations : \A i \in 1..Len(outbox[g]) :
             outbox'[g][i].state # "sending"
      BY <3>1, <3>2, <3>3, <3>5 DEF Replaced, ItemInv
    <3> QED BY <3>1, <3>3, <3>4, <3>6, ReplacedKeepsItems
  <2> QED BY <1>11, <2>1, <2>2 DEF Requeues
<1>12. ASSUME Quarantines PROVE ItemsKept
  <2>1. /\ Shape(outbox')
        /\ \A g \in Generations :
              /\ Len(outbox'[g]) = Len(outbox[g])
              /\ \A i \in 1..Len(outbox[g]) :
                    /\ outbox'[g][i].tries = outbox[g][i].tries
                    /\ outbox'[g][i].state # "sending"
                    /\ outbox'[g][i].state = "confirmed" => outbox[g][i].state = "confirmed"
    BY <1>1, <1>12, QuarantinedIs DEF Quarantines
  <2>2. \A k \in posts \cup rows :
           k[1] \in Generations /\ k[2] \in 1..Len(outbox[k[1]])
             /\ outbox[k[1]][k[2]].tries > 0
    BY DEF ItemInv, ItemKeys
  <2> QED BY <2>1, <2>2 DEF ItemInv, ItemsKept
<1> QED BY <1>4, <1>5, <1>6, <1>7, <1>8, <1>9, <1>10, <1>11, <1>12 DEF Kinds

\* The ledger and the group in a step: only an item that was posted appears.
LEMMA LedgerKept ==
    ASSUME WorkInv, ItemInv, Next
    PROVE  /\ rows \subseteq rows' /\ rows' \subseteq rows \cup posts
           /\ posts' \subseteq posts \/ Sends
           /\ api' \in [ItemKeys -> ApiStates]
           /\ \A k \in ItemKeys : api'[k] = "sent" => k \in rows'
<1>1. api \in [ItemKeys -> ApiStates]
  BY DEF ItemInv
<1>2. UNCHANGED <<rows, api>> => \A k \in ItemKeys : api'[k] = "sent" => k \in rows'
  BY DEF ItemInv
<1>3. CASE WorkerStep
  <2>1. UNCHANGED rows /\ (posts' \subseteq posts \/ Sends)
    BY <1>3, WorkerKeeps
  <2>2. UNCHANGED api \/ \E state \in States : Delivers(state)
    <3>1. CASE \/ ExpireBlocked \/ PrepareTerminal \/ Claim \/ DeliverChecks
               \/ \E k \in ItemKeys : DeliverBegins(k)
      BY <3>1 DEF ExpireBlocked, PrepareTerminal, Claim, DeliverBegins, DeliverChecks,
                  WorkerOnly, apiVars
    <3>2. CASE \/ StartPosts \/ StartRefused \/ StartUncertain \/ StartAnswered
               \/ OverLimit \/ CancelWatch
      BY <3>2 DEF StartPosts, StartRefused, StartUncertain, StartAnswered, OverLimit,
                  CancelWatch, WorkerOnly, apiVars
    <3>3. CASE \/ WaitEnds \/ WaitEndsUnaware \/ RepairEnds \/ WaitBreaks
               \/ WaitMissing \/ WaitTimesOut \/ DeliverAsks
      BY <3>3 DEF WaitEnds, WaitEndsUnaware, RepairEnds, WaitBreaks, WaitMissing,
                  WaitTimesOut, DeliverAsks, WorkerOnly, apiVars
    <3>4. CASE DeliverHears \/ DeliverNotPosted \/ DeliverProbes
      BY <3>4, DeliverEffects
    <3> QED BY <1>3, <3>1, <3>2, <3>3, <3>4 DEF WorkerStep
  <2>3. CASE UNCHANGED api
    BY <1>1, <1>2, <2>1, <2>3
  <2>4. ASSUME NEW state \in States, Delivers(state)
        PROVE  /\ api' \in [ItemKeys -> ApiStates]
               /\ \A k \in ItemKeys : api'[k] = "sent" => k \in rows'
    <3>1. ItemKey \in ItemKeys
      BY <2>4, ItemIsThere DEF Delivers
    <3>2. Searched[ItemKey] \in ApiStates
      BY <1>1, <3>1 DEF Searched, ApiStates
    <3>3. Searched[ItemKey] = "sent" => ItemKey \in rows
      BY <3>1, SearchedIs
    <3>4. api' \in {api, [api EXCEPT ![ItemKey] = Searched[ItemKey]]}
      BY <2>4 DEF Delivers
    <3> QED BY <1>1, <2>1, <3>1, <3>2, <3>3, <3>4 DEF ItemInv
  <2> QED BY <2>1, <2>2, <2>3, <2>4
<1>4. CASE CommandStep \/ HermesStep \/ Restart \/ CutOver
  BY <1>1, <1>2, <1>4, CommandsKeep, HermesKeeps, RestartsKeep
<1>5. ASSUME NEW k \in ItemKeys, ApiHandles(k)
      PROVE  /\ rows \subseteq rows' /\ rows' \subseteq rows \cup posts
             /\ posts' \subseteq posts /\ api' \in [ItemKeys -> ApiStates]
             /\ \A l \in ItemKeys : api'[l] = "sent" => l \in rows'
  <2>1. k \in posts /\ posts' = posts \ {k}
    BY <1>5, ApiKeeps
  <2>2. Searched[k] \in ApiStates /\ (Searched[k] = "sent" => k \in rows)
    BY <1>1, SearchedIs DEF Searched, ApiStates
  <2>3. \/ api' = [api EXCEPT ![k] = Searched[k]] /\ UNCHANGED rows
        \/ \E state \in {"suppressed", "failed", "uncertain"} :
              api' = [api EXCEPT ![k] = state] /\ rows' \in {rows, rows \cup {k}}
        \/ api' = [api EXCEPT ![k] = "sent"] /\ rows' = rows \cup {k}
    BY <1>5 DEF ApiHandles, Submit, HeldBack, Submitted, NotSubmitted, NotFound
  <2> QED BY <1>1, <2>1, <2>2, <2>3 DEF ItemInv, ApiStates
<1> QED BY <1>3, <1>4, <1>5 DEF Next

LEMMA StepKeepsItems ==
    ASSUME WorkInv, ItemInv, Next
    PROVE  ItemInv'
<1>1. /\ rows \subseteq rows' /\ rows' \subseteq rows \cup posts
      /\ posts' \subseteq posts \/ Sends
      /\ api' \in [ItemKeys -> ApiStates]
      /\ \A k \in ItemKeys : api'[k] = "sent" => k \in rows'
  BY LedgerKept
<1>2. /\ ItemsKept
      /\ Sends => /\ worker.n \in 1..Len(outbox'[worker.gen])
                  /\ outbox'[worker.gen][worker.n].tries > 0
  BY StepKinds, KindsKeepItems
<1>3. Sends => posts' = posts \cup {ItemKey} /\ ItemKey \in ItemKeys
                 /\ ItemKey[1] = worker.gen /\ ItemKey[2] = worker.n
  BY ItemIsThere DEF Sends, ItemKey
<1>4. ASSUME NEW k \in posts' \cup rows'
      PROVE  /\ k \in ItemKeys
             /\ k[2] \in 1..Len(outbox'[k[1]]) /\ outbox'[k[1]][k[2]].tries > 0
  <2>1. k \in posts \cup rows \/ (Sends /\ k = ItemKey)
    BY <1>1, <1>3
  <2>2. CASE k \in posts \cup rows
    BY <1>2, <2>2 DEF ItemsKept, ItemInv
  <2>3. CASE Sends /\ k = ItemKey
    BY <1>2, <1>3, <2>3
  <2> QED BY <2>1, <2>2, <2>3
<1> QED BY <1>1, <1>2, <1>4 DEF ItemsKept, ItemInv

-----------------------------------------------------------------------------
(* The types of the rest *)

RunStates == {"none", "asked", "active", "done", "failed", "canceled", "missing"}

RestTypes ==
    /\ release \in {"tasks", "chat"} /\ stop \in {"none", "barred"}
    /\ commands \in Seq(Commands) /\ runs \in [RunKeys -> RunStates]
    /\ tools \subseteq RunKeys /\ lost \subseteq Generations /\ barred \subseteq Generations

\* What a step may do to the runs of Hermes and to what is known of them
RunsStep ==
    \/ UNCHANGED runs
    \/ \E k \in RunKeys : \E state \in RunStates : runs' = [runs EXCEPT ![k] = state]

LEMMA StoppedRunIs ==
    ASSUME runs \in [RunKeys -> RunStates], NEW k
    PROVE  /\ k \in RunKeys /\ runs' = StoppedRun(k) => RunsStep
           /\ StopRun(k) \/ StopRunOrNot(k) => RunsStep
<1>1. ASSUME k \in RunKeys, runs' = StoppedRun(k) PROVE RunsStep
  <2>1. runs' = [runs EXCEPT ![k] = IF runs[k] = "active" THEN "canceled" ELSE runs[k]]
    BY <1>1 DEF StoppedRun
  <2>2. (IF runs[k] = "active" THEN "canceled" ELSE runs[k]) \in RunStates
    BY <1>1 DEF RunStates
  <2> QED BY <1>1, <2>1, <2>2 DEF RunsStep
<1>2. ASSUME StopRun(k) PROVE RunsStep
  BY <1>1, <1>2 DEF StopRun, RunsStep
<1>3. ASSUME StopRunOrNot(k) PROVE RunsStep
  BY <1>1, <1>3 DEF StopRunOrNot, RunsStep
<1> QED BY <1>1, <1>2, <1>3

LEMMA RunsStepKept ==
    ASSUME runs \in [RunKeys -> RunStates], RunsStep
    PROVE  runs' \in [RunKeys -> RunStates]
BY DEF RunsStep

LEMMA WorkerRestTypes ==
    ASSUME WorkInv, RestTypes, WorkerStep
    PROVE  RunsStep /\ tools' = tools /\ lost' \subseteq Generations
<1>1. runs \in [RunKeys -> RunStates] /\ lost \subseteq Generations
  BY DEF RestTypes
<1>2. worker.pc \in {"start", "created", "wait", "repair"} =>
         worker.gen \in Generations /\ RunKey \in RunKeys
  BY DEF WorkInv, WorkerHolds, RunKey, RunKeys
<1>3. CASE \/ ExpireBlocked \/ PrepareTerminal \/ DeliverChecks \/ DeliverHears
           \/ DeliverNotPosted \/ DeliverAsks \/ DeliverProbes
           \/ \E k \in ItemKeys : DeliverBegins(k)
  BY <1>1, <1>3 DEF ExpireBlocked, PrepareTerminal, DeliverBegins, DeliverChecks,
     DeliverHears, DeliverNotPosted, DeliverAsks, DeliverProbes, Deliver, hermesVars,
     RunsStep
<1>4. CASE Claim
  <2>1. StopRunOrNot(<<task.gen, task.run>>) \/ UNCHANGED runs
    BY <1>4 DEF Claim
  <2>2. UNCHANGED <<tools, lost>>
    BY <1>4 DEF Claim, HermesUnchanged
  <2> QED BY <1>1, <2>1, <2>2, StoppedRunIs DEF RunsStep
<1>5. CASE StartPosts \/ StartRefused
  <2>1. /\ RunKey \in RunKeys /\ worker.gen \in Generations
        /\ {"asked", "none"} \subseteq RunStates /\ runs[RunKey] \in RunStates
    BY <1>1, <1>2, <1>5 DEF StartPosts, StartRefused, RunStates
  <2>2. CASE StartPosts
    <3>1. \E state \in RunStates : runs' = [runs EXCEPT ![RunKey] = state]
      BY <2>1, <2>2 DEF StartPosts
    <3> QED BY <1>1, <2>1, <2>2, <3>1 DEF StartPosts, HermesUnchanged, RunsStep
  <2>3. CASE StartRefused
    <3>1. UNCHANGED runs \/ \E state \in RunStates : runs' = [runs EXCEPT ![RunKey] = state]
      BY <2>1, <2>3 DEF StartRefused
    <3> QED BY <1>1, <2>1, <2>3, <3>1 DEF StartRefused, RunsStep
  <2> QED BY <1>5, <2>2, <2>3
<1>6. CASE StartUncertain \/ WaitEnds \/ RepairEnds \/ WaitBreaks
  BY <1>1, <1>6 DEF StartUncertain, WaitEnds, RepairEnds, WaitBreaks, hermesVars, RunsStep
<1>7. CASE StartAnswered \/ OverLimit \/ WaitTimesOut
  <2>1. UNCHANGED runs \/ StopRun(RunKey) \/ StopRunOrNot(RunKey)
    BY <1>7 DEF StartAnswered, OverLimit, WaitTimesOut
  <2>2. UNCHANGED <<tools, lost>>
    BY <1>7 DEF StartAnswered, OverLimit, WaitTimesOut, HermesUnchanged
  <2> QED BY <1>1, <2>1, <2>2, StoppedRunIs DEF RunsStep
<1>8. CASE CancelWatch
  BY <1>1, <1>2, <1>8, StoppedRunIs DEF CancelWatch, HermesUnchanged
<1>9. CASE WaitEndsUnaware \/ WaitMissing
  BY <1>1, <1>2, <1>9 DEF WaitEndsUnaware, WaitMissing, RunsStep
<1> QED BY <1>3, <1>4, <1>5, <1>6, <1>7, <1>8, <1>9 DEF WorkerStep

LEMMA OtherRestTypes ==
    ASSUME WorkInv, RestTypes,
           CommandStep \/ HermesStep \/ (\E k \in ItemKeys : ApiHandles(k)) \/ Restart \/ CutOver
    PROVE  RunsStep /\ tools' \subseteq RunKeys /\ lost' = lost
<1>1. runs \in [RunKeys -> RunStates] /\ tools \subseteq RunKeys
  BY DEF RestTypes
<1>2. CASE CommandStep
  <2>1. UNCHANGED <<tools, lost>>
    BY <1>2, CommandsKeep
  <2>2. CASE CommandActs \/ StopCancels
    <3>1. \/ UNCHANGED runs \/ StopRun(<<cmd.gen, cmd.run>>)
          \/ StopRun(<<task.gen, task.run>>)
      <4>1. cmd.op \in {"cancel", "modify", "retry", "media"} \/ cmd.pc = "idle"
        BY DEF WorkInv, CommandTypes, CommandHolds
      <4> QED BY <2>2, <4>1 DEF CommandActs, StopCancels
    <3> QED BY <1>1, <2>1, <3>1, StoppedRunIs DEF RunsStep
  <2>3. CASE CommandStopsRun
    <3>1. <<cmd.gen, cmd.run>> \in RunKeys
      BY <2>3, Bounds DEF WorkInv, CommandTypes, CommandHolds, CommandStopsRun, RunKeys
    <3> QED BY <1>1, <2>1, <2>3, <3>1, StoppedRunIs DEF CommandStopsRun
  <2>4. CASE \/ CommandBars \/ CommandFails \/ StopBars \/ StopFails
             \/ \E op \in {"cancel", "modify", "retry", "media"} : CommandBegins(op)
    BY <1>1, <2>1, <2>4 DEF CommandBegins, CommandBars, CommandFails, StopBars, StopFails,
       hermesVars, RunsStep
  <2> QED BY <1>2, <2>2, <2>3, <2>4 DEF CommandStep
<1>3. CASE HermesStep
  BY <1>1, <1>3 DEF HermesStep, HermesCreates, HermesUsesTools, HermesEnds, HermesUnchanged,
     RunsStep, RunStates
<1>4. CASE \E k \in ItemKeys : ApiHandles(k)
  BY <1>1, <1>4, ApiKeeps DEF RunsStep
<1>5. CASE Restart \/ CutOver
  <2>1. UNCHANGED <<tools, lost>>
    BY <1>5, RestartsKeep
  <2>2. UNCHANGED runs \/ StopRunOrNot(<<task.gen, task.run>>)
    BY <1>5 DEF Restart, CutOver, hermesVars
  <2> QED BY <1>1, <2>1, <2>2, StoppedRunIs DEF RunsStep
<1> QED BY <1>2, <1>3, <1>4, <1>5

LEMMA StepKeepsRest ==
    ASSUME WorkInv, RestTypes, Next
    PROVE  RestTypes'
<1>1. runs' \in [RunKeys -> RunStates] /\ tools' \subseteq RunKeys /\ lost' \subseteq Generations
  BY WorkerRestTypes, OtherRestTypes, RunsStepKept DEF RestTypes, Next
<1>2. commands' = commands \/ \E op \in Commands : commands' = Append(commands, op)
  <2>1. CASE CommandStep
    BY <2>1 DEF CommandStep, CommandBegins, CommandBars, CommandFails, CommandStopsRun,
       CommandActs, StopBars, StopCancels, StopFails, Commands
  <2> QED BY <2>1, WorkerKeeps, HermesKeeps, ApiKeeps, RestartsKeep DEF Next
<1>3. commands' \in Seq(Commands)
  BY <1>2 DEF RestTypes
<1>4. release' \in {"tasks", "chat"} /\ stop' \in {"none", "barred"}
  <2>1. CASE CommandStep
    BY <2>1, CommandsKeep DEF RestTypes, CommandStep, CommandBegins, CommandBars,
       CommandFails, CommandStopsRun, CommandActs, StopBars, StopCancels, StopFails
  <2>2. CASE Restart \/ CutOver
    BY <2>2, RestartsKeep DEF RestTypes, Restart, CutOver
  <2> QED BY <2>1, <2>2, WorkerKeeps, HermesKeeps, ApiKeeps DEF Next, RestTypes
<1>5. barred' \subseteq Generations
  <2>1. barred' = barred \/ (CommandBars /\ barred' \subseteq barred \cup {cmd.gen})
    <3>1. CASE CommandStep
      BY <3>1 DEF CommandStep, CommandBegins, CommandBars, CommandFails, CommandStopsRun,
         CommandActs, StopBars, StopCancels, StopFails, apiVars
    <3> QED BY <3>1, WorkerKeeps, HermesKeeps, ApiKeeps, RestartsKeep DEF Next
  <2>2. CommandBars => cmd.gen \in Generations
    BY DEF CommandBars, WorkInv, CommandHolds
  <2> QED BY <2>1, <2>2 DEF RestTypes
<1> QED BY <1>1, <1>3, <1>4, <1>5 DEF RestTypes

LEMMA InitItems == ASSUME Init PROVE ItemInv /\ RestTypes
<1>1. \A g \in Generations : outbox[g] = <<>> /\ Len(outbox[g]) = 0
  BY DEF Init
<1>2. ItemInv
  BY <1>1 DEF Init, ItemInv, ApiStates
<1>3. RestTypes
  BY EmptySeq DEF Init, RestTypes, RunStates
<1> QED BY <1>2, <1>3

-----------------------------------------------------------------------------
(* The cut-over *)

AllSettled(ob) ==
    \A g \in Generations : \A i \in DOMAIN ob[g] : ob[g][i].state \in Settled

\* In the chat-only release nothing is left to do, and nobody to do it.
ChatInv ==
    release = "chat" =>
        /\ task.status \in Terminal /\ AllSettled(outbox)
        /\ worker.pc = "idle" /\ cmd.op \in {"none", "cancel", "media"}

\* What the chat-only release may still do to the task and to the runs
ChatStep ==
    /\ task'.status = task.status /\ UNCHANGED worker
    /\ outbox' = outbox \/ (\E g \in Generations : outbox' = Withdrawn(outbox, g))
         \/ outbox' = MediaWithdrawn
    /\ cmd' = cmd \/ cmd' = NoCommand \/ cmd'.op \in {"cancel", "media"} \/ cmd'.op = cmd.op

NothingAsked == \A k \in RunKeys : runs'[k] = "asked" => runs[k] = "asked"

LEMMA StopsAskNothing ==
    ASSUME runs \in [RunKeys -> RunStates], NEW k
    PROVE  /\ UNCHANGED runs => NothingAsked
           /\ k \in RunKeys /\ runs' = StoppedRun(k) => NothingAsked
           /\ StopRun(k) \/ StopRunOrNot(k) => NothingAsked
<1>1. UNCHANGED runs => NothingAsked
  BY DEF NothingAsked
<1>2. ASSUME k \in RunKeys, runs' = StoppedRun(k) PROVE NothingAsked
  BY <1>2 DEF StoppedRun, NothingAsked
<1>3. StopRun(k) => NothingAsked
  BY <1>1, <1>2 DEF StopRun
<1>4. StopRunOrNot(k) => NothingAsked
  BY <1>1, <1>2 DEF StopRunOrNot
<1> QED BY <1>1, <1>2, <1>3, <1>4

LEMMA CanceledStatus ==
    ASSUME WorkInv, task.status \in Terminal, CancelTask
    PROVE  /\ task'.status = task.status
           /\ outbox' = Withdrawn(outbox, task.gen) /\ task.gen \in Generations
<1>1. Ends(task, task') /\ Row(task) /\ task.gen \in Generations
  BY CancelEnds DEF WorkInv, Row, TaskRow
<1> DEFINE active == task.status \in {"queued", "running"}
           u == [task EXCEPT !.status = IF @ = "queued" THEN "canceled" ELSE @,
                             !.cancel = @ \/ active \/ ~task.sent,
                             !.quiet = @ \/ active \/ ~task.sent]
<1>2. task' = Sync(u, outbox', task.gen)
  BY DEF CancelTask, Canceled
<1>3. u \in TaskRow /\ u.status = task.status
  BY <1>1 DEF Row, TaskRow, Terminal
<1> HIDE DEF u
<1>4. SameTask(u, task')
  BY <1>2, <1>3, SyncKeeps
<1> QED BY <1>1, <1>3, <1>4 DEF SameTask, CancelTask

LEMMA CommandsInChat ==
    ASSUME WorkInv, RestTypes, ChatInv, release = "chat", CommandStep
    PROVE  ChatStep /\ NothingAsked
<1>1. /\ Row(task) /\ task.status \in Terminal /\ worker.pc = "idle"
      /\ cmd.op \in {"none", "cancel", "media"} /\ CommandTypes /\ CommandHolds
      /\ runs \in [RunKeys -> RunStates]
  BY DEF WorkInv, RestTypes, ChatInv
<1>2. UNCHANGED worker
  BY CommandsKeep
<1>3. ASSUME NEW op \in {"cancel", "modify", "retry", "media"}, CommandBegins(op)
      PROVE  ChatStep /\ NothingAsked
  <2>1. op \in {"cancel", "media"}
    BY <1>3 DEF CommandBegins, MayCommand
  <2>2. UNCHANGED <<task, outbox, runs>> /\ cmd'.op = op
    BY <1>3, <2>1 DEF CommandBegins, NeedsBarrier, hermesVars
  <2> QED BY <1>1, <1>2, <2>1, <2>2, StopsAskNothing DEF ChatStep
<1>4. CASE CommandBars \/ CommandFails \/ StopBars \/ StopFails
  <2>1. UNCHANGED <<task, outbox, runs>>
    BY <1>4 DEF CommandBars, CommandFails, StopBars, StopFails, taskVars, hermesVars
  <2>2. cmd' = cmd \/ cmd' = NoCommand \/ cmd'.op = cmd.op
    BY <1>1, <1>4 DEF CommandBars, CommandFails, StopBars, StopFails, CommandTypes
  <2> QED BY <1>1, <1>2, <2>1, <2>2, StopsAskNothing DEF ChatStep
<1>5. ~CommandStopsRun
  BY <1>1 DEF CommandStopsRun
<1>6. CASE CommandActs
  <2>1. cmd' = NoCommand /\ cmd.op \in {"cancel", "media"}
    BY <1>1, <1>6 DEF CommandActs, CommandHolds
  <2>2. CASE cmd.op = "cancel"
    <3>1. CancelTask /\ StopRun(<<cmd.gen, cmd.run>>)
      BY <1>6, <2>2 DEF CommandActs
    <3> QED BY <1>1, <1>2, <2>1, <3>1, CanceledStatus, StopsAskNothing DEF ChatStep
  <2>3. CASE cmd.op = "media"
    <3>1. SuppressMedia /\ UNCHANGED runs
      BY <1>6, <2>3 DEF CommandActs
    <3>2. task'.status = task.status
      <4>1. UNCHANGED task \/ \E g \in Generations : task' = Sync(task, outbox', g)
        BY <3>1 DEF SuppressMedia
      <4> QED BY <1>1, <4>1, SyncKeeps DEF SameTask, Row
    <3> QED BY <1>1, <1>2, <2>1, <3>1, <3>2, StopsAskNothing DEF ChatStep, SuppressMedia
  <2> QED BY <2>1, <2>2, <2>3
<1>7. CASE StopCancels
  <2>1. UNCHANGED <<task, outbox>> \/ CancelTask
    BY <1>7 DEF StopCancels
  <2>2. UNCHANGED <<runs, cmd>>
    BY <1>1, <1>7 DEF StopCancels, Terminal
  <2> QED BY <1>1, <1>2, <2>1, <2>2, CanceledStatus, StopsAskNothing DEF ChatStep
<1> QED BY <1>3, <1>4, <1>5, <1>6, <1>7 DEF CommandStep

LEMMA ChatStepSettled ==
    ASSUME Shape(outbox), AllSettled(outbox), ChatStep
    PROVE  AllSettled(outbox')
<1>1. \A g \in Generations : outbox[g] \in Seq(ItemRow) /\ DOMAIN outbox[g] = 1..Len(outbox[g])
  BY LenProperties DEF Shape
<1>2. ASSUME NEW g \in Generations, outbox' = Withdrawn(outbox, g)
      PROVE  outbox' = outbox
  <2>1. \A i \in DOMAIN outbox[g] : outbox[g][i].state # "prepared"
    BY DEF AllSettled, Settled
  <2>2. Move(outbox[g], "prepared", "suppressed") = [i \in DOMAIN outbox[g] |-> outbox[g][i]]
    BY <2>1 DEF Move
  <2>3. outbox[g] = [i \in DOMAIN outbox[g] |-> outbox[g][i]]
    BY <1>1, LenProperties
  <2> QED BY <1>2, <2>2, <2>3 DEF Withdrawn, Shape
<1>3. ASSUME outbox' = MediaWithdrawn
      PROVE  AllSettled(outbox')
  <2>1. ASSUME NEW g \in Generations
        PROVE  \A i \in DOMAIN outbox'[g] : outbox'[g][i].state \in Settled
    <3>1. \A i \in DOMAIN outbox[g] : outbox[g][i].state \in Settled /\
                                        outbox[g][i].state # "prepared"
      BY DEF AllSettled, Settled
    <3>2. outbox'[g] = [i \in DOMAIN outbox[g] |-> outbox[g][i]]
      BY <1>3, <3>1 DEF MediaWithdrawn
    <3> QED BY <3>1, <3>2
  <2> QED BY <2>1 DEF AllSettled
<1> QED BY <1>2, <1>3 DEF ChatStep

\* A step of the chat-only release, or into it
LEMMA StepsInChat ==
    ASSUME WorkInv, RestTypes, ChatInv, Next, release' = "chat"
    PROVE  ChatInv' /\ NothingAsked /\ posts' \subseteq posts
<1>1. /\ Shape(outbox) /\ Row(task) /\ runs \in [RunKeys -> RunStates]
      /\ CommandTypes /\ CommandHolds
  BY DEF WorkInv, RestTypes
<1>2. CASE CutOver
  <2>1. Quarantines /\ UNCHANGED posts /\ worker'.pc = "idle" /\ cmd'.op = "none"
    BY <1>2, OtherEffects, RestartsKeep DEF Idle, NoCommand
  <2>2. AllSettled(outbox')
    <3>1. /\ Shape(outbox')
          /\ \A g \in Generations :
                /\ Len(outbox'[g]) = Len(outbox[g])
                /\ \A i \in 1..Len(outbox[g]) :
                      outbox'[g][i].state = CASE outbox[g][i].state = "prepared" -> "suppressed"
                                              [] outbox[g][i].state = "sending"  -> "uncertain"
                                              [] OTHER                       -> outbox[g][i].state
      BY <1>1, <2>1, QuarantinedIs DEF Quarantines
    <3>2. ASSUME NEW g \in Generations
          PROVE  /\ DOMAIN outbox'[g] = 1..Len(outbox[g])
                 /\ \A i \in 1..Len(outbox[g]) : outbox[g][i] \in ItemRow
      BY <1>1, <3>1, LenProperties DEF Shape
    <3> QED BY <3>1, <3>2 DEF AllSettled, ItemRow, Settled
  <2>3. NothingAsked
    BY <1>1, <1>2, StopsAskNothing DEF CutOver
  <2> QED BY <2>1, <2>2, <2>3 DEF Quarantines, ChatInv
<1>3. ASSUME ~CutOver
      PROVE  release = "chat"
  BY <1>3, WorkerKeeps, CommandsKeep, HermesKeeps, ApiKeeps DEF Next, Restart
<1>4. ASSUME release = "chat"
      PROVE  /\ task.status \in Terminal /\ AllSettled(outbox)
             /\ worker.pc = "idle" /\ cmd.op \in {"none", "cancel", "media"}
             /\ ~WorkerStep /\ ~Restart
  <2>1. worker.pc = "idle"
    BY <1>4 DEF ChatInv
  <2>2. ~WorkerIdle
    BY <1>4 DEF WorkerIdle
  <2>3. ~WorkerStep
    BY <2>1, <2>2 DEF WorkerStep, ExpireBlocked, PrepareTerminal, Claim, DeliverBegins,
       DeliverChecks, DeliverHears, DeliverNotPosted, DeliverAsks, DeliverProbes,
       StartPosts, StartRefused, StartUncertain, StartAnswered, OverLimit, CancelWatch,
       WaitEnds, WaitEndsUnaware, RepairEnds, WaitBreaks, WaitMissing, WaitTimesOut
  <2> QED BY <1>4, <2>3 DEF ChatInv, Restart
<1>5. CASE CommandStep /\ release = "chat"
  <2>1. ChatStep /\ NothingAsked /\ UNCHANGED <<worker, posts>>
    BY <1>5, CommandsInChat, CommandsKeep
  <2>2. AllSettled(outbox')
    BY <1>1, <1>4, <1>5, <2>1, ChatStepSettled
  <2> QED BY <1>4, <1>5, <2>1, <2>2 DEF ChatStep, ChatInv, NoCommand
<1>6. CASE HermesStep /\ release = "chat"
  <2>1. UNCHANGED <<outbox, release, worker, cmd, posts>>
    BY <1>6, HermesKeeps
  <2>2. UNCHANGED task
    BY <1>4, <1>6 DEF HermesStep, HermesCreates, HermesUsesTools, HermesEnds, Registered,
       taskVars, Terminal
  <2>3. NothingAsked
    BY <1>1, <1>6 DEF HermesStep, HermesCreates, HermesUsesTools, HermesEnds, NothingAsked
  <2> QED BY <1>4, <1>6, <2>1, <2>2, <2>3 DEF ChatInv
<1>7. CASE (\E k \in ItemKeys : ApiHandles(k)) /\ release = "chat"
  <2>1. UNCHANGED <<task, outbox, release, worker, cmd, runs>> /\ posts' \subseteq posts
    BY <1>7, ApiKeeps
  <2> QED BY <1>1, <1>4, <1>7, <2>1, StopsAskNothing DEF ChatInv
<1> QED BY <1>2, <1>3, <1>4, <1>5, <1>6, <1>7 DEF Next

-----------------------------------------------------------------------------
(* The runs of a generation *)

RunPcs == {"start", "created", "wait", "repair"}

\* A worker that is at a run of the present generation is at its last attempt.
HoldsRun ==
    /\ worker.pc \in RunPcs /\ worker.gen = task.gen =>
          /\ task.status = "running" /\ task.attempts = worker.n
          /\ worker.pc \in {"start", "created"} => task.run = 0
          /\ worker.pc \in {"wait", "repair"} => task.run = worker.n
    /\ task.status = "running" /\ task.run # 0 => task.run = task.attempts
    /\ task.status = "queued" => task.run = 0

\* What stays as it is unless the worker lets go of its run
SameStanding(t, u) ==
    u.status = t.status /\ u.gen = t.gen /\ u.run = t.run /\ u.attempts = t.attempts

LEMMA WithdrawnStanding ==
    ASSUME WorkInv, task.status = "running", CancelTask
    PROVE  SameStanding(task, task')
<1> DEFINE active == task.status \in {"queued", "running"}
           u == [task EXCEPT !.status = IF @ = "queued" THEN "canceled" ELSE @,
                             !.cancel = @ \/ active \/ ~task.sent,
                             !.quiet = @ \/ active \/ ~task.sent]
<1>1. task' = Sync(u, outbox', task.gen)
  BY DEF CancelTask, Canceled
<1>2. u \in TaskRow /\ SameStanding(task, u)
  BY DEF WorkInv, Row, TaskRow, SameStanding
<1> HIDE DEF u
<1>3. SameTask(u, task')
  BY <1>1, <1>2, SyncKeeps
<1> QED BY <1>2, <1>3 DEF SameTask, SameStanding

\* As long as the worker is at a run, nobody else ends the task.
LEMMA RunStays ==
    ASSUME WorkInv, Next, task.status = "running", worker.pc \in RunPcs,
           ~Rests(worker'), ~Replaces
    PROVE  /\ SameStanding(task, task') \/ Binds
           /\ worker'.gen = worker.gen /\ worker'.n = worker.n
           /\ worker'.pc = worker.pc \/ (worker.pc = "start" /\ worker'.pc = "created")
                \/ (worker.pc = "wait" /\ worker'.pc = "repair") \/ Binds
<1>1. /\ Row(task) /\ Shape(outbox) /\ WorkerTypes /\ Rests(Idle)
      /\ {"succeeded", "failed", "canceled"} = Terminal
  BY IdleRests DEF WorkInv, Terminal
<1>2. UNCHANGED task => SameStanding(task, task')
  BY DEF SameStanding
<1>3. CASE WorkerStep
  <2>1. CASE \/ ExpireBlocked \/ PrepareTerminal \/ Claim \/ DeliverChecks
             \/ DeliverHears \/ DeliverNotPosted \/ DeliverAsks \/ DeliverProbes
             \/ \E k \in ItemKeys : DeliverBegins(k)
    BY <2>1 DEF ExpireBlocked, PrepareTerminal, Claim, DeliverBegins, DeliverChecks,
       DeliverHears, DeliverNotPosted, DeliverAsks, DeliverProbes, WorkerIdle, RunPcs
  <2>2. CASE StartPosts
    BY <1>1, <1>2, <2>2 DEF StartPosts, WorkerTypes
  <2>3. CASE StartAnswered
    <3>1. CASE Superseded \/ task.cancel
      <4>1. FinishOwn("canceled") \/ RetryOwn
        BY <2>3, <3>1 DEF StartAnswered
      <4> QED BY <1>1, <4>1, FinishOwnIs, RetryOwnIs
    <3>2. CASE ~(Superseded \/ task.cancel)
      <4>1. Binds
        BY <2>3, <3>2 DEF StartAnswered, Binds
      <4> QED BY <1>1, <4>1 DEF Binds, WorkerTypes
    <3> QED BY <3>1, <3>2
  <2>4. CASE OverLimit
    BY <1>1, <2>4 DEF OverLimit, SameStanding, Row, TaskRow
  <2>5. CASE CancelWatch
    BY <1>2, <2>5 DEF CancelWatch
  <2>6. CASE StartRefused \/ WaitEndsUnaware \/ WaitMissing
    BY <1>1, <2>6, RetryOwnIs DEF StartRefused, WaitEndsUnaware, WaitMissing
  <2>7. CASE StartUncertain \/ WaitBreaks
    BY <1>1, <2>7 DEF StartUncertain, WaitBreaks, Drop
  <2>8. CASE WaitTimesOut
    BY <1>1, <2>8, FinishOwnIs DEF WaitTimesOut
  <2>9. CASE RepairEnds
    BY <1>1, <2>9, JudgeIs DEF RepairEnds
  <2>10. CASE WaitEnds
    <3>1. /\ ~(\E status \in Terminal : FinishOwn(status))
          /\ ~Drop /\ ~RetryOwn /\ ~Judge
      BY <1>1, FinishOwnIs, DropIs, RetryOwnIs, JudgeIs
    <3>2. worker.pc = "wait" /\ worker' = [worker EXCEPT !.pc = "repair"] /\ UNCHANGED task
      BY <1>1, <2>10, <3>1 DEF WaitEnds
    <3> QED BY <1>1, <1>2, <3>2 DEF WorkerTypes
  <2> QED BY <1>3, <2>1, <2>2, <2>3, <2>4, <2>5, <2>6, <2>7, <2>8, <2>9, <2>10
          DEF WorkerStep
<1>4. CASE CommandStep
  <2>1. UNCHANGED worker
    BY <1>4, CommandsKeep
  <2>2. CASE \/ CommandBars \/ CommandFails \/ CommandStopsRun \/ StopBars \/ StopFails
    BY <1>2, <2>1, <2>2 DEF CommandBars, CommandFails, CommandStopsRun, StopBars, StopFails,
       taskVars
  <2>3. ASSUME NEW op \in {"cancel", "modify", "retry", "media"}, CommandBegins(op)
        PROVE  UNCHANGED task
    BY <2>3 DEF CommandBegins, NeedsBarrier, Rotates
  <2>4. CASE CommandActs
    <3>1. cmd.op \in {"cancel", "modify", "retry", "media"}
      BY <2>4 DEF CommandActs, WorkInv, CommandTypes, CommandHolds
    <3>2. CASE cmd.op = "cancel"
      BY <2>1, <2>4, <3>2, WithdrawnStanding DEF CommandActs
    <3>3. CASE cmd.op = "media"
      <4>1. UNCHANGED task \/ \E g \in Generations : task' = Sync(task, outbox', g)
        BY <2>4, <3>3 DEF CommandActs, SuppressMedia
      <4> QED BY <1>1, <1>2, <2>1, <4>1, SyncKeeps DEF SameTask, SameStanding, Row
    <3>4. CASE cmd.op = "retry"
      BY <1>2, <2>1, <2>4, <3>4 DEF CommandActs, Retry
    <3>5. CASE cmd.op = "modify"
      <4>1. Revise /\ Rotates
        BY <2>4, <3>5 DEF CommandActs, Rotates
      <4>2. Replaces
        BY <2>1, <2>4, <3>5, <4>1, WithdrawnProgress DEF CommandActs, Revise, Replaces,
           WorkInv, Row, TaskRow
      <4> QED BY <4>2
    <3> QED BY <3>1, <3>2, <3>3, <3>4, <3>5
  <2>5. CASE StopCancels
    <3>1. CancelTask
      BY <2>5 DEF StopCancels, Terminal
    <3> QED BY <2>1, <3>1, WithdrawnStanding
  <2> QED BY <1>2, <1>4, <2>1, <2>2, <2>3, <2>4, <2>5 DEF CommandStep
<1>5. CASE HermesStep
  <2>1. SameStanding(task, task')
    BY <1>2, <1>5 DEF HermesStep, HermesCreates, HermesUsesTools, HermesEnds, Registered,
       taskVars, SameStanding, WorkInv, Row, TaskRow
  <2> QED BY <1>5, <2>1, HermesKeeps
<1>6. CASE \E k \in ItemKeys : ApiHandles(k)
  BY <1>2, <1>6, ApiKeeps
<1>7. CASE Restart \/ CutOver
  BY <1>1, <1>7, RestartsKeep
<1> QED BY <1>3, <1>4, <1>5, <1>6, <1>7 DEF Next

\* Where a task that may be claimed comes from: it was one; it is of a new
\* generation; its attempt was taken back; or the worker gave up its run.
FromNew == task'.gen = task.gen + 1 /\ task'.attempts = 0
FromTakenBack ==
    /\ task.status = "running" /\ task.run = 0
    /\ task'.gen = task.gen /\ task'.attempts = task.attempts - 1
FromGivenUp ==
    /\ worker.pc \in RunPcs /\ worker.gen = task.gen /\ Releases(task, task')
    /\ \/ StartRefused \/ worker.gen \in lost'
       \/ runs[RunKey] = "failed" /\ RunKey \notin tools /\ UNCHANGED hermesVars

LEMMA RequeuedFrom ==
    ASSUME WorkInv, HoldsRun, SameTask(Requeued(task), task'), task'.status = "queued"
    PROVE  (SameStanding(task, task') /\ task'.blocked = task.blocked) \/ FromTakenBack
<1>1. CASE task.status = "running" /\ task.run = 0
  <2>1. worker.pc \in RunPcs /\ worker.gen = task.gen /\ worker.n \in 1..max_attempts
    BY <1>1 DEF WorkInv, WorkerHolds, RunPcs
  <2>2. task.attempts > 0 /\ task \in TaskRow
    BY <2>1, Bounds DEF HoldsRun, WorkInv, Row
  <2>3. Requeued(task).gen = task.gen /\ Requeued(task).attempts = task.attempts - 1
    BY <1>1, <2>2 DEF Requeued, TaskRow
  <2> QED BY <1>1, <2>3 DEF SameTask, FromTakenBack
<1>2. CASE ~(task.status = "running" /\ task.run = 0)
  BY <1>2 DEF Requeued, SameTask, SameStanding
<1> QED BY <1>1, <1>2

\* A canceled task is not queued again.
LEMMA RetryOwnCanceled ==
    ASSUME Row(task), ~Superseded, task.cancel, RetryOwn
    PROVE  task'.status = "canceled"
<1> DEFINE t == Retried(task, worker.gen)
<1>1. t.status = "canceled" /\ t \in TaskRow
  BY RetriedIs DEF Retried, Superseded, Row, TaskRow
<1>2. task' = t \/ task' = Sync(t, outbox', t.gen)
  BY DEF RetryOwn
<1> HIDE DEF t
<1> QED BY <1>1, <1>2, SyncKeeps DEF SameTask

LEMMA GivenUpFrom ==
    ASSUME WorkInv, HoldsRun, Next, LeavesRun, task'.status = "queued", ~task'.blocked
    PROVE  FromTakenBack \/ FromGivenUp
<1>1. /\ Row(task) /\ Shape(outbox) /\ WorkerTypes /\ ~Superseded /\ Rests(worker')
      /\ worker.pc \in {"start", "created", "wait"} /\ worker.gen = task.gen
      /\ task.status = "running" /\ worker.pc \in RunPcs
      /\ {"succeeded", "failed", "canceled"} = Terminal
  BY DEF LeavesRun, WorkInv, Terminal, HoldsRun, Superseded, RunPcs
<1>2. ASSUME task' = task PROVE FALSE
  BY <1>1, <1>2
<1>3. ASSUME NEW status \in Terminal, FinishOwn(status) PROVE FALSE
  BY <1>1, <1>3, FinishOwnIs DEF Terminal
<1>4. ASSUME Drop PROVE FALSE
  BY <1>2, <1>4 DEF Drop
<1>5. ASSUME Judge PROVE FALSE
  BY <1>1, <1>5, JudgeIs, <1>3, <1>4, QuestionIs DEF Judge, Waits
<1>6. ASSUME RetryOwn PROVE Releases(task, task')
  BY <1>1, <1>6, RetryOwnIs
<1>7. ASSUME worker'.pc \in RunPcs PROVE FALSE
  BY <1>1, <1>7 DEF Rests, RunPcs
<1>8. CASE WorkerStep
  <2>1. CASE \/ ExpireBlocked \/ PrepareTerminal \/ Claim \/ DeliverChecks
             \/ DeliverHears \/ DeliverNotPosted \/ DeliverAsks \/ DeliverProbes
             \/ RepairEnds \/ \E k \in ItemKeys : DeliverBegins(k)
    BY <1>1, <2>1 DEF ExpireBlocked, PrepareTerminal, Claim, DeliverBegins, DeliverChecks,
       DeliverHears, DeliverNotPosted, DeliverAsks, DeliverProbes, RepairEnds, WorkerIdle
  <2>2. CASE StartPosts \/ OverLimit \/ CancelWatch
    BY <1>1, <1>7, <2>2 DEF StartPosts, OverLimit, CancelWatch, WorkerTypes, RunPcs
  <2>3. CASE StartAnswered
    <3>1. \/ worker' = [worker EXCEPT !.pc = "wait"] \/ FinishOwn("canceled")
          \/ RetryOwn /\ task.cancel
      BY <1>1, <2>3 DEF StartAnswered
    <3> QED BY <1>1, <1>3, <1>7, <3>1, RetryOwnCanceled DEF WorkerTypes, RunPcs
  <2>4. CASE StartRefused
    BY <1>1, <1>6, <2>4 DEF StartRefused, FromGivenUp
  <2>5. CASE StartUncertain
    <3>1. task' = Requeued(task) /\ Row(task')
      BY <1>1, <2>5, RequeuedIs DEF StartUncertain
    <3> QED BY <1>1, <3>1, RequeuedFrom DEF SameTask, SameStanding, Row
  <2>6. CASE WaitEndsUnaware \/ WaitMissing
    BY <1>1, <1>6, <2>6 DEF WaitEndsUnaware, WaitMissing, FromGivenUp
  <2>7. CASE WaitBreaks \/ WaitTimesOut
    BY <1>1, <1>3, <1>4, <2>7 DEF WaitBreaks, WaitTimesOut
  <2>8. CASE WaitEnds
    <3>1. \/ worker' = [worker EXCEPT !.pc = "repair"]
          \/ RetryOwn /\ runs[RunKey] = "failed" /\ ~ToolsKnown /\ UNCHANGED hermesVars
      BY <1>1, <1>3, <1>4, <1>5, <2>8 DEF WaitEnds
    <3> QED BY <1>1, <1>6, <1>7, <3>1 DEF WorkerTypes, RunPcs, ToolsKnown, FromGivenUp
  <2> QED BY <1>8, <2>1, <2>2, <2>3, <2>4, <2>5, <2>6, <2>7, <2>8 DEF WorkerStep
<1>9. CASE CommandStep \/ HermesStep \/ \E k \in ItemKeys : ApiHandles(k)
  BY <1>1, <1>7, <1>9, CommandsKeep, HermesKeeps, ApiKeeps
<1>10. CASE Restart
  BY <1>1, <1>10, OtherEffects, RequeuedFrom DEF Requeues, SameStanding
<1>11. CASE CutOver
  BY <1>1, <1>11, OtherEffects DEF Quarantines
<1> QED BY <1>8, <1>9, <1>10, <1>11 DEF Next

LEMMA QueuedFrom ==
    ASSUME WorkInv, HoldsRun, Next, task'.status = "queued", ~task'.blocked
    PROVE  \/ SameStanding(task, task') /\ task'.blocked = task.blocked
           \/ FromNew \/ FromTakenBack \/ FromGivenUp
<1>1. Row(task) /\ Shape(outbox) /\ "queued" \notin Terminal
  BY DEF WorkInv, Terminal
<1>2. ASSUME Ends(task, task')
      PROVE  SameStanding(task, task') /\ task'.blocked = task.blocked
  BY <1>1, <1>2 DEF Ends, SameStanding
<1>3. CASE Quiet \/ Sends \/ (\E state \in States : Delivers(state)) \/ Quarantines
  BY <1>2, <1>3 DEF Quiet, Sends, Delivers, Quarantines
<1>4. CASE \E k \in ItemKeys : Takes(k)
  BY <1>4 DEF Takes, SameStanding
<1>5. CASE Claims
  BY <1>1, <1>5, ClaimedIs DEF Claims
<1>6. CASE LeavesRun
  BY <1>6, GivenUpFrom
<1>7. CASE Binds
  <2>1. worker.n \in 1..max_attempts /\ worker.gen = task.gen /\ worker.pc \in RunPcs
    BY <1>7 DEF Binds, WorkInv, WorkerHolds, Superseded, RunPcs
  <2>2. task.status = "running" /\ task'.status = task.status
    BY <1>1, <1>7, <2>1, BoundIs DEF Binds, HoldsRun
  <2> QED BY <2>2
<1>8. CASE AsksPeople
  BY <1>8 DEF AsksPeople, Waits
<1>9. CASE Replaces
  BY <1>1, <1>9, NextGenerationIs DEF Replaces, FromNew, WorkInv, CommandHolds
<1>10. CASE Requeues
  BY <1>10, RequeuedFrom DEF Requeues
<1> QED BY <1>3, <1>4, <1>5, <1>6, <1>7, <1>8, <1>9, <1>10, StepKinds DEF Kinds

\* Where a running task comes from
LEMMA RunningFrom ==
    ASSUME WorkInv, HoldsRun, Next, task'.status = "running"
    PROVE  /\ task'.gen = task.gen
           /\ \/ task.status = "running" /\ task'.attempts = task.attempts
                   /\ (task'.run = task.run \/ Binds)
              \/ Claims /\ Claimable /\ task'.attempts = task.attempts + 1 /\ task'.run = 0
<1>1. Row(task) /\ Shape(outbox) /\ "running" \notin Terminal
  BY DEF WorkInv, Terminal
<1>2. CASE Quiet \/ Sends \/ (\E state \in States : Delivers(state)) \/ Quarantines
  BY <1>1, <1>2 DEF Quiet, Sends, Delivers, Quarantines, Ends
<1>3. CASE \E k \in ItemKeys : Takes(k)
  BY <1>3 DEF Takes
<1>4. CASE Claims
  BY <1>1, <1>4, ClaimedIs DEF Claims, Recovering, Claimable, HoldsRun
<1>5. CASE LeavesRun
  <2>1. ~Releases(task, task')
    BY DEF Releases
  <2>2. task' = Requeued(task) /\ task.status = "running" /\ task.run = 0
    BY <1>5, <2>1 DEF LeavesRun, HoldsRun, Superseded, RunPcs
  <2> QED BY <1>1, <2>2, RequeuedIs
<1>6. CASE Binds
  <2>1. worker.n \in 1..max_attempts /\ worker.gen = task.gen /\ worker.pc \in RunPcs
    BY <1>6 DEF Binds, WorkInv, WorkerHolds, Superseded, RunPcs
  <2> QED BY <1>1, <1>6, <2>1, BoundIs DEF Binds, HoldsRun
<1>7. CASE AsksPeople
  BY <1>7 DEF AsksPeople, Waits
<1>8. CASE Replaces
  BY <1>1, <1>8, NextGenerationIs DEF Replaces, WorkInv, CommandHolds
<1>9. CASE Requeues
  BY <1>1, <1>9 DEF Requeues, SameTask, Requeued
<1> QED BY <1>2, <1>3, <1>4, <1>5, <1>6, <1>7, <1>8, <1>9, StepKinds DEF Kinds

LEMMA StepHoldsRun ==
    ASSUME WorkInv, HoldsRun, Next
    PROVE  HoldsRun'
<1>1. /\ Row(task) /\ Shape(outbox) /\ WorkerTypes /\ WorkerHolds /\ Kinds
      /\ "queued" \notin Terminal /\ "running" \notin Terminal
      /\ task.gen \in Nat /\ worker.gen \in Nat
  BY StepKinds, Bounds DEF WorkInv, Terminal, Row, TaskRow, WorkerTypes, Generations
<1>2. ~Replaces => task'.gen = task.gen
  BY <1>1, KindsKeepRow
<1>3. Replaces => task'.gen = task.gen + 1 /\ worker' = worker
  BY <1>1, KindsKeepRow DEF Replaces
<1>4. Binds => /\ worker.gen = task.gen /\ worker.pc \in RunPcs /\ task'.run = worker.n
               /\ task'.status = task.status /\ task'.attempts = task.attempts
               /\ worker'.pc = "wait"
  <2> SUFFICES ASSUME Binds
               PROVE  /\ worker.gen = task.gen /\ worker.pc \in RunPcs
                      /\ task'.run = worker.n /\ task'.status = task.status
                      /\ task'.attempts = task.attempts /\ worker'.pc = "wait"
    OBVIOUS
  <2>1. worker.gen = task.gen /\ worker.pc \in RunPcs /\ worker.n \in 1..max_attempts
    BY <1>1 DEF Binds, Superseded, RunPcs, WorkerHolds
  <2> QED BY <1>1, <2>1, BoundIs DEF Binds, WorkerTypes
<1>5. ASSUME worker'.pc \in RunPcs, worker'.gen = task'.gen
      PROVE  /\ task'.status = "running" /\ task'.attempts = worker'.n
             /\ worker'.pc \in {"start", "created"} => task'.run = 0
             /\ worker'.pc \in {"wait", "repair"} => task'.run = worker'.n
  <2>1. ~Rests(worker')
    BY <1>5 DEF Rests, RunPcs
  <2>2. ~Replaces
    BY <1>1, <1>3, <1>5 DEF WorkerHolds
  <2>3. CASE worker.pc \in RunPcs /\ worker.gen = task.gen
    <3>1. /\ task.status = "running" /\ task.attempts = worker.n
          /\ worker.pc \in {"start", "created"} => task.run = 0
          /\ worker.pc \in {"wait", "repair"} => task.run = worker.n
      BY <2>3 DEF HoldsRun
    <3>2. /\ SameStanding(task, task') \/ Binds
          /\ worker'.n = worker.n
          /\ worker'.pc = worker.pc \/ (worker.pc = "start" /\ worker'.pc = "created")
               \/ (worker.pc = "wait" /\ worker'.pc = "repair") \/ Binds
      BY <2>1, <2>2, <2>3, <3>1, RunStays
    <3>3. CASE Binds
      BY <1>4, <3>1, <3>2, <3>3
    <3>4. CASE ~Binds
      BY <3>1, <3>2, <3>4 DEF SameStanding, RunPcs
    <3> QED BY <3>3, <3>4
  <2>4. CASE ~(worker.pc \in RunPcs /\ worker.gen = task.gen)
    <3>1. ~Quiet
      BY <1>1, <1>2, <1>5, <2>1, <2>2, <2>4 DEF Quiet, WorkerGoesOn, Turns, WorkerTypes, RunPcs
    <3>2. /\ ~LeavesRun /\ ~AsksPeople /\ ~Requeues /\ ~Quarantines /\ ~Binds
          /\ ~(\E k \in ItemKeys : Takes(k)) /\ ~(\E state \in States : Delivers(state))
      BY <1>4, <1>5, <2>1, <2>4, IdleRests DEF LeavesRun, AsksPeople, Requeues, Quarantines,
         Takes, Delivers, RunPcs
    <3>3. ~Sends
      BY <1>1, <1>5 DEF Sends, WorkerTypes, RunPcs
    <3>4. Claims
      BY <1>1, <2>2, <3>1, <3>2, <3>3 DEF Kinds
    <3>5. /\ task' = Claimed /\ Row(Claimed) /\ Claimed.status = "running"
          /\ Claimed.run = task.run
          /\ Claimed.attempts = IF Recovering THEN task.attempts ELSE task.attempts + 1
      BY <1>1, <3>4, ClaimedIs DEF Claims
    <3>6. /\ worker'.pc = (IF Recovering THEN "wait" ELSE "start")
          /\ worker'.n = (IF Recovering THEN task.run ELSE Claimed.attempts)
      BY <3>4 DEF Claims
    <3>7. CASE Recovering
      BY <3>5, <3>6, <3>7 DEF HoldsRun, Recovering
    <3>8. CASE ~Recovering
      BY <3>4, <3>5, <3>6, <3>8 DEF Claims, Claimable, HoldsRun
    <3> QED BY <3>7, <3>8
  <2> QED BY <2>3, <2>4
<1>6. ASSUME task'.status = "running", task'.run # 0 PROVE task'.run = task'.attempts
  <2>1. \/ task.status = "running" /\ task'.attempts = task.attempts
             /\ (task'.run = task.run \/ Binds)
        \/ task'.run = 0
    BY <1>6, RunningFrom
  <2> QED BY <1>4, <1>6, <2>1 DEF HoldsRun
<1>7. ASSUME task'.status = "queued" PROVE task'.run = 0
  <2>1. ASSUME Ends(task, task') PROVE task'.run = 0
    BY <1>1, <1>7, <2>1 DEF Ends, HoldsRun
  <2>2. CASE Quiet \/ Sends \/ (\E state \in States : Delivers(state)) \/ Quarantines
    BY <2>1, <2>2 DEF Quiet, Sends, Delivers, Quarantines
  <2>3. CASE \E k \in ItemKeys : Takes(k)
    BY <1>7, <2>3 DEF Takes, HoldsRun
  <2>4. ~Claims
    BY <1>1, <1>7, ClaimedIs DEF Claims
  <2>5. CASE LeavesRun \/ AsksPeople
    BY <1>1, <1>7, <2>5, RequeuedIs DEF LeavesRun, AsksPeople, Releases, Waits, HoldsRun
  <2>6. ~Binds
    BY <1>4, <1>7 DEF HoldsRun
  <2>7. CASE Replaces
    BY <1>1, <2>7, NextGenerationIs DEF Replaces, WorkInv, CommandHolds
  <2>8. CASE Requeues
    BY <1>1, <1>7, <2>8, RequeuedIs DEF Requeues, SameTask, HoldsRun
  <2> QED BY <1>1, <2>2, <2>3, <2>4, <2>5, <2>6, <2>7, <2>8 DEF Kinds
<1> QED BY <1>5, <1>6, <1>7 DEF HoldsRun

\* A run that has not ended, or that used tools: none may follow it.
Open(k) == runs[k] \in {"asked", "active"} \/ k \in tools

\* In a generation of which everything is known: no run follows an open one;
\* the one that is being started comes next; a task that may be claimed has no
\* open runs, and only the one it will take next may have been asked for; and a
\* generation still to come has no runs.
InTurn(g) ==
    /\ \A n, m \in 1..max_attempts :
          n < m /\ runs[<<g, m>>] # "none" => ~Open(<<g, n>>)
    /\ worker.pc \in {"start", "created"} /\ worker.gen = g =>
          \A n \in 1..max_attempts :
             /\ n < worker.n => ~Open(<<g, n>>)
             /\ n > worker.n => runs[<<g, n>>] = "none"
    /\ task.gen = g /\ task.status = "queued" /\ ~task.blocked =>
          \A n \in 1..max_attempts :
             /\ n <= task.attempts => ~Open(<<g, n>>)
             /\ n > task.attempts + 1 => runs[<<g, n>>] = "none"
    /\ task.gen = g /\ task.status = "running" =>
          \A n \in 1..max_attempts : n > task.attempts => runs[<<g, n>>] = "none"
    /\ g > task.gen => \A n \in 1..max_attempts : runs[<<g, n>>] = "none"

TurnInv ==
    /\ \A k \in tools : runs[k] \notin {"none", "asked"}
    /\ \A g \in Generations \ lost : InTurn(g)

\* What a step that asks for no run may do to the runs
Mild ==
    /\ \A k \in RunKeys :
          /\ runs[k] = "none" => runs'[k] = "none"
          /\ Open(k)' => Open(k)
    /\ \A k \in tools' : runs'[k] \notin {"none", "asked"}

LEMMA StopsMildly ==
    ASSUME runs \in [RunKeys -> RunStates], tools \subseteq RunKeys, TurnInv,
           UNCHANGED tools, NEW k
    PROVE  /\ UNCHANGED runs => Mild
           /\ k \in RunKeys /\ runs' = StoppedRun(k) => Mild
           /\ StopRun(k) \/ StopRunOrNot(k) => Mild
<1>1. UNCHANGED runs => Mild
  BY DEF Mild, Open, TurnInv
<1>2. ASSUME k \in RunKeys, runs' = StoppedRun(k) PROVE Mild
  <2>1. \A l \in RunKeys :
           runs'[l] = IF l = k /\ runs[k] = "active" THEN "canceled" ELSE runs[l]
    BY <1>2 DEF StoppedRun
  <2> QED BY <2>1 DEF Mild, Open, TurnInv
<1>3. StopRun(k) => Mild
  BY <1>1, <1>2 DEF StopRun
<1>4. StopRunOrNot(k) => Mild
  BY <1>1, <1>2 DEF StopRunOrNot
<1> QED BY <1>1, <1>2, <1>3, <1>4

LEMMA MildSteps ==
    ASSUME WorkInv, RestTypes, TurnInv, Next, ~StartPosts
    PROVE  Mild /\ lost \subseteq lost'
<1>1. runs \in [RunKeys -> RunStates] /\ tools \subseteq RunKeys
  BY DEF RestTypes
<1>2. UNCHANGED <<runs, tools>> => Mild
  BY DEF Mild, Open, TurnInv
<1>3. worker.pc \in {"start", "created", "wait", "repair"} => RunKey \in RunKeys
  BY DEF WorkInv, WorkerHolds, RunKey, RunKeys
<1>4. CASE WorkerStep
  <2>1. CASE \/ ExpireBlocked \/ PrepareTerminal \/ DeliverChecks \/ DeliverHears
             \/ DeliverNotPosted \/ DeliverAsks \/ DeliverProbes
             \/ \E k \in ItemKeys : DeliverBegins(k)
    BY <1>2, <2>1 DEF ExpireBlocked, PrepareTerminal, DeliverBegins, DeliverChecks,
       DeliverHears, DeliverNotPosted, DeliverAsks, DeliverProbes, Deliver, hermesVars
  <2>2. CASE Claim
    <3>1. UNCHANGED <<tools, lost>> /\ (StopRunOrNot(<<task.gen, task.run>>) \/ UNCHANGED runs)
      BY <2>2 DEF Claim, HermesUnchanged
    <3> QED BY <1>1, <1>2, <3>1, StopsMildly
  <2>3. CASE \/ StartUncertain \/ WaitEnds \/ RepairEnds \/ WaitBreaks
             \/ WaitEndsUnaware \/ WaitMissing
    BY <1>2, <2>3 DEF StartUncertain, WaitEnds, RepairEnds, WaitBreaks, WaitEndsUnaware,
       WaitMissing, hermesVars
  <2>4. CASE StartAnswered \/ OverLimit \/ WaitTimesOut \/ CancelWatch
    <3>1. /\ UNCHANGED <<tools, lost>>
          /\ \/ UNCHANGED runs \/ StopRun(RunKey) \/ StopRunOrNot(RunKey)
             \/ RunKey \in RunKeys /\ runs' = StoppedRun(RunKey)
      BY <1>3, <2>4 DEF StartAnswered, OverLimit, WaitTimesOut, CancelWatch, HermesUnchanged
    <3> QED BY <1>1, <1>2, <3>1, StopsMildly
  <2>5. CASE StartRefused
    <3>1. /\ UNCHANGED tools /\ lost \subseteq lost'
          /\ runs' = runs \/ runs' = [runs EXCEPT ![RunKey] = IF @ = "asked" THEN "none" ELSE @]
      BY <2>5 DEF StartRefused
    <3>2. CASE runs' = runs
      BY <1>2, <3>1, <3>2
    <3>3. CASE runs' # runs
      <4>1. /\ runs[RunKey] = "asked" /\ RunKey \in RunKeys
            /\ \A l \in RunKeys : runs'[l] = IF l = RunKey THEN "none" ELSE runs[l]
        BY <1>1, <1>3, <2>5, <3>1, <3>3 DEF StartRefused
      <4>2. RunKey \notin tools
        BY <4>1 DEF TurnInv
      <4> QED BY <1>1, <3>1, <4>1, <4>2 DEF Mild, Open, TurnInv
    <3> QED BY <3>2, <3>3
  <2> QED BY <1>4, <2>1, <2>2, <2>3, <2>4, <2>5 DEF WorkerStep
<1>5. CASE CommandStep
  <2>1. UNCHANGED <<tools, lost>>
    BY <1>5, CommandsKeep
  <2>2. CASE CommandActs \/ StopCancels
    <3>1. \/ UNCHANGED runs \/ StopRun(<<cmd.gen, cmd.run>>)
          \/ StopRun(<<task.gen, task.run>>)
      <4>1. cmd.op \in {"cancel", "modify", "retry", "media"} \/ cmd.pc = "idle"
        BY DEF WorkInv, CommandTypes, CommandHolds
      <4> QED BY <2>2, <4>1 DEF CommandActs, StopCancels
    <3> QED BY <1>1, <2>1, <3>1, StopsMildly
  <2>3. CASE CommandStopsRun
    <3>1. <<cmd.gen, cmd.run>> \in RunKeys
      BY <2>3, Bounds DEF WorkInv, CommandTypes, CommandHolds, CommandStopsRun, RunKeys
    <3> QED BY <1>1, <2>1, <2>3, <3>1, StopsMildly DEF CommandStopsRun
  <2>4. CASE \/ CommandBars \/ CommandFails \/ StopBars \/ StopFails
             \/ \E op \in {"cancel", "modify", "retry", "media"} : CommandBegins(op)
    BY <1>2, <2>1, <2>4 DEF CommandBegins, CommandBars, CommandFails, StopBars, StopFails,
       hermesVars
  <2> QED BY <1>5, <2>1, <2>2, <2>3, <2>4 DEF CommandStep
<1>6. ASSUME NEW k \in RunKeys, HermesCreates(k) \/ HermesUsesTools(k) \/ HermesEnds(k)
      PROVE  Mild /\ UNCHANGED lost
  <2>1. CASE HermesCreates(k)
    <3>1. \A l \in RunKeys : runs'[l] = IF l = k THEN "active" ELSE runs[l]
      BY <1>1, <2>1 DEF HermesCreates
    <3> QED BY <1>1, <2>1, <3>1 DEF HermesCreates, HermesUnchanged, Mild, Open, TurnInv
  <2>2. CASE HermesUsesTools(k)
    BY <1>1, <2>2 DEF HermesUsesTools, Mild, Open, TurnInv
  <2>3. CASE HermesEnds(k)
    <3>1. PICK end \in {"done", "failed", "missing"} : runs' = [runs EXCEPT ![k] = end]
      BY <2>3 DEF HermesEnds
    <3>2. \A l \in RunKeys : runs'[l] = IF l = k THEN end ELSE runs[l]
      BY <1>1, <3>1
    <3>3. UNCHANGED <<tools, lost>> /\ runs[k] = "active"
      BY <2>3 DEF HermesEnds, HermesUnchanged
    <3> QED BY <1>1, <3>2, <3>3 DEF Mild, Open, TurnInv
  <2> QED BY <1>6, <2>1, <2>2, <2>3
<1>7. CASE \E k \in ItemKeys : ApiHandles(k)
  BY <1>2, <1>7, ApiKeeps
<1>8. CASE Restart \/ CutOver
  <2>1. UNCHANGED <<tools, lost>>
    BY <1>8, RestartsKeep
  <2>2. UNCHANGED runs \/ StopRunOrNot(<<task.gen, task.run>>)
    BY <1>8 DEF Restart, CutOver, hermesVars
  <2> QED BY <1>1, <1>2, <2>1, <2>2, StopsMildly
<1> QED BY <1>4, <1>5, <1>6, <1>7, <1>8 DEF Next, HermesStep

\* Where a run that is being started comes from
LEMMA StartingFrom ==
    ASSUME WorkInv, Next, worker'.pc \in {"start", "created"}
    PROVE  \/ /\ worker.pc \in {"start", "created"}
              /\ worker'.gen = worker.gen /\ worker'.n = worker.n
           \/ /\ Claimable /\ worker'.gen = task.gen
              /\ worker'.n = task.attempts + 1
<1>1. Row(task) /\ WorkerTypes /\ Kinds
  BY StepKinds DEF WorkInv
<1>2. CASE Quiet
  BY <1>1, <1>2 DEF Quiet, WorkerGoesOn, Turns, Rests, WorkerTypes
<1>3. ~(\E k \in ItemKeys : Takes(k)) /\ ~Sends /\ ~Binds
  BY <1>1 DEF Takes, Sends, Binds, WorkerTypes
<1>4. ~(\E state \in States : Delivers(state)) /\ ~Requeues /\ ~Quarantines
  BY IdleRests DEF Delivers, Requeues, Quarantines
<1>5. ~LeavesRun /\ ~AsksPeople
  BY DEF LeavesRun, AsksPeople, Rests
<1>6. CASE Claims
  <2>1. ~Recovering /\ Claimable
    BY <1>6 DEF Claims
  <2>2. worker'.gen = task.gen /\ worker'.n = Claimed.attempts
    BY <1>6, <2>1 DEF Claims
  <2> QED BY <1>1, <2>1, <2>2, ClaimedIs
<1>7. CASE Replaces
  BY <1>1, <1>7 DEF Replaces
<1> QED BY <1>1, <1>2, <1>3, <1>4, <1>5, <1>6, <1>7 DEF Kinds

LEMMA MildKeepsTurn ==
    ASSUME WorkInv, HoldsRun, TurnInv, Next, Mild, lost \subseteq lost', ~StartPosts
    PROVE  TurnInv'
<1> SUFFICES ASSUME NEW g \in Generations, g \notin lost' PROVE InTurn(g)'
  BY DEF TurnInv, Mild
<1>1. /\ InTurn(g) /\ Row(task) /\ WorkerTypes /\ WorkerHolds
      /\ \A n \in 1..max_attempts : <<g, n>> \in RunKeys
      /\ task.gen \in Nat /\ worker.gen \in Nat /\ task.attempts \in Nat /\ g \in Nat
  BY Bounds DEF TurnInv, WorkInv, Row, TaskRow, WorkerTypes, RunKeys, Generations
<1>2. \A n \in 1..max_attempts :
         /\ runs[<<g, n>>] = "none" => runs'[<<g, n>>] = "none"
         /\ ~Open(<<g, n>>) => ~Open(<<g, n>>)'
  BY <1>1 DEF Mild
<1>3. ASSUME NEW n \in 1..max_attempts, NEW m \in 1..max_attempts,
             n < m, runs'[<<g, m>>] # "none"
      PROVE  ~Open(<<g, n>>)'
  BY <1>1, <1>2, <1>3 DEF InTurn
<1>4. ASSUME worker'.pc \in {"start", "created"}, worker'.gen = g, NEW n \in 1..max_attempts
      PROVE  /\ n < worker'.n => ~Open(<<g, n>>)'
             /\ n > worker'.n => runs'[<<g, n>>] = "none"
  <2>1. CASE /\ worker.pc \in {"start", "created"}
             /\ worker'.gen = worker.gen /\ worker'.n = worker.n
    BY <1>1, <1>2, <1>4, <2>1 DEF InTurn
  <2>2. CASE Claimable /\ worker'.gen = task.gen /\ worker'.n = task.attempts + 1
    BY <1>1, <1>2, <1>4, <2>2 DEF InTurn, Claimable
  <2> QED BY <1>4, <2>1, <2>2, StartingFrom
<1>5. ASSUME task'.gen = g, task'.status = "queued", ~task'.blocked, NEW n \in 1..max_attempts
      PROVE  /\ n <= task'.attempts => ~Open(<<g, n>>)'
             /\ n > task'.attempts + 1 => runs'[<<g, n>>] = "none"
  <2>1. CASE SameStanding(task, task') /\ task'.blocked = task.blocked
    BY <1>1, <1>2, <1>5, <2>1 DEF InTurn, SameStanding
  <2>2. CASE FromNew
    BY <1>1, <1>2, <1>5, <2>2 DEF InTurn, FromNew
  <2>3. CASE FromTakenBack
    <3>1. worker.pc \in {"start", "created"} /\ worker.gen = task.gen
      BY <1>1, <2>3 DEF FromTakenBack, WorkerHolds
    <3>2. task.attempts = worker.n /\ task.gen = g /\ task.status = "running"
      BY <1>5, <2>3, <3>1 DEF HoldsRun, RunPcs, FromTakenBack
    <3> QED BY <1>1, <1>2, <2>3, <3>1, <3>2 DEF InTurn, FromTakenBack
  <2>4. CASE FromGivenUp
    <3>0. PICK j \in 1..max_attempts : j = worker.n
      BY <2>4 DEF FromGivenUp, RunPcs, WorkInv, WorkerHolds
    <3>1. /\ worker.gen = g /\ task.gen = g /\ task.status = "running"
          /\ task.attempts = j /\ task'.attempts = j /\ RunKey = <<g, j>>
      BY <1>1, <1>5, <2>4, <3>0 DEF FromGivenUp, Releases, HoldsRun, WorkerHolds, RunPcs, RunKey
    <3>2. n > task'.attempts + 1 => runs'[<<g, n>>] = "none"
      BY <1>1, <1>2, <3>1 DEF InTurn
    <3>3. CASE StartRefused
      <4>1. worker.pc \in {"start", "created"} /\ runs'[<<g, j>>] = "none"
        BY <3>1, <3>3 DEF StartRefused
      <4>2. ~Open(<<g, j>>)'
        BY <4>1 DEF Mild, Open
      <4>3. n < j => ~Open(<<g, n>>)'
        BY <1>1, <1>2, <3>0, <3>1, <4>1 DEF InTurn
      <4>4. n <= j => n < j \/ n = j
        OBVIOUS
      <4> QED BY <3>1, <3>2, <4>2, <4>3, <4>4
    <3>4. CASE runs[RunKey] = "failed" /\ RunKey \notin tools
      <4>1. ~Open(<<g, j>>) /\ runs[<<g, j>>] # "none"
        BY <3>1, <3>4 DEF Open
      <4>2. n < j => ~Open(<<g, n>>)
        BY <1>1, <4>1 DEF InTurn
      <4>3. n <= j => n < j \/ n = j
        OBVIOUS
      <4> QED BY <1>2, <3>1, <3>2, <4>1, <4>2, <4>3
    <3> QED BY <2>4, <3>1, <3>3, <3>4 DEF FromGivenUp
  <2> QED BY <1>5, <2>1, <2>2, <2>3, <2>4, QueuedFrom
<1>6. ASSUME task'.gen = g, task'.status = "running", NEW n \in 1..max_attempts,
             n > task'.attempts
      PROVE  runs'[<<g, n>>] = "none"
  BY <1>1, <1>2, <1>6, RunningFrom DEF InTurn, Claimable
<1>7. ASSUME g > task'.gen, NEW n \in 1..max_attempts
      PROVE  runs'[<<g, n>>] = "none"
  <2>1. task'.gen = task.gen \/ task'.gen = task.gen + 1
    BY StepKinds, KindsKeepRow
  <2> QED BY <1>1, <1>2, <1>7, <2>1 DEF InTurn
<1> QED BY <1>3, <1>4, <1>5, <1>6, <1>7 DEF InTurn

LEMMA PostKeepsTurn ==
    ASSUME WorkInv, RestTypes, HoldsRun, TurnInv, StartPosts
    PROVE  TurnInv'
<1>1. /\ WorkerTypes /\ WorkerHolds /\ runs \in [RunKeys -> RunStates] /\ Row(task)
      /\ UNCHANGED <<task, tools, lost>> /\ worker.pc = "start"
      /\ worker'.pc = "created" /\ worker'.gen = worker.gen /\ worker'.n = worker.n
      /\ task.gen \in Nat /\ worker.gen \in Nat
  BY Bounds DEF WorkInv, RestTypes, StartPosts, HermesUnchanged, WorkerTypes, Row, TaskRow,
     Generations
<1>2. PICK j \in 1..max_attempts : j = worker.n
  BY <1>1 DEF WorkerHolds
<1>3. PICK h \in Generations : h = worker.gen
  BY <1>1 DEF WorkerHolds
<1>4. <<h, j>> \in RunKeys /\ RunKey = <<h, j>>
  BY <1>2, <1>3 DEF RunKey, RunKeys
<1>5. \A k \in RunKeys :
         runs'[k] = IF k = <<h, j>> /\ runs[k] = "none" THEN "asked" ELSE runs[k]
  BY <1>1, <1>4 DEF StartPosts
<1>6. tools \subseteq RunKeys
  BY DEF RestTypes
<1>7. \A k \in tools' : runs'[k] \notin {"none", "asked"}
  BY <1>1, <1>5, <1>6 DEF TurnInv
<1>8. ASSUME NEW g \in Generations, g \notin lost PROVE InTurn(g)'
  <2>1. /\ InTurn(g) /\ g \in Nat /\ \A n \in 1..max_attempts : <<g, n>> \in RunKeys
    BY <1>8 DEF TurnInv, RunKeys, Generations
  <2>2. \A n \in 1..max_attempts : ~(g = h /\ n = j) =>
           /\ runs'[<<g, n>>] = runs[<<g, n>>]
           /\ Open(<<g, n>>)' <=> Open(<<g, n>>)
    BY <1>1, <1>5, <2>1 DEF Open
  <2>3. CASE g # h
    BY <1>1, <1>3, <2>1, <2>2, <2>3 DEF InTurn
  <2>4. CASE g = h
    <3>1. \A n \in 1..max_attempts :
             /\ n < j => ~Open(<<g, n>>) /\ ~Open(<<g, n>>)'
             /\ n > j => runs[<<g, n>>] = "none" /\ runs'[<<g, n>>] = "none"
      BY <1>1, <1>2, <1>3, <2>1, <2>2, <2>4 DEF InTurn
    <3>2. ASSUME NEW n \in 1..max_attempts, NEW m \in 1..max_attempts,
                 n < m, runs'[<<g, m>>] # "none"
          PROVE  ~Open(<<g, n>>)'
      BY <3>1, <3>2
    <3>3. task.gen = g => task.status = "running" /\ task.attempts = j
      BY <1>1, <1>2, <1>3, <2>4 DEF HoldsRun, RunPcs
    <3>4. ~(g > task.gen)
      BY <1>1, <1>3, <2>1, <2>4 DEF WorkerHolds
    <3> QED BY <1>1, <1>2, <1>3, <2>4, <3>1, <3>2, <3>3, <3>4 DEF InTurn
  <2> QED BY <2>3, <2>4
<1> QED BY <1>1, <1>7, <1>8 DEF TurnInv

LEMMA StepKeepsTurn ==
    ASSUME WorkInv, RestTypes, HoldsRun, TurnInv, Next
    PROVE  TurnInv'
BY MildSteps, MildKeepsTurn, PostKeepsTurn

LEMMA InitTurn == ASSUME Init PROVE HoldsRun /\ TurnInv
<1>1. /\ task = NewTask /\ NewTask.gen = 1 /\ NewTask.status = "queued"
      /\ NewTask.run = 0 /\ NewTask.attempts = 0 /\ worker.pc = "idle" /\ tools = {}
  BY DEF Init, NewTask, Idle
<1>2. \A g \in Generations : \A n \in 1..max_attempts : runs[<<g, n>>] = "none"
  BY DEF Init, RunKeys
<1>3. HoldsRun
  BY <1>1 DEF HoldsRun, RunPcs
<1>4. TurnInv
  BY <1>1, <1>2, Bounds DEF TurnInv, InTurn
<1> QED BY <1>3, <1>4

-----------------------------------------------------------------------------
(* Theorems *)

LEMMA InvariantsKept ==
    ASSUME WorkInv, GenerationInv, ItemInv, RestTypes, UNCHANGED vars
    PROVE  WorkInv' /\ GenerationInv' /\ ItemInv' /\ RestTypes'
<1>1. /\ UNCHANGED <<task, outbox, release, worker, cmd, stop, commands>>
      /\ UNCHANGED <<runs, tools, lost, posts, api, barred, rows>>
  BY DEF vars, taskVars, handlerVars, hermesVars, apiVars
<1>2. WorkInv'
  BY <1>1 DEF WorkInv, Row, Shape, WorkerTypes, CommandTypes, WorkerHolds, CommandHolds,
              Current
<1>3. GenerationInv' /\ ItemInv' /\ RestTypes'
  BY <1>1 DEF GenerationInv, ItemInv, RestTypes
<1> QED BY <1>2, <1>3

StateInv == WorkInv /\ GenerationInv /\ ItemInv /\ RestTypes

\* The rows of the task and of its outbox stay well formed, the worker and the
\* commands hold what they think they hold, every generation that was replaced
\* is behind its barrier, and the outbox agrees with the ledger and the group.
THEOREM StateIsKept == Spec => []StateInv
<1>1. Init => StateInv
  BY InitWork, InitItems DEF StateInv
<1>2. StateInv /\ [Next]_vars => StateInv'
  BY StepKeepsWork, StepKeepsGeneration, StepKeepsItems, StepKeepsRest, InvariantsKept
  DEF StateInv
<1> QED BY <1>1, <1>2, PTL DEF Spec

\* The rows, the ledger and the runs are well formed; a generation's last word
\* comes last; what the outbox calls confirmed is in the group and what it has
\* not begun to send is not; what is in flight, or being started, is the
\* worker's.
THEOREM TasksHold == Spec => []TasksInv
<1>1. StateInv => TasksInv
  <2> SUFFICES ASSUME WorkInv, ItemInv, RestTypes PROVE TasksInv
    BY DEF StateInv
  <2>1. TypeOK
    BY DEF WorkInv, ItemInv, RestTypes, Row, Shape, WorkerTypes, CommandTypes,
           ApiStates, RunStates, TypeOK
  <2>2. \A g \in Generations : DOMAIN outbox[g] = 1..Len(outbox[g]) /\ outbox[g] \in Seq(ItemRow)
    BY LenProperties DEF WorkInv, Shape
  <2>3. SummaryComesLast
    BY <2>2 DEF WorkInv, Shape, SummaryComesLast
  <2>4. OutboxIsTrue
    <3>1. ASSUME NEW g \in Generations, NEW i \in DOMAIN outbox[g],
                 outbox[g][i].tries = 0, <<g, i>> \in posts \cup rows
          PROVE  FALSE
      BY <3>1 DEF ItemInv
    <3> QED BY <2>2, <3>1 DEF ItemInv, OutboxIsTrue
  <2>5. WorkIsOwned
    <3>1. ASSUME NEW k \in InFlight
          PROVE  worker.pc \in {"posted", "probe"} /\ k = ItemKey
      BY <2>2 DEF InFlight, ItemKeys, ItemKey, ItemInv
    <3> QED BY <3>1 DEF WorkInv, WorkerHolds, WorkIsOwned
  <2> QED BY <2>1, <2>3, <2>4, <2>5 DEF TasksInv
<1> QED BY <1>1, StateIsKept, PTL

\* "The old generation's result is not sent any more" (main.py:1517), for any
\* number of generations, attempts, orders and faults.
THEOREM OldGenerationsHeld == Spec => OldGenerationsStayBack
<1>1. StateInv /\ [Next]_vars
        => [\A k \in rows' \ rows : k[1] = task.gen]_vars
  BY NewRowsAreCurrent DEF StateInv, vars, apiVars
<1> QED BY <1>1, StateIsKept, PTL DEF Spec, OldGenerationsStayBack

\* After the cut-over nothing is left to be sent or run, no command brings it
\* back, and nothing more is asked of the Chat API or of Hermes (store.py,
\* quarantine_legacy_runtime).
THEOREM CutOverHolds == Spec => CutOverIsFinal
<1>1. Init => ChatInv
  BY DEF Init, ChatInv
<1>2. StateInv /\ ChatInv /\ [Next]_vars => ChatInv'
  <2>1. StateInv /\ ChatInv /\ Next => ChatInv'
    <3>1. CASE release' = "chat"
      BY <3>1, StepsInChat DEF StateInv
    <3>2. CASE release' # "chat"
      BY <3>2 DEF ChatInv
    <3> QED BY <3>1, <3>2
  <2>2. ChatInv /\ UNCHANGED vars => ChatInv'
    BY DEF ChatInv, AllSettled, vars, taskVars, handlerVars
  <2> QED BY <2>1, <2>2
<1>3. StateInv /\ ChatInv /\ [Next]_vars =>
         [release' = "chat" =>
            /\ task'.status \in Terminal
            /\ \A g \in Generations : \A i \in DOMAIN outbox'[g] :
                  outbox'[g][i].state \in Settled
            /\ posts' \subseteq posts
            /\ \A k \in RunKeys : runs'[k] = "asked" => runs[k] = "asked"]_vars
  BY StepsInChat DEF StateInv, ChatInv, AllSettled, NothingAsked
<1> QED BY <1>1, <1>2, <1>3, StateIsKept, PTL DEF Spec, CutOverIsFinal

\* Runs of a generation follow one another, and none follows one that used
\* tools, unless the generation is one of `lost` (main.py, execute_task and
\* worker_loop: the idempotency key of a run is its generation and attempt).
THEOREM RunsTakeTurns == Spec => []RunsInTurn
<1>1. Init => HoldsRun /\ TurnInv
  BY InitTurn
<1>2. StateInv /\ HoldsRun /\ TurnInv /\ [Next]_vars => HoldsRun' /\ TurnInv'
  <2>1. StateInv /\ HoldsRun /\ TurnInv /\ Next => HoldsRun' /\ TurnInv'
    BY StepHoldsRun, StepKeepsTurn DEF StateInv
  <2>2. HoldsRun /\ UNCHANGED vars => HoldsRun'
    BY DEF HoldsRun, vars, taskVars, handlerVars
  <2>3. TurnInv /\ UNCHANGED vars => TurnInv'
    BY DEF TurnInv, InTurn, Open, vars, taskVars, handlerVars, hermesVars
  <2> QED BY <2>1, <2>2, <2>3
<1>3. TurnInv => RunsInTurn
  <2> SUFFICES ASSUME TurnInv, NEW k \in RunKeys, NEW l \in RunKeys, k[1] = l[1],
                      k[1] \notin lost, k[2] < l[2], runs[l] \notin {"none", "asked"}
               PROVE  runs[k] \notin {"asked", "active"} /\ k \notin tools
    BY DEF RunsInTurn
  <2>1. /\ k = <<k[1], k[2]>> /\ l = <<k[1], l[2]>> /\ k[1] \in Generations
        /\ k[2] \in 1..max_attempts /\ l[2] \in 1..max_attempts
    BY DEF RunKeys
  <2>2. InTurn(k[1])
    BY <2>1 DEF TurnInv
  <2>3. ~Open(<<k[1], k[2]>>)
    BY <2>1, <2>2 DEF InTurn
  <2> QED BY <2>1, <2>3 DEF Open
<1> QED BY <1>1, <1>2, <1>3, StateIsKept, PTL DEF Spec

=============================================================================
