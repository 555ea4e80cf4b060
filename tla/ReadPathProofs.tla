--------------------------- MODULE ReadPathProofs ----------------------------
(***************************************************************************)
(* Proofs about ReadPath, for databases, logs, queues and histories of     *)
(* every length. The invariant has two halves.                             *)
(*                                                                         *)
(* FilesInv says what the log looks like while WeChat writes to it, and    *)
(* what the reader holds at each point of a refresh: where nothing has     *)
(* touched the files since it began, the database as it is. HubInv says    *)
(* what the queue of the stream holds, and where a message is that the     *)
(* client has not got yet: before the queue, in the queue or after it. It  *)
(* needs of FilesInv only that a read returns what was committed when it   *)
(* began.                                                                  *)
(***************************************************************************)
EXTENDS ReadPath, TLAPS

-----------------------------------------------------------------------------
(* The invariant of the files and their reader *)

Vers == 0..MaxMessages
Frames == [page : 1..Pages, ver : Ids, salt : Nat, commit : BOOLEAN]
Logs == [salt : Nat, used : Nat, frames : Seq(Frames), commits : Nat]
Readers ==
    [who : {"none", "monitor", "handler"},
     pc : {"free", "look", "db", "wal", "check", "replace", "ready", "failed"},
     try : Nat, page : Seq(Vers), floor : Vers]

FileTypes ==
    /\ committed \in Vers /\ db \in [1..Pages -> Vers]
    /\ wal \in Logs /\ wal.used <= Len(wal.frames)
    /\ stale \in BOOLEAN /\ raced \in BOOLEAN
    /\ snapshot \in {<<>>} \cup [1..Pages -> Vers]
    /\ reader \in Readers

\* The frame the last commit ended with; 0: none since the log started over.
LastCommit == wal.used - (wal.used % Pages)

\* The salt of a frame tells whether it is of this round.
Salts ==
    /\ \A i \in 1..wal.used : wal.frames[i].salt = wal.salt
    /\ \A i \in (wal.used + 1)..Len(wal.frames) : wal.frames[i].salt < wal.salt

\* The frames after the last commit are those of one commit that has begun.
Begun ==
    \A i \in 1..wal.used : i > LastCommit =>
        /\ wal.frames[i].page = i - LastCommit /\ wal.frames[i].commit = FALSE
        /\ wal.frames[i].ver = wal.frames[wal.used].ver
        /\ wal.frames[i].ver > committed

\* The last commit wrote every page; without one the pages are in the database.
Ended ==
    /\ LastCommit = 0 \/ LastCommit >= Pages
    /\ \A i \in 1..wal.used : i <= LastCommit /\ i > LastCommit - Pages =>
        /\ wal.frames[i].page = i - (LastCommit - Pages)
        /\ i = LastCommit => wal.frames[i].commit = TRUE
        /\ wal.frames[i].ver = committed
    /\ LastCommit = 0 => \A p \in 1..Pages : db[p] = committed

Whole(pages, v) == DOMAIN pages = 1..Pages /\ \A p \in 1..Pages : pages[p] = v

CopiedAsIs == ~raced => \A p \in 1..Len(reader.page) : reader.page[p] = db[p]

Holds ==
    /\ reader.pc = "free" <=> reader.who = "none"
    /\ reader.floor <= committed
    /\ reader.pc = "db" => Len(reader.page) < Pages /\ CopiedAsIs
    /\ reader.pc = "wal" => Len(reader.page) = Pages /\ CopiedAsIs
    /\ reader.pc \in {"check", "replace"} =>
          Len(reader.page) = Pages /\ (~raced => Whole(reader.page, committed))
    /\ reader.pc = "replace" => \E v \in reader.floor..committed : Whole(reader.page, v)
    /\ reader.pc = "ready" => \E v \in reader.floor..committed : Whole(snapshot, v)

SnapshotHolds ==
    snapshot # <<>> =>
        /\ \E v \in 0..committed : Whole(snapshot, v)
        /\ ~stale => Whole(snapshot, committed)

FilesInv == FileTypes /\ Salts /\ Begun /\ Ended /\ Holds /\ SnapshotHolds

-----------------------------------------------------------------------------
(* Arithmetic of the log: pages are written round and round. *)

LEMMA Times ==
    ASSUME NEW P \in Nat \ {0}, NEW k \in Int
    PROVE  /\ k >= 2 => P * k >= 2 * P
           /\ k <= -1 => P * k <= -P
           /\ k = 1 => P * k = P
           /\ k = 0 => P * k = 0
  BY SMT

LEMMA Division ==
    ASSUME NEW n \in Nat, NEW P \in Nat \ {0}
    PROVE  n % P \in 0..(P - 1) /\ n \div P \in Int /\ n = P * (n \div P) + (n % P)
  BY SMT

\* The page after a page is the next one, or the first.
LEMMA NextPage ==
    ASSUME NEW n \in Nat, NEW P \in Nat \ {0}
    PROVE  (n + 1) % P = IF (n % P) + 1 = P THEN 0 ELSE (n % P) + 1
  <1> DEFINE q == n \div P
             r == (n + 1) \div P
  <1>1. n % P \in 0..(P - 1) /\ n = P * q + (n % P) /\ q \in Int
    BY Division
  <1>2. n + 1 \in Nat
    OBVIOUS
  <1>3. (n + 1) % P \in 0..(P - 1) /\ n + 1 = P * r + ((n + 1) % P) /\ r \in Int
    BY <1>2, Division
  <1> HIDE DEF q, r
  <1>4. P * (r - q) = P * r - P * q
    BY <1>1, <1>3, SMT
  <1>5. P * (r - q) = 1 + (n % P) - ((n + 1) % P)
    BY <1>1, <1>3, <1>4
  <1>6. r - q \in {0, 1}
    <2>1. (r - q >= 2 => P * (r - q) >= 2 * P) /\ (r - q <= -1 => P * (r - q) <= -P)
      BY Times, <1>1, <1>3
    <2> QED
      BY <2>1, <1>1, <1>3, <1>5
  <1>7. P * (r - q) = IF r = q THEN 0 ELSE P
    BY <1>6, Times, <1>1, <1>3
  <1> QED
    BY <1>7, <1>5, <1>1, <1>3

LEMMA LogEnd ==
    ASSUME FileTypes
    PROVE  /\ LastCommit \in 0..wal.used /\ wal.used - LastCommit \in 0..(Pages - 1)
           /\ wal.used % Pages = wal.used - LastCommit
           /\ (wal.used + 1) % Pages = IF wal.used - LastCommit + 1 = Pages THEN 0
                                       ELSE wal.used - LastCommit + 1
  <1>1. wal.used \in Nat /\ Pages \in Nat \ {0}
    BY ReadConstants DEF FileTypes, Logs
  <1> DEFINE n == wal.used
             rest == n % Pages
             next == (n + 1) % Pages
  <1>2. n \in Nat /\ rest \in 0..(Pages - 1)
    BY <1>1, Division
  <1>3. n - rest \in 0..n
    <2> DEFINE d == n \div Pages
    <2>1. d \in Int /\ n = Pages * d + rest
      BY <1>1, Division
    <2> HIDE DEF d, n, rest
    <2>2. d < 0 => Pages * d <= -Pages
      BY <1>1, <2>1, Times
    <2>3. d >= 0 => Pages * d >= 0
      BY <1>1, <2>1, SMT
    <2>4. Pages * d \in Int
      BY <1>1, <2>1
    <2> QED
      BY <1>1, <1>2, <2>1, <2>2, <2>3, <2>4
  <1>4. next = IF rest + 1 = Pages THEN 0 ELSE rest + 1
    BY <1>1, NextPage
  <1>5. LastCommit = n - rest
    BY DEF LastCommit
  <1> HIDE DEF n, rest, next
  <1>6. /\ LastCommit \in 0..n /\ n - LastCommit \in 0..(Pages - 1)
        /\ rest = n - LastCommit
        /\ next = IF n - LastCommit + 1 = Pages THEN 0 ELSE n - LastCommit + 1
    BY <1>1, <1>2, <1>3, <1>4, <1>5
  <1> QED
    BY <1>6 DEF n, rest, next

-----------------------------------------------------------------------------
(* Each step keeps FilesInv. WeChat first. *)

\* What a frame more makes of the log.
LEMMA FrameMore ==
    ASSUME FilesInv, NEW ver \in Ids, WriteFrame(ver)
    PROVE  LET n == wal.used + 1
               page == n - LastCommit IN
           /\ wal' \in Logs /\ wal'.salt = wal.salt /\ wal'.used = n
           /\ Len(wal'.frames) = IF n <= Len(wal.frames) THEN Len(wal.frames) ELSE n
           /\ n \in 1..Len(wal'.frames) /\ page \in 1..Pages
           /\ \A i \in 1..Len(wal'.frames) : i # n =>
                i \in 1..Len(wal.frames) /\ wal'.frames[i] = wal.frames[i]
           /\ wal'.frames[n].page = page /\ wal'.frames[n].ver = ver
           /\ wal'.frames[n].salt = wal.salt
           /\ wal'.frames[n].commit = (page = Pages)
           /\ LastCommit' = IF page = Pages THEN n ELSE LastCommit
           /\ ver > committed
           /\ page # 1 => ver = wal.frames[wal.used].ver
           /\ committed' = IF page = Pages THEN ver ELSE committed
  <1> DEFINE n == wal.used + 1
             page == n - LastCommit
             frame == [page |-> page, ver |-> ver, salt |-> wal.salt,
                       commit |-> page = Pages]
             frames == IF n <= Len(wal.frames) THEN [wal.frames EXCEPT ![n] = frame]
                       ELSE Append(wal.frames, frame)
  <1>1. /\ wal \in Logs /\ wal.used \in Nat /\ wal.used <= Len(wal.frames)
        /\ wal.frames \in Seq(Frames) /\ wal.salt \in Nat /\ wal.commits \in Nat
        /\ committed \in Vers
    BY DEF FilesInv, FileTypes, Logs
  <1>2. LastCommit \in 0..wal.used /\ wal.used - LastCommit \in 0..(Pages - 1)
    BY LogEnd DEF FilesInv
  <1>3. Pages \in Nat \ {0} /\ MaxMessages \in Nat
    BY ReadConstants
  <1>4. page \in 1..Pages /\ page = wal.used - LastCommit + 1 /\ n \in Nat
    BY <1>1, <1>2, <1>3
  <1>a. (wal.used % Pages) + 1 = page
    <2>1. wal.used % Pages = wal.used - LastCommit
      BY LogEnd DEF FilesInv
    <2> QED
      BY <2>1, <1>4
  <1>b. n % Pages = IF page = Pages THEN 0 ELSE page
    <2>1. n % Pages = IF wal.used - LastCommit + 1 = Pages THEN 0
                      ELSE wal.used - LastCommit + 1
      BY LogEnd DEF FilesInv
    <2> QED
      BY <2>1, <1>4
  <1>5. frame \in Frames /\ frame.commit = (page = Pages)
    BY <1>1, <1>4 DEF Frames
  <1>6. wal' = [wal EXCEPT !.used = n, !.frames = frames,
                  !.commits = IF page = Pages THEN wal.commits + 1 ELSE wal.commits]
    BY <1>a, <1>5 DEF WriteFrame
  <1> HIDE DEF frame
  <1>7. /\ frames \in Seq(Frames)
        /\ Len(frames) = IF n <= Len(wal.frames) THEN Len(wal.frames) ELSE n
        /\ n \in 1..Len(frames) /\ frames[n] = frame
        /\ \A i \in 1..Len(frames) : i # n =>
             i \in 1..Len(wal.frames) /\ frames[i] = wal.frames[i]
    <2>1. CASE n <= Len(wal.frames)
      BY <2>1, <1>1, <1>5
    <2>2. CASE ~(n <= Len(wal.frames))
      <3>1. n = Len(wal.frames) + 1
        BY <2>2, <1>1
      <3> QED
        BY <3>1, <2>2, <1>1, <1>5
    <2> QED
      BY <2>1, <2>2
  <1> HIDE DEF frames
  <1>8. wal'.salt = wal.salt /\ wal'.used = n /\ wal'.frames = frames /\ wal' \in Logs
    <2> DEFINE commits == IF page = Pages THEN wal.commits + 1 ELSE wal.commits
    <2>1. commits \in Nat
      BY <1>1
    <2> HIDE DEF commits
    <2>2. wal' = [wal EXCEPT !.used = n, !.frames = frames, !.commits = commits]
      BY <1>6 DEF commits
    <2> HIDE DEF n
    <2> QED
      BY <2>1, <2>2, <1>1, <1>4, <1>7 DEF Logs
  <1>9. LastCommit' = IF page = Pages THEN n ELSE LastCommit
    <2>1. LastCommit' = n - (n % Pages)
      BY <1>8 DEF LastCommit
    <2> DEFINE rest == n % Pages
    <2>2. LastCommit' = n - rest /\ rest = IF page = Pages THEN 0 ELSE page
      BY <2>1, <1>b
    <2> HIDE DEF rest
    <2> QED
      BY <2>2, <1>1, <1>2, <1>4
  <1>10. page # 1 => wal.used \in 1..wal.used /\ wal.used > LastCommit
    BY <1>1, <1>2
  <1>11. page # 1 => wal.frames[wal.used].ver > committed
    BY <1>10 DEF FilesInv, Begun
  <1>12. IF page = 1 THEN ver > committed ELSE ver = wal.frames[wal.used].ver
    BY <1>a, <1>5 DEF WriteFrame
  <1>13. committed' = IF page = Pages THEN ver ELSE committed
    BY <1>a, <1>5 DEF WriteFrame
  <1> QED
    BY <1>4, <1>7, <1>8, <1>9, <1>11, <1>12, <1>13 DEF frame

\* A change of the files takes nothing from what the reader has.
LEMMA TouchedHolds ==
    ASSUME FilesInv, Touched, UNCHANGED <<snapshot, reader>>,
           committed' \in Vers, committed <= committed'
    PROVE  Holds' /\ SnapshotHolds'
  <1>1. /\ committed \in Vers /\ MaxMessages \in Nat /\ reader.floor \in Vers
        /\ reader.pc = "free" <=> reader.who = "none"
        /\ reader.floor <= committed
    BY ReadConstants DEF FilesInv, FileTypes, Readers, Holds
  <1>2. /\ \A v \in reader.floor..committed : v \in reader.floor..committed'
        /\ \A v \in 0..committed : v \in 0..committed'
        /\ reader.floor <= committed'
    BY <1>1 DEF Vers
  <1>3. stale' = TRUE /\ (reader.pc # "free" => raced' = TRUE)
    BY <1>1 DEF Touched
  <1>4. reader.pc = "db" => Len(reader.page) < Pages
    BY DEF FilesInv, Holds
  <1>5. reader.pc \in {"wal", "check", "replace"} => Len(reader.page) = Pages
    BY DEF FilesInv, Holds
  <1>6. reader.pc = "replace" => \E v \in reader.floor..committed' : Whole(reader.page, v)
    BY <1>2 DEF FilesInv, Holds
  <1>7. reader.pc = "ready" => \E v \in reader.floor..committed' : Whole(snapshot, v)
    BY <1>2 DEF FilesInv, Holds
  <1>8. Holds'
    BY <1>1, <1>2, <1>3, <1>4, <1>5, <1>6, <1>7 DEF Holds, CopiedAsIs, Whole
  <1>9. SnapshotHolds'
    BY <1>2, <1>3 DEF FilesInv, SnapshotHolds, Whole
  <1> QED
    BY <1>8, <1>9

LEMMA FrameFiles ==
    ASSUME FilesInv, NEW ver \in Ids, WriteFrame(ver)
    PROVE  FilesInv' /\ committed <= committed'
  <1> DEFINE n == wal.used + 1
             page == n - LastCommit
  <1>1. /\ wal \in Logs /\ wal.used \in Nat /\ wal.used <= Len(wal.frames)
        /\ Len(wal.frames) \in Nat /\ committed \in Vers
        /\ LastCommit \in 0..wal.used /\ wal.used - LastCommit \in 0..(Pages - 1)
        /\ Pages \in Nat \ {0} /\ MaxMessages \in Nat
    BY LogEnd, ReadConstants DEF FilesInv, FileTypes, Logs
  <1>2. /\ wal' \in Logs /\ wal'.salt = wal.salt /\ wal'.used = n
        /\ Len(wal'.frames) = IF n <= Len(wal.frames) THEN Len(wal.frames) ELSE n
        /\ n \in 1..Len(wal'.frames) /\ page \in 1..Pages
        /\ \A i \in 1..Len(wal'.frames) : i # n =>
             i \in 1..Len(wal.frames) /\ wal'.frames[i] = wal.frames[i]
        /\ wal'.frames[n].page = page /\ wal'.frames[n].ver = ver
        /\ wal'.frames[n].salt = wal.salt
        /\ wal'.frames[n].commit = (page = Pages)
    BY FrameMore
  <1>3. /\ LastCommit' = IF page = Pages THEN n ELSE LastCommit
        /\ ver > committed
        /\ page # 1 => ver = wal.frames[wal.used].ver
        /\ committed' = IF page = Pages THEN ver ELSE committed
    BY FrameMore
  <1>4. /\ UNCHANGED <<db, snapshot, reader>> /\ stale' = TRUE
        /\ raced' = (reader.who # "none")
    BY DEF WriteFrame, Touched, readerVars
  <1>5. committed' \in Vers /\ committed <= committed'
    BY <1>1, <1>3 DEF Vers, Ids
  <1>n. /\ wal.used \in Nat /\ Len(wal.frames) \in Nat /\ wal.used <= Len(wal.frames)
        /\ Len(wal'.frames) = IF n <= Len(wal.frames) THEN Len(wal.frames) ELSE n
    BY <1>1, <1>2
  <1>c. ASSUME NEW i \in 1..wal.used
        PROVE  i # n /\ wal'.frames[i] = wal.frames[i]
    <2>1. i # n /\ i \in 1..Len(wal'.frames)
      BY <1>n
    <2> QED
      BY <2>1, <1>2
  <1>6. FileTypes'
    <2>1. wal'.used <= Len(wal'.frames)
      BY <1>n, <1>2
    <2> QED
      BY <2>1, <1>2, <1>4, <1>5 DEF FilesInv, FileTypes
  <1>7. Salts'
    <2>2. ASSUME NEW i \in 1..n  PROVE wal'.frames[i].salt = wal.salt
      <3>1. i = n \/ i \in 1..wal.used
        BY <1>n
      <3> QED
        BY <3>1, <1>c, <1>2 DEF FilesInv, Salts
    <2>3. ASSUME NEW i \in (n + 1)..Len(wal'.frames)
          PROVE  wal'.frames[i].salt < wal.salt
      <3>1. i \in (wal.used + 1)..Len(wal.frames) /\ i # n /\ i \in 1..Len(wal'.frames)
        BY <1>n
      <3> QED
        BY <3>1, <1>2 DEF FilesInv, Salts
    <2> QED
      BY <2>2, <2>3, <1>2 DEF Salts
  <1>8. Begun'
    <2>1. SUFFICES ASSUME NEW i \in 1..n, i > LastCommit'
                   PROVE  /\ wal'.frames[i].page = i - LastCommit'
                          /\ wal'.frames[i].commit = FALSE
                          /\ wal'.frames[i].ver = wal'.frames[n].ver
                          /\ wal'.frames[i].ver > committed'
      BY <1>2 DEF Begun
    <2>2. page # Pages /\ LastCommit' = LastCommit /\ committed' = committed
      BY <2>1, <1>1, <1>3
    <2>3. CASE i = n
      BY <2>2, <2>3, <1>2, <1>3
    <2>4. CASE i # n
      <3>1. i \in 1..wal.used /\ i > LastCommit /\ page # 1
        BY <2>1, <2>2, <2>4, <1>1
      <3>2. wal'.frames[i] = wal.frames[i]
        BY <3>1, <1>c
      <3>3. /\ wal.frames[i].page = i - LastCommit /\ wal.frames[i].commit = FALSE
            /\ wal.frames[i].ver = wal.frames[wal.used].ver
            /\ wal.frames[i].ver > committed
        BY <3>1 DEF FilesInv, Begun
      <3> QED
        BY <3>1, <3>2, <3>3, <2>2, <1>2, <1>3
    <2> QED
      BY <2>3, <2>4
  <1>9. Ended'
    <2>1. CASE page = Pages
      <3>1. LastCommit' = n /\ n - Pages = LastCommit /\ n >= Pages /\ committed' = ver
        BY <2>1, <1>1, <1>3
      <3>2. ASSUME NEW i \in 1..n, i > LastCommit
            PROVE  /\ wal'.frames[i].page = i - LastCommit
                   /\ i = n => wal'.frames[i].commit = TRUE
                   /\ wal'.frames[i].ver = ver
        <4>1. CASE i = n
          BY <4>1, <2>1, <1>2
        <4>2. CASE i # n
          <5>1. i \in 1..wal.used /\ i > LastCommit /\ page # 1
            BY <3>2, <4>2, <1>1
          <5>2. wal'.frames[i] = wal.frames[i]
            BY <5>1, <1>c
          <5>3. /\ wal.frames[i].page = i - LastCommit
                /\ wal.frames[i].ver = wal.frames[wal.used].ver
            BY <5>1 DEF FilesInv, Begun
          <5> QED
            BY <5>1, <5>2, <5>3, <4>2, <1>3
        <4> QED
          BY <4>1, <4>2
      <3>3. n # 0 /\ LastCommit' - Pages = LastCommit
        BY <3>1, <1>1
      <3> QED
        BY <3>1, <3>2, <3>3, <1>2 DEF Ended
    <2>2. CASE page # Pages
      <3>1. LastCommit' = LastCommit /\ committed' = committed
        BY <2>2, <1>3
      <3>2. ASSUME NEW i \in 1..n, i <= LastCommit
            PROVE  i \in 1..wal.used /\ wal'.frames[i] = wal.frames[i]
        <4>1. i \in 1..wal.used
          BY <3>2, <1>1
        <4> QED
          BY <4>1, <1>c
      <3>3. ASSUME NEW i \in 1..n, i <= LastCommit, i > LastCommit - Pages
            PROVE  /\ wal'.frames[i].page = i - (LastCommit - Pages)
                   /\ i = LastCommit => wal'.frames[i].commit = TRUE
                   /\ wal'.frames[i].ver = committed
        BY <3>2, <3>3 DEF FilesInv, Ended
      <3>4. LastCommit = 0 \/ LastCommit >= Pages
        BY DEF FilesInv, Ended
      <3>5. LastCommit = 0 => \A p \in 1..Pages : db'[p] = committed
        BY <1>4 DEF FilesInv, Ended
      <3> QED
        BY <3>1, <3>3, <3>4, <3>5, <1>2 DEF Ended
    <2> QED
      BY <2>1, <2>2
  <1>10. Holds' /\ SnapshotHolds'
    BY <1>4, <1>5, TouchedHolds DEF WriteFrame
  <1> QED
    BY <1>5, <1>6, <1>7, <1>8, <1>9, <1>10 DEF FilesInv

LEMMA CheckpointFiles ==
    ASSUME FilesInv, NEW q \in 1..Pages, Checkpoint(q)
    PROVE  FilesInv' /\ committed <= committed'
  <1>1. /\ committed \in Vers /\ MaxMessages \in Nat /\ db \in [1..Pages -> Vers]
        /\ db' = [db EXCEPT ![q] = committed] /\ Touched
        /\ UNCHANGED <<committed, wal, snapshot, reader>>
    BY ReadConstants DEF FilesInv, FileTypes, Checkpoint, readerVars
  <1>2. stale' = TRUE /\ raced' \in BOOLEAN
    BY <1>1 DEF Touched
  <1>3. FileTypes'
    BY <1>1, <1>2 DEF FilesInv, FileTypes
  <1>4. LastCommit' = LastCommit
    BY <1>1 DEF LastCommit
  <1>5. LastCommit = 0 => \A p \in 1..Pages : db'[p] = committed
    BY <1>1 DEF FilesInv, Ended
  <1>6. Salts' /\ Begun' /\ Ended'
    BY <1>1, <1>4, <1>5 DEF FilesInv, Salts, Begun, Ended
  <1>7. committed <= committed'
    BY <1>1 DEF Vers
  <1>8. Holds' /\ SnapshotHolds'
    BY <1>1, <1>7, TouchedHolds
  <1> QED
    BY <1>3, <1>6, <1>7, <1>8 DEF FilesInv

LEMMA LogOverFiles ==
    ASSUME FilesInv, StartLogOver
    PROVE  FilesInv' /\ committed <= committed'
  <1>1. /\ committed \in Vers /\ MaxMessages \in Nat /\ db \in [1..Pages -> Vers]
        /\ wal \in Logs /\ wal.salt \in Nat /\ wal.frames \in Seq(Frames)
        /\ wal' = [wal EXCEPT !.salt = wal.salt + 1, !.used = 0] /\ Touched
        /\ \A p \in 1..Pages : db[p] = committed
        /\ UNCHANGED <<committed, db, snapshot, reader>>
    BY ReadConstants DEF FilesInv, FileTypes, StartLogOver, readerVars, Logs
  <1>2. stale' = TRUE /\ raced' \in BOOLEAN
    BY <1>1 DEF Touched
  <1>3. /\ wal'.salt = wal.salt + 1 /\ wal'.used = 0 /\ wal'.frames = wal.frames
        /\ wal' \in Logs
    <2> DEFINE s == wal.salt + 1
    <2>1. s \in Nat /\ 0 \in Nat
      BY <1>1
    <2>2. wal' = [wal EXCEPT !.salt = s, !.used = 0]
      BY <1>1
    <2> HIDE DEF s
    <2>3. wal'.salt = s /\ wal'.used = 0 /\ wal'.frames = wal.frames /\ wal' \in Logs
      BY <1>1, <2>1, <2>2 DEF Logs
    <2> QED
      BY <2>3 DEF s
  <1>4. FileTypes'
    <2>1. wal'.used <= Len(wal'.frames)
      BY <1>1, <1>3
    <2> QED
      BY <2>1, <1>1, <1>2, <1>3 DEF FilesInv, FileTypes
  <1>5. LastCommit' = 0
    BY LogEnd, <1>4, <1>3, 0 \in Nat, ReadConstants, Division DEF LastCommit
  <1>6. Salts'
    <2>1. ASSUME NEW i \in 1..Len(wal.frames)  PROVE wal.frames[i].salt < wal.salt + 1
      <3>0. wal.frames[i].salt \in Nat
        <4>1. wal.frames[i] \in Frames
          BY <1>1
        <4> QED
          BY <4>1 DEF Frames
      <3>1. wal.frames[i].salt <= wal.salt
        <4>1. wal.used \in Nat /\ Len(wal.frames) \in Nat
          BY <1>1 DEF Logs
        <4>2. i \in 1..wal.used \/ i \in (wal.used + 1)..Len(wal.frames)
          BY <4>1
        <4>3. wal.frames[i].salt \in Nat
          BY <3>0
        <4>4. \/ wal.frames[i].salt = wal.salt
              \/ wal.frames[i].salt < wal.salt
          BY <4>2 DEF FilesInv, Salts
        <4> QED
          BY <4>3, <4>4, <1>1
      <3> QED
        BY <3>0, <3>1, <1>1
    <2> QED
      BY <2>1, <1>3 DEF Salts
  <1>7. Begun' /\ Ended'
    BY <1>1, <1>3, <1>5 DEF Begun, Ended
  <1>8. committed <= committed'
    BY <1>1 DEF Vers
  <1>9. Holds' /\ SnapshotHolds'
    BY <1>1, <1>8, TouchedHolds
  <1> QED
    BY <1>4, <1>6, <1>7, <1>8, <1>9 DEF FilesInv

-----------------------------------------------------------------------------
(* The reader. What it leaves alone is named once. *)

LEMMA LogUnchanged ==
    ASSUME FilesInv, UNCHANGED fileVars
    PROVE  Salts' /\ Begun' /\ Ended' /\ committed' = committed
  <1>1. UNCHANGED <<committed, db, wal>>
    BY DEF fileVars
  <1>2. LastCommit' = LastCommit
    BY <1>1 DEF LastCommit
  <1> QED
    BY <1>1, <1>2 DEF FilesInv, Salts, Begun, Ended

LEMMA NothingRead ==
    ASSUME FilesInv, UNCHANGED <<fileVars, stale, raced, readerVars>>
    PROVE  FilesInv'
  <1>1. UNCHANGED <<committed, db, wal, stale, raced, snapshot, reader>>
    BY DEF fileVars, readerVars
  <1> QED
    BY <1>1, LogUnchanged
       DEF FilesInv, FileTypes, Holds, SnapshotHolds, Whole, CopiedAsIs, fileVars

LEMMA ReadsFiles ==
    ASSUME FilesInv, NEW who \in {"monitor", "handler"}, Reads(who)
    PROVE  FilesInv' /\ committed' = committed
           /\ reader'.who = who /\ reader'.floor = committed /\ reader.who = "none"
  <1>1. /\ UNCHANGED <<committed, db, wal, stale, raced, snapshot>>
        /\ reader' = [NoOne EXCEPT !.who = who, !.pc = "look", !.floor = committed]
        /\ reader = NoOne
    BY DEF Reads, fileVars
  <1>2. /\ reader'.who = who /\ reader'.pc = "look" /\ reader'.floor = committed
        /\ reader' \in Readers /\ reader.who = "none"
    BY <1>1 DEF NoOne, Readers, FilesInv, FileTypes
  <1>3. Holds'
    BY <1>1, <1>2 DEF Holds, FilesInv, FileTypes, Vers
  <1> QED
    BY <1>1, <1>2, <1>3, LogUnchanged
       DEF FilesInv, FileTypes, SnapshotHolds, Whole, fileVars

LEMMA UnlockFiles ==
    ASSUME FilesInv, UNCHANGED <<fileVars, snapshot>>, reader' = NoOne, raced' = FALSE,
           stale' = stale \/ stale' = TRUE
    PROVE  FilesInv' /\ committed' = committed /\ reader'.who = "none"
  <1>1. UNCHANGED <<committed, db, wal, snapshot>>
    BY DEF fileVars
  <1>2. reader'.who = "none" /\ reader'.pc = "free" /\ reader'.floor = 0 /\ reader' \in Readers
    BY ReadConstants DEF NoOne, Readers, Vers
  <1>3. Holds'
    BY <1>1, <1>2 DEF Holds, FilesInv, FileTypes, Vers
  <1>4. SnapshotHolds'
    BY <1>1 DEF FilesInv, SnapshotHolds, Whole
  <1> QED
    BY <1>1, <1>2, <1>3, <1>4, LogUnchanged DEF FilesInv, FileTypes, fileVars

\* The reader's own steps leave the files, who reads and since when alone.
SameReader == /\ reader'.who = reader.who /\ reader'.floor = reader.floor
              /\ committed' = committed

LEMMA TryFiles ==
    ASSUME FilesInv, NEW try \in Nat, TryAgain(try), raced' = FALSE, reader.pc # "free",
           UNCHANGED <<fileVars, stale, snapshot>>
    PROVE  FilesInv' /\ SameReader
  <1>1. UNCHANGED <<committed, db, wal, stale, snapshot>> /\ reader \in Readers
    BY DEF fileVars, FilesInv, FileTypes
  <1>2. /\ reader'.who = reader.who /\ reader'.floor = reader.floor /\ reader'.pc = "db"
        /\ reader'.page = <<>> /\ reader' \in Readers
    <2> DEFINE none == <<>>
    <2>1. none \in Seq(Vers)
      OBVIOUS
    <2>2. reader' = [reader EXCEPT !.pc = "db", !.try = try, !.page = none]
      BY DEF TryAgain
    <2> HIDE DEF none
    <2>3. /\ reader'.who = reader.who /\ reader'.floor = reader.floor /\ reader'.pc = "db"
          /\ reader'.page = none /\ reader' \in Readers
      BY <1>1, <2>1, <2>2 DEF Readers
    <2> QED
      BY <2>3 DEF none
  <1>3. CopiedAsIs' /\ Len(reader'.page) = 0 /\ 0 < Pages
    BY <1>2, ReadConstants DEF CopiedAsIs
  <1>4. Holds'
    BY <1>1, <1>2, <1>3 DEF Holds, FilesInv
  <1>5. SnapshotHolds'
    BY <1>1 DEF FilesInv, SnapshotHolds, Whole
  <1> QED
    BY <1>1, <1>2, <1>4, <1>5, LogUnchanged DEF FilesInv, FileTypes, SameReader

LEMMA LookFiles ==
    ASSUME FilesInv, Look
    PROVE  FilesInv' /\ SameReader
  <1>1. UNCHANGED <<committed, db, wal, stale, snapshot, fileVars>> /\ reader \in Readers
    BY DEF fileVars, FilesInv, FileTypes, Look, ReaderOnly
  <1>2. CASE snapshot # <<>> /\ ~stale
    <2>1. reader' = [reader EXCEPT !.pc = "ready"] /\ UNCHANGED raced
      BY <1>2 DEF Look
    <2>2. /\ reader'.who = reader.who /\ reader'.floor = reader.floor
          /\ reader'.pc = "ready" /\ reader' \in Readers
      BY <1>1, <2>1 DEF Readers
    <2>3. Whole(snapshot, committed)
      BY <1>2 DEF FilesInv, SnapshotHolds
    <2>4. committed \in reader.floor..committed
      BY <1>1, ReadConstants DEF FilesInv, FileTypes, Readers, Holds, Vers
    <2>5. \E v \in reader.floor..committed : Whole(snapshot, v)
      BY <2>3, <2>4
    <2>6. Holds'
      BY <1>1, <2>2, <2>5 DEF Holds, FilesInv, Look, Whole
    <2>7. SnapshotHolds'
      BY <1>1 DEF FilesInv, SnapshotHolds, Whole
    <2> QED
      BY <1>1, <2>1, <2>2, <2>6, <2>7, LogUnchanged DEF FilesInv, FileTypes, SameReader
  <1>3. CASE ~(snapshot # <<>> /\ ~stale)
    <2>1. TryAgain(1) /\ raced' = FALSE /\ reader.pc # "free"
      BY <1>3 DEF Look
    <2> QED
      BY <1>1, <2>1, TryFiles
  <1> QED
    BY <1>2, <1>3

LEMMA ReadPageFiles ==
    ASSUME FilesInv, ReadPage
    PROVE  FilesInv' /\ SameReader
  <1>1. /\ UNCHANGED <<committed, db, wal, stale, raced, snapshot, fileVars>>
        /\ reader \in Readers /\ reader.page \in Seq(Vers) /\ db \in [1..Pages -> Vers]
        /\ Pages \in Nat \ {0} /\ reader.pc = "db" /\ Len(reader.page) < Pages
        /\ CopiedAsIs
    BY ReadConstants
       DEF fileVars, FilesInv, FileTypes, ReadPage, ReaderOnly, Holds, Readers
  <1> DEFINE n == Len(reader.page) + 1
             page == Append(reader.page, db[n])
             pc == IF n = Pages THEN "wal" ELSE "db"
  <1>2. reader' = [reader EXCEPT !.page = page, !.pc = pc]
    BY <1>1 DEF ReadPage
  <1>3. n \in 1..Pages
    BY <1>1
  <1>4. page \in Seq(Vers) /\ Len(page) = n
    BY <1>1, <1>3
  <1>5. ~raced => \A p \in 1..n : page[p] = db[p]
    BY <1>1, <1>3 DEF CopiedAsIs
  <1> HIDE DEF page, pc
  <1>6. /\ reader'.who = reader.who /\ reader'.floor = reader.floor /\ reader'.page = page
        /\ reader'.pc = pc
    BY <1>1, <1>2 DEF Readers
  <1>7. pc \in {"wal", "db"} /\ (pc = "wal" <=> n = Pages) /\ reader' \in Readers
    BY <1>1, <1>2, <1>4 DEF Readers, pc
  <1>8. CopiedAsIs'
    BY <1>1, <1>4, <1>5, <1>6 DEF CopiedAsIs
  <1>9. (pc = "db" => Len(page) < Pages) /\ (pc = "wal" => Len(page) = Pages)
    BY <1>3, <1>4, <1>7, <1>1
  <1>10. Holds'
    BY <1>1, <1>6, <1>7, <1>8, <1>9 DEF Holds, FilesInv
  <1>11. SnapshotHolds'
    BY <1>1 DEF FilesInv, SnapshotHolds, Whole
  <1> QED
    BY <1>1, <1>6, <1>7, <1>10, <1>11, LogUnchanged DEF FilesInv, FileTypes, SameReader

\* What _patch_wal finds: the frames of this round up to the last commit, and
\* of each page the frame that commit wrote.
LEMMA LogRead ==
    ASSUME FilesInv, ReadLog
    PROVE  reader' = [reader EXCEPT !.pc = "check",
                        !.page = [p \in 1..Pages |-> IF LastCommit = 0 THEN reader.page[p]
                                                     ELSE committed]]
  <1> DEFINE fits == {n \in DOMAIN wal.frames :
                        \A i \in 1..n : wal.frames[i].salt = wal.salt}
             used == {i \in fits : \E n \in fits : i <= n /\ wal.frames[n].commit}
             of(p) == {i \in used : wal.frames[i].page = p}
             latest(p) == CHOOSE i \in of(p) : \A j \in of(p) : j <= i
  <1>1. reader' = [reader EXCEPT !.pc = "check",
                     !.page = [p \in 1..Pages |-> IF of(p) = {} THEN reader.page[p]
                                                  ELSE wal.frames[latest(p)].ver]]
    BY DEF ReadLog
  <1>2. /\ wal.frames \in Seq(Frames) /\ wal.used \in Nat /\ wal.used <= Len(wal.frames)
        /\ wal.salt \in Nat /\ LastCommit \in 0..wal.used /\ Pages \in Nat \ {0}
        /\ DOMAIN wal.frames = 1..Len(wal.frames) /\ Len(wal.frames) \in Nat
    BY LogEnd, ReadConstants DEF FilesInv, FileTypes, Logs
  <1>3. fits = 1..wal.used
    <2>1. ASSUME NEW n \in 1..wal.used  PROVE n \in fits
      <3>1. n \in DOMAIN wal.frames /\ \A i \in 1..n : i \in 1..wal.used
        BY <1>2
      <3> QED
        BY <3>1 DEF FilesInv, Salts
    <2>2. ASSUME NEW n \in fits  PROVE n \in 1..wal.used
      <3>1. n \in 1..Len(wal.frames) /\ n \in 1..n
        BY <1>2
      <3>2. wal.frames[n].salt = wal.salt
        BY <3>1
      <3>3. n \notin (wal.used + 1)..Len(wal.frames)
        <4>1. ~(wal.salt < wal.salt)
          BY <1>2
        <4> QED
          BY <3>2, <4>1 DEF FilesInv, Salts
      <3> QED
        BY <3>1, <3>3, <1>2
    <2> QED
      BY <2>1, <2>2
  <1> HIDE DEF fits
  <1>4. used = 1..LastCommit
    <2>1. ASSUME NEW i \in 1..LastCommit  PROVE i \in used
      <3>1. i \in fits /\ LastCommit \in fits /\ i <= LastCommit /\ LastCommit # 0
        BY <1>2, <1>3
      <3>2. LastCommit \in 1..wal.used /\ LastCommit > LastCommit - Pages
            /\ LastCommit <= LastCommit
        BY <1>2, <3>1
      <3>3. wal.frames[LastCommit].commit = TRUE
        BY <3>2 DEF FilesInv, Ended
      <3> QED
        BY <3>1, <3>3
    <2>2. ASSUME NEW i \in used  PROVE i \in 1..LastCommit
      <3>1. PICK n \in fits : i <= n /\ wal.frames[n].commit
        OBVIOUS
      <3>2. n \in 1..wal.used /\ i \in 1..wal.used
        BY <1>3
      <3>3. ~(n > LastCommit)
        BY <3>1, <3>2 DEF FilesInv, Begun
      <3> QED
        BY <3>1, <3>2, <3>3, <1>2
    <2> QED
      BY <2>1, <2>2
  <1> HIDE DEF used
  <1>5. CASE LastCommit = 0
    <2>1. \A p \in 1..Pages : of(p) = {}
      BY <1>4, <1>5
    <2> QED
      BY <2>1, <1>1, <1>5
  <1>6. CASE LastCommit # 0
    <2>1. ASSUME NEW p \in 1..Pages
          PROVE  of(p) # {} /\ wal.frames[latest(p)].ver = committed
      <3> DEFINE k == LastCommit - Pages + p
      <3>1. LastCommit >= Pages
        BY <1>6 DEF FilesInv, Ended
      <3>2. k \in 1..LastCommit /\ k > LastCommit - Pages /\ k - (LastCommit - Pages) = p
            /\ k \in 1..wal.used /\ k <= LastCommit
        BY <3>1, <1>2
      <3>3. wal.frames[k].page = p /\ wal.frames[k].ver = committed
        BY <3>2 DEF FilesInv, Ended
      <3>4. k \in of(p)
        BY <3>2, <3>3, <1>4
      <3>5. ASSUME NEW j \in of(p)  PROVE j <= k
        <4>1. j \in 1..LastCommit /\ j \in 1..wal.used /\ wal.frames[j].page = p
          BY <1>4, <1>2
        <4>2. CASE j > LastCommit - Pages
          <5>1. wal.frames[j].page = j - (LastCommit - Pages)
            BY <4>1, <4>2, <1>2 DEF FilesInv, Ended
          <5> QED
            BY <5>1, <4>1, <1>2
        <4>3. CASE ~(j > LastCommit - Pages)
          BY <4>1, <4>3, <1>2
        <4> QED
          BY <4>2, <4>3
      <3> HIDE DEF k
      <3>6. latest(p) \in of(p) /\ \A j \in of(p) : j <= latest(p)
        BY <3>4, <3>5
      <3> HIDE DEF latest
      <3>7. latest(p) = k
        <4>1. latest(p) <= k /\ k <= latest(p)
          BY <3>4, <3>5, <3>6
        <4>2. latest(p) \in Int /\ k \in Int
          BY <3>2, <3>6, <1>4
        <4> QED
          BY <4>1, <4>2
      <3> QED
        BY <3>3, <3>4, <3>7
    <2> HIDE DEF of, latest
    <2> QED
      BY <2>1, <1>1, <1>6
  <1> QED
    BY <1>5, <1>6

LEMMA ReadLogFiles ==
    ASSUME FilesInv, ReadLog
    PROVE  FilesInv' /\ SameReader
  <1> DEFINE page == [p \in 1..Pages |-> IF LastCommit = 0 THEN reader.page[p]
                                         ELSE committed]
  <1>1. /\ UNCHANGED <<committed, db, wal, stale, raced, snapshot, fileVars>>
        /\ reader \in Readers /\ reader.page \in Seq(Vers) /\ committed \in Vers
        /\ Pages \in Nat \ {0} /\ reader.pc = "wal" /\ Len(reader.page) = Pages
        /\ CopiedAsIs
    BY ReadConstants
       DEF fileVars, FilesInv, FileTypes, ReadLog, ReaderOnly, Holds, Readers
  <1>2. reader' = [reader EXCEPT !.pc = "check", !.page = page]
    BY LogRead
  <1>3. page \in Seq(Vers) /\ Len(page) = Pages
    <2>1. \A p \in 1..Pages : reader.page[p] \in Vers
      BY <1>1
    <2> QED
      BY <2>1, <1>1
  <1>4. ~raced => Whole(page, committed)
    <2>1. LastCommit = 0 => \A p \in 1..Pages : db[p] = committed
      BY DEF FilesInv, Ended
    <2> QED
      BY <2>1, <1>1 DEF CopiedAsIs, Whole
  <1> HIDE DEF page
  <1>5. /\ reader'.who = reader.who /\ reader'.floor = reader.floor /\ reader'.page = page
        /\ reader'.pc = "check" /\ reader' \in Readers
    BY <1>1, <1>2, <1>3 DEF Readers
  <1>6. Holds'
    BY <1>1, <1>3, <1>4, <1>5 DEF Holds, FilesInv, Whole
  <1>7. SnapshotHolds'
    BY <1>1 DEF FilesInv, SnapshotHolds, Whole
  <1> QED
    BY <1>1, <1>5, <1>6, <1>7, LogUnchanged DEF FilesInv, FileTypes, SameReader

\* A read that ends, with or without its rows.
LEMMA EndsReader ==
    ASSUME FilesInv, NEW pc \in {"ready", "failed"}, Ends(pc)
    PROVE  reader'.who = reader.who /\ reader'.floor = reader.floor /\ reader'.pc = pc
           /\ reader' \in Readers
  <1>1. reader \in Readers
    BY DEF FilesInv, FileTypes
  <1>2. reader' = [who |-> reader.who, pc |-> pc, try |-> 0, page |-> <<>>,
                   floor |-> reader.floor]
    BY DEF Ends, NoOne
  <1>3. <<>> \in Seq(Vers)
    OBVIOUS
  <1> QED
    BY <1>1, <1>2, <1>3 DEF Readers

LEMMA FailedFiles ==
    ASSUME FilesInv, Failed, reader.pc = "check", UNCHANGED <<fileVars, stale, snapshot>>
    PROVE  FilesInv' /\ SameReader
  <1>1. UNCHANGED <<committed, db, wal, stale, snapshot>> /\ reader.try + 1 \in Nat
    BY DEF fileVars, FilesInv, FileTypes, Readers
  <1>2. CASE reader.try < Attempts
    BY <1>1, <1>2, TryFiles DEF Failed
  <1>3. CASE ~(reader.try < Attempts)
    <2>1. Ends("failed") /\ UNCHANGED raced
      BY <1>3 DEF Failed
    <2>2. /\ reader'.who = reader.who /\ reader'.floor = reader.floor
          /\ reader'.pc = "failed" /\ reader' \in Readers
      BY <2>1, EndsReader
    <2>3. Holds'
      BY <1>1, <2>2 DEF Holds, FilesInv
    <2>4. SnapshotHolds'
      BY <1>1 DEF FilesInv, SnapshotHolds, Whole
    <2> QED
      BY <1>1, <2>1, <2>2, <2>3, <2>4, LogUnchanged DEF FilesInv, FileTypes, SameReader
  <1> QED
    BY <1>2, <1>3

LEMMA CheckFiles ==
    ASSUME FilesInv, Check
    PROVE  FilesInv' /\ SameReader
  <1>1. /\ UNCHANGED <<committed, db, wal, stale, snapshot, fileVars>>
        /\ reader \in Readers /\ reader.pc = "check"
    BY DEF fileVars, FilesInv, FileTypes, Check, ReaderOnly
  <1>2. CASE UnchangedSince /\ reader' = [reader EXCEPT !.pc = "replace"] /\ UNCHANGED raced
    <2>1. /\ reader'.who = reader.who /\ reader'.floor = reader.floor
          /\ reader'.pc = "replace" /\ reader'.page = reader.page /\ reader' \in Readers
      BY <1>1, <1>2 DEF Readers
    <2>2. Len(reader.page) = Pages /\ ~raced /\ Whole(reader.page, committed)
      BY <1>1, <1>2 DEF FilesInv, Holds, UnchangedSince
    <2>3. committed \in reader.floor..committed
      BY <1>1, ReadConstants DEF FilesInv, FileTypes, Readers, Holds, Vers
    <2>4. \E v \in reader.floor..committed : Whole(reader.page, v)
      BY <2>2, <2>3
    <2>5. Holds'
      BY <1>1, <1>2, <2>1, <2>2, <2>4 DEF Holds, FilesInv, Whole
    <2>6. SnapshotHolds'
      BY <1>1 DEF FilesInv, SnapshotHolds, Whole
    <2> QED
      BY <1>1, <1>2, <2>1, <2>5, <2>6, LogUnchanged DEF FilesInv, FileTypes, SameReader
  <1>3. CASE Failed
    BY <1>1, <1>3, FailedFiles
  <1> QED
    BY <1>2, <1>3 DEF Check

LEMMA ReplaceFiles ==
    ASSUME FilesInv, Replace
    PROVE  FilesInv' /\ SameReader
  <1>1. /\ UNCHANGED <<committed, db, wal, raced, fileVars>> /\ snapshot' = reader.page
        /\ stale' = raced /\ Ends("ready") /\ reader \in Readers /\ reader.pc = "replace"
        /\ raced \in BOOLEAN /\ committed \in Vers /\ Pages \in Nat \ {0}
    BY ReadConstants DEF fileVars, FilesInv, FileTypes, Replace, ReaderOnly
  <1>2. /\ reader'.who = reader.who /\ reader'.floor = reader.floor
        /\ reader'.pc = "ready" /\ reader' \in Readers
    BY <1>1, EndsReader
  <1>3. PICK v \in reader.floor..committed : Whole(reader.page, v)
    BY <1>1 DEF FilesInv, Holds
  <1>4. v \in 0..committed /\ v \in Vers
    BY <1>1, ReadConstants DEF Readers, Vers
  <1>5. Whole(snapshot', v) /\ (~stale' => Whole(snapshot', committed))
    BY <1>1, <1>3 DEF FilesInv, Holds, Whole
  <1>6. snapshot' \in [1..Pages -> Vers]
    <2>1. reader.page \in Seq(Vers)
      BY <1>1 DEF Readers
    <2>2. reader.page = [p \in 1..Len(reader.page) |-> reader.page[p]]
      BY <2>1
    <2> QED
      BY <1>1, <1>3, <1>4, <2>2 DEF Whole
  <1>7. FileTypes'
    BY <1>1, <1>2, <1>6 DEF FilesInv, FileTypes
  <1>8. Holds'
    BY <1>1, <1>2, <1>3, <1>5 DEF Holds, FilesInv, Whole
  <1>9. SnapshotHolds'
    BY <1>1, <1>4, <1>5 DEF SnapshotHolds, Whole
  <1> QED
    BY <1>1, <1>2, <1>7, <1>8, <1>9, LogUnchanged DEF FilesInv, SameReader

-----------------------------------------------------------------------------
(* What a read returns *)

LEMMA NewestIs ==
    ASSUME NEW v \in Vers, Whole(snapshot, v)
    PROVE  Newest = v
  <1>1. 1 \in 1..Pages /\ v <= v
    BY ReadConstants DEF Vers
  <1>2. {snapshot[p] : p \in 1..Pages} = {v}
    BY <1>1 DEF Whole
  <1>3. \A p \in 1..Pages : v <= snapshot[p]
    BY <1>1 DEF Whole
  <1> QED
    BY <1>2, <1>3 DEF Newest

\* Whoever has rows has those of a moment after its read began.
LEMMA NewestIsCurrent ==
    ASSUME FilesInv, reader.pc = "ready"
    PROVE  Newest \in Vers /\ reader.floor <= Newest /\ Newest <= committed
  <1>1. PICK v \in reader.floor..committed : Whole(snapshot, v)
    BY DEF FilesInv, Holds
  <1>2. v \in Vers /\ reader.floor <= v /\ v <= committed
    BY <1>1, ReadConstants DEF FilesInv, FileTypes, Readers, Vers
  <1> QED
    BY <1>1, <1>2, NewestIs

-----------------------------------------------------------------------------
(* The invariant of the hub, the stream and the client *)

Streaming == {"backlog", "reads", "writes", "live"}
Publishing == {"publishes", "puts", "drains"}
Monitors ==
    [pc : {"sleeps", "reads"} \cup Publishing, last : Vers, to : Vers, put : BOOLEAN]
Handlers ==
    [pc : {"off", "latest", "subscribe", "asked"} \cup Streaming,
     sent : Vers, to : Vers, more : BOOLEAN]
Clients == [from : Vers, last : Vers, got : Seq(Ids)]

HubTypes ==
    /\ monitor \in Monitors /\ handler \in Handlers /\ client \in Clients
    /\ queue \in Seq({CLOSED} \cup Ids) /\ Len(queue) <= QueueSize
    /\ subscribed \in BOOLEAN
    /\ start \in Vers /\ drained \in SUBSET Ids /\ faults \in Nat

\* Who is in the middle of a read holds the reader's lock.
WhoReads ==
    /\ monitor.pc = "reads" <=> reader.who = "monitor"
    /\ handler.pc \in {"latest", "reads", "asked"} <=> reader.who = "handler"

\* Nothing is published or sent before it is written.
Behind ==
    /\ monitor.last <= committed
    /\ monitor.pc \in Publishing => monitor.last < monitor.to /\ monitor.to <= committed
    /\ handler.pc = "writes" => handler.sent < handler.to /\ handler.to <= committed
    /\ client.last <= committed

\* A stream past its subscription has the queue of the hub, or one the monitor
\* has just dropped, or the word that it is closed.
Subscription ==
    /\ monitor.put => monitor.pc \in {"puts", "drains"}
    /\ monitor.put => (monitor.pc = "puts" <=> subscribed)
    /\ subscribed \/ monitor.put \/ queue # <<>> <=> handler.pc \in Streaming

\* The queue holds the ids up to the last that was published, without a gap,
\* or nothing but the word that it is closed.
Open == queue # <<>> /\ queue[1] # CLOSED
Closing == queue # <<>> /\ queue[1] = CLOSED
InARow == \A i \in 1..Len(queue) : queue[i] = monitor.last - Len(queue) + i
QueueIs ==
    /\ Open => /\ InARow
               /\ monitor.pc \in {"puts", "drains"} => monitor.put
               /\ subscribed \/ monitor.put
    /\ Closing => Len(queue) = 1 /\ ~subscribed /\ ~monitor.put

\* The first id that may still come out of the queue; one that is being
\* published to others will not.
First ==
    IF queue # <<>> THEN queue[1]
    ELSE IF monitor.pc \in {"puts", "drains"} /\ ~monitor.put THEN monitor.last + 2
    ELSE monitor.last + 1

Excused(id) == id <= start \/ id \in drained

\* What was sent and what is in the queue leave no gap: what lies between is
\* found by the backlog, which is read after the subscription.
NoGap ==
    handler.pc \in Streaming /\ ~Closing =>
        \A id \in (handler.sent + 1)..(First - 1) :
            /\ handler.pc = "reads" => id <= reader.floor \/ Excused(id)
            /\ handler.pc = "writes" /\ ~handler.more => id <= handler.to \/ Excused(id)
            /\ handler.pc = "live" => Excused(id)

\* The stream goes on from what the client has.
GoesOn ==
    /\ handler.pc = "latest" => client.last = 0
    /\ handler.pc \in {"subscribe"} \cup Streaming =>
          handler.sent = IF client.last > 0 THEN client.last ELSE client.from

GotSoFar == \A i \in 1..Len(client.got) : client.got[i] <= client.last

HasGot(id) == \E i \in 1..Len(client.got) : client.got[i] = id
MissesNothing ==
    \A id \in (client.from + 1)..client.last : HasGot(id) \/ Excused(id)
CountsUp ==
    \A i, j \in 1..Len(client.got) : i < j => client.got[i] < client.got[j]
ClientInv == GotSoFar /\ MissesNothing /\ CountsUp

HubInv ==
    /\ HubTypes /\ WhoReads /\ Behind /\ Subscription /\ QueueIs /\ NoGap /\ GoesOn
    /\ ClientInv

-----------------------------------------------------------------------------
(* What most steps leave alone *)

LEMMA HubNumbers ==
    ASSUME HubTypes
    PROVE  /\ monitor.last \in Vers /\ monitor.to \in Vers /\ monitor.put \in BOOLEAN
           /\ handler.sent \in Vers /\ handler.to \in Vers /\ handler.more \in BOOLEAN
           /\ client.last \in Vers /\ client.from \in Vers /\ client.got \in Seq(Ids)
           /\ MaxMessages \in Nat \ {0} /\ PageLimit \in Nat \ {0}
           /\ QueueSize \in Nat \ {0}
  BY ReadConstants DEF HubTypes, Monitors, Handlers, Clients

\* More may be excused, never less.
LEMMA ClientSame ==
    ASSUME HubInv, UNCHANGED client, start <= start', drained \subseteq drained',
           start \in Int, start' \in Int
    PROVE  ClientInv'
  <1>1. ASSUME NEW id \in (client.from + 1)..client.last  PROVE HasGot(id)' \/ Excused(id)'
    <2>1. HasGot(id) \/ id <= start \/ id \in drained
      BY DEF HubInv, ClientInv, MissesNothing, Excused
    <2>2. id <= start => id <= start'
      BY HubNumbers DEF HubInv, Vers
    <2> QED
      BY <2>1, <2>2 DEF HasGot, Excused
  <1> QED
    BY <1>1 DEF HubInv, ClientInv, GotSoFar, MissesNothing, CountsUp

\* A step of WeChat or of the reader.
LEMMA FilesOnlyHub ==
    ASSUME HubInv, UNCHANGED <<hubVars, endVars>>, faults' \in Nat, committed' \in Int,
           committed \in Int, committed <= committed',
           reader'.who = reader.who, reader'.floor = reader.floor
    PROVE  HubInv'
  <1>1. UNCHANGED <<monitor, handler, client, start, drained, queue, subscribed>>
    BY DEF hubVars, endVars
  <1>2. HubTypes' /\ WhoReads' /\ Subscription' /\ GoesOn'
    BY <1>1 DEF HubInv, HubTypes, WhoReads, Subscription, GoesOn
  <1>3. Behind'
    <2>1. ASSUME NEW v \in Vers, v <= committed  PROVE v <= committed'
      BY <2>1, ReadConstants DEF Vers
    <2> QED
      BY <1>1, <2>1, HubNumbers DEF HubInv, Behind
  <1>4. QueueIs' /\ Closing' = Closing /\ First' = First
    BY <1>1 DEF HubInv, QueueIs, Open, Closing, InARow, First
  <1>5. NoGap'
    BY <1>1, <1>4 DEF HubInv, NoGap, Excused
  <1>6. ClientInv'
    BY <1>1 DEF HubInv, ClientInv, GotSoFar, MissesNothing, CountsUp, HasGot, Excused
  <1> QED
    BY <1>2, <1>3, <1>4, <1>5, <1>6 DEF HubInv

\* What the monitor does between two rounds of publishing, when it changes
\* nothing but where it stands.
LEMMA MonitorTurns ==
    ASSUME HubInv, UNCHANGED <<hubVars, handler, client, start, drained, committed>>,
           faults' \in Nat,
           monitor' \in Monitors, monitor.pc \in {"sleeps", "reads"},
           monitor'.pc \in {"sleeps", "reads", "publishes"}, monitor'.put = FALSE,
           monitor'.last = monitor.last,
           monitor'.pc = "publishes" => monitor.last < monitor'.to /\ monitor'.to <= committed,
           WhoReads', handler.pc # "reads"
    PROVE  HubInv'
  <1>1. UNCHANGED <<handler, client, start, drained, queue, subscribed>>
    BY DEF hubVars
  <1>2. monitor.put = FALSE
    BY HubNumbers DEF HubInv, Subscription
  <1>3. HubTypes' /\ GoesOn'
    BY <1>1 DEF HubInv, HubTypes, GoesOn
  <1>4. Behind'
    BY <1>1 DEF HubInv, Behind, Publishing
  <1>5. Subscription'
    BY <1>1, <1>2 DEF HubInv, Subscription
  <1>6. InARow' = InARow /\ Open' = Open /\ Closing' = Closing /\ First' = First
    BY <1>1, <1>2 DEF InARow, Open, Closing, First
  <1>7. QueueIs'
    BY <1>1, <1>2, <1>6 DEF HubInv, QueueIs
  <1>8. NoGap'
    BY <1>1, <1>6 DEF HubInv, NoGap, Excused
  <1>9. ClientInv'
    BY <1>1 DEF HubInv, ClientInv, GotSoFar, MissesNothing, CountsUp, HasGot, Excused
  <1> QED
    BY <1>3, <1>4, <1>5, <1>7, <1>8, <1>9 DEF HubInv

LEMMA SleepsIs ==
    ASSUME NEW last \in Vers
    PROVE  /\ Sleeps(last) \in Monitors /\ Sleeps(last).pc = "sleeps"
           /\ Sleeps(last).last = last /\ Sleeps(last).put = FALSE
  <1>1. 0 \in Vers
    BY ReadConstants DEF Vers
  <1>2. NewMonitor \in Monitors /\ NewMonitor.pc = "sleeps" /\ NewMonitor.put = FALSE
    BY <1>1 DEF NewMonitor, Monitors
  <1>3. Sleeps(last) = [NewMonitor EXCEPT !.last = last]
    BY DEF Sleeps
  <1> QED
    BY <1>2, <1>3 DEF Monitors

LEMMA MonitorReadsHub ==
    ASSUME FilesInv, HubInv, MonitorReads
    PROVE  FilesInv' /\ HubInv'
  <1>1. /\ Reads("monitor") /\ monitor.pc = "sleeps"
        /\ monitor' = [monitor EXCEPT !.pc = "reads"]
        /\ UNCHANGED <<hubVars, handler, client, start, drained, faults>>
    BY DEF MonitorReads, Reads
  <1>2. FilesInv' /\ committed' = committed /\ reader'.who = "monitor" /\ reader.who = "none"
    BY <1>1, ReadsFiles
  <1>3. /\ monitor'.pc = "reads" /\ monitor'.last = monitor.last /\ monitor'.to = monitor.to
        /\ monitor'.put = monitor.put /\ monitor' \in Monitors
    BY <1>1 DEF HubInv, HubTypes, Monitors
  <1>4. handler.pc \notin {"latest", "reads", "asked"} /\ WhoReads'
    BY <1>1, <1>2, <1>3 DEF HubInv, WhoReads
  <1>5. monitor.put = FALSE /\ faults \in Nat
    BY <1>1, HubNumbers DEF HubInv, Subscription, HubTypes
  <1> QED
    BY <1>1, <1>2, <1>3, <1>4, <1>5, MonitorTurns

LEMMA MonitorFailsHub ==
    ASSUME FilesInv, HubInv, MonitorFails
    PROVE  FilesInv' /\ HubInv'
  <1>1. /\ Unlock /\ monitor.pc = "reads" /\ reader.who = "monitor"
        /\ monitor' = Sleeps(monitor.last) /\ faults' = faults
        /\ UNCHANGED <<hubVars, handler, client, start, drained>>
    BY DEF MonitorFails, Unlock, HasNot
  <1>2. FilesInv' /\ committed' = committed /\ reader'.who = "none"
    BY <1>1, UnlockFiles DEF Unlock
  <1>3. /\ monitor'.pc = "sleeps" /\ monitor'.last = monitor.last /\ monitor'.put = FALSE
        /\ monitor' \in Monitors
    BY <1>1, SleepsIs, HubNumbers DEF HubInv
  <1>4. handler.pc \notin {"latest", "reads", "asked"} /\ WhoReads'
    BY <1>1, <1>2, <1>3 DEF HubInv, WhoReads
  <1>5. faults \in Nat
    BY DEF HubInv, HubTypes
  <1> QED
    BY <1>1, <1>2, <1>3, <1>4, <1>5, MonitorTurns

\* messages_after returns rows that are there, all of them or a page of them.
LEMMA RowsAfter ==
    ASSUME NEW id \in Vers, Newest \in Vers
    PROVE  /\ LastAfter(id) \in Vers /\ id <= LastAfter(id)
           /\ LastAfter(id) <= Newest \/ LastAfter(id) = id
           /\ LastAfter(id) = id => Newest <= id
           /\ LastAfter(id) < Newest => LastAfter(id) - id = PageLimit
  BY ReadConstants DEF LastAfter, Vers

LEMMA MonitorHasRowsHub ==
    ASSUME FilesInv, HubInv, MonitorHasRows
    PROVE  FilesInv' /\ HubInv'
  <1>1. /\ Unlock /\ monitor.pc = "reads" /\ reader.who = "monitor" /\ reader.pc = "ready"
        /\ UNCHANGED <<hubVars, handler, client, drained, faults>>
    BY DEF MonitorHasRows, Unlock, Has
  <1>2. FilesInv' /\ committed' = committed /\ reader'.who = "none"
    BY <1>1, UnlockFiles DEF Unlock
  <1>3. Newest \in Vers /\ Newest <= committed /\ committed \in Vers
    BY <1>1, NewestIsCurrent DEF FilesInv, FileTypes
  <1>4. monitor.put = FALSE /\ handler.pc \notin {"latest", "reads", "asked"}
        /\ faults \in Nat
    BY <1>1, HubNumbers DEF HubInv, Subscription, WhoReads, HubTypes
  <1>5. monitor.last \in Vers /\ monitor \in Monitors
    BY HubNumbers DEF HubInv, HubTypes
  <1>6. CASE monitor.last # 0
    <2> DEFINE to == LastAfter(monitor.last)
    <2>1. /\ monitor' = IF to = monitor.last THEN Sleeps(to)
                        ELSE [monitor EXCEPT !.pc = "publishes", !.to = to]
          /\ UNCHANGED start
      BY <1>6 DEF MonitorHasRows
    <2>2. to \in Vers /\ monitor.last <= to /\ (to <= Newest \/ to = monitor.last)
      BY <1>3, <1>5, RowsAfter
    <2> HIDE DEF to
    <2>3. CASE to = monitor.last
      <3>1. /\ monitor'.pc = "sleeps" /\ monitor'.last = monitor.last /\ monitor'.put = FALSE
            /\ monitor' \in Monitors
        BY <2>1, <2>2, <2>3, SleepsIs
      <3>2. WhoReads'
        BY <1>1, <1>2, <1>4, <3>1 DEF WhoReads
      <3> QED
        BY <1>1, <1>2, <1>4, <2>1, <3>1, <3>2, MonitorTurns
    <2>4. CASE to # monitor.last
      <3>1. monitor' = [monitor EXCEPT !.pc = "publishes", !.to = to]
        BY <2>1, <2>4
      <3>2. /\ monitor'.pc = "publishes" /\ monitor'.last = monitor.last
            /\ monitor'.put = FALSE /\ monitor'.to = to /\ monitor' \in Monitors
        BY <3>1, <1>4, <1>5, <2>2 DEF Monitors, Publishing
      <3>3. monitor.last < to /\ to <= committed
        BY <2>2, <2>4, <1>3, <1>5 DEF Vers
      <3>4. WhoReads'
        BY <1>1, <1>2, <1>4, <3>2 DEF WhoReads
      <3> QED
        BY <1>1, <1>2, <1>4, <2>1, <3>2, <3>3, <3>4, MonitorTurns
    <2> QED
      BY <2>3, <2>4
  <1>7. CASE monitor.last = 0
    <2>1. /\ monitor' = Sleeps(Newest)
          /\ start' = IF subscribed /\ Newest > start THEN Newest ELSE start
          /\ UNCHANGED <<handler, client, drained, queue, subscribed, faults>>
      BY <1>1, <1>7 DEF MonitorHasRows, hubVars
    <2>2. /\ monitor'.pc = "sleeps" /\ monitor'.last = Newest /\ monitor'.put = FALSE
          /\ monitor' \in Monitors
      BY <2>1, <1>3, SleepsIs
    <2>3. start \in Vers /\ start' \in Vers /\ start <= start'
          /\ (subscribed => Newest <= start')
      BY <2>1, <1>3, ReadConstants DEF HubInv, HubTypes, Vers
    <2>4. HubTypes' /\ GoesOn' /\ WhoReads'
      BY <2>1, <2>2, <2>3, <1>2, <1>4 DEF HubInv, HubTypes, GoesOn, WhoReads
    <2>5. Behind'
      BY <2>1, <2>2, <1>2, <1>3 DEF HubInv, Behind, Publishing
    <2>6. Subscription'
      BY <2>1, <2>2, <1>4 DEF HubInv, Subscription
    <2>7. ~Open
      <3>1. SUFFICES ASSUME Open PROVE FALSE
        OBVIOUS
      <3>2. InARow /\ queue \in Seq({CLOSED} \cup Ids) /\ Len(queue) \in Nat /\ Len(queue) # 0
        BY <3>1 DEF HubInv, QueueIs, Open, HubTypes
      <3>3. Len(queue) \in 1..Len(queue) /\ 1 \in 1..Len(queue)
        BY <3>2
      <3>4. queue[1] = 0 - Len(queue) + 1 /\ queue[1] \in {CLOSED} \cup Ids
        BY <3>2, <3>3, <1>7 DEF InARow
      <3>5. queue[1] # 0
        BY <3>1 DEF Open, CLOSED
      <3> QED
        BY <3>2, <3>4, <3>5 DEF CLOSED, Ids
    <2>8. QueueIs' /\ Closing' = Closing
      BY <2>1, <2>2, <2>7 DEF HubInv, QueueIs, Open, Closing
    <2>9. NoGap'
      <3>1. SUFFICES ASSUME handler.pc \in Streaming, ~Closing,
                            NEW id \in (handler.sent + 1)..(First' - 1)
                     PROVE  id <= start'
        BY <2>1, <2>8 DEF NoGap, Excused
      <3>2. queue = <<>>
        BY <3>1, <2>7 DEF Open, Closing
      <3>3. subscribed
        BY <3>1, <3>2, <1>4 DEF HubInv, Subscription
      <3>4. First' = Newest + 1
        BY <3>2, <2>1, <2>2 DEF First
      <3>5. handler.sent \in Vers
        BY HubNumbers DEF HubInv
      <3> QED
        BY <3>3, <3>4, <3>5, <2>3, <1>3 DEF Vers
    <2>10. ClientInv'
      BY <2>1, <2>3, ClientSame DEF Vers
    <2> QED
      BY <1>2, <2>4, <2>5, <2>6, <2>8, <2>9, <2>10 DEF HubInv
  <1> QED
    BY <1>6, <1>7

-----------------------------------------------------------------------------
(* EventHub.publish *)

LEMMA HubOnlyIs ==
    ASSUME FilesInv, HubOnly
    PROVE  /\ FilesInv' /\ committed' = committed /\ reader' = reader
           /\ UNCHANGED <<handler, client, start, faults>>
  <1>1. UNCHANGED <<fileVars, stale, raced, readerVars>>
    BY DEF HubOnly
  <1>2. committed' = committed /\ reader' = reader
    BY <1>1 DEF fileVars, readerVars
  <1> QED
    BY <1>1, <1>2, NothingRead DEF HubOnly

LEMMA PublishedIs ==
    ASSUME HubInv, Published, monitor.pc \in {"puts", "drains"}, committed' = committed,
           committed \in Vers
    PROVE  /\ monitor' \in Monitors /\ monitor'.last = monitor.last + 1
           /\ monitor'.put = FALSE /\ monitor'.pc \in {"sleeps", "publishes"}
           /\ monitor'.last <= committed'
           /\ monitor'.pc \in Publishing =>
                monitor'.last < monitor'.to /\ monitor'.to <= committed'
  <1> DEFINE last == monitor.last + 1
  <1>1. /\ monitor \in Monitors /\ monitor.last \in Vers /\ monitor.to \in Vers
        /\ monitor.last < monitor.to /\ monitor.to <= committed /\ MaxMessages \in Nat
    BY HubNumbers DEF HubInv, HubTypes, Behind, Publishing
  <1>2. last \in Vers /\ last <= monitor.to /\ last <= committed
    BY <1>1 DEF Vers
  <1>3. monitor' = IF last = monitor.to THEN Sleeps(monitor.to)
                   ELSE [monitor EXCEPT !.pc = "publishes", !.last = last, !.put = FALSE]
    BY DEF Published
  <1>4. CASE last = monitor.to
    <2>1. /\ monitor' \in Monitors /\ monitor'.last = last /\ monitor'.put = FALSE
          /\ monitor'.pc = "sleeps"
      BY <1>1, <1>3, <1>4, SleepsIs
    <2> QED
      BY <2>1, <1>2 DEF Publishing
  <1>5. CASE last # monitor.to
    <2> HIDE DEF last
    <2>1. monitor' = [monitor EXCEPT !.pc = "publishes", !.last = last, !.put = FALSE]
      BY <1>3, <1>5
    <2>2. /\ monitor' \in Monitors /\ monitor'.last = last /\ monitor'.put = FALSE
          /\ monitor'.pc = "publishes" /\ monitor'.to = monitor.to
      BY <1>1, <1>2, <2>1 DEF Monitors, Publishing
    <2>3. last < monitor.to
      BY <1>1, <1>2, <1>5 DEF Vers
    <2> QED
      BY <1>1, <1>2, <2>2, <2>3 DEF last
  <1> QED
    BY <1>4, <1>5

\* The parts of the invariant that follow from what a step of publish does to
\* the monitor.
LEMMA PublishParts ==
    ASSUME HubInv, UNCHANGED <<handler, client, start, faults>>, reader' = reader,
           committed' = committed, drained \subseteq drained',
           monitor.pc \in Publishing, monitor' \in Monitors, monitor'.pc # "reads",
           monitor'.last <= committed',
           monitor'.pc \in Publishing =>
                monitor'.last < monitor'.to /\ monitor'.to <= committed'
    PROVE  WhoReads' /\ Behind' /\ GoesOn' /\ ClientInv'
  <1>1. WhoReads'
    BY DEF HubInv, WhoReads, Publishing
  <1>2. Behind' /\ GoesOn'
    BY DEF HubInv, Behind, GoesOn
  <1>3. start \in Int /\ start <= start' /\ start' \in Int
    BY ReadConstants DEF HubInv, HubTypes, Vers
  <1>4. ClientInv'
    BY <1>3, ClientSame
  <1> QED
    BY <1>1, <1>2, <1>4

LEMMA PublishBeginsHub ==
    ASSUME FilesInv, HubInv, PublishBegins
    PROVE  FilesInv' /\ HubInv'
  <1>1. /\ monitor.pc = "publishes" /\ UNCHANGED <<queue, subscribed, drained>>
        /\ monitor' = [monitor EXCEPT !.pc = "puts", !.put = subscribed]
        /\ monitor \in Monitors /\ subscribed \in BOOLEAN
    BY DEF PublishBegins, hubVars, HubInv, HubTypes
  <1>2. /\ FilesInv' /\ committed' = committed /\ reader' = reader
        /\ UNCHANGED <<handler, client, start, faults>>
    BY HubOnlyIs DEF PublishBegins
  <1>3. /\ monitor'.pc = "puts" /\ monitor'.put = subscribed /\ monitor'.last = monitor.last
        /\ monitor'.to = monitor.to /\ monitor' \in Monitors /\ monitor.put = FALSE
    BY <1>1, HubNumbers DEF HubInv, Subscription, Monitors, Publishing
  <1>4. monitor.last < monitor.to /\ monitor.to <= committed /\ monitor.last <= committed
    BY <1>1 DEF HubInv, Behind, Publishing
  <1>5. WhoReads' /\ Behind' /\ GoesOn' /\ ClientInv'
    BY <1>1, <1>2, <1>3, <1>4, PublishParts DEF Publishing
  <1>6. HubTypes'
    BY <1>1, <1>2, <1>3 DEF HubInv, HubTypes
  <1>7. Subscription'
    BY <1>1, <1>2, <1>3 DEF HubInv, Subscription
  <1>8. InARow' = InARow /\ Open' = Open /\ Closing' = Closing
    BY <1>1, <1>3 DEF InARow, Open, Closing
  <1>9. QueueIs'
    BY <1>1, <1>3, <1>8 DEF HubInv, QueueIs
  <1>10. NoGap'
    <2>1. handler.pc \in Streaming => queue # <<>> \/ subscribed
      BY <1>3 DEF HubInv, Subscription
    <2>2. handler.pc \in Streaming => First' = First
      BY <2>1, <1>1, <1>3 DEF First
    <2> QED
      BY <2>2, <1>1, <1>2, <1>8 DEF HubInv, NoGap, Excused
  <1> QED
    BY <1>2, <1>5, <1>6, <1>7, <1>9, <1>10 DEF HubInv

\* An event that no queue is waiting for.
LEMMA PublishedToNobody ==
    ASSUME FilesInv, HubInv, Published, HubOnly, monitor.pc \in {"puts", "drains"},
           ~monitor.put, UNCHANGED <<queue, subscribed, drained>>
    PROVE  HubInv'
  <1>1. /\ FilesInv' /\ committed' = committed /\ reader' = reader /\ committed \in Vers
        /\ UNCHANGED <<handler, client, start, faults>>
    BY HubOnlyIs DEF FilesInv, FileTypes
  <1>2. /\ monitor' \in Monitors /\ monitor'.last = monitor.last + 1
        /\ monitor'.put = FALSE /\ monitor'.pc \in {"sleeps", "publishes"}
        /\ monitor'.last <= committed'
        /\ monitor'.pc \in Publishing =>
             monitor'.last < monitor'.to /\ monitor'.to <= committed'
    BY <1>1, PublishedIs
  <1>3. WhoReads' /\ Behind' /\ GoesOn' /\ ClientInv'
    BY <1>1, <1>2, PublishParts DEF Publishing
  <1>4. HubTypes'
    BY <1>1, <1>2 DEF HubInv, HubTypes
  <1>5. Subscription'
    BY <1>1, <1>2 DEF HubInv, Subscription
  <1>6. ~Open /\ Open' = Open /\ Closing' = Closing
    BY DEF HubInv, QueueIs, Open, Closing
  <1>7. QueueIs'
    BY <1>2, <1>6 DEF HubInv, QueueIs
  <1>8. NoGap'
    <2>1. ~Closing => queue = <<>>
      BY <1>6 DEF Open, Closing
    <2>2. ~Closing => First = monitor.last + 2
      BY <2>1 DEF First
    <2>3. ~Closing => First' = monitor.last + 1 + 1
      BY <2>1, <1>2 DEF First
    <2>4. ~Closing => First' = First
      BY <2>2, <2>3, HubNumbers DEF HubInv, Vers
    <2> QED
      BY <2>4, <1>1, <1>6 DEF HubInv, NoGap, Excused
  <1> QED
    BY <1>3, <1>4, <1>5, <1>7, <1>8 DEF HubInv

LEMMA PublishPutsHub ==
    ASSUME FilesInv, HubInv, PublishPuts
    PROVE  FilesInv' /\ HubInv'
  <1>1. /\ monitor.pc = "puts" /\ Published /\ UNCHANGED <<subscribed, drained>> /\ HubOnly
        /\ queue' = IF monitor.put THEN Append(queue, monitor.last + 1) ELSE queue
        /\ monitor.put => Len(queue) < QueueSize
    BY DEF PublishPuts
  <1>2. /\ FilesInv' /\ committed' = committed /\ reader' = reader /\ committed \in Vers
        /\ UNCHANGED <<handler, client, start, faults>>
    BY <1>1, HubOnlyIs DEF FilesInv, FileTypes
  <1>3. CASE ~monitor.put
    BY <1>1, <1>2, <1>3, PublishedToNobody
  <1>4. CASE monitor.put
    <2>1. /\ monitor' \in Monitors /\ monitor'.last = monitor.last + 1
          /\ monitor'.put = FALSE /\ monitor'.pc \in {"sleeps", "publishes"}
          /\ monitor'.last <= committed'
          /\ monitor'.pc \in Publishing =>
               monitor'.last < monitor'.to /\ monitor'.to <= committed'
      BY <1>1, <1>2, PublishedIs
    <2>2. WhoReads' /\ Behind' /\ GoesOn' /\ ClientInv'
      BY <1>1, <1>2, <2>1, PublishParts DEF Publishing
    <2> DEFINE n == Len(queue)
    <2>3. /\ queue \in Seq({CLOSED} \cup Ids) /\ n \in Nat /\ n < QueueSize
          /\ QueueSize \in Nat /\ monitor.last \in Vers /\ monitor.last + 1 \in Ids
          /\ queue' = Append(queue, monitor.last + 1)
      <3>1. monitor'.last \in Vers /\ monitor.last \in Vers
        BY <2>1, HubNumbers DEF HubInv, Monitors
      <3>2. monitor.last + 1 \in Ids
        BY <3>1, <2>1 DEF Vers, Ids
      <3> QED
        BY <3>1, <3>2, <1>1, <1>4, HubNumbers DEF HubInv, HubTypes
    <2>4. queue' \in Seq({CLOSED} \cup Ids) /\ Len(queue') = n + 1 /\ n + 1 <= QueueSize
      BY <2>3
    <2>5. queue' # <<>> /\ queue'[n + 1] = monitor.last + 1
          /\ \A i \in 1..n : queue'[i] = queue[i]
      BY <2>3, <2>4
    <2>6. subscribed /\ ~Closing
      BY <1>1, <1>4 DEF HubInv, Subscription, QueueIs
    <2>7. HubTypes'
      BY <1>1, <1>2, <2>1, <2>4 DEF HubInv, HubTypes
    <2>8. Subscription'
      <3>1. handler.pc \in Streaming
        BY <2>6 DEF HubInv, Subscription
      <3> QED
        BY <3>1, <1>1, <1>2, <2>1, <2>6 DEF Subscription
    <2>9. InARow
      BY <2>6 DEF HubInv, QueueIs, Open, Closing, InARow
    <2>10. InARow'
      <3> DEFINE length == n + 1
                 last == monitor.last + 1
      <3>0. Len(queue') = length /\ monitor'.last = last
        BY <2>1, <2>4
      <3> HIDE DEF length, last
      <3>1. SUFFICES ASSUME NEW i \in 1..length
                     PROVE  queue'[i] = last - length + i
        BY <3>0 DEF InARow
      <3> USE DEF length, last
      <3>2. CASE i = n + 1
        BY <3>2, <2>3, <2>5 DEF Vers
      <3>3. CASE i # n + 1
        <4>1. i \in 1..n
          BY <3>3, <2>3
        <4>2. queue[i] = monitor.last - n + i
          BY <4>1, <2>9 DEF InARow
        <4> QED
          BY <4>1, <4>2, <2>3, <2>5 DEF Vers
      <3> QED
        BY <3>2, <3>3
    <2>11. First' = First /\ Open'
      <3>1. CASE queue = <<>>
        <4>1. n = 0
          BY <3>1
        <4>2. queue'[1] = monitor.last + 1
          BY <4>1, <2>5
        <4> QED
          BY <4>2, <3>1, <1>4, <2>3, <2>5 DEF First, Open, CLOSED, Ids
      <3>2. CASE queue # <<>>
        <4>1. 1 \in 1..n
          BY <3>2, <2>3
        <4>2. queue'[1] = queue[1] /\ queue[1] # CLOSED
          BY <4>1, <2>5, <2>6, <3>2 DEF Closing
        <4> QED
          BY <4>2, <3>2, <2>5 DEF First, Open
      <3> QED
        BY <3>1, <3>2
    <2>12. ~Closing'
      BY <2>11 DEF Open, Closing
    <2>13. QueueIs'
      BY <2>1, <2>6, <2>10, <2>12, <1>1 DEF QueueIs
    <2>14. NoGap'
      BY <2>6, <2>11, <1>1, <1>2 DEF HubInv, NoGap, Excused
    <2> QED
      BY <1>2, <2>2, <2>7, <2>8, <2>13, <2>14 DEF HubInv
  <1> QED
    BY <1>3, <1>4

LEMMA PublishDropsClientHub ==
    ASSUME FilesInv, HubInv, PublishDropsClient
    PROVE  FilesInv' /\ HubInv'
  <1>1. /\ monitor.pc = "puts" /\ monitor.put /\ subscribed' = FALSE
        /\ monitor' = [monitor EXCEPT !.pc = "drains"] /\ UNCHANGED <<queue, drained>>
        /\ monitor \in Monitors
    BY DEF PublishDropsClient, HubInv, HubTypes
  <1>2. /\ FilesInv' /\ committed' = committed /\ reader' = reader
        /\ UNCHANGED <<handler, client, start, faults>>
    BY HubOnlyIs DEF PublishDropsClient
  <1>3. /\ monitor'.pc = "drains" /\ monitor'.put = monitor.put
        /\ monitor'.last = monitor.last /\ monitor'.to = monitor.to /\ monitor' \in Monitors
    BY <1>1 DEF Monitors, Publishing
  <1>4. monitor.last < monitor.to /\ monitor.to <= committed /\ monitor.last <= committed
    BY <1>1 DEF HubInv, Behind, Publishing
  <1>5. WhoReads' /\ Behind' /\ GoesOn' /\ ClientInv'
    BY <1>1, <1>2, <1>3, <1>4, PublishParts DEF Publishing
  <1>6. HubTypes'
    BY <1>1, <1>2, <1>3 DEF HubInv, HubTypes
  <1>7. Subscription'
    BY <1>1, <1>2, <1>3 DEF HubInv, Subscription
  <1>8. InARow' = InARow /\ Open' = Open /\ Closing' = Closing /\ First' = First
    BY <1>1, <1>3 DEF InARow, Open, Closing, First
  <1>9. QueueIs'
    BY <1>1, <1>3, <1>8 DEF HubInv, QueueIs
  <1>10. NoGap'
    BY <1>1, <1>2, <1>8 DEF HubInv, NoGap, Excused
  <1> QED
    BY <1>2, <1>5, <1>6, <1>7, <1>9, <1>10 DEF HubInv

\* An id less at the head of a queue of ids.
LEMMA QueueTail ==
    ASSUME HubInv, Open
    PROVE  /\ queue[1] \in Ids /\ queue[1] <= monitor.last
           /\ Tail(queue) \in Seq({CLOSED} \cup Ids)
           /\ Len(Tail(queue)) = Len(queue) - 1 /\ Len(queue) \in Nat \ {0}
           /\ \A i \in 1..Len(Tail(queue)) :
                Tail(queue)[i] = monitor.last - Len(Tail(queue)) + i
           /\ Tail(queue) = <<>> => queue[1] = monitor.last
           /\ Tail(queue) # <<>> => Tail(queue)[1] = queue[1] + 1
           /\ Tail(queue) # <<>> => Tail(queue)[1] # CLOSED
  <1> DEFINE n == Len(queue)
             tail == Tail(queue)
  <1>1. queue \in Seq({CLOSED} \cup Ids) /\ n \in Nat \ {0} /\ monitor.last \in Nat /\ InARow
    <2>1. queue # <<>> /\ queue \in Seq({CLOSED} \cup Ids) /\ monitor.last \in Vers
      BY HubNumbers DEF Open, HubInv, HubTypes
    <2> QED
      BY <2>1 DEF HubInv, QueueIs, Vers
  <1>2. \A i \in 1..n : queue[i] = monitor.last - n + i
    BY <1>1 DEF InARow
  <1>3. queue[1] = monitor.last - n + 1 /\ queue[1] \in Ids
    <2>1. 1 \in 1..n
      BY <1>1
    <2>2. queue[1] \in {CLOSED} \cup Ids /\ queue[1] # CLOSED
      BY <2>1, <1>1 DEF Open
    <2>3. queue[1] = monitor.last - n + 1
      BY <2>1, <1>2
    <2> QED
      BY <2>2, <2>3
  <1>4. /\ tail \in Seq({CLOSED} \cup Ids) /\ Len(tail) = n - 1
        /\ \A i \in 1..(n - 1) : tail[i] = queue[i + 1]
    BY <1>1
  <1>5. ASSUME NEW i \in 1..(n - 1)  PROVE tail[i] = monitor.last - (n - 1) + i
    <2>1. i + 1 \in 1..n
      BY <1>1
    <2>2. tail[i] = monitor.last - n + (i + 1)
      BY <2>1, <1>2, <1>4
    <2> QED
      BY <2>2, <1>1
  <1>6. tail = <<>> => n = 1
    <2> HIDE DEF tail
    <2>1. tail = <<>> => Len(tail) = 0
      OBVIOUS
    <2> QED
      BY <2>1, <1>1, <1>4
  <1>7. tail # <<>> => 1 \in 1..(n - 1)
    <2> HIDE DEF tail
    <2>1. tail # <<>> => Len(tail) # 0
      BY <1>4
    <2> QED
      BY <2>1, <1>1, <1>4
  <1> HIDE DEF tail, n
  <1>8. queue[1] \in Nat \ {0}
    BY <1>3 DEF Ids
  <1>9. tail # <<>> => tail[1] = queue[1] + 1
    <2>1. tail # <<>> => tail[1] = monitor.last - (n - 1) + 1
      BY <1>5, <1>7
    <2> QED
      BY <2>1, <1>1, <1>3
  <1>10. tail # <<>> => tail[1] # CLOSED
    BY <1>8, <1>9 DEF CLOSED
  <1>11. \A i \in 1..Len(tail) : tail[i] = monitor.last - Len(tail) + i
    BY <1>4, <1>5
  <1>12. queue[1] <= monitor.last /\ (tail = <<>> => queue[1] = monitor.last)
    BY <1>1, <1>3, <1>6
  <1> QED
    BY <1>1, <1>3, <1>4, <1>9, <1>10, <1>11, <1>12 DEF tail, n

LEMMA PublishDrainsHub ==
    ASSUME FilesInv, HubInv, PublishDrains
    PROVE  FilesInv' /\ HubInv'
  <1>1. monitor.pc = "drains" /\ UNCHANGED subscribed /\ HubOnly
    BY DEF PublishDrains
  <1>2. /\ FilesInv' /\ committed' = committed /\ reader' = reader /\ committed \in Vers
        /\ UNCHANGED <<handler, client, start, faults>>
    BY <1>1, HubOnlyIs DEF FilesInv, FileTypes
  <1>3. CASE monitor.put /\ queue # <<>>
    <2>1. /\ drained' = drained \cup {Head(queue)} /\ queue' = Tail(queue)
          /\ monitor' = monitor
      BY <1>3 DEF PublishDrains
    <2>2. Open /\ InARow /\ ~subscribed
      BY <1>1, <1>3 DEF HubInv, QueueIs, Open, Closing, Subscription
    <2>3. /\ queue[1] \in Ids /\ Len(queue') = Len(queue) - 1
          /\ queue' \in Seq({CLOSED} \cup Ids) /\ Len(queue) \in Nat \ {0}
          /\ \A i \in 1..Len(queue') : queue'[i] = monitor.last - Len(queue') + i
          /\ queue' = <<>> => queue[1] = monitor.last
          /\ queue' # <<>> => queue'[1] = queue[1] + 1
          /\ queue' # <<>> => queue'[1] # CLOSED
      BY <2>1, <2>2, QueueTail
    <2>4. Head(queue) = queue[1]
      BY <1>3 DEF HubInv, HubTypes
    <2>5. HubTypes'
      <3>1. Len(queue') <= QueueSize
        BY <2>3, HubNumbers DEF HubInv, HubTypes
      <3> QED
        BY <3>1, <1>1, <1>2, <2>1, <2>3, <2>4 DEF HubInv, HubTypes
    <2>6. monitor.last <= committed
          /\ (monitor.pc \in Publishing => monitor.last < monitor.to /\ monitor.to <= committed)
      BY DEF HubInv, Behind
    <2>7. WhoReads' /\ Behind' /\ GoesOn' /\ ClientInv'
      BY <1>1, <1>2, <2>1, <2>6, PublishParts DEF HubInv, HubTypes, Publishing
    <2>8. Subscription'
      BY <1>1, <1>2, <1>3, <2>1 DEF HubInv, Subscription
    <2>9. InARow' /\ ~Closing'
      BY <2>1, <2>3 DEF InARow, Closing
    <2>10. QueueIs'
      BY <2>1, <2>9, <1>1, <1>3 DEF QueueIs
    <2>11. First = queue[1] /\ First' = queue[1] + 1
      <3>1. queue' = <<>> => First' = monitor.last + 1
        BY <1>3, <2>1 DEF First
      <3>2. queue' # <<>> => First' = queue'[1]
        BY DEF First
      <3> QED
        BY <3>1, <3>2, <2>3, <1>3 DEF First
    <2>12. NoGap'
      <3>1. SUFFICES ASSUME handler.pc \in Streaming,
                            NEW id \in (handler.sent + 1)..(First' - 1)
                     PROVE  /\ handler.pc = "reads" => id <= reader.floor \/ Excused(id)'
                            /\ handler.pc = "writes" /\ ~handler.more =>
                                 id <= handler.to \/ Excused(id)'
                            /\ handler.pc = "live" => Excused(id)'
        BY <1>2 DEF NoGap
      <3>2. Excused(id) => Excused(id)'
        BY <1>2, <2>1 DEF Excused
      <3>3. CASE id = queue[1]
        BY <3>3, <2>1, <2>4 DEF Excused
      <3>4. CASE id # queue[1]
        <4>1. handler.sent \in Int /\ queue[1] \in Int
          BY <2>3, HubNumbers DEF HubInv, Vers, Ids
        <4>2. id \in (handler.sent + 1)..(First - 1)
          BY <4>1, <3>4, <2>11
        <4>3. ~Closing
          BY <2>2 DEF Open, Closing
        <4> QED
          BY <4>2, <4>3, <3>1, <3>2 DEF HubInv, NoGap
      <3> QED
        BY <3>3, <3>4
    <2> QED
      BY <1>2, <2>5, <2>7, <2>8, <2>10, <2>12 DEF HubInv
  <1>4. CASE monitor.put /\ queue = <<>>
    <2>1. queue' = <<CLOSED>> /\ Published /\ UNCHANGED drained
      BY <1>4 DEF PublishDrains
    <2>2. /\ monitor' \in Monitors /\ monitor'.last = monitor.last + 1
          /\ monitor'.put = FALSE /\ monitor'.pc \in {"sleeps", "publishes"}
          /\ monitor'.last <= committed'
          /\ monitor'.pc \in Publishing =>
               monitor'.last < monitor'.to /\ monitor'.to <= committed'
      BY <1>1, <1>2, <2>1, PublishedIs
    <2>3. WhoReads' /\ Behind' /\ GoesOn' /\ ClientInv'
      BY <1>1, <1>2, <2>1, <2>2, PublishParts DEF Publishing
    <2>4. queue' \in Seq({CLOSED} \cup Ids) /\ Len(queue') = 1 /\ queue'[1] = CLOSED
          /\ queue' # <<>>
      BY <2>1
    <2>5. HubTypes'
      <3>1. Len(queue') <= QueueSize
        BY <2>4, HubNumbers DEF HubInv
      <3> QED
        BY <3>1, <1>1, <1>2, <2>1, <2>2, <2>4 DEF HubInv, HubTypes
    <2>6. ~subscribed /\ handler.pc \in Streaming
      BY <1>1, <1>4 DEF HubInv, Subscription
    <2>7. Subscription'
      BY <1>1, <1>2, <2>2, <2>4, <2>6 DEF Subscription
    <2>8. Closing' /\ ~Open'
      BY <2>4 DEF Closing, Open
    <2>9. QueueIs'
      BY <1>1, <2>2, <2>4, <2>6, <2>8 DEF QueueIs
    <2>10. NoGap'
      BY <2>8 DEF NoGap
    <2> QED
      BY <1>2, <2>3, <2>5, <2>7, <2>9, <2>10 DEF HubInv
  <1>5. CASE ~monitor.put
    <2>1. Published /\ UNCHANGED <<queue, drained>>
      BY <1>5 DEF PublishDrains
    <2> QED
      BY <1>1, <1>2, <1>5, <2>1, PublishedToNobody
  <1> QED
    BY <1>3, <1>4, <1>5

-----------------------------------------------------------------------------
(* Handler._stream *)

\* The handler is not in the stream and will not be: there is nothing to keep
\* for it.
LEMMA OutsideStream ==
    ASSUME HubInv, UNCHANGED <<queue, subscribed, monitor, start, drained>>,
           committed' = committed, faults' \in Nat,
           handler' \in Handlers, handler.pc \notin Streaming, handler'.pc \notin Streaming
    PROVE  /\ Subscription' /\ QueueIs' /\ NoGap'
           /\ UNCHANGED client => HubTypes' /\ Behind' /\ ClientInv'
  <1>1. Subscription'
    BY DEF HubInv, Subscription
  <1>2. InARow' = InARow /\ Open' = Open /\ Closing' = Closing
    BY DEF InARow, Open, Closing
  <1>3. QueueIs'
    BY <1>2 DEF HubInv, QueueIs
  <1>4. NoGap'
    BY DEF NoGap
  <1>5. UNCHANGED client => HubTypes'
    BY DEF HubInv, HubTypes
  <1>6. UNCHANGED client => Behind'
    BY DEF HubInv, Behind, Streaming
  <1>7. UNCHANGED client => ClientInv'
    BY DEF HubInv, ClientInv, GotSoFar, MissesNothing, CountsUp, HasGot, Excused
  <1> QED
    BY <1>1, <1>3, <1>4, <1>5, <1>6, <1>7

\* Beginning, as a handler of one kind or another.
LEMMA HandlerBegins ==
    ASSUME NEW pc \in {"off", "latest", "subscribe", "asked"} \cup Streaming, NEW sent \in Vers
    PROVE  LET h == [NoStream EXCEPT !.pc = pc, !.sent = sent] IN
           h \in Handlers /\ h.pc = pc /\ h.sent = sent
  <1>1. 0 \in Vers
    BY ReadConstants DEF Vers
  <1>2. NoStream \in Handlers
    BY <1>1 DEF NoStream, Handlers
  <1> QED
    BY <1>2 DEF Handlers

LEMMA HandlerBeginsAfresh ==
    ASSUME NEW pc \in {"off", "latest", "subscribe", "asked"} \cup Streaming
    PROVE  LET h == [NoStream EXCEPT !.pc = pc] IN h \in Handlers /\ h.pc = pc
  <1>1. 0 \in Vers
    BY ReadConstants DEF Vers
  <1>2. NoStream \in Handlers
    BY <1>1 DEF NoStream, Handlers
  <1> QED
    BY <1>2 DEF Handlers

LEMMA NoReadIs ==
    ASSUME FilesInv, NoRead
    PROVE  FilesInv' /\ committed' = committed /\ reader' = reader /\ committed \in Vers
  <1>1. UNCHANGED <<fileVars, stale, raced, readerVars>>
    BY DEF NoRead
  <1>2. committed' = committed /\ reader' = reader
    BY <1>1 DEF fileVars, readerVars
  <1> QED
    BY <1>1, <1>2, NothingRead DEF FilesInv, FileTypes

LEMMA ConnectHub ==
    ASSUME FilesInv, HubInv, Connect
    PROVE  FilesInv' /\ HubInv'
  <1>1. /\ UNCHANGED <<queue, subscribed, monitor, start, drained, client>>
        /\ handler.pc = "off" /\ faults \in Nat
    BY DEF Connect, StreamOnly, hubVars, HubInv, HubTypes
  <1>2. CASE client.last > 0
    <2>1. handler' = [NoStream EXCEPT !.pc = "subscribe", !.sent = client.last] /\ NoRead
          /\ UNCHANGED faults
      BY <1>2 DEF Connect
    <2>2. handler' \in Handlers /\ handler'.pc = "subscribe" /\ handler'.sent = client.last
      <3>1. client.last \in Vers
        BY HubNumbers DEF HubInv
      <3> QED
        BY <2>1, <3>1, HandlerBegins
    <2>3. FilesInv' /\ committed' = committed /\ reader' = reader
      BY <2>1, NoReadIs
    <2>4. /\ HubTypes' /\ Behind' /\ Subscription' /\ QueueIs' /\ NoGap' /\ ClientInv'
      BY <1>1, <2>1, <2>2, <2>3, OutsideStream DEF Streaming
    <2>5. WhoReads'
      BY <1>1, <2>2, <2>3 DEF HubInv, WhoReads
    <2>6. GoesOn'
      BY <1>1, <1>2, <2>2 DEF GoesOn
    <2> QED
      BY <2>3, <2>4, <2>5, <2>6 DEF HubInv
  <1>3. CASE ~(client.last > 0)
    <2>1. handler' = [NoStream EXCEPT !.pc = "latest"] /\ Reads("handler")
          /\ UNCHANGED faults
      BY <1>3 DEF Connect, Reads
    <2>2. handler' \in Handlers /\ handler'.pc = "latest"
      BY <2>1, HandlerBeginsAfresh
    <2>3. FilesInv' /\ committed' = committed /\ reader'.who = "handler"
          /\ reader.who = "none"
      BY <2>1, ReadsFiles
    <2>4. /\ HubTypes' /\ Behind' /\ Subscription' /\ QueueIs' /\ NoGap' /\ ClientInv'
      BY <1>1, <2>1, <2>2, <2>3, OutsideStream DEF Streaming
    <2>5. WhoReads'
      BY <1>1, <2>2, <2>3 DEF HubInv, WhoReads
    <2>6. GoesOn'
      BY <1>1, <1>3, <2>2, HubNumbers DEF HubInv, GoesOn, Vers, Streaming
    <2> QED
      BY <2>3, <2>4, <2>5, <2>6 DEF HubInv
  <1> QED
    BY <1>2, <1>3

LEMMA StreamFindsLatestHub ==
    ASSUME FilesInv, HubInv, StreamFindsLatest
    PROVE  FilesInv' /\ HubInv'
  <1>1. /\ UNCHANGED <<queue, subscribed, monitor, start, drained, faults>>
        /\ handler.pc = "latest" /\ reader.who = "handler" /\ reader.pc = "ready" /\ Unlock
        /\ handler' = [handler EXCEPT !.pc = "subscribe", !.sent = Newest]
        /\ client' = [client EXCEPT !.from = Newest]
        /\ handler \in Handlers /\ client \in Clients /\ faults \in Nat
    BY DEF StreamFindsLatest, StreamOnly, hubVars, HubInv, HubTypes, Has, Unlock
  <1>2. FilesInv' /\ committed' = committed /\ reader'.who = "none"
    BY <1>1, UnlockFiles DEF Unlock
  <1>3. Newest \in Vers
    BY <1>1, NewestIsCurrent
  <1>4. handler' \in Handlers /\ handler'.pc = "subscribe" /\ handler'.sent = Newest
    BY <1>1, <1>3 DEF Handlers
  <1>5. /\ client' \in Clients /\ client'.from = Newest /\ client'.last = client.last
        /\ client'.got = client.got
    BY <1>1, <1>3 DEF Clients
  <1>6. Subscription' /\ QueueIs' /\ NoGap'
    BY <1>1, <1>2, <1>4, OutsideStream DEF Streaming
  <1>7. HubTypes'
    BY <1>1, <1>4, <1>5 DEF HubInv, HubTypes
  <1>8. Behind'
    BY <1>1, <1>2, <1>4, <1>5 DEF HubInv, Behind
  <1>9. WhoReads'
    BY <1>1, <1>2, <1>4 DEF HubInv, WhoReads
  <1>10. client.last = 0
    BY <1>1 DEF HubInv, GoesOn
  <1>11. GoesOn'
    BY <1>4, <1>5, <1>10 DEF GoesOn
  <1>12. ClientInv'
    <2>1. (client'.from + 1)..client'.last = {}
      BY <1>3, <1>5, <1>10 DEF Vers
    <2> QED
      BY <2>1, <1>5 DEF HubInv, ClientInv, GotSoFar, MissesNothing, CountsUp
  <1> QED
    BY <1>2, <1>6, <1>7, <1>8, <1>9, <1>11, <1>12 DEF HubInv

LEMMA SubscribeHub ==
    ASSUME FilesInv, HubInv, Subscribe
    PROVE  FilesInv' /\ HubInv'
  <1>1. /\ UNCHANGED <<client, faults, monitor, start, drained>> /\ NoRead
        /\ handler.pc = "subscribe" /\ handler' = [handler EXCEPT !.pc = "backlog"]
        /\ subscribed' = TRUE /\ queue' = <<>> /\ handler \in Handlers
    BY DEF Subscribe, StreamOnly, HubInv, HubTypes
  <1>2. FilesInv' /\ committed' = committed /\ reader' = reader
    BY <1>1, NoReadIs
  <1>3. handler' \in Handlers /\ handler'.pc = "backlog" /\ handler'.sent = handler.sent
    BY <1>1 DEF Handlers, Streaming
  <1>4. monitor.put = FALSE
    BY <1>1, HubNumbers DEF HubInv, Subscription, Streaming
  <1>5. HubTypes'
    <2>1. queue' \in Seq({CLOSED} \cup Ids) /\ Len(queue') <= QueueSize
      BY <1>1, ReadConstants
    <2> QED
      BY <1>1, <1>3, <2>1 DEF HubInv, HubTypes
  <1>6. WhoReads' /\ Behind'
    BY <1>1, <1>2, <1>3 DEF HubInv, WhoReads, Behind
  <1>7. Subscription' /\ QueueIs'
    BY <1>1, <1>3, <1>4 DEF Subscription, QueueIs, Open, Closing, Streaming
  <1>8. NoGap' /\ GoesOn'
    BY <1>1, <1>3 DEF HubInv, NoGap, GoesOn, Streaming
  <1>9. ClientInv'
    BY <1>1 DEF HubInv, ClientInv, GotSoFar, MissesNothing, CountsUp, HasGot, Excused
  <1> QED
    BY <1>2, <1>5, <1>6, <1>7, <1>8, <1>9 DEF HubInv

LEMMA BacklogReadsHub ==
    ASSUME FilesInv, HubInv, BacklogReads
    PROVE  FilesInv' /\ HubInv'
  <1>1. /\ UNCHANGED <<client, queue, subscribed, faults, monitor, start, drained>>
        /\ handler.pc = "backlog" /\ handler' = [handler EXCEPT !.pc = "reads"]
        /\ handler \in Handlers /\ Reads("handler")
    BY DEF BacklogReads, Reads, StreamOnly, hubVars, HubInv, HubTypes
  <1>2. FilesInv' /\ committed' = committed /\ reader'.who = "handler"
        /\ reader'.floor = committed /\ reader.who = "none" /\ committed \in Vers
    BY <1>1, ReadsFiles DEF FilesInv, FileTypes
  <1>3. handler' \in Handlers /\ handler'.pc = "reads" /\ handler'.sent = handler.sent
    BY <1>1 DEF Handlers, Streaming
  <1>4. HubTypes'
    BY <1>1, <1>3 DEF HubInv, HubTypes
  <1>5. WhoReads' /\ Behind'
    BY <1>1, <1>2, <1>3 DEF HubInv, WhoReads, Behind
  <1>6. Subscription' /\ GoesOn'
    BY <1>1, <1>3 DEF HubInv, Subscription, GoesOn, Streaming
  <1>7. InARow' = InARow /\ Open' = Open /\ Closing' = Closing /\ First' = First
    BY <1>1 DEF InARow, Open, Closing, First
  <1>8. QueueIs'
    BY <1>1, <1>7 DEF HubInv, QueueIs
  <1>9. ~Closing => First - 1 <= committed /\ First \in Int
    <2>1. monitor.last \in Vers /\ monitor.to \in Vers /\ monitor.last <= committed
          /\ (monitor.pc \in Publishing => monitor.last < monitor.to /\ monitor.to <= committed)
      BY HubNumbers DEF HubInv, Behind
    <2>2. CASE queue # <<>> /\ ~Closing
      <3>1. queue[1] \in Ids /\ queue[1] <= monitor.last
        BY <2>2, QueueTail DEF Open, Closing
      <3> QED
        BY <2>1, <2>2, <3>1, <1>2 DEF First, Ids, Vers
    <2>3. CASE queue = <<>> /\ monitor.pc \in {"puts", "drains"}
      <3>1. First = monitor.last + 1 \/ First = monitor.last + 2
        BY <2>3 DEF First
      <3> QED
        BY <2>1, <2>3, <3>1, <1>2 DEF Publishing, Vers
    <2>4. CASE queue = <<>> /\ monitor.pc \notin {"puts", "drains"}
      <3>1. First = monitor.last + 1
        BY <2>4 DEF First
      <3> QED
        BY <2>1, <3>1, <1>2 DEF Vers
    <2> QED
      BY <2>2, <2>3, <2>4 DEF Closing
  <1>10. NoGap'
    <2>1. SUFFICES ASSUME ~Closing, NEW id \in (handler.sent + 1)..(First - 1)
                   PROVE  id <= committed
      BY <1>1, <1>2, <1>3, <1>7 DEF NoGap
    <2>2. handler.sent \in Vers
      BY HubNumbers DEF HubInv
    <2> QED
      BY <1>2, <1>9, <2>1, <2>2 DEF Vers
  <1>11. ClientInv'
    BY <1>1 DEF HubInv, ClientInv, GotSoFar, MissesNothing, CountsUp, HasGot, Excused
  <1> QED
    BY <1>2, <1>4, <1>5, <1>6, <1>8, <1>10, <1>11 DEF HubInv

LEMMA LiveIs ==
    ASSUME NEW id \in Vers
    PROVE  /\ Live(id) \in Handlers /\ Live(id).pc = "live" /\ Live(id).sent = id
           /\ [Live(id) EXCEPT !.pc = "live"] = Live(id)
           /\ [Live(id) EXCEPT !.pc = "backlog"] \in Handlers
           /\ [Live(id) EXCEPT !.pc = "backlog"].pc = "backlog"
           /\ [Live(id) EXCEPT !.pc = "backlog"].sent = id
  <1>1. 0 \in Vers
    BY ReadConstants DEF Vers
  <1>2. NoStream \in Handlers
    BY <1>1 DEF NoStream, Handlers
  <1>3. Live(id) \in Handlers /\ Live(id).pc = "live" /\ Live(id).sent = id
    BY <1>2 DEF Live, Handlers, Streaming
  <1> QED
    BY <1>3 DEF Handlers, Streaming

LEMMA BacklogHasRowsHub ==
    ASSUME FilesInv, HubInv, BacklogHasRows
    PROVE  FilesInv' /\ HubInv'
  <1> DEFINE sent == handler.sent
             to == LastAfter(sent)
             more == (to - sent = PageLimit)
  <1>1. /\ UNCHANGED <<client, queue, subscribed, faults, monitor, start, drained>>
        /\ handler.pc = "reads" /\ reader.who = "handler" /\ reader.pc = "ready" /\ Unlock
        /\ handler \in Handlers
        /\ handler' = IF to = sent THEN Live(to)
                      ELSE [handler EXCEPT !.pc = "writes", !.to = to, !.more = more]
    BY DEF BacklogHasRows, StreamOnly, hubVars, HubInv, HubTypes, Has, Unlock
  <1>2. FilesInv' /\ committed' = committed /\ reader'.who = "none"
    BY <1>1, UnlockFiles DEF Unlock
  <1>3. Newest \in Vers /\ reader.floor <= Newest /\ Newest <= committed /\ committed \in Vers
        /\ reader.floor \in Vers
    BY <1>1, NewestIsCurrent DEF FilesInv, FileTypes, Readers
  <1>4. sent \in Vers /\ to \in Vers /\ sent <= to /\ (to <= Newest \/ to = sent)
        /\ (to = sent => Newest <= sent) /\ (to < Newest => more)
    BY <1>3, RowsAfter, HubNumbers DEF HubInv
  <1>5. more \in BOOLEAN
    OBVIOUS
  <1> HIDE DEF to, sent, more
  <1>6. /\ handler' \in Handlers /\ handler'.sent = sent
        /\ \/ to = sent /\ handler'.pc = "live"
           \/ to # sent /\ handler'.pc = "writes" /\ handler'.to = to /\ handler'.more = more
    <2>1. CASE to = sent
      BY <2>1, <1>1, <1>4, LiveIs
    <2>2. CASE to # sent
      <3>1. handler' = [handler EXCEPT !.pc = "writes", !.to = to, !.more = more]
        BY <2>2, <1>1
      <3>2. /\ handler' \in Handlers /\ handler'.pc = "writes" /\ handler'.to = to
            /\ handler'.more = more /\ handler'.sent = handler.sent
        BY <3>1, <1>1, <1>4, <1>5 DEF Handlers, Streaming
      <3> QED
        BY <2>2, <3>2 DEF sent
    <2> QED
      BY <2>1, <2>2
  <1>7. sent = handler.sent
    BY DEF sent
  <1>8. HubTypes'
    BY <1>1, <1>6 DEF HubInv, HubTypes
  <1>9. WhoReads'
    BY <1>1, <1>2, <1>6 DEF HubInv, WhoReads
  <1>10. Behind'
    <2>1. to # sent => sent < to /\ to <= committed
      BY <1>3, <1>4 DEF Vers
    <2> QED
      BY <2>1, <1>1, <1>2, <1>6 DEF HubInv, Behind
  <1>11. Subscription' /\ GoesOn'
    BY <1>1, <1>6, <1>7 DEF HubInv, Subscription, GoesOn, Streaming
  <1>12. InARow' = InARow /\ Open' = Open /\ Closing' = Closing /\ First' = First
    BY <1>1 DEF InARow, Open, Closing, First
  <1>13. QueueIs'
    BY <1>1, <1>12 DEF HubInv, QueueIs
  <1>14. NoGap'
    <2>1. SUFFICES ASSUME ~Closing, NEW id \in (sent + 1)..(First - 1)
                   PROVE  /\ handler'.pc = "writes" /\ ~handler'.more =>
                               id <= handler'.to \/ Excused(id)
                          /\ handler'.pc = "live" => Excused(id)
      BY <1>1, <1>6, <1>12 DEF NoGap, Excused
    <2>2. id <= reader.floor \/ Excused(id)
      BY <2>1, <1>1, <1>7 DEF HubInv, NoGap, Streaming
    <2>3. CASE to = sent
      <3>1. ~(id <= reader.floor)
        BY <2>1, <2>3, <1>3, <1>4 DEF Vers
      <3> QED
        BY <2>2, <2>3, <3>1, <1>6
    <2>4. CASE to # sent
      <3>1. ~more => (id <= reader.floor => id <= to)
        BY <2>1, <1>3, <1>4 DEF Vers
      <3> QED
        BY <2>2, <2>4, <3>1, <1>6
    <2> QED
      BY <2>3, <2>4
  <1>15. ClientInv'
    BY <1>1 DEF HubInv, ClientInv, GotSoFar, MissesNothing, CountsUp, HasGot, Excused
  <1> QED
    BY <1>2, <1>8, <1>9, <1>10, <1>11, <1>13, <1>14, <1>15 DEF HubInv

LEMMA ClientGets ==
    ASSUME client \in Clients, NEW last \in Vers, NEW got \in Seq(Ids),
           client' = [client EXCEPT !.last = last, !.got = got]
    PROVE  /\ client' \in Clients /\ client'.last = last /\ client'.from = client.from
           /\ client'.got = got
  BY DEF Clients

\* The client gets a message, newer than those it has.
LEMMA Written ==
    ASSUME HubInv, NEW id \in Ids, Write(id), id > client.last, UNCHANGED <<start, drained>>,
           \A m \in (client.from + 1)..(id - 1) :
               m \in (client.from + 1)..client.last \/ Excused(m)
    PROVE  /\ client' \in Clients /\ client'.last = id /\ client'.from = client.from
           /\ ClientInv'
  <1> DEFINE n == Len(client.got)
  <1>1. /\ client \in Clients /\ client.got \in Seq(Ids) /\ n \in Nat
        /\ client.last \in Nat /\ client.from \in Nat /\ id \in Vers /\ id \in Nat
        /\ client' = [client EXCEPT !.last = id, !.got = Append(client.got, id)]
    BY HubNumbers DEF HubInv, HubTypes, Write, Vers, Ids
  <1> DEFINE got == Append(client.got, id)
  <1>2. /\ got \in Seq(Ids) /\ Len(got) = n + 1 /\ got[n + 1] = id
        /\ \A i \in 1..n : got[i] = client.got[i]
    BY <1>1
  <1> HIDE DEF got
  <1>3. /\ client' \in Clients /\ client'.last = id /\ client'.from = client.from
        /\ client'.got = got
    <2>1. client' = [client EXCEPT !.last = id, !.got = got]
      BY <1>1 DEF got
    <2>2. client \in Clients /\ id \in Vers /\ got \in Seq(Ids)
      BY <1>1, <1>2
    <2> QED
      BY <2>1, <2>2, ClientGets
  <1>4. \A i \in 1..n : client.got[i] <= client.last /\ client.got[i] \in Nat
    <2>1. \A i \in 1..n : client.got[i] <= client.last
      BY DEF HubInv, ClientInv, GotSoFar
    <2>2. \A i \in 1..n : client.got[i] \in Ids
      BY <1>1
    <2> QED
      BY <2>1, <2>2 DEF Ids
  <1>5. \A i \in 1..(n + 1) : i \in 1..n \/ i = n + 1
    BY <1>1
  <1>6. \A i \in 1..n : got[i] < id
    BY <1>1, <1>2, <1>4
  <1>7. GotSoFar'
    <2>1. \A i \in 1..(n + 1) : got[i] <= id
      BY <1>1, <1>2, <1>5, <1>6, <1>4
    <2> QED
      BY <2>1, <1>2, <1>3 DEF GotSoFar
  <1>8. MissesNothing'
    <2>1. SUFFICES ASSUME NEW m \in (client.from + 1)..id
                   PROVE  (\E i \in 1..(n + 1) : got[i] = m) \/ Excused(m)
      BY <1>2, <1>3 DEF MissesNothing, HasGot, Excused
    <2>2. CASE m = id
      <3>1. n + 1 \in 1..(n + 1)
        BY <1>1
      <3> QED
        BY <2>2, <3>1, <1>2
    <2>3. CASE m # id
      <3>1. m \in (client.from + 1)..(id - 1)
        BY <2>3, <1>1
      <3>2. Excused(m) \/ HasGot(m)
        BY <3>1 DEF HubInv, ClientInv, MissesNothing
      <3>3. HasGot(m) => \E i \in 1..(n + 1) : got[i] = m
        <4>1. \A i \in 1..n : i \in 1..(n + 1)
          BY <1>1
        <4> QED
          BY <4>1, <1>2 DEF HasGot
      <3> QED
        BY <3>2, <3>3
    <2> QED
      BY <2>2, <2>3
  <1>9. CountsUp'
    <2>1. SUFFICES ASSUME NEW i \in 1..(n + 1), NEW j \in 1..(n + 1), i < j
                   PROVE  got[i] < got[j]
      BY <1>2, <1>3 DEF CountsUp
    <2>2. i \in 1..n
      BY <2>1, <1>1
    <2>3. CASE j \in 1..n
      BY <2>1, <2>2, <2>3, <1>2 DEF HubInv, ClientInv, CountsUp
    <2>4. CASE j = n + 1
      BY <2>2, <2>4, <1>2, <1>6
    <2> QED
      BY <2>3, <2>4, <1>5
  <1> QED
    BY <1>3, <1>7, <1>8, <1>9 DEF ClientInv

LEMMA BacklogWritesHub ==
    ASSUME FilesInv, HubInv, BacklogWrites
    PROVE  FilesInv' /\ HubInv'
  <1> DEFINE id == handler.sent + 1
             next == IF handler.more THEN "backlog" ELSE "live"
  <1>1. /\ UNCHANGED <<queue, subscribed, faults, monitor, start, drained>>
        /\ handler.pc = "writes" /\ Write(id) /\ NoRead /\ handler \in Handlers
        /\ handler' = IF id < handler.to THEN [handler EXCEPT !.sent = id]
                      ELSE [Live(id) EXCEPT !.pc = next]
    BY DEF BacklogWrites, StreamOnly, hubVars, HubInv, HubTypes
  <1>2. FilesInv' /\ committed' = committed /\ reader' = reader /\ committed \in Vers
    BY <1>1, NoReadIs
  <1>3. /\ handler.sent \in Vers /\ handler.to \in Vers /\ client.last \in Vers
        /\ client.from \in Vers /\ handler.more \in BOOLEAN /\ MaxMessages \in Nat
        /\ handler.sent < handler.to /\ handler.to <= committed /\ client.last <= committed
        /\ handler.sent = IF client.last > 0 THEN client.last ELSE client.from
    BY <1>1, HubNumbers DEF HubInv, Behind, GoesOn, Streaming
  <1>4. id \in Ids /\ id \in Vers /\ id <= handler.to /\ id > client.last /\ id > 0
        /\ id <= committed /\ (id < handler.to \/ id = handler.to)
    BY <1>2, <1>3 DEF Ids, Vers
  <1>5. \A m \in (client.from + 1)..(id - 1) : m \in (client.from + 1)..client.last
    BY <1>3 DEF Vers
  <1>6. /\ client' \in Clients /\ client'.last = id /\ client'.from = client.from
        /\ ClientInv'
    BY <1>1, <1>4, <1>5, Written
  <1>7. id = handler.sent + 1
    OBVIOUS
  <1> HIDE DEF id, next
  <1>8. /\ handler' \in Handlers /\ handler'.sent = id
        /\ \/ /\ id < handler.to /\ handler'.pc = "writes" /\ handler'.to = handler.to
              /\ handler'.more = handler.more
           \/ id = handler.to /\ handler'.pc = next
    <2>1. CASE id < handler.to
      <3>1. handler' = [handler EXCEPT !.sent = id]
        BY <2>1, <1>1
      <3> QED
        BY <3>1, <2>1, <1>1, <1>4 DEF Handlers
    <2>2. CASE ~(id < handler.to)
      <3>1. handler' = [Live(id) EXCEPT !.pc = next]
        BY <2>2, <1>1
      <3>2. next = "live" \/ next = "backlog"
        BY DEF next
      <3>3. handler' \in Handlers /\ handler'.sent = id /\ handler'.pc = next
        <4>1. CASE next = "live"
          <5>1. handler' = Live(id)
            BY <3>1, <4>1, <1>4, LiveIs
          <5> QED
            BY <4>1, <5>1, <1>4, LiveIs
        <4>2. CASE next = "backlog"
          <5>1. handler' = [Live(id) EXCEPT !.pc = "backlog"]
            BY <3>1, <4>2
          <5> QED
            BY <4>2, <5>1, <1>4, LiveIs
        <4> QED
          BY <4>1, <4>2, <3>2
      <3> QED
        BY <3>3, <2>2, <1>4
    <2> QED
      BY <2>1, <2>2
  <1>9. next \in {"live", "backlog"} /\ (next = "live" => ~handler.more)
    BY DEF next
  <1>10. handler'.pc \in Streaming /\ handler'.pc # "reads"
    BY <1>8, <1>9 DEF Streaming
  <1>11. HubTypes'
    BY <1>1, <1>6, <1>8 DEF HubInv, HubTypes
  <1>12. WhoReads'
    BY <1>1, <1>2, <1>8, <1>9 DEF HubInv, WhoReads
  <1>13. Behind'
    <2>1. handler'.pc = "writes" => handler'.sent < handler'.to /\ handler'.to <= committed
      BY <1>3, <1>8, <1>9
    <2> QED
      BY <2>1, <1>1, <1>2, <1>4, <1>6 DEF HubInv, Behind
  <1>14. Subscription'
    BY <1>1, <1>10 DEF HubInv, Subscription, Streaming
  <1>15. GoesOn'
    BY <1>4, <1>6, <1>8, <1>9 DEF GoesOn
  <1>16. InARow' = InARow /\ Open' = Open /\ Closing' = Closing /\ First' = First
    BY <1>1 DEF InARow, Open, Closing, First
  <1>17. QueueIs'
    BY <1>1, <1>16 DEF HubInv, QueueIs
  <1>18. NoGap'
    <2>1. SUFFICES ASSUME ~Closing, NEW m \in (id + 1)..(First - 1)
                   PROVE  /\ handler'.pc = "writes" /\ ~handler'.more =>
                               m <= handler'.to \/ Excused(m)
                          /\ handler'.pc = "live" => Excused(m)
      BY <1>1, <1>8, <1>10, <1>16 DEF NoGap, Excused
    <2>2. m \in (handler.sent + 1)..(First - 1)
      BY <2>1, <1>3, <1>7 DEF Vers
    <2>3. ~handler.more => m <= handler.to \/ Excused(m)
      BY <2>1, <2>2, <1>1 DEF HubInv, NoGap, Streaming
    <2>4. id = handler.to => ~(m <= handler.to)
      BY <2>1, <1>3, <1>4 DEF Vers
    <2> QED
      BY <2>3, <2>4, <1>8, <1>9
  <1> QED
    BY <1>2, <1>6, <1>11, <1>12, <1>13, <1>14, <1>15, <1>17, <1>18 DEF HubInv

LEMMA StreamWritesHub ==
    ASSUME FilesInv, HubInv, StreamWrites
    PROVE  FilesInv' /\ HubInv'
  <1> DEFINE id == queue[1]
  <1>1. /\ UNCHANGED <<subscribed, faults, monitor, start, drained>>
        /\ handler.pc = "live" /\ queue # <<>> /\ NoRead /\ handler \in Handlers
        /\ queue' = Tail(queue) /\ Head(queue) = id
    BY DEF StreamWrites, StreamOnly, HubInv, HubTypes
  <1>2. FilesInv' /\ committed' = committed /\ reader' = reader /\ committed \in Vers
    BY <1>1, NoReadIs
  <1>3. Open
    BY <1>1 DEF StreamWrites, Open
  <1>4. /\ id \in Ids /\ id <= monitor.last /\ queue' \in Seq({CLOSED} \cup Ids)
        /\ Len(queue') = Len(queue) - 1 /\ Len(queue) \in Nat \ {0}
        /\ \A i \in 1..Len(queue') : queue'[i] = monitor.last - Len(queue') + i
        /\ queue' = <<>> => id = monitor.last
        /\ queue' # <<>> => queue'[1] = id + 1
        /\ queue' # <<>> => queue'[1] # CLOSED
    BY <1>1, <1>3, QueueTail
  <1>5. /\ IF id > handler.sent
             THEN Write(id) /\ handler' = [handler EXCEPT !.sent = id]
             ELSE UNCHANGED <<client, handler>>
    BY <1>1 DEF StreamWrites, IsNew
  <1>6. /\ handler.sent \in Vers /\ client.last \in Vers /\ client.from \in Vers
        /\ handler.sent = IF client.last > 0 THEN client.last ELSE client.from
        /\ monitor.last \in Vers /\ monitor.last <= committed /\ MaxMessages \in Nat
    BY <1>1, HubNumbers DEF HubInv, Behind, GoesOn, Streaming
  <1>7. First = id /\ ~Closing
    BY <1>1, <1>3 DEF First, Open, Closing
  <1> HIDE DEF id
  <1>8. InARow' /\ ~Closing'
    BY <1>1, <1>4 DEF InARow, Closing
  <1>9. monitor.pc \in {"puts", "drains"} => monitor.put
    BY <1>3 DEF HubInv, QueueIs
  <1>10. subscribed \/ monitor.put
    BY <1>3 DEF HubInv, QueueIs
  <1>11. QueueIs'
    BY <1>1, <1>8, <1>9, <1>10 DEF QueueIs
  <1>12. First' = id + 1
    <2>1. queue' = <<>> => First' = monitor.last + 1
      BY <1>1, <1>9 DEF First
    <2>2. queue' # <<>> => First' = queue'[1]
      BY DEF First
    <2> QED
      BY <2>1, <2>2, <1>4
  <1>13. \A m \in (handler.sent + 1)..(id - 1) : Excused(m)
    BY <1>1, <1>7 DEF HubInv, NoGap, Streaming
  <1>14. Len(queue') <= QueueSize
    BY <1>4, HubNumbers DEF HubInv, HubTypes
  <1>15. CASE id > handler.sent
    <2>1. Write(id) /\ handler' = [handler EXCEPT !.sent = id]
      BY <1>5, <1>15
    <2>2. id \in Vers /\ id > client.last /\ id > 0 /\ id <= committed
      BY <1>4, <1>6, <1>2, <1>15 DEF Vers, Ids
    <2>3. /\ handler' \in Handlers /\ handler'.sent = id /\ handler'.pc = "live"
      BY <1>1, <2>1, <2>2 DEF Handlers
    <2>4. ASSUME NEW m \in (client.from + 1)..(id - 1)
          PROVE  m \in (client.from + 1)..client.last \/ Excused(m)
      <3>1. m \in (client.from + 1)..client.last \/ m \in (handler.sent + 1)..(id - 1)
        BY <1>6, <2>2 DEF Vers
      <3> QED
        BY <3>1, <1>13
    <2>5. /\ client' \in Clients /\ client'.last = id /\ client'.from = client.from
          /\ ClientInv'
      BY <1>1, <1>4, <2>1, <2>2, <2>4, Written
    <2>6. HubTypes'
      BY <1>1, <1>4, <1>14, <2>3, <2>5 DEF HubInv, HubTypes
    <2>7. WhoReads' /\ Behind'
      BY <1>1, <1>2, <2>2, <2>3, <2>5 DEF HubInv, WhoReads, Behind
    <2>8. Subscription' /\ GoesOn'
      BY <1>1, <1>10, <2>2, <2>3, <2>5 DEF HubInv, Subscription, GoesOn, Streaming
    <2>9. NoGap'
      <3>1. (id + 1)..(First' - 1) = {}
        BY <1>12, <2>2 DEF Vers
      <3> QED
        BY <3>1, <2>3 DEF NoGap
    <2> QED
      BY <1>2, <1>11, <2>5, <2>6, <2>7, <2>8, <2>9 DEF HubInv
  <1>16. CASE ~(id > handler.sent)
    <2>1. UNCHANGED <<client, handler>>
      BY <1>5, <1>16
    <2>2. HubTypes'
      BY <1>1, <1>4, <1>14, <2>1 DEF HubInv, HubTypes
    <2>3. WhoReads' /\ Behind' /\ GoesOn'
      BY <1>1, <1>2, <2>1 DEF HubInv, WhoReads, Behind, GoesOn
    <2>4. Subscription'
      BY <1>1, <1>10, <2>1 DEF Subscription, HubInv, Streaming
    <2>5. NoGap'
      <3>1. (handler.sent + 1)..(First' - 1) = {}
        BY <1>4, <1>6, <1>12, <1>16 DEF Vers, Ids
      <3> QED
        BY <3>1, <2>1 DEF NoGap
    <2>6. ClientInv'
      BY <1>1, <2>1
         DEF HubInv, ClientInv, GotSoFar, MissesNothing, CountsUp, HasGot, Excused
    <2> QED
      BY <1>2, <1>11, <2>2, <2>3, <2>4, <2>5, <2>6 DEF HubInv
  <1> QED
    BY <1>15, <1>16

LEMMA NoStreamIs == NoStream \in Handlers /\ NoStream.pc = "off"
  <1>1. 0 \in Vers
    BY ReadConstants DEF Vers
  <1> QED
    BY <1>1 DEF NoStream, Handlers

LEMMA GoneHub ==
    ASSUME HubInv, Gone, UNCHANGED client, committed' = committed, faults' \in Nat, WhoReads'
    PROVE  HubInv'
  <1>1. /\ handler' = NoStream /\ subscribed' = FALSE /\ queue' = <<>>
        /\ monitor' = [monitor EXCEPT !.put = FALSE] /\ UNCHANGED <<start, drained>>
        /\ monitor \in Monitors
    BY DEF Gone, HubInv, HubTypes
  <1>2. handler' \in Handlers /\ handler'.pc = "off"
    BY <1>1, NoStreamIs
  <1>3. /\ monitor' \in Monitors /\ monitor'.pc = monitor.pc /\ monitor'.put = FALSE
        /\ monitor'.last = monitor.last /\ monitor'.to = monitor.to
    BY <1>1 DEF Monitors
  <1>4. HubTypes'
    <2>1. queue' \in Seq({CLOSED} \cup Ids) /\ Len(queue') <= QueueSize
      BY <1>1, ReadConstants
    <2> QED
      BY <1>1, <1>2, <1>3, <2>1 DEF HubInv, HubTypes
  <1>5. Behind' /\ GoesOn'
    BY <1>1, <1>2, <1>3 DEF HubInv, Behind, GoesOn, Streaming
  <1>6. Subscription' /\ QueueIs' /\ NoGap'
    BY <1>1, <1>2, <1>3 DEF Subscription, QueueIs, Open, Closing, NoGap, Streaming
  <1>7. ClientInv'
    BY <1>1 DEF HubInv, ClientInv, GotSoFar, MissesNothing, CountsUp, HasGot, Excused
  <1> QED
    BY <1>4, <1>5, <1>6, <1>7 DEF HubInv

LEMMA StreamClosesHub ==
    ASSUME FilesInv, HubInv, StreamCloses
    PROVE  FilesInv' /\ HubInv'
  <1>1. handler.pc = "live" /\ Gone /\ NoRead /\ UNCHANGED <<client, faults>>
    BY DEF StreamCloses
  <1>2. FilesInv' /\ committed' = committed /\ reader' = reader
    BY <1>1, NoReadIs
  <1>3. handler'.pc = "off" /\ monitor'.pc = monitor.pc /\ faults \in Nat
    BY <1>1, NoStreamIs DEF Gone, HubInv, HubTypes, Monitors
  <1>4. WhoReads'
    BY <1>1, <1>2, <1>3 DEF HubInv, WhoReads
  <1> QED
    BY <1>1, <1>2, <1>3, <1>4, GoneHub

LEMMA StreamBreaksHub ==
    ASSUME FilesInv, HubInv, StreamBreaks
    PROVE  FilesInv' /\ HubInv'
  <1>1. Gone /\ UNCHANGED client
    BY DEF StreamBreaks
  <1>2. handler'.pc = "off" /\ monitor'.pc = monitor.pc /\ faults \in Nat
    BY <1>1, NoStreamIs DEF Gone, HubInv, HubTypes, Monitors
  <1>3. CASE handler.pc \in {"subscribe", "backlog", "writes", "live"} /\ NoRead /\ Fault
    <2>1. FilesInv' /\ committed' = committed /\ reader' = reader
      BY <1>3, NoReadIs
    <2>2. faults' \in Nat
      BY <1>2, <1>3 DEF Fault
    <2>3. WhoReads'
      BY <1>2, <1>3, <2>1 DEF HubInv, WhoReads
    <2> QED
      BY <1>1, <2>1, <2>2, <2>3, GoneHub
  <1>4. CASE handler.pc \in {"latest", "reads"} /\ HasNot("handler") /\ Unlock
    <2>1. FilesInv' /\ committed' = committed /\ reader'.who = "none"
      BY <1>4, UnlockFiles DEF Unlock
    <2>2. faults' \in Nat
      BY <1>2, <1>4 DEF Unlock
    <2>3. reader.who = "handler"
      BY <1>4 DEF HasNot
    <2>4. WhoReads'
      BY <1>2, <2>1, <2>3 DEF HubInv, WhoReads
    <2> QED
      BY <1>1, <2>1, <2>2, <2>4, GoneHub
  <1> QED
    BY <1>3, <1>4 DEF StreamBreaks

LEMMA RestartHub ==
    ASSUME FilesInv, HubInv, Restart
    PROVE  FilesInv' /\ HubInv'
  <1>1. /\ Fault /\ reader' = NoOne /\ stale' = TRUE /\ raced' = FALSE
        /\ monitor' = NewMonitor /\ handler' = NoStream /\ subscribed' = FALSE
        /\ queue' = <<>> /\ UNCHANGED <<fileVars, snapshot, client, start, drained>>
    BY DEF Restart
  <1>2. FilesInv' /\ committed' = committed /\ reader'.who = "none"
    BY <1>1, UnlockFiles
  <1>3. handler' \in Handlers /\ handler'.pc = "off"
    BY <1>1, NoStreamIs
  <1>4. /\ monitor' \in Monitors /\ monitor'.pc = "sleeps" /\ monitor'.put = FALSE
        /\ monitor'.last = 0
    <2>1. 0 \in Vers
      BY ReadConstants DEF Vers
    <2> QED
      BY <1>1, <2>1 DEF NewMonitor, Monitors
  <1>5. HubTypes'
    <2>1. queue' \in Seq({CLOSED} \cup Ids) /\ Len(queue') <= QueueSize
      BY <1>1, ReadConstants
    <2>2. faults' \in Nat
      BY <1>1 DEF Fault, HubInv, HubTypes
    <2> QED
      BY <1>1, <1>3, <1>4, <2>1, <2>2 DEF HubInv, HubTypes
  <1>6. 0 <= committed
    BY ReadConstants DEF FilesInv, FileTypes, Vers
  <1>7. Behind' /\ GoesOn' /\ WhoReads'
    BY <1>1, <1>2, <1>3, <1>4, <1>6
       DEF HubInv, Behind, GoesOn, WhoReads, Streaming, Publishing
  <1>8. Subscription' /\ QueueIs' /\ NoGap'
    BY <1>1, <1>3, <1>4 DEF Subscription, QueueIs, Open, Closing, NoGap, Streaming
  <1>9. ClientInv'
    BY <1>1 DEF HubInv, ClientInv, GotSoFar, MissesNothing, CountsUp, HasGot, Excused
  <1> QED
    BY <1>2, <1>5, <1>7, <1>8, <1>9 DEF HubInv

-----------------------------------------------------------------------------
(* The client that asks *)

LEMMA PollReadsHub ==
    ASSUME FilesInv, HubInv, PollReads
    PROVE  FilesInv' /\ HubInv'
  <1>1. /\ UNCHANGED <<queue, subscribed, monitor, start, drained, client, faults>>
        /\ handler.pc = "off" /\ faults \in Nat /\ Reads("handler")
        /\ handler' = [NoStream EXCEPT !.pc = "asked"]
    BY DEF PollReads, Reads, StreamOnly, hubVars, HubInv, HubTypes
  <1>2. handler' \in Handlers /\ handler'.pc = "asked"
    BY <1>1, HandlerBeginsAfresh
  <1>3. FilesInv' /\ committed' = committed /\ reader'.who = "handler" /\ reader.who = "none"
    BY <1>1, ReadsFiles
  <1>4. HubTypes' /\ Behind' /\ Subscription' /\ QueueIs' /\ NoGap' /\ ClientInv'
    BY <1>1, <1>2, <1>3, OutsideStream DEF Streaming
  <1>5. WhoReads' /\ GoesOn'
    BY <1>1, <1>2, <1>3 DEF HubInv, WhoReads, GoesOn, Streaming
  <1> QED
    BY <1>3, <1>4, <1>5 DEF HubInv

LEMMA OneAfterTheOther ==
    ASSUME NEW S, NEW a \in Seq(S), NEW b \in Seq(S)
    PROVE  /\ a \o b \in Seq(S) /\ Len(a \o b) = Len(a) + Len(b)
           /\ \A i \in 1..Len(a) : (a \o b)[i] = a[i]
           /\ \A i \in 1..Len(a \o b) : i > Len(a) => (a \o b)[i] = b[i - Len(a)]
  <1>1. a \o b \in Seq(S) /\ Len(a \o b) = Len(a) + Len(b)
    OBVIOUS
  <1>2. \A i \in 1..Len(a) : (a \o b)[i] = a[i]
    OBVIOUS
  <1>3. \A i \in 1..Len(a \o b) : i > Len(a) => (a \o b)[i] = b[i - Len(a)]
    OBVIOUS
  <1> QED
    BY <1>1, <1>2, <1>3

\* What the answer adds to what the client has got.
LEMMA Answered ==
    ASSUME HubInv, NEW to \in Vers, client.last <= to, UNCHANGED <<start, drained>>,
           client' = [client EXCEPT !.last = to,
                        !.got = client.got \o
                                [i \in 1..(to - client.last) |-> client.last + i]]
    PROVE  /\ client' \in Clients /\ client'.last = to /\ ClientInv'
  <1> DEFINE n == Len(client.got)
             last == client.last
             rows == [i \in 1..(to - last) |-> last + i]
             got == client.got \o rows
  <1>1. /\ client \in Clients /\ client.got \in Seq(Ids) /\ n \in Nat /\ last \in Nat
        /\ to \in Nat /\ client.from \in Nat /\ to <= MaxMessages /\ MaxMessages \in Nat
        /\ last <= to
    BY HubNumbers DEF HubInv, HubTypes, Vers
  <1>2. rows \in Seq(Ids) /\ Len(rows) = to - last /\ \A i \in 1..(to - last) : rows[i] = last + i
    <2>1. \A i \in 1..(to - last) : last + i \in Ids
      BY <1>1 DEF Ids
    <2>2. to - last \in Nat
      BY <1>1
    <2> QED
      BY <2>1, <2>2
  <1> HIDE DEF rows
  <1>3. /\ got \in Seq(Ids) /\ Len(got) = n + (to - last)
        /\ \A i \in 1..n : got[i] = client.got[i]
        /\ \A i \in 1..Len(got) : i > n => got[i] = rows[i - n]
    <2>1. client.got \in Seq(Ids) /\ rows \in Seq(Ids)
      BY <1>1, <1>2
    <2>2. got \in Seq(Ids) /\ Len(got) = n + Len(rows)
      BY <2>1, OneAfterTheOther
    <2>3. \A i \in 1..n : got[i] = client.got[i]
      BY <2>1, OneAfterTheOther
    <2>4. \A i \in 1..Len(got) : i > n => got[i] = rows[i - n]
      BY <2>1, OneAfterTheOther
    <2> HIDE DEF got
    <2> QED
      BY <2>2, <2>3, <2>4, <1>2
  <1>4. client' = [client EXCEPT !.last = to, !.got = got]
    BY DEF rows
  <1> HIDE DEF got
  <1>5. /\ client' \in Clients /\ client'.last = to /\ client'.from = client.from
        /\ client'.got = got
    BY <1>1, <1>3, <1>4, ClientGets
  <1>6. ASSUME NEW i \in 1..n  PROVE got[i] = client.got[i] /\ got[i] <= last /\ got[i] \in Nat
    <2>1. client.got[i] <= client.last
      BY DEF HubInv, ClientInv, GotSoFar
    <2>2. client.got[i] \in Ids
      BY <1>1
    <2> QED
      BY <2>1, <2>2, <1>3 DEF Ids
  <1>7. ASSUME NEW i \in 1..Len(got), i > n  PROVE got[i] = last + (i - n) /\ i - n \in 1..(to - last)
    <2>1. i - n \in 1..(to - last)
      BY <1>1, <1>3, <1>7
    <2> QED
      BY <2>1, <1>2, <1>3, <1>7
  <1>8. \A i \in 1..Len(got) : i \in 1..n \/ i > n
    BY <1>1, <1>3
  <1>9. GotSoFar'
    <2>1. SUFFICES ASSUME NEW i \in 1..Len(got)  PROVE got[i] <= to
      BY <1>5 DEF GotSoFar
    <2>2. CASE i \in 1..n
      BY <2>2, <1>1, <1>6
    <2>3. CASE i > n
      BY <2>3, <1>1, <1>7
    <2> QED
      BY <2>2, <2>3, <1>8
  <1>10. MissesNothing'
    <2>1. SUFFICES ASSUME NEW m \in (client.from + 1)..to
                   PROVE  (\E i \in 1..Len(got) : got[i] = m) \/ Excused(m)
      BY <1>5 DEF MissesNothing, HasGot, Excused
    <2>2. CASE m <= last
      <3>1. m \in (client.from + 1)..client.last
        BY <2>2, <1>1
      <3>2. Excused(m) \/ HasGot(m)
        BY <3>1 DEF HubInv, ClientInv, MissesNothing
      <3>3. \A i \in 1..n : i \in 1..Len(got)
        BY <1>1, <1>3
      <3> QED
        <4>1. CASE HasGot(m)
          <5>1. PICK i \in 1..n : client.got[i] = m
            BY <4>1 DEF HasGot
          <5>2. got[i] = client.got[i] /\ i \in 1..Len(got)
            BY <3>3, <1>6
          <5> QED
            BY <5>1, <5>2
        <4>2. CASE Excused(m)
          BY <4>2
        <4> QED
          BY <3>2, <4>1, <4>2
    <2>3. CASE ~(m <= last)
      <3> DEFINE i == n + (m - last)
      <3>1. i \in 1..Len(got) /\ i > n /\ last + (i - n) = m
        <4>1. n \in Nat /\ last \in Nat /\ to \in Nat /\ Len(got) = n + (to - last)
          BY <1>1, <1>3
        <4>2. m \in Int /\ m > last /\ m <= to
          BY <2>3, <1>1
        <4> HIDE DEF n, last
        <4> QED
          BY <4>1, <4>2
      <3> HIDE DEF i
      <3>2. got[i] = m
        BY <3>1, <1>7
      <3> QED
        BY <3>1, <3>2
    <2> QED
      BY <2>2, <2>3
  <1>11. CountsUp'
    <2>1. SUFFICES ASSUME NEW i \in 1..Len(got), NEW j \in 1..Len(got), i < j
                   PROVE  got[i] < got[j]
      BY <1>5 DEF CountsUp
    <2>2. CASE j \in 1..n
      <3>1. i \in 1..n
        BY <2>1, <2>2, <1>1
      <3>2. client.got[i] < client.got[j]
        BY <2>1, <2>2, <3>1 DEF HubInv, ClientInv, CountsUp
      <3> QED
        BY <3>1, <3>2, <2>2, <1>6
    <2>3. CASE j > n
      <3>1. got[j] = last + (j - n) /\ j - n \in 1..(to - last)
        BY <2>3, <1>7
      <3>2. CASE i \in 1..n
        BY <3>1, <3>2, <1>1, <1>6
      <3>3. CASE i > n
        <4>1. got[i] = last + (i - n)
          BY <3>3, <1>7
        <4> QED
          BY <4>1, <3>1, <2>1, <1>1
      <3> QED
        BY <3>2, <3>3, <1>8
    <2> QED
      BY <2>2, <2>3, <1>8
  <1> QED
    BY <1>5, <1>9, <1>10, <1>11 DEF ClientInv

LEMMA PollEndsHub ==
    ASSUME FilesInv, HubInv, PollEnds
    PROVE  FilesInv' /\ HubInv'
  <1>1. /\ UNCHANGED <<queue, subscribed, monitor, start, drained, faults>>
        /\ handler.pc = "asked" /\ faults \in Nat /\ Unlock /\ handler' = NoStream
    BY DEF PollEnds, Unlock, StreamOnly, hubVars, HubInv, HubTypes
  <1>2. handler' \in Handlers /\ handler'.pc = "off"
    BY <1>1, NoStreamIs
  <1>3. FilesInv' /\ committed' = committed /\ reader'.who = "none"
    BY <1>1, UnlockFiles DEF Unlock
  <1>4. Subscription' /\ QueueIs' /\ NoGap'
        /\ (UNCHANGED client => HubTypes' /\ Behind' /\ ClientInv')
    BY <1>1, <1>2, <1>3, OutsideStream DEF Streaming
  <1>5. WhoReads' /\ GoesOn'
    BY <1>1, <1>2, <1>3 DEF HubInv, WhoReads, GoesOn, Streaming
  <1>6. CASE UNCHANGED client
    BY <1>3, <1>4, <1>5, <1>6 DEF HubInv
  <1>7. CASE ~UNCHANGED client
    <2> DEFINE to == LastAfter(client.last)
    <2>1. /\ reader.pc = "ready"
          /\ client' = [client EXCEPT !.last = to,
                          !.got = client.got \o
                                  [i \in 1..(to - client.last) |-> client.last + i]]
      BY <1>7 DEF PollEnds, Has
    <2>2. Newest \in Vers /\ Newest <= committed /\ committed \in Vers /\ client.last \in Vers
          /\ client.last <= committed
      BY <2>1, NewestIsCurrent, HubNumbers DEF FilesInv, FileTypes, HubInv, Behind
    <2>3. to \in Vers /\ client.last <= to /\ (to <= Newest \/ to = client.last)
      BY <2>2, RowsAfter
    <2> HIDE DEF to
    <2>4. to <= committed
      BY <2>2, <2>3 DEF Vers
    <2>5. client' \in Clients /\ client'.last = to /\ ClientInv'
      BY <2>1, <2>3, <1>1, Answered
    <2>6. HubTypes'
      BY <1>1, <1>2, <2>5 DEF HubInv, HubTypes
    <2>7. Behind'
      BY <1>1, <1>2, <1>3, <2>4, <2>5 DEF HubInv, Behind
    <2> QED
      BY <1>3, <1>4, <1>5, <2>5, <2>6, <2>7 DEF HubInv
  <1> QED
    BY <1>6, <1>7

-----------------------------------------------------------------------------
(* The invariant *)

LEMMA InitHolds == Init => FilesInv /\ HubInv
  <1> SUFFICES ASSUME Init PROVE FilesInv /\ HubInv
    OBVIOUS
  <1>1. 0 \in Vers /\ Pages \in Nat \ {0} /\ QueueSize \in Nat
    BY ReadConstants DEF Vers
  <1>2. /\ committed = 0 /\ db = [p \in 1..Pages |-> 0]
        /\ wal = [salt |-> 0, used |-> 0, frames |-> <<>>, commits |-> 0]
        /\ snapshot = <<>> /\ stale = TRUE /\ raced = FALSE /\ reader = NoOne
    BY DEF Init
  <1>3. wal \in Logs /\ wal.used = 0 /\ Len(wal.frames) = 0 /\ wal.frames = <<>>
    <2>1. <<>> \in Seq(Frames) /\ Len(<<>>) = 0
      OBVIOUS
    <2> QED
      BY <1>2, <2>1 DEF Logs
  <1>4. /\ reader \in Readers /\ reader.pc = "free" /\ reader.who = "none"
        /\ reader.floor = 0
    <2>1. <<>> \in Seq(Vers)
      OBVIOUS
    <2> QED
      BY <1>1, <1>2, <2>1 DEF NoOne, Readers
  <1>5. FileTypes
    <2>1. db \in [1..Pages -> Vers] /\ committed \in Vers
      BY <1>1, <1>2
    <2>2. wal.used <= Len(wal.frames)
      BY <1>3
    <2> QED
      BY <2>1, <2>2, <1>2, <1>3, <1>4 DEF FileTypes
  <1>6. LastCommit = 0
    BY <1>3, <1>5, LogEnd
  <1>7. Salts /\ Begun /\ Ended
    BY <1>1, <1>2, <1>3, <1>6 DEF Salts, Begun, Ended
  <1>8. Holds /\ SnapshotHolds
    BY <1>2, <1>4 DEF Holds, SnapshotHolds
  <1>9. monitor = NewMonitor /\ handler = NoStream /\ queue = <<>> /\ subscribed = FALSE
        /\ client = [from |-> 0, last |-> 0, got |-> <<>>]
        /\ start = 0 /\ drained = {} /\ faults = 0
    BY DEF Init
  <1>10. handler \in Handlers /\ handler.pc = "off"
    BY <1>9, NoStreamIs
  <1>11. /\ monitor \in Monitors /\ monitor.pc = "sleeps" /\ monitor.put = FALSE
         /\ monitor.last = 0
    BY <1>1, <1>9 DEF NewMonitor, Monitors
  <1>12. /\ client \in Clients /\ client.last = 0 /\ client.from = 0 /\ Len(client.got) = 0
    <2>1. <<>> \in Seq(Ids) /\ Len(<<>>) = 0
      OBVIOUS
    <2> QED
      BY <1>1, <1>9, <2>1 DEF Clients
  <1>13. HubTypes
    <2>1. queue \in Seq({CLOSED} \cup Ids) /\ Len(queue) <= QueueSize
      BY <1>1, <1>9
    <2> QED
      BY <1>1, <1>9, <1>10, <1>11, <1>12, <2>1 DEF HubTypes
  <1>14. WhoReads /\ Behind /\ GoesOn
    BY <1>2, <1>4, <1>10, <1>11, <1>12 DEF WhoReads, Behind, GoesOn, Streaming, Publishing
  <1>15. Subscription /\ QueueIs /\ NoGap
    BY <1>9, <1>10, <1>11 DEF Subscription, QueueIs, Open, Closing, NoGap, Streaming
  <1>16. ClientInv
    <2>1. 1..Len(client.got) = {} /\ (client.from + 1)..client.last = {}
      BY <1>12
    <2> QED
      BY <2>1 DEF ClientInv, GotSoFar, MissesNothing, CountsUp
  <1> QED
    BY <1>5, <1>7, <1>8, <1>13, <1>14, <1>15, <1>16 DEF FilesInv, HubInv

\* A step of WeChat or of the reader keeps both halves.
LEMMA FilesStep ==
    ASSUME FilesInv, HubInv, WeChatStep \/ ReaderStep
    PROVE  FilesInv' /\ HubInv'
  <1>1. committed \in Int /\ faults \in Nat
    BY ReadConstants DEF FilesInv, FileTypes, Vers, HubInv, HubTypes
  <1>2. CASE WeChatStep
    <2>1. FilesInv' /\ committed <= committed'
      <3>1. ASSUME NEW ver \in Ids, WriteFrame(ver)  PROVE FilesInv' /\ committed <= committed'
        BY <3>1, FrameFiles
      <3>2. ASSUME NEW p \in 1..Pages, Checkpoint(p)  PROVE FilesInv' /\ committed <= committed'
        BY <3>2, CheckpointFiles
      <3>3. CASE StartLogOver
        BY <3>3, LogOverFiles
      <3> QED
        BY <1>2, <3>1, <3>2, <3>3 DEF WeChatStep
    <2>2. committed' \in Int
      BY <2>1, ReadConstants DEF FilesInv, FileTypes, Vers
    <2>3. UNCHANGED <<reader, hubVars, endVars, faults>>
      BY <1>2 DEF WeChatStep, WriteFrame, Checkpoint, StartLogOver, readerVars
    <2> QED
      BY <1>1, <2>1, <2>2, <2>3, FilesOnlyHub
  <1>3. CASE ReaderStep
    <2>1. FilesInv' /\ SameReader
      BY <1>3, LookFiles, ReadPageFiles, ReadLogFiles, CheckFiles, ReplaceFiles DEF ReaderStep
    <2>2. UNCHANGED <<hubVars, endVars>>
      BY <1>3 DEF ReaderStep, Look, ReadPage, ReadLog, Check, Replace, ReaderOnly
    <2>3. faults' \in Nat
      <3>1. faults' = faults \/ faults' = faults + 1
        BY <1>3 DEF ReaderStep, Look, ReadPage, ReadLog, Check, Replace, Fault
      <3> QED
        BY <1>1, <3>1
    <2>4. committed <= committed' /\ committed' \in Int
      BY <1>1, <2>1 DEF SameReader
    <2> QED
      BY <1>1, <2>1, <2>2, <2>3, <2>4, FilesOnlyHub DEF SameReader
  <1> QED
    BY <1>2, <1>3

LEMMA StepHolds == FilesInv /\ HubInv /\ [Next]_vars => FilesInv' /\ HubInv'
  <1> SUFFICES ASSUME FilesInv, HubInv, [Next]_vars  PROVE FilesInv' /\ HubInv'
    OBVIOUS
  <1>1. CASE WeChatStep \/ ReaderStep
    BY <1>1, FilesStep
  <1>2. CASE MonitorStep
    BY <1>2, MonitorReadsHub, MonitorHasRowsHub, MonitorFailsHub, PublishBeginsHub,
       PublishPutsHub, PublishDropsClientHub, PublishDrainsHub DEF MonitorStep
  <1>3. CASE StreamStep
    BY <1>3, ConnectHub, StreamFindsLatestHub, SubscribeHub, BacklogReadsHub,
       BacklogHasRowsHub, BacklogWritesHub, StreamWritesHub, StreamClosesHub DEF StreamStep
  <1>4. CASE StreamBreaks
    BY <1>4, StreamBreaksHub
  <1>5. CASE PollReads
    BY <1>5, PollReadsHub
  <1>6. CASE PollEnds
    BY <1>6, PollEndsHub
  <1>7. CASE Restart
    BY <1>7, RestartHub
  <1>8. CASE UNCHANGED vars
    <2>1. UNCHANGED <<fileVars, stale, raced, readerVars>> /\ UNCHANGED <<hubVars, endVars>>
          /\ faults' = faults
      BY <1>8 DEF vars
    <2>2. FilesInv' /\ committed' = committed /\ reader' = reader
      BY <2>1, NothingRead DEF fileVars, readerVars
    <2>3. committed \in Int /\ faults' \in Nat
      BY <2>1, ReadConstants DEF FilesInv, FileTypes, Vers, HubInv, HubTypes
    <2> QED
      BY <2>1, <2>2, <2>3, FilesOnlyHub
  <1> QED
    BY <1>1, <1>2, <1>3, <1>4, <1>5, <1>6, <1>7, <1>8 DEF Next

\* What the two halves say of what is checked.
LEMMA HoldsMeans ==
    ASSUME FilesInv, HubInv
    PROVE  ReadInv /\ NothingIsMissed /\ EventsCountUp
  <1>1. TypeOK
    <2>1. /\ wal.salt \in Nat /\ wal.used \in 0..Len(wal.frames)
      BY DEF FilesInv, FileTypes, Logs
    <2>2. /\ reader.who \in {"none", "monitor", "handler"}
          /\ reader.pc \in {"free", "look", "db", "wal", "check", "replace",
                            "ready", "failed"}
      BY DEF FilesInv, FileTypes, Readers
    <2>3. /\ monitor.pc \in {"sleeps", "reads", "publishes", "puts", "drains"}
          /\ handler.pc \in {"off", "latest", "subscribe", "backlog", "reads", "writes",
                             "live", "asked"}
          /\ client.got \in Seq(Ids)
      BY DEF HubInv, HubTypes, Monitors, Handlers, Clients, Publishing, Streaming
    <2> QED
      BY <2>1, <2>2, <2>3 DEF FilesInv, FileTypes, HubInv, HubTypes, TypeOK, Vers
  <1>2. SnapshotIsWhole
    BY DEF FilesInv, SnapshotHolds, Whole, SnapshotIsWhole
  <1>3. ReadsAreCurrent
    <2>1. SUFFICES ASSUME reader.pc = "ready"  PROVE Newest >= reader.floor
      BY DEF ReadsAreCurrent
    <2>2. Newest \in Nat /\ reader.floor \in Nat /\ reader.floor <= Newest
      BY <2>1, NewestIsCurrent, ReadConstants DEF FilesInv, FileTypes, Readers, Vers
    <2> QED
      BY <2>2
  <1>4. DOMAIN client.got = 1..Len(client.got)
    BY HubNumbers DEF HubInv
  <1>5. NothingIsMissed
    BY <1>4 DEF HubInv, ClientInv, MissesNothing, HasGot, Excused, NothingIsMissed
  <1>6. EventsCountUp
    BY <1>4 DEF HubInv, ClientInv, CountsUp, EventsCountUp
  <1> QED
    BY <1>1, <1>2, <1>3, <1>5, <1>6 DEF ReadInv

\* However WeChat writes, checkpoints and starts its log over while the two
\* are copied, what refresh leaves is the database of one moment, and no read
\* returns less than was committed when it began (SnapshotReader.refresh,
\* _patch_wal).
THEOREM ReadsHold == Spec => []ReadInv
  <1>1. Spec => [](FilesInv /\ HubInv)
    BY InitHolds, StepHolds, PTL DEF Spec
  <1>2. FilesInv /\ HubInv => ReadInv
    BY HoldsMeans
  <1> QED
    BY <1>1, <1>2, PTL

\* Whoever listens or asks gets every message but those the property names:
\* the backlog is read after the subscription (Handler._stream), and every
\* queue that loses an event ends its stream (EventHub.publish).
THEOREM NothingMissedHolds == Spec => []NothingIsMissed
  <1>1. Spec => [](FilesInv /\ HubInv)
    BY InitHolds, StepHolds, PTL DEF Spec
  <1>2. FilesInv /\ HubInv => NothingIsMissed
    BY HoldsMeans
  <1> QED
    BY <1>1, <1>2, PTL

\* What the backlog and the queue both hold is sent once, and in order: the id
\* a client comes back with only grows (Handler._stream).
THEOREM EventsCountUpHolds == Spec => []EventsCountUp
  <1>1. Spec => [](FilesInv /\ HubInv)
    BY InitHolds, StepHolds, PTL DEF Spec
  <1>2. FilesInv /\ HubInv => EventsCountUp
    BY HoldsMeans
  <1> QED
    BY <1>1, <1>2, PTL
=============================================================================
