---------------------------- MODULE KcndbDbProofs ----------------------------
(***************************************************************************)
(* Theorems about KcndbDb, for every set of threads, locators, hash,       *)
(* requests, buffer size and faults its assumptions allow.                 *)
(***************************************************************************)
EXTENDS KcndbDb, KcnBufProofs, TLAPS

-----------------------------------------------------------------------------
(* The lock.  The part of the state it concerns is inductive by itself.    *)

LockType ==
    /\ writer \in Thread \cup {NoThread}
    /\ readers \in [Thread -> Nat]
    /\ pc \in [Thread -> Pc]

LockInv == LockType /\ LockSafe

(* Names of the program counters a proof about the lock looks at.          *)
LEMMA PcKinds ==
    /\ WritePc \subseteq Pc /\ SearchPc \subseteq Pc /\ WaitWrPc \subseteq Pc
    /\ WritePc \cap SearchPc = {} /\ WritePc \cap WaitWrPc = {}
    /\ SearchPc \cap WaitWrPc = {}
    /\ {"closed", "dead", "idle", "search_lock", "reply"}
            \cap (WritePc \cup SearchPc) = {}
    /\ {"closed", "dead", "idle", "search_lock", "reply"} \subseteq Pc
  BY DEF WritePc, SearchPc, WaitWrPc, Pc

(* A step of t that moves it within the same kind of places and leaves the *)
(* lock alone.                                                             *)
LEMMA StayLock ==
    ASSUME LockInv, NEW t \in Thread, NEW p \in Pc, Goto(t, p), UNCHANGED lock,
           p \in WritePc <=> pc[t] \in WritePc,
           p \in SearchPc => readers[t] > 0
    PROVE  LockInv'
  BY DEF LockInv, LockType, LockSafe, Goto, lock

LEMMA TakeWriteLock ==
    ASSUME LockInv, NEW t \in Thread, NEW p \in WritePc, Goto(t, p), wrlock(t)
    PROVE  LockInv'
  BY PcKinds, ThreadAssumption
     DEF LockInv, LockType, LockSafe, Goto, wrlock, WrFree

LEMMA DropWriteLock ==
    ASSUME LockInv, NEW t \in Thread, NEW p \in Pc \ (WritePc \cup SearchPc),
           pc[t] \in WritePc, Goto(t, p), wrunlock(t)
    PROVE  LockInv'
  BY PcKinds, ThreadAssumption
     DEF LockInv, LockType, LockSafe, Goto, wrunlock

LEMMA TakeReadLock ==
    ASSUME LockInv, NEW t \in Thread, NEW p \in SearchPc,
           Goto(t, p), rdlock(t), pc[t] \notin WritePc
    PROVE  LockInv'
  BY PcKinds, ThreadAssumption
     DEF LockInv, LockType, LockSafe, Goto, rdlock, RdFree

LEMMA DropReadLock ==
    ASSUME LockInv, NEW t \in Thread, NEW p \in Pc \ (WritePc \cup SearchPc),
           pc[t] \in SearchPc, Goto(t, p), rdunlock(t)
    PROVE  LockInv'
  BY PcKinds, ThreadAssumption
     DEF LockInv, LockType, LockSafe, Goto, rdunlock

(* A call fails, or returns, under the lock for writing or for reading.    *)
LEMMA AddFailLock ==
    ASSUME LockInv, NEW t \in Thread, NEW r, pc[t] \in WritePc, AddFail(t, r)
    PROVE  LockInv'
  <1>1. "reply" \in Pc \ (WritePc \cup SearchPc)
    BY PcKinds
  <1> QED
    BY <1>1, DropWriteLock DEF AddFail, Reply

LEMMA SearchFailLock ==
    ASSUME LockInv, NEW t \in Thread, NEW r, pc[t] \in SearchPc,
           SearchFail(t, r)
    PROVE  LockInv'
  <1>1. "reply" \in Pc \ (WritePc \cup SearchPc)
    BY PcKinds
  <1> QED
    BY <1>1, DropReadLock DEF SearchFail, Reply

(* A step that leaves the program counters and the lock alone: an          *)
(* assertion fails, or a record is passed over.                            *)
LEMMA SameLock ==
    ASSUME LockInv, UNCHANGED <<lock, pc>>
    PROVE  LockInv'
  BY DEF LockInv, LockType, LockSafe, lock

(* Every step keeps the lock safe.                                         *)
LEMMA LockStep ==
    ASSUME LockInv, [Next]_vars
    PROVE  LockInv'
  <1> USE PcKinds DEF At
  <1>1. CASE UNCHANGED vars
    BY <1>1, SameLock DEF vars
  <1>2. ASSUME NEW t \in Thread, TableOpen(t) PROVE LockInv'
    <2>1. CASE Goto(t, "open_lock")
      BY <1>2, <2>1, StayLock DEF TableOpen, WritePc, SearchPc, WaitWrPc, Pc
    <2>2. CASE Goto(t, "dead")
      BY <1>2, <2>2, StayLock DEF TableOpen, WritePc, SearchPc, Pc
    <2> QED
      BY <1>2, <2>1, <2>2 DEF TableOpen
  <1>3. ASSUME NEW t \in Thread, OpenLock(t) PROVE LockInv'
    BY <1>3, TakeWriteLock DEF OpenLock, WritePc
  <1>4. ASSUME NEW t \in Thread, OpenInit(t) PROVE LockInv'
    <2>1. pc[t] \in WritePc /\ wrunlock(t)
      BY <1>4 DEF OpenInit, WritePc
    <2>2. Goto(t, "idle") \/ Goto(t, "dead")
      BY <1>4 DEF OpenInit
    <2> QED
      BY <2>1, <2>2, DropWriteLock
  <1>5. ASSUME NEW t \in Thread, NEW r \in AddReqs, AddCall(t, r) PROVE LockInv'
    BY <1>5, StayLock DEF AddCall, WritePc, SearchPc, WaitWrPc, Pc
  <1>6. ASSUME NEW t \in Thread, AddLock(t) PROVE LockInv'
    BY <1>6, TakeWriteLock DEF AddLock, WritePc
  <1>7. ASSUME NEW t \in Thread, RecordReadLast(t) PROVE LockInv'
    <2>1. pc[t] \in WritePc /\ pc[t] \notin SearchPc
      BY <1>7 DEF RecordReadLast, WritePc
    <2>2. \/ Goto(t, "loc_bucket") /\ UNCHANGED lock
          \/ \E r : AddFail(t, r)
          \/ UNCHANGED <<lock, pc>>
      BY <1>7 DEF RecordReadLast, Abort
    <2>3. "loc_bucket" \in WritePc /\ "loc_bucket" \notin SearchPc
      BY DEF WritePc, SearchPc
    <2> QED
      BY <2>1, <2>2, <2>3, StayLock, AddFailLock, SameLock
  <1>8. ASSUME NEW t \in Thread, LocBucket(t) PROVE LockInv'
    <2>1. pc[t] \in WritePc
      BY <1>8 DEF LocBucket, WritePc
    <2>2. \/ Goto(t, "loc_append") /\ UNCHANGED lock
          \/ Goto(t, "loc_walk") /\ UNCHANGED lock
          \/ AddFail(t, "EIO")
          \/ UNCHANGED <<lock, pc>>
      BY <1>8 DEF LocBucket, Follow, LocReadFailed, Abort
    <2>3. {"loc_append", "loc_walk"} \subseteq WritePc \ SearchPc
      BY DEF WritePc, SearchPc
    <2> QED
      BY <2>1, <2>2, <2>3, StayLock, AddFailLock, SameLock
  <1>9. ASSUME NEW t \in Thread, LocWalk(t) PROVE LockInv'
    <2>1. pc[t] \in WritePc
      BY <1>9 DEF LocWalk, WritePc
    <2>2. \/ \E p \in {"add_record", "loc_append", "loc_walk"} :
                Goto(t, p) /\ UNCHANGED lock
          \/ \E r : AddFail(t, r)
          \/ UNCHANGED <<lock, pc>>
      <3>1. CASE EntryAt(idx[t]) \/ LocReadFailed(t)
        BY <1>9, <3>1 DEF LocWalk, Follow, LocReadFailed
      <3>2. CASE LocMisread(t)
        BY <3>2 DEF LocMisread, Follow, Abort
      <3> QED
        BY <1>9, <3>1, <3>2 DEF LocWalk
    <2>3. {"add_record", "loc_append", "loc_walk"} \subseteq WritePc \ SearchPc
      BY DEF WritePc, SearchPc
    <2> QED
      BY <2>1, <2>2, <2>3, StayLock, AddFailLock, SameLock
  <1>10. ASSUME NEW t \in Thread, LocAppend(t) PROVE LockInv'
    <2>1. pc[t] \in WritePc
      BY <1>10 DEF LocAppend, WritePc
    <2>2. (Goto(t, "loc_link") /\ UNCHANGED lock) \/ AddFail(t, "EIO")
      BY <1>10 DEF LocAppend
    <2>3. "loc_link" \in WritePc \ SearchPc
      BY DEF WritePc, SearchPc
    <2> QED
      BY <2>1, <2>2, <2>3, StayLock, AddFailLock
  <1>11. ASSUME NEW t \in Thread, LocLink(t) PROVE LockInv'
    <2>1. pc[t] \in WritePc
      BY <1>11 DEF LocLink, WritePc
    <2>2. (Goto(t, "add_record") /\ UNCHANGED lock) \/ AddFail(t, "EIO")
      BY <1>11 DEF LocLink
    <2>3. "add_record" \in WritePc \ SearchPc
      BY DEF WritePc, SearchPc
    <2> QED
      BY <2>1, <2>2, <2>3, StayLock, AddFailLock
  <1>12. ASSUME NEW t \in Thread, AddRecord(t) PROVE LockInv'
    <2>1. pc[t] \in WritePc
      BY <1>12 DEF AddRecord, WritePc
    <2>2. (\E r : AddFail(t, r)) \/ UNCHANGED <<lock, pc>>
      BY <1>12 DEF AddRecord, AddFail, Abort
    <2> QED
      BY <2>1, <2>2, AddFailLock, SameLock
  <1>13. ASSUME NEW t \in Thread, NEW q \in Queries, SearchCall(t, q)
         PROVE  LockInv'
    BY <1>13, StayLock DEF SearchCall, WritePc, SearchPc, WaitWrPc, Pc
  <1>14. ASSUME NEW t \in Thread, SearchLock(t) PROVE LockInv'
    <2>1. pc[t] \notin WritePc /\ pc[t] \notin SearchPc
      BY <1>14 DEF SearchLock, WritePc, SearchPc
    <2>2. \/ Goto(t, "search_scan") /\ rdlock(t)
          \/ Goto(t, "reply") /\ UNCHANGED lock
      BY <1>14 DEF SearchLock, Reply
    <2>3. "search_scan" \in SearchPc
      BY DEF SearchPc
    <2> QED
      BY <2>1, <2>2, <2>3, StayLock, TakeReadLock
  <1>15. ASSUME NEW t \in Thread, SearchScan(t) PROVE LockInv'
    <2>1. pc[t] \in SearchPc /\ pc[t] \notin WritePc /\ readers[t] > 0
      BY <1>15 DEF SearchScan, SearchPc, WritePc, LockInv, LockSafe
    <2>2. \/ Goto(t, "search_end") /\ UNCHANGED lock
          \/ \E r : SearchFail(t, r)
          \/ UNCHANGED <<lock, pc>>
      BY <1>15 DEF SearchScan, Passed, Abort
    <2>3. "search_end" \in SearchPc
      BY DEF SearchPc
    <2> QED
      BY <2>1, <2>2, <2>3, StayLock, SearchFailLock, SameLock
  <1>16. ASSUME NEW t \in Thread, SearchEnd(t) PROVE LockInv'
    <2>1. pc[t] \in SearchPc /\ pc[t] \notin WritePc
      BY <1>16 DEF SearchEnd, SearchPc, WritePc
    <2>2. SearchFail(t, "ESRCH") \/ (Goto(t, "reply") /\ UNCHANGED lock)
      BY <1>16 DEF SearchEnd, Reply
    <2> QED
      BY <2>1, <2>2, StayLock, SearchFailLock
  <1>17. ASSUME NEW t \in Thread, Return(t) PROVE LockInv'
    BY <1>17, StayLock DEF Return, WritePc, SearchPc
  <1>18. CASE Boot
    BY <1>18, ThreadAssumption DEF Boot, LockInv, LockType, LockSafe
  <1> QED
    BY <1>1, <1>2, <1>3, <1>4, <1>5, <1>6, <1>7, <1>8, <1>9, <1>10, <1>11,
       <1>12, <1>13, <1>14, <1>15, <1>16, <1>17, <1>18
       DEF Next, Step, Kill, Restart

(* The read-write lock is used as it must be, for any number of threads    *)
(* and whatever fails: no file is written while a search reads it, no two  *)
(* threads write, and nobody reads or writes without the lock              *)
(* (kcndb_db_rdlock, _wrlock and _unlock around every access).             *)
THEOREM LockIsSafe == Spec => []LockSafe
  <1>1. Init => LockInv
    BY PcKinds, ThreadAssumption DEF Init, LockInv, LockType, LockSafe
  <1>2. LockInv /\ [Next]_vars => LockInv'
    BY LockStep
  <1>3. LockInv => LockSafe
    BY DEF LockInv
  <1> QED
    BY <1>1, <1>2, <1>3, PTL DEF Spec

-----------------------------------------------------------------------------
(* Types.  What a thread serves and what it keeps in its local variables   *)
(* depends on where it is.                                                 *)

CallOK ==
    \A t \in Thread :
        /\ pc[t] \in AddPc => req[t] \in AddReqs
        /\ pc[t] \in {"search_lock"} \cup SearchPc => req[t] \in Queries
        /\ pc[t] \in {"loc_link", "add_record"} => idx[t] \in Nat

TypeInv == TypeOK /\ CallOK

Cells == Nat \cup Loc \cup {Garbage}

(* What one turn of the loop of kcndb_file_ensure keeps.                   *)
Reading == [kb : GoodBufs(Nat, BUFSIZ), off : Nat, rc : {"ok", "ESHUTDOWN", "EIO"}]

LEMMA TurnGood ==
    ASSUME table \in Seq(Nat), NEW S \in SUBSET Reading, NEW len \in Nat
    PROVE  Turn(S, len) \in SUBSET Reading
  <1> SUFFICES ASSUME NEW s \in S, NEW r \in EnsureStep(s, len)
               PROVE  r \in Reading
    BY DEF Turn
  <1>1. s \in Reading /\ s.kb \in GoodBufs(Nat, BUFSIZ) /\ s.off \in Nat
    BY DEF Reading
  <1>2. BUFSIZ \in Nat
    BY SizeAssumption
  <1>3. CASE r = s
    BY <1>1, <1>3
  <1>4. CASE r \in ReadFailures(s.kb, s.off)
    BY <1>1, <1>2, <1>4, ReadIntoGood DEF ReadFailures, Reading
  <1>5. CASE \E n \in Nat, b \in GoodBufs(Nat, BUFSIZ) :
                 r = [kb |-> b, off |-> s.off + n,
                      rc |-> IF n = 0 THEN "ESHUTDOWN" ELSE "ok"]
    BY <1>1, <1>5 DEF Reading
  <1> QED
    BY <1>1, <1>2, <1>3, <1>4, <1>5, ReadGood DEF EnsureStep

LEMMA EnsureGood ==
    ASSUME table \in Seq(Nat), NEW b \in GoodBufs(Nat, BUFSIZ),
           NEW o \in Nat, NEW len \in Nat
    PROVE  kcndb_file_ensure(b, o, len) \in SUBSET Reading
  <1>1. {[kb |-> b, off |-> o, rc |-> "ok"]} \in SUBSET Reading
    BY DEF Reading
  <1> QED
    BY <1>1, TurnGood DEF kcndb_file_ensure

(* A record is read into a buffer that stays good, word by word from it.   *)
LEMMA RecordReadGood ==
    ASSUME table \in Seq(Nat), NEW b \in GoodBufs(Nat, BUFSIZ), NEW o \in Nat,
           NEW r \in kcndb_db_record_read(b, o)
    PROVE  /\ r.kb \in GoodBufs(Nat, BUFSIZ) /\ r.off \in Nat
           /\ r.rc \in {"ok", "ESHUTDOWN", "EIO", "abort"}
           /\ r.rc = "ok" => r.time \in Nat /\ r.val \in Nat /\ r.locidx \in Nat
  <1>1. PICK e \in kcndb_file_ensure(b, o, KCNDB_DB_RECORDSIZ) : r = Decoded(e)
    BY DEF kcndb_db_record_read
  <1>2. e \in Reading
    BY EnsureGood DEF KCNDB_DB_RECORDSIZ
  <1>3. CASE e.rc # "ok"
    BY <1>1, <1>2, <1>3 DEF Decoded, Reading
  <1>4. CASE e.rc = "ok" /\ ~ kcn_buf_get_ok(e.kb, KCNDB_DB_RECORDSIZ)
    <2>1. r = [e EXCEPT !.rc = "abort"]
      BY <1>1, <1>4 DEF Decoded
    <2> QED
      BY <1>2, <2>1 DEF Reading
  <1>5. CASE e.rc = "ok" /\ kcn_buf_get_ok(e.kb, KCNDB_DB_RECORDSIZ)
    <2> DEFINE f == kcn_buf_forward(e.kb, KCNDB_DB_RECORDSIZ)
               k == kcn_buf_trim_head(f, kcn_buf_headingdata(f))
    <2>1. r = [rc |-> "ok", time |-> kcn_buf_get(e.kb, 1),
               val |-> kcn_buf_get(e.kb, 2), locidx |-> kcn_buf_get(e.kb, 3),
               kb |-> k, off |-> e.off]
      BY <1>1, <1>5 DEF Decoded
    <2>2. e.kb \in GoodBufs(Nat, BUFSIZ) /\ e.off \in Nat /\ BUFSIZ \in Nat
      BY <1>2, SizeAssumption DEF Reading
    <2>3. kcn_buf_get(e.kb, 1) \in Nat /\ kcn_buf_get(e.kb, 2) \in Nat
          /\ kcn_buf_get(e.kb, 3) \in Nat
      BY <1>5, <2>2, GetGood DEF KCNDB_DB_RECORDSIZ
    <2>4. /\ f \in GoodBufs(Nat, BUFSIZ)
          /\ kcn_buf_headingdata(f) \in 0..Len(f.data)
      BY <1>5, <2>2, ForwardGood DEF KCNDB_DB_RECORDSIZ
    <2>5. k \in GoodBufs(Nat, BUFSIZ)
      BY <2>2, <2>4, TrimGood
    <2> HIDE DEF k
    <2> QED
      BY <2>1, <2>2, <2>3, <2>5
  <1> QED
    BY <1>3, <1>4, <1>5

(* The parts of the state that a step may disturb together.                *)
DiskType == table \in Seq(Nat) /\ loc \in Seq(Cells) /\ damaged \in BOOLEAN
SizeType == kdb_tablesize \in Nat /\ kdb_locsize \in Nat
WalkType == /\ idx \in [Thread -> Nat \cup {Garbage}]
            /\ oidx \in [Thread -> Places]
OutType  == out \in [Thread -> Seq(Loc \cup {Garbage})]
BufType  == kb \in [Thread -> GoodBufs(Nat, BUFSIZ)]
CallType == /\ req \in [Thread -> AddReqs \cup Queries \cup {NoReq}]
            /\ off \in [Thread -> Nat] /\ i \in [Thread -> Nat]
            /\ ret \in [Thread -> Results]
            /\ failed \in Asserts \cup {"none"}

LEMMA TypeParts ==
    TypeOK <=> /\ DiskType /\ SizeType /\ LockType
               /\ WalkType /\ OutType /\ BufType /\ CallType
  BY DEF TypeOK, DiskType, SizeType, LockType, WalkType, OutType, BufType,
         CallType, Cells

(* A thread goes on without touching what it keeps.                        *)
LEMMA GotoTypes ==
    ASSUME TypeInv, NEW t \in Thread, NEW p \in Pc, Goto(t, p),
           UNCHANGED <<req, off, walk, i, ret, failed>>,
           p \in AddPc => req[t] \in AddReqs,
           p \in {"search_lock"} \cup SearchPc => req[t] \in Queries,
           p \in {"loc_link", "add_record"} => idx[t] \in Nat
    PROVE  CallType' /\ WalkType' /\ CallOK'
  BY DEF TypeInv, TypeOK, CallOK, Goto, walk, CallType, WalkType

(* A call ends.                                                            *)
LEMMA ReplyTypes ==
    ASSUME TypeInv, NEW t \in Thread, NEW r \in Results, Reply(t, r)
    PROVE  CallType' /\ WalkType' /\ CallOK'
  <1>1. NoPlace \in Places
    BY SizeAssumption DEF NoPlace, Places
  <1>2. CallType' /\ WalkType'
    BY <1>1 DEF TypeInv, TypeOK, Reply, CallType, WalkType
  <1>3. CallOK'
    BY DEF TypeInv, TypeOK, CallOK, Reply, Goto, AddPc, SearchPc
  <1> QED
    BY <1>2, <1>3

LEMMA AbortTypes ==
    ASSUME TypeInv, NEW a \in Asserts, Abort(a)
    PROVE  TypeInv'
  BY DEF TypeInv, TypeOK, CallOK, Abort, disk, sizes, lock, walk, search

(* What the walk along the chain reads: an offset, or garbage.             *)
LEMMA OffsetType ==
    ASSUME TypeInv, NEW o \in Nat, o < Len(loc)
    PROVE  OffsetAt(o) \in Nat \cup {Garbage}
  BY LocAssumption DEF TypeInv, TypeOK, OffsetAt

LEMMA LocAtType ==
    ASSUME NEW o \in Nat
    PROVE  LocAt(o) \in Loc \cup {Garbage}
  BY DEF LocAt

LEMMA FollowTypes ==
    ASSUME TypeInv, NEW t \in Thread, NEW o \in Nat \cup {Garbage},
           NEW place \in Places, Follow(t, o, place), req[t] \in AddReqs
    PROVE  CallType' /\ WalkType' /\ CallOK'
  <1>1. CallType' /\ WalkType'
    BY DEF TypeInv, TypeOK, Follow, CallType, WalkType
  <1>2. CallOK'
    BY DEF TypeInv, TypeOK, CallOK, Follow, Goto, AddPc, SearchPc
  <1> QED
    BY <1>1, <1>2

(* A cell written into the locator file leaves a file of cells.            *)
LEMMA WriteAtType ==
    ASSUME NEW f \in Seq(Cells), NEW o \in Nat, NEW v \in Cells
    PROVE  WriteAt(f, o, v) \in Seq(Cells)
  <1> DEFINE n == IF o < Len(f) THEN Len(f) ELSE o + 1
  <1>1. n \in Nat
    OBVIOUS
  <1>2. \A k \in 1..n : (IF k = o + 1 THEN v ELSE IF k <= Len(f) THEN f[k] ELSE 0)
                            \in Cells
    BY DEF Cells
  <1>3. WriteAt(f, o, v) \in [1..n -> Cells]
    BY <1>2 DEF WriteAt
  <1> QED
    BY <1>1, <1>3

(* So do cells that lose what they held, and so does the link.             *)
LEMMA OverwrittenType ==
    ASSUME NEW f \in Seq(Cells), NEW cells, NEW g \in Overwritten(f, cells)
    PROVE  /\ g \in Seq(Cells) /\ Len(g) = Len(f)
           /\ \A k \in 1..Len(f) : g[k] # f[k] =>
                  k - 1 \in cells /\ g[k] \in {0, Garbage}
  <1> DEFINE With(hit, w) ==
                [k \in DOMAIN f |-> IF k - 1 \in hit THEN w[k - 1] ELSE f[k]]
             Ways(hit) == {With(hit, w) : w \in [hit -> {0, Garbage}]}
  <1>a. Overwritten(f, cells) = UNION {Ways(hit) : hit \in SUBSET cells}
    BY DEF Overwritten
  <1> HIDE DEF Ways
  <1>b. PICK hit \in SUBSET cells : g \in Ways(hit)
    BY <1>a
  <1>1. \E w \in [hit -> {0, Garbage}] : g = With(hit, w)
    BY <1>b DEF Ways
  <1>0. PICK v \in [hit -> {0, Garbage}] :
            g = [k \in DOMAIN f |-> IF k - 1 \in hit THEN v[k - 1] ELSE f[k]]
    BY <1>1
  <1>2. \A k \in DOMAIN f : (IF k - 1 \in hit THEN v[k - 1] ELSE f[k]) \in Cells
    BY DEF Cells
  <1>3. DOMAIN f = 1..Len(f) /\ Len(f) \in Nat
    OBVIOUS
  <1>4. g \in [1..Len(f) -> Cells]
    BY <1>0, <1>2, <1>3
  <1>5. g \in Seq(Cells) /\ Len(g) = Len(f)
    BY <1>3, <1>4
  <1>6. ASSUME NEW k \in 1..Len(f), g[k] # f[k]
        PROVE  k - 1 \in cells /\ g[k] \in {0, Garbage}
    <2>1. k - 1 \in hit /\ g[k] = v[k - 1]
      BY <1>0, <1>3, <1>6
    <2>2. v[k - 1] \in {0, Garbage} /\ k - 1 \in cells
      BY <2>1
    <2> QED
      BY <2>1, <2>2
  <1> QED
    BY <1>5, <1>6

LEMMA LinkedType ==
    ASSUME NEW f \in Seq(Cells), NEW o \in Nat, NEW place \in Places,
           NEW g \in Linked(f, place, o)
    PROVE  g \in Seq(Cells)
  <1>1. place.bucket \in Nat /\ o \in Cells
    BY SizeAssumption DEF Places, Cells
  <1>2. CASE g = WriteAt(f, place.bucket, o)
    BY <1>1, <1>2, WriteAtType
  <1>3. CASE \E cells : g \in Overwritten(f, cells)
    BY <1>3, OverwrittenType
  <1>4. \/ g = WriteAt(f, place.bucket, o)
        \/ g \in Overwritten(f, {place.bucket, place.bucket + 1})
        \/ \E k \in 0..Len(f) - 1 : g \in Overwritten(f, k..k+2)
    BY DEF Linked
  <1> QED
    BY <1>2, <1>3, <1>4

(* Every step keeps the types; that the lock's are kept is LockStep.       *)
LEMMA TypeStep ==
    ASSUME TypeInv, LockInv, [Next]_vars
    PROVE  TypeInv'
  <1>lock. LockType'
    BY LockStep DEF LockInv
  <1> DEFINE Rest == DiskType /\ SizeType /\ WalkType /\ OutType
                        /\ BufType /\ CallType /\ CallOK
  <1>parts. Rest
    BY TypeParts DEF TypeInv
  <1>suff. TypeInv' <=> Rest'
    BY <1>lock, TypeParts, PTL DEF TypeInv
  <1>req. \A t \in Thread :
            /\ pc[t] \in AddPc => req[t] \in AddReqs
            /\ pc[t] \in SearchPc => req[t] \in Queries
    BY DEF TypeInv, CallOK
  <1> USE DEF At
  <1>1. CASE UNCHANGED vars
    BY <1>1 DEF vars, disk, sizes, lock, walk, search, TypeInv, TypeOK, CallOK
  <1>2. ASSUME NEW t \in Thread, TableOpen(t) PROVE Rest'
    <2>1. CallType' /\ WalkType' /\ CallOK'
      BY <1>2, GotoTypes DEF TableOpen, AddPc, SearchPc, Pc, WaitWrPc, search
    <2> QED
      BY <1>2, <2>1, <1>parts DEF TableOpen, disk, sizes, search,
         DiskType, SizeType, OutType, BufType
  <1>3. ASSUME NEW t \in Thread, OpenLock(t) PROVE Rest'
    <2>1. CallType' /\ WalkType' /\ CallOK'
      BY <1>3, GotoTypes DEF OpenLock, AddPc, SearchPc, Pc, WritePc, search
    <2> QED
      BY <1>3, <2>1, <1>parts DEF OpenLock, disk, sizes, search,
         DiskType, SizeType, OutType, BufType
  <1>4. ASSUME NEW t \in Thread, OpenInit(t) PROVE Rest'
    <2>1. CallType' /\ WalkType' /\ CallOK'
      BY <1>4, GotoTypes DEF OpenInit, AddPc, SearchPc, Pc, search
    <2>2. SizeType'
      BY <1>4, <1>parts, SizeAssumption DEF OpenInit, SizeType, DiskType
    <2>3. ASSUME NEW n \in Nat
          PROVE  loc \o [k \in 1..n |-> 0] \in Seq(Cells)
      <3>1. [k \in 1..n |-> 0] \in Seq(Cells)
        BY DEF Cells
      <3> QED
        BY <3>1, <1>parts, Glued DEF DiskType
    <2>4. DiskType'
      <3>1. HASHSIZ \in Nat /\ 0..HASHSIZ-1 \subseteq Nat
        BY SizeAssumption
      <3>2. loc' = loc \/ \E n \in Nat : loc' = loc \o [k \in 1..n |-> 0]
        BY <1>4, <3>1 DEF OpenInit
      <3>3. table' = table /\ damaged' = damaged
        BY <1>4 DEF OpenInit
      <3> QED
        BY <3>2, <3>3, <2>3, <1>parts DEF DiskType
    <2> QED
      BY <1>4, <2>1, <2>2, <2>4, <1>parts DEF OpenInit, search, OutType, BufType
  <1>5. ASSUME NEW t \in Thread, NEW r \in AddReqs, AddCall(t, r) PROVE Rest'
    <2>1. CallType' /\ WalkType'
      BY <1>5, <1>parts DEF AddCall, CallType, WalkType, walk, search
    <2>2. CallOK'
      BY <1>5 DEF AddCall, Goto, TypeInv, TypeOK, CallOK, AddPc, SearchPc, walk
    <2> QED
      BY <1>5, <2>1, <2>2, <1>parts DEF AddCall, disk, sizes, search,
         DiskType, SizeType, OutType, BufType
  <1>6. ASSUME NEW t \in Thread, AddLock(t) PROVE Rest'
    <2>1. req[t] \in AddReqs
      BY <1>6, <1>req DEF AddLock, AddPc
    <2>2. CallType' /\ WalkType' /\ CallOK'
      BY <1>6, <2>1, GotoTypes DEF AddLock, SearchPc, Pc, WritePc, search
    <2> QED
      BY <1>6, <2>2, <1>parts DEF AddLock, disk, sizes, search,
         DiskType, SizeType, OutType, BufType
  <1>7. ASSUME NEW t \in Thread, RecordReadLast(t) PROVE Rest'
    <2>1. req[t] \in AddReqs
      BY <1>7, <1>req DEF RecordReadLast, AddPc
    <2>2. DiskType' /\ SizeType' /\ OutType'
      BY <1>7, <1>parts DEF RecordReadLast, disk, sizes, DiskType, SizeType, OutType
    <2>3. ASSUME Goto(t, "loc_bucket"), UNCHANGED <<req, off, walk, i, ret, failed>>
          PROVE  CallType' /\ WalkType' /\ CallOK'
      BY <2>1, <2>3, GotoTypes DEF SearchPc, Pc, WritePc
    <2>4. ASSUME NEW r \in Results, AddFail(t, r)
          PROVE  CallType' /\ WalkType' /\ CallOK'
      BY <2>4, ReplyTypes DEF AddFail
    <2>5. CASE /\ kdb_tablesize < KCNDB_DB_RECORDSIZ
               /\ Goto(t, "loc_bucket")
               /\ UNCHANGED <<lock, req, kb, off, walk, i, ret, failed>>
      BY <2>2, <2>3, <2>5, <1>parts DEF BufType
    <2>6. CASE kdb_tablesize >= KCNDB_DB_RECORDSIZ
      <3> DEFINE o == kdb_tablesize - KCNDB_DB_RECORDSIZ
      <3>1. o \in Nat /\ kb[t] \in GoodBufs(Nat, BUFSIZ) /\ table \in Seq(Nat)
        BY <2>6, <1>parts DEF KCNDB_DB_RECORDSIZ, SizeType, BufType, DiskType
      <3>2. PICK r \in kcndb_db_record_read(kb[t], o) :
              \/ /\ kb' = [kb EXCEPT ![t] = r.kb]
                 /\ \/ /\ Goto(t, "loc_bucket")
                       /\ UNCHANGED <<lock, req, off, walk, i, ret, failed>>
                    \/ AddFail(t, "ERANGE")
                    \/ r.rc \in {"ESHUTDOWN", "EIO"} /\ AddFail(t, r.rc)
              \/ Abort("get")
        BY <1>7, <2>6, <1>parts DEF RecordReadLast, SizeType, KCNDB_DB_RECORDSIZ
      <3>3. r.kb \in GoodBufs(Nat, BUFSIZ)
        BY <3>1, RecordReadGood
      <3>4. CASE Abort("get")
        BY <3>4, AbortTypes, <1>suff DEF Asserts
      <3>5. CASE ~ Abort("get")
        <4>1. BufType'
          BY <3>2, <3>3, <3>5, <1>parts DEF BufType
        <4>2. CallType' /\ WalkType' /\ CallOK'
          BY <3>2, <3>5, <2>3, <2>4 DEF Results
        <4> QED
          BY <2>2, <4>1, <4>2
      <3> QED
        BY <3>4, <3>5
    <2> QED
      BY <1>7, <2>5, <2>6 DEF RecordReadLast
  <1>fail. ASSUME NEW t \in Thread, NEW r \in Results, AddFail(t, r)
           PROVE  CallType' /\ WalkType' /\ CallOK'
    BY <1>fail, ReplyTypes DEF AddFail
  <1>8. ASSUME NEW t \in Thread, LocBucket(t) PROVE Rest'
    <2> DEFINE h == Hash[req[t].loc]
               at == [bucket |-> h, whole |-> TRUE]
    <2>1. req[t] \in AddReqs /\ h \in 0..HASHSIZ-1
      BY <1>8, <1>req, LocAssumption, ReqAssumption DEF LocBucket, AddPc
    <2>2. at \in Places /\ h \in Nat
      BY <2>1, SizeAssumption DEF Places
    <2>3. DiskType' /\ SizeType' /\ OutType' /\ BufType'
      BY <1>8, <1>parts
         DEF LocBucket, disk, sizes, DiskType, SizeType, OutType, BufType
    <2>4. CASE h < Len(loc) /\ Follow(t, OffsetAt(h), at)
      <3>1. OffsetAt(h) \in Nat \cup {Garbage}
        BY <2>2, <2>4, OffsetType
      <3> QED
        BY <2>1, <2>2, <2>3, <2>4, <3>1, FollowTypes
    <2>5. CASE Abort(IF h > Len(loc) THEN "forward" ELSE "get")
      BY <2>5, AbortTypes, <1>suff DEF Asserts
    <2>6. CASE AddFail(t, "EIO")
      BY <2>3, <2>6, <1>fail DEF Results
    <2> QED
      BY <1>8, <2>4, <2>5, <2>6 DEF LocBucket, LocReadFailed
  <1>9. ASSUME NEW t \in Thread, LocWalk(t) PROVE Rest'
    <2> DEFINE entry == loc[idx[t] + 1]
    <2>1. req[t] \in AddReqs
      BY <1>9, <1>req DEF LocWalk, AddPc
    <2>2. table' = table /\ loc' = loc /\ SizeType' /\ OutType' /\ BufType'
      BY <1>9, <1>parts DEF LocWalk, sizes, SizeType, OutType, BufType
    <2>3. damaged' \in BOOLEAN
      BY <1>9, <1>parts DEF LocWalk, LocMisread, DiskType
    <2>4. DiskType'
      BY <2>2, <2>3, <1>parts DEF DiskType
    <2>5. Len(loc) \in Nat
      BY <1>parts DEF DiskType
    <2>6. ASSUME EntryAt(idx[t])
          PROVE  idx[t] \in Nat /\ idx[t] + 1 < Len(loc) /\ entry \in Loc
      BY <2>5, <2>6 DEF EntryAt
    <2>7. CASE /\ EntryAt(idx[t]) /\ Goto(t, "add_record")
               /\ UNCHANGED <<lock, req, off, walk, i, ret, failed>>
      BY <2>1, <2>2, <2>4, <2>6, <2>7, GotoTypes DEF Pc, WritePc, SearchPc
    <2>8. CASE EntryAt(idx[t]) /\ Follow(t, OffsetAt(idx[t] + 1), Slot[entry])
      <3>1. Slot[entry] \in Places
        BY <2>6, <2>8, LocAssumption DEF Places
      <3>2. OffsetAt(idx[t] + 1) \in Nat \cup {Garbage}
        BY <2>6, <2>8, OffsetType
      <3> QED
        BY <2>1, <2>2, <2>4, <2>8, <3>1, <3>2, FollowTypes
    <2>9. CASE \E r \in Results : AddFail(t, r)
      BY <2>2, <2>4, <2>9, <1>fail
    <2>10. CASE \E x \in {"read", "get"} : Abort(x)
      BY <2>10, AbortTypes, <1>suff DEF Asserts
    <2>11. CASE \E o \in {e \in 1..Len(loc) : EntryAt(e)} \cup {0, Garbage} :
                    Follow(t, o, Anywhere)
      <3>1. PICK o \in Nat \cup {Garbage} : Follow(t, o, Anywhere)
        BY <2>5, <2>11
      <3>2. Anywhere \in Places
        BY SizeAssumption DEF Anywhere, Places
      <3> QED
        BY <2>1, <2>2, <2>4, <3>1, <3>2, FollowTypes
    <2>12. CASE /\ \E o \in 0..Len(loc) - 1 : idx' = [idx EXCEPT ![t] = o]
                /\ Goto(t, "add_record")
                /\ UNCHANGED <<lock, req, off, oidx, i, ret, failed>>
      <3>0. 0..Len(loc) - 1 \subseteq Nat
        BY <2>5
      <3>1. PICK o \in Nat : idx' = [idx EXCEPT ![t] = o]
        BY <2>12, <3>0
      <3>2. CallType' /\ WalkType'
        BY <2>12, <3>1, <1>parts DEF CallType, WalkType
      <3>3. CallOK'
        BY <2>1, <2>12, <3>1, <1>parts
           DEF TypeInv, TypeOK, CallOK, Goto, SearchPc
      <3> QED
        BY <2>2, <2>4, <3>2, <3>3
    <2>13. CASE ~ EntryAt(idx[t]) /\ LocMisread(t)
      BY <2>13, <2>9, <2>10, <2>11, <2>12 DEF LocMisread, Results
    <2> QED
      BY <1>9, <2>7, <2>8, <2>9, <2>13 DEF LocWalk, LocReadFailed, Results
  <1>10. ASSUME NEW t \in Thread, LocAppend(t) PROVE Rest'
    <2> DEFINE entry == <<req[t].loc, 0>>
    <2>1. req[t] \in AddReqs /\ entry \in Seq(Cells) /\ Len(entry) = 2
      BY <1>10, <1>req, ReqAssumption DEF LocAppend, AddPc, Cells
    <2>2. /\ OutType' /\ BufType' /\ kdb_tablesize' = kdb_tablesize
          /\ table' = table /\ damaged' = damaged
      BY <1>10, <1>parts DEF LocAppend, OutType, BufType
    <2>3. CASE /\ loc' = loc \o entry
               /\ kcndb_db_loc_size_increment(Len(entry))
               /\ idx' = [idx EXCEPT ![t] = kdb_locsize]
               /\ Goto(t, "loc_link")
               /\ UNCHANGED <<lock, req, off, oidx, i, ret, failed>>
      <3>1. DiskType'
        BY <2>1, <2>2, <2>3, <1>parts, Glued DEF DiskType
      <3>2. SizeType'
        BY <2>1, <2>2, <2>3, <1>parts DEF SizeType, kcndb_db_loc_size_increment
      <3>3. CallType' /\ WalkType'
        BY <2>3, <1>parts DEF CallType, WalkType, SizeType
      <3>4. CallOK'
        BY <2>1, <2>3, <1>parts
           DEF TypeInv, TypeOK, CallOK, Goto, SizeType, SearchPc
      <3> QED
        BY <2>2, <3>1, <3>2, <3>3, <3>4
    <2>4. CASE /\ \E p \in 0..Len(entry) - 1 : loc' = loc \o SubSeq(entry, 1, p)
               /\ AddFail(t, "EIO") /\ UNCHANGED kdb_locsize
      <3>1. PICK p \in 0..1 : loc' = loc \o SubSeq(entry, 1, p)
        BY <2>1, <2>4
      <3>2. SubSeq(entry, 1, p) \in Seq(Cells)
        BY <2>1, PartOfSeq
      <3>3. DiskType'
        BY <2>2, <3>1, <3>2, <1>parts, Glued DEF DiskType
      <3> QED
        BY <2>2, <2>4, <3>3, <1>fail, <1>parts DEF Results, SizeType
    <2> QED
      BY <1>10, <2>3, <2>4 DEF LocAppend
  <1>11. ASSUME NEW t \in Thread, LocLink(t) PROVE Rest'
    <2>1. req[t] \in AddReqs /\ idx[t] \in Nat
      BY <1>11, <1>req DEF LocLink, AddPc, TypeInv, CallOK
    <2>2. SizeType' /\ OutType' /\ BufType' /\ table' = table
      BY <1>11, <1>parts DEF LocLink, sizes, SizeType, OutType, BufType
    <2>3. CASE /\ loc' \in Linked(loc, oidx[t], idx[t])
               /\ damaged' = (damaged \/ ~ InBuckets(oidx[t]))
               /\ Goto(t, "add_record")
               /\ UNCHANGED <<lock, req, off, walk, i, ret, failed>>
      <3>1. loc \in Seq(Cells) /\ oidx[t] \in Places
        BY <1>parts DEF DiskType, WalkType
      <3>a. loc' \in Seq(Cells)
        BY <2>1, <2>3, <3>1, LinkedType
      <3>3. DiskType'
        BY <2>2, <2>3, <3>a, <1>parts DEF DiskType
      <3>2. CallType' /\ WalkType' /\ CallOK'
        BY <2>1, <2>3, GotoTypes DEF Pc, WritePc, SearchPc
      <3> QED
        BY <2>2, <3>3, <3>2
    <2>4. CASE AddFail(t, "EIO") /\ UNCHANGED <<loc, damaged>>
      BY <2>2, <2>4, <1>fail, <1>parts DEF Results, DiskType
    <2> QED
      BY <1>11, <2>3, <2>4 DEF LocLink
  <1>12. ASSUME NEW t \in Thread, AddRecord(t) PROVE Rest'
    <2> DEFINE rec  == <<req[t].time, req[t].val, idx[t]>>
               full == kcn_buf_put(kb[t], rec)
               fits == kcn_buf_append_ok(kb[t], KCNDB_DB_RECORDSIZ, BUFSIZ)
    <2>1. /\ rec \in Seq(Nat) /\ Len(rec) = KCNDB_DB_RECORDSIZ
          /\ kb[t] \in GoodBufs(Nat, BUFSIZ) /\ BUFSIZ \in Nat
      <3>1. req[t] \in AddReqs /\ idx[t] \in Nat
        BY <1>12, <1>req DEF AddRecord, AddPc, TypeInv, CallOK
      <3> QED
        BY <3>1, <1>parts, ReqAssumption, SizeAssumption
           DEF KCNDB_DB_RECORDSIZ, BufType
    <2>2. /\ OutType' /\ kdb_locsize' = kdb_locsize
          /\ loc' = loc /\ damaged' = damaged
      BY <1>12, <1>parts DEF AddRecord, OutType
    <2>3. ASSUME fits
          PROVE  full \in GoodBufs(Nat, BUFSIZ) /\ full.data \in Seq(Nat)
      <3>1. full \in GoodBufs(Nat, BUFSIZ)
        BY <2>1, <2>3, PutGood
      <3> QED
        BY <3>1 DEF GoodBufs, KcnBufs
    <2> HIDE DEF rec, full
    <2>4. CASE /\ fits
               /\ table' = table \o full.data
               /\ kcndb_db_table_size_increment(KCNDB_DB_RECORDSIZ)
               /\ kb' = [kb EXCEPT ![t] = kcn_buf_reset(0)]
               /\ Reply(t, "ok")
      <3>1. DiskType'
        BY <2>2, <2>3, <2>4, <1>parts, Glued DEF DiskType
      <3>2. SizeType'
        BY <2>2, <2>4, <1>parts
           DEF SizeType, kcndb_db_table_size_increment, KCNDB_DB_RECORDSIZ
      <3>3. BufType'
        BY <2>1, <2>4, <1>parts, ResetGood DEF BufType
      <3> QED
        BY <2>2, <2>4, <3>1, <3>2, <3>3, ReplyTypes DEF Results
    <2>5. CASE /\ fits
               /\ \E q \in 0..Len(full.data) - 1 :
                     /\ table' = table \o SubSeq(full.data, 1, q)
                     /\ kb' = [kb EXCEPT ![t] = kcn_buf_trim_head(full, q)]
               /\ AddFail(t, "EIO") /\ UNCHANGED kdb_tablesize
      <3>1. PICK q \in 0..Len(full.data) - 1 :
                     /\ table' = table \o SubSeq(full.data, 1, q)
                     /\ kb' = [kb EXCEPT ![t] = kcn_buf_trim_head(full, q)]
        BY <2>5
      <3>2. q \in Nat /\ q <= Len(full.data)
        BY <2>3, <2>5
      <3>3. SubSeq(full.data, 1, q) \in Seq(Nat)
        BY <2>3, <2>5, <3>2, PartOfSeq
      <3>4. DiskType'
        BY <2>2, <3>1, <3>3, <1>parts, Glued DEF DiskType
      <3>5. BufType'
        BY <2>1, <2>3, <2>5, <3>1, <3>2, <1>parts, TrimGood DEF BufType
      <3> QED
        BY <2>2, <2>5, <3>4, <3>5, <1>fail, <1>parts DEF Results, SizeType
    <2>6. CASE Abort("append")
      BY <2>6, AbortTypes, <1>suff DEF Asserts
    <2> QED
      BY <1>12, <2>4, <2>5, <2>6 DEF AddRecord, rec, full
  <1>13. ASSUME NEW t \in Thread, NEW q \in Queries, SearchCall(t, q) PROVE Rest'
    <2>1. CallType' /\ WalkType'
      BY <1>13, <1>parts DEF SearchCall, CallType, WalkType, walk, search
    <2>2. CallOK'
      BY <1>13 DEF SearchCall, Goto, TypeInv, TypeOK, CallOK, AddPc, SearchPc, walk
    <2> QED
      BY <1>13, <2>1, <2>2, <1>parts DEF SearchCall, disk, sizes, search,
         DiskType, SizeType, OutType, BufType
  <1>14. ASSUME NEW t \in Thread, SearchLock(t) PROVE Rest'
    <2>1. req[t] \in Queries
      BY <1>14 DEF SearchLock, TypeInv, CallOK
    <2>2. DiskType' /\ SizeType' /\ OutType'
      BY <1>14, <1>parts DEF SearchLock, disk, sizes, DiskType, SizeType, OutType
    <2>b. BufType'
      <3>1. kcn_buf_reset(0) \in GoodBufs(Nat, BUFSIZ)
        BY SizeAssumption, ResetGood
      <3>2. kb' = kb \/ kb' = [kb EXCEPT ![t] = kcn_buf_reset(0)]
        BY <1>14 DEF SearchLock
      <3> QED
        BY <3>1, <3>2, <1>parts DEF BufType
    <2>3. CASE /\ Goto(t, "search_scan")
               /\ UNCHANGED <<req, off, walk, i, ret, failed>>
      BY <2>1, <2>2, <2>b, <2>3, GotoTypes DEF AddPc, Pc, SearchPc
    <2>4. CASE Reply(t, "EAGAIN")
      BY <2>2, <2>b, <2>4, ReplyTypes DEF Results
    <2> QED
      BY <1>14, <2>3, <2>4 DEF SearchLock
  <1>15. ASSUME NEW t \in Thread, SearchScan(t) PROVE Rest'
    <2>1. req[t] \in Queries
      BY <1>15, <1>req DEF SearchScan, SearchPc
    <2>2. DiskType' /\ SizeType'
      BY <1>15, <1>parts DEF SearchScan, disk, sizes, DiskType, SizeType
    <2>3. kb[t] \in GoodBufs(Nat, BUFSIZ) /\ off[t] \in Nat /\ table \in Seq(Nat)
      BY <1>parts DEF BufType, CallType, DiskType
    <2>abort. CASE Abort("read")
      BY <2>abort, AbortTypes, <1>suff DEF Asserts
    <2>no. SUFFICES ASSUME ~ Abort("read") PROVE Rest'
      BY <2>abort
    <2>4. PICK r \in kcndb_db_record_read(kb[t], off[t]) :
            /\ kb' = [kb EXCEPT ![t] = r.kb]
            /\ \/ /\ Goto(t, "search_end")
                  /\ UNCHANGED <<lock, req, off, walk, search, ret, failed>>
               \/ r.rc = "ok" /\ Passed(t, r) /\ UNCHANGED out
               \/ /\ r.rc = "ok" /\ Passed(t, r)
                  /\ out' = [out EXCEPT ![t] = Append(@, LocAt(r.locidx))]
               \/ /\ \E e \in {"EIO", "ENXIO", "ESHUTDOWN", "ENOMEM"} :
                        SearchFail(t, e)
                  /\ UNCHANGED out
      <3>1. \A o : LookupResults(o) \ {"ok", "abort"}
                        \subseteq {"EIO", "ENXIO", "ESHUTDOWN", "ENOMEM"}
        BY DEF LookupResults
      <3> QED
        BY <1>15, <2>no, <3>1 DEF SearchScan
    <2>5. /\ r.kb \in GoodBufs(Nat, BUFSIZ) /\ r.off \in Nat
          /\ r.rc = "ok" => r.locidx \in Nat
      BY <2>3, RecordReadGood
    <2>6. BufType'
      BY <2>4, <2>5, <1>parts DEF BufType
    <2>7. ASSUME Passed(t, r)
          PROVE  CallType' /\ WalkType' /\ CallOK'
      <3>1. CallType' /\ WalkType'
        BY <2>5, <2>7, <1>parts DEF Passed, CallType, WalkType, walk
      <3>2. CallOK'
        BY <2>7, <1>parts DEF Passed, CallOK, walk
      <3> QED
        BY <3>1, <3>2
    <2>8. CASE /\ Goto(t, "search_end")
               /\ UNCHANGED <<lock, req, off, walk, search, ret, failed>>
      <3>1. CallType' /\ WalkType' /\ CallOK'
        BY <2>1, <2>8, GotoTypes DEF AddPc, Pc, SearchPc, search
      <3> QED
        BY <2>2, <2>6, <2>8, <3>1, <1>parts DEF OutType, search
    <2>9. CASE r.rc = "ok" /\ Passed(t, r) /\ UNCHANGED out
      BY <2>2, <2>6, <2>7, <2>9, <1>parts DEF OutType
    <2>10. CASE /\ r.rc = "ok" /\ Passed(t, r)
                /\ out' = [out EXCEPT ![t] = Append(@, LocAt(r.locidx))]
      <3>1. LocAt(r.locidx) \in Loc \cup {Garbage}
        BY <2>5, <2>10, LocAtType
      <3>2. OutType'
        BY <2>10, <3>1, <1>parts DEF OutType
      <3> QED
        BY <2>2, <2>6, <2>7, <2>10, <3>2
    <2>11. CASE /\ \E e \in {"EIO", "ENXIO", "ESHUTDOWN", "ENOMEM"} :
                      SearchFail(t, e)
                /\ UNCHANGED out
      <3>1. CallType' /\ WalkType' /\ CallOK'
        BY <2>11, ReplyTypes DEF SearchFail, Results
      <3> QED
        BY <2>2, <2>6, <2>11, <3>1, <1>parts DEF OutType
    <2> QED
      BY <2>4, <2>8, <2>9, <2>10, <2>11
  <1>16. ASSUME NEW t \in Thread, SearchEnd(t) PROVE Rest'
    <2>1. DiskType' /\ SizeType' /\ OutType' /\ BufType'
      BY <1>16, <1>parts
         DEF SearchEnd, disk, sizes, DiskType, SizeType, OutType, BufType
    <2>2. Reply(t, "ESRCH") \/ Reply(t, "ok")
      BY <1>16 DEF SearchEnd, SearchFail
    <2> QED
      BY <2>1, <2>2, ReplyTypes DEF Results
  <1>17. ASSUME NEW t \in Thread, Return(t) PROVE Rest'
    <2>1. CallType' /\ WalkType' /\ OutType'
      BY <1>17, <1>parts DEF Return, CallType, WalkType, OutType, walk, Results
    <2>2. CallOK'
      BY <1>17 DEF Return, Goto, TypeInv, TypeOK, CallOK, AddPc, SearchPc, walk
    <2> QED
      BY <1>17, <2>1, <2>2, <1>parts DEF Return, disk, sizes,
         DiskType, SizeType, BufType
  <1>18. CASE Boot
    <2>1. NoPlace \in Places /\ kcn_buf_reset(0) \in GoodBufs(Nat, BUFSIZ)
      BY SizeAssumption, ResetGood DEF NoPlace, Places
    <2>2. CallType' /\ WalkType' /\ OutType' /\ BufType'
      BY <1>18, <2>1 DEF Boot, CallType, WalkType, OutType, BufType, Results
    <2>3. DiskType' /\ SizeType'
      BY <1>18, <1>parts DEF Boot, disk, DiskType, SizeType
    <2>4. CallOK'
      BY <1>18 DEF Boot, CallOK, AddPc, SearchPc
    <2> QED
      BY <2>2, <2>3, <2>4, <1>suff
  <1> QED
    BY <1>suff, <1>1, <1>2, <1>3, <1>4, <1>5, <1>6, <1>7, <1>8, <1>9, <1>10,
       <1>11, <1>12, <1>13, <1>14, <1>15, <1>16, <1>17, <1>18
       DEF Next, Step, Kill, Restart

LEMMA TypeInit ==
    ASSUME Init
    PROVE  TypeInv /\ LockInv
  <1>1. NoPlace \in Places /\ kcn_buf_reset(0) \in GoodBufs(Nat, BUFSIZ)
    BY SizeAssumption, ResetGood DEF NoPlace, Places
  <1>2. LockInv
    BY PcKinds, ThreadAssumption DEF Init, LockInv, LockType, LockSafe
  <1>3. DiskType /\ SizeType
    <2>1. damaged \in BOOLEAN
      BY Zenon DEF Init
    <2>2. table = << >> /\ loc = << >> /\ SizeType
      BY DEF Init, SizeType
    <2> QED
      BY <2>1, <2>2 DEF DiskType
  <1>6. LockType /\ WalkType
    BY <1>1, <1>2 DEF Init, LockInv, WalkType
  <1>5. OutType /\ BufType /\ CallType
    BY <1>1 DEF Init, OutType, BufType, CallType, Results
  <1>4. CallOK
    BY DEF Init, CallOK, AddPc, SearchPc
  <1> QED
    BY <1>2, <1>3, <1>4, <1>5, <1>6, TypeParts DEF TypeInv

(* Whatever the size of the buffer, the records that were added before and *)
(* the reads and writes that failed, every buffer keeps within the bounds  *)
(* kcn_buf.c asserts and every value its type: only the assertions named   *)
(* in Asserts can fail.                                                    *)
THEOREM TypesAreKept == Spec => []TypeOK
  <1>1. Init => TypeInv /\ LockInv
    BY TypeInit
  <1>2. (TypeInv /\ LockInv) /\ [Next]_vars => (TypeInv /\ LockInv)'
    BY TypeStep, LockStep
  <1>3. TypeInv => TypeOK
    BY DEF TypeInv
  <1> QED
    BY <1>1, <1>2, <1>3, PTL DEF Spec
=============================================================================
