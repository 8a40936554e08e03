------------------------------- MODULE KcndbDb -------------------------------
(***************************************************************************)
(* One table of the KCN database (kcndbd/kcndb_db.c over kcndb_file.c) and *)
(* the server threads that use it.  The table is two files: the records    *)
(* and the locators they refer to.  Each thread has the files open with    *)
(* descriptors and buffers of its own; the sizes of the files and the      *)
(* read-write lock are shared by the threads (struct kcndb_db_base).       *)
(*                                                                         *)
(* Units.  The table file is a sequence of 64-bit words, three to a        *)
(* record: time, value, offset of the locator.  The locator file is a      *)
(* sequence of cells: HASHSIZ buckets, then for each entry a cell for its  *)
(* length and characters and a cell for the offset of the next entry.      *)
(* Offsets count from 0, as in the code.                                   *)
(***************************************************************************)
EXTENDS KcnBuf, KcnEq, FiniteSets

CONSTANTS
    Thread,       \* the threads of the server
    NoThread,     \* nobody holds the lock for writing
    Loc,          \* locators
    HASHSIZ,      \* KCNDB_DB_LOC_HASHSIZ
    Hash,         \* locator -> kcn_str_hash, its bucket
    Slot,         \* locator -> the place 2 + loclen bytes into the file: the
                  \* bucket it is in, HASHSIZ when it is behind the buckets,
                  \* and whether it is where a bucket starts
    BUFSIZ,       \* KCNDB_FILE_BUFSIZ in words
    AddReqs,      \* records to add, as [time, val, loc]
    Queries,      \* queries, as [op, val, start, end, max]
    NoReq,        \* no request
    Garbage,      \* an offset or a locator that is none
    Faults,       \* "kill", "open", "read", "write", "response": what may fail
    PreferWriter, \* whether a waiting writer keeps new readers out
    MaxReaders,   \* how often the lock can be held for reading
    MaxRecords,   \* no add is requested when there are as many records
    MaxLocCells   \* ... or when the locator file has as many cells

(* Three words: time, value, offset of the locator.                        *)
KCNDB_DB_RECORDSIZ == 3

ASSUME ThreadAssumption ==
    Thread # {} /\ IsFiniteSet(Thread) /\ NoThread \notin Thread

ASSUME SizeAssumption ==
    /\ HASHSIZ \in Nat \ {0}
    /\ BUFSIZ \in Nat /\ BUFSIZ >= KCNDB_DB_RECORDSIZ
    /\ MaxReaders \in Nat \ {0} /\ MaxRecords \in Nat /\ MaxLocCells \in Nat

ASSUME LocAssumption ==
    /\ Garbage \notin Loc /\ Garbage \notin Nat
    /\ Loc \cap Nat = {}
    /\ Hash \in [Loc -> 0..HASHSIZ-1]
    /\ Slot \in [Loc -> [bucket : 0..HASHSIZ, whole : BOOLEAN]]

ASSUME ReqAssumption ==
    /\ AddReqs \subseteq [time : Nat, val : Nat, loc : Loc]
    /\ Queries \subseteq [op : KCN_EQ_OP, val : Nat, start : Nat,
                          end : Nat \cup {KCN_TIME_NOW}, max : Nat]
    /\ NoReq \notin AddReqs \cup Queries
    /\ AddReqs \cap Queries = {}

ASSUME EnvAssumption ==
    /\ Faults \subseteq {"kill", "open", "read", "write", "response"}
    /\ PreferWriter \in BOOLEAN

VARIABLES
    table,         \* the words of the record file
    loc,           \* the cells of the locator file
    damaged,       \* whether a link may have been written over an entry, or
                   \* a record may refer to a place where there is none
    kdb_tablesize, \* size of the record file, as the process knows it
    kdb_locsize,   \* size of the locator file, as the process knows it
    writer,        \* who holds kdb_lock for writing
    readers,       \* thread -> how often it holds kdb_lock for reading
    pc,            \* thread -> where it is
    req,           \* thread -> the request it serves
    kb,            \* thread -> the buffer of its kdt_table
    off,           \* thread -> the offset of its kdt_table's descriptor
    idx,           \* thread -> idx of kcndb_db_loc_add
    oidx,          \* thread -> the place of the link that idx was read from
    i,             \* thread -> i of kcndb_db_search, the records read
    out,           \* thread -> the locators given to the response callback
    ret,           \* thread -> the result of the call, "none" while it runs
    failed         \* the assertion that aborted the process, or "none"

disk   == <<table, loc, damaged>>
sizes  == <<kdb_tablesize, kdb_locsize>>
lock   == <<writer, readers>>
walk   == <<idx, oidx>>
search == <<i, out>>
vars   == <<disk, sizes, lock, pc, req, kb, off, walk, search, ret, failed>>

WritePc  == {"open_init", "add_last", "loc_bucket", "loc_walk", "loc_append",
             "loc_link", "add_record"}
SearchPc == {"search_scan", "search_end"}
WaitWrPc == {"open_lock", "add_lock"}
Pc == {"closed", "dead", "idle", "search_lock", "reply"}
        \cup WaitWrPc \cup WritePc \cup SearchPc

Asserts == {"append", "get", "forward", "read"}
AddPc == {"add_lock", "add_last", "loc_bucket", "loc_walk", "loc_append",
          "loc_link", "add_record"}
Results == {"none", "ok", "ERANGE", "ESHUTDOWN", "EIO", "ESRCH", "ENXIO",
            "EAGAIN", "ENOMEM", "EINVAL"}

Places == [bucket : 0..HASHSIZ, whole : BOOLEAN]
NoPlace == [bucket |-> 0, whole |-> TRUE]
Anywhere == [bucket |-> HASHSIZ, whole |-> FALSE]

-----------------------------------------------------------------------------
(* The files are empty, and the process starts with empty bases and with   *)
(* no table open.                                                          *)

Init ==
    /\ table = << >> /\ loc = << >> /\ damaged = FALSE
    /\ kdb_tablesize = 0 /\ kdb_locsize = 0
    /\ writer = NoThread /\ readers = [t \in Thread |-> 0]
    /\ pc = [t \in Thread |-> "closed"]
    /\ req = [t \in Thread |-> NoReq]
    /\ kb = [t \in Thread |-> kcn_buf_reset(0)]
    /\ off = [t \in Thread |-> 0]
    /\ idx = [t \in Thread |-> 0] /\ oidx = [t \in Thread |-> NoPlace]
    /\ i = [t \in Thread |-> 0] /\ out = [t \in Thread |-> << >>]
    /\ ret = [t \in Thread |-> "none"]
    /\ failed = "none"

(* An assertion fails: the process is gone, and with it every thread.      *)
Abort(a) ==
    /\ failed' = a
    /\ UNCHANGED <<disk, sizes, lock, pc, req, kb, off, walk, search, ret>>

At(t, p) == failed = "none" /\ pc[t] = p

Goto(t, p) == pc' = [pc EXCEPT ![t] = p]

(* The call ends with a result; what it kept in local variables is gone.   *)
Reply(t, r) ==
    /\ Goto(t, "reply")
    /\ ret' = [ret EXCEPT ![t] = r]
    /\ off' = [off EXCEPT ![t] = 0]
    /\ idx' = [idx EXCEPT ![t] = 0] /\ oidx' = [oidx EXCEPT ![t] = NoPlace]
    /\ i' = [i EXCEPT ![t] = 0]
    /\ UNCHANGED <<req, failed>>

-----------------------------------------------------------------------------
(* pthread_rwlock: one writer or any number of readers.  A reader may take *)
(* the lock again; a thread that holds it for reading and asks for writing *)
(* waits for itself.                                                       *)

WrFree == writer = NoThread /\ \A u \in Thread : readers[u] = 0

RdFree ==
    /\ writer = NoThread
    /\ PreferWriter => \A u \in Thread : pc[u] \notin WaitWrPc

wrlock(t) == WrFree /\ writer' = t /\ UNCHANGED readers

(* EAGAIN of pthread_rwlock_rdlock: the threads together hold the lock as  *)
(* often as it can be held.                                                *)
RdExhausted ==
    Cardinality(UNION {{u} \X (1..readers[u]) : u \in Thread}) >= MaxReaders

rdlock(t) ==
    /\ RdFree /\ readers' = [readers EXCEPT ![t] = @ + 1]
    /\ UNCHANGED writer

wrunlock(t) == writer' = NoThread /\ UNCHANGED readers

rdunlock(t) == readers' = [readers EXCEPT ![t] = @ - 1] /\ UNCHANGED writer

-----------------------------------------------------------------------------
(* The sizes of the files as the process knows them.                       *)

(* Mutant of the next: the size is not kept.                               *)
kcndb_db_loc_size_forgotten(size) == UNCHANGED kdb_locsize

kcndb_db_loc_size_increment(size) == kdb_locsize' = kdb_locsize + size

kcndb_db_table_size_increment(size) == kdb_tablesize' = kdb_tablesize + size

-----------------------------------------------------------------------------
(* kcndb_file: reading the table through a thread's buffer.                *)

(* A read(2) that fails leaves the buffer as it was given to it.           *)
ReadFailures(b, o) ==
    IF "read" \in Faults
    THEN {[kb |-> kcn_buf_read_into(b, BUFSIZ), off |-> o, rc |-> "EIO"]}
    ELSE {}

(* One turn of the loop of kcndb_file_ensure: what it may lead to.  A read *)
(* of nothing is the end of the file.                                      *)
EnsureStep(s, len) ==
    IF s.rc # "ok" \/ kcn_buf_len(s.kb) >= len
    THEN {s}
    ELSE LET n == kcn_buf_read_len(s.kb, BUFSIZ, table, s.off)
         IN  {[kb  |-> kcn_buf_read(s.kb, BUFSIZ, table, s.off),
               off |-> s.off + n,
               rc  |-> IF n = 0 THEN "ESHUTDOWN" ELSE "ok"]}
             \cup ReadFailures(s.kb, s.off)

Turn(states, len) == UNION {EnsureStep(s, len) : s \in states}

(* The loop.  The first read may find little room and the second fills the *)
(* realigned buffer, so it ends in three turns: a third only meets the end *)
(* of the file.                                                            *)
kcndb_file_ensure(b, o, len) ==
    Turn(Turn(Turn({[kb |-> b, off |-> o, rc |-> "ok"]}, len), len), len)

(* The three words at the cursor, which then becomes the head of the       *)
(* buffer, unless the file or the buffer does not have them.               *)
Decoded(e) ==
    LET f == kcn_buf_forward(e.kb, KCNDB_DB_RECORDSIZ)
    IN  IF e.rc # "ok"
        THEN e
        ELSE IF ~ kcn_buf_get_ok(e.kb, KCNDB_DB_RECORDSIZ)
        THEN [e EXCEPT !.rc = "abort"]
        ELSE [rc     |-> "ok",
              time   |-> kcn_buf_get(e.kb, 1),
              val    |-> kcn_buf_get(e.kb, 2),
              locidx |-> kcn_buf_get(e.kb, 3),
              kb     |-> kcn_buf_trim_head(f, kcn_buf_headingdata(f)),
              off    |-> e.off]

kcndb_db_record_read(b, o) ==
    {Decoded(e) : e \in kcndb_file_ensure(b, o, KCNDB_DB_RECORDSIZ)}

-----------------------------------------------------------------------------
(* Mutant of the next: the record file is truncated when it is opened.     *)
TableOpenTruncates(t) ==
    /\ At(t, "closed") /\ Goto(t, "open_lock")
    /\ table' = << >>
    /\ UNCHANGED <<loc, damaged, sizes, lock, req, kb, off, walk, search, ret,
                   failed>>

(* kcndb_db_table_open, one table of kcndb_db_new.                         *)

TableOpen(t) ==
    /\ At(t, "closed")
    /\ \/ Goto(t, "open_lock")
       \/ "open" \in Faults /\ Goto(t, "dead")
    /\ UNCHANGED <<disk, sizes, lock, req, kb, off, walk, search, ret, failed>>

OpenLock(t) ==
    /\ At(t, "open_lock")
    /\ wrlock(t)
    /\ Goto(t, "open_init")
    /\ UNCHANGED <<disk, sizes, req, kb, off, walk, search, ret, failed>>

(* kcndb_db_init: the first thread takes the sizes from the files, and     *)
(* writes the index table when the locator file is empty.                  *)
OpenInit(t) ==
    LET tsize == IF kdb_tablesize = 0 THEN Len(table) ELSE kdb_tablesize
        lsize == IF kdb_locsize = 0 THEN Len(loc) ELSE kdb_locsize
        nulls(n) == [k \in 1..n |-> 0]
    IN  /\ At(t, "open_init")
        /\ kdb_tablesize' = tsize
        /\ \/ /\ lsize > 0
              /\ kdb_locsize' = lsize
              /\ Goto(t, "idle") /\ UNCHANGED loc
           \/ /\ lsize = 0
              /\ loc' = loc \o nulls(HASHSIZ)
              /\ kdb_locsize' = HASHSIZ
              /\ Goto(t, "idle")
           \/ /\ lsize = 0 /\ "write" \in Faults
              /\ \E p \in 0..HASHSIZ-1 : loc' = loc \o nulls(p)
              /\ kdb_locsize' = lsize
              /\ Goto(t, "dead")
        /\ wrunlock(t)
        /\ UNCHANGED <<table, damaged, req, kb, off, walk, search, ret, failed>>

-----------------------------------------------------------------------------
(* kcndb_db_record_add.                                                    *)

Adding == {t \in Thread : req[t] \in AddReqs /\ ret[t] = "none"}

(* A message to add a record has been decoded: kcndb_db_record_add is      *)
(* called, with a time that was fixed before the lock is asked for.        *)
AddCall(t, r) ==
    /\ At(t, "idle")
    /\ Len(table) + KCNDB_DB_RECORDSIZ * Cardinality(Adding)
            < KCNDB_DB_RECORDSIZ * MaxRecords
    /\ Len(loc) < MaxLocCells
    /\ req' = [req EXCEPT ![t] = r]
    /\ Goto(t, "add_lock")
    /\ UNCHANGED <<disk, sizes, lock, kb, off, walk, search, ret, failed>>

(* Mutant of the next: records are added under a lock for reading.         *)
AddLockShared(t) ==
    /\ At(t, "add_lock")
    /\ rdlock(t)
    /\ Goto(t, "add_last")
    /\ UNCHANGED <<disk, sizes, req, kb, off, walk, search, ret, failed>>

AddLock(t) ==
    /\ At(t, "add_lock")
    /\ wrlock(t)
    /\ Goto(t, "add_last")
    /\ UNCHANGED <<disk, sizes, req, kb, off, walk, search, ret, failed>>

(* What fails under the lock is unlocked and returned.                     *)
AddFail(t, r) == wrunlock(t) /\ Reply(t, r)

(* Mutant of the next: the comparison is the other way round.              *)
TooYoung(last, r) == last.time < r.time

(* ERANGE: the last record is younger than the one to add.                 *)
TooOld(last, r) == last.time > r.time

(* kcndb_db_record_read_last and the comparison with its time.  The buffer *)
(* is not emptied first.                                                   *)
RecordReadLast(t) ==
    /\ At(t, "add_last")
    /\ \/ /\ kdb_tablesize < KCNDB_DB_RECORDSIZ
          /\ Goto(t, "loc_bucket")
          /\ UNCHANGED <<lock, req, kb, off, walk, i, ret, failed>>
       \/ /\ kdb_tablesize >= KCNDB_DB_RECORDSIZ
          /\ \E r \in kcndb_db_record_read(kb[t],
                                           kdb_tablesize - KCNDB_DB_RECORDSIZ) :
                \/ /\ r.rc = "ok" /\ ~ TooOld(r, req[t])
                   /\ kb' = [kb EXCEPT ![t] = r.kb]
                   /\ Goto(t, "loc_bucket")
                   /\ UNCHANGED <<lock, req, off, walk, i, ret, failed>>
                \/ /\ r.rc = "ok" /\ TooOld(r, req[t])
                   /\ kb' = [kb EXCEPT ![t] = r.kb]
                   /\ AddFail(t, "ERANGE")
                \/ /\ r.rc \in {"ESHUTDOWN", "EIO"}
                   /\ kb' = [kb EXCEPT ![t] = r.kb]
                   /\ AddFail(t, r.rc)
                \/ /\ r.rc = "abort"
                   /\ Abort("get")
    /\ UNCHANGED <<disk, sizes, out>>

(* kcndb_db_loc_add.  A cell of characters read as an offset is garbage.   *)
OffsetAt(o) == IF loc[o + 1] \in Loc THEN Garbage ELSE loc[o + 1]

(* The walk goes on to the entry at an offset, or ends where it is 0.      *)
Follow(t, o, place) ==
    /\ idx' = [idx EXCEPT ![t] = o]
    /\ oidx' = [oidx EXCEPT ![t] = place]
    /\ Goto(t, IF o = 0 THEN "loc_append" ELSE "loc_walk")
    /\ UNCHANGED <<lock, req, off, i, ret, failed>>

LocReadFailed(t) == "read" \in Faults /\ AddFail(t, "EIO")

(* The bucket is read from the head of the file.  Only a first bucket is   *)
(* ensured; the others are asserted to have been read with it, those       *)
(* before it when the cursor is moved and the bucket when it is got.       *)
LocBucket(t) ==
    LET h == Hash[req[t].loc]
    IN  /\ At(t, "loc_bucket")
        /\ \/ /\ h < Len(loc)
              /\ Follow(t, OffsetAt(h), [bucket |-> h, whole |-> TRUE])
           \/ /\ h >= Len(loc)
              /\ Abort(IF h > Len(loc) THEN "forward" ELSE "get")
           \/ LocReadFailed(t)
        /\ UNCHANGED <<disk, sizes, kb, out>>

(* An entry starts at this offset.                                         *)
EntryAt(o) == o \in 0..Len(loc) - 2 /\ loc[o + 1] \in Loc

Lost(t) == pc[t] = "loc_walk" /\ ~ EntryAt(idx[t])

(* Where no entry starts, any two bytes are taken for a length: seek may   *)
(* fail, or the file end; what is to be read may be more than the buffer   *)
(* holds, or end within the link; the bytes may spell the locator; or the  *)
(* walk goes on by some link, to an entry, to nowhere or to its end.       *)
LocMisread(t) ==
    \/ /\ \/ \E r \in {"EINVAL", "ESHUTDOWN"} : AddFail(t, r)
          \/ \E a \in {"read", "get"} : Abort(a)
          \/ \E o \in {e \in 1..Len(loc) : EntryAt(e)} \cup {0, Garbage} :
                Follow(t, o, Anywhere)
       /\ UNCHANGED damaged
    \/ /\ \E o \in 0..Len(loc) - 1 : ~ EntryAt(o) /\ idx' = [idx EXCEPT ![t] = o]
       /\ Goto(t, "add_record")
       /\ damaged' = TRUE
       /\ UNCHANGED <<lock, req, off, oidx, i, ret, failed>>

(* One entry of the chain: it is the locator, or its link is followed.     *)
LocWalk(t) ==
    LET entry == loc[idx[t] + 1]
    IN  /\ At(t, "loc_walk")
        /\ \/ /\ EntryAt(idx[t]) /\ entry = req[t].loc
              /\ Goto(t, "add_record")
              /\ UNCHANGED <<damaged, lock, req, off, walk, i, ret, failed>>
           \/ /\ EntryAt(idx[t]) /\ entry # req[t].loc
              /\ Follow(t, OffsetAt(idx[t] + 1), Slot[entry])
              /\ UNCHANGED damaged
           \/ ~ EntryAt(idx[t]) /\ LocMisread(t)
           \/ LocReadFailed(t) /\ UNCHANGED damaged
        /\ UNCHANGED <<table, loc, sizes, kb, out>>

(* Mutants of the next: the offset of the entry is taken after the size    *)
(* has grown; the entry is linked to itself.                               *)
LocAppendGrownFirst(t) ==
    LET entry == <<req[t].loc, 0>>
    IN  /\ At(t, "loc_append")
        /\ loc' = loc \o entry
        /\ kcndb_db_loc_size_increment(Len(entry))
        /\ idx' = [idx EXCEPT ![t] = kdb_locsize + Len(entry)]
        /\ Goto(t, "loc_link")
        /\ UNCHANGED <<table, damaged, kdb_tablesize, lock, req, kb, off, oidx,
                       search, ret, failed>>
LocAppendLoop(t) ==
    LET entry == <<req[t].loc, kdb_locsize>>
    IN  /\ At(t, "loc_append")
        /\ loc' = loc \o entry
        /\ kcndb_db_loc_size_increment(Len(entry))
        /\ idx' = [idx EXCEPT ![t] = kdb_locsize]
        /\ Goto(t, "loc_link")
        /\ UNCHANGED <<table, damaged, kdb_tablesize, lock, req, kb, off, oidx,
                       search, ret, failed>>

(* Not found: a new entry at the end of the file.  Its offset is the size  *)
(* the process knows.  A write that fails leaves what it has written.      *)
LocAppend(t) ==
    LET entry == <<req[t].loc, 0>>
    IN  /\ At(t, "loc_append")
        /\ \/ /\ loc' = loc \o entry
              /\ kcndb_db_loc_size_increment(Len(entry))
              /\ idx' = [idx EXCEPT ![t] = kdb_locsize]
              /\ Goto(t, "loc_link")
              /\ UNCHANGED <<lock, req, off, oidx, i, ret, failed>>
           \/ /\ "write" \in Faults
              /\ \E p \in 0..Len(entry) - 1 : loc' = loc \o SubSeq(entry, 1, p)
              /\ AddFail(t, "EIO") /\ UNCHANGED kdb_locsize
        /\ UNCHANGED <<table, damaged, kdb_tablesize, kb, out>>

(* A cell written at an offset, past the end of a short file if need be.   *)
WriteAt(f, o, v) ==
    [k \in 1..(IF o < Len(f) THEN Len(f) ELSE o + 1) |->
        IF k = o + 1 THEN v ELSE IF k <= Len(f) THEN f[k] ELSE 0]

(* Some of these cells have lost what they held: they are 0 or garbage.    *)
Overwritten(f, cells) ==
    UNION {{[k \in DOMAIN f |-> IF k - 1 \in hit THEN v[k - 1] ELSE f[k]] :
                v \in [hit -> {0, Garbage}]} : hit \in SUBSET cells}

InBuckets(place) == place.bucket + (IF place.whole THEN 0 ELSE 1) < HASHSIZ

(* The link to the new entry.  After a chain that is not empty idx is 0,   *)
(* so the link is not written to the last entry of the chain but as many   *)
(* bytes into the file: over a bucket; over the end of one, which keeps    *)
(* its high bytes, and the start of the next, which keeps its low bytes;   *)
(* or over entries, when the last entry of the chain is long or was none.  *)
(* Its eight bytes touch three cells at most.                              *)
Linked(f, place, o) ==
    IF ~ InBuckets(place)
    THEN UNION {Overwritten(f, k..k+2) : k \in 0..Len(f) - 1}
    ELSE IF place.whole
    THEN {WriteAt(f, place.bucket, o)}
    ELSE Overwritten(f, {place.bucket, place.bucket + 1})

LocLink(t) ==
    /\ At(t, "loc_link")
    /\ \/ /\ loc' \in Linked(loc, oidx[t], idx[t])
          /\ damaged' = (damaged \/ ~ InBuckets(oidx[t]))
          /\ Goto(t, "add_record")
          /\ UNCHANGED <<lock, req, off, walk, i, ret, failed>>
       \/ /\ "write" \in Faults
          /\ AddFail(t, "EIO") /\ UNCHANGED <<loc, damaged>>
    /\ UNCHANGED <<table, sizes, kb, out>>

(* The record is put at the cursor and everything the buffer holds is      *)
(* appended; the size known to the process grows by one record.            *)
AddRecord(t) ==
    LET rec  == <<req[t].time, req[t].val, idx[t]>>
        full == kcn_buf_put(kb[t], rec)
        fits == kcn_buf_append_ok(kb[t], KCNDB_DB_RECORDSIZ, BUFSIZ)
    IN  /\ At(t, "add_record")
        /\ \/ /\ fits
              /\ table' = table \o full.data
              /\ kcndb_db_table_size_increment(KCNDB_DB_RECORDSIZ)
              /\ kb' = [kb EXCEPT ![t] = kcn_buf_reset(0)]
              /\ wrunlock(t) /\ Reply(t, "ok")
           \/ /\ fits /\ "write" \in Faults
              /\ \E p \in 0..Len(full.data) - 1 :
                    /\ table' = table \o SubSeq(full.data, 1, p)
                    /\ kb' = [kb EXCEPT ![t] = kcn_buf_trim_head(full, p)]
              /\ AddFail(t, "EIO") /\ UNCHANGED kdb_tablesize
           \/ /\ ~ fits
              /\ Abort("append")
        /\ UNCHANGED <<loc, damaged, kdb_locsize, out>>

-----------------------------------------------------------------------------
(* kcndb_db_search.                                                        *)

SearchCall(t, q) ==
    /\ At(t, "idle")
    /\ req' = [req EXCEPT ![t] = q]
    /\ Goto(t, "search_lock")
    /\ UNCHANGED <<disk, sizes, lock, kb, off, walk, search, ret, failed>>

(* Mutant of the next: the buffer keeps what earlier calls left in it.     *)
SearchLockNoReset(t) ==
    /\ At(t, "search_lock")
    /\ rdlock(t)
    /\ Goto(t, "search_scan")
    /\ UNCHANGED <<disk, sizes, req, kb, off, walk, search, ret, failed>>

SearchLock(t) ==
    /\ At(t, "search_lock")
    /\ \/ /\ ~ RdExhausted /\ rdlock(t)
          /\ kb' = [kb EXCEPT ![t] = kcn_buf_reset(0)]
          /\ Goto(t, "search_scan")
          /\ UNCHANGED <<req, off, walk, i, ret, failed>>
       \/ /\ RdExhausted
          /\ Reply(t, "EAGAIN")
          /\ UNCHANGED <<lock, kb>>
    /\ UNCHANGED <<disk, sizes, out>>

SearchFail(t, r) == rdunlock(t) /\ Reply(t, r)

(* The locator at an offset, where there is one.                           *)
LocAt(o) == IF o < Len(loc) /\ loc[o + 1] \in Loc THEN loc[o + 1] ELSE Garbage

(* kcndb_db_loc_lookup of an offset: how it may end.  Where no locator is, *)
(* the length may be any, and more than the file or the buffer holds.      *)
LookupResults(o) ==
    IF kdb_locsize < o
    THEN {"ENXIO"}
    ELSE {r \in {"ok"} : o < Len(loc)}
            \cup {r \in {"ESHUTDOWN"} : LocAt(o) = Garbage}
            \cup {r \in {"abort"} : o < Len(loc) /\ LocAt(o) = Garbage}
            \cup {r \in {"EIO"} : "read" \in Faults}

(* Mutant of the next: one more.                                           *)
WantsOneMore(t) == Len(out[t]) <= req[t].max

(* n < maxnlocs.                                                           *)
WantsMore(t) == Len(out[t]) < req[t].max

Passed(t, r) ==
    /\ off' = [off EXCEPT ![t] = r.off]
    /\ i' = [i EXCEPT ![t] = @ + 1]
    /\ UNCHANGED <<lock, pc, req, walk, ret, failed>>

(* One turn of the loop: a record is read; when it matches, its locator is *)
(* looked up and given to the response callback.                           *)
SearchScan(t) ==
    /\ At(t, "search_scan")
    /\ WantsMore(t)
    /\ \E r \in kcndb_db_record_read(kb[t], off[t]) :
          LET match == r.rc = "ok" /\ kcn_eq_match(r, req[t])
          IN  \/ /\ kb' = [kb EXCEPT ![t] = r.kb]
                 /\ \/ /\ r.rc = "ESHUTDOWN"
                       /\ Goto(t, "search_end")
                       /\ UNCHANGED <<lock, req, off, walk, search, ret, failed>>
                    \/ /\ r.rc = "EIO"
                       /\ SearchFail(t, "EIO")
                       /\ UNCHANGED out
                    \/ /\ r.rc = "ok" /\ ~ match
                       /\ Passed(t, r) /\ UNCHANGED out
                    \/ /\ match /\ "ok" \in LookupResults(r.locidx)
                       /\ Passed(t, r)
                       /\ out' = [out EXCEPT ![t] = Append(@, LocAt(r.locidx))]
                    \/ /\ match
                       /\ \E e \in LookupResults(r.locidx) \ {"ok", "abort"} :
                             SearchFail(t, e)
                       /\ UNCHANGED out
                    \/ /\ match /\ "ok" \in LookupResults(r.locidx)
                       /\ "response" \in Faults
                       /\ SearchFail(t, "ENOMEM")
                       /\ UNCHANGED out
              \/ /\ match /\ "abort" \in LookupResults(r.locidx)
                 /\ Abort("read") /\ UNCHANGED out
    /\ UNCHANGED <<disk, sizes>>

(* The loop is over.  A search that found something returns with the lock. *)
SearchEnd(t) ==
    /\ \/ At(t, "search_end")
       \/ At(t, "search_scan") /\ ~ WantsMore(t)
    /\ \/ out[t] = << >> /\ SearchFail(t, "ESRCH")
       \/ out[t] # << >> /\ Reply(t, "ok") /\ UNCHANGED lock
    /\ UNCHANGED <<disk, sizes, kb, out>>

-----------------------------------------------------------------------------
(* The call returns to the server, which answers the client.               *)
Return(t) ==
    /\ At(t, "reply")
    /\ Goto(t, "idle")
    /\ req' = [req EXCEPT ![t] = NoReq]
    /\ out' = [out EXCEPT ![t] = << >>]
    /\ ret' = [ret EXCEPT ![t] = "none"]
    /\ UNCHANGED <<disk, sizes, lock, kb, off, walk, i, failed>>

(* A new process finds the files and has the memory it starts with.        *)
Boot ==
    /\ kdb_tablesize' = 0 /\ kdb_locsize' = 0
    /\ writer' = NoThread /\ readers' = [t \in Thread |-> 0]
    /\ pc' = [t \in Thread |-> "closed"]
    /\ req' = [t \in Thread |-> NoReq]
    /\ kb' = [t \in Thread |-> kcn_buf_reset(0)]
    /\ off' = [t \in Thread |-> 0]
    /\ idx' = [t \in Thread |-> 0] /\ oidx' = [t \in Thread |-> NoPlace]
    /\ i' = [t \in Thread |-> 0] /\ out' = [t \in Thread |-> << >>]
    /\ ret' = [t \in Thread |-> "none"]
    /\ failed' = "none"
    /\ UNCHANGED disk

(* The process is killed, or it is started again after an assertion.       *)
Kill == failed = "none" /\ "kill" \in Faults /\ Boot

Restart == failed # "none" /\ Boot

Step(t) ==
    \/ TableOpen(t) \/ OpenLock(t) \/ OpenInit(t)
    \/ AddLock(t) \/ RecordReadLast(t) \/ LocBucket(t) \/ LocWalk(t)
    \/ LocAppend(t) \/ LocLink(t) \/ AddRecord(t)
    \/ SearchLock(t) \/ SearchScan(t) \/ SearchEnd(t)
    \/ Return(t)

Next ==
    \/ \E t \in Thread : Step(t)
    \/ \E t \in Thread, r \in AddReqs : AddCall(t, r)
    \/ \E t \in Thread, q \in Queries : SearchCall(t, q)
    \/ Kill
    \/ Restart

Spec == Init /\ [][Next]_vars

(* What a thread does without waiting for another.                         *)
Runs(t) ==
    \/ TableOpen(t) \/ OpenInit(t)
    \/ RecordReadLast(t) \/ LocBucket(t) \/ LocWalk(t)
    \/ LocAppend(t) \/ LocLink(t) \/ AddRecord(t)
    \/ SearchScan(t) \/ SearchEnd(t)
    \/ Return(t)

(* What a thread does when no call of it fails that need not.              *)
Succeeds(t) == Runs(t) /\ (ret'[t] # ret[t] => ret'[t] \notin {"EIO", "ENOMEM"})

(* The scheduler runs every thread that can run, but does not make its     *)
(* calls fail ...                                                          *)
FairSpec == Spec /\ \A t \in Thread : WF_vars(Succeeds(t))

(* ... and the lock is granted to a thread that could have it again and    *)
(* again.                                                                  *)
FairLockSpec ==
    /\ FairSpec
    /\ \A t \in Thread :
          SF_vars(OpenLock(t)) /\ SF_vars(AddLock(t)) /\ SF_vars(SearchLock(t))

-----------------------------------------------------------------------------
(* What the files say: the complete records, with their locators.          *)

Records == Len(table) \div KCNDB_DB_RECORDSIZ

Record(k) ==
    LET w == KCNDB_DB_RECORDSIZ * (k - 1)
    IN  [time |-> table[w + 1], val |-> table[w + 2],
         loc |-> LocAt(table[w + 3])]

Log == [k \in 1..Records |-> Record(k)]

(* Types, and the bounds kcn_buf.c asserts of every buffer:                *)
(* sp <= cp <= ep <= size.                                                 *)
TypeOK ==
    /\ table \in Seq(Nat)
    /\ loc \in Seq(Nat \cup Loc \cup {Garbage})
    /\ damaged \in BOOLEAN
    /\ kdb_tablesize \in Nat /\ kdb_locsize \in Nat
    /\ writer \in Thread \cup {NoThread}
    /\ readers \in [Thread -> Nat]
    /\ pc \in [Thread -> Pc]
    /\ req \in [Thread -> AddReqs \cup Queries \cup {NoReq}]
    /\ kb \in [Thread -> GoodBufs(Nat, BUFSIZ)]
    /\ off \in [Thread -> Nat]
    /\ idx \in [Thread -> Nat \cup {Garbage}] /\ oidx \in [Thread -> Places]
    /\ i \in [Thread -> Nat] /\ out \in [Thread -> Seq(Loc \cup {Garbage})]
    /\ ret \in [Thread -> Results]
    /\ failed \in Asserts \cup {"none"}

(* The lock excludes, and whoever is in a section that needs it has it:    *)
(* the files are written, and the sizes changed, by one thread while none  *)
(* is searching, whatever fails and whoever keeps the lock too long.       *)
LockSafe ==
    /\ writer # NoThread => \A u \in Thread : readers[u] = 0
    /\ \A t \in Thread : pc[t] \in WritePc <=> writer = t
    /\ \A t \in Thread : pc[t] \in SearchPc => readers[t] > 0

(* The links that kcndb_db_loc_add misplaces damage the table only once    *)
(* one of them is written over an entry, or garbage is taken for the       *)
(* locator of a record.  Thereafter a search may fail in the middle and    *)
(* leave records in its buffer, which the next add takes for the last and  *)
(* appends again, so the next three say nothing of a damaged table.  Until *)
(* then they hold, whatever the links did to the buckets and however far   *)
(* walks through garbage have gone before they failed.                     *)

(* Once the table is open the sizes kept in memory, from which the place   *)
(* of the last record and of the next locator are computed, are those of   *)
(* the files, across kills and restarts.                                   *)
SizesAgree ==
    ~ damaged /\ kdb_locsize > 0 =>
        kdb_locsize = Len(loc) /\ kdb_tablesize = Len(table)

(* Every record is whole and refers to a locator: a link over buckets, a   *)
(* new entry, a new table of buckets or an add that failed anywhere along  *)
(* a broken chain leave the entries that records rely on alone.            *)
RecordsResolve ==
    ~ damaged =>
        /\ Len(table) % KCNDB_DB_RECORDSIZ = 0
        /\ \A k \in 1..Records : Record(k).loc \in Loc

(* The records are in the order of their times, although the times are     *)
(* taken before the lock is (kcndb_server_add_process) and the last record *)
(* is read through a buffer that earlier searches have used.               *)
TimeSorted ==
    ~ damaged =>
        \A k \in 1..Records - 1 : Record(k).time <= Record(k + 1).time

(* A search has sent the locators of the records it has passed that match, *)
(* in their order and no other, wherever the buffer was refilled, and when *)
(* it takes the file to be at its end it has passed every record.          *)
SearchExact ==
    \A t \in Thread :
        /\ pc[t] \in SearchPc =>
              /\ i[t] <= Records
              /\ Selection(SubSeq(Log, 1, i[t]), req[t], out[t])
        /\ pc[t] = "search_end" => i[t] = Records

(* What was stored is not changed nor lost, by a kill or a restart         *)
(* neither, by any step that does not damage the table: the log only grows *)
(* at its end, at most by the record of one request.                       *)
LogGrows ==
    [][ ~ damaged' => /\ Len(Log') \in {Len(Log), Len(Log) + 1}
                      /\ SubSeq(Log', 1, Len(Log)) = Log ]_vars

(* The files, buffers, hash table and lock implement a log of records      *)
(* whose operations take effect at once, until an add damages it           *)
(* (KcndbTable).                                                           *)
Abstract ==
    INSTANCE KcndbTable WITH
        log <- Log,
        ans <- [t \in Thread |-> IF ret[t] = "none" THEN << >> ELSE out[t]]

ImplementsTable == Abstract!Spec

(* A thread that holds the lock and works gets out of its section: the     *)
(* walk along a chain of locators and the scan of the records both end,    *)
(* unless an assertion ends the process, or the walk is lost to where no   *)
(* entry is: what it reads there may lead it round for ever.               *)
SectionEnds ==
    \A t \in Thread :
        pc[t] \in WritePc \cup SearchPc
            ~> (pc[t] \notin WritePc \cup SearchPc \/ failed # "none" \/ Lost(t))

(* assert(kb->kb_ep <= kb->kb_size) of kcn_buf_append (lib/kcn_buf.c:221)  *)
(* holds whenever a record is put into the table's buffer.                 *)
BufferNeverOverflows == failed # "append"

(* assert(kcn_buf_trailingdata(kb) >= 8) of kcn_buf_get64 (kcn_buf.c:261)  *)
(* holds whenever a bucket is read: the table of buckets is whole.         *)
BucketsAreThere ==
    failed # "none" => \A t \in Thread : pc[t] # "loc_bucket"

(* Every query gets a response, with or without an error                   *)
(* (kcndb_server.c:172): the search does not wait for the lock for ever.   *)
QueryAnswered ==
    \A t \in Thread :
        pc[t] = "search_lock" ~> (pc[t] = "reply" \/ failed # "none")
=============================================================================
