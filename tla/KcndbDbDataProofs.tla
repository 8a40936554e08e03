-------------------------- MODULE KcndbDbDataProofs --------------------------
(***************************************************************************)
(* What KcndbDb keeps in its files is right until a misplaced link damages *)
(* them, and it implements KcndbTable, for every number of threads,        *)
(* records and locators, locators of every length, every hash, request and *)
(* size of the buffer, and kills and failures to open at any time.         *)
(* Reads, writes and responses that fail are another matter: the run       *)
(* "table_torn" shows what they do to the files, and a search that failed  *)
(* leaves records in its buffer that the next add takes for the last ones. *)
(***************************************************************************)
EXTENDS KcndbDbSearchProofs

(* The faults these theorems are about.                                    *)
OnlyKills == Faults \cap {"read", "write", "response"} = {}

-----------------------------------------------------------------------------
(* The invariant.                                                          *)

(* No process has yet made the sizes known to the thread's calls.          *)
OpenPc == {"closed", "open_lock", "open_init", "dead"}

(* The places of an add behind the comparison with the last record.        *)
AcceptedPc == {"loc_bucket", "loc_walk", "loc_append", "loc_link", "add_record"}

WholeRecords == Len(table) = 3 * Records

(* The buckets are whole, and no locator is kept among them.               *)
IndexTable ==
    /\ loc = << >> \/ Len(loc) >= HASHSIZ
    /\ \A k \in 1..HASHSIZ : k <= Len(loc) => loc[k] \notin Loc

SizesRight ==
    kdb_locsize > 0 => kdb_locsize = Len(loc) /\ kdb_tablesize = Len(table)

SizesKnown == SizesRight /\ (kdb_locsize = 0 => kdb_tablesize = 0)

Resolving == \A k \in 1..Records : LocAt(table[3 * k]) \in Loc

Sorted == \A k \in 1..Records - 1 : Record(k).time <= Record(k + 1).time

FilesOK == WholeRecords /\ IndexTable /\ SizesKnown /\ Resolving /\ Sorted

Empty(b) == b.data = << >> /\ b.cp = b.sp

NoYounger(r) == Records > 0 => Record(Records).time <= r.time

(* A thread outside of the lock has nothing left in its buffer, for what a *)
(* search leaves it in keeps the lock.                                     *)
ThreadOK(t) ==
    /\ pc[t] \notin OpenPc => kdb_locsize > 0
    /\ pc[t] \in OpenPc \cup {"idle"} <=> req[t] = NoReq
    /\ ret[t] # "none" <=> pc[t] = "reply"
    /\ readers[t] = 0 => Empty(kb[t])
    /\ pc[t] = "search_end" => Empty(kb[t])
    /\ pc[t] = "search_scan" /\ req[t].max = 0 => Empty(kb[t])
    /\ pc[t] \in AcceptedPc => NoYounger(req[t])
    /\ pc[t] \in {"loc_link", "add_record"} => LocAt(idx[t]) = req[t].loc

DataInv == FilesOK /\ \A t \in Thread : ThreadOK(t)

-----------------------------------------------------------------------------
(* The files.                                                              *)

(* The log is a sequence of records that could have been asked for.        *)
LEMMA LogIsSeq ==
    ASSUME table \in Seq(Nat), WholeRecords, Resolving
    PROVE  /\ Log \in Seq([time : Nat, val : Nat, loc : Loc])
           /\ Len(Log) = Records /\ Records \in Nat
           /\ \A k \in 1..Records : Log[k] = Record(k)
  <1>1. Records \in Nat /\ \A k \in 1..Records : Log[k] = Record(k)
    BY RecordsBounds DEF Log
  <1>2. ASSUME NEW k \in 1..Records
        PROVE  Record(k) \in [time : Nat, val : Nat, loc : Loc]
    <2>1. k - 1 \in Nat /\ (k - 1) + 1 = k /\ 3 * (k - 1) + 3 = 3 * k
      BY <1>1
    <2>2. Record(k) = [time |-> table[3 * (k - 1) + 1],
                       val |-> table[3 * (k - 1) + 2],
                       loc |-> LocAt(table[3 * k])]
      BY <2>1, RecordAt
    <2>3. 3 * (k - 1) + 1 \in 1..Len(table) /\ 3 * (k - 1) + 2 \in 1..Len(table)
      <3>1. \A n \in Nat : n >= k =>
                3 * (k - 1) + 1 \in 1..3*n /\ 3 * (k - 1) + 2 \in 1..3*n
        BY <2>1
      <3> QED
        BY <1>1, <3>1 DEF WholeRecords
    <2>4. table[3 * (k - 1) + 1] \in Nat /\ table[3 * (k - 1) + 2] \in Nat
      BY <2>3
    <2> QED
      BY <2>2, <2>4 DEF Resolving
  <1>3. Log \in [1..Records -> [time : Nat, val : Nat, loc : Loc]]
    BY <1>2 DEF Log
  <1>4. \A S, f : \A n \in Nat : f \in [1..n -> S] => f \in Seq(S) /\ Len(f) = n
    OBVIOUS
  <1>5. Log \in Seq([time : Nat, val : Nat, loc : Loc]) /\ Len(Log) = Records
    BY <1>1, <1>3, <1>4
  <1> QED
    BY <1>1, <1>5

(* The words of the records.                                               *)
LEMMA RecordWords ==
    ASSUME table \in Seq(Nat), WholeRecords, NEW k \in 1..Records
    PROVE  /\ 3 * k \in 1..Len(table) /\ table[3 * k] \in Nat
           /\ Record(k) = [time |-> table[3 * k - 2], val |-> table[3 * k - 1],
                           loc |-> LocAt(table[3 * k])]
  <1>1. Records \in Nat
    BY RecordsBounds
  <1>2. k - 1 \in Nat /\ (k - 1) + 1 = k /\ 3 * (k - 1) + 3 = 3 * k
        /\ 3 * (k - 1) + 1 = 3 * k - 2 /\ 3 * (k - 1) + 2 = 3 * k - 1
    BY <1>1
  <1>3. \A n \in Nat : n >= k => 3 * k \in 1..3*n
    BY <1>1
  <1>4. 3 * k \in 1..Len(table)
    BY <1>1, <1>3 DEF WholeRecords
  <1>5. Record(k) = [time |-> table[3 * (k - 1) + 1],
                     val |-> table[3 * (k - 1) + 2],
                     loc |-> LocAt(table[3 * (k - 1) + 3])]
    BY <1>2, RecordAt
  <1> QED
    BY <1>2, <1>4, <1>5

(* Of the locators a record needs the one it refers to.                    *)
LEMMA SameLog ==
    ASSUME table \in Seq(Nat), WholeRecords, Resolving, table' = table,
           \A o \in Nat : LocAt(o) \in Loc => LocAt(o)' = LocAt(o)
    PROVE  /\ Records' = Records /\ Log' = Log /\ Resolving'
           /\ \A k \in 1..Records : Record(k)' = Record(k)
  <1>1. Records' = Records
    BY DEF Records
  <1>2. ASSUME NEW k \in 1..Records
        PROVE  LocAt(table[3 * k])' = LocAt(table[3 * k])
    <2>1. table'[3 * k] = table[3 * k] /\ table[3 * k] \in Nat
      BY RecordWords
    <2> QED
      BY <2>1 DEF Resolving, LocAt
  <1>3. Resolving'
    BY <1>1, <1>2 DEF Resolving
  <1>4. ASSUME NEW k \in 1..Records PROVE Record(k)' = Record(k)
    <2>1. /\ k \in Int /\ KCNDB_DB_RECORDSIZ * (k - 1) + 3 = 3 * k
      BY RecordsBounds DEF KCNDB_DB_RECORDSIZ
    <2>2. LocAt(table[KCNDB_DB_RECORDSIZ * (k - 1) + 3])'
            = LocAt(table[KCNDB_DB_RECORDSIZ * (k - 1) + 3])
      BY <1>2, <2>1
    <2> QED
      BY <2>2 DEF Record
  <1>5. Log' = Log
    BY <1>1, <1>4 DEF Log
  <1> QED
    BY <1>1, <1>3, <1>4, <1>5

(* A sequence with one more element is a function.                         *)
LEMMA Appended ==
    ASSUME NEW S, NEW q \in Seq(S), NEW e \in S, NEW n \in Nat, Len(q) = n
    PROVE  Append(q, e) = [k \in 1..n+1 |-> IF k = n + 1 THEN e ELSE q[k]]
  <1> DEFINE q2 == Append(q, e)
  <1>1. /\ q2 \in Seq(S) /\ Len(q2) = n + 1 /\ q2[n + 1] = e
        /\ \A k \in 1..n : q2[k] = q[k]
    OBVIOUS
  <1> HIDE DEF q2
  <1>2. q2 = [k \in 1..n+1 |-> q2[k]]
    BY <1>1
  <1>3. \A k \in 1..n+1 : q2[k] = IF k = n + 1 THEN e ELSE q[k]
    BY <1>1
  <1> QED
    BY <1>2, <1>3 DEF q2

(* A record is written behind the others.                                  *)
LEMMA LongerLog ==
    ASSUME table \in Seq(Nat), WholeRecords, Resolving, loc' = loc,
           NEW x \in Nat, NEW y \in Nat, NEW z \in Nat,
           table' = table \o <<x, y, z>>, LocAt(z) \in Loc
    PROVE  /\ Records' = Records + 1 /\ WholeRecords' /\ Resolving'
           /\ Len(table') = Len(table) + 3
           /\ \A k \in 1..Records : Record(k)' = Record(k)
           /\ \A k : k = Records + 1 =>
                    Record(k)' = [time |-> x, val |-> y, loc |-> LocAt(z)]
           /\ Log' = Append(Log, [time |-> x, val |-> y, loc |-> LocAt(z)])
  <1>n. PICK n \in Nat : n = Records
    BY RecordsBounds
  <1>m. PICK m \in Nat : m = Len(table)
    OBVIOUS
  <1>1. n \in Nat /\ m = 3 * n
    BY <1>n, <1>m DEF WholeRecords
  <1>2. /\ table' \in Seq(Nat) /\ Len(table') = m + 3
        /\ \A j \in 1..m : table'[j] = table[j]
        /\ table'[m + 1] = x /\ table'[m + 2] = y /\ table'[m + 3] = z
    BY <1>m
  <1>3. Records' = n + 1
    <2>1. (m + 3) \div 3 = n + 1
      BY <1>1
    <2> QED
      BY <1>2, <2>1 DEF Records, KCNDB_DB_RECORDSIZ
  <1>4. WholeRecords'
    <2>1. m + 3 = 3 * (n + 1)
      BY <1>1
    <2> QED
      BY <1>2, <1>3, <2>1 DEF WholeRecords
  <1>5. \A o : LocAt(o)' = LocAt(o)
    BY DEF LocAt
  <1>6. ASSUME NEW k \in 1..n
        PROVE  Record(k)' = Record(k) /\ LocAt(table[3 * k])' \in Loc
    <2>1. /\ 3 * (k - 1) + 1 \in 1..m /\ 3 * (k - 1) + 2 \in 1..m
          /\ 3 * (k - 1) + 3 \in 1..m /\ 3 * (k - 1) + 3 = 3 * k
      BY <1>1
    <2>2. /\ table'[3 * (k - 1) + 1] = table[3 * (k - 1) + 1]
          /\ table'[3 * (k - 1) + 2] = table[3 * (k - 1) + 2]
          /\ table'[3 * (k - 1) + 3] = table[3 * (k - 1) + 3]
          /\ table'[3 * k] = table[3 * k]
      BY <1>2, <2>1
    <2> QED
      BY <1>n, <2>2 DEF Record, KCNDB_DB_RECORDSIZ, LocAt, Resolving
  <1>7. Record(n + 1)' = [time |-> x, val |-> y, loc |-> LocAt(z)]
    <2>1. /\ 3 * ((n + 1) - 1) + 1 = m + 1 /\ 3 * ((n + 1) - 1) + 2 = m + 2
          /\ 3 * ((n + 1) - 1) + 3 = m + 3
      BY <1>1
    <2> QED
      BY <1>2, <2>1 DEF Record, KCNDB_DB_RECORDSIZ, LocAt
  <1>8. LocAt(table[3 * (n + 1)])' \in Loc
    <2>1. 3 * (n + 1) = m + 3
      BY <1>1
    <2> QED
      BY <1>2, <2>1 DEF LocAt
  <1>9. \A k \in 1..n+1 : k \in 1..n \/ k = n + 1
    BY <1>1
  <1>10. Resolving'
    BY <1>3, <1>6, <1>8, <1>9 DEF Resolving
  <1>11. Log' = Append(Log, [time |-> x, val |-> y, loc |-> LocAt(z)])
    <2> DEFINE r == [time |-> x, val |-> y, loc |-> LocAt(z)]
    <2>1. /\ Log \in Seq([time : Nat, val : Nat, loc : Loc]) /\ Len(Log) = n
          /\ \A k \in 1..n : Log[k] = Record(k)
      BY <1>n, LogIsSeq
    <2>2. r \in [time : Nat, val : Nat, loc : Loc]
      OBVIOUS
    <2> HIDE DEF r
    <2>3. Append(Log, r) = [k \in 1..n+1 |-> IF k = n + 1 THEN r ELSE Log[k]]
      <3> DEFINE S == [time : Nat, val : Nat, loc : Loc]
      <3>1. Log \in Seq(S) /\ r \in S /\ Len(Log) = n /\ n \in Nat
        BY <1>1, <2>1, <2>2
      <3> HIDE DEF S
      <3> QED
        BY <3>1, Appended
    <2>4. Log' = [k \in 1..n+1 |-> Record(k)']
      BY <1>3 DEF Log
    <2>5. \A k \in 1..n+1 : Record(k)' = IF k = n + 1 THEN r ELSE Log[k]
      BY <1>1, <1>6, <1>7, <1>9, <2>1 DEF r
    <2>6. Log' = [k \in 1..n+1 |-> IF k = n + 1 THEN r ELSE Log[k]]
      BY <2>4, <2>5
    <2> QED
      BY <2>3, <2>6 DEF r
  <1> QED
    BY <1>n, <1>m, <1>2, <1>3, <1>4, <1>6, <1>7, <1>10, <1>11

(* A record no older than the last keeps the records in order.             *)
LEMMA SortedLonger ==
    ASSUME table \in Seq(Nat), Sorted, NEW r, NoYounger(r),
           Records' = Records + 1,
           \A k \in 1..Records : Record(k)' = Record(k),
           \A k : k = Records + 1 => Record(k)' = r
    PROVE  Sorted'
  <1>n. PICK n \in Nat : n = Records
    BY RecordsBounds
  <1>1. SUFFICES ASSUME NEW k \in 1..n
                 PROVE  Record(k)'.time <= Record(k + 1)'.time
    BY <1>n DEF Sorted
  <1>2. Record(k)' = Record(k)
    BY <1>n
  <1>3. CASE k = n
    <2>1. Record(k + 1)' = r /\ Record(k).time <= r.time
      BY <1>n, <1>3 DEF NoYounger
    <2> QED
      BY <1>2, <2>1
  <1>4. CASE k \in 1..n-1
    <2>1. k + 1 \in 1..n
      BY <1>4
    <2>2. Record(k + 1)' = Record(k + 1)
      BY <1>n, <2>1
    <2> QED
      BY <1>n, <1>2, <1>4, <2>2 DEF Sorted
  <1> QED
    BY <1>3, <1>4

(* A cell written among the buckets stays there.                           *)
LEMMA WriteAtBucket ==
    ASSUME NEW f \in Seq(Cells), Len(f) >= HASHSIZ, NEW o \in 0..HASHSIZ-1,
           NEW v \in Nat \cup {Garbage}, \A k \in 1..HASHSIZ : f[k] \notin Loc
    PROVE  LET g == WriteAt(f, o, v)
           IN  /\ g \in Seq(Cells) /\ Len(g) = Len(f)
               /\ \A k \in 1..HASHSIZ : g[k] \notin Loc
               /\ \A k \in 1..Len(f) : k > HASHSIZ => g[k] = f[k]
  <1> DEFINE g == WriteAt(f, o, v)
  <1>1. HASHSIZ \in Nat /\ o < Len(f) /\ Len(f) \in Nat
    BY SizeAssumption
  <1>2. g = [k \in 1..Len(f) |->
                IF k = o + 1 THEN v ELSE IF k <= Len(f) THEN f[k] ELSE 0]
    BY <1>1 DEF WriteAt
  <1>3. g \in Seq(Cells)
    <2>1. o \in Nat /\ v \in Cells
      BY <1>1 DEF Cells
    <2> QED
      BY <2>1, WriteAtType
  <1>4. v \notin Loc
    BY LocAssumption
  <1> QED
    BY <1>1, <1>2, <1>3, <1>4

(* Nor do buckets that lose what they held become locators.                *)
LEMMA OverwrittenBuckets ==
    ASSUME NEW f \in Seq(Cells), Len(f) >= HASHSIZ,
           NEW cells \in SUBSET (0..HASHSIZ-1), NEW g \in Overwritten(f, cells),
           \A k \in 1..HASHSIZ : f[k] \notin Loc
    PROVE  /\ g \in Seq(Cells) /\ Len(g) = Len(f)
           /\ \A k \in 1..HASHSIZ : g[k] \notin Loc
           /\ \A k \in 1..Len(f) : k > HASHSIZ => g[k] = f[k]
  <1>1. /\ g \in Seq(Cells) /\ Len(g) = Len(f)
        /\ \A k \in 1..Len(f) : g[k] # f[k] =>
                k - 1 \in cells /\ g[k] \in {0, Garbage}
    BY OverwrittenType
  <1>2. /\ HASHSIZ \in Nat /\ Len(f) \in Nat
        /\ Garbage \notin Loc /\ 0 \notin Loc
    <2>1. 0 \in Nat
      OBVIOUS
    <2>2. Garbage \notin Loc /\ 0 \notin Loc
      BY <2>1, LocAssumption
    <2> QED
      BY <2>2, SizeAssumption
  <1>3. ASSUME NEW k \in 1..HASHSIZ PROVE g[k] \notin Loc
    <2>1. k \in 1..Len(f)
      BY <1>2
    <2> QED
      BY <1>1, <1>2, <2>1
  <1>4. ASSUME NEW k \in 1..Len(f), k > HASHSIZ PROVE g[k] = f[k]
    <2>1. k - 1 \notin 0..HASHSIZ-1
      BY <1>2, <1>4
    <2> QED
      BY <1>1, <2>1
  <1> QED
    BY <1>1, <1>3, <1>4

(* A link that is written among the buckets, misplaced as it may be, leaves *)
(* the locators alone.                                                     *)
LEMMA LinkKeepsLocs ==
    ASSUME loc \in Seq(Cells), IndexTable, Len(loc) >= HASHSIZ,
           NEW place \in Places, InBuckets(place),
           NEW o \in Nat, loc' \in Linked(loc, place, o)
    PROVE  /\ IndexTable' /\ Len(loc') = Len(loc)
           /\ \A p \in Nat : LocAt(p)' = LocAt(p)
  <1> DEFINE b == place.bucket
  <1>1. HASHSIZ \in Nat /\ HASHSIZ > 0 /\ b \in 0..HASHSIZ-1 /\ Len(loc) \in Nat
    BY SizeAssumption DEF Places, InBuckets
  <1>2. \A k \in 1..HASHSIZ : loc[k] \notin Loc
    <2>1. loc # << >>
      <3>1. loc = << >> => Len(loc) = 0
        OBVIOUS
      <3> QED
        BY <1>1, <3>1
    <2> QED
      BY <1>1, <2>1 DEF IndexTable
  <1>3. /\ loc' \in Seq(Cells) /\ Len(loc') = Len(loc)
        /\ \A k \in 1..HASHSIZ : loc'[k] \notin Loc
        /\ \A k \in 1..Len(loc) : k > HASHSIZ => loc'[k] = loc[k]
    <2>1. CASE place.whole
      <3>1. loc' = WriteAt(loc, b, o)
        BY <2>1 DEF Linked
      <3> QED
        BY <1>1, <1>2, <3>1, WriteAtBucket
    <2>2. CASE ~ place.whole
      <3>1. {b, b + 1} \in SUBSET (0..HASHSIZ-1)
        BY <1>1, <2>2 DEF InBuckets
      <3>2. loc' \in Overwritten(loc, {b, b + 1})
        BY <2>2 DEF Linked
      <3> QED
        BY <1>1, <1>2, <3>1, <3>2, OverwrittenBuckets
    <2> QED
      BY <2>1, <2>2
  <1>4. IndexTable'
    BY <1>1, <1>3 DEF IndexTable
  <1>5. ASSUME NEW p \in Nat PROVE LocAt(p)' = LocAt(p)
    <2>1. CASE p + 1 <= HASHSIZ
      <3>1. p + 1 \in 1..HASHSIZ
        BY <2>1
      <3>2. loc[p + 1] \notin Loc /\ loc'[p + 1] \notin Loc
        BY <1>2, <1>3, <3>1
      <3> QED
        BY <3>2 DEF LocAt
    <2>2. CASE p + 1 > HASHSIZ
      BY <1>1, <1>3, <2>2 DEF LocAt
    <2> QED
      BY <1>1, <2>1, <2>2
  <1> QED
    BY <1>3, <1>4, <1>5

(* Cells are added behind the others.                                      *)
LEMMA GrowthKeepsLocs ==
    ASSUME loc \in Seq(Cells), NEW c \in Seq(Cells), loc' = loc \o c
    PROVE  /\ Len(loc') = Len(loc) + Len(c)
           /\ \A k \in 1..Len(loc) : loc'[k] = loc[k]
           /\ \A k \in 1..Len(c) : loc'[Len(loc) + k] = c[k]
           /\ \A p \in Nat : LocAt(p) \in Loc => LocAt(p)' = LocAt(p)
  <1>1. /\ Len(loc') = Len(loc) + Len(c) /\ Len(loc) \in Nat /\ Len(c) \in Nat
        /\ \A k \in 1..Len(loc) : loc'[k] = loc[k]
        /\ \A k \in 1..Len(c) : loc'[Len(loc) + k] = c[k]
    BY Glued
  <1>2. ASSUME NEW p \in Nat, LocAt(p) \in Loc PROVE LocAt(p)' = LocAt(p)
    <2>1. p < Len(loc)
      BY <1>2, LocAssumption DEF LocAt
    <2>2. p + 1 \in 1..Len(loc) /\ p < Len(loc')
      BY <1>1, <2>1
    <2> QED
      BY <1>1, <2>1, <2>2 DEF LocAt
  <1> QED
    BY <1>1, <1>2

-----------------------------------------------------------------------------
(* What the calls do when no read, write nor response fails.               *)

LEMMA EmptyWindow ==
    ASSUME NEW b \in GoodBufs(Nat, BUFSIZ), NEW o \in Nat, o <= Len(table)
    PROVE  Empty(b) <=> Window(b, o, o)
  <1>1. b.data \in Seq(Nat) /\ Len(b.data) \in Nat
    BY DEF GoodBufs, KcnBufs
  <1>2. b.data = << >> <=> Len(b.data) = 0
    BY <1>1
  <1>3. Len(b.data) = 0 => 1..Len(b.data) = {}
    OBVIOUS
  <1>4. o = o + Len(b.data) <=> Len(b.data) = 0
    BY <1>1
  <1> QED
    BY <1>2, <1>3, <1>4 DEF Empty, Window

(* The writer reads the last record into its empty buffer, and so leaves   *)
(* it empty: what is compared is the time of the last record.              *)
LEMMA ReadLastWorks ==
    ASSUME OnlyKills, FilesOK, TypeInv, LockInv, NEW t \in Thread, ThreadOK(t),
           RecordReadLast(t)
    PROVE  /\ \E b : Empty(b) /\ kb' = [kb EXCEPT ![t] = b]
           /\ \/ /\ NoYounger(req[t]) /\ Goto(t, "loc_bucket")
                 /\ UNCHANGED <<lock, req, off, walk, i, ret, failed>>
              \/ ~ NoYounger(req[t]) /\ AddFail(t, "ERANGE")
           /\ UNCHANGED <<disk, sizes, out>>
  <1>1. /\ pc[t] = "add_last" /\ readers[t] = 0
        /\ Empty(kb[t]) /\ kdb_locsize > 0
    BY ThreadAssumption DEF RecordReadLast, At, ThreadOK, OpenPc, LockInv,
       LockSafe, LockType, WritePc
  <1>2. /\ table \in Seq(Nat) /\ kb[t] \in GoodBufs(Nat, BUFSIZ)
        /\ kb \in [Thread -> GoodBufs(Nat, BUFSIZ)]
        /\ req[t] \in [time : Nat, val : Nat, loc : Loc]
    BY <1>1, ReqAssumption DEF TypeInv, TypeOK, CallOK, AddPc
  <1>n. PICK n \in Nat : n = Records
    BY <1>2, RecordsBounds
  <1>3. kdb_tablesize = 3 * n /\ Len(table) = 3 * n
    BY <1>1, <1>n DEF FilesOK, SizesKnown, SizesRight, WholeRecords
  <1>4. UNCHANGED <<disk, sizes, out>>
    BY DEF RecordReadLast
  <1>5. CASE n = 0
    <2>1. ~ (kdb_tablesize >= KCNDB_DB_RECORDSIZ) /\ NoYounger(req[t])
      BY <1>n, <1>3, <1>5 DEF KCNDB_DB_RECORDSIZ, NoYounger
    <2>2. kb' = [kb EXCEPT ![t] = kb[t]]
      BY <1>2, <2>1 DEF RecordReadLast
    <2> QED
      BY <1>1, <1>4, <2>1, <2>2 DEF RecordReadLast
  <1>6. CASE n > 0
    <2> DEFINE o == 3 * (n - 1)
    <2>1. /\ ~ (kdb_tablesize < KCNDB_DB_RECORDSIZ) /\ o \in Nat
          /\ kdb_tablesize - KCNDB_DB_RECORDSIZ = o
          /\ o + KCNDB_DB_RECORDSIZ = Len(table) /\ o <= Len(table)
          /\ n - 1 \in Nat /\ (n - 1) + 1 = n
      BY <1>3, <1>6 DEF KCNDB_DB_RECORDSIZ
    <2>2. Record(n) = [time |-> table[o + 1], val |-> table[o + 2],
                       loc |-> LocAt(table[o + 3])]
      BY <2>1, RecordAt
    <2> HIDE DEF o
    <2>3. Window(kb[t], o, o)
      BY <1>1, <1>2, <2>1, EmptyWindow
    <2>4. ASSUME NEW r \in kcndb_db_record_read(kb[t], o)
          PROVE  r.rc = "ok" /\ Empty(r.kb) /\ r.time = Record(n).time
      <3>1. \/ /\ r.rc = "ok" /\ Window(r.kb, r.off, Len(table))
               /\ r.time = table[o + 1]
            \/ Len(table) < Len(table)
            \/ "read" \in Faults
        BY <1>2, <2>1, <2>3, RecordReadWindow
      <3>2. Len(table) \in Nat /\ "read" \notin Faults
        BY <1>2 DEF OnlyKills
      <3>3. /\ r.rc = "ok" /\ Window(r.kb, r.off, Len(table))
            /\ r.time = table[o + 1]
        BY <3>1, <3>2
      <3>4. r.off = Len(table) /\ r.kb \in GoodBufs(Nat, BUFSIZ)
        <4>1. /\ r.off = Len(table) + Len(r.kb.data) /\ r.off <= Len(table)
              /\ r.kb \in GoodBufs(Nat, BUFSIZ)
          BY <3>3 DEF Window
        <4>2. Len(r.kb.data) \in Nat
          BY <3>3, WindowType
        <4> QED
          BY <3>2, <4>1, <4>2
      <3>5. Empty(r.kb)
        BY <3>2, <3>3, <3>4, EmptyWindow
      <3> QED
        BY <2>2, <3>3, <3>5
    <2>5. PICK r \in kcndb_db_record_read(kb[t], o) :
            /\ kb' = [kb EXCEPT ![t] = r.kb]
            /\ \/ /\ ~ TooOld(r, req[t]) /\ Goto(t, "loc_bucket")
                  /\ UNCHANGED <<lock, req, off, walk, i, ret, failed>>
               \/ TooOld(r, req[t]) /\ AddFail(t, "ERANGE")
      BY <2>1, <2>4 DEF RecordReadLast
    <2>6. TooOld(r, req[t]) <=> ~ NoYounger(req[t])
      <3>1. Record(n).time \in Nat /\ Record(n).time = r.time
        <4>1. o + 1 \in 1..Len(table)
          BY <1>2, <2>1 DEF KCNDB_DB_RECORDSIZ
        <4> QED
          BY <1>2, <2>2, <2>4, <4>1
      <3> QED
        BY <1>n, <1>2, <1>6, <3>1 DEF TooOld, NoYounger
    <2> QED
      BY <1>4, <2>4, <2>5, <2>6
  <1> QED
    BY <1>5, <1>6

(* The locator of a record can be looked up.                               *)
LEMMA LookupWorks ==
    ASSUME OnlyKills, FilesOK, TypeInv, kdb_locsize > 0, NEW n \in Nat,
           n + 1 <= Records
    PROVE  LookupResults(table[3 * n + 3]) = {"ok"}
  <1>1. table \in Seq(Nat) /\ Records \in Nat /\ kdb_locsize = Len(loc)
        /\ Len(loc) \in Nat
    BY RecordsBounds DEF TypeInv, TypeOK, FilesOK, SizesKnown, SizesRight
  <1>2. n + 1 \in 1..Records /\ 3 * (n + 1) = 3 * n + 3
    BY <1>1
  <1> DEFINE o == table[3 * n + 3]
  <1>3. o \in Nat /\ LocAt(o) \in Loc
    BY <1>1, <1>2, RecordWords DEF FilesOK, Resolving
  <1> HIDE DEF o
  <1>4. o < Len(loc)
    BY <1>3, LocAssumption DEF LocAt
  <1>5. ~ (kdb_locsize < o) /\ LocAt(o) # Garbage /\ "read" \notin Faults
    BY <1>1, <1>3, <1>4, LocAssumption DEF OnlyKills
  <1> QED
    BY <1>4, <1>5 DEF LookupResults, o

(* A search passes records until there are none left, with an empty buffer *)
(* then.                                                                   *)
LEMMA SearchScanWorks ==
    ASSUME OnlyKills, FilesOK, TypeInv, NEW t \in Thread, ThreadOK(t),
           SearchOK(t), SearchScan(t)
    PROVE  /\ UNCHANGED <<disk, sizes, lock, req, walk, ret, failed>>
           /\ \/ /\ Goto(t, "search_end") /\ UNCHANGED out
                 /\ \E b : Empty(b) /\ kb' = [kb EXCEPT ![t] = b]
              \/ /\ UNCHANGED pc
                 /\ \E b : kb' = [kb EXCEPT ![t] = b]
                 /\ \E l : out' = [out EXCEPT ![t] = l]
  <1>1. /\ pc[t] = "search_scan" /\ kdb_locsize > 0
        /\ Passing(t) /\ Window(kb[t], off[t], 3 * i[t])
        /\ UNCHANGED <<disk, sizes>>
    BY DEF SearchScan, At, SearchOK, SearchPc, ThreadOK, OpenPc
  <1>2. PICK r \in kcndb_db_record_read(kb[t], off[t]) :
          \/ /\ kb' = [kb EXCEPT ![t] = r.kb]
             /\ \/ /\ r.rc = "ESHUTDOWN"
                   /\ Goto(t, "search_end")
                   /\ UNCHANGED <<lock, req, off, walk, search, ret, failed>>
                \/ r.rc = "EIO"
                \/ r.rc = "ok" /\ Passed(t, r) /\ UNCHANGED out
                \/ /\ r.rc = "ok" /\ Passed(t, r)
                   /\ out' = [out EXCEPT ![t] = Append(@, LocAt(r.locidx))]
                \/ "response" \in Faults
          \/ r.rc = "ok" /\ \E e \in LookupResults(r.locidx) : e # "ok"
    <2>1. PICK r \in kcndb_db_record_read(kb[t], off[t]) :
            LET match == r.rc = "ok" /\ kcn_eq_match(r, req[t])
            IN  \/ /\ kb' = [kb EXCEPT ![t] = r.kb]
                   /\ \/ /\ r.rc = "ESHUTDOWN"
                         /\ Goto(t, "search_end")
                         /\ UNCHANGED <<lock, req, off, walk, search, ret, failed>>
                      \/ /\ r.rc = "EIO"
                         /\ SearchFail(t, "EIO")
                         /\ UNCHANGED out
                      \/ /\ r.rc = "ok" /\ ~ match
                         /\ Passed(t, r) /\ UNCHANGED out
                      \/ /\ match /\ "ok" \in LookupResults(r.locidx)
                         /\ Passed(t, r)
                         /\ out' = [out EXCEPT ![t] = Append(@, LocAt(r.locidx))]
                      \/ /\ match
                         /\ \E e \in LookupResults(r.locidx) \ {"ok", "abort"} :
                               SearchFail(t, e)
                         /\ UNCHANGED out
                      \/ /\ match /\ "ok" \in LookupResults(r.locidx)
                         /\ "response" \in Faults
                         /\ SearchFail(t, "ENOMEM")
                         /\ UNCHANGED out
                \/ /\ match /\ "abort" \in LookupResults(r.locidx)
                   /\ Abort("read") /\ UNCHANGED out
      BY Zenon DEF SearchScan
    <2> QED
      BY <2>1
  <1> DEFINE n == i[t]
  <1>3. /\ n \in Nat /\ table \in Seq(Nat) /\ Records \in Nat
        /\ out \in [Thread -> Seq(Loc \cup {Garbage})]
    BY RecordsBounds DEF TypeInv, TypeOK
  <1>4. \/ /\ r.rc = "ok" /\ 3 * n + 3 <= Len(table)
           /\ r.locidx = table[3 * n + 3]
        \/ /\ r.rc = "ESHUTDOWN" /\ n = Records
           /\ Window(r.kb, Len(table), 3 * n)
        \/ r.rc = "EIO" /\ "read" \in Faults
    BY <1>1, ReadsRecord
  <1> HIDE DEF n
  <1>5. r.rc # "EIO" /\ "response" \notin Faults
    BY <1>4 DEF OnlyKills
  <1>6. r.rc = "ok" => LookupResults(r.locidx) = {"ok"}
    <2> SUFFICES ASSUME r.rc = "ok" PROVE LookupResults(r.locidx) = {"ok"}
      OBVIOUS
    <2>1. 3 * n + 3 <= 3 * Records /\ r.locidx = table[3 * n + 3]
      BY <1>4 DEF FilesOK, WholeRecords
    <2>2. n + 1 <= Records
      BY <1>3, <2>1
    <2> QED
      BY <1>1, <1>3, <2>1, <2>2, LookupWorks
  <1>7. r.rc = "ESHUTDOWN" => Empty(r.kb)
    <2> SUFFICES ASSUME r.rc = "ESHUTDOWN" PROVE Empty(r.kb)
      OBVIOUS
    <2>1. 3 * n = Len(table)
      BY <1>4 DEF FilesOK, WholeRecords
    <2>2. Window(r.kb, Len(table), Len(table)) /\ Len(table) \in Nat
      BY <1>3, <1>4, <2>1
    <2>3. r.kb \in GoodBufs(Nat, BUFSIZ)
      BY <2>2 DEF Window
    <2> QED
      BY <2>2, <2>3, EmptyWindow
  <1>8. CASE /\ r.rc = "ESHUTDOWN" /\ kb' = [kb EXCEPT ![t] = r.kb]
             /\ Goto(t, "search_end")
             /\ UNCHANGED <<lock, req, off, walk, search, ret, failed>>
    BY <1>1, <1>7, <1>8 DEF search
  <1>9. CASE /\ Passed(t, r) /\ kb' = [kb EXCEPT ![t] = r.kb]
             /\ \E l : out' = [out EXCEPT ![t] = l]
    BY <1>1, <1>9 DEF Passed
  <1>10. UNCHANGED out => out' = [out EXCEPT ![t] = out[t]]
    BY <1>3
  <1> QED
    BY <1>2, <1>5, <1>6, <1>8, <1>9, <1>10

(* What a writer puts at the cursor of its empty buffer is all it appends. *)
LEMMA AddRecordWorks ==
    ASSUME OnlyKills, TypeInv, LockInv, NEW t \in Thread, ThreadOK(t),
           AddRecord(t)
    PROVE  \/ /\ table' = table \o <<req[t].time, req[t].val, idx[t]>>
              /\ kdb_tablesize' = kdb_tablesize + 3
              /\ kb' = [kb EXCEPT ![t] = kcn_buf_reset(0)]
              /\ wrunlock(t) /\ Reply(t, "ok")
              /\ UNCHANGED <<loc, damaged, kdb_locsize, out>>
           \/ Abort("append") /\ UNCHANGED out
  <1>1. /\ pc[t] = "add_record" /\ Empty(kb[t])
    BY ThreadAssumption DEF AddRecord, At, ThreadOK, LockInv, LockSafe,
       LockType, WritePc
  <1> DEFINE rec == <<req[t].time, req[t].val, idx[t]>>
  <1>2. rec \in Seq(Nat) /\ Len(rec) = 3
    <2>1. req[t] \in [time : Nat, val : Nat, loc : Loc] /\ idx[t] \in Nat
      BY <1>1, ReqAssumption DEF TypeInv, CallOK, AddPc
    <2> QED
      BY <2>1
  <1>3. PICK p \in Nat : kb[t] = [sp |-> p, cp |-> p, data |-> << >>]
    BY <1>1 DEF TypeInv, TypeOK, GoodBufs, KcnBufs, Empty
  <1> HIDE DEF rec
  <1>4. kcn_buf_put(kb[t], rec).data = rec
    <2>1. kcn_buf_headingdata(kb[t]) = 0 /\ kb[t].data = << >>
      BY <1>3 DEF kcn_buf_headingdata
    <2>2. SubSeq(<< >>, 1, 0) = << >> /\ SubSeq(<< >>, 0 + 3 + 1, 0) = << >>
      OBVIOUS
    <2>3. Len(<< >>) = 0 /\ << >> \o rec \o << >> = rec
      BY <1>2
    <2>4. kcn_buf_put(kb[t], rec).data = SubSeq(<< >>, 1, 0) \o rec
                                           \o SubSeq(<< >>, 0 + 3 + 1, 0)
      BY <1>2, <2>1, <2>3 DEF kcn_buf_put
    <2> QED
      BY <2>2, <2>3, <2>4
  <1>5. "write" \notin Faults
    BY DEF OnlyKills
  <1> QED
    BY <1>4, <1>5 DEF AddRecord, rec, kcndb_db_table_size_increment,
       KCNDB_DB_RECORDSIZ

-----------------------------------------------------------------------------
(* Every step keeps the invariant.                                         *)

(* Steps that keep the table and the locators it refers to.                *)
LEMMA SameTable ==
    ASSUME table \in Seq(Nat), FilesOK, table' = table,
           \A o \in Nat : LocAt(o) \in Loc => LocAt(o)' = LocAt(o)
    PROVE  /\ WholeRecords' /\ Resolving' /\ Sorted'
           /\ \A r : NoYounger(r) => NoYounger(r)'
  <1>1. /\ Records' = Records /\ Resolving'
        /\ \A k \in 1..Records : Record(k)' = Record(k)
    BY SameLog DEF FilesOK
  <1>2. WholeRecords'
    BY <1>1 DEF FilesOK, WholeRecords
  <1>3. Sorted'
    <2>1. Records \in Nat
      BY RecordsBounds
    <2>2. \A k \in 1..Records-1 : k \in 1..Records /\ k + 1 \in 1..Records
      BY <2>1
    <2>3. ASSUME NEW k \in 1..Records-1
          PROVE  Record(k)'.time <= Record(k + 1)'.time
      <3>1. Record(k)' = Record(k) /\ Record(k + 1)' = Record(k + 1)
        BY <1>1, <2>2
      <3> QED
        BY <3>1 DEF FilesOK, Sorted
    <2> QED
      BY <1>1, <2>3 DEF Sorted
  <1>4. ASSUME NEW r, NoYounger(r) PROVE NoYounger(r)'
    BY <1>1, <1>4 DEF NoYounger, Record
  <1> QED
    BY <1>1, <1>2, <1>3, <1>4

LEMMA SameFiles ==
    ASSUME FilesOK, UNCHANGED <<disk, sizes>>
    PROVE  FilesOK' /\ \A r : NoYounger(r) => NoYounger(r)'
  <1>1. /\ table' = table /\ loc' = loc
        /\ kdb_tablesize' = kdb_tablesize /\ kdb_locsize' = kdb_locsize
    BY DEF disk, sizes
  <1> QED
    BY <1>1 DEF FilesOK, WholeRecords, IndexTable, SizesKnown, SizesRight,
       Resolving, Sorted, NoYounger, Records, Record, LocAt

(* A thread that does not step: only another writer changes the files.     *)
LEMMA KeptThreadOK ==
    ASSUME NEW t \in Thread, ThreadOK(t), Kept(t),
           kdb_locsize > 0 => kdb_locsize' > 0,
           pc[t] \in WritePc => UNCHANGED disk
    PROVE  ThreadOK(t)'
  <1>1. /\ pc'[t] \notin OpenPc => kdb_locsize' > 0
        /\ pc'[t] \in OpenPc \cup {"idle"} <=> req'[t] = NoReq
        /\ ret'[t] # "none" <=> pc'[t] = "reply"
        /\ readers'[t] = 0 => Empty(kb'[t])
        /\ pc'[t] = "search_end" => Empty(kb'[t])
        /\ pc'[t] = "search_scan" /\ req'[t].max = 0 => Empty(kb'[t])
    BY DEF ThreadOK, Kept
  <1>2. CASE pc[t] \notin WritePc
    <2>1. pc'[t] \notin AcceptedPc /\ pc'[t] \notin {"loc_link", "add_record"}
      BY <1>2 DEF Kept, WritePc, AcceptedPc
    <2> QED
      BY <1>1, <2>1 DEF ThreadOK, Empty
  <1>3. CASE pc[t] \in WritePc
    <2>1. table' = table /\ loc' = loc
      BY <1>3 DEF disk
    <2>2. /\ pc'[t] \in AcceptedPc => NoYounger(req[t])'
          /\ pc'[t] \in {"loc_link", "add_record"} => LocAt(idx[t])' = req'[t].loc
      BY <2>1 DEF ThreadOK, Kept, NoYounger, Records, Record, LocAt
    <2> QED
      BY <1>1, <2>2 DEF ThreadOK, Empty
  <1> QED
    BY <1>2, <1>3

(* An assertion fails and nothing else happens.                            *)
LEMMA AbortKeepsData ==
    ASSUME DataInv, NEW a, Abort(a), UNCHANGED out
    PROVE  DataInv' /\ UNCHANGED <<disk, sizes>>
  <1>1. UNCHANGED <<disk, sizes, lock, pc, req, kb, off, walk, search, ret>>
    BY DEF Abort
  <1>2. \A t \in Thread : Kept(t)
    BY <1>1 DEF Kept, lock, walk, search
  <1>3. kdb_locsize > 0 => kdb_locsize' > 0
    BY <1>1 DEF sizes
  <1> QED
    BY <1>1, <1>2, <1>3, SameFiles, KeptThreadOK DEF DataInv

(* So a step keeps the invariant if it keeps the files right and what is   *)
(* known of the thread that steps.                                         *)
LEMMA StepKeepsData ==
    ASSUME DataInv, TypeInv, LockInv, NEW t \in Thread,
           \/ Step(t)
           \/ \E r \in AddReqs : AddCall(t, r)
           \/ \E q \in Queries : SearchCall(t, q),
           FilesOK', ThreadOK(t)', UNCHANGED disk \/ pc[t] \in WritePc,
           kdb_locsize > 0 => kdb_locsize' > 0
    PROVE  DataInv'
  <1>1. ASSUME NEW u \in Thread, u # t PROVE ThreadOK(u)'
    <2>1. Kept(u)
      BY <1>1, OthersKept
    <2>2. pc[u] \in WritePc => UNCHANGED disk
      BY <1>1 DEF LockInv, LockSafe
    <2> QED
      BY <2>1, <2>2, KeptThreadOK DEF DataInv
  <1> QED
    BY <1>1 DEF DataInv

(* A call ends with nothing in the buffer or with the lock.                *)
LEMMA ReplyOK ==
    ASSUME TypeInv, NEW t \in Thread, ThreadOK(t), NEW r, r # "none",
           Reply(t, r), pc[t] \notin OpenPc \cup {"idle"}, kdb_locsize' > 0,
           readers'[t] = 0 => Empty(kb'[t])
    PROVE  ThreadOK(t)'
  <1>1. /\ pc'[t] = "reply" /\ ret'[t] = r /\ oidx'[t] = NoPlace
        /\ req'[t] = req[t] /\ req[t] # NoReq
    BY DEF TypeInv, TypeOK, Reply, Goto, ThreadOK
  <1> QED
    BY <1>1 DEF ThreadOK, OpenPc, AcceptedPc, NoPlace, Empty

LEMMA AddFailOK ==
    ASSUME FilesOK, TypeInv, NEW t \in Thread, ThreadOK(t), NEW r, r # "none",
           AddFail(t, r), pc[t] \in WritePc \ {"open_init"},
           UNCHANGED <<disk, sizes>>, readers[t] = 0 => Empty(kb'[t])
    PROVE  FilesOK' /\ ThreadOK(t)'
  <1>1. /\ pc[t] \notin OpenPc \cup {"idle"} /\ kdb_locsize' > 0
        /\ readers' = readers /\ Reply(t, r)
    BY DEF AddFail, wrunlock, ThreadOK, OpenPc, WritePc, sizes
  <1> QED
    BY <1>1, SameFiles, ReplyOK

(* An add goes on.                                                         *)
LEMMA AddGoesOn ==
    ASSUME TypeInv, NEW t \in Thread, ThreadOK(t), pc[t] \in AddPc,
           NEW p \in AddPc, Goto(t, p), UNCHANGED <<readers, req, ret>>,
           kdb_locsize' > 0, readers[t] = 0 => Empty(kb'[t]),
           p \in AcceptedPc => NoYounger(req[t])',
           p \in {"loc_link", "add_record"} => LocAt(idx[t])' = req[t].loc
    PROVE  ThreadOK(t)'
  <1>1. /\ pc'[t] = p /\ req'[t] = req[t] /\ ret'[t] = ret[t]
        /\ readers'[t] = readers[t]
    BY DEF TypeInv, TypeOK, Goto
  <1>2. req[t] # NoReq /\ ret[t] = "none"
    BY DEF ThreadOK, AddPc, OpenPc
  <1>3. p \notin OpenPc \cup {"idle", "reply", "search_end", "search_scan"}
    BY DEF AddPc, OpenPc
  <1> QED
    BY <1>1, <1>2, <1>3 DEF ThreadOK, Empty

(* The sizes are taken from the files, and the buckets are written.        *)
LEMMA OpenInitOK ==
    ASSUME OnlyKills, FilesOK, TypeInv, LockInv, NEW t \in Thread, ThreadOK(t),
           OpenInit(t)
    PROVE  FilesOK' /\ ThreadOK(t)' /\ kdb_locsize' > 0 /\ Log' = Log
  <1> DEFINE nulls == [k \in 1..HASHSIZ |-> 0]
  <1>1. /\ pc[t] = "open_init" /\ pc'[t] = "idle" /\ table' = table
        /\ kdb_tablesize' = IF kdb_tablesize = 0 THEN Len(table) ELSE kdb_tablesize
        /\ UNCHANGED <<req, kb, oidx, ret, readers>>
        /\ \/ Len(loc) > 0 /\ kdb_locsize = 0 /\ kdb_locsize' = Len(loc)
              /\ UNCHANGED loc
           \/ kdb_locsize > 0 /\ kdb_locsize' = kdb_locsize /\ UNCHANGED loc
           \/ /\ kdb_locsize = 0 /\ Len(loc) = 0
              /\ loc' = loc \o nulls /\ kdb_locsize' = HASHSIZ
    <2>1. "write" \notin Faults
      BY DEF OnlyKills
    <2>2. /\ pc \in [Thread -> Pc] /\ kdb_locsize \in Nat
          /\ loc \in Seq(Nat \cup Loc \cup {Garbage}) /\ Len(loc) \in Nat
      BY DEF TypeInv, TypeOK
    <2> QED
      BY <2>1, <2>2 DEF OpenInit, At, Goto, walk, wrunlock
  <1>2. /\ table \in Seq(Nat) /\ loc \in Seq(Cells) /\ HASHSIZ \in Nat
        /\ HASHSIZ > 0 /\ Len(loc) \in Nat /\ Len(table) \in Nat
    BY SizeAssumption DEF TypeInv, TypeOK, Cells
  <1>3. /\ kdb_locsize > 0 =>
              kdb_locsize = Len(loc) /\ kdb_tablesize = Len(table)
        /\ kdb_locsize = 0 => kdb_tablesize = 0
    BY DEF FilesOK, SizesKnown, SizesRight
  <1>4. kdb_tablesize' = Len(table')
    BY <1>1, <1>3
  <1>5. CASE UNCHANGED loc
    <2>1. kdb_locsize' = Len(loc') /\ kdb_locsize' > 0
      BY <1>1, <1>2, <1>3, <1>5
    <2>2. \A o \in Nat : LocAt(o) \in Loc => LocAt(o)' = LocAt(o)
      BY <1>5 DEF LocAt
    <2>3. /\ WholeRecords' /\ Resolving' /\ Sorted' /\ Log' = Log
      BY <1>1, <1>2, <2>2, SameTable, SameLog DEF FilesOK
    <2>4. IndexTable'
      BY <1>5 DEF FilesOK, IndexTable
    <2>5. SizesKnown'
      BY <1>4, <2>1 DEF SizesKnown, SizesRight
    <2>6. ThreadOK(t)'
      BY <1>1, <2>1 DEF ThreadOK, OpenPc, AcceptedPc, Empty
    <2> QED
      BY <2>1, <2>3, <2>4, <2>5, <2>6 DEF FilesOK
  <1>6. CASE Len(loc) = 0 /\ loc' = loc \o nulls /\ kdb_locsize' = HASHSIZ
    <2>1. nulls \in Seq(Cells) /\ Len(nulls) = HASHSIZ
      BY <1>2 DEF Cells
    <2>2. \A k \in 1..HASHSIZ : nulls[k] = 0
      OBVIOUS
    <2> HIDE DEF nulls
    <2>3. /\ Len(loc') = HASHSIZ
          /\ \A k \in 1..HASHSIZ : loc'[0 + k] = 0
          /\ \A o \in Nat : LocAt(o) \in Loc => LocAt(o)' = LocAt(o)
      BY <1>2, <1>6, <2>1, <2>2, GrowthKeepsLocs
    <2>4. /\ WholeRecords' /\ Resolving' /\ Sorted' /\ Log' = Log
      BY <1>1, <1>2, <2>3, SameTable, SameLog DEF FilesOK
    <2>5. IndexTable'
      <3>1. \A k \in 1..HASHSIZ : loc'[k] = 0
        BY <2>3
      <3>2. 0 \notin Loc
        BY LocAssumption
      <3> QED
        BY <1>2, <2>3, <3>1, <3>2 DEF IndexTable
    <2>6. SizesKnown' /\ kdb_locsize' > 0
      BY <1>2, <1>4, <1>6, <2>3 DEF SizesKnown, SizesRight
    <2>7. ThreadOK(t)'
      BY <1>1, <2>6 DEF ThreadOK, OpenPc, AcceptedPc, Empty
    <2> QED
      BY <2>4, <2>5, <2>6, <2>7 DEF FilesOK
  <1> QED
    BY <1>1, <1>5, <1>6

(* What a thread that adds has.                                            *)
LEMMA AddHas ==
    ASSUME FilesOK, TypeInv, LockInv, NEW t \in Thread, ThreadOK(t),
           pc[t] \in WritePc \ {"open_init"}
    PROVE  /\ Empty(kb[t]) /\ readers[t] = 0 /\ kdb_locsize > 0
           /\ kdb_locsize = Len(loc) /\ kdb_tablesize = Len(table)
           /\ Len(loc) >= HASHSIZ /\ pc[t] \in AddPc
           /\ req[t] \in AddReqs /\ req[t] \in [time : Nat, val : Nat, loc : Loc]
           /\ table \in Seq(Nat) /\ loc \in Seq(Cells)
  <1>1. Empty(kb[t]) /\ readers[t] = 0
    BY ThreadAssumption DEF ThreadOK, LockInv, LockSafe, LockType
  <1>2. kdb_locsize > 0 /\ pc[t] \in AddPc
    BY DEF ThreadOK, WritePc, OpenPc, AddPc
  <1>3. kdb_locsize = Len(loc) /\ kdb_tablesize = Len(table)
    BY <1>2 DEF FilesOK, SizesKnown, SizesRight
  <1>4. req[t] \in AddReqs /\ table \in Seq(Nat) /\ loc \in Seq(Cells)
    BY <1>2 DEF TypeInv, TypeOK, CallOK, Cells
  <1>5. loc # << >>
    <2>1. loc = << >> => Len(loc) = 0
      OBVIOUS
    <2> QED
      BY <1>2, <1>3, <2>1
  <1> QED
    BY <1>1, <1>2, <1>3, <1>4, <1>5, ReqAssumption DEF FilesOK, IndexTable

(* The walk along the chain of a bucket.                                   *)
LEMMA FollowOK ==
    ASSUME FilesOK, TypeInv, LockInv, NEW t \in Thread, ThreadOK(t),
           pc[t] \in {"loc_bucket", "loc_walk"}, NEW o, NEW place,
           Follow(t, o, place), UNCHANGED <<disk, sizes, kb>>
    PROVE  ThreadOK(t)'
  <1>1. /\ Empty(kb'[t]) /\ kdb_locsize' > 0 /\ pc[t] \in AddPc
    BY AddHas DEF WritePc, sizes, Empty
  <1>3. NoYounger(req[t]) /\ req' = req
    BY DEF ThreadOK, AcceptedPc, Follow
  <1>4. NoYounger(req[t])'
    BY <1>3 DEF NoYounger, Records, Record, LocAt, disk
  <1>5. PICK p \in {"loc_append", "loc_walk"} : Goto(t, p)
    BY DEF Follow
  <1>6. p \in AddPc /\ p \notin {"loc_link", "add_record"}
    BY <1>5 DEF AddPc
  <1>7. UNCHANGED <<readers, req, ret>>
    BY DEF Follow, lock
  <1> QED
    BY <1>1, <1>4, <1>5, <1>6, <1>7, AddGoesOn

LEMMA LocBucketOK ==
    ASSUME OnlyKills, FilesOK, TypeInv, LockInv, NEW t \in Thread, ThreadOK(t),
           LocBucket(t)
    PROVE  FilesOK' /\ ThreadOK(t)' /\ UNCHANGED <<disk, sizes, req, ret>>
  <1> DEFINE h == Hash[req[t].loc]
  <1>1. pc[t] = "loc_bucket" /\ pc[t] \in WritePc \ {"open_init"}
    BY DEF LocBucket, At, WritePc
  <1>2. h \in 0..HASHSIZ-1 /\ h < Len(loc)
    BY <1>1, AddHas, LocAssumption, SizeAssumption
  <1>3. "read" \notin Faults /\ ~ (h >= Len(loc))
    <2>1. Len(loc) \in Nat /\ HASHSIZ \in Nat
      BY SizeAssumption DEF TypeInv, TypeOK
    <2> QED
      BY <1>2, <2>1 DEF OnlyKills
  <1> DEFINE place == [bucket |-> h, whole |-> TRUE]
  <1>4. Follow(t, OffsetAt(h), place) /\ UNCHANGED <<disk, sizes, kb, out>>
    BY <1>3 DEF LocBucket, LocReadFailed
  <1>5. ThreadOK(t)'
    BY <1>1, <1>4, FollowOK
  <1> QED
    BY <1>4, <1>5, SameFiles DEF Follow

LEMMA LocWalkOK ==
    ASSUME OnlyKills, DataInv, TypeInv, LockInv, NEW t \in Thread, LocWalk(t),
           ~ damaged, ~ damaged'
    PROVE  /\ FilesOK' /\ ThreadOK(t)' /\ UNCHANGED <<table, loc, sizes, kb, out>>
           /\ \/ UNCHANGED <<req, ret>>
              \/ \E r \in {"ESHUTDOWN", "EINVAL"} : AddFail(t, r)
  <1> DEFINE entry == loc[idx[t] + 1]
  <1>ok. FilesOK /\ ThreadOK(t)
    BY DEF DataInv
  <1>1. pc[t] = "loc_walk" /\ pc[t] \in WritePc \ {"open_init"}
        /\ UNCHANGED <<table, loc, sizes, kb, out>>
    BY DEF LocWalk, At, WritePc
  <1>same. UNCHANGED disk
    <2>1. damaged' = damaged
      BY DEF LocWalk, LocMisread
    <2> QED
      BY <1>1, <2>1 DEF disk
  <1>2. Empty(kb[t]) /\ kdb_locsize' > 0 /\ pc[t] \in AddPc /\ Empty(kb'[t])
    BY <1>ok, <1>1, AddHas DEF sizes
  <1>3. FilesOK' /\ NoYounger(req[t])
    BY <1>ok, <1>1, <1>same, SameFiles DEF ThreadOK, AcceptedPc
  <1>4. CASE /\ EntryAt(idx[t]) /\ entry = req[t].loc /\ Goto(t, "add_record")
             /\ UNCHANGED <<lock, req, off, walk, i, ret, failed>>
    <2>1. UNCHANGED <<readers, req, ret, idx>> /\ loc' = loc /\ table' = table
      BY <1>1, <1>4 DEF lock, walk
    <2>2. NoYounger(req[t])'
      BY <1>3, <2>1 DEF NoYounger, Records, Record
    <2>3. LocAt(idx[t]) = req[t].loc
      <3>1. Len(loc) \in Nat
        BY DEF TypeInv, TypeOK
      <3>2. idx[t] < Len(loc) /\ entry \in Loc
        BY <1>4, <3>1 DEF EntryAt
      <3> QED
        BY <1>4, <3>2 DEF LocAt
    <2>4. LocAt(idx[t])' = req[t].loc
      BY <2>1, <2>3 DEF LocAt
    <2>6. "add_record" \in AddPc
      BY DEF AddPc
    <2>7. ThreadOK(t)'
      BY <1>ok, <1>2, <1>4, <2>1, <2>2, <2>4, <2>6, AddGoesOn
    <2> QED
      BY <1>1, <1>3, <2>1, <2>7
  <1>5. CASE \E o, place : Follow(t, o, place)
    <2>1. ThreadOK(t)'
      BY <1>ok, <1>1, <1>same, <1>5, FollowOK
    <2> QED
      BY <1>1, <1>3, <1>5, <2>1 DEF Follow
  <1>6. CASE \E r \in {"ESHUTDOWN", "EINVAL"} : AddFail(t, r)
    BY <1>ok, <1>1, <1>same, <1>2, <1>6, AddFailOK
  <1>7. CASE \E x : Abort(x)
    <2>1. DataInv' /\ UNCHANGED <<req, ret>>
      BY <1>1, <1>7, AbortKeepsData DEF Abort
    <2> QED
      BY <1>1, <2>1 DEF DataInv
  <1>8. "read" \notin Faults
    BY DEF OnlyKills
  <1>9. CASE LocMisread(t)
    BY <1>5, <1>6, <1>7, <1>9 DEF LocMisread
  <1> QED
    BY <1>4, <1>5, <1>8, <1>9 DEF LocWalk, LocReadFailed

LEMMA LocAppendOK ==
    ASSUME OnlyKills, FilesOK, TypeInv, LockInv, NEW t \in Thread, ThreadOK(t),
           LocAppend(t)
    PROVE  /\ FilesOK' /\ ThreadOK(t)' /\ kdb_locsize' > 0
           /\ Log' = Log /\ UNCHANGED <<damaged, req, ret, out>>
  <1>1. pc[t] = "loc_append" /\ pc[t] \in WritePc \ {"open_init"}
    BY DEF LocAppend, At, WritePc
  <1> DEFINE entry == <<req[t].loc, 0>>
  <1>2. /\ loc' = loc \o entry /\ kdb_locsize' = kdb_locsize + Len(entry)
        /\ idx' = [idx EXCEPT ![t] = kdb_locsize] /\ Goto(t, "loc_link")
        /\ UNCHANGED <<readers, req, ret, table, damaged, kdb_tablesize, kb, out>>
    BY DEF LocAppend, OnlyKills, kcndb_db_loc_size_increment, lock
  <1>3. /\ Empty(kb[t]) /\ kdb_locsize > 0 /\ kdb_locsize = Len(loc)
        /\ kdb_tablesize = Len(table) /\ Len(loc) >= HASHSIZ
        /\ pc[t] \in AddPc /\ req[t].loc \in Loc
        /\ table \in Seq(Nat) /\ loc \in Seq(Cells) /\ HASHSIZ \in Nat
    BY <1>1, AddHas, SizeAssumption
  <1>4. /\ entry \in Seq(Cells) /\ Len(entry) = 2 /\ entry[1] = req[t].loc
    BY <1>3 DEF Cells
  <1> HIDE DEF entry
  <1>n. PICK n \in Nat : n = Len(loc)
    BY <1>3
  <1>5. /\ Len(loc') = n + 2 /\ loc'[n + 1] = req[t].loc
        /\ \A k \in 1..n : loc'[k] = loc[k]
        /\ \A o \in Nat : LocAt(o) \in Loc => LocAt(o)' = LocAt(o)
    <2>1. /\ Len(loc') = Len(loc) + Len(entry)
          /\ \A k \in 1..Len(loc) : loc'[k] = loc[k]
          /\ \A k \in 1..Len(entry) : loc'[Len(loc) + k] = entry[k]
          /\ \A o \in Nat : LocAt(o) \in Loc => LocAt(o)' = LocAt(o)
      BY <1>2, <1>3, <1>4, GrowthKeepsLocs
    <2>2. 1 \in 1..Len(entry)
      BY <1>4
    <2>3. loc'[Len(loc) + 1] = req[t].loc
      BY <1>4, <2>1, <2>2
    <2>4. Len(loc') = n + 2
      BY <1>4, <1>n, <2>1
    <2> QED
      BY <1>n, <2>1, <2>3, <2>4
  <1>6. /\ WholeRecords' /\ Resolving' /\ Sorted' /\ Log' = Log
        /\ \A r : NoYounger(r) => NoYounger(r)'
    BY <1>2, <1>3, <1>5, SameTable, SameLog DEF FilesOK
  <1>7. IndexTable'
    <2>1. Len(loc') >= HASHSIZ
      BY <1>3, <1>5, <1>n
    <2>2. ASSUME NEW k \in 1..HASHSIZ PROVE loc'[k] \notin Loc
      <3>1. k \in 1..n
        BY <1>3, <1>n
      <3> QED
        BY <1>5, <1>n, <3>1 DEF FilesOK, IndexTable
    <2> QED
      BY <2>1, <2>2 DEF IndexTable
  <1>8. kdb_locsize' = Len(loc') /\ kdb_tablesize' = Len(table') /\ kdb_locsize' > 0
    BY <1>2, <1>3, <1>4, <1>5, <1>n
  <1>9. SizesKnown'
    BY <1>8 DEF SizesKnown, SizesRight
  <1>10. LocAt(idx[t])' = req[t].loc
    <2>1. idx'[t] = n
      BY <1>2, <1>3, <1>n DEF TypeInv, TypeOK
    <2> QED
      BY <1>3, <1>5, <2>1 DEF LocAt
  <1>11. NoYounger(req[t])'
    <2>1. NoYounger(req[t]) /\ req' = req
      BY <1>1, <1>2 DEF ThreadOK, AcceptedPc
    <2> QED
      BY <1>2, <2>1 DEF NoYounger, Records, Record
  <1>13. ThreadOK(t)'
    <2>1. "loc_link" \in AddPc
      BY DEF AddPc
    <2>2. Empty(kb'[t])
      BY <1>2, <1>3
    <2> QED
      BY <1>2, <1>3, <1>8, <1>10, <1>11, <2>1, <2>2, AddGoesOn
  <1> QED
    BY <1>2, <1>6, <1>7, <1>8, <1>9, <1>13 DEF FilesOK

LEMMA LocLinkOK ==
    ASSUME OnlyKills, FilesOK, TypeInv, LockInv, NEW t \in Thread, ThreadOK(t),
           LocLink(t), ~ damaged'
    PROVE  /\ FilesOK' /\ ThreadOK(t)' /\ kdb_locsize' > 0
           /\ Log' = Log /\ UNCHANGED <<req, ret, out>>
  <1>1. pc[t] = "loc_link" /\ pc[t] \in WritePc \ {"open_init"}
    BY DEF LocLink, At, WritePc
  <1>2. /\ loc' \in Linked(loc, oidx[t], idx[t]) /\ InBuckets(oidx[t])
        /\ Goto(t, "add_record")
        /\ UNCHANGED <<readers, req, idx, ret, table, kb, out,
                       kdb_tablesize, kdb_locsize>>
    BY DEF LocLink, OnlyKills, lock, walk, sizes
  <1>3. /\ Empty(kb[t]) /\ kdb_locsize > 0 /\ kdb_locsize = Len(loc)
        /\ kdb_tablesize = Len(table) /\ Len(loc) >= HASHSIZ
        /\ pc[t] \in AddPc /\ table \in Seq(Nat) /\ loc \in Seq(Cells)
    BY <1>1, AddHas
  <1>4. oidx[t] \in Places /\ idx[t] \in Nat
    BY <1>1 DEF TypeInv, TypeOK, CallOK
  <1>5. /\ IndexTable' /\ Len(loc') = Len(loc)
        /\ \A o \in Nat : LocAt(o)' = LocAt(o)
    BY <1>2, <1>3, <1>4, LinkKeepsLocs DEF FilesOK
  <1>6. /\ WholeRecords' /\ Resolving' /\ Sorted' /\ Log' = Log
    BY <1>2, <1>3, <1>5, SameTable, SameLog DEF FilesOK
  <1>7. SizesKnown'
    BY <1>2, <1>3, <1>5 DEF SizesKnown, SizesRight
  <1>8. LocAt(idx[t])' = req[t].loc
    <2>1. PICK o \in Nat : o = idx[t]
      BY <1>4
    <2>2. LocAt(o) = req[t].loc
      BY <1>1, <2>1 DEF ThreadOK
    <2>3. LocAt(o)' = req[t].loc /\ idx'[t] = o
      BY <1>2, <1>5, <2>1, <2>2
    <2> QED
      BY <2>3 DEF LocAt
  <1>9. NoYounger(req[t])'
    <2>1. NoYounger(req[t]) /\ req' = req
      BY <1>1, <1>2 DEF ThreadOK, AcceptedPc
    <2> QED
      BY <1>2, <2>1 DEF NoYounger, Records, Record
  <1>10. ThreadOK(t)'
    <2>1. "add_record" \in AddPc
      BY DEF AddPc
    <2>2. Empty(kb'[t]) /\ kdb_locsize' > 0
      BY <1>2, <1>3
    <2> QED
      BY <1>2, <1>3, <1>8, <1>9, <2>1, <2>2, AddGoesOn
  <1> QED
    BY <1>2, <1>3, <1>5, <1>6, <1>7, <1>10 DEF FilesOK

(* The record that was asked for is added, or the process is gone.         *)
LEMMA AddRecordOK ==
    ASSUME OnlyKills, FilesOK, TypeInv, LockInv, NEW t \in Thread, ThreadOK(t),
           AddRecord(t)
    PROVE  \/ /\ FilesOK' /\ ThreadOK(t)' /\ kdb_locsize' > 0
              /\ NoYounger(req[t]) /\ Log' = Append(Log, req[t])
              /\ Reply(t, "ok") /\ UNCHANGED out
           \/ Abort("append") /\ UNCHANGED out
  <1>1. pc[t] = "add_record" /\ pc[t] \in WritePc \ {"open_init"}
    BY DEF AddRecord, At, WritePc
  <1>2. SUFFICES ASSUME ~ (Abort("append") /\ UNCHANGED out)
                 PROVE  /\ FilesOK' /\ ThreadOK(t)' /\ kdb_locsize' > 0
                        /\ NoYounger(req[t]) /\ Log' = Append(Log, req[t])
                        /\ Reply(t, "ok") /\ UNCHANGED out
    OBVIOUS
  <1>3. /\ table' = table \o <<req[t].time, req[t].val, idx[t]>>
        /\ kdb_tablesize' = kdb_tablesize + 3
        /\ kb' = [kb EXCEPT ![t] = kcn_buf_reset(0)]
        /\ readers' = readers /\ Reply(t, "ok")
        /\ loc' = loc /\ kdb_locsize' = kdb_locsize /\ out' = out
    BY <1>2, AddRecordWorks DEF wrunlock
  <1>4. /\ kdb_locsize > 0 /\ kdb_locsize = Len(loc)
        /\ kdb_tablesize = Len(table) /\ table \in Seq(Nat)
        /\ req[t] \in [time : Nat, val : Nat, loc : Loc]
    BY <1>1, AddHas
  <1>5. idx[t] \in Nat /\ LocAt(idx[t]) = req[t].loc /\ NoYounger(req[t])
    BY <1>1 DEF TypeInv, CallOK, ThreadOK, AcceptedPc
  <1>6. req[t] = [time |-> req[t].time, val |-> req[t].val, loc |-> LocAt(idx[t])]
    BY <1>4, <1>5
  <1>7. /\ Records' = Records + 1 /\ WholeRecords' /\ Resolving'
        /\ Len(table') = Len(table) + 3
        /\ \A k \in 1..Records : Record(k)' = Record(k)
        /\ \A k : k = Records + 1 => Record(k)' = req[t]
        /\ Log' = Append(Log, req[t])
    <2>1. req[t].time \in Nat /\ req[t].val \in Nat /\ LocAt(idx[t]) \in Loc
      BY <1>4, <1>5
    <2>2. /\ Records' = Records + 1 /\ WholeRecords' /\ Resolving'
          /\ Len(table') = Len(table) + 3
          /\ \A k \in 1..Records : Record(k)' = Record(k)
          /\ \A k : k = Records + 1 =>
               Record(k)' = [time |-> req[t].time, val |-> req[t].val,
                             loc |-> LocAt(idx[t])]
          /\ Log' = Append(Log, [time |-> req[t].time, val |-> req[t].val,
                                 loc |-> LocAt(idx[t])])
      BY <1>3, <1>4, <1>5, <2>1, LongerLog DEF FilesOK
    <2> QED
      BY <1>6, <2>2
  <1>8. Sorted'
    BY <1>4, <1>5, <1>7, SortedLonger DEF FilesOK
  <1>9. IndexTable'
    BY <1>3 DEF FilesOK, IndexTable
  <1>10. SizesKnown'
    BY <1>3, <1>4, <1>7 DEF SizesKnown, SizesRight
  <1>11. ThreadOK(t)'
    <2>1. kb'[t] = kcn_buf_reset(0)
      BY <1>3 DEF TypeInv, TypeOK
    <2>2. Empty(kb'[t])
      BY <2>1 DEF Empty, kcn_buf_reset
    <2>3. pc[t] \notin OpenPc \cup {"idle"} /\ kdb_locsize' > 0
      BY <1>1, <1>3, <1>4 DEF OpenPc
    <2> QED
      BY <1>3, <2>2, <2>3, ReplyOK
  <1> QED
    BY <1>3, <1>4, <1>5, <1>7, <1>8, <1>9, <1>10, <1>11 DEF FilesOK

(* The steps of a thread that leave the files alone.                       *)
LEMMA CallStepOK ==
    ASSUME FilesOK, TypeInv, LockInv, NEW t \in Thread, ThreadOK(t),
           \/ TableOpen(t) \/ OpenLock(t) \/ AddLock(t) \/ Return(t)
           \/ \E r \in AddReqs : AddCall(t, r)
           \/ \E q \in Queries : SearchCall(t, q)
    PROVE  ThreadOK(t)' /\ UNCHANGED <<disk, sizes>>
  <1> USE DEF At
  <1>type. /\ pc \in [Thread -> Pc] /\ ret \in [Thread -> Results]
           /\ req \in [Thread -> AddReqs \cup Queries \cup {NoReq}]
           /\ readers \in [Thread -> Nat]
    BY DEF TypeInv, TypeOK
  <1>1. CASE TableOpen(t) \/ OpenLock(t)
    <2>1. /\ pc[t] \in OpenPc /\ pc'[t] \in OpenPc
          /\ UNCHANGED <<disk, sizes, req, kb, oidx, ret, readers>>
      BY <1>1, <1>type DEF TableOpen, OpenLock, wrlock, OpenPc, Goto, lock, walk
    <2> QED
      BY <2>1 DEF ThreadOK, OpenPc, AcceptedPc, Empty
  <1>2. CASE AddLock(t)
    <2>1. /\ pc[t] = "add_lock" /\ pc'[t] = "add_last"
          /\ UNCHANGED <<disk, sizes, req, kb, oidx, ret, readers>>
      BY <1>2, <1>type DEF AddLock, wrlock, Goto, walk
    <2> QED
      BY <2>1 DEF ThreadOK, OpenPc, AcceptedPc, Empty, sizes
  <1>3. CASE Return(t)
    <2>1. /\ pc[t] = "reply" /\ pc'[t] = "idle" /\ req'[t] = NoReq
          /\ ret'[t] = "none"
          /\ UNCHANGED <<disk, sizes, kb, oidx, readers>>
      BY <1>3, <1>type DEF Return, Goto, lock, walk
    <2> QED
      BY <2>1 DEF ThreadOK, OpenPc, AcceptedPc, Empty, sizes
  <1>4. ASSUME NEW r \in AddReqs \cup Queries, NEW p \in {"add_lock", "search_lock"},
               pc[t] = "idle", Goto(t, p), req' = [req EXCEPT ![t] = r],
               UNCHANGED <<disk, sizes, lock, kb, off, walk, search, ret, failed>>
        PROVE  ThreadOK(t)' /\ UNCHANGED <<disk, sizes>>
    <2>1. /\ pc'[t] = p /\ req'[t] = r /\ r # NoReq
          /\ UNCHANGED <<disk, sizes, kb, oidx, ret, readers>>
      BY <1>4, <1>type, ReqAssumption DEF Goto, lock, walk
    <2> QED
      BY <1>4, <2>1 DEF ThreadOK, OpenPc, AcceptedPc, Empty, sizes
  <1> QED
    BY <1>1, <1>2, <1>3, <1>4 DEF AddCall, SearchCall

LEMMA SearchStepOK ==
    ASSUME OnlyKills, FilesOK, TypeInv, LockInv, NEW t \in Thread, ThreadOK(t),
           SearchOK(t), SearchLock(t) \/ SearchScan(t) \/ SearchEnd(t)
    PROVE  ThreadOK(t)' /\ UNCHANGED <<disk, sizes>>
  <1> USE DEF At
  <1>type. /\ pc \in [Thread -> Pc] /\ readers \in [Thread -> Nat]
           /\ kb \in [Thread -> GoodBufs(Nat, BUFSIZ)]
    BY DEF TypeInv, TypeOK
  <1>1. CASE SearchLock(t)
    <2>1. /\ pc[t] = "search_lock" /\ UNCHANGED <<disk, sizes>>
          /\ kdb_locsize' > 0
      BY <1>1 DEF SearchLock, ThreadOK, OpenPc, sizes
    <2>2. CASE Reply(t, "EAGAIN") /\ UNCHANGED <<lock, kb>>
      <3>1. pc[t] \notin OpenPc \cup {"idle"} /\ readers'[t] = readers[t]
            /\ kb' = kb
        BY <2>1, <2>2 DEF OpenPc, lock
      <3>2. readers'[t] = 0 => Empty(kb'[t])
        BY <3>1 DEF ThreadOK
      <3> QED
        BY <2>1, <2>2, <3>1, <3>2, ReplyOK
    <2>3. CASE /\ kb' = [kb EXCEPT ![t] = kcn_buf_reset(0)]
               /\ Goto(t, "search_scan")
               /\ UNCHANGED <<req, off, walk, i, ret, failed>>
      <3>1. /\ kb'[t] = kcn_buf_reset(0) /\ pc'[t] = "search_scan"
            /\ UNCHANGED <<req, oidx, ret>>
        BY <2>3, <1>type DEF Goto, walk
      <3>2. Empty(kb'[t])
        BY <3>1 DEF Empty, kcn_buf_reset
      <3> QED
        BY <2>1, <3>1, <3>2 DEF ThreadOK, OpenPc, AcceptedPc, Empty
    <2> QED
      BY <1>1, <2>2, <2>3 DEF SearchLock
  <1>2. CASE SearchScan(t)
    <2>1. /\ pc[t] = "search_scan" /\ readers[t] > 0 /\ WantsMore(t)
      BY <1>2 DEF SearchScan, LockInv, LockSafe, SearchPc
    <2>2. /\ UNCHANGED <<disk, sizes, lock, req, walk, ret, failed>>
          /\ \/ /\ Goto(t, "search_end")
                /\ \E b : Empty(b) /\ kb' = [kb EXCEPT ![t] = b]
             \/ UNCHANGED pc
      BY <1>2, SearchScanWorks
    <2>3. /\ readers'[t] # 0 /\ UNCHANGED <<req, oidx, ret>>
          /\ kdb_locsize' = kdb_locsize
      BY <2>1, <2>2 DEF lock, walk, sizes
    <2>4. req[t].max # 0
      <3>1. Len(out[t]) < req[t].max /\ Len(out[t]) \in Nat
        BY <2>1 DEF WantsMore, TypeInv, TypeOK
      <3> QED
        BY <3>1
    <2>5. CASE Goto(t, "search_end") /\ \E b : Empty(b) /\ kb' = [kb EXCEPT ![t] = b]
      <3>1. pc'[t] = "search_end" /\ Empty(kb'[t])
        BY <2>5, <1>type DEF Goto
      <3> QED
        BY <2>1, <2>2, <2>3, <3>1 DEF ThreadOK, OpenPc, AcceptedPc, Empty
    <2>6. CASE UNCHANGED pc
      BY <2>1, <2>2, <2>3, <2>4, <2>6 DEF ThreadOK, OpenPc, AcceptedPc, Empty
    <2> QED
      BY <2>2, <2>5, <2>6
  <1>3. CASE SearchEnd(t)
    <2>1. /\ pc[t] \in SearchPc /\ UNCHANGED <<disk, sizes, kb>>
          /\ kdb_locsize' > 0 /\ readers[t] > 0
          /\ pc[t] \notin OpenPc \cup {"idle"}
      BY <1>3 DEF SearchEnd, SearchPc, ThreadOK, OpenPc, sizes, LockInv, LockSafe
    <2>2. CASE out[t] = << >> /\ SearchFail(t, "ESRCH")
      <3>1. Empty(kb[t])
        <4>1. CASE pc[t] = "search_end"
          BY <4>1 DEF ThreadOK
        <4>2. CASE pc[t] = "search_scan" /\ ~ WantsMore(t)
          <5>1. req[t].max \in Nat /\ Len(out[t]) = 0
            BY <2>2, <4>2, ReqAssumption DEF TypeInv, CallOK, SearchPc
          <5>2. req[t].max = 0
            BY <4>2, <5>1 DEF WantsMore
          <5> QED
            BY <4>2, <5>2 DEF ThreadOK
        <4> QED
          BY <1>3, <4>1, <4>2 DEF SearchEnd
      <3>2. Empty(kb'[t]) /\ Reply(t, "ESRCH")
        BY <2>1, <2>2, <3>1 DEF SearchFail
      <3> QED
        BY <2>1, <3>2, ReplyOK
    <2>3. CASE Reply(t, "ok") /\ UNCHANGED lock
      <3>1. readers'[t] # 0
        BY <2>1, <2>3 DEF lock
      <3> QED
        BY <2>1, <2>3, <3>1, ReplyOK
    <2> QED
      BY <1>3, <2>2, <2>3 DEF SearchEnd
  <1> QED
    BY <1>1, <1>2, <1>3

LEMMA ReadLastOK ==
    ASSUME OnlyKills, FilesOK, TypeInv, LockInv, NEW t \in Thread, ThreadOK(t),
           RecordReadLast(t)
    PROVE  ThreadOK(t)' /\ UNCHANGED <<disk, sizes>>
  <1>1. pc[t] = "add_last" /\ pc[t] \in WritePc \ {"open_init"}
    BY DEF RecordReadLast, At, WritePc
  <1>2. /\ Empty(kb'[t]) /\ UNCHANGED <<disk, sizes, out>>
        /\ \/ /\ NoYounger(req[t]) /\ Goto(t, "loc_bucket")
              /\ UNCHANGED <<lock, req, off, walk, i, ret, failed>>
           \/ AddFail(t, "ERANGE")
    BY ReadLastWorks DEF TypeInv, TypeOK
  <1>3. kdb_locsize' > 0 /\ pc[t] \in AddPc
    BY <1>1, <1>2, AddHas DEF sizes
  <1>4. CASE /\ NoYounger(req[t]) /\ Goto(t, "loc_bucket")
             /\ UNCHANGED <<lock, req, off, walk, i, ret, failed>>
    <2>1. /\ UNCHANGED <<readers, req, ret, oidx>> /\ table' = table
          /\ "loc_bucket" \in AddPc
      BY <1>2, <1>4 DEF lock, walk, disk, AddPc
    <2>2. NoYounger(req[t])'
      BY <1>4, <2>1 DEF NoYounger, Records, Record
    <2> QED
      BY <1>2, <1>3, <1>4, <2>1, <2>2, AddGoesOn
  <1>5. CASE AddFail(t, "ERANGE")
    <2>1. Reply(t, "ERANGE") /\ pc[t] \notin OpenPc \cup {"idle"}
      BY <1>1, <1>5 DEF AddFail, OpenPc
    <2> QED
      BY <1>2, <1>3, <2>1, ReplyOK
  <1> QED
    BY <1>2, <1>4, <1>5

LEMMA BootKeepsData ==
    ASSUME DataInv, Boot
    PROVE  DataInv'
  <1>1. table' = table /\ loc' = loc /\ kdb_tablesize' = 0 /\ kdb_locsize' = 0
    BY DEF Boot, disk
  <1>2. FilesOK'
    BY <1>1 DEF DataInv, FilesOK, WholeRecords, IndexTable, SizesKnown,
       SizesRight, Resolving, Sorted, Records, Record, LocAt
  <1>3. ASSUME NEW t \in Thread PROVE ThreadOK(t)'
    <2>1. /\ pc'[t] = "closed" /\ req'[t] = NoReq /\ ret'[t] = "none"
          /\ kb'[t] = kcn_buf_reset(0) /\ oidx'[t] = NoPlace
      BY DEF Boot
    <2> QED
      BY <2>1 DEF ThreadOK, OpenPc, AcceptedPc, NoPlace, Empty, kcn_buf_reset
  <1> QED
    BY <1>2, <1>3 DEF DataInv

LEMMA DataStep ==
    ASSUME OnlyKills, DataInv, SearchInv, TypeInv, LockInv, [Next]_vars,
           ~ damaged, ~ damaged'
    PROVE  DataInv'
  <1>1. CASE UNCHANGED vars
    <2>1. UNCHANGED <<disk, sizes>> /\ \A t \in Thread : Kept(t)
      BY <1>1 DEF vars, Kept, lock, walk, search
    <2>2. kdb_locsize > 0 => kdb_locsize' > 0
      BY <2>1 DEF sizes
    <2> QED
      BY <2>1, <2>2, SameFiles, KeptThreadOK DEF DataInv
  <1>2. CASE Boot
    BY <1>2, BootKeepsData
  <1>3. ASSUME NEW t \in Thread,
               \/ Step(t)
               \/ \E r \in AddReqs : AddCall(t, r)
               \/ \E q \in Queries : SearchCall(t, q)
        PROVE  DataInv'
    <2>1. FilesOK /\ ThreadOK(t) /\ SearchOK(t)
      BY DEF DataInv, SearchInv
    <2>quiet. ASSUME ThreadOK(t)', UNCHANGED <<disk, sizes>> PROVE DataInv'
      <3>1. FilesOK' /\ (kdb_locsize > 0 => kdb_locsize' > 0) /\ UNCHANGED disk
        BY <2>1, <2>quiet, SameFiles DEF sizes
      <3> QED
        BY <1>3, <2>quiet, <3>1, StepKeepsData
    <2>writer. ASSUME FilesOK', ThreadOK(t)', kdb_locsize' > 0, pc[t] \in WritePc
               PROVE  DataInv'
      BY <1>3, <2>writer, StepKeepsData
    <2>2. CASE \/ TableOpen(t) \/ OpenLock(t) \/ AddLock(t) \/ Return(t)
               \/ \E r \in AddReqs : AddCall(t, r)
               \/ \E q \in Queries : SearchCall(t, q)
      BY <2>1, <2>2, <2>quiet, CallStepOK
    <2>3. CASE SearchLock(t) \/ SearchScan(t) \/ SearchEnd(t)
      BY <2>1, <2>3, <2>quiet, SearchStepOK
    <2>4. CASE RecordReadLast(t)
      BY <2>1, <2>4, <2>quiet, ReadLastOK
    <2>5. CASE LocBucket(t)
      BY <2>1, <2>5, <2>quiet, LocBucketOK
    <2>6. CASE LocWalk(t)
      <3>1. pc[t] \in WritePc
        BY <2>6 DEF LocWalk, At, WritePc
      <3>2. FilesOK' /\ ThreadOK(t)' /\ UNCHANGED sizes
        BY <2>6, LocWalkOK
      <3>3. kdb_locsize > 0 => kdb_locsize' > 0
        BY <3>2 DEF sizes
      <3> QED
        BY <1>3, <3>1, <3>2, <3>3, StepKeepsData
    <2>7. CASE OpenInit(t) \/ LocAppend(t) \/ LocLink(t)
      <3>1. pc[t] \in WritePc
        BY <2>7 DEF OpenInit, LocAppend, LocLink, At, WritePc
      <3>2. FilesOK' /\ ThreadOK(t)' /\ kdb_locsize' > 0
        BY <2>1, <2>7, OpenInitOK, LocAppendOK, LocLinkOK
      <3> QED
        BY <2>writer, <3>1, <3>2
    <2>8. CASE AddRecord(t)
      <3>1. pc[t] \in WritePc
        BY <2>8 DEF AddRecord, At, WritePc
      <3>2. \/ FilesOK' /\ ThreadOK(t)' /\ kdb_locsize' > 0
            \/ Abort("append") /\ UNCHANGED out
        BY <2>1, <2>8, AddRecordOK
      <3> QED
        BY <2>writer, <3>1, <3>2, AbortKeepsData
    <2> QED
      BY <1>3, <2>2, <2>3, <2>4, <2>5, <2>6, <2>7, <2>8 DEF Step
  <1> QED
    BY <1>1, <1>2, <1>3 DEF Next, Kill, Restart

LEMMA DataInit ==
    ASSUME Init
    PROVE  DataInv
  <1>1. Records = 0 /\ Len(table) = 0 /\ Len(loc) = 0
    BY DEF Init, Records, KCNDB_DB_RECORDSIZ
  <1>2. FilesOK
    <2>1. WholeRecords /\ Resolving /\ Sorted
      BY <1>1 DEF WholeRecords, Resolving, Sorted
    <2>2. IndexTable /\ SizesKnown
      BY <1>1 DEF Init, IndexTable, SizesKnown, SizesRight
    <2> QED
      BY <2>1, <2>2 DEF FilesOK
  <1>3. ASSUME NEW t \in Thread PROVE ThreadOK(t)
    <2>1. /\ pc[t] = "closed" /\ req[t] = NoReq /\ ret[t] = "none"
          /\ kb[t] = kcn_buf_reset(0) /\ oidx[t] = NoPlace
      BY DEF Init
    <2> QED
      BY <2>1 DEF ThreadOK, OpenPc, AcceptedPc, NoPlace, Empty, kcn_buf_reset
  <1> QED
    BY <1>2, <1>3 DEF DataInv

(* All of it holds until the table is damaged; but the types, the lock and *)
(* the searches are right even then.                                       *)
TableInv == TypeInv /\ LockInv /\ SearchInv /\ (damaged \/ DataInv)

LEMMA TableInit ==
    ASSUME Init
    PROVE  TableInv
  <1>1. SearchInv
    BY DEF Init, SearchInv, SearchOK, SearchPc
  <1> QED
    BY <1>1, TypeInit, DataInit DEF TableInv

(* Nothing mends a table.                                                  *)
LEMMA DamageStays ==
    ASSUME damaged, [Next]_vars
    PROVE  damaged'
  <1>1. ASSUME NEW t \in Thread, Step(t) PROVE damaged'
    BY <1>1 DEF Step, TableOpen, OpenLock, OpenInit, AddLock, RecordReadLast,
       LocBucket, LocWalk, LocMisread, LocAppend, LocLink, AddRecord, Abort,
       SearchLock, SearchScan, SearchEnd, Return, disk
  <1> QED
    BY <1>1 DEF Next, AddCall, SearchCall, Kill, Restart, Boot, vars, disk

LEMMA TableStep ==
    ASSUME OnlyKills, TableInv, [Next]_vars
    PROVE  TableInv'
  <1>1. TypeInv' /\ LockInv' /\ SearchInv'
    BY TypeStep, LockStep, SearchStep DEF TableInv
  <1>2. CASE ~ damaged /\ ~ damaged'
    BY <1>1, <1>2, DataStep DEF TableInv
  <1>3. CASE damaged'
    BY <1>1, <1>3 DEF TableInv
  <1> QED
    BY <1>1, <1>2, <1>3, DamageStays DEF TableInv

(* The invariant holds throughout, whatever is killed and when.            *)
LEMMA TableInvHolds ==
    ASSUME OnlyKills
    PROVE  Spec => []TableInv
  <1>1. Init => TableInv
    BY TableInit
  <1>2. TableInv /\ [Next]_vars => TableInv'
    BY TableStep
  <1> QED
    BY <1>1, <1>2, PTL DEF Spec

(* The sizes that the threads share are those of the files once a thread   *)
(* has opened them, however the processes before it ended: what            *)
(* kcndb_db_init takes from fstat and the increments of                    *)
(* kcndb_db_record_add add up.                                             *)
THEOREM SizesStayRight ==
    ASSUME OnlyKills
    PROVE  Spec => []SizesAgree
  <1>1. TableInv => SizesAgree
    BY DEF TableInv, DataInv, FilesOK, SizesKnown, SizesRight, SizesAgree
  <1> QED
    BY <1>1, TableInvHolds, PTL

(* The record file holds whole records, and the place each gives for its   *)
(* locator has one, although kcndb_db_loc_add writes the links of long     *)
(* chains over buckets and follows what is left of them anywhere: until a  *)
(* link falls behind the buckets, or bytes that are none are taken for the *)
(* entry of a locator, no link, no new entry and no new index table        *)
(* replaces a locator.                                                     *)
THEOREM RecordsAlwaysResolve ==
    ASSUME OnlyKills
    PROVE  Spec => []RecordsResolve
  <1>1. TableInv => RecordsResolve
    <2> SUFFICES ASSUME TableInv, ~ damaged PROVE RecordsResolve
      BY DEF RecordsResolve
    <2>1. /\ table \in Seq(Nat) /\ WholeRecords /\ Resolving
      BY DEF TableInv, TypeInv, TypeOK, DataInv, FilesOK
    <2>2. Len(table) % KCNDB_DB_RECORDSIZ = 0
      <3>1. \A n \in Nat : (3 * n) % 3 = 0
        OBVIOUS
      <3> QED
        BY <2>1, <3>1, RecordsBounds DEF WholeRecords, KCNDB_DB_RECORDSIZ
    <2>3. ASSUME NEW k \in 1..Records PROVE Record(k).loc \in Loc
      BY <2>1, RecordWords DEF Resolving
    <2> QED
      BY <2>2, <2>3 DEF RecordsResolve
  <1> QED
    BY <1>1, TableInvHolds, PTL

(* The records are in the order of their times, though many threads add    *)
(* them with times they took before they had the lock: the last record     *)
(* that kcndb_db_record_read_last compares with is the last of the file,   *)
(* whatever was read through the buffer before.                            *)
THEOREM RecordsStaySorted ==
    ASSUME OnlyKills
    PROVE  Spec => []TimeSorted
  <1>1. TableInv => TimeSorted
    BY DEF TableInv, DataInv, FilesOK, Sorted, TimeSorted
  <1> QED
    BY <1>1, TableInvHolds, PTL

-----------------------------------------------------------------------------
(* The log.                                                                *)

(* Nothing but the last step of an add changes it.                         *)
LEMMA DiskKeepsLog ==
    ASSUME UNCHANGED disk
    PROVE  Log' = Log
  BY DEF disk, Log, Records, Record, LocAt

LEMMA WalkKeepsLog ==
    ASSUME NEW t, LocWalk(t)
    PROVE  Log' = Log
  BY DEF LocWalk, Log, Records, Record, LocAt

LEMMA LogStep ==
    ASSUME OnlyKills, TableInv, [Next]_vars, ~ damaged, ~ damaged'
    PROVE  \/ Log' = Log
           \/ \E t \in Thread : AddRecord(t) /\ Log' = Append(Log, req[t])
  <1>1. CASE UNCHANGED vars \/ Boot
    BY <1>1, DiskKeepsLog DEF vars, Boot
  <1>2. ASSUME NEW t \in Thread,
               \/ Step(t)
               \/ \E r \in AddReqs : AddCall(t, r)
               \/ \E q \in Queries : SearchCall(t, q)
        PROVE  Log' = Log \/ (AddRecord(t) /\ Log' = Append(Log, req[t]))
    <2>1. FilesOK /\ ThreadOK(t) /\ TypeInv /\ LockInv
      BY DEF TableInv, DataInv
    <2>2. CASE UNCHANGED disk
      BY <2>2, DiskKeepsLog
    <2>3. CASE OpenInit(t) \/ LocAppend(t) \/ LocLink(t)
      BY <2>1, <2>3, OpenInitOK, LocAppendOK, LocLinkOK
    <2>4. CASE AddRecord(t)
      <3>1. Abort("append") => UNCHANGED disk
        BY DEF Abort
      <3> QED
        BY <2>1, <2>2, <2>4, <3>1, AddRecordOK
    <2>5. CASE LocWalk(t)
      BY <2>5, WalkKeepsLog
    <2>6. \/ UNCHANGED disk \/ OpenInit(t) \/ LocAppend(t) \/ LocLink(t)
          \/ AddRecord(t) \/ LocWalk(t)
      <3>1. ASSUME NEW r PROVE AddCall(t, r) => UNCHANGED disk
        BY DEF AddCall
      <3>2. ASSUME NEW q PROVE SearchCall(t, q) => UNCHANGED disk
        BY DEF SearchCall
      <3>3. RecordReadLast(t) \/ LocBucket(t) => UNCHANGED disk
        BY DEF RecordReadLast, LocBucket
      <3>4. SearchLock(t) \/ SearchScan(t) \/ SearchEnd(t) => UNCHANGED disk
        BY DEF SearchLock, SearchScan, SearchEnd
      <3>5. TableOpen(t) \/ OpenLock(t) \/ AddLock(t) \/ Return(t) => UNCHANGED disk
        BY DEF TableOpen, OpenLock, AddLock, Return
      <3> QED
        BY <1>2, <3>1, <3>2, <3>3, <3>4, <3>5 DEF Step
    <2> QED
      BY <2>2, <2>3, <2>4, <2>5, <2>6
  <1> QED
    BY <1>1, <1>2 DEF Next, Kill, Restart

(* What was stored is not changed nor lost: across every step of every     *)
(* thread, every kill and every restart the records that were in the files *)
(* are in them again, in their places and with their locators, and at most *)
(* one is new, as long as kcndb_db_loc_add has not written a link over an  *)
(* entry nor taken bytes for an entry that are none.                       *)
THEOREM LogOnlyGrows ==
    ASSUME OnlyKills
    PROVE  Spec => LogGrows
  <1> DEFINE Grows == /\ Len(Log') \in {Len(Log), Len(Log) + 1}
                      /\ SubSeq(Log', 1, Len(Log)) = Log
  <1>1. TableInv /\ [Next]_vars => [~ damaged' => Grows]_vars
    <2> SUFFICES ASSUME TableInv, [Next]_vars, ~ damaged' PROVE Grows
      OBVIOUS
    <2>0. ~ damaged /\ TypeInv /\ LockInv /\ DataInv /\ FilesOK
      BY DamageStays DEF TableInv, DataInv
    <2> DEFINE R == [time : Nat, val : Nat, loc : Loc]
    <2>1. Log \in Seq(R)
      BY <2>0, LogIsSeq DEF TypeInv, TypeOK, DataInv, FilesOK
    <2>2. ASSUME NEW t \in Thread, AddRecord(t) PROVE req[t] \in R
      <3>1. pc[t] \in WritePc \ {"open_init"} /\ ThreadOK(t)
        BY <2>0, <2>2 DEF AddRecord, At, WritePc, DataInv
      <3> QED
        BY <2>0, <3>1, AddHas
    <2>3. Log' = Log \/ \E r \in R : Log' = Append(Log, r)
      BY <2>0, <2>2, LogStep
    <2> HIDE DEF R
    <2>4. ASSUME NEW s \in Seq(R) PROVE SubSeq(s, 1, Len(s)) = s
      OBVIOUS
    <2>5. ASSUME NEW s \in Seq(R), NEW r \in R
          PROVE  /\ Len(Append(s, r)) = Len(s) + 1
                 /\ SubSeq(Append(s, r), 1, Len(s)) = s
      OBVIOUS
    <2> QED
      BY <2>1, <2>3, <2>4, <2>5
  <1> QED
    BY <1>1, TableInvHolds, PTL DEF Spec, LogGrows

-----------------------------------------------------------------------------
(* The implementation of KcndbTable.                                       *)

Ans == [t \in Thread |-> IF ret[t] = "none" THEN << >> ELSE out[t]]

LEMMA TableInitImplements ==
    ASSUME Init
    PROVE  Abstract!Init
  <1>1. Records = 0
    BY DEF Init, Records, KCNDB_DB_RECORDSIZ
  <1>2. Log = << >>
    <2>1. Log = [k \in 1..0 |-> Record(k)]
      BY <1>1 DEF Log
    <2> QED
      BY <2>1
  <1> QED
    BY <1>2 DEF Init, Abstract!Init

(* The two modules select the same records.                                *)
LEMMA SameSelection ==
    ASSUME NEW s, NEW ke, NEW locs
    PROVE  Abstract!Selection(s, ke, locs) <=> Selection(s, ke, locs)
  <1>1. ASSUME NEW r PROVE Abstract!kcn_eq_match(r, ke) <=> kcn_eq_match(r, ke)
    BY DEF Abstract!kcn_eq_match, kcn_eq_match, Abstract!kcn_eq_time_match,
       kcn_eq_time_match, Abstract!kcn_eq_val_match, kcn_eq_val_match,
       Abstract!KCN_TIME_NOW, KCN_TIME_NOW
  <1> QED
    BY <1>1 DEF Abstract!Selection, Selection

(* What a search that ends has sent is an answer, whatever is added        *)
(* thereafter.                                                             *)
LEMMA SearchAnswers ==
    ASSUME TypeInv, FilesOK, NEW t \in Thread, SearchOK(t), SearchEnd(t)
    PROVE  /\ Abstract!Answer(Log, req[t], out[t])
           /\ out[t] \in Abstract!Lists(Log, req[t].max)
  <1>1. /\ table \in Seq(Nat) /\ req[t].max \in Nat /\ i[t] \in Nat
        /\ out[t] \in Seq(Loc \cup {Garbage}) /\ Len(out[t]) \in Nat
    BY ReqAssumption DEF SearchEnd, At, SearchPc, TypeInv, TypeOK, CallOK
  <1>2. /\ i[t] <= Records /\ Len(out[t]) <= req[t].max
        /\ Selection(SubSeq(Log, 1, i[t]), req[t], out[t])
        /\ i[t] = Records \/ ~ WantsMore(t)
    BY DEF SearchEnd, At, SearchPc, SearchOK, Passing
  <1>3. /\ Len(Log) = Records /\ Records \in Nat
        /\ \A k \in 1..Records : Log[k] = Record(k)
    BY <1>1, LogIsSeq DEF FilesOK
  <1>4. Len(out[t]) = req[t].max \/ i[t] = Len(Log)
    BY <1>1, <1>2, <1>3 DEF WantsMore
  <1>5. i[t] \in 0..Len(Log)
    BY <1>1, <1>2, <1>3
  <1>6. Abstract!Selection(SubSeq(Log, 1, i[t]), req[t], out[t])
    BY <1>2, SameSelection
  <1>7. Abstract!Answer(Log, req[t], out[t])
    BY <1>2, <1>4, <1>5, <1>6 DEF Abstract!Answer
  <1>8. out[t] \in Abstract!Lists(Log, req[t].max)
    <2> DEFINE s == SubSeq(Log, 1, i[t])
               m == Len(out[t])
               L == {Log[k].loc : k \in 1..Len(Log)}
    <2>1. Len(s) = i[t] /\ \A k \in 1..i[t] : s[k] = Record(k)
      BY <1>1, <1>3, <1>5, LogPart
    <2>2. PICK place \in [1..m -> 1..Len(s)] :
              \A k \in 1..m : out[t][k] = s[place[k]].loc
      BY <1>2 DEF Selection
    <2> HIDE DEF s
    <2>3. ASSUME NEW k \in 1..m PROVE out[t][k] \in L
      <3>1. place[k] \in 1..i[t] /\ place[k] \in 1..Len(Log)
        BY <1>3, <1>5, <2>1, <2>2
      <3>2. out[t][k] = Log[place[k]].loc
        BY <1>3, <2>1, <2>2, <3>1
      <3> QED
        BY <3>1, <3>2
    <2> HIDE DEF L
    <2>4. out[t] \in [1..m -> L]
      <3>1. out[t] = [k \in 1..m |-> out[t][k]]
        BY <1>1
      <3> QED
        BY <2>3, <3>1
    <2>5. m \in 0..req[t].max
      BY <1>1, <1>2
    <2> HIDE DEF m
    <2> QED
      BY <2>4, <2>5 DEF Abstract!Lists, L
  <1> QED
    BY <1>7, <1>8

(* The last record decides whether a record is in order.                   *)
LEMMA OrderOfLog ==
    ASSUME TypeInv, FilesOK, NEW r
    PROVE  Abstract!InOrder(Log, r) <=> NoYounger(r)
  <1>1. /\ Log \in Seq([time : Nat, val : Nat, loc : Loc])
        /\ Len(Log) = Records /\ Records \in Nat
        /\ \A k \in 1..Records : Log[k] = Record(k)
    BY LogIsSeq DEF FilesOK, TypeInv, TypeOK
  <1>2. Log # << >> <=> Records > 0
    BY <1>1
  <1>3. Records > 0 => Log[Len(Log)] = Record(Records)
    BY <1>1
  <1> QED
    BY <1>2, <1>3 DEF Abstract!InOrder, NoYounger

(* Steps that the abstract table does not see.                             *)
LEMMA StepUnseen ==
    ASSUME Log' = Log, UNCHANGED <<damaged, req, ret>>,
           \A u \in Thread : ret[u] = "none" \/ out'[u] = out[u]
    PROVE  UNCHANGED Abstract!vars
  <1>1. Ans' = Ans
    BY DEF Ans
  <1> QED
    BY <1>1 DEF Abstract!vars, Ans

(* A result that comes without an answer.                                  *)
LEMMA ReplyWithoutAnswer ==
    ASSUME TypeInv, NEW t \in Thread, ret[t] = "none", NEW r, Reply(t, r),
           out' = out, out[t] = << >>
    PROVE  ret' = [ret EXCEPT ![t] = r] /\ req' = req /\ Ans' = Ans
  <1>1. ret' = [ret EXCEPT ![t] = r] /\ req' = req
    BY DEF Reply
  <1>2. \A u \in Thread : u # t => ret'[u] = ret[u]
    BY <1>1 DEF TypeInv, TypeOK
  <1>3. ASSUME NEW u \in Thread
        PROVE  (IF ret'[u] = "none" THEN << >> ELSE out'[u])
                  = (IF ret[u] = "none" THEN << >> ELSE out[u])
    BY <1>2
  <1> QED
    BY <1>1, <1>3 DEF Ans

(* A call, and its return.                                                 *)
LEMMA CallImplements ==
    ASSUME TableInv, ~ damaged, NEW t \in Thread,
           \/ Return(t)
           \/ \E r \in AddReqs : AddCall(t, r)
           \/ \E q \in Queries : SearchCall(t, q)
    PROVE  Abstract!Return(t) \/ \E r \in AddReqs \cup Queries : Abstract!Call(t, r)
  <1>inv. ThreadOK(t) /\ TypeInv
    BY DEF TableInv, DataInv
  <1>type. /\ ret \in [Thread -> Results] /\ out \in [Thread -> Seq(Loc \cup {Garbage})]
    BY <1>inv DEF TypeInv, TypeOK
  <1>1. ASSUME NEW r \in AddReqs \cup Queries, AddCall(t, r) \/ SearchCall(t, r)
        PROVE  Abstract!Call(t, r)
    <2>1. /\ pc[t] = "idle" /\ req' = [req EXCEPT ![t] = r]
          /\ UNCHANGED <<disk, ret, out>>
      BY <1>1 DEF AddCall, SearchCall, At, search
    <2>2. req[t] = NoReq /\ Log' = Log /\ Ans' = Ans /\ damaged' = damaged
      BY <1>inv, <2>1, DiskKeepsLog DEF ThreadOK, Ans, disk
    <2> QED
      BY <2>1, <2>2 DEF Abstract!Call, Ans
  <1>2. CASE Return(t)
    <2>1. /\ pc[t] = "reply" /\ req' = [req EXCEPT ![t] = NoReq]
          /\ out' = [out EXCEPT ![t] = << >>] /\ ret' = [ret EXCEPT ![t] = "none"]
          /\ UNCHANGED disk
      BY <1>2 DEF Return, At
    <2>2. ret[t] # "none" /\ Log' = Log /\ damaged' = damaged
      BY <1>inv, <2>1, DiskKeepsLog DEF ThreadOK, disk
    <2>3. Ans' = [Ans EXCEPT ![t] = << >>]
      <3>1. ASSUME NEW u \in Thread
            PROVE  (IF ret'[u] = "none" THEN << >> ELSE out'[u])
                      = IF u = t THEN << >> ELSE Ans[u]
        BY <1>type, <2>1 DEF Ans
      <3>2. Ans' = [u \in Thread |-> IF u = t THEN << >> ELSE Ans[u]]
        BY <3>1 DEF Ans
      <3>3. [Ans EXCEPT ![t] = << >>]
                = [u \in Thread |-> IF u = t THEN << >> ELSE Ans[u]]
        BY DEF Ans
      <3> QED
        BY <3>2, <3>3
    <2> QED
      BY <2>1, <2>2, <2>3 DEF Abstract!Return, Ans
  <1> QED
    BY <1>1, <1>2

(* The steps of an add.                                                    *)
LEMMA AddImplements ==
    ASSUME OnlyKills, TableInv, ~ damaged, damaged' = damaged, NEW t \in Thread,
           \/ RecordReadLast(t) \/ LocBucket(t) \/ LocWalk(t)
           \/ LocAppend(t) \/ LocLink(t) \/ AddRecord(t)
    PROVE  \/ Abstract!AddDone(t) \/ Abstract!AddTooOld(t)
           \/ Abstract!AddFailed(t) \/ UNCHANGED Abstract!vars
  <1>inv. /\ FilesOK /\ ThreadOK(t) /\ SearchOK(t) /\ TypeInv /\ LockInv
    BY DEF TableInv, DataInv, SearchInv
  <1>1. pc[t] \in WritePc \ {"open_init"}
    BY DEF RecordReadLast, LocBucket, LocWalk, LocAppend, LocLink, AddRecord,
       At, WritePc
  <1>2. req[t] \in AddReqs /\ ret[t] = "none" /\ out[t] = << >> /\ req[t] # NoReq
    <2>1. req[t] \in AddReqs
      BY <1>inv, <1>1, AddHas
    <2>2. pc[t] \notin SearchPc \cup {"reply"}
      BY <1>1 DEF WritePc, SearchPc
    <2> QED
      BY <1>inv, <2>1, <2>2, ReqAssumption DEF ThreadOK, SearchOK
  <1>3. Abstract!Running(t)
    BY <1>2 DEF Abstract!Running
  <1>unseen. ASSUME UNCHANGED <<req, ret, out>>, Log' = Log
             PROVE  UNCHANGED Abstract!vars
    BY <1>unseen, StepUnseen
  <1>reply. ASSUME NEW r, Reply(t, r), out' = out
            PROVE  ret' = [ret EXCEPT ![t] = r] /\ req' = req /\ Ans' = Ans
    BY <1>inv, <1>2, <1>reply, ReplyWithoutAnswer
  <1>4. CASE RecordReadLast(t)
    <2>1. /\ Log' = Log /\ out' = out
          /\ \/ UNCHANGED <<req, ret>>
             \/ ~ NoYounger(req[t]) /\ AddFail(t, "ERANGE")
      BY <1>inv, <1>4, ReadLastWorks, DiskKeepsLog
    <2>2. CASE ~ NoYounger(req[t]) /\ AddFail(t, "ERANGE")
      <3>1. /\ ret' = [ret EXCEPT ![t] = "ERANGE"] /\ req' = req /\ Ans' = Ans
        BY <1>reply, <2>1, <2>2 DEF AddFail
      <3>2. ~ Abstract!InOrder(Log, req[t])
        BY <1>inv, <2>2, OrderOfLog
      <3>3. Abstract!AddTooOld(t)
        BY <1>2, <1>3, <2>1, <3>1, <3>2 DEF Abstract!AddTooOld, Ans
      <3> QED
        BY <3>3
    <2> QED
      BY <1>unseen, <2>1, <2>2
  <1>5. CASE LocBucket(t)
    <2>1. UNCHANGED <<req, ret, out>> /\ Log' = Log
      <3>1. UNCHANGED <<disk, sizes, req, ret>>
        BY <1>inv, <1>5, LocBucketOK
      <3>2. UNCHANGED out
        BY <1>5 DEF LocBucket, Abort, search
      <3> QED
        BY <3>1, <3>2, DiskKeepsLog
    <2> QED
      BY <1>unseen, <2>1
  <1>6. CASE LocWalk(t)
    <2>1. /\ UNCHANGED out /\ Log' = Log
          /\ \/ UNCHANGED <<req, ret>>
             \/ \E r \in {"ESHUTDOWN", "EINVAL"} : AddFail(t, r)
      <3>1. DataInv
        BY DEF TableInv
      <3> QED
        BY <1>inv, <1>6, <3>1, LocWalkOK, WalkKeepsLog
    <2>2. ASSUME NEW r \in {"ESHUTDOWN", "EINVAL"}, AddFail(t, r)
          PROVE  Abstract!AddFailed(t)
      <3>1. /\ ret' = [ret EXCEPT ![t] = r] /\ req' = req /\ Ans' = Ans
        BY <1>reply, <2>1, <2>2 DEF AddFail
      <3>2. Abstract!AddFailed(t)
        BY <1>2, <1>3, <2>1, <3>1 DEF Abstract!AddFailed, Ans
      <3> QED
        BY <3>2
    <2> QED
      BY <1>unseen, <2>1, <2>2
  <1>7. CASE LocAppend(t) \/ LocLink(t)
    <2>1. UNCHANGED <<req, ret, out>> /\ Log' = Log
      BY <1>inv, <1>7, LocAppendOK, LocLinkOK
    <2> QED
      BY <1>unseen, <2>1
  <1>8. CASE AddRecord(t)
    <2>1. CASE Abort("append") /\ UNCHANGED out
      <3>1. UNCHANGED <<req, ret, out, disk>>
        BY <2>1 DEF Abort
      <3> QED
        BY <1>unseen, <3>1, DiskKeepsLog
    <2>2. CASE /\ NoYounger(req[t]) /\ Log' = Append(Log, req[t])
               /\ Reply(t, "ok") /\ UNCHANGED out
      <3>1. /\ ret' = [ret EXCEPT ![t] = "ok"] /\ req' = req /\ Ans' = Ans
        BY <1>reply, <2>2
      <3>2. Abstract!InOrder(Log, req[t])
        BY <1>inv, <2>2, OrderOfLog
      <3>3. Abstract!AddDone(t)
        BY <1>2, <1>3, <2>2, <3>1, <3>2 DEF Abstract!AddDone, Ans
      <3> QED
        BY <3>3
    <2> QED
      BY <1>inv, <1>8, <2>1, <2>2, AddRecordOK
  <1> QED
    BY <1>4, <1>5, <1>6, <1>7, <1>8

(* The steps of a search.                                                  *)
LEMMA SearchImplements ==
    ASSUME OnlyKills, TableInv, ~ damaged, NEW t \in Thread,
           SearchLock(t) \/ SearchScan(t) \/ SearchEnd(t)
    PROVE  \/ Abstract!Found(t) \/ Abstract!NotFound(t) \/ Abstract!Busy(t)
           \/ UNCHANGED Abstract!vars
  <1>inv. /\ FilesOK /\ ThreadOK(t) /\ SearchOK(t) /\ TypeInv /\ LockInv
    BY DEF TableInv, DataInv, SearchInv
  <1>1. /\ pc[t] \in {"search_lock"} \cup SearchPc
        /\ UNCHANGED <<disk, sizes>>
    BY <1>inv, SearchStepOK DEF SearchLock, SearchScan, SearchEnd, At, SearchPc
  <1>2. req[t] \in Queries /\ ret[t] = "none" /\ req[t] # NoReq
    BY <1>inv, <1>1, ReqAssumption DEF ThreadOK, TypeInv, CallOK, SearchPc
  <1>3. Abstract!Running(t) /\ Log' = Log /\ damaged' = damaged
    BY <1>1, <1>2, DiskKeepsLog DEF Abstract!Running, disk
  <1>type. /\ ret \in [Thread -> Results] /\ out \in [Thread -> Seq(Loc \cup {Garbage})]
    BY <1>inv DEF TypeInv, TypeOK
  <1>4. CASE SearchLock(t)
    <2>1. CASE Reply(t, "EAGAIN") /\ UNCHANGED out
      <3>1. out[t] = << >>
        BY <1>inv, <1>4 DEF SearchLock, At, SearchOK, SearchPc
      <3>2. ret' = [ret EXCEPT ![t] = "EAGAIN"] /\ req' = req /\ Ans' = Ans
        BY <1>inv, <1>2, <2>1, <3>1, ReplyWithoutAnswer
      <3>3. Abstract!Busy(t)
        BY <1>2, <1>3, <3>2 DEF Abstract!Busy, Ans
      <3> QED
        BY <3>3
    <2>2. CASE UNCHANGED <<req, ret, out>>
      BY <1>3, <2>2, StepUnseen
    <2> QED
      BY <1>4, <2>1, <2>2 DEF SearchLock
  <1>5. CASE SearchScan(t)
    <2>1. /\ UNCHANGED <<req, ret>> /\ \E l : out' = [out EXCEPT ![t] = l]
      <3>1. UNCHANGED out => out' = [out EXCEPT ![t] = out[t]]
        BY <1>type
      <3> QED
        BY <1>inv, <1>5, <3>1, SearchScanWorks
    <2>2. \A u \in Thread : ret[u] = "none" \/ out'[u] = out[u]
      BY <1>2, <1>type, <2>1
    <2> QED
      BY <1>3, <2>1, <2>2, StepUnseen
  <1>6. CASE SearchEnd(t)
    <2>1. /\ Abstract!Answer(Log, req[t], out[t])
          /\ out[t] \in Abstract!Lists(Log, req[t].max)
      BY <1>inv, <1>6, SearchAnswers
    <2>2. out' = out
      BY <1>6 DEF SearchEnd
    <2>3. CASE out[t] = << >> /\ Reply(t, "ESRCH")
      <3>1. ret' = [ret EXCEPT ![t] = "ESRCH"] /\ req' = req /\ Ans' = Ans
        BY <1>inv, <1>2, <2>2, <2>3, ReplyWithoutAnswer
      <3>2. Abstract!NotFound(t)
        BY <1>2, <1>3, <2>1, <2>3, <3>1 DEF Abstract!NotFound, Ans
      <3> QED
        BY <3>2
    <2>4. CASE out[t] # << >> /\ Reply(t, "ok")
      <3>1. ret' = [ret EXCEPT ![t] = "ok"] /\ req' = req
        BY <2>4 DEF Reply
      <3>2. Ans' = [Ans EXCEPT ![t] = out[t]]
        <4>1. ASSUME NEW u \in Thread
              PROVE  (IF ret'[u] = "none" THEN << >> ELSE out'[u])
                        = IF u = t THEN out[t] ELSE Ans[u]
          BY <1>type, <2>2, <3>1 DEF Ans
        <4>2. Ans' = [u \in Thread |-> IF u = t THEN out[t] ELSE Ans[u]]
          BY <4>1 DEF Ans
        <4>3. [Ans EXCEPT ![t] = out[t]]
                  = [u \in Thread |-> IF u = t THEN out[t] ELSE Ans[u]]
          BY DEF Ans
        <4> QED
          BY <4>2, <4>3
      <3>3. Abstract!Found(t)
        BY <1>2, <1>3, <2>1, <2>4, <3>1, <3>2 DEF Abstract!Found, Ans
      <3> QED
        BY <3>3
    <2> QED
      BY <1>6, <2>3, <2>4 DEF SearchEnd, SearchFail
  <1> QED
    BY <1>4, <1>5, <1>6

LEMMA CrashImplements ==
    ASSUME Boot
    PROVE  Abstract!Crash
  <1>1. Log' = Log /\ damaged' = damaged
    BY DiskKeepsLog DEF Boot, disk
  <1>2. /\ req' = [t \in Thread |-> NoReq] /\ ret' = [t \in Thread |-> "none"]
        /\ Ans' = [t \in Thread |-> << >>]
    BY DEF Boot, Ans
  <1> QED
    BY <1>1, <1>2 DEF Abstract!Crash, Ans

(* Without damage the steps of the table are those of the log.             *)
LEMMA SoundImplements ==
    ASSUME OnlyKills, TableInv, [Next]_vars, ~ damaged, ~ damaged'
    PROVE  [Abstract!Next]_Abstract!vars
  <1>same. damaged' = damaged
    <2>1. TypeInv /\ TypeInv'
      BY TableStep DEF TableInv
    <2>2. damaged \in BOOLEAN /\ damaged' \in BOOLEAN
      BY <2>1 DEF TypeInv, TypeOK
    <2> QED
      BY <2>2, Zenon
  <1>1. CASE UNCHANGED vars
    <2>1. UNCHANGED <<disk, req, ret, out>>
      BY <1>1 DEF vars, search
    <2> QED
      BY <1>same, <2>1, DiskKeepsLog, StepUnseen
  <1>2. CASE Boot
    BY <1>2, CrashImplements DEF Abstract!Next
  <1>3. ASSUME NEW t \in Thread,
               \/ Step(t)
               \/ \E r \in AddReqs : AddCall(t, r)
               \/ \E q \in Queries : SearchCall(t, q)
        PROVE  [Abstract!Next]_Abstract!vars
    <2>inv. FilesOK /\ ThreadOK(t) /\ TypeInv /\ LockInv
      BY DEF TableInv, DataInv
    <2>1. CASE TableOpen(t) \/ OpenLock(t) \/ AddLock(t)
      <3>1. UNCHANGED <<disk, req, ret, out>>
        BY <2>1 DEF TableOpen, OpenLock, AddLock, search
      <3> QED
        BY <1>same, <3>1, DiskKeepsLog, StepUnseen
    <2>2. CASE OpenInit(t)
      <3>1. Log' = Log /\ UNCHANGED <<req, ret, out>>
        BY <2>inv, <2>2, OpenInitOK DEF OpenInit, search
      <3> QED
        BY <1>same, <3>1, StepUnseen
    <2>3. CASE \/ Return(t)
               \/ \E r \in AddReqs : AddCall(t, r)
               \/ \E q \in Queries : SearchCall(t, q)
      BY <2>3, CallImplements DEF Abstract!Next
    <2>4. CASE \/ RecordReadLast(t) \/ LocBucket(t) \/ LocWalk(t)
               \/ LocAppend(t) \/ LocLink(t) \/ AddRecord(t)
      BY <1>same, <2>4, AddImplements DEF Abstract!Next
    <2>5. CASE SearchLock(t) \/ SearchScan(t) \/ SearchEnd(t)
      BY <2>5, SearchImplements DEF Abstract!Next
    <2> QED
      BY <1>3, <2>1, <2>2, <2>3, <2>4, <2>5 DEF Step
  <1> QED
    BY <1>1, <1>2, <1>3 DEF Next, Kill, Restart

(* Only an add damages the table: it takes bytes for an entry that are     *)
(* none, or writes a link behind the buckets.                              *)
LEMMA DamageImplements ==
    ASSUME OnlyKills, TableInv, [Next]_vars, ~ damaged, damaged'
    PROVE  Abstract!Next
  <1>1. PICK t \in Thread : LocWalk(t) \/ LocLink(t)
    <2>1. UNCHANGED vars \/ Boot => damaged' = damaged
      BY DEF vars, Boot, disk
    <2>2. ASSUME NEW t \in Thread, Step(t), ~ LocWalk(t), ~ LocLink(t)
          PROVE  damaged' = damaged
      BY <2>2 DEF Step, TableOpen, OpenLock, OpenInit, AddLock, RecordReadLast,
         LocBucket, LocAppend, AddRecord, Abort, SearchLock, SearchScan,
         SearchEnd, Return, disk
    <2>3. ASSUME NEW t \in Thread, NEW r, AddCall(t, r) \/ SearchCall(t, r)
          PROVE  damaged' = damaged
      BY <2>3 DEF AddCall, SearchCall, disk
    <2> QED
      BY <2>1, <2>2, <2>3 DEF Next, Kill, Restart
  <1>2. FilesOK /\ ThreadOK(t) /\ LockInv /\ TypeInv
    BY DEF TableInv, DataInv
  <1>3. pc[t] \in WritePc \ {"open_init"} /\ UNCHANGED out
    BY <1>1 DEF LocWalk, LocLink, At, WritePc
  <1>4. req[t] \in AddReqs /\ ret[t] = "none" /\ req[t] # NoReq
    <2>1. req[t] \in AddReqs
      BY <1>2, <1>3, AddHas
    <2>2. pc[t] # "reply"
      BY <1>3 DEF WritePc
    <2> QED
      BY <1>2, <2>1, <2>2, ReqAssumption DEF ThreadOK
  <1>5. UNCHANGED <<req, ret>>
    <2>1. CASE LocWalk(t)
      <3>1. LocMisread(t)
        BY <2>1 DEF LocWalk
      <3> QED
        BY <3>1 DEF LocMisread
    <2>2. CASE LocLink(t)
      BY <2>2 DEF LocLink
    <2> QED
      BY <1>1, <2>1, <2>2
  <1>6. damaged' = TRUE
    <2>1. TypeInv'
      BY TableStep DEF TableInv
    <2>2. damaged' \in BOOLEAN
      BY <2>1 DEF TypeInv, TypeOK
    <2> QED
      BY <2>2, Zenon
  <1>7. Ans' = Ans
    BY <1>3, <1>5 DEF Ans
  <1>8. Abstract!Damage(t)
    BY <1>4, <1>5, <1>6, <1>7 DEF Abstract!Damage, Abstract!Running, Ans
  <1> QED
    BY <1>8 DEF Abstract!Next

LEMMA StepImplements ==
    ASSUME OnlyKills, TableInv, [Next]_vars
    PROVE  [Abstract!Next]_Abstract!vars
  <1>1. CASE damaged
    <2>1. damaged' = TRUE
      <3>1. TypeInv'
        BY TableStep DEF TableInv
      <3>2. damaged' \in BOOLEAN /\ damaged'
        BY <1>1, <3>1, DamageStays DEF TypeInv, TypeOK
      <3> QED
        BY <3>2, Zenon
    <2> QED
      BY <1>1, <2>1 DEF Abstract!Next, Abstract!Ruined
  <1>2. CASE ~ damaged /\ damaged'
    BY <1>2, DamageImplements
  <1>3. CASE ~ damaged /\ ~ damaged'
    BY <1>3, SoundImplements
  <1> QED
    BY <1>1, <1>2, <1>3

(* The files, the buffers, the hash table with its misplaced links, the    *)
(* sizes in memory and the read-write lock implement a log in the order of *)
(* times on which every kcndb_db_record_add and kcndb_db_search acts at    *)
(* once: an add puts its record at the end or is refused, a search gets    *)
(* the first matching records, and a kill forgets the calls and keeps the  *)
(* log.  It may be that an add damages the table, by a link over an entry  *)
(* or by a locator that is none: nothing else does, and then nothing more  *)
(* is promised.                                                            *)
THEOREM TableIsImplemented ==
    ASSUME OnlyKills
    PROVE  Spec => ImplementsTable
  <1>1. Init => Abstract!Init
    BY TableInitImplements
  <1>2. TableInv /\ [Next]_vars => [Abstract!Next]_Abstract!vars
    BY StepImplements
  <1> QED
    BY <1>1, <1>2, TableInvHolds, PTL DEF Spec, ImplementsTable, Abstract!Spec
=============================================================================
