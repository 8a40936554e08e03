------------------------- MODULE KcndbDbSearchProofs -------------------------
(***************************************************************************)
(* Searches of KcndbDb find what they should, for every number of threads  *)
(* and records, every query, every size of the buffer, and whatever fails. *)
(***************************************************************************)
EXTENDS KcndbDbProofs

-----------------------------------------------------------------------------
(* The records that match, as one more record is looked at.                *)

(* Nothing is selected from nothing.                                       *)
LEMMA SelectNone ==
    ASSUME NEW s, Len(s) = 0, NEW ke
    PROVE  Selection(s, ke, << >>)
  <1> DEFINE place == [k \in 1..0 |-> 0]
  <1>1. 1..Len(<< >>) = {} /\ 1..Len(s) = {} /\ 1..0 = {}
    OBVIOUS
  <1>2. place \in [1..Len(<< >>) -> 1..Len(s)]
    BY <1>1
  <1> HIDE DEF place
  <1> QED
    BY <1>1, <1>2 DEF Selection

(* A record that does not match changes nothing.                           *)
LEMMA SelectSkip ==
    ASSUME NEW s, NEW s2, Len(s) \in Nat, Len(s2) = Len(s) + 1,
           \A n \in 1..Len(s) : s2[n] = s[n],
           NEW ke, NEW locs, Len(locs) \in Nat, Selection(s, ke, locs),
           ~ kcn_eq_match(s2[Len(s2)], ke)
    PROVE  Selection(s2, ke, locs)
  <1>1. PICK place \in [1..Len(locs) -> 1..Len(s)] :
            /\ \A k \in 1..Len(locs) :
                  kcn_eq_match(s[place[k]], ke) /\ locs[k] = s[place[k]].loc
            /\ \A j, k \in 1..Len(locs) : j < k => place[j] < place[k]
            /\ \A n \in 1..Len(s) :
                  kcn_eq_match(s[n], ke) => \E k \in 1..Len(locs) : place[k] = n
    BY DEF Selection
  <1>2. place \in [1..Len(locs) -> 1..Len(s2)]
    OBVIOUS
  <1>3. \A n \in 1..Len(s2) : n \in 1..Len(s) \/ n = Len(s2)
    OBVIOUS
  <1>4. \A n \in 1..Len(s2) :
            kcn_eq_match(s2[n], ke) => \E k \in 1..Len(locs) : place[k] = n
    BY <1>1, <1>3
  <1>5. \A k \in 1..Len(locs) :
            kcn_eq_match(s2[place[k]], ke) /\ locs[k] = s2[place[k]].loc
    BY <1>1
  <1> QED
    BY <1>1, <1>2, <1>4, <1>5 DEF Selection

(* The locator of a record that matches is added.                          *)
LEMMA SelectMore ==
    ASSUME NEW s, NEW s2, Len(s) \in Nat, Len(s2) = Len(s) + 1,
           \A n \in 1..Len(s) : s2[n] = s[n],
           NEW ke, NEW L, NEW locs \in Seq(L), Selection(s, ke, locs),
           kcn_eq_match(s2[Len(s2)], ke), s2[Len(s2)].loc \in L
    PROVE  Selection(s2, ke, Append(locs, s2[Len(s2)].loc))
  <1> DEFINE m     == Len(locs)
             last  == Len(s2)
             locs2 == Append(locs, s2[last].loc)
  <1>1. PICK place \in [1..Len(locs) -> 1..Len(s)] :
            /\ \A k \in 1..Len(locs) :
                  kcn_eq_match(s[place[k]], ke) /\ locs[k] = s[place[k]].loc
            /\ \A j, k \in 1..Len(locs) : j < k => place[j] < place[k]
            /\ \A n \in 1..Len(s) :
                  kcn_eq_match(s[n], ke) => \E k \in 1..Len(locs) : place[k] = n
    BY DEF Selection
  <1> DEFINE place2 == [k \in 1..m+1 |-> IF k = m + 1 THEN last ELSE place[k]]
  <1>2. /\ m \in Nat /\ Len(locs2) = m + 1
        /\ \A k \in 1..m : locs2[k] = locs[k]
        /\ locs2[m + 1] = s2[last].loc
    OBVIOUS
  <1>3. place2 \in [1..Len(locs2) -> 1..Len(s2)]
    BY <1>2
  <1>4. \A k \in 1..m : place2[k] = place[k] /\ place[k] \in 1..Len(s)
    BY <1>2
  <1>5. place2[m + 1] = last
    BY <1>2
  <1>6. \A k \in 1..m+1 : k \in 1..m \/ k = m + 1
    BY <1>2
  <1> HIDE DEF place2, locs2, m
  <1>7. \A k \in 1..Len(locs2) :
            kcn_eq_match(s2[place2[k]], ke) /\ locs2[k] = s2[place2[k]].loc
    <2> SUFFICES ASSUME NEW k \in 1..m+1
                 PROVE  /\ kcn_eq_match(s2[place2[k]], ke)
                        /\ locs2[k] = s2[place2[k]].loc
      BY <1>2
    <2>1. CASE k \in 1..m
      <3>1. s2[place2[k]] = s[place[k]]
        BY <1>4, <2>1
      <3> QED
        BY <1>1, <1>2, <2>1, <3>1 DEF m
    <2>2. CASE k = m + 1
      BY <1>2, <1>5, <2>2
    <2> QED
      BY <1>6, <2>1, <2>2
  <1>8. \A j, k \in 1..Len(locs2) : j < k => place2[j] < place2[k]
    <2> SUFFICES ASSUME NEW j \in 1..m+1, NEW k \in 1..m+1, j < k
                 PROVE  place2[j] < place2[k]
      BY <1>2
    <2>1. j \in 1..m
      BY <1>2
    <2>2. CASE k \in 1..m
      BY <1>1, <1>4, <2>1, <2>2 DEF m
    <2>3. CASE k = m + 1
      BY <1>4, <1>5, <2>1, <2>3
    <2> QED
      BY <1>6, <2>2, <2>3
  <1>9. \A n \in 1..Len(s2) :
            kcn_eq_match(s2[n], ke) => \E k \in 1..Len(locs2) : place2[k] = n
    <2> SUFFICES ASSUME NEW n \in 1..Len(s2), kcn_eq_match(s2[n], ke)
                 PROVE  \E k \in 1..m+1 : place2[k] = n
      BY <1>2
    <2>1. CASE n \in 1..Len(s)
      <3>1. PICK k \in 1..m : place[k] = n
        BY <1>1, <2>1 DEF m
      <3> QED
        BY <1>2, <1>4, <3>1, k \in 1..m+1
    <2>2. CASE n = last
      BY <1>2, <1>5, <2>2
    <2> QED
      BY <2>1, <2>2
  <1> QED
    BY <1>3, <1>7, <1>8, <1>9 DEF Selection, locs2

-----------------------------------------------------------------------------
(* Reading the table through a buffer.                                     *)

(* The buffer holds the words of the table from base up to the offset of   *)
(* the descriptor, and its cursor is at its head.                          *)
Window(b, o, base) ==
    /\ b \in GoodBufs(Nat, BUFSIZ) /\ b.cp = b.sp
    /\ base \in Nat /\ o = base + Len(b.data) /\ o <= Len(table)
    /\ \A j \in 1..Len(b.data) : b.data[j] = table[base + j]

LEMMA WindowType ==
    ASSUME NEW b, NEW o, NEW base, Window(b, o, base)
    PROVE  /\ b.sp \in Nat /\ b.cp = b.sp /\ b.data \in Seq(Nat)
           /\ Len(b.data) \in Nat /\ o \in Nat
           /\ b.sp + Len(b.data) <= BUFSIZ
           /\ b = [sp |-> b.sp, cp |-> b.cp, data |-> b.data]
  BY DEF Window, GoodBufs, KcnBufs, kcn_buf_ok, kb_ep

LEMMA MakeWindow ==
    ASSUME NEW p \in Nat, NEW d \in Seq(Nat), p + Len(d) <= BUFSIZ,
           NEW base \in Nat, base + Len(d) <= Len(table),
           \A j \in 1..Len(d) : d[j] = table[base + j]
    PROVE  Window([sp |-> p, cp |-> p, data |-> d], base + Len(d), base)
  BY DEF Window, GoodBufs, KcnBufs, kcn_buf_ok, kb_ep

(* What read(2) is given, and what it gives: the words that follow.  It    *)
(* gives none at the end of the table only, and it ends there unless the   *)
(* buffer is full; one that was full before holds BUFSIZ words then.       *)
LEMMA ReadWindow ==
    ASSUME table \in Seq(Nat), NEW b, NEW o, NEW base, Window(b, o, base),
           Len(b.data) < KCNDB_DB_RECORDSIZ
    PROVE  LET into == kcn_buf_read_into(b, BUFSIZ)
               n    == kcn_buf_read_len(b, BUFSIZ, table, o)
               r    == kcn_buf_read(b, BUFSIZ, table, o)
           IN  /\ Window(into, o, base)
               /\ n \in Nat /\ Window(r, o + n, base)
               /\ n = 0 => o = Len(table)
               /\ o + n = Len(table) \/ kb_ep(r) = BUFSIZ
               /\ kb_ep(b) = BUFSIZ =>
                     o + n = Len(table) \/ Len(r.data) = BUFSIZ
  <1> DEFINE into == kcn_buf_read_into(b, BUFSIZ)
             n    == kcn_buf_read_len(b, BUFSIZ, table, o)
             r    == kcn_buf_read(b, BUFSIZ, table, o)
             got  == SubSeq(table, o + 1, o + n)
  <1>1. PICK p \in Nat, d \in Seq(Nat) : b = [sp |-> p, cp |-> p, data |-> d]
    BY WindowType
  <1> DEFINE len == Len(d)
             q   == IF p + len = BUFSIZ THEN 0 ELSE p
             end == Len(table)
  <1>2. /\ len \in Nat /\ o \in Nat /\ p + len <= BUFSIZ /\ BUFSIZ \in Nat
        /\ BUFSIZ >= 3 /\ len < 3
    BY <1>1, WindowType, SizeAssumption DEF KCNDB_DB_RECORDSIZ
  <1>3. base \in Nat /\ o = base + len /\ o <= end /\ end \in Nat
    BY <1>1 DEF Window
  <1>held. \A j \in 1..len : d[j] = table[base + j]
    BY <1>1 DEF Window
  <1>4. into = [sp |-> q, cp |-> q, data |-> d]
    BY <1>1, <1>2 DEF kcn_buf_read_into, kcn_buf_realign,
                      kcn_buf_trailingspace, kcn_buf_headingdata, kb_ep
  <1>5. q \in Nat /\ q + len < BUFSIZ /\ (p + len = BUFSIZ => q = 0)
    BY <1>2
  <1>6. n = IF end - o < BUFSIZ - (q + len)
            THEN end - o ELSE BUFSIZ - (q + len)
    <2>1. kcn_buf_trailingspace(into, BUFSIZ) = BUFSIZ - (q + len)
      BY <1>4 DEF kcn_buf_trailingspace, kb_ep
    <2>2. (IF o < Len(table) THEN Len(table) - o ELSE 0) = Len(table) - o
      BY <1>2, <1>3
    <2> HIDE DEF q, len
    <2> QED
      BY <2>1, <2>2 DEF kcn_buf_read_len
  <1>7. r = [sp |-> q, cp |-> q, data |-> d \o got]
    BY <1>4 DEF kcn_buf_read
  <1> HIDE DEF into, n, r, q, len, end
  <1>8. n \in Nat /\ o + n <= end /\ q + len + n <= BUFSIZ
    BY <1>2, <1>3, <1>5, <1>6
  <1>9. got \in Seq(Nat) /\ Len(got) = n /\ \A j \in 1..n : got[j] = table[o + j]
    BY <1>2, <1>8 DEF end
  <1> HIDE DEF got
  <1> DEFINE all == d \o got
  <1>10. all \in Seq(Nat) /\ Len(all) = len + n
    BY <1>9, Glued DEF len
  <1>11. \A j \in 1..len+n : all[j] = table[base + j]
    <2> SUFFICES ASSUME NEW j \in 1..len+n PROVE all[j] = table[base + j]
      OBVIOUS
    <2>1. CASE j \in 1..len
      <3>1. all[j] = d[j]
        BY <1>9, <2>1 DEF len
      <3> QED
        BY <1>held, <2>1, <3>1
    <2>2. CASE j \in len+1..len+n
      <3>1. j - len \in 1..n /\ o + (j - len) = base + j
        BY <1>2, <1>3, <1>8, <2>2
      <3>2. all[j] = got[j - len]
        BY <1>8, <1>9, <2>2 DEF len
      <3> QED
        BY <1>9, <3>1, <3>2
    <2>3. j \in 1..len \/ j \in len+1..len+n
      BY <1>2, <1>8
    <2> QED
      BY <2>1, <2>2, <2>3
  <1> HIDE DEF all
  <1>12. Window(r, o + n, base)
    <2>1. o + n = base + Len(all)
      BY <1>2, <1>3, <1>8, <1>10
    <2>2. q + Len(all) <= BUFSIZ
      BY <1>2, <1>5, <1>8, <1>10
    <2>3. base + Len(all) <= Len(table)
      BY <1>8, <2>1 DEF end
    <2>4. \A j \in 1..Len(all) : all[j] = table[base + j]
      BY <1>10, <1>11
    <2>5. Window([sp |-> q, cp |-> q, data |-> all], base + Len(all), base)
      BY <1>3, <1>5, <1>10, <2>2, <2>3, <2>4, MakeWindow
    <2> QED
      BY <1>7, <2>1, <2>5 DEF all
  <1>13. Window(into, o, base)
    <2>1. q + Len(d) <= BUFSIZ
      BY <1>2, <1>5 DEF len
    <2>2. base + Len(d) <= Len(table)
      BY <1>3 DEF len, end
    <2>3. Window([sp |-> q, cp |-> q, data |-> d], base + Len(d), base)
      BY <1>3, <1>5, <1>held, <2>1, <2>2, MakeWindow DEF len
    <2> QED
      BY <1>3, <1>4, <2>3 DEF len
  <1>14. kb_ep(b) = p + len /\ kb_ep(r) = q + (len + n) /\ Len(r.data) = len + n
    BY <1>1, <1>7, <1>10 DEF kb_ep, len, all
  <1>15. /\ n = 0 => o = end
         /\ o + n = end \/ kb_ep(r) = BUFSIZ
         /\ kb_ep(b) = BUFSIZ => o + n = end \/ Len(r.data) = BUFSIZ
    BY <1>2, <1>3, <1>5, <1>6, <1>14
  <1> QED
    BY <1>8, <1>12, <1>13, <1>15 DEF into, n, r, end

(* A state of the loop of kcndb_file_ensure, and one that has to go on.    *)
Sought(s, base) ==
    /\ Window(s.kb, s.off, base)
    /\ s.rc \in {"ok", "ESHUTDOWN", "EIO"}
    /\ s.rc = "ESHUTDOWN" =>
          s.off = Len(table) /\ Len(s.kb.data) < KCNDB_DB_RECORDSIZ
    /\ s.rc = "EIO" => "read" \in Faults

Short(s) == s.rc = "ok" /\ Len(s.kb.data) < KCNDB_DB_RECORDSIZ

AtEnd(s) == s.off = Len(table)
Full(s)  == kb_ep(s.kb) = BUFSIZ

(* One turn leaves the buffer full or the file at its end, a second one    *)
(* leaves the file at its end, and a third one is the last.                *)
LEMMA EnsureStepWindow ==
    ASSUME table \in Seq(Nat), NEW base, NEW s, Sought(s, base),
           NEW r \in EnsureStep(s, KCNDB_DB_RECORDSIZ)
    PROVE  /\ Sought(r, base)
           /\ Short(r) => AtEnd(r) \/ Full(r)
           /\ (Short(s) => AtEnd(s) \/ Full(s)) => (Short(r) => AtEnd(r))
           /\ (Short(s) => AtEnd(s)) => ~ Short(r)
  <1>1. CASE ~ Short(s)
    <2>1. s.rc # "ok" \/ kcn_buf_len(s.kb) >= KCNDB_DB_RECORDSIZ
      BY <1>1, WindowType DEF Short, Sought, kcn_buf_len, KCNDB_DB_RECORDSIZ
    <2>2. r = s
      BY <2>1 DEF EnsureStep
    <2> QED
      BY <1>1, <2>2
  <1>2. CASE Short(s)
    <2> DEFINE n == kcn_buf_read_len(s.kb, BUFSIZ, table, s.off)
               b == kcn_buf_read(s.kb, BUFSIZ, table, s.off)
               into == kcn_buf_read_into(s.kb, BUFSIZ)
    <2>1. Window(s.kb, s.off, base) /\ Len(s.kb.data) < KCNDB_DB_RECORDSIZ
      BY <1>2 DEF Sought, Short
    <2>2. /\ Window(into, s.off, base)
          /\ n \in Nat /\ Window(b, s.off + n, base)
          /\ n = 0 => AtEnd(s)
          /\ s.off + n = Len(table) \/ kb_ep(b) = BUFSIZ
          /\ Full(s) => s.off + n = Len(table) \/ Len(b.data) = BUFSIZ
      BY <2>1, ReadWindow DEF AtEnd, Full
    <2>3. ~ (s.rc # "ok" \/ kcn_buf_len(s.kb) >= KCNDB_DB_RECORDSIZ)
      BY <1>2, <2>1, WindowType DEF Short, kcn_buf_len, KCNDB_DB_RECORDSIZ
    <2>4. \/ r = [kb |-> b, off |-> s.off + n,
                  rc |-> IF n = 0 THEN "ESHUTDOWN" ELSE "ok"]
          \/ r \in ReadFailures(s.kb, s.off)
      BY <2>3 DEF EnsureStep
    <2> HIDE DEF n, b, into
    <2>5. CASE r \in ReadFailures(s.kb, s.off)
      <3>1. "read" \in Faults /\ r = [kb |-> into, off |-> s.off, rc |-> "EIO"]
        BY <2>5 DEF ReadFailures, into
      <3> QED
        BY <2>2, <3>1 DEF Sought, Short
    <2>6. CASE n = 0 /\ r = [kb |-> b, off |-> s.off + n, rc |-> "ESHUTDOWN"]
      <3>1. s.off \in Nat /\ s.off + n = s.off
        BY <2>1, <2>6, WindowType
      <3>2. Len(b.data) = Len(s.kb.data)
        <4>1. base \in Nat /\ s.off = base + Len(s.kb.data) /\ Len(s.kb.data) \in Nat
          BY <2>1, WindowType DEF Window
        <4>2. s.off = base + Len(b.data) /\ Len(b.data) \in Nat
          BY <2>2, <3>1, WindowType DEF Window
        <4> QED
          BY <4>1, <4>2
      <3>3. r.off = Len(table) /\ Len(r.kb.data) < KCNDB_DB_RECORDSIZ
        BY <2>1, <2>2, <2>6, <3>1, <3>2 DEF AtEnd
      <3> QED
        BY <2>2, <2>6, <3>3 DEF Sought, Short
    <2>7. CASE n # 0 /\ r = [kb |-> b, off |-> s.off + n, rc |-> "ok"]
      <3>1. Sought(r, base)
        BY <2>2, <2>7 DEF Sought
      <3>2. AtEnd(r) \/ Full(r)
        BY <2>2, <2>7 DEF AtEnd, Full
      <3>3. BUFSIZ \in Nat /\ BUFSIZ >= KCNDB_DB_RECORDSIZ
        BY SizeAssumption
      <3>4. Full(s) => AtEnd(r) \/ ~ Short(r)
        BY <2>2, <2>7, <3>3 DEF AtEnd, Short, KCNDB_DB_RECORDSIZ
      <3>5. ~ AtEnd(s)
        <4>1. s.off + n <= Len(table) /\ s.off \in Nat
          BY <2>1, <2>2, WindowType DEF Window
        <4> QED
          BY <2>2, <2>7, <4>1 DEF AtEnd
      <3> QED
        BY <1>2, <3>1, <3>2, <3>4, <3>5
    <2> QED
      BY <2>4, <2>5, <2>6, <2>7
  <1> QED
    BY <1>1, <1>2

LEMMA EnsureWindow ==
    ASSUME table \in Seq(Nat), NEW base, NEW b, NEW o, Window(b, o, base),
           NEW e \in kcndb_file_ensure(b, o, KCNDB_DB_RECORDSIZ)
    PROVE  Sought(e, base) /\ ~ Short(e)
  <1> DEFINE s0 == [kb |-> b, off |-> o, rc |-> "ok"]
             len == KCNDB_DB_RECORDSIZ
  <1>1. Sought(s0, base)
    BY DEF Sought
  <1>2. PICK s2 \in Turn(Turn({s0}, len), len) : e \in EnsureStep(s2, len)
    BY DEF kcndb_file_ensure, Turn
  <1>3. PICK s1 \in Turn({s0}, len) : s2 \in EnsureStep(s1, len)
    BY <1>2 DEF Turn
  <1>4. s1 \in EnsureStep(s0, len)
    BY <1>3 DEF Turn
  <1> HIDE DEF s0
  <1>5. Sought(s1, base) /\ (Short(s1) => AtEnd(s1) \/ Full(s1))
    BY <1>1, <1>4, EnsureStepWindow
  <1>6. Sought(s2, base) /\ (Short(s2) => AtEnd(s2))
    BY <1>3, <1>5, EnsureStepWindow
  <1> QED
    BY <1>2, <1>6, EnsureStepWindow

(* A record is read: the three words at the head of the window, which it   *)
(* leaves, or the table has no more whole record, or read(2) failed.       *)
LEMMA RecordReadWindow ==
    ASSUME table \in Seq(Nat), NEW base, NEW b, NEW o, Window(b, o, base),
           NEW r \in kcndb_db_record_read(b, o)
    PROVE  \/ /\ r.rc = "ok"
              /\ Window(r.kb, r.off, base + KCNDB_DB_RECORDSIZ)
              /\ r.time = table[base + 1] /\ r.val = table[base + 2]
              /\ r.locidx = table[base + 3]
           \/ /\ r.rc = "ESHUTDOWN"
              /\ Window(r.kb, Len(table), base)
              /\ Len(table) < base + KCNDB_DB_RECORDSIZ
           \/ r.rc = "EIO" /\ "read" \in Faults
  <1>1. PICK e \in kcndb_file_ensure(b, o, KCNDB_DB_RECORDSIZ) : r = Decoded(e)
    BY DEF kcndb_db_record_read
  <1>2. Sought(e, base) /\ ~ Short(e)
    BY EnsureWindow
  <1>3. CASE e.rc = "EIO"
    BY <1>1, <1>2, <1>3 DEF Decoded, Sought
  <1>4. CASE e.rc = "ESHUTDOWN"
    <2>1. r = e
      BY <1>1, <1>4 DEF Decoded
    <2>2. Window(e.kb, Len(table), base) /\ Len(e.kb.data) < KCNDB_DB_RECORDSIZ
      BY <1>2, <1>4 DEF Sought
    <2>3. Len(table) < base + KCNDB_DB_RECORDSIZ
      BY <2>2, WindowType DEF Window, KCNDB_DB_RECORDSIZ
    <2> QED
      BY <1>4, <2>1, <2>2, <2>3
  <1>5. CASE e.rc = "ok"
    <2> DEFINE f == kcn_buf_forward(e.kb, KCNDB_DB_RECORDSIZ)
               k == kcn_buf_trim_head(f, kcn_buf_headingdata(f))
    <2>1. Window(e.kb, e.off, base)
      BY <1>2 DEF Sought
    <2>2. PICK p \in Nat, d \in Seq(Nat) : e.kb = [sp |-> p, cp |-> p, data |-> d]
      BY <2>1, WindowType
    <2> DEFINE len == Len(d)
               rest == SubSeq(d, 4, len)
    <2>3. /\ len \in Nat /\ len >= 3 /\ p + len <= BUFSIZ /\ BUFSIZ \in Nat
      BY <1>2, <1>5, <2>1, <2>2, WindowType, SizeAssumption
         DEF Short, KCNDB_DB_RECORDSIZ
    <2>4. /\ base \in Nat /\ e.off = base + len /\ e.off <= Len(table)
          /\ \A j \in 1..len : d[j] = table[base + j]
      BY <2>1, <2>2 DEF Window
    <2>5. kcn_buf_get_ok(e.kb, KCNDB_DB_RECORDSIZ)
      BY <2>2, <2>3 DEF kcn_buf_get_ok, kcn_buf_trailingdata, kb_ep,
                        KCNDB_DB_RECORDSIZ
    <2>6. r = [rc |-> "ok", time |-> kcn_buf_get(e.kb, 1),
               val |-> kcn_buf_get(e.kb, 2), locidx |-> kcn_buf_get(e.kb, 3),
               kb |-> k, off |-> e.off]
      BY <1>1, <1>5, <2>5 DEF Decoded
    <2>7. ASSUME NEW j \in 1..3 PROVE kcn_buf_get(e.kb, j) = table[base + j]
      <3>1. kcn_buf_headingdata(e.kb) + j = j /\ j \in 1..len
        BY <2>2, <2>3 DEF kcn_buf_headingdata
      <3> QED
        BY <2>2, <2>4, <3>1 DEF kcn_buf_get
    <2>8. k = [sp |-> p + 3, cp |-> p + 3, data |-> rest]
      <3>1. f = [sp |-> p, cp |-> p + 3, data |-> d]
        BY <2>2 DEF kcn_buf_forward, KCNDB_DB_RECORDSIZ
      <3>2. kcn_buf_headingdata(f) = 3
        BY <3>1 DEF kcn_buf_headingdata
      <3>3. (IF p + 3 > p + 3 THEN p + 3 ELSE p + 3) = p + 3 /\ 3 + 1 = 4
        OBVIOUS
      <3> HIDE DEF f
      <3> QED
        BY <3>1, <3>2, <3>3 DEF kcn_buf_trim_head
    <2> HIDE DEF k, f
    <2>9. /\ rest \in Seq(Nat) /\ Len(rest) = len - 3
          /\ \A j \in 1..len-3 : rest[j] = d[j + 3]
      <3>1. rest \in Seq(Nat) /\ Len(rest) = len - 3
        <4>1. /\ rest \in Seq(Nat)
              /\ Len(rest) = IF 4 <= len THEN len - 4 + 1 ELSE 0
          BY <2>3, PartOfSeq
        <4> HIDE DEF len, rest
        <4> QED
          BY <2>3, <4>1
      <3>2. ASSUME NEW j \in 1..len-3 PROVE rest[j] = d[j + 3]
        <4>1. j \in 1..len-4+1 /\ 4 + j - 1 = j + 3
          BY <2>3
        <4> QED
          BY <2>3, <4>1
      <3> QED
        BY <3>1, <3>2
    <2> HIDE DEF len, rest
    <2>10. Window(k, e.off, base + 3)
      <3>1. (p + 3) + Len(rest) <= BUFSIZ
        BY <2>3, <2>9
      <3>2. (base + 3) + Len(rest) = e.off
        BY <2>3, <2>4, <2>9
      <3>3. \A j \in 1..Len(rest) : rest[j] = table[(base + 3) + j]
        <4> SUFFICES ASSUME NEW j \in 1..len-3
                     PROVE  rest[j] = table[(base + 3) + j]
          BY <2>9
        <4>1. j + 3 \in 1..len /\ base + (j + 3) = (base + 3) + j
          BY <2>3, <2>4
        <4> QED
          BY <2>4, <2>9, <4>1
      <3>4. (base + 3) + Len(rest) <= Len(table)
        BY <2>4, <3>2
      <3>5. p + 3 \in Nat /\ base + 3 \in Nat
        BY <2>4
      <3>6. Window([sp |-> p + 3, cp |-> p + 3, data |-> rest],
                   (base + 3) + Len(rest), base + 3)
        BY <2>9, <3>1, <3>3, <3>4, <3>5, MakeWindow
      <3> QED
        BY <2>8, <3>2, <3>6
    <2> QED
      BY <2>6, <2>7, <2>10 DEF KCNDB_DB_RECORDSIZ
  <1> QED
    BY <1>2, <1>3, <1>4, <1>5 DEF Sought

-----------------------------------------------------------------------------
(* The records of the table.                                               *)

LEMMA RecordsBounds ==
    ASSUME table \in Seq(Nat)
    PROVE  /\ Records \in Nat /\ 3 * Records <= Len(table)
           /\ Len(table) < 3 * Records + 3
           /\ \A k \in Nat : 3 * k <= Len(table) => k <= Records
  <1> DEFINE n == Len(table)
  <1>1. n \in Nat
    OBVIOUS
  <1> HIDE DEF n
  <1>2. /\ n \div 3 \in Nat /\ 3 * (n \div 3) <= n /\ n < 3 * (n \div 3) + 3
        /\ \A k \in Nat : 3 * k <= n => k <= n \div 3
    BY <1>1
  <1> QED
    BY <1>2 DEF Records, KCNDB_DB_RECORDSIZ, n

(* What the scan has passed when it passes one more record.                *)
LEMMA LogPart ==
    ASSUME table \in Seq(Nat), NEW n \in 0..Records
    PROVE  /\ Len(SubSeq(Log, 1, n)) = n
           /\ \A k \in 1..n : SubSeq(Log, 1, n)[k] = Record(k)
  <1>1. Records \in Nat
    BY RecordsBounds
  <1> DEFINE all == {Record(k) : k \in 1..Records}
  <1>2. Log \in Seq(all) /\ Len(Log) = Records
    <2>1. \A k \in 1..Records : Record(k) \in all
      OBVIOUS
    <2> HIDE DEF all
    <2>2. Log \in [1..Records -> all]
      BY <2>1 DEF Log
    <2> QED
      BY <1>1, <2>2 DEF Log
  <1>3. \A k \in 1..Records : Log[k] = Record(k)
    BY DEF Log
  <1> HIDE DEF all
  <1>4. Len(SubSeq(Log, 1, n)) = n
    BY <1>1, <1>2
  <1>5. \A k \in 1..n : SubSeq(Log, 1, n)[k] = Log[k]
    BY <1>1, <1>2
  <1> QED
    BY <1>1, <1>3, <1>4, <1>5

(* The record behind the first n is what is read at its place.             *)
LEMMA RecordAt ==
    ASSUME NEW n \in Nat
    PROVE  Record(n + 1) = [time |-> table[3 * n + 1], val |-> table[3 * n + 2],
                            loc |-> LocAt(table[3 * n + 3])]
  <1>1. KCNDB_DB_RECORDSIZ * ((n + 1) - 1) = 3 * n
    BY DEF KCNDB_DB_RECORDSIZ
  <1> QED
    BY <1>1 DEF Record

-----------------------------------------------------------------------------
(* The invariant: outside of a search nothing is kept of it, and during it *)
(* the buffer is a window of the table behind the records it has passed,   *)
(* of which it has sent those that match, no more than were asked for.     *)

Passing(t) ==
    /\ i[t] <= Records
    /\ Selection(SubSeq(Log, 1, i[t]), req[t], out[t])
    /\ Len(out[t]) <= req[t].max

SearchOK(t) ==
    /\ pc[t] \notin SearchPc => i[t] = 0 /\ off[t] = 0
    /\ pc[t] \notin SearchPc \cup {"reply"} => out[t] = << >>
    /\ pc[t] \in SearchPc => Passing(t)
    /\ pc[t] = "search_scan" => Window(kb[t], off[t], 3 * i[t])
    /\ pc[t] = "search_end" => i[t] = Records

SearchInv == \A t \in Thread : SearchOK(t)

(* While a thread searches nobody changes the files.                       *)
LEMMA SearchKeepsDisk ==
    ASSUME LockInv, [Next]_vars, NEW t \in Thread, pc[t] \in SearchPc
    PROVE  UNCHANGED disk
  <1>1. \A u \in Thread : pc[u] \notin WritePc
    BY ThreadAssumption DEF LockInv, LockSafe, LockType
  <1>2. \A u \in Thread : ~ OpenInit(u) /\ ~ LocAppend(u) /\ ~ LocLink(u)
                          /\ ~ AddRecord(u) /\ ~ LocWalk(u)
    BY <1>1 DEF WritePc, At, OpenInit, LocAppend, LocLink, AddRecord, LocWalk
  <1>3. ASSUME NEW u \in Thread, Step(u) PROVE UNCHANGED disk
    BY <1>2, <1>3 DEF Step, TableOpen, OpenLock, AddLock, RecordReadLast,
       LocBucket, SearchLock, SearchScan, SearchEnd, Return, disk
  <1> QED
    BY <1>3 DEF Next, AddCall, SearchCall, Kill, Restart, Boot, vars, disk

(* What a thread keeps is changed by its own steps only.                   *)
Kept(t) ==
    /\ pc'[t] = pc[t] /\ req'[t] = req[t] /\ kb'[t] = kb[t] /\ off'[t] = off[t]
    /\ i'[t] = i[t] /\ out'[t] = out[t] /\ readers'[t] = readers[t]
    /\ idx'[t] = idx[t] /\ oidx'[t] = oidx[t] /\ ret'[t] = ret[t]

LEMMA OthersKept ==
    ASSUME TypeInv, LockInv, NEW u \in Thread, NEW t \in Thread, t # u,
           \/ Step(u)
           \/ \E r \in AddReqs : AddCall(u, r)
           \/ \E q \in Queries : SearchCall(u, q)
    PROVE  Kept(t)
  <1> USE DEF TypeInv, TypeOK, Goto, lock, walk, search, wrlock, wrunlock,
              rdlock, rdunlock, Reply, Abort, Kept
  <1>1. CASE TableOpen(u)
    BY <1>1 DEF TableOpen
  <1>2. CASE OpenLock(u)
    BY <1>2 DEF OpenLock
  <1>3. CASE OpenInit(u)
    BY <1>3 DEF OpenInit
  <1>4. CASE AddLock(u)
    BY <1>4 DEF AddLock
  <1>5. CASE RecordReadLast(u)
    BY <1>5 DEF RecordReadLast, AddFail
  <1>6. CASE LocBucket(u)
    BY <1>6 DEF LocBucket, LocReadFailed, AddFail, Follow
  <1>7. CASE LocWalk(u)
    BY <1>7 DEF LocWalk, LocMisread, LocReadFailed, AddFail, Follow
  <1>8. CASE LocAppend(u)
    BY <1>8 DEF LocAppend, AddFail
  <1>9. CASE LocLink(u)
    BY <1>9 DEF LocLink, AddFail
  <1>10. CASE AddRecord(u)
    BY <1>10 DEF AddRecord, AddFail
  <1>11. CASE SearchLock(u)
    BY <1>11 DEF SearchLock
  <1>12. CASE SearchScan(u)
    BY <1>12 DEF SearchScan, SearchFail, Passed
  <1>13. CASE SearchEnd(u)
    BY <1>13 DEF SearchEnd, SearchFail
  <1>14. CASE Return(u)
    BY <1>14 DEF Return
  <1>15. ASSUME NEW r \in AddReqs, AddCall(u, r) PROVE Kept(t)
    BY <1>15 DEF AddCall
  <1>16. ASSUME NEW q \in Queries, SearchCall(u, q) PROVE Kept(t)
    BY <1>16 DEF SearchCall
  <1> QED
    BY <1>1, <1>2, <1>3, <1>4, <1>5, <1>6, <1>7, <1>8, <1>9, <1>10, <1>11,
       <1>12, <1>13, <1>14, <1>15, <1>16 DEF Step

LEMMA KeptSearchOK ==
    ASSUME NEW t \in Thread, SearchOK(t), Kept(t),
           pc[t] \in SearchPc => UNCHANGED disk
    PROVE  SearchOK(t)'
  <1>1. CASE pc[t] \notin SearchPc
    BY <1>1 DEF SearchOK, Kept, SearchPc
  <1>2. CASE pc[t] \in SearchPc
    <2>1. table' = table /\ loc' = loc
      BY <1>2 DEF disk
    <2>2. Records' = Records /\ Log' = Log
      BY <2>1 DEF Records, Log, Record, LocAt
    <2> QED
      BY <1>2, <2>1, <2>2 DEF SearchOK, Passing, Kept, Window
  <1> QED
    BY <1>1, <1>2

(* A thread that neither searches nor returns from a search.               *)
LEMMA QuietSearchOK ==
    ASSUME NEW t \in Thread, SearchOK(t), pc[t] \notin SearchPc \cup {"reply"},
           pc'[t] \notin SearchPc, i'[t] \in {i[t], 0}, off'[t] \in {off[t], 0},
           out'[t] = out[t]
    PROVE  SearchOK(t)'
  BY DEF SearchOK, SearchPc

LEMMA SearchLockOK ==
    ASSUME TypeInv, NEW t \in Thread, SearchOK(t), SearchLock(t)
    PROVE  SearchOK(t)'
  <1> USE DEF At
  <1>1. /\ i[t] = 0 /\ off[t] = 0 /\ out[t] = << >> /\ req[t] \in Queries
        /\ pc[t] \notin SearchPc \cup {"reply"} /\ table' = table /\ loc' = loc
        /\ out' = out
    BY DEF SearchLock, SearchOK, SearchPc, TypeInv, CallOK, disk
  <1>2. CASE Reply(t, "EAGAIN")
    <2>1. pc'[t] = "reply" /\ i'[t] = 0 /\ off'[t] = 0
      BY <1>2 DEF Reply, Goto, TypeInv, TypeOK
    <2> QED
      BY <1>1, <2>1, QuietSearchOK DEF SearchPc
  <1>3. CASE /\ kb' = [kb EXCEPT ![t] = kcn_buf_reset(0)]
             /\ Goto(t, "search_scan")
             /\ UNCHANGED <<req, off, walk, i, ret, failed>>
    <2>1. /\ pc'[t] = "search_scan" /\ kb'[t] = kcn_buf_reset(0)
          /\ i' = i /\ off' = off /\ req' = req
      BY <1>3 DEF Goto, TypeInv, TypeOK
    <2>2. table \in Seq(Nat) /\ req[t].max \in Nat
      BY <1>1, ReqAssumption DEF TypeInv, TypeOK
    <2>3. Window(kcn_buf_reset(0), 0, 0)
      <3> DEFINE d == << >>
      <3>1. /\ 0 \in Nat /\ d \in Seq(Nat) /\ Len(d) = 0
            /\ 0 + Len(d) <= BUFSIZ /\ 0 + Len(d) = 0
        BY SizeAssumption
      <3>2. Len(table) \in Nat /\ 0 + Len(d) <= Len(table)
        BY <2>2, <3>1
      <3>3. 1..Len(d) = {}
        BY <3>1
      <3>4. \A j \in 1..Len(d) : d[j] = table[0 + j]
        BY <3>3
      <3> HIDE DEF d
      <3>5. Window([sp |-> 0, cp |-> 0, data |-> d], 0 + Len(d), 0)
        BY <3>1, <3>2, <3>4, MakeWindow
      <3> QED
        BY <3>1, <3>5 DEF kcn_buf_reset, d
    <2>4. Records \in Nat /\ Len(SubSeq(Log, 1, 0)) = 0
      <3>1. Records \in Nat
        BY <2>2, RecordsBounds
      <3> QED
        BY <2>2, <3>1, LogPart, 0 \in 0..Records
    <2>5. Passing(t)
      <3>1. Len(out[t]) = 0 /\ Len(out[t]) <= req[t].max /\ i[t] <= Records
        BY <1>1, <2>2, <2>4
      <3>2. Selection(SubSeq(Log, 1, i[t]), req[t], out[t])
        BY <1>1, <2>4, SelectNone
      <3> QED
        BY <3>1, <3>2 DEF Passing
    <2>6. Passing(t)'
      BY <1>1, <2>1, <2>5 DEF Passing, Records, Log, Record, LocAt
    <2>7. Window(kb[t], off[t], 3 * i[t])'
      <3>1. kb'[t] = kcn_buf_reset(0) /\ off'[t] = 0 /\ 3 * i'[t] = 0
        BY <1>1, <2>1
      <3> QED
        BY <1>1, <2>3, <3>1 DEF Window
    <2> QED
      BY <2>1, <2>6, <2>7 DEF SearchOK, SearchPc
  <1> QED
    BY <1>2, <1>3 DEF SearchLock

(* The scan passes the next record: it is sent when it matches.            *)
LEMMA PassRecord ==
    ASSUME TypeInv, NEW t \in Thread, Passing(t), req[t] \in Queries,
           3 * i[t] + 3 <= Len(table), WantsMore(t)
    PROVE  LET n == i[t]
               m == kcn_eq_match(Record(n + 1), req[t])
           IN  /\ n + 1 <= Records
               /\ ~ m => Selection(SubSeq(Log, 1, n + 1), req[t], out[t])
               /\ m => Selection(SubSeq(Log, 1, n + 1), req[t],
                                 Append(out[t], LocAt(table[3 * n + 3])))
               /\ Len(Append(out[t], LocAt(table[3 * n + 3]))) <= req[t].max
  <1> DEFINE n == i[t]
             s == SubSeq(Log, 1, n)
             s2 == SubSeq(Log, 1, n + 1)
             l == LocAt(table[3 * n + 3])
  <1>1. /\ table \in Seq(Nat) /\ n \in Nat /\ out[t] \in Seq(Loc \cup {Garbage})
        /\ req[t].max \in Nat /\ n <= Records /\ Selection(s, req[t], out[t])
    BY ReqAssumption DEF TypeInv, TypeOK, Passing
  <1>2. Records \in Nat /\ n + 1 <= Records
    <2>1. 3 * (n + 1) = 3 * n + 3 /\ n + 1 \in Nat
      BY <1>1
    <2> QED
      BY <1>1, <2>1, RecordsBounds
  <1>3. Len(s) = n /\ \A k \in 1..n : s[k] = Record(k)
    <2>1. n \in 0..Records
      BY <1>1, <1>2
    <2> QED
      BY <1>1, <2>1, LogPart
  <1>4. Len(s2) = n + 1 /\ \A k \in 1..n+1 : s2[k] = Record(k)
    <2>1. n + 1 \in 0..Records
      BY <1>1, <1>2
    <2> QED
      BY <1>1, <2>1, LogPart
  <1>5. Record(n + 1).loc = l
    <2>1. Record(n + 1) = [time |-> table[3 * n + 1], val |-> table[3 * n + 2],
                           loc |-> l]
      BY <1>1, RecordAt
    <2> HIDE DEF l, n
    <2> QED
      BY <2>1
  <1> HIDE DEF s, s2, n, l
  <1>6. \A k \in 1..Len(s) : s2[k] = s[k]
    BY <1>1, <1>3, <1>4
  <1>7. s2[Len(s2)] = Record(n + 1) /\ Len(s) \in Nat /\ Len(s2) = Len(s) + 1
    BY <1>1, <1>3, <1>4
  <1>8. l \in Loc \cup {Garbage}
    BY DEF l, LocAt
  <1>9. ~ kcn_eq_match(Record(n + 1), req[t]) => Selection(s2, req[t], out[t])
    <2>1. Len(out[t]) \in Nat /\ Selection(s, req[t], out[t])
      BY <1>1 DEF s, n
    <2> QED
      BY <1>6, <1>7, <2>1, SelectSkip
  <1>10. kcn_eq_match(Record(n + 1), req[t])
            => Selection(s2, req[t], Append(out[t], l))
    BY <1>1, <1>5, <1>6, <1>7, <1>8, SelectMore
  <1>11. Len(Append(out[t], l)) <= req[t].max
    BY <1>1 DEF WantsMore
  <1> QED
    BY <1>2, <1>9, <1>10, <1>11 DEF s2, n, l

(* The record read from a window that starts at a record is that record.   *)
LEMMA ReadsRecord ==
    ASSUME TypeInv, NEW t \in Thread, Passing(t), Window(kb[t], off[t], 3 * i[t]),
           NEW r \in kcndb_db_record_read(kb[t], off[t])
    PROVE  LET n == i[t]
           IN  \/ /\ r.rc = "ok"
                  /\ Window(r.kb, r.off, 3 * (n + 1))
                  /\ 3 * n + 3 <= Len(table)
                  /\ r.locidx = table[3 * n + 3]
                  /\ kcn_eq_match(r, req[t])
                        <=> kcn_eq_match(Record(n + 1), req[t])
               \/ /\ r.rc = "ESHUTDOWN" /\ n = Records
                  /\ Window(r.kb, Len(table), 3 * n)
               \/ r.rc = "EIO" /\ "read" \in Faults
  <1> DEFINE n == i[t]
  <1>1. n \in Nat /\ table \in Seq(Nat) /\ n <= Records
    BY DEF TypeInv, TypeOK, Passing
  <1>2. 3 * n \in Nat /\ 3 * (n + 1) = 3 * n + KCNDB_DB_RECORDSIZ
    BY <1>1 DEF KCNDB_DB_RECORDSIZ
  <1>3. \/ /\ r.rc = "ok"
           /\ Window(r.kb, r.off, 3 * n + KCNDB_DB_RECORDSIZ)
           /\ r.time = table[3 * n + 1] /\ r.val = table[3 * n + 2]
           /\ r.locidx = table[3 * n + 3]
        \/ /\ r.rc = "ESHUTDOWN"
           /\ Window(r.kb, Len(table), 3 * n)
           /\ Len(table) < 3 * n + KCNDB_DB_RECORDSIZ
        \/ r.rc = "EIO" /\ "read" \in Faults
    BY <1>1, RecordReadWindow
  <1>4. Record(n + 1).time = table[3 * n + 1] /\ Record(n + 1).val = table[3 * n + 2]
    <2>1. Record(n + 1) = [time |-> table[3 * n + 1], val |-> table[3 * n + 2],
                           loc |-> LocAt(table[3 * n + 3])]
      BY <1>1, RecordAt
    <2> HIDE DEF n
    <2> QED
      BY <2>1
  <1> HIDE DEF n
  <1>5. CASE r.rc = "ok"
    <2>1. Window(r.kb, r.off, 3 * (n + 1)) /\ r.locidx = table[3 * n + 3]
      BY <1>2, <1>3, <1>5
    <2>2. 3 * n + 3 <= Len(table)
      <3>1. 3 * (n + 1) = 3 * n + 3
        BY <1>1
      <3>2. r.off = (3 * n + 3) + Len(r.kb.data) /\ r.off <= Len(table)
        BY <2>1, <3>1 DEF Window
      <3>3. Len(r.kb.data) \in Nat /\ Len(table) \in Nat
        BY <1>1, <2>1, WindowType
      <3>4. \A a, b, c, d \in Nat : a = b + c /\ a <= d => b <= d
        OBVIOUS
      <3>5. 3 * n + 3 \in Nat
        BY <1>1
      <3>6. r.off \in Nat
        BY <2>1, WindowType
      <3> QED
        BY <3>2, <3>3, <3>4, <3>5, <3>6
    <2>3. kcn_eq_match(r, req[t]) <=> kcn_eq_match(Record(n + 1), req[t])
      BY <1>3, <1>4, <1>5 DEF kcn_eq_match
    <2> QED
      BY <1>5, <2>1, <2>2, <2>3 DEF n
  <1>6. CASE r.rc = "ESHUTDOWN"
    <2>1. Len(table) < 3 * n + 3 /\ Records \in Nat /\ 3 * Records <= Len(table)
      BY <1>1, <1>3, <1>6, RecordsBounds DEF KCNDB_DB_RECORDSIZ
    <2>2. Len(table) \in Nat
      BY <1>1
    <2>3. n = Records
      BY <1>1, <2>1, <2>2
    <2> QED
      BY <1>3, <1>6, <2>3 DEF n
  <1> QED
    BY <1>3, <1>5, <1>6

LEMMA SearchScanOK ==
    ASSUME TypeInv, NEW t \in Thread, SearchOK(t), SearchScan(t)
    PROVE  SearchOK(t)'
  <1>1. /\ pc[t] = "search_scan" /\ WantsMore(t) /\ table' = table /\ loc' = loc
        /\ Passing(t) /\ Window(kb[t], off[t], 3 * i[t])
    BY DEF SearchScan, At, SearchOK, SearchPc, disk
  <1>2. /\ req[t] \in Queries /\ i[t] \in Nat /\ kb \in [Thread -> GoodBufs(Nat, BUFSIZ)]
        /\ off \in [Thread -> Nat] /\ i \in [Thread -> Nat] /\ pc \in [Thread -> Pc]
        /\ out \in [Thread -> Seq(Loc \cup {Garbage})]
    BY <1>1 DEF TypeInv, TypeOK, CallOK, SearchPc
  <1>3. Records' = Records /\ Log' = Log
    BY <1>1 DEF Records, Log, Record, LocAt
  <1>abort. CASE Abort("read")
    <2>1. UNCHANGED <<pc, req, kb, off, i, out>>
      BY <1>abort DEF Abort, search
    <2> QED
      BY <1>1, <1>3, <2>1 DEF SearchOK, SearchPc, Passing, Window
  <1>no. SUFFICES ASSUME ~ Abort("read") PROVE SearchOK(t)'
    BY <1>abort
  <1>4. PICK r \in kcndb_db_record_read(kb[t], off[t]) :
          /\ kb' = [kb EXCEPT ![t] = r.kb]
          /\ \/ /\ r.rc = "ESHUTDOWN"
                /\ Goto(t, "search_end")
                /\ UNCHANGED <<lock, req, off, walk, search, ret, failed>>
             \/ (\E e : SearchFail(t, e)) /\ UNCHANGED out
             \/ /\ r.rc = "ok" /\ ~ kcn_eq_match(r, req[t])
                /\ Passed(t, r) /\ UNCHANGED out
             \/ /\ r.rc = "ok" /\ kcn_eq_match(r, req[t])
                /\ Passed(t, r)
                /\ out' = [out EXCEPT ![t] = Append(@, LocAt(r.locidx))]
    BY <1>no DEF SearchScan
  <1> DEFINE n == i[t]
  <1>5. \/ /\ r.rc = "ok"
           /\ Window(r.kb, r.off, 3 * (n + 1))
           /\ 3 * n + 3 <= Len(table)
           /\ r.locidx = table[3 * n + 3]
           /\ kcn_eq_match(r, req[t]) <=> kcn_eq_match(Record(n + 1), req[t])
        \/ /\ r.rc = "ESHUTDOWN" /\ n = Records
        \/ r.rc = "EIO" /\ "read" \in Faults
    BY <1>1, ReadsRecord
  <1>6. CASE /\ r.rc = "ESHUTDOWN"
             /\ Goto(t, "search_end")
             /\ UNCHANGED <<lock, req, off, walk, search, ret, failed>>
    <2>1. pc'[t] = "search_end" /\ i' = i /\ out' = out /\ req' = req
      BY <1>2, <1>6 DEF Goto, search
    <2>2. Passing(t)' /\ i'[t] = Records'
      BY <1>1, <1>3, <1>5, <1>6, <2>1 DEF Passing
    <2> QED
      BY <2>1, <2>2 DEF SearchOK, SearchPc
  <1>7. CASE (\E e : SearchFail(t, e)) /\ UNCHANGED out
    <2>1. pc'[t] = "reply" /\ i'[t] = 0 /\ off'[t] = 0
      BY <1>2, <1>7 DEF SearchFail, Reply, Goto
    <2> QED
      BY <2>1 DEF SearchOK, SearchPc
  <1>8. CASE r.rc = "ok" /\ Passed(t, r) /\ out'[t] \in {out[t], Append(out[t], LocAt(r.locidx))}
             /\ (out'[t] = out[t] <=> ~ kcn_eq_match(r, req[t]))
    <2>1. /\ pc' = pc /\ req' = req /\ i'[t] = n + 1 /\ off'[t] = r.off
          /\ kb'[t] = r.kb
      BY <1>2, <1>4, <1>8 DEF Passed
    <2>2. /\ Window(r.kb, r.off, 3 * (n + 1)) /\ 3 * n + 3 <= Len(table)
          /\ r.locidx = table[3 * n + 3]
          /\ kcn_eq_match(r, req[t]) <=> kcn_eq_match(Record(n + 1), req[t])
      BY <1>5, <1>8
    <2>3. /\ n + 1 <= Records
          /\ ~ kcn_eq_match(Record(n + 1), req[t])
                => Selection(SubSeq(Log, 1, n + 1), req[t], out[t])
          /\ kcn_eq_match(Record(n + 1), req[t])
                => Selection(SubSeq(Log, 1, n + 1), req[t],
                             Append(out[t], LocAt(table[3 * n + 3])))
          /\ Len(Append(out[t], LocAt(table[3 * n + 3]))) <= req[t].max
      BY <1>1, <1>2, <2>2, PassRecord
    <2>4. Len(out[t]) <= req[t].max
      BY <1>1 DEF Passing
    <2> HIDE DEF n
    <2>5. Selection(SubSeq(Log, 1, n + 1), req[t], out'[t]) /\ Len(out'[t]) <= req[t].max
      BY <1>8, <2>2, <2>3, <2>4
    <2>6. Passing(t)'
      BY <1>3, <2>1, <2>3, <2>5 DEF Passing
    <2>7. Window(kb[t], off[t], 3 * i[t])'
      BY <1>1, <2>1, <2>2 DEF Window
    <2> QED
      BY <1>1, <2>1, <2>6, <2>7 DEF SearchOK, SearchPc
  <1>9. \A l : Append(out[t], l) # out[t]
    <2>1. \A l : Len(Append(out[t], l)) = Len(out[t]) + 1 /\ Len(out[t]) \in Nat
      BY <1>2
    <2> QED
      BY <2>1
  <1>10. CASE r.rc = "ok" /\ ~ kcn_eq_match(r, req[t]) /\ Passed(t, r) /\ UNCHANGED out
    BY <1>8, <1>10
  <1>11. CASE /\ r.rc = "ok" /\ kcn_eq_match(r, req[t])
              /\ Passed(t, r)
              /\ out' = [out EXCEPT ![t] = Append(@, LocAt(r.locidx))]
    <2>1. out'[t] = Append(out[t], LocAt(r.locidx))
      BY <1>2, <1>11
    <2> QED
      BY <1>8, <1>9, <1>11, <2>1
  <1> QED
    BY <1>4, <1>6, <1>7, <1>10, <1>11

(* Every step keeps what is known of every search.                         *)
LEMMA SearchStep ==
    ASSUME SearchInv, TypeInv, LockInv, [Next]_vars
    PROVE  SearchInv'
  <1> SUFFICES ASSUME NEW t \in Thread PROVE SearchOK(t)'
    BY DEF SearchInv
  <1>ok. SearchOK(t)
    BY DEF SearchInv
  <1>disk. pc[t] \in SearchPc => UNCHANGED disk
    BY SearchKeepsDisk
  <1>type. /\ pc \in [Thread -> Pc] /\ off \in [Thread -> Nat] /\ i \in [Thread -> Nat]
           /\ out \in [Thread -> Seq(Loc \cup {Garbage})]
    BY DEF TypeInv, TypeOK
  <1>1. CASE UNCHANGED vars
    BY <1>1, <1>ok, KeptSearchOK DEF vars, Kept, disk, lock, walk, search
  <1>2. CASE Boot
    BY <1>2 DEF Boot, SearchOK, SearchPc
  <1>3. ASSUME NEW u \in Thread, u # t,
               \/ Step(u)
               \/ \E r \in AddReqs : AddCall(u, r)
               \/ \E q \in Queries : SearchCall(u, q)
        PROVE  SearchOK(t)'
    <2>1. Kept(t)
      BY <1>3, OthersKept
    <2> QED
      BY <2>1, <1>ok, <1>disk, KeptSearchOK
  <1> DEFINE Quiet == /\ pc[t] \notin SearchPc \cup {"reply"}
                      /\ pc'[t] \notin SearchPc
                      /\ i'[t] \in {i[t], 0} /\ off'[t] \in {off[t], 0}
                      /\ out'[t] = out[t]
  <1>quiet. ASSUME Quiet PROVE SearchOK(t)'
    BY <1>quiet, <1>ok, QuietSearchOK
  <1>same. ASSUME UNCHANGED <<pc, req, kb, off, i, out, readers, walk, ret>>
           PROVE  SearchOK(t)'
    BY <1>same, <1>ok, <1>disk, KeptSearchOK DEF Kept, walk
  <1> USE DEF At
  <1>4. CASE TableOpen(t) \/ OpenLock(t) \/ AddLock(t)
             \/ (\E r \in AddReqs : AddCall(t, r))
             \/ (\E q \in Queries : SearchCall(t, q))
    BY <1>4, <1>type, <1>quiet DEF TableOpen, OpenLock, AddLock, AddCall,
       SearchCall, Goto, search, SearchPc
  <1>5. CASE OpenInit(t)
    BY <1>5, <1>type, <1>quiet DEF OpenInit, Goto, search, SearchPc
  <1>fail. ASSUME NEW e, AddFail(t, e), UNCHANGED out,
                  pc[t] \notin SearchPc \cup {"reply"}
           PROVE  SearchOK(t)'
    BY <1>fail, <1>type, <1>quiet DEF AddFail, Reply, Goto, SearchPc
  <1>abort. ASSUME NEW a, Abort(a), UNCHANGED out PROVE SearchOK(t)'
    BY <1>abort, <1>same DEF Abort, lock, search
  <1>go. ASSUME NEW p \in Pc \ SearchPc, Goto(t, p), UNCHANGED <<off, i, out>>,
                pc[t] \notin SearchPc \cup {"reply"}
         PROVE  SearchOK(t)'
    BY <1>go, <1>type, <1>quiet DEF Goto
  <1>6. CASE RecordReadLast(t)
    <2>1. pc[t] \notin SearchPc \cup {"reply"} /\ UNCHANGED out
      BY <1>6 DEF RecordReadLast, SearchPc
    <2>2. \/ Goto(t, "loc_bucket") /\ UNCHANGED <<off, i>>
          \/ \E e : AddFail(t, e)
          \/ Abort("get")
      BY <1>6 DEF RecordReadLast
    <2> QED
      BY <2>1, <2>2, <1>go, <1>fail, <1>abort DEF Pc, WritePc, SearchPc
  <1>7. CASE LocBucket(t)
    <2>1. pc[t] \notin SearchPc \cup {"reply"} /\ UNCHANGED out
      BY <1>7 DEF LocBucket, SearchPc
    <2>2. \/ (\E p \in {"loc_append", "loc_walk"} : Goto(t, p)) /\ UNCHANGED <<off, i>>
          \/ \E e : AddFail(t, e)
          \/ \E a : Abort(a)
      BY <1>7 DEF LocBucket, LocReadFailed, Follow
    <2> QED
      BY <2>1, <2>2, <1>go, <1>fail, <1>abort DEF Pc, WritePc, SearchPc
  <1>8. CASE LocWalk(t)
    <2>1. pc[t] \notin SearchPc \cup {"reply"} /\ UNCHANGED out
      BY <1>8 DEF LocWalk, SearchPc
    <2>2. \/ /\ \E p \in {"loc_append", "loc_walk", "add_record"} : Goto(t, p)
             /\ UNCHANGED <<off, i>>
          \/ \E e : AddFail(t, e)
          \/ \E a : Abort(a)
      BY <1>8 DEF LocWalk, LocMisread, LocReadFailed, Follow
    <2> QED
      BY <2>1, <2>2, <1>go, <1>fail, <1>abort DEF Pc, WritePc, SearchPc
  <1>9. CASE LocAppend(t) \/ LocLink(t)
    <2>1. pc[t] \notin SearchPc \cup {"reply"} /\ UNCHANGED out
      BY <1>9 DEF LocAppend, LocLink, SearchPc
    <2>2. \/ /\ \E p \in {"loc_link", "add_record"} : Goto(t, p)
             /\ UNCHANGED <<off, i>>
          \/ \E e : AddFail(t, e)
      BY <1>9 DEF LocAppend, LocLink
    <2> QED
      BY <2>1, <2>2, <1>go, <1>fail DEF Pc, WritePc, SearchPc
  <1>10. CASE AddRecord(t)
    <2>1. pc[t] \notin SearchPc \cup {"reply"} /\ UNCHANGED out
      BY <1>10 DEF AddRecord, SearchPc
    <2>2. (\E e : AddFail(t, e)) \/ Abort("append")
      BY <1>10 DEF AddRecord, AddFail
    <2> QED
      BY <2>1, <2>2, <1>fail, <1>abort
  <1>11. CASE SearchLock(t)
    BY <1>11, <1>ok, SearchLockOK
  <1>12. CASE SearchScan(t)
    BY <1>12, <1>ok, SearchScanOK
  <1>13. CASE SearchEnd(t)
    <2>1. Reply(t, "ESRCH") \/ Reply(t, "ok")
      BY <1>13 DEF SearchEnd, SearchFail
    <2>2. pc'[t] = "reply" /\ i'[t] = 0 /\ off'[t] = 0
      BY <2>1, <1>type DEF Reply, Goto
    <2> QED
      BY <2>2 DEF SearchOK, SearchPc
  <1>14. CASE Return(t)
    <2>1. pc'[t] = "idle" /\ i'[t] = 0 /\ off'[t] = 0 /\ out'[t] = << >>
      BY <1>14, <1>type, <1>ok DEF Return, Goto, SearchOK, SearchPc
    <2> QED
      BY <2>1 DEF SearchOK, SearchPc
  <1> QED
    BY <1>1, <1>2, <1>3, <1>4, <1>5, <1>6, <1>7, <1>8, <1>9, <1>10, <1>11,
       <1>12, <1>13, <1>14 DEF Next, Step, Kill, Restart

(* However many threads search and add, however often the buffer is        *)
(* refilled and realigned, and whatever fails, a search that is under way  *)
(* has sent the locators of the matching records it has passed, in their   *)
(* order and no other, and takes the file to be at its end only when it    *)
(* has passed every record (kcndb_db_search over kcndb_file_ensure).       *)
THEOREM SearchIsExact == Spec => []SearchExact
  <1> DEFINE Inv == TypeInv /\ LockInv /\ SearchInv
  <1>1. Init => Inv
    <2>1. Init => SearchInv
      BY DEF Init, SearchInv, SearchOK, SearchPc
    <2> QED
      BY <2>1, TypeInit
  <1>2. Inv /\ [Next]_vars => Inv'
    BY TypeStep, LockStep, SearchStep
  <1>3. Inv => SearchExact
    BY DEF SearchInv, SearchOK, Passing, SearchExact
  <1> HIDE DEF Inv
  <1> QED
    BY <1>1, <1>2, <1>3, PTL DEF Spec
=============================================================================
