---------------------------- MODULE KcnBufProofs ----------------------------
(***************************************************************************)
(* The operations of the buffer keep sp <= cp <= ep <= size and the type   *)
(* of the cells, for every size and every kind of cell.                    *)
(***************************************************************************)
EXTENDS KcnBuf, TLAPS

(* A part of a sequence is a sequence over the same cells.                 *)
LEMMA PartOfSeq ==
    ASSUME NEW C, NEW s \in Seq(C), NEW m \in Nat, NEW n \in Nat,
           m >= 1, n <= Len(s)
    PROVE  /\ SubSeq(s, m, n) \in Seq(C)
           /\ Len(SubSeq(s, m, n)) = IF m <= n THEN n - m + 1 ELSE 0
  OBVIOUS

LEMMA Glued ==
    ASSUME NEW C, NEW s \in Seq(C), NEW u \in Seq(C)
    PROVE  s \o u \in Seq(C) /\ Len(s \o u) = Len(s) + Len(u)
  OBVIOUS

LEMMA ResetGood ==
    ASSUME NEW C, NEW size \in Nat
    PROVE  kcn_buf_reset(0) \in GoodBufs(C, size)
  BY DEF kcn_buf_reset, GoodBufs, KcnBufs, kcn_buf_ok, kb_ep

LEMMA ReadIntoGood ==
    ASSUME NEW C, NEW size \in Nat, NEW kb \in GoodBufs(C, size)
    PROVE  /\ kcn_buf_read_into(kb, size) \in GoodBufs(C, size)
           /\ kcn_buf_read_into(kb, size).data = kb.data
  BY DEF kcn_buf_read_into, kcn_buf_realign, kcn_buf_trailingspace,
         kcn_buf_headingdata, GoodBufs, KcnBufs, kcn_buf_ok, kb_ep

LEMMA ReadGood ==
    ASSUME NEW C, NEW size \in Nat, NEW kb \in GoodBufs(C, size),
           NEW file \in Seq(C), NEW o \in Nat
    PROVE  /\ kcn_buf_read(kb, size, file, o) \in GoodBufs(C, size)
           /\ kcn_buf_read_len(kb, size, file, o) \in Nat
  <1> DEFINE into == kcn_buf_read_into(kb, size)
             n    == kcn_buf_read_len(kb, size, file, o)
             got  == SubSeq(file, o + 1, o + n)
  <1>1. into \in GoodBufs(C, size)
    BY ReadIntoGood
  <1>2. n \in Nat /\ kb_ep(into) + n <= size /\ (n > 0 => o + n <= Len(file))
    BY <1>1 DEF kcn_buf_read_len, kcn_buf_trailingspace, GoodBufs, KcnBufs,
                kcn_buf_ok, kb_ep
  <1>3. got \in Seq(C) /\ Len(got) = n
    <2>1. CASE n > 0
      BY <1>2, <2>1, PartOfSeq
    <2>2. CASE n = 0
      <3>1. got = << >>
        BY <2>2
      <3> QED
        BY <2>2, <3>1
    <2> QED
      BY <1>2, <2>1, <2>2
  <1>4. kcn_buf_read(kb, size, file, o)
           = [sp |-> into.sp, cp |-> into.cp, data |-> into.data \o got]
    BY DEF kcn_buf_read
  <1>5. into.data \o got \in Seq(C) /\ Len(into.data \o got) = Len(into.data) + n
    BY <1>1, <1>3, Glued DEF GoodBufs, KcnBufs
  <1> HIDE DEF into, n, got
  <1>6. [sp |-> into.sp, cp |-> into.cp, data |-> into.data \o got]
           \in GoodBufs(C, size)
    BY <1>1, <1>2, <1>5 DEF GoodBufs, KcnBufs, kcn_buf_ok, kb_ep
  <1> QED
    BY <1>2, <1>4, <1>6 DEF n

LEMMA TrimGood ==
    ASSUME NEW C, NEW size \in Nat, NEW kb \in GoodBufs(C, size),
           NEW len \in Nat, len <= Len(kb.data)
    PROVE  kcn_buf_trim_head(kb, len) \in GoodBufs(C, size)
  <1>1. kb.data \in Seq(C) /\ kb.sp \in Nat /\ kb.cp \in Nat
    BY DEF GoodBufs, KcnBufs
  <1>2. /\ SubSeq(kb.data, len + 1, Len(kb.data)) \in Seq(C)
        /\ Len(SubSeq(kb.data, len + 1, Len(kb.data))) = Len(kb.data) - len
    BY <1>1, PartOfSeq
  <1> QED
    BY <1>1, <1>2 DEF kcn_buf_trim_head, GoodBufs, KcnBufs, kcn_buf_ok, kb_ep

LEMMA ForwardGood ==
    ASSUME NEW C, NEW size \in Nat, NEW kb \in GoodBufs(C, size),
           NEW len \in Nat, kcn_buf_get_ok(kb, len)
    PROVE  /\ kcn_buf_forward(kb, len) \in GoodBufs(C, size)
           /\ kcn_buf_headingdata(kcn_buf_forward(kb, len)) \in 0..Len(kb.data)
           /\ kcn_buf_forward(kb, len).data = kb.data
  BY DEF kcn_buf_forward, kcn_buf_get_ok, kcn_buf_trailingdata,
         kcn_buf_headingdata, GoodBufs, KcnBufs, kcn_buf_ok, kb_ep

(* The getters that the assertion lets through return cells of the buffer. *)
LEMMA GetGood ==
    ASSUME NEW C, NEW size \in Nat, NEW kb \in GoodBufs(C, size),
           NEW len \in Nat, kcn_buf_get_ok(kb, len), NEW j \in 1..len
    PROVE  kcn_buf_get(kb, j) \in C
  <1>1. kcn_buf_headingdata(kb) + j \in 1..Len(kb.data)
    BY DEF kcn_buf_get_ok, kcn_buf_trailingdata, kcn_buf_headingdata,
           GoodBufs, KcnBufs, kcn_buf_ok, kb_ep
  <1>2. kb.data \in Seq(C)
    BY DEF GoodBufs, KcnBufs
  <1> QED
    BY <1>1, <1>2 DEF kcn_buf_get

LEMMA PutGood ==
    ASSUME NEW C, NEW size \in Nat, NEW kb \in GoodBufs(C, size),
           NEW cells \in Seq(C), kcn_buf_append_ok(kb, Len(cells), size)
    PROVE  /\ kcn_buf_put(kb, cells) \in GoodBufs(C, size)
           /\ Len(kcn_buf_put(kb, cells).data) >= Len(cells)
  <1> DEFINE h    == kcn_buf_headingdata(kb)
             head == SubSeq(kb.data, 1, h)
             tail == SubSeq(kb.data, h + Len(cells) + 1, Len(kb.data))
  <1>1. kb.data \in Seq(C) /\ kb.sp \in Nat /\ kb.cp \in Nat /\ h \in 0..Len(kb.data)
    BY DEF GoodBufs, KcnBufs, kcn_buf_ok, kcn_buf_headingdata, kb_ep
  <1>2. head \in Seq(C) /\ Len(head) = h
    BY <1>1, PartOfSeq
  <1>3. /\ tail \in Seq(C)
        /\ Len(tail) = IF h + Len(cells) < Len(kb.data)
                       THEN Len(kb.data) - (h + Len(cells)) ELSE 0
    BY <1>1, PartOfSeq
  <1>4. /\ head \o cells \o tail \in Seq(C)
        /\ Len(head \o cells \o tail) = h + Len(cells) + Len(tail)
    BY <1>2, <1>3, Glued
  <1>5. kcn_buf_put(kb, cells) = [sp |-> kb.sp, cp |-> kb.cp + Len(cells),
                                  data |-> head \o cells \o tail]
    BY DEF kcn_buf_put
  <1>6. h = kb.cp - kb.sp
    BY DEF kcn_buf_headingdata
  <1>7. kb_ep(kb) <= size /\ (kb_ep(kb) - kb.cp >= Len(cells) \/ kb.cp + Len(cells) <= size)
    BY DEF GoodBufs, kcn_buf_ok, kcn_buf_append_ok, kcn_buf_trailingdata
  <1>8. Len(cells) \in Nat /\ Len(kb.data) \in Nat /\ size \in Nat
    BY <1>1
  <1> DEFINE d == head \o cells \o tail
  <1>9. /\ Len(d) >= Len(cells) /\ kb.cp + Len(cells) <= kb.sp + Len(d)
        /\ kb.sp + Len(d) <= size /\ kb.sp <= kb.cp + Len(cells)
    <2>1. Len(d) = h + Len(cells) + Len(tail)
      BY <1>4
    <2> DEFINE sp == kb.sp
               cp == kb.cp
               n == Len(kb.data)
               len == Len(cells)
               rest == Len(tail)
               all == Len(d)
    <2>2. sp \in Nat /\ cp \in Nat /\ n \in Nat /\ len \in Nat
      BY <1>1, <1>8
    <2>3. h \in 0..n /\ h = cp - sp /\ all = h + len + rest
      BY <1>1, <1>6, <2>1
    <2>4. rest = IF h + len < n THEN n - (h + len) ELSE 0
      BY <1>3
    <2>5. sp + n <= size /\ ((sp + n) - cp >= len \/ cp + len <= size)
      BY <1>7 DEF kb_ep
    <2> HIDE DEF h, head, tail, d, sp, cp, n, len, rest, all
    <2>6. /\ all >= len /\ cp + len <= sp + all
          /\ sp + all <= size /\ sp <= cp + len
      BY <2>2, <2>3, <2>4, <2>5
    <2> QED
      BY <2>6 DEF sp, cp, len, all
  <1>10. d \in Seq(C)
    BY <1>4
  <1> HIDE DEF h, head, tail, d
  <1> QED
    BY <1>1, <1>5, <1>8, <1>9, <1>10 DEF GoodBufs, KcnBufs, kcn_buf_ok, kb_ep, d
=============================================================================
