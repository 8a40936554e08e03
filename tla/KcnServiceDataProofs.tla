------------------------ MODULE KcnServiceDataProofs ------------------------
(***************************************************************************)
(* What the connections of KcnService carry, for every set of clients and  *)
(* threads, jobs, sizes of buffers and of the kernel's queues, and faults: *)
(* however messages are cut, and whatever is refused, late, reset or gone, *)
(* what is taken of a connection is what was put into it, in order.        *)
(***************************************************************************)
EXTENDS KcnServiceProofs, KcnBufProofs

(* Sequences of messages, a header and a body each.                        *)
Messages == {m \in Seq(Seq(Cell)) : \A i \in 1..Len(m) : Len(m[i]) = 2}

(* The cells s are those of the messages m behind the first "from" ones.   *)
Carries(s, from, m) ==
    /\ from + Len(s) <= 2 * Len(m)
    /\ \A j \in 1..Len(s), i \in 1..Len(m) :
          /\ from + j = 2 * i - 1 => s[j] = m[i][1]
          /\ from + j = 2 * i => s[j] = m[i][2]

(* Behind the t messages that were taken come the cells b of the buffer,   *)
(* and then the cells w that are in flight.                                *)
Arrives(b, w, t, m) ==
    /\ Carries(b, 2 * t, m)
    /\ Carries(w, 2 * t + Len(b), m)

(* The queue q holds the last of the first "made" messages, and of the     *)
(* first of them it may hold the body only.                                *)
Queues(q, m, made) ==
    /\ Len(q) <= made /\ made <= Len(m)
    /\ \A k \in 1..Len(q) :
          \/ q[k] = m[made - Len(q) + k]
          \/ k = 1 /\ q[k] = <<m[made - Len(q) + k][2]>>

(* The number of cells that have left the queue.                           *)
Put(q, made) ==
    2 * (made - Len(q)) + (IF q = << >> THEN 0 ELSE 2 - Len(q[1]))

(* One direction of a connection: nothing is lost between its parts.       *)
Flows(b, w, t, q, made, m) ==
    /\ Arrives(b, w, t, m)
    /\ Queues(q, m, made)
    /\ 2 * t + Len(b) + Len(w) = Put(q, made)

-----------------------------------------------------------------------------
(* Lemmas about one direction of a connection.                             *)

LEMMA CarriesGlued ==
    ASSUME NEW m \in Messages, NEW from \in Nat,
           NEW s \in Seq(Cell), NEW u \in Seq(Cell),
           Carries(s, from, m), Carries(u, from + Len(s), m)
    PROVE  Carries(s \o u, from, m)
<1>1. /\ s \o u \in Seq(Cell) /\ Len(s \o u) = Len(s) + Len(u)
      /\ \A j \in 1..Len(s) + Len(u) :
            (s \o u)[j] = IF j <= Len(s) THEN s[j] ELSE u[j - Len(s)]
  OBVIOUS
<1>2. Len(m) \in Nat /\ Len(s) \in Nat /\ Len(u) \in Nat
  BY DEF Messages
<1>3. from + (Len(s) + Len(u)) <= 2 * Len(m)
  BY <1>2 DEF Carries
<1>4. ASSUME NEW j \in 1..Len(s) + Len(u), NEW i \in 1..Len(m)
      PROVE  /\ from + j = 2 * i - 1 => (s \o u)[j] = m[i][1]
             /\ from + j = 2 * i => (s \o u)[j] = m[i][2]
  <2>1. CASE j <= Len(s)
    <3>1. j \in 1..Len(s) /\ (s \o u)[j] = s[j]
      BY <1>1, <1>2, <1>4, <2>1
    <3> QED
      BY <3>1 DEF Carries
  <2>2. CASE ~ (j <= Len(s))
    <3> DEFINE k == j - Len(s)
    <3>1. k \in 1..Len(u) /\ (s \o u)[j] = u[k] /\ from + j = (from + Len(s)) + k
      BY <1>1, <1>2, <1>4, <2>2
    <3> HIDE DEF k
    <3>2. /\ (from + Len(s)) + k = 2 * i - 1 => u[k] = m[i][1]
          /\ (from + Len(s)) + k = 2 * i => u[k] = m[i][2]
      BY <3>1 DEF Carries
    <3> QED
      BY <3>1, <3>2
  <2> QED
    BY <2>1, <2>2
<1> QED
  BY <1>1, <1>3, <1>4 DEF Carries

LEMMA CarriesCut ==
    ASSUME NEW m \in Messages, NEW from \in Nat,
           NEW s \in Seq(Cell), NEW n \in 0..Len(s), Carries(s, from, m)
    PROVE  /\ Carries(SubSeq(s, 1, n), from, m)
           /\ Carries(SubSeq(s, n + 1, Len(s)), from + n, m)
           /\ SubSeq(s, 1, n) \in Seq(Cell) /\ Len(SubSeq(s, 1, n)) = n
           /\ SubSeq(s, n + 1, Len(s)) \in Seq(Cell)
           /\ Len(SubSeq(s, n + 1, Len(s))) = Len(s) - n
<1> DEFINE h == SubSeq(s, 1, n)
           r == SubSeq(s, n + 1, Len(s))
<1>1. Len(s) \in Nat /\ n \in Nat /\ n <= Len(s) /\ Len(m) \in Nat
  BY DEF Messages
<1>2. h \in Seq(Cell) /\ Len(h) = n /\ r \in Seq(Cell) /\ Len(r) = Len(s) - n
  BY <1>1, PartOfSeq
<1>3. /\ \A j \in 1..n : h[j] = s[j]
      /\ \A j \in 1..Len(s) - n : r[j] = s[n + j]
  BY <1>1
<1> HIDE DEF h, r
<1>4. from + Len(s) <= 2 * Len(m)
  BY DEF Carries
<1>5. Carries(h, from, m)
  <2>1. from + Len(h) <= 2 * Len(m)
    BY <1>1, <1>2, <1>4
  <2>2. \A j \in 1..Len(h) : j \in 1..Len(s) /\ h[j] = s[j]
    BY <1>1, <1>2, <1>3
  <2> QED
    BY <2>1, <2>2 DEF Carries
<1>6. Carries(r, from + n, m)
  <2>1. from + n + Len(r) <= 2 * Len(m)
    BY <1>1, <1>2, <1>4
  <2>2. \A j \in 1..Len(r) :
           n + j \in 1..Len(s) /\ r[j] = s[n + j] /\ (from + n) + j = from + (n + j)
    BY <1>1, <1>2, <1>3
  <2>3. ASSUME NEW j \in 1..Len(r), NEW i \in 1..Len(m)
        PROVE  /\ (from + n) + j = 2 * i - 1 => r[j] = m[i][1]
               /\ (from + n) + j = 2 * i => r[j] = m[i][2]
    <3>1. /\ from + (n + j) = 2 * i - 1 => s[n + j] = m[i][1]
          /\ from + (n + j) = 2 * i => s[n + j] = m[i][2]
      BY <2>2 DEF Carries
    <3> QED
      BY <2>2, <3>1
  <2> QED
    BY <2>1, <2>3 DEF Carries
<1> QED
  BY <1>2, <1>5, <1>6 DEF h, r

(* A read moves cells from the wire into the buffer.                       *)
LEMMA ArrivesRead ==
    ASSUME NEW m \in Messages, NEW t \in Nat, NEW b \in Seq(Cell),
           NEW w \in Seq(Cell), NEW n \in 0..Len(w), Arrives(b, w, t, m)
    PROVE  LET b2 == b \o SubSeq(w, 1, n)
               w2 == SubSeq(w, n + 1, Len(w))
           IN  /\ Arrives(b2, w2, t, m)
               /\ b2 \in Seq(Cell) /\ w2 \in Seq(Cell)
               /\ Len(b2) = Len(b) + n /\ Len(w2) = Len(w) - n
<1> DEFINE h == SubSeq(w, 1, n)
           r == SubSeq(w, n + 1, Len(w))
<1>1. Len(b) \in Nat /\ n \in Nat /\ 2 * t \in Nat /\ 2 * t + Len(b) \in Nat
  OBVIOUS
<1>2. Carries(b, 2 * t, m) /\ Carries(w, 2 * t + Len(b), m)
  BY DEF Arrives
<1>3. /\ Carries(h, 2 * t + Len(b), m) /\ Carries(r, 2 * t + Len(b) + n, m)
      /\ h \in Seq(Cell) /\ Len(h) = n /\ r \in Seq(Cell) /\ Len(r) = Len(w) - n
  BY <1>1, <1>2, CarriesCut
<1> HIDE DEF h, r
<1>4. b \o h \in Seq(Cell) /\ Len(b \o h) = Len(b) + n
  BY <1>3, Glued
<1>5. Carries(b \o h, 2 * t, m)
  BY <1>1, <1>2, <1>3, CarriesGlued
<1>6. 2 * t + Len(b \o h) = 2 * t + Len(b) + n
  BY <1>1, <1>4
<1>7. Arrives(b \o h, r, t, m)
  BY <1>3, <1>5, <1>6 DEF Arrives
<1> QED
  BY <1>3, <1>4, <1>7 DEF h, r

(* The message of the header and body at the head of a buffer.             *)
LEMMA Decoding ==
    ASSUME NEW m \in Messages, NEW t \in Nat, NEW w \in Seq(Cell), NEW size \in Nat,
           NEW kb \in GoodBufs(Cell, size), kb.cp = kb.sp, ~ kcn_msg_partial(kb)
    PROVE  /\ kcn_msg_decoded(kb) \in GoodBufs(Cell, size)
           /\ kcn_msg_decoded(kb).cp = kcn_msg_decoded(kb).sp
           /\ Len(kcn_msg_decoded(kb).data) = Len(kb.data) - 2
           /\ Arrives(kb.data, w, t, m) =>
                 /\ t + 1 \in 1..Len(m)
                 /\ kcn_msg_type(kb) = m[t + 1][1].type
                 /\ kcn_msg_body(kb) = m[t + 1][2]
                 /\ Arrives(kcn_msg_decoded(kb).data, w, t + 1, m)
<1> DEFINE d  == kb.data
           d1 == SubSeq(d, 2, Len(d))
           d2 == SubSeq(d1, 2, Len(d1))
           D  == kcn_msg_decoded(kb)
<1>1. /\ d \in Seq(Cell) /\ kb.sp \in Nat /\ kb.cp \in Nat
      /\ kb.sp + Len(d) <= size /\ Len(d) >= 2 /\ Len(d) \in Nat
  BY DEF GoodBufs, KcnBufs, kcn_buf_ok, kb_ep, kcn_msg_partial, KCN_MSG_HDRSIZ,
         KCN_MSG_BODYSIZ, kcn_buf_trailingdata
<1>2. d1 \in Seq(Cell) /\ Len(d1) = Len(d) - 1
  BY <1>1, PartOfSeq
<1>3. d2 \in Seq(Cell) /\ Len(d2) = Len(d) - 2
  <2>1. Len(d1) - 2 + 1 = Len(d) - 2 /\ Len(d1) \in Nat /\ Len(d1) >= 1
    BY <1>1, <1>2
  <2>2. d2 \in Seq(Cell) /\ Len(d2) = IF 2 <= Len(d1) THEN Len(d1) - 2 + 1 ELSE 0
    BY <1>2, <2>1, PartOfSeq
  <2> QED
    BY <1>1, <1>2, <2>1, <2>2
<1>a. kb.sp \in Nat /\ kb.cp \in Nat /\ kb.cp = kb.sp
  BY <1>1
<1>4. D = [sp |-> kb.sp + 2, cp |-> kb.sp + 2, data |-> d2]
  <2> DEFINE h == kcn_buf_forward(kb, KCN_MSG_HDRSIZ)
             b == kcn_buf_trim_head(h, kcn_buf_headingdata(h))
             f == kcn_buf_forward(b, KCN_MSG_BODYSIZ)
  <2> HIDE DEF d1, d2, d
  <2>1. h = [sp |-> kb.sp, cp |-> kb.sp + 1, data |-> d] /\ kcn_buf_headingdata(h) = 1
    BY <1>a DEF kcn_buf_forward, kcn_buf_headingdata, KCN_MSG_HDRSIZ, d
  <2> HIDE DEF h
  <2>2. b = [sp |-> kb.sp + 1, cp |-> kb.sp + 1, data |-> SubSeq(d, 1 + 1, Len(d))]
    BY <1>a, <2>1 DEF kcn_buf_trim_head
  <2>3. b = [sp |-> kb.sp + 1, cp |-> kb.sp + 1, data |-> d1]
    BY <2>2 DEF d1
  <2> HIDE DEF b
  <2>4. /\ f = [sp |-> kb.sp + 1, cp |-> kb.sp + 2, data |-> d1]
        /\ kcn_buf_headingdata(f) = 1
    BY <1>a, <2>3 DEF kcn_buf_forward, kcn_buf_headingdata, KCN_MSG_BODYSIZ
  <2>5. D = kcn_buf_trim_head(f, kcn_buf_headingdata(f))
    BY DEF kcn_msg_decoded, h, b
  <2> HIDE DEF f, D
  <2>6. D = [sp |-> kb.sp + 2, cp |-> kb.sp + 2, data |-> SubSeq(d1, 1 + 1, Len(d1))]
    <3>1. /\ f.sp + 1 = kb.sp + 2 /\ f.cp = kb.sp + 2 /\ f.data = d1
          /\ ~ (f.sp + 1 > f.cp)
      BY <1>a, <2>4
    <3>2. D = [sp |-> f.sp + 1, cp |-> f.cp, data |-> SubSeq(f.data, 1 + 1, Len(f.data))]
      BY <2>4, <2>5, <3>1 DEF kcn_buf_trim_head
    <3> QED
      BY <3>1, <3>2
  <2> QED
    BY <2>6 DEF d2
<1> HIDE DEF d1, d2, D
<1>5. D \in GoodBufs(Cell, size) /\ D.cp = D.sp /\ D.data = d2
  BY <1>1, <1>3, <1>4 DEF GoodBufs, KcnBufs, kcn_buf_ok, kb_ep
<1>6. ASSUME Arrives(d, w, t, m)
      PROVE  /\ t + 1 \in 1..Len(m)
             /\ d[1] = m[t + 1][1] /\ d[2] = m[t + 1][2]
             /\ Arrives(d2, w, t + 1, m)
  <2>1. Carries(d, 2 * t, m) /\ Carries(w, 2 * t + Len(d), m)
    BY <1>6 DEF Arrives
  <2>2. t + 1 \in 1..Len(m)
    <3>1. 2 * t + Len(d) <= 2 * Len(m)
      BY <2>1 DEF Carries
    <3>2. Len(m) \in Nat /\ Len(d) \in Nat /\ Len(d) >= 2
      BY <1>1 DEF Messages
    <3>3. \A x, y \in Nat : y >= 2 /\ 2 * t + y <= 2 * x => t + 1 \in 1..x
      OBVIOUS
    <3> QED
      BY <3>1, <3>2, <3>3
  <2>3. d[1] = m[t + 1][1] /\ d[2] = m[t + 1][2]
    <3>1. 1 \in 1..Len(d) /\ 2 \in 1..Len(d)
      BY <1>1
    <3>2. 2 * t + 1 = 2 * (t + 1) - 1 /\ 2 * t + 2 = 2 * (t + 1)
      OBVIOUS
    <3>3. /\ 2 * t + 1 = 2 * (t + 1) - 1 => d[1] = m[t + 1][1]
          /\ 2 * t + 2 = 2 * (t + 1) => d[2] = m[t + 1][2]
      BY <2>1, <2>2, <3>1 DEF Carries
    <3> QED
      BY <3>2, <3>3
  <2>4. Carries(d1, 2 * t + 1, m)
    <3>1. 1 \in 0..Len(d) /\ 2 * t \in Nat /\ 1 + 1 = 2
      BY <1>1
    <3>2. Carries(SubSeq(d, 1 + 1, Len(d)), 2 * t + 1, m)
      BY <1>1, <2>1, <3>1, CarriesCut
    <3> QED
      BY <3>1, <3>2 DEF d1
  <2>5. Carries(d2, 2 * (t + 1), m)
    <3>1. 1 \in 0..Len(d1) /\ 2 * t + 1 \in Nat /\ 1 + 1 = 2
          /\ 2 * t + 1 + 1 = 2 * (t + 1)
      BY <1>1, <1>2
    <3>2. Carries(SubSeq(d1, 1 + 1, Len(d1)), 2 * t + 1 + 1, m)
      BY <1>2, <2>4, <3>1, CarriesCut
    <3> QED
      BY <3>1, <3>2 DEF d2
  <2>6. 2 * (t + 1) + Len(d2) = 2 * t + Len(d)
    <3>1. \A x \in Nat : 2 * (t + 1) + (x - 2) = 2 * t + x
      OBVIOUS
    <3> QED
      BY <1>1, <1>3, <3>1
  <2> QED
    BY <2>1, <2>2, <2>3, <2>5, <2>6 DEF Arrives
<1>7. kcn_msg_type(kb) = d[1].type /\ kcn_msg_body(kb) = d[2]
  <2>1. kcn_buf_headingdata(kb) = 0
    BY <1>1 DEF kcn_buf_headingdata
  <2> QED
    BY <2>1 DEF kcn_msg_type, kcn_msg_body, kcn_buf_get
<1> QED
  BY <1>3, <1>5, <1>6, <1>7 DEF D

LEMMA PartOfMessage ==
    ASSUME NEW size \in Nat, NEW kb \in GoodBufs(Cell, size), kb.cp = kb.sp
    PROVE  kcn_msg_partial(kb) <=> Len(kb.data) < 2
<1>1. kb.data \in Seq(Cell) /\ kb.sp \in Nat /\ Len(kb.data) \in Nat
  BY DEF GoodBufs, KcnBufs
<1>2. kcn_msg_partial(kb) <=> (kb.sp + Len(kb.data)) - kb.sp < 2
  BY DEF kcn_msg_partial, KCN_MSG_HDRSIZ, KCN_MSG_BODYSIZ, kcn_buf_trailingdata, kb_ep
<1>3. \A x, y \in Nat : (x + y) - x = y
  OBVIOUS
<1> QED
  BY <1>1, <1>2, <1>3

(* More messages are put at the end of the queue.                          *)
LEMMA MoreQueued ==
    ASSUME NEW m \in Messages, NEW made \in Nat,
           NEW q \in Seq(Seq(Cell)), NEW u \in Seq(Seq(Cell)), Queues(q, m, made),
           made + Len(u) <= Len(m), \A k \in 1..Len(u) : u[k] = m[made + k]
    PROVE  /\ Queues(q \o u, m, made + Len(u))
           /\ Put(q \o u, made + Len(u)) = Put(q, made)
<1> DEFINE v == q \o u
           N == Len(q)
           M == Len(u)
<1>1. /\ N \in Nat /\ M \in Nat /\ Len(v) = N + M
      /\ \A k \in 1..N + M : v[k] = IF k <= N THEN q[k] ELSE u[k - N]
      /\ (v = << >>) = (N + M = 0) /\ (q = << >>) = (N = 0)
  OBVIOUS
<1>2. N <= made /\ made <= Len(m)
  BY DEF Queues
<1> HIDE DEF v, N, M
<1>3. (made + M) - (N + M) = made - N
  BY <1>1, <1>2
<1>4. Queues(v, m, made + M)
  <2>1. Len(v) <= made + M
    BY <1>1, <1>2
  <2>2. ASSUME NEW k \in 1..Len(v)
        PROVE  \/ v[k] = m[(made + M) - Len(v) + k]
               \/ k = 1 /\ v[k] = <<m[(made + M) - Len(v) + k][2]>>
    <3>1. (made + M) - Len(v) + k = made - N + k
      BY <1>1, <1>3
    <3>2. CASE k <= N
      <4>1. k \in 1..N /\ v[k] = q[k]
        BY <1>1, <3>2
      <4> QED
        BY <3>1, <4>1 DEF Queues, N
    <3>3. CASE ~ (k <= N)
      <4>1. k - N \in 1..M /\ v[k] = u[k - N] /\ made + (k - N) = made - N + k
        BY <1>1, <1>2, <3>3
      <4> QED
        BY <3>1, <4>1 DEF M
    <3> QED
      BY <3>2, <3>3
  <2>3. made + M <= Len(m)
    BY DEF M
  <2> QED
    BY <2>1, <2>2, <2>3 DEF Queues
<1>5. Put(v, made + M) = Put(q, made)
  <2>1. CASE N > 0
    <3>1. v[1] = q[1] /\ v # << >> /\ q # << >>
      BY <1>1, <2>1
    <3> QED
      BY <1>1, <1>3, <3>1 DEF Put, N
  <2>2. CASE N = 0 /\ M > 0
    <3>1. v[1] = u[1] /\ v # << >> /\ q = << >>
      BY <1>1, <2>2
    <3>2. u[1] = m[made + 1] /\ made + 1 \in 1..Len(m)
      BY <1>1, <2>2 DEF M
    <3>3. Len(u[1]) = 2
      BY <3>2 DEF Messages
    <3>4. Put(v, made + M) = 2 * (made - N) + (2 - 2)
      BY <1>1, <1>3, <3>1, <3>3 DEF Put
    <3>5. Put(q, made) = 2 * (made - N) + 0
      BY <3>1 DEF Put, N
    <3> QED
      BY <1>1, <3>4, <3>5
  <2>3. CASE N = 0 /\ M = 0
    <3>1. v = << >> /\ q = << >>
      BY <1>1, <2>3
    <3> QED
      BY <1>1, <1>3, <3>1 DEF Put, N
  <2> QED
    BY <1>1, <2>1, <2>2, <2>3
<1> QED
  BY <1>4, <1>5 DEF v, M

LEMMA TailOf ==
    ASSUME NEW S, NEW s \in Seq(S), s # << >>
    PROVE  /\ Head(s) = s[1] /\ Head(s) \in S
           /\ Tail(s) \in Seq(S) /\ Len(Tail(s)) = Len(s) - 1
           /\ \A k \in 1..Len(s) - 1 : Tail(s)[k] = s[k + 1]
           /\ (Tail(s) = << >>) = (Len(s) = 1)
           /\ Len(s) \in Nat /\ Len(s) >= 1
<1>1. /\ Head(s) = s[1] /\ Tail(s) \in Seq(S) /\ Len(Tail(s)) = Len(s) - 1
      /\ \A k \in 1..Len(s) - 1 : Tail(s)[k] = s[k + 1]
      /\ Len(s) \in Nat /\ Len(s) >= 1
  OBVIOUS
<1>2. Head(s) \in S
  OBVIOUS
<1>3. (Tail(s) = << >>) = (Len(Tail(s)) = 0)
  <2>1. \A u \in Seq(S) : (u = << >>) = (Len(u) = 0)
    OBVIOUS
  <2> QED
    BY <1>1, <2>1
<1> QED
  BY <1>1, <1>2, <1>3

LEMMA OneCell ==
    ASSUME NEW S, NEW s \in Seq(S), Len(s) = 1
    PROVE  s = <<s[1]>> /\ s # << >>
OBVIOUS

LEMMA WholeOrBody ==
    ASSUME NEW msg, Len(msg) = 2, NEW h, h = msg \/ h = <<msg[2]>>
    PROVE  /\ Len(h) = 1 \/ Len(h) = 2
           /\ Len(h) = 2 => h = msg
           /\ Len(h) = 1 => h = <<msg[2]>>
<1>1. CASE h = msg
  BY <1>1
<1>2. CASE h = <<msg[2]>>
  BY <1>2
<1> QED
  BY <1>1, <1>2

(* The cells that are left of a message, counted from either end.          *)
LEMMA CellPlaces ==
    ASSUME NEW x \in Nat, NEW y \in Nat, NEW z \in Nat, x = 1 \/ x = 2, y >= 1, y <= x
    PROVE  /\ y # x => x = 2 /\ y = 1
           /\ 2 * z + (2 - x) \in Nat
           /\ \A j \in 1..y, k \in Nat :
                 /\ 2 * z + (2 - x) + j = 2 * k - 1 => x = 2 /\ j = 1 /\ k = z + 1
                 /\ 2 * z + (2 - x) + j = 2 * k => j = x /\ k = z + 1
OBVIOUS

(* A turn of the loop of kcn_net_write_cb: cells go to the wire.           *)
LEMMA WrittenFlows ==
    ASSUME NEW m \in Messages, NEW made \in Nat,
           NEW q \in Seq(Seq(Cell)), Queues(q, m, made), q # << >>,
           NEW n \in 1..Len(Head(q))
    PROVE  /\ Queues(Written(q, n), m, made)
           /\ Put(q, made) \in Nat
           /\ Put(Written(q, n), made) = Put(q, made) + n
           /\ Carries(SubSeq(Head(q), 1, n), Put(q, made), m)
           /\ SubSeq(Head(q), 1, n) \in Seq(Cell) /\ Len(SubSeq(Head(q), 1, n)) = n
<1> DEFINE N == Len(q)
           h == Head(q)
           T == Tail(q)
           i == made - N + 1
           rest == SubSeq(h, n + 1, Len(h))
<1>1. /\ N \in Nat /\ N >= 1 /\ h = q[1] /\ h \in Seq(Cell) /\ Len(h) \in Nat
      /\ T \in Seq(Seq(Cell)) /\ Len(T) = N - 1
      /\ \A k \in 1..N - 1 : T[k] = q[k + 1]
      /\ (T = << >>) = (N - 1 = 0)
  <2>1. N \in Nat /\ N >= 1 /\ h = q[1] /\ 1 \in 1..N
    BY TailOf
  <2>2. h \in Seq(Cell)
    BY TailOf
  <2>3. Len(h) \in Nat
    BY <2>2
  <2>4. /\ T \in Seq(Seq(Cell)) /\ Len(T) = N - 1
        /\ \A k \in 1..N - 1 : T[k] = q[k + 1]
    BY TailOf
  <2>5. (T = << >>) = (N - 1 = 0)
    <3>1. (T = << >>) = (N = 1)
      BY TailOf
    <3> HIDE DEF N, T
    <3> QED
      BY <2>1, <3>1
  <2> QED
    BY <2>1, <2>2, <2>3, <2>4, <2>5
<1>2. N <= made /\ made <= Len(m) /\ Len(m) \in Nat
  BY DEF Queues, Messages
<1>3. i \in 1..Len(m) /\ i \in Nat
  BY <1>1, <1>2
<1>4. /\ h = m[i] \/ h = <<m[i][2]>>
      /\ \A k \in 2..N : q[k] = m[made - N + k]
  <2>1. 1 \in 1..N /\ \A k \in 2..N : k \in 1..N /\ k # 1
    BY <1>1
  <2> QED
    BY <1>1, <2>1 DEF Queues
<1>5. m[i] \in Seq(Cell) /\ Len(m[i]) = 2
  BY <1>3 DEF Messages
<1>6. \A k \in 2..N : Len(q[k]) = 2
  <2>1. \A k \in 2..N : made - N + k \in 1..Len(m)
    BY <1>1, <1>2
  <2> QED
    BY <1>4, <2>1 DEF Messages
<1>7. /\ Len(h) = 1 \/ Len(h) = 2
      /\ Len(h) = 2 => h = m[i]
      /\ Len(h) = 1 => h = <<m[i][2]>>
  BY <1>4, <1>5, WholeOrBody
<1>l. Len(h) = 1 \/ Len(h) = 2
  BY <1>7
<1>8. Put(q, made) = 2 * (made - N) + (2 - Len(h))
  BY <1>1 DEF Put
<1>n. n \in Nat /\ n >= 1 /\ n <= Len(h)
  BY <1>1
<1>9. rest \in Seq(Cell) /\ Len(rest) = Len(h) - n
  BY <1>1, <1>n, PartOfSeq
<1>10. Written(q, n) = IF rest = << >> THEN T ELSE <<rest>> \o T
  BY DEF Written
<1>b. N \in Nat /\ made - N \in Nat /\ 2 * (made - N) \in Nat
  BY <1>1, <1>2
<1> HIDE DEF N, h, T, i, rest
<1>p. /\ n # Len(h) => Len(h) = 2 /\ n = 1
      /\ 2 * (made - N) + (2 - Len(h)) \in Nat
      /\ \A j \in 1..n, k \in Nat :
            /\ 2 * (made - N) + (2 - Len(h)) + j = 2 * k - 1
                  => Len(h) = 2 /\ j = 1 /\ k = made - N + 1
            /\ 2 * (made - N) + (2 - Len(h)) + j = 2 * k
                  => j = Len(h) /\ k = made - N + 1
  <2> DEFINE x == Len(h)
             z == made - N
  <2>1. x \in Nat /\ n \in Nat /\ z \in Nat /\ (x = 1 \/ x = 2) /\ n >= 1 /\ n <= x
    BY <1>1, <1>b, <1>l, <1>n
  <2> HIDE DEF x, z
  <2>2. /\ n # x => x = 2 /\ n = 1
        /\ 2 * z + (2 - x) \in Nat
        /\ \A j \in 1..n, k \in Nat :
              /\ 2 * z + (2 - x) + j = 2 * k - 1 => x = 2 /\ j = 1 /\ k = z + 1
              /\ 2 * z + (2 - x) + j = 2 * k => j = x /\ k = z + 1
    BY <2>1, CellPlaces
  <2> QED
    BY <2>2 DEF x, z
<1>c. /\ Queues(Written(q, n), m, made)
      /\ Put(Written(q, n), made) = 2 * (made - N) + (2 - Len(h)) + n
  <2>1. CASE n = Len(h)
    <3>1. Written(q, n) = T
      BY <1>9, <1>10, <2>1
    <3>2. Queues(T, m, made)
      <4>1. Len(T) <= made /\ made <= Len(m)
        BY <1>1, <1>2
      <4>2. ASSUME NEW k \in 1..Len(T) PROVE T[k] = m[made - Len(T) + k]
        <5>1. k + 1 \in 2..N /\ made - N + (k + 1) = made - Len(T) + k /\ k \in 1..N - 1
          BY <1>1, <1>2
        <5> QED
          BY <1>1, <1>4, <5>1
      <4> QED
        BY <4>1, <4>2 DEF Queues
    <3>3. Put(T, made) = 2 * (made - N) + 2
      <4>1. CASE N = 1
        <5>1. T = << >> /\ Len(T) = 0
          BY <1>1, <4>1
        <5> QED
          BY <1>1, <1>2, <4>1, <5>1 DEF Put
      <4>2. CASE N > 1
        <5>1. T # << >> /\ T[1] = q[2] /\ Len(q[2]) = 2
          BY <1>1, <1>6, <4>2
        <5>2. Put(T, made) = 2 * (made - Len(T)) + (2 - 2)
          BY <5>1 DEF Put
        <5> QED
          BY <1>1, <1>2, <5>2
      <4> QED
        BY <1>1, <4>1, <4>2
    <3>4. 2 * (made - N) + 2 = 2 * (made - N) + (2 - Len(h)) + n
      BY <1>l, <2>1, <1>b
    <3> QED
      BY <3>1, <3>2, <3>3, <3>4
  <2>2. CASE n # Len(h)
    <3> DEFINE v == <<rest>> \o T
    <3>1. Len(h) = 2 /\ n = 1 /\ h = m[i]
      <4>1. Len(h) = 2 /\ n = 1
        BY <1>p, <2>2
      <4> QED
        BY <1>7, <4>1
    <3>2. rest # << >> /\ rest = <<m[i][2]>> /\ Len(rest) = 1
      <4>1. Len(rest) = 1
        BY <1>9, <3>1
      <4>2. rest = SubSeq(h, 2, 2)
        BY <3>1 DEF rest
      <4>3. SubSeq(h, 2, 2)[1] = h[2]
        BY <1>1, <3>1
      <4>4. rest = <<rest[1]>> /\ rest # << >>
        BY <1>9, <4>1, OneCell
      <4> QED
        BY <3>1, <4>1, <4>2, <4>3, <4>4
    <3>3. Written(q, n) = v
      BY <1>10, <3>2
    <3>4. /\ v # << >> /\ v[1] = rest /\ Len(v) = N
          /\ \A k \in 2..N : v[k] = T[k - 1] /\ k - 1 \in 1..N - 1
      BY <1>1, <1>9
    <3> HIDE DEF v
    <3>5. Queues(v, m, made)
      <4>1. Len(v) <= made /\ made <= Len(m)
        BY <1>2, <3>4
      <4>2. v[1] = <<m[made - Len(v) + 1][2]>>
        BY <3>2, <3>4 DEF i
      <4>3. ASSUME NEW k \in 2..N PROVE v[k] = m[made - Len(v) + k]
        <5>1. v[k] = T[k - 1] /\ k - 1 \in 1..N - 1 /\ (k - 1) + 1 = k
          BY <3>4
        <5>2. T[k - 1] = q[k]
          BY <1>1, <5>1
        <5> QED
          BY <1>4, <3>4, <5>1, <5>2
      <4>4. \A k \in 1..N : k = 1 \/ k \in 2..N
        BY <1>b
      <4> QED
        BY <3>4, <4>1, <4>2, <4>3, <4>4 DEF Queues
    <3>6. Put(v, made) = 2 * (made - N) + (2 - 1)
      BY <3>2, <3>4 DEF Put
    <3>7. 2 * (made - N) + (2 - 1) = 2 * (made - N) + (2 - Len(h)) + n
      BY <1>b, <3>1
    <3> QED
      BY <3>3, <3>5, <3>6, <3>7
  <2> QED
    BY <2>1, <2>2
<1>13. Put(q, made) \in Nat
  BY <1>8, <1>p
<1>14. /\ SubSeq(h, 1, n) \in Seq(Cell) /\ Len(SubSeq(h, 1, n)) = n
       /\ \A j \in 1..n : SubSeq(h, 1, n)[j] = h[j]
  <2>1. SubSeq(h, 1, n) \in Seq(Cell) /\ Len(SubSeq(h, 1, n)) = n
    BY <1>1, <1>n, PartOfSeq
  <2>2. \A j \in 1..n : SubSeq(h, 1, n)[j] = h[j]
    BY <1>1, <1>n
  <2> QED
    BY <2>1, <2>2
<1>15. Carries(SubSeq(h, 1, n), Put(q, made), m)
  <2> DEFINE g == SubSeq(h, 1, n)
             P == Put(q, made)
  <2>0. Len(g) = n /\ \A j \in 1..n : g[j] = h[j]
    BY <1>14
  <2>a. P = 2 * (made - N) + (2 - Len(h))
    BY <1>8
  <2>b. i = made - N + 1 /\ i <= Len(m) /\ Len(m) \in Nat /\ made \in Nat
    BY <1>2, <1>3 DEF i
  <2> HIDE DEF g, P
  <2>1. P + n <= 2 * Len(m)
    <3>1. \A x, l \in Nat : made - N + 1 <= x /\ n <= l =>
             2 * (made - N) + (2 - l) + n <= 2 * x
      BY <1>b, <1>n
    <3> QED
      BY <1>1, <1>n, <2>a, <2>b, <3>1
  <2>2. ASSUME NEW j \in 1..n, NEW k \in 1..Len(m), P + j = 2 * k - 1
        PROVE  g[j] = m[k][1]
    <3>1. Len(h) = 2 /\ j = 1 /\ k = i
      BY <1>p, <2>2, <2>a, <2>b
    <3> QED
      BY <1>7, <2>0, <3>1
  <2>3. ASSUME NEW j \in 1..n, NEW k \in 1..Len(m), P + j = 2 * k
        PROVE  g[j] = m[k][2]
    <3>1. CASE Len(h) = 1
      <4>1. j = 1 /\ k = i
        BY <1>p, <2>3, <2>a, <2>b, <3>1
      <4>2. h = <<m[i][2]>>
        BY <1>7, <3>1
      <4>3. h[1] = m[i][2]
        BY <4>2
      <4> QED
        BY <2>0, <4>1, <4>3
    <3>2. CASE Len(h) = 2
      <4>1. j = 2 /\ k = i
        BY <1>p, <2>3, <2>a, <2>b, <3>2
      <4> QED
        BY <1>7, <2>0, <3>2, <4>1
    <3> QED
      BY <1>7, <3>1, <3>2
  <2> QED
    BY <2>0, <2>1, <2>2, <2>3 DEF Carries, g, P
<1> QED
  BY <1>8, <1>c, <1>13, <1>14, <1>15 DEF h

-----------------------------------------------------------------------------
(* The invariant.                                                          *)

(* What a client sends in its life.                                        *)
Req(c) ==
    IF Job[c].kind = "query" THEN <<kcn_msg_query_encode(Job[c].max)>>
    ELSE Adds(Job[c].recs)

(* What it is sent.                                                        *)
Resp(c) == IF answered[c] = << >> THEN << >> ELSE Responses(answered[c][1])

(* How much of the first has been put into its queue, and was processed.   *)
Made(c) == Len(Req(c)) - Len(unsent[c])
Taken(c) == Len(answered[c]) + Len(stored[c])

Requests(c) ==
    sock[c] # "none" /\ <<c, "server">> \notin closed =>
        /\ \A s \in Server : peer[s] = c =>
              Flows(ibuf[s].data, wire[<<c, "server">>], Taken(c),
                    obufq[c], Made(c), Req(c))
        /\ (\A s \in Server : peer[s] # c) =>
              /\ Taken(c) = 0
              /\ Flows(<< >>, wire[<<c, "server">>], 0, obufq[c], Made(c), Req(c))

(* A client that reads, or will when it is connected.                      *)
Reading(c) ==
    /\ pc[c] \in Active /\ kn_state[c] # "DISCONNECTED"
    /\ kn_state[c] = "PENDING" \/ evread[c] \/ pc[c] = "recv"

(* It has taken a locator of each response, or all the responses.          *)
Answering(c) ==
    Reading(c) => \E t \in {Len(got[c]), Len(Resp(c))} :
        /\ Arrives(ibuf[c].data, wire[<<c, "client">>], t, Resp(c))
        /\ \A s \in Server : peer[s] = c /\ kn_state[s] # "DISCONNECTED" =>
              Flows(ibuf[c].data, wire[<<c, "client">>], t,
                    obufq[s], Len(Resp(c)), Resp(c))

(* Nothing has happened to a client that has not made its connection.      *)
Fresh(c) ==
    /\ pc[c] \in Active => sock[c] # "none"
    /\ sock[c] = "none" =>
          /\ answered[c] = << >> /\ stored[c] = << >>
          /\ got[c] = << >> /\ unsent[c] = << >>
          /\ wire[<<c, "server">>] = << >> /\ wire[<<c, "client">>] = << >>

(* What is processed of a client, and what is left of its file.            *)
Processed(c) ==
    /\ Job[c].kind = "query" => stored[c] = << >> /\ unsent[c] = << >>
    /\ Job[c].kind # "query" => answered[c] = << >>
    /\ Len(answered[c]) <= 1
    /\ answered[c] # << >> => answered[c][1] \in Answers(Job[c].max % UINT8)
    /\ Len(stored[c]) <= Len(Job[c].recs)
    /\ \A k \in 1..Len(stored[c]) : stored[c][k] = Job[c].recs[k]
    /\ Len(unsent[c]) <= Len(Job[c].recs)
    /\ \A k \in 1..Len(unsent[c]) :
          unsent[c][k] = Job[c].recs[Len(Job[c].recs) - Len(unsent[c]) + k]

(* The answer ends, for who can only tell locators, behind n of them.      *)
EndsAfter(a, n) ==
    \/ Len(a.locs) = n /\ a.error = "0"
    \/ Len(a.locs) > n /\ a.locs[n + 1] = NoLoc

Begins(c) ==
    /\ answered[c] = << >> => got[c] = << >>
    /\ answered[c] # << >> =>
          /\ Len(got[c]) <= Len(answered[c][1].locs)
          /\ \A k \in 1..Len(got[c]) :
                got[c][k] = answered[c][1].locs[k] /\ got[c][k] # NoLoc

(* A client that took the last of its responses has all its locators.      *)
Given(c) ==
    /\ Begins(c)
    /\ pc[c] \in {"loop", "write"} /\ got[c] # << >> /\ kcr_error[c] = "0" =>
          EndsAfter(answered[c][1], Len(got[c]))
    /\ result[c] = "ok" /\ got[c] # << >> =>
          EndsAfter(answered[c][1], Len(got[c]))
    /\ result[c] = "ok" => pc[c] = "done"
    /\ Reading(c) => errno[c] # "0"

Connection(c) ==
    /\ Fresh(c) /\ Processed(c) /\ Given(c)
    /\ Requests(c) /\ Answering(c)

(* What is left in a buffer when a peer goes on reading is not a message.  *)
Buffers ==
    \A p \in Peer :
        /\ ibuf[p].cp = ibuf[p].sp
        /\ pc[p] = "recv" => ~ evread[p]
        /\ pc[p] # "recv" /\ (evread[p] \/ kn_state[p] \in {"INIT", "PENDING"}) =>
              Len(ibuf[p].data) < 2

(* The types that the events of the connections do not depend on.          *)
DataType ==
    /\ ibuf \in [Peer -> GoodBufs(Cell, BUFSIZ)]
    /\ obufq \in [Peer -> Seq(Seq(Cell) \ {<< >>})]
    /\ wire \in [Ends -> Seq(Cell)] /\ reset \subseteq Ends
    /\ errno \in [Client -> Error] /\ kcr_error \in [Client -> Error]
    /\ got \in [Client -> Seq(Loc)] /\ unsent \in [Client -> Seq(Rec)]
    /\ result \in [Client -> Error \cup {"none", "ok", "ECONNREFUSED", "ENETDOWN", "exit"}]
    /\ answered \in [Client -> Seq([locs : Seq(Loc \cup {NoLoc}), error : Errno])]
    /\ stored \in [Client -> Seq(Rec)]

DataInv ==
    /\ LiveInv /\ DataType /\ Buffers
    /\ \A c \in Client : Connection(c)

(* The client a connection belongs to.                                     *)
Whose(p) == IF p \in Client THEN p ELSE peer[p]

-----------------------------------------------------------------------------
(* A step leaves the other connections as they are.                        *)

(* What a client has got, and what it may make of it, stay.                *)
SameResult(d) ==
    /\ Reading(d)' => Reading(d)
    /\ pc'[d] \in {"loop", "write"} => pc[d] \in {"loop", "write"}
    /\ pc[d] = "done" => pc'[d] = "done"
    /\ got'[d] = got[d] /\ answered'[d] = answered[d]
    /\ errno'[d] = errno[d] /\ kcr_error'[d] = kcr_error[d]
    /\ result'[d] = "ok" => result[d] = "ok"

LEMMA GivenKept ==
    ASSUME NEW d \in Client, Given(d), SameResult(d)
    PROVE  Given(d)'
BY DEF SameResult, Given, Begins

(* What was sent by a client and what was processed of it stay.            *)
SameProcessed(d) ==
    unsent'[d] = unsent[d] /\ answered'[d] = answered[d] /\ stored'[d] = stored[d]

LEMMA ProcessedKept ==
    ASSUME NEW d \in Client, Processed(d), SameProcessed(d)
    PROVE  Processed(d)'
BY DEF Processed, SameProcessed

(* So does what is on its way to the thread ...                            *)
SameRequests(d) ==
    /\ SameProcessed(d)
    /\ obufq'[d] = obufq[d]
    /\ wire'[<<d, "server">>] = wire[<<d, "server">>]
    /\ (sock'[d] = "none") = (sock[d] = "none")
    /\ <<d, "server">> \in closed => <<d, "server">> \in closed'
    /\ <<d, "server">> \notin closed' =>
          \A s \in Server : /\ (peer'[s] = d) = (peer[s] = d)
                            /\ peer[s] = d => ibuf'[s] = ibuf[s]

LEMMA RequestsKept ==
    ASSUME NEW d \in Client, Requests(d), SameRequests(d)
    PROVE  Requests(d)'
<1>1. /\ Made(d)' = Made(d) /\ Taken(d)' = Taken(d) /\ Req(d)' = Req(d)
  BY DEF SameRequests, SameProcessed, Made, Taken, Req
<1> SUFFICES ASSUME sock'[d] # "none", <<d, "server">> \notin closed'
    PROVE  /\ \A s \in Server : peer'[s] = d =>
                 Flows(ibuf'[s].data, wire'[<<d, "server">>], Taken(d)',
                       obufq'[d], Made(d)', Req(d)')
           /\ (\A s \in Server : peer'[s] # d) =>
                 /\ Taken(d)' = 0
                 /\ Flows(<< >>, wire'[<<d, "server">>], 0, obufq'[d],
                          Made(d)', Req(d)')
  BY DEF Requests
<1>2. sock[d] # "none" /\ <<d, "server">> \notin closed
  BY DEF SameRequests
<1> QED
  BY <1>1, <1>2 DEF SameRequests, Requests

(* ... and what is on its way from it.                                     *)
SameAnswers(d) ==
    /\ Reading(d)' => Reading(d)
    /\ ibuf'[d] = ibuf[d] /\ got'[d] = got[d] /\ answered'[d] = answered[d]
    /\ wire'[<<d, "client">>] = wire[<<d, "client">>]
    /\ \A s \in Server : peer'[s] = d /\ kn_state'[s] # "DISCONNECTED" =>
          peer[s] = d /\ kn_state[s] # "DISCONNECTED" /\ obufq'[s] = obufq[s]

LEMMA AnsweringKept ==
    ASSUME NEW d \in Client, Answering(d), SameAnswers(d)
    PROVE  Answering(d)'
<1>1. Resp(d)' = Resp(d)
  BY DEF SameAnswers, Resp
<1> SUFFICES ASSUME Reading(d)'
    PROVE  \E t \in {Len(got'[d]), Len(Resp(d)')} :
             /\ Arrives(ibuf'[d].data, wire'[<<d, "client">>], t, Resp(d)')
             /\ \A s \in Server : peer'[s] = d /\ kn_state'[s] # "DISCONNECTED" =>
                   Flows(ibuf'[d].data, wire'[<<d, "client">>], t,
                         obufq'[s], Len(Resp(d)'), Resp(d)')
  BY DEF Answering
<1>2. Reading(d)
  BY DEF SameAnswers
<1>3. PICK t \in {Len(got[d]), Len(Resp(d))} :
             /\ Arrives(ibuf[d].data, wire[<<d, "client">>], t, Resp(d))
             /\ \A s \in Server : peer[s] = d /\ kn_state[s] # "DISCONNECTED" =>
                   Flows(ibuf[d].data, wire[<<d, "client">>], t,
                         obufq[s], Len(Resp(d)), Resp(d))
  BY <1>2 DEF Answering
<1>4. t \in {Len(got'[d]), Len(Resp(d)')}
  BY <1>1, <1>3 DEF SameAnswers
<1> QED
  BY <1>1, <1>3, <1>4 DEF SameAnswers

(* A step does no more to a connection than to end it.                     *)
Undisturbed(d) ==
    /\ SameRequests(d) /\ SameAnswers(d)
    /\ pc'[d] \in Active => pc[d] \in Active

LEMMA Untouched ==
    ASSUME NEW d \in Client, Connection(d), Undisturbed(d), Given(d)'
    PROVE  Connection(d)'
<1>1. Fresh(d)'
  BY DEF Undisturbed, SameRequests, SameProcessed, SameAnswers, Connection, Fresh
<1> QED
  BY <1>1, ProcessedKept, RequestsKept, AnsweringKept
     DEF Undisturbed, SameRequests, Connection

(* A step of p is about the connection of c only.                          *)
Touches(p, c) ==
    /\ \A q \in Peer : q # p =>
          /\ pc'[q] = pc[q] /\ kn_state'[q] = kn_state[q] /\ evread'[q] = evread[q]
          /\ ibuf'[q] = ibuf[q] /\ obufq'[q] = obufq[q]
    /\ \A e \in Ends : e[1] # c =>
          wire'[e] = wire[e] /\ (e \in closed') = (e \in closed)
    /\ \A d \in Client : d # c =>
          /\ sock'[d] = sock[d] /\ unsent'[d] = unsent[d] /\ got'[d] = got[d]
          /\ answered'[d] = answered[d] /\ stored'[d] = stored[d]
          /\ errno'[d] = errno[d] /\ kcr_error'[d] = kcr_error[d]
          /\ result'[d] = result[d]
    /\ \A s \in Server : s # p => peer'[s] = peer[s]
    /\ p \in Client => p = c
    /\ p \in Server => peer[p] \in {c, Nobody} /\ peer'[p] \in {c, Nobody}

LEMMA Elsewhere ==
    ASSUME NEW p \in Peer, NEW c \in Client, Touches(p, c),
           NEW d \in Client, d # c, Connection(d)
    PROVE  Connection(d)'
<1>1. d \in Peer /\ d # p /\ d # Nobody /\ <<d, "server">> \in Ends
      /\ <<d, "client">> \in Ends /\ <<d, "server">>[1] # c /\ <<d, "client">>[1] # c
  BY Kinds DEF Touches, Ends
<1>2. \A s \in Server : /\ (peer'[s] = d) = (peer[s] = d)
                        /\ peer[s] = d => s # p /\ s \in Peer
  BY <1>1, Kinds DEF Touches
<1>3. Reading(d)' = Reading(d)
  BY <1>1 DEF Touches, Reading
<1>4. Undisturbed(d)
  BY <1>1, <1>2, <1>3 DEF Touches, Undisturbed, SameRequests, SameProcessed, SameAnswers
<1>5. SameResult(d)
  BY <1>1, <1>3 DEF Touches, SameResult
<1> QED
  BY <1>4, <1>5, Untouched, GivenKept DEF Connection

LEMMA Place ==
    ASSUME LiveInv, NEW p \in Peer, pc[p] \in Active
    PROVE  /\ Whose(p) \in Client /\ Whose(p) # Nobody
           /\ End(p) \in Ends /\ End(p)[1] = Whose(p)
           /\ Other(End(p)) \in Ends /\ Other(End(p))[1] = Whose(p)
           /\ p \in Client => /\ p = Whose(p) /\ End(p) = <<p, "client">>
                              /\ Other(End(p)) = <<p, "server">> /\ p \notin Server
           /\ p \notin Client => /\ p \in Server /\ peer[p] = Whose(p)
                                 /\ End(p) = <<peer[p], "server">>
                                 /\ Other(End(p)) = <<peer[p], "client">>
                                 /\ sock[peer[p]] = "connected"
                                 /\ \A t \in Server : peer[t] = peer[p] => t = p
  BY Kinds DEF Whose, End, Other, Ends, LiveInv, ServedOnce, ThreadsServe, Active

LEMMA TypesOf == LiveInv /\ DataType => TypeOK
<1> SUFFICES ASSUME LiveInv, DataType PROVE TypeOK
  OBVIOUS
<1>1. LiveType /\ ClientsOpen /\ ThreadsServe
  BY DEF LiveInv, ServedOnce
<1>2. /\ \A c \in Client : pc[c] \in {"start", "loop", "recv", "write", "done"}
      /\ \A s \in Server : pc[s] \in {"accept", "loop", "recv", "write"}
  BY <1>1, Kinds DEF LiveType, ClientsOpen, ThreadsServe
<1> QED
  BY <1>1, <1>2 DEF LiveType, DataType, TypeOK

-----------------------------------------------------------------------------
(* Steps that move no data.                                                *)

LEMMA BuffersKept ==
    ASSUME LiveInv, Buffers, NEW p \in Peer, ibuf' = ibuf,
           \A q \in Peer : q # p =>
              pc'[q] = pc[q] /\ kn_state'[q] = kn_state[q] /\ evread'[q] = evread[q],
           pc'[p] = "recv" => ~ evread'[p],
           pc'[p] # "recv" /\ (evread'[p] \/ kn_state'[p] \in {"INIT", "PENDING"}) =>
              Len(ibuf[p].data) < 2
    PROVE  Buffers'
  BY DEF Buffers

LEMMA Flags ==
    ASSUME DataInv, NEW p \in Peer, pc[p] \in Active,
           UNCHANGED <<ibuf, obufq, wire, sock>>,
           UNCHANGED <<errno, kcr_error, got, unsent, answered, stored>>,
           \A q \in Peer : q # p =>
              pc'[q] = pc[q] /\ kn_state'[q] = kn_state[q] /\ evread'[q] = evread[q],
           closed' = closed \/ closed' = closed \cup {End(p)},
           \/ peer' = peer
           \/ p \in Server /\ peer' = [peer EXCEPT ![p] = Nobody] /\ End(p) \in closed',
           p \in Client => (Reading(p)' => Reading(p)) /\ Given(p)',
           p \in Server => (kn_state'[p] # "DISCONNECTED" => kn_state[p] # "DISCONNECTED"),
           \A d \in Client : d # p => result'[d] = result[d],
           NEW d \in Client
    PROVE  Connection(d)'
<1> DEFINE c == Whose(p)
<1>1. LiveInv /\ LiveType /\ Connection(d)
  BY DEF DataInv, LiveInv
<1>2. c \in Client /\ c # Nobody /\ End(p) \in Ends /\ End(p)[1] = c
  BY <1>1, Place
<1>a. /\ p \in Client => p = c /\ p \notin Server
      /\ p \notin Client => /\ p \in Server /\ peer[p] = c /\ End(p) = <<c, "server">>
                            /\ \A t \in Server : peer[t] = c => t = p
  BY <1>1, Place
<1>3. /\ \A s \in Server : s # p => peer'[s] = peer[s]
      /\ p \in Server => peer'[p] \in {c, Nobody}
  BY <1>1, <1>a, Kinds DEF LiveType
<1>4. CASE d # c
  <2>1. Touches(p, c)
    BY <1>2, <1>a, <1>3, Kinds DEF Touches
  <2> QED
    BY <1>1, <1>2, <1>4, <2>1, Elsewhere
<1>5. CASE d = c
  <2>1. Given(d)'
    <3>1. CASE p \in Client
      BY <1>5, <1>a, <3>1
    <3>2. CASE p \notin Client
      <4>1. d \in Peer /\ d # p
        BY <3>2, Kinds
      <4>2. SameResult(d)
        BY <4>1 DEF SameResult, Reading
      <4> QED
        BY <1>1, <4>2, GivenKept DEF Connection
    <3> QED
      BY <3>1, <3>2
  <2>2. Reading(d)' => Reading(d)
    BY <1>5, <1>a, Kinds DEF Reading
  <2>3. /\ pc'[d] \in Active => pc[d] \in Active
        /\ <<d, "server">> \in closed => <<d, "server">> \in closed'
    BY <1>5, <1>a, Kinds
  <2>4. <<d, "server">> \notin closed' =>
          \A s \in Server : (peer'[s] = d) = (peer[s] = d)
    BY <1>1, <1>2, <1>5, <1>a, Kinds DEF LiveType
  <2>5. \A s \in Server : peer'[s] = d /\ kn_state'[s] # "DISCONNECTED" =>
          peer[s] = d /\ kn_state[s] # "DISCONNECTED"
    BY <1>1, <1>2, <1>3, <1>5, <1>a, Kinds DEF LiveType
  <2>6. Undisturbed(d)
    BY <2>2, <2>3, <2>4, <2>5
       DEF Undisturbed, SameRequests, SameProcessed, SameAnswers
  <2> QED
    BY <1>1, <2>1, <2>6, Untouched
<1> QED
  BY <1>4, <1>5

(* kcn_net_disconnect, of a peer that goes on, ends or accepts.            *)
LEMMA Leaves ==
    ASSUME DataInv, LiveInv', NEW p \in Peer, pc[p] \in Active, kcn_net_disconnect(p),
           NEW where, Goto(p, where) \/ pc' = pc,
           peer' = peer \/ (p \in Server /\ peer' = [peer EXCEPT ![p] = Nobody]),
           UNCHANGED <<ibuf, obufq>>,
           UNCHANGED <<errno, kcr_error, got, unsent, answered, stored>>,
           NEW r \in Error \cup {"ok", "ECONNREFUSED", "ENETDOWN", "exit"},
           result' = result \/ (p \in Client /\ result' = [result EXCEPT ![p] = r]),
           p \in Client => Given(p)'
    PROVE  DataInv'
<1>1. LiveInv /\ LiveType /\ EventsAreLive /\ DataType /\ Buffers
  BY DEF DataInv, LiveInv
<1>2. End(p) \in Ends /\ Other(End(p)) \in Ends
  BY <1>1, Place
<1>3. /\ kn_state' = [kn_state EXCEPT ![p] = "DISCONNECTED"]
      /\ evread' = [evread EXCEPT ![p] = FALSE]
      /\ UNCHANGED <<sock, queue, wire>>
      /\ closed' = closed \cup {End(p)}
      /\ reset' \subseteq Ends
  BY <1>1, <1>2 DEF kcn_net_disconnect, EventsAreLive, Active, DataType
<1>4. /\ kn_state'[p] = "DISCONNECTED" /\ ~ evread'[p]
      /\ \A q \in Peer : q # p =>
            pc'[q] = pc[q] /\ kn_state'[q] = kn_state[q] /\ evread'[q] = evread[q]
  BY <1>1, <1>3 DEF LiveType, Goto
<1>5. DataType'
  <2>1. result' \in [Client -> Error \cup
                        {"none", "ok", "ECONNREFUSED", "ENETDOWN", "exit"}]
    <3> DEFINE Result == Error \cup {"none", "ok", "ECONNREFUSED", "ENETDOWN", "exit"}
    <3>1. result \in [Client -> Result] /\ r \in Result
      BY <1>1 DEF DataType
    <3> HIDE DEF Result
    <3>2. result' \in [Client -> Result]
      BY <3>1
    <3> QED
      BY <3>2 DEF Result
  <2> QED
    BY <1>1, <1>3, <2>1 DEF DataType
<1>6. Buffers'
  BY <1>1, <1>4, BuffersKept
<1>7. ASSUME NEW d \in Client PROVE Connection(d)'
  <2>1. p \in Client => (Reading(p)' => Reading(p))
    BY <1>4 DEF Reading
  <2>2. \A e \in Client : e # p => result'[e] = result[e]
    BY <1>1 DEF DataType
  <2> QED
    BY <1>3, <1>4, <2>1, <2>2, Flags
<1> QED
  BY <1>5, <1>6, <1>7 DEF DataInv

(* A peer that moves on with other events, and moves no data.              *)
LEMMA GoesOn ==
    ASSUME DataInv, LiveInv', NEW p \in Peer, pc[p] \in Active,
           UNCHANGED <<ibuf, obufq, wire, sock, closed, reset, peer>>,
           UNCHANGED <<errno, kcr_error, got, unsent, answered, stored, result>>,
           NEW where, Goto(p, where) \/ pc' = pc,
           NEW st, kn_state' = [kn_state EXCEPT ![p] = st],
           NEW er, evread' = [evread EXCEPT ![p] = er],
           st # "DISCONNECTED" => kn_state[p] # "DISCONNECTED",
           pc'[p] # "recv", pc'[p] = "loop" => pc[p] # "recv" \/ p \in Server,
           pc'[p] = "write" => pc[p] # "recv",
           p \in Client /\ (er \/ st = "PENDING") => Reading(p),
           er \/ st \in {"INIT", "PENDING"} => Len(ibuf[p].data) < 2
    PROVE  DataInv'
<1>1. LiveInv /\ LiveType /\ DataType /\ Buffers
  BY DEF DataInv, LiveInv
<1>2. /\ kn_state'[p] = st /\ evread'[p] = er
      /\ \A q \in Peer : q # p =>
            pc'[q] = pc[q] /\ kn_state'[q] = kn_state[q] /\ evread'[q] = evread[q]
  BY <1>1 DEF LiveType, Goto
<1>3. DataType'
  BY <1>1 DEF DataType
<1>4. Buffers'
  BY <1>1, <1>2, BuffersKept
<1>5. p \in Client => (Reading(p)' => Reading(p)) /\ Given(p)'
  <2> SUFFICES ASSUME p \in Client PROVE (Reading(p)' => Reading(p)) /\ Given(p)'
    OBVIOUS
  <2>1. Reading(p)' => Reading(p)
    BY <1>2 DEF Reading
  <2>2. pc'[p] \in {"loop", "write"} => pc[p] \in {"loop", "write"}
    BY Kinds DEF Active
  <2>3. SameResult(p)
    BY <2>1, <2>2 DEF SameResult, Active
  <2>4. Given(p)
    BY DEF DataInv, Connection
  <2> QED
    BY <2>1, <2>3, <2>4, GivenKept
<1>6. ASSUME NEW d \in Client PROVE Connection(d)'
  BY <1>2, <1>5, Flags
<1> QED
  BY <1>3, <1>4, <1>6 DEF DataInv

(* An event is raised too late, or reading and writing find an error.      *)
LEMMA LeavesQuietly ==
    ASSUME DataInv, LiveInv', NEW p \in Peer, pc[p] \in {"loop", "write"},
           kcn_net_disconnect(p), Goto(p, "loop") \/ pc' = pc, peer' = peer,
           UNCHANGED <<ibuf, obufq>>, UNCHANGED <<client, database>>
    PROVE  DataInv'
<1>1. pc[p] \in Active
  BY DEF Active
<1>2. UNCHANGED <<errno, kcr_error, got, unsent, answered, stored, result>>
  BY DEF client, database
<1>3. p \in Client => Given(p)'
  <2> SUFFICES ASSUME p \in Client PROVE Given(p)'
    OBVIOUS
  <2>1. ~ Reading(p)'
    BY Kinds DEF DataInv, LiveInv, LiveType, kcn_net_disconnect, Reading
  <2>2. SameResult(p)
    BY <1>2, <2>1 DEF SameResult
  <2> QED
    BY <2>2, GivenKept DEF DataInv, Connection
<1>4. "ok" \in Error \cup {"ok", "ECONNREFUSED", "ENETDOWN", "exit"}
  OBVIOUS
<1> QED
  BY <1>1, <1>2, <1>3, <1>4, Leaves

LEMMA DataTimeouts ==
    ASSUME DataInv, LiveInv', NEW p \in Peer, UNCHANGED <<client, database>>,
           ReadTimeout(p) \/ WriteTimeout(p) \/ WriteCb(p)
    PROVE  DataInv'
<1>1. LiveInv /\ LiveType /\ EventsAreLive /\ Buffers
  BY DEF DataInv, LiveInv
<1>2. /\ pc[p] = "loop" /\ pc[p] \in Active /\ pc[p] \in {"loop", "write"}
      /\ peer' = peer /\ UNCHANGED <<ibuf, obufq>>
  BY DEF ReadTimeout, WriteTimeout, WriteCb, At, Active, buf
<1>3. CASE kcn_net_disconnect(p) /\ pc' = pc
  BY <1>2, <1>3, LeavesQuietly
<1>4. CASE kcn_net_established(p) /\ UNCHANGED tcp /\ evwrite[p]
           /\ (Goto(p, "write") \/ (pc' = pc /\ kn_state[p] = "PENDING"))
  <2> DEFINE er == evread[p] \/ kn_state[p] = "PENDING"
             st == "ESTABLISHED"
  <2>1. /\ kn_state' = [kn_state EXCEPT ![p] = st]
        /\ evread' = [evread EXCEPT ![p] = er]
        /\ UNCHANGED <<wire, sock, closed, reset>>
        /\ UNCHANGED <<errno, kcr_error, got, unsent, answered, stored, result>>
        /\ kn_state[p] # "DISCONNECTED"
    BY <1>1, <1>4 DEF kcn_net_established, tcp, client, database, EventsAreLive
  <2>2. pc'[p] \in {"loop", "write"}
    BY <1>1, <1>2, <1>4 DEF LiveType, Goto
  <2>3. er => Reading(p) /\ Len(ibuf[p].data) < 2
    BY <1>1, <1>2, <2>1 DEF Buffers, Reading
  <2>4. st \notin {"INIT", "PENDING"}
    OBVIOUS
  <2>w. Goto(p, "write") \/ pc' = pc
    BY <1>4
  <2>5. /\ st # "DISCONNECTED" => kn_state[p] # "DISCONNECTED"
        /\ pc'[p] # "recv" /\ (pc'[p] = "loop" => pc[p] # "recv" \/ p \in Server)
        /\ pc'[p] = "write" => pc[p] # "recv"
        /\ p \in Client /\ (er \/ st = "PENDING") => Reading(p)
        /\ er \/ st \in {"INIT", "PENDING"} => Len(ibuf[p].data) < 2
    BY <1>2, <2>1, <2>2, <2>3, <2>4
  <2> HIDE DEF er, st
  <2> QED
    BY <1>2, <2>1, <2>5, <2>w, GoesOn
<1> QED
  BY <1>3, <1>4 DEF ReadTimeout, WriteTimeout, WriteCb

-----------------------------------------------------------------------------
(* Steps that move data.                                                   *)

(* kcn_buf_read.                                                           *)
LEMMA Filled ==
    ASSUME NEW size \in Nat, NEW kb \in GoodBufs(Cell, size), kb.cp = kb.sp,
           NEW w \in Seq(Cell),
           NEW n \in AtMost(Len(w), kcn_buf_trailingspace(kcn_buf_read_into(kb, size), size))
    PROVE  LET b == kcn_buf_fill(kcn_buf_read_into(kb, size), SubSeq(w, 1, n))
           IN  /\ b \in GoodBufs(Cell, size) /\ b.cp = b.sp
               /\ b.data = kb.data \o SubSeq(w, 1, n)
               /\ n \in 0..Len(w)
<1> DEFINE into == kcn_buf_read_into(kb, size)
           h == SubSeq(w, 1, n)
           room == kcn_buf_trailingspace(into, size)
           d == kb.data \o h
<1>1. into \in GoodBufs(Cell, size) /\ into.data = kb.data /\ into.cp = into.sp
  <2>1. into.cp = into.sp
    BY DEF kcn_buf_read_into, kcn_buf_realign, kcn_buf_headingdata, GoodBufs, KcnBufs
  <2> QED
    BY <2>1, ReadIntoGood
<1>2. /\ into.sp \in Nat /\ into.cp \in Nat /\ into.data \in Seq(Cell)
      /\ into.sp + Len(into.data) <= size
      /\ room = size - (into.sp + Len(into.data))
  BY <1>1 DEF GoodBufs, KcnBufs, kcn_buf_ok, kb_ep, kcn_buf_trailingspace
<1>3. Len(w) \in Nat /\ Len(kb.data) \in Nat /\ room \in Nat
  BY <1>1, <1>2
<1>4. n \in Nat /\ n >= 1 /\ n <= Len(w) /\ n <= room
  <2>1. n \in AtMost(Len(w), room)
    OBVIOUS
  <2>2. \A x, y \in Nat : \A k \in 1..(IF x < y THEN x ELSE y) :
           k \in Nat /\ k >= 1 /\ k <= x /\ k <= y
    OBVIOUS
  <2> HIDE DEF room
  <2> QED
    BY <1>3, <2>1, <2>2 DEF AtMost
<1>5. h \in Seq(Cell) /\ Len(h) = n
  BY <1>3, <1>4, PartOfSeq
<1>6. d \in Seq(Cell) /\ Len(d) = Len(kb.data) + n
  BY <1>1, <1>2, <1>5, Glued
<1>7. kcn_buf_fill(into, h) = [sp |-> into.sp, cp |-> into.cp, data |-> d]
  BY <1>1 DEF kcn_buf_fill
<1>8. into.sp + Len(d) <= size /\ into.sp <= into.sp + Len(d)
  <2>1. \A x, y \in Nat : n <= size - (x + y) => x + (y + n) <= size /\ x <= x + (y + n)
    BY <1>4
  <2> HIDE DEF into, d
  <2> QED
    BY <1>1, <1>2, <1>3, <1>4, <1>6, <2>1
<1> HIDE DEF into, h, d
<1>9. [sp |-> into.sp, cp |-> into.cp, data |-> d] \in GoodBufs(Cell, size)
  BY <1>1, <1>2, <1>6, <1>8 DEF GoodBufs, KcnBufs, kcn_buf_ok, kb_ep
<1>10. n \in 0..Len(w)
  BY <1>3, <1>4
<1> DEFINE b == kcn_buf_fill(into, h)
<1>11. b \in GoodBufs(Cell, size) /\ b.cp = b.sp /\ b.data = d
  BY <1>1, <1>7, <1>9
<1>12. d = kb.data \o h
  BY DEF d
<1> HIDE DEF b
<1> QED
  BY <1>10, <1>11, <1>12 DEF into, h, b

(* What the programs encode are messages.                                  *)
LEMMA Encoded ==
    /\ \A max \in Nat : /\ kcn_msg_query_encode(max) \in Seq(Cell)
                        /\ Len(kcn_msg_query_encode(max)) = 2
                        /\ max % UINT8 \in Nat
    /\ \A rec \in Rec : /\ kcn_msg_add_encode(rec) \in Seq(Cell)
                        /\ Len(kcn_msg_add_encode(rec)) = 2
    /\ \A error \in Errno, l \in Loc \cup {NoLoc} :
          /\ kcn_msg_response_encode(error, l) \in Seq(Cell)
          /\ Len(kcn_msg_response_encode(error, l)) = 2
<1>1. /\ [type |-> "query"] \in Cell /\ [type |-> "response"] \in Cell
      /\ [type |-> "add"] \in Cell
  BY DEF Cell, Header
<1>2. \A x, y \in Cell : <<x, y>> \in Seq(Cell) /\ Len(<<x, y>>) = 2
  OBVIOUS
<1>3. ASSUME NEW max \in Nat
      PROVE  [maxcount |-> max % UINT8] \in Cell /\ max % UINT8 \in Nat
  <2>1. max % UINT8 \in 0..UINT8-1
    BY MsgAssumption
  <2> QED
    BY <2>1, MsgAssumption DEF Cell, Query
<1>4. \A rec \in Rec : [rec |-> rec] \in Cell
  BY DEF Cell, Add
<1>5. \A error \in Errno, l \in Loc \cup {NoLoc} : [error |-> error, loc |-> l] \in Cell
  BY DEF Cell, Response
<1> QED
  BY <1>1, <1>2, <1>3, <1>4, <1>5
     DEF kcn_msg_query_encode, kcn_msg_add_encode, kcn_msg_response_encode

LEMMA AddsOf ==
    ASSUME NEW recs \in Seq(Rec)
    PROVE  /\ Adds(recs) \in Messages /\ Len(Adds(recs)) = Len(recs)
           /\ \A k \in 1..Len(recs) : Adds(recs)[k] = kcn_msg_add_encode(recs[k])
<1>1. /\ \A k \in 1..Len(recs) : recs[k] \in Rec
      /\ Len(recs) \in Nat
  OBVIOUS
<1>2. \A k \in 1..Len(recs) : /\ kcn_msg_add_encode(recs[k]) \in Seq(Cell)
                             /\ Len(kcn_msg_add_encode(recs[k])) = 2
  BY <1>1, Encoded
<1>3. \A k \in 1..Len(recs) : Adds(recs)[k] = kcn_msg_add_encode(recs[k])
  BY DEF Adds
<1>4. Adds(recs) \in Seq(Seq(Cell)) /\ Len(Adds(recs)) = Len(recs)
  BY <1>1, <1>2 DEF Adds
<1> QED
  BY <1>2, <1>3, <1>4 DEF Messages

LEMMA ReqMessages ==
    ASSUME NEW c \in Client
    PROVE  /\ Req(c) \in Messages
           /\ Job[c].kind \in {"query", "msg", "file"}
           /\ Job[c].recs \in Seq(Rec) /\ Job[c].max \in Nat
           /\ Job[c].kind = "query" =>
                 Len(Req(c)) = 1 /\ Req(c)[1] = kcn_msg_query_encode(Job[c].max)
           /\ Job[c].kind # "query" =>
                 /\ Len(Req(c)) = Len(Job[c].recs)
                 /\ \A k \in 1..Len(Req(c)) : Req(c)[k] = kcn_msg_add_encode(Job[c].recs[k])
<1>1. /\ Job[c].kind \in {"query", "msg", "file"}
      /\ Job[c].recs \in Seq(Rec) /\ Job[c].max \in Nat
  BY JobAssumption
<1>2. CASE Job[c].kind = "query"
  <2> DEFINE e == kcn_msg_query_encode(Job[c].max)
  <2>1. e \in Seq(Cell) /\ Len(e) = 2
    BY <1>1, Encoded
  <2> HIDE DEF e
  <2>2. <<e>> \in Seq(Seq(Cell)) /\ Len(<<e>>) = 1 /\ <<e>>[1] = e
    BY <2>1
  <2>3. \A i \in 1..Len(<<e>>) : i = 1
    BY <2>2
  <2>4. <<e>> \in Messages
    BY <2>1, <2>2, <2>3 DEF Messages
  <2>5. Req(c) = <<e>>
    BY <1>2 DEF Req, e
  <2> QED
    BY <1>1, <1>2, <2>2, <2>4, <2>5 DEF e
<1>3. CASE Job[c].kind # "query"
  BY <1>1, <1>3, AddsOf DEF Req
<1> QED
  BY <1>2, <1>3

(* One response more than locators.                                        *)
LEMMA ResponsesOf ==
    ASSUME NEW a \in [locs : Seq(Loc \cup {NoLoc}), error : Errno]
    PROVE  /\ Responses(a) \in Messages
           /\ Len(Responses(a)) = Len(a.locs) + 1
           /\ \A k \in 1..Len(a.locs) :
                 Responses(a)[k] = kcn_msg_response_encode("0", a.locs[k])
           /\ Responses(a)[Len(a.locs) + 1] = kcn_msg_response_encode(a.error, NoLoc)
<1> DEFINE N == Len(a.locs)
           r(k) == IF k <= N THEN kcn_msg_response_encode("0", a.locs[k])
                   ELSE kcn_msg_response_encode(a.error, NoLoc)
<1>1. N \in Nat /\ a.error \in Errno /\ \A k \in 1..N : a.locs[k] \in Loc \cup {NoLoc}
  OBVIOUS
<1>2. "0" \in Errno /\ NoLoc \in Loc \cup {NoLoc}
  BY MsgAssumption
<1> HIDE DEF N
<1>3. ASSUME NEW k \in 1..N + 1 PROVE r(k) \in Seq(Cell) /\ Len(r(k)) = 2
  <2>1. CASE k <= N
    <3>1. k \in 1..N
      BY <1>1, <2>1
    <3> QED
      BY <1>1, <1>2, <2>1, <3>1, Encoded
  <2>2. CASE ~ (k <= N)
    BY <1>1, <1>2, <2>2, Encoded
  <2> QED
    BY <2>1, <2>2
<1>4. Responses(a) = [k \in 1..N + 1 |-> r(k)]
  BY DEF Responses, N
<1>5. /\ \A k \in 1..N : r(k) = kcn_msg_response_encode("0", a.locs[k])
      /\ r(N + 1) = kcn_msg_response_encode(a.error, NoLoc)
      /\ \A k \in 1..N : k \in 1..N + 1
      /\ N + 1 \in 1..N + 1 /\ N + 1 \in Nat
  BY <1>1
<1> HIDE DEF r
<1>6. Responses(a) \in Seq(Seq(Cell)) /\ Len(Responses(a)) = N + 1
  <2> DEFINE M == N + 1
             f == Responses(a)
             S == Seq(Cell)
  <2>1. M \in Nat /\ f \in [1..M -> S]
    BY <1>3, <1>4, <1>5
  <2> HIDE DEF M, f, S
  <2>2. f \in Seq(S) /\ Len(f) = M
    BY <2>1
  <2> QED
    BY <2>2 DEF M, f, S
<1>7. \A k \in 1..N + 1 : Responses(a)[k] = r(k)
  BY <1>4
<1>8. Responses(a) \in Messages
  BY <1>3, <1>6, <1>7 DEF Messages
<1> QED
  BY <1>5, <1>6, <1>7, <1>8 DEF N

LEMMA RespMessages ==
    ASSUME DataType, NEW c \in Client
    PROVE  Resp(c) \in Messages /\ (answered[c] = << >> => Len(Resp(c)) = 0)
<1>1. CASE answered[c] = << >>
  <2>1. << >> \in Messages
    BY DEF Messages
  <2> QED
    BY <1>1, <2>1 DEF Resp
<1>2. CASE answered[c] # << >>
  <2>1. answered[c][1] \in [locs : Seq(Loc \cup {NoLoc}), error : Errno]
    <3> DEFINE A == [locs : Seq(Loc \cup {NoLoc}), error : Errno]
    <3>1. answered[c] \in Seq(A)
      BY DEF DataType
    <3> HIDE DEF A
    <3>2. answered[c][1] \in A
      BY <1>2, <3>1
    <3> QED
      BY <3>2 DEF A
  <2> QED
    BY <1>2, <2>1, ResponsesOf DEF Resp
<1> QED
  BY <1>1, <1>2

(* What is in the queue and what was taken are numbers of messages.        *)
LEMMA Counts ==
    ASSUME DataType, NEW c \in Client, Processed(c)
    PROVE  /\ Taken(c) \in Nat /\ Made(c) \in Nat /\ Made(c) <= Len(Req(c))
           /\ Len(Req(c)) \in Nat /\ Len(unsent[c]) \in Nat
           /\ Len(answered[c]) \in Nat /\ Len(stored[c]) \in Nat /\ Len(got[c]) \in Nat
           /\ Made(c) = Len(Req(c)) - Len(unsent[c])
           /\ answered[c] = << >> <=> Len(answered[c]) = 0
           /\ stored[c] = << >> <=> Len(stored[c]) = 0
           /\ Taken(c) = Len(answered[c]) + Len(stored[c])
<1> DEFINE A == [locs : Seq(Loc \cup {NoLoc}), error : Errno]
           a == Len(answered[c])
           b == Len(stored[c])
           u == Len(unsent[c])
           r == Len(Req(c))
<1>1. /\ answered[c] \in Seq(A) /\ stored[c] \in Seq(Rec)
      /\ unsent[c] \in Seq(Rec) /\ got[c] \in Seq(Loc)
  BY DEF DataType
<1> HIDE DEF A
<1>2. /\ a \in Nat /\ b \in Nat /\ u \in Nat /\ Len(got[c]) \in Nat
      /\ (answered[c] = << >> <=> a = 0) /\ (stored[c] = << >> <=> b = 0)
  BY <1>1
<1>3. Req(c) \in Messages /\ u <= r
  <2>1. CASE Job[c].kind = "query"
    BY <2>1, ReqMessages DEF Processed
  <2>2. CASE Job[c].kind # "query"
    BY <2>2, ReqMessages DEF Processed
  <2> QED
    BY <2>1, <2>2, ReqMessages
<1>4. r \in Nat
  BY <1>3 DEF Messages
<1>5. Made(c) = r - u /\ Taken(c) = a + b
  BY DEF Made, Taken
<1> HIDE DEF a, b, u, r
<1>6. r - u \in Nat /\ r - u <= r /\ a + b \in Nat
  BY <1>2, <1>3, <1>4
<1> QED
  BY <1>2, <1>4, <1>5, <1>6 DEF a, b, u, r

LEMMA NoneTaken ==
    ASSUME DataType, NEW c \in Client, Processed(c), Taken(c) = 0
    PROVE  answered[c] = << >> /\ stored[c] = << >>
<1>1. /\ Len(answered[c]) \in Nat /\ Len(stored[c]) \in Nat
      /\ Len(answered[c]) + Len(stored[c]) = 0
  BY Counts
<1>2. \A x, y \in Nat : x + y = 0 => x = 0 /\ y = 0
  OBVIOUS
<1>3. Len(answered[c]) = 0 /\ Len(stored[c]) = 0
  BY <1>1, <1>2
<1> QED
  BY <1>3, Counts

LEMMA FlowsRead ==
    ASSUME NEW m \in Messages, NEW t \in Nat, NEW b \in Seq(Cell),
           NEW w \in Seq(Cell), NEW n \in 0..Len(w), NEW q, NEW made,
           Flows(b, w, t, q, made, m)
    PROVE  Flows(b \o SubSeq(w, 1, n), SubSeq(w, n + 1, Len(w)), t, q, made, m)
<1> DEFINE b2 == b \o SubSeq(w, 1, n)
           w2 == SubSeq(w, n + 1, Len(w))
<1>1. Arrives(b, w, t, m) /\ Queues(q, m, made)
      /\ 2 * t + Len(b) + Len(w) = Put(q, made)
  BY DEF Flows
<1>2. Arrives(b2, w2, t, m) /\ Len(b2) = Len(b) + n /\ Len(w2) = Len(w) - n
  BY <1>1, ArrivesRead
<1>3. 2 * t + Len(b2) + Len(w2) = 2 * t + Len(b) + Len(w)
  <2>1. \A x, y \in Nat : 2 * t + (x + n) + (y - n) = 2 * t + x + y
    OBVIOUS
  <2>2. Len(b) \in Nat /\ Len(w) \in Nat
    OBVIOUS
  <2> QED
    BY <1>2, <2>1, <2>2
<1> HIDE DEF b2, w2
<1>4. Flows(b2, w2, t, q, made, m)
  BY <1>1, <1>2, <1>3 DEF Flows
<1> QED
  BY <1>4 DEF b2, w2

(* kcn_net_read_cb: what a peer reads comes behind what it has.            *)
LEMMA DataReads ==
    ASSUME DataInv, LiveInv', NEW p \in Peer, ReadCb(p), UNCHANGED <<client, database>>
    PROVE  DataInv'
<1> DEFINE c == Whose(p)
           e == End(p)
           w == wire[e]
           into == kcn_buf_read_into(ibuf[p], BUFSIZ)
           Fill(n) == kcn_buf_fill(into, SubSeq(w, 1, n))
           Rest(n) == SubSeq(w, n + 1, Len(w))
<1>1. LiveInv /\ LiveType /\ EventsAreLive /\ DataType /\ Buffers
  BY DEF DataInv, LiveInv
<1>2. /\ pc[p] = "loop" /\ pc[p] \in Active /\ evread[p] /\ peer' = peer
      /\ obufq' = obufq /\ kn_state[p] = "ESTABLISHED"
  BY <1>1 DEF ReadCb, At, Active, EventsAreLive
<1>3. /\ c \in Client /\ c # Nobody /\ e \in Ends /\ e[1] = c
      /\ p \in Client => p = c /\ e = <<c, "client">> /\ p \notin Server
      /\ p \notin Client => /\ p \in Server /\ peer[p] = c /\ e = <<c, "server">>
                            /\ sock[c] = "connected"
                            /\ \A s \in Server : peer[s] = c => s = p
  BY <1>1, <1>2, Place
<1>4. CASE kcn_net_disconnect(p) /\ UNCHANGED <<ibuf, pc>>
  BY <1>2, <1>4, LeavesQuietly
<1>5. CASE \E n \in AtMost(Len(w), kcn_buf_trailingspace(into, BUFSIZ)) :
              /\ ibuf' = [ibuf EXCEPT ![p] = Fill(n)]
              /\ wire' = [wire EXCEPT ![e] = Rest(n)]
              /\ evread' = [evread EXCEPT ![p] = FALSE]
              /\ Goto(p, "recv")
              /\ UNCHANGED <<kn_state, evwrite, sock, queue, closed, reset>>
  <2>1. PICK n \in AtMost(Len(w), kcn_buf_trailingspace(into, BUFSIZ)) :
              /\ ibuf' = [ibuf EXCEPT ![p] = Fill(n)]
              /\ wire' = [wire EXCEPT ![e] = Rest(n)]
              /\ evread' = [evread EXCEPT ![p] = FALSE]
              /\ Goto(p, "recv")
              /\ UNCHANGED <<kn_state, evwrite, sock, queue, closed, reset>>
    BY <1>5
  <2>2. /\ w \in Seq(Cell) /\ ibuf[p] \in GoodBufs(Cell, BUFSIZ)
        /\ ibuf[p].cp = ibuf[p].sp /\ BUFSIZ \in Nat
    BY <1>1, <1>3, NetAssumption DEF DataType, Buffers
  <2>3. /\ Fill(n) \in GoodBufs(Cell, BUFSIZ) /\ Fill(n).cp = Fill(n).sp
        /\ Fill(n).data = ibuf[p].data \o SubSeq(w, 1, n)
        /\ n \in 0..Len(w)
    BY <2>1, <2>2, Filled
  <2>4. Rest(n) \in Seq(Cell) /\ ibuf[p].data \in Seq(Cell)
    <3>1. n + 1 \in Nat /\ n + 1 >= 1 /\ Len(w) \in Nat
      BY <2>2, <2>3
    <3> QED
      BY <2>2, <3>1, PartOfSeq DEF GoodBufs, KcnBufs
  <2> HIDE DEF Fill, Rest, c, e, w
  <2>5. /\ ibuf'[p] = Fill(n) /\ wire'[e] = Rest(n) /\ pc'[p] = "recv" /\ ~ evread'[p]
        /\ \A q \in Peer : q # p =>
              /\ ibuf'[q] = ibuf[q] /\ pc'[q] = pc[q] /\ evread'[q] = evread[q]
        /\ \A f \in Ends : f # e => wire'[f] = wire[f]
    BY <1>1, <1>3, <2>1 DEF DataType, LiveType, Goto
  <2>6. DataType'
    BY <1>1, <1>2, <1>3, <2>1, <2>3, <2>4 DEF DataType, client, database
  <2>7. Buffers'
    BY <1>1, <1>2, <2>1, <2>3, <2>5 DEF Buffers
  <2>s. UNCHANGED <<errno, kcr_error, got, unsent, result, answered, stored>>
    BY DEF client, database
  <2>8. ASSUME NEW d \in Client PROVE Connection(d)'
    <3>1. Connection(d) /\ d \in Peer /\ <<d, "server">> \in Ends /\ <<d, "client">> \in Ends
      BY Kinds DEF DataInv, Ends
    <3>2. CASE d # c
      <4>1. Touches(p, c)
        BY <1>2, <1>3, <2>1, <2>5, <2>s, Kinds DEF Touches
      <4> QED
        BY <1>3, <3>1, <3>2, <4>1, Elsewhere
    <3>3. CASE d = c
      <4>1. Reading(d)' => Reading(d)
        BY <1>2, <1>3, <2>1, <2>5, <3>1, <3>3 DEF Reading
      <4>2. Given(d)'
        <5>1. SameResult(d)
          BY <1>2, <1>3, <2>5, <2>s, <3>1, <3>3, <4>1 DEF SameResult
        <5> QED
          BY <3>1, <5>1, GivenKept DEF Connection
      <4>3. Fresh(d)' /\ Processed(d)'
        <5>1. sock'[d] # "none"
          BY <1>2, <1>3, <2>1, <3>1, <3>3 DEF Connection, Fresh
        <5>2. SameProcessed(d)
          BY <2>s DEF SameProcessed
        <5> QED
          BY <3>1, <5>1, <5>2, ProcessedKept DEF Connection, Fresh
      <4>4. CASE p \in Client
        <5>1. p = d /\ e = <<d, "client">> /\ p \notin Server
          BY <1>3, <3>3, <4>4
        <5>2. Requests(d)'
          <6>1. SameRequests(d)
            BY <1>2, <2>1, <2>5, <2>s, <3>1, <5>1, Kinds DEF SameRequests, SameProcessed
          <6> QED
            BY <3>1, <6>1, RequestsKept DEF Connection
        <5>3. PICK t \in {Len(got[d]), Len(Resp(d))} :
                 /\ Arrives(ibuf[d].data, w, t, Resp(d))
                 /\ \A s \in Server : peer[s] = d /\ kn_state[s] # "DISCONNECTED" =>
                       Flows(ibuf[d].data, w, t, obufq[s], Len(Resp(d)), Resp(d))
          <6>1. Reading(d)
            BY <1>2, <5>1 DEF Reading
          <6> QED
            BY <3>1, <5>1, <6>1 DEF Connection, Answering, w
        <5>4. Resp(d) \in Messages /\ t \in Nat /\ Resp(d)' = Resp(d)
          <6>1. Resp(d) \in Messages /\ got[d] \in Seq(Loc)
            BY <1>1, RespMessages DEF DataType
          <6>2. Len(Resp(d)) \in Nat /\ Len(got[d]) \in Nat
            BY <6>1 DEF Messages
          <6> QED
            BY <2>s, <5>3, <6>1, <6>2 DEF Resp
        <5>5. ibuf'[d].data = ibuf[d].data \o SubSeq(w, 1, n) /\ wire'[e] = Rest(n)
          BY <2>3, <2>5, <5>1
        <5>6. Arrives(ibuf'[d].data, wire'[e], t, Resp(d))
          BY <2>2, <2>3, <2>4, <5>1, <5>3, <5>4, <5>5, ArrivesRead DEF Rest
        <5>7. ASSUME NEW s \in Server, peer'[s] = d, kn_state'[s] # "DISCONNECTED"
              PROVE  Flows(ibuf'[d].data, wire'[e], t, obufq'[s], Len(Resp(d)), Resp(d))
          <6>1. Flows(ibuf[d].data, w, t, obufq[s], Len(Resp(d)), Resp(d))
            BY <1>2, <2>1, <5>3, <5>7
          <6> QED
            BY <1>2, <2>2, <2>3, <2>4, <5>1, <5>4, <5>5, <6>1, FlowsRead DEF Rest
        <5>8. Answering(d)'
          BY <2>s, <5>1, <5>3, <5>4, <5>6, <5>7 DEF Answering
        <5> QED
          BY <4>2, <4>3, <5>2, <5>8 DEF Connection
      <4>5. CASE p \notin Client
        <5>1. /\ p \in Server /\ peer[p] = d /\ e = <<d, "server">> /\ p # d
              /\ \A s \in Server : peer[s] = d => s = p
              /\ sock[d] # "none"
          BY <1>3, <3>3, <4>5
        <5>2. Answering(d)'
          <6>1. SameAnswers(d)
            BY <1>2, <2>1, <2>5, <2>s, <3>1, <4>1, <5>1 DEF SameAnswers
          <6> QED
            BY <3>1, <6>1, AnsweringKept DEF Connection
        <5>3. Requests(d)'
          <6> SUFFICES ASSUME <<d, "server">> \notin closed
              PROVE  Flows(ibuf'[p].data, wire'[e], Taken(d)', obufq'[d], Made(d)', Req(d)')
            BY <1>2, <2>1, <5>1 DEF Requests
          <6>1. Flows(ibuf[p].data, w, Taken(d), obufq[d], Made(d), Req(d))
            BY <3>1, <5>1 DEF Connection, Requests, w
          <6>2. Taken(d)' = Taken(d) /\ Made(d)' = Made(d) /\ Req(d)' = Req(d)
            BY <2>s DEF Taken, Made, Req
          <6>3. Req(d) \in Messages /\ Taken(d) \in Nat
            BY <1>1, <3>1, ReqMessages, Counts DEF Connection
          <6>4. ibuf'[p].data = ibuf[p].data \o SubSeq(w, 1, n) /\ wire'[e] = Rest(n)
            BY <2>3, <2>5
          <6> QED
            BY <1>2, <2>2, <2>3, <2>4, <6>1, <6>2, <6>3, <6>4, FlowsRead DEF Rest
        <5> QED
          BY <4>2, <4>3, <5>2, <5>3 DEF Connection
      <4> QED
        BY <4>4, <4>5
    <3> QED
      BY <3>2, <3>3
  <2> QED
    BY <2>6, <2>7, <2>8 DEF DataInv
<1> QED
  BY <1>4, <1>5 DEF ReadCb

LEMMA FlowsWrite ==
    ASSUME NEW m \in Messages, NEW t \in Nat, NEW made \in Nat, NEW b \in Seq(Cell),
           NEW w \in Seq(Cell), NEW q \in Seq(Seq(Cell)), Flows(b, w, t, q, made, m),
           q # << >>, NEW n \in 1..Len(Head(q))
    PROVE  Flows(b, w \o SubSeq(Head(q), 1, n), t, Written(q, n), made, m)
<1> DEFINE h == SubSeq(Head(q), 1, n)
           at == 2 * t + Len(b)
<1>1. /\ Carries(b, 2 * t, m) /\ Carries(w, at, m)
      /\ Queues(q, m, made) /\ at + Len(w) = Put(q, made)
  BY DEF Flows, Arrives
<1>2. /\ Queues(Written(q, n), m, made)
      /\ Put(Written(q, n), made) = Put(q, made) + n
      /\ Carries(h, Put(q, made), m)
      /\ h \in Seq(Cell) /\ Len(h) = n
  BY <1>1, WrittenFlows
<1>3. at \in Nat /\ Len(w) \in Nat /\ Len(b) \in Nat /\ n \in Nat
  <2>1. Len(w) \in Nat /\ Len(b) \in Nat
    OBVIOUS
  <2>2. at \in Nat
    BY <2>1
  <2>3. n \in Nat
    <3>1. Len(h) \in Nat
      BY <1>2
    <3> QED
      BY <1>2, <3>1
  <2> QED
    BY <2>1, <2>2, <2>3
<1> HIDE DEF h
<1>4. Carries(h, at + Len(w), m)
  BY <1>1, <1>2
<1>5. Carries(w \o h, at, m)
  <2> HIDE DEF at
  <2> QED
    BY <1>1, <1>2, <1>3, <1>4, CarriesGlued
<1>6. Len(w \o h) = Len(w) + n
  BY <1>2, Glued
<1>7. at + Len(w \o h) = Put(Written(q, n), made)
  <2>1. \A x, y, z \in Nat : x + y = z => x + (y + n) = z + n
    BY <1>3
  <2>2. Put(q, made) \in Nat
    BY <1>1, <1>3
  <2> HIDE DEF at
  <2> QED
    BY <1>1, <1>2, <1>3, <1>6, <2>1, <2>2
<1> QED
  BY <1>1, <1>2, <1>5, <1>7 DEF Flows, Arrives, h

(* A buffer of the queue is dropped when nothing of it is left.            *)
LEMMA WrittenType ==
    ASSUME NEW q \in Seq(Seq(Cell) \ {<< >>}), q # << >>, NEW n \in 1..Len(Head(q))
    PROVE  /\ Written(q, n) \in Seq(Seq(Cell) \ {<< >>})
           /\ q \in Seq(Seq(Cell))
<1> DEFINE S == Seq(Cell) \ {<< >>}
           h == Head(q)
           rest == SubSeq(h, n + 1, Len(h))
<1>1. q \in Seq(S) /\ q # << >> /\ \A x \in S : x \in Seq(Cell)
  OBVIOUS
<1>2. h \in S /\ Tail(q) \in Seq(S)
  <2> HIDE DEF S, h
  <2> QED
    BY <1>1, TailOf DEF h
<1>3. h \in Seq(Cell) /\ n + 1 \in Nat /\ n + 1 >= 1 /\ Len(h) \in Nat
  BY <1>2
<1>4. rest \in Seq(Cell)
  BY <1>3, PartOfSeq
<1>5. Written(q, n) = IF rest = << >> THEN Tail(q) ELSE <<rest>> \o Tail(q)
  BY DEF Written
<1>6. q \in Seq(Seq(Cell))
  <2> DEFINE R == Seq(Cell)
  <2>1. \A x \in S : x \in R
    OBVIOUS
  <2> HIDE DEF S, R
  <2>2. q \in Seq(R)
    BY <1>1, <2>1
  <2> QED
    BY <2>2 DEF R
<1>7. rest # << >> => rest \in S
  BY <1>4
<1> HIDE DEF S, rest
<1>8. rest \in S => <<rest>> \o Tail(q) \in Seq(S)
  BY <1>2
<1> QED
  BY <1>2, <1>5, <1>6, <1>7, <1>8 DEF S

(* kcn_net_write_cb and its loop: cells of the queue go to the kernel.     *)
LEMMA DataWrites ==
    ASSUME DataInv, LiveInv', NEW p \in Peer, Write(p), UNCHANGED <<client, database>>
    PROVE  DataInv'
<1> DEFINE c == Whose(p)
           e == End(p)
           o == Other(e)
           q == obufq[p]
           h(n) == SubSeq(Head(q), 1, n)
<1>1. LiveInv /\ LiveType /\ EventsAreLive /\ DataType /\ Buffers
  BY DEF DataInv, LiveInv
<1>2. /\ pc[p] = "write" /\ pc[p] \in Active /\ pc[p] \in {"loop", "write"}
      /\ peer' = peer /\ ibuf' = ibuf /\ kn_state[p] = "ESTABLISHED"
  BY <1>1 DEF Write, At, Active, EventsAreLive
<1>3. /\ c \in Client /\ c # Nobody /\ e \in Ends /\ o \in Ends /\ o[1] = c
      /\ p \in Client => p = c /\ o = <<c, "server">> /\ p \notin Server
      /\ p \notin Client => /\ p \in Server /\ peer[p] = c /\ o = <<c, "client">>
                            /\ \A s \in Server : peer[s] = c => s = p
  BY <1>1, <1>2, Place
<1>s. UNCHANGED <<errno, kcr_error, got, unsent, answered, stored, result>>
  BY DEF client, database
<1>4. CASE kcn_net_disconnect(p) /\ Goto(p, "loop") /\ obufq' = obufq
  BY <1>2, <1>4, LeavesQuietly
<1>5. CASE /\ Goto(p, "loop") /\ UNCHANGED <<kn_state, evread, obufq, tcp>>
  <2> DEFINE st == kn_state[p]
             er == evread[p]
             where == "loop"
  <2>1. /\ UNCHANGED <<ibuf, obufq, wire, sock, closed, reset, peer>>
        /\ Goto(p, where)
        /\ kn_state' = [kn_state EXCEPT ![p] = st]
        /\ evread' = [evread EXCEPT ![p] = er]
        /\ pc'[p] = "loop"
    BY <1>1, <1>2, <1>5 DEF tcp, LiveType, Goto
  <2>2. /\ st = "ESTABLISHED"
        /\ p \in Client /\ er => Reading(p)
        /\ er => Len(ibuf[p].data) < 2
    BY <1>1, <1>2 DEF Reading, Buffers
  <2>3. /\ st # "DISCONNECTED" => kn_state[p] # "DISCONNECTED"
        /\ pc'[p] # "recv" /\ (pc'[p] = "loop" => pc[p] # "recv" \/ p \in Server)
        /\ pc'[p] = "write" => pc[p] # "recv"
        /\ p \in Client /\ (er \/ st = "PENDING") => Reading(p)
        /\ er \/ st \in {"INIT", "PENDING"} => Len(ibuf[p].data) < 2
    BY <1>2, <2>1, <2>2
  <2> HIDE DEF st, er, where
  <2> QED
    BY <1>2, <1>s, <2>1, <2>3, GoesOn
<1>6. CASE \E n \in 1..Len(Head(q)) :
              /\ q # << >> /\ UNCHANGED <<net, pc, sock, queue, closed>>
              /\ obufq' = [obufq EXCEPT ![p] = Written(q, n)]
              /\ \/ o \in closed /\ wire' = wire /\ reset' = reset \cup {e}
                 \/ reset' = reset /\ wire' = [wire EXCEPT ![o] = wire[o] \o h(n)]
  <2>1. PICK n \in 1..Len(Head(q)) :
              /\ q # << >> /\ UNCHANGED <<net, pc, sock, queue, closed>>
              /\ obufq' = [obufq EXCEPT ![p] = Written(q, n)]
              /\ \/ o \in closed /\ wire' = wire /\ reset' = reset \cup {e}
                 \/ reset' = reset /\ wire' = [wire EXCEPT ![o] = wire[o] \o h(n)]
    BY <1>6
  <2>2. q \in Seq(Seq(Cell) \ {<< >>}) /\ wire[o] \in Seq(Cell)
    BY <1>1, <1>3 DEF DataType
  <2>3. Written(q, n) \in Seq(Seq(Cell) \ {<< >>}) /\ q \in Seq(Seq(Cell))
    BY <2>1, <2>2, WrittenType
  <2>4. wire[o] \o h(n) \in Seq(Cell)
    <3>1. Head(q) \in Seq(Cell) /\ Len(Head(q)) \in Nat
      <4>1. Head(q) \in Seq(Cell)
        BY <2>1, <2>3, TailOf
      <4> QED
        BY <4>1
    <3>2. n \in Nat /\ n <= Len(Head(q))
      BY <3>1
    <3>3. h(n) \in Seq(Cell)
      BY <3>1, <3>2, PartOfSeq
    <3> QED
      BY <2>2, <3>3, Glued
  <2> HIDE DEF h, q, c, e, o
  <2>5. /\ obufq'[p] = Written(q, n)
        /\ \A x \in Peer : x # p => obufq'[x] = obufq[x]
        /\ \A f \in Ends : f # o => wire'[f] = wire[f]
        /\ o \in closed \/ wire'[o] = wire[o] \o h(n)
        /\ UNCHANGED <<kn_state, evread, pc, closed, sock, ibuf, peer>>
    BY <1>1, <1>2, <1>3, <2>1 DEF DataType, net
  <2>6. DataType'
    BY <1>1, <1>2, <1>3, <1>s, <2>1, <2>3, <2>4 DEF DataType
  <2>7. Buffers'
    BY <1>1, <2>5 DEF Buffers
  <2>8. ASSUME NEW d \in Client PROVE Connection(d)'
    <3>1. Connection(d) /\ d \in Peer /\ <<d, "server">> \in Ends /\ <<d, "client">> \in Ends
          /\ <<d, "server">> # <<d, "client">>
      BY Kinds DEF DataInv, Ends
    <3>2. CASE d # c
      <4>1. Touches(p, c)
        BY <1>3, <1>s, <2>5, Kinds DEF Touches
      <4> QED
        BY <1>3, <3>1, <3>2, <4>1, Elsewhere
    <3>3. CASE d = c
      <4>1. Reading(d)' = Reading(d)
        BY <2>5 DEF Reading
      <4>2. Given(d)'
        <5>1. SameResult(d)
          BY <1>s, <2>5, <4>1 DEF SameResult
        <5> QED
          BY <3>1, <5>1, GivenKept DEF Connection
      <4>3. Processed(d)'
        <5>1. SameProcessed(d)
          BY <1>s DEF SameProcessed
        <5> QED
          BY <3>1, <5>1, ProcessedKept DEF Connection
      <4>4. CASE p \in Client
        <5>1. p = d /\ o = <<d, "server">> /\ p \notin Server
          BY <1>3, <3>3, <4>4
        <5>2. Answering(d)'
          <6>1. SameAnswers(d)
            BY <1>s, <2>5, <3>1, <4>1, <5>1, Kinds DEF SameAnswers
          <6> QED
            BY <3>1, <6>1, AnsweringKept DEF Connection
        <5>3. Fresh(d)'
          BY <1>2, <2>5, <3>1, <5>1 DEF Connection, Fresh
        <5>4. /\ Taken(d)' = Taken(d) /\ Made(d)' = Made(d) /\ Req(d)' = Req(d)
              /\ Req(d) \in Messages /\ Taken(d) \in Nat /\ Made(d) \in Nat
          BY <1>1, <1>s, <3>1, ReqMessages, Counts DEF Taken, Made, Req, Connection
        <5>5. ASSUME NEW b \in Seq(Cell), NEW t \in Nat, o \notin closed,
                     Flows(b, wire[o], t, q, Made(d), Req(d))
              PROVE  Flows(b, wire'[o], t, obufq'[d], Made(d), Req(d))
          <6>1. Flows(b, wire[o] \o SubSeq(Head(q), 1, n), t, Written(q, n), Made(d), Req(d))
            BY <2>1, <2>2, <2>3, <5>4, <5>5, FlowsWrite
          <6> QED
            BY <2>5, <5>1, <5>5, <6>1 DEF h
        <5>6. Requests(d)'
          <6> SUFFICES ASSUME sock[d] # "none", o \notin closed
              PROVE  /\ \A s \in Server : peer[s] = d =>
                           Flows(ibuf[s].data, wire'[o], Taken(d), obufq'[d], Made(d), Req(d))
                     /\ (\A s \in Server : peer[s] # d) =>
                           /\ Taken(d) = 0
                           /\ Flows(<< >>, wire'[o], 0, obufq'[d], Made(d), Req(d))
            BY <2>5, <5>1, <5>4 DEF Requests
          <6>1. /\ \A s \in Server : peer[s] = d =>
                      Flows(ibuf[s].data, wire[o], Taken(d), q, Made(d), Req(d))
                /\ (\A s \in Server : peer[s] # d) =>
                      /\ Taken(d) = 0
                      /\ Flows(<< >>, wire[o], 0, q, Made(d), Req(d))
            BY <3>1, <5>1 DEF Connection, Requests, q
          <6>2. << >> \in Seq(Cell) /\ 0 \in Nat
            OBVIOUS
          <6>3. \A s \in Server : ibuf[s].data \in Seq(Cell)
            BY <1>1, Kinds DEF DataType, GoodBufs, KcnBufs
          <6> QED
            BY <5>4, <5>5, <6>1, <6>2, <6>3
        <5> QED
          BY <4>2, <4>3, <5>2, <5>3, <5>6 DEF Connection
      <4>5. CASE p \notin Client
        <5>1. /\ p \in Server /\ peer[p] = d /\ o = <<d, "client">> /\ p # d
              /\ \A s \in Server : peer[s] = d => s = p
          BY <1>3, <3>3, <4>5
        <5>2. Requests(d)'
          <6>1. SameRequests(d)
            BY <1>s, <2>5, <3>1, <5>1 DEF SameRequests, SameProcessed
          <6> QED
            BY <3>1, <6>1, RequestsKept DEF Connection
        <5>3. Fresh(d)'
          <6>1. sock[d] # "none"
            BY <1>1, <5>1 DEF LiveInv, ServedOnce, ThreadsServe
          <6> QED
            BY <2>5, <3>1, <6>1 DEF Connection, Fresh
        <5>4. Answering(d)'
          <6>1. Resp(d)' = Resp(d) /\ got' = got
            BY <1>s DEF Resp
          <6> SUFFICES ASSUME Reading(d)
              PROVE  \E t \in {Len(got[d]), Len(Resp(d))} :
                       /\ Arrives(ibuf[d].data, wire'[o], t, Resp(d))
                       /\ \A s \in Server : peer[s] = d /\ kn_state[s] # "DISCONNECTED" =>
                             Flows(ibuf[d].data, wire'[o], t,
                                   obufq'[s], Len(Resp(d)), Resp(d))
            BY <2>5, <4>1, <5>1, <6>1 DEF Answering
          <6>2. o \notin closed
            BY <1>1, <3>1, <5>1 DEF Reading, EventsAreLive, End, Active
          <6>3. PICK t \in {Len(got[d]), Len(Resp(d))} :
                  Flows(ibuf[d].data, wire[o], t, q, Len(Resp(d)), Resp(d))
            BY <1>2, <3>1, <5>1 DEF Connection, Answering, q
          <6>4. /\ Resp(d) \in Messages /\ Len(Resp(d)) \in Nat /\ t \in Nat
                /\ ibuf[d].data \in Seq(Cell)
            <7>1. Resp(d) \in Messages /\ got[d] \in Seq(Loc)
              BY <1>1, RespMessages DEF DataType
            <7>2. Len(Resp(d)) \in Nat /\ Len(got[d]) \in Nat
              BY <7>1 DEF Messages
            <7> QED
              BY <1>1, <3>1, <6>3, <7>1, <7>2 DEF DataType, GoodBufs, KcnBufs
          <6>5. Flows(ibuf[d].data, wire[o] \o SubSeq(Head(q), 1, n), t,
                      Written(q, n), Len(Resp(d)), Resp(d))
            BY <2>1, <2>2, <2>3, <6>3, <6>4, FlowsWrite
          <6>6. Flows(ibuf[d].data, wire'[o], t, obufq'[p], Len(Resp(d)), Resp(d))
            BY <2>5, <6>2, <6>5 DEF h
          <6> QED
            BY <5>1, <6>3, <6>6 DEF Flows
        <5> QED
          BY <4>2, <4>3, <5>2, <5>3, <5>4 DEF Connection
      <4> QED
        BY <4>4, <4>5
    <3> QED
      BY <3>2, <3>3
  <2> QED
    BY <2>6, <2>7, <2>8 DEF DataInv
<1>7. \/ kcn_net_disconnect(p) /\ Goto(p, "loop") /\ obufq' = obufq
      \/ Goto(p, "loop") /\ UNCHANGED <<kn_state, evread, obufq, tcp>>
      \/ \E n \in 1..Len(Head(q)) :
              /\ q # << >> /\ UNCHANGED <<net, pc, sock, queue, closed>>
              /\ obufq' = [obufq EXCEPT ![p] = Written(q, n)]
              /\ \/ o \in closed /\ wire' = wire /\ reset' = reset \cup {e}
                 \/ reset' = reset /\ wire' = [wire EXCEPT ![o] = wire[o] \o h(n)]
  <2> DEFINE room == Room(e)
             x == Len(Head(q))
  <2>1. q # << >> => x \in Nat
    <3>1. q # << >> => Head(q) \in Seq(Cell)
      <4>1. q \in Seq(Seq(Cell) \ {<< >>})
        BY <1>1 DEF DataType
      <4> QED
        BY <4>1, TailOf
    <3> QED
      BY <3>1
  <2>2. room \in Int
    <3>1. wire[o] \in Seq(Cell)
      BY <1>1, <1>3 DEF DataType
    <3>2. Len(wire[o]) \in Nat
      BY <3>1
    <3> QED
      BY <3>2, NetAssumption DEF Room
  <2> HIDE DEF room, x
  <2>3. q # << >> => AtMost(x, room) \subseteq 1..x
    BY <2>1, <2>2 DEF AtMost
  <2>4. CASE q # << >> /\ ~ Broken(e) /\ ~ Gone(e)
           /\ \E n \in AtMost(x, room) :
                /\ wire' = [wire EXCEPT ![o] = @ \o SubSeq(Head(obufq[p]), 1, n)]
                /\ obufq' = [obufq EXCEPT ![p] = Written(@, n)]
           /\ UNCHANGED <<net, pc, sock, queue, closed, reset>>
    BY <1>1, <1>3, <2>3, <2>4 DEF x, DataType
  <2>5. CASE q # << >> /\ ~ Broken(e) /\ Gone(e)
           /\ \E n \in 1..x : obufq' = [obufq EXCEPT ![p] = Written(@, n)]
           /\ reset' = reset \cup {e}
           /\ UNCHANGED <<net, pc, sock, queue, wire, closed>>
    BY <1>1, <1>3, <2>5 DEF x, DataType, Gone
  <2>6. CASE q # << >> /\ ~ Broken(e) /\ ~ Gone(e) /\ room = 0
           /\ kcn_net_write_enable(p) /\ Goto(p, "loop")
           /\ UNCHANGED <<kn_state, evread, obufq, tcp>>
    BY <2>6
  <2>7. CASE q = << >> /\ Goto(p, "loop") /\ UNCHANGED <<net, obufq, tcp>>
    BY <2>7 DEF net
  <2>8. CASE kcn_net_disconnect(p) /\ Goto(p, "loop") /\ UNCHANGED obufq
    BY <2>8
  <2> QED
    BY <2>4, <2>5, <2>6, <2>7, <2>8 DEF Write, room, x
<1> QED
  BY <1>4, <1>5, <1>6, <1>7

-----------------------------------------------------------------------------
(* The other steps.                                                        *)

(* The kernel connects, or refuses.                                        *)
LEMMA DataQuiet ==
    ASSUME DataInv, LiveInv',
           UNCHANGED <<kn_state, evread, ibuf, obufq, wire, closed, reset, pc, peer>>,
           UNCHANGED <<client, database>>,
           \A d \in Client : (sock'[d] = "none") = (sock[d] = "none")
    PROVE  DataInv'
<1>1. UNCHANGED <<errno, kcr_error, got, unsent, answered, stored, result>>
  BY DEF client, database
<1>2. DataType' /\ Buffers'
  BY <1>1 DEF DataInv, DataType, Buffers
<1>3. ASSUME NEW d \in Client PROVE Connection(d)'
  <2>1. Connection(d)
    BY DEF DataInv
  <2>2. Reading(d)' = Reading(d)
    BY DEF Reading
  <2>3. Given(d)'
    <3>1. SameResult(d)
      BY <1>1, <2>2 DEF SameResult
    <3> QED
      BY <2>1, <3>1, GivenKept DEF Connection
  <2>4. Undisturbed(d)
    BY <1>1, <2>2 DEF Undisturbed, SameRequests, SameProcessed, SameAnswers
  <2> QED
    BY <2>1, <2>3, <2>4, Untouched
<1> QED
  BY <1>2, <1>3 DEF DataInv

LEMMA DataKernel ==
    ASSUME DataInv, LiveInv', NEW c \in Client, Kernel(c)
    PROVE  DataInv'
<1>1. /\ UNCHANGED <<kn_state, evread, ibuf, obufq, wire, closed, reset, pc, peer>>
      /\ UNCHANGED <<client, database>>
      /\ sock[c] = "connecting"
      /\ \/ sock' = [sock EXCEPT ![c] = "connected"]
         \/ sock' = [sock EXCEPT ![c] = "refused"]
  BY DEF Kernel, Established, Refused, net, buf
<1>2. \A d \in Client : (sock'[d] = "none") = (sock[d] = "none")
  BY <1>1 DEF DataInv, LiveInv, LiveType
<1> QED
  BY <1>1, <1>2, DataQuiet

LEMMA DataUnchanged ==
    ASSUME DataInv, LiveInv', UNCHANGED vars
    PROVE  DataInv'
<1>1. /\ UNCHANGED <<kn_state, evread, ibuf, obufq, wire, closed, reset, pc, peer>>
      /\ UNCHANGED <<client, database>> /\ sock' = sock
  BY DEF vars, net, buf, tcp
<1> QED
  BY <1>1, DataQuiet

(* The session of a thread is over.                                        *)
LEMMA DataSessionEnds ==
    ASSUME DataInv, LiveInv', NEW s \in Server, SessionEnd(s)
    PROVE  DataInv'
<1> DEFINE r == "ok"
           where == "accept"
<1>1. s \in Peer /\ s \notin Client
  BY Kinds
<1>2. /\ pc[s] \in Active /\ kcn_net_disconnect(s) /\ Goto(s, where)
      /\ s \in Server /\ peer' = [peer EXCEPT ![s] = Nobody]
      /\ UNCHANGED <<ibuf, obufq>>
      /\ UNCHANGED <<errno, kcr_error, got, unsent, answered, stored>>
      /\ result' = result
  BY DEF SessionEnd, Dispatched, At, Active, buf, client, database
<1>3. r \in Error \cup {"ok", "ECONNREFUSED", "ENETDOWN", "exit"}
  OBVIOUS
<1> HIDE DEF r, where
<1> QED
  BY <1>1, <1>2, <1>3, Leaves

(* Nothing is left of what a thread has received but a part of a message.  *)
LEMMA DataRecvEnds ==
    ASSUME DataInv, LiveInv', NEW s \in Server, RecvEnd(s)
    PROVE  DataInv'
<1>1. LiveInv /\ LiveType /\ EventsAreLive /\ DataType /\ Buffers
  BY DEF DataInv, LiveInv
<1>2. /\ s \in Peer /\ s \notin Client /\ pc[s] = "recv" /\ pc[s] \in Active
      /\ kcn_msg_partial(ibuf[s]) /\ kn_state[s] = "ESTABLISHED"
  BY <1>1, Kinds DEF RecvEnd, At, Active, EventsAreLive
<1> DEFINE st == kn_state[s]
           er == TRUE
           where == "loop"
<1>3. /\ UNCHANGED <<ibuf, obufq, wire, sock, closed, reset, peer>>
      /\ UNCHANGED <<errno, kcr_error, got, unsent, answered, stored, result>>
      /\ Goto(s, where)
      /\ kn_state' = [kn_state EXCEPT ![s] = st]
      /\ evread' = [evread EXCEPT ![s] = er]
      /\ pc'[s] = "loop"
  BY <1>1, <1>2 DEF RecvEnd, ReadCbOut, kcn_net_read_enable, tcp, buf, client, database,
                    LiveType, Goto
<1>4. Len(ibuf[s].data) < 2
  <2>1. ibuf[s] \in GoodBufs(Cell, BUFSIZ) /\ ibuf[s].cp = ibuf[s].sp
    BY <1>1, <1>2 DEF DataType, Buffers
  <2> QED
    BY <1>2, <2>1, PartOfMessage, NetAssumption
<1>5. /\ st # "DISCONNECTED" => kn_state[s] # "DISCONNECTED"
      /\ pc'[s] # "recv" /\ (pc'[s] = "loop" => pc[s] # "recv" \/ s \in Server)
      /\ pc'[s] = "write" => pc[s] # "recv"
      /\ s \in Client /\ (er \/ st = "PENDING") => Reading(s)
      /\ er \/ st \in {"INIT", "PENDING"} => Len(ibuf[s].data) < 2
  BY <1>2, <1>3, <1>4
<1> HIDE DEF st, er, where
<1> QED
  BY <1>2, <1>3, <1>5, GoesOn

(* How a client ends makes what it has of the answer no different.         *)
LEMMA GivenAtEnd ==
    ASSUME DataInv, NEW c \in Client, pc'[c] = "done", ~ Reading(c)',
           got'[c] = got[c], answered'[c] = answered[c],
           result'[c] = "ok" => pc[c] \in {"loop", "write"} /\ kcr_error[c] = "0"
    PROVE  Given(c)'
  BY DEF DataInv, Connection, Given, Begins

LEMMA DataClientEnds ==
    ASSUME DataInv, LiveInv', NEW c \in Client,
           \/ ClientEnd(c) \/ ClientExit(c)
           \/ FileRead(c) /\ kn_state[c] = "DISCONNECTED"
    PROVE  DataInv'
<1>1. LiveInv /\ LiveType /\ EventsAreLive /\ ClientsOpen /\ DataType
  BY DEF DataInv, LiveInv, ServedOnce
<1>2. c \in Peer /\ c \notin Server
  BY Kinds
<1>3. pc[c] \in Active
  BY <1>1, <1>2, Kinds DEF ClientEnd, ClientExit, FileRead, Dispatched, At, LiveType, ClientsOpen
<1>4. PICK r : /\ Done(c, r)
               /\ r \in Error \cup {"ok", "ECONNREFUSED", "ENETDOWN", "exit"}
               /\ r = "ok" => pc[c] = "loop" /\ kcr_error[c] = "0"
  <2>1. CASE ClientEnd(c)
    <3>1. kcr_error[c] \in Error /\ "ok" \notin Error
      BY <1>1, JobAssumption DEF DataType, Error
    <3> QED
      BY <2>1, <3>1 DEF ClientEnd, Dispatched, At
  <2>2. CASE ClientExit(c)
    BY <2>2 DEF ClientExit
  <2>3. CASE FileRead(c) /\ kn_state[c] = "DISCONNECTED"
    BY <2>3 DEF FileRead
  <2> QED
    BY <2>1, <2>2, <2>3
<1>5. /\ kcn_net_disconnect(c) /\ peer' = peer
      /\ UNCHANGED <<ibuf, obufq>>
      /\ UNCHANGED <<errno, kcr_error, got, unsent, answered, stored>>
  <2>1. CASE ClientEnd(c) \/ ClientExit(c)
    BY <2>1 DEF ClientEnd, ClientExit, buf, database
  <2>2. CASE FileRead(c) /\ kn_state[c] = "DISCONNECTED"
    BY <1>1, <1>2, <2>2 DEF FileRead, net, tcp, database, kcn_net_disconnect,
                            EventsAreLive, LiveType
  <2> QED
    BY <2>1, <2>2
<1> DEFINE where == "done"
<1>6. /\ Goto(c, where) /\ result' = [result EXCEPT ![c] = r]
      /\ pc'[c] = "done" /\ result'[c] = r
  BY <1>1, <1>2, <1>4 DEF Done, Goto, LiveType, DataType
<1>7. Given(c)'
  <2>1. ~ Reading(c)'
    BY <1>6, Kinds DEF Reading
  <2> QED
    BY <1>4, <1>5, <1>6, <2>1, GivenAtEnd
<1> HIDE DEF where
<1> QED
  BY <1>2, <1>3, <1>4, <1>5, <1>6, <1>7, Leaves

(* A program that sends nothing, or all that there is, begins.             *)
LEMMA StartFlows ==
    ASSUME NEW m \in Messages
    PROVE  /\ Flows(<< >>, << >>, 0, m, Len(m), m)
           /\ Flows(<< >>, << >>, 0, << >>, 0, m)
           /\ Arrives(<< >>, << >>, 0, m)
           /\ m \in Seq(Seq(Cell) \ {<< >>}) /\ Len(m) \in Nat
<1>1. m \in Seq(Seq(Cell)) /\ Len(m) \in Nat /\ \A i \in 1..Len(m) : Len(m[i]) = 2
  BY DEF Messages
<1>2. Arrives(<< >>, << >>, 0, m)
  BY <1>1 DEF Arrives, Carries
<1>3. Queues(m, m, Len(m)) /\ Queues(<< >>, m, 0)
  BY <1>1 DEF Queues
<1>4. Put(m, Len(m)) = 0 /\ Put(<< >>, 0) = 0
  <2>1. CASE m = << >>
    BY <2>1 DEF Put
  <2>2. CASE m # << >>
    <3>1. 1 \in 1..Len(m)
      BY <1>1, <2>2
    <3>2. Len(m[1]) = 2
      BY <1>1, <3>1
    <3> QED
      BY <1>1, <2>2, <3>2 DEF Put
  <2> QED
    BY <2>1, <2>2
<1>5. m \in Seq(Seq(Cell) \ {<< >>})
  <2> DEFINE S == Seq(Cell)
             R == S \ {<< >>}
  <2>1. \A i \in 1..Len(m) : m[i] \in S /\ m[i] # << >>
    <3>1. \A i \in 1..Len(m) : m[i] \in S
      BY <1>1
    <3>2. Len(<< >>) # 2
      OBVIOUS
    <3> QED
      BY <1>1, <3>1, <3>2
  <2>2. m \in Seq(S)
    BY <1>1
  <2>3. \A i \in 1..Len(m) : m[i] \in R
    BY <2>1
  <2> HIDE DEF S, R
  <2>4. m \in Seq(R)
    BY <2>2, <2>3
  <2> QED
    BY <2>4 DEF R, S
<1> QED
  BY <1>1, <1>2, <1>3, <1>4, <1>5 DEF Flows

(* A client whose connection is refused at once has done nothing.          *)
LEMMA DataRefused ==
    ASSUME DataInv, LiveInv', NEW c \in Client, pc[c] = "start", Done(c, "ECONNREFUSED"),
           UNCHANGED <<net, buf, tcp, peer, errno, kcr_error, got, unsent, database>>
    PROVE  DataInv'
<1>1. LiveInv /\ LiveType /\ DataType /\ Buffers /\ c \in Peer
  BY Kinds DEF DataInv, LiveInv
<1>2. /\ pc'[c] = "done" /\ \A q \in Peer : q # c => pc'[q] = pc[q]
      /\ result'[c] = "ECONNREFUSED" /\ \A d \in Client : d # c => result'[d] = result[d]
      /\ UNCHANGED <<kn_state, evread, ibuf, obufq, sock, wire, closed, reset, peer>>
      /\ UNCHANGED <<errno, kcr_error, got, unsent, answered, stored>>
  BY <1>1 DEF Done, Goto, LiveType, DataType, net, buf, tcp, database
<1>3. DataType'
  <2>1. result' = [result EXCEPT ![c] = "ECONNREFUSED"]
    BY DEF Done
  <2> QED
    BY <1>1, <1>2, <2>1 DEF DataType
<1>4. Buffers'
  BY <1>1, <1>2, BuffersKept DEF Buffers
<1>5. ASSUME NEW d \in Client PROVE Connection(d)'
  <2>1. Connection(d) /\ d \in Peer
    BY Kinds DEF DataInv
  <2>2. pc'[d] = pc[d] \/ (d = c /\ pc'[d] = "done" /\ pc[d] = "start")
    BY <1>2, <2>1
  <2>3. Reading(d)' => Reading(d)
    BY <1>2, <2>2, Kinds DEF Reading
  <2>4. Given(d)'
    <3>1. SameResult(d)
      BY <1>2, <2>2, <2>3 DEF SameResult
    <3> QED
      BY <2>1, <3>1, GivenKept DEF Connection
  <2>5. Undisturbed(d)
    BY <1>2, <2>2, <2>3, Kinds DEF Undisturbed, SameRequests, SameProcessed, SameAnswers
  <2> QED
    BY <2>1, <2>4, <2>5, Untouched
<1> QED
  BY <1>3, <1>4, <1>5 DEF DataInv

(* kcn_client_init, or kcndbctl: the queries of a client are queued.       *)
LEMMA DataStarts ==
    ASSUME DataInv, LiveInv', NEW c \in Client, ClientStart(c)
    PROVE  DataInv'
<1>1. LiveInv /\ LiveType /\ DataType /\ Buffers /\ ClientsOpen /\ ThreadsServe
  BY DEF DataInv, LiveInv, ServedOnce
<1>2. c \in Peer /\ c \notin Server /\ pc[c] = "start" /\ sock[c] = "none" /\ Connection(c)
  BY <1>1, Kinds DEF ClientStart, At, ClientsOpen, DataInv
<1>3. CASE Done(c, "ECONNREFUSED") /\ UNCHANGED <<net, buf, sock, errno, unsent>>
  BY <1>2, <1>3, DataRefused DEF ClientStart, tcp, buf
<1>4. CASE \E st \in {"INIT", "PENDING"}, made \in {0, Len(Req(c))} :
              LET q == IF made = 0 THEN << >> ELSE Req(c)
              IN  /\ kcn_net_new(c, st, q)
                  /\ unsent' = IF made = Len(Req(c)) THEN unsent
                               ELSE [unsent EXCEPT ![c] = Job[c].recs]
                  /\ made # Len(Req(c)) => Job[c].kind # "query"
                  /\ sock' = [sock EXCEPT ![c] = "connecting"]
                  /\ errno' = [errno EXCEPT ![c] = "EINPROGRESS"]
                  /\ Goto(c, "loop")
                  /\ UNCHANGED result
  <2>1. PICK st \in {"INIT", "PENDING"}, made \in {0, Len(Req(c))} :
              LET q == IF made = 0 THEN << >> ELSE Req(c)
              IN  /\ kcn_net_new(c, st, q)
                  /\ unsent' = IF made = Len(Req(c)) THEN unsent
                               ELSE [unsent EXCEPT ![c] = Job[c].recs]
                  /\ made # Len(Req(c)) => Job[c].kind # "query"
                  /\ sock' = [sock EXCEPT ![c] = "connecting"]
                  /\ errno' = [errno EXCEPT ![c] = "EINPROGRESS"]
                  /\ Goto(c, "loop")
                  /\ UNCHANGED result
    BY <1>4
  <2> DEFINE q == IF made = 0 THEN << >> ELSE Req(c)
             e == <<c, "client">>
             o == <<c, "server">>
  <2>2. /\ Req(c) \in Messages /\ Len(Req(c)) \in Nat /\ Job[c].recs \in Seq(Rec)
        /\ Job[c].kind # "query" => Len(Req(c)) = Len(Job[c].recs)
        /\ Job[c].kind = "query" => Len(Req(c)) = 1
    BY ReqMessages, StartFlows
  <2>3. /\ q \in Seq(Seq(Cell) \ {<< >>}) /\ Flows(<< >>, << >>, 0, q, made, Req(c))
    <3>1. CASE made = 0
      <4>1. q = << >>
        BY <3>1
      <4>2. << >> \in Seq(Seq(Cell) \ {<< >>})
        OBVIOUS
      <4> QED
        BY <2>2, <3>1, <4>1, <4>2, StartFlows
    <3>2. CASE made # 0
      BY <2>1, <2>2, <3>2, StartFlows
    <3> QED
      BY <3>1, <3>2
  <2> HIDE DEF q
  <2>4. /\ kn_state' = [kn_state EXCEPT ![c] = st]
        /\ evread' = [evread EXCEPT ![c] = FALSE]
        /\ ibuf' = [ibuf EXCEPT ![c] = kcn_buf_reset(0)]
        /\ obufq' = [obufq EXCEPT ![c] = q]
        /\ pc' = [pc EXCEPT ![c] = "loop"]
        /\ UNCHANGED <<queue, wire, closed, reset, peer, kcr_error, got>>
        /\ UNCHANGED <<result, answered, stored>>
    BY <2>1 DEF ClientStart, kcn_net_new, Goto, database, q
  <2>5. /\ answered[c] = << >> /\ stored[c] = << >> /\ got[c] = << >> /\ unsent[c] = << >>
        /\ wire[o] = << >> /\ wire[e] = << >>
    BY <1>2 DEF Connection, Fresh
  <2>6. /\ kn_state'[c] = st /\ ~ evread'[c] /\ ibuf'[c] = kcn_buf_reset(0)
        /\ obufq'[c] = q /\ pc'[c] = "loop" /\ sock'[c] = "connecting"
        /\ errno'[c] = "EINPROGRESS"
        /\ unsent'[c] = IF made = Len(Req(c)) THEN << >> ELSE Job[c].recs
        /\ \A p \in Peer : p # c =>
              /\ pc'[p] = pc[p] /\ kn_state'[p] = kn_state[p] /\ evread'[p] = evread[p]
              /\ ibuf'[p] = ibuf[p] /\ obufq'[p] = obufq[p]
        /\ \A d \in Client : d # c =>
              sock'[d] = sock[d] /\ errno'[d] = errno[d] /\ unsent'[d] = unsent[d]
    BY <1>1, <1>2, <2>1, <2>4, <2>5 DEF LiveType, DataType
  <2>7. /\ kcn_buf_reset(0) \in GoodBufs(Cell, BUFSIZ) /\ kcn_buf_reset(0).data = << >>
        /\ kcn_buf_reset(0).cp = kcn_buf_reset(0).sp
    BY ResetGood, NetAssumption DEF kcn_buf_reset
  <2>8. DataType'
    <3>1. unsent' \in [Client -> Seq(Rec)]
      BY <1>1, <2>1, <2>2 DEF DataType
    <3>2. errno' \in [Client -> Error]
      BY <1>1, <2>1 DEF DataType, Error
    <3>3. ibuf' \in [Peer -> GoodBufs(Cell, BUFSIZ)]
      BY <1>1, <2>4, <2>7 DEF DataType
    <3>4. obufq' \in [Peer -> Seq(Seq(Cell) \ {<< >>})]
      BY <1>1, <2>3, <2>4 DEF DataType
    <3> QED
      BY <1>1, <2>4, <3>1, <3>2, <3>3, <3>4 DEF DataType
  <2>9. Buffers'
    <3>1. Len(<< >>) < 2
      OBVIOUS
    <3> QED
      BY <1>1, <2>6, <2>7, <3>1 DEF Buffers
  <2>10. ASSUME NEW d \in Client PROVE Connection(d)'
    <3>1. CASE d # c
      <4>1. Touches(c, c)
        BY <1>2, <2>4, <2>6 DEF Touches
      <4>2. Connection(d)
        BY DEF DataInv
      <4> QED
        BY <1>2, <3>1, <4>1, <4>2, Elsewhere
    <3>2. CASE d = c
      <4>1. Fresh(c)'
        BY <2>6 DEF Fresh
      <4>2. Processed(c)'
        <5>1. Job[c].kind = "query" => unsent'[c] = << >>
          BY <2>1, <2>6
        <5>2. /\ Len(unsent'[c]) <= Len(Job[c].recs)
              /\ \A k \in 1..Len(unsent'[c]) :
                    unsent'[c][k] = Job[c].recs[Len(Job[c].recs) - Len(unsent'[c]) + k]
          <6>1. CASE unsent'[c] = << >>
            BY <2>2, <6>1
          <6>2. CASE unsent'[c] = Job[c].recs
            <7>1. \A k \in 1..Len(Job[c].recs) :
                     Len(Job[c].recs) - Len(Job[c].recs) + k = k
              BY <2>2
            <7> QED
              BY <2>2, <6>2, <7>1
          <6> QED
            BY <2>6, <6>1, <6>2
        <5> QED
          BY <1>2, <2>4, <5>1, <5>2 DEF Connection, Processed
      <4>3. Given(c)'
        BY <1>2, <2>4, <2>5, <2>6 DEF Connection, Given, Begins
      <4>4. Requests(c)'
        <5>1. \A s \in Server : peer'[s] # c
          BY <1>1, <1>2, <2>4 DEF ThreadsServe
        <5>2. Made(c)' = made
          <6>1. CASE made = Len(Req(c))
            BY <2>2, <2>6, <6>1 DEF Made, Req
          <6>2. CASE made # Len(Req(c))
            <7>1. Len(Req(c)) = Len(Job[c].recs) /\ unsent'[c] = Job[c].recs /\ made = 0
              BY <2>1, <2>2, <2>6, <6>2
            <7> QED
              BY <2>2, <7>1 DEF Made, Req
          <6> QED
            BY <6>1, <6>2
        <5>3. Taken(c)' = 0
          BY <2>4, <2>5 DEF Taken
        <5>4. Req(c)' = Req(c)
          BY DEF Req
        <5> QED
          BY <2>3, <2>4, <2>5, <2>6, <5>1, <5>2, <5>3, <5>4 DEF Requests
      <4>5. Answering(c)'
        <5>1. Resp(c)' = << >> /\ Len(got'[c]) = 0
          BY <2>4, <2>5 DEF Resp
        <5>2. \A s \in Server : peer'[s] # c
          BY <1>1, <1>2, <2>4 DEF ThreadsServe
        <5>3. Arrives(<< >>, << >>, 0, << >>)
          <6>1. << >> \in Messages
            BY DEF Messages
          <6> QED
            BY <6>1, StartFlows
        <5> QED
          BY <2>4, <2>5, <2>6, <2>7, <5>1, <5>2, <5>3 DEF Answering
      <4> QED
        BY <3>2, <4>1, <4>2, <4>3, <4>4, <4>5 DEF Connection
    <3> QED
      BY <3>1, <3>2
  <2> QED
    BY <2>8, <2>9, <2>10 DEF DataInv
<1>5. \/ Done(c, "ECONNREFUSED") /\ UNCHANGED <<net, buf, sock, errno, unsent>>
      \/ \E st \in {"INIT", "PENDING"}, made \in {0, Len(Req(c))} :
              LET q == IF made = 0 THEN << >> ELSE Req(c)
              IN  /\ kcn_net_new(c, st, q)
                  /\ unsent' = IF made = Len(Req(c)) THEN unsent
                               ELSE [unsent EXCEPT ![c] = Job[c].recs]
                  /\ made # Len(Req(c)) => Job[c].kind # "query"
                  /\ sock' = [sock EXCEPT ![c] = "connecting"]
                  /\ errno' = [errno EXCEPT ![c] = "EINPROGRESS"]
                  /\ Goto(c, "loop")
                  /\ UNCHANGED result
  <2> DEFINE Begun(st, q) == /\ kcn_net_new(c, st, q)
                             /\ sock' = [sock EXCEPT ![c] = "connecting"]
                             /\ errno' = [errno EXCEPT ![c] = "EINPROGRESS"]
                             /\ Goto(c, "loop")
                             /\ UNCHANGED result
  <2>1. \/ Done(c, "ECONNREFUSED") /\ UNCHANGED <<net, buf, sock, errno, unsent>>
        \/ /\ Job[c].kind = "query" /\ UNCHANGED unsent
           /\ Begun("PENDING", <<kcn_msg_query_encode(Job[c].max)>>)
        \/ /\ Job[c].kind = "msg" /\ UNCHANGED unsent
           /\ Begun("INIT", Adds(Job[c].recs))
        \/ /\ Job[c].kind = "file" /\ Begun("INIT", << >>)
           /\ unsent' = [unsent EXCEPT ![c] = Job[c].recs]
    BY DEF ClientStart
  <2>2. /\ Len(Req(c)) \in Nat /\ Req(c) \in Messages
        /\ Job[c].kind = "query" => Len(Req(c)) = 1
        /\ Job[c].kind = "msg" => Len(Req(c)) = 1
        /\ Job[c].kind # "query" => Len(Req(c)) = Len(Job[c].recs)
    BY ReqMessages, StartFlows, JobAssumption
  <2>3. CASE /\ Job[c].kind = "query" /\ UNCHANGED unsent
             /\ Begun("PENDING", <<kcn_msg_query_encode(Job[c].max)>>)
    <3>1. Begun("PENDING", Req(c))
      BY <2>3 DEF Req
    <3> QED
      BY <2>2, <2>3, <3>1
  <2>4. CASE /\ Job[c].kind = "msg" /\ UNCHANGED unsent
             /\ Begun("INIT", Adds(Job[c].recs))
    <3>1. Begun("INIT", Req(c))
      BY <2>4 DEF Req
    <3> QED
      BY <2>2, <2>4, <3>1
  <2>5. CASE /\ Job[c].kind = "file" /\ Begun("INIT", << >>)
             /\ unsent' = [unsent EXCEPT ![c] = Job[c].recs]
    <3>1. CASE Len(Req(c)) # 0
      BY <2>2, <2>5, <3>1
    <3>2. CASE Len(Req(c)) = 0
      <4>1. Job[c].recs = << >> /\ unsent[c] = << >> /\ unsent \in [Client -> Seq(Rec)]
        <5>1. Job[c].recs \in Seq(Rec) /\ Len(Job[c].recs) = 0
          BY <2>2, <2>5, <3>2, ReqMessages
        <5>2. unsent[c] = << >>
          BY <1>2 DEF Connection, Fresh
        <5> QED
          BY <1>1, <5>1, <5>2 DEF DataType
      <4>2. unsent' = unsent
        BY <2>5, <4>1
      <4> QED
        BY <2>2, <2>5, <3>2, <4>2
    <3> QED
      BY <3>1, <3>2
  <2> QED
    BY <2>1, <2>3, <2>4, <2>5
<1> QED
  BY <1>3, <1>4, <1>5

(* readfile of kcndbctl_file.c: more of the lines are queued.              *)
LEMMA DataFileReads ==
    ASSUME DataInv, LiveInv', NEW c \in Client, FileRead(c), kn_state[c] # "DISCONNECTED"
    PROVE  DataInv'
<1> DEFINE u == unsent[c]
           L == Len(u)
           o == <<c, "server">>
           r == Job[c].recs
<1>1. LiveInv /\ LiveType /\ DataType /\ Buffers
  BY DEF DataInv, LiveInv
<1>2. /\ c \in Peer /\ c \notin Server /\ pc[c] = "loop" /\ pc[c] \in Active
      /\ Connection(c) /\ Processed(c)
  BY Kinds DEF FileRead, At, Active, DataInv, Connection
<1>3. PICK n \in 1..L :
          /\ kcn_net_write(c, Adds(SubSeq(u, 1, n)))
          /\ unsent' = [unsent EXCEPT ![c] = SubSeq(u, n + 1, L)]
  BY <1>1 DEF FileRead, DataType
<1>4. u \in Seq(Rec) /\ u # << >> /\ L \in Nat /\ n \in Nat /\ n >= 1 /\ n <= L
  <2>1. u \in Seq(Rec) /\ u # << >>
    BY <1>1 DEF DataType, FileRead
  <2>2. L \in Nat
    BY <2>1
  <2> QED
    BY <2>1, <2>2
<1> DEFINE h == SubSeq(u, 1, n)
           rest == SubSeq(u, n + 1, L)
<1>5. /\ h \in Seq(Rec) /\ Len(h) = n /\ rest \in Seq(Rec) /\ Len(rest) = L - n
      /\ \A k \in 1..n : h[k] = u[k]
      /\ \A k \in 1..L - n : rest[k] = u[n + k]
  <2>1. h \in Seq(Rec) /\ Len(h) = n
    BY <1>4, PartOfSeq
  <2>2. rest \in Seq(Rec) /\ Len(rest) = L - n
    BY <1>4, PartOfSeq
  <2>3. \A k \in 1..n : h[k] = u[k]
    BY <1>4
  <2>4. \A k \in 1..L - n : rest[k] = u[n + k]
    BY <1>4
  <2> QED
    BY <2>1, <2>2, <2>3, <2>4
<1>6. /\ Job[c].kind # "query" /\ r \in Seq(Rec) /\ Len(r) \in Nat
      /\ Len(Req(c)) = Len(r) /\ Req(c) \in Messages /\ L <= Len(r)
      /\ \A k \in 1..Len(r) : Req(c)[k] = kcn_msg_add_encode(r[k])
      /\ \A k \in 1..L : u[k] = r[Len(r) - L + k]
  <2>1. Job[c].kind # "query"
    BY <1>2, <1>4 DEF Processed
  <2>2. r \in Seq(Rec) /\ Len(r) \in Nat
    BY ReqMessages
  <2> QED
    BY <1>2, <2>1, <2>2, ReqMessages DEF Processed
<1> DEFINE a == Adds(h)
<1>7. /\ a \in Messages /\ Len(a) = n
      /\ \A k \in 1..n : a[k] = Req(c)[Len(r) - L + k]
      /\ a \in Seq(Seq(Cell)) /\ a \in Seq(Seq(Cell) \ {<< >>})
  <2>1. /\ a \in Messages /\ Len(a) = n
        /\ \A k \in 1..n : a[k] = kcn_msg_add_encode(h[k])
    BY <1>5, AddsOf
  <2>2. ASSUME NEW k \in 1..n PROVE a[k] = Req(c)[Len(r) - L + k]
    <3>1. k \in 1..L /\ Len(r) - L + k \in 1..Len(r)
      <4>1. \A x \in Nat : L <= x => k \in 1..L /\ x - L + k \in 1..x
        BY <1>4
      <4> QED
        BY <1>6, <4>1
    <3>2. h[k] = r[Len(r) - L + k]
      BY <1>5, <1>6, <3>1
    <3> QED
      BY <1>6, <2>1, <3>1, <3>2
  <2> QED
    BY <2>1, <2>2, StartFlows DEF Messages
<1> HIDE DEF u, L, r, h, rest, a
<1>8. /\ obufq' = [obufq EXCEPT ![c] = obufq[c] \o a]
      /\ UNCHANGED <<kn_state, evread, pc, result>>
      /\ UNCHANGED <<ibuf, sock, wire, closed, reset, peer>>
      /\ UNCHANGED <<errno, kcr_error, got, answered, stored>>
      /\ unsent' = [unsent EXCEPT ![c] = rest]
  BY <1>1, <1>2, <1>3 DEF FileRead, kcn_net_write, tcp, database, DataType, u, L, h, rest, a
<1>9. /\ obufq'[c] = obufq[c] \o a /\ unsent'[c] = rest
      /\ \A p \in Peer : p # c => obufq'[p] = obufq[p]
      /\ \A d \in Client : d # c => unsent'[d] = unsent[d]
  BY <1>1, <1>2, <1>8 DEF DataType
<1>10. obufq[c] \in Seq(Seq(Cell)) /\ obufq[c] \o a \in Seq(Seq(Cell) \ {<< >>})
  <2> DEFINE S == Seq(Cell)
             R == S \ {<< >>}
  <2>1. obufq[c] \in Seq(R) /\ a \in Seq(R) /\ \A x \in R : x \in S
    BY <1>1, <1>2, <1>7 DEF DataType
  <2> HIDE DEF S, R
  <2>2. obufq[c] \in Seq(S) /\ obufq[c] \o a \in Seq(R)
    BY <2>1
  <2> QED
    BY <2>2 DEF S, R
<1>11. DataType'
  BY <1>1, <1>5, <1>8, <1>10 DEF DataType
<1>12. Buffers'
  BY <1>1, <1>8 DEF Buffers
<1>13. ASSUME NEW d \in Client PROVE Connection(d)'
  <2>1. Connection(d) /\ d \in Peer
    BY Kinds DEF DataInv
  <2>2. CASE d # c
    <3>1. Touches(c, c)
      BY <1>2, <1>8, <1>9 DEF Touches
    <3> QED
      BY <1>2, <2>1, <2>2, <3>1, Elsewhere
  <2>3. CASE d = c
    <3>1. Reading(c)' = Reading(c)
      BY <1>8 DEF Reading
    <3>2. Given(c)'
      <4>1. SameResult(c)
        BY <1>8, <3>1 DEF SameResult
      <4> QED
        BY <1>2, <4>1, GivenKept DEF Connection
    <3>3. Answering(c)'
      <4>1. SameAnswers(c)
        BY <1>2, <1>8, <1>9, <3>1, Kinds DEF SameAnswers
      <4> QED
        BY <1>2, <4>1, AnsweringKept DEF Connection
    <3>4. Fresh(c)'
      BY <1>2, <1>8 DEF Connection, Fresh
    <3>5. Processed(c)'
      <4>1. /\ L - n <= Len(r)
            /\ \A k \in 1..L - n : rest[k] = r[Len(r) - (L - n) + k]
        <5>1. ASSUME NEW k \in 1..L - n PROVE rest[k] = r[Len(r) - (L - n) + k]
          <6>1. n + k \in 1..L /\ Len(r) - L + (n + k) = Len(r) - (L - n) + k
            BY <1>4, <1>6
          <6> QED
            BY <1>5, <1>6, <6>1
        <5> QED
          BY <1>4, <1>6, <5>1
      <4>2. /\ Len(unsent'[c]) <= Len(Job[c].recs)
            /\ \A k \in 1..Len(unsent'[c]) :
                  unsent'[c][k] = Job[c].recs[Len(Job[c].recs) - Len(unsent'[c]) + k]
        BY <1>5, <1>9, <4>1 DEF r
      <4> QED
        BY <1>2, <1>6, <1>8, <4>2 DEF Processed
    <3>6. Requests(c)'
      <4>1. /\ Taken(c)' = Taken(c) /\ Req(c)' = Req(c)
            /\ Made(c)' = Made(c) + n /\ Made(c) = Len(r) - L
            /\ Made(c) \in Nat /\ Made(c) + Len(a) <= Len(Req(c))
        <5>1. Made(c) = Len(r) - L
          BY <1>6 DEF Made, u, L
        <5>2. Made(c)' = Len(r) - (L - n)
          BY <1>5, <1>6, <1>9 DEF Made, Req
        <5>3. Len(r) - (L - n) = (Len(r) - L) + n /\ Len(r) - L \in Nat
              /\ (Len(r) - L) + n <= Len(r)
          BY <1>4, <1>6
        <5> QED
          BY <1>6, <1>7, <1>8, <5>1, <5>2, <5>3 DEF Taken, Req
      <4>2. ASSUME NEW b, NEW t, Flows(b, wire[o], t, obufq[c], Made(c), Req(c))
            PROVE  Flows(b, wire[o], t, obufq[c] \o a, Made(c) + n, Req(c))
        <5>1. \A k \in 1..Len(a) : a[k] = Req(c)[Made(c) + k]
          BY <1>7, <4>1
        <5>2. /\ Queues(obufq[c] \o a, Req(c), Made(c) + Len(a))
              /\ Put(obufq[c] \o a, Made(c) + Len(a)) = Put(obufq[c], Made(c))
          BY <1>6, <1>7, <1>10, <4>1, <4>2, <5>1, MoreQueued DEF Flows
        <5> QED
          BY <1>7, <4>2, <5>2 DEF Flows
      <4> SUFFICES ASSUME sock[c] # "none", o \notin closed
          PROVE  /\ \A s \in Server : peer[s] = c =>
                       Flows(ibuf[s].data, wire[o], Taken(c), obufq[c] \o a,
                             Made(c) + n, Req(c))
                 /\ (\A s \in Server : peer[s] # c) =>
                       /\ Taken(c) = 0
                       /\ Flows(<< >>, wire[o], 0, obufq[c] \o a, Made(c) + n, Req(c))
        BY <1>8, <1>9, <4>1 DEF Requests
      <4> QED
        BY <1>2, <4>2 DEF Connection, Requests
    <3> QED
      BY <2>3, <3>2, <3>3, <3>4, <3>5, <3>6 DEF Connection
  <2> QED
    BY <2>2, <2>3
<1> QED
  BY <1>11, <1>12, <1>13 DEF DataInv

(* kcndb_server_loop: a thread takes a connection nobody has served.       *)
LEMMA DataAccepts ==
    ASSUME DataInv, LiveInv', NEW s \in Server, Accept(s)
    PROVE  DataInv'
<1>1. LiveInv /\ LiveType /\ DataType /\ Buffers /\ ThreadsServe /\ Queued
  BY DEF DataInv, LiveInv, ServedOnce
<1>2. PICK c \in Client : Head(queue) = c /\ queue[1] = c /\ 1 \in 1..Len(queue)
  BY <1>1 DEF Accept, LiveType
<1> DEFINE o == <<c, "server">>
           kb == kcn_buf_reset(0)
<1>3. /\ sock[c] = "connected" /\ o \notin closed
      /\ \A t \in Server : peer[t] # c
      /\ peer[s] = Nobody
  <2>1. peer[s] \notin Client
    BY <1>1 DEF ThreadsServe, Accept, At
  <2> QED
    BY <1>1, <1>2, <2>1 DEF Queued, LiveType
<1>4. /\ s \in Peer /\ s \notin Client /\ c \in Peer /\ c # s /\ c # Nobody /\ Connection(c)
  BY <1>2, Kinds DEF DataInv
<1>5. /\ kn_state' = [kn_state EXCEPT ![s] = "PENDING"]
      /\ evread' = [evread EXCEPT ![s] = FALSE]
      /\ ibuf' = [ibuf EXCEPT ![s] = kb]
      /\ obufq' = [obufq EXCEPT ![s] = << >>]
      /\ peer' = [peer EXCEPT ![s] = c]
      /\ pc' = [pc EXCEPT ![s] = "loop"]
      /\ UNCHANGED <<sock, wire, closed, reset>>
      /\ UNCHANGED <<errno, kcr_error, got, unsent, answered, stored, result>>
  BY <1>2 DEF Accept, kcn_net_new, Goto, client, database
<1>6. /\ ~ evread'[s] /\ pc'[s] = "loop" /\ peer'[s] = c /\ ibuf'[s] = kb /\ obufq'[s] = << >>
      /\ \A q \in Peer : q # s =>
            /\ kn_state'[q] = kn_state[q] /\ evread'[q] = evread[q] /\ pc'[q] = pc[q]
            /\ ibuf'[q] = ibuf[q] /\ obufq'[q] = obufq[q]
      /\ \A t \in Server : t # s => peer'[t] = peer[t]
  BY <1>1, <1>4, <1>5 DEF LiveType, DataType
<1>7. kb \in GoodBufs(Cell, BUFSIZ) /\ kb.data = << >> /\ kb.cp = kb.sp
  BY ResetGood, NetAssumption DEF kcn_buf_reset
<1> HIDE DEF kb
<1>8. DataType'
  <2>1. << >> \in Seq(Seq(Cell) \ {<< >>})
    OBVIOUS
  <2>2. obufq' \in [Peer -> Seq(Seq(Cell) \ {<< >>})]
    BY <1>1, <1>5, <2>1 DEF DataType
  <2>3. ibuf' \in [Peer -> GoodBufs(Cell, BUFSIZ)]
    BY <1>1, <1>5, <1>7 DEF DataType
  <2> QED
    BY <1>1, <1>5, <2>2, <2>3 DEF DataType
<1>9. Buffers'
  <2>1. Len(<< >>) < 2
    OBVIOUS
  <2> QED
    BY <1>1, <1>6, <1>7, <2>1 DEF Buffers
<1>10. ASSUME NEW d \in Client PROVE Connection(d)'
  <2>1. CASE d # c
    <3>1. Touches(s, c)
      BY <1>3, <1>4, <1>5, <1>6 DEF Touches
    <3>2. Connection(d)
      BY DEF DataInv
    <3> QED
      BY <1>2, <1>4, <2>1, <3>1, <3>2, Elsewhere
  <2>2. CASE d = c
    <3>1. Reading(c)' = Reading(c)
      BY <1>4, <1>6 DEF Reading
    <3>2. Given(c)'
      <4>1. SameResult(c)
        BY <1>4, <1>5, <1>6, <3>1 DEF SameResult
      <4> QED
        BY <1>2, <1>4, <4>1, GivenKept DEF Connection
    <3>3. Fresh(c)'
      BY <1>3, <1>5 DEF Fresh
    <3>4. Processed(c)'
      <4>1. SameProcessed(c)
        BY <1>5 DEF SameProcessed
      <4> QED
        BY <1>2, <1>4, <4>1, ProcessedKept DEF Connection
    <3>5. /\ Taken(c) = 0 /\ Flows(<< >>, wire[o], 0, obufq[c], Made(c), Req(c))
      BY <1>3, <1>4 DEF Connection, Requests
    <3>6. Requests(c)'
      <4>1. Taken(c)' = Taken(c) /\ Made(c)' = Made(c) /\ Req(c)' = Req(c)
        BY <1>5 DEF Taken, Made, Req
      <4>2. \A t \in Server : peer'[t] = c <=> t = s
        BY <1>3, <1>6
      <4> QED
        BY <1>4, <1>5, <1>6, <1>7, <3>5, <4>1, <4>2 DEF Requests
    <3>7. Answering(c)'
      <4>1. answered[c] = << >> /\ Resp(c) = << >> /\ Resp(c)' = << >>
        <5>1. answered[c] = << >>
          BY <1>1, <1>2, <1>4, <3>5, NoneTaken DEF Connection
        <5> QED
          BY <1>5, <5>1 DEF Resp
      <4> SUFFICES ASSUME Reading(c)
          PROVE  \E t \in {Len(got[c]), 0} :
                   /\ Arrives(ibuf[c].data, wire[<<c, "client">>], t, << >>)
                   /\ Flows(ibuf[c].data, wire[<<c, "client">>], t, << >>, 0, << >>)
        <5>1. \A t \in Server : peer'[t] = c => t = s
          BY <1>3, <1>6
        <5> QED
          BY <1>4, <1>5, <1>6, <3>1, <4>1, <5>1 DEF Answering
      <4> DEFINE b == ibuf[c].data
                 w == wire[<<c, "client">>]
      <4>2. PICK t \in {Len(got[c]), 0} : Arrives(b, w, t, << >>)
        BY <1>4, <4>1 DEF Connection, Answering
      <4>3. b \in Seq(Cell) /\ w \in Seq(Cell) /\ t \in Nat
        <5>1. <<c, "client">> \in Ends
          BY <1>2 DEF Ends
        <5>2. Len(got[c]) \in Nat
          BY <1>1, <1>2, <1>4, Counts DEF Connection
        <5> QED
          BY <1>1, <1>4, <5>1, <5>2 DEF DataType, GoodBufs, KcnBufs
      <4> HIDE DEF b, w
      <4>4. 2 * t + Len(b) + Len(w) = 0
        <5>1. 2 * t + Len(b) <= 2 * 0 /\ (2 * t + Len(b)) + Len(w) <= 2 * 0
          BY <4>2 DEF Arrives, Carries
        <5>2. Len(b) \in Nat /\ Len(w) \in Nat
          BY <4>3
        <5> QED
          BY <4>3, <5>1, <5>2
      <4>5. Queues(<< >>, << >>, 0) /\ Put(<< >>, 0) = 0
        BY DEF Queues, Put
      <4>6. Flows(b, w, t, << >>, 0, << >>)
        BY <4>2, <4>4, <4>5 DEF Flows
      <4> QED
        BY <4>2, <4>6 DEF b, w
    <3> QED
      BY <2>2, <3>2, <3>3, <3>4, <3>6, <3>7 DEF Connection
  <2> QED
    BY <2>1, <2>2
<1> QED
  BY <1>8, <1>9, <1>10 DEF DataInv

(* kcn_net_disconnect after a callback of the user that was not content.   *)
LEMMA Drops ==
    ASSUME DataInv, LiveInv', NEW p \in Peer, pc[p] = "recv", kcn_net_disconnect(p),
           Goto(p, "loop"), peer' = peer, obufq' = obufq,
           NEW b \in GoodBufs(Cell, BUFSIZ), b.cp = b.sp, ibuf' = [ibuf EXCEPT ![p] = b],
           UNCHANGED <<got, unsent, answered, stored, result>>,
           errno' \in [Client -> Error], kcr_error' \in [Client -> Error],
           \A d \in Client : d # p => errno'[d] = errno[d] /\ kcr_error'[d] = kcr_error[d],
           p \in Client => kcr_error'[p] # "0"
    PROVE  DataInv'
<1> DEFINE w == Whose(p)
<1>1. LiveInv /\ LiveType /\ EventsAreLive /\ DataType /\ Buffers /\ ThreadsServe
  BY DEF DataInv, LiveInv, ServedOnce
<1>2. pc[p] \in Active
  BY DEF Active
<1>3. /\ w \in Client /\ w # Nobody /\ End(p) \in Ends /\ End(p)[1] = w
      /\ p \in Client => p = w /\ End(p) = <<w, "client">> /\ p \notin Server
      /\ p \notin Client => /\ p \in Server /\ peer[p] = w /\ End(p) = <<w, "server">>
                            /\ \A t \in Server : peer[t] = w => t = p
      /\ Other(End(p)) \in Ends
  BY <1>1, <1>2, Place
<1>4. /\ kn_state' = [kn_state EXCEPT ![p] = "DISCONNECTED"]
      /\ evread' = [evread EXCEPT ![p] = FALSE]
      /\ pc' = [pc EXCEPT ![p] = "loop"]
      /\ UNCHANGED <<sock, queue, wire>>
      /\ closed' = closed \cup {End(p)}
      /\ reset' \subseteq Ends
  BY <1>1, <1>2, <1>3 DEF kcn_net_disconnect, EventsAreLive, Active, DataType, Goto
<1>5. /\ kn_state'[p] = "DISCONNECTED" /\ ~ evread'[p] /\ pc'[p] = "loop" /\ ibuf'[p] = b
      /\ \A q \in Peer : q # p =>
            /\ pc'[q] = pc[q] /\ kn_state'[q] = kn_state[q] /\ evread'[q] = evread[q]
            /\ ibuf'[q] = ibuf[q]
  BY <1>1, <1>4 DEF LiveType, DataType
<1>6. DataType'
  BY <1>1, <1>4 DEF DataType
<1>7. Buffers'
  BY <1>1, <1>5 DEF Buffers
<1>8. ASSUME NEW d \in Client PROVE Connection(d)'
  <2>1. Connection(d) /\ d \in Peer /\ d \notin Server
    BY Kinds DEF DataInv
  <2>2. CASE d # w
    <3>1. Touches(p, w)
      BY <1>3, <1>4, <1>5 DEF Touches
    <3> QED
      BY <1>3, <2>1, <2>2, <3>1, Elsewhere
  <2>3. CASE d = w
    <3>1. Fresh(d)'
      BY <1>3, <1>4, <1>5, <2>1, <2>3 DEF Connection, Fresh, Active
    <3>2. Processed(d)'
      <4>1. SameProcessed(d)
        BY DEF SameProcessed
      <4> QED
        BY <2>1, <4>1, ProcessedKept DEF Connection
    <3>3. Requests(d)'
      <4>1. CASE p \in Client
        <5>1. SameRequests(d)
          BY <1>3, <1>4, <1>5, <2>3, <4>1, Kinds DEF SameRequests, SameProcessed
        <5> QED
          BY <2>1, <5>1, RequestsKept DEF Connection
      <4>2. CASE p \notin Client
        BY <1>3, <1>4, <2>3, <4>2 DEF Requests
      <4> QED
        BY <4>1, <4>2
    <3>4. Answering(d)'
      <4>1. CASE p \in Client
        <5>1. ~ Reading(d)'
          BY <1>3, <1>5, <2>3, <4>1 DEF Reading
        <5> QED
          BY <5>1 DEF Answering
      <4>2. CASE p \notin Client
        <5>1. Reading(d)' = Reading(d)
          BY <1>5, <2>1, <4>2 DEF Reading
        <5>2. SameAnswers(d)
          BY <1>3, <1>4, <1>5, <2>1, <2>3, <4>2, <5>1 DEF SameAnswers
        <5> QED
          BY <2>1, <5>2, AnsweringKept DEF Connection
      <4> QED
        BY <4>1, <4>2
    <3>5. Given(d)'
      <4>1. CASE p \in Client
        <5>1. p = d /\ pc[d] # "done" /\ kcr_error'[d] # "0" /\ ~ Reading(d)'
          BY <1>3, <1>5, <2>3, <4>1 DEF Reading
        <5> QED
          BY <2>1, <5>1 DEF Connection, Given, Begins
      <4>2. CASE p \notin Client
        <5>1. SameResult(d)
          BY <1>5, <2>1, <4>2 DEF SameResult, Reading
        <5> QED
          BY <2>1, <5>1, GivenKept DEF Connection
      <4> QED
        BY <4>1, <4>2
    <3> QED
      BY <3>1, <3>2, <3>3, <3>4, <3>5 DEF Connection
  <2> QED
    BY <2>2, <2>3
<1> QED
  BY <1>6, <1>7, <1>8 DEF DataInv

(* What a thread finds in a message that is complete.                      *)
LEMMA ThreadDecodes ==
    ASSUME DataInv, NEW s \in Server, pc[s] = "recv", ~ kcn_msg_partial(ibuf[s])
    PROVE  \E c \in Client :
              LET kb == ibuf[s]
                  D == kcn_msg_decoded(kb)
                  w == wire[<<c, "server">>]
                  t == Taken(c)
              IN  /\ peer[s] = c /\ c # s /\ c \in Peer /\ s \in Peer /\ s \notin Client
                  /\ \A x \in Server : peer[x] = c => x = s
                  /\ sock[c] = "connected" /\ <<c, "server">> \notin closed
                  /\ kn_state[s] = "ESTABLISHED" /\ pc[s] \in Active
                  /\ D \in GoodBufs(Cell, BUFSIZ) /\ D.cp = D.sp
                  /\ t \in Nat /\ t + 1 \in 1..Len(Req(c))
                  /\ kcn_msg_type(kb) = Req(c)[t + 1][1].type
                  /\ kcn_msg_body(kb) = Req(c)[t + 1][2]
                  /\ Flows(D.data, w, t + 1, obufq[c], Made(c), Req(c))
<1>1. LiveInv /\ LiveType /\ EventsAreLive /\ DataType /\ Buffers /\ ThreadsServe
  BY DEF DataInv, LiveInv, ServedOnce
<1>2. s \in Peer /\ s \notin Client /\ pc[s] \in Active
  BY Kinds DEF Active
<1>3. PICK c \in Client : peer[s] = c
  BY <1>1 DEF ThreadsServe
<1> DEFINE kb == ibuf[s]
           D == kcn_msg_decoded(kb)
           w == wire[<<c, "server">>]
           t == Taken(c)
           m == Req(c)
<1>4. /\ c # s /\ c \in Peer
      /\ \A x \in Server : peer[x] = c => x = s
      /\ sock[c] = "connected" /\ <<c, "server">> \notin closed
      /\ kn_state[s] = "ESTABLISHED"
  BY <1>1, <1>2, <1>3, Kinds DEF ThreadsServe, EventsAreLive, End
<1>5. Connection(c)
  BY DEF DataInv
<1>6. Flows(kb.data, w, t, obufq[c], Made(c), m)
  BY <1>3, <1>4, <1>5 DEF Connection, Requests
<1>7. /\ m \in Messages /\ t \in Nat /\ w \in Seq(Cell) /\ BUFSIZ \in Nat
      /\ kb \in GoodBufs(Cell, BUFSIZ) /\ kb.cp = kb.sp
  <2>1. <<c, "server">> \in Ends
    BY DEF Ends
  <2> QED
    BY <1>1, <1>2, <1>5, <2>1, ReqMessages, Counts, NetAssumption
       DEF DataType, Buffers, Connection
<1> HIDE DEF kb, D, w, t, m
<1>8. /\ D \in GoodBufs(Cell, BUFSIZ) /\ D.cp = D.sp
      /\ Len(D.data) = Len(kb.data) - 2
      /\ t + 1 \in 1..Len(m)
      /\ kcn_msg_type(kb) = m[t + 1][1].type
      /\ kcn_msg_body(kb) = m[t + 1][2]
      /\ Arrives(D.data, w, t + 1, m)
  BY <1>6, <1>7, Decoding DEF Flows, D, kb
<1>9. 2 * (t + 1) + Len(D.data) = 2 * t + Len(kb.data)
  <2>1. kb.data \in Seq(Cell)
    BY <1>7 DEF GoodBufs, KcnBufs
  <2>2. Len(kb.data) \in Nat
    BY <2>1
  <2>3. \A x \in Nat : 2 * (t + 1) + (x - 2) = 2 * t + x
    BY <1>7
  <2> QED
    BY <1>8, <2>2, <2>3
<1>10. Flows(D.data, w, t + 1, obufq[c], Made(c), m)
  BY <1>6, <1>8, <1>9 DEF Flows
<1>11. /\ peer[s] = c /\ c # s /\ c \in Peer /\ s \in Peer /\ s \notin Client
       /\ \A x \in Server : peer[x] = c => x = s
       /\ sock[c] = "connected" /\ <<c, "server">> \notin closed
       /\ kn_state[s] = "ESTABLISHED" /\ pc[s] \in Active
       /\ D \in GoodBufs(Cell, BUFSIZ) /\ D.cp = D.sp
       /\ t \in Nat /\ t + 1 \in 1..Len(m)
       /\ kcn_msg_type(kb) = m[t + 1][1].type
       /\ kcn_msg_body(kb) = m[t + 1][2]
       /\ Flows(D.data, w, t + 1, obufq[c], Made(c), m)
  BY <1>2, <1>3, <1>4, <1>7, <1>8, <1>10
<1> QED
  BY <1>11 DEF D, kb, w, t, m

(* The message a thread takes is a query if the client searches, and a     *)
(* record otherwise.                                                       *)
LEMMA ReqKinds ==
    ASSUME NEW c \in Client, NEW k \in 1..Len(Req(c))
    PROVE  /\ Job[c].kind = "query" =>
                 /\ k = 1 /\ Req(c)[k][1].type = "query"
                 /\ Req(c)[k][2] = [maxcount |-> Job[c].max % UINT8]
           /\ Job[c].kind # "query" =>
                 /\ Req(c)[k][1].type = "add" /\ k \in 1..Len(Job[c].recs)
                 /\ Req(c)[k][2] = [rec |-> Job[c].recs[k]]
<1>1. CASE Job[c].kind = "query"
  <2>1. Len(Req(c)) = 1 /\ Req(c)[1] = kcn_msg_query_encode(Job[c].max)
    BY <1>1, ReqMessages
  <2>2. k = 1
    BY <2>1
  <2>3. /\ kcn_msg_query_encode(Job[c].max)[1].type = "query"
        /\ kcn_msg_query_encode(Job[c].max)[2] = [maxcount |-> Job[c].max % UINT8]
    BY DEF kcn_msg_query_encode
  <2> QED
    BY <1>1, <2>1, <2>2, <2>3
<1>2. CASE Job[c].kind # "query"
  <2>1. k \in 1..Len(Job[c].recs) /\ Req(c)[k] = kcn_msg_add_encode(Job[c].recs[k])
    BY <1>2, ReqMessages
  <2> QED
    BY <1>2, <2>1 DEF kcn_msg_add_encode
<1> QED
  BY <1>1, <1>2

(* kcndb_server_add_process.                                               *)
LEMMA DataAdds ==
    ASSUME DataInv, LiveInv', NEW s \in Server, AddProcess(s)
    PROVE  DataInv'
<1>1. LiveInv /\ LiveType /\ DataType /\ Buffers
  BY DEF DataInv, LiveInv
<1>2. pc[s] = "recv" /\ ~ kcn_msg_partial(ibuf[s]) /\ kcn_msg_type(ibuf[s]) = "add"
  BY DEF AddProcess, Received, At
<1> DEFINE kb == ibuf[s]
           D == kcn_msg_decoded(kb)
<1>3. PICK c \in Client :
         /\ peer[s] = c /\ c # s /\ c \in Peer /\ s \in Peer /\ s \notin Client
         /\ \A x \in Server : peer[x] = c => x = s
         /\ sock[c] = "connected" /\ <<c, "server">> \notin closed
         /\ kn_state[s] = "ESTABLISHED" /\ pc[s] \in Active
         /\ D \in GoodBufs(Cell, BUFSIZ) /\ D.cp = D.sp
         /\ Taken(c) \in Nat /\ Taken(c) + 1 \in 1..Len(Req(c))
         /\ kcn_msg_type(kb) = Req(c)[Taken(c) + 1][1].type
         /\ kcn_msg_body(kb) = Req(c)[Taken(c) + 1][2]
         /\ Flows(D.data, wire[<<c, "server">>], Taken(c) + 1, obufq[c], Made(c), Req(c))
  BY <1>2, ThreadDecodes
<1>4. /\ Connection(c) /\ Processed(c) /\ answered[c] = << >>
      /\ Job[c].kind # "query" /\ Taken(c) + 1 \in 1..Len(Job[c].recs)
      /\ kcn_msg_body(kb).rec = Job[c].recs[Taken(c) + 1]
  <2>1. Connection(c) /\ Processed(c)
    BY DEF DataInv, Connection
  <2>2. Job[c].kind # "query"
    BY <1>2, <1>3, ReqKinds
  <2>3. /\ Taken(c) + 1 \in 1..Len(Job[c].recs)
        /\ Req(c)[Taken(c) + 1][2] = [rec |-> Job[c].recs[Taken(c) + 1]]
    BY <1>3, <2>2, ReqKinds
  <2>4. answered[c] = << >>
    BY <2>1, <2>2 DEF Processed
  <2>5. kcn_msg_body(kb).rec = Job[c].recs[Taken(c) + 1]
    BY <1>3, <2>3
  <2> QED
    BY <2>1, <2>2, <2>3, <2>4, <2>5
<1>5. /\ ibuf' = [ibuf EXCEPT ![s] = D] /\ obufq' = obufq /\ peer' = peer
      /\ UNCHANGED <<errno, kcr_error, got, unsent, result, answered>>
  BY <1>1, <1>3 DEF AddProcess, Decode, client, DataType
<1>6. CASE kcn_net_disconnect(s) /\ Goto(s, "loop") /\ UNCHANGED stored
  <2>1. /\ errno' \in [Client -> Error] /\ kcr_error' \in [Client -> Error]
        /\ \A d \in Client : d # s => errno'[d] = errno[d] /\ kcr_error'[d] = kcr_error[d]
        /\ s \in Client => kcr_error'[s] # "0"
    BY <1>1, <1>3, <1>5 DEF DataType
  <2> HIDE DEF D
  <2> QED
    BY <1>2, <1>3, <1>5, <1>6, <2>1, Drops
<1>7. CASE /\ stored' = [stored EXCEPT ![c] = Append(stored[c], Job[c].recs[Taken(c) + 1])]
           /\ UNCHANGED <<net, tcp, pc>>
  <2> DEFINE r == Job[c].recs
             t == Taken(c)
             v == Append(stored[c], r[t + 1])
  <2>1. /\ r \in Seq(Rec) /\ t + 1 \in 1..Len(r) /\ stored[c] \in Seq(Rec)
        /\ Len(stored[c]) \in Nat /\ t = Len(stored[c])
    <3>1. stored[c] \in Seq(Rec) /\ Len(answered[c]) = 0 /\ t = Len(answered[c]) + Len(stored[c])
          /\ Len(stored[c]) \in Nat
      BY <1>1, <1>4, Counts DEF DataType
    <3> QED
      BY <1>4, <3>1, ReqMessages
  <2>2. r[t + 1] \in Rec
    BY <2>1
  <2>3. /\ v \in Seq(Rec) /\ Len(v) = t + 1
        /\ \A k \in 1..t + 1 : v[k] = IF k = t + 1 THEN r[t + 1] ELSE stored[c][k]
    BY <2>1, <2>2
  <2> HIDE DEF r, t, v, D
  <2>4. /\ UNCHANGED <<kn_state, evread, pc, sock, wire, closed, reset>>
        /\ stored'[c] = v /\ stored' = [stored EXCEPT ![c] = v]
        /\ \A d \in Client : d # c => stored'[d] = stored[d]
        /\ ibuf'[s] = D /\ \A q \in Peer : q # s => ibuf'[q] = ibuf[q]
    BY <1>1, <1>3, <1>5, <1>7 DEF DataType, net, tcp, v, r, t
  <2>5. DataType'
    BY <1>1, <1>3, <1>5, <2>3, <2>4 DEF DataType
  <2>6. Buffers'
    BY <1>1, <1>2, <1>3, <2>4 DEF Buffers
  <2>7. ASSUME NEW d \in Client PROVE Connection(d)'
    <3>1. CASE d # c
      <4>1. Touches(s, c)
        BY <1>3, <1>5, <2>4 DEF Touches
      <4>2. Connection(d)
        BY DEF DataInv
      <4> QED
        BY <1>3, <3>1, <4>1, <4>2, Elsewhere
    <3>2. CASE d = c
      <4>1. Reading(c)' = Reading(c)
        BY <2>4 DEF Reading
      <4>2. Given(c)'
        <5>1. SameResult(c)
          BY <1>5, <2>4, <4>1 DEF SameResult
        <5> QED
          BY <1>4, <5>1, GivenKept DEF Connection
      <4>3. Fresh(c)'
        BY <1>3, <2>4 DEF Fresh
      <4>4. Answering(c)'
        <5>1. SameAnswers(c)
          BY <1>3, <1>5, <2>4, <4>1 DEF SameAnswers
        <5> QED
          BY <1>4, <5>1, AnsweringKept DEF Connection
      <4>5. Processed(c)'
        <5>1. Len(v) <= Len(r) /\ \A k \in 1..Len(v) : v[k] = r[k]
          <6>1. \A k \in 1..Len(stored[c]) : stored[c][k] = r[k]
            BY <1>4 DEF Processed, r
          <6>2. \A k \in 1..t + 1 : k = t + 1 \/ k \in 1..Len(stored[c])
            BY <2>1
          <6>3. t + 1 <= Len(r)
            BY <2>1
          <6> QED
            BY <2>3, <6>1, <6>2, <6>3
        <5> QED
          BY <1>4, <1>5, <2>4, <5>1 DEF Processed, r
      <4>6. Requests(c)'
        <5>1. Made(c)' = Made(c) /\ Req(c)' = Req(c)
          BY <1>5 DEF Made, Req
        <5>2. Taken(c)' = t + 1
          <6>1. Len(answered[c]) = 0 /\ Taken(c)' = Len(answered[c]) + Len(v)
            BY <1>4, <1>5, <2>4 DEF Taken
          <6> QED
            BY <2>1, <2>3, <6>1
        <5>3. \A x \in Server : peer'[x] = c <=> x = s
          BY <1>3, <1>5
        <5> QED
          BY <1>3, <1>5, <2>4, <5>1, <5>2, <5>3 DEF Requests, t
      <4> QED
        BY <3>2, <4>2, <4>3, <4>4, <4>5, <4>6 DEF Connection
    <3> QED
      BY <3>1, <3>2
  <2> QED
    BY <2>5, <2>6, <2>7 DEF DataInv
<1>8. \/ kcn_net_disconnect(s) /\ Goto(s, "loop") /\ UNCHANGED stored
      \/ /\ stored' = [stored EXCEPT ![c] = Append(stored[c], Job[c].recs[Taken(c) + 1])]
         /\ UNCHANGED <<net, tcp, pc>>
  BY <1>1, <1>3, <1>4 DEF AddProcess, ReadCbOut, DataType
<1> QED
  BY <1>6, <1>7, <1>8

(* What the database may answer.                                           *)
LEMMA AnswersType ==
    ASSUME NEW max \in Nat, NEW a \in Answers(max)
    PROVE  a \in [locs : Seq(Loc \cup {NoLoc}), error : Errno]
<1> DEFINE N == IF Len(Matches) < max THEN Len(Matches) ELSE max
           L == Loc \cup {NoLoc}
           first(k) == SubSeq(Matches, 1, k)
<1>1. Matches \in Seq(Loc) /\ Len(Matches) \in Nat
  BY JobAssumption
<1>2. N \in Nat /\ N <= Len(Matches)
  BY <1>1
<1>3. ASSUME NEW k \in 0..N PROVE first(k) \in Seq(L) /\ Len(first(k)) = k
  <2>1. k \in Nat /\ k <= Len(Matches)
    BY <1>1, <1>2
  <2>2. first(k) \in Seq(Loc) /\ Len(first(k)) = k
    BY <1>1, <2>1, PartOfSeq
  <2> HIDE DEF first
  <2> QED
    BY <2>2
<1>4. N \in 0..N
  BY <1>2
<1>5. "ESRCH" \in Errno /\ "0" \in Errno /\ "EIO" \in Errno /\ "EAGAIN" \in Errno
      /\ << >> \in Seq(L)
  BY MsgAssumption, JobAssumption
<1>6. ASSUME NEW k \in 1..N PROVE [first(N) EXCEPT ![k] = NoLoc] \in Seq(L)
  <2> DEFINE f == first(N)
             v == [f EXCEPT ![k] = NoLoc]
  <2>1. f \in Seq(L) /\ Len(f) = N /\ NoLoc \in L
    BY <1>3, <1>4
  <2> HIDE DEF f, L, N
  <2>2. f \in [1..N -> L]
    BY <2>1
  <2>3. v \in [1..N -> L]
    BY <2>1, <2>2
  <2>4. v \in Seq(L)
    <3> HIDE DEF v
    <3> QED
      BY <1>2, <2>3
  <2> QED
    BY <2>4 DEF f, L, N
<1>7. a \in  {[locs |-> first(N), error |-> IF N = 0 THEN "ESRCH" ELSE "0"]}
        \cup {[locs |-> first(k), error |-> "EIO"] :
                  k \in IF "search" \in Faults THEN 0..N ELSE {}}
        \cup {[locs |-> << >>, error |-> "EAGAIN"] : f \in Faults \cap {"search"}}
        \cup {[locs |-> [first(N) EXCEPT ![k] = NoLoc], error |-> "0"] :
                  k \in IF "nameless" \in Faults THEN 1..N ELSE {}}
  BY DEF Answers
<1> HIDE DEF N, first, L
<1> DEFINE R == [locs : Seq(L), error : Errno]
<1>8. \A l \in Seq(L), x \in Errno : [locs |-> l, error |-> x] \in R
  OBVIOUS
<1> HIDE DEF R
<1>9. a \in R
  <2>1. CASE a = [locs |-> first(N), error |-> IF N = 0 THEN "ESRCH" ELSE "0"]
    BY <1>3, <1>4, <1>5, <1>8, <2>1
  <2>2. CASE \E k \in 0..N : a = [locs |-> first(k), error |-> "EIO"]
    BY <1>3, <1>5, <1>8, <2>2
  <2>3. CASE a = [locs |-> << >>, error |-> "EAGAIN"]
    BY <1>5, <1>8, <2>3
  <2>4. CASE \E k \in 1..N : a = [locs |-> [first(N) EXCEPT ![k] = NoLoc], error |-> "0"]
    BY <1>5, <1>6, <1>8, <2>4
  <2>5. \/ a = [locs |-> first(N), error |-> IF N = 0 THEN "ESRCH" ELSE "0"]
        \/ \E k \in 0..N : a = [locs |-> first(k), error |-> "EIO"]
        \/ a = [locs |-> << >>, error |-> "EAGAIN"]
        \/ \E k \in 1..N : a = [locs |-> [first(N) EXCEPT ![k] = NoLoc], error |-> "0"]
    BY <1>7
  <2> QED
    BY <2>1, <2>2, <2>3, <2>4, <2>5
<1> QED
  BY <1>9 DEF R, L

(* kcndb_server_query_process: one answer, to the client that asked.       *)
LEMMA DataSearches ==
    ASSUME DataInv, LiveInv', NEW s \in Server, Search(s)
    PROVE  DataInv'
<1>1. LiveInv /\ LiveType /\ DataType /\ Buffers /\ EventsAreLive
  BY DEF DataInv, LiveInv
<1>2. pc[s] = "recv" /\ ~ kcn_msg_partial(ibuf[s]) /\ kcn_msg_type(ibuf[s]) = "query"
  BY DEF Search, Received, At
<1> DEFINE kb == ibuf[s]
           D == kcn_msg_decoded(kb)
<1>3. PICK c \in Client :
         /\ peer[s] = c /\ c # s /\ c \in Peer /\ s \in Peer /\ s \notin Client
         /\ \A x \in Server : peer[x] = c => x = s
         /\ sock[c] = "connected" /\ <<c, "server">> \notin closed
         /\ kn_state[s] = "ESTABLISHED" /\ pc[s] \in Active
         /\ D \in GoodBufs(Cell, BUFSIZ) /\ D.cp = D.sp
         /\ Taken(c) \in Nat /\ Taken(c) + 1 \in 1..Len(Req(c))
         /\ kcn_msg_type(kb) = Req(c)[Taken(c) + 1][1].type
         /\ kcn_msg_body(kb) = Req(c)[Taken(c) + 1][2]
         /\ Flows(D.data, wire[<<c, "server">>], Taken(c) + 1, obufq[c], Made(c), Req(c))
  BY <1>2, ThreadDecodes
<1>4. Connection(c) /\ Processed(c) /\ Given(c)
  BY DEF DataInv, Connection
<1>5. Job[c].kind = "query"
  BY <1>2, <1>3, ReqKinds
<1>6. Taken(c) + 1 = 1 /\ kcn_msg_body(kb) = [maxcount |-> Job[c].max % UINT8]
  BY <1>3, <1>5, ReqKinds
<1>7. /\ Taken(c) = 0 /\ kcn_msg_body(kb).maxcount = Job[c].max % UINT8
      /\ answered[c] = << >> /\ stored[c] = << >> /\ got[c] = << >> /\ Resp(c) = << >>
  <2>1. Taken(c) = 0
    BY <1>3, <1>6
  <2>2. answered[c] = << >> /\ stored[c] = << >>
    BY <1>1, <1>4, <2>1, NoneTaken
  <2> QED
    BY <1>4, <1>6, <2>1, <2>2 DEF Given, Begins, Resp
<1>8. PICK a \in Answers(Job[c].max % UINT8) :
         /\ kcn_net_write(s, Responses(a))
         /\ answered' = [answered EXCEPT ![c] = Append(@, a)]
  BY <1>3, <1>7 DEF Search
<1> DEFINE A == [locs : Seq(Loc \cup {NoLoc}), error : Errno]
           m == Responses(a)
           q == obufq[s]
<1>9. a \in A /\ m \in Messages
  <2>1. Job[c].max % UINT8 \in Nat
    BY ReqMessages, Encoded
  <2>2. a \in A
    BY <1>8, <2>1, AnswersType
  <2> QED
    BY <2>2, ResponsesOf
<1>10. m \in Seq(Seq(Cell) \ {<< >>}) /\ Len(m) \in Nat
       /\ Flows(<< >>, << >>, 0, m, Len(m), m)
  BY <1>9, StartFlows
<1> HIDE DEF A, m, q, D
<1>11. /\ answered' = [answered EXCEPT ![c] = <<a>>]
       /\ obufq' = [obufq EXCEPT ![s] = q \o m]
       /\ ibuf' = [ibuf EXCEPT ![s] = D]
       /\ UNCHANGED <<kn_state, evread, pc, sock, wire, closed, reset, peer>>
       /\ UNCHANGED <<errno, kcr_error, got, unsent, result, stored>>
  <2>1. Append(<< >>, a) = <<a>>
    OBVIOUS
  <2>2. answered' = [answered EXCEPT ![c] = <<a>>]
    BY <1>7, <1>8, <2>1
  <2> QED
    BY <1>1, <1>3, <1>8, <2>2
       DEF Search, Decode, kcn_net_write, client, tcp, DataType, q, m, D
<1>12. /\ obufq'[s] = q \o m /\ ibuf'[s] = D /\ answered'[c] = <<a>>
       /\ \A p \in Peer : p # s => obufq'[p] = obufq[p] /\ ibuf'[p] = ibuf[p]
       /\ \A d \in Client : d # c => answered'[d] = answered[d]
  BY <1>1, <1>3, <1>11 DEF DataType
<1>13. q \o m \in Seq(Seq(Cell) \ {<< >>}) /\ q \in Seq(Seq(Cell) \ {<< >>})
  <2> DEFINE S == Seq(Cell) \ {<< >>}
  <2>1. q \in Seq(S) /\ m \in Seq(S)
    BY <1>1, <1>3, <1>10 DEF DataType, q
  <2> HIDE DEF S
  <2>2. q \o m \in Seq(S)
    BY <2>1
  <2> QED
    BY <2>1, <2>2 DEF S
<1>14. DataType'
  <2>1. answered' \in [Client -> Seq(A)]
    <3>1. answered \in [Client -> Seq(A)]
      BY <1>1 DEF DataType, A
    <3>2. <<a>> \in Seq(A)
      BY <1>9
    <3> QED
      BY <1>11, <3>1, <3>2
  <2> QED
    BY <1>1, <1>3, <1>11, <1>13, <2>1 DEF DataType, A
<1>15. Buffers'
  BY <1>1, <1>2, <1>3, <1>11, <1>12 DEF Buffers
<1>16. ASSUME NEW d \in Client PROVE Connection(d)'
  <2>1. CASE d # c
    <3>1. Touches(s, c)
      BY <1>3, <1>11, <1>12 DEF Touches
    <3>2. Connection(d)
      BY DEF DataInv
    <3> QED
      BY <1>3, <2>1, <3>1, <3>2, Elsewhere
  <2>2. CASE d = c
    <3>1. Reading(c)' = Reading(c)
      BY <1>11 DEF Reading
    <3>2. Fresh(c)'
      BY <1>3, <1>11 DEF Fresh
    <3>3. Processed(c)'
      <4>1. Len(<<a>>) = 1 /\ <<a>>[1] = a
        OBVIOUS
      <4> QED
        BY <1>4, <1>5, <1>8, <1>11, <1>12, <4>1 DEF Processed
    <3>4. Given(c)'
      <4>1. Len(<< >>) = 0 /\ \A k \in 1..0 : FALSE
        OBVIOUS
      <4>2. 0 <= Len(a.locs) /\ answered'[c][1] = a /\ answered'[c] # << >>
        BY <1>9, <1>12 DEF A
      <4> QED
        BY <1>4, <1>7, <1>11, <3>1, <4>1, <4>2 DEF Given, Begins
    <3>5. Requests(c)'
      <4>1. Made(c)' = Made(c) /\ Req(c)' = Req(c) /\ Taken(c)' = Taken(c) + 1
        <5>1. Len(<<a>>) = 1 /\ Len(<< >>) = 0
          OBVIOUS
        <5>2. Made(c)' = Made(c) /\ Req(c)' = Req(c)
          BY <1>11 DEF Made, Req
        <5>3. Taken(c)' = 1
          <6>1. Taken(c)' = Len(answered'[c]) + Len(stored'[c])
            BY DEF Taken
          <6>2. answered'[c] = <<a>> /\ stored'[c] = << >>
            BY <1>7, <1>11, <1>12
          <6> QED
            BY <5>1, <6>1, <6>2
        <5> QED
          BY <1>7, <5>2, <5>3
      <4>2. \A x \in Server : peer'[x] = c <=> x = s
        BY <1>3, <1>11
      <4> QED
        BY <1>3, <1>11, <1>12, <4>1, <4>2 DEF Requests
    <3>6. Answering(c)'
      <4> DEFINE b == ibuf[c].data
                 w == wire[<<c, "client">>]
      <4>1. Resp(c)' = m /\ Len(got'[c]) = 0
        <5>1. <<a>>[1] = a /\ <<a>> # << >> /\ Len(<< >>) = 0
          OBVIOUS
        <5> QED
          BY <1>7, <1>11, <1>12, <5>1 DEF Resp, m
      <4> SUFFICES ASSUME Reading(c)
          PROVE  Flows(b, w, 0, q \o m, Len(m), m)
        <5>1. \A t \in Server : peer[t] = c => t = s
          BY <1>3
        <5>2. /\ ibuf'[c].data = b /\ wire'[<<c, "client">>] = w /\ obufq'[s] = q \o m
              /\ \A t \in Server : peer'[t] = c => t = s
          BY <1>3, <1>11, <1>12, <5>1
        <5> HIDE DEF b, w
        <5>3. Reading(c) =>
                 /\ Arrives(b, w, 0, m)
                 /\ \A t \in Server : peer'[t] = c => Flows(b, w, 0, obufq'[t], Len(m), m)
          BY <5>2 DEF Flows
        <5> QED
          BY <3>1, <4>1, <5>2, <5>3 DEF Answering
      <4>2. Flows(b, w, 0, q, 0, << >>)
        <5>1. Len(<< >>) = 0
          OBVIOUS
        <5> QED
          BY <1>3, <1>4, <1>7, <5>1 DEF Connection, Answering, q
      <4>3. b \in Seq(Cell) /\ w \in Seq(Cell)
        <5>1. <<c, "client">> \in Ends
          BY DEF Ends
        <5> QED
          BY <1>1, <1>3, <5>1 DEF DataType, GoodBufs, KcnBufs
      <4> HIDE DEF b, w
      <4>4. q = << >> /\ b = << >> /\ w = << >>
        <5>1. Len(q) <= 0 /\ 2 * 0 + Len(b) <= 2 * 0 /\ (2 * 0 + Len(b)) + Len(w) <= 2 * 0
          BY <4>2 DEF Flows, Queues, Arrives, Carries
        <5>2. Len(b) = 0 /\ Len(w) = 0
          BY <4>3, <5>1
        <5>3. q = << >>
          BY <1>13, <5>1
        <5> QED
          BY <4>3, <5>2, <5>3
      <4>5. << >> \o m = m
        BY <1>10
      <4> QED
        BY <1>10, <4>4, <4>5
    <3> QED
      BY <2>2, <3>2, <3>3, <3>4, <3>5, <3>6 DEF Connection
  <2> QED
    BY <2>1, <2>2
<1> QED
  BY <1>14, <1>15, <1>16 DEF DataInv

(* What a client finds in a message that is complete: the next of the      *)
(* responses.                                                              *)
LEMMA ClientDecodes ==
    ASSUME DataInv, NEW c \in Client, pc[c] = "recv", ~ kcn_msg_partial(ibuf[c])
    PROVE  LET kb == ibuf[c]
               D == kcn_msg_decoded(kb)
               b == kcn_msg_body(kb)
               a == answered[c][1]
               w == wire[<<c, "client">>]
               m == Resp(c)
               t == Len(got[c])
           IN  /\ D \in GoodBufs(Cell, BUFSIZ) /\ D.cp = D.sp
               /\ answered[c] # << >> /\ t \in Nat /\ t <= Len(a.locs)
               /\ a \in [locs : Seq(Loc \cup {NoLoc}), error : Errno]
               /\ m \in Messages /\ Len(m) = Len(a.locs) + 1
               /\ t < Len(a.locs) => b.error = "0" /\ b.loc = a.locs[t + 1]
               /\ t = Len(a.locs) => b.error = a.error /\ b.loc = NoLoc
               /\ Arrives(D.data, w, t + 1, m)
               /\ \A s \in Server : peer[s] = c /\ kn_state[s] # "DISCONNECTED" =>
                     Flows(D.data, w, t + 1, obufq[s], Len(m), m)
<1> DEFINE kb == ibuf[c]
           D == kcn_msg_decoded(kb)
           b == kcn_msg_body(kb)
           a == answered[c][1]
           w == wire[<<c, "client">>]
           m == Resp(c)
           n == Len(got[c])
<1>1. LiveInv /\ EventsAreLive /\ DataType /\ Buffers /\ Connection(c) /\ c \in Peer
  BY Kinds DEF DataInv, LiveInv
<1>2. Reading(c)
  BY <1>1 DEF Reading, Active, EventsAreLive
<1>3. PICK t \in {n, Len(m)} :
         /\ Arrives(kb.data, w, t, m)
         /\ \A s \in Server : peer[s] = c /\ kn_state[s] # "DISCONNECTED" =>
               Flows(kb.data, w, t, obufq[s], Len(m), m)
  BY <1>1, <1>2 DEF Connection, Answering
<1>4. /\ m \in Messages /\ w \in Seq(Cell) /\ BUFSIZ \in Nat
      /\ kb \in GoodBufs(Cell, BUFSIZ) /\ kb.cp = kb.sp
      /\ n \in Nat /\ Len(m) \in Nat /\ t \in Nat
      /\ answered[c] = << >> => Len(m) = 0
  <2>1. <<c, "client">> \in Ends
    BY DEF Ends
  <2>2. m \in Messages /\ n \in Nat /\ (answered[c] = << >> => Len(m) = 0)
    BY <1>1, RespMessages, Counts DEF Connection
  <2>3. Len(m) \in Nat
    BY <2>2, StartFlows
  <2> QED
    BY <1>1, <1>3, <2>1, <2>2, <2>3, NetAssumption DEF DataType, Buffers
<1> HIDE DEF kb, D, b, w, n
<1>5. /\ D \in GoodBufs(Cell, BUFSIZ) /\ D.cp = D.sp
      /\ Len(D.data) = Len(kb.data) - 2
      /\ t + 1 \in 1..Len(m)
      /\ b = m[t + 1][2]
      /\ Arrives(D.data, w, t + 1, m)
  <2> HIDE DEF m
  <2> QED
    BY <1>3, <1>4, Decoding DEF D, kb, b
<1>6. t = n /\ answered[c] # << >> /\ t < Len(m)
  <2> HIDE DEF m
  <2>1. t # Len(m) /\ t < Len(m) /\ Len(m) # 0
    BY <1>4, <1>5
  <2> QED
    BY <1>3, <1>4, <2>1
<1>7. /\ a \in [locs : Seq(Loc \cup {NoLoc}), error : Errno]
      /\ m = Responses(a)
  <2> DEFINE A == [locs : Seq(Loc \cup {NoLoc}), error : Errno]
  <2>1. answered[c] \in Seq(A)
    BY <1>1 DEF DataType
  <2> HIDE DEF A
  <2>2. a \in A
    BY <1>6, <2>1
  <2> QED
    BY <1>6, <2>2 DEF Resp, A
<1>8. /\ Len(m) = Len(a.locs) + 1
      /\ \A k \in 1..Len(a.locs) : m[k] = kcn_msg_response_encode("0", a.locs[k])
      /\ m[Len(a.locs) + 1] = kcn_msg_response_encode(a.error, NoLoc)
  BY <1>7, ResponsesOf
<1>9. Len(a.locs) \in Nat
  BY <1>7
<1>10. \A e, l : kcn_msg_response_encode(e, l)[2] = [error |-> e, loc |-> l]
  BY DEF kcn_msg_response_encode
<1> HIDE DEF m, a
<1>11. t <= Len(a.locs) /\ (t < Len(a.locs) => t + 1 \in 1..Len(a.locs))
  BY <1>4, <1>6, <1>8, <1>9
<1>12. t < Len(a.locs) => b.error = "0" /\ b.loc = a.locs[t + 1]
  <2> SUFFICES ASSUME t < Len(a.locs) PROVE b.error = "0" /\ b.loc = a.locs[t + 1]
    OBVIOUS
  <2>1. m[t + 1] = kcn_msg_response_encode("0", a.locs[t + 1])
    BY <1>8, <1>11
  <2>2. b = [error |-> "0", loc |-> a.locs[t + 1]]
    BY <1>5, <1>10, <2>1
  <2> QED
    BY <2>2
<1>13. t = Len(a.locs) => b.error = a.error /\ b.loc = NoLoc
  <2> SUFFICES ASSUME t = Len(a.locs) PROVE b.error = a.error /\ b.loc = NoLoc
    OBVIOUS
  <2>1. m[t + 1] = kcn_msg_response_encode(a.error, NoLoc)
    BY <1>8
  <2>2. b = [error |-> a.error, loc |-> NoLoc]
    BY <1>5, <1>10, <2>1
  <2> QED
    BY <2>2
<1>14. ASSUME NEW s \in Server, peer[s] = c, kn_state[s] # "DISCONNECTED"
       PROVE  Flows(D.data, w, t + 1, obufq[s], Len(m), m)
  <2>1. Flows(kb.data, w, t, obufq[s], Len(m), m)
    BY <1>3, <1>14
  <2>2. 2 * (t + 1) + Len(D.data) = 2 * t + Len(kb.data)
    <3>1. kb.data \in Seq(Cell)
      BY <1>4 DEF GoodBufs, KcnBufs
    <3>2. Len(kb.data) \in Nat
      BY <3>1
    <3>3. \A x \in Nat : 2 * (t + 1) + (x - 2) = 2 * t + x
      BY <1>4
    <3> QED
      BY <1>5, <3>2, <3>3
  <2> QED
    BY <1>5, <2>1, <2>2 DEF Flows
<1>15. /\ D \in GoodBufs(Cell, BUFSIZ) /\ D.cp = D.sp
       /\ answered[c] # << >> /\ n \in Nat /\ n <= Len(a.locs)
       /\ a \in [locs : Seq(Loc \cup {NoLoc}), error : Errno]
       /\ m \in Messages /\ Len(m) = Len(a.locs) + 1
       /\ n < Len(a.locs) => b.error = "0" /\ b.loc = a.locs[n + 1]
       /\ n = Len(a.locs) => b.error = a.error /\ b.loc = NoLoc
       /\ Arrives(D.data, w, n + 1, m)
       /\ \A s \in Server : peer[s] = c /\ kn_state[s] # "DISCONNECTED" =>
             Flows(D.data, w, n + 1, obufq[s], Len(m), m)
  BY <1>4, <1>5, <1>6, <1>7, <1>8, <1>11, <1>12, <1>13, <1>14
<1> QED
  BY <1>15 DEF kb, D, b, a, w, m, n

(* kcn_client_read goes on, with nothing left to decode, or has all.       *)
LEMMA ClientWaits ==
    ASSUME DataInv, LiveInv', NEW c \in Client, pc[c] = "recv", Goto(c, "loop"),
           NEW b \in GoodBufs(Cell, BUFSIZ), b.cp = b.sp, ibuf' = [ibuf EXCEPT ![c] = b],
           NEW er \in BOOLEAN, evread' = [evread EXCEPT ![c] = er], kn_state' = kn_state,
           NEW x \in Error, errno' = [errno EXCEPT ![c] = x],
           kcr_error' = [kcr_error EXCEPT ![c] = x],
           UNCHANGED <<obufq, wire, sock, closed, reset, peer>>,
           UNCHANGED <<got, unsent, answered, stored, result>>,
           IF er
           THEN /\ x # "0" /\ Len(b.data) < 2
                /\ \E t \in {Len(got[c]), Len(Resp(c))} :
                      /\ Arrives(b.data, wire[<<c, "client">>], t, Resp(c))
                      /\ \A s \in Server : peer[s] = c /\ kn_state[s] # "DISCONNECTED" =>
                            Flows(b.data, wire[<<c, "client">>], t, obufq[s],
                                  Len(Resp(c)), Resp(c))
           ELSE x = "0" /\ got[c] # << >> => EndsAfter(answered[c][1], Len(got[c]))
    PROVE  DataInv'
<1>1. /\ LiveInv /\ LiveType /\ EventsAreLive /\ DataType /\ Buffers
      /\ c \in Peer /\ c \notin Server /\ Connection(c) /\ kn_state[c] = "ESTABLISHED"
  BY Kinds DEF DataInv, LiveInv, EventsAreLive
<1>2. /\ pc'[c] = "loop" /\ ibuf'[c] = b /\ evread'[c] = er
      /\ errno'[c] = x /\ kcr_error'[c] = x
      /\ \A q \in Peer : q # c => pc'[q] = pc[q] /\ ibuf'[q] = ibuf[q] /\ evread'[q] = evread[q]
      /\ \A d \in Client : d # c => errno'[d] = errno[d] /\ kcr_error'[d] = kcr_error[d]
  BY <1>1 DEF LiveType, DataType, Goto
<1>3. DataType'
  BY <1>1 DEF DataType
<1>4. Buffers'
  BY <1>1, <1>2 DEF Buffers
<1>5. ASSUME NEW d \in Client PROVE Connection(d)'
  <2>1. CASE d # c
    <3>1. Touches(c, c)
      BY <1>1, <1>2 DEF Touches
    <3>2. Connection(d)
      BY DEF DataInv
    <3> QED
      BY <1>1, <2>1, <3>1, <3>2, Elsewhere
  <2>2. CASE d = c
    <3>1. Fresh(c)'
      BY <1>1, <1>2 DEF Connection, Fresh, Active
    <3>2. Processed(c)'
      <4>1. SameProcessed(c)
        BY DEF SameProcessed
      <4> QED
        BY <1>1, <4>1, ProcessedKept DEF Connection
    <3>3. Requests(c)'
      <4>1. SameRequests(c)
        BY <1>1, <1>2, Kinds DEF SameRequests, SameProcessed
      <4> QED
        BY <1>1, <4>1, RequestsKept DEF Connection
    <3>4. Reading(c)' => er
      BY <1>1, <1>2 DEF Reading
    <3>5. Answering(c)'
      <4>1. Resp(c)' = Resp(c)
        BY DEF Resp
      <4> QED
        BY <1>2, <3>4, <4>1 DEF Answering
    <3>6. Given(c)'
      <4>1. Begins(c)' /\ result'[c] # "ok"
        BY <1>1 DEF Connection, Given, Begins
      <4> QED
        BY <1>2, <3>4, <4>1 DEF Given
    <3> QED
      BY <2>2, <3>1, <3>2, <3>3, <3>5, <3>6 DEF Connection
  <2> QED
    BY <2>1, <2>2
<1> QED
  BY <1>3, <1>4, <1>5 DEF DataInv


(* A client that has received a part of a message waits for the rest.      *)
LEMMA ReceivesPart ==
    ASSUME DataInv, LiveInv', NEW c \in Client, pc[c] = "recv",
           NEW b \in GoodBufs(Cell, BUFSIZ), b = ibuf[c], kcn_msg_partial(b),
           ibuf' = [ibuf EXCEPT ![c] = b], NEW x \in Error, x = "EAGAIN",
           errno' = [errno EXCEPT ![c] = x],
           kcr_error' = [kcr_error EXCEPT ![c] = x],
           ReadCbOut(c, x), UNCHANGED <<obufq, peer>>,
           UNCHANGED <<got, unsent, result, database>>
    PROVE  DataInv'
<1>1. /\ LiveInv /\ LiveType /\ EventsAreLive /\ DataType /\ Buffers
      /\ Connection(c) /\ c \in Peer
  BY Kinds DEF DataInv, LiveInv
<1>2. Reading(c)
  BY <1>1 DEF Reading, Active, EventsAreLive
<1>3. b.cp = b.sp /\ Len(b.data) < 2
  <2>1. b.cp = b.sp
    BY <1>1 DEF Buffers
  <2> QED
    BY <2>1, PartOfMessage, NetAssumption
<1>4. PICK er \in BOOLEAN : er = TRUE
  OBVIOUS
<1>5. /\ Goto(c, "loop") /\ evread' = [evread EXCEPT ![c] = er] /\ kn_state' = kn_state
      /\ UNCHANGED <<obufq, wire, sock, closed, reset, peer>>
      /\ UNCHANGED <<got, unsent, answered, stored, result>>
  BY <1>4 DEF ReadCbOut, kcn_net_read_enable, tcp, database
<1>6. \E t \in {Len(got[c]), Len(Resp(c))} :
         /\ Arrives(b.data, wire[<<c, "client">>], t, Resp(c))
         /\ \A s \in Server : peer[s] = c /\ kn_state[s] # "DISCONNECTED" =>
               Flows(b.data, wire[<<c, "client">>], t, obufq[s], Len(Resp(c)), Resp(c))
  BY <1>1, <1>2 DEF Connection, Answering
<1>7. IF er
      THEN /\ x # "0" /\ Len(b.data) < 2
           /\ \E t \in {Len(got[c]), Len(Resp(c))} :
                 /\ Arrives(b.data, wire[<<c, "client">>], t, Resp(c))
                 /\ \A s \in Server : peer[s] = c /\ kn_state[s] # "DISCONNECTED" =>
                       Flows(b.data, wire[<<c, "client">>], t, obufq[s],
                             Len(Resp(c)), Resp(c))
      ELSE x = "0" /\ got[c] # << >> => EndsAfter(answered[c][1], Len(got[c]))
  BY <1>3, <1>4, <1>6
<1> QED
  BY <1>3, <1>5, <1>7, ClientWaits

(* A client adds a locator, and looks for the next message.                *)
LEMMA ReceivesLocator ==
    ASSUME DataInv, LiveInv', NEW c \in Client, pc[c] = "recv",
           ~ kcn_msg_partial(ibuf[c]), Wanted(c, kcn_msg_body(ibuf[c])),
           got' = [got EXCEPT ![c] = Append(@, kcn_msg_body(ibuf[c]).loc)],
           ibuf' = [ibuf EXCEPT ![c] = kcn_msg_decoded(ibuf[c])],
           UNCHANGED <<net, tcp, pc, errno, kcr_error>>,
           UNCHANGED <<obufq, peer, unsent, result, database>>
    PROVE  DataInv'
<1> DEFINE kb == ibuf[c]
           D == kcn_msg_decoded(kb)
           b == kcn_msg_body(kb)
           a == answered[c][1]
           w == wire[<<c, "client">>]
           m == Resp(c)
           t == Len(got[c])
           S == GoodBufs(Cell, BUFSIZ)
<1>1. /\ LiveInv /\ LiveType /\ EventsAreLive /\ DataType /\ Buffers
      /\ Connection(c) /\ c \in Peer /\ c \notin Server
  BY Kinds DEF DataInv, LiveInv
<1>2. /\ D \in S /\ D.cp = D.sp
      /\ answered[c] # << >> /\ t \in Nat /\ t <= Len(a.locs)
      /\ a \in [locs : Seq(Loc \cup {NoLoc}), error : Errno]
      /\ t < Len(a.locs) => b.error = "0" /\ b.loc = a.locs[t + 1]
      /\ t = Len(a.locs) => b.error = a.error /\ b.loc = NoLoc
      /\ Arrives(D.data, w, t + 1, m)
      /\ \A s \in Server : peer[s] = c /\ kn_state[s] # "DISCONNECTED" =>
            Flows(D.data, w, t + 1, obufq[s], Len(m), m)
  BY ClientDecodes
<1>3. /\ UNCHANGED <<kn_state, evread, pc, sock, wire, closed, reset, peer>>
      /\ UNCHANGED <<errno, kcr_error, unsent, result, answered, stored>>
  BY DEF net, tcp, database
<1>4. Reading(c)
  BY <1>1 DEF Reading, Active, EventsAreLive
<1>5. b.loc # NoLoc /\ got' = [got EXCEPT ![c] = Append(@, b.loc)]
      /\ ibuf' = [ibuf EXCEPT ![c] = D]
  BY DEF Wanted
<1> HIDE DEF D, b, w, m
<1>6. /\ t < Len(a.locs) /\ b.loc = a.locs[t + 1] /\ b.loc \in Loc
      /\ t + 1 <= Len(a.locs)
  <2> DEFINE R == Loc \cup {NoLoc}
             L == a.locs
             N == Len(L)
  <2>1. L \in Seq(R) /\ N \in Nat
    BY <1>2
  <2>2. t <= N /\ (t = N => b.loc = NoLoc) /\ (t < N => b.loc = L[t + 1])
    BY <1>2
  <2> HIDE DEF R, N
  <2>3. t < N /\ t + 1 \in 1..N /\ t + 1 <= N /\ b.loc = L[t + 1]
    BY <1>2, <1>5, <2>1, <2>2
  <2> HIDE DEF L
  <2>4. L[t + 1] \in R
    BY <2>1, <2>3 DEF N
  <2> QED
    BY <1>5, <2>3, <2>4 DEF L, N, R
<1> DEFINE g == Append(got[c], b.loc)
<1>7. /\ g \in Seq(Loc) /\ g # << >> /\ Len(g) = t + 1
      /\ \A k \in 1..t : g[k] = got[c][k]
      /\ g[t + 1] = b.loc
  <2>1. got[c] \in Seq(Loc)
    BY <1>1 DEF DataType
  <2> QED
    BY <1>6, <2>1
<1>8. /\ got'[c] = g /\ got' \in [Client -> Seq(Loc)]
      /\ \A d \in Client : d # c => got'[d] = got[d]
  <2>1. got \in [Client -> Seq(Loc)]
    BY <1>1 DEF DataType
  <2> QED
    BY <1>5, <1>7, <2>1
<1>9. /\ ibuf'[c] = D /\ ibuf' \in [Peer -> S]
      /\ \A q \in Peer : q # c => ibuf'[q] = ibuf[q]
  <2>1. ibuf \in [Peer -> S]
    BY <1>1 DEF DataType
  <2> HIDE DEF S
  <2> QED
    BY <1>1, <1>2, <1>5, <2>1
<1> HIDE DEF g
<1>10. DataType'
  BY <1>1, <1>3, <1>8, <1>9 DEF DataType
<1>11. Buffers'
  BY <1>1, <1>2, <1>3, <1>9 DEF Buffers
<1>12. ASSUME NEW d \in Client PROVE Connection(d)'
  <2>1. CASE d # c
    <3>1. Touches(c, c)
      BY <1>1, <1>3, <1>8, <1>9 DEF Touches
    <3>2. Connection(d)
      BY DEF DataInv
    <3> QED
      BY <1>1, <2>1, <3>1, <3>2, Elsewhere
  <2>2. CASE d = c
    <3>1. Fresh(c)'
      BY <1>1, <1>3, <1>4 DEF Connection, Fresh, Reading
    <3>2. Processed(c)'
      <4>1. SameProcessed(c)
        BY <1>3 DEF SameProcessed
      <4> QED
        BY <1>1, <4>1, ProcessedKept DEF Connection
    <3>3. Requests(c)'
      <4>1. SameRequests(c)
        BY <1>1, <1>3, <1>9, Kinds DEF SameRequests, SameProcessed
      <4> QED
        BY <1>1, <4>1, RequestsKept DEF Connection
    <3>4. Answering(c)'
      <4>1. Resp(c)' = m /\ wire'[<<c, "client">>] = w
        BY <1>3 DEF Resp, m, w
      <4>2. Len(got'[c]) = t + 1
        BY <1>7, <1>8
      <4> QED
        BY <1>2, <1>3, <1>9, <4>1, <4>2 DEF Answering
    <3>5. Given(c)'
      <4>1. Begins(c)'
        <5>1. /\ Begins(c) /\ answered'[c] = answered[c] /\ answered[c] # << >>
          BY <1>1, <1>2, <1>3 DEF Connection, Given
        <5>2. \A k \in 1..t : got[c][k] = a.locs[k] /\ got[c][k] # NoLoc
          BY <1>2, <5>1 DEF Begins
        <5>3. ASSUME NEW k \in 1..t + 1 PROVE g[k] = a.locs[k] /\ g[k] # NoLoc
          <6>1. k \in 1..t \/ k = t + 1
            BY <1>2
          <6> QED
            BY <1>5, <1>6, <1>7, <5>2, <6>1
        <5> QED
          BY <1>6, <1>7, <1>8, <5>1, <5>3 DEF Begins
      <4>2. /\ pc'[c] = "recv" /\ result'[c] # "ok" /\ errno'[c] # "0"
        BY <1>1, <1>3, <1>4 DEF Connection, Given
      <4> QED
        BY <4>1, <4>2 DEF Given
    <3> QED
      BY <2>2, <3>1, <3>2, <3>3, <3>4, <3>5 DEF Connection
  <2> QED
    BY <2>1, <2>2
<1> QED
  BY <1>10, <1>11, <1>12 DEF DataInv

(* A client takes the end of the responses, or a locator too many.         *)
LEMMA ReceivesLast ==
    ASSUME DataInv, LiveInv', NEW c \in Client, pc[c] = "recv",
           ~ kcn_msg_partial(ibuf[c]), ~ Wanted(c, kcn_msg_body(ibuf[c])),
           NEW x, x = ReadError(c, kcn_msg_body(ibuf[c])),
           errno' = [errno EXCEPT ![c] = x],
           kcr_error' = [kcr_error EXCEPT ![c] = x],
           ReadCbOut(c, x),
           ibuf' = [ibuf EXCEPT ![c] = kcn_msg_decoded(ibuf[c])],
           UNCHANGED <<obufq, peer>>, UNCHANGED <<got, unsent, result, database>>
    PROVE  DataInv'
<1> DEFINE D == kcn_msg_decoded(ibuf[c])
           b == kcn_msg_body(ibuf[c])
           a == answered[c][1]
           w == wire[<<c, "client">>]
           m == Resp(c)
           t == Len(got[c])
<1>1. /\ LiveInv /\ LiveType /\ EventsAreLive /\ DataType /\ Buffers
      /\ Connection(c) /\ c \in Peer
  BY Kinds DEF DataInv, LiveInv
<1>2. /\ D \in GoodBufs(Cell, BUFSIZ) /\ D.cp = D.sp
      /\ answered[c] # << >> /\ t \in Nat /\ t <= Len(a.locs)
      /\ a \in [locs : Seq(Loc \cup {NoLoc}), error : Errno]
      /\ m \in Messages /\ Len(m) = Len(a.locs) + 1
      /\ t < Len(a.locs) => b.error = "0" /\ b.loc = a.locs[t + 1]
      /\ t = Len(a.locs) => b.error = a.error /\ b.loc = NoLoc
      /\ Arrives(D.data, w, t + 1, m)
      /\ \A s \in Server : peer[s] = c /\ kn_state[s] # "DISCONNECTED" =>
            Flows(D.data, w, t + 1, obufq[s], Len(m), m)
  BY ClientDecodes
<1>3. /\ Goto(c, "loop") /\ UNCHANGED <<answered, stored>>
      /\ ibuf' = [ibuf EXCEPT ![c] = D]
      /\ UNCHANGED <<got, unsent, answered, stored, result>>
  BY DEF ReadCbOut, database
<1>4. errno[c] # "0" /\ errno[c] \in Error
  <2>1. Reading(c)
    BY <1>1 DEF Reading, Active, EventsAreLive
  <2> QED
    BY <1>1, <2>1 DEF Connection, Given, DataType
<1>5. x = IF b.loc # NoLoc THEN "ETOOMANYREFS"
          ELSE IF b.error = "EAGAIN" THEN errno[c] ELSE b.error
  BY DEF ReadError
<1> HIDE DEF D, b, w, m
<1>6. Len(a.locs) \in Nat
  BY <1>2
<1>7. t < Len(a.locs) \/ t = Len(a.locs)
  BY <1>2, <1>6
<1>8. /\ b.error \in Errno /\ x \in Error
      /\ b.error = "EAGAIN" => t = Len(a.locs)
  <2>1. b.error \in Errno
    BY <1>2, <1>7, MsgAssumption
  <2>2. b.error = "EAGAIN" => t = Len(a.locs)
    BY <1>2, <1>7
  <2> QED
    BY <1>4, <1>5, <2>1, <2>2 DEF Error
<1>9. CASE x = "EAGAIN"
  <2>1. b.loc = NoLoc /\ b.error = "EAGAIN"
    BY <1>5, <1>9
  <2>2. t + 1 = Len(m)
    BY <1>2, <1>8, <2>1
  <2>3. Len(D.data) < 2
    <3>1. D.data \in Seq(Cell)
      BY <1>2 DEF GoodBufs, KcnBufs
    <3>2. 2 * (t + 1) + Len(D.data) <= 2 * Len(m)
      BY <1>2 DEF Arrives, Carries
    <3>3. Len(D.data) \in Nat
      BY <3>1
    <3>4. \A n \in Nat : 2 * (t + 1) + n <= 2 * (t + 1) => n < 2
      BY <1>2
    <3> QED
      BY <2>2, <3>2, <3>3, <3>4
  <2>4. \E k \in {Len(got[c]), Len(Resp(c))} :
           /\ Arrives(D.data, wire[<<c, "client">>], k, Resp(c))
           /\ \A s \in Server : peer[s] = c /\ kn_state[s] # "DISCONNECTED" =>
                 Flows(D.data, wire[<<c, "client">>], k, obufq[s],
                       Len(Resp(c)), Resp(c))
    <3>1. /\ Arrives(D.data, w, Len(m), m)
          /\ \A s \in Server : peer[s] = c /\ kn_state[s] # "DISCONNECTED" =>
                Flows(D.data, w, Len(m), obufq[s], Len(m), m)
      BY <1>2, <2>2
    <3> QED
      BY <3>1 DEF w, m
  <2> DEFINE er == TRUE
  <2>5. /\ evread' = [evread EXCEPT ![c] = er] /\ kn_state' = kn_state
        /\ UNCHANGED <<obufq, wire, sock, closed, reset, peer>>
    BY <1>9 DEF ReadCbOut, kcn_net_read_enable, tcp
  <2>6. er /\ er \in BOOLEAN /\ x # "0"
    BY <1>9
  <2> HIDE DEF er
  <2>7. IF er
        THEN /\ x # "0" /\ Len(D.data) < 2
             /\ \E k \in {Len(got[c]), Len(Resp(c))} :
                   /\ Arrives(D.data, wire[<<c, "client">>], k, Resp(c))
                   /\ \A s \in Server : peer[s] = c /\ kn_state[s] # "DISCONNECTED" =>
                         Flows(D.data, wire[<<c, "client">>], k, obufq[s],
                               Len(Resp(c)), Resp(c))
        ELSE x = "0" /\ got[c] # << >> => EndsAfter(answered[c][1], Len(got[c]))
    BY <2>3, <2>4, <2>6
  <2> QED
    BY <1>2, <1>3, <1>8, <2>5, <2>6, <2>7, ClientWaits
<1>10. CASE x = "0"
  <2>1. b.loc = NoLoc /\ b.error = "0"
    BY <1>4, <1>5, <1>10
  <2>2. EndsAfter(answered[c][1], Len(got[c]))
    <3>1. CASE t < Len(a.locs)
      BY <1>2, <1>6, <2>1, <3>1 DEF EndsAfter
    <3>2. CASE t = Len(a.locs)
      BY <1>2, <2>1, <3>2 DEF EndsAfter
    <3> QED
      BY <1>7, <3>1, <3>2
  <2> DEFINE er == FALSE
  <2>3. /\ evread' = [evread EXCEPT ![c] = er] /\ kn_state' = kn_state
        /\ UNCHANGED <<obufq, wire, sock, closed, reset, peer>>
    <3>1. UNCHANGED <<net, tcp>>
      BY <1>10 DEF ReadCbOut
    <3>2. ~ evread[c] /\ evread \in [Peer -> BOOLEAN]
      BY <1>1 DEF Buffers, LiveType
    <3>3. evread' = evread /\ kn_state' = kn_state
          /\ UNCHANGED <<wire, sock, closed, reset>>
      BY <3>1 DEF net, tcp
    <3>4. evread = [evread EXCEPT ![c] = FALSE]
      BY <1>1, <3>2
    <3> QED
      BY <3>3, <3>4
  <2>4. ~ er /\ er \in BOOLEAN
    OBVIOUS
  <2> HIDE DEF er
  <2>5. IF er
        THEN /\ x # "0" /\ Len(D.data) < 2
             /\ \E k \in {Len(got[c]), Len(Resp(c))} :
                   /\ Arrives(D.data, wire[<<c, "client">>], k, Resp(c))
                   /\ \A s \in Server : peer[s] = c /\ kn_state[s] # "DISCONNECTED" =>
                         Flows(D.data, wire[<<c, "client">>], k, obufq[s],
                               Len(Resp(c)), Resp(c))
        ELSE x = "0" /\ got[c] # << >> => EndsAfter(answered[c][1], Len(got[c]))
    BY <2>2, <2>4
  <2> QED
    BY <1>2, <1>3, <1>8, <2>3, <2>4, <2>5, ClientWaits
<1>11. CASE x \notin {"EAGAIN", "0"}
  <2>1. kcn_net_disconnect(c) /\ peer' = peer /\ obufq' = obufq
    BY <1>11 DEF ReadCbOut
  <2>2. /\ errno' \in [Client -> Error] /\ kcr_error' \in [Client -> Error]
        /\ \A d \in Client : d # c => errno'[d] = errno[d] /\ kcr_error'[d] = kcr_error[d]
        /\ kcr_error'[c] # "0"
    <3>1. errno \in [Client -> Error] /\ kcr_error \in [Client -> Error]
      BY <1>1 DEF DataType
    <3> QED
      BY <1>8, <1>11, <3>1
  <2> QED
    BY <1>1, <1>2, <1>3, <2>1, <2>2, Drops
<1> QED
  BY <1>9, <1>10, <1>11

LEMMA DataReceives ==
    ASSUME DataInv, LiveInv', NEW c \in Client, ClientRecv(c)
    PROVE  DataInv'
<1> DEFINE m == kcn_msg_body(ibuf[c])
           x == ReadError(c, m)
<1>1. pc[c] = "recv" /\ UNCHANGED <<obufq, peer>> /\ UNCHANGED <<unsent, result, database>>
  BY DEF ClientRecv, At
<1>2. \/ /\ kcn_msg_partial(ibuf[c])
         /\ errno' = [errno EXCEPT ![c] = "EAGAIN"]
         /\ kcr_error' = [kcr_error EXCEPT ![c] = "EAGAIN"]
         /\ ReadCbOut(c, "EAGAIN")
         /\ UNCHANGED <<ibuf, got>>
      \/ /\ ~ kcn_msg_partial(ibuf[c]) /\ Wanted(c, m)
         /\ got' = [got EXCEPT ![c] = Append(@, m.loc)]
         /\ ibuf' = [ibuf EXCEPT ![c] = kcn_msg_decoded(ibuf[c])]
         /\ UNCHANGED <<net, tcp, pc, errno, kcr_error>>
      \/ /\ ~ kcn_msg_partial(ibuf[c]) /\ ~ Wanted(c, m)
         /\ errno' = [errno EXCEPT ![c] = x]
         /\ kcr_error' = [kcr_error EXCEPT ![c] = x]
         /\ ReadCbOut(c, x)
         /\ ibuf' = [ibuf EXCEPT ![c] = kcn_msg_decoded(ibuf[c])]
         /\ UNCHANGED got
  BY DEF ClientRecv
<1>3. x = ReadError(c, kcn_msg_body(ibuf[c]))
  OBVIOUS
<1> HIDE DEF x
<1>4. CASE kcn_msg_partial(ibuf[c])
  <2>1. PICK b \in GoodBufs(Cell, BUFSIZ) : b = ibuf[c]
    BY Kinds DEF DataInv, DataType
  <2>2. PICK y \in Error : y = "EAGAIN"
    BY MsgAssumption DEF Error
  <2>3. /\ errno' = [errno EXCEPT ![c] = y] /\ kcr_error' = [kcr_error EXCEPT ![c] = y]
        /\ ReadCbOut(c, y) /\ UNCHANGED <<ibuf, got>>
    BY <1>2, <1>4, <2>2
  <2>4. ibuf' = [ibuf EXCEPT ![c] = b] /\ kcn_msg_partial(b)
    BY <1>4, <2>1, <2>3, Kinds DEF DataInv, DataType
  <2> QED
    BY <1>1, <2>1, <2>2, <2>3, <2>4, ReceivesPart
<1>5. CASE ~ kcn_msg_partial(ibuf[c])
  BY <1>1, <1>2, <1>3, <1>5, ReceivesLocator, ReceivesLast
<1> QED
  BY <1>4, <1>5

-----------------------------------------------------------------------------
(* The invariant holds.                                                    *)

LEMMA DataInit == Init => DataInv
<1> SUFFICES ASSUME Init PROVE DataInv
  OBVIOUS
<1>1. LiveInv
  BY LiveInit
<1>2. /\ ibuf = [p \in Peer |-> [sp |-> 0, cp |-> 0, data |-> << >>]]
      /\ kn_state = [p \in Peer |-> "DISCONNECTED"] /\ evread = [p \in Peer |-> FALSE]
      /\ obufq = [p \in Peer |-> << >>]
      /\ sock = [c \in Client |-> "none"]
      /\ wire = [e \in Ends |-> << >>] /\ reset = {}
  BY DEF Init, NetInit, kcn_buf_reset
<1>3. [sp |-> 0, cp |-> 0, data |-> << >>] \in GoodBufs(Cell, BUFSIZ)
  BY NetAssumption DEF GoodBufs, KcnBufs, kcn_buf_ok, kb_ep
<1>4. DataType
  <2>1. ibuf \in [Peer -> GoodBufs(Cell, BUFSIZ)]
    BY <1>2, <1>3
  <2>2. obufq \in [Peer -> Seq(Seq(Cell) \ {<< >>})]
    BY <1>2
  <2>3. wire \in [Ends -> Seq(Cell)] /\ reset \subseteq Ends
    BY <1>2
  <2>4. /\ errno \in [Client -> Error] /\ kcr_error \in [Client -> Error]
        /\ result \in [Client -> Error \cup
                                 {"none", "ok", "ECONNREFUSED", "ENETDOWN", "exit"}]
    BY MsgAssumption DEF Init, Error
  <2>5. /\ got \in [Client -> Seq(Loc)] /\ unsent \in [Client -> Seq(Rec)]
        /\ stored \in [Client -> Seq(Rec)]
    BY DEF Init
  <2>6. answered \in [Client -> Seq([locs : Seq(Loc \cup {NoLoc}), error : Errno])]
    BY DEF Init
  <2> QED
    BY <2>1, <2>2, <2>3, <2>4, <2>5, <2>6 DEF DataType
<1>5. Buffers
  BY <1>2 DEF Buffers
<1>6. ASSUME NEW c \in Client PROVE Connection(c)
  <2>1. /\ pc[c] = "start" /\ answered[c] = << >> /\ stored[c] = << >>
        /\ got[c] = << >> /\ unsent[c] = << >> /\ result[c] = "none"
        /\ sock[c] = "none" /\ c \in Peer
    BY <1>2, Kinds DEF Init
  <2>2. wire[<<c, "server">>] = << >> /\ wire[<<c, "client">>] = << >>
    BY <1>2 DEF Ends
  <2>3. ~ Reading(c) /\ pc[c] \notin Active
    BY <2>1 DEF Reading, Active
  <2>4. Fresh(c) /\ Requests(c) /\ Answering(c)
    BY <2>1, <2>2, <2>3 DEF Fresh, Requests, Answering
  <2>5. Processed(c)
    <3>1. Job[c].recs \in Seq(Rec)
      BY JobAssumption
    <3>2. Len(Job[c].recs) \in Nat
      BY <3>1
    <3> QED
      BY <2>1, <3>2 DEF Processed
  <2>6. Given(c)
    BY <2>1, <2>3 DEF Given, Begins
  <2> QED
    BY <2>4, <2>5, <2>6 DEF Connection
<1> QED
  BY <1>1, <1>4, <1>5, <1>6 DEF DataInv

LEMMA DataStep == DataInv /\ [Next]_vars => DataInv'
<1> SUFFICES ASSUME DataInv, [Next]_vars PROVE DataInv'
  OBVIOUS
<1>1. LiveInv'
  BY LiveStep DEF DataInv
<1>2. ASSUME NEW p \in Peer, Callback(p) PROVE DataInv'
  <2>1. UNCHANGED <<client, database>>
    BY <1>2 DEF Callback
  <2>2. CASE ReadCb(p)
    BY <1>1, <2>1, <2>2, DataReads
  <2>3. CASE ReadTimeout(p) \/ WriteCb(p) \/ WriteTimeout(p)
    BY <1>1, <2>1, <2>3, DataTimeouts
  <2>4. CASE Write(p)
    BY <1>1, <2>1, <2>4, DataWrites
  <2> QED
    BY <1>2, <2>2, <2>3, <2>4 DEF Callback
<1>3. ASSUME NEW c \in Client, ClientStep(c) \/ Kernel(c) \/ ClientExit(c)
      PROVE  DataInv'
  <2>1. CASE ClientStart(c)
    BY <1>1, <2>1, DataStarts
  <2>2. CASE FileRead(c) /\ kn_state[c] # "DISCONNECTED"
    BY <1>1, <2>2, DataFileReads
  <2>3. CASE ClientRecv(c)
    BY <1>1, <2>3, DataReceives
  <2>4. CASE \/ ClientEnd(c) \/ ClientExit(c)
             \/ FileRead(c) /\ kn_state[c] = "DISCONNECTED"
    BY <1>1, <2>4, DataClientEnds
  <2>5. CASE Callback(c)
    BY <1>2, <2>5, Kinds
  <2>6. CASE Kernel(c)
    BY <1>1, <2>6, DataKernel
  <2> QED
    BY <1>3, <2>1, <2>2, <2>3, <2>4, <2>5, <2>6 DEF ClientStep
<1>4. ASSUME NEW s \in Server, ServerStep(s) \/ Search(s) PROVE DataInv'
  <2>1. CASE Accept(s)
    BY <1>1, <2>1, DataAccepts
  <2>2. CASE AddProcess(s)
    BY <1>1, <2>2, DataAdds
  <2>3. CASE RecvEnd(s)
    BY <1>1, <2>3, DataRecvEnds
  <2>4. CASE SessionEnd(s)
    BY <1>1, <2>4, DataSessionEnds
  <2>5. CASE Callback(s)
    BY <1>2, <2>5, Kinds
  <2>6. CASE Search(s)
    BY <1>1, <2>6, DataSearches
  <2> QED
    BY <1>4, <2>1, <2>2, <2>3, <2>4, <2>5, <2>6 DEF ServerStep
<1>5. CASE UNCHANGED vars
  BY <1>1, <1>5, DataUnchanged
<1> QED
  BY <1>3, <1>4, <1>5 DEF Next

-----------------------------------------------------------------------------
(* What the invariant says.                                                *)

(* Whatever a peer of the service does, its variables have their types,    *)
(* and its input buffer stays within the bounds that kcn_buf.c asserts.    *)
THEOREM ServiceTypes == Spec => []TypeOK
<1>1. DataInv => TypeOK
  BY TypesOf DEF DataInv
<1> QED
  BY DataInit, DataStep, <1>1, PTL DEF Spec

(* assert(kcn_buf_trailingspace(kb) > 0) of kcn_buf_read (kcn_buf.c:403)   *)
(* never fails: what is left in a buffer when reading goes on is less than *)
(* a message, for every size of the buffer that holds one.                 *)
THEOREM ReadsHaveRoom == Spec => []ReadHasRoom
<1>1. DataInv => ReadHasRoom
  <2> SUFFICES ASSUME DataInv, NEW p \in Peer, evread[p]
               PROVE  kcn_buf_read_ok(ibuf[p], BUFSIZ)
    BY DEF ReadHasRoom
  <2> DEFINE kb == ibuf[p]
             d == kb.data
  <2>1. /\ kb \in GoodBufs(Cell, BUFSIZ) /\ kb.cp = kb.sp /\ Len(d) < 2
    BY DEF DataInv, DataType, Buffers
  <2>2. /\ kb.sp \in Nat /\ d \in Seq(Cell) /\ kb.sp + Len(d) <= BUFSIZ
    BY <2>1 DEF GoodBufs, KcnBufs, kcn_buf_ok, kb_ep
  <2>3. BUFSIZ \in Nat /\ BUFSIZ >= 2
    BY NetAssumption DEF KCN_MSG_HDRSIZ, KCN_MSG_BODYSIZ
  <2>4. Len(d) \in Nat
    BY <2>2
  <2>5. CASE BUFSIZ - (kb.sp + Len(d)) = 0
    <3>1. kcn_buf_read_into(kb, BUFSIZ) = [sp |-> 0, cp |-> kb.cp - kb.sp, data |-> d]
      BY <2>5 DEF kcn_buf_read_into, kcn_buf_trailingspace, kb_ep, kcn_buf_realign,
                  kcn_buf_headingdata
    <3>2. BUFSIZ - (0 + Len(d)) > 0
      BY <2>1, <2>3, <2>4
    <3> QED
      BY <3>1, <3>2 DEF kcn_buf_read_ok, kcn_buf_trailingspace, kb_ep
  <2>6. CASE BUFSIZ - (kb.sp + Len(d)) # 0
    <3>1. kcn_buf_read_into(kb, BUFSIZ) = kb
      BY <2>6 DEF kcn_buf_read_into, kcn_buf_trailingspace, kb_ep
    <3>2. BUFSIZ - (kb.sp + Len(d)) > 0
      BY <2>2, <2>3, <2>4, <2>6
    <3> QED
      BY <3>1, <3>2 DEF kcn_buf_read_ok, kcn_buf_trailingspace, kb_ep
  <2> QED
    BY <2>5, <2>6
<1> QED
  BY DataInit, DataStep, <1>1, PTL DEF Spec

LEMMA SameSequence ==
    ASSUME NEW S, NEW u \in Seq(S), NEW v \in Seq(S), Len(u) = Len(v),
           \A k \in 1..Len(u) : u[k] = v[k]
    PROVE  u = v
  OBVIOUS

LEMMA PrefixOf ==
    ASSUME NEW S, NEW u \in Seq(S), NEW v \in Seq(S), Len(u) <= Len(v),
           \A k \in 1..Len(u) : u[k] = v[k]
    PROVE  IsPrefix(u, v) /\ u = SubSeq(v, 1, Len(u))
<1> DEFINE n == Len(u)
           x == SubSeq(u, 1, n)
           y == SubSeq(v, 1, n)
<1>1. n \in Nat /\ Len(v) \in Nat /\ n <= Len(v)
  OBVIOUS
<1>2. /\ x \in Seq(S) /\ Len(x) = n /\ y \in Seq(S) /\ Len(y) = n
  BY <1>1, PartOfSeq
<1>3. \A k \in 1..n : x[k] = u[k] /\ y[k] = v[k]
  BY <1>1
<1> HIDE DEF x, y
<1>4. x = y /\ u = y
  BY <1>2, <1>3, SameSequence
<1> QED
  BY <1>1, <1>4 DEF IsPrefix, x, y

(* The lines of a file are added in their order and each once, and none    *)
(* behind one that was not: kcndb_server_add_process gives the connection  *)
(* up, and what a client sends arrives as it was sent.                     *)
THEOREM AddsStayInOrder == Spec => []AddsInOrder
<1>1. DataInv => AddsInOrder
  <2> SUFFICES ASSUME DataInv, NEW c \in Client
               PROVE  IsPrefix(stored[c], Job[c].recs)
    BY DEF AddsInOrder
  <2>1. Processed(c) /\ stored[c] \in Seq(Rec) /\ Job[c].recs \in Seq(Rec)
    BY JobAssumption DEF DataInv, Connection, DataType
  <2>2. /\ Len(stored[c]) <= Len(Job[c].recs)
        /\ \A k \in 1..Len(stored[c]) : stored[c][k] = Job[c].recs[k]
    BY <2>1 DEF Processed
  <2> QED
    BY <2>1, <2>2, PrefixOf
<1> QED
  BY DataInit, DataStep, <1>1, PTL DEF Spec

(* A search does not find more than one record without a locator.          *)
LEMMA NamelessOnce ==
    ASSUME NEW max \in Nat, NEW a \in Answers(max)
    PROVE  \A i, j \in 1..Len(a.locs) : a.locs[i] = NoLoc /\ a.locs[j] = NoLoc => i = j
<1> DEFINE N == IF Len(Matches) < max THEN Len(Matches) ELSE max
           first(k) == SubSeq(Matches, 1, k)
<1>1. Matches \in Seq(Loc) /\ Len(Matches) \in Nat /\ NoLoc \notin Loc
  BY JobAssumption, MsgAssumption
<1>2. N \in Nat /\ N <= Len(Matches)
  BY <1>1
<1>3. ASSUME NEW k \in 0..N
      PROVE  Len(first(k)) = k /\ first(k) \in Seq(Loc)
             /\ \A i \in 1..k : first(k)[i] # NoLoc
  <2>1. k \in Nat /\ k <= Len(Matches)
    BY <1>1, <1>2
  <2>2. first(k) \in Seq(Loc) /\ Len(first(k)) = k
    BY <1>1, <2>1, PartOfSeq
  <2> HIDE DEF first
  <2> QED
    BY <1>1, <2>2
<1>4. ASSUME NEW k \in 1..N
      PROVE  LET v == [first(N) EXCEPT ![k] = NoLoc]
             IN  Len(v) = N /\ \A i \in 1..N : v[i] = NoLoc => i = k
  <2> DEFINE f == first(N)
             v == [f EXCEPT ![k] = NoLoc]
  <2>1. N \in 0..N
    BY <1>2
  <2>2. f \in Seq(Loc) /\ Len(f) = N /\ \A i \in 1..N : f[i] # NoLoc
    BY <1>3, <2>1
  <2> HIDE DEF f, N
  <2>3. Len(v) = N /\ \A i \in 1..N : v[i] = NoLoc => i = k
    BY <2>2
  <2> QED
    BY <2>3 DEF f
<1>5. N \in 0..N
  BY <1>2
<1>a. a \in  {[locs |-> first(N), error |-> IF N = 0 THEN "ESRCH" ELSE "0"]}
        \cup {[locs |-> first(k), error |-> "EIO"] :
                  k \in IF "search" \in Faults THEN 0..N ELSE {}}
        \cup {[locs |-> << >>, error |-> "EAGAIN"] : f \in Faults \cap {"search"}}
        \cup {[locs |-> [first(N) EXCEPT ![k] = NoLoc], error |-> "0"] :
                  k \in IF "nameless" \in Faults THEN 1..N ELSE {}}
  BY DEF Answers
<1> HIDE DEF N, first
<1>6. \/ a.locs = first(N) \/ \E k \in 0..N : a.locs = first(k)
      \/ a.locs = << >>
      \/ \E k \in 1..N : a.locs = [first(N) EXCEPT ![k] = NoLoc]
  BY <1>a
<1>7. CASE \E k \in 0..N : a.locs = first(k)
  BY <1>3, <1>7
<1>8. CASE a.locs = << >>
  BY <1>8
<1>9. CASE \E k \in 1..N : a.locs = [first(N) EXCEPT ![k] = NoLoc]
  BY <1>4, <1>9
<1> QED
  BY <1>5, <1>6, <1>7, <1>8, <1>9

(* A client is shown the locators before the one that is none.             *)
LEMMA ShownOf ==
    ASSUME NEW max \in Nat, NEW a \in Answers(max),
           NEW n \in Nat, n <= Len(a.locs), \A k \in 1..n : a.locs[k] # NoLoc
    PROVE  /\ Shown(a).locs \in Seq(Loc \cup {NoLoc})
           /\ n <= Len(Shown(a).locs)
           /\ \A k \in 1..n : Shown(a).locs[k] = a.locs[k]
           /\ EndsAfter(a, n) => Len(Shown(a).locs) = n /\ Shown(a).error = "0"
           /\ Shown(a) = [locs |-> Shown(a).locs, error |-> Shown(a).error]
<1> DEFINE L == a.locs
           R == Loc \cup {NoLoc}
           I == {i \in 1..Len(L) : L[i] = NoLoc}
<1>1. a \in [locs : Seq(R), error : Errno]
  BY AnswersType
<1>2. L \in Seq(R) /\ Len(L) \in Nat /\ a = [locs |-> L, error |-> a.error]
  BY <1>1
<1>3. \A i, j \in I : i = j
  BY NamelessOnce
<1>4. Shown(a) = LET k == IF I # {} THEN Min(I) ELSE 0
                 IN  IF k = 0 THEN a ELSE [locs |-> SubSeq(L, 1, k - 1), error |-> "0"]
  BY DEF Shown, SelectInSeq
<1>5. CASE I = {}
  <2>1. Shown(a) = a
    BY <1>4, <1>5
  <2>2. EndsAfter(a, n) => Len(L) = n /\ a.error = "0"
    <3>1. ~ (Len(L) > n /\ L[n + 1] = NoLoc)
      BY <1>2, <1>5
    <3> QED
      BY <3>1 DEF EndsAfter
  <2> QED
    BY <1>2, <2>1, <2>2
<1>6. ASSUME I # {}
      PROVE  /\ Shown(a).locs \in Seq(Loc \cup {NoLoc})
             /\ n <= Len(Shown(a).locs)
             /\ \A k \in 1..n : Shown(a).locs[k] = a.locs[k]
             /\ EndsAfter(a, n) => Len(Shown(a).locs) = n /\ Shown(a).error = "0"
             /\ Shown(a) = [locs |-> Shown(a).locs, error |-> Shown(a).error]
  <2>1. PICK z \in I : TRUE
    BY <1>6
  <2>2. I = {z} /\ z \in 1..Len(L) /\ L[z] = NoLoc /\ z # 0 /\ z \in Nat
    BY <1>2, <1>3, <2>1
  <2>3. Min(I) = z
    <3>1. \A x \in {z} : x =< x
      BY <2>2
    <3> HIDE DEF I
    <3> QED
      BY <2>2, <3>1 DEF Min
  <2> DEFINE h == SubSeq(L, 1, z - 1)
  <2>4. Shown(a) = [locs |-> h, error |-> "0"]
    BY <1>4, <1>6, <2>2, <2>3
  <2>5. n < z
    BY <2>2
  <2>6. h \in Seq(R) /\ Len(h) = z - 1
    BY <1>2, <2>2, PartOfSeq
  <2>7. \A k \in 1..z - 1 : h[k] = L[k]
    BY <1>2, <2>2
  <2>8. EndsAfter(a, n) => z - 1 = n
    <3> SUFFICES ASSUME EndsAfter(a, n) PROVE z - 1 = n
      OBVIOUS
    <3>1. Len(L) = n \/ (Len(L) > n /\ L[n + 1] = NoLoc)
      BY DEF EndsAfter
    <3>2. Len(L) # n
      BY <2>2, <2>5
    <3>3. n + 1 \in I
      BY <1>2, <3>1, <3>2
    <3> QED
      BY <1>3, <2>1, <3>3
  <2> HIDE DEF h, L, I
  <2>9. n <= z - 1 /\ 1..n \subseteq 1..z - 1
    BY <2>2, <2>5
  <2> QED
    BY <2>4, <2>6, <2>7, <2>8, <2>9 DEF L
<1> QED
  BY <1>5, <1>6

(* What a client has of its answer is a beginning of it, and a client that *)
(* succeeds with locators has them all, up to one that is empty, whatever  *)
(* was cut, late or lost on the way: kcn_client_read takes each response   *)
(* once, in order, and what it makes of the last one is the error that the *)
(* database has given.                                                     *)
THEOREM AnswersAreFaithful == Spec => []AnswerFaithful
<1>1. DataInv => AnswerFaithful
  <2> SUFFICES ASSUME DataInv, NEW c \in Client
               PROVE  /\ Len(answered[c]) <= 1
                      /\ got[c] # << >> =>
                            /\ answered[c] # << >>
                            /\ IsPrefix(got[c], Shown(answered[c][1]).locs)
                      /\ Job[c].kind = "query" /\ result[c] = "ok" /\ got[c] # << >> =>
                            Shown(answered[c][1]) = [locs |-> got[c], error |-> "0"]
    BY DEF AnswerFaithful
  <2>1. Processed(c) /\ Given(c) /\ Begins(c) /\ got[c] \in Seq(Loc)
    BY DEF DataInv, Connection, DataType, Given
  <2>2. Len(answered[c]) <= 1
    BY <2>1 DEF Processed
  <2>3. ASSUME got[c] # << >>
        PROVE  /\ answered[c] # << >>
               /\ IsPrefix(got[c], Shown(answered[c][1]).locs)
               /\ result[c] = "ok" =>
                     Shown(answered[c][1]) = [locs |-> got[c], error |-> "0"]
    <3> DEFINE a == answered[c][1]
               g == got[c]
               n == Len(g)
               v == Shown(a).locs
               R == Loc \cup {NoLoc}
    <3>1. /\ answered[c] # << >> /\ a \in Answers(Job[c].max % UINT8)
      BY <2>1, <2>3 DEF Processed, Begins
    <3>2. Job[c].max % UINT8 \in Nat
      BY JobAssumption, MsgAssumption
    <3>3. /\ g \in Seq(R) /\ n \in Nat /\ n <= Len(a.locs)
          /\ \A k \in 1..n : g[k] = a.locs[k] /\ a.locs[k] # NoLoc
      BY <2>1, <3>1 DEF Begins
    <3>4. result[c] = "ok" => EndsAfter(a, n)
      BY <2>1, <2>3 DEF Given
    <3> HIDE DEF a, g
    <3>5. /\ v \in Seq(R) /\ n <= Len(v)
          /\ \A k \in 1..n : v[k] = a.locs[k]
          /\ EndsAfter(a, n) => Len(v) = n /\ Shown(a).error = "0"
          /\ Shown(a) = [locs |-> v, error |-> Shown(a).error]
      BY <3>1, <3>2, <3>3, ShownOf
    <3> HIDE DEF v, R
    <3>6. IsPrefix(g, v)
      BY <3>3, <3>5, PrefixOf
    <3>7. Len(v) = n => v = g
      BY <3>3, <3>5, SameSequence
    <3>8. result[c] = "ok" => Shown(a) = [locs |-> g, error |-> "0"]
      BY <3>4, <3>5, <3>7
    <3> QED
      BY <3>1, <3>6, <3>8 DEF a, g, v
  <2> QED
    BY <2>2, <2>3
<1> QED
  BY DataInit, DataStep, <1>1, PTL DEF Spec

-----------------------------------------------------------------------------
(* Output that is queued.                                                  *)

Output ==
    \A p \in Peer :
        pc[p] \in {"loop", "recv"} /\ obufq[p] # << >> =>
            evwrite[p] \/ kn_state[p] = "DISCONNECTED"

(* The output of the others stays as it is.                                *)
LEMMA OutputKept ==
    ASSUME Output, NEW p \in Peer,
           \A q \in Peer : q # p =>
              /\ pc'[q] = pc[q] /\ kn_state'[q] = kn_state[q]
              /\ evwrite'[q] = evwrite[q] /\ obufq'[q] = obufq[q],
           pc'[p] \in {"loop", "recv"} /\ obufq'[p] # << >> =>
              evwrite'[p] \/ kn_state'[p] = "DISCONNECTED"
    PROVE  Output'
  BY DEF Output

LEMMA OutputCallbacks ==
    ASSUME "early" \notin Faults, DataInv, Output, NEW p \in Peer, Callback(p)
    PROVE  Output'
<1>1. /\ pc \in [Peer -> Active \cup {"start", "done", "accept"}]
      /\ kn_state \in [Peer -> PeerState]
      /\ evwrite \in [Peer -> BOOLEAN]
      /\ obufq \in [Peer -> Seq(Seq(Cell) \ {<< >>})]
  BY DEF DataInv, LiveInv, LiveType, DataType
<1>2. pc[p] = "loop" /\ obufq[p] # << >> => evwrite[p] \/ kn_state[p] = "DISCONNECTED"
  BY DEF Output
<1>3. CASE ReadCb(p)
  <2>1. /\ pc[p] = "loop" /\ obufq' = obufq
        /\ \/ pc' = [pc EXCEPT ![p] = "recv"] /\ UNCHANGED <<kn_state, evwrite>>
           \/ kcn_net_disconnect(p) /\ pc' = pc
    BY <1>3 DEF ReadCb, At, Goto
  <2>2. CASE pc' = [pc EXCEPT ![p] = "recv"] /\ UNCHANGED <<kn_state, evwrite>>
    BY <1>1, <1>2, <2>1, <2>2, OutputKept
  <2>3. CASE kcn_net_disconnect(p) /\ pc' = pc
    BY <1>1, <2>1, <2>3, OutputKept DEF kcn_net_disconnect
  <2> QED
    BY <2>1, <2>2, <2>3
<1>4. CASE ReadTimeout(p) \/ WriteTimeout(p)
  <2>1. kcn_net_disconnect(p) /\ pc' = pc /\ obufq' = obufq
    BY <1>4 DEF ReadTimeout, WriteTimeout, buf
  <2> QED
    BY <1>1, <2>1, OutputKept DEF kcn_net_disconnect
<1>5. CASE WriteCb(p)
  <2>1. /\ kn_state' = [kn_state EXCEPT ![p] = "ESTABLISHED"]
        /\ evwrite' = [evwrite EXCEPT ![p] = FALSE]
        /\ pc' = [pc EXCEPT ![p] = "write"] /\ obufq' = obufq
    BY <1>5 DEF WriteCb, kcn_net_established, Goto, buf
  <2> QED
    BY <1>1, <2>1, OutputKept
<1>6. CASE Write(p)
  <2>1. pc[p] = "write"
    BY <1>6 DEF Write, At
  <2>2. CASE /\ obufq[p] = << >> /\ pc' = [pc EXCEPT ![p] = "loop"]
             /\ UNCHANGED <<kn_state, evwrite, obufq>>
    BY <1>1, <2>2, OutputKept
  <2>3. CASE kcn_net_disconnect(p) /\ pc' = [pc EXCEPT ![p] = "loop"] /\ obufq' = obufq
    BY <1>1, <2>3, OutputKept DEF kcn_net_disconnect
  <2>4. CASE /\ \E x : obufq' = [obufq EXCEPT ![p] = x]
             /\ UNCHANGED <<kn_state, evwrite, pc>>
    BY <1>1, <2>1, <2>4, OutputKept
  <2>5. CASE /\ evwrite' = [evwrite EXCEPT ![p] = TRUE]
             /\ pc' = [pc EXCEPT ![p] = "loop"] /\ UNCHANGED <<kn_state, obufq>>
    BY <1>1, <2>5, OutputKept
  <2> QED
    BY <1>6, <2>2, <2>3, <2>4, <2>5 DEF Write, Goto, net, kcn_net_write_enable
<1> QED
  BY <1>3, <1>4, <1>5, <1>6 DEF Callback

LEMMA OutputStep ==
    ASSUME "early" \notin Faults, DataInv, Output, [Next]_vars
    PROVE  Output'
<1>1. /\ pc \in [Peer -> Active \cup {"start", "done", "accept"}]
      /\ kn_state \in [Peer -> PeerState]
      /\ evwrite \in [Peer -> BOOLEAN]
      /\ obufq \in [Peer -> Seq(Seq(Cell) \ {<< >>})]
  BY DEF DataInv, LiveInv, LiveType, DataType
<1>2. ASSUME NEW p \in Peer, kcn_net_disconnect(p), obufq' = obufq,
             NEW where, Goto(p, where) \/ pc' = pc
      PROVE  Output'
  BY <1>1, <1>2, OutputKept DEF kcn_net_disconnect, Goto
<1>3. ASSUME NEW p \in Peer, pc[p] \in {"loop", "recv"}, obufq' = obufq,
             NEW where, Goto(p, where) \/ pc' = pc,
             UNCHANGED <<kn_state, evwrite>>
      PROVE  Output'
  <2>1. obufq[p] # << >> => evwrite[p] \/ kn_state[p] = "DISCONNECTED"
    BY <1>3 DEF Output
  <2> QED
    BY <1>1, <1>3, <2>1, OutputKept DEF Goto
<1>4. ASSUME NEW p \in Peer, NEW x, obufq' = [obufq EXCEPT ![p] = x],
             evwrite' = [evwrite EXCEPT ![p] = TRUE],
             NEW st, kn_state' = [kn_state EXCEPT ![p] = st],
             NEW where, Goto(p, where) \/ pc' = pc
      PROVE  Output'
  BY <1>1, <1>4, OutputKept DEF Goto
<1>5. ASSUME NEW p \in Peer, NEW error, ReadCbOut(p, error), pc[p] = "recv",
             obufq' = obufq
      PROVE  Output'
  <2>1. Goto(p, "loop")
    BY <1>5 DEF ReadCbOut
  <2>2. kcn_net_disconnect(p) \/ UNCHANGED <<kn_state, evwrite>>
    BY <1>5 DEF ReadCbOut, kcn_net_read_enable, net
  <2> QED
    BY <1>2, <1>3, <1>5, <2>1, <2>2
<1>6. ASSUME NEW c \in Client, ClientStep(c) \/ Kernel(c) \/ ClientExit(c)
      PROVE  Output'
  <2>p. c \in Peer
    BY Kinds
  <2>1. CASE ClientStart(c)
    <3>1. CASE \E st, q : kcn_net_new(c, st, q) /\ Goto(c, "loop")
      BY <1>4, <2>p, <3>1 DEF kcn_net_new
    <3>2. CASE Done(c, "ECONNREFUSED") /\ UNCHANGED <<net, buf>>
      BY <1>1, <2>p, <3>2, OutputKept DEF Done, Goto, net, buf
    <3> QED
      BY <2>1, <3>1, <3>2 DEF ClientStart
  <2>2. CASE FileRead(c)
    <3>1. CASE \E q : kcn_net_write(c, q) /\ pc' = pc
      <4>1. PICK q : kcn_net_write(c, q) /\ pc' = pc
        BY <3>1
      <4>2. kn_state' = [kn_state EXCEPT ![c] = kn_state[c]]
        BY <1>1, <2>p, <4>1 DEF kcn_net_write
      <4> QED
        BY <1>4, <2>p, <4>1, <4>2 DEF kcn_net_write, kcn_net_write_enable
    <3>2. CASE pc[c] = "loop" /\ Done(c, "ENETDOWN") /\ UNCHANGED <<net, obufq>>
      BY <1>3, <2>p, <3>2 DEF Done, net
    <3> QED
      BY <2>2, <3>1, <3>2 DEF FileRead, At
  <2>3. CASE ClientRecv(c)
    <3>1. pc[c] = "recv" /\ obufq' = obufq
      BY <2>3 DEF ClientRecv, At
    <3>2. (\E error : ReadCbOut(c, error)) \/ UNCHANGED <<net, pc>>
      BY <2>3 DEF ClientRecv
    <3> QED
      BY <1>3, <1>5, <2>p, <3>1, <3>2 DEF net
  <2>4. CASE ClientEnd(c) \/ ClientExit(c)
    BY <1>2, <2>4, <2>p DEF ClientEnd, ClientExit, Done, buf
  <2>5. CASE Callback(c)
    BY <2>5, <2>p, OutputCallbacks
  <2>6. CASE Kernel(c)
    BY <2>6 DEF Kernel, Established, Refused, net, buf, Output
  <2> QED
    BY <1>6, <2>1, <2>2, <2>3, <2>4, <2>5, <2>6 DEF ClientStep
<1>7. ASSUME NEW s \in Server, ServerStep(s) \/ Search(s) PROVE Output'
  <2>p. s \in Peer
    BY Kinds
  <2>1. CASE Accept(s)
    BY <1>4, <2>1, <2>p DEF Accept, kcn_net_new
  <2>2. CASE AddProcess(s)
    <3>1. /\ pc[s] = "recv" /\ obufq' = obufq
          /\ UNCHANGED <<net, pc>> \/ ReadCbOut(s, "ERANGE")
      BY <2>2 DEF AddProcess, Received, At
    <3> QED
      BY <1>3, <1>5, <2>p, <3>1 DEF net
  <2>3. CASE RecvEnd(s)
    BY <1>5, <2>3, <2>p DEF RecvEnd, At, buf
  <2>4. CASE SessionEnd(s)
    BY <1>2, <2>4, <2>p DEF SessionEnd, buf
  <2>5. CASE Callback(s)
    BY <2>5, <2>p, OutputCallbacks
  <2>6. CASE Search(s)
    <3>1. PICK q : kcn_net_write(s, q) /\ pc' = pc
      BY <2>6 DEF Search
    <3>2. kn_state' = [kn_state EXCEPT ![s] = kn_state[s]]
      BY <1>1, <2>p, <3>1 DEF kcn_net_write
    <3> QED
      BY <1>4, <2>p, <3>1, <3>2 DEF kcn_net_write, kcn_net_write_enable
  <2> QED
    BY <1>7, <2>1, <2>2, <2>3, <2>4, <2>5, <2>6 DEF ServerStep
<1>8. CASE UNCHANGED vars
  BY <1>8 DEF vars, net, buf, Output
<1> QED
  BY <1>6, <1>7, <1>8 DEF Next

(* Output that is queued is not left without an event that writes it, as   *)
(* long as libevent raises no timeout of a connection that is PENDING,     *)
(* which kcn_net_write_cb takes for its establishment (kcn_net.c:292):     *)
(* kcn_net_write enables the event, and kcn_net_write_cb adds it again     *)
(* for what the kernel has not taken.                                      *)
THEOREM OutputIsWritten ==
    ASSUME "early" \notin Faults PROVE Spec => []OutputHasEvent
<1>1. Init => Output
  BY Kinds DEF Init, NetInit, Output
<1>2. DataInv /\ Output /\ [Next]_vars => Output'
  BY OutputStep
<1>3. Output => OutputHasEvent
  BY DEF Output, OutputHasEvent, At
<1> QED
  BY DataInit, DataStep, <1>1, <1>2, <1>3, PTL DEF Spec

-----------------------------------------------------------------------------
(* The implementation of KcnLookup.                                        *)

(* The answers as a client can tell them: the answer of the mapping.       *)
Told == [c \in Client |-> [k \in DOMAIN answered[c] |-> Shown(answered[c][k])]]

(* A program that has not ended has no result.                             *)
Unended == \A c \in Client : pc[c] # "done" => result[c] = "none"

LEMMA UnendedKept ==
    ASSUME DataInv, Unended, NEW p \in Peer, NEW where,
           pc' = pc \/ (pc[p] # "done" /\ Goto(p, where)), result' = result
    PROVE  Unended'
<1>1. \A q \in Peer : pc'[q] # "done" => pc[q] # "done"
  BY DEF DataInv, LiveInv, LiveType, Goto
<1> QED
  BY <1>1, Kinds DEF Unended

LEMMA UnendedDone ==
    ASSUME DataInv, Unended, NEW c \in Client, NEW r, Done(c, r)
    PROVE  Unended'
<1>1. c \in Peer /\ pc'[c] = "done" /\ \A d \in Client : d # c => pc'[d] = pc[d]
  BY Kinds DEF DataInv, LiveInv, LiveType, Done, Goto
<1>2. \A d \in Client : d # c => result'[d] = result[d]
  BY DEF DataInv, DataType, Done
<1> QED
  BY <1>1, <1>2 DEF Unended

LEMMA UnendedStep ==
    ASSUME DataInv, Unended, [Next]_vars
    PROVE  Unended'
<1>1. ASSUME NEW p \in Peer, Callback(p) PROVE Unended'
  <2>1. result' = result
    BY <1>1 DEF Callback, client
  <2>2. pc' = pc \/ \E where : pc[p] # "done" /\ Goto(p, where)
    BY <1>1 DEF Callback, ReadCb, ReadTimeout, WriteCb, WriteTimeout, Write, At
  <2> QED
    BY <2>1, <2>2, UnendedKept
<1>2. ASSUME NEW c \in Client, ClientStep(c) \/ Kernel(c) \/ ClientExit(c)
      PROVE  Unended'
  <2>p. c \in Peer
    BY Kinds
  <2>1. CASE \E r : Done(c, r)
    BY <2>1, UnendedDone
  <2>2. CASE Callback(c)
    BY <1>1, <2>2, <2>p
  <2>3. CASE /\ result' = result
             /\ pc' = pc \/ \E where : pc[c] # "done" /\ Goto(c, where)
    BY <2>3, <2>p, UnendedKept
  <2>4. CASE ClientStart(c)
    BY <2>1, <2>3, <2>4 DEF ClientStart, At
  <2>5. CASE FileRead(c)
    BY <2>1, <2>3, <2>5 DEF FileRead
  <2>6. CASE ClientRecv(c)
    BY <2>3, <2>6 DEF ClientRecv, ReadCbOut, At
  <2>7. CASE ClientEnd(c) \/ ClientExit(c)
    BY <2>1, <2>7 DEF ClientEnd, ClientExit
  <2>8. CASE Kernel(c)
    BY <2>3, <2>8 DEF Kernel, Established, Refused, client
  <2> QED
    BY <1>2, <2>2, <2>4, <2>5, <2>6, <2>7, <2>8 DEF ClientStep
<1>3. ASSUME NEW s \in Server, ServerStep(s) \/ Search(s) PROVE Unended'
  <2>p. s \in Peer
    BY Kinds
  <2>1. CASE Callback(s)
    BY <1>1, <2>1, <2>p
  <2>2. CASE Accept(s) \/ AddProcess(s) \/ RecvEnd(s) \/ SessionEnd(s) \/ Search(s)
    <3>1. result' = result
      BY <2>2 DEF Accept, AddProcess, RecvEnd, SessionEnd, Search, client
    <3>2. pc' = pc \/ \E where : pc[s] # "done" /\ Goto(s, where)
      BY <2>2 DEF Accept, AddProcess, RecvEnd, SessionEnd, Search, ReadCbOut, Received,
                  Dispatched, At
    <3> QED
      BY <2>p, <3>1, <3>2, UnendedKept
  <2> QED
    BY <1>3, <2>1, <2>2 DEF ServerStep
<1>4. CASE UNCHANGED vars
  BY <1>4 DEF vars, client, Unended
<1> QED
  BY <1>2, <1>3, <1>4 DEF Next

LEMMA ToldOf ==
    ASSUME DataInv, NEW c \in Client
    PROVE  /\ answered[c] = << >> => Told[c] = << >>
           /\ answered[c] # << >> => Told[c] # << >> /\ Told[c][1] = Shown(answered[c][1])
<1> DEFINE A == [locs : Seq(Loc \cup {NoLoc}), error : Errno]
           u == answered[c]
<1>1. u \in Seq(A)
  BY DEF DataInv, DataType
<1> HIDE DEF A
<1>2. Told[c] = [k \in 1..Len(u) |-> Shown(u[k])] /\ Len(u) \in Nat
  BY <1>1 DEF Told
<1>3. CASE u = << >>
  <2>1. Told[c] = [k \in 1..0 |-> Shown(u[k])]
    BY <1>2, <1>3
  <2> QED
    BY <1>3, <2>1
<1>4. CASE u # << >>
  <2>1. 1 \in 1..Len(u)
    BY <1>1, <1>2, <1>4
  <2>2. Told[c][1] = Shown(u[1])
    BY <1>2, <2>1
  <2>3. DOMAIN Told[c] = 1..Len(u) /\ DOMAIN << >> = {}
    BY <1>2
  <2>4. Told[c] # << >>
    BY <2>1, <2>3
  <2> QED
    BY <1>4, <2>2, <2>4
<1> QED
  BY <1>3, <1>4

LEMMA LookupUnseen ==
    ASSUME UNCHANGED <<answered, got, result>>
    PROVE  UNCHANGED Lookup!vars
  BY DEF Lookup!vars

LEMMA LookupBegins ==
    ASSUME Init
    PROVE  Lookup!Init /\ Unended
<1>1. Told = [c \in Client |-> << >>]
  <2>1. \A c \in Client : answered[c] = << >>
    BY DEF Init
  <2>2. \A c \in Client : [k \in DOMAIN answered[c] |-> Shown(answered[c][k])] = << >>
    BY <2>1
  <2> QED
    BY <2>2 DEF Told
<1> QED
  BY <1>1 DEF Init, Lookup!Init, Told, Unended

(* How a program ends is an outcome of the search.                         *)
LEMMA LookupEnds ==
    ASSUME DataInv, Unended, NEW c \in Client, pc[c] # "done",
           NEW r, Done(c, r), UNCHANGED <<answered, got>>,
           \/ r \in {"ECONNREFUSED", "ENETDOWN", "exit"}
           \/ r = "ok" /\ kcr_error[c] = "0" /\ pc[c] = "loop"
           \/ r = kcr_error[c] /\ kcr_error[c] # "0"
    PROVE  Lookup!End(c)
<1> DEFINE all == Lookup!Answered(c)
           e == IF r = "ok" THEN "0" ELSE r
           a == answered[c][1]
           n == Len(got[c])
           R == Loc \cup {NoLoc}
<1>1. /\ Given(c) /\ Begins(c) /\ Processed(c)
      /\ got[c] \in Seq(Loc) /\ kcr_error[c] \in Error
      /\ "ok" \notin Error
  BY JobAssumption DEF DataInv, Connection, Given, DataType, Error
<1>2. result[c] = "none" /\ result' = [result EXCEPT ![c] = r]
      /\ UNCHANGED <<answered, got>>
  BY DEF Unended, Done
<1>3. r \in Lookup!Failure \cup {"ok"}
  BY <1>1 DEF Lookup!Failure, Error
<1>4. CASE got[c] = << >>
  <2>1. Lookup!Outcome(e, got[c], all)
    <3>1. CASE e = "0"
      BY <1>4, <3>1 DEF Lookup!Outcome
    <3>2. CASE e # "0"
      <4>1. 0 \in 0..Len(all)
        <5>1. CASE answered[c] = << >>
          <6>1. all = << >>
            BY <5>1, ToldOf DEF Lookup!Answered, Told
          <6> QED
            BY <6>1
        <5>2. CASE answered[c] # << >>
          <6>1. all = Shown(a).locs
            BY <5>2, ToldOf DEF Lookup!Answered, Told
          <6>2. Job[c].max % UINT8 \in Nat /\ a \in Answers(Job[c].max % UINT8)
            BY <1>1, <5>2, JobAssumption, MsgAssumption DEF Processed
          <6>3. 0 \in Nat /\ 0 <= Len(a.locs) /\ \A k \in 1..0 : a.locs[k] # NoLoc
            BY <6>2, AnswersType
          <6>4. Shown(a).locs \in Seq(R)
            BY <6>2, <6>3, ShownOf
          <6> QED
            BY <6>1, <6>4
        <5> QED
          BY <5>1, <5>2
      <4>2. SubSeq(all, 1, 0) = << >>
        OBVIOUS
      <4> QED
        BY <1>4, <3>2, <4>1, <4>2 DEF Lookup!Outcome
    <3> QED
      BY <3>1, <3>2
  <2> QED
    BY <1>2, <1>3, <1>4, <2>1 DEF Lookup!End, Told
<1>5. CASE got[c] # << >>
  <2>1. answered[c] # << >>
    BY <1>1, <1>5 DEF Begins
  <2>2. all = Shown(a).locs /\ Told[c][1] = Shown(a)
    BY <2>1, ToldOf DEF Lookup!Answered, Told
  <2>3. Job[c].max % UINT8 \in Nat /\ a \in Answers(Job[c].max % UINT8)
    BY <1>1, <2>1, JobAssumption, MsgAssumption DEF Processed
  <2>4. /\ n \in Nat /\ n <= Len(a.locs) /\ got[c] \in Seq(R)
        /\ \A k \in 1..n : got[c][k] = a.locs[k] /\ a.locs[k] # NoLoc
    BY <1>1, <2>1 DEF Begins
  <2>5. r = "ok" => EndsAfter(a, n)
    BY <1>1, <1>5 DEF Given
  <2> DEFINE v == Shown(a).locs
  <2>6. /\ v \in Seq(R) /\ n <= Len(v)
        /\ \A k \in 1..n : v[k] = a.locs[k]
        /\ EndsAfter(a, n) => Len(v) = n /\ Shown(a).error = "0"
    <3> HIDE DEF a, R
    <3> QED
      BY <2>3, <2>4, ShownOf DEF R
  <2> HIDE DEF v, a, R
  <2>7. IsPrefix(got[c], v) /\ got[c] = SubSeq(v, 1, n)
    BY <2>4, <2>6, PrefixOf
  <2>8. Len(v) = n => v = got[c]
    BY <2>4, <2>6, SameSequence
  <2>9. all = v
    BY <2>2 DEF v, a
  <2> HIDE DEF all
  <2>10. r = "ok" => got[c] = all /\ Shown(a).error = "0"
    BY <2>5, <2>6, <2>8, <2>9
  <2>11. Lookup!Outcome(e, got[c], all)
    <3>1. CASE r = "ok"
      BY <2>10, <3>1 DEF Lookup!Outcome
    <3>2. CASE r # "ok"
      <4>1. e # "0"
        BY <3>2
      <4>2. n \in 0..Len(all) /\ got[c] = SubSeq(all, 1, n)
        BY <2>4, <2>6, <2>7, <2>9
      <4> QED
        BY <4>1, <4>2 DEF Lookup!Outcome
    <3> QED
      BY <3>1, <3>2
  <2>12. r = "ok" => Told[c][1].error = "0"
    BY <2>2, <2>10 DEF a
  <2> QED
    BY <1>2, <1>3, <2>11, <2>12 DEF Lookup!End, Told, all
<1> QED
  BY <1>4, <1>5

(* A client that takes a locator takes the next of its answer.             *)
LEMMA LookupReceives ==
    ASSUME DataInv, Unended, NEW c \in Client, ClientRecv(c), got' # got
    PROVE  Lookup!Receive(c)
<1> DEFINE b == kcn_msg_body(ibuf[c])
           a == answered[c][1]
           t == Len(got[c])
           v == Shown(a).locs
           R == Loc \cup {NoLoc}
<1>1. /\ pc[c] = "recv" /\ ~ kcn_msg_partial(ibuf[c]) /\ b.loc # NoLoc
      /\ got' = [got EXCEPT ![c] = Append(@, b.loc)]
      /\ UNCHANGED <<answered, result>>
  BY DEF ClientRecv, At, Wanted, database
<1>2. /\ answered[c] # << >> /\ t \in Nat /\ t <= Len(a.locs)
      /\ a \in [locs : Seq(R), error : Errno]
      /\ t < Len(a.locs) => b.loc = a.locs[t + 1]
      /\ t = Len(a.locs) => b.loc = NoLoc
  BY <1>1, ClientDecodes
<1>3. result[c] = "none" /\ Given(c) /\ Begins(c) /\ Processed(c)
  BY <1>1 DEF Unended, DataInv, Connection, Given
<1>4. Job[c].max % UINT8 \in Nat /\ a \in Answers(Job[c].max % UINT8)
  BY <1>2, <1>3, JobAssumption, MsgAssumption DEF Processed
<1> HIDE DEF b, R
<1>5. Len(a.locs) \in Nat
  BY <1>2
<1>6. t + 1 \in Nat /\ t + 1 <= Len(a.locs) /\ b.loc = a.locs[t + 1]
  BY <1>1, <1>2, <1>5
<1>7. \A k \in 1..t + 1 : a.locs[k] # NoLoc
  <2>1. \A k \in 1..t : a.locs[k] # NoLoc
    BY <1>2, <1>3 DEF Begins
  <2>2. a.locs[t + 1] # NoLoc
    BY <1>1, <1>6
  <2>3. \A k \in 1..t + 1 : k \in 1..t \/ k = t + 1
    BY <1>2
  <2> HIDE DEF a, t
  <2> QED
    BY <2>1, <2>2, <2>3
<1>8. v \in Seq(R) /\ t + 1 <= Len(v) /\ v[t + 1] = a.locs[t + 1]
  <2> DEFINE n == t + 1
  <2>1. n \in Nat /\ n <= Len(a.locs) /\ \A k \in 1..n : a.locs[k] # NoLoc
    BY <1>6, <1>7
  <2>2. n \in 1..n
    BY <1>2
  <2> HIDE DEF n, a
  <2>3. v \in Seq(R) /\ n <= Len(v) /\ \A k \in 1..n : v[k] = a.locs[k]
    BY <1>4, <2>1, ShownOf DEF R
  <2> QED
    BY <2>2, <2>3 DEF n
<1>9. t < Len(v) /\ b.loc = v[t + 1]
  <2>1. Len(v) \in Nat
    BY <1>8
  <2> HIDE DEF v, t
  <2> QED
    BY <1>2, <1>6, <1>8, <2>1
<1>10. Told[c] # << >> /\ Told[c][1].locs = v
  BY <1>2, ToldOf
<1>11. Told' = Told
  BY <1>1 DEF Told
<1> HIDE DEF v
<1>12. /\ Len(got[c]) < Len(Told[c][1].locs)
       /\ got' = [got EXCEPT ![c] = Append(@, Told[c][1].locs[Len(@) + 1])]
  BY <1>1, <1>9, <1>10
<1> QED
  BY <1>1, <1>3, <1>10, <1>11, <1>12 DEF Lookup!Receive, Told

(* What the database gives a client that asks.                             *)
LEMMA ShownAnswers ==
    ASSUME NEW max \in Nat, NEW a \in Answers(max)
    PROVE  LET F == SubSeq(Matches, 1, IF Len(Matches) < max THEN Len(Matches) ELSE max)
           IN  \E error \in Errno, k \in 0..Len(F) :
                  /\ error = "0" => "nameless" \in Faults \/ (k > 0 /\ k = Len(F))
                  /\ Shown(a) = [locs |-> SubSeq(F, 1, k), error |-> error]
<1> DEFINE N == IF Len(Matches) < max THEN Len(Matches) ELSE max
           first(k) == SubSeq(Matches, 1, k)
           F == first(N)
           Good(x) == \E error \in Errno, k \in 0..Len(F) :
                         /\ error = "0" => "nameless" \in Faults \/ (k > 0 /\ k = Len(F))
                         /\ x = [locs |-> SubSeq(F, 1, k), error |-> error]
<1> SUFFICES Good(Shown(a))
  OBVIOUS
<1>1. Matches \in Seq(Loc) /\ Len(Matches) \in Nat /\ NoLoc \notin Loc
      /\ {"0", "ESRCH", "EIO", "EAGAIN"} \subseteq Errno
  BY JobAssumption, MsgAssumption
<1>2. N \in Nat /\ N <= Len(Matches)
  BY <1>1
<1>3. F \in Seq(Loc) /\ Len(F) = N /\ \A k \in 1..N : F[k] = Matches[k] /\ F[k] # NoLoc
  <2>1. F \in Seq(Loc) /\ Len(F) = N
    BY <1>1, <1>2, PartOfSeq
  <2>2. \A k \in 1..N : F[k] = Matches[k]
    BY <1>1, <1>2
  <2> HIDE DEF F
  <2> QED
    BY <1>1, <2>1, <2>2
<1>4. ASSUME NEW k \in 0..N
      PROVE  /\ first(k) \in Seq(Loc) /\ Len(first(k)) = k
             /\ first(k) = SubSeq(F, 1, k)
             /\ \A i \in 1..k : first(k)[i] # NoLoc
  <2>1. k \in Nat /\ k <= Len(Matches) /\ k <= N
    BY <1>1, <1>2
  <2>2. first(k) \in Seq(Loc) /\ Len(first(k)) = k
    BY <1>1, <2>1, PartOfSeq
  <2>3. \A i \in 1..k : first(k)[i] = Matches[i]
    BY <1>1, <2>1
  <2> HIDE DEF first, F
  <2>4. \A i \in 1..k : i \in 1..N /\ first(k)[i] = F[i]
    BY <1>2, <1>3, <2>1, <2>3
  <2>5. first(k) = SubSeq(F, 1, Len(first(k)))
    BY <1>3, <2>1, <2>2, <2>4, PrefixOf
  <2> QED
    BY <1>3, <2>2, <2>4, <2>5
<1>5. \/ a = [locs |-> first(N), error |-> IF N = 0 THEN "ESRCH" ELSE "0"]
      \/ \E k \in 0..N : a = [locs |-> first(k), error |-> "EIO"]
      \/ a = [locs |-> << >>, error |-> "EAGAIN"]
      \/ /\ "nameless" \in Faults
         /\ \E k \in 1..N : a = [locs |-> [first(N) EXCEPT ![k] = NoLoc], error |-> "0"]
  <2>1. a \in  {[locs |-> first(N), error |-> IF N = 0 THEN "ESRCH" ELSE "0"]}
        \cup {[locs |-> first(k), error |-> "EIO"] :
                  k \in IF "search" \in Faults THEN 0..N ELSE {}}
        \cup {[locs |-> << >>, error |-> "EAGAIN"] : f \in Faults \cap {"search"}}
        \cup {[locs |-> [first(N) EXCEPT ![k] = NoLoc], error |-> "0"] :
                  k \in IF "nameless" \in Faults THEN 1..N ELSE {}}
    BY DEF Answers
  <2> HIDE DEF N, first
  <2> QED
    BY <2>1
<1>6. ASSUME NEW k \in 0..N, NEW error \in Errno, a.locs = first(k), a.error = error,
             error = "0" => k > 0 /\ k = N, a = [locs |-> a.locs, error |-> a.error]
      PROVE  Good(Shown(a))
  <2>1. {i \in 1..Len(a.locs) : a.locs[i] = NoLoc} = {}
    BY <1>4, <1>6
  <2>2. Shown(a) = a
    BY <2>1 DEF Shown, SelectInSeq
  <2>3. k \in 0..Len(F) /\ Shown(a) = [locs |-> SubSeq(F, 1, k), error |-> error]
    BY <1>3, <1>4, <1>6, <2>2
  <2> QED
    BY <1>3, <1>6, <2>3
<1>7. ASSUME NEW k \in 1..N, "nameless" \in Faults,
             a = [locs |-> [F EXCEPT ![k] = NoLoc], error |-> "0"]
      PROVE  Good(Shown(a))
  <2> DEFINE v == [F EXCEPT ![k] = NoLoc]
             I == {i \in 1..Len(v) : v[i] = NoLoc}
             R == Loc \cup {NoLoc}
  <2>1. k \in Nat /\ k - 1 \in Nat /\ k - 1 \in 0..N /\ k # 0 /\ k <= N
    BY <1>2
  <2>2. Len(v) = N /\ v[k] = NoLoc /\ \A i \in 1..N : i # k => v[i] = F[i]
    <3> HIDE DEF F
    <3> QED
      BY <1>3, <2>1
  <2>3. I = {k}
    <3> HIDE DEF F, v
    <3> QED
      BY <1>3, <2>2
  <2>4. Min(I) = k
    <3>1. \A x \in {k} : x =< x
      BY <2>1
    <3> HIDE DEF I
    <3> QED
      BY <2>3, <3>1 DEF Min
  <2>5. Shown(a) = [locs |-> SubSeq(v, 1, k - 1), error |-> "0"]
    <3>1. Shown(a) = LET z == IF I # {} THEN Min(I) ELSE 0
                     IN  IF z = 0 THEN a
                         ELSE [locs |-> SubSeq(v, 1, z - 1), error |-> "0"]
      BY <1>7 DEF Shown, SelectInSeq
    <3> HIDE DEF v, I
    <3> QED
      BY <2>1, <2>3, <2>4, <3>1
  <2>6. v \in Seq(R)
    <3>1. F \in Seq(R)
      BY <1>3
    <3> HIDE DEF F, R
    <3>2. F \in [1..N -> R]
      BY <1>3, <3>1
    <3>3. v \in [1..N -> R]
      BY <3>2 DEF R
    <3> HIDE DEF v
    <3> QED
      BY <1>2, <3>3
  <2>7. SubSeq(v, 1, k - 1) = first(k - 1)
    <3> DEFINE x == SubSeq(v, 1, k - 1)
               y == first(k - 1)
    <3>1. y \in Seq(Loc) /\ Len(y) = k - 1
      BY <1>4, <2>1
    <3>2. \A i \in 1..k - 1 : y[i] = Matches[i]
      BY <1>1, <1>2, <2>1
    <3> HIDE DEF v, y
    <3>3. x \in Seq(R) /\ Len(x) = k - 1 /\ \A i \in 1..k - 1 : x[i] = v[i]
      <4>1. x \in Seq(R) /\ Len(x) = k - 1
        BY <1>2, <2>1, <2>2, <2>6, PartOfSeq
      <4>2. \A i \in 1..k - 1 : x[i] = v[i]
        BY <1>2, <2>1, <2>2, <2>6
      <4> QED
        BY <4>1, <4>2
    <3> HIDE DEF x, F
    <3>4. \A i \in 1..k - 1 : x[i] = y[i]
      <4>1. \A i \in 1..k - 1 : i \in 1..N /\ i # k
        BY <1>2, <2>1
      <4> QED
        BY <1>3, <2>2, <3>2, <3>3, <4>1
    <3>5. y \in Seq(R)
      BY <3>1
    <3> HIDE DEF R
    <3>6. x = y
      BY <3>1, <3>3, <3>4, <3>5, SameSequence
    <3> QED
      BY <3>6 DEF x, y
  <2>8. SubSeq(v, 1, k - 1) = SubSeq(F, 1, k - 1)
    BY <1>4, <2>1, <2>7
  <2>9. k - 1 \in 0..Len(F) /\ "0" \in Errno
    BY <1>1, <1>3, <2>1
  <2> HIDE DEF v, F
  <2> QED
    BY <1>7, <2>5, <2>8, <2>9
<1>8. CASE a = [locs |-> first(N), error |-> IF N = 0 THEN "ESRCH" ELSE "0"]
  <2> DEFINE x == IF N = 0 THEN "ESRCH" ELSE "0"
  <2>1. N \in 0..N /\ x \in Errno /\ (x = "0" => N > 0)
    BY <1>1, <1>2
  <2>2. a.locs = first(N) /\ a.error = x /\ a = [locs |-> a.locs, error |-> a.error]
    BY <1>8
  <2> HIDE DEF x, Good, N, first
  <2> QED
    BY <1>6, <2>1, <2>2
<1>9. CASE \E k \in 0..N : a = [locs |-> first(k), error |-> "EIO"]
  <2>1. PICK k \in 0..N : a = [locs |-> first(k), error |-> "EIO"]
    BY <1>9
  <2>2. "EIO" \in Errno /\ a.error = "EIO" /\ a.locs = first(k)
        /\ a = [locs |-> a.locs, error |-> a.error]
    BY <1>1, <2>1
  <2> HIDE DEF Good, N, first
  <2> QED
    BY <1>6, <2>2
<1>10. CASE a = [locs |-> << >>, error |-> "EAGAIN"]
  <2>1. 0 \in 0..N
    BY <1>2
  <2>2. first(0) = << >>
    BY <1>4, <2>1
  <2>3. "EAGAIN" \in Errno /\ a.error = "EAGAIN" /\ a.locs = first(0)
        /\ a = [locs |-> a.locs, error |-> a.error]
    BY <1>1, <1>10, <2>2
  <2> HIDE DEF Good, N, first
  <2> QED
    BY <1>6, <2>1, <2>3
<1>11. CASE /\ "nameless" \in Faults
            /\ \E k \in 1..N : a = [locs |-> [F EXCEPT ![k] = NoLoc], error |-> "0"]
  <2> HIDE DEF Good, N, F
  <2> QED
    BY <1>7, <1>11
<1> HIDE DEF Good
<1> QED
  BY <1>5, <1>8, <1>9, <1>10, <1>11

LEMMA LookupAnswers ==
    ASSUME DataInv, NEW s \in Server, Search(s)
    PROVE  /\ \E c \in Client : Lookup!Answer(c)
           /\ UNCHANGED <<got, result>>
<1>1. pc[s] = "recv" /\ ~ kcn_msg_partial(ibuf[s]) /\ kcn_msg_type(ibuf[s]) = "query"
  BY DEF Search, Received, At
<1>2. PICK c \in Client :
         /\ peer[s] = c
         /\ Taken(c) \in Nat /\ Taken(c) + 1 \in 1..Len(Req(c))
         /\ kcn_msg_type(ibuf[s]) = Req(c)[Taken(c) + 1][1].type
         /\ kcn_msg_body(ibuf[s]) = Req(c)[Taken(c) + 1][2]
  BY <1>1, ThreadDecodes
<1>3. Job[c].kind = "query"
  BY <1>1, <1>2, ReqKinds
<1>4. Taken(c) + 1 = 1 /\ kcn_msg_body(ibuf[s]) = [maxcount |-> Job[c].max % UINT8]
  BY <1>2, <1>3, ReqKinds
<1>5. answered[c] = << >>
  <2>1. DataType /\ Processed(c)
    BY DEF DataInv, Connection
  <2>2. Taken(c) = 0
    BY <1>2, <1>4
  <2> QED
    BY <2>1, <2>2, NoneTaken
<1> DEFINE max == Job[c].max % UINT8
           F == SubSeq(Matches, 1, IF Len(Matches) < max THEN Len(Matches) ELSE max)
<1>6. PICK a \in Answers(max) : answered' = [answered EXCEPT ![c] = <<a>>]
  <2>1. kcn_msg_body(ibuf[s]).maxcount = max
    BY <1>4
  <2>2. PICK a \in Answers(max) : answered' = [answered EXCEPT ![c] = Append(@, a)]
    BY <1>2, <2>1 DEF Search
  <2>3. Append(<< >>, a) = <<a>>
    OBVIOUS
  <2>4. answered' = [answered EXCEPT ![c] = <<a>>]
    BY <1>5, <2>2, <2>3
  <2> HIDE DEF max
  <2> QED
    BY <2>2, <2>4
<1>7. max \in Nat
  BY JobAssumption, MsgAssumption
<1>8. PICK error \in Errno, k \in 0..Len(F) :
         /\ error = "0" => "nameless" \in Faults \/ (k > 0 /\ k = Len(F))
         /\ Shown(a) = [locs |-> SubSeq(F, 1, k), error |-> error]
  <2> HIDE DEF max
  <2> QED
    BY <1>6, <1>7, ShownAnswers
<1>9. Told[c] = << >> /\ UNCHANGED <<got, result>>
  BY <1>5, ToldOf DEF Search, client
<1>10. Told' = [Told EXCEPT ![c] = <<Shown(a)>>]
  <2>1. /\ answered'[c] = <<a>>
        /\ \A d \in Client : d # c => answered'[d] = answered[d]
    BY <1>6 DEF DataInv, DataType
  <2>2. [k2 \in DOMAIN <<a>> |-> Shown(<<a>>[k2])] = <<Shown(a)>>
    <3>1. DOMAIN <<a>> = 1..1 /\ <<a>>[1] = a
      OBVIOUS
    <3>2. \A k2 \in 1..1 : Shown(<<a>>[k2]) = Shown(a)
      BY <3>1
    <3>3. \A x : [k2 \in 1..1 |-> x] = <<x>>
      OBVIOUS
    <3>4. [k2 \in 1..1 |-> Shown(<<a>>[k2])] = [k2 \in 1..1 |-> Shown(a)]
      BY <3>2
    <3> QED
      BY <3>1, <3>3, <3>4
  <2>3. /\ Told'[c] = <<Shown(a)>> /\ \A d \in Client : d # c => Told'[d] = Told[d]
        /\ Told' = [d \in Client |-> Told'[d]] /\ Told = [d \in Client |-> Told[d]]
    BY <2>1, <2>2 DEF Told
  <2> HIDE DEF F, max
  <2> QED
    BY <2>3
<1>11. Lookup!All(c) = F
  BY DEF Lookup!All, Lookup!FirstOf
<1> HIDE DEF F
<1>12. Told' = [Told EXCEPT ![c] = <<[locs |-> SubSeq(F, 1, k), error |-> error]>>]
  BY <1>8, <1>10
<1> QED
  BY <1>8, <1>9, <1>11, <1>12 DEF Lookup!Answer, Told

LEMMA LookupStep ==
    ASSUME DataInv, Unended, [Next]_vars
    PROVE  [Lookup!Next]_Lookup!vars
<1>1. ASSUME UNCHANGED <<answered, got, result>>
      PROVE  [Lookup!Next]_Lookup!vars
  BY <1>1, LookupUnseen
<1>2. ASSUME NEW p \in Peer, Callback(p) PROVE UNCHANGED <<answered, got, result>>
  BY <1>2 DEF Callback, client, database
<1>3. ASSUME NEW c \in Client, ClientStep(c) \/ Kernel(c) \/ ClientExit(c)
      PROVE  [Lookup!Next]_Lookup!vars
  <2>p. c \in Peer
    BY Kinds
  <2>1. ASSUME Lookup!End(c) \/ Lookup!Receive(c)
        PROVE  [Lookup!Next]_Lookup!vars
    BY <2>1 DEF Lookup!Next
  <2>2. CASE ClientStart(c)
    <3>1. CASE Done(c, "ECONNREFUSED")
      <4>1. pc[c] # "done" /\ UNCHANGED <<answered, got>>
        BY <2>2 DEF ClientStart, At, database
      <4> QED
        BY <2>1, <3>1, <4>1, LookupEnds
    <3>2. CASE UNCHANGED result
      BY <1>1, <2>2, <3>2 DEF ClientStart, database
    <3> QED
      BY <2>2, <3>1, <3>2 DEF ClientStart
  <2>3. CASE FileRead(c)
    <3>1. CASE Done(c, "ENETDOWN")
      <4>1. pc[c] # "done" /\ UNCHANGED <<answered, got>>
        BY <2>3 DEF FileRead, At, database
      <4> QED
        BY <2>1, <3>1, <4>1, LookupEnds
    <3>2. CASE UNCHANGED result
      BY <1>1, <2>3, <3>2 DEF FileRead, database
    <3> QED
      BY <2>3, <3>1, <3>2 DEF FileRead
  <2>4. CASE ClientRecv(c)
    <3>1. CASE got' = got
      BY <1>1, <2>4, <3>1 DEF ClientRecv, database
    <3>2. CASE got' # got
      BY <2>1, <2>4, <3>2, LookupReceives
    <3> QED
      BY <3>1, <3>2
  <2>5. CASE ClientEnd(c) \/ ClientExit(c)
    <3>1. pc[c] # "done" /\ UNCHANGED <<answered, got>>
      BY <2>5 DEF ClientEnd, ClientExit, Dispatched, At, database
    <3>2. PICK r : /\ Done(c, r)
                   /\ \/ r \in {"ECONNREFUSED", "ENETDOWN", "exit"}
                      \/ r = "ok" /\ kcr_error[c] = "0" /\ pc[c] = "loop"
                      \/ r = kcr_error[c] /\ kcr_error[c] # "0"
      <4>1. CASE ClientEnd(c)
        <5>1. CASE kcr_error[c] = "0"
          BY <4>1, <5>1 DEF ClientEnd, Dispatched, At
        <5>2. CASE kcr_error[c] # "0"
          BY <4>1, <5>2 DEF ClientEnd
        <5> QED
          BY <5>1, <5>2
      <4>2. CASE ClientExit(c)
        BY <4>2 DEF ClientExit
      <4> QED
        BY <2>5, <4>1, <4>2
    <3> QED
      BY <2>1, <3>1, <3>2, LookupEnds
  <2>6. CASE Callback(c)
    BY <1>1, <1>2, <2>6, <2>p
  <2>7. CASE Kernel(c)
    BY <1>1, <2>7 DEF Kernel, client, database
  <2> QED
    BY <1>3, <2>2, <2>3, <2>4, <2>5, <2>6, <2>7 DEF ClientStep
<1>4. ASSUME NEW s \in Server, ServerStep(s) \/ Search(s)
      PROVE  [Lookup!Next]_Lookup!vars
  <2>1. CASE Search(s)
    BY <2>1, LookupAnswers DEF Lookup!Next
  <2>2. CASE Callback(s)
    BY <1>1, <1>2, <2>2, Kinds
  <2>3. CASE Accept(s) \/ AddProcess(s) \/ RecvEnd(s) \/ SessionEnd(s)
    BY <1>1, <2>3 DEF Accept, AddProcess, RecvEnd, SessionEnd, client, database
  <2> QED
    BY <1>4, <2>1, <2>2, <2>3 DEF ServerStep
<1>5. CASE UNCHANGED vars
  BY <1>1, <1>5 DEF vars, client, database
<1> QED
  BY <1>3, <1>4, <1>5 DEF Next

(* Messages that are cut, buffers, queues, events, refused connections,    *)
(* timeouts, resets and clients that exit implement a search that is       *)
(* answered at most once, gives the client the locators of the answer one  *)
(* after the other and ends once, as Outcome says: kcn_client_search as    *)
(* key2loc relies on it, over kcndb_server_recv.                           *)
THEOREM LookupIsImplemented == Spec => ImplementsLookup
<1>1. Init => Lookup!Init /\ Unended
  BY LookupBegins
<1>2. DataInv /\ Unended /\ [Next]_vars => Unended' /\ [Lookup!Next]_Lookup!vars
  BY UnendedStep, LookupStep
<1> QED
  BY <1>1, <1>2, DataInit, DataStep, PTL DEF Spec, ImplementsLookup, Lookup!Spec
=============================================================================
