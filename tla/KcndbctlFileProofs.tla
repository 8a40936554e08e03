-------------------------- MODULE KcndbctlFileProofs --------------------------
(***************************************************************************)
(* What kcndbctl sends of a file is what the file says, for any files, any *)
(* size of the buffer and of a message, and any faults: wherever the reads *)
(* cut the records, and though the buffer is overwritten as it is parsed.  *)
(***************************************************************************)
EXTENDS KcndbctlFile, KcnBufProofs, FiniteSetTheorems,
        WellFoundedInduction, TLAPS

-----------------------------------------------------------------------------
(* The invariant.                                                          *)

(* How far a record has been parsed.                                       *)
Parsed ==
    CASE pc = "val" -> 1 [] pc = "loc" -> 2 [] OTHER -> 0

(* Where the data of the buffer stand in the file, and where the cursor.   *)
start == off - Len(kb.data)
head  == kcn_buf_headingdata(kb)

(* A place that is behind k fields of the file.                            *)
Behind(f, k, p) ==
    /\ p \in 0..Len(f)
    /\ Before(f, p) = k
    /\ p = 0 \/ f[p] = Space

(* A record from p on, the last space of which would be the k-th one, is   *)
(* longer than a message, or not there at all.                             *)
TooLong(f, k, p) ==
    \A q \in p..Len(f) : q <= p + KCN_MSG_MAXSIZ => Before(f, q) < k

(* The file grows, and the descriptor stays within it.                     *)
FileOK ==
    /\ filesize <= Len(file) /\ filesize < SIZE
    /\ off <= Len(file) /\ Len(kb.data) <= off

(* The buffer holds the bytes of the file, but for spaces that were        *)
(* overwritten.                                                            *)
Copied ==
    \A j \in 1..Len(kb.data) :
        \/ kb.data[j] = file[start + j]
        \/ kb.data[j] = Nul /\ file[start + j] = Space

(* The buffer begins with the first record that was not sent.              *)
AtRecord ==
    /\ Behind(file, 3 * Len(sent), start)
    /\ pc # "end" =>
          /\ Len(kma) = Parsed
          /\ Behind(file, 3 * Len(sent) + Parsed, start + head)
          /\ Parsed = 0 => head = 0
          /\ \A k \in 1..Parsed :
                LET field == Field(file, 3 * Len(sent) + k)
                IN  IsNumber(field) /\ kma[k] = kcn_strtoull(field)

(* A record is parsed only when it is in the buffer, or is too long, or    *)
(* nothing more is to come.                                                *)
Parsing == pc \in {"val", "loc"} => Parses

(* kf_size is what is left of the file, and between two callbacks what is  *)
(* in the buffer too.                                                      *)
CountedAs(k, o, f, n) == \E q \in Int : k + o - n = f + q * SIZE

Counted ==
    pc # "end" => CountedAs(kf_size, off, filesize,
                            IF pc = "wait" THEN Len(kb.data) ELSE 0)

Overwritten == \E i \in 1..Len(kb.data) :
    /\ kb.data[i] = Nul
    /\ Before(file, start + i) = 3 * Len(sent) + 1

(* What is overwritten has been parsed, in this turn or in an earlier one, *)
(* and in an earlier one only of a record that is too long.                *)
Clean ==
    /\ pc \in {"val", "loc"} =>
          /\ \A j \in head + 1..Len(kb.data) : kb.data[j] # Nul
          /\ \E i \in 1..Len(kb.data) :
                /\ i <= head /\ kb.data[i] = Nul
                /\ Before(file, start + i) = 3 * Len(sent) + 1
    /\ pc \in {"wait", "time"} =>
          \/ \A j \in 1..Len(kb.data) : kb.data[j] # Nul
          \/ /\ Overwritten
             /\ Len(file) # filesize \/ TooLong(file, 3 * Len(sent) + 3, start)

(* Between two callbacks no record that was read is left, or less than a   *)
(* message has and then, of a file that does not grow, more is to come.    *)
Drained ==
    pc = "wait" =>
        \/ Before(file, off) < 3 * Len(sent) + 3
        \/ /\ Len(kb.data) < KCN_MSG_MAXSIZ
           /\ Len(file) = filesize => off # Len(file)

Ended == (result = "none" <=> pc # "end") /\ (kn_up \in BOOLEAN)

FileInv ==
    /\ TypeOK /\ FileOK /\ Copied /\ AtRecord /\ Parsing /\ Counted
    /\ Clean /\ Drained /\ Ended
    /\ SentExact /\ NothingLeft /\ RefusedForCause

-----------------------------------------------------------------------------
(* The fields of a file.                                                   *)

LEMMA LeastOf ==
    ASSUME NEW S \in SUBSET Nat, S # {}
    PROVE  \E x \in S : \A y \in S : x <= y
<1>1. PICK x \in S : \A y \in S : ~ (<<y, x>> \in OpToRel(<, Nat))
  BY WFMin, NatLessThanWellFounded
<1>2. \A y \in S : ~ (y < x)
  BY <1>1 DEF OpToRel
<1> QED
  BY <1>2

LEMMA Counting ==
    ASSUME NEW f, NEW p \in Nat
    PROVE  /\ IsFiniteSet({j \in 1..p : f[j] = Space})
           /\ Before(f, p) \in Nat
           /\ \A q \in 0..p : Before(f, q) \in Nat /\ Before(f, q) <= Before(f, p)
<1> DEFINE S(q) == {j \in 1..q : f[j] = Space}
<1>1. ASSUME NEW q \in Nat PROVE IsFiniteSet(S(q)) /\ Cardinality(S(q)) \in Nat
  <2>1. IsFiniteSet(1..q)
    BY FS_Interval
  <2>2. S(q) \in SUBSET (1..q)
    OBVIOUS
  <2>3. IsFiniteSet(S(q))
    BY <2>1, <2>2, FS_Subset
  <2> HIDE DEF S
  <2> QED
    BY <2>3, FS_CardinalityType
<1>2. ASSUME NEW q \in 0..p PROVE Cardinality(S(q)) <= Cardinality(S(p))
  <2>1. S(q) \in SUBSET S(p)
    OBVIOUS
  <2> HIDE DEF S
  <2> QED
    BY <1>1, <2>1, FS_Subset
<1> QED
  BY <1>1, <1>2 DEF Before

LEMMA BeforeLess ==
    ASSUME NEW f, NEW p \in Nat, NEW q \in Nat, q <= p
    PROVE  /\ Before(f, q) \in Nat /\ Before(f, p) \in Nat
           /\ Before(f, q) <= Before(f, p)
<1>1. q \in 0..p
  OBVIOUS
<1> QED
  BY <1>1, Counting

LEMMA BeforeNone ==
    ASSUME NEW f
    PROVE  Before(f, 0) = 0
<1>1. {j \in 1..0 : f[j] = Space} = {}
  OBVIOUS
<1> QED
  BY <1>1, FS_EmptySet DEF Before

LEMMA BeforeNext ==
    ASSUME NEW f, NEW p \in Nat
    PROVE  Before(f, p + 1) = Before(f, p) + (IF f[p + 1] = Space THEN 1 ELSE 0)
<1> DEFINE S(q) == {j \in 1..q : f[j] = Space}
<1>1. IsFiniteSet(S(p)) /\ Cardinality(S(p)) \in Nat
  BY Counting DEF Before
<1>2. CASE f[p + 1] = Space
  <2>1. S(p + 1) = S(p) \cup {p + 1} /\ p + 1 \notin S(p)
    BY <1>2
  <2> HIDE DEF S
  <2>2. Cardinality(S(p + 1)) = Cardinality(S(p)) + 1
    BY <1>1, <2>1, FS_AddElement
  <2> QED
    BY <1>2, <2>2 DEF Before, S
<1>3. CASE f[p + 1] # Space
  <2>1. S(p + 1) = S(p)
    BY <1>3
  <2> HIDE DEF S
  <2> QED
    BY <1>1, <1>3, <2>1 DEF Before, S
<1> QED
  BY <1>2, <1>3

(* No space, no more of them.                                              *)
LEMMA BeforeSkips ==
    ASSUME NEW f, NEW p \in Nat, NEW q \in Nat, p <= q,
           \A j \in p + 1..q : f[j] # Space
    PROVE  Before(f, q) = Before(f, p)
<1>1. {j \in 1..q : f[j] = Space} = {j \in 1..p : f[j] = Space}
  OBVIOUS
<1> QED
  BY <1>1 DEF Before

LEMMA BeforeSpace ==
    ASSUME NEW f, NEW p \in Nat, NEW q \in Nat, p < q, f[q] = Space
    PROVE  Before(f, p) < Before(f, q)
<1>1. q - 1 \in Nat /\ p \in 0..q - 1 /\ (q - 1) + 1 = q
  OBVIOUS
<1>2. Before(f, p) \in Nat /\ Before(f, q - 1) \in Nat /\ Before(f, p) <= Before(f, q - 1)
  BY <1>1, Counting
<1>3. Before(f, (q - 1) + 1) = Before(f, q - 1) + 1
  BY <1>1, BeforeNext
<1> QED
  BY <1>1, <1>2, <1>3

LEMMA BeforeSame ==
    ASSUME NEW f, NEW g, NEW p \in Nat, \A j \in 1..p : f[j] = g[j]
    PROVE  Before(f, p) = Before(g, p)
<1>1. {j \in 1..p : f[j] = Space} = {j \in 1..p : g[j] = Space}
  OBVIOUS
<1> QED
  BY <1>1 DEF Before

LEMMA BehindOnce ==
    ASSUME NEW f \in Seq(Byte), NEW k \in Nat, NEW p, NEW q,
           Behind(f, k, p), Behind(f, k, q)
    PROVE  p = q
<1>1. p \in Nat /\ q \in Nat
  BY DEF Behind
<1>2. ~ (p < q) /\ ~ (q < p)
  <2>1. ASSUME p < q PROVE FALSE
    BY <1>1, <2>1, BeforeSpace DEF Behind
  <2>2. ASSUME q < p PROVE FALSE
    BY <1>1, <2>2, BeforeSpace DEF Behind
  <2> QED
    BY <2>1, <2>2
<1> QED
  BY <1>1, <1>2

LEMMA CutIs ==
    ASSUME NEW f \in Seq(Byte), NEW k \in Nat, NEW p, Behind(f, k, p)
    PROVE  Cut(f, k) = p
<1>1. CASE k = 0
  <2>1. Behind(f, 0, 0)
    BY BeforeNone DEF Behind
  <2> QED
    BY <1>1, <2>1, BehindOnce DEF Cut
<1>2. CASE k # 0
  <2>1. p \in DOMAIN f /\ f[p] = Space /\ Before(f, p) = k
    BY <1>2, BeforeNone DEF Behind
  <2>2. ASSUME NEW q \in DOMAIN f, f[q] = Space, Before(f, q) = k PROVE q = p
    <3>1. Behind(f, k, q)
      BY <2>2 DEF Behind
    <3> QED
      BY <3>1, BehindOnce
  <2> QED
    BY <1>2, <2>1, <2>2 DEF Cut
<1> QED
  BY <1>1, <1>2

(* Every field that the file has ends somewhere.                           *)
LEMMA CutThere ==
    ASSUME NEW f \in Seq(Byte), NEW k \in Nat, NEW n \in 0..Len(f), k <= Before(f, n)
    PROVE  Behind(f, k, Cut(f, k)) /\ Cut(f, k) <= n
<1> DEFINE S == {p \in 0..n : k <= Before(f, p)}
<1>1. S \in SUBSET Nat /\ n \in S
  OBVIOUS
<1>2. PICK p \in S : \A q \in S : p <= q
  BY <1>1, LeastOf
<1>3. p \in 0..Len(f) /\ k <= Before(f, p) /\ Before(f, p) \in Nat /\ p <= n
  <2>1. p \in 0..n /\ p \in Nat /\ k <= Before(f, p) /\ p \in 0..Len(f)
    OBVIOUS
  <2>2. Before(f, p) \in Nat
    BY <2>1, Counting
  <2> QED
    BY <2>1, <2>2
<1>4. CASE p = 0
  <2>1. Behind(f, k, p)
    BY <1>3, <1>4, BeforeNone DEF Behind
  <2> QED
    BY <1>3, <2>1, CutIs
<1>5. CASE p # 0
  <2>1. p - 1 \in Nat /\ p - 1 \in 0..n /\ (p - 1) + 1 = p
    BY <1>3, <1>5
  <2>2. Before(f, p - 1) \in Nat
    BY <2>1, Counting
  <2>6. ~ (k <= Before(f, p - 1))
    BY <1>2, <2>1
  <2>3. Before(f, p) = Before(f, p - 1) + (IF f[p] = Space THEN 1 ELSE 0)
    BY <2>1, BeforeNext
  <2>4. f[p] = Space /\ Before(f, p) = k
    BY <1>3, <2>6, <2>2, <2>3
  <2>5. Behind(f, k, p)
    BY <1>3, <2>4 DEF Behind
  <2> QED
    BY <1>3, <2>5, CutIs
<1> QED
  BY <1>4, <1>5

(* What the file says does not change when it grows.                       *)
LEMMA LongerFile ==
    ASSUME NEW f \in Seq(Byte), NEW u \in Seq(Byte)
    PROVE  /\ f \o u \in Seq(Byte) /\ Len(f) <= Len(f \o u)
           /\ \A p \in 1..Len(f) : (f \o u)[p] = f[p]
           /\ \A p \in 0..Len(f) : Before(f \o u, p) = Before(f, p)
           /\ Before(f, Len(f)) \in Nat /\ Before(f \o u, Len(f \o u)) \in Nat
           /\ Before(f, Len(f)) <= Before(f \o u, Len(f \o u))
           /\ \A k \in Nat : \A p : Behind(f, k, p) => Behind(f \o u, k, p)
<1> DEFINE g == f \o u
<1>1. /\ g \in Seq(Byte) /\ Len(f) \in Nat /\ Len(g) \in Nat /\ Len(f) <= Len(g)
      /\ \A p \in 1..Len(f) : g[p] = f[p]
  OBVIOUS
<1> HIDE DEF g
<1>2. ASSUME NEW p \in 0..Len(f) PROVE Before(g, p) = Before(f, p)
  <2>1. p \in Nat /\ \A j \in 1..p : f[j] = g[j]
    BY <1>1
  <2> QED
    BY <2>1, BeforeSame
<1>3. /\ Before(f, Len(f)) \in Nat /\ Before(g, Len(g)) \in Nat
      /\ Before(f, Len(f)) <= Before(g, Len(g))
  <2>1. Len(f) \in 0..Len(g) /\ Len(f) \in 0..Len(f)
    BY <1>1
  <2>2. Before(g, Len(f)) = Before(f, Len(f))
    BY <1>2, <2>1
  <2> QED
    BY <1>1, <2>1, <2>2, Counting
<1>4. ASSUME NEW k \in Nat, NEW p, Behind(f, k, p) PROVE Behind(g, k, p)
  <2>1. p \in 0..Len(f) /\ Before(f, p) = k /\ (p = 0 \/ f[p] = Space)
    BY <1>4 DEF Behind
  <2>2. p \in 0..Len(g) /\ (p = 0 \/ g[p] = f[p])
    BY <1>1, <2>1
  <2>3. Before(g, p) = k
    BY <1>2, <2>1
  <2> QED
    BY <2>1, <2>2, <2>3 DEF Behind
<1> QED
  BY <1>1, <1>2, <1>3, <1>4 DEF g

LEMMA SameSeq ==
    ASSUME NEW B, NEW s \in Seq(B), NEW t \in Seq(B), Len(s) = Len(t),
           \A k \in 1..Len(s) : s[k] = t[k]
    PROVE  s = t
OBVIOUS

(* Parts of two sequences, the second one d places further on.             *)
LEMMA SameParts ==
    ASSUME NEW B, NEW s \in Seq(B), NEW t \in Seq(B),
           NEW i \in Nat \ {0}, NEW e \in Nat, e <= Len(s),
           NEW j \in Nat \ {0}, NEW l \in Nat, l <= Len(t),
           e - i = l - j,
           \A k \in i..e : s[k] = t[k + (j - i)]
    PROVE  SubSeq(s, i, e) = SubSeq(t, j, l)
<1> DEFINE u == SubSeq(s, i, e)
           v == SubSeq(t, j, l)
           n == IF i <= e THEN e - i + 1 ELSE 0
<1>1. u \in Seq(B) /\ Len(u) = n /\ \A k \in 1..n : u[k] = s[i + k - 1]
  <2>1. u \in Seq(B) /\ Len(u) = n
    BY PartOfSeq
  <2>2. \A k \in 1..n : u[k] = s[i + k - 1]
    OBVIOUS
  <2> QED
    BY <2>1, <2>2
<1>2. v \in Seq(B) /\ Len(v) = n /\ \A k \in 1..n : v[k] = t[j + k - 1]
  <2>1. v \in Seq(B) /\ Len(v) = n
    BY PartOfSeq
  <2>2. \A k \in 1..n : v[k] = t[j + k - 1]
    OBVIOUS
  <2> QED
    BY <2>1, <2>2
<1>3. n \in Nat /\ \A k \in 1..n : i + k - 1 \in i..e /\ (i + k - 1) + (j - i) = j + k - 1
  OBVIOUS
<1> HIDE DEF u, v, n
<1>4. \A k \in 1..n : u[k] = v[k]
  BY <1>1, <1>2, <1>3
<1>5. u = v
  BY <1>1, <1>2, <1>4, SameSeq
<1> QED
  BY <1>5 DEF u, v

LEMMA PartKind ==
    ASSUME NEW B, NEW C, NEW s \in Seq(B), NEW i \in Nat \ {0}, NEW e \in Nat,
           e <= Len(s), \A k \in i..e : s[k] \in C
    PROVE  SubSeq(s, i, e) \in Seq(C)
<1> DEFINE u == SubSeq(s, i, e)
           n == IF i <= e THEN e - i + 1 ELSE 0
<1>1. u \in Seq(B) /\ Len(u) = n
  BY PartOfSeq
<1>2. n \in Nat /\ \A k \in 1..n : u[k] = s[i + k - 1] /\ i + k - 1 \in i..e
  OBVIOUS
<1> HIDE DEF u, n
<1>3. \A k \in 1..n : u[k] \in C
  BY <1>2
<1>4. DOMAIN u = 1..n /\ u = [k \in 1..n |-> u[k]]
  BY <1>1
<1>5. u \in [1..n -> C]
  BY <1>3, <1>4
<1> QED
  BY <1>2, <1>5 DEF u

LEMMA LongerFields ==
    ASSUME NEW f \in Seq(Byte), NEW u \in Seq(Byte),
           NEW k \in Nat \ {0}, k <= Before(f, Len(f))
    PROVE  Field(f \o u, k) = Field(f, k) /\ Cut(f \o u, k) = Cut(f, k)
<1> DEFINE g == f \o u
<1>1. ASSUME NEW i \in Nat, i <= Before(f, Len(f))
      PROVE  Cut(g, i) = Cut(f, i) /\ Cut(f, i) \in 0..Len(f)
  <2>1. Len(f) \in 0..Len(f)
    OBVIOUS
  <2>2. Behind(f, i, Cut(f, i))
    BY <1>1, <2>1, CutThere
  <2>3. g \in Seq(Byte) /\ Behind(g, i, Cut(f, i))
    BY <2>2, LongerFile
  <2> HIDE DEF g
  <2> QED
    BY <2>2, <2>3, CutIs DEF Behind
<1>2. Before(f, Len(f)) \in Nat /\ k - 1 \in Nat /\ k - 1 <= Before(f, Len(f))
  BY LongerFile
<1>3. Cut(g, k) = Cut(f, k) /\ Cut(f, k) \in 0..Len(f)
  BY <1>1
<1>4. Cut(g, k - 1) = Cut(f, k - 1) /\ Cut(f, k - 1) \in 0..Len(f)
  BY <1>1, <1>2
<1>5. \A a, b \in 0..Len(f) : SubSeq(g, a + 1, b - 1) = SubSeq(f, a + 1, b - 1)
  <2> SUFFICES ASSUME NEW a \in 0..Len(f), NEW b \in 0..Len(f)
               PROVE  SubSeq(g, a + 1, b - 1) = SubSeq(f, a + 1, b - 1)
    OBVIOUS
  <2>1. g \in Seq(Byte) /\ Len(f) <= Len(g) /\ \A p \in 1..Len(f) : g[p] = f[p]
    BY LongerFile
  <2> HIDE DEF g
  <2>2. CASE b = 0
    <3>1. b - 1 < a + 1
      BY <2>2
    <3> QED
      BY <3>1, <2>1
  <2>3. CASE b # 0
    <3>1. /\ a + 1 \in Nat \ {0} /\ b - 1 \in Nat
          /\ b - 1 <= Len(g) /\ b - 1 <= Len(f)
          /\ \A k2 \in a + 1..b - 1 : g[k2] = f[k2 + ((a + 1) - (a + 1))]
      BY <2>1, <2>3
    <3> QED
      BY <2>1, <3>1, SameParts
  <2> QED
    BY <2>2, <2>3
<1> HIDE DEF g
<1> QED
  BY <1>3, <1>4, <1>5 DEF Field, g

-----------------------------------------------------------------------------
(* The buffer.                                                             *)

(* The bytes of a buffer behind its cursor, up to the j-th one.            *)
FieldTo(b, j) ==
    /\ j \in kcn_buf_headingdata(b) + 1..Len(b.data)
    /\ b.data[j] \notin Printable
    /\ \A k \in kcn_buf_headingdata(b) + 1..j - 1 : b.data[k] \in Printable

LEMMA GoodParts ==
    ASSUME NEW size \in Nat, NEW b \in GoodBufs(Byte, size)
    PROVE  /\ b.data \in Seq(Byte) /\ Len(b.data) \in Nat
           /\ b.sp \in Nat /\ b.cp \in Nat
           /\ kcn_buf_headingdata(b) \in 0..Len(b.data)
           /\ b.cp = b.sp + kcn_buf_headingdata(b)
           /\ b.sp + Len(b.data) <= size
           /\ b = [sp |-> b.sp, cp |-> b.cp, data |-> b.data]
BY DEF GoodBufs, KcnBufs, kcn_buf_ok, kb_ep, kcn_buf_headingdata

LEMMA MakeGood ==
    ASSUME NEW size \in Nat, NEW sp \in Nat, NEW cp \in Nat, NEW d \in Seq(Byte),
           sp <= cp, cp <= sp + Len(d), sp + Len(d) <= size
    PROVE  /\ [sp |-> sp, cp |-> cp, data |-> d] \in GoodBufs(Byte, size)
           /\ kcn_buf_headingdata([sp |-> sp, cp |-> cp, data |-> d]) = cp - sp
BY DEF GoodBufs, KcnBufs, kcn_buf_ok, kb_ep, kcn_buf_headingdata

LEMMA ForwardStops ==
    ASSUME NEW size \in Nat, NEW b \in GoodBufs(Byte, size)
    PROVE  LET h == kcn_buf_headingdata(b)
               n == Len(b.data)
           IN  \/ /\ \A j \in h + 1..n : b.data[j] \in Printable
                  /\ forward(b) = [rc |-> "EAGAIN", kb |-> kcn_buf_forward(b, n - h)]
               \/ \E j \in h + 1..n :
                     /\ FieldTo(b, j)
                     /\ forward(b) =
                           [rc    |-> IF b.data[j] = Space THEN "ok" ELSE "EINVAL",
                            kb    |-> kcn_buf_forward(b, j - h),
                            field |-> SubSeq(b.data, h + 1, j - 1)]
<1> DEFINE h == kcn_buf_headingdata(b)
           n == Len(b.data)
           I == {j \in h + 1..n : b.data[j] \notin Printable}
<1>1. h \in Nat /\ n \in Nat
  BY GoodParts
<1> DEFINE J == SelectInSubSeq(b.data, h + 1, Len(b.data),
                               LAMBDA c : c \notin Printable)
<1>2. J = IF I # {} THEN Min(I) ELSE 0
  BY DEF SelectInSubSeq
<1>3. CASE I = {}
  <2>1. J = 0 /\ \A j \in h + 1..n : b.data[j] \in Printable
    BY <1>2, <1>3
  <2> QED
    BY <2>1 DEF forward
<1>4. CASE I # {}
  <2>1. I \in SUBSET Nat
    BY <1>1
  <2>2. PICK m \in I : \A y \in I : m <= y
    BY <1>4, <2>1, LeastOf
  <2>3. Min(I) \in I /\ \A y \in I : Min(I) <= y
    BY <2>2 DEF Min
  <2>4. J \in I /\ \A y \in I : J <= y
    BY <1>2, <1>4, <2>3
  <2>5. J \in h + 1..n /\ b.data[J] \notin Printable /\ J # 0
    BY <1>1, <2>4
  <2>6. ASSUME NEW k \in h + 1..J - 1 PROVE b.data[k] \in Printable
    <3>1. k \in h + 1..n /\ ~ (J <= k)
      BY <1>1, <2>5
    <3>2. k \notin I
      BY <2>4, <3>1
    <3> QED
      BY <3>1, <3>2
  <2>7. FieldTo(b, J)
    BY <2>5, <2>6 DEF FieldTo
  <2>8. forward(b) =
            [rc    |-> IF b.data[J] = Space THEN "ok" ELSE "EINVAL",
             kb    |-> kcn_buf_forward(b, J - h),
             field |-> SubSeq(b.data, h + 1, J - 1)]
    BY <2>5 DEF forward
  <2> QED
    BY <2>5, <2>7, <2>8
<1> QED
  BY <1>3, <1>4

(* The cursor behind the j-th byte, ...                                    *)
LEMMA ForwardTo ==
    ASSUME NEW size \in Nat, NEW b \in GoodBufs(Byte, size),
           NEW j \in kcn_buf_headingdata(b)..Len(b.data)
    PROVE  LET r == kcn_buf_forward(b, j - kcn_buf_headingdata(b))
           IN  /\ r \in GoodBufs(Byte, size)
               /\ kcn_buf_headingdata(r) = j /\ r.data = b.data
<1> DEFINE h == kcn_buf_headingdata(b)
           r == kcn_buf_forward(b, j - h)
<1>1. /\ b.data \in Seq(Byte) /\ Len(b.data) \in Nat /\ b.sp \in Nat /\ b.cp \in Nat
      /\ h \in 0..Len(b.data) /\ b.cp = b.sp + h /\ b.sp + Len(b.data) <= size
  BY GoodParts
<1>2. r = [sp |-> b.sp, cp |-> b.sp + j, data |-> b.data]
  BY <1>1 DEF kcn_buf_forward
<1>3. b.sp + j \in Nat /\ b.sp <= b.sp + j /\ b.sp + j <= b.sp + Len(b.data)
      /\ (b.sp + j) - b.sp = j
  BY <1>1
<1> HIDE DEF r
<1> QED
  BY <1>1, <1>2, <1>3, MakeGood DEF r

(* ... and this byte overwritten.                                          *)
LEMMA NulPut ==
    ASSUME NEW size \in Nat, NEW b \in GoodBufs(Byte, size),
           NEW j \in kcn_buf_headingdata(b) + 1..Len(b.data)
    PROVE  LET f == kcn_buf_forward(b, j - kcn_buf_headingdata(b))
               r == kcn_buf_put(kcn_buf_backward(f, 1), <<Nul>>)
           IN  /\ r \in GoodBufs(Byte, size)
               /\ kcn_buf_headingdata(r) = j
               /\ r.data = [b.data EXCEPT ![j] = Nul]
<1> DEFINE h == kcn_buf_headingdata(b)
           n == Len(b.data)
           f == kcn_buf_backward(kcn_buf_forward(b, j - h), 1)
           r == kcn_buf_put(f, <<Nul>>)
           d == SubSeq(b.data, 1, j - 1) \o <<Nul>> \o SubSeq(b.data, j + 1, n)
<1>1. /\ b.data \in Seq(Byte) /\ n \in Nat /\ b.sp \in Nat /\ b.cp \in Nat
      /\ h \in 0..n /\ b.cp = b.sp + h /\ b.sp + n <= size
  BY GoodParts
<1>2. f = [sp |-> b.sp, cp |-> b.sp + (j - 1), data |-> b.data]
  <2>1. f = [sp |-> b.sp, cp |-> b.cp + (j - h) - 1, data |-> b.data]
    <3> DEFINE m == j - h
    <3>3. m \in Int /\ b.cp \in Nat
      BY <1>1
    <3> HIDE DEF m
    <3>1. kcn_buf_forward(b, m) = [sp |-> b.sp, cp |-> b.cp + m, data |-> b.data]
      BY DEF kcn_buf_forward
    <3>2. kcn_buf_backward([sp |-> b.sp, cp |-> b.cp + m, data |-> b.data], 1)
            = [sp |-> b.sp, cp |-> b.cp + m - 1, data |-> b.data]
      <4> DEFINE z == [sp |-> b.sp, cp |-> b.cp + m, data |-> b.data]
      <4>1. z.sp = b.sp /\ z.cp = b.cp + m /\ z.data = b.data
        OBVIOUS
      <4> HIDE DEF z
      <4>2. kcn_buf_backward(z, 1) = [sp |-> b.sp, cp |-> b.cp + m - 1, data |-> b.data]
        BY <3>3, <4>1 DEF kcn_buf_backward
      <4> QED
        BY <4>2 DEF z
    <3> QED
      BY <3>1, <3>2 DEF m
  <2>2. b.cp + (j - h) - 1 = b.sp + (j - 1)
    BY <1>1
  <2> QED
    BY <2>1, <2>2
<1>3. j \in 1..n /\ b.sp + (j - 1) \in Nat /\ (b.sp + (j - 1)) - b.sp = j - 1
      /\ (b.sp + (j - 1)) + 1 = b.sp + j /\ (j - 1) + 1 = j
  BY <1>1
<1>4. r = [sp |-> b.sp, cp |-> b.sp + j, data |-> d]
  <2>1. kcn_buf_headingdata(f) = j - 1 /\ Len(<<Nul>>) = 1
    BY <1>2, <1>3 DEF kcn_buf_headingdata
  <2> HIDE DEF f
  <2>2. r = [sp |-> f.sp, cp |-> f.cp + 1,
             data |-> SubSeq(f.data, 1, j - 1) \o <<Nul>>
                        \o SubSeq(f.data, (j - 1) + 1 + 1, Len(f.data))]
    BY <2>1 DEF kcn_buf_put
  <2> QED
    BY <1>2, <1>3, <2>2
<1>5. d = [b.data EXCEPT ![j] = Nul]
  <2> DEFINE x == SubSeq(b.data, 1, j - 1)
             z == SubSeq(b.data, j + 1, n)
             e == [b.data EXCEPT ![j] = Nul]
  <2>1. /\ x \in Seq(Byte) /\ Len(x) = j - 1 /\ \A k \in 1..j - 1 : x[k] = b.data[k]
        /\ z \in Seq(Byte) /\ Len(z) = n - j
        /\ \A k \in 1..n - j : z[k] = b.data[j + k]
    <3>5. /\ x \in Seq(Byte) /\ Len(x) = IF 1 <= j - 1 THEN (j - 1) - 1 + 1 ELSE 0
          /\ z \in Seq(Byte) /\ Len(z) = IF j + 1 <= n THEN n - (j + 1) + 1 ELSE 0
      <4>1. j - 1 \in Nat /\ j - 1 <= n /\ j + 1 \in Nat /\ j + 1 >= 1
        BY <1>1, <1>3
      <4> QED
        BY <1>1, <4>1, PartOfSeq
    <3>6. /\ (IF 1 <= j - 1 THEN (j - 1) - 1 + 1 ELSE 0) = j - 1
          /\ (IF j + 1 <= n THEN n - (j + 1) + 1 ELSE 0) = n - j
      BY <1>1, <1>3
    <3>1. x \in Seq(Byte) /\ Len(x) = j - 1 /\ z \in Seq(Byte) /\ Len(z) = n - j
      BY <3>5, <3>6
    <3>2. \A k \in 1..j - 1 : x[k] = b.data[k]
      BY <1>1, <1>3
    <3>3. \A k \in 1..n - j : z[k] = b.data[j + k]
      BY <1>1, <1>3
    <3> QED
      BY <3>1, <3>2, <3>3
  <2>2. Nul \in Byte /\ <<Nul>> \in Seq(Byte) /\ Len(<<Nul>>) = 1 /\ <<Nul>>[1] = Nul
    BY DEF Byte
  <2> HIDE DEF x, z
  <2>3. /\ x \o <<Nul>> \in Seq(Byte) /\ Len(x \o <<Nul>>) = j
        /\ \A k \in 1..j : (x \o <<Nul>>)[k] = IF k = j THEN Nul ELSE x[k]
    BY <1>3, <2>1, <2>2
  <2> DEFINE y == x \o <<Nul>>
  <2>4. d = y \o z
    BY DEF x, z
  <2> HIDE DEF y, d
  <2>5. /\ d \in Seq(Byte) /\ Len(d) = n
        /\ \A k \in 1..n : d[k] = IF k <= j THEN y[k] ELSE z[k - j]
    <3>1. y \in Seq(Byte) /\ Len(y) = j
      BY <2>3 DEF y
    <3>2. Len(y \o z) = Len(y) + Len(z) /\ y \o z \in Seq(Byte)
      BY <2>1, <3>1, Glued
    <3>3. \A k \in 1..j : (y \o z)[k] = y[k]
      BY <2>1, <3>1
    <3>4. \A k \in 1..n - j : (y \o z)[j + k] = z[k]
      BY <2>1, <3>1, <1>3
    <3>5. ASSUME NEW k \in 1..n PROVE d[k] = IF k <= j THEN y[k] ELSE z[k - j]
      <4>1. CASE k <= j
        <5>1. k \in 1..j
          BY <1>3, <4>1
        <5> QED
          BY <2>4, <3>3, <4>1, <5>1
      <4>2. CASE ~ (k <= j)
        <5>1. k - j \in 1..n - j /\ j + (k - j) = k
          BY <1>1, <1>3, <4>2
        <5> QED
          BY <2>4, <3>4, <4>2, <5>1
      <4> QED
        BY <4>1, <4>2
    <3>6. j + (n - j) = n
      BY <1>1, <1>3
    <3> QED
      BY <2>1, <2>4, <3>1, <3>2, <3>5, <3>6
  <2>6. e \in Seq(Byte) /\ Len(e) = n
        /\ \A k \in 1..n : e[k] = IF k = j THEN Nul ELSE b.data[k]
    BY <1>1, <2>2
  <2> HIDE DEF e
  <2>7. ASSUME NEW k \in 1..n PROVE d[k] = e[k]
    <3>1. CASE k <= j
      <4>1. k \in 1..j /\ (k # j => k \in 1..j - 1)
        BY <1>1, <1>3, <3>1
      <4> QED
        BY <2>1, <2>3, <2>5, <2>6, <3>1, <4>1 DEF y
    <3>2. CASE ~ (k <= j)
      <4>1. k - j \in 1..n - j /\ j + (k - j) = k
        BY <1>1, <1>3, <3>2
      <4> QED
        BY <1>3, <2>1, <2>5, <2>6, <3>2, <4>1
    <3> QED
      BY <3>1, <3>2
  <2> HIDE DEF n
  <2>8. d = e
    BY <2>5, <2>6, <2>7, SameSeq
  <2> QED
    BY <2>8 DEF e
<1>6. /\ d \in Seq(Byte) /\ Len(d) = n
      /\ b.sp <= b.sp + j /\ b.sp + j <= b.sp + n /\ (b.sp + j) - b.sp = j /\ b.sp + j \in Nat
  <2>1. Nul \in Byte
    BY DEF Byte
  <2> HIDE DEF d
  <2>2. d \in Seq(Byte) /\ Len(d) = n
    BY <1>1, <1>5, <2>1
  <2>3. /\ b.sp <= b.sp + j /\ b.sp + j <= b.sp + n
        /\ (b.sp + j) - b.sp = j /\ b.sp + j \in Nat
    <3>1. \A x, y \in Nat : \A k \in 1..y : x <= x + k /\ x + k <= x + y
                                 /\ (x + k) - x = k /\ x + k \in Nat
      OBVIOUS
    <3> QED
      BY <1>1, <1>3, <3>1
  <2> QED
    BY <2>2, <2>3
<1> HIDE DEF d
<1>7. [sp |-> b.sp, cp |-> b.sp + j, data |-> d] \in GoodBufs(Byte, size)
  BY <1>1, <1>6, MakeGood
<1>8. kcn_buf_headingdata([sp |-> b.sp, cp |-> b.sp + j, data |-> d]) = j
  BY <1>6 DEF kcn_buf_headingdata
<1> QED
  BY <1>4, <1>5, <1>7, <1>8

-----------------------------------------------------------------------------
(* The field that the cursor stands before.                                *)

LEMMA Kinds ==
    /\ Space \notin Printable /\ Nul \notin Printable /\ Space # Nul
    /\ Space \in Byte /\ Nul \in Byte /\ Printable \subseteq Byte
    /\ Digit \cup {Plus, Minus} \subseteq Printable
BY FileAssumption DEF Printable, Byte

(* What is made of a number is one of 64 bits.                             *)
LEMMA StrtoullIs ==
    ASSUME NEW s
    PROVE  kcn_strtoull(s) \in 0..ULLONG_MAX /\ Says(s, kcn_strtoull(s))
<1> DEFINE n == Number(s)
           m == Negative(s)
<1>1. LLONG_MAX \in Nat /\ ULLONG_MAX = 2 * LLONG_MAX + 1
  BY FileAssumption DEF ULLONG_MAX
<1>2. kcn_strtoull(s) =
          IF ~ m
          THEN IF n \in 0..LLONG_MAX THEN n ELSE LLONG_MAX
          ELSE IF n \in 1..LLONG_MAX THEN ULLONG_MAX + 1 - n
          ELSE IF n = 0 THEN 0 ELSE LLONG_MAX + 1
  BY DEF kcn_strtoull
<1>3. \A v : /\ n \in 0..LLONG_MAX /\ (m => n = 0) => v = n
             /\ n \in 1..LLONG_MAX /\ m => v + n = ULLONG_MAX + 1
             /\ n \notin 0..LLONG_MAX => v \in {LLONG_MAX, LLONG_MAX + 1}
             => Says(s, v)
  BY DEF Says
<1> HIDE DEF n, m
<1> DEFINE v == kcn_strtoull(s)
<1>4. v \in 0..ULLONG_MAX
  BY <1>1, <1>2
<1>5. /\ n \in 0..LLONG_MAX /\ (m => n = 0) => v = n
      /\ n \in 1..LLONG_MAX /\ m => v + n = ULLONG_MAX + 1
      /\ n \notin 0..LLONG_MAX => v \in {LLONG_MAX, LLONG_MAX + 1}
  BY <1>1, <1>2
<1> HIDE DEF v
<1>6. Says(s, v)
  BY <1>3, <1>5
<1> QED
  BY <1>4, <1>6 DEF v

(* What the state has to do with the file.                                 *)
LEMMA Shape ==
    ASSUME FileInv
    PROVE  /\ file \in Seq(Byte) /\ Len(file) \in Nat /\ filesize \in Nat
           /\ off \in Nat /\ off <= Len(file) /\ bufsize \in Nat
           /\ kb \in GoodBufs(Byte, bufsize)
           /\ kb.data \in Seq(Byte) /\ Len(kb.data) \in Nat
           /\ start \in Nat /\ start + Len(kb.data) = off
           /\ head \in 0..Len(kb.data)
           /\ sent \in Seq([time : 0..ULLONG_MAX, val : 0..ULLONG_MAX,
                            loc : Seq(Printable)])
           /\ Len(sent) \in Nat /\ Parsed \in 0..2
           /\ \A j \in 1..Len(file) : file[j] # Nul
<1>1. /\ file \in Seq(Byte \ {Nul}) /\ filesize \in Nat /\ off \in Nat
      /\ kb \in GoodBufs(Byte, bufsize)
      /\ sent \in Seq([time : 0..ULLONG_MAX, val : 0..ULLONG_MAX, loc : Seq(Printable)])
  BY DEF FileInv, TypeOK
<1>2. file \in Seq(Byte) /\ Len(file) \in Nat /\ \A j \in 1..Len(file) : file[j] # Nul
  BY <1>1
<1>3. bufsize \in Nat
  BY <1>1, FileAssumption DEF bufsize, Smaller
<1>4. /\ kb.data \in Seq(Byte) /\ Len(kb.data) \in Nat
      /\ kcn_buf_headingdata(kb) \in 0..Len(kb.data)
  BY <1>1, <1>3, GoodParts
<1>5. off <= Len(file) /\ Len(kb.data) <= off
  BY DEF FileInv, FileOK
<1>6. start \in Nat /\ start + Len(kb.data) = off
  BY <1>1, <1>4, <1>5 DEF start
<1>7. Parsed \in 0..2
  BY DEF Parsed
<1>8. Len(sent) \in Nat
  BY <1>1
<1> QED
  BY <1>1, <1>2, <1>3, <1>4, <1>5, <1>6, <1>7, <1>8 DEF head

(* A byte of the buffer that was not overwritten is one of the file.       *)
LEMMA CopiedByte ==
    ASSUME FileInv, NEW j \in 1..Len(kb.data)
    PROVE  /\ start + j \in 1..Len(file)
           /\ kb.data[j] # Nul => file[start + j] = kb.data[j]
           /\ kb.data[j] = Nul => file[start + j] = Space
<1>1. kb.data[j] = file[start + j] \/ (kb.data[j] = Nul /\ file[start + j] = Space)
  BY DEF FileInv, Copied
<1>2. start + j \in 1..Len(file)
  <2>1. \A a, n, o, l \in Nat : a + n = o /\ o <= l /\ j \in 1..n => a + j \in 1..l
    OBVIOUS
  <2> QED
    BY <2>1, Shape
<1>3. file[start + j] # Nul
  BY <1>2, Shape
<1> QED
  BY <1>1, <1>2, <1>3

(* The fields up to the cursor.                                            *)
LEMMA AtCursor ==
    ASSUME FileInv, pc # "end"
    PROVE  /\ Behind(file, 3 * Len(sent), start)
           /\ Behind(file, 3 * Len(sent) + Parsed, start + head)
           /\ Before(file, start + head) = 3 * Len(sent) + Parsed
           /\ start + head \in Nat /\ 3 * Len(sent) + Parsed \in Nat
           /\ Cut(file, 3 * Len(sent) + Parsed) = start + head
<1>1. /\ Behind(file, 3 * Len(sent), start)
      /\ Behind(file, 3 * Len(sent) + Parsed, start + head)
  BY DEF FileInv, AtRecord
<1>2. start + head \in Nat /\ 3 * Len(sent) + Parsed \in Nat
  <2>1. \A a, b \in Nat : \A c \in 0..2 : \A d \in 0..b : a + d \in Nat /\ 3 * a + c \in Nat
    OBVIOUS
  <2> QED
    BY Shape, <2>1
<1>3. Cut(file, 3 * Len(sent) + Parsed) = start + head
  BY <1>1, <1>2, Shape, CutIs
<1> QED
  BY <1>1, <1>2, <1>3 DEF Behind

LEMMA SkipsFields ==
    ASSUME FileInv, pc # "end", NEW j \in head..Len(kb.data),
           \A k \in head + 1..j : kb.data[k] \in Printable
    PROVE  /\ Before(file, start + j) = 3 * Len(sent) + Parsed
           /\ \A k \in head + 1..j : file[start + k] = kb.data[k]
<1>1. /\ start \in Nat /\ head \in Nat /\ j \in Nat /\ start + head \in Nat
      /\ start + j \in Nat /\ start + head <= start + j
  BY Shape
<1>2. ASSUME NEW k \in head + 1..j
      PROVE  file[start + k] = kb.data[k] /\ file[start + k] # Space
  <2>1. k \in 1..Len(kb.data)
    BY Shape
  <2>2. kb.data[k] # Nul /\ kb.data[k] # Space
    BY Kinds
  <2> QED
    BY <2>1, <2>2, CopiedByte
<1>3. \A p \in start + head + 1..start + j : file[p] # Space
  <2> TAKE p \in start + head + 1..start + j
  <2>1. p - start \in head + 1..j /\ start + (p - start) = p
    BY <1>1
  <2> QED
    BY <1>2, <2>1
<1>4. Before(file, start + j) = Before(file, start + head)
  BY <1>1, <1>3, BeforeSkips
<1> QED
  BY <1>2, <1>4, AtCursor

LEMMA FieldRead ==
    ASSUME FileInv, pc # "end", NEW j, FieldTo(kb, j), kb.data[j] = Space
    PROVE  LET k == 3 * Len(sent) + Parsed + 1
               s == SubSeq(kb.data, head + 1, j - 1)
           IN  /\ j \in head + 1..Len(kb.data) /\ file[start + j] = Space
               /\ Behind(file, k, start + j) /\ k \in Nat
               /\ Field(file, k) = s /\ s \in Seq(Printable)
<1> DEFINE k == 3 * Len(sent) + Parsed + 1
           s == SubSeq(kb.data, head + 1, j - 1)
<1>1. /\ j \in head + 1..Len(kb.data)
      /\ \A i \in head + 1..j - 1 : kb.data[i] \in Printable
  BY DEF FieldTo, head
<1>2. /\ start \in Nat /\ head \in 0..Len(kb.data) /\ Len(kb.data) \in Nat
      /\ kb.data \in Seq(Byte) /\ file \in Seq(Byte)
  BY Shape
<1>3. j \in Nat /\ j - 1 \in head..Len(kb.data) /\ j \in 1..Len(kb.data)
      /\ start + (j - 1) \in Nat /\ (start + (j - 1)) + 1 = start + j
      /\ (start + j) - 1 = start + (j - 1)
  BY <1>1, <1>2
<1>4. start + j \in 1..Len(file) /\ file[start + j] = Space
  BY <1>3, Kinds, CopiedByte
<1>5. /\ Before(file, start + (j - 1)) = 3 * Len(sent) + Parsed
      /\ \A i \in head + 1..j - 1 : file[start + i] = kb.data[i]
  BY <1>1, <1>3, SkipsFields
<1>6. Before(file, start + j) = k
  BY <1>3, <1>4, <1>5, BeforeNext
<1>7. k \in Nat /\ k - 1 = 3 * Len(sent) + Parsed
  <2>1. \A a \in Nat : (a + 1) - 1 = a /\ a + 1 \in Nat
    OBVIOUS
  <2> QED
    BY <2>1, AtCursor
<1> HIDE DEF k
<1>8. Behind(file, k, start + j)
  BY <1>4, <1>6 DEF Behind
<1>9. Cut(file, k) = start + j /\ Cut(file, k - 1) = start + head
  BY <1>2, <1>7, <1>8, CutIs, AtCursor
<1> DEFINE i1 == start + head + 1
           e1 == start + j - 1
           i2 == head + 1
           e2 == j - 1
<1>10. /\ i1 \in Nat \ {0} /\ e1 \in Nat /\ e1 <= Len(file)
       /\ i2 \in Nat \ {0} /\ e2 \in Nat /\ e2 <= Len(kb.data)
       /\ e1 - i1 = e2 - i2
  BY <1>1, <1>2, <1>3, <1>4
<1>11. ASSUME NEW p \in i1..e1 PROVE file[p] = kb.data[p + (i2 - i1)]
  <2>1. /\ p - start \in head + 1..j - 1 /\ start + (p - start) = p
        /\ p + (i2 - i1) = p - start
    BY <1>1, <1>2, <1>3
  <2> QED
    BY <1>5, <2>1
<1>12. \A i \in i2..e2 : kb.data[i] \in Printable
  BY <1>1
<1>13. Field(file, k) = SubSeq(file, i1, e1) /\ s = SubSeq(kb.data, i2, e2)
  <2>1. Field(file, k) = SubSeq(file, Cut(file, k - 1) + 1, Cut(file, k) - 1)
    BY DEF Field
  <2>2. Cut(file, k - 1) + 1 = i1 /\ Cut(file, k) - 1 = e1
    <3>1. Cut(file, k - 1) + 1 = i1
      BY <1>2, <1>9
    <3>2. Cut(file, k) - 1 = e1
      BY <1>2, <1>3, <1>9
    <3> QED
      BY <3>1, <3>2
  <2>3. s = SubSeq(kb.data, i2, e2)
    OBVIOUS
  <2> HIDE DEF s, i1, e1, i2, e2
  <2> QED
    BY <2>1, <2>2, <2>3
<1> HIDE DEF i1, e1, i2, e2
<1>14. SubSeq(file, i1, e1) = SubSeq(kb.data, i2, e2)
  BY <1>2, <1>10, <1>11, SameParts
<1>15. SubSeq(kb.data, i2, e2) \in Seq(Printable)
  BY <1>2, <1>10, <1>12, PartKind
<1> QED
  BY <1>1, <1>4, <1>7, <1>8, <1>13, <1>14, <1>15 DEF k

-----------------------------------------------------------------------------
(* Why a record is refused.                                                *)

Caused ==
    LET k == Len(sent) + 1
    IN  \/ k > Complete(file)
        \/ ~ WellFormed(file, k)
        \/ Length(file, k) > KCN_MSG_MAXSIZ

LEMMA Covers ==
    ASSUME FileInv, NEW r, r = Len(sent), ~ (r + 1 > Complete(file))
    PROVE  /\ 3 * r + 3 <= Before(file, Len(file)) /\ r \in Nat
           /\ 3 * (r + 1) = 3 * r + 3 /\ 3 * (r + 1) - 3 = 3 * r
           /\ 3 * (r + 1) - 2 = 3 * r + 1 /\ 3 * (r + 1) - 1 = 3 * r + 2
<1>1. Before(file, Len(file)) \in Nat /\ r \in Nat
  BY Shape, Counting
<1>2. \A x, y \in Nat : ~ (y + 1 > x \div 3) => 3 * y + 3 <= x
  OBVIOUS
<1>3. 3 * r + 3 <= Before(file, Len(file))
  BY <1>1, <1>2 DEF Complete
<1> QED
  BY <1>1, <1>3

LEMMA LongCaused ==
    ASSUME FileInv, TooLong(file, 3 * Len(sent) + 3, start)
    PROVE  Caused
<1> DEFINE r == Len(sent)
           q == Cut(file, 3 * r + 3)
<1> SUFFICES ASSUME ~ (r + 1 > Complete(file))
             PROVE  Length(file, r + 1) > KCN_MSG_MAXSIZ
  BY DEF Caused
<1>1. /\ 3 * r + 3 <= Before(file, Len(file)) /\ r \in Nat
      /\ 3 * (r + 1) = 3 * r + 3 /\ 3 * (r + 1) - 3 = 3 * r
  BY Covers
<1>2. Behind(file, 3 * r + 3, q)
  <2>1. Len(file) \in 0..Len(file) /\ 3 * r + 3 \in Nat /\ file \in Seq(Byte)
    BY <1>1, Shape
  <2> QED
    BY <1>1, <2>1, CutThere
<1>3. Behind(file, 3 * r, start) /\ Cut(file, 3 * r) = start
  <2>1. Behind(file, 3 * r, start)
    BY DEF FileInv, AtRecord
  <2> QED
    BY <1>1, <2>1, Shape, CutIs
<1>4. Length(file, r + 1) = q - start
  BY <1>1, <1>3 DEF Length
<1>5. q \in 0..Len(file) /\ start \in Nat /\ Len(file) \in Nat
      /\ Before(file, q) = 3 * r + 3 /\ Before(file, start) = 3 * r
  BY <1>2, <1>3, Shape DEF Behind
<1> HIDE DEF q, r
<1>6. start <= q
  <2>1. ASSUME q < start PROVE FALSE
    <3>1. Before(file, q) <= Before(file, start)
      BY <1>5, <2>1, BeforeLess
    <3> QED
      BY <1>1, <1>5, <3>1
  <2> QED
    BY <1>5, <2>1
<1>7. q \in start..Len(file) /\ ~ (Before(file, q) < 3 * r + 3)
  BY <1>1, <1>5, <1>6
<1>8. ~ (q <= start + KCN_MSG_MAXSIZ)
  BY <1>7 DEF TooLong, r
<1> QED
  BY <1>4, <1>5, <1>8, FileAssumption

(* A byte that is neither printable nor a space, or that was overwritten.  *)
LEMMA BadField ==
    ASSUME FileInv, pc # "end", NEW j, FieldTo(kb, j), kb.data[j] # Space,
           Len(file) = filesize
    PROVE  Caused
<1> DEFINE r == Len(sent)
           k == 3 * r + Parsed + 1
           p == start + head
           q == Cut(file, k)
<1>1. /\ j \in head + 1..Len(kb.data) /\ kb.data[j] \notin Printable
      /\ \A i \in head + 1..j - 1 : kb.data[i] \in Printable
  BY DEF FieldTo, head
<1>2. /\ start \in Nat /\ head \in 0..Len(kb.data) /\ Len(kb.data) \in Nat
      /\ kb.data \in Seq(Byte) /\ file \in Seq(Byte) /\ Len(file) \in Nat
      /\ r \in Nat /\ Parsed \in 0..2
  BY Shape
<1>3. CASE kb.data[j] = Nul
  <2>1. pc \in {"wait", "time"}
    <3>1. ASSUME pc \in {"val", "loc"} PROVE FALSE
      BY <1>1, <1>3, <3>1 DEF FileInv, Clean
    <3> QED
      BY <3>1 DEF FileInv, TypeOK
  <2>2. ~ \A i \in 1..Len(kb.data) : kb.data[i] # Nul
    BY <1>1, <1>2, <1>3
  <2>3. TooLong(file, 3 * Len(sent) + 3, start)
    BY <2>1, <2>2 DEF FileInv, Clean
  <2> QED
    BY <2>3, LongCaused
<1>4. CASE kb.data[j] # Nul
  <2> SUFFICES ASSUME ~ (r + 1 > Complete(file))
               PROVE  ~ WellFormed(file, r + 1)
    BY DEF Caused
  <2>1. /\ 3 * r + 3 <= Before(file, Len(file))
        /\ 3 * (r + 1) = 3 * r + 3
        /\ 3 * (r + 1) - 2 = 3 * r + 1 /\ 3 * (r + 1) - 1 = 3 * r + 2
    BY Covers
  <2>2. file[start + j] \notin Printable /\ file[start + j] # Space
        /\ start + j \in 1..Len(file)
    <3>1. j \in 1..Len(kb.data)
      BY <1>1, <1>2
    <3> QED
      BY <1>1, <1>4, <3>1, CopiedByte
  <2>3. /\ j - 1 \in head..Len(kb.data) /\ start + (j - 1) \in Nat
        /\ (start + (j - 1)) + 1 = start + j
        /\ k \in Nat /\ k - 1 = 3 * r + Parsed /\ k <= 3 * r + 3
    BY <1>1, <1>2
  <2>4. Before(file, start + j) = k - 1
    <3>1. Before(file, start + (j - 1)) = 3 * Len(sent) + Parsed
      BY <1>1, <2>3, SkipsFields
    <3>2. Before(file, (start + (j - 1)) + 1) = Before(file, start + (j - 1)) + 0
      BY <2>2, <2>3, BeforeNext
    <3>3. 3 * Len(sent) + Parsed + 0 = k - 1
      BY <1>2, <2>3
    <3> QED
      BY <2>3, <3>1, <3>2, <3>3
  <2>5. Behind(file, k, q) /\ Cut(file, k - 1) = p
    <3>1. k <= Before(file, Len(file)) /\ Len(file) \in 0..Len(file)
          /\ Before(file, Len(file)) \in Nat
      <4>1. Before(file, Len(file)) \in Nat
        BY <1>2, Counting
      <4>2. \A x, y, z \in Nat : x <= y /\ y <= z => x <= z
        OBVIOUS
      <4>3. 3 * r + 3 \in Nat
        BY <1>2
      <4> HIDE DEF k, r
      <4> QED
        BY <1>2, <2>1, <2>3, <4>1, <4>2, <4>3
    <3> HIDE DEF k
    <3>2. Behind(file, k, q)
      BY <1>2, <2>3, <3>1, CutThere
    <3> QED
      BY <2>3, <3>2, AtCursor
  <2>6. q \in 0..Len(file) /\ Before(file, q) = k
    BY <2>5 DEF Behind
  <2> HIDE DEF k, q, p
  <2>7. start + j < q
    <3>1. ASSUME q <= start + j PROVE FALSE
      <4>1. Before(file, q) <= Before(file, start + j)
        <5>1. q \in Nat /\ start + j \in Nat
          BY <2>2, <2>6
        <5> QED
          BY <3>1, <5>1, BeforeLess
      <4> QED
        BY <2>3, <2>4, <2>6, <4>1
    <3> QED
      BY <2>2, <2>6, <3>1
  <2> DEFINE f == SubSeq(file, p + 1, q - 1)
  <2>8. Field(file, k) = f
    BY <2>5 DEF Field, q
  <2>9. j - head \in DOMAIN f /\ f[j - head] = file[start + j]
    <3>1. /\ p = start + head /\ p + 1 \in Nat /\ q - 1 \in Nat /\ q - 1 <= Len(file)
          /\ j - head \in 1..(q - 1) - (p + 1) + 1
          /\ (p + 1) + (j - head) - 1 = start + j
      BY <1>1, <1>2, <2>6, <2>7 DEF p
    <3> HIDE DEF f
    <3>2. \A s \in Seq(Byte) : \A x, y \in Nat : x >= 1 /\ y <= Len(s) =>
             \A i \in 1..y - x + 1 : /\ i \in DOMAIN SubSeq(s, x, y)
                                     /\ SubSeq(s, x, y)[i] = s[x + i - 1]
      OBVIOUS
    <3>3. p + 1 >= 1
      BY <1>2, <3>1
    <3> QED
      BY <1>2, <3>1, <3>2, <3>3 DEF f
  <2> HIDE DEF f
  <2>10. f[j - head] \notin Printable /\ f[j - head] \notin Digit \cup {Plus, Minus}
    BY <2>2, <2>9, Kinds
  <2>11. ~ IsNumber(f)
    BY <2>9, <2>10 DEF IsNumber
  <2>12. CASE Parsed = 0
    <3>1. k = 3 * (r + 1) - 2
      BY <1>2, <2>1, <2>12 DEF k
    <3> QED
      BY <2>8, <2>11, <3>1 DEF WellFormed
  <2>13. CASE Parsed = 1
    <3>1. k = 3 * (r + 1) - 1
      BY <1>2, <2>1, <2>13 DEF k
    <3> QED
      BY <2>8, <2>11, <3>1 DEF WellFormed
  <2>14. CASE Parsed = 2
    <3>1. k = 3 * (r + 1)
      BY <1>2, <2>1, <2>14 DEF k
    <3> QED
      BY <2>8, <2>9, <2>10, <3>1 DEF WellFormed
  <2> QED
    BY <1>2, <2>12, <2>13, <2>14
<1> QED
  BY <1>3, <1>4

(* A field that is no number, or too long.                                 *)
LEMMA WrongField ==
    ASSUME FileInv, pc # "end", NEW j, FieldTo(kb, j), kb.data[j] = Space,
           NEW s, s = SubSeq(kb.data, head + 1, j - 1),
           IF Parsed = 2 THEN Len(s) > KCN_MSG_MAXLOCSIZ ELSE ~ IsNumber(s)
    PROVE  Caused
<1> DEFINE r == Len(sent)
           k == 3 * r + Parsed + 1
<1>1. r \in Nat /\ Parsed \in 0..2
  BY Shape
<1>2. Field(file, k) = s /\ s \in Seq(Printable)
  BY FieldRead
<1>3. 3 * (r + 1) = 3 * r + 3 /\ 3 * (r + 1) - 2 = 3 * r + 1 /\ 3 * (r + 1) - 1 = 3 * r + 2
  BY <1>1
<1>4. ~ WellFormed(file, r + 1)
  <2>1. CASE Parsed = 0
    <3>1. k = 3 * (r + 1) - 2
      BY <1>1, <1>3, <2>1
    <3>2. ~ IsNumber(s)
      BY <2>1
    <3>3. Field(file, 3 * (r + 1) - 2) = s
      BY <1>2, <3>1
    <3> HIDE DEF k, r
    <3> QED
      BY <3>2, <3>3 DEF WellFormed
  <2>2. CASE Parsed = 1
    <3>1. k = 3 * (r + 1) - 1
      BY <1>1, <1>3, <2>2
    <3>2. ~ IsNumber(s)
      BY <2>2
    <3>3. Field(file, 3 * (r + 1) - 1) = s
      BY <1>2, <3>1
    <3> HIDE DEF k, r
    <3> QED
      BY <3>2, <3>3 DEF WellFormed
  <2>3. CASE Parsed = 2
    <3>1. k = 3 * (r + 1)
      BY <1>1, <1>3, <2>3
    <3>2. Len(s) \in Nat /\ ~ (Len(s) <= KCN_MSG_MAXLOCSIZ)
      BY <1>2, <2>3, FileAssumption
    <3> HIDE DEF k, r
    <3> QED
      BY <1>2, <3>1, <3>2 DEF WellFormed
  <2> QED
    BY <1>1, <2>1, <2>2, <2>3
<1> QED
  BY <1>4 DEF Caused

-----------------------------------------------------------------------------
(* The steps.                                                              *)

(* The bytes of a buffer are kept, or overwritten where spaces are.        *)
Keeps(d, e) ==
    /\ Len(e) = Len(d)
    /\ \A j \in 1..Len(d) : e[j] = d[j] \/ (e[j] = Nul /\ d[j] = Space)

LEMMA CopiedKept ==
    ASSUME FileInv, UNCHANGED <<file, off>>, Keeps(kb.data, kb'.data)
    PROVE  Copied' /\ start' = start
<1>1. Len(kb'.data) = Len(kb.data) /\ start' = start
  BY DEF Keeps, start
<1>2. ASSUME NEW j \in 1..Len(kb.data)
      PROVE  kb'.data[j] = file[start + j] \/ (kb'.data[j] = Nul /\ file[start + j] = Space)
  <2>1. kb'.data[j] = kb.data[j] \/ (kb'.data[j] = Nul /\ kb.data[j] = Space)
    BY DEF Keeps
  <2> QED
    BY <2>1, CopiedByte, Kinds DEF FileInv, Copied
<1> QED
  BY <1>1, <1>2 DEF Copied

LEMMA NulKeeps ==
    ASSUME NEW d \in Seq(Byte), NEW j \in 1..Len(d), d[j] = Space,
           NEW e, e = [d EXCEPT ![j] = Nul]
    PROVE  /\ Keeps(d, e) /\ e[j] = Nul
           /\ \A k \in 1..Len(d) : k # j => e[k] = d[k]
<1>1. Len(e) = Len(d) /\ \A k \in 1..Len(d) : e[k] = IF k = j THEN Nul ELSE d[k]
  OBVIOUS
<1> QED
  BY <1>1 DEF Keeps

LEMMA Same ==
    ASSUME NEW d
    PROVE  Keeps(d, d)
BY DEF Keeps

LEMMA TextKept ==
    ASSUME FileInv, UNCHANGED <<file, filesize, sent, result>>
    PROVE  SentExact' /\ NothingLeft' /\ RefusedForCause'
BY DEF FileInv, SentExact, NothingLeft, RefusedForCause

LEMMA Ends ==
    ASSUME FileInv, pc # "end",
           NEW r \in {"ok", "EINVAL", "E2BIG", "ENETDOWN", "abort"}, End(r),
           kb' \in GoodBufs(Byte, bufsize), Keeps(kb.data, kb'.data),
           r = "ok" => pc = "wait" /\ off >= Len(file),
           r \in {"EINVAL", "E2BIG"} /\ Len(file) = filesize => Caused
    PROVE  FileInv'
<1>1. /\ pc' = "end" /\ result' = r
      /\ UNCHANGED <<file, filesize, off, kf_size, kn_up, kma, sent>>
  BY DEF End
<1>2. TypeOK'
  <2>1. bufsize' = bufsize
    BY <1>1 DEF bufsize
  <2> QED
    BY <1>1, <2>1 DEF FileInv, TypeOK
<1>3. Copied' /\ start' = start /\ Len(kb'.data) = Len(kb.data)
  BY <1>1, CopiedKept DEF Keeps
<1>4. FileOK'
  BY <1>1, <1>3 DEF FileInv, FileOK
<1>5. AtRecord' /\ Parsing' /\ Counted' /\ Clean' /\ Drained' /\ Ended'
  <2>1. AtRecord'
    BY <1>1, <1>3 DEF FileInv, AtRecord
  <2>2. Parsing' /\ Counted' /\ Clean' /\ Drained' /\ Ended'
    BY <1>1 DEF FileInv, Ended, Parsing, Counted, Clean, Drained
  <2> QED
    BY <2>1, <2>2
<1>6. SentExact'
  BY <1>1 DEF FileInv, SentExact
<1>7. NothingLeft'
  <2> SUFFICES ASSUME r = "ok"
               PROVE  \/ Len(sent) = Complete(file)
                      \/ /\ Len(file) > filesize
                         /\ Len(file) - Cut(file, 3 * Len(sent)) < KCN_MSG_MAXSIZ
    BY <1>1 DEF NothingLeft
  <2>1. /\ off = Len(file) /\ file \in Seq(Byte) /\ Len(sent) \in Nat /\ pc = "wait"
        /\ Len(file) \in Nat /\ filesize \in Nat /\ Len(kb.data) \in Nat
        /\ start = off - Len(kb.data)
    BY Shape DEF start
  <2>2. CASE Before(file, off) < 3 * Len(sent) + 3
    <3>1. Before(file, Len(file)) \in Nat
      BY Shape, Counting
    <3>2. \A x, y \in Nat : x < 3 * y + 3 => y >= x \div 3 /\ x \div 3 \in Nat
      OBVIOUS
    <3>3. Len(sent) >= Complete(file) /\ Complete(file) \in Nat
      BY <2>1, <2>2, <3>1, <3>2 DEF Complete
    <3>4. Len(sent) <= Complete(file)
      BY DEF FileInv, SentExact
    <3> QED
      BY <2>1, <3>3, <3>4
  <2>3. CASE /\ Len(kb.data) < KCN_MSG_MAXSIZ
             /\ Len(file) = filesize => off # Len(file)
    <3>1. Len(file) > filesize
      BY <2>1, <2>3 DEF FileInv, FileOK
    <3>2. Behind(file, 3 * Len(sent), start) /\ 3 * Len(sent) \in Nat
      BY <2>1 DEF FileInv, AtRecord
    <3>3. Cut(file, 3 * Len(sent)) = start
      BY <2>1, <3>2, CutIs
    <3>4. Len(file) - start = Len(kb.data)
      BY <2>1
    <3> QED
      BY <2>3, <3>1, <3>3, <3>4
  <2> QED
    BY <2>1, <2>2, <2>3 DEF FileInv, Drained
<1>8. RefusedForCause'
  BY <1>1 DEF RefusedForCause, Caused
<1> QED
  BY <1>2, <1>3, <1>4, <1>5, <1>6, <1>7, <1>8 DEF FileInv

LEMMA ModOf ==
    ASSUME NEW x \in Int
    PROVE  /\ x % SIZE \in 0..SIZE - 1
           /\ \E q \in Int : x = (x % SIZE) + q * SIZE
<1>1. SIZE \in Nat \ {0}
  BY FileAssumption
<1> DEFINE d == x \div SIZE
<1>2. d \in Int /\ x = (x % SIZE) + d * SIZE /\ x % SIZE \in 0..SIZE - 1
  BY <1>1
<1> HIDE DEF d
<1> QED
  BY <1>2

LEMMA ModUnique ==
    ASSUME NEW q \in Int, NEW x \in 0..SIZE - 1, NEW y \in 0..SIZE - 1,
           x = y + q * SIZE
    PROVE  q = 0 /\ x = y
<1>1. SIZE \in Nat \ {0}
  BY FileAssumption
<1>2. CASE q >= 1
  <2>1. q * SIZE >= SIZE
    BY <1>1, <1>2
  <2> QED
    BY <1>1, <2>1
<1>3. CASE q <= -1
  <2>1. q * SIZE <= -SIZE
    BY <1>1, <1>3
  <2> QED
    BY <1>1, <2>1
<1>4. CASE q = 0
  BY <1>1, <1>4
<1> QED
  BY <1>2, <1>3, <1>4

(* kf_size is exact of a file that does not grow.                          *)
LEMMA NothingMore ==
    ASSUME FileInv, pc \in {"time", "val", "loc"}, Len(file) = filesize
    PROVE  kf_size = Len(file) - off
<1>1. PICK q \in Int : kf_size + off - 0 = filesize + q * SIZE
  BY DEF FileInv, Counted, CountedAs
<1>2. /\ kf_size \in 0..SIZE - 1 /\ filesize < SIZE /\ SIZE \in Nat /\ q * SIZE \in Int
      /\ off \in Nat /\ off <= filesize /\ filesize \in Nat
  BY Shape, FileAssumption DEF FileInv, TypeOK, FileOK
<1>3. filesize - off \in 0..SIZE - 1 /\ kf_size = (filesize - off) + q * SIZE
  <2> DEFINE z == q * SIZE
  <2> HIDE DEF z
  <2>1. z \in Int /\ kf_size + off - 0 = filesize + z
    BY <1>1, <1>2 DEF z
  <2>2. filesize - off \in 0..SIZE - 1 /\ kf_size = (filesize - off) + z
    BY <1>2, <2>1
  <2> QED
    BY <2>2 DEF z
<1> QED
  BY <1>2, <1>3, ModUnique

LEMMA GoesOn ==
    ASSUME FileInv, pc # "end", pc' # "end",
           UNCHANGED <<kn_up, result>>
    PROVE  NothingLeft' /\ RefusedForCause' /\ Ended'
BY DEF FileInv, Ended, NothingLeft, RefusedForCause

LEMMA CountsBack ==
    ASSUME NEW k \in Int, NEW o \in Int, NEW f \in Int, NEW n \in Int,
           CountedAs(k, o, f, 0)
    PROVE  /\ (k + n) % SIZE \in 0..SIZE - 1
           /\ CountedAs((k + n) % SIZE, o, f, n)
<1> DEFINE s == (k + n) % SIZE
<1>1. PICK q \in Int : k + o - 0 = f + q * SIZE
  BY DEF CountedAs
<1>2. k + n \in Int /\ SIZE \in Int
  BY FileAssumption
<1>3. s \in 0..SIZE - 1 /\ \E d \in Int : k + n = s + d * SIZE
  BY <1>2, ModOf
<1>4. PICK d \in Int : k + n = s + d * SIZE
  BY <1>3
<1> HIDE DEF s
<1> DEFINE x == q * SIZE
           y == d * SIZE
<1>5. x \in Int /\ y \in Int /\ x - y = (q - d) * SIZE /\ q - d \in Int
  BY <1>2
<1>6. s \in Int
  BY <1>2, <1>3
<1>7. k + o - 0 = f + x /\ k + n = s + y
  BY <1>1, <1>4
<1> HIDE DEF x, y
<1>8. s + o - n = f + (x - y)
  BY <1>5, <1>6, <1>7
<1> DEFINE e == q - d
<1>9. e \in Int /\ s + o - n = f + e * SIZE
  BY <1>5, <1>8
<1> HIDE DEF e
<1>10. CountedAs(s, o, f, n)
  BY <1>9 DEF CountedAs
<1> QED
  BY <1>3, <1>10 DEF s

LEMMA WaitCounted ==
    ASSUME FileInv, pc \in {"time", "val", "loc"}, NEW s,
           s = (kf_size + Len(kb.data)) % SIZE
    PROVE  s \in 0..SIZE - 1 /\ CountedAs(s, off, filesize, Len(kb.data))
<1>1. CountedAs(kf_size, off, filesize, 0)
  BY DEF FileInv, Counted
<1>2. kf_size \in Int /\ off \in Int /\ filesize \in Int /\ Len(kb.data) \in Int
  BY Shape, FileAssumption DEF FileInv, TypeOK
<1> QED
  BY <1>1, <1>2, CountsBack

LEMMA Waits ==
    ASSUME FileInv, pc \in {"time", "val", "loc"}, NEW b, Wait(b),
           b \in GoodBufs(Byte, bufsize), b.data = kb.data,
           kcn_buf_headingdata(b) = 0,
           \/ Before(file, off) < 3 * Len(sent) + 3
           \/ /\ Len(kb.data) < KCN_MSG_MAXSIZ
              /\ Len(file) = filesize => off # Len(file),
           \/ \A j \in 1..Len(kb.data) : kb.data[j] # Nul
           \/ /\ Overwritten
              /\ Len(file) # filesize \/ TooLong(file, 3 * Len(sent) + 3, start)
    PROVE  FileInv'
<1>1. /\ kb' = b /\ kma' = << >> /\ pc' = "wait"
      /\ kf_size' = (kf_size + Len(kb.data)) % SIZE
      /\ UNCHANGED <<file, filesize, off, kn_up, result, sent>>
  BY DEF Wait, kcn_buf_len
<1>2. TypeOK'
  <2>1. bufsize' = bufsize
    BY <1>1 DEF bufsize
  <2>2. kf_size' \in 0..SIZE - 1
    BY <1>1, WaitCounted
  <2> QED
    BY <1>1, <2>1, <2>2 DEF FileInv, TypeOK
<1>3. Copied' /\ start' = start /\ kb'.data = kb.data
  BY <1>1, CopiedKept, Same
<1>4. FileOK'
  BY <1>1 DEF FileInv, FileOK
<1>5. AtRecord'
  <2>1. Parsed' = 0 /\ head' = 0 /\ Len(kma') = 0
    BY <1>1 DEF Parsed, head
  <2>2. Behind(file, 3 * Len(sent), start) /\ Len(sent) \in Nat /\ start \in Nat
    BY Shape DEF FileInv, AtRecord
  <2>3. 3 * Len(sent) + 0 = 3 * Len(sent) /\ start + 0 = start
    BY <2>2
  <2>4. Behind(file', 3 * Len(sent') + Parsed', start' + head')
    BY <1>1, <1>3, <2>1, <2>2, <2>3
  <2> QED
    BY <1>1, <1>3, <2>1, <2>2, <2>4 DEF AtRecord
<1>6. Parsing' /\ Drained' /\ Clean'
  <2>1. Parsing' /\ Drained'
    BY <1>1, <1>3 DEF Parsing, Drained
  <2>2. Overwritten' <=> Overwritten
    BY <1>1, <1>3 DEF Overwritten
  <2>3. Clean'
    BY <1>1, <1>3, <2>2 DEF Clean
  <2> QED
    BY <2>1, <2>3
<1>7. Counted'
  <2>1. CountedAs(kf_size', off, filesize, Len(kb.data))
    BY <1>1, WaitCounted
  <2>2. CountedAs(kf_size', off', filesize', Len(kb'.data))
    BY <1>1, <1>3, <2>1
  <2> QED
    BY <1>1, <2>2 DEF Counted
<1>8. SentExact'
  BY <1>1 DEF FileInv, SentExact
<1>9. NothingLeft' /\ RefusedForCause' /\ Ended'
  BY <1>1, GoesOn
<1> QED
  BY <1>2, <1>3, <1>4, <1>5, <1>6, <1>7, <1>8, <1>9 DEF FileInv

(* No end of a field: the record is parsed again from its start.           *)
LEMMA ParsesAgain ==
    ASSUME FileInv, pc \in {"time", "val", "loc"}, Parses,
           \A k \in head + 1..Len(kb.data) : kb.data[k] \in Printable,
           NEW b, b = kcn_buf_forward(kb, Len(kb.data) - head),
           Wait(kcn_buf_start(b))
    PROVE  FileInv'
<1> DEFINE n == Len(kb.data)
<1>1. /\ start \in Nat /\ n \in Nat /\ start + n = off /\ off <= Len(file)
      /\ Len(file) \in Nat /\ head \in 0..n /\ Len(sent) \in Nat /\ Parsed \in 0..2
      /\ kb \in GoodBufs(Byte, bufsize) /\ bufsize \in Nat
  BY Shape
<1>2. Before(file, off) = 3 * Len(sent) + Parsed
  <2>1. n \in head..Len(kb.data)
    BY <1>1
  <2> QED
    BY <1>1, <2>1, SkipsFields
<1>3. 3 * Len(sent) + Parsed < 3 * Len(sent) + 3 /\ 3 * Len(sent) + Parsed \in Nat
  BY <1>1
<1>4. /\ kcn_buf_start(b) \in GoodBufs(Byte, bufsize)
      /\ kcn_buf_start(b).data = kb.data /\ kcn_buf_headingdata(kcn_buf_start(b)) = 0
  <2>1. kcn_buf_start(b) = [sp |-> kb.sp, cp |-> kb.sp, data |-> kb.data]
    BY DEF kcn_buf_start, kcn_buf_forward
  <2>2. kb.sp \in Nat /\ kb.data \in Seq(Byte) /\ kb.sp + Len(kb.data) <= bufsize
    BY <1>1, GoodParts
  <2>3. kb.sp <= kb.sp /\ kb.sp <= kb.sp + Len(kb.data) /\ kb.sp - kb.sp = 0
    BY <1>1, <2>2
  <2> DEFINE g == [sp |-> kb.sp, cp |-> kb.sp, data |-> kb.data]
  <2>4. g \in GoodBufs(Byte, bufsize) /\ kcn_buf_headingdata(g) = kb.sp - kb.sp
    BY <1>1, <2>2, <2>3, MakeGood
  <2>5. g.data = kb.data
    OBVIOUS
  <2> HIDE DEF g
  <2> QED
    BY <2>1, <2>3, <2>4, <2>5 DEF g
<1>5. Before(file, off) < 3 * Len(sent) + 3
  BY <1>2, <1>3
<1>6. \/ \A j \in 1..Len(kb.data) : kb.data[j] # Nul
      \/ /\ Overwritten
         /\ Len(file) # filesize \/ TooLong(file, 3 * Len(sent) + 3, start)
  <2>1. CASE pc = "time"
    BY <2>1 DEF FileInv, Clean
  <2>2. CASE pc \in {"val", "loc"}
    <3>1. Overwritten
      BY <2>2 DEF FileInv, Clean, Overwritten
    <3>2. ASSUME Len(file) = filesize PROVE TooLong(file, 3 * Len(sent) + 3, start)
      <4>1. off = Len(file) \/ n >= KCN_MSG_MAXSIZ
        <5>1. CASE kf_size = 0
          <6>1. Len(file) - off = 0
            BY <2>2, <3>2, <5>1, NothingMore
          <6> QED
            BY <1>1, <6>1
        <5>2. CASE n >= KCN_MSG_MAXSIZ
          BY <5>2
        <5> QED
          BY <5>1, <5>2 DEF Parses, kcn_buf_len
      <4>2. ASSUME NEW q \in start..Len(file), q <= start + KCN_MSG_MAXSIZ
            PROVE  Before(file, q) < 3 * Len(sent) + 3
        <5>1. q \in Nat /\ off \in Nat /\ q <= off
          BY <1>1, <4>1, <4>2, FileAssumption
        <5>2. Before(file, q) \in Nat /\ Before(file, q) <= Before(file, off)
          BY <5>1, BeforeLess
        <5> QED
          BY <1>1, <1>2, <1>3, <5>2
      <4> QED
        BY <4>2 DEF TooLong
    <3> QED
      BY <3>1, <3>2
  <2> QED
    BY <2>1, <2>2
<1> QED
  BY <1>4, <1>5, <1>6, Waits

(* A number: the byte behind it is overwritten.                            *)
LEMMA TakesNumber ==
    ASSUME FileInv, NEW at \in {"time", "val"}, NEW next, pc = at,
           next = (IF at = "time" THEN "val" ELSE "loc"), Parses,
           NEW j, FieldTo(kb, j), kb.data[j] = Space,
           NEW s, s = SubSeq(kb.data, head + 1, j - 1), IsNumber(s),
           kb' \in GoodBufs(Byte, bufsize), kcn_buf_headingdata(kb') = j,
           kb'.data = [kb.data EXCEPT ![j] = Nul],
           kma' = Append(kma, kcn_strtoull(s)), pc' = next,
           UNCHANGED <<file, filesize, off, kf_size, kn_up, result, sent>>
    PROVE  FileInv'
<1> DEFINE d == kb.data
           e == kb'.data
           n == Len(kb.data)
           r == Len(sent)
<1>1. /\ start \in Nat /\ n \in Nat /\ head \in 0..n /\ r \in Nat /\ d \in Seq(Byte)
      /\ Parsed = (IF at = "time" THEN 0 ELSE 1) /\ Parsed' = Parsed + 1
      /\ file \in Seq(Byte)
  BY Shape DEF Parsed
<1>2. /\ j \in head + 1..n /\ file[start + j] = Space
      /\ Behind(file, 3 * r + Parsed + 1, start + j)
      /\ Field(file, 3 * r + Parsed + 1) = s
      /\ \A i \in head + 1..j - 1 : d[i] \in Printable
  BY FieldRead DEF FieldTo, head
<1>3. j \in 1..n
  BY <1>1, <1>2
<1>4. /\ Keeps(d, e) /\ e[j] = Nul /\ Len(e) = n
      /\ \A k \in 1..n : k # j => e[k] = d[k]
  BY <1>1, <1>3, NulKeeps DEF Keeps
<1>5. Copied' /\ start' = start /\ head' = j
  BY <1>4, CopiedKept DEF head
<1>6. TypeOK'
  <2>1. bufsize' = bufsize
    BY DEF bufsize
  <2>2. kcn_strtoull(s) \in 0..ULLONG_MAX
    BY StrtoullIs
  <2>3. kma' \in Seq(0..ULLONG_MAX)
    BY <2>2 DEF FileInv, TypeOK
  <2> QED
    BY <2>1, <2>3 DEF FileInv, TypeOK
<1>7. FileOK'
  BY <1>4 DEF FileInv, FileOK
<1>8. AtRecord'
  <2>1. Behind(file, 3 * r, start)
    BY DEF FileInv, AtRecord
  <2>2. Behind(file, 3 * r + Parsed', start + j)
    <3>1. \A a \in Nat : \A p \in {0, 1} : a + p + 1 = a + (p + 1)
      OBVIOUS
    <3>2. Parsed' = Parsed + 1 /\ Parsed \in {0, 1} /\ 3 * r \in Nat
      BY <1>1
    <3>3. 3 * r + Parsed + 1 = 3 * r + Parsed'
      BY <3>1, <3>2
    <3> HIDE DEF r
    <3> QED
      BY <1>2, <3>3
  <2>3. /\ kma \in Seq(0..ULLONG_MAX) /\ Len(kma) = Parsed
        /\ \A k \in 1..Parsed : /\ IsNumber(Field(file, 3 * r + k))
                                /\ kma[k] = kcn_strtoull(Field(file, 3 * r + k))
    BY DEF FileInv, TypeOK, AtRecord
  <2>4. /\ Len(kma') = Parsed' /\ kma'[Parsed + 1] = kcn_strtoull(s)
        /\ \A k \in 1..Parsed : kma'[k] = kma[k]
    <3> DEFINE v == kcn_strtoull(s)
    <3> HIDE DEF v
    <3>1. /\ Len(Append(kma, v)) = Len(kma) + 1 /\ Append(kma, v)[Len(kma) + 1] = v
          /\ \A k \in 1..Len(kma) : Append(kma, v)[k] = kma[k]
      BY <2>3
    <3> QED
      BY <1>1, <2>3, <3>1 DEF v
  <2>5. ASSUME NEW k \in 1..Parsed'
        PROVE  /\ IsNumber(Field(file, 3 * r + k))
               /\ kma'[k] = kcn_strtoull(Field(file, 3 * r + k))
    <3>1. CASE k = Parsed + 1
      <4>1. \A a \in Nat : \A p \in {0, 1} : a + (p + 1) = a + p + 1
        OBVIOUS
      <4>2. 3 * r \in Nat /\ Parsed \in {0, 1}
        BY <1>1
      <4>3. 3 * r + k = 3 * r + Parsed + 1
        BY <3>1, <4>1, <4>2
      <4> HIDE DEF r
      <4> QED
        BY <1>2, <2>4, <3>1, <4>3
    <3>2. CASE k # Parsed + 1
      <4>1. k \in 1..Parsed
        BY <1>1, <3>2
      <4> QED
        BY <2>3, <2>4, <4>1
    <3> QED
      BY <3>1, <3>2
  <2>6. Parsed' # 0
    BY <1>1
  <2> QED
    BY <1>5, <2>1, <2>2, <2>4, <2>5, <2>6 DEF AtRecord
<1>9. Parsing' /\ Drained'
  <2>1. Parses'
    BY <1>4 DEF Parses, kcn_buf_len
  <2> QED
    BY <2>1 DEF Parsing, Drained
<1>10. Counted'
  <2>1. CountedAs(kf_size, off, filesize, 0)
    BY DEF FileInv, Counted
  <2> QED
    BY <2>1 DEF Counted
<1>11. Clean'
  <2>1. ASSUME NEW k \in j + 1..n PROVE e[k] # Nul
    <3>1. k \in 1..n /\ k # j /\ k \in head + 1..n
      <4>1. \A m \in Nat : \A h \in 0..m : \A i \in h + 1..m : \A l \in i + 1..m :
               l \in 1..m /\ l # i /\ l \in h + 1..m
        OBVIOUS
      <4> HIDE DEF n
      <4> QED
        BY <1>1, <1>2, <4>1
    <3>2. CASE at = "val"
      BY <1>4, <3>1, <3>2 DEF FileInv, Clean
    <3>3. CASE at = "time"
      <4>1. CASE \A i \in 1..n : d[i] # Nul
        BY <1>4, <3>1, <4>1
      <4>2. CASE Overwritten
        <5>1. PICK i \in 1..n : d[i] = Nul /\ Before(file, start + i) = 3 * r + 1
          BY <4>2 DEF Overwritten
        <5>2. head = 0
          BY <1>1, <3>3 DEF FileInv, AtRecord
        <5>3. i # j /\ ~ (i \in head + 1..j - 1)
          BY <1>2, <5>1, Kinds
        <5>4. start + j \in Nat /\ start + i \in Nat /\ start + j < start + i
          BY <1>1, <1>2, <5>1, <5>2, <5>3
        <5>5. file[start + i] = Space
          BY <5>1, CopiedByte
        <5>6. Before(file, start + j) < Before(file, start + i)
          BY <5>4, <5>5, BeforeSpace
        <5>7. Before(file, start + j) = 3 * r + 1
          BY <1>1, <1>2, <3>3 DEF Behind
        <5> QED
          BY <1>1, <5>1, <5>6, <5>7
      <4> QED
        BY <3>3, <4>1, <4>2 DEF FileInv, Clean
    <3> QED
      BY <3>2, <3>3
  <2>2. \E i \in 1..n : i <= j /\ e[i] = Nul /\ Before(file, start + i) = 3 * r + 1
    <3>1. CASE at = "time"
      <4>1. Before(file, start + j) = 3 * r + 1
        BY <1>1, <1>2, <3>1 DEF Behind
      <4> QED
        BY <1>3, <1>4, <4>1
    <3>2. CASE at = "val"
      <4>1. PICK i \in 1..n : /\ i <= head /\ d[i] = Nul
                              /\ Before(file, start + i) = 3 * r + 1
        BY <3>2 DEF FileInv, Clean
      <4>2. i <= j /\ i # j
        BY <1>1, <1>2, <4>1
      <4> QED
        BY <1>4, <4>1, <4>2
    <3> QED
      BY <3>1, <3>2
  <2> HIDE DEF e, n, r
  <2>3. pc' \in {"val", "loc"} /\ sent' = sent /\ file' = file
    OBVIOUS
  <2> QED
    BY <1>4, <1>5, <2>1, <2>2, <2>3 DEF Clean, e, n, r
<1>12. SentExact'
  BY DEF FileInv, SentExact
<1>13. NothingLeft' /\ RefusedForCause' /\ Ended'
  BY GoesOn
<1> QED
  BY <1>5, <1>6, <1>7, <1>8, <1>9, <1>10, <1>11, <1>12, <1>13 DEF FileInv

(* What get64 returns.                                                     *)
LEMMA Get64 ==
    ASSUME FileInv, pc # "end"
    PROVE  \/ /\ \A k \in head + 1..Len(kb.data) : kb.data[k] \in Printable
              /\ get64(kb).rc = "EAGAIN"
              /\ get64(kb).kb = kcn_buf_forward(kb, Len(kb.data) - head)
           \/ \E j : /\ FieldTo(kb, j) /\ kb.data[j] # Space
                     /\ get64(kb).rc = "EINVAL"
                     /\ get64(kb).kb \in GoodBufs(Byte, bufsize)
                     /\ get64(kb).kb.data = kb.data
           \/ \E j : /\ FieldTo(kb, j) /\ kb.data[j] = Space
                     /\ get64(kb).field = SubSeq(kb.data, head + 1, j - 1)
                     /\ get64(kb).rc = IF IsNumber(get64(kb).field)
                                       THEN "ok" ELSE "EINVAL"
                     /\ get64(kb).kb \in GoodBufs(Byte, bufsize)
                     /\ kcn_buf_headingdata(get64(kb).kb) = j
                     /\ get64(kb).kb.data = [kb.data EXCEPT ![j] = Nul]
<1>1. kb \in GoodBufs(Byte, bufsize) /\ bufsize \in Nat /\ head \in 0..Len(kb.data)
      /\ Len(kb.data) \in Nat
  BY Shape
<1>2. CASE /\ \A j \in head + 1..Len(kb.data) : kb.data[j] \in Printable
           /\ forward(kb) = [rc |-> "EAGAIN",
                             kb |-> kcn_buf_forward(kb, Len(kb.data) - head)]
  <2>1. get64(kb) = forward(kb)
    BY <1>2 DEF get64
  <2> QED
    BY <1>2, <2>1
<1>3. ASSUME NEW j \in head + 1..Len(kb.data), FieldTo(kb, j),
             forward(kb) = [rc    |-> IF kb.data[j] = Space THEN "ok" ELSE "EINVAL",
                            kb    |-> kcn_buf_forward(kb, j - head),
                            field |-> SubSeq(kb.data, head + 1, j - 1)]
      PROVE  \/ /\ kb.data[j] # Space
                /\ get64(kb).rc = "EINVAL"
                /\ get64(kb).kb \in GoodBufs(Byte, bufsize)
                /\ get64(kb).kb.data = kb.data
             \/ /\ kb.data[j] = Space
                /\ get64(kb).field = SubSeq(kb.data, head + 1, j - 1)
                /\ get64(kb).rc = IF IsNumber(get64(kb).field)
                                  THEN "ok" ELSE "EINVAL"
                /\ get64(kb).kb \in GoodBufs(Byte, bufsize)
                /\ kcn_buf_headingdata(get64(kb).kb) = j
                /\ get64(kb).kb.data = [kb.data EXCEPT ![j] = Nul]
  <2>1. CASE kb.data[j] # Space
    <3>1. get64(kb) = forward(kb) /\ forward(kb).rc = "EINVAL"
          /\ forward(kb).kb = kcn_buf_forward(kb, j - head)
      BY <1>3, <2>1 DEF get64
    <3>2. j \in head..Len(kb.data)
      BY <1>1
    <3>3. /\ kcn_buf_forward(kb, j - head) \in GoodBufs(Byte, bufsize)
          /\ kcn_buf_forward(kb, j - head).data = kb.data
      BY <1>1, <3>2, ForwardTo DEF head
    <3> QED
      BY <2>1, <3>1, <3>3
  <2>2. CASE kb.data[j] = Space
    <3> DEFINE s == SubSeq(kb.data, head + 1, j - 1)
               g == kcn_buf_put(kcn_buf_backward(kcn_buf_forward(kb, j - head), 1), <<Nul>>)
    <3>1. /\ g \in GoodBufs(Byte, bufsize) /\ kcn_buf_headingdata(g) = j
          /\ g.data = [kb.data EXCEPT ![j] = Nul]
      BY <1>1, NulPut DEF head
    <3>2. get64(kb) = [rc |-> IF IsNumber(s) THEN "ok" ELSE "EINVAL",
                       kb |-> g, field |-> s]
      <4>1. /\ forward(kb).rc = "ok" /\ forward(kb).field = s
            /\ forward(kb).kb = kcn_buf_forward(kb, j - head)
        <5> DEFINE x == kcn_buf_forward(kb, j - head)
        <5> HIDE DEF s, x
        <5>1. forward(kb) = [rc |-> "ok", kb |-> x, field |-> s]
          BY <1>3, <2>2 DEF s, x
        <5> QED
          BY <5>1 DEF x
      <4> QED
        BY <4>1 DEF get64
    <3> HIDE DEF s, g
    <3>3. get64(kb).kb = g /\ get64(kb).field = s
          /\ get64(kb).rc = IF IsNumber(s) THEN "ok" ELSE "EINVAL"
      BY <3>2
    <3> QED
      BY <2>2, <3>1, <3>3 DEF s
  <2> QED
    BY <2>1, <2>2
<1>4. \/ /\ \A j \in head + 1..Len(kb.data) : kb.data[j] \in Printable
         /\ forward(kb) = [rc |-> "EAGAIN",
                           kb |-> kcn_buf_forward(kb, Len(kb.data) - head)]
      \/ \E j \in head + 1..Len(kb.data) :
            /\ FieldTo(kb, j)
            /\ forward(kb) = [rc    |-> IF kb.data[j] = Space THEN "ok" ELSE "EINVAL",
                              kb    |-> kcn_buf_forward(kb, j - head),
                              field |-> SubSeq(kb.data, head + 1, j - 1)]
  BY <1>1, ForwardStops DEF head
<1> QED
  BY <1>2, <1>3, <1>4

LEMMA NumberStep ==
    ASSUME FileInv, NEW at \in {"time", "val"}, NEW next,
           next = (IF at = "time" THEN "val" ELSE "loc"),
           Parses, GetNumber(at, next)
    PROVE  FileInv'
<1> DEFINE r == get64(kb)
<1> HIDE DEF r
<1>1. /\ pc = at
      /\ \/ /\ r.rc = "ok"
            /\ kb' = r.kb /\ kma' = Append(kma, kcn_strtoull(r.field)) /\ pc' = next
            /\ UNCHANGED <<file, filesize, off, kf_size, kn_up, result, sent>>
         \/ NoField(r)
  BY DEF GetNumber, r
<1>2. CASE /\ \A k \in head + 1..Len(kb.data) : kb.data[k] \in Printable
           /\ r.rc = "EAGAIN" /\ r.kb = kcn_buf_forward(kb, Len(kb.data) - head)
  <2>1. Wait(kcn_buf_start(r.kb))
    BY <1>1, <1>2 DEF NoField
  <2> QED
    BY <1>1, <1>2, <2>1, ParsesAgain
<1>3. ASSUME NEW j, FieldTo(kb, j), kb.data[j] # Space, r.rc = "EINVAL",
             r.kb \in GoodBufs(Byte, bufsize), r.kb.data = kb.data
      PROVE  FileInv'
  <2>1. End("EINVAL") /\ kb' = r.kb
    BY <1>1, <1>3 DEF NoField
  <2>2. Len(file) = filesize => Caused
    BY <1>1, <1>3, BadField
  <2>3. Keeps(kb.data, kb'.data) /\ kb' \in GoodBufs(Byte, bufsize)
    BY <1>3, <2>1, Same
  <2> QED
    BY <1>1, <2>1, <2>2, <2>3, Ends
<1>4. ASSUME NEW j, FieldTo(kb, j), kb.data[j] = Space,
             r.field = SubSeq(kb.data, head + 1, j - 1),
             r.rc = IF IsNumber(r.field) THEN "ok" ELSE "EINVAL",
             r.kb \in GoodBufs(Byte, bufsize),
             kcn_buf_headingdata(r.kb) = j,
             r.kb.data = [kb.data EXCEPT ![j] = Nul]
      PROVE  FileInv'
  <2>1. CASE IsNumber(r.field)
    <3>1. /\ kb' = r.kb /\ kma' = Append(kma, kcn_strtoull(r.field)) /\ pc' = next
          /\ UNCHANGED <<file, filesize, off, kf_size, kn_up, result, sent>>
      BY <1>1, <1>4, <2>1 DEF NoField
    <3> QED
      BY <1>1, <1>4, <2>1, <3>1, TakesNumber
  <2>2. CASE ~ IsNumber(r.field)
    <3>1. End("EINVAL") /\ kb' = r.kb
      BY <1>1, <1>4, <2>2 DEF NoField
    <3>2. Parsed # 2
      BY <1>1 DEF Parsed
    <3>3. Caused
      BY <1>1, <1>4, <2>2, <3>2, WrongField
    <3>4. j \in 1..Len(kb.data)
      <4>1. j \in head + 1..Len(kb.data) /\ head \in Nat
        BY <1>4, Shape DEF FieldTo, head
      <4> QED
        BY <4>1
    <3>5. Keeps(kb.data, kb'.data)
      BY <1>4, <3>1, <3>4, Shape, NulKeeps
    <3> QED
      BY <1>1, <1>4, <3>1, <3>3, <3>5, Ends
  <2> QED
    BY <2>1, <2>2
<1>5. pc # "end"
  BY <1>1
<1> QED
  BY <1>2, <1>3, <1>4, <1>5, Get64 DEF r

(* The head of the buffer is dropped up to its cursor.                     *)
LEMMA Trimmed ==
    ASSUME NEW size \in Nat, NEW b \in GoodBufs(Byte, size),
           NEW j \in 0..Len(b.data), kcn_buf_headingdata(b) = j
    PROVE  LET t == kcn_buf_trim_head(b, j)
           IN  /\ t \in GoodBufs(Byte, size) /\ kcn_buf_headingdata(t) = 0
               /\ t.data \in Seq(Byte) /\ Len(t.data) = Len(b.data) - j
               /\ \A i \in 1..Len(b.data) - j : t.data[i] = b.data[j + i]
<1> DEFINE t == kcn_buf_trim_head(b, j)
           d == SubSeq(b.data, j + 1, Len(b.data))
<1>1. /\ b.data \in Seq(Byte) /\ Len(b.data) \in Nat /\ b.sp \in Nat /\ b.cp \in Nat
      /\ b.cp = b.sp + j /\ b.sp + Len(b.data) <= size
  BY GoodParts
<1>2. d \in Seq(Byte) /\ Len(d) = Len(b.data) - j
  <2>1. j + 1 \in Nat /\ j + 1 >= 1
    OBVIOUS
  <2>2. Len(d) = IF j + 1 <= Len(b.data) THEN Len(b.data) - (j + 1) + 1 ELSE 0
    BY <1>1, <2>1, PartOfSeq
  <2>3. (IF j + 1 <= Len(b.data) THEN Len(b.data) - (j + 1) + 1 ELSE 0) = Len(b.data) - j
    BY <1>1
  <2>4. d \in Seq(Byte)
    BY <1>1, <2>1, PartOfSeq
  <2> QED
    BY <2>2, <2>3, <2>4
<1>3. \A i \in 1..Len(b.data) - j : d[i] = b.data[j + i]
  BY <1>1
<1> HIDE DEF d
<1>4. t = [sp |-> b.sp + j, cp |-> b.cp, data |-> d]
  BY <1>1 DEF kcn_buf_trim_head, d
<1>5. /\ b.sp + j \in Nat /\ b.sp + j <= b.cp
      /\ b.cp <= (b.sp + j) + Len(d) /\ (b.sp + j) + Len(d) <= size
      /\ b.cp - (b.sp + j) = 0
  BY <1>1, <1>2
<1> DEFINE p == b.sp + j
<1> HIDE DEF p
<1>6. /\ [sp |-> p, cp |-> b.cp, data |-> d] \in GoodBufs(Byte, size)
      /\ kcn_buf_headingdata([sp |-> p, cp |-> b.cp, data |-> d]) = b.cp - p
  <2>1. /\ p \in Nat /\ p <= b.cp
        /\ b.cp <= p + Len(d) /\ p + Len(d) <= size
    BY <1>5 DEF p
  <2> QED
    BY <1>1, <1>2, <2>1, MakeGood
<1>7. t.data = d
  BY <1>4
<1> HIDE DEF t
<1> QED
  BY <1>2, <1>3, <1>4, <1>5, <1>6, <1>7 DEF p, t

(* The record is complete: it is what the file says.                       *)
LEMMA RecordRead ==
    ASSUME FileInv, pc = "loc", NEW j, FieldTo(kb, j), kb.data[j] = Space,
           NEW s, s = SubSeq(kb.data, head + 1, j - 1),
           Len(s) <= KCN_MSG_MAXLOCSIZ,
           NEW m, m = Len(sent) + 1
    PROVE  /\ m <= Complete(file) /\ WellFormed(file, m)
           /\ Says(Field(file, 3 * m - 2), kma[1])
           /\ Says(Field(file, 3 * m - 1), kma[2])
           /\ s = Field(file, 3 * m)
           /\ Behind(file, 3 * m, start + j)
           /\ [time |-> kma[1], val |-> kma[2], loc |-> s]
                 \in [time : 0..ULLONG_MAX, val : 0..ULLONG_MAX, loc : Seq(Printable)]
<1> DEFINE L == Len(sent)
<1>1. L \in Nat /\ Parsed = 2 /\ Len(file) \in Nat
  BY Shape DEF Parsed
<1>2. /\ 3 * m = 3 * L + 2 + 1 /\ 3 * m - 2 = 3 * L + 1 /\ 3 * m - 1 = 3 * L + 2
      /\ m \in Nat
  BY <1>1
<1>3. /\ Behind(file, 3 * L + 2 + 1, start + j) /\ Field(file, 3 * L + 2 + 1) = s
      /\ s \in Seq(Printable)
  BY <1>1, FieldRead
<1> HIDE DEF L
<1>4. Behind(file, 3 * m, start + j) /\ Field(file, 3 * m) = s
  BY <1>2, <1>3
<1>5. \A k \in 1..2 :
          IsNumber(Field(file, 3 * L + k)) /\ kma[k] = kcn_strtoull(Field(file, 3 * L + k))
  BY <1>1 DEF FileInv, AtRecord, L
<1>6. /\ IsNumber(Field(file, 3 * m - 2)) /\ kma[1] = kcn_strtoull(Field(file, 3 * m - 2))
      /\ IsNumber(Field(file, 3 * m - 1)) /\ kma[2] = kcn_strtoull(Field(file, 3 * m - 1))
  <2>1. 1 \in 1..2 /\ 2 \in 1..2
    OBVIOUS
  <2> QED
    BY <1>2, <1>5, <2>1
<1>7. WellFormed(file, m)
  <2>1. \A i \in DOMAIN s : s[i] \in Printable
    BY <1>3
  <2>2. \A i \in DOMAIN Field(file, 3 * m) : Field(file, 3 * m)[i] \in Printable
    BY <1>4, <2>1
  <2>3. Len(Field(file, 3 * m)) <= KCN_MSG_MAXLOCSIZ
    BY <1>4
  <2> QED
    BY <1>6, <2>2, <2>3 DEF WellFormed
<1>8. m <= Complete(file)
  <2>1. Before(file, start + j) = 3 * m /\ start + j \in 0..Len(file)
    BY <1>4 DEF Behind
  <2>2. Before(file, Len(file)) \in Nat /\ 3 * m <= Before(file, Len(file))
    BY <1>1, <2>1, Counting
  <2>3. \A x, y \in Nat : 3 * y <= x => y <= x \div 3
    OBVIOUS
  <2> QED
    BY <1>2, <2>2, <2>3 DEF Complete
<1>9. Says(Field(file, 3 * m - 2), kma[1]) /\ Says(Field(file, 3 * m - 1), kma[2])
  BY <1>6, StrtoullIs
<1>10. kma[1] \in 0..ULLONG_MAX /\ kma[2] \in 0..ULLONG_MAX
  BY <1>6, StrtoullIs
<1> QED
  BY <1>3, <1>4, <1>7, <1>8, <1>9, <1>10

LEMMA TakesLocator ==
    ASSUME FileInv, pc = "loc", NEW j, FieldTo(kb, j), kb.data[j] = Space,
           NEW s, s = SubSeq(kb.data, head + 1, j - 1),
           Len(s) <= KCN_MSG_MAXLOCSIZ,
           sent' = Append(sent, [time |-> kma[1], val |-> kma[2], loc |-> s]),
           kb' \in GoodBufs(Byte, bufsize), kcn_buf_headingdata(kb') = 0,
           Len(kb'.data) = Len(kb.data) - j,
           \A i \in 1..Len(kb.data) - j : kb'.data[i] = kb.data[j + i],
           kma' = << >>, pc' = "time",
           UNCHANGED <<file, filesize, off, kf_size, kn_up, result>>
    PROVE  FileInv'
<1> DEFINE L == Len(sent)
           n == Len(kb.data)
           m == L + 1
           rec == [time |-> kma[1], val |-> kma[2], loc |-> s]
<1>1. /\ start \in Nat /\ n \in Nat /\ start + n = off /\ head \in 0..n /\ L \in Nat
      /\ off \in Nat /\ j \in head + 1..n
      /\ sent \in Seq([time : 0..ULLONG_MAX, val : 0..ULLONG_MAX, loc : Seq(Printable)])
  BY Shape DEF FieldTo, head
<1>2. /\ m <= Complete(file) /\ WellFormed(file, m)
      /\ Says(Field(file, 3 * m - 2), kma[1])
      /\ Says(Field(file, 3 * m - 1), kma[2])
      /\ s = Field(file, 3 * m)
      /\ Behind(file, 3 * m, start + j)
      /\ rec \in [time : 0..ULLONG_MAX, val : 0..ULLONG_MAX, loc : Seq(Printable)]
  BY RecordRead
<1>3. rec.time = kma[1] /\ rec.val = kma[2] /\ rec.loc = s
  OBVIOUS
<1> HIDE DEF rec
<1>4. /\ sent' \in Seq([time : 0..ULLONG_MAX, val : 0..ULLONG_MAX, loc : Seq(Printable)])
      /\ Len(sent') = m /\ sent'[m] = rec /\ \A k \in 1..L : sent'[k] = sent[k]
  <2>1. sent' = Append(sent, rec)
    BY DEF rec
  <2> DEFINE R == [time : 0..ULLONG_MAX, val : 0..ULLONG_MAX, loc : Seq(Printable)]
  <2>2. rec \in R /\ sent \in Seq(R)
    BY <1>1, <1>2
  <2> HIDE DEF R
  <2>3. /\ Append(sent, rec) \in Seq(R) /\ Len(Append(sent, rec)) = Len(sent) + 1
        /\ Append(sent, rec)[Len(sent) + 1] = rec
        /\ \A k \in 1..Len(sent) : Append(sent, rec)[k] = sent[k]
    BY <2>2
  <2> QED
    BY <2>1, <2>3 DEF R
<1>5. start' = start + j /\ head' = 0 /\ n - j \in Nat /\ Len(kb'.data) = n - j
  <2>2. j \in 0..n
    BY <1>1
  <2>3. start' = off - (n - j)
    BY DEF start
  <2>4. Len(kb'.data) = n - j /\ head' = 0
    BY DEF head
  <2> HIDE DEF n
  <2>5. off - (n - j) = start + j /\ n - j \in Nat
    <3>1. start \in Nat /\ n \in Nat /\ off \in Nat /\ start + n = off
      BY <1>1
    <3> QED
      BY <2>2, <3>1
  <2> QED
    BY <2>3, <2>4, <2>5
<1> HIDE DEF n
<1>6. TypeOK'
  <2>1. bufsize' = bufsize
    BY DEF bufsize
  <2>2. << >> \in Seq(0..ULLONG_MAX)
    OBVIOUS
  <2> QED
    BY <1>4, <2>1, <2>2 DEF FileInv, TypeOK
<1>7. FileOK'
  BY <1>1, <1>5 DEF FileInv, FileOK
<1>8. ASSUME NEW i \in 1..n - j
      PROVE  /\ j + i \in 1..n /\ kb'.data[i] = kb.data[j + i]
             /\ start' + i = start + (j + i) /\ j + i \in head + 1..n
  <2>1. j + i \in 1..n /\ j + i \in head + 1..n
    BY <1>1
  <2>2. start' + i = start + (j + i)
    BY <1>1, <1>5
  <2> QED
    BY <2>1, <2>2 DEF n
<1>9. Copied'
  <2>1. ASSUME NEW i \in 1..n - j
        PROVE  kb'.data[i] = file[start' + i] \/ (kb'.data[i] = Nul /\ file[start' + i] = Space)
    BY <1>8 DEF FileInv, Copied, n
  <2> QED
    BY <1>5, <2>1 DEF Copied
<1>10. AtRecord'
  <2>1. Parsed' = 0 /\ Len(kma') = 0
    BY DEF Parsed
  <2>2. Behind(file', 3 * Len(sent'), start')
    BY <1>2, <1>4, <1>5
  <2>3. 3 * Len(sent') + 0 = 3 * Len(sent') /\ start' + 0 = start'
    BY <1>1, <1>4, <1>5
  <2>4. Behind(file', 3 * Len(sent') + Parsed', start' + head')
    BY <1>5, <2>1, <2>2, <2>3
  <2> QED
    BY <1>5, <2>1, <2>2, <2>4 DEF AtRecord
<1>11. Parsing' /\ Drained'
  BY DEF Parsing, Drained
<1>12. Counted'
  <2>1. CountedAs(kf_size, off, filesize, 0)
    BY DEF FileInv, Counted
  <2> QED
    BY <2>1 DEF Counted
<1>13. Clean'
  <2>1. \A i \in 1..Len(kb'.data) : kb'.data[i] # Nul
    <3>1. \A i \in head + 1..Len(kb.data) : kb.data[i] # Nul
      BY DEF FileInv, Clean
    <3> QED
      BY <1>5, <1>8, <3>1 DEF n
  <2> QED
    BY <2>1 DEF Clean
<1>14. SentExact'
  <2> DEFINE Is(k, t) ==
        /\ WellFormed(file, k)
        /\ Says(Field(file, 3 * k - 2), t.time)
        /\ Says(Field(file, 3 * k - 1), t.val)
        /\ t.loc = Field(file, 3 * k)
  <2>1. \A k \in 1..L : Is(k, sent[k])
    BY DEF FileInv, SentExact
  <2>2. Is(m, rec)
    BY <1>2, <1>3
  <2> HIDE DEF Is
  <2>3. \A k \in 1..m : Is(k, sent'[k])
    <3>1. \A k \in 1..m : k \in 1..L \/ k = m
      <4>1. \A a \in Nat : \A k \in 1..a + 1 : k \in 1..a \/ k = a + 1
        OBVIOUS
      <4> HIDE DEF L
      <4> QED
        BY <1>1, <4>1
    <3> HIDE DEF m, L
    <3> QED
      BY <1>4, <2>1, <2>2, <3>1
  <2>4. Len(sent') <= Complete(file)
    BY <1>2, <1>4
  <2>5. \A k \in 1..Len(sent') : Is(k, sent'[k])
    BY <1>4, <2>3
  <2> QED
    BY <2>4, <2>5 DEF SentExact, Is
<1>15. NothingLeft' /\ RefusedForCause' /\ Ended'
  BY GoesOn
<1> QED
  BY <1>6, <1>7, <1>9, <1>10, <1>11, <1>12, <1>13, <1>14, <1>15 DEF FileInv

(* What getstr returns.                                                    *)
LEMMA GetStr ==
    ASSUME FileInv, pc # "end"
    PROVE  \/ /\ \A k \in head + 1..Len(kb.data) : kb.data[k] \in Printable
              /\ getstr(kb).rc = "EAGAIN"
              /\ getstr(kb).kb = kcn_buf_forward(kb, Len(kb.data) - head)
           \/ \E j : /\ FieldTo(kb, j)
                     /\ getstr(kb).kb \in GoodBufs(Byte, bufsize)
                     /\ kcn_buf_headingdata(getstr(kb).kb) = j
                     /\ getstr(kb).kb.data = kb.data
                     /\ getstr(kb).field = SubSeq(kb.data, head + 1, j - 1)
                     /\ getstr(kb).rc =
                           IF kb.data[j] # Space THEN "EINVAL"
                           ELSE IF Len(getstr(kb).field) > KCN_MSG_MAXLOCSIZ
                           THEN "E2BIG" ELSE "ok"
<1>1. kb \in GoodBufs(Byte, bufsize) /\ bufsize \in Nat /\ head \in 0..Len(kb.data)
      /\ Len(kb.data) \in Nat
  BY Shape
<1>2. CASE /\ \A j \in head + 1..Len(kb.data) : kb.data[j] \in Printable
           /\ forward(kb) = [rc |-> "EAGAIN",
                             kb |-> kcn_buf_forward(kb, Len(kb.data) - head)]
  <2>1. getstr(kb) = forward(kb)
    BY <1>2 DEF getstr
  <2> QED
    BY <1>2, <2>1
<1>3. ASSUME NEW j \in head + 1..Len(kb.data), FieldTo(kb, j),
             forward(kb) = [rc    |-> IF kb.data[j] = Space THEN "ok" ELSE "EINVAL",
                            kb    |-> kcn_buf_forward(kb, j - head),
                            field |-> SubSeq(kb.data, head + 1, j - 1)]
      PROVE  /\ getstr(kb).kb \in GoodBufs(Byte, bufsize)
             /\ kcn_buf_headingdata(getstr(kb).kb) = j
             /\ getstr(kb).kb.data = kb.data
             /\ getstr(kb).field = SubSeq(kb.data, head + 1, j - 1)
             /\ getstr(kb).rc =
                   IF kb.data[j] # Space THEN "EINVAL"
                   ELSE IF Len(getstr(kb).field) > KCN_MSG_MAXLOCSIZ
                   THEN "E2BIG" ELSE "ok"
  <2> DEFINE s == SubSeq(kb.data, head + 1, j - 1)
             x == kcn_buf_forward(kb, j - head)
             c == IF kb.data[j] = Space THEN "ok" ELSE "EINVAL"
  <2>1. j \in head..Len(kb.data)
    BY <1>1
  <2>2. x \in GoodBufs(Byte, bufsize) /\ kcn_buf_headingdata(x) = j /\ x.data = kb.data
    BY <1>1, <2>1, ForwardTo DEF head
  <2>3. forward(kb) = [rc |-> c, kb |-> x, field |-> s]
    BY <1>3
  <2> HIDE DEF s, x
  <2>4. CASE c = "ok" /\ Len(s) > KCN_MSG_MAXLOCSIZ
    <3>1. getstr(kb) = [forward(kb) EXCEPT !.rc = "E2BIG"]
      BY <2>3, <2>4 DEF getstr
    <3>2. getstr(kb).rc = "E2BIG" /\ getstr(kb).kb = x /\ getstr(kb).field = s
      BY <2>3, <3>1
    <3> QED
      BY <2>2, <2>4, <3>2 DEF s
  <2>5. CASE ~ (c = "ok" /\ Len(s) > KCN_MSG_MAXLOCSIZ)
    <3>1. getstr(kb) = forward(kb)
      BY <2>3, <2>5 DEF getstr
    <3>2. getstr(kb).rc = c /\ getstr(kb).kb = x /\ getstr(kb).field = s
      BY <2>3, <3>1
    <3> QED
      BY <2>2, <2>5, <3>2 DEF s
  <2> QED
    BY <2>4, <2>5
<1>4. \/ /\ \A j \in head + 1..Len(kb.data) : kb.data[j] \in Printable
         /\ forward(kb) = [rc |-> "EAGAIN",
                           kb |-> kcn_buf_forward(kb, Len(kb.data) - head)]
      \/ \E j \in head + 1..Len(kb.data) :
            /\ FieldTo(kb, j)
            /\ forward(kb) = [rc    |-> IF kb.data[j] = Space THEN "ok" ELSE "EINVAL",
                              kb    |-> kcn_buf_forward(kb, j - head),
                              field |-> SubSeq(kb.data, head + 1, j - 1)]
  BY <1>1, ForwardStops DEF head
<1> QED
  BY <1>2, <1>3, <1>4

LEMMA LocatorStep ==
    ASSUME FileInv, GetLocator
    PROVE  FileInv'
<1> DEFINE r == getstr(kb)
<1> HIDE DEF r
<1>1. /\ pc = "loc"
      /\ \/ /\ r.rc = "ok" /\ kn_up
            /\ sent' = Append(sent, [time |-> kma[1], val |-> kma[2], loc |-> r.field])
            /\ kb' = kcn_buf_trim_head(r.kb, kcn_buf_headingdata(r.kb))
            /\ kma' = << >> /\ pc' = "time"
            /\ UNCHANGED <<file, filesize, off, kf_size, kn_up, result>>
         \/ r.rc = "ok" /\ ~ kn_up /\ End("ENETDOWN") /\ kb' = r.kb
         \/ NoField(r)
  BY DEF GetLocator, r
<1>2. CASE /\ \A k \in head + 1..Len(kb.data) : kb.data[k] \in Printable
           /\ r.rc = "EAGAIN" /\ r.kb = kcn_buf_forward(kb, Len(kb.data) - head)
  <2>1. Wait(kcn_buf_start(r.kb))
    BY <1>1, <1>2 DEF NoField
  <2>2. Parses
    BY <1>1 DEF FileInv, Parsing
  <2> QED
    BY <1>1, <1>2, <2>1, <2>2, ParsesAgain
<1>3. ASSUME NEW j, FieldTo(kb, j),
             r.kb \in GoodBufs(Byte, bufsize),
             kcn_buf_headingdata(r.kb) = j, r.kb.data = kb.data,
             r.field = SubSeq(kb.data, head + 1, j - 1),
             r.rc = IF kb.data[j] # Space THEN "EINVAL"
                    ELSE IF Len(r.field) > KCN_MSG_MAXLOCSIZ THEN "E2BIG" ELSE "ok"
      PROVE  FileInv'
  <2>1. CASE kb.data[j] # Space
    <3>1. End("EINVAL") /\ kb' = r.kb
      BY <1>1, <1>3, <2>1 DEF NoField
    <3>2. Len(file) = filesize => Caused
      BY <1>1, <1>3, <2>1, BadField
    <3>3. Keeps(kb.data, kb'.data) /\ kb' \in GoodBufs(Byte, bufsize)
      BY <1>3, <3>1, Same
    <3> QED
      BY <1>1, <3>1, <3>2, <3>3, Ends
  <2>2. CASE kb.data[j] = Space /\ Len(r.field) > KCN_MSG_MAXLOCSIZ
    <3>1. End("E2BIG") /\ kb' = r.kb
      BY <1>1, <1>3, <2>2 DEF NoField
    <3>2. Parsed = 2
      BY <1>1 DEF Parsed
    <3>3. Caused
      BY <1>1, <1>3, <2>2, <3>2, WrongField
    <3>4. Keeps(kb.data, kb'.data) /\ kb' \in GoodBufs(Byte, bufsize)
      BY <1>3, <3>1, Same
    <3> QED
      BY <1>1, <3>1, <3>3, <3>4, Ends
  <2>3. CASE kb.data[j] = Space /\ ~ (Len(r.field) > KCN_MSG_MAXLOCSIZ)
    <3>1. r.rc = "ok"
      BY <1>3, <2>3
    <3>2. CASE ~ kn_up
      <4>1. End("ENETDOWN") /\ kb' = r.kb
        BY <1>1, <3>1, <3>2 DEF NoField
      <4>2. Keeps(kb.data, kb'.data) /\ kb' \in GoodBufs(Byte, bufsize)
        BY <1>3, <4>1, Same
      <4> QED
        BY <1>1, <4>1, <4>2, Ends
    <3>3. CASE kn_up
      <4>1. /\ sent' = Append(sent, [time |-> kma[1], val |-> kma[2], loc |-> r.field])
            /\ kb' = kcn_buf_trim_head(r.kb, j)
            /\ kma' = << >> /\ pc' = "time"
            /\ UNCHANGED <<file, filesize, off, kf_size, kn_up, result>>
        BY <1>1, <1>3, <3>1, <3>3 DEF NoField
      <4>2. j \in 0..Len(r.kb.data) /\ bufsize \in Nat
        <5>1. head \in 0..Len(kb.data) /\ Len(kb.data) \in Nat /\ bufsize \in Nat
          BY Shape
        <5>2. j \in head + 1..Len(kb.data)
          BY <1>3 DEF FieldTo, head
        <5> QED
          BY <1>3, <5>1, <5>2
      <4>3. /\ kb' \in GoodBufs(Byte, bufsize) /\ kcn_buf_headingdata(kb') = 0
            /\ Len(kb'.data) = Len(kb.data) - j
            /\ \A i \in 1..Len(kb.data) - j : kb'.data[i] = kb.data[j + i]
        <5> DEFINE t == kcn_buf_trim_head(r.kb, j)
        <5>1. /\ t \in GoodBufs(Byte, bufsize) /\ kcn_buf_headingdata(t) = 0
              /\ Len(t.data) = Len(r.kb.data) - j
              /\ \A i \in 1..Len(r.kb.data) - j : t.data[i] = r.kb.data[j + i]
          BY <1>3, <4>2, Trimmed
        <5> HIDE DEF t
        <5>2. kb' = t
          BY <4>1 DEF t
        <5> QED
          BY <1>3, <5>1, <5>2
      <4>4. Len(r.field) <= KCN_MSG_MAXLOCSIZ
        <5>1. Len(r.field) \in Nat
          <6>1. SubSeq(kb.data, head + 1, j - 1) \in Seq(Printable)
            BY <1>1, <1>3, <2>3, FieldRead
          <6> QED
            BY <1>3, <6>1
        <5> QED
          BY <2>3, <5>1, FileAssumption
      <4> QED
        BY <1>1, <1>3, <2>3, <4>1, <4>3, <4>4, TakesLocator
    <3> QED
      BY <3>2, <3>3
  <2> QED
    BY <2>1, <2>2, <2>3
<1>4. pc # "end"
  BY <1>1
<1> QED
  BY <1>2, <1>3, <1>4, GetStr DEF r

(* No whole record is there: what is in the buffer stays.                  *)
LEMMA LaterStep ==
    ASSUME FileInv, ParseLater
    PROVE  FileInv'
<1>1. pc = "time" /\ ~ Parses /\ Wait(kb)
  BY DEF ParseLater
<1>2. head = 0 /\ kb \in GoodBufs(Byte, bufsize)
  BY <1>1, Shape DEF FileInv, AtRecord, Parsed
<1>3. Len(kb.data) < KCN_MSG_MAXSIZ /\ (Len(file) = filesize => off # Len(file))
  <2>3. Len(kb.data) < KCN_MSG_MAXSIZ
    BY <1>1, Shape, FileAssumption DEF Parses, kcn_buf_len
  <2> SUFFICES ASSUME off = Len(file), Len(file) = filesize PROVE FALSE
    BY <2>3
  <2>1. kf_size = Len(file) - off
    BY <1>1, NothingMore
  <2>2. kf_size = 0
    BY <2>1, Shape
  <2> QED
    BY <1>1, <2>2 DEF Parses
<1>4. \/ \A j \in 1..Len(kb.data) : kb.data[j] # Nul
      \/ /\ Overwritten
         /\ Len(file) # filesize \/ TooLong(file, 3 * Len(sent) + 3, start)
  BY <1>1 DEF FileInv, Clean
<1> QED
  BY <1>1, <1>2, <1>3, <1>4, Waits DEF head

(* The buffer that is read into keeps its cursor; it may be realigned.     *)
LEMMA IntoKeeps ==
    ASSUME NEW size \in Nat, NEW b \in GoodBufs(Byte, size)
    PROVE  LET into == kcn_buf_read_into(b, size)
           IN  /\ into \in GoodBufs(Byte, size) /\ into.data = b.data
               /\ kcn_buf_headingdata(into) = kcn_buf_headingdata(b)
<1>1. /\ kcn_buf_read_into(b, size) \in GoodBufs(Byte, size)
      /\ kcn_buf_read_into(b, size).data = b.data
  BY ReadIntoGood
<1>2. kcn_buf_headingdata(b) \in Nat
  BY GoodParts
<1>3. kcn_buf_headingdata(kcn_buf_realign(b)) = kcn_buf_headingdata(b)
  <2> DEFINE h == kcn_buf_headingdata(b)
  <2> HIDE DEF h
  <2>1. kcn_buf_realign(b) = [sp |-> 0, cp |-> h, data |-> b.data]
    BY DEF kcn_buf_realign, h
  <2>2. kcn_buf_headingdata(kcn_buf_realign(b)) = h - 0
    BY <2>1 DEF kcn_buf_headingdata
  <2> QED
    BY <1>2, <2>2 DEF h
<1>4. kcn_buf_headingdata(kcn_buf_read_into(b, size)) = kcn_buf_headingdata(b)
  BY <1>3 DEF kcn_buf_read_into
<1> QED
  BY <1>1, <1>4

LEMMA Filled ==
    ASSUME NEW size \in Nat, NEW b \in GoodBufs(Byte, size), NEW s \in Seq(Byte),
           Len(s) <= kcn_buf_trailingspace(b, size)
    PROVE  /\ kcn_buf_fill(b, s) \in GoodBufs(Byte, size)
           /\ kcn_buf_headingdata(kcn_buf_fill(b, s)) = kcn_buf_headingdata(b)
           /\ kcn_buf_fill(b, s).data = b.data \o s
           /\ Len(b.data \o s) = Len(b.data) + Len(s)
           /\ \A j \in 1..Len(b.data) : (b.data \o s)[j] = b.data[j]
           /\ \A j \in 1..Len(s) : (b.data \o s)[Len(b.data) + j] = s[j]
<1>1. /\ b.data \in Seq(Byte) /\ Len(b.data) \in Nat /\ b.sp \in Nat /\ b.cp \in Nat
      /\ kcn_buf_headingdata(b) \in 0..Len(b.data)
      /\ b.cp = b.sp + kcn_buf_headingdata(b) /\ b.sp + Len(b.data) <= size
  BY GoodParts
<1> DEFINE d == b.data \o s
<1>2. /\ d \in Seq(Byte) /\ Len(d) = Len(b.data) + Len(s) /\ Len(s) \in Nat
      /\ \A j \in 1..Len(b.data) : d[j] = b.data[j]
      /\ \A j \in 1..Len(s) : d[Len(b.data) + j] = s[j]
  BY <1>1
<1>3. kcn_buf_fill(b, s) = [sp |-> b.sp, cp |-> b.cp, data |-> d]
  BY DEF kcn_buf_fill
<1> HIDE DEF d
<1>4. Len(s) <= size - (b.sp + Len(b.data))
  BY DEF kcn_buf_trailingspace, kb_ep
<1>5. b.sp <= b.cp /\ b.cp <= b.sp + Len(d) /\ b.sp + Len(d) <= size
  <2>1. \A x, y, z, w, l \in Nat : \A h \in 0..y :
           x + y <= z /\ w <= z - (x + y) /\ l = y + w =>
             x <= x + h /\ x + h <= x + l /\ x + l <= z
    OBVIOUS
  <2>2. Len(d) \in Nat
    BY <1>2
  <2> QED
    BY <1>1, <1>2, <1>4, <2>1, <2>2
<1>6. /\ kcn_buf_fill(b, s) \in GoodBufs(Byte, size)
      /\ kcn_buf_headingdata(kcn_buf_fill(b, s)) = b.cp - b.sp
  <2> DEFINE z == b.sp
             w == b.cp
  <2>1. /\ z \in Nat /\ w \in Nat /\ d \in Seq(Byte) /\ z <= w /\ w <= z + Len(d)
        /\ z + Len(d) <= size /\ kcn_buf_fill(b, s) = [sp |-> z, cp |-> w, data |-> d]
    BY <1>1, <1>2, <1>3, <1>5
  <2> HIDE DEF z, w
  <2>2. /\ kcn_buf_fill(b, s) \in GoodBufs(Byte, size)
        /\ kcn_buf_headingdata(kcn_buf_fill(b, s)) = w - z
    BY <2>1, MakeGood
  <2> QED
    BY <2>2 DEF z, w
<1>7. kcn_buf_fill(b, s).data = d
  BY <1>3
<1> QED
  BY <1>2, <1>6, <1>7 DEF d, kcn_buf_headingdata

LEMMA CountsRead ==
    ASSUME NEW k \in Int, NEW o \in Int, NEW f \in Int, NEW m \in Int,
           NEW n \in Int, CountedAs(k, o, f, m)
    PROVE  /\ (k - (m + n)) % SIZE \in 0..SIZE - 1
           /\ CountedAs((k - (m + n)) % SIZE, o + n, f, 0)
<1> DEFINE s == (k - (m + n)) % SIZE
<1>1. PICK q \in Int : k + o - m = f + q * SIZE
  BY DEF CountedAs
<1>2. k - (m + n) \in Int /\ SIZE \in Int
  BY FileAssumption
<1>3. s \in 0..SIZE - 1 /\ \E d \in Int : k - (m + n) = s + d * SIZE
  BY <1>2, ModOf
<1>4. PICK d \in Int : k - (m + n) = s + d * SIZE
  BY <1>3
<1> HIDE DEF s
<1> DEFINE x == q * SIZE
           y == d * SIZE
<1>5. x \in Int /\ y \in Int /\ x - y = (q - d) * SIZE /\ q - d \in Int
  BY <1>2
<1>6. s \in Int
  BY <1>2, <1>3
<1>7. k + o - m = f + x /\ k - (m + n) = s + y
  BY <1>1, <1>4
<1> HIDE DEF x, y
<1>8. s + (o + n) - 0 = f + (x - y)
  BY <1>5, <1>6, <1>7
<1> DEFINE e == q - d
<1>9. e \in Int /\ s + (o + n) - 0 = f + e * SIZE
  BY <1>5, <1>8
<1> HIDE DEF e
<1>10. CountedAs(s, o + n, f, 0)
  BY <1>9 DEF CountedAs
<1> QED
  BY <1>3, <1>10 DEF s

(* Bytes are put behind the data.                                          *)
LEMMA ReadStep ==
    ASSUME FileInv, Read
    PROVE  FileInv'
<1> DEFINE into == kcn_buf_read_into(kb, bufsize)
           m == Len(kb.data)
<1>1. PICK n \in 1..kcn_buf_read_len(kb, bufsize, file, off) :
          /\ kb' = kcn_buf_fill(into, SubSeq(file, off + 1, off + n))
          /\ off' = off + n
  BY DEF Read
<1>2. /\ pc = "wait" /\ pc' = "time"
      /\ kf_size' = (kf_size - Len(kb'.data)) % SIZE
      /\ UNCHANGED <<file, filesize, kn_up, kma, result, sent>>
  BY DEF Read, kcn_buf_len
<1> DEFINE g == SubSeq(file, off + 1, off + n)
<1>3. /\ file \in Seq(Byte) /\ Len(file) \in Nat /\ off \in Nat /\ off <= Len(file)
      /\ kb \in GoodBufs(Byte, bufsize) /\ bufsize \in Nat /\ m \in Nat
      /\ start \in Nat /\ start + m = off /\ kb.data \in Seq(Byte)
  BY Shape
<1>4. /\ into \in GoodBufs(Byte, bufsize) /\ into.data = kb.data
      /\ kcn_buf_headingdata(into) = head
  BY <1>3, IntoKeeps DEF head
<1>5. n \in Nat \ {0} /\ off + n <= Len(file) /\ n <= kcn_buf_trailingspace(into, bufsize)
  <2> DEFINE room == kcn_buf_trailingspace(into, bufsize)
             left == IF off < Len(file) THEN Len(file) - off ELSE 0
  <2>1. kcn_buf_read_len(kb, bufsize, file, off) = IF left < room THEN left ELSE room
    BY DEF kcn_buf_read_len
  <2>2. room \in Int
    <3>1. into.sp \in Nat /\ Len(into.data) \in Nat
      BY <1>3, <1>4, GoodParts
    <3> HIDE DEF into
    <3> QED
      BY <1>3, <3>1 DEF kcn_buf_trailingspace, kb_ep
  <2>3. left \in Nat /\ (left > 0 => off + left = Len(file))
    BY <1>3
  <2> HIDE DEF room, left, into
  <2>4. n \in Nat \ {0} /\ n <= room /\ n <= left
    BY <2>1, <2>2, <2>3
  <2>5. off + n <= Len(file)
    BY <1>3, <2>3, <2>4
  <2> QED
    BY <2>4, <2>5 DEF room
<1>6. g \in Seq(Byte) /\ Len(g) = n /\ \A i \in 1..n : g[i] = file[off + i]
  <2> DEFINE i1 == off + 1
             e1 == off + n
  <2>1. /\ i1 \in Nat /\ e1 \in Nat /\ i1 >= 1 /\ e1 <= Len(file)
        /\ (IF i1 <= e1 THEN e1 - i1 + 1 ELSE 0) = n
    BY <1>3, <1>5
  <2>2. \A i \in 1..n : g[i] = file[off + i]
    <3>1. \A x, y \in Nat : x >= 1 /\ y <= Len(file) =>
             \A i \in 1..y - x + 1 : SubSeq(file, x, y)[i] = file[x + i - 1]
      BY <1>3
    <3>2. e1 - i1 + 1 = n /\ \A i \in 1..n : i1 + i - 1 = off + i
      BY <1>3, <1>5
    <3>3. g = SubSeq(file, i1, e1)
      OBVIOUS
    <3> HIDE DEF g, i1, e1
    <3> QED
      BY <2>1, <3>1, <3>2, <3>3
  <2> HIDE DEF i1, e1
  <2>3. SubSeq(file, i1, e1) \in Seq(Byte) /\ Len(SubSeq(file, i1, e1)) = n
    BY <1>3, <2>1, PartOfSeq
  <2> QED
    BY <2>2, <2>3 DEF i1, e1
<1> HIDE DEF into, g
<1>7. /\ kb' \in GoodBufs(Byte, bufsize) /\ kcn_buf_headingdata(kb') = head
      /\ Len(kb'.data) = m + n
      /\ \A j \in 1..m : kb'.data[j] = kb.data[j]
      /\ \A j \in 1..n : kb'.data[m + j] = g[j]
  <2>1. kb' = kcn_buf_fill(into, g) /\ Len(g) <= kcn_buf_trailingspace(into, bufsize)
    BY <1>1, <1>5, <1>6 DEF g
  <2>2. /\ kcn_buf_fill(into, g) \in GoodBufs(Byte, bufsize)
        /\ kcn_buf_headingdata(kcn_buf_fill(into, g)) = kcn_buf_headingdata(into)
        /\ kcn_buf_fill(into, g).data = into.data \o g
        /\ Len(into.data \o g) = Len(into.data) + Len(g)
        /\ \A j \in 1..Len(into.data) : (into.data \o g)[j] = into.data[j]
        /\ \A j \in 1..Len(g) : (into.data \o g)[Len(into.data) + j] = g[j]
    BY <1>3, <1>4, <1>6, <2>1, Filled
  <2> QED
    BY <1>4, <1>6, <2>1, <2>2
<1>8. start' = start /\ head' = head
  <2>1. start' = (off + n) - (m + n) /\ head' = head
    BY <1>1, <1>7 DEF start, head
  <2>2. start = off - m
    BY DEF start
  <2> HIDE DEF m
  <2> QED
    BY <1>3, <1>5, <2>1, <2>2
<1> HIDE DEF m
<1>9. /\ kf_size' \in 0..SIZE - 1
      /\ CountedAs(kf_size', off + n, filesize, 0)
  <2>1. CountedAs(kf_size, off, filesize, m)
    BY <1>2 DEF FileInv, Counted, m
  <2>2. kf_size \in Int /\ filesize \in Int /\ off \in Int /\ m \in Int /\ n \in Int
    BY <1>3, <1>5, FileAssumption DEF FileInv, TypeOK
  <2>3. kf_size' = (kf_size - (m + n)) % SIZE
    BY <1>2, <1>7
  <2> QED
    BY <2>1, <2>2, <2>3, CountsRead
<1>10. TypeOK'
  <2>1. bufsize' = bufsize
    BY <1>2 DEF bufsize
  <2>2. off' \in Nat
    BY <1>1, <1>3, <1>5
  <2> QED
    BY <1>2, <1>7, <1>9, <2>1, <2>2 DEF FileInv, TypeOK
<1>11. FileOK'
  <2>1. m + n <= off + n /\ off' = off + n
    BY <1>1, <1>3, <1>5
  <2> QED
    BY <1>2, <1>5, <1>7, <2>1 DEF FileInv, FileOK
<1>12. ASSUME NEW j \in 1..m + n
       PROVE  \/ j \in 1..m /\ kb'.data[j] = kb.data[j]
              \/ /\ kb'.data[j] = file[start + j]
                 /\ start + j \in 1..Len(file)
  <2>1. CASE j \in 1..m
    BY <1>7, <2>1
  <2>2. CASE ~ (j \in 1..m)
    <3>1. j - m \in 1..n /\ m + (j - m) = j /\ off + (j - m) = start + j
          /\ off + (j - m) \in 1..Len(file)
      BY <1>3, <1>5, <2>2
    <3> QED
      BY <1>6, <1>7, <3>1
  <2> QED
    BY <2>1, <2>2
<1>13. Copied'
  <2>1. ASSUME NEW j \in 1..m + n
        PROVE  kb'.data[j] = file[start + j] \/ (kb'.data[j] = Nul /\ file[start + j] = Space)
    BY <1>12 DEF FileInv, Copied, m
  <2> QED
    BY <1>2, <1>7, <1>8, <2>1 DEF Copied
<1>14. AtRecord'
  <2>1. Parsed' = Parsed
    BY <1>2 DEF Parsed
  <2> QED
    BY <1>2, <1>8, <2>1 DEF FileInv, AtRecord
<1>15. Parsing' /\ Drained' /\ Counted'
  <2>1. Counted'
    BY <1>1, <1>2, <1>9 DEF Counted
  <2> QED
    BY <1>2, <2>1 DEF Parsing, Drained
<1>16. Clean'
  <2>1. CASE \A j \in 1..m : kb.data[j] # Nul
    <3>1. \A j \in 1..m + n : kb'.data[j] # Nul
      BY <1>12, <2>1, Shape
    <3> QED
      BY <1>2, <1>7, <3>1 DEF Clean
  <2>2. CASE /\ Overwritten
             /\ Len(file) # filesize \/ TooLong(file, 3 * Len(sent) + 3, start)
    <3>1. PICK i \in 1..m : /\ kb.data[i] = Nul
                            /\ Before(file, start + i) = 3 * Len(sent) + 1
      BY <2>2 DEF Overwritten, m
    <3>2. i \in 1..m + n /\ kb'.data[i] = kb.data[i]
      BY <1>3, <1>5, <1>7
    <3>3. Overwritten'
      BY <1>2, <1>7, <1>8, <3>1, <3>2 DEF Overwritten
    <3> QED
      BY <1>2, <1>8, <2>2, <3>3 DEF Clean
  <2> QED
    BY <1>2, <2>1, <2>2 DEF FileInv, Clean, m
<1>17. SentExact'
  BY <1>2 DEF FileInv, SentExact
<1>18. NothingLeft' /\ RefusedForCause' /\ Ended'
  BY <1>2, GoesOn
<1> QED
  BY <1>10, <1>11, <1>13, <1>14, <1>15, <1>16, <1>17, <1>18 DEF FileInv

(* The end of the file, and an assertion that fails.                       *)
LEMMA NoReadStep ==
    ASSUME FileInv, ReadNoRoom \/ ReadEnd
    PROVE  FileInv'
<1>1. CASE ReadNoRoom
  <2>1. pc = "wait" /\ End("abort") /\ kb' = kb
    BY <1>1 DEF ReadNoRoom
  <2>2. Keeps(kb.data, kb'.data) /\ kb' \in GoodBufs(Byte, bufsize)
    BY <2>1, Same, Shape
  <2> QED
    BY <2>1, <2>2, Ends
<1>2. CASE ReadEnd
  <2>1. pc = "wait" /\ End("ok") /\ off >= Len(file) /\ kb' = kcn_buf_read_into(kb, bufsize)
    BY <1>2 DEF ReadEnd
  <2>2. kb' \in GoodBufs(Byte, bufsize) /\ kb'.data = kb.data
    BY <2>1, Shape, IntoKeeps
  <2>3. Keeps(kb.data, kb'.data)
    BY <2>2, Same
  <2> QED
    BY <2>1, <2>2, <2>3, Ends
<1> QED
  BY <1>1, <1>2

(* Nothing is read, though the buffer may be realigned.                    *)
LEMMA StandsStill ==
    ASSUME FileInv, kb' \in GoodBufs(Byte, bufsize), kb'.data = kb.data,
           kcn_buf_headingdata(kb') = head, kn_up' \in BOOLEAN,
           UNCHANGED <<file, filesize, off, kf_size, pc, kma, result, sent>>
    PROVE  FileInv'
<1>1. start' = start /\ head' = head /\ Parsed' = Parsed /\ bufsize' = bufsize
  BY DEF start, head, Parsed, bufsize
<1>2. TypeOK' /\ FileOK'
  <2>1. TypeOK'
    BY <1>1 DEF FileInv, TypeOK
  <2>2. FileOK'
    BY DEF FileInv, FileOK
  <2> QED
    BY <2>1, <2>2
<1>3. Copied'
  BY <1>1 DEF FileInv, Copied
<1>4. AtRecord'
  BY <1>1 DEF FileInv, AtRecord
<1>5. Parsing' /\ Counted' /\ Drained'
  <2>1. Parses' <=> Parses
    BY DEF Parses, kcn_buf_len
  <2>2. Parsing'
    BY <2>1 DEF FileInv, Parsing
  <2>3. Counted'
    BY DEF FileInv, Counted
  <2>4. Drained'
    BY DEF FileInv, Drained
  <2> QED
    BY <2>2, <2>3, <2>4
<1>6. Clean'
  <2>1. Overwritten' <=> Overwritten
    BY <1>1 DEF Overwritten
  <2>2. pc \in {"val", "loc"} =>
          /\ \A j \in head + 1..Len(kb.data) : kb.data[j] # Nul
          /\ \E i \in 1..Len(kb.data) :
                /\ i <= head /\ kb.data[i] = Nul
                /\ Before(file, start + i) = 3 * Len(sent) + 1
    BY DEF FileInv, Clean
  <2>3. pc \in {"wait", "time"} =>
          \/ \A j \in 1..Len(kb.data) : kb.data[j] # Nul
          \/ /\ Overwritten
             /\ Len(file) # filesize \/ TooLong(file, 3 * Len(sent) + 3, start)
    BY DEF FileInv, Clean
  <2> QED
    BY <1>1, <2>1, <2>2, <2>3 DEF Clean
<1>7. SentExact' /\ NothingLeft' /\ RefusedForCause'
  BY TextKept
<1>8. Ended'
  BY DEF FileInv, Ended
<1> QED
  BY <1>2, <1>3, <1>4, <1>5, <1>6, <1>7, <1>8 DEF FileInv

LEMMA IdleStep ==
    ASSUME FileInv, ReadFails \/ Disconnect \/ UNCHANGED vars
    PROVE  FileInv'
<1>1. kn_up \in BOOLEAN
  BY DEF FileInv, TypeOK
<1>2. kb \in GoodBufs(Byte, bufsize) /\ bufsize \in Nat
  BY Shape
<1>3. CASE ReadFails
  <2>1. /\ kb' = kcn_buf_read_into(kb, bufsize)
        /\ UNCHANGED <<file, filesize, off, kf_size, kn_up, pc, kma, result, sent>>
    BY <1>3 DEF ReadFails
  <2>2. /\ kb' \in GoodBufs(Byte, bufsize) /\ kb'.data = kb.data
        /\ kcn_buf_headingdata(kb') = head
    BY <1>2, <2>1, IntoKeeps DEF head
  <2> QED
    BY <1>1, <2>1, <2>2, StandsStill
<1>4. CASE Disconnect
  <2>1. /\ kn_up' = FALSE
        /\ UNCHANGED <<file, filesize, off, kb, kf_size, pc, kma, result, sent>>
    BY <1>4 DEF Disconnect
  <2> QED
    BY <1>2, <2>1, StandsStill DEF head
<1>5. CASE UNCHANGED vars
  <2>1. UNCHANGED <<file, filesize, off, kb, kf_size, kn_up, pc, kma, result, sent>>
    BY <1>5 DEF vars
  <2> QED
    BY <1>1, <1>2, <2>1, StandsStill DEF head
<1> QED
  BY <1>3, <1>4, <1>5

(* The records of a file are those of the longer one too.                  *)
LEMMA LongerRecords ==
    ASSUME NEW f \in Seq(Byte), NEW u \in Seq(Byte)
    PROVE  /\ Complete(f) \in Nat /\ Complete(f \o u) \in Nat
           /\ Complete(f) <= Complete(f \o u)
           /\ \A k \in 1..Complete(f) :
                 /\ Field(f \o u, 3 * k - 2) = Field(f, 3 * k - 2)
                 /\ Field(f \o u, 3 * k - 1) = Field(f, 3 * k - 1)
                 /\ Field(f \o u, 3 * k) = Field(f, 3 * k)
<1> DEFINE n == Before(f, Len(f))
<1>1. /\ n \in Nat /\ Before(f \o u, Len(f \o u)) \in Nat
      /\ n <= Before(f \o u, Len(f \o u))
  BY LongerFile
<1>2. \A x, y \in Nat : x <= y => x \div 3 \in Nat /\ y \div 3 \in Nat /\ x \div 3 <= y \div 3
  OBVIOUS
<1>3. /\ Complete(f) \in Nat /\ Complete(f \o u) \in Nat
      /\ Complete(f) <= Complete(f \o u)
  BY <1>1, <1>2 DEF Complete
<1>4. ASSUME NEW k \in 1..Complete(f)
      PROVE  /\ Field(f \o u, 3 * k - 2) = Field(f, 3 * k - 2)
             /\ Field(f \o u, 3 * k - 1) = Field(f, 3 * k - 1)
             /\ Field(f \o u, 3 * k) = Field(f, 3 * k)
  <2>1. \A x \in Nat : \A i \in 1..x \div 3 :
           /\ 3 * i \in Nat \ {0} /\ 3 * i - 1 \in Nat \ {0} /\ 3 * i - 2 \in Nat \ {0}
           /\ 3 * i <= x /\ 3 * i - 1 <= x /\ 3 * i - 2 <= x
    OBVIOUS
  <2>2. /\ 3 * k \in Nat \ {0} /\ 3 * k - 1 \in Nat \ {0} /\ 3 * k - 2 \in Nat \ {0}
        /\ 3 * k <= n /\ 3 * k - 1 <= n /\ 3 * k - 2 <= n
    BY <1>1, <2>1 DEF Complete
  <2>3. \A i \in Nat \ {0} : i <= n => Field(f \o u, i) = Field(f, i)
    BY LongerFields
  <2> QED
    BY <2>2, <2>3
<1> QED
  BY <1>3, <1>4

LEMMA GrowStep ==
    ASSUME FileInv, Grow
    PROVE  FileInv'
<1> PICK more \in Grown : file' = file \o more
  BY DEF Grow
<1>1. /\ pc # "end" /\ Len(file) = filesize /\ file' = file \o more
      /\ UNCHANGED <<filesize, off, kb, kf_size, kn_up, pc, kma, result, sent>>
  BY DEF Grow
<1>2. more \in Seq(Byte \ {Nul}) /\ more \in Seq(Byte)
  BY FileAssumption
<1>3. CASE more = << >>
  <2>1. file' = file
    BY <1>1, <1>3, Shape
  <2> QED
    BY <1>1, <2>1, IdleStep DEF vars
<1>4. CASE more # << >>
  <2>1. /\ file \in Seq(Byte) /\ Len(file) \in Nat
        /\ file' \in Seq(Byte) /\ Len(file) <= Len(file')
        /\ \A p \in 1..Len(file) : file'[p] = file[p]
        /\ \A p \in 0..Len(file) : Before(file', p) = Before(file, p)
        /\ \A k \in Nat : \A p : Behind(file, k, p) => Behind(file', k, p)
    <3> DEFINE f == file
               g == file \o more
    <3>1. f \in Seq(Byte) /\ Len(f) \in Nat
      BY Shape
    <3>2. /\ g \in Seq(Byte) /\ Len(f) <= Len(g)
          /\ \A p \in 1..Len(f) : g[p] = f[p]
          /\ \A p \in 0..Len(f) : Before(g, p) = Before(f, p)
          /\ \A k \in Nat : \A p : Behind(f, k, p) => Behind(g, k, p)
      BY <1>2, <3>1, LongerFile
    <3>3. file' = g
      BY <1>1
    <3> QED
      BY <3>1, <3>2, <3>3
  <2>2. file' \in Seq(Byte \ {Nul}) /\ Len(file') # filesize /\ Len(file') \in Nat
    <3>1. file \in Seq(Byte \ {Nul})
      BY DEF FileInv, TypeOK
    <3>2. Len(file') = Len(file) + Len(more) /\ Len(more) \in Nat /\ Len(more) # 0
      <4>1. Len(file \o more) = Len(file) + Len(more) /\ Len(more) \in Nat
        BY <1>2, <3>1
      <4>2. ASSUME Len(more) = 0 PROVE more = << >>
        <5>1. << >> \in Seq(Byte) /\ Len(<< >>) = 0
          OBVIOUS
        <5>2. \A k \in 1..Len(more) : more[k] = << >>[k]
          BY <4>2
        <5> QED
          BY <1>2, <4>2, <5>1, <5>2, SameSeq
      <4> QED
        BY <1>1, <1>4, <4>1, <4>2
    <3>3. file' \in Seq(Byte \ {Nul})
      BY <1>1, <1>2, <3>1
    <3> QED
      BY <1>1, <2>1, <3>2, <3>3
  <2>3. start' = start /\ head' = head /\ Parsed' = Parsed /\ bufsize' = bufsize
    BY <1>1 DEF start, head, Parsed, bufsize
  <2>4. TypeOK'
    BY <1>1, <2>2, <2>3 DEF FileInv, TypeOK
  <2>5. FileOK'
    BY <1>1, <2>1, <2>2, Shape DEF FileInv, FileOK
  <2>6. ASSUME NEW j \in 1..Len(kb.data)
        PROVE  file'[start + j] = file[start + j]
               /\ Before(file', start + j) = Before(file, start + j)
    <3>1. start + j \in 1..Len(file)
      BY CopiedByte
    <3>2. start + j \in 0..Len(file)
      BY <2>1, <3>1
    <3> QED
      BY <2>1, <3>1, <3>2
  <2>7. Copied'
    BY <1>1, <2>3, <2>6 DEF FileInv, Copied
  <2>8. AtRecord'
    <3>1. /\ Behind(file, 3 * Len(sent), start)
          /\ Behind(file, 3 * Len(sent) + Parsed, start + head)
          /\ Before(file, start + head) = 3 * Len(sent) + Parsed
          /\ 3 * Len(sent) + Parsed \in Nat /\ 3 * Len(sent) \in Nat
      BY <1>1, AtCursor, Shape
    <3>2. /\ Behind(file', 3 * Len(sent), start)
          /\ Behind(file', 3 * Len(sent) + Parsed, start + head)
      BY <2>1, <3>1
    <3>3. ASSUME NEW k \in 1..Parsed
          PROVE  Field(file', 3 * Len(sent) + k) = Field(file, 3 * Len(sent) + k)
      <4>1. 3 * Len(sent) + Parsed <= Before(file, Len(file)) /\ Before(file, Len(file)) \in Nat
        <5>1. start + head \in 0..Len(file)
          BY <3>1 DEF Behind
        <5> QED
          BY <2>1, <3>1, <5>1, Counting
      <4>2. \A a, b \in Nat : \A p \in 0..2 : \A i \in 1..p : a + p <= b
               => a + i \in Nat \ {0} /\ a + i <= b
        OBVIOUS
      <4>3. Parsed \in 0..2
        BY Shape
      <4> DEFINE i == 3 * Len(sent) + k
      <4>4. i \in Nat \ {0} /\ i <= Before(file, Len(file))
        BY <3>1, <4>1, <4>2, <4>3
      <4> HIDE DEF i
      <4>5. Field(file', i) = Field(file, i)
        BY <1>1, <1>2, <2>1, <4>4, LongerFields
      <4> QED
        BY <4>5 DEF i
    <3>4. /\ Len(kma) = Parsed /\ (Parsed = 0 => head = 0)
          /\ \A k \in 1..Parsed : /\ IsNumber(Field(file, 3 * Len(sent) + k))
                                  /\ kma[k] = kcn_strtoull(Field(file, 3 * Len(sent) + k))
      BY <1>1 DEF FileInv, AtRecord
    <3>5. \A k \in 1..Parsed : /\ IsNumber(Field(file', 3 * Len(sent) + k))
                               /\ kma[k] = kcn_strtoull(Field(file', 3 * Len(sent) + k))
      BY <3>3, <3>4
    <3> QED
      BY <1>1, <2>3, <3>2, <3>4, <3>5 DEF AtRecord
  <2>9. Parsing' /\ Counted' /\ Drained'
    <3>1. Parses' <=> Parses
      BY <1>1 DEF Parses
    <3>2. Parsing'
      BY <1>1, <3>1 DEF FileInv, Parsing
    <3>3. Counted'
      BY <1>1 DEF FileInv, Counted
    <3>4. Drained'
      <4>1. Before(file', off) = Before(file, off)
        BY <2>1, Shape
      <4> QED
        BY <1>1, <2>2, <4>1 DEF FileInv, Drained
    <3> QED
      BY <3>2, <3>3, <3>4
  <2>10. Clean'
    <3>1. ASSUME pc \in {"val", "loc"}
          PROVE  /\ \A j \in head + 1..Len(kb.data) : kb.data[j] # Nul
                 /\ \E i \in 1..Len(kb.data) :
                       /\ i <= head /\ kb.data[i] = Nul
                       /\ Before(file', start + i) = 3 * Len(sent) + 1
      BY <2>6, <3>1 DEF FileInv, Clean
    <3>2. Overwritten => Overwritten'
      BY <1>1, <2>3, <2>6 DEF Overwritten
    <3>3. pc \in {"wait", "time"} =>
            \/ \A j \in 1..Len(kb.data) : kb.data[j] # Nul
            \/ Overwritten
      BY DEF FileInv, Clean
    <3> QED
      BY <1>1, <2>2, <2>3, <3>1, <3>2, <3>3 DEF Clean
  <2>11. SentExact'
    <3>1. /\ Complete(file) \in Nat /\ Complete(file') \in Nat
          /\ Complete(file) <= Complete(file')
          /\ \A k \in 1..Complete(file) :
                 /\ Field(file', 3 * k - 2) = Field(file, 3 * k - 2)
                 /\ Field(file', 3 * k - 1) = Field(file, 3 * k - 1)
                 /\ Field(file', 3 * k) = Field(file, 3 * k)
      BY <1>1, <1>2, <2>1, LongerRecords
    <3>2. Len(sent) <= Complete(file) /\ Len(sent) \in Nat
      BY Shape DEF FileInv, SentExact
    <3>3. ASSUME NEW k \in 1..Len(sent)
          PROVE  /\ WellFormed(file', k)
                 /\ Says(Field(file', 3 * k - 2), sent[k].time)
                 /\ Says(Field(file', 3 * k - 1), sent[k].val)
                 /\ sent[k].loc = Field(file', 3 * k)
      <4>1. k \in 1..Complete(file)
        BY <3>1, <3>2
      <4> DEFINE a == Field(file, 3 * k - 2)
                 b == Field(file, 3 * k - 1)
                 c == Field(file, 3 * k)
      <4>2. /\ WellFormed(file, k)
            /\ Says(a, sent[k].time) /\ Says(b, sent[k].val)
            /\ sent[k].loc = c
        BY DEF FileInv, SentExact
      <4>3. /\ Field(file', 3 * k - 2) = a /\ Field(file', 3 * k - 1) = b
            /\ Field(file', 3 * k) = c
        BY <3>1, <4>1
      <4>4. WellFormed(file', k)
        BY <4>2, <4>3 DEF WellFormed
      <4> HIDE DEF a, b, c
      <4> QED
        BY <4>2, <4>3, <4>4
    <3>4. Len(sent) <= Complete(file')
      BY <3>1, <3>2
    <3> QED
      BY <1>1, <3>3, <3>4 DEF SentExact
  <2>12. NothingLeft' /\ RefusedForCause' /\ Ended'
    BY <1>1, GoesOn
  <2> QED
    BY <2>4, <2>5, <2>7, <2>8, <2>9, <2>10, <2>11, <2>12 DEF FileInv
<1> QED
  BY <1>3, <1>4

LEMMA FileInit == Init => FileInv
<1> SUFFICES ASSUME Init PROVE FileInv
  OBVIOUS
<1>1. /\ file \in Seq(Byte \ {Nul}) /\ Len(file) \in Nat /\ Len(file) < SIZE
      /\ filesize = Len(file) /\ kf_size = Len(file) /\ off = 0
      /\ kb = kcn_buf_reset(0) /\ kn_up = TRUE /\ pc = "wait" /\ kma = << >>
      /\ result = "none" /\ sent = << >>
  BY FileAssumption DEF Init
<1>2. /\ kb \in GoodBufs(Byte, bufsize) /\ kb.data = << >> /\ Len(kb.data) = 0
      /\ head = 0 /\ start = 0 /\ Parsed = 0
  <2>1. bufsize \in Nat
    BY <1>1, FileAssumption DEF bufsize, Smaller
  <2>2. kb \in GoodBufs(Byte, bufsize)
    BY <1>1, <2>1, ResetGood
  <2>3. kb.data = << >> /\ kcn_buf_headingdata(kb) = 0
    BY <1>1 DEF kcn_buf_reset, kcn_buf_headingdata
  <2> QED
    BY <1>1, <2>2, <2>3 DEF head, start, Parsed
<1>3. TypeOK
  <2>1. /\ << >> \in Seq(0..ULLONG_MAX)
        /\ << >> \in Seq([time : 0..ULLONG_MAX, val : 0..ULLONG_MAX, loc : Seq(Printable)])
    OBVIOUS
  <2>2. kf_size \in 0..SIZE - 1
    BY <1>1, FileAssumption
  <2> QED
    BY <1>1, <1>2, <2>1, <2>2 DEF TypeOK
<1>4. FileOK /\ Copied /\ Parsing /\ Clean /\ Ended
  <2>1. \A j \in 1..Len(kb.data) : FALSE
    BY <1>2
  <2> QED
    BY <1>1, <1>2, <2>1 DEF FileOK, Copied, Parsing, Clean, Ended
<1>5. Before(file, 0) = 0 /\ Before(file, Len(file)) \in Nat
  BY <1>1, BeforeNone, Counting
<1>6. Len(sent) = 0
  BY <1>1
<1>7. AtRecord
  <2>1. Behind(file, 0, 0)
    BY <1>1, <1>5 DEF Behind
  <2>2. 3 * Len(sent) = 0 /\ 3 * Len(sent) + Parsed = 0 /\ start + head = 0
    BY <1>2, <1>6
  <2>3. Len(kma) = Parsed /\ \A k \in 1..Parsed : FALSE
    BY <1>1, <1>2
  <2> QED
    BY <1>2, <2>1, <2>2, <2>3 DEF AtRecord
<1>8. Counted
  <2>1. kf_size + off - 0 = filesize + 0 * SIZE
    BY <1>1, FileAssumption
  <2>2. CountedAs(kf_size, off, filesize, 0)
    BY <2>1 DEF CountedAs
  <2> QED
    BY <1>1, <1>2, <2>2 DEF Counted
<1>9. Drained
  BY <1>1, <1>5, <1>6 DEF Drained
<1>10. SentExact
  <2>1. \A x \in Nat : 0 <= x \div 3
    OBVIOUS
  <2>2. Len(sent) <= Complete(file)
    BY <1>5, <1>6, <2>1 DEF Complete
  <2>3. \A k \in 1..Len(sent) : FALSE
    BY <1>6
  <2> QED
    BY <2>2, <2>3 DEF SentExact
<1>11. NothingLeft /\ RefusedForCause
  BY <1>1 DEF NothingLeft, RefusedForCause
<1> QED
  BY <1>3, <1>4, <1>7, <1>8, <1>9, <1>10, <1>11 DEF FileInv

LEMMA FileStep == FileInv /\ [Next]_vars => FileInv'
<1> SUFFICES ASSUME FileInv, [Next]_vars PROVE FileInv'
  OBVIOUS
<1>1. CASE ReadNoRoom
  BY <1>1, NoReadStep
<1>2. CASE Read
  BY <1>2, ReadStep
<1>3. CASE ReadEnd
  BY <1>3, NoReadStep
<1>4. CASE Parses /\ GetNumber("time", "val")
  BY <1>4, NumberStep
<1>5. CASE GetNumber("val", "loc")
  <2>1. Parses
    BY <1>5 DEF GetNumber, FileInv, Parsing
  <2> QED
    BY <1>5, <2>1, NumberStep
<1>6. CASE GetLocator
  BY <1>6, LocatorStep
<1>7. CASE ParseLater
  BY <1>7, LaterStep
<1>8. CASE ReadFails
  BY <1>8, IdleStep
<1>9. CASE Disconnect
  BY <1>9, IdleStep
<1>10. CASE Grow
  BY <1>10, GrowStep
<1>11. CASE UNCHANGED vars
  BY <1>11, IdleStep
<1> QED
  BY <1>1, <1>2, <1>3, <1>4, <1>5, <1>6, <1>7, <1>8, <1>9, <1>10, <1>11
     DEF Next, readfile, Parse

LEMMA FileInvariant == Spec => []FileInv
BY FileInit, FileStep, PTL DEF Spec

-----------------------------------------------------------------------------
(* The theorems.                                                           *)

(* The buffer of a file stays within its bounds, the size that is left is  *)
(* a size_t, and what is sent are numbers and locators of printable bytes  *)
(* (kcndbctl_file.c, kcn_buf.c), through any reads, faults and growth.     *)
THEOREM FileTypes == Spec => []TypeOK
<1>1. FileInv => TypeOK
  BY DEF FileInv
<1> QED
  BY <1>1, FileInvariant, PTL

(* The records kcndbctl_file_process_readfile sends are those of the file, *)
(* each once and in the order of the lines, wherever the reads cut them    *)
(* and however often the buffer is realigned or a record parsed again,     *)
(* with what strtoll makes of their numbers, signs included (kcn_str.c:20).*)
THEOREM SentIsExact == Spec => []SentExact
<1>1. FileInv => SentExact
  BY DEF FileInv
<1> QED
  BY <1>1, FileInvariant, PTL

(* The program succeeds only when every record of the file was sent: the   *)
(* test of kf_size (kcndbctl_file.c:137) finds the end of a file that      *)
(* stays as it is.  Of a file that has grown records may be left, for then *)
(* kf_size may have passed below zero, but less of them than a message has.*)
THEOREM NothingIsLeft == Spec => []NothingLeft
<1>1. FileInv => NothingLeft
  BY DEF FileInv
<1> QED
  BY <1>1, FileInvariant, PTL

(* A file that stays as it is is refused only for a record that is none,   *)
(* that is not complete or that is longer than KCN_MSG_MAXSIZ, though the  *)
(* spaces behind its numbers are overwritten (kcndbctl_file.c:105).        *)
THEOREM RefusedOnlyForCause == Spec => []RefusedForCause
<1>1. FileInv => RefusedForCause
  BY DEF FileInv
<1> QED
  BY <1>1, FileInvariant, PTL

(* Between two callbacks kf_size, which is decreased by what is in the     *)
(* buffer before it is parsed and increased by what is left of it          *)
(* afterwards (kcndbctl_file.c:136 and 154), is what is not parsed yet.    *)
THEOREM SizeCountsUnparsed == Spec => []SizeIsUnparsed
<1>1. FileInv => SizeIsUnparsed
  <2> SUFFICES ASSUME FileInv, pc = "wait"
               PROVE  (kf_size + off - kcn_buf_len(kb)) % SIZE = filesize
    BY DEF SizeIsUnparsed
  <2> DEFINE x == kf_size + off - kcn_buf_len(kb)
  <2>1. PICK q \in Int : x = filesize + q * SIZE
    BY DEF FileInv, Counted, CountedAs, kcn_buf_len
  <2>2. x \in Int /\ SIZE \in Int /\ filesize \in 0..SIZE - 1
    <3>1. /\ kf_size \in Int /\ off \in Int /\ Len(kb.data) \in Int
          /\ filesize \in Nat /\ filesize < SIZE /\ SIZE \in Int
      BY Shape, FileAssumption DEF FileInv, TypeOK, FileOK
    <3> QED
      BY <3>1 DEF kcn_buf_len
  <2> HIDE DEF x
  <2>3. PICK d \in Int : x = (x % SIZE) + d * SIZE
    BY <2>2, ModOf
  <2> DEFINE m == x % SIZE
  <2>4. m \in 0..SIZE - 1 /\ x = m + d * SIZE
    BY <2>2, <2>3, ModOf
  <2> HIDE DEF m
  <2>5. m = filesize + (q - d) * SIZE /\ q - d \in Int
    <3> DEFINE y == q * SIZE
               z == d * SIZE
    <3>1. y \in Int /\ z \in Int /\ (q - d) * SIZE = y - z /\ q - d \in Int
      BY <2>2
    <3>2. x = filesize + y /\ x = m + z
      BY <2>1, <2>4
    <3> HIDE DEF y, z
    <3>3. m = filesize + (y - z)
      BY <2>2, <2>4, <3>1, <3>2
    <3> QED
      BY <3>1, <3>3
  <2>6. m = filesize
    BY <2>2, <2>4, <2>5, ModUnique
  <2> QED
    BY <2>6 DEF x, m
<1> QED
  BY <1>1, FileInvariant, PTL
=============================================================================
