----------------------------- MODULE KcndbctlFile -----------------------------
(***************************************************************************)
(* kcndbctl -f (kcndbctl/kcndbctl_file.c): a file of records, three fields *)
(* each, is read through a buffer that may be smaller than the file, and   *)
(* each record is sent as soon as it has been parsed.  A cell is a byte.   *)
(* What becomes of the messages is the subject of KcnService; here the     *)
(* connection is up until it is gone.                                      *)
(***************************************************************************)
EXTENDS KcnBuf, Integers, FiniteSets, SequencesExt

CONSTANTS
    Space,             \* what isspace(3) says of a byte
    Nul,               \* '\0'
    Letter,            \* printable bytes that are neither digits nor spaces,
    Plus, Minus,       \* the signs among them
    Odd,               \* bytes that cannot be printed, without Nul
    Files,             \* what the file may contain
    Grown,             \* what may be added to it while it is read
    MAXBUFSIZ,         \* size of the buffer for a file that is not smaller
    KCN_MSG_MAXSIZ,
    KCN_MSG_MAXLOCSIZ,
    LLONG_MAX,
    SIZE,              \* the number of values of a size_t
    Faults             \* "read", "net", "grow": what may happen

Digit == 0..9
Byte == Digit \cup Letter \cup Odd \cup {Space, Nul}

ASSUME FileAssumption ==
    /\ Space # Nul /\ {Space, Nul} \cap (Digit \cup Letter \cup Odd) = {}
    /\ Digit \cap Letter = {} /\ {Plus, Minus} \subseteq Letter /\ Plus # Minus
    /\ Odd \cap (Digit \cup Letter) = {}
    /\ \A f \in Files : f \in Seq(Byte \ {Nul}) /\ Len(f) < SIZE
    /\ Grown \subseteq Seq(Byte \ {Nul})
    /\ KCN_MSG_MAXSIZ \in Nat \ {0} /\ KCN_MSG_MAXLOCSIZ \in Nat
    /\ MAXBUFSIZ \in Nat /\ MAXBUFSIZ > KCN_MSG_MAXSIZ /\ MAXBUFSIZ < SIZE
    /\ LLONG_MAX \in Nat /\ SIZE \in Nat
    /\ Faults \subseteq {"read", "net", "grow"}

VARIABLES
    file,     \* what is in the file
    filesize, \* its size when it was opened
    off,      \* offset of its descriptor
    kb,       \* kf_kb
    kf_size,
    kn_up,    \* whether the connection is up
    pc,       \* in the event loop, at a field of readfile, or ended
    kma,      \* the numbers of the record that is parsed
    result,   \* "none", "ok", what the program failed with, or "abort"
    sent      \* the records given to kcn_client_add_send

vars == <<file, filesize, off, kb, kf_size, kn_up, pc, kma, result, sent>>

Smaller(x, y) == IF x < y THEN x ELSE y

bufsize == Smaller(filesize, MAXBUFSIZ)

(* kcndbctl_file_process, up to the event loop.                            *)
Init ==
    /\ file \in Files
    /\ filesize = Len(file) /\ kf_size = Len(file)
    /\ off = 0 /\ kb = kcn_buf_reset(0)
    /\ kn_up = TRUE /\ pc = "wait" /\ kma = << >>
    /\ result = "none" /\ sent = << >>

-----------------------------------------------------------------------------
(* The fields.                                                             *)

Printable == Digit \cup Letter

(* Behind the first byte that ends a field, or the end of the data.        *)
forward(b) ==
    LET h == kcn_buf_headingdata(b)
        j == SelectInSubSeq(b.data, h + 1, Len(b.data),
                            LAMBDA c : c \notin Printable)
    IN  IF j = 0
        THEN [rc |-> "EAGAIN", kb |-> kcn_buf_forward(b, Len(b.data) - h)]
        ELSE [rc    |-> IF b.data[j] = Space THEN "ok" ELSE "EINVAL",
              kb    |-> kcn_buf_forward(b, j - h),
              field |-> SubSeq(b.data, h + 1, j - 1)]

ULLONG_MAX == 2 * LLONG_MAX + 1

Negative(s) == s # << >> /\ s[1] = Minus

(* What the digits say, whatever the sign.                                 *)
Number(s) == FoldLeft(LAMBDA n, d : IF d \in Digit THEN 10 * n + d ELSE n, 0, s)

(* Digits, and a sign before them if need be.                              *)
IsNumber(s) ==
    /\ \A k \in DOMAIN s : s[k] \in Digit \cup IF k = 1 THEN {Plus, Minus} ELSE {}
    /\ \E k \in DOMAIN s : s[k] \in Digit

(* strtoll(3) stays at LLONG_MAX and at LLONG_MIN, and neither is taken    *)
(* for an error; what it returns is made unsigned.                         *)
kcn_strtoull(s) ==
    LET n == Number(s)
    IN  IF ~ Negative(s)
        THEN IF n \in 0..LLONG_MAX THEN n ELSE LLONG_MAX
        ELSE IF n \in 1..LLONG_MAX THEN ULLONG_MAX + 1 - n
        ELSE IF n = 0 THEN 0 ELSE LLONG_MAX + 1

(* Mutant of the next: the byte behind the field is overwritten.           *)
get64_ahead(b) ==
    LET f == forward(b)
    IN  IF f.rc # "ok" THEN f
        ELSE [rc |-> IF IsNumber(f.field) THEN "ok" ELSE "EINVAL",
              kb |-> kcn_buf_put(f.kb, <<Nul>>), field |-> f.field]

(* The space behind a number is overwritten in the buffer.                 *)
get64(b) ==
    LET f == forward(b)
    IN  IF f.rc # "ok" THEN f
        ELSE [rc    |-> IF IsNumber(f.field) THEN "ok" ELSE "EINVAL",
              kb    |-> kcn_buf_put(kcn_buf_backward(f.kb, 1), <<Nul>>),
              field |-> f.field]

getstr(b) ==
    LET f == forward(b)
    IN  IF f.rc = "ok" /\ Len(f.field) > KCN_MSG_MAXLOCSIZ
        THEN [f EXCEPT !.rc = "E2BIG"] ELSE f

-----------------------------------------------------------------------------
(* readfile.                                                               *)

End(r) ==
    /\ pc' = "end" /\ result' = r
    /\ UNCHANGED <<file, filesize, off, kf_size, kn_up, kma, sent>>

(* The buffer is full of what is not parsed: the assertion of kcn_buf_read *)
(* ends the program.                                                       *)
ReadNoRoom ==
    /\ pc = "wait" /\ ~ kcn_buf_read_ok(kb, bufsize)
    /\ End("abort") /\ UNCHANGED kb

(* Data, as much as there is or less; what is left of the file afterwards  *)
(* is kf_size while the buffer is parsed.                                  *)
Read ==
    LET into == kcn_buf_read_into(kb, bufsize)
    IN  /\ pc = "wait" /\ kcn_buf_read_ok(kb, bufsize)
        /\ \E n \in 1..kcn_buf_read_len(kb, bufsize, file, off) :
              /\ kb' = kcn_buf_fill(into, SubSeq(file, off + 1, off + n))
              /\ off' = off + n
        /\ kf_size' = (kf_size - kcn_buf_len(kb')) % SIZE
        /\ pc' = "time"
        /\ UNCHANGED <<file, filesize, kn_up, kma, result, sent>>

(* Mutant of the next: the end of the file is an error like any other.     *)
ReadEndAgain ==
    /\ pc = "wait" /\ kcn_buf_read_ok(kb, bufsize) /\ off >= Len(file)
    /\ kb' = kcn_buf_read_into(kb, bufsize)
    /\ UNCHANGED <<file, filesize, off, kf_size, kn_up, pc, kma, result, sent>>

(* The end of the file (ESHUTDOWN): the event is not added again, and what *)
(* is in the buffer is left.                                               *)
ReadEnd ==
    /\ pc = "wait" /\ kcn_buf_read_ok(kb, bufsize) /\ off >= Len(file)
    /\ kb' = kcn_buf_read_into(kb, bufsize)
    /\ End("ok")

(* Any other error is tried again.                                         *)
ReadFails ==
    /\ "read" \in Faults
    /\ pc = "wait" /\ kcn_buf_read_ok(kb, bufsize)
    /\ kb' = kcn_buf_read_into(kb, bufsize)
    /\ UNCHANGED <<file, filesize, off, kf_size, kn_up, pc, kma, result, sent>>

(* Mutants of the next: the rest is parsed only if it is long enough; what *)
(* has been read is parsed at once.                                        *)
ParsesLong == kcn_buf_len(kb) >= KCN_MSG_MAXSIZ
ParsesAtOnce == kf_size = 0 \/ kcn_buf_len(kb) > 0

(* The condition of the loop: nothing is left to read, or a whole record   *)
(* should be there.                                                        *)
Parses == kf_size = 0 \/ kcn_buf_len(kb) >= KCN_MSG_MAXSIZ

(* Mutant of the next: the size is not put back.                           *)
WaitLosesSize(b) ==
    /\ kb' = b /\ kma' = << >>
    /\ pc' = "wait"
    /\ UNCHANGED <<file, filesize, off, kf_size, kn_up, result, sent>>

(* The loop is over: kf_size counts what is in the buffer again.           *)
Wait(b) ==
    /\ kb' = b /\ kma' = << >>
    /\ kf_size' = (kf_size + kcn_buf_len(b)) % SIZE
    /\ pc' = "wait"
    /\ UNCHANGED <<file, filesize, off, kn_up, result, sent>>

(* Mutant of the next: the cursor is not put back.                         *)
NoFieldAtCursor(r) ==
    \/ r.rc = "EAGAIN" /\ Wait(r.kb)
    \/ r.rc \in {"EINVAL", "E2BIG"} /\ End(r.rc) /\ kb' = r.kb

(* A record that is not complete yet is parsed again from its start; a     *)
(* field that is none ends the program.                                    *)
NoField(r) ==
    \/ r.rc = "EAGAIN" /\ Wait(kcn_buf_start(r.kb))
    \/ r.rc \in {"EINVAL", "E2BIG"} /\ End(r.rc) /\ kb' = r.kb

GetNumber(at, next) ==
    /\ pc = at
    /\ \E r \in {get64(kb)} :
          \/ /\ r.rc = "ok"
             /\ kb' = r.kb
             /\ kma' = Append(kma, kcn_strtoull(r.field))
             /\ pc' = next
             /\ UNCHANGED <<file, filesize, off, kf_size, kn_up, result, sent>>
          \/ NoField(r)

(* The record is complete: it is sent and dropped from the buffer.         *)
GetLocator ==
    /\ pc = "loc"
    /\ \E r \in {getstr(kb)} :
          \/ /\ r.rc = "ok" /\ kn_up
             /\ sent' = Append(sent, [time |-> kma[1], val |-> kma[2],
                                      loc |-> r.field])
             /\ kb' = kcn_buf_trim_head(r.kb, kcn_buf_headingdata(r.kb))
             /\ kma' = << >>
             /\ pc' = "time"
             /\ UNCHANGED <<file, filesize, off, kf_size, kn_up, result>>
          \/ /\ r.rc = "ok" /\ ~ kn_up
             /\ End("ENETDOWN") /\ kb' = r.kb
          \/ NoField(r)

Parse ==
    \/ Parses /\ GetNumber("time", "val")
    \/ GetNumber("val", "loc")
    \/ GetLocator

ParseLater == pc = "time" /\ ~ Parses /\ Wait(kb)

(* The connection is lost between two callbacks.                           *)
Disconnect ==
    /\ "net" \in Faults /\ pc = "wait" /\ kn_up
    /\ kn_up' = FALSE
    /\ UNCHANGED <<file, filesize, off, kb, kf_size, pc, kma, result, sent>>

(* A program that does not ask for the lock of flock(2) adds to the file.  *)
Grow ==
    /\ "grow" \in Faults /\ pc # "end" /\ Len(file) = filesize
    /\ \E more \in Grown : file' = file \o more
    /\ UNCHANGED <<filesize, off, kb, kf_size, kn_up, pc, kma, result, sent>>

readfile == ReadNoRoom \/ Read \/ ReadEnd \/ Parse \/ ParseLater

Next == readfile \/ ReadFails \/ Disconnect \/ Grow

Spec == Init /\ [][Next]_vars

(* The event loop runs; a file that never can be read is waited for.       *)
FairSpec == Spec /\ SF_vars(readfile)

-----------------------------------------------------------------------------
(* What the file says, apart from any buffer: its fields are what stands   *)
(* before each space, and each three fields are a record.                  *)

(* The number of spaces among the first p bytes.                           *)
Before(f, p) == Cardinality({j \in 1..p : f[j] = Space})

Complete(f) == Before(f, Len(f)) \div 3

(* Where the k-th field ends.                                              *)
Cut(f, k) ==
    IF k = 0 THEN 0 ELSE CHOOSE p \in DOMAIN f : f[p] = Space /\ Before(f, p) = k

Field(f, k) == SubSeq(f, Cut(f, k - 1) + 1, Cut(f, k) - 1)

(* The bytes of a record, with its spaces.                                 *)
Length(f, k) == Cut(f, 3 * k) - Cut(f, 3 * k - 3)

WellFormed(f, k) ==
    /\ IsNumber(Field(f, 3 * k - 2)) /\ IsNumber(Field(f, 3 * k - 1))
    /\ Len(Field(f, 3 * k)) <= KCN_MSG_MAXLOCSIZ
    /\ \A j \in DOMAIN Field(f, 3 * k) : Field(f, 3 * k)[j] \in Printable

(* Types, and the bounds kcn_buf.c asserts of the buffer.                  *)
TypeOK ==
    /\ file \in Seq(Byte \ {Nul}) /\ filesize \in Nat /\ off \in Nat
    /\ kb \in GoodBufs(Byte, bufsize)
    /\ kf_size \in 0..SIZE - 1
    /\ kn_up \in BOOLEAN
    /\ pc \in {"wait", "time", "val", "loc", "end"}
    /\ kma \in Seq(0..ULLONG_MAX)
    /\ result \in {"none", "ok", "EINVAL", "E2BIG", "ENETDOWN", "abort"}
    /\ sent \in Seq([time : 0..ULLONG_MAX, val : 0..ULLONG_MAX,
                     loc : Seq(Printable)])

(* The number that a field says is sent for it, when a long long has it    *)
(* and it is not negative.  A negative number is sent as it is modulo the  *)
(* numbers of 64 bits, and one that is beyond as LLONG_MAX or LLONG_MIN.   *)
Says(s, v) ==
    LET n == Number(s)
    IN  /\ n \in 0..LLONG_MAX /\ (Negative(s) => n = 0) => v = n
        /\ n \in 1..LLONG_MAX /\ Negative(s) => v + n = ULLONG_MAX + 1
        /\ n \notin 0..LLONG_MAX => v \in {LLONG_MAX, LLONG_MAX + 1}

(* The records that are sent are those of the file, each once and in the   *)
(* order of the lines, wherever the reads cut them and however often the   *)
(* buffer was realigned, with what kcn_strtoull makes of their numbers     *)
(* (kcn_str.c:20).                                                         *)
SentExact ==
    /\ Len(sent) <= Complete(file)
    /\ \A k \in 1..Len(sent) :
          /\ WellFormed(file, k)
          /\ Says(Field(file, 3 * k - 2), sent[k].time)
          /\ Says(Field(file, 3 * k - 1), sent[k].val)
          /\ sent[k].loc = Field(file, 3 * k)

(* The program succeeds only when it has sent every record of the file,    *)
(* though what is left at its end may be shorter than a message: the test  *)
(* of kf_size (kcndbctl_file.c:137) finds the end, and what is left then   *)
(* is a line without a newline.  Once the file has grown kf_size may pass  *)
(* below zero and the test not find the end; records are left then, but    *)
(* fewer bytes of them than a message has, old ones and new ones.          *)
NothingLeft ==
    result = "ok" =>
        \/ Len(sent) = Complete(file)
        \/ /\ Len(file) > filesize
           /\ Len(file) - Cut(file, 3 * Len(sent)) < KCN_MSG_MAXSIZ

(* A file is refused for a record that is no record, or for one that is    *)
(* longer than KCN_MSG_MAXSIZ: of such a record the spaces that were       *)
(* overwritten when it was first met are met again (kcndbctl_file.c:105).  *)
RefusedForCause ==
    result \in {"EINVAL", "E2BIG"} /\ Len(file) = filesize =>
        LET k == Len(sent) + 1
        IN  \/ k > Complete(file)
            \/ ~ WellFormed(file, k)
            \/ Length(file, k) > KCN_MSG_MAXSIZ

(* Between two callbacks kf_size is what has not been parsed of the file   *)
(* as it was opened, in the arithmetic of size_t.                          *)
SizeIsUnparsed ==
    pc = "wait" => (kf_size + off - kcn_buf_len(kb)) % SIZE = filesize

(* The program ends, if the file can be read in the end.                   *)
FileEnds == <>(pc = "end")

(* assert(kcn_buf_trailingspace(kb) > 0) of kcn_buf_read (kcn_buf.c:403)   *)
(* holds of the buffer of a file.                                          *)
ReadHasRoom == result # "abort"
=============================================================================
