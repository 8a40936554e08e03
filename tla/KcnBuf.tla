------------------------------- MODULE KcnBuf -------------------------------
(***************************************************************************)
(* The buffer of lib/kcn_buf.c.  A buffer is a window [sp, ep) of a fixed  *)
(* array with a cursor cp: a record of sp, cp and the cells between sp and *)
(* ep, so that ep is sp + Len(data).  A cell is whatever unit the user of  *)
(* the buffer counts in (a 64-bit word of a file, a message on a socket).  *)
(* Cells outside [sp, ep) are never read before they are written, so they  *)
(* are not kept.  What the code asserts is a predicate named after the     *)
(* assertion, and the user of the module decides what a failure does.      *)
(***************************************************************************)
EXTENDS Naturals, Sequences

KcnBufs(Cell) == [sp : Nat, cp : Nat, data : Seq(Cell)]

kcn_buf_len(kb) == Len(kb.data)

kb_ep(kb) == kb.sp + Len(kb.data)

(* sp <= cp <= ep <= size: what the assertions of kcn_buf.c rely on.       *)
kcn_buf_ok(kb, size) == kb.sp <= kb.cp /\ kb.cp <= kb_ep(kb) /\ kb_ep(kb) <= size

GoodBufs(Cell, size) == {kb \in KcnBufs(Cell) : kcn_buf_ok(kb, size)}

kcn_buf_reset(headingspace) ==
    [sp |-> headingspace, cp |-> headingspace, data |-> << >>]

kcn_buf_trailingspace(kb, size) == size - kb_ep(kb)

kcn_buf_headingdata(kb) == kb.cp - kb.sp

kcn_buf_trailingdata(kb) == kb_ep(kb) - kb.cp

kcn_buf_forward(kb, len) ==
    [sp |-> kb.sp, cp |-> kb.cp + len, data |-> kb.data]

kcn_buf_backward(kb, len) ==
    [sp |-> kb.sp, cp |-> kb.cp - len, data |-> kb.data]

kcn_buf_start(kb) == [sp |-> kb.sp, cp |-> kb.sp, data |-> kb.data]

(* Drop cells at the head; the cursor is dragged along when it is passed.  *)
kcn_buf_trim_head(kb, len) ==
    [sp   |-> kb.sp + len,
     cp   |-> IF kb.sp + len > kb.cp THEN kb.sp + len ELSE kb.cp,
     data |-> SubSeq(kb.data, len + 1, Len(kb.data))]

(* Mutant of the next: the data are lost.                                  *)
kcn_buf_realign_forgets(kb) == kcn_buf_reset(0)

kcn_buf_realign(kb) ==
    [sp |-> 0, cp |-> kcn_buf_headingdata(kb), data |-> kb.data]

(* Mutant of the next: no assertion.                                       *)
kcn_buf_append_anyway(kb, len, size) == TRUE

(* assert(kb->kb_ep <= kb->kb_size) when len cells are put at the cursor.  *)
kcn_buf_append_ok(kb, len, size) ==
    \/ kcn_buf_trailingdata(kb) >= len
    \/ kb.cp + len <= size

(* Overwrite from the cursor, extending the data when they run out.        *)
kcn_buf_put(kb, cells) ==
    LET h == kcn_buf_headingdata(kb)
    IN  [sp   |-> kb.sp,
         cp   |-> kb.cp + Len(cells),
         data |-> SubSeq(kb.data, 1, h) \o cells
                    \o SubSeq(kb.data, h + Len(cells) + 1, Len(kb.data))]

(* assert(kcn_buf_trailingdata(kb) >= len) of the getters.                 *)
kcn_buf_get_ok(kb, len) == kcn_buf_trailingdata(kb) >= len

(* The cell the j-th of a row of getters returns.                          *)
kcn_buf_get(kb, j) == kb.data[kcn_buf_headingdata(kb) + j]

(* Mutant of the next: data that are left are not moved to the head.       *)
kcn_buf_read_into_tail(kb, size) == kb

(* The buffer read(2) is given: realigned when there is no room left.      *)
kcn_buf_read_into(kb, size) ==
    IF kcn_buf_trailingspace(kb, size) = 0 THEN kcn_buf_realign(kb) ELSE kb

(* assert(kcn_buf_trailingspace(kb) > 0) after the realignment.            *)
kcn_buf_read_ok(kb, size) ==
    kcn_buf_trailingspace(kcn_buf_read_into(kb, size), size) > 0

(* Cells are added behind the data; the cursor stays.                      *)
kcn_buf_fill(kb, cells) ==
    [sp |-> kb.sp, cp |-> kb.cp, data |-> kb.data \o cells]

(* Mutant of the next: the room that is left is not regarded.              *)
kcn_buf_read_len_unbounded(kb, size, file, off) ==
    IF off < Len(file) THEN Len(file) - off ELSE 0

(* read(2) of a file at an offset: as much as there is room for, and       *)
(* nothing (ESHUTDOWN) at the end of the file.  The cursor stays.          *)
kcn_buf_read_len(kb, size, file, off) ==
    LET room == kcn_buf_trailingspace(kcn_buf_read_into(kb, size), size)
        left == IF off < Len(file) THEN Len(file) - off ELSE 0
    IN  IF left < room THEN left ELSE room

kcn_buf_read(kb, size, file, off) ==
    LET into == kcn_buf_read_into(kb, size)
        n    == kcn_buf_read_len(kb, size, file, off)
    IN  [sp   |-> into.sp,
         cp   |-> into.cp,
         data |-> into.data \o SubSeq(file, off + 1, off + n)]
=============================================================================
