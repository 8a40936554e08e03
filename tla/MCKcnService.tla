---------------------------- MODULE MCKcnService ----------------------------
(***************************************************************************)
(* Small instances of KcnService for TLC.                                  *)
(***************************************************************************)
EXTENDS KcnService

CONSTANTS c1, c2, x, y, r1, r2

MCLoc == {x, y}
MCErrno == {"0", "EAGAIN", "EIO", "ESRCH"}
MCRec == {r1, r2}
MCMatches == <<x, y>>

query(max) == [kind |-> "query", max |-> max, recs |-> << >>]
add == [kind |-> "msg", max |-> 0, recs |-> <<r1>>]
file == [kind |-> "file", max |-> 0, recs |-> <<r1, r2>>]

(* A search next to a file of two lines.                                   *)
MCMixed == [c \in {c1, c2} |-> IF c = c1 THEN query(2) ELSE file]

(* A search next to one record.                                            *)
MCFew == [c \in {c1, c2} |-> IF c = c1 THEN query(2) ELSE add]

(* One search.                                                             *)
MCAlone == [c \in {c1} |-> query(2)]

(* More locators than a uint8_t can count.                                 *)
MCMany == [c \in {c1} |-> query(256)]
=============================================================================
