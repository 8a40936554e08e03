----------------------------- MODULE KcnNetstat ------------------------------
(***************************************************************************)
(* How lib/kcn_netstat.c makes the query of a search over the network out  *)
(* of the keywords, with the words of lib/kcn.c.                           *)
(***************************************************************************)
EXTENDS Naturals, SequencesExt

CONSTANTS
    TypeWord, OpWord, ValWord, \* what kcn_eq_*_aton accept
    UINT8,                     \* the values of kmq_maxcount
    Interval                   \* intervals of time, "now" for the last minutes

(* Mutant of the next: the keywords are put together as they are.          *)
kcn_key_concat_joined(keyv) == FlattenSeq(keyv)

(* kcn_key_concat: a space between the keywords.                           *)
kcn_key_concat(keyv) == FlattenSeq(
    [k \in DOMAIN keyv |-> IF k = 1 THEN keyv[k] ELSE <<" ">> \o keyv[k]])

Blank == {" ", "\t"}

(* kcn_key_split: the words between blanks, which need not be the keywords *)
(* that were concatenated.                                                 *)
kcn_key_split(keys) ==
    LET blank(k) == k \notin DOMAIN keys \/ keys[k] \in Blank
        first == {k \in DOMAIN keys : ~ blank(k) /\ blank(k - 1)}
        last(k) == CHOOSE e \in k..Len(keys) :
                      blank(e + 1) /\ \A j \in k..e : ~ blank(j)
        starts == SetToSortSeq(first, <)
    IN  [t \in DOMAIN starts |-> SubSeq(keys, starts[t], last(starts[t]))]

(* kcn_netstat_compile: how it fails, "ok" where it does not.  Too few     *)
(* words leave errno 0, and no words at all are EINVAL before that.        *)
kcn_netstat_error(keyv) ==
    IF keyv = << >> THEN "EINVAL"
    ELSE IF Len(keyv) < 3 THEN "0"
    ELSE IF keyv[1] \notin TypeWord \/ keyv[2] \notin OpWord THEN "ENOENT"
    ELSE IF keyv[3] \notin ValWord THEN "EINVAL"
    ELSE "ok"

(* The interval: words after the third are not compiled, and leave memory  *)
(* of the stack that was not initialized.                                  *)
Intervals(keyv) == IF Len(keyv) = 3 THEN {"now"} ELSE Interval

(* The queries kcn_netstat_search may send.                                *)
Queries(keyv, maxnlocs) ==
    {[eq |-> SubSeq(keyv, 1, 3), when |-> when, maxcount |-> maxnlocs % UINT8] :
        when \in Intervals(keyv)}
=============================================================================
