-------------------------------- MODULE KcnEq --------------------------------
(***************************************************************************)
(* The inequality of a query (struct kcn_eq of lib/kcn_eq.h): an operator, *)
(* a value, and the range of times the records are looked for in.          *)
(***************************************************************************)
EXTENDS Integers, Sequences

(* (time_t)-1: no upper bound when it is the end of the range.             *)
KCN_TIME_NOW == -1

KCN_EQ_OP == {"LT", "LE", "EQ", "GT", "GE"}

kcn_eq_time_match(t, ke) ==
    /\ ke.end = KCN_TIME_NOW \/ t <= ke.end
    /\ t >= ke.start

(* The switch of kcndb_db_search that skips the records that do not match. *)
kcn_eq_val_match(v, ke) ==
    CASE ke.op = "LT" -> v < ke.val
      [] ke.op = "LE" -> v <= ke.val
      [] ke.op = "EQ" -> v = ke.val
      [] ke.op = "GT" -> v > ke.val
      [] ke.op = "GE" -> v >= ke.val

kcn_eq_match(r, ke) ==
    kcn_eq_time_match(r.time, ke) /\ kcn_eq_val_match(r.val, ke)

(* The locators of the records in s that match, in the order of s: each is *)
(* that of a match, in increasing places, and there are no other matches.  *)
Selection(s, ke, locs) ==
    \E place \in [1..Len(locs) -> 1..Len(s)] :
        /\ \A k \in 1..Len(locs) :
              kcn_eq_match(s[place[k]], ke) /\ locs[k] = s[place[k]].loc
        /\ \A j, k \in 1..Len(locs) : j < k => place[j] < place[k]
        /\ \A n \in 1..Len(s) :
              kcn_eq_match(s[n], ke) => \E k \in 1..Len(locs) : place[k] = n
=============================================================================
