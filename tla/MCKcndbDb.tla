----------------------------- MODULE MCKcndbDb -----------------------------
(***************************************************************************)
(* Small instances of KcndbDb for TLC.  Two locators share a bucket.  The  *)
(* link after the first lands across two buckets, the second of which is   *)
(* theirs; the link after the second lands on their bucket itself.         *)
(***************************************************************************)
EXTENDS KcndbDb, TLC

CONSTANTS a, b

MCLoc == {a, b}
MCHash == [l \in MCLoc |-> 1]
MCSlot == (a :> [bucket |-> 0, whole |-> FALSE]) @@
          (b :> [bucket |-> 1, whole |-> TRUE])

MCAdds ==
    { [time |-> 1, val |-> 1, loc |-> a], [time |-> 2, val |-> 2, loc |-> b] }

(* One that may match much and stops early, one that may match nothing.    *)
MCQueries ==
    { [op |-> "GE", val |-> 1, start |-> 0, end |-> KCN_TIME_NOW, max |-> 1],
      [op |-> "LT", val |-> 2, start |-> 2, end |-> 2, max |-> 3] }

(* Or the link after one of them lands behind the buckets.                 *)
MCSlotLong == [MCSlot EXCEPT ![b] = [bucket |-> HASHSIZ, whole |-> TRUE]]

(* Fewer requests, for the runs in which more goes wrong or that check      *)
(* liveness.                                                               *)
MCAddsFew ==
    { [time |-> 2, val |-> 1, loc |-> a], [time |-> 1, val |-> 9, loc |-> b] }

MCQueriesFew ==
    { [op |-> "LE", val |-> 2, start |-> 0, end |-> KCN_TIME_NOW, max |-> 2] }

(* What follows once the table is damaged has a run of its own, with one    *)
(* thread; the run with two stops there.                                   *)
Undamaged == ~ damaged

Symmetry == Permutations(Thread)
=============================================================================
