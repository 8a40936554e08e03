------------------------------- MODULE KcnInfo -------------------------------
(***************************************************************************)
(* What is asked for and the locators that are found: struct kcn_info of   *)
(* lib/kcn_info.c.  A locator is added where there is room for it, which   *)
(* is asserted and not checked.                                            *)
(***************************************************************************)
EXTENDS Naturals, Sequences

(* kcn_info_new asserts maxnlocs > 0; the attributes are set at once.      *)
kcn_info_new(maxnlocs, db, country, userip) ==
    [maxnlocs |-> maxnlocs, db |-> db, country |-> country, userip |-> userip,
     locs |-> << >>]

kcn_info_nlocs(ki) == Len(ki.locs)

(* assert(ki->ki_nlocs < ki->ki_maxnlocs) when n locators are added.       *)
kcn_info_loc_add_ok(ki, n) == kcn_info_nlocs(ki) + n <= ki.maxnlocs

kcn_info_loc_add(ki, locs) == [ki EXCEPT !.locs = @ \o locs]

(* Mutant of the next: the locators stay.                                  *)
kcn_info_loc_kept(ki) == ki

kcn_info_loc_free(ki) == [ki EXCEPT !.locs = << >>]

(* The locators a database gives when it is asked for some of them.        *)
FirstOf(locs, max) == SubSeq(locs, 1, IF Len(locs) < max THEN Len(locs) ELSE max)

(* How a search over the network may end for who asked: with success and   *)
(* all the locators, or with none when the connection ended too early, or  *)
(* with an error after some of them.                                       *)
Outcome(error, locs, all) ==
    IF error = "0"
    THEN locs \in {<< >>, all}
    ELSE \E k \in 0..Len(all) : locs = SubSeq(all, 1, k)
=============================================================================
