-------------------------------- MODULE KcnDb --------------------------------
(***************************************************************************)
(* The databases of key2loc and which of them a search uses:               *)
(* lib/kcn_db.c, and the kd_match of lib/kcn_netstat.c and                 *)
(* lib/kcn_google.c.  No other is tried when the search in it fails.       *)
(***************************************************************************)
EXTENDS Integers, FiniteSets, SequencesExt

CONSTANT StatWord \* the cells that contain a word of kcn_netstat_match

(* kcn_db_register: the list is sorted by priority.                        *)
kcn_db_register(list, kd) ==
    LET at == SelectInSeq(list, LAMBDA k : k.prio < kd.prio)
    IN  InsertAt(list, IF at = 0 THEN Len(list) + 1 ELSE at, kd)

kcn_netstat == [name |-> "net", prio |-> 255]
kcn_google == [name |-> "google", prio |-> 0]

(* kcn_netstat_init and kcn_google_init.                                   *)
kcn_db_list == kcn_db_register(kcn_db_register(<< >>, kcn_netstat), kcn_google)

(* kcn_netstat_match counts the words the keywords contain, and fails, but *)
(* with errno 0, where there is none.  kcn_google_match always matches.    *)
Score(name, keys) ==
    IF name = "net" THEN Cardinality(ToSet(keys) \cap StatWord) ELSE 0

kd_match(name, keys) == name = "net" => Score(name, keys) > 0

(* kcn_db_match: the first of those that match best.                       *)
kcn_db_match(keys) ==
    LET found == SelectSeq(kcn_db_list, LAMBDA k : kd_match(k.name, keys))
        score(k) == Score(found[k].name, keys)
        best == CHOOSE k \in DOMAIN found : \A j \in DOMAIN found :
                    score(j) < score(k) \/ (score(j) = score(k) /\ k <= j)
    IN  found[best].name

kcn_db_exists(name) == \E k \in DOMAIN kcn_db_list : kcn_db_list[k].name = name
=============================================================================
