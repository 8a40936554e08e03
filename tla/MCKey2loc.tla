------------------------------ MODULE MCKey2loc -------------------------------
(***************************************************************************)
(* Small instances of Key2loc for TLC.                                     *)
(***************************************************************************)
EXTENDS Key2loc

CONSTANTS a, b, c, d, e, x, y

MCChar == {" ", "\t", "&", "=", "%", "cpu", "ge", "80", "rtt", "apple", "today", "a",
           "start", "u", "s", "ip", "0", "1", "2", "3", "4", "5", "6", "9", "D"}
MCLoc == {a, b, c, d, e, x, y}

MCHex == [ch \in {"&", "=", "%", "\t"} |->
             CASE ch = "&" -> <<"2", "6">> [] ch = "=" -> <<"3", "D">>
               [] ch = "%" -> <<"2", "5">> [] ch = "\t" -> <<"0", "9">>]

(* "apple" contains "le"; neither "rtt" nor "=" contains a word.           *)
MCStatWord == {"cpu", "ge", "apple"}
MCTypeWord == {<<"cpu">>, <<"rtt">>}
MCOpWord == {<<"ge">>, <<"=">>}
MCValWord == {<<"80">>}
MCInterval == {"now", "other"}

MCKeys == {
    << >>,
    <<<<" ">>>>,
    <<<<"apple">>>>,
    <<<<"cpu">>, <<"ge">>, <<"80">>>>,
    <<<<"cpu", "\t", "ge">>, <<" ", "80">>, <<"today">>>>,
    <<<<"rtt">>, <<"=">>, <<"80">>>>,
    <<<<"a", "&", "start">>, <<"=", "%">>>>}

MCJobs ==
    {job \in [db : {NULL, "net", "google", "other"}, n : 0..5, r : 0..2,
              country : {NULL, << >>, <<"u", "&", "s">>},
              userip : {NULL, << >>, <<"ip">>}, keyv : MCKeys] :
        job.country = NULL <=> job.userip # <<"ip">>}

MCWorlds == {<< >>, <<a>>, <<b, a>>, <<c, b, a>>, <<a, b, c, d, e>>}
MCMatches == [when \in MCInterval |-> IF when = "now" THEN <<x, y>> ELSE <<x>>]
MCNetErrno == {"ESRCH", "ETIMEDOUT"}
=============================================================================
