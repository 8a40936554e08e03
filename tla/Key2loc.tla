------------------------------- MODULE Key2loc --------------------------------
(***************************************************************************)
(* key2loc, from its arguments to the locators it prints: main and doit of *)
(* key2loc/main.c, kcn_searchv of lib/kcn.c, kcn_db_search, and the search *)
(* of one of the databases, page by page (google) or as a client of kcndbd *)
(* (net), which ends as KcnLookup says.                                    *)
(***************************************************************************)
EXTENDS KcnGoogle, KcnDb, KcnNetstat

CONSTANTS
    Jobs,     \* arguments: [db, n, r, country, userip, keyv]
    Loc,      \* locators
    Worlds,   \* the locators the Web may have for the keywords
    Matches,  \* interval -> the locators the network database has
    NetErrno, \* the errors of a search over the network
    Faults    \* "page", "net": whether a page, a search over the network fails

ASSUME Key2locAssumption ==
    /\ RCOUNTMAX \in Nat /\ RCOUNTMAX > 1 /\ UINT8 \in Nat \ {0}
    /\ Faults \subseteq {"page", "net"}
    /\ "now" \in Interval /\ Matches \in [Interval -> Seq(Loc)]
    /\ Worlds \subseteq Seq(Loc)
    /\ \A job \in Jobs :
          /\ job.n \in 0..NLOCMAX /\ job.r \in Nat
          /\ job.country = NULL \/ job.country \in Seq(Char)
          /\ job.userip = NULL \/ job.userip \in Seq(Char)
          /\ job.keyv \in Seq(Seq(Char)) /\ kcn_key_concat(job.keyv) # NULL

VARIABLES
    argv,     \* the arguments
    pc,       \* where the program is
    ki,       \* the kcn_info
    i,        \* the searches that have been made
    found,    \* the locators the Web has while one is made
    ku,       \* the URI of kcn_google_search,
    uriolen,  \* its length without the start,
    n,        \* and the locators of the pages before
    query,    \* the query that was sent, at most one
    requests, \* the URIs that were asked for in this search, in order
    errno,
    printed,  \* the locators the program printed
    result    \* "none", or how it ended: "ok", "usage", "abort", "failure"

args == <<argv, pc, i>>
google == <<ku, uriolen, n, requests>>
vars == <<args, ki, found, google, query, errno, printed, result>>

Init ==
    /\ argv \in Jobs
    /\ pc = "main"
    /\ ki = kcn_info_new(0, NULL, NULL, NULL)
    /\ i = 0 /\ found = << >>
    /\ ku = kcn_uri_new(<<"base">>) /\ uriolen = ku.len /\ n = 0
    /\ query = << >> /\ requests = << >>
    /\ errno = "0" /\ printed = << >> /\ result = "none"

Goto(where) == pc' = where

Exit(r) == Goto("done") /\ result' = r

keys == kcn_key_concat(argv.keyv)

(* The searches return to the loop of doit, which ends at one that failed. *)
SearchFails(error) ==
    /\ errno' = error
    /\ Exit("failure")
    /\ UNCHANGED i

(* Mutant of the next: the search is not counted.                          *)
SearchReturnsUncounted ==
    /\ Goto("doit")
    /\ UNCHANGED <<i, errno, result>>

SearchReturns ==
    /\ Goto("doit")
    /\ i' = i + 1
    /\ UNCHANGED <<errno, result>>

-----------------------------------------------------------------------------
(* main, up to the loop of doit.                                           *)

BadUsage == argv.keyv = << >> \/ (argv.db # NULL /\ ~ kcn_db_exists(argv.db))

(* kcn_info_new and kcn_info_country_set assert a number and a country.    *)
Asserted == argv.n > 0 /\ argv.country # << >>

Country == IF argv.country = NULL THEN NULL ELSE FirstOf(argv.country, 2)

(* An empty address is none to who reads it.                               *)
Userip == IF argv.userip = << >> THEN NULL ELSE argv.userip

Main ==
    /\ pc = "main"
    /\ \/ BadUsage /\ Exit("usage") /\ UNCHANGED ki
       \/ ~ BadUsage /\ ~ Asserted /\ Exit("abort") /\ UNCHANGED ki
       \/ /\ ~ BadUsage /\ Asserted
          /\ ki' = kcn_info_new(argv.n, argv.db, Country, Userip)
          /\ Goto("doit")
          /\ UNCHANGED result
    /\ UNCHANGED <<argv, i, found, google, query, errno, printed>>

-----------------------------------------------------------------------------
(* One turn of the loop of doit, up to the first message.                  *)

(* There always is one, since kcn_google_match accepts anything.           *)
Database == IF ki.db = NULL THEN kcn_db_match(keys) ELSE ki.db

Search ==
    /\ pc = "doit" /\ i < argv.r
    /\ ki' = kcn_info_loc_free(ki)
    /\ found' \in Worlds
    /\ requests' = << >>
    /\ \/ /\ Database = "google"
          /\ ku' = kcn_google_uri(ki, keys)
          /\ uriolen' = ku'.len
          /\ n' = 0
          /\ query' = << >>
          /\ Goto("google")
          /\ UNCHANGED <<i, errno, result>>
       \/ /\ Database = "net"
          /\ LET keyv == kcn_key_split(keys)
                 error == kcn_netstat_error(keyv)
             IN  \/ /\ error # "ok"
                    /\ SearchFails(error)
                    /\ UNCHANGED query
                 \/ /\ error = "ok"
                    /\ \E kmq \in Queries(keyv, ki.maxnlocs) : query' = <<kmq>>
                    /\ Goto("net")
                    /\ errno' = "0"
                    /\ UNCHANGED <<i, result>>
          /\ UNCHANGED <<ku, uriolen, n>>
    /\ UNCHANGED <<argv, printed>>

(* kcn_client_search.                                                      *)
NetSearch ==
    /\ pc = "net"
    /\ LET all == FirstOf(Matches[query[1].when], query[1].maxcount)
       IN  \E k \in 0..Len(all) :
              /\ ki' = kcn_info_loc_add(ki, SubSeq(all, 1, k))
              /\ \/ Outcome("0", SubSeq(all, 1, k), all) /\ SearchReturns
                 \/ /\ "net" \in Faults
                    /\ \E error \in NetErrno : SearchFails(error)
    /\ UNCHANGED <<argv, found, google, query, printed>>

-----------------------------------------------------------------------------
(* One turn of the loop of kcn_google_search.                              *)

Abort ==
    /\ Exit("abort")
    /\ UNCHANGED <<i, ki, ku, n, requests, errno>>

(* A page that fails ends the search, and the locators of those before it  *)
(* are lost, unless it fails for having none when there were some.         *)
PageFails(error, nlocs) ==
    IF error = "ESRCH" /\ nlocs > 0 THEN SearchReturns ELSE SearchFails(error)

PageTaken(more) ==
    /\ kcn_info_nlocs(ki') > 0
    /\ ku' = kcn_uri_resize(more, uriolen)
    /\ IF kcn_info_nlocs(ki') % rcountmax(ki) # 0
       THEN SearchReturns /\ UNCHANGED n
       ELSE /\ n' = n + rcountmax(ki)
            /\ UNCHANGED <<pc, i, errno, result>>

GooglePage ==
    /\ pc = "google" /\ n < ki.maxnlocs
    /\ LET more == kcn_google_page_uri(ku, n)
           uri == CString(more.mem)
       IN  \/ /\ kcn_info_nlocs(ki) >= ki.maxnlocs
              /\ Abort
           \/ /\ kcn_info_nlocs(ki) < ki.maxnlocs
              /\ \E page \in {Page(uri, found)} :
                 \E taken \in {Taken(ki, page)} :
                    \/ ~ kcn_info_loc_add_ok(ki, Len(taken)) /\ Abort
                    \/ /\ kcn_info_loc_add_ok(ki, Len(taken))
                       /\ requests' = Append(requests, uri)
                       /\ \/ /\ ki' = kcn_info_loc_add(ki, taken)
                             /\ \/ PageTaken(more)
                                \/ /\ kcn_info_nlocs(ki') = 0
                                   /\ PageFails("ESRCH", 0)
                                   /\ ku' = more /\ UNCHANGED n
                          \/ /\ "page" \in Faults
                             /\ \E k \in 0..Len(taken), error \in PageError :
                                   /\ k > 0 => error = "EINVAL"
                                   /\ ki' = kcn_info_loc_add(ki, SubSeq(taken, 1, k))
                                   /\ PageFails(error, kcn_info_nlocs(ki'))
                             /\ ku' = more /\ UNCHANGED n
    /\ UNCHANGED <<argv, found, uriolen, query, printed>>

(* All pages have been asked for.                                          *)
GoogleEnd ==
    /\ pc = "google" /\ n >= ki.maxnlocs
    /\ SearchReturns
    /\ UNCHANGED <<argv, ki, found, google, query, printed>>

(* The searches are over.                                                  *)
PrintLocs ==
    /\ pc = "doit" /\ i = argv.r
    /\ printed' = ki.locs
    /\ Exit("ok")
    /\ UNCHANGED <<argv, i, ki, found, google, query, errno>>

(* Nothing follows the end: any other state has a step.                    *)
Ended == pc = "done" /\ UNCHANGED vars

-----------------------------------------------------------------------------
Next ==
    \/ Main \/ Search \/ NetSearch \/ GooglePage \/ GoogleEnd \/ PrintLocs
    \/ Ended

Spec == Init /\ [][Next]_vars

-----------------------------------------------------------------------------
(* Types, the room for locators, and a page that one digit can ask for.    *)
TypeOK ==
    /\ argv \in Jobs
    /\ pc \in {"main", "doit", "net", "google", "done"}
    /\ pc # "main" => kcn_info_nlocs(ki) <= ki.maxnlocs
    /\ pc = "google" => rcountmax(ki) \in 1..RCOUNTMAX - 1
    /\ i \in 0..argv.r
    /\ n \in Nat /\ uriolen \in 1..ku.len
    /\ Len(query) <= 1
    /\ result \in {"none", "ok", "usage", "abort", "failure"}

(* What is printed are the first locators of the last search, in order and *)
(* as many as were asked for or there are - those of all pages, and of no  *)
(* search before (doit repeats it for -r) - and of the network database,   *)
(* which says so when the connection ends early, none or all.  A search    *)
(* that fails prints nothing (key2loc/main.c:156-170).                     *)
LocatorsExact ==
    IF result = "ok" /\ argv.r > 0
    THEN IF query = << >>
         THEN printed = FirstOf(found, argv.n) /\ printed # << >>
         ELSE printed \in {<< >>,
                  FirstOf(Matches[query[1].when], argv.n % UINT8)}
    ELSE printed = << >>

(* A reference: what the service makes of an encoded value.                *)
Decode(val) ==
    LET digit(k) == \E d \in 1..2 : k > d /\ val[k - d] = "%"
        char(k) == IF val[k] = "+" THEN " "
                   ELSE IF val[k] = "%"
                   THEN CHOOSE c \in DOMAIN Hex : Hex[c] = SubSeq(val, k + 1, k + 2)
                   ELSE val[k]
        upto[k \in 0..Len(val)] ==
            IF k = 0 THEN << >>
            ELSE IF digit(k) THEN upto[k - 1] ELSE Append(upto[k - 1], char(k))
    IN  upto[Len(val)]

(* Every request is one string with each parameter given once: the pages   *)
(* follow each other without a gap or an overlap, and the service gets     *)
(* what was given, whatever characters it is made of                       *)
(* (kcn_google.c:179-207, kcn_uri.c:29-138).                               *)
RequestsExact ==
    \A k \in DOMAIN requests : \A params \in {Params(requests[k])} :
        LET given(name) == {p.val : p \in {p \in params : p.name = <<name>>}}
            decoded(name) == {Decode(val) : val \in given(name)}
        IN  /\ \A p, q \in params : p.name = q.name => p = q
            /\ given("rsz") = {Number(rcountmax(ki))}
            /\ given("start") = IF k = 1 THEN {}
                                ELSE {Number((k - 1) * rcountmax(ki))}
            /\ decoded("q") = {keys}
            /\ decoded("gl") = {Country} \ {NULL}
            /\ decoded("userip") = {argv.userip} \ {NULL, << >>}

(* The assertions on the way (kcn_google.c:88, kcn_info.c:163) fail for no *)
(* number of locators, pages and searches; those on the arguments          *)
(* (kcn_info.c:37, 106) fail before anything is asked for.                 *)
OnlyBadUseAborts ==
    result = "abort" => ~ Asserted /\ requests = << >> /\ query = << >>

(* A reference: the words of the keywords, each argument taken by itself   *)
(* and one character after another.                                        *)
Words(keyv) ==
    LET words(arg) ==
            LET upto[k \in 0..Len(arg)] ==
                    IF k = 0 THEN << >>
                    ELSE IF arg[k] \in Blank THEN upto[k - 1]
                    ELSE IF k = 1 \/ arg[k - 1] \in Blank
                    THEN Append(upto[k - 1], <<arg[k]>>)
                    ELSE [upto[k - 1] EXCEPT ![Len(upto[k - 1])] = Append(@, arg[k])]
            IN  upto[Len(arg)]
    IN  FlattenSeq([k \in DOMAIN keyv |-> words(keyv[k])])

(* The arguments alone decide which database is asked and what, though     *)
(* they are put together, searched for parts of words and split again      *)
(* elsewhere (kcn.c:34-85, kcn_db.c:40, kcn_netstat.c:45-119): any part of *)
(* a word sends them to the network database, which is asked if it can be, *)
(* about the first three words and, when there are no more, the last       *)
(* minutes; else no other database is tried, in any of the searches of -r. *)
KeywordsExact ==
    LET words == Words(argv.keyv)
        tonet == IF argv.db # NULL THEN argv.db = "net"
                 ELSE \E k \in DOMAIN words : ToSet(words[k]) \cap StatWord # {}
        inequality == /\ Len(words) >= 3 /\ words[1] \in TypeWord
                      /\ words[2] \in OpWord /\ words[3] \in ValWord
        whens == IF Len(words) = 3 THEN {"now"} ELSE Interval
    IN  /\ requests # << >> => ~ tonet
        /\ query # << >> =>
              /\ tonet /\ inequality
              /\ query[1].eq = SubSeq(words, 1, 3)
              /\ \E when \in whens :
                    printed \in {<< >>, FirstOf(Matches[when], argv.n % UINT8)}
        /\ result \in {"ok", "failure"} /\ argv.r > 0 /\ tonet =>
              IF inequality THEN query # << >> ELSE result = "failure"

(* What is left to do: the searches, and of the current one its locators.  *)
Left ==
    LET one == argv.n + RCOUNTMAX + 3
    IN  CASE pc = "main" -> (argv.r + 2) * one
          [] pc = "doit" -> (argv.r - i + 1) * one
          [] pc = "google" -> (argv.r - i) * one + argv.n + RCOUNTMAX - n
          [] pc = "net" -> (argv.r - i) * one + 1
          [] pc = "done" -> 0

(* Every page and every search brings the program nearer to its end: with  *)
(* no state but the last without a step, it ends (kcn_google.c:194-210,    *)
(* key2loc/main.c:156), and nothing is repeated for ever.                  *)
EndsNearer == [][Left' < Left /\ Left' >= 0]_vars
=============================================================================
