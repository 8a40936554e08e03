--------------------------- MODULE Key2locProofs ----------------------------
(***************************************************************************)
(* key2loc ends, whatever is asked for; what it sends to the network       *)
(* database and to the service is what the keywords say, and what it       *)
(* prints are the locators in order: for any arguments, any characters,    *)
(* any Web, any pages and failures.                                        *)
(***************************************************************************)
EXTENDS Key2loc, FiniteSetTheorems, WellFoundedInduction, TLAPS

-----------------------------------------------------------------------------
(* The invariant.                                                          *)

IsInfo(k) ==
    k = [maxnlocs |-> k.maxnlocs, db |-> k.db, country |-> k.country,
         userip |-> k.userip, locs |-> k.locs]

(* Where the program is, and how far it has come.                          *)
Progress ==
    /\ argv \in Jobs
    /\ pc \in {"main", "doit", "net", "google", "done"}
    /\ i \in 0..argv.r /\ n \in Nat
    /\ IsInfo(ki)
    /\ pc = "main" => i = 0
    /\ pc \in {"doit", "net", "google"} => ki.maxnlocs = argv.n /\ argv.n > 0
    /\ pc \in {"net", "google"} => i < argv.r
    /\ pc = "google" => n < argv.n + RCOUNTMAX

-----------------------------------------------------------------------------
(* What is asked for stays the same when locators are added or dropped.    *)

LEMMA InfoAdd ==
    ASSUME NEW k, IsInfo(k), NEW locs
    PROVE  /\ kcn_info_loc_add(k, locs) =
                  [maxnlocs |-> k.maxnlocs, db |-> k.db, country |-> k.country,
                   userip |-> k.userip, locs |-> k.locs \o locs]
           /\ IsInfo(kcn_info_loc_add(k, locs))
           /\ kcn_info_loc_add(k, locs).maxnlocs = k.maxnlocs
           /\ kcn_info_loc_add(k, locs).country = k.country
           /\ kcn_info_loc_add(k, locs).userip = k.userip
           /\ kcn_info_loc_add(k, locs).locs = k.locs \o locs
<1> DEFINE m == k.maxnlocs
           d == k.db
           c == k.country
           u == k.userip
           l == k.locs
<1>1. k = [maxnlocs |-> m, db |-> d, country |-> c, userip |-> u, locs |-> l]
  BY DEF IsInfo
<1> HIDE DEF m, d, c, u, l
<1> DEFINE x == l \o locs
<1>2. kcn_info_loc_add(k, locs) = [k EXCEPT !.locs = x]
  BY DEF kcn_info_loc_add, l
<1> HIDE DEF x
<1>3. kcn_info_loc_add(k, locs)
        = [maxnlocs |-> m, db |-> d, country |-> c, userip |-> u, locs |-> x]
  BY <1>1, <1>2
<1> QED
  BY <1>3 DEF IsInfo, m, d, c, u, l, x

LEMMA InfoFree ==
    ASSUME NEW k, IsInfo(k)
    PROVE  /\ kcn_info_loc_free(k) =
                  [maxnlocs |-> k.maxnlocs, db |-> k.db, country |-> k.country,
                   userip |-> k.userip, locs |-> << >>]
           /\ IsInfo(kcn_info_loc_free(k))
           /\ kcn_info_loc_free(k).maxnlocs = k.maxnlocs
           /\ kcn_info_loc_free(k).country = k.country
           /\ kcn_info_loc_free(k).userip = k.userip
           /\ kcn_info_loc_free(k).locs = << >>
<1> DEFINE m == k.maxnlocs
           d == k.db
           c == k.country
           u == k.userip
           l == k.locs
<1>1. k = [maxnlocs |-> m, db |-> d, country |-> c, userip |-> u, locs |-> l]
  BY DEF IsInfo
<1> HIDE DEF m, d, c, u, l
<1>2. kcn_info_loc_free(k)
        = [maxnlocs |-> m, db |-> d, country |-> c, userip |-> u, locs |-> << >>]
  BY <1>1 DEF kcn_info_loc_free
<1> QED
  BY <1>2 DEF IsInfo, m, d, c, u, l

LEMMA InfoNew ==
    ASSUME NEW max, NEW db, NEW country, NEW userip
    PROVE  /\ IsInfo(kcn_info_new(max, db, country, userip))
           /\ kcn_info_new(max, db, country, userip).maxnlocs = max
           /\ kcn_info_new(max, db, country, userip).db = db
           /\ kcn_info_new(max, db, country, userip).country = country
           /\ kcn_info_new(max, db, country, userip).userip = userip
           /\ kcn_info_new(max, db, country, userip).locs = << >>
BY DEF IsInfo, kcn_info_new

LEMMA Constants ==
    ASSUME Progress
    PROVE  /\ argv.n \in Nat /\ argv.r \in Nat /\ i \in Nat /\ n \in Nat
           /\ RCOUNTMAX \in Nat /\ RCOUNTMAX > 1
           /\ i <= argv.r
BY Key2locAssumption DEF Progress

(* A page has at least one locator, and fewer than the limit.              *)
LEMMA PageSize ==
    ASSUME Progress, pc = "google"
    PROVE  rcountmax(ki) \in 1..RCOUNTMAX - 1
<1>1. ki.maxnlocs \in Nat /\ ki.maxnlocs > 0
  BY Constants DEF Progress
<1> QED
  BY <1>1, Constants DEF rcountmax

-----------------------------------------------------------------------------
(* The steps of the program, seen from its end.                            *)

(* What a step may do to what is left: the program ends, the search that   *)
(* is made ends, or goes on with the next page.                            *)
Ends ==
    /\ pc' = "done" /\ UNCHANGED <<argv, i>>
    /\ IsInfo(ki') /\ n' \in Nat

NextSearch ==
    /\ pc' = "doit" /\ i' = i + 1 /\ UNCHANGED argv
    /\ IsInfo(ki') /\ ki'.maxnlocs = ki.maxnlocs /\ n' \in Nat

NextPage ==
    /\ pc' = "google" /\ n' = n + rcountmax(ki) /\ UNCHANGED <<argv, i>>
    /\ n < ki.maxnlocs
    /\ IsInfo(ki') /\ ki'.maxnlocs = ki.maxnlocs

LEMMA GoogleSteps ==
    ASSUME Progress, GooglePage \/ GoogleEnd
    PROVE  pc = "google" /\ (Ends \/ NextSearch \/ NextPage)
<1>1. pc = "google" /\ IsInfo(ki) /\ n \in Nat
  BY DEF GooglePage, GoogleEnd, Progress
<1>2. CASE GoogleEnd
  <2>1. pc' = "doit" /\ i' = i + 1 /\ UNCHANGED <<argv, ki, n>>
    BY <1>2 DEF GoogleEnd, SearchReturns, Goto, google
  <2> QED
    BY <1>1, <2>1 DEF NextSearch
<1>3. CASE GooglePage
  <2> DEFINE more == kcn_google_page_uri(ku, n)
             uri == CString(more.mem)
  <2>1. n < ki.maxnlocs /\ UNCHANGED argv
    BY <1>3 DEF GooglePage
  <2>2. ASSUME Abort PROVE Ends
    BY <1>1, <2>1, <2>2 DEF Abort, Exit, Goto, Ends
  <2>3. ASSUME NEW error, NEW nlocs, PageFails(error, nlocs), n' = n,
               NEW locs, ki' = kcn_info_loc_add(ki, locs)
        PROVE  Ends \/ NextSearch
    <3>1. IsInfo(ki') /\ ki'.maxnlocs = ki.maxnlocs
      BY <1>1, <2>3, InfoAdd
    <3>2. (pc' = "doit" /\ i' = i + 1) \/ (pc' = "done" /\ i' = i)
      BY <2>3 DEF PageFails, SearchReturns, SearchFails, Goto, Exit
    <3> QED
      BY <1>1, <2>1, <2>3, <3>1, <3>2 DEF Ends, NextSearch
  <2>4. ASSUME PageTaken(more), NEW locs, ki' = kcn_info_loc_add(ki, locs)
        PROVE  NextSearch \/ NextPage
    <3>1. IsInfo(ki') /\ ki'.maxnlocs = ki.maxnlocs
      BY <1>1, <2>4, InfoAdd
    <3>2. \/ pc' = "doit" /\ i' = i + 1 /\ n' = n
          \/ pc' = pc /\ i' = i /\ n' = n + rcountmax(ki)
      BY <2>4 DEF PageTaken, SearchReturns, Goto
    <3> QED
      BY <1>1, <2>1, <3>1, <3>2 DEF NextSearch, NextPage
  <2> HIDE DEF more, uri
  <2>5. \/ Abort
        \/ \E taken :
              /\ ki' = kcn_info_loc_add(ki, taken)
              /\ \/ PageTaken(more)
                 \/ PageFails("ESRCH", 0) /\ n' = n
        \/ \E taken, k, error :
              /\ ki' = kcn_info_loc_add(ki, SubSeq(taken, 1, k))
              /\ PageFails(error, kcn_info_nlocs(ki')) /\ n' = n
    BY <1>3 DEF GooglePage, more, uri
  <2> QED
    BY <1>1, <2>2, <2>3, <2>4, <2>5
<1> QED
  BY <1>2, <1>3

LEMMA SearchSteps ==
    ASSUME Progress, Search
    PROVE  /\ pc = "doit" /\ i < argv.r
           /\ \/ Ends
              \/ /\ UNCHANGED <<argv, i>> /\ pc' \in {"net", "google"}
                 /\ pc' = "google" => n' = 0
                 /\ n' \in Nat /\ IsInfo(ki') /\ ki'.maxnlocs = ki.maxnlocs
<1>1. pc = "doit" /\ i < argv.r /\ n \in Nat /\ IsInfo(ki)
  BY DEF Search, Progress
<1>2. argv' = argv /\ ki' = kcn_info_loc_free(ki)
  BY DEF Search
<1>3. IsInfo(ki') /\ ki'.maxnlocs = ki.maxnlocs
  BY <1>1, <1>2, InfoFree
<1>4. \/ n' = 0 /\ pc' = "google" /\ i' = i
      \/ n' = n /\ pc' = "net" /\ i' = i
      \/ n' = n /\ pc' = "done" /\ i' = i
  BY DEF Search, SearchFails, Goto, Exit
<1> QED
  BY <1>1, <1>2, <1>3, <1>4 DEF Ends

LEMMA NetSteps ==
    ASSUME Progress, NetSearch
    PROVE  pc = "net" /\ (Ends \/ NextSearch)
<1>1. pc = "net" /\ n \in Nat /\ IsInfo(ki)
  BY DEF NetSearch, Progress
<1>2. argv' = argv /\ n' = n /\ \E locs : ki' = kcn_info_loc_add(ki, locs)
  BY DEF NetSearch, google
<1>3. IsInfo(ki') /\ ki'.maxnlocs = ki.maxnlocs
  BY <1>1, <1>2, InfoAdd
<1>4. (pc' = "doit" /\ i' = i + 1) \/ (pc' = "done" /\ i' = i)
  BY DEF NetSearch, SearchFails, SearchReturns, Goto, Exit
<1> QED
  BY <1>1, <1>2, <1>3, <1>4 DEF Ends, NextSearch

LEMMA MainSteps ==
    ASSUME Progress, Main
    PROVE  /\ pc = "main" /\ i = 0
           /\ \/ Ends
              \/ /\ pc' = "doit" /\ UNCHANGED <<argv, i, n>> /\ argv.n > 0
                 /\ IsInfo(ki') /\ ki'.maxnlocs = argv.n
<1>1. pc = "main" /\ i = 0 /\ n \in Nat /\ IsInfo(ki)
  BY DEF Main, Progress
<1>2. UNCHANGED <<argv, i, n>>
  BY DEF Main, google
<1>3. \/ pc' = "done" /\ ki' = ki
      \/ /\ pc' = "doit" /\ argv.n > 0
         /\ ki' = kcn_info_new(argv.n, argv.db, Country, Userip)
  BY DEF Main, Asserted, Exit, Goto
<1> QED
  BY <1>1, <1>2, <1>3, InfoNew DEF Ends

LEMMA ProgressInit == Init => Progress
<1> SUFFICES ASSUME Init PROVE Progress
  OBVIOUS
<1>1. argv \in Jobs /\ pc = "main" /\ i = 0 /\ n = 0
      /\ ki = kcn_info_new(0, NULL, NULL, NULL)
  BY DEF Init
<1> QED
  BY <1>1, InfoNew, Key2locAssumption DEF Progress

LEMMA ProgressStep == Progress /\ [Next]_vars => Progress'
<1> SUFFICES ASSUME Progress, [Next]_vars PROVE Progress'
  OBVIOUS
<1>1. ASSUME Ends PROVE Progress'
  BY <1>1 DEF Ends, Progress
<1>2. ASSUME NextSearch, pc \in {"net", "google"} PROVE Progress'
  <2>1. i + 1 \in 0..argv.r
    BY <1>2, Constants DEF Progress
  <2> QED
    BY <1>2, <2>1 DEF NextSearch, Progress
<1>3. ASSUME NextPage, pc = "google" PROVE Progress'
  <2>1. n + rcountmax(ki) \in Nat /\ n + rcountmax(ki) < argv.n + RCOUNTMAX
    <3>1. n < argv.n
      BY <1>3 DEF NextPage, Progress
    <3> QED
      BY <1>3, <3>1, PageSize, Constants
  <2> QED
    BY <1>3, <2>1 DEF NextPage, Progress
<1>4. CASE Main
  BY <1>1, <1>4, MainSteps DEF Progress
<1>5. CASE Search
  <2>1. RCOUNTMAX \in Nat /\ argv.n \in Nat /\ 0 < argv.n + RCOUNTMAX
    BY Constants
  <2> QED
    BY <1>1, <1>5, <2>1, SearchSteps DEF Progress
<1>6. CASE NetSearch
  BY <1>1, <1>2, <1>6, NetSteps
<1>7. CASE GooglePage \/ GoogleEnd
  BY <1>1, <1>2, <1>3, <1>7, GoogleSteps
<1>8. CASE PrintLocs
  BY <1>8 DEF PrintLocs, Exit, Goto, Progress, google
<1>9. CASE Ended \/ UNCHANGED vars
  BY <1>9 DEF Ended, vars, args, google, Progress
<1> QED
  BY <1>4, <1>5, <1>6, <1>7, <1>8, <1>9 DEF Next

LEMMA Progresses == Spec => []Progress
BY ProgressInit, ProgressStep, PTL DEF Spec

-----------------------------------------------------------------------------
(* The bound.                                                              *)

(* The locators of a search, and some more.                                *)
One == argv.n + RCOUNTMAX + 3

LEMMA Weights ==
    ASSUME NEW a \in Nat, NEW b \in Nat, NEW o \in Nat
    PROVE  /\ a * o \in Nat
           /\ a = b + 1 => a * o = b * o + o
           /\ a = b + 2 => a * o = b * o + o + o
OBVIOUS

LEMMA LeftIs ==
    ASSUME Progress
    PROVE  LET rest == (argv.r - i) * One
           IN  /\ rest \in Nat /\ One \in Nat /\ One > 3
               /\ pc = "main" => Left = rest + One + One
               /\ pc = "doit" => Left = rest + One
               /\ pc = "google" => Left = rest + argv.n + RCOUNTMAX - n
               /\ pc = "net" => Left = rest + 1
               /\ pc = "done" => Left = 0
<1> DEFINE left == argv.r - i
           rest == left * One
<1>1. left \in Nat /\ One \in Nat /\ One > 3 /\ argv.r \in Nat
  BY Constants DEF One
<1>2. rest \in Nat
  BY <1>1, Weights
<1>3. pc = "main" => (argv.r + 2) * One = rest + One + One
  <2> SUFFICES ASSUME pc = "main" PROVE (argv.r + 2) * One = rest + One + One
    OBVIOUS
  <2>1. argv.r + 2 \in Nat /\ argv.r + 2 = left + 2
    BY <1>1 DEF Progress
  <2> HIDE DEF left
  <2> QED
    BY <1>1, <2>1, Weights
<1>4. (left + 1) * One = rest + One
  <2> HIDE DEF left
  <2>1. left + 1 \in Nat
    BY <1>1
  <2> QED
    BY <1>1, <2>1, Weights
<1> HIDE DEF rest
<1>5. rest + argv.n + RCOUNTMAX - n = (left * One) + argv.n + RCOUNTMAX - n
  BY DEF rest
<1>6. /\ pc = "main" => Left = (argv.r + 2) * One
      /\ pc = "doit" => Left = (left + 1) * One
      /\ pc = "google" => Left = (left * One) + argv.n + RCOUNTMAX - n
      /\ pc = "net" => Left = (left * One) + 1
      /\ pc = "done" => Left = 0
  BY DEF Left, One
<1> QED
  BY <1>1, <1>2, <1>3, <1>4, <1>5, <1>6 DEF rest

LEMMA LeftNow ==
    Progress => LET rest == (argv.r - i) * One
                IN  /\ rest \in Nat /\ One \in Nat
                    /\ pc = "doit" => Left = rest + One
                    /\ pc = "google" => Left = rest + argv.n + RCOUNTMAX - n
                    /\ pc = "net" => Left = rest + 1
                    /\ pc = "done" => Left = 0
BY LeftIs

LEMMA LeftNext ==
    Progress' => (LET rest == (argv.r - i) * One
                  IN  /\ rest \in Nat /\ One \in Nat
                      /\ pc = "doit" => Left = rest + One
                      /\ pc = "google" => Left = rest + argv.n + RCOUNTMAX - n
                      /\ pc = "net" => Left = rest + 1
                      /\ pc = "done" => Left = 0)'
BY LeftNow, PTL

LEMMA Nearer ==
    ASSUME Progress, Progress', Next
    PROVE  (Left' < Left /\ Left' >= 0) \/ UNCHANGED vars
<1> DEFINE rest == (argv.r - i) * One
<1>1. /\ rest \in Nat /\ One \in Nat /\ One > 3
      /\ pc = "main" => Left = rest + One + One
      /\ pc = "doit" => Left = rest + One
      /\ pc = "google" => Left = rest + argv.n + RCOUNTMAX - n
      /\ pc = "net" => Left = rest + 1
  BY LeftIs
<1>2. /\ rest' \in Nat /\ One' \in Nat
      /\ pc' = "doit" => Left' = rest' + One'
      /\ pc' = "google" => Left' = rest' + argv'.n + RCOUNTMAX - n'
      /\ pc' = "net" => Left' = rest' + 1
      /\ pc' = "done" => Left' = 0
  BY LeftNext
<1>3. argv.n \in Nat /\ RCOUNTMAX \in Nat /\ argv.r \in Nat /\ i \in Nat /\ n \in Nat
  BY Constants
<1>4. One = argv.n + RCOUNTMAX + 3
  BY DEF One
<1>5. (argv' = argv => One' = One) /\ (argv' = argv /\ i' = i => rest' = rest)
  BY DEF One
<1>6. argv' = argv /\ i' = i + 1 /\ i < argv.r => rest = rest' + One
  <2> SUFFICES ASSUME argv' = argv, i' = i + 1, i < argv.r PROVE rest = rest' + One
    OBVIOUS
  <2> DEFINE a == argv.r - i
             b == argv.r - (i + 1)
  <2>1. a \in Nat /\ b \in Nat /\ a = b + 1
    BY <1>3
  <2>2. rest = a * One /\ rest' = b * One
    BY <1>5
  <2> HIDE DEF a, b, rest
  <2> QED
    BY <1>1, <2>1, <2>2, Weights
<1> HIDE DEF rest
<1>7. ASSUME Ends, pc \in {"main", "doit", "net", "google"}
      PROVE  Left' < Left /\ Left' >= 0
  <2>1. pc = "google" => n < argv.n + RCOUNTMAX
    BY DEF Progress
  <2>2. Left > 0
    BY <1>1, <1>3, <1>7, <2>1
  <2> QED
    BY <1>2, <1>7, <2>2 DEF Ends
<1>8. ASSUME NextSearch, pc \in {"net", "google"}
      PROVE  Left' < Left /\ Left' >= 0
  <2>1. i < argv.r /\ (pc = "google" => n < argv.n + RCOUNTMAX)
    BY <1>8 DEF Progress
  <2>2. Left' = rest' + One /\ rest = rest' + One
    BY <1>2, <1>5, <1>6, <1>8, <2>1 DEF NextSearch
  <2>3. Left > rest
    BY <1>1, <1>3, <1>8, <2>1
  <2>4. Left \in Int
    BY <1>1, <1>3, <1>8
  <2>5. Left' = rest
    BY <2>2
  <2>6. rest \in Nat
    BY <1>1
  <2> HIDE DEF NextSearch, Left
  <2>7. Left' < Left
    BY <2>3, <2>4, <2>5, <2>6
  <2> QED
    BY <2>5, <2>6, <2>7
<1>9. ASSUME NextPage, pc = "google"
      PROVE  Left' < Left /\ Left' >= 0
  <2>1. rcountmax(ki) \in 1..RCOUNTMAX - 1
    BY <1>9, PageSize
  <2>2. n' = n + rcountmax(ki) /\ n < argv.n
    BY <1>9 DEF NextPage, Progress
  <2>3. Left' = rest + argv.n + RCOUNTMAX - n' /\ Left = rest + argv.n + RCOUNTMAX - n
    BY <1>1, <1>2, <1>5, <1>9 DEF NextPage
  <2> HIDE DEF NextPage
  <2> DEFINE c == rcountmax(ki)
  <2> HIDE DEF c
  <2>4. c \in 1..RCOUNTMAX - 1 /\ n' = n + c
    BY <2>1, <2>2 DEF c
  <2> QED
    BY <1>1, <1>3, <2>2, <2>3, <2>4
<1>10. CASE Main
  <2>1. pc = "main" /\ (Ends \/ (pc' = "doit" /\ argv' = argv /\ i' = i))
    BY <1>10, MainSteps
  <2> QED
    BY <1>1, <1>2, <1>5, <1>7, <2>1
<1>11. CASE Search
  <2>1. /\ pc = "doit"
        /\ Ends \/ /\ UNCHANGED <<argv, i>> /\ pc' \in {"net", "google"}
                   /\ pc' = "google" => n' = 0
    BY <1>11, SearchSteps
  <2> QED
    BY <1>1, <1>2, <1>3, <1>4, <1>5, <1>7, <2>1
<1>12. CASE NetSearch
  BY <1>8, <1>7, <1>12, NetSteps
<1>13. CASE GooglePage \/ GoogleEnd
  BY <1>7, <1>8, <1>9, <1>13, GoogleSteps
<1>14. CASE PrintLocs
  <2>1. pc = "doit" /\ pc' = "done"
    BY <1>14 DEF PrintLocs, Exit, Goto
  <2> QED
    BY <1>1, <1>2, <2>1
<1>15. CASE Ended
  BY <1>15 DEF Ended
<1> QED
  BY <1>10, <1>11, <1>12, <1>13, <1>14, <1>15 DEF Next

(* The program ends: every step lowers a number that is never negative, so *)
(* that neither the pages of kcn_google_search (kcn_google.c:194-210) nor  *)
(* the searches of -r (key2loc/main.c:156) go on for ever, as long as each *)
(* page and each search returns.                                           *)
THEOREM AlwaysNearer == Spec => EndsNearer
<1>1. Progress /\ Progress' /\ [Next]_vars => [Left' < Left /\ Left' >= 0]_vars
  BY Nearer
<1> QED
  BY <1>1, Progresses, PTL DEF Spec, EndsNearer

-----------------------------------------------------------------------------
(* Recursion, and what follows from it by counting up.                     *)

LEMMA LeastOf ==
    ASSUME NEW S \in SUBSET Nat, S # {}
    PROVE  \E x \in S : \A y \in S : x <= y
<1>1. PICK x \in S : \A y \in S : ~ (<<y, x>> \in OpToRel(<, Nat))
  BY WFMin, NatLessThanWellFounded
<1>2. \A y \in S : ~ (y < x)
  BY <1>1 DEF OpToRel
<1> QED
  BY <1>2

LEMMA CountUp ==
    ASSUME NEW N \in Nat, NEW S, 0 \in S, \A k \in 1..N : k - 1 \in S => k \in S
    PROVE  \A k \in 0..N : k \in S
<1> DEFINE X == {k \in 0..N : k \notin S}
<1> SUFFICES ASSUME X # {} PROVE FALSE
  OBVIOUS
<1>1. X \in SUBSET Nat
  OBVIOUS
<1>2. PICK x \in X : \A y \in X : x <= y
  <2> HIDE DEF X
  <2> QED
    BY <1>1, LeastOf
<1>3. x \in 1..N
  BY <1>2
<1>4. x - 1 \notin X
  BY <1>2, <1>3
<1> QED
  BY <1>2, <1>3, <1>4

Recursive(f, N, S, first, g) ==
    f \in [0..N -> S] /\ f[0] = first /\ \A k \in 1..N : f[k] = g[k][f[k - 1]]

(* A function on 0..N is given by its first value and a step.              *)
LEMMA Recursion ==
    ASSUME NEW N \in Nat, NEW S, NEW first \in S, NEW g \in [1..N -> [S -> S]]
    PROVE  \E f : Recursive(f, N, S, first, g)
<1> DEFINE Q(f, m) == f[0] = first /\ \A k \in 1..m : f[k] = g[k][f[k - 1]]
           W(m) == \E f \in [0..m -> S] : Q(f, m)
           T == {m \in 0..N : W(m)}
<1>1. W(0)
  <2> DEFINE f == [k \in 0..0 |-> first]
  <2>1. f \in [0..0 -> S] /\ Q(f, 0)
    OBVIOUS
  <2> QED
    BY <2>1
<1>2. ASSUME NEW m \in 1..N, W(m - 1) PROVE W(m)
  <2>1. PICK f \in [0..m - 1 -> S] : Q(f, m - 1)
    BY <1>2
  <2> DEFINE x == g[m][f[m - 1]]
             h == [k \in 0..m |-> IF k = m THEN x ELSE f[k]]
  <2>2. x \in S
    BY <2>1
  <2>3. ASSUME NEW k \in 1..m PROVE h[k] = g[k][h[k - 1]]
    <3>1. k - 1 \in 0..m - 1 /\ h[k - 1] = f[k - 1]
      OBVIOUS
    <3>2. CASE k = m
      <4>1. h[k] = x
        BY <3>2
      <4>2. x = g[k][h[k - 1]]
        BY <3>1, <3>2
      <4> QED
        BY <4>1, <4>2
    <3>3. CASE k # m
      <4>1. k \in 1..m - 1 /\ h[k] = f[k]
        BY <3>3
      <4> QED
        BY <2>1, <3>1, <4>1
    <3> QED
      BY <3>2, <3>3
  <2>4. h[0] = first
    BY <2>1
  <2> HIDE DEF x
  <2>5. h \in [0..m -> S]
    BY <2>1, <2>2
  <2> HIDE DEF h
  <2>6. Q(h, m)
    BY <2>3, <2>4
  <2> HIDE DEF Q
  <2> QED
    BY <2>5, <2>6
<1> HIDE DEF W
<1>3. 0 \in T /\ \A m \in 1..N : m - 1 \in T => m \in T
  BY <1>1, <1>2
<1> HIDE DEF T
<1>4. \A m \in 0..N : m \in T
  BY <1>3, CountUp
<1>5. N \in T
  BY <1>4
<1> QED
  BY <1>5 DEF T, W, Recursive

(* FlattenSeq puts the sequences behind each other, one at a time.         *)
LEMMA Flatten ==
    ASSUME NEW S, NEW N \in Nat \ {0}, NEW ss \in [1..N -> Seq(S)]
    PROVE  \E f \in [0..N -> Seq(S)] :
              /\ f[0] = << >> /\ \A k \in 1..N : f[k] = f[k - 1] \o ss[k]
              /\ FlattenSeq(ss) = f[N]
<1> DEFINE g == [k \in 1..N |-> [x \in Seq(S) |-> x \o ss[k]]]
           flatten[j \in 1..Len(ss)] == IF j = 1 THEN ss[j] ELSE flatten[j - 1] \o ss[j]
           Q(h) == h = [j \in 1..Len(ss) |-> IF j = 1 THEN ss[j] ELSE h[j - 1] \o ss[j]]
<1>1. Len(ss) = N
  OBVIOUS
<1>2. g \in [1..N -> [Seq(S) -> Seq(S)]]
  OBVIOUS
<1>3. << >> \in Seq(S)
  OBVIOUS
<1>4. PICK f : Recursive(f, N, Seq(S), << >>, g)
  <2> DEFINE SS == Seq(S)
             first == << >>
  <2>1. g \in [1..N -> [SS -> SS]]
    BY <1>2
  <2>3. first \in SS
    BY <1>3
  <2>4. N \in Nat
    OBVIOUS
  <2> HIDE DEF g, SS, first
  <2>2. \E f : Recursive(f, N, SS, first, g)
    BY <2>1, <2>3, <2>4, Recursion
  <2> QED
    BY <2>2 DEF SS, first
<1>5. ASSUME NEW k \in 1..N, NEW x \in Seq(S) PROVE g[k][x] = x \o ss[k]
  OBVIOUS
<1> HIDE DEF g, flatten
<1>6. /\ f \in [0..N -> Seq(S)]
       /\ f[0] = << >> /\ \A k \in 1..N : f[k] = g[k][f[k - 1]]
  BY <1>4 DEF Recursive
<1>7. ASSUME NEW k \in 1..N PROVE f[k] = f[k - 1] \o ss[k]
  <2>1. f[k - 1] \in Seq(S) /\ f[k] = g[k][f[k - 1]]
    BY <1>6
  <2> QED
    BY <1>5, <2>1
<1>8. f[1] = ss[1]
  <2>1. 1 \in 1..N /\ ss[1] \in Seq(S)
    OBVIOUS
  <2>2. f[1] = f[0] \o ss[1]
    BY <1>7, <2>1
  <2>3. f[0] = << >>
    BY <1>6
  <2> QED
    BY <2>1, <2>2, <2>3
<1>9. FlattenSeq(ss) = flatten[N]
  BY <1>1 DEF FlattenSeq, flatten
<1>10. Q(flatten)
  <2> DEFINE h == [k \in 1..N |-> f[k]]
  <2>2. ASSUME NEW j \in 1..N PROVE h[j] = IF j = 1 THEN ss[j] ELSE h[j - 1] \o ss[j]
    <3>1. CASE j = 1
      BY <1>8, <3>1
    <3>2. CASE j # 1
      <4>1. j - 1 \in 1..N /\ h[j - 1] = f[j - 1] /\ h[j] = f[j]
        BY <3>2
      <4> QED
        BY <1>7, <3>2, <4>1
    <3> QED
      BY <3>1, <3>2
  <2>3. Q(h)
    BY <1>1, <2>2
  <2> HIDE DEF h
  <2>4. Q(CHOOSE x : Q(x))
    BY <2>3, Zenon
  <2> QED
    BY <2>4 DEF flatten
<1>11. ASSUME NEW k \in 1..N PROVE flatten[k] = f[k]
  <2> DEFINE T == {0} \cup {j \in 1..N : flatten[j] = f[j]}
  <2>1. \A j \in 1..N : flatten[j] = IF j = 1 THEN ss[j] ELSE flatten[j - 1] \o ss[j]
    BY <1>1, <1>10
  <2>2. 1 \in T
    BY <1>8, <2>1
  <2>3. ASSUME NEW j \in 1..N, j - 1 \in T PROVE j \in T
    <3>1. CASE j = 1
      BY <2>2, <3>1
    <3>2. CASE j # 1
      <4>1. flatten[j - 1] = f[j - 1]
        BY <2>3, <3>2
      <4> QED
        BY <1>7, <2>1, <3>2, <4>1
    <3> QED
      BY <3>1, <3>2
  <2>4. 0 \in T /\ N \in Nat
    OBVIOUS
  <2> HIDE DEF T
  <2>5. \A j \in 1..N : j - 1 \in T => j \in T
    BY <2>3
  <2>6. \A j \in 0..N : j \in T
    BY <2>4, <2>5, CountUp
  <2>7. k \in T
    BY <2>6
  <2> QED
    BY <2>7 DEF T
<1>12. FlattenSeq(ss) = f[N]
  BY <1>9, <1>11
<1> QED
  BY <1>6, <1>7, <1>12

-----------------------------------------------------------------------------
(* Encoded values.                                                         *)

(* The cells of an encoded value.                                          *)
Plain == {c \in Char : kcn_uri_str_isnormal(c)} \cup {"+", "%"}

Long(c) == ~ kcn_uri_str_isnormal(c) /\ c # " "

Enc(val) == FlattenSeq([k \in DOMAIN val |-> Encoding(val[k])])

LEMMA PlainCells == Plain \cap {"&", "=", Nul} = {}
<1>1. "&" \notin Plain /\ "=" \notin Plain
  BY UriAssumption DEF Plain, kcn_uri_str_isnormal
<1>2. Nul \notin Plain
  BY UriAssumption DEF Plain, Nul
<1> QED
  BY <1>1, <1>2

LEMMA Cells ==
    ASSUME NEW S, NEW x \in S, NEW y \in S, NEW z \in S
    PROVE  /\ <<x>> \in Seq(S) /\ Len(<<x>>) = 1 /\ <<x>>[1] = x
           /\ <<x>> \o <<y, z>> = <<x, y, z>>
           /\ <<x, y, z>> \in Seq(S) /\ Len(<<x, y, z>>) = 3
<1>1. <<x>> \in Seq(S) /\ Len(<<x>>) = 1 /\ <<x>>[1] = x
  OBVIOUS
<1>2. <<x, y, z>> \in Seq(S) /\ Len(<<x, y, z>>) = 3
  OBVIOUS
<1>3. <<x>> \o <<y, z>> = <<x, y, z>>
  <2> DEFINE l == <<x>> \o <<y, z>>
             r == <<x, y, z>>
  <2>1. <<y, z>> \in Seq(S) /\ Len(<<y, z>>) = 2
    OBVIOUS
  <2>2. l \in Seq(S) /\ Len(l) = 3 /\ l[1] = x /\ l[2] = y /\ l[3] = z
    BY <1>1, <2>1
  <2>3. r[1] = x /\ r[2] = y /\ r[3] = z
    OBVIOUS
  <2> HIDE DEF l, r
  <2>4. r \in Seq(S) /\ Len(r) = 3
    BY <1>2 DEF r
  <2>5. \A k \in 1..3 : l[k] = r[k]
    BY <2>2, <2>3
  <2>6. l \in [1..3 -> S] /\ r \in [1..3 -> S]
    BY <2>2, <2>4
  <2>7. l = r
    BY <2>5, <2>6
  <2> QED
    BY <2>7 DEF l, r
<1> QED
  BY <1>1, <1>2, <1>3

LEMMA Behind ==
    ASSUME NEW S, NEW s \in Seq(S), NEW t \in Seq(S)
    PROVE  /\ s \o t \in Seq(S) /\ Len(s \o t) = Len(s) + Len(t)
           /\ \A k \in 1..Len(s) : (s \o t)[k] = s[k]
           /\ \A k \in 1..Len(t) : (s \o t)[Len(s) + k] = t[k]
OBVIOUS

LEMMA IsSeq ==
    ASSUME NEW N \in Nat, NEW S, NEW f \in [1..N -> S]
    PROVE  f \in Seq(S) /\ Len(f) = N
OBVIOUS

LEMMA EncodingIs ==
    ASSUME NEW c \in Char
    PROVE  /\ Encoding(c) \in Seq(Plain)
           /\ Long(c) => /\ Encoding(c) = <<"%", Hex[c][1], Hex[c][2]>>
                         /\ Hex[c][1] \in Plain \ {"%"} /\ Hex[c][2] \in Plain \ {"%"}
           /\ c = " " => Encoding(c) = <<"+">>
           /\ kcn_uri_str_isnormal(c) =>
                 Encoding(c) = <<c>> /\ c \in Plain \ {"%", "+"} /\ c # " "
<1>1. CASE kcn_uri_str_isnormal(c)
  <2>1. c # " " /\ c \notin {"%", "+"} /\ c \in Plain
    BY <1>1, UriAssumption DEF Plain, kcn_uri_str_isnormal
  <2>2. Encoding(c) = <<c>>
    BY <1>1 DEF Encoding
  <2>3. ~ Long(c)
    BY <1>1 DEF Long
  <2>4. <<c>> \in Seq(Plain)
    BY <2>1, Cells
  <2> QED
    BY <1>1, <2>1, <2>2, <2>3, <2>4
<1>2. CASE c = " "
  <2>1. ~ kcn_uri_str_isnormal(c) /\ "+" \in Plain
    BY <1>2 DEF kcn_uri_str_isnormal, Plain
  <2>2. Encoding(c) = <<"+">>
    BY <1>2, <2>1 DEF Encoding
  <2>3. ~ Long(c)
    BY <1>2 DEF Long
  <2>4. <<"+">> \in Seq(Plain)
    BY <2>1
  <2> QED
    BY <1>2, <2>1, <2>2, <2>3, <2>4
<1>3. CASE Long(c)
  <2>1. c \in DOMAIN Hex /\ ~ kcn_uri_str_isnormal(c) /\ c # " "
    BY <1>3 DEF Long, kcn_uri_str_isnormal
  <2>2. /\ Hex[c] \in [1..2 -> Char]
        /\ \A d \in 1..2 : kcn_uri_str_isnormal(Hex[c][d])
    BY <2>1, UriAssumption
  <2>3. ASSUME NEW d \in 1..2 PROVE Hex[c][d] \in Plain \ {"%"}
    <3>1. Hex[c][d] \in Char /\ kcn_uri_str_isnormal(Hex[c][d])
      BY <2>2
    <3>2. Hex[c][d] # "%"
      BY <3>1, UriAssumption DEF kcn_uri_str_isnormal
    <3> QED
      BY <3>1, <3>2 DEF Plain
  <2>4. Encoding(c) = <<"%">> \o Hex[c]
    BY <2>1 DEF Encoding
  <2>5. "%" \in Plain
    BY DEF Plain
  <2> DEFINE h == Hex[c]
  <2>6. h \in [1..2 -> Char] /\ Encoding(c) = <<"%">> \o h
    BY <2>2, <2>4
  <2>7. h[1] \in Plain \ {"%"} /\ h[2] \in Plain \ {"%"}
    BY <2>3
  <2> HIDE DEF h
  <2>10. h = <<h[1], h[2]>>
    <3>1. h[1] \in Char /\ h[2] \in Char
      BY <2>6
    <3>2. \A d \in 1..2 : h[d] = <<h[1], h[2]>>[d]
      OBVIOUS
    <3>3. <<h[1], h[2]>> \in [1..2 -> Char]
      BY <3>1
    <3> QED
      BY <2>6, <3>2, <3>3
  <2>8. Encoding(c) = <<"%", h[1], h[2]>>
    <3> DEFINE x == h[1]
               y == h[2]
    <3>1. h = <<x, y>>
      BY <2>10
    <3> HIDE DEF x, y
    <3>2. Encoding(c) = <<"%">> \o <<x, y>>
      BY <2>6, <3>1
    <3>4. "%" \in Plain /\ x \in Plain /\ y \in Plain
      BY <2>5, <2>7 DEF x, y
    <3>3. <<"%">> \o <<x, y>> = <<"%", x, y>>
      BY <3>4, Cells
    <3> QED
      BY <3>2, <3>3 DEF x, y
  <2>9. Encoding(c) \in Seq(Plain)
    BY <2>5, <2>7, <2>8
  <2> QED
    BY <1>3, <2>1, <2>7, <2>8, <2>9 DEF h
<1> QED
  BY <1>1, <1>2, <1>3 DEF Long

(* What an encoded value is after each of the characters.                  *)
Encodes(f, val) ==
    /\ f \in [0..Len(val) -> Seq(Plain)]
    /\ f[0] = << >>
    /\ \A k \in 1..Len(val) : f[k] = f[k - 1] \o Encoding(val[k])
    /\ Enc(val) = f[Len(val)]

LEMMA Encoded ==
    ASSUME NEW val \in Seq(Char)
    PROVE  \E f : Encodes(f, val)
<1> DEFINE N == Len(val)
           ss == [k \in 1..N |-> Encoding(val[k])]
<1>1. N \in Nat /\ DOMAIN val = 1..N /\ \A k \in 1..N : val[k] \in Char
  OBVIOUS
<1>2. Enc(val) = FlattenSeq(ss)
  BY <1>1 DEF Enc
<1>3. CASE N = 0
  <2>1. ss = << >>
    BY <1>3
  <2>2. FlattenSeq(<< >>) = << >>
    BY DEF FlattenSeq
  <2>3. Encodes([k \in 0..0 |-> << >>], val)
    BY <1>2, <1>3, <2>1, <2>2 DEF Encodes
  <2> QED
    BY <2>3
<1>4. CASE N # 0
  <2>1. ss \in [1..N -> Seq(Plain)]
    BY <1>1, EncodingIs
  <2>2. N \in Nat \ {0}
    BY <1>1, <1>4
  <2>3. \A k \in 1..N : ss[k] = Encoding(val[k])
    OBVIOUS
  <2> HIDE DEF ss, N
  <2>4. PICK f \in [0..N -> Seq(Plain)] :
           /\ f[0] = << >> /\ \A k \in 1..N : f[k] = f[k - 1] \o ss[k]
           /\ FlattenSeq(ss) = f[N]
    BY <2>1, <2>2, Flatten
  <2>5. Encodes(f, val)
    BY <1>2, <2>3, <2>4 DEF Encodes, N
  <2> QED
    BY <2>5
<1> QED
  BY <1>3, <1>4

(* kcn_uri_str_len gives the length of what kcn_uri_encputs writes.        *)
LEMMA EncodedLength ==
    ASSUME NEW val \in Seq(Char)
    PROVE  Enc(val) \in Seq(Plain) /\ Len(Enc(val)) = kcn_uri_str_len(val, TRUE)
<1> DEFINE N == Len(val)
           long(k) == {j \in 1..k : Long(val[j])}
           C(k) == Cardinality(long(k))
<1>1. N \in Nat /\ DOMAIN val = 1..N /\ \A k \in 1..N : val[k] \in Char
  OBVIOUS
<1>2. PICK f : Encodes(f, val)
  BY Encoded
<1>3. /\ f \in [0..N -> Seq(Plain)] /\ f[0] = << >> /\ Enc(val) = f[N]
      /\ \A k \in 1..N : f[k] = f[k - 1] \o Encoding(val[k])
  BY <1>2 DEF Encodes
<1>4. ASSUME NEW k \in Nat PROVE IsFiniteSet(long(k)) /\ C(k) \in Nat
  <2>1. IsFiniteSet(1..k)
    BY FS_Interval
  <2>2. long(k) \in SUBSET (1..k)
    OBVIOUS
  <2>3. IsFiniteSet(long(k))
    BY <2>1, <2>2, FS_Subset
  <2> HIDE DEF long
  <2> QED
    BY <2>3, FS_CardinalityType
<1>5. C(0) = 0
  <2>1. long(0) = {}
    OBVIOUS
  <2> QED
    BY <2>1, FS_EmptySet
<1>6. ASSUME NEW k \in 1..N
      PROVE  C(k) = C(k - 1) + (IF Long(val[k]) THEN 1 ELSE 0)
  <2>1. long(k) = IF Long(val[k]) THEN long(k - 1) \cup {k} ELSE long(k - 1)
    OBVIOUS
  <2>2. k \notin long(k - 1) /\ k - 1 \in Nat
    OBVIOUS
  <2>3. IsFiniteSet(long(k - 1)) /\ C(k - 1) \in Nat
    BY <1>4, <2>2
  <2> HIDE DEF long
  <2>4. Cardinality(long(k - 1) \cup {k}) = C(k - 1) + 1
    BY <2>2, <2>3, FS_AddElement
  <2> QED
    BY <2>1, <2>3, <2>4
<1>7. kcn_uri_str_len(val, TRUE) = N + 2 * C(N)
  BY <1>1 DEF kcn_uri_str_len, Long
<1> HIDE DEF C, long
<1> DEFINE T == {k \in 0..N : Len(f[k]) = k + 2 * C(k)}
<1>8. 0 \in T
  BY <1>3, <1>5
<1>9. ASSUME NEW k \in 1..N, k - 1 \in T PROVE k \in T
  <2> DEFINE e == Encoding(val[k])
             p == f[k - 1]
             c == C(k - 1)
  <2>1. e \in Seq(Plain) /\ Len(e) = IF Long(val[k]) THEN 3 ELSE 1
    <3>1. val[k] \in Char
      BY <1>1
    <3>2. Long(val[k]) \/ val[k] = " " \/ kcn_uri_str_isnormal(val[k])
      BY DEF Long
    <3>3. CASE Long(val[k])
      <4> DEFINE x == Hex[val[k]][1]
                 y == Hex[val[k]][2]
      <4>1. e = <<"%", x, y>> /\ e \in Seq(Plain)
        BY <3>1, <3>3, EncodingIs
      <4> HIDE DEF x, y, e
      <4> QED
        BY <3>3, <4>1
    <3>4. CASE ~ Long(val[k])
      <4> DEFINE x == IF val[k] = " " THEN "+" ELSE val[k]
      <4>1. e = <<x>> /\ e \in Seq(Plain)
        BY <3>1, <3>2, <3>4, EncodingIs
      <4> HIDE DEF x, e
      <4> QED
        BY <3>4, <4>1
    <3> QED
      BY <3>3, <3>4
  <2>7. k - 1 \in 0..N
    BY <1>1
  <2>2. p \in Seq(Plain) /\ f[k] = p \o e
    <3>1. p \in Seq(Plain)
      BY <1>3, <2>7
    <3>2. f[k] = p \o e
      BY <1>3
    <3> QED
      BY <3>1, <3>2
  <2>3. c \in Nat /\ C(k) = c + (IF Long(val[k]) THEN 1 ELSE 0)
    BY <1>1, <1>4, <1>6, <2>7
  <2>4. Len(p) = k - 1 + 2 * c
    BY <1>9
  <2> HIDE DEF e, p, c
  <2>5. Len(f[k]) = Len(p) + Len(e)
    <3>1. p \in Seq(Plain) /\ e \in Seq(Plain)
      BY <2>1, <2>2
    <3>2. Len(p \o e) = Len(p) + Len(e)
      BY <3>1, Behind
    <3> QED
      BY <2>2, <3>2
  <2>6. Len(f[k]) = k + 2 * C(k)
    BY <2>1, <2>3, <2>4, <2>5
  <2> QED
    BY <2>6
<1>10. \A k \in 0..N : k \in T
  <2>1. \A k \in 1..N : k - 1 \in T => k \in T
    BY <1>9
  <2> HIDE DEF T
  <2> QED
    BY <1>1, <1>8, <2>1, CountUp
<1>11. Len(f[N]) = N + 2 * C(N)
  BY <1>1, <1>10
<1>12. f[N] \in Seq(Plain)
  BY <1>1, <1>3
<1> QED
  BY <1>3, <1>7, <1>11, <1>12

-----------------------------------------------------------------------------
(* The memory of a URI and the string in it.                               *)

Name == {"rsz", "gl", "userip", "q", "start"}
UriCell == Plain \cup Name \cup {"base", "&", "="}
MemCell == UriCell \cup {Nul, Junk}

Str(u, s) ==
    /\ u = [mem |-> u.mem, len |-> u.len]
    /\ s \in Seq(UriCell) /\ u.mem \in Seq(MemCell)
    /\ u.len = Len(s) /\ Len(u.mem) > Len(s)
    /\ \A k \in 1..Len(s) : u.mem[k] = s[k]
    /\ u.mem[Len(s) + 1] = Nul

LEMMA NoNul == Nul \notin UriCell
BY PlainCells DEF UriCell, Name, Nul

LEMMA StrNew == Str(kcn_uri_new(<<"base">>), <<"base">>)
<1> DEFINE base == <<"base">>
           mem == Append(base, Nul)
<1>1. "base" \in UriCell /\ UriCell \subseteq MemCell /\ Nul \in MemCell
  BY DEF UriCell, MemCell
<1>2. base \in Seq(UriCell) /\ base \in Seq(MemCell) /\ Len(base) = 1
  BY <1>1, Cells
<1>3. kcn_uri_new(base) = [mem |-> mem, len |-> Len(base)]
  BY DEF kcn_uri_new
<1> HIDE DEF base
<1>4. mem \in Seq(MemCell) /\ Len(mem) = 2 /\ mem[1] = base[1] /\ mem[2] = Nul
  <2>1. Nul \in MemCell
    BY <1>1
  <2>2. mem \in Seq(MemCell)
    BY <1>2, <2>1
  <2>3. Len(mem) = Len(base) + 1 /\ mem[Len(base) + 1] = Nul
    BY <1>2
  <2>4. mem[1] = base[1]
    BY <1>2
  <2> QED
    BY <1>2, <2>2, <2>3, <2>4
<1> DEFINE u == kcn_uri_new(base)
<1> HIDE DEF mem, u
<1>6. u = [mem |-> mem, len |-> 1]
  BY <1>2, <1>3 DEF u
<1>7. u.mem = mem /\ u.len = 1
  BY <1>6
<1>8. \A k \in 1..1 : mem[k] = base[k]
  BY <1>4
<1>9. mem[Len(base) + 1] = Nul
  BY <1>2, <1>4
<1>10. Str(u, base)
  BY <1>2, <1>4, <1>6, <1>7, <1>8, <1>9 DEF Str
<1>5. Str(kcn_uri_new(base), base)
  BY <1>10 DEF u
<1> QED
  BY <1>5 DEF base

(* What is put with room for it is the end of the string.                  *)
LEMMA StrPut ==
    ASSUME NEW u, NEW s, Str(u, s), NEW t \in Seq(UriCell)
    PROVE  Str(Put(kcn_uri_ensure_trailing_space(u, Len(t)), t), s \o t)
<1> DEFINE a == Len(s)
           b == Len(t)
           old(k) == IF k <= Len(u.mem) THEN u.mem[k] ELSE Junk
           room == [k \in 1..a + b + 1 |-> IF k > a + b THEN Nul ELSE old(k)]
           mem == [k \in 1..a + b + 1 |-> IF k \in a + 1..a + b THEN t[k - a] ELSE room[k]]
           v == kcn_uri_ensure_trailing_space(u, b)
<1>1. /\ s \in Seq(UriCell) /\ u.mem \in Seq(MemCell) /\ u.len = a /\ Len(u.mem) > a
      /\ a \in Nat /\ b \in Nat
      /\ \A k \in 1..a : u.mem[k] = s[k]
      /\ u = [mem |-> u.mem, len |-> u.len]
  BY DEF Str
<1>2. UriCell \subseteq MemCell /\ Nul \in MemCell /\ Junk \in MemCell
  BY DEF MemCell
<1>3. v = [mem |-> room, len |-> a]
  <2> DEFINE m == u.mem
             l == u.len
  <2>1. u = [mem |-> m, len |-> l] /\ l = a
    BY <1>1
  <2>2. v = [u EXCEPT !.mem = room]
    BY <1>1 DEF kcn_uri_ensure_trailing_space
  <2> HIDE DEF m, l, room
  <2> QED
    BY <2>1, <2>2
<1>4. room \in [1..a + b + 1 -> MemCell]
  <2> SUFFICES ASSUME NEW k \in 1..a + b + 1, k <= a + b PROVE old(k) \in MemCell
    BY <1>2
  <2> QED
    BY <1>1, <1>2
<1>5. \A k \in 1..a : room[k] = s[k]
  BY <1>1
<1>6. room[a + b + 1] = Nul
  BY <1>1
<1> HIDE DEF room
<1>7. Len(room) = a + b + 1 /\ room \in Seq(MemCell)
  BY <1>1, <1>4
<1>8. Put(v, t) = [mem |-> mem, len |-> a + b]
  <2> DEFINE size(end) == IF end > Len(v.mem) THEN end ELSE Len(v.mem)
  <2>1. v.mem = room /\ v.len = a
    BY <1>3
  <2> HIDE DEF v
  <2>2. size(v.len + b) = a + b + 1
    BY <1>1, <1>7, <2>1
  <2>3. Put(v, t) = [mem |-> [k \in 1..size(v.len + b) |->
                                 IF k \in v.len + 1..v.len + b THEN t[k - v.len]
                                 ELSE v.mem[k]],
                     len |-> v.len + b]
    BY DEF Put
  <2> HIDE DEF size
  <2> QED
    BY <2>1, <2>2, <2>3
<1>9. \A k \in 1..a + b + 1 : mem[k] \in MemCell
  BY <1>1, <1>2, <1>4
<1>10. mem \in [1..a + b + 1 -> MemCell]
  BY <1>9
<1>11. (\A k \in 1..a : mem[k] = s[k]) /\ (\A k \in 1..b : mem[a + k] = t[k])
  BY <1>1, <1>5
<1>12. mem[a + b + 1] = Nul
  BY <1>1, <1>6
<1> HIDE DEF mem
<1>13. mem \in Seq(MemCell) /\ Len(mem) = a + b + 1
  <2>1. a + b + 1 \in Nat
    BY <1>1
  <2> QED
    BY <1>10, <2>1, IsSeq
<1>14. /\ s \o t \in Seq(UriCell) /\ Len(s \o t) = a + b
       /\ \A k \in 1..a : (s \o t)[k] = s[k]
       /\ \A k \in 1..b : (s \o t)[a + k] = t[k]
  BY <1>1, Behind
<1>15. \A k \in 1..a + b : mem[k] = (s \o t)[k]
  <2> SUFFICES ASSUME NEW k \in 1..a + b PROVE mem[k] = (s \o t)[k]
    OBVIOUS
  <2>1. CASE k <= a
    BY <1>1, <1>11, <1>14, <2>1
  <2>2. CASE k > a
    <3>1. k - a \in 1..b /\ k = a + (k - a)
      BY <1>1, <2>2
    <3> QED
      BY <1>11, <1>14, <3>1
  <2> QED
    BY <1>1, <2>1, <2>2
<1> DEFINE w == Put(v, t)
           st == s \o t
<1>16. w = [mem |-> mem, len |-> a + b]
  BY <1>8
<1>17. st \in Seq(UriCell) /\ Len(st) = a + b /\ \A k \in 1..a + b : mem[k] = st[k]
  BY <1>14, <1>15
<1> HIDE DEF w, st
<1>18. w.mem = mem /\ w.len = a + b
  BY <1>16
<1>19. Str(w, st)
  BY <1>1, <1>12, <1>13, <1>16, <1>17, <1>18 DEF Str
<1> QED
  BY <1>19 DEF w, st

LEMMA ParamPut ==
    ASSUME NEW u, NEW s, Str(u, s), NEW p \in Name, NEW val \in Seq(Char), val # NULL
    PROVE  Str(kcn_uri_param_puts(u, p, val), (s \o <<"&", p, "=">>) \o Enc(val))
<1> DEFINE t == <<"&", p, "=">>
           x == kcn_uri_puts(u, t)
           e == Enc(val)
<1>1. t \in Seq(UriCell) /\ Len(t) = 3
  <2>1. "&" \in UriCell /\ p \in UriCell /\ "=" \in UriCell
    BY DEF UriCell
  <2> QED
    BY <2>1, Cells
<1>2. e \in Seq(UriCell) /\ Len(e) = kcn_uri_str_len(val, TRUE)
  <2>1. e \in Seq(Plain) /\ Len(e) = kcn_uri_str_len(val, TRUE)
    BY EncodedLength
  <2>2. Plain \subseteq UriCell
    BY DEF UriCell
  <2> HIDE DEF e
  <2> QED
    BY <2>1, <2>2
<1>3. kcn_uri_param_puts(u, p, val)
        = Put(kcn_uri_ensure_trailing_space(x, kcn_uri_str_len(val, TRUE)), e)
  BY DEF kcn_uri_param_puts, kcn_uri_encputs, Enc
<1>4. x = Put(kcn_uri_ensure_trailing_space(u, kcn_uri_str_len(t, FALSE)), t)
  BY DEF kcn_uri_puts
<1> HIDE DEF t, e, x
<1>5. kcn_uri_str_len(t, FALSE) = Len(t)
  BY <1>1 DEF kcn_uri_str_len
<1>6. Str(x, s \o t)
  BY <1>1, <1>4, <1>5, StrPut
<1>7. Str(Put(kcn_uri_ensure_trailing_space(x, Len(e)), e), (s \o t) \o e)
  BY <1>2, <1>6, StrPut
<1> QED
  BY <1>2, <1>3, <1>7 DEF t, e

Begins(r, s) == Len(s) <= Len(r) /\ \A k \in 1..Len(s) : r[k] = s[k]

LEMMA StrResize ==
    ASSUME NEW u, NEW s \in Seq(UriCell), NEW r, Str(u, r), Begins(r, s)
    PROVE  Str(kcn_uri_resize(u, Len(s)), s)
<1> DEFINE a == Len(s)
           mem == [u.mem EXCEPT ![a + 1] = Nul]
           w == kcn_uri_resize(u, a)
<1>1. Len(r) >= a /\ a \in Nat /\ Len(r) \in Nat /\ \A k \in 1..a : r[k] = s[k]
  BY DEF Begins, Str
<1>2. /\ u.mem \in Seq(MemCell) /\ Len(u.mem) > Len(r)
      /\ \A k \in 1..Len(r) : u.mem[k] = r[k]
  BY DEF Str
<1>3. Nul \in MemCell
  BY DEF MemCell
<1>4. mem \in Seq(MemCell) /\ Len(mem) = Len(u.mem)
  <2> DEFINE m == u.mem
             N == Len(m)
  <2>1. m \in [1..N -> MemCell] /\ N \in Nat
    BY <1>2
  <2> HIDE DEF m, N
  <2>2. mem \in [1..N -> MemCell]
    BY <1>3, <2>1 DEF m
  <2> HIDE DEF mem
  <2> QED
    BY <2>1, <2>2, IsSeq DEF N, m
<1>5. mem[a + 1] = Nul /\ \A k \in 1..a : mem[k] = s[k]
  BY <1>1, <1>2
<1>6. w = [mem |-> mem, len |-> a]
  BY DEF kcn_uri_resize
<1>7. Len(mem) > a
  BY <1>1, <1>2, <1>4
<1> HIDE DEF mem, w
<1>8. w.mem = mem /\ w.len = a
  BY <1>6
<1>9. Str(w, s)
  BY <1>4, <1>5, <1>6, <1>7, <1>8 DEF Str
<1> QED
  BY <1>9 DEF w

(* What libcurl is given is the string.                                    *)
LEMMA StrCut ==
    ASSUME NEW u, NEW s, Str(u, s)
    PROVE  CString(u.mem) = s
<1> DEFINE m == u.mem
           a == Len(s)
           I == {k \in 1..Len(m) : m[k] = Nul}
           end == SelectInSeq(m, LAMBDA c : c = Nul)
<1>1. /\ s \in Seq(UriCell) /\ m \in Seq(MemCell) /\ Len(m) > a /\ m[a + 1] = Nul
      /\ \A k \in 1..a : m[k] = s[k]
      /\ a \in Nat
  BY DEF Str
<1>2. \A k \in 1..a : s[k] # Nul
  BY <1>1, NoNul
<1>3. a + 1 \in I /\ \A k \in I : a + 1 <= k /\ k \in Nat
  <2>1. a + 1 \in I
    BY <1>1
  <2>2. ASSUME NEW k \in I, k < a + 1 PROVE FALSE
    <3>1. k \in 1..a /\ m[k] = Nul
      BY <1>1, <2>2
    <3> QED
      BY <1>1, <1>2, <3>1
  <2>3. \A k \in I : k \in Nat
    BY <1>1
  <2> HIDE DEF I
  <2> QED
    BY <1>1, <2>1, <2>2, <2>3
<1>4. end = IF I # {} THEN Min(I) ELSE 0
  BY DEF SelectInSeq
<1> HIDE DEF end, I
<1>5. Min(I) \in I /\ \A k \in I : Min(I) <= k
  BY <1>3 DEF Min
<1>6. end = a + 1
  BY <1>1, <1>3, <1>4, <1>5
<1>7. CString(m) = IF end = 0 THEN Append(m, Junk) ELSE SubSeq(m, 1, end - 1)
  BY DEF CString, end
<1>8. CString(m) = SubSeq(m, 1, a)
  BY <1>1, <1>6, <1>7
<1> HIDE DEF m
<1>9. SubSeq(m, 1, a) = s
  <2> DEFINE l == SubSeq(m, 1, a)
  <2>1. l \in Seq(MemCell) /\ Len(l) = a /\ \A k \in 1..a : l[k] = m[k]
    BY <1>1
  <2> HIDE DEF l
  <2>2. UriCell \subseteq MemCell
    BY DEF MemCell
  <2>3. l \in [1..a -> MemCell] /\ s \in [1..a -> MemCell]
    BY <1>1, <2>1, <2>2
  <2>4. \A k \in 1..a : l[k] = s[k]
    BY <1>1, <2>1
  <2>5. l = s
    BY <2>3, <2>4
  <2> QED
    BY <2>5 DEF l
<1> QED
  BY <1>8, <1>9 DEF m

-----------------------------------------------------------------------------
(* The parameters of a string.                                             *)

LEMMA SameFun ==
    ASSUME NEW N \in Nat, NEW S, NEW l \in [1..N -> S], NEW r \in [1..N -> S],
           \A k \in 1..N : l[k] = r[k]
    PROVE  l = r
OBVIOUS

LEMMA SubCells ==
    ASSUME NEW S, NEW s \in Seq(S), NEW from \in Nat, NEW to \in Nat, from > 0,
           to <= Len(s)
    PROVE  LET l == SubSeq(s, from, to)
               N == IF from <= to THEN to - from + 1 ELSE 0
           IN  /\ N \in Nat /\ l \in [1..N -> S] /\ l \in Seq(S) /\ Len(l) = N
               /\ \A k \in 1..N : l[k] = s[from + k - 1]
<1>1. CASE from <= to
  <2> DEFINE l == SubSeq(s, from, to)
             N == to - from + 1
  <2>1. N \in Nat /\ \A k \in 1..N : from + k - 1 \in 1..Len(s)
    BY <1>1
  <2>2. l \in Seq(S)
    BY <1>1
  <2>3. Len(l) = N
    BY <1>1
  <2>4. \A k \in 1..N : l[k] = s[from + k - 1]
    BY <1>1
  <2> HIDE DEF l, N
  <2>5. l \in [1..N -> S]
    BY <2>2, <2>3
  <2> QED
    BY <1>1, <2>1, <2>2, <2>3, <2>4, <2>5 DEF l, N
<1>2. CASE ~ (from <= to)
  <2>1. SubSeq(s, from, to) = << >>
    BY <1>2
  <2> QED
    BY <1>2, <2>1
<1> QED
  BY <1>1, <1>2

LEMMA SubSame ==
    ASSUME NEW S, NEW s \in Seq(S), NEW u \in Seq(S), NEW from \in Nat, NEW to \in Nat,
           from > 0, to <= Len(s), Len(s) <= Len(u), \A k \in 1..Len(s) : u[k] = s[k]
    PROVE  SubSeq(u, from, to) = SubSeq(s, from, to)
<1> DEFINE l == SubSeq(u, from, to)
           r == SubSeq(s, from, to)
           N == IF from <= to THEN to - from + 1 ELSE 0
<1>1. to <= Len(u)
  OBVIOUS
<1>2. /\ N \in Nat /\ l \in [1..N -> S]
      /\ \A k \in 1..N : l[k] = u[from + k - 1]
  BY <1>1, SubCells
<1>3. r \in [1..N -> S] /\ \A k \in 1..N : r[k] = s[from + k - 1]
  BY SubCells
<1>4. \A k \in 1..N : from + k - 1 \in 1..Len(s)
  OBVIOUS
<1> HIDE DEF l, r, N
<1>5. \A k \in 1..N : l[k] = r[k]
  BY <1>2, <1>3, <1>4
<1>6. l = r
  BY <1>2, <1>3, <1>5, SameFun
<1> QED
  BY <1>6 DEF l, r

LEMMA SubLast ==
    ASSUME NEW S, NEW t \in Seq(S), NEW u \in Seq(S), NEW from \in Nat,
           Len(u) = from + Len(t), \A k \in 1..Len(t) : u[from + k] = t[k]
    PROVE  SubSeq(u, from + 1, Len(u)) = t
<1> DEFINE to == Len(u)
           l == SubSeq(u, from + 1, to)
           N == Len(t)
           M == IF from + 1 <= to THEN to - (from + 1) + 1 ELSE 0
<1>1. N \in Nat /\ t \in [1..N -> S]
  OBVIOUS
<1>2. from + 1 \in Nat /\ to \in Nat /\ from + 1 > 0 /\ to <= Len(u) /\ M = N
  OBVIOUS
<1>3. /\ l \in [1..M -> S]
      /\ \A k \in 1..M : l[k] = u[(from + 1) + k - 1]
  BY <1>2, SubCells
<1>4. \A k \in 1..N : (from + 1) + k - 1 = from + k
  OBVIOUS
<1> HIDE DEF l, M
<1>5. \A k \in 1..N : l[k] = t[k]
  BY <1>2, <1>3, <1>4
<1>6. l = t
  BY <1>1, <1>2, <1>3, <1>5, SameFun
<1> QED
  BY <1>6 DEF l

(* Where the value of the parameter at k ends.                             *)
Ending(uri, k, e) ==
    /\ e \in k..Len(uri)
    /\ e = Len(uri) \/ uri[e + 1] = "&"
    /\ \A j \in k + 1..e : uri[j] # "&"

End(uri, k) == CHOOSE e \in k..Len(uri) :
                  /\ e = Len(uri) \/ uri[e + 1] = "&"
                  /\ \A j \in k + 1..e : uri[j] # "&"

Param(uri, k) == [at |-> k, name |-> SubSeq(uri, k + 1, k + 1),
                  val |-> SubSeq(uri, k + 3, End(uri, k))]

LEMMA ParamsAre ==
    ASSUME NEW uri
    PROVE  Params(uri) = {Param(uri, k) : k \in {k \in DOMAIN uri : uri[k] = "&"}}
BY DEF Params, Param, End

LEMMA Ends1 ==
    ASSUME NEW uri \in Seq(UriCell), NEW k \in 1..Len(uri)
    PROVE  \E e : Ending(uri, k, e)
<1> DEFINE N == Len(uri)
           X == {e \in k..N : e = N \/ uri[e + 1] = "&"}
<1>1. N \in Nat /\ k \in 1..N
  OBVIOUS
<1>2. X \in SUBSET Nat /\ N \in X
  BY <1>1
<1>3. PICK e \in X : \A x \in X : e <= x
  <2> HIDE DEF X
  <2> QED
    BY <1>2, LeastOf
<1>4. ASSUME NEW j \in k + 1..e, uri[j] = "&" PROVE FALSE
  <2>1. j - 1 \in X
    BY <1>1, <1>4
  <2> HIDE DEF X
  <2>2. e <= j - 1
    BY <1>3, <2>1
  <2>3. e \in Nat
    BY <1>2
  <2> QED
    BY <1>1, <1>4, <2>2, <2>3
<1>5. Ending(uri, k, e)
  BY <1>3, <1>4 DEF Ending
<1> QED
  BY <1>5

LEMMA EndIs ==
    ASSUME NEW uri \in Seq(UriCell), NEW k \in 1..Len(uri), NEW e, Ending(uri, k, e)
    PROVE  End(uri, k) = e
<1> DEFINE x == End(uri, k)
           N == Len(uri)
<1>1. N \in Nat
  OBVIOUS
<1>2. Ending(uri, k, x)
  <2>1. /\ e \in k..Len(uri)
        /\ e = Len(uri) \/ uri[e + 1] = "&"
        /\ \A j \in k + 1..e : uri[j] # "&"
    BY DEF Ending
  <2> QED
    BY <2>1 DEF Ending, End
<1> HIDE DEF x
<1>3. ASSUME NEW a, NEW b, Ending(uri, k, a), Ending(uri, k, b) PROVE ~ (a < b)
  <2> SUFFICES ASSUME a < b PROVE FALSE
    OBVIOUS
  <2>1. a \in k..N /\ b \in k..N
    BY <1>3 DEF Ending
  <2>2. a + 1 \in k + 1..b /\ a # N
    BY <1>1, <2>1
  <2>3. uri[a + 1] = "&"
    BY <1>3, <2>2 DEF Ending
  <2> QED
    BY <1>3, <2>2, <2>3 DEF Ending
<1>4. ~ (x < e) /\ ~ (e < x)
  BY <1>2, <1>3
<1>5. x \in Nat /\ e \in Nat
  BY <1>1, <1>2 DEF Ending
<1>6. x = e
  BY <1>4, <1>5
<1> QED
  BY <1>6 DEF x

(* A string with another parameter at its end.                             *)
With(s, p, v) == (s \o <<"&", p, "=">>) \o v

LEMMA WithCells ==
    ASSUME NEW s \in Seq(UriCell), NEW p \in Name, NEW v \in Seq(Plain)
    PROVE  LET u == With(s, p, v)
               L == Len(s)
           IN  /\ u \in Seq(UriCell) /\ Len(u) = L + 3 + Len(v)
               /\ \A k \in 1..L : u[k] = s[k]
               /\ u[L + 1] = "&" /\ u[L + 2] = p /\ u[L + 3] = "="
               /\ \A k \in 1..Len(v) : u[L + 3 + k] = v[k]
<1> DEFINE t == <<"&", p, "=">>
           st == s \o t
           L == Len(s)
<1>1. t \in Seq(UriCell) /\ Len(t) = 3
  <2>1. "&" \in UriCell /\ p \in UriCell /\ "=" \in UriCell
    BY DEF UriCell
  <2> QED
    BY <2>1, Cells
<1>2. t[1] = "&" /\ t[2] = p /\ t[3] = "="
  OBVIOUS
<1>3. v \in Seq(UriCell) /\ Len(v) \in Nat /\ L \in Nat
  BY DEF UriCell
<1> HIDE DEF t
<1>4. /\ st \in Seq(UriCell) /\ Len(st) = L + 3
      /\ \A k \in 1..L : st[k] = s[k]
      /\ \A k \in 1..3 : st[L + k] = t[k]
  <2>1. /\ st \in Seq(UriCell) /\ Len(st) = L + Len(t)
        /\ \A k \in 1..L : st[k] = s[k]
        /\ \A k \in 1..Len(t) : st[L + k] = t[k]
    <3>1. t \in Seq(UriCell)
      BY <1>1
    <3> QED
      BY <3>1, Behind
  <2> HIDE DEF st
  <2> QED
    BY <1>1, <2>1
<1> HIDE DEF st
<1> DEFINE u == st \o v
<1>5. /\ u \in Seq(UriCell) /\ Len(u) = L + 3 + Len(v)
      /\ \A k \in 1..L + 3 : u[k] = st[k]
      /\ \A k \in 1..Len(v) : u[L + 3 + k] = v[k]
  <2>1. /\ u \in Seq(UriCell) /\ Len(u) = Len(st) + Len(v)
        /\ \A k \in 1..Len(st) : u[k] = st[k]
        /\ \A k \in 1..Len(v) : u[Len(st) + k] = v[k]
    <3>1. st \in Seq(UriCell) /\ v \in Seq(UriCell)
      BY <1>3, <1>4
    <3> QED
      BY <3>1, Behind
  <2> HIDE DEF u
  <2>2. Len(st) = L + 3
    BY <1>4
  <2> QED
    BY <2>1, <2>2
<1>6. With(s, p, v) = u
  BY DEF With, st, t
<1> HIDE DEF u
<1>7. \A k \in 1..L : u[k] = s[k]
  BY <1>3, <1>4, <1>5
<1>8. \A k \in 1..3 : u[L + k] = t[k]
  <2> SUFFICES ASSUME NEW k \in 1..3 PROVE u[L + k] = t[k]
    OBVIOUS
  <2>1. L + k \in 1..L + 3
    BY <1>3
  <2> QED
    BY <1>4, <1>5, <2>1
<1>9. u[L + 1] = "&" /\ u[L + 2] = p /\ u[L + 3] = "="
  BY <1>2, <1>8
<1> QED
  BY <1>5, <1>6, <1>7, <1>9

(* A string whose last cell begins no parameter.                           *)
Closed(s) == s \in Seq(UriCell) /\ Len(s) > 0 /\ s[Len(s)] # "&"

LEMMA ParamsWith ==
    ASSUME NEW s, Closed(s), NEW p \in Name, NEW v \in Seq(Plain)
    PROVE  /\ Closed(With(s, p, v))
           /\ Params(With(s, p, v))
                = Params(s) \cup {[at |-> Len(s) + 1, name |-> <<p>>, val |-> v]}
<1> DEFINE u == With(s, p, v)
           L == Len(s)
           N == Len(u)
           V == Len(v)
           at(r) == {k \in DOMAIN r : r[k] = "&"}
<1>1. s \in Seq(UriCell) /\ L \in Nat /\ L > 0 /\ s[L] # "&"
  BY DEF Closed
<1>2. /\ u \in Seq(UriCell) /\ N = L + 3 + V
      /\ \A k \in 1..L : u[k] = s[k]
      /\ u[L + 1] = "&" /\ u[L + 2] = p /\ u[L + 3] = "="
      /\ \A k \in 1..V : u[L + 3 + k] = v[k]
  BY <1>1, WithCells
<1>3. V \in Nat /\ \A k \in 1..V : v[k] \in UriCell \ {"&"}
  BY PlainCells DEF UriCell
<1>4. p # "&" /\ p \in UriCell
  BY DEF Name, UriCell
<1> HIDE DEF u, V
<1>5. \A k \in L + 2..N : u[k] # "&"
  <2> SUFFICES ASSUME NEW k \in L + 2..N PROVE u[k] # "&"
    OBVIOUS
  <2>1. CASE k \in {L + 2, L + 3}
    BY <1>2, <1>4, <2>1
  <2>2. CASE k \notin {L + 2, L + 3}
    <3>1. k - (L + 3) \in 1..V /\ k = L + 3 + (k - (L + 3))
      BY <1>1, <1>2, <1>3, <2>2
    <3> QED
      BY <1>2, <1>3, <3>1
  <2> QED
    BY <2>1, <2>2
<1>6. Closed(u)
  <2>1. N \in L + 2..N /\ N > 0
    BY <1>1, <1>2, <1>3
  <2> QED
    BY <1>2, <1>5, <2>1 DEF Closed
<1>7. at(u) = at(s) \cup {L + 1}
  <2>1. DOMAIN u = 1..N /\ DOMAIN s = 1..L
    BY <1>1, <1>2
  <2>2. ASSUME NEW k \in 1..N PROVE u[k] = "&" <=> (k \in 1..L /\ s[k] = "&") \/ k = L + 1
    <3>1. k \in 1..L \/ k = L + 1 \/ k \in L + 2..N
      BY <1>1, <1>2
    <3> QED
      BY <1>1, <1>2, <1>5, <3>1
  <2>3. 1..L \subseteq 1..N /\ L + 1 \in 1..N
    BY <1>1, <1>2, <1>3
  <2> HIDE DEF N, L
  <2> QED
    BY <2>1, <2>2, <2>3
<1>8. ASSUME NEW k \in at(s) PROVE Param(u, k) = Param(s, k)
  <2>1. k \in 1..L /\ s[k] = "&"
    BY <1>1
  <2>2. k < L
    BY <1>1, <2>1
  <2>3. PICK e : Ending(s, k, e)
    BY <1>1, <2>1, Ends1
  <2>4. e \in k..L /\ (e = L \/ s[e + 1] = "&") /\ \A j \in k + 1..e : s[j] # "&"
    BY <2>3 DEF Ending
  <2>5. Ending(u, k, e)
    <3>1. e \in k..N
      BY <1>1, <1>2, <1>3, <2>1, <2>4
    <3>2. u[e + 1] = "&"
      <4>1. CASE e = L
        BY <1>2, <4>1
      <4>2. CASE e # L
        <5>1. e + 1 \in 1..L
          BY <1>1, <2>1, <2>4, <4>2
        <5> QED
          BY <1>2, <2>4, <4>2, <5>1
      <4> QED
        BY <4>1, <4>2
    <3>3. \A j \in k + 1..e : u[j] # "&"
      <4> SUFFICES ASSUME NEW j \in k + 1..e PROVE u[j] # "&"
        OBVIOUS
      <4>1. j \in 1..L
        BY <1>1, <2>1, <2>4
      <4> QED
        BY <1>2, <2>4, <4>1
    <3> QED
      BY <3>1, <3>2, <3>3 DEF Ending
  <2>6. k \in 1..N
    BY <1>1, <1>2, <1>3, <2>1
  <2>7. End(s, k) = e /\ End(u, k) = e
    BY <1>1, <1>2, <2>1, <2>3, <2>5, <2>6, EndIs
  <2>8. e \in Nat /\ k + 1 \in Nat /\ k + 3 \in Nat /\ e <= L /\ k + 1 <= L /\ L <= N
    BY <1>1, <1>2, <1>3, <2>1, <2>2, <2>4
  <2>9. SubSeq(u, k + 1, k + 1) = SubSeq(s, k + 1, k + 1)
    <3> DEFINE from == k + 1
    <3>1. from \in Nat /\ from > 0 /\ from <= L /\ L <= N
      BY <2>1, <2>8
    <3> HIDE DEF from
    <3>2. SubSeq(u, from, from) = SubSeq(s, from, from)
      BY <1>1, <1>2, <3>1, SubSame
    <3> QED
      BY <3>2 DEF from
  <2>10. SubSeq(u, k + 3, e) = SubSeq(s, k + 3, e)
    <3> DEFINE from == k + 3
    <3>1. from \in Nat /\ from > 0 /\ e \in Nat /\ e <= L /\ L <= N
      BY <2>1, <2>8
    <3> HIDE DEF from
    <3>2. SubSeq(u, from, e) = SubSeq(s, from, e)
      BY <1>1, <1>2, <3>1, SubSame
    <3> QED
      BY <3>2 DEF from
  <2> QED
    BY <2>7, <2>9, <2>10 DEF Param
<1>9. Param(u, L + 1) = [at |-> L + 1, name |-> <<p>>, val |-> v]
  <2>1. L + 1 \in 1..N
    BY <1>1, <1>2, <1>3
  <2>2. Ending(u, L + 1, N)
    BY <1>5, <2>1 DEF Ending
  <2>3. End(u, L + 1) = N
    BY <1>2, <2>1, <2>2, EndIs
  <2>4. SubSeq(u, (L + 1) + 1, (L + 1) + 1) = <<p>>
    <3> DEFINE l == SubSeq(u, L + 2, L + 2)
               r == <<p>>
    <3>1. L + 2 \in Nat /\ L + 2 > 0 /\ L + 2 <= N /\ (L + 2) - (L + 2) + 1 = 1
      BY <1>1, <1>2, <1>3
    <3>2. l \in [1..1 -> UriCell] /\ \A k \in 1..1 : l[k] = u[(L + 2) + k - 1]
      BY <1>2, <3>1, SubCells
    <3>3. l[1] = p
      <4>1. (L + 2) + 1 - 1 = L + 2
        BY <1>1
      <4> QED
        BY <1>2, <3>2, <4>1
    <3>4. r \in [1..1 -> UriCell] /\ r[1] = p
      BY <1>4
    <3> HIDE DEF l, r
    <3>5. l = r
      BY <3>2, <3>3, <3>4, SameFun
    <3>6. (L + 1) + 1 = L + 2
      BY <1>1
    <3> QED
      BY <3>5, <3>6 DEF l, r
  <2>5. SubSeq(u, (L + 1) + 3, N) = v
    <3>1. L + 3 \in Nat /\ N = (L + 3) + V /\ (L + 3) + 1 = (L + 1) + 3
      BY <1>1, <1>2, <1>3
    <3>2. v \in Seq(UriCell)
      BY DEF UriCell
    <3>3. SubSeq(u, (L + 3) + 1, N) = v
      BY <1>2, <3>1, <3>2, SubLast DEF V
    <3> QED
      BY <3>1, <3>3
  <2> QED
    BY <2>3, <2>4, <2>5 DEF Param
<1>10. Params(u) = {Param(u, k) : k \in at(u)} /\ Params(s) = {Param(s, k) : k \in at(s)}
  BY ParamsAre
<1> HIDE DEF at
<1>11. Params(u) = Params(s) \cup {Param(u, L + 1)}
  BY <1>7, <1>8, <1>10
<1> QED
  BY <1>6, <1>9, <1>11 DEF u

-----------------------------------------------------------------------------
(* What a URI gives for each parameter, at most once.                      *)

Vals(s, name) == {p.val : p \in {p \in Params(s) : p.name = <<name>>}}

Unique(s) == \A p, q \in Params(s) : p.name = q.name => p = q

Uri(u, s, g) ==
    /\ Str(u, s) /\ Closed(s) /\ Unique(s)
    /\ g \in [Name -> SUBSET Seq(Plain)]
    /\ \A name \in Name : Vals(s, name) = g[name]

EncOf(val) == IF val = NULL THEN {} ELSE {Enc(val)}

Nothing == [name \in Name |-> {}]

LEMMA UriNew == Uri(kcn_uri_new(<<"base">>), <<"base">>, Nothing)
<1> DEFINE s == <<"base">>
<1>1. "base" \in UriCell /\ "base" # "&"
  BY DEF UriCell
<1>2. s \in Seq(UriCell) /\ Len(s) = 1 /\ s[1] = "base"
  BY <1>1, Cells
<1>3. Str(kcn_uri_new(s), s)
  BY StrNew
<1> HIDE DEF s
<1>4. {k \in DOMAIN s : s[k] = "&"} = {}
  BY <1>1, <1>2
<1>5. Params(s) = {}
  BY <1>4, ParamsAre
<1>6. Closed(s) /\ Unique(s) /\ \A name \in Name : Vals(s, name) = {}
  BY <1>1, <1>2, <1>5 DEF Closed, Unique, Vals
<1>7. Nothing \in [Name -> SUBSET Seq(Plain)] /\ \A name \in Name : Nothing[name] = {}
  BY DEF Nothing
<1>8. Uri(kcn_uri_new(s), s, Nothing)
  BY <1>3, <1>6, <1>7 DEF Uri
<1> QED
  BY <1>8 DEF s

LEMMA ValsWith ==
    ASSUME NEW s, Closed(s), Unique(s), NEW p \in Name, Vals(s, p) = {},
           NEW v \in Seq(Plain)
    PROVE  /\ Closed(With(s, p, v)) /\ Unique(With(s, p, v))
           /\ Vals(With(s, p, v), p) = {v}
           /\ \A name \in Name \ {p} : Vals(With(s, p, v), name) = Vals(s, name)
<1> DEFINE u == With(s, p, v)
           x == [at |-> Len(s) + 1, name |-> <<p>>, val |-> v]
<1>1. Closed(u) /\ Params(u) = Params(s) \cup {x}
  BY ParamsWith
<1>2. x.name = <<p>> /\ x.val = v
  OBVIOUS
<1>3. \A name \in Name : <<name>> = <<p>> => name = p
  OBVIOUS
<1>4. \A q \in Params(s) : q.name # <<p>>
  BY DEF Vals
<1> HIDE DEF u, x
<1>5. Unique(u)
  BY <1>1, <1>2, <1>4 DEF Unique
<1>6. Vals(u, p) = {v}
  BY <1>1, <1>2, <1>4 DEF Vals
<1>7. ASSUME NEW name \in Name \ {p} PROVE Vals(u, name) = Vals(s, name)
  BY <1>1, <1>2, <1>3 DEF Vals
<1> QED
  BY <1>1, <1>5, <1>6, <1>7 DEF u

(* kcn_uri_param_puts gives a parameter that has not been given.           *)
LEMMA UriPut ==
    ASSUME NEW u, NEW s, NEW g, Uri(u, s, g), NEW p \in Name, g[p] = {},
           NEW val, val = NULL \/ val \in Seq(Char)
    PROVE  \E r : /\ Uri(kcn_uri_param_puts(u, p, val), r, [g EXCEPT ![p] = EncOf(val)])
                  /\ Begins(r, s)
<1> DEFINE h == [g EXCEPT ![p] = EncOf(val)]
<1>1. /\ Str(u, s) /\ Closed(s) /\ Unique(s)
      /\ g \in [Name -> SUBSET Seq(Plain)]
      /\ \A name \in Name : Vals(s, name) = g[name]
      /\ s \in Seq(UriCell)
  BY DEF Uri, Str
<1>2. CASE val = NULL
  <2>1. kcn_uri_param_puts(u, p, val) = u /\ EncOf(val) = {}
    BY <1>2 DEF kcn_uri_param_puts, EncOf
  <2>2. h = g
    BY <1>1, <2>1
  <2>3. Begins(s, s)
    BY <1>1 DEF Begins
  <2> QED
    BY <2>1, <2>2, <2>3
<1>3. CASE val # NULL
  <2> DEFINE v == Enc(val)
             w == kcn_uri_param_puts(u, p, val)
  <2>1. val \in Seq(Char) /\ EncOf(val) = {v}
    BY <1>3 DEF EncOf
  <2>2. v \in Seq(Plain)
    BY <2>1, EncodedLength
  <2>3. Str(w, With(s, p, v))
    BY <1>1, <1>3, <2>1, ParamPut DEF With
  <2> HIDE DEF v, w
  <2>4. Vals(s, p) = {}
    BY <1>1
  <2>5. /\ Closed(With(s, p, v)) /\ Unique(With(s, p, v))
        /\ Vals(With(s, p, v), p) = {v}
        /\ \A name \in Name \ {p} : Vals(With(s, p, v), name) = Vals(s, name)
    BY <1>1, <2>2, <2>4, ValsWith
  <2>6. h \in [Name -> SUBSET Seq(Plain)] /\ h[p] = {v}
        /\ \A name \in Name \ {p} : h[name] = g[name]
    BY <1>1, <2>1, <2>2
  <2> HIDE DEF h
  <2>7. \A name \in Name : Vals(With(s, p, v), name) = h[name]
    BY <1>1, <2>5, <2>6
  <2>8. Uri(w, With(s, p, v), h)
    BY <2>3, <2>5, <2>6, <2>7 DEF Uri
  <2>9. Begins(With(s, p, v), s)
    <3> DEFINE r == With(s, p, v)
    <3>1. Len(r) = Len(s) + 3 + Len(v) /\ \A k \in 1..Len(s) : r[k] = s[k]
      BY <1>1, <2>2, WithCells
    <3> HIDE DEF r
    <3>2. Len(s) \in Nat /\ Len(v) \in Nat
      BY <1>1, <2>2
    <3>3. Begins(r, s)
      BY <3>1, <3>2 DEF Begins
    <3> QED
      BY <3>3 DEF r
  <2> QED
    BY <2>8, <2>9 DEF w, h
<1> QED
  BY <1>2, <1>3

(* A number is given as it is.                                             *)
LEMMA Numbers ==
    ASSUME NEW k \in 0..NLOCMAX
    PROVE  /\ Number(k) \in Seq(Char) /\ Number(k) # NULL
           /\ EncOf(Number(k)) = {Number(k)}
<1> DEFINE d == Digits(k)
           val == Number(k)
<1>1. d \in Char /\ kcn_uri_str_isnormal(d) /\ val # NULL /\ val = <<d>>
  BY DigitsAssumption DEF Number
<1> HIDE DEF d, val
<1>2. val \in Seq(Char) /\ Len(val) = 1 /\ val[1] = d
  BY <1>1, Cells
<1>3. PICK f : Encodes(f, val)
  BY <1>2, Encoded
<1>4. f[0] = << >> /\ f[1] = f[0] \o Encoding(d) /\ Enc(val) = f[1]
  <2>1. /\ f[0] = << >> /\ Enc(val) = f[Len(val)]
        /\ \A j \in 1..Len(val) : f[j] = f[j - 1] \o Encoding(val[j])
    BY <1>3 DEF Encodes
  <2>2. 1 \in 1..Len(val) /\ 1 - 1 = 0
    BY <1>2
  <2>3. f[1] = f[1 - 1] \o Encoding(val[1])
    BY <2>1, <2>2
  <2> QED
    BY <1>2, <2>1, <2>2, <2>3
<1>5. Encoding(d) = <<d>> /\ Encoding(d) \in Seq(Plain)
  BY <1>1, EncodingIs
<1>6. Enc(val) = val
  BY <1>1, <1>4, <1>5
<1> QED
  BY <1>1, <1>2, <1>6 DEF EncOf, val

(* The parameters of a search.                                             *)
Asked(k, keyv) ==
    [name \in Name |-> CASE name = "rsz" -> {Number(rcountmax(k))}
                         [] name = "gl" -> EncOf(k.country)
                         [] name = "userip" -> EncOf(k.userip)
                         [] name = "q" -> {Enc(keyv)}
                         [] name = "start" -> {}]

LEMMA GoogleUri ==
    ASSUME NEW k, rcountmax(k) \in 0..NLOCMAX,
           k.country = NULL \/ k.country \in Seq(Char),
           k.userip = NULL \/ k.userip \in Seq(Char),
           NEW keyv \in Seq(Char), keyv # NULL
    PROVE  \E s : Uri(kcn_google_uri(k, keyv), s, Asked(k, keyv))
<1> DEFINE c == Number(rcountmax(k))
           u0 == kcn_uri_new(<<"base">>)
           u1 == kcn_uri_param_puts(u0, "rsz", c)
           u2 == kcn_uri_param_puts(u1, "gl", k.country)
           u3 == kcn_uri_param_puts(u2, "userip", k.userip)
           u4 == kcn_uri_param_puts(u3, "q", keyv)
           g0 == Nothing
           g1 == [g0 EXCEPT !["rsz"] = EncOf(c)]
           g2 == [g1 EXCEPT !["gl"] = EncOf(k.country)]
           g3 == [g2 EXCEPT !["userip"] = EncOf(k.userip)]
           g4 == [g3 EXCEPT !["q"] = EncOf(keyv)]
<1>1. kcn_google_uri(k, keyv) = u4
  BY DEF kcn_google_uri
<1>2. c \in Seq(Char) /\ EncOf(c) = {c}
  BY Numbers
<1>3. EncOf(keyv) = {Enc(keyv)}
  BY DEF EncOf
<1>4. {"rsz", "gl", "userip", "q"} \subseteq Name
  BY DEF Name
<1>5. g0 = [name \in Name |-> {}]
  BY DEF Nothing
<1>6. g1["gl"] = {} /\ g2["userip"] = {} /\ g3["q"] = {} /\ g0["rsz"] = {}
  BY <1>4, <1>5
<1>7. g4 = Asked(k, keyv)
  BY <1>2, <1>3, <1>5 DEF Asked, Name
<1> HIDE DEF c, g0, g1, g2, g3, g4, u0, u1, u2, u3, u4
<1>8. PICK s0 : Uri(u0, s0, g0)
  BY UriNew DEF u0, g0
<1>9. PICK s1 : Uri(u1, s1, g1)
  BY <1>2, <1>4, <1>6, <1>8, UriPut DEF u1, g1
<1>10. PICK s2 : Uri(u2, s2, g2)
  BY <1>4, <1>6, <1>9, UriPut DEF u2, g2
<1>11. PICK s3 : Uri(u3, s3, g3)
  BY <1>4, <1>6, <1>10, UriPut DEF u3, g3
<1>12. PICK s4 : Uri(u4, s4, g4)
  BY <1>4, <1>6, <1>11, UriPut DEF u4, g4
<1> QED
  BY <1>1, <1>7, <1>12

(* The URI of the page from n on, which begins like that of all pages.     *)
LEMMA PageUri ==
    ASSUME NEW u, NEW s, NEW g, Uri(u, s, g), g["start"] = {}, NEW m \in 0..NLOCMAX
    PROVE  \E r : /\ Uri(kcn_google_page_uri(u, m), r,
                         [g EXCEPT !["start"] = IF m = 0 THEN {} ELSE {Number(m)}])
                  /\ Begins(r, s)
<1>1. "start" \in Name
  BY DEF Name
<1>2. CASE m = 0
  <2>1. kcn_google_page_uri(u, m) = u
    BY <1>2 DEF kcn_google_page_uri
  <2>2. [g EXCEPT !["start"] = {}] = g /\ s \in Seq(UriCell)
    BY <1>1 DEF Uri, Str
  <2>3. Begins(s, s)
    BY <2>2 DEF Begins
  <2> QED
    BY <1>2, <2>1, <2>2, <2>3
<1>3. CASE m # 0
  <2>1. kcn_google_page_uri(u, m) = kcn_uri_param_puts(u, "start", Number(m))
    BY <1>3 DEF kcn_google_page_uri
  <2>2. Number(m) \in Seq(Char) /\ EncOf(Number(m)) = {Number(m)}
    BY Numbers
  <2> DEFINE val == Number(m)
             h == [g EXCEPT !["start"] = EncOf(val)]
  <2>3. PICK r : Uri(kcn_uri_param_puts(u, "start", val), r, h) /\ Begins(r, s)
    BY <1>1, <2>2, UriPut
  <2>4. h = [g EXCEPT !["start"] = {Number(m)}]
    BY <2>2
  <2> QED
    BY <1>3, <2>1, <2>3, <2>4
<1> QED
  BY <1>2, <1>3

-----------------------------------------------------------------------------
(* The page that is asked for.                                             *)

LEMMA Valued ==
    ASSUME NEW r \in Seq(UriCell), Unique(r), NEW name, NEW other, NEW c \in 0..NLOCMAX,
           Vals(r, name) = {Number(c)}
    PROVE  ValueOr(r, name, other) = c
<1> DEFINE given == {p \in Params(r) : p.name = <<name>>}
           First(p) == p \in given /\ \A q \in given : p.at <= q.at
           first == CHOOSE p \in given : \A q \in given : p.at <= q.at
           Val(k) == Number(k) = first.val
           value == CHOOSE k \in 0..NLOCMAX : Number(k) = first.val
<1>1. Vals(r, name) = {p.val : p \in given}
  BY DEF Vals
<1>2. PICK p \in given : p.val = Number(c)
  BY <1>1
<1>3. \A q \in given : q = p
  BY <1>2 DEF Unique
<1>4. p.at \in Nat
  <2>1. PICK k \in DOMAIN r : p = Param(r, k)
    BY <1>2, ParamsAre
  <2>2. p.at = k
    BY <2>1 DEF Param
  <2> QED
    BY <2>1, <2>2
<1>5. first = p
  <2>1. p \in given /\ \A q \in given : p.at <= q.at
    BY <1>2, <1>3, <1>4
  <2> HIDE DEF given
  <2>2. first \in given
    BY <2>1
  <2> QED
    BY <1>3, <2>2
<1>6. ValueOr(r, name, other) = IF given = {} THEN other ELSE value
  BY DEF ValueOr, Given
<1> HIDE DEF given, first
<1>7. Number(c) = first.val
  BY <1>2, <1>5
<1>8. value \in 0..NLOCMAX /\ Number(value) = first.val
  BY <1>7
<1> HIDE DEF value
<1>9. Digits(value) = Digits(c)
  BY <1>7, <1>8 DEF Number
<1>10. value = c
  BY <1>8, <1>9, DigitsAssumption
<1> QED
  BY <1>2, <1>6, <1>10

LEMMA Unvalued ==
    ASSUME NEW r, NEW name, NEW other, Vals(r, name) = {}
    PROVE  ValueOr(r, name, other) = other
BY DEF Vals, ValueOr, Given

Gives(g, c, m) ==
    /\ c \in 0..NLOCMAX /\ m \in 0..NLOCMAX
    /\ g["rsz"] = {Number(c)} /\ g["start"] = IF m = 0 THEN {} ELSE {Number(m)}

LEMMA Served ==
    ASSUME NEW u, NEW r, NEW g, Uri(u, r, g), NEW c, NEW m, Gives(g, c, m), NEW locs
    PROVE  /\ CString(u.mem) = r
           /\ Page(r, locs) = FirstOf(SubSeq(locs, m + 1, Len(locs)), c)
<1>1. /\ Str(u, r) /\ Unique(r) /\ r \in Seq(UriCell)
      /\ Vals(r, "rsz") = g["rsz"] /\ Vals(r, "start") = g["start"]
  BY DEF Uri, Str, Name
<1>4. /\ c \in 0..NLOCMAX /\ m \in 0..NLOCMAX
      /\ g["rsz"] = {Number(c)} /\ g["start"] = IF m = 0 THEN {} ELSE {Number(m)}
  BY DEF Gives
<1>2. ValueOr(r, "rsz", RCOUNTMAX) = c
  BY <1>1, <1>4, Valued
<1>3. ValueOr(r, "start", 0) = m
  BY <1>1, <1>4, Valued, Unvalued
<1> QED
  BY <1>1, <1>2, <1>3, StrCut DEF Page

-----------------------------------------------------------------------------
(* The locators of all pages.                                              *)

Least(a, b) == IF a < b THEN a ELSE b

LEMMA Multiple ==
    ASSUME NEW j \in Nat, NEW c \in Nat, c > 0
    PROVE  j * c \in Nat /\ (j * c) % c = 0
<1> DEFINE x == j * c
           q == x \div c
           rest == x % c
<1>1. x \in Nat
  OBVIOUS
<1> HIDE DEF x
<1>2. q \in Int /\ rest \in 0..c - 1 /\ x = c * q + rest
  BY <1>1
<1> HIDE DEF q, rest
<1> DEFINE d == j - q
<1>3. d \in Int /\ d * c = rest
  <2>1. (j - q) * c = j * c - c * q
    BY <1>2
  <2> QED
    BY <1>2, <2>1 DEF x
<1> HIDE DEF d
<1>4. rest \in Int /\ 0 <= rest /\ rest < c
  BY <1>2
<1>5. d >= 1 => d * c >= c
  BY <1>3
<1>6. d <= -1 => d * c <= -c
  BY <1>3
<1>7. d = 0
  BY <1>3, <1>4, <1>5, <1>6
<1>8. rest = 0
  BY <1>3, <1>7
<1> QED
  BY <1>1, <1>8 DEF rest, x

LEMMA Firsts ==
    ASSUME NEW S, NEW locs \in Seq(S), NEW max \in Nat
    PROVE  LET l == FirstOf(locs, max)
               N == Least(Len(locs), max)
           IN  /\ N \in Nat /\ l \in [1..N -> S] /\ l \in Seq(S) /\ Len(l) = N
               /\ \A k \in 1..N : l[k] = locs[k]
<1> DEFINE N == Least(Len(locs), max)
           l == SubSeq(locs, 1, N)
           M == IF 1 <= N THEN N - 1 + 1 ELSE 0
<1>1. N \in Nat /\ N <= Len(locs) /\ M = N
  BY DEF Least
<1>2. FirstOf(locs, max) = l
  BY DEF FirstOf, Least
<1> HIDE DEF N
<1>3. /\ l \in [1..M -> S] /\ l \in Seq(S) /\ Len(l) = M
      /\ \A k \in 1..M : l[k] = locs[1 + k - 1]
  BY <1>1, SubCells
<1>4. \A k \in 1..N : 1 + k - 1 = k
  BY <1>1
<1> HIDE DEF M, l
<1> QED
  BY <1>1, <1>2, <1>3, <1>4 DEF N

LEMMA Counts ==
    ASSUME NEW N \in Nat, NEW m \in Nat, NEW max \in Nat, NEW c \in Nat, m < max
    PROVE  LET B == Least(N, m)
               R == IF m + 1 <= N THEN N - (m + 1) + 1 ELSE 0
               P == Least(R, c)
               T == Least(P, max - B)
           IN  /\ B + T = Least(N, Least(m + c, max)) /\ B + T <= max
               /\ (T > 0 => B = m) /\ T <= P /\ P <= R
<1>1. CASE N <= m
  BY <1>1 DEF Least
<1>2. CASE N > m
  BY <1>2 DEF Least
<1> QED
  BY <1>1, <1>2

(* The locators of a page that are taken follow those of the pages before. *)
LEMMA NextLocs ==
    ASSUME NEW S, NEW locs \in Seq(S), NEW max \in Nat, NEW m \in Nat, m < max,
           NEW c \in Nat
    PROVE  LET before == FirstOf(locs, m)
               page == FirstOf(SubSeq(locs, m + 1, Len(locs)), c)
               taken == FirstOf(page, max - Len(before))
           IN  /\ taken \in Seq(S) /\ Len(before) + Len(taken) <= max
               /\ before \o taken = FirstOf(locs, Least(m + c, max))
<1> DEFINE N == Len(locs)
           before == FirstOf(locs, m)
           B == Least(N, m)
           rest == SubSeq(locs, m + 1, N)
           R == IF m + 1 <= N THEN N - (m + 1) + 1 ELSE 0
           page == FirstOf(rest, c)
           P == Least(R, c)
           taken == FirstOf(page, max - B)
           T == Least(P, max - B)
           all == FirstOf(locs, Least(m + c, max))
           A == Least(N, Least(m + c, max))
<1>1. N \in Nat /\ m + 1 \in Nat /\ N <= Len(locs) /\ m + 1 > 0
      /\ B \in Nat /\ max - B \in Nat /\ Least(m + c, max) \in Nat
  BY DEF Least
<1>2. /\ before \in Seq(S) /\ Len(before) = B /\ \A k \in 1..B : before[k] = locs[k]
  BY Firsts
<1>3. /\ R \in Nat /\ rest \in Seq(S) /\ Len(rest) = R
      /\ \A k \in 1..R : rest[k] = locs[(m + 1) + k - 1]
  BY <1>1, SubCells
<1> HIDE DEF rest, R
<1>4. /\ page \in Seq(S) /\ Len(page) = P /\ P \in Nat
      /\ \A k \in 1..P : page[k] = rest[k]
  BY <1>3, Firsts
<1> HIDE DEF page
<1>5. /\ taken \in Seq(S) /\ Len(taken) = T /\ T \in Nat
      /\ \A k \in 1..T : taken[k] = page[k]
  BY <1>1, <1>4, Firsts
<1>6. /\ A \in Nat /\ all \in [1..A -> S] /\ \A k \in 1..A : all[k] = locs[k]
  BY <1>1, Firsts
<1>7. B + T = A /\ B + T <= max /\ (T > 0 => B = m) /\ T <= P /\ P <= R
  <2>1. N \in Nat
    BY <1>1
  <2> HIDE DEF N
  <2>2. /\ B + T = Least(N, Least(m + c, max)) /\ B + T <= max
        /\ (T > 0 => B = m) /\ T <= P /\ P <= R
    BY <2>1, Counts DEF R
  <2> QED
    BY <2>2
<1> HIDE DEF before, taken, all, A, B, T, P
<1>8. \A k \in 1..T : taken[k] = locs[B + k]
  <2> SUFFICES ASSUME NEW k \in 1..T PROVE taken[k] = locs[B + k]
    OBVIOUS
  <2>1. k \in 1..P /\ k \in 1..R /\ B = m
    BY <1>3, <1>4, <1>5, <1>7
  <2>2. taken[k] = locs[(m + 1) + k - 1]
    BY <1>3, <1>4, <1>5, <2>1
  <2>3. (m + 1) + k - 1 = B + k
    BY <2>1
  <2> QED
    BY <2>2, <2>3
<1> DEFINE both == before \o taken
<1>9. /\ both \in Seq(S) /\ Len(both) = B + T
      /\ \A k \in 1..B : both[k] = before[k]
      /\ \A k \in 1..T : both[B + k] = taken[k]
  <2>1. /\ both \in Seq(S) /\ Len(both) = Len(before) + Len(taken)
        /\ \A k \in 1..Len(before) : both[k] = before[k]
        /\ \A k \in 1..Len(taken) : both[Len(before) + k] = taken[k]
    <3>1. before \in Seq(S) /\ taken \in Seq(S)
      BY <1>2, <1>5
    <3> QED
      BY <3>1, Behind
  <2> HIDE DEF both
  <2> QED
    BY <1>2, <1>5, <2>1
<1> HIDE DEF both
<1>10. \A k \in 1..A : both[k] = all[k]
  <2> SUFFICES ASSUME NEW k \in 1..A PROVE both[k] = all[k]
    OBVIOUS
  <2>1. CASE k <= B
    BY <1>1, <1>2, <1>6, <1>9, <2>1
  <2>2. CASE k > B
    <3>1. k - B \in 1..T /\ B + (k - B) = k
      BY <1>1, <1>5, <1>7, <2>2
    <3>2. both[B + (k - B)] = taken[k - B] /\ taken[k - B] = locs[B + (k - B)]
      BY <1>8, <1>9, <3>1
    <3> QED
      BY <1>6, <3>1, <3>2
  <2> QED
    BY <1>1, <2>1, <2>2
<1>11. both \in [1..A -> S]
  BY <1>7, <1>9
<1>12. both = all
  BY <1>6, <1>10, <1>11, SameFun
<1> QED
  BY <1>2, <1>5, <1>7, <1>12 DEF before, taken, page, rest, all, both

-----------------------------------------------------------------------------
(* What a search finds.                                                    *)

LEMMA Keys ==
    ASSUME argv \in Jobs
    PROVE  keys \in Seq(Char) /\ keys # NULL
<1> DEFINE kv == argv.keyv
           N == Len(kv)
           ss == [k \in DOMAIN kv |-> IF k = 1 THEN kv[k] ELSE <<" ">> \o kv[k]]
<1>1. kv \in Seq(Seq(Char)) /\ kcn_key_concat(kv) # NULL
  BY Key2locAssumption
<1>2. keys = kcn_key_concat(kv) /\ kcn_key_concat(kv) = FlattenSeq(ss)
  BY DEF keys, kcn_key_concat
<1> HIDE DEF kv
<1>3. DOMAIN kv = 1..N /\ N \in Nat
  BY <1>1
<1>4. ASSUME NEW k \in 1..N PROVE kv[k] \in Seq(Char) /\ <<" ">> \o kv[k] \in Seq(Char)
  <2>1. kv[k] \in Seq(Char)
    BY <1>1, <1>3
  <2>2. " " \in Char
    BY UriAssumption
  <2>3. <<" ">> \in Seq(Char)
    BY <2>2, Cells
  <2> QED
    BY <2>1, <2>3, Behind
<1>5. ss \in [1..N -> Seq(Char)]
  BY <1>3, <1>4
<1>6. CASE N = 0
  <2>1. ss = << >>
    BY <1>3, <1>6
  <2>2. FlattenSeq(<< >>) = << >>
    BY DEF FlattenSeq
  <2>3. << >> \in Seq(Char)
    OBVIOUS
  <2> QED
    BY <1>1, <1>2, <2>1, <2>2, <2>3
<1>7. CASE N # 0
  <2>1. N \in Nat \ {0}
    BY <1>3, <1>7
  <2> HIDE DEF ss, N
  <2>2. PICK f \in [0..N -> Seq(Char)] :
           /\ f[0] = << >> /\ \A k \in 1..N : f[k] = f[k - 1] \o ss[k]
           /\ FlattenSeq(ss) = f[N]
    BY <1>5, <2>1, Flatten
  <2>3. f[N] \in Seq(Char)
    BY <2>1
  <2> QED
    BY <1>1, <1>2, <2>2, <2>3
<1> QED
  BY <1>6, <1>7

(* What is given to the service besides the keywords.                      *)
Texts(k) ==
    /\ k.country = Country /\ k.userip = Userip
    /\ k.country = NULL \/ k.country \in Seq(Char)
    /\ k.userip = NULL \/ k.userip \in Seq(Char)

(* What a search has found that returned.                                  *)
Found ==
    IF query = << >>
    THEN ki.locs = FirstOf(found, argv.n) /\ ki.locs # << >>
    ELSE ki.locs \in {<< >>, FirstOf(Matches[query[1].when], argv.n % UINT8)}

(* The pages that have been taken are the first locators.                  *)
Pages ==
    /\ query = << >>
    /\ \E s : Uri(ku, s, Asked(ki, keys)) /\ uriolen = Len(s)
    /\ ki.locs = FirstOf(found, Least(n, argv.n))
    /\ n > 0 => ki.locs # << >>
    /\ requests \in Seq(Seq(UriCell))
    /\ n = Len(requests) * rcountmax(ki)

Sent ==
    /\ Len(query) = 1 /\ query[1].when \in Interval
    /\ query[1].maxcount = argv.n % UINT8
    /\ ki.locs = << >>

Fits ==
    /\ found \in Seq(Loc)
    /\ ki.locs \in Seq(Loc) /\ ki.maxnlocs \in Nat /\ Len(ki.locs) <= ki.maxnlocs
    /\ uriolen \in 1..ku.len
    /\ Len(query) <= 1

LocInv ==
    /\ Progress
    /\ Fits
    /\ pc = "main" => query = << >> /\ requests = << >> /\ ki.locs = << >>
    /\ pc \in {"doit", "net", "google"} => Texts(ki)
    /\ pc = "google" => Pages
    /\ pc = "net" => Sent
    /\ pc = "doit" => IF i = 0 THEN ki.locs = << >> ELSE Found
    /\ pc # "done" => printed = << >> /\ result = "none"
    /\ result \in {"none", "ok", "usage", "abort", "failure"}
    /\ OnlyBadUseAborts
    /\ LocatorsExact

LEMMA Wanted ==
    ASSUME LocInv, pc \in {"doit", "net", "google"}
    PROVE  /\ ki.maxnlocs = argv.n /\ argv.n \in 1..NLOCMAX /\ NLOCMAX \in Nat
           /\ rcountmax(ki) \in 1..NLOCMAX /\ rcountmax(ki) <= argv.n
           /\ keys \in Seq(Char) /\ keys # NULL
           /\ i \in Nat /\ argv.r \in Nat /\ i <= argv.r
           /\ IsInfo(ki) /\ ki.locs \in Seq(Loc) /\ found \in Seq(Loc) /\ Texts(ki)
<1>1. Progress /\ argv \in Jobs /\ ki.maxnlocs = argv.n /\ argv.n > 0 /\ IsInfo(ki)
  BY DEF LocInv, Progress
<1>2. argv.n \in 0..NLOCMAX /\ NLOCMAX \in Nat
  BY <1>1, Key2locAssumption, DigitsAssumption
<1>3. RCOUNTMAX \in Nat /\ RCOUNTMAX > 1 /\ i \in Nat /\ argv.r \in Nat /\ i <= argv.r
  BY <1>1, Constants
<1>4. rcountmax(ki) \in 1..NLOCMAX /\ rcountmax(ki) <= argv.n
  BY <1>1, <1>2, <1>3 DEF rcountmax
<1>5. keys \in Seq(Char) /\ keys # NULL
  BY <1>1, Keys
<1>6. ki.locs \in Seq(Loc) /\ found \in Seq(Loc) /\ Texts(ki)
  BY DEF LocInv, Fits
<1> QED
  BY <1>1, <1>2, <1>3, <1>4, <1>5, <1>6

(* The next page is asked for and what it has fits.                        *)
LEMMA NextPageIs ==
    ASSUME LocInv, pc = "google", n < ki.maxnlocs
    PROVE  LET c == rcountmax(ki)
               more == kcn_google_page_uri(ku, n)
               uri == CString(more.mem)
               taken == Taken(ki, Page(uri, found))
           IN  /\ \E s, r :
                    /\ Uri(ku, s, Asked(ki, keys)) /\ uriolen = Len(s)
                    /\ Uri(more, r, [Asked(ki, keys) EXCEPT
                                        !["start"] = IF n = 0 THEN {} ELSE {Number(n)}])
                    /\ Begins(r, s) /\ uri = r
               /\ taken \in Seq(Loc)
               /\ Len(ki.locs) < ki.maxnlocs
               /\ Len(ki.locs) + Len(taken) <= ki.maxnlocs
               /\ ki.locs \o taken = FirstOf(found, Least(n + c, argv.n))
<1> DEFINE c == rcountmax(ki)
           more == kcn_google_page_uri(ku, n)
           uri == CString(more.mem)
           g == Asked(ki, keys)
           h == [g EXCEPT !["start"] = IF n = 0 THEN {} ELSE {Number(n)}]
<1>1. /\ ki.maxnlocs = argv.n /\ argv.n \in 1..NLOCMAX /\ NLOCMAX \in Nat
      /\ c \in 1..NLOCMAX /\ found \in Seq(Loc)
  BY Wanted
<1>2. n \in 0..NLOCMAX /\ n < argv.n
  BY <1>1 DEF LocInv, Progress
<1>3. PICK s : Uri(ku, s, g) /\ uriolen = Len(s)
  BY DEF LocInv, Pages
<1>4. g["start"] = {} /\ g["rsz"] = {Number(c)} /\ DOMAIN g = Name
      /\ {"start", "rsz"} \subseteq Name
  BY DEF Asked, Name
<1> HIDE DEF g, more
<1>5. PICK r : Uri(more, r, h) /\ Begins(r, s)
  BY <1>2, <1>3, <1>4, PageUri DEF more
<1>6. h["rsz"] = {Number(c)} /\ h["start"] = IF n = 0 THEN {} ELSE {Number(n)}
  BY <1>4
<1> HIDE DEF h, c
<1>7. /\ uri = r
      /\ Page(r, found) = FirstOf(SubSeq(found, n + 1, Len(found)), c)
  <2>1. c \in 0..NLOCMAX /\ n \in 0..NLOCMAX
    BY <1>1, <1>2
  <2>2. Uri(more, r, h)
    BY <1>5
  <2>3. Gives(h, c, n)
    BY <1>6, <2>1 DEF Gives
  <2>5. /\ CString(more.mem) = r
        /\ Page(r, found) = FirstOf(SubSeq(found, n + 1, Len(found)), c)
    BY <2>2, <2>3, Served
  <2> QED
    BY <2>5
<1> HIDE DEF uri
<1>8. ki.locs = FirstOf(found, n)
  BY <1>1, <1>2 DEF LocInv, Pages, Least
<1> DEFINE before == FirstOf(found, n)
           page == FirstOf(SubSeq(found, n + 1, Len(found)), c)
           taken == FirstOf(page, argv.n - Len(before))
<1>9. /\ taken \in Seq(Loc) /\ Len(before) + Len(taken) <= argv.n
      /\ before \o taken = FirstOf(found, Least(n + c, argv.n))
  <2> DEFINE max == argv.n
  <2>1. max \in Nat /\ n \in Nat /\ c \in Nat /\ n < max
    BY <1>1, <1>2
  <2>2. found \in Seq(Loc)
    BY <1>1
  <2> HIDE DEF max
  <2>3. LET first == FirstOf(found, n)
            next == FirstOf(FirstOf(SubSeq(found, n + 1, Len(found)), c), max - Len(first))
        IN  /\ next \in Seq(Loc) /\ Len(first) + Len(next) <= max
            /\ first \o next = FirstOf(found, Least(n + c, max))
    BY <2>1, <2>2, NextLocs
  <2> QED
    BY <2>3 DEF max
<1>10. Len(before) < argv.n
  <2>1. n \in Nat
    BY <1>2
  <2>3. found \in Seq(Loc)
    BY <1>1
  <2>4. Len(before) = Least(Len(found), n)
    BY <2>1, <2>3, Firsts
  <2>2. Len(before) = Least(Len(found), n) /\ Len(found) \in Nat
    BY <2>3, <2>4
  <2> HIDE DEF before
  <2> QED
    BY <1>1, <1>2, <2>2 DEF Least
<1>11. Taken(ki, Page(uri, found)) = taken
  BY <1>1, <1>7, <1>8 DEF Taken, kcn_info_nlocs
<1> HIDE DEF before, page, taken
<1> QED
  BY <1>1, <1>3, <1>5, <1>7, <1>8, <1>9, <1>10, <1>11 DEF before, c, g, h, more, uri

-----------------------------------------------------------------------------
(* The steps of the program, one by one.                                   *)

LEMMA Stops ==
    ASSUME Progress', Fits', pc' = "done", printed' = << >>,
           \/ result' \in {"usage", "failure"}
           \/ result' = "abort" /\ ~ Asserted' /\ requests' = << >> /\ query' = << >>
    PROVE  LocInv'
BY DEF LocInv, OnlyBadUseAborts, LocatorsExact

LEMMA Returns ==
    ASSUME Progress', Fits', pc' = "doit", i' # 0, Texts(ki)', Found',
           printed' = << >>, result' = "none"
    PROVE  LocInv'
BY DEF LocInv, OnlyBadUseAborts, LocatorsExact

LEMMA MainLocs ==
    ASSUME LocInv, Progress', Main
    PROVE  LocInv'
<1>1. /\ pc = "main" /\ query = << >> /\ requests = << >> /\ ki.locs = << >>
      /\ printed = << >> /\ result = "none" /\ Fits /\ i = 0 /\ argv \in Jobs
  BY DEF Main, LocInv, Progress
<1>2. UNCHANGED <<argv, i, found, ku, uriolen, n, requests, query, errno, printed>>
  BY DEF Main, google
<1>3. Asserted' = Asserted
  BY <1>2 DEF Asserted
<1>4. CASE Exit("usage") /\ UNCHANGED ki
  <2>1. Fits'
    BY <1>1, <1>2, <1>4 DEF Fits
  <2> QED
    BY <1>1, <1>2, <1>4, <2>1, Stops DEF Exit, Goto
<1>5. CASE ~ Asserted /\ Exit("abort") /\ UNCHANGED ki
  <2>1. Fits'
    BY <1>1, <1>2, <1>5 DEF Fits
  <2>2. pc' = "done" /\ result' = "abort" /\ ~ Asserted' /\ requests' = << >>
        /\ query' = << >> /\ printed' = << >>
    BY <1>1, <1>2, <1>3, <1>5 DEF Exit, Goto
  <2> QED
    BY <2>1, <2>2, Stops
<1>6. CASE /\ ki' = kcn_info_new(argv.n, argv.db, Country, Userip)
           /\ Goto("doit") /\ UNCHANGED result
  <2>1. /\ ki'.maxnlocs = argv.n /\ ki'.locs = << >>
        /\ ki'.country = Country /\ ki'.userip = Userip
    BY <1>6, InfoNew
  <2>2. argv.n \in Nat
    BY <1>1, Key2locAssumption, DigitsAssumption
  <2>3. Fits'
    <3>1. ki'.locs \in Seq(Loc) /\ ki'.maxnlocs \in Nat /\ Len(ki'.locs) <= ki'.maxnlocs
      BY <2>1, <2>2
    <3> QED
      BY <1>1, <1>2, <3>1 DEF Fits
  <2>4. Texts(ki)'
    <3>1. argv.country = NULL \/ argv.country \in Seq(Char)
      BY <1>1, Key2locAssumption
    <3>2. argv.userip = NULL \/ argv.userip \in Seq(Char)
      BY <1>1, Key2locAssumption
    <3>3. argv.country # NULL => FirstOf(argv.country, 2) \in Seq(Char)
      BY <3>1, Firsts
    <3>4. /\ Country = NULL \/ Country \in Seq(Char)
          /\ Userip = NULL \/ Userip \in Seq(Char)
      BY <3>2, <3>3 DEF Country, Userip
    <3>5. Country' = Country /\ Userip' = Userip
      BY <1>2 DEF Country, Userip
    <3> QED
      BY <2>1, <3>4, <3>5 DEF Texts
  <2>5. pc' = "doit" /\ result' = "none" /\ printed' = << >> /\ i' = 0
    BY <1>1, <1>2, <1>6 DEF Goto
  <2> QED
    BY <2>1, <2>3, <2>4, <2>5 DEF LocInv, OnlyBadUseAborts, LocatorsExact
<1> QED
  BY <1>4, <1>5, <1>6 DEF Main

LEMMA SearchLocs ==
    ASSUME LocInv, Progress', Search
    PROVE  LocInv'
<1>1. /\ pc = "doit" /\ i < argv.r /\ Fits /\ printed = << >> /\ result = "none"
      /\ argv' = argv /\ printed' = printed /\ found' \in Worlds
      /\ ki' = kcn_info_loc_free(ki) /\ requests' = << >>
  BY DEF Search, LocInv
<1>2. /\ ki.maxnlocs = argv.n /\ argv.n \in 1..NLOCMAX /\ NLOCMAX \in Nat
      /\ rcountmax(ki) \in 1..NLOCMAX
      /\ keys \in Seq(Char) /\ keys # NULL /\ IsInfo(ki) /\ Texts(ki)
  BY <1>1, Wanted
<1>3. /\ ki'.maxnlocs = ki.maxnlocs /\ ki'.locs = << >>
      /\ ki'.country = ki.country /\ ki'.userip = ki.userip
  BY <1>1, <1>2, InfoFree
<1>4. Texts(ki)'
  BY <1>1, <1>2, <1>3 DEF Texts, Country, Userip
<1>5. /\ found' \in Seq(Loc) /\ ki'.locs \in Seq(Loc) /\ ki'.maxnlocs \in Nat
      /\ Len(ki'.locs) <= ki'.maxnlocs
  <2>1. found' \in Seq(Loc)
    BY <1>1, Key2locAssumption
  <2>2. Len(<< >>) = 0 /\ << >> \in Seq(Loc) /\ ki.maxnlocs \in Nat
    BY <1>2
  <2> QED
    BY <1>3, <2>1, <2>2
<1>6. CASE /\ ku' = kcn_google_uri(ki, keys) /\ uriolen' = ku'.len /\ n' = 0
           /\ query' = << >> /\ Goto("google") /\ UNCHANGED <<i, errno, result>>
  <2>1. keys' = keys /\ Asked(ki, keys)' = Asked(ki, keys) /\ rcountmax(ki)' = rcountmax(ki)
    BY <1>1, <1>3 DEF keys, Asked, rcountmax
  <2>2. PICK s : Uri(ku', s, Asked(ki, keys))
    <3>1. rcountmax(ki) \in 0..NLOCMAX
      BY <1>2
    <3> QED
      BY <1>2, <1>6, <3>1, GoogleUri DEF Texts
  <2>3. ku'.len = Len(s) /\ Len(s) \in Nat /\ Len(s) > 0
    BY <2>2 DEF Uri, Str, Closed
  <2>4. Fits'
    <3>1. uriolen' \in 1..ku'.len /\ Len(query') <= 1
      BY <1>6, <2>3
    <3> QED
      BY <1>5, <3>1 DEF Fits
  <2>5. FirstOf(found', Least(0, argv.n)) = << >>
    <3> DEFINE l == FirstOf(found', 0)
    <3>1. l \in Seq(Loc) /\ Len(l) = 0
      <4>1. 0 \in Nat /\ found' \in Seq(Loc) /\ Len(found') \in Nat
        BY <1>5
      <4>2. l \in Seq(Loc) /\ Len(l) = Least(Len(found'), 0)
        BY <4>1, Firsts
      <4> QED
        BY <4>1, <4>2 DEF Least
    <3>2. Least(0, argv.n) = 0
      BY <1>2 DEF Least
    <3> HIDE DEF l
    <3>3. l = << >>
      BY <3>1
    <3> QED
      BY <3>2, <3>3 DEF l
  <2>6. Pages'
    <3>1. \E t : Uri(ku, t, Asked(ki, keys))' /\ uriolen' = Len(t)
      BY <1>6, <2>1, <2>2, <2>3 DEF Uri, Str, Closed, Unique, Vals
    <3>2. ki'.locs = FirstOf(found', Least(n', argv'.n))
      BY <1>1, <1>3, <1>6, <2>5
    <3>3. requests' \in Seq(Seq(UriCell)) /\ Len(requests') = 0
      BY <1>1
    <3>4. 0 * rcountmax(ki) = 0
      BY <1>2
    <3> QED
      BY <1>6, <2>1, <3>1, <3>2, <3>3, <3>4 DEF Pages
  <2>7. pc' = "google" /\ result' = "none" /\ printed' = << >>
    BY <1>1, <1>6 DEF Goto
  <2> QED
    BY <1>4, <2>4, <2>6, <2>7 DEF LocInv, OnlyBadUseAborts, LocatorsExact
<1>7. CASE /\ \E error : SearchFails(error)
           /\ UNCHANGED <<query, ku, uriolen>>
  <2>1. Fits'
    BY <1>1, <1>5, <1>7 DEF Fits
  <2> QED
    BY <1>1, <1>7, <2>1, Stops DEF SearchFails, Exit, Goto
<1>8. CASE /\ \E kmq \in Queries(kcn_key_split(keys), ki.maxnlocs) : query' = <<kmq>>
           /\ Goto("net") /\ UNCHANGED <<i, result, ku, uriolen>>
  <2> DEFINE keyv == kcn_key_split(keys)
  <2>1. PICK kmq \in Queries(keyv, ki.maxnlocs) : query' = <<kmq>>
    BY <1>8
  <2> HIDE DEF keyv
  <2>2. kmq.when \in Interval /\ kmq.maxcount = argv.n % UINT8
    <3>1. PICK when \in Intervals(keyv) :
            kmq = [eq |-> SubSeq(keyv, 1, 3), when |-> when, maxcount |-> ki.maxnlocs % UINT8]
      BY <2>1 DEF Queries
    <3>2. when \in Interval
      BY Key2locAssumption DEF Intervals
    <3>3. kmq.when = when /\ kmq.maxcount = ki.maxnlocs % UINT8
      BY <3>1
    <3> QED
      BY <1>2, <3>2, <3>3
  <2>3. Len(query') = 1 /\ query'[1] = kmq
    BY <2>1
  <2>4. Sent'
    BY <1>1, <1>3, <2>2, <2>3 DEF Sent
  <2>5. Fits'
    BY <1>1, <1>5, <1>8, <2>3 DEF Fits
  <2>6. pc' = "net" /\ result' = "none" /\ printed' = << >>
    BY <1>1, <1>8 DEF Goto
  <2> QED
    BY <1>4, <2>4, <2>5, <2>6 DEF LocInv, OnlyBadUseAborts, LocatorsExact
<1> QED
  BY <1>6, <1>7, <1>8 DEF Search

(* What is left of a number in a narrower field.                           *)
LEMMA Remainder ==
    ASSUME NEW x \in Nat, NEW c \in Nat \ {0}
    PROVE  x % c \in Nat /\ x % c <= x
<1>1. x % c \in 0..c - 1
  OBVIOUS
<1>2. CASE x < c
  BY <1>2
<1>3. CASE x >= c
  BY <1>1, <1>3
<1> QED
  BY <1>1, <1>2, <1>3

LEMMA Parts ==
    ASSUME NEW S, NEW s \in Seq(S), NEW k \in 0..Len(s)
    PROVE  /\ SubSeq(s, 1, k) \in Seq(S) /\ Len(SubSeq(s, 1, k)) = k
           /\ << >> \o SubSeq(s, 1, k) = SubSeq(s, 1, k)
<1>1. k \in Nat /\ Least(Len(s), k) = k
  BY DEF Least
<1>2. FirstOf(s, k) = SubSeq(s, 1, k)
  BY <1>1 DEF FirstOf, Least
<1>3. FirstOf(s, k) \in Seq(S) /\ Len(FirstOf(s, k)) = k
  BY <1>1, Firsts
<1> DEFINE l == SubSeq(s, 1, k)
<1>4. l \in Seq(S) /\ Len(l) = k
  BY <1>2, <1>3
<1> HIDE DEF l
<1>5. << >> \o l = l
  BY <1>4
<1> QED
  BY <1>4, <1>5 DEF l

LEMMA NetLocs ==
    ASSUME LocInv, Progress', NetSearch
    PROVE  LocInv'
<1> DEFINE all == FirstOf(Matches[query[1].when], query[1].maxcount)
           most == argv.n % UINT8
<1>1. /\ pc = "net" /\ Fits /\ Sent /\ printed = << >> /\ result = "none"
      /\ UNCHANGED <<argv, found, ku, uriolen, n, requests, query, printed>>
  BY DEF NetSearch, LocInv, google
<1>2. /\ ki.maxnlocs = argv.n /\ argv.n \in 1..NLOCMAX /\ NLOCMAX \in Nat
      /\ i \in Nat /\ IsInfo(ki) /\ Texts(ki)
  BY <1>1, Wanted
<1>3. most \in Nat /\ most <= argv.n
  <2>1. argv.n \in Nat /\ UINT8 \in Nat \ {0}
    BY <1>2, Key2locAssumption
  <2> QED
    BY <2>1, Remainder
<1>4. /\ Len(query) = 1 /\ query[1].when \in Interval
      /\ query[1].maxcount = most /\ ki.locs = << >>
  BY <1>1 DEF Sent
<1>5. Matches[query[1].when] \in Seq(Loc)
  BY <1>4, Key2locAssumption
<1>6. all \in Seq(Loc) /\ Len(all) \in Nat /\ Len(all) <= argv.n
      /\ all = FirstOf(Matches[query[1].when], most)
  <2> DEFINE m == Matches[query[1].when]
  <2>1. m \in Seq(Loc) /\ most \in Nat
    BY <1>3, <1>5
  <2> HIDE DEF m, most
  <2>2. FirstOf(m, most) \in Seq(Loc) /\ Len(FirstOf(m, most)) = Least(Len(m), most)
    BY <2>1, Firsts
  <2>3. Least(Len(m), most) <= most /\ Least(Len(m), most) \in Nat
    BY <2>1 DEF Least
  <2> QED
    BY <1>2, <1>3, <1>4, <2>2, <2>3 DEF m
<1> HIDE DEF all, most
<1>7. PICK k \in 0..Len(all) :
         /\ ki' = kcn_info_loc_add(ki, SubSeq(all, 1, k))
         /\ \/ Outcome("0", SubSeq(all, 1, k), all) /\ SearchReturns
            \/ \E error \in NetErrno : SearchFails(error)
  BY DEF NetSearch, all
<1> DEFINE l == SubSeq(all, 1, k)
<1>8. l \in Seq(Loc) /\ Len(l) = k /\ << >> \o l = l
  BY <1>6, Parts
<1>9. ki' = kcn_info_loc_add(ki, l)
  BY <1>7
<1>10. /\ SearchReturns => l \in {<< >>, all}
       /\ SearchReturns \/ \E error \in NetErrno : SearchFails(error)
  <2>1. SearchReturns \/ ~ SearchReturns
    OBVIOUS
  <2>2. SearchReturns => i' = i + 1
    BY DEF SearchReturns
  <2>3. \A error : SearchFails(error) => i' = i
    BY DEF SearchFails
  <2>4. Outcome("0", l, all) => l \in {<< >>, all}
    BY DEF Outcome
  <2> QED
    BY <1>2, <1>7, <2>2, <2>3, <2>4
<1> HIDE DEF l
<1>11. /\ ki'.maxnlocs = ki.maxnlocs /\ ki'.country = ki.country
       /\ ki'.userip = ki.userip /\ ki'.locs = ki.locs \o l
  BY <1>2, <1>9, InfoAdd
<1>12. ki'.locs = l
  BY <1>4, <1>8, <1>11
<1>13. Texts(ki)'
  BY <1>1, <1>2, <1>11 DEF Texts, Country, Userip
<1>14. Fits'
  <2>1. Len(l) <= argv.n
    BY <1>2, <1>6, <1>7, <1>8
  <2>2. ki'.locs \in Seq(Loc) /\ ki'.maxnlocs \in Nat /\ Len(ki'.locs) <= ki'.maxnlocs
    BY <1>2, <1>8, <1>11, <1>12, <2>1
  <2> QED
    BY <1>1, <2>2 DEF Fits
<1>15. CASE SearchReturns
  <2>1. Found'
    <3>1. query' = query /\ query # << >> /\ argv' = argv
      BY <1>1, <1>4
    <3>2. l \in {<< >>, FirstOf(Matches[query[1].when], argv.n % UINT8)}
      BY <1>6, <1>10, <1>15 DEF most
    <3> QED
      BY <1>12, <3>1, <3>2 DEF Found
  <2>2. pc' = "doit" /\ i' # 0 /\ printed' = << >> /\ result' = "none"
    BY <1>1, <1>2, <1>15 DEF SearchReturns, Goto
  <2> QED
    BY <1>13, <1>14, <2>1, <2>2, Returns
<1>16. CASE \E error \in NetErrno : SearchFails(error)
  <2>1. pc' = "done" /\ printed' = << >> /\ result' = "failure"
    BY <1>1, <1>16 DEF SearchFails, Exit, Goto
  <2> QED
    BY <1>14, <2>1, Stops
<1> QED
  BY <1>10, <1>15, <1>16

(* A page after which there is no more: the locators are those of the Web. *)
LEMMA LastPage ==
    ASSUME NEW S, NEW s \in Seq(S), NEW j \in Nat, NEW c \in Nat, c > 0,
           NEW max \in Nat,
           Len(FirstOf(s, Least(j * c, max))) % c # 0
    PROVE  FirstOf(s, Least(j * c, max)) = FirstOf(s, max)
<1> DEFINE m == j * c
           N == Len(s)
<1>1. m \in Nat /\ m % c = 0 /\ N \in Nat
  BY Multiple
<1> HIDE DEF m
<1>2. CASE m >= max
  <2>1. Least(m, max) = max
    BY <1>1, <1>2 DEF Least
  <2> QED
    BY <2>1 DEF m
<1>3. CASE m < max
  <2>1. Least(m, max) = m
    BY <1>3 DEF Least
  <2>2. Len(FirstOf(s, m)) = Least(N, m)
    BY <1>1, Firsts
  <2>3. Least(N, m) # m
    BY <1>1, <2>1, <2>2 DEF m
  <2>4. N < m
    BY <1>1, <2>3 DEF Least
  <2>5. FirstOf(s, m) = SubSeq(s, 1, N) /\ FirstOf(s, max) = SubSeq(s, 1, N)
    BY <1>1, <1>3, <2>4 DEF FirstOf
  <2> QED
    BY <2>1, <2>5 DEF m
<1> QED
  BY <1>1, <1>2, <1>3

(* What a page may do: the locators are taken, and the loop goes on or the *)
(* search ends, or it fails with some of them.                             *)
LEMMA PageSteps ==
    ASSUME LocInv, GooglePage
    PROVE  LET more == kcn_google_page_uri(ku, n)
               uri == CString(more.mem)
               taken == Taken(ki, Page(uri, found))
           IN  /\ requests' = Append(requests, uri)
               /\ \/ ki' = kcn_info_loc_add(ki, taken) /\ PageTaken(more)
                  \/ /\ ki' = kcn_info_loc_add(ki, taken)
                     /\ ku' = more /\ \E error : SearchFails(error)
                  \/ /\ \E k \in 0..Len(taken) :
                           ki' = kcn_info_loc_add(ki, SubSeq(taken, 1, k))
                     /\ ku' = more /\ \E error : SearchFails(error)
<1> DEFINE more == kcn_google_page_uri(ku, n)
           uri == CString(more.mem)
           taken == Taken(ki, Page(uri, found))
<1>1. pc = "google" /\ n < ki.maxnlocs
  BY DEF GooglePage
<1>2. Len(ki.locs) < ki.maxnlocs /\ Len(ki.locs) + Len(taken) <= ki.maxnlocs
  BY <1>1, NextPageIs
<1>3. Len(ki.locs) \in Nat /\ ki.maxnlocs \in Nat
  BY DEF LocInv, Fits
<1>4. ~ (kcn_info_nlocs(ki) >= ki.maxnlocs) /\ kcn_info_loc_add_ok(ki, Len(taken))
  <2> HIDE DEF taken
  <2>1. kcn_info_nlocs(ki) = Len(ki.locs)
    BY DEF kcn_info_nlocs
  <2>2. ~ (Len(ki.locs) >= ki.maxnlocs)
    BY <1>2, <1>3
  <2>3. kcn_info_loc_add_ok(ki, Len(taken))
    BY <1>2, <2>1 DEF kcn_info_loc_add_ok
  <2> QED
    BY <2>1, <2>2, <2>3
<1>5. ASSUME NEW error \in PageError \cup {"ESRCH"}, NEW nlocs, PageFails(error, nlocs),
             error = "ESRCH" => nlocs = 0
      PROVE  SearchFails(error)
  BY <1>5 DEF PageFails
<1>6. \A error \in PageError : error # "ESRCH"
  BY DEF PageError
<1> HIDE DEF more
<1> HIDE DEF uri
<1> HIDE DEF taken
<1>7. /\ requests' = Append(requests, uri)
      /\ \/ ki' = kcn_info_loc_add(ki, taken) /\ PageTaken(more)
         \/ /\ ki' = kcn_info_loc_add(ki, taken)
            /\ ku' = more /\ PageFails("ESRCH", 0)
         \/ \E k \in 0..Len(taken), error \in PageError :
               /\ ki' = kcn_info_loc_add(ki, SubSeq(taken, 1, k))
               /\ ku' = more /\ PageFails(error, kcn_info_nlocs(ki'))
  BY <1>4 DEF GooglePage, more, uri, taken
<1>8. PageFails("ESRCH", 0) => SearchFails("ESRCH")
  BY <1>5
<1>9. \A error \in PageError : \A nlocs : PageFails(error, nlocs) => SearchFails(error)
  BY <1>5, <1>6
<1> QED
  BY <1>7, <1>8, <1>9 DEF more, uri, taken

LEMMA PageLocs ==
    ASSUME LocInv, Progress', GooglePage
    PROVE  LocInv'
<1> DEFINE c == rcountmax(ki)
           more == kcn_google_page_uri(ku, n)
           uri == CString(more.mem)
           taken == Taken(ki, Page(uri, found))
           g == Asked(ki, keys)
           h == [g EXCEPT !["start"] = IF n = 0 THEN {} ELSE {Number(n)}]
           j == Len(requests)
<1>1. /\ pc = "google" /\ n < ki.maxnlocs /\ Fits /\ Pages
      /\ printed = << >> /\ result = "none"
      /\ UNCHANGED <<argv, found, uriolen, query, printed>>
  BY DEF GooglePage, LocInv
<1>2. /\ ki.maxnlocs = argv.n /\ argv.n \in 1..NLOCMAX /\ NLOCMAX \in Nat
      /\ c \in 1..NLOCMAX /\ i \in Nat /\ IsInfo(ki) /\ Texts(ki)
      /\ ki.locs \in Seq(Loc) /\ found \in Seq(Loc)
  BY <1>1, Wanted
<1>3. /\ query = << >> /\ ki.locs = FirstOf(found, Least(n, argv.n))
      /\ requests \in Seq(Seq(UriCell)) /\ n = j * c
  BY <1>1 DEF Pages
<1>4. \E s, r : /\ Uri(ku, s, g) /\ uriolen = Len(s) /\ Uri(more, r, h)
                /\ Begins(r, s) /\ uri = r
  BY <1>1, NextPageIs
<1>5. /\ taken \in Seq(Loc) /\ Len(ki.locs) + Len(taken) <= ki.maxnlocs
      /\ ki.locs \o taken = FirstOf(found, Least(n + c, argv.n))
  BY <1>1, NextPageIs
<1>6. \/ /\ ki' = kcn_info_loc_add(ki, taken) /\ PageTaken(more)
         /\ requests' = Append(requests, uri)
      \/ /\ ki' = kcn_info_loc_add(ki, taken)
         /\ ku' = more /\ \E error : SearchFails(error)
      \/ /\ \E k \in 0..Len(taken) : ki' = kcn_info_loc_add(ki, SubSeq(taken, 1, k))
         /\ ku' = more /\ \E error : SearchFails(error)
  BY PageSteps
<1> HIDE DEF taken
<1> HIDE DEF h
<1> HIDE DEF uri
<1> HIDE DEF more
<1>7. PICK s, r : /\ Uri(ku, s, g) /\ uriolen = Len(s) /\ Uri(more, r, h)
                  /\ Begins(r, s) /\ uri = r
  BY <1>4
<1> HIDE DEF g
<1>8. /\ Str(ku, s) /\ s \in Seq(UriCell) /\ Len(s) \in Nat /\ Len(s) > 0
      /\ Str(more, r) /\ r \in Seq(UriCell) /\ more.len = Len(r) /\ Len(r) >= Len(s)
  BY <1>7 DEF Uri, Str, Closed, Begins
<1>9. j \in Nat /\ c \in Nat /\ c > 0 /\ j * c \in Nat /\ argv.n \in Nat
  <2>1. j \in Nat /\ c \in Nat /\ c > 0
    BY <1>2, <1>3
  <2> QED
    BY <1>2, <2>1, Multiple
<1>10. ASSUME NEW l \in Seq(Loc), Len(ki.locs) + Len(l) <= ki.maxnlocs,
              ki' = kcn_info_loc_add(ki, l), uriolen \in 1..ku'.len
       PROVE  /\ Fits' /\ Texts(ki)' /\ ki'.locs = ki.locs \o l
              /\ ki'.maxnlocs = ki.maxnlocs /\ ki'.country = ki.country
              /\ ki'.userip = ki.userip
  <2>1. /\ ki'.maxnlocs = ki.maxnlocs /\ ki'.country = ki.country
        /\ ki'.userip = ki.userip /\ ki'.locs = ki.locs \o l
    BY <1>2, <1>10, InfoAdd
  <2>2. ki.locs \o l \in Seq(Loc) /\ Len(ki.locs \o l) = Len(ki.locs) + Len(l)
    BY <1>2, <1>10, Behind
  <2>3. Texts(ki)'
    BY <1>1, <1>2, <2>1 DEF Texts, Country, Userip
  <2>4. ki'.locs \in Seq(Loc) /\ ki'.maxnlocs \in Nat /\ Len(ki'.locs) <= ki'.maxnlocs
    BY <1>2, <1>10, <2>1, <2>2
  <2>5. Fits'
    BY <1>1, <1>10, <2>4 DEF Fits
  <2> QED
    BY <2>1, <2>3, <2>5
<1>11. ASSUME NEW l \in Seq(Loc), Len(l) <= Len(taken),
              ki' = kcn_info_loc_add(ki, l), ku' = more, NEW error, SearchFails(error)
       PROVE  LocInv'
  <2>1. Len(ki.locs) + Len(l) <= ki.maxnlocs
    BY <1>2, <1>5, <1>11
  <2>2. uriolen \in 1..ku'.len
    BY <1>7, <1>8, <1>11
  <2>3. Fits'
    BY <1>10, <1>11, <2>1, <2>2
  <2>4. pc' = "done" /\ printed' = << >> /\ result' = "failure"
    BY <1>1, <1>11 DEF SearchFails, Exit, Goto
  <2> QED
    BY <2>3, <2>4, Stops
<1>12. CASE /\ ki' = kcn_info_loc_add(ki, taken) /\ PageTaken(more)
            /\ requests' = Append(requests, uri)
  <2>1. /\ kcn_info_nlocs(ki') > 0 /\ ku' = kcn_uri_resize(more, uriolen)
        /\ \/ /\ kcn_info_nlocs(ki') % rcountmax(ki) # 0
              /\ SearchReturns /\ UNCHANGED n
           \/ n' = n + rcountmax(ki) /\ UNCHANGED <<pc, i, errno, result>>
    BY <1>12 DEF PageTaken
  <2>2. Str(ku', s)
    BY <1>7, <1>8, <2>1, StrResize
  <2>3. ku'.len = Len(s)
    BY <2>2 DEF Str
  <2>4. uriolen \in 1..ku'.len
    BY <1>7, <1>8, <2>3
  <2>5. /\ Fits' /\ Texts(ki)' /\ ki'.locs = ki.locs \o taken
        /\ ki'.maxnlocs = ki.maxnlocs /\ ki'.country = ki.country
        /\ ki'.userip = ki.userip
    BY <1>5, <1>10, <1>12, <2>4
  <2>6. ki'.locs = FirstOf(found, Least(n + c, argv.n)) /\ ki'.locs # << >>
    <3>1. Len(ki'.locs) > 0 /\ Len(<< >>) = 0
      BY <2>1 DEF kcn_info_nlocs
    <3> QED
      BY <1>5, <2>5, <3>1
  <2>7. n + c = (j + 1) * c
    <3>1. j + 1 \in Nat
      BY <1>9
    <3> HIDE DEF j, c
    <3> QED
      BY <1>3, <1>9, <3>1, Weights
  <2>8. CASE kcn_info_nlocs(ki') % rcountmax(ki) # 0 /\ SearchReturns
    <3>1. Len(FirstOf(found, Least((j + 1) * c, argv.n))) % c # 0
      BY <2>6, <2>7, <2>8 DEF kcn_info_nlocs
    <3>2. FirstOf(found, Least((j + 1) * c, argv.n)) = FirstOf(found, argv.n)
      <4>1. j + 1 \in Nat
        BY <1>9
      <4>2. found \in Seq(Loc)
        BY <1>2
      <4> HIDE DEF j, c
      <4> QED
        BY <1>9, <3>1, <4>1, <4>2, LastPage
    <3>3. Found'
      BY <1>1, <1>3, <2>6, <2>7, <3>2 DEF Found
    <3>4. pc' = "doit" /\ i' # 0 /\ printed' = << >> /\ result' = "none"
      BY <1>1, <1>2, <2>8 DEF SearchReturns, Goto
    <3> QED
      BY <2>5, <3>3, <3>4, Returns
  <2>9. CASE n' = n + rcountmax(ki) /\ UNCHANGED <<pc, i, errno, result>>
    <3>1. keys' = keys /\ rcountmax(ki)' = rcountmax(ki)
      BY <1>1, <2>5 DEF keys, rcountmax
    <3>2. Asked(ki, keys)' = Asked(ki, keys)
      BY <2>5, <3>1 DEF Asked
    <3>3. Uri(ku', s, g)
      BY <1>7, <2>2 DEF Uri
    <3>4. (\E t : Uri(ku, t, Asked(ki, keys)) /\ uriolen = Len(t))'
      BY <1>1, <1>7, <3>2, <3>3 DEF g, Uri, Str, Closed, Unique, Vals
    <3>5. requests' \in Seq(Seq(UriCell)) /\ Len(requests') = j + 1
      <4>1. uri \in Seq(UriCell)
        BY <1>7, <1>8
      <4> QED
        BY <1>3, <1>12, <4>1
    <3>6. Pages'
      <4>1. n' = Len(requests') * rcountmax(ki)'
        BY <2>7, <2>9, <3>1, <3>5
      <4>2. ki'.locs = FirstOf(found', Least(n', argv'.n)) /\ query' = << >>
        BY <1>1, <1>3, <2>6, <2>9
      <4> QED
        BY <2>6, <3>4, <3>5, <4>1, <4>2 DEF Pages
    <3>7. pc' = "google" /\ printed' = << >> /\ result' = "none"
      BY <1>1, <2>9
    <3> QED
      BY <2>5, <3>6, <3>7 DEF LocInv, OnlyBadUseAborts, LocatorsExact
  <2> QED
    BY <2>1, <2>8, <2>9
<1>13. CASE /\ ki' = kcn_info_loc_add(ki, taken)
            /\ ku' = more /\ \E error : SearchFails(error)
  BY <1>5, <1>11, <1>13
<1>14. CASE /\ \E k \in 0..Len(taken) : ki' = kcn_info_loc_add(ki, SubSeq(taken, 1, k))
            /\ ku' = more /\ \E error : SearchFails(error)
  <2>1. PICK k \in 0..Len(taken) : ki' = kcn_info_loc_add(ki, SubSeq(taken, 1, k))
    BY <1>14
  <2> DEFINE l == SubSeq(taken, 1, k)
  <2>2. l \in Seq(Loc) /\ Len(l) = k
    BY <1>5, Parts
  <2>3. ki' = kcn_info_loc_add(ki, l)
    BY <2>1
  <2> HIDE DEF l
  <2>4. Len(l) <= Len(taken)
    BY <1>5, <2>2
  <2> QED
    BY <1>11, <1>14, <2>2, <2>3, <2>4
<1> QED
  BY <1>6, <1>12, <1>13, <1>14

LEMMA EndLocs ==
    ASSUME LocInv, Progress', GoogleEnd
    PROVE  LocInv'
<1>1. /\ pc = "google" /\ n >= ki.maxnlocs /\ Fits /\ Pages
      /\ printed = << >> /\ result = "none" /\ SearchReturns
      /\ UNCHANGED <<argv, ki, found, ku, uriolen, n, requests, query, printed>>
  BY DEF GoogleEnd, LocInv, google
<1>2. ki.maxnlocs = argv.n /\ argv.n \in 1..NLOCMAX /\ i \in Nat /\ Texts(ki)
  BY <1>1, Wanted
<1>3. n \in Nat
  BY DEF LocInv, Progress
<1>4. Least(n, argv.n) = argv.n /\ n > 0
  BY <1>1, <1>2, <1>3 DEF Least
<1>5. query = << >> /\ ki.locs = FirstOf(found, argv.n) /\ ki.locs # << >>
  BY <1>1, <1>4 DEF Pages
<1>6. Found'
  BY <1>1, <1>5 DEF Found
<1>7. Fits' /\ Texts(ki)'
  BY <1>1, <1>2 DEF Fits, Texts, Country, Userip
<1>8. pc' = "doit" /\ i' # 0 /\ printed' = << >> /\ result' = "none"
  BY <1>1, <1>2 DEF SearchReturns, Goto
<1> QED
  BY <1>6, <1>7, <1>8, Returns

LEMMA PrintedLocs ==
    ASSUME LocInv, Progress', PrintLocs
    PROVE  LocInv'
<1>1. /\ pc = "doit" /\ i = argv.r /\ Fits
      /\ printed' = ki.locs /\ pc' = "done" /\ result' = "ok"
      /\ UNCHANGED <<argv, ki, found, ku, uriolen, n, requests, query>>
  BY DEF PrintLocs, LocInv, google, Exit, Goto
<1>2. argv.r \in Nat
  BY <1>1, Wanted
<1>3. IF argv.r = 0 THEN ki.locs = << >> ELSE Found
  BY <1>1 DEF LocInv
<1>4. LocatorsExact'
  BY <1>1, <1>2, <1>3 DEF LocatorsExact, Found
<1>5. Fits'
  BY <1>1 DEF Fits
<1> QED
  BY <1>1, <1>4, <1>5 DEF LocInv, OnlyBadUseAborts

LEMMA LocInit == Init => LocInv
<1> SUFFICES ASSUME Init PROVE LocInv
  OBVIOUS
<1>1. /\ pc = "main" /\ query = << >> /\ requests = << >> /\ printed = << >>
      /\ result = "none" /\ found = << >>
      /\ ki = kcn_info_new(0, NULL, NULL, NULL) /\ uriolen = ku.len
      /\ ku = kcn_uri_new(<<"base">>)
  BY DEF Init
<1>2. ki.locs = << >> /\ ki.maxnlocs = 0
  BY <1>1, InfoNew
<1>3. ku.len = 1
  BY <1>1 DEF kcn_uri_new
<1>4. Fits
  <2>1. << >> \in Seq(Loc) /\ Len(<< >>) = 0
    OBVIOUS
  <2>2. uriolen \in 1..ku.len
    BY <1>1, <1>3
  <2>3. found \in Seq(Loc) /\ Len(query) <= 1
    BY <1>1, <2>1
  <2>4. ki.locs \in Seq(Loc) /\ ki.maxnlocs \in Nat /\ Len(ki.locs) <= ki.maxnlocs
    BY <1>2, <2>1
  <2> QED
    BY <2>2, <2>3, <2>4 DEF Fits
<1> QED
  BY <1>1, <1>2, <1>4, ProgressInit DEF LocInv, OnlyBadUseAborts, LocatorsExact

LEMMA LocStep == LocInv /\ [Next]_vars => LocInv'
<1> SUFFICES ASSUME LocInv, [Next]_vars PROVE LocInv'
  OBVIOUS
<1>1. Progress'
  BY ProgressStep DEF LocInv
<1>2. CASE Ended \/ UNCHANGED vars
  <2>1. UNCHANGED vars
    BY <1>2 DEF Ended
  <2>2. UNCHANGED <<argv, pc, i, ki, found, ku, uriolen, n, requests, query, errno,
                    printed, result>>
    BY <2>1 DEF vars, args, google
  <2>3. /\ Fits' /\ (Texts(ki) <=> Texts(ki)') /\ (Found <=> Found')
        /\ (Sent <=> Sent') /\ (Asserted <=> Asserted')
    BY <2>2 DEF LocInv, Fits, Texts, Country, Userip, Found, Sent, Asserted
  <2>4. Pages <=> Pages'
    <3>1. keys' = keys /\ rcountmax(ki)' = rcountmax(ki)
      BY <2>2 DEF keys, rcountmax
    <3>2. Asked(ki, keys)' = Asked(ki, keys)
      BY <2>2, <3>1 DEF Asked
    <3>3. (\E s : Uri(ku, s, Asked(ki, keys)) /\ uriolen = Len(s))
          <=> (\E s : Uri(ku, s, Asked(ki, keys)) /\ uriolen = Len(s))'
      BY <2>2, <3>2 DEF Uri, Str, Closed, Unique, Vals
    <3> QED
      BY <2>2, <3>1, <3>3 DEF Pages
  <2>5. OnlyBadUseAborts' /\ LocatorsExact'
    BY <2>2, <2>3 DEF LocInv, OnlyBadUseAborts, LocatorsExact
  <2> QED
    BY <1>1, <2>2, <2>3, <2>4, <2>5 DEF LocInv
<1> QED
  BY <1>1, <1>2, MainLocs, SearchLocs, NetLocs, PageLocs, EndLocs, PrintedLocs DEF Next

LEMMA Locates == Spec => []LocInv
BY LocInit, LocStep, PTL DEF Spec

(* The types, the room for locators and the size of a page, below the      *)
(* limit of the service whatever number is asked for (kcn_google.c:171).   *)
THEOREM Key2locTypes == Spec => []TypeOK
<1>1. LocInv => TypeOK
  <2> SUFFICES ASSUME LocInv PROVE TypeOK
    OBVIOUS
  <2>1. Progress /\ Fits
    BY DEF LocInv
  <2>2. pc # "main" => kcn_info_nlocs(ki) <= ki.maxnlocs
    BY <2>1 DEF Fits, kcn_info_nlocs
  <2>3. pc = "google" => rcountmax(ki) \in 1..RCOUNTMAX - 1
    BY <2>1, PageSize
  <2> QED
    BY <2>1, <2>2, <2>3 DEF LocInv, Progress, Fits, TypeOK
<1> QED
  BY <1>1, Locates, PTL

(* What doit prints when it ends well are the first locators of the last   *)
(* search, gathered page by page without a gap, an overlap or one of a     *)
(* search before, up to the number that was asked for; or those of the     *)
(* network database, all or none; and a search that fails prints nothing   *)
(* (key2loc/main.c:156-170, kcn_google.c:194-223).                         *)
THEOREM LocatorsAreExact == Spec => []LocatorsExact
<1>1. LocInv => LocatorsExact
  BY DEF LocInv
<1> QED
  BY <1>1, Locates, PTL

(* The assertions on the number of locators (kcn_google.c:88,              *)
(* kcn_info.c:163) hold for every number of locators, pages and searches:  *)
(* those that fail are about the arguments, before anything is sent.       *)
THEOREM OnlyBadArgumentsAbort == Spec => []OnlyBadUseAborts
<1>1. LocInv => OnlyBadUseAborts
  BY DEF LocInv
<1> QED
  BY <1>1, Locates, PTL

-----------------------------------------------------------------------------
(* What the service makes of an encoded value is the value.                *)

(* The k-th cell is one of the two digits of a character before it.        *)
IsDigit(w, k) == \E d \in 1..2 : k > d /\ w[k - d] = "%"

(* The character that the k-th cell stands for or begins.                  *)
CharAt(w, k) ==
    IF w[k] = "+" THEN " "
    ELSE IF w[k] = "%" THEN CHOOSE c \in DOMAIN Hex : Hex[c] = SubSeq(w, k + 1, k + 2)
    ELSE w[k]

(* What has been decoded after each of the cells.                          *)
Decodes(f, w) ==
    /\ f[0] = << >>
    /\ \A k \in 1..Len(w) :
          f[k] = IF IsDigit(w, k) THEN f[k - 1] ELSE Append(f[k - 1], CharAt(w, k))
    /\ Decode(w) = f[Len(w)]

LEMMA Decoded ==
    ASSUME NEW w, Len(w) \in Nat
    PROVE  \E f : Decodes(f, w)
<1> DEFINE N == Len(w)
           V == {CharAt(w, k) : k \in 1..N}
           g == [k \in 1..N |-> [x \in Seq(V) |-> IF IsDigit(w, k) THEN x
                                                 ELSE Append(x, CharAt(w, k))]]
           digit(k) == \E d \in 1..2 : k > d /\ w[k - d] = "%"
           char(k) == IF w[k] = "+" THEN " "
                      ELSE IF w[k] = "%"
                      THEN CHOOSE c \in DOMAIN Hex : Hex[c] = SubSeq(w, k + 1, k + 2)
                      ELSE w[k]
           upto[k \in 0..Len(w)] ==
               IF k = 0 THEN << >>
               ELSE IF digit(k) THEN upto[k - 1] ELSE Append(upto[k - 1], char(k))
           Q(h) == h = [k \in 0..Len(w) |->
               IF k = 0 THEN << >>
               ELSE IF IsDigit(w, k) THEN h[k - 1] ELSE Append(h[k - 1], CharAt(w, k))]
<1>1. \A k \in 1..N : CharAt(w, k) \in V
  OBVIOUS
<1>2. Decode(w) = upto[N]
  BY DEF Decode
<1>3. upto = CHOOSE h : Q(h)
  BY Zenon DEF IsDigit, CharAt
<1> HIDE DEF V, upto
<1>4. g \in [1..N -> [Seq(V) -> Seq(V)]]
  BY <1>1
<1>5. ASSUME NEW k \in 1..N, NEW x \in Seq(V)
      PROVE  g[k][x] = IF IsDigit(w, k) THEN x ELSE Append(x, CharAt(w, k))
  OBVIOUS
<1> HIDE DEF g
<1>6. PICK f : Recursive(f, N, Seq(V), << >>, g)
  <2> DEFINE SS == Seq(V)
             first == << >>
  <2>1. g \in [1..N -> [SS -> SS]] /\ first \in SS
    BY <1>4
  <2> HIDE DEF SS, first, N
  <2>2. \E f : Recursive(f, N, SS, first, g)
    BY <2>1, Recursion DEF N
  <2> QED
    BY <2>2 DEF SS, first
<1>7. /\ f \in [0..N -> Seq(V)]
      /\ f[0] = << >> /\ \A k \in 1..N : f[k] = g[k][f[k - 1]]
  BY <1>6 DEF Recursive
<1>8. ASSUME NEW k \in 1..N
      PROVE  f[k] = IF IsDigit(w, k) THEN f[k - 1] ELSE Append(f[k - 1], CharAt(w, k))
  <2>1. f[k - 1] \in Seq(V) /\ f[k] = g[k][f[k - 1]]
    BY <1>7
  <2> QED
    BY <1>5, <2>1
<1>9. Q(f)
  <2> DEFINE h == [k \in 0..N |->
               IF k = 0 THEN << >>
               ELSE IF IsDigit(w, k) THEN f[k - 1] ELSE Append(f[k - 1], CharAt(w, k))]
  <2>1. ASSUME NEW k \in 0..N PROVE h[k] = f[k]
    <3>1. CASE k = 0
      BY <1>7, <3>1
    <3>2. CASE k # 0
      <4>1. k \in 1..N
        BY <3>2
      <4> QED
        BY <1>8, <3>2, <4>1
    <3> QED
      BY <3>1, <3>2
  <2>2. DOMAIN f = 0..N /\ DOMAIN h = 0..N /\ f = [k \in 0..N |-> f[k]]
    BY <1>7
  <2>3. h = [k \in 0..N |-> h[k]]
    OBVIOUS
  <2> HIDE DEF h
  <2>4. f = h
    BY <2>1, <2>2, <2>3
  <2> QED
    BY <2>4 DEF h
<1> HIDE DEF Q
<1>10. Q(upto)
  <2>1. Q(CHOOSE x : Q(x))
    BY <1>9, Zenon
  <2> QED
    BY <1>3, <2>1
<1>11. \A k \in 0..N : upto[k] =
               IF k = 0 THEN << >>
               ELSE IF IsDigit(w, k) THEN upto[k - 1] ELSE Append(upto[k - 1], CharAt(w, k))
  BY <1>10 DEF Q
<1>12. Decodes(upto, w)
  BY <1>2, <1>11 DEF Decodes
<1> QED
  BY <1>12

(* The cells of one character are decoded to that character, when no cell  *)
(* before them is the beginning of an encoded one that reaches into them.  *)
LEMMA DecodedChar ==
    ASSUME NEW w \in Seq(Plain), NEW f, Decodes(f, w), NEW p \in Nat, NEW c \in Char,
           ~ IsDigit(w, p + 1), p + Len(Encoding(c)) <= Len(w),
           \A j \in 1..Len(Encoding(c)) : w[p + j] = Encoding(c)[j]
    PROVE  /\ f[p + Len(Encoding(c))] = Append(f[p], c)
           /\ ~ IsDigit(w, p + Len(Encoding(c)) + 1)
<1> DEFINE e == Encoding(c)
           N == Len(w)
<1>1. N \in Nat /\ \A k \in 1..N :
        f[k] = IF IsDigit(w, k) THEN f[k - 1] ELSE Append(f[k - 1], CharAt(w, k))
  BY DEF Decodes
<1>2. p > 0 => w[p] # "%"
  <2> SUFFICES ASSUME p > 0, w[p] = "%" PROVE FALSE
    OBVIOUS
  <2>1. 1 \in 1..2 /\ p + 1 > 1 /\ w[(p + 1) - 1] = "%"
    <3>1. (p + 1) - 1 = p
      OBVIOUS
    <3> QED
      BY <3>1
  <2> QED
    BY <2>1 DEF IsDigit
<1>3. CASE ~ Long(c)
  <2> DEFINE x == IF c = " " THEN "+" ELSE c
  <2>1. e = <<x>> /\ x # "%" /\ (x = "+" <=> c = " ")
    <3>1. c = " " \/ kcn_uri_str_isnormal(c)
      BY <1>3 DEF Long
    <3> QED
      BY <3>1, EncodingIs
  <2> HIDE DEF x, e
  <2>2. Len(e) = 1 /\ e[1] = x
    BY <2>1
  <2>3. w[p + 1] = x /\ p + 1 \in 1..N /\ (p + 1) - 1 = p
    BY <1>1, <2>2 DEF e
  <2>4. CharAt(w, p + 1) = c
    <3>1. c # " " => x = c
      BY DEF x
    <3> QED
      BY <2>1, <2>3, <3>1 DEF CharAt
  <2>5. f[p + 1] = Append(f[p], c)
    BY <1>1, <2>3, <2>4
  <2>6. ~ IsDigit(w, p + 2)
    <3> SUFFICES ASSUME NEW d \in 1..2, p + 2 > d, w[p + 2 - d] = "%" PROVE FALSE
      BY DEF IsDigit
    <3>1. CASE d = 1
      <4>1. p + 2 - d = p + 1
        BY <3>1
      <4> QED
        BY <2>1, <2>3, <4>1
    <3>2. CASE d = 2
      <4>1. p + 2 - d = p /\ p > 0
        BY <3>2
      <4> QED
        BY <1>2, <4>1
    <3> QED
      BY <3>1, <3>2
  <2>7. p + Len(e) = p + 1 /\ p + Len(e) + 1 = p + 2
    BY <2>2
  <2> QED
    BY <2>5, <2>6, <2>7 DEF e
<1>4. CASE Long(c)
  <2> DEFINE x == Hex[c][1]
             y == Hex[c][2]
  <2>1. e = <<"%", x, y>> /\ x \in Plain \ {"%"} /\ y \in Plain \ {"%"}
    BY <1>4, EncodingIs
  <2>2. /\ c \in DOMAIN Hex /\ Hex[c] \in [1..2 -> Char]
        /\ \A other \in DOMAIN Hex : Hex[other] = Hex[c] => other = c
    BY <1>4, UriAssumption DEF Long, kcn_uri_str_isnormal
  <2> HIDE DEF x, y, e
  <2>3. Len(e) = 3 /\ e[1] = "%" /\ e[2] = x /\ e[3] = y
    BY <2>1
  <2>4. w[p + 1] = "%" /\ w[p + 2] = x /\ w[p + 3] = y
    BY <2>3 DEF e
  <2>5. p + 3 <= N
    BY <2>3 DEF e
  <2>6. SubSeq(w, p + 2, p + 3) = Hex[c]
    <3> DEFINE l == SubSeq(w, p + 2, p + 3)
               h == Hex[c]
               S == Plain \cup Char
    <3>1. p + 2 \in Nat /\ p + 3 \in Nat /\ p + 2 > 0 /\ p + 2 <= p + 3
          /\ (p + 3) - (p + 2) + 1 = 2 /\ p + 3 <= Len(w)
      BY <2>5
    <3>2. l \in [1..2 -> Plain] /\ \A k \in 1..2 : l[k] = w[(p + 2) + k - 1]
      BY <3>1, SubCells
    <3>3. l[1] = x /\ l[2] = y
      <4>1. (p + 2) + 1 - 1 = p + 2 /\ (p + 2) + 2 - 1 = p + 3
        OBVIOUS
      <4> QED
        BY <2>4, <3>2, <4>1
    <3>4. h \in [1..2 -> Char] /\ h[1] = x /\ h[2] = y
      BY <2>2 DEF x, y
    <3> HIDE DEF l, h
    <3>5. l \in [1..2 -> S] /\ h \in [1..2 -> S]
      BY <3>2, <3>4
    <3>6. \A k \in 1..2 : l[k] = h[k]
      BY <3>3, <3>4
    <3> HIDE DEF S
    <3>7. l = h
      BY <3>5, <3>6, SameFun
    <3> QED
      BY <3>7 DEF l, h
  <2>7. CharAt(w, p + 1) = c
    <3>1. (p + 1) + 1 = p + 2 /\ (p + 1) + 2 = p + 3
      OBVIOUS
    <3>2. CharAt(w, p + 1)
            = CHOOSE other \in DOMAIN Hex : Hex[other] = SubSeq(w, p + 2, p + 3)
      BY <2>4, <3>1 DEF CharAt
    <3>3. \A other \in DOMAIN Hex : Hex[other] = SubSeq(w, p + 2, p + 3) <=> other = c
      BY <2>2, <2>6
    <3> QED
      BY <2>2, <3>2, <3>3
  <2>8. p + 1 \in 1..N /\ p + 2 \in 1..N /\ p + 3 \in 1..N
        /\ (p + 1) - 1 = p /\ (p + 2) - 1 = p + 1 /\ (p + 3) - 1 = p + 2
        /\ (p + 3) - 2 = p + 1
    BY <1>1, <2>5
  <2>9. IsDigit(w, p + 2)
    <3>1. 1 \in 1..2 /\ p + 2 > 1 /\ w[(p + 2) - 1] = "%"
      BY <2>4, <2>8
    <3> QED
      BY <3>1 DEF IsDigit
  <2>10. IsDigit(w, p + 3)
    <3>1. 2 \in 1..2 /\ p + 3 > 2 /\ w[(p + 3) - 2] = "%"
      BY <2>4, <2>8
    <3> QED
      BY <3>1 DEF IsDigit
  <2>11. f[p + 1] = Append(f[p], c)
    BY <1>1, <2>7, <2>8
  <2>12. f[p + 2] = f[p + 1] /\ f[p + 3] = f[p + 2]
    BY <1>1, <2>8, <2>9, <2>10
  <2>13. ~ IsDigit(w, p + 4)
    <3> SUFFICES ASSUME NEW d \in 1..2, p + 4 > d, w[p + 4 - d] = "%" PROVE FALSE
      BY DEF IsDigit
    <3>1. p + 4 - d = p + 3 \/ p + 4 - d = p + 2
      OBVIOUS
    <3> QED
      BY <2>1, <2>4, <3>1
  <2>14. p + Len(e) = p + 3 /\ p + Len(e) + 1 = p + 4
    BY <2>3
  <2> QED
    BY <2>11, <2>12, <2>13, <2>14 DEF e
<1> QED
  BY <1>3, <1>4

LEMMA BeginsBegins ==
    ASSUME NEW S, NEW r \in Seq(S), NEW s \in Seq(S), NEW t \in Seq(S),
           Begins(r, s), Begins(s, t)
    PROVE  Begins(r, t)
<1>1. Len(r) \in Nat /\ Len(s) \in Nat /\ Len(t) \in Nat
  OBVIOUS
<1>2. 1..Len(t) \subseteq 1..Len(s)
  BY <1>1 DEF Begins
<1> QED
  BY <1>1, <1>2 DEF Begins

(* An encoded value begins with those of the first characters, and each    *)
(* has the cells behind them.                                              *)
Placed(e, val, k) ==
    /\ e[k - 1] \in Seq(Plain) /\ Encoding(val[k]) \in Seq(Plain)
    /\ Len(e[k]) = Len(e[k - 1]) + Len(Encoding(val[k]))
    /\ Begins(Enc(val), e[k])
    /\ \A j \in 1..Len(Encoding(val[k])) :
          Enc(val)[Len(e[k - 1]) + j] = Encoding(val[k])[j]

LEMMA EncodedBegins ==
    ASSUME NEW val \in Seq(Char), NEW e, Encodes(e, val), NEW k \in 1..Len(val)
    PROVE  Placed(e, val, k)
<1> DEFINE N == Len(val)
           T == {m \in 0..N : \A l \in 0..m : Begins(e[m], e[l])}
<1>1. /\ N \in Nat /\ e[0] = << >> /\ Enc(val) = e[N]
      /\ \A m \in 0..N : e[m] \in Seq(Plain)
      /\ \A m \in 1..N : e[m] = e[m - 1] \o Encoding(val[m])
  <2>1. N \in Nat
    OBVIOUS
  <2>2. e \in [0..N -> Seq(Plain)] /\ e[0] = << >> /\ Enc(val) = e[N]
    BY DEF Encodes
  <2>3. \A m \in 1..N : e[m] = e[m - 1] \o Encoding(val[m])
    BY DEF Encodes
  <2>4. \A m \in 0..N : e[m] \in Seq(Plain)
    BY <2>2
  <2> QED
    BY <2>1, <2>2, <2>3, <2>4
<1>2. ASSUME NEW m \in 1..N PROVE Encoding(val[m]) \in Seq(Plain)
  <2>1. val[m] \in Char
    OBVIOUS
  <2> QED
    BY <2>1, EncodingIs
<1>3. ASSUME NEW m \in 0..N PROVE Begins(e[m], e[m])
  BY <1>1 DEF Begins
<1>4. ASSUME NEW m \in 1..N
      PROVE  /\ Begins(e[m], e[m - 1])
             /\ e[m - 1] \in Seq(Plain)
             /\ Len(e[m]) = Len(e[m - 1]) + Len(Encoding(val[m]))
             /\ \A j \in 1..Len(Encoding(val[m])) :
                   e[m][Len(e[m - 1]) + j] = Encoding(val[m])[j]
  <2> DEFINE s == e[m - 1]
             t == Encoding(val[m])
  <2>1. s \in Seq(Plain) /\ t \in Seq(Plain) /\ e[m] = s \o t
    <3>1. m - 1 \in 0..N
      BY <1>1
    <3>2. e[m - 1] \in Seq(Plain) /\ e[m] = e[m - 1] \o Encoding(val[m])
      BY <1>1, <3>1
    <3>3. Encoding(val[m]) \in Seq(Plain)
      BY <1>2
    <3> QED
      BY <3>2, <3>3
  <2> HIDE DEF s, t
  <2>2. /\ Len(s \o t) = Len(s) + Len(t) /\ Len(s) \in Nat /\ Len(t) \in Nat
        /\ \A j \in 1..Len(s) : (s \o t)[j] = s[j]
        /\ \A j \in 1..Len(t) : (s \o t)[Len(s) + j] = t[j]
    BY <2>1, Behind
  <2>3. Begins(e[m], s)
    BY <2>1, <2>2 DEF Begins
  <2> QED
    BY <2>1, <2>2, <2>3 DEF s, t
<1>5. ASSUME NEW m \in 1..N, m - 1 \in T PROVE m \in T
  <2>1. ASSUME NEW l \in 0..m PROVE Begins(e[m], e[l])
    <3>1. CASE l = m
      BY <1>3, <3>1
    <3>2. CASE l # m
      <4>1. l \in 0..m - 1 /\ l \in 0..N /\ m - 1 \in 0..N /\ m \in 0..N
        BY <3>2
      <4>2. Begins(e[m - 1], e[l])
        BY <1>5, <4>1
      <4>3. e[m] \in Seq(Plain) /\ e[m - 1] \in Seq(Plain) /\ e[l] \in Seq(Plain)
        BY <1>1, <4>1
      <4> QED
        BY <1>4, <4>2, <4>3, BeginsBegins
    <3> QED
      BY <3>1, <3>2
  <2> QED
    BY <2>1
<1>6. 0 \in T
  BY <1>1, <1>3
<1>7. \A m \in 0..N : m \in T
  <2>1. \A m \in 1..N : m - 1 \in T => m \in T
    BY <1>5
  <2> HIDE DEF T
  <2> QED
    BY <1>1, <1>6, <2>1, CountUp
<1>8. Begins(e[N], e[k])
  <2>1. N \in T /\ k \in 0..N
    BY <1>1, <1>7
  <2> QED
    BY <2>1
<1>9. ASSUME NEW j \in 1..Len(Encoding(val[k]))
      PROVE  e[N][Len(e[k - 1]) + j] = Encoding(val[k])[j]
  <2> DEFINE p == Len(e[k - 1]) + j
  <2>1. e[k][p] = Encoding(val[k])[j]
    BY <1>4
  <2>2. Len(e[k - 1]) \in Nat /\ Len(Encoding(val[k])) \in Nat
    BY <1>2, <1>4
  <2>5. Len(e[k]) = Len(e[k - 1]) + Len(Encoding(val[k]))
    BY <1>4
  <2>3. p \in 1..Len(e[k])
    <3> DEFINE a == Len(e[k - 1])
               b == Len(Encoding(val[k]))
    <3>1. a \in Nat /\ b \in Nat /\ j \in 1..b /\ Len(e[k]) = a + b /\ p = a + j
      BY <2>2, <2>5
    <3> HIDE DEF a, b, p
    <3> QED
      BY <3>1
  <2> HIDE DEF p
  <2>4. e[N][p] = e[k][p]
    BY <1>8, <2>3 DEF Begins
  <2> QED
    BY <2>1, <2>4 DEF p
<1>10. /\ e[k - 1] \in Seq(Plain) /\ Encoding(val[k]) \in Seq(Plain)
       /\ Len(e[k]) = Len(e[k - 1]) + Len(Encoding(val[k]))
  BY <1>2, <1>4
<1>11. Enc(val) = e[N]
  BY <1>1
<1> QED
  BY <1>8, <1>9, <1>10, <1>11 DEF Placed

LEMMA DecodedIs ==
    ASSUME NEW val \in Seq(Char)
    PROVE  Decode(Enc(val)) = val
<1> DEFINE N == Len(val)
           w == Enc(val)
           part(k) == [j \in 1..k |-> val[j]]
<1>1. N \in Nat /\ w \in Seq(Plain) /\ Len(w) \in Nat
  <2>1. w \in Seq(Plain)
    BY EncodedLength
  <2> HIDE DEF w
  <2> QED
    BY <2>1
<1>2. PICK e : Encodes(e, val)
  BY Encoded
<1>3. e[0] = << >> /\ w = e[N]
  BY <1>2 DEF Encodes
<1> HIDE DEF w
<1>4. PICK f : Decodes(f, w)
  BY <1>1, Decoded
<1>5. f[0] = << >> /\ Decode(w) = f[Len(w)]
  BY <1>4 DEF Decodes
<1> DEFINE T == {k \in 0..N : f[Len(e[k])] = part(k) /\ ~ IsDigit(w, Len(e[k]) + 1)}
<1>6. 0 \in T
  <2>1. Len(e[0]) = 0 /\ part(0) = << >>
    BY <1>3
  <2>2. ~ IsDigit(w, 0 + 1)
    BY DEF IsDigit
  <2> QED
    BY <1>1, <1>5, <2>1, <2>2
<1>7. ASSUME NEW k \in 1..N, k - 1 \in T PROVE k \in T
  <2> DEFINE p == Len(e[k - 1])
             c == val[k]
             l == Len(Encoding(c))
  <2>1. /\ e[k - 1] \in Seq(Plain) /\ Encoding(c) \in Seq(Plain)
        /\ Len(e[k]) = p + l /\ Begins(w, e[k])
        /\ \A j \in 1..l : w[p + j] = Encoding(c)[j]
    <3>1. k \in 1..Len(val) /\ Encodes(e, val)
      BY <1>2
    <3>2. Placed(e, val, k)
      <4> HIDE DEF N, T
      <4> QED
        BY <3>1, EncodedBegins
    <3> QED
      BY <3>2, Zenon DEF Placed, w
  <2>2. p \in Nat /\ c \in Char /\ p + l <= Len(w)
    <3>1. p \in Nat /\ c \in Char
      BY <2>1
    <3>2. p + l <= Len(w)
      BY <2>1 DEF Begins
    <3> QED
      BY <3>1, <3>2
  <2>3. f[p] = part(k - 1) /\ ~ IsDigit(w, p + 1)
    BY <1>7
  <2>4. f[p + l] = Append(f[p], c) /\ ~ IsDigit(w, p + l + 1)
    <3> HIDE DEF p, c
    <3> QED
      BY <1>1, <1>4, <2>1, <2>2, <2>3, DecodedChar
  <2>5. Append(part(k - 1), c) = part(k)
    <3> DEFINE q == part(k - 1)
               a == Append(q, c)
               b == part(k)
    <3>1. q \in [1..k - 1 -> Char] /\ k - 1 \in Nat
      OBVIOUS
    <3> HIDE DEF q
    <3>2. q \in Seq(Char) /\ Len(q) = k - 1
      BY <3>1, IsSeq
    <3>3. a \in Seq(Char) /\ Len(a) = k /\ a[k] = c /\ \A j \in 1..k - 1 : a[j] = q[j]
      BY <2>2, <3>2
    <3>4. a \in [1..k -> Char] /\ b \in [1..k -> Char] /\ k \in Nat
      <4>1. b \in [1..k -> Char] /\ k \in Nat
        OBVIOUS
      <4> HIDE DEF a, b
      <4>2. a \in [1..k -> Char]
        BY <3>3
      <4> QED
        BY <4>1, <4>2
    <3>5. \A j \in 1..k : a[j] = b[j]
      <4> SUFFICES ASSUME NEW j \in 1..k PROVE a[j] = b[j]
        OBVIOUS
      <4>1. CASE j = k
        BY <3>3, <4>1
      <4>2. CASE j # k
        <5>1. j \in 1..k - 1
          BY <4>2
        <5>2. q[j] = val[j]
          BY <5>1 DEF q
        <5> QED
          BY <3>3, <5>1, <5>2
      <4> QED
        BY <4>1, <4>2
    <3> HIDE DEF a, b
    <3>6. a = b
      BY <3>4, <3>5, SameFun
    <3> QED
      BY <3>6 DEF a, b, q
  <2>6. f[Len(e[k])] = part(k) /\ ~ IsDigit(w, Len(e[k]) + 1)
    <3> HIDE DEF p, c, l, part
    <3> QED
      BY <2>1, <2>3, <2>4, <2>5
  <2>7. k \in 0..N
    BY <1>1
  <2> HIDE DEF part
  <2> QED
    BY <2>6, <2>7
<1>8. \A k \in 0..N : k \in T
  <2>1. \A k \in 1..N : k - 1 \in T => k \in T
    BY <1>7
  <2> HIDE DEF T
  <2> QED
    BY <1>1, <1>6, <2>1, CountUp
<1>9. N \in T
  BY <1>1, <1>8
<1>10. f[Len(w)] = part(N)
  BY <1>3, <1>9
<1>11. part(N) = val
  OBVIOUS
<1>12. Decode(w) = val
  BY <1>5, <1>10, <1>11
<1> QED
  BY <1>12 DEF w

-----------------------------------------------------------------------------
(* The requests of a search.                                               *)

(* The k-th request asks for its page, of what is searched for.            *)
Exact(r, k) ==
    LET decoded(name) == {Decode(val) : val \in Vals(r, name)}
    IN  /\ Unique(r)
        /\ Vals(r, "rsz") = {Number(rcountmax(ki))}
        /\ Vals(r, "start") = IF k = 1 THEN {} ELSE {Number((k - 1) * rcountmax(ki))}
        /\ decoded("q") = {keys}
        /\ decoded("gl") = {Country} \ {NULL}
        /\ decoded("userip") = {argv.userip} \ {NULL, << >>}

LEMMA ExactIs == RequestsExact <=> \A k \in DOMAIN requests : Exact(requests[k], k)
BY DEF RequestsExact, Exact, Unique, Vals

LEMMA ExactNext ==
    RequestsExact' <=> (\A k \in DOMAIN requests : Exact(requests[k], k))'
BY ExactIs, PTL

Same ==
    argv' = argv /\ ki'.maxnlocs = ki.maxnlocs

LEMMA ExactSame ==
    ASSUME Same, NEW r, NEW k, Exact(r, k)
    PROVE  Exact(r, k)'
<1>1. keys' = keys /\ rcountmax(ki)' = rcountmax(ki) /\ Country' = Country
  BY DEF Same, keys, rcountmax, Country
<1>2. /\ Unique(r)
      /\ Vals(r, "rsz") = {Number(rcountmax(ki))}
      /\ Vals(r, "start") = IF k = 1 THEN {} ELSE {Number((k - 1) * rcountmax(ki))}
      /\ {Decode(val) : val \in Vals(r, "q")} = {keys}
      /\ {Decode(val) : val \in Vals(r, "gl")} = {Country} \ {NULL}
      /\ {Decode(val) : val \in Vals(r, "userip")} = {argv.userip} \ {NULL, << >>}
  BY DEF Exact
<1>3. /\ Unique(r)
      /\ Vals(r, "rsz") = {Number(rcountmax(ki)')}
      /\ Vals(r, "start") = IF k = 1 THEN {} ELSE {Number((k - 1) * rcountmax(ki)')}
      /\ {Decode(val) : val \in Vals(r, "q")} = {keys'}
      /\ {Decode(val) : val \in Vals(r, "gl")} = {Country'} \ {NULL}
      /\ {Decode(val) : val \in Vals(r, "userip")} = {argv'.userip} \ {NULL, << >>}
  BY <1>1, <1>2 DEF Same
<1> QED
  BY <1>3 DEF Exact, Unique, Vals

LEMMA NoRequests ==
    ASSUME requests' = << >>
    PROVE  RequestsExact'
<1>1. DOMAIN requests' = {}
  OBVIOUS
<1> QED
  BY <1>1, ExactNext

LEMMA SameRequests ==
    ASSUME RequestsExact, Same, requests' = requests
    PROVE  RequestsExact'
<1>1. \A k \in DOMAIN requests : Exact(requests[k], k)'
  <2> SUFFICES ASSUME NEW k \in DOMAIN requests PROVE Exact(requests[k], k)'
    OBVIOUS
  <2>1. Exact(requests[k], k)
    BY ExactIs
  <2> QED
    BY <2>1, ExactSame
<1> QED
  BY <1>1, ExactNext

LEMMA DecodedValues ==
    ASSUME NEW val, val = NULL \/ val \in Seq(Char)
    PROVE  {Decode(v) : v \in EncOf(val)} = {val} \ {NULL}
<1>1. CASE val = NULL
  BY <1>1 DEF EncOf
<1>2. CASE val # NULL
  <2>1. EncOf(val) = {Enc(val)} /\ val \in Seq(Char)
    BY <1>2 DEF EncOf
  <2>2. Decode(Enc(val)) = val
    BY <2>1, DecodedIs
  <2> QED
    BY <1>2, <2>1, <2>2
<1> QED
  BY <1>1, <1>2

(* The request for the next page is what it should be.                     *)
LEMMA NextRequest ==
    ASSUME LocInv, pc = "google", n < ki.maxnlocs
    PROVE  Exact(CString(kcn_google_page_uri(ku, n).mem), Len(requests) + 1)
<1> DEFINE c == rcountmax(ki)
           more == kcn_google_page_uri(ku, n)
           uri == CString(more.mem)
           g == Asked(ki, keys)
           h == [g EXCEPT !["start"] = IF n = 0 THEN {} ELSE {Number(n)}]
           j == Len(requests)
<1>1. /\ ki.maxnlocs = argv.n /\ c \in 1..NLOCMAX /\ NLOCMAX \in Nat
      /\ keys \in Seq(Char) /\ keys # NULL /\ Texts(ki)
  BY Wanted
<1>2. requests \in Seq(Seq(UriCell)) /\ n = j * c
  BY DEF LocInv, Pages
<1>3. \E s, r : /\ Uri(ku, s, g) /\ uriolen = Len(s) /\ Uri(more, r, h)
                /\ Begins(r, s) /\ uri = r
  BY NextPageIs
<1>4. /\ h["rsz"] = {Number(c)} /\ h["q"] = {Enc(keys)}
      /\ h["gl"] = EncOf(ki.country) /\ h["userip"] = EncOf(ki.userip)
      /\ h["start"] = IF n = 0 THEN {} ELSE {Number(n)}
      /\ {"rsz", "q", "gl", "userip", "start"} \subseteq Name
  BY DEF Asked, Name
<1> HIDE DEF h, g, uri, more
<1>5. Unique(uri) /\ \A name \in Name : Vals(uri, name) = h[name]
  BY <1>3 DEF Uri
<1>6. j \in Nat /\ c \in Nat /\ c > 0
  BY <1>1, <1>2
<1>7. j + 1 = 1 <=> n = 0
  <2> HIDE DEF j, c
  <2>1. CASE j = 0
    BY <1>2, <1>6, <2>1
  <2>2. CASE j # 0
    <3>1. j - 1 \in Nat /\ j = (j - 1) + 1
      BY <1>6, <2>2
    <3> DEFINE m == j - 1
    <3>2. m \in Nat /\ j = m + 1
      BY <3>1
    <3> HIDE DEF m
    <3>3. j * c = m * c + c /\ m * c \in Nat
      BY <1>6, <3>2, Weights
    <3>4. n # 0
      <4> DEFINE x == m * c
      <4>1. n = x + c /\ x \in Nat
        BY <1>2, <3>3
      <4> HIDE DEF x
      <4> QED
        BY <1>6, <4>1
    <3> QED
      BY <1>6, <2>2, <3>4
  <2> QED
    BY <2>1, <2>2
<1>8. (j + 1) - 1 = j
  BY <1>6
<1>9. Vals(uri, "start") = IF j + 1 = 1 THEN {} ELSE {Number(((j + 1) - 1) * c)}
  BY <1>2, <1>4, <1>5, <1>7, <1>8
<1>10. {Decode(v) : v \in Vals(uri, "q")} = {keys}
  <2>1. Vals(uri, "q") = {Enc(keys)}
    BY <1>4, <1>5
  <2>2. Decode(Enc(keys)) = keys
    BY <1>1, DecodedIs
  <2> QED
    BY <2>1, <2>2
<1>11. {Decode(v) : v \in Vals(uri, "gl")} = {Country} \ {NULL}
  <2>1. Vals(uri, "gl") = EncOf(ki.country)
    BY <1>4, <1>5
  <2> QED
    BY <1>1, <2>1, DecodedValues DEF Texts
<1>12. {Decode(v) : v \in Vals(uri, "userip")} = {argv.userip} \ {NULL, << >>}
  <2>1. Vals(uri, "userip") = EncOf(ki.userip)
    BY <1>4, <1>5
  <2>2. {Decode(v) : v \in Vals(uri, "userip")} = {ki.userip} \ {NULL}
    BY <1>1, <2>1, DecodedValues DEF Texts
  <2>3. ki.userip = Userip
    BY <1>1 DEF Texts
  <2>4. {Userip} \ {NULL} = {argv.userip} \ {NULL, << >>}
    BY DEF Userip
  <2> QED
    BY <2>2, <2>3, <2>4
<1>13. Vals(uri, "rsz") = {Number(c)}
  BY <1>4, <1>5
<1>14. Exact(uri, j + 1)
  BY <1>5, <1>9, <1>10, <1>11, <1>12, <1>13 DEF Exact
<1> QED
  BY <1>14 DEF uri, more

LEMMA PageRequests ==
    ASSUME LocInv, RequestsExact, GooglePage
    PROVE  RequestsExact'
<1> DEFINE uri == CString(kcn_google_page_uri(ku, n).mem)
           taken == Taken(ki, Page(uri, found))
           j == Len(requests)
<1>1. pc = "google" /\ n < ki.maxnlocs /\ argv' = argv
  BY DEF GooglePage
<1>2. Exact(uri, j + 1)
  BY <1>1, NextRequest
<1>3. /\ requests' = Append(requests, uri)
      /\ \E locs : ki' = kcn_info_loc_add(ki, locs)
  <2>1. /\ requests' = Append(requests, uri)
        /\ \/ ki' = kcn_info_loc_add(ki, taken)
           \/ \E k \in 0..Len(taken) : ki' = kcn_info_loc_add(ki, SubSeq(taken, 1, k))
    BY PageSteps
  <2> HIDE DEF taken, uri
  <2> QED
    BY <2>1
<1> HIDE DEF uri
<1>4. IsInfo(ki)
  BY DEF LocInv, Progress
<1>5. Same
  BY <1>1, <1>3, <1>4, InfoAdd DEF Same
<1>6. requests \in Seq(Seq(UriCell))
  BY <1>1 DEF LocInv, Pages
<1>7. ASSUME NEW k \in DOMAIN requests' PROVE Exact(requests[k], k)'
  <2>1. k \in 1..j + 1 /\ j \in Nat
    BY <1>3, <1>6
  <2>2. PICK r : r = requests'[k]
    OBVIOUS
  <2>3. Exact(r, k)
    <3>1. CASE k = j + 1
      <4>1. r = uri
        BY <1>3, <1>6, <2>2, <3>1
      <4> QED
        BY <1>2, <3>1, <4>1
    <3>2. CASE k # j + 1
      <4>1. k \in DOMAIN requests /\ r = requests[k]
        BY <1>3, <1>6, <2>1, <2>2, <3>2
      <4> QED
        BY <4>1, ExactIs
    <3> QED
      BY <3>1, <3>2
  <2>4. Exact(r, k)'
    BY <1>5, <2>3, ExactSame
  <2> QED
    BY <2>2, <2>4 DEF Exact, Unique, Vals
<1> QED
  BY <1>7, ExactNext

LEMMA RequestStep == LocInv /\ RequestsExact /\ [Next]_vars => RequestsExact'
<1> SUFFICES ASSUME LocInv, RequestsExact, [Next]_vars PROVE RequestsExact'
  OBVIOUS
<1>1. IsInfo(ki)
  BY DEF LocInv, Progress
<1>2. CASE Main
  <2>1. requests = << >> /\ requests' = requests
    BY <1>2 DEF Main, LocInv, google
  <2> QED
    BY <2>1, NoRequests
<1>3. CASE Search
  BY <1>3, NoRequests DEF Search
<1>4. CASE NetSearch
  <2>1. argv' = argv /\ requests' = requests /\ \E locs : ki' = kcn_info_loc_add(ki, locs)
    BY <1>4 DEF NetSearch, google
  <2>2. Same
    BY <1>1, <2>1, InfoAdd DEF Same
  <2> QED
    BY <2>1, <2>2, SameRequests
<1>5. CASE GooglePage
  BY <1>5, PageRequests
<1>6. CASE GoogleEnd \/ PrintLocs \/ Ended \/ UNCHANGED vars
  <2>1. UNCHANGED <<argv, ki, requests>>
    BY <1>6 DEF GoogleEnd, PrintLocs, Ended, vars, args, google
  <2> QED
    BY <2>1, SameRequests DEF Same
<1> QED
  BY <1>2, <1>3, <1>4, <1>5, <1>6 DEF Next

(* Every request is one string that gives each parameter once: the pages   *)
(* follow each other without a gap or an overlap, and the service decodes  *)
(* the keywords, the country and the address that were given, whatever     *)
(* characters they are made of (kcn_google.c:179-207, kcn_uri.c:29-138).   *)
THEOREM RequestsAreExact == Spec => []RequestsExact
<1>1. Init => RequestsExact
  BY DEF Init, RequestsExact
<1> QED
  BY <1>1, RequestStep, Locates, PTL DEF Spec
=============================================================================
