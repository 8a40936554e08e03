------------------------------ MODULE KcnLookup ------------------------------
(***************************************************************************)
(* What a search over the network promises, without messages, connections  *)
(* or timeouts: the database answers a client at most once, the client is  *)
(* given the locators of the answer one after the other, and it ends once. *)
(* A client that only adds records asks for no locators.                   *)
(***************************************************************************)
EXTENDS KcnInfo

CONSTANTS
    Client,
    Wants,   \* client -> the number of locators it asks the database for
    Matches, \* the locators there are
    Nameless, \* whether records without a locator may hide those behind them
    Errno    \* what an answer may say, "0" for success

VARIABLES
    answer, \* client -> the answer to it, at most one
    got,    \* client -> the locators it has
    result  \* client -> "none", or how it ended: "ok" or an error

vars == <<answer, got, result>>

All(c) == FirstOf(Matches, Wants[c])

Answered(c) == IF answer[c] = << >> THEN << >> ELSE answer[c][1].locs

Init ==
    /\ answer = [c \in Client |-> << >>]
    /\ got = [c \in Client |-> << >>]
    /\ result = [c \in Client |-> "none"]

(* Success means all the locators, and some, unless one is hidden.         *)
Answer(c) ==
    /\ answer[c] = << >>
    /\ \E error \in Errno, k \in 0..Len(All(c)) :
          /\ error = "0" => Nameless \/ (k > 0 /\ k = Len(All(c)))
          /\ answer' = [answer EXCEPT ![c] =
                           <<[locs |-> SubSeq(All(c), 1, k), error |-> error]>>]
    /\ UNCHANGED <<got, result>>

Receive(c) ==
    /\ result[c] = "none" /\ answer[c] # << >>
    /\ Len(got[c]) < Len(answer[c][1].locs)
    /\ got' = [got EXCEPT ![c] = Append(@, answer[c][1].locs[Len(@) + 1])]
    /\ UNCHANGED <<answer, result>>

Failure == Errno \cup {"ETOOMANYREFS", "ECONNREFUSED", "ENETDOWN", "EINPROGRESS",
                       "EINVAL", "exit"}

(* Success with locators is the success of the database.                   *)
End(c) ==
    /\ result[c] = "none"
    /\ \E r \in Failure \cup {"ok"} :
          /\ result' = [result EXCEPT ![c] = r]
          /\ Outcome(IF r = "ok" THEN "0" ELSE r, got[c], Answered(c))
          /\ r = "ok" /\ got[c] # << >> => answer[c][1].error = "0"
    /\ UNCHANGED <<answer, got>>

Next == \E c \in Client : Answer(c) \/ Receive(c) \/ End(c)

Spec == Init /\ [][Next]_vars
=============================================================================
