----------------------------- MODULE KcndbTable -----------------------------
(***************************************************************************)
(* What a table of the KCN database promises to the server's threads,      *)
(* without files, buffers, hash table or lock: a log of records in the     *)
(* order of their times that only grows.  A thread calls with a request    *)
(* (kcndb_db_record_add or kcndb_db_search), the call takes effect in one  *)
(* step, and its result is returned.  A crash forgets the calls and keeps  *)
(* the log.  An add may damage the table for good, as a link that          *)
(* kcndb_db_loc_add writes over an entry does: then no promise is kept.    *)
(***************************************************************************)
EXTENDS KcnEq

CONSTANTS Thread, AddReqs, Queries, NoReq

VARIABLES
    damaged, \* whether the table is beyond its promises
    log,     \* the records, as [time, val, loc]
    req,     \* thread -> the request it is in, or NoReq
    ret,     \* thread -> the result of the call, or "none" while it runs
    ans      \* thread -> the locators the call has sent

vars == <<damaged, log, req, ret, ans>>

(* The locators of the first q.max matching records, oldest first: those   *)
(* of a part of the log that has so many, or of all of it.                 *)
Answer(s, q, locs) ==
    /\ Len(locs) <= q.max
    /\ \E n \in 0..Len(s) :
          /\ Selection(SubSeq(s, 1, n), q, locs)
          /\ Len(locs) = q.max \/ n = Len(s)

Lists(s, max) == UNION {[1..n -> {s[k].loc : k \in 1..Len(s)}] : n \in 0..max}

Init ==
    /\ damaged = FALSE /\ log = << >>
    /\ req = [t \in Thread |-> NoReq]
    /\ ret = [t \in Thread |-> "none"]
    /\ ans = [t \in Thread |-> << >>]

Running(t) == req[t] # NoReq /\ ret[t] = "none"

Call(t, r) ==
    /\ req[t] = NoReq
    /\ req' = [req EXCEPT ![t] = r]
    /\ UNCHANGED <<damaged, log, ret, ans>>

InOrder(s, r) == s # << >> => s[Len(s)].time <= r.time

AddDone(t) ==
    /\ Running(t) /\ req[t] \in AddReqs
    /\ InOrder(log, req[t])
    /\ log' = Append(log, req[t])
    /\ ret' = [ret EXCEPT ![t] = "ok"]
    /\ UNCHANGED <<damaged, req, ans>>

AddTooOld(t) ==
    /\ Running(t) /\ req[t] \in AddReqs
    /\ ~ InOrder(log, req[t])
    /\ ret' = [ret EXCEPT ![t] = "ERANGE"]
    /\ UNCHANGED <<damaged, log, req, ans>>

(* The chain of the locator is broken (see LocLink of KcndbDb).            *)
AddFailed(t) ==
    /\ Running(t) /\ req[t] \in AddReqs
    /\ \E r \in {"ESHUTDOWN", "EINVAL"} : ret' = [ret EXCEPT ![t] = r]
    /\ UNCHANGED <<damaged, log, req, ans>>

(* An add damages the table, which says nothing of the log ...             *)
Damage(t) ==
    /\ Running(t) /\ req[t] \in AddReqs
    /\ damaged' = TRUE
    /\ UNCHANGED <<req, ret, ans>>

(* ... and thereafter nothing is promised.                                 *)
Ruined == damaged /\ damaged' = TRUE

Found(t) ==
    /\ Running(t) /\ req[t] \in Queries
    /\ \E locs \in Lists(log, req[t].max) :
          /\ locs # << >> /\ Answer(log, req[t], locs)
          /\ ans' = [ans EXCEPT ![t] = locs]
    /\ ret' = [ret EXCEPT ![t] = "ok"]
    /\ UNCHANGED <<damaged, log, req>>

NotFound(t) ==
    /\ Running(t) /\ req[t] \in Queries
    /\ Answer(log, req[t], << >>)
    /\ ret' = [ret EXCEPT ![t] = "ESRCH"]
    /\ UNCHANGED <<damaged, log, req, ans>>

(* The lock has no room for one more reader.                               *)
Busy(t) ==
    /\ Running(t) /\ req[t] \in Queries
    /\ ret' = [ret EXCEPT ![t] = "EAGAIN"]
    /\ UNCHANGED <<damaged, log, req, ans>>

Return(t) ==
    /\ ret[t] # "none"
    /\ req' = [req EXCEPT ![t] = NoReq]
    /\ ret' = [ret EXCEPT ![t] = "none"]
    /\ ans' = [ans EXCEPT ![t] = << >>]
    /\ UNCHANGED <<damaged, log>>

Crash ==
    /\ req' = [t \in Thread |-> NoReq]
    /\ ret' = [t \in Thread |-> "none"]
    /\ ans' = [t \in Thread |-> << >>]
    /\ UNCHANGED <<damaged, log>>

Next ==
    \/ \E t \in Thread :
          \/ \E r \in AddReqs \cup Queries : Call(t, r)
          \/ AddDone(t) \/ AddTooOld(t) \/ AddFailed(t)
          \/ Damage(t)
          \/ Found(t) \/ NotFound(t) \/ Busy(t)
          \/ Return(t)
    \/ Crash
    \/ Ruined

Spec == Init /\ [][Next]_vars
=============================================================================
