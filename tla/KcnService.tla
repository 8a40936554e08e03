------------------------------ MODULE KcnService ------------------------------
(***************************************************************************)
(* The service of kcndbd: clients that search (key2loc: kcn_client.c) or   *)
(* add records (kcndbctl: kcndbctl_msg.c, kcndbctl_file.c), and the        *)
(* threads that serve them one after the other (kcndb_server.c) over the   *)
(* connections of KcnNet.  The table behind it is the module KcndbTable: a *)
(* search gives what Answers says, or does not return while it waits for   *)
(* the lock.                                                               *)
(***************************************************************************)
EXTENDS KcnNet, SequencesExt

CONSTANTS
    Job,     \* client -> [kind, max, recs]: what it was started for
    Matches  \* the locators of the records that match a query, in order

ASSUME JobAssumption ==
    /\ Job \in [Client -> [kind : {"query", "msg", "file"}, max : Nat,
                           recs : Seq(Rec)]]
    /\ \A c \in Client : /\ Job[c].kind = "query" => Job[c].max > 0
                         /\ Job[c].kind = "msg" => Len(Job[c].recs) = 1
    /\ Matches \in Seq(Loc)
    /\ {"ESRCH", "EIO"} \subseteq Errno /\ Errno \cap {"none", "ok"} = {}

VARIABLES
    errno,     \* client -> errno
    kcr_error, \* client -> kcr_error of kcn_client_search
    got,       \* client -> ki_locs, the locators it was given
    unsent,    \* client -> the lines of its file that are left
    result,    \* client -> "none", or how it ended: "ok" or an error
    answered,  \* client -> the answer the server has given, at most one
    stored     \* client -> the records of it that were added

client == <<errno, kcr_error, got, unsent, result>>
database == <<answered, stored>>
vars == <<net, buf, tcp, pc, peer, client, database>>

Init ==
    /\ NetInit
    /\ pc = [p \in Peer |-> IF p \in Client THEN "start" ELSE "accept"]
    /\ peer = [s \in Server |-> Nobody]
    /\ errno = [c \in Client |-> "0"] /\ kcr_error = [c \in Client |-> "0"]
    /\ got = [c \in Client |-> << >>] /\ unsent = [c \in Client |-> << >>]
    /\ result = [c \in Client |-> "none"]
    /\ answered = [c \in Client |-> << >>] /\ stored = [c \in Client |-> << >>]

-----------------------------------------------------------------------------
(* Clients.                                                                *)

Done(c, r) ==
    /\ Goto(c, "done")
    /\ result' = [result EXCEPT ![c] = r]

Adds(recs) == [k \in 1..Len(recs) |-> kcn_msg_add_encode(recs[k])]

(* kcn_client_init, whose connect does not wait, and what is sent before   *)
(* the event loop.  Only a query is followed by reading.                   *)
ClientStart(c) ==
    LET job == Job[c]
    IN  /\ At(c, "start")
        /\ \/ /\ \/ /\ job.kind = "query"
                    /\ kcn_net_new(c, "PENDING", <<kcn_msg_query_encode(job.max)>>)
                    /\ UNCHANGED unsent
                 \/ /\ job.kind = "msg"
                    /\ kcn_net_new(c, "INIT", Adds(job.recs))
                    /\ UNCHANGED unsent
                 \/ /\ job.kind = "file"
                    /\ kcn_net_new(c, "INIT", << >>)
                    /\ unsent' = [unsent EXCEPT ![c] = job.recs]
              /\ sock' = [sock EXCEPT ![c] = "connecting"]
              /\ errno' = [errno EXCEPT ![c] = "EINPROGRESS"]
              /\ Goto(c, "loop")
              /\ UNCHANGED result
           \/ /\ "refuse" \in Faults
              /\ Done(c, "ECONNREFUSED")
              /\ UNCHANGED <<net, buf, sock, errno, unsent>>
        /\ UNCHANGED <<queue, wire, closed, reset, peer, kcr_error, got, database>>

(* readfile of kcndbctl_file.c: some of the lines are sent.  When the      *)
(* connection is gone that ends the program.                               *)
FileRead(c) ==
    /\ At(c, "loop") /\ unsent[c] # << >>
    /\ \/ /\ kn_state[c] # "DISCONNECTED"
          /\ \E n \in 1..Len(unsent[c]) :
                /\ kcn_net_write(c, Adds(SubSeq(unsent[c], 1, n)))
                /\ unsent' = [unsent EXCEPT ![c] = SubSeq(@, n + 1, Len(@))]
          /\ UNCHANGED <<pc, result>>
       \/ /\ kn_state[c] = "DISCONNECTED"
          /\ Done(c, "ENETDOWN")
          /\ UNCHANGED <<net, obufq, unsent>>
    /\ UNCHANGED <<ibuf, tcp, peer, errno, kcr_error, got, database>>

(* The locator of a response is added while there is room for it ...       *)
Wanted(c, m) == m.loc # NoLoc /\ Len(got[c]) < Job[c].max

(* ... and otherwise kcn_client_read ends with an error: 0 after the last  *)
(* response, unless that says EAGAIN, which leaves errno as it was.        *)
ReadError(c, m) ==
    IF m.loc # NoLoc THEN "ETOOMANYREFS"
    ELSE IF m.error = "EAGAIN" THEN errno[c] ELSE m.error

(* One turn of the loop of kcn_client_read.                                *)
ClientRecv(c) ==
    LET kb == ibuf[c]
        m  == kcn_msg_body(kb)
        fails(error) ==
            /\ errno' = [errno EXCEPT ![c] = error]
            /\ kcr_error' = [kcr_error EXCEPT ![c] = error]
            /\ ReadCbOut(c, error)
            /\ UNCHANGED got
    IN  /\ At(c, "recv")
        /\ \/ /\ kcn_msg_partial(kb)
              /\ fails("EAGAIN")
              /\ UNCHANGED ibuf
           \/ /\ ~ kcn_msg_partial(kb) /\ Wanted(c, m)
              /\ got' = [got EXCEPT ![c] = Append(@, m.loc)]
              /\ ibuf' = [ibuf EXCEPT ![c] = kcn_msg_decoded(kb)]
              /\ UNCHANGED <<net, tcp, pc, errno, kcr_error>>
           \/ /\ ~ kcn_msg_partial(kb) /\ ~ Wanted(c, m)
              /\ fails(ReadError(c, m))
              /\ ibuf' = [ibuf EXCEPT ![c] = kcn_msg_decoded(kb)]
        /\ UNCHANGED <<obufq, peer, unsent, result, database>>

(* kcn_net_loop has returned: the result, and kcn_client_finish.           *)
ClientEnd(c) ==
    /\ Dispatched(c) /\ unsent[c] = << >>
    /\ Done(c, IF kcr_error[c] = "0" THEN "ok" ELSE kcr_error[c])
    /\ kcn_net_disconnect(c)
    /\ UNCHANGED <<buf, peer, errno, kcr_error, got, unsent, database>>

(* A client is killed, or kcndbctl ends by err(3) at a line that it cannot *)
(* parse: the kernel closes its connection.                                *)
ClientExit(c) ==
    /\ "exit" \in Faults
    /\ pc[c] \notin {"start", "done"}
    /\ Done(c, "exit")
    /\ kcn_net_disconnect(c)
    /\ UNCHANGED <<buf, peer, errno, kcr_error, got, unsent, database>>

-----------------------------------------------------------------------------
(* Threads of the server.                                                  *)

Accept(s) ==
    /\ At(s, "accept") /\ queue # << >>
    /\ peer' = [peer EXCEPT ![s] = Head(queue)]
    /\ queue' = Tail(queue)
    /\ kcn_net_new(s, "PENDING", << >>)
    /\ Goto(s, "loop")
    /\ UNCHANGED <<sock, wire, closed, reset, client, database>>

Received(s, type) ==
    /\ At(s, "recv") /\ ~ kcn_msg_partial(ibuf[s])
    /\ kcn_msg_type(ibuf[s]) = type

Decode(s) == ibuf' = [ibuf EXCEPT ![s] = kcn_msg_decoded(@)]

(* What kcndb_db_search may give: the first locators, and their number is  *)
(* limited; an error after some of them; or no lock.  A record may have    *)
(* been added with a locator of no characters; how a search that finds it  *)
(* ends makes no difference, since nobody reads on behind it.              *)
Answers(max) ==
    LET n == IF Len(Matches) < max THEN Len(Matches) ELSE max
        first(k) == SubSeq(Matches, 1, k)
    IN  {[locs |-> first(n), error |-> IF n = 0 THEN "ESRCH" ELSE "0"]}
        \cup {[locs |-> first(k), error |-> "EIO"] :
                  k \in IF "search" \in Faults THEN 0..n ELSE {}}
        \cup {[locs |-> << >>, error |-> "EAGAIN"] : f \in Faults \cap {"search"}}
        \cup {[locs |-> [first(n) EXCEPT ![k] = NoLoc], error |-> "0"] :
                  k \in IF "nameless" \in Faults THEN 1..n ELSE {}}

(* What a client can tell of an answer: a record without a locator looks   *)
(* like its end, and like success.                                         *)
Shown(a) ==
    LET k == SelectInSeq(a.locs, LAMBDA l : l = NoLoc)
    IN  IF k = 0 THEN a ELSE [locs |-> SubSeq(a.locs, 1, k - 1), error |-> "0"]

(* Mutant of the next: the error of the search is not sent.                *)
ResponsesOk(a) ==
    [k \in 1..Len(a.locs) + 1 |->
        kcn_msg_response_encode("0", IF k <= Len(a.locs) THEN a.locs[k] ELSE NoLoc)]

(* A response for each locator, and one that ends them.                    *)
Responses(a) ==
    [k \in 1..Len(a.locs) + 1 |->
        IF k <= Len(a.locs)
        THEN kcn_msg_response_encode("0", a.locs[k])
        ELSE kcn_msg_response_encode(a.error, NoLoc)]

(* Mutant of the next: the query stays in the buffer.                      *)
SearchAgain(s) ==
    /\ Received(s, "query")
    /\ \E a \in Answers(kcn_msg_body(ibuf[s]).maxcount) :
          /\ kcn_net_write(s, Responses(a))
          /\ answered' = [answered EXCEPT ![peer[s]] = Append(@, a)]
    /\ UNCHANGED <<ibuf, tcp, pc, peer, client, stored>>

(* kcndb_server_query_process.                                             *)
Search(s) ==
    /\ Received(s, "query")
    /\ \E a \in Answers(kcn_msg_body(ibuf[s]).maxcount) :
          /\ kcn_net_write(s, Responses(a))
          /\ answered' = [answered EXCEPT ![peer[s]] = Append(@, a)]
    /\ Decode(s)
    /\ UNCHANGED <<tcp, pc, peer, client, stored>>

(* Mutant of the next: a record that is not added is passed over.          *)
AddProcessGoesOn(s) ==
    /\ Received(s, "add")
    /\ \/ stored' = [stored EXCEPT ![peer[s]] =
                            Append(@, kcn_msg_body(ibuf[s]).rec)]
       \/ "add" \in Faults /\ UNCHANGED stored
    /\ Decode(s)
    /\ UNCHANGED <<net, tcp, pc, obufq, peer, client, answered>>

(* kcndb_server_add_process: nothing is answered, but the connection does  *)
(* not survive a record that is not added.                                 *)
AddProcess(s) ==
    /\ Received(s, "add")
    /\ \/ /\ stored' = [stored EXCEPT ![peer[s]] =
                            Append(@, kcn_msg_body(ibuf[s]).rec)]
          /\ UNCHANGED <<net, tcp, pc>>
       \/ /\ "add" \in Faults
          /\ ReadCbOut(s, "ERANGE")
          /\ UNCHANGED stored
    /\ Decode(s)
    /\ UNCHANGED <<obufq, peer, client, answered>>

(* Everything that was received is processed, or what is left is partial.  *)
RecvEnd(s) ==
    /\ At(s, "recv") /\ kcn_msg_partial(ibuf[s])
    /\ ReadCbOut(s, "EAGAIN")
    /\ UNCHANGED <<buf, peer, client, database>>

(* kcn_net_loop has returned.                                              *)
SessionEnd(s) ==
    /\ Dispatched(s)
    /\ kcn_net_disconnect(s)
    /\ peer' = [peer EXCEPT ![s] = Nobody]
    /\ Goto(s, "accept")
    /\ UNCHANGED <<buf, client, database>>

-----------------------------------------------------------------------------
Callback(p) ==
    /\ \/ ReadCb(p) \/ ReadTimeout(p) \/ WriteCb(p) \/ WriteTimeout(p) \/ Write(p)
    /\ UNCHANGED <<client, database>>

Kernel(c) ==
    /\ Established(c) \/ Refused(c)
    /\ UNCHANGED <<client, database>>

ClientStep(c) ==
    \/ ClientStart(c) \/ FileRead(c) \/ ClientRecv(c) \/ ClientEnd(c)
    \/ Callback(c)

ServerStep(s) ==
    \/ Accept(s) \/ AddProcess(s) \/ RecvEnd(s) \/ SessionEnd(s)
    \/ Callback(s)

Next ==
    \/ \E c \in Client : ClientStep(c) \/ Kernel(c) \/ ClientExit(c)
    \/ \E s \in Server : ServerStep(s) \/ Search(s)

Spec == Init /\ [][Next]_vars

(* Every process runs, and its timers with it; a search may not return.    *)
FairSpec ==
    /\ Spec
    /\ \A c \in Client : WF_vars(ClientStep(c)) /\ WF_vars(Kernel(c))
    /\ \A s \in Server : WF_vars(ServerStep(s))

-----------------------------------------------------------------------------
PeerState == {"INIT", "PENDING", "ESTABLISHED", "DISCONNECTED"}

Error == Errno \cup {"EINPROGRESS", "ETOOMANYREFS"}

(* Types, and the bounds kcn_buf.c asserts of the input buffers.           *)
TypeOK ==
    /\ kn_state \in [Peer -> PeerState]
    /\ evread \in [Peer -> BOOLEAN] /\ evwrite \in [Peer -> BOOLEAN]
    /\ ibuf \in [Peer -> GoodBufs(Cell, BUFSIZ)]
    /\ obufq \in [Peer -> Seq(Seq(Cell) \ {<< >>})]
    /\ \A c \in Client : pc[c] \in {"start", "loop", "recv", "write", "done"}
    /\ \A s \in Server : pc[s] \in {"accept", "loop", "recv", "write"}
    /\ peer \in [Server -> Client \cup {Nobody}]
    /\ sock \in [Client -> {"none", "connecting", "connected", "refused"}]
    /\ queue \in Seq(Client)
    /\ wire \in [Ends -> Seq(Cell)]
    /\ closed \subseteq Ends /\ reset \subseteq Ends
    /\ errno \in [Client -> Error] /\ kcr_error \in [Client -> Error]
    /\ got \in [Client -> Seq(Loc)] /\ unsent \in [Client -> Seq(Rec)]
    /\ result \in [Client -> Error \cup {"none", "ok", "ECONNREFUSED", "ENETDOWN", "exit"}]
    /\ answered \in [Client -> Seq([locs : Seq(Loc \cup {NoLoc}), error : Errno])]
    /\ stored \in [Client -> Seq(Rec)]

(* Events are only pending while the descriptor they are for is open, and  *)
(* reading only when the connection has been established: what the         *)
(* assertions of kcn_net_read_enable (kcn_net.c:185) and of the callbacks  *)
(* (kcn_net.c:241) rely on, whatever was raised, timed out or failed.      *)
(* A socket is never closed for the next client of a thread.               *)
EventsAreLive ==
    \A p \in Peer :
        /\ kn_state[p] = "DISCONNECTED" => ~ evread[p] /\ ~ evwrite[p]
        /\ evread[p] => kn_state[p] = "ESTABLISHED"
        /\ pc[p] \in {"recv", "write"} => kn_state[p] = "ESTABLISHED"
        /\ pc[p] \in {"loop", "recv", "write"} =>
              (kn_state[p] = "DISCONNECTED" <=> End(p) \in closed)

(* Output that is queued has an event that will write it: a connection is  *)
(* not left in the event loop with data that nothing sends.                *)
OutputHasEvent ==
    \A p \in Peer :
        At(p, "loop") /\ obufq[p] # << >> =>
            evwrite[p] \/ kn_state[p] = "DISCONNECTED"

(* A read always finds room: assert(kcn_buf_trailingspace(kb) > 0) of      *)
(* kcn_buf_read (kcn_buf.c:403) holds however the messages were cut.       *)
ReadHasRoom ==
    \A p \in Peer : evread[p] => kcn_buf_read_ok(ibuf[p], BUFSIZ)

(* The service of messages, connections and timeouts implements the search *)
(* of KcnLookup: whatever is cut, refused, late or gone, a client is given *)
(* what the database answered to it, in order, and ends as Outcome says.   *)
Lookup == INSTANCE KcnLookup WITH
    answer <- [c \in Client |-> [k \in DOMAIN answered[c] |-> Shown(answered[c][k])]],
    Wants <- [c \in Client |-> Job[c].max % UINT8],
    Nameless <- "nameless" \in Faults

ImplementsLookup == Lookup!Spec

(* What a client has of an answer is a beginning of it, and the client     *)
(* that succeeds with locators has them all, up to one that is empty: no   *)
(* response is lost, repeated or taken for another client's, however they  *)
(* were cut, and an error that comes after some of them is not missed.     *)
AnswerFaithful ==
    \A c \in Client :
        /\ Len(answered[c]) <= 1
        /\ got[c] # << >> =>
              /\ answered[c] # << >>
              /\ IsPrefix(got[c], Shown(answered[c][1]).locs)
        /\ Job[c].kind = "query" /\ result[c] = "ok" /\ got[c] # << >> =>
              Shown(answered[c][1]) = [locs |-> got[c], error |-> "0"]

(* Records are added in the order of the lines of the file, each once, and *)
(* none after one that could not be added.                                 *)
AddsInOrder ==
    \A c \in Client : IsPrefix(stored[c], Job[c].recs)

(* A client always ends (its loop is kcn_client.c:141), even if the search *)
(* it waits for never does.                                                *)
ClientFinishes == \A c \in Client : <>(pc[c] = "done")

(* A thread whose searches return does not serve a client for ever: it     *)
(* comes back to accept(2) (kcndb_server.c:254).                           *)
ThreadFreed ==
    \A s \in Server : WF_vars(Search(s)) => []<>(pc[s] = "accept")

(* "-n number: the maximum number of locators returned"                    *)
(* (key2loc/main.c:127): a search that ends with ESRCH found nothing,      *)
(* whatever the number.                                                    *)
CountHonoured ==
    \A c \in Client :
        Job[c].kind = "query" /\ result[c] = "ESRCH" => Matches = << >>
=============================================================================
