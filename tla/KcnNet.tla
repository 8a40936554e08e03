-------------------------------- MODULE KcnNet --------------------------------
(***************************************************************************)
(* The connections of lib/kcn_net.c: a socket, a read and a write event of *)
(* libevent with a timeout each, an input buffer and a queue of output.    *)
(* A peer is a client process (key2loc, kcndbctl) or a thread of kcndbd;   *)
(* each client makes one connection, and a thread serves one at a time.    *)
(* Between its callbacks a peer is in the event loop ("loop").             *)
(*                                                                         *)
(* The sockets and libevent are external, as kcn_net.c uses them: an event *)
(* is raised once and then has to be added again, and its timeout may be   *)
(* raised whenever it is pending.                                          *)
(***************************************************************************)
EXTENDS KcnMsg, FiniteSets

CONSTANTS
    Client,   \* client processes
    Server,   \* threads of the server
    Nobody,   \* a thread that waits for a connection serves nobody
    BUFSIZ,   \* KCN_MSG_MAXSIZ in cells
    SNDBUF,   \* cells in flight to one end
    BACKLOG,  \* KCN_SOCKET_LISTEN_BACKLOG
    Faults    \* what may happen of what NetAssumption lists

ASSUME NetAssumption ==
    /\ Client \cap Server = {} /\ Nobody \notin Client \cup Server
    /\ BUFSIZ \in Nat /\ BUFSIZ >= KCN_MSG_HDRSIZ + KCN_MSG_BODYSIZ
    /\ SNDBUF \in Nat \ {0} /\ BACKLOG \in Nat \ {0}
    /\ Faults \subseteq 
         {"refuse", "timeout", "early", "exit", "search", "add", "nameless"}

VARIABLES
    kn_state, \* peer -> state of its connection
    evread,   \* peer -> whether its read event is pending
    evwrite,  \* peer -> whether its write event is pending
    ibuf,     \* peer -> kn_ibuf
    obufq,    \* peer -> kn_obufq: of each buffer, what is still to be written
    pc,       \* peer -> where it is
    peer,     \* thread -> the client it serves
    sock,     \* client -> state of its connection in the kernel
    queue,    \* connections to be accepted
    wire,     \* end -> cells in flight to it
    closed,   \* the ends that have been closed
    reset     \* the ends whose data in flight may be lost

Peer == Client \cup Server

(* The two ends of a connection.                                           *)
Ends == Client \X {"client", "server"}

End(p) == IF p \in Client THEN <<p, "client">> ELSE <<peer[p], "server">>

Other(e) == <<e[1], IF e[2] = "client" THEN "server" ELSE "client">>

net == <<kn_state, evread, evwrite>>
buf == <<ibuf, obufq>>
tcp == <<sock, queue, wire, closed, reset>>

NetInit ==
    /\ kn_state = [p \in Peer |-> "DISCONNECTED"]
    /\ evread = [p \in Peer |-> FALSE] /\ evwrite = [p \in Peer |-> FALSE]
    /\ ibuf = [p \in Peer |-> kcn_buf_reset(0)]
    /\ obufq = [p \in Peer |-> << >>]
    /\ sock = [c \in Client |-> "none"]
    /\ queue = << >>
    /\ wire = [e \in Ends |-> << >>]
    /\ closed = {} /\ reset = {}

At(p, where) == pc[p] = where

Goto(p, where) == pc' = [pc EXCEPT ![p] = where]

-----------------------------------------------------------------------------
(* What the handlers of kcn_net.c do to the connection of a peer.          *)

(* kcn_net_new and what its caller does at once: the write event is always *)
(* enabled, and reading waits in PENDING until the connection is there.    *)
kcn_net_new(p, state, q) ==
    /\ kn_state' = [kn_state EXCEPT ![p] = state]
    /\ evread' = [evread EXCEPT ![p] = FALSE]
    /\ evwrite' = [evwrite EXCEPT ![p] = TRUE]
    /\ ibuf' = [ibuf EXCEPT ![p] = kcn_buf_reset(0)]
    /\ obufq' = [obufq EXCEPT ![p] = q]

(* kcn_net_state_change to ESTABLISHED enables the reading that waited.    *)
kcn_net_established(p) ==
    /\ kn_state' = [kn_state EXCEPT ![p] = "ESTABLISHED"]
    /\ evread' = [evread EXCEPT ![p] = @ \/ kn_state[p] = "PENDING"]

(* kcn_net_read_enable of a connection that is established.                *)
kcn_net_read_enable(p) ==
    /\ evread' = [evread EXCEPT ![p] = TRUE]
    /\ UNCHANGED <<kn_state, evwrite>>

(* Mutant of the next: an event that has been raised is not added again.   *)
kcn_net_write_enable_once(p) == UNCHANGED evwrite

kcn_net_write_enable(p) == evwrite' = [evwrite EXCEPT ![p] = TRUE]

(* kcn_net_write of some messages.                                         *)
kcn_net_write(p, msgs) ==
    /\ obufq' = [obufq EXCEPT ![p] = @ \o msgs]
    /\ kcn_net_write_enable(p)
    /\ UNCHANGED <<kn_state, evread>>

(* Mutants of the next: one of the events is not deleted.                  *)
kcn_net_disconnect_writing(p) ==
    /\ kn_state' = [kn_state EXCEPT ![p] = "DISCONNECTED"]
    /\ evread' = [evread EXCEPT ![p] = FALSE]
    /\ closed' = closed \cup {End(p)}
    /\ UNCHANGED <<evwrite, sock, queue, wire, reset>>
kcn_net_disconnect_reading(p) ==
    /\ kn_state' = [kn_state EXCEPT ![p] = "DISCONNECTED"]
    /\ evwrite' = [evwrite EXCEPT ![p] = FALSE]
    /\ closed' = closed \cup {End(p)}
    /\ UNCHANGED <<evread, sock, queue, wire, reset>>

(* kcn_net_disconnect.  Data that the end has not read are answered with a *)
(* reset, which may overtake what is in flight to the other end.           *)
kcn_net_disconnect(p) ==
    /\ kn_state' = [kn_state EXCEPT ![p] = "DISCONNECTED"]
    /\ evread' = [evread EXCEPT ![p] = FALSE]
    /\ evwrite' = [evwrite EXCEPT ![p] = FALSE]
    /\ IF kn_state[p] = "DISCONNECTED"
       THEN UNCHANGED <<closed, reset>>
       ELSE /\ closed' = closed \cup {End(p)}
            /\ reset' = IF wire[End(p)] # << >>
                        THEN reset \cup {Other(End(p))} ELSE reset
    /\ UNCHANGED <<sock, queue, wire>>

-----------------------------------------------------------------------------
(* The kernel: a connection is established and waits to be accepted, or it *)
(* is refused.                                                             *)

Established(c) ==
    /\ sock[c] = "connecting" /\ <<c, "client">> \notin closed
    /\ Len(queue) < BACKLOG
    /\ sock' = [sock EXCEPT ![c] = "connected"]
    /\ queue' = Append(queue, c)
    /\ UNCHANGED <<net, buf, pc, peer, wire, closed, reset>>

Refused(c) ==
    /\ "refuse" \in Faults
    /\ sock[c] = "connecting"
    /\ sock' = [sock EXCEPT ![c] = "refused"]
    /\ UNCHANGED <<net, buf, pc, peer, queue, wire, closed, reset>>

Broken(e) == sock[e[1]] = "refused" \/ e \in reset

Gone(e) == Other(e) \in closed

Readable(e) == Broken(e) \/ Gone(e) \/ wire[e] # << >>

Room(e) == SNDBUF - Len(wire[Other(e)])

Writable(e) ==
    \/ Broken(e)
    \/ sock[e[1]] = "connected" /\ (Gone(e) \/ Room(e) > 0)

AtMost(x, y) == 1..(IF x < y THEN x ELSE y)

-----------------------------------------------------------------------------
(* The callbacks.                                                          *)

(* kcn_net_read_cb and kcn_buf_read.  Data go to the callback of the user  *)
(* ("recv"); an error or the end of the data disconnects.                  *)
ReadCb(p) ==
    LET e == End(p)
        into == kcn_buf_read_into(ibuf[p], BUFSIZ)
    IN  /\ At(p, "loop") /\ evread[p]
        /\ Readable(e)
        /\ \/ /\ wire[e] # << >>
              /\ \E n \in AtMost(Len(wire[e]), kcn_buf_trailingspace(into, BUFSIZ)) :
                    /\ ibuf' = [ibuf EXCEPT ![p] =
                                    kcn_buf_fill(into, SubSeq(wire[e], 1, n))]
                    /\ wire' = [wire EXCEPT ![e] = SubSeq(@, n + 1, Len(@))]
              /\ evread' = [evread EXCEPT ![p] = FALSE]
              /\ Goto(p, "recv")
              /\ UNCHANGED <<kn_state, evwrite, sock, queue, closed, reset>>
           \/ /\ Broken(e) \/ wire[e] = << >>
              /\ kcn_net_disconnect(p)
              /\ UNCHANGED <<ibuf, pc>>
        /\ UNCHANGED <<obufq, peer>>

(* What kcn_net_read_cb does with the result of the callback: wait for     *)
(* more, leave the event disabled, or disconnect.                          *)
ReadCbOut(p, error) ==
    /\ \/ error = "EAGAIN" /\ kcn_net_read_enable(p) /\ UNCHANGED tcp
       \/ error = "0" /\ UNCHANGED <<net, tcp>>
       \/ error \notin {"EAGAIN", "0"} /\ kcn_net_disconnect(p)
    /\ Goto(p, "loop")

(* Mutant of the next: a timeout is taken for nothing to read.             *)
ReadTimeoutWaits(p) ==
    /\ "timeout" \in Faults
    /\ At(p, "loop") /\ evread[p]
    /\ kcn_net_read_enable(p)
    /\ UNCHANGED <<buf, pc, peer, tcp>>

(* kcn_net_event_check of a read event that only timed out.                *)
ReadTimeout(p) ==
    /\ "timeout" \in Faults
    /\ At(p, "loop") /\ evread[p]
    /\ kcn_net_disconnect(p)
    /\ UNCHANGED <<buf, pc, peer>>

(* kcn_net_write_cb, up to its loop.                                       *)
WriteCb(p) ==
    /\ At(p, "loop") /\ evwrite[p]
    /\ Writable(End(p))
    /\ kcn_net_established(p)
    /\ evwrite' = [evwrite EXCEPT ![p] = FALSE]
    /\ Goto(p, "write")
    /\ UNCHANGED <<buf, peer, tcp>>

(* A write event that only timed out is taken for a mistake of libevent's  *)
(* while the connection is PENDING, as if it had been established.         *)
WriteTimeout(p) ==
    /\ At(p, "loop") /\ evwrite[p]
    /\ \/ /\ "early" \in Faults
          /\ kn_state[p] = "PENDING"
          /\ kcn_net_established(p)
          /\ evwrite' = [evwrite EXCEPT ![p] = FALSE]
          /\ UNCHANGED tcp
       \/ /\ "timeout" \in Faults
          /\ kn_state[p] # "PENDING"
          /\ kcn_net_disconnect(p)
    /\ UNCHANGED <<buf, pc, peer>>

(* Mutant of the next: a buffer of which nothing is left stays.            *)
WrittenKept(q, n) ==
    <<SubSeq(Head(q), n + 1, Len(Head(q)))>> \o Tail(q)

(* The queue when n cells of its first buffer are written: the buffer is   *)
(* dropped when nothing of it is left.                                     *)
Written(q, n) ==
    LET rest == SubSeq(Head(q), n + 1, Len(Head(q)))
    IN  IF rest = << >> THEN Tail(q) ELSE <<rest>> \o Tail(q)

(* One turn of the loop of kcn_net_write_cb.  A write to an end that has   *)
(* been closed may be taken by the kernel and lost, or fail.               *)
Write(p) ==
    LET e == End(p)
        q == obufq[p]
    IN  /\ At(p, "write")
        /\ \/ /\ q = << >>
              /\ Goto(p, "loop")
              /\ UNCHANGED <<net, obufq, tcp>>
           \/ /\ q # << >> /\ (Broken(e) \/ Gone(e))
              /\ kcn_net_disconnect(p)
              /\ Goto(p, "loop")
              /\ UNCHANGED obufq
           \/ /\ q # << >> /\ ~ Broken(e) /\ Gone(e)
              /\ \E n \in 1..Len(Head(q)) :
                    obufq' = [obufq EXCEPT ![p] = Written(@, n)]
              /\ reset' = reset \cup {e}
              /\ UNCHANGED <<net, pc, sock, queue, wire, closed>>
           \/ /\ q # << >> /\ ~ Broken(e) /\ ~ Gone(e) /\ Room(e) = 0
              /\ kcn_net_write_enable(p)
              /\ Goto(p, "loop")
              /\ UNCHANGED <<kn_state, evread, obufq, tcp>>
           \/ /\ q # << >> /\ ~ Broken(e) /\ ~ Gone(e)
              /\ \E n \in AtMost(Len(Head(q)), Room(e)) :
                    /\ wire' = [wire EXCEPT ![Other(e)] = @ \o SubSeq(Head(q), 1, n)]
                    /\ obufq' = [obufq EXCEPT ![p] = Written(@, n)]
              /\ UNCHANGED <<net, pc, sock, queue, closed, reset>>
        /\ UNCHANGED <<ibuf, peer>>

(* event_base_dispatch returns when no event is pending.                   *)
Dispatched(p) == At(p, "loop") /\ ~ evread[p] /\ ~ evwrite[p]
=============================================================================
