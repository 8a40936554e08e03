--------------------------- MODULE KcnServiceProofs ---------------------------
(***************************************************************************)
(* Theorems about KcnService, for every set of clients and threads, jobs,  *)
(* sizes of buffers and faults its assumptions allow.                      *)
(***************************************************************************)
EXTENDS KcnService, TLAPS

Active == {"loop", "recv", "write"}

(* The part of the state the events of the connections depend on.          *)
LiveType ==
    /\ kn_state \in [Peer -> PeerState]
    /\ evread \in [Peer -> BOOLEAN] /\ evwrite \in [Peer -> BOOLEAN]
    /\ pc \in [Peer -> Active \cup {"start", "done", "accept"}]
    /\ peer \in [Server -> Client \cup {Nobody}]
    /\ sock \in [Client -> {"none", "connecting", "connected", "refused"}]
    /\ queue \in Seq(Client)
    /\ closed \subseteq Ends

(* A connection is in the queue once, or served by one thread, or neither; *)
(* and its end at the server is not closed before it is served.            *)
ClientsOpen ==
    \A c \in Client : /\ pc[c] # "accept"
                      /\ pc[c] = "start" => sock[c] = "none"
                      /\ pc[c] = "start" => <<c, "client">> \notin closed
                      /\ sock[c] # "connected" => <<c, "server">> \notin closed

ThreadsServe ==
    \A s \in Server : /\ pc[s] \notin {"start", "done"}
                      /\ pc[s] # "accept" => peer[s] \in Client
                      /\ peer[s] \in Client => sock[peer[s]] = "connected"
                      /\ peer[s] \in Client => pc[s] # "accept"
                      /\ peer[s] \in Client =>
                            \A t \in Server : peer[s] = peer[t] => s = t

Queued ==
    \A k \in 1..Len(queue) :
        /\ sock[queue[k]] = "connected"
        /\ <<queue[k], "server">> \notin closed
        /\ \A s \in Server : peer[s] # queue[k]
        /\ \A j \in 1..Len(queue) : queue[j] = queue[k] => j = k

ServedOnce == ClientsOpen /\ ThreadsServe /\ Queued

LiveInv == LiveType /\ ServedOnce /\ EventsAreLive

-----------------------------------------------------------------------------
LEMMA Kinds ==
    /\ Peer = Client \cup Server /\ Client \cap Server = {}
    /\ Nobody \notin Client
    /\ Active = {"loop", "recv", "write"}
    /\ PeerState = {"INIT", "PENDING", "ESTABLISHED", "DISCONNECTED"}
  BY NetAssumption DEF Peer, Active, PeerState

(* Two connections that are in use have different ends.                    *)
LEMMA EndsDiffer ==
    ASSUME LiveInv, NEW p \in Peer, NEW q \in Peer,
           pc[p] \in Active, pc[q] \in Active, p # q
    PROVE  End(p) \in Ends /\ End(p) # End(q)
  BY Kinds DEF LiveInv, LiveType, ServedOnce, ClientsOpen, ThreadsServe, Queued, End, Ends, Active

LEMMA EndIn ==
    ASSUME LiveInv, NEW p \in Peer, pc[p] \in Active
    PROVE  End(p) \in Ends
  BY Kinds DEF LiveInv, LiveType, ServedOnce, ClientsOpen, ThreadsServe, Queued, End, Ends, Active

(* A peer in use goes on with its events and its place changed, and        *)
(* nothing is opened or closed.                                            *)
LEMMA StaysOpen ==
    ASSUME LiveInv, NEW p \in Peer, pc[p] \in Active,
           NEW where \in Active, Goto(p, where) \/ pc' = pc,
           NEW state \in PeerState, kn_state' = [kn_state EXCEPT ![p] = state],
           NEW er \in BOOLEAN, evread' = [evread EXCEPT ![p] = er],
           NEW ew \in BOOLEAN, evwrite' = [evwrite EXCEPT ![p] = ew],
           state = "DISCONNECTED" <=> kn_state[p] = "DISCONNECTED",
           state = "DISCONNECTED" => ~ er /\ ~ ew,
           er => state = "ESTABLISHED",
           pc'[p] \in {"recv", "write"} => state = "ESTABLISHED",
           UNCHANGED <<peer, sock, queue, closed>>
    PROVE  LiveInv'
<1>1. LiveType'
  BY Kinds DEF LiveInv, LiveType, Goto
<1>2. ServedOnce'
  BY Kinds DEF LiveInv, LiveType, ServedOnce, ClientsOpen, ThreadsServe, Queued, Goto
<1>3. EventsAreLive'
  <2> SUFFICES ASSUME NEW q \in Peer
      PROVE  /\ kn_state'[q] = "DISCONNECTED" => ~ evread'[q] /\ ~ evwrite'[q]
             /\ evread'[q] => kn_state'[q] = "ESTABLISHED"
             /\ pc'[q] \in {"recv", "write"} => kn_state'[q] = "ESTABLISHED"
             /\ pc'[q] \in {"loop", "recv", "write"} =>
                   (kn_state'[q] = "DISCONNECTED" <=> End(q)' \in closed')
    BY DEF EventsAreLive
  <2>1. End(q)' = End(q)
    BY DEF End
  <2> QED
    BY <2>1, Kinds DEF LiveInv, LiveType, EventsAreLive, Goto
<1> QED
  BY <1>1, <1>2, <1>3 DEF LiveInv

(* kcn_net_disconnect, of a peer that goes back to its loop or ends.       *)
LEMMA Disconnects ==
    ASSUME LiveInv, NEW p \in Peer, pc[p] \in Active,
           NEW where \in Active \cup {"done", "accept"},
           Goto(p, where) \/ (pc' = pc /\ where = pc[p]),
           where \in {"recv", "write"} => FALSE,
           where = "done" => p \in Client,
           IF where = "accept"
           THEN p \in Server /\ peer' = [peer EXCEPT ![p] = Nobody]
           ELSE peer' = peer,
           kcn_net_disconnect(p)
    PROVE  LiveInv'
<1>1. /\ kn_state' = [kn_state EXCEPT ![p] = "DISCONNECTED"]
      /\ evread' = [evread EXCEPT ![p] = FALSE]
      /\ evwrite' = [evwrite EXCEPT ![p] = FALSE]
      /\ UNCHANGED <<sock, queue>>
      /\ closed' = closed \cup {End(p)}
      /\ End(p) \in Ends
  BY EndIn DEF kcn_net_disconnect, LiveInv, EventsAreLive, Active
<1>2. LiveType'
  BY <1>1, Kinds DEF LiveInv, LiveType, Goto
<1>3. pc' = [pc EXCEPT ![p] = where]
  BY Kinds DEF LiveInv, LiveType, Goto
<1>4. ServedOnce'
  BY <1>1, <1>3, Kinds DEF LiveInv, LiveType, ServedOnce, ClientsOpen, ThreadsServe, Queued, End
<1>5. EventsAreLive'
  <2> SUFFICES ASSUME NEW q \in Peer
      PROVE  /\ kn_state'[q] = "DISCONNECTED" => ~ evread'[q] /\ ~ evwrite'[q]
             /\ evread'[q] => kn_state'[q] = "ESTABLISHED"
             /\ pc'[q] \in {"recv", "write"} => kn_state'[q] = "ESTABLISHED"
             /\ pc'[q] \in {"loop", "recv", "write"} =>
                   (kn_state'[q] = "DISCONNECTED" <=> End(q)' \in closed')
    BY DEF EventsAreLive
  <2>1. CASE q = p
    <3>1. where # "accept" => End(q)' = End(q)
      BY DEF End
    <3> QED
      BY <1>1, <1>3, <2>1, <3>1, Kinds DEF LiveInv, LiveType
  <2>2. CASE q # p
    <3>1. pc'[q] = pc[q] /\ kn_state'[q] = kn_state[q]
          /\ evread'[q] = evread[q] /\ evwrite'[q] = evwrite[q]
      BY <1>1, <1>3, <2>2 DEF LiveInv, LiveType
    <3>2. End(q)' = End(q)
      BY <2>2, Kinds DEF End, LiveInv, LiveType
    <3>3. pc[q] \in Active => End(q) # End(p)
      BY <2>2, EndsDiffer
    <3> QED
      BY <1>1, <3>1, <3>2, <3>3 DEF LiveInv, EventsAreLive, Active
  <2> QED
    BY <2>1, <2>2
<1> QED
  BY <1>2, <1>4, <1>5 DEF LiveInv

-----------------------------------------------------------------------------
(* The actions.                                                            *)

LEMMA LiveInit == Init => LiveInv
<1> SUFFICES ASSUME Init PROVE LiveInv
  OBVIOUS
<1> USE Kinds DEF Init, NetInit
<1>1. LiveType
  BY DEF LiveType, Active, Ends
<1>2. ServedOnce
  BY DEF ServedOnce, ClientsOpen, ThreadsServe, Queued
<1>3. EventsAreLive
  BY DEF EventsAreLive
<1> QED
  BY <1>1, <1>2, <1>3 DEF LiveInv

(* A peer that was in no connection makes a new one, or serves it.         *)
LEMMA ClientStarts ==
    ASSUME LiveInv, NEW c \in Client, ClientStart(c)
    PROVE  LiveInv'
<1> c \in Peer /\ c \notin Server
  BY Kinds
<1>1. CASE UNCHANGED <<net, sock>> /\ pc' = [pc EXCEPT ![c] = "done"]
  <2>1. UNCHANGED <<kn_state, evread, evwrite, peer, sock, queue, closed>>
    BY <1>1 DEF ClientStart, net
  <2>2. LiveType'
    BY <1>1, <2>1, Kinds DEF LiveInv, LiveType
  <2>3. ServedOnce'
    BY <1>1, <2>1, Kinds DEF LiveInv, LiveType, ServedOnce, ClientsOpen, ThreadsServe, Queued
  <2>4. EventsAreLive'
    BY <1>1, <2>1, Kinds DEF LiveInv, LiveType, EventsAreLive, End
  <2> QED
    BY <2>2, <2>3, <2>4 DEF LiveInv
<1>2. CASE \E state \in {"INIT", "PENDING"} :
              /\ kn_state' = [kn_state EXCEPT ![c] = state]
              /\ evread' = [evread EXCEPT ![c] = FALSE]
              /\ evwrite' = [evwrite EXCEPT ![c] = TRUE]
              /\ sock' = [sock EXCEPT ![c] = "connecting"]
              /\ pc' = [pc EXCEPT ![c] = "loop"]
  <2>0. PICK state \in {"INIT", "PENDING"} :
              /\ kn_state' = [kn_state EXCEPT ![c] = state]
              /\ evread' = [evread EXCEPT ![c] = FALSE]
              /\ evwrite' = [evwrite EXCEPT ![c] = TRUE]
              /\ sock' = [sock EXCEPT ![c] = "connecting"]
              /\ pc' = [pc EXCEPT ![c] = "loop"]
    BY <1>2
  <2>a. /\ kn_state'[c] = state /\ ~ evread'[c] /\ sock'[c] = "connecting"
        /\ pc'[c] = "loop"
        /\ \A q \in Peer : q # c => /\ kn_state'[q] = kn_state[q]
                                    /\ evread'[q] = evread[q]
                                    /\ evwrite'[q] = evwrite[q]
                                    /\ pc'[q] = pc[q]
        /\ \A d \in Client : d # c => sock'[d] = sock[d] /\ pc'[d] = pc[d]
    BY <2>0, Kinds DEF LiveInv, LiveType
  <2>1. /\ UNCHANGED <<peer, queue, closed>>
        /\ pc[c] = "start" /\ sock[c] = "none"
        /\ <<c, "client">> \notin closed /\ <<c, "server">> \notin closed
    BY DEF ClientStart, At, LiveInv, ServedOnce, ClientsOpen, ThreadsServe, Queued
  <2>2. LiveType'
    BY <2>0, <2>1, Kinds DEF LiveInv, LiveType
  <2>3. ServedOnce'
    <3>1. \A d \in Client : /\ pc'[d] # "accept"
                            /\ pc'[d] = "start" => sock'[d] = "none"
                                                 /\ <<d, "client">> \notin closed
                            /\ sock'[d] # "connected" => <<d, "server">> \notin closed
      BY <2>a, <2>1 DEF LiveInv, ServedOnce, ClientsOpen, ThreadsServe, Queued
    <3>2. \A s \in Server : pc'[s] = pc[s] /\ peer[s] # c
      BY <2>a, <2>1, Kinds DEF LiveInv, LiveType, ServedOnce, ClientsOpen, ThreadsServe, Queued
    <3>3. \A s \in Server : peer[s] \in Client => sock'[peer[s]] = sock[peer[s]]
      BY <2>a, <3>2
    <3>4. \A k \in 1..Len(queue) : queue[k] # c /\ sock'[queue[k]] = sock[queue[k]]
      BY <2>a, <2>1 DEF LiveInv, LiveType, ServedOnce, ClientsOpen, ThreadsServe, Queued
    <3>5. ClientsOpen'
      BY <2>1, <3>1 DEF ClientsOpen
    <3>6. ThreadsServe'
      BY <2>1, <3>2, <3>3 DEF LiveInv, ServedOnce, ThreadsServe
    <3>7. Queued'
      BY <2>1, <3>4 DEF LiveInv, ServedOnce, Queued
    <3> QED
      BY <3>5, <3>6, <3>7 DEF ServedOnce
  <2>4. EventsAreLive'
    <3>1. \A q \in Peer : End(q)' = End(q)
      BY <2>1 DEF End
    <3>2. End(c)' = <<c, "client">>
      BY DEF End
    <3> QED
      BY <2>a, <2>1, <3>1, <3>2, Kinds DEF LiveInv, EventsAreLive
  <2> QED
    BY <2>2, <2>3, <2>4 DEF LiveInv
<1> QED
  BY <1>1, <1>2 DEF ClientStart, kcn_net_new, Goto, Done

LEMMA Accepts ==
    ASSUME LiveInv, NEW s \in Server, Accept(s)
    PROVE  LiveInv'
<1> DEFINE c == queue[1]
<1>0. /\ Head(queue) = c /\ 1 \in 1..Len(queue) /\ c \in Client
      /\ Len(queue') = Len(queue) - 1
      /\ \A k \in 1..Len(queue') :
            queue'[k] = queue[k + 1] /\ k + 1 \in 1..Len(queue) /\ k + 1 # 1
      /\ queue' \in Seq(Client)
  BY DEF Accept, LiveInv, LiveType
<1>1. /\ sock[c] = "connected" /\ <<c, "server">> \notin closed
      /\ \A t \in Server : peer[t] # c
      /\ \A j \in 1..Len(queue) : queue[j] = c => j = 1
  BY <1>0 DEF LiveInv, ServedOnce, ClientsOpen, ThreadsServe, Queued
<1>2. /\ kn_state' = [kn_state EXCEPT ![s] = "PENDING"]
      /\ evread' = [evread EXCEPT ![s] = FALSE]
      /\ evwrite' = [evwrite EXCEPT ![s] = TRUE]
      /\ peer' = [peer EXCEPT ![s] = c]
      /\ pc' = [pc EXCEPT ![s] = "loop"]
      /\ UNCHANGED <<sock, closed>>
      /\ s \in Peer /\ s \notin Client
  BY <1>0, Kinds DEF Accept, kcn_net_new, Goto
<1>3. /\ kn_state'[s] = "PENDING" /\ ~ evread'[s] /\ pc'[s] = "loop" /\ peer'[s] = c
      /\ \A q \in Peer : q # s => /\ kn_state'[q] = kn_state[q]
                                  /\ evread'[q] = evread[q]
                                  /\ evwrite'[q] = evwrite[q]
                                  /\ pc'[q] = pc[q]
      /\ \A t \in Server : t # s => peer'[t] = peer[t] /\ pc'[t] = pc[t]
      /\ \A d \in Client : pc'[d] = pc[d]
  BY <1>2, Kinds DEF LiveInv, LiveType
<1>4. LiveType'
  BY <1>0, <1>2, Kinds DEF LiveInv, LiveType
<1>5. ServedOnce'
  <2>1. ClientsOpen'
    BY <1>2, <1>3 DEF LiveInv, ServedOnce, ClientsOpen
  <2>2. ThreadsServe'
    BY <1>0, <1>1, <1>2, <1>3 DEF LiveInv, ServedOnce, ThreadsServe
  <2>4. ASSUME NEW k \in 1..Len(queue')
        PROVE  /\ sock'[queue'[k]] = "connected"
               /\ <<queue'[k], "server">> \notin closed'
               /\ \A t \in Server : peer'[t] # queue'[k]
               /\ \A j \in 1..Len(queue') : queue'[j] = queue'[k] => j = k
    <3>1. queue'[k] = queue[k + 1] /\ k + 1 \in 1..Len(queue) /\ queue[k + 1] # c
      BY <1>0, <1>1
    <3>2. ASSUME NEW j \in 1..Len(queue'), queue'[j] = queue'[k]
          PROVE  j + 1 = k + 1
      <4>1. j + 1 \in 1..Len(queue) /\ queue[j + 1] = queue[k + 1]
        BY <1>0, <3>1, <3>2
      <4> QED
        BY <3>1, <4>1 DEF LiveInv, ServedOnce, Queued
    <3>3. \A j \in 1..Len(queue') : j + 1 = k + 1 => j = k
      OBVIOUS
    <3> QED
      BY <1>2, <1>3, <3>1, <3>2, <3>3 DEF LiveInv, ServedOnce, ClientsOpen, ThreadsServe, Queued
  <2> QED
    BY <2>1, <2>2, <2>4 DEF ServedOnce, Queued
<1>6. EventsAreLive'
  <2>1. \A q \in Peer : q # s => End(q)' = End(q)
    BY <1>3, Kinds DEF End
  <2>2. End(s)' = <<c, "server">>
    BY <1>2, <1>3 DEF End
  <2> QED
    BY <1>1, <1>2, <1>3, <2>1, <2>2 DEF LiveInv, EventsAreLive
<1> QED
  BY <1>4, <1>5, <1>6 DEF LiveInv

(* The kernel: a connection enters the queue once.                         *)
LEMMA Connects ==
    ASSUME LiveInv, NEW c \in Client, Kernel(c)
    PROVE  LiveInv'
<1>1. /\ UNCHANGED <<kn_state, evread, evwrite, pc, peer, closed>>
      /\ sock[c] = "connecting"
      /\ \/ sock' = [sock EXCEPT ![c] = "connected"] /\ queue' = Append(queue, c)
         \/ sock' = [sock EXCEPT ![c] = "refused"] /\ queue' = queue
  BY DEF Kernel, Established, Refused, net, buf
<1>2. /\ pc[c] # "start" /\ <<c, "server">> \notin closed
      /\ \A s \in Server : peer[s] # c
  BY <1>1 DEF LiveInv, ServedOnce, ClientsOpen, ThreadsServe
<1>a. \A k \in 1..Len(queue) : queue[k] # c /\ queue[k] \in Client
  <2>1. \A k \in 1..Len(queue) : queue[k] \in Client
    BY DEF LiveInv, LiveType
  <2>2. \A k \in 1..Len(queue) : sock[queue[k]] = "connected"
    BY DEF LiveInv, ServedOnce, Queued
  <2> QED
    BY <1>1, <2>1, <2>2
<1>b. /\ \A d \in Client : d # c => sock'[d] = sock[d]
      /\ sock'[c] \in {"connected", "refused"}
  BY <1>1 DEF LiveInv, LiveType
<1>3. LiveType'
  <2>1. queue' \in Seq(Client)
    <3>1. queue \in Seq(Client) /\ Append(queue, c) \in Seq(Client)
      BY DEF LiveInv, LiveType
    <3> QED
      BY <1>1, <3>1
  <2>2. sock' \in [Client -> {"none", "connecting", "connected", "refused"}]
    BY <1>1 DEF LiveInv, LiveType
  <2> QED
    BY <1>1, <2>1, <2>2 DEF LiveInv, LiveType
<1>4. ServedOnce'
  <2>1. /\ \A d \in Client : /\ pc[d] # "accept"
                             /\ pc[d] = "start" => sock'[d] = "none"
                                                 /\ <<d, "client">> \notin closed
                             /\ sock'[d] # "connected" => <<d, "server">> \notin closed
        /\ \A s \in Server : peer[s] \in Client => sock'[peer[s]] = "connected"
    BY <1>2, <1>a, <1>b DEF LiveInv, ServedOnce, ClientsOpen, ThreadsServe, Queued
  <2>2. \A k \in 1..Len(queue) : sock'[queue[k]] = "connected"
    BY <1>2, <1>a, <1>b DEF LiveInv, ServedOnce, ClientsOpen, ThreadsServe, Queued
  <2>3. CASE queue' = queue
    BY <1>1, <2>1, <2>2, <2>3 DEF LiveInv, ServedOnce, ClientsOpen, ThreadsServe, Queued
  <2>4. CASE queue' = Append(queue, c) /\ sock' = [sock EXCEPT ![c] = "connected"]
    <3>1. /\ Len(queue') = Len(queue) + 1 /\ queue'[Len(queue) + 1] = c
          /\ \A k \in 1..Len(queue) : queue'[k] = queue[k]
          /\ \A k \in 1..Len(queue') : k \in 1..Len(queue) \/ k = Len(queue) + 1
          /\ sock'[c] = "connected"
      BY <2>4 DEF LiveInv, LiveType
    <3>2. ASSUME NEW k \in 1..Len(queue')
          PROVE  /\ sock'[queue'[k]] = "connected"
                 /\ <<queue'[k], "server">> \notin closed
                 /\ \A s \in Server : peer[s] # queue'[k]
                 /\ \A j \in 1..Len(queue') : queue'[j] = queue'[k] => j = k
      BY <1>2, <1>a, <2>2, <3>1 DEF LiveInv, ServedOnce, ClientsOpen, ThreadsServe, Queued
    <3> QED
      BY <1>1, <2>1, <3>2 DEF LiveInv, ServedOnce, ClientsOpen, ThreadsServe, Queued
  <2> QED
    BY <1>1, <2>3, <2>4
<1>5. EventsAreLive'
  BY <1>1 DEF LiveInv, EventsAreLive, End
<1> QED
  BY <1>3, <1>4, <1>5 DEF LiveInv

(* A step that leaves the connections alone but for the output of a peer,  *)
(* which is in use and connected.                                          *)
LEMMA Writes ==
    ASSUME LiveInv, NEW p \in Peer, pc[p] \in Active,
           kn_state[p] # "DISCONNECTED",
           kn_state' = kn_state, evread' = evread,
           evwrite' = [evwrite EXCEPT ![p] = TRUE],
           UNCHANGED <<pc, peer, sock, queue, closed>>
    PROVE  LiveInv'
<1>1. /\ kn_state' = [kn_state EXCEPT ![p] = kn_state[p]] /\ kn_state[p] \in PeerState
      /\ evread' = [evread EXCEPT ![p] = evread[p]] /\ evread[p] \in BOOLEAN
      /\ evread[p] => kn_state[p] = "ESTABLISHED"
      /\ pc'[p] \in {"recv", "write"} => kn_state[p] = "ESTABLISHED"
  BY DEF LiveInv, LiveType, EventsAreLive
<1> QED
  BY <1>1, StaysOpen DEF Active

LEMMA Unchanged ==
    ASSUME LiveInv,
           UNCHANGED <<kn_state, evread, evwrite, pc, peer, sock, queue, closed>>
    PROVE  LiveInv'
  BY DEF LiveInv, LiveType, ServedOnce, ClientsOpen, ThreadsServe, Queued, EventsAreLive, End

(* The callback of the user has returned.                                  *)
LEMMA CallbackReturns ==
    ASSUME LiveInv, NEW p \in Peer, At(p, "recv"), NEW error, ReadCbOut(p, error),
           peer' = peer
    PROVE  LiveInv'
<1> DEFINE st == kn_state[p]
<1>1. /\ pc[p] \in Active /\ st = "ESTABLISHED" /\ st \in PeerState
      /\ kn_state = [kn_state EXCEPT ![p] = st]
      /\ evread = [evread EXCEPT ![p] = evread[p]] /\ evread[p] \in BOOLEAN
      /\ evwrite = [evwrite EXCEPT ![p] = evwrite[p]] /\ evwrite[p] \in BOOLEAN
  BY Kinds DEF LiveInv, LiveType, EventsAreLive, At, Active
<1>2. CASE kcn_net_read_enable(p) /\ UNCHANGED tcp /\ Goto(p, "loop")
  BY <1>1, <1>2, StaysOpen, Kinds DEF kcn_net_read_enable, tcp
<1>3. CASE UNCHANGED <<net, tcp>> /\ Goto(p, "loop")
  BY <1>1, <1>3, StaysOpen, Kinds DEF net, tcp
<1>4. CASE kcn_net_disconnect(p) /\ Goto(p, "loop")
  BY <1>1, <1>4, Disconnects, Kinds
<1> QED
  BY <1>2, <1>3, <1>4 DEF ReadCbOut

-----------------------------------------------------------------------------
(* The steps of a peer.                                                    *)

LEMMA FileReads ==
    ASSUME LiveInv, NEW c \in Client, FileRead(c)
    PROVE  LiveInv'
<1>1. c \in Peer /\ pc[c] \in Active
  BY Kinds DEF FileRead, At
<1>2. UNCHANGED <<peer, sock, queue, closed>>
  BY DEF FileRead, tcp
<1>3. CASE kn_state[c] # "DISCONNECTED"
  <2>1. kn_state' = kn_state /\ evread' = evread /\ pc' = pc
        /\ evwrite' = [evwrite EXCEPT ![c] = TRUE]
    BY <1>3 DEF FileRead, kcn_net_write, kcn_net_write_enable
  <2> QED
    BY <1>1, <1>2, <1>3, <2>1, Writes
<1>4. CASE kn_state[c] = "DISCONNECTED"
  <2>1. UNCHANGED <<kn_state, evread, evwrite>> /\ pc' = [pc EXCEPT ![c] = "done"]
    BY <1>4 DEF FileRead, Done, Goto, net
  <2>2. /\ \A q \in Peer : q # c => pc'[q] = pc[q]
        /\ pc'[c] = "done" /\ c \notin Server
    BY <1>1, <2>1, Kinds DEF LiveInv, LiveType
  <2>3. LiveType'
    BY <1>2, <2>1, Kinds DEF LiveInv, LiveType
  <2>4. ClientsOpen'
    BY <1>2, <2>2, Kinds DEF LiveInv, ServedOnce, ClientsOpen
  <2>5. ThreadsServe'
    BY <1>2, <2>2, Kinds DEF LiveInv, ServedOnce, ThreadsServe
  <2>6. Queued'
    BY <1>2 DEF LiveInv, ServedOnce, Queued
  <2>7. EventsAreLive'
    BY <1>2, <2>1, <2>2 DEF LiveInv, EventsAreLive, End
  <2> QED
    BY <2>3, <2>4, <2>5, <2>6, <2>7 DEF LiveInv, ServedOnce
<1> QED
  BY <1>3, <1>4

LEMMA ClientReceives ==
    ASSUME LiveInv, NEW c \in Client, ClientRecv(c)
    PROVE  LiveInv'
<1>1. c \in Peer /\ At(c, "recv") /\ peer' = peer
  BY Kinds DEF ClientRecv
<1>2. CASE \E error : ReadCbOut(c, error)
  BY <1>1, <1>2, CallbackReturns
<1>3. CASE UNCHANGED <<net, tcp, pc>>
  BY <1>1, <1>3, Unchanged DEF net, tcp
<1> QED
  BY <1>2, <1>3 DEF ClientRecv

LEMMA ClientEnds ==
    ASSUME LiveInv, NEW c \in Client, ClientEnd(c) \/ ClientExit(c)
    PROVE  LiveInv'
<1>1. c \in Peer
  BY Kinds
<1>2. pc[c] \in Active
  BY <1>1, Kinds DEF ClientEnd, ClientExit, Dispatched, At, LiveInv, LiveType,
                     ServedOnce, ClientsOpen
<1>3. kcn_net_disconnect(c) /\ Goto(c, "done") /\ peer' = peer
  BY DEF ClientEnd, ClientExit, Done
<1> QED
  BY <1>1, <1>2, <1>3, Disconnects

LEMMA Searches ==
    ASSUME LiveInv, NEW s \in Server, Search(s)
    PROVE  LiveInv'
<1>1. s \in Peer /\ pc[s] = "recv" /\ pc[s] \in Active
  BY Kinds DEF Search, Received, At
<1>2. kn_state[s] # "DISCONNECTED"
  BY <1>1 DEF LiveInv, EventsAreLive
<1>3. /\ kn_state' = kn_state /\ evread' = evread
      /\ evwrite' = [evwrite EXCEPT ![s] = TRUE]
      /\ UNCHANGED <<pc, peer, sock, queue, closed>>
  BY DEF Search, kcn_net_write, kcn_net_write_enable, tcp
<1> QED
  BY <1>1, <1>2, <1>3, Writes

LEMMA ThreadReceives ==
    ASSUME LiveInv, NEW s \in Server, AddProcess(s) \/ RecvEnd(s)
    PROVE  LiveInv'
<1>1. s \in Peer /\ At(s, "recv") /\ peer' = peer
  BY Kinds DEF AddProcess, RecvEnd, Received
<1>2. CASE \E error : ReadCbOut(s, error)
  BY <1>1, <1>2, CallbackReturns
<1>3. CASE UNCHANGED <<net, tcp, pc>>
  BY <1>1, <1>3, Unchanged DEF net, tcp
<1> QED
  BY <1>2, <1>3 DEF AddProcess, RecvEnd

LEMMA SessionEnds ==
    ASSUME LiveInv, NEW s \in Server, SessionEnd(s)
    PROVE  LiveInv'
<1>1. /\ s \in Peer /\ pc[s] \in Active
      /\ kcn_net_disconnect(s) /\ Goto(s, "accept")
      /\ peer' = [peer EXCEPT ![s] = Nobody]
  BY Kinds DEF SessionEnd, Dispatched, At
<1> DEFINE where == "accept"
<1>2. /\ where \in Active \cup {"done", "accept"} /\ where \notin {"recv", "write", "done"}
      /\ Goto(s, where)
      /\ IF where = "accept"
         THEN s \in Server /\ peer' = [peer EXCEPT ![s] = Nobody]
         ELSE peer' = peer
  BY <1>1
<1> HIDE DEF where
<1> QED
  BY <1>1, <1>2, Disconnects

(* The callbacks of kcn_net.c, of a client or of a thread.                 *)
LEMMA Reads ==
    ASSUME LiveInv, NEW p \in Peer, ReadCb(p) \/ ReadTimeout(p)
    PROVE  LiveInv'
<1>1. pc[p] = "loop" /\ pc[p] \in Active /\ peer' = peer /\ kn_state[p] = "ESTABLISHED"
  BY DEF ReadCb, ReadTimeout, At, Active, LiveInv, EventsAreLive
<1>2. CASE kcn_net_disconnect(p) /\ pc' = pc
  BY <1>1, <1>2, Disconnects
<1>3. CASE /\ evread' = [evread EXCEPT ![p] = FALSE] /\ Goto(p, "recv")
           /\ UNCHANGED <<kn_state, evwrite, sock, queue, closed>>
  <2>1. /\ kn_state' = [kn_state EXCEPT ![p] = "ESTABLISHED"]
        /\ evwrite' = [evwrite EXCEPT ![p] = evwrite[p]] /\ evwrite[p] \in BOOLEAN
    BY <1>1, <1>3 DEF LiveInv, LiveType
  <2> QED
    BY <1>1, <1>3, <2>1, StaysOpen, Kinds
<1> QED
  BY <1>2, <1>3 DEF ReadCb, ReadTimeout

LEMMA WriteEvents ==
    ASSUME LiveInv, NEW p \in Peer, WriteCb(p) \/ WriteTimeout(p)
    PROVE  LiveInv'
<1>1. /\ pc[p] = "loop" /\ pc[p] \in Active /\ peer' = peer
      /\ kn_state[p] # "DISCONNECTED" /\ evread[p] \in BOOLEAN
  BY DEF WriteCb, WriteTimeout, At, Active, LiveInv, EventsAreLive, LiveType
<1>2. CASE /\ kcn_net_established(p) /\ evwrite' = [evwrite EXCEPT ![p] = FALSE]
           /\ UNCHANGED tcp
           /\ Goto(p, "write") \/ pc' = pc
  <2>1. /\ kn_state' = [kn_state EXCEPT ![p] = "ESTABLISHED"]
        /\ evread' = [evread EXCEPT ![p] = evread[p] \/ kn_state[p] = "PENDING"]
        /\ (evread[p] \/ kn_state[p] = "PENDING") \in BOOLEAN
        /\ UNCHANGED <<sock, queue, closed>>
    BY <1>1, <1>2 DEF kcn_net_established, tcp, LiveInv, LiveType
  <2>2. CASE Goto(p, "write")
    BY <1>1, <1>2, <2>1, <2>2, StaysOpen, Kinds
  <2>3. CASE pc' = pc
    BY <1>1, <1>2, <2>1, <2>3, StaysOpen, Kinds
  <2> QED
    BY <1>2, <2>2, <2>3
<1>3. CASE kcn_net_disconnect(p) /\ pc' = pc
  BY <1>1, <1>3, Disconnects
<1> QED
  BY <1>2, <1>3 DEF WriteCb, WriteTimeout

LEMMA WriteTurns ==
    ASSUME LiveInv, NEW p \in Peer, Write(p)
    PROVE  LiveInv'
<1>1. /\ pc[p] = "write" /\ pc[p] \in Active /\ "loop" \in Active
      /\ peer' = peer /\ kn_state[p] = "ESTABLISHED"
      /\ kn_state = [kn_state EXCEPT ![p] = "ESTABLISHED"]
      /\ evread = [evread EXCEPT ![p] = evread[p]] /\ evread[p] \in BOOLEAN
      /\ evwrite = [evwrite EXCEPT ![p] = evwrite[p]] /\ evwrite[p] \in BOOLEAN
  BY DEF Write, At, Active, LiveInv, LiveType, EventsAreLive
<1>2. CASE UNCHANGED <<net, sock, queue, closed>> /\ Goto(p, "loop")
  BY <1>1, <1>2, StaysOpen, Kinds DEF net
<1>3. CASE kcn_net_disconnect(p) /\ Goto(p, "loop")
  BY <1>1, <1>3, Disconnects
<1>4. CASE UNCHANGED <<net, pc, sock, queue, closed>>
  BY <1>1, <1>4, Unchanged DEF net
<1>5. CASE /\ kcn_net_write_enable(p) /\ Goto(p, "loop")
           /\ UNCHANGED <<kn_state, evread, tcp>>
  BY <1>1, <1>5, StaysOpen, Kinds DEF kcn_net_write_enable, tcp
<1> QED
  BY <1>2, <1>3, <1>4, <1>5 DEF Write, tcp

LEMMA Callbacks ==
    ASSUME LiveInv, NEW p \in Peer, Callback(p)
    PROVE  LiveInv'
  BY Reads, WriteEvents, WriteTurns DEF Callback

-----------------------------------------------------------------------------
LEMMA LiveStep == LiveInv /\ [Next]_vars => LiveInv'
<1> SUFFICES ASSUME LiveInv, [Next]_vars PROVE LiveInv'
  OBVIOUS
<1>1. CASE UNCHANGED vars
  BY <1>1, Unchanged DEF vars, net, tcp
<1>2. CASE \E c \in Client : ClientStep(c) \/ Kernel(c) \/ ClientExit(c)
  <2>1. PICK c \in Client : ClientStep(c) \/ Kernel(c) \/ ClientExit(c)
    BY <1>2
  <2>2. c \in Peer
    BY Kinds
  <2> QED
    BY <2>1, <2>2, ClientStarts, FileReads, ClientReceives, ClientEnds, Connects,
       Callbacks DEF ClientStep
<1>3. CASE \E s \in Server : ServerStep(s) \/ Search(s)
  <2>1. PICK s \in Server : ServerStep(s) \/ Search(s)
    BY <1>3
  <2>2. s \in Peer
    BY Kinds
  <2> QED
    BY <2>1, <2>2, Accepts, Searches, ThreadReceives, SessionEnds, Callbacks
       DEF ServerStep
<1> QED
  BY <1>1, <1>2, <1>3 DEF Next

(* No event of libevent is pending for a descriptor that is closed, and    *)
(* reading waits for the connection (kcn_net.c:185, kcn_net.c:241), for    *)
(* any number of clients and threads, whatever is refused, late or gone.   *)
THEOREM ConnectionsAreLive == Spec => []EventsAreLive
<1>1. LiveInv => EventsAreLive
  BY DEF LiveInv
<1> QED
  BY LiveInit, LiveStep, <1>1, PTL DEF Spec

(* A connection is served by one thread at most, and the descriptor of one *)
(* that waits to be accepted is not closed.                                *)
THEOREM ConnectionsServedOnce == Spec => []ServedOnce
<1>1. LiveInv => ServedOnce
  BY DEF LiveInv
<1> QED
  BY LiveInit, LiveStep, <1>1, PTL DEF Spec
=============================================================================
