------------------------------ MODULE FrontEnd ------------------------------
(***************************************************************************)
(* ConnectServer (connectServer/) between its clients and the broker: the  *)
(* table of connections with its indexes that are used again, the two      *)
(* buffers of each connection, and the two rings of ShmQueue.tla, each a   *)
(* FIFO that refuses a packet when it is full.                             *)
(*                                                                         *)
(* ConnectServer is one thread, Run: wait for events, read and forward     *)
(* what the clients sent, take the broker's packets into the connections'  *)
(* send buffers, send the buffers.  A connection is a TCP byte stream: a   *)
(* request is cut into Parts units that arrive in pieces.  Sizes are       *)
(* counted in packets.  The other end of the rings is LogicServer, reduced *)
(* to what the front end depends on: it remembers for whom it works, waits *)
(* for room when it pushes and drops a reply when there is none            *)
(* (Broker.tla has the rest).                                              *)
(***************************************************************************)
EXTENDS Integers, Sequences, FiniteSets, SequencesExt, SeqOps

CONSTANTS CLIENT_EPOLL_COUNT, \* connection objects
          MaxConns,     \* bound: connections clients ever make
          MaxRequests,  \* bound: requests of all connections
          MaxPushes,    \* bound: packets the broker sends unasked
          Parts,        \* units of a request
          ToLogicCap,   \* packets CONNECT_TO_LOGIC holds
          ToConnectCap, \* packets LOGIC_TO_CONNECT holds (a ring holds bytes)
          RecvCap,      \* units a receive buffer holds, and a send buffer too
          SendCap,      \* packets a send buffer holds
          SockCap,      \* packets a client's socket holds unread
          Batch         \* packets after which the clock may end a round (100)

ASSUME FrontEndAssumption ==
  /\ CLIENT_EPOLL_COUNT \in Nat \ {0}
  /\ MaxConns \in Nat /\ MaxRequests \in Nat /\ MaxPushes \in Nat
  /\ Parts \in Nat \ {0} /\ RecvCap \in Nat /\ RecvCap >= Parts /\ Batch \in Nat \ {0}
  /\ ToLogicCap \in Nat \ {0} /\ ToConnectCap \in Nat \ {0}
  /\ SendCap \in Nat \ {0} /\ SockCap \in Nat /\ SockCap >= SendCap

Slots == 0 .. CLIENT_EPOLL_COUNT - 1
Conns == 1 .. MaxConns
NoConn == 0
\* Init gives the listening socket the first connection object.
ListenSlot == 0

VARIABLES
  client,         \* connection -> idle, open or closed, as its client sees it
  sent,           \* connection -> requests its client has sent
  requests,       \* bound's counter
  up,             \* connection -> units on their way to ConnectServer
  inbox,          \* connection -> number of packets delivered, not yet read
  backlog,        \* connections waiting in the listening socket
  m_lFreeList,    \* free connection objects
  m_mOnlineClient,\* indexes with a client
  m_bUsed,        \* the flag of that name, as the set of its indexes
  sock,           \* m_iSockfd: the connection it belongs or last belonged to
  recvBuf,        \* m_pRecvHead .. m_pRecvTail: units
  sendBuf,        \* m_pSendHead .. m_pSendTail: "pack" or "stale"
  misplaced,      \* objects whose m_pRecvHead is at m_pSendBuff
  run,            \* where ConnectServer's thread is
  vSendClients,   \* indexes to send to in this round, in order
  toLogic,        \* CONNECT_TO_LOGIC
  toConnect,      \* LOGIC_TO_CONNECT: the indexes of the packets
  spin,           \* the packet LogicServer waits with until it fits
  subscribed,     \* index -> connections the broker keeps something for there
  pushes,         \* bound's counter
  untold          \* history: indexes whose last exit found the ring full

asked   == <<sent, requests>>
clients == <<client, asked, up, inbox, backlog>>
table   == <<m_lFreeList, m_mOnlineClient, m_bUsed, sock>>
buffers == <<recvBuf, sendBuf, misplaced>>
logic   == <<spin, subscribed, pushes>>
vars    == <<client, sent, requests, up, inbox, backlog, m_lFreeList,
             m_mOnlineClient, m_bUsed, sock, recvBuf, sendBuf, misplaced, run,
             vSendClients, toLogic, toConnect, spin, subscribed, pushes, untold>>
-----------------------------------------------------------------------------
(* Packets.  A request carries the index ConnectServer puts into it; which  *)
(* connection it came from ("conn") nobody is told.  Of the packets to the  *)
(* clients only the index matters here.                                    *)

Unit(c, n, k)        == [conn |-> c, request |-> n, part |-> k]
Request(s, units)    == [type |-> "request", index |-> s, units |-> units]
\* Mutant: the exit packet names the socket.
ExitOfSocket(s)      == [type |-> "exit", index |-> sock[s], units |-> <<>>]
ClientExitMessage(s) == [type |-> "exit", index |-> s, units |-> <<>>]

Units(c, n) == [k \in 1 .. Parts |-> Unit(c, n, k)]

LogicFull   == Len(toLogic) >= ToLogicCap
ConnectFull == Len(toConnect) >= ToConnectCap

At(place)     == run.at = place
Going(place)  == [at |-> place, events |-> {}, slot |-> ListenSlot, taken |-> 0]
\* On with the events that epoll_wait reported, or with the broker's packets.
Events(left)  == IF left = {} THEN Going("queue")
                 ELSE [Going("events") EXCEPT !.events = left]
-----------------------------------------------------------------------------
Init ==
  /\ client = [c \in Conns |-> "idle"]
  /\ sent = [c \in Conns |-> 0]
  /\ requests = 0
  /\ up = [c \in Conns |-> <<>>]
  /\ inbox = [c \in Conns |-> 0]
  /\ backlog = {}
  /\ m_lFreeList = [i \in 1 .. CLIENT_EPOLL_COUNT - 1 |-> i]
  /\ m_mOnlineClient = {}
  /\ m_bUsed = {ListenSlot}
  /\ sock = [s \in Slots |-> NoConn]
  /\ recvBuf = [s \in Slots |-> <<>>]
  /\ sendBuf = [s \in Slots |-> <<>>]
  /\ misplaced = {}
  /\ run = Going("wait")
  /\ vSendClients = <<>>
  /\ toLogic = <<>>
  /\ toConnect = <<>>
  /\ spin = <<>>
  /\ subscribed = [s \in Slots |-> {}]
  /\ pushes = 0
  /\ untold = {}
-----------------------------------------------------------------------------
(* ClientConnectManager (connectServer/clientConnect.cpp) *)

\* Mutant: m_bUsed is not tested.
ClientExitTwice(s) ==
  /\ m_mOnlineClient' = m_mOnlineClient \ {s} /\ m_bUsed' = m_bUsed \ {s}
  /\ m_lFreeList' = Append(m_lFreeList, s)
  /\ recvBuf' = [recvBuf EXCEPT ![s] = <<>>]
  /\ UNCHANGED <<sock, sendBuf, misplaced, up>>

\* Mutant: what was received is kept.
ClientExitKeeps(s) ==
  /\ m_mOnlineClient' = m_mOnlineClient \ {s} /\ m_bUsed' = m_bUsed \ {s}
  /\ m_lFreeList' = IF s \in m_bUsed THEN Append(m_lFreeList, s) ELSE m_lFreeList
  /\ up' = [up EXCEPT ![sock[s]] = <<>>]
  /\ UNCHANGED <<sock, buffers>>

\* The object leaves the map and goes to the end of the free list.  Its buffers
\* are cleared and what was received is forgotten, but 128-129 reset the wrong
\* two pointers: the send tail stays where a failed send left it, and the next
\* client's requests are received into the send buffer at first (Recv, Overrun).
ClientExit(s) ==
  IF s \in m_bUsed
  THEN /\ m_mOnlineClient' = m_mOnlineClient \ {s}
       /\ recvBuf' = [recvBuf EXCEPT ![s] = <<>>]
       /\ sendBuf' = [sendBuf EXCEPT ![s] = [i \in DOMAIN @ |-> "stale"]]
       /\ misplaced' = misplaced \cup {s}
       /\ m_lFreeList' = Append(m_lFreeList, s)
       /\ m_bUsed' = m_bUsed \ {s}
       /\ up' = [up EXCEPT ![sock[s]] = <<>>]
       /\ UNCHANGED sock
  ELSE UNCHANGED <<table, buffers, up>>

\* Mutant: waits for room, like Forward.
TellExitWaits(s) ==
  ~LogicFull /\ toLogic' = Append(toLogic, ClientExitMessage(s)) /\ UNCHANGED untold

\* The exit packet is not repeated when CONNECT_TO_LOGIC is full.
TellExit(s) ==
  IF LogicFull
  THEN untold' = untold \cup {s} /\ UNCHANGED toLogic
  ELSE untold' = untold \ {s} /\ toLogic' = Append(toLogic, ClientExitMessage(s))

\* Mutants: the object is not given back; the broker is not told.
LeaveKeepsObject(s) == TellExit(s) /\ UNCHANGED <<table, buffers, up>>
LeaveSilently(s)    == ClientExit(s) /\ UNCHANGED <<toLogic, untold>>

Leave(s) == TellExit(s) /\ ClientExit(s)
-----------------------------------------------------------------------------
(* Clients (external): connect, send requests, read, close.  A connection   *)
(* that is reset loses what was not yet received.                          *)

Connect(c) ==
  /\ client[c] = "idle" /\ \A d \in 1 .. c - 1 : client[d] # "idle"
  /\ client' = [client EXCEPT ![c] = "open"]
  /\ backlog' = backlog \cup {c}
  /\ UNCHANGED <<asked, up, inbox, table, buffers, run, vSendClients, toLogic,
                 toConnect, logic, untold>>

SendRequest(c) ==
  /\ client[c] = "open" /\ requests < MaxRequests
  /\ requests' = requests + 1
  /\ sent' = [sent EXCEPT ![c] = @ + 1]
  /\ up' = [up EXCEPT ![c] = @ \o Units(c, sent[c] + 1)]
  /\ UNCHANGED <<client, inbox, backlog, table, buffers, run, vSendClients,
                 toLogic, toConnect, logic, untold>>

Read(c) ==
  /\ client[c] = "open" /\ inbox[c] > 0
  /\ inbox' = [inbox EXCEPT ![c] = @ - 1]
  /\ UNCHANGED <<client, asked, up, backlog, table, buffers, run, vSendClients,
                 toLogic, toConnect, logic, untold>>

Close(c) ==
  /\ client[c] = "open"
  /\ client' = [client EXCEPT ![c] = "closed"]
  /\ inbox' = [inbox EXCEPT ![c] = 0]
  /\ \E k \in 0 .. Len(up[c]) : up' = [up EXCEPT ![c] = SubSeq(@, 1, k)]
  /\ UNCHANGED <<asked, backlog, table, buffers, run, vSendClients, toLogic,
                 toConnect, logic, untold>>
-----------------------------------------------------------------------------
(* Run and ProcessEpollData (connectServer/connectServer.cpp) *)

\* Sockets epoll reports: a connection to accept, data, or the end of it.
Ready == {s \in m_bUsed :
            IF s = ListenSlot THEN backlog # {}
            ELSE up[sock[s]] # <<>> \/ client[sock[s]] = "closed"}

EpollWait ==
  /\ At("wait")
  /\ run' = Events(Ready)
  /\ UNCHANGED <<clients, table, buffers, vSendClients, toLogic, toConnect,
                 logic, untold>>

\* With no connection object left the connection is closed at once.
Accept(c) ==
  /\ At("events") /\ ListenSlot \in run.events
  /\ backlog' = backlog \ {c}
  /\ run' = Events(run.events \ {ListenSlot})
  /\ IF m_lFreeList = <<>>
     THEN /\ client' = [client EXCEPT ![c] = "closed"]
          /\ up' = [up EXCEPT ![c] = <<>>]
          /\ UNCHANGED table
     ELSE LET s == Head(m_lFreeList) IN
          /\ m_lFreeList' = Tail(m_lFreeList)
          /\ m_bUsed' = m_bUsed \cup {s}
          /\ m_mOnlineClient' = m_mOnlineClient \cup {s}
          /\ sock' = [sock EXCEPT ![s] = c]
          /\ UNCHANGED <<client, up>>
  /\ UNCHANGED <<asked, inbox, buffers, vSendClients, toLogic, toConnect,
                 logic, untold>>

\* After a whole packet was received it is forwarded (Forward), an incomplete
\* one stays for the next time.
Rest(s, units, left) ==
  IF Len(units) >= Parts
  THEN [Going("forward") EXCEPT !.events = left, !.slot = s]
  ELSE Events(left)

\* As much as there is room for.  Forwarding ends at the start of the receive
\* buffer (418-454) wherever it began; the send buffer a misplaced object
\* receives into holds nothing to send while events are handled.
Recv(s) ==
  /\ At("events") /\ s \in run.events \ {ListenSlot} /\ up[sock[s]] # <<>>
  /\ \E k \in 1 .. Len(up[sock[s]]) :
       LET units == recvBuf[s] \o SubSeq(up[sock[s]], 1, k) IN
       /\ Len(units) <= RecvCap
       /\ recvBuf' = [recvBuf EXCEPT ![s] = units]
       /\ up' = [up EXCEPT ![sock[s]] = SubSeq(@, k + 1, Len(@))]
       /\ run' = Rest(s, units, run.events \ {s})
  /\ misplaced' = misplaced \ {s}
  /\ UNCHANGED <<client, asked, inbox, backlog, table, sendBuf, vSendClients,
                 toLogic, toConnect, logic, untold>>

\* What a piece that is too long does to the units held behind it.
Overwritten(held, piece) ==
  [i \in DOMAIN held |-> IF RecvCap + i <= Len(piece) THEN piece[RecvCap + i] ELSE held[i]]

\* The room in the buffers of a misplaced object, m_pRecvEnd - m_pRecvTail, is
\* negative and taken for a huge length: recv writes past the send buffer, over
\* the heap and into the next object's receive buffer.  What ConnectServer does
\* from then on is undefined; the model ends its thread there.
Overrun(s) ==
  /\ At("events") /\ s \in (run.events \cap misplaced) \ {ListenSlot}
  /\ \E k \in RecvCap + 1 .. Len(up[sock[s]]) :
       LET piece == SubSeq(up[sock[s]], 1, k) IN
       /\ recvBuf' = [r \in Slots |-> CASE r = s -> piece
                                       [] r = s + 1 -> Overwritten(recvBuf[r], piece)
                                       [] OTHER -> recvBuf[r]]
       /\ up' = [up EXCEPT ![sock[s]] = SubSeq(@, k + 1, Len(@))]
  /\ run' = Going("lost")
  /\ UNCHANGED <<client, asked, inbox, backlog, table, sendBuf, misplaced,
                 vSendClients, toLogic, toConnect, logic, untold>>

\* recv returns 0 or fails, or the socket reports an error.
RecvEnd(s) ==
  /\ At("events") /\ s \in run.events \ {ListenSlot}
  /\ up[sock[s]] = <<>> /\ client[sock[s]] = "closed"
  /\ Leave(s)
  /\ run' = Events(run.events \ {s})
  /\ UNCHANGED <<client, asked, inbox, backlog, vSendClients, toConnect, logic>>

\* Mutant: a request for which there is no room is dropped.
ForwardOrDrop ==
  LET s == run.slot
      rest == SubSeq(recvBuf[s], Parts + 1, Len(recvBuf[s])) IN
  /\ At("forward")
  /\ toLogic' = IF LogicFull THEN toLogic
                ELSE Append(toLogic, Request(s, SubSeq(recvBuf[s], 1, Parts)))
  /\ recvBuf' = [recvBuf EXCEPT ![s] = rest]
  /\ run' = Rest(s, rest, run.events)
  /\ UNCHANGED <<clients, table, sendBuf, misplaced, vSendClients, toConnect, logic, untold>>

\* One packet goes into CONNECT_TO_LOGIC; while that is full the thread spins.
Forward ==
  LET s == run.slot
      rest == SubSeq(recvBuf[s], Parts + 1, Len(recvBuf[s])) IN
  /\ At("forward") /\ ~LogicFull
  /\ toLogic' = Append(toLogic, Request(s, SubSeq(recvBuf[s], 1, Parts)))
  /\ recvBuf' = [recvBuf EXCEPT ![s] = rest]
  /\ run' = Rest(s, rest, run.events)
  /\ UNCHANGED <<clients, table, sendBuf, misplaced, vSendClients, toConnect, logic, untold>>
-----------------------------------------------------------------------------
(* The broker's packets *)

SendAll == IF vSendClients = <<>> THEN Going("wait") ELSE Going("send")

\* The loop ends when the ring is empty, or after Batch packets by the clock,
\* which is not looked at after a packet for nobody (573).
QueueDone ==
  /\ At("queue")
  /\ toConnect # <<>> => run.taken >= Batch /\ run.slot = ListenSlot
  /\ run' = SendAll
  /\ UNCHANGED <<clients, table, buffers, vSendClients, toLogic, toConnect,
                 logic, untold>>

TookOne == [Going("queue") EXCEPT !.taken = IF run.taken < Batch THEN run.taken + 1 ELSE Batch]

\* Nobody has the index any more: the packet is dropped, the exit told again.
TakeForNobody ==
  /\ At("queue") /\ toConnect # <<>> /\ Head(toConnect) \notin m_mOnlineClient
  /\ toConnect' = Tail(toConnect)
  /\ TellExit(Head(toConnect))
  /\ run' = [TookOne EXCEPT !.slot = Head(toConnect)]
  /\ UNCHANGED <<clients, table, buffers, vSendClients, logic>>

\* Into the send buffer; when that is full it has to be sent first (Flush).
\* An index is entered into vSendClients once for every packet.
Take ==
  /\ At("queue") /\ toConnect # <<>> /\ Head(toConnect) \in m_mOnlineClient
  /\ toConnect' = Tail(toConnect)
  /\ LET s == Head(toConnect) IN
     IF Len(sendBuf[s]) < SendCap
     THEN /\ sendBuf' = [sendBuf EXCEPT ![s] = Append(@, "pack")]
          /\ vSendClients' = Append(vSendClients, s)
          /\ run' = TookOne
     ELSE /\ run' = [TookOne EXCEPT !.at = "flush", !.slot = s]
          /\ UNCHANGED <<sendBuf, vSendClients>>
  /\ UNCHANGED <<clients, table, recvBuf, misplaced, toLogic, logic, untold>>

\* SendDataToClient waits until the socket has room.  On the socket of an
\* object given back it fails, on one whose client is gone it may.
CanSend(s) ==
  /\ s \in m_bUsed
  /\ client[sock[s]] = "open" => /\ inbox[sock[s]] < SockCap
                                /\ inbox[sock[s]] + Len(sendBuf[s]) <= SockCap
MayFail(s) == s \notin m_bUsed \/ client[sock[s]] = "closed"

Delivered(s) ==
  IF client[sock[s]] = "open"
  THEN inbox' = [inbox EXCEPT ![sock[s]] = @ + Len(sendBuf[s])]
  ELSE UNCHANGED inbox

Flush ==
  /\ At("flush") /\ CanSend(run.slot)
  /\ Delivered(run.slot)
  /\ sendBuf' = [sendBuf EXCEPT ![run.slot] = <<"pack">>]
  /\ vSendClients' = Append(vSendClients, run.slot)
  /\ run' = [Going("queue") EXCEPT !.taken = run.taken]
  /\ UNCHANGED <<client, asked, up, backlog, table, recvBuf, misplaced, toLogic,
                 toConnect, logic, untold>>

FlushFails ==
  /\ At("flush") /\ MayFail(run.slot)
  /\ Leave(run.slot)
  /\ run' = [Going("queue") EXCEPT !.taken = run.taken]
  /\ UNCHANGED <<client, asked, inbox, backlog, vSendClients, toConnect, logic>>

SendNext ==
  /\ vSendClients' = Tail(vSendClients)
  /\ run' = IF Tail(vSendClients) = <<>> THEN Going("wait") ELSE Going("send")

SendDataToClient ==
  LET s == Head(vSendClients) IN
  /\ At("send") /\ CanSend(s)
  /\ Delivered(s)
  /\ sendBuf' = [sendBuf EXCEPT ![s] = <<>>]
  /\ SendNext
  /\ UNCHANGED <<client, asked, up, backlog, table, recvBuf, misplaced, toLogic,
                 toConnect, logic, untold>>

SendFails ==
  LET s == Head(vSendClients) IN
  /\ At("send") /\ MayFail(s)
  /\ Leave(s)
  /\ SendNext
  /\ UNCHANGED <<client, asked, inbox, backlog, toConnect, logic>>
-----------------------------------------------------------------------------
(* LogicServer's ends of the rings (logicServer/logicServer.cpp) *)

\* A request is remembered under its index (a subscription, a number) and, not
\* every one, answered: a pulled message waits for room, a reply is dropped
\* without it.
LogicTake ==
  LET m == Head(toLogic) IN
  /\ spin = <<>> /\ toLogic # <<>>
  /\ toLogic' = Tail(toLogic)
  /\ IF m.type = "exit"
     THEN /\ subscribed' = [subscribed EXCEPT ![m.index] = {}]
          /\ UNCHANGED <<spin, toConnect>>
     ELSE /\ subscribed' = [subscribed EXCEPT ![m.index] = @ \cup {m.units[1].conn}]
          /\ \/ spin' = <<m.index>> /\ UNCHANGED toConnect
             \/ ~ConnectFull /\ toConnect' = Append(toConnect, m.index) /\ UNCHANGED spin
             \/ UNCHANGED <<spin, toConnect>>
  /\ UNCHANGED <<clients, table, buffers, run, vSendClients, pushes, untold>>

LogicPush ==
  /\ spin = <<>> /\ pushes < MaxPushes
  /\ \E s \in Slots : subscribed[s] # {} /\ spin' = <<s>>
  /\ pushes' = pushes + 1
  /\ UNCHANGED <<clients, table, buffers, run, vSendClients, toLogic, toConnect,
                 subscribed, untold>>

\* Mutant: the packet is dropped when there is no room.
LogicPutOrDrop ==
  /\ spin # <<>> /\ spin' = <<>>
  /\ toConnect' = IF ConnectFull THEN toConnect ELSE toConnect \o spin
  /\ UNCHANGED <<clients, table, buffers, run, vSendClients, toLogic,
                 subscribed, pushes, untold>>

LogicPut ==
  /\ spin # <<>> /\ ~ConnectFull
  /\ toConnect' = toConnect \o spin
  /\ spin' = <<>>
  /\ UNCHANGED <<clients, table, buffers, run, vSendClients, toLogic,
                 subscribed, pushes, untold>>
-----------------------------------------------------------------------------
ClientStep(c) == Connect(c) \/ SendRequest(c) \/ Read(c) \/ Close(c)

ConnectStep ==
  \/ EpollWait
  \/ \E c \in backlog : Accept(c)
  \/ \E s \in Slots : Recv(s) \/ Overrun(s) \/ RecvEnd(s)
  \/ Forward
  \/ QueueDone \/ TakeForNobody \/ Take \/ Flush \/ FlushFails
  \/ SendDataToClient \/ SendFails

Next ==
  \/ \E c \in Conns : ClientStep(c)
  \/ ConnectStep
  \/ LogicTake \/ LogicPush \/ LogicPut

Spec == Init /\ [][Next]_vars

\* Both servers run on whenever they can; clients owe nothing.
FairSpec == Spec /\ WF_vars(ConnectStep) /\ WF_vars(LogicTake) /\ WF_vars(LogicPut)
-----------------------------------------------------------------------------
(* Properties *)

AllUnits == [conn : Conns, request : 1 .. MaxRequests, part : 1 .. Parts]
Packets  == [type : {"request"}, index : Slots, units : Seq(AllUnits)]
            \cup [type : {"exit"}, index : Slots, units : {<<>>}]
Places   == {"wait", "events", "forward", "queue", "flush", "send", "lost"}

\* The state of the front end keeps its types.
TypeOK ==
  /\ client \in [Conns -> {"idle", "open", "closed"}]
  /\ sent \in [Conns -> 0 .. MaxRequests]
  /\ requests \in 0 .. MaxRequests
  /\ up \in [Conns -> Seq(AllUnits)]
  /\ inbox \in [Conns -> 0 .. SockCap]
  /\ backlog \subseteq Conns
  /\ m_lFreeList \in Seq(Slots)
  /\ m_mOnlineClient \subseteq Slots
  /\ m_bUsed \subseteq Slots
  /\ sock \in [Slots -> Conns \cup {NoConn}]
  /\ recvBuf \in [Slots -> Seq(AllUnits)]
  /\ sendBuf \in [Slots -> Seq({"pack", "stale"})]
  /\ misplaced \subseteq Slots
  /\ run \in [at : Places, events : SUBSET Slots, slot : Slots, taken : 0 .. Batch]
  /\ vSendClients \in Seq(Slots)
  /\ toLogic \in Seq(Packets)
  /\ toConnect \in Seq(Slots)
  /\ spin \in Seq(Slots)
  /\ subscribed \in [Slots -> SUBSET Conns]
  /\ pushes \in 0 .. MaxPushes
  /\ untold \subseteq Slots

\* A connection object is used or in the free list, once; the online ones are
\* the used ones but the listening one; and each of them has a connection of
\* its own.  An index is told off and handed back on four paths, and on one of
\* them (the entries of vSendClients) twice in a row.
SlotsSound ==
  /\ IsInjective(m_lFreeList)
  /\ Range(m_lFreeList) = Slots \ m_bUsed
  /\ m_bUsed = m_mOnlineClient \cup {ListenSlot} /\ ListenSlot \notin m_mOnlineClient
  /\ \A s, t \in m_mOnlineClient : sock[s] \in Conns /\ (sock[s] = sock[t] => s = t)

\* The units of connection c between its client and the broker, oldest first:
\* forwarded, received, on the way.
UnitsOf(c, p) == IF p.type = "request" /\ p.units[1].conn = c THEN p.units ELSE <<>>
InRing(c) == Joined([i \in 1 .. Len(toLogic) |-> UnitsOf(c, toLogic[i])])
Received(c) == IF \E s \in m_mOnlineClient : sock[s] = c
               THEN recvBuf[CHOOSE s \in m_mOnlineClient : sock[s] = c] ELSE <<>>

\* Until a receive overruns a buffer (Overrun): the requests reach the broker
\* whole, in order, without a gap, and none gets into another's, whatever pieces
\* they arrive in and however often the index changes hands, also while an
\* object receives into its send buffer.  Of each connection the units between
\* the client and the broker follow one another, up to the last one sent while
\* it is open.
RequestsInOrder == ~At("lost") =>
  /\ \A i \in DOMAIN toLogic : toLogic[i].type = "request" =>
       \E c \in Conns, n \in 1 .. MaxRequests : toLogic[i].units = Units(c, n)
  /\ \A c \in Conns :
       LET way == InRing(c) \o Received(c) \o up[c] IN
       /\ \A i \in 1 .. Len(way) - 1 :
            IF way[i].part < Parts
            THEN way[i + 1] = Unit(c, way[i].request, way[i].part + 1)
            ELSE way[i + 1] = Unit(c, way[i].request + 1, 1)
       /\ way # <<>> /\ client[c] = "open" => Last(way) = Unit(c, sent[c], Parts)

\* The requests in CONNECT_TO_LOGIC, without the exits.
RequestOf(p) == IF p.type = "request" THEN <<p.units>> ELSE <<>>
Forwarded    == Joined([i \in 1 .. Len(toLogic) |-> RequestOf(toLogic[i])])

Merge == INSTANCE RequestMerge WITH
           closed <- {c \in Conns : client[c] = "closed"},
           stream <- [c \in Conns |-> Received(c) \o up[c]],
           out    <- Forwarded,
           broken <- At("lost")

\* ConnectServer merges its connections into one queue of whole requests, until
\* a receive overruns a buffer: what it received is forwarded once and in order,
\* waits when the ring is full rather than being dropped, and is forgotten only
\* with its connection, when this has ended (SendRequest is Send, Forward is
\* Merge, LogicTake of a request is Take; Close, Accept without an object and
\* Leave are Cut; Overrun is Break).
ImplementsMerge == Merge!Spec

Holds(s, c) == s \in m_mOnlineClient /\ sock[s] = c

\* The broker is never told that an index has gone after it was sent a request
\* of the connection that has the index: an exit told late or twice does not
\* hit the next client.
ExitOnlyOfTheGone ==
  \A i, j \in DOMAIN toLogic :
    i < j /\ toLogic[i].type = "request" /\ toLogic[j].type = "exit"
    /\ toLogic[i].index = toLogic[j].index
      => ~Holds(toLogic[i].index, toLogic[i].units[1].conn)

\* What the broker keeps for a connection that has gone is about to be
\* cleared: the exit of its index is in the ring, behind all its requests, or
\* it was refused by a full ring.  Beyond that no packet is made for it.
KnowsTheHolder ==
  \A s \in Slots : \A c \in subscribed[s] \cup UNION {{toLogic[i].units[1].conn} :
      i \in {j \in DOMAIN toLogic : toLogic[j].type = "request" /\ toLogic[j].index = s}} :
    \/ Holds(s, c)
    \/ s \in untold
    \/ \E i \in DOMAIN toLogic :
         /\ toLogic[i] = ClientExitMessage(s)
         /\ \A j \in i + 1 .. Len(toLogic) :
              toLogic[j].type = "request" /\ toLogic[j].index = s
                => toLogic[j].units[1].conn # c

\* Both rings full and both servers waiting for room.
Deadlocked == /\ At("forward") /\ LogicFull
              /\ spin # <<>> /\ ConnectFull
\* A client that does not read holds up the thread.
HeldUp == \/ At("flush") /\ ~CanSend(run.slot) /\ ~MayFail(run.slot)
          \/ At("send") /\ ~CanSend(Head(vSendClients)) /\ ~MayFail(Head(vSendClients))

\* ConnectServer's loop comes round again and again, so that every client is
\* served, unless both rings are full at a bad moment (for ever), a client does
\* not read what it is sent, or a receive has overrun a buffer.
RoundsGoOn == []<>At("wait") \/ <>[]Deadlocked \/ <>[]HeldUp \/ <>At("lost")

\* Once both servers wait for room in the other's ring nothing that clients do
\* gets them out of it.
FullRingsNeverClear == [][Deadlocked => Deadlocked']_vars
=============================================================================
