--------------------------- MODULE FrontEnd_proofs ---------------------------
(***************************************************************************)
(* Proofs about FrontEnd, for any number of connection objects, clients    *)
(* and requests and any sizes of the rings and buffers.                    *)
(*                                                                         *)
(* IInv is the inductive invariant: the properties, index by index where   *)
(* that is easier to keep (ExitsFollow, KnownOrTold), and what they rest   *)
(* on, namely where the units in the buffers and the ring come from        *)
(* (UnitsKnown), and what ConnectServer's thread may rely on in the middle *)
(* of a round (ThreadOK).                                                  *)
(*                                                                         *)
(* WaysOK, kept by the steps from states of IInv, is about the order of    *)
(* the requests: the units of a connection in the ring, in its receive     *)
(* buffer and on the way are one run.  On both rests the refinement of     *)
(* RequestMerge, at the end.                                               *)
(***************************************************************************)
EXTENDS FrontEnd, SeqFacts, SequenceTheorems, TLAPS

\* Connections that have left the backlog: no object will be given to them.
Past == {c \in Conns : client[c] # "idle" /\ c \notin backlog}

\* Objects that have had a connection.
Served == {s \in Slots \ {ListenSlot} : sock[s] \in Conns}

\* Units on the way, and the object a connection has, which is its last.
UpKnown   == \A c \in Conns : \A i \in 1 .. Len(up[c]) : up[c][i].conn = c
SockKnown == \A s \in Slots : sock[s] \in Past \cup {NoConn}

\* Units received are of the connection that has the object now, until a receive
\* overruns its buffer.
UnitsOwn ==
  \A s \in Slots : \A i \in 1 .. Len(recvBuf[s]) :
    s \in m_mOnlineClient /\ recvBuf[s][i].conn = sock[s]

\* Requests in the ring are whole and of connections that had an object.
RingKnown ==
  \A i \in 1 .. Len(toLogic) : toLogic[i].type = "request" =>
    Len(toLogic[i].units) = Parts /\ toLogic[i].units[1].conn \in Past

RecvKnown == ~At("lost") => UnitsOwn

UnitsKnown == UpKnown /\ SockKnown /\ RecvKnown /\ RingKnown

ThreadOK ==
  /\ \A c \in Conns : sent[c] <= requests
  /\ backlog \subseteq {c \in Conns : client[c] # "idle"}
  /\ run.events \subseteq m_bUsed
  /\ At("forward") => run.slot \in m_mOnlineClient /\ Len(recvBuf[run.slot]) >= Parts
  /\ At("flush") => run.slot \in Served
  /\ vSendClients \in Seq(Served)
  /\ At("send") => vSendClients # <<>>

\* A request or an exit of index s in the ring, and what is known of it.
RequestAt(i, s, c) == /\ toLogic[i].type = "request" /\ toLogic[i].index = s
                      /\ toLogic[i].units[1].conn = c
ExitAt(i, s)       == toLogic[i].type = "exit" /\ toLogic[i].index = s

\* ExitOnlyOfTheGone, index by index.
ExitsFollow ==
  \A s \in Slots : \A c : \A i, j \in 1 .. Len(toLogic) :
    i < j /\ RequestAt(i, s, c) /\ ExitAt(j, s) => ~Holds(s, c)

\* The same for KnowsTheHolder.
Knows(s, c) == c \in subscribed[s] \/ \E i \in 1 .. Len(toLogic) : RequestAt(i, s, c)
ToldLast(s, c) ==
  \E i \in 1 .. Len(toLogic) :
    toLogic[i] = ClientExitMessage(s) /\ \A j \in i + 1 .. Len(toLogic) : ~RequestAt(j, s, c)
KnownOrTold ==
  \A s \in Slots : \A c : Knows(s, c) => Holds(s, c) \/ s \in untold \/ ToldLast(s, c)

IInv == /\ TypeOK /\ SlotsSound /\ UnitsKnown /\ ThreadOK
        /\ ExitsFollow /\ KnownOrTold
-----------------------------------------------------------------------------
(* Values the actions compute *)

RunSet == [at : Places, events : SUBSET Slots, slot : Slots, taken : 0 .. Batch]

(* The constants are the numbers they should be. *)
LEMMA Constants ==
  /\ CLIENT_EPOLL_COUNT \in Nat /\ CLIENT_EPOLL_COUNT > 0
  /\ MaxConns \in Nat /\ MaxRequests \in Nat /\ MaxPushes \in Nat
  /\ Parts \in Nat /\ Parts > 0 /\ Batch \in Nat /\ Batch > 0
  /\ RecvCap \in Nat /\ RecvCap >= Parts
  /\ ToLogicCap \in Nat /\ ToConnectCap \in Nat /\ SendCap \in Nat /\ SockCap \in Nat
  /\ ToLogicCap > 0 /\ ToConnectCap > 0 /\ SendCap > 0 /\ SockCap >= SendCap
  /\ ListenSlot \in Slots /\ ListenSlot = 0 /\ NoConn \notin Conns
BY FrontEndAssumption DEF ListenSlot, Slots, NoConn, Conns

(* A request's units: Parts of them, all of its connection. *)
LEMMA UnitsType ==
  ASSUME NEW c \in Conns, NEW n \in 1 .. MaxRequests
  PROVE  /\ Units(c, n) \in Seq(AllUnits)
         /\ Len(Units(c, n)) = Parts
         /\ \A k \in 1 .. Parts : Units(c, n)[k].conn = c
<1>1. \A k \in 1 .. Parts : Unit(c, n, k) \in AllUnits /\ Unit(c, n, k).conn = c
  BY DEF Unit, AllUnits
<1>2. Units(c, n) \in [1 .. Parts -> AllUnits]
  BY <1>1 DEF Units
<1>3. Parts \in Nat
  BY Constants
<1>4. Units(c, n) \in Seq(AllUnits) /\ Len(Units(c, n)) = Parts
  BY <1>2, <1>3
<1>5. QED
  BY <1>1, <1>4 DEF Units

(* A piece of a sequence of units, and two pieces joined. *)
LEMMA PieceType ==
  ASSUME NEW S, NEW q \in Seq(S), NEW k \in 0 .. Len(q)
  PROVE  /\ SubSeq(q, 1, k) \in Seq(S) /\ Len(SubSeq(q, 1, k)) = k
         /\ \A i \in 1 .. k : SubSeq(q, 1, k)[i] = q[i]
         /\ SubSeq(q, k + 1, Len(q)) \in Seq(S)
         /\ Len(SubSeq(q, k + 1, Len(q))) = Len(q) - k
         /\ \A i \in 1 .. Len(q) - k : SubSeq(q, k + 1, Len(q))[i] = q[i + k]
<1>1. \A i \in 1 .. k : q[i] \in S
  BY ElementOfSeq
<1>2. \A i \in k + 1 .. Len(q) : q[i] \in S
  BY ElementOfSeq
<1>3. Len(q) \in Nat
  BY LenProperties
<1>4. /\ SubSeq(q, 1, k) \in Seq(S) /\ Len(SubSeq(q, 1, k)) = k
      /\ \A i \in 1 .. k : SubSeq(q, 1, k)[i] = q[i]
  BY <1>1, <1>3
<1>5. /\ SubSeq(q, k + 1, Len(q)) \in Seq(S)
      /\ Len(SubSeq(q, k + 1, Len(q))) = Len(q) - k
      /\ \A i \in 1 .. Len(q) - k : SubSeq(q, k + 1, Len(q))[i] = q[i + k]
  BY <1>2, <1>3
<1>6. QED
  BY <1>4, <1>5

(* Where the thread goes. *)
LEMMA RunTypes ==
  /\ \A place \in Places : Going(place) \in RunSet
  /\ \A left \in SUBSET Slots : Events(left) \in RunSet
  /\ \A s \in Slots, left \in SUBSET Slots : \A units : Rest(s, units, left) \in RunSet
  /\ run \in RunSet => TookOne \in RunSet
  /\ \A s \in Slots : run \in RunSet => /\ [TookOne EXCEPT !.at = "flush", !.slot = s] \in RunSet
                                        /\ [TookOne EXCEPT !.slot = s] \in RunSet
  /\ run \in RunSet => [Going("queue") EXCEPT !.taken = run.taken] \in RunSet
  /\ SendAll \in RunSet
<1>1. \A place \in Places : Going(place) \in RunSet
  BY Constants DEF Going, RunSet
<1>2. \A left \in SUBSET Slots : Events(left) \in RunSet
  BY Constants DEF Events, Going, RunSet, Places
<1>3. \A s \in Slots, left \in SUBSET Slots : \A units : Rest(s, units, left) \in RunSet
  <2> SUFFICES ASSUME NEW s \in Slots, NEW left \in SUBSET Slots, NEW units
               PROVE  Rest(s, units, left) \in RunSet
    OBVIOUS
  <2>1. Going("forward") \in RunSet
    BY <1>1 DEF Places
  <2>2. [Going("forward") EXCEPT !.events = left, !.slot = s] \in RunSet
    BY <2>1 DEF RunSet, Places
  <2>3. QED
    BY <1>2, <2>2 DEF Rest
<1>4. run \in RunSet => TookOne \in RunSet
  BY Constants DEF TookOne, Going, RunSet, Places
<1>5. \A s \in Slots : run \in RunSet => /\ [TookOne EXCEPT !.at = "flush", !.slot = s] \in RunSet
                                        /\ [TookOne EXCEPT !.slot = s] \in RunSet
  BY <1>4 DEF RunSet, Places
<1>6. run \in RunSet => [Going("queue") EXCEPT !.taken = run.taken] \in RunSet
  BY Constants DEF Going, RunSet, Places
<1>7. SendAll \in RunSet
  BY <1>1 DEF SendAll, Places
<1>8. QED
  BY <1>1, <1>2, <1>3, <1>4, <1>5, <1>6, <1>7

(* What Leave and its two parts do to the types. *)
LEMMA LeaveTypes ==
  ASSUME TypeOK, NEW s \in Slots
  PROVE  /\ TellExit(s) => toLogic' \in Seq(Packets) /\ untold' \subseteq Slots
         /\ ClientExit(s) =>
              /\ m_lFreeList' \in Seq(Slots) /\ m_mOnlineClient' \subseteq Slots
              /\ m_bUsed' \subseteq Slots /\ sock' = sock
              /\ recvBuf' \in [Slots -> Seq(AllUnits)]
              /\ sendBuf' \in [Slots -> Seq({"pack", "stale"})] /\ misplaced' \subseteq Slots
              /\ up' \in [Conns -> Seq(AllUnits)]
<1>1. TellExit(s) => toLogic' \in Seq(Packets) /\ untold' \subseteq Slots
  <2>1. ClientExitMessage(s) \in Packets
    BY DEF ClientExitMessage, Packets
  <2>2. toLogic \in Seq(Packets) /\ untold \subseteq Slots
    BY DEF TypeOK
  <2>3. Append(toLogic, ClientExitMessage(s)) \in Seq(Packets)
    BY <2>1, <2>2
  <2>4. QED
    BY <2>2, <2>3 DEF TellExit
<1>2. ASSUME ClientExit(s)
      PROVE  /\ m_lFreeList' \in Seq(Slots) /\ m_mOnlineClient' \subseteq Slots
             /\ m_bUsed' \subseteq Slots /\ sock' = sock
             /\ recvBuf' \in [Slots -> Seq(AllUnits)]
             /\ sendBuf' \in [Slots -> Seq({"pack", "stale"})] /\ misplaced' \subseteq Slots
             /\ up' \in [Conns -> Seq(AllUnits)]
  <2>1. CASE s \notin m_bUsed
    BY <1>2, <2>1 DEF TypeOK, ClientExit, table, buffers
  <2>2. CASE s \in m_bUsed
    <3>1. /\ m_lFreeList' \in Seq(Slots) /\ m_mOnlineClient' \subseteq Slots
          /\ m_bUsed' \subseteq Slots /\ sock' = sock
      <4>1. m_lFreeList \in Seq(Slots) /\ m_mOnlineClient \subseteq Slots /\ m_bUsed \subseteq Slots
        BY DEF TypeOK
      <4>2. /\ m_mOnlineClient' = m_mOnlineClient \ {s} /\ m_bUsed' = m_bUsed \ {s}
            /\ m_lFreeList' = Append(m_lFreeList, s) /\ sock' = sock
        BY <1>2, <2>2 DEF ClientExit
      <4>3. Append(m_lFreeList, s) \in Seq(Slots)
        BY <4>1
      <4>4. QED
        BY <4>1, <4>2, <4>3
    <3>2. recvBuf' \in [Slots -> Seq(AllUnits)] /\ up' \in [Conns -> Seq(AllUnits)]
      <4>1. recvBuf \in [Slots -> Seq(AllUnits)] /\ up \in [Conns -> Seq(AllUnits)]
        BY DEF TypeOK
      <4>2. <<>> \in Seq(AllUnits)
        OBVIOUS
      <4>3. recvBuf' = [recvBuf EXCEPT ![s] = <<>>] /\ up' = [up EXCEPT ![sock[s]] = <<>>]
        BY <1>2, <2>2 DEF ClientExit
      <4>4. QED
        BY <4>1, <4>2, <4>3
    <3>3. sendBuf' \in [Slots -> Seq({"pack", "stale"})]
      <4>1. sendBuf \in [Slots -> Seq({"pack", "stale"})]
        BY DEF TypeOK
      <4>2. PICK n \in Nat : n = Len(sendBuf[s])
        BY <4>1, LenProperties
      <4>3. DOMAIN sendBuf[s] = 1 .. n
        BY <4>1, <4>2, LenProperties
      <4>4. [i \in DOMAIN sendBuf[s] |-> "stale"] \in [1 .. n -> {"pack", "stale"}]
        BY <4>3
      <4>5. [i \in DOMAIN sendBuf[s] |-> "stale"] \in Seq({"pack", "stale"})
        BY <4>4, SeqDef
      <4>6. QED
        BY <1>2, <2>2, <4>1, <4>5 DEF ClientExit
    <3>4. misplaced' \subseteq Slots
      BY <1>2, <2>2 DEF ClientExit, TypeOK
    <3>5. QED
      BY <3>1, <3>2, <3>3, <3>4
  <2>3. QED
    BY <2>1, <2>2
<1>3. QED
  BY <1>1, <1>2

(* A packet taken from the ring, and one put into it. *)
LEMMA QueueTypes ==
  ASSUME NEW S, NEW q \in Seq(S)
  PROVE  /\ q # <<>> => /\ Head(q) \in S /\ Tail(q) \in Seq(S) /\ Head(q) = q[1]
                        /\ Len(q) > 0 /\ Len(Tail(q)) = Len(q) - 1
                        /\ \A i \in 1 .. Len(q) - 1 : Tail(q)[i] = q[i + 1]
         /\ \A e \in S : /\ Append(q, e) \in Seq(S) /\ Len(Append(q, e)) = Len(q) + 1
                         /\ \A i \in 1 .. Len(q) : Append(q, e)[i] = q[i]
                         /\ Append(q, e)[Len(q) + 1] = e
         /\ Len(q) \in Nat
<1>1. Len(q) \in Nat
  BY LenProperties
<1>2. ASSUME q # <<>>
      PROVE  /\ Head(q) \in S /\ Tail(q) \in Seq(S) /\ Head(q) = q[1]
             /\ Len(q) > 0 /\ Len(Tail(q)) = Len(q) - 1
             /\ \A i \in 1 .. Len(q) - 1 : Tail(q)[i] = q[i + 1]
  BY <1>1, <1>2, HeadTailProperties, EmptySeq
<1>3. ASSUME NEW e \in S
      PROVE  /\ Append(q, e) \in Seq(S) /\ Len(Append(q, e)) = Len(q) + 1
             /\ \A i \in 1 .. Len(q) : Append(q, e)[i] = q[i]
             /\ Append(q, e)[Len(q) + 1] = e
  BY <1>1
<1>4. QED
  BY <1>1, <1>2, <1>3
-----------------------------------------------------------------------------
(* Types: first the clients' actions and the broker's, then ConnectServer's. *)

(* A client's step keeps the types.                                           *)
LEMMA ClientTypes ==
  ASSUME TypeOK, ThreadOK, NEW c \in Conns, ClientStep(c)
  PROVE  TypeOK'
<1>1. CASE Connect(c)
  <2>1. client' = [client EXCEPT ![c] = "open"] /\ backlog' = backlog \cup {c}
    BY <1>1 DEF Connect
  <2>2. client' \in [Conns -> {"idle", "open", "closed"}] /\ backlog' \subseteq Conns
    BY <2>1 DEF TypeOK
  <2>3. UNCHANGED <<sent, requests, up, inbox, m_lFreeList, m_mOnlineClient,
                    m_bUsed, sock, recvBuf, sendBuf, misplaced, run,
                    vSendClients, toLogic, toConnect, spin, subscribed,
                    pushes, untold>>
    BY <1>1 DEF Connect, clients, asked, table, buffers, logic
  <2>4. QED
    BY <2>2, <2>3 DEF TypeOK
<1>2. CASE SendRequest(c)
  <2>1. /\ sent' = [sent EXCEPT ![c] = @ + 1] /\ requests' = requests + 1
        /\ up' = [up EXCEPT ![c] = @ \o Units(c, sent[c] + 1)]
        /\ requests < MaxRequests
    BY <1>2 DEF SendRequest
  <2>2. /\ sent \in [Conns -> 0 .. MaxRequests] /\ requests \in 0 .. MaxRequests
        /\ up \in [Conns -> Seq(AllUnits)] /\ sent[c] <= requests
    BY DEF TypeOK, ThreadOK
  <2>3. sent[c] + 1 \in 1 .. MaxRequests
    BY <2>1, <2>2, Constants
  <2>4. sent' \in [Conns -> 0 .. MaxRequests] /\ requests' \in 0 .. MaxRequests
    BY <2>1, <2>2, <2>3, Constants
  <2>5. Units(c, sent[c] + 1) \in Seq(AllUnits)
    BY <2>3, UnitsType
  <2>6. up[c] \o Units(c, sent[c] + 1) \in Seq(AllUnits)
    BY <2>2, <2>5, ConcatProperties
  <2>7. up' \in [Conns -> Seq(AllUnits)]
    BY <2>1, <2>2, <2>6
  <2>8. UNCHANGED <<client, inbox, backlog, m_lFreeList, m_mOnlineClient,
                    m_bUsed, sock, recvBuf, sendBuf, misplaced, run,
                    vSendClients, toLogic, toConnect, spin, subscribed,
                    pushes, untold>>
    BY <1>2 DEF SendRequest, clients, asked, table, buffers, logic
  <2>9. QED
    BY <2>4, <2>7, <2>8 DEF TypeOK
<1>3. CASE Read(c)
  <2>1. inbox' = [inbox EXCEPT ![c] = @ - 1] /\ inbox[c] > 0
    BY <1>3 DEF Read
  <2>2. inbox \in [Conns -> 0 .. SockCap]
    BY DEF TypeOK
  <2>3. inbox' \in [Conns -> 0 .. SockCap]
    BY <2>1, <2>2, Constants
  <2>4. UNCHANGED <<client, sent, requests, up, backlog, m_lFreeList,
                    m_mOnlineClient, m_bUsed, sock, recvBuf, sendBuf,
                    misplaced, run, vSendClients, toLogic, toConnect, spin,
                    subscribed, pushes, untold>>
    BY <1>3 DEF Read, clients, asked, table, buffers, logic
  <2>5. QED
    BY <2>3, <2>4 DEF TypeOK
<1>4. CASE Close(c)
  <2>1. PICK k \in 0 .. Len(up[c]) : up' = [up EXCEPT ![c] = SubSeq(@, 1, k)]
    BY <1>4 DEF Close
  <2>2. client' = [client EXCEPT ![c] = "closed"] /\ inbox' = [inbox EXCEPT ![c] = 0]
    BY <1>4 DEF Close
  <2>3. /\ up \in [Conns -> Seq(AllUnits)] /\ inbox \in [Conns -> 0 .. SockCap]
        /\ client \in [Conns -> {"idle", "open", "closed"}]
    BY DEF TypeOK
  <2>4. SubSeq(up[c], 1, k) \in Seq(AllUnits)
    BY <2>3, PieceType
  <2>5. up' \in [Conns -> Seq(AllUnits)]
    BY <2>1, <2>3, <2>4
  <2>6. /\ client' \in [Conns -> {"idle", "open", "closed"}]
        /\ inbox' \in [Conns -> 0 .. SockCap]
    BY <2>2, <2>3, Constants
  <2>7. UNCHANGED <<sent, requests, backlog, m_lFreeList, m_mOnlineClient,
                    m_bUsed, sock, recvBuf, sendBuf, misplaced, run,
                    vSendClients, toLogic, toConnect, spin, subscribed,
                    pushes, untold>>
    BY <1>4 DEF Close, clients, asked, table, buffers, logic
  <2>8. QED
    BY <2>5, <2>6, <2>7 DEF TypeOK
<1>5. QED
  BY <1>1, <1>2, <1>3, <1>4 DEF ClientStep

(* So does a step of LogicServer.                                             *)
LEMMA LogicTypes ==
  ASSUME TypeOK, UnitsKnown, LogicTake \/ LogicPush \/ LogicPut
  PROVE  TypeOK'
<1>0. /\ toLogic \in Seq(Packets) /\ toConnect \in Seq(Slots) /\ spin \in Seq(Slots)
      /\ subscribed \in [Slots -> SUBSET Conns] /\ pushes \in 0 .. MaxPushes
  BY DEF TypeOK
<1>1. CASE LogicTake
  <2> DEFINE m == Head(toLogic)
  <2>1. toLogic # <<>> /\ toLogic' = Tail(toLogic)
    BY <1>1 DEF LogicTake
  <2>2. m \in Packets /\ toLogic' \in Seq(Packets) /\ m = toLogic[1] /\ 1 \in 1 .. Len(toLogic)
    BY <1>0, <2>1, QueueTypes
  <2>3. m.index \in Slots /\ m.type \in {"exit", "request"}
    BY <2>2 DEF Packets
  <2>4. CASE m.type = "exit"
    <3>1. subscribed' = [subscribed EXCEPT ![m.index] = {}] /\ UNCHANGED <<spin, toConnect>>
      BY <1>1, <2>4 DEF LogicTake
    <3>2. subscribed' \in [Slots -> SUBSET Conns]
      BY <1>0, <3>1
    <3>3. UNCHANGED <<client, sent, requests, up, inbox, backlog, m_lFreeList,
                      m_mOnlineClient, m_bUsed, sock, recvBuf, sendBuf,
                      misplaced, run, vSendClients, pushes, untold>>
      BY <1>1 DEF LogicTake, clients, asked, table, buffers
    <3>4. QED
      BY <2>2, <3>1, <3>2, <3>3 DEF TypeOK
  <2>5. CASE m.type = "request"
    <3>1. m.units[1].conn \in Conns
      BY <2>2, <2>5 DEF UnitsKnown, RingKnown, Past
    <3>2. /\ subscribed' = [subscribed EXCEPT ![m.index] = @ \cup {m.units[1].conn}]
          /\ \/ spin' = <<m.index>> /\ UNCHANGED toConnect
             \/ toConnect' = Append(toConnect, m.index) /\ UNCHANGED spin
             \/ UNCHANGED <<spin, toConnect>>
      BY <1>1, <2>5 DEF LogicTake
    <3>3. subscribed' \in [Slots -> SUBSET Conns]
      BY <1>0, <3>1, <3>2
    <3>4. <<m.index>> \in Seq(Slots) /\ Append(toConnect, m.index) \in Seq(Slots)
      BY <1>0, <2>3
    <3>5. spin' \in Seq(Slots) /\ toConnect' \in Seq(Slots)
      BY <1>0, <3>2, <3>4
    <3>6. UNCHANGED <<client, sent, requests, up, inbox, backlog, m_lFreeList,
                      m_mOnlineClient, m_bUsed, sock, recvBuf, sendBuf,
                      misplaced, run, vSendClients, pushes, untold>>
      BY <1>1 DEF LogicTake, clients, asked, table, buffers
    <3>7. QED
      BY <2>2, <3>3, <3>5, <3>6 DEF TypeOK
  <2>6. QED
    BY <2>3, <2>4, <2>5
<1>2. CASE LogicPush
  <2>1. PICK s \in Slots : spin' = <<s>>
    BY <1>2 DEF LogicPush
  <2>2. pushes' = pushes + 1 /\ pushes < MaxPushes
    BY <1>2 DEF LogicPush
  <2>3. spin' \in Seq(Slots) /\ pushes' \in 0 .. MaxPushes
    BY <1>0, <2>1, <2>2, Constants
  <2>4. UNCHANGED <<client, sent, requests, up, inbox, backlog, m_lFreeList,
                    m_mOnlineClient, m_bUsed, sock, recvBuf, sendBuf,
                    misplaced, run, vSendClients, toLogic, toConnect,
                    subscribed, untold>>
    BY <1>2 DEF LogicPush, clients, asked, table, buffers
  <2>5. QED
    BY <2>3, <2>4 DEF TypeOK
<1>3. CASE LogicPut
  <2>1. toConnect' = toConnect \o spin /\ spin' = <<>>
    BY <1>3 DEF LogicPut
  <2>2. toConnect' \in Seq(Slots) /\ spin' \in Seq(Slots)
    BY <1>0, <2>1, ConcatProperties
  <2>3. UNCHANGED <<client, sent, requests, up, inbox, backlog, m_lFreeList,
                    m_mOnlineClient, m_bUsed, sock, recvBuf, sendBuf,
                    misplaced, run, vSendClients, toLogic, subscribed, pushes,
                    untold>>
    BY <1>3 DEF LogicPut, clients, asked, table, buffers
  <2>4. QED
    BY <2>2, <2>3 DEF TypeOK
<1>4. QED
  BY <1>1, <1>2, <1>3

(* A receive that overruns its buffer leaves units where it writes.           *)
LEMMA OverrunTypes ==
  ASSUME TypeOK, SlotsSound, ThreadOK, NEW s \in Slots, Overrun(s)
  PROVE  up' \in [Conns -> Seq(AllUnits)] /\ recvBuf' \in [Slots -> Seq(AllUnits)]
<1>1. up \in [Conns -> Seq(AllUnits)] /\ recvBuf \in [Slots -> Seq(AllUnits)]
  BY DEF TypeOK
<1>2. sock[s] \in Conns
  <2>1. s \in m_bUsed /\ s # ListenSlot
    BY DEF Overrun, ThreadOK
  <2>2. QED
    BY <2>1 DEF SlotsSound
<1>3. PICK k \in RecvCap + 1 .. Len(up[sock[s]]) :
        /\ recvBuf' = [r \in Slots |-> CASE r = s -> SubSeq(up[sock[s]], 1, k)
                [] r = s + 1 -> Overwritten(recvBuf[r], SubSeq(up[sock[s]], 1, k))
                [] OTHER -> recvBuf[r]]
        /\ up' = [up EXCEPT ![sock[s]] = SubSeq(@, k + 1, Len(@))]
  BY DEF Overrun
<1>4. k \in 0 .. Len(up[sock[s]])
  BY Constants
<1>5. PICK piece \in Seq(AllUnits) : piece = SubSeq(up[sock[s]], 1, k)
  BY <1>1, <1>2, <1>4, PieceType
<1>6. SubSeq(up[sock[s]], k + 1, Len(up[sock[s]])) \in Seq(AllUnits)
  BY <1>1, <1>2, <1>4, PieceType
<1>7. ASSUME NEW r \in Slots
      PROVE  Overwritten(recvBuf[r], piece) \in Seq(AllUnits)
  <2>1. PICK held \in Seq(AllUnits) : held = recvBuf[r]
    BY <1>1
  <2>2. Len(held) \in Nat /\ DOMAIN held = 1 .. Len(held) /\ RecvCap \in Nat /\ Len(piece) \in Nat
    BY Constants, LenProperties
  <2>3. ASSUME NEW i \in 1 .. Len(held)
        PROVE  (IF RecvCap + i <= Len(piece) THEN piece[RecvCap + i] ELSE held[i]) \in AllUnits
    <3>1. held[i] \in AllUnits
      BY ElementOfSeq
    <3>2. RecvCap + i <= Len(piece) => piece[RecvCap + i] \in AllUnits
      BY <2>2, ElementOfSeq
    <3>3. QED
      BY <3>1, <3>2
  <2>4. Overwritten(held, piece) \in [1 .. Len(held) -> AllUnits]
    BY <2>2, <2>3 DEF Overwritten
  <2>5. QED
    BY <2>1, <2>2, <2>4, SeqDef
<1>8. \A r \in Slots : recvBuf'[r] \in Seq(AllUnits)
  BY <1>1, <1>3, <1>5, <1>7
<1>9. recvBuf' \in [Slots -> Seq(AllUnits)]
  BY <1>3, <1>8
<1>10. up' \in [Conns -> Seq(AllUnits)]
  BY <1>1, <1>2, <1>3, <1>6
<1>11. QED
  BY <1>9, <1>10

(* And a step of ConnectServer's thread.                                      *)
LEMMA ConnectTypes ==
  ASSUME TypeOK, SlotsSound, ThreadOK, ConnectStep
  PROVE  TypeOK'
<1>0. /\ run \in RunSet /\ vSendClients \in Seq(Slots) /\ toConnect \in Seq(Slots)
      /\ toLogic \in Seq(Packets) /\ recvBuf \in [Slots -> Seq(AllUnits)]
      /\ sendBuf \in [Slots -> Seq({"pack", "stale"})] /\ inbox \in [Conns -> 0 .. SockCap]
      /\ up \in [Conns -> Seq(AllUnits)] /\ untold \subseteq Slots /\ backlog \subseteq Conns
      /\ m_lFreeList \in Seq(Slots) /\ m_mOnlineClient \subseteq Slots /\ m_bUsed \subseteq Slots
      /\ sock \in [Slots -> Conns \cup {NoConn}]
      /\ client \in [Conns -> {"idle", "open", "closed"}]
  BY DEF TypeOK, RunSet
<1>a. run.events \in SUBSET Slots /\ run.slot \in Slots /\ Parts \in Nat /\ Parts > 0
  BY <1>0, Constants DEF RunSet
<1>1. CASE EpollWait
  <2>1. run' = Events(Ready)
    BY <1>1 DEF EpollWait
  <2>2. Ready \in SUBSET Slots
    BY <1>0 DEF Ready
  <2>3. run' \in RunSet
    BY <2>1, <2>2, RunTypes
  <2>4. UNCHANGED <<client, sent, requests, up, inbox, backlog, m_lFreeList,
                    m_mOnlineClient, m_bUsed, sock, recvBuf, sendBuf,
                    misplaced, vSendClients, toLogic, toConnect, spin,
                    subscribed, pushes, untold>>
    BY <1>1 DEF EpollWait, clients, asked, table, buffers, logic
  <2>5. QED
    BY <2>3, <2>4 DEF TypeOK, RunSet
<1>2. ASSUME NEW c \in backlog, Accept(c)
      PROVE  TypeOK'
  <2>1. run' = Events(run.events \ {ListenSlot}) /\ backlog' = backlog \ {c}
    BY <1>2 DEF Accept
  <2>2. run' \in RunSet /\ backlog' \subseteq Conns
    BY <1>0, <1>a, <2>1, RunTypes
  <2>3. /\ client' \in [Conns -> {"idle", "open", "closed"}] /\ up' \in [Conns -> Seq(AllUnits)]
        /\ m_lFreeList' \in Seq(Slots) /\ m_bUsed' \subseteq Slots
        /\ m_mOnlineClient' \subseteq Slots /\ sock' \in [Slots -> Conns \cup {NoConn}]
    <3>1. CASE m_lFreeList = <<>>
      <4>1. /\ client' = [client EXCEPT ![c] = "closed"] /\ up' = [up EXCEPT ![c] = <<>>]
            /\ UNCHANGED <<m_lFreeList, m_mOnlineClient, m_bUsed, sock>>
        BY <1>2, <3>1 DEF Accept, table
      <4>2. <<>> \in Seq(AllUnits)
        OBVIOUS
      <4>3. QED
        BY <1>0, <4>1, <4>2
    <3>2. CASE m_lFreeList # <<>>
      <4> DEFINE s == Head(m_lFreeList)
      <4>1. /\ m_lFreeList' = Tail(m_lFreeList) /\ m_bUsed' = m_bUsed \cup {s}
            /\ m_mOnlineClient' = m_mOnlineClient \cup {s} /\ sock' = [sock EXCEPT ![s] = c]
            /\ UNCHANGED <<client, up>>
        BY <1>2, <3>2 DEF Accept
      <4>2. s \in Slots /\ Tail(m_lFreeList) \in Seq(Slots) /\ c \in Conns
        BY <1>0, <3>2, QueueTypes
      <4>3. QED
        BY <1>0, <4>1, <4>2
    <3>3. QED
      BY <3>1, <3>2
  <2>4. UNCHANGED <<sent, requests, inbox, recvBuf, sendBuf, misplaced,
                    vSendClients, toLogic, toConnect, spin, subscribed,
                    pushes, untold>>
    BY <1>2 DEF Accept, asked, buffers, logic
  <2>5. QED
    BY <2>2, <2>3, <2>4 DEF TypeOK, RunSet
<1>3. ASSUME NEW s \in Slots, Recv(s)
      PROVE  TypeOK'
  <2>1. PICK k \in 1 .. Len(up[sock[s]]) :
          /\ recvBuf' = [recvBuf EXCEPT ![s] = recvBuf[s] \o SubSeq(up[sock[s]], 1, k)]
          /\ up' = [up EXCEPT ![sock[s]] = SubSeq(@, k + 1, Len(@))]
          /\ run' = Rest(s, recvBuf[s] \o SubSeq(up[sock[s]], 1, k), run.events \ {s})
    BY <1>3 DEF Recv
  <2>2. run' \in RunSet
    BY <1>a, <2>1, RunTypes
  <2>3. sock[s] \in Conns
    <3>1. s \in m_bUsed /\ s # ListenSlot
      BY <1>3 DEF Recv, ThreadOK
    <3>2. QED
      BY <3>1 DEF SlotsSound
  <2>4. /\ SubSeq(up[sock[s]], 1, k) \in Seq(AllUnits)
        /\ SubSeq(up[sock[s]], k + 1, Len(up[sock[s]])) \in Seq(AllUnits)
    BY <1>0, <2>3, PieceType
  <2>5. recvBuf[s] \o SubSeq(up[sock[s]], 1, k) \in Seq(AllUnits)
    BY <1>0, <2>4, ConcatProperties
  <2>6. recvBuf' \in [Slots -> Seq(AllUnits)] /\ up' \in [Conns -> Seq(AllUnits)]
    BY <1>0, <2>1, <2>3, <2>4, <2>5
  <2>7. UNCHANGED <<client, sent, requests, inbox, backlog, m_lFreeList,
                    m_mOnlineClient, m_bUsed, sock, sendBuf, vSendClients,
                    toLogic, toConnect, spin, subscribed, pushes, untold>>
    BY <1>3 DEF Recv, asked, table, logic
  <2>8. misplaced' \subseteq Slots
    BY <1>3 DEF Recv, TypeOK
  <2>9. QED
    BY <2>2, <2>6, <2>7, <2>8 DEF TypeOK, RunSet
<1>b. ASSUME NEW s \in Slots, Overrun(s)
      PROVE  TypeOK'
  <2>1. up' \in [Conns -> Seq(AllUnits)] /\ recvBuf' \in [Slots -> Seq(AllUnits)]
    BY <1>0, <1>b, OverrunTypes
  <2>2. run' \in RunSet
    BY <1>b, RunTypes DEF Overrun, Places
  <2>3. UNCHANGED <<client, sent, requests, inbox, backlog, m_lFreeList,
                    m_mOnlineClient, m_bUsed, sock, sendBuf, misplaced,
                    vSendClients, toLogic, toConnect, spin, subscribed, pushes,
                    untold>>
    BY <1>b DEF Overrun, asked, table, logic
  <2>4. QED
    BY <2>1, <2>2, <2>3 DEF TypeOK, RunSet
<1>4. ASSUME NEW s \in Slots, RecvEnd(s)
      PROVE  TypeOK'
  <2>1. TellExit(s) /\ ClientExit(s) /\ run' = Events(run.events \ {s})
    BY <1>4 DEF RecvEnd, Leave
  <2>2. run' \in RunSet
    BY <1>a, <2>1, RunTypes
  <2>3. UNCHANGED <<client, sent, requests, inbox, backlog, vSendClients,
                    toConnect, spin, subscribed, pushes>>
    BY <1>4 DEF RecvEnd, asked, logic
  <2>4. QED
    BY <1>0, <2>1, <2>2, <2>3, LeaveTypes DEF TypeOK, RunSet
<1>5. CASE Forward
  <2> DEFINE s == run.slot
  <2>1. /\ toLogic' = Append(toLogic, Request(s, SubSeq(recvBuf[s], 1, Parts)))
        /\ recvBuf' = [recvBuf EXCEPT ![s] = SubSeq(recvBuf[s], Parts + 1, Len(recvBuf[s]))]
        /\ run' = Rest(s, SubSeq(recvBuf[s], Parts + 1, Len(recvBuf[s])), run.events)
        /\ At("forward")
    BY <1>5 DEF Forward
  <2>2. Parts \in 0 .. Len(recvBuf[s])
    BY <1>0, <1>a, <2>1, LenProperties DEF ThreadOK
  <2>3. /\ SubSeq(recvBuf[s], 1, Parts) \in Seq(AllUnits)
        /\ SubSeq(recvBuf[s], Parts + 1, Len(recvBuf[s])) \in Seq(AllUnits)
    BY <1>0, <1>a, <2>2, PieceType
  <2>4. Request(s, SubSeq(recvBuf[s], 1, Parts)) \in Packets
    BY <1>a, <2>3 DEF Request, Packets
  <2>5. toLogic' \in Seq(Packets)
    BY <1>0, <2>1, <2>4, QueueTypes
  <2>6. recvBuf' \in [Slots -> Seq(AllUnits)] /\ run' \in RunSet
    BY <1>0, <1>a, <2>1, <2>3, RunTypes
  <2>7. UNCHANGED <<client, sent, requests, up, inbox, backlog, m_lFreeList,
                    m_mOnlineClient, m_bUsed, sock, sendBuf, misplaced,
                    vSendClients, toConnect, spin, subscribed, pushes,
                    untold>>
    BY <1>5 DEF Forward, clients, asked, table, logic
  <2>8. QED
    BY <2>5, <2>6, <2>7 DEF TypeOK, RunSet
<1>6. CASE QueueDone
  <2>1. run' = SendAll
    BY <1>6 DEF QueueDone
  <2>2. run' \in RunSet
    BY <2>1, RunTypes
  <2>3. UNCHANGED <<client, sent, requests, up, inbox, backlog, m_lFreeList,
                    m_mOnlineClient, m_bUsed, sock, recvBuf, sendBuf,
                    misplaced, vSendClients, toLogic, toConnect, spin,
                    subscribed, pushes, untold>>
    BY <1>6 DEF QueueDone, clients, asked, table, buffers, logic
  <2>4. QED
    BY <2>2, <2>3 DEF TypeOK, RunSet
<1>7. CASE TakeForNobody
  <2>1. /\ toConnect # <<>> /\ toConnect' = Tail(toConnect)
        /\ TellExit(Head(toConnect)) /\ run' = [TookOne EXCEPT !.slot = Head(toConnect)]
    BY <1>7 DEF TakeForNobody
  <2>2. Head(toConnect) \in Slots /\ toConnect' \in Seq(Slots) /\ run' \in RunSet
    BY <1>0, <2>1, QueueTypes, RunTypes
  <2>3. toLogic' \in Seq(Packets) /\ untold' \subseteq Slots
    BY <2>1, <2>2, LeaveTypes
  <2>4. UNCHANGED <<client, sent, requests, up, inbox, backlog, m_lFreeList,
                    m_mOnlineClient, m_bUsed, sock, recvBuf, sendBuf,
                    misplaced, vSendClients, spin, subscribed, pushes>>
    BY <1>7 DEF TakeForNobody, clients, asked, table, buffers, logic
  <2>5. QED
    BY <2>2, <2>3, <2>4 DEF TypeOK, RunSet
<1>8. CASE Take
  <2> DEFINE s == Head(toConnect)
  <2>1. toConnect # <<>> /\ toConnect' = Tail(toConnect)
    BY <1>8 DEF Take
  <2>2. s \in Slots /\ toConnect' \in Seq(Slots)
    BY <1>0, <2>1, QueueTypes
  <2>3. \/ /\ sendBuf' = [sendBuf EXCEPT ![s] = Append(@, "pack")]
           /\ vSendClients' = Append(vSendClients, s) /\ run' = TookOne
        \/ /\ run' = [TookOne EXCEPT !.at = "flush", !.slot = s]
           /\ UNCHANGED <<sendBuf, vSendClients>>
    BY <1>8 DEF Take
  <2>4. Append(sendBuf[s], "pack") \in Seq({"pack", "stale"}) /\ Append(vSendClients, s) \in Seq(Slots)
    BY <1>0, <2>2, QueueTypes
  <2>5. run' \in RunSet
    BY <1>0, <2>2, <2>3, RunTypes
  <2>6. sendBuf' \in [Slots -> Seq({"pack", "stale"})] /\ vSendClients' \in Seq(Slots)
    BY <1>0, <2>2, <2>3, <2>4
  <2>7. UNCHANGED <<client, sent, requests, up, inbox, backlog, m_lFreeList,
                    m_mOnlineClient, m_bUsed, sock, recvBuf, misplaced, toLogic, spin,
                    subscribed, pushes, untold>>
    BY <1>8 DEF Take, clients, asked, table, logic
  <2>8. QED
    BY <2>2, <2>5, <2>6, <2>7 DEF TypeOK, RunSet
<1>9. ASSUME NEW s \in Slots, CanSend(s), Delivered(s)
      PROVE  inbox' \in [Conns -> 0 .. SockCap]
  <2>1. CASE client[sock[s]] # "open"
    BY <1>0, <1>9, <2>1 DEF Delivered
  <2>2. CASE client[sock[s]] = "open"
    <3>1. inbox' = [inbox EXCEPT ![sock[s]] = @ + Len(sendBuf[s])]
      BY <1>9, <2>2 DEF Delivered
    <3>2. Len(sendBuf[s]) \in Nat
      BY <1>0, LenProperties
    <3>3. inbox[sock[s]] + Len(sendBuf[s]) <= SockCap
      BY <1>9, <2>2 DEF CanSend
    <3>4. inbox \in [Conns -> 0 .. SockCap] /\ SockCap \in Nat
      BY <1>0, Constants
    <3>5. CASE sock[s] \in Conns
      <4>1. inbox[sock[s]] + Len(sendBuf[s]) \in 0 .. SockCap
        BY <3>2, <3>3, <3>4, <3>5
      <4>2. QED
        BY <3>1, <3>4, <4>1
    <3>6. CASE sock[s] \notin Conns
      BY <3>1, <3>4, <3>6
    <3>7. QED
      BY <3>5, <3>6
  <2>3. QED
    BY <2>1, <2>2
<1>10. CASE Flush
  <2>1. /\ CanSend(run.slot) /\ Delivered(run.slot)
        /\ sendBuf' = [sendBuf EXCEPT ![run.slot] = <<"pack">>]
        /\ vSendClients' = Append(vSendClients, run.slot)
        /\ run' = [Going("queue") EXCEPT !.taken = run.taken]
    BY <1>10 DEF Flush
  <2>2. inbox' \in [Conns -> 0 .. SockCap]
    BY <1>9, <1>a, <2>1
  <2>3. <<"pack">> \in Seq({"pack", "stale"})
    OBVIOUS
  <2>4. /\ sendBuf' \in [Slots -> Seq({"pack", "stale"})] /\ vSendClients' \in Seq(Slots)
        /\ run' \in RunSet
    BY <1>0, <1>a, <2>1, <2>3, QueueTypes, RunTypes
  <2>5. UNCHANGED <<client, sent, requests, up, backlog, m_lFreeList,
                    m_mOnlineClient, m_bUsed, sock, recvBuf, misplaced, toLogic,
                    toConnect, spin, subscribed, pushes, untold>>
    BY <1>10 DEF Flush, asked, table, logic
  <2>6. QED
    BY <2>2, <2>4, <2>5 DEF TypeOK, RunSet
<1>11. CASE FlushFails
  <2>1. /\ TellExit(run.slot) /\ ClientExit(run.slot)
        /\ run' = [Going("queue") EXCEPT !.taken = run.taken]
    BY <1>11 DEF FlushFails, Leave
  <2>2. run' \in RunSet
    BY <1>0, <2>1, RunTypes
  <2>3. UNCHANGED <<client, sent, requests, inbox, backlog, vSendClients,
                    toConnect, spin, subscribed, pushes>>
    BY <1>11 DEF FlushFails, asked, logic
  <2>4. QED
    BY <1>0, <1>a, <2>1, <2>2, <2>3, LeaveTypes DEF TypeOK, RunSet
<1>12. ASSUME SendNext, At("send")
       PROVE  vSendClients' \in Seq(Slots) /\ run' \in RunSet /\ Head(vSendClients) \in Slots
  <2>1. vSendClients # <<>>
    BY <1>12 DEF ThreadOK
  <2>2. vSendClients' = Tail(vSendClients) /\ (run' = Going("wait") \/ run' = Going("send"))
    BY <1>12 DEF SendNext
  <2>3. run' \in RunSet
    BY <2>2, RunTypes DEF Places
  <2>4. QED
    BY <1>0, <2>1, <2>2, <2>3, QueueTypes
<1>13. CASE SendDataToClient
  <2> DEFINE s == Head(vSendClients)
  <2>1. /\ CanSend(s) /\ Delivered(s) /\ sendBuf' = [sendBuf EXCEPT ![s] = <<>>]
        /\ SendNext /\ At("send")
    BY <1>13 DEF SendDataToClient
  <2>2. vSendClients' \in Seq(Slots) /\ run' \in RunSet /\ s \in Slots
    BY <1>12, <2>1
  <2>3. inbox' \in [Conns -> 0 .. SockCap]
    BY <1>9, <2>1, <2>2
  <2>4. <<>> \in Seq({"pack", "stale"})
    OBVIOUS
  <2>5. sendBuf' \in [Slots -> Seq({"pack", "stale"})]
    BY <1>0, <2>1, <2>4
  <2>6. UNCHANGED <<client, sent, requests, up, backlog, m_lFreeList,
                    m_mOnlineClient, m_bUsed, sock, recvBuf, misplaced, toLogic,
                    toConnect, spin, subscribed, pushes, untold>>
    BY <1>13 DEF SendDataToClient, asked, table, logic
  <2>7. QED
    BY <2>2, <2>3, <2>5, <2>6 DEF TypeOK, RunSet
<1>14. CASE SendFails
  <2> DEFINE s == Head(vSendClients)
  <2>1. TellExit(s) /\ ClientExit(s) /\ SendNext /\ At("send")
    BY <1>14 DEF SendFails, Leave
  <2>2. vSendClients' \in Seq(Slots) /\ run' \in RunSet /\ s \in Slots
    BY <1>12, <2>1
  <2>3. UNCHANGED <<client, sent, requests, inbox, backlog, toConnect, spin,
                    subscribed, pushes>>
    BY <1>14 DEF SendFails, asked, logic
  <2>4. QED
    BY <1>0, <2>1, <2>2, <2>3, LeaveTypes DEF TypeOK, RunSet
<1>15. QED
  BY <1>1, <1>2, <1>3, <1>b, <1>4, <1>5, <1>6, <1>7, <1>8, <1>10, <1>11, <1>13, <1>14 DEF ConnectStep
-----------------------------------------------------------------------------
(* The connection objects *)

\* The first two conjuncts of SlotsSound, entry by entry.
FreeOK(list, used) ==
  /\ \A i, j \in 1 .. Len(list) : list[i] = list[j] => i = j
  /\ \A s \in Slots : s \notin used <=> \E i \in 1 .. Len(list) : list[i] = s

(* FreeOK says of the free list what SlotsSound says of it.                   *)
LEMMA FreeList ==
  ASSUME NEW list \in Seq(Slots), NEW used \in SUBSET Slots
  PROVE  IsInjective(list) /\ Range(list) = Slots \ used <=> FreeOK(list, used)
<1>1. DOMAIN list = 1 .. Len(list) /\ \A i \in 1 .. Len(list) : list[i] \in Slots
  BY LenProperties, ElementOfSeq
<1>2. IsInjective(list) <=> \A i, j \in 1 .. Len(list) : list[i] = list[j] => i = j
  BY <1>1 DEF IsInjective
<1>3. Range(list) = {list[i] : i \in 1 .. Len(list)}
  BY <1>1 DEF Range
<1>4. Range(list) = Slots \ used
        <=> \A s \in Slots : s \notin used <=> \E i \in 1 .. Len(list) : list[i] = s
  BY <1>1, <1>3
<1>5. QED
  BY <1>2, <1>4 DEF FreeOK

(* Taking the first free object, and giving one back. *)
LEMMA FreeListSteps ==
  ASSUME NEW list \in Seq(Slots), NEW used \in SUBSET Slots, FreeOK(list, used)
  PROVE  /\ list # <<>> => /\ FreeOK(Tail(list), used \cup {Head(list)})
                           /\ Head(list) \in Slots \ used
         /\ \A s \in used : FreeOK(Append(list, s), used \ {s})
<1>1. Len(list) \in Nat
  BY LenProperties
<1>2. ASSUME list # <<>>
      PROVE  FreeOK(Tail(list), used \cup {Head(list)}) /\ Head(list) \in Slots \ used
  <2>1. /\ Head(list) = list[1] /\ Head(list) \in Slots /\ Len(list) > 0
        /\ Len(Tail(list)) = Len(list) - 1
        /\ \A i \in 1 .. Len(list) - 1 : Tail(list)[i] = list[i + 1]
    BY <1>2, QueueTypes
  <2>2. Head(list) \notin used
    BY <1>1, <2>1 DEF FreeOK
  <2>3. \A i, j \in 1 .. Len(Tail(list)) : Tail(list)[i] = Tail(list)[j] => i = j
    <3>1. SUFFICES ASSUME NEW i \in 1 .. Len(list) - 1, NEW j \in 1 .. Len(list) - 1,
                          list[i + 1] = list[j + 1]
                   PROVE  i = j
      BY <1>1, <2>1
    <3>2. i + 1 \in 1 .. Len(list) /\ j + 1 \in 1 .. Len(list)
      BY <1>1
    <3>3. i + 1 = j + 1
      BY <3>1, <3>2 DEF FreeOK
    <3>4. QED
      BY <1>1, <3>3
  <2>4. ASSUME NEW s \in Slots
        PROVE  s \notin used \cup {Head(list)} <=> \E i \in 1 .. Len(Tail(list)) : Tail(list)[i] = s
    <3>1. ASSUME s \notin used \cup {Head(list)}
          PROVE  \E i \in 1 .. Len(Tail(list)) : Tail(list)[i] = s
      <4>1. PICK i \in 1 .. Len(list) : list[i] = s
        BY <3>1 DEF FreeOK
      <4>2. i # 1
        BY <2>1, <3>1, <4>1
      <4>3. i - 1 \in 1 .. Len(list) - 1 /\ (i - 1) + 1 = i
        BY <1>1, <4>1, <4>2
      <4>4. QED
        BY <2>1, <4>1, <4>3
    <3>2. ASSUME NEW i \in 1 .. Len(Tail(list)), Tail(list)[i] = s
          PROVE  s \notin used \cup {Head(list)}
      <4>1. i + 1 \in 1 .. Len(list) /\ i + 1 # 1 /\ list[i + 1] = s /\ 1 \in 1 .. Len(list)
        BY <1>1, <2>1, <3>2
      <4>2. s # Head(list)
        BY <2>1, <4>1 DEF FreeOK
      <4>3. QED
        BY <4>1, <4>2 DEF FreeOK
    <3>3. QED
      BY <3>1, <3>2
  <2>5. QED
    BY <2>1, <2>2, <2>3, <2>4 DEF FreeOK
<1>3. ASSUME NEW s \in used
      PROVE  FreeOK(Append(list, s), used \ {s})
  <2> DEFINE l2 == Append(list, s)
  <2>1. /\ Len(l2) = Len(list) + 1 /\ l2[Len(list) + 1] = s
        /\ \A i \in 1 .. Len(list) : l2[i] = list[i]
    BY QueueTypes
  <2>2. \A i \in 1 .. Len(list) : list[i] # s
    BY DEF FreeOK
  <2> HIDE DEF l2
  <2>3. \A i, j \in 1 .. Len(l2) : l2[i] = l2[j] => i = j
    BY <1>1, <2>1, <2>2 DEF FreeOK
  <2>4. \A t \in Slots : t \notin used \ {s} <=> \E i \in 1 .. Len(l2) : l2[i] = t
    <3>1. SUFFICES ASSUME NEW t \in Slots
                   PROVE  t \notin used \ {s} <=> \E i \in 1 .. Len(l2) : l2[i] = t
      OBVIOUS
    <3>2. Len(list) + 1 \in 1 .. Len(l2) /\ 1 .. Len(list) \subseteq 1 .. Len(l2)
      BY <1>1, <2>1
    <3>3. CASE t = s
      BY <2>1, <3>2, <3>3
    <3>4. CASE t # s
      <4>1. t \notin used <=> \E i \in 1 .. Len(list) : list[i] = t
        BY DEF FreeOK
      <4>2. \A i \in 1 .. Len(l2) : i \in 1 .. Len(list) \/ i = Len(list) + 1
        BY <1>1, <2>1
      <4>3. QED
        BY <2>1, <3>2, <3>4, <4>1, <4>2
    <3>5. QED
      BY <3>3, <3>4
  <2>5. QED
    BY <2>3, <2>4 DEF FreeOK, l2
<1>4. QED
  BY <1>2, <1>3

(* A connection that gets an object leaves the table sound.                   *)
LEMMA AcceptKeepsSlots ==
  ASSUME TypeOK, SlotsSound, UnitsKnown, NEW c \in backlog, Accept(c), TypeOK'
  PROVE  SlotsSound'
<1>1. CASE m_lFreeList = <<>>
  <2>1. UNCHANGED table
    BY <1>1 DEF Accept
  <2>2. QED
    BY <2>1 DEF SlotsSound, table
<1>2. CASE m_lFreeList # <<>>
  <2> DEFINE s == Head(m_lFreeList)
  <2>1. /\ m_lFreeList' = Tail(m_lFreeList) /\ m_bUsed' = m_bUsed \cup {s}
        /\ m_mOnlineClient' = m_mOnlineClient \cup {s} /\ sock' = [sock EXCEPT ![s] = c]
    BY <1>2 DEF Accept
  <2>2. /\ m_lFreeList \in Seq(Slots) /\ m_bUsed \in SUBSET Slots
        /\ m_lFreeList' \in Seq(Slots) /\ m_bUsed' \in SUBSET Slots
        /\ sock \in [Slots -> Conns \cup {NoConn}] /\ c \in Conns /\ m_mOnlineClient \subseteq Slots
    BY DEF TypeOK
  <2>3. FreeOK(m_lFreeList, m_bUsed)
    BY <2>2, FreeList DEF SlotsSound
  <2>4. FreeOK(m_lFreeList', m_bUsed') /\ s \in Slots \ m_bUsed
    BY <1>2, <2>1, <2>2, <2>3, FreeListSteps
  <2>5. IsInjective(m_lFreeList') /\ Range(m_lFreeList') = Slots \ m_bUsed'
    BY <2>2, <2>4, FreeList
  <2>6. /\ m_bUsed = m_mOnlineClient \cup {ListenSlot} /\ ListenSlot \notin m_mOnlineClient
        /\ \A r, t \in m_mOnlineClient : sock[r] \in Conns /\ (sock[r] = sock[t] => r = t)
    BY DEF SlotsSound
  <2>7. \A r \in Slots : sock[r] # c
    BY <2>2, Constants DEF UnitsKnown, SockKnown, Past
  <2>8. sock'[s] = c /\ \A r \in m_mOnlineClient : sock'[r] = sock[r] /\ r # s
    BY <2>1, <2>2, <2>4, <2>6
  <2> HIDE DEF s
  <2>9. \A r, t \in m_mOnlineClient' : sock'[r] \in Conns /\ (sock'[r] = sock'[t] => r = t)
    BY <2>1, <2>2, <2>6, <2>7, <2>8
  <2>10. m_bUsed' = m_mOnlineClient' \cup {ListenSlot} /\ ListenSlot \notin m_mOnlineClient'
    BY <2>1, <2>4, <2>6
  <2>11. QED
    BY <2>5, <2>9, <2>10 DEF SlotsSound
<1>3. QED
  BY <1>1, <1>2

(* So does one that gives its object back.                                    *)
LEMMA ExitKeepsSlots ==
  ASSUME TypeOK, SlotsSound, NEW s \in Slots, s # ListenSlot, ClientExit(s), TypeOK'
  PROVE  SlotsSound'
<1>1. CASE s \notin m_bUsed
  <2>1. UNCHANGED table
    BY <1>1 DEF ClientExit
  <2>2. QED
    BY <2>1 DEF SlotsSound, table
<1>2. CASE s \in m_bUsed
  <2>1. /\ m_mOnlineClient' = m_mOnlineClient \ {s} /\ m_bUsed' = m_bUsed \ {s}
        /\ m_lFreeList' = Append(m_lFreeList, s) /\ sock' = sock
    BY <1>2 DEF ClientExit
  <2>2. /\ m_lFreeList \in Seq(Slots) /\ m_bUsed \in SUBSET Slots
        /\ m_lFreeList' \in Seq(Slots) /\ m_bUsed' \in SUBSET Slots
    BY DEF TypeOK
  <2>3. FreeOK(m_lFreeList, m_bUsed)
    BY <2>2, FreeList DEF SlotsSound
  <2>4. FreeOK(m_lFreeList', m_bUsed')
    BY <1>2, <2>1, <2>2, <2>3, FreeListSteps
  <2>5. IsInjective(m_lFreeList') /\ Range(m_lFreeList') = Slots \ m_bUsed'
    BY <2>2, <2>4, FreeList
  <2>6. QED
    BY <2>1, <2>5 DEF SlotsSound
<1>3. QED
  BY <1>1, <1>2

(* After a receive that overruns its buffer ConnectServer takes no step.       *)
LEMMA LostSteps ==
  ASSUME Next
  PROVE  /\ ConnectStep => ~At("lost")
         /\ ~ConnectStep => UNCHANGED run
         /\ \A s \in Slots : Overrun(s) => At("lost")'
         /\ At("lost") => At("lost")'
<1>1. ConnectStep => ~At("lost")
  BY DEF ConnectStep, EpollWait, Accept, Recv, Overrun, RecvEnd, Forward, QueueDone,
         TakeForNobody, Take, Flush, FlushFails, SendDataToClient, SendFails, At
<1>2. ~ConnectStep => UNCHANGED run
  BY DEF Next, ClientStep, Connect, SendRequest, Read, Close, LogicTake, LogicPush, LogicPut
<1>3. \A s \in Slots : Overrun(s) => At("lost")'
  BY DEF Overrun, At, Going
<1>4. QED
  BY <1>1, <1>2, <1>3 DEF At

(* ConnectServer's steps by what they do to the objects; the object that a   *)
(* connection ends on is not the listening one.                               *)
LEMMA ConnectCases ==
  ASSUME TypeOK, SlotsSound, ThreadOK, ConnectStep
  PROVE  \/ \E s \in Served : Leave(s)
         \/ \E c \in backlog : Accept(c)
         \/ \E s \in Slots : Recv(s) \/ Overrun(s)
         \/ EpollWait \/ Forward \/ QueueDone \/ TakeForNobody \/ Take \/ Flush \/ SendDataToClient
<1>1. ASSUME NEW s \in Slots, RecvEnd(s)
      PROVE  s \in Served /\ Leave(s)
  <2>1. s \in run.events /\ s # ListenSlot /\ Leave(s)
    BY <1>1 DEF RecvEnd
  <2>2. s \in m_bUsed
    BY <2>1 DEF ThreadOK
  <2>3. sock[s] \in Conns
    BY <2>1, <2>2 DEF SlotsSound
  <2>4. QED
    BY <2>1, <2>3 DEF Served
<1>2. CASE FlushFails
  BY <1>2 DEF FlushFails, ThreadOK
<1>3. CASE SendFails
  <2>1. vSendClients # <<>> /\ vSendClients \in Seq(Served) /\ Leave(Head(vSendClients))
    BY <1>3 DEF SendFails, ThreadOK
  <2>2. Head(vSendClients) \in Served
    BY <2>1, QueueTypes
  <2>3. QED
    BY <2>1, <2>2
<1>4. QED
  BY <1>1, <1>2, <1>3 DEF ConnectStep

(* Every step leaves the table sound.                                         *)
LEMMA SlotsKeeps ==
  ASSUME TypeOK, SlotsSound, UnitsKnown, ThreadOK, Next, TypeOK'
  PROVE  SlotsSound'
<1>1. CASE ConnectStep
  <2>1. ASSUME NEW s \in Served, Leave(s)
        PROVE  SlotsSound'
    BY <2>1, ExitKeepsSlots DEF Leave, Served
  <2>2. ASSUME UNCHANGED table
        PROVE  SlotsSound'
    BY <2>2 DEF SlotsSound, table
  <2>3. ASSUME NEW s \in Slots, Recv(s) \/ Overrun(s)
        PROVE  UNCHANGED table
    BY <2>3 DEF Recv, Overrun
  <2>4. ASSUME EpollWait \/ Forward \/ QueueDone \/ TakeForNobody \/ Take \/ Flush \/ SendDataToClient
        PROVE  UNCHANGED table
    BY <2>4 DEF EpollWait, Forward, QueueDone, TakeForNobody, Take, Flush, SendDataToClient
  <2>5. QED
    BY <1>1, <2>1, <2>2, <2>3, <2>4, ConnectCases, AcceptKeepsSlots
<1>2. ASSUME NEW c \in Conns, ClientStep(c)
      PROVE  SlotsSound'
  <2>1. UNCHANGED table
    BY <1>2 DEF ClientStep, Connect, SendRequest, Read, Close
  <2>2. QED
    BY <2>1 DEF SlotsSound, table
<1>3. CASE LogicTake \/ LogicPush \/ LogicPut
  <2>1. UNCHANGED table
    BY <1>3 DEF LogicTake, LogicPush, LogicPut
  <2>2. QED
    BY <2>1 DEF SlotsSound, table
<1>4. QED
  BY <1>1, <1>2, <1>3 DEF Next
-----------------------------------------------------------------------------
(* Where the units come from *)

(* Only Accept gives an object a new connection. *)
LEMMA TableSteps ==
  ASSUME TypeOK, SlotsSound, ThreadOK, Next
  PROVE  sock' = sock \/ \E c \in backlog : Accept(c)
<1>1. ASSUME NEW s \in Served, Leave(s)
      PROVE  sock' = sock
  BY <1>1 DEF Leave, ClientExit, table
<1>2. ASSUME NEW s \in Slots, Recv(s) \/ Overrun(s)
      PROVE  sock' = sock
  BY <1>2 DEF Recv, Overrun, table
<1>3. ASSUME EpollWait \/ Forward \/ QueueDone \/ TakeForNobody \/ Take \/ Flush \/ SendDataToClient
      PROVE  sock' = sock
  BY <1>3 DEF EpollWait, Forward, QueueDone, TakeForNobody, Take, Flush, SendDataToClient, table
<1>4. ASSUME NEW c \in Conns, ClientStep(c)
      PROVE  sock' = sock
  BY <1>4 DEF ClientStep, Connect, SendRequest, Read, Close, table
<1>5. ASSUME LogicTake \/ LogicPush \/ LogicPut
      PROVE  sock' = sock
  BY <1>5 DEF LogicTake, LogicPush, LogicPut, table
<1>6. QED
  BY <1>1, <1>2, <1>3, <1>4, <1>5, ConnectCases DEF Next

(* A connection once accepted or refused does not come back, and an object    *)
(* that has had a connection always has the latest one in sock.               *)
LEMMA PastGrows ==
  ASSUME TypeOK, SlotsSound, ThreadOK, Next
  PROVE  /\ Past \subseteq Past' /\ backlog' \subseteq {c \in Conns : client'[c] # "idle"}
         /\ Served \subseteq Served'
         /\ \A c \in backlog : Accept(c) => c \in Past'
<1>0. /\ client \in [Conns -> {"idle", "open", "closed"}] /\ backlog \subseteq Conns
      /\ \A c \in backlog : client[c] # "idle"
      /\ sock \in [Slots -> Conns \cup {NoConn}]
  BY DEF TypeOK, ThreadOK
<1>1. ASSUME NEW c \in Conns, Connect(c)
      PROVE  Past \subseteq Past' /\ backlog' \subseteq {d \in Conns : client'[d] # "idle"}
  <2>1. /\ client[c] = "idle" /\ client' = [client EXCEPT ![c] = "open"]
        /\ backlog' = backlog \cup {c}
    BY <1>1 DEF Connect
  <2>2. QED
    BY <1>0, <2>1 DEF Past
<1>2. ASSUME NEW c \in Conns, Close(c)
      PROVE  Past \subseteq Past' /\ backlog' \subseteq {d \in Conns : client'[d] # "idle"}
  <2>1. client[c] = "open" /\ client' = [client EXCEPT ![c] = "closed"] /\ backlog' = backlog
    BY <1>2 DEF Close
  <2>2. QED
    BY <1>0, <2>1 DEF Past
<1>3. ASSUME NEW c \in backlog, Accept(c)
      PROVE  /\ Past \subseteq Past' /\ backlog' \subseteq {d \in Conns : client'[d] # "idle"}
             /\ c \in Past' /\ Served \subseteq Served'
  <2>1. /\ client' = [client EXCEPT ![c] = "closed"] \/ client' = client
        /\ backlog' = backlog \ {c}
    BY <1>3 DEF Accept
  <2>2. /\ Past \subseteq Past' /\ backlog' \subseteq {d \in Conns : client'[d] # "idle"}
        /\ c \in Past'
    BY <1>0, <2>1 DEF Past
  <2>3. sock' = sock \/ \E s \in Slots : sock' = [sock EXCEPT ![s] = c]
    <3>1. CASE m_lFreeList = <<>>
      BY <1>3, <3>1 DEF Accept, table
    <3>2. CASE m_lFreeList # <<>>
      <4>1. Head(m_lFreeList) \in Slots
        BY <3>2, QueueTypes DEF TypeOK
      <4>2. QED
        BY <1>3, <3>2, <4>1 DEF Accept
    <3>3. QED
      BY <3>1, <3>2
  <2>4. Served \subseteq Served'
    BY <1>0, <2>3 DEF Served
  <2>5. QED
    BY <2>2, <2>4
<1>4. ASSUME UNCHANGED <<client, backlog>>
      PROVE  Past \subseteq Past' /\ backlog' \subseteq {d \in Conns : client'[d] # "idle"}
  BY <1>0, <1>4 DEF Past
<1>5. ASSUME NEW c \in Conns, SendRequest(c) \/ Read(c)
      PROVE  UNCHANGED <<client, backlog>>
  BY <1>5 DEF SendRequest, Read
<1>6. ASSUME LogicTake \/ LogicPush \/ LogicPut
      PROVE  UNCHANGED <<client, backlog>>
  BY <1>6 DEF LogicTake, LogicPush, LogicPut, clients
<1>7. ASSUME ConnectStep
      PROVE  UNCHANGED <<client, backlog>> \/ \E c \in backlog : Accept(c)
  BY <1>7 DEF ConnectStep, EpollWait, Recv, Overrun, RecvEnd, Forward, QueueDone, TakeForNobody, Take,
              Flush, FlushFails, SendDataToClient, SendFails, clients
<1>8. Past \subseteq Past' /\ backlog' \subseteq {d \in Conns : client'[d] # "idle"}
  BY <1>1, <1>2, <1>3, <1>4, <1>5, <1>6, <1>7 DEF Next, ClientStep
<1>9. sock' = sock => Served \subseteq Served'
  BY DEF Served
<1>10. QED
  BY <1>3, <1>8, <1>9, TableSteps

(* What is on the way keeps its connection. *)
LEMMA UpKeeps ==
  ASSUME TypeOK, SlotsSound, UnitsKnown, ThreadOK, Next
  PROVE  UpKnown'
<1>0. /\ up \in [Conns -> Seq(AllUnits)] /\ sent \in [Conns -> 0 .. MaxRequests]
      /\ sock \in [Slots -> Conns \cup {NoConn}] /\ backlog \subseteq Conns
      /\ \A c \in Conns : sent[c] <= requests
      /\ \A c \in Conns : \A i \in 1 .. Len(up[c]) : up[c][i].conn = c
  BY DEF TypeOK, UnitsKnown, UpKnown, ThreadOK
<1>1. ASSUME NEW c, up' = [up EXCEPT ![c] = <<>>]
      PROVE  UpKnown'
  <2>1. Len(<<>>) = 0
    OBVIOUS
  <2>2. QED
    BY <1>0, <1>1, <2>1 DEF UpKnown
<1>2. ASSUME UNCHANGED up
      PROVE  UpKnown'
  BY <1>0, <1>2 DEF UpKnown
<1>3. ASSUME NEW c \in Conns, SendRequest(c)
      PROVE  UpKnown'
  <2> DEFINE u == Units(c, sent[c] + 1)
  <2>1. up' = [up EXCEPT ![c] = @ \o u] /\ requests < MaxRequests
    BY <1>3 DEF SendRequest
  <2>2. requests \in Nat /\ sent[c] + 1 \in 1 .. MaxRequests
    BY <1>0, <2>1, Constants, SMTT(30) DEF TypeOK
  <2>3. u \in Seq(AllUnits) /\ \A k \in 1 .. Len(u) : u[k].conn = c
    BY <2>2, UnitsType
  <2> HIDE DEF u
  <2>4. /\ Len(up[c] \o u) = Len(up[c]) + Len(u)
        /\ \A i \in 1 .. Len(up[c]) + Len(u) :
             (up[c] \o u)[i] = IF i <= Len(up[c]) THEN up[c][i] ELSE u[i - Len(up[c])]
    BY <1>0, <2>3, ConcatProperties
  <2>5. Len(up[c]) \in Nat /\ Len(u) \in Nat
    BY <1>0, <2>3, LenProperties
  <2>6. \A i \in 1 .. Len(up[c] \o u) : (up[c] \o u)[i].conn = c
    BY <1>0, <2>3, <2>4, <2>5
  <2>7. QED
    BY <1>0, <2>1, <2>6 DEF UpKnown
<1>4. ASSUME NEW c \in Conns, Close(c)
      PROVE  UpKnown'
  <2>1. PICK k \in 0 .. Len(up[c]) : up' = [up EXCEPT ![c] = SubSeq(@, 1, k)]
    BY <1>4 DEF Close
  <2>2. Len(up[c]) \in Nat
    BY <1>0, LenProperties
  <2>3. Len(SubSeq(up[c], 1, k)) = k /\ \A i \in 1 .. k : SubSeq(up[c], 1, k)[i] = up[c][i]
    BY <1>0, PieceType
  <2>4. \A i \in 1 .. Len(SubSeq(up[c], 1, k)) : SubSeq(up[c], 1, k)[i].conn = c
    BY <1>0, <2>2, <2>3
  <2>5. QED
    BY <1>0, <2>1, <2>4 DEF UpKnown
<1>5. ASSUME NEW s \in Slots, Recv(s) \/ Overrun(s)
      PROVE  UpKnown'
  <2> DEFINE c == sock[s]
  <2>1. PICK k \in 1 .. Len(up[c]) : up' = [up EXCEPT ![c] = SubSeq(@, k + 1, Len(@))]
    <3>1. RecvCap + 1 .. Len(up[c]) \subseteq 1 .. Len(up[c])
      BY Constants
    <3>2. QED
      BY <1>5, <3>1 DEF Recv, Overrun
  <2>2. c \in Conns
    BY <1>5 DEF Recv, Overrun, ThreadOK, SlotsSound
  <2>3. Len(up[c]) \in Nat
    BY <1>0, <2>2, LenProperties
  <2>4. /\ Len(SubSeq(up[c], k + 1, Len(up[c]))) = Len(up[c]) - k
        /\ \A i \in 1 .. Len(up[c]) - k : SubSeq(up[c], k + 1, Len(up[c]))[i] = up[c][i + k]
    BY <1>0, <2>2, <2>3, PieceType
  <2>5. \A i \in 1 .. Len(SubSeq(up[c], k + 1, Len(up[c]))) :
          SubSeq(up[c], k + 1, Len(up[c]))[i].conn = c
    BY <1>0, <2>2, <2>3, <2>4
  <2>6. QED
    BY <1>0, <2>1, <2>2, <2>5 DEF UpKnown
<1>6. ASSUME NEW s \in Slots, Leave(s)
      PROVE  UpKnown'
  <2>1. up' = [up EXCEPT ![sock[s]] = <<>>] \/ UNCHANGED up
    BY <1>6 DEF Leave, ClientExit
  <2>2. QED
    BY <1>1, <1>2, <2>1
<1>7. ASSUME NEW c \in backlog, Accept(c)
      PROVE  UpKnown'
  <2>1. up' = [up EXCEPT ![c] = <<>>] \/ UNCHANGED up
    BY <1>7 DEF Accept
  <2>2. QED
    BY <1>1, <1>2, <2>1
<1>8. ASSUME EpollWait \/ Forward \/ QueueDone \/ TakeForNobody \/ Take \/ Flush \/ SendDataToClient
      PROVE  UNCHANGED up
  BY <1>8 DEF EpollWait, Forward, QueueDone, TakeForNobody, Take, Flush, SendDataToClient, clients
<1>9. ASSUME NEW c \in Conns, Connect(c) \/ Read(c)
      PROVE  UNCHANGED up
  BY <1>9 DEF Connect, Read
<1>10. CASE ConnectStep
  BY <1>2, <1>5, <1>6, <1>7, <1>8, <1>10, ConnectCases DEF Served
<1>11. CASE LogicTake \/ LogicPush \/ LogicPut
  <2>1. UNCHANGED up
    BY <1>11 DEF LogicTake, LogicPush, LogicPut, clients
  <2>2. QED
    BY <1>2, <2>1
<1>12. QED
  BY <1>2, <1>3, <1>4, <1>9, <1>10, <1>11 DEF Next, ClientStep

(* An object's connection has left the backlog, for good.                     *)
LEMMA SockKeeps ==
  ASSUME TypeOK, SlotsSound, UnitsKnown, ThreadOK, Next
  PROVE  SockKnown'
<1>0. sock \in [Slots -> Conns \cup {NoConn}] /\ \A s \in Slots : sock[s] \in Past \cup {NoConn}
  BY DEF TypeOK, UnitsKnown, SockKnown
<1>1. Past \subseteq Past' /\ \A c \in backlog : Accept(c) => c \in Past'
  BY PastGrows
<1>2. ASSUME NEW c \in backlog, Accept(c)
      PROVE  SockKnown'
  <2>1. sock' = sock \/ sock' = [sock EXCEPT ![Head(m_lFreeList)] = c]
    BY <1>2 DEF Accept, table
  <2>2. QED
    BY <1>0, <1>1, <1>2, <2>1 DEF SockKnown
<1>3. UNCHANGED sock => SockKnown'
  BY <1>0, <1>1 DEF SockKnown
<1>4. sock' = sock \/ \E c \in backlog : Accept(c)
  BY TableSteps
<1>5. QED
  BY <1>2, <1>3, <1>4

(* What was received is of the connection that has the object.                *)
LEMMA RecvKeeps ==
  ASSUME TypeOK, SlotsSound, UnitsKnown, ThreadOK, Next
  PROVE  RecvKnown'
<1> SUFFICES ASSUME ~At("lost")'
             PROVE  UnitsOwn'
  BY DEF RecvKnown, At
<1>a. ~At("lost") /\ \A s \in Slots : ~Overrun(s)
  BY LostSteps
<1>0. /\ sock \in [Slots -> Conns \cup {NoConn}] /\ recvBuf \in [Slots -> Seq(AllUnits)]
      /\ up \in [Conns -> Seq(AllUnits)] /\ UpKnown /\ UnitsOwn
      /\ m_bUsed = m_mOnlineClient \cup {ListenSlot}
      /\ run.slot \in Slots /\ Parts \in Nat /\ m_lFreeList \in Seq(Slots)
      /\ \A s \in m_mOnlineClient : sock[s] \in Conns
  BY <1>a, Constants DEF TypeOK, UnitsKnown, RecvKnown, SlotsSound
<1>1. ASSUME UNCHANGED <<recvBuf, m_mOnlineClient, sock>>
      PROVE  UnitsOwn'
  BY <1>0, <1>1 DEF UnitsOwn
<1>2. ASSUME NEW c \in backlog, Accept(c)
      PROVE  UnitsOwn'
  <2>1. UNCHANGED recvBuf
    BY <1>2 DEF Accept, buffers
  <2>2. CASE m_lFreeList = <<>>
    BY <1>1, <1>2, <2>1, <2>2 DEF Accept, table
  <2>3. CASE m_lFreeList # <<>>
    <3> DEFINE s == Head(m_lFreeList)
    <3>1. sock' = [sock EXCEPT ![s] = c] /\ m_mOnlineClient' = m_mOnlineClient \cup {s}
      BY <1>2, <2>3 DEF Accept
    <3>2. FreeOK(m_lFreeList, m_bUsed)
      BY FreeList DEF TypeOK, SlotsSound
    <3>3. m_bUsed \in SUBSET Slots
      BY DEF TypeOK
    <3>4. s \in Slots \ m_bUsed
      BY <1>0, <2>3, <3>2, <3>3, FreeListSteps
    <3>5. s \notin m_mOnlineClient
      BY <1>0, <3>4
    <3>6. QED
      BY <1>0, <2>1, <3>1, <3>5 DEF UnitsOwn
  <2>4. QED
    BY <2>2, <2>3
<1>3. ASSUME NEW s \in Slots, Recv(s)
      PROVE  UnitsOwn'
  <2> DEFINE c == sock[s]
  <2>1. PICK k \in 1 .. Len(up[c]) :
          recvBuf' = [recvBuf EXCEPT ![s] = recvBuf[s] \o SubSeq(up[c], 1, k)]
    BY <1>3 DEF Recv
  <2>2. s \in m_mOnlineClient /\ UNCHANGED <<m_mOnlineClient, sock>>
    BY <1>0, <1>3 DEF Recv, ThreadOK, table
  <2>3. c \in Conns
    BY <1>0, <2>2
  <2> DEFINE piece == SubSeq(up[c], 1, k)
  <2>4. Len(up[c]) \in Nat /\ Len(recvBuf[s]) \in Nat
    BY <1>0, <2>3, LenProperties
  <2>5. piece \in Seq(AllUnits) /\ Len(piece) = k /\ \A i \in 1 .. k : piece[i] = up[c][i]
    BY <1>0, <2>3, <2>4, PieceType
  <2>6. \A i \in 1 .. k : piece[i].conn = c
    BY <1>0, <2>3, <2>4, <2>5 DEF UpKnown
  <2> HIDE DEF piece
  <2>7. /\ Len(recvBuf[s] \o piece) = Len(recvBuf[s]) + k
        /\ \A i \in 1 .. Len(recvBuf[s]) + k :
             (recvBuf[s] \o piece)[i]
               = IF i <= Len(recvBuf[s]) THEN recvBuf[s][i] ELSE piece[i - Len(recvBuf[s])]
    <3>1. recvBuf[s] \in Seq(AllUnits)
      BY <1>0
    <3>2. QED
      BY <2>5, <3>1, ConcatProperties
  <2>8. \A i \in 1 .. Len(recvBuf[s] \o piece) : (recvBuf[s] \o piece)[i].conn = c
    BY <1>0, <2>4, <2>6, <2>7 DEF UnitsOwn
  <2>9. recvBuf' = [recvBuf EXCEPT ![s] = recvBuf[s] \o piece]
    BY <2>1 DEF piece
  <2>10. QED
    BY <1>0, <2>2, <2>8, <2>9 DEF UnitsOwn
<1>4. CASE Forward
  <2> DEFINE s == run.slot
             rest == SubSeq(recvBuf[s], Parts + 1, Len(recvBuf[s]))
  <2>1. recvBuf' = [recvBuf EXCEPT ![s] = rest] /\ At("forward") /\ UNCHANGED <<m_mOnlineClient, sock>>
    BY <1>4 DEF Forward, table
  <2>2. Len(recvBuf[s]) \in Nat /\ Parts <= Len(recvBuf[s])
    BY <1>0, <2>1, LenProperties DEF ThreadOK
  <2>3. /\ Len(rest) = Len(recvBuf[s]) - Parts
        /\ \A i \in 1 .. Len(recvBuf[s]) - Parts : rest[i] = recvBuf[s][i + Parts]
    BY <1>0, <2>2, PieceType
  <2>4. \A i \in 1 .. Len(rest) : s \in m_mOnlineClient /\ rest[i].conn = sock[s]
    BY <1>0, <2>2, <2>3 DEF UnitsOwn
  <2> HIDE DEF rest
  <2>5. QED
    BY <1>0, <2>1, <2>4 DEF UnitsOwn
<1>5. ASSUME NEW s \in Slots, Leave(s)
      PROVE  UnitsOwn'
  <2>1. CASE s \notin m_bUsed
    BY <1>1, <1>5, <2>1 DEF Leave, ClientExit, table, buffers
  <2>2. CASE s \in m_bUsed
    <3>1. /\ recvBuf' = [recvBuf EXCEPT ![s] = <<>>] /\ UNCHANGED sock
          /\ m_mOnlineClient' = m_mOnlineClient \ {s}
      BY <1>5, <2>2 DEF Leave, ClientExit
    <3>2. Len(<<>>) = 0
      OBVIOUS
    <3>3. QED
      BY <1>0, <3>1, <3>2 DEF UnitsOwn
  <2>3. QED
    BY <2>1, <2>2
<1>6. ASSUME EpollWait \/ QueueDone \/ TakeForNobody \/ Take \/ Flush \/ SendDataToClient
      PROVE  UNCHANGED <<recvBuf, m_mOnlineClient, sock>>
  BY <1>6 DEF EpollWait, QueueDone, TakeForNobody, Take, Flush, SendDataToClient, table, buffers
<1>7. ASSUME NEW c \in Conns, ClientStep(c)
      PROVE  UNCHANGED <<recvBuf, m_mOnlineClient, sock>>
  BY <1>7 DEF ClientStep, Connect, SendRequest, Read, Close, table, buffers
<1>8. ASSUME LogicTake \/ LogicPush \/ LogicPut
      PROVE  UNCHANGED <<recvBuf, m_mOnlineClient, sock>>
  BY <1>8 DEF LogicTake, LogicPush, LogicPut, table, buffers
<1>9. CASE ConnectStep
  BY <1>a, <1>1, <1>2, <1>3, <1>4, <1>5, <1>6, <1>9, ConnectCases DEF Served
<1>10. QED
  BY <1>1, <1>7, <1>8, <1>9 DEF Next

(* What ConnectServer and LogicServer do to CONNECT_TO_LOGIC. *)
LEMMA RingSteps ==
  ASSUME TypeOK, SlotsSound, ThreadOK, Next
  PROVE  \/ UNCHANGED <<toLogic, untold>>
         \/ Forward /\ UNCHANGED untold
         \/ \E s \in Slots : TellExit(s) /\ (Leave(s) \/ (s \notin m_mOnlineClient /\ UNCHANGED table))
         \/ LogicTake
<1>1. CASE ConnectStep
  <2>1. CASE TakeForNobody
    <3>1. /\ TellExit(Head(toConnect)) /\ Head(toConnect) \notin m_mOnlineClient
          /\ toConnect # <<>> /\ UNCHANGED table
      BY <2>1 DEF TakeForNobody
    <3>2. Head(toConnect) \in Slots
      BY <3>1, QueueTypes DEF TypeOK
    <3>3. QED
      BY <3>1, <3>2
  <2>2. ASSUME EpollWait \/ QueueDone \/ Take \/ Flush \/ SendDataToClient
        PROVE  UNCHANGED <<toLogic, untold>>
    BY <2>2 DEF EpollWait, QueueDone, Take, Flush, SendDataToClient
  <2>3. ASSUME NEW c \in backlog, Accept(c)
        PROVE  UNCHANGED <<toLogic, untold>>
    BY <2>3 DEF Accept
  <2>4. ASSUME NEW s \in Slots, Recv(s) \/ Overrun(s)
        PROVE  UNCHANGED <<toLogic, untold>>
    BY <2>4 DEF Recv, Overrun
  <2>5. CASE Forward
    BY <2>5 DEF Forward
  <2>6. ASSUME NEW s \in Served, Leave(s)
        PROVE  s \in Slots /\ TellExit(s) /\ Leave(s)
    BY <2>6 DEF Leave, Served
  <2>7. QED
    BY <1>1, <2>1, <2>2, <2>3, <2>4, <2>5, <2>6, ConnectCases
<1>2. ASSUME NEW c \in Conns, ClientStep(c)
      PROVE  UNCHANGED <<toLogic, untold>>
  BY <1>2 DEF ClientStep, Connect, SendRequest, Read, Close
<1>3. CASE LogicPush \/ LogicPut
  BY <1>3 DEF LogicPush, LogicPut
<1>4. QED
  BY <1>1, <1>2, <1>3 DEF Next

(* The ring's requests are whole, and of connections that had an object.      *)
LEMMA RingKeeps ==
  ASSUME TypeOK, SlotsSound, UnitsKnown, ThreadOK, Next
  PROVE  RingKnown'
<1>0. /\ toLogic \in Seq(Packets) /\ RingKnown /\ Past \subseteq Past' /\ Len(toLogic) \in Nat
      /\ run.slot \in Slots /\ recvBuf \in [Slots -> Seq(AllUnits)] /\ Parts \in Nat /\ Parts > 0
  BY Constants, PastGrows, LenProperties DEF TypeOK, UnitsKnown
<1>1. CASE UNCHANGED toLogic
  BY <1>0, <1>1 DEF RingKnown
<1>2. ASSUME NEW p \in Packets, toLogic' = Append(toLogic, p),
             p.type = "request" => Len(p.units) = Parts /\ p.units[1].conn \in Past
      PROVE  RingKnown'
  <2>1. /\ Len(toLogic') = Len(toLogic) + 1 /\ toLogic'[Len(toLogic) + 1] = p
        /\ \A i \in 1 .. Len(toLogic) : toLogic'[i] = toLogic[i]
    BY <1>0, <1>2, QueueTypes
  <2>2. QED
    BY <1>0, <1>2, <2>1 DEF RingKnown
<1>3. CASE Forward
  <2> DEFINE s == run.slot
             units == SubSeq(recvBuf[s], 1, Parts)
  <2>1. toLogic' = Append(toLogic, Request(s, units)) /\ At("forward")
    BY <1>3 DEF Forward
  <2>2. s \in m_mOnlineClient /\ Len(recvBuf[s]) >= Parts /\ Len(recvBuf[s]) \in Nat
    BY <1>0, <2>1, LenProperties DEF ThreadOK
  <2>3. units \in Seq(AllUnits) /\ Len(units) = Parts /\ units[1] = recvBuf[s][1]
    BY <1>0, <2>2, PieceType
  <2>4. units[1].conn = sock[s] /\ sock[s] \in Conns
    <3>1. 1 \in 1 .. Len(recvBuf[s])
      BY <1>0, <2>2
    <3>2. recvBuf[s][1].conn = sock[s]
      BY <1>0, <2>1, <3>1 DEF UnitsKnown, RecvKnown, UnitsOwn, At
    <3>3. sock[s] \in Conns
      BY <2>2 DEF SlotsSound
    <3>4. QED
      BY <2>3, <3>2, <3>3
  <2>5. sock[s] \in Past
    BY <1>0, <2>4, Constants DEF UnitsKnown, SockKnown
  <2>6. Request(s, units) \in Packets /\ Request(s, units).units = units
    BY <1>0, <2>3 DEF Request, Packets
  <2> HIDE DEF units
  <2>7. QED
    BY <1>2, <2>1, <2>3, <2>4, <2>5, <2>6
<1>4. ASSUME NEW s \in Slots, TellExit(s)
      PROVE  RingKnown'
  <2>1. ClientExitMessage(s) \in Packets /\ ClientExitMessage(s).type # "request"
    BY DEF ClientExitMessage, Packets
  <2>2. UNCHANGED toLogic \/ toLogic' = Append(toLogic, ClientExitMessage(s))
    BY <1>4 DEF TellExit
  <2>3. QED
    BY <1>1, <1>2, <2>1, <2>2
<1>5. CASE LogicTake
  <2>1. toLogic # <<>> /\ toLogic' = Tail(toLogic)
    BY <1>5 DEF LogicTake
  <2>2. /\ Len(toLogic') = Len(toLogic) - 1
        /\ \A i \in 1 .. Len(toLogic) - 1 : toLogic'[i] = toLogic[i + 1]
    BY <1>0, <2>1, QueueTypes
  <2>3. QED
    BY <1>0, <2>2 DEF RingKnown
<1>6. QED
  BY <1>1, <1>3, <1>4, <1>5, RingSteps

(* The four together.                                                         *)
LEMMA UnitsKeep ==
  ASSUME TypeOK, SlotsSound, UnitsKnown, ThreadOK, Next
  PROVE  UnitsKnown'
BY UpKeeps, SockKeeps, RecvKeeps, RingKeeps DEF UnitsKnown
-----------------------------------------------------------------------------
(* ConnectServer's thread *)

(* Where it is after each kind of step. *)
LEMMA RunPlaces ==
  /\ \A place \in Places : Going(place).at = place /\ Going(place).events = {}
  /\ \A left \in SUBSET Slots :
       Events(left).at \in {"queue", "events"} /\ Events(left).events \subseteq left
  /\ \A s \in Slots, left \in SUBSET Slots : \A units :
       /\ Rest(s, units, left).at \in {"forward", "queue", "events"}
       /\ Rest(s, units, left).events \subseteq left
       /\ Rest(s, units, left).at = "forward"
            => Rest(s, units, left).slot = s /\ Len(units) >= Parts
  /\ TookOne.at = "queue" /\ TookOne.events = {}
  /\ \A s \in Slots : [TookOne EXCEPT !.slot = s].at = "queue" /\ [TookOne EXCEPT !.slot = s].events = {}
  /\ \A s \in Slots : /\ [TookOne EXCEPT !.at = "flush", !.slot = s].at = "flush"
                      /\ [TookOne EXCEPT !.at = "flush", !.slot = s].slot = s
                      /\ [TookOne EXCEPT !.at = "flush", !.slot = s].events = {}
  /\ \A n : /\ [Going("queue") EXCEPT !.taken = n].at = "queue"
            /\ [Going("queue") EXCEPT !.taken = n].events = {}
  /\ SendAll.at = IF vSendClients = <<>> THEN "wait" ELSE "send"
  /\ SendAll.events = {}
<1>1. \A place \in Places : Going(place).at = place /\ Going(place).events = {}
  BY DEF Going
<1>2. ASSUME NEW left \in SUBSET Slots
      PROVE  Events(left).at \in {"queue", "events"} /\ Events(left).events \subseteq left
  <2>1. CASE left = {}
    BY <2>1 DEF Events, Going
  <2>2. CASE left # {}
    BY <2>2 DEF Events, Going
  <2>3. QED
    BY <2>1, <2>2
<1>3. ASSUME NEW s \in Slots, NEW left \in SUBSET Slots, NEW units
      PROVE  /\ Rest(s, units, left).at \in {"forward", "queue", "events"}
             /\ Rest(s, units, left).events \subseteq left
             /\ Rest(s, units, left).at = "forward"
                  => Rest(s, units, left).slot = s /\ Len(units) >= Parts
  <2>1. CASE Len(units) >= Parts
    <3>1. Rest(s, units, left) = [Going("forward") EXCEPT !.events = left, !.slot = s]
      BY <2>1 DEF Rest
    <3>2. QED
      BY <2>1, <3>1 DEF Going
  <2>2. CASE ~(Len(units) >= Parts)
    BY <1>2, <2>2 DEF Rest
  <2>3. QED
    BY <2>1, <2>2
<1>4. TookOne.at = "queue" /\ TookOne.events = {}
  BY DEF TookOne, Going
<1>5. ASSUME NEW s \in Slots
      PROVE  /\ [TookOne EXCEPT !.slot = s].at = "queue" /\ [TookOne EXCEPT !.slot = s].events = {}
             /\ [TookOne EXCEPT !.at = "flush", !.slot = s].at = "flush"
             /\ [TookOne EXCEPT !.at = "flush", !.slot = s].slot = s
             /\ [TookOne EXCEPT !.at = "flush", !.slot = s].events = {}
  BY DEF TookOne, Going
<1>6. ASSUME NEW n
      PROVE  /\ [Going("queue") EXCEPT !.taken = n].at = "queue"
             /\ [Going("queue") EXCEPT !.taken = n].events = {}
  BY DEF Going
<1>7. /\ SendAll.at = IF vSendClients = <<>> THEN "wait" ELSE "send"
      /\ SendAll.events = {}
  BY <1>1 DEF SendAll, Places
<1>8. QED
  BY <1>1, <1>2, <1>3, <1>4, <1>5, <1>6, <1>7

\* What ThreadOK says of the thread itself.
RunOK ==
  /\ run.events \subseteq m_bUsed
  /\ At("forward") => run.slot \in m_mOnlineClient /\ Len(recvBuf[run.slot]) >= Parts
  /\ At("flush") => run.slot \in Served
  /\ vSendClients \in Seq(Served)
  /\ At("send") => vSendClients # <<>>

(* The thread taking a step of its own. *)
LEMMA RunKeeps ==
  ASSUME TypeOK, SlotsSound, ThreadOK, ConnectStep, TypeOK', SlotsSound'
  PROVE  RunOK'
<1>0. /\ run.events \in SUBSET Slots /\ run.slot \in Slots /\ m_bUsed \subseteq Slots
      /\ run.events \subseteq m_bUsed /\ vSendClients \in Seq(Served)
      /\ toConnect \in Seq(Slots) /\ recvBuf \in [Slots -> Seq(AllUnits)]
      /\ m_bUsed = m_mOnlineClient \cup {ListenSlot} /\ ListenSlot \notin m_mOnlineClient
      /\ \A s \in m_mOnlineClient : s \in Served
  BY DEF TypeOK, ThreadOK, SlotsSound, Served
<1>1. Served \subseteq Served' /\ vSendClients \in Seq(Served')
  <2>1. Served \subseteq Served'
    BY PastGrows DEF Next
  <2>2. QED
    BY <1>0, <2>1, SeqMonotonic
<1>2. CASE EpollWait
  <2>1. run' = Events(Ready) /\ UNCHANGED <<m_bUsed, vSendClients>>
    BY <1>2 DEF EpollWait, table
  <2>2. Ready \in SUBSET Slots /\ Ready \subseteq m_bUsed
    BY <1>0 DEF Ready
  <2>3. QED
    BY <1>1, <2>1, <2>2, RunPlaces DEF RunOK, At
<1>3. ASSUME NEW c \in backlog, Accept(c)
      PROVE  RunOK'
  <2>1. run' = Events(run.events \ {ListenSlot}) /\ UNCHANGED vSendClients
    BY <1>3 DEF Accept
  <2>2. m_bUsed \subseteq m_bUsed'
    BY <1>3 DEF Accept, table
  <2>3. run.events \ {ListenSlot} \in SUBSET Slots
    BY <1>0
  <2>4. run'.at \in {"queue", "events"} /\ run'.events \subseteq run.events
    BY <2>1, <2>3, RunPlaces
  <2>5. QED
    BY <1>0, <1>1, <2>1, <2>2, <2>4 DEF RunOK, At
<1>4. ASSUME NEW s \in Slots, Recv(s)
      PROVE  RunOK'
  <2>1. /\ s \in run.events /\ s # ListenSlot
        /\ UNCHANGED <<m_bUsed, m_mOnlineClient, vSendClients>>
    BY <1>4 DEF Recv, table
  <2>2. PICK units : /\ recvBuf' = [recvBuf EXCEPT ![s] = units]
                     /\ run' = Rest(s, units, run.events \ {s})
    BY <1>4 DEF Recv
  <2>3. recvBuf'[s] = units
    BY <1>0, <2>2
  <2>4. run.events \ {s} \in SUBSET Slots
    BY <1>0
  <2>5. /\ run'.at \in {"forward", "queue", "events"} /\ run'.events \subseteq run.events
        /\ run'.at = "forward" => run'.slot = s /\ Len(units) >= Parts
    BY <2>2, <2>4, RunPlaces
  <2>6. QED
    BY <1>0, <1>1, <2>1, <2>3, <2>5 DEF RunOK, At
<1>a. ASSUME NEW s \in Slots, Overrun(s)
      PROVE  RunOK'
  <2>1. run' = Going("lost") /\ UNCHANGED vSendClients
    BY <1>a DEF Overrun
  <2>2. QED
    BY <1>1, <2>1, RunPlaces DEF RunOK, At, Places
<1>5. ASSUME NEW s \in Slots, RecvEnd(s)
      PROVE  RunOK'
  <2>1. /\ run' = Events(run.events \ {s}) /\ ClientExit(s) /\ UNCHANGED vSendClients
    BY <1>5 DEF RecvEnd, Leave
  <2>2. m_bUsed \ {s} \subseteq m_bUsed'
    BY <2>1 DEF ClientExit, table
  <2>3. run.events \ {s} \in SUBSET Slots
    BY <1>0
  <2>4. run'.at \in {"queue", "events"} /\ run'.events \subseteq run.events \ {s}
    BY <2>1, <2>3, RunPlaces
  <2>5. QED
    BY <1>0, <1>1, <2>1, <2>2, <2>4 DEF RunOK, At
<1>6. CASE Forward
  <2> DEFINE s == run.slot
             rest == SubSeq(recvBuf[s], Parts + 1, Len(recvBuf[s]))
  <2>1. /\ recvBuf' = [recvBuf EXCEPT ![s] = rest] /\ run' = Rest(s, rest, run.events)
        /\ At("forward") /\ UNCHANGED <<m_bUsed, m_mOnlineClient, vSendClients>>
    BY <1>6 DEF Forward, table
  <2>2. s \in m_mOnlineClient
    BY <2>1 DEF ThreadOK
  <2> HIDE DEF rest
  <2>3. recvBuf'[s] = rest
    BY <1>0, <2>1
  <2>4. /\ run'.at \in {"forward", "queue", "events"} /\ run'.events \subseteq run.events
        /\ run'.at = "forward" => run'.slot = s /\ Len(rest) >= Parts
    BY <1>0, <2>1, RunPlaces
  <2>5. QED
    BY <1>0, <1>1, <2>1, <2>2, <2>3, <2>4 DEF RunOK, At
<1>7. CASE QueueDone
  <2>1. run' = SendAll /\ UNCHANGED vSendClients
    BY <1>7 DEF QueueDone
  <2>2. QED
    BY <1>1, <2>1, RunPlaces DEF RunOK, At
<1>8. CASE TakeForNobody
  <2>1. run' = [TookOne EXCEPT !.slot = Head(toConnect)] /\ UNCHANGED vSendClients
    BY <1>8 DEF TakeForNobody
  <2>2. Head(toConnect) \in Slots
    BY <1>0, <1>8, QueueTypes DEF TakeForNobody
  <2>3. run'.at = "queue" /\ run'.events = {}
    BY <2>1, <2>2, RunPlaces
  <2>4. QED
    BY <1>1, <2>1, <2>3 DEF RunOK, At
<1>9. CASE Take
  <2> DEFINE s == Head(toConnect)
  <2>1. s \in m_mOnlineClient /\ toConnect # <<>>
    BY <1>9 DEF Take
  <2>2. s \in Slots /\ s \in Served'
    BY <1>0, <1>1, <2>1, QueueTypes
  <2>3. \/ vSendClients' = Append(vSendClients, s) /\ run' = TookOne
        \/ run' = [TookOne EXCEPT !.at = "flush", !.slot = s] /\ UNCHANGED vSendClients
    BY <1>9 DEF Take
  <2> HIDE DEF s
  <2>4. Append(vSendClients, s) \in Seq(Served')
    BY <1>1, <2>2, QueueTypes
  <2>5. CASE vSendClients' = Append(vSendClients, s) /\ run' = TookOne
    BY <2>4, <2>5, RunPlaces DEF RunOK, At
  <2>6. CASE run' = [TookOne EXCEPT !.at = "flush", !.slot = s] /\ UNCHANGED vSendClients
    <3>1. run'.at = "flush" /\ run'.slot = s /\ run'.events = {}
      BY <2>2, <2>6, RunPlaces
    <3>2. QED
      BY <1>1, <2>2, <2>6, <3>1 DEF RunOK, At
  <2>7. QED
    BY <2>3, <2>5, <2>6
<1>10. CASE Flush
  <2>1. /\ run' = [Going("queue") EXCEPT !.taken = run.taken] /\ At("flush")
        /\ vSendClients' = Append(vSendClients, run.slot)
    BY <1>10 DEF Flush
  <2>2. run.slot \in Served'
    BY <1>1, <2>1 DEF ThreadOK
  <2>3. vSendClients' \in Seq(Served')
    BY <1>1, <2>1, <2>2, QueueTypes
  <2>4. run'.at = "queue" /\ run'.events = {}
    BY <2>1, RunPlaces
  <2>5. QED
    BY <2>3, <2>4 DEF RunOK, At
<1>11. CASE FlushFails
  <2>1. /\ run' = [Going("queue") EXCEPT !.taken = run.taken] /\ UNCHANGED vSendClients
    BY <1>11 DEF FlushFails
  <2>2. run'.at = "queue" /\ run'.events = {}
    BY <2>1, RunPlaces
  <2>3. QED
    BY <1>1, <2>1, <2>2 DEF RunOK, At
<1>12. CASE SendDataToClient \/ SendFails
  <2>1. SendNext /\ At("send")
    BY <1>12 DEF SendDataToClient, SendFails
  <2>2. vSendClients # <<>>
    BY <2>1 DEF ThreadOK
  <2>3. /\ vSendClients' = Tail(vSendClients)
        /\ run' = IF Tail(vSendClients) = <<>> THEN Going("wait") ELSE Going("send")
    BY <2>1 DEF SendNext
  <2>4. vSendClients' \in Seq(Served')
    BY <1>1, <2>2, <2>3, QueueTypes
  <2>5. /\ run'.events = {} /\ run'.at \in {"wait", "send"}
        /\ run'.at = "send" => vSendClients' # <<>>
    BY <2>3, RunPlaces DEF Places
  <2>6. QED
    BY <2>4, <2>5 DEF RunOK, At
<1>13. QED
  BY <1>2, <1>3, <1>4, <1>a, <1>5, <1>6, <1>7, <1>8, <1>9, <1>10, <1>11, <1>12 DEF ConnectStep

(* Every step keeps what the thread relies on.                                *)
LEMMA ThreadKeeps ==
  ASSUME TypeOK, SlotsSound, ThreadOK, Next, TypeOK', SlotsSound'
  PROVE  ThreadOK'
<1>1. \A c \in Conns : sent'[c] <= requests'
  <2>0. /\ sent \in [Conns -> 0 .. MaxRequests] /\ requests \in 0 .. MaxRequests
        /\ MaxRequests \in Nat /\ \A c \in Conns : sent[c] <= requests
    BY Constants DEF TypeOK, ThreadOK
  <2>1. ASSUME NEW c \in Conns, SendRequest(c)
        PROVE  \A d \in Conns : sent'[d] <= requests'
    BY <2>0, <2>1 DEF SendRequest
  <2>2. ASSUME NEW c \in Conns, Connect(c) \/ Read(c) \/ Close(c)
        PROVE  UNCHANGED <<sent, requests>>
    BY <2>2 DEF Connect, Read, Close, asked
  <2>3. ASSUME LogicTake \/ LogicPush \/ LogicPut
        PROVE  UNCHANGED <<sent, requests>>
    BY <2>3 DEF LogicTake, LogicPush, LogicPut, clients, asked
  <2>4. ASSUME ConnectStep
        PROVE  UNCHANGED <<sent, requests>>
    BY <2>4 DEF ConnectStep, EpollWait, Accept, Recv, Overrun, RecvEnd, Forward, QueueDone, TakeForNobody,
                Take, Flush, FlushFails, SendDataToClient, SendFails, clients, asked
  <2>5. QED
    BY <2>0, <2>1, <2>2, <2>3, <2>4 DEF Next, ClientStep
<1>2. backlog' \subseteq {c \in Conns : client'[c] # "idle"} /\ Served \subseteq Served'
  BY PastGrows
<1>3. RunOK'
  <2>1. CASE ConnectStep
    BY <2>1, RunKeeps
  <2>2. ASSUME UNCHANGED <<run, m_bUsed, m_mOnlineClient, recvBuf, vSendClients>>
        PROVE  RunOK'
    <3>1. vSendClients \in Seq(Served')
      BY <1>2, SeqMonotonic DEF ThreadOK
    <3>2. QED
      BY <1>2, <2>2, <3>1 DEF RunOK, ThreadOK, At
  <2>3. ASSUME NEW c \in Conns, ClientStep(c)
        PROVE  UNCHANGED <<run, m_bUsed, m_mOnlineClient, recvBuf, vSendClients>>
    BY <2>3 DEF ClientStep, Connect, SendRequest, Read, Close, table, buffers
  <2>4. ASSUME LogicTake \/ LogicPush \/ LogicPut
        PROVE  UNCHANGED <<run, m_bUsed, m_mOnlineClient, recvBuf, vSendClients>>
    BY <2>4 DEF LogicTake, LogicPush, LogicPut, table, buffers
  <2>5. QED
    BY <2>1, <2>2, <2>3, <2>4 DEF Next
<1>4. QED
  BY <1>1, <1>2, <1>3 DEF ThreadOK, RunOK, At
-----------------------------------------------------------------------------
(* Who holds an index, and what the broker is told of it *)

(* An index is held by the connection it was given to until it leaves, and no *)
(* connection gets one a second time.                                         *)
LEMMA HolderSteps ==
  ASSUME TypeOK, SlotsSound, ThreadOK, Next
  PROVE  /\ \A s \in Slots, c \in Past : Holds(s, c)' => Holds(s, c)
         /\ \A s \in Slots : \A c : Holds(s, c) => Holds(s, c)' \/ Leave(s)
         /\ \A s \in Slots : \A c : Leave(s) => ~Holds(s, c)'
<1>0. /\ m_mOnlineClient \subseteq Slots /\ m_bUsed \subseteq Slots /\ backlog \subseteq Conns
      /\ m_bUsed = m_mOnlineClient \cup {ListenSlot} /\ ListenSlot \notin m_mOnlineClient
      /\ sock \in [Slots -> Conns \cup {NoConn}] /\ m_lFreeList \in Seq(Slots)
  BY DEF TypeOK, SlotsSound
<1>1. ASSUME NEW s \in Slots, Leave(s)
      PROVE  \A t \in Slots : \A c : Holds(t, c)' <=> t # s /\ Holds(t, c)
  <2>1. CASE s \in m_bUsed
    <3>1. m_mOnlineClient' = m_mOnlineClient \ {s} /\ sock' = sock
      BY <1>1, <2>1 DEF Leave, ClientExit
    <3>2. QED
      BY <3>1 DEF Holds
  <2>2. CASE s \notin m_bUsed
    <3>1. UNCHANGED <<m_mOnlineClient, sock>>
      BY <1>1, <2>2 DEF Leave, ClientExit, table
    <3>2. QED
      BY <1>0, <2>2, <3>1 DEF Holds
  <2>3. QED
    BY <2>1, <2>2
<1>2. ASSUME UNCHANGED table
      PROVE  \A t \in Slots : \A c : Holds(t, c)' <=> Holds(t, c)
  BY <1>2 DEF Holds, table
<1>3. ASSUME NEW b \in backlog, Accept(b)
      PROVE  \A t \in Slots : \A c : /\ Holds(t, c) => Holds(t, c)'
                                     /\ Holds(t, c)' => Holds(t, c) \/ c = b
  <2>1. CASE m_lFreeList = <<>>
    <3>1. UNCHANGED table
      BY <1>3, <2>1 DEF Accept
    <3>2. QED
      BY <1>2, <3>1
  <2>2. CASE m_lFreeList # <<>>
    <3>1. PICK s \in Slots : s = Head(m_lFreeList)
      BY <1>0, <2>2, QueueTypes
    <3>2. m_mOnlineClient' = m_mOnlineClient \cup {s} /\ sock' = [sock EXCEPT ![s] = b]
      BY <1>3, <2>2, <3>1 DEF Accept
    <3>3. s \notin m_mOnlineClient
      <4>1. FreeOK(m_lFreeList, m_bUsed)
        BY <1>0, FreeList DEF SlotsSound
      <4>2. s \notin m_bUsed
        BY <1>0, <2>2, <3>1, <4>1, FreeListSteps
      <4>3. QED
        BY <1>0, <4>2
    <3>4. QED
      BY <1>0, <3>2, <3>3 DEF Holds
  <2>3. QED
    BY <2>1, <2>2
<1>4. \/ \E s \in Slots : Leave(s)
      \/ UNCHANGED table
      \/ \E b \in backlog : Accept(b)
  <2>1. CASE ConnectStep
    <3>1. ASSUME EpollWait \/ Forward \/ QueueDone \/ TakeForNobody \/ Take \/ Flush \/ SendDataToClient
          PROVE  UNCHANGED table
      BY <3>1 DEF EpollWait, Forward, QueueDone, TakeForNobody, Take, Flush, SendDataToClient
    <3>2. ASSUME NEW s \in Slots, Recv(s) \/ Overrun(s)
          PROVE  UNCHANGED table
      BY <3>2 DEF Recv, Overrun
    <3>3. \A s \in Served : s \in Slots
      BY DEF Served
    <3>4. QED
      BY <2>1, <3>1, <3>2, <3>3, ConnectCases
  <2>2. ASSUME NEW c \in Conns, ClientStep(c)
        PROVE  UNCHANGED table
    BY <2>2 DEF ClientStep, Connect, SendRequest, Read, Close
  <2>3. ASSUME LogicTake \/ LogicPush \/ LogicPut
        PROVE  UNCHANGED table
    BY <2>3 DEF LogicTake, LogicPush, LogicPut
  <2>4. QED
    BY <2>1, <2>2, <2>3 DEF Next
<1>5. \A b \in backlog : b \notin Past
  BY DEF Past
<1>6. ASSUME NEW s \in Slots, NEW c \in Past, Holds(s, c)'
      PROVE  Holds(s, c)
  BY <1>1, <1>2, <1>3, <1>4, <1>5, <1>6
<1>7. ASSUME NEW s \in Slots, NEW c, Holds(s, c)
      PROVE  Holds(s, c)' \/ Leave(s)
  BY <1>1, <1>2, <1>3, <1>4, <1>7
<1>8. ASSUME NEW s \in Slots, NEW c, Leave(s)
      PROVE  ~Holds(s, c)'
  BY <1>1, <1>8
<1>9. QED
  BY <1>6, <1>7, <1>8

(* What a packet at the end of the ring, or the loss of the first one, does. *)
LEMMA RingShape ==
  ASSUME TypeOK
  PROVE  /\ \A p \in Packets : toLogic' = Append(toLogic, p) =>
              /\ Len(toLogic') = Len(toLogic) + 1 /\ toLogic'[Len(toLogic) + 1] = p
              /\ \A i \in 1 .. Len(toLogic) : toLogic'[i] = toLogic[i]
         /\ toLogic # <<>> /\ toLogic' = Tail(toLogic) =>
              /\ Len(toLogic) > 0 /\ Len(toLogic') = Len(toLogic) - 1 /\ Head(toLogic) = toLogic[1]
              /\ \A i \in 1 .. Len(toLogic) - 1 : toLogic'[i] = toLogic[i + 1]
         /\ Len(toLogic) \in Nat
         /\ \A i \in 1 .. Len(toLogic) : toLogic[i] \in Packets /\ toLogic[i].index \in Slots
<1>1. toLogic \in Seq(Packets)
  BY DEF TypeOK
<1>2. \A i \in 1 .. Len(toLogic) : toLogic[i] \in Packets
  BY <1>1, ElementOfSeq
<1>3. \A p \in Packets : p.index \in Slots
  BY DEF Packets
<1>4. QED
  BY <1>1, <1>2, <1>3, QueueTypes

(* The request ConnectServer forwards is of the connection that has the index. *)
LEMMA ForwardedRequest ==
  ASSUME TypeOK, SlotsSound, UnitsKnown, ThreadOK, Forward
  PROVE  \E p \in Packets : /\ toLogic' = Append(toLogic, p) /\ p.type = "request"
                            /\ Holds(p.index, p.units[1].conn)
<1>0. /\ run.slot \in Slots /\ recvBuf \in [Slots -> Seq(AllUnits)] /\ Parts \in Nat /\ Parts > 0
  BY Constants DEF TypeOK
<1> DEFINE s == run.slot
           units == SubSeq(recvBuf[s], 1, Parts)
<1>1. toLogic' = Append(toLogic, Request(s, units)) /\ At("forward")
  BY DEF Forward
<1>2. s \in m_mOnlineClient /\ Len(recvBuf[s]) >= Parts /\ Len(recvBuf[s]) \in Nat
  BY <1>0, <1>1, LenProperties DEF ThreadOK
<1>3. units \in Seq(AllUnits) /\ units[1] = recvBuf[s][1]
  BY <1>0, <1>2, PieceType
<1>4. recvBuf[s][1].conn = sock[s]
  <2>1. 1 \in 1 .. Len(recvBuf[s])
    BY <1>0, <1>2
  <2>2. QED
    BY <1>0, <1>1, <2>1 DEF UnitsKnown, RecvKnown, UnitsOwn, At
<1>5. /\ Request(s, units) \in Packets /\ Request(s, units).units = units
      /\ Request(s, units).type = "request" /\ Request(s, units).index = s
  BY <1>0, <1>3 DEF Request, Packets
<1> HIDE DEF units
<1>6. QED
  BY <1>1, <1>2, <1>3, <1>4, <1>5 DEF Holds

(* No step puts an exit behind a request of the connection that stays.        *)
LEMMA ExitsKeep ==
  ASSUME TypeOK, SlotsSound, UnitsKnown, ThreadOK, ExitsFollow, Next
  PROVE  ExitsFollow'
<1>1. ASSUME NEW s \in Slots, NEW c, NEW i \in 1 .. Len(toLogic), NEW j \in 1 .. Len(toLogic),
             i < j, RequestAt(i, s, c), ExitAt(j, s)
      PROVE  ~Holds(s, c)'
  <2>1. ~Holds(s, c)
    BY <1>1 DEF ExitsFollow
  <2>2. c \in Past
    BY <1>1 DEF UnitsKnown, RingKnown, RequestAt
  <2>3. QED
    BY <2>1, <2>2, HolderSteps
<1>2. ASSUME UNCHANGED toLogic
      PROVE  ExitsFollow'
  BY <1>1, <1>2 DEF ExitsFollow, RequestAt, ExitAt
<1>3. ASSUME NEW p \in Packets, toLogic' = Append(toLogic, p),
             \A s \in Slots : \A c : p.type = "exit" /\ p.index = s => ~Holds(s, c)'
      PROVE  ExitsFollow'
  <2>1. /\ Len(toLogic') = Len(toLogic) + 1 /\ toLogic'[Len(toLogic) + 1] = p
        /\ \A i \in 1 .. Len(toLogic) : toLogic'[i] = toLogic[i]
        /\ Len(toLogic) \in Nat
    BY <1>3, RingShape
  <2>2. SUFFICES ASSUME NEW s \in Slots, NEW c,
                        NEW i \in 1 .. Len(toLogic'), NEW j \in 1 .. Len(toLogic'),
                        i < j, RequestAt(i, s, c)', ExitAt(j, s)'
                 PROVE  ~Holds(s, c)'
    BY DEF ExitsFollow
  <2>3. i \in 1 .. Len(toLogic)
    BY <2>1, <2>2
  <2>4. CASE j \in 1 .. Len(toLogic)
    BY <1>1, <2>1, <2>2, <2>3, <2>4 DEF RequestAt, ExitAt
  <2>5. CASE j = Len(toLogic) + 1
    BY <1>3, <2>1, <2>2, <2>5 DEF ExitAt
  <2>6. QED
    BY <2>1, <2>4, <2>5
<1>4. CASE Forward
  <2>1. PICK p \in Packets : toLogic' = Append(toLogic, p) /\ p.type = "request"
    BY <1>4, ForwardedRequest
  <2>2. QED
    BY <1>3, <2>1
<1>5. ASSUME NEW s \in Slots, TellExit(s), Leave(s) \/ (s \notin m_mOnlineClient /\ UNCHANGED table)
      PROVE  ExitsFollow'
  <2>1. /\ ClientExitMessage(s) \in Packets /\ ClientExitMessage(s).index = s
    BY DEF ClientExitMessage, Packets
  <2>2. UNCHANGED toLogic \/ toLogic' = Append(toLogic, ClientExitMessage(s))
    BY <1>5 DEF TellExit
  <2>3. \A c : ~Holds(s, c)'
    <3>1. Leave(s) => \A c : ~Holds(s, c)'
      BY HolderSteps
    <3>2. s \notin m_mOnlineClient /\ UNCHANGED table => \A c : ~Holds(s, c)'
      BY DEF Holds, table
    <3>3. QED
      BY <1>5, <3>1, <3>2
  <2>4. QED
    BY <1>2, <1>3, <2>1, <2>2, <2>3
<1>6. CASE LogicTake
  <2>1. toLogic # <<>> /\ toLogic' = Tail(toLogic)
    BY <1>6 DEF LogicTake
  <2>2. /\ Len(toLogic') = Len(toLogic) - 1 /\ Len(toLogic) \in Nat
        /\ \A i \in 1 .. Len(toLogic) - 1 : toLogic'[i] = toLogic[i + 1]
    BY <2>1, RingShape
  <2>3. SUFFICES ASSUME NEW s \in Slots, NEW c,
                        NEW i \in 1 .. Len(toLogic'), NEW j \in 1 .. Len(toLogic'),
                        i < j, RequestAt(i, s, c)', ExitAt(j, s)'
                 PROVE  ~Holds(s, c)'
    BY DEF ExitsFollow
  <2>4. i + 1 \in 1 .. Len(toLogic) /\ j + 1 \in 1 .. Len(toLogic) /\ i + 1 < j + 1
    BY <2>2, <2>3
  <2>5. RequestAt(i + 1, s, c) /\ ExitAt(j + 1, s)
    BY <2>2, <2>3 DEF RequestAt, ExitAt
  <2>6. QED
    BY <1>1, <2>4, <2>5
<1>7. QED
  BY <1>2, <1>4, <1>5, <1>6, RingSteps

(* Every step tells the broker of a connection that goes, if the ring has room. *)
LEMMA HolderKeeps ==
  ASSUME TypeOK, SlotsSound, UnitsKnown, ThreadOK, KnownOrTold, Next
  PROVE  KnownOrTold'
<1>0. Len(toLogic) \in Nat /\ subscribed \in [Slots -> SUBSET Conns]
  BY RingShape DEF TypeOK
<1>1. SUFFICES ASSUME NEW s \in Slots, NEW c, Knows(s, c)'
               PROVE  Holds(s, c)' \/ s \in untold' \/ ToldLast(s, c)'
  BY DEF KnownOrTold
<1>2. ASSUME TellExit(s)
      PROVE  s \in untold' \/ ToldLast(s, c)'
  <2>1. CASE LogicFull
    BY <1>2, <2>1 DEF TellExit
  <2>2. CASE ~LogicFull
    <3>1. ClientExitMessage(s) \in Packets
      BY DEF ClientExitMessage, Packets
    <3>2. toLogic' = Append(toLogic, ClientExitMessage(s))
      BY <1>2, <2>2 DEF TellExit
    <3>3. Len(toLogic') = Len(toLogic) + 1 /\ toLogic'[Len(toLogic) + 1] = ClientExitMessage(s)
      BY <3>1, <3>2, RingShape
    <3>4. \A j : j \in Len(toLogic) + 1 + 1 .. Len(toLogic') => FALSE
      BY <1>0, <3>3
    <3>5. Len(toLogic) + 1 \in 1 .. Len(toLogic')
      BY <1>0, <3>3
    <3>6. QED
      BY <3>3, <3>4, <3>5 DEF ToldLast
  <2>3. QED
    BY <2>1, <2>2
<1>3. CASE Holds(s, c)
  BY <1>2, <1>3, HolderSteps DEF Leave
<1>4. Knows(s, c) /\ ~Holds(s, c) => s \in untold \/ ToldLast(s, c)
  BY DEF KnownOrTold
<1>5. CASE ~Holds(s, c) /\ LogicTake
  <2>1. /\ toLogic # <<>> /\ toLogic' = Tail(toLogic) /\ untold' = untold
        /\ IF Head(toLogic).type = "exit"
           THEN subscribed' = [subscribed EXCEPT ![Head(toLogic).index] = {}]
           ELSE subscribed' = [subscribed EXCEPT ![Head(toLogic).index] =
                                 @ \cup {Head(toLogic).units[1].conn}]
    BY <1>5 DEF LogicTake
  <2>2. /\ Len(toLogic) > 0 /\ Len(toLogic') = Len(toLogic) - 1 /\ Head(toLogic) = toLogic[1]
        /\ \A i \in 1 .. Len(toLogic) - 1 : toLogic'[i] = toLogic[i + 1]
        /\ \A i \in 1 .. Len(toLogic) : toLogic[i] \in Packets /\ toLogic[i].index \in Slots
    BY <2>1, RingShape
  <2>3. 1 \in 1 .. Len(toLogic) /\ toLogic[1].type \in {"request", "exit"}
    <3>1. 1 \in 1 .. Len(toLogic)
      BY <1>0, <2>2
    <3>2. QED
      BY <2>2, <3>1 DEF Packets
  <2>4. (\E i \in 1 .. Len(toLogic') : RequestAt(i, s, c)')
          => \E i \in 2 .. Len(toLogic) : RequestAt(i, s, c)
    <3>1. ASSUME NEW i \in 1 .. Len(toLogic'), RequestAt(i, s, c)'
          PROVE  i + 1 \in 2 .. Len(toLogic) /\ RequestAt(i + 1, s, c)
      BY <1>0, <2>2, <3>1 DEF RequestAt
    <3>2. QED
      BY <3>1
  <2>5. c \in subscribed'[s] =>
          /\ c \in subscribed[s] \/ RequestAt(1, s, c)
          /\ toLogic[1] # ClientExitMessage(s)
    <3>1. ClientExitMessage(s).type = "exit" /\ ClientExitMessage(s).index = s
      BY DEF ClientExitMessage
    <3>2. CASE toLogic[1].type = "exit"
      BY <1>0, <2>1, <2>2, <3>1, <3>2
    <3>3. CASE toLogic[1].type = "request"
      BY <1>0, <2>1, <2>2, <3>1, <3>3 DEF RequestAt
    <3>4. QED
      BY <2>3, <3>2, <3>3
  <2>6. Knows(s, c)
    <3>1. c \in subscribed'[s] \/ \E i \in 1 .. Len(toLogic') : RequestAt(i, s, c)'
      BY <1>1 DEF Knows
    <3>2. \A i : i \in 2 .. Len(toLogic) => i \in 1 .. Len(toLogic)
      BY <1>0
    <3>3. QED
      BY <2>3, <2>4, <2>5, <3>1, <3>2 DEF Knows
  <2>7. CASE s \in untold
    BY <2>1, <2>7
  <2>8. CASE ToldLast(s, c)
    <3>1. PICK i \in 1 .. Len(toLogic) :
            /\ toLogic[i] = ClientExitMessage(s)
            /\ \A j \in i + 1 .. Len(toLogic) : ~RequestAt(j, s, c)
      BY <2>8 DEF ToldLast
    <3>2. i # 1
      <4>1. SUFFICES ASSUME i = 1 PROVE FALSE
        OBVIOUS
      <4>2. \E k \in 2 .. Len(toLogic) : RequestAt(k, s, c)
        BY <1>1, <2>4, <2>5, <3>1, <4>1 DEF Knows
      <4>3. QED
        BY <3>1, <4>1, <4>2
    <3>3. i - 1 \in 1 .. Len(toLogic') /\ toLogic'[i - 1] = ClientExitMessage(s)
      BY <1>0, <2>2, <3>1, <3>2
    <3>4. ASSUME NEW j \in (i - 1) + 1 .. Len(toLogic')
          PROVE  ~RequestAt(j, s, c)'
      <4>1. j + 1 \in i + 1 .. Len(toLogic) /\ toLogic'[j] = toLogic[j + 1]
        BY <1>0, <2>2, <3>1, <3>2, <3>4
      <4>2. QED
        BY <3>1, <4>1 DEF RequestAt
    <3>5. QED
      BY <3>3, <3>4 DEF ToldLast
  <2>9. QED
    BY <1>4, <1>5, <2>6, <2>7, <2>8
<1>6. CASE ~Holds(s, c) /\ ~LogicTake
  <2>1. UNCHANGED subscribed
    BY <1>6 DEF Next, ClientStep, Connect, SendRequest, Read, Close, ConnectStep, EpollWait,
         Accept, Recv, Overrun, RecvEnd, Forward, QueueDone, TakeForNobody, Take, Flush,
         FlushFails, SendDataToClient, SendFails, LogicPush, LogicPut, logic
  <2>2. CASE UNCHANGED <<toLogic, untold>>
    <3>1. Knows(s, c)
      BY <1>1, <2>1, <2>2 DEF Knows, RequestAt
    <3>2. ToldLast(s, c) => ToldLast(s, c)'
      BY <2>2 DEF ToldLast, RequestAt
    <3>3. QED
      BY <1>4, <1>6, <2>2, <3>1, <3>2
  <2>3. ASSUME NEW p \in Packets, toLogic' = Append(toLogic, p), s \in untold => s \in untold',
               ~(p.type = "request" /\ p.index = s /\ p.units[1].conn = c)
        PROVE  s \in untold' \/ ToldLast(s, c)'
    <3>1. /\ Len(toLogic') = Len(toLogic) + 1 /\ toLogic'[Len(toLogic) + 1] = p
          /\ \A i \in 1 .. Len(toLogic) : toLogic'[i] = toLogic[i]
      BY <2>3, RingShape
    <3>2. \A i \in 1 .. Len(toLogic) : RequestAt(i, s, c)' <=> RequestAt(i, s, c)
      BY <3>1 DEF RequestAt
    <3>3. \A i \in 1 .. Len(toLogic') : RequestAt(i, s, c)' => i \in 1 .. Len(toLogic)
      <4>1. SUFFICES ASSUME NEW i \in 1 .. Len(toLogic'), i = Len(toLogic) + 1, RequestAt(i, s, c)'
                     PROVE  FALSE
        BY <1>0, <3>1
      <4>2. QED
        BY <2>3, <3>1, <4>1 DEF RequestAt
    <3>4. \A i : i \in 1 .. Len(toLogic) => i \in 1 .. Len(toLogic')
      BY <1>0, <3>1
    <3>5. Knows(s, c)
      <4>1. c \in subscribed[s] \/ \E i \in 1 .. Len(toLogic') : RequestAt(i, s, c)'
        BY <1>1, <2>1 DEF Knows
      <4>2. (\E i \in 1 .. Len(toLogic') : RequestAt(i, s, c)')
              => \E i \in 1 .. Len(toLogic) : RequestAt(i, s, c)
        BY <3>2, <3>3
      <4>3. QED
        BY <4>1, <4>2 DEF Knows
    <3>6. ASSUME ToldLast(s, c)
          PROVE  ToldLast(s, c)'
      <4>1. PICK i \in 1 .. Len(toLogic) :
              /\ toLogic[i] = ClientExitMessage(s)
              /\ \A j \in i + 1 .. Len(toLogic) : ~RequestAt(j, s, c)
        BY <3>6 DEF ToldLast
      <4>2. i \in 1 .. Len(toLogic') /\ toLogic'[i] = ClientExitMessage(s)
        BY <3>1, <3>4, <4>1
      <4>3. ASSUME NEW j \in i + 1 .. Len(toLogic')
            PROVE  ~RequestAt(j, s, c)'
        <5>1. SUFFICES ASSUME RequestAt(j, s, c)'
                       PROVE  FALSE
          OBVIOUS
        <5>2. j \in 1 .. Len(toLogic') /\ j > i
          BY <1>0, <3>1, <4>3
        <5>3. j \in 1 .. Len(toLogic) /\ j \in i + 1 .. Len(toLogic)
          BY <1>0, <3>3, <5>1, <5>2
        <5>4. QED
          BY <3>2, <4>1, <5>1, <5>3
      <4>4. QED
        BY <4>2, <4>3 DEF ToldLast
    <3>7. QED
      BY <1>4, <1>6, <2>3, <3>5, <3>6
  <2>4. CASE Forward /\ UNCHANGED untold
    <3>1. PICK p \in Packets : toLogic' = Append(toLogic, p) /\ Holds(p.index, p.units[1].conn)
      BY <2>4, ForwardedRequest
    <3>2. ~(p.type = "request" /\ p.index = s /\ p.units[1].conn = c)
      BY <1>6, <3>1
    <3>3. QED
      BY <2>3, <2>4, <3>1, <3>2
  <2>5. ASSUME NEW t \in Slots, t # s, TellExit(t)
        PROVE  s \in untold' \/ ToldLast(s, c)'
    <3>1. ClientExitMessage(t) \in Packets /\ ClientExitMessage(t).type # "request"
      BY DEF ClientExitMessage, Packets
    <3>2. CASE LogicFull
      <4>1. UNCHANGED toLogic /\ untold \subseteq untold'
        BY <2>5, <3>2 DEF TellExit
      <4>2. Knows(s, c)
        BY <1>1, <2>1, <4>1 DEF Knows, RequestAt
      <4>3. ToldLast(s, c) => ToldLast(s, c)'
        BY <4>1 DEF ToldLast, RequestAt
      <4>4. QED
        BY <1>4, <1>6, <4>1, <4>2, <4>3
    <3>3. CASE ~LogicFull
      <4>1. toLogic' = Append(toLogic, ClientExitMessage(t)) /\ untold' = untold \ {t}
        BY <2>5, <3>3 DEF TellExit
      <4>2. QED
        BY <2>3, <2>5, <3>1, <4>1
    <3>4. QED
      BY <3>2, <3>3
  <2>6. QED
    BY <1>2, <1>6, <2>2, <2>4, <2>5, RingSteps
<1>7. QED
  BY <1>3, <1>5, <1>6
-----------------------------------------------------------------------------
(* The theorems *)

(* The invariant holds at first.                                              *)
LEMMA InitIInv == Init => IInv
<1> SUFFICES ASSUME Init PROVE IInv
  OBVIOUS
<1>0. Len(<<>>) = 0
  OBVIOUS
<1>1. TypeOK
  <2>1. Going("wait") \in RunSet
    BY RunTypes DEF Places
  <2>2. \A S : <<>> \in Seq(S)
    OBVIOUS
  <2>3. m_lFreeList \in Seq(Slots)
    <3>1. \A i \in 1 .. CLIENT_EPOLL_COUNT - 1 : i \in Slots
      BY Constants DEF Slots
    <3>2. CLIENT_EPOLL_COUNT - 1 \in Nat
      BY Constants
    <3>3. [i \in 1 .. CLIENT_EPOLL_COUNT - 1 |-> i] \in [1 .. CLIENT_EPOLL_COUNT - 1 -> Slots]
      BY <3>1
    <3>4. QED
      BY <3>2, <3>3, SeqDef DEF Init
  <2>4. /\ client \in [Conns -> {"idle", "open", "closed"}] /\ sent \in [Conns -> 0 .. MaxRequests]
        /\ requests \in 0 .. MaxRequests /\ inbox \in [Conns -> 0 .. SockCap]
        /\ pushes \in 0 .. MaxPushes
    BY Constants DEF Init
  <2>5. /\ up \in [Conns -> Seq(AllUnits)] /\ recvBuf \in [Slots -> Seq(AllUnits)]
        /\ sendBuf \in [Slots -> Seq({"pack", "stale"})]
        /\ vSendClients \in Seq(Slots) /\ toLogic \in Seq(Packets)
        /\ toConnect \in Seq(Slots) /\ spin \in Seq(Slots)
    BY <2>2 DEF Init
  <2>6. /\ m_mOnlineClient \subseteq Slots /\ m_bUsed \subseteq Slots /\ backlog \subseteq Conns
        /\ sock \in [Slots -> Conns \cup {NoConn}] /\ untold \subseteq Slots
        /\ subscribed \in [Slots -> SUBSET Conns] /\ misplaced \subseteq Slots
    BY Constants DEF Init
  <2>7. run \in RunSet
    BY <2>1 DEF Init
  <2>8. QED
    BY <2>3, <2>4, <2>5, <2>6, <2>7 DEF TypeOK, RunSet
<1>2. SlotsSound
  <2>1. m_lFreeList = [i \in 1 .. CLIENT_EPOLL_COUNT - 1 |-> i]
    BY DEF Init
  <2>2. IsInjective(m_lFreeList)
    BY <2>1 DEF IsInjective
  <2>3. Range(m_lFreeList) = 1 .. CLIENT_EPOLL_COUNT - 1
    BY <2>1 DEF Range
  <2>4. Slots \ {ListenSlot} = 1 .. CLIENT_EPOLL_COUNT - 1
    BY Constants DEF Slots
  <2>5. m_bUsed = {ListenSlot} /\ m_mOnlineClient = {}
    BY DEF Init
  <2>6. QED
    BY <2>2, <2>3, <2>4, <2>5 DEF SlotsSound
<1>3. UnitsKnown
  <2>1. UpKnown
    BY <1>0 DEF Init, UpKnown
  <2>2. SockKnown
    BY DEF Init, SockKnown
  <2>3. RecvKnown
    BY <1>0 DEF Init, RecvKnown, UnitsOwn
  <2>4. RingKnown
    BY <1>0 DEF Init, RingKnown
  <2>5. QED
    BY <2>1, <2>2, <2>3, <2>4 DEF UnitsKnown
<1>4. ThreadOK
  <2>1. run.at = "wait" /\ run.events = {}
    BY DEF Init, Going
  <2>2. QED
    BY <2>1 DEF Init, ThreadOK, At
<1>5. ExitsFollow
  BY <1>0 DEF Init, ExitsFollow
<1>6. KnownOrTold
  BY <1>0 DEF Init, KnownOrTold, Knows
<1>7. QED
  BY <1>1, <1>2, <1>3, <1>4, <1>5, <1>6 DEF IInv

(* Stuttering keeps it.                                                       *)
LEMMA StutterKeeps ==
  ASSUME IInv, UNCHANGED vars
  PROVE  IInv'
<1>0. /\ UNCHANGED <<client, sent, requests, up, inbox, backlog, m_lFreeList>>
      /\ UNCHANGED <<m_mOnlineClient, m_bUsed, sock, recvBuf, sendBuf, misplaced, run>>
      /\ UNCHANGED <<vSendClients, toLogic, toConnect, spin, subscribed, pushes, untold>>
  BY DEF vars
<1>1. TypeOK' /\ SlotsSound'
  BY <1>0 DEF IInv, TypeOK, SlotsSound
<1>2. UnitsKnown'
  BY <1>0 DEF IInv, UnitsKnown, UpKnown, SockKnown, RecvKnown, UnitsOwn, RingKnown, Past, At
<1>3. ThreadOK'
  <2>1. Served' = Served
    BY <1>0 DEF Served
  <2>2. QED
    BY <1>0, <2>1 DEF IInv, ThreadOK, At
<1>4. ExitsFollow'
  BY <1>0 DEF IInv, ExitsFollow, RequestAt, ExitAt, Holds
<1>5. KnownOrTold'
  <2>1. UNCHANGED <<m_mOnlineClient, sock, toLogic, subscribed, untold>>
    BY <1>0
  <2>2. ASSUME NEW s \in Slots, NEW c, Knows(s, c)'
        PROVE  Holds(s, c)' \/ s \in untold' \/ ToldLast(s, c)'
    <3>1. Knows(s, c)
      BY <2>1, <2>2 DEF Knows, RequestAt
    <3>2. Holds(s, c) \/ s \in untold \/ ToldLast(s, c)
      BY <3>1 DEF IInv, KnownOrTold
    <3>3. ToldLast(s, c) => ToldLast(s, c)'
      BY <2>1 DEF ToldLast, RequestAt
    <3>4. QED
      BY <2>1, <3>2, <3>3 DEF Holds
  <2>3. QED
    BY <2>2 DEF KnownOrTold
<1>6. QED
  BY <1>1, <1>2, <1>3, <1>4, <1>5 DEF IInv

(* Every step keeps it.                                                       *)
LEMMA NextKeeps ==
  ASSUME IInv, Next
  PROVE  IInv'
<1>1. TypeOK'
  BY ClientTypes, LogicTypes, ConnectTypes DEF IInv, Next
<1>2. SlotsSound'
  BY <1>1, SlotsKeeps DEF IInv
<1>3. UnitsKnown' /\ ThreadOK'
  BY <1>1, <1>2, UnitsKeep, ThreadKeeps DEF IInv
<1>4. ExitsFollow' /\ KnownOrTold'
  BY ExitsKeep, HolderKeeps DEF IInv
<1>5. QED
  BY <1>1, <1>2, <1>3, <1>4 DEF IInv

(* It is an invariant.                                                        *)
LEMMA Invariant == Spec => []IInv
<1>1. IInv /\ [Next]_vars => IInv'
  BY StutterKeeps, NextKeeps
<1>2. QED
  BY InitIInv, <1>1, PTL DEF Spec

(* The state of the front end keeps its types, whatever the clients send and  *)
(* however the pieces of it arrive (ProcessEpollData, Run, ClientExit).       *)
THEOREM TypeCorrect == Spec => []TypeOK
<1>1. IInv => TypeOK
  BY DEF IInv
<1>2. QED
  BY Invariant, <1>1, PTL

(* A connection object is free or used, once, and no two clients share a      *)
(* connection, for any number of objects (GetOneFreeConnect, ClientExit).     *)
THEOREM SlotsStaySound == Spec => []SlotsSound
<1>1. IInv => SlotsSound
  BY DEF IInv
<1>2. QED
  BY Invariant, <1>1, PTL

(* An exit in the ring never follows a request of the client that has the     *)
(* index now, for any size of the ring (Forward, TellExit).                   *)
THEOREM ExitsAreOfTheGone == Spec => []ExitOnlyOfTheGone
<1>1. IInv => ExitOnlyOfTheGone
  <2>1. ASSUME IInv, NEW i \in DOMAIN toLogic, NEW j \in DOMAIN toLogic, i < j,
               toLogic[i].type = "request", toLogic[j].type = "exit",
               toLogic[i].index = toLogic[j].index
        PROVE  ~Holds(toLogic[i].index, toLogic[i].units[1].conn)
    <3>1. toLogic \in Seq(Packets) /\ TypeOK /\ ExitsFollow
      BY <2>1 DEF IInv, TypeOK
    <3>2. DOMAIN toLogic = 1 .. Len(toLogic)
      BY <3>1, LenProperties
    <3>3. toLogic[i].index \in Slots
      BY <3>1, <3>2, RingShape
    <3>4. QED
      BY <2>1, <3>1, <3>2, <3>3 DEF ExitsFollow, RequestAt, ExitAt
  <2>2. QED
    BY <2>1 DEF ExitOnlyOfTheGone
<1>2. QED
  BY Invariant, <1>1, PTL

(* Whatever the broker keeps under an index is of the client that has it, or  *)
(* the exit of it is behind all its requests, or the ring was full when the   *)
(* exit should have gone into it (TellExit, LogicTake).                       *)
THEOREM HolderKnown == Spec => []KnowsTheHolder
<1>1. IInv => KnowsTheHolder
  <2>1. ASSUME IInv, NEW s \in Slots,
               NEW c \in subscribed[s] \cup UNION {{toLogic[i].units[1].conn} :
                 i \in {j \in DOMAIN toLogic : toLogic[j].type = "request" /\ toLogic[j].index = s}}
        PROVE  \/ Holds(s, c)
               \/ s \in untold
               \/ \E i \in DOMAIN toLogic :
                    /\ toLogic[i] = ClientExitMessage(s)
                    /\ \A j \in i + 1 .. Len(toLogic) :
                         toLogic[j].type = "request" /\ toLogic[j].index = s
                           => toLogic[j].units[1].conn # c
    <3>1. toLogic \in Seq(Packets) /\ KnownOrTold
      BY <2>1 DEF IInv, TypeOK
    <3>2. DOMAIN toLogic = 1 .. Len(toLogic)
      BY <3>1, LenProperties
    <3>3. Knows(s, c)
      BY <2>1, <3>2 DEF Knows, RequestAt
    <3>4. Holds(s, c) \/ s \in untold \/ ToldLast(s, c)
      BY <3>1, <3>3 DEF KnownOrTold
    <3>5. QED
      BY <3>2, <3>4 DEF ToldLast, RequestAt
  <2>2. QED
    BY <2>1 DEF KnowsTheHolder
<1>2. QED
  BY Invariant, <1>1, PTL

(* Both servers waiting for room in the other's ring wait for ever, whatever  *)
(* the clients do and whatever the rings hold (logicServer.cpp:1374,          *)
(* connectServer.cpp:428).                                                    *)
THEOREM FullRingsStay == Spec => FullRingsNeverClear
<1>1. ASSUME Deadlocked, Next
      PROVE  UNCHANGED <<run, toLogic, toConnect, spin>>
  <2>1. At("forward") /\ LogicFull /\ spin # <<>> /\ ConnectFull
    BY <1>1 DEF Deadlocked
  <2>2. ~ConnectStep
    BY <2>1 DEF ConnectStep, At, EpollWait, Accept, Recv, Overrun, RecvEnd, Forward, QueueDone,
                TakeForNobody, Take, Flush, FlushFails, SendDataToClient, SendFails
  <2>3. ~(LogicTake \/ LogicPush \/ LogicPut)
    BY <2>1 DEF LogicTake, LogicPush, LogicPut
  <2>4. \A c \in Conns : ClientStep(c) => UNCHANGED <<run, toLogic, toConnect, spin>>
    BY DEF ClientStep, Connect, SendRequest, Read, Close, logic
  <2>5. QED
    BY <1>1, <2>2, <2>3, <2>4 DEF Next
<1>2. UNCHANGED <<run, toLogic, toConnect, spin>> /\ Deadlocked => Deadlocked'
  BY DEF Deadlocked, At, LogicFull, ConnectFull
<1>3. [Next]_vars => [Deadlocked => Deadlocked']_vars
  BY <1>1, <1>2
<1>4. QED
  BY <1>3, PTL DEF Spec, FullRingsNeverClear
-----------------------------------------------------------------------------
(* The order of the requests: the units of a connection between its client  *)
(* and the broker are a run, one after the other, from the first unit of a   *)
(* request on.                                                               *)

After(c, u) == IF u.part < Parts THEN Unit(c, u.request, u.part + 1)
               ELSE Unit(c, u.request + 1, 1)

Run(c, w) == /\ w \in Seq(AllUnits)
             /\ \A i \in 1 .. Len(w) - 1 : w[i + 1] = After(c, w[i])
             /\ Len(w) > 0 => w[1].conn = c /\ w[1].part = 1

Way(c) == InRing(c) \o Received(c) \o up[c]

InOrder(c) ==
  /\ Run(c, Way(c))
  /\ client[c] = "idle" => Way(c) = <<>>
  /\ client[c] = "open" /\ Len(Way(c)) > 0 => Way(c)[Len(Way(c))] = Unit(c, sent[c], Parts)
  /\ Len(InRing(c)) > 0 => InRing(c)[Len(InRing(c))].part = Parts

RingWhole ==
  \A i \in 1 .. Len(toLogic) : toLogic[i].type = "request" =>
    \E c \in Conns, n \in 1 .. MaxRequests : toLogic[i].units = Units(c, n)

WaysOK == RingWhole /\ \A c \in Conns : InOrder(c)

(* Runs *)

\* A request is a run of its own.
LEMMA UnitsRun ==
  ASSUME NEW c \in Conns, NEW n \in 1 .. MaxRequests
  PROVE  /\ Run(c, Units(c, n)) /\ Len(Units(c, n)) = Parts /\ Parts \in Nat /\ Parts > 0
         /\ Units(c, n)[Parts] = Unit(c, n, Parts) /\ Units(c, n)[1] = Unit(c, n, 1)
<1>1. Parts \in Nat /\ Parts > 0
  BY Constants
<1>2. Units(c, n) \in Seq(AllUnits) /\ Len(Units(c, n)) = Parts
  BY UnitsType
<1>3. \A k \in 1 .. Parts : Units(c, n)[k] = Unit(c, n, k)
  BY DEF Units
<1>4. 1 \in 1 .. Parts /\ Parts \in 1 .. Parts
  BY <1>1
<1>5. ASSUME NEW i \in 1 .. Parts - 1
      PROVE  Units(c, n)[i + 1] = After(c, Units(c, n)[i])
  <2>1. i \in 1 .. Parts /\ i + 1 \in 1 .. Parts /\ i < Parts
    BY <1>1
  <2>2. Units(c, n)[i] = Unit(c, n, i) /\ Units(c, n)[i + 1] = Unit(c, n, i + 1)
    BY <1>3, <2>1
  <2>3. Unit(c, n, i).part = i /\ Unit(c, n, i).request = n
    BY DEF Unit
  <2>4. QED
    BY <2>1, <2>2, <2>3 DEF After
<1>6. Unit(c, n, 1).conn = c /\ Unit(c, n, 1).part = 1
  BY DEF Unit
<1>7. QED
  BY <1>1, <1>2, <1>3, <1>4, <1>5, <1>6 DEF Run

\* The first part of a run is a run.
LEMMA RunPrefix ==
  ASSUME NEW c, NEW w, Run(c, w), NEW v \in Seq(AllUnits), Len(v) <= Len(w),
         \A i \in 1 .. Len(v) : v[i] = w[i]
  PROVE  Run(c, v)
<1>1. Len(v) \in Nat /\ Len(w) \in Nat
  BY DEF Run
<1>2. \A i \in 1 .. Len(v) - 1 : v[i + 1] = w[i + 1] /\ v[i] = w[i] /\ i \in 1 .. Len(w) - 1
  BY <1>1
<1>3. \A i \in 1 .. Len(v) - 1 : v[i + 1] = After(c, v[i])
  BY <1>2 DEF Run
<1>4. Len(v) > 0 => v[1] = w[1] /\ Len(w) > 0
  BY <1>1
<1>5. QED
  BY <1>3, <1>4 DEF Run

\* Two runs that fit, one after the other.
LEMMA RunJoin ==
  ASSUME NEW c, NEW v, NEW w, Run(c, v), Run(c, w),
         Len(v) > 0 /\ Len(w) > 0 => w[1] = After(c, v[Len(v)])
  PROVE  Run(c, v \o w)
<1> DEFINE x == v \o w
           m == Len(v)
           n == Len(w)
<1>1. v \in Seq(AllUnits) /\ w \in Seq(AllUnits)
  BY DEF Run
<1>2. /\ x \in Seq(AllUnits) /\ Len(x) = m + n /\ m \in Nat /\ n \in Nat
      /\ \A i \in 1 .. m : x[i] = v[i]
      /\ \A i \in 1 .. n : x[m + i] = w[i]
  BY <1>1, ConcatFacts
<1> HIDE DEF x, m, n
<1>3. ASSUME NEW i \in 1 .. Len(x) - 1
      PROVE  x[i + 1] = After(c, x[i])
  <2>1. CASE i < m
    <3>1. i \in 1 .. m - 1 /\ i \in 1 .. m /\ i + 1 \in 1 .. m
      BY <1>2, <2>1
    <3>2. v[i + 1] = After(c, v[i])
      BY <3>1 DEF Run, m
    <3>3. QED
      BY <1>2, <3>1, <3>2
  <2>2. CASE i = m
    <3>1. m \in 1 .. m /\ 1 \in 1 .. n /\ m > 0 /\ n > 0
      BY <1>2, <2>2
    <3>2. x[m] = v[m] /\ x[m + 1] = w[1]
      BY <1>2, <3>1
    <3>3. w[1] = After(c, v[m])
      BY <3>1 DEF m, n
    <3>4. QED
      BY <2>2, <3>2, <3>3
  <2>3. CASE i > m
    <3>1. PICK j \in 1 .. n - 1 : i = m + j
      BY <1>2, <2>3
    <3>2. j \in 1 .. n /\ j + 1 \in 1 .. n /\ i + 1 = m + (j + 1)
      BY <1>2, <3>1
    <3>3. w[j + 1] = After(c, w[j])
      BY <3>1 DEF Run, n
    <3>4. x[i] = w[j] /\ x[i + 1] = w[j + 1]
      BY <1>2, <3>1, <3>2
    <3>5. QED
      BY <3>3, <3>4
  <2>4. QED
    BY <1>2, <2>1, <2>2, <2>3
<1>4. Len(x) > 0 => x[1].conn = c /\ x[1].part = 1
  <2>1. CASE m > 0
    BY <1>2, <2>1 DEF Run, m
  <2>2. CASE m = 0 /\ n > 0
    <3>1. 1 \in 1 .. n /\ m + 1 = 1
      BY <1>2, <2>2
    <3>2. x[1] = w[1]
      BY <1>2, <3>1
    <3>3. QED
      BY <2>2, <3>2 DEF Run, n
  <2>3. QED
    BY <1>2, <2>1, <2>2
<1>5. QED
  BY <1>2, <1>3, <1>4 DEF Run, x

\* What is left of a run behind whole requests is a run.
LEMMA RunSuffix ==
  ASSUME NEW c, NEW v \in Seq(AllUnits), NEW w \in Seq(AllUnits), Run(c, v \o w),
         Len(v) > 0 => v[Len(v)].part = Parts
  PROVE  /\ Run(c, w)
         /\ Len(w) > 0 => (v \o w)[Len(v \o w)] = w[Len(w)]
<1> DEFINE x == v \o w
           m == Len(v)
           n == Len(w)
<1>1. /\ Len(x) = m + n /\ m \in Nat /\ n \in Nat
      /\ \A i \in 1 .. m : x[i] = v[i]
      /\ \A i \in 1 .. n : x[m + i] = w[i]
  BY ConcatFacts
<1>2. Run(c, x)
  OBVIOUS
<1> HIDE DEF x
<1>3. ASSUME NEW i \in 1 .. n - 1
      PROVE  w[i + 1] = After(c, w[i])
  <2>1. /\ m + i \in 1 .. Len(x) - 1 /\ i \in 1 .. n /\ i + 1 \in 1 .. n
        /\ (m + i) + 1 = m + (i + 1)
    BY <1>1
  <2>2. x[(m + i) + 1] = After(c, x[m + i])
    BY <1>2, <2>1 DEF Run
  <2>3. QED
    BY <1>1, <2>1, <2>2
<1>4. ASSUME n > 0
      PROVE  w[1].conn = c /\ w[1].part = 1
  <2>1. 1 \in 1 .. n /\ x[m + 1] = w[1]
    BY <1>1, <1>4
  <2>2. CASE m = 0
    BY <1>1, <1>2, <2>1, <2>2 DEF Run
  <2>3. CASE m > 0
    <3>1. m \in 1 .. Len(x) - 1 /\ m \in 1 .. m
      BY <1>1, <1>4, <2>3
    <3>2. x[m + 1] = After(c, x[m]) /\ x[m] = v[m]
      BY <1>1, <1>2, <3>1 DEF Run
    <3>3. v[m].part = Parts /\ Parts \in Nat
      BY <2>3, Constants
    <3>4. w[1] = Unit(c, v[m].request + 1, 1)
      BY <2>1, <3>2, <3>3 DEF After
    <3>5. QED
      BY <3>4 DEF Unit
  <2>4. QED
    BY <1>1, <2>2, <2>3
<1>5. n > 0 => x[Len(x)] = w[n]
  <2>1. n > 0 => n \in 1 .. n /\ Len(x) = m + n
    BY <1>1
  <2>2. QED
    BY <1>1, <2>1
<1>6. QED
  BY <1>3, <1>4, <1>5 DEF Run, x
-----------------------------------------------------------------------------
\* A run of at least a request's length begins with a whole request.
LEMMA RunPart ==
  ASSUME NEW c, NEW w, Run(c, w), Len(w) >= Parts
  PROVE  \E n \in 1 .. MaxRequests : SubSeq(w, 1, Parts) = Units(c, n) /\ w[1] = Unit(c, n, 1)
<1> DEFINE n == w[1].request
           v == SubSeq(w, 1, Parts)
<1>1. w \in Seq(AllUnits) /\ Parts \in Nat /\ Parts > 0 /\ Len(w) \in Nat
  BY Constants DEF Run
<1>2. 1 \in 1 .. Len(w) /\ Len(w) > 0 /\ Parts \in 0 .. Len(w)
  BY <1>1
<1>3. w[1] \in AllUnits /\ w[1].conn = c /\ w[1].part = 1
  BY <1>1, <1>2 DEF Run
<1>4. n \in 1 .. MaxRequests /\ w[1] = Unit(c, n, 1)
  BY <1>3 DEF AllUnits, Unit
<1>5. /\ v \in Seq(AllUnits) /\ Len(v) = Parts
      /\ \A i \in 1 .. Parts : v[i] = w[i]
  BY <1>1, <1>2, PieceType
<1> HIDE DEF n, v
<1> DEFINE I == {i \in Nat : i < Parts => w[i + 1] = Unit(c, n, i + 1)}
<1>6. 0 \in I
  BY <1>4
<1>7. ASSUME NEW i \in I
      PROVE  i + 1 \in I
  <2> SUFFICES ASSUME i + 1 < Parts
               PROVE  w[(i + 1) + 1] = Unit(c, n, (i + 1) + 1)
    OBVIOUS
  <2>1. i \in Nat /\ i < Parts /\ i + 1 \in 1 .. Len(w) - 1
    BY <1>1
  <2>2. w[i + 1] = Unit(c, n, i + 1)
    BY <2>1
  <2>3. w[(i + 1) + 1] = After(c, w[i + 1])
    BY <2>1 DEF Run
  <2>4. Unit(c, n, i + 1).part = i + 1 /\ Unit(c, n, i + 1).request = n
    BY DEF Unit
  <2>5. QED
    BY <2>2, <2>3, <2>4 DEF After
<1>8. Nat \subseteq I
  BY <1>6, <1>7, SetInduction
<1>9. ASSUME NEW i \in 1 .. Parts
      PROVE  v[i] = Units(c, n)[i]
  <2>1. i - 1 \in I /\ i - 1 < Parts /\ (i - 1) + 1 = i
    BY <1>1, <1>8
  <2>2. w[i] = Unit(c, n, i)
    BY <2>1
  <2>3. Units(c, n)[i] = Unit(c, n, i)
    BY DEF Units
  <2>4. QED
    BY <1>5, <2>2, <2>3
<1>10. DOMAIN v = 1 .. Parts /\ v = [i \in DOMAIN v |-> v[i]]
  BY <1>5
<1>11. Units(c, n) = [i \in 1 .. Parts |-> Units(c, n)[i]]
  BY DEF Units
<1>12. v = Units(c, n)
  BY <1>9, <1>10, <1>11
<1>13. QED
  BY <1>4, <1>12 DEF v
-----------------------------------------------------------------------------
(* The three places of the units *)

RingSeq(c) == [i \in 1 .. Len(toLogic) |-> UnitsOf(c, toLogic[i])]

\* What a packet in the ring holds of a connection.
LEMMA UnitsOfType ==
  ASSUME NEW c, NEW p \in Packets
  PROVE  UnitsOf(c, p) \in Seq(AllUnits) /\ (p.type = "exit" => UnitsOf(c, p) = <<>>)
<1>1. <<>> \in Seq(AllUnits)
  OBVIOUS
<1>2. p.type = "request" => p.units \in Seq(AllUnits)
  BY DEF Packets
<1>3. QED
  BY <1>1, <1>2 DEF UnitsOf

\* What the ring holds of a connection is a sequence of units.
LEMMA RingSeqType ==
  ASSUME TypeOK, NEW c
  PROVE  /\ RingSeq(c) \in Seq(Seq(AllUnits)) /\ Len(RingSeq(c)) = Len(toLogic)
         /\ InRing(c) \in Seq(AllUnits)
         /\ (toLogic = <<>> => InRing(c) = <<>>)
<1>1. toLogic \in Seq(Packets) /\ Len(toLogic) \in Nat
  BY LenProperties DEF TypeOK
<1>2. \A i \in 1 .. Len(toLogic) : UnitsOf(c, toLogic[i]) \in Seq(AllUnits)
  BY <1>1, UnitsOfType, ElementOfSeq
<1>3. RingSeq(c) \in [1 .. Len(toLogic) -> Seq(AllUnits)]
  BY <1>2 DEF RingSeq
<1>4. RingSeq(c) \in Seq(Seq(AllUnits)) /\ Len(RingSeq(c)) = Len(toLogic)
  BY <1>1, <1>3
<1>5. InRing(c) = Joined(RingSeq(c))
  BY DEF InRing, RingSeq
<1>6. toLogic = <<>> => RingSeq(c) = <<>>
  BY <1>1, <1>4
<1>7. QED
  BY <1>4, <1>5, <1>6, JoinedType

\* A packet into the ring, and one out of it.
LEMMA RingMoves ==
  ASSUME TypeOK, NEW c
  PROVE  /\ UNCHANGED toLogic => InRing(c)' = InRing(c)
         /\ \A p \in Packets : toLogic' = Append(toLogic, p)
              => InRing(c)' = InRing(c) \o UnitsOf(c, p)
         /\ toLogic # <<>> /\ toLogic' = Tail(toLogic)
              => InRing(c) = UnitsOf(c, Head(toLogic)) \o InRing(c)'
<1>1. toLogic \in Seq(Packets) /\ Len(toLogic) \in Nat
  BY LenProperties DEF TypeOK
<1>2. RingSeq(c) \in Seq(Seq(AllUnits)) /\ Len(RingSeq(c)) = Len(toLogic)
  BY RingSeqType
<1>3. InRing(c) = Joined(RingSeq(c)) /\ InRing(c)' = Joined(RingSeq(c)')
  BY DEF InRing, RingSeq
<1>4. /\ RingSeq(c)' = [i \in 1 .. Len(toLogic') |-> UnitsOf(c, toLogic'[i])]
      /\ \A i \in 1 .. Len(toLogic) : RingSeq(c)[i] = UnitsOf(c, toLogic[i])
  BY DEF RingSeq, UnitsOf
<1>5. UNCHANGED toLogic => RingSeq(c)' = RingSeq(c)
  BY <1>4 DEF RingSeq
<1>6. ASSUME NEW p \in Packets, toLogic' = Append(toLogic, p)
      PROVE  InRing(c)' = InRing(c) \o UnitsOf(c, p)
  <2> DEFINE x == UnitsOf(c, p)
             u == Append(RingSeq(c), x)
             m == Len(toLogic)
  <2>1. /\ Len(toLogic') = m + 1 /\ toLogic'[m + 1] = p
        /\ \A i \in 1 .. m : toLogic'[i] = toLogic[i]
    BY <1>6, RingShape
  <2>2. x \in Seq(AllUnits)
    BY UnitsOfType
  <2>3. /\ Len(u) = m + 1 /\ u[m + 1] = x /\ u \in Seq(Seq(AllUnits))
        /\ \A i \in 1 .. m : u[i] = RingSeq(c)[i]
    BY <1>2, <2>2, QueueTypes
  <2> HIDE DEF u
  <2>4. \A i \in 1 .. m + 1 : i \in 1 .. m \/ i = m + 1
    BY <1>1
  <2>5. \A i \in 1 .. m + 1 : u[i] = UnitsOf(c, toLogic'[i])
    BY <1>4, <2>1, <2>3, <2>4
  <2>6. u = [i \in 1 .. m + 1 |-> u[i]]
    BY <1>1, <2>3
  <2>7. RingSeq(c)' = u
    BY <1>4, <2>1, <2>5, <2>6
  <2>8. Joined(u) = Joined(RingSeq(c)) \o x
    BY <1>2, <2>2, JoinedAppend DEF u
  <2>9. QED
    BY <1>3, <2>7, <2>8
<1>7. ASSUME toLogic # <<>>, toLogic' = Tail(toLogic)
      PROVE  InRing(c) = UnitsOf(c, Head(toLogic)) \o InRing(c)'
  <2> DEFINE u == Tail(RingSeq(c))
             m == Len(toLogic) - 1
  <2>1. /\ Len(toLogic) > 0 /\ Len(toLogic') = m /\ Head(toLogic) = toLogic[1]
        /\ \A i \in 1 .. m : toLogic'[i] = toLogic[i + 1]
    BY <1>7, RingShape
  <2>2. RingSeq(c) # <<>>
    BY <1>1, <1>2, <2>1
  <2>3. /\ Len(u) = m /\ u \in Seq(Seq(AllUnits)) /\ Head(RingSeq(c)) = RingSeq(c)[1]
        /\ \A i \in 1 .. m : u[i] = RingSeq(c)[i + 1]
    BY <1>2, <2>2, QueueTypes
  <2>4. Joined(RingSeq(c)) = Head(RingSeq(c)) \o Joined(u)
    BY <1>2, <2>2, JoinedTail
  <2> HIDE DEF u
  <2>5. \A i \in 1 .. m : i + 1 \in 1 .. Len(toLogic)
    BY <1>1
  <2>6. \A i \in 1 .. m : u[i] = UnitsOf(c, toLogic'[i])
    BY <1>4, <2>1, <2>3, <2>5
  <2>7. u = [i \in 1 .. m |-> u[i]]
    BY <1>1, <2>3
  <2>8. RingSeq(c)' = u
    BY <1>4, <2>1, <2>6, <2>7
  <2>9. 1 \in 1 .. Len(toLogic)
    BY <1>1, <2>1
  <2>10. Head(RingSeq(c)) = UnitsOf(c, Head(toLogic))
    BY <1>4, <2>1, <2>3, <2>9
  <2>11. QED
    BY <1>3, <2>4, <2>8, <2>10
<1>8. QED
  BY <1>3, <1>5, <1>6, <1>7

\* A connection's received units are those in the buffer of its object.
LEMMA ReceivedIs ==
  ASSUME SlotsSound, NEW c
  PROVE  /\ \A s \in m_mOnlineClient : Holds(s, c) => Received(c) = recvBuf[s]
         /\ (\A s \in m_mOnlineClient : ~Holds(s, c)) => Received(c) = <<>>
<1>1. ASSUME NEW s \in m_mOnlineClient, Holds(s, c)
      PROVE  Received(c) = recvBuf[s]
  <2> DEFINE t == CHOOSE t \in m_mOnlineClient : sock[t] = c
  <2>1. sock[s] = c
    BY <1>1 DEF Holds
  <2>2. t \in m_mOnlineClient /\ sock[t] = c
    BY <2>1
  <2>3. t = s
    BY <2>1, <2>2 DEF SlotsSound
  <2>4. QED
    BY <2>1, <2>3 DEF Received
<1>2. QED
  BY <1>1 DEF Received, Holds

\* The same after the step.
LEMMA ReceivedNext ==
  ASSUME SlotsSound', NEW c
  PROVE  /\ \A s \in m_mOnlineClient' : Holds(s, c)' => Received(c)' = recvBuf'[s]
         /\ (\A s \in m_mOnlineClient' : ~Holds(s, c)') => Received(c)' = <<>>
<1>1. ASSUME NEW s \in m_mOnlineClient', Holds(s, c)'
      PROVE  Received(c)' = recvBuf'[s]
  <2> DEFINE t == CHOOSE t \in m_mOnlineClient' : sock'[t] = c
  <2>1. sock'[s] = c
    BY <1>1 DEF Holds
  <2>2. t \in m_mOnlineClient' /\ sock'[t] = c
    BY <2>1
  <2>3. t = s
    BY <2>1, <2>2 DEF SlotsSound
  <2>4. QED
    BY <2>1, <2>3 DEF Received
<1>2. QED
  BY <1>1 DEF Received, Holds
-----------------------------------------------------------------------------
(* What a step does to the units of a connection *)

\* Nothing; a request more; the end of a connection; a request taken.
Kept(c) == /\ Way(c)' = Way(c) /\ sent'[c] = sent[c]
           /\ client'[c] \in {client[c], "closed"} \/ client[c] = "idle"
Asked(c) == /\ client[c] = "open" /\ sent[c] + 1 \in 1 .. MaxRequests
            /\ sent'[c] = sent[c] + 1 /\ client'[c] = client[c]
            /\ Way(c)' = Way(c) \o Units(c, sent[c] + 1)
Cut(c) == /\ client'[c] = "closed"
          /\ Way(c)' \in Seq(AllUnits) /\ Len(Way(c)') <= Len(Way(c))
          /\ \A i \in 1 .. Len(Way(c)') : Way(c)'[i] = Way(c)[i]
Taken(c) == /\ client'[c] = client[c] /\ sent'[c] = sent[c]
            /\ Way(c)' \in Seq(AllUnits)
            /\ \E n \in 1 .. MaxRequests : Way(c) = Units(c, n) \o Way(c)'

RingMoved(c) == \/ InRing(c)' = InRing(c)
                \/ \E n \in 1 .. MaxRequests : InRing(c)' = InRing(c) \o Units(c, n)
                \/ \E n \in 1 .. MaxRequests : InRing(c) = Units(c, n) \o InRing(c)'

Moved(c) == /\ Kept(c) \/ Asked(c) \/ Cut(c) \/ Taken(c)
            /\ RingMoved(c) /\ InRing(c)' \in Seq(AllUnits)

\* Its last unit has the last part.
LEMMA UnitsWhole ==
  ASSUME NEW c \in Conns, NEW n \in 1 .. MaxRequests
  PROVE  /\ Units(c, n) \in Seq(AllUnits) /\ Len(Units(c, n)) = Parts
         /\ Parts \in Nat /\ Parts > 0 /\ Parts \in 1 .. Parts
         /\ Units(c, n)[Parts].part = Parts
<1>1. Units(c, n) \in Seq(AllUnits)
  BY UnitsType
<1>2. /\ Len(Units(c, n)) = Parts /\ Parts \in Nat /\ Parts > 0
      /\ Units(c, n)[Parts] = Unit(c, n, Parts)
  BY UnitsRun
<1>3. Unit(c, n, Parts).part = Parts
  BY DEF Unit
<1>4. QED
  BY <1>1, <1>2, <1>3

\* A sequence of units behind another.
LEMMA Behind ==
  ASSUME NEW a \in Seq(AllUnits), NEW b \in Seq(AllUnits)
  PROVE  /\ a \o b \in Seq(AllUnits) /\ Len(a \o b) = Len(a) + Len(b)
         /\ \A i \in 1 .. Len(a) : (a \o b)[i] = a[i]
         /\ \A i \in 1 .. Len(b) : (a \o b)[Len(a) + i] = b[i]
         /\ Len(a) \in Nat /\ Len(b) \in Nat
BY ConcatFacts

\* The last part in the ring stays the last of a request.
LEMMA RingEnds ==
  ASSUME NEW c \in Conns, InRing(c) \in Seq(AllUnits), InOrder(c), Moved(c)
  PROVE  Len(InRing(c)') > 0 => InRing(c)'[Len(InRing(c)')].part = Parts
<1> DEFINE r == InRing(c)
           q == InRing(c)'
<1>1. Len(r) > 0 => r[Len(r)].part = Parts
  BY DEF InOrder
<1>2. r \in Seq(AllUnits) /\ q \in Seq(AllUnits) /\ Len(r) \in Nat /\ Len(q) \in Nat
  BY LenProperties DEF Moved
<1>3. q = r \/ (\E n \in 1 .. MaxRequests : q = r \o Units(c, n))
            \/ (\E n \in 1 .. MaxRequests : r = Units(c, n) \o q)
  BY DEF Moved, RingMoved
<1> HIDE DEF r, q
<1>4. ASSUME q = r, Len(q) > 0
      PROVE  q[Len(q)].part = Parts
  BY <1>1, <1>4
<1>5. ASSUME NEW n \in 1 .. MaxRequests, q = r \o Units(c, n)
      PROVE  q[Len(q)].part = Parts
  <2> DEFINE u == Units(c, n)
  <2>1. /\ u \in Seq(AllUnits) /\ Len(u) = Parts /\ Parts \in 1 .. Parts
        /\ u[Parts].part = Parts
    BY UnitsWhole
  <2>2. q = r \o u
    BY <1>5
  <2> HIDE DEF u
  <2>3. Len(r \o u) = Len(r) + Len(u) /\ \A i \in 1 .. Len(u) : (r \o u)[Len(r) + i] = u[i]
    BY <1>2, <2>1, Behind
  <2>4. QED
    BY <2>1, <2>2, <2>3
<1>6. ASSUME NEW n \in 1 .. MaxRequests, r = Units(c, n) \o q, Len(q) > 0
      PROVE  q[Len(q)].part = Parts
  <2> DEFINE u == Units(c, n)
  <2>1. u \in Seq(AllUnits) /\ Len(u) = Parts /\ Parts \in Nat
    BY UnitsWhole
  <2>2. r = u \o q
    BY <1>6
  <2> HIDE DEF u
  <2>3. Len(u \o q) = Len(u) + Len(q) /\ \A i \in 1 .. Len(q) : (u \o q)[Len(u) + i] = q[i]
    BY <1>2, <2>1, Behind
  <2>4. Len(q) \in 1 .. Len(q) /\ Len(r) > 0
    BY <1>2, <1>6, <2>1, <2>2, <2>3
  <2>5. QED
    BY <1>1, <2>2, <2>3, <2>4
<1>7. QED
  BY <1>4, <1>5, <1>6, <1>3 DEF q

\* Each of them keeps the order.
LEMMA MovedKeeps ==
  ASSUME TypeOK, TypeOK', NEW c \in Conns, InRing(c) \in Seq(AllUnits), InOrder(c), Moved(c)
  PROVE  InOrder(c)'
<1> DEFINE w == Way(c)
           v == Way(c)'
<1>1. /\ Run(c, w) /\ (client[c] = "idle" => w = <<>>)
      /\ client[c] = "open" /\ Len(w) > 0 => w[Len(w)] = Unit(c, sent[c], Parts)
      /\ w \in Seq(AllUnits) /\ Len(w) \in Nat
  BY LenProperties DEF InOrder, Run
<1>2. /\ client[c] \in {"idle", "open", "closed"} /\ client'[c] \in {"idle", "open", "closed"}
  BY DEF TypeOK
<1> DEFINE Good == /\ Run(c, v)
                   /\ client'[c] = "idle" => v = <<>>
                   /\ client'[c] = "open" /\ Len(v) > 0 => v[Len(v)] = Unit(c, sent'[c], Parts)
<1> HIDE DEF w, v
<1>3. ASSUME Kept(c)
      PROVE  Good
  <2>1. /\ v = w /\ sent'[c] = sent[c]
        /\ client'[c] \in {client[c], "closed"} \/ client[c] = "idle"
    BY <1>3 DEF Kept, v, w
  <2>2. w = <<>> => Len(w) = 0
    OBVIOUS
  <2>3. QED
    BY <1>1, <2>1, <2>2
<1>4. ASSUME Asked(c)
      PROVE  Good
  <2> DEFINE n == sent[c] + 1
             u == Units(c, n)
  <2>1. /\ client[c] = "open" /\ client'[c] = "open" /\ n \in 1 .. MaxRequests
        /\ sent'[c] = n /\ v = w \o u
    BY <1>4 DEF Asked, v, w
  <2>2. /\ Run(c, u) /\ u \in Seq(AllUnits) /\ Len(u) = Parts /\ Parts \in Nat /\ Parts > 0
        /\ u[Parts] = Unit(c, n, Parts) /\ u[1] = Unit(c, n, 1)
    BY <2>1, UnitsRun, UnitsType
  <2>3. Unit(c, sent[c], Parts).part = Parts /\ Unit(c, sent[c], Parts).request = sent[c]
    BY DEF Unit
  <2>4. Len(w) > 0 => u[1] = After(c, w[Len(w)])
    BY <1>1, <2>1, <2>2, <2>3 DEF After
  <2> HIDE DEF u, n
  <2>5. Run(c, v)
    BY <1>1, <2>1, <2>2, <2>4, RunJoin
  <2>6. Len(w \o u) = Len(w) + Len(u) /\ \A i \in 1 .. Len(u) : (w \o u)[Len(w) + i] = u[i]
    BY <1>1, <2>2, Behind
  <2>7. Parts \in 1 .. Parts
    BY <2>2
  <2>8. v[Len(v)] = Unit(c, n, Parts)
    BY <2>1, <2>2, <2>6, <2>7
  <2>9. QED
    BY <2>1, <2>5, <2>8
<1>5. ASSUME Cut(c)
      PROVE  Good
  <2>1. /\ client'[c] = "closed" /\ v \in Seq(AllUnits) /\ Len(v) <= Len(w)
        /\ \A i \in 1 .. Len(v) : v[i] = w[i]
    BY <1>5 DEF Cut, v, w
  <2>2. Run(c, v)
    BY <1>1, <2>1, RunPrefix
  <2>3. QED
    BY <2>1, <2>2
<1>6. ASSUME Taken(c)
      PROVE  Good
  <2>1. PICK n \in 1 .. MaxRequests : w = Units(c, n) \o v
    BY <1>6 DEF Taken, v, w
  <2>2. client'[c] = client[c] /\ sent'[c] = sent[c] /\ v \in Seq(AllUnits)
    BY <1>6 DEF Taken, v
  <2> DEFINE u == Units(c, n)
  <2>3. /\ u \in Seq(AllUnits) /\ Len(u) = Parts /\ Parts \in Nat /\ Parts > 0
        /\ u[Parts].part = Parts
    BY UnitsWhole
  <2>4. Run(c, u \o v)
    BY <1>1, <2>1
  <2> HIDE DEF u
  <2>5. Run(c, v) /\ (Len(v) > 0 => (u \o v)[Len(u \o v)] = v[Len(v)])
    BY <2>2, <2>3, <2>4, RunSuffix
  <2>6. Len(w) > 0
    <3>1. Len(u \o v) = Len(u) + Len(v) /\ Len(v) \in Nat
      BY <2>2, <2>3, Behind
    <3>2. w = u \o v
      BY <2>1 DEF u
    <3>3. QED
      BY <2>3, <3>1, <3>2
  <2>7. w # <<>> /\ w = u \o v
    BY <2>1, <2>6 DEF u
  <2>8. QED
    BY <1>1, <2>2, <2>5, <2>6, <2>7
<1>7. Good
  BY <1>3, <1>4, <1>5, <1>6 DEF Moved
<1>8. Len(InRing(c)') > 0 => InRing(c)'[Len(InRing(c)')].part = Parts
  BY RingEnds
<1>9. QED
  BY <1>7, <1>8 DEF InOrder, v
-----------------------------------------------------------------------------
\* The same after the step.
LEMMA RingTypeNext ==
  ASSUME TypeOK', NEW c
  PROVE  InRing(c)' \in Seq(AllUnits)
<1>1. toLogic' \in Seq(Packets) /\ Len(toLogic') \in Nat
  BY LenProperties DEF TypeOK
<1>2. \A i \in 1 .. Len(toLogic') : UnitsOf(c, toLogic'[i]) \in Seq(AllUnits)
  BY <1>1, UnitsOfType, ElementOfSeq
<1> DEFINE q == [i \in 1 .. Len(toLogic') |-> UnitsOf(c, toLogic'[i])]
<1>3. q \in [1 .. Len(toLogic') -> Seq(AllUnits)]
  BY <1>2
<1>4. q \in Seq(Seq(AllUnits))
  BY <1>1, <1>3
<1>5. InRing(c)' = Joined(q)
  BY DEF InRing, UnitsOf
<1> HIDE DEF q
<1>6. QED
  BY <1>4, <1>5, JoinedType

\* The three places hold sequences of units.
LEMMA WayTypes ==
  ASSUME TypeOK, SlotsSound, NEW c \in Conns
  PROVE  /\ InRing(c) \in Seq(AllUnits) /\ Received(c) \in Seq(AllUnits)
         /\ up[c] \in Seq(AllUnits) /\ Way(c) \in Seq(AllUnits)
<1>1. InRing(c) \in Seq(AllUnits)
  BY RingSeqType
<1>2. up[c] \in Seq(AllUnits) /\ \A s \in m_mOnlineClient : recvBuf[s] \in Seq(AllUnits)
  BY DEF TypeOK
<1>3. Received(c) \in Seq(AllUnits)
  <2>1. <<>> \in Seq(AllUnits)
    OBVIOUS
  <2>2. QED
    BY <1>2, <2>1, ReceivedIs
<1>4. InRing(c) \o Received(c) \in Seq(AllUnits)
  BY <1>1, <1>3, ConcatProperties
<1>5. Way(c) \in Seq(AllUnits)
  BY <1>2, <1>4, ConcatProperties DEF Way
<1>6. QED
  BY <1>1, <1>2, <1>3, <1>5

\* What is received stays while the object and its buffer do.
LEMMA ReceivedSame ==
  ASSUME SlotsSound, SlotsSound', NEW c,
         \A s : Holds(s, c)' <=> Holds(s, c),
         \A s \in m_mOnlineClient : Holds(s, c) => recvBuf'[s] = recvBuf[s]
  PROVE  Received(c)' = Received(c)
<1>1. CASE \E s \in m_mOnlineClient : Holds(s, c)
  <2>1. PICK s \in m_mOnlineClient : Holds(s, c)
    BY <1>1
  <2>2. Holds(s, c)'
    BY <2>1
  <2>3. s \in m_mOnlineClient'
    BY <2>2 DEF Holds
  <2>4. Received(c)' = recvBuf'[s]
    BY <2>2, <2>3, ReceivedNext
  <2>5. Received(c) = recvBuf[s]
    BY <2>1, ReceivedIs
  <2>6. QED
    BY <2>1, <2>4, <2>5
<1>2. CASE ~ \E s \in m_mOnlineClient : Holds(s, c)
  <2>1. \A s : ~Holds(s, c)
    BY <1>2 DEF Holds
  <2>2. Received(c)' = <<>>
    BY <2>1, ReceivedNext
  <2>3. Received(c) = <<>>
    BY <2>1, ReceivedIs
  <2>4. QED
    BY <2>2, <2>3
<1>3. QED
  BY <1>1, <1>2
-----------------------------------------------------------------------------
(* Step by step *)

Known == TypeOK /\ SlotsSound /\ UnitsKnown /\ ThreadOK /\ WaysOK

\* Steps that leave the units of a connection where they are.
Same(c) == /\ InRing(c)' = InRing(c) /\ Received(c)' = Received(c) /\ up'[c] = up[c]
           /\ sent'[c] = sent[c] /\ (client'[c] = client[c] \/ client[c] = "idle")

\* They move nothing.
LEMMA SameMoves ==
  ASSUME TypeOK', NEW c, Same(c)
  PROVE  Moved(c)
<1>1. InRing(c)' = InRing(c) /\ Received(c)' = Received(c) /\ up'[c] = up[c]
  BY DEF Same
<1>2. Way(c)' = Way(c)
  BY <1>1 DEF Way
<1>3. Kept(c)
  BY <1>2 DEF Same, Kept
<1>4. QED
  BY <1>1, <1>3, RingTypeNext DEF Moved, RingMoved

\* The ring without a new request.
LEMMA RingStays ==
  ASSUME TypeOK, RingWhole,
         UNCHANGED toLogic \/ \E s \in Slots : TellExit(s)
  PROVE  RingWhole' /\ \A c : InRing(c)' = InRing(c)
<1>1. CASE UNCHANGED toLogic
  <2>1. RingWhole'
    BY <1>1 DEF RingWhole
  <2>2. QED
    BY <1>1, <2>1, RingMoves
<1>2. ASSUME NEW s \in Slots, TellExit(s), ~UNCHANGED toLogic
      PROVE  RingWhole' /\ \A c : InRing(c)' = InRing(c)
  <2> DEFINE p == ClientExitMessage(s)
  <2>1. toLogic' = Append(toLogic, p)
    BY <1>2 DEF TellExit
  <2>2. p \in Packets /\ p.type = "exit"
    BY DEF ClientExitMessage, Packets
  <2> HIDE DEF p
  <2>3. ASSUME NEW c
        PROVE  InRing(c)' = InRing(c)
    <3>1. UnitsOf(c, p) = <<>>
      BY <2>2, UnitsOfType
    <3>2. InRing(c)' = InRing(c) \o <<>>
      BY <2>1, <2>2, <3>1, RingMoves
    <3>3. InRing(c) \in Seq(AllUnits)
      BY RingSeqType
    <3>4. QED
      BY <3>2, <3>3, ConcatEmptySeq
  <2>4. /\ Len(toLogic') = Len(toLogic) + 1 /\ toLogic'[Len(toLogic) + 1] = p
        /\ \A i \in 1 .. Len(toLogic) : toLogic'[i] = toLogic[i]
        /\ Len(toLogic) \in Nat
    BY <2>1, <2>2, RingShape
  <2>5. ASSUME NEW i \in 1 .. Len(toLogic'), toLogic'[i].type = "request"
        PROVE  \E c \in Conns, n \in 1 .. MaxRequests : toLogic'[i].units = Units(c, n)
    <3>1. i \in 1 .. Len(toLogic) \/ i = Len(toLogic) + 1
      BY <2>4
    <3>2. i \in 1 .. Len(toLogic) /\ toLogic'[i] = toLogic[i]
      BY <2>2, <2>4, <2>5, <3>1
    <3>3. QED
      BY <2>5, <3>2 DEF RingWhole
  <2>6. RingWhole'
    BY <2>5 DEF RingWhole, Units, Unit
  <2>7. QED
    BY <2>3, <2>6
<1>3. QED
  BY <1>1, <1>2

\* Objects and their buffers stay.
LEMMA ReceivedStays ==
  ASSUME SlotsSound, SlotsSound', UNCHANGED <<m_mOnlineClient, sock, recvBuf>>
  PROVE  \A c : Received(c)' = Received(c)
<1>1. \A c : \A s : Holds(s, c)' <=> Holds(s, c)
  BY DEF Holds
<1>2. QED
  BY <1>1, ReceivedSame

Stays == /\ UNCHANGED <<m_mOnlineClient, sock, recvBuf, up, sent>>
         /\ UNCHANGED toLogic \/ \E s \in Slots : TellExit(s)
         /\ \A c \in Conns :
              client'[c] = client[c] \/ (client[c] = "idle" /\ client'[c] = "open")

\* So do those that touch neither objects nor buffers nor requests,
LEMMA StaysMoves ==
  ASSUME Known, SlotsSound', TypeOK', Stays
  PROVE  RingWhole' /\ \A c \in Conns : Moved(c)
<1>1. RingWhole' /\ \A c : InRing(c)' = InRing(c)
  BY RingStays DEF Known, WaysOK, Stays
<1>2. \A c : Received(c)' = Received(c)
  BY ReceivedStays DEF Known, Stays
<1>3. \A c \in Conns : Same(c)
  BY <1>1, <1>2 DEF Same, Stays
<1>4. QED
  BY <1>1, <1>3, SameMoves

\* which are these.
LEMMA StaysSteps ==
  ASSUME TypeOK, ThreadOK,
         \/ \E c \in Conns : Connect(c) \/ Read(c)
         \/ EpollWait \/ QueueDone \/ TakeForNobody \/ Take \/ Flush \/ SendDataToClient
         \/ LogicPush \/ LogicPut \/ UNCHANGED vars
  PROVE  Stays
<1>1. ASSUME NEW c \in Conns, Connect(c)
      PROVE  Stays
  <2>1. client' = [client EXCEPT ![c] = "open"] /\ client[c] = "idle"
    BY <1>1 DEF Connect
  <2>2. \A d \in Conns :
          client'[d] = client[d] \/ (client[d] = "idle" /\ client'[d] = "open")
    BY <2>1 DEF TypeOK
  <2>3. UNCHANGED <<m_mOnlineClient, sock, recvBuf, up, sent, toLogic>>
    BY <1>1 DEF Connect, asked, table, buffers
  <2>4. QED
    BY <2>2, <2>3 DEF Stays
<1>2. ASSUME NEW c \in Conns, Read(c)
      PROVE  Stays
  BY <1>2 DEF Read, asked, table, buffers, Stays
<1>3. ASSUME EpollWait \/ QueueDone \/ Take \/ Flush \/ SendDataToClient
      PROVE  Stays
  <2>1. UNCHANGED <<m_mOnlineClient, sock, recvBuf, up, sent, toLogic, client>>
    BY <1>3 DEF EpollWait, QueueDone, Take, Flush, SendDataToClient, clients, asked, table, buffers
  <2>2. QED
    BY <2>1 DEF Stays
<1>4. CASE TakeForNobody
  <2>1. /\ TellExit(Head(toConnect)) /\ toConnect # <<>>
        /\ UNCHANGED <<m_mOnlineClient, sock, recvBuf, up, sent, client>>
    BY <1>4 DEF TakeForNobody, clients, asked, table, buffers
  <2>2. Head(toConnect) \in Slots
    BY <2>1, QueueTypes DEF TypeOK
  <2>3. QED
    BY <2>1, <2>2 DEF Stays
<1>5. ASSUME LogicPush \/ LogicPut \/ UNCHANGED vars
      PROVE  Stays
  <2>1. UNCHANGED <<m_mOnlineClient, sock, recvBuf, up, sent, toLogic, client>>
    BY <1>5 DEF LogicPush, LogicPut, clients, asked, table, buffers, vars
  <2>2. QED
    BY <2>1 DEF Stays
<1>6. QED
  BY <1>1, <1>2, <1>3, <1>4, <1>5
-----------------------------------------------------------------------------
\* A sequence of which the end is cut off.
LEMMA ShorterEnd ==
  ASSUME NEW a \in Seq(AllUnits), NEW b \in Seq(AllUnits), NEW k \in 0 .. Len(b)
  PROVE  /\ a \o SubSeq(b, 1, k) \in Seq(AllUnits)
         /\ Len(a \o SubSeq(b, 1, k)) <= Len(a \o b)
         /\ \A i \in 1 .. Len(a \o SubSeq(b, 1, k)) : (a \o SubSeq(b, 1, k))[i] = (a \o b)[i]
<1> DEFINE d == SubSeq(b, 1, k)
           v == a \o d
           w == a \o b
           m == Len(a)
<1>1. d \in Seq(AllUnits) /\ Len(d) = k /\ \A i \in 1 .. k : d[i] = b[i]
  BY PieceType
<1> HIDE DEF d
<1>2. /\ v \in Seq(AllUnits) /\ Len(v) = m + Len(d)
      /\ \A i \in 1 .. m : v[i] = a[i]
      /\ \A i \in 1 .. Len(d) : v[m + i] = d[i]
  BY <1>1, Behind
<1>3. /\ Len(w) = m + Len(b)
      /\ \A i \in 1 .. m : w[i] = a[i]
      /\ \A i \in 1 .. Len(b) : w[m + i] = b[i]
      /\ m \in Nat /\ Len(b) \in Nat
  BY Behind
<1> HIDE DEF v, w, m
<1>4. ASSUME NEW i \in 1 .. Len(v)
      PROVE  v[i] = w[i]
  <2>1. CASE i \in 1 .. m
    BY <1>2, <1>3, <2>1
  <2>2. CASE i \notin 1 .. m
    <3>1. PICK j \in 1 .. k : i = m + j
      <4>1. i - m \in 1 .. k /\ i = m + (i - m)
        BY <1>1, <1>2, <1>3, <2>2
      <4>2. QED
        BY <4>1
    <3>2. j \in 1 .. Len(d) /\ j \in 1 .. Len(b)
      BY <1>1, <1>3
    <3>3. QED
      BY <1>1, <1>2, <1>3, <3>1, <3>2
  <2>3. QED
    BY <2>1, <2>2
<1>5. Len(v) <= Len(w)
  BY <1>1, <1>2, <1>3
<1>6. QED
  BY <1>2, <1>4, <1>5 DEF v, w, d

\* Two ends, of which the first is joined again.
LEMMA CutJoin ==
  ASSUME NEW S, NEW q \in Seq(S), NEW k \in 0 .. Len(q)
  PROVE  SubSeq(q, 1, k) \o SubSeq(q, k + 1, Len(q)) = q
<1> DEFINE a == SubSeq(q, 1, k)
           b == SubSeq(q, k + 1, Len(q))
           v == a \o b
<1>1. /\ a \in Seq(S) /\ Len(a) = k /\ \A i \in 1 .. k : a[i] = q[i]
      /\ b \in Seq(S) /\ Len(b) = Len(q) - k /\ \A i \in 1 .. Len(q) - k : b[i] = q[k + i]
      /\ Len(q) \in Nat
  BY CutFacts
<1> HIDE DEF a, b
<1>2. /\ v \in Seq(S) /\ Len(v) = Len(a) + Len(b)
      /\ \A i \in 1 .. Len(a) : v[i] = a[i]
      /\ \A i \in 1 .. Len(b) : v[Len(a) + i] = b[i]
  BY <1>1, ConcatFacts
<1> HIDE DEF v
<1>3. ASSUME NEW i \in 1 .. Len(q)
      PROVE  v[i] = q[i]
  <2>1. CASE i \in 1 .. k
    BY <1>1, <1>2, <2>1
  <2>2. CASE i \notin 1 .. k
    <3>1. PICK j \in 1 .. Len(q) - k : i = k + j
      <4>1. i - k \in 1 .. Len(q) - k /\ i = k + (i - k)
        BY <1>1, <2>2
      <4>2. QED
        BY <4>1
    <3>2. v[Len(a) + j] = b[j] /\ b[j] = q[k + j]
      BY <1>1, <1>2
    <3>3. QED
      BY <1>1, <3>1, <3>2
  <2>3. QED
    BY <2>1, <2>2
<1>4. v = [i \in 1 .. Len(q) |-> v[i]] /\ q = [i \in 1 .. Len(q) |-> q[i]]
  BY <1>1, <1>2
<1>5. v = q
  BY <1>3, <1>4
<1>6. QED
  BY <1>5 DEF v, a, b

\* A joined sequence falls into the two it was joined of.
LEMMA JoinCut ==
  ASSUME NEW S, NEW x \in Seq(S), NEW y \in Seq(S)
  PROVE  /\ SubSeq(x \o y, 1, Len(x)) = x
         /\ SubSeq(x \o y, Len(x) + 1, Len(x \o y)) = y
         /\ Len(x) \in 0 .. Len(x \o y)
<1> DEFINE w == x \o y
           k == Len(x)
           a == SubSeq(w, 1, k)
           b == SubSeq(w, k + 1, Len(w))
<1>1. /\ w \in Seq(S) /\ Len(w) = k + Len(y)
      /\ \A i \in 1 .. k : w[i] = x[i]
      /\ \A i \in 1 .. Len(y) : w[k + i] = y[i]
      /\ k \in Nat /\ Len(y) \in Nat
  BY ConcatFacts
<1> HIDE DEF w, k
<1>2. k \in 0 .. Len(w) /\ Len(w) - k = Len(y)
  BY <1>1
<1>3. /\ a \in Seq(S) /\ Len(a) = k /\ \A i \in 1 .. k : a[i] = w[i]
      /\ b \in Seq(S) /\ Len(b) = Len(y) /\ \A i \in 1 .. Len(y) : b[i] = w[k + i]
  BY <1>1, <1>2, CutFacts
<1> HIDE DEF a, b
<1>4. a = x
  <2>1. Len(a) = Len(x) /\ \A i \in 1 .. Len(a) : a[i] = x[i]
    BY <1>1, <1>3 DEF k
  <2>2. QED
    BY <1>3, <2>1, SeqEqual
<1>5. b = y
  <2>1. Len(b) = Len(y) /\ \A i \in 1 .. Len(b) : b[i] = y[i]
    BY <1>1, <1>3
  <2>2. QED
    BY <1>3, <2>1, SeqEqual
<1>6. QED
  BY <1>2, <1>4, <1>5 DEF a, b, w, k

\* The end of what is on the way is lost with the connection.
LEMMA CutMoves ==
  ASSUME TypeOK, SlotsSound, TypeOK', NEW c \in Conns, InRing(c)' = InRing(c),
         client'[c] = "closed",
         \/ /\ Received(c)' = Received(c)
            /\ \E k \in 0 .. Len(up[c]) : up'[c] = SubSeq(up[c], 1, k)
         \/ Received(c)' = <<>> /\ up'[c] = <<>>
  PROVE  Moved(c)
<1> DEFINE r == InRing(c)
           b == Received(c)
           u == up[c]
           a == r \o b
           v == Way(c)'
           w == Way(c)
<1>1. r \in Seq(AllUnits) /\ b \in Seq(AllUnits) /\ u \in Seq(AllUnits)
  BY WayTypes
<1>2. w = a \o u
  BY DEF Way
<1>3. v = r \o Received(c)' \o up'[c]
  BY DEF Way
<1> HIDE DEF r, b, u, v, w
<1>4. a \in Seq(AllUnits) /\ Len(a) = Len(r) + Len(b) /\ \A i \in 1 .. Len(r) : a[i] = r[i]
  BY <1>1, Behind
<1>5. /\ Len(w) = Len(a) + Len(u) /\ Len(a) \in Nat /\ Len(u) \in Nat
      /\ \A i \in 1 .. Len(a) : w[i] = a[i]
  BY <1>1, <1>2, <1>4, Behind
<1>6. Len(r) \in Nat /\ Len(b) \in Nat
  BY <1>1, LenProperties
<1> DEFINE Less == v \in Seq(AllUnits) /\ Len(v) <= Len(w) /\ \A i \in 1 .. Len(v) : v[i] = w[i]
<1>7. ASSUME Received(c)' = b, NEW k \in 0 .. Len(u), up'[c] = SubSeq(u, 1, k)
      PROVE  Less
  <2>1. v = a \o SubSeq(u, 1, k)
    BY <1>3, <1>7
  <2> HIDE DEF a
  <2>2. QED
    BY <1>1, <1>2, <1>4, <2>1, ShorterEnd
<1>8. ASSUME Received(c)' = <<>>, up'[c] = <<>>
      PROVE  Less
  <2>1. v = r
    BY <1>1, <1>3, <1>8, ConcatEmptySeq
  <2> HIDE DEF a
  <2>2. QED
    BY <1>1, <1>4, <1>5, <1>6, <2>1
<1>9. Less
  BY <1>7, <1>8 DEF b, u
<1>10. Cut(c)
  BY <1>9 DEF Cut, v, w
<1>11. QED
  BY <1>10, RingTypeNext DEF Moved, RingMoved
-----------------------------------------------------------------------------
\* SendRequest puts a request behind all the others of its connection.
LEMMA SendMoves ==
  ASSUME Known, SlotsSound', TypeOK', NEW d \in Conns, SendRequest(d)
  PROVE  RingWhole' /\ \A c \in Conns : Moved(c)
<1>1. /\ client[d] = "open" /\ requests < MaxRequests
      /\ sent' = [sent EXCEPT ![d] = @ + 1]
      /\ up' = [up EXCEPT ![d] = @ \o Units(d, sent[d] + 1)]
      /\ UNCHANGED <<client, m_mOnlineClient, sock, recvBuf, toLogic>>
  BY DEF SendRequest, table, buffers
<1>2. TypeOK /\ SlotsSound /\ RingWhole
  BY DEF Known, WaysOK
<1>3. /\ sent \in [Conns -> 0 .. MaxRequests] /\ up \in [Conns -> Seq(AllUnits)]
      /\ sent[d] <= requests /\ requests \in Nat /\ MaxRequests \in Nat
  <2>1. /\ sent \in [Conns -> 0 .. MaxRequests] /\ up \in [Conns -> Seq(AllUnits)]
        /\ requests \in 0 .. MaxRequests
    BY <1>2 DEF TypeOK
  <2>2. sent[d] <= requests
    BY DEF Known, ThreadOK
  <2>3. QED
    BY <2>1, <2>2, Constants
<1>4. RingWhole' /\ (\A c : InRing(c)' = InRing(c)) /\ (\A c : Received(c)' = Received(c))
  BY <1>1, <1>2, RingStays, ReceivedStays
<1>5. ASSUME NEW c \in Conns, c # d
      PROVE  Moved(c)
  <2>1. up'[c] = up[c] /\ sent'[c] = sent[c]
    BY <1>1, <1>3, <1>5
  <2>2. Same(c)
    BY <1>1, <1>4, <2>1 DEF Same
  <2>3. QED
    BY <2>2, SameMoves
<1>6. Moved(d)
  <2> DEFINE n == sent[d] + 1
             a == InRing(d) \o Received(d)
             u == up[d]
             x == Units(d, n)
             T == Seq(AllUnits)
  <2>1. n \in 1 .. MaxRequests /\ sent'[d] = n /\ up'[d] = u \o x
    BY <1>1, <1>3
  <2>2. x \in T
    BY <2>1, UnitsType
  <2>3. InRing(d) \in T /\ Received(d) \in T /\ u \in T
    BY <1>2, WayTypes
  <2>4. a \in T
    BY <2>3, Behind
  <2>5. Way(d)' = a \o (u \o x) /\ Way(d) = a \o u
    BY <1>4, <2>1 DEF Way
  <2> HIDE DEF a, u, x
  <2>6. Associative(T)
    BY Associates
  <2> HIDE DEF T
  <2>7. (a \o u) \o x = a \o (u \o x)
    BY <2>2, <2>3, <2>4, <2>6, Zenon DEF Associative
  <2>8. Asked(d)
    BY <1>1, <2>1, <2>5, <2>7 DEF Asked, x
  <2>9. QED
    BY <1>4, <2>8, RingTypeNext DEF Moved, RingMoved
<1>7. QED
  BY <1>4, <1>5, <1>6

\* Close loses the end of what is on the way.
LEMMA CloseMoves ==
  ASSUME Known, SlotsSound', TypeOK', NEW d \in Conns, Close(d)
  PROVE  RingWhole' /\ \A c \in Conns : Moved(c)
<1>1. /\ client' = [client EXCEPT ![d] = "closed"]
      /\ UNCHANGED <<sent, m_mOnlineClient, sock, recvBuf, toLogic>>
  BY DEF Close, asked, table, buffers
<1>2. PICK k \in 0 .. Len(up[d]) : up' = [up EXCEPT ![d] = SubSeq(@, 1, k)]
  BY DEF Close
<1>3. TypeOK /\ SlotsSound /\ RingWhole
  BY DEF Known, WaysOK
<1>4. up \in [Conns -> Seq(AllUnits)] /\ client \in [Conns -> {"idle", "open", "closed"}]
  BY <1>3 DEF TypeOK
<1>5. RingWhole' /\ (\A c : InRing(c)' = InRing(c)) /\ (\A c : Received(c)' = Received(c))
  BY <1>1, <1>3, RingStays, ReceivedStays
<1>6. ASSUME NEW c \in Conns, c # d
      PROVE  Moved(c)
  <2>1. up'[c] = up[c] /\ client'[c] = client[c]
    BY <1>1, <1>2, <1>4, <1>6
  <2>2. Same(c)
    BY <1>1, <1>5, <2>1 DEF Same
  <2>3. QED
    BY <2>2, SameMoves
<1>7. Moved(d)
  <2>1. client'[d] = "closed" /\ up'[d] = SubSeq(up[d], 1, k)
    BY <1>1, <1>2, <1>4
  <2>2. QED
    BY <1>3, <1>5, <2>1, CutMoves
<1>8. QED
  BY <1>5, <1>6, <1>7

\* Accept gives the connection an object with an empty buffer, or closes it.
LEMMA AcceptFacts ==
  ASSUME TypeOK, SlotsSound, UnitsKnown, SlotsSound', NEW d \in backlog, Accept(d)
  PROVE  /\ d \in Conns /\ Received(d) = <<>> /\ UNCHANGED <<sent, toLogic>>
         /\ \A c \in Conns : Received(c)' = Received(c)
         /\ \/ UNCHANGED <<client, up>>
            \/ client' = [client EXCEPT ![d] = "closed"] /\ up' = [up EXCEPT ![d] = <<>>]
<1>1. UNCHANGED <<sent, recvBuf, toLogic>>
  BY DEF Accept, asked, buffers
<1>2. d \in Conns
  BY DEF TypeOK
<1>3. \A t \in m_mOnlineClient : sock[t] # d
  <2>1. ASSUME NEW t \in m_mOnlineClient
        PROVE  sock[t] # d
    <3>1. t \in Slots /\ sock[t] \in Conns
      BY DEF TypeOK, SlotsSound
    <3>2. sock[t] \in Past
      BY <3>1, Constants DEF UnitsKnown, SockKnown
    <3>3. QED
      BY <3>2 DEF Past
  <2>2. QED
    BY <2>1
<1>4. Received(d) = <<>>
  BY <1>3, ReceivedIs DEF Holds
<1>5. CASE m_lFreeList = <<>>
  <2>1. /\ client' = [client EXCEPT ![d] = "closed"] /\ up' = [up EXCEPT ![d] = <<>>]
        /\ UNCHANGED <<m_mOnlineClient, sock>>
    BY <1>5 DEF Accept, table
  <2>2. \A c : Received(c)' = Received(c)
    BY <1>1, <2>1, ReceivedStays
  <2>3. QED
    BY <1>1, <1>2, <1>4, <2>1, <2>2
<1>6. CASE m_lFreeList # <<>>
  <2>0. PICK s : s = Head(m_lFreeList)
    OBVIOUS
  <2>1. /\ m_mOnlineClient' = m_mOnlineClient \cup {s} /\ sock' = [sock EXCEPT ![s] = d]
        /\ UNCHANGED <<client, up>>
    BY <1>6, <2>0 DEF Accept
  <2>2. m_lFreeList \in Seq(Slots)
    BY DEF TypeOK
  <2>3. s \in Slots /\ s = m_lFreeList[1] /\ Len(m_lFreeList) > 0
    BY <1>6, <2>0, <2>2, QueueTypes
  <2>4. s \notin m_mOnlineClient
    <3>1. 1 \in DOMAIN m_lFreeList
      BY <2>2, <2>3
    <3>2. s \in Range(m_lFreeList)
      BY <2>3, <3>1 DEF Range
    <3>3. QED
      BY <3>2 DEF SlotsSound
  <2>5. sock \in [Slots -> Conns \cup {NoConn}] /\ recvBuf \in [Slots -> Seq(AllUnits)]
    BY DEF TypeOK
  <2>6. sock'[s] = d /\ \A t \in m_mOnlineClient : sock'[t] = sock[t]
    <3>1. m_mOnlineClient \subseteq Slots
      BY DEF TypeOK
    <3>2. QED
      BY <2>1, <2>3, <2>4, <2>5, <3>1
  <2>7. ASSUME NEW c \in Conns, c # d
        PROVE  Received(c)' = Received(c)
    <3>1. \A t : Holds(t, c)' <=> Holds(t, c)
      BY <2>1, <2>4, <2>6, <2>7 DEF Holds
    <3>2. QED
      BY <1>1, <3>1, ReceivedSame
  <2>8. Received(d)' = <<>>
    <3>1. s \in m_mOnlineClient' /\ Holds(s, d)'
      BY <2>1, <2>6 DEF Holds
    <3>2. Received(d)' = recvBuf'[s]
      BY <3>1, ReceivedNext
    <3>3. recvBuf[s] \in Seq(AllUnits) /\ \A i \in 1 .. Len(recvBuf[s]) : FALSE
      BY <2>3, <2>4, <2>5 DEF UnitsKnown, RecvKnown, UnitsOwn, Accept, At
    <3>4. recvBuf[s] = <<>>
      <4>1. Len(recvBuf[s]) \in Nat /\ ~(1 \in 1 .. Len(recvBuf[s]))
        BY <3>3, LenProperties
      <4>2. Len(recvBuf[s]) = 0
        BY <4>1
      <4>3. QED
        BY <3>3, <4>2, EmptySeq
    <3>5. QED
      BY <1>1, <3>2, <3>4
  <2>9. QED
    BY <1>1, <1>2, <1>4, <2>1, <2>7, <2>8
<1>7. QED
  BY <1>5, <1>6

\* which moves nothing, or the end of the connection.
LEMMA AcceptMoves ==
  ASSUME Known, SlotsSound', TypeOK', NEW d \in backlog, Accept(d)
  PROVE  RingWhole' /\ \A c \in Conns : Moved(c)
<1>1. TypeOK /\ SlotsSound /\ RingWhole /\ UnitsKnown
  BY DEF Known, WaysOK
<1>2. /\ d \in Conns /\ UNCHANGED <<sent, toLogic>>
      /\ \A c \in Conns : Received(c)' = Received(c)
      /\ \/ UNCHANGED <<client, up>>
         \/ client' = [client EXCEPT ![d] = "closed"] /\ up' = [up EXCEPT ![d] = <<>>]
  BY <1>1, AcceptFacts
<1>3. up \in [Conns -> Seq(AllUnits)] /\ client \in [Conns -> {"idle", "open", "closed"}]
  BY <1>1 DEF TypeOK
<1>4. RingWhole' /\ \A c : InRing(c)' = InRing(c)
  BY <1>1, <1>2, RingStays
<1>5. ASSUME NEW c \in Conns, up'[c] = up[c], client'[c] = client[c]
      PROVE  Moved(c)
  <2>1. Same(c)
    BY <1>2, <1>4, <1>5 DEF Same
  <2>2. QED
    BY <2>1, SameMoves
<1>6. CASE UNCHANGED <<client, up>>
  BY <1>4, <1>5, <1>6
<1>7. CASE client' = [client EXCEPT ![d] = "closed"] /\ up' = [up EXCEPT ![d] = <<>>]
  <2>1. client'[d] = "closed" /\ up'[d] = <<>> /\ up[d] \in Seq(AllUnits)
    BY <1>2, <1>3, <1>7
  <2>2. SubSeq(up[d], 1, 0) = <<>> /\ 0 \in 0 .. Len(up[d])
    BY <2>1
  <2>3. \E k \in 0 .. Len(up[d]) : up'[d] = SubSeq(up[d], 1, k)
    BY <2>1, <2>2
  <2>4. Moved(d)
    BY <1>1, <1>2, <1>4, <2>1, <2>3, CutMoves
  <2>5. \A c \in Conns : c # d => up'[c] = up[c] /\ client'[c] = client[c]
    BY <1>3, <1>7
  <2>6. QED
    BY <1>4, <1>5, <2>4, <2>5
<1>8. QED
  BY <1>2, <1>6, <1>7

\* Leave takes the object of a connection that has ended, or one without.
LEMMA LeaveFacts ==
  ASSUME TypeOK, SlotsSound, SlotsSound', NEW s \in Served, Leave(s), MayFail(s)
  PROVE  \/ UNCHANGED up /\ \A c : Received(c)' = Received(c)
         \/ \E d \in Conns :
              /\ client[d] = "closed" /\ up' = [up EXCEPT ![d] = <<>>] /\ Received(d)' = <<>>
              /\ \A c \in Conns : c # d => Received(c)' = Received(c)
<1>1. s \in Slots /\ s # ListenSlot /\ sock[s] \in Conns
  BY DEF Served
<1>2. CASE s \notin m_bUsed
  <2>1. UNCHANGED <<m_mOnlineClient, sock, recvBuf, up>>
    BY <1>2 DEF Leave, ClientExit, table, buffers
  <2>2. QED
    BY <2>1, ReceivedStays
<1>3. CASE s \in m_bUsed
  <2>1. PICK d \in Conns : d = sock[s]
    BY <1>1
  <2>2. /\ m_mOnlineClient' = m_mOnlineClient \ {s} /\ sock' = sock
        /\ recvBuf' = [recvBuf EXCEPT ![s] = <<>>] /\ up' = [up EXCEPT ![d] = <<>>]
    BY <1>3, <2>1 DEF Leave, ClientExit
  <2>3. s \in m_mOnlineClient /\ client[d] = "closed"
    BY <1>1, <1>3, <2>1 DEF SlotsSound, MayFail
  <2>4. recvBuf \in [Slots -> Seq(AllUnits)] /\ m_mOnlineClient \subseteq Slots
    BY DEF TypeOK
  <2>5. \A t \in m_mOnlineClient : sock[t] = d => t = s
    BY <2>1, <2>3 DEF SlotsSound
  <2>6. ASSUME NEW c \in Conns, c # d
        PROVE  Received(c)' = Received(c)
    <3>1. \A t : Holds(t, c)' <=> Holds(t, c)
      BY <2>1, <2>2, <2>6 DEF Holds
    <3>2. \A t \in m_mOnlineClient : Holds(t, c) => recvBuf'[t] = recvBuf[t]
      BY <2>1, <2>2, <2>4, <2>6 DEF Holds
    <3>3. QED
      BY <3>1, <3>2, ReceivedSame
  <2>7. Received(d)' = <<>>
    <3>1. \A t \in m_mOnlineClient' : ~Holds(t, d)'
      BY <2>2, <2>5 DEF Holds
    <3>2. QED
      BY <3>1, ReceivedNext
  <2>8. QED
    BY <2>2, <2>3, <2>6, <2>7
<1>4. QED
  BY <1>2, <1>3

\* and with it what was on the way.
LEMMA LeaveMoves ==
  ASSUME Known, SlotsSound', TypeOK', NEW s \in Served, Leave(s), MayFail(s),
         UNCHANGED <<client, sent>>
  PROVE  RingWhole' /\ \A c \in Conns : Moved(c)
<1>1. TypeOK /\ SlotsSound /\ RingWhole /\ s \in Slots
  BY DEF Known, WaysOK, Served
<1>2. RingWhole' /\ \A c : InRing(c)' = InRing(c)
  BY <1>1, RingStays DEF Leave
<1>3. up \in [Conns -> Seq(AllUnits)]
  BY <1>1 DEF TypeOK
<1>4. ASSUME NEW c \in Conns, up'[c] = up[c], Received(c)' = Received(c)
      PROVE  Moved(c)
  <2>1. Same(c)
    BY <1>2, <1>4 DEF Same
  <2>2. QED
    BY <2>1, SameMoves
<1>5. ASSUME NEW d \in Conns, client[d] = "closed", up' = [up EXCEPT ![d] = <<>>],
             Received(d)' = <<>>, \A c \in Conns : c # d => Received(c)' = Received(c)
      PROVE  RingWhole' /\ \A c \in Conns : Moved(c)
  <2>1. up'[d] = <<>> /\ client'[d] = "closed"
    BY <1>3, <1>5
  <2>2. Moved(d)
    BY <1>1, <1>2, <1>5, <2>1, CutMoves
  <2>3. \A c \in Conns : c # d => up'[c] = up[c]
    BY <1>3, <1>5
  <2>4. QED
    BY <1>2, <1>4, <1>5, <2>2, <2>3
<1>6. QED
  BY <1>1, <1>2, <1>4, <1>5, LeaveFacts
-----------------------------------------------------------------------------
\* Recv moves the beginning of what is on the way behind what was received.
LEMMA RecvFacts ==
  ASSUME TypeOK, SlotsSound, ThreadOK, SlotsSound', NEW s \in Slots, Recv(s)
  PROVE  /\ UNCHANGED <<client, sent, toLogic>>
         /\ \E d \in Conns : \E k \in 1 .. Len(up[d]) :
              /\ Received(d)' = Received(d) \o SubSeq(up[d], 1, k)
              /\ up'[d] = SubSeq(up[d], k + 1, Len(up[d]))
              /\ \A c \in Conns : c # d => Received(c)' = Received(c) /\ up'[c] = up[c]
<1>1. /\ s \in run.events /\ s # ListenSlot
      /\ UNCHANGED <<client, sent, m_mOnlineClient, sock, toLogic>>
  BY DEF Recv, asked, table
<1>2. s \in m_mOnlineClient /\ sock[s] \in Conns
  <2>1. s \in m_bUsed
    BY <1>1 DEF ThreadOK
  <2>2. QED
    BY <1>1, <2>1 DEF SlotsSound
<1>3. PICK d \in Conns : d = sock[s]
  BY <1>2
<1>4. PICK k \in 1 .. Len(up[d]) :
        /\ recvBuf' = [recvBuf EXCEPT ![s] = recvBuf[s] \o SubSeq(up[d], 1, k)]
        /\ up' = [up EXCEPT ![d] = SubSeq(@, k + 1, Len(@))]
  BY <1>3 DEF Recv
<1>5. /\ up \in [Conns -> Seq(AllUnits)] /\ recvBuf \in [Slots -> Seq(AllUnits)]
      /\ m_mOnlineClient \subseteq Slots
  BY DEF TypeOK
<1>6. \A c : \A t : Holds(t, c)' <=> Holds(t, c)
  BY <1>1 DEF Holds
<1>7. ASSUME NEW c \in Conns, c # d
      PROVE  Received(c)' = Received(c) /\ up'[c] = up[c]
  <2>1. \A t \in m_mOnlineClient : Holds(t, c) => recvBuf'[t] = recvBuf[t]
    BY <1>3, <1>4, <1>5, <1>7 DEF Holds
  <2>2. Received(c)' = Received(c)
    BY <1>6, <2>1, ReceivedSame
  <2>3. QED
    BY <1>4, <1>5, <1>7, <2>2
<1>8. Received(d)' = Received(d) \o SubSeq(up[d], 1, k)
  <2>1. recvBuf'[s] = recvBuf[s] \o SubSeq(up[d], 1, k)
    BY <1>4, <1>5
  <2>2. Holds(s, d) /\ Holds(s, d)' /\ s \in m_mOnlineClient'
    BY <1>1, <1>2, <1>3 DEF Holds
  <2>3. Received(d) = recvBuf[s]
    BY <1>2, <2>2, ReceivedIs
  <2>4. Received(d)' = recvBuf'[s]
    BY <2>2, ReceivedNext
  <2>5. QED
    BY <2>1, <2>3, <2>4
<1>9. up'[d] = SubSeq(up[d], k + 1, Len(up[d]))
  BY <1>4, <1>5
<1>10. QED
  BY <1>1, <1>7, <1>8, <1>9

LEMMA RecvMoves ==
  ASSUME Known, SlotsSound', TypeOK', NEW s \in Slots, Recv(s)
  PROVE  RingWhole' /\ \A c \in Conns : Moved(c)
<1>1. TypeOK /\ SlotsSound /\ RingWhole /\ ThreadOK
  BY DEF Known, WaysOK
<1>2. UNCHANGED <<client, sent, toLogic>>
  BY <1>1, RecvFacts
<1>3. PICK d \in Conns : \E k \in 1 .. Len(up[d]) :
        /\ Received(d)' = Received(d) \o SubSeq(up[d], 1, k)
        /\ up'[d] = SubSeq(up[d], k + 1, Len(up[d]))
        /\ \A c \in Conns : c # d => Received(c)' = Received(c) /\ up'[c] = up[c]
  BY <1>1, RecvFacts
<1>4. RingWhole' /\ \A c : InRing(c)' = InRing(c)
  BY <1>1, <1>2, RingStays
<1>5. ASSUME NEW c \in Conns, c # d
      PROVE  Moved(c)
  <2>1. Same(c)
    BY <1>2, <1>3, <1>4, <1>5 DEF Same
  <2>2. QED
    BY <2>1, SameMoves
<1>6. Moved(d)
  <2>1. PICK k \in 1 .. Len(up[d]) :
          /\ Received(d)' = Received(d) \o SubSeq(up[d], 1, k)
          /\ up'[d] = SubSeq(up[d], k + 1, Len(up[d]))
    BY <1>3
  <2> DEFINE u == up[d]
             b == Received(d)
             p == SubSeq(u, 1, k)
             q == SubSeq(u, k + 1, Len(u))
             r == InRing(d)
             T == Seq(AllUnits)
  <2>2. Way(d) = (r \o b) \o u /\ Way(d)' = (r \o (b \o p)) \o q
    BY <1>4, <2>1 DEF Way
  <2>3. r \in T /\ u \in T /\ b \in T /\ k \in 0 .. Len(u)
    BY <1>1, WayTypes
  <2>4. p \in T /\ q \in T
    BY <2>3, PieceType
  <2>5. p \o q = u
    BY <2>3, CutJoin
  <2>6. r \o b \in T
    BY <2>3, Behind
  <2> HIDE DEF u, b, p, q, r
  <2>7. Associative(T)
    BY Associates
  <2> HIDE DEF T
  <2>8. r \o (b \o p) = (r \o b) \o p
    BY <2>3, <2>4, <2>7, Zenon DEF Associative
  <2>9. ((r \o b) \o p) \o q = (r \o b) \o (p \o q)
    BY <2>4, <2>6, <2>7, Zenon DEF Associative
  <2>10. Way(d)' = Way(d)
    BY <2>2, <2>5, <2>8, <2>9
  <2>11. Kept(d)
    BY <1>2, <2>10 DEF Kept
  <2>12. QED
    BY <1>4, <2>11, RingTypeNext DEF Moved, RingMoved
<1>7. QED
  BY <1>4, <1>5, <1>6

\* The units received begin with a whole request when there are enough.
LEMMA FirstWhole ==
  ASSUME Known, NEW c \in Conns, NEW b \in Seq(AllUnits), Received(c) = b, Len(b) >= Parts
  PROVE  \E n \in 1 .. MaxRequests : SubSeq(b, 1, Parts) = Units(c, n) /\ b[1] = Unit(c, n, 1)
<1> DEFINE r == InRing(c)
           u == up[c]
           T == Seq(AllUnits)
<1>1. InOrder(c) /\ TypeOK /\ SlotsSound
  BY DEF Known, WaysOK
<1>2. r \in T /\ u \in T
  BY <1>1, WayTypes
<1>3. Run(c, (r \o b) \o u) /\ (Len(r) > 0 => r[Len(r)].part = Parts)
  BY <1>1 DEF InOrder, Way
<1> HIDE DEF r, u
<1>4. Associative(T)
  BY Associates
<1> HIDE DEF T
<1>5. (r \o b) \o u = r \o (b \o u)
  BY <1>2, <1>4, Zenon DEF Associative, T
<1> USE DEF T
<1>6. b \o u \in T /\ Len(b \o u) >= Len(b) /\ \A i \in 1 .. Len(b) : (b \o u)[i] = b[i]
  BY <1>2, Behind
<1>7. Run(c, r \o (b \o u))
  BY <1>3, <1>5
<1> DEFINE x == b \o u
<1> HIDE DEF x
<1>8. Run(c, x)
  BY <1>2, <1>3, <1>6, <1>7, RunSuffix DEF x
<1>9. Run(c, b)
  BY <1>6, <1>8, RunPrefix DEF x
<1>10. QED
  BY <1>9, RunPart

\* Forward takes the whole request a connection's units begin with.
LEMMA ForwardFacts ==
  ASSUME Known, SlotsSound', Forward
  PROVE  \E s \in Slots, d \in Conns, n \in 1 .. MaxRequests :
           /\ toLogic' = Append(toLogic, Request(s, Units(d, n)))
           /\ UNCHANGED <<client, sent, up>>
           /\ \A c \in Conns : c # d => Received(c)' = Received(c)
           /\ Received(d)' \in Seq(AllUnits) /\ Received(d) = Units(d, n) \o Received(d)'
           /\ Received(d)[1] = Unit(d, n, 1)
<1>1. TypeOK /\ SlotsSound
  BY DEF Known
<1>2. PICK s \in Slots : s = run.slot
  BY <1>1 DEF TypeOK
<1>3. recvBuf \in [Slots -> Seq(AllUnits)] /\ m_mOnlineClient \subseteq Slots
  BY <1>1 DEF TypeOK
<1>4. PICK b \in Seq(AllUnits) : b = recvBuf[s]
  BY <1>3
<1>5. s \in m_mOnlineClient /\ Len(b) >= Parts /\ Len(b) \in Nat /\ Parts \in Nat /\ Parts > 0
  <2>1. At("forward")
    BY DEF Forward
  <2>2. s \in m_mOnlineClient /\ Len(b) >= Parts
    BY <1>2, <1>4, <2>1 DEF Known, ThreadOK
  <2>3. QED
    BY <2>2, Constants, LenProperties
<1>6. PICK d \in Conns : d = sock[s]
  BY <1>1, <1>5 DEF SlotsSound
<1>7. Holds(s, d) /\ Received(d) = b
  BY <1>1, <1>4, <1>5, <1>6, ReceivedIs DEF Holds
<1>8. PICK n \in 1 .. MaxRequests :
        SubSeq(b, 1, Parts) = Units(d, n) /\ b[1] = Unit(d, n, 1)
  BY <1>5, <1>7, FirstWhole
<1> DEFINE x == Units(d, n)
           rest == SubSeq(b, Parts + 1, Len(b))
<1>9. /\ toLogic' = Append(toLogic, Request(s, x)) /\ recvBuf' = [recvBuf EXCEPT ![s] = rest]
      /\ UNCHANGED <<client, sent, up, m_mOnlineClient, sock>>
  BY <1>2, <1>4, <1>8 DEF Forward, clients, asked, table
<1>10. Parts \in 0 .. Len(b)
  BY <1>5
<1>11. b = x \o rest /\ rest \in Seq(AllUnits)
  BY <1>8, <1>10, CutJoin, PieceType
<1> HIDE DEF rest
<1>12. \A c : \A t : Holds(t, c)' <=> Holds(t, c)
  BY <1>9 DEF Holds
<1>13. ASSUME NEW c \in Conns, c # d
       PROVE  Received(c)' = Received(c)
  <2>1. \A t \in m_mOnlineClient : Holds(t, c) => recvBuf'[t] = recvBuf[t]
    BY <1>3, <1>6, <1>9, <1>13 DEF Holds
  <2>2. QED
    BY <1>1, <1>12, <2>1, ReceivedSame
<1>14. Received(d)' = rest
  <2>1. Holds(s, d)' /\ s \in m_mOnlineClient' /\ recvBuf'[s] = rest
    BY <1>3, <1>5, <1>7, <1>9, <1>12
  <2>2. QED
    BY <2>1, ReceivedNext
<1>15. QED
  BY <1>7, <1>8, <1>9, <1>11, <1>13, <1>14

\* and puts it into the ring.
LEMMA ForwardMoves ==
  ASSUME Known, SlotsSound', TypeOK', Forward
  PROVE  RingWhole' /\ \A c \in Conns : Moved(c)
<1>1. TypeOK /\ SlotsSound /\ RingWhole
  BY DEF Known, WaysOK
<1>2. PICK s \in Slots, d \in Conns, n \in 1 .. MaxRequests :
        /\ toLogic' = Append(toLogic, Request(s, Units(d, n)))
        /\ UNCHANGED <<client, sent, up>>
        /\ \A c \in Conns : c # d => Received(c)' = Received(c)
        /\ Received(d)' \in Seq(AllUnits) /\ Received(d) = Units(d, n) \o Received(d)'
  BY ForwardFacts
<1> DEFINE x == Units(d, n)
           p == Request(s, x)
<1>3. x \in Seq(AllUnits) /\ x[1].conn = d
  <2>1. 1 \in 1 .. Parts
    BY Constants
  <2>2. QED
    BY <2>1, UnitsType
<1>4. p \in Packets /\ p.type = "request" /\ p.units = x
  BY <1>3 DEF Request, Packets
<1>5. /\ \A c : c # d => UnitsOf(c, p) = <<>>
      /\ UnitsOf(d, p) = x
  BY <1>3, <1>4 DEF UnitsOf
<1>6. x = Units(d, n) /\ toLogic' = Append(toLogic, p)
  BY <1>2
<1> HIDE DEF x, p
<1>7. RingWhole'
  <2>1. /\ Len(toLogic') = Len(toLogic) + 1 /\ toLogic'[Len(toLogic) + 1] = p
        /\ \A i \in 1 .. Len(toLogic) : toLogic'[i] = toLogic[i]
        /\ Len(toLogic) \in Nat
    BY <1>1, <1>4, <1>6, RingShape
  <2>2. ASSUME NEW i \in 1 .. Len(toLogic'), toLogic'[i].type = "request"
        PROVE  \E c \in Conns, m \in 1 .. MaxRequests : toLogic'[i].units = Units(c, m)
    <3>1. CASE i \in 1 .. Len(toLogic)
      BY <1>1, <2>1, <2>2, <3>1 DEF RingWhole
    <3>2. CASE i = Len(toLogic) + 1
      BY <1>4, <1>6, <2>1, <3>2
    <3>3. QED
      BY <2>1, <3>1, <3>2
  <2>3. QED
    BY <2>2 DEF RingWhole, Units, Unit
<1>8. ASSUME NEW c \in Conns, c # d
      PROVE  Moved(c)
  <2>1. InRing(c) \in Seq(AllUnits)
    BY <1>1, RingSeqType
  <2>2. InRing(c)' = InRing(c) \o <<>>
    BY <1>1, <1>4, <1>5, <1>6, <1>8, RingMoves
  <2>3. InRing(c)' = InRing(c)
    BY <2>1, <2>2, ConcatEmptySeq
  <2>4. Same(c)
    BY <1>2, <1>8, <2>3 DEF Same
  <2>5. QED
    BY <2>4, SameMoves
<1>9. Moved(d)
  <2> DEFINE r == InRing(d)
             u == up[d]
             rest == Received(d)'
             T == Seq(AllUnits)
  <2>1. r \in T /\ InRing(d)' = r \o x
    BY <1>1, <1>4, <1>5, <1>6, RingMoves, RingSeqType
  <2>2. Way(d) = (r \o (x \o rest)) \o u /\ Way(d)' = ((r \o x) \o rest) \o u
    BY <1>2, <1>6, <2>1 DEF Way
  <2>3. x \in T /\ rest \in T
    BY <1>2, <1>3
  <2> HIDE DEF r, u, rest
  <2>4. Associative(T)
    BY Associates
  <2> HIDE DEF T
  <2>5. (r \o x) \o rest = r \o (x \o rest)
    BY <2>1, <2>3, <2>4, Zenon DEF Associative
  <2>6. Way(d)' = Way(d)
    BY <2>2, <2>5
  <2>7. Kept(d)
    BY <1>2, <2>6 DEF Kept
  <2>8. RingMoved(d)
    BY <1>6, <2>1 DEF RingMoved, r
  <2>9. QED
    BY <2>7, <2>8, RingTypeNext DEF Moved
<1>10. QED
  BY <1>7, <1>8, <1>9

\* LogicTake takes a packet out of the ring.
LEMMA TakenMoves ==
  ASSUME Known, SlotsSound', TypeOK', LogicTake
  PROVE  RingWhole' /\ \A c \in Conns : Moved(c)
<1>1. TypeOK /\ SlotsSound /\ RingWhole
  BY DEF Known, WaysOK
<1>2. /\ toLogic # <<>> /\ toLogic' = Tail(toLogic)
      /\ UNCHANGED <<client, sent, up, m_mOnlineClient, sock, recvBuf>>
  BY DEF LogicTake, clients, asked, table, buffers
<1>3. /\ Len(toLogic) > 0 /\ Len(toLogic') = Len(toLogic) - 1 /\ Head(toLogic) = toLogic[1]
      /\ \A i \in 1 .. Len(toLogic) - 1 : toLogic'[i] = toLogic[i + 1]
      /\ Len(toLogic) \in Nat
      /\ \A i \in 1 .. Len(toLogic) : toLogic[i] \in Packets
  BY <1>1, <1>2, RingShape
<1>4. PICK p \in Packets : p = Head(toLogic)
  <2>1. 1 \in 1 .. Len(toLogic)
    BY <1>3
  <2>2. QED
    BY <1>3, <2>1
<1>5. RingWhole'
  <2>1. ASSUME NEW i \in 1 .. Len(toLogic'), toLogic'[i].type = "request"
        PROVE  \E c \in Conns, m \in 1 .. MaxRequests : toLogic'[i].units = Units(c, m)
    <3>1. i \in 1 .. Len(toLogic) - 1 /\ i + 1 \in 1 .. Len(toLogic)
      BY <1>3
    <3>2. toLogic'[i] = toLogic[i + 1]
      BY <1>3, <3>1
    <3>3. QED
      BY <1>1, <2>1, <3>1, <3>2 DEF RingWhole
  <2>2. QED
    BY <2>1 DEF RingWhole, Units, Unit
<1>6. \A c : Received(c)' = Received(c)
  BY <1>1, <1>2, ReceivedStays
<1>7. \A c : InRing(c) = UnitsOf(c, p) \o InRing(c)' /\ InRing(c)' \in Seq(AllUnits)
  BY <1>1, <1>2, <1>4, RingMoves, RingTypeNext
<1>8. ASSUME NEW c \in Conns, UnitsOf(c, p) = <<>>
      PROVE  Moved(c)
  <2>1. InRing(c)' = InRing(c)
    BY <1>7, <1>8, ConcatEmptySeq
  <2>2. Same(c)
    BY <1>2, <1>6, <2>1 DEF Same
  <2>3. QED
    BY <2>2, SameMoves
<1>9. ASSUME NEW c \in Conns, NEW n \in 1 .. MaxRequests, UnitsOf(c, p) = Units(c, n)
      PROVE  Moved(c)
  <2> DEFINE r == InRing(c)'
             b == Received(c)
             u == up[c]
             x == Units(c, n)
             T == Seq(AllUnits)
  <2>1. r \in T /\ InRing(c) = x \o r
    BY <1>7, <1>9
  <2>2. b \in T /\ u \in T
    BY <1>1, WayTypes
  <2>3. x \in T
    BY UnitsType
  <2>4. Way(c) = ((x \o r) \o b) \o u /\ Way(c)' = (r \o b) \o u
    BY <1>2, <1>6, <2>1 DEF Way
  <2>5. x = Units(c, n)
    OBVIOUS
  <2>6. RingMoved(c)
    BY <2>1 DEF RingMoved
  <2>7. r \o b \in T
    BY <2>1, <2>2, Behind
  <2> HIDE DEF r, b, u, x
  <2>8. (r \o b) \o u \in T
    BY <2>2, <2>7, Behind
  <2>9. Associative(T)
    BY Associates
  <2> HIDE DEF T
  <2>10. (x \o r) \o b = x \o (r \o b)
    BY <2>1, <2>2, <2>3, <2>9, Zenon DEF Associative
  <2>11. (x \o (r \o b)) \o u = x \o ((r \o b) \o u)
    BY <2>2, <2>3, <2>7, <2>9, Zenon DEF Associative
  <2>12. Way(c) = x \o Way(c)' /\ Way(c)' \in T
    BY <2>4, <2>8, <2>10, <2>11
  <2>13. Taken(c)
    BY <1>2, <2>5, <2>12 DEF Taken, T
  <2>14. QED
    BY <2>6, <2>13, RingTypeNext DEF Moved
<1>10. ASSUME NEW c \in Conns
       PROVE  UnitsOf(c, p) = <<>> \/ \E n \in 1 .. MaxRequests : UnitsOf(c, p) = Units(c, n)
  <2>1. CASE p.type = "request" /\ p.units[1].conn = c
    <3>1. 1 \in 1 .. Len(toLogic) /\ toLogic[1] = p
      BY <1>3, <1>4
    <3>2. PICK d \in Conns, n \in 1 .. MaxRequests : p.units = Units(d, n)
      BY <1>1, <2>1, <3>1 DEF RingWhole
    <3>3. 1 \in 1 .. Parts
      BY Constants
    <3>4. Units(d, n)[1].conn = d
      BY <3>3, UnitsType
    <3>5. UnitsOf(c, p) = Units(c, n)
      BY <2>1, <3>2, <3>4 DEF UnitsOf
    <3>6. QED
      BY <3>5
  <2>2. CASE ~(p.type = "request" /\ p.units[1].conn = c)
    BY <2>2 DEF UnitsOf
  <2>3. QED
    BY <2>1, <2>2
<1>11. QED
  BY <1>5, <1>8, <1>9, <1>10
-----------------------------------------------------------------------------
\* Objects are taken away on three paths, when recv or send has failed.
LEMMA LeaveCases ==
  ASSUME Known, ConnectStep, ~At("lost")',
         ~ \E c \in backlog : Accept(c), ~ \E s \in Slots : Recv(s), ~Forward,
         ~(EpollWait \/ QueueDone \/ TakeForNobody \/ Take \/ Flush \/ SendDataToClient)
  PROVE  \E s \in Served : Leave(s) /\ MayFail(s) /\ UNCHANGED <<client, sent>>
<1>0. TypeOK /\ SlotsSound /\ ThreadOK
  BY DEF Known
<1>1. ASSUME NEW s \in Slots, RecvEnd(s)
      PROVE  s \in Served /\ Leave(s) /\ MayFail(s) /\ UNCHANGED <<client, sent>>
  <2>1. s \in run.events /\ s # ListenSlot /\ Leave(s) /\ client[sock[s]] = "closed"
    BY <1>1 DEF RecvEnd
  <2>2. s \in m_bUsed
    BY <1>0, <2>1 DEF ThreadOK
  <2>3. sock[s] \in Conns
    BY <1>0, <2>1, <2>2 DEF SlotsSound
  <2>4. UNCHANGED <<client, sent>>
    BY <1>1 DEF RecvEnd, asked
  <2>5. QED
    BY <2>1, <2>3, <2>4 DEF Served, MayFail
<1>2. CASE FlushFails
  BY <1>0, <1>2 DEF FlushFails, ThreadOK, asked
<1>3. CASE SendFails
  <2>1. /\ vSendClients # <<>> /\ vSendClients \in Seq(Served)
        /\ Leave(Head(vSendClients)) /\ MayFail(Head(vSendClients)) /\ UNCHANGED <<client, sent>>
    BY <1>0, <1>3 DEF SendFails, ThreadOK, asked
  <2>2. Head(vSendClients) \in Served
    BY <2>1, QueueTypes
  <2>3. QED
    BY <2>1, <2>2
<1>4. \A s \in Slots : ~Overrun(s)
  BY LostSteps DEF Next
<1>5. QED
  BY <1>1, <1>2, <1>3, <1>4 DEF ConnectStep

\* Every step but Overrun moves the units of every connection in one of these
\* ways.
LEMMA NextMoves ==
  ASSUME Known, SlotsSound', TypeOK', Next \/ UNCHANGED vars, ~At("lost")'
  PROVE  RingWhole' /\ \A c \in Conns : Moved(c)
<1> DEFINE Goal == RingWhole' /\ \A c \in Conns : Moved(c)
<1>0. TypeOK /\ ThreadOK
  BY DEF Known
<1>1. ASSUME Stays
      PROVE  Goal
  BY <1>1, StaysMoves
<1>2. ASSUME NEW c \in Conns, ClientStep(c)
      PROVE  Goal
  <2>1. CASE SendRequest(c)
    BY <2>1, SendMoves
  <2>2. CASE Close(c)
    BY <2>2, CloseMoves
  <2>3. CASE Connect(c) \/ Read(c)
    BY <1>0, <1>1, <2>3, StaysSteps
  <2>4. QED
    BY <1>2, <2>1, <2>2, <2>3 DEF ClientStep
<1>3. CASE ConnectStep
  <2>1. ASSUME NEW c \in backlog, Accept(c)
        PROVE  Goal
    BY <2>1, AcceptMoves
  <2>2. ASSUME NEW s \in Slots, Recv(s)
        PROVE  Goal
    BY <2>2, RecvMoves
  <2>3. CASE Forward
    BY <2>3, ForwardMoves
  <2>4. CASE EpollWait \/ QueueDone \/ TakeForNobody \/ Take \/ Flush \/ SendDataToClient
    BY <1>0, <1>1, <2>4, StaysSteps
  <2>5. ASSUME NEW s \in Served, Leave(s), MayFail(s), UNCHANGED <<client, sent>>
        PROVE  Goal
    BY <2>5, LeaveMoves
  <2> HIDE DEF Goal
  <2>6. Goal
    BY <1>3, <2>1, <2>2, <2>3, <2>4, <2>5, LeaveCases DEF Goal
  <2>7. QED
    BY <2>6 DEF Goal
<1>4. CASE LogicTake
  BY <1>4, TakenMoves
<1>5. CASE LogicPush \/ LogicPut \/ UNCHANGED vars
  BY <1>0, <1>1, <1>5, StaysSteps
<1>6. QED
  BY <1>2, <1>3, <1>4, <1>5 DEF Next

\* The order holds at the start,
LEMMA WaysInit == Init => WaysOK
<1> SUFFICES ASSUME Init
             PROVE  WaysOK
  OBVIOUS
<1>1. IInv /\ toLogic = <<>>
  BY InitIInv DEF Init
<1>2. TypeOK /\ SlotsSound
  BY <1>1 DEF IInv
<1>3. RingWhole
  BY <1>1 DEF RingWhole
<1>4. ASSUME NEW c \in Conns
      PROVE  InOrder(c)
  <2>1. InRing(c) = <<>>
    BY <1>1, <1>2, RingSeqType
  <2>2. Received(c) = <<>>
    BY <1>2, ReceivedIs DEF Init
  <2>3. up[c] = <<>>
    BY DEF Init
  <2>4. Way(c) = <<>>
    BY <2>1, <2>2, <2>3 DEF Way
  <2>5. <<>> \in Seq(AllUnits) /\ Len(<<>>) = 0 /\ 1 .. 0 - 1 = {}
    OBVIOUS
  <2>6. Run(c, <<>>)
    BY <2>5 DEF Run
  <2>7. QED
    BY <2>1, <2>4, <2>5, <2>6 DEF InOrder
<1>5. QED
  BY <1>3, <1>4 DEF WaysOK

\* and every step keeps it.
LEMMA WaysKeep ==
  ASSUME IInv, TypeOK', SlotsSound', WaysOK, [Next]_vars, ~At("lost")'
  PROVE  WaysOK'
<1>1. Known
  BY DEF Known, IInv
<1>2. RingWhole' /\ \A c \in Conns : Moved(c)
  BY <1>1, NextMoves
<1>3. ASSUME NEW c \in Conns
      PROVE  InOrder(c)'
  <2>1. TypeOK /\ InOrder(c) /\ Moved(c)
    BY <1>1, <1>2 DEF Known, WaysOK
  <2>2. InRing(c) \in Seq(AllUnits)
    BY <2>1, RingSeqType
  <2>3. QED
    BY <2>1, <2>2, MovedKeeps
<1>4. QED
  BY <1>2, <1>3 DEF WaysOK, Conns

Ordered == ~At("lost") => WaysOK

\* So they are in order until a receive has overrun its buffer, which ends all
\* steps of ConnectServer.
LEMMA OrderedKeeps ==
  ASSUME IInv, IInv', Ordered, [Next]_vars
  PROVE  Ordered'
<1> SUFFICES ASSUME ~At("lost")'
             PROVE  WaysOK'
  BY DEF Ordered
<1>1. ~At("lost")
  BY LostSteps DEF vars, At
<1>2. QED
  BY <1>1, WaysKeep DEF Ordered, IInv

(* Whatever pieces they arrive in, the requests of a connection are forwarded *)
(* whole and in order, none gets into another's, and while the connection is  *)
(* open those on the way reach up to the last one sent, without a gap: until  *)
(* a client sends more at once than the two buffers of an object that was     *)
(* given back hold, up to Overrun (ProcessEpollData, ClientExit, Run).        *)
THEOREM RequestsStayInOrder == Spec => []RequestsInOrder
<1>1. IInv /\ IInv' /\ Ordered /\ [Next]_vars => Ordered'
  BY OrderedKeeps
<1>2. IInv /\ Ordered => RequestsInOrder
  <2> SUFFICES ASSUME IInv, WaysOK
               PROVE  RequestsInOrder
    BY DEF Ordered, RequestsInOrder
  <2>1. toLogic \in Seq(Packets) /\ DOMAIN toLogic = 1 .. Len(toLogic)
    BY LenProperties DEF IInv, TypeOK
  <2>2. \A i \in DOMAIN toLogic : toLogic[i].type = "request" =>
          \E c \in Conns, n \in 1 .. MaxRequests : toLogic[i].units = Units(c, n)
    BY <2>1 DEF WaysOK, RingWhole
  <2>3. ASSUME NEW c \in Conns, NEW w, w = Way(c)
        PROVE  /\ \A i \in 1 .. Len(w) - 1 :
                    IF w[i].part < Parts
                    THEN w[i + 1] = Unit(c, w[i].request, w[i].part + 1)
                    ELSE w[i + 1] = Unit(c, w[i].request + 1, 1)
               /\ w # <<>> /\ client[c] = "open" => Last(w) = Unit(c, sent[c], Parts)
    <3>1. /\ Run(c, w)
          /\ client[c] = "open" /\ Len(w) > 0 => w[Len(w)] = Unit(c, sent[c], Parts)
      BY <2>3 DEF WaysOK, InOrder
    <3>2. w \in Seq(AllUnits) /\ \A i \in 1 .. Len(w) - 1 : w[i + 1] = After(c, w[i])
      BY <3>1 DEF Run
    <3>3. w # <<>> => Len(w) > 0
      BY <3>2
    <3>4. QED
      BY <3>1, <3>2, <3>3 DEF After, Last
  <2>4. QED
    BY <2>2, <2>3 DEF RequestsInOrder, Way
<1>3. Init => Ordered
  BY WaysInit DEF Ordered
<1>4. QED
  BY Invariant, <1>1, <1>2, <1>3, PTL DEF Spec
-----------------------------------------------------------------------------
(* RequestMerge.  Of its state "sent" is FrontEnd's, "closed" is Ended, the *)
(* streams are what was received and what is on the way, "out" is the       *)
(* requests in the ring, and Overrun is Break.                              *)

\* The requests of the ring's packets.
AskSeq == [i \in 1 .. Len(toLogic) |-> RequestOf(toLogic[i])]

\* A packet holds one request or none.
LEMMA RequestOfType ==
  ASSUME NEW p \in Packets
  PROVE  /\ RequestOf(p) \in Seq(Seq(AllUnits))
         /\ p.type = "exit" => RequestOf(p) = <<>>
         /\ p.type = "request" => RequestOf(p) = <<p.units>> /\ p.units \in Seq(AllUnits)
<1> DEFINE T == Seq(AllUnits)
<1>1. p.type = "request" => p.units \in T
  BY DEF Packets
<1> HIDE DEF T
<1>2. <<>> \in Seq(T) /\ \A u \in T : <<u>> \in Seq(T)
  OBVIOUS
<1>3. QED
  BY <1>1, <1>2 DEF RequestOf, T

\* Joined they are a sequence of requests.
LEMMA ForwardedType ==
  ASSUME TypeOK
  PROVE  /\ AskSeq \in Seq(Seq(Seq(AllUnits))) /\ Len(AskSeq) = Len(toLogic)
         /\ Forwarded = Joined(AskSeq) /\ Forwarded \in Seq(Seq(AllUnits))
         /\ toLogic = <<>> => Forwarded = <<>>
<1> DEFINE T == Seq(Seq(AllUnits))
<1>1. toLogic \in Seq(Packets) /\ Len(toLogic) \in Nat
  BY LenProperties DEF TypeOK
<1>2. \A i \in 1 .. Len(toLogic) : RequestOf(toLogic[i]) \in T
  BY <1>1, RequestOfType, ElementOfSeq
<1> HIDE DEF T
<1>3. AskSeq \in [1 .. Len(toLogic) -> T]
  BY <1>2 DEF AskSeq
<1>4. AskSeq \in Seq(T) /\ Len(AskSeq) = Len(toLogic)
  BY <1>1, <1>3
<1>5. Forwarded = Joined(AskSeq)
  BY DEF Forwarded, AskSeq
<1>6. toLogic = <<>> => AskSeq = <<>>
  BY <1>1, <1>4
<1>7. QED
  BY <1>4, <1>5, <1>6, JoinedType DEF T

\* What a packet into the ring, and one out of it, does to the requests there.
LEMMA ForwardedMoves ==
  ASSUME TypeOK
  PROVE  /\ UNCHANGED toLogic => Forwarded' = Forwarded
         /\ \A p \in Packets : toLogic' = Append(toLogic, p)
              => Forwarded' = Forwarded \o RequestOf(p)
         /\ toLogic # <<>> /\ toLogic' = Tail(toLogic)
              => \E f \in Seq(Seq(AllUnits)) :
                   Forwarded' = f /\ Forwarded = RequestOf(Head(toLogic)) \o f
<1> DEFINE T == Seq(AllUnits)
<1>1. toLogic \in Seq(Packets) /\ Len(toLogic) \in Nat
  BY LenProperties DEF TypeOK
<1>2. AskSeq \in Seq(Seq(T)) /\ Len(AskSeq) = Len(toLogic)
  BY ForwardedType
<1>3. Forwarded = Joined(AskSeq) /\ Forwarded' = Joined(AskSeq')
  BY DEF Forwarded, AskSeq
<1>4. /\ AskSeq' = [i \in 1 .. Len(toLogic') |-> RequestOf(toLogic'[i])]
      /\ \A i \in 1 .. Len(toLogic) : AskSeq[i] = RequestOf(toLogic[i])
  BY DEF AskSeq, RequestOf
<1>5. UNCHANGED toLogic => AskSeq' = AskSeq
  BY <1>4 DEF AskSeq
<1>6. ASSUME NEW p \in Packets, toLogic' = Append(toLogic, p)
      PROVE  Forwarded' = Forwarded \o RequestOf(p)
  <2> DEFINE x == RequestOf(p)
             u == Append(AskSeq, x)
             m == Len(toLogic)
  <2>1. /\ Len(toLogic') = m + 1 /\ toLogic'[m + 1] = p
        /\ \A i \in 1 .. m : toLogic'[i] = toLogic[i]
    BY <1>6, RingShape
  <2>2. x \in Seq(T)
    BY RequestOfType
  <2> HIDE DEF T
  <2>3. /\ Len(u) = m + 1 /\ u[m + 1] = x /\ u \in Seq(Seq(T))
        /\ \A i \in 1 .. m : u[i] = AskSeq[i]
    BY <1>2, <2>2, QueueTypes
  <2> HIDE DEF u
  <2>4. \A i \in 1 .. m + 1 : i \in 1 .. m \/ i = m + 1
    BY <1>1
  <2>5. \A i \in 1 .. m + 1 : u[i] = RequestOf(toLogic'[i])
    BY <1>4, <2>1, <2>3, <2>4
  <2>6. u = [i \in 1 .. m + 1 |-> u[i]]
    BY <1>1, <2>3
  <2>7. AskSeq' = u
    BY <1>4, <2>1, <2>5, <2>6
  <2>8. Joined(u) = Joined(AskSeq) \o x
    BY <1>2, <2>2, JoinedAppend DEF u
  <2>9. QED
    BY <1>3, <2>7, <2>8
<1>7. ASSUME toLogic # <<>>, toLogic' = Tail(toLogic)
      PROVE  \E f \in Seq(T) : Forwarded' = f /\ Forwarded = RequestOf(Head(toLogic)) \o f
  <2> DEFINE u == Tail(AskSeq)
             m == Len(toLogic) - 1
  <2>1. /\ Len(toLogic) > 0 /\ Len(toLogic') = m /\ Head(toLogic) = toLogic[1]
        /\ \A i \in 1 .. m : toLogic'[i] = toLogic[i + 1]
    BY <1>7, RingShape
  <2> HIDE DEF T
  <2>2. AskSeq # <<>>
    BY <1>1, <1>2, <2>1
  <2>3. /\ Len(u) = m /\ u \in Seq(Seq(T)) /\ Head(AskSeq) = AskSeq[1]
        /\ \A i \in 1 .. m : u[i] = AskSeq[i + 1]
    BY <1>2, <2>2, QueueTypes
  <2>4. Joined(AskSeq) = Head(AskSeq) \o Joined(u)
    BY <1>2, <2>2, JoinedTail
  <2>5. Joined(u) \in Seq(T)
    BY <2>3, JoinedType
  <2> HIDE DEF u
  <2>6. \A i \in 1 .. m : i + 1 \in 1 .. Len(toLogic)
    BY <1>1
  <2>7. \A i \in 1 .. m : u[i] = RequestOf(toLogic'[i])
    BY <1>4, <2>1, <2>3, <2>6
  <2>8. u = [i \in 1 .. m |-> u[i]]
    BY <1>1, <2>3
  <2>9. AskSeq' = u
    BY <1>4, <2>1, <2>7, <2>8
  <2>10. 1 \in 1 .. Len(toLogic)
    BY <1>1, <2>1
  <2>11. Head(AskSeq) = RequestOf(Head(toLogic))
    BY <1>4, <2>1, <2>3, <2>10
  <2>12. QED
    BY <1>3, <2>4, <2>5, <2>9, <2>11
<1>8. QED
  BY <1>3, <1>5, <1>6, <1>7

\* An exit adds no request.
LEMMA ForwardedStays ==
  ASSUME TypeOK, UNCHANGED toLogic \/ \E s \in Slots : TellExit(s)
  PROVE  Forwarded' = Forwarded
<1>1. ASSUME NEW s \in Slots, TellExit(s), ~UNCHANGED toLogic
      PROVE  Forwarded' = Forwarded
  <2> DEFINE p == ClientExitMessage(s)
  <2>1. toLogic' = Append(toLogic, p)
    BY <1>1 DEF TellExit
  <2>2. p \in Packets /\ p.type = "exit"
    BY DEF ClientExitMessage, Packets
  <2> HIDE DEF p
  <2>3. RequestOf(p) = <<>>
    BY <2>2, RequestOfType
  <2>4. Forwarded' = Forwarded \o <<>>
    BY <2>1, <2>2, <2>3, ForwardedMoves
  <2>5. Forwarded \in Seq(Seq(AllUnits))
    BY ForwardedType
  <2>6. QED
    BY <2>4, <2>5, ConcatEmptySeq
<1>2. QED
  BY <1>1, ForwardedMoves

\* What the abstract state is made of.
Stream(c) == Received(c) \o up[c]
Streams   == [c \in Conns |-> Received(c) \o up[c]]
Ended     == {c \in Conns : client[c] = "closed"}
Still     == UNCHANGED sent /\ Ended' = Ended /\ Streams' = Streams /\ Forwarded' = Forwarded

\* Its steps, said of these.
LEMMA MergeSteps ==
  ASSUME NEW c \in Conns
  PROVE  /\ c \notin Ended /\ Ended' = Ended /\ Forwarded' = Forwarded
            /\ sent' = [sent EXCEPT ![c] = @ + 1]
            /\ Streams' = [Streams EXCEPT ![c] = @ \o Units(c, sent[c] + 1)]
            => Merge!Send(c)
         /\ UNCHANGED sent /\ Forwarded' = Forwarded /\ Ended' = Ended \cup {c}
            /\ (\E k \in 0 .. Len(Streams[c]) :
                  Streams' = [Streams EXCEPT ![c] = SubSeq(@, 1, k)])
            => Merge!Cut(c)
         /\ \A n : Len(Streams[c]) >= Parts /\ Streams[c][1].request = n
              /\ SubSeq(Streams[c], 1, Parts) = Units(c, n)
              /\ Forwarded' = Append(Forwarded, Units(c, n))
              /\ Streams' = [Streams EXCEPT ![c] = SubSeq(@, Parts + 1, Len(@))]
              /\ UNCHANGED sent /\ Ended' = Ended
              => Merge!Merge(c)
<1>1. \A n : Merge!Units(c, n) = Units(c, n)
  BY DEF Merge!Units, Units, Unit
<1>2. /\ Streams = [d \in Conns |-> Received(d) \o up[d]]
      /\ Streams' = [d \in Conns |-> Received(d) \o up[d]]'
      /\ Ended = {d \in Conns : client[d] = "closed"}
      /\ Ended' = {d \in Conns : client[d] = "closed"}'
  BY DEF Streams, Ended
<1>3. QED
  BY <1>1, <1>2, Zenon DEF Merge!Send, Merge!Cut, Merge!Merge

\* When the streams stay the broker has taken a request or nothing has changed.
LEMMA StillSteps ==
  ASSUME UNCHANGED sent, Ended' = Ended, Streams' = Streams
  PROVE  /\ Forwarded' = Forwarded => Still
         /\ Forwarded # <<>> /\ Forwarded' = Tail(Forwarded) => Merge!Take
BY Zenon DEF Merge!Take, Still, Streams, Ended

\* The streams are sequences of units.
LEMMA StreamTypes ==
  ASSUME TypeOK, SlotsSound, NEW c \in Conns
  PROVE  /\ Received(c) \in Seq(AllUnits) /\ up[c] \in Seq(AllUnits)
         /\ Stream(c) \in Seq(AllUnits) /\ Streams[c] = Stream(c)
<1>1. Received(c) \in Seq(AllUnits) /\ up[c] \in Seq(AllUnits)
  BY WayTypes
<1>2. Received(c) \o up[c] \in Seq(AllUnits)
  BY <1>1, ConcatProperties
<1>3. QED
  BY <1>1, <1>2 DEF Stream, Streams

\* Steps that touch one connection at most.
OthersStay(d) == \A c \in Conns : c # d =>
                   /\ Stream(c)' = Stream(c)
                   /\ client'[c] = "closed" <=> client[c] = "closed"

\* so that their streams differ in one place.
LEMMA OneStream ==
  ASSUME NEW d \in Conns, OthersStay(d)
  PROVE  /\ \A v : Stream(d)' = v => Streams' = [Streams EXCEPT ![d] = v]
         /\ Stream(d)' = Stream(d) => Streams' = Streams
         /\ (client'[d] = "closed" <=> client[d] = "closed") => Ended' = Ended
         /\ client'[d] = "closed" => Ended' = Ended \cup {d}
<1>1. \A c \in Conns : Streams[c] = Stream(c) /\ Streams'[c] = Stream(c)'
  BY DEF Streams, Stream
<1>2. /\ Streams = [c \in Conns |-> Streams[c]] /\ DOMAIN Streams = Conns
      /\ Streams' = [c \in Conns |-> Streams'[c]]
  BY DEF Streams
<1>3. \A c \in Conns : c # d => Streams'[c] = Streams[c]
  BY <1>1 DEF OthersStay
<1>4. ASSUME NEW v, Stream(d)' = v
      PROVE  Streams' = [Streams EXCEPT ![d] = v]
  <2>1. Streams'[d] = v
    BY <1>1, <1>4
  <2>2. QED
    BY <1>2, <1>3, <2>1, Zenon
<1>5. ASSUME Stream(d)' = Stream(d)
      PROVE  Streams' = Streams
  <2>1. \A c \in Conns : Streams'[c] = Streams[c]
    BY <1>1, <1>3, <1>5
  <2>2. QED
    BY <1>2, <2>1, Zenon
<1>6. Ended' = {c \in Conns : client'[c] = "closed"}
  BY DEF Ended
<1>7. (client'[d] = "closed" <=> client[d] = "closed") => Ended' = Ended
  BY <1>6 DEF OthersStay, Ended
<1>8. client'[d] = "closed" => Ended' = Ended \cup {d}
  BY <1>6 DEF OthersStay, Ended
<1>9. QED
  BY <1>4, <1>5, <1>7, <1>8
-----------------------------------------------------------------------------
MergeStep == Merge!Kept \/ Still

\* A step of RequestMerge, or none.
LEMMA MergeNext ==
  ASSUME NEW c \in Conns, Merge!Send(c) \/ Merge!Cut(c) \/ Merge!Merge(c)
  PROVE  MergeStep
BY DEF MergeStep, Merge!Kept

\* No unit comes or goes,
LEMMA StillStep ==
  ASSUME NEW d \in Conns, OthersStay(d), Stream(d)' = Stream(d), UNCHANGED sent,
         client'[d] = "closed" <=> client[d] = "closed", Forwarded' = Forwarded
  PROVE  MergeStep
<1>1. Streams' = Streams /\ Ended' = Ended
  BY OneStream
<1>2. QED
  BY <1>1, StillSteps DEF MergeStep

\* the end of one stream is lost,
LEMMA CutStep ==
  ASSUME TypeOK, SlotsSound, NEW d \in Conns, OthersStay(d), UNCHANGED sent,
         client'[d] = "closed", Forwarded' = Forwarded,
         \E k \in 0 .. Len(Stream(d)) : Stream(d)' = SubSeq(Stream(d), 1, k)
  PROVE  MergeStep
<1>1. PICK k \in 0 .. Len(Stream(d)) : Stream(d)' = SubSeq(Stream(d), 1, k)
  OBVIOUS
<1>2. Streams[d] = Stream(d)
  BY StreamTypes
<1>3. /\ Streams' = [Streams EXCEPT ![d] = SubSeq(Stream(d), 1, k)]
      /\ Ended' = Ended \cup {d}
  BY <1>1, OneStream
<1>4. Streams' = [Streams EXCEPT ![d] = SubSeq(@, 1, k)]
  BY <1>2, <1>3
<1>5. k \in 0 .. Len(Streams[d])
  BY <1>2
<1>6. Merge!Cut(d)
  BY <1>3, <1>4, <1>5, MergeSteps
<1>7. QED
  BY <1>6, MergeNext

\* or all of it.
LEMMA DropStep ==
  ASSUME TypeOK, SlotsSound, NEW d \in Conns, OthersStay(d), UNCHANGED sent,
         client'[d] = "closed", Forwarded' = Forwarded, Stream(d)' = <<>>
  PROVE  MergeStep
<1>1. Stream(d) \in Seq(AllUnits)
  BY StreamTypes
<1>2. SubSeq(Stream(d), 1, 0) = <<>> /\ 0 \in 0 .. Len(Stream(d))
  BY <1>1
<1>3. QED
  BY <1>2, CutStep

\* Now step by step: those that leave objects, buffers and requests alone,
LEMMA StaysMerge ==
  ASSUME Known, SlotsSound', Stays
  PROVE  MergeStep
<1>1. TypeOK /\ SlotsSound
  BY DEF Known
<1>2. \A c : Received(c)' = Received(c)
  BY <1>1, ReceivedStays DEF Stays
<1>3. Forwarded' = Forwarded
  BY <1>1, ForwardedStays DEF Stays
<1>4. UNCHANGED <<sent, up>> /\ \A c \in Conns : client'[c] = "closed" <=> client[c] = "closed"
  BY DEF Stays
<1>5. Streams' = Streams
  BY <1>2, <1>4 DEF Streams
<1>6. Ended' = Ended
  BY <1>4 DEF Ended
<1>7. QED
  BY <1>3, <1>4, <1>5, <1>6, StillSteps DEF MergeStep

\* SendRequest, which is Send,
LEMMA SendMerges ==
  ASSUME Known, SlotsSound', NEW d \in Conns, SendRequest(d)
  PROVE  MergeStep
<1>1. /\ client[d] = "open" /\ requests < MaxRequests
      /\ sent' = [sent EXCEPT ![d] = @ + 1]
      /\ up' = [up EXCEPT ![d] = @ \o Units(d, sent[d] + 1)]
      /\ UNCHANGED <<client, m_mOnlineClient, sock, recvBuf, toLogic>>
  BY DEF SendRequest, table, buffers
<1>2. TypeOK /\ SlotsSound
  BY DEF Known
<1>3. /\ sent \in [Conns -> 0 .. MaxRequests] /\ up \in [Conns -> Seq(AllUnits)]
      /\ sent[d] + 1 \in 1 .. MaxRequests
  <2>1. /\ sent \in [Conns -> 0 .. MaxRequests] /\ up \in [Conns -> Seq(AllUnits)]
        /\ requests \in 0 .. MaxRequests
    BY <1>2 DEF TypeOK
  <2>2. sent[d] <= requests
    BY DEF Known, ThreadOK
  <2>3. QED
    BY <1>1, <2>1, <2>2, Constants
<1>4. (\A c : Received(c)' = Received(c)) /\ Forwarded' = Forwarded
  BY <1>1, <1>2, ReceivedStays, ForwardedStays
<1>5. OthersStay(d)
  <2>1. \A c \in Conns : c # d => up'[c] = up[c]
    BY <1>1, <1>3
  <2>2. QED
    BY <1>1, <1>4, <2>1 DEF OthersStay, Stream
<1> DEFINE b == Received(d)
           u == up[d]
           x == Units(d, sent[d] + 1)
           T == Seq(AllUnits)
<1>6. b \in T /\ u \in T /\ x \in T /\ Streams[d] = b \o u
  BY <1>2, <1>3, StreamTypes, UnitsType DEF Stream
<1>7. Stream(d)' = b \o (u \o x)
  BY <1>1, <1>3, <1>4 DEF Stream
<1>8. x = Units(d, sent[d] + 1)
  OBVIOUS
<1> HIDE DEF b, u, x
<1>9. Associative(T)
  BY Associates
<1> HIDE DEF T
<1>10. (b \o u) \o x = b \o (u \o x)
  BY <1>6, <1>9, Zenon DEF Associative
<1>11. Streams' = [Streams EXCEPT ![d] = b \o (u \o x)] /\ Ended' = Ended
  BY <1>1, <1>5, <1>7, OneStream
<1>12. Streams' = [Streams EXCEPT ![d] = @ \o x]
  BY <1>6, <1>10, <1>11
<1>13. d \notin Ended
  BY <1>1 DEF Ended
<1>14. Merge!Send(d)
  BY <1>1, <1>4, <1>8, <1>11, <1>12, <1>13, MergeSteps
<1>15. QED
  BY <1>14, MergeNext

\* Close, which is Cut,
LEMMA CloseMerges ==
  ASSUME Known, SlotsSound', NEW d \in Conns, Close(d)
  PROVE  MergeStep
<1>1. /\ client' = [client EXCEPT ![d] = "closed"]
      /\ UNCHANGED <<sent, m_mOnlineClient, sock, recvBuf, toLogic>>
  BY DEF Close, asked, table, buffers
<1>2. PICK k \in 0 .. Len(up[d]) : up' = [up EXCEPT ![d] = SubSeq(@, 1, k)]
  BY DEF Close
<1>3. TypeOK /\ SlotsSound
  BY DEF Known
<1>4. up \in [Conns -> Seq(AllUnits)] /\ client \in [Conns -> {"idle", "open", "closed"}]
  BY <1>3 DEF TypeOK
<1>5. (\A c : Received(c)' = Received(c)) /\ Forwarded' = Forwarded
  BY <1>1, <1>3, ReceivedStays, ForwardedStays
<1>6. OthersStay(d)
  <2>1. \A c \in Conns : c # d => up'[c] = up[c] /\ client'[c] = client[c]
    BY <1>1, <1>2, <1>4
  <2>2. QED
    BY <1>5, <2>1 DEF OthersStay, Stream
<1> DEFINE b == Received(d)
           u == up[d]
           p == SubSeq(u, 1, k)
           q == SubSeq(u, k + 1, Len(u))
           T == Seq(AllUnits)
<1>7. b \in T /\ u \in T /\ Stream(d) = b \o u
  BY <1>3, StreamTypes DEF Stream
<1>8. p \in T /\ q \in T
  BY <1>7, PieceType
<1>9. p \o q = u
  BY <1>7, CutJoin
<1>10. Stream(d)' = b \o p /\ client'[d] = "closed"
  BY <1>1, <1>2, <1>4, <1>5 DEF Stream
<1> HIDE DEF b, u, p, q
<1>11. b \o p \in T
  BY <1>7, <1>8, ConcatProperties
<1>12. Associative(T)
  BY Associates
<1> HIDE DEF T
<1>13. (b \o p) \o q = b \o (p \o q)
  BY <1>7, <1>8, <1>12, Zenon DEF Associative
<1> DEFINE a == b \o p
<1>14. Stream(d) = a \o q /\ Stream(d)' = a /\ a \in T
  BY <1>7, <1>9, <1>10, <1>11, <1>13
<1> HIDE DEF a
<1>15. SubSeq(a \o q, 1, Len(a)) = a /\ Len(a) \in 0 .. Len(a \o q)
  BY <1>8, <1>14, JoinCut DEF T
<1>16. \E j \in 0 .. Len(Stream(d)) : Stream(d)' = SubSeq(Stream(d), 1, j)
  BY <1>14, <1>15
<1>17. QED
  BY <1>1, <1>3, <1>5, <1>6, <1>10, <1>16, CutStep

\* Accept, which is Cut when there is no object,
LEMMA AcceptMerges ==
  ASSUME Known, SlotsSound', NEW d \in backlog, Accept(d)
  PROVE  MergeStep
<1>1. TypeOK /\ SlotsSound /\ UnitsKnown
  BY DEF Known
<1>2. /\ d \in Conns /\ Received(d) = <<>> /\ UNCHANGED <<sent, toLogic>>
      /\ \A c \in Conns : Received(c)' = Received(c)
      /\ \/ UNCHANGED <<client, up>>
         \/ client' = [client EXCEPT ![d] = "closed"] /\ up' = [up EXCEPT ![d] = <<>>]
  BY <1>1, AcceptFacts
<1>3. Forwarded' = Forwarded
  BY <1>1, <1>2, ForwardedStays
<1>4. up \in [Conns -> Seq(AllUnits)] /\ client \in [Conns -> {"idle", "open", "closed"}]
  BY <1>1 DEF TypeOK
<1>5. CASE UNCHANGED <<client, up>>
  <2>1. OthersStay(d) /\ Stream(d)' = Stream(d) /\ client'[d] = client[d]
    BY <1>2, <1>5 DEF OthersStay, Stream
  <2>2. QED
    BY <1>2, <1>3, <2>1, StillStep
<1>6. CASE client' = [client EXCEPT ![d] = "closed"] /\ up' = [up EXCEPT ![d] = <<>>]
  <2>1. \A c \in Conns : c # d => up'[c] = up[c] /\ client'[c] = client[c]
    BY <1>4, <1>6
  <2>2. client'[d] = "closed" /\ up'[d] = <<>>
    BY <1>2, <1>4, <1>6
  <2>3. OthersStay(d)
    BY <1>2, <2>1 DEF OthersStay, Stream
  <2>4. Stream(d)' = <<>> \o <<>>
    BY <1>2, <2>2 DEF Stream
  <2>5. Stream(d)' = <<>>
    BY <2>4
  <2>6. QED
    BY <1>1, <1>2, <1>3, <2>2, <2>3, <2>5, DropStep
<1>7. QED
  BY <1>2, <1>5, <1>6

\* Leave, which is Cut when it takes an object,
LEMMA LeaveMerges ==
  ASSUME Known, SlotsSound', NEW s \in Served, Leave(s), MayFail(s), UNCHANGED <<client, sent>>
  PROVE  MergeStep
<1>1. TypeOK /\ SlotsSound /\ s \in Slots
  BY DEF Known, Served
<1>2. Forwarded' = Forwarded
  BY <1>1, ForwardedStays DEF Leave
<1>3. up \in [Conns -> Seq(AllUnits)]
  BY <1>1 DEF TypeOK
<1>4. CASE UNCHANGED up /\ \A c : Received(c)' = Received(c)
  <2>1. Streams' = Streams /\ Ended' = Ended
    BY <1>4 DEF Streams, Ended
  <2>2. QED
    BY <1>2, <2>1, StillSteps DEF MergeStep
<1>5. ASSUME NEW d \in Conns, client[d] = "closed", up' = [up EXCEPT ![d] = <<>>],
             Received(d)' = <<>>, \A c \in Conns : c # d => Received(c)' = Received(c)
      PROVE  MergeStep
  <2>1. up'[d] = <<>> /\ \A c \in Conns : c # d => up'[c] = up[c]
    BY <1>3, <1>5
  <2>2. OthersStay(d) /\ client'[d] = "closed"
    BY <1>5, <2>1 DEF OthersStay, Stream
  <2>3. Stream(d)' = <<>> \o <<>>
    BY <1>5, <2>1 DEF Stream
  <2>4. Stream(d)' = <<>>
    BY <2>3
  <2>5. QED
    BY <1>1, <1>2, <2>2, <2>4, DropStep
<1>6. QED
  BY <1>1, <1>4, <1>5, LeaveFacts

\* Recv, which moves units within the stream,
LEMMA RecvMerges ==
  ASSUME Known, SlotsSound', NEW s \in Slots, Recv(s)
  PROVE  MergeStep
<1>1. TypeOK /\ SlotsSound /\ ThreadOK
  BY DEF Known
<1>2. UNCHANGED <<client, sent, toLogic>>
  BY <1>1, RecvFacts
<1>3. PICK d \in Conns : \E k \in 1 .. Len(up[d]) :
        /\ Received(d)' = Received(d) \o SubSeq(up[d], 1, k)
        /\ up'[d] = SubSeq(up[d], k + 1, Len(up[d]))
        /\ \A c \in Conns : c # d => Received(c)' = Received(c) /\ up'[c] = up[c]
  BY <1>1, RecvFacts
<1>4. OthersStay(d)
  BY <1>2, <1>3 DEF OthersStay, Stream
<1>5. PICK k \in 1 .. Len(up[d]) :
        /\ Received(d)' = Received(d) \o SubSeq(up[d], 1, k)
        /\ up'[d] = SubSeq(up[d], k + 1, Len(up[d]))
  BY <1>3
<1> DEFINE b == Received(d)
           u == up[d]
           p == SubSeq(u, 1, k)
           q == SubSeq(u, k + 1, Len(u))
           T == Seq(AllUnits)
<1>6. b \in T /\ u \in T /\ Stream(d) = b \o u /\ k \in 0 .. Len(u)
  BY <1>1, StreamTypes DEF Stream
<1>7. p \in T /\ q \in T
  BY <1>6, PieceType
<1>8. p \o q = u
  BY <1>6, CutJoin
<1>9. Stream(d)' = (b \o p) \o q
  BY <1>5 DEF Stream
<1> HIDE DEF b, u, p, q
<1>10. Associative(T)
  BY Associates
<1> HIDE DEF T
<1>11. (b \o p) \o q = b \o (p \o q)
  BY <1>6, <1>7, <1>10, Zenon DEF Associative
<1>12. Stream(d)' = Stream(d)
  BY <1>6, <1>8, <1>9, <1>11
<1>13. Forwarded' = Forwarded
  BY <1>1, <1>2, ForwardedStays
<1>14. QED
  BY <1>2, <1>4, <1>12, <1>13, StillStep

\* Forward, which is Merge,
LEMMA ForwardMerges ==
  ASSUME Known, SlotsSound', Forward
  PROVE  MergeStep
<1>1. TypeOK /\ SlotsSound
  BY DEF Known
<1>2. PICK s \in Slots, d \in Conns, n \in 1 .. MaxRequests :
        /\ toLogic' = Append(toLogic, Request(s, Units(d, n)))
        /\ UNCHANGED <<client, sent, up>>
        /\ \A c \in Conns : c # d => Received(c)' = Received(c)
        /\ Received(d)' \in Seq(AllUnits) /\ Received(d) = Units(d, n) \o Received(d)'
        /\ Received(d)[1] = Unit(d, n, 1)
  BY ForwardFacts
<1>3. OthersStay(d) /\ client'[d] = client[d]
  BY <1>2 DEF OthersStay, Stream
<1> DEFINE x == Units(d, n)
           rest == Received(d)'
           b == Received(d)
           u == up[d]
           T == Seq(AllUnits)
           p == Request(s, x)
<1>4. x \in T /\ Len(x) = Parts /\ Parts \in Nat /\ Parts > 0
  BY UnitsType, Constants
<1>5. rest \in T /\ b \in T /\ u \in T /\ b = x \o rest /\ Stream(d) = b \o u
  BY <1>1, <1>2, StreamTypes DEF Stream
<1>6. Stream(d)' = rest \o u
  BY <1>2 DEF Stream
<1>7. p \in Packets /\ RequestOf(p) = <<x>>
  BY <1>4 DEF Request, Packets, RequestOf
<1>8. b[1] = Unit(d, n, 1)
  BY <1>2
<1>9. x = Units(d, n)
  OBVIOUS
<1>10. Forwarded' = Append(Forwarded, x)
  <2>1. Forwarded' = Forwarded \o <<x>> /\ Forwarded \in Seq(T)
    BY <1>1, <1>2, <1>7, ForwardedMoves, ForwardedType
  <2> HIDE DEF x, T
  <2>2. Forwarded \o <<x>> = Append(Forwarded, x)
    BY <1>4, <2>1
  <2>3. QED
    BY <2>1, <2>2
<1> HIDE DEF x, rest, b, u, p
<1>11. (x \o rest) \o u = x \o (rest \o u)
  <2>1. Associative(T)
    BY Associates
  <2> HIDE DEF T
  <2>2. QED
    BY <1>4, <1>5, <2>1, Zenon DEF Associative
<1> DEFINE y == rest \o u
           w == x \o y
<1>12. y \in T
  BY <1>5, ConcatProperties
<1>13. Stream(d) = w /\ Stream(d)' = y
  BY <1>5, <1>6, <1>11
<1> HIDE DEF y
<1>14. /\ SubSeq(w, 1, Parts) = x
       /\ SubSeq(w, Parts + 1, Len(w)) = y
  BY <1>4, <1>12, JoinCut
<1>15. Len(w) >= Parts /\ w[1].request = n
  <2>1. /\ Len(x) > 0 /\ b = x \o rest
        /\ Len(b) = Len(x) + Len(rest) /\ Len(rest) \in Nat
    BY <1>4, <1>5, ConcatFacts
  <2>2. 1 \in 1 .. Len(b)
    BY <1>4, <2>1
  <2>3. w = b \o u
    BY <1>5, <1>11 DEF y
  <2>4. w[1] = b[1] /\ Len(w) = Len(b) + Len(u) /\ Len(u) \in Nat /\ Len(b) \in Nat
    BY <1>5, <2>2, <2>3, ConcatFacts
  <2>5. Len(w) >= Parts
    BY <1>4, <2>1, <2>4
  <2>6. QED
    BY <1>8, <2>4, <2>5 DEF Unit
<1>16. Streams[d] = w
  BY <1>1, <1>13, StreamTypes
<1>17. Streams' = [Streams EXCEPT ![d] = y] /\ Ended' = Ended
  BY <1>3, <1>13, OneStream
<1> HIDE DEF w
<1>18. Streams' = [Streams EXCEPT ![d] = SubSeq(@, Parts + 1, Len(@))]
  BY <1>14, <1>16, <1>17
<1>19. Merge!Merge(d)
  BY <1>2, <1>9, <1>10, <1>14, <1>15, <1>16, <1>17, <1>18, MergeSteps
<1>20. QED
  BY <1>19, MergeNext

\* and LogicTake, which is Take for a request.
LEMMA TakeMerges ==
  ASSUME Known, SlotsSound', LogicTake
  PROVE  MergeStep
<1>1. TypeOK /\ SlotsSound
  BY DEF Known
<1>2. /\ toLogic # <<>> /\ toLogic' = Tail(toLogic)
      /\ UNCHANGED <<client, sent, up, m_mOnlineClient, sock, recvBuf>>
  BY DEF LogicTake, clients, asked, table, buffers
<1>3. \A c : Received(c)' = Received(c)
  BY <1>1, <1>2, ReceivedStays
<1>4. Streams' = Streams /\ Ended' = Ended
  BY <1>2, <1>3 DEF Streams, Ended
<1>5. PICK p \in Packets : p = Head(toLogic)
  <2>1. toLogic \in Seq(Packets)
    BY <1>1 DEF TypeOK
  <2>2. QED
    BY <1>2, <2>1, QueueTypes
<1> DEFINE T == Seq(AllUnits)
<1>6. PICK f \in Seq(T) : Forwarded' = f /\ Forwarded = RequestOf(p) \o f
  BY <1>1, <1>2, <1>5, ForwardedMoves
<1>7. CASE p.type = "exit"
  <2>1. RequestOf(p) = <<>>
    BY <1>7, RequestOfType
  <2> HIDE DEF T
  <2>2. <<>> \o f = f
    BY ConcatEmptySeq
  <2>3. Forwarded' = Forwarded
    BY <1>6, <2>1, <2>2
  <2>4. QED
    BY <1>2, <1>4, <2>3, StillSteps DEF MergeStep
<1>8. CASE p.type = "request"
  <2>1. PICK x \in T : RequestOf(p) = <<x>>
    BY <1>8, RequestOfType
  <2> HIDE DEF T
  <2>2. <<x>> \o f # <<>> /\ Tail(<<x>> \o f) = f
    <3>1. <<x>> \in Seq(T) /\ Len(<<x>>) = 1 /\ 1 \in 0 .. 1
      OBVIOUS
    <3> DEFINE w == <<x>> \o f
    <3>2. w \in Seq(T) /\ Len(w) = 1 + Len(f) /\ Len(f) \in Nat
      BY <3>1, ConcatFacts
    <3>3. SubSeq(w, 2, Len(w)) = f
      <4>1. SubSeq(w, Len(<<x>>) + 1, Len(w)) = f
        BY <3>1, JoinCut
      <4> HIDE DEF w
      <4>2. QED
        BY <3>1, <4>1
    <3> HIDE DEF w
    <3>4. w # <<>>
      BY <3>2
    <3>5. Tail(w) = SubSeq(w, 2, Len(w))
      BY <3>2, <3>4
    <3>6. QED
      BY <3>3, <3>4, <3>5 DEF w
  <2>3. Forwarded # <<>> /\ Forwarded' = Tail(Forwarded)
    BY <1>6, <2>1, <2>2
  <2>4. QED
    BY <1>2, <1>4, <2>3, StillSteps DEF MergeStep, Merge!Kept
<1>9. QED
  BY <1>7, <1>8 DEF Packets

\* RequestMerge starts where FrontEnd does,
LEMMA InitMerges == Init => Merge!Init
<1> SUFFICES ASSUME Init
             PROVE  Merge!Init
  OBVIOUS
<1>1. TypeOK /\ SlotsSound
  BY InitIInv DEF IInv
<1>2. Forwarded = <<>>
  BY <1>1, ForwardedType DEF Init
<1>3. ASSUME NEW c \in Conns
      PROVE  Received(c) \o up[c] = <<>>
  <2>1. Received(c) = <<>>
    BY <1>1, ReceivedIs DEF Init
  <2>2. up[c] = <<>>
    BY DEF Init
  <2>3. QED
    BY <2>1, <2>2
<1>4. Streams = [c \in Conns |-> <<>>]
  BY <1>3 DEF Streams
<1>5. Ended = {} /\ sent = [c \in Conns |-> 0]
  BY DEF Ended, Init
<1>6. At("lost") = FALSE
  BY DEF Init, Going, At
<1>7. QED
  BY <1>2, <1>4, <1>5, <1>6, Zenon DEF Merge!Init, Streams, Ended

\* and goes its ways.
LEMMA NextMerges ==
  ASSUME Known, SlotsSound', [Next]_vars, ~At("lost")'
  PROVE  MergeStep
<1>0. TypeOK /\ ThreadOK
  BY DEF Known
<1>1. ASSUME Stays
      PROVE  MergeStep
  BY <1>1, StaysMerge
<1>2. ASSUME NEW c \in Conns, ClientStep(c)
      PROVE  MergeStep
  <2>1. CASE SendRequest(c)
    BY <2>1, SendMerges
  <2>2. CASE Close(c)
    BY <2>2, CloseMerges
  <2>3. CASE Connect(c) \/ Read(c)
    BY <1>0, <1>1, <2>3, StaysSteps
  <2>4. QED
    BY <1>2, <2>1, <2>2, <2>3 DEF ClientStep
<1>3. CASE ConnectStep
  <2>1. ASSUME NEW c \in backlog, Accept(c)
        PROVE  MergeStep
    BY <2>1, AcceptMerges
  <2>2. ASSUME NEW s \in Slots, Recv(s)
        PROVE  MergeStep
    BY <2>2, RecvMerges
  <2>3. CASE Forward
    BY <2>3, ForwardMerges
  <2>4. CASE EpollWait \/ QueueDone \/ TakeForNobody \/ Take \/ Flush \/ SendDataToClient
    BY <1>0, <1>1, <2>4, StaysSteps
  <2>5. ASSUME NEW s \in Served, Leave(s), MayFail(s), UNCHANGED <<client, sent>>
        PROVE  MergeStep
    BY <2>5, LeaveMerges
  <2>6. QED
    BY <1>3, <2>1, <2>2, <2>3, <2>4, <2>5, LeaveCases
<1>4. CASE LogicTake
  BY <1>4, TakeMerges
<1>5. CASE LogicPush \/ LogicPut \/ UNCHANGED vars
  BY <1>0, <1>1, <1>5, StaysSteps
<1>6. QED
  BY <1>2, <1>3, <1>4, <1>5 DEF Next

\* Every step is one of RequestMerge; with a buffer overrun it is Break.
LEMMA StepMerges ==
  ASSUME IInv, IInv', Ordered, [Next]_vars
  PROVE  [Merge!Next]_Merge!mergeVars
<1>1. CASE At("lost")'
  BY <1>1 DEF Merge!Next, Merge!Break
<1>2. CASE ~At("lost")'
  <2>1. ~At("lost")
    BY <1>2, LostSteps DEF vars, At
  <2>2. MergeStep
    BY <1>2, <2>1, NextMerges DEF Ordered, Known, IInv
  <2>3. At("lost")' = At("lost")
    BY <1>2, <2>1 DEF At
  <2>4. Still => UNCHANGED Merge!mergeVars
    BY <2>3, Zenon DEF Still, Merge!mergeVars, Streams, Ended
  <2>5. Merge!Kept => Merge!Next
    BY <2>3, Zenon DEF Merge!Next
  <2>6. QED
    BY <2>2, <2>4, <2>5 DEF MergeStep
<1>3. QED
  BY <1>1, <1>2

\* ConnectServer merges its connections into one queue of whole requests:
\* each request received is forwarded once and in order, waits when the ring is
\* full and is lost only with its connection, once this has ended; up to a
\* receive that overruns its buffer (ProcessEpollData, ClientExit, Run).
THEOREM FrontEndMerges == Spec => ImplementsMerge
<1>1. IInv /\ IInv' /\ Ordered /\ [Next]_vars => Ordered'
  BY OrderedKeeps
<1>2. IInv /\ IInv' /\ Ordered /\ [Next]_vars => [Merge!Next]_Merge!mergeVars
  BY StepMerges
<1>3. Init => Ordered
  BY WaysInit DEF Ordered
<1>4. QED
  BY Invariant, InitMerges, <1>1, <1>2, <1>3, PTL DEF Spec, ImplementsMerge, Merge!Spec
=============================================================================
