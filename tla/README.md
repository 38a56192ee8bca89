# A specification of the WSMQ message broker

TLA+ modules, TLC runs and TLAPS proofs for the C++ message broker in `src/`.
Names in the modules are the names of the source, its spelling included
(`m_mSubcribeQueues`, `PRODUCER_MUTIL_ACK`). `PROJECT.json` maps every
definition to the lines it models.

## 1. The system

Three server processes and a client library. The processes are joined by rings
in System V shared memory, each with one writing and one reading process.

    client --TCP--> ConnectServer --CONNECT_TO_LOGIC--> LogicServer --LOGIC_TO_PERSIS--> PersistenceServer
    client <--TCP-- ConnectServer <--LOGIC_TO_CONNECT-- LogicServer <------files-------- PersistenceServer
                                                             (read once, at start-up)

| Component | State | Operations | Hard behaviour | What makes it correct |
|---|---|---|---|---|
| `shm_queue` (ring) | `m_iLen, m_iHead, m_iTail, m_iBlockNum, m_iUsedNum`, the bytes | `Init`, `Enqueue`, `Dequeue` | spin lock across processes; blocks split at the end of the ring in any of three pieces; full and empty have head = tail; process killed while it owns the lock; creation races with use | exclusion; a FIFO of whole messages; "full" and "empty" are true when answered; the lock is given back |
| `logicServer` (broker) | exchanges with bindings, two maps of queues, queue objects, `m_NeedAckMessageList`, `m_iAckSeq`, the producers' numbers | `PushMessage`, eleven packet handlers, `SendMultiAck`, all in the one loop of `Run` | objects reached by pointer from maps and bindings; three ways to delete a queue; handlers that stop half-way when LOGIC_TO_PERSIS is full; clients that exit with messages unacknowledged; indexes that are reused | nothing freed is reachable; a message copy is in one place and is not lost; nothing is delivered to a client that has exited; every queue with subscribers is served |
| `Exchange::IsFit` | none | topic matching | table borders, wildcards | agrees with the meaning of `*` and `#` |
| recovery (`OnInit...`) | the broker's | reads the persistence files | files left by a crash at any point | what was durable and not consumed is back, once |
| `PersistenceServer` | per queue: data, index and offset files, lists of files, consumption counts | create, delete, publish, consume, clean up, merge | crash between any two writes; queue re-created under its name; merge replaces files | an accepted durable message survives until consumed |
| `connectServer` | table of 1000 slots, per-client buffers | accept, read, forward, exit, deliver | slots and indexes reused while packets for them are in the rings; both rings full; partial sends | bytes reach the client they are meant for; the two loops do not block each other |
| `client` library | socket, next number, list of unconfirmed messages | publish, confirm, subscribe, consume, acknowledge | retransmission, batch confirmation | a confirmed message was accepted, once |
| `message`, `common_def` | none | packing | sizes | - |
| `sem_lock`, `timer`, `logger`, `ini_file`, `mq_util`, samples | - | - | - | not on the broker's path |

## 2. Modules

| Module | Models |
|---|---|
| `ByteFifo` | abstract: a FIFO of messages with a capacity in bytes |
| `ShmQueue` | `ShmQueue::Enqueue` and `Dequeue` of any number of processes, byte by byte |
| `MCShmQueue` | instance for TLC |
| `SeqOps`, `SeqFacts` | filter, sum and concatenation of sequences as recursive functions, and what they do to any sequence (proved by induction over a set) |
| `ShmQueue_proofs` | inductive invariant and theorems of `ShmQueue`, its refinement of `ByteFifo` |
| `ShmQueueKill` | `ShmQueue` with processes killed in a call and started again (`mq_server_stop.sh`) |
| `ShmStartup` | `ShmQueue` while `Init` of its creator still runs (`mq_server_start.sh`) |
| `Broker` | `LogicServer`: the loop, the handlers, `MessageQueue`, `Exchange` |
| `Broker_proofs` | inductive invariant and theorems of `Broker`'s tables |
| `BrokerMessages_proofs` | inductive invariants and theorems of `Broker`'s types and messages |
| `MCBrokerConfig`, `MCBrokerDelivery` | instances for TLC |
| `TopicMatch` | `Exchange::IsFit`, and what its two wildcards mean |
| `TopicMatch_proofs` | theorem of `TopicMatch`: the table says what the wildcards mean, for keys of any length |
| `RequestMerge` | abstract: the streams of connections merged into one queue of whole requests |
| `FrontEnd` | `ConnectServer`: the loop, the table of connections, their buffers, the two rings with `LogicServer` at the other end |
| `FrontEnd_proofs` | inductive invariant and theorems of `FrontEnd`, its refinement of `RequestMerge` |
| `Client` | the client library: a `Producer` and a `Consumer`, and the broker they talk to |
| `Client_proofs` | inductive invariants and theorems of `Client`: calls and their replies, types, messages |
| `DurableLog` | `PersistenceServer`'s files of queues and messages, the ring that feeds it, and `LogicServer`'s recovery from them |
| `MCDurableLog` | instance for TLC |
| `DurableLog_proofs` | inductive invariant of `DurableLog`'s state, and theorems about the files of a queue |

### ShmQueue

A call is a sequence of steps: enter, the CAS that takes the lock (`Acquire`),
look at the header and copy the bytes (`EnqueueFull`, `EnqueueWrite`,
`DequeueEmpty`, `DequeueSmall`, `DequeueRead`), store the new header
(`EnqueueCommit`, `DequeueCommit`), the CAS that gives the lock back
(`Release`). The steps of different processes interleave freely; a failed CAS is
a stutter. Finer steps would show nothing more to a process that keeps to the
lock; the two modules in which somebody does not, `ShmQueueKill` and
`ShmStartup`, violate their property before any copy matters.

The ring's bytes are cells that say what they are a byte of (`HeadCell`,
`BodyCell`, `TailCell`), so an overwritten or misplaced byte shows.
`WriteBlock` is the branch for a contiguous copy and the three split copies,
`CopyPiece`, with the code's running position and `tailRightSpace`.

`DequeueRead` is enabled when the bytes at the head are a block head with its
own position in it. That they always are is `DeliversOldest` (and, for deadlock,
the run): the recovery branches of `Dequeue` (348-400) are never reached while
no process dies inside a copy, and after such a death `m_iUsedNum` stays 1, so
that nobody operates on the ring any more (`ring_kill`).

`accepted` is a history variable: the committed blocks that were not consumed.

### Broker

Queue objects have addresses, because the code reaches them by pointer from
`m_mSubcribeQueues`, `m_mUnSubcribeQueues` and the bindings: `objects` is the
heap, `delete` removes an address and `new` takes any free one, so that a stale
pointer may meet a newer object.

`loop` says where `Run` is. In phase `push` it goes over the subscribed queues in
any order (the maps are unordered), one message a step; in phase `receive` it
takes packets of the clients that are online, each handled in one step (the
process has one thread); `acks` is `SendMultiAck`. How many packets a round
takes is left open: the code stops at 800 or when the ring is empty.

`toPersis` and `toConnect` are the packets of the latest step. Whether
LOGIC_TO_PERSIS has room is a parameter of each handler that asks
(`PersisMayFill`); what the handler then does not undo is part of the action.

What the code does against expectation is modelled as it is, among it:

- `CreateBinding` adds a second queue of a key to a copy of the list and drops
  it (212-233; README.md:248 allows several queues for a key).
- `PushMessage` erases the entry after a queue without subscribers (1332-1338),
  or the end iterator, which kills the process: phase `dead`.
- `OnCancelSubscribe` always takes the queue out of `m_mSubcribeQueues` (2173).
- `SendMultiAck` never advances its iterator (1817-1827).
- `OnClientAck` tests `confirmLevel==CONSUMER_AUTO_ACK||CONSUMER_SINGLE_ACK`
  (2259), which is always true, so that a batch acknowledgement removes one
  message and the branch for batches (2298-2339) is dead.
- A repeated message is acknowledged to client -1 (1660-1672).
- `OnClientExit` compares client indexes as prefixes of decimal strings (2352),
  puts messages back in reverse order (2480), and leaves
  `m_producerLastMsgSeq` alone (2341-2370). `SendMultiAck` then confirms that
  number to the index, whoever has it; `ExitEndsDelivery`, which is about the
  other maps, says so.
- `OnClientAck` looks for the number only (2262): a client may acknowledge
  another's message, as the code allows.
- A failed `OnCreateSubscribe` cancels a subscription that was there before and
  leaves the new confirm level; a failed `OnDeleteQueue` forgets the name but
  keeps object and bindings.

A topic exchange routes with `IsFit` of `TopicMatch`; `KeyWords` says which
words a key stands for.

External: `Connect` (ConnectServer gives a free index to a new connection). A
client's exit may be told twice, and an exit that never reaches the broker
followed by a new connection with the same index is a stutter here.

Two wordings to know: a queue is *listed* when one of the two maps has it; a
queue in neither is out of reach though its object lives on.

### TopicMatch

`IsFit` fills a table, one cell (`Cell`) for each beginning of the binding key
and of the routing key. It is a recursive function here, of pairs of the same
indexes, with the borders the code leaves at their initial value. `Matches` is what
the comments (282-284) say of `*` and `#`: the words of the one key are replaced
by consecutive parts of the other. The two disagree for a leading `#`, which fits
nothing, although 284 says that it stands for nothing, one or several words
(`LeadingHash`); and the wildcards count in the routing key of the message, not in
the key the queue is bound with. That they agree everywhere else is a theorem
(`FitMeansMatch`); no run is about it, since it depends on no behaviour.

### FrontEnd

`run` says where ConnectServer's thread is: waiting in `epoll_wait`, working
through the reported events, spinning on CONNECT_TO_LOGIC with a whole request
in hand (`Forward`, 428-432), taking packets from LOGIC_TO_CONNECT, sending a
full send buffer before another packet fits (`Flush`), or sending what the round
collected. Clients and LogicServer move between any two of these steps. The
connection objects (`m_lFreeList`, `m_mOnlineClient`, `m_bUsed`, the socket) and
their two buffers are the state of `ClientConnectManager`; an index is the
number of an object and passes to another client when the object does.

The byte stream of a connection is cut into units, `Parts` of them to a request.
A unit says whose it is, what request and what part, so that a request put
together from the units of two clients shows. `Recv` takes any number of the
units that have come.

`LogicServer` is reduced to what the front end depends on: which connections it
keeps something for under an index (`subscribed`), that it waits for room with a
message (1374, 1917) and drops a reply without room (2893-2898). `untold` is a
history variable, the indexes whose last exit found CONNECT_TO_LOGIC full (the
result of `Enqueue` is ignored at 382, 403, 480, 572, 623 and 667).

Sizes are counted in packets, what a buffer receives in units (`RecvCap`). A
connection whose object was given back within a round may still be in
`vSendClients`; sending to it fails and its exit is told a second time.
`SIGPIPE` is ignored, so that a failed send is an answer.

`ClientExit` sets the receive head and tail of the object to its *send* buffer and
leaves the receive end and the send pointers (clientConnect.cpp:123-129). An
object in that state is in `misplaced`. The length its next `recv` is called with
is then the distance between two buffers, negative and so without a limit
(connectServer.cpp:357). What arrives while it fits the send buffer is received
there and forwarded, and after it the pointers are right again (`Recv`: forwarding
ends at the start of the receive buffer, 418-454). What does not fit runs over the
heap into the receive buffer of the next object (`Overrun`, `Overwritten`; the
constructor allocates the buffers in turn, 28-38). What the process does
afterwards is undefined, so the model stops its thread there (`run.at = "lost"`).
What a failed send left is `"stale"` in the send buffer of the next client.

### FrontEnd_proofs

See section 4.

### Client

One producer and one consumer, each with a connection of its own to a broker
with one exchange, one queue and one binding between them. `up` and `down` are
what is on the way; the packs a client has received and not yet read are the
front of `down`. A call sends its request (`Call`) and then waits
(`waiting`) for the first pack that arrives, whatever it is: `RecvReply` for the
requests, `RecvPulled` for `RecvMessage`. `RecvServerAck` reads all that has come
as numbers of confirmed messages, `ConsumeMessage` reads the first pack as a
message. The type of a pack is not looked at where the code does not, so the
bytes of a reply have a reading as a message and as a number, `Text`.

The broker's part is `LogicServer` again, as far as one queue goes, and with what
`Broker` leaves out: what it answers, and that an answer may be lost. The steps
are the same handlers; the two modules abstract from different things and
neither contains the other.

What the code does against expectation is modelled as it is, among it:

- a push that comes first is taken for the reply of `CreateSubscribe` and
  thrown away (965), the reply is then read as a message;
- of a reply read as a message the bool is the level (true is automatic
  acknowledgement) and the text the number, which is acknowledged;
- `CancelSubscribe` sends the command that deletes the queue (1051-1093);
- with batch confirmation any number confirms all messages up to it, and the
  text of a refusal is such a number (757);
- a message that is sent again and was accepted before is acknowledged to client
  -1 (logicServer.cpp:1659-1672): the producer never hears of it (`AcknowledgeDuplicate`);
- an acknowledgement removes the one message it names, also on level 3 (`Covers`);
- `RecvMessage` acknowledges whatever number it reads (901), `ConsumeMessage`
  only a number (`Use`);
- a message is sent again after `3*1000*1000` milliseconds, not after the three
  seconds of the comment (813). Time is not modelled: `ReSendMsg` may come at any
  moment, with the oldest k messages.

### DurableLog

`queues` is what LogicServer knows of the durable queues: the next durable index
and the messages that are not done with (in the queue or waiting for a
consumer's confirmation, which makes no difference to the files). `orphans` are
unconfirmed messages of deleted queues: `OnClientAck` reports them by queue name
and index. `ring` is LOGIC_TO_PERSIS; a command that does not fit is lost
(`Send`), as the handlers ignore the answer or report it and keep what they did.

`dirs` is the disk: for each queue whether `info.bin` can be read, the number in
`write_offset.bin` (`NoIndex` when missing or empty) and the groups of data, index and consume files, by name.
`tail`, `indexFile` and `fileList` are the three maps of `PersistenceServer.h`.
`persis` says where its one thread is, so that `KillPersis` may come between any
two file operations of a handler: after the files are opened (which empties
`write_offset.bin`), after each of the three writes, after a consumption is
recorded, between the removals of a group's files, while `info.bin` is written
(`OnCreateQueue`, `WriteInfo`), and between the removals of a deleted queue's
files: `RemoveDir` (mq_util.cpp:367-413) unlinks them one by one in the order of
the directory, which is any (`Unlink`), and the directory last. `StartPersis` is `InitFileInfo`, `RestartLogic` is
`OnInitQueue` and `OnInitMsg`. It reads the files in one step, a half-written
publication included.

`ClearUpStep` is the loop of `ClearUpFile` with its iterator. After a merge, or
at the last group, it reads and moves the iterator past the end: `ReadAndMoveOn`
has the two outcomes of a circular `std::list`, death or another walk with an
empty `strPrev`. `MergeFiles` needs ten megabytes of stack (907), so the process
dies on entering it, or, where the limit allows it, leaves what the code writes:
the last live entry of each group, then zeros, and old data positions.

`StaysSound` says which steps leave the files of a queue in order. `Sound` has
a part for the entries (each live one points at its message, no index twice),
for the consumptions, for the maps, and for the message being written. Every
step keeps it, with three exceptions that the property names: the removal of the
queue's directory (`Deleting`), which a kill can leave with an index without its
data, or with data and index but no consume file; a merge; and a
command for an index PersistenceServer has seen before, as the number of a message
or as the name of a group, which a restarted LogicServer sends when publications
were still in the ring (`Repeat`). `Sound` speaks of one queue, so that a queue
that was merged says nothing about the others.

Bounds and simplifications: messages are one cell long, so a group is full after
`FileCap` messages; a merge is one step; data mapped beyond the end of a
file reads as zeros, and what lies beyond the last page (SIGBUS) or beyond
`pIndexBuff` is left out. A queue that could not be deleted because the ring was
full, and is still bound (see `Broker`), publishes no more here. As committed,
`InitConf` of PersistenceServer takes addresses of constants of `comdef.h` and
does not compile; LogicServer's copy of it is commented out. The model takes
the values of `comdef.h`.

## 3. Runs

| Run | Instance and bounds | Shows |
|---|---|---|
| `ring` | 1 producer, 1 consumer, ring of 10 bytes, head 2, flags 1, messages of 1, 3 and 5 bytes, buffer of 4 | `TypeOK`, `MutualExclusion`, `RingOK`, `DeliversOldest`, `AnswersAreTrue`, `LockReleased`, `SpinnersProgress`, `ImplementsFifo` |
| `ring_kill` | as `ring`, with kills | violation of `UsedMeansOperating` |
| `ring_startup` | a creator and an attacher | violation of `OperationsExclude` |
| `broker_config` | 2 exchanges, 2 queues, 1 key, 2 clients, 2 addresses, 1 reconnection, no messages, persistence ring may be full | `TypeOK`, `NoDangling`, `OneObjectPerName`, `UnsubMeansNone` |
| `front_end` | 3 connection objects (one listens), 3 connections, 2 requests of 2 units, 1 push, rings of 2 and 1 packets, a receive buffer of 3 units, send buffer and socket of 1 packet, the clock may end a round after 1 packet | `TypeOK`, `SlotsSound`, `RequestsInOrder`, `ExitOnlyOfTheGone`, `KnowsTheHolder`, `RoundsGoOn`, `FullRingsNeverClear`, `ImplementsMerge` |
| `client` | 2 messages, 1 sent again, 1 request of the producer, 2 of the consumer, 1 manual acknowledgement, 1 lost answer; both producer levels, subscriptions at levels 0, 1 and 3, pulls at 0 and 3 | `TypeOK`, `AcceptedOnce`, `KeptUntilAccepted`, `AllAccountedFor`, `OutOfStep`, `RequestsReturn` |
| `broker_delivery` | 1 topic exchange, 1 durable priority queue, 2 messages (plain with single confirmation, urgent durable with batch confirmation), 2 copies, clients 1 and 12, 1 reconnection | `UnackedOnce`, `ExitEndsDelivery`, `NothingVanishes` |
| `broker_progress` | 2 queues, 1 client, 2 copies | `Drains` |
| `broker_cancel` | 1 queue, 2 clients | violation of `SubscribersServed` |
| `broker_multiack` | 1 queue, 1 client | violation of `LoopComesRound` |
| `durable_log` | 1 queue created twice, 2 messages, groups of 2, ring of 1 command, 2 kills of PersistenceServer, 1 restart of LogicServer | `TypeOK`, `StaysSound`, `NothingForgotten`, `NothingReturns` |
| `durable_recover` | 1 queue | violation of `DurableQueuesReturn` |

Why the bounds are enough. Blocks of 4, 6 and 8 bytes on a ring of 10 start at
every even position, split in head, body and flags, fill the ring exactly
(4 + 6), do not fit (8 + 4), and the longest body exceeds the buffer; the proofs
below remove the bounds for safety. The ring of the program always has one
writing and one reading process. In `broker_config` two queues and two
exchanges suffice for a deletion to be interrupted between exchanges and for a
queue to be erased in the place of another; two addresses for reuse. Without
messages its ports carry nothing the properties read, so a VIEW leaves them
out; no action reads them either. `broker_delivery` has two copies, enough for
an order, a batch and a partial put-back, and clients 1 and 12 for the prefix
comparison. Its two counters, `copies` and `reconnects`, are bounds and nothing
of the program.

In `front_end` two usable objects and three connections make an object change
hands while the other is busy; requests of two units arrive in halves, and two
connections may each have half a request received. A ring of one packet towards
ConnectServer is full as soon as something is in it, and the ring of two holds
a request and an exit, the shortest order that can be wrong. A receive buffer of
three units holds a request and the beginning of another, and the four units a
connection can send overrun it on a reused object. A send buffer of
one packet is full at the second (`Flush`); a socket of one makes a client that
does not read hold up the thread. In `client` two messages have an order, one
is enough to be sent again and to be overtaken; two requests of the consumer are
what it takes to be out of step by one pack; one lost answer reaches each
handler.

In `durable_log` two messages in groups of two fill a group; a restart of
LogicServer that gives an index out again opens a second one, and the two are
what a merge needs. A queue created twice meets what is left of its first life,
on disk and in the maps; a ring of one command is full as often as possible; the
first kill reaches every point between two file operations, the second every
point of what is done with the leftovers of the first. That a third message
opens a group behind a full one is left to the proofs, which have no bounds. The
queues share nothing but the ring and the order of their clean-up, so one
suffices. `View` leaves out the maps of a dead process, which nobody reads.

Deadlock is checked except in `broker_config`, where the process may die
(phase `dead`), in `durable_log`, which ends when its bounds are used up, in
`front_end`, where the two servers may wait for each other for ever, and in
`client`, where a call whose answer was lost does.

### Fairness

`ShmQueue!FairSpec`: a process inside a call runs on (`WF_vars(Step(p))`).
Nothing obliges a process to start a call, and weak fairness of the CAS does not
promise a given spinner the lock: `SpinnersProgress` says only that some CAS
succeeds. `DurableLog` states safety only and has no fairness. `Broker!FairSpec`: the loop takes a step of its own when it can
(`WF_vars(LoopStep)`); it is one thread that never blocks except on rings.
Packets are never owed. `Drains` excuses the two states in which the loop can
no longer serve anybody (`Wedged`): dead, or caught in `SendMultiAck`.

`FrontEnd!FairSpec`: the loops of the two servers run on, `WF_vars(ConnectStep)`,
`WF_vars(LogicTake)` and `WF_vars(LogicPut)` (a push of its own is not owed).
Clients owe nothing, not even to read. `RoundsGoOn` says that ConnectServer
waits for events again and again unless a receive has overrun its buffer (what
it does then is undefined), the two servers are in each other's way
for ever (`Deadlocked`) or a client that does not read holds up the thread for
ever (`HeldUp`): `SendDataToClient` polls without a limit (270). `TellExitWaits`
shows what dropping exits buys: if the exit waited for room as `Forward` does,
`RoundsGoOn` would fail in a third way. `Client!FairSpec`: the broker and the
calls that have an answer do not all stand still; the application owes no call.

### Disagreements found

- `ring_kill`: README.md:59 and :162 take a non-zero user count for somebody
  operating. `Init` keeps the count of an existing segment, so a process killed
  inside a call blocks both ends for good.
- `ring_startup`: shm_queue.cpp:119 promises atomic operations. The creator
  stores 0 into a lock another process may already hold.
- `broker_cancel`: README.md:259 promises that consumers share a queue's
  messages. After one of them cancels the others get none.
- `broker_multiack`: logicServer.cpp:1828 and :2911. The set of batch
  confirmations is never emptied; the first one stops the broker.

- `durable_recover`: README.md:65 promises that a restart restores what is
  durable. A queue without a readable `write_offset.bin` is skipped
  (logicServer.cpp:671): one that nothing was published to yet, or one whose
  publication was cut short after the file was emptied.

Disagreements that no run is about, met while modelling. Where a property
touches one, its words name it as an exception; none is stated as what is wanted.

- logicServer.cpp:284 lets `#` stand for nothing, one or several words. At the
  front it makes the key fit nothing (`LeadingHash`, the exception in
  `FitMeansMatch`).
- clientConnect.cpp:123 promises to clear and reset the buffers; 128-129 set the
  receive pointers to the send buffer and the send pointers never. What a failed
  send left is sent to the next client of the object (`"stale"`), and the next
  receive has no limit (`Overrun`), up to which `RequestsInOrder` and
  `ImplementsMerge` hold.
- logicServer.cpp:1659 and 1667 mean to acknowledge a message that is sent
  again; the acknowledgement has the index -1 and reaches nobody, so that a
  producer whose confirmation was lost sends for ever (`AcknowledgeDuplicate`).
- logicServer.cpp:2297 and 2300 mean a batch acknowledgement to remove the lower
  numbers too; the condition at 2259 is always true and the branch dead
  (`Covers`, `Broker!Handler`).
- logicServer.cpp:2341-2370 forgets an exited client but for
  `m_producerLastMsgSeq`, from which `SendMultiAck` may confirm to the next holder
  of the index.
- PersistenceServer.cpp:234 means that nothing is left of a deleted queue. Killed
  inside `RemoveDir` PersistenceServer leaves some of its files, and nothing
  finishes the removal: consumed messages may come back, or an index stay without
  its data (`Unlink`, the exception in `StaysSound` and `NothingReturns`).
- client.cpp:813 says three seconds and tests fifty minutes.
- connectServer.cpp:430 lets the thread wait on a full ring rather than drop a
  request; together with logicServer.cpp:1374 both servers may wait for ever
  (`FullRingsNeverClear`).
- client.cpp:1051, `CancelSubscribe`, deletes the queue.
- client.cpp:1095, `SendConsumerAck`, ends without a `return`.

## 4. Proofs

`ShmQueue_proofs` proves, for any finite or infinite sets of processes and
messages, any sizes and any ring length, from `ShmQueueAssumption` only (lengths
are positive, `NoMsg` is no message, no process is producer and consumer):

| Theorem | States |
|---|---|
| `Invariant` | `Spec => []IInv` |
| `TypeCorrect` | `Spec => []TypeOK` |
| `LockExcludes` | `Spec => []MutualExclusion` |
| `RingIntact` | `Spec => []RingOK` |
| `OldestDelivered` | `Spec => []DeliversOldest` |
| `AnswersTrue` | `Spec => AnswersAreTrue` |
| `RingIsFifo` | `Spec => ImplementsFifo` |

`RingOK` is not inductive. That a new block damages none of the accepted ones
needs to know that they lie one after the other on the way from head to tail
(`Ordered`), not only that neighbours touch. That a commit is right needs what
its process saw before: a process at `written` has its block in the ring after
the tail and the space for it (`WrittenOK`), one at `read` holds the oldest
message (`ReadOK`); both survive the others' steps because of
`MutualExclusion`. `IInv` is the conjunction.

The argument, in the order of the module: `WriteBlockPlaces` reduces the four
ways in which a block can be split to one formula, byte k of the block at
distance k from the tail; `FreeSpaceIs` and `BlockFacts` place the accepted
blocks between head and tail; `ReadsOldest` does for `Dequeue` what
`WriteBlockPlaces` does for `Enqueue`; `EnqueueWriteKeeps`,
`EnqueueCommitKeeps` and `DequeueCommitKeeps` are the three steps that change
the ring, the other `...Keeps` lemmas the steps that do not.

`AnswersTrue` needs the sum of the accepted blocks: they lie one after the other,
so their bytes end where the last one ends (`BytesUsed`), and what `Enqueue`
compares with is exactly what is left (`FitsIs`). The refinement maps
`EnqueueCommit` to `Put` and `DequeueRead` to `Get` of `ByteFifo`; every other
step stutters.

`FrontEnd_proofs` proves, for any number of connection objects, connections and
requests and any sizes, from `FrontEndAssumption` only (the sizes are positive, a
socket holds at least what a send buffer does):

| Theorem | States |
|---|---|
| `TypeCorrect` | `Spec => []TypeOK` |
| `SlotsStaySound` | `Spec => []SlotsSound` |
| `ExitsAreOfTheGone` | `Spec => []ExitOnlyOfTheGone` |
| `HolderKnown` | `Spec => []KnowsTheHolder` |
| `FullRingsStay` | `Spec => FullRingsNeverClear` |
| `RequestsStayInOrder` | `Spec => []RequestsInOrder` |
| `FrontEndMerges` | `Spec => ImplementsMerge` |

`SlotsSound` is not inductive: that no connection gets a second object needs to
know that the connection of every object, used or not, has left the backlog
(`SockKnown`); that an exit handled
twice gives the object back once needs to know where in the loop the thread is
and with which object (`ThreadOK`).
`ExitOnlyOfTheGone` and `KnowsTheHolder` are proved index by index
(`ExitsFollow`, `KnownOrTold`) from what each step does to the packets of one
index in the ring. `IInv` is the conjunction, each part with a lemma for the
steps that disturb it.

`RequestsInOrder` has an invariant of its own on top of `IInv`, `WaysOK`, which like
it is claimed until a receive overruns a buffer: what the
ring, the receive buffer and the byte stream hold of a connection, one after the
other, is a run that begins with the first unit of a request; what the ring holds
of it ends with the last unit of one; a connection not yet made has sent nothing.
Without the last unit in the ring `Forward` could not know that the received
units begin with a whole request (`RunPart`, `FirstWhole`). To the run of a connection a step
does one of four things (`Moved`): nothing, though the units may move on from one
place to the next (`RecvMoves`, `ForwardMoves`); a request more at the end
(`SendMoves`); the end cut off with the connection (`CutMoves`); a request less at
the front (`TakenMoves`). `MovedKeeps` shows that each keeps the run. That the
object a connection is given has an empty buffer, and that a buffer is cleared only
for a connection that has ended, come from `IInv` (`AcceptFacts`, `LeaveFacts`).

The refinement puts what was received and what is on the way of a connection into
its stream, and the requests in the ring, without the exits, into the queue
(`Forwarded`). It says what `RequestsInOrder` leaves out: a request is forwarded
once, the oldest first, and none is lost but the end of a stream whose connection
has ended. `SendRequest` is `Send`, `Forward` is `Merge`, `LogicTake` of a request
is `Take`, `Close`, an `Accept` without an object and a `Leave` that takes one are
`Cut`, `Overrun` is `Break`, after which `RequestMerge` says nothing more; everything
else stutters, `Recv` because a piece of a stream that moves from
the socket to the buffer leaves the stream as it was. `MergeSteps` states the
abstract steps in terms of the streams, `OneStream` lets a step be about one
connection; one lemma for each concrete step (`...Merges`) shows which it is. That
`Forward` has a whole request in hand, which `Merge` demands, is `FirstWhole`, so
that the refinement rests on `IInv` and `WaysOK`. Its mutant `ForwardOrDrop`
drops a request for which the ring has no room.

`Broker_proofs` proves, for any sets of exchanges, queues, keys, clients,
messages and addresses and any bounds, without any assumption on the constants:

| Theorem | States |
|---|---|
| `Invariant` | `Spec => []IInv` |
| `PointersLive` | `Spec => []NoDangling` |
| `NamesUnique` | `Spec => []OneObjectPerName` |
| `UnsubscribedHaveNone` | `Spec => []UnsubMeansNone` |
| `SubscribersAreOnline` | `Spec => []SubscribersOnline` |

None of the four is inductive alone. A handler that deletes a queue drops its
name and unbinds its address; that no other pointer to it is left needs to know
that no second name has the address (`OneObjectPerName`, lemma `OneName`) and
that the list of a binding has one element (`BindingsOK`): `DeleteBindingQueue`
erases a key or leaves its list alone, so a list of two would keep the address.
`BindingsOK` holds because `CreateBinding` throws its second queue away; the
mutant `CreateBindingAppends` breaks `NoDangling`. A client that exits is looked
for among the subscribed queues only, which is enough because the others have no
subscribers (`UnsubMeansNone`), and lists have a client once (`IsQueue`, lemma
`RemovesIt`). `LoopOK` says that handlers run when `PushMessage` has no queue in
hand. `Moves` reduces what a handler does to the tables to four conditions;
`Leaves` is the case in which nobody subscribes. The recovery at start-up fills
the same tables, but is part of `DurableLog`, so `Init` is the empty broker.

`BrokerMessages_proofs` builds on these tables and proves, from
`BrokerAssumption` only (bounds and levels are numbers, the messages have the
fields they should), what becomes of the messages:

| Theorem | States |
|---|---|
| `BrokerTypes` | `Spec => []TypeOK` |
| `ExitStopsDelivery` | `Spec => []ExitEndsDelivery` |
| `CopiesInOnePlace` | `Spec => []UnackedOnce` |
| `NoCopyVanishes` | `Spec => NothingVanishes` |

`TypeOK` is not inductive: that the message `PushOne` hands out has a receiver needs
to know that the queue in `PushMessage`'s hand has a subscriber (`CurServed`), and
that the client of a remembered number is a client needs that it is online, which
`ExitStopsDelivery` is about. `TInv` is `IInv` with these types. One lemma says what
each way of moving messages does, and everything else uses that and not the
handler: `Hands` (`PushOne` and `OnRecvMessage` take one message of the front), `Acked`
(`OnClientAck` removes one entry), `ExitHeap` (`OnClientExit` returns what waited
for the ack of the client) and `Publishes` (`OnPublishMessage` adds copies with
numbers of their own).

`UnackedOnce` counts: a queue holds as many copies as it has positions. `Places`
says the same by position, without counting, and is inductive together with
`TInv`: no copy is in two positions of a queue (`QueueOnce`) or in two queues
(`Apart`), none that waits for an ack is also in a queue, and the list of these
is sorted by number (`AcksOrdered`). Two facts carry the exit of a client: `Keep`
leaves a sorted list sorted (`KeepOrder`), and what is returned to two different
queues has nothing in common (`ExitReturns`), since a name has one address.

`NothingVanishes` is about steps. `AllExplained` says that every copy that leaves
goes in one of the three ways; `QueuesKeptExplain` reduces a handler to the
queues that do not keep what they hold, and these must be gone (`Gone`). The
attempt to prove it corrected the property: when `PersistenceServer` is told of an
automatic deletion and its ring is full, `OnCancelSubscribe` has already emptied
the queue and taken its name out of the maps, while the object stays
(`ClearMessage` in `DeleteAutomatically`), so `Gone` is to have no object or no
name. For a client that exits, the message is back in a queue unless its queue
has no name; that the object behind a name is there is `PointersOK` after the step.

`TopicMatch_proofs` proves, without any assumption, for any two keys:

| Theorem | States |
|---|---|
| `FitMeansMatch` | for all keys, `IsFit` says whether the words of the one stand for consecutive parts of the other, and the one does not begin with `#` |

The meaning (`Fit`) quantifies over ways to cut a key into parts, the table looks
at three neighbours. `FitOneMore` connects them: whether two keys fit depends on
the last part and on whether the shorter keys fit. From it `FitSteps` derives for
the meaning the assignments the two loops make, and `FitBorder` and `FitNone` the
borders, with the exception of a leading `#`. So table and meaning obey the same
recursion, and are equal by induction over the sum of the two indexes
(`TableIsRight`); that the table is a function that satisfies its definition is
an induction of its own (`TableExists`).

`Client_proofs` proves, for any numbers of messages, calls and losses, without
any assumption on the constants:

| Theorem | States |
|---|---|
| `Invariant` | `Spec => []IInv` |
| `StepIsLostByPushes` | `Spec => []OutOfStep` |
| `QueuedOnce` | `Spec => []AcceptedOnce` |

`OutOfStep` is not inductive: that a reply is not left over for `ConsumeMessage`
needs to know what is on the way. `InStep` says that nothing is asked and no answer
is on the way while no call is in progress, and that a call in progress has its
question or its answer on the way, not both; a lost answer leaves neither, and
the call waits on. Once a call has taken a push for its answer (`late`), nothing
more is claimed. The lemmas are one for each way a step moves a pack on the two
wires (`AsksOne`, `AcksOne`, `ReadsOne`, `AnswersOne`, `TakesAck`, `PushesOne`); the
actions are reduced to them. `AcceptedOnce` needs that every accepted number is in
`m_producerMsgSeqs` (`AcceptedKnown`), which is what `OnPublishMessage` tests.

The module goes on to the types and the messages, from `ClientAssumption` only
(the bounds are numbers, the levels are levels):

| Theorem | States |
|---|---|
| `TypesHold`, `TypeCorrect` | `Spec => []TInv`, `Spec => []TypeOK` |
| `TakenInOrder` | `Spec => []PInv` |
| `NothingForgottenUnaccepted` | `Spec => []KeptUntilAccepted` |
| `Accounted` | `Spec => []CInv` |
| `NoMessageVanishes` | `Spec => []AllAccountedFor` |

There are three layers, each resting on the one before. `TInv`: that the broker's
numbers for pushes stay within bounds needs
`brokerSeq + Len(queue) <= Len(accepted)`, a number is used for a message that has
left the queue; and `accepted` is no longer than there are messages, because it
is injective. `PInv`, the producer's side: `KeptUntilAccepted` is not
inductive, because a batch confirmation of n forgets all messages up to n. It is
right to only because the broker comes to the messages in the order of their
numbers (`Order`: when a publication is handled, everything before it was
handled or is in front of it on the wire, also when messages are sent again),
and because a number on the way back confirms what was accepted (`Replies`).
`CInv`, the consumer's side: a message on its way is nowhere else (`Packs`,
`Fresh`), and a number the consumer may acknowledge belongs to a message it was
given, or to none (`Numbers`, `Settled`).

`DurableLog_proofs` proves, for any sets of queues, any file size, any ring length
and any bounds, from `DurableLogAssumption` only (they are numbers, a file holds
something):

| Theorem | States |
|---|---|
| `TypesHold`, `TypeCorrect` | `Spec => []TInv`, `Spec => []TypeOK` |
| `FilesStaySound` | `Spec => StaysSound` |
| `NothingIsForgotten` | `Spec => NothingForgotten` |
| `NothingComesBack` | `Spec => NothingReturns` |

`TInv` says, besides types, what has been done at each point where
PersistenceServer can be killed: a message being written has its files
(`Writing`), a consumption being counted has its consume file (`Recording`), and
of a group being removed it is known which files are gone and, before the first
goes, that everything in it was consumed (`Removing`). While a queue's directory
is removed nothing is claimed of its files but that the directory is there
(`Directing`). It also bounds indexes: no
queue and no directory is ahead of the messages published.

The three properties are about steps, from a state in which the files of one
queue are in order. The proofs put the state of a queue's files in one of three stages:
`Settled` (nothing under way), `Started` (a group is opened for a message whose
index is in no entry yet) and `Leaving` (a group is being removed); `SoundIs` and
`SoundNext` say that this is `Sound`. One lemma for each action (`WriteDataKeeps`,
`RemoveNextKeeps`, ...) shows two things: which messages a restart would find
afterwards (`DiskKept`), and that the queue is in order again (`OrderKept`). The
first holds for repeated indexes too, which is why `NothingForgotten` and
`NothingReturns` do not exclude them. That a group may go at all is a pigeonhole:
as many distinct consumptions as entries, all of them of entries of the group,
leave no entry unconsumed (`AllTaken`, `NoneLeft`). That its files may go in this
order is that without the data file no entry counts, and without the index file
nothing is there to find.

The proofs corrected the properties, which TLC had accepted within its bounds.
`Repeat` had to include indexes that name a group in the map only; the maps had
to agree queue by queue; the index being written had to be in the map
(`WritingRight`).

Induction over sequences is done with a set in the place of the predicate
(`SetInduction` of `SeqFacts`, from the well-foundedness of the numbers), since the
library's induction theorem takes an operator.

Only model-checked: the liveness properties (`LockReleased`, `SpinnersProgress`,
`Drains`, `RoundsGoOn`, `RequestsReturn`), which need fairness and ENABLED; the
properties of the runs that show a disagreement.

## 5. Plan

Written: every module of section 2. Left, in this order:

1. The files of exchanges, bindings and subscribers and their part of `OnInit`.
   They are single overwrites; what is to be said of them is that only the first
   subscriber of a queue comes back (logicServer.cpp:736-741).
2. A store of durable messages that `DurableLog` implements while nothing is
   merged and no index repeats.
3. `Client` with connections that close, and with several producers.

## 6. Not modelled

- Packet layout, logging, ini files, timers and `mq_util` but for `RemoveDir`; `SemLock`, which
  nothing on the broker's path uses.
- `OnStop` (logicServer.cpp:2713), `GetDateBlockNum` and `SendPack`
  (client.cpp:428), which nothing calls.
- `Dequeue`'s resynchronisation on a damaged head (shm_queue.cpp:348-400): only a
  kill inside a copy damages a head, and after one `m_iUsedNum` stays 1.
- In `FrontEnd`: packets of a malformed length, errors of `epoll` and `accept`,
  what ConnectServer does after a receive has overrun its buffer. Sizes that would overflow 16-bit packet
  lengths (clients cannot send more than 11 KB).
- In `Client`: `BuildConnection` and connections that close; every later call
  returns an error and the state is gone.
- The files of exchanges, bindings and subscribers, and how `OnInit` reads them.
