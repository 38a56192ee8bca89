----------------------------- MODULE DurableLog -----------------------------
(***************************************************************************)
(* The durable messages: what LogicServer stores of the durable queues and *)
(* their messages, the files PersistenceServer (PersistenceServer.cpp)     *)
(* keeps of them, and what a restarted LogicServer makes of these files.   *)
(*                                                                         *)
(* Every durable queue has a directory with info.bin (its kind, written    *)
(* when it is created), write_offset.bin (the index of the latest message) *)
(* and groups of three files: data,                                        *)
(* index (where in data each message is) and consume (the messages that    *)
(* need not be kept).  A group is named after its first message's index,   *)
(* zero-padded, so that names are ordered as the numbers are.              *)
(*                                                                         *)
(* Messages have one length, that of one cell of a data file.  A process   *)
(* may be killed between any two file operations, also while the directory *)
(* of a deleted queue is being removed; what it has written to a file      *)
(* stays there.  The ring between the processes outlives them.             *)
(***************************************************************************)
EXTENDS Integers, Sequences, SequencesExt, SeqOps

CONSTANTS Queues,      \* names of durable queues
          FileCap,     \* DURABLE_MESSAGE_FILE_SIZE, in messages
          RingLen,     \* commands LOGIC_TO_PERSIS has room for
          MaxMessages, \* bound: messages published
          MaxCreates,  \* bound: queues created
          MaxKills,    \* bound: times PersistenceServer is killed
          MaxRestarts  \* bound: times LogicServer is restarted

ASSUME DurableLogAssumption ==
  /\ FileCap \in Nat \ {0} /\ RingLen \in Nat
  /\ MaxMessages \in Nat /\ MaxCreates \in Nat
  /\ MaxKills \in Nat /\ MaxRestarts \in Nat

VARIABLES
  queues,    \* LogicServer: name -> [next durable index, messages kept]
  orphans,   \* LogicServer: unconfirmed messages of queues that were deleted
  ring,      \* commands in LOGIC_TO_PERSIS
  dirs,      \* the disk: name -> [info, offset, data, index, consume]
  tail,      \* m_mMsgQueueTailFile: name -> group written to
  indexFile, \* m_mMsgQueueIndexFile: name -> durable index -> group
  fileList,  \* m_mMsgQueueList: name -> all groups
  persis,    \* what PersistenceServer is doing
  count      \* messages, creates, kills and restarts so far

memory == <<tail, indexFile, fileList>>
vars   == <<queues, orphans, ring, dirs, tail, indexFile, fileList, persis, count>>

Put(f, k, v) == [x \in DOMAIN f \cup {k} |-> IF x = k THEN v ELSE f[x]]
Drop(f, S) == [x \in DOMAIN f \ S |-> f[x]]
EmptyMap == [x \in {} |-> x]

\* An offset file that is missing or empty.
NoIndex == -1
\* A directory without a file (or with empty ones): info says whether info.bin
\* can be read.
NewDir == [info |-> FALSE, offset |-> NoIndex,
           data |-> EmptyMap, index |-> EmptyMap, consume |-> EmptyMap]
Idle == [at |-> "idle"]
Down == [at |-> "down"]

\* A position where no message is: the largest that an uninitialised st_size
\* needs to hold here.
Garbage == MaxMessages

Init ==
  /\ queues = EmptyMap
  /\ orphans = {}
  /\ ring = <<>>
  /\ dirs = EmptyMap
  /\ tail = EmptyMap
  /\ indexFile = [q \in Queues |-> EmptyMap]
  /\ fileList = [q \in Queues |-> <<>>]
  /\ persis = Idle
  /\ count = [messages |-> 0, creates |-> 0, kills |-> 0, restarts |-> 0]

Bump(what) == count' = [count EXCEPT ![what] = @ + 1]
-----------------------------------------------------------------------------
(* The groups of a queue's directory d. *)

ConsumedIn(d, f) == IF f \in DOMAIN d.consume THEN ToSet(d.consume[f]) ELSE {}

LiveEntries(d, f) ==
  Keep(d.index[f], {e \in ToSet(d.index[f]) : e.index \notin ConsumedIn(d, f)})

\* Whether the message an index entry points at is within the data file; what
\* is mapped beyond its end is zeros: a length of 0, a queue of no name.
InData(d, f, e) == e.pos < Len(d.data[f])

DataAt(d, f, entries) == [i \in DOMAIN entries |-> d.data[f][entries[i].pos + 1]]

Present(files, f) == f \in DOMAIN files /\ files[f] # <<>>

SortedNames(S) ==
  CHOOSE s \in [1 .. Cardinality(S) -> S] : \A i, j \in DOMAIN s : i < j => s[i] < s[j]

\* The messages ProcessDurableMsgFile adds to the queue: those before the first
\* that cannot be read, with which it also gives up the queue's other groups.
Loaded(d, f) ==
  LET live == LiveEntries(d, f)
      bad  == {i \in DOMAIN live : ~InData(d, f, live[i])}
      stop == IF bad = {} THEN Len(live) ELSE Min(bad) - 1
  IN  DataAt(d, f, SubSeq(live, 1, stop))

GivesUp(d, f) == \E e \in ToSet(LiveEntries(d, f)) : ~InData(d, f, e)

\* OnInitMsg: the groups in the order of their names.
Recovered(d) ==
  LET names == SortedNames({f \in DOMAIN d.index : Present(d.index, f) /\ Present(d.data, f)})
      reached(i) == \A j \in 1 .. i - 1 : ~GivesUp(d, names[j])
  IN  Joined([i \in DOMAIN names |-> IF reached(i) THEN Loaded(d, names[i]) ELSE <<>>])

\* OnInitQueue: a queue without a readable info.bin, or whose write_offset.bin
\* yields no number, is not added to the maps.
Restorable == {q \in DOMAIN dirs : dirs[q].info /\ dirs[q].offset # NoIndex}
-----------------------------------------------------------------------------
(* LogicServer. *)

\* Mutant: one too many.
HasRoomOffByOne == Len(ring) <= RingLen

HasRoom == Len(ring) < RingLen

\* An Enqueue that finds the ring full fails, and the handlers go on.
Send(cmd, q, index, id) ==
  ring' = IF HasRoom
          THEN Append(ring, [cmd |-> cmd, queue |-> q, index |-> index, id |-> id]) ELSE ring

CreateQueue(q) ==
  /\ q \notin DOMAIN queues /\ count.creates < MaxCreates
  /\ queues' = Put(queues, q, [next |-> 0, kept |-> <<>>])
  /\ Send("create", q, NoIndex, NoIndex)
  /\ Bump("creates")
  /\ UNCHANGED <<orphans, dirs, memory, persis>>

\* The messages that wait for a consumer's confirmation are not the queue's any
\* more, and stay.
DeleteQueue(q) ==
  /\ q \in DOMAIN queues
  /\ queues' = Drop(queues, {q})
  /\ \E S \in SUBSET ToSet(queues[q].kept) :
       orphans' = orphans \cup {[queue |-> q, index |-> m.index, id |-> m.id] : m \in S}
  /\ Send("delete", q, NoIndex, NoIndex)
  /\ UNCHANGED <<dirs, memory, persis, count>>

\* A durable message is given the queue's next durable index.
Publish(q) ==
  /\ q \in DOMAIN queues /\ count.messages < MaxMessages
  /\ LET m == [id |-> count.messages, index |-> queues[q].next] IN
     /\ queues' = [queues EXCEPT ![q] = [next |-> @.next + 1, kept |-> Append(@.kept, m)]]
     /\ Send("publish", q, m.index, m.id)
  /\ Bump("messages")
  /\ UNCHANGED <<orphans, dirs, memory, persis>>

\* A message is done with: pushed to a consumer that confirms nothing, or
\* confirmed, in whatever order that happens.
Consume(q) ==
  /\ q \in DOMAIN queues
  /\ \E i \in DOMAIN queues[q].kept :
       /\ queues' = [queues EXCEPT ![q].kept = RemoveAt(@, i)]
       /\ Send("consume", q, queues[q].kept[i].index, queues[q].kept[i].id)
  /\ UNCHANGED <<orphans, dirs, memory, persis, count>>

\* OnClientAck knows the message's queue by name only.
ConsumeOrphan ==
  /\ \E m \in orphans :
       /\ orphans' = orphans \ {m}
       /\ Send("consume", m.queue, m.index, m.id)
  /\ UNCHANGED <<queues, dirs, memory, persis, count>>

\* LogicServer is killed and started again.
RestartLogic ==
  /\ count.restarts < MaxRestarts
  /\ queues' = [q \in Restorable |->
                  [next |-> dirs[q].offset + 1, kept |-> Recovered(dirs[q])]]
  /\ orphans' = {}
  /\ Bump("restarts")
  /\ UNCHANGED <<ring, dirs, memory, persis>>
-----------------------------------------------------------------------------
(* PersistenceServer: killed and started. *)

KillPersis ==
  /\ persis # Down /\ count.kills < MaxKills
  /\ persis' = Down
  /\ Bump("kills")
  /\ UNCHANGED <<queues, orphans, ring, dirs, memory>>

\* InitFileInfo: the groups are known again, the one to write to is not.
StartPersis ==
  /\ persis = Down
  /\ persis' = Idle
  /\ tail' = EmptyMap
  /\ fileList' = [q \in Queues |->
                    IF q \in DOMAIN dirs THEN SortedNames(DOMAIN dirs[q].index) ELSE <<>>]
  /\ indexFile' =
       [q \in Queues |->
          IF q \notin DOMAIN dirs THEN EmptyMap
          ELSE LET files == dirs[q].index
                   Holding(n) == {f \in DOMAIN files : \E e \in ToSet(files[f]) : e.index = n}
               IN  [n \in UNION {{e.index : e \in ToSet(files[f])} : f \in DOMAIN files} |->
                      Min(Holding(n))]]
  /\ UNCHANGED <<queues, orphans, ring, dirs, count>>

\* The next command of the ring.
Take(cmd) ==
  /\ persis = Idle /\ ring # <<>>
  /\ Head(ring).cmd = cmd
  /\ ring' = Tail(ring)
  /\ UNCHANGED <<queues, orphans, count>>

\* The directory is made when there is none, and info.bin opened, which empties
\* it; what else is in the directory stays.
OnCreateQueue ==
  LET q == Head(ring).queue
      d == IF q \in DOMAIN dirs THEN dirs[q] ELSE NewDir
  IN
  /\ Take("create")
  /\ dirs' = Put(dirs, q, [d EXCEPT !.info = FALSE])
  /\ persis' = [at |-> "creating", queue |-> q]
  /\ UNCHANGED memory

WriteInfo ==
  /\ persis.at = "creating"
  /\ dirs' = [dirs EXCEPT ![persis.queue].info = TRUE]
  /\ persis' = Idle
  /\ UNCHANGED <<queues, orphans, ring, memory, count>>

\* The directory is to be removed, if there is one.
OnDeleteQueue ==
  LET q == Head(ring).queue IN
  /\ Take("delete")
  /\ IF q \in DOMAIN dirs
     THEN /\ persis' = [at |-> "unlinking", queue |-> q]
          /\ UNCHANGED tail
     ELSE /\ tail' = Drop(tail, {q})
          /\ UNCHANGED persis
  /\ UNCHANGED <<dirs, indexFile, fileList>>

\* RemoveDir: the files go one by one, in the order in which readdir finds them,
\* which is any.
Unlink ==
  LET q == persis.queue
      d == dirs[q]
  IN
  /\ persis.at = "unlinking"
  /\ \/ /\ d.info
        /\ dirs' = [dirs EXCEPT ![q].info = FALSE]
     \/ /\ d.offset # NoIndex
        /\ dirs' = [dirs EXCEPT ![q].offset = NoIndex]
     \/ \E kind \in {"data", "index", "consume"} : \E f \in DOMAIN d[kind] :
          dirs' = [dirs EXCEPT ![q][kind] = Drop(@, {f})]
  /\ UNCHANGED <<queues, orphans, ring, memory, persis, count>>

\* The directory itself, when it is empty.  The other two maps keep what they
\* know of the queue.
RemoveDir ==
  LET q == persis.queue IN
  /\ persis.at = "unlinking" /\ dirs[q] = NewDir
  /\ dirs' = Drop(dirs, {q})
  /\ tail' = Drop(tail, {q})
  /\ persis' = Idle
  /\ UNCHANGED <<queues, orphans, ring, indexFile, fileList, count>>
-----------------------------------------------------------------------------
(* PersistenceServer: a message is published. *)

\* Mutant: always from the beginning.
WritePositionsZero(q) == {0}

\* iWritePos.  Of a tail group whose data file is gone, stat tells nothing.
WritePositions(q) ==
  IF q \notin DOMAIN tail THEN {0}
  ELSE IF tail[q] \notin DOMAIN dirs[q].data THEN 0 .. Garbage
  ELSE LET size == Len(dirs[q].data[tail[q]]) IN IF size + 1 > FileCap THEN {0} ELSE {size}

NeedsGroup(q) ==
  \/ q \notin DOMAIN tail
  \/ tail[q] \notin DOMAIN dirs[q].data
  \/ Len(dirs[q].data[tail[q]]) + 1 > FileCap

Create(files, f) == IF f \in DOMAIN files THEN files ELSE Put(files, f, <<>>)

\* The files of group f are opened: a missing one is created, write_offset.bin
\* is emptied.
Opened(d, f) ==
  [d EXCEPT !.offset = NoIndex, !.data = Create(@, f), !.index = Create(@, f)]

\* The group is chosen, the maps updated and the files opened.
OnPublishMessage ==
  LET c == Head(ring)
      q == c.queue
      f == IF NeedsGroup(q) THEN c.index ELSE tail[q]
  IN
  /\ Take("publish")
  /\ \/ /\ q \notin DOMAIN dirs
        /\ UNCHANGED <<dirs, memory, persis>>
     \/ /\ q \in DOMAIN dirs
        /\ \E pos \in WritePositions(q) :
             persis' = [at |-> "opened", queue |-> q, index |-> c.index, id |-> c.id,
                        file |-> f, pos |-> pos]
        /\ tail' = Put(tail, q, f)
        /\ indexFile' = [indexFile EXCEPT ![q] = IF c.index \in DOMAIN @ THEN @
                                                 ELSE Put(@, c.index, f)]
        /\ fileList' = [fileList EXCEPT ![q] = IF NeedsGroup(q) THEN Append(@, f) ELSE @]
        /\ dirs' = [dirs EXCEPT ![q] = Opened(@, f)]

WriteData ==
  /\ persis.at = "opened"
  /\ dirs' = [dirs EXCEPT ![persis.queue].data[persis.file] =
                Append(@, [id |-> persis.id, index |-> persis.index])]
  /\ persis' = [persis EXCEPT !.at = "data written"]
  /\ UNCHANGED <<queues, orphans, ring, memory, count>>

WriteIndex ==
  /\ persis.at = "data written"
  /\ dirs' = [dirs EXCEPT ![persis.queue].index[persis.file] =
                Append(@, [index |-> persis.index, pos |-> persis.pos])]
  /\ persis' = [persis EXCEPT !.at = "index written"]
  /\ UNCHANGED <<queues, orphans, ring, memory, count>>

WriteOffset ==
  /\ persis.at = "index written"
  /\ dirs' = [dirs EXCEPT ![persis.queue].offset = persis.index]
  /\ persis' = Idle
  /\ UNCHANGED <<queues, orphans, ring, memory, count>>
-----------------------------------------------------------------------------
(* PersistenceServer: a message is consumed. *)

OnConsumeMessage ==
  LET c == Head(ring)
      q == c.queue
      known == q \in DOMAIN dirs /\ c.index \in DOMAIN indexFile[q]
      f == indexFile[q][c.index]
  IN
  /\ Take("consume")
  /\ \/ /\ ~known
        /\ UNCHANGED <<dirs, persis>>
     \/ /\ known
        /\ dirs' = [dirs EXCEPT ![q].consume = Put(@, f, Append(Create(@, f)[f], c.index))]
        /\ persis' = [at |-> "recorded", queue |-> q, file |-> f]
  /\ UNCHANGED memory

\* Mutant: the group goes with one message left.
AllConsumedButOne(d, f) == f \in DOMAIN d.index /\ Len(d.consume[f]) >= Len(d.index[f]) - 1

\* The sizes of the two files are compared.
AllConsumed(d, f) == f \in DOMAIN d.index /\ Len(d.consume[f]) = Len(d.index[f])

\* Mutant: the record of what is consumed goes first.
RemovalOrderConsumeFirst == <<"consume", "data", "index">>

RemovalOrder == <<"data", "index", "consume">>

CountConsumed ==
  /\ persis.at = "recorded"
  /\ persis' = IF AllConsumed(dirs[persis.queue], persis.file)
               THEN [at |-> "removing", queue |-> persis.queue, file |-> persis.file,
                     left |-> RemovalOrder]
               ELSE Idle
  /\ UNCHANGED <<queues, orphans, ring, dirs, memory, count>>

\* A file of the group is removed; after the last one the group is forgotten.
RemoveNext ==
  LET q == persis.queue
      f == persis.file
  IN
  /\ persis.at = "removing"
  /\ dirs' = [dirs EXCEPT ![q][Head(persis.left)] = Drop(@, {f})]
  /\ IF Tail(persis.left) # <<>>
     THEN /\ persis' = [persis EXCEPT !.left = Tail(@)]
          /\ UNCHANGED memory
     ELSE /\ persis' = Idle
          /\ tail' = IF q \in DOMAIN tail /\ tail[q] = f THEN Drop(tail, {q}) ELSE tail
          /\ fileList' = [fileList EXCEPT ![q] = Keep(@, ToSet(@) \ {f})]
          /\ UNCHANGED indexFile
  /\ UNCHANGED <<queues, orphans, ring, count>>
-----------------------------------------------------------------------------
(* PersistenceServer: ClearUpFile, when the ring has been found empty.  It  *)
(* goes over a copy of a queue's list and merges a group with the one       *)
(* before when more than half of each is consumed.  Only queues with two or *)
(* more groups matter; the order of the queues is the map's.                *)

Walk(q, list, prev, next) ==
  [at |-> "walking", queue |-> q, list |-> list, prev |-> prev, next |-> next]

FromStart(q, list) == IF Len(list) < 2 THEN Idle ELSE Walk(q, list, list[1], 2)

\* The iterator is at i, and *i is read and i moved on without a look at end().
\* Past the last node the list is circular and its head is no string: either
\* the process dies there or the walk begins again with an empty strPrev.
ReadAndMoveOn(q, list, i) ==
  IF i > Len(list) THEN {Down, FromStart(q, list)}
  ELSE IF i = Len(list) THEN {Idle}
  ELSE {Walk(q, list, list[i], i + 1)}

MostlyConsumed(d, f) ==
  /\ Present(d.index, f) /\ Present(d.consume, f)
  /\ 2 * Len(d.consume[f]) > Len(d.index[f])

Mergeable(d, f, g) ==
  /\ MostlyConsumed(d, f) /\ MostlyConsumed(d, g)
  /\ Present(d.data, f) /\ Present(d.data, g)

\* The entries to keep are all copied to the beginning of pIndexBuff, over one
\* another; the rest of what is written is zeros.
EntriesWritten(live) ==
  [i \in DOMAIN live |-> IF i = 1 THEN Last(live) ELSE [index |-> 0, pos |-> 0]]

DataWritten(d, f) ==
  LET live == LiveEntries(d, f)
  IN  DataAt(d, f, Keep(live, {e \in ToSet(live) : InData(d, f, e)}))

\* The live messages of both groups are moved together; positions are not
\* recomputed.
MergeFiles(d, f, g) ==
  [d EXCEPT !.data    = [Drop(@, {g}) EXCEPT ![f] = DataWritten(d, f) \o DataWritten(d, g)],
            !.index   = [Drop(@, {g}) EXCEPT ![f] = EntriesWritten(LiveEntries(d, f))
                                                     \o EntriesWritten(LiveEntries(d, g))],
            !.consume = Drop(@, {f, g})]

\* indexMap once the consumed messages are erased and the others are in f.
MergeIndex(map, d, f, g) ==
  LET gone == {e.index : e \in {x \in ToSet(d.index[f]) : x.index \in ConsumedIn(d, f)}
                                 \cup {x \in ToSet(d.index[g]) : x.index \in ConsumedIn(d, g)}}
      moved == {e.index : e \in ToSet(LiveEntries(d, g))}
  IN  [n \in (DOMAIN map \ gone) \cup moved |-> IF n \in moved THEN f ELSE map[n]]

StartClearUp(q) ==
  /\ persis = Idle /\ ring = <<>>
  /\ Len(fileList[q]) > 1
  /\ persis' = FromStart(q, fileList[q])
  /\ UNCHANGED <<queues, orphans, ring, dirs, memory, count>>

\* A merge needs ten megabytes of stack for pDataBuff: with the usual limit of
\* eight the process dies on entering MergeFiles.
ClearUpStep ==
  LET q == persis.queue
      d == dirs[q]
      f == persis.prev
      g == persis.list[persis.next]
  IN
  /\ persis.at = "walking"
  /\ \/ /\ ~(q \in DOMAIN dirs /\ Mergeable(d, f, g))
        /\ persis' \in ReadAndMoveOn(q, persis.list, persis.next + 1)
        /\ UNCHANGED <<dirs, indexFile>>
     \/ /\ q \in DOMAIN dirs /\ Mergeable(d, f, g)
        /\ persis' = Down
        /\ UNCHANGED <<dirs, indexFile>>
     \/ /\ q \in DOMAIN dirs /\ Mergeable(d, f, g)
        /\ dirs' = [dirs EXCEPT ![q] = MergeFiles(d, f, g)]
        /\ indexFile' = [indexFile EXCEPT ![q] = MergeIndex(@, d, f, g)]
        /\ persis' \in ReadAndMoveOn(q, RemoveAt(persis.list, persis.next), persis.next)
  /\ UNCHANGED <<queues, orphans, ring, tail, fileList, count>>
-----------------------------------------------------------------------------
Next ==
  \/ \E q \in Queues : CreateQueue(q) \/ DeleteQueue(q) \/ Publish(q) \/ Consume(q)
  \/ ConsumeOrphan \/ RestartLogic
  \/ KillPersis \/ StartPersis
  \/ OnCreateQueue \/ WriteInfo
  \/ OnDeleteQueue \/ Unlink \/ RemoveDir
  \/ OnPublishMessage \/ WriteData \/ WriteIndex \/ WriteOffset
  \/ OnConsumeMessage \/ CountConsumed \/ RemoveNext
  \/ \E q \in Queues : StartClearUp(q)
  \/ ClearUpStep

Spec == Init /\ [][Next]_vars
-----------------------------------------------------------------------------
\* Types, and what the names of groups are.
TypeOK ==
  LET Indexes == 0 .. MaxMessages
      Entry   == [index : Indexes, pos : Nat]
      Message == [id : Indexes, index : Indexes]
  IN
  /\ \A q \in DOMAIN queues : /\ queues[q].next \in Indexes
                              /\ ToSet(queues[q].kept) \subseteq Message
  /\ orphans \subseteq [queue : Queues, index : Indexes, id : Indexes]
  /\ DOMAIN queues \cup DOMAIN dirs \cup DOMAIN tail \subseteq Queues
  /\ Len(ring) <= RingLen
  /\ ToSet(ring) \subseteq [cmd : {"create", "delete", "publish", "consume"}, queue : Queues,
                            index : Indexes \cup {NoIndex}, id : Indexes \cup {NoIndex}]
  /\ \A q \in DOMAIN dirs :
       /\ dirs[q].info \in BOOLEAN /\ dirs[q].offset \in Indexes \cup {NoIndex}
       /\ \A f \in DOMAIN dirs[q].data : f \in Indexes /\ ToSet(dirs[q].data[f]) \subseteq Message
       /\ \A f \in DOMAIN dirs[q].index : f \in Indexes /\ ToSet(dirs[q].index[f]) \subseteq Entry
       /\ \A f \in DOMAIN dirs[q].consume :
            f \in Indexes /\ ToSet(dirs[q].consume[f]) \subseteq Indexes
  /\ persis.at \in {"idle", "down", "creating", "unlinking", "opened", "data written", "index written",
                    "recorded", "removing", "walking"}

(* When the files of a queue, and what PersistenceServer knows of them, are *)
(* in order.                                                                *)

\* Every message that counts is where its index entry says.
EntriesPoint(d) ==
  \A f \in DOMAIN d.index : \A e \in ToSet(LiveEntries(d, f)) :
    /\ f \in DOMAIN d.data /\ InData(d, f, e)
    /\ d.data[f][e.pos + 1].index = e.index

\* No index is in two entries.
EntriesDistinct(d) ==
  \A f, g \in DOMAIN d.index : \A i \in DOMAIN d.index[f], j \in DOMAIN d.index[g] :
    d.index[f][i].index = d.index[g][j].index => f = g /\ i = j

\* Only messages of the group are recorded as consumed, each of them once.
ConsumeCounts(d) ==
  \A f \in DOMAIN d.index \cap DOMAIN d.consume :
    /\ IsInjective(d.consume[f])
    /\ ConsumedIn(d, f) \subseteq {e.index : e \in ToSet(d.index[f])}

\* The maps lead to the files, and to no group a message is not in.
MemoryAgrees(q) ==
  LET d == dirs[q] IN
  persis = Down \/
    /\ \A f \in DOMAIN d.index : \A e \in ToSet(LiveEntries(d, f)) :
         e.index \in DOMAIN indexFile[q] /\ indexFile[q][e.index] = f
    /\ \A n \in DOMAIN indexFile[q] :
         LET f == indexFile[q][n] IN
         \/ f \notin DOMAIN d.index \/ \E e \in ToSet(d.index[f]) : e.index = n
         \/ persis.at \in {"opened", "data written"} /\ persis.queue = q /\ persis.index = n
    /\ q \in DOMAIN tail =>
         \/ tail[q] \in DOMAIN d.data \cap DOMAIN d.index
         \/ persis.at = "removing" /\ persis.queue = q /\ persis.file = tail[q]

\* The message being written is a new one, and goes where its entry will say.
WritingRight(q) ==
  LET d == dirs[q] IN
  persis.at \in {"opened", "data written"} /\ persis.queue = q =>
    /\ \A f \in DOMAIN d.index : \A e \in ToSet(d.index[f]) : e.index # persis.index
    /\ persis.index \in DOMAIN indexFile[q] /\ indexFile[q][persis.index] = persis.file
    /\ persis.at = "opened" => persis.pos = Len(d.data[persis.file])
    /\ persis.at = "data written" =>
         /\ persis.pos + 1 = Len(d.data[persis.file])
         /\ Last(d.data[persis.file]) = [id |-> persis.id, index |-> persis.index]

Sound(q) ==
  /\ q \in DOMAIN dirs
  /\ EntriesPoint(dirs[q]) /\ EntriesDistinct(dirs[q]) /\ ConsumeCounts(dirs[q])
  /\ MemoryAgrees(q) /\ WritingRight(q)

\* A command for an index that PersistenceServer has seen in another life of
\* the queue or of LogicServer, as a message's or as a group's name.
Repeat(c) ==
  LET d == dirs[c.queue]
      map == indexFile[c.queue]
      consumed == UNION {ConsumedIn(d, f) : f \in DOMAIN d.consume}
      stored   == {e.index : e \in UNION {ToSet(d.index[f]) : f \in DOMAIN d.index}}
  IN
  /\ c.queue \in DOMAIN dirs
  /\ \/ c.cmd = "publish" /\ c.index \in consumed \cup stored \cup DOMAIN d.data
               \cup DOMAIN d.consume \cup DOMAIN map \cup {map[n] : n \in DOMAIN map}
     \/ c.cmd = "consume" /\ c.index \in consumed

Taken == ring # <<>> /\ ring' = Tail(ring)
Merged == persis.at = "walking" /\ dirs' # dirs
Deleting(q) == persis.at = "unlinking" /\ persis.queue = q

\* OnPublishMessage, OnConsumeMessage, OnCreateQueue: kills at any point,
\* restarts of either process and lost commands leave the files of a queue in
\* order, but for three things that need not: a merge, a repeated index, and
\* the removal of the queue's directory, which takes the files in any order
\* and, cut short by a kill, leaves some of them to the next queue of the name.
StaysSound ==
  [][\A q \in Queues :
       /\ Sound(q) /\ ~Merged /\ ~Deleting(q) /\ ~(Taken /\ Repeat(Head(ring)))
       => Sound(q)']_<<dirs, memory, persis>>

\* What a restart would find of the queue.
OnDisk(q) ==
  IF q \notin DOMAIN dirs THEN {}
  ELSE LET d == dirs[q]
           groups == {f \in DOMAIN d.index : Present(d.index, f) /\ Present(d.data, f)}
       IN  UNION {ToSet(Loaded(d, f)) :
                    f \in {g \in groups : \A h \in groups : h < g => ~GivesUp(d, h)}}

\* OnConsumeMessage removes a group only when all of it is consumed: a message
\* on disk is given up only when its own consumption is recorded or the
\* directory of its queue is being removed.
NothingForgotten ==
  [][\A q \in Queues : \A m \in OnDisk(q) \ OnDisk(q)' :
       Sound(q) /\ ~Merged =>
         \/ Deleting(q)
         \/ /\ Taken
            /\ Head(ring).cmd = "consume" /\ Head(ring).queue = q /\ Head(ring).index = m.index
    ]_dirs

\* The order of the removals in OnConsumeMessage: killed between two of them,
\* PersistenceServer brings back no message that was consumed.  Only the
\* message being written becomes one to recover.  This is not said of a queue
\* whose directory is being removed: with its consume file gone and data and
\* index still there, a kill does bring consumed messages back.
NothingReturns ==
  [][\A q \in Queues : \A m \in OnDisk(q)' \ OnDisk(q) :
       Sound(q) /\ ~Merged /\ ~Deleting(q) => persis.at = "data written" /\ persis.id = m.id]_dirs

\* README.md:65: what is durable is restored after a restart, so every queue
\* that LogicServer had and whose directory says what kind of queue it is.
DurableQueuesReturn ==
  [][count'.restarts > count.restarts =>
       DOMAIN queues \cap {q \in DOMAIN dirs : dirs[q].info} \subseteq DOMAIN queues']_vars
=============================================================================
