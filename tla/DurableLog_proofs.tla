-------------------------- MODULE DurableLog_proofs --------------------------
(***************************************************************************)
(* Proofs about DurableLog, for any number of queues, file size, ring and  *)
(* bounds.                                                                 *)
(*                                                                         *)
(* First the types (TInv), which also say what PersistenceServer has done  *)
(* and not done at each place where it may be killed; then the effect of   *)
(* each step on the files of a queue that are in order (Sound).            *)
(***************************************************************************)
EXTENDS DurableLog, SeqFacts, FiniteSetTheorems

Indexes == 0 .. MaxMessages
Entry   == [index : Indexes, pos : Nat]
Message == [id : Indexes, index : Indexes]

\* The files of one kind: the groups that have one, what is in them.
IsFiles(F, S) == DOMAIN F \subseteq Indexes /\ F \in [DOMAIN F -> Seq(S)]

\* The latest message of a directory is one of the first c.
DirOK(d, c) ==
  /\ d = [info |-> d.info, offset |-> d.offset,
          data |-> d.data, index |-> d.index, consume |-> d.consume]
  /\ d.info \in BOOLEAN
  /\ d.offset \in NoIndex .. c - 1
  /\ IsFiles(d.data, Message) /\ IsFiles(d.index, Entry) /\ IsFiles(d.consume, Indexes)

DirsOK ==
  /\ DOMAIN dirs \subseteq Queues
  /\ dirs = [q \in DOMAIN dirs |-> dirs[q]]
  /\ \A q \in DOMAIN dirs : DirOK(dirs[q], count.messages)

CountOK == count \in [messages : 0 .. MaxMessages, creates : 0 .. MaxCreates,
                      kills : 0 .. MaxKills, restarts : 0 .. MaxRestarts]

Commands(c) ==
  [cmd : {"create", "delete"}, queue : Queues, index : {NoIndex}, id : {NoIndex}]
  \cup [cmd : {"publish"}, queue : Queues, index : 0 .. c - 1, id : Indexes]
  \cup [cmd : {"consume"}, queue : Queues, index : Indexes, id : Indexes]

RingOK == ring \in Seq(Commands(count.messages)) /\ Len(ring) <= RingLen

\* No queue is ahead of the messages there were.
QueueOK(r, c) ==
  /\ r = [next |-> r.next, kept |-> r.kept]
  /\ r.next \in 0 .. c
  /\ r.kept \in Seq(Message)

QueuesOK ==
  /\ DOMAIN queues \subseteq Queues
  /\ queues = [q \in DOMAIN queues |-> queues[q]]
  /\ \A q \in DOMAIN queues : QueueOK(queues[q], count.messages)
  /\ orphans \subseteq [queue : Queues, index : Indexes, id : Indexes]

MemoryOK ==
  /\ DOMAIN tail \subseteq Queues /\ tail \in [DOMAIN tail -> Indexes]
  /\ indexFile = [q \in Queues |-> indexFile[q]]
  /\ \A q \in Queues : indexFile[q] \in [DOMAIN indexFile[q] -> Indexes]

\* A message being written: the group it goes to has its files.
Writing ==
  /\ persis \in [at : {"opened", "data written", "index written"}, queue : Queues,
                 index : 0 .. count.messages - 1, id : Indexes, file : Indexes, pos : Nat]
  /\ persis.queue \in DOMAIN dirs
  /\ persis.file \in DOMAIN dirs[persis.queue].data
  /\ persis.file \in DOMAIN dirs[persis.queue].index

Recording ==
  /\ persis \in [at : {"recorded"}, queue : Queues, file : Indexes]
  /\ persis.queue \in DOMAIN dirs
  /\ persis.file \in DOMAIN dirs[persis.queue].consume

\* A group being removed: what has gone, and why the rest may go.
Removing ==
  LET d == dirs[persis.queue]
      f == persis.file
  IN
  /\ persis \in [at : {"removing"}, queue : Queues, file : Indexes,
                 left : {RemovalOrder, Tail(RemovalOrder), Tail(Tail(RemovalOrder))}]
  /\ persis.queue \in DOMAIN dirs
  /\ persis.left = RemovalOrder => f \in DOMAIN d.consume /\ AllConsumed(d, f)
  /\ persis.left = Tail(RemovalOrder) => f \notin DOMAIN d.data
  /\ persis.left = Tail(Tail(RemovalOrder)) => f \notin DOMAIN d.index

\* A directory being made or being removed: it is there.
Directing ==
  /\ persis \in [at : {"creating", "unlinking"}, queue : Queues]
  /\ persis.queue \in DOMAIN dirs

PersisOK == \/ persis \in {Idle, Down} \/ persis.at = "walking"
            \/ Writing \/ Recording \/ Removing \/ Directing

TInv == CountOK /\ QueuesOK /\ RingOK /\ DirsOK /\ MemoryOK /\ PersisOK
-----------------------------------------------------------------------------
(* Maps and files. *)

LEMMA PutFacts ==
  ASSUME NEW f, NEW k, NEW v
  PROVE  /\ DOMAIN Put(f, k, v) = DOMAIN f \cup {k}
         /\ Put(f, k, v)[k] = v
         /\ \A x \in DOMAIN f : x # k => Put(f, k, v)[x] = f[x]
         /\ Put(f, k, v) = [x \in DOMAIN f \cup {k} |-> Put(f, k, v)[x]]
BY DEF Put

LEMMA DropFacts ==
  ASSUME NEW f, NEW S
  PROVE  /\ DOMAIN Drop(f, S) = DOMAIN f \ S
         /\ \A x \in DOMAIN f \ S : Drop(f, S)[x] = f[x]
         /\ Drop(f, S) = [x \in DOMAIN f \ S |-> Drop(f, S)[x]]
BY DEF Drop

LEMMA PutFiles ==
  ASSUME NEW F, NEW S, IsFiles(F, S), NEW f \in Indexes, NEW v \in Seq(S)
  PROVE  IsFiles(Put(F, f, v), S)
BY DEF IsFiles, Put

LEMMA DropFiles ==
  ASSUME NEW F, NEW S, IsFiles(F, S), NEW T
  PROVE  IsFiles(Drop(F, T), S)
BY DEF IsFiles, Drop

LEMMA EditFiles ==
  ASSUME NEW F, NEW S, IsFiles(F, S), NEW f, NEW v \in Seq(S)
  PROVE  IsFiles([F EXCEPT ![f] = v], S) /\ DOMAIN [F EXCEPT ![f] = v] = DOMAIN F
BY DEF IsFiles

LEMMA CreateFiles ==
  ASSUME NEW F, NEW S, IsFiles(F, S), NEW f \in Indexes
  PROVE  /\ IsFiles(Create(F, f), S)
         /\ DOMAIN Create(F, f) = DOMAIN F \cup {f}
         /\ \A g \in DOMAIN F : Create(F, f)[g] = F[g]
         /\ f \notin DOMAIN F => Create(F, f)[f] = <<>>
<1>1. CASE f \in DOMAIN F
  BY <1>1 DEF Create
<1>2. CASE f \notin DOMAIN F
  <2>1. <<>> \in Seq(S)
    OBVIOUS
  <2>2. Create(F, f) = Put(F, f, <<>>)
    BY <1>2 DEF Create
  <2>3. IsFiles(Put(F, f, <<>>), S)
    BY <2>1, PutFiles
  <2>4. /\ DOMAIN Put(F, f, <<>>) = DOMAIN F \cup {f}
        /\ \A g \in DOMAIN F : Put(F, f, <<>>)[g] = F[g]
        /\ Put(F, f, <<>>)[f] = <<>>
    BY <1>2 DEF Put
  <2>5. QED
    BY <2>2, <2>3, <2>4
<1>3. QED
  BY <1>1, <1>2

LEMMA FilesOf ==
  ASSUME NEW F, NEW S, IsFiles(F, S), NEW f \in DOMAIN F
  PROVE  F[f] \in Seq(S) /\ f \in Indexes
BY DEF IsFiles

\* The least of some numbers.
LEMMA MinFacts ==
  ASSUME NEW S \in SUBSET Nat, S # {}
  PROVE  Min(S) \in S /\ \A x \in S : Min(S) <= x
<1> DEFINE R == {ss \in Nat \X Nat : ss[1] < ss[2]}
<1>1. IsWellFoundedOn(R, Nat)
  BY NatLessThanWellFounded DEF OpToRel
<1>2. PICK m \in S : \A y \in S : <<y, m>> \notin R
  <2> HIDE DEF R
  <2>1. QED
    BY <1>1, WFMin
<1>3. \A y \in S : m <= y
  <2>1. ASSUME NEW y \in S PROVE ~(y < m)
    BY <1>2
  <2>2. QED
    BY <2>1
<1>4. QED
  BY <1>3 DEF Min

-----------------------------------------------------------------------------
(* What a restart reads from a directory. *)

LEMMA SetsOfIndexes ==
  /\ IsFiniteSet(Indexes) /\ Indexes \subseteq Nat
  /\ \A S \in SUBSET Indexes : IsFiniteSet(S) /\ Cardinality(S) \in Nat
<1>1. MaxMessages \in Nat
  BY DurableLogAssumption
<1>2. IsFiniteSet(Indexes) /\ Indexes \subseteq Nat
  BY <1>1, FS_Interval DEF Indexes
<1>3. QED
  BY <1>2, FS_Subset, FS_CardinalityType

\* Names of groups can be put in order.
LEMMA SortedExists ==
  ASSUME NEW S \in SUBSET Indexes
  PROVE  SortedNames(S) \in Seq(S)
<1> DEFINE Ordered(X) == {s \in [1 .. Cardinality(X) -> X] :
                            \A i, j \in DOMAIN s : i < j => s[i] < s[j]}
           I == {n \in Nat : \A X \in SUBSET Indexes : Cardinality(X) = n => Ordered(X) # {}}
<1>1. 0 \in I
  <2>1. ASSUME NEW X \in SUBSET Indexes, Cardinality(X) = 0
        PROVE  <<>> \in Ordered(X)
    BY <2>1
  <2>2. QED
    BY <2>1
<1>2. ASSUME NEW n \in Nat, n \in I, NEW X \in SUBSET Indexes, Cardinality(X) = n + 1
      PROVE  Ordered(X) # {}
  <2>1. IsFiniteSet(X) /\ X # {}
    <3>1. IsFiniteSet(X)
      BY SetsOfIndexes
    <3>2. QED
      BY <1>2, <3>1, FS_EmptySet
  <2>2. PICK m \in X : \A x \in X : x <= m
    <3> DEFINE Y == {MaxMessages - x : x \in X}
    <3>1. MaxMessages \in Nat /\ \A x \in X : x \in Nat /\ x <= MaxMessages
      BY DurableLogAssumption DEF Indexes
    <3>2. Y \in SUBSET Nat /\ Y # {}
      BY <2>1, <3>1
    <3> HIDE DEF Y
    <3>3. Min(Y) \in Y /\ \A y \in Y : Min(Y) <= y
      BY <3>2, MinFacts
    <3>4. PICK m \in X : Min(Y) = MaxMessages - m
      BY <3>3 DEF Y
    <3>5. \A x \in X : MaxMessages - m <= MaxMessages - x
      BY <3>3, <3>4 DEF Y
    <3>6. \A x \in X : x <= m
      BY <3>1, <3>5
    <3>7. QED
      BY <3>6
  <2> DEFINE Y == X \ {m}
  <2>3. Y \in SUBSET Indexes /\ Cardinality(Y) = n
    <3>1. Cardinality(Y) = Cardinality(X) - 1
      BY <2>1, FS_RemoveElement
    <3>2. QED
      BY <1>2, <3>1
  <2>4. PICK s \in Ordered(Y) : TRUE
    <3> HIDE DEF Ordered, Y
    <3>1. QED
      BY <1>2, <2>3
  <2>5. /\ s \in [1 .. n -> Y]
        /\ \A i, j \in 1 .. n : i < j => s[i] < s[j]
    BY <2>3, <2>4
  <2>6. \A y \in Y : y \in X /\ y # m
    OBVIOUS
  <2> HIDE DEF Y, Ordered, I
  <2> DEFINE t == [i \in 1 .. n + 1 |-> IF i <= n THEN s[i] ELSE m]
  <2>61. /\ \A i \in 1 .. n : i \in 1 .. n + 1 /\ t[i] = s[i] /\ s[i] \in Y
         /\ t[n + 1] = m
         /\ \A i \in 1 .. n + 1 : i \in 1 .. n \/ i = n + 1
    BY <2>5
  <2>62. t = [i \in 1 .. n + 1 |-> t[i]]
    OBVIOUS
  <2> HIDE DEF t
  <2>63. t \in [1 .. n + 1 -> X]
    BY <2>6, <2>61, <2>62
  <2>7. ASSUME NEW i \in 1 .. n + 1, NEW j \in 1 .. n + 1, i < j
        PROVE  t[i] < t[j]
    <3>1. i \in 1 .. n
      BY <2>7
    <3>2. t[i] = s[i] /\ s[i] \in Y
      BY <2>61, <3>1
    <3>3. CASE j \in 1 .. n
      <4>1. t[j] = s[j]
        BY <2>61, <3>3
      <4>2. QED
        BY <2>5, <2>7, <3>1, <3>2, <3>3, <4>1
    <3>4. CASE j = n + 1
      <4>1. t[j] = m
        BY <2>61, <3>4
      <4>2. s[i] <= m /\ s[i] # m /\ s[i] \in Nat /\ m \in Nat
        BY <2>2, <2>6, <3>2, SetsOfIndexes
      <4>3. QED
        BY <3>2, <4>1, <4>2
    <3>5. QED
      BY <2>61, <3>3, <3>4
  <2>8. t \in Ordered(X)
    BY <1>2, <2>63, <2>7 DEF Ordered
  <2>9. QED
    BY <2>8
<1>3. \A n \in Nat : n \in I => n + 1 \in I
  BY <1>2
<1> HIDE DEF I
<1>4. \A n \in Nat : n \in I
  BY <1>1, <1>3, SetInduction
<1>5. Ordered(S) # {}
  <2>1. Cardinality(S) \in Nat
    BY SetsOfIndexes
  <2>2. QED
    BY <1>4, <2>1 DEF I
<1>6. SortedNames(S) \in [1 .. Cardinality(S) -> S]
  BY <1>5 DEF SortedNames
<1>7. QED
  BY <1>6, SetsOfIndexes

LEMMA LiveFacts ==
  ASSUME NEW d, NEW c, DirOK(d, c), NEW f \in DOMAIN d.index
  PROVE  /\ d.index[f] \in Seq(Entry)
         /\ LiveEntries(d, f) \in Seq(Entry)
         /\ ToSet(LiveEntries(d, f)) =
              {e \in ToSet(d.index[f]) : e.index \notin ConsumedIn(d, f)}
<1>1. d.index[f] \in Seq(Entry)
  BY FilesOf DEF DirOK
<1>2. QED
  BY <1>1, KeepFacts DEF LiveEntries

LEMMA DataAtFacts ==
  ASSUME NEW d, NEW c, DirOK(d, c), NEW f \in DOMAIN d.data, NEW entries \in Seq(Entry),
         \A i \in 1 .. Len(entries) : InData(d, f, entries[i])
  PROVE  /\ DataAt(d, f, entries) \in Seq(Message)
         /\ ToSet(DataAt(d, f, entries)) = {d.data[f][e.pos + 1] : e \in ToSet(entries)}
         /\ \A e \in ToSet(entries) : d.data[f][e.pos + 1] \in Message
<1>1. d.data[f] \in Seq(Message)
  BY FilesOf DEF DirOK
<1>2. \A i \in 1 .. Len(entries) : entries[i] \in Entry /\ entries[i].pos \in Nat
  <2>1. \A i \in 1 .. Len(entries) : entries[i] \in Entry
    BY ElementOfSeq
  <2>2. QED
    BY <2>1 DEF Entry
<1>3. \A i \in 1 .. Len(entries) : d.data[f][entries[i].pos + 1] \in Message
  <2> SUFFICES ASSUME NEW i \in 1 .. Len(entries)
               PROVE  d.data[f][entries[i].pos + 1] \in Message
    OBVIOUS
  <2>1. entries[i].pos + 1 \in 1 .. Len(d.data[f])
    BY <1>1, <1>2 DEF InData
  <2>2. QED
    BY <1>1, <2>1, ElementOfSeq
<1>4. DataAt(d, f, entries) = [i \in 1 .. Len(entries) |-> d.data[f][entries[i].pos + 1]]
  BY DEF DataAt
<1>5. DataAt(d, f, entries) \in Seq(Message)
  BY <1>3, <1>4
<1>6. ToSet(entries) = {entries[i] : i \in 1 .. Len(entries)}
  BY RangeFacts
<1>7. ToSet(DataAt(d, f, entries)) = {d.data[f][e.pos + 1] : e \in ToSet(entries)}
  <2>1. ToSet(DataAt(d, f, entries)) = {DataAt(d, f, entries)[i] : i \in 1 .. Len(entries)}
    BY <1>4 DEF ToSet
  <2>2. QED
    BY <1>4, <1>6, <2>1
<1>8. QED
  BY <1>3, <1>5, <1>6, <1>7

LEMMA LoadedType ==
  ASSUME NEW d, NEW c, DirOK(d, c), NEW f \in DOMAIN d.index, f \in DOMAIN d.data
  PROVE  /\ Loaded(d, f) \in Seq(Message)
         /\ ~GivesUp(d, f) =>
              ToSet(Loaded(d, f)) = {d.data[f][e.pos + 1] : e \in ToSet(LiveEntries(d, f))}
<1> DEFINE live == LiveEntries(d, f)
           bad  == {i \in 1 .. Len(live) : ~InData(d, f, live[i])}
           stop == IF bad = {} THEN Len(live) ELSE Min(bad) - 1
           cut  == SubSeq(live, 1, stop)
<1>1. live \in Seq(Entry) /\ Len(live) \in Nat
  BY LiveFacts
<1>10. DOMAIN live = 1 .. Len(live)
  BY <1>1
<1> HIDE DEF live
<1>2. stop \in 0 .. Len(live) /\ \A i \in 1 .. stop : i \in 1 .. Len(live) /\ InData(d, f, live[i])
  <2>1. CASE bad = {}
    BY <1>1, <2>1
  <2>2. CASE bad # {}
    <3>1. Min(bad) \in bad /\ \A x \in bad : Min(bad) <= x
      <4>1. bad \in SUBSET Nat
        BY <1>1
      <4> HIDE DEF bad
      <4>2. QED
        BY <2>2, <4>1, MinFacts
    <3>2. Min(bad) \in 1 .. Len(live) /\ stop = Min(bad) - 1
      BY <2>2, <3>1
    <3>3. \A i \in 1 .. stop : i \in 1 .. Len(live) /\ ~(Min(bad) <= i)
      BY <1>1, <3>2
    <3>4. QED
      BY <1>1, <3>1, <3>2, <3>3
  <2>3. QED
    BY <2>1, <2>2
<1>3. /\ cut \in Seq(Entry) /\ Len(cut) = stop
      /\ \A i \in 1 .. stop : cut[i] = live[i]
  <2> HIDE DEF stop
  <2>1. QED
    BY <1>1, <1>2, CutFacts
<1>4. Loaded(d, f) = DataAt(d, f, cut)
  BY <1>10 DEF Loaded, live
<1> HIDE DEF cut, stop, bad
<1>5. \A i \in 1 .. Len(cut) : InData(d, f, cut[i])
  BY <1>2, <1>3
<1>6. DataAt(d, f, cut) \in Seq(Message)
      /\ ToSet(DataAt(d, f, cut)) = {d.data[f][e.pos + 1] : e \in ToSet(cut)}
  BY <1>3, <1>5, DataAtFacts
<1>7. ASSUME ~GivesUp(d, f)
      PROVE  cut = live
  <2>1. \A i \in 1 .. Len(live) : live[i] \in ToSet(live)
    BY <1>1, RangeFacts
  <2>2. bad = {}
    BY <1>7, <2>1 DEF GivesUp, live, bad
  <2>3. stop = Len(live)
    BY <2>2 DEF stop
  <2>4. QED
    BY <1>1, <1>3, <2>3, SeqEqual
<1>8. QED
  BY <1>4, <1>6, <1>7 DEF live

LEMMA RecoveredType ==
  ASSUME NEW d, NEW c, DirOK(d, c)
  PROVE  Recovered(d) \in Seq(Message)
<1> DEFINE S == {f \in DOMAIN d.index : Present(d.index, f) /\ Present(d.data, f)}
           names == SortedNames(S)
           reached(i) == \A j \in 1 .. i - 1 : ~GivesUp(d, names[j])
           parts == [i \in DOMAIN names |-> IF reached(i) THEN Loaded(d, names[i]) ELSE <<>>]
<1>1. S \in SUBSET Indexes /\ \A f \in S : f \in DOMAIN d.index /\ f \in DOMAIN d.data
  BY DEF DirOK, IsFiles, Present
<1>2. Recovered(d) = Joined(parts)
  BY DEF Recovered
<1> HIDE DEF S
<1>3. names \in Seq(S)
  BY <1>1, SortedExists
<1>4. \A f \in S : Loaded(d, f) \in Seq(Message)
  BY <1>1, LoadedType
<1>5. \A i \in 1 .. Len(names) : Loaded(d, names[i]) \in Seq(Message)
  <2> HIDE DEF names
  <2>1. \A i \in 1 .. Len(names) : names[i] \in S
    BY <1>3, ElementOfSeq
  <2>2. QED
    BY <1>4, <2>1
<1> HIDE DEF names, reached
<1>6. parts \in Seq(Seq(Message))
  <2>1. <<>> \in Seq(Message) /\ DOMAIN names = 1 .. Len(names) /\ Len(names) \in Nat
    BY <1>3
  <2>2. \A i \in 1 .. Len(names) :
           (IF reached(i) THEN Loaded(d, names[i]) ELSE <<>>) \in Seq(Message)
    BY <1>5, <2>1
  <2>3. parts \in [1 .. Len(names) -> Seq(Message)]
    BY <2>1, <2>2
  <2> HIDE DEF parts
  <2>4. QED
    BY <2>1, <2>3
<1> HIDE DEF parts
<1>7. QED
  BY <1>2, <1>6, JoinedType
-----------------------------------------------------------------------------
(* What a merge writes. *)
LEMMA MergedType ==
  ASSUME NEW d, NEW c, DirOK(d, c), NEW f, NEW g, Mergeable(d, f, g)
  PROVE  /\ DirOK(MergeFiles(d, f, g), c)
         /\ g \in DOMAIN d.data /\ g \notin DOMAIN MergeFiles(d, f, g).data
         /\ f \in Indexes
<1>1. /\ f \in DOMAIN d.index /\ g \in DOMAIN d.index
      /\ f \in DOMAIN d.data /\ g \in DOMAIN d.data
  BY DEF Mergeable, MostlyConsumed, Present
<1>2. ASSUME NEW k \in {f, g}
      PROVE  DataWritten(d, k) \in Seq(Message) /\ EntriesWritten(LiveEntries(d, k)) \in Seq(Entry)
  <2> DEFINE live == LiveEntries(d, k)
             in == {e \in ToSet(live) : InData(d, k, e)}
  <2>1. live \in Seq(Entry)
    BY <1>1, <1>2, LiveFacts
  <2>2. Keep(live, in) \in Seq(Entry) /\ ToSet(Keep(live, in)) = ToSet(live) \cap in
    <3> HIDE DEF live, in
    <3>1. QED
      BY <2>1, KeepFacts
  <2>3. \A i \in 1 .. Len(Keep(live, in)) : InData(d, k, Keep(live, in)[i])
    <3>1. \A i \in 1 .. Len(Keep(live, in)) : Keep(live, in)[i] \in ToSet(Keep(live, in))
      BY <2>2, RangeFacts
    <3>2. QED
      BY <2>2, <3>1
  <2>4. DataWritten(d, k) = DataAt(d, k, Keep(live, in))
    BY DEF DataWritten
  <2>5. DataAt(d, k, Keep(live, in)) \in Seq(Message)
    <3> HIDE DEF live, in
    <3>1. k \in DOMAIN d.data
      BY <1>1, <1>2
    <3>2. QED
      BY <2>2, <2>3, <3>1, DataAtFacts
  <2> HIDE DEF live
  <2>6. EntriesWritten(live) \in Seq(Entry)
    <3>1. [index |-> 0, pos |-> 0] \in Entry
      BY DurableLogAssumption DEF Entry, Indexes
    <3>2. \A i \in 1 .. Len(live) : Last(live) \in Entry
      BY <2>1 DEF Last
    <3>3. EntriesWritten(live) = [i \in 1 .. Len(live) |->
                                    IF i = 1 THEN Last(live) ELSE [index |-> 0, pos |-> 0]]
      BY <2>1 DEF EntriesWritten
    <3>4. Len(live) \in Nat
      BY <2>1
    <3>5. QED
      BY <3>1, <3>2, <3>3, <3>4
  <2>7. QED
    BY <2>4, <2>5, <2>6 DEF live
<1> DEFINE data == DataWritten(d, f) \o DataWritten(d, g)
           entries == EntriesWritten(LiveEntries(d, f)) \o EntriesWritten(LiveEntries(d, g))
           r == MergeFiles(d, f, g)
<1>3. data \in Seq(Message) /\ entries \in Seq(Entry)
  BY <1>2, ConcatFacts
<1> HIDE DEF data, entries
<1>4. IsFiles(Drop(d.data, {g}), Message) /\ IsFiles(Drop(d.index, {g}), Entry)
      /\ IsFiles(Drop(d.consume, {f, g}), Indexes)
  BY DropFiles DEF DirOK
<1>5. /\ IsFiles([Drop(d.data, {g}) EXCEPT ![f] = data], Message)
      /\ IsFiles([Drop(d.index, {g}) EXCEPT ![f] = entries], Entry)
      /\ DOMAIN [Drop(d.data, {g}) EXCEPT ![f] = data] = DOMAIN d.data \ {g}
      /\ DOMAIN [Drop(d.index, {g}) EXCEPT ![f] = entries] = DOMAIN d.index \ {g}
  BY <1>3, <1>4, EditFiles, DropFacts
<1>6. r = [info |-> d.info, offset |-> d.offset, data |-> [Drop(d.data, {g}) EXCEPT ![f] = data],
           index |-> [Drop(d.index, {g}) EXCEPT ![f] = entries],
           consume |-> Drop(d.consume, {f, g})]
  <2> DEFINE a == [Drop(d.data, {g}) EXCEPT ![f] = data]
             b == [Drop(d.index, {g}) EXCEPT ![f] = entries]
             k == Drop(d.consume, {f, g})
  <2>1. r = [d EXCEPT !.data = a, !.index = b, !.consume = k]
    BY DEF MergeFiles, data, entries
  <2> HIDE DEF a, b, k
  <2>2. d = [info |-> d.info, offset |-> d.offset,
             data |-> d.data, index |-> d.index, consume |-> d.consume]
    BY DEF DirOK
  <2>3. r = [info |-> d.info, offset |-> d.offset, data |-> a, index |-> b, consume |-> k]
    BY <2>1, <2>2
  <2>4. QED
    BY <2>3 DEF a, b, k
<1> HIDE DEF r
<1>7. DirOK(r, c)
  BY <1>4, <1>5, <1>6 DEF DirOK
<1>8. QED
  BY <1>1, <1>5, <1>6, <1>7, FilesOf DEF r, DirOK

-----------------------------------------------------------------------------
(* What a step leaves alone. *)

\* The number of messages only grows.
More == /\ count.messages \in 0 .. MaxMessages /\ count'.messages \in 0 .. MaxMessages
        /\ count.messages <= count'.messages

LEMMA Grows ==
  ASSUME NEW a \in 0 .. MaxMessages, NEW b \in 0 .. MaxMessages, a <= b
  PROVE  /\ \A d : DirOK(d, a) => DirOK(d, b)
         /\ \A r : QueueOK(r, a) => QueueOK(r, b)
         /\ Commands(a) \subseteq Commands(b) /\ 0 .. a - 1 \subseteq 0 .. b - 1
<1>1. 0 .. a - 1 \subseteq 0 .. b - 1 /\ NoIndex .. a - 1 \subseteq NoIndex .. b - 1
      /\ 0 .. a \subseteq 0 .. b
  BY DurableLogAssumption DEF NoIndex
<1>2. Commands(a) \subseteq Commands(b)
  BY <1>1 DEF Commands
<1>3. QED
  BY <1>1, <1>2 DEF DirOK, QueueOK

LEMMA BumpFacts ==
  ASSUME CountOK, NEW what \in {"messages", "creates", "kills", "restarts"}, Bump(what),
         count[what] < CASE what = "messages" -> MaxMessages [] what = "creates" -> MaxCreates
                         [] what = "kills" -> MaxKills [] OTHER -> MaxRestarts
  PROVE  /\ CountOK' /\ More
         /\ count'.messages = IF what = "messages" THEN count.messages + 1 ELSE count.messages
<1>1. count' = [count EXCEPT ![what] = count[what] + 1]
  BY DEF Bump
<1>2. /\ count.messages \in 0 .. MaxMessages /\ count.creates \in 0 .. MaxCreates
      /\ count.kills \in 0 .. MaxKills /\ count.restarts \in 0 .. MaxRestarts
      /\ count = [messages |-> count.messages, creates |-> count.creates,
                  kills |-> count.kills, restarts |-> count.restarts]
  BY DEF CountOK
<1> DEFINE n == count[what] + 1
<1>3. CASE what = "messages"
  <2>1. count' = [messages |-> n, creates |-> count.creates,
                  kills |-> count.kills, restarts |-> count.restarts]
    BY <1>1, <1>2, <1>3
  <2>2. n = count.messages + 1 /\ n \in 0 .. MaxMessages
    BY <1>2, <1>3, DurableLogAssumption
  <2>3. QED
    BY <1>2, <1>3, <2>1, <2>2, DurableLogAssumption DEF CountOK, More
<1>4. CASE what = "creates"
  <2>1. count' = [messages |-> count.messages, creates |-> n,
                  kills |-> count.kills, restarts |-> count.restarts]
    BY <1>1, <1>2, <1>4
  <2>2. n \in 0 .. MaxCreates
    BY <1>2, <1>4, DurableLogAssumption
  <2>3. QED
    BY <1>2, <1>4, <2>1, <2>2, DurableLogAssumption DEF CountOK, More
<1>5. CASE what = "kills"
  <2>1. count' = [messages |-> count.messages, creates |-> count.creates,
                  kills |-> n, restarts |-> count.restarts]
    BY <1>1, <1>2, <1>5
  <2>2. n \in 0 .. MaxKills
    BY <1>2, <1>5, DurableLogAssumption
  <2>3. QED
    BY <1>2, <1>5, <2>1, <2>2, DurableLogAssumption DEF CountOK, More
<1>6. CASE what = "restarts"
  <2>1. count' = [messages |-> count.messages, creates |-> count.creates,
                  kills |-> count.kills, restarts |-> n]
    BY <1>1, <1>2, <1>6
  <2>2. n \in 0 .. MaxRestarts
    BY <1>2, <1>6, DurableLogAssumption
  <2>3. QED
    BY <1>2, <1>6, <2>1, <2>2, DurableLogAssumption DEF CountOK, More
<1>7. QED
  BY <1>3, <1>4, <1>5, <1>6

LEMMA StepCount ==
  ASSUME CountOK, [Next]_vars
  PROVE  CountOK' /\ More
<1>1. CASE UNCHANGED count
  BY <1>1, DurableLogAssumption DEF CountOK, More
<1>2. CASE \E q \in Queues : Publish(q)
  <2>1. count.messages < MaxMessages /\ Bump("messages")
    BY <1>2 DEF Publish
  <2>2. QED
    BY <2>1, BumpFacts
<1>3. CASE \E q \in Queues : CreateQueue(q)
  <2>1. count.creates < MaxCreates /\ Bump("creates")
    BY <1>3 DEF CreateQueue
  <2>2. QED
    BY <2>1, BumpFacts
<1>4. CASE KillPersis
  <2>1. count.kills < MaxKills /\ Bump("kills")
    BY <1>4 DEF KillPersis
  <2>2. QED
    BY <2>1, BumpFacts
<1>5. CASE RestartLogic
  <2>1. count.restarts < MaxRestarts /\ Bump("restarts")
    BY <1>5 DEF RestartLogic
  <2>2. QED
    BY <2>1, BumpFacts
<1>6. UNCHANGED count \/ (\E q \in Queues : Publish(q)) \/ (\E q \in Queues : CreateQueue(q))
        \/ KillPersis \/ RestartLogic
  BY DEF Next, vars, DeleteQueue, Consume, ConsumeOrphan, StartPersis, Take, OnCreateQueue,
         OnDeleteQueue, OnPublishMessage, WriteData, WriteIndex, WriteOffset, OnConsumeMessage,
         CountConsumed, RemoveNext, StartClearUp, ClearUpStep, WriteInfo, Unlink, RemoveDir
<1>7. QED
  BY <1>1, <1>2, <1>3, <1>4, <1>5, <1>6

LEMMA QuietQueues ==
  ASSUME QueuesOK, More, UNCHANGED <<queues, orphans>>
  PROVE  QueuesOK'
BY Grows DEF QueuesOK, More

LEMMA QuietRing ==
  ASSUME RingOK, More, UNCHANGED ring
  PROVE  RingOK'
<1>1. Commands(count.messages) \subseteq Commands(count'.messages)
  BY Grows DEF More
<1>2. ring \in Seq(Commands(count'.messages))
  BY <1>1 DEF RingOK
<1>3. QED
  BY <1>2 DEF RingOK

LEMMA QuietDirs ==
  ASSUME DirsOK, More, UNCHANGED dirs
  PROVE  DirsOK'
BY Grows DEF DirsOK, More

LEMMA QuietMemory ==
  ASSUME MemoryOK, UNCHANGED <<tail, indexFile>>
  PROVE  MemoryOK'
BY DEF MemoryOK

LEMMA QuietPersis ==
  ASSUME PersisOK, More, UNCHANGED <<dirs, persis>>
  PROVE  PersisOK'
<1>1. 0 .. count.messages - 1 \subseteq 0 .. count'.messages - 1
  BY Grows DEF More
<1>2. Writing => Writing'
  BY <1>1 DEF Writing
<1>3. Recording => Recording'
  BY DEF Recording
<1>4. Removing => Removing'
  BY DEF Removing, AllConsumed
<1>5. Directing => Directing'
  BY DEF Directing
<1>6. QED
  BY <1>2, <1>3, <1>4, <1>5 DEF PersisOK

\* The command fits the ring or is lost.
LEMMA SendKeeps ==
  ASSUME RingOK, More, NEW cmd, NEW q, NEW index, NEW id,
         [cmd |-> cmd, queue |-> q, index |-> index, id |-> id] \in Commands(count'.messages),
         Send(cmd, q, index, id)
  PROVE  RingOK'
<1> DEFINE C == Commands(count'.messages)
           r == [cmd |-> cmd, queue |-> q, index |-> index, id |-> id]
<1>1. ring \in Seq(C)
  <2>1. Commands(count.messages) \subseteq C
    BY Grows DEF More
  <2>2. QED
    BY <2>1 DEF RingOK
<1>2. r \in C
  OBVIOUS
<1>3. CASE HasRoom
  <2>1. ring' = Append(ring, r)
    BY <1>3 DEF Send
  <2> HIDE DEF C, r
  <2>2. ring' \in Seq(C) /\ Len(ring') = Len(ring) + 1 /\ Len(ring) \in Nat
    BY <1>1, <1>2, <2>1, AppendFacts
  <2>3. Len(ring') <= RingLen
    BY <1>3, <2>2, DurableLogAssumption DEF HasRoom
  <2>4. QED
    BY <2>2, <2>3 DEF RingOK, C
<1>4. CASE ~HasRoom
  <2>1. ring' = ring
    BY <1>4 DEF Send
  <2>2. QED
    BY <1>1, <2>1 DEF RingOK, C
<1>5. QED
  BY <1>3, <1>4

\* One directory is changed, or one is added.
LEMMA EditDirs ==
  ASSUME DirsOK, UNCHANGED count, NEW q \in DOMAIN dirs, NEW d, DirOK(d, count.messages),
         dirs' = [dirs EXCEPT ![q] = d]
  PROVE  /\ DirsOK' /\ DOMAIN dirs' = DOMAIN dirs /\ dirs'[q] = d
         /\ \A p \in DOMAIN dirs : p # q => dirs'[p] = dirs[p]
<1>1. dirs = [p \in DOMAIN dirs |-> dirs[p]]
  BY DEF DirsOK
<1>2. /\ DOMAIN dirs' = DOMAIN dirs /\ dirs'[q] = d
      /\ \A p \in DOMAIN dirs : p # q => dirs'[p] = dirs[p]
      /\ dirs' = [p \in DOMAIN dirs |-> dirs'[p]]
  BY <1>1
<1>3. QED
  BY <1>2 DEF DirsOK

LEMMA PutDirs ==
  ASSUME DirsOK, UNCHANGED count, NEW q \in Queues, NEW d, DirOK(d, count.messages),
         dirs' = Put(dirs, q, d)
  PROVE  DirsOK'
<1>1. /\ DOMAIN dirs' = DOMAIN dirs \cup {q} /\ dirs'[q] = d
      /\ \A p \in DOMAIN dirs : p # q => dirs'[p] = dirs[p]
      /\ dirs' = [p \in DOMAIN dirs \cup {q} |-> dirs'[p]]
  BY DEF Put
<1>2. QED
  BY <1>1 DEF DirsOK

LEMMA DropDirs ==
  ASSUME DirsOK, UNCHANGED count, NEW S, dirs' = Drop(dirs, S)
  PROVE  DirsOK'
<1>1. /\ DOMAIN dirs' = DOMAIN dirs \ S
      /\ \A p \in DOMAIN dirs \ S : dirs'[p] = dirs[p]
      /\ dirs' = [p \in DOMAIN dirs \ S |-> dirs'[p]]
  BY DEF Drop
<1>2. QED
  BY <1>1 DEF DirsOK

LEMMA NoFiles ==
  ASSUME NEW c \in Nat
  PROVE  DirOK(NewDir, c)
<1>1. IsFiles(EmptyMap, Message) /\ IsFiles(EmptyMap, Entry) /\ IsFiles(EmptyMap, Indexes)
  BY DEF IsFiles, EmptyMap
<1>2. NoIndex \in NoIndex .. c - 1
  BY DEF NoIndex
<1>3. QED
  BY <1>1, <1>2 DEF DirOK, NewDir

-----------------------------------------------------------------------------
(* The types are kept: the steps of LogicServer. *)

\* LogicServer has changed its own queues and the ring.
LEMMA LogicKeeps ==
  ASSUME TInv, More, CountOK', UNCHANGED <<dirs, memory, persis>>, QueuesOK', RingOK'
  PROVE  TInv'
<1>1. UNCHANGED <<tail, indexFile>> /\ UNCHANGED dirs /\ UNCHANGED <<dirs, persis>>
  BY DEF memory
<1>2. DirsOK' /\ MemoryOK' /\ PersisOK'
  BY <1>1, QuietDirs, QuietMemory, QuietPersis DEF TInv
<1>3. QED
  BY <1>2 DEF TInv

\* One queue is added or changed.
LEMMA PutQueues ==
  ASSUME QueuesOK, More, NEW q \in Queues, NEW r, QueueOK(r, count'.messages),
         \/ queues' = Put(queues, q, r)
         \/ q \in DOMAIN queues /\ queues' = [queues EXCEPT ![q] = r],
         UNCHANGED orphans
  PROVE  QueuesOK'
<1>1. /\ DOMAIN queues' = DOMAIN queues \cup {q} /\ queues'[q] = r
      /\ \A p \in DOMAIN queues : p # q => queues'[p] = queues[p]
      /\ queues' = [p \in DOMAIN queues \cup {q} |-> queues'[p]]
  <2>1. queues = [p \in DOMAIN queues |-> queues[p]]
    BY DEF QueuesOK
  <2>2. CASE queues' = Put(queues, q, r)
    BY <2>2 DEF Put
  <2>3. CASE q \in DOMAIN queues /\ queues' = [queues EXCEPT ![q] = r]
    BY <2>1, <2>3
  <2>4. QED
    BY <2>2, <2>3
<1>2. \A p \in DOMAIN queues : QueueOK(queues[p], count'.messages)
  BY Grows DEF QueuesOK, More
<1>3. QED
  BY <1>1, <1>2 DEF QueuesOK

LEMMA CreateQueueTypes ==
  ASSUME TInv, More, CountOK', NEW q \in Queues, CreateQueue(q)
  PROVE  TInv'
<1> DEFINE r == [next |-> 0, kept |-> <<>>]
<1>1. queues' = Put(queues, q, r) /\ UNCHANGED orphans
  BY DEF CreateQueue
<1>2. QueueOK(r, count'.messages)
  BY DEF QueueOK, More
<1> HIDE DEF r
<1>3. QueuesOK'
  BY <1>1, <1>2, PutQueues DEF TInv
<1>4. Send("create", q, NoIndex, NoIndex) /\ UNCHANGED <<dirs, memory, persis>>
  BY DEF CreateQueue
<1>5. [cmd |-> "create", queue |-> q, index |-> NoIndex, id |-> NoIndex]
        \in Commands(count'.messages)
  BY DEF Commands
<1>6. RingOK'
  BY <1>4, <1>5, SendKeeps DEF TInv
<1>7. QED
  BY <1>3, <1>4, <1>6, LogicKeeps

LEMMA DeleteQueueTypes ==
  ASSUME TInv, More, CountOK', NEW q \in Queues, DeleteQueue(q)
  PROVE  TInv'
<1>1. q \in DOMAIN queues /\ queues' = Drop(queues, {q}) /\ UNCHANGED count
      /\ UNCHANGED <<dirs, memory, persis>>
  BY DEF DeleteQueue
<1>2. QueueOK(queues[q], count.messages)
  BY <1>1 DEF TInv, QueuesOK
<1>3. ToSet(queues[q].kept) \subseteq Message
  BY <1>2, RangeFacts DEF QueueOK
<1>4. PICK S \in SUBSET ToSet(queues[q].kept) :
        orphans' = orphans \cup {[queue |-> q, index |-> m.index, id |-> m.id] : m \in S}
  BY DEF DeleteQueue
<1>5. orphans' \subseteq [queue : Queues, index : Indexes, id : Indexes]
  <2>1. \A m \in S : m \in Message
    BY <1>3
  <2>2. \A m \in S : m.index \in Indexes /\ m.id \in Indexes
    BY <2>1 DEF Message
  <2>3. orphans \subseteq [queue : Queues, index : Indexes, id : Indexes]
    BY DEF TInv, QueuesOK
  <2>4. QED
    BY <1>4, <2>2, <2>3
<1>6. QueuesOK'
  <2>1. /\ DOMAIN queues' = DOMAIN queues \ {q}
        /\ \A p \in DOMAIN queues \ {q} : queues'[p] = queues[p]
        /\ queues' = [p \in DOMAIN queues \ {q} |-> queues'[p]]
    BY <1>1 DEF Drop
  <2>2. QED
    BY <1>1, <1>5, <2>1 DEF TInv, QueuesOK
<1>7. RingOK'
  <2>1. Send("delete", q, NoIndex, NoIndex)
    BY DEF DeleteQueue
  <2>2. [cmd |-> "delete", queue |-> q, index |-> NoIndex, id |-> NoIndex]
          \in Commands(count'.messages)
    BY DEF Commands
  <2>3. QED
    BY <2>1, <2>2, SendKeeps DEF TInv
<1>8. QED
  BY <1>1, <1>6, <1>7, LogicKeeps

LEMMA PublishTypes ==
  ASSUME TInv, More, CountOK', NEW q \in Queues, Publish(q)
  PROVE  TInv'
<1> DEFINE m == [id |-> count.messages, index |-> queues[q].next]
           r == [next |-> queues[q].next + 1, kept |-> Append(queues[q].kept, m)]
<1>1. /\ q \in DOMAIN queues /\ count.messages < MaxMessages /\ Bump("messages")
      /\ queues' = [queues EXCEPT ![q] = r]
      /\ Send("publish", q, m.index, m.id)
      /\ UNCHANGED orphans /\ UNCHANGED <<dirs, memory, persis>>
  BY DEF Publish
<1>2. count'.messages = count.messages + 1
  BY <1>1, BumpFacts DEF TInv
<1>3. QueueOK(queues[q], count.messages)
  BY <1>1 DEF TInv, QueuesOK
<1>4. count.messages \in 0 .. MaxMessages /\ MaxMessages \in Nat
  BY DurableLogAssumption DEF More
<1>5. queues[q].next \in 0 .. count.messages /\ queues[q].kept \in Seq(Message)
  BY <1>3 DEF QueueOK
<1>6. m.index = queues[q].next /\ m.id = count.messages /\ m \in Message
  BY <1>4, <1>5 DEF Message, Indexes
<1>7. Append(queues[q].kept, m) \in Seq(Message)
  <2> HIDE DEF m
  <2>1. QED
    BY <1>5, <1>6, AppendFacts
<1>8. QueueOK(r, count'.messages)
  <2>1. r.next = queues[q].next + 1 /\ r.kept = Append(queues[q].kept, m)
        /\ r = [next |-> r.next, kept |-> r.kept]
    OBVIOUS
  <2> HIDE DEF m, r
  <2>2. QED
    BY <1>2, <1>4, <1>5, <1>7, <2>1 DEF QueueOK
<1>9. QueuesOK'
  <2> HIDE DEF r
  <2>1. QED
    BY <1>1, <1>8, PutQueues DEF TInv
<1>10. [cmd |-> "publish", queue |-> q, index |-> m.index, id |-> m.id]
         \in Commands(count'.messages)
  <2>1. m.index \in 0 .. count'.messages - 1 /\ m.id \in Indexes
    BY <1>2, <1>4, <1>5, <1>6 DEF Indexes
  <2> HIDE DEF m
  <2>2. QED
    BY <2>1 DEF Commands
<1>11. RingOK'
  <2> HIDE DEF m
  <2>1. QED
    BY <1>1, <1>10, SendKeeps DEF TInv
<1>12. QED
  BY <1>1, <1>9, <1>11, LogicKeeps

LEMMA RemoveAtType ==
  ASSUME NEW X, NEW s \in Seq(X), NEW i \in 1 .. Len(s)
  PROVE  RemoveAt(s, i) \in Seq(X)
<1>1. i - 1 \in 0 .. Len(s) /\ i \in 0 .. Len(s)
  OBVIOUS
<1>2. SubSeq(s, 1, i - 1) \in Seq(X) /\ SubSeq(s, i + 1, Len(s)) \in Seq(X)
  BY <1>1, CutFacts
<1>3. QED
  BY <1>2, ConcatFacts DEF RemoveAt

LEMMA ConsumeTypes ==
  ASSUME TInv, More, CountOK', NEW q \in Queues, Consume(q)
  PROVE  TInv'
<1>1. PICK i \in DOMAIN queues[q].kept :
        /\ queues' = [queues EXCEPT ![q].kept = RemoveAt(@, i)]
        /\ Send("consume", q, queues[q].kept[i].index, queues[q].kept[i].id)
  BY DEF Consume
<1>2. q \in DOMAIN queues /\ UNCHANGED orphans /\ UNCHANGED <<dirs, memory, persis>>
  BY DEF Consume
<1> DEFINE r == [next |-> queues[q].next, kept |-> RemoveAt(queues[q].kept, i)]
<1>3. QueueOK(queues[q], count.messages)
  BY <1>2 DEF TInv, QueuesOK
<1>4. queues[q].kept \in Seq(Message) /\ i \in 1 .. Len(queues[q].kept)
      /\ queues[q] = [next |-> queues[q].next, kept |-> queues[q].kept]
  BY <1>3 DEF QueueOK
<1>5. [queues EXCEPT ![q].kept = RemoveAt(@, i)] = [queues EXCEPT ![q] = r]
  <2>1. [queues[q] EXCEPT !.kept = RemoveAt(queues[q].kept, i)] = r
    BY <1>4
  <2> HIDE DEF r
  <2>2. QED
    BY <2>1
<1>6. QueueOK(r, count'.messages)
  <2>1. QueueOK(queues[q], count'.messages)
    BY <1>3, Grows DEF More
  <2>2. RemoveAt(queues[q].kept, i) \in Seq(Message)
    BY <1>4, RemoveAtType
  <2>3. QED
    BY <2>1, <2>2 DEF QueueOK
<1>7. QueuesOK'
  <2> HIDE DEF r
  <2>1. QED
    BY <1>1, <1>2, <1>5, <1>6, PutQueues DEF TInv
<1>8. RingOK'
  <2>1. queues[q].kept[i] \in Message
    BY <1>4, ElementOfSeq
  <2>2. queues[q].kept[i].index \in Indexes /\ queues[q].kept[i].id \in Indexes
    BY <2>1 DEF Message
  <2>3. \A a \in Indexes, b \in Indexes :
          [cmd |-> "consume", queue |-> q, index |-> a, id |-> b] \in Commands(count'.messages)
    BY DEF Commands
  <2>4. QED
    BY <1>1, <2>2, <2>3, SendKeeps DEF TInv
<1>9. QED
  BY <1>2, <1>7, <1>8, LogicKeeps

LEMMA ConsumeOrphanTypes ==
  ASSUME TInv, More, CountOK', ConsumeOrphan
  PROVE  TInv'
<1>1. PICK m \in orphans : orphans' = orphans \ {m} /\ Send("consume", m.queue, m.index, m.id)
  BY DEF ConsumeOrphan
<1>2. UNCHANGED queues /\ UNCHANGED count /\ UNCHANGED <<dirs, memory, persis>>
  BY DEF ConsumeOrphan
<1>3. m \in [queue : Queues, index : Indexes, id : Indexes]
  BY DEF TInv, QueuesOK
<1>4. QueuesOK'
  BY <1>1, <1>2 DEF TInv, QueuesOK
<1>5. [cmd |-> "consume", queue |-> m.queue, index |-> m.index, id |-> m.id]
        \in Commands(count'.messages)
  BY <1>3 DEF Commands
<1>6. RingOK'
  BY <1>1, <1>5, SendKeeps DEF TInv
<1>7. QED
  BY <1>2, <1>4, <1>6, LogicKeeps

LEMMA RestartLogicTypes ==
  ASSUME TInv, More, CountOK', RestartLogic
  PROVE  TInv'
<1>1. /\ queues' = [q \in Restorable |->
                     [next |-> dirs[q].offset + 1, kept |-> Recovered(dirs[q])]]
      /\ orphans' = {} /\ UNCHANGED ring /\ UNCHANGED <<dirs, memory, persis>>
  BY DEF RestartLogic
<1>2. Restorable \subseteq Queues /\ Restorable \subseteq DOMAIN dirs
  BY DEF TInv, DirsOK, Restorable
<1>3. ASSUME NEW q \in Restorable
      PROVE  QueueOK([next |-> dirs[q].offset + 1, kept |-> Recovered(dirs[q])], count'.messages)
  <2>1. DirOK(dirs[q], count.messages)
    BY <1>2 DEF TInv, DirsOK
  <2>2. DirOK(dirs[q], count'.messages)
    BY <2>1, Grows DEF More
  <2>3. Recovered(dirs[q]) \in Seq(Message)
    BY <2>2, RecoveredType
  <2>4. dirs[q].offset + 1 \in 0 .. count'.messages
    <3>1. dirs[q].offset \in NoIndex .. count'.messages - 1 /\ dirs[q].offset # NoIndex
      BY <2>2 DEF DirOK, Restorable
    <3>2. count'.messages \in Nat
      BY DEF More
    <3>3. QED
      BY <3>1, <3>2 DEF NoIndex
  <2>5. QED
    BY <2>3, <2>4 DEF QueueOK
<1>4. QueuesOK'
  <2>1. /\ DOMAIN queues' = Restorable
        /\ \A q \in Restorable : queues'[q] =
             [next |-> dirs[q].offset + 1, kept |-> Recovered(dirs[q])]
        /\ queues' = [q \in Restorable |-> queues'[q]]
    BY <1>1
  <2>2. QED
    BY <1>1, <1>2, <1>3, <2>1 DEF QueuesOK
<1>5. RingOK'
  BY <1>1, QuietRing DEF TInv
<1>6. QED
  BY <1>1, <1>4, <1>5, LogicKeeps

-----------------------------------------------------------------------------
(* The steps of PersistenceServer, and what each does to a directory.       *)

WithOffset(d, n) ==
  [info |-> d.info, offset |-> n, data |-> d.data, index |-> d.index, consume |-> d.consume]
WithData(d, F) ==
  [info |-> d.info, offset |-> d.offset, data |-> F, index |-> d.index, consume |-> d.consume]
WithIndex(d, F) ==
  [info |-> d.info, offset |-> d.offset, data |-> d.data, index |-> F, consume |-> d.consume]
WithConsume(d, F) ==
  [info |-> d.info, offset |-> d.offset, data |-> d.data, index |-> d.index, consume |-> F]

LEMMA WithFacts ==
  ASSUME NEW d, NEW c, DirOK(d, c), NEW F
  PROVE  /\ [d EXCEPT !.offset = F] = WithOffset(d, F)
         /\ [d EXCEPT !.data = F] = WithData(d, F)
         /\ [d EXCEPT !.index = F] = WithIndex(d, F)
         /\ [d EXCEPT !.consume = F] = WithConsume(d, F)
         /\ F \in NoIndex .. c - 1 => DirOK(WithOffset(d, F), c)
         /\ IsFiles(F, Message) => DirOK(WithData(d, F), c)
         /\ IsFiles(F, Entry) => DirOK(WithIndex(d, F), c)
         /\ IsFiles(F, Indexes) => DirOK(WithConsume(d, F), c)
<1>1. d = [info |-> d.info, offset |-> d.offset,
             data |-> d.data, index |-> d.index, consume |-> d.consume]
  BY DEF DirOK
<1>2. /\ [d EXCEPT !.offset = F] = WithOffset(d, F)
      /\ [d EXCEPT !.data = F] = WithData(d, F)
      /\ [d EXCEPT !.index = F] = WithIndex(d, F)
      /\ [d EXCEPT !.consume = F] = WithConsume(d, F)
  BY <1>1 DEF WithOffset, WithData, WithIndex, WithConsume
<1>3. /\ F \in NoIndex .. c - 1 => DirOK(WithOffset(d, F), c)
      /\ IsFiles(F, Message) => DirOK(WithData(d, F), c)
      /\ IsFiles(F, Entry) => DirOK(WithIndex(d, F), c)
      /\ IsFiles(F, Indexes) => DirOK(WithConsume(d, F), c)
  BY DEF DirOK, WithOffset, WithData, WithIndex, WithConsume
<1>4. QED
  BY <1>2, <1>3

\* info.bin is emptied, or its kind written.
LEMMA InfoFacts ==
  ASSUME NEW d, NEW c, DirOK(d, c), NEW b \in BOOLEAN, NEW e, e = [d EXCEPT !.info = b]
  PROVE  /\ DirOK(e, c)
         /\ e.data = d.data /\ e.index = d.index /\ e.consume = d.consume
<1>1. d = [info |-> d.info, offset |-> d.offset,
           data |-> d.data, index |-> d.index, consume |-> d.consume]
  BY DEF DirOK
<1>2. e = [info |-> b, offset |-> d.offset,
           data |-> d.data, index |-> d.index, consume |-> d.consume]
  BY <1>1
<1>3. /\ e.info \in BOOLEAN /\ e.offset = d.offset
      /\ e.data = d.data /\ e.index = d.index /\ e.consume = d.consume
  BY <1>2
<1>4. e = [info |-> e.info, offset |-> e.offset,
           data |-> e.data, index |-> e.index, consume |-> e.consume]
  BY <1>2
<1>5. QED
  BY <1>3, <1>4 DEF DirOK

LEMMA ServerKeeps ==
  ASSUME TInv, More, CountOK', UNCHANGED <<queues, orphans>>,
         RingOK', DirsOK', MemoryOK', PersisOK'
  PROVE  TInv'
BY QuietQueues DEF TInv

LEMMA KillPersisTypes ==
  ASSUME TInv, More, CountOK', KillPersis
  PROVE  TInv'
<1>1. persis' = Down /\ UNCHANGED <<queues, orphans>> /\ UNCHANGED ring /\ UNCHANGED dirs
      /\ UNCHANGED <<tail, indexFile>>
  BY DEF KillPersis, memory
<1>2. PersisOK'
  BY <1>1 DEF PersisOK
<1>3. QED
  BY <1>1, <1>2, QuietRing, QuietDirs, QuietMemory, ServerKeeps DEF TInv

\* The maps of PersistenceServer once InitFileInfo has read a directory.
LEMMA KnownAgain ==
  ASSUME NEW d, NEW c, DirOK(d, c)
  PROVE  LET Holding(n) == {f \in DOMAIN d.index : \E e \in ToSet(d.index[f]) : e.index = n}
             known == UNION {{e.index : e \in ToSet(d.index[f])} : f \in DOMAIN d.index}
         IN  \A n \in known : /\ Min(Holding(n)) \in Holding(n)
                              /\ Holding(n) \subseteq Indexes
<1> DEFINE Holding(n) == {f \in DOMAIN d.index : \E e \in ToSet(d.index[f]) : e.index = n}
           known == UNION {{e.index : e \in ToSet(d.index[f])} : f \in DOMAIN d.index}
<1>1. ASSUME NEW n \in known
      PROVE  Min(Holding(n)) \in Holding(n) /\ Holding(n) \subseteq Indexes
  <2>1. Holding(n) # {}
    OBVIOUS
  <2>2. Holding(n) \subseteq Indexes
    BY DEF DirOK, IsFiles
  <2> HIDE DEF Holding
  <2>3. Holding(n) \in SUBSET Nat
    BY <2>2, SetsOfIndexes
  <2>4. QED
    BY <2>1, <2>2, <2>3, MinFacts
<1>2. QED
  BY <1>1

LEMMA StartPersisTypes ==
  ASSUME TInv, More, CountOK', StartPersis
  PROVE  TInv'
<1>1. persis' = Idle /\ tail' = EmptyMap
      /\ UNCHANGED <<queues, orphans>> /\ UNCHANGED ring /\ UNCHANGED dirs
  BY DEF StartPersis
<1>2. DOMAIN tail' = {} /\ tail' \in [DOMAIN tail' -> Indexes]
  BY <1>1 DEF EmptyMap
<1>3. indexFile' = [q \in Queues |-> indexFile'[q]]
  BY DEF StartPersis
<1>4. ASSUME NEW q \in Queues
      PROVE  indexFile'[q] \in [DOMAIN indexFile'[q] -> Indexes]
  <2>1. CASE q \notin DOMAIN dirs
    BY <2>1 DEF StartPersis, EmptyMap
  <2>2. CASE q \in DOMAIN dirs
    <3> DEFINE files == dirs[q].index
               Holding(n) == {f \in DOMAIN files : \E e \in ToSet(files[f]) : e.index = n}
               known == UNION {{e.index : e \in ToSet(files[f])} : f \in DOMAIN files}
    <3>1. indexFile'[q] = [n \in known |-> Min(Holding(n))]
      BY <2>2 DEF StartPersis
    <3>2. DirOK(dirs[q], count.messages)
      BY <2>2 DEF TInv, DirsOK
    <3>3. \A n \in known : Min(Holding(n)) \in Holding(n) /\ Holding(n) \subseteq Indexes
      BY <3>2, KnownAgain
    <3> HIDE DEF Holding, known, files
    <3>4. \A n \in known : Min(Holding(n)) \in Indexes
      BY <3>3
    <3>5. QED
      BY <3>1, <3>4
  <2>3. QED
    BY <2>1, <2>2
<1>5. MemoryOK'
  BY <1>2, <1>3, <1>4 DEF MemoryOK
<1>6. PersisOK'
  BY <1>1 DEF PersisOK
<1>7. QED
  BY <1>1, <1>5, <1>6, QuietRing, QuietDirs, ServerKeeps DEF TInv

LEMMA TakeFacts ==
  ASSUME TInv, NEW cmd, Take(cmd)
  PROVE  /\ persis = Idle /\ UNCHANGED <<queues, orphans>> /\ UNCHANGED count
         /\ RingOK' /\ Head(ring) \in Commands(count.messages)
         /\ Head(ring).cmd = cmd /\ Head(ring).queue \in Queues
<1>1. /\ persis = Idle /\ ring # <<>> /\ Head(ring).cmd = cmd /\ ring' = Tail(ring)
      /\ UNCHANGED <<queues, orphans>> /\ UNCHANGED count
  BY DEF Take
<1>2. ring \in Seq(Commands(count.messages)) /\ Len(ring) <= RingLen
  BY DEF TInv, RingOK
<1>3. /\ Tail(ring) \in Seq(Commands(count.messages))
      /\ Head(ring) \in Commands(count.messages)
      /\ Len(Tail(ring)) = Len(ring) - 1 /\ Len(ring) \in Nat
  BY <1>1, <1>2, TailFacts
<1>4. RingOK'
  BY <1>1, <1>2, <1>3, DurableLogAssumption DEF RingOK
<1>5. Head(ring).queue \in Queues
  BY <1>3 DEF Commands
<1>6. QED
  BY <1>1, <1>3, <1>4, <1>5

LEMMA OnCreateQueueTypes ==
  ASSUME TInv, More, CountOK', OnCreateQueue
  PROVE  TInv'
<1>1. PICK q, d, e : /\ q = Head(ring).queue /\ d = (IF q \in DOMAIN dirs THEN dirs[q] ELSE NewDir)
                     /\ e = [d EXCEPT !.info = FALSE]
  OBVIOUS
<1>2. /\ Take("create") /\ UNCHANGED <<tail, indexFile>> /\ dirs' = Put(dirs, q, e)
      /\ persis' = [at |-> "creating", queue |-> q]
  BY <1>1 DEF OnCreateQueue, memory
<1>3. UNCHANGED <<queues, orphans>> /\ UNCHANGED count /\ RingOK' /\ q \in Queues
  BY <1>1, <1>2, TakeFacts
<1>4. DirOK(d, count.messages)
  <2>1. CASE q \in DOMAIN dirs
    BY <1>1, <2>1 DEF TInv, DirsOK
  <2>2. CASE q \notin DOMAIN dirs
    BY <1>1, <2>2, NoFiles DEF More
  <2>3. QED
    BY <2>1, <2>2
<1>5. DirOK(e, count.messages)
  BY <1>1, <1>4, InfoFacts
<1>6. DirsOK'
  BY <1>2, <1>3, <1>5, PutDirs DEF TInv
<1>7. PersisOK'
  <2>1. q \in DOMAIN dirs'
    BY <1>2 DEF Put
  <2>2. persis' \in [at : {"creating", "unlinking"}, queue : Queues] /\ persis'.queue = q
    BY <1>2, <1>3
  <2>3. QED
    BY <2>1, <2>2 DEF PersisOK, Directing
<1>8. QED
  BY <1>2, <1>3, <1>6, <1>7, QuietMemory, ServerKeeps DEF TInv

\* Where PersistenceServer is, of what it says it does.
LEMMA PersisAt ==
  /\ Idle.at = "idle" /\ Down.at = "down"
  /\ Writing => persis.at \in {"opened", "data written", "index written"}
  /\ Recording => persis.at = "recorded"
  /\ Removing => persis.at = "removing"
  /\ Directing => persis.at \in {"creating", "unlinking"}
<1>1. Idle.at = "idle" /\ Down.at = "down"
  BY DEF Idle, Down
<1>2. Writing => persis.at \in {"opened", "data written", "index written"}
  BY DEF Writing
<1>3. Recording => persis.at = "recorded"
  BY DEF Recording
<1>4. Removing => persis.at = "removing"
  BY DEF Removing
<1>5. Directing => persis.at \in {"creating", "unlinking"}
  BY DEF Directing
<1>6. QED
  BY <1>1, <1>2, <1>3, <1>4, <1>5

\* PersistenceServer makes or removes a directory.
LEMMA DirectingNow ==
  ASSUME TInv, persis.at \in {"creating", "unlinking"}
  PROVE  Directing /\ persis.queue \in Queues /\ DirOK(dirs[persis.queue], count.messages)
<1>1. Directing
  BY PersisAt DEF TInv, PersisOK
<1>2. QED
  BY <1>1 DEF Directing, TInv, DirsOK

LEMMA WriteInfoTypes ==
  ASSUME TInv, More, CountOK', WriteInfo
  PROVE  TInv'
<1>1. /\ persis.at = "creating" /\ persis' = Idle /\ UNCHANGED <<queues, orphans>>
      /\ UNCHANGED ring /\ UNCHANGED <<tail, indexFile>> /\ UNCHANGED count
  BY DEF WriteInfo, memory
<1>2. PICK q, d, e : q = persis.queue /\ d = dirs[q] /\ e = [d EXCEPT !.info = TRUE]
  OBVIOUS
<1>3. q \in DOMAIN dirs /\ DirOK(d, count.messages)
  BY <1>1, <1>2, DirectingNow DEF Directing
<1>4. DirOK(e, count.messages)
  BY <1>2, <1>3, InfoFacts
<1>5. dirs' = [dirs EXCEPT ![q] = e]
  BY <1>2 DEF WriteInfo
<1>6. DirsOK'
  BY <1>1, <1>3, <1>4, <1>5, EditDirs DEF TInv
<1>7. PersisOK'
  BY <1>1 DEF PersisOK
<1>8. QED
  BY <1>1, <1>6, <1>7, QuietRing, QuietMemory, ServerKeeps DEF TInv

\* A queue loses its tail.
LEMMA DropTail ==
  ASSUME MemoryOK, NEW q, tail' = Drop(tail, {q}), UNCHANGED indexFile
  PROVE  MemoryOK'
<1>1. /\ DOMAIN tail' = DOMAIN tail \ {q}
      /\ \A p \in DOMAIN tail \ {q} : tail'[p] = tail[p]
      /\ tail' = [p \in DOMAIN tail \ {q} |-> tail'[p]]
  BY DEF Drop
<1>2. DOMAIN tail \subseteq Queues /\ tail \in [DOMAIN tail -> Indexes]
  BY DEF MemoryOK
<1>3. DOMAIN tail' \subseteq Queues /\ tail' \in [DOMAIN tail' -> Indexes]
  BY <1>1, <1>2
<1>4. QED
  BY <1>3 DEF MemoryOK

LEMMA OnDeleteQueueTypes ==
  ASSUME TInv, More, CountOK', OnDeleteQueue
  PROVE  TInv'
<1>1. PICK q : q = Head(ring).queue
  OBVIOUS
<1>2. /\ Take("delete") /\ UNCHANGED dirs /\ UNCHANGED indexFile
      /\ \/ q \in DOMAIN dirs /\ persis' = [at |-> "unlinking", queue |-> q] /\ UNCHANGED tail
         \/ tail' = Drop(tail, {q}) /\ UNCHANGED persis
  BY <1>1 DEF OnDeleteQueue
<1>3. /\ persis = Idle /\ UNCHANGED <<queues, orphans>> /\ UNCHANGED count
      /\ RingOK' /\ q \in Queues
  BY <1>1, <1>2, TakeFacts
<1>4. DirsOK'
  BY <1>2, QuietDirs DEF TInv
<1>5. MemoryOK'
  BY <1>2, DropTail, QuietMemory DEF TInv
<1>6. PersisOK'
  <2>1. CASE q \in DOMAIN dirs /\ persis' = [at |-> "unlinking", queue |-> q]
    <3>1. persis' \in [at : {"creating", "unlinking"}, queue : Queues] /\ persis'.queue = q
      BY <1>3, <2>1
    <3>2. QED
      BY <1>2, <2>1, <3>1 DEF PersisOK, Directing
  <2>2. CASE UNCHANGED persis
    BY <1>3, <2>2 DEF PersisOK
  <2>3. QED
    BY <1>2, <2>1, <2>2
<1>7. QED
  BY <1>3, <1>4, <1>5, <1>6, ServerKeeps

\* One file of the directory d goes: e is what is left.
LEMMA UnlinkEffect ==
  ASSUME TInv, Unlink
  PROVE  \E q, e : /\ q = persis.queue /\ q \in DOMAIN dirs /\ DirOK(e, count.messages)
                   /\ Directing /\ persis.at = "unlinking" /\ dirs' = [dirs EXCEPT ![q] = e]
                   /\ UNCHANGED <<queues, orphans>> /\ UNCHANGED ring
                   /\ UNCHANGED <<tail, indexFile>> /\ UNCHANGED persis /\ UNCHANGED count
<1>1. /\ persis.at = "unlinking" /\ UNCHANGED <<queues, orphans>> /\ UNCHANGED ring
      /\ UNCHANGED <<tail, indexFile>> /\ UNCHANGED persis /\ UNCHANGED count
  BY DEF Unlink, memory
<1>2. PICK q, d : q = persis.queue /\ d = dirs[q]
  OBVIOUS
<1>3. Directing /\ q \in DOMAIN dirs /\ DirOK(d, count.messages)
  BY <1>1, <1>2, DirectingNow DEF Directing
<1>4. \/ dirs' = [dirs EXCEPT ![q] = [d EXCEPT !.info = FALSE]]
      \/ dirs' = [dirs EXCEPT ![q] = [d EXCEPT !.offset = NoIndex]]
      \/ \E f : dirs' = [dirs EXCEPT ![q] = [d EXCEPT !.data = Drop(d.data, {f})]]
      \/ \E f : dirs' = [dirs EXCEPT ![q] = [d EXCEPT !.index = Drop(d.index, {f})]]
      \/ \E f : dirs' = [dirs EXCEPT ![q] = [d EXCEPT !.consume = Drop(d.consume, {f})]]
  BY <1>2 DEF Unlink
<1>5. ASSUME NEW e, DirOK(e, count.messages), dirs' = [dirs EXCEPT ![q] = e]
      PROVE  \E p, r : /\ p = persis.queue /\ p \in DOMAIN dirs /\ DirOK(r, count.messages)
                       /\ Directing /\ persis.at = "unlinking" /\ dirs' = [dirs EXCEPT ![p] = r]
                       /\ UNCHANGED <<queues, orphans>> /\ UNCHANGED ring
                       /\ UNCHANGED <<tail, indexFile>> /\ UNCHANGED persis /\ UNCHANGED count
  BY <1>1, <1>2, <1>3, <1>5
<1>6. count.messages \in Nat
  BY DurableLogAssumption DEF TInv, CountOK
<1>7. NoIndex \in NoIndex .. count.messages - 1
  BY <1>6 DEF NoIndex
<1>8. \A f : /\ IsFiles(Drop(d.data, {f}), Message) /\ IsFiles(Drop(d.index, {f}), Entry)
             /\ IsFiles(Drop(d.consume, {f}), Indexes)
  BY <1>3, DropFiles DEF DirOK
<1>9. CASE dirs' = [dirs EXCEPT ![q] = [d EXCEPT !.info = FALSE]]
  <2>1. DirOK([d EXCEPT !.info = FALSE], count.messages)
    BY <1>3, InfoFacts
  <2>2. QED
    BY <1>5, <1>9, <2>1
<1>10. CASE dirs' = [dirs EXCEPT ![q] = [d EXCEPT !.offset = NoIndex]]
  <2>1. PICK n : n = NoIndex
    OBVIOUS
  <2>3. [d EXCEPT !.offset = n] = WithOffset(d, n) /\ DirOK(WithOffset(d, n), count.messages)
    BY <1>3, <1>7, <2>1, WithFacts
  <2>2. QED
    BY <1>5, <1>10, <2>1, <2>3
<1>11. ASSUME NEW f, dirs' = [dirs EXCEPT ![q] = [d EXCEPT !.data = Drop(d.data, {f})]]
       PROVE  \E e : DirOK(e, count.messages) /\ dirs' = [dirs EXCEPT ![q] = e]
  <2>1. PICK F : F = Drop(d.data, {f})
    OBVIOUS
  <2>2. [d EXCEPT !.data = F] = WithData(d, F) /\ DirOK(WithData(d, F), count.messages)
    BY <1>3, <1>8, <2>1, WithFacts
  <2>3. QED
    BY <1>11, <2>1, <2>2
<1>12. ASSUME NEW f, dirs' = [dirs EXCEPT ![q] = [d EXCEPT !.index = Drop(d.index, {f})]]
       PROVE  \E e : DirOK(e, count.messages) /\ dirs' = [dirs EXCEPT ![q] = e]
  <2>1. PICK F : F = Drop(d.index, {f})
    OBVIOUS
  <2>2. [d EXCEPT !.index = F] = WithIndex(d, F) /\ DirOK(WithIndex(d, F), count.messages)
    BY <1>3, <1>8, <2>1, WithFacts
  <2>3. QED
    BY <1>12, <2>1, <2>2
<1>13. ASSUME NEW f, dirs' = [dirs EXCEPT ![q] = [d EXCEPT !.consume = Drop(d.consume, {f})]]
       PROVE  \E e : DirOK(e, count.messages) /\ dirs' = [dirs EXCEPT ![q] = e]
  <2>1. PICK F : F = Drop(d.consume, {f})
    OBVIOUS
  <2>2. [d EXCEPT !.consume = F] = WithConsume(d, F) /\ DirOK(WithConsume(d, F), count.messages)
    BY <1>3, <1>8, <2>1, WithFacts
  <2>3. QED
    BY <1>13, <2>1, <2>2
<1>14. QED
  BY <1>4, <1>5, <1>9, <1>10, <1>11, <1>12, <1>13

LEMMA UnlinkTypes ==
  ASSUME TInv, More, CountOK', Unlink
  PROVE  TInv'
<1>1. PICK q, e : /\ q = persis.queue /\ q \in DOMAIN dirs /\ DirOK(e, count.messages)
                  /\ Directing /\ persis.at = "unlinking" /\ dirs' = [dirs EXCEPT ![q] = e]
                  /\ UNCHANGED <<queues, orphans>> /\ UNCHANGED ring
                  /\ UNCHANGED <<tail, indexFile>> /\ UNCHANGED persis /\ UNCHANGED count
  BY UnlinkEffect
<1>2. DirsOK' /\ DOMAIN dirs' = DOMAIN dirs
  BY <1>1, EditDirs DEF TInv
<1>3. Directing'
  BY <1>1, <1>2 DEF Directing
<1>4. QED
  BY <1>1, <1>2, <1>3, QuietRing, QuietMemory, ServerKeeps DEF TInv, PersisOK

LEMMA RemoveDirTypes ==
  ASSUME TInv, More, CountOK', RemoveDir
  PROVE  TInv'
<1>1. PICK q : q = persis.queue
  OBVIOUS
<1>2. /\ dirs' = Drop(dirs, {q}) /\ tail' = Drop(tail, {q}) /\ persis' = Idle
      /\ UNCHANGED <<queues, orphans>> /\ UNCHANGED ring /\ UNCHANGED indexFile /\ UNCHANGED count
  BY <1>1 DEF RemoveDir
<1>3. DirsOK' /\ MemoryOK'
  BY <1>2, DropDirs, DropTail DEF TInv
<1>4. PersisOK'
  BY <1>2 DEF PersisOK
<1>5. QED
  BY <1>2, <1>3, <1>4, QuietRing, ServerKeeps DEF TInv

\* A command's fields.
LEMMA CommandFields ==
  ASSUME NEW c \in Nat, NEW m \in Commands(c)
  PROVE  /\ m.cmd = "publish" => m.index \in 0 .. c - 1 /\ m.id \in Indexes
         /\ m.cmd = "consume" => m.index \in Indexes /\ m.id \in Indexes
BY DEF Commands

LEMMA OpenedFacts ==
  ASSUME NEW d, NEW c \in Nat, DirOK(d, c), NEW f \in Indexes
  PROVE  /\ DirOK(Opened(d, f), c)
         /\ f \in DOMAIN Opened(d, f).data /\ f \in DOMAIN Opened(d, f).index
         /\ Opened(d, f) = [info |-> d.info, offset |-> NoIndex, data |-> Create(d.data, f),
                            index |-> Create(d.index, f), consume |-> d.consume]
<1>1. /\ IsFiles(Create(d.data, f), Message) /\ DOMAIN Create(d.data, f) = DOMAIN d.data \cup {f}
      /\ IsFiles(Create(d.index, f), Entry) /\ DOMAIN Create(d.index, f) = DOMAIN d.index \cup {f}
  BY CreateFiles DEF DirOK
<1>2. NoIndex \in NoIndex .. c - 1
  BY DEF NoIndex
<1> DEFINE n == NoIndex
           a == Create(d.data, f)
           b == Create(d.index, f)
           r == Opened(d, f)
<1>3. r = [d EXCEPT !.offset = n, !.data = a, !.index = b]
  BY DEF Opened
<1>4. d = [info |-> d.info, offset |-> d.offset,
             data |-> d.data, index |-> d.index, consume |-> d.consume]
  BY DEF DirOK
<1>5. r = [info |-> d.info, offset |-> n, data |-> a, index |-> b, consume |-> d.consume]
  <2> HIDE DEF n, a, b, r
  <2>1. QED
    BY <1>3, <1>4
<1>6. DirOK(r, c)
  <2> HIDE DEF r
  <2>1. QED
    BY <1>1, <1>2, <1>5 DEF DirOK
<1>7. QED
  <2> HIDE DEF r
  <2>1. r.data = a /\ r.index = b
    BY <1>5
  <2>2. QED
    BY <1>1, <1>5, <1>6, <2>1 DEF r

LEMMA OpenEffect ==
  ASSUME TInv, More, OnPublishMessage, NEW c, c = Head(ring), NEW q, q = c.queue, NEW f,
         f = IF NeedsGroup(q) THEN c.index ELSE tail[q]
  PROVE  /\ Take("publish") /\ UNCHANGED count /\ persis = Idle
         /\ UNCHANGED <<queues, orphans>> /\ RingOK' /\ q \in Queues
         /\ c.index \in 0 .. count.messages - 1 /\ c.id \in Indexes /\ f \in Indexes
         /\ \/ q \notin DOMAIN dirs /\ UNCHANGED dirs /\ UNCHANGED <<tail, indexFile>>
                 /\ UNCHANGED fileList /\ UNCHANGED persis
            \/ /\ q \in DOMAIN dirs
               /\ dirs' = [dirs EXCEPT ![q] = Opened(dirs[q], f)]
               /\ tail' = Put(tail, q, f)
               /\ indexFile' = [indexFile EXCEPT ![q] =
                                  IF c.index \in DOMAIN indexFile[q] THEN indexFile[q]
                                  ELSE Put(indexFile[q], c.index, f)]
               /\ \E pos \in WritePositions(q) :
                    persis' = [at |-> "opened", queue |-> q, index |-> c.index, id |-> c.id,
                               file |-> f, pos |-> pos]
<1>1. Take("publish")
  BY DEF OnPublishMessage
<1>2. /\ UNCHANGED count /\ persis = Idle /\ UNCHANGED <<queues, orphans>> /\ RingOK'
      /\ q \in Queues /\ c \in Commands(count.messages) /\ c.cmd = "publish"
  BY <1>1, TakeFacts
<1>3. count.messages \in 0 .. MaxMessages /\ MaxMessages \in Nat
  BY DurableLogAssumption DEF More
<1>4. c.index \in 0 .. count.messages - 1 /\ c.id \in Indexes
  BY <1>2, <1>3, CommandFields
<1>5. f \in Indexes
  <2>1. CASE NeedsGroup(q)
    BY <1>3, <1>4, <2>1 DEF Indexes
  <2>2. CASE ~NeedsGroup(q)
    <3>1. q \in DOMAIN tail /\ f = tail[q]
      BY <2>2 DEF NeedsGroup
    <3>2. QED
      BY <3>1 DEF TInv, MemoryOK
  <2>3. QED
    BY <2>1, <2>2
<1>6. CASE q \notin DOMAIN dirs
  <2>1. UNCHANGED <<dirs, memory, persis>>
    BY <1>6 DEF OnPublishMessage
  <2>2. QED
    BY <1>1, <1>2, <1>4, <1>5, <1>6, <2>1 DEF memory
<1>7. CASE q \in DOMAIN dirs
  <2>1. /\ dirs' = [dirs EXCEPT ![q] = Opened(@, f)]
        /\ tail' = Put(tail, q, f)
        /\ indexFile' = [indexFile EXCEPT ![q] = IF c.index \in DOMAIN @ THEN @
                                                 ELSE Put(@, c.index, f)]
        /\ \E pos \in WritePositions(q) :
             persis' = [at |-> "opened", queue |-> q, index |-> c.index, id |-> c.id,
                        file |-> f, pos |-> pos]
    BY <1>7 DEF OnPublishMessage
  <2>2. dirs' = [dirs EXCEPT ![q] = Opened(dirs[q], f)]
    BY <2>1
  <2>3. QED
    BY <1>1, <1>2, <1>4, <1>5, <1>7, <2>1, <2>2
<1>8. QED
  BY <1>6, <1>7

LEMMA PositionsAreNumbers ==
  ASSUME TInv, NEW q, q \in DOMAIN dirs
  PROVE  WritePositions(q) \subseteq Nat
<1>1. CASE q \notin DOMAIN tail
  BY <1>1 DEF WritePositions
<1>2. CASE q \in DOMAIN tail /\ tail[q] \notin DOMAIN dirs[q].data
  BY <1>2, DurableLogAssumption DEF WritePositions, Garbage
<1>3. CASE q \in DOMAIN tail /\ tail[q] \in DOMAIN dirs[q].data
  <2>1. dirs[q].data[tail[q]] \in Seq(Message)
    BY <1>3, FilesOf DEF TInv, DirsOK, DirOK
  <2>2. Len(dirs[q].data[tail[q]]) \in Nat
    BY <2>1
  <2>3. QED
    BY <1>3, <2>2 DEF WritePositions
<1>4. QED
  BY <1>1, <1>2, <1>3

LEMMA OnPublishMessageTypes ==
  ASSUME TInv, More, CountOK', OnPublishMessage
  PROVE  TInv'
<1> DEFINE c == Head(ring)
           q == c.queue
           f == IF NeedsGroup(q) THEN c.index ELSE tail[q]
<1>1. /\ Take("publish") /\ UNCHANGED count /\ persis = Idle
      /\ UNCHANGED <<queues, orphans>> /\ RingOK' /\ q \in Queues
      /\ c.index \in 0 .. count.messages - 1 /\ c.id \in Indexes /\ f \in Indexes
      /\ \/ q \notin DOMAIN dirs /\ UNCHANGED dirs /\ UNCHANGED <<tail, indexFile>>
                 /\ UNCHANGED fileList /\ UNCHANGED persis
         \/ /\ q \in DOMAIN dirs
            /\ dirs' = [dirs EXCEPT ![q] = Opened(dirs[q], f)]
            /\ tail' = Put(tail, q, f)
            /\ indexFile' = [indexFile EXCEPT ![q] =
                               IF c.index \in DOMAIN indexFile[q] THEN indexFile[q]
                               ELSE Put(indexFile[q], c.index, f)]
            /\ \E pos \in WritePositions(q) :
                 persis' = [at |-> "opened", queue |-> q, index |-> c.index, id |-> c.id,
                            file |-> f, pos |-> pos]
  BY OpenEffect
<1>2. CASE q \notin DOMAIN dirs
  <2>1. UNCHANGED dirs /\ UNCHANGED <<tail, indexFile>> /\ persis' = Idle
    BY <1>1, <1>2
  <2>2. PersisOK'
    BY <2>1 DEF PersisOK
  <2>3. QED
    BY <1>1, <2>1, <2>2, QuietDirs, QuietMemory, ServerKeeps DEF TInv
<1>3. CASE q \in DOMAIN dirs
  <2>1. PICK ci \in 0 .. count.messages - 1 : ci = c.index
    BY <1>1
  <2>2. PICK id \in Indexes : id = c.id
    BY <1>1
  <2>3. PICK w \in Indexes : w = f
    BY <1>1
  <2>4. PICK p \in Queues : p = q
    BY <1>1
  <2>5. /\ p \in DOMAIN dirs /\ dirs' = [dirs EXCEPT ![p] = Opened(dirs[p], w)]
        /\ tail' = Put(tail, p, w)
        /\ indexFile' = [indexFile EXCEPT ![p] = IF ci \in DOMAIN indexFile[p] THEN indexFile[p]
                                                 ELSE Put(indexFile[p], ci, w)]
    BY <1>1, <1>3, <2>1, <2>3, <2>4
  <2>6. PICK pos \in Nat : persis' = [at |-> "opened", queue |-> p, index |-> ci, id |-> id,
                                      file |-> w, pos |-> pos]
    BY <1>1, <1>3, <2>1, <2>2, <2>3, <2>4, PositionsAreNumbers
  <2> HIDE DEF c, q, f
  <2>7. DirOK(dirs[p], count.messages) /\ count.messages \in Nat
    BY <2>5 DEF TInv, DirsOK, More
  <2>8. /\ DirOK(Opened(dirs[p], w), count.messages)
        /\ w \in DOMAIN Opened(dirs[p], w).data /\ w \in DOMAIN Opened(dirs[p], w).index
    BY <2>7, OpenedFacts
  <2>9. DirsOK' /\ DOMAIN dirs' = DOMAIN dirs /\ dirs'[p] = Opened(dirs[p], w)
    BY <1>1, <2>5, <2>8, EditDirs DEF TInv
  <2>10. MemoryOK'
    <3>1. DOMAIN tail \subseteq Queues /\ tail \in [DOMAIN tail -> Indexes]
      BY DEF TInv, MemoryOK
    <3>2. DOMAIN tail' \subseteq Queues /\ tail' \in [DOMAIN tail' -> Indexes]
      BY <2>5, <3>1 DEF Put
    <3>3. indexFile[p] \in [DOMAIN indexFile[p] -> Indexes]
      BY DEF TInv, MemoryOK
    <3> DEFINE map == IF ci \in DOMAIN indexFile[p] THEN indexFile[p]
                      ELSE Put(indexFile[p], ci, w)
    <3>4. map \in [DOMAIN map -> Indexes]
      BY <3>3 DEF Put
    <3>5. indexFile' = [indexFile EXCEPT ![p] = map]
      BY <2>5
    <3> HIDE DEF map
    <3>6. indexFile = [x \in Queues |-> indexFile[x]]
      BY DEF TInv, MemoryOK
    <3>7. indexFile' = [x \in Queues |-> IF x = p THEN map ELSE indexFile[x]]
      BY <3>5, <3>6
    <3>8. indexFile' = [x \in Queues |-> indexFile'[x]]
          /\ \A x \in Queues : indexFile'[x] \in [DOMAIN indexFile'[x] -> Indexes]
      BY <3>4, <3>7 DEF TInv, MemoryOK
    <3>9. QED
      BY <3>2, <3>8 DEF MemoryOK
  <2>11. Writing'
    BY <1>1, <2>5, <2>6, <2>8, <2>9 DEF Writing
  <2>12. QED
    BY <1>1, <2>9, <2>10, <2>11, ServerKeeps DEF PersisOK
<1>4. QED
  BY <1>2, <1>3

LEMMA EarlierIndexes ==
  ASSUME NEW n \in 0 .. MaxMessages
  PROVE  n \in Nat /\ \A i \in 0 .. n - 1 : i \in Indexes
BY DurableLogAssumption DEF Indexes

\* A message that is being written.
LEMMA WritingNow ==
  ASSUME TInv, persis.at \in {"opened", "data written", "index written"}
  PROVE  /\ Writing
         /\ DirOK(dirs[persis.queue], count.messages)
         /\ persis = [at |-> persis.at, queue |-> persis.queue, index |-> persis.index,
                      id |-> persis.id, file |-> persis.file, pos |-> persis.pos]
         /\ persis.index \in 0 .. count.messages - 1 /\ persis.index \in Indexes
         /\ persis.id \in Indexes /\ persis.pos \in Nat /\ count.messages \in Nat
<1>1. Writing
  BY PersisAt DEF TInv, PersisOK
<1>2. DirOK(dirs[persis.queue], count.messages)
  BY <1>1 DEF Writing, TInv, DirsOK
<1>3. persis \in [at : {"opened", "data written", "index written"}, queue : Queues,
                  index : 0 .. count.messages - 1, id : Indexes, file : Indexes, pos : Nat]
  BY <1>1 DEF Writing
<1>4. count.messages \in 0 .. MaxMessages
  BY DEF TInv, CountOK
<1>5. persis = [at |-> persis.at, queue |-> persis.queue, index |-> persis.index,
                id |-> persis.id, file |-> persis.file, pos |-> persis.pos]
  BY <1>3
<1>6. persis.index \in 0 .. count.messages - 1 /\ persis.id \in Indexes /\ persis.pos \in Nat
  BY <1>3
<1>7. persis.index \in Indexes /\ count.messages \in Nat
  BY <1>4, <1>6, EarlierIndexes
<1>8. QED
  BY <1>1, <1>2, <1>5, <1>6, <1>7

LEMMA WriteDataEffect ==
  ASSUME TInv, WriteData
  PROVE  \E q, f, d, m, e :
           /\ q = persis.queue /\ f = persis.file /\ d = dirs[q]
           /\ m = [id |-> persis.id, index |-> persis.index]
           /\ e = WithData(d, [d.data EXCEPT ![f] = Append(d.data[f], m)])
           /\ q \in DOMAIN dirs /\ f \in DOMAIN d.data /\ f \in DOMAIN d.index /\ m \in Message
           /\ DirOK(d, count.messages) /\ DirOK(e, count.messages)
           /\ Writing /\ persis.at = "opened" /\ dirs' = [dirs EXCEPT ![q] = e]
           /\ persis' = [at |-> "data written", queue |-> q, index |-> persis.index,
                         id |-> persis.id, file |-> f, pos |-> persis.pos]
           /\ UNCHANGED <<queues, orphans>> /\ UNCHANGED ring /\ UNCHANGED memory
           /\ UNCHANGED <<tail, indexFile>> /\ UNCHANGED count
<1>1. /\ persis.at = "opened" /\ persis' = [persis EXCEPT !.at = "data written"]
      /\ UNCHANGED <<queues, orphans>> /\ UNCHANGED ring /\ UNCHANGED memory
      /\ UNCHANGED <<tail, indexFile>> /\ UNCHANGED count
  BY DEF WriteData, memory
<1>2. PICK q, f, d, m : /\ q = persis.queue /\ f = persis.file /\ d = dirs[q]
                        /\ m = [id |-> persis.id, index |-> persis.index]
  OBVIOUS
<1>3. PICK F : F = [d.data EXCEPT ![f] = Append(d.data[f], m)]
  OBVIOUS
<1>4. /\ Writing /\ DirOK(d, count.messages)
      /\ persis = [at |-> persis.at, queue |-> persis.queue, index |-> persis.index,
                   id |-> persis.id, file |-> persis.file, pos |-> persis.pos]
      /\ persis.index \in Indexes /\ persis.id \in Indexes
  BY <1>1, <1>2, WritingNow
<1>5. persis' = [at |-> "data written", queue |-> q, index |-> persis.index,
                 id |-> persis.id, file |-> f, pos |-> persis.pos]
  BY <1>1, <1>2, <1>4
<1>6. q \in DOMAIN dirs /\ f \in DOMAIN d.data /\ f \in DOMAIN d.index
  BY <1>2, <1>4 DEF Writing
<1>7. m \in Message
  BY <1>2, <1>4 DEF Message
<1>8. IsFiles(F, Message)
  <2>1. IsFiles(d.data, Message)
    BY <1>4 DEF DirOK
  <2>2. Append(d.data[f], m) \in Seq(Message)
    BY <1>6, <1>7, <2>1, FilesOf, AppendFacts
  <2>3. IsFiles(F, Message) /\ DOMAIN F = DOMAIN d.data
    BY <1>3, <2>1, <2>2, EditFiles
  <2>4. QED
    BY <1>4, <2>3 DEF DirOK
<1>9. DirOK(WithData(d, F), count.messages) /\ [d EXCEPT !.data = F] = WithData(d, F)
  BY <1>4, <1>8, WithFacts
<1>10. dirs' = [dirs EXCEPT ![q] = [d EXCEPT !.data = F]]
  BY <1>2, <1>3 DEF WriteData
<1>11. PICK e : e = WithData(d, F)
  OBVIOUS
<1>12. e = WithData(d, [d.data EXCEPT ![f] = Append(d.data[f], m)])
  BY <1>3, <1>11
<1>13. DirOK(e, count.messages) /\ dirs' = [dirs EXCEPT ![q] = e]
  BY <1>9, <1>10, <1>11
<1>14. Writing /\ DirOK(d, count.messages)
  BY <1>4
<1>15. QED
  BY <1>1, <1>2, <1>5, <1>6, <1>7, <1>12, <1>13, <1>14, Zenon

LEMMA WriteIndexEffect ==
  ASSUME TInv, WriteIndex
  PROVE  \E q, f, d, m, e :
           /\ q = persis.queue /\ f = persis.file /\ d = dirs[q]
           /\ m = [index |-> persis.index, pos |-> persis.pos]
           /\ e = WithIndex(d, [d.index EXCEPT ![f] = Append(d.index[f], m)])
           /\ q \in DOMAIN dirs /\ f \in DOMAIN d.data /\ f \in DOMAIN d.index /\ m \in Entry
           /\ DirOK(d, count.messages) /\ DirOK(e, count.messages)
           /\ Writing /\ persis.at = "data written" /\ dirs' = [dirs EXCEPT ![q] = e]
           /\ persis' = [at |-> "index written", queue |-> q, index |-> persis.index,
                         id |-> persis.id, file |-> f, pos |-> persis.pos]
           /\ UNCHANGED <<queues, orphans>> /\ UNCHANGED ring /\ UNCHANGED memory
           /\ UNCHANGED <<tail, indexFile>> /\ UNCHANGED count
<1>1. /\ persis.at = "data written" /\ persis' = [persis EXCEPT !.at = "index written"]
      /\ UNCHANGED <<queues, orphans>> /\ UNCHANGED ring /\ UNCHANGED memory
      /\ UNCHANGED <<tail, indexFile>> /\ UNCHANGED count
  BY DEF WriteIndex, memory
<1>2. PICK q, f, d, m : /\ q = persis.queue /\ f = persis.file /\ d = dirs[q]
                        /\ m = [index |-> persis.index, pos |-> persis.pos]
  OBVIOUS
<1>3. PICK F : F = [d.index EXCEPT ![f] = Append(d.index[f], m)]
  OBVIOUS
<1>4. /\ Writing /\ DirOK(d, count.messages)
      /\ persis = [at |-> persis.at, queue |-> persis.queue, index |-> persis.index,
                   id |-> persis.id, file |-> persis.file, pos |-> persis.pos]
      /\ persis.index \in Indexes /\ persis.pos \in Nat
  BY <1>1, <1>2, WritingNow
<1>5. persis' = [at |-> "index written", queue |-> q, index |-> persis.index,
                 id |-> persis.id, file |-> f, pos |-> persis.pos]
  BY <1>1, <1>2, <1>4
<1>6. q \in DOMAIN dirs /\ f \in DOMAIN d.data /\ f \in DOMAIN d.index
  BY <1>2, <1>4 DEF Writing
<1>7. m \in Entry
  BY <1>2, <1>4 DEF Entry
<1>8. IsFiles(F, Entry)
  <2>1. IsFiles(d.index, Entry)
    BY <1>4 DEF DirOK
  <2>2. Append(d.index[f], m) \in Seq(Entry)
    BY <1>6, <1>7, <2>1, FilesOf, AppendFacts
  <2>3. IsFiles(F, Entry) /\ DOMAIN F = DOMAIN d.index
    BY <1>3, <2>1, <2>2, EditFiles
  <2>4. QED
    BY <1>4, <2>3 DEF DirOK
<1>9. DirOK(WithIndex(d, F), count.messages) /\ [d EXCEPT !.index = F] = WithIndex(d, F)
  BY <1>4, <1>8, WithFacts
<1>10. dirs' = [dirs EXCEPT ![q] = [d EXCEPT !.index = F]]
  BY <1>2, <1>3 DEF WriteIndex
<1>11. PICK e : e = WithIndex(d, F)
  OBVIOUS
<1>12. e = WithIndex(d, [d.index EXCEPT ![f] = Append(d.index[f], m)])
  BY <1>3, <1>11
<1>13. DirOK(e, count.messages) /\ dirs' = [dirs EXCEPT ![q] = e]
  BY <1>9, <1>10, <1>11
<1>14. Writing /\ DirOK(d, count.messages)
  BY <1>4
<1>15. QED
  BY <1>1, <1>2, <1>5, <1>6, <1>7, <1>12, <1>13, <1>14, Zenon

\* A message stays one that is being written.
LEMMA WritingOn ==
  ASSUME TInv, Writing, UNCHANGED count, UNCHANGED <<queues, orphans>>, UNCHANGED ring,
         UNCHANGED <<tail, indexFile>>, NEW q, NEW f, NEW e, q = persis.queue, f = persis.file,
         q \in DOMAIN dirs, dirs' = [dirs EXCEPT ![q] = e], DirOK(e, count.messages),
         f \in DOMAIN e.data, f \in DOMAIN e.index, CountOK', More,
         NEW a \in {"opened", "data written", "index written"},
         persis' = [at |-> a, queue |-> q, index |-> persis.index,
                    id |-> persis.id, file |-> f, pos |-> persis.pos]
  PROVE  TInv'
<1>1. DirsOK' /\ DOMAIN dirs' = DOMAIN dirs /\ dirs'[q] = e
  BY EditDirs DEF TInv
<1>2. persis \in [at : {"opened", "data written", "index written"}, queue : Queues,
               index : 0 .. count.messages - 1, id : Indexes, file : Indexes, pos : Nat]
  BY DEF Writing
<1>3. persis' \in [at : {"opened", "data written", "index written"}, queue : Queues,
               index : 0 .. count'.messages - 1, id : Indexes, file : Indexes, pos : Nat]
  BY <1>2
<1>4. persis'.queue = q /\ persis'.file = f
  OBVIOUS
<1>5. Writing'
  BY <1>1, <1>3, <1>4 DEF Writing
<1>6. QED
  BY <1>1, <1>5, QuietRing, QuietMemory, ServerKeeps DEF TInv, PersisOK

LEMMA WriteDataTypes ==
  ASSUME TInv, More, CountOK', WriteData
  PROVE  TInv'
<1>1. PICK q, f, d, m, e :
           /\ q = persis.queue /\ f = persis.file /\ d = dirs[q]
           /\ m = [id |-> persis.id, index |-> persis.index]
           /\ e = WithData(d, [d.data EXCEPT ![f] = Append(d.data[f], m)])
           /\ q \in DOMAIN dirs /\ f \in DOMAIN d.data /\ f \in DOMAIN d.index /\ m \in Message
           /\ DirOK(d, count.messages) /\ DirOK(e, count.messages)
           /\ Writing /\ persis.at = "opened" /\ dirs' = [dirs EXCEPT ![q] = e]
           /\ persis' = [at |-> "data written", queue |-> q, index |-> persis.index,
                         id |-> persis.id, file |-> f, pos |-> persis.pos]
           /\ UNCHANGED <<queues, orphans>> /\ UNCHANGED ring /\ UNCHANGED memory
           /\ UNCHANGED <<tail, indexFile>> /\ UNCHANGED count
  BY WriteDataEffect
<1>2. f \in DOMAIN e.data /\ f \in DOMAIN e.index
  BY <1>1 DEF WithData
<1>3. QED
  BY <1>1, <1>2, WritingOn

LEMMA WriteIndexTypes ==
  ASSUME TInv, More, CountOK', WriteIndex
  PROVE  TInv'
<1>1. PICK q, f, d, m, e :
           /\ q = persis.queue /\ f = persis.file /\ d = dirs[q]
           /\ m = [index |-> persis.index, pos |-> persis.pos]
           /\ e = WithIndex(d, [d.index EXCEPT ![f] = Append(d.index[f], m)])
           /\ q \in DOMAIN dirs /\ f \in DOMAIN d.data /\ f \in DOMAIN d.index /\ m \in Entry
           /\ DirOK(d, count.messages) /\ DirOK(e, count.messages)
           /\ Writing /\ persis.at = "data written" /\ dirs' = [dirs EXCEPT ![q] = e]
           /\ persis' = [at |-> "index written", queue |-> q, index |-> persis.index,
                         id |-> persis.id, file |-> f, pos |-> persis.pos]
           /\ UNCHANGED <<queues, orphans>> /\ UNCHANGED ring /\ UNCHANGED memory
           /\ UNCHANGED <<tail, indexFile>> /\ UNCHANGED count
  BY WriteIndexEffect
<1>2. f \in DOMAIN e.data /\ f \in DOMAIN e.index
  BY <1>1 DEF WithIndex
<1>3. QED
  BY <1>1, <1>2, WritingOn

LEMMA WriteOffsetEffect ==
  ASSUME TInv, WriteOffset
  PROVE  \E q, e :
           /\ q = persis.queue /\ e = WithOffset(dirs[q], persis.index)
           /\ q \in DOMAIN dirs /\ DirOK(dirs[q], count.messages) /\ DirOK(e, count.messages)
           /\ Writing /\ dirs' = [dirs EXCEPT ![q] = e]
           /\ persis.at = "index written" /\ persis' = Idle
           /\ UNCHANGED <<queues, orphans>> /\ UNCHANGED ring /\ UNCHANGED memory
           /\ UNCHANGED <<tail, indexFile>> /\ UNCHANGED count
<1>1. /\ persis.at = "index written" /\ persis' = Idle
      /\ UNCHANGED <<queues, orphans>> /\ UNCHANGED ring /\ UNCHANGED memory
      /\ UNCHANGED <<tail, indexFile>> /\ UNCHANGED count
  BY DEF WriteOffset, memory
<1>2. PICK q, d : q = persis.queue /\ d = dirs[q]
  OBVIOUS
<1>3. Writing /\ DirOK(d, count.messages) /\ persis.index \in 0 .. count.messages - 1
      /\ count.messages \in Nat
  BY <1>1, <1>2, WritingNow
<1>4. persis.index \in NoIndex .. count.messages - 1 /\ q \in DOMAIN dirs
  <2>1. q \in DOMAIN dirs
    BY <1>2, <1>3 DEF Writing
  <2>2. persis.index \in NoIndex .. count.messages - 1
    BY <1>3 DEF NoIndex
  <2>3. QED
    BY <2>1, <2>2
<1>5. DirOK(WithOffset(d, persis.index), count.messages)
      /\ [d EXCEPT !.offset = persis.index] = WithOffset(d, persis.index)
  BY <1>3, <1>4, WithFacts
<1>6. dirs' = [dirs EXCEPT ![q] = [d EXCEPT !.offset = persis.index]]
  BY <1>2 DEF WriteOffset
<1>7. dirs' = [dirs EXCEPT ![q] = WithOffset(d, persis.index)]
  BY <1>5, <1>6
<1>8. QED
  BY <1>1, <1>2, <1>3, <1>4, <1>5, <1>7

LEMMA WriteOffsetTypes ==
  ASSUME TInv, More, CountOK', WriteOffset
  PROVE  TInv'
<1>1. PICK q, e :
           /\ q = persis.queue /\ e = WithOffset(dirs[q], persis.index)
           /\ q \in DOMAIN dirs /\ DirOK(dirs[q], count.messages) /\ DirOK(e, count.messages)
           /\ Writing /\ dirs' = [dirs EXCEPT ![q] = e]
           /\ persis.at = "index written" /\ persis' = Idle
           /\ UNCHANGED <<queues, orphans>> /\ UNCHANGED ring /\ UNCHANGED memory
           /\ UNCHANGED <<tail, indexFile>> /\ UNCHANGED count
  BY WriteOffsetEffect
<1>2. DirsOK'
  BY <1>1, EditDirs DEF TInv
<1>3. QED
  BY <1>1, <1>2, QuietRing, QuietMemory, ServerKeeps DEF TInv, PersisOK

\* The consumption is recorded: F are the consume files with it.
RecordedIn(c, q, d, f, F) ==
  /\ q \in DOMAIN dirs /\ c.index \in DOMAIN indexFile[q] /\ f \in Indexes
  /\ DirOK(d, count.messages)
  /\ dirs' = [dirs EXCEPT ![q] = WithConsume(d, F)]
  /\ DirOK(WithConsume(d, F), count.messages)
  /\ persis' = [at |-> "recorded", queue |-> q, file |-> f]

LEMMA OnConsumeEffect ==
  ASSUME TInv, More, OnConsumeMessage
  PROVE  \E c, q, d, f, F :
           /\ c = Head(ring) /\ q = c.queue /\ d = dirs[q] /\ f = indexFile[q][c.index]
           /\ F = Put(d.consume, f, Append(Create(d.consume, f)[f], c.index))
           /\ Take("consume") /\ UNCHANGED count /\ persis = Idle
           /\ UNCHANGED <<queues, orphans>> /\ RingOK' /\ q \in Queues /\ UNCHANGED memory
           /\ UNCHANGED <<tail, indexFile>> /\ c.index \in Indexes /\ c.cmd = "consume"
           /\ (UNCHANGED dirs /\ UNCHANGED persis) \/ RecordedIn(c, q, d, f, F)
<1>a. PICK c : c = Head(ring)
  OBVIOUS
<1>b. PICK q : q = c.queue
  OBVIOUS
<1>c. PICK d, f : d = dirs[q] /\ f = indexFile[q][c.index]
  OBVIOUS
<1>d. PICK v : v = Append(Create(d.consume, f)[f], c.index)
  OBVIOUS
<1>1. Take("consume") /\ UNCHANGED memory /\ UNCHANGED <<tail, indexFile>>
  BY DEF OnConsumeMessage, memory
<1>2. /\ UNCHANGED count /\ persis = Idle /\ UNCHANGED <<queues, orphans>> /\ RingOK'
      /\ q \in Queues /\ c \in Commands(count.messages) /\ c.cmd = "consume"
  BY <1>a, <1>b, <1>1, TakeFacts
<1>3. c.index \in Indexes
  <2>1. count.messages \in Nat
    BY DEF More
  <2>2. QED
    BY <1>2, <2>1, CommandFields
<1>4. CASE ~(q \in DOMAIN dirs /\ c.index \in DOMAIN indexFile[q])
  <2>1. UNCHANGED <<dirs, persis>>
    BY <1>a, <1>b, <1>4 DEF OnConsumeMessage
  <2>2. QED
    BY <1>a, <1>b, <1>c, <1>d, <1>1, <1>2, <1>3, <2>1
<1>5. CASE q \in DOMAIN dirs /\ c.index \in DOMAIN indexFile[q]
  <2>1. DirOK(d, count.messages) /\ f \in Indexes
    BY <1>c, <1>2, <1>5 DEF TInv, DirsOK, MemoryOK
  <2>2. IsFiles(d.consume, Indexes)
    BY <2>1 DEF DirOK
  <2>3. IsFiles(Create(d.consume, f), Indexes) /\ f \in DOMAIN Create(d.consume, f)
    <3>1. DOMAIN Create(d.consume, f) = DOMAIN d.consume \cup {f}
      BY <2>1, <2>2, CreateFiles
    <3>2. QED
      BY <2>1, <2>2, <3>1, CreateFiles
  <2>4. v \in Seq(Indexes)
    BY <1>d, <1>3, <2>3, FilesOf, AppendFacts
  <2>5. PICK F : F = Put(d.consume, f, v)
    OBVIOUS
  <2>6. IsFiles(F, Indexes)
    BY <2>1, <2>2, <2>4, <2>5, PutFiles
  <2>7. DirOK(WithConsume(d, F), count.messages) /\ [d EXCEPT !.consume = F] = WithConsume(d, F)
    BY <2>1, <2>6, WithFacts
  <2>8. dirs' = [dirs EXCEPT ![q] = [d EXCEPT !.consume = F]]
        /\ persis' = [at |-> "recorded", queue |-> q, file |-> f]
    BY <1>a, <1>b, <1>c, <1>d, <1>5, <2>5 DEF OnConsumeMessage
  <2>9. dirs' = [dirs EXCEPT ![q] = WithConsume(d, F)]
    BY <2>7, <2>8
  <2>10. F = Put(d.consume, f, Append(Create(d.consume, f)[f], c.index))
    BY <1>d, <2>5
  <2>11. DirOK(WithConsume(d, F), count.messages) /\ persis' = [at |-> "recorded", queue |-> q, file |-> f]
    BY <2>7, <2>8
  <2>12. c.index \in DOMAIN indexFile[q] /\ q \in DOMAIN dirs
    BY <1>5
  <2>13. RecordedIn(c, q, d, f, F)
    BY <2>1, <2>9, <2>11, <2>12 DEF RecordedIn
  <2>14. /\ c = Head(ring) /\ q = c.queue /\ d = dirs[q] /\ f = indexFile[q][c.index]
         /\ F = Put(d.consume, f, Append(Create(d.consume, f)[f], c.index))
         /\ Take("consume") /\ UNCHANGED count /\ persis = Idle
         /\ UNCHANGED <<queues, orphans>> /\ RingOK' /\ q \in Queues /\ UNCHANGED memory
         /\ UNCHANGED <<tail, indexFile>> /\ c.index \in Indexes /\ c.cmd = "consume"
    BY <1>a, <1>b, <1>c, <1>1, <1>2, <1>3, <2>10
  <2>15. QED
    BY <2>13, <2>14, Zenon
<1>6. QED
  BY <1>4, <1>5

LEMMA OnConsumeMessageTypes ==
  ASSUME TInv, More, CountOK', OnConsumeMessage
  PROVE  TInv'
<1>1. PICK c, q, d, f, F :
           /\ c = Head(ring) /\ q = c.queue /\ d = dirs[q] /\ f = indexFile[q][c.index]
           /\ F = Put(d.consume, f, Append(Create(d.consume, f)[f], c.index))
           /\ Take("consume") /\ UNCHANGED count /\ persis = Idle
           /\ UNCHANGED <<queues, orphans>> /\ RingOK' /\ q \in Queues /\ UNCHANGED memory
           /\ UNCHANGED <<tail, indexFile>> /\ c.index \in Indexes /\ c.cmd = "consume"
           /\ (UNCHANGED dirs /\ UNCHANGED persis) \/ RecordedIn(c, q, d, f, F)
  BY OnConsumeEffect
<1>2. CASE UNCHANGED dirs /\ UNCHANGED persis
  BY <1>1, <1>2, QuietDirs, QuietMemory, ServerKeeps DEF TInv, PersisOK
<1>3. CASE ~(UNCHANGED dirs /\ UNCHANGED persis)
  <2>1. PICK e : e = WithConsume(d, F)
    OBVIOUS
  <2>2. /\ q \in DOMAIN dirs /\ f \in Indexes
        /\ dirs' = [dirs EXCEPT ![q] = e] /\ DirOK(e, count.messages)
        /\ persis' = [at |-> "recorded", queue |-> q, file |-> f]
    <3>1. RecordedIn(c, q, d, f, F)
      BY <1>1, <1>3
    <3>2. QED
      BY <2>1, <3>1 DEF RecordedIn
  <2>3. DirsOK' /\ DOMAIN dirs' = DOMAIN dirs /\ dirs'[q] = e
    BY <1>1, <2>2, EditDirs DEF TInv
  <2>4. f \in DOMAIN e.consume
    BY <1>1, <2>1 DEF WithConsume, Put
  <2>5. persis' \in [at : {"recorded"}, queue : Queues, file : Indexes]
        /\ persis'.queue = q /\ persis'.file = f
    BY <1>1, <2>2
  <2>6. Recording'
    BY <2>2, <2>3, <2>4, <2>5 DEF Recording
  <2>7. QED
    BY <1>1, <2>3, <2>6, QuietMemory, ServerKeeps DEF TInv, PersisOK
<1>4. QED
  BY <1>2, <1>3

LEMMA RemovalOrderFacts ==
  /\ Head(RemovalOrder) = "data" /\ Tail(RemovalOrder) = <<"index", "consume">>
  /\ Head(Tail(RemovalOrder)) = "index" /\ Tail(Tail(RemovalOrder)) = <<"consume">>
  /\ Head(Tail(Tail(RemovalOrder))) = "consume" /\ Tail(Tail(Tail(RemovalOrder))) = <<>>
  /\ RemovalOrder # Tail(RemovalOrder) /\ RemovalOrder # Tail(Tail(RemovalOrder))
  /\ Tail(RemovalOrder) # Tail(Tail(RemovalOrder))
  /\ Tail(RemovalOrder) # <<>> /\ Tail(Tail(RemovalOrder)) # <<>>
<1> DEFINE s == <<"data", "index", "consume">>
           t == <<"index", "consume">>
           u == <<"consume">>
<1>1. /\ Head(s) = "data" /\ Tail(s) = t /\ Head(t) = "index" /\ Tail(t) = u
      /\ Head(u) = "consume" /\ Tail(u) = <<>>
  OBVIOUS
<1>2. s # t /\ s # u /\ t # u /\ t # <<>> /\ u # <<>>
  <2>1. Len(s) = 3 /\ Len(t) = 2 /\ Len(u) = 1 /\ Len(<<>>) = 0
    OBVIOUS
  <2> HIDE DEF s, t, u
  <2>2. QED
    BY <2>1
<1>3. RemovalOrder = s
  BY DEF RemovalOrder
<1> HIDE DEF s, t, u
<1>4. QED
  BY <1>1, <1>2, <1>3 DEF s, t, u

LEMMA LeftChanged ==
  ASSUME NEW p, NEW q, NEW f,
         NEW old, p = [at |-> "removing", queue |-> q, file |-> f, left |-> old], NEW left
  PROVE  [p EXCEPT !.left = left] = [at |-> "removing", queue |-> q, file |-> f, left |-> left]
OBVIOUS

LEMMA RecordingNow ==
  ASSUME TInv, persis.at = "recorded"
  PROVE  Recording
BY PersisAt DEF TInv, PersisOK

LEMMA RemovingNow ==
  ASSUME TInv, persis.at = "removing"
  PROVE  /\ Removing /\ DirOK(dirs[persis.queue], count.messages)
         /\ persis = [at |-> "removing", queue |-> persis.queue, file |-> persis.file,
                      left |-> persis.left]
<1>1. Removing
  BY PersisAt DEF TInv, PersisOK
<1>2. DirOK(dirs[persis.queue], count.messages)
  BY <1>1 DEF Removing, TInv, DirsOK
<1>3. persis = [at |-> "removing", queue |-> persis.queue, file |-> persis.file,
                left |-> persis.left]
  BY <1>1 DEF Removing
<1>4. QED
  BY <1>1, <1>2, <1>3

LEMMA CountConsumedTypes ==
  ASSUME TInv, More, CountOK', CountConsumed
  PROVE  TInv'
<1>1. /\ persis.at = "recorded" /\ UNCHANGED <<queues, orphans>> /\ UNCHANGED ring
      /\ UNCHANGED dirs /\ UNCHANGED <<tail, indexFile>> /\ UNCHANGED count
  BY DEF CountConsumed, memory
<1>2. PICK q, f, d : q = persis.queue /\ f = persis.file /\ d = dirs[q]
  OBVIOUS
<1>3. Recording
  BY <1>1, RecordingNow
<1>4. q \in Queues /\ f \in Indexes /\ q \in DOMAIN dirs /\ f \in DOMAIN d.consume
  BY <1>2, <1>3 DEF Recording
<1>5. CASE AllConsumed(d, f)
  <2>1. persis' = [at |-> "removing", queue |-> q, file |-> f, left |-> RemovalOrder]
    BY <1>2, <1>5 DEF CountConsumed
  <2>2. /\ persis' \in [at : {"removing"}, queue : Queues, file : Indexes,
                 left : {RemovalOrder, Tail(RemovalOrder), Tail(Tail(RemovalOrder))}]
        /\ persis'.queue = q /\ persis'.file = f /\ persis'.left = RemovalOrder
    BY <1>4, <2>1
  <2>3. Removing'
    BY <1>1, <1>2, <1>4, <1>5, <2>2, RemovalOrderFacts DEF Removing
  <2>4. PersisOK'
    BY <2>3 DEF PersisOK
  <2>5. QED
    BY <1>1, <2>4, QuietRing, QuietDirs, QuietMemory, ServerKeeps DEF TInv
<1>6. CASE ~AllConsumed(d, f)
  <2>1. persis' = Idle
    BY <1>2, <1>6 DEF CountConsumed
  <2>2. PersisOK'
    BY <2>1 DEF PersisOK
  <2>3. QED
    BY <1>1, <2>2, QuietRing, QuietDirs, QuietMemory, ServerKeeps DEF TInv
<1>7. QED
  BY <1>5, <1>6

\* One file of group f of queue q goes: e is what is left of the directory d.
Removal(q, f, d, e) ==
  \/ /\ persis.left = RemovalOrder /\ e = WithData(d, Drop(d.data, {f}))
     /\ persis' = [at |-> "removing", queue |-> q, file |-> f, left |-> Tail(RemovalOrder)]
     /\ UNCHANGED tail
  \/ /\ persis.left = Tail(RemovalOrder) /\ e = WithIndex(d, Drop(d.index, {f}))
     /\ persis' = [at |-> "removing", queue |-> q, file |-> f, left |-> Tail(Tail(RemovalOrder))]
     /\ UNCHANGED tail
  \/ /\ persis.left = Tail(Tail(RemovalOrder)) /\ e = WithConsume(d, Drop(d.consume, {f}))
     /\ persis' = Idle
     /\ tail' = IF q \in DOMAIN tail /\ tail[q] = f THEN Drop(tail, {q}) ELSE tail

LEMMA RemoveEffect ==
  ASSUME TInv, RemoveNext
  PROVE  \E q, f, d, e :
           /\ q = persis.queue /\ f = persis.file /\ d = dirs[q]
           /\ q \in DOMAIN dirs /\ q \in Queues /\ f \in Indexes /\ Removing
           /\ DirOK(d, count.messages) /\ DirOK(e, count.messages)
           /\ dirs' = [dirs EXCEPT ![q] = e]
           /\ UNCHANGED <<queues, orphans>> /\ UNCHANGED ring
           /\ UNCHANGED indexFile /\ UNCHANGED count
           /\ Removal(q, f, d, e)
<1>1. /\ persis.at = "removing" /\ UNCHANGED <<queues, orphans>> /\ UNCHANGED ring
      /\ UNCHANGED indexFile /\ UNCHANGED count
  BY DEF RemoveNext, memory
<1>2. PICK q, f, d : q = persis.queue /\ f = persis.file /\ d = dirs[q]
  OBVIOUS
<1>3. /\ Removing /\ DirOK(d, count.messages)
      /\ persis = [at |-> "removing", queue |-> q, file |-> f, left |-> persis.left]
  BY <1>1, <1>2, RemovingNow
<1>4. q \in DOMAIN dirs /\ q \in Queues /\ f \in Indexes
      /\ persis.left \in {RemovalOrder, Tail(RemovalOrder), Tail(Tail(RemovalOrder))}
  BY <1>2, <1>3 DEF Removing
<1>5. dirs' = [dirs EXCEPT ![q] = [d EXCEPT ![Head(persis.left)] = Drop(@, {f})]]
  BY <1>2 DEF RemoveNext
<1>6. /\ IsFiles(Drop(d.data, {f}), Message) /\ IsFiles(Drop(d.index, {f}), Entry)
      /\ IsFiles(Drop(d.consume, {f}), Indexes)
  BY <1>3, DropFiles DEF DirOK
<1>7. CASE persis.left = RemovalOrder
  <2>1. PICK e : e = WithData(d, Drop(d.data, {f}))
    OBVIOUS
  <2>2. DirOK(e, count.messages) /\ e = [d EXCEPT !.data = Drop(d.data, {f})]
    BY <1>3, <1>6, <2>1, WithFacts
  <2>3. Head(persis.left) = "data" /\ Tail(persis.left) # <<>>
        /\ Tail(persis.left) = Tail(RemovalOrder)
    BY <1>7, RemovalOrderFacts
  <2>4. dirs' = [dirs EXCEPT ![q] = e]
    BY <1>5, <2>2, <2>3
  <2>5. persis' = [persis EXCEPT !.left = Tail(persis.left)] /\ UNCHANGED tail
    BY <2>3 DEF RemoveNext, memory
  <2>6. PICK left : left = Tail(RemovalOrder)
    OBVIOUS
  <2>7. persis' = [persis EXCEPT !.left = left]
    BY <2>3, <2>5, <2>6
  <2>8. persis' = [at |-> "removing", queue |-> q, file |-> f, left |-> left]
    BY <1>3, <2>7, LeftChanged
  <2>9. Removal(q, f, d, e)
    BY <1>7, <2>1, <2>5, <2>6, <2>8 DEF Removal
  <2>10. QED
    BY <1>1, <1>2, <1>3, <1>4, <2>2, <2>4, <2>9
<1>8. CASE persis.left = Tail(RemovalOrder)
  <2>1. PICK e : e = WithIndex(d, Drop(d.index, {f}))
    OBVIOUS
  <2>2. DirOK(e, count.messages) /\ e = [d EXCEPT !.index = Drop(d.index, {f})]
    BY <1>3, <1>6, <2>1, WithFacts
  <2>3. Head(persis.left) = "index" /\ Tail(persis.left) # <<>>
        /\ Tail(persis.left) = Tail(Tail(RemovalOrder))
    BY <1>8, RemovalOrderFacts
  <2>4. dirs' = [dirs EXCEPT ![q] = e]
    BY <1>5, <2>2, <2>3
  <2>5. persis' = [persis EXCEPT !.left = Tail(persis.left)] /\ UNCHANGED tail
    BY <2>3 DEF RemoveNext, memory
  <2>6. PICK left : left = Tail(Tail(RemovalOrder))
    OBVIOUS
  <2>7. persis' = [persis EXCEPT !.left = left]
    BY <2>3, <2>5, <2>6
  <2>8. persis' = [at |-> "removing", queue |-> q, file |-> f, left |-> left]
    BY <1>3, <2>7, LeftChanged
  <2>9. Removal(q, f, d, e)
    BY <1>8, <2>1, <2>5, <2>6, <2>8 DEF Removal
  <2>10. QED
    BY <1>1, <1>2, <1>3, <1>4, <2>2, <2>4, <2>9
<1>9. CASE persis.left = Tail(Tail(RemovalOrder))
  <2>1. PICK e : e = WithConsume(d, Drop(d.consume, {f}))
    OBVIOUS
  <2>2. DirOK(e, count.messages) /\ e = [d EXCEPT !.consume = Drop(d.consume, {f})]
    BY <1>3, <1>6, <2>1, WithFacts
  <2>3. Head(persis.left) = "consume" /\ Tail(persis.left) = <<>>
    BY <1>9, RemovalOrderFacts
  <2>4. dirs' = [dirs EXCEPT ![q] = e]
    BY <1>5, <2>2, <2>3
  <2>5. persis' = Idle
        /\ tail' = IF q \in DOMAIN tail /\ tail[q] = f THEN Drop(tail, {q}) ELSE tail
    BY <1>2, <2>3 DEF RemoveNext
  <2>6. Removal(q, f, d, e)
    BY <1>9, <2>1, <2>5 DEF Removal
  <2>7. QED
    BY <1>1, <1>2, <1>3, <1>4, <2>2, <2>4, <2>6
<1>10. QED
  BY <1>4, <1>7, <1>8, <1>9

LEMMA RemoveNextTypes ==
  ASSUME TInv, More, CountOK', RemoveNext
  PROVE  TInv'
<1>1. PICK q, f, d, e :
           /\ q = persis.queue /\ f = persis.file /\ d = dirs[q]
           /\ q \in DOMAIN dirs /\ q \in Queues /\ f \in Indexes /\ Removing
           /\ DirOK(d, count.messages) /\ DirOK(e, count.messages)
           /\ dirs' = [dirs EXCEPT ![q] = e]
           /\ UNCHANGED <<queues, orphans>> /\ UNCHANGED ring
           /\ UNCHANGED indexFile /\ UNCHANGED count
           /\ Removal(q, f, d, e)
  BY RemoveEffect
<1>2. DirsOK' /\ DOMAIN dirs' = DOMAIN dirs /\ dirs'[q] = e
  BY <1>1, EditDirs DEF TInv
<1>3. MemoryOK'
  <2>1. DOMAIN tail \subseteq Queues /\ tail \in [DOMAIN tail -> Indexes]
    BY DEF TInv, MemoryOK
  <2>2. Drop(tail, {q}) \in [DOMAIN tail \ {q} -> Indexes]
    BY <2>1 DEF Drop
  <2>3. UNCHANGED tail \/ tail' = Drop(tail, {q})
    BY <1>1 DEF Removal
  <2>4. DOMAIN tail' \subseteq Queues /\ tail' \in [DOMAIN tail' -> Indexes]
    BY <2>1, <2>2, <2>3
  <2>5. QED
    BY <1>1, <2>4 DEF TInv, MemoryOK
<1>4. PersisOK'
  <2>1. CASE persis.left = RemovalOrder
    <3>1. e = WithData(d, Drop(d.data, {f}))
          /\ persis' = [at |-> "removing", queue |-> q, file |-> f, left |-> Tail(RemovalOrder)]
      BY <1>1, <2>1, RemovalOrderFacts DEF Removal
    <3>2. /\ persis' \in [at : {"removing"}, queue : Queues, file : Indexes,
                 left : {RemovalOrder, Tail(RemovalOrder), Tail(Tail(RemovalOrder))}]
          /\ persis'.queue = q /\ persis'.file = f /\ persis'.left = Tail(RemovalOrder)
      BY <1>1, <3>1
    <3>3. f \notin DOMAIN e.data
      BY <3>1 DEF WithData, Drop
    <3>4. Removing'
      BY <1>1, <1>2, <3>2, <3>3, RemovalOrderFacts DEF Removing
    <3>5. QED
      BY <3>4 DEF PersisOK
  <2>2. CASE persis.left = Tail(RemovalOrder)
    <3>1. e = WithIndex(d, Drop(d.index, {f}))
          /\ persis' = [at |-> "removing", queue |-> q, file |-> f,
                        left |-> Tail(Tail(RemovalOrder))]
      BY <1>1, <2>2, RemovalOrderFacts DEF Removal
    <3>2. /\ persis' \in [at : {"removing"}, queue : Queues, file : Indexes,
                 left : {RemovalOrder, Tail(RemovalOrder), Tail(Tail(RemovalOrder))}]
          /\ persis'.queue = q /\ persis'.file = f /\ persis'.left = Tail(Tail(RemovalOrder))
      BY <1>1, <3>1
    <3>3. f \notin DOMAIN e.index
      BY <3>1 DEF WithIndex, Drop
    <3>4. Removing'
      BY <1>1, <1>2, <3>2, <3>3, RemovalOrderFacts DEF Removing
    <3>5. QED
      BY <3>4 DEF PersisOK
  <2>3. CASE persis.left = Tail(Tail(RemovalOrder))
    <3>1. persis' = Idle
      BY <1>1, <2>3, RemovalOrderFacts DEF Removal
    <3>2. QED
      BY <3>1 DEF PersisOK
  <2>4. QED
    BY <1>1, <2>1, <2>2, <2>3 DEF Removal
<1>5. QED
  BY <1>1, <1>2, <1>3, <1>4, QuietRing, ServerKeeps DEF TInv

LEMMA WalkIsWalking ==
  /\ \A q, list : FromStart(q, list) = Idle \/ FromStart(q, list).at = "walking"
  /\ \A q, list, i : \A p \in ReadAndMoveOn(q, list, i) :
       p \in {Idle, Down} \/ p.at = "walking"
<1>1. \A q, list, prev, next : Walk(q, list, prev, next).at = "walking"
  BY DEF Walk
<1>2. \A q, list : FromStart(q, list) = Idle \/ FromStart(q, list).at = "walking"
  BY <1>1 DEF FromStart
<1>3. QED
  BY <1>1, <1>2 DEF ReadAndMoveOn

LEMMA StartClearUpTypes ==
  ASSUME TInv, More, CountOK', NEW q \in Queues, StartClearUp(q)
  PROVE  TInv'
<1>1. /\ persis' = FromStart(q, fileList[q]) /\ UNCHANGED <<queues, orphans>> /\ UNCHANGED ring
      /\ UNCHANGED dirs /\ UNCHANGED <<tail, indexFile>> /\ UNCHANGED count
  BY DEF StartClearUp, memory
<1>2. PersisOK'
  BY <1>1, WalkIsWalking DEF PersisOK
<1>3. QED
  BY <1>1, <1>2, QuietRing, QuietDirs, QuietMemory, ServerKeeps DEF TInv

LEMMA ClearUpEffect ==
  ASSUME TInv, ClearUpStep
  PROVE  /\ persis.at = "walking" /\ UNCHANGED <<queues, orphans>> /\ UNCHANGED ring
         /\ UNCHANGED tail /\ UNCHANGED count
         /\ persis' \in {Idle, Down} \/ persis'.at = "walking"
         /\ \/ UNCHANGED dirs /\ UNCHANGED indexFile
            \/ \E q, d, f, g :
                 /\ q = persis.queue /\ d = dirs[q]
                 /\ q \in DOMAIN dirs /\ q \in Queues /\ Mergeable(d, f, g)
                 /\ DirOK(d, count.messages)
                 /\ dirs' = [dirs EXCEPT ![q] = MergeFiles(d, f, g)]
                 /\ indexFile' = [indexFile EXCEPT ![q] = MergeIndex(indexFile[q], d, f, g)]
<1>1. /\ persis.at = "walking" /\ UNCHANGED <<queues, orphans>> /\ UNCHANGED ring
      /\ UNCHANGED tail /\ UNCHANGED count
  BY DEF ClearUpStep
<1>2. PICK q, d, f, g : /\ q = persis.queue /\ d = dirs[q] /\ f = persis.prev
                        /\ g = persis.list[persis.next]
  OBVIOUS
<1>3. /\ \/ persis' \in ReadAndMoveOn(q, persis.list, persis.next + 1)
         \/ persis' = Down
         \/ persis' \in ReadAndMoveOn(q, RemoveAt(persis.list, persis.next), persis.next)
      /\ \/ UNCHANGED dirs /\ UNCHANGED indexFile
         \/ /\ q \in DOMAIN dirs /\ Mergeable(d, f, g)
            /\ dirs' = [dirs EXCEPT ![q] = MergeFiles(d, f, g)]
            /\ indexFile' = [indexFile EXCEPT ![q] = MergeIndex(indexFile[q], d, f, g)]
  BY <1>2 DEF ClearUpStep
<1>4. persis' \in {Idle, Down} \/ persis'.at = "walking"
  BY <1>3, WalkIsWalking
<1>5. q \in DOMAIN dirs => q \in Queues /\ DirOK(d, count.messages)
  BY <1>2 DEF TInv, DirsOK
<1>6. QED
  BY <1>1, <1>2, <1>3, <1>4, <1>5

LEMMA ClearUpStepTypes ==
  ASSUME TInv, More, CountOK', ClearUpStep
  PROVE  TInv'
<1>1. /\ UNCHANGED <<queues, orphans>> /\ UNCHANGED ring /\ UNCHANGED tail /\ UNCHANGED count
      /\ persis' \in {Idle, Down} \/ persis'.at = "walking"
  BY ClearUpEffect
<1>2. PersisOK'
  BY <1>1 DEF PersisOK
<1>3. CASE UNCHANGED dirs /\ UNCHANGED indexFile
  BY <1>1, <1>2, <1>3, QuietRing, QuietDirs, QuietMemory, ServerKeeps DEF TInv
<1>4. CASE ~(UNCHANGED dirs /\ UNCHANGED indexFile)
  <2>1. PICK q, d, f, g :
                 /\ q = persis.queue /\ d = dirs[q]
                 /\ q \in DOMAIN dirs /\ q \in Queues /\ Mergeable(d, f, g)
                 /\ DirOK(d, count.messages)
                 /\ dirs' = [dirs EXCEPT ![q] = MergeFiles(d, f, g)]
                 /\ indexFile' = [indexFile EXCEPT ![q] = MergeIndex(indexFile[q], d, f, g)]
    BY <1>4, ClearUpEffect
  <2>2. DirOK(MergeFiles(d, f, g), count.messages) /\ f \in Indexes
    BY <2>1, MergedType
  <2>3. DirsOK'
    BY <1>1, <2>1, <2>2, EditDirs DEF TInv
  <2>4. MemoryOK'
    <3>1. PICK map : map = MergeIndex(indexFile[q], d, f, g)
      OBVIOUS
    <3>2. indexFile[q] \in [DOMAIN indexFile[q] -> Indexes]
      BY <2>1 DEF TInv, MemoryOK
    <3>3. map \in [DOMAIN map -> Indexes]
      BY <2>2, <3>1, <3>2 DEF MergeIndex
    <3>4. indexFile' = [x \in Queues |-> IF x = q THEN map ELSE indexFile[x]]
      <4>1. indexFile = [x \in Queues |-> indexFile[x]]
        BY DEF TInv, MemoryOK
      <4>2. QED
        BY <2>1, <3>1, <4>1
    <3>5. indexFile' = [x \in Queues |-> indexFile'[x]]
          /\ \A x \in Queues : indexFile'[x] \in [DOMAIN indexFile'[x] -> Indexes]
      BY <3>3, <3>4 DEF TInv, MemoryOK
    <3>6. QED
      BY <1>1, <3>5 DEF TInv, MemoryOK
  <2>5. QED
    BY <1>1, <1>2, <2>3, <2>4, QuietRing, ServerKeeps DEF TInv
<1>5. QED
  BY <1>3, <1>4

-----------------------------------------------------------------------------
(* The types, and what PersistenceServer has done when it may be killed.    *)

LEMMA TypesStart ==
  ASSUME Init
  PROVE  TInv
<1>1. CountOK
  BY DurableLogAssumption DEF Init, CountOK
<1>2. QueuesOK
  BY DEF Init, QueuesOK, EmptyMap
<1>3. RingOK
  <2>1. ring = <<>> /\ Len(ring) = 0
    BY DEF Init
  <2>2. QED
    BY <2>1, DurableLogAssumption DEF RingOK
<1>4. DirsOK
  BY DEF Init, DirsOK, EmptyMap
<1>5. MemoryOK
  BY DEF Init, MemoryOK, EmptyMap
<1>6. PersisOK
  BY DEF Init, PersisOK
<1>7. QED
  BY <1>1, <1>2, <1>3, <1>4, <1>5, <1>6 DEF TInv

LEMMA TypesStay ==
  ASSUME TInv, [Next]_vars
  PROVE  TInv'
<1>1. CountOK' /\ More
  BY StepCount DEF TInv
<1>2. ASSUME NEW q \in Queues, CreateQueue(q) PROVE TInv'
  BY <1>1, <1>2, CreateQueueTypes
<1>3. ASSUME NEW q \in Queues, DeleteQueue(q) PROVE TInv'
  BY <1>1, <1>3, DeleteQueueTypes
<1>4. ASSUME NEW q \in Queues, Publish(q) PROVE TInv'
  BY <1>1, <1>4, PublishTypes
<1>5. ASSUME NEW q \in Queues, Consume(q) PROVE TInv'
  BY <1>1, <1>5, ConsumeTypes
<1>6. CASE ConsumeOrphan
  BY <1>1, <1>6, ConsumeOrphanTypes
<1>7. CASE RestartLogic
  BY <1>1, <1>7, RestartLogicTypes
<1>8. CASE KillPersis
  BY <1>1, <1>8, KillPersisTypes
<1>9. CASE StartPersis
  BY <1>1, <1>9, StartPersisTypes
<1>10. CASE OnCreateQueue
  BY <1>1, <1>10, OnCreateQueueTypes
<1>11. CASE OnDeleteQueue
  BY <1>1, <1>11, OnDeleteQueueTypes
<1>23. CASE WriteInfo
  BY <1>1, <1>23, WriteInfoTypes
<1>24. CASE Unlink
  BY <1>1, <1>24, UnlinkTypes
<1>25. CASE RemoveDir
  BY <1>1, <1>25, RemoveDirTypes
<1>12. CASE OnPublishMessage
  BY <1>1, <1>12, OnPublishMessageTypes
<1>13. CASE WriteData
  BY <1>1, <1>13, WriteDataTypes
<1>14. CASE WriteIndex
  BY <1>1, <1>14, WriteIndexTypes
<1>15. CASE WriteOffset
  BY <1>1, <1>15, WriteOffsetTypes
<1>16. CASE OnConsumeMessage
  BY <1>1, <1>16, OnConsumeMessageTypes
<1>17. CASE CountConsumed
  BY <1>1, <1>17, CountConsumedTypes
<1>18. CASE RemoveNext
  BY <1>1, <1>18, RemoveNextTypes
<1>19. ASSUME NEW q \in Queues, StartClearUp(q) PROVE TInv'
  BY <1>1, <1>19, StartClearUpTypes
<1>20. CASE ClearUpStep
  BY <1>1, <1>20, ClearUpStepTypes
<1>21. CASE UNCHANGED vars
  <2>1. /\ UNCHANGED <<queues, orphans>> /\ UNCHANGED ring /\ UNCHANGED dirs
        /\ UNCHANGED <<tail, indexFile>> /\ UNCHANGED <<dirs, persis>>
    BY <1>21 DEF vars
  <2>2. QED
    BY <1>1, <2>1, QuietRing, QuietDirs, QuietMemory, QuietPersis, ServerKeeps DEF TInv
<1>22. QED
  BY <1>2, <1>3, <1>4, <1>5, <1>6, <1>7, <1>8, <1>9, <1>10, <1>11, <1>12, <1>13, <1>14, <1>15,
     <1>16, <1>17, <1>18, <1>19, <1>20, <1>21, <1>23, <1>24, <1>25 DEF Next

\* Throughout any run the files and the maps have their types, no queue and no
\* directory is ahead of the messages there were, and a message being written,
\* a consumption being counted and a group being removed are at the stage of
\* the code where PersistenceServer says it is.
THEOREM TypesHold == Spec => []TInv
<1>1. Init => TInv
  BY TypesStart
<1>2. TInv /\ [Next]_vars => TInv'
  BY TypesStay
<1>3. QED
  BY <1>1, <1>2, PTL DEF Spec

LEMMA TypesGive ==
  ASSUME TInv
  PROVE  TypeOK
<1>1. MaxMessages \in Nat /\ count.messages \in 0 .. MaxMessages
  BY DurableLogAssumption DEF TInv, CountOK
<1>2. \A q \in DOMAIN queues : queues[q].next \in Indexes /\ ToSet(queues[q].kept) \subseteq Message
  <2> SUFFICES ASSUME NEW q \in DOMAIN queues
               PROVE  queues[q].next \in Indexes /\ ToSet(queues[q].kept) \subseteq Message
    OBVIOUS
  <2>1. queues[q].next \in 0 .. count.messages /\ queues[q].kept \in Seq(Message)
    BY DEF TInv, QueuesOK, QueueOK
  <2>2. queues[q].next \in Indexes
    BY <1>1, <2>1 DEF Indexes
  <2>3. QED
    BY <2>1, <2>2, RangeFacts
<1>3. orphans \subseteq [queue : Queues, index : Indexes, id : Indexes]
      /\ DOMAIN queues \cup DOMAIN dirs \cup DOMAIN tail \subseteq Queues
  BY DEF TInv, QueuesOK, DirsOK, MemoryOK
<1>4. /\ Len(ring) <= RingLen
      /\ ToSet(ring) \subseteq [cmd : {"create", "delete", "publish", "consume"}, queue : Queues,
                                index : Indexes \cup {NoIndex}, id : Indexes \cup {NoIndex}]
  <2>1. ring \in Seq(Commands(count.messages)) /\ Len(ring) <= RingLen
    BY DEF TInv, RingOK
  <2>2. 0 .. count.messages - 1 \subseteq Indexes
    BY <1>1, EarlierIndexes
  <2>3. Commands(count.messages) \subseteq
          [cmd : {"create", "delete", "publish", "consume"}, queue : Queues,
           index : Indexes \cup {NoIndex}, id : Indexes \cup {NoIndex}]
    BY <2>2 DEF Commands
  <2>4. ToSet(ring) \subseteq Commands(count.messages)
    BY <2>1, RangeFacts
  <2>5. QED
    BY <2>1, <2>3, <2>4
<1>5. ASSUME NEW q \in DOMAIN dirs
      PROVE  /\ dirs[q].info \in BOOLEAN /\ dirs[q].offset \in Indexes \cup {NoIndex}
             /\ \A f \in DOMAIN dirs[q].data :
                  f \in Indexes /\ ToSet(dirs[q].data[f]) \subseteq Message
             /\ \A f \in DOMAIN dirs[q].index :
                  f \in Indexes /\ ToSet(dirs[q].index[f]) \subseteq Entry
             /\ \A f \in DOMAIN dirs[q].consume :
                  f \in Indexes /\ ToSet(dirs[q].consume[f]) \subseteq Indexes
  <2>1. PICK d : d = dirs[q]
    OBVIOUS
  <2>2. DirOK(d, count.messages)
    BY <2>1 DEF TInv, DirsOK
  <2>3. d.info \in BOOLEAN /\ d.offset \in Indexes \cup {NoIndex}
    <3>1. d.info \in BOOLEAN /\ d.offset \in NoIndex .. count.messages - 1
      BY <2>2 DEF DirOK
    <3>2. QED
      BY <1>1, <3>1 DEF NoIndex, Indexes
  <2>4. /\ \A f \in DOMAIN d.data : f \in Indexes /\ d.data[f] \in Seq(Message)
        /\ \A f \in DOMAIN d.index : f \in Indexes /\ d.index[f] \in Seq(Entry)
        /\ \A f \in DOMAIN d.consume : f \in Indexes /\ d.consume[f] \in Seq(Indexes)
    BY <2>2, FilesOf DEF DirOK
  <2>5. QED
    BY <2>1, <2>3, <2>4, RangeFacts
<1>6. persis.at \in {"idle", "down", "creating", "unlinking", "opened", "data written", "index written",
                     "recorded", "removing", "walking"}
  BY PersisAt DEF TInv, PersisOK
<1>7. QED
  BY <1>2, <1>3, <1>4, <1>5, <1>6 DEF TypeOK, Indexes, Entry, Message

\* TypeOK for every number of queues, file size, ring length and bound.
THEOREM TypeCorrect == Spec => []TypeOK
<1>1. TInv => TypeOK
  BY TypesGive
<1>2. QED
  BY <1>1, TypesHold, PTL
-----------------------------------------------------------------------------
(* What each step does to the files of a queue that are in order (Sound).    *)
(* Whatever command is executed, a step leaves the entries pointing at their *)
(* messages and each index in one entry, and of what a restart would find it *)
(* takes and adds one message at most (DiskKept); when the command repeats   *)
(* no index the files and what is known of them stay in order too            *)
(* (OrderKept).  One lemma per step shows both (Kept).                       *)

\* The index entries of a group whose messages are to be recovered.
Live(d, f) == {e \in ToSet(d.index[f]) : e.index \notin ConsumedIn(d, f)}

\* What a restart finds when every entry points at its message.
Saved(d) == UNION {{d.data[f][e.pos + 1] : e \in Live(d, f)} : f \in DOMAIN d.index}

LEMMA SavedMeans ==
  ASSUME NEW d
  PROVE  \A m : m \in Saved(d) <=>
           \E f \in DOMAIN d.index : \E e \in Live(d, f) : m = d.data[f][e.pos + 1]
BY DEF Saved

LEMMA SavedWithin ==
  ASSUME NEW d, NEW e,
         \A f \in DOMAIN d.index : \A x \in Live(d, f) :
           f \in DOMAIN e.index /\ x \in Live(e, f) /\ e.data[f][x.pos + 1] = d.data[f][x.pos + 1]
  PROVE  Saved(d) \subseteq Saved(e)
<1> SUFFICES ASSUME NEW m, m \in Saved(d)
             PROVE  m \in Saved(e)
  OBVIOUS
<1>1. PICK f \in DOMAIN d.index : \E x \in Live(d, f) : m = d.data[f][x.pos + 1]
  BY SavedMeans
<1>2. PICK x \in Live(d, f) : m = d.data[f][x.pos + 1]
  BY <1>1
<1>3. f \in DOMAIN e.index /\ x \in Live(e, f) /\ m = e.data[f][x.pos + 1]
  BY <1>2
<1>4. QED
  BY <1>3, SavedMeans

\* Every message that counts is where its entry says.
Points(d) ==
  \A f \in DOMAIN d.index : \A e \in Live(d, f) :
    f \in DOMAIN d.data /\ e.pos < Len(d.data[f]) /\ d.data[f][e.pos + 1].index = e.index

LEMMA PointsIs ==
  ASSUME NEW d, NEW c, DirOK(d, c)
  PROVE  EntriesPoint(d) <=> Points(d)
<1>1. \A f \in DOMAIN d.index : ToSet(LiveEntries(d, f)) = Live(d, f)
  BY LiveFacts DEF Live
<1>2. QED
  BY <1>1 DEF EntriesPoint, Points, InData

\* What a restart finds of a directory.
Found(d) ==
  LET groups == {f \in DOMAIN d.index : Present(d.index, f) /\ Present(d.data, f)}
  IN  UNION {ToSet(Loaded(d, f)) : f \in {g \in groups : \A h \in groups : h < g => ~GivesUp(d, h)}}

LEMMA SavedIs ==
  ASSUME NEW d, NEW c, DirOK(d, c), Points(d)
  PROVE  Found(d) = Saved(d)
<1> DEFINE groups == {f \in DOMAIN d.index : Present(d.index, f) /\ Present(d.data, f)}
<1>1. ASSUME NEW f \in DOMAIN d.index
      PROVE  ToSet(LiveEntries(d, f)) = Live(d, f) /\ ~GivesUp(d, f)
  <2>1. ToSet(LiveEntries(d, f)) = Live(d, f)
    BY LiveFacts DEF Live
  <2>2. QED
    BY <2>1 DEF Points, GivesUp, InData
<1>2. ASSUME NEW f \in groups
      PROVE  ToSet(Loaded(d, f)) = {d.data[f][e.pos + 1] : e \in Live(d, f)}
  <2>1. f \in DOMAIN d.index /\ f \in DOMAIN d.data
    BY DEF Present
  <2>2. QED
    BY <1>1, <2>1, LoadedType
<1>3. {g \in groups : \A h \in groups : h < g => ~GivesUp(d, h)} = groups
  BY <1>1
<1>4. ASSUME NEW f \in DOMAIN d.index, NEW e \in Live(d, f)
      PROVE  f \in groups
  <2>1. f \in DOMAIN d.data /\ e.pos < Len(d.data[f]) /\ e \in ToSet(d.index[f])
    BY DEF Points, Live
  <2>2. d.index[f] \in Seq(Entry) /\ d.data[f] \in Seq(Message)
    BY <2>1, FilesOf DEF DirOK
  <2>3. e.pos \in Nat
    <3>1. e \in Entry
      BY <2>1, <2>2, RangeFacts
    <3>2. QED
      BY <3>1 DEF Entry
  <2>4. d.data[f] # <<>>
    BY <2>1, <2>2, <2>3
  <2>5. d.index[f] # <<>>
    <3>1. ToSet(d.index[f]) = {d.index[f][i] : i \in 1 .. Len(d.index[f])}
      BY <2>2, RangeFacts
    <3>2. PICK i \in 1 .. Len(d.index[f]) : TRUE
      BY <2>1, <3>1
    <3>3. QED
      BY <2>2, <3>2
  <2>6. QED
    BY <2>1, <2>4, <2>5 DEF Present
<1>5. \A f \in groups : f \in DOMAIN d.index
  OBVIOUS
<1>6. Found(d) = UNION {ToSet(Loaded(d, f)) : f \in groups}
  BY <1>3 DEF Found
<1> HIDE DEF groups
<1>7. \A m : m \in Found(d) <=> \E f \in groups : \E e \in Live(d, f) : m = d.data[f][e.pos + 1]
  BY <1>2, <1>6
<1>8. \A m : m \in Saved(d) <=>
        \E f \in DOMAIN d.index : \E e \in Live(d, f) : m = d.data[f][e.pos + 1]
  BY SavedMeans
<1>9. \A m : m \in Found(d) <=> m \in Saved(d)
  BY <1>4, <1>5, <1>7, <1>8
<1>10. QED
  BY <1>9

-----------------------------------------------------------------------------
(* What is done to a directory.                                             *)

Good(d) == Points(d) /\ EntriesDistinct(d)

LEMMA SameFiles ==
  ASSUME NEW d, NEW e, e.data = d.data, e.index = d.index, e.consume = d.consume
  PROVE  /\ Good(d) => Good(e)
         /\ ConsumeCounts(d) => ConsumeCounts(e)
         /\ Saved(e) = Saved(d)
         /\ \A f \in DOMAIN d.index : Live(e, f) = Live(d, f)
<1>1. \A f : ConsumedIn(e, f) = ConsumedIn(d, f)
  BY DEF ConsumedIn
<1>2. \A f : Live(e, f) = Live(d, f)
  BY <1>1 DEF Live
<1>3. Good(d) => Good(e)
  BY <1>2 DEF Good, Points, EntriesDistinct
<1>4. ConsumeCounts(d) => ConsumeCounts(e)
  BY <1>1 DEF ConsumeCounts
<1>5. Saved(e) = Saved(d)
  BY <1>2 DEF Saved
<1>6. QED
  BY <1>2, <1>3, <1>4, <1>5

\* A group is opened: nothing changes but that it may be new and empty.
LEMMA OpenedFiles ==
  ASSUME NEW d, NEW c \in Nat, DirOK(d, c), Good(d), NEW f \in Indexes, NEW e, e = Opened(d, f)
  PROVE  /\ Good(e) /\ Saved(e) = Saved(d)
         /\ DOMAIN e.index = DOMAIN d.index \cup {f} /\ DOMAIN e.data = DOMAIN d.data \cup {f}
         /\ e.consume = d.consume
         /\ \A g \in DOMAIN d.index : e.index[g] = d.index[g] /\ Live(e, g) = Live(d, g)
         /\ f \notin DOMAIN d.index => e.index[f] = <<>> /\ Live(e, f) = {}
         /\ \A g \in DOMAIN d.data : e.data[g] = d.data[g]
         /\ f \notin DOMAIN d.data => e.data[f] = <<>>
<1>1. e.data = Create(d.data, f) /\ e.index = Create(d.index, f) /\ e.consume = d.consume
  <2>1. PICK a, b : a = Create(d.data, f) /\ b = Create(d.index, f)
    OBVIOUS
  <2>2. e = [info |-> d.info, offset |-> NoIndex, data |-> a, index |-> b, consume |-> d.consume]
    BY <2>1, OpenedFacts
  <2>3. QED
    BY <2>1, <2>2
<1>2. /\ DOMAIN e.index = DOMAIN d.index \cup {f}
      /\ \A g \in DOMAIN d.index : e.index[g] = d.index[g]
      /\ f \notin DOMAIN d.index => e.index[f] = <<>>
  <2>1. IsFiles(d.index, Entry)
    BY DEF DirOK
  <2>2. /\ DOMAIN Create(d.index, f) = DOMAIN d.index \cup {f}
        /\ \A g \in DOMAIN d.index : Create(d.index, f)[g] = d.index[g]
        /\ f \notin DOMAIN d.index => Create(d.index, f)[f] = <<>>
    BY <2>1, CreateFiles
  <2>3. QED
    BY <1>1, <2>2
<1>3. /\ DOMAIN e.data = DOMAIN d.data \cup {f}
      /\ \A g \in DOMAIN d.data : e.data[g] = d.data[g]
      /\ f \notin DOMAIN d.data => e.data[f] = <<>>
  <2>1. IsFiles(d.data, Message)
    BY DEF DirOK
  <2>2. /\ DOMAIN Create(d.data, f) = DOMAIN d.data \cup {f}
        /\ \A g \in DOMAIN d.data : Create(d.data, f)[g] = d.data[g]
        /\ f \notin DOMAIN d.data => Create(d.data, f)[f] = <<>>
    BY <2>1, CreateFiles
  <2>3. QED
    BY <1>1, <2>2
<1>4. \A g : ConsumedIn(e, g) = ConsumedIn(d, g)
  BY <1>1 DEF ConsumedIn
<1>5. \A g \in DOMAIN d.index : Live(e, g) = Live(d, g)
  BY <1>2, <1>4 DEF Live
<1>6. ASSUME f \notin DOMAIN d.index PROVE Live(e, f) = {}
  <2>1. ToSet(<<>>) = {}
    BY DEF ToSet
  <2>2. QED
    BY <1>2, <1>6, <2>1 DEF Live
<1>7. Points(e)
  <2> SUFFICES ASSUME NEW g \in DOMAIN e.index, NEW x \in Live(e, g)
               PROVE  /\ g \in DOMAIN e.data /\ x.pos < Len(e.data[g])
                      /\ e.data[g][x.pos + 1].index = x.index
    BY DEF Points
  <2>1. g \in DOMAIN d.index
    BY <1>2, <1>6
  <2>2. g \in DOMAIN d.data /\ x.pos < Len(d.data[g]) /\ d.data[g][x.pos + 1].index = x.index
    BY <1>5, <2>1 DEF Good, Points
  <2>3. QED
    BY <1>3, <2>2
<1>8. EntriesDistinct(e)
  <2> SUFFICES ASSUME NEW g \in DOMAIN e.index, NEW h \in DOMAIN e.index,
                      NEW i \in DOMAIN e.index[g], NEW j \in DOMAIN e.index[h],
                      e.index[g][i].index = e.index[h][j].index
               PROVE  g = h /\ i = j
    BY DEF EntriesDistinct
  <2>1. DOMAIN <<>> = {}
    OBVIOUS
  <2>2. g \in DOMAIN d.index /\ h \in DOMAIN d.index
    BY <1>2, <2>1
  <2>3. QED
    BY <1>2, <2>2 DEF Good, EntriesDistinct
<1>9. Saved(e) = Saved(d)
  <2>1. \A g \in DOMAIN d.index : \A x \in Live(d, g) : e.data[g] = d.data[g]
    BY <1>3 DEF Good, Points
  <2>2. \A g \in DOMAIN d.index : \A x \in Live(d, g) :
          g \in DOMAIN e.index /\ x \in Live(e, g) /\ e.data[g][x.pos + 1] = d.data[g][x.pos + 1]
    BY <1>2, <1>5, <2>1
  <2>3. \A g \in DOMAIN e.index : \A x \in Live(e, g) :
          g \in DOMAIN d.index /\ x \in Live(d, g) /\ d.data[g][x.pos + 1] = e.data[g][x.pos + 1]
    BY <1>2, <1>5, <1>6, <2>1
  <2>4. Saved(d) \subseteq Saved(e)
    BY <2>2, SavedWithin
  <2>5. Saved(e) \subseteq Saved(d)
    BY <2>3, SavedWithin
  <2>6. QED
    BY <2>4, <2>5
<1>10. QED
  BY <1>1, <1>2, <1>3, <1>5, <1>6, <1>7, <1>8, <1>9 DEF Good

\* A message is appended to the data of a group.
WithMessage(d, f, m) == WithData(d, [d.data EXCEPT ![f] = Append(d.data[f], m)])

LEMMA DataAdded ==
  ASSUME NEW d, NEW c, DirOK(d, c), Good(d), NEW f \in DOMAIN d.data, NEW m \in Message,
         NEW e, e = WithMessage(d, f, m)
  PROVE  /\ Good(e) /\ Saved(e) = Saved(d)
         /\ DOMAIN e.data = DOMAIN d.data /\ e.index = d.index /\ e.consume = d.consume
         /\ e.data[f] = Append(d.data[f], m)
         /\ \A g : Live(e, g) = Live(d, g)
<1>1. /\ e.data = [d.data EXCEPT ![f] = Append(d.data[f], m)]
      /\ e.index = d.index /\ e.consume = d.consume
  BY DEF WithMessage, WithData
<1>2. IsFiles(d.data, Message)
  BY DEF DirOK
<1>3. /\ DOMAIN e.data = DOMAIN d.data /\ e.data[f] = Append(d.data[f], m)
      /\ \A g \in DOMAIN d.data : g # f => e.data[g] = d.data[g]
  BY <1>1, <1>2 DEF IsFiles
<1>4. \A g : Live(e, g) = Live(d, g)
  <2>1. \A g : ConsumedIn(e, g) = ConsumedIn(d, g)
    BY <1>1 DEF ConsumedIn
  <2>2. QED
    BY <1>1, <2>1 DEF Live
<1>5. ASSUME NEW g \in DOMAIN d.index, NEW x \in Live(d, g)
      PROVE  /\ g \in DOMAIN e.data /\ x.pos < Len(e.data[g])
             /\ e.data[g][x.pos + 1] = d.data[g][x.pos + 1]
             /\ d.data[g][x.pos + 1].index = x.index
  <2>1. g \in DOMAIN d.data /\ x.pos < Len(d.data[g]) /\ d.data[g][x.pos + 1].index = x.index
    BY DEF Good, Points
  <2>2. x.pos \in Nat
    <3>1. d.index[g] \in Seq(Entry) /\ x \in ToSet(d.index[g])
      BY FilesOf DEF DirOK, Live
    <3>2. x \in Entry
      BY <3>1, RangeFacts
    <3>3. QED
      BY <3>2 DEF Entry
  <2>3. CASE g # f
    BY <1>3, <2>1, <2>3
  <2>4. CASE g = f
    <3>1. d.data[f] \in Seq(Message)
      BY <1>2, FilesOf
    <3>2. x.pos + 1 \in 1 .. Len(d.data[f])
      BY <2>1, <2>2, <2>4, <3>1
    <3>5. PICK i, s : i = x.pos + 1 /\ s = d.data[f]
      OBVIOUS
    <3>6. Len(Append(s, m)) = Len(s) + 1 /\ Len(s) \in Nat /\ Append(s, m)[i] = s[i]
      BY <3>1, <3>2, <3>5, AppendFacts
    <3>3. /\ Len(e.data[f]) = Len(d.data[f]) + 1 /\ Len(d.data[f]) \in Nat
          /\ e.data[f][x.pos + 1] = d.data[f][x.pos + 1]
      BY <1>3, <3>5, <3>6
    <3>4. QED
      BY <1>3, <2>1, <2>2, <2>4, <3>3
  <2>5. QED
    BY <2>3, <2>4
<1>6. Good(e)
  <2>1. Points(e)
    <3> SUFFICES ASSUME NEW g \in DOMAIN e.index, NEW x \in Live(e, g)
                 PROVE  /\ g \in DOMAIN e.data /\ x.pos < Len(e.data[g])
                        /\ e.data[g][x.pos + 1].index = x.index
      BY DEF Points
    <3>1. g \in DOMAIN d.index /\ x \in Live(d, g)
      BY <1>1, <1>4
    <3>2. QED
      BY <1>5, <3>1
  <2>2. EntriesDistinct(e)
    BY <1>1 DEF Good, EntriesDistinct
  <2>3. QED
    BY <2>1, <2>2 DEF Good
<1>7. Saved(e) = Saved(d)
  <2>1. \A g \in DOMAIN d.index : \A x \in Live(d, g) :
          g \in DOMAIN e.index /\ x \in Live(e, g) /\ e.data[g][x.pos + 1] = d.data[g][x.pos + 1]
    BY <1>1, <1>4, <1>5
  <2>2. \A g \in DOMAIN e.index : \A x \in Live(e, g) :
          g \in DOMAIN d.index /\ x \in Live(d, g) /\ d.data[g][x.pos + 1] = e.data[g][x.pos + 1]
    <3> SUFFICES ASSUME NEW g \in DOMAIN e.index, NEW x \in Live(e, g)
                 PROVE  /\ g \in DOMAIN d.index /\ x \in Live(d, g)
                        /\ d.data[g][x.pos + 1] = e.data[g][x.pos + 1]
      OBVIOUS
    <3>1. g \in DOMAIN d.index /\ x \in Live(d, g)
      BY <1>1, <1>4
    <3>2. QED
      BY <1>5, <3>1
  <2>3. Saved(d) \subseteq Saved(e)
    BY <2>1, SavedWithin
  <2>4. Saved(e) \subseteq Saved(d)
    BY <2>2, SavedWithin, SMTT(30)
  <2>5. QED
    BY <2>3, <2>4
<1>8. QED
  BY <1>1, <1>3, <1>4, <1>6, <1>7

\* The entry of a message is appended to a group's.
Appended(d, f, x, e) ==
  /\ DOMAIN e.index = DOMAIN d.index /\ e.data = d.data /\ e.consume = d.consume
  /\ \A g \in DOMAIN d.index : g # f => e.index[g] = d.index[g]
  /\ DOMAIN e.index[f] = DOMAIN d.index[f] \cup {Len(d.index[f]) + 1}
  /\ \A i \in DOMAIN d.index[f] : e.index[f][i] = d.index[f][i]
  /\ e.index[f][Len(d.index[f]) + 1] = x
  /\ ToSet(e.index[f]) = ToSet(d.index[f]) \cup {x}

LEMMA EntryAppended ==
  ASSUME NEW d, NEW c, DirOK(d, c), NEW f \in DOMAIN d.index, NEW x \in Entry,
         NEW e, e = WithIndex(d, [d.index EXCEPT ![f] = Append(d.index[f], x)])
  PROVE  Appended(d, f, x, e)
<1>1. /\ e.index = [d.index EXCEPT ![f] = Append(d.index[f], x)]
      /\ e.data = d.data /\ e.consume = d.consume
  BY DEF WithIndex
<1>2. IsFiles(d.index, Entry)
  BY DEF DirOK
<1>3. /\ DOMAIN e.index = DOMAIN d.index /\ e.index[f] = Append(d.index[f], x)
      /\ \A g \in DOMAIN d.index : g # f => e.index[g] = d.index[g]
  BY <1>1, <1>2 DEF IsFiles
<1>4. PICK s : s = d.index[f]
  OBVIOUS
<1>5. s \in Seq(Entry)
  BY <1>2, <1>4, FilesOf
<1>6. e.index[f] = Append(s, x)
  BY <1>3, <1>4
<1>7. /\ Append(s, x) \in Seq(Entry) /\ ToSet(Append(s, x)) = ToSet(s) \cup {x}
      /\ Len(Append(s, x)) = Len(s) + 1 /\ Len(s) \in Nat
      /\ \A i \in 1 .. Len(s) : Append(s, x)[i] = s[i]
      /\ Append(s, x)[Len(s) + 1] = x
  BY <1>5, AppendFacts
<1>8. DOMAIN s = 1 .. Len(s) /\ DOMAIN Append(s, x) = 1 .. Len(s) + 1
  BY <1>5, <1>7
<1>9. DOMAIN Append(s, x) = DOMAIN s \cup {Len(s) + 1}
  BY <1>7, <1>8
<1>10. QED
  BY <1>1, <1>3, <1>4, <1>6, <1>7, <1>8, <1>9 DEF Appended

\* The message is then one to recover.
LEMMA EntryAdded ==
  ASSUME NEW d, NEW c, DirOK(d, c), Good(d), NEW f \in DOMAIN d.index, f \in DOMAIN d.data,
         NEW x, x.pos < Len(d.data[f]), d.data[f][x.pos + 1].index = x.index,
         \A g \in DOMAIN d.index : \A y \in ToSet(d.index[g]) : y.index # x.index,
         NEW e, Appended(d, f, x, e)
  PROVE  /\ Good(e)
         /\ ConsumeCounts(d) => ConsumeCounts(e)
         /\ Saved(d) \subseteq Saved(e)
         /\ \A m \in Saved(e) : m \in Saved(d) \/ m = d.data[f][x.pos + 1]
         /\ \A g \in DOMAIN d.index : \A y \in Live(e, g) :
              y \in Live(d, g) \/ (g = f /\ y = x)
<1>1. DOMAIN e.index = DOMAIN d.index /\ e.data = d.data /\ e.consume = d.consume
  BY DEF Appended
<1>2. \A g \in DOMAIN d.index : ToSet(e.index[g]) = ToSet(d.index[g])
                                \/ (g = f /\ ToSet(e.index[g]) = ToSet(d.index[g]) \cup {x})
  BY DEF Appended
<1>3. PICK p : p = d.data[f][x.pos + 1]
  OBVIOUS
<1>5. \A g : ConsumedIn(e, g) = ConsumedIn(d, g)
  BY <1>1 DEF ConsumedIn
<1>6. ASSUME NEW g \in DOMAIN d.index, NEW y \in Live(e, g)
      PROVE  y \in Live(d, g) \/ (g = f /\ y = x)
  BY <1>2, <1>5 DEF Live
<1>7. ASSUME NEW g \in DOMAIN d.index, NEW y \in Live(d, g)
      PROVE  y \in Live(e, g)
  BY <1>2, <1>5 DEF Live
<1>8. Points(e)
  <2> SUFFICES ASSUME NEW g \in DOMAIN e.index, NEW y \in Live(e, g)
               PROVE  /\ g \in DOMAIN e.data /\ y.pos < Len(e.data[g])
                      /\ e.data[g][y.pos + 1].index = y.index
    BY DEF Points
  <2>1. y \in Live(d, g) \/ (g = f /\ y = x)
    BY <1>1, <1>6
  <2>2. CASE y \in Live(d, g)
    BY <1>1, <2>2 DEF Good, Points
  <2>3. CASE g = f /\ y = x
    BY <1>1, <2>3
  <2>4. QED
    BY <2>1, <2>2, <2>3
<1>9. EntriesDistinct(e)
  <2> SUFFICES ASSUME NEW g \in DOMAIN e.index, NEW h \in DOMAIN e.index,
                      NEW i \in DOMAIN e.index[g], NEW j \in DOMAIN e.index[h],
                      e.index[g][i].index = e.index[h][j].index
               PROVE  g = h /\ i = j
    BY DEF EntriesDistinct
  <2>1. ASSUME NEW k \in DOMAIN d.index, NEW l \in DOMAIN e.index[k]
        PROVE  \/ /\ l \in DOMAIN d.index[k] /\ e.index[k][l] = d.index[k][l]
                  /\ e.index[k][l].index # x.index
               \/ k = f /\ l = Len(d.index[f]) + 1 /\ e.index[k][l].index = x.index
    <3>1. ASSUME NEW o \in DOMAIN d.index[k] PROVE d.index[k][o].index # x.index
      <4>1. ToSet(d.index[k]) = {d.index[k][u] : u \in DOMAIN d.index[k]}
        BY DEF ToSet
      <4>2. d.index[k][o] \in ToSet(d.index[k])
        BY <4>1
      <4>3. QED
        BY <4>2
    <3>2. QED
      BY <3>1 DEF Appended
  <2>2. PICK n : n = Len(d.index[f]) + 1
    OBVIOUS
  <2>3. \A k \in DOMAIN d.index : \A l \in DOMAIN e.index[k] :
          \/ /\ l \in DOMAIN d.index[k] /\ e.index[k][l] = d.index[k][l]
             /\ e.index[k][l].index # x.index
          \/ k = f /\ l = n /\ e.index[k][l].index = x.index
    BY <2>1, <2>2
  <2>4. QED
    BY <1>1, <2>3 DEF Good, EntriesDistinct
<1>10. ASSUME ConsumeCounts(d) PROVE ConsumeCounts(e)
  <2> SUFFICES ASSUME NEW g \in DOMAIN e.index \cap DOMAIN e.consume
               PROVE  /\ IsInjective(e.consume[g])
                      /\ ConsumedIn(e, g) \subseteq {y.index : y \in ToSet(e.index[g])}
    BY DEF ConsumeCounts
  <2>1. /\ IsInjective(d.consume[g])
        /\ ConsumedIn(d, g) \subseteq {y.index : y \in ToSet(d.index[g])}
    BY <1>1, <1>10 DEF ConsumeCounts
  <2>2. ToSet(d.index[g]) \subseteq ToSet(e.index[g])
    BY <1>1, <1>2
  <2>3. {y.index : y \in ToSet(d.index[g])} \subseteq {y.index : y \in ToSet(e.index[g])}
    BY <2>2
  <2>4. QED
    BY <1>1, <1>5, <2>1, <2>3
<1>11. Saved(d) \subseteq Saved(e)
  <2>1. \A g \in DOMAIN d.index : \A y \in Live(d, g) :
          g \in DOMAIN e.index /\ y \in Live(e, g) /\ e.data[g][y.pos + 1] = d.data[g][y.pos + 1]
    BY <1>1, <1>7
  <2>2. QED
    BY <2>1, SavedWithin, SMTT(30)
<1>12. \A m \in Saved(e) : m \in Saved(d) \/ m = p
  <2>1. ASSUME NEW m,
               \E g \in DOMAIN e.index : \E y \in Live(e, g) : m = e.data[g][y.pos + 1]
        PROVE  \/ \E g \in DOMAIN d.index : \E y \in Live(d, g) : m = d.data[g][y.pos + 1]
               \/ m = p
    <3>1. PICK g \in DOMAIN e.index : \E y \in Live(e, g) : m = e.data[g][y.pos + 1]
      BY <2>1
    <3>2. PICK y \in Live(e, g) : m = e.data[g][y.pos + 1]
      BY <3>1
    <3>3. m = d.data[g][y.pos + 1] /\ g \in DOMAIN d.index
      BY <1>1, <3>2
    <3>4. y \in Live(d, g) \/ (g = f /\ y = x)
      BY <1>6, <3>3
    <3>5. QED
      BY <1>3, <3>3, <3>4
  <2>2. QED
    BY <2>1, SavedMeans, SMTT(30)
<1>13. QED
  BY <1>3, <1>6, <1>8, <1>9, <1>10, <1>11, <1>12 DEF Good

\* Groups and files that no message to recover is in may go, and come.
LEMMA Pruned ==
  ASSUME NEW d, Good(d), NEW e, DOMAIN e.index \subseteq DOMAIN d.index,
         \A g \in DOMAIN e.index : e.index[g] = d.index[g] /\ Live(e, g) = Live(d, g),
         \A g \in DOMAIN d.index : g \notin DOMAIN e.index => Live(d, g) = {},
         \A g \in DOMAIN d.index :
           Live(d, g) # {} => g \in DOMAIN e.data /\ e.data[g] = d.data[g]
  PROVE  Good(e) /\ Saved(e) = Saved(d)
<1>1. Points(e)
  BY DEF Good, Points
<1>2. EntriesDistinct(e)
  BY DEF Good, EntriesDistinct
<1>3. Saved(e) \subseteq Saved(d)
  <2>1. \A g \in DOMAIN e.index : \A y \in Live(e, g) :
          g \in DOMAIN d.index /\ y \in Live(d, g) /\ d.data[g][y.pos + 1] = e.data[g][y.pos + 1]
    OBVIOUS
  <2>2. QED
    BY <2>1, SavedWithin
<1>4. Saved(d) \subseteq Saved(e)
  <2>1. \A g \in DOMAIN d.index : \A y \in Live(d, g) :
          g \in DOMAIN e.index /\ y \in Live(e, g) /\ e.data[g][y.pos + 1] = d.data[g][y.pos + 1]
    OBVIOUS
  <2>2. QED
    BY <2>1, SavedWithin
<1>5. QED
  BY <1>1, <1>2, <1>3, <1>4 DEF Good

\* That message n is consumed is recorded in group f.
Recorded(d, f, n, e) ==
  /\ e.data = d.data /\ e.index = d.index
  /\ DOMAIN e.consume = DOMAIN d.consume \cup {f}
  /\ \A g \in DOMAIN d.consume : g # f => e.consume[g] = d.consume[g]
  /\ \A g : g # f => ConsumedIn(e, g) = ConsumedIn(d, g)
  /\ ConsumedIn(e, f) = ConsumedIn(d, f) \cup {n}
  /\ (f \in DOMAIN d.consume => IsInjective(d.consume[f])) /\ n \notin ConsumedIn(d, f)
       => IsInjective(e.consume[f])

LEMMA ConsumptionRecorded ==
  ASSUME NEW d, NEW c, DirOK(d, c), NEW f \in Indexes, NEW n \in Indexes, NEW e,
         e = WithConsume(d, Put(d.consume, f, Append(Create(d.consume, f)[f], n)))
  PROVE  Recorded(d, f, n, e)
<1>1. PICK s : s = Create(d.consume, f)[f]
  OBVIOUS
<1>2. e.data = d.data /\ e.index = d.index /\ e.consume = Put(d.consume, f, Append(s, n))
  BY <1>1 DEF WithConsume
<1>3. IsFiles(d.consume, Indexes)
  BY DEF DirOK
<1>4. /\ s \in Seq(Indexes) /\ (f \in DOMAIN d.consume => s = d.consume[f])
      /\ (f \notin DOMAIN d.consume => s = <<>>)
  <2>1. <<>> \in Seq(Indexes)
    OBVIOUS
  <2>2. f \in DOMAIN d.consume => Create(d.consume, f)[f] = d.consume[f]
    BY DEF Create
  <2>3. f \notin DOMAIN d.consume => Create(d.consume, f)[f] = <<>>
    BY DEF Create, Put
  <2>4. f \in DOMAIN d.consume => d.consume[f] \in Seq(Indexes)
    BY <1>3, FilesOf
  <2>5. QED
    BY <1>1, <2>1, <2>2, <2>3, <2>4
<1>5. /\ ToSet(Append(s, n)) = ToSet(s) \cup {n}
      /\ IsInjective(s) /\ n \notin ToSet(s) => IsInjective(Append(s, n))
  BY <1>4, AppendFacts
<1>6. ToSet(<<>>) = {} /\ IsInjective(<<>>)
  BY DEF ToSet, IsInjective
<1>7. /\ DOMAIN e.consume = DOMAIN d.consume \cup {f} /\ e.consume[f] = Append(s, n)
      /\ \A g \in DOMAIN d.consume : g # f => e.consume[g] = d.consume[g]
  <2>1. PICK v, F : v = Append(s, n) /\ F = d.consume
    OBVIOUS
  <2>2. e.consume = Put(F, f, v)
    BY <1>2, <2>1
  <2>3. /\ DOMAIN Put(F, f, v) = DOMAIN F \cup {f} /\ Put(F, f, v)[f] = v
        /\ \A g \in DOMAIN F : g # f => Put(F, f, v)[g] = F[g]
    BY DEF Put
  <2>4. QED
    BY <2>1, <2>2, <2>3
<1>8. ToSet(s) = ConsumedIn(d, f)
  BY <1>4, <1>6 DEF ConsumedIn
<1>9. ConsumedIn(e, f) = ConsumedIn(d, f) \cup {n}
  <2>1. ConsumedIn(e, f) = ToSet(Append(s, n))
    BY <1>7 DEF ConsumedIn
  <2>2. QED
    BY <1>5, <1>8, <2>1
<1>10. \A g : g # f => ConsumedIn(e, g) = ConsumedIn(d, g)
  BY <1>7 DEF ConsumedIn
<1>11. (f \in DOMAIN d.consume => IsInjective(d.consume[f])) /\ n \notin ConsumedIn(d, f)
         => IsInjective(e.consume[f])
  BY <1>4, <1>5, <1>6, <1>7, <1>8
<1>12. QED
  BY <1>2, <1>7, <1>9, <1>10, <1>11 DEF Recorded

\* Nothing but what has that index is given up.
LEMMA Consumption ==
  ASSUME NEW d, Good(d), NEW f, NEW n, NEW e, Recorded(d, f, n, e)
  PROVE  /\ Good(e)
         /\ Saved(e) \subseteq Saved(d)
         /\ \A m \in Saved(d) : m \in Saved(e) \/ m.index = n
         /\ \A g \in DOMAIN d.index : Live(e, g) \subseteq Live(d, g)
         /\ /\ ConsumeCounts(d) /\ n \notin ConsumedIn(d, f)
            /\ f \notin DOMAIN d.index \/ \E y \in ToSet(d.index[f]) : y.index = n
            => ConsumeCounts(e)
<1>1. \A g \in DOMAIN d.index : Live(e, g) \subseteq Live(d, g)
  BY DEF Live, Recorded
<1>2. \A g \in DOMAIN d.index : \A y \in Live(d, g) : y \in Live(e, g) \/ y.index = n
  BY DEF Live, Recorded
<1>3. e.data = d.data /\ e.index = d.index
  BY DEF Recorded
<1>4. Good(e)
  <2>1. Points(e)
    BY <1>1, <1>3 DEF Good, Points
  <2>2. EntriesDistinct(e)
    BY <1>3 DEF Good, EntriesDistinct
  <2>3. QED
    BY <2>1, <2>2 DEF Good
<1>5. Saved(e) \subseteq Saved(d)
  <2>1. \A g \in DOMAIN e.index : \A y \in Live(e, g) :
          g \in DOMAIN d.index /\ y \in Live(d, g) /\ d.data[g][y.pos + 1] = e.data[g][y.pos + 1]
    BY <1>1, <1>3
  <2>2. QED
    BY <2>1, SavedWithin
<1>6. ASSUME NEW m,
             \E g \in DOMAIN d.index : \E y \in Live(d, g) : m = d.data[g][y.pos + 1]
      PROVE  \/ \E g \in DOMAIN e.index : \E y \in Live(e, g) : m = e.data[g][y.pos + 1]
             \/ m.index = n
  <2>1. PICK g \in DOMAIN d.index : \E y \in Live(d, g) : m = d.data[g][y.pos + 1]
    BY <1>6
  <2>2. PICK y \in Live(d, g) : m = d.data[g][y.pos + 1]
    BY <2>1
  <2>3. m.index = y.index
    BY <2>2 DEF Good, Points
  <2>4. QED
    BY <1>2, <1>3, <2>2, <2>3
<1>7. \A m \in Saved(d) : m \in Saved(e) \/ m.index = n
  BY <1>6, SavedMeans
<1>8. ASSUME ConsumeCounts(d), n \notin ConsumedIn(d, f),
             f \notin DOMAIN d.index \/ \E y \in ToSet(d.index[f]) : y.index = n
      PROVE  ConsumeCounts(e)
  <2> SUFFICES ASSUME NEW g \in DOMAIN e.index \cap DOMAIN e.consume
               PROVE  /\ IsInjective(e.consume[g])
                      /\ ConsumedIn(e, g) \subseteq {y.index : y \in ToSet(e.index[g])}
    BY DEF ConsumeCounts
  <2>1. CASE g # f
    <3>1. g \in DOMAIN d.consume /\ g \in DOMAIN d.index /\ e.consume[g] = d.consume[g]
          /\ ConsumedIn(e, g) = ConsumedIn(d, g)
      BY <1>3, <2>1 DEF Recorded
    <3>2. QED
      BY <1>3, <1>8, <3>1 DEF ConsumeCounts
  <2>2. CASE g = f
    <3>1. f \in DOMAIN d.index /\ \E y \in ToSet(d.index[f]) : y.index = n
      BY <1>3, <1>8, <2>2
    <3>2. f \in DOMAIN d.consume =>
            /\ IsInjective(d.consume[f])
            /\ ConsumedIn(d, f) \subseteq {y.index : y \in ToSet(d.index[f])}
      BY <1>8, <3>1 DEF ConsumeCounts
    <3>3. IsInjective(e.consume[f])
      BY <1>8, <3>2 DEF Recorded
    <3>4. ConsumedIn(d, f) \subseteq {y.index : y \in ToSet(d.index[f])}
      BY <3>2 DEF ConsumedIn
    <3>5. ConsumedIn(e, f) \subseteq {y.index : y \in ToSet(d.index[f])}
      BY <3>1, <3>4 DEF Recorded
    <3>6. QED
      BY <1>3, <2>2, <3>3, <3>5
  <2>3. QED
    BY <2>1, <2>2
<1>9. QED
  BY <1>1, <1>4, <1>5, <1>7, <1>8

\* As many different numbers as there are places: they are all of them.
LEMMA AllTaken ==
  ASSUME NEW n \in Nat, NEW C, NEW E, NEW s \in Injection(1 .. n, C),
         NEW h \in Surjection(1 .. n, E), C \subseteq E
  PROVE  C = E
<1>1. IsFiniteSet(1 .. n) /\ Cardinality(1 .. n) = n
  BY FS_Interval
<1>2. IsFiniteSet(E) /\ Cardinality(E) <= n
  BY <1>1, FS_Surjection
<1>3. IsFiniteSet(C) /\ Cardinality(C) <= Cardinality(E)
      /\ (Cardinality(E) = Cardinality(C) => E = C)
  BY <1>2, FS_Subset
<1>4. n <= Cardinality(C)
  BY <1>1, <1>3, FS_Injection
<1>5. Cardinality(E) \in Nat /\ Cardinality(C) \in Nat
  BY <1>2, <1>3, FS_CardinalityType
<1>6. QED
  BY <1>2, <1>3, <1>4, <1>5

\* Of a group whose two files are as long no message is to be recovered.
LEMMA NoneLeft ==
  ASSUME NEW d, NEW c, DirOK(d, c), ConsumeCounts(d), NEW f, f \in DOMAIN d.consume,
         AllConsumed(d, f)
  PROVE  Live(d, f) = {}
<1>1. f \in DOMAIN d.index /\ Len(d.consume[f]) = Len(d.index[f])
  BY DEF AllConsumed
<1>2. d.index[f] \in Seq(Entry) /\ d.consume[f] \in Seq(Indexes)
  BY <1>1, FilesOf DEF DirOK
<1>3. IsInjective(d.consume[f]) /\ ConsumedIn(d, f) \subseteq {e.index : e \in ToSet(d.index[f])}
  BY <1>1 DEF ConsumeCounts
<1>4. ConsumedIn(d, f) = ToSet(d.consume[f])
  BY DEF ConsumedIn
<1>5. PICK n, s, t, E : /\ n = Len(d.index[f]) /\ s = d.consume[f] /\ t = d.index[f]
                        /\ E = {t[i].index : i \in 1 .. n}
  OBVIOUS
<1>6. /\ n \in Nat /\ s \in Seq(Indexes) /\ Len(s) = n /\ IsInjective(s)
      /\ t \in Seq(Entry) /\ DOMAIN t = 1 .. n
  BY <1>1, <1>2, <1>3, <1>5
<1>7. E = {e.index : e \in ToSet(t)}
  <2>1. ToSet(t) = {t[i] : i \in 1 .. n}
    BY <1>5, <1>6, RangeFacts
  <2>2. QED
    BY <1>5, <2>1
<1>8. ToSet(s) \subseteq E
  BY <1>3, <1>4, <1>5, <1>7
<1>9. ToSet(s) = E
  <2> DEFINE h == [i \in 1 .. n |-> t[i].index]
  <2>1. h \in Surjection(1 .. n, E)
    BY <1>5 DEF Surjection
  <2>2. s \in Injection(1 .. n, ToSet(s))
    <3>1. ToSet(s) = {s[i] : i \in 1 .. n} /\ DOMAIN s = 1 .. n
      BY <1>6, RangeFacts
    <3>2. s \in [1 .. n -> ToSet(s)]
      BY <1>6, <3>1
    <3>3. QED
      BY <1>6, <3>2 DEF Injection
  <2> HIDE DEF h
  <2>3. QED
    BY <1>6, <1>8, <2>1, <2>2, AllTaken
<1>10. QED
  BY <1>4, <1>5, <1>7, <1>9 DEF Live

\* The files of a group that no message to recover is in go one by one.
LessData(d, f)    == WithData(d, Drop(d.data, {f}))
LessIndex(d, f)   == WithIndex(d, Drop(d.index, {f}))
LessConsume(d, f) == WithConsume(d, Drop(d.consume, {f}))

LEMMA DataGone ==
  ASSUME NEW d, Good(d), NEW f, f \in DOMAIN d.index => Live(d, f) = {},
         NEW e, e = LessData(d, f)
  PROVE  /\ Good(e) /\ Saved(e) = Saved(d) /\ (ConsumeCounts(d) => ConsumeCounts(e))
         /\ e.index = d.index /\ DOMAIN e.data = DOMAIN d.data \ {f}
         /\ \A g \in DOMAIN e.index : Live(e, g) = Live(d, g)
<1>1. e.data = Drop(d.data, {f}) /\ e.index = d.index /\ e.consume = d.consume
  BY DEF LessData, WithData
<1>2. /\ DOMAIN e.data = DOMAIN d.data \ {f}
      /\ \A g \in DOMAIN d.data \ {f} : e.data[g] = d.data[g]
  BY <1>1 DEF Drop
<1>3. \A g : ConsumedIn(e, g) = ConsumedIn(d, g)
  BY <1>1 DEF ConsumedIn
<1>4. \A g : Live(e, g) = Live(d, g)
  BY <1>1, <1>3 DEF Live
<1>5. \A g \in DOMAIN d.index :
        Live(d, g) # {} => g \in DOMAIN e.data /\ e.data[g] = d.data[g]
  BY <1>2 DEF Good, Points
<1>6. ConsumeCounts(d) => ConsumeCounts(e)
  BY <1>1, <1>3 DEF ConsumeCounts
<1>7. Good(e) /\ Saved(e) = Saved(d)
  BY <1>1, <1>4, <1>5, Pruned
<1>8. QED
  BY <1>1, <1>2, <1>4, <1>6, <1>7

LEMMA IndexGone ==
  ASSUME NEW d, Good(d), NEW f, f \in DOMAIN d.index => Live(d, f) = {},
         NEW e, e = LessIndex(d, f)
  PROVE  /\ Good(e) /\ Saved(e) = Saved(d) /\ (ConsumeCounts(d) => ConsumeCounts(e))
         /\ DOMAIN e.index = DOMAIN d.index \ {f} /\ e.data = d.data
         /\ \A g \in DOMAIN e.index : e.index[g] = d.index[g] /\ Live(e, g) = Live(d, g)
<1>1. e.index = Drop(d.index, {f}) /\ e.data = d.data /\ e.consume = d.consume
  BY DEF LessIndex, WithIndex
<1>2. /\ DOMAIN e.index = DOMAIN d.index \ {f}
      /\ \A g \in DOMAIN e.index : e.index[g] = d.index[g]
  BY <1>1 DEF Drop
<1>3. \A g : ConsumedIn(e, g) = ConsumedIn(d, g)
  BY <1>1 DEF ConsumedIn
<1>4. \A g \in DOMAIN e.index : Live(e, g) = Live(d, g)
  BY <1>2, <1>3 DEF Live
<1>5. \A g \in DOMAIN d.index :
        Live(d, g) # {} => g \in DOMAIN e.data /\ e.data[g] = d.data[g]
  BY <1>1 DEF Good, Points
<1>6. ConsumeCounts(d) => ConsumeCounts(e)
  BY <1>1, <1>2, <1>3 DEF ConsumeCounts
<1>7. Good(e) /\ Saved(e) = Saved(d)
  BY <1>2, <1>4, <1>5, Pruned
<1>8. QED
  BY <1>1, <1>2, <1>4, <1>6, <1>7

LEMMA ConsumeGone ==
  ASSUME NEW d, Good(d), NEW f, f \notin DOMAIN d.index,
         NEW e, e = LessConsume(d, f)
  PROVE  /\ Good(e) /\ Saved(e) = Saved(d) /\ (ConsumeCounts(d) => ConsumeCounts(e))
         /\ e.index = d.index /\ e.data = d.data
         /\ \A g \in DOMAIN e.index : Live(e, g) = Live(d, g)
<1>1. e.consume = Drop(d.consume, {f}) /\ e.data = d.data /\ e.index = d.index
  BY DEF LessConsume, WithConsume
<1>2. /\ DOMAIN e.consume = DOMAIN d.consume \ {f}
      /\ \A g \in DOMAIN e.consume : e.consume[g] = d.consume[g]
  BY <1>1 DEF Drop
<1>3. \A g : g # f => ConsumedIn(e, g) = ConsumedIn(d, g)
  BY <1>2 DEF ConsumedIn
<1>4. \A g \in DOMAIN e.index : Live(e, g) = Live(d, g)
  BY <1>1, <1>3 DEF Live
<1>5. \A g \in DOMAIN d.index :
        Live(d, g) # {} => g \in DOMAIN e.data /\ e.data[g] = d.data[g]
  BY <1>1 DEF Good, Points
<1>6. ConsumeCounts(d) => ConsumeCounts(e)
  BY <1>1, <1>2, <1>3 DEF ConsumeCounts
<1>7. Good(e) /\ Saved(e) = Saved(d)
  BY <1>1, <1>4, <1>5, Pruned
<1>8. QED
  BY <1>1, <1>4, <1>6, <1>7

-----------------------------------------------------------------------------
(* Sound(q) of the directory d, the map, the tails tl and the place p.      *)

\* A message for queue q is being written and has no entry yet.
Written(q, p) == p.at \in {"opened", "data written"} /\ p.queue = q

KnowsLive(d, map) ==
  \A f \in DOMAIN d.index : \A e \in Live(d, f) : e.index \in DOMAIN map /\ map[e.index] = f

KnowsOnly(q, d, map, p) ==
  \A n \in DOMAIN map : \/ map[n] \notin DOMAIN d.index
                        \/ \E e \in ToSet(d.index[map[n]]) : e.index = n
                        \/ Written(q, p) /\ p.index = n

KnowsTail(q, d, tl, p) ==
  q \in DOMAIN tl => \/ tl[q] \in DOMAIN d.data \cap DOMAIN d.index
                     \/ p.at = "removing" /\ p.queue = q /\ p.file = tl[q]

Right(q, d, map, p) ==
  Written(q, p) =>
    /\ \A f \in DOMAIN d.index : \A e \in ToSet(d.index[f]) : e.index # p.index
    /\ p.index \in DOMAIN map /\ map[p.index] = p.file
    /\ p.at = "opened" => p.pos = Len(d.data[p.file])
    /\ p.at = "data written" =>
         /\ p.pos + 1 = Len(d.data[p.file])
         /\ Last(d.data[p.file]) = [id |-> p.id, index |-> p.index]

InOrder(q, d, map, tl, p) ==
  /\ Good(d) /\ ConsumeCounts(d)
  /\ p = Down \/ (KnowsLive(d, map) /\ KnowsOnly(q, d, map, p) /\ KnowsTail(q, d, tl, p))
  /\ Right(q, d, map, p)

LEMMA SoundIs ==
  ASSUME TInv, NEW q, q \in DOMAIN dirs
  PROVE  Sound(q) <=> InOrder(q, dirs[q], indexFile[q], tail, persis)
<1>1. DirOK(dirs[q], count.messages)
  BY DEF TInv, DirsOK
<1>2. \A f \in DOMAIN dirs[q].index : ToSet(LiveEntries(dirs[q], f)) = Live(dirs[q], f)
  BY <1>1, LiveFacts DEF Live
<1>3. EntriesPoint(dirs[q]) <=> Points(dirs[q])
  BY <1>1, PointsIs
<1>4. MemoryAgrees(q) <=>
        \/ persis = Down
        \/ /\ KnowsLive(dirs[q], indexFile[q]) /\ KnowsOnly(q, dirs[q], indexFile[q], persis)
           /\ KnowsTail(q, dirs[q], tail, persis)
  <2> DEFINE Lead == \A f \in DOMAIN dirs[q].index : \A e \in ToSet(LiveEntries(dirs[q], f)) :
                       e.index \in DOMAIN indexFile[q] /\ indexFile[q][e.index] = f
             Only == KnowsOnly(q, dirs[q], indexFile[q], persis)
             Tails == KnowsTail(q, dirs[q], tail, persis)
  <2>1. Lead <=> KnowsLive(dirs[q], indexFile[q])
    BY <1>2 DEF KnowsLive
  <2>2. Only <=> \A n \in DOMAIN indexFile[q] :
                   \/ indexFile[q][n] \notin DOMAIN dirs[q].index
                   \/ \E e \in ToSet(dirs[q].index[indexFile[q][n]]) : e.index = n
                   \/ persis.at \in {"opened", "data written"} /\ persis.queue = q /\ persis.index = n
    BY DEF KnowsOnly, Written
  <2>3. Tails <=> (q \in DOMAIN tail =>
                     \/ tail[q] \in DOMAIN dirs[q].data \cap DOMAIN dirs[q].index
                     \/ persis.at = "removing" /\ persis.queue = q /\ persis.file = tail[q])
    BY DEF KnowsTail
  <2> HIDE DEF Only, Tails
  <2>4. MemoryAgrees(q) <=> persis = Down \/ (Lead /\ Only /\ Tails)
    BY <2>2, <2>3 DEF MemoryAgrees
  <2> HIDE DEF Lead
  <2>5. QED
    BY <2>1, <2>4 DEF Only, Tails
<1>5. WritingRight(q) <=> Right(q, dirs[q], indexFile[q], persis)
  BY DEF WritingRight, Right, Written
<1>6. QED
  BY <1>3, <1>4, <1>5 DEF Sound, InOrder, Good

LEMMA SoundNext ==
  ASSUME TInv', NEW q, q \in DOMAIN dirs'
  PROVE  Sound(q)' <=> InOrder(q, dirs'[q], indexFile'[q], tail', persis')
<1>1. DirOK(dirs'[q], count'.messages)
  BY DEF TInv, DirsOK
<1>2. \A f \in DOMAIN dirs'[q].index : ToSet(LiveEntries(dirs'[q], f)) = Live(dirs'[q], f)
  BY <1>1, LiveFacts DEF Live
<1>3. EntriesPoint(dirs'[q]) <=> Points(dirs'[q])
  BY <1>1, PointsIs
<1>4. MemoryAgrees(q)' <=>
        \/ persis' = Down
        \/ /\ KnowsLive(dirs'[q], indexFile'[q]) /\ KnowsOnly(q, dirs'[q], indexFile'[q], persis')
           /\ KnowsTail(q, dirs'[q], tail', persis')
  <2> DEFINE Lead == \A f \in DOMAIN dirs'[q].index : \A e \in ToSet(LiveEntries(dirs'[q], f)) :
                       e.index \in DOMAIN indexFile'[q] /\ indexFile'[q][e.index] = f
             Only == KnowsOnly(q, dirs'[q], indexFile'[q], persis')
             Tails == KnowsTail(q, dirs'[q], tail', persis')
  <2>1. Lead <=> KnowsLive(dirs'[q], indexFile'[q])
    BY <1>2 DEF KnowsLive
  <2>2. Only <=> \A n \in DOMAIN indexFile'[q] :
                   \/ indexFile'[q][n] \notin DOMAIN dirs'[q].index
                   \/ \E e \in ToSet(dirs'[q].index[indexFile'[q][n]]) : e.index = n
                   \/ persis'.at \in {"opened", "data written"} /\ persis'.queue = q /\ persis'.index = n
    BY DEF KnowsOnly, Written
  <2>3. Tails <=> (q \in DOMAIN tail' =>
                     \/ tail'[q] \in DOMAIN dirs'[q].data \cap DOMAIN dirs'[q].index
                     \/ persis'.at = "removing" /\ persis'.queue = q /\ persis'.file = tail'[q])
    BY DEF KnowsTail
  <2> HIDE DEF Only, Tails
  <2>4. MemoryAgrees(q)' <=> persis' = Down \/ (Lead /\ Only /\ Tails)
    BY <2>2, <2>3 DEF MemoryAgrees
  <2> HIDE DEF Lead
  <2>5. QED
    BY <2>1, <2>4 DEF Only, Tails
<1>5. WritingRight(q)' <=> Right(q, dirs'[q], indexFile'[q], persis')
  BY DEF WritingRight, Right, Written
<1>6. QED
  BY <1>3, <1>4, <1>5 DEF Sound, InOrder, Good

\* PersistenceServer is killed.
LEMMA KilledInOrder ==
  ASSUME NEW q, NEW d, NEW map, NEW tl, NEW p, InOrder(q, d, map, tl, p)
  PROVE  InOrder(q, d, map, tl, Down)
BY DEF InOrder, Right, Written, Down

\* Every index that is known is one of the group's, but that of a new message.
KnowsAllBut(N, d, map) ==
  \A n \in DOMAIN map \ N : map[n] \notin DOMAIN d.index \/ \E e \in ToSet(d.index[map[n]]) : e.index = n

\* The files and maps of a queue for which nothing is under way.
Settled(q, d, map, tl) ==
  /\ Good(d) /\ ConsumeCounts(d) /\ KnowsLive(d, map) /\ KnowsAllBut({}, d, map)
  /\ q \in DOMAIN tl => tl[q] \in DOMAIN d.data \cap DOMAIN d.index

\* Of one that gets message n, in group f.
Started(q, d, map, tl, n, f) ==
  /\ Good(d) /\ ConsumeCounts(d) /\ KnowsLive(d, map) /\ KnowsAllBut({n}, d, map)
  /\ q \in DOMAIN tl => tl[q] \in DOMAIN d.data \cap DOMAIN d.index
  /\ \A g \in DOMAIN d.index : \A e \in ToSet(d.index[g]) : e.index # n
  /\ n \in DOMAIN map /\ map[n] = f

\* Of one whose group f is removed.
Leaving(q, d, map, tl, f) ==
  /\ Good(d) /\ ConsumeCounts(d) /\ KnowsLive(d, map) /\ KnowsAllBut({}, d, map)
  /\ q \in DOMAIN tl => tl[q] \in DOMAIN d.data \cap DOMAIN d.index \/ tl[q] = f

Quiet(q, p) == p # Down /\ ~Written(q, p) /\ ~(p.at = "removing" /\ p.queue = q)

LEMMA QuietIs ==
  ASSUME NEW q, NEW p, Quiet(q, p), NEW d, NEW map, NEW tl
  PROVE  InOrder(q, d, map, tl, p) <=> Settled(q, d, map, tl)
<1>1. KnowsOnly(q, d, map, p) <=> KnowsAllBut({}, d, map)
  BY DEF KnowsOnly, KnowsAllBut, Quiet
<1>2. KnowsTail(q, d, tl, p) <=> (q \in DOMAIN tl => tl[q] \in DOMAIN d.data \cap DOMAIN d.index)
  BY DEF KnowsTail, Quiet
<1>3. Right(q, d, map, p) /\ p # Down
  BY DEF Right, Quiet
<1>4. QED
  BY <1>1, <1>2, <1>3 DEF InOrder, Settled

WriteAt(a, q, n, i, f, k) ==
  [at |-> a, queue |-> q, index |-> n, id |-> i, file |-> f, pos |-> k]

LEMMA WritingKnows ==
  ASSUME NEW q, NEW p, Written(q, p), NEW d, NEW map, NEW tl
  PROVE  /\ p # Down
         /\ KnowsOnly(q, d, map, p) <=> KnowsAllBut({p.index}, d, map)
         /\ KnowsTail(q, d, tl, p) <=> (q \in DOMAIN tl => tl[q] \in DOMAIN d.data \cap DOMAIN d.index)
<1>1. p # Down /\ p.at # "removing"
  <2>1. p.at # "down" /\ p.at # "removing"
    BY DEF Written
  <2>2. QED
    BY <2>1, PersisAt
<1>2. KnowsOnly(q, d, map, p) <=> KnowsAllBut({p.index}, d, map)
  BY DEF KnowsOnly, KnowsAllBut
<1>3. KnowsTail(q, d, tl, p) <=> (q \in DOMAIN tl => tl[q] \in DOMAIN d.data \cap DOMAIN d.index)
  BY <1>1 DEF KnowsTail
<1>4. QED
  BY <1>1, <1>2, <1>3

LEMMA OpenedIs ==
  ASSUME NEW q, NEW n, NEW i, NEW f, NEW k, NEW d, NEW map, NEW tl
  PROVE  InOrder(q, d, map, tl, WriteAt("opened", q, n, i, f, k)) <=>
           Started(q, d, map, tl, n, f) /\ k = Len(d.data[f])
<1>0. PICK p : p = WriteAt("opened", q, n, i, f, k)
  OBVIOUS
<1>1. /\ p # Down /\ Written(q, p) /\ p.index = n /\ p.file = f /\ p.pos = k /\ p.id = i
      /\ KnowsOnly(q, d, map, p) <=> KnowsAllBut({n}, d, map)
      /\ KnowsTail(q, d, tl, p) <=> (q \in DOMAIN tl => tl[q] \in DOMAIN d.data \cap DOMAIN d.index)
  <2>1. Written(q, p) /\ p.index = n /\ p.file = f /\ p.pos = k /\ p.id = i
    BY <1>0 DEF WriteAt, Written
  <2>2. /\ p # Down
        /\ KnowsOnly(q, d, map, p) <=> KnowsAllBut({p.index}, d, map)
        /\ KnowsTail(q, d, tl, p) <=> (q \in DOMAIN tl => tl[q] \in DOMAIN d.data \cap DOMAIN d.index)
    BY <2>1, WritingKnows
  <2>3. QED
    BY <2>1, <2>2
<1>2. p.at = "opened"
  BY <1>0 DEF WriteAt
<1>3. Right(q, d, map, p) <=>
        /\ \A g \in DOMAIN d.index : \A e \in ToSet(d.index[g]) : e.index # n
        /\ n \in DOMAIN map /\ map[n] = f
        /\ k = Len(d.data[f])
  BY <1>1, <1>2 DEF Right
<1>4. InOrder(q, d, map, tl, p) <=> Started(q, d, map, tl, n, f) /\ k = Len(d.data[f])
  BY <1>1, <1>3 DEF InOrder, Started
<1>5. QED
  BY <1>0, <1>4

MessageOf(i, n) == [id |-> i, index |-> n]

\* Message m is the last of group f's data, at k.
LastAt(d, f, k, m) == k + 1 = Len(d.data[f]) /\ Last(d.data[f]) = m

LEMMA DataWrittenIs ==
  ASSUME NEW q, NEW n, NEW i, NEW f, NEW k, NEW d, NEW map, NEW tl
  PROVE  InOrder(q, d, map, tl, WriteAt("data written", q, n, i, f, k)) <=>
           Started(q, d, map, tl, n, f) /\ LastAt(d, f, k, MessageOf(i, n))
<1>0. PICK p : p = WriteAt("data written", q, n, i, f, k)
  OBVIOUS
<1>1. /\ p # Down /\ Written(q, p) /\ p.index = n /\ p.file = f /\ p.pos = k /\ p.id = i
      /\ KnowsOnly(q, d, map, p) <=> KnowsAllBut({n}, d, map)
      /\ KnowsTail(q, d, tl, p) <=> (q \in DOMAIN tl => tl[q] \in DOMAIN d.data \cap DOMAIN d.index)
  <2>1. Written(q, p) /\ p.index = n /\ p.file = f /\ p.pos = k /\ p.id = i
    BY <1>0 DEF WriteAt, Written
  <2>2. /\ p # Down
        /\ KnowsOnly(q, d, map, p) <=> KnowsAllBut({p.index}, d, map)
        /\ KnowsTail(q, d, tl, p) <=> (q \in DOMAIN tl => tl[q] \in DOMAIN d.data \cap DOMAIN d.index)
    BY <2>1, WritingKnows
  <2>3. QED
    BY <2>1, <2>2
<1>2. p.at = "data written"
  BY <1>0 DEF WriteAt
<1>3. Right(q, d, map, p) <=>
        /\ \A g \in DOMAIN d.index : \A e \in ToSet(d.index[g]) : e.index # n
        /\ n \in DOMAIN map /\ map[n] = f
        /\ LastAt(d, f, k, MessageOf(i, n))
  BY <1>1, <1>2 DEF Right, LastAt, MessageOf
<1>4. InOrder(q, d, map, tl, p) <=>
        Started(q, d, map, tl, n, f) /\ LastAt(d, f, k, MessageOf(i, n))
  BY <1>1, <1>3 DEF InOrder, Started
<1>5. QED
  BY <1>0, <1>4

LEMMA RemovingIs ==
  ASSUME NEW q, NEW f, NEW left, NEW d, NEW map, NEW tl, NEW p,
         p = [at |-> "removing", queue |-> q, file |-> f, left |-> left]
  PROVE  InOrder(q, d, map, tl, p) <=> Leaving(q, d, map, tl, f)
<1>1. p.at = "removing" /\ p.queue = q /\ p.file = f /\ p # Down /\ ~Written(q, p)
  BY DEF Down, Written
<1>2. KnowsOnly(q, d, map, p) <=> KnowsAllBut({}, d, map)
  BY <1>1 DEF KnowsOnly, KnowsAllBut
<1>3. KnowsTail(q, d, tl, p) <=> (q \in DOMAIN tl => tl[q] \in DOMAIN d.data \cap DOMAIN d.index \/ tl[q] = f)
  BY <1>1 DEF KnowsTail
<1>4. Right(q, d, map, p)
  BY <1>1 DEF Right
<1>5. QED
  BY <1>1, <1>2, <1>3, <1>4 DEF InOrder, Leaving

-----------------------------------------------------------------------------
(* What each operation makes of them.                                       *)

\* Something is done with other queues, or with what does not count.
LEMMA StaysSettled ==
  ASSUME NEW q, NEW d, NEW map, NEW tl, Settled(q, d, map, tl),
         NEW e, e.data = d.data, e.index = d.index, e.consume = d.consume,
         NEW t, q \in DOMAIN t => q \in DOMAIN tl /\ t[q] = tl[q]
  PROVE  Settled(q, e, map, t)
<1>1. Good(e) /\ ConsumeCounts(e) /\ \A f \in DOMAIN d.index : Live(e, f) = Live(d, f)
  BY SameFiles DEF Settled
<1>2. KnowsLive(e, map)
  BY <1>1 DEF Settled, KnowsLive
<1>3. KnowsAllBut({}, e, map)
  BY DEF Settled, KnowsAllBut
<1>4. q \in DOMAIN t => t[q] \in DOMAIN e.data \cap DOMAIN e.index
  BY DEF Settled
<1>5. QED
  BY <1>1, <1>2, <1>3, <1>4 DEF Settled

\* The index of a message that is published is a new one.
New(n, d, map) ==
  /\ n \notin DOMAIN d.data /\ n \notin DOMAIN d.consume
  /\ \A f \in DOMAIN d.index : \A e \in ToSet(d.index[f]) : e.index # n
  /\ n \notin DOMAIN map /\ \A k \in DOMAIN map : map[k] # n

\* OnPublishMessage: the group f is the tail or one named after the message.
LEMMA OpenedStarts ==
  ASSUME NEW q, NEW d, NEW c \in Nat, DirOK(d, c), NEW map, NEW tl, Settled(q, d, map, tl),
         NEW n, New(n, d, map), NEW f \in Indexes, f \in DOMAIN d.index \/ f = n,
         NEW e, e = Opened(d, f), NEW map2, map2 = Put(map, n, f), NEW t, q \in DOMAIN t, t[q] = f
  PROVE  Started(q, e, map2, t, n, f)
<1>1. Good(d) /\ ConsumeCounts(d) /\ KnowsLive(d, map) /\ KnowsAllBut({}, d, map)
  BY DEF Settled
<1>3. /\ Good(e)
      /\ DOMAIN e.index = DOMAIN d.index \cup {f} /\ DOMAIN e.data = DOMAIN d.data \cup {f}
      /\ e.consume = d.consume
      /\ \A g \in DOMAIN d.index : e.index[g] = d.index[g] /\ Live(e, g) = Live(d, g)
      /\ f \notin DOMAIN d.index => e.index[f] = <<>> /\ Live(e, f) = {}
  BY <1>1, OpenedFiles
<1>4. ToSet(<<>>) = {}
  BY DEF ToSet
<1>5. \A g \in DOMAIN e.index : \A x \in ToSet(e.index[g]) : x.index # n
  BY <1>3, <1>4 DEF New
<1>6. f \notin DOMAIN d.index => f = n
  OBVIOUS
<1>7. ConsumeCounts(e)
  <2>1. \A g \in DOMAIN e.index \cap DOMAIN e.consume :
          g \in DOMAIN d.index /\ g \in DOMAIN d.consume /\ e.index[g] = d.index[g]
    BY <1>3, <1>6 DEF New
  <2>2. \A g : ConsumedIn(e, g) = ConsumedIn(d, g)
    BY <1>3 DEF ConsumedIn
  <2>3. QED
    BY <1>1, <1>3, <2>1, <2>2 DEF ConsumeCounts
<1>8. /\ DOMAIN map2 = DOMAIN map \cup {n} /\ map2[n] = f
      /\ \A k \in DOMAIN map : map2[k] = map[k]
  BY DEF Put, New
<1>9. KnowsLive(e, map2)
  <2> SUFFICES ASSUME NEW g \in DOMAIN e.index, NEW x \in Live(e, g)
               PROVE  x.index \in DOMAIN map2 /\ map2[x.index] = g
    BY DEF KnowsLive
  <2>1. g \in DOMAIN d.index /\ x \in Live(d, g)
    BY <1>3
  <2>2. x.index \in DOMAIN map /\ map[x.index] = g
    BY <1>1, <2>1 DEF KnowsLive
  <2>3. QED
    BY <1>8, <2>2
<1>10. KnowsAllBut({n}, e, map2)
  <2> SUFFICES ASSUME NEW k \in DOMAIN map2 \ {n}
               PROVE  \/ map2[k] \notin DOMAIN e.index
                      \/ \E x \in ToSet(e.index[map2[k]]) : x.index = k
    BY DEF KnowsAllBut
  <2>1. k \in DOMAIN map /\ map2[k] = map[k]
    BY <1>8
  <2>2. map[k] \notin DOMAIN d.index \/ \E x \in ToSet(d.index[map[k]]) : x.index = k
    BY <1>1, <2>1 DEF KnowsAllBut
  <2>3. map[k] # n
    BY <2>1 DEF New
  <2>4. map[k] \in DOMAIN e.index => map[k] \in DOMAIN d.index /\ e.index[map[k]] = d.index[map[k]]
    BY <1>3, <1>6, <2>3
  <2>5. QED
    BY <2>1, <2>2, <2>4
<1>11. QED
  BY <1>3, <1>5, <1>7, <1>8, <1>9, <1>10 DEF Started

\* WriteData.
LEMMA WroteData ==
  ASSUME NEW q, NEW d, NEW c, DirOK(d, c), NEW map, NEW tl, NEW n, NEW f \in DOMAIN d.data,
         Started(q, d, map, tl, n, f), NEW m \in Message,
         NEW e, e = WithMessage(d, f, m)
  PROVE  /\ Started(q, e, map, tl, n, f)
         /\ Len(e.data[f]) = Len(d.data[f]) + 1 /\ Last(e.data[f]) = m
<1>1. /\ Good(d) /\ ConsumeCounts(d)
  BY DEF Started
<1>2. /\ Good(e)
      /\ DOMAIN e.data = DOMAIN d.data /\ e.index = d.index /\ e.consume = d.consume
      /\ e.data[f] = Append(d.data[f], m)
      /\ \A g : Live(e, g) = Live(d, g)
  BY <1>1, DataAdded
<1>3. ConsumeCounts(e)
  BY <1>1, <1>2 DEF ConsumeCounts, ConsumedIn
<1>4. KnowsLive(e, map) /\ KnowsAllBut({n}, e, map)
  <2>1. KnowsLive(d, map) /\ KnowsAllBut({n}, d, map)
    BY DEF Started
  <2>2. KnowsLive(e, map)
    BY <1>2, <2>1 DEF KnowsLive
  <2>3. KnowsAllBut({n}, e, map)
    BY <1>2, <2>1 DEF KnowsAllBut
  <2>4. QED
    BY <2>2, <2>3
<1>5. Started(q, e, map, tl, n, f)
  BY <1>2, <1>3, <1>4 DEF Started
<1>6. PICK s : s = d.data[f]
  OBVIOUS
<1>7. s \in Seq(Message)
  BY <1>6, FilesOf DEF DirOK
<1>8. Len(Append(s, m)) = Len(s) + 1 /\ Append(s, m)[Len(s) + 1] = m
  BY <1>7, AppendFacts
<1>9. QED
  BY <1>2, <1>5, <1>6, <1>8 DEF Last

\* Entry x leads to message m.
Leads(d, f, x, m) == x.pos < Len(d.data[f]) /\ d.data[f][x.pos + 1] = m

\* WriteIndex: the entry x of message m is appended.
LEMMA WroteIndex ==
  ASSUME NEW q, NEW d, NEW c, DirOK(d, c), NEW map, NEW tl, NEW n, NEW f \in DOMAIN d.index,
         Started(q, d, map, tl, n, f), f \in DOMAIN d.data, NEW x, x.index = n,
         NEW m, m.index = n, Leads(d, f, x, m), NEW e, Appended(d, f, x, e)
  PROVE  /\ Settled(q, e, map, tl)
         /\ Saved(d) \subseteq Saved(e) /\ \A y \in Saved(e) : y \in Saved(d) \/ y = m
<1>1. /\ Good(d) /\ ConsumeCounts(d) /\ KnowsLive(d, map) /\ KnowsAllBut({n}, d, map)
      /\ \A g \in DOMAIN d.index : \A y \in ToSet(d.index[g]) : y.index # x.index
      /\ n \in DOMAIN map /\ map[n] = f
  BY DEF Started
<1>2. /\ x.pos < Len(d.data[f]) /\ d.data[f][x.pos + 1] = m
      /\ d.data[f][x.pos + 1].index = x.index
  BY DEF Leads
<1>3. /\ Good(e) /\ ConsumeCounts(e) /\ Saved(d) \subseteq Saved(e)
      /\ \A y \in Saved(e) : y \in Saved(d) \/ y = d.data[f][x.pos + 1]
      /\ \A g \in DOMAIN d.index : \A y \in Live(e, g) :
           y \in Live(d, g) \/ (g = f /\ y = x)
  BY <1>1, <1>2, EntryAdded
<1>4. /\ DOMAIN e.index = DOMAIN d.index /\ e.data = d.data
      /\ \A g \in DOMAIN d.index : ToSet(d.index[g]) \subseteq ToSet(e.index[g])
      /\ x \in ToSet(e.index[f])
  BY DEF Appended
<1>5. KnowsLive(e, map)
  <2> SUFFICES ASSUME NEW g \in DOMAIN e.index, NEW y \in Live(e, g)
               PROVE  y.index \in DOMAIN map /\ map[y.index] = g
    BY DEF KnowsLive
  <2>1. y \in Live(d, g) \/ (g = f /\ y = x)
    BY <1>3, <1>4
  <2>2. y \in Live(d, g) => y.index \in DOMAIN map /\ map[y.index] = g
    BY <1>1, <1>4 DEF KnowsLive
  <2>3. QED
    BY <1>1, <2>1, <2>2
<1>6. KnowsAllBut({}, e, map)
  <2> SUFFICES ASSUME NEW k \in DOMAIN map, map[k] \in DOMAIN e.index
               PROVE  \E y \in ToSet(e.index[map[k]]) : y.index = k
    BY DEF KnowsAllBut
  <2>1. CASE k = n
    BY <1>1, <1>4, <2>1
  <2>2. CASE k # n
    <3>1. \E y \in ToSet(d.index[map[k]]) : y.index = k
      BY <1>1, <1>4, <2>2 DEF KnowsAllBut
    <3>2. QED
      BY <1>4, <3>1
  <2>3. QED
    BY <2>1, <2>2
<1>7. q \in DOMAIN tl => tl[q] \in DOMAIN e.data \cap DOMAIN e.index
  BY <1>4 DEF Started
<1>8. QED
  BY <1>2, <1>3, <1>5, <1>6, <1>7 DEF Settled

\* OnConsumeMessage: the index is known, so of a message of the group if that
\* is still there.
LEMMA RecordedSettles ==
  ASSUME NEW q, NEW d, NEW map, NEW tl, Settled(q, d, map, tl),
         NEW n \in DOMAIN map, NEW f, f = map[n], n \notin ConsumedIn(d, f),
         NEW e, Recorded(d, f, n, e)
  PROVE  Settled(q, e, map, tl)
<1>1. Good(d) /\ ConsumeCounts(d) /\ KnowsLive(d, map) /\ KnowsAllBut({}, d, map)
  BY DEF Settled
<1>2. f \notin DOMAIN d.index \/ \E y \in ToSet(d.index[f]) : y.index = n
  BY <1>1 DEF KnowsAllBut
<1>3. Good(e) /\ ConsumeCounts(e) /\ \A g \in DOMAIN d.index : Live(e, g) \subseteq Live(d, g)
  BY <1>1, <1>2, Consumption
<1>4. e.data = d.data /\ e.index = d.index
  BY DEF Recorded
<1>5. KnowsLive(e, map)
  BY <1>1, <1>3, <1>4 DEF KnowsLive
<1>6. KnowsAllBut({}, e, map)
  BY <1>1, <1>4 DEF KnowsAllBut
<1>7. q \in DOMAIN tl => tl[q] \in DOMAIN e.data \cap DOMAIN e.index
  BY <1>4 DEF Settled
<1>8. QED
  BY <1>3, <1>5, <1>6, <1>7 DEF Settled

\* RemoveNext: a file of the group goes.
LEMMA StillLeaving ==
  ASSUME NEW q, NEW d, NEW map, NEW tl, NEW f, Leaving(q, d, map, tl, f),
         NEW e, Good(e), ConsumeCounts(e), DOMAIN e.index \subseteq DOMAIN d.index,
         \A g \in DOMAIN e.index : e.index[g] = d.index[g] /\ Live(e, g) = Live(d, g),
         DOMAIN d.data \ {f} \subseteq DOMAIN e.data,
         DOMAIN d.index \ {f} \subseteq DOMAIN e.index
  PROVE  Leaving(q, e, map, tl, f)
<1>1. KnowsLive(e, map)
  BY DEF Leaving, KnowsLive
<1>2. KnowsAllBut({}, e, map)
  BY DEF Leaving, KnowsAllBut
<1>3. QED
  BY <1>1, <1>2 DEF Leaving

\* The groups that have an entry for n have a least one.
Holders(d, n) == {f \in DOMAIN d.index : \E e \in ToSet(d.index[f]) : e.index = n}

LEMMA LeastHolds ==
  ASSUME NEW d, NEW c, DirOK(d, c), NEW n, NEW f \in DOMAIN d.index, f \in Holders(d, n)
  PROVE  Min(Holders(d, n)) \in Holders(d, n)
<1> DEFINE H == Holders(d, n)
<1>1. H # {}
  OBVIOUS
<1>2. DOMAIN d.index \subseteq Indexes
  BY DEF DirOK, IsFiles
<1>3. H \subseteq Indexes
  BY <1>2 DEF Holders
<1>4. H \in SUBSET Nat
  BY <1>3, SetsOfIndexes
<1>5. QED
  BY <1>1, <1>4, MinFacts

\* InitFileInfo: the group of an index is the one that has its entry.
LEMMA KnownSettles ==
  ASSUME NEW d, NEW c, DirOK(d, c), Good(d), ConsumeCounts(d), NEW map,
         map = [n \in UNION {{e.index : e \in ToSet(d.index[f])} : f \in DOMAIN d.index} |->
                  Min({f \in DOMAIN d.index : \E e \in ToSet(d.index[f]) : e.index = n})],
         NEW q, NEW t, q \notin DOMAIN t
  PROVE  Settled(q, d, map, t)
<1>1. DOMAIN map = UNION {{e.index : e \in ToSet(d.index[f])} : f \in DOMAIN d.index}
  OBVIOUS
<1>2. ASSUME NEW n \in DOMAIN map
      PROVE  map[n] \in Holders(d, n)
  <2>1. map[n] = Min({f \in DOMAIN d.index : \E e \in ToSet(d.index[f]) : e.index = n})
    BY <1>1
  <2>2. map[n] = Min(Holders(d, n))
    BY <2>1 DEF Holders
  <2>3. PICK f \in DOMAIN d.index : f \in Holders(d, n)
    BY <1>1 DEF Holders
  <2>4. Min(Holders(d, n)) \in Holders(d, n)
    BY <2>3, LeastHolds
  <2>5. QED
    BY <2>2, <2>4
<1>3. ASSUME NEW f \in DOMAIN d.index, NEW e \in Live(d, f)
      PROVE  e.index \in DOMAIN map /\ map[e.index] = f
  <2>1. e \in ToSet(d.index[f])
    BY DEF Live
  <2>2. e.index \in DOMAIN map
    BY <1>1, <2>1
  <2>3. PICK g : g = map[e.index] /\ g \in DOMAIN d.index /\ \E x \in ToSet(d.index[g]) : x.index = e.index
    BY <1>2, <2>2 DEF Holders
  <2>4. PICK x \in ToSet(d.index[g]) : x.index = e.index
    BY <2>3
  <2>5. PICK i \in DOMAIN d.index[f] : d.index[f][i] = e
    BY <2>1 DEF ToSet
  <2>6. PICK j \in DOMAIN d.index[g] : d.index[g][j] = x
    BY <2>4 DEF ToSet
  <2>7. f = g
    <3>1. d.index[f][i].index = d.index[g][j].index /\ g \in DOMAIN d.index
      BY <2>3, <2>4, <2>5, <2>6
    <3>2. EntriesDistinct(d)
      BY DEF Good
    <3>3. QED
      BY <2>5, <2>6, <3>1, <3>2 DEF EntriesDistinct
  <2>8. QED
    BY <2>2, <2>3, <2>7
<1>4. KnowsLive(d, map)
  BY <1>3 DEF KnowsLive
<1>5. KnowsAllBut({}, d, map)
  BY <1>2 DEF KnowsAllBut, Holders
<1>6. QED
  BY <1>4, <1>5 DEF Settled

-----------------------------------------------------------------------------
(* The steps of PersistenceServer, for a queue q whose files are in order.  *)

\* What a restart would find of q loses a message that is consumed, and gains
\* the one that is being written, at most.
DiskKept(q) ==
  /\ Good(dirs'[q])
  /\ \A m \in Saved(dirs[q]) :
       \/ m \in Saved(dirs'[q])
       \/ Taken /\ Head(ring).cmd = "consume" /\ Head(ring).queue = q /\ Head(ring).index = m.index
  /\ \A m \in Saved(dirs'[q]) :
       m \in Saved(dirs[q]) \/ (persis.at = "data written" /\ persis.id = m.id)

OrderKept(q) == InOrder(q, dirs'[q], indexFile'[q], tail', persis')

Kept(q) == DiskKept(q) /\ (~(Taken /\ Repeat(Head(ring))) => OrderKept(q))

Here(q) == TInv /\ q \in DOMAIN dirs /\ InOrder(q, dirs[q], indexFile[q], tail, persis)

LEMMA HereGives ==
  ASSUME NEW q, Here(q)
  PROVE  /\ q \in Queues /\ DirOK(dirs[q], count.messages) /\ count.messages \in Nat
         /\ Good(dirs[q]) /\ ConsumeCounts(dirs[q])
<1>1. q \in Queues /\ DirOK(dirs[q], count.messages)
  BY DEF Here, TInv, DirsOK
<1>2. count.messages \in Nat
  BY DurableLogAssumption DEF Here, TInv, CountOK
<1>3. QED
  BY <1>1, <1>2 DEF Here, InOrder

\* The files of q stay as they are.
LEMMA SameFilesKept ==
  ASSUME NEW q, Good(dirs[q]), dirs'[q].data = dirs[q].data,
         dirs'[q].index = dirs[q].index, dirs'[q].consume = dirs[q].consume
  PROVE  DiskKept(q)
BY SameFiles DEF DiskKept

LEMMA Elsewhere ==
  ASSUME NEW q, Here(q), dirs'[q].data = dirs[q].data,
         dirs'[q].index = dirs[q].index, dirs'[q].consume = dirs[q].consume,
         indexFile'[q] = indexFile[q], q \in DOMAIN tail' => q \in DOMAIN tail /\ tail'[q] = tail[q],
         Quiet(q, persis), Quiet(q, persis') \/ persis' = Down
  PROVE  Kept(q)
<1>1. Settled(q, dirs[q], indexFile[q], tail)
  BY QuietIs DEF Here
<1>2. Settled(q, dirs'[q], indexFile[q], tail')
  BY <1>1, StaysSettled
<1>3. DiskKept(q)
  BY HereGives, SameFilesKept
<1>4. CASE Quiet(q, persis')
  <2>1. InOrder(q, dirs'[q], indexFile[q], tail', persis')
    BY <1>2, <1>4, QuietIs
  <2>2. QED
    BY <1>3, <2>1 DEF Kept, OrderKept
<1>5. CASE persis' = Down
  <2>1. InOrder(q, dirs'[q], indexFile[q], tail', Down)
    BY <1>2, PersisAt DEF InOrder, Settled, Right, Written
  <2>2. QED
    BY <1>3, <1>5, <2>1 DEF Kept, OrderKept
<1>6. QED
  BY <1>4, <1>5

LEMMA KillPersisKeeps ==
  ASSUME NEW q, Here(q), KillPersis
  PROVE  Kept(q)
<1>1. UNCHANGED dirs /\ UNCHANGED <<tail, indexFile>> /\ persis' = Down
  BY DEF KillPersis, memory
<1>2. DiskKept(q)
  BY <1>1, HereGives, SameFilesKept
<1>3. OrderKept(q)
  BY <1>1, KilledInOrder DEF OrderKept, Here
<1>4. QED
  BY <1>2, <1>3 DEF Kept

LEMMA StartPersisKeeps ==
  ASSUME NEW q, Here(q), StartPersis
  PROVE  Kept(q)
<1>1. UNCHANGED dirs /\ tail' = EmptyMap /\ persis' = Idle
  BY DEF StartPersis
<1>2. PICK d, map : d = dirs[q] /\ map = indexFile'[q]
  OBVIOUS
<1>3. /\ DirOK(d, count.messages) /\ Good(d) /\ ConsumeCounts(d) /\ q \in Queues
  BY <1>2, HereGives
<1>4. map = [n \in UNION {{e.index : e \in ToSet(d.index[f])} : f \in DOMAIN d.index} |->
               Min({f \in DOMAIN d.index : \E e \in ToSet(d.index[f]) : e.index = n})]
  BY <1>2, <1>3 DEF StartPersis, Here
<1>5. q \notin DOMAIN tail'
  BY <1>1 DEF EmptyMap
<1>6. Settled(q, d, map, tail')
  BY <1>3, <1>4, <1>5, KnownSettles
<1>7. Quiet(q, persis')
  BY <1>1 DEF Quiet, Idle, Down, Written
<1>8. OrderKept(q)
  BY <1>1, <1>2, <1>6, <1>7, QuietIs DEF OrderKept
<1>9. DiskKept(q)
  BY <1>1, <1>2, <1>3, SameFilesKept
<1>10. QED
  BY <1>8, <1>9 DEF Kept

LEMMA QuietPlaces ==
  ASSUME NEW q, NEW p
  PROVE  /\ p.at \in {"idle", "creating", "unlinking", "index written", "recorded", "walking"} => Quiet(q, p)
         /\ p # Down /\ p.queue # q => Quiet(q, p)
         /\ Quiet(q, Idle)
<1>1. ASSUME p.at \in {"idle", "creating", "unlinking", "index written", "recorded", "walking"} PROVE Quiet(q, p)
  BY <1>1, PersisAt DEF Quiet, Written
<1>2. ASSUME p # Down, p.queue # q PROVE Quiet(q, p)
  BY <1>2 DEF Quiet, Written
<1>3. Quiet(q, Idle)
  <2>1. Idle # Down /\ Idle.at = "idle"
    BY PersisAt
  <2>2. QED
    BY <2>1 DEF Quiet, Written
<1>4. QED
  BY <1>1, <1>2, <1>3

LEMMA OneEdited ==
  ASSUME DirsOK, NEW p \in DOMAIN dirs, NEW e, dirs' = [dirs EXCEPT ![p] = e]
  PROVE  dirs'[p] = e /\ \A q \in DOMAIN dirs : q # p => dirs'[q] = dirs[q]
BY DEF DirsOK

\* Making the directory of a queue changes no file of messages.
LEMMA OnCreateQueueKeeps ==
  ASSUME NEW q, Here(q), OnCreateQueue
  PROVE  Kept(q)
<1>1. PICK p, d, e : /\ p = Head(ring).queue /\ d = (IF p \in DOMAIN dirs THEN dirs[p] ELSE NewDir)
                     /\ e = [d EXCEPT !.info = FALSE]
  OBVIOUS
<1>2. /\ persis = Idle /\ UNCHANGED <<tail, indexFile>> /\ dirs' = Put(dirs, p, e)
      /\ persis' = [at |-> "creating", queue |-> p]
  BY <1>1 DEF OnCreateQueue, Take, memory
<1>3. e.data = d.data /\ e.index = d.index /\ e.consume = d.consume
  BY <1>1
<1>4. /\ dirs'[q].data = dirs[q].data /\ dirs'[q].index = dirs[q].index
      /\ dirs'[q].consume = dirs[q].consume
  BY <1>1, <1>2, <1>3 DEF Here, Put
<1>5. Quiet(q, persis) /\ Quiet(q, persis')
  BY <1>2, QuietPlaces
<1>6. QED
  BY <1>2, <1>4, <1>5, Elsewhere

LEMMA WriteInfoKeeps ==
  ASSUME NEW q, Here(q), WriteInfo
  PROVE  Kept(q)
<1>1. PICK p, e : p = persis.queue /\ e = [dirs[p] EXCEPT !.info = TRUE]
  OBVIOUS
<1>2. /\ persis.at = "creating" /\ persis' = Idle /\ UNCHANGED <<tail, indexFile>>
      /\ dirs' = [dirs EXCEPT ![p] = e]
  BY <1>1 DEF WriteInfo, memory
<1>3. p \in DOMAIN dirs /\ DirOK(dirs[p], count.messages)
  BY <1>1, <1>2, DirectingNow DEF Directing, Here
<1>4. e.data = dirs[p].data /\ e.index = dirs[p].index /\ e.consume = dirs[p].consume
  BY <1>1
<1>5. dirs'[p] = e /\ \A x \in DOMAIN dirs : x # p => dirs'[x] = dirs[x]
  BY <1>2, <1>3, OneEdited DEF Here, TInv
<1>6. /\ dirs'[q].data = dirs[q].data /\ dirs'[q].index = dirs[q].index
      /\ dirs'[q].consume = dirs[q].consume
  BY <1>4, <1>5 DEF Here
<1>7. Quiet(q, persis) /\ Quiet(q, persis')
  BY <1>2, QuietPlaces
<1>8. QED
  BY <1>2, <1>6, <1>7, Elsewhere

LEMMA OnDeleteQueueKeeps ==
  ASSUME NEW q, Here(q), OnDeleteQueue
  PROVE  Kept(q)
<1>0. PICK p : p = Head(ring).queue
  OBVIOUS
<1>1. /\ persis = Idle /\ UNCHANGED dirs /\ UNCHANGED indexFile
      /\ \/ persis' = [at |-> "unlinking", queue |-> p] /\ UNCHANGED tail
         \/ UNCHANGED persis /\ tail' = Drop(tail, {p})
  BY <1>0 DEF OnDeleteQueue, Take
<1>2. q \in DOMAIN tail' => q \in DOMAIN tail /\ tail'[q] = tail[q]
  BY <1>1 DEF Drop
<1>3. Quiet(q, persis) /\ Quiet(q, persis')
  BY <1>1, QuietPlaces
<1>4. QED
  BY <1>1, <1>2, <1>3, Elsewhere

\* The directory of another queue is being removed.
LEMMA UnlinkKeeps ==
  ASSUME NEW q, Here(q), ~Deleting(q), Unlink
  PROVE  Kept(q)
<1>1. PICK p, e : /\ p = persis.queue /\ p \in DOMAIN dirs /\ DirOK(e, count.messages)
                  /\ Directing /\ persis.at = "unlinking" /\ dirs' = [dirs EXCEPT ![p] = e]
                  /\ UNCHANGED <<queues, orphans>> /\ UNCHANGED ring
                  /\ UNCHANGED <<tail, indexFile>> /\ UNCHANGED persis /\ UNCHANGED count
  BY UnlinkEffect DEF Here
<1>2. p # q
  BY <1>1 DEF Deleting
<1>3. dirs'[q] = dirs[q]
  BY <1>1, <1>2, OneEdited DEF Here, TInv
<1>4. Quiet(q, persis) /\ Quiet(q, persis')
  BY <1>1, QuietPlaces
<1>5. QED
  BY <1>1, <1>3, <1>4, Elsewhere

LEMMA RemoveDirKeeps ==
  ASSUME NEW q, Here(q), ~Deleting(q), RemoveDir
  PROVE  q \in DOMAIN dirs' /\ Kept(q)
<1>1. PICK p : p = persis.queue
  OBVIOUS
<1>2. /\ persis.at = "unlinking" /\ dirs' = Drop(dirs, {p}) /\ tail' = Drop(tail, {p})
      /\ persis' = Idle /\ UNCHANGED indexFile
  BY <1>1 DEF RemoveDir
<1>3. p # q
  BY <1>1, <1>2 DEF Deleting
<1>4. q \in DOMAIN dirs' /\ dirs'[q] = dirs[q]
  BY <1>2, <1>3 DEF Here, Drop
<1>5. q \in DOMAIN tail' => q \in DOMAIN tail /\ tail'[q] = tail[q]
  BY <1>2, <1>3 DEF Drop
<1>6. Quiet(q, persis) /\ Quiet(q, persis')
  BY <1>2, QuietPlaces
<1>7. QED
  BY <1>2, <1>4, <1>5, <1>6, Elsewhere

LEMMA WriteOffsetKeeps ==
  ASSUME NEW q, Here(q), WriteOffset
  PROVE  Kept(q)
<1>1. PICK p, e :
            /\ p = persis.queue /\ e = WithOffset(dirs[p], persis.index)
            /\ p \in DOMAIN dirs /\ DirOK(dirs[p], count.messages) /\ DirOK(e, count.messages)
            /\ Writing /\ dirs' = [dirs EXCEPT ![p] = e]
            /\ persis.at = "index written" /\ persis' = Idle
            /\ UNCHANGED <<queues, orphans>> /\ UNCHANGED ring /\ UNCHANGED memory
            /\ UNCHANGED <<tail, indexFile>> /\ UNCHANGED count
  BY WriteOffsetEffect DEF Here
<1>2. e.data = dirs[p].data /\ e.index = dirs[p].index /\ e.consume = dirs[p].consume
  BY <1>1 DEF WithOffset
<1>3. dirs'[p] = e /\ \A x \in DOMAIN dirs : x # p => dirs'[x] = dirs[x]
  BY <1>1, OneEdited DEF Here, TInv
<1>4. /\ dirs'[q].data = dirs[q].data /\ dirs'[q].index = dirs[q].index
      /\ dirs'[q].consume = dirs[q].consume
  BY <1>2, <1>3 DEF Here
<1>5. Quiet(q, persis) /\ Quiet(q, persis')
  BY <1>1, QuietPlaces
<1>6. QED
  BY <1>1, <1>4, <1>5, Elsewhere

LEMMA StartClearUpKeeps ==
  ASSUME NEW q, Here(q), NEW p, StartClearUp(p)
  PROVE  Kept(q)
<1>1. /\ persis = Idle /\ UNCHANGED dirs /\ UNCHANGED <<tail, indexFile>>
      /\ persis' = Idle \/ persis'.at = "walking"
  BY WalkIsWalking DEF StartClearUp, memory
<1>2. Quiet(q, persis) /\ Quiet(q, persis')
  BY <1>1, QuietPlaces
<1>3. QED
  BY <1>1, <1>2, Elsewhere

\* A merge changes the files: it leaves no data of one of the groups.
LEMMA ClearUpStepKeeps ==
  ASSUME NEW q, Here(q), ClearUpStep, ~Merged
  PROVE  Kept(q)
<1>1. /\ persis.at = "walking" /\ UNCHANGED tail
      /\ persis' \in {Idle, Down} \/ persis'.at = "walking"
      /\ \/ UNCHANGED dirs /\ UNCHANGED indexFile
         \/ \E p, d, f, g :
              /\ p = persis.queue /\ d = dirs[p]
              /\ p \in DOMAIN dirs /\ p \in Queues /\ Mergeable(d, f, g)
              /\ DirOK(d, count.messages)
              /\ dirs' = [dirs EXCEPT ![p] = MergeFiles(d, f, g)]
              /\ indexFile' = [indexFile EXCEPT ![p] = MergeIndex(indexFile[p], d, f, g)]
  BY ClearUpEffect DEF Here
<1>2. UNCHANGED dirs
  BY <1>1 DEF Merged
<1>3. UNCHANGED indexFile
  <2> SUFFICES ASSUME NEW p, NEW d, NEW f, NEW g,
                      d = dirs[p], p \in DOMAIN dirs, Mergeable(d, f, g),
                      DirOK(d, count.messages), dirs' = [dirs EXCEPT ![p] = MergeFiles(d, f, g)]
               PROVE  FALSE
    BY <1>1
  <2>1. g \in DOMAIN d.data /\ g \notin DOMAIN MergeFiles(d, f, g).data
    BY MergedType
  <2>2. dirs'[p] = MergeFiles(d, f, g)
    BY OneEdited DEF Here, TInv
  <2>3. QED
    BY <1>2, <2>1, <2>2
<1>4. Quiet(q, persis) /\ (Quiet(q, persis') \/ persis' = Down)
  BY <1>1, QuietPlaces
<1>5. QED
  BY <1>1, <1>2, <1>3, <1>4, Elsewhere

LEMMA CountConsumedKeeps ==
  ASSUME NEW q, Here(q), CountConsumed
  PROVE  Kept(q)
<1>1. /\ persis.at = "recorded" /\ UNCHANGED dirs /\ UNCHANGED <<tail, indexFile>>
      /\ \/ persis' = Idle
         \/ persis' = [at |-> "removing", queue |-> persis.queue, file |-> persis.file,
                       left |-> RemovalOrder]
  BY DEF CountConsumed, memory
<1>2. Quiet(q, persis)
  BY <1>1, QuietPlaces
<1>3. CASE persis' = Idle
  BY <1>1, <1>2, <1>3, QuietPlaces, Elsewhere
<1>4. ASSUME NEW p, NEW f,
             persis' = [at |-> "removing", queue |-> p, file |-> f, left |-> RemovalOrder]
      PROVE  Kept(q)
  <2>1. CASE p # q
    <3>1. persis'.queue = p /\ persis'.at = "removing"
      BY <1>4
    <3>2. Quiet(q, persis')
      BY <2>1, <3>1, PersisAt, QuietPlaces
    <3>3. QED
      BY <1>1, <1>2, <3>2, Elsewhere
  <2>2. CASE p = q
    <3>1. Settled(q, dirs[q], indexFile[q], tail)
      BY <1>2, QuietIs DEF Here
    <3>2. Leaving(q, dirs[q], indexFile[q], tail, f)
      BY <3>1 DEF Settled, Leaving
    <3>3. InOrder(q, dirs'[q], indexFile'[q], tail', persis')
      BY <1>1, <1>4, <2>2, <3>2, RemovingIs
    <3>4. DiskKept(q)
      BY <1>1, HereGives, SameFilesKept
    <3>5. QED
      BY <3>3, <3>4 DEF Kept, OrderKept
  <2>3. QED
    BY <2>1, <2>2
<1>5. QED
  BY <1>1, <1>3, <1>4

\* A step of another queue's message or group.
LEMMA OtherEdited ==
  ASSUME NEW q, Here(q), NEW p \in DOMAIN dirs, p # q, NEW e, dirs' = [dirs EXCEPT ![p] = e],
         indexFile'[q] = indexFile[q], q \in DOMAIN tail' => q \in DOMAIN tail /\ tail'[q] = tail[q],
         persis = Idle \/ (persis # Down /\ persis.queue = p),
         persis' = Idle \/ (persis' # Down /\ persis'.queue = p)
  PROVE  Kept(q)
<1>1. dirs'[q] = dirs[q]
  BY OneEdited DEF Here, TInv
<1>2. Quiet(q, persis)
  BY QuietPlaces
<1>3. Quiet(q, persis')
  BY QuietPlaces
<1>4. QED
  BY <1>1, <1>2, <1>3, Elsewhere

LEMMA WriteDataKeeps ==
  ASSUME NEW q, Here(q), WriteData
  PROVE  Kept(q)
<1>1. PICK p, f, d, m, e :
            /\ p = persis.queue /\ f = persis.file /\ d = dirs[p]
            /\ m = [id |-> persis.id, index |-> persis.index]
            /\ e = WithData(d, [d.data EXCEPT ![f] = Append(d.data[f], m)])
            /\ p \in DOMAIN dirs /\ f \in DOMAIN d.data /\ f \in DOMAIN d.index /\ m \in Message
            /\ DirOK(d, count.messages) /\ DirOK(e, count.messages)
            /\ Writing /\ persis.at = "opened" /\ dirs' = [dirs EXCEPT ![p] = e]
            /\ persis' = [at |-> "data written", queue |-> p, index |-> persis.index,
                          id |-> persis.id, file |-> f, pos |-> persis.pos]
            /\ UNCHANGED <<queues, orphans>> /\ UNCHANGED ring /\ UNCHANGED memory
            /\ UNCHANGED <<tail, indexFile>> /\ UNCHANGED count
  BY WriteDataEffect DEF Here
<1>2. persis # Down /\ persis.queue = p /\ persis' # Down /\ persis'.queue = p
  <2>1. persis.at = "opened" /\ persis'.at = "data written" /\ persis'.queue = p
    BY <1>1
  <2>2. QED
    BY <1>1, <2>1, PersisAt
<1>3. CASE p # q
  BY <1>1, <1>2, <1>3, OtherEdited
<1>4. CASE p = q
  <2>1. PICK n, i, k : n = persis.index /\ i = persis.id /\ k = persis.pos
    OBVIOUS
  <2>2. persis = WriteAt("opened", q, n, i, f, k) /\ persis' = WriteAt("data written", q, n, i, f, k)
    <3>1. persis = [at |-> persis.at, queue |-> persis.queue, index |-> persis.index,
                    id |-> persis.id, file |-> persis.file, pos |-> persis.pos]
      BY <1>1, WritingNow DEF Here
    <3>2. QED
      BY <1>1, <1>4, <2>1, <3>1 DEF WriteAt
  <2>3. PICK map, tl : map = indexFile[q] /\ tl = tail
    OBVIOUS
  <2>4. InOrder(q, d, map, tl, WriteAt("opened", q, n, i, f, k))
    BY <1>1, <1>4, <2>2, <2>3 DEF Here
  <2>5. Started(q, d, map, tl, n, f) /\ k = Len(d.data[f])
    BY <2>4, OpenedIs
  <2>6. e = WithMessage(d, f, m) /\ m = MessageOf(i, n)
    BY <1>1, <2>1 DEF WithMessage, MessageOf
  <2>7. /\ Started(q, e, map, tl, n, f)
        /\ Len(e.data[f]) = Len(d.data[f]) + 1 /\ Last(e.data[f]) = m
    <3>1. DirOK(d, count.messages) /\ f \in DOMAIN d.data /\ m \in Message
      BY <1>1
    <3>2. Started(q, d, map, tl, n, f) /\ e = WithMessage(d, f, m)
      BY <2>5, <2>6
    <3>3. QED
      BY <3>1, <3>2, WroteData, SMTT(30)
  <2>8. InOrder(q, e, map, tl, WriteAt("data written", q, n, i, f, k))
    <3>1. LastAt(e, f, k, MessageOf(i, n))
      BY <2>5, <2>6, <2>7 DEF LastAt
    <3>2. QED
      BY <2>7, <3>1, DataWrittenIs
  <2>9. dirs'[q] = e /\ dirs[q] = d
    BY <1>1, <1>4, OneEdited DEF Here, TInv
  <2>10. OrderKept(q)
    BY <1>1, <2>2, <2>3, <2>8, <2>9 DEF OrderKept
  <2>11. DiskKept(q)
    <3>1. Good(d)
      BY <2>5 DEF Started
    <3>2. Good(e) /\ Saved(e) = Saved(d)
      <4>1. DirOK(d, count.messages) /\ f \in DOMAIN d.data /\ m \in Message
        BY <1>1
      <4>2. QED
        BY <2>6, <3>1, <4>1, DataAdded
    <3>3. QED
      BY <2>9, <3>2 DEF DiskKept
  <2>12. QED
    BY <2>10, <2>11 DEF Kept
<1>5. QED
  BY <1>3, <1>4

LEMMA WriteIndexKeeps ==
  ASSUME NEW q, Here(q), WriteIndex
  PROVE  Kept(q)
<1>1. PICK p, f, d, x, e :
            /\ p = persis.queue /\ f = persis.file /\ d = dirs[p]
            /\ x = [index |-> persis.index, pos |-> persis.pos]
            /\ e = WithIndex(d, [d.index EXCEPT ![f] = Append(d.index[f], x)])
            /\ p \in DOMAIN dirs /\ f \in DOMAIN d.data /\ f \in DOMAIN d.index /\ x \in Entry
            /\ DirOK(d, count.messages) /\ DirOK(e, count.messages)
            /\ Writing /\ persis.at = "data written" /\ dirs' = [dirs EXCEPT ![p] = e]
            /\ persis' = [at |-> "index written", queue |-> p, index |-> persis.index,
                          id |-> persis.id, file |-> f, pos |-> persis.pos]
            /\ UNCHANGED <<queues, orphans>> /\ UNCHANGED ring /\ UNCHANGED memory
            /\ UNCHANGED <<tail, indexFile>> /\ UNCHANGED count
  BY WriteIndexEffect DEF Here
<1>2. persis.at = "data written" /\ persis'.at = "index written" /\ persis'.queue = p
  BY <1>1
<1>3. persis # Down /\ persis.queue = p /\ persis' # Down
  BY <1>1, <1>2, PersisAt
<1>4. CASE p # q
  BY <1>1, <1>2, <1>3, <1>4, OtherEdited
<1>5. CASE p = q
  <2>1. PICK n, i, k : n = persis.index /\ i = persis.id /\ k = persis.pos
    OBVIOUS
  <2>2. persis = WriteAt("data written", q, n, i, f, k) /\ k \in Nat
    <3>1. /\ persis = [at |-> persis.at, queue |-> persis.queue, index |-> persis.index,
                       id |-> persis.id, file |-> persis.file, pos |-> persis.pos]
          /\ persis.pos \in Nat
      BY <1>1, WritingNow DEF Here
    <3>2. QED
      BY <1>1, <1>5, <2>1, <3>1 DEF WriteAt
  <2>3. PICK map, tl, m : map = indexFile[q] /\ tl = tail /\ m = MessageOf(i, n)
    OBVIOUS
  <2>4. InOrder(q, d, map, tl, WriteAt("data written", q, n, i, f, k))
    BY <1>1, <1>5, <2>2, <2>3 DEF Here
  <2>5. Started(q, d, map, tl, n, f) /\ LastAt(d, f, k, m)
    <3>1. Started(q, d, map, tl, n, f) /\ LastAt(d, f, k, MessageOf(i, n))
      BY <2>4, DataWrittenIs
    <3>2. QED
      BY <2>3, <3>1
  <2>6. k < Len(d.data[f]) /\ d.data[f][k + 1] = m
    <3>1. PICK s : s = d.data[f]
      OBVIOUS
    <3>2. k + 1 = Len(s) /\ Last(s) = m /\ k \in Nat
      BY <2>2, <2>5, <3>1 DEF LastAt
    <3>3. k < Len(s) /\ s[k + 1] = m
      BY <3>2 DEF Last
    <3>4. QED
      BY <3>1, <3>3
  <2>7. x.index = n /\ x.pos = k /\ m.index = n /\ m.id = i
    BY <1>1, <2>1, <2>3 DEF MessageOf
  <2>8. Appended(d, f, x, e)
    BY <1>1, EntryAppended
  <2>9. /\ Settled(q, e, map, tl)
        /\ Saved(d) \subseteq Saved(e) /\ \A y \in Saved(e) : y \in Saved(d) \/ y = m
    <3>1. DirOK(d, count.messages) /\ f \in DOMAIN d.data /\ f \in DOMAIN d.index
      BY <1>1
    <3>2. Leads(d, f, x, m)
      BY <2>6, <2>7 DEF Leads
    <3>3. QED
      BY <2>5, <2>7, <2>8, <3>1, <3>2, WroteIndex
  <2>10. dirs'[q] = e /\ dirs[q] = d
    BY <1>1, <1>5, OneEdited DEF Here, TInv
  <2>11. OrderKept(q)
    <3>1. Quiet(q, persis')
      BY <1>2, QuietPlaces
    <3>2. InOrder(q, e, map, tl, persis')
      BY <2>9, <3>1, QuietIs
    <3>3. QED
      BY <1>1, <2>3, <2>10, <3>2 DEF OrderKept
  <2>12. DiskKept(q)
    <3>1. Good(e)
      BY <2>9 DEF Settled
    <3>2. \A y \in Saved(e) : y \in Saved(d) \/ persis.id = y.id
      BY <2>1, <2>7, <2>9
    <3>3. QED
      BY <1>2, <2>9, <2>10, <3>1, <3>2 DEF DiskKept
  <2>13. QED
    BY <2>11, <2>12 DEF Kept
<1>6. QED
  BY <1>4, <1>5

LEMMA OnConsumeKeeps ==
  ASSUME NEW q, Here(q), More, OnConsumeMessage
  PROVE  Kept(q)
<1>1. PICK c, p, d, f, F :
            /\ c = Head(ring) /\ p = c.queue /\ d = dirs[p] /\ f = indexFile[p][c.index]
            /\ F = Put(d.consume, f, Append(Create(d.consume, f)[f], c.index))
            /\ Take("consume") /\ UNCHANGED count /\ persis = Idle
            /\ UNCHANGED <<queues, orphans>> /\ RingOK' /\ p \in Queues /\ UNCHANGED memory
            /\ UNCHANGED <<tail, indexFile>> /\ c.index \in Indexes /\ c.cmd = "consume"
            /\ (UNCHANGED dirs /\ UNCHANGED persis) \/ RecordedIn(c, p, d, f, F)
  BY OnConsumeEffect DEF Here
<1>2. Quiet(q, persis)
  BY <1>1, QuietPlaces
<1>3. CASE UNCHANGED dirs /\ UNCHANGED persis
  BY <1>1, <1>2, <1>3, Elsewhere
<1>4. ASSUME p \in DOMAIN dirs, c.index \in DOMAIN indexFile[p], f \in Indexes,
             DirOK(d, count.messages), dirs' = [dirs EXCEPT ![p] = WithConsume(d, F)],
             persis' = [at |-> "recorded", queue |-> p, file |-> f]
      PROVE  Kept(q)
  <2>1. persis'.at = "recorded" /\ persis'.queue = p /\ persis' # Down
    <3>1. persis'.at = "recorded" /\ persis'.queue = p
      BY <1>4
    <3>2. QED
      BY <3>1, PersisAt
  <2>2. CASE p # q
    BY <1>1, <1>4, <2>1, <2>2, OtherEdited
  <2>3. CASE p = q
    <3>1. PICK map, tl, n, e : map = indexFile[q] /\ tl = tail /\ n = c.index /\ e = WithConsume(d, F)
      OBVIOUS
    <3>2. Settled(q, d, map, tl)
      BY <1>1, <1>2, <2>3, <3>1, QuietIs DEF Here
    <3>3. dirs'[q] = e /\ dirs[q] = d
      BY <1>1, <1>4, <2>3, <3>1, OneEdited DEF Here, TInv
    <3>4. Recorded(d, f, n, e)
      <4>1. e = WithConsume(d, Put(d.consume, f, Append(Create(d.consume, f)[f], n)))
        BY <1>1, <3>1
      <4>2. n \in Indexes /\ f \in Indexes
        BY <1>1, <1>4, <3>1
      <4>3. QED
        BY <1>4, <4>1, <4>2, ConsumptionRecorded
    <3>5. Taken /\ Head(ring).cmd = "consume" /\ Head(ring).queue = q /\ Head(ring).index = n
      BY <1>1, <2>3, <3>1 DEF Take, Taken
    <3>6. DiskKept(q)
      <4>1. Good(d)
        BY <3>2 DEF Settled
      <4>2. /\ Good(e) /\ Saved(e) \subseteq Saved(d)
            /\ \A m \in Saved(d) : m \in Saved(e) \/ m.index = n
        BY <3>4, <4>1, Consumption
      <4>3. QED
        BY <3>3, <3>5, <4>2 DEF DiskKept
    <3>7. ASSUME ~Repeat(Head(ring)) PROVE OrderKept(q)
      <4>1. n \notin UNION {ConsumedIn(d, g) : g \in DOMAIN d.consume}
        BY <1>1, <1>4, <2>3, <3>1, <3>7 DEF Repeat
      <4>2. n \notin ConsumedIn(d, f)
        BY <4>1 DEF ConsumedIn
      <4>3. n \in DOMAIN map /\ f = map[n]
        BY <1>1, <1>4, <2>3, <3>1
      <4>4. Settled(q, e, map, tl)
        BY <3>2, <3>4, <4>2, <4>3, RecordedSettles
      <4>5. Quiet(q, persis')
        BY <2>1, QuietPlaces
      <4>6. InOrder(q, e, map, tl, persis')
        BY <4>4, <4>5, QuietIs
      <4>7. QED
        BY <1>1, <3>1, <3>3, <4>6 DEF OrderKept
    <3>8. QED
      BY <3>5, <3>6, <3>7 DEF Kept
  <2>4. QED
    BY <2>2, <2>3
<1>5. QED
  BY <1>1, <1>3, <1>4 DEF RecordedIn

LEMMA PublishEffect ==
  ASSUME TInv, More, OnPublishMessage
  PROVE  /\ persis = Idle /\ Taken
         /\ \/ UNCHANGED dirs /\ UNCHANGED <<tail, indexFile>> /\ UNCHANGED persis
            \/ \E p, n, i, f, k, d, map :
                 /\ p \in DOMAIN dirs /\ p \in Queues /\ d = dirs[p] /\ map = indexFile[p]
                 /\ Head(ring).cmd = "publish" /\ Head(ring).queue = p /\ Head(ring).index = n
                 /\ f \in Indexes /\ f = (IF NeedsGroup(p) THEN n ELSE tail[p])
                 /\ k \in WritePositions(p) /\ persis' = WriteAt("opened", p, n, i, f, k)
                 /\ dirs' = [dirs EXCEPT ![p] = Opened(d, f)]
                 /\ tail' = Put(tail, p, f)
                 /\ indexFile' = [indexFile EXCEPT ![p] = IF n \in DOMAIN map THEN map
                                                          ELSE Put(map, n, f)]
<1> DEFINE c == Head(ring)
           q == c.queue
           g == IF NeedsGroup(q) THEN c.index ELSE tail[q]
<1>1. /\ Take("publish") /\ UNCHANGED count /\ persis = Idle
      /\ UNCHANGED <<queues, orphans>> /\ RingOK' /\ q \in Queues
      /\ c.index \in 0 .. count.messages - 1 /\ c.id \in Indexes /\ g \in Indexes
      /\ \/ q \notin DOMAIN dirs /\ UNCHANGED dirs /\ UNCHANGED <<tail, indexFile>>
                 /\ UNCHANGED fileList /\ UNCHANGED persis
         \/ /\ q \in DOMAIN dirs
            /\ dirs' = [dirs EXCEPT ![q] = Opened(dirs[q], g)]
            /\ tail' = Put(tail, q, g)
            /\ indexFile' = [indexFile EXCEPT ![q] =
                               IF c.index \in DOMAIN indexFile[q] THEN indexFile[q]
                               ELSE Put(indexFile[q], c.index, g)]
            /\ \E pos \in WritePositions(q) :
                 persis' = [at |-> "opened", queue |-> q, index |-> c.index, id |-> c.id,
                            file |-> g, pos |-> pos]
  BY OpenEffect
<1>2. Taken /\ Head(ring).cmd = "publish"
  BY <1>1 DEF Take, Taken
<1>3. CASE q \notin DOMAIN dirs
  BY <1>1, <1>2, <1>3
<1>4. CASE q \in DOMAIN dirs
  <2>1. PICK p, n, i, f, d, map : /\ p = q /\ n = c.index /\ i = c.id /\ f = g
                                  /\ d = dirs[p] /\ map = indexFile[p]
    OBVIOUS
  <2>2. PICK k \in WritePositions(q) :
          persis' = [at |-> "opened", queue |-> q, index |-> c.index, id |-> c.id,
                     file |-> g, pos |-> k]
    BY <1>1, <1>4
  <2>3. k \in WritePositions(p) /\ persis' = WriteAt("opened", p, n, i, f, k)
    BY <2>1, <2>2 DEF WriteAt
  <2>4. /\ dirs' = [dirs EXCEPT ![p] = Opened(d, f)] /\ tail' = Put(tail, p, f)
        /\ indexFile' = [indexFile EXCEPT ![p] = IF n \in DOMAIN map THEN map
                                                 ELSE Put(map, n, f)]
    BY <1>1, <1>4, <2>1
  <2>5. /\ p \in DOMAIN dirs /\ p \in Queues /\ f \in Indexes
        /\ f = (IF NeedsGroup(p) THEN n ELSE tail[p])
    BY <1>1, <1>4, <2>1
  <2> HIDE DEF q, g
  <2>6. Head(ring).cmd = "publish" /\ Head(ring).queue = p /\ Head(ring).index = n
    BY <1>2, <2>1 DEF q
  <2>7. QED
    BY <1>1, <1>2, <2>1, <2>3, <2>4, <2>5, <2>6
<1>5. QED
  BY <1>3, <1>4

Group(q, n) == IF NeedsGroup(q) THEN n ELSE tail[q]

\* The group has its files or is new, and the message goes to their end.
LEMMA PositionRight ==
  ASSUME NEW q, NEW d, d = dirs[q], NEW c \in Nat, DirOK(d, c), Good(d),
         q \in DOMAIN tail => tail[q] \in DOMAIN d.data \cap DOMAIN d.index,
         NEW n, n \notin DOMAIN d.data, NEW f \in Indexes,
         f = Group(q, n), NEW k \in WritePositions(q)
  PROVE  (f \in DOMAIN d.data \/ f = n) /\ k = Len(Opened(d, f).data[f])
<1>1. PICK e : e = Opened(d, f)
  OBVIOUS
<1>2. /\ \A g \in DOMAIN d.data : e.data[g] = d.data[g]
      /\ f \notin DOMAIN d.data => e.data[f] = <<>>
  BY <1>1, OpenedFiles
<1>3. CASE NeedsGroup(q)
  <2>1. f = n
    BY <1>3 DEF Group
  <2>2. WritePositions(q) = {0}
    BY <1>3 DEF NeedsGroup, WritePositions
  <2>3. e.data[f] = <<>>
    BY <1>2, <2>1
  <2>4. QED
    BY <1>1, <2>1, <2>2, <2>3
<1>4. CASE ~NeedsGroup(q)
  <2>1. f = tail[q] /\ q \in DOMAIN tail /\ f \in DOMAIN d.data
    BY <1>4 DEF NeedsGroup, Group
  <2>2. WritePositions(q) = {Len(d.data[f])}
    BY <1>4, <2>1 DEF NeedsGroup, WritePositions
  <2>3. QED
    BY <1>1, <1>2, <2>1, <2>2
<1>5. QED
  BY <1>3, <1>4

LEMMA PublishedAnew ==
  ASSUME NEW c, c.cmd = "publish", NEW q, c.queue = q, NEW n, c.index = n, q \in DOMAIN dirs,
         ~Repeat(c), NEW d, d = dirs[q], NEW map, map = indexFile[q]
  PROVE  New(n, d, map)
<1>1. n \notin DOMAIN d.data /\ n \notin DOMAIN d.consume /\ n \notin DOMAIN map
  BY DEF Repeat
<1>2. ASSUME NEW f \in DOMAIN d.index, NEW e \in ToSet(d.index[f]) PROVE e.index # n
  <2>1. e.index \in {x.index : x \in UNION {ToSet(d.index[g]) : g \in DOMAIN d.index}}
    OBVIOUS
  <2>2. QED
    BY <2>1 DEF Repeat
<1>3. ASSUME NEW k \in DOMAIN map PROVE map[k] # n
  BY DEF Repeat
<1>4. QED
  BY <1>1, <1>2, <1>3 DEF New

LEMMA OnPublishKeeps ==
  ASSUME NEW q, Here(q), More, OnPublishMessage
  PROVE  Kept(q)
<1>1. /\ persis = Idle /\ Taken
      /\ \/ UNCHANGED dirs /\ UNCHANGED <<tail, indexFile>> /\ UNCHANGED persis
         \/ \E p, n, i, f, k, d, map :
              /\ p \in DOMAIN dirs /\ p \in Queues /\ d = dirs[p] /\ map = indexFile[p]
              /\ Head(ring).cmd = "publish" /\ Head(ring).queue = p /\ Head(ring).index = n
              /\ f \in Indexes /\ f = (IF NeedsGroup(p) THEN n ELSE tail[p])
              /\ k \in WritePositions(p) /\ persis' = WriteAt("opened", p, n, i, f, k)
              /\ dirs' = [dirs EXCEPT ![p] = Opened(d, f)]
              /\ tail' = Put(tail, p, f)
              /\ indexFile' = [indexFile EXCEPT ![p] = IF n \in DOMAIN map THEN map
                                                       ELSE Put(map, n, f)]
  BY PublishEffect DEF Here
<1>2. Quiet(q, persis)
  BY <1>1, QuietPlaces
<1>3. CASE UNCHANGED dirs /\ UNCHANGED <<tail, indexFile>> /\ UNCHANGED persis
  BY <1>2, <1>3, Elsewhere
<1>4. ASSUME NEW p, NEW n, NEW i, NEW f, NEW k, NEW d, NEW map,
             p \in DOMAIN dirs, p \in Queues, d = dirs[p], map = indexFile[p],
             Head(ring).cmd = "publish", Head(ring).queue = p, Head(ring).index = n,
             f \in Indexes, f = (IF NeedsGroup(p) THEN n ELSE tail[p]),
             k \in WritePositions(p), persis' = WriteAt("opened", p, n, i, f, k),
             dirs' = [dirs EXCEPT ![p] = Opened(d, f)], tail' = Put(tail, p, f),
             indexFile' = [indexFile EXCEPT ![p] = IF n \in DOMAIN map THEN map
                                                   ELSE Put(map, n, f)]
      PROVE  Kept(q)
  <2>1. persis'.at = "opened" /\ persis'.queue = p
    BY <1>4 DEF WriteAt
  <2>2. CASE p # q
    <3>1. persis' # Down
      BY <2>1, PersisAt
    <3>2. indexFile'[q] = indexFile[q]
      BY <1>4, <2>2, HereGives DEF Here, TInv, MemoryOK
    <3>3. q \in DOMAIN tail' => q \in DOMAIN tail /\ tail'[q] = tail[q]
      BY <1>4, <2>2 DEF Put
    <3>4. QED
      BY <1>1, <1>4, <2>1, <2>2, <3>1, <3>2, <3>3, OtherEdited
  <2>3. CASE p = q
    <3>1. PICK e : e = Opened(d, f)
      OBVIOUS
    <3>2. Settled(q, d, map, tail)
      BY <1>2, <1>4, <2>3, QuietIs DEF Here
    <3>3. dirs'[q] = e /\ dirs[q] = d
      BY <1>4, <2>3, <3>1, OneEdited DEF Here, TInv
    <3>4. DirOK(d, count.messages) /\ count.messages \in Nat /\ Good(d) /\ f \in Indexes
      BY <1>4, <3>3, HereGives
    <3>5. DiskKept(q)
      <4>1. Good(e) /\ Saved(e) = Saved(d)
        BY <3>1, <3>4, OpenedFiles
      <4>2. QED
        BY <3>3, <4>1 DEF DiskKept
    <3>6. ASSUME ~Repeat(Head(ring)) PROVE OrderKept(q)
      <4>1. New(n, d, map)
        <5>1. PICK c : c = Head(ring)
          OBVIOUS
        <5>2. c.cmd = "publish" /\ c.queue = p /\ c.index = n
          BY <1>4, <5>1
        <5>3. ~Repeat(c)
          BY <3>6, <5>1
        <5>4. QED
          BY <1>4, <5>2, <5>3, PublishedAnew
      <4>2. q \in DOMAIN tail => tail[q] \in DOMAIN d.data \cap DOMAIN d.index
        BY <3>2 DEF Settled
      <4>3. n \notin DOMAIN d.data
        BY <4>1 DEF New
      <4>4. (f \in DOMAIN d.index \/ f = n) /\ k = Len(e.data[f])
        <5>1. f = Group(q, n) /\ k \in WritePositions(q)
          BY <1>4, <2>3 DEF Group
        <5>2. k = Len(e.data[f])
          BY <3>1, <3>3, <3>4, <4>2, <4>3, <5>1, PositionRight
        <5>3. f = n \/ f \in DOMAIN d.index
          BY <4>2, <5>1 DEF Group, NeedsGroup
        <5>4. QED
          BY <5>2, <5>3
      <4>5. indexFile'[q] = Put(map, n, f)
        <5>1. n \notin DOMAIN map
          BY <4>1 DEF New
        <5>2. QED
          BY <1>4, <2>3, <5>1 DEF Here, TInv, MemoryOK
      <4>6. q \in DOMAIN tail' /\ tail'[q] = f
        BY <1>4, <2>3 DEF Put
      <4>7. Started(q, e, indexFile'[q], tail', n, f)
        BY <3>1, <3>2, <3>4, <4>1, <4>4, <4>5, <4>6, OpenedStarts
      <4>8. InOrder(q, e, indexFile'[q], tail', WriteAt("opened", q, n, i, f, k))
        BY <4>4, <4>7, OpenedIs
      <4>9. QED
        BY <1>4, <2>3, <3>3, <4>8 DEF OrderKept
    <3>7. QED
      BY <1>1, <3>5, <3>6 DEF Kept
  <2>4. QED
    BY <2>2, <2>3
<1>5. QED
  BY <1>1, <1>3, <1>4

\* The three removals, of the directory d.
LEMMA Removes ==
  ASSUME NEW q, NEW d, NEW c, DirOK(d, c), NEW map, NEW tl, NEW f, Leaving(q, d, map, tl, f),
         NEW e, \/ e = LessData(d, f) /\ f \in DOMAIN d.consume /\ AllConsumed(d, f)
                \/ e = LessIndex(d, f) /\ f \notin DOMAIN d.data
                \/ e = LessConsume(d, f) /\ f \notin DOMAIN d.index
  PROVE  Leaving(q, e, map, tl, f) /\ Good(e) /\ Saved(e) = Saved(d)
<1>1. Good(d) /\ ConsumeCounts(d)
  BY DEF Leaving
<1>2. ASSUME f \in DOMAIN d.consume, AllConsumed(d, f), e = LessData(d, f)
      PROVE  Leaving(q, e, map, tl, f) /\ Good(e) /\ Saved(e) = Saved(d)
  <2>1. Live(d, f) = {}
    BY <1>1, <1>2, NoneLeft
  <2>2. /\ Good(e) /\ Saved(e) = Saved(d) /\ ConsumeCounts(e)
        /\ e.index = d.index /\ DOMAIN e.data = DOMAIN d.data \ {f}
        /\ \A g \in DOMAIN e.index : Live(e, g) = Live(d, g)
    BY <1>1, <1>2, <2>1, DataGone
  <2>3. Leaving(q, e, map, tl, f)
    BY <2>2, StillLeaving
  <2>4. QED
    BY <2>2, <2>3
<1>3. ASSUME f \notin DOMAIN d.data, e = LessIndex(d, f)
      PROVE  Leaving(q, e, map, tl, f) /\ Good(e) /\ Saved(e) = Saved(d)
  <2>1. f \in DOMAIN d.index => Live(d, f) = {}
    BY <1>1, <1>3 DEF Good, Points
  <2>2. /\ Good(e) /\ Saved(e) = Saved(d) /\ ConsumeCounts(e)
        /\ DOMAIN e.index = DOMAIN d.index \ {f} /\ e.data = d.data
        /\ \A g \in DOMAIN e.index : e.index[g] = d.index[g] /\ Live(e, g) = Live(d, g)
    BY <1>1, <1>3, <2>1, IndexGone
  <2>3. Leaving(q, e, map, tl, f)
    BY <2>2, StillLeaving
  <2>4. QED
    BY <2>2, <2>3
<1>4. ASSUME f \notin DOMAIN d.index, e = LessConsume(d, f)
      PROVE  Leaving(q, e, map, tl, f) /\ Good(e) /\ Saved(e) = Saved(d)
  <2>1. /\ Good(e) /\ Saved(e) = Saved(d) /\ ConsumeCounts(e)
        /\ e.index = d.index /\ e.data = d.data
        /\ \A g \in DOMAIN e.index : Live(e, g) = Live(d, g)
    BY <1>1, <1>4, ConsumeGone
  <2>2. Leaving(q, e, map, tl, f)
    BY <2>1, StillLeaving
  <2>3. QED
    BY <2>1, <2>2
<1>5. QED
  BY <1>2, <1>3, <1>4

\* With the last file the group is gone, and its tail with it.
LEMMA LeftSettled ==
  ASSUME NEW q, NEW d, NEW map, NEW tl, NEW f, Leaving(q, d, map, tl, f),
         NEW t, t = IF q \in DOMAIN tl /\ tl[q] = f THEN Drop(tl, {q}) ELSE tl
  PROVE  Settled(q, d, map, t)
<1>1. q \in DOMAIN t => q \in DOMAIN tl /\ tl[q] # f /\ t[q] = tl[q]
  BY DEF Drop
<1>2. QED
  BY <1>1 DEF Leaving, Settled

LEMMA RemoveNextKeeps ==
  ASSUME NEW q, Here(q), RemoveNext
  PROVE  Kept(q)
<1>1. PICK p, f, d, e :
            /\ p = persis.queue /\ f = persis.file /\ d = dirs[p]
            /\ p \in DOMAIN dirs /\ p \in Queues /\ f \in Indexes /\ Removing
            /\ DirOK(d, count.messages) /\ DirOK(e, count.messages)
            /\ dirs' = [dirs EXCEPT ![p] = e]
            /\ UNCHANGED <<queues, orphans>> /\ UNCHANGED ring
            /\ UNCHANGED indexFile /\ UNCHANGED count
            /\ Removal(p, f, d, e)
  BY RemoveEffect DEF Here
<1>2. /\ persis.at = "removing"
      /\ persis = [at |-> "removing", queue |-> p, file |-> f, left |-> persis.left]
  <2>1. persis.at = "removing"
    BY <1>1, PersisAt
  <2>2. persis = [at |-> "removing", queue |-> persis.queue, file |-> persis.file,
                  left |-> persis.left]
    BY <2>1, RemovingNow DEF Here
  <2>3. QED
    BY <1>1, <2>1, <2>2
<1>3. CASE p # q
  <2>1. \/ persis' = Idle
        \/ \E left : persis' = [at |-> "removing", queue |-> p, file |-> f, left |-> left]
    BY <1>1 DEF Removal
  <2>2. ASSUME NEW left, persis' = [at |-> "removing", queue |-> p, file |-> f, left |-> left]
        PROVE  persis' # Down /\ persis'.queue = p
    <3>1. persis'.at = "removing" /\ persis'.queue = p
      BY <2>2
    <3>2. QED
      BY <3>1, PersisAt
  <2>3. persis # Down /\ persis.queue = p
    BY <1>1, <1>2, PersisAt
  <2>4. q \in DOMAIN tail' => q \in DOMAIN tail /\ tail'[q] = tail[q]
    BY <1>1, <1>3 DEF Removal, Drop
  <2>5. QED
    BY <1>1, <1>3, <2>1, <2>2, <2>3, <2>4, OtherEdited
<1>4. CASE p = q
  <2>1. PICK map, tl : map = indexFile[q] /\ tl = tail
    OBVIOUS
  <2>2. dirs'[q] = e /\ dirs[q] = d
    BY <1>1, <1>4, OneEdited DEF Here, TInv
  <2>3. Leaving(q, d, map, tl, f)
    BY <1>2, <1>4, <2>1, <2>2, RemovingIs DEF Here
  <2>4. /\ persis.left = RemovalOrder => f \in DOMAIN d.consume /\ AllConsumed(d, f)
        /\ persis.left = Tail(RemovalOrder) => f \notin DOMAIN d.data
        /\ persis.left = Tail(Tail(RemovalOrder)) => f \notin DOMAIN d.index
    BY <1>1 DEF Removing
  <2>5. /\ \/ e = LessData(d, f) /\ f \in DOMAIN d.consume /\ AllConsumed(d, f)
           \/ e = LessIndex(d, f) /\ f \notin DOMAIN d.data
           \/ e = LessConsume(d, f) /\ f \notin DOMAIN d.index
        /\ \/ /\ \E left : persis' = [at |-> "removing", queue |-> p, file |-> f, left |-> left]
              /\ UNCHANGED tail
           \/ /\ persis' = Idle
              /\ tail' = IF q \in DOMAIN tail /\ tail[q] = f THEN Drop(tail, {q}) ELSE tail
    BY <1>1, <1>4, <2>4 DEF Removal, LessData, LessIndex, LessConsume
  <2>6. Leaving(q, e, map, tl, f) /\ Good(e) /\ Saved(e) = Saved(d)
    <3>1. DirOK(d, count.messages)
      BY <1>1
    <3>2. QED
      BY <2>3, <2>5, <3>1, Removes
  <2>7. DiskKept(q)
    BY <2>2, <2>6 DEF DiskKept
  <2>8. ASSUME NEW left, UNCHANGED tail,
               persis' = [at |-> "removing", queue |-> p, file |-> f, left |-> left]
        PROVE  OrderKept(q)
    <3>1. InOrder(q, e, map, tl, persis')
      BY <1>4, <2>6, <2>8, RemovingIs
    <3>2. QED
      BY <1>1, <2>1, <2>2, <2>8, <3>1 DEF OrderKept
  <2>9. ASSUME persis' = Idle,
               tail' = IF q \in DOMAIN tail /\ tail[q] = f THEN Drop(tail, {q}) ELSE tail
        PROVE  OrderKept(q)
    <3>1. Settled(q, e, map, tail')
      BY <2>1, <2>6, <2>9, LeftSettled
    <3>2. InOrder(q, e, map, tail', Idle)
      BY <3>1, QuietPlaces, QuietIs
    <3>3. QED
      BY <1>1, <2>1, <2>2, <2>9, <3>2 DEF OrderKept
  <2>10. QED
    BY <2>5, <2>7, <2>8, <2>9 DEF Kept
<1>5. QED
  BY <1>3, <1>4

-----------------------------------------------------------------------------
(* Every step, and the properties.                                          *)

\* Only RemoveDir takes a directory away.
LEMMA DirsStay ==
  ASSUME TInv, [Next]_vars, ~RemoveDir
  PROVE  DOMAIN dirs \subseteq DOMAIN dirs'
<1>1. CASE UNCHANGED dirs
  BY <1>1
<1>2. CASE \E q, d : dirs' = [dirs EXCEPT ![q] = d]
  BY <1>2
<1>3. CASE OnCreateQueue
  BY <1>3 DEF OnCreateQueue, Put
<1>4. CASE OnPublishMessage
  BY <1>4 DEF OnPublishMessage
<1>5. CASE WriteInfo \/ Unlink
  BY <1>5 DEF WriteInfo, Unlink
<1>6. CASE WriteData \/ WriteIndex \/ WriteOffset
  BY <1>6 DEF WriteData, WriteIndex, WriteOffset
<1>7. CASE OnConsumeMessage
  BY <1>7 DEF OnConsumeMessage
<1>8. CASE RemoveNext
  BY <1>8 DEF RemoveNext
<1>9. CASE ClearUpStep
  BY <1>9 DEF ClearUpStep
<1>10. CASE OnDeleteQueue \/ CountConsumed \/ KillPersis \/ StartPersis
  BY <1>10 DEF OnDeleteQueue, CountConsumed, KillPersis, StartPersis
<1>11. CASE \E q \in Queues : StartClearUp(q)
  BY <1>11 DEF StartClearUp
<1>12. CASE \E q \in Queues : CreateQueue(q) \/ DeleteQueue(q) \/ Publish(q) \/ Consume(q)
  BY <1>12 DEF CreateQueue, DeleteQueue, Publish, Consume
<1>13. CASE ConsumeOrphan \/ RestartLogic \/ UNCHANGED vars
  BY <1>13 DEF ConsumeOrphan, RestartLogic, vars
<1>14. QED
  BY <1>3, <1>4, <1>5, <1>6, <1>7, <1>8, <1>9, <1>10, <1>11, <1>12, <1>13 DEF Next

\* A step of LogicServer touches neither files nor maps.
LEMMA StepKeeps ==
  ASSUME TInv, [Next]_vars, NEW q, q \in DOMAIN dirs, Sound(q), ~Merged, ~Deleting(q)
  PROVE  q \in DOMAIN dirs' /\ (UNCHANGED <<dirs, memory, persis>> \/ Kept(q))
<1>0. ~RemoveDir => q \in DOMAIN dirs'
  BY DirsStay
<1>1. Here(q)
  BY SoundIs DEF Here
<1>2. More
  BY StepCount DEF TInv
<1> DEFINE Goal == UNCHANGED <<dirs, memory, persis>> \/ Kept(q)
<1>3. ASSUME \E p \in Queues : CreateQueue(p) \/ DeleteQueue(p) \/ Publish(p) \/ Consume(p) PROVE Goal
  BY <1>3 DEF CreateQueue, DeleteQueue, Publish, Consume
<1>4. ASSUME ConsumeOrphan \/ RestartLogic PROVE Goal
  BY <1>4 DEF ConsumeOrphan, RestartLogic
<1>5. ASSUME KillPersis PROVE Goal
  BY <1>1, <1>5, KillPersisKeeps
<1>6. ASSUME StartPersis PROVE Goal
  BY <1>1, <1>6, StartPersisKeeps
<1>7. ASSUME OnCreateQueue PROVE Goal
  BY <1>1, <1>7, OnCreateQueueKeeps
<1>8. ASSUME OnDeleteQueue PROVE Goal
  BY <1>1, <1>8, OnDeleteQueueKeeps
<1>20. ASSUME WriteInfo PROVE Goal
  BY <1>1, <1>20, WriteInfoKeeps
<1>21. ASSUME Unlink PROVE Goal
  BY <1>1, <1>21, UnlinkKeeps
<1>22. ASSUME RemoveDir PROVE q \in DOMAIN dirs' /\ Goal
  BY <1>1, <1>22, RemoveDirKeeps
<1>9. ASSUME OnPublishMessage PROVE Goal
  BY <1>1, <1>2, <1>9, OnPublishKeeps
<1>10. ASSUME WriteData PROVE Goal
  BY <1>1, <1>10, WriteDataKeeps
<1>11. ASSUME WriteIndex PROVE Goal
  BY <1>1, <1>11, WriteIndexKeeps
<1>12. ASSUME WriteOffset PROVE Goal
  BY <1>1, <1>12, WriteOffsetKeeps
<1>13. ASSUME OnConsumeMessage PROVE Goal
  BY <1>1, <1>2, <1>13, OnConsumeKeeps
<1>14. ASSUME CountConsumed PROVE Goal
  BY <1>1, <1>14, CountConsumedKeeps
<1>15. ASSUME RemoveNext PROVE Goal
  BY <1>1, <1>15, RemoveNextKeeps
<1>16. ASSUME \E p \in Queues : StartClearUp(p) PROVE Goal
  BY <1>1, <1>16, StartClearUpKeeps
<1>17. ASSUME ClearUpStep PROVE Goal
  BY <1>1, <1>17, ClearUpStepKeeps
<1>18. ASSUME UNCHANGED vars PROVE Goal
  BY <1>18 DEF vars, memory
<1>19. QED
  BY <1>0, <1>3, <1>4, <1>5, <1>6, <1>7, <1>8, <1>9, <1>10, <1>11, <1>12, <1>13, <1>14, <1>15,
     <1>16, <1>17, <1>18, <1>20, <1>21, <1>22 DEF Next

\* PersistenceServer.cpp: kills at any point, restarts and lost commands leave
\* the files of a queue in order, but for a merge, a repeated index and the
\* removal of the directory of the queue (RemoveDir, one file after the other).
THEOREM FilesStaySound == Spec => StaysSound
<1>1. TInv /\ TInv' /\ [Next]_vars =>
        [\A q \in Queues :
           /\ Sound(q) /\ ~Merged /\ ~Deleting(q) /\ ~(Taken /\ Repeat(Head(ring)))
           => Sound(q)']_<<dirs, memory, persis>>
  <2> SUFFICES ASSUME TInv, TInv', [Next]_vars, ~UNCHANGED <<dirs, memory, persis>>,
                      NEW q \in Queues, Sound(q), ~Merged, ~Deleting(q),
                      ~(Taken /\ Repeat(Head(ring)))
               PROVE  Sound(q)'
    OBVIOUS
  <2>1. q \in DOMAIN dirs
    BY DEF Sound
  <2>2. q \in DOMAIN dirs' /\ Kept(q)
    BY <2>1, StepKeeps
  <2>3. OrderKept(q)
    BY <2>2 DEF Kept
  <2>4. QED
    BY <2>2, <2>3, SoundNext DEF OrderKept
<1>2. QED
  BY <1>1, TypesHold, PTL DEF Spec, StaysSound

LEMMA OnDiskIs ==
  ASSUME TInv, TInv', NEW q, q \in DOMAIN dirs, q \in DOMAIN dirs', Sound(q), DiskKept(q)
  PROVE  OnDisk(q) = Saved(dirs[q]) /\ OnDisk(q)' = Saved(dirs'[q])
<1>1. DirOK(dirs[q], count.messages) /\ DirOK(dirs'[q], count'.messages)
  BY DEF TInv, DirsOK
<1>2. Points(dirs[q])
  BY <1>1, PointsIs DEF Sound
<1>3. Points(dirs'[q])
  BY DEF DiskKept, Good
<1>4. Found(dirs[q]) = Saved(dirs[q]) /\ Found(dirs'[q]) = Saved(dirs'[q])
  BY <1>1, <1>2, <1>3, SavedIs
<1>5. OnDisk(q) = Found(dirs[q]) /\ OnDisk(q)' = Found(dirs'[q])
  BY DEF OnDisk, Found
<1>6. QED
  BY <1>4, <1>5

\* OnConsumeMessage: a message a restart would find is given up only when its
\* own consumption is taken from the ring, or while the directory of its queue
\* is being removed.
THEOREM NothingIsForgotten == Spec => NothingForgotten
<1>1. TInv /\ TInv' /\ [Next]_vars =>
        [\A q \in Queues : \A m \in OnDisk(q) \ OnDisk(q)' :
           Sound(q) /\ ~Merged =>
             \/ Deleting(q)
             \/ /\ Taken
                /\ Head(ring).cmd = "consume" /\ Head(ring).queue = q /\ Head(ring).index = m.index
          ]_dirs
  <2> SUFFICES ASSUME TInv, TInv', [Next]_vars, dirs' # dirs,
                      NEW q \in Queues, NEW m \in OnDisk(q) \ OnDisk(q)',
                      Sound(q), ~Merged, ~Deleting(q)
               PROVE  /\ Taken
                      /\ Head(ring).cmd = "consume" /\ Head(ring).queue = q
                      /\ Head(ring).index = m.index
    OBVIOUS
  <2>1. q \in DOMAIN dirs
    BY DEF Sound
  <2>2. q \in DOMAIN dirs' /\ DiskKept(q)
    BY <2>1, StepKeeps DEF Kept
  <2>3. m \in Saved(dirs[q]) /\ m \notin Saved(dirs'[q])
    BY <2>1, <2>2, OnDiskIs
  <2>4. QED
    BY <2>2, <2>3 DEF DiskKept
<1>2. QED
  BY <1>1, TypesHold, PTL DEF Spec, NothingForgotten

\* The order of the removals in OnConsumeMessage: what a restart would find
\* gains no message but the one that is being written, wherever
\* PersistenceServer is killed, but while it removes the directory of the queue.
THEOREM NothingComesBack == Spec => NothingReturns
<1>1. TInv /\ TInv' /\ [Next]_vars =>
        [\A q \in Queues : \A m \in OnDisk(q)' \ OnDisk(q) :
           Sound(q) /\ ~Merged /\ ~Deleting(q) =>
             persis.at = "data written" /\ persis.id = m.id]_dirs
  <2> SUFFICES ASSUME TInv, TInv', [Next]_vars, dirs' # dirs,
                      NEW q \in Queues, NEW m \in OnDisk(q)' \ OnDisk(q),
                      Sound(q), ~Merged, ~Deleting(q)
               PROVE  persis.at = "data written" /\ persis.id = m.id
    OBVIOUS
  <2>1. q \in DOMAIN dirs
    BY DEF Sound
  <2>2. q \in DOMAIN dirs' /\ DiskKept(q)
    BY <2>1, StepKeeps DEF Kept
  <2>3. m \in Saved(dirs'[q]) /\ m \notin Saved(dirs[q])
    BY <2>1, <2>2, OnDiskIs
  <2>4. QED
    BY <2>2, <2>3 DEF DiskKept
<1>2. QED
  BY <1>1, TypesHold, PTL DEF Spec, NothingReturns
=============================================================================
