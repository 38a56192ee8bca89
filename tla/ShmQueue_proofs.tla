--------------------------- MODULE ShmQueue_proofs ---------------------------
(***************************************************************************)
(* Proofs about ShmQueue, for every number of processes, every choice of   *)
(* message sizes and every ring length.                                    *)
(*                                                                         *)
(* First what a call computes: where the pieces of a block land            *)
(* (WriteBlockPlaces), that the free space is the distance from the tail   *)
(* round to the head (FreeSpaceIs), that reading from the head collects    *)
(* the oldest block (ReadsOldest).  Then the inductive invariant IInv, one *)
(* lemma ...Keeps for each action, and the theorems.                       *)
(***************************************************************************)
EXTENDS ShmQueue, SeqFacts, SequenceTheorems, TLAPS

(* Remainders by the ring's length, for the two cases the ring ever meets. *)
LEMMA ModWrap ==
  ASSUME NEW x \in 0 .. QueueLen - 1, NEW n \in 0 .. QueueLen
  PROVE  (x + n) % QueueLen = IF x + n < QueueLen THEN x + n ELSE x + n - QueueLen
<1>1. QueueLen \in Nat /\ QueueLen > 0
  BY ShmQueueAssumption
<1>2. CASE x + n < QueueLen
  BY <1>1, <1>2
<1>3. CASE x + n >= QueueLen
  BY <1>1, <1>3
<1>4. QED
  BY <1>1, <1>2, <1>3

(* Numbers the lengths of a block are. *)
LEMMA BlockLenType ==
  ASSUME NEW m \in Msgs
  PROVE  /\ Size[m] \in Nat /\ Size[m] > 0
         /\ BlockLen(m) \in Nat
         /\ BlockLen(m) > HeadLen + Size[m]
         /\ BlockLen(m) = HeadLen + Size[m] + TailLen
         /\ HeadLen \in Nat /\ HeadLen > 0
         /\ TailLen \in Nat /\ TailLen > 0
  BY ShmQueueAssumption DEF BlockLen

(* Distance from position a to position i, going right round the ring. *)
Dist(a, i) == IF i >= a THEN i - a ELSE i - a + QueueLen

(* The memory with block blk of n bytes laid down from position a. *)
Placed(a, blk, n) ==
  [i \in 0 .. QueueLen - 1 |-> IF Dist(a, i) < n THEN blk[Dist(a, i)] ELSE mem[i]]

(* However Enqueue splits the three pieces of a block, the bytes land where   *)
(* one copy going round the end of the ring would put them.                   *)
LEMMA WriteBlockPlaces ==
  ASSUME TypeOK, NEW msg \in Msgs, FreeSpace >= BlockLen(msg)
  PROVE  WriteBlock(msg) = Placed(m_iTail, Block(m_iTail, msg), BlockLen(msg))
<1> DEFINE blk == Block(m_iTail, msg)
           n == Size[msg]
           bl == BlockLen(msg)
           right == QueueLen - m_iTail
           start == [m |-> mem, at |-> m_iTail, right |-> right]
           c1 == CopyPiece(start, blk, 0, HeadLen)
           c2 == CopyPiece(c1, blk, HeadLen, n)
           c3 == CopyPiece(c2, blk, HeadLen + n, TailLen)
<1>1. /\ n \in Nat /\ n > 0 /\ bl \in Nat /\ bl = HeadLen + n + TailLen
      /\ HeadLen \in Nat /\ HeadLen > 0 /\ TailLen \in Nat /\ TailLen > 0
      /\ QueueLen \in Nat /\ QueueLen > 0
  BY BlockLenType, ShmQueueAssumption
<1>2. /\ m_iLen = QueueLen
      /\ m_iHead \in 0 .. QueueLen - 1 /\ m_iTail \in 0 .. QueueLen - 1
      /\ DOMAIN mem = 0 .. QueueLen - 1
      /\ m_iBlockNum \in Nat
  BY DEF TypeOK
<1>3. CASE m_iTail < m_iHead \/ right >= bl
  <2>1. WriteBlock(msg) = Memcpy(mem, m_iTail, blk, 0, bl)
    BY <1>2, <1>3 DEF WriteBlock
  <2>2. m_iTail + bl <= QueueLen
    BY <1>1, <1>2, <1>3 DEF FreeSpace
  <2> HIDE DEF blk, bl
  <2>3. Memcpy(mem, m_iTail, blk, 0, bl) = Placed(m_iTail, blk, bl)
    <3>1. \A i \in 0 .. QueueLen - 1 :
             (m_iTail <= i /\ i < m_iTail + bl) <=> Dist(m_iTail, i) < bl
      BY <1>1, <1>2, <2>2 DEF Dist
    <3>2. \A i \in 0 .. QueueLen - 1 : m_iTail <= i => 0 + i - m_iTail = Dist(m_iTail, i)
      BY <1>2, <1>1 DEF Dist
    <3>3. QED
      BY <1>1, <1>2, <3>1, <3>2 DEF Memcpy, Placed
  <2>4. QED
    BY <2>1, <2>3 DEF blk, bl
<1>4. CASE ~(m_iTail < m_iHead \/ right >= bl)
  <2>1. WriteBlock(msg) = c3.m
    BY <1>2, <1>4 DEF WriteBlock
  <2>2. /\ m_iHead <= m_iTail /\ right < bl /\ right > 0
        /\ QueueLen - (m_iTail - m_iHead) >= bl
    BY <1>1, <1>2, <1>4 DEF FreeSpace
  <2> HIDE DEF blk, n, bl
  <2>3. CASE right < HeadLen
    <3>1. c1 = [m |-> Memcpy(Memcpy(mem, m_iTail, blk, 0, right), 0, blk, right, HeadLen - right),
                at |-> HeadLen - right, right |-> m_iHead - (HeadLen - right)]
      <4>1. HeadLen - right \in 0 .. QueueLen - 1
        BY <1>1, <1>2, <2>2, <2>3
      <4>2. (HeadLen - right) % QueueLen = HeadLen - right
        BY <4>1, <1>1
      <4>3. ~(right >= HeadLen) /\ 0 + right = right
        BY <1>1, <1>2, <2>3
      <4>4. QED
        BY <4>2, <4>3, <1>2 DEF CopyPiece
    <3>2. c2 = [m |-> Memcpy(c1.m, HeadLen - right, blk, HeadLen, n),
                at |-> HeadLen - right + n,
                right |-> m_iHead - (HeadLen - right) - n]
      <4>1. HeadLen - right + n \in 0 .. QueueLen - 1
        BY <1>1, <1>2, <2>2, <2>3
      <4>2. (HeadLen - right + n) % QueueLen = HeadLen - right + n
        BY <4>1, <1>1
      <4>3. c1.right >= n
        BY <1>1, <1>2, <2>2, <2>3, <3>1
      <4> HIDE DEF c1
      <4>4. QED
        BY <3>1, <4>2, <4>3, <1>2 DEF CopyPiece
    <3>3. c3.m = Memcpy(c2.m, HeadLen - right + n, blk, HeadLen + n, TailLen)
      <4>1. c2.right >= TailLen
        BY <1>1, <1>2, <2>2, <2>3, <3>2
      <4> HIDE DEF c2
      <4>2. QED
        BY <3>2, <4>1 DEF CopyPiece
    <3> HIDE DEF c1, c2, c3
    <3>4. c3.m = Placed(m_iTail, blk, bl)
      <4>1. c3.m = [i \in 0 .. QueueLen - 1 |->
                     IF HeadLen - right + n <= i /\ i < HeadLen - right + n + TailLen
                     THEN blk[HeadLen + n + i - (HeadLen - right + n)]
                     ELSE IF HeadLen - right <= i /\ i < HeadLen - right + n
                     THEN blk[HeadLen + i - (HeadLen - right)]
                     ELSE IF 0 <= i /\ i < 0 + (HeadLen - right)
                     THEN blk[right + i - 0]
                     ELSE IF m_iTail <= i /\ i < m_iTail + right
                     THEN blk[0 + i - m_iTail]
                     ELSE mem[i]]
        BY <3>1, <3>2, <3>3, <1>2 DEF Memcpy
      <4>2. QED
        BY <4>1, <1>1, <1>2, <2>2, <2>3 DEF Placed, Dist
    <3>5. QED
      BY <2>1, <3>4 DEF blk, bl
  <2>4. CASE HeadLen <= right /\ right < HeadLen + n
    <3> DEFINE at == (m_iTail + HeadLen) % QueueLen
               rest == n - (right - HeadLen)
    <3>0. at = IF right = HeadLen THEN 0 ELSE m_iTail + HeadLen
      BY ModWrap, <1>1, <1>2, <2>2, <2>4
    <3>1. c1 = [m |-> Memcpy(mem, m_iTail, blk, 0, HeadLen),
                at |-> at, right |-> right - HeadLen]
      BY <1>1, <1>2, <2>4 DEF CopyPiece
    <3> HIDE DEF at
    <3>2. c2 = [m |-> Memcpy(Memcpy(c1.m, at, blk, HeadLen, right - HeadLen),
                             0, blk, HeadLen + (right - HeadLen), rest),
                at |-> rest, right |-> m_iHead - rest]
      <4>1. rest \in 0 .. QueueLen - 1
        BY <1>1, <1>2, <2>2, <2>4
      <4>2. rest % QueueLen = rest
        BY <4>1, <1>1
      <4>3. ~(c1.right >= n)
        BY <1>1, <1>2, <2>2, <2>4, <3>1
      <4> HIDE DEF c1
      <4>4. QED
        BY <3>1, <4>2, <4>3, <1>2 DEF CopyPiece
    <3>3. c3.m = Memcpy(c2.m, rest, blk, HeadLen + n, TailLen)
      <4>1. c2.right >= TailLen
        BY <1>1, <1>2, <2>2, <2>4, <3>2
      <4> HIDE DEF c2
      <4>2. QED
        BY <3>2, <4>1 DEF CopyPiece
    <3> HIDE DEF c1, c2, c3
    <3>4. c3.m = Placed(m_iTail, blk, bl)
      <4>1. c3.m = [i \in 0 .. QueueLen - 1 |->
                     IF rest <= i /\ i < rest + TailLen
                     THEN blk[HeadLen + n + i - rest]
                     ELSE IF 0 <= i /\ i < 0 + rest
                     THEN blk[HeadLen + (right - HeadLen) + i - 0]
                     ELSE IF at <= i /\ i < at + (right - HeadLen)
                     THEN blk[HeadLen + i - at]
                     ELSE IF m_iTail <= i /\ i < m_iTail + HeadLen
                     THEN blk[0 + i - m_iTail]
                     ELSE mem[i]]
        BY <3>1, <3>2, <3>3, <1>2 DEF Memcpy
      <4>2. ASSUME NEW i \in 0 .. QueueLen - 1
            PROVE  c3.m[i] = IF Dist(m_iTail, i) < bl THEN blk[Dist(m_iTail, i)] ELSE mem[i]
        <5>1. CASE i < rest
          <6>1. c3.m[i] = blk[HeadLen + (right - HeadLen) + i - 0]
            BY <4>1, <5>1, <1>1, <1>2, <2>4
          <6>2. i < m_iTail
            BY <5>1, <1>1, <1>2, <2>2, <2>4
          <6>3. HeadLen + (right - HeadLen) + i - 0 = i - m_iTail + QueueLen
            BY <1>1, <1>2
          <6>4. Dist(m_iTail, i) = i - m_iTail + QueueLen /\ Dist(m_iTail, i) < bl
            BY <5>1, <6>2, <1>1, <1>2 DEF Dist
          <6>5. QED
            BY <6>1, <6>3, <6>4
        <5>2. CASE rest <= i /\ i < rest + TailLen
          <6>1. c3.m[i] = blk[HeadLen + n + i - rest]
            BY <4>1, <5>2
          <6>2. i < m_iTail
            BY <5>2, <1>1, <1>2, <2>2, <2>4
          <6>3. HeadLen + n + i - rest = i - m_iTail + QueueLen
            BY <1>1, <1>2
          <6>4. Dist(m_iTail, i) = i - m_iTail + QueueLen /\ Dist(m_iTail, i) < bl
            BY <5>2, <6>2, <1>1, <1>2 DEF Dist
          <6>5. QED
            BY <6>1, <6>3, <6>4
        <5>3. CASE rest + TailLen <= i /\ i < m_iTail
          <6>1. /\ ~(i < rest) /\ ~(i < rest + TailLen) /\ ~(m_iTail <= i)
                /\ ~(at <= i /\ i < at + (right - HeadLen))
            BY <5>3, <3>0, <1>1, <1>2, <2>2, <2>4
          <6>2. ~(Dist(m_iTail, i) < bl)
            BY <5>3, <1>1, <1>2, <2>2, <2>4 DEF Dist
          <6>3. QED
            BY <4>1, <6>1, <6>2, <1>1, <1>2
        <5>4. CASE m_iTail <= i /\ rest + TailLen <= i
          <6>1. Dist(m_iTail, i) = i - m_iTail /\ i - m_iTail < bl
            BY <5>4, <1>1, <1>2, <2>2 DEF Dist
          <6>2. CASE i < m_iTail + HeadLen
            BY <4>1, <3>0, <5>4, <6>1, <6>2, <1>1, <1>2, <2>2, <2>4
          <6>3. CASE m_iTail + HeadLen <= i
            <7>1. at = m_iTail + HeadLen
              BY <3>0, <6>3, <1>1, <1>2
            <7>2. c3.m[i] = blk[HeadLen + i - at]
              <8>1. /\ ~(i < rest + TailLen) /\ ~(i < 0 + rest)
                    /\ at <= i /\ i < at + (right - HeadLen)
                BY <7>1, <5>4, <6>3, <1>1, <1>2, <2>4
              <8>2. QED
                BY <8>1, <4>1
            <7>3. HeadLen + i - at = i - m_iTail
              BY <7>1, <1>1, <1>2
            <7>4. QED
              BY <7>2, <7>3, <6>1
          <6>4. QED
            BY <6>2, <6>3, <1>1, <1>2
        <5>5. QED
          BY <5>1, <5>2, <5>3, <5>4, <1>1, <1>2, <2>4
      <4>3. QED
        BY <4>1, <4>2 DEF Placed
    <3>5. QED
      BY <2>1, <3>4 DEF blk, bl
  <2>5. CASE HeadLen + n <= right
    <3> DEFINE at == (m_iTail + HeadLen + n) % QueueLen
               rest == TailLen - (right - HeadLen - n)
    <3>0. at = IF right = HeadLen + n THEN 0 ELSE m_iTail + HeadLen + n
      <4>1. HeadLen + n \in 0 .. QueueLen
        BY <1>1, <1>2, <2>2, <2>5
      <4>2. m_iTail + HeadLen + n = m_iTail + (HeadLen + n)
        BY <1>1, <1>2
      <4>3. QED
        BY <4>1, <4>2, ModWrap, <1>1, <1>2, <2>2, <2>5
    <3>1. c1 = [m |-> Memcpy(mem, m_iTail, blk, 0, HeadLen),
                at |-> m_iTail + HeadLen, right |-> right - HeadLen]
      <4>1. (m_iTail + HeadLen) % QueueLen = m_iTail + HeadLen
        BY <1>1, <1>2, <2>5
      <4>2. right >= HeadLen
        BY <1>1, <1>2, <2>5
      <4>3. QED
        BY <4>1, <4>2, <1>2 DEF CopyPiece
    <3>2. c2 = [m |-> Memcpy(c1.m, m_iTail + HeadLen, blk, HeadLen, n),
                at |-> at, right |-> right - HeadLen - n]
      <4>1. c1.right >= n
        BY <1>1, <1>2, <2>5, <3>1
      <4> HIDE DEF c1
      <4>2. QED
        BY <3>1, <4>1, <1>2 DEF CopyPiece
    <3> HIDE DEF at
    <3>3. c3.m = Memcpy(Memcpy(c2.m, at, blk, HeadLen + n, right - HeadLen - n),
                        0, blk, HeadLen + n + (right - HeadLen - n), rest)
      <4>1. ~(c2.right >= TailLen)
        BY <1>1, <1>2, <2>2, <2>5, <3>2
      <4> HIDE DEF c2
      <4>2. QED
        BY <3>2, <4>1 DEF CopyPiece
    <3> HIDE DEF c1, c2, c3
    <3>4. c3.m = Placed(m_iTail, blk, bl)
      <4>1. c3.m = [i \in 0 .. QueueLen - 1 |->
                     IF 0 <= i /\ i < 0 + rest
                     THEN blk[HeadLen + n + (right - HeadLen - n) + i - 0]
                     ELSE IF at <= i /\ i < at + (right - HeadLen - n)
                     THEN blk[HeadLen + n + i - at]
                     ELSE IF m_iTail + HeadLen <= i /\ i < m_iTail + HeadLen + n
                     THEN blk[HeadLen + i - (m_iTail + HeadLen)]
                     ELSE IF m_iTail <= i /\ i < m_iTail + HeadLen
                     THEN blk[0 + i - m_iTail]
                     ELSE mem[i]]
        BY <3>1, <3>2, <3>3, <1>2 DEF Memcpy
      <4>2. ASSUME NEW i \in 0 .. QueueLen - 1
            PROVE  c3.m[i] = IF Dist(m_iTail, i) < bl THEN blk[Dist(m_iTail, i)] ELSE mem[i]
        <5>1. CASE i < rest
          <6>0. 0 <= i /\ i < 0 + rest
            BY <5>1, <1>1, <1>2
          <6>1. c3.m[i] = blk[HeadLen + n + (right - HeadLen - n) + i - 0]
            BY <4>1, <6>0
          <6>2. i < m_iTail
            BY <5>1, <1>1, <1>2, <2>2, <2>5
          <6>3. HeadLen + n + (right - HeadLen - n) + i - 0 = i - m_iTail + QueueLen
            BY <1>1, <1>2
          <6>4. Dist(m_iTail, i) = i - m_iTail + QueueLen /\ Dist(m_iTail, i) < bl
            BY <5>1, <6>2, <1>1, <1>2 DEF Dist
          <6>5. QED
            BY <6>1, <6>3, <6>4
        <5>2. CASE rest <= i /\ i < m_iTail
          <6>1. /\ ~(i < rest) /\ ~(m_iTail + HeadLen <= i) /\ ~(m_iTail <= i)
                /\ ~(at <= i /\ i < at + (right - HeadLen - n))
            BY <5>2, <3>0, <1>1, <1>2, <2>2, <2>5
          <6>2. ~(Dist(m_iTail, i) < bl)
            BY <5>2, <1>1, <1>2, <2>2, <2>5 DEF Dist
          <6>3. QED
            BY <4>1, <6>1, <6>2, <1>1, <1>2
        <5>3. CASE m_iTail <= i /\ rest <= i
          <6>1. Dist(m_iTail, i) = i - m_iTail /\ i - m_iTail < bl
            BY <5>3, <1>1, <1>2, <2>2 DEF Dist
          <6>2. CASE i < m_iTail + HeadLen + n
            <7>1. ~(at <= i /\ i < at + (right - HeadLen - n))
              BY <3>0, <6>2, <1>1, <1>2, <2>5
            <7>2. CASE i < m_iTail + HeadLen
              BY <4>1, <7>1, <7>2, <5>3, <6>1, <1>1, <1>2, <2>5
            <7>3. CASE m_iTail + HeadLen <= i
              BY <4>1, <7>1, <7>3, <5>3, <6>1, <6>2, <1>1, <1>2, <2>5
            <7>4. QED
              BY <7>2, <7>3, <1>1, <1>2
          <6>3. CASE m_iTail + HeadLen + n <= i
            <7>1. at = m_iTail + HeadLen + n
              BY <3>0, <6>3, <1>1, <1>2
            <7>2. c3.m[i] = blk[HeadLen + n + i - at]
              BY <7>1, <4>1, <5>3, <6>3, <1>1, <1>2, <2>2, <2>5
            <7>3. HeadLen + n + i - at = i - m_iTail
              BY <7>1, <1>1, <1>2
            <7>4. QED
              BY <7>2, <7>3, <6>1
          <6>4. QED
            BY <6>2, <6>3, <1>1, <1>2
        <5>4. QED
          BY <5>1, <5>2, <5>3, <1>1, <1>2, <2>5
      <4>3. QED
        BY <4>1, <4>2 DEF Placed
    <3>5. QED
      BY <2>1, <3>4 DEF blk, bl
  <2>6. QED
    BY <2>3, <2>4, <2>5, <1>1, <1>2
<1>5. QED
  BY <1>3, <1>4

-----------------------------------------------------------------------------
(* The inductive invariant.  RingOK alone is not inductive: that appending   *)
(* a block overwrites none of the others needs their order on the ring, not  *)
(* only that neighbours touch; that a commit is right needs to know what the *)
(* lock holder found before it.                                              *)

Ordered ==
  \A i, j \in 1 .. Len(accepted) :
    i < j => EndOf(accepted[i]) <= Off(accepted[j].pos)

ArgsOK == \A p \in Procs : pc[p] \in {"enqueue", "put", "written"} => arg[p] \in Msgs

WrittenOK ==
  \A p \in Procs : pc[p] = "written" =>
    /\ FreeSpace >= BlockLen(arg[p])
    /\ \A k \in 0 .. BlockLen(arg[p]) - 1 :
         mem[Wrap(m_iTail, k)] = Block(m_iTail, arg[p])[k]

ReadOK ==
  \A p \in Procs : pc[p] = "read" =>
    /\ accepted # <<>>
    /\ blockHeader[p].m_iDateLen = Size[accepted[1].msg]
    /\ out[p] = Body(accepted[1].msg)
    /\ ret[p] = "ok"

IInv == /\ TypeOK
        /\ MutualExclusion
        /\ Tiling
        /\ Ordered
        /\ Contents
        /\ ArgsOK
        /\ WrittenOK
        /\ ReadOK
-----------------------------------------------------------------------------
(* The constants as numbers. *)
LEMMA Lengths ==
  /\ QueueLen \in Nat /\ QueueLen > 0
  /\ HeadLen \in Nat /\ HeadLen > 0
  /\ TailLen \in Nat /\ TailLen > 0
BY ShmQueueAssumption

(* Facts about the accepted blocks that every step uses. *)
LEMMA BlockFacts ==
  ASSUME IInv, NEW i \in 1 .. Len(accepted)
  PROVE  /\ accepted[i].pos \in 0 .. QueueLen - 1
         /\ accepted[i].msg \in Msgs
         /\ BlockLen(accepted[i].msg) \in Nat
         /\ BlockLen(accepted[i].msg) > 0
         /\ Off(accepted[i].pos) \in 0 .. QueueLen - 1
         /\ EndOf(accepted[i]) = Off(accepted[i].pos) + BlockLen(accepted[i].msg)
         /\ EndOf(accepted[i]) <= EndOf(accepted[Len(accepted)])
         /\ EndOf(accepted[i]) <= QueueLen
<1>1. /\ accepted \in Seq([pos : 0 .. QueueLen - 1, msg : Msgs])
      /\ m_iLen = QueueLen /\ m_iHead \in 0 .. QueueLen - 1
  BY DEF IInv, TypeOK
<1>2. /\ accepted[i] \in [pos : 0 .. QueueLen - 1, msg : Msgs]
      /\ accepted[Len(accepted)] \in [pos : 0 .. QueueLen - 1, msg : Msgs]
      /\ Len(accepted) \in 1 .. Len(accepted)
  <2>1. Len(accepted) \in Nat /\ i \in 1 .. Len(accepted)
    BY <1>1
  <2>2. Len(accepted) \in 1 .. Len(accepted)
    BY <2>1
  <2>3. QED
    BY <1>1, <2>1, <2>2, ElementOfSeq
<1>3. /\ accepted[i].pos \in 0 .. QueueLen - 1 /\ accepted[i].msg \in Msgs
      /\ accepted[Len(accepted)].pos \in 0 .. QueueLen - 1
      /\ accepted[Len(accepted)].msg \in Msgs
  BY <1>2
<1>4. /\ BlockLen(accepted[i].msg) \in Nat /\ BlockLen(accepted[i].msg) > 0
      /\ BlockLen(accepted[Len(accepted)].msg) \in Nat
      /\ BlockLen(accepted[Len(accepted)].msg) > 0
  BY <1>3, BlockLenType, SMTT(30)
<1>5. /\ Off(accepted[i].pos) \in 0 .. QueueLen - 1
      /\ Off(accepted[Len(accepted)].pos) \in 0 .. QueueLen - 1
  <2>1. \A x \in 0 .. QueueLen - 1 : Off(x) \in 0 .. QueueLen - 1
    BY <1>1, Lengths DEF Off
  <2>2. QED
    BY <1>3, <2>1
<1>6. EndOf(accepted[i]) <= EndOf(accepted[Len(accepted)])
  <2>1. CASE i = Len(accepted)
    BY <2>1, <1>4, <1>5 DEF EndOf
  <2>2. CASE i < Len(accepted)
    BY <2>2, <1>2, <1>4, <1>5 DEF IInv, Ordered, EndOf
  <2>3. QED
    BY <2>1, <2>2, <1>1
<1>7. EndOf(accepted[Len(accepted)]) <= QueueLen
  BY <1>1, <1>2 DEF IInv, Tiling
<1>8. QED
  BY <1>3, <1>4, <1>5, <1>6, <1>7, Lengths DEF EndOf

(* Moving k bytes on from a position, without passing the head again. *)
LEMMA WrapOff ==
  ASSUME TypeOK, NEW x \in 0 .. QueueLen - 1, NEW k \in Nat, Off(x) + k < QueueLen
  PROVE  Wrap(x, k) \in 0 .. QueueLen - 1 /\ Off(Wrap(x, k)) = Off(x) + k
BY Lengths DEF TypeOK, Wrap, Off

(* The code's free-space computation, at the boundary head = tail too. *)
LEMMA FreeSpaceIs ==
  ASSUME IInv
  PROVE  /\ accepted = <<>> => FreeSpace = QueueLen /\ Off(m_iTail) = 0
         /\ accepted # <<>> =>
              /\ FreeSpace = QueueLen - EndOf(accepted[Len(accepted)])
              /\ EndOf(accepted[Len(accepted)]) \in 1 .. QueueLen
              /\ FreeSpace > 0 => Off(m_iTail) = EndOf(accepted[Len(accepted)])
<1>1. /\ m_iLen = QueueLen
      /\ m_iHead \in 0 .. QueueLen - 1 /\ m_iTail \in 0 .. QueueLen - 1
      /\ accepted \in Seq([pos : 0 .. QueueLen - 1, msg : Msgs])
  BY DEF IInv, TypeOK
<1>2. CASE accepted = <<>>
  <2>1. m_iBlockNum = 0 /\ m_iHead = m_iTail
    BY <1>2 DEF IInv, Tiling
  <2>2. QED
    BY <1>1, <1>2, <2>1, Lengths DEF FreeSpace, Off
<1>3. CASE accepted # <<>>
  <2> DEFINE e == EndOf(accepted[Len(accepted)])
  <2>1. Len(accepted) > 0 /\ Len(accepted) \in 1 .. Len(accepted)
    BY <1>1, <1>3
  <2>2. m_iBlockNum > 0 /\ m_iTail = Wrap(m_iHead, e)
    BY <2>1 DEF IInv, Tiling
  <2>3. e \in 1 .. QueueLen
    BY <2>1, BlockFacts, Lengths
  <2> HIDE DEF e
  <2>4. QED
    BY <1>1, <1>3, <2>2, <2>3, Lengths DEF FreeSpace, Off, Wrap, e
<1>4. QED
  BY <1>2, <1>3

(* Dequeue copies the oldest accepted message out of the ring unharmed. *)
LEMMA ReadsOldest ==
  ASSUME IInv, accepted # <<>>
  PROVE  /\ IsHeader(m_iHead)
         /\ ReadHeader(m_iHead) = [m_iIndex |-> m_iHead,
                                  m_iDateLen |-> Size[accepted[1].msg]]
         /\ ReadBody(m_iHead, Size[accepted[1].msg]) = Body(accepted[1].msg)
         /\ ReadTail(m_iHead, Size[accepted[1].msg]) = Flags
<1> DEFINE msg == accepted[1].msg
           n   == Size[msg]
           h   == [m_iIndex |-> m_iHead, m_iDateLen |-> n]
<1>1. /\ m_iLen = QueueLen /\ m_iHead \in 0 .. QueueLen - 1
      /\ accepted \in Seq([pos : 0 .. QueueLen - 1, msg : Msgs])
      /\ DOMAIN mem = 0 .. QueueLen - 1
  BY DEF IInv, TypeOK
<1>2. 1 \in 1 .. Len(accepted)
  BY <1>1
<1>3. /\ msg \in Msgs /\ accepted[1].pos = m_iHead
      /\ n \in Nat /\ n > 0 /\ BlockLen(msg) = HeadLen + n + TailLen
  BY <1>1, <1>2, BlockFacts, BlockLenType, SMTT(30) DEF IInv, Tiling
<1>4. BlockLen(msg) <= QueueLen
  <2>1. /\ EndOf(accepted[1]) <= QueueLen
        /\ EndOf(accepted[1]) = Off(accepted[1].pos) + BlockLen(msg)
        /\ Off(accepted[1].pos) \in 0 .. QueueLen - 1
        /\ BlockLen(msg) \in Nat
    BY <1>2, BlockFacts
  <2> HIDE DEF msg
  <2>2. QED
    BY <2>1, Lengths
<1>5. \A k \in 0 .. HeadLen + n + TailLen - 1 :
        mem[Wrap(m_iHead, k)] = Block(m_iHead, msg)[k]
  <2>1. \A k \in 0 .. BlockLen(msg) - 1 :
          mem[Wrap(accepted[1].pos, k)] = Block(accepted[1].pos, msg)[k]
    BY <1>2 DEF IInv, Contents
  <2>2. accepted[1].pos = m_iHead /\ BlockLen(msg) = HeadLen + n + TailLen
    BY <1>3
  <2> HIDE DEF msg, n
  <2>3. QED
    BY <1>3, <2>1, <2>2, Lengths
<1> HIDE DEF msg, n
<1>6. /\ \A k \in 0 .. HeadLen - 1 : mem[Wrap(m_iHead, k)] = HeadCell(k, h)
      /\ \A k \in 0 .. n - 1 : mem[Wrap(m_iHead, HeadLen + k)] = BodyCell(k, msg)
      /\ \A k \in 0 .. TailLen - 1 : mem[Wrap(m_iHead, HeadLen + n + k)] = TailCell
  <2>1. \A k \in 0 .. HeadLen - 1 : Block(m_iHead, msg)[k] = HeadCell(k, h)
    BY <1>3, Lengths DEF Block, n
  <2>2. \A k \in 0 .. n - 1 : Block(m_iHead, msg)[HeadLen + k] = BodyCell(k, msg)
    <3>1. ASSUME NEW k \in 0 .. n - 1
          PROVE  /\ HeadLen + k \in 0 .. BlockLen(msg) - 1
                 /\ ~(HeadLen + k < HeadLen) /\ HeadLen + k < HeadLen + n
                 /\ HeadLen + k - HeadLen = k
      BY <1>3, Lengths
    <3>2. \A j \in 0 .. BlockLen(msg) - 1 :
            ~(j < HeadLen) /\ j < HeadLen + n =>
              Block(m_iHead, msg)[j] = BodyCell(j - HeadLen, msg)
      BY DEF Block, n
    <3>3. ASSUME NEW k \in 0 .. n - 1
          PROVE  Block(m_iHead, msg)[HeadLen + k] = BodyCell(k, msg)
      <4>1. Block(m_iHead, msg)[HeadLen + k] = BodyCell(HeadLen + k - HeadLen, msg)
        BY <1>3, <3>1, <3>2, Lengths
      <4>2. QED
        BY <3>1, <4>1
    <3>4. QED
      BY <3>3
  <2>3. \A k \in 0 .. TailLen - 1 : Block(m_iHead, msg)[HeadLen + n + k] = TailCell
    <3>1. ASSUME NEW k \in 0 .. TailLen - 1
          PROVE  /\ HeadLen + n + k \in 0 .. BlockLen(msg) - 1
                 /\ ~(HeadLen + n + k < HeadLen) /\ ~(HeadLen + n + k < HeadLen + n)
      BY <1>3, Lengths
    <3>2. QED
      BY <3>1 DEF Block, n
  <2>4. /\ \A k \in 0 .. HeadLen - 1 : k \in 0 .. HeadLen + n + TailLen - 1
        /\ \A k \in 0 .. n - 1 : HeadLen + k \in 0 .. HeadLen + n + TailLen - 1
        /\ \A k \in 0 .. TailLen - 1 : HeadLen + n + k \in 0 .. HeadLen + n + TailLen - 1
    BY <1>3, Lengths
  <2>5. QED
    BY <1>5, <2>1, <2>2, <2>3, <2>4
<1>7. \A x \in 0 .. QueueLen - 1, c \in Nat :
        Gather(x, c) = [k \in 0 .. c - 1 |-> mem[Wrap(x, k)]]
  BY <1>1, Lengths DEF Gather, Wrap
<1>8. /\ (m_iHead + HeadLen) % QueueLen = Wrap(m_iHead, HeadLen)
      /\ Wrap(m_iHead, HeadLen) \in 0 .. QueueLen - 1
      /\ \A k \in 0 .. n + TailLen - 1 :
            Wrap(Wrap(m_iHead, HeadLen), k) = Wrap(m_iHead, HeadLen + k)
  <2>1. HeadLen \in 0 .. QueueLen /\ HeadLen + n + TailLen <= QueueLen
    BY <1>3, <1>4, Lengths
  <2>2. (m_iHead + HeadLen) % QueueLen = Wrap(m_iHead, HeadLen)
    BY <1>1, <2>1, ModWrap DEF Wrap
  <2>3. QED
    BY <1>1, <1>3, <2>1, <2>2, Lengths DEF Wrap
<1>9. /\ (Wrap(m_iHead, HeadLen) + n) % QueueLen = Wrap(m_iHead, HeadLen + n)
      /\ Wrap(m_iHead, HeadLen + n) \in 0 .. QueueLen - 1
      /\ \A k \in 0 .. TailLen - 1 :
            Wrap(Wrap(m_iHead, HeadLen + n), k) = Wrap(m_iHead, HeadLen + n + k)
  <2>1. n \in 0 .. QueueLen
    BY <1>3, <1>4, Lengths
  <2>2. (Wrap(m_iHead, HeadLen) + n) % QueueLen = Wrap(Wrap(m_iHead, HeadLen), n)
    BY <1>1, <1>8, <2>1, ModWrap DEF Wrap
  <2>3. QED
    BY <1>1, <1>3, <1>4, <2>2, Lengths DEF Wrap
<1>10. ReadHeader(m_iHead) = h
  <2>1. Wrap(m_iHead, 0) = m_iHead
    BY <1>1, Lengths DEF Wrap
  <2>2. mem[m_iHead] = HeadCell(0, h)
    BY <1>6, <2>1, Lengths
  <2>3. QED
    BY <2>2 DEF ReadHeader, HeadCell
<1>11. IsHeader(m_iHead)
  <2>1. Gather(m_iHead, HeadLen) = [k \in 0 .. HeadLen - 1 |-> mem[Wrap(m_iHead, k)]]
    BY <1>1, <1>7, Lengths
  <2>2. [k \in 0 .. HeadLen - 1 |-> mem[Wrap(m_iHead, k)]]
          = [k \in 0 .. HeadLen - 1 |-> HeadCell(k, h)]
    BY <1>6
  <2>3. QED
    BY <1>10, <2>1, <2>2 DEF IsHeader
<1>12. ReadBody(m_iHead, n) = Body(msg)
  <2>1. ReadBody(m_iHead, n) = [k \in 0 .. n - 1 |-> mem[Wrap(Wrap(m_iHead, HeadLen), k)]]
    BY <1>1, <1>3, <1>7, <1>8 DEF ReadBody
  <2>2. \A k \in 0 .. n - 1 : mem[Wrap(Wrap(m_iHead, HeadLen), k)] = BodyCell(k, msg)
    BY <1>3, <1>6, <1>8, Lengths
  <2>3. QED
    BY <2>1, <2>2 DEF Body, n
<1>13. ReadTail(m_iHead, n) = Flags
  <2>1. ReadTail(m_iHead, n) =
          [k \in 0 .. TailLen - 1 |-> mem[Wrap(Wrap(m_iHead, HeadLen + n), k)]]
    <3>1. ReadTail(m_iHead, n) = Gather(Wrap(m_iHead, HeadLen + n), TailLen)
      BY <1>1, <1>8, <1>9 DEF ReadTail
    <3>2. QED
      BY <3>1, <1>7, <1>9, Lengths
  <2>2. QED
    BY <2>1, <1>6, <1>9 DEF Flags
<1>14. QED
  BY <1>10, <1>11, <1>12, <1>13 DEF msg, n

(* The test of Dequeue is exact: data is seen when and only when some block is *)
(* accepted, also with head = tail.                                           *)
LEMMA DataIffAccepted == ASSUME IInv PROVE HasData <=> accepted # <<>>
<1>1. accepted \in Seq([pos : 0 .. QueueLen - 1, msg : Msgs])
  BY DEF IInv, TypeOK
<1>2. accepted = <<>> => Len(accepted) = 0
  BY <1>1
<1>3. accepted # <<>> => Len(accepted) \in Nat /\ Len(accepted) > 0
  BY <1>1
<1>4. QED
  BY <1>2, <1>3 DEF IInv, Tiling, HasData
-----------------------------------------------------------------------------
(* One step at a time.  First the steps that leave the ring itself alone.   *)

RingUnchanged == UNCHANGED <<header, mem, accepted>>

(* A step that leaves the ring alone keeps what is known of it. *)
LEMMA QuietRing ==
  ASSUME IInv, RingUnchanged
  PROVE  Tiling' /\ Ordered' /\ Contents'
BY DEF IInv, RingUnchanged, header, Tiling, Ordered, Contents, EndOf, Off, Wrap

(* A process that keeps its place and its locals keeps what is known of it. *)
LEMMA QuietProcess ==
  ASSUME IInv, RingUnchanged, NEW p \in Procs,
         \A q \in Procs \ {p} : /\ pc'[q] = pc[q] /\ arg'[q] = arg[q]
                                /\ blockHeader'[q] = blockHeader[q]
                                /\ out'[q] = out[q] /\ ret'[q] = ret[q],
         pc'[p] \notin {"written", "read"},
         pc'[p] \in {"enqueue", "put"} => arg'[p] \in Msgs
  PROVE  ArgsOK' /\ WrittenOK' /\ ReadOK'
<1>1. ArgsOK'
  BY DEF IInv, ArgsOK
<1>2. WrittenOK'
  <2> SUFFICES ASSUME NEW q \in Procs, pc'[q] = "written"
               PROVE  /\ FreeSpace' >= BlockLen(arg'[q])
                      /\ \A k \in 0 .. BlockLen(arg'[q]) - 1 :
                           mem'[Wrap(m_iTail, k)'] = Block(m_iTail', arg'[q])[k]
    BY DEF WrittenOK
  <2>1. pc[q] = "written" /\ arg'[q] = arg[q]
    OBVIOUS
  <2>2. /\ FreeSpace >= BlockLen(arg[q])
        /\ \A k \in 0 .. BlockLen(arg[q]) - 1 :
             mem[Wrap(m_iTail, k)] = Block(m_iTail, arg[q])[k]
    BY <2>1 DEF IInv, WrittenOK
  <2>3. QED
    BY <2>1, <2>2 DEF RingUnchanged, header, FreeSpace, Wrap
<1>3. ReadOK'
  <2> SUFFICES ASSUME NEW q \in Procs, pc'[q] = "read"
               PROVE  /\ accepted' # <<>>
                      /\ blockHeader'[q].m_iDateLen = Size[accepted'[1].msg]
                      /\ out'[q] = Body(accepted'[1].msg)
                      /\ ret'[q] = "ok"
    BY DEF ReadOK
  <2>1. pc[q] = "read" /\ q # p
    OBVIOUS
  <2>2. QED
    BY <2>1 DEF IInv, ReadOK, RingUnchanged
<1>4. QED
  BY <1>1, <1>2, <1>3

(* Who is inside excludes everybody else and holds the lock. *)
LEMMA OnlyInside ==
  ASSUME IInv, NEW p \in Procs, Inside(p)
  PROVE  m_iUsedNum = 1 /\ \A q \in Procs : Inside(q) => q = p
BY DEF IInv, MutualExclusion

(* A step of the lock holder that keeps the lock. *)
LEMMA StaysInside ==
  ASSUME IInv, NEW p \in Procs, Inside(p), UNCHANGED m_iUsedNum,
         NEW l \in {"put", "get", "written", "read", "release"},
         pc' = [pc EXCEPT ![p] = l]
  PROVE  MutualExclusion'
<1>1. pc \in [Procs -> {"idle", "enqueue", "dequeue", "put", "get", "written",
                        "read", "release"}]
  BY DEF IInv, TypeOK
<1>2. \A q \in Procs : Inside(q)' <=> Inside(q)
  BY <1>1 DEF Inside
<1>3. QED
  BY <1>2 DEF IInv, MutualExclusion

(* Entering Enqueue touches nothing but the place of one process. *)
LEMMA CallEnqueueKeeps ==
  ASSUME IInv, NEW p \in Producers, NEW m \in Msgs, CallEnqueue(p, m)
  PROVE  IInv'
<1>0. p \in Procs
  BY DEF Procs
<1>1. TypeOK'
  BY <1>0 DEF IInv, TypeOK, CallEnqueue, header
<1>2. MutualExclusion'
  <2>1. \A q \in Procs : Inside(q)' <=> Inside(q)
    BY <1>0 DEF IInv, TypeOK, CallEnqueue, Inside
  <2>2. QED
    BY <2>1 DEF IInv, MutualExclusion, CallEnqueue
<1>3. RingUnchanged
  BY DEF CallEnqueue, RingUnchanged
<1>4. ArgsOK' /\ WrittenOK' /\ ReadOK'
  BY <1>0, <1>3, QuietProcess DEF IInv, TypeOK, CallEnqueue
<1>5. QED
  BY <1>1, <1>2, <1>3, <1>4, QuietRing DEF IInv

(* Entering Dequeue, likewise. *)
LEMMA CallDequeueKeeps ==
  ASSUME IInv, NEW p \in Consumers, CallDequeue(p)
  PROVE  IInv'
<1>0. p \in Procs
  BY DEF Procs
<1>1. TypeOK'
  BY <1>0 DEF IInv, TypeOK, CallDequeue, header, locals
<1>2. MutualExclusion'
  <2>1. \A q \in Procs : Inside(q)' <=> Inside(q)
    BY <1>0 DEF IInv, TypeOK, CallDequeue, Inside
  <2>2. QED
    BY <2>1 DEF IInv, MutualExclusion, CallDequeue
<1>3. RingUnchanged
  BY DEF CallDequeue, RingUnchanged
<1>4. ArgsOK' /\ WrittenOK' /\ ReadOK'
  BY <1>0, <1>3, QuietProcess DEF IInv, TypeOK, CallDequeue, locals
<1>5. QED
  BY <1>1, <1>2, <1>3, <1>4, QuietRing DEF IInv

(* The CAS that succeeds finds nobody inside. *)
LEMMA AcquireKeeps ==
  ASSUME IInv, NEW p \in Procs, Acquire(p)
  PROVE  IInv'
<1>1. TypeOK'
  BY DEF IInv, TypeOK, Acquire, header, locals
<1>2. MutualExclusion'
  <2>1. \A q \in Procs : ~Inside(q)
    BY DEF IInv, MutualExclusion, Acquire
  <2>2. Inside(p)' /\ \A q \in Procs \ {p} : Inside(q)' <=> Inside(q)
    BY DEF IInv, TypeOK, Acquire, Inside
  <2>3. QED
    BY <2>1, <2>2 DEF MutualExclusion, Acquire
<1>3. RingUnchanged
  BY DEF Acquire, RingUnchanged
<1>4. ArgsOK' /\ WrittenOK' /\ ReadOK'
  <2>1. pc'[p] \in {"put", "get"} /\ (pc'[p] = "put" => pc[p] = "enqueue")
    BY DEF IInv, TypeOK, Acquire
  <2>2. pc[p] = "enqueue" => arg[p] \in Msgs
    BY DEF IInv, ArgsOK
  <2>3. \A q \in Procs \ {p} : pc'[q] = pc[q]
    BY DEF IInv, TypeOK, Acquire
  <2>4. UNCHANGED <<arg, blockHeader, out, ret>>
    BY DEF Acquire, locals
  <2>5. QED
    BY <1>3, <2>1, <2>2, <2>3, <2>4, QuietProcess
<1>5. QED
  BY <1>1, <1>2, <1>3, <1>4, QuietRing DEF IInv

(* The releasing CAS leaves nobody inside. *)
LEMMA ReleaseKeeps ==
  ASSUME IInv, NEW p \in Procs, Release(p)
  PROVE  IInv'
<1>1. TypeOK'
  BY DEF IInv, TypeOK, Release, header
<1>2. MutualExclusion'
  <2>1. Inside(p)
    BY DEF Release, Inside
  <2>2. \A q \in Procs : Inside(q) => q = p
    BY <2>1, OnlyInside
  <2>3. \A q \in Procs : ~Inside(q)'
    BY <2>2 DEF IInv, TypeOK, Release, Inside
  <2>4. QED
    BY <2>3 DEF MutualExclusion, Release
<1>3. RingUnchanged
  BY DEF Release, RingUnchanged
<1>4. ArgsOK' /\ WrittenOK' /\ ReadOK'
  BY <1>3, QuietProcess DEF IInv, TypeOK, Release
<1>5. QED
  BY <1>1, <1>2, <1>3, <1>4, QuietRing DEF IInv

(* The three answers that change nothing but the answer. *)
LEMMA AnswerKeeps ==
  ASSUME IInv, NEW p \in Procs, NEW r \in Results, Inside(p), Finish(p, r),
         UNCHANGED <<header, m_iUsedNum, mem, locals, accepted>>
  PROVE  IInv'
<1>1. TypeOK'
  BY DEF IInv, TypeOK, Finish, header, locals
<1>2. MutualExclusion'
  BY StaysInside DEF Finish
<1>3. RingUnchanged
  BY DEF RingUnchanged
<1>4. ArgsOK' /\ WrittenOK' /\ ReadOK'
  BY <1>3, QuietProcess DEF IInv, TypeOK, Finish, locals
<1>5. QED
  BY <1>1, <1>2, <1>3, <1>4, QuietRing DEF IInv

(* The copy out of the ring is the oldest message, with its flags. *)
LEMMA DequeueReadKeeps ==
  ASSUME IInv, NEW p \in Procs, DequeueRead(p)
  PROVE  IInv'
<1> DEFINE n == Size[accepted[1].msg]
<1>1. accepted # <<>>
  BY DataIffAccepted DEF DequeueRead
<1>2. /\ ReadHeader(m_iHead) = [m_iIndex |-> m_iHead, m_iDateLen |-> n]
      /\ ReadBody(m_iHead, n) = Body(accepted[1].msg)
      /\ ReadTail(m_iHead, n) = Flags
  BY <1>1, ReadsOldest
<1> HIDE DEF n
<1>3. /\ blockHeader' = [blockHeader EXCEPT ![p] = [m_iIndex |-> m_iHead, m_iDateLen |-> n]]
      /\ out' = [out EXCEPT ![p] = Body(accepted[1].msg)]
      /\ ret' = [ret EXCEPT ![p] = "ok"]
      /\ pc' = [pc EXCEPT ![p] = "read"]
      /\ UNCHANGED <<header, m_iUsedNum, mem, arg, accepted>>
  BY <1>2 DEF DequeueRead
<1>4. TypeOK'
  BY <1>3 DEF IInv, TypeOK, header, Results
<1>5. MutualExclusion'
  BY <1>3, StaysInside DEF DequeueRead, Inside
<1>6. Tiling' /\ Ordered' /\ Contents'
  BY <1>3, QuietRing DEF RingUnchanged
<1>7. \A q \in Procs \ {p} : pc[q] \notin {"written", "read"} /\ pc'[q] = pc[q]
  <2>1. Inside(p)
    BY DEF DequeueRead, Inside
  <2>2. \A q \in Procs \ {p} : ~Inside(q)
    BY <2>1, OnlyInside
  <2>3. QED
    BY <1>3, <2>2 DEF IInv, TypeOK, Inside
<1>8. pc'[p] = "read"
  BY <1>3 DEF IInv, TypeOK
<1>9. ArgsOK' /\ WrittenOK'
  <2>1. \A q \in Procs : pc'[q] # "written"
    BY <1>7, <1>8
  <2>2. \A q \in Procs : pc'[q] \in {"enqueue", "put"} => pc[q] \in {"enqueue", "put"}
    BY <1>7, <1>8
  <2>3. QED
    BY <1>3, <2>1, <2>2 DEF IInv, ArgsOK, WrittenOK
<1>10. ReadOK'
  <2> SUFFICES ASSUME NEW q \in Procs, pc'[q] = "read"
               PROVE  /\ accepted' # <<>>
                      /\ blockHeader'[q].m_iDateLen = Size[accepted'[1].msg]
                      /\ out'[q] = Body(accepted'[1].msg)
                      /\ ret'[q] = "ok"
    BY DEF ReadOK
  <2>1. q = p
    BY <1>7
  <2>2. QED
    BY <1>1, <1>3, <2>1 DEF IInv, TypeOK, n
<1>11. QED
  BY <1>4, <1>5, <1>6, <1>9, <1>10 DEF IInv

(* Writing a block hurts no accepted one: the free space is really free.    *)
LEMMA EnqueueWriteKeeps ==
  ASSUME IInv, NEW p \in Procs, EnqueueWrite(p)
  PROVE  IInv'
<1> DEFINE msg == arg[p]
           bl  == BlockLen(msg)
           blk == Block(m_iTail, msg)
<1>1. /\ msg \in Msgs /\ FreeSpace >= bl /\ bl \in Nat /\ bl > 0
      /\ Inside(p)
  BY BlockLenType DEF IInv, ArgsOK, EnqueueWrite, Inside
<1>2. /\ m_iLen = QueueLen
      /\ m_iHead \in 0 .. QueueLen - 1 /\ m_iTail \in 0 .. QueueLen - 1
      /\ DOMAIN mem = 0 .. QueueLen - 1
      /\ accepted \in Seq([pos : 0 .. QueueLen - 1, msg : Msgs])
  BY DEF IInv, TypeOK
<1>3. /\ mem' = Placed(m_iTail, blk, bl)
      /\ pc' = [pc EXCEPT ![p] = "written"]
      /\ UNCHANGED <<header, m_iUsedNum, locals, ret, accepted>>
  BY <1>1, WriteBlockPlaces DEF EnqueueWrite, IInv
<1> HIDE DEF msg, bl, blk
<1>4. TypeOK'
  BY <1>3 DEF IInv, TypeOK, header, locals, Placed
<1>5. MutualExclusion'
  BY <1>1, <1>3, StaysInside
<1>6. Tiling' /\ Ordered'
  BY <1>3 DEF IInv, header, Tiling, Ordered, EndOf, Off, Wrap
<1>7. Contents'
  <2> SUFFICES ASSUME NEW i \in 1 .. Len(accepted),
                      NEW k \in 0 .. BlockLen(accepted[i].msg) - 1
               PROVE  mem'[Wrap(accepted[i].pos, k)]
                        = Block(accepted[i].pos, accepted[i].msg)[k]
    BY <1>3 DEF Contents, header, Wrap
  <2> DEFINE x == Wrap(accepted[i].pos, k)
             e == EndOf(accepted[Len(accepted)])
  <2>1. /\ accepted[i].pos \in 0 .. QueueLen - 1
        /\ BlockLen(accepted[i].msg) \in Nat
        /\ Off(accepted[i].pos) \in 0 .. QueueLen - 1
        /\ Off(accepted[i].pos) + BlockLen(accepted[i].msg) <= e
    BY BlockFacts
  <2>2. accepted # <<>>
    BY <1>2
  <2>3. /\ FreeSpace = QueueLen - e /\ e \in 1 .. QueueLen
        /\ FreeSpace > 0 => Off(m_iTail) = e
    BY <2>2, FreeSpaceIs
  <2> HIDE DEF e
  <2>4. Off(accepted[i].pos) + k < e /\ k \in Nat
    BY <2>1, <2>3
  <2>5. x \in 0 .. QueueLen - 1 /\ Off(x) = Off(accepted[i].pos) + k
    BY <2>1, <2>3, <2>4, WrapOff, Lengths DEF IInv
  <2> HIDE DEF x
  <2>6. Off(m_iTail) = e /\ bl <= QueueLen - e
    BY <1>1, <2>3, Lengths
  <2>7. Off(x) < Off(m_iTail)
    BY <2>4, <2>5, <2>6
  <2>8. ~(Dist(m_iTail, x) < bl)
    BY <1>1, <1>2, <2>3, <2>5, <2>6, <2>7, Lengths DEF Dist, Off
  <2>9. mem'[x] = mem[x]
    BY <1>3, <2>5, <2>8 DEF Placed
  <2>10. mem[x] = Block(accepted[i].pos, accepted[i].msg)[k]
    BY DEF IInv, Contents, x
  <2>11. QED
    BY <2>9, <2>10 DEF x
<1>8. \A q \in Procs \ {p} : pc'[q] = pc[q] /\ pc[q] \notin {"written", "read"}
  <2>1. \A q \in Procs \ {p} : ~Inside(q)
    BY <1>1, OnlyInside
  <2>2. QED
    BY <1>3, <2>1 DEF IInv, TypeOK, Inside
<1>9. pc'[p] = "written"
  BY <1>3 DEF IInv, TypeOK
<1>10. ArgsOK'
  BY <1>1, <1>3, <1>8, <1>9 DEF IInv, ArgsOK, locals, msg
<1>11. FreeSpace <= QueueLen
  <2>1. CASE accepted = <<>>
    BY <2>1, FreeSpaceIs, Lengths
  <2>2. CASE accepted # <<>>
    BY <2>2, FreeSpaceIs, Lengths
  <2>3. QED
    BY <2>1, <2>2
<1>12. FreeSpace \in Int
  BY <1>2, Lengths DEF FreeSpace
<1>13. WrittenOK'
  <2> SUFFICES ASSUME NEW q \in Procs, pc'[q] = "written"
               PROVE  /\ FreeSpace' >= BlockLen(arg'[q])
                      /\ \A k \in 0 .. BlockLen(arg'[q]) - 1 :
                           mem'[Wrap(m_iTail, k)'] = Block(m_iTail', arg'[q])[k]
    BY DEF WrittenOK
  <2>1. q = p /\ arg'[q] = msg
    BY <1>3, <1>8 DEF locals, msg
  <2>2. FreeSpace' = FreeSpace
    BY <1>3 DEF header, FreeSpace
  <2>3. ASSUME NEW k \in 0 .. bl - 1
        PROVE  mem'[Wrap(m_iTail, k)] = blk[k]
    <3>1. k \in Nat /\ k < bl /\ bl <= QueueLen
      BY <1>1, <1>11, <1>12, Lengths
    <3>2. Wrap(m_iTail, k) \in 0 .. QueueLen - 1 /\ Dist(m_iTail, Wrap(m_iTail, k)) = k
      BY <1>1, <1>2, <3>1, Lengths DEF Wrap, Dist
    <3>3. QED
      BY <1>3, <3>1, <3>2 DEF Placed
  <2>4. /\ \A k \in 0 .. bl - 1 : Wrap(m_iTail, k)' = Wrap(m_iTail, k)
        /\ m_iTail' = m_iTail
    BY <1>3 DEF header, Wrap
  <2>5. QED
    BY <1>1, <2>1, <2>2, <2>3, <2>4 DEF bl, blk
<1>14. ReadOK'
  BY <1>8, <1>9 DEF ReadOK
<1>15. QED
  BY <1>4, <1>5, <1>6, <1>7, <1>10, <1>13, <1>14 DEF IInv

(* Committing the written block: it follows the newest one.                 *)
LEMMA EnqueueCommitKeeps ==
  ASSUME IInv, NEW p \in Procs, EnqueueCommit(p)
  PROVE  IInv'
<1> DEFINE msg == arg[p]
           bl  == BlockLen(msg)
           b   == [pos |-> m_iTail, msg |-> msg]
<1>0. PICK n \in Nat : n = Len(accepted)
  BY LenProperties DEF IInv, TypeOK
<1>1. /\ msg \in Msgs /\ bl \in Nat /\ bl > 0 /\ Inside(p)
      /\ FreeSpace >= bl
      /\ \A k \in 0 .. bl - 1 : mem[Wrap(m_iTail, k)] = Block(m_iTail, msg)[k]
  BY BlockLenType DEF IInv, ArgsOK, WrittenOK, EnqueueCommit, Inside
<1>2. /\ m_iLen = QueueLen
      /\ m_iHead \in 0 .. QueueLen - 1 /\ m_iTail \in 0 .. QueueLen - 1
      /\ accepted \in Seq([pos : 0 .. QueueLen - 1, msg : Msgs])
      /\ n = Len(accepted) /\ m_iBlockNum = n
  BY <1>0 DEF IInv, TypeOK, Tiling
<1>3. /\ n = 0 => Off(m_iTail) = 0
      /\ n > 0 => Off(m_iTail) = EndOf(accepted[n])
      /\ Off(m_iTail) \in Nat
      /\ Off(m_iTail) + bl <= QueueLen
  <2>1. CASE accepted = <<>>
    BY <1>1, <1>2, <2>1, FreeSpaceIs, Lengths
  <2>2. CASE accepted # <<>>
    <3>1. n > 0
      BY <1>2, <2>2
    <3> DEFINE e == EndOf(accepted[n])
    <3>2. /\ FreeSpace = QueueLen - e /\ e \in 1 .. QueueLen
          /\ FreeSpace > 0 => Off(m_iTail) = e
      BY <1>2, <2>2, FreeSpaceIs
    <3> HIDE DEF e
    <3>3. FreeSpace > 0
      BY <1>1, <3>2, Lengths
    <3>4. Off(m_iTail) = e
      BY <3>2, <3>3
    <3>5. e \in Nat /\ e + bl <= QueueLen
      BY <1>1, <3>2, Lengths
    <3>6. QED
      BY <3>1, <3>4, <3>5 DEF e
  <2>3. QED
    BY <2>1, <2>2
<1>4. m_iTail' = Wrap(m_iTail, bl) /\ m_iTail' \in 0 .. QueueLen - 1
  <2>1. bl \in 0 .. QueueLen
    BY <1>1, <1>3, Lengths
  <2>2. m_iTail' = (m_iTail + bl) % QueueLen
    BY <1>2 DEF EnqueueCommit
  <2>3. (m_iTail + bl) % QueueLen = Wrap(m_iTail, bl)
    BY <1>2, <2>1, ModWrap DEF Wrap
  <2>4. Wrap(m_iTail, bl) \in 0 .. QueueLen - 1
    BY <1>2, <2>1, Lengths DEF Wrap
  <2>5. QED
    BY <2>2, <2>3, <2>4
<1>5. Wrap(m_iTail, bl) = Wrap(m_iHead, Off(m_iTail) + bl)
  BY <1>1, <1>2, <1>3, Lengths DEF Wrap, Off
<1> HIDE DEF msg, bl
<1>6. /\ accepted' = Append(accepted, b)
      /\ m_iBlockNum' = m_iBlockNum + 1
      /\ pc' = [pc EXCEPT ![p] = "release"] /\ ret' = [ret EXCEPT ![p] = "ok"]
      /\ UNCHANGED <<m_iLen, m_iHead, m_iUsedNum, mem, locals>>
  BY DEF EnqueueCommit, Finish, msg
<1>7. /\ accepted' \in Seq([pos : 0 .. QueueLen - 1, msg : Msgs])
      /\ Len(accepted') = n + 1
      /\ \A i \in 1 .. n : accepted'[i] = accepted[i]
      /\ accepted'[n + 1] = b
  <2>1. b \in [pos : 0 .. QueueLen - 1, msg : Msgs]
    BY <1>1, <1>2
  <2> HIDE DEF b
  <2>2. QED
    BY <1>2, <1>6, <2>1, AppendProperties
<1> DEFINE end(i) == Off(accepted'[i].pos) + BlockLen(accepted'[i].msg)
<1>8. /\ \A i \in 1 .. n : end(i) = EndOf(accepted[i])
      /\ end(n + 1) = Off(m_iTail) + bl
  BY <1>7 DEF EndOf, bl
<1>9. /\ \A i : EndOf(accepted[i])' = end(i)
      /\ \A i : (Off(accepted[i].pos))' = Off(accepted'[i].pos)
      /\ \A x, k : Wrap(x, k)' = Wrap(x, k)
  BY <1>6 DEF EndOf, Off, Wrap
<1> HIDE DEF end
<1>10. TypeOK'
  <2>1. m_iBlockNum' \in Nat
    BY <1>2, <1>6
  <2>2. QED
    BY <1>4, <1>6, <1>7, <2>1 DEF IInv, TypeOK, locals, Results
<1>11. MutualExclusion'
  BY <1>1, <1>6, StaysInside
<1>12. Tiling'
  <2>1. m_iBlockNum' = n + 1
    BY <1>2, <1>6
  <2>2. accepted'[1].pos = m_iHead
    <3>1. CASE n = 0
      <4>1. m_iTail = m_iHead
        BY <1>2, <3>1 DEF IInv, Tiling
      <4>2. QED
        BY <1>7, <3>1, <4>1
    <3>2. CASE n > 0
      <4>1. 1 \in 1 .. n
        BY <3>2
      <4>2. accepted[1].pos = m_iHead
        BY <1>2, <3>2 DEF IInv, Tiling
      <4>3. QED
        BY <1>7, <4>1, <4>2
    <3>3. QED
      BY <3>1, <3>2
  <2>3. end(n + 1) <= QueueLen /\ m_iTail' = Wrap(m_iHead, end(n + 1))
    BY <1>3, <1>4, <1>5, <1>8
  <2>4. \A i \in 1 .. n : end(i) = Off(accepted'[i + 1].pos)
    <3> SUFFICES ASSUME NEW i \in 1 .. n
                 PROVE  end(i) = Off(accepted'[i + 1].pos)
      OBVIOUS
    <3>1. CASE i < n
      <4>1. i \in 1 .. n - 1 /\ i + 1 \in 1 .. n
        BY <3>1
      <4>2. EndOf(accepted[i]) = Off(accepted[i + 1].pos)
        BY <1>2, <4>1 DEF IInv, Tiling
      <4>3. QED
        BY <1>7, <1>8, <4>1, <4>2
    <3>2. CASE i = n
      <4>1. accepted'[i + 1].pos = m_iTail
        BY <1>7, <3>2
      <4>2. QED
        BY <1>3, <1>8, <3>2, <4>1
    <3>3. QED
      BY <3>1, <3>2
  <2>5. (EndOf(accepted[Len(accepted)]))' = end(n + 1)
    BY <1>7, <1>6 DEF EndOf, Off, end
  <2>6. /\ m_iLen' = QueueLen /\ m_iHead' = m_iHead
        /\ Wrap(m_iHead, end(n + 1)) = (Wrap(m_iHead, EndOf(accepted[Len(accepted)])))'
    BY <1>2, <1>6, <2>5 DEF Wrap
  <2>7. \A i \in 1 .. n : EndOf(accepted[i])' = (Off(accepted[i + 1].pos))'
    BY <1>9, <2>4
  <2>8. QED
    BY <1>2, <1>7, <2>1, <2>2, <2>3, <2>5, <2>6, <2>7 DEF Tiling
<1>13. Ordered'
  <2> SUFFICES ASSUME NEW i \in 1 .. n + 1, NEW j \in 1 .. n + 1, i < j
               PROVE  end(i) <= Off(accepted'[j].pos)
    BY <1>7, <1>9 DEF Ordered
  <2>1. i \in 1 .. n /\ end(i) = EndOf(accepted[i])
    BY <1>8
  <2>2. CASE j \in 1 .. n
    <3>1. EndOf(accepted[i]) <= Off(accepted[j].pos)
      BY <1>2, <2>1, <2>2 DEF IInv, Ordered
    <3>2. QED
      BY <1>7, <2>1, <2>2, <3>1
  <2>3. CASE j = n + 1
    <3>1. accepted'[j].pos = m_iTail
      BY <1>7, <2>3
    <3>2. EndOf(accepted[i]) <= EndOf(accepted[n])
      BY <1>2, <2>1, BlockFacts
    <3>3. QED
      BY <1>3, <2>1, <3>1, <3>2
  <2>4. QED
    BY <2>2, <2>3
<1>14. Contents'
  <2> SUFFICES ASSUME NEW i \in 1 .. n + 1,
                      NEW k \in 0 .. BlockLen(accepted'[i].msg) - 1
               PROVE  mem[Wrap(accepted'[i].pos, k)]
                        = Block(accepted'[i].pos, accepted'[i].msg)[k]
    BY <1>6, <1>7, <1>9, SMTT(30) DEF Contents
  <2>1. CASE i \in 1 .. n
    BY <1>2, <1>7, <2>1 DEF IInv, Contents
  <2>2. CASE i = n + 1
    <3>1. accepted'[i].pos = m_iTail /\ accepted'[i].msg = msg
      BY <1>7, <2>2
    <3>2. QED
      BY <1>1, <3>1 DEF bl
  <2>3. QED
    BY <2>1, <2>2
<1>15. \A q \in Procs : /\ pc'[q] \notin {"written", "read"}
                        /\ pc'[q] \in {"enqueue", "put"} => pc'[q] = pc[q]
  <2>1. \A q \in Procs \ {p} : ~Inside(q)
    BY <1>1, OnlyInside
  <2>2. QED
    BY <1>6, <2>1 DEF IInv, TypeOK, Inside
<1>16. ArgsOK' /\ WrittenOK' /\ ReadOK'
  BY <1>6, <1>15 DEF IInv, ArgsOK, WrittenOK, ReadOK, locals
<1>17. QED
  BY <1>10, <1>11, <1>12, <1>13, <1>14, <1>16 DEF IInv

(* Consuming the oldest block: all distances from the head shrink by it.    *)
LEMMA DequeueCommitKeeps ==
  ASSUME IInv, NEW p \in Procs, DequeueCommit(p)
  PROVE  IInv'
<1> DEFINE bl == BlockLen(accepted[1].msg)
           h  == Wrap(m_iHead, bl)
           off(x) == IF x >= h THEN x - h ELSE x - h + QueueLen
<1>0. PICK n \in Nat : n = Len(accepted)
  BY LenProperties DEF IInv, TypeOK
<1>1. /\ m_iLen = QueueLen
      /\ m_iHead \in 0 .. QueueLen - 1 /\ m_iTail \in 0 .. QueueLen - 1
      /\ accepted \in Seq([pos : 0 .. QueueLen - 1, msg : Msgs])
      /\ n = Len(accepted) /\ m_iBlockNum = n
  BY <1>0 DEF IInv, TypeOK, Tiling
<1>2. /\ Inside(p) /\ accepted # <<>>
      /\ blockHeader[p].m_iDateLen = Size[accepted[1].msg]
  BY DEF IInv, ReadOK, DequeueCommit, Inside
<1>3. n > 0 /\ 1 \in 1 .. n
  BY <1>1, <1>2
<1>4. /\ accepted[1].msg \in Msgs /\ accepted[1].pos = m_iHead
      /\ bl \in 1 .. QueueLen
      /\ EndOf(accepted[1]) = bl
  <2>1. /\ EndOf(accepted[1]) = Off(accepted[1].pos) + bl
        /\ EndOf(accepted[1]) <= QueueLen
        /\ bl \in Nat /\ bl > 0
        /\ accepted[1].msg \in Msgs
    BY <1>1, <1>3, BlockFacts
  <2>2. accepted[1].pos = m_iHead
    BY <1>1, <1>3 DEF IInv, Tiling
  <2>3. Off(m_iHead) = 0
    BY <1>1 DEF Off
  <2> HIDE DEF bl
  <2>4. QED
    BY <2>1, <2>2, <2>3, Lengths
<1>5. m_iHead' = h /\ h \in 0 .. QueueLen - 1
  <2>1. m_iHead + HeadLen + Size[accepted[1].msg] + TailLen = m_iHead + bl
    <3>1. /\ bl = HeadLen + Size[accepted[1].msg] + TailLen
          /\ Size[accepted[1].msg] \in Nat
      BY <1>4, BlockLenType
    <3> HIDE DEF bl
    <3>2. QED
      BY <1>1, <3>1, Lengths
  <2>2. m_iHead' = (m_iHead + bl) % QueueLen
    BY <1>1, <1>2, <2>1 DEF DequeueCommit
  <2> HIDE DEF bl
  <2>3. (m_iHead + bl) % QueueLen = h
    BY <1>1, <1>4, ModWrap DEF Wrap
  <2>4. h \in 0 .. QueueLen - 1
    BY <1>1, <1>4, Lengths DEF Wrap
  <2>5. QED
    BY <2>2, <2>3, <2>4
<1>6. /\ accepted' = Tail(accepted)
      /\ m_iBlockNum' = m_iBlockNum - 1
      /\ pc' = [pc EXCEPT ![p] = "release"]
      /\ UNCHANGED <<m_iLen, m_iTail, m_iUsedNum, mem, locals, ret>>
  BY DEF DequeueCommit
<1>7. /\ accepted' \in Seq([pos : 0 .. QueueLen - 1, msg : Msgs])
      /\ Len(accepted') = n - 1
      /\ \A i \in 1 .. n - 1 : accepted'[i] = accepted[i + 1]
  BY <1>1, <1>2, <1>6, HeadTailProperties
<1>8. \A x \in 0 .. QueueLen - 1 : Off(x) >= bl => off(x) = Off(x) - bl
  <2> HIDE DEF bl
  <2>1. QED
    BY <1>1, <1>4, Lengths DEF Off, Wrap
<1> HIDE DEF bl, h, off
<1> DEFINE end(i) == off(accepted[i + 1].pos) + BlockLen(accepted[i + 1].msg)
<1>9. \A i \in 1 .. n - 1 :
         /\ off(accepted[i + 1].pos) = Off(accepted[i + 1].pos) - bl
         /\ end(i) = EndOf(accepted[i + 1]) - bl
         /\ EndOf(accepted[i + 1]) \in Nat
         /\ Off(accepted[i + 1].pos) \in Nat
  <2> SUFFICES ASSUME NEW i \in 1 .. n - 1
               PROVE  /\ off(accepted[i + 1].pos) = Off(accepted[i + 1].pos) - bl
                      /\ end(i) = EndOf(accepted[i + 1]) - bl
                      /\ EndOf(accepted[i + 1]) \in Nat
                      /\ Off(accepted[i + 1].pos) \in Nat
    OBVIOUS
  <2>1. i + 1 \in 1 .. n /\ 1 < i + 1
    BY <1>3
  <2>2. /\ accepted[i + 1].pos \in 0 .. QueueLen - 1
        /\ Off(accepted[i + 1].pos) \in 0 .. QueueLen - 1
        /\ BlockLen(accepted[i + 1].msg) \in Nat
        /\ EndOf(accepted[i + 1]) = Off(accepted[i + 1].pos) + BlockLen(accepted[i + 1].msg)
    BY <1>1, <2>1, BlockFacts
  <2>3. Off(accepted[i + 1].pos) >= bl
    <3>1. EndOf(accepted[1]) <= Off(accepted[i + 1].pos)
      BY <1>1, <1>3, <2>1 DEF IInv, Ordered
    <3>2. QED
      BY <1>4, <2>2, <3>1
  <2>4. off(accepted[i + 1].pos) = Off(accepted[i + 1].pos) - bl
    BY <1>8, <2>2, <2>3
  <2>5. QED
    BY <1>4, <2>2, <2>4, Lengths
<1>10. /\ \A i \in 1 .. n - 1 : EndOf(accepted[i])' = end(i)
       /\ \A i \in 1 .. n - 1 : (Off(accepted[i].pos))' = off(accepted[i + 1].pos)
       /\ \A x, k : Wrap(x, k)' = Wrap(x, k)
  BY <1>1, <1>5, <1>6, <1>7 DEF EndOf, Off, Wrap, off
<1> HIDE DEF end
<1>11. TypeOK'
  <2>1. m_iBlockNum' \in Nat
    BY <1>1, <1>3, <1>6
  <2>2. QED
    BY <1>5, <1>6, <1>7, <2>1 DEF IInv, TypeOK, locals
<1>12. MutualExclusion'
  BY <1>2, <1>6, StaysInside
<1>13. Tiling'
  <2>1. m_iBlockNum' = n - 1
    BY <1>1, <1>6
  <2>2. CASE n = 1
    <3>1. m_iTail = h
      BY <1>1, <1>4, <2>2 DEF IInv, Tiling, h
    <3>2. Len(accepted') = 0 /\ m_iHead' = m_iTail'
      BY <1>5, <1>6, <1>7, <2>2, <3>1
    <3>3. QED
      BY <2>1, <2>2, <3>2 DEF Tiling
  <2>3. CASE n > 1
    <3> DEFINE e == EndOf(accepted[n])
    <3>1. e <= QueueLen /\ m_iTail = Wrap(m_iHead, e)
      BY <1>1, <1>3 DEF IInv, Tiling
    <3>2. n - 1 \in 1 .. n - 1 /\ n - 1 + 1 = n /\ 1 \in 1 .. n - 1
      BY <2>3
    <3>3. end(n - 1) = e - bl /\ e \in Nat
      BY <1>9, <3>2
    <3>4. bl <= e
      <4>1. EndOf(accepted[1]) <= EndOf(accepted[Len(accepted)])
        BY <1>1, <1>3, BlockFacts
      <4>2. QED
        BY <1>1, <1>4, <4>1
    <3> HIDE DEF e
    <3>5. end(n - 1) <= QueueLen /\ m_iTail = Wrap(h, end(n - 1))
      BY <1>1, <1>4, <3>1, <3>3, <3>4, Lengths DEF Wrap, h
    <3>6. accepted'[1].pos = h
      <4>1. accepted'[1] = accepted[2]
        BY <1>7, <3>2
      <4>2. /\ EndOf(accepted[1]) = Off(accepted[1 + 1].pos)
            /\ accepted[1 + 1].pos \in 0 .. QueueLen - 1
        BY <1>1, <2>3, <3>2, BlockFacts DEF IInv, Tiling
      <4>3. Off(accepted[2].pos) = bl /\ accepted[2].pos \in 0 .. QueueLen - 1
        BY <1>4, <4>2
      <4>4. \A x \in 0 .. QueueLen - 1 : Off(x) = bl => x = h
        BY <1>1, <1>4, Lengths DEF Off, Wrap, h
      <4>5. QED
        BY <4>1, <4>3, <4>4
    <3>7. \A i \in 1 .. n - 2 : end(i) = off(accepted[i + 2].pos)
      <4> SUFFICES ASSUME NEW i \in 1 .. n - 2
                   PROVE  end(i) = off(accepted[i + 2].pos)
        OBVIOUS
      <4>1. i \in 1 .. n - 1 /\ i + 1 \in 1 .. n - 1 /\ i + 1 + 1 = i + 2
        BY <2>3
      <4>2. EndOf(accepted[i + 1]) = Off(accepted[i + 2].pos)
        BY <1>1, <4>1 DEF IInv, Tiling
      <4>3. end(i) = EndOf(accepted[i + 1]) - bl
        BY <1>9, <4>1
      <4>4. off(accepted[i + 2].pos) = Off(accepted[i + 2].pos) - bl
        BY <1>9, <4>1
      <4>5. QED
        BY <4>2, <4>3, <4>4
    <3>8. (EndOf(accepted[Len(accepted)]))' = end(n - 1)
      <4>1. (EndOf(accepted[Len(accepted)]))' = (off(accepted'[n - 1].pos)) + BlockLen(accepted'[n - 1].msg)
        BY <1>1, <1>5, <1>6, <1>7 DEF EndOf, Off, off
      <4>2. accepted'[n - 1] = accepted[n]
        BY <1>7, <3>2
      <4>3. QED
        BY <3>2, <4>1, <4>2 DEF end
    <3>9. /\ m_iLen' = QueueLen /\ m_iTail' = m_iTail
          /\ Wrap(h, end(n - 1)) = (Wrap(m_iHead, EndOf(accepted[Len(accepted)])))'
      BY <1>1, <1>5, <1>6, <3>8 DEF Wrap
    <3>10. \A i \in 1 .. n - 2 : EndOf(accepted[i])' = (Off(accepted[i + 1].pos))'
      <4> SUFFICES ASSUME NEW i \in 1 .. n - 2
                   PROVE  EndOf(accepted[i])' = (Off(accepted[i + 1].pos))'
        OBVIOUS
      <4>1. i \in 1 .. n - 1 /\ i + 1 \in 1 .. n - 1 /\ i + 1 + 1 = i + 2
        BY <2>3
      <4>2. EndOf(accepted[i])' = end(i)
        BY <1>10, <4>1
      <4>3. (Off(accepted[i + 1].pos))' = off(accepted[i + 2].pos)
        BY <1>5, <1>6, <1>7, <1>1, <4>1 DEF Off, off
      <4>4. QED
        BY <3>7, <4>2, <4>3
    <3>11. n - 1 > 0 /\ Len(accepted') = n - 1 /\ n - 1 - 1 = n - 2
      BY <1>7, <2>3
    <3>12. QED
      BY <1>5, <2>1, <3>5, <3>6, <3>8, <3>9, <3>10, <3>11 DEF Tiling
  <2>4. QED
    BY <1>3, <2>2, <2>3
<1>14. Ordered'
  <2> SUFFICES ASSUME NEW i \in 1 .. n - 1, NEW j \in 1 .. n - 1, i < j
               PROVE  end(i) <= off(accepted[j + 1].pos)
    BY <1>7, <1>10 DEF Ordered
  <2>1. i + 1 \in 1 .. n /\ j + 1 \in 1 .. n /\ i + 1 < j + 1
    BY <1>3
  <2>2. EndOf(accepted[i + 1]) <= Off(accepted[j + 1].pos)
    BY <1>1, <2>1 DEF IInv, Ordered
  <2>3. /\ end(i) = EndOf(accepted[i + 1]) - bl /\ EndOf(accepted[i + 1]) \in Nat
        /\ off(accepted[j + 1].pos) = Off(accepted[j + 1].pos) - bl
        /\ Off(accepted[j + 1].pos) \in Nat
    BY <1>9
  <2>4. bl \in Nat
    BY <1>4
  <2>5. QED
    BY <2>2, <2>3, <2>4
<1>15. Contents'
  <2> SUFFICES ASSUME NEW i \in 1 .. n - 1,
                      NEW k \in 0 .. BlockLen(accepted'[i].msg) - 1
               PROVE  mem[Wrap(accepted'[i].pos, k)]
                        = Block(accepted'[i].pos, accepted'[i].msg)[k]
    BY <1>6, <1>7, <1>10 DEF Contents
  <2>1. accepted'[i] = accepted[i + 1] /\ i + 1 \in 1 .. n
    BY <1>3, <1>7
  <2>2. QED
    BY <1>1, <2>1 DEF IInv, Contents
<1>16. \A q \in Procs : /\ pc'[q] \notin {"written", "read"}
                        /\ pc'[q] \in {"enqueue", "put"} => pc'[q] = pc[q]
  <2>1. \A q \in Procs \ {p} : ~Inside(q)
    BY <1>2, OnlyInside
  <2>2. QED
    BY <1>6, <2>1 DEF IInv, TypeOK, Inside
<1>17. ArgsOK' /\ WrittenOK' /\ ReadOK'
  BY <1>6, <1>16 DEF IInv, ArgsOK, WrittenOK, ReadOK, locals
<1>18. QED
  BY <1>11, <1>12, <1>13, <1>14, <1>15, <1>17 DEF IInv
-----------------------------------------------------------------------------
(* The empty ring. *)
LEMMA InitIInv == Init => IInv
<1> SUFFICES ASSUME Init PROVE IInv
  OBVIOUS
<1>1. TypeOK
  BY Lengths DEF Init, TypeOK, Results
<1>2. MutualExclusion
  BY DEF Init, MutualExclusion, Inside
<1>3. accepted = <<>> /\ Len(accepted) = 0
  BY DEF Init
<1>4. Tiling /\ Ordered /\ Contents
  BY <1>3 DEF Init, Tiling, Ordered, Contents
<1>5. ArgsOK /\ WrittenOK /\ ReadOK
  BY DEF Init, ArgsOK, WrittenOK, ReadOK
<1>6. QED
  BY <1>1, <1>2, <1>4, <1>5 DEF IInv

(* Every step of every process keeps the invariant, action by action. *)
LEMMA StepKeepsIInv == IInv /\ [Next]_vars => IInv'
<1> SUFFICES ASSUME IInv, [Next]_vars PROVE IInv'
  OBVIOUS
<1>1. CASE \E p \in Producers, m \in Msgs : CallEnqueue(p, m)
  BY <1>1, CallEnqueueKeeps
<1>2. CASE \E p \in Consumers : CallDequeue(p)
  BY <1>2, CallDequeueKeeps
<1>3. ASSUME NEW p \in Procs, Step(p)
      PROVE  IInv'
  <2>1. CASE Acquire(p)
    BY <2>1, AcquireKeeps
  <2>2. CASE EnqueueFull(p)
    BY <2>2, AnswerKeeps DEF EnqueueFull, Inside, Results
  <2>3. CASE EnqueueWrite(p)
    BY <2>3, EnqueueWriteKeeps
  <2>4. CASE EnqueueCommit(p)
    BY <2>4, EnqueueCommitKeeps
  <2>5. CASE DequeueEmpty(p)
    BY <2>5, AnswerKeeps DEF DequeueEmpty, Inside, Results
  <2>6. CASE DequeueSmall(p)
    BY <2>6, AnswerKeeps DEF DequeueSmall, Inside, Results
  <2>7. CASE DequeueRead(p)
    BY <2>7, DequeueReadKeeps
  <2>8. CASE DequeueCommit(p)
    BY <2>8, DequeueCommitKeeps
  <2>9. CASE Release(p)
    BY <2>9, ReleaseKeeps
  <2>10. QED
    BY <1>3, <2>1, <2>2, <2>3, <2>4, <2>5, <2>6, <2>7, <2>8, <2>9
       DEF Step, EnqueueStep, DequeueStep
<1>4. CASE UNCHANGED vars
  BY <1>4 DEF vars, IInv, TypeOK, MutualExclusion, Inside, Tiling, Ordered,
     Contents, EndOf, Off, Wrap, ArgsOK, WrittenOK, FreeSpace, ReadOK
<1>5. QED
  BY <1>1, <1>2, <1>3, <1>4 DEF Next

(* The inductive invariant holds for any number of processes, any message   *)
(* sizes and any ring.                                                      *)
THEOREM Invariant == Spec => []IInv
<1>1. QED
  BY InitIInv, StepKeepsIInv, PTL DEF Spec

(* Every variable stays within its values (shm_queue.h: the header).        *)
THEOREM TypeCorrect == Spec => []TypeOK
<1>1. IInv => TypeOK
  BY DEF IInv
<1>2. QED
  BY <1>1, Invariant, PTL

(* The spin lock of Enqueue and Dequeue excludes: with the two CAS, never   *)
(* two processes between acquiring and releasing.                           *)
THEOREM LockExcludes == Spec => []MutualExclusion
<1>1. IInv => MutualExclusion
  BY DEF IInv
<1>2. QED
  BY <1>1, Invariant, PTL

(* The accepted blocks tile the ring and keep their bytes: Enqueue's free   *)
(* space and its split copies never damage a message nobody has consumed.   *)
THEOREM RingIntact == Spec => []RingOK
<1>1. IInv => RingOK
  BY DEF IInv, RingOK
<1>2. QED
  BY <1>1, Invariant, PTL

(* Dequeue hands over the oldest message, byte for byte, so its branches    *)
(* for a damaged head or missing flags are dead unless somebody dies.       *)
THEOREM OldestDelivered == Spec => []DeliversOldest
<1>1. IInv => DeliversOldest
  BY DEF IInv, ReadOK, DeliversOldest
<1>2. QED
  BY <1>1, Invariant, PTL

-----------------------------------------------------------------------------
(* The answers and the queue.                                               *)

Lens == [i \in 1 .. Len(accepted) |-> BlockLen(accepted[i].msg)]

(* The bytes the accepted blocks take end where the last of them ends.      *)
LEMMA BytesUsed ==
  ASSUME IInv
  PROVE  /\ accepted = <<>> => Total(Lens) = 0
         /\ accepted # <<>> => Total(Lens) = EndOf(accepted[Len(accepted)])
<1>0. PICK n \in Nat : n = Len(accepted)
  BY LenProperties DEF IInv, TypeOK
<1>1. /\ m_iLen = QueueLen /\ m_iHead \in 0 .. QueueLen - 1
      /\ accepted \in Seq([pos : 0 .. QueueLen - 1, msg : Msgs])
  BY DEF IInv, TypeOK
<1>2. \A i \in 1 .. n :
         /\ BlockLen(accepted[i].msg) \in Nat
         /\ Off(accepted[i].pos) \in 0 .. QueueLen - 1
         /\ EndOf(accepted[i]) = Off(accepted[i].pos) + BlockLen(accepted[i].msg)
  BY <1>0, BlockFacts
<1>3. Lens \in Seq(Nat) /\ Len(Lens) = n
      /\ \A i \in 1 .. n : Lens[i] = BlockLen(accepted[i].msg)
  BY <1>0, <1>2 DEF Lens
<1>4. PICK t \in [0 .. n -> Nat] :
         /\ Total(Lens) = t[n]
         /\ t[0] = 0
         /\ \A i \in 1 .. n : t[i] = t[i - 1] + Lens[i]
  BY <1>3, TotalIsRun
<1>5. CASE accepted = <<>>
  BY <1>0, <1>4, <1>5
<1>6. CASE accepted # <<>>
  <2>1. n > 0
    BY <1>0, <1>1, <1>6
  <2> DEFINE I == {i \in Nat : i + 1 <= n => t[i + 1] = EndOf(accepted[i + 1])}
  <2>2. 0 \in I
    <3>1. accepted[1].pos = m_iHead /\ Off(m_iHead) = 0
      BY <1>0, <1>1, <2>1 DEF IInv, Tiling, Off
    <3>2. 1 \in 1 .. n /\ t[1] = t[0] + Lens[1]
      BY <1>4, <2>1
    <3>3. QED
      BY <1>2, <1>3, <1>4, <3>1, <3>2
  <2>3. ASSUME NEW i \in Nat, i \in I
        PROVE  i + 1 \in I
    <3>1. CASE i + 2 <= n
      <4>1. /\ i + 1 \in 1 .. n - 1 /\ i + 1 \in 1 .. n /\ i + 2 \in 1 .. n
            /\ (i + 1) + 1 = i + 2 /\ (i + 2) - 1 = i + 1
        BY <3>1
      <4>2. EndOf(accepted[i + 1]) = Off(accepted[i + 2].pos)
        BY <1>0, <4>1 DEF IInv, Tiling
      <4>3. t[i + 2] = t[i + 1] + Lens[i + 2] /\ t[i + 1] = EndOf(accepted[i + 1])
        BY <1>4, <2>3, <4>1
      <4>4. t[i + 2] = EndOf(accepted[i + 2])
        BY <1>2, <1>3, <4>1, <4>2, <4>3
      <4>5. QED
        BY <4>1, <4>4
    <3>2. CASE ~(i + 2 <= n)
      BY <3>2
    <3>3. QED
      BY <3>1, <3>2
  <2> HIDE DEF I
  <2>4. \A i \in Nat : i \in I
    BY <2>2, <2>3, SetInduction
  <2>5. n - 1 \in Nat /\ (n - 1) + 1 = n
    BY <2>1
  <2>6. t[n] = EndOf(accepted[n])
    BY <2>4, <2>5 DEF I
  <2>7. QED
    BY <1>0, <1>4, <1>6, <2>6
<1>7. QED
  BY <1>5, <1>6

(* A block fits in the free space exactly when its bytes and those of the   *)
(* accepted blocks are no more than the ring has.                           *)
LEMMA FitsIs ==
  ASSUME IInv, NEW m \in Msgs
  PROVE  /\ Total(Lens) \in Nat /\ BlockLen(m) \in Nat
         /\ FreeSpace >= BlockLen(m) <=> Total(Lens) + BlockLen(m) <= QueueLen
<1>1. BlockLen(m) \in Nat /\ QueueLen \in Nat
  BY BlockLenType, Lengths
<1>2. CASE accepted = <<>>
  BY <1>1, <1>2, BytesUsed, FreeSpaceIs
<1>3. CASE accepted # <<>>
  BY <1>1, <1>3, BytesUsed, FreeSpaceIs
<1>4. QED
  BY <1>2, <1>3

(* What a step of a process answers is true of the blocks accepted.         *)
LEMMA StepAnswers ==
  ASSUME IInv, [Next]_vars, NEW p \in Procs, pc'[p] = "release"
  PROVE  /\ pc[p] = "put" => Total(Lens) + BlockLen(arg[p]) > QueueLen
         /\ pc[p] = "get" /\ ret'[p] = "empty" => accepted = <<>>
<1>1. pc \in [Procs -> {"idle", "enqueue", "dequeue", "put", "get", "written",
                        "read", "release"}]
      /\ ret \in [Procs -> Results]
  BY DEF IInv, TypeOK
<1> SUFFICES ASSUME pc[p] \in {"put", "get"}
             PROVE  /\ pc[p] = "put" => Total(Lens) + BlockLen(arg[p]) > QueueLen
                    /\ pc[p] = "get" /\ ret'[p] = "empty" => accepted = <<>>
  OBVIOUS
<1>2. pc'[p] # pc[p]
  OBVIOUS
<1>3. EnqueueFull(p) \/ DequeueEmpty(p) \/ DequeueSmall(p)
  <2>1. ASSUME NEW q \in Procs, NEW l, pc' = [pc EXCEPT ![q] = l]
        PROVE  q = p /\ l = "release"
    BY <1>1, <1>2, <2>1
  <2>2. ASSUME NEW q \in Producers, NEW m \in Msgs, CallEnqueue(q, m) PROVE FALSE
    BY <2>1, <2>2 DEF CallEnqueue, Procs
  <2>3. ASSUME NEW q \in Consumers, CallDequeue(q) PROVE FALSE
    BY <2>1, <2>3 DEF CallDequeue, Procs
  <2>4. ASSUME NEW q \in Procs, Step(q)
        PROVE  EnqueueFull(p) \/ DequeueEmpty(p) \/ DequeueSmall(p)
    <3>1. q = p
      BY <2>1, <2>4 DEF Step, EnqueueStep, DequeueStep, Acquire, EnqueueFull,
         EnqueueWrite, EnqueueCommit, DequeueEmpty, DequeueSmall, DequeueRead,
         DequeueCommit, Release, Finish
    <3>2. ~Acquire(p) /\ ~EnqueueCommit(p) /\ ~DequeueCommit(p) /\ ~Release(p)
      BY DEF Acquire, EnqueueCommit, DequeueCommit, Release
    <3>3. ~EnqueueWrite(p) /\ ~DequeueRead(p)
      BY <1>1 DEF EnqueueWrite, DequeueRead
    <3>4. QED
      BY <2>4, <3>1, <3>2, <3>3 DEF Step, EnqueueStep, DequeueStep
  <2>5. ~UNCHANGED vars
    BY <1>2 DEF vars
  <2>6. QED
    BY <2>2, <2>3, <2>4, <2>5 DEF Next
<1>4. CASE EnqueueFull(p)
  <2>1. arg[p] \in Msgs /\ FreeSpace < BlockLen(arg[p]) /\ pc[p] = "put"
    BY <1>4 DEF EnqueueFull, IInv, ArgsOK
  <2>2. FreeSpace \in Int
    BY Lengths DEF IInv, TypeOK, FreeSpace
  <2>3. BlockLen(arg[p]) \in Nat /\ Total(Lens) \in Nat /\ QueueLen \in Nat
    BY <2>1, FitsIs, Lengths
  <2>4. ~(Total(Lens) + BlockLen(arg[p]) <= QueueLen)
    BY <2>1, <2>2, <2>3, FitsIs
  <2>5. QED
    BY <2>1, <2>3, <2>4
<1>5. CASE DequeueEmpty(p)
  BY <1>5, DataIffAccepted DEF DequeueEmpty
<1>6. CASE DequeueSmall(p)
  BY <1>1, <1>6 DEF DequeueSmall, Finish
<1>7. QED
  BY <1>3, <1>4, <1>5, <1>6

(* "Full" and "empty" are only answered when they are true at that instant: *)
(* Enqueue's free space is exact, and a ring whose head and tail have met   *)
(* is told apart from an empty one by the number of blocks.                 *)
THEOREM AnswersTrue == Spec => AnswersAreTrue
<1> DEFINE A == \A p \in Procs :
       /\ pc[p] = "put" /\ pc'[p] = "release" =>
            Total([i \in 1 .. Len(accepted) |-> BlockLen(accepted[i].msg)])
              + BlockLen(arg[p]) > QueueLen
       /\ pc[p] = "get" /\ ret'[p] = "empty" /\ pc'[p] = "release" => accepted = <<>>
<1>1. IInv /\ [Next]_vars => A
  BY StepAnswers DEF Lens
<1>2. IInv /\ [Next]_vars => [A]_vars
  BY <1>1
<1>3. AnswersAreTrue <=> [][A]_vars
  BY DEF AnswersAreTrue
<1> HIDE DEF A
<1>4. QED
  BY <1>2, <1>3, Invariant, PTL DEF Spec

-----------------------------------------------------------------------------
(* The ring implements ByteFifo: EnqueueCommit is Put, DequeueRead is Get,  *)
(* every other step leaves the abstract queue alone.                        *)

(* The messages of the accepted blocks, oldest first.                       *)
Texts == [i \in 1 .. Len(accepted) |-> accepted[i].msg]
Out == [p \in Procs |-> Received(out[p])]

(* The blocks hold messages.                                               *)
LEMMA MessagesOf ==
  ASSUME NEW s \in Seq([pos : 0 .. QueueLen - 1, msg : Msgs])
  PROVE  \A i \in 1 .. Len(s) : s[i].msg \in Msgs
<1> SUFFICES ASSUME NEW i \in 1 .. Len(s) PROVE s[i].msg \in Msgs
  OBVIOUS
<1>1. s[i] \in [pos : 0 .. QueueLen - 1, msg : Msgs]
  BY ElementOfSeq
<1>2. QED
  BY <1>1

LEMMA TextFacts ==
  ASSUME TypeOK
  PROVE  /\ Texts \in Seq(Msgs) /\ Len(Texts) = Len(accepted)
         /\ \A i \in 1 .. Len(accepted) : Texts[i] = accepted[i].msg
         /\ Texts = <<>> <=> accepted = <<>>
         /\ InQueue = IF Copying THEN Tail(Texts) ELSE Texts
<1>1. accepted \in Seq([pos : 0 .. QueueLen - 1, msg : Msgs])
  BY DEF TypeOK
<1>2. \A i \in 1 .. Len(accepted) : accepted[i].msg \in Msgs
  BY <1>1, MessagesOf
<1>3. Texts \in Seq(Msgs) /\ Len(Texts) = Len(accepted)
      /\ \A i \in 1 .. Len(accepted) : Texts[i] = accepted[i].msg
  BY <1>1, <1>2 DEF Texts
<1>4. Texts = <<>> <=> accepted = <<>>
  BY <1>1, <1>3, EmptySeq
<1>5. QED
  BY <1>3, <1>4 DEF InQueue, Texts

(* The bytes of a message say which message it is.                          *)
LEMMA BodyNames ==
  ASSUME NEW m \in Msgs
  PROVE  Received(Body(m)) = m
<1>1. 0 \in 0 .. Size[m] - 1 /\ \A k \in Msgs : 0 \in 0 .. Size[k] - 1
  BY ShmQueueAssumption
<1>2. \A k \in Msgs : Body(k)[0] = BodyCell(0, k) /\ 0 \in DOMAIN Body(k)
  BY <1>1 DEF Body
<1>3. \A k \in Msgs : Body(k) = Body(m) => k = m
  <2>1. ASSUME NEW k \in Msgs, Body(k) = Body(m)
        PROVE  k = m
    <3>1. BodyCell(0, k) = BodyCell(0, m)
      BY <1>2, <2>1
    <3>2. QED
      BY <3>1 DEF BodyCell
  <2>2. QED
    BY <2>1
<1>4. Body(m) # <<>>
  <2>1. 0 \in DOMAIN Body(m)
    BY <1>2
  <2>2. 0 \notin DOMAIN <<>>
    OBVIOUS
  <2>3. QED
    BY <2>1, <2>2
<1>5. (CHOOSE k \in Msgs : Body(m) = Body(k)) = m
  BY <1>3
<1>6. QED
  BY <1>4, <1>5 DEF Received

(* The two copies of Total, the ring's and the abstract queue's, agree.     *)
LEMMA SameTotal == \A s : Fifo!Total(s) = Total(s)
BY DEF Fifo!Total, Total

(* What the abstract queue holds is what the accepted blocks take.          *)
LEMMA UsedIs ==
  ASSUME IInv, ~Copying
  PROVE  Fifo!UsedBytes = Total(Lens)
<1>1. accepted \in Seq([pos : 0 .. QueueLen - 1, msg : Msgs])
  BY DEF IInv, TypeOK
<1>2. InQueue = Texts /\ Len(Texts) = Len(accepted)
  BY TextFacts DEF IInv
<1>3. \A i \in 1 .. Len(accepted) : Size[InQueue[i]] + (HeadLen + TailLen) = Lens[i]
  <2> SUFFICES ASSUME NEW i \in 1 .. Len(accepted)
               PROVE  Size[InQueue[i]] + (HeadLen + TailLen) = Lens[i]
    OBVIOUS
  <2>1. InQueue[i] = accepted[i].msg /\ Lens[i] = BlockLen(accepted[i].msg)
    BY <1>2, TextFacts DEF IInv, Lens
  <2>2. accepted[i].msg \in Msgs
    BY BlockFacts
  <2>3. Size[accepted[i].msg] \in Nat
        /\ BlockLen(accepted[i].msg) = HeadLen + Size[accepted[i].msg] + TailLen
    BY <2>2, BlockLenType
  <2>4. QED
    BY <2>1, <2>3, Lengths
<1>4. [i \in 1 .. Len(InQueue) |-> Size[InQueue[i]] + (HeadLen + TailLen)] = Lens
  BY <1>2, <1>3 DEF Lens
<1>5. QED
  BY <1>4, SameTotal DEF Fifo!UsedBytes

(* A step that leaves the accepted blocks, the buffers and the copying      *)
(* process alone is a stutter of the abstract queue.                        *)
LEMMA QuietFifo ==
  ASSUME IInv, UNCHANGED <<accepted, out>>, Copying' <=> Copying
  PROVE  UNCHANGED Fifo!fifoVars
<1>1. InQueue' = InQueue
  BY DEF InQueue
<1>2. Out' = Out
  BY DEF Out
<1>3. QED
  BY <1>1, <1>2 DEF Fifo!fifoVars, Out

(* Committing a block puts its message into the abstract queue.             *)
LEMMA CommitPuts ==
  ASSUME IInv, IInv', NEW p \in Procs, EnqueueCommit(p)
  PROVE  Fifo!Put(arg[p])
<1> DEFINE m == arg[p]
           b == [pos |-> m_iTail, msg |-> m]
<1>1. /\ m \in Msgs /\ FreeSpace >= BlockLen(m)
      /\ pc[p] = "written" /\ Inside(p)
      /\ pc' = [pc EXCEPT ![p] = "release"]
      /\ accepted' = Append(accepted, b) /\ out' = out
  BY DEF EnqueueCommit, IInv, WrittenOK, TypeOK, ArgsOK, Inside, Finish, locals
<1>2. ~Copying
  BY <1>1, OnlyInside DEF Copying, Inside
<1>3. ~Copying'
  BY <1>1, <1>2 DEF Copying, IInv, TypeOK
<1>4. Fifo!Fits(m)
  <2>1. /\ Total(Lens) \in Nat /\ BlockLen(m) \in Nat
        /\ Total(Lens) + BlockLen(m) <= QueueLen
    BY <1>1, FitsIs
  <2>2. Size[m] \in Nat /\ BlockLen(m) = HeadLen + Size[m] + TailLen
    BY <1>1, BlockLenType
  <2> HIDE DEF m
  <2>3. Total(Lens) + Size[m] + (HeadLen + TailLen) <= QueueLen
    BY <2>1, <2>2, Lengths
  <2>4. QED
    BY <1>2, <2>3, UsedIs DEF Fifo!Fits
<1>5. InQueue = Texts /\ InQueue' = Texts'
  BY <1>2, <1>3, TextFacts DEF IInv, InQueue, Texts
<1>6. Texts' = Append(Texts, m)
  <2>1. /\ accepted \in Seq([pos : 0 .. QueueLen - 1, msg : Msgs])
        /\ m_iTail \in 0 .. QueueLen - 1
    BY DEF IInv, TypeOK
  <2>2. b \in [pos : 0 .. QueueLen - 1, msg : Msgs] /\ b.msg = m
    BY <1>1, <2>1
  <2> HIDE DEF b, m
  <2>3. PICK n \in Nat : n = Len(accepted)
    BY <2>1
  <2>4. /\ Len(accepted') = n + 1
        /\ \A i \in 1 .. n : accepted'[i] = accepted[i]
        /\ accepted'[n + 1] = b
    BY <1>1, <2>1, <2>2, <2>3, AppendFacts
  <2>5. Texts \in Seq(Msgs) /\ Len(Texts) = n
        /\ \A i \in 1 .. n : Texts[i] = accepted[i].msg
    BY <2>3, TextFacts DEF IInv
  <2>6. /\ Append(Texts, m) \in Seq(Msgs)
        /\ Len(Append(Texts, m)) = n + 1
        /\ \A i \in 1 .. n : Append(Texts, m)[i] = Texts[i]
        /\ Append(Texts, m)[n + 1] = m
    BY <1>1, <2>5, AppendFacts
  <2>7. Texts' \in Seq(Msgs) /\ Len(Texts') = n + 1
        /\ \A i \in 1 .. n + 1 : Texts'[i] = accepted'[i].msg
    <3>1. Texts' = [i \in 1 .. n + 1 |-> accepted'[i].msg]
      BY <2>4 DEF Texts
    <3>2. accepted' \in Seq([pos : 0 .. QueueLen - 1, msg : Msgs])
      BY DEF IInv, TypeOK
    <3>3. \A i \in 1 .. n + 1 : accepted'[i].msg \in Msgs
      BY <2>4, <3>2, MessagesOf
    <3>4. QED
      BY <2>3, <3>1, <3>3
  <2>8. \A i \in 1 .. n + 1 : Texts'[i] = Append(Texts, m)[i]
    <3>1. \A i \in 1 .. n + 1 : i \in 1 .. n \/ i = n + 1
      BY <2>3
    <3>2. QED
      BY <2>2, <2>4, <2>5, <2>6, <2>7, <3>1
  <2>9. QED
    BY <2>6, <2>7, <2>8, SeqEqual
<1>7. Out' = Out
  BY <1>1 DEF Out
<1>8. QED
  BY <1>4, <1>5, <1>6, <1>7 DEF Fifo!Put, Out

(* Copying a block out takes its message from the abstract queue.           *)
LEMMA ReadGets ==
  ASSUME IInv, NEW p \in Procs, DequeueRead(p)
  PROVE  Fifo!Get(p)
<1> DEFINE m == accepted[1].msg
<1>1. /\ pc[p] = "get" /\ HasData /\ Inside(p)
      /\ BufLen >= ReadHeader(m_iHead).m_iDateLen
      /\ out' = [out EXCEPT ![p] = ReadBody(m_iHead, ReadHeader(m_iHead).m_iDateLen)]
      /\ pc' = [pc EXCEPT ![p] = "read"] /\ accepted' = accepted
  BY DEF DequeueRead, Inside
<1>2. accepted # <<>>
  BY <1>1, DataIffAccepted
<1>3. /\ ReadHeader(m_iHead).m_iDateLen = Size[m]
      /\ ReadBody(m_iHead, Size[m]) = Body(m)
  BY <1>2, ReadsOldest
<1>4. ~Copying
  BY <1>1, OnlyInside DEF Copying, Inside
<1>5. Copying'
  BY <1>1 DEF Copying, IInv, TypeOK
<1>6. 1 \in 1 .. Len(accepted) /\ m \in Msgs
  <2>1. 1 \in 1 .. Len(accepted)
    BY <1>2 DEF IInv, TypeOK
  <2>2. QED
    BY <2>1, BlockFacts
<1>7. InQueue = Texts /\ Texts # <<>> /\ Head(Texts) = m
  <2>1. InQueue = Texts /\ Texts # <<>>
    BY <1>2, <1>4, TextFacts DEF IInv
  <2>2. Texts[1] = m
    BY <1>6, TextFacts DEF IInv
  <2>3. QED
    BY <2>1, <2>2
<1>8. InQueue' = Tail(Texts)
  BY <1>1, <1>5 DEF InQueue, Texts
<1>9. Out' = [Out EXCEPT ![p] = m]
  <2>1. out' = [out EXCEPT ![p] = Body(m)] /\ DOMAIN out = Procs
    BY <1>1, <1>3 DEF IInv, TypeOK
  <2> HIDE DEF m
  <2>2. Received(Body(m)) = m
    BY <1>6, BodyNames
  <2>3. Out' = [q \in Procs |-> Received(out'[q])]
    BY DEF Out
  <2>4. \A q \in Procs : Received(out'[q]) = IF q = p THEN m ELSE Received(out[q])
    BY <2>1, <2>2
  <2>5. QED
    BY <2>3, <2>4 DEF Out
<1>10. Size[m] <= BufLen
  <2>1. Size[m] \in Nat
    BY <1>6, BlockLenType
  <2>2. QED
    BY <1>1, <1>3, <2>1, ShmQueueAssumption
<1> HIDE DEF m
<1>11. QED
  BY <1>7, <1>8, <1>9, <1>10 DEF Fifo!Get, Out

(* Moving the head on drops the block whose message is already gone.        *)
LEMMA DropsTaken ==
  ASSUME IInv, IInv', NEW p \in Procs, DequeueCommit(p)
  PROVE  UNCHANGED Fifo!fifoVars
<1>1. /\ pc[p] = "read" /\ Inside(p) /\ accepted # <<>>
      /\ pc' = [pc EXCEPT ![p] = "release"] /\ out' = out
      /\ accepted' = Tail(accepted)
  BY DEF DequeueCommit, Inside, IInv, ReadOK, locals
<1>2. Copying
  BY <1>1 DEF Copying
<1>3. ~Copying'
  <2>1. \A q \in Procs : pc[q] = "read" => q = p
    BY <1>1, OnlyInside DEF Inside
  <2>2. QED
    BY <1>1, <2>1 DEF Copying, IInv, TypeOK
<1>4. InQueue = Tail(Texts)
  BY <1>2, TextFacts DEF IInv
<1>5. InQueue' = Texts'
  BY <1>3 DEF InQueue, Texts
<1>6. Texts' = Tail(Texts)
  <2>1. accepted \in Seq([pos : 0 .. QueueLen - 1, msg : Msgs])
    BY DEF IInv, TypeOK
  <2>2. PICK n \in Nat : n + 1 = Len(accepted)
    <3>1. Len(accepted) \in Nat /\ Len(accepted) # 0
      BY <1>1, <2>1
    <3>2. QED
      BY <3>1
  <2>3. /\ Len(accepted') = n
        /\ \A i \in 1 .. n : accepted'[i] = accepted[i + 1]
    BY <1>1, <2>1, <2>2, HeadTailProperties
  <2>4. /\ Texts \in Seq(Msgs) /\ Len(Texts) = n + 1 /\ Texts # <<>>
        /\ \A i \in 1 .. n + 1 : Texts[i] = accepted[i].msg
    BY <1>1, <2>2, TextFacts DEF IInv
  <2>5. /\ Tail(Texts) \in Seq(Msgs) /\ Len(Tail(Texts)) = n
        /\ \A i \in 1 .. n : Tail(Texts)[i] = Texts[i + 1]
    BY <2>2, <2>4, HeadTailProperties
  <2>6. /\ Texts' \in Seq(Msgs) /\ Len(Texts') = n
        /\ \A i \in 1 .. n : Texts'[i] = accepted'[i].msg
    <3>1. Texts' = [i \in 1 .. n |-> accepted'[i].msg]
      BY <2>3 DEF Texts
    <3>2. accepted' \in Seq([pos : 0 .. QueueLen - 1, msg : Msgs])
      BY DEF IInv, TypeOK
    <3>3. \A i \in 1 .. n : accepted'[i].msg \in Msgs
      BY <2>3, <3>2, MessagesOf
    <3>4. QED
      BY <2>2, <3>1, <3>3
  <2>7. \A i \in 1 .. n : i + 1 \in 1 .. n + 1
    BY <2>2
  <2>8. \A i \in 1 .. n : Texts'[i] = Tail(Texts)[i]
    BY <2>3, <2>4, <2>5, <2>6, <2>7
  <2>9. QED
    BY <2>5, <2>6, <2>8, SeqEqual
<1>7. Out' = Out
  BY <1>1 DEF Out
<1>8. QED
  BY <1>4, <1>5, <1>6, <1>7 DEF Fifo!fifoVars, Out

(* Every step of a process is Put, Get or a stutter of the abstract queue.  *)
LEMMA StepIsFifo ==
  ASSUME IInv, IInv', [Next]_vars
  PROVE  [Fifo!Next]_Fifo!fifoVars
<1>1. pc \in [Procs -> {"idle", "enqueue", "dequeue", "put", "get", "written",
                        "read", "release"}]
  BY DEF IInv, TypeOK
<1>2. ASSUME NEW p \in Procs, NEW l, l # "read", pc[p] # "read",
             pc' = [pc EXCEPT ![p] = l], UNCHANGED <<accepted, out>>
      PROVE  UNCHANGED Fifo!fifoVars
  <2>1. Copying' <=> Copying
    BY <1>1, <1>2 DEF Copying
  <2>2. QED
    BY <1>2, <2>1, QuietFifo
<1>3. ASSUME NEW p \in Producers, NEW m \in Msgs, CallEnqueue(p, m)
      PROVE  UNCHANGED Fifo!fifoVars
  <2>1. p \in Procs
    BY DEF Procs
  <2>2. QED
    BY <1>2, <1>3, <2>1 DEF CallEnqueue
<1>4. ASSUME NEW p \in Consumers, CallDequeue(p)
      PROVE  UNCHANGED Fifo!fifoVars
  <2>1. p \in Procs
    BY DEF Procs
  <2>2. QED
    BY <1>2, <1>4, <2>1 DEF CallDequeue, locals
<1>5. ASSUME NEW p \in Procs, Step(p)
      PROVE  [Fifo!Next]_Fifo!fifoVars
  <2>1. CASE Acquire(p)
    <3>1. PICK l \in {"put", "get"} : pc' = [pc EXCEPT ![p] = l]
      BY <2>1 DEF Acquire
    <3>2. QED
      BY <1>2, <2>1, <3>1 DEF Acquire, locals
  <2>2. CASE EnqueueFull(p)
    BY <1>2, <2>2 DEF EnqueueFull, Finish, locals
  <2>3. CASE EnqueueWrite(p)
    BY <1>2, <2>3 DEF EnqueueWrite, locals
  <2>4. CASE EnqueueCommit(p)
    <3>1. arg[p] \in Msgs
      BY <2>4 DEF IInv, ArgsOK, EnqueueCommit
    <3>2. QED
      BY <2>4, <3>1, CommitPuts DEF Fifo!Next
  <2>5. CASE DequeueEmpty(p)
    BY <1>2, <2>5 DEF DequeueEmpty, Finish, locals
  <2>6. CASE DequeueSmall(p)
    BY <1>2, <2>6 DEF DequeueSmall, Finish, locals
  <2>7. CASE DequeueRead(p)
    BY <2>7, ReadGets DEF Fifo!Next
  <2>8. CASE DequeueCommit(p)
    BY <2>8, DropsTaken
  <2>9. CASE Release(p)
    BY <1>2, <2>9 DEF Release
  <2>10. QED
    BY <1>5, <2>1, <2>2, <2>3, <2>4, <2>5, <2>6, <2>7, <2>8, <2>9
       DEF Step, EnqueueStep, DequeueStep
<1>6. CASE UNCHANGED vars
  <2>1. UNCHANGED <<accepted, out>> /\ (Copying' <=> Copying)
    BY <1>6 DEF vars, Copying
  <2>2. QED
    BY <2>1, QuietFifo
<1>7. QED
  BY <1>3, <1>4, <1>5, <1>6 DEF Next

(* The empty ring is the empty queue. *)
LEMMA InitIsFifo ==
  ASSUME Init
  PROVE  Fifo!Init
<1>1. TypeOK /\ accepted = <<>> /\ ~Copying
  BY InitIInv DEF IInv, Init, Copying
<1>2. InQueue = <<>>
  BY <1>1, TextFacts
<1>3. Out = [p \in Procs |-> NoMsg]
  BY DEF Init, Out, Received
<1>4. QED
  BY <1>2, <1>3 DEF Fifo!Init, Out

(* The ring is a FIFO of whole messages whose capacity is counted in bytes: *)
(* whatever the processes interleave, Enqueue and Dequeue each have one     *)
(* atomic effect on it, and hand a message over once, in order.             *)
THEOREM RingIsFifo == Spec => ImplementsFifo
<1>1. Init => Fifo!Init
  BY InitIsFifo
<1>2. IInv /\ IInv' /\ [Next]_vars => [Fifo!Next]_Fifo!fifoVars
  BY StepIsFifo
<1>3. QED
  BY <1>1, <1>2, Invariant, PTL DEF Spec, ImplementsFifo, Fifo!Spec
=============================================================================
