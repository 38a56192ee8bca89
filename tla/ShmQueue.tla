------------------------------ MODULE ShmQueue ------------------------------
(***************************************************************************)
(* ShmQueue (shm_queue/shm_queue.cpp): the ring of message blocks in a     *)
(* System V shared-memory segment that joins the processes of the broker.  *)
(*                                                                         *)
(* A block is a head (its own position and the body's length), the body    *)
(* and six tail flags; any of the three may wrap round the end of the      *)
(* ring.  Mutual exclusion is a spin lock, m_iUsedNum, taken by            *)
(* CAS32(0, 1) and released by CAS32(1, 0).                                *)
(*                                                                         *)
(* A call is several steps: take the lock, inspect the header and copy     *)
(* bytes, update the header, release.  A failed CAS changes nothing and is *)
(* a stuttering step.  "accepted" is a history variable: the blocks        *)
(* committed and not yet consumed; no action reads it.                     *)
(***************************************************************************)
EXTENDS Integers, Sequences, SeqOps

CONSTANTS Producers,  \* processes that call Enqueue
          Consumers,  \* processes that call Dequeue
          Msgs,       \* messages
          Size,       \* Size[m]: bytes of m (iDateLen)
          QueueLen,   \* m_iQueueSize
          HeadLen,    \* sizeof(DateBlockHead), 8 in the code
          TailLen,    \* tail flags of a block, 6 in the code
          BufLen,     \* *iopBufLen, the buffer a dequeuer brings
          NoMsg

Procs == Producers \cup Consumers

ASSUME ShmQueueAssumption ==
  /\ QueueLen \in Nat \ {0}
  /\ HeadLen \in Nat \ {0}
  /\ TailLen \in Nat \ {0}
  /\ BufLen \in Nat
  /\ Size \in [Msgs -> Nat \ {0}]
  /\ NoMsg \notin Msgs
  /\ Producers \cap Consumers = {}

VARIABLES m_iLen,      \* the header of the segment: bytes of the ring,
          m_iHead,     \* position of the oldest block,
          m_iTail,     \* position after the newest block,
          m_iBlockNum, \* number of blocks,
          m_iUsedNum,  \* 1 while a process owns the ring
          mem,         \* the bytes after the header (m_pMemAddr)
          pc,          \* pc[p]: where process p is in its call
          arg,         \* arg[p]: the message p is enqueueing
          blockHeader, \* blockHeader[p]: the DateBlockHead p copied out
          out,         \* out[p]: the bytes p's buffer received (opBuf)
          ret,         \* ret[p]: what p's last call returned
          accepted     \* history: <<[pos, msg], ...>>, oldest first

header == <<m_iLen, m_iHead, m_iTail, m_iBlockNum>>
locals == <<arg, blockHeader, out>>
vars == <<m_iLen, m_iHead, m_iTail, m_iBlockNum, m_iUsedNum, mem, pc, arg,
          blockHeader, out, ret, accepted>>

Results == {"none", "ok", "full", "empty", "small", "tail"}
-----------------------------------------------------------------------------
(* The bytes of a block. *)

BlockLen(m) == HeadLen + Size[m] + TailLen

NoHeader == [m_iIndex |-> 0, m_iDateLen |-> 0]   \* memset before the copy

ZeroCell       == <<"zero", 0, 0>>
HeadCell(k, h) == <<"head", k, h>>     \* byte k of a DateBlockHead
BodyCell(k, m) == <<"body", k, m>>     \* byte k of a message
TailCell       == <<"tail", 0, 0>>     \* TAIL_FLAG, the same byte each time

Body(m) == [k \in 0 .. Size[m] - 1 |-> BodyCell(k, m)]

\* The block of message m written at position pos, as consecutive bytes.
Block(pos, m) ==
  [k \in 0 .. BlockLen(m) - 1 |->
     IF k < HeadLen THEN HeadCell(k, [m_iIndex |-> pos, m_iDateLen |-> Size[m]])
     ELSE IF k < HeadLen + Size[m] THEN BodyCell(k - HeadLen, m)
     ELSE TailCell]
-----------------------------------------------------------------------------
(* Copying into and out of the ring. *)

\* memcpy(m + to, src + from, n)
Memcpy(m, to, src, from, n) ==
  [i \in DOMAIN m |-> IF to <= i /\ i < to + n THEN src[from + i - to] ELSE m[i]]

\* Mutant: the second half of a split piece starts again at the piece's first byte.
CopyPieceRestart(c, src, from, n) ==
  IF c.right >= n
  THEN [m     |-> Memcpy(c.m, c.at, src, from, n),
        at    |-> (c.at + n) % m_iLen,
        right |-> c.right - n]
  ELSE LET rest == n - c.right IN
       [m     |-> Memcpy(Memcpy(c.m, c.at, src, from, c.right), 0, src, from, rest),
        at    |-> rest % m_iLen,
        right |-> m_iHead - (rest % m_iLen)]

\* One of the three copies of the wrapping branch of Enqueue (head, body,
\* flags): c is the memory so far, saveIndex and tailRightSpace.  A piece
\* that does not fit on the right is split, the rest goes to the start.
CopyPiece(c, src, from, n) ==
  IF c.right >= n
  THEN [m     |-> Memcpy(c.m, c.at, src, from, n),
        at    |-> (c.at + n) % m_iLen,
        right |-> c.right - n]
  ELSE LET rest == n - c.right IN
       [m     |-> Memcpy(Memcpy(c.m, c.at, src, from, c.right),
                         0, src, from + c.right, rest),
        at    |-> rest % m_iLen,
        right |-> m_iHead - (rest % m_iLen)]

\* The memory after Enqueue copied the block of msg to the tail.
WriteBlock(msg) ==
  LET blk   == Block(m_iTail, msg)
      right == m_iLen - m_iTail
      start == [m |-> mem, at |-> m_iTail, right |-> right]
  IN  IF m_iTail < m_iHead \/ right >= BlockLen(msg)
      THEN Memcpy(mem, m_iTail, blk, 0, BlockLen(msg))
      ELSE LET c1 == CopyPiece(start, blk, 0, HeadLen)
               c2 == CopyPiece(c1, blk, HeadLen, Size[msg])
               c3 == CopyPiece(c2, blk, HeadLen + Size[msg], TailLen)
           IN  c3.m

\* n bytes from position at, continued at 0 when the right end is reached.
Gather(at, n) ==
  [k \in 0 .. n - 1 |->
     IF k < m_iLen - at THEN mem[at + k] ELSE mem[k - (m_iLen - at)]]

\* The DateBlockHead that Dequeue copies out of the ring at position at; the
\* steps below are enabled when the bytes there are a head (IsHeader).
ReadHeader(at) == mem[at][3]

IsHeader(at) ==
  Gather(at, HeadLen) = [k \in 0 .. HeadLen - 1 |-> HeadCell(k, ReadHeader(at))]

ReadBody(at, n) == Gather((at + HeadLen) % m_iLen, n)

ReadTail(at, n) == Gather((((at + HeadLen) % m_iLen) + n) % m_iLen, TailLen)

Flags == [k \in 0 .. TailLen - 1 |-> TailCell]
-----------------------------------------------------------------------------
Init ==
  /\ m_iLen = QueueLen
  /\ m_iHead = 0
  /\ m_iTail = 0
  /\ m_iBlockNum = 0
  /\ m_iUsedNum = 0
  /\ mem = [i \in 0 .. QueueLen - 1 |-> ZeroCell]
  /\ pc = [p \in Procs |-> "idle"]
  /\ arg = [p \in Procs |-> NoMsg]
  /\ blockHeader = [p \in Procs |-> NoHeader]
  /\ out = [p \in Procs |-> <<>>]
  /\ ret = [p \in Procs |-> "none"]
  /\ accepted = <<>>

\* The call returns r once the lock is released.
Finish(p, r) == /\ pc' = [pc EXCEPT ![p] = "release"]
                /\ ret' = [ret EXCEPT ![p] = r]

(* Enqueue and Dequeue are entered: the process starts to spin. *)
CallEnqueue(p, m) ==
  /\ pc[p] = "idle"
  /\ pc' = [pc EXCEPT ![p] = "enqueue"]
  /\ arg' = [arg EXCEPT ![p] = m]
  /\ UNCHANGED <<header, m_iUsedNum, mem, blockHeader, out, ret, accepted>>

CallDequeue(p) ==
  /\ pc[p] = "idle"
  /\ pc' = [pc EXCEPT ![p] = "dequeue"]
  /\ UNCHANGED <<header, m_iUsedNum, mem, locals, ret, accepted>>

(* Mutant: the lock word is stored without comparing it first. *)
AcquireNoTest(p) ==
  /\ pc[p] \in {"enqueue", "dequeue"}
  /\ m_iUsedNum' = 1
  /\ pc' = [pc EXCEPT ![p] = IF pc[p] = "enqueue" THEN "put" ELSE "get"]
  /\ UNCHANGED <<header, mem, locals, ret, accepted>>

\* CAS32(&m_iUsedNum, 0, 1) succeeds.
Acquire(p) ==
  /\ pc[p] \in {"enqueue", "dequeue"}
  /\ m_iUsedNum = 0
  /\ m_iUsedNum' = 1
  /\ pc' = [pc EXCEPT ![p] = IF pc[p] = "enqueue" THEN "put" ELSE "get"]
  /\ UNCHANGED <<header, mem, locals, ret, accepted>>

(* Mutant: the operands of the releasing CAS are swapped. *)
ReleaseSwapped(p) ==
  /\ pc[p] = "release"
  /\ m_iUsedNum = 0
  /\ m_iUsedNum' = 1
  /\ pc' = [pc EXCEPT ![p] = "idle"]
  /\ arg' = [arg EXCEPT ![p] = NoMsg]
  /\ blockHeader' = [blockHeader EXCEPT ![p] = NoHeader]
  /\ UNCHANGED <<header, mem, out, ret, accepted>>

\* CAS32(&m_iUsedNum, 1, 0) succeeds and the call returns; its locals are gone.
Release(p) ==
  /\ pc[p] = "release"
  /\ m_iUsedNum = 1
  /\ m_iUsedNum' = 0
  /\ pc' = [pc EXCEPT ![p] = "idle"]
  /\ arg' = [arg EXCEPT ![p] = NoMsg]
  /\ blockHeader' = [blockHeader EXCEPT ![p] = NoHeader]
  /\ UNCHANGED <<header, mem, out, ret, accepted>>

\* Mutant: head = tail is always taken for an empty ring.
FreeSpaceNoCount ==
  IF m_iHead <= m_iTail THEN m_iLen - (m_iTail - m_iHead) ELSE m_iHead - m_iTail

FreeSpace ==
  IF m_iHead < m_iTail \/ (m_iHead = m_iTail /\ m_iBlockNum = 0)
  THEN m_iLen - (m_iTail - m_iHead)
  ELSE IF m_iHead > m_iTail THEN m_iHead - m_iTail
  ELSE 0

EnqueueFull(p) ==
  /\ pc[p] = "put"
  /\ FreeSpace < BlockLen(arg[p])
  /\ Finish(p, "full")
  /\ UNCHANGED <<header, m_iUsedNum, mem, locals, accepted>>

EnqueueWrite(p) ==
  /\ pc[p] = "put"
  /\ FreeSpace >= BlockLen(arg[p])
  /\ mem' = WriteBlock(arg[p])
  /\ pc' = [pc EXCEPT ![p] = "written"]
  /\ UNCHANGED <<header, m_iUsedNum, locals, ret, accepted>>

(* Mutant: the new tail is not wrapped. *)
EnqueueCommitNoWrap(p) ==
  /\ pc[p] = "written"
  /\ m_iTail' = m_iTail + BlockLen(arg[p])
  /\ m_iBlockNum' = m_iBlockNum + 1
  /\ accepted' = Append(accepted, [pos |-> m_iTail, msg |-> arg[p]])
  /\ Finish(p, "ok")
  /\ UNCHANGED <<m_iLen, m_iHead, m_iUsedNum, mem, locals>>

EnqueueCommit(p) ==
  /\ pc[p] = "written"
  /\ m_iTail' = (m_iTail + BlockLen(arg[p])) % m_iLen
  /\ m_iBlockNum' = m_iBlockNum + 1
  /\ accepted' = Append(accepted, [pos |-> m_iTail, msg |-> arg[p]])
  /\ Finish(p, "ok")
  /\ UNCHANGED <<m_iLen, m_iHead, m_iUsedNum, mem, locals>>

\* Mutant: a full ring, whose head and tail are equal, is taken for an empty one.
HasDataNoCount == m_iHead # m_iTail

HasData == m_iBlockNum > 0 \/ m_iHead # m_iTail

DequeueEmpty(p) ==
  /\ pc[p] = "get"
  /\ ~HasData
  /\ Finish(p, "empty")
  /\ UNCHANGED <<header, m_iUsedNum, mem, locals, accepted>>

(* Mutant: an early return for the small buffer keeps the lock. *)
DequeueSmallReturns(p) ==
  /\ pc[p] = "get"
  /\ HasData
  /\ IsHeader(m_iHead)
  /\ BufLen < ReadHeader(m_iHead).m_iDateLen
  /\ pc' = [pc EXCEPT ![p] = "idle"]
  /\ ret' = [ret EXCEPT ![p] = "small"]
  /\ UNCHANGED <<header, m_iUsedNum, mem, locals, accepted>>

\* ERR_SHM_QUEUE_BUF_SMALL: the block stays where it is.
DequeueSmall(p) ==
  /\ pc[p] = "get"
  /\ HasData
  /\ IsHeader(m_iHead)
  /\ BufLen < ReadHeader(m_iHead).m_iDateLen
  /\ Finish(p, "small")
  /\ UNCHANGED <<header, m_iUsedNum, mem, locals, accepted>>

(* Mutant: the length of the caller's buffer is not tested. *)
DequeueReadUnchecked(p) ==
  LET h == ReadHeader(m_iHead) IN
  /\ pc[p] = "get"
  /\ HasData
  /\ IsHeader(m_iHead)
  /\ h.m_iIndex = m_iHead
  /\ blockHeader' = [blockHeader EXCEPT ![p] = h]
  /\ out' = [out EXCEPT ![p] = ReadBody(m_iHead, h.m_iDateLen)]
  /\ ret' = [ret EXCEPT ![p] =
               IF ReadTail(m_iHead, h.m_iDateLen) = Flags THEN "ok" ELSE "tail"]
  /\ pc' = [pc EXCEPT ![p] = "read"]
  /\ UNCHANGED <<header, m_iUsedNum, mem, arg, accepted>>

\* Copies head, body and flags out of the ring.  In this specification the
\* head read is always the one written at m_iHead (DeliversOldest), so the
\* branches for a wrong m_iIndex or a negative length are never taken.
DequeueRead(p) ==
  LET h == ReadHeader(m_iHead) IN
  /\ pc[p] = "get"
  /\ HasData
  /\ IsHeader(m_iHead)
  /\ BufLen >= h.m_iDateLen
  /\ h.m_iIndex = m_iHead
  /\ blockHeader' = [blockHeader EXCEPT ![p] = h]
  /\ out' = [out EXCEPT ![p] = ReadBody(m_iHead, h.m_iDateLen)]
  /\ ret' = [ret EXCEPT ![p] =
               IF ReadTail(m_iHead, h.m_iDateLen) = Flags THEN "ok" ELSE "tail"]
  /\ pc' = [pc EXCEPT ![p] = "read"]
  /\ UNCHANGED <<header, m_iUsedNum, mem, arg, accepted>>

DequeueCommit(p) ==
  /\ pc[p] = "read"
  /\ m_iHead' = (m_iHead + HeadLen + blockHeader[p].m_iDateLen + TailLen) % m_iLen
  /\ m_iBlockNum' = m_iBlockNum - 1
  /\ accepted' = Tail(accepted)
  /\ pc' = [pc EXCEPT ![p] = "release"]
  /\ UNCHANGED <<m_iLen, m_iTail, m_iUsedNum, mem, locals, ret>>

EnqueueStep(p) == \/ EnqueueFull(p)
                  \/ EnqueueWrite(p)
                  \/ EnqueueCommit(p)

DequeueStep(p) == \/ DequeueEmpty(p)
                  \/ DequeueSmall(p)
                  \/ DequeueRead(p)
                  \/ DequeueCommit(p)

\* What p does inside a call, in program order.
Step(p) == Acquire(p) \/ EnqueueStep(p) \/ DequeueStep(p) \/ Release(p)

Next == \/ \E p \in Producers, m \in Msgs : CallEnqueue(p, m)
        \/ \E p \in Consumers : CallDequeue(p)
        \/ \E p \in Procs : Step(p)

Spec == Init /\ [][Next]_vars

\* A process inside a call runs on; nothing obliges it to make a call, and
\* weak fairness of the CAS does not promise that a given spinner wins.
FairSpec == Spec /\ \A p \in Procs : WF_vars(Step(p))
-----------------------------------------------------------------------------
(* Properties. *)

\* Values every variable stays within.
TypeOK ==
  /\ m_iLen = QueueLen
  /\ m_iHead \in 0 .. QueueLen - 1
  /\ m_iTail \in 0 .. QueueLen - 1
  /\ m_iBlockNum \in Nat
  /\ m_iUsedNum \in {0, 1}
  /\ DOMAIN mem = 0 .. QueueLen - 1
  /\ pc \in [Procs -> {"idle", "enqueue", "dequeue", "put", "get", "written",
                       "read", "release"}]
  /\ arg \in [Procs -> Msgs \cup {NoMsg}]
  /\ DOMAIN blockHeader = Procs
  /\ DOMAIN out = Procs
  /\ ret \in [Procs -> Results]
  /\ accepted \in Seq([pos : 0 .. QueueLen - 1, msg : Msgs])

Inside(p) == pc[p] \in {"put", "get", "written", "read", "release"}

\* m_iUsedNum grants exclusive use of the ring (shm_queue.cpp, "spin lock"):
\* two processes are never between their acquiring and releasing CAS.
MutualExclusion ==
  /\ \A p, q \in Procs : Inside(p) /\ Inside(q) => p = q
  /\ (\E p \in Procs : Inside(p)) <=> m_iUsedNum = 1

\* Distance from the head, going right and round the end of the ring.
Off(i) == IF i >= m_iHead THEN i - m_iHead ELSE i - m_iHead + m_iLen

\* The position n bytes after i.
Wrap(i, n) == IF i + n < m_iLen THEN i + n ELSE i + n - m_iLen

EndOf(b) == Off(b.pos) + BlockLen(b.msg)

\* The accepted blocks tile the ring from m_iHead to m_iTail, in order,
\* without gap or overlap, and m_iBlockNum counts them.  Head and tail are
\* equal both when the ring is empty and when it is exactly full.
Tiling ==
  LET n == Len(accepted) IN
  /\ m_iBlockNum = n
  /\ n = 0 => m_iHead = m_iTail
  /\ n > 0 => /\ accepted[1].pos = m_iHead
              /\ EndOf(accepted[n]) <= m_iLen
              /\ m_iTail = Wrap(m_iHead, EndOf(accepted[n]))
  /\ \A i \in 1 .. n - 1 : EndOf(accepted[i]) = Off(accepted[i + 1].pos)

\* Every byte of every accepted block is still in the ring: no Enqueue
\* overwrites a message that was not consumed, wherever the pieces wrap.
Contents ==
  \A i \in 1 .. Len(accepted) : \A k \in 0 .. BlockLen(accepted[i].msg) - 1 :
    mem[Wrap(accepted[i].pos, k)] = Block(accepted[i].pos, accepted[i].msg)[k]

RingOK == Tiling /\ Contents

\* What a dequeuer holds is the oldest accepted message, byte for byte, with
\* its flags intact: the recovery branches of Dequeue are never needed.
DeliversOldest ==
  \A p \in Procs : pc[p] = "read" =>
    /\ accepted # <<>>
    /\ out[p] = Body(accepted[1].msg)
    /\ ret[p] = "ok"

\* ERR_SHM_QUEUE_FULL and ERR_SHM_QUEUE_EMPTY are only returned when they are
\* true of the queue at that instant.
AnswersAreTrue ==
  [][\A p \in Procs :
       /\ pc[p] = "put" /\ pc'[p] = "release" =>
            Total([i \in 1 .. Len(accepted) |-> BlockLen(accepted[i].msg)])
              + BlockLen(arg[p]) > QueueLen
       /\ pc[p] = "get" /\ ret'[p] = "empty" /\ pc'[p] = "release" => accepted = <<>>]_vars

\* The lock is never kept: whoever took it gives it back.
LockReleased == \A p \in Procs : Inside(p) ~> ~Inside(p)

\* A free lock with spinners does not stay free: some CAS succeeds.
SpinnersProgress == (\E p \in Procs : pc[p] \in {"enqueue", "dequeue"})
                      ~> (\E p \in Procs : Inside(p))

\* What the ring holds for a caller: a message leaves the abstract queue when
\* its bytes have been copied out.
Copying == \E p \in Procs : pc[p] = "read"

InQueue == LET q == [i \in 1 .. Len(accepted) |-> accepted[i].msg]
           IN  IF Copying THEN Tail(q) ELSE q

\* The message the bytes of a buffer are.
Received(bytes) ==
  IF bytes = <<>> THEN NoMsg
  ELSE IF \E m \in Msgs : bytes = Body(m)
       THEN CHOOSE m \in Msgs : bytes = Body(m)
       ELSE bytes

Fifo == INSTANCE ByteFifo WITH
  Bytes    <- Size,
  Overhead <- HeadLen + TailLen,
  Capacity <- QueueLen,
  queue    <- InQueue,
  out      <- [p \in Procs |-> Received(out[p])]

\* The ring implements a FIFO whose capacity is counted in bytes, whatever
\* the calls interleave and however a block is split at the end of the ring.
ImplementsFifo == Fifo!Spec
=============================================================================
