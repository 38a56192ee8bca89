------------------------------ MODULE ByteFifo ------------------------------
(***************************************************************************)
(* What a shared-memory queue of the broker promises its two ends: a FIFO  *)
(* of whole messages whose capacity is counted in bytes, each message      *)
(* paying for its block head and tail flags.  A call of a process has one  *)
(* atomic effect and the answer it gives is right at that instant: "full"  *)
(* only when the block does not fit, "empty" only when there is no         *)
(* message, "small" only when the oldest message is longer than the        *)
(* caller's buffer.                                                        *)
(***************************************************************************)
EXTENDS Integers, Sequences, SeqOps

CONSTANTS Procs,      \* the processes that share the queue
          Msgs,       \* the messages that travel through it
          Bytes,      \* [Msgs -> Nat \ {0}]: bytes of a message's body
          Overhead,   \* bytes of block head and tail flags
          Capacity,   \* bytes of the queue
          BufLen,     \* bytes of the buffer a dequeuer passes
          NoMsg       \* "no message handed over yet"

VARIABLES queue,      \* the messages in the queue, oldest first
          out         \* out[p]: the last message handed to process p

fifoVars == <<queue, out>>

UsedBytes == Total([i \in 1 .. Len(queue) |-> Bytes[queue[i]] + Overhead])

Fits(m) == UsedBytes + Bytes[m] + Overhead <= Capacity

Init == /\ queue = <<>>
        /\ out = [p \in Procs |-> NoMsg]

Put(m) == /\ Fits(m)
          /\ queue' = Append(queue, m)
          /\ UNCHANGED out

Get(p) == /\ queue # <<>>
          /\ Bytes[Head(queue)] <= BufLen
          /\ out' = [out EXCEPT ![p] = Head(queue)]
          /\ queue' = Tail(queue)

Next == \/ \E m \in Msgs : Put(m)
        \/ \E p \in Procs : Get(p)

Spec == Init /\ [][Next]_fifoVars
=============================================================================
