----------------------------- MODULE ShmStartup -----------------------------
(***************************************************************************)
(* ShmQueue while its segment is being created.  mq_server_start.sh starts *)
(* the daemons one after the other without waiting for them; the first     *)
(* ShmQueue::Init to call shmget creates the segment and then clears it    *)
(* and fills the header in, while a second process that finds the segment  *)
(* (EEXIST) attaches and uses it at once.  Nothing tells the second        *)
(* process that the header is ready.                                       *)
(***************************************************************************)
EXTENDS ShmQueue, TLC

CONSTANTS creator,  \* the process whose shmget created the segment
          attacher, \* the process that found it
          small

MCSize == (small :> 1)

VARIABLE initStep   \* next statement of the creator's Init

\* The creator's Init, from shmget's return to its own.
InitSteps == <<"memset", "m_iBlockNum", "m_iLen", "m_iHead", "m_iTail",
               "m_iUsedNum", "done">>

NextInitStep == CHOOSE i \in DOMAIN InitSteps : InitSteps[i] = initStep

\* shmget gives the creator a segment of zeros.
StartInit ==
  /\ m_iLen = 0
  /\ m_iHead = 0
  /\ m_iTail = 0
  /\ m_iBlockNum = 0
  /\ m_iUsedNum = 0
  /\ mem = [i \in 0 .. QueueLen - 1 |-> ZeroCell]
  /\ pc = [p \in Procs |-> "idle"]
  /\ arg = [p \in Procs |-> NoMsg]
  /\ blockHeader = [p \in Procs |-> NoHeader]
  /\ out = [p \in Procs |-> <<>>]
  /\ ret = [p \in Procs |-> "none"]
  /\ accepted = <<>>
  /\ initStep = "memset"

\* One statement of the creator: memset clears the segment, each of the
\* others stores one field of the header.
CreatorInit ==
  /\ initStep # "done"
  /\ initStep' = InitSteps[NextInitStep + 1]
  /\ LET clears(f) == initStep \in {"memset", f} IN
     /\ m_iLen' = IF initStep = "memset" THEN 0
                  ELSE IF initStep = "m_iLen" THEN QueueLen
                  ELSE m_iLen
     /\ m_iBlockNum' = IF clears("m_iBlockNum") THEN 0 ELSE m_iBlockNum
     /\ m_iHead' = IF clears("m_iHead") THEN 0 ELSE m_iHead
     /\ m_iTail' = IF clears("m_iTail") THEN 0 ELSE m_iTail
     /\ m_iUsedNum' = IF clears("m_iUsedNum") THEN 0 ELSE m_iUsedNum
     /\ mem' = IF initStep = "memset"
               THEN [i \in 0 .. QueueLen - 1 |-> ZeroCell]
               ELSE mem
  /\ UNCHANGED <<pc, locals, ret, accepted>>

\* A process uses the queue once its own Init has returned.
Ready(p) == p # creator \/ initStep = "done"

UseQueue ==
  /\ \/ \E p \in Producers, m \in Msgs : Ready(p) /\ CallEnqueue(p, m)
     \/ \E p \in Consumers : Ready(p) /\ CallDequeue(p)
     \/ \E p \in Procs : Step(p)
  /\ UNCHANGED initStep

StartNext == CreatorInit \/ UseQueue

StartSpec == StartInit /\ [][StartNext]_<<vars, initStep>>

\* shm_queue.cpp:119, on Enqueue: the spin lock made with CAS guarantees that
\* operations are atomic when several threads use the queue.
OperationsExclude == \A p, q \in Procs : Inside(p) /\ Inside(q) => p = q
=============================================================================
