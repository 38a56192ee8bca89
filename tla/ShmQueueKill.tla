---------------------------- MODULE ShmQueueKill ----------------------------
(***************************************************************************)
(* ShmQueue when mq_server_stop.sh kills a process in the middle of a call *)
(* and the process is started again.  The segment outlives its processes:  *)
(* ShmQueue::Init finds it (EEXIST), points m_pQueueHead at the header and *)
(* leaves every field, m_iUsedNum with them, as it is.                     *)
(***************************************************************************)
EXTENDS ShmQueue, TLC

CONSTANTS writer, reader, small, medium

MCSize == (small :> 1) @@ (medium :> 3)

\* Process p dies in a call; its successor attaches and makes its own calls.
Kill(p) ==
  /\ pc[p] # "idle"
  /\ pc' = [pc EXCEPT ![p] = "idle"]
  /\ arg' = [arg EXCEPT ![p] = NoMsg]
  /\ blockHeader' = [blockHeader EXCEPT ![p] = NoHeader]
  /\ out' = [out EXCEPT ![p] = <<>>]
  /\ ret' = [ret EXCEPT ![p] = "none"]
  /\ UNCHANGED <<header, m_iUsedNum, mem, accepted>>

KillNext == Next \/ \E p \in Procs : Kill(p)

KillSpec == Init /\ [][KillNext]_vars

\* README.md:59 and :162: a value other than 0 of the number of users means
\* that some other thread is operating on the queue, so waiting for it makes
\* sense ("otherwise another thread is operating, go on waiting").
UsedMeansOperating == m_iUsedNum = 1 => \E p \in Procs : Inside(p)
=============================================================================
