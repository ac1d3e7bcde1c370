------------------------------ MODULE MCAtomics ------------------------------
(***************************************************************************)
(* The three classes of shared/atomic.h for TLC.  A behaviour is about one *)
(* object: a variable of either class, or a queue.                         *)
(***************************************************************************)
EXTENDS AtomicVar, AtomicVecQueue

\* A locked section with a read and a write, and another thread's call; two
\* readers and a writer.
MCMaxCalls == [AtomicVar |-> 4, AtomicMultipleReadersVar |-> 3]

MCInit == Init /\ QueueInit

MCNext ==
  \/ Next /\ queue_calls = 0 /\ UNCHANGED queue_vars
  \/ QueueNext /\ calls = 0 /\ class = "AtomicVar" /\ UNCHANGED vars

\* Threads are scheduled, and one that holds the lock gives it back.
MCSpec ==
  /\ MCInit /\ [][MCNext]_<<vars, queue_vars>>
  /\ \A t \in Threads : /\ WF_vars(Step(t) /\ UNCHANGED queue_vars)
                        /\ WF_vars(Unlock(t) /\ UNCHANGED queue_vars)
  /\ \A t \in QueueThreads : WF_queue_vars(QueueStep(t) /\ UNCHANGED vars)

\* Every call on a variable or a queue returns: no thread waits for ever on a
\* semaphore that is not given back, nor two for each other on the readers'
\* and the writers'.
CallsReturn ==
  /\ \A t \in Threads : todo[t] # << >> ~> todo[t] = << >>
  /\ \A t \in QueueThreads : queue_todo[t] # << >> ~> queue_todo[t] = << >>
=============================================================================
