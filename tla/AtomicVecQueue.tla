--------------------------- MODULE AtomicVecQueue ---------------------------
(***************************************************************************)
(* AtomicVecQueue of shared/atomic.h, called by several threads.  A        *)
(* push_back and an insert read the vector and then change it; drain       *)
(* copies the vector and then clears it.  A call is a list of atomic       *)
(* steps.                                                                  *)
(***************************************************************************)
EXTENDS Naturals, Sequences

CONSTANTS QueueThreads,
          MaxQueueCalls, \* calls in a behaviour
          MaxExtend      \* elements of one extend

VARIABLES vec_queue,
          semaphore,
          queue_todo,   \* by thread: the steps left of its call
          new_vals,     \* by thread: the argument of push or extend
          local,        \* by thread: the vector as its call has read it
          queue_calls,  \* calls made; their elements are numbered
          pushed,       \* history: the elements in the order of their pushes
          drained       \* history: the elements in the order of the drains

queue_vars == <<vec_queue, semaphore, queue_todo, new_vals, local, queue_calls,
                pushed, drained>>

QueueInit ==
  /\ vec_queue = << >>
  /\ semaphore = 1
  /\ queue_todo = [t \in QueueThreads |-> << >>]
  /\ new_vals = [t \in QueueThreads |-> << >>]
  /\ local = [t \in QueueThreads |-> << >>]
  /\ queue_calls = 0
  /\ pushed = << >>
  /\ drained = << >>

QueueCall(t, steps, vals) ==
  /\ queue_todo[t] = << >>
  /\ queue_calls < MaxQueueCalls
  /\ queue_calls' = queue_calls + 1
  /\ queue_todo' = [queue_todo EXCEPT ![t] = steps]
  /\ new_vals' = [new_vals EXCEPT ![t] = vals]
  /\ UNCHANGED <<vec_queue, semaphore, local, pushed, drained>>

push(t) ==
  QueueCall(t, <<"wait", "load", "store", "post">>, <<<<queue_calls, 1>>>>)

extend(t) ==
  \E n \in 0 .. MaxExtend :
    QueueCall(t, <<"wait", "load", "store", "post">>,
              [k \in 1 .. n |-> <<queue_calls, k>>])

\* Mutant: the semaphore is given back after the copy, before the clear.
drain_early_post(t) == QueueCall(t, <<"wait", "load", "post", "clear">>, << >>)

drain(t) == QueueCall(t, <<"wait", "load", "clear", "post">>, << >>)

-----------------------------------------------------------------------------
QueueAt(t, step) ==
  /\ queue_todo[t] # << >>
  /\ Head(queue_todo[t]) = step
  /\ queue_todo' = [queue_todo EXCEPT ![t] = Tail(@)]
  /\ UNCHANGED <<new_vals, queue_calls>>

Semaphore(t) ==
  /\ \/ QueueAt(t, "wait") /\ semaphore > 0 /\ semaphore' = semaphore - 1
     \/ QueueAt(t, "post") /\ semaphore' = semaphore + 1
  /\ UNCHANGED <<vec_queue, local, pushed, drained>>

Load(t) ==
  /\ QueueAt(t, "load")
  /\ local' = [local EXCEPT ![t] = vec_queue]
  /\ UNCHANGED <<vec_queue, semaphore, pushed, drained>>

Store(t) ==
  /\ QueueAt(t, "store")
  /\ vec_queue' = local[t] \o new_vals[t]
  /\ pushed' = pushed \o new_vals[t]
  /\ UNCHANGED <<semaphore, local, drained>>

Clear(t) ==
  /\ QueueAt(t, "clear")
  /\ vec_queue' = << >>
  /\ drained' = drained \o local[t]
  /\ UNCHANGED <<semaphore, local, pushed>>

QueueStep(t) == Semaphore(t) \/ Load(t) \/ Store(t) \/ Clear(t)

QueueNext == \E t \in QueueThreads : push(t) \/ extend(t) \/ drain(t) \/ QueueStep(t)

QueueSpec == QueueInit /\ [][QueueNext]_queue_vars
-----------------------------------------------------------------------------
\* Drains hand out what was pushed, each element once and in the order of
\* the pushes, whichever threads push and drain.
DrainsInPushOrder == drained \o vec_queue = pushed
=============================================================================
