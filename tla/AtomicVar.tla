------------------------------ MODULE AtomicVar ------------------------------
(***************************************************************************)
(* AtomicVar and AtomicMultipleReadersVar of shared/atomic.h, called by    *)
(* several threads.  The two classes differ in read() only: class says     *)
(* which one this is.  A value has two halves, copied and assigned one     *)
(* after the other, as a value larger than a machine word is.              *)
(*                                                                         *)
(* A call is a list of steps, each atomic: sem_wait and sem_post, the      *)
(* copy or assignment of one half, a change of reader_count (which the     *)
(* reader_queue protects).  The program calls locked_read, locked_write    *)
(* and unlock only between lock and unlock, and nothing else there.        *)
(***************************************************************************)
EXTENDS Naturals, Sequences, FiniteSets

CONSTANTS Threads, Values, None,
          Initial,      \* the value the constructor is given
          MaxCalls      \* by class: calls in a behaviour, unlock not counted

\* None stands for "no thread"; the constructor is given a value of the type.
ASSUME NoneIsNoThread == None \notin Threads

ASSUME InitialIsValue == Initial \in Values

VARIABLES class,            \* the object's class, which stays what it is
          val,              \* the two halves
          writer_queue,     \* the semaphore (AtomicVar: semaphore)
          reader_queue,     \* the readers' semaphore
          reader_count,
          todo,             \* by thread: the steps left of its call
          call,             \* by thread: its call, [op, arg]
          copied,           \* by thread: copied_val
          holding,          \* by thread: between lock and unlock
          calls             \* calls made

vars == <<class, val, writer_queue, reader_queue, reader_count, todo, call, copied,
          holding, calls>>

Halves == 1 .. 2

Init ==
  /\ class \in {"AtomicVar", "AtomicMultipleReadersVar"}
  /\ val = [h \in Halves |-> Initial]
  /\ writer_queue = 1 /\ reader_queue = 1 /\ reader_count = 0
  /\ todo = [t \in Threads |-> << >>]
  /\ call = [t \in Threads |-> None]
  /\ copied = [t \in Threads |-> [h \in Halves |-> None]]
  /\ holding = [t \in Threads |-> FALSE]
  /\ calls = 0

-----------------------------------------------------------------------------
\* The steps of each member function, and what its caller gets at the end.
Copy == <<"copy1", "copy2">>

Assign == <<"assign1", "assign2">>

Exclusive(steps) == <<"wait">> \o steps \o <<"post">>

var_read == Exclusive(Copy)

\* Mutant: the first reader does not wait for the writers.
readers_read_bare == Copy

readers_read ==
  <<"wait_readers", "enter", "wait_writers", "post_readers">> \o Copy \o
  <<"wait_readers", "leave", "post_writers", "post_readers">>

read_and_replace == Exclusive(Copy \o Assign)

Steps(op) ==
  CASE op = "read"             -> IF class = "AtomicVar" THEN var_read
                                                         ELSE readers_read
    [] op = "write"            -> Exclusive(Assign)
    [] op = "read_and_replace" -> read_and_replace
    [] op = "lock"             -> <<"wait">>
    [] op = "unlock"           -> <<"post">>
    [] op = "locked_read"      -> Copy
    [] op = "locked_write"     -> Assign

(***************************************************************************)
(* The register these classes implement.  A call takes effect where its    *)
(* last half is copied or assigned, at the wait of lock and at the post of *)
(* unlock; half 2 is the one assigned last.                                *)
(***************************************************************************)
Left(t) == {todo[t][i] : i \in DOMAIN todo[t]}

EffectStep(op) ==
  CASE op \in {"read", "locked_read"} -> "copy2"
    [] op = "lock"                    -> "wait"
    [] op = "unlock"                  -> "post"
    [] OTHER                          -> "assign2"

Stage(t) == CASE todo[t] = << >>                    -> "idle"
              [] EffectStep(call[t].op) \in Left(t) -> "called"
              [] OTHER                              -> "done"

Result(t) ==
  IF Stage(t) # "done" \/ call[t].op \in {"write", "locked_write", "lock",
                                           "unlock"}
    THEN None
    ELSE IF copied[t][1] = copied[t][2] THEN copied[t][1] ELSE copied[t]

Abstract == INSTANCE Register WITH
  val    <- val[2],
  holder <- IF \E t \in Threads : holding[t]
              THEN CHOOSE t \in Threads : holding[t] ELSE None,
  stage  <- [t \in Threads |-> Stage(t)],
  result <- [t \in Threads |-> Result(t)]

-----------------------------------------------------------------------------
Call(t, c) ==
  /\ todo[t] = << >>
  /\ c.op \in Abstract!Locked <=> holding[t]
  /\ c.op = "unlock" \/ calls < MaxCalls[class]
  /\ calls' = IF c.op = "unlock" THEN calls ELSE calls + 1
  /\ call' = [call EXCEPT ![t] = c]
  /\ todo' = [todo EXCEPT ![t] = Steps(c.op) \o <<"return">>]
  /\ UNCHANGED <<class, val, writer_queue, reader_queue, reader_count, copied,
                 holding>>

At(t, step) ==
  /\ todo[t] # << >>
  /\ Head(todo[t]) = step
  /\ todo' = [todo EXCEPT ![t] = Tail(@)]
  /\ UNCHANGED <<class, call, calls>>

\* sem_wait and sem_post of AtomicVar's semaphore, or of the writer_queue.
Wait(t) ==
  /\ At(t, "wait")
  /\ writer_queue > 0
  /\ writer_queue' = writer_queue - 1
  /\ holding' = [holding EXCEPT ![t] = (call[t].op = "lock")]
  /\ UNCHANGED <<val, reader_queue, reader_count, copied>>

Post(t) ==
  /\ At(t, "post")
  /\ writer_queue' = writer_queue + 1
  /\ holding' = [holding EXCEPT ![t] = FALSE]
  /\ UNCHANGED <<val, reader_queue, reader_count, copied>>

Half(t, h, copy, assign) ==
  /\ \/ /\ At(t, copy)
        /\ copied' = [copied EXCEPT ![t][h] = val[h]]
        /\ UNCHANGED val
     \/ /\ At(t, assign)
        /\ val' = [val EXCEPT ![h] = call[t].arg]
        /\ UNCHANGED copied
  /\ UNCHANGED <<writer_queue, reader_queue, reader_count, holding>>

\* What the readers do under the reader_queue.
ReaderQueue(t) ==
  /\ \/ At(t, "wait_readers") /\ reader_queue > 0 /\ reader_queue' = reader_queue - 1
     \/ At(t, "post_readers") /\ reader_queue' = reader_queue + 1
  /\ UNCHANGED <<val, writer_queue, reader_count, copied, holding>>

ReaderCount(t) ==
  /\ \/ At(t, "enter") /\ reader_count' = reader_count + 1
     \/ At(t, "leave") /\ reader_count' = reader_count - 1
  /\ UNCHANGED <<val, writer_queue, reader_queue, copied, holding>>

\* Mutant: every reader waits for the writers, and holds up the next one.
FirstReader_every(t) ==
  /\ At(t, "wait_writers")
  /\ writer_queue > 0 /\ writer_queue' = writer_queue - 1
  /\ UNCHANGED <<val, reader_queue, reader_count, copied, holding>>

FirstReader(t) ==
  /\ At(t, "wait_writers")
  /\ IF reader_count = 1
       THEN writer_queue > 0 /\ writer_queue' = writer_queue - 1
       ELSE UNCHANGED writer_queue
  /\ UNCHANGED <<val, reader_queue, reader_count, copied, holding>>

LastReader(t) ==
  /\ At(t, "post_writers")
  /\ writer_queue' = IF reader_count = 0 THEN writer_queue + 1 ELSE writer_queue
  /\ UNCHANGED <<val, reader_queue, reader_count, copied, holding>>

Return(t) ==
  /\ todo[t] = <<"return">>
  /\ todo' = [todo EXCEPT ![t] = << >>]
  /\ call' = [call EXCEPT ![t] = None]
  /\ copied' = [copied EXCEPT ![t] = [h \in Halves |-> None]]
  /\ UNCHANGED <<class, val, writer_queue, reader_queue, reader_count, holding,
                 calls>>

Step(t) ==
  \/ Wait(t)
  \/ Half(t, 1, "copy1", "assign1")
  \/ Half(t, 2, "copy2", "assign2")
  \/ Post(t)
  \/ ReaderQueue(t)
  \/ ReaderCount(t)
  \/ FirstReader(t)
  \/ LastReader(t)
  \/ Return(t)

Unlock(t) == Call(t, [op |-> "unlock", arg |-> None])

Next == \E t \in Threads : (\E c \in Abstract!Calls : Call(t, c)) \/ Step(t)

Spec == Init /\ [][Next]_vars
-----------------------------------------------------------------------------
(***************************************************************************)
(* Each call of either class takes effect at once and whole: no copy mixes *)
(* the halves of two values, no write is lost, and nothing comes between   *)
(* the locked_read and the locked_write of a thread that holds the lock.   *)
(***************************************************************************)
ImplementsRegister == Abstract!Spec
=============================================================================
