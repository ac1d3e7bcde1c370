--------------------------- MODULE AtomicsProofs ----------------------------
(***************************************************************************)
(* Proofs about the three classes of shared/atomic.h, for any threads,     *)
(* values and number of calls.  AtomicVecQueue: the semaphore keeps the    *)
(* calls apart, and so what is drained is what was pushed, in order.       *)
(* AtomicVar and AtomicMultipleReadersVar: who assigns has the value       *)
(* alone, who copies shares it with readers only, and so each call takes   *)
(* effect at once and whole: both implement Register.                      *)
(***************************************************************************)
EXTENDS AtomicVar, AtomicVecQueue, SequenceTheorems, FiniteSetTheorems, TLAPS

-----------------------------------------------------------------------------
(***************************************************************************)
(* AtomicVecQueue.                                                         *)
(***************************************************************************)
Element == Nat \X Nat

\* How far a push or an extend, and a drain, can be.
QueuePoints ==
  {<< >>, <<"post">>,
   <<"store", "post">>, <<"load", "store", "post">>,
   <<"wait", "load", "store", "post">>,
   <<"clear", "post">>, <<"load", "clear", "post">>,
   <<"wait", "load", "clear", "post">>}

QueueTypes ==
  /\ vec_queue \in Seq(Element)
  /\ pushed \in Seq(Element) /\ drained \in Seq(Element)
  /\ queue_todo \in [QueueThreads -> QueuePoints]
  /\ new_vals \in [QueueThreads -> Seq(Element)]
  /\ local \in [QueueThreads -> Seq(Element)]
  /\ queue_calls \in Nat

\* Between its sem_wait and its sem_post.
QueueInside(t) == queue_todo[t] # << >> /\ Head(queue_todo[t]) # "wait"

\* The semaphore is 1, and nobody is inside, or 0, and one thread is.
QueueExclusion ==
  \/ semaphore = 1 /\ \A t \in QueueThreads : ~QueueInside(t)
  \/ /\ semaphore = 0
     /\ \E t \in QueueThreads : \A u \in QueueThreads : QueueInside(u) <=> u = t

\* What a call has read of the vector is what the vector still is.
ReadIsCurrent ==
  \A t \in QueueThreads :
    queue_todo[t] \in {<<"store", "post">>, <<"clear", "post">>} =>
      local[t] = vec_queue

QueueInv == QueueTypes /\ QueueExclusion /\ ReadIsCurrent /\ DrainsInPushOrder

-----------------------------------------------------------------------------
\* A call begins outside, and changes nothing but what its thread has to do.
LEMMA QueueCallStep ==
  ASSUME QueueInv, NEW t \in QueueThreads, NEW vals \in Seq(Element),
         NEW steps \in {<<"wait", "load", "store", "post">>,
                        <<"wait", "load", "clear", "post">>},
         QueueCall(t, steps, vals)
  PROVE  QueueInv'
<1>1. Head(steps) = "wait" /\ steps # << >>
  OBVIOUS
<1>2. QueueTypes'
  BY DEF QueueCall, QueueInv, QueueTypes, QueuePoints
<1>3. \A u \in QueueThreads : QueueInside(u)' <=> QueueInside(u)
  BY <1>1 DEF QueueCall, QueueInv, QueueTypes, QueueInside
<1>4. QueueExclusion'
  BY <1>3 DEF QueueCall, QueueInv, QueueExclusion
<1>5. ReadIsCurrent'
  BY <1>1 DEF QueueCall, QueueInv, QueueTypes, ReadIsCurrent
<1>6. QED
  BY <1>2, <1>4, <1>5 DEF QueueCall, QueueInv, DrainsInPushOrder

\* The heads of what is left of a call once it is inside.
LEMMA QueueHeads ==
  \A x \in {"store", "clear"} :
    /\ Head(<<"load", x, "post">>) = "load" /\ <<"load", x, "post">> # << >>
    /\ Head(<<x, "post">>) = x /\ <<x, "post">> # << >>
    /\ Head(<<"post">>) = "post" /\ <<"post">> # << >>
    /\ <<"post">> # <<x, "post">>
OBVIOUS

\* The steps left after each step of a call.
LEMMA QueueStepsLeft ==
  ASSUME QueueInv, NEW t \in QueueThreads, NEW step, QueueAt(t, step)
  PROVE  /\ queue_todo[t] # << >> /\ Head(queue_todo[t]) = step
         /\ queue_todo' = [queue_todo EXCEPT ![t] = Tail(queue_todo[t])]
         /\ Tail(queue_todo[t]) \in QueuePoints
         /\ step = "load" =>
              Tail(queue_todo[t]) \in {<<"store", "post">>, <<"clear", "post">>}
         /\ step \in {"store", "clear"} =>
              /\ queue_todo[t] = <<step, "post">>
              /\ Tail(queue_todo[t]) = <<"post">>
         /\ step = "post" => Tail(queue_todo[t]) = << >>
         /\ step = "wait" =>
              Tail(queue_todo[t]) \in {<<"load", "store", "post">>,
                                       <<"load", "clear", "post">>}
<1>1. /\ queue_todo[t] \in QueuePoints
      /\ queue_todo[t] # << >> /\ Head(queue_todo[t]) = step
      /\ queue_todo' = [queue_todo EXCEPT ![t] = Tail(queue_todo[t])]
  BY DEF QueueInv, QueueTypes, QueueAt
<1>2. /\ Head(<<"post">>) = "post" /\ Tail(<<"post">>) = << >>
      /\ \A x \in {"store", "clear"} :
           /\ Head(<<x, "post">>) = x
           /\ Tail(<<x, "post">>) = <<"post">>
           /\ Head(<<"load", x, "post">>) = "load"
           /\ Tail(<<"load", x, "post">>) = <<x, "post">>
           /\ Head(<<"wait", "load", x, "post">>) = "wait"
           /\ Tail(<<"wait", "load", x, "post">>) = <<"load", x, "post">>
  OBVIOUS
<1>3. CASE queue_todo[t] = <<"post">>
  BY <1>1, <1>2, <1>3 DEF QueuePoints
<1>4. ASSUME NEW x \in {"store", "clear"},
             queue_todo[t] \in {<<x, "post">>, <<"load", x, "post">>,
                                <<"wait", "load", x, "post">>}
      PROVE  /\ Tail(queue_todo[t]) \in QueuePoints
             /\ step = "load" => Tail(queue_todo[t]) = <<x, "post">>
             /\ step \in {"store", "clear"} =>
                  /\ queue_todo[t] = <<step, "post">>
                  /\ Tail(queue_todo[t]) = <<"post">>
             /\ step # "post"
             /\ step = "wait" => Tail(queue_todo[t]) = <<"load", x, "post">>
  BY <1>1, <1>2, <1>4 DEF QueuePoints
<1>5. queue_todo[t] = <<"post">> \/
        \E x \in {"store", "clear"} :
          queue_todo[t] \in {<<x, "post">>, <<"load", x, "post">>,
                             <<"wait", "load", x, "post">>}
  BY <1>1 DEF QueuePoints
<1>6. QED
  BY <1>1, <1>3, <1>4, <1>5

-----------------------------------------------------------------------------
\* A thread that has the semaphore is alone.
LEMMA QueueInsideAlone ==
  ASSUME QueueInv, NEW t \in QueueThreads, QueueInside(t)
  PROVE  semaphore = 0 /\ \A u \in QueueThreads : QueueInside(u) <=> u = t
BY DEF QueueInv, QueueExclusion

\* The two operations of the semaphore.
LEMMA QueueSemaphoreStep ==
  ASSUME QueueInv, NEW t \in QueueThreads, Semaphore(t)
  PROVE  QueueInv'
<1>1. CASE QueueAt(t, "wait") /\ semaphore > 0 /\ semaphore' = semaphore - 1
  <2>1. /\ queue_todo' = [queue_todo EXCEPT ![t] = Tail(queue_todo[t])]
        /\ Tail(queue_todo[t]) \in {<<"load", "store", "post">>,
                              <<"load", "clear", "post">>}
    BY <1>1, QueueStepsLeft
  <2>2. semaphore = 1 /\ \A u \in QueueThreads : ~QueueInside(u)
    BY <1>1 DEF QueueInv, QueueExclusion
  <2>3. QueueTypes'
    BY <1>1, <2>1 DEF Semaphore, QueueAt, QueueInv, QueueTypes, QueuePoints
  <2>4. \A u \in QueueThreads : QueueInside(u)' <=> u = t
    BY <2>1, <2>2, QueueHeads DEF QueueInside, QueueInv, QueueTypes
  <2>5. QueueExclusion'
    BY <1>1, <2>2, <2>4 DEF QueueExclusion
  <2>6. ReadIsCurrent'
    BY <2>1 DEF Semaphore, QueueInv, QueueTypes, ReadIsCurrent
  <2>7. QED
    BY <2>3, <2>5, <2>6 DEF Semaphore, QueueInv, DrainsInPushOrder
<1>2. CASE QueueAt(t, "post") /\ semaphore' = semaphore + 1
  <2>1. /\ queue_todo[t] # << >> /\ Head(queue_todo[t]) = "post"
        /\ queue_todo' = [queue_todo EXCEPT ![t] = << >>]
    BY <1>2, QueueStepsLeft
  <2>2. semaphore = 0 /\ \A u \in QueueThreads : QueueInside(u) <=> u = t
    BY <2>1, QueueInsideAlone DEF QueueInside
  <2>3. QueueTypes'
    BY <1>2, <2>1 DEF Semaphore, QueueAt, QueueInv, QueueTypes, QueuePoints
  <2>4. \A u \in QueueThreads : ~QueueInside(u)'
    BY <2>1, <2>2 DEF QueueInside, QueueInv, QueueTypes
  <2>5. QueueExclusion'
    BY <1>2, <2>2, <2>4 DEF QueueExclusion
  <2>6. ReadIsCurrent'
    BY <2>1 DEF Semaphore, QueueInv, QueueTypes, ReadIsCurrent
  <2>7. QED
    BY <2>3, <2>5, <2>6 DEF Semaphore, QueueInv, DrainsInPushOrder
<1>3. QED
  BY <1>1, <1>2 DEF Semaphore

\* A step between the two neither enters nor leaves.
LEMMA QueueInsideStep ==
  ASSUME QueueInv, NEW t \in QueueThreads, NEW step \in {"load", "store", "clear"},
         QueueAt(t, step), UNCHANGED semaphore
  PROVE  /\ QueueExclusion'
         /\ \A u \in QueueThreads : QueueInside(u) <=> u = t
         /\ \A u \in QueueThreads : u # t => ~QueueInside(u)'
<1>1. /\ queue_todo[t] # << >> /\ Head(queue_todo[t]) = step
      /\ queue_todo' = [queue_todo EXCEPT ![t] = Tail(queue_todo[t])]
      /\ Tail(queue_todo[t]) \in {<<"store", "post">>, <<"clear", "post">>, <<"post">>}
  BY QueueStepsLeft
<1>2. semaphore = 0 /\ \A u \in QueueThreads : QueueInside(u) <=> u = t
  BY <1>1, QueueInsideAlone DEF QueueInside
<1>3. \A u \in QueueThreads : QueueInside(u)' <=> QueueInside(u)
  BY <1>1, <1>2, QueueHeads DEF QueueInside, QueueInv, QueueTypes
<1>4. QED
  BY <1>2, <1>3 DEF QueueExclusion

\* Concatenation is associative.
LEMMA Regrouped ==
  ASSUME NEW a \in Seq(Element), NEW b \in Seq(Element), NEW c \in Seq(Element)
  PROVE  a \o (b \o c) = (a \o b) \o c
<1>1. (a \o b) \o c = a \o (b \o c)
  BY ConcatAssociative
<1>2. QED
  BY <1>1

\* The copy and the two changes of the vector.
LEMMA QueueVectorStep ==
  ASSUME QueueInv, NEW t \in QueueThreads, Load(t) \/ Store(t) \/ Clear(t)
  PROVE  QueueInv'
<1>1. CASE Load(t)
  <2>1. QueueAt(t, "load") /\ UNCHANGED <<vec_queue, semaphore, pushed, drained>>
    BY <1>1 DEF Load
  <2>2. /\ QueueExclusion'
        /\ \A u \in QueueThreads : u # t => ~QueueInside(u)'
    BY <2>1, QueueInsideStep
  <2>3. QueueTypes'
    BY <1>1, <2>1, QueueStepsLeft DEF Load, QueueAt, QueueInv, QueueTypes
  <2>4. ReadIsCurrent'
    <3>1. SUFFICES ASSUME NEW u \in QueueThreads,
                          queue_todo'[u] \in {<<"store", "post">>, <<"clear", "post">>}
                   PROVE  local'[u] = vec_queue'
      BY DEF ReadIsCurrent
    <3>2. QueueInside(u)'
      BY <3>1, QueueHeads DEF QueueInside
    <3>3. u = t
      BY <2>2, <3>2
    <3>4. QED
      BY <1>1, <3>3 DEF Load, QueueInv, QueueTypes
  <2>5. QED
    BY <2>1, <2>2, <2>3, <2>4 DEF QueueInv, DrainsInPushOrder
<1>2. CASE Store(t)
  <2>1. /\ QueueAt(t, "store") /\ UNCHANGED <<semaphore, local, drained>>
        /\ vec_queue' = local[t] \o new_vals[t] /\ pushed' = pushed \o new_vals[t]
        /\ UNCHANGED new_vals
    BY <1>2 DEF Store, QueueAt
  <2>2. /\ QueueExclusion'
        /\ \A u \in QueueThreads : u # t => ~QueueInside(u)'
    BY <2>1, QueueInsideStep
  <2>3. /\ queue_todo' = [queue_todo EXCEPT ![t] = <<"post">>]
        /\ local[t] = vec_queue
    BY <2>1, QueueStepsLeft DEF QueueInv, ReadIsCurrent
  <2>4. QueueTypes'
    <3>1. <<"post">> \in QueuePoints
      BY DEF QueuePoints
    <3>2. /\ vec_queue' \in Seq(Element)
          /\ pushed' \in Seq(Element) /\ drained' \in Seq(Element)
      BY <2>1 DEF QueueInv, QueueTypes
    <3>3. QED
      BY <2>1, <2>3, <3>1, <3>2 DEF QueueAt, QueueInv, QueueTypes
  <2>5. ReadIsCurrent'
    BY <2>2, <2>3, QueueHeads DEF ReadIsCurrent, QueueInside, QueueInv,
      QueueTypes
  <2>6. drained \o (vec_queue \o new_vals[t]) =
          (drained \o vec_queue) \o new_vals[t]
    <3>1. /\ drained \in Seq(Element) /\ vec_queue \in Seq(Element)
          /\ new_vals[t] \in Seq(Element)
      BY DEF QueueInv, QueueTypes
    <3>2. QED
      BY <3>1, Regrouped, Zenon
  <2>7. DrainsInPushOrder'
    BY <2>1, <2>3, <2>6 DEF QueueInv, DrainsInPushOrder
  <2>8. QED
    BY <2>2, <2>4, <2>5, <2>7 DEF QueueInv
<1>3. CASE Clear(t)
  <2>1. /\ QueueAt(t, "clear") /\ UNCHANGED <<semaphore, local, pushed>>
        /\ vec_queue' = << >> /\ drained' = drained \o local[t]
        /\ UNCHANGED new_vals
    BY <1>3 DEF Clear, QueueAt
  <2>2. /\ QueueExclusion'
        /\ \A u \in QueueThreads : u # t => ~QueueInside(u)'
    BY <2>1, QueueInsideStep
  <2>3. /\ queue_todo' = [queue_todo EXCEPT ![t] = <<"post">>]
        /\ local[t] = vec_queue
    BY <2>1, QueueStepsLeft DEF QueueInv, ReadIsCurrent
  <2>4. QueueTypes'
    <3>1. <<"post">> \in QueuePoints
      BY DEF QueuePoints
    <3>2. /\ vec_queue' \in Seq(Element)
          /\ pushed' \in Seq(Element) /\ drained' \in Seq(Element)
      BY <2>1 DEF QueueInv, QueueTypes
    <3>3. QED
      BY <2>1, <2>3, <3>1, <3>2 DEF QueueAt, QueueInv, QueueTypes
  <2>5. ReadIsCurrent'
    BY <2>2, <2>3, QueueHeads DEF ReadIsCurrent, QueueInside, QueueInv,
      QueueTypes
  <2>6. (drained \o vec_queue) \o << >> = drained \o vec_queue
    BY DEF QueueInv, QueueTypes
  <2>7. DrainsInPushOrder'
    BY <2>1, <2>3, <2>6 DEF QueueInv, DrainsInPushOrder
  <2>8. QED
    BY <2>2, <2>4, <2>5, <2>7 DEF QueueInv
<1>4. QED
  BY <1>1, <1>2, <1>3

-----------------------------------------------------------------------------
(***************************************************************************)
(* Whatever threads call push, extend and drain, and however their calls   *)
(* interleave, each element is drained once and in the order of the        *)
(* pushes: semaphore_wait and semaphore_post of shared/atomic.h enclose    *)
(* every read and change of the vector.                                    *)
(***************************************************************************)
THEOREM AlwaysDrainsInPushOrder == QueueSpec => []DrainsInPushOrder
<1>1. QueueInit => QueueInv
  BY DEF QueueInit, QueueInv, QueueTypes, QueuePoints, QueueExclusion,
    QueueInside, ReadIsCurrent,
    DrainsInPushOrder
<1>2. ASSUME QueueInv, [QueueNext]_queue_vars PROVE QueueInv'
  <2>1. ASSUME NEW t \in QueueThreads, push(t) PROVE QueueInv'
    <3>1. <<<<queue_calls, 1>>>> \in Seq(Element)
      BY <1>2 DEF QueueInv, QueueTypes, Element
    <3>2. QED
      BY <1>2, <2>1, <3>1, QueueCallStep DEF push
  <2>2. ASSUME NEW t \in QueueThreads, extend(t) PROVE QueueInv'
    <3>1. PICK n \in 0 .. MaxExtend :
            QueueCall(t, <<"wait", "load", "store", "post">>,
                 [k \in 1 .. n |-> <<queue_calls, k>>])
      BY <2>2 DEF extend
    <3>2. [k \in 1 .. n |-> <<queue_calls, k>>] \in Seq(Element)
      <4>1. \A k \in 1 .. n : <<queue_calls, k>> \in Element
        BY <1>2 DEF QueueInv, QueueTypes, Element
      <4>2. n \in Nat
        OBVIOUS
      <4>3. [k \in 1 .. n |-> <<queue_calls, k>>] \in [1 .. n -> Element]
        BY <4>1
      <4>4. QED
        BY <4>2, <4>3
    <3>3. QED
      BY <1>2, <3>1, <3>2, QueueCallStep
  <2>3. ASSUME NEW t \in QueueThreads, drain(t) PROVE QueueInv'
    <3>1. << >> \in Seq(Element)
      OBVIOUS
    <3>2. QED
      BY <1>2, <2>3, <3>1, QueueCallStep DEF drain
  <2>4. ASSUME NEW t \in QueueThreads, QueueStep(t) PROVE QueueInv'
    BY <1>2, <2>4, QueueSemaphoreStep, QueueVectorStep DEF QueueStep
  <2>5. CASE UNCHANGED queue_vars
    BY <1>2, <2>5 DEF queue_vars, QueueInv, QueueTypes, QueueExclusion,
      QueueInside, ReadIsCurrent,
      DrainsInPushOrder
  <2>6. QED
    BY <1>2, <2>1, <2>2, <2>3, <2>4, <2>5 DEF QueueNext
<1>3. QueueInv => DrainsInPushOrder
  BY DEF QueueInv
<1>4. QED
  BY <1>1, <1>2, <1>3, PTL DEF QueueSpec

-----------------------------------------------------------------------------
(***************************************************************************)
(* AtomicVar and AtomicMultipleReadersVar: the points a call can be at, by *)
(* the steps that are left of it.                                          *)
(***************************************************************************)
pReturn == <<"return">>

pPost == <<"post", "return">>

\* read of AtomicVar.
pRead2 == <<"copy2", "post", "return">>
pRead1 == <<"copy1", "copy2", "post", "return">>
pRead0 == <<"wait", "copy1", "copy2", "post", "return">>

\* write; read_and_replace comes to its last two.
pWrite2 == <<"assign2", "post", "return">>
pWrite1 == <<"assign1", "assign2", "post", "return">>
pWrite0 == <<"wait", "assign1", "assign2", "post", "return">>

pReplace2 == <<"copy2", "assign1", "assign2", "post", "return">>
pReplace1 == <<"copy1", "copy2", "assign1", "assign2", "post", "return">>
pReplace0 == <<"wait", "copy1", "copy2", "assign1", "assign2", "post", "return">>

pLock == <<"wait", "return">>

pLockedRead2 == <<"copy2", "return">>
pLockedRead1 == <<"copy1", "copy2", "return">>

pLockedWrite2 == <<"assign2", "return">>
pLockedWrite1 == <<"assign1", "assign2", "return">>

\* read of AtomicMultipleReadersVar.
pShared9 == <<"post_readers", "return">>
pShared8 == <<"post_writers", "post_readers", "return">>
pShared7 == <<"leave", "post_writers", "post_readers", "return">>
pShared6 == <<"wait_readers", "leave", "post_writers", "post_readers", "return">>
pShared5 == <<"copy2", "wait_readers", "leave", "post_writers", "post_readers",
              "return">>
pShared4 == <<"copy1", "copy2", "wait_readers", "leave", "post_writers",
              "post_readers", "return">>
pShared3 == <<"post_readers", "copy1", "copy2", "wait_readers", "leave",
              "post_writers", "post_readers", "return">>
pShared2 == <<"wait_writers", "post_readers", "copy1", "copy2", "wait_readers",
              "leave", "post_writers", "post_readers", "return">>
pShared1 == <<"enter", "wait_writers", "post_readers", "copy1", "copy2",
              "wait_readers", "leave", "post_writers", "post_readers", "return">>
pShared0 == <<"wait_readers", "enter", "wait_writers", "post_readers", "copy1",
              "copy2", "wait_readers", "leave", "post_writers", "post_readers",
              "return">>

\* Where a call of each kind can be before it has taken effect, and after.
CalledAt(op) ==
  CASE op = "read"             -> {pRead0, pRead1, pRead2, pShared0, pShared1,
                                   pShared2, pShared3, pShared4, pShared5}
    [] op = "write"            -> {pWrite0, pWrite1, pWrite2}
    [] op = "read_and_replace" -> {pReplace0, pReplace1, pReplace2,
                                   pWrite1, pWrite2}
    [] op = "lock"             -> {pLock}
    [] op = "unlock"           -> {pPost}
    [] op = "locked_read"      -> {pLockedRead1, pLockedRead2}
    [] op = "locked_write"     -> {pLockedWrite1, pLockedWrite2}

DoneAt(op) ==
  CASE op = "read"             -> {pPost, pShared6, pShared7, pShared8, pShared9,
                                   pReturn}
    [] op \in {"write", "read_and_replace"} -> {pPost, pReturn}
    [] op \in {"lock", "unlock", "locked_read", "locked_write"} -> {pReturn}

-----------------------------------------------------------------------------
(***************************************************************************)
(* Who has the semaphores.                                                 *)
(***************************************************************************)

\* Between sem_wait and sem_post of the writers' semaphore.
AlonePoints == {pRead1, pRead2, pReplace1, pReplace2, pWrite1, pWrite2, pPost}

\* Between the first reader's sem_wait of the writers' semaphore and the last
\* reader's sem_post.
SharingPoints == {pShared3, pShared4, pShared5, pShared6, pShared7, pShared8}

\* In one of the two sections of the readers' semaphore.
CountingPoints == {pShared1, pShared2, pShared3, pShared7, pShared8, pShared9}

\* Where reader_count counts the reader.
CountedPoints == {pShared2, pShared3, pShared4, pShared5, pShared6, pShared7}

Alone(t) == todo[t] \in AlonePoints \/ holding[t]

Sharing(t) == todo[t] \in SharingPoints

Counting(t) == todo[t] \in CountingPoints

Counted == {t \in Threads : todo[t] \in CountedPoints}

WriterSemaphore ==
  \/ /\ writer_queue = 1
     /\ \A t \in Threads : ~Alone(t) /\ ~Sharing(t)
  \/ /\ writer_queue = 0
     /\ \E t \in Threads : Sharing(t)
     /\ \A t \in Threads : ~Alone(t)
  \/ /\ writer_queue = 0
     /\ \A t \in Threads : ~Sharing(t)
     /\ \E t \in Threads : \A s \in Threads : Alone(s) <=> s = t

ReaderSemaphore ==
  \/ reader_queue = 1 /\ \A t \in Threads : ~Counting(t)
  \/ /\ reader_queue = 0
     /\ \E t \in Threads : \A s \in Threads : Counting(s) <=> s = t

CountExact == IsFiniteSet(Counted) /\ reader_count = Cardinality(Counted)

\* Inside a call that is made between lock and unlock.
LockedPoints == {pLockedRead1, pLockedRead2, pLockedWrite1, pLockedWrite2}

\* One half is assigned; one half is copied.
HalfAssigned == {pWrite2, pLockedWrite2}

HalfCopied == {pRead2, pReplace2, pLockedRead2, pShared5}

\* A thread is between lock and unlock exactly when its calls say so.
HoldingExact ==
  \A t \in Threads :
    /\ holding[t] => \/ todo[t] = << >>
                     \/ call[t].op \in Abstract!Locked \cup {"lock"}
    /\ todo[t] \in LockedPoints => holding[t]
    /\ todo[t] = pPost /\ call[t].op = "unlock" => holding[t]

\* The halves are equal but for the thread that is between its two
\* assignments, and what a thread has copied is what the halves still are.
ValueWhole ==
  /\ (\A t \in Threads : todo[t] \notin HalfAssigned) => val[1] = val[2]
  /\ \A t \in Threads :
       /\ todo[t] \in HalfAssigned => val[1] = call[t].arg
       /\ todo[t] \in HalfCopied => copied[t][1] = val[1]
       /\ todo[t] \in {pWrite1, pWrite2} /\ call[t].op = "read_and_replace"
            => copied[t][1] = val[2] /\ copied[t][2] = val[2]

VarTypes ==
  /\ val \in [Halves -> Values]
  /\ writer_queue \in Nat /\ reader_queue \in Nat /\ reader_count \in Nat
  /\ call \in [Threads -> Abstract!Calls \cup {None}]
  /\ copied \in [Threads -> [Halves -> Values \cup {None}]]
  /\ holding \in [Threads -> BOOLEAN]
  /\ todo = [t \in Threads |-> todo[t]]
  /\ \A t \in Threads :
       \/ todo[t] = << >>
       \/ /\ call[t] \in Abstract!Calls
          /\ todo[t] \in CalledAt(call[t].op) \cup DoneAt(call[t].op)

VarInv == /\ VarTypes
          /\ WriterSemaphore
          /\ ReaderSemaphore
          /\ CountExact
          /\ HoldingExact
          /\ ValueWhole

NextStep(p) == Head(p)

After(p) == Tail(p)

\* Each point's next step, and the point after it.
LEMMA PointTable ==
  /\ NextStep(pReturn) = "return" /\ After(pReturn) = << >>
  /\ NextStep(pPost) = "post" /\ After(pPost) = pReturn
  /\ NextStep(pRead2) = "copy2" /\ After(pRead2) = pPost
  /\ NextStep(pRead1) = "copy1" /\ After(pRead1) = pRead2
  /\ NextStep(pRead0) = "wait" /\ After(pRead0) = pRead1
  /\ NextStep(pWrite2) = "assign2" /\ After(pWrite2) = pPost
  /\ NextStep(pWrite1) = "assign1" /\ After(pWrite1) = pWrite2
  /\ NextStep(pWrite0) = "wait" /\ After(pWrite0) = pWrite1
  /\ NextStep(pReplace2) = "copy2" /\ After(pReplace2) = pWrite1
  /\ NextStep(pReplace1) = "copy1" /\ After(pReplace1) = pReplace2
  /\ NextStep(pReplace0) = "wait" /\ After(pReplace0) = pReplace1
  /\ NextStep(pLock) = "wait" /\ After(pLock) = pReturn
  /\ NextStep(pLockedRead2) = "copy2" /\ After(pLockedRead2) = pReturn
  /\ NextStep(pLockedRead1) = "copy1" /\ After(pLockedRead1) = pLockedRead2
  /\ NextStep(pLockedWrite2) = "assign2" /\ After(pLockedWrite2) = pReturn
  /\ NextStep(pLockedWrite1) = "assign1" /\ After(pLockedWrite1) = pLockedWrite2
  /\ NextStep(pShared9) = "post_readers" /\ After(pShared9) = pReturn
  /\ NextStep(pShared8) = "post_writers" /\ After(pShared8) = pShared9
  /\ NextStep(pShared7) = "leave" /\ After(pShared7) = pShared8
  /\ NextStep(pShared6) = "wait_readers" /\ After(pShared6) = pShared7
  /\ NextStep(pShared5) = "copy2" /\ After(pShared5) = pShared6
  /\ NextStep(pShared4) = "copy1" /\ After(pShared4) = pShared5
  /\ NextStep(pShared3) = "post_readers" /\ After(pShared3) = pShared4
  /\ NextStep(pShared2) = "wait_writers" /\ After(pShared2) = pShared3
  /\ NextStep(pShared1) = "enter" /\ After(pShared1) = pShared2
  /\ NextStep(pShared0) = "wait_readers" /\ After(pShared0) = pShared1
BY DEF NextStep, After, pReturn, pPost, pRead2, pRead1, pRead0, pWrite2,
  pWrite1, pWrite0, pReplace2, pReplace1, pReplace0, pLock, pLockedRead2,
  pLockedRead1, pLockedWrite2, pLockedWrite1, pShared9, pShared8, pShared7,
  pShared6, pShared5, pShared4, pShared3, pShared2, pShared1, pShared0

\* A call at a point has steps left.
LEMMA PointsNotEmpty ==
  /\ pReturn # << >> /\ pPost # << >> /\ pRead2 # << >>
  /\ pRead1 # << >> /\ pRead0 # << >> /\ pWrite2 # << >>
  /\ pWrite1 # << >> /\ pWrite0 # << >> /\ pReplace2 # << >>
  /\ pReplace1 # << >> /\ pReplace0 # << >> /\ pLock # << >>
  /\ pLockedRead2 # << >> /\ pLockedRead1 # << >> /\ pLockedWrite2 # << >>
  /\ pLockedWrite1 # << >> /\ pShared9 # << >> /\ pShared8 # << >>
  /\ pShared7 # << >> /\ pShared6 # << >> /\ pShared5 # << >>
  /\ pShared4 # << >> /\ pShared3 # << >> /\ pShared2 # << >>
  /\ pShared1 # << >> /\ pShared0 # << >>
BY DEF pReturn, pPost, pRead2, pRead1, pRead0, pWrite2,
  pWrite1, pWrite0, pReplace2, pReplace1, pReplace0, pLock, pLockedRead2,
  pLockedRead1, pLockedWrite2, pLockedWrite1, pShared9, pShared8, pShared7,
  pShared6, pShared5, pShared4, pShared3, pShared2, pShared1, pShared0

\* Which points are in each of the sets.
LEMMA AlonePointsAre ==
  /\ << >> \notin AlonePoints /\ pLock \notin AlonePoints
  /\ pLockedRead1 \notin AlonePoints /\ pLockedRead2 \notin AlonePoints
  /\ pLockedWrite1 \notin AlonePoints /\ pLockedWrite2 \notin AlonePoints
  /\ pPost \in AlonePoints /\ pRead0 \notin AlonePoints
  /\ pRead1 \in AlonePoints /\ pRead2 \in AlonePoints
  /\ pReplace0 \notin AlonePoints /\ pReplace1 \in AlonePoints
  /\ pReplace2 \in AlonePoints /\ pReturn \notin AlonePoints
  /\ pShared0 \notin AlonePoints /\ pShared1 \notin AlonePoints
  /\ pShared2 \notin AlonePoints /\ pShared3 \notin AlonePoints
  /\ pShared4 \notin AlonePoints /\ pShared5 \notin AlonePoints
  /\ pShared6 \notin AlonePoints /\ pShared7 \notin AlonePoints
  /\ pShared8 \notin AlonePoints /\ pShared9 \notin AlonePoints
  /\ pWrite0 \notin AlonePoints /\ pWrite1 \in AlonePoints
  /\ pWrite2 \in AlonePoints
BY PointTable, PointsNotEmpty DEF AlonePoints

LEMMA SharingPointsAre ==
  /\ << >> \notin SharingPoints /\ pLock \notin SharingPoints
  /\ pLockedRead1 \notin SharingPoints /\ pLockedRead2 \notin SharingPoints
  /\ pLockedWrite1 \notin SharingPoints /\ pLockedWrite2 \notin SharingPoints
  /\ pPost \notin SharingPoints /\ pRead0 \notin SharingPoints
  /\ pRead1 \notin SharingPoints /\ pRead2 \notin SharingPoints
  /\ pReplace0 \notin SharingPoints /\ pReplace1 \notin SharingPoints
  /\ pReplace2 \notin SharingPoints /\ pReturn \notin SharingPoints
  /\ pShared0 \notin SharingPoints /\ pShared1 \notin SharingPoints
  /\ pShared2 \notin SharingPoints /\ pShared3 \in SharingPoints
  /\ pShared4 \in SharingPoints /\ pShared5 \in SharingPoints
  /\ pShared6 \in SharingPoints /\ pShared7 \in SharingPoints
  /\ pShared8 \in SharingPoints /\ pShared9 \notin SharingPoints
  /\ pWrite0 \notin SharingPoints /\ pWrite1 \notin SharingPoints
  /\ pWrite2 \notin SharingPoints
BY PointTable, PointsNotEmpty DEF SharingPoints

LEMMA CountingPointsAre ==
  /\ << >> \notin CountingPoints /\ pLock \notin CountingPoints
  /\ pLockedRead1 \notin CountingPoints /\ pLockedRead2 \notin CountingPoints
  /\ pLockedWrite1 \notin CountingPoints
  /\ pLockedWrite2 \notin CountingPoints /\ pPost \notin CountingPoints
  /\ pRead0 \notin CountingPoints /\ pRead1 \notin CountingPoints
  /\ pRead2 \notin CountingPoints /\ pReplace0 \notin CountingPoints
  /\ pReplace1 \notin CountingPoints /\ pReplace2 \notin CountingPoints
  /\ pReturn \notin CountingPoints /\ pShared0 \notin CountingPoints
  /\ pShared1 \in CountingPoints /\ pShared2 \in CountingPoints
  /\ pShared3 \in CountingPoints /\ pShared4 \notin CountingPoints
  /\ pShared5 \notin CountingPoints /\ pShared6 \notin CountingPoints
  /\ pShared7 \in CountingPoints /\ pShared8 \in CountingPoints
  /\ pShared9 \in CountingPoints /\ pWrite0 \notin CountingPoints
  /\ pWrite1 \notin CountingPoints /\ pWrite2 \notin CountingPoints
BY PointTable, PointsNotEmpty DEF CountingPoints

LEMMA CountedPointsAre ==
  /\ << >> \notin CountedPoints /\ pLock \notin CountedPoints
  /\ pLockedRead1 \notin CountedPoints /\ pLockedRead2 \notin CountedPoints
  /\ pLockedWrite1 \notin CountedPoints /\ pLockedWrite2 \notin CountedPoints
  /\ pPost \notin CountedPoints /\ pRead0 \notin CountedPoints
  /\ pRead1 \notin CountedPoints /\ pRead2 \notin CountedPoints
  /\ pReplace0 \notin CountedPoints /\ pReplace1 \notin CountedPoints
  /\ pReplace2 \notin CountedPoints /\ pReturn \notin CountedPoints
  /\ pShared0 \notin CountedPoints /\ pShared1 \notin CountedPoints
  /\ pShared2 \in CountedPoints /\ pShared3 \in CountedPoints
  /\ pShared4 \in CountedPoints /\ pShared5 \in CountedPoints
  /\ pShared6 \in CountedPoints /\ pShared7 \in CountedPoints
  /\ pShared8 \notin CountedPoints /\ pShared9 \notin CountedPoints
  /\ pWrite0 \notin CountedPoints /\ pWrite1 \notin CountedPoints
  /\ pWrite2 \notin CountedPoints
BY PointTable, PointsNotEmpty DEF CountedPoints

LEMMA LockedPointsAre ==
  /\ << >> \notin LockedPoints /\ pLock \notin LockedPoints
  /\ pLockedRead1 \in LockedPoints /\ pLockedRead2 \in LockedPoints
  /\ pLockedWrite1 \in LockedPoints /\ pLockedWrite2 \in LockedPoints
  /\ pPost \notin LockedPoints /\ pRead0 \notin LockedPoints
  /\ pRead1 \notin LockedPoints /\ pRead2 \notin LockedPoints
  /\ pReplace0 \notin LockedPoints /\ pReplace1 \notin LockedPoints
  /\ pReplace2 \notin LockedPoints /\ pReturn \notin LockedPoints
  /\ pShared0 \notin LockedPoints /\ pShared1 \notin LockedPoints
  /\ pShared2 \notin LockedPoints /\ pShared3 \notin LockedPoints
  /\ pShared4 \notin LockedPoints /\ pShared5 \notin LockedPoints
  /\ pShared6 \notin LockedPoints /\ pShared7 \notin LockedPoints
  /\ pShared8 \notin LockedPoints /\ pShared9 \notin LockedPoints
  /\ pWrite0 \notin LockedPoints /\ pWrite1 \notin LockedPoints
  /\ pWrite2 \notin LockedPoints
BY PointTable, PointsNotEmpty DEF LockedPoints

LEMMA HalfAssignedAre ==
  /\ << >> \notin HalfAssigned /\ pLock \notin HalfAssigned
  /\ pLockedRead1 \notin HalfAssigned /\ pLockedRead2 \notin HalfAssigned
  /\ pLockedWrite1 \notin HalfAssigned /\ pLockedWrite2 \in HalfAssigned
  /\ pPost \notin HalfAssigned /\ pRead0 \notin HalfAssigned
  /\ pRead1 \notin HalfAssigned /\ pRead2 \notin HalfAssigned
  /\ pReplace0 \notin HalfAssigned /\ pReplace1 \notin HalfAssigned
  /\ pReplace2 \notin HalfAssigned /\ pReturn \notin HalfAssigned
  /\ pShared0 \notin HalfAssigned /\ pShared1 \notin HalfAssigned
  /\ pShared2 \notin HalfAssigned /\ pShared3 \notin HalfAssigned
  /\ pShared4 \notin HalfAssigned /\ pShared5 \notin HalfAssigned
  /\ pShared6 \notin HalfAssigned /\ pShared7 \notin HalfAssigned
  /\ pShared8 \notin HalfAssigned /\ pShared9 \notin HalfAssigned
  /\ pWrite0 \notin HalfAssigned /\ pWrite1 \notin HalfAssigned
  /\ pWrite2 \in HalfAssigned
BY PointTable, PointsNotEmpty DEF HalfAssigned

LEMMA HalfCopiedAre ==
  /\ << >> \notin HalfCopied /\ pLock \notin HalfCopied
  /\ pLockedRead1 \notin HalfCopied /\ pLockedRead2 \in HalfCopied
  /\ pLockedWrite1 \notin HalfCopied /\ pLockedWrite2 \notin HalfCopied
  /\ pPost \notin HalfCopied /\ pRead0 \notin HalfCopied
  /\ pRead1 \notin HalfCopied /\ pRead2 \in HalfCopied
  /\ pReplace0 \notin HalfCopied /\ pReplace1 \notin HalfCopied
  /\ pReplace2 \in HalfCopied /\ pReturn \notin HalfCopied
  /\ pShared0 \notin HalfCopied /\ pShared1 \notin HalfCopied
  /\ pShared2 \notin HalfCopied /\ pShared3 \notin HalfCopied
  /\ pShared4 \notin HalfCopied /\ pShared5 \in HalfCopied
  /\ pShared6 \notin HalfCopied /\ pShared7 \notin HalfCopied
  /\ pShared8 \notin HalfCopied /\ pShared9 \notin HalfCopied
  /\ pWrite0 \notin HalfCopied /\ pWrite1 \notin HalfCopied
  /\ pWrite2 \notin HalfCopied
BY PointTable, PointsNotEmpty DEF HalfCopied

-----------------------------------------------------------------------------
\* The steps a call is made of.
StepNames == {"wait", "post", "copy1", "copy2", "assign1", "assign2",
              "wait_readers", "enter", "wait_writers", "post_readers", "leave",
              "post_writers", "return"}

\* u is s followed by t.
Joins(s, t, u) ==
  /\ s \in Seq(StepNames) /\ t \in Seq(StepNames) /\ u \in Seq(StepNames)
  /\ Len(u) = Len(s) + Len(t)
  /\ \A i \in 1 .. Len(s) : u[i] = s[i]
  /\ \A i \in 1 .. Len(t) : u[Len(s) + i] = t[i]

\* How the lists of steps are put together.
LEMMA Joined ==
  ASSUME NEW s, NEW t, NEW u, Joins(s, t, u)
  PROVE  s \o t = u
<1>1. /\ s \in Seq(StepNames) /\ t \in Seq(StepNames) /\ u \in Seq(StepNames)
      /\ Len(s) \in Nat /\ Len(t) \in Nat /\ Len(u) = Len(s) + Len(t)
  BY DEF Joins
<1>2. /\ s \o t \in Seq(StepNames) /\ Len(s \o t) = Len(s) + Len(t)
      /\ \A i \in 1 .. Len(s) + Len(t) :
           (s \o t)[i] = IF i <= Len(s) THEN s[i] ELSE t[i - Len(s)]
  BY <1>1, ConcatProperties
<1>3. ASSUME NEW i \in 1 .. Len(u)
      PROVE  (s \o t)[i] = u[i]
  <2>1. CASE i <= Len(s)
    BY <1>1, <1>2, <2>1 DEF Joins
  <2>2. CASE i > Len(s)
    <3>0. i - Len(s) \in 1 .. Len(t) /\ i = Len(s) + (i - Len(s))
      BY <1>1, <2>2
    <3>1. PICK k \in 1 .. Len(t) : i = Len(s) + k /\ k = i - Len(s)
      BY <3>0, Zenon
    <3>2. u[Len(s) + k] = t[k]
      BY DEF Joins
    <3>3. (s \o t)[i] = t[k]
      BY <1>1, <1>2, <2>2, <3>1
    <3>4. QED
      BY <3>1, <3>2, <3>3
  <2>3. QED
    BY <1>1, <2>1, <2>2
<1>4. QED
  BY <1>1, <1>2, <1>3, SeqEqual

\* The first point of each call: the steps of its member function, and the
\* return.
FirstPoint(op) ==
  CASE op = "read"             -> IF class = "AtomicVar" THEN pRead0 ELSE pShared0
    [] op = "write"            -> pWrite0
    [] op = "read_and_replace" -> pReplace0
    [] op = "lock"             -> pLock
    [] op = "unlock"           -> pPost
    [] op = "locked_read"      -> pLockedRead1
    [] op = "locked_write"     -> pLockedWrite1

Ops == {"read", "write", "read_and_replace", "lock", "unlock", "locked_read",
        "locked_write"}

\* Call puts its thread at that point.
LEMMA FirstPointOfCall ==
  ASSUME NEW op \in Ops
  PROVE  Steps(op) \o <<"return">> = FirstPoint(op)
<1>1. CASE op = "read"
  <2>1. var_read \o <<"return">> = pRead0
    <3>1. Joins(<<"wait">>, <<"copy1", "copy2">>, <<"wait", "copy1",
                "copy2">>)
      BY DEF Joins, StepNames
    <3>2. <<"wait">> \o <<"copy1", "copy2">> = <<"wait", "copy1", "copy2">>
      BY <3>1, Joined, Zenon
    <3>3. Joins(<<"wait", "copy1", "copy2">>, <<"post">>, <<"wait", "copy1",
                "copy2", "post">>)
      BY DEF Joins, StepNames
    <3>4. <<"wait", "copy1", "copy2">> \o <<"post">> = <<"wait", "copy1",
            "copy2", "post">>
      BY <3>3, Joined, Zenon
    <3>5. Joins(<<"wait", "copy1", "copy2", "post">>, <<"return">>, <<"wait",
                "copy1", "copy2", "post", "return">>)
      BY DEF Joins, StepNames
    <3>6. <<"wait", "copy1", "copy2", "post">> \o <<"return">> = <<"wait",
            "copy1", "copy2", "post", "return">>
      BY <3>5, Joined, Zenon
    <3>7. QED
      BY <3>2, <3>4, <3>6, Zenon DEF var_read, Exclusive, Copy, pRead0
  <2>2. readers_read \o <<"return">> = pShared0
    <3>1. Joins(<<"wait_readers", "enter", "wait_writers", "post_readers">>,
                <<"copy1", "copy2">>, <<"wait_readers", "enter",
                "wait_writers", "post_readers", "copy1", "copy2">>)
      BY DEF Joins, StepNames
    <3>2. <<"wait_readers", "enter", "wait_writers", "post_readers">> \o
            <<"copy1", "copy2">> = <<"wait_readers", "enter", "wait_writers",
            "post_readers", "copy1", "copy2">>
      BY <3>1, Joined, Zenon
    <3>3. Joins(<<"wait_readers", "enter", "wait_writers", "post_readers",
                "copy1", "copy2">>,
                <<"wait_readers", "leave", "post_writers", "post_readers">>,
                <<"wait_readers", "enter", "wait_writers", "post_readers",
                "copy1", "copy2", "wait_readers", "leave", "post_writers",
                "post_readers">>)
      BY DEF Joins, StepNames
    <3>4. <<"wait_readers", "enter", "wait_writers", "post_readers", "copy1", "copy2">>
            \o <<"wait_readers", "leave", "post_writers", "post_readers">> =
            <<"wait_readers", "enter", "wait_writers", "post_readers",
            "copy1", "copy2", "wait_readers", "leave", "post_writers",
            "post_readers">>
      BY <3>3, Joined, Zenon
    <3>5. Joins(<<"wait_readers", "enter", "wait_writers", "post_readers",
                "copy1", "copy2", "wait_readers", "leave", "post_writers", "post_readers">>,
                <<"return">>, <<"wait_readers", "enter", "wait_writers",
                "post_readers", "copy1", "copy2", "wait_readers", "leave",
                "post_writers", "post_readers", "return">>)
      BY DEF Joins, StepNames
    <3>6. <<"wait_readers", "enter", "wait_writers", "post_readers", "copy1",
            "copy2", "wait_readers", "leave", "post_writers", "post_readers">>
            \o <<"return">> = <<"wait_readers", "enter", "wait_writers",
            "post_readers", "copy1", "copy2", "wait_readers", "leave",
            "post_writers", "post_readers", "return">>
      BY <3>5, Joined, Zenon
    <3>7. QED
      BY <3>2, <3>4, <3>6, Zenon DEF readers_read, Copy, pShared0
  <2>3. QED
    BY <1>1, <2>1, <2>2 DEF Steps, FirstPoint
<1>2. CASE op = "write"
  <2>1. Joins(<<"wait">>, <<"assign1", "assign2">>, <<"wait", "assign1",
              "assign2">>)
    BY DEF Joins, StepNames
  <2>2. <<"wait">> \o <<"assign1", "assign2">> = <<"wait", "assign1",
          "assign2">>
    BY <2>1, Joined, Zenon
  <2>3. Joins(<<"wait", "assign1", "assign2">>, <<"post">>, <<"wait",
              "assign1", "assign2", "post">>)
    BY DEF Joins, StepNames
  <2>4. <<"wait", "assign1", "assign2">> \o <<"post">> = <<"wait", "assign1",
          "assign2", "post">>
    BY <2>3, Joined, Zenon
  <2>5. Joins(<<"wait", "assign1", "assign2", "post">>, <<"return">>,
              <<"wait", "assign1", "assign2", "post", "return">>)
    BY DEF Joins, StepNames
  <2>6. <<"wait", "assign1", "assign2", "post">> \o <<"return">> = <<"wait",
          "assign1", "assign2", "post", "return">>
    BY <2>5, Joined, Zenon
  <2>7. Exclusive(Assign) \o <<"return">> = pWrite0
    BY <2>2, <2>4, <2>6, Zenon DEF Exclusive, Assign, pWrite0
  <2>8. QED
    BY <1>2, <2>7 DEF Steps, FirstPoint
<1>3. CASE op = "read_and_replace"
  <2>1. Joins(<<"copy1", "copy2">>, <<"assign1", "assign2">>, <<"copy1",
              "copy2", "assign1", "assign2">>)
    BY DEF Joins, StepNames
  <2>2. <<"copy1", "copy2">> \o <<"assign1", "assign2">> = <<"copy1", "copy2",
          "assign1", "assign2">>
    BY <2>1, Joined, Zenon
  <2>3. Joins(<<"wait">>, <<"copy1", "copy2", "assign1", "assign2">>,
              <<"wait", "copy1", "copy2", "assign1", "assign2">>)
    BY DEF Joins, StepNames
  <2>4. <<"wait">> \o <<"copy1", "copy2", "assign1", "assign2">> = <<"wait",
          "copy1", "copy2", "assign1", "assign2">>
    BY <2>3, Joined, Zenon
  <2>5. Joins(<<"wait", "copy1", "copy2", "assign1", "assign2">>, <<"post">>,
              <<"wait", "copy1", "copy2", "assign1", "assign2", "post">>)
    BY DEF Joins, StepNames
  <2>6. <<"wait", "copy1", "copy2", "assign1", "assign2">> \o <<"post">> =
          <<"wait", "copy1", "copy2", "assign1", "assign2", "post">>
    BY <2>5, Joined, Zenon
  <2>7. Joins(<<"wait", "copy1", "copy2", "assign1", "assign2", "post">>,
              <<"return">>, <<"wait", "copy1", "copy2", "assign1", "assign2",
              "post", "return">>)
    BY DEF Joins, StepNames
  <2>8. <<"wait", "copy1", "copy2", "assign1", "assign2", "post">> \o
          <<"return">> = <<"wait", "copy1", "copy2", "assign1", "assign2",
          "post", "return">>
    BY <2>7, Joined, Zenon
  <2>9. read_and_replace \o <<"return">> = pReplace0
    BY <2>2, <2>4, <2>6, <2>8, Zenon DEF read_and_replace, Exclusive, Copy,
      Assign, pReplace0
  <2>10. QED
    BY <1>3, <2>9 DEF Steps, FirstPoint
<1>4. CASE op = "lock"
  <2>1. Joins(<<"wait">>, <<"return">>, <<"wait", "return">>)
    BY DEF Joins, StepNames
  <2>2. <<"wait">> \o <<"return">> = <<"wait", "return">>
    BY <2>1, Joined, Zenon
  <2>3. <<"wait">> \o <<"return">> = pLock
    BY <2>2, Zenon DEF pLock
  <2>4. QED
    BY <1>4, <2>3 DEF Steps, FirstPoint
<1>5. CASE op = "unlock"
  <2>1. Joins(<<"post">>, <<"return">>, <<"post", "return">>)
    BY DEF Joins, StepNames
  <2>2. <<"post">> \o <<"return">> = <<"post", "return">>
    BY <2>1, Joined, Zenon
  <2>3. <<"post">> \o <<"return">> = pPost
    BY <2>2, Zenon DEF pPost
  <2>4. QED
    BY <1>5, <2>3 DEF Steps, FirstPoint
<1>6. CASE op = "locked_read"
  <2>1. Joins(<<"copy1", "copy2">>, <<"return">>, <<"copy1", "copy2",
              "return">>)
    BY DEF Joins, StepNames
  <2>2. <<"copy1", "copy2">> \o <<"return">> = <<"copy1", "copy2", "return">>
    BY <2>1, Joined, Zenon
  <2>3. Copy \o <<"return">> = pLockedRead1
    BY <2>2, Zenon DEF Copy, pLockedRead1
  <2>4. QED
    BY <1>6, <2>3 DEF Steps, FirstPoint
<1>7. CASE op = "locked_write"
  <2>1. Joins(<<"assign1", "assign2">>, <<"return">>, <<"assign1", "assign2",
              "return">>)
    BY DEF Joins, StepNames
  <2>2. <<"assign1", "assign2">> \o <<"return">> = <<"assign1", "assign2",
          "return">>
    BY <2>1, Joined, Zenon
  <2>3. Assign \o <<"return">> = pLockedWrite1
    BY <2>2, Zenon DEF Assign, pLockedWrite1
  <2>4. QED
    BY <1>7, <2>3 DEF Steps, FirstPoint
<1>8. QED
  BY <1>1, <1>2, <1>3, <1>4, <1>5, <1>6, <1>7 DEF Ops

\* The calls there are.
LEMMA OpsOfCalls == \A c \in Abstract!Calls : c.op \in Ops
BY DEF Abstract!Calls, Abstract!Reads, Abstract!Writes, Abstract!Locked, Ops

-----------------------------------------------------------------------------
\* Whether a call has taken effect is read off the steps that are left.
StepsIn(p) == {p[i] : i \in DOMAIN p}

\* Where the last copy, the last assignment and the lock are still to come.
LEMMA CopyLeft ==
  /\ "copy2" \in StepsIn(pRead0)
  /\ "copy2" \in StepsIn(pRead1)
  /\ "copy2" \in StepsIn(pRead2)
  /\ "copy2" \in StepsIn(pShared0)
  /\ "copy2" \in StepsIn(pShared1)
  /\ "copy2" \in StepsIn(pShared2)
  /\ "copy2" \in StepsIn(pShared3)
  /\ "copy2" \in StepsIn(pShared4)
  /\ "copy2" \in StepsIn(pShared5)
  /\ "copy2" \in StepsIn(pLockedRead1)
  /\ "copy2" \in StepsIn(pLockedRead2)
  /\ "copy2" \notin StepsIn(pPost)
  /\ "copy2" \notin StepsIn(pShared6)
  /\ "copy2" \notin StepsIn(pShared7)
  /\ "copy2" \notin StepsIn(pShared8)
  /\ "copy2" \notin StepsIn(pShared9)
  /\ "copy2" \notin StepsIn(pReturn)
BY DEF StepsIn, pRead0, pRead1, pRead2, pShared0, pShared1, pShared2, pShared3,
  pShared4, pShared5, pLockedRead1, pLockedRead2, pPost, pShared6, pShared7,
  pShared8, pShared9, pReturn

LEMMA AssignLeft ==
  /\ "assign2" \in StepsIn(pWrite0)
  /\ "assign2" \in StepsIn(pWrite1)
  /\ "assign2" \in StepsIn(pWrite2)
  /\ "assign2" \in StepsIn(pReplace0)
  /\ "assign2" \in StepsIn(pReplace1)
  /\ "assign2" \in StepsIn(pReplace2)
  /\ "assign2" \in StepsIn(pLockedWrite1)
  /\ "assign2" \in StepsIn(pLockedWrite2)
  /\ "assign2" \notin StepsIn(pPost)
  /\ "assign2" \notin StepsIn(pReturn)
BY DEF StepsIn, pWrite0, pWrite1, pWrite2, pReplace0, pReplace1, pReplace2,
  pLockedWrite1, pLockedWrite2, pPost, pReturn

LEMMA LockLeft ==
  /\ "wait" \in StepsIn(pLock) /\ "wait" \notin StepsIn(pReturn)
  /\ "post" \in StepsIn(pPost) /\ "post" \notin StepsIn(pReturn)
BY DEF StepsIn, pLock, pPost, pReturn

\* A call's effect is among the steps left before it has taken effect, and
\* only then.
LEMMA EffectLeft ==
  ASSUME NEW op \in Ops
  PROVE  /\ \A p \in CalledAt(op) : p # << >> /\ EffectStep(op) \in StepsIn(p)
         /\ \A p \in DoneAt(op) : p # << >> /\ EffectStep(op) \notin StepsIn(p)
<1>1. CASE op = "read"
  BY <1>1, CopyLeft, PointsNotEmpty DEF EffectStep, CalledAt, DoneAt
<1>2. CASE op = "write"
  BY <1>2, AssignLeft, PointsNotEmpty DEF EffectStep, CalledAt, DoneAt
<1>3. CASE op = "read_and_replace"
  BY <1>3, AssignLeft, PointsNotEmpty DEF EffectStep, CalledAt, DoneAt
<1>4. CASE op \in {"lock", "unlock"}
  BY <1>4, LockLeft, PointsNotEmpty DEF EffectStep, CalledAt, DoneAt
<1>5. CASE op = "locked_read"
  BY <1>5, CopyLeft, PointsNotEmpty DEF EffectStep, CalledAt, DoneAt
<1>6. CASE op = "locked_write"
  BY <1>6, AssignLeft, PointsNotEmpty DEF EffectStep, CalledAt, DoneAt
<1>7. QED
  BY <1>1, <1>2, <1>3, <1>4, <1>5, <1>6 DEF Ops

\* The stage of a call, by its point.
LEMMA StageOfPoint ==
  ASSUME VarTypes, NEW t \in Threads
  PROVE  /\ Stage(t) \in {"idle", "called", "done"}
         /\ Stage(t) = "idle" <=> todo[t] = << >>
         /\ Stage(t) = "called" <=>
              todo[t] # << >> /\ todo[t] \in CalledAt(call[t].op)
         /\ Stage(t) = "done" <=>
              todo[t] # << >> /\ todo[t] \in DoneAt(call[t].op)
<1>1. CASE todo[t] = << >>
  <2>1. Left(t) = {}
    BY <1>1 DEF Left
  <2>2. QED
    BY <1>1, <2>1 DEF Stage
<1>2. CASE todo[t] # << >>
  <2>1. /\ call[t].op \in Ops
        /\ todo[t] \in CalledAt(call[t].op) \cup DoneAt(call[t].op)
    BY <1>2, OpsOfCalls DEF VarTypes
  <2>2. Left(t) = StepsIn(todo[t])
    BY DEF Left, StepsIn
  <2>3. Stage(t) = IF EffectStep(call[t].op) \in StepsIn(todo[t])
                     THEN "called" ELSE "done"
    BY <1>2, <2>2 DEF Stage
  <2>4. QED
    BY <1>2, <2>1, <2>3, EffectLeft
<1>3. QED
  BY <1>1, <1>2

-----------------------------------------------------------------------------
\* A step takes its thread from one point of a call to the next.
Goes(t, p, q) == todo[t] = p /\ todo' = [todo EXCEPT ![t] = q]

\* The step of a thread is the next one of its point.
LEMMA StepGoes ==
  ASSUME VarTypes, NEW t \in Threads, NEW step, At(t, step)
  PROVE  /\ todo[t] # << >> /\ NextStep(todo[t]) = step
         /\ Goes(t, todo[t], After(todo[t]))
         /\ call[t] \in Abstract!Calls /\ call[t].op \in Ops
         /\ todo[t] \in CalledAt(call[t].op) \cup DoneAt(call[t].op)
<1>1. /\ todo[t] # << >> /\ NextStep(todo[t]) = step
      /\ Goes(t, todo[t], After(todo[t]))
  BY DEF At, NextStep, After, Goes
<1>2. /\ call[t] \in Abstract!Calls
      /\ todo[t] \in CalledAt(call[t].op) \cup DoneAt(call[t].op)
  BY <1>1 DEF VarTypes
<1>3. QED
  BY <1>1, <1>2, OpsOfCalls

\* Where each step can be taken, and where it leads.
LEMMA WaitGoes ==
  ASSUME VarTypes, NEW t \in Threads, At(t, "wait")
  PROVE  \/ Goes(t, pRead0, pRead1) /\ call[t].op = "read"
         \/ Goes(t, pWrite0, pWrite1) /\ call[t].op = "write"
         \/ Goes(t, pReplace0, pReplace1) /\ call[t].op = "read_and_replace"
         \/ Goes(t, pLock, pReturn) /\ call[t].op = "lock"
BY StepGoes, PointTable DEF Ops, CalledAt, DoneAt

LEMMA PostGoes ==
  ASSUME VarTypes, NEW t \in Threads, At(t, "post")
  PROVE  /\ Goes(t, pPost, pReturn)
         /\ call[t].op \in {"read", "write", "read_and_replace", "unlock"}
BY StepGoes, PointTable DEF Ops, CalledAt, DoneAt

LEMMA Copy1Goes ==
  ASSUME VarTypes, NEW t \in Threads, At(t, "copy1")
  PROVE  \/ Goes(t, pRead1, pRead2) /\ call[t].op = "read"
         \/ Goes(t, pReplace1, pReplace2) /\ call[t].op = "read_and_replace"
         \/ Goes(t, pLockedRead1, pLockedRead2) /\ call[t].op = "locked_read"
         \/ Goes(t, pShared4, pShared5) /\ call[t].op = "read"
BY StepGoes, PointTable DEF Ops, CalledAt, DoneAt

LEMMA Copy2Goes ==
  ASSUME VarTypes, NEW t \in Threads, At(t, "copy2")
  PROVE  \/ Goes(t, pRead2, pPost) /\ call[t].op = "read"
         \/ Goes(t, pReplace2, pWrite1) /\ call[t].op = "read_and_replace"
         \/ Goes(t, pLockedRead2, pReturn) /\ call[t].op = "locked_read"
         \/ Goes(t, pShared5, pShared6) /\ call[t].op = "read"
BY StepGoes, PointTable DEF Ops, CalledAt, DoneAt

LEMMA Assign1Goes ==
  ASSUME VarTypes, NEW t \in Threads, At(t, "assign1")
  PROVE  \/ Goes(t, pWrite1, pWrite2) /\ call[t].op \in {"write", "read_and_replace"}
         \/ Goes(t, pLockedWrite1, pLockedWrite2) /\ call[t].op = "locked_write"
BY StepGoes, PointTable DEF Ops, CalledAt, DoneAt

LEMMA Assign2Goes ==
  ASSUME VarTypes, NEW t \in Threads, At(t, "assign2")
  PROVE  \/ Goes(t, pWrite2, pPost) /\ call[t].op \in {"write", "read_and_replace"}
         \/ Goes(t, pLockedWrite2, pReturn) /\ call[t].op = "locked_write"
BY StepGoes, PointTable DEF Ops, CalledAt, DoneAt

LEMMA WaitReadersGoes ==
  ASSUME VarTypes, NEW t \in Threads, At(t, "wait_readers")
  PROVE  \/ Goes(t, pShared0, pShared1) /\ call[t].op = "read"
         \/ Goes(t, pShared6, pShared7) /\ call[t].op = "read"
BY StepGoes, PointTable DEF Ops, CalledAt, DoneAt

LEMMA EnterGoes ==
  ASSUME VarTypes, NEW t \in Threads, At(t, "enter")
  PROVE  Goes(t, pShared1, pShared2) /\ call[t].op = "read"
BY StepGoes, PointTable DEF Ops, CalledAt, DoneAt

LEMMA WaitWritersGoes ==
  ASSUME VarTypes, NEW t \in Threads, At(t, "wait_writers")
  PROVE  Goes(t, pShared2, pShared3) /\ call[t].op = "read"
BY StepGoes, PointTable DEF Ops, CalledAt, DoneAt

LEMMA PostReadersGoes ==
  ASSUME VarTypes, NEW t \in Threads, At(t, "post_readers")
  PROVE  \/ Goes(t, pShared3, pShared4) /\ call[t].op = "read"
         \/ Goes(t, pShared9, pReturn) /\ call[t].op = "read"
BY StepGoes, PointTable DEF Ops, CalledAt, DoneAt

LEMMA LeaveGoes ==
  ASSUME VarTypes, NEW t \in Threads, At(t, "leave")
  PROVE  Goes(t, pShared7, pShared8) /\ call[t].op = "read"
BY StepGoes, PointTable DEF Ops, CalledAt, DoneAt

LEMMA PostWritersGoes ==
  ASSUME VarTypes, NEW t \in Threads, At(t, "post_writers")
  PROVE  Goes(t, pShared8, pShared9) /\ call[t].op = "read"
BY StepGoes, PointTable DEF Ops, CalledAt, DoneAt

-----------------------------------------------------------------------------
\* What a step of one thread leaves alone.
LEMMA OthersStay ==
  ASSUME VarTypes, NEW t \in Threads, NEW p, NEW q, Goes(t, p, q)
  PROVE  /\ todo[t] = p /\ todo'[t] = q
         /\ \A s \in Threads \ {t} : todo'[s] = todo[s]
         /\ todo' = [s \in Threads |-> todo'[s]]
BY DEF VarTypes, Goes

\* A step that neither takes nor gives back the writers' semaphore.
LEMMA WriterKept ==
  ASSUME VarInv, NEW t \in Threads, NEW p, NEW q, Goes(t, p, q),
         UNCHANGED <<writer_queue, holding>>,
         p \in AlonePoints \/ holding[t] <=> q \in AlonePoints \/ holding[t],
         p \in SharingPoints <=> q \in SharingPoints
  PROVE  WriterSemaphore'
<1>1. \A s \in Threads : (Alone(s)' <=> Alone(s)) /\ (Sharing(s)' <=> Sharing(s))
  BY OthersStay DEF VarInv, Alone, Sharing
<1>2. QED
  BY <1>1 DEF VarInv, WriterSemaphore

\* The same for the readers' semaphore, and for reader_count.
LEMMA ReaderKept ==
  ASSUME VarInv, NEW t \in Threads, NEW p, NEW q, Goes(t, p, q),
         UNCHANGED reader_queue, p \in CountingPoints <=> q \in CountingPoints
  PROVE  ReaderSemaphore'
<1>1. \A s \in Threads : Counting(s)' <=> Counting(s)
  BY OthersStay DEF VarInv, Counting
<1>2. QED
  BY <1>1 DEF VarInv, ReaderSemaphore

LEMMA CountKept ==
  ASSUME VarInv, NEW t \in Threads, NEW p, NEW q, Goes(t, p, q),
         UNCHANGED reader_count, p \in CountedPoints <=> q \in CountedPoints
  PROVE  CountExact'
<1>1. Counted' = Counted
  BY OthersStay DEF VarInv, Counted
<1>2. QED
  BY <1>1 DEF VarInv, CountExact

\* The parts of HoldingExact and ValueWhole that are about one thread.
HoldsWell(t) ==
  /\ holding[t] => \/ todo[t] = << >>
                   \/ call[t].op \in Abstract!Locked \cup {"lock"}
  /\ todo[t] \in LockedPoints => holding[t]
  /\ todo[t] = pPost /\ call[t].op = "unlock" => holding[t]

CopiesWell(t) ==
  /\ todo[t] \in HalfAssigned => val[1] = call[t].arg
  /\ todo[t] \in HalfCopied => copied[t][1] = val[1]
  /\ todo[t] \in {pWrite1, pWrite2} /\ call[t].op = "read_and_replace"
       => copied[t][1] = val[2] /\ copied[t][2] = val[2]

\* HoldingExact and ValueWhole, thread by thread, in a state and in the next.
LEMMA ByThread ==
  /\ HoldingExact <=> \A t \in Threads : HoldsWell(t)
  /\ ValueWhole <=>
       /\ (\A t \in Threads : todo[t] \notin HalfAssigned) => val[1] = val[2]
       /\ \A t \in Threads : CopiesWell(t)
BY DEF HoldingExact, ValueWhole, HoldsWell, CopiesWell

LEMMA ByThreadNext ==
  /\ HoldingExact' <=> \A t \in Threads : HoldsWell(t)'
  /\ ValueWhole' <=>
       /\ (\A t \in Threads : todo'[t] \notin HalfAssigned) => val'[1] = val'[2]
       /\ \A t \in Threads : CopiesWell(t)'
BY DEF HoldingExact, ValueWhole, HoldsWell, CopiesWell

\* It is enough to look at the thread that takes the step.
LEMMA HoldingKept ==
  ASSUME VarInv, NEW t \in Threads, NEW p, NEW q, Goes(t, p, q),
         \A s \in Threads \ {t} : holding'[s] = holding[s] /\ call'[s] = call[s],
         HoldsWell(t)'
  PROVE  HoldingExact'
<1>1. ASSUME NEW s \in Threads, s # t PROVE HoldsWell(s)'
  <2>1. HoldsWell(s)
    BY ByThread DEF VarInv
  <2>2. QED
    BY <1>1, <2>1, OthersStay DEF VarInv, HoldsWell
<1>2. QED
  BY <1>1, ByThreadNext

LEMMA ValueKept ==
  ASSUME VarInv, NEW t \in Threads, NEW p, NEW q, Goes(t, p, q), UNCHANGED val,
         \A s \in Threads \ {t} : copied'[s] = copied[s] /\ call'[s] = call[s],
         p \notin HalfAssigned, q \notin HalfAssigned, CopiesWell(t)'
  PROVE  ValueWhole'
<1>1. ASSUME NEW s \in Threads, s # t PROVE CopiesWell(s)'
  <2>1. CopiesWell(s)
    BY ByThread DEF VarInv
  <2>2. QED
    BY <1>1, <2>1, OthersStay DEF VarInv, CopiesWell
<1>2. (\A s \in Threads : todo'[s] \notin HalfAssigned) => val'[1] = val'[2]
  BY ByThread, OthersStay DEF VarInv
<1>3. QED
  BY <1>1, <1>2, ByThreadNext

\* The types, and that the points are those of the call.
LEMMA TypesKept ==
  ASSUME VarInv, NEW t \in Threads, NEW p, NEW q, Goes(t, p, q),
         UNCHANGED call, p # << >>,
         q \in CalledAt(call[t].op) \cup DoneAt(call[t].op),
         val' \in [Halves -> Values],
         writer_queue' \in Nat, reader_queue' \in Nat, reader_count' \in Nat,
         copied' \in [Threads -> [Halves -> Values \cup {None}]],
         holding' \in [Threads -> BOOLEAN]
  PROVE  VarTypes'
<1>1. ASSUME NEW s \in Threads
      PROVE  \/ todo'[s] = << >>
             \/ /\ call'[s] \in Abstract!Calls
                /\ todo'[s] \in CalledAt(call'[s].op) \cup DoneAt(call'[s].op)
  BY OthersStay DEF VarInv, VarTypes
<1>2. todo' = [s \in Threads |-> todo'[s]]
  BY OthersStay DEF VarInv
<1>3. call' \in [Threads -> Abstract!Calls \cup {None}]
  BY DEF VarInv, VarTypes
<1>4. QED
  BY <1>1, <1>2, <1>3 DEF VarTypes

-----------------------------------------------------------------------------
\* Who has the writers' semaphore keeps the others out.
LEMMA AloneExcludes ==
  ASSUME VarInv, NEW t \in Threads, Alone(t)
  PROVE  /\ writer_queue = 0
         /\ \A s \in Threads : (Alone(s) <=> s = t) /\ ~Sharing(s)
BY DEF VarInv, WriterSemaphore

LEMMA SharingExcludes ==
  ASSUME VarInv, NEW t \in Threads, Sharing(t)
  PROVE  writer_queue = 0 /\ \A s \in Threads : ~Alone(s)
BY DEF VarInv, WriterSemaphore

LEMMA CountingExcludes ==
  ASSUME VarInv, NEW t \in Threads, Counting(t)
  PROVE  reader_queue = 0 /\ \A s \in Threads : Counting(s) <=> s = t
BY DEF VarInv, ReaderSemaphore

\* Nobody is half way through an assignment or a copy but those who have it.
LEMMA HalfWayExcluded ==
  ASSUME VarInv, NEW s \in Threads
  PROVE  /\ ~Alone(s) => /\ todo[s] \notin HalfAssigned
                         /\ todo[s] \notin {pWrite1, pWrite2}
         /\ ~Alone(s) /\ ~Sharing(s) => todo[s] \notin HalfCopied
<1>1. todo[s] \in LockedPoints => Alone(s)
  BY ByThread DEF VarInv, HoldsWell, Alone
<1>2. QED
  BY <1>1 DEF Alone, Sharing, AlonePoints, SharingPoints, LockedPoints,
    HalfAssigned, HalfCopied

\* A thread at work on the value has it, alone or with other readers.
LEMMA AtWork ==
  ASSUME VarInv, NEW t \in Threads,
         todo[t] \in AlonePoints \cup SharingPoints \cup LockedPoints
  PROVE  /\ Alone(t) \/ Sharing(t)
         /\ \A s \in Threads \ {t} : /\ todo[s] \notin HalfAssigned
                                     /\ todo[s] \notin {pWrite1, pWrite2}
         /\ todo[t] \notin HalfAssigned => val[1] = val[2]
<1>1. Alone(t) \/ Sharing(t)
  BY ByThread DEF VarInv, HoldsWell, Alone, Sharing
<1>2. \A s \in Threads \ {t} : ~Alone(s)
  BY <1>1, AloneExcludes, SharingExcludes
<1>3. \A s \in Threads \ {t} : /\ todo[s] \notin HalfAssigned
                               /\ todo[s] \notin {pWrite1, pWrite2}
  BY <1>2, HalfWayExcluded
<1>4. QED
  BY <1>1, <1>3, ByThread DEF VarInv

-----------------------------------------------------------------------------
\* sem_wait of the writers' semaphore, by a writer or by lock.
LEMMA WaitKeeps ==
  ASSUME VarInv, NEW t \in Threads, Wait(t)
  PROVE  VarInv'
<1>1. /\ writer_queue > 0 /\ writer_queue' = writer_queue - 1
      /\ holding' = [holding EXCEPT ![t] = (call[t].op = "lock")]
      /\ UNCHANGED <<val, reader_queue, reader_count, copied, call>>
  BY DEF Wait, At
<1>2. PICK p, q :
        /\ Goes(t, p, q) /\ p # << >>
        /\ q \in CalledAt(call[t].op) \cup DoneAt(call[t].op)
        /\ q \in AlonePoints \/ call[t].op = "lock"
        /\ q \notin SharingPoints
        /\ p \notin CountingPoints /\ q \notin CountingPoints
        /\ p \notin CountedPoints /\ q \notin CountedPoints
        /\ q \notin LockedPoints /\ q # pPost
        /\ p \notin HalfAssigned /\ q \notin HalfAssigned /\ q \notin HalfCopied
        /\ q \in {pWrite1, pWrite2} => call[t].op # "read_and_replace"
  <2>1. \/ Goes(t, pRead0, pRead1) /\ call[t].op = "read"
        \/ Goes(t, pWrite0, pWrite1) /\ call[t].op = "write"
        \/ Goes(t, pReplace0, pReplace1) /\ call[t].op = "read_and_replace"
        \/ Goes(t, pLock, pReturn) /\ call[t].op = "lock"
    BY WaitGoes DEF Wait, VarInv
  <2>2. pReplace1 \notin {pWrite1, pWrite2}
        /\ pRead1 # pPost /\ pWrite1 # pPost /\ pReplace1 # pPost /\ pReturn # pPost
    BY PointTable
  <2>3. QED
    BY <2>1, <2>2, PointsNotEmpty, AlonePointsAre, SharingPointsAre,
      CountingPointsAre, CountedPointsAre, LockedPointsAre, HalfAssignedAre,
      HalfCopiedAre DEF CalledAt, DoneAt
<1>3. writer_queue = 1 /\ \A s \in Threads : ~Alone(s) /\ ~Sharing(s)
  BY <1>1 DEF VarInv, WriterSemaphore
<1>4. /\ holding' \in [Threads -> BOOLEAN]
      /\ holding'[t] <=> call[t].op = "lock"
      /\ \A s \in Threads \ {t} : holding'[s] = holding[s]
  BY <1>1 DEF VarInv, VarTypes
<1>5. VarTypes'
  BY <1>1, <1>2, <1>3, <1>4, TypesKept DEF VarInv, VarTypes
<1>6. WriterSemaphore'
  <2>1. \A s \in Threads : (Alone(s)' <=> s = t) /\ ~Sharing(s)'
    BY <1>2, <1>3, <1>4, OthersStay DEF VarInv, Alone, Sharing
  <2>2. QED
    BY <1>1, <1>3, <2>1 DEF WriterSemaphore
<1>7. ReaderSemaphore' /\ CountExact'
  BY <1>1, <1>2, ReaderKept, CountKept
<1>8. HoldingExact'
  <2>1. HoldsWell(t)'
    BY <1>1, <1>2, <1>4, OthersStay DEF VarInv, HoldsWell
  <2>2. QED
    BY <1>1, <1>2, <1>4, <2>1, HoldingKept
<1>9. ValueWhole'
  <2>1. CopiesWell(t)'
    BY <1>1, <1>2, OthersStay DEF VarInv, CopiesWell
  <2>2. QED
    BY <1>1, <1>2, <2>1, ValueKept
<1>10. QED
  BY <1>5, <1>6, <1>7, <1>8, <1>9 DEF VarInv

\* sem_post of the writers' semaphore, by a writer or by unlock.
LEMMA PostKeeps ==
  ASSUME VarInv, NEW t \in Threads, Post(t)
  PROVE  VarInv'
<1>1. /\ writer_queue' = writer_queue + 1
      /\ holding' = [holding EXCEPT ![t] = FALSE]
      /\ UNCHANGED <<val, reader_queue, reader_count, copied, call>>
  BY DEF Post, At
<1>2. /\ Goes(t, pPost, pReturn)
      /\ call[t].op \in {"read", "write", "read_and_replace", "unlock"}
  BY PostGoes DEF Post, VarInv
<1>3. /\ pReturn \notin AlonePoints /\ pReturn \notin SharingPoints
      /\ pPost \notin CountingPoints /\ pReturn \notin CountingPoints
      /\ pPost \notin CountedPoints /\ pReturn \notin CountedPoints
      /\ pReturn \notin LockedPoints /\ pReturn # pPost
      /\ pPost \notin HalfAssigned /\ pReturn \notin HalfAssigned
      /\ pReturn \notin HalfCopied /\ pReturn \notin {pWrite1, pWrite2}
  BY PointTable, AlonePointsAre, SharingPointsAre, CountingPointsAre,
    CountedPointsAre, LockedPointsAre, HalfAssignedAre, HalfCopiedAre
<1>4. Alone(t)
  BY <1>2, AlonePointsAre DEF Alone, Goes
<1>5. writer_queue = 0 /\ \A s \in Threads : (Alone(s) <=> s = t) /\ ~Sharing(s)
  BY <1>4, AloneExcludes
<1>6. /\ holding' \in [Threads -> BOOLEAN] /\ ~holding'[t]
      /\ \A s \in Threads \ {t} : holding'[s] = holding[s]
  BY <1>1 DEF VarInv, VarTypes
<1>7. VarTypes'
  <2>1. pReturn \in CalledAt(call[t].op) \cup DoneAt(call[t].op)
    BY <1>2 DEF DoneAt
  <2>2. QED
    BY <1>1, <1>2, <1>5, <1>6, <2>1, PointsNotEmpty, TypesKept
      DEF VarInv, VarTypes
<1>8. WriterSemaphore'
  <2>1. \A s \in Threads : ~Alone(s)' /\ ~Sharing(s)'
    BY <1>2, <1>3, <1>5, <1>6, OthersStay DEF VarInv, Alone, Sharing
  <2>2. QED
    BY <1>1, <1>5, <2>1 DEF WriterSemaphore
<1>9. ReaderSemaphore' /\ CountExact'
  BY <1>1, <1>2, <1>3, ReaderKept, CountKept
<1>10. HoldingExact'
  <2>1. HoldsWell(t)'
    BY <1>2, <1>3, <1>6, OthersStay DEF VarInv, HoldsWell
  <2>2. QED
    BY <1>1, <1>2, <1>6, <2>1, HoldingKept
<1>11. ValueWhole'
  <2>1. CopiesWell(t)'
    BY <1>2, <1>3, OthersStay DEF VarInv, CopiesWell
  <2>2. QED
    BY <1>1, <1>2, <1>3, <2>1, ValueKept
<1>12. QED
  BY <1>7, <1>8, <1>9, <1>10, <1>11 DEF VarInv

\* The copy of a half, by a thread that has the value.
LEMMA CopyKeeps ==
  ASSUME VarInv, NEW t \in Threads, NEW h \in Halves, NEW step,
         step = (IF h = 1 THEN "copy1" ELSE "copy2"), At(t, step),
         copied' = [copied EXCEPT ![t][h] = val[h]],
         UNCHANGED <<val, writer_queue, reader_queue, reader_count, holding>>
  PROVE  VarInv'
<1>1. UNCHANGED call
  BY DEF At
<1>2. PICK p, q :
        /\ Goes(t, p, q) /\ p # << >>
        /\ p \in AlonePoints \cup SharingPoints \cup LockedPoints
        /\ q \in CalledAt(call[t].op) \cup DoneAt(call[t].op)
        /\ p \in AlonePoints <=> q \in AlonePoints
        /\ p \in SharingPoints <=> q \in SharingPoints
        /\ p \in CountingPoints <=> q \in CountingPoints
        /\ p \in CountedPoints <=> q \in CountedPoints
        /\ q \in LockedPoints => p \in LockedPoints
        /\ q = pPost => call[t].op # "unlock"
        /\ p \notin HalfAssigned /\ q \notin HalfAssigned
        /\ h = 1 => q \notin {pWrite1, pWrite2}
        /\ h = 2 => p \in HalfCopied /\ q \notin HalfCopied
  <2>1. CASE h = 1
    <3>1. \/ Goes(t, pRead1, pRead2) /\ call[t].op = "read"
          \/ Goes(t, pReplace1, pReplace2) /\ call[t].op = "read_and_replace"
          \/ Goes(t, pLockedRead1, pLockedRead2) /\ call[t].op = "locked_read"
          \/ Goes(t, pShared4, pShared5) /\ call[t].op = "read"
      BY <2>1, Copy1Goes DEF VarInv
    <3>2. \A q \in {pRead2, pReplace2, pLockedRead2, pShared5} :
            q \notin {pWrite1, pWrite2}
      BY PointTable
    <3>3. QED
      BY <2>1, <3>1, <3>2, PointsNotEmpty, AlonePointsAre, SharingPointsAre,
        CountingPointsAre, CountedPointsAre, LockedPointsAre, HalfAssignedAre,
        HalfCopiedAre DEF CalledAt, DoneAt
  <2>2. CASE h = 2
    <3>1. \/ Goes(t, pRead2, pPost) /\ call[t].op = "read"
          \/ Goes(t, pReplace2, pWrite1) /\ call[t].op = "read_and_replace"
          \/ Goes(t, pLockedRead2, pReturn) /\ call[t].op = "locked_read"
          \/ Goes(t, pShared5, pShared6) /\ call[t].op = "read"
      BY <2>2, Copy2Goes DEF VarInv
    <3>2. QED
      BY <2>2, <3>1, PointsNotEmpty, AlonePointsAre, SharingPointsAre,
        CountingPointsAre, CountedPointsAre, LockedPointsAre, HalfAssignedAre,
        HalfCopiedAre DEF CalledAt, DoneAt
  <2>3. QED
    BY <2>1, <2>2 DEF Halves
<1>3. val[1] = val[2]
  BY <1>2, AtWork DEF Goes
<1>4. /\ copied' \in [Threads -> [Halves -> Values \cup {None}]]
      /\ copied'[t][h] = val[h]
      /\ \A k \in Halves \ {h} : copied'[t][k] = copied[t][k]
      /\ \A s \in Threads \ {t} : copied'[s] = copied[s]
  BY DEF VarInv, VarTypes
<1>5. VarTypes'
  BY <1>1, <1>2, <1>4, TypesKept DEF VarInv, VarTypes
<1>6. WriterSemaphore' /\ ReaderSemaphore' /\ CountExact'
  BY <1>2, WriterKept, ReaderKept, CountKept
<1>7. HoldingExact'
  <2>1. HoldsWell(t)
    BY ByThread DEF VarInv
  <2>2. HoldsWell(t)'
    BY <1>1, <1>2, <2>1, OthersStay DEF VarInv, HoldsWell
  <2>3. QED
    BY <1>1, <1>2, <2>2, HoldingKept
<1>8. ValueWhole'
  <2>1. CopiesWell(t)
    BY ByThread DEF VarInv
  <2>2. todo[t] = p /\ todo'[t] = q
    BY <1>2, OthersStay DEF VarInv
  <2>3. ASSUME h = 1 PROVE CopiesWell(t)'
    BY <1>2, <1>4, <2>2, <2>3 DEF CopiesWell
  <2>4. ASSUME h = 2 PROVE CopiesWell(t)'
    <3>1. copied'[t][1] = val[1] /\ copied'[t][2] = val[2]
      BY <1>2, <1>4, <2>1, <2>2, <2>4 DEF CopiesWell, Halves
    <3>2. QED
      BY <1>2, <1>3, <2>2, <2>4, <3>1 DEF CopiesWell
  <2>5. CopiesWell(t)'
    BY <2>3, <2>4 DEF Halves
  <2>6. QED
    BY <1>1, <1>2, <1>4, <2>5, ValueKept
<1>9. QED
  BY <1>5, <1>6, <1>7, <1>8 DEF VarInv

\* The assignment of a half, by the one thread that has the value.
LEMMA AssignKeeps ==
  ASSUME VarInv, NEW t \in Threads, NEW h \in Halves, NEW step,
         step = (IF h = 1 THEN "assign1" ELSE "assign2"), At(t, step),
         val' = [val EXCEPT ![h] = call[t].arg],
         UNCHANGED <<copied, writer_queue, reader_queue, reader_count, holding>>
  PROVE  VarInv'
<1>1. UNCHANGED call
  BY DEF At
<1>2. PICK p, q :
        /\ Goes(t, p, q) /\ p # << >>
        /\ call[t].op \in {"write", "read_and_replace", "locked_write"}
        /\ p \in AlonePoints \cup LockedPoints
        /\ q \in CalledAt(call[t].op) \cup DoneAt(call[t].op)
        /\ p \in AlonePoints <=> q \in AlonePoints
        /\ p \notin SharingPoints /\ q \notin SharingPoints
        /\ p \notin CountingPoints /\ q \notin CountingPoints
        /\ p \notin CountedPoints /\ q \notin CountedPoints
        /\ q \in LockedPoints => p \in LockedPoints
        /\ q \notin HalfCopied
        /\ h = 1 => /\ q \in HalfAssigned
                    /\ q = pWrite2 => p = pWrite1
                    /\ q # pWrite1
        /\ h = 2 => /\ p \in HalfAssigned /\ q \notin HalfAssigned
                    /\ q \notin {pWrite1, pWrite2}
  <2>1. CASE h = 1
    <3>1. \/ /\ Goes(t, pWrite1, pWrite2)
             /\ call[t].op \in {"write", "read_and_replace"}
          \/ Goes(t, pLockedWrite1, pLockedWrite2) /\ call[t].op = "locked_write"
      BY <2>1, Assign1Goes DEF VarInv
    <3>2. pWrite2 # pWrite1 /\ pLockedWrite2 # pWrite1 /\ pLockedWrite2 # pWrite2
      BY PointTable
    <3>3. QED
      BY <2>1, <3>1, <3>2, PointsNotEmpty, AlonePointsAre, SharingPointsAre,
        CountingPointsAre, CountedPointsAre, LockedPointsAre, HalfAssignedAre,
        HalfCopiedAre DEF CalledAt, DoneAt
  <2>2. CASE h = 2
    <3>1. \/ Goes(t, pWrite2, pPost) /\ call[t].op \in {"write", "read_and_replace"}
          \/ Goes(t, pLockedWrite2, pReturn) /\ call[t].op = "locked_write"
      BY <2>2, Assign2Goes DEF VarInv
    <3>2. pPost \notin {pWrite1, pWrite2} /\ pReturn \notin {pWrite1, pWrite2}
      BY PointTable
    <3>3. QED
      BY <2>2, <3>1, <3>2, PointsNotEmpty, AlonePointsAre, SharingPointsAre,
        CountingPointsAre, CountedPointsAre, LockedPointsAre, HalfAssignedAre,
        HalfCopiedAre DEF CalledAt, DoneAt
  <2>3. QED
    BY <2>1, <2>2 DEF Halves
<1>3. call[t] \in Abstract!Calls /\ call[t].arg \in Values
  <2>1. call[t] \in Abstract!Calls
    BY StepGoes DEF VarInv
  <2>2. QED
    BY <1>2, <2>1 DEF Abstract!Calls, Abstract!Writes
<1>4. /\ val' \in [Halves -> Values] /\ val'[h] = call[t].arg
      /\ \A k \in Halves \ {h} : val'[k] = val[k]
  BY <1>3 DEF VarInv, VarTypes
<1>5. VarTypes'
  BY <1>1, <1>2, <1>4, TypesKept DEF VarInv, VarTypes
<1>6. WriterSemaphore' /\ ReaderSemaphore' /\ CountExact'
  BY <1>2, WriterKept, ReaderKept, CountKept
<1>7. HoldingExact'
  <2>1. HoldsWell(t)
    BY ByThread DEF VarInv
  <2>2. HoldsWell(t)'
    BY <1>1, <1>2, <2>1, OthersStay DEF VarInv, HoldsWell
  <2>3. QED
    BY <1>1, <1>2, <2>2, HoldingKept
<1>8. ValueWhole'
  <2>1. CopiesWell(t)
    BY ByThread DEF VarInv
  <2>2. todo[t] = p /\ todo'[t] = q
    BY <1>2, OthersStay DEF VarInv
  <2>3. Alone(t)
    <3>1. p \in LockedPoints => holding[t]
      BY <2>2, ByThread DEF VarInv, HoldsWell
    <3>2. QED
      BY <1>2, <2>2, <3>1 DEF Alone
  <2>4. ASSUME NEW s \in Threads, s # t
        PROVE  /\ todo'[s] = todo[s]
               /\ todo[s] \notin HalfAssigned /\ todo[s] \notin HalfCopied
               /\ todo[s] \notin {pWrite1, pWrite2}
    <3>1. ~Alone(s) /\ ~Sharing(s)
      BY <2>3, <2>4, AloneExcludes
    <3>2. QED
      BY <1>2, <2>4, <3>1, HalfWayExcluded, OthersStay DEF VarInv
  <2>5. ASSUME NEW s \in Threads, s # t PROVE CopiesWell(s)'
    BY <2>4, <2>5 DEF CopiesWell
  <2>6. ASSUME h = 1
        PROVE  /\ CopiesWell(t)'
               /\ ~ \A s \in Threads : todo'[s] \notin HalfAssigned
    <3>1. val'[1] = call[t].arg /\ val'[2] = val[2]
      BY <1>4, <2>6 DEF Halves
    <3>2. QED
      BY <1>1, <1>2, <2>1, <2>2, <2>6, <3>1 DEF CopiesWell
  <2>7. ASSUME h = 2 PROVE CopiesWell(t)' /\ val'[1] = val'[2]
    <3>1. val'[2] = call[t].arg /\ val'[1] = val[1]
      BY <1>4, <2>7 DEF Halves
    <3>2. QED
      BY <1>1, <1>2, <2>1, <2>2, <2>7, <3>1 DEF CopiesWell
  <2>8. QED
    BY <2>5, <2>6, <2>7, ByThreadNext DEF Halves
<1>9. QED
  BY <1>5, <1>6, <1>7, <1>8 DEF VarInv

-----------------------------------------------------------------------------
\* The readers' steps around the copy touch neither the value nor the lock.
LEMMA ReaderStepKeeps ==
  ASSUME VarInv, NEW t \in Threads, call[t].op = "read",
         NEW p \in {pShared0, pShared1, pShared2, pShared3, pShared6, pShared7,
                    pShared8, pShared9},
         NEW q \in {pShared1, pShared2, pShared3, pShared4, pShared7, pShared8,
                    pShared9, pReturn},
         Goes(t, p, q), UNCHANGED <<call, val, copied, holding>>,
         writer_queue' \in Nat, reader_queue' \in Nat, reader_count' \in Nat
  PROVE  VarTypes' /\ HoldingExact' /\ ValueWhole'
<1>1. /\ p # << >> /\ q \in CalledAt("read") \cup DoneAt("read")
      /\ q \notin LockedPoints
      /\ p \notin HalfAssigned /\ q \notin HalfAssigned /\ q \notin HalfCopied
  BY PointsNotEmpty, LockedPointsAre, HalfAssignedAre, HalfCopiedAre
    DEF CalledAt, DoneAt
<1>2. q # pPost /\ q \notin {pWrite1, pWrite2}
  BY PointTable
<1>3. VarTypes'
  BY <1>1, TypesKept DEF VarInv, VarTypes
<1>4. HoldingExact'
  <2>1. HoldsWell(t)
    BY ByThread DEF VarInv
  <2>2. HoldsWell(t)'
    BY <1>1, <1>2, <2>1, OthersStay DEF VarInv, HoldsWell
  <2>3. QED
    BY <2>2, HoldingKept
<1>5. ValueWhole'
  <2>1. CopiesWell(t)'
    BY <1>1, <1>2, OthersStay DEF VarInv, CopiesWell
  <2>2. QED
    BY <1>1, <2>1, ValueKept
<1>6. QED
  BY <1>3, <1>4, <1>5

\* A reader alone in its section: others that are counted have the value.
LEMMA CountedOthersShare ==
  ASSUME VarInv, NEW t \in Threads, Counting(t)
  PROVE  \A s \in Threads \ {t} : s \in Counted <=> Sharing(s)
<1>1. \A s \in Threads \ {t} : ~Counting(s)
  BY CountingExcludes
<1>2. QED
  BY <1>1 DEF Counting, Counted, Sharing, CountingPoints, CountedPoints,
    SharingPoints

\* sem_wait and sem_post of the readers' semaphore.
LEMMA ReaderQueueKeeps ==
  ASSUME VarInv, NEW t \in Threads, ReaderQueue(t)
  PROVE  VarInv'
<1>1. UNCHANGED <<val, writer_queue, reader_count, copied, holding, call>>
  BY DEF ReaderQueue, At
<1>2. CASE At(t, "wait_readers") /\ reader_queue > 0
           /\ reader_queue' = reader_queue - 1
  <2>1. PICK p \in {pShared0, pShared6}, q \in {pShared1, pShared7} :
          /\ Goes(t, p, q) /\ call[t].op = "read"
          /\ p \in SharingPoints <=> q \in SharingPoints
          /\ p \in CountedPoints <=> q \in CountedPoints
    BY <1>2, WaitReadersGoes, SharingPointsAre, CountedPointsAre DEF VarInv
  <2>2. /\ p \notin AlonePoints /\ q \notin AlonePoints /\ q \in CountingPoints
    BY AlonePointsAre, CountingPointsAre
  <2>3. reader_queue = 1 /\ \A s \in Threads : ~Counting(s)
    BY <1>2 DEF VarInv, ReaderSemaphore
  <2>4. VarTypes' /\ HoldingExact' /\ ValueWhole'
    BY <1>1, <1>2, <2>1, <2>3, ReaderStepKeeps DEF VarInv, VarTypes
  <2>5. WriterSemaphore' /\ CountExact'
    BY <1>1, <2>1, <2>2, WriterKept, CountKept
  <2>6. ReaderSemaphore'
    <3>1. \A s \in Threads : Counting(s)' <=> s = t
      BY <2>1, <2>2, <2>3, OthersStay DEF VarInv, Counting
    <3>2. QED
      BY <1>2, <2>3, <3>1 DEF ReaderSemaphore
  <2>7. QED
    BY <2>4, <2>5, <2>6 DEF VarInv
<1>3. CASE At(t, "post_readers") /\ reader_queue' = reader_queue + 1
  <2>1. PICK p \in {pShared3, pShared9}, q \in {pShared4, pReturn} :
          /\ Goes(t, p, q) /\ call[t].op = "read"
          /\ p \in SharingPoints <=> q \in SharingPoints
          /\ p \in CountedPoints <=> q \in CountedPoints
    BY <1>3, PostReadersGoes, SharingPointsAre, CountedPointsAre DEF VarInv
  <2>2. /\ p \notin AlonePoints /\ q \notin AlonePoints
        /\ p \in CountingPoints /\ q \notin CountingPoints
    BY AlonePointsAre, CountingPointsAre
  <2>3. reader_queue = 0 /\ \A s \in Threads : Counting(s) <=> s = t
    BY <2>1, <2>2, CountingExcludes DEF Counting, Goes
  <2>4. VarTypes' /\ HoldingExact' /\ ValueWhole'
    BY <1>1, <1>3, <2>1, <2>3, ReaderStepKeeps DEF VarInv, VarTypes
  <2>5. WriterSemaphore' /\ CountExact'
    BY <1>1, <2>1, <2>2, WriterKept, CountKept
  <2>6. ReaderSemaphore'
    <3>1. \A s \in Threads : ~Counting(s)'
      BY <2>1, <2>2, <2>3, OthersStay DEF VarInv, Counting
    <3>2. QED
      BY <1>3, <2>3, <3>1 DEF ReaderSemaphore
  <2>7. QED
    BY <2>4, <2>5, <2>6 DEF VarInv
<1>4. QED
  BY <1>2, <1>3 DEF ReaderQueue

\* reader_count++ and reader_count--.
LEMMA ReaderCountKeeps ==
  ASSUME VarInv, NEW t \in Threads, ReaderCount(t)
  PROVE  VarInv'
<1>1. UNCHANGED <<val, writer_queue, reader_queue, copied, holding, call>>
  BY DEF ReaderCount, At
<1>2. IsFiniteSet(Counted) /\ reader_count = Cardinality(Counted)
      /\ Cardinality(Counted) \in Nat
  BY FS_CardinalityType DEF VarInv, CountExact
<1>3. CASE At(t, "enter") /\ reader_count' = reader_count + 1
  <2>1. Goes(t, pShared1, pShared2) /\ call[t].op = "read"
    BY <1>3, EnterGoes DEF VarInv
  <2>2. VarTypes' /\ HoldingExact' /\ ValueWhole'
    BY <1>1, <1>2, <1>3, <2>1, ReaderStepKeeps DEF VarInv, VarTypes
  <2>3. WriterSemaphore' /\ ReaderSemaphore'
    BY <1>1, <2>1, WriterKept, ReaderKept, AlonePointsAre, SharingPointsAre,
      CountingPointsAre
  <2>4. Counted' = Counted \cup {t} /\ t \notin Counted
    BY <2>1, OthersStay, CountedPointsAre DEF VarInv, Counted
  <2>5. CountExact'
    BY <1>2, <1>3, <2>4, FS_AddElement DEF CountExact
  <2>6. QED
    BY <2>2, <2>3, <2>5 DEF VarInv
<1>4. CASE At(t, "leave") /\ reader_count' = reader_count - 1
  <2>1. Goes(t, pShared7, pShared8) /\ call[t].op = "read"
    BY <1>4, LeaveGoes DEF VarInv
  <2>2. Counted' = Counted \ {t} /\ t \in Counted
    BY <2>1, OthersStay, CountedPointsAre DEF VarInv, Counted
  <2>3. IsFiniteSet(Counted') /\ Cardinality(Counted') = reader_count - 1
    BY <1>2, <2>2, FS_RemoveElement
  <2>4. reader_count' \in Nat
    BY <1>4, <2>3, FS_CardinalityType
  <2>5. VarTypes' /\ HoldingExact' /\ ValueWhole'
    BY <1>1, <2>1, <2>4, ReaderStepKeeps DEF VarInv, VarTypes
  <2>6. WriterSemaphore' /\ ReaderSemaphore'
    BY <1>1, <2>1, WriterKept, ReaderKept, AlonePointsAre, SharingPointsAre,
      CountingPointsAre
  <2>7. CountExact'
    BY <1>4, <2>3 DEF CountExact
  <2>8. QED
    BY <2>5, <2>6, <2>7 DEF VarInv
<1>5. QED
  BY <1>3, <1>4 DEF ReaderCount

\* The first reader waits for the writers; the others find a reader there.
LEMMA FirstReaderKeeps ==
  ASSUME VarInv, NEW t \in Threads, FirstReader(t)
  PROVE  VarInv'
<1>1. /\ UNCHANGED <<val, reader_queue, reader_count, copied, holding, call>>
      /\ \/ reader_count = 1 /\ writer_queue > 0 /\ writer_queue' = writer_queue - 1
         \/ reader_count # 1 /\ UNCHANGED writer_queue
  BY DEF FirstReader, At
<1>2. Goes(t, pShared2, pShared3) /\ call[t].op = "read"
  BY WaitWritersGoes DEF FirstReader, VarInv
<1>3. /\ todo[t] = pShared2 /\ todo'[t] = pShared3
      /\ \A s \in Threads \ {t} : todo'[s] = todo[s]
  BY <1>2, OthersStay DEF VarInv
<1>4. Counting(t) /\ t \in Counted /\ ~Sharing(t) /\ Sharing(t)'
  BY <1>3, CountingPointsAre, CountedPointsAre, SharingPointsAre
    DEF Counting, Counted, Sharing
<1>5. /\ \A s \in Threads : Alone(s)' <=> Alone(s)
      /\ \A s \in Threads \ {t} : Sharing(s)' <=> Sharing(s)
  BY <1>1, <1>3, AlonePointsAre DEF Alone, Sharing
<1>6. IsFiniteSet(Counted) /\ reader_count = Cardinality(Counted)
  BY DEF VarInv, CountExact
<1>7. WriterSemaphore' /\ writer_queue' \in Nat
  <2>1. CASE reader_count = 1
    <3>1. Counted = {t}
      <4>1. PICK x : Counted = {x}
        BY <1>6, <2>1, FS_Singleton
      <4>2. QED
        BY <1>4, <4>1
    <3>2. \A s \in Threads : ~Sharing(s)
      BY <1>4, <3>1, CountedOthersShare
    <3>3. writer_queue = 1 /\ \A s \in Threads : ~Alone(s)
      BY <1>1, <2>1, <3>2 DEF VarInv, WriterSemaphore
    <3>4. QED
      BY <1>1, <1>4, <1>5, <2>1, <3>3 DEF WriterSemaphore
  <2>2. CASE reader_count # 1
    <3>1. PICK s \in Threads \ {t} : Sharing(s)
      <4>1. Cardinality({t}) = 1
        BY FS_Singleton
      <4>2. Counted # {t}
        BY <1>6, <2>2, <4>1
      <4>3. QED
        BY <1>4, <4>2, CountedOthersShare DEF Counted
    <3>2. writer_queue = 0 /\ \A u \in Threads : ~Alone(u)
      BY <3>1, SharingExcludes
    <3>3. QED
      BY <1>1, <1>4, <1>5, <2>2, <3>2 DEF WriterSemaphore
  <2>3. QED
    BY <2>1, <2>2
<1>8. VarTypes' /\ HoldingExact' /\ ValueWhole'
  BY <1>1, <1>2, <1>7, ReaderStepKeeps DEF VarInv, VarTypes
<1>9. ReaderSemaphore' /\ CountExact'
  BY <1>1, <1>2, ReaderKept, CountKept, CountingPointsAre, CountedPointsAre
<1>10. QED
  BY <1>7, <1>8, <1>9 DEF VarInv

\* The last reader lets the writers in; the others leave a reader there.
LEMMA LastReaderKeeps ==
  ASSUME VarInv, NEW t \in Threads, LastReader(t)
  PROVE  VarInv'
<1>1. /\ UNCHANGED <<val, reader_queue, reader_count, copied, holding, call>>
      /\ writer_queue' = IF reader_count = 0 THEN writer_queue + 1 ELSE writer_queue
  BY DEF LastReader, At
<1>2. Goes(t, pShared8, pShared9) /\ call[t].op = "read"
  BY PostWritersGoes DEF LastReader, VarInv
<1>3. /\ todo[t] = pShared8 /\ todo'[t] = pShared9
      /\ \A s \in Threads \ {t} : todo'[s] = todo[s]
  BY <1>2, OthersStay DEF VarInv
<1>4. Counting(t) /\ t \notin Counted /\ Sharing(t) /\ ~Sharing(t)'
  BY <1>3, CountingPointsAre, CountedPointsAre, SharingPointsAre
    DEF Counting, Counted, Sharing
<1>5. /\ \A s \in Threads : Alone(s)' <=> Alone(s)
      /\ \A s \in Threads \ {t} : Sharing(s)' <=> Sharing(s)
  BY <1>1, <1>3, AlonePointsAre DEF Alone, Sharing
<1>6. IsFiniteSet(Counted) /\ reader_count = Cardinality(Counted)
  BY DEF VarInv, CountExact
<1>7. writer_queue = 0 /\ \A s \in Threads : ~Alone(s)
  BY <1>4, SharingExcludes
<1>8. WriterSemaphore' /\ writer_queue' \in Nat
  <2>1. CASE reader_count = 0
    <3>1. Counted = {}
      BY <1>6, <2>1, FS_EmptySet
    <3>2. \A s \in Threads \ {t} : ~Sharing(s)
      BY <1>4, <3>1, CountedOthersShare
    <3>3. QED
      BY <1>1, <1>4, <1>5, <1>7, <2>1, <3>2 DEF WriterSemaphore
  <2>2. CASE reader_count # 0
    <3>1. Counted # {}
      BY <1>6, <2>2, FS_EmptySet
    <3>2. PICK s \in Threads \ {t} : Sharing(s)
      BY <1>4, <3>1, CountedOthersShare DEF Counted
    <3>3. QED
      BY <1>1, <1>5, <1>7, <2>2, <3>2 DEF WriterSemaphore
  <2>3. QED
    BY <2>1, <2>2
<1>9. VarTypes' /\ HoldingExact' /\ ValueWhole'
  BY <1>1, <1>2, <1>8, ReaderStepKeeps DEF VarInv, VarTypes
<1>10. ReaderSemaphore' /\ CountExact'
  BY <1>1, <1>2, ReaderKept, CountKept, CountingPointsAre, CountedPointsAre
<1>11. QED
  BY <1>8, <1>9, <1>10 DEF VarInv

-----------------------------------------------------------------------------
\* A call begins before its first step, unlock inside and the rest outside.
LEMMA CallKeeps ==
  ASSUME VarInv, NEW t \in Threads, NEW c \in Abstract!Calls, Call(t, c)
  PROVE  VarInv'
<1>1. /\ todo[t] = << >> /\ (c.op \in Abstract!Locked <=> holding[t])
      /\ call' = [call EXCEPT ![t] = c]
      /\ UNCHANGED <<val, writer_queue, reader_queue, reader_count, copied, holding>>
  BY DEF Call
<1>2. c.op \in Ops
  BY OpsOfCalls
<1>3. PICK q :
        /\ Goes(t, << >>, q) /\ q # << >>
        /\ q \in CalledAt(c.op)
        /\ q \in AlonePoints => holding[t]
        /\ q \notin SharingPoints /\ q \notin CountingPoints
        /\ q \notin CountedPoints
        /\ q \in LockedPoints => holding[t]
        /\ q \notin HalfAssigned /\ q \notin HalfCopied
        /\ q \notin {pWrite1, pWrite2}
  <2>1. Goes(t, << >>, FirstPoint(c.op))
    BY <1>1, <1>2, FirstPointOfCall DEF Call, Goes
  <2>2. FirstPoint(c.op) \notin {pWrite1, pWrite2}
    BY <1>2, PointTable DEF FirstPoint, Ops
  <2>3. /\ FirstPoint(c.op) # << >> /\ FirstPoint(c.op) \in CalledAt(c.op)
        /\ FirstPoint(c.op) \notin SharingPoints
        /\ FirstPoint(c.op) \notin CountingPoints
        /\ FirstPoint(c.op) \notin CountedPoints
        /\ FirstPoint(c.op) \notin HalfAssigned
        /\ FirstPoint(c.op) \notin HalfCopied
    BY <1>2, PointsNotEmpty, SharingPointsAre, CountingPointsAre,
      CountedPointsAre, HalfAssignedAre, HalfCopiedAre
      DEF FirstPoint, Ops, CalledAt
  <2>4. FirstPoint(c.op) \in AlonePoints \cup LockedPoints
          => c.op \in Abstract!Locked
    BY <1>2, AlonePointsAre, LockedPointsAre DEF FirstPoint, Ops,
      Abstract!Locked
  <2>5. QED
    BY <1>1, <2>1, <2>2, <2>3, <2>4
<1>4. /\ call' \in [Threads -> Abstract!Calls \cup {None}] /\ call'[t] = c
      /\ \A s \in Threads \ {t} : call'[s] = call[s]
  BY <1>1 DEF VarInv, VarTypes
<1>5. /\ todo'[t] = q /\ \A s \in Threads \ {t} : todo'[s] = todo[s]
      /\ todo' = [s \in Threads |-> todo'[s]]
  BY <1>3, OthersStay DEF VarInv
<1>6. VarTypes'
  <2>1. ASSUME NEW s \in Threads
        PROVE  \/ todo'[s] = << >>
               \/ /\ call'[s] \in Abstract!Calls
                  /\ todo'[s] \in CalledAt(call'[s].op) \cup DoneAt(call'[s].op)
    BY <1>3, <1>4, <1>5 DEF VarInv, VarTypes
  <2>2. QED
    BY <1>1, <1>4, <1>5, <2>1 DEF VarInv, VarTypes
<1>7. << >> \notin AlonePoints /\ << >> \notin SharingPoints
      /\ << >> \notin CountingPoints /\ << >> \notin CountedPoints
      /\ << >> \notin HalfAssigned
  BY AlonePointsAre, SharingPointsAre, CountingPointsAre, CountedPointsAre,
    HalfAssignedAre
<1>8. WriterSemaphore' /\ ReaderSemaphore' /\ CountExact'
  BY <1>1, <1>3, <1>7, WriterKept, ReaderKept, CountKept
<1>9. HoldingExact'
  <2>1. HoldsWell(t)'
    BY <1>1, <1>3, <1>4, <1>5 DEF HoldsWell, Abstract!Locked
  <2>2. QED
    BY <1>1, <1>3, <1>4, <2>1, HoldingKept
<1>10. ValueWhole'
  <2>1. CopiesWell(t)'
    BY <1>3, <1>5 DEF CopiesWell
  <2>2. QED
    BY <1>1, <1>3, <1>4, <1>7, <2>1, ValueKept
<1>11. QED
  BY <1>6, <1>8, <1>9, <1>10 DEF VarInv

\* A call that returns has given back what it took.
LEMMA ReturnKeeps ==
  ASSUME VarInv, NEW t \in Threads, Return(t)
  PROVE  VarInv'
<1>1. /\ Goes(t, pReturn, << >>)
      /\ call' = [call EXCEPT ![t] = None]
      /\ copied' = [copied EXCEPT ![t] = [h \in Halves |-> None]]
      /\ UNCHANGED <<val, writer_queue, reader_queue, reader_count, holding>>
  BY DEF Return, Goes, pReturn
<1>2. /\ call' \in [Threads -> Abstract!Calls \cup {None}]
      /\ copied' \in [Threads -> [Halves -> Values \cup {None}]]
      /\ \A s \in Threads \ {t} : call'[s] = call[s] /\ copied'[s] = copied[s]
  BY <1>1 DEF VarInv, VarTypes
<1>3. /\ todo'[t] = << >> /\ \A s \in Threads \ {t} : todo'[s] = todo[s]
      /\ todo' = [s \in Threads |-> todo'[s]]
  BY <1>1, OthersStay DEF VarInv
<1>4. VarTypes'
  <2>1. ASSUME NEW s \in Threads
        PROVE  \/ todo'[s] = << >>
               \/ /\ call'[s] \in Abstract!Calls
                  /\ todo'[s] \in CalledAt(call'[s].op) \cup DoneAt(call'[s].op)
    BY <1>2, <1>3 DEF VarInv, VarTypes
  <2>2. QED
    BY <1>1, <1>2, <1>3, <2>1 DEF VarInv, VarTypes
<1>5. WriterSemaphore' /\ ReaderSemaphore' /\ CountExact'
  BY <1>1, WriterKept, ReaderKept, CountKept, AlonePointsAre, SharingPointsAre,
    CountingPointsAre, CountedPointsAre
<1>6. HoldingExact'
  <2>1. HoldsWell(t)'
    BY <1>3, LockedPointsAre, PointsNotEmpty DEF HoldsWell
  <2>2. QED
    BY <1>1, <1>2, <2>1, HoldingKept
<1>7. ValueWhole'
  <2>1. CopiesWell(t)'
    BY <1>3, HalfAssignedAre, HalfCopiedAre, PointsNotEmpty DEF CopiesWell
  <2>2. QED
    BY <1>1, <1>2, <2>1, ValueKept, HalfAssignedAre
<1>8. QED
  BY <1>4, <1>5, <1>6, <1>7 DEF VarInv

LEMMA HalfKeeps ==
  ASSUME VarInv, NEW t \in Threads,
         Half(t, 1, "copy1", "assign1") \/ Half(t, 2, "copy2", "assign2")
  PROVE  VarInv'
BY CopyKeeps, AssignKeeps DEF Half, Halves

\* The invariant holds at first, and every step keeps it.
LEMMA VarInit == Init => VarInv
<1>1. SUFFICES ASSUME Init PROVE VarInv
  OBVIOUS
<1>2. \A t \in Threads : todo[t] = << >> /\ ~holding[t]
  BY <1>1 DEF Init
<1>3. \A t \in Threads : /\ ~Alone(t) /\ ~Sharing(t) /\ ~Counting(t)
                         /\ t \notin Counted
                         /\ todo[t] \notin HalfAssigned
  BY <1>2, AlonePointsAre, SharingPointsAre, CountingPointsAre,
    CountedPointsAre,
    HalfAssignedAre DEF Alone, Sharing, Counting, Counted
<1>4. VarTypes
  BY <1>1, InitialIsValue DEF Init, VarTypes, Halves
<1>5. WriterSemaphore /\ ReaderSemaphore
  BY <1>1, <1>3 DEF Init, WriterSemaphore, ReaderSemaphore
<1>6. CountExact
  <2>1. Counted = {}
    BY <1>3 DEF Counted
  <2>2. QED
    BY <1>1, <2>1, FS_EmptySet DEF Init, CountExact
<1>7. HoldingExact
  BY <1>2, LockedPointsAre, PointsNotEmpty DEF HoldingExact
<1>8. ValueWhole
  <2>1. val[1] = val[2]
    BY <1>1 DEF Init, Halves
  <2>2. QED
    BY <1>2, <2>1, HalfAssignedAre, HalfCopiedAre, PointsNotEmpty DEF ValueWhole
<1>9. QED
  BY <1>4, <1>5, <1>6, <1>7, <1>8 DEF VarInv

LEMMA VarNext == VarInv /\ [Next]_vars => VarInv'
<1>1. SUFFICES ASSUME VarInv, [Next]_vars PROVE VarInv'
  OBVIOUS
<1>2. ASSUME NEW t \in Threads, NEW c \in Abstract!Calls, Call(t, c) PROVE VarInv'
  BY <1>1, <1>2, CallKeeps
<1>3. ASSUME NEW t \in Threads, Step(t) PROVE VarInv'
  BY <1>1, <1>3, WaitKeeps, HalfKeeps, PostKeeps, ReaderQueueKeeps,
    ReaderCountKeeps, FirstReaderKeeps, LastReaderKeeps, ReturnKeeps DEF Step
<1>4. CASE UNCHANGED vars
  BY <1>1, <1>4 DEF vars, VarInv, VarTypes, WriterSemaphore, ReaderSemaphore,
    CountExact, HoldingExact, ValueWhole, Alone, Sharing, Counting, Counted
<1>5. QED
  BY <1>1, <1>2, <1>3, <1>4 DEF Next

-----------------------------------------------------------------------------
(***************************************************************************)
(* The refinement: what each step does to the register's variables.        *)
(***************************************************************************)
Holder == IF \E t \in Threads : holding[t]
            THEN CHOOSE t \in Threads : holding[t] ELSE None

StageMap == [t \in Threads |-> Stage(t)]

ResultMap == [t \in Threads |-> Result(t)]

registerVars == <<val[2], Holder, StageMap, call, ResultMap>>

\* At most one thread is between lock and unlock, and the holder is that one.
LEMMA HolderIs ==
  ASSUME VarInv
  PROVE  /\ \A t \in Threads : Holder = t <=> holding[t]
         /\ (\A t \in Threads : ~holding[t]) <=> Holder = None
<1>1. ASSUME NEW t \in Threads, holding[t]
      PROVE  \A s \in Threads : holding[s] <=> s = t
  <2>1. Alone(t)
    BY <1>1 DEF Alone
  <2>2. \A s \in Threads : Alone(s) <=> s = t
    BY <2>1, AloneExcludes
  <2>3. QED
    BY <1>1, <2>2 DEF Alone
<1>2. ASSUME NEW t \in Threads, holding[t] PROVE Holder = t
  BY <1>1, <1>2 DEF Holder
<1>3. (\A t \in Threads : ~holding[t]) => Holder = None
  BY DEF Holder
<1>4. QED
  BY <1>2, <1>3, NoneIsNoThread

\* The same of the next state.
LEMMA HolderNext ==
  ASSUME VarInv'
  PROVE  /\ \A t \in Threads : Holder' = t <=> holding'[t]
         /\ (\A t \in Threads : ~holding'[t]) <=> Holder' = None
<1>1. (VarInv => /\ \A t \in Threads : Holder = t <=> holding[t]
                 /\ (\A t \in Threads : ~holding[t]) <=> Holder = None)'
  BY HolderIs, PTL
<1>2. QED
  BY <1>1

\* What StageOfPoint says, of every thread.
StagesRight ==
  \A t \in Threads :
    /\ Stage(t) = "idle" <=> todo[t] = << >>
    /\ todo[t] # << >> /\ todo[t] \in CalledAt(call[t].op) => Stage(t) = "called"
    /\ todo[t] # << >> /\ todo[t] \in DoneAt(call[t].op) => Stage(t) = "done"

LEMMA StagesAreRight == VarInv => StagesRight
BY StageOfPoint DEF VarInv, StagesRight

\* The stage after a step, by the point it leads to.
LEMMA StageNext ==
  ASSUME VarInv', NEW t \in Threads
  PROVE  /\ Stage(t)' = "idle" <=> todo'[t] = << >>
         /\ todo'[t] # << >> /\ todo'[t] \in CalledAt(call'[t].op)
              => Stage(t)' = "called"
         /\ todo'[t] # << >> /\ todo'[t] \in DoneAt(call'[t].op)
              => Stage(t)' = "done"
<1>1. (VarInv => StagesRight)'
  BY StagesAreRight, PTL
<1>2. QED
  BY <1>1 DEF StagesRight

\* A step of one thread leaves the others' stages and results alone.
LEMMA OthersMapped ==
  ASSUME VarInv, NEW t \in Threads, NEW p, NEW q, Goes(t, p, q),
         \A s \in Threads \ {t} : call'[s] = call[s] /\ copied'[s] = copied[s]
  PROVE  /\ StageMap' = [StageMap EXCEPT ![t] = Stage(t)']
         /\ ResultMap' = [ResultMap EXCEPT ![t] = Result(t)']
<1>1. ASSUME NEW s \in Threads, s # t
      PROVE  Stage(s)' = Stage(s) /\ Result(s)' = Result(s)
  <2>1. todo'[s] = todo[s] /\ call'[s] = call[s] /\ copied'[s] = copied[s]
    BY <1>1, OthersStay DEF VarInv
  <2>2. Left(s)' = Left(s)
    BY <2>1 DEF Left
  <2>3. Stage(s)' = Stage(s)
    BY <2>1, <2>2 DEF Stage
  <2>4. QED
    BY <2>1, <2>3 DEF Result
<1>2. QED
  BY <1>1 DEF StageMap, ResultMap

\* A step inside a call that is not the one where it takes effect.
LEMMA Stutters ==
  ASSUME VarInv, NEW t \in Threads, NEW p, NEW q, Goes(t, p, q),
         UNCHANGED <<call, val[2], Holder>>,
         \A s \in Threads \ {t} : copied'[s] = copied[s],
         Stage(t)' = Stage(t), Stage(t) = "done" => UNCHANGED copied
  PROVE  UNCHANGED registerVars
<1>1. Result(t)' = Result(t)
  BY DEF Result
<1>2. StageMap' = StageMap /\ ResultMap' = ResultMap
  BY <1>1, OthersMapped DEF StageMap, ResultMap
<1>3. QED
  BY <1>2 DEF registerVars

\* The step where a call takes effect.
LEMMA TakesEffect ==
  ASSUME VarInv, NEW t \in Threads, NEW p, NEW q, Goes(t, p, q), UNCHANGED call,
         \A s \in Threads \ {t} : copied'[s] = copied[s],
         Stage(t) = "called", Stage(t)' = "done", Holder \in {None, t},
         Result(t)' = IF call[t].op \in Abstract!Reads THEN val[2] ELSE None,
         val'[2] = IF call[t].op \in Abstract!Writes THEN call[t].arg ELSE val[2],
         Holder' = CASE call[t].op = "lock"   -> t
                     [] call[t].op = "unlock" -> None
                     [] OTHER                 -> Holder
  PROVE  Abstract!Effect(t)
<1>1. /\ StageMap' = [StageMap EXCEPT ![t] = "done"]
      /\ ResultMap' = [ResultMap EXCEPT
           ![t] = IF call[t].op \in Abstract!Reads THEN val[2] ELSE None]
      /\ StageMap[t] = "called"
  <2>1. StageMap[t] = "called"
    BY DEF StageMap
  <2>2. QED
    BY <2>1, OthersMapped
<1>2. QED
  BY <1>1 DEF Abstract!Effect, Holder, StageMap, ResultMap

-----------------------------------------------------------------------------
\* One lemma for each action: the register's step it is, or none.
LEMMA CallRefines ==
  ASSUME VarInv, VarInv', NEW t \in Threads, NEW c \in Abstract!Calls, Call(t, c)
  PROVE  Abstract!Invoke(t, c)
<1>1. /\ todo[t] = << >> /\ (c.op \in Abstract!Locked <=> holding[t])
      /\ call' = [call EXCEPT ![t] = c]
      /\ UNCHANGED <<val, copied, holding>>
  BY DEF Call
<1>2. c.op \in Ops
  BY OpsOfCalls
<1>3. Goes(t, << >>, FirstPoint(c.op))
  BY <1>1, <1>2, FirstPointOfCall DEF Call, Goes
<1>4. FirstPoint(c.op) # << >> /\ FirstPoint(c.op) \in CalledAt(c.op)
  BY <1>2, PointsNotEmpty DEF FirstPoint, Ops, CalledAt
<1>5. call'[t] = c /\ \A s \in Threads \ {t} : call'[s] = call[s]
  BY <1>1 DEF VarInv, VarTypes
<1>6. todo'[t] = FirstPoint(c.op)
  BY <1>3, OthersStay DEF VarInv
<1>7. Stage(t) = "idle" /\ Stage(t)' = "called"
  BY <1>1, <1>4, <1>5, <1>6, StageOfPoint, StageNext DEF VarInv
<1>8. Result(t) = None /\ Result(t)' = None
  BY <1>7 DEF Result
<1>9. StageMap[t] = "idle" /\ ResultMap[t] = None
  BY <1>7, <1>8 DEF StageMap, ResultMap
<1>10. /\ StageMap' = [StageMap EXCEPT ![t] = "called"]
       /\ ResultMap' = [ResultMap EXCEPT ![t] = None]
  BY <1>1, <1>3, <1>5, <1>7, <1>8, OthersMapped
<1>11. ResultMap' = ResultMap
  BY <1>9, <1>10 DEF ResultMap
<1>12. Holder' = Holder /\ (c.op \in Abstract!Locked <=> Holder = t)
  BY <1>1, HolderIs DEF Holder
<1>13. QED
  BY <1>1, <1>9, <1>10, <1>11, <1>12
    DEF Abstract!Invoke, Holder, StageMap, ResultMap

\* A return is the register's.
LEMMA ReturnRefines ==
  ASSUME VarInv, VarInv', NEW t \in Threads, Return(t)
  PROVE  Abstract!Return(t)
<1>1. /\ Goes(t, pReturn, << >>)
      /\ call' = [call EXCEPT ![t] = None]
      /\ copied' = [copied EXCEPT ![t] = [h \in Halves |-> None]]
      /\ UNCHANGED <<val, holding>>
  BY DEF Return, Goes, pReturn
<1>2. \A s \in Threads \ {t} : call'[s] = call[s] /\ copied'[s] = copied[s]
  BY <1>1 DEF VarInv, VarTypes
<1>3. todo[t] = pReturn /\ todo'[t] = << >>
  BY <1>1, OthersStay DEF VarInv
<1>4. Stage(t) = "done"
  <2>1. pReturn \in DoneAt(call[t].op)
    <3>1. call[t] \in Abstract!Calls
      BY <1>3, PointsNotEmpty DEF VarInv, VarTypes
    <3>2. QED
      BY <3>1, OpsOfCalls DEF Ops, DoneAt
  <2>2. QED
    BY <1>3, <2>1, PointsNotEmpty, StageOfPoint DEF VarInv
<1>5. Stage(t)' = "idle"
  BY <1>3, StageNext
<1>6. Result(t)' = None
  BY <1>5 DEF Result
<1>7. /\ StageMap' = [StageMap EXCEPT ![t] = "idle"]
      /\ ResultMap' = [ResultMap EXCEPT ![t] = None]
      /\ StageMap[t] = "done"
  <2>1. StageMap[t] = "done"
    BY <1>4 DEF StageMap
  <2>2. QED
    BY <1>1, <1>2, <1>5, <1>6, <2>1, OthersMapped
<1>8. Holder' = Holder
  BY <1>1 DEF Holder
<1>9. QED
  BY <1>1, <1>7, <1>8 DEF Abstract!Return, Holder, StageMap, ResultMap

\* A step inside a call, by the points it goes between.
LEMMA StageGoes ==
  ASSUME VarInv, VarInv', NEW t \in Threads, NEW p, NEW q, Goes(t, p, q),
         UNCHANGED call, p # << >>, q # << >>
  PROVE  /\ p \in CalledAt(call[t].op) => Stage(t) = "called"
         /\ p \in DoneAt(call[t].op) => Stage(t) = "done"
         /\ q \in CalledAt(call[t].op) => Stage(t)' = "called"
         /\ q \in DoneAt(call[t].op) => Stage(t)' = "done"
<1>1. todo[t] = p /\ todo'[t] = q
  BY OthersStay DEF VarInv
<1>2. QED
  BY <1>1, StageOfPoint, StageNext DEF VarInv

\* sem_wait is where lock takes effect, sem_post where unlock does.
LEMMA WaitRefines ==
  ASSUME VarInv, VarInv', NEW t \in Threads, Wait(t)
  PROVE  Abstract!Effect(t) \/ UNCHANGED registerVars
<1>1. /\ writer_queue > 0
      /\ holding' = [holding EXCEPT ![t] = (call[t].op = "lock")]
      /\ UNCHANGED <<val, copied, call>>
  BY DEF Wait, At
<1>2. \A s \in Threads : ~holding[s]
  BY <1>1 DEF VarInv, WriterSemaphore, Alone
<1>3. Holder = None
  BY <1>2, HolderIs
<1>4. /\ holding'[t] <=> call[t].op = "lock"
      /\ \A s \in Threads \ {t} : ~holding'[s]
  BY <1>1, <1>2 DEF VarInv, VarTypes
<1>5. \/ Goes(t, pRead0, pRead1) /\ call[t].op = "read"
      \/ Goes(t, pWrite0, pWrite1) /\ call[t].op = "write"
      \/ Goes(t, pReplace0, pReplace1) /\ call[t].op = "read_and_replace"
      \/ Goes(t, pLock, pReturn) /\ call[t].op = "lock"
  BY WaitGoes DEF Wait, VarInv
<1>6. CASE call[t].op = "lock"
  <2>1. Goes(t, pLock, pReturn)
    BY <1>5, <1>6
  <2>2. Stage(t) = "called" /\ Stage(t)' = "done"
    BY <1>1, <1>6, <2>1, PointsNotEmpty, StageGoes DEF CalledAt, DoneAt
  <2>3. Holder' = t
    BY <1>4, <1>6, HolderNext
  <2>4. Result(t)' = None
    BY <1>1, <1>6 DEF Result
  <2>5. Abstract!Effect(t)
    BY <1>1, <1>3, <1>6, <2>1, <2>2, <2>3, <2>4, TakesEffect
      DEF Abstract!Reads, Abstract!Writes
  <2>6. QED
    BY <2>5
<1>7. CASE call[t].op # "lock"
  <2>1. Holder' = None
    BY <1>4, <1>7, HolderNext
  <2>2. PICK p, q : Goes(t, p, q) /\ p # << >> /\ q # << >>
                    /\ p \in CalledAt(call[t].op) /\ q \in CalledAt(call[t].op)
    BY <1>5, <1>7, PointsNotEmpty DEF CalledAt
  <2>3. Stage(t) = "called" /\ Stage(t)' = "called"
    BY <1>1, <2>2, StageGoes
  <2>4. QED
    BY <1>1, <1>3, <2>1, <2>2, <2>3, Stutters
<1>8. QED
  BY <1>6, <1>7

LEMMA PostRefines ==
  ASSUME VarInv, VarInv', NEW t \in Threads, Post(t)
  PROVE  Abstract!Effect(t) \/ UNCHANGED registerVars
<1>1. /\ holding' = [holding EXCEPT ![t] = FALSE]
      /\ UNCHANGED <<val, copied, call>>
  BY DEF Post, At
<1>2. /\ Goes(t, pPost, pReturn) /\ todo[t] = pPost
      /\ call[t].op \in {"read", "write", "read_and_replace", "unlock"}
  BY PostGoes DEF Post, VarInv, Goes
<1>3. Alone(t)
  BY <1>2, AlonePointsAre DEF Alone
<1>4. \A s \in Threads \ {t} : ~holding[s]
  <2>1. \A s \in Threads \ {t} : ~Alone(s)
    BY <1>3, AloneExcludes
  <2>2. QED
    BY <2>1 DEF Alone
<1>5. \A s \in Threads : ~holding'[s]
  BY <1>1, <1>4 DEF VarInv, VarTypes
<1>6. Holder' = None
  BY <1>5, HolderNext
<1>7. HoldsWell(t)
  BY ByThread DEF VarInv
<1>8. CASE call[t].op = "unlock"
  <2>1. Holder = t
    BY <1>2, <1>7, <1>8, HolderIs DEF HoldsWell
  <2>2. Stage(t) = "called" /\ Stage(t)' = "done"
    BY <1>1, <1>2, <1>8, PointsNotEmpty, StageGoes DEF CalledAt, DoneAt
  <2>3. Result(t)' = None
    BY <1>1, <1>8 DEF Result
  <2>4. Abstract!Effect(t)
    BY <1>1, <1>2, <1>6, <1>8, <2>1, <2>2, <2>3, TakesEffect
      DEF Abstract!Reads, Abstract!Writes
  <2>5. QED
    BY <2>4
<1>9. CASE call[t].op # "unlock"
  <2>1. ~holding[t]
    BY <1>2, <1>7, <1>9, PointsNotEmpty DEF HoldsWell, Abstract!Locked
  <2>2. Holder = None
    BY <1>4, <2>1, HolderIs
  <2>3. Stage(t) = "done" /\ Stage(t)' = "done"
    BY <1>1, <1>2, <1>9, PointsNotEmpty, StageGoes DEF DoneAt
  <2>4. QED
    BY <1>1, <1>2, <1>6, <2>2, <2>3, Stutters
<1>10. QED
  BY <1>8, <1>9

\* While a thread is at work on the value no other thread has the lock.
LEMMA HolderAtWork ==
  ASSUME VarInv, NEW t \in Threads, Alone(t) \/ Sharing(t)
  PROVE  Holder \in {None, t}
<1>1. \A s \in Threads \ {t} : ~Alone(s)
  BY AloneExcludes, SharingExcludes
<1>2. \A s \in Threads \ {t} : ~holding[s]
  BY <1>1 DEF Alone
<1>3. QED
  BY <1>2, HolderIs

\* The copy of the second half is where a read takes effect.
LEMMA CopyRefines ==
  ASSUME VarInv, VarInv', NEW t \in Threads, NEW h \in Halves, NEW step,
         step = (IF h = 1 THEN "copy1" ELSE "copy2"), At(t, step),
         copied' = [copied EXCEPT ![t][h] = val[h]],
         UNCHANGED <<val, holding>>
  PROVE  Abstract!Effect(t) \/ UNCHANGED registerVars
<1>1. UNCHANGED call /\ Holder' = Holder
  BY DEF At, Holder
<1>2. /\ copied'[t][h] = val[h]
      /\ \A k \in Halves \ {h} : copied'[t][k] = copied[t][k]
      /\ \A s \in Threads \ {t} : copied'[s] = copied[s]
  BY DEF VarInv, VarTypes
<1>3. CASE h = 1
  <2>1. \/ Goes(t, pRead1, pRead2) /\ call[t].op = "read"
        \/ Goes(t, pReplace1, pReplace2) /\ call[t].op = "read_and_replace"
        \/ Goes(t, pLockedRead1, pLockedRead2) /\ call[t].op = "locked_read"
        \/ Goes(t, pShared4, pShared5) /\ call[t].op = "read"
    BY <1>3, Copy1Goes DEF VarInv
  <2>2. PICK p, q : Goes(t, p, q) /\ p # << >> /\ q # << >>
                    /\ p \in CalledAt(call[t].op) /\ q \in CalledAt(call[t].op)
    BY <2>1, PointsNotEmpty DEF CalledAt
  <2>3. Stage(t) = "called" /\ Stage(t)' = "called"
    BY <1>1, <2>2, StageGoes
  <2>4. QED
    BY <1>1, <1>2, <2>2, <2>3, Stutters
<1>4. CASE h = 2 /\ call[t].op = "read_and_replace"
  <2>1. Goes(t, pReplace2, pWrite1)
    BY <1>4, Copy2Goes DEF VarInv
  <2>2. Stage(t) = "called" /\ Stage(t)' = "called"
    BY <1>1, <1>4, <2>1, PointsNotEmpty, StageGoes DEF CalledAt
  <2>3. QED
    BY <1>1, <1>2, <2>1, <2>2, Stutters
<1>5. CASE h = 2 /\ call[t].op # "read_and_replace"
  <2>1. \/ Goes(t, pRead2, pPost) /\ call[t].op = "read"
        \/ Goes(t, pLockedRead2, pReturn) /\ call[t].op = "locked_read"
        \/ Goes(t, pShared5, pShared6) /\ call[t].op = "read"
    BY <1>5, Copy2Goes DEF VarInv
  <2>2. PICK p, q : /\ Goes(t, p, q) /\ p # << >> /\ q # << >>
                    /\ p \in CalledAt(call[t].op) /\ q \in DoneAt(call[t].op)
                    /\ p \in AlonePoints \cup SharingPoints \cup LockedPoints
                    /\ p \in HalfCopied /\ p \notin HalfAssigned
                    /\ call[t].op \in {"read", "locked_read"}
    BY <2>1, PointsNotEmpty, AlonePointsAre, SharingPointsAre, LockedPointsAre,
      HalfCopiedAre, HalfAssignedAre DEF CalledAt, DoneAt
  <2>3. Stage(t) = "called" /\ Stage(t)' = "done"
    BY <1>1, <2>2, StageGoes
  <2>4. todo[t] = p
    BY <2>2 DEF Goes
  <2>5. val[1] = val[2] /\ (Alone(t) \/ Sharing(t))
    BY <2>2, <2>4, AtWork
  <2>6. copied[t][1] = val[1]
    BY <2>2, <2>4, ByThread DEF VarInv, CopiesWell
  <2>7. copied'[t][1] = val[2] /\ copied'[t][2] = val[2]
    BY <1>2, <1>5, <2>5, <2>6 DEF Halves
  <2>8. Result(t)' = val[2]
    BY <1>1, <2>2, <2>3, <2>7 DEF Result
  <2>9. Holder \in {None, t}
    BY <2>5, HolderAtWork
  <2>10. Abstract!Effect(t)
    BY <1>1, <1>2, <2>2, <2>3, <2>8, <2>9, TakesEffect
      DEF Abstract!Reads, Abstract!Writes
  <2>11. QED
    BY <2>10
<1>6. QED
  BY <1>3, <1>4, <1>5 DEF Halves

\* The assignment of the second half is where a write takes effect.
LEMMA AssignRefines ==
  ASSUME VarInv, VarInv', NEW t \in Threads, NEW h \in Halves, NEW step,
         step = (IF h = 1 THEN "assign1" ELSE "assign2"), At(t, step),
         val' = [val EXCEPT ![h] = call[t].arg],
         UNCHANGED <<copied, holding>>
  PROVE  Abstract!Effect(t) \/ UNCHANGED registerVars
<1>1. UNCHANGED call /\ Holder' = Holder
  BY DEF At, Holder
<1>2. CASE h = 1
  <2>1. \/ /\ Goes(t, pWrite1, pWrite2)
           /\ call[t].op \in {"write", "read_and_replace"}
        \/ Goes(t, pLockedWrite1, pLockedWrite2) /\ call[t].op = "locked_write"
    BY <1>2, Assign1Goes DEF VarInv
  <2>2. PICK p, q : Goes(t, p, q) /\ p # << >> /\ q # << >>
                    /\ p \in CalledAt(call[t].op) /\ q \in CalledAt(call[t].op)
    BY <2>1, PointsNotEmpty DEF CalledAt
  <2>3. Stage(t) = "called" /\ Stage(t)' = "called"
    BY <1>1, <2>2, StageGoes
  <2>4. val'[2] = val[2]
    BY <1>2 DEF VarInv, VarTypes, Halves
  <2>5. QED
    BY <1>1, <2>2, <2>3, <2>4, Stutters
<1>3. CASE h = 2
  <2>1. \/ Goes(t, pWrite2, pPost) /\ call[t].op \in {"write", "read_and_replace"}
        \/ Goes(t, pLockedWrite2, pReturn) /\ call[t].op = "locked_write"
    BY <1>3, Assign2Goes DEF VarInv
  <2>2. PICK p, q : /\ Goes(t, p, q) /\ p # << >> /\ q # << >>
                    /\ p \in CalledAt(call[t].op) /\ q \in DoneAt(call[t].op)
                    /\ p \in AlonePoints \cup LockedPoints
                    /\ call[t].op \in {"write", "read_and_replace", "locked_write"}
                    /\ call[t].op = "read_and_replace" => p = pWrite2
    BY <2>1, PointsNotEmpty, AlonePointsAre, LockedPointsAre DEF CalledAt,
      DoneAt
  <2>3. Stage(t) = "called" /\ Stage(t)' = "done"
    BY <1>1, <2>2, StageGoes
  <2>4. todo[t] = p
    BY <2>2 DEF Goes
  <2>5. Alone(t) \/ Sharing(t)
    BY <2>2, <2>4, AtWork
  <2>6. Holder \in {None, t}
    BY <2>5, HolderAtWork
  <2>7. val'[2] = call[t].arg
    BY <1>3 DEF VarInv, VarTypes, Halves
  <2>8. call[t].op = "read_and_replace" =>
          copied[t][1] = val[2] /\ copied[t][2] = val[2]
    BY <2>2, <2>4, ByThread DEF VarInv, CopiesWell
  <2>9. Result(t)' = IF call[t].op = "read_and_replace" THEN val[2] ELSE None
    BY <1>1, <2>2, <2>3, <2>8 DEF Result
  <2>10. Abstract!Effect(t)
    BY <1>1, <2>2, <2>3, <2>6, <2>7, <2>9, TakesEffect
      DEF Abstract!Reads, Abstract!Writes
  <2>11. QED
    BY <2>10
<1>4. QED
  BY <1>2, <1>3 DEF Halves

LEMMA HalfRefines ==
  ASSUME VarInv, VarInv', NEW t \in Threads,
         Half(t, 1, "copy1", "assign1") \/ Half(t, 2, "copy2", "assign2")
  PROVE  Abstract!Effect(t) \/ UNCHANGED registerVars
BY CopyRefines, AssignRefines DEF Half, Halves

\* The readers' steps around the copy.
LEMMA ReaderRefines ==
  ASSUME VarInv, VarInv', NEW t \in Threads,
         ReaderQueue(t) \/ ReaderCount(t) \/ FirstReader(t) \/ LastReader(t)
  PROVE  UNCHANGED registerVars
<1>1. UNCHANGED <<val, copied, holding, call>>
  BY DEF ReaderQueue, ReaderCount, FirstReader, LastReader, At
<1>2. PICK p, q : /\ Goes(t, p, q) /\ call[t].op = "read"
                  /\ \/ /\ p \in {pShared0, pShared1, pShared2, pShared3}
                        /\ q \in {pShared1, pShared2, pShared3, pShared4}
                     \/ /\ p \in {pShared6, pShared7, pShared8, pShared9}
                        /\ q \in {pShared7, pShared8, pShared9, pReturn}
  BY WaitReadersGoes, PostReadersGoes, EnterGoes, LeaveGoes, WaitWritersGoes,
    PostWritersGoes DEF ReaderQueue, ReaderCount, FirstReader, LastReader, VarInv
<1>3. /\ p # << >> /\ q # << >>
      /\ \/ p \in CalledAt(call[t].op) /\ q \in CalledAt(call[t].op)
         \/ p \in DoneAt(call[t].op) /\ q \in DoneAt(call[t].op)
  BY <1>2, PointsNotEmpty DEF CalledAt, DoneAt
<1>4. Stage(t)' = Stage(t)
  BY <1>1, <1>2, <1>3, StageGoes
<1>5. Holder' = Holder
  BY <1>1 DEF Holder
<1>6. QED
  BY <1>1, <1>2, <1>4, <1>5, Stutters

-----------------------------------------------------------------------------
\* The initial states, and every step, map to the register's.
LEMMA InitRefines == Init => Abstract!Init
<1>1. SUFFICES ASSUME Init PROVE Abstract!Init
  OBVIOUS
<1>2. VarInv
  BY <1>1, VarInit
<1>3. \A t \in Threads : Stage(t) = "idle" /\ Result(t) = None
  <2>1. \A t \in Threads : todo[t] = << >>
    BY <1>1 DEF Init
  <2>2. \A t \in Threads : Stage(t) = "idle"
    BY <1>2, <2>1, StageOfPoint DEF VarInv
  <2>3. QED
    BY <2>2 DEF Result
<1>4. Holder = None
  BY <1>1, <1>2, HolderIs DEF Init
<1>5. val[2] \in Values
  BY <1>1, InitialIsValue DEF Init, Halves
<1>6. QED
  BY <1>1, <1>3, <1>4, <1>5 DEF Abstract!Init, Init, Holder

LEMMA NextRefines ==
  ASSUME VarInv, VarInv', [Next]_vars
  PROVE  [Abstract!Next]_registerVars
<1>1. ASSUME NEW t \in Threads, NEW c \in Abstract!Calls, Call(t, c)
      PROVE  Abstract!Next
  BY <1>1, CallRefines DEF Abstract!Next
<1>2. ASSUME NEW t \in Threads, Step(t)
      PROVE  Abstract!Next \/ UNCHANGED registerVars
  BY <1>2, WaitRefines, HalfRefines, PostRefines, ReaderRefines, ReturnRefines
    DEF Step, Abstract!Next
<1>3. CASE UNCHANGED vars
  <2>1. UNCHANGED <<val, holding, todo, call, copied>>
    BY <1>3 DEF vars
  <2>2. \A t \in Threads : Stage(t)' = Stage(t)
    BY <2>1 DEF Stage, Left
  <2>3. \A t \in Threads : Result(t)' = Result(t)
    BY <2>1, <2>2 DEF Result
  <2>4. QED
    BY <2>1, <2>2, <2>3 DEF registerVars, Holder, StageMap, ResultMap
<1>4. QED
  BY <1>1, <1>2, <1>3 DEF Next

(***************************************************************************)
(* Either class, for any threads and values and any number of calls, keeps *)
(* its semaphores, its reader_count and the halves of its value in step:   *)
(* who assigns is alone, who copies is with readers only.                  *)
(***************************************************************************)
THEOREM AlwaysVarInv == Spec => []VarInv
BY VarInit, VarNext, PTL DEF Spec

(***************************************************************************)
(* Each call of read, write, read_and_replace and of the locked calls of   *)
(* shared/atomic.h takes effect at once and whole, for any threads, values *)
(* and number of calls, in AtomicVar and in AtomicMultipleReadersVar.      *)
(***************************************************************************)
THEOREM AtomicVarImplementsRegister == Spec => ImplementsRegister
<1>1. [][VarInv /\ VarInv' /\ [Next]_vars]_vars => [][Abstract!Next]_registerVars
  <2>1. VarInv /\ VarInv' /\ [Next]_vars => [Abstract!Next]_registerVars
    BY NextRefines
  <2>2. UNCHANGED vars => UNCHANGED registerVars
    BY DEF vars, registerVars, Holder, StageMap, ResultMap, Stage, Left, Result
  <2>3. QED
    BY <2>1, <2>2, PTL
<1>2. QED
  BY <1>1, AlwaysVarInv, InitRefines, PTL
    DEF Spec, ImplementsRegister, Abstract!Spec, registerVars, Holder, StageMap,
      ResultMap
=============================================================================
