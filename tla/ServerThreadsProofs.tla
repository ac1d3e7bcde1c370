------------------------- MODULE ServerThreadsProofs -------------------------
(***************************************************************************)
(* Proofs about the four threads of the server process, for any number of  *)
(* datagrams, of messages a datagram leads to, and of receive errors:      *)
(* nothing is lost, repeated or overtaken between the threads, the process *)
(* ends with everything sent and written, and the sender never uses a      *)
(* closed socket.                                                          *)
(***************************************************************************)
EXTENDS ServerThreads, SequenceTheorems, TLAPS

\* What travels on the queues: a datagram, or a message of one.
Element == Nat \cup (Nat \X Nat)

Joining == {"join_sender", "join_disk", "close", "return", "exited"}

TypesOK ==
  /\ main_pc \in {"start", "top", "drain", "next", "push", "stop_receiver",
                  "stop_sender", "stop_disk", "failed"} \cup Joining
  /\ must_terminate \in [Consumers \cup {"receiver"} -> BOOLEAN]
  /\ arrived \in Nat
  /\ receive_queue \in Seq(Nat) /\ input_queue \in Seq(Nat)
  /\ accepted \in Seq(Nat) /\ handled \in Seq(Nat)
  /\ pending_messages \in Seq(Element)
  /\ queue \in [Consumers -> Seq(Element)]
  /\ batch \in [Consumers -> Seq(Element)]
  /\ pushed \in [Consumers -> Seq(Element)]
  /\ used \in [Consumers -> Seq(Element)]
  /\ consumer_pc \in [Consumers -> {"idle", "flag", "drain", "use", "done"}]
  /\ terminate_read \in [Consumers -> BOOLEAN]

\* Each pass of main() has emptied its input queue before the next drain.
InputUsedUp == main_pc \notin {"next", "push"} => input_queue = << >>

\* Each pass of a consumer has used up its batch before the next drain.
BatchUsedUp ==
  \A c \in Consumers : consumer_pc[c] # "use" => batch[c] = << >>

\* main() tells a consumer to stop after its last push to it, and a consumer
\* has read only what main() has written.
ToldAfterLastPush ==
  /\ must_terminate["sender"] => main_pc \in Joining \cup {"stop_disk"}
  /\ must_terminate["disk"] => main_pc \in Joining
  /\ \A c \in Consumers : terminate_read[c] => must_terminate[c]

\* After the drain that follows a TRUE flag the queue stays empty; a thread
\* ends only there.
LastDrain ==
  \A c \in Consumers :
    /\ terminate_read[c] /\ consumer_pc[c] \in {"use", "done"}
         => queue[c] = << >>
    /\ consumer_pc[c] = "done" => terminate_read[c]

\* Where main() is past a join, the thread it waited for is done; where the
\* threads were never created, they are idle.
Joined ==
  /\ main_pc \in Joining \ {"join_sender"} => consumer_pc["sender"] = "done"
  /\ main_pc \in {"close", "return", "exited"} => consumer_pc["disk"] = "done"
  /\ main_pc \in {"start", "failed"} =>
       \A c \in Consumers : consumer_pc[c] = "idle"

SocketWhileServing ==
  main_pc \notin {"start", "failed", "return", "exited"} => socket_open

IInv ==
  /\ TypesOK
  /\ HandedOverInOrder
  /\ InputUsedUp
  /\ BatchUsedUp
  /\ ToldAfterLastPush
  /\ LastDrain
  /\ Joined
  /\ SocketWhileServing

-----------------------------------------------------------------------------
(***************************************************************************)
(* Queues in a row: s was taken out, t is under way, u is still queued.    *)
(***************************************************************************)
\* Taking the head of the middle one changes nothing in all.
LEMMA TakeHead ==
  ASSUME NEW S, NEW s \in Seq(S), NEW t \in Seq(S), NEW u \in Seq(S),
         t # << >>
  PROVE  /\ Head(t) \in S
         /\ Tail(t) \in Seq(S)
         /\ Append(s, Head(t)) \in Seq(S)
         /\ Append(s, Head(t)) \o Tail(t) \o u = s \o t \o u
<1>1. Head(t) \in S /\ Tail(t) \in Seq(S)
  BY HeadTailProperties
<1>2. Append(s, Head(t)) \in Seq(S)
  BY <1>1
<1>3. Append(s, Head(t)) \o Tail(t) = s \o t
  BY <1>1, <1>2
<1>4. QED
  BY <1>1, <1>2, <1>3

\* Adding to the last one adds to the whole.
LEMMA AppendLast ==
  ASSUME NEW S, NEW s \in Seq(S), NEW t \in Seq(S), NEW e \in S
  PROVE  s \o Append(t, e) = Append(s \o t, e)
OBVIOUS

\* Moving the last one into an empty middle one changes nothing in all.
LEMMA MoveLast ==
  ASSUME NEW S, NEW s \in Seq(S), NEW u \in Seq(S)
  PROVE  s \o u \o << >> = s \o << >> \o u
<1>1. s \o << >> = s /\ s \o u \in Seq(S)
  OBVIOUS
<1>2. s \o u \o << >> = s \o u
  BY <1>1, ConcatEmptySeq
<1>3. QED
  BY <1>1, <1>2

-----------------------------------------------------------------------------
\* The server starts with empty queues.
LEMMA InitIInv == Init => IInv
<1>1. << >> \in Seq(Nat) /\ << >> \in Seq(Element)
  OBVIOUS
<1>2. << >> \o << >> \o << >> = << >>
  OBVIOUS
<1>3. QED
  BY <1>1, <1>2 DEF Init, IInv, TypesOK, HandedOverInOrder, InputUsedUp,
    BatchUsedUp, ToldAfterLastPush, LastDrain, Joined, SocketWhileServing,
    Joining, Consumers

\* A push to a queue keeps the row of the queues, whatever is pushed.
LEMMA PushKeepsOrder ==
  ASSUME TypesOK, HandedOverInOrder,
         NEW c \in Consumers, NEW elements \in Seq(Element),
         Push(c, elements), UNCHANGED <<used, batch>>
  PROVE  /\ queue' \in [Consumers -> Seq(Element)]
         /\ pushed' \in [Consumers -> Seq(Element)]
         /\ \A d \in Consumers : (used[d] \o batch[d] \o queue[d] = pushed[d])'
<1> DEFINE taken == used[c] \o batch[c]
           left == queue[c]
           all == pushed[c]
<1>1. /\ taken \in Seq(Element) /\ left \in Seq(Element)
      /\ all \in Seq(Element) /\ taken \o left = all
  <2>1. /\ used[c] \in Seq(Element) /\ batch[c] \in Seq(Element)
        /\ left \in Seq(Element) /\ all \in Seq(Element)
    BY DEF TypesOK
  <2>2. used[c] \o batch[c] \in Seq(Element)
    BY <2>1
  <2>3. QED
    BY <2>1, <2>2 DEF HandedOverInOrder
<1>2. /\ queue' = [queue EXCEPT ![c] = left \o elements]
      /\ pushed' = [pushed EXCEPT ![c] = all \o elements]
  BY DEF Push
<1>3. taken = (used[c] \o batch[c])'
  OBVIOUS
<1> HIDE DEF taken, left, all
<1>4. left \o elements \in Seq(Element) /\ all \o elements \in Seq(Element)
  BY <1>1
<1>5. taken \o (left \o elements) = all \o elements
  <2>1. taken \in Seq(Element) /\ left \in Seq(Element)
    BY <1>1
  <2>2. taken \o (left \o elements) = (taken \o left) \o elements
    BY <2>1
  <2>3. QED
    BY <1>1, <2>2
<1>6. QED
  BY <1>2, <1>3, <1>4, <1>5 DEF TypesOK, HandedOverInOrder

\* main() keeps the invariant.
LEMMA MainStep ==
  ASSUME IInv, Main
  PROVE  IInv'
<1> USE DEF Consumers, Joining, Goto, main_vars, queue_vars, consumer_vars,
            receiver_vars, process_vars
<1> DEFINE Rest == /\ InputUsedUp /\ BatchUsedUp /\ ToldAfterLastPush
                   /\ LastDrain /\ Joined /\ SocketWhileServing
<1>0. IInv <=> TypesOK /\ HandedOverInOrder /\ Rest
  BY DEF IInv
<1>1. CASE MainStart
  BY <1>0, <1>1 DEF MainStart, TypesOK, HandedOverInOrder, InputUsedUp,
    BatchUsedUp, ToldAfterLastPush, LastDrain, Joined, SocketWhileServing, IInv
<1>2. CASE MainTop
  BY <1>0, <1>2 DEF MainTop, TypesOK, HandedOverInOrder, InputUsedUp,
    BatchUsedUp, ToldAfterLastPush, LastDrain, Joined, SocketWhileServing, IInv
<1>3. CASE MainDrain
  <2>1. (handled \o input_queue \o receive_queue)' =
          handled \o input_queue \o receive_queue
    BY <1>0, <1>3, MoveLast, SMTT(30) DEF MainDrain, TypesOK, InputUsedUp
  <2>2. QED
    BY <1>0, <1>3, <2>1 DEF MainDrain, TypesOK, HandedOverInOrder, InputUsedUp,
      BatchUsedUp, ToldAfterLastPush, LastDrain, Joined, SocketWhileServing, IInv
<1>4. CASE MainHandle
  <2>1. PICK records \in {<< >>, <<Head(input_queue)>>} : Push("disk", records)
    BY <1>4 DEF MainHandle
  <2>2. PICK n \in 0 .. MaxMessages :
          pending_messages' = [k \in 1 .. n |-> <<Head(input_queue), k>>]
    BY <1>4 DEF MainHandle
  <2>3. /\ Head(input_queue) \in Nat
        /\ Tail(input_queue) \in Seq(Nat)
        /\ Append(handled, Head(input_queue)) \in Seq(Nat)
        /\ (handled \o input_queue \o receive_queue)' =
             handled \o input_queue \o receive_queue
    <3> DEFINE s == handled
               t == input_queue
               u == receive_queue
    <3>1. /\ s \in Seq(Nat) /\ t \in Seq(Nat) /\ t # << >> /\ u \in Seq(Nat)
      BY <1>0, <1>4 DEF MainHandle, TypesOK
    <3>2. /\ t' = Tail(t) /\ u' = u /\ s' = Append(s, Head(t))
      BY <1>4 DEF MainHandle
    <3> HIDE DEF s, t, u
    <3>3. /\ Head(t) \in Nat /\ Tail(t) \in Seq(Nat)
          /\ Append(s, Head(t)) \in Seq(Nat)
          /\ Append(s, Head(t)) \o Tail(t) \o u = s \o t \o u
      BY <3>1, TakeHead, SMTT(30)
    <3>4. QED
      BY <3>2, <3>3 DEF s, t, u
  <2>4. pending_messages' \in Seq(Element)
    BY <2>2, <2>3 DEF Element
  <2>5. records \in Seq(Element)
    <3>1. Head(input_queue) \in Element
      BY <2>3 DEF Element
    <3>2. << >> \in Seq(Element) /\ <<Head(input_queue)>> \in Seq(Element)
      BY <3>1
    <3>3. QED
      BY <2>1, <3>2
  <2>6. /\ queue' \in [Consumers -> Seq(Element)]
        /\ pushed' \in [Consumers -> Seq(Element)]
        /\ \A d \in Consumers : (used[d] \o batch[d] \o queue[d] = pushed[d])'
    BY <1>0, <1>4, <2>1, <2>5, PushKeepsOrder DEF MainHandle
  <2>7. TypesOK'
    BY <1>0, <1>4, <2>3, <2>4, <2>6 DEF TypesOK, MainHandle
  <2>8. HandedOverInOrder'
    BY <1>0, <1>4, <2>3, <2>6 DEF HandedOverInOrder, MainHandle
  <2>9. Rest'
    BY <1>0, <1>4, <2>1 DEF TypesOK, MainHandle, Push, InputUsedUp,
      BatchUsedUp, ToldAfterLastPush, LastDrain, Joined, SocketWhileServing
  <2>10. QED
    BY <2>7, <2>8, <2>9 DEF IInv
<1>5. CASE MainPush
  <2> DEFINE message == <<Head(pending_messages)>>
  <2>1. /\ message \in Seq(Element)
        /\ Tail(pending_messages) \in Seq(Element)
    BY <1>0, <1>5 DEF TypesOK, MainPush
  <2> HIDE DEF message
  <2>2. Push("sender", message)
    BY <1>5 DEF MainPush, message
  <2>6. /\ queue' \in [Consumers -> Seq(Element)]
        /\ pushed' \in [Consumers -> Seq(Element)]
        /\ \A d \in Consumers : (used[d] \o batch[d] \o queue[d] = pushed[d])'
    BY <1>0, <1>5, <2>1, <2>2, PushKeepsOrder DEF MainPush
  <2>7. TypesOK'
    BY <1>0, <1>5, <2>1, <2>6 DEF TypesOK, MainPush
  <2>8. HandedOverInOrder'
    BY <1>0, <1>5, <2>6 DEF HandedOverInOrder, MainPush
  <2>9. Rest'
    BY <1>0, <1>5, <2>2 DEF TypesOK, MainPush, Push, InputUsedUp,
      BatchUsedUp, ToldAfterLastPush, LastDrain, Joined, SocketWhileServing
  <2>10. QED
    BY <2>7, <2>8, <2>9 DEF IInv
<1>6. CASE MainHandled
  BY <1>0, <1>6 DEF MainHandled, TypesOK, HandedOverInOrder, InputUsedUp,
    BatchUsedUp, ToldAfterLastPush, LastDrain, Joined, SocketWhileServing, IInv
<1>7. ASSUME NEW t \in Consumers \cup {"receiver"}, MainTell(t)
      PROVE  IInv'
  BY <1>0, <1>7 DEF MainTell, TypesOK, HandedOverInOrder, InputUsedUp,
    BatchUsedUp, ToldAfterLastPush, LastDrain, Joined, SocketWhileServing, IInv
<1>8. CASE MainJoin
  BY <1>0, <1>8 DEF MainJoin, TypesOK, HandedOverInOrder, InputUsedUp,
    BatchUsedUp, ToldAfterLastPush, LastDrain, Joined, SocketWhileServing, IInv
<1>9. CASE MainClose
  BY <1>0, <1>9 DEF MainClose, TypesOK, HandedOverInOrder, InputUsedUp,
    BatchUsedUp, ToldAfterLastPush, LastDrain, Joined, SocketWhileServing, IInv
<1>10. QED
  BY <1>1, <1>2, <1>3, <1>4, <1>5, <1>6, <1>7, <1>8, <1>9 DEF Main

\* The receiver keeps the invariant.
LEMMA ReceiverStep ==
  ASSUME IInv, Receiver
  PROVE  IInv'
<1> USE DEF Consumers, Joining, main_vars, queue_vars, consumer_vars,
            process_vars
<1>1. CASE ReceiverFlag \/ ReceiverReceive \/ ReceiverGivesUp
  <2>1. arrived' \in Nat
    BY <1>1, SMTT(30)
      DEF ReceiverFlag, ReceiverReceive, ReceiverGivesUp, IInv, TypesOK
  <2>2. UNCHANGED <<main_pc, main_vars, consumer_vars, queue_vars,
                    process_vars, accepted>>
    BY <1>1 DEF ReceiverFlag, ReceiverReceive, ReceiverGivesUp
  <2>3. QED
    BY <2>1, <2>2 DEF IInv, TypesOK, HandedOverInOrder, InputUsedUp,
      BatchUsedUp, ToldAfterLastPush, LastDrain, Joined, SocketWhileServing
<1>2. CASE ReceiverPush
  <2> DEFINE taken == handled \o input_queue
             left == receive_queue
  <2>1. /\ taken \in Seq(Nat) /\ left \in Seq(Nat) /\ arrived \in Nat
        /\ accepted \in Seq(Nat) /\ taken \o left = accepted
    <3>1. /\ handled \in Seq(Nat) /\ input_queue \in Seq(Nat)
          /\ left \in Seq(Nat) /\ arrived \in Nat /\ accepted \in Seq(Nat)
      BY DEF IInv, TypesOK
    <3>2. handled \o input_queue \in Seq(Nat)
      BY <3>1
    <3>3. QED
      BY <3>1, <3>2 DEF IInv, HandedOverInOrder
  <2>2. /\ left' = Append(left, arrived) /\ accepted' = Append(accepted, arrived)
        /\ taken' = taken
    BY <1>2 DEF ReceiverPush
  <2> HIDE DEF taken, left
  <2>3. /\ Append(left, arrived) \in Seq(Nat)
        /\ Append(accepted, arrived) \in Seq(Nat)
        /\ taken \o Append(left, arrived) = Append(accepted, arrived)
    <3>1. taken \o Append(left, arrived) = Append(taken \o left, arrived)
      BY <2>1, AppendLast, SMTT(30)
    <3>2. QED
      BY <2>1, <3>1
  <2>4. TypesOK'
    BY <1>2, <2>2, <2>3 DEF ReceiverPush, IInv, TypesOK, left
  <2>5. (handled \o input_queue \o receive_queue = accepted)'
    BY <2>2, <2>3 DEF taken, left
  <2>6. QED
    BY <1>2, <2>4, <2>5 DEF ReceiverPush, IInv, HandedOverInOrder,
      InputUsedUp, BatchUsedUp, ToldAfterLastPush, LastDrain, Joined,
      SocketWhileServing
<1>3. QED
  BY <1>1, <1>2 DEF Receiver

\* A consumer keeps the invariant.
LEMMA ConsumerStep ==
  ASSUME IInv, NEW c \in Consumers, Consumer(c)
  PROVE  IInv'
<1> USE DEF Consumers, Joining, main_vars, receiver_vars, process_vars, At
<1> DEFINE s == used[c]
           t == batch[c]
           u == queue[c]
<1>0. /\ s \in Seq(Element) /\ t \in Seq(Element) /\ u \in Seq(Element)
      /\ s \o t \o u = pushed[c]
  BY DEF IInv, TypesOK, HandedOverInOrder
<1>1. CASE ConsumerFlag(c)
  BY <1>1 DEF ConsumerFlag, IInv, TypesOK, HandedOverInOrder, InputUsedUp,
    BatchUsedUp, ToldAfterLastPush, LastDrain, Joined, SocketWhileServing
<1>2. CASE ConsumerDrain(c)
  <2>1. t = << >>
    BY <1>2 DEF ConsumerDrain, IInv, BatchUsedUp
  <2>2. /\ batch' = [batch EXCEPT ![c] = u] /\ queue' = [queue EXCEPT ![c] = << >>]
        /\ used' = used /\ pushed' = pushed
    BY <1>2 DEF ConsumerDrain
  <2>3. s \o u \o << >> = pushed[c]
    <3> HIDE DEF s, t, u
    <3>1. s \o u \o << >> = s \o << >> \o u
      BY <1>0, MoveLast
    <3>2. QED
      BY <1>0, <2>1, <3>1
  <2>4. TypesOK'
    BY <1>0, <1>2, SMTT(30) DEF ConsumerDrain, IInv, TypesOK
  <2>5. \A d \in Consumers : (used[d] \o batch[d] \o queue[d] = pushed[d])'
    BY <2>2, <2>3 DEF IInv, TypesOK, HandedOverInOrder
  <2>6. QED
    BY <1>2, <2>4, <2>5 DEF ConsumerDrain, IInv, TypesOK, HandedOverInOrder,
      InputUsedUp, BatchUsedUp, ToldAfterLastPush, LastDrain, Joined,
      SocketWhileServing
<1>3. CASE ConsumerUse(c)
  <2>1. /\ t # << >>
        /\ used' = [used EXCEPT ![c] = Append(s, Head(t))]
        /\ batch' = [batch EXCEPT ![c] = Tail(t)]
        /\ queue' = queue /\ pushed' = pushed
    BY <1>3 DEF ConsumerUse
  <2>2. /\ Append(s, Head(t)) \in Seq(Element) /\ Tail(t) \in Seq(Element)
        /\ Append(s, Head(t)) \o Tail(t) \o u = pushed[c]
    <3> HIDE DEF s, t, u
    <3>1. QED
      BY <1>0, <2>1, TakeHead, SMTT(30)
  <2>4. TypesOK'
    BY <1>3, <2>1, <2>2, SMTT(30) DEF ConsumerUse, IInv, TypesOK
  <2>5. \A d \in Consumers : (used[d] \o batch[d] \o queue[d] = pushed[d])'
    BY <2>1, <2>2 DEF IInv, TypesOK, HandedOverInOrder
  <2>6. QED
    BY <1>3, <2>4, <2>5 DEF ConsumerUse, IInv, TypesOK, HandedOverInOrder,
      InputUsedUp, BatchUsedUp, ToldAfterLastPush, LastDrain, Joined,
      SocketWhileServing
<1>4. CASE ConsumerTest(c)
  BY <1>4 DEF ConsumerTest, IInv, TypesOK, HandedOverInOrder, InputUsedUp,
    BatchUsedUp, ToldAfterLastPush, LastDrain, Joined, SocketWhileServing
<1>5. QED
  BY <1>1, <1>2, <1>3, <1>4 DEF Consumer

(***************************************************************************)
(* The inductive invariant of the four threads.                            *)
(***************************************************************************)
THEOREM ThreadsInvariant == Spec => []IInv
<1>1. ASSUME IInv, [Next]_vars PROVE IInv'
  <2>1. CASE Main
    BY <1>1, <2>1, MainStep
  <2>2. CASE interruption_treatment
    BY <1>1, <2>2 DEF interruption_treatment, main_vars, consumer_vars,
      receiver_vars, queue_vars, IInv, TypesOK, HandedOverInOrder, InputUsedUp,
      BatchUsedUp, ToldAfterLastPush, LastDrain, Joined, SocketWhileServing
  <2>3. CASE Receiver
    BY <1>1, <2>3, ReceiverStep
  <2>4. CASE \E c \in Consumers : Consumer(c)
    BY <1>1, <2>4, ConsumerStep
  <2>5. CASE UNCHANGED vars
    BY <1>1, <2>5 DEF vars, main_vars, consumer_vars, receiver_vars, queue_vars,
      process_vars, IInv, TypesOK, HandedOverInOrder, InputUsedUp,
      BatchUsedUp, ToldAfterLastPush, LastDrain, Joined, SocketWhileServing
  <2>6. QED
    BY <1>1, <2>1, <2>2, <2>3, <2>4, <2>5 DEF Next
<1>2. QED
  BY <1>1, InitIInv, PTL DEF Spec

(***************************************************************************)
(* Between the receiver and the handlers, and between the handlers and the *)
(* sender and disk threads, nothing is lost, repeated or overtaken,        *)
(* however the drains and pushes of the AtomicVecQueues interleave.        *)
(***************************************************************************)
THEOREM AlwaysHandedOverInOrder == Spec => []HandedOverInOrder
<1>1. IInv => HandedOverInOrder
  BY DEF IInv
<1>2. QED
  BY <1>1, ThreadsInvariant, PTL

(***************************************************************************)
(* When main() has closed the socket and returns, every message was sent   *)
(* and every record written: the sender and fn_disk_io read must_terminate *)
(* before they drain for the last time, main() writes it after its last    *)
(* push, and joins both.                                                   *)
(***************************************************************************)
THEOREM ExitNeverLosesAnything == Spec => []ExitLosesNothing
<1>1. ASSUME IInv, main_pc \in {"return", "exited"}, NEW c \in Consumers
      PROVE  used[c] = pushed[c]
  <2>1. batch[c] = << >> /\ queue[c] = << >>
    BY <1>1 DEF IInv, TypesOK, Joined, Joining, LastDrain, BatchUsedUp, Consumers
  <2>2. used[c] \in Seq(Element) /\ used[c] \o << >> \o << >> = pushed[c]
    BY <1>1, <2>1 DEF IInv, TypesOK, HandedOverInOrder
  <2>3. QED
    BY <2>2, ConcatEmptySeq
<1>2. IInv => ExitLosesNothing
  BY <1>1 DEF ExitLosesNothing
<1>3. QED
  BY <1>2, ThreadsInvariant, PTL

(***************************************************************************)
(* fn_server_sender calls sendto only while the socket is open: it starts  *)
(* after the bind, and main() closes the socket after it has joined it.    *)
(***************************************************************************)
THEOREM AlwaysSendsOnOpenSocket == Spec => SendsOnOpenSocket
<1> DEFINE Send == used'["sender"] # used["sender"]
<1>1. ASSUME IInv, [Next]_vars, Send PROVE socket_open
  <2>1. CASE \E c \in Consumers : Consumer(c)
    <3>1. PICK c \in Consumers : Consumer(c)
      BY <2>1
    <3>2. ConsumerUse(c) /\ c = "sender"
      BY <1>1, <3>1 DEF IInv, TypesOK, Consumers, Consumer, ConsumerFlag,
        ConsumerDrain, ConsumerUse, ConsumerTest
    <3>3. consumer_pc["sender"] = "use"
      BY <3>2 DEF ConsumerUse, At
    <3>4. QED
      BY <1>1, <3>3 DEF IInv, Joined, SocketWhileServing, Joining, Consumers
  <2>2. CASE Main \/ interruption_treatment \/ Receiver \/ UNCHANGED vars
    BY <1>1, <2>2 DEF Main, MainStart, MainTop, MainDrain, MainHandle, MainPush,
      MainHandled, MainTell, MainJoin, MainClose, interruption_treatment,
      Receiver, ReceiverFlag, ReceiverReceive, ReceiverGivesUp, ReceiverPush,
      vars, consumer_vars
  <2>3. QED
    BY <1>1, <2>1, <2>2 DEF Next
<1>2. IInv /\ [Next]_vars => [Send => socket_open]_vars
  BY <1>1
<1>3. QED
  BY <1>2, ThreadsInvariant, PTL DEF Spec, SendsOnOpenSocket
=============================================================================
