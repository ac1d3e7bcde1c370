---------------------------- MODULE ServerThreads ----------------------------
(***************************************************************************)
(* The four threads of the server process (server/server.cpp,              *)
(* server_receiver.cpp, server_sender.cpp, the loop of                     *)
(* disk_operations.cpp), from the start to the exit that follows SIGINT.   *)
(*                                                                         *)
(* A datagram is the number of its arrival.  What handling one comes to is *)
(* the subject of ClientMessageHandler; here it puts a record on the disk  *)
(* thread's queue or not, and up to MaxMessages messages on the sender's,  *)
(* one push at a time, in between which the consumers run.  A push, a      *)
(* drain, and a read or a write of a flag are atomic (modules AtomicVar    *)
(* and AtomicVecQueue).                                                    *)
(*                                                                         *)
(* The sender and the disk thread are the same loop over different queues, *)
(* so both are Consumers: the flag is read, the queue is drained, each     *)
(* element is dealt with, and the flag as it was read decides.             *)
(***************************************************************************)
EXTENDS Naturals, Sequences, SequencesExt

CONSTANTS MaxDatagrams,     \* datagrams that arrive in a behaviour
          MaxMessages,      \* messages one datagram may lead to
          MaxErrors         \* datagrams that recvfrom, getnameinfo or the
                            \* JSON reader gives up

Consumers == {"sender", "disk"}

VARIABLES main_pc,              \* where main() is
          interruption_flag,    \* set by the handler of SIGINT
          socket_open,          \* the socket all threads share
          must_terminate,       \* the flags, by thread
          receive_queue,        \* ServerReceiver::receive_queue
          input_queue,          \* client_messages_input_queue
          pending_messages,     \* messages of pending_actions to push
          receiver_pc,
          queue,                \* send_queue and user_data_update_queue
          consumer_pc,
          terminate_read,       \* the consumers' local must_terminate
          batch,                \* what a consumer drained and has not used
          arrived, errors,
          accepted,             \* history: datagrams the receiver pushed
          handled,              \* history: datagrams main() handled
          pushed,               \* history: what was ever put on each queue
          used                  \* history: what each consumer dealt with

main_vars == <<input_queue, pending_messages, handled>>

consumer_vars == <<consumer_pc, terminate_read, batch, used>>

receiver_vars == <<receiver_pc, arrived, errors, accepted>>

queue_vars == <<receive_queue, queue, pushed>>

process_vars == <<interruption_flag, socket_open, must_terminate>>

vars == <<main_pc, main_vars, consumer_vars, receiver_vars, queue_vars,
          process_vars>>

Init ==
  /\ main_pc = "start"
  /\ interruption_flag = FALSE
  /\ socket_open = FALSE
  /\ must_terminate = [t \in Consumers \cup {"receiver"} |-> FALSE]
  /\ receive_queue = << >> /\ input_queue = << >> /\ pending_messages = << >>
  /\ receiver_pc = "idle" /\ arrived = 0 /\ errors = 0
  /\ consumer_pc = [c \in Consumers |-> "idle"]
  /\ terminate_read = [c \in Consumers |-> FALSE]
  /\ batch = [c \in Consumers |-> << >>] /\ queue = batch
  /\ pushed = batch /\ used = batch
  /\ accepted = << >> /\ handled = << >>

-----------------------------------------------------------------------------
(***************************************************************************)
(* main(): the start, the loop, the clean-up.                              *)
(***************************************************************************)
Goto(here, there) == main_pc = here /\ main_pc' = there

\* fn_server_broadcast opens and binds the socket, or main returns.  The load
\* puts no record on the disk thread's queue; the threads are created.
MainStart ==
  /\ \/ /\ Goto("start", "top")
        /\ socket_open' = TRUE
        /\ receiver_pc' = "flag"
        /\ consumer_pc' = [c \in Consumers |-> "flag"]
     \/ /\ Goto("start", "failed")
        /\ UNCHANGED <<socket_open, receiver_pc, consumer_pc>>
  /\ UNCHANGED <<main_vars, queue_vars, interruption_flag, must_terminate,
                 arrived, errors, accepted, terminate_read, batch, used>>

\* The handler of SIGINT may run at any point.
interruption_treatment ==
  /\ ~interruption_flag
  /\ main_pc \notin {"exited", "failed"}
  /\ interruption_flag' = TRUE
  /\ UNCHANGED <<main_pc, main_vars, consumer_vars, receiver_vars, queue_vars,
                 socket_open, must_terminate>>

MainTop ==
  /\ Goto("top", IF interruption_flag THEN "stop_receiver" ELSE "drain")
  /\ UNCHANGED <<main_vars, consumer_vars, receiver_vars, queue_vars,
                 process_vars>>

MainDrain ==
  /\ Goto("drain", "next")
  /\ input_queue' = receive_queue
  /\ receive_queue' = << >>
  /\ UNCHANGED <<pending_messages, handled, consumer_vars, receiver_vars,
                 queue, pushed, process_vars>>

Push(c, elements) ==
  /\ queue' = [queue EXCEPT ![c] = @ \o elements]
  /\ pushed' = [pushed EXCEPT ![c] = @ \o elements]

\* handle_incoming_datagram: a record for the disk or none, and the messages
\* its actions come to.
MainHandle ==
  /\ Goto("next", "push")
  /\ input_queue # << >>
  /\ input_queue' = Tail(input_queue)
  /\ handled' = Append(handled, Head(input_queue))
  /\ \E records \in {<< >>, <<Head(input_queue)>>} : Push("disk", records)
  /\ \E n \in 0 .. MaxMessages :
       pending_messages' = [k \in 1 .. n |-> <<Head(input_queue), k>>]
  /\ UNCHANGED <<consumer_vars, receiver_vars, receive_queue, process_vars>>

MainPush ==
  /\ pending_messages # << >>
  /\ Goto("push", "push")
  /\ Push("sender", <<Head(pending_messages)>>)
  /\ pending_messages' = Tail(pending_messages)
  /\ UNCHANGED <<input_queue, handled, consumer_vars, receiver_vars,
                 receive_queue, process_vars>>

MainHandled ==
  /\ \/ pending_messages = << >> /\ Goto("push", "next")
     \/ input_queue = << >> /\ Goto("next", "top")
  /\ UNCHANGED <<main_vars, consumer_vars, receiver_vars, queue_vars,
                 process_vars>>

\* The receiver is told to stop, too, but it is not joined.
MainTell(t) ==
  /\ \/ t = "receiver" /\ Goto("stop_receiver", "stop_sender")
     \/ t = "sender" /\ Goto("stop_sender", "stop_disk")
     \/ t = "disk" /\ Goto("stop_disk", "join_sender")
  /\ must_terminate' = [must_terminate EXCEPT ![t] = TRUE]
  /\ UNCHANGED <<main_vars, consumer_vars, receiver_vars, queue_vars,
                 interruption_flag, socket_open>>

\* Mutant: the sender is not waited for.
MainJoin_disk_only ==
  /\ \/ Goto("join_sender", "join_disk")
     \/ consumer_pc["disk"] = "done" /\ Goto("join_disk", "close")
  /\ UNCHANGED <<main_vars, consumer_vars, receiver_vars, queue_vars,
                 process_vars>>

MainJoin ==
  /\ \/ consumer_pc["sender"] = "done" /\ Goto("join_sender", "join_disk")
     \/ consumer_pc["disk"] = "done" /\ Goto("join_disk", "close")
  /\ UNCHANGED <<main_vars, consumer_vars, receiver_vars, queue_vars,
                 process_vars>>

\* The socket is closed, and then the process ends, and the receiver with it.
MainClose ==
  /\ Goto("close", "return") \/ Goto("return", "exited")
  /\ socket_open' = FALSE
  /\ UNCHANGED <<main_vars, consumer_vars, receiver_vars, queue_vars,
                 interruption_flag, must_terminate>>

Main ==
  \/ MainStart
  \/ MainTop
  \/ MainDrain
  \/ MainHandle
  \/ MainPush
  \/ MainHandled
  \/ \E t \in Consumers \cup {"receiver"} : MainTell(t)
  \/ MainJoin
  \/ MainClose

-----------------------------------------------------------------------------
(***************************************************************************)
(* fn_server_listener.                                                     *)
(***************************************************************************)
Alive == main_pc \notin {"exited", "failed"}

ReceiverFlag ==
  /\ Alive /\ receiver_pc = "flag"
  /\ receiver_pc' = IF must_terminate["receiver"] THEN "done" ELSE "recvfrom"
  /\ UNCHANGED <<main_pc, main_vars, consumer_vars, queue_vars, process_vars,
                 arrived, errors, accepted>>

\* recvfrom returns a datagram, if ever one arrives.
ReceiverReceive ==
  /\ Alive /\ receiver_pc = "recvfrom"
  /\ socket_open
  /\ arrived < MaxDatagrams
  /\ arrived' = arrived + 1
  /\ receiver_pc' = "push"
  /\ UNCHANGED <<main_pc, main_vars, consumer_vars, queue_vars, process_vars,
                 errors, accepted>>

\* recvfrom fails, as it does on a closed socket; or the datagram is given
\* up by getnameinfo or the JSON reader.
ReceiverGivesUp ==
  /\ Alive
  /\ \/ receiver_pc \in {"recvfrom", "push"} /\ errors < MaxErrors
     \/ receiver_pc = "recvfrom" /\ ~socket_open
  /\ errors' = IF socket_open THEN errors + 1 ELSE errors
  /\ receiver_pc' = "flag"
  /\ UNCHANGED <<main_pc, main_vars, consumer_vars, queue_vars, process_vars,
                 arrived, accepted>>

ReceiverPush ==
  /\ Alive /\ receiver_pc = "push"
  /\ receive_queue' = Append(receive_queue, arrived)
  /\ accepted' = Append(accepted, arrived)
  /\ receiver_pc' = "flag"
  /\ UNCHANGED <<main_pc, main_vars, consumer_vars, queue, pushed,
                 process_vars, arrived, errors>>

Receiver == ReceiverFlag \/ ReceiverReceive \/ ReceiverGivesUp \/ ReceiverPush

-----------------------------------------------------------------------------
(***************************************************************************)
(* fn_server_sender, and fn_disk_io.                                       *)
(***************************************************************************)
At(c, here, there) ==
  /\ Alive /\ consumer_pc[c] = here
  /\ consumer_pc' = [consumer_pc EXCEPT ![c] = there]
  /\ UNCHANGED <<main_pc, main_vars, receiver_vars, process_vars,
                 receive_queue, pushed>>

ConsumerFlag(c) ==
  /\ At(c, "flag", "drain")
  /\ terminate_read' = [terminate_read EXCEPT ![c] = must_terminate[c]]
  /\ UNCHANGED <<batch, used, queue>>

\* Mutant: what is drained stays in the queue.
ConsumerDrain_copies(c) ==
  /\ At(c, "drain", "use")
  /\ batch' = [batch EXCEPT ![c] = queue[c]]
  /\ UNCHANGED <<terminate_read, used, queue>>

ConsumerDrain(c) ==
  /\ At(c, "drain", "use")
  /\ batch' = [batch EXCEPT ![c] = queue[c]]
  /\ queue' = [queue EXCEPT ![c] = << >>]
  /\ UNCHANGED <<terminate_read, used>>

\* One message is serialized and handed to sendto (an error is printed and
\* passed over), or one record is written.
ConsumerUse(c) ==
  /\ At(c, "use", "use")
  /\ batch[c] # << >>
  /\ used' = [used EXCEPT ![c] = Append(@, Head(batch[c]))]
  /\ batch' = [batch EXCEPT ![c] = Tail(@)]
  /\ UNCHANGED <<terminate_read, queue>>

\* Mutant: the flag is tested as it is now.
ConsumerTest_rereads(c) ==
  /\ batch[c] = << >>
  /\ At(c, "use", IF must_terminate[c] THEN "done" ELSE "flag")
  /\ UNCHANGED <<terminate_read, batch, used, queue>>

\* Mutant: the loop has no end.
ConsumerTest_never(c) ==
  /\ batch[c] = << >>
  /\ At(c, "use", "flag")
  /\ UNCHANGED <<terminate_read, batch, used, queue>>

\* Mutant: the thread ends with its first empty batch.
ConsumerTest_idle(c) ==
  /\ batch[c] = << >>
  /\ At(c, "use", "done")
  /\ UNCHANGED <<terminate_read, batch, used, queue>>

ConsumerTest(c) ==
  /\ batch[c] = << >>
  /\ At(c, "use", IF terminate_read[c] THEN "done" ELSE "flag")
  /\ UNCHANGED <<terminate_read, batch, used, queue>>

Consumer(c) ==
  ConsumerFlag(c) \/ ConsumerDrain(c) \/ ConsumerUse(c) \/ ConsumerTest(c)

-----------------------------------------------------------------------------
Next ==
  \/ Main
  \/ interruption_treatment
  \/ Receiver
  \/ \E c \in Consumers : Consumer(c)

Spec == Init /\ [][Next]_vars

\* The operating system runs the main thread and the two consumers, which
\* block only on semaphores held for a copy and, in main, on the joins.  The
\* receiver waits in recvfrom for as long as no datagram arrives.
FairSpec == Spec /\ WF_vars(Main) /\ \A c \in Consumers : WF_vars(Consumer(c))
-----------------------------------------------------------------------------
(***************************************************************************)
(* Nothing is lost, repeated or overtaken between the threads: what a      *)
(* consumer has dealt with, what it has drained and what is queued make up *)
(* what was pushed; and likewise for the datagrams between the receiver    *)
(* and the handlers.                                                       *)
(***************************************************************************)
HandedOverInOrder ==
  /\ \A c \in Consumers : used[c] \o batch[c] \o queue[c] = pushed[c]
  /\ handled \o input_queue \o receive_queue = accepted

(***************************************************************************)
(* The socket is closed, and the process ends, with every message of every *)
(* datagram handled sent and every record written: each consumer reads its *)
(* flag before it drains for the last time, main sets the flag after its   *)
(* last push, and both are joined before the socket is closed.             *)
(***************************************************************************)
ExitLosesNothing ==
  main_pc \in {"return", "exited"} =>
    \A c \in Consumers : used[c] = pushed[c]

\* The sender uses the socket only while it is open.
SendsOnOpenSocket ==
  [][used'["sender"] # used["sender"] => socket_open]_vars

\* SIGINT ends the process, whether or not another datagram ever arrives.
InterruptEnds == interruption_flag ~> ~Alive

\* A datagram the receiver accepted is handled, and what its handling led to
\* is sent and written, unless SIGINT comes first.
AcceptedIsAnswered ==
  \A d \in 1 .. MaxDatagrams :
    d \in Range(accepted) ~>
      \/ interruption_flag
      \/ /\ d \in Range(handled)
         /\ \A k \in 1 .. MaxMessages : <<d, k>> \notin Range(pending_messages)
         /\ d \in Range(pushed["disk"]) => d \in Range(used["disk"])
         /\ \A k \in 1 .. MaxMessages :
              <<d, k>> \in Range(pushed["sender"]) =>
                <<d, k>> \in Range(used["sender"])
=============================================================================
