------------------------------- MODULE Client -------------------------------
(***************************************************************************)
(* The client process (client/client.cpp, login.cpp, user_input.cpp,       *)
(* client_sender.cpp, client_receiver.cpp, client_connection.cpp): the     *)
(* login, the four threads, and the clean-up on QUIT, end of input, SIGINT *)
(* or an answer of an unexpected type.  Server and user are the            *)
(* environment: any answer may come at any time or never, and the user     *)
(* types any lines or none.                                                *)
(*                                                                         *)
(* The name or text of a command is the number of the line it was typed    *)
(* on, and a malformed or invalid line is one without a command (NoInput); *)
(* messages that the main loop prints are all "known", and those its       *)
(* default branch takes "other".                                           *)
(***************************************************************************)
EXTENDS Naturals, Sequences, SequencesExt

CONSTANTS MaxLines,         \* lines the user types, an end of input not counted
          MaxDatagrams      \* datagrams the server sends after the login

VARIABLES process,              \* "up", or how it ended
          interruption_flag,
          main_pc, finish_program, msg_id,
          user_command,         \* the slot, AtomicVar<UserInput>
          locked,               \* the slot's semaphore, held by main()
          input_pc, line,
          stop_input, stop_receiver,        \* the must_terminate flags
          send_queue, sender_pc, message_queue, sender_terminate,
          receiver_pc, datagram, receive_queue,
          socket_open,
          lines, datagrams,     \* counters of the environment
          taken,                \* history: what was put on the send_queue
          sent                  \* history: what was written to the socket

main_vars == <<main_pc, finish_program, msg_id>>

slot_vars == <<user_command, locked>>

input_vars == <<input_pc, line, lines>>

flag_vars == <<interruption_flag, stop_input, stop_receiver, socket_open>>

sender_vars == <<sender_pc, message_queue, sender_terminate, sent>>

receiver_vars == <<receiver_pc, datagram, datagrams>>

queue_vars == <<send_queue, receive_queue, taken>>

vars == <<process, main_vars, slot_vars, input_vars, flag_vars, sender_vars,
          receiver_vars, queue_vars>>

UserInput(type, data) == [input_type |-> type, input_data |-> data]

NoInput == UserInput("NoInput", 0)

InputQuit == UserInput("InputQuit", 0)

\* MsgIdManager::next_msg_id
next_msg_id == msg_id + 1

\* ClientMessageData; the payload is 0 where there is none.
Message(id, type, data) == [msg_id |-> id, msg_type |-> type, payload |-> data]

Init ==
  /\ process = "up"
  /\ interruption_flag = FALSE /\ stop_input = FALSE /\ stop_receiver = FALSE
  /\ main_pc = "connect" /\ finish_program = FALSE /\ msg_id = 0
  /\ user_command = NoInput /\ locked = FALSE
  /\ input_pc = "idle" /\ line = NoInput /\ lines = 0
  /\ send_queue = << >> /\ taken = << >> /\ sent = << >>
  /\ sender_pc = "idle" /\ message_queue = << >> /\ sender_terminate = FALSE
  /\ receiver_pc = "idle" /\ datagram = "known" /\ datagrams = 0
  /\ receive_queue = << >>
  /\ socket_open = FALSE

\* exit(EXIT_FAILURE), from whatever thread calls it.
Fail ==
  /\ process' = "failure"
  /\ UNCHANGED <<main_vars, slot_vars, input_vars, flag_vars, sender_vars,
                 receiver_vars, queue_vars>>

\* The handler of SIGINT.
interruption_treatment ==
  /\ process = "up"
  /\ ~interruption_flag
  /\ interruption_flag' = TRUE
  /\ UNCHANGED <<process, main_vars, slot_vars, input_vars, stop_input,
                 stop_receiver, socket_open, sender_vars, receiver_vars,
                 queue_vars>>

-----------------------------------------------------------------------------
(***************************************************************************)
(* main(): connection and login.  The login is written once; its answer    *)
(* may never come, and anything but LoginSuccess ends the program.         *)
(***************************************************************************)
Goto(here, there) == process = "up" /\ main_pc = here /\ main_pc' = there

MainConnect ==
  \/ /\ Goto("connect", "login")
     /\ socket_open' = TRUE
     /\ UNCHANGED <<process, finish_program, msg_id, slot_vars, input_vars,
                    interruption_flag, stop_input, stop_receiver, sender_vars,
                    receiver_vars, queue_vars>>
  \/ process = "up" /\ main_pc = "connect" /\ Fail

MainLogin ==
  \/ /\ Goto("login", "answer")
     /\ sent' = Append(sent, Message(0, "ClientLogin", 0))
     /\ UNCHANGED <<process, finish_program, msg_id, slot_vars, input_vars,
                    flag_vars, sender_pc, message_queue, sender_terminate,
                    receiver_vars, queue_vars>>
  \/ process = "up" /\ main_pc = "login" /\ Fail

MainLoginAnswer ==
  \/ /\ Goto("answer", "top")
     /\ receiver_pc' = "read" /\ sender_pc' = "drain" /\ input_pc' = "flag"
     /\ UNCHANGED <<process, finish_program, msg_id, slot_vars, line, lines,
                    flag_vars, message_queue, sender_terminate, sent,
                    datagram, datagrams, queue_vars>>
  \/ process = "up" /\ main_pc = "answer" /\ Fail

-----------------------------------------------------------------------------
(***************************************************************************)
(* main(): the loop.                                                       *)
(***************************************************************************)
MainTop ==
  /\ Goto("top", IF finish_program \/ interruption_flag THEN "stop_input"
                                                        ELSE "input")
  /\ UNCHANGED <<process, finish_program, msg_id, slot_vars, input_vars,
                 flag_vars, sender_vars, receiver_vars, queue_vars>>

\* The request that the command in the slot becomes.
Request(id) ==
  Message(id, IF user_command.input_type = "InputFollow" THEN "ClientFollow"
                                                         ELSE "ClientSend",
          user_command.input_data)

\* Mutant: the command stays in the slot.
MainInput_keeps ==
  /\ ~locked
  /\ Goto("input", "server")
  /\ finish_program' = (finish_program \/ user_command = InputQuit)
  /\ locked' = (user_command = InputQuit)
  /\ IF user_command \in {NoInput, InputQuit}
       THEN UNCHANGED <<msg_id, user_command, send_queue, taken>>
       ELSE /\ UNCHANGED user_command
            /\ msg_id' = next_msg_id
            /\ send_queue' = Append(send_queue, Request(next_msg_id))
            /\ taken' = Append(taken, Request(next_msg_id))
  /\ UNCHANGED <<process, input_vars, flag_vars, sender_vars, receiver_vars,
                 receive_queue>>

\* The slot is locked, read, emptied and unlocked; InputQuit leaves it as it
\* is, and locked.  The command gets the next id and goes to the sender.
MainInput ==
  /\ ~locked
  /\ Goto("input", "server")
  /\ finish_program' = (finish_program \/ user_command = InputQuit)
  /\ locked' = (user_command = InputQuit)
  /\ IF user_command \in {NoInput, InputQuit}
       THEN UNCHANGED <<msg_id, user_command, send_queue, taken>>
       ELSE /\ user_command' = NoInput
            /\ msg_id' = next_msg_id
            /\ send_queue' = Append(send_queue, Request(next_msg_id))
            /\ taken' = Append(taken, Request(next_msg_id))
  /\ UNCHANGED <<process, input_vars, flag_vars, sender_vars, receiver_vars,
                 receive_queue>>

\* What the server sent is printed; a type of the default branch ends the
\* program after the rest of the batch.
MainServer ==
  /\ Goto("server", "top")
  /\ receive_queue' = << >>
  /\ finish_program' = (finish_program \/ "other" \in Range(receive_queue))
  /\ UNCHANGED <<process, msg_id, slot_vars, input_vars, flag_vars,
                 sender_vars, receiver_vars, send_queue, taken>>

-----------------------------------------------------------------------------
(***************************************************************************)
(* main(): the clean-up.                                                   *)
(***************************************************************************)
MainTell ==
  /\ \/ Goto("stop_input", "stop_receiver")
        /\ stop_input' = TRUE /\ UNCHANGED stop_receiver
     \/ Goto("stop_receiver", "logout")
        /\ stop_receiver' = TRUE /\ UNCHANGED stop_input
  /\ UNCHANGED <<process, finish_program, msg_id, slot_vars, input_vars,
                 interruption_flag, socket_open, sender_vars, receiver_vars,
                 queue_vars>>

MainLogout ==
  /\ Goto("logout", "join_input")
  /\ msg_id' = next_msg_id
  /\ send_queue' = Append(send_queue, Message(next_msg_id, "ClientLogout", 0))
  /\ taken' = Append(taken, Message(next_msg_id, "ClientLogout", 0))
  /\ UNCHANGED <<process, finish_program, slot_vars, input_vars, flag_vars,
                 sender_vars, receiver_vars, receive_queue>>

\* Mutant: the sender is not waited for.
MainJoin_input_only ==
  /\ \/ input_pc = "done" /\ Goto("join_input", "join_sender")
     \/ Goto("join_sender", "close")
  /\ UNCHANGED <<process, finish_program, msg_id, slot_vars, input_vars,
                 flag_vars, sender_vars, receiver_vars, queue_vars>>

MainJoin ==
  /\ \/ input_pc = "done" /\ Goto("join_input", "join_sender")
     \/ sender_pc = "done" /\ Goto("join_sender", "close")
  /\ UNCHANGED <<process, finish_program, msg_id, slot_vars, input_vars,
                 flag_vars, sender_vars, receiver_vars, queue_vars>>

MainClose ==
  /\ \/ Goto("close", "return") /\ UNCHANGED process
     \/ Goto("return", "return") /\ process' = "success"
  /\ socket_open' = FALSE
  /\ UNCHANGED <<finish_program, msg_id, slot_vars, input_vars, stop_input,
                 stop_receiver, interruption_flag, sender_vars, receiver_vars,
                 queue_vars>>

MainRuns == MainTop \/ MainInput \/ MainServer \/ MainTell \/ MainLogout
              \/ MainJoin \/ MainClose

-----------------------------------------------------------------------------
(***************************************************************************)
(* fn_user_input.                                                          *)
(***************************************************************************)
Input(here, there) ==
  /\ process = "up"
  /\ input_pc = here
  /\ input_pc' = there
  /\ UNCHANGED <<process, main_vars, flag_vars, sender_vars, receiver_vars,
                 queue_vars>>

\* getline returns a line or, at the end of input, nothing.
InputGetline ==
  /\ \/ /\ lines < MaxLines
        /\ lines' = lines + 1
        /\ line' \in {NoInput, InputQuit, UserInput("InputFollow", lines + 1),
                      UserInput("InputSend", lines + 1)}
        /\ Input("getline", "line")
     \/ line' = InputQuit /\ Input("getline", "quit") /\ UNCHANGED lines
  /\ UNCHANGED slot_vars

\* Mutant: the thread goes on after QUIT.
InputFlag_goes_on ==
  /\ \/ Input("flag", IF stop_input THEN "done" ELSE "getline")
     \/ Input("line", CASE stop_input     -> "done"
                        [] line = NoInput -> "flag"
                        [] OTHER          -> "write")
  /\ UNCHANGED <<line, lines, slot_vars>>

\* must_terminate is read before and after getline; then the line is parsed.
InputFlag ==
  /\ \/ Input("flag", IF stop_input THEN "done" ELSE "getline")
     \/ Input("line", CASE stop_input       -> "done"
                        [] line = NoInput   -> "flag"
                        [] line = InputQuit -> "quit"
                        [] OTHER            -> "write")
  /\ UNCHANGED <<line, lines, slot_vars>>

\* The slot is written whatever it holds.
InputWrite ==
  /\ ~locked
  /\ Input("write", "flag") \/ Input("quit", "done")
  /\ user_command' = line
  /\ UNCHANGED <<line, lines, locked>>

InputRuns == InputFlag \/ InputWrite

-----------------------------------------------------------------------------
(***************************************************************************)
(* fn_client_sender: it ends with the batch that holds the Logout.         *)
(***************************************************************************)
Sender(here, there) ==
  /\ process = "up"
  /\ sender_pc = here
  /\ sender_pc' = there
  /\ UNCHANGED <<process, main_vars, slot_vars, input_vars, flag_vars,
                 receiver_vars, receive_queue, taken>>

SenderDrain ==
  /\ Sender("drain", "write")
  /\ message_queue' = send_queue
  /\ send_queue' = << >>
  /\ UNCHANGED <<sender_terminate, sent>>

SenderWrite ==
  /\ message_queue # << >>
  /\ \/ /\ Sender("write", "write")
        /\ sent' = Append(sent, Head(message_queue))
        /\ message_queue' = Tail(message_queue)
        /\ sender_terminate' = (sender_terminate \/
                                Head(message_queue).msg_type = "ClientLogout")
        /\ UNCHANGED send_queue
     \/ process = "up" /\ sender_pc = "write" /\ Fail

\* Mutant: the Logout does not end the thread.
SenderTest_never ==
  /\ message_queue = << >>
  /\ Sender("write", "drain")
  /\ UNCHANGED <<message_queue, sender_terminate, sent, send_queue>>

\* Mutant: the thread ends with the first batch it has sent.
SenderTest_once ==
  /\ message_queue = << >>
  /\ Sender("write", IF Len(sent) > 1 THEN "done" ELSE "drain")
  /\ UNCHANGED <<message_queue, sender_terminate, sent, send_queue>>

SenderTest ==
  /\ message_queue = << >>
  /\ Sender("write", IF sender_terminate THEN "done" ELSE "drain")
  /\ UNCHANGED <<message_queue, sender_terminate, sent, send_queue>>

SenderRuns == SenderDrain \/ SenderWrite \/ SenderTest

-----------------------------------------------------------------------------
(***************************************************************************)
(* fn_client_listener: a datagram that does not parse ends the thread, an  *)
(* error of read (as on a closed socket) the process.                      *)
(***************************************************************************)
ReceiverRead ==
  /\ process = "up"
  /\ receiver_pc = "read"
  /\ \/ /\ socket_open
        /\ datagrams < MaxDatagrams
        /\ datagrams' = datagrams + 1
        /\ datagram' \in {"known", "other", "garbled"}
        /\ receiver_pc' = IF datagram' = "garbled" THEN "done" ELSE "push"
        /\ UNCHANGED <<process, main_vars, slot_vars, input_vars, flag_vars,
                       sender_vars, queue_vars>>
     \/ Fail

ReceiverPush ==
  /\ process = "up"
  /\ receiver_pc = "push"
  /\ receive_queue' = Append(receive_queue, datagram)
  /\ receiver_pc' = "flag"
  /\ UNCHANGED <<process, main_vars, slot_vars, input_vars, flag_vars,
                 sender_vars, datagram, datagrams, send_queue, taken>>

ReceiverFlag ==
  /\ process = "up"
  /\ receiver_pc = "flag"
  /\ receiver_pc' = IF stop_receiver THEN "done" ELSE "read"
  /\ UNCHANGED <<process, main_vars, slot_vars, input_vars, flag_vars,
                 sender_vars, datagram, datagrams, queue_vars>>

Receiver == ReceiverRead \/ ReceiverPush \/ ReceiverFlag

-----------------------------------------------------------------------------
Next ==
  \/ MainConnect
  \/ MainLogin
  \/ MainLoginAnswer
  \/ MainRuns
  \/ interruption_treatment
  \/ InputGetline
  \/ InputRuns
  \/ SenderRuns
  \/ Receiver

Spec == Init /\ [][Next]_vars

\* The operating system runs the threads.  Nothing is assumed of what comes
\* from outside: the answer to the login, lines, datagrams.
FairSpec == Spec /\ WF_vars(MainRuns) /\ WF_vars(InputRuns)
                 /\ WF_vars(SenderRuns)
-----------------------------------------------------------------------------
(***************************************************************************)
(* What goes out is the login, then commands in the order they were typed, *)
(* each once at most (one that the slot lost is left out), then the Logout *)
(* and nothing after it; ids count up by one.  So it is for what is still  *)
(* on its way through the queue.                                           *)
(***************************************************************************)
Outgoing == sent \o message_queue \o send_queue

CommandsInOrder ==
  \A i \in DOMAIN Outgoing :
    /\ Outgoing[i].msg_id = i - 1
    /\ i = 1 <=> Outgoing[i].msg_type = "ClientLogin"
    /\ Outgoing[i].msg_type = "ClientLogout" => i = Len(Outgoing)
    /\ \A j \in 2 .. i - 1 : Outgoing[i].msg_type # "ClientLogout" =>
                             Outgoing[j].payload < Outgoing[i].payload

(***************************************************************************)
(* The socket is closed only when all that was put on the queue, the       *)
(* Logout included, has been written: so also if the receiver, which is    *)
(* not joined, makes the process fail on the closed socket.                *)
(***************************************************************************)
LogoutBeforeClose ==
  main_pc = "return" =>
    /\ sent = <<Message(0, "ClientLogin", 0)>> \o taken
    /\ Last(sent).msg_type = "ClientLogout"

(***************************************************************************)
(* QUIT or the end of input ends the process.  The main loop leaves the    *)
(* slot locked when it takes InputQuit, and joins the input thread, which  *)
(* must not wait for that lock.                                            *)
(***************************************************************************)
QuitEnds == user_command = InputQuit ~> process # "up"

(***************************************************************************)
(* After SIGINT, and once a message of an unexpected type has arrived, a   *)
(* client that has logged in ends, or waits for nothing but the user's     *)
(* next line.                                                              *)
(***************************************************************************)
InterruptEndsOrWaitsForUser ==
  (interruption_flag /\ main_pc = "top") \/ "other" \in Range(receive_queue) ~>
    \/ process # "up"
    \/ main_pc = "join_input" /\ input_pc = "getline"

\* The command in the slot is written to the server, unless a later line
\* overwrites it, or the program is on its way out.
CommandSentOrReplaced ==
  \A c \in 1 .. MaxLines :
    user_command.input_data = c ~>
      \/ \E i \in DOMAIN sent : sent[i].payload = c
      \/ user_command.input_data > c \/ user_command = InputQuit
      \/ finish_program \/ interruption_flag \/ process # "up"
=============================================================================
