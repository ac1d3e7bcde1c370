---------------------------- MODULE ClientProofs ----------------------------
(***************************************************************************)
(* Proofs about the threads of the client process, for any number of lines *)
(* typed and of datagrams received: what goes out is the login, commands   *)
(* in the order they were typed, and the Logout; and the socket is closed  *)
(* only when all of it has been written.                                   *)
(***************************************************************************)
EXTENDS Client, TLAPS

Inputs == [input_type : {"NoInput", "InputQuit", "InputFollow", "InputSend"},
           input_data : Nat]

Commands == Inputs \ {NoInput, InputQuit}

Messages == [msg_id : Nat,
             msg_type : {"ClientLogin", "ClientFollow", "ClientSend",
                         "ClientLogout"},
             payload : Nat]

Login == Message(0, "ClientLogin", 0)

\* Where main() is before the login is out, and once the Logout is queued.
NotLoggedIn == {"connect", "login"}

LoggedOut == {"join_input", "join_sender", "close", "return"}

TypesOK ==
  /\ main_pc \in {"answer", "top", "input", "server", "stop_input",
                  "stop_receiver", "logout"} \cup NotLoggedIn \cup LoggedOut
  /\ sender_pc \in {"idle", "drain", "write", "done"}
  /\ msg_id \in Nat /\ lines \in Nat
  /\ user_command \in Inputs /\ line \in Inputs
  /\ sent \in Seq(Messages) /\ message_queue \in Seq(Messages)
  /\ send_queue \in Seq(Messages) /\ taken \in Seq(Messages)
  /\ sender_terminate \in BOOLEAN

\* What was written, is being written and is queued is the login and what
\* main() took.
LoginThenTaken ==
  IF main_pc \in NotLoggedIn
    THEN /\ sent = << >> /\ message_queue = << >> /\ send_queue = << >>
         /\ taken = << >>
    ELSE Outgoing = <<Login>> \o taken

\* What main() took is numbered; a Logout is the last, and main() is then past
\* the loop.
TakenNumbered ==
  /\ msg_id = Len(taken)
  /\ \A i \in DOMAIN taken :
       /\ taken[i].msg_id = i
       /\ taken[i].msg_type # "ClientLogin"
       /\ taken[i].msg_type = "ClientLogout" =>
            i = Len(taken) /\ main_pc \in LoggedOut
  /\ main_pc \in LoggedOut =>
       taken # << >> /\ taken[Len(taken)].msg_type = "ClientLogout"

\* Commands were taken in the order of their lines; the one in the slot is
\* later than those taken, the one on its way to the slot later than both.
LinesInOrder ==
  /\ \A i \in DOMAIN taken :
       /\ taken[i].payload <= lines
       /\ \A j \in 1 .. i - 1 : taken[i].msg_type # "ClientLogout" =>
                                taken[j].payload < taken[i].payload
  /\ user_command.input_data <= lines
  /\ user_command \in Commands =>
       /\ 0 < user_command.input_data
       /\ \A i \in DOMAIN taken : taken[i].payload < user_command.input_data
  /\ input_pc \in {"line", "write"} /\ line \in Commands =>
       /\ line.input_data = lines
       /\ user_command.input_data < lines
       /\ \A i \in DOMAIN taken : taken[i].payload < lines
  /\ input_pc = "quit" => line = InputQuit

\* The sender has used up its batch before the next drain, ends only after a
\* Logout it has written, and is waited for.
SenderEnds ==
  /\ sender_pc # "write" => message_queue = << >>
  /\ sender_terminate =>
       \E i \in DOMAIN sent : sent[i].msg_type = "ClientLogout"
  /\ sender_pc = "done" => sender_terminate
  /\ main_pc \in NotLoggedIn \cup {"answer"} => sender_pc = "idle"
  /\ main_pc \in {"close", "return"} => sender_pc = "done"

IInv == TypesOK /\ LoginThenTaken /\ TakenNumbered /\ LinesInOrder /\ SenderEnds

-----------------------------------------------------------------------------
\* The client starts with empty queues and nothing written.
LEMMA InitIInv == Init => IInv
<1>1. SUFFICES ASSUME Init PROVE IInv
  OBVIOUS
<1>2. NoInput \in Inputs /\ NoInput.input_data = 0 /\ NoInput \notin Commands
  BY DEF NoInput, UserInput, Inputs, Commands
<1>3. /\ sent = << >> /\ message_queue = << >> /\ send_queue = << >>
      /\ taken = << >> /\ DOMAIN taken = {} /\ Len(taken) = 0
  BY <1>1 DEF Init
<1>4. LinesInOrder
  BY <1>1, <1>2, <1>3 DEF Init, LinesInOrder
<1>5. TypesOK
  <2>1. << >> \in Seq(Messages)
    OBVIOUS
  <2>2. QED
    BY <1>1, <1>2, <1>3, <2>1 DEF Init, TypesOK, NotLoggedIn
<1>6. LoginThenTaken /\ TakenNumbered /\ SenderEnds
  BY <1>1, <1>3 DEF Init, LoginThenTaken, TakenNumbered, SenderEnds,
    NotLoggedIn, LoggedOut
<1>7. QED
  BY <1>4, <1>5, <1>6 DEF IInv

\* What the types say of the numbers that are compared.
LEMMA Numbers ==
  ASSUME TypesOK
  PROVE  /\ Len(taken) \in Nat /\ DOMAIN taken = 1 .. Len(taken)
         /\ \A i \in DOMAIN taken : taken[i].payload \in Nat
         /\ lines \in Nat /\ user_command.input_data \in Nat
<1>1. /\ taken \in Seq(Messages) /\ user_command \in Inputs /\ lines \in Nat
  BY DEF TypesOK
<1>2. /\ Len(taken) \in Nat /\ DOMAIN taken = 1 .. Len(taken)
      /\ \A i \in DOMAIN taken : taken[i] \in Messages
  BY <1>1
<1>3. QED
  BY <1>1, <1>2 DEF Messages, Inputs

\* Steps that leave the queues and the slot alone.
LEMMA FrameStep ==
  ASSUME IInv,
         UNCHANGED <<msg_id, user_command, line, lines, sent, message_queue,
                     send_queue, taken, sender_terminate, sender_pc, input_pc>>,
         main_pc' \in {"answer", "top", "input", "server", "stop_input",
                  "stop_receiver", "logout"} \cup NotLoggedIn \cup LoggedOut,
         main_pc \in NotLoggedIn <=> main_pc' \in NotLoggedIn,
         main_pc \in LoggedOut <=> main_pc' \in LoggedOut,
         main_pc' = "answer" => main_pc = "answer",
         main_pc' \in {"close", "return"} => sender_pc = "done"
  PROVE  IInv'
BY DEF IInv, TypesOK, LoginThenTaken, Outgoing, TakenNumbered, LinesInOrder,
  SenderEnds

\* exit() leaves everything as it is.
LEMMA FailStep == ASSUME IInv, Fail PROVE IInv'
<1>1. main_pc' = main_pc
  BY DEF Fail, main_vars
<1>2. QED
  BY <1>1, FrameStep DEF Fail, main_vars, slot_vars, input_vars, sender_vars,
    queue_vars, IInv, TypesOK, SenderEnds

-----------------------------------------------------------------------------
\* What main() puts on the send_queue comes last of what goes out.
LEMMA TakeMessage ==
  ASSUME IInv, main_pc \notin NotLoggedIn, NEW m \in Messages,
         send_queue' = Append(send_queue, m), taken' = Append(taken, m),
         UNCHANGED <<sent, message_queue>>
  PROVE  /\ send_queue' \in Seq(Messages) /\ taken' \in Seq(Messages)
         /\ Outgoing' = <<Login>> \o taken'
         /\ Len(taken') = Len(taken) + 1
         /\ DOMAIN taken' = 1 .. Len(taken) + 1
         /\ \A i \in 1 .. Len(taken) : taken'[i] = taken[i]
         /\ taken'[Len(taken) + 1] = m
<1> DEFINE out == sent \o message_queue
           left == send_queue
<1>1. /\ sent \in Seq(Messages) /\ message_queue \in Seq(Messages)
      /\ left \in Seq(Messages) /\ taken \in Seq(Messages)
  BY DEF IInv, TypesOK
<1>2. out \in Seq(Messages)
  BY <1>1
<1>3. out \o left = <<Login>> \o taken
  BY DEF IInv, LoginThenTaken, Outgoing
<1>4. out' = out /\ left' = Append(left, m)
  OBVIOUS
<1>5. Login \in Messages
  BY DEF Login, Message, Messages
<1> HIDE DEF out, left
<1>6. out \o Append(left, m) = Append(out \o left, m)
  BY <1>1, <1>2
<1>7. <<Login>> \o Append(taken, m) = Append(<<Login>> \o taken, m)
  BY <1>1, <1>5
<1>8. Outgoing' = <<Login>> \o taken'
  <2>1. Outgoing' = out' \o left'
    BY DEF Outgoing, out, left
  <2>2. QED
    BY <2>1, <1>3, <1>4, <1>6, <1>7
<1>9. QED
  BY <1>1, <1>8 DEF left

\* Connection and login.
LEMMA LoginSteps ==
  ASSUME IInv, MainConnect \/ MainLogin \/ MainLoginAnswer
  PROVE  IInv'
<1> USE DEF NotLoggedIn, LoggedOut, Goto, main_vars, slot_vars, input_vars,
            flag_vars, sender_vars, receiver_vars, queue_vars
<1>1. CASE Fail
  BY <1>1, FailStep
<1>2. CASE MainConnect /\ ~Fail
  BY <1>2, FrameStep DEF MainConnect
<1>3. CASE MainLogin /\ ~Fail
  <2>1. Login \in Messages /\ sent' = <<Login>>
    BY <1>3 DEF MainLogin, IInv, LoginThenTaken, Login, Message, Messages
  <2>2. Outgoing' = <<Login>> \o taken'
    BY <1>3, <2>1 DEF MainLogin, IInv, LoginThenTaken, Outgoing
  <2>3. QED
    BY <1>3, <2>1, <2>2 DEF MainLogin, IInv, TypesOK, LoginThenTaken,
      TakenNumbered, LinesInOrder, SenderEnds
<1>4. CASE MainLoginAnswer /\ ~Fail
  <2>1. TypesOK'
    BY <1>4 DEF MainLoginAnswer, IInv, TypesOK
  <2>2. LoginThenTaken' /\ TakenNumbered'
    BY <1>4 DEF MainLoginAnswer, IInv, LoginThenTaken, Outgoing, TakenNumbered
  <2>3. LinesInOrder'
    BY <1>4 DEF MainLoginAnswer, IInv, LinesInOrder
  <2>4. SenderEnds'
    BY <1>4 DEF MainLoginAnswer, IInv, SenderEnds
  <2>5. QED
    BY <2>1, <2>2, <2>3, <2>4 DEF IInv
<1>5. QED
  BY <1>1, <1>2, <1>3, <1>4

\* The loop and the clean-up.
LEMMA MainSteps ==
  ASSUME IInv, MainRuns
  PROVE  IInv'
<1> USE DEF NotLoggedIn, LoggedOut, Goto, main_vars, slot_vars, input_vars,
            flag_vars, sender_vars, receiver_vars, queue_vars
<1>1. CASE MainTop \/ MainServer \/ MainTell
  BY <1>1, FrameStep DEF MainTop, MainServer, MainTell
<1>2. CASE MainInput
  <2>1. CASE user_command \in {NoInput, InputQuit}
    BY <1>2, <2>1, FrameStep DEF MainInput
  <2>2. CASE user_command \notin {NoInput, InputQuit}
    <3> DEFINE m == Request(next_msg_id)
               n == Len(taken)
    <3>1. /\ user_command \in Commands /\ user_command.input_data \in Nat
          /\ n \in Nat /\ msg_id = n
      BY <2>2 DEF IInv, TypesOK, Commands, Inputs, TakenNumbered
    <3>2. /\ m \in Messages /\ m.msg_id = n + 1
          /\ m.msg_type \in {"ClientFollow", "ClientSend"}
          /\ m.payload = user_command.input_data
      BY <3>1 DEF Request, next_msg_id, Message, Messages
    <3>3. /\ main_pc = "input" /\ main_pc' = "server"
          /\ send_queue' = Append(send_queue, m) /\ taken' = Append(taken, m)
          /\ msg_id' = n + 1 /\ user_command' = NoInput
          /\ UNCHANGED <<sent, message_queue, sender_pc, sender_terminate,
                         input_pc, line, lines>>
      BY <1>2, <2>2, <3>1 DEF MainInput, next_msg_id
    <3> HIDE DEF m
    <3>4. /\ send_queue' \in Seq(Messages) /\ taken' \in Seq(Messages)
          /\ Outgoing' = <<Login>> \o taken'
          /\ Len(taken') = n + 1 /\ DOMAIN taken' = 1 .. n + 1
          /\ \A i \in 1 .. n : taken'[i] = taken[i]
          /\ taken'[n + 1] = m
      BY <3>2, <3>3, TakeMessage
    <3>5. NoInput \in Inputs /\ NoInput \notin Commands /\ NoInput.input_data = 0
      BY DEF NoInput, UserInput, Inputs, Commands
    <3>6. TypesOK'
      BY <3>1, <3>3, <3>4, <3>5 DEF IInv, TypesOK
    <3>7. LoginThenTaken'
      BY <3>3, <3>4 DEF LoginThenTaken
    <3>8. TakenNumbered'
      BY <3>1, <3>2, <3>3, <3>4 DEF IInv, TypesOK, TakenNumbered
    <3>9. LinesInOrder'
      <4>1. \A i \in 1 .. n : /\ taken[i].payload \in Nat
                              /\ taken[i].payload < user_command.input_data
                              /\ taken[i].payload <= lines
        BY <3>1, Numbers DEF IInv, LinesInOrder
      <4>2. user_command.input_data <= lines /\ lines \in Nat
        BY DEF IInv, TypesOK, LinesInOrder
      <4>3. \A i \in DOMAIN taken' :
              /\ taken'[i].payload <= lines
              /\ \A j \in 1 .. i - 1 : taken'[i].msg_type # "ClientLogout" =>
                                       taken'[j].payload < taken'[i].payload
        <5>1. \A i \in 1 .. n : \A j \in 1 .. i - 1 :
                taken[i].msg_type # "ClientLogout" =>
                  taken[j].payload < taken[i].payload
          BY Numbers DEF IInv, LinesInOrder
        <5>2. ASSUME NEW i \in 1 .. n + 1
              PROVE  /\ taken'[i].payload <= lines
                     /\ \A j \in 1 .. i - 1 :
                          taken'[i].msg_type # "ClientLogout" =>
                            taken'[j].payload < taken'[i].payload
          <6>1. \A j \in 1 .. i - 1 : j \in 1 .. n /\ taken'[j] = taken[j]
            BY <3>1, <3>4
          <6>2. CASE i \in 1 .. n
            BY <3>4, <4>1, <5>1, <6>1, <6>2
          <6>3. CASE i = n + 1
            BY <3>2, <3>4, <4>1, <4>2, <6>1, <6>3
          <6>4. QED
            BY <3>1, <6>2, <6>3
        <5>3. QED
          BY <3>4, <5>2
      <4>4. input_pc \in {"line", "write"} /\ line \in Commands =>
              /\ line.input_data = lines
              /\ 0 < lines
              /\ \A i \in DOMAIN taken' : taken'[i].payload < lines
        <5>1. SUFFICES ASSUME input_pc \in {"line", "write"}, line \in Commands
                       PROVE  /\ line.input_data = lines /\ 0 < lines
                              /\ \A i \in DOMAIN taken' : taken'[i].payload < lines
          OBVIOUS
        <5>2. line.input_data = lines /\ user_command.input_data < lines
          BY <5>1 DEF IInv, LinesInOrder
        <5>3. \A i \in 1 .. n : taken'[i].payload < lines
          BY <3>1, <3>4, <4>1, <4>2, <5>2
        <5>4. QED
          BY <3>1, <3>2, <3>4, <4>2, <5>2, <5>3
      <4>5. QED
        BY <3>3, <3>5, <4>2, <4>3, <4>4 DEF IInv, LinesInOrder
    <3>10. SenderEnds'
      BY <3>3 DEF IInv, SenderEnds
    <3>11. QED
      BY <3>6, <3>7, <3>8, <3>9, <3>10 DEF IInv
  <2>3. QED
    BY <2>1, <2>2
<1>3. CASE MainLogout
  <2> DEFINE m == Message(next_msg_id, "ClientLogout", 0)
             n == Len(taken)
  <2>1. n \in Nat /\ msg_id = n
    BY DEF IInv, TypesOK, TakenNumbered
  <2>2. /\ m \in Messages /\ m.msg_id = n + 1
        /\ m.msg_type = "ClientLogout" /\ m.payload = 0
    BY <2>1 DEF next_msg_id, Message, Messages
  <2>3. /\ main_pc = "logout" /\ main_pc' = "join_input"
        /\ send_queue' = Append(send_queue, m) /\ taken' = Append(taken, m)
        /\ msg_id' = n + 1
        /\ UNCHANGED <<sent, message_queue, sender_pc, sender_terminate,
                       user_command, input_pc, line, lines>>
    BY <1>3, <2>1 DEF MainLogout, next_msg_id
  <2> HIDE DEF m
  <2>4. /\ send_queue' \in Seq(Messages) /\ taken' \in Seq(Messages)
        /\ Outgoing' = <<Login>> \o taken'
        /\ Len(taken') = n + 1 /\ DOMAIN taken' = 1 .. n + 1
        /\ \A i \in 1 .. n : taken'[i] = taken[i]
        /\ taken'[n + 1] = m
    BY <2>2, <2>3, TakeMessage
  <2>5. TypesOK'
    BY <2>1, <2>3, <2>4 DEF IInv, TypesOK
  <2>6. LoginThenTaken'
    BY <2>3, <2>4 DEF LoginThenTaken
  <2>7. TakenNumbered'
    BY <2>1, <2>2, <2>3, <2>4 DEF IInv, TypesOK, TakenNumbered
  <2>8. LinesInOrder'
    <3>1. /\ \A i \in 1 .. n : /\ taken[i].payload \in Nat
                              /\ taken[i].payload <= lines
          /\ lines \in Nat /\ user_command.input_data \in Nat
      BY Numbers DEF IInv, LinesInOrder
    <3>2. \A i \in 1 .. n : \A j \in 1 .. i - 1 :
            taken[i].msg_type # "ClientLogout" =>
              taken[j].payload < taken[i].payload
      BY Numbers DEF IInv, LinesInOrder
    <3>3. \A i \in DOMAIN taken' :
            /\ taken'[i].payload <= lines
            /\ \A j \in 1 .. i - 1 : taken'[i].msg_type # "ClientLogout" =>
                                     taken'[j].payload < taken'[i].payload
      <4>1. ASSUME NEW i \in 1 .. n + 1
            PROVE  /\ taken'[i].payload <= lines
                   /\ \A j \in 1 .. i - 1 :
                        taken'[i].msg_type # "ClientLogout" =>
                          taken'[j].payload < taken'[i].payload
        <5>1. \A j \in 1 .. i - 1 : j \in 1 .. n /\ taken'[j] = taken[j]
          BY <2>1, <2>4
        <5>2. CASE i \in 1 .. n
          BY <2>4, <3>1, <3>2, <5>1, <5>2
        <5>3. CASE i = n + 1
          BY <2>2, <2>4, <3>1, <5>3
        <5>4. QED
          BY <2>1, <5>2, <5>3
      <4>2. QED
        BY <2>4, <4>1
    <3>4. user_command \in Commands =>
            /\ 0 < user_command.input_data
            /\ \A i \in DOMAIN taken' : taken'[i].payload < user_command.input_data
      BY <2>1, <2>2, <2>4, <3>1, Numbers, SMTT(30) DEF IInv, LinesInOrder
    <3>5. input_pc \in {"line", "write"} /\ line \in Commands =>
            /\ line.input_data = lines
            /\ user_command.input_data < lines
            /\ \A i \in DOMAIN taken' : taken'[i].payload < lines
      BY <2>1, <2>2, <2>4, <3>1, Numbers, SMTT(30) DEF IInv, LinesInOrder
    <3>6. QED
      BY <2>3, <3>3, <3>4, <3>5 DEF IInv, LinesInOrder
  <2>9. SenderEnds'
    BY <2>3 DEF IInv, SenderEnds
  <2>10. QED
    BY <2>5, <2>6, <2>7, <2>8, <2>9 DEF IInv
<1>4. CASE MainJoin
  BY <1>4, FrameStep DEF MainJoin
<1>5. CASE MainClose
  BY <1>5, FrameStep DEF MainClose, IInv, SenderEnds
<1>6. QED
  BY <1>1, <1>2, <1>3, <1>4, <1>5 DEF MainRuns

-----------------------------------------------------------------------------
\* The thread that reads what the user types.
LEMMA InputSteps ==
  ASSUME IInv, InputGetline \/ InputRuns
  PROVE  IInv'
<1> USE DEF Input, main_vars, slot_vars, flag_vars, sender_vars, receiver_vars,
            queue_vars
<1>1. /\ InputQuit \in Inputs /\ NoInput \in Inputs
      /\ InputQuit \notin Commands /\ NoInput \notin Commands
      /\ InputQuit.input_data = 0
  BY DEF InputQuit, NoInput, UserInput, Inputs, Commands
<1>2. /\ lines \in Nat /\ user_command.input_data \in Nat
      /\ user_command.input_data <= lines
      /\ \A i \in DOMAIN taken : taken[i].payload \in Nat /\ taken[i].payload <= lines
  BY Numbers DEF IInv, LinesInOrder
<1>3. ASSUME UNCHANGED <<main_pc, msg_id, sent, message_queue, send_queue, taken,
                         sender_terminate, sender_pc>>,
             lines' \in Nat, user_command' \in Inputs, line' \in Inputs,
             LinesInOrder'
      PROVE  IInv'
  BY <1>3 DEF IInv, TypesOK, LoginThenTaken, Outgoing, TakenNumbered, SenderEnds
<1>4. CASE InputGetline
  <2>1. CASE /\ line' = InputQuit /\ input_pc' = "quit" /\ UNCHANGED lines
    <3>1. LinesInOrder'
      BY <1>1, <1>4, <2>1 DEF InputGetline, IInv, LinesInOrder
    <3>2. QED
      BY <1>1, <1>2, <1>3, <1>4, <2>1, <3>1 DEF InputGetline, IInv, TypesOK
  <2>2. CASE /\ lines' = lines + 1 /\ input_pc' = "line"
             /\ line' \in {NoInput, InputQuit, UserInput("InputFollow", lines + 1),
                           UserInput("InputSend", lines + 1)}
    <3>1. line' \in Inputs
      BY <1>1, <1>2, <2>2 DEF UserInput, Inputs
    <3>2. line' \in Commands => line'.input_data = lines + 1
      BY <1>1, <2>2 DEF UserInput
    <3>3. /\ user_command.input_data < lines + 1
          /\ \A i \in DOMAIN taken : taken[i].payload < lines + 1
                                   /\ taken[i].payload <= lines + 1
      BY <1>2
    <3>4. LinesInOrder'
      BY <1>2, <1>4, <2>2, <3>2, <3>3 DEF InputGetline, IInv, LinesInOrder
    <3>5. QED
      BY <1>2, <1>3, <1>4, <2>2, <3>1, <3>4 DEF InputGetline, IInv, TypesOK
  <2>3. QED
    BY <1>4, <2>1, <2>2 DEF InputGetline
<1>5. CASE InputFlag
  <2>1. /\ input_pc' \in {"line", "write"} => input_pc \in {"line", "write"}
        /\ input_pc' = "quit" => line = InputQuit
        /\ UNCHANGED <<line, lines, user_command, taken>>
    BY <1>5 DEF InputFlag
  <2>2. LinesInOrder'
    BY <2>1 DEF IInv, LinesInOrder
  <2>3. QED
    BY <1>3, <1>5, <2>2 DEF InputFlag, IInv, TypesOK
<1>6. CASE InputWrite
  <2>1. /\ user_command' = line /\ UNCHANGED <<line, lines, taken>>
        /\ input_pc' \notin {"line", "write", "quit"}
    BY <1>6 DEF InputWrite
  <2>2. CASE line \in Commands
    <3>1. input_pc = "write"
      BY <1>1, <1>6, <2>2 DEF InputWrite, IInv, LinesInOrder
    <3>2. LinesInOrder'
      BY <1>2, <2>1, <2>2, <3>1 DEF IInv, LinesInOrder
    <3>3. QED
      BY <1>3, <1>6, <3>2 DEF InputWrite, IInv, TypesOK
  <2>3. CASE line \notin Commands
    <3>1. line \in {NoInput, InputQuit} /\ line.input_data = 0
      BY <2>3 DEF IInv, TypesOK, Commands, NoInput, InputQuit, UserInput
    <3>2. LinesInOrder'
      BY <1>2, <2>1, <2>3, <3>1 DEF IInv, LinesInOrder
    <3>3. QED
      BY <1>3, <1>6, <3>2 DEF InputWrite, IInv, TypesOK
  <2>4. QED
    BY <2>2, <2>3
<1>7. QED
  BY <1>4, <1>5, <1>6 DEF InputRuns

\* The sender.
LEMMA SenderSteps ==
  ASSUME IInv, SenderRuns
  PROVE  IInv'
<1> USE DEF Sender, main_vars, slot_vars, input_vars, flag_vars, receiver_vars
<1>1. CASE Fail
  BY <1>1, FailStep
<1>2. ASSUME UNCHANGED <<main_pc, msg_id, user_command, input_pc, line, lines,
                         taken>>,
             sent' \in Seq(Messages), message_queue' \in Seq(Messages),
             send_queue' \in Seq(Messages), sender_terminate' \in BOOLEAN,
             sender_pc' \in {"drain", "write", "done"},
             main_pc \notin NotLoggedIn, Outgoing' = Outgoing, SenderEnds'
      PROVE  IInv'
  BY <1>2 DEF IInv, TypesOK, LoginThenTaken, TakenNumbered, LinesInOrder
<1>3. /\ sent \in Seq(Messages) /\ message_queue \in Seq(Messages)
      /\ send_queue \in Seq(Messages) /\ sender_terminate \in BOOLEAN
      /\ sender_pc # "idle" => main_pc \notin NotLoggedIn \cup {"answer"}
      /\ sender_pc # "done" => main_pc \notin {"close", "return"}
  BY DEF IInv, TypesOK, SenderEnds
<1>4. CASE SenderDrain
  <2>1. message_queue = << >>
    BY <1>4 DEF SenderDrain, IInv, SenderEnds
  <2>2. sent \o send_queue \o << >> = sent \o << >> \o send_queue
    BY <1>3
  <2>3. Outgoing' = Outgoing
    BY <1>4, <2>1, <2>2 DEF SenderDrain, Outgoing
  <2>4. SenderEnds'
    BY <1>3, <1>4 DEF SenderDrain, IInv, SenderEnds
  <2>5. QED
    BY <1>2, <1>3, <1>4, <2>3, <2>4 DEF SenderDrain
<1>5. CASE SenderWrite /\ ~Fail
  <2> DEFINE h == Head(message_queue)
             rest == Tail(message_queue)
  <2>1. /\ message_queue # << >> /\ sender_pc = "write" /\ sender_pc' = "write"
        /\ sent' = Append(sent, h) /\ message_queue' = rest
        /\ sender_terminate' = (sender_terminate \/ h.msg_type = "ClientLogout")
        /\ UNCHANGED <<send_queue, taken>>
    BY <1>5 DEF SenderWrite
  <2>2. h \in Messages /\ rest \in Seq(Messages)
    BY <1>3, <2>1
  <2>3. Append(sent, h) \in Seq(Messages) /\ Append(sent, h) \o rest = sent \o message_queue
    BY <1>3, <2>1, <2>2
  <2>4. Outgoing' = Outgoing
    BY <2>1, <2>3 DEF Outgoing
  <2>5. /\ DOMAIN sent' = 1 .. Len(sent) + 1
        /\ \A i \in DOMAIN sent : sent'[i] = sent[i] /\ i \in DOMAIN sent'
        /\ Len(sent) + 1 \in DOMAIN sent' /\ sent'[Len(sent) + 1] = h
    BY <1>3, <2>1, <2>2
  <2>6. sender_terminate' => \E i \in DOMAIN sent' : sent'[i].msg_type = "ClientLogout"
    BY <2>1, <2>5 DEF IInv, SenderEnds
  <2>7. SenderEnds'
    BY <1>3, <1>5, <2>1, <2>6 DEF SenderWrite, IInv, SenderEnds
  <2>8. QED
    BY <1>2, <1>3, <1>5, <2>1, <2>2, <2>3, <2>4, <2>7 DEF SenderWrite
<1>6. CASE SenderTest
  <2>1. Outgoing' = Outgoing
    BY <1>6 DEF SenderTest, Outgoing
  <2>2. SenderEnds'
    BY <1>3, <1>6 DEF SenderTest, IInv, SenderEnds
  <2>3. QED
    BY <1>2, <1>3, <1>6, <2>1, <2>2 DEF SenderTest
<1>7. QED
  BY <1>1, <1>4, <1>5, <1>6 DEF SenderRuns, SenderWrite

\* The receiver, and the handler of SIGINT.
LEMMA OtherSteps ==
  ASSUME IInv, Receiver \/ interruption_treatment
  PROVE  IInv'
<1>1. CASE Fail
  BY <1>1, FailStep
<1>2. CASE ~Fail
  <2>1. UNCHANGED <<main_pc, msg_id, user_command, line, lines, sent,
                    message_queue, send_queue, taken, sender_terminate,
                    sender_pc, input_pc>>
    BY <1>2 DEF Receiver, ReceiverRead, ReceiverPush, ReceiverFlag,
      interruption_treatment, main_vars, slot_vars, input_vars, sender_vars,
      queue_vars
  <2>2. QED
    BY <2>1, FrameStep DEF IInv, TypesOK, SenderEnds
<1>3. QED
  BY <1>1, <1>2

-----------------------------------------------------------------------------
(***************************************************************************)
(* The inductive invariant of the client's threads.                        *)
(***************************************************************************)
THEOREM ClientInvariant == Spec => []IInv
<1>1. ASSUME IInv, [Next]_vars PROVE IInv'
  <2>1. CASE UNCHANGED vars
    <3>1. UNCHANGED <<main_pc, msg_id, user_command, line, lines, sent,
                      message_queue, send_queue, taken, sender_terminate,
                      sender_pc, input_pc>>
      BY <2>1 DEF vars, main_vars, slot_vars, input_vars, sender_vars, queue_vars
    <3>2. QED
      BY <1>1, <3>1, FrameStep DEF IInv, TypesOK, SenderEnds
  <2>2. QED
    BY <1>1, <2>1, LoginSteps, MainSteps, InputSteps, SenderSteps, OtherSteps
      DEF Next
<1>2. QED
  BY <1>1, InitIInv, PTL DEF Spec

(***************************************************************************)
(* The user's commands go out in the order they were typed, numbered by    *)
(* MsgIdManager without a gap, after the login and before the Logout,      *)
(* although the input thread may overwrite the slot at any time and the    *)
(* sender drains the queue whenever it likes.                              *)
(***************************************************************************)
THEOREM AlwaysCommandsInOrder == Spec => []CommandsInOrder
<1>1. ASSUME IInv PROVE CommandsInOrder
  <2>1. CASE main_pc \in NotLoggedIn
    <3>1. Outgoing = << >>
      BY <1>1, <2>1 DEF IInv, LoginThenTaken, Outgoing
    <3>2. QED
      BY <3>1 DEF CommandsInOrder
  <2>2. CASE main_pc \notin NotLoggedIn
    <3> DEFINE out == Outgoing
               n == Len(taken)
    <3>1. out = <<Login>> \o taken /\ taken \in Seq(Messages) /\ Login \in Messages
      BY <1>1, <2>2 DEF IInv, TypesOK, LoginThenTaken, Login, Message, Messages
    <3> HIDE DEF out
    <3>2. /\ n \in Nat /\ Len(out) = n + 1 /\ DOMAIN out = 1 .. n + 1
          /\ out[1] = Login
          /\ \A i \in 2 .. n + 1 : out[i] = taken[i - 1] /\ i - 1 \in 1 .. n
      BY <3>1
    <3>3. /\ Login.msg_id = 0 /\ Login.msg_type = "ClientLogin"
      BY DEF Login, Message
    <3>4. \A k \in 1 .. n :
            /\ taken[k].msg_id = k
            /\ taken[k].msg_type # "ClientLogin"
            /\ taken[k].msg_type = "ClientLogout" => k = n
            /\ \A j \in 1 .. k - 1 : taken[k].msg_type # "ClientLogout" =>
                                     taken[j].payload < taken[k].payload
      BY <1>1, SMTT(30) DEF IInv, TypesOK, TakenNumbered, LinesInOrder
    <3>5. ASSUME NEW i \in 1 .. n + 1
          PROVE  /\ out[i].msg_id = i - 1
                 /\ i = 1 <=> out[i].msg_type = "ClientLogin"
                 /\ out[i].msg_type = "ClientLogout" => i = Len(out)
                 /\ \A j \in 2 .. i - 1 : out[i].msg_type # "ClientLogout" =>
                                          out[j].payload < out[i].payload
      <4>1. CASE i = 1
        BY <3>2, <3>3, <4>1
      <4>2. CASE i # 1
        <5>1. i \in 2 .. n + 1 /\ i - 1 \in 1 .. n /\ out[i] = taken[i - 1]
          BY <3>2, <4>2
        <5>2. \A j \in 2 .. i - 1 : j - 1 \in 1 .. (i - 1) - 1 /\ out[j] = taken[j - 1]
          BY <3>2, <5>1
        <5>3. QED
          BY <3>2, <3>4, <5>1, <5>2
      <4>3. QED
        BY <4>1, <4>2
    <3>6. QED
      BY <3>2, <3>5 DEF CommandsInOrder, out
  <2>3. QED
    BY <2>1, <2>2
<1>2. QED
  BY <1>1, ClientInvariant, PTL

(***************************************************************************)
(* main() closes the socket when fn_client_sender has written all it was   *)
(* given, the Logout last: main() pushes the Logout after everything else, *)
(* the sender ends only with the batch that holds it, and is joined.       *)
(***************************************************************************)
THEOREM AlwaysLogoutBeforeClose == Spec => []LogoutBeforeClose
<1>1. ASSUME IInv, CommandsInOrder, main_pc = "return"
      PROVE  /\ sent = <<Message(0, "ClientLogin", 0)>> \o taken
             /\ Last(sent).msg_type = "ClientLogout"
  <2>1. /\ sent \in Seq(Messages) /\ send_queue \in Seq(Messages)
        /\ message_queue = << >>
        /\ Outgoing = <<Login>> \o taken
    BY <1>1 DEF IInv, TypesOK, SenderEnds, LoginThenTaken, NotLoggedIn
  <2>2. PICK i \in DOMAIN sent : sent[i].msg_type = "ClientLogout"
    BY <1>1 DEF IInv, SenderEnds
  <2>3. Outgoing = sent \o send_queue
    BY <2>1 DEF Outgoing
  <2>4. /\ Len(Outgoing) = Len(sent) + Len(send_queue)
        /\ i \in 1 .. Len(sent) /\ i \in DOMAIN Outgoing
        /\ Outgoing[i] = sent[i]
        /\ Len(sent) \in Nat /\ Len(send_queue) \in Nat
    <3>1. sent \in Seq(Messages) /\ send_queue \in Seq(Messages)
      BY <2>1
    <3>2. QED
      BY <2>3, <3>1
  <2>5. i = Len(Outgoing)
    BY <1>1, <2>2, <2>4 DEF CommandsInOrder
  <2>6. Len(send_queue) = 0 /\ i = Len(sent)
    BY <2>4, <2>5
  <2>7. send_queue = << >>
    BY <2>1, <2>6
  <2>8. QED
    BY <2>1, <2>2, <2>3, <2>6, <2>7 DEF Login, Last
<1>2. IInv /\ CommandsInOrder => LogoutBeforeClose
  BY <1>1 DEF LogoutBeforeClose
<1>3. QED
  BY <1>2, ClientInvariant, AlwaysCommandsInOrder, PTL
=============================================================================
